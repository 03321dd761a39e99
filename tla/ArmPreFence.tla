---------------------------- MODULE ArmPreFence ----------------------------
(***************************************************************************)
(* The PreFence kernel patch for the Raspberry Pi 4 (Cortex-A72).  The     *)
(* prefetchers are controlled by four bits of CPUACTLR_EL1, a register of  *)
(* each CPU, so there is no mask and no core to share: context_switch()    *)
(* and set_arm_prefetch() set the bits of the CPU they run on by the flag  *)
(* of their task.  The two read-modify-write sequences run with interrupts *)
(* disabled and only their own CPU reaches the register, so each of them   *)
(* is one step here.                                                       *)
(***************************************************************************)
EXTENDS KernelTasks

CONSTANTS
  RegBits,       (* the bits of CPUACTLR_EL1                               *)
  PfBits         (* the four prefetcher-disable bits of it                 *)

ASSUME ArmAssumption == PfBits \subseteq RegBits

VARIABLES
  reg,           (* per CPU, the bits that are set in CPUACTLR_EL1         *)
  stray          (* history: CPUs where set_arm_prefetch() was the last to *)
                 (* write the register, for a task that had left the CPU   *)

armVars == <<reg, stray>>
vars    == <<kernelVars, armVars>>

\* The firmware left any value in the registers.
Init ==
  /\ KernelInit
  /\ reg \in [Cpus -> SUBSET RegBits]
  /\ stray = {}

\* Faulty variants: the bits are only ever set; one prefetcher's bit is
\* forgotten when they are set.
WriteRegisterSetsOnly(c) ==
  reg' = [reg EXCEPT ![c] = IF flag[subject[c]] THEN @ \cup PfBits ELSE @]
WriteRegisterPartly(c) ==
  reg' = [reg EXCEPT ![c] =
            IF flag[subject[c]]
            THEN @ \cup (PfBits \ {CHOOSE b \in PfBits : TRUE})
            ELSE @ \ PfBits]

\* 1. Read current state, 2. compute target state by the flag of the
\* handler's task, 3. write target state.
WriteRegister(c) ==
  reg' = [reg EXCEPT ![c] = IF flag[subject[c]] THEN @ \cup PfBits ELSE @ \ PfBits]

\* The whole of a handler's work on CPU c, and its return.
FinishHandler(c) ==
  /\ InHandler(c)
  /\ WriteRegister(c)
  /\ stray' = IF HandledCpu(c) = c THEN stray \ {c} ELSE stray \cup {c}
  /\ EndHandler(c)

Next ==
  \/ TaskStep /\ UNCHANGED armVars
  \/ \E c \in Cpus, next \in AllTasks : BeginSwitch(c, next) /\ UNCHANGED armVars
  \/ \E t \in Tasks, c \in Cpus : BeginCall(t, c) /\ UNCHANGED armVars
  \/ \E c \in Cpus : FinishHandler(c)

Spec == Init /\ [][Next]_vars

-----------------------------------------------------------------------------
(* Properties.                                                             *)

TypeOK ==
  /\ KernelTypeOK
  /\ reg \in [Cpus -> SUBSET RegBits]
  /\ stray \in SUBSET Cpus

(***************************************************************************)
(* While a task executes user code, the prefetchers of its CPU are as its  *)
(* flag says, unless set_arm_prefetch() was run on that CPU for a task     *)
(* that had migrated away: nothing but such a stray call breaks the        *)
(* promise, and the next context switch of the CPU restores it.            *)
(***************************************************************************)
RegisterObeysFlag ==
  \A t \in Tasks, c \in Cpus :
    InUserMode(t, c) /\ c \notin stray =>
      reg[c] \cap PfBits = IF flag[t] THEN PfBits ELSE {}

(***************************************************************************)
(* On a kernel that does not preempt system calls, a task with the flag    *)
(* never executes user code with a prefetcher enabled.                     *)
(***************************************************************************)
FlaggedRunsProtected ==
  \A t \in Tasks, c \in Cpus :
    InUserMode(t, c) /\ flag[t] => PfBits \subseteq reg[c]

\* Why these hold: the register is right from the handler's end on, and a
\* call that finds its task gone leaves the task's new CPU to its migration.
RegisterFollowsFlag ==
  \A c \in Cpus \ stray :
    /\ running[c] \in Tasks
    /\ \/ sys[running[c]] = "user"
       \/ sys[running[c]] \in {"evaluated", "called"} /\ callCpu[running[c]] # c
    => reg[c] \cap PfBits = IF flag[running[c]] THEN PfBits ELSE {}

\* On a kernel that does not preempt system calls no call is stray.
CallsFindTheirTask ==
  /\ \A t \in Tasks : sys[t] \in {"evaluated", "called"} => callCpu[t] = taskCpu[t]
  /\ stray = {}

(***************************************************************************)
(* No other bit of the register ever changes.                              *)
(***************************************************************************)
KeepsOtherBits == [][\A c \in Cpus : reg'[c] \ PfBits = reg[c] \ PfBits]_vars

(***************************************************************************)
(* On a kernel that does not preempt system calls, the patch implements    *)
(* the policy, with each CPU a core of its own.                            *)
(***************************************************************************)
Policy == INSTANCE PrefetchPolicy WITH
  Cores    <- Cpus,
  CoreOf   <- [c \in Cpus |-> c],
  flag     <- effective,
  disabled <- [c \in Cpus |-> reg[c] \cap PfBits],
  booted   <- TRUE

ImplementsPolicy == Policy!Spec

\* Outside prctl, a task's flag is the effective one.
FlagsEffective ==
  /\ ~effective[Idle]
  /\ \A t \in Tasks : sys[t] = "user" => effective[t] = flag[t]
=============================================================================
