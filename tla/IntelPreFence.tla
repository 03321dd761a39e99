--------------------------- MODULE IntelPreFence ---------------------------
(***************************************************************************)
(* The PreFence kernel patch for Intel x86_64.  A global cpumask holds one *)
(* bit per logical CPU: "this CPU runs a task with the flag".  Two         *)
(* handlers keep the mask and the prefetcher bits of MSR 0x1A4 in step     *)
(* with the flags: the hunk in context_switch(), and set_intel_prefetch(), *)
(* which prctl calls.  Both update the mask, read the MSR, compute its     *)
(* target from the mask bits of the core's sibling CPUs, and write the     *)
(* target if it differs.  The MSR is shared by the CPUs (hyperthreads) of  *)
(* a core and no lock covers these steps.                                  *)
(***************************************************************************)
EXTENDS KernelTasks

CONSTANTS
  Cores,         (* physical cores, each with one MSR 0x1A4                *)
  CoreOf,        (* the core of each CPU                                   *)
  MsrBits,       (* the bits of the MSR's low word                         *)
  PfBits         (* the prefetcher-disable bits of it, 0b1111 in the patch *)

ASSUME IntelAssumption ==
  /\ CoreOf \in [Cpus -> Cores]
  /\ PfBits \subseteq MsrBits

VARIABLES
  topology,      (* whether topology_sibling_cpumask() is initialised      *)
  mask,          (* prefetch_disable_cpumask                               *)
  msr,           (* per core, the bits that are set in MSR 0x1A4           *)
  lo,            (* per CPU, a handler's msr_lo                            *)
  target,        (* per CPU, a handler's msr_lo_target                     *)
  (* History variables, which no guard reads:                              *)
  alone,         (* CPUs whose handler has overlapped no sibling's handler *)
  synced         (* cores whose last handler overlapped no other, and was  *)
                 (* for a task on that core                                *)

localVars == <<lo, target>>
histVars  == <<alone, synced>>
intelVars == <<topology, mask, msr, localVars, histVars>>
vars      == <<kernelVars, intelVars>>

Siblings(c) == {d \in Cpus : CoreOf[d] = CoreOf[c]}

\* No flag is set, and the firmware left any value in the MSRs.
Init ==
  /\ KernelInit
  /\ topology = FALSE
  /\ mask = {}
  /\ msr \in [Cores -> SUBSET MsrBits]
  /\ lo = [c \in Cpus |-> {}]
  /\ target = [c \in Cpus |-> {}]
  /\ alone = {}
  /\ synced = {}

-----------------------------------------------------------------------------
(* The steps of both handlers.                                             *)

\* 0. Update global cpumask: the bit of CPU d gets the flag of task t.
UpdateMask(d, t) == mask' = IF flag[t] THEN mask \cup {d} ELSE mask \ {d}

\* History: a handler starts on CPU c.
EnterCore(c) ==
  /\ alone' = IF \E s \in Siblings(c) : InHandler(s)
              THEN alone \ Siblings(c)
              ELSE alone \cup {c}
  /\ synced' = synced \ {CoreOf[c]}

\* Faulty variant: the hunk sits after switch_to() and sees prev as current.
SwitchBeginByPrev(c, next) ==
  /\ topology \/ c = BootCpu
  /\ BeginSwitch(c, next)
  /\ UpdateMask(c, running[c])
  /\ EnterCore(c)
  /\ UNCHANGED <<topology, msr, localVars>>

\* context_switch() up to its update of the mask.  Secondary CPUs start
\* once the boot CPU has set up the topology.
SwitchBegin(c, next) ==
  /\ topology \/ c = BootCpu
  /\ BeginSwitch(c, next)
  /\ UpdateMask(c, next)
  /\ EnterCore(c)
  /\ UNCHANGED <<topology, msr, localVars>>

\* Faulty variant: the bit is that of the CPU the function runs on.
CallBeginHere(t, c) ==
  /\ BeginCall(t, c)
  /\ UpdateMask(c, t)
  /\ EnterCore(c)
  /\ UNCHANGED <<topology, msr, localVars>>

\* set_intel_prefetch(t) on CPU c, up to its update of the mask.
CallBegin(t, c) ==
  /\ BeginCall(t, c)
  /\ UpdateMask(taskCpu[t], t)
  /\ EnterCore(c)
  /\ UNCHANGED <<topology, msr, localVars>>

\* 1. Read current state.
ReadMsr(c) ==
  /\ pc[c] = "read"
  /\ lo' = [lo EXCEPT ![c] = msr[CoreOf[c]]]
  /\ pc' = [pc EXCEPT ![c] = "compute"]
  /\ UNCHANGED <<taskVars, schedVars, syscallVars, kind, subject>>
  /\ UNCHANGED <<topology, mask, msr, target, histVars>>

\* Only context_switch() tests for a missing sibling mask.
SkipsControl(c) == kind[c] = "switch" /\ ~topology

\* Faulty variants: only the CPU's own bit counts; a constant word is written.
WantedByOneCpu(c, word) == IF c \in mask THEN word \cup PfBits ELSE word \ PfBits
WantedConstant(c, word) ==
  IF Siblings(c) \cap mask = {} THEN word \cap {} ELSE PfBits

\* The MSR word for the core of CPU c, given the word read from some MSR.
Wanted(c, word) ==
  IF Siblings(c) \cap mask = {} THEN word \ PfBits ELSE word \cup PfBits

\* 2. Compute target state.
ComputeTarget(c) ==
  /\ pc[c] = "compute"
  /\ ~SkipsControl(c)
  /\ target' = [target EXCEPT ![c] = Wanted(HandledCpu(c), lo[c])]
  /\ pc' = [pc EXCEPT ![c] = "write"]
  /\ UNCHANGED <<taskVars, schedVars, syscallVars, kind, subject>>
  /\ UNCHANGED <<topology, mask, msr, lo, histVars>>

\* The end of the handler on CPU c, with its local variables.
LeaveCore(c) ==
  /\ EndHandler(c)
  /\ lo' = [lo EXCEPT ![c] = {}]
  /\ target' = [target EXCEPT ![c] = {}]
  /\ alone' = alone \ {c}

\* goto skip_prefetch_control: switch without touching the MSR.
SkipPrefetchControl(c) ==
  /\ pc[c] = "compute"
  /\ SkipsControl(c)
  /\ LeaveCore(c)
  /\ UNCHANGED <<topology, mask, msr, synced>>

\* Faulty variant: a core's prefetchers are disabled but never enabled again.
WriteMsrDisablesOnly(c) ==
  /\ pc[c] = "write"
  /\ msr' = [msr EXCEPT ![CoreOf[c]] = lo[c] \cup target[c]]
  /\ synced' = IF c \in alone /\ HandledCpu(c) \in Siblings(c)
               THEN synced \cup {CoreOf[c]}
               ELSE synced
  /\ LeaveCore(c)
  /\ UNCHANGED <<topology, mask>>

\* 3. Write target state, if it differs from the state read before.
WriteMsr(c) ==
  /\ pc[c] = "write"
  /\ msr' = IF target[c] # lo[c]
            THEN [msr EXCEPT ![CoreOf[c]] = target[c]]
            ELSE msr
  /\ synced' = IF c \in alone /\ HandledCpu(c) \in Siblings(c)
               THEN synced \cup {CoreOf[c]}
               ELSE synced
  /\ LeaveCore(c)
  /\ UNCHANGED <<topology, mask>>

-----------------------------------------------------------------------------
\* Boot code (external) allocates and fills the sibling masks.
TopologyReady ==
  /\ ~topology
  /\ topology' = TRUE
  /\ UNCHANGED <<kernelVars, mask, msr, localVars, histVars>>

\* User programs run only after that.
UserStep == topology /\ TaskStep /\ UNCHANGED intelVars

HandlerStep(c) ==
  \/ ReadMsr(c)
  \/ ComputeTarget(c)
  \/ SkipPrefetchControl(c)
  \/ WriteMsr(c)

Next ==
  \/ TopologyReady
  \/ UserStep
  \/ \E c \in Cpus, next \in AllTasks : SwitchBegin(c, next)
  \/ \E t \in Tasks, c \in Cpus : CallBegin(t, c)
  \/ \E c \in Cpus : HandlerStep(c)

Spec == Init /\ [][Next]_vars

(***************************************************************************)
(* A CPU finishes the handler it is in.  A request to a CPU is an          *)
(* interrupt that stays pending until the CPU takes it, so it is taken     *)
(* even if the CPU keeps entering other handlers: strong fairness.         *)
(***************************************************************************)
Fairness ==
  /\ \A c \in Cpus : WF_vars(HandlerStep(c))
  /\ \A t \in Tasks, c \in Cpus : SF_vars(CallBegin(t, c))

-----------------------------------------------------------------------------
(* Properties.                                                             *)

TypeOK ==
  /\ KernelTypeOK
  /\ topology \in BOOLEAN
  /\ mask \in SUBSET Cpus
  /\ msr \in [Cores -> SUBSET MsrBits]
  /\ lo \in [Cpus -> SUBSET MsrBits]
  /\ target \in [Cpus -> SUBSET MsrBits]
  /\ alone \in SUBSET Cpus
  /\ synced \in SUBSET Cores

\* CPU c is not switching, and its task is not inside prctl.
Settled(c) == ~Switching(c) /\ (running[c] \in Tasks => sys[running[c]] = "user")

(***************************************************************************)
(* Whatever the tasks do and wherever they migrate, the bit of a settled   *)
(* CPU in prefetch_disable_cpumask is the flag of the task it runs.  Both  *)
(* handlers and fork() have to cooperate for this: set_intel_prefetch()    *)
(* may run on a CPU the task has left.                                     *)
(***************************************************************************)
MaskAccurate == \A c \in Cpus : Settled(c) => (c \in mask <=> flag[running[c]])

(***************************************************************************)
(* A core whose last handler ran without a sibling's handler beside it, on *)
(* behalf of a task of that core, obeys the flags: all prefetcher bits are *)
(* set if some CPU of the core runs a flagged task, and all are clear      *)
(* otherwise, whatever earlier handlers left behind.                       *)
(***************************************************************************)
SyncedCoreObeysFlags ==
  \A k \in synced :
    (\A c \in Cpus : CoreOf[c] = k => Settled(c)) =>
      msr[k] \cap PfBits
        = IF \E c \in Cpus : CoreOf[c] = k /\ flag[running[c]] THEN PfBits ELSE {}

\* Why MaskAccurate holds: the bit of a CPU is up to date from its handler's
\* first step on, and a call that finds its task gone changes no bit, as the
\* task's migration already brought the bit up to date.
MaskFollowsFlags ==
  /\ \A c \in Cpus : Switching(c) => (c \in mask <=> flag[subject[c]])
  /\ \A c \in Cpus :
       /\ ~Switching(c)
       /\ running[c] \in Tasks =>
            \/ sys[running[c]] = "user"
            \/ sys[running[c]] \in {"evaluated", "called"} /\ callCpu[running[c]] # c
       => (c \in mask <=> flag[running[c]])
  /\ \A c \in Cpus : InHandler(c) /\ kind[c] = "call" =>
       (taskCpu[subject[c]] \in mask <=> flag[subject[c]])

\* Why SyncedCoreObeysFlags holds: what a handler without company has read and
\* computed is still true when it writes, and nothing changes afterwards.
AloneOnCore ==
  \A c \in alone :
    /\ InHandler(c)
    /\ \A d \in Cpus : CoreOf[d] = CoreOf[c] /\ InHandler(d) => d = c

LoneReadIsCurrent ==
  \A c \in alone : pc[c] \in {"compute", "write"} => lo[c] = msr[CoreOf[c]]

LoneTargetIsCurrent ==
  \A c \in alone :
    pc[c] = "write" /\ CoreOf[HandledCpu(c)] = CoreOf[c] =>
      target[c] = Wanted(HandledCpu(c), lo[c])

SyncedCoreFollowsMask ==
  /\ \A c \in Cpus : CoreOf[c] \in synced => ~InHandler(c)
  /\ \A k \in synced :
       msr[k] \cap PfBits = IF \E c \in mask : CoreOf[c] = k THEN PfBits ELSE {}

(***************************************************************************)
(* The inductive invariant: together with the placement of tasks, these    *)
(* facts survive every interleaving of handlers, migrations and calls.     *)
(***************************************************************************)
IInv ==
  /\ TaskPlacement
  /\ MaskFollowsFlags
  /\ AloneOnCore
  /\ LoneReadIsCurrent
  /\ LoneTargetIsCurrent
  /\ SyncedCoreFollowsMask

\* Why KeepsOtherBits holds: a handler's words differ from the MSR only in
\* prefetcher bits, however many other handlers have written it meanwhile.
OtherBitsCurrent ==
  \A c \in Cpus :
    /\ pc[c] \in {"compute", "write"} => lo[c] \ PfBits = msr[CoreOf[c]] \ PfBits
    /\ pc[c] = "write" => target[c] \ PfBits = msr[CoreOf[c]] \ PfBits

OneCpuPerCore == \A c, d \in Cpus : CoreOf[c] = CoreOf[d] => c = d

\* What else holds, inductively, with one CPU per core on a kernel that does
\* not preempt system calls: every handler is alone, no call is stray, and so
\* every core whose CPU runs a flagged task is synced.
PlainCoresSynced ==
  /\ \A t \in Tasks : flag[t] => topology
  /\ \A t \in Tasks : sys[t] \in {"evaluated", "called"} => callCpu[t] = taskCpu[t]
  /\ \A c \in Cpus : InHandler(c) => c \in alone
  /\ \A c \in mask : InHandler(c) \/ CoreOf[c] \in synced

(***************************************************************************)
(* The promise of the patch: while a task with the flag executes user      *)
(* code, the prefetchers of its core are disabled.                         *)
(***************************************************************************)
FlaggedRunsProtected ==
  \A t \in Tasks, c \in Cpus :
    InUserMode(t, c) /\ flag[t] => PfBits \subseteq msr[CoreOf[c]]

(***************************************************************************)
(* The handlers write back the whole MSR word they read, with only the     *)
(* prefetcher bits changed: no other bit of any MSR ever changes.          *)
(***************************************************************************)
KeepsOtherBits == [][\A k \in Cores : msr'[k] \ PfBits = msr[k] \ PfBits]_vars

(***************************************************************************)
(* Every prctl that has sent its request returns.  A preempted caller asks *)
(* a CPU that it has left meanwhile: two CPUs that wait for each other's   *)
(* set_intel_prefetch() do not block each other, and a CPU that is asked   *)
(* takes the request although it may keep switching tasks.                 *)
(***************************************************************************)
PrctlReturns == \A t \in Tasks : sys[t] = "called" ~> sys[t] = "user"

(***************************************************************************)
(* On cores with one CPU each and a kernel that does not preempt system    *)
(* calls, the handlers implement the policy: a context switch takes effect *)
(* when it writes the MSR and switches, a prctl when set_intel_prefetch()  *)
(* returns.                                                                *)
(***************************************************************************)
Policy == INSTANCE PrefetchPolicy WITH
  flag     <- effective,
  disabled <- [k \in Cores |-> msr[k] \cap PfBits],
  booted   <- topology

ImplementsPolicy == Policy!Spec

\* Why the mapping works: outside prctl, a task's flag is the effective one,
\* and the MSR is only written once the topology is known.
FlagsEffective ==
  /\ ~effective[Idle]
  /\ \A t \in Tasks : sys[t] = "user" => effective[t] = flag[t]
  /\ \A t \in Tasks : sys[t] # "user" => topology
  /\ \A c \in Cpus : pc[c] = "write" => topology
=============================================================================
