------------------------------- MODULE CtrlPf -------------------------------
(***************************************************************************)
(* The kernel module mod-ctrlpf, through which FetchBench switches         *)
(* prefetchers on and off by ioctl.  On Intel an ioctl writes MSR 0x1A4    *)
(* with the word that the process gives; on the Cortex-A72 it reads        *)
(* CPUACTLR_EL1, changes the prefetcher bits and writes it back.  A        *)
(* process may lose its CPU between any two of these instructions, and,    *)
(* unless it is pinned, continue on another.                               *)
(***************************************************************************)
EXTENDS DeviceOpen, Sequences

CONSTANTS
  Cpus,           (* CPUs, each with a register or MSR of its own          *)
  Intel,          (* the architecture: Intel, or else Cortex-A72           *)
  RegBits,        (* the bits of the register                              *)
  PfBits,         (* the prefetcher-disable bits of it                     *)
  Values,         (* words that processes ask for, on Intel                *)
  Pinned          (* processes that are pinned to their CPU                *)

ASSUME CtrlPfAssumption ==
  /\ PfBits \subseteq RegBits
  /\ Values \subseteq SUBSET RegBits
  /\ Intel \in BOOLEAN
  /\ Pinned \subseteq Procs

VARIABLES
  reg,            (* per CPU, the bits that are set in its register        *)
  cpu,            (* per process, the CPU it runs on                       *)
  todo,           (* per process, what its ioctl has yet to execute        *)
  state,          (* per process, state of device_ioctl()                  *)
  last            (* per process, its last request, since it opened        *)

ctrlVars == <<reg, cpu, todo, state, last>>
vars     == <<openVars, ctrlVars>>

NoRequest == [op |-> "none"]
Dummy     == [op |-> "dummy"]

Requests ==
  IF Intel
  THEN [op : {"msrvalue", "toggle"}, lo : Values] \cup {Dummy}
  ELSE [op : {"disable", "enable", "toggle"}] \cup {Dummy}

\* The firmware leaves any prefetcher bits, and the same other bits everywhere.
Init ==
  /\ OpenInit
  /\ reg \in [Cpus -> SUBSET RegBits]
  /\ \A c, d \in Cpus : reg[c] \ PfBits = reg[d] \ PfBits
  /\ cpu \in [Procs -> Cpus]
  /\ todo = [p \in Procs |-> <<>>]
  /\ state = [p \in Procs |-> {}]
  /\ last = [p \in Procs |-> NoRequest]

-----------------------------------------------------------------------------
(* What an ioctl executes: instructions, each with what it writes.         *)

Read     == [instr |-> "read"]
Write(w) == [instr |-> "write", word |-> w]
SetBits  == [instr |-> "set"]
Clear    == [instr |-> "clear"]

\* The cases of device_ioctl().
Instructions(req) ==
  CASE req.op = "dummy"              -> <<>>
    [] req.op = "msrvalue"           -> <<Write(req.lo)>>
    [] req.op = "toggle" /\ Intel    -> <<Write(PfBits), Write(req.lo)>>
    [] req.op = "disable"            -> <<Read, SetBits>>
    [] req.op = "enable"             -> <<Read, Clear>>
    [] req.op = "toggle" /\ ~Intel   -> <<Read, SetBits, Clear>>

\* Faulty variant: state is not initialised by MRS.
NextStateUnread(p) ==
  LET i == Head(todo[p]) IN
  CASE i.instr = "read"  -> state[p]
    [] i.instr = "write" -> i.word
    [] i.instr = "set"   -> state[p] \cup PfBits
    [] i.instr = "clear" -> state[p] \ PfBits

\* What the next instruction of p leaves in state, and in the register.
NextState(p) ==
  LET i == Head(todo[p]) IN
  CASE i.instr = "read"  -> reg[cpu[p]]
    [] i.instr = "write" -> i.word
    [] i.instr = "set"   -> state[p] \cup PfBits
    [] i.instr = "clear" -> state[p] \ PfBits

\* ioctl() enters device_ioctl().
Ioctl(p, req) ==
  /\ IoctlEnter(p)
  /\ todo' = [todo EXCEPT ![p] = Instructions(req)]
  /\ last' = [last EXCEPT ![p] = IF req = Dummy THEN @ ELSE req]
  /\ UNCHANGED <<reg, cpu, state>>

Execute(p) ==
  /\ todo[p] # <<>>
  /\ state' = [state EXCEPT ![p] = NextState(p)]
  /\ reg' = [reg EXCEPT ![cpu[p]] = NextState(p)]
  /\ todo' = [todo EXCEPT ![p] = Tail(todo[p])]
  /\ UNCHANGED <<openVars, cpu, last>>

IoctlEnd(p) ==
  /\ todo[p] = <<>>
  /\ IoctlReturn(p)
  /\ state' = [state EXCEPT ![p] = {}]
  /\ UNCHANGED <<reg, cpu, todo, last>>

\* open() or close().
UseFile(p) ==
  /\ OpenClose(p)
  /\ last' = [last EXCEPT ![p] = IF at'[p] = "open" THEN @ ELSE NoRequest]
  /\ UNCHANGED <<reg, cpu, todo, state>>

\* The scheduler moves a process that is not pinned.
Migrate(p) ==
  /\ p \notin Pinned
  /\ \E c \in Cpus \ {cpu[p]} : cpu' = [cpu EXCEPT ![p] = c]
  /\ UNCHANGED <<openVars, reg, todo, state, last>>

\* A step of a process that uses the device in any way.
AnyStep(p) ==
  \/ UseFile(p)
  \/ \E req \in Requests : Ioctl(p, req)
  \/ Execute(p)
  \/ IoctlEnd(p)
  \/ Migrate(p)

Next == \E p \in Procs : AnyStep(p)

Spec == Init /\ [][Next]_vars

-----------------------------------------------------------------------------
(* Properties.                                                             *)

TypeOK ==
  /\ OpenTypeOK
  /\ reg \in [Cpus -> SUBSET RegBits]
  /\ cpu \in [Procs -> Cpus]
  /\ \A p \in Procs : Len(todo[p]) <= 3
  /\ state \in [Procs -> SUBSET RegBits]
  /\ last \in [Procs -> Requests \cup {NoRequest}]

\* The bits that a request leaves set among the prefetcher bits.
Result(req) ==
  CASE req.op = "msrvalue"           -> req.lo \cap PfBits
    [] req.op = "toggle" /\ Intel    -> req.lo \cap PfBits
    [] req.op = "disable"            -> PfBits
    [] OTHER                         -> {}

(***************************************************************************)
(* What a pinned process asked for stays in force on its CPU until it asks *)
(* for something else, as long as no two calls of device_open() have       *)
(* raced: the counter keeps other users of the device away, and a process  *)
(* that loses its CPU in the middle of a read-modify-write loses nothing.  *)
(***************************************************************************)
StateHeld ==
  \A p \in Pinned :
    ~raced /\ at[p] = "open" /\ last[p] # NoRequest =>
      reg[cpu[p]] \cap PfBits = Result(last[p])

(***************************************************************************)
(* On the Cortex-A72 no ioctl changes another bit of any CPU's register,   *)
(* even if processes migrate between reading one CPU's register and        *)
(* writing another's, and whatever several users of the device do.         *)
(***************************************************************************)
KeepsOtherBits == [][\A c \in Cpus : reg'[c] \ PfBits = reg[c] \ PfBits]_vars

-----------------------------------------------------------------------------
(* The inductive forms.                                                    *)

\* What p has yet to execute: nothing, writes, or a read-modify-write from its
\* start or after the read.
Writes(p) ==
  \/ \E w \in SUBSET RegBits : todo[p] = <<Write(w)>>
  \/ \E v, w \in SUBSET RegBits : todo[p] = <<Write(v), Write(w)>>

Reads(p)    == todo[p] \in {<<Read, SetBits>>, <<Read, Clear>>, <<Read, SetBits, Clear>>}
Modifies(p) == todo[p] \in {<<SetBits>>, <<Clear>>, <<SetBits, Clear>>}

IoctlInv ==
  /\ reg \in [Cpus -> SUBSET RegBits]
  /\ cpu \in [Procs -> Cpus]
  /\ state \in [Procs -> SUBSET RegBits]
  /\ last \in [Procs -> Requests \cup {NoRequest}]
  /\ DOMAIN todo = Procs
  /\ \A p \in Procs :
       /\ todo[p] # <<>> => at[p] = "ioctl"
       /\ at[p] \in {"closed", "checked"} => last[p] = NoRequest
       /\ IF Intel THEN todo[p] = <<>> \/ Writes(p)
                   ELSE todo[p] = <<>> \/ Reads(p) \/ Modifies(p)

\* The prefetcher bits of the register when p has executed the rest.
Outcome(p) ==
  IF todo[p] = <<>> THEN reg[cpu[p]] \cap PfBits
  ELSE LET i == todo[p][Len(todo[p])] IN
       CASE i.instr = "write" -> i.word \cap PfBits
         [] i.instr = "set"   -> PfBits
         [] OTHER             -> {}

OutcomeHeld ==
  \A p \in Pinned :
    ~raced /\ at[p] \in {"open", "ioctl"} /\ last[p] # NoRequest =>
      Outcome(p) = Result(last[p])

OtherBitsEqual ==
  /\ \A c, d \in Cpus : reg[c] \ PfBits = reg[d] \ PfBits
  /\ \A p \in Procs, c \in Cpus : Modifies(p) => state[p] \ PfBits = reg[c] \ PfBits
=============================================================================
