--------------------------- MODULE PfstateDevice ---------------------------
(***************************************************************************)
(* The kernel module rpi4-module-pfstate, which lets a process on a        *)
(* Raspberry Pi ask for the prefetcher state of a CPU.  IOCTL_QUERY runs   *)
(* query() on every online CPU; the one whose number was asked for puts    *)
(* its CPUACTLR_EL1 into info, the variable that held the number.          *)
(*                                                                         *)
(* A register is abstracted to FirmwareBits, plus PfBit when the kernel    *)
(* has disabled the prefetchers, and the re-encoding of six bits to one.   *)
(***************************************************************************)
EXTENDS DeviceOpen

CONSTANTS
  Online,         (* numbers of the online CPUs                            *)
  Requests,       (* CPU numbers that processes ask for                    *)
  FirmwareBits,   (* CPUACTLR_EL1 without the bits that the kernel sets    *)
  PfBit,          (* the bits by which it disables prefetchers, a power    *)
                  (* of two above every CPU's number                       *)
  WordSize        (* the number of values of a uint64_t                    *)

ASSUME PfstateAssumption ==
  /\ PfBit \in Nat
  /\ Online \subseteq 0..PfBit - 1
  /\ Requests \subseteq Int
  /\ FirmwareBits \in 0..PfBit - 1
  /\ WordSize \in Nat \ 0..2 * PfBit - 1

VARIABLES
  reg,            (* per online CPU, its CPUACTLR_EL1                      *)
  asked,          (* per process, the number its last query asked for      *)
  info,           (* per process, info of device_ioctl()                   *)
  todo,           (* per process, the CPUs that have yet to run query()    *)
  serving,        (* per CPU, the query() it runs: requested_cpuno and     *)
                  (* the process, or NoQuery                               *)
  answer,         (* per process, what its last query returned             *)
  words           (* history: the words in the asked CPU's register since  *)
                  (* the process called ioctl()                            *)

queryVars == <<asked, info, todo, serving, answer, words>>
vars      == <<openVars, reg, queryVars>>

Words   == {FirmwareBits, FirmwareBits + PfBit}
NoQuery == [requested |-> 0, proc |-> "none"]
NoAnswer == "none"

Init ==
  /\ OpenInit
  /\ reg \in [Online -> Words]
  /\ asked = [p \in Procs |-> 0]
  /\ info = [p \in Procs |-> 0]
  /\ todo = [p \in Procs |-> {}]
  /\ serving = [c \in Online |-> NoQuery]
  /\ answer = [p \in Procs |-> NoAnswer]
  /\ words = [p \in Procs |-> {}]

-----------------------------------------------------------------------------
\* (int)ioctl_param, converted to uint64_t.
AsWord(number) == number % WordSize

\* The re-encoded state: whether the prefetchers are disabled.
Encode(word) == IF (word \div PfBit) % 2 = 1 THEN "disabled" ELSE "enabled"

\* device_ioctl(IOCTL_QUERY, number), up to on_each_cpu().
Query(p, number) ==
  /\ IoctlEnter(p)
  /\ asked' = [asked EXCEPT ![p] = number]
  /\ info' = [info EXCEPT ![p] = AsWord(number)]
  /\ todo' = [todo EXCEPT ![p] = Online]
  /\ answer' = [answer EXCEPT ![p] = NoAnswer]
  /\ words' = [words EXCEPT ![p] = {reg[c] : c \in Online \cap {number}}]
  /\ UNCHANGED <<reg, serving>>

\* CPU c enters query() and reads the number.
QueryRead(c, p) ==
  /\ c \in todo[p]
  /\ serving[c] = NoQuery
  /\ serving' = [serving EXCEPT ![c] = [requested |-> info[p], proc |-> p]]
  /\ UNCHANGED <<openVars, reg, asked, info, todo, answer, words>>

\* Faulty variant: the result is stored by every CPU.
QueryFinishUncompared(c) ==
  LET p == serving[c].proc IN
  /\ serving[c] # NoQuery
  /\ info' = [info EXCEPT ![p] = reg[c]]
  /\ todo' = [todo EXCEPT ![p] = @ \ {c}]
  /\ serving' = [serving EXCEPT ![c] = NoQuery]
  /\ UNCHANGED <<openVars, reg, asked, answer, words>>

\* Faulty variant: only the CPU with the number acknowledges the call.
QueryFinishByRequested(c) ==
  LET p == serving[c].proc IN
  /\ serving[c] # NoQuery
  /\ IF c = serving[c].requested
     THEN /\ info' = [info EXCEPT ![p] = reg[c]]
          /\ todo' = [todo EXCEPT ![p] = @ \ {c}]
     ELSE UNCHANGED <<info, todo>>
  /\ serving' = [serving EXCEPT ![c] = NoQuery]
  /\ UNCHANGED <<openVars, reg, asked, answer, words>>

\* The CPU with the number stores its register; every CPU acknowledges.
QueryFinish(c) ==
  LET p == serving[c].proc IN
  /\ serving[c] # NoQuery
  /\ info' = IF c = serving[c].requested THEN [info EXCEPT ![p] = reg[c]] ELSE info
  /\ todo' = [todo EXCEPT ![p] = @ \ {c}]
  /\ serving' = [serving EXCEPT ![c] = NoQuery]
  /\ UNCHANGED <<openVars, reg, asked, answer, words>>

\* All CPUs have run query(): the ioctl returns the re-encoded word.
QueryReturn(p) ==
  /\ todo[p] = {}
  /\ IoctlReturn(p)
  /\ answer' = [answer EXCEPT ![p] = Encode(info[p])]
  /\ info' = [info EXCEPT ![p] = 0]
  /\ UNCHANGED <<reg, asked, todo, serving, words>>

\* Any other request: device_ioctl() returns -1 and looks at nothing.
OtherIoctl(p) == at[p] = "open" /\ UNCHANGED vars

\* The kernel patch (see ArmPreFence) changes a CPU's register, in a context
\* switch or a prctl of that CPU.
KernelSets(c) ==
  /\ serving[c] = NoQuery
  /\ \E word \in Words \ {reg[c]} :
       /\ reg' = [reg EXCEPT ![c] = word]
       /\ words' = [p \in Procs |->
                      IF asked[p] = c /\ at[p] = "ioctl" THEN words[p] \cup {word}
                      ELSE words[p]]
  /\ UNCHANGED <<openVars, asked, info, todo, serving, answer>>

Next ==
  \/ \E p \in Procs : OpenClose(p) /\ UNCHANGED <<reg, queryVars>>
  \/ \E p \in Procs, number \in Requests : Query(p, number)
  \/ \E c \in Online, p \in Procs : QueryRead(c, p)
  \/ \E c \in Online : QueryFinish(c)
  \/ \E p \in Procs : QueryReturn(p) \/ OtherIoctl(p)
  \/ \E c \in Online : KernelSets(c)

Spec == Init /\ [][Next]_vars

(***************************************************************************)
(* A CPU takes the interrupts that are pending for it, also while it keeps *)
(* serving other processes, and on_each_cpu() returns after the last one.  *)
(***************************************************************************)
FairSpec ==
  /\ Spec
  /\ \A c \in Online, p \in Procs : SF_vars(QueryRead(c, p))
  /\ \A c \in Online : WF_vars(QueryFinish(c))
  /\ \A p \in Procs : WF_vars(QueryReturn(p))

-----------------------------------------------------------------------------
(* Properties.                                                             *)

TypeOK ==
  /\ OpenTypeOK
  /\ reg \in [Online -> Words]
  /\ asked \in [Procs -> Requests \cup {0}]
  /\ info \in [Procs -> 0..WordSize - 1]
  /\ todo \in [Procs -> SUBSET Online]
  /\ \A c \in Online : serving[c] = NoQuery \/ serving[c].proc \in Procs
  /\ answer \in [Procs -> {NoAnswer, "enabled", "disabled"}]
  /\ words \in [Procs -> SUBSET Words]

(***************************************************************************)
(* "Read state on specified CPU" (the comment in device_ioctl()): a query  *)
(* returns what the register of the CPU that was asked for held at some    *)
(* moment of the call, whatever other queries and the kernel do.           *)
(***************************************************************************)
AnswerIsCurrent ==
  \A p \in Procs : asked[p] \in Online /\ answer[p] # NoAnswer =>
    \E word \in words[p] : answer[p] = Encode(word)

(***************************************************************************)
(* Every query returns: the CPUs that run query() for several processes,   *)
(* while all those wait, do not starve one of them.                        *)
(***************************************************************************)
QueryReturns == \A p \in Procs : at[p] = "ioctl" ~> at[p] = "open"

\* The inductive form, for registers whose words are no CPU's number.
QueryInv ==
  /\ reg \in [Online -> Words]
  /\ asked \in [Procs -> Int]
  /\ info \in [Procs -> Int]
  /\ todo \in [Procs -> SUBSET Online]
  /\ words \in [Procs -> SUBSET Words]
  /\ DOMAIN serving = Online
  /\ DOMAIN answer = Procs
  /\ \A p \in Procs : todo[p] # {} => at[p] = "ioctl"
  /\ \A p \in Procs : asked[p] \in Online /\ at[p] = "ioctl" =>
       /\ reg[asked[p]] \in words[p]
       /\ IF asked[p] \in todo[p] THEN info[p] = asked[p]
                                  ELSE info[p] \in words[p]
  /\ \A c \in Online : serving[c] # NoQuery =>
       LET p == serving[c].proc IN
       /\ p \in Procs
       /\ c \in todo[p]
       /\ asked[p] \in Online => serving[c].requested \in {asked[p]} \cup Words
       /\ asked[p] = c => serving[c].requested = c
  /\ AnswerIsCurrent
=============================================================================
