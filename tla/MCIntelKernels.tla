--------------------------- MODULE MCIntelKernels ---------------------------
(* A small machine for model checking IntelPreFence on two kernels: each   *)
(* behaviour is one of a kernel that preempts system calls, or of one that *)
(* does not.                                                               *)
EXTENDS MCIntelPreFence

VARIABLE preemptible

\* The module itself is instantiated with Preemptible = TRUE.
PlainKernel == INSTANCE IntelPreFence WITH Preemptible <- FALSE

MCInit == Init /\ preemptible \in BOOLEAN

MCNext ==
  /\ UNCHANGED preemptible
  /\ \/ preemptible /\ Next
     \/ ~preemptible /\ PlainKernel!Next

MCSpec == MCInit /\ [][MCNext]_<<vars, preemptible>> /\ Fairness

(***************************************************************************)
(* On a kernel that does not preempt system calls, and with one CPU per    *)
(* core, no flagged task runs user code with the prefetchers of its core   *)
(* enabled.                                                                *)
(***************************************************************************)
PlainKernelProtects == ~preemptible => FlaggedRunsProtected

(***************************************************************************)
(* On such a kernel each step of the handlers is a step of the policy or   *)
(* changes nothing that it speaks of, from boot on.                        *)
(***************************************************************************)
PlainKernelImplementsPolicy ==
  /\ preemptible \/ Policy!Init
  /\ [][preemptible \/ [Policy!Next]_(Policy!vars)]_<<vars, preemptible>>
=============================================================================
