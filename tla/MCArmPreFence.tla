--------------------------- MODULE MCArmPreFence ---------------------------
(* A small machine for model checking ArmPreFence.  Each behaviour is one  *)
(* of a kernel that preempts system calls, or of one that does not.        *)
EXTENDS ArmPreFence, TLC

CONSTANTS cpu0, cpu1, t1, t2

VARIABLE preemptible

\* The module itself is instantiated with Preemptible = TRUE.
PlainKernel == INSTANCE ArmPreFence WITH Preemptible <- FALSE

MCInit == Init /\ preemptible \in BOOLEAN

MCNext ==
  /\ UNCHANGED preemptible
  /\ \/ preemptible /\ Next
     \/ ~preemptible /\ PlainKernel!Next

MCSpec == MCInit /\ [][MCNext]_<<vars, preemptible>>

(***************************************************************************)
(* On a kernel that does not preempt system calls, each step of the ARM    *)
(* handler is a step of the policy or changes nothing that it speaks of.   *)
(***************************************************************************)
PlainKernelImplementsPolicy ==
  /\ preemptible \/ Policy!Init
  /\ [][preemptible \/ [Policy!Next]_(Policy!vars)]_<<vars, preemptible>>
=============================================================================
