-------------------------- MODULE MCPfstateDevice --------------------------
(* Small instances for model checking PfstateDevice.                       *)
EXTENDS PfstateDevice, TLC

CONSTANTS p1, p2, p3

ProcSymmetry == Permutations(Procs)

TwoCpus == {0, 1}

\* The last number is of no CPU, and becomes a large word.
SomeNumbers == {0, 1, -1}
=============================================================================
