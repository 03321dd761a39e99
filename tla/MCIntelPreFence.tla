-------------------------- MODULE MCIntelPreFence --------------------------
(* Small machines for model checking IntelPreFence.                        *)
EXTENDS IntelPreFence, TLC

CONSTANTS cpu0, cpu1, cpu2, core0, core1, t1, t2

\* Two hyperthreads of one physical core.
SmtCoreOf == cpu0 :> core0 @@ cpu1 :> core0

\* Two cores without hyperthreading.
PlainCoreOf == cpu0 :> core0 @@ cpu1 :> core1

\* A core with two hyperthreads and a core with one.
MixedCoreOf == cpu0 :> core0 @@ cpu1 :> core0 @@ cpu2 :> core1
=============================================================================
