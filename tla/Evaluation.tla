----------------------------- MODULE Evaluation -----------------------------
(***************************************************************************)
(* The boot stub, the repository's test and the programs of the            *)
(* evaluation.  Each has a specification of its own and shares no variable *)
(* with the others: they run one after the other.                          *)
(***************************************************************************)
EXTENDS UserspaceTest, LighttpdBenchmark, UploadPlot, SpecPlot, MeasurementLogs,
        AesAttackRuns, ContextMeasure, ArmstubBoot

(***************************************************************************)
(* Type invariants of userspace-test, where a process is bound to CPUs     *)
(* that are online only, of the lighttpd benchmark and of its plot.        *)
(***************************************************************************)
TypesOK == TypeOK /\ BenchmarkTypeOK /\ PlotTypeOK
=============================================================================
