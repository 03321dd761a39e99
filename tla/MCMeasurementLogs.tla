-------------------------- MODULE MCMeasurementLogs --------------------------
(* MeasurementLogs with two repetitions and two pairs of times.             *)
EXTENDS MeasurementLogs

TestTimePairs == {<<12, 25>>, <<31, 14>>}
=============================================================================
