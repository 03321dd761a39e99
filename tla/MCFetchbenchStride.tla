------------------------- MODULE MCFetchbenchStride -------------------------
(* Small instances for model checking FetchbenchStride.                    *)
EXTENDS FetchbenchStride, TLC

CONSTANTS p1, p2, cpu0, cpu1

\* The words that FetchBench and user/ioctl.c ask for, of two prefetchers:
\* none disabled, all disabled, all but the stride prefetcher disabled.
TestValues == {{}, {"ip", "next"}, {"next"}}
=============================================================================
