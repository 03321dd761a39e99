------------------------------ MODULE MCCtrlPf ------------------------------
(* Small instances for model checking CtrlPf.                              *)
EXTENDS CtrlPf, TLC

CONSTANTS p1, p2, cpu0, cpu1

\* The words that FetchBench and user/ioctl.c ask for, of two prefetchers:
\* none disabled, all disabled, all but the stride prefetcher disabled.
TestValues == {{}, {"ip", "next"}, {"next"}}
=============================================================================
