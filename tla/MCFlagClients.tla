--------------------------- MODULE MCFlagClients ---------------------------
(* A small machine for model checking FlagClients.                         *)
EXTENDS FlagClients, TLC

CONSTANTS cpu0, cpu1, cpu2, core0, core1, t1, t2

\* CPU 1 is a hyperthread of CPU 0's core, CPU 2 has a core of its own.
MixedCoreOf == cpu0 :> core0 @@ cpu1 :> core0 @@ cpu2 :> core1

\* connection_write_cq_ssl_ktls calls the original of connection_write_cq_ssl,
\* and the servername callback, by mod_openssl_SNI, that of mod_openssl_cert_cb.
DirectCalls == {<<"write_ktls", "write">>, <<"servername", "cert">>}

\* No action and no property tells the tasks apart.
TaskSymmetry == Permutations(Tasks)
=============================================================================
