---------------------------- MODULE MCWriterLock ----------------------------
(* The instance of WriterLock for TLC: the server and two CLI commands.      *)
EXTENDS WriterLock, TLC

CONSTANTS t1, t2, t3, p1, p2, p3

ThreeProcesses == (t1 :> p1) @@ (t2 :> p2) @@ (t3 :> p3)
=============================================================================
