------------------------- MODULE MC_ConcurrentClients -------------------------
(* Instantiates ConcurrentClients for TLC: two clients, four inode slots,  *)
(* two names.                                                              *)
EXTENDS ConcurrentClients, TLC

CONSTANTS c1, c2, n1, n2

MC_Thr == {c1, c2}
MC_Names == {n1, n2}
\* the uninitialised tmp holds a value outside the inode table
MC_GarbageOut == {Junk}

=============================================================================
