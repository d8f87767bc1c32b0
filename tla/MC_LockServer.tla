---------------------------- MODULE MC_LockServer ----------------------------
(* Instantiates LockServer for TLC: three client threads, two lock ids. *)
EXTENDS LockServer, TLC

CONSTANTS t1, t2, t3, l1, l2

MC_Thr == {t1, t2, t3}
MC_Lids == {l1, l2}
=============================================================================
