---------------------------- MODULE MC_Persister ----------------------------
(***************************************************************************)
(* Persister instantiated for TLC: three inodes (root and two files), one   *)
(* non-empty content, a log of six records so that the third transaction   *)
(* triggers a checkpoint, three client operations and two crashes.         *)
(***************************************************************************)
EXTENDS Persister, TLC

CONSTANTS v1, MAX_OPS, MAX_CRASHES

MC_Vals == {v1}

\* *exe past the end reads heap memory that matches no transaction id.
MC_PastEndNoMatch == {NoTx}

\* Exploration stops after MAX_OPS client operations and MAX_CRASHES crashes.
Bounds == ops <= MAX_OPS /\ crashes <= MAX_CRASHES
=============================================================================
