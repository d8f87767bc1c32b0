------------------------- MODULE MC_InodeManager --------------------------
(* Model-checking instance of InodeManager: two inode slots (the root 1  *)
(* and 0, which the cursor reaches next), one direct slot and an       *)
(* indirect block of one id, so a full extent is 2 data blocks + 1     *)
(* indirect block.  Payload tags are interchangeable.                 *)
EXTENDS InodeManager, TLC

CONSTANTS v1, v2
MC_Vals  == {v1, v2}
ValSymmetry == Permutations(MC_Vals)

\* The block invariants are claims about a disk that alloc_block has never
\* found full; the run checks the state where it first does, and stops
\* there (MC_InodeManagerFull explores on).
WhileSpace == ~allocFailed
=============================================================================
