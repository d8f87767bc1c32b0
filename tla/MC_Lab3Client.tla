--------------------------- MODULE MC_Lab3Client ---------------------------
(* Model-checking instance of Lab3Client: one FUSE client thread beside   *)
(* the applier, four inode slots, files of up to two bytes.               *)
EXTENDS Lab3Client, TLC

CONSTANTS t1

MC_Thr == {t1}
MC_Chars == {"a", "b", ":", "/", "x", "nul"} \cup {DigitChar[k] : k \in 1..10}

\* Two names, neither a substring of the other's entry text.
MC_Names == {<<"a">>, <<"b">>}

\* Names where one is a suffix of the other: "a" occurs inside "ba".
MC_NamesOverlap == {<<"a">>, <<"b", "a">>}

MC_LinkPath == <<"a">>
=============================================================================
