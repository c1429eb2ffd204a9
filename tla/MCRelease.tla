------------------------------ MODULE MCRelease ------------------------------
(* An instance of Release for TLC: the second and the third image ship one   *)
(* corpus.                                                                   *)
EXTENDS Release

MCImages == 1..3
MCCorpusOf(i) == IF i = 1 THEN 11 ELSE 12
=============================================================================
