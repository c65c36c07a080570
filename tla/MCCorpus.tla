------------------------------ MODULE MCCorpus ------------------------------
(* Corpus.tla with a root of two directories, a root inside one of them, and *)
(* two single files, one more than the ceiling of single files.              *)
EXTENDS Corpus, TLC

CONSTANTS fleet, mcp, skill1, skill2, f1, f2, f3, d1, d2

MCDirOf == (f1 :> d1) @@ (f2 :> d2) @@ (f3 :> d2)
MCReads == (fleet :> {f1, f2}) @@ (mcp :> {f2}) @@ (skill1 :> {f3}) @@ (skill2 :> {f2})
=============================================================================
