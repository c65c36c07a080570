------------------------------ MODULE MCWrapUp ------------------------------
(* WrapUp.tla with a file two judges cover and one that a single judge covers, in a    *)
(* directory that none covers, so that a session may also be judged by nobody.         *)
EXTENDS WrapUp, TLC

CONSTANTS own, other, f1, f2

MCCovers == f1 :> {own, other} @@ f2 :> {other}
=============================================================================
