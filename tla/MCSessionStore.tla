--------------------------- MODULE MCSessionStore ---------------------------
(* SessionStore.tla with the record of a session and that of one sub-agent. *)
EXTENDS SessionStore, TLC

CONSTANTS master, agent

MCKey == {master, agent}
MCUnder == [k \in MCKey |-> IF k = master THEN MCKey ELSE {k}]
Symmetry == Permutations(Writer)
=============================================================================
