----------------------------- MODULE MCResident -----------------------------
(* Resident.tla with three plans of two scopes. *)
EXTENDS Resident, TLC

CONSTANTS p1, p2, p3, s1, s2

MCScopeOf == p1 :> s1 @@ p2 :> s1 @@ p3 :> s2
=============================================================================
