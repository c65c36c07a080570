---------------------------- MODULE MCStateCrdt -----------------------------
(* StateCrdt.tla with the two writers and the copy on disk.                *)
EXTENDS StateCrdt

MCPeer == WRITERS \cup {"disk"}

=============================================================================
