--------------------------- MODULE MCOwnerChannel ---------------------------
(* OwnerChannel.tla with two threads, or with one and its memo.            *)
EXTENDS OwnerChannel

\* What was found on disk does not fit a slot.
MCOversized == {OnDisk}

=============================================================================
