------------------------------ MODULE Promise -------------------------------
(***************************************************************************)
(* What ctxroute promises about session-scoped (`once`) content, whatever  *)
(* the transport does: a document is consumed whole, what was consumed is  *)
(* owed until it is handed over, and what was handed over is never owed    *)
(* again.  Only a compaction, which empties the agent's context, takes the *)
(* promise back.  Delivery.tla is shown to implement this module.          *)
(***************************************************************************)
CONSTANTS
  Chunk,        \* the chunks of the once documents
  Doc,          \* these documents
  DocOf         \* the document of each chunk

VARIABLES
  status,       \* where each chunk stands
  disturbed     \* has a lock timeout or a compaction happened?

Statuses == {"undecided", "owed", "delivered", "forgone"}

Init ==
  /\ status = [c \in Chunk |-> "undecided"]
  /\ disturbed = FALSE

\* One frame of one action: any documents are consumed, any owed chunks leave.
\* A chunk can be forgone, neither owed nor delivered, only once disturbed.
Act ==
  /\ disturbed' \in {disturbed, TRUE}
  /\ status' \in [Chunk -> Statuses]
  /\ \A c \in Chunk :
       /\ status[c] \in {"delivered", "forgone"} => status'[c] = status[c]
       /\ status[c] = "owed" => status'[c] # "undecided"
       /\ status[c] # "forgone" /\ status'[c] = "forgone" => disturbed'
  /\ \A c, e \in Chunk :
       DocOf[c] = DocOf[e] => (status'[c] = "undecided" <=> status'[e] = "undecided")

\* A compaction: the context is empty, everything may be decided again.
Reset ==
  /\ disturbed' = TRUE
  /\ status' = [c \in Chunk |-> "undecided"]

Next == Act \/ Reset

Spec == Init /\ [][Next]_<<status, disturbed>>

=============================================================================
