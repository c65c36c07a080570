----------------------------- MODULE MCDelivery -----------------------------
(***************************************************************************)
(* Delivery.tla on one scope: a once document of three chunks, a once      *)
(* document of one chunk, and a document due at every action; two frames   *)
(* per action.  The first chunks of the large document fill a frame, the   *)
(* others share one, so a decision may fit in one frame, need both, or     *)
(* overflow into the queue.                                                *)
(***************************************************************************)
EXTENDS Delivery, SequencesExt

CONSTANTS big, small, always,       \* documents
          b1, b2, b3, s1, a1        \* their chunks

MCDoc == {big, small, always}
MCOnce == {big, small}
MCChunk == {b1, b2, b3, s1, a1}
MCDocOf == [c \in MCChunk |-> CASE c \in {b1, b2, b3} -> big [] c = s1 -> small [] c = a1 -> always]

MCSize(c) == IF c \in {b1, b2} THEN 2 ELSE 1

Corpus == <<b1, b2, b3, s1, a1>>

FreshTable == [D \in SUBSET MCDoc |-> SelectSeq(Corpus, LAMBDA c : MCDocOf[c] \in D)]

MCFresh(D) == FreshTable[D]

MCNotice(s, b) == 1

Cut == INSTANCE Budget WITH Size <- MCSize, Notice <- MCNotice,
                            Whole <- 3, Capacity <- 2, Frames <- NbFrames

\* The cut of every list, computed once.
CutTable == [s \in SegSeq |-> [k \in 0..NbFrames |-> Cut!PlanFrames(s, k)]]

MCThrough(s, k) == CutTable[s][k]

=============================================================================
