------------------------------- MODULE MCPool -------------------------------
(***************************************************************************)
(* Pool.tla with two threads, two actions and three frames: a once         *)
(* document of four chunks, each of which fills a frame, so that one waits *)
(* in the queue.                                                           *)
(***************************************************************************)
EXTENDS Pool, SequencesExt

CONSTANTS d, c1, c2, c3, c4, t1, t2

Corpus == <<c1, c2, c3, c4>>
MCChunk == Range(Corpus)
MCDocOf == [c \in MCChunk |-> d]
MCFresh(D) == IF d \in D THEN Corpus ELSE <<>>

\* One chunk to a frame.
MCThrough(s, k) == IF Len(s) < k THEN Len(s) ELSE k
=============================================================================
