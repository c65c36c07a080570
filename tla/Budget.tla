------------------------------- MODULE Budget -------------------------------
(***************************************************************************)
(* Where src/src/budget.js cuts a list of segments into frames.            *)
(*                                                                         *)
(* A segment counts for its size in units of the frame's useful room; the  *)
(* seal and the frame header are part of the unit.  A list that fits in    *)
(* one frame, whose header is shorter, goes out in that frame.  Otherwise  *)
(* the frames but the last are filled greedily, and the last takes the     *)
(* longest prefix that fits with the notice of what is left behind, and    *)
(* one segment without the notice when there is none, so that an action    *)
(* always makes progress.                                                  *)
(***************************************************************************)
EXTENDS Naturals, Sequences

CONSTANTS
  Size(_),      \* the units a segment takes
  Notice(_, _), \* the units taken by the notice of the segments after a position
  Whole,        \* the units of a frame that carries the whole list
  Capacity,     \* the units of one frame among several
  Frames        \* the frames of an action

\* The units taken by the segments after the a-th up to the b-th.
Weight(s, a, b) ==
  LET W[n \in 0..Len(s)] == IF n <= a THEN 0 ELSE W[n - 1] + Size(s[n])
  IN W[b]

\* What the n-th frame takes with those segments: the last one has to say what is left.
Need(s, n, a, b) ==
  Weight(s, a, b) + IF n = Frames /\ b < Len(s) THEN Notice(s, b) ELSE 0

\* The last segment that fits in the n-th frame, which starts after the a-th.
FillFrom(s, n, a) ==
  CHOOSE b \in a..Len(s) :
    /\ b = a \/ Need(s, n, a, b) <= Capacity
    /\ \A m \in b + 1 .. Len(s) : Need(s, n, a, m) > Capacity

\* Where the n-th frame ends.
Advance(s, n, a) ==
  LET b == FillFrom(s, n, a)
  IN IF n = Frames /\ b = a /\ a < Len(s) THEN a + 1 ELSE b

\* One frame is enough for the whole list.
Lone(s) == Weight(s, 0, Len(s)) <= Whole

\* How many segments go out in the first k frames.
PlanFrames(s, k) ==
  LET T[n \in 0..k] ==
        IF n = 0 THEN 0 ELSE IF Lone(s) THEN Len(s) ELSE Advance(s, n, T[n - 1])
  IN T[k]

=============================================================================
