------------------------------ MODULE Delivery ------------------------------
(***************************************************************************)
(* How the resident daemon carries documents to one agent scope: handle in *)
(* src/src/hooks/http-server.js and the critical section of                *)
(* src/src/pretool-core.js, with the frame sequencer, the carryover table, *)
(* the memoized plan and the emission queue they keep.                     *)
(*                                                                         *)
(* One tool call is an invocation.  The harness opens NbFrames connections *)
(* for it; any of them may never reach the daemon, and the frames of       *)
(* several invocations interleave.  The daemon runs one handler at a time, *)
(* synchronously, so a frame is one step.  A step is one of: the frame of  *)
(* a harvested invocation, which gets nothing; a replay of the memoized    *)
(* plan; the decision; or the fallback when the lock of the scope stayed   *)
(* taken until the deadline.  A compaction purges the scope's state.       *)
(*                                                                         *)
(* Content is a set of chunks.  Where planFrames cuts a list of segments   *)
(* is a parameter (Through), constrained by CutAssumption; Budget.tla      *)
(* gives the cut the code computes.                                        *)
(***************************************************************************)
EXTENDS Naturals, Sequences, FiniteSets

CONSTANTS
  Doc,           \* the documents of the corpus
  Once,          \* those in mode `once`; the others are due at every action
  Chunk,         \* what the documents are split into
  DocOf,         \* the document of each chunk
  Fresh(_),      \* segmentsPour: the segments of a set of documents, in corpus order
  Inv,           \* the invocations (tool calls) in flight or remembered
  NbFrames,      \* the frames the wiring declares per invocation
  Through(_, _), \* how many segments of a list go out in its first k frames
  MaxTimeouts,   \* bound: lock timeouts
  MaxPurges      \* bound: compactions

\* Segment lists: every list the emitter builds names a chunk at most once.
SegSeq ==
  {s \in UNION {[1..n -> Chunk] : n \in 0..Cardinality(Chunk)} :
     \A a, b \in DOMAIN s : s[a] = s[b] => a = b}

Chunks(s) == {s[n] : n \in DOMAIN s}

ChunksOf(D) == {c \in Chunk : DocOf[c] \in D}

ASSUME DeliveryAssumption ==
  /\ IsFiniteSet(Chunk)
  /\ Once \subseteq Doc
  /\ DocOf \in [Chunk -> Doc]
  /\ NbFrames \in Nat /\ NbFrames >= 2
  /\ MaxTimeouts \in Nat /\ MaxPurges \in Nat

\* The segments of a set of documents are exactly their chunks, each once.
ASSUME FreshAssumption ==
  \A D \in SUBSET Doc : Fresh(D) \in SegSeq /\ Chunks(Fresh(D)) = ChunksOf(D)

\* planFrames cuts a list into consecutive frames and leaves the rest deferred.
ASSUME CutAssumption ==
  \A s \in SegSeq :
    /\ \A k \in 0..NbFrames : Through(s, k) \in 0..Len(s)
    /\ Through(s, 0) = 0
    /\ \A j, k \in 0..NbFrames : j <= k => Through(s, j) <= Through(s, k)

VARIABLES
  seen,        \* doc-seen-: the once documents recorded as delivered
  queue,       \* remainder-: the segments that wait for a next action
  planned,     \* the invocations whose plan- key exists
  plan,        \* plan-: the segments each of them memoized
  arrived,     \* environment: the frames of each invocation that reached the daemon
  sequencer,   \* frame sequencer: the last index given, 0 when there is no entry
  served,      \* carryover table: the highest index observed, 0 when there is no entry
  harvested,   \* carryover table: the invocations another one has taken over
  delivered,   \* ghost: the chunks handed to the agent since its context was emptied
  repeated,    \* ghost: the once chunks handed over a second time
  forgone,     \* ghost: the chunks of frames that no frame of their invocation served
  timeouts,    \* lock timeouts so far
  purges       \* compactions so far

tables == <<sequencer, served, harvested>>
ghosts == <<delivered, repeated, forgone>>
vars == <<seen, queue, planned, plan, arrived, tables, ghosts, timeouts, purges>>

OnceChunks == ChunksOf(Once)

TypeOK ==
  /\ seen \subseteq Once
  /\ queue \in SegSeq
  /\ planned \subseteq Inv
  /\ plan \in [Inv -> SegSeq]
  /\ arrived \in [Inv -> 0..NbFrames]
  /\ sequencer \in [Inv -> 0..NbFrames - 1]
  /\ served \in [Inv -> 0..NbFrames]
  /\ harvested \subseteq Inv
  /\ delivered \subseteq Chunk
  /\ repeated \subseteq Chunk
  /\ forgone \subseteq Chunk
  /\ timeouts \in 0..MaxTimeouts
  /\ purges \in 0..MaxPurges

Init ==
  /\ seen = {}
  /\ queue = <<>>
  /\ planned = {}
  /\ plan = [i \in Inv |-> <<>>]
  /\ arrived = [i \in Inv |-> 0]
  /\ sequencer = [i \in Inv |-> 0]
  /\ served = [i \in Inv |-> 0]
  /\ harvested = {}
  /\ delivered = {} /\ repeated = {} /\ forgone = {}
  /\ timeouts = 0 /\ purges = 0

---------------------------------------------------------------------------
(* Frames of a segment list (budget.planFrames, carryover.unserved).       *)

\* The segments of s after the first n, up to the m-th.
Slice(s, n, m) == SubSeq(s, n + 1, m)

\* The chunks of these segments.
Between(s, n, m) == {s[k] : k \in n + 1 .. m}

Frame(s, k) == Between(s, Through(s, k - 1), Through(s, k))

\* Mutant of Unserved: counts the served frames from one too many.
UnservedSkipsOne(s, k) == Slice(s, Through(s, k + 1), Through(s, NbFrames))

\* The frames after the k-th, in order.
Unserved(s, k) == Slice(s, Through(s, k), Through(s, NbFrames))

\* Mutant of Deferred: drops the first segment that did not fit.
DeferredDropsOne(s) == Slice(s, Through(s, NbFrames) + 1, Len(s))

\* The remainder of the last frame.
Deferred(s) == Slice(s, Through(s, NbFrames), Len(s))

\* What was in frames before the k-th.
Before(s, k) == Between(s, 0, Through(s, k - 1))

\* The queue first, the fresh content next, without the documents already waiting.
OrderSegments(inherited, D) ==
  inherited \o Fresh(D \ {DocOf[c] : c \in Chunks(inherited)})

---------------------------------------------------------------------------
(* The frame of a request: sequencer, then carryover table.                *)

\* Mutant of Index: counts the arrivals from one.
IndexFromOne(i) == IF sequencer[i] + 2 < NbFrames THEN sequencer[i] + 2 ELSE NbFrames

\* nextIndex: the next index of the invocation, forgotten once the last is given.
Index(i) == IF sequencer[i] + 1 < NbFrames THEN sequencer[i] + 1 ELSE NbFrames

Arrive(i) ==
  /\ arrived[i] < NbFrames
  /\ arrived' = [arrived EXCEPT ![i] = @ + 1]
  /\ sequencer' = [sequencer EXCEPT ![i] = IF @ + 1 < NbFrames THEN @ + 1 ELSE 0]

Observe(i) ==
  served' = [served EXCEPT ![i] = IF Index(i) > @ THEN Index(i) ELSE @]

\* The chunks the agent receives in the answer.
Hand(C) ==
  /\ delivered' = delivered \cup C
  /\ repeated' = repeated \cup (C \cap delivered \cap OnceChunks)

\* Mutant of Pending: takes an invocation that owes its last frame for a complete one.
PendingButLast(i) ==
  {j \in Inv \ {i} :
     served[j] \in 1..NbFrames - 2 /\ j \notin harvested /\ j \in planned}

\* pendingFor: the other invocations that still owe frames of a plan.
Pending(i) ==
  {j \in Inv \ {i} :
     served[j] \in 1..NbFrames - 1 /\ j \notin harvested /\ j \in planned}

\* The content the deciding frame harvests.  The code concatenates the lists of
\* all pending invocations; OnePending says there is never more than one.
Carried(i) ==
  IF Pending(i) = {} THEN <<>>
  ELSE LET j == CHOOSE j \in Pending(i) : TRUE IN Unserved(plan[j], served[j])

---------------------------------------------------------------------------
(* The four ways a frame ends.                                             *)

\* Another invocation took over this one's content: a late frame gets nothing.
FrameOfHarvested(i) ==
  /\ Arrive(i) /\ i \in harvested
  /\ UNCHANGED <<seen, queue, planned, plan, served, harvested, ghosts, timeouts, purges>>

\* Mutant of FrameReplay: answers without asking whether the invocation was harvested.
FrameReplayUnchecked(i) ==
  /\ Arrive(i) /\ i \in planned
  /\ Observe(i)
  /\ Hand(Frame(plan[i], Index(i)))
  /\ UNCHANGED <<seen, queue, planned, plan, harvested, forgone, timeouts, purges>>

\* The plan is memoized: serve the frame of this index.
FrameReplay(i) ==
  /\ Arrive(i) /\ i \notin harvested /\ i \in planned
  /\ Observe(i)
  /\ Hand(Frame(plan[i], Index(i)))
  /\ UNCHANGED <<seen, queue, planned, plan, harvested, forgone, timeouts, purges>>

\* Under the lock, no plan yet: decide on the matched documents M, harvest, cut,
\* persist the remainder, then what was seen, then the plan.
FrameDecide(i, M) ==
  LET inject == M \ seen
      segments == OrderSegments(queue \o Carried(i), inject)
  IN /\ Arrive(i) /\ i \notin harvested /\ i \notin planned
     /\ Observe(i)
     /\ harvested' = harvested \cup Pending(i)
     /\ queue' = Deferred(segments)
     /\ seen' = seen \cup (inject \cap Once)
     /\ planned' = planned \cup {i}
     /\ plan' = [plan EXCEPT ![i] = segments]
     /\ Hand(Frame(segments, Index(i)))
     /\ forgone' = forgone \cup (Before(segments, Index(i)) \cap OnceChunks)
     /\ UNCHANGED <<timeouts, purges>>

\* The lock stayed taken: decide without writing, deliver only what is correct
\* without a record (injectLockless).  The frame still counts as served.
FrameFallback(i, M) ==
  /\ Arrive(i) /\ i \notin harvested
  /\ timeouts < MaxTimeouts /\ timeouts' = timeouts + 1
  /\ Observe(i)
  /\ Hand(Frame(Fresh(M \ Once), Index(i)))
  /\ forgone' = IF i \in planned
                THEN forgone \cup (Frame(plan[i], Index(i)) \cap OnceChunks)
                ELSE forgone
  /\ UNCHANGED <<seen, queue, planned, plan, harvested, purges>>

\* The harness purges the scope at a compaction: every state key goes, the
\* sequencer and the carryover table are left as they are.
Purge ==
  /\ purges < MaxPurges /\ purges' = purges + 1
  /\ seen' = {} /\ queue' = <<>>
  /\ planned' = {} /\ plan' = [i \in Inv |-> <<>>]
  /\ delivered' = {} /\ forgone' = {}
  /\ UNCHANGED <<arrived, tables, repeated, timeouts>>

\* A new tool call takes the name of one whose entries are inert: served to the
\* last frame, or harvested.  (The code keeps the inert entries until eviction.)
NewInvocation(i) ==
  /\ served[i] = NbFrames \/ i \in harvested
  /\ arrived' = [arrived EXCEPT ![i] = 0]
  /\ sequencer' = [sequencer EXCEPT ![i] = 0]
  /\ served' = [served EXCEPT ![i] = 0]
  /\ harvested' = harvested \ {i}
  /\ planned' = planned \ {i}
  /\ plan' = [plan EXCEPT ![i] = <<>>]
  /\ UNCHANGED <<seen, queue, ghosts, timeouts, purges>>

Next ==
  \/ \E i \in Inv : FrameOfHarvested(i) \/ FrameReplay(i) \/ NewInvocation(i)
  \/ \E i \in Inv, M \in SUBSET Doc : FrameDecide(i, M) \/ FrameFallback(i, M)
  \/ Purge

Spec == Init /\ [][Next]_vars

---------------------------------------------------------------------------
(* Properties.                                                             *)

Disturbed == timeouts > 0 \/ purges > 0

\* The invocations with frames of a plan still to serve.
Owing == {i \in planned \ harvested : served[i] < NbFrames}

\* The chunks of these frames.
Owed(i) == Between(plan[i], Through(plan[i], served[i]), Through(plan[i], NbFrames))
OwedChunks == UNION {Owed(i) : i \in Owing}

Held == Chunks(queue) \cup OwedChunks

\* A consumed document is never half lost: each of its chunks was delivered, waits
\* in the queue, is owed by a plan that still answers, or was in a frame position
\* that went by without its plan (the loss Accounted measures and the next bounds).
Accounted == ChunksOf(seen) \subseteq delivered \cup Held \cup forgone

\* The frame sequencer and the carryover lose nothing by themselves: whatever
\* connections fail and however invocations interleave, content is forgone only
\* after a lock timeout or a compaction.
ForgoneNeedsFault == forgone # {} => Disturbed

\* No once chunk is handed over twice before a compaction: the transfer of a plan's
\* unserved frames to another invocation never duplicates them.
NeverTwice == repeated = {}

\* At most one invocation owes content: each decision takes over what the others
\* owe, so ownership of a chunk moves and is never shared.
OnePending == \A i, j \in Owing : i = j

\* What pretool-core.js says of its fallback: nothing is lost, only delayed.
NothingLost == ChunksOf(seen) \subseteq delivered \cup Held

\* What budget.orderSegments requires of the emission order: the chunks of one
\* document leave in order, never interleaved with another document's.
FragmentsTogether ==
  \A i \in planned : \A a, b \in DOMAIN plan[i] :
    a < b /\ DocOf[plan[i][a]] = DocOf[plan[i][b]] =>
      \A n \in a..b : DocOf[plan[i][n]] = DocOf[plan[i][a]]

StatusOf(c) ==
  IF DocOf[c] \notin seen THEN "undecided"
  ELSE IF c \in delivered THEN "delivered"
  ELSE IF c \in Held THEN "owed" ELSE "forgone"

Promised == INSTANCE Promise WITH
  Chunk <- OnceChunks, Doc <- Once,
  DocOf <- [c \in OnceChunks |-> DocOf[c]],
  status <- [c \in OnceChunks |-> StatusOf(c)],
  disturbed <- Disturbed

\* The transport implements the promise: documents are consumed whole, owed chunks
\* only leave by being delivered, and nothing is forgone in an undisturbed run.
PromiseKept == Promised!Spec

=============================================================================
