----------------------------- MODULE StateCrdt ------------------------------
(***************************************************************************)
(* The commuting state of src/src/state-crdt-pure.js: the three durable    *)
(* classes (doc-seen-, turn-count-, remainder-) as join-semilattices.      *)
(*                                                                         *)
(* Each peer keeps a replica of each class.  The two writers apply the     *)
(* operations of the module to theirs; any peer may merge the replica of   *)
(* another one, one class at a time, in any order and any number of times; *)
(* and any peer may compact its queue.  A peer that is no writer stands    *)
(* for the copy on disk.  Nothing calls this module yet, so the order of   *)
(* the calls is left entirely open.                                        *)
(*                                                                         *)
(* `known` is a ghost: the operations whose effect a replica has received, *)
(* its own and those it merged.                                            *)
(***************************************************************************)
EXTENDS Integers, FiniteSets

CONSTANTS
  Peer,      \* the replicas
  Doc,       \* the documents
  Seg,       \* the ids of the segments
  MaxRank,   \* bound: the values (seq, text) of a segment, ranked 1..MaxRank
  MaxOps     \* bound: operations in a behaviour

WRITERS == {"daemon", "spawn"}

ASSUME CrdtAssumption ==
  /\ WRITERS \subseteq Peer
  /\ MaxRank \in Nat /\ MaxOps \in Nat

VARIABLES
  docSeen,    \* each peer's doc-seen- replica
  turns,      \* each peer's turn-count- replica
  remainder,  \* each peer's remainder- replica
  known,      \* ghost: the operations each peer has received
  ops,        \* operations so far
  compacted   \* ghost: has a peer compacted its queue?

vars == <<docSeen, turns, remainder, known, ops, compacted>>

---------------------------------------------------------------------------
(* The three lattice pieces.                                               *)

Counter == [WRITERS -> Nat]            \* an absent slot counts for 0
NoMark == -1
MaxReg == [Doc -> Nat \cup {NoMark}]   \* NoMark: the key is absent
Undecided == 0
Decisions == [Seg -> Undecided..MaxRank]

Larger(m, n) == IF m >= n THEN m ELSE n

mergeCounter(a, b) == [w \in WRITERS |-> Larger(a[w], b[w])]

counterValue(c) == c["daemon"] + c["spawn"]

\* Mutant of bumpCounter: an increment of the value read, written in one's slot.
bumpCounterValue(c, w) == [c EXCEPT ![w] = counterValue(c) + 1]

bumpCounter(c, w) == [c EXCEPT ![w] = @ + 1]

mergeMaxReg(a, b) == [d \in Doc |-> Larger(a[d], b[d])]

\* Mutant of Preferred: the side that merges keeps what it has.
PreferredFirst(m, n) == IF m = Undecided THEN n ELSE m

\* The lower (seq, text) wins.
Preferred(m, n) ==
  IF m = Undecided THEN n ELSE IF n = Undecided THEN m ELSE IF m <= n THEN m ELSE n

mergeDecided(a, b) == [x \in Seg |-> Preferred(a[x], b[x])]

---------------------------------------------------------------------------
(* The three classes.                                                      *)

DocSeen ==
  [actions: Counter, seen: SUBSET Doc, recalled: MaxReg, recalledTurn: MaxReg, denied: MaxReg]
Turns == [turns: Counter, refused: BOOLEAN]
Remainder == [decided: Decisions, emitted: SUBSET Seg, emissions: Counter]

zeroes == [w \in WRITERS |-> 0]
unmarked == [d \in Doc |-> NoMark]

emptyDocSeen ==
  [actions |-> zeroes, seen |-> {}, recalled |-> unmarked, recalledTurn |-> unmarked,
   denied |-> unmarked]
emptyTurns == [turns |-> zeroes, refused |-> FALSE]
emptyRemainder ==
  [decided |-> [x \in Seg |-> Undecided], emitted |-> {}, emissions |-> zeroes]

\* Marking with NoMark leaves the register as it is: a recall given no turn.
mark(r, d, n) == mergeMaxReg(r, [unmarked EXCEPT ![d] = n])

\* Mutant of recall: the watermark counts the action that is about to happen.
recallAhead(s, d, denied, turn) ==
  LET at == counterValue(s.actions) + 1
  IN [s EXCEPT !.seen = @ \cup {d},
               !.recalled = mark(@, d, at),
               !.recalledTurn = mark(@, d, turn),
               !.denied = IF denied THEN mark(@, d, at) ELSE @]

\* Mutant of recall: the refusal is marked with the other clock.
recallDeniedTurn(s, d, denied, turn) ==
  LET at == counterValue(s.actions)
  IN [s EXCEPT !.seen = @ \cup {d},
               !.recalled = mark(@, d, at),
               !.recalledTurn = mark(@, d, turn),
               !.denied = IF denied THEN mark(@, d, turn) ELSE @]

recall(s, d, denied, turn) ==
  LET at == counterValue(s.actions)
  IN [s EXCEPT !.seen = @ \cup {d},
               !.recalled = mark(@, d, at),
               !.recalledTurn = mark(@, d, turn),
               !.denied = IF denied THEN mark(@, d, at) ELSE @]

drift(s, d) == IF s.recalled[d] = NoMark THEN 0 ELSE counterValue(s.actions) - s.recalled[d]

\* The drift in turns: the caller brings the turn counter, of another class.
driftTurns(s, d, turnCount) ==
  IF s.recalledTurn[d] = NoMark THEN 0 ELSE turnCount - s.recalledTurn[d]

isDenied(s, d) == s.denied[d] # NoMark /\ s.denied[d] = s.recalled[d]

mergeDocSeen(a, b) ==
  [actions |-> mergeCounter(a.actions, b.actions),
   seen |-> a.seen \cup b.seen,
   recalled |-> mergeMaxReg(a.recalled, b.recalled),
   recalledTurn |-> mergeMaxReg(a.recalledTurn, b.recalledTurn),
   denied |-> mergeMaxReg(a.denied, b.denied)]

mergeTurns(a, b) ==
  [turns |-> mergeCounter(a.turns, b.turns), refused |-> a.refused \/ b.refused]

decideSegments(r, x, rank) == [r EXCEPT !.decided[x] = Preferred(@, rank)]

emitSegments(r, x) == [r EXCEPT !.emitted = @ \cup {x}]

countEmission(r, w) == [r EXCEPT !.emissions = bumpCounter(@, w)]

remaining(r) == {x \in Seg : r.decided[x] # Undecided} \ r.emitted

mergeRemainder(a, b) ==
  [decided |-> mergeDecided(a.decided, b.decided),
   emitted |-> a.emitted \cup b.emitted,
   emissions |-> mergeCounter(a.emissions, b.emissions)]

\* Mutant of compactRemainder: drops the decisions, forgets whether they left.
compactDecided(r) == [r EXCEPT !.decided = [x \in Seg |-> Undecided]]

\* A segment leaves both halves, or neither.
compactRemainder(r) ==
  LET both == {x \in r.emitted : r.decided[x] # Undecided}
  IN [r EXCEPT !.decided = [x \in Seg |-> IF x \in both THEN Undecided ELSE @[x]],
               !.emitted = @ \ both]

---------------------------------------------------------------------------
(* The behaviours.                                                         *)

NoOps == [actions |-> {}, recalls |-> {}, denials |-> {}, recallTurns |-> {},
          turns |-> {}, refusals |-> {}, decides |-> {}, emits |-> {}, emissions |-> {}]

Init ==
  /\ docSeen = [p \in Peer |-> emptyDocSeen]
  /\ turns = [p \in Peer |-> emptyTurns]
  /\ remainder = [p \in Peer |-> emptyRemainder]
  /\ known = [p \in Peer |-> NoOps]
  /\ ops = 0
  /\ compacted = FALSE

Apply == ops < MaxOps /\ ops' = ops + 1 /\ UNCHANGED compacted

BumpAction(w) ==
  /\ Apply
  /\ docSeen' = [docSeen EXCEPT ![w].actions = bumpCounter(@, w)]
  /\ known' = [known EXCEPT ![w].actions = @ \cup {<<w, docSeen[w].actions[w] + 1>>}]
  /\ UNCHANGED <<turns, remainder>>

\* A caller that brings a turn brings the value of the turn counter it holds.
Recall(w, d, denied, timed) ==
  LET at == counterValue(docSeen[w].actions)
      turn == IF timed THEN counterValue(turns[w].turns) ELSE NoMark
  IN /\ Apply
     /\ docSeen' = [docSeen EXCEPT ![w] = recall(@, d, denied, turn)]
     /\ known' = [known EXCEPT ![w].recalls = @ \cup {<<d, at>>},
                               ![w].recallTurns = IF timed THEN @ \cup {<<d, turn>>} ELSE @,
                               ![w].denials = IF denied THEN @ \cup {<<d, at>>} ELSE @]
     /\ UNCHANGED <<turns, remainder>>

BumpTurn(w) ==
  /\ Apply
  /\ turns' = [turns EXCEPT ![w].turns = bumpCounter(@, w)]
  /\ known' = [known EXCEPT ![w].turns = @ \cup {<<w, turns[w].turns[w] + 1>>}]
  /\ UNCHANGED <<docSeen, remainder>>

NoteRefusal(w) ==
  /\ Apply
  /\ turns' = [turns EXCEPT ![w].refused = TRUE]
  /\ known' = [known EXCEPT ![w].refusals = @ \cup {w}]
  /\ UNCHANGED <<docSeen, remainder>>

DecideSegments(w, x, rank) ==
  /\ Apply
  /\ remainder' = [remainder EXCEPT ![w] = decideSegments(@, x, rank)]
  /\ known' = [known EXCEPT ![w].decides = @ \cup {<<x, rank>>}]
  /\ UNCHANGED <<docSeen, turns>>

EmitSegments(w, x) ==
  /\ Apply
  /\ remainder' = [remainder EXCEPT ![w] = emitSegments(@, x)]
  /\ known' = [known EXCEPT ![w].emits = @ \cup {x}]
  /\ UNCHANGED <<docSeen, turns>>

CountEmission(w) ==
  /\ Apply
  /\ remainder' = [remainder EXCEPT ![w] = countEmission(@, w)]
  /\ known' = [known EXCEPT ![w].emissions = @ \cup {<<w, remainder[w].emissions[w] + 1>>}]
  /\ UNCHANGED <<docSeen, turns>>

MergeDocSeen(p, q) ==
  /\ docSeen' = [docSeen EXCEPT ![p] = mergeDocSeen(@, docSeen[q])]
  /\ known' = [known EXCEPT ![p].actions = @ \cup known[q].actions,
                            ![p].recalls = @ \cup known[q].recalls,
                            ![p].recallTurns = @ \cup known[q].recallTurns,
                            ![p].denials = @ \cup known[q].denials]
  /\ UNCHANGED <<turns, remainder, ops, compacted>>

MergeTurns(p, q) ==
  /\ turns' = [turns EXCEPT ![p] = mergeTurns(@, turns[q])]
  /\ known' = [known EXCEPT ![p].turns = @ \cup known[q].turns,
                            ![p].refusals = @ \cup known[q].refusals]
  /\ UNCHANGED <<docSeen, remainder, ops, compacted>>

MergeRemainder(p, q) ==
  /\ remainder' = [remainder EXCEPT ![p] = mergeRemainder(@, remainder[q])]
  /\ known' = [known EXCEPT ![p].decides = @ \cup known[q].decides,
                            ![p].emits = @ \cup known[q].emits,
                            ![p].emissions = @ \cup known[q].emissions]
  /\ UNCHANGED <<docSeen, turns, ops, compacted>>

CompactRemainder(p) ==
  /\ remainder' = [remainder EXCEPT ![p] = compactRemainder(@)]
  /\ compacted' = (compacted \/ remainder' # remainder)
  /\ UNCHANGED <<docSeen, turns, known, ops>>

Next ==
  \/ \E w \in WRITERS :
       \/ BumpAction(w) \/ BumpTurn(w) \/ NoteRefusal(w) \/ CountEmission(w)
       \/ \E d \in Doc, denied, timed \in BOOLEAN : Recall(w, d, denied, timed)
       \/ \E x \in Seg : EmitSegments(w, x) \/ \E rank \in 1..MaxRank : DecideSegments(w, x, rank)
  \/ \E p, q \in Peer : MergeDocSeen(p, q) \/ MergeTurns(p, q) \/ MergeRemainder(p, q)
  \/ \E p \in Peer : CompactRemainder(p)

Spec == Init /\ [][Next]_vars

---------------------------------------------------------------------------
(* Properties.                                                             *)

TypeOK ==
  /\ docSeen \in [Peer -> DocSeen]
  /\ turns \in [Peer -> Turns]
  /\ remainder \in [Peer -> Remainder]
  /\ ops \in 0..MaxOps
  /\ compacted \in BOOLEAN

SeenOps(p) == <<known[p].actions, known[p].recalls, known[p].recallTurns, known[p].denials>>
TurnOps(p) == <<known[p].turns, known[p].refusals>>
QueueOps(p) == <<known[p].decides, known[p].emits, known[p].emissions>>

\* The turn counter of a reader that has merged the replicas of both writers.
bothTurns == mergeCounter(turns["daemon"].turns, turns["spawn"].turns)

\* Writes commute: two replicas that received the same operations, in whatever
\* orders, through whatever merges, are equal.  (The queue as long as nobody
\* compacted.)
Convergence ==
  \A p, q \in Peer :
    /\ SeenOps(p) = SeenOps(q) => docSeen[p] = docSeen[q]
    /\ TurnOps(p) = TurnOps(q) => turns[p] = turns[q]
    /\ QueueOps(p) = QueueOps(q) /\ ~compacted => remainder[p] = remainder[q]

\* No increment is lost: a counter is worth the number of bumps the replica received.
NoLostBump ==
  \A p \in Peer :
    /\ counterValue(docSeen[p].actions) = Cardinality(known[p].actions)
    /\ counterValue(turns[p].turns) = Cardinality(known[p].turns)
    /\ counterValue(remainder[p].emissions) = Cardinality(known[p].emissions)

\* A merge never makes a document look recalled in the future.  The drift in actions is
\* never negative, on any replica: watermarks and their clock are of one class and merge
\* together.  The drift in turns is read against a counter of another class, which merges
\* apart: a replica that has merged doc-seen- and not yet turn-count- can read a negative
\* one.  What holds of every replica is that no turn watermark, wherever it was merged,
\* is ahead of the counter of a reader that has received the increments of both writers.
DriftNeverNegative ==
  \A p \in Peer, d \in Doc :
    /\ drift(docSeen[p], d) >= 0
    /\ driftTurns(docSeen[p], d, counterValue(bothTurns)) >= 0

\* The anti-loop alternation survives merges: a document reads as refused exactly when
\* no recall the replica has received, of either writer, is later than a refusal.
DenialIsLastRecall ==
  \A p \in Peer, d \in Doc :
    isDenied(docSeen[p], d)
      <=> \E n \in known[p].denials :
            n[1] = d /\ \A r \in known[p].recalls : r[1] = d => r[2] <= n[2]

\* A segment that was decided and has not left is still owed by every replica that
\* knows of it, compactions included: neither a merge nor a compaction may lose content.
OwedIsKept ==
  \A p \in Peer : \A o \in known[p].decides :
    o[1] \notin known[p].emits => o[1] \in remaining(remainder[p])

\* What the comment of compactRemainder says of the difference decided - emitted:
\* a compaction leaves it unchanged, after any later merge as well.
CompactionUnseenByMerge ==
  \A p, q \in Peer :
    remaining(mergeRemainder(compactRemainder(remainder[p]), remainder[q]))
      = remaining(mergeRemainder(remainder[p], remainder[q]))

=============================================================================
