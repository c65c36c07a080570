-------------------------- MODULE StateCrdtProofs --------------------------
(***************************************************************************)
(* Proofs about StateCrdt.tla: the merges of state-crdt-pure.js form       *)
(* semilattices, and the properties of the replicas hold for every set of  *)
(* peers, documents and segments and for behaviours of any length.         *)
(*                                                                         *)
(* The inductive invariant says what each replica is, as a function of the *)
(* operations it has received: a counter is an initial segment of each     *)
(* writer's increments, a watermark is a maximum, a decision a minimum.    *)
(***************************************************************************)
EXTENDS StateCrdt, TLAPS, FiniteSetTheorems

---------------------------------------------------------------------------
(* The lattice pieces.                                                     *)

LEMMA CounterLaws ==
  ASSUME NEW a \in Counter, NEW b \in Counter, NEW c \in Counter
  PROVE  /\ mergeCounter(a, b) \in Counter
         /\ mergeCounter(a, a) = a
         /\ mergeCounter(a, b) = mergeCounter(b, a)
         /\ mergeCounter(a, mergeCounter(b, c)) = mergeCounter(mergeCounter(a, b), c)
  BY DEF Counter, mergeCounter, Larger

LEMMA MaxRegLaws ==
  ASSUME NEW a \in MaxReg, NEW b \in MaxReg, NEW c \in MaxReg
  PROVE  /\ mergeMaxReg(a, b) \in MaxReg
         /\ mergeMaxReg(a, a) = a
         /\ mergeMaxReg(a, b) = mergeMaxReg(b, a)
         /\ mergeMaxReg(a, mergeMaxReg(b, c)) = mergeMaxReg(mergeMaxReg(a, b), c)
  BY DEF MaxReg, mergeMaxReg, Larger, NoMark

LEMMA DecidedLaws ==
  ASSUME NEW a \in Decisions, NEW b \in Decisions, NEW c \in Decisions
  PROVE  /\ mergeDecided(a, b) \in Decisions
         /\ mergeDecided(a, a) = a
         /\ mergeDecided(a, b) = mergeDecided(b, a)
         /\ mergeDecided(a, mergeDecided(b, c)) = mergeDecided(mergeDecided(a, b), c)
  BY CrdtAssumption DEF Decisions, mergeDecided, Preferred, Undecided

\* The merge of the doc-seen- class (mergeDocSeen) is a join: closed, idempotent,
\* commutative and associative, so the order and the number of merges do not matter.
THEOREM DocSeenSemilattice ==
  ASSUME NEW a \in DocSeen, NEW b \in DocSeen, NEW c \in DocSeen
  PROVE  /\ mergeDocSeen(a, b) \in DocSeen
         /\ mergeDocSeen(a, a) = a
         /\ mergeDocSeen(a, b) = mergeDocSeen(b, a)
         /\ mergeDocSeen(a, mergeDocSeen(b, c)) = mergeDocSeen(mergeDocSeen(a, b), c)
<1>1. \A x, y \in DocSeen : mergeDocSeen(x, y) \in DocSeen
  BY CounterLaws, MaxRegLaws DEF DocSeen, mergeDocSeen
<1>2. mergeDocSeen(a, a) = a
  BY CounterLaws, MaxRegLaws DEF DocSeen, mergeDocSeen
<1>3. mergeDocSeen(a, b) = mergeDocSeen(b, a)
  <2>1. /\ mergeCounter(a.actions, b.actions) = mergeCounter(b.actions, a.actions)
        /\ a.seen \cup b.seen = b.seen \cup a.seen
    BY CounterLaws DEF DocSeen
  <2>2. /\ mergeMaxReg(a.recalled, b.recalled) = mergeMaxReg(b.recalled, a.recalled)
        /\ mergeMaxReg(a.recalledTurn, b.recalledTurn) = mergeMaxReg(b.recalledTurn, a.recalledTurn)
        /\ mergeMaxReg(a.denied, b.denied) = mergeMaxReg(b.denied, a.denied)
    BY MaxRegLaws DEF DocSeen
  <2> QED BY <2>1, <2>2 DEF mergeDocSeen
<1>4. mergeDocSeen(a, mergeDocSeen(b, c)) = mergeDocSeen(mergeDocSeen(a, b), c)
  <2>1. /\ mergeCounter(a.actions, mergeCounter(b.actions, c.actions))
            = mergeCounter(mergeCounter(a.actions, b.actions), c.actions)
        /\ a.seen \cup (b.seen \cup c.seen) = (a.seen \cup b.seen) \cup c.seen
    BY CounterLaws DEF DocSeen
  <2>2. /\ mergeMaxReg(a.recalled, mergeMaxReg(b.recalled, c.recalled))
            = mergeMaxReg(mergeMaxReg(a.recalled, b.recalled), c.recalled)
        /\ mergeMaxReg(a.recalledTurn, mergeMaxReg(b.recalledTurn, c.recalledTurn))
            = mergeMaxReg(mergeMaxReg(a.recalledTurn, b.recalledTurn), c.recalledTurn)
        /\ mergeMaxReg(a.denied, mergeMaxReg(b.denied, c.denied))
            = mergeMaxReg(mergeMaxReg(a.denied, b.denied), c.denied)
    BY MaxRegLaws DEF DocSeen
  <2> QED BY <2>1, <2>2 DEF mergeDocSeen
<1> QED BY <1>1, <1>2, <1>3, <1>4

\* The same of the turn-count- class (mergeTurns).
THEOREM TurnsSemilattice ==
  ASSUME NEW a \in Turns, NEW b \in Turns, NEW c \in Turns
  PROVE  /\ mergeTurns(a, b) \in Turns
         /\ mergeTurns(a, a) = a
         /\ mergeTurns(a, b) = mergeTurns(b, a)
         /\ mergeTurns(a, mergeTurns(b, c)) = mergeTurns(mergeTurns(a, b), c)
  BY CounterLaws DEF Turns, mergeTurns

\* The same of the remainder- class (mergeRemainder).
THEOREM RemainderSemilattice ==
  ASSUME NEW a \in Remainder, NEW b \in Remainder, NEW c \in Remainder
  PROVE  /\ mergeRemainder(a, b) \in Remainder
         /\ mergeRemainder(a, a) = a
         /\ mergeRemainder(a, b) = mergeRemainder(b, a)
         /\ mergeRemainder(a, mergeRemainder(b, c)) = mergeRemainder(mergeRemainder(a, b), c)
<1>1. \A x, y \in Remainder : mergeRemainder(x, y) \in Remainder
  BY CounterLaws, DecidedLaws DEF Remainder, mergeRemainder
<1>2. mergeRemainder(a, a) = a
  BY CounterLaws, DecidedLaws DEF Remainder, mergeRemainder
<1>3. mergeRemainder(a, b) = mergeRemainder(b, a)
  BY CounterLaws, DecidedLaws DEF Remainder, mergeRemainder
<1>4. mergeRemainder(a, mergeRemainder(b, c)) = mergeRemainder(mergeRemainder(a, b), c)
  <2>1. mergeDecided(a.decided, mergeDecided(b.decided, c.decided))
          = mergeDecided(mergeDecided(a.decided, b.decided), c.decided)
    BY DecidedLaws DEF Remainder
  <2>2. mergeCounter(a.emissions, mergeCounter(b.emissions, c.emissions))
          = mergeCounter(mergeCounter(a.emissions, b.emissions), c.emissions)
    BY CounterLaws DEF Remainder
  <2> QED BY <2>1, <2>2 DEF mergeRemainder
<1> QED BY <1>1, <1>2, <1>3, <1>4

---------------------------------------------------------------------------
(* What a replica is, given the operations it has received.                *)

\* A counter: the first increments of each writer.
Counts(c, S) ==
  /\ S \subseteq WRITERS \X Nat
  /\ \A w \in WRITERS, n \in Nat : <<w, n>> \in S <=> 1 <= n /\ n <= c[w]

\* A register: the largest mark of each document.
Marks(r, S) ==
  /\ S \subseteq Doc \X Nat
  /\ \A d \in Doc :
       /\ r[d] = NoMark => \A n \in Nat : <<d, n>> \notin S
       /\ r[d] # NoMark => /\ <<d, r[d]>> \in S
                           /\ \A n \in Nat : <<d, n>> \in S => n <= r[d]

\* A decision: the preferred rank of each segment.
Prefers(f, S) ==
  /\ S \subseteq Seg \X (1..MaxRank)
  /\ \A x \in Seg :
       /\ f[x] = Undecided => \A n \in 1..MaxRank : <<x, n>> \notin S
       /\ f[x] # Undecided => /\ <<x, f[x]>> \in S
                              /\ \A n \in 1..MaxRank : <<x, n>> \in S => f[x] <= n

\* No watermark is ahead of the clock it is read against.
NotAhead(r, c) == \A d \in Doc : r[d] <= counterValue(c)

SeenReflects(s, k) ==
  /\ Counts(s.actions, k.actions)
  /\ Marks(s.recalled, k.recalls)
  /\ Marks(s.recalledTurn, k.recallTurns)
  /\ Marks(s.denied, k.denials)
  /\ k.denials \subseteq k.recalls
  /\ s.seen = {d \in Doc : s.recalled[d] # NoMark}
  /\ NotAhead(s.recalled, s.actions)

TurnsReflect(t, k) ==
  /\ Counts(t.turns, k.turns)
  /\ t.refused <=> k.refusals # {}

\* What compaction leaves true of a queue.
OwedReflect(r, k) ==
  /\ r.emitted \subseteq k.emits
  /\ \A x \in Seg, n \in 1..MaxRank :
       <<x, n>> \in k.decides /\ x \notin k.emits => r.decided[x] # Undecided
  /\ k.decides \subseteq Seg \X (1..MaxRank)
  /\ Counts(r.emissions, k.emissions)

\* What is true as long as nobody compacted.
QueueReflects(r, k) == Prefers(r.decided, k.decides) /\ r.emitted = k.emits

---------------------------------------------------------------------------
(* The pieces under the operations.                                        *)

LEMMA CountsBump ==
  ASSUME NEW c \in Counter, NEW S, Counts(c, S), NEW w \in WRITERS
  PROVE  /\ bumpCounter(c, w) \in Counter
         /\ Counts(bumpCounter(c, w), S \cup {<<w, c[w] + 1>>})
         /\ counterValue(c) <= counterValue(bumpCounter(c, w))
  BY DEF Counter, Counts, bumpCounter, counterValue, WRITERS

LEMMA CountsMerge ==
  ASSUME NEW a \in Counter, NEW S, Counts(a, S), NEW b \in Counter, NEW T, Counts(b, T)
  PROVE  /\ Counts(mergeCounter(a, b), S \cup T)
         /\ counterValue(a) <= counterValue(mergeCounter(a, b))
         /\ counterValue(b) <= counterValue(mergeCounter(a, b))
  BY DEF Counter, Counts, mergeCounter, counterValue, Larger, WRITERS

LEMMA CountsFunction ==
  ASSUME NEW a \in Counter, NEW b \in Counter, NEW S, Counts(a, S), Counts(b, S)
  PROVE  a = b
<1>1. ASSUME NEW w \in WRITERS PROVE a[w] = b[w]
  <2>1. a[w] \in Nat /\ b[w] \in Nat
    BY DEF Counter
  <2>2. \A n \in Nat : (1 <= n /\ n <= a[w]) <=> (1 <= n /\ n <= b[w])
    BY DEF Counts
  <2> QED BY <2>1, <2>2
<1> QED BY <1>1 DEF Counter

LEMMA CountsCardinality ==
  ASSUME NEW c \in Counter, NEW S, Counts(c, S)
  PROVE  Cardinality(S) = counterValue(c)
<1> DEFINE D == {"daemon"} \X (1..c["daemon"])
           P == {"spawn"} \X (1..c["spawn"])
<1>1. c["daemon"] \in Nat /\ c["spawn"] \in Nat
  BY DEF Counter, WRITERS
<1>2. /\ IsFiniteSet({"daemon"}) /\ Cardinality({"daemon"}) = 1
      /\ IsFiniteSet({"spawn"}) /\ Cardinality({"spawn"}) = 1
  BY FS_Singleton
<1>3. /\ IsFiniteSet(1..c["daemon"]) /\ Cardinality(1..c["daemon"]) = c["daemon"]
      /\ IsFiniteSet(1..c["spawn"]) /\ Cardinality(1..c["spawn"]) = c["spawn"]
  <2>1. ASSUME NEW n \in Nat PROVE IsFiniteSet(1..n) /\ Cardinality(1..n) = n
    <3>1. 1 \in Int /\ n \in Int /\ (IF 1 > n THEN 0 ELSE n - 1 + 1) = n
      OBVIOUS
    <3>2. IsFiniteSet(1..n) /\ Cardinality(1..n) = IF 1 > n THEN 0 ELSE n - 1 + 1
      BY <3>1, FS_Interval
    <3> QED BY <3>1, <3>2
  <2> QED BY <1>1, <2>1
<1>4. /\ IsFiniteSet(D) /\ Cardinality(D) = c["daemon"]
      /\ IsFiniteSet(P) /\ Cardinality(P) = c["spawn"]
  <2>1. /\ IsFiniteSet(D) /\ Cardinality(D) = 1 * c["daemon"]
        /\ IsFiniteSet(P) /\ Cardinality(P) = 1 * c["spawn"]
    <3>1. IsFiniteSet(D) /\ Cardinality(D) = Cardinality({"daemon"}) * Cardinality(1..c["daemon"])
      BY <1>2, <1>3, FS_Product, Zenon
    <3>2. IsFiniteSet(P) /\ Cardinality(P) = Cardinality({"spawn"}) * Cardinality(1..c["spawn"])
      BY <1>2, <1>3, FS_Product, Zenon
    <3> QED BY <1>2, <1>3, <3>1, <3>2
  <2> QED BY <1>1, <2>1
<1>5. D \cap P = {}
  <2>1. \A o \in D : o[1] = "daemon"
    OBVIOUS
  <2>2. \A o \in P : o[1] = "spawn"
    OBVIOUS
  <2> QED BY <2>1, <2>2
<1>6. Cardinality(D \cup P) = c["daemon"] + c["spawn"]
  <2>1. Cardinality(D \cap P) = 0
    BY <1>5, FS_EmptySet
  <2>2. Cardinality(D \cup P) = Cardinality(D) + Cardinality(P) - Cardinality(D \cap P)
    <3> HIDE DEF D, P
    <3> QED BY <1>4, FS_Union
  <2> QED BY <1>1, <1>4, <2>1, <2>2
<1>7. S = D \cup P
  <2>1. \A w \in WRITERS, n \in Nat : <<w, n>> \in S <=> <<w, n>> \in D \cup P
    BY <1>1 DEF Counts, WRITERS
  <2>2. S \subseteq WRITERS \X Nat /\ D \cup P \subseteq WRITERS \X Nat
    BY <1>1 DEF Counts, WRITERS
  <2> QED BY <2>1, <2>2
<1> QED BY <1>6, <1>7 DEF counterValue

LEMMA MarksMerge ==
  ASSUME NEW a \in MaxReg, NEW S, Marks(a, S), NEW b \in MaxReg, NEW T, Marks(b, T)
  PROVE  Marks(mergeMaxReg(a, b), S \cup T)
<1> DEFINE m == mergeMaxReg(a, b)
<1>1. ASSUME NEW d \in Doc
      PROVE  /\ m[d] = NoMark => \A n \in Nat : <<d, n>> \notin S \cup T
             /\ m[d] # NoMark => /\ <<d, m[d]>> \in S \cup T
                                 /\ \A n \in Nat : <<d, n>> \in S \cup T => n <= m[d]
  <2>1. /\ a[d] \in Nat \cup {NoMark} /\ b[d] \in Nat \cup {NoMark}
        /\ m[d] = Larger(a[d], b[d])
    BY DEF MaxReg, mergeMaxReg
  <2>2. /\ a[d] = NoMark => \A n \in Nat : <<d, n>> \notin S
        /\ a[d] # NoMark => <<d, a[d]>> \in S /\ \A n \in Nat : <<d, n>> \in S => n <= a[d]
    BY DEF Marks
  <2>3. /\ b[d] = NoMark => \A n \in Nat : <<d, n>> \notin T
        /\ b[d] # NoMark => <<d, b[d]>> \in T /\ \A n \in Nat : <<d, n>> \in T => n <= b[d]
    BY DEF Marks
  <2>4. CASE a[d] >= b[d]
    BY <2>1, <2>2, <2>3, <2>4 DEF Larger, NoMark
  <2>5. CASE ~(a[d] >= b[d])
    BY <2>1, <2>2, <2>3, <2>5 DEF Larger, NoMark
  <2> QED BY <2>4, <2>5
<1> QED BY <1>1 DEF Marks

LEMMA MarksMark ==
  ASSUME NEW r \in MaxReg, NEW S, Marks(r, S), NEW d \in Doc, NEW n \in Nat
  PROVE  /\ mark(r, d, n) \in MaxReg
         /\ Marks(mark(r, d, n), S \cup {<<d, n>>})
         /\ \A e \in Doc : mark(r, d, n)[e] = IF e = d THEN Larger(r[d], n) ELSE r[e]
<1>1. \A e \in Doc : mark(r, d, n)[e] = IF e = d THEN Larger(r[d], n) ELSE r[e]
  BY DEF MaxReg, mark, mergeMaxReg, unmarked, Larger, NoMark
<1>2. mark(r, d, n) \in MaxReg
  BY DEF MaxReg, mark, mergeMaxReg, unmarked, Larger, NoMark
<1>3. Marks(mark(r, d, n), S \cup {<<d, n>>})
  <2> DEFINE m == mark(r, d, n)
  <2>1. ASSUME NEW e \in Doc
        PROVE  /\ m[e] = NoMark => \A i \in Nat : <<e, i>> \notin S \cup {<<d, n>>}
               /\ m[e] # NoMark =>
                    /\ <<e, m[e]>> \in S \cup {<<d, n>>}
                    /\ \A i \in Nat : <<e, i>> \in S \cup {<<d, n>>} => i <= m[e]
    <3>1. /\ r[e] \in Nat \cup {NoMark}
          /\ m[e] = IF e = d THEN Larger(r[e], n) ELSE r[e]
      BY <1>1 DEF MaxReg
    <3>2. /\ r[e] = NoMark => \A i \in Nat : <<e, i>> \notin S
          /\ r[e] # NoMark => <<e, r[e]>> \in S /\ \A i \in Nat : <<e, i>> \in S => i <= r[e]
      BY DEF Marks
    <3>3. CASE e # d
      BY <3>1, <3>2, <3>3
    <3>4. CASE e = d
      BY <3>1, <3>2, <3>4 DEF Larger, NoMark
    <3> QED BY <3>3, <3>4
  <2> QED BY <2>1 DEF Marks
<1> QED BY <1>1, <1>2, <1>3

LEMMA UntimedMark ==
  ASSUME NEW r \in MaxReg, NEW d \in Doc
  PROVE  mark(r, d, NoMark) = r
  BY DEF MaxReg, mark, mergeMaxReg, unmarked, Larger, NoMark

LEMMA MarksFunction ==
  ASSUME NEW a \in MaxReg, NEW b \in MaxReg, NEW S, Marks(a, S), Marks(b, S)
  PROVE  a = b
<1>1. ASSUME NEW d \in Doc PROVE a[d] = b[d]
  <2>1. (a[d] \in Nat \/ a[d] = NoMark) /\ (b[d] \in Nat \/ b[d] = NoMark)
    BY DEF MaxReg
  <2>2. /\ a[d] = NoMark => \A n \in Nat : <<d, n>> \notin S
        /\ a[d] # NoMark => <<d, a[d]>> \in S /\ \A n \in Nat : <<d, n>> \in S => n <= a[d]
    BY DEF Marks
  <2>3. /\ b[d] = NoMark => \A n \in Nat : <<d, n>> \notin S
        /\ b[d] # NoMark => <<d, b[d]>> \in S /\ \A n \in Nat : <<d, n>> \in S => n <= b[d]
    BY DEF Marks
  <2> QED BY <2>1, <2>2, <2>3
<1> QED BY <1>1 DEF MaxReg

LEMMA PrefersMerge ==
  ASSUME NEW a \in Decisions, NEW S, Prefers(a, S), NEW b \in Decisions, NEW T, Prefers(b, T)
  PROVE  Prefers(mergeDecided(a, b), S \cup T)
<1> DEFINE m == mergeDecided(a, b)
<1>1. ASSUME NEW x \in Seg
      PROVE  /\ m[x] = Undecided => \A n \in 1..MaxRank : <<x, n>> \notin S \cup T
             /\ m[x] # Undecided => /\ <<x, m[x]>> \in S \cup T
                                    /\ \A n \in 1..MaxRank : <<x, n>> \in S \cup T => m[x] <= n
  <2>1. /\ a[x] \in 0..MaxRank /\ b[x] \in 0..MaxRank
        /\ m[x] = Preferred(a[x], b[x])
    BY DEF Decisions, Undecided, mergeDecided
  <2>2. /\ a[x] = 0 => \A n \in 1..MaxRank : <<x, n>> \notin S
        /\ a[x] # 0 => <<x, a[x]>> \in S /\ \A n \in 1..MaxRank : <<x, n>> \in S => a[x] <= n
    BY DEF Prefers, Undecided
  <2>3. /\ b[x] = 0 => \A n \in 1..MaxRank : <<x, n>> \notin T
        /\ b[x] # 0 => <<x, b[x]>> \in T /\ \A n \in 1..MaxRank : <<x, n>> \in T => b[x] <= n
    BY DEF Prefers, Undecided
  <2>4. CASE a[x] = 0 \/ b[x] = 0
    BY <2>1, <2>2, <2>3, <2>4 DEF Preferred, Undecided
  <2>5. CASE a[x] # 0 /\ b[x] # 0 /\ a[x] <= b[x]
    BY <2>1, <2>2, <2>3, <2>5, CrdtAssumption DEF Preferred, Undecided
  <2>6. CASE a[x] # 0 /\ b[x] # 0 /\ ~(a[x] <= b[x])
    BY <2>1, <2>2, <2>3, <2>6, CrdtAssumption DEF Preferred, Undecided
  <2> QED BY <2>4, <2>5, <2>6
<1> QED BY <1>1 DEF Prefers

LEMMA PrefersFunction ==
  ASSUME NEW a \in Decisions, NEW b \in Decisions, NEW S, Prefers(a, S), Prefers(b, S)
  PROVE  a = b
<1>1. ASSUME NEW x \in Seg PROVE a[x] = b[x]
  <2>1. a[x] \in 0..MaxRank /\ b[x] \in 0..MaxRank
    BY DEF Decisions, Undecided
  <2>2. /\ a[x] = 0 => \A n \in 1..MaxRank : <<x, n>> \notin S
        /\ a[x] # 0 => <<x, a[x]>> \in S /\ \A n \in 1..MaxRank : <<x, n>> \in S => a[x] <= n
    BY DEF Prefers, Undecided
  <2>3. /\ b[x] = 0 => \A n \in 1..MaxRank : <<x, n>> \notin S
        /\ b[x] # 0 => <<x, b[x]>> \in S /\ \A n \in 1..MaxRank : <<x, n>> \in S => b[x] <= n
    BY DEF Prefers, Undecided
  <2> QED BY <2>1, <2>2, <2>3, CrdtAssumption
<1> QED BY <1>1 DEF Decisions

---------------------------------------------------------------------------
(* The operations of the three classes.                                    *)

Received ==
  [actions : SUBSET (WRITERS \X Nat), recalls : SUBSET (Doc \X Nat),
   denials : SUBSET (Doc \X Nat), recallTurns : SUBSET (Doc \X Nat),
   turns : SUBSET (WRITERS \X Nat), refusals : SUBSET WRITERS,
   decides : SUBSET (Seg \X (1..MaxRank)), emits : SUBSET Seg,
   emissions : SUBSET (WRITERS \X Nat)]

\* The fields of each class agree.
SameSeen(k, l) ==
  /\ k.actions = l.actions /\ k.recalls = l.recalls
  /\ k.recallTurns = l.recallTurns /\ k.denials = l.denials
SameTurns(k, l) == k.turns = l.turns /\ k.refusals = l.refusals
SameQueue(k, l) == k.decides = l.decides /\ k.emits = l.emits /\ k.emissions = l.emissions

\* What a merge and a recall add to the operations received.
ReceiveSeen(k, j) ==
  [k EXCEPT !.actions = @ \cup j.actions, !.recalls = @ \cup j.recalls,
            !.recallTurns = @ \cup j.recallTurns, !.denials = @ \cup j.denials]
ReceiveTurns(k, j) ==
  [k EXCEPT !.turns = @ \cup j.turns, !.refusals = @ \cup j.refusals]
ReceiveQueue(k, j) ==
  [k EXCEPT !.decides = @ \cup j.decides, !.emits = @ \cup j.emits,
            !.emissions = @ \cup j.emissions]
ReceiveRecall(k, d, denied, at, turn) ==
  [k EXCEPT !.recalls = @ \cup {<<d, at>>},
            !.recallTurns = IF turn = NoMark THEN @ ELSE @ \cup {<<d, turn>>},
            !.denials = IF denied THEN @ \cup {<<d, at>>} ELSE @]

LEMMA SeenBump ==
  ASSUME NEW s \in DocSeen, NEW k \in Received, SeenReflects(s, k), NEW w \in WRITERS,
         NEW t, t = [s EXCEPT !.actions = bumpCounter(@, w)],
         NEW l, l = [k EXCEPT !.actions = @ \cup {<<w, s.actions[w] + 1>>}]
  PROVE  /\ t \in DocSeen /\ l \in Received /\ SeenReflects(t, l)
         /\ SameTurns(k, l) /\ SameQueue(k, l)
<1>1. /\ s.actions \in Counter /\ Counts(s.actions, k.actions)
      /\ t.actions = bumpCounter(s.actions, w)
      /\ l.actions = k.actions \cup {<<w, s.actions[w] + 1>>}
  BY DEF DocSeen, SeenReflects, Received
<1>2. /\ t.actions \in Counter /\ Counts(t.actions, l.actions)
      /\ counterValue(s.actions) <= counterValue(t.actions)
  BY <1>1, CountsBump
<1>3. t \in DocSeen /\ l \in Received
  BY <1>1, <1>2 DEF DocSeen, Received, Counts
<1>4. NotAhead(t.recalled, t.actions)
  <2>1. /\ t.recalled = s.recalled /\ s.recalled \in MaxReg
        /\ counterValue(s.actions) \in Nat /\ counterValue(t.actions) \in Nat
    BY <1>1, <1>2 DEF DocSeen, Counter, counterValue, WRITERS
  <2> QED BY <2>1, <1>2 DEF SeenReflects, NotAhead, MaxReg, NoMark
<1>5. SeenReflects(t, l)
  BY <1>2, <1>4 DEF SeenReflects, DocSeen, Received
<1> QED BY <1>3, <1>5 DEF SameTurns, SameQueue, Received

LEMMA SeenRecall ==
  ASSUME NEW s \in DocSeen, NEW k \in Received, SeenReflects(s, k),
         NEW d \in Doc, NEW denied \in BOOLEAN, NEW turn \in Nat \cup {NoMark},
         NEW t, t = recall(s, d, denied, turn), NEW at, at = counterValue(s.actions),
         NEW l, l = ReceiveRecall(k, d, denied, at, turn)
  PROVE  /\ t \in DocSeen /\ l \in Received /\ SeenReflects(t, l)
         /\ SameTurns(k, l) /\ SameQueue(k, l)
<1>1. /\ s.recalled \in MaxReg /\ s.recalledTurn \in MaxReg /\ s.denied \in MaxReg
      /\ s.actions \in Counter /\ s.seen \subseteq Doc
      /\ at \in Nat
  BY DEF DocSeen, Counter, counterValue, WRITERS
<1>2. /\ t.actions = s.actions /\ t.seen = s.seen \cup {d}
      /\ t.recalled = mark(s.recalled, d, at)
      /\ t.recalledTurn = mark(s.recalledTurn, d, turn)
      /\ t.denied = IF denied THEN mark(s.denied, d, at) ELSE s.denied
  BY DEF recall, DocSeen
<1>3. /\ l.actions = k.actions
      /\ l.recalls = k.recalls \cup {<<d, at>>}
      /\ l.recallTurns = IF turn = NoMark THEN k.recallTurns ELSE k.recallTurns \cup {<<d, turn>>}
      /\ l.denials = IF denied THEN k.denials \cup {<<d, at>>} ELSE k.denials
  BY DEF Received, ReceiveRecall
<1>4. /\ t.recalled \in MaxReg /\ Marks(t.recalled, l.recalls)
      /\ \A e \in Doc : t.recalled[e] = IF e = d THEN Larger(s.recalled[d], at) ELSE s.recalled[e]
  <2>1. Marks(s.recalled, k.recalls) /\ s.recalled \in MaxReg /\ at \in Nat
    BY <1>1 DEF SeenReflects
  <2>2. t.recalled = mark(s.recalled, d, at) /\ l.recalls = k.recalls \cup {<<d, at>>}
    BY <1>2, <1>3, Zenon
  <2>3. /\ mark(s.recalled, d, at) \in MaxReg
        /\ Marks(mark(s.recalled, d, at), k.recalls \cup {<<d, at>>})
        /\ \A e \in Doc : mark(s.recalled, d, at)[e]
                           = IF e = d THEN Larger(s.recalled[d], at) ELSE s.recalled[e]
    <3>1. ASSUME NEW r \in MaxReg, NEW S, Marks(r, S), NEW n \in Nat
          PROVE  /\ mark(r, d, n) \in MaxReg /\ Marks(mark(r, d, n), S \cup {<<d, n>>})
                 /\ \A e \in Doc : mark(r, d, n)[e] = IF e = d THEN Larger(r[d], n) ELSE r[e]
      BY <3>1, MarksMark
    <3> QED BY <2>1, <3>1, Zenon
  <2> QED BY <2>2, <2>3, Zenon
<1>5. t.recalledTurn \in MaxReg /\ Marks(t.recalledTurn, l.recallTurns)
  <2>1. Marks(s.recalledTurn, k.recallTurns) /\ s.recalledTurn \in MaxReg
    BY <1>1 DEF SeenReflects
  <2>2. CASE turn = NoMark
    <3>1. mark(s.recalledTurn, d, turn) = s.recalledTurn
      BY <1>1, <2>2, UntimedMark
    <3> QED BY <1>2, <1>3, <2>1, <2>2, <3>1, Zenon
  <2>3. CASE turn # NoMark
    <3>1. /\ t.recalledTurn = mark(s.recalledTurn, d, turn)
          /\ l.recallTurns = k.recallTurns \cup {<<d, turn>>}
      BY <1>2, <1>3, <2>3, Zenon
    <3>2. turn \in Nat
      BY <2>3
    <3>3. /\ mark(s.recalledTurn, d, turn) \in MaxReg
          /\ Marks(mark(s.recalledTurn, d, turn), k.recallTurns \cup {<<d, turn>>})
      BY <2>1, <3>2, MarksMark
    <3> QED BY <3>1, <3>3, Zenon
  <2> QED BY <2>2, <2>3
<1>6. t.denied \in MaxReg /\ Marks(t.denied, l.denials)
  <2>1. Marks(s.denied, k.denials)
    BY DEF SeenReflects
  <2>2. CASE denied
    <3>1. t.denied = mark(s.denied, d, at) /\ l.denials = k.denials \cup {<<d, at>>}
      BY <1>2, <1>3, <2>2, Zenon
    <3>2. /\ mark(s.denied, d, at) \in MaxReg
          /\ Marks(mark(s.denied, d, at), k.denials \cup {<<d, at>>})
      BY <1>1, <2>1, MarksMark
    <3> QED BY <3>1, <3>2, Zenon
  <2>3. CASE ~denied
    BY <1>1, <1>2, <1>3, <2>1, <2>3
  <2> QED BY <2>2, <2>3
<1>7. t \in DocSeen
  <2>1. t = [actions |-> t.actions, seen |-> t.seen, recalled |-> t.recalled,
             recalledTurn |-> t.recalledTurn, denied |-> t.denied]
    BY DEF recall, DocSeen
  <2> QED BY <1>1, <1>2, <1>4, <1>5, <1>6, <2>1 DEF DocSeen
<1>8. l \in Received
  <2>1. /\ k.recalls \cup {<<d, at>>} \subseteq Doc \X Nat
        /\ k.recallTurns \subseteq Doc \X Nat
        /\ turn # NoMark => k.recallTurns \cup {<<d, turn>>} \subseteq Doc \X Nat
        /\ k.denials \cup {<<d, at>>} \subseteq Doc \X Nat
    BY <1>1 DEF Received
  <2>2. l.denials \subseteq Doc \X Nat
    BY <1>3, <2>1 DEF Received
  <2>3. l.recalls \subseteq Doc \X Nat /\ l.recallTurns \subseteq Doc \X Nat
    BY <1>3, <2>1
  <2>4. l = [k EXCEPT !.recalls = l.recalls, !.recallTurns = l.recallTurns,
                      !.denials = l.denials]
    BY <1>3 DEF Received, ReceiveRecall
  <2> QED BY <2>2, <2>3, <2>4 DEF Received
<1>9. l.denials \subseteq l.recalls
  BY <1>3 DEF SeenReflects
<1>10. t.seen = {e \in Doc : t.recalled[e] # NoMark}
  BY <1>1, <1>2, <1>4 DEF SeenReflects, MaxReg, Larger, NoMark
<1>11. NotAhead(t.recalled, t.actions)
  BY <1>1, <1>2, <1>4 DEF SeenReflects, NotAhead, MaxReg, Larger, NoMark
<1>12. Counts(t.actions, l.actions)
  BY <1>2, <1>3 DEF SeenReflects
<1>13. SeenReflects(t, l)
  BY <1>4, <1>5, <1>6, <1>9, <1>10, <1>11, <1>12 DEF SeenReflects
<1> QED BY <1>7, <1>8, <1>13 DEF SameTurns, SameQueue, Received, ReceiveRecall

LEMMA SeenMerge ==
  ASSUME NEW s \in DocSeen, NEW k \in Received, SeenReflects(s, k),
         NEW r \in DocSeen, NEW j \in Received, SeenReflects(r, j),
         NEW t, t = mergeDocSeen(s, r),
         NEW l, l = ReceiveSeen(k, j)
  PROVE  /\ t \in DocSeen /\ l \in Received /\ SeenReflects(t, l)
         /\ SameTurns(k, l) /\ SameQueue(k, l)
<1>1. t \in DocSeen
  BY DocSeenSemilattice
<1>2. l \in Received /\ SameTurns(k, l) /\ SameQueue(k, l)
  BY DEF Received, ReceiveSeen, SameTurns, SameQueue
<1>3. /\ l.actions = k.actions \cup j.actions
      /\ l.recalls = k.recalls \cup j.recalls
      /\ l.recallTurns = k.recallTurns \cup j.recallTurns
      /\ l.denials = k.denials \cup j.denials
  BY DEF Received, ReceiveSeen
<1>4. /\ s.actions \in Counter /\ r.actions \in Counter
      /\ s.recalled \in MaxReg /\ r.recalled \in MaxReg
      /\ s.recalledTurn \in MaxReg /\ r.recalledTurn \in MaxReg
      /\ s.denied \in MaxReg /\ r.denied \in MaxReg
  BY DEF DocSeen
<1>5. /\ Counts(t.actions, l.actions)
      /\ counterValue(s.actions) <= counterValue(t.actions)
      /\ counterValue(r.actions) <= counterValue(t.actions)
  <2>1. Counts(s.actions, k.actions) /\ Counts(r.actions, j.actions)
    BY DEF SeenReflects
  <2>2. t.actions = mergeCounter(s.actions, r.actions) /\ l.actions = k.actions \cup j.actions
    BY <1>3 DEF mergeDocSeen
  <2>3. LET c == mergeCounter(s.actions, r.actions)
        IN  /\ Counts(c, k.actions \cup j.actions)
            /\ counterValue(s.actions) <= counterValue(c)
            /\ counterValue(r.actions) <= counterValue(c)
    BY <1>4, <2>1, CountsMerge
  <2> QED BY <2>2, <2>3, Zenon
<1>6. /\ Marks(t.recalled, l.recalls)
      /\ Marks(t.recalledTurn, l.recallTurns)
      /\ Marks(t.denied, l.denials)
  BY <1>3, <1>4, MarksMerge DEF SeenReflects, mergeDocSeen
<1>7. \A d \in Doc : t.recalled[d] = Larger(s.recalled[d], r.recalled[d])
  BY DEF mergeDocSeen, mergeMaxReg
<1>8. t.seen = {d \in Doc : t.recalled[d] # NoMark}
  <2>1. t.seen = s.seen \cup r.seen
    BY DEF mergeDocSeen
  <2> QED BY <1>4, <1>7, <2>1 DEF SeenReflects, MaxReg, Larger, NoMark
<1>9. NotAhead(t.recalled, t.actions)
  <2>1. /\ counterValue(s.actions) \in Nat /\ counterValue(r.actions) \in Nat
        /\ counterValue(t.actions) \in Nat
    BY <1>1, <1>4 DEF DocSeen, Counter, counterValue, WRITERS
  <2>2. NotAhead(s.recalled, s.actions) /\ NotAhead(r.recalled, r.actions)
    BY DEF SeenReflects
  <2> QED BY <1>4, <1>5, <1>7, <2>1, <2>2 DEF NotAhead, MaxReg, Larger, NoMark
<1>10. l.denials \subseteq l.recalls
  BY <1>3 DEF SeenReflects
<1> QED BY <1>1, <1>2, <1>5, <1>6, <1>8, <1>9, <1>10 DEF SeenReflects

LEMMA TurnsBump ==
  ASSUME NEW s \in Turns, NEW k \in Received, TurnsReflect(s, k), NEW w \in WRITERS,
         NEW t, t = [s EXCEPT !.turns = bumpCounter(@, w)],
         NEW l, l = [k EXCEPT !.turns = @ \cup {<<w, s.turns[w] + 1>>}]
  PROVE  /\ t \in Turns /\ l \in Received /\ TurnsReflect(t, l)
         /\ SameSeen(k, l) /\ SameQueue(k, l)
<1>1. /\ s.turns \in Counter /\ Counts(s.turns, k.turns)
      /\ t.turns = bumpCounter(s.turns, w) /\ t.refused = s.refused
      /\ l.turns = k.turns \cup {<<w, s.turns[w] + 1>>} /\ l.refusals = k.refusals
  BY DEF Turns, TurnsReflect, Received
<1>2. t.turns \in Counter /\ Counts(t.turns, l.turns)
  BY <1>1, CountsBump
<1>3. t \in Turns /\ l \in Received
  BY <1>1, <1>2 DEF Turns, Received, Counts
<1>4. TurnsReflect(t, l)
  BY <1>1, <1>2 DEF TurnsReflect
<1> QED BY <1>3, <1>4 DEF SameSeen, SameQueue, Received

LEMMA TurnsRefuse ==
  ASSUME NEW s \in Turns, NEW k \in Received, TurnsReflect(s, k), NEW w \in WRITERS,
         NEW t, t = [s EXCEPT !.refused = TRUE],
         NEW l, l = [k EXCEPT !.refusals = @ \cup {w}]
  PROVE  /\ t \in Turns /\ l \in Received /\ TurnsReflect(t, l)
         /\ SameSeen(k, l) /\ SameQueue(k, l)
  BY DEF Turns, Received, TurnsReflect, SameSeen, SameQueue

LEMMA TurnsMerge ==
  ASSUME NEW s \in Turns, NEW k \in Received, TurnsReflect(s, k),
         NEW r \in Turns, NEW j \in Received, TurnsReflect(r, j),
         NEW t, t = mergeTurns(s, r),
         NEW l, l = ReceiveTurns(k, j)
  PROVE  /\ t \in Turns /\ l \in Received /\ TurnsReflect(t, l)
         /\ SameSeen(k, l) /\ SameQueue(k, l)
<1>1. t \in Turns
  BY TurnsSemilattice
<1>2. l \in Received /\ SameSeen(k, l) /\ SameQueue(k, l)
  BY DEF Received, ReceiveTurns, SameSeen, SameQueue
<1>3. l.turns = k.turns \cup j.turns /\ l.refusals = k.refusals \cup j.refusals
  BY DEF Received, ReceiveTurns
<1>4. Counts(t.turns, l.turns)
  BY <1>3, CountsMerge DEF TurnsReflect, mergeTurns, Turns
<1>5. t.refused <=> l.refusals # {}
  BY <1>3 DEF TurnsReflect, mergeTurns
<1> QED BY <1>1, <1>2, <1>4, <1>5 DEF TurnsReflect

LEMMA QueueDecide ==
  ASSUME NEW s \in Remainder, NEW k \in Received, OwedReflect(s, k),
         NEW x \in Seg, NEW rank \in 1..MaxRank,
         NEW t, t = decideSegments(s, x, rank),
         NEW l, l = [k EXCEPT !.decides = @ \cup {<<x, rank>>}]
  PROVE  /\ t \in Remainder /\ l \in Received /\ OwedReflect(t, l)
         /\ QueueReflects(s, k) => QueueReflects(t, l)
         /\ SameSeen(k, l) /\ SameTurns(k, l)
<1>1. /\ s.decided \in Decisions
      /\ t.decided = [s.decided EXCEPT ![x] = Preferred(@, rank)]
      /\ t.emitted = s.emitted /\ t.emissions = s.emissions
      /\ l.decides = k.decides \cup {<<x, rank>>}
      /\ l.emits = k.emits /\ l.emissions = k.emissions
  BY DEF Remainder, decideSegments, Received
<1>2. /\ \A y \in Seg : t.decided[y] = IF y = x THEN Preferred(s.decided[x], rank) ELSE s.decided[y]
      /\ Preferred(s.decided[x], rank) \in 1..MaxRank
  BY <1>1, CrdtAssumption DEF Decisions, Preferred, Undecided
<1>3. t.decided \in Decisions
  BY <1>1, <1>2 DEF Decisions, Undecided
<1>4. t \in Remainder /\ l \in Received
  BY <1>1, <1>3 DEF Remainder, decideSegments, Received
<1>5. OwedReflect(t, l)
  BY <1>1, <1>2 DEF OwedReflect, Undecided
<1>6. ASSUME Prefers(s.decided, k.decides) PROVE Prefers(t.decided, l.decides)
  <2>1. ASSUME NEW y \in Seg
        PROVE  /\ t.decided[y] = Undecided => \A n \in 1..MaxRank : <<y, n>> \notin l.decides
               /\ t.decided[y] # Undecided =>
                    /\ <<y, t.decided[y]>> \in l.decides
                    /\ \A n \in 1..MaxRank : <<y, n>> \in l.decides => t.decided[y] <= n
    <3>1. s.decided[y] \in 0..MaxRank
      BY <1>1 DEF Decisions, Undecided
    <3>2. /\ s.decided[y] = 0 => \A n \in 1..MaxRank : <<y, n>> \notin k.decides
          /\ s.decided[y] # 0 =>
               /\ <<y, s.decided[y]>> \in k.decides
               /\ \A n \in 1..MaxRank : <<y, n>> \in k.decides => s.decided[y] <= n
      BY <1>6 DEF Prefers, Undecided
    <3>3. CASE y # x
      BY <1>1, <1>2, <3>2, <3>3 DEF Undecided
    <3>4. CASE y = x
      BY <1>1, <1>2, <3>1, <3>2, <3>4, CrdtAssumption DEF Undecided, Preferred
    <3> QED BY <3>3, <3>4
  <2> QED BY <1>1, <1>6, <2>1 DEF Prefers
<1> QED BY <1>1, <1>4, <1>5, <1>6 DEF QueueReflects, SameSeen, SameTurns, Received

LEMMA QueueEmit ==
  ASSUME NEW s \in Remainder, NEW k \in Received, OwedReflect(s, k), NEW x \in Seg,
         NEW t, t = emitSegments(s, x),
         NEW l, l = [k EXCEPT !.emits = @ \cup {x}]
  PROVE  /\ t \in Remainder /\ l \in Received /\ OwedReflect(t, l)
         /\ QueueReflects(s, k) => QueueReflects(t, l)
         /\ SameSeen(k, l) /\ SameTurns(k, l)
<1>1. /\ t.decided = s.decided /\ t.emitted = s.emitted \cup {x} /\ t.emissions = s.emissions
      /\ l.decides = k.decides /\ l.emits = k.emits \cup {x} /\ l.emissions = k.emissions
  BY DEF Remainder, emitSegments, Received
<1>2. t \in Remainder /\ l \in Received
  BY DEF Remainder, emitSegments, Received
<1> QED BY <1>1, <1>2 DEF OwedReflect, QueueReflects, SameSeen, SameTurns, Received

LEMMA QueueCount ==
  ASSUME NEW s \in Remainder, NEW k \in Received, OwedReflect(s, k), NEW w \in WRITERS,
         NEW t, t = countEmission(s, w),
         NEW l, l = [k EXCEPT !.emissions = @ \cup {<<w, s.emissions[w] + 1>>}]
  PROVE  /\ t \in Remainder /\ l \in Received /\ OwedReflect(t, l)
         /\ QueueReflects(s, k) => QueueReflects(t, l)
         /\ SameSeen(k, l) /\ SameTurns(k, l)
<1>1. /\ t.decided = s.decided /\ t.emitted = s.emitted
      /\ t.emissions = bumpCounter(s.emissions, w) /\ s.emissions \in Counter
      /\ l.decides = k.decides /\ l.emits = k.emits
      /\ l.emissions = k.emissions \cup {<<w, s.emissions[w] + 1>>}
      /\ Counts(s.emissions, k.emissions)
  BY DEF Remainder, countEmission, Received, OwedReflect
<1>2. t.emissions \in Counter /\ Counts(t.emissions, l.emissions)
  BY <1>1, CountsBump
<1>3. t \in Remainder /\ l \in Received
  BY <1>1, <1>2 DEF Remainder, countEmission, Received, Counts
<1> QED BY <1>1, <1>2, <1>3 DEF OwedReflect, QueueReflects, SameSeen, SameTurns, Received

LEMMA QueueMerge ==
  ASSUME NEW s \in Remainder, NEW k \in Received, OwedReflect(s, k),
         NEW r \in Remainder, NEW j \in Received, OwedReflect(r, j),
         NEW t, t = mergeRemainder(s, r),
         NEW l, l = ReceiveQueue(k, j)
  PROVE  /\ t \in Remainder /\ l \in Received /\ OwedReflect(t, l)
         /\ QueueReflects(s, k) /\ QueueReflects(r, j) => QueueReflects(t, l)
         /\ SameSeen(k, l) /\ SameTurns(k, l)
<1>1. t \in Remainder
  BY RemainderSemilattice
<1>2. l \in Received /\ SameSeen(k, l) /\ SameTurns(k, l)
  BY DEF Received, ReceiveQueue, SameSeen, SameTurns
<1>3. /\ l.decides = k.decides \cup j.decides /\ l.emits = k.emits \cup j.emits
      /\ l.emissions = k.emissions \cup j.emissions
  BY DEF Received, ReceiveQueue
<1>4. /\ t.decided = mergeDecided(s.decided, r.decided)
      /\ t.emitted = s.emitted \cup r.emitted
      /\ t.emissions = mergeCounter(s.emissions, r.emissions)
      /\ s.decided \in Decisions /\ r.decided \in Decisions
      /\ s.emissions \in Counter /\ r.emissions \in Counter
  BY DEF mergeRemainder, Remainder
<1>5. Counts(t.emissions, l.emissions)
  BY <1>3, <1>4, CountsMerge DEF OwedReflect
<1>6. ASSUME NEW x \in Seg, s.decided[x] # Undecided \/ r.decided[x] # Undecided
      PROVE  t.decided[x] # Undecided
  BY <1>4, <1>6 DEF mergeDecided, Preferred
<1>7. OwedReflect(t, l)
  <2>1. l.decides \subseteq Seg \X (1..MaxRank) /\ t.emitted \subseteq l.emits
    BY <1>3, <1>4 DEF OwedReflect
  <2>2. ASSUME NEW x \in Seg, NEW n \in 1..MaxRank, <<x, n>> \in l.decides, x \notin l.emits
        PROVE  t.decided[x] # Undecided
    BY <1>3, <1>6, <2>2 DEF OwedReflect
  <2> QED BY <1>5, <2>1, <2>2 DEF OwedReflect
<1>8. ASSUME QueueReflects(s, k), QueueReflects(r, j) PROVE QueueReflects(t, l)
  BY <1>3, <1>4, <1>8, PrefersMerge DEF QueueReflects
<1> QED BY <1>1, <1>2, <1>7, <1>8

LEMMA QueueCompact ==
  ASSUME NEW s \in Remainder, NEW k \in Received, OwedReflect(s, k)
  PROVE  compactRemainder(s) \in Remainder /\ OwedReflect(compactRemainder(s), k)
<1> DEFINE both == {x \in s.emitted : s.decided[x] # Undecided}
           t == compactRemainder(s)
<1>1. /\ t.decided = [x \in Seg |-> IF x \in both THEN Undecided ELSE s.decided[x]]
      /\ t.emitted = s.emitted \ both /\ t.emissions = s.emissions
      /\ s.decided \in Decisions /\ s.emitted \subseteq Seg
  BY DEF compactRemainder, Remainder
<1>2. t.decided \in Decisions
  BY <1>1, CrdtAssumption DEF Decisions, Undecided
<1>3. t \in Remainder
  BY <1>1, <1>2 DEF compactRemainder, Remainder
<1>4. t.emitted \subseteq k.emits
  BY <1>1 DEF OwedReflect
<1>5. ASSUME NEW x \in Seg, NEW n \in 1..MaxRank, <<x, n>> \in k.decides, x \notin k.emits
      PROVE  t.decided[x] # Undecided
  BY <1>1, <1>5 DEF OwedReflect
<1>6. OwedReflect(t, k)
  BY <1>1, <1>4, <1>5 DEF OwedReflect
<1> QED BY <1>3, <1>6

---------------------------------------------------------------------------
(* The invariant.                                                          *)

IInv ==
  /\ TypeOK
  /\ known \in [Peer -> Received]
  /\ \A p \in Peer :
       /\ SeenReflects(docSeen[p], known[p])
       /\ TurnsReflect(turns[p], known[p])
       /\ OwedReflect(remainder[p], known[p])
       /\ ~compacted => QueueReflects(remainder[p], known[p])

LEMMA InitIInv == Init => IInv
<1> SUFFICES ASSUME Init PROVE IInv
  OBVIOUS
<1>1. /\ zeroes \in Counter /\ unmarked \in MaxReg
      /\ Counts(zeroes, {}) /\ Marks(unmarked, {})
      /\ counterValue(zeroes) = 0
  BY DEF zeroes, unmarked, Counter, MaxReg, Counts, Marks, NoMark, counterValue, WRITERS
<1>2. emptyDocSeen \in DocSeen /\ SeenReflects(emptyDocSeen, NoOps)
  <2>1. NotAhead(unmarked, zeroes)
    BY <1>1 DEF NotAhead, unmarked, NoMark
  <2>2. {d \in Doc : unmarked[d] # NoMark} = {}
    BY DEF unmarked
  <2> QED BY <1>1, <2>1, <2>2 DEF emptyDocSeen, DocSeen, NoOps, SeenReflects
<1>3. emptyTurns \in Turns /\ TurnsReflect(emptyTurns, NoOps)
  BY <1>1 DEF emptyTurns, Turns, NoOps, TurnsReflect
<1>4. /\ emptyRemainder \in Remainder
      /\ OwedReflect(emptyRemainder, NoOps) /\ QueueReflects(emptyRemainder, NoOps)
  BY <1>1, CrdtAssumption
     DEF emptyRemainder, Remainder, Decisions, Undecided, NoOps, OwedReflect, QueueReflects, Prefers
<1>5. NoOps \in Received
  BY DEF NoOps, Received
<1>6. 0 \in 0..MaxOps
  BY CrdtAssumption
<1> QED BY <1>2, <1>3, <1>4, <1>5, <1>6 DEF Init, IInv, TypeOK

\* A step that changes the replicas of one peer.
LEMMA OnePeer ==
  ASSUME IInv, NEW p \in Peer,
         NEW s \in DocSeen, NEW t \in Turns, NEW r \in Remainder, NEW k \in Received,
         SeenReflects(s, k), TurnsReflect(t, k), OwedReflect(r, k),
         ~compacted' => ~compacted /\ QueueReflects(r, k),
         docSeen' = [docSeen EXCEPT ![p] = s], turns' = [turns EXCEPT ![p] = t],
         remainder' = [remainder EXCEPT ![p] = r], known' = [known EXCEPT ![p] = k],
         ops' \in 0..MaxOps, compacted' \in BOOLEAN
  PROVE  IInv'
<1>1. TypeOK' /\ known' \in [Peer -> Received]
  BY DEF IInv, TypeOK
<1>2. ASSUME NEW q \in Peer
      PROVE  /\ SeenReflects(docSeen[q], known[q])'
             /\ TurnsReflect(turns[q], known[q])'
             /\ OwedReflect(remainder[q], known[q])'
             /\ (~compacted => QueueReflects(remainder[q], known[q]))'
  <2>1. CASE q = p
    <3>1. docSeen'[q] = s /\ turns'[q] = t /\ remainder'[q] = r /\ known'[q] = k
      BY <2>1 DEF IInv, TypeOK
    <3> QED BY <3>1
  <2>2. CASE q # p
    <3>1. /\ docSeen'[q] = docSeen[q] /\ turns'[q] = turns[q]
          /\ remainder'[q] = remainder[q] /\ known'[q] = known[q]
      BY <2>2 DEF IInv, TypeOK
    <3> QED BY <3>1 DEF IInv
  <2> QED BY <2>1, <2>2
<1> QED BY <1>1, <1>2 DEF IInv

\* What the invariant says of one peer.
LEMMA Here ==
  ASSUME IInv, NEW p \in Peer
  PROVE  /\ docSeen[p] \in DocSeen /\ turns[p] \in Turns /\ remainder[p] \in Remainder
         /\ known[p] \in Received
         /\ docSeen = [docSeen EXCEPT ![p] = docSeen[p]]
         /\ turns = [turns EXCEPT ![p] = turns[p]]
         /\ remainder = [remainder EXCEPT ![p] = remainder[p]]
         /\ known = [known EXCEPT ![p] = known[p]]
         /\ SeenReflects(docSeen[p], known[p])
         /\ TurnsReflect(turns[p], known[p])
         /\ OwedReflect(remainder[p], known[p])
         /\ ~compacted => QueueReflects(remainder[p], known[p])
  BY DEF IInv, TypeOK

\* The parts of the invariant that a class of operations leaves alone.
LEMMA Untouched ==
  ASSUME NEW k \in Received, NEW l \in Received, NEW s, NEW t, NEW r
  PROVE  /\ SameSeen(k, l) /\ SeenReflects(s, k) => SeenReflects(s, l)
         /\ SameTurns(k, l) /\ TurnsReflect(t, k) => TurnsReflect(t, l)
         /\ SameQueue(k, l) /\ OwedReflect(r, k) => OwedReflect(r, l)
         /\ SameQueue(k, l) /\ QueueReflects(r, k) => QueueReflects(r, l)
  BY DEF SameSeen, SameTurns, SameQueue, SeenReflects, TurnsReflect, OwedReflect, QueueReflects

LEMMA Operation ==
  ASSUME IInv, Apply
  PROVE  ops' \in 0..MaxOps /\ compacted' \in BOOLEAN /\ compacted' = compacted
  BY CrdtAssumption DEF IInv, TypeOK, Apply

LEMMA Steps ==
  ASSUME IInv, [Next]_vars
  PROVE  IInv'
<1>1. ASSUME NEW w \in WRITERS PROVE w \in Peer
  BY CrdtAssumption
<1>2. ASSUME NEW w \in WRITERS, BumpAction(w) PROVE IInv'
  <2> DEFINE t == [docSeen[w] EXCEPT !.actions = bumpCounter(@, w)]
             l == [known[w] EXCEPT !.actions = @ \cup {<<w, docSeen[w].actions[w] + 1>>}]
  <2>1. /\ docSeen' = [docSeen EXCEPT ![w] = t] /\ known' = [known EXCEPT ![w] = l]
        /\ turns' = [turns EXCEPT ![w] = turns[w]]
        /\ remainder' = [remainder EXCEPT ![w] = remainder[w]]
    BY <1>1, <1>2, Here DEF BumpAction
  <2>2. /\ t \in DocSeen /\ l \in Received /\ SeenReflects(t, l)
        /\ SameTurns(known[w], l) /\ SameQueue(known[w], l)
    BY <1>1, Here, SeenBump
  <2>3. ops' \in 0..MaxOps /\ compacted' \in BOOLEAN /\ compacted' = compacted
    BY <1>2, Operation DEF BumpAction
  <2> HIDE DEF t, l
  <2> QED BY <1>1, <2>1, <2>2, <2>3, Here, Untouched, OnePeer
<1>3. ASSUME NEW w \in WRITERS, NEW d \in Doc, NEW denied \in BOOLEAN, NEW timed \in BOOLEAN,
             Recall(w, d, denied, timed)
      PROVE  IInv'
  <2> DEFINE at == counterValue(docSeen[w].actions)
             clock == counterValue(turns[w].turns)
             turn == IF timed THEN clock ELSE NoMark
             t == recall(docSeen[w], d, denied, turn)
             l == ReceiveRecall(known[w], d, denied, at, turn)
  <2>0. clock \in Nat
    BY <1>1, Here DEF Turns, Counter, counterValue, WRITERS
  <2>1. /\ docSeen' = [docSeen EXCEPT ![w] = t] /\ known' = [known EXCEPT ![w] = l]
        /\ turns' = [turns EXCEPT ![w] = turns[w]]
        /\ remainder' = [remainder EXCEPT ![w] = remainder[w]]
    <3>1. docSeen' = [docSeen EXCEPT ![w] = t] /\ UNCHANGED <<turns, remainder>>
      BY <1>3 DEF Recall
    <3>2. known' = [known EXCEPT ![w] = l]
      <4>1. (turn = NoMark) <=> ~timed
        BY <2>0 DEF NoMark
      <4>2. known' = [known EXCEPT
                        ![w].recalls = @ \cup {<<d, at>>},
                        ![w].recallTurns = IF timed THEN @ \cup {<<d, turn>>} ELSE @,
                        ![w].denials = IF denied THEN @ \cup {<<d, at>>} ELSE @]
        BY <1>3 DEF Recall
      <4>3. known'= [known EXCEPT
                        ![w].recalls = @ \cup {<<d, at>>},
                        ![w].recallTurns = IF turn = NoMark THEN @ ELSE @ \cup {<<d, turn>>},
                        ![w].denials = IF denied THEN @ \cup {<<d, at>>} ELSE @]
        <5> HIDE DEF at, turn
        <5> QED BY <4>1, <4>2
      <4> QED BY <4>3 DEF ReceiveRecall
    <3>3. /\ turns = [turns EXCEPT ![w] = turns[w]]
          /\ remainder = [remainder EXCEPT ![w] = remainder[w]]
      BY <1>1, Here
    <3> HIDE DEF t, l, at, turn, clock
    <3> QED BY <3>1, <3>2, <3>3
  <2>2. turn \in Nat \cup {NoMark}
    BY <2>0
  <2>3. /\ t \in DocSeen /\ l \in Received /\ SeenReflects(t, l)
        /\ SameTurns(known[w], l) /\ SameQueue(known[w], l)
    <3>1. docSeen[w] \in DocSeen /\ known[w] \in Received /\ SeenReflects(docSeen[w], known[w])
      BY <1>1, Here
    <3> QED BY <2>2, <3>1, SeenRecall
  <2>4. ops' \in 0..MaxOps /\ compacted' \in BOOLEAN /\ compacted' = compacted
    BY <1>3, Operation DEF Recall
  <2> HIDE DEF t, l, at, turn, clock
  <2> QED BY <1>1, <2>1, <2>3, <2>4, Here, Untouched, OnePeer
<1>4. ASSUME NEW w \in WRITERS, BumpTurn(w) PROVE IInv'
  <2> DEFINE t == [turns[w] EXCEPT !.turns = bumpCounter(@, w)]
             l == [known[w] EXCEPT !.turns = @ \cup {<<w, turns[w].turns[w] + 1>>}]
  <2>1. /\ turns' = [turns EXCEPT ![w] = t] /\ known' = [known EXCEPT ![w] = l]
        /\ docSeen' = [docSeen EXCEPT ![w] = docSeen[w]]
        /\ remainder' = [remainder EXCEPT ![w] = remainder[w]]
    BY <1>1, <1>4, Here DEF BumpTurn
  <2>2. /\ t \in Turns /\ l \in Received /\ TurnsReflect(t, l)
        /\ SameSeen(known[w], l) /\ SameQueue(known[w], l)
    BY <1>1, Here, TurnsBump
  <2>3. ops' \in 0..MaxOps /\ compacted' \in BOOLEAN /\ compacted' = compacted
    BY <1>4, Operation DEF BumpTurn
  <2> HIDE DEF t, l
  <2> QED BY <1>1, <2>1, <2>2, <2>3, Here, Untouched, OnePeer
<1>5. ASSUME NEW w \in WRITERS, NoteRefusal(w) PROVE IInv'
  <2> DEFINE t == [turns[w] EXCEPT !.refused = TRUE]
             l == [known[w] EXCEPT !.refusals = @ \cup {w}]
  <2>1. /\ turns' = [turns EXCEPT ![w] = t] /\ known' = [known EXCEPT ![w] = l]
        /\ docSeen' = [docSeen EXCEPT ![w] = docSeen[w]]
        /\ remainder' = [remainder EXCEPT ![w] = remainder[w]]
    BY <1>1, <1>5, Here DEF NoteRefusal
  <2>2. /\ t \in Turns /\ l \in Received /\ TurnsReflect(t, l)
        /\ SameSeen(known[w], l) /\ SameQueue(known[w], l)
    BY <1>1, Here, TurnsRefuse
  <2>3. ops' \in 0..MaxOps /\ compacted' \in BOOLEAN /\ compacted' = compacted
    BY <1>5, Operation DEF NoteRefusal
  <2> HIDE DEF t, l
  <2> QED BY <1>1, <2>1, <2>2, <2>3, Here, Untouched, OnePeer
<1>6. ASSUME NEW w \in WRITERS, NEW x \in Seg, NEW rank \in 1..MaxRank, DecideSegments(w, x, rank)
      PROVE  IInv'
  <2> DEFINE t == decideSegments(remainder[w], x, rank)
             l == [known[w] EXCEPT !.decides = @ \cup {<<x, rank>>}]
  <2>1. /\ remainder' = [remainder EXCEPT ![w] = t] /\ known' = [known EXCEPT ![w] = l]
        /\ docSeen' = [docSeen EXCEPT ![w] = docSeen[w]]
        /\ turns' = [turns EXCEPT ![w] = turns[w]]
    BY <1>1, <1>6, Here DEF DecideSegments
  <2>2. /\ t \in Remainder /\ l \in Received /\ OwedReflect(t, l)
        /\ QueueReflects(remainder[w], known[w]) => QueueReflects(t, l)
        /\ SameSeen(known[w], l) /\ SameTurns(known[w], l)
    BY <1>1, Here, QueueDecide
  <2>3. ops' \in 0..MaxOps /\ compacted' \in BOOLEAN /\ compacted' = compacted
    BY <1>6, Operation DEF DecideSegments
  <2> HIDE DEF t, l
  <2> QED BY <1>1, <2>1, <2>2, <2>3, Here, Untouched, OnePeer
<1>7. ASSUME NEW w \in WRITERS, NEW x \in Seg, EmitSegments(w, x) PROVE IInv'
  <2> DEFINE t == emitSegments(remainder[w], x)
             l == [known[w] EXCEPT !.emits = @ \cup {x}]
  <2>1. /\ remainder' = [remainder EXCEPT ![w] = t] /\ known' = [known EXCEPT ![w] = l]
        /\ docSeen' = [docSeen EXCEPT ![w] = docSeen[w]]
        /\ turns' = [turns EXCEPT ![w] = turns[w]]
    BY <1>1, <1>7, Here DEF EmitSegments
  <2>2. /\ t \in Remainder /\ l \in Received /\ OwedReflect(t, l)
        /\ QueueReflects(remainder[w], known[w]) => QueueReflects(t, l)
        /\ SameSeen(known[w], l) /\ SameTurns(known[w], l)
    BY <1>1, Here, QueueEmit
  <2>3. ops' \in 0..MaxOps /\ compacted' \in BOOLEAN /\ compacted' = compacted
    BY <1>7, Operation DEF EmitSegments
  <2> HIDE DEF t, l
  <2> QED BY <1>1, <2>1, <2>2, <2>3, Here, Untouched, OnePeer
<1>8. ASSUME NEW w \in WRITERS, CountEmission(w) PROVE IInv'
  <2> DEFINE t == countEmission(remainder[w], w)
             l == [known[w] EXCEPT !.emissions = @ \cup {<<w, remainder[w].emissions[w] + 1>>}]
  <2>1. /\ remainder' = [remainder EXCEPT ![w] = t] /\ known' = [known EXCEPT ![w] = l]
        /\ docSeen' = [docSeen EXCEPT ![w] = docSeen[w]]
        /\ turns' = [turns EXCEPT ![w] = turns[w]]
    BY <1>1, <1>8, Here DEF CountEmission
  <2>2. /\ t \in Remainder /\ l \in Received /\ OwedReflect(t, l)
        /\ QueueReflects(remainder[w], known[w]) => QueueReflects(t, l)
        /\ SameSeen(known[w], l) /\ SameTurns(known[w], l)
    BY <1>1, Here, QueueCount
  <2>3. ops' \in 0..MaxOps /\ compacted' \in BOOLEAN /\ compacted' = compacted
    BY <1>8, Operation DEF CountEmission
  <2> HIDE DEF t, l
  <2> QED BY <1>1, <2>1, <2>2, <2>3, Here, Untouched, OnePeer
<1>9. ASSUME NEW p \in Peer, NEW q \in Peer, MergeDocSeen(p, q) PROVE IInv'
  <2> DEFINE t == mergeDocSeen(docSeen[p], docSeen[q])
             l == ReceiveSeen(known[p], known[q])
  <2>1. /\ docSeen' = [docSeen EXCEPT ![p] = t] /\ known' = [known EXCEPT ![p] = l]
        /\ turns' = [turns EXCEPT ![p] = turns[p]]
        /\ remainder' = [remainder EXCEPT ![p] = remainder[p]]
    <3>1. docSeen' = [docSeen EXCEPT ![p] = t] /\ UNCHANGED <<turns, remainder>>
      BY <1>9 DEF MergeDocSeen
    <3>2. known' = [known EXCEPT ![p] = l]
      BY <1>9 DEF MergeDocSeen, ReceiveSeen
    <3>3. /\ turns = [turns EXCEPT ![p] = turns[p]]
          /\ remainder = [remainder EXCEPT ![p] = remainder[p]]
      BY Here
    <3> HIDE DEF t, l
    <3> QED BY <3>1, <3>2, <3>3
  <2>2. /\ t \in DocSeen /\ l \in Received /\ SeenReflects(t, l)
        /\ SameTurns(known[p], l) /\ SameQueue(known[p], l)
    <3>1. /\ docSeen[p] \in DocSeen /\ known[p] \in Received /\ SeenReflects(docSeen[p], known[p])
          /\ docSeen[q] \in DocSeen /\ known[q] \in Received /\ SeenReflects(docSeen[q], known[q])
      BY Here
    <3> QED BY <3>1, SeenMerge
  <2>3. ops' \in 0..MaxOps /\ compacted' \in BOOLEAN /\ compacted' = compacted
    BY <1>9 DEF MergeDocSeen, IInv, TypeOK
  <2> HIDE DEF t, l
  <2> QED BY <2>1, <2>2, <2>3, Here, Untouched, OnePeer
<1>10. ASSUME NEW p \in Peer, NEW q \in Peer, MergeTurns(p, q) PROVE IInv'
  <2> DEFINE t == mergeTurns(turns[p], turns[q])
             l == ReceiveTurns(known[p], known[q])
  <2>1. /\ turns' = [turns EXCEPT ![p] = t] /\ known' = [known EXCEPT ![p] = l]
        /\ docSeen' = [docSeen EXCEPT ![p] = docSeen[p]]
        /\ remainder' = [remainder EXCEPT ![p] = remainder[p]]
    BY <1>10, Here DEF MergeTurns, ReceiveTurns
  <2>2. /\ t \in Turns /\ l \in Received /\ TurnsReflect(t, l)
        /\ SameSeen(known[p], l) /\ SameQueue(known[p], l)
    <3>1. /\ turns[p] \in Turns /\ known[p] \in Received /\ TurnsReflect(turns[p], known[p])
          /\ turns[q] \in Turns /\ known[q] \in Received /\ TurnsReflect(turns[q], known[q])
      BY Here
    <3> QED BY <3>1, TurnsMerge
  <2>3. ops' \in 0..MaxOps /\ compacted' \in BOOLEAN /\ compacted' = compacted
    BY <1>10 DEF MergeTurns, IInv, TypeOK
  <2> HIDE DEF t, l
  <2> QED BY <2>1, <2>2, <2>3, Here, Untouched, OnePeer
<1>11. ASSUME NEW p \in Peer, NEW q \in Peer, MergeRemainder(p, q) PROVE IInv'
  <2> DEFINE t == mergeRemainder(remainder[p], remainder[q])
             l == ReceiveQueue(known[p], known[q])
  <2>1. /\ remainder' = [remainder EXCEPT ![p] = t] /\ known' = [known EXCEPT ![p] = l]
        /\ docSeen' = [docSeen EXCEPT ![p] = docSeen[p]]
        /\ turns' = [turns EXCEPT ![p] = turns[p]]
    BY <1>11, Here DEF MergeRemainder, ReceiveQueue
  <2>2. /\ t \in Remainder /\ l \in Received /\ OwedReflect(t, l)
        /\ QueueReflects(remainder[p], known[p]) /\ QueueReflects(remainder[q], known[q])
             => QueueReflects(t, l)
        /\ SameSeen(known[p], l) /\ SameTurns(known[p], l)
    <3>1. /\ remainder[p] \in Remainder /\ known[p] \in Received /\ OwedReflect(remainder[p], known[p])
          /\ remainder[q] \in Remainder /\ known[q] \in Received /\ OwedReflect(remainder[q], known[q])
      BY Here
    <3> QED BY <3>1, QueueMerge
  <2>3. ops' \in 0..MaxOps /\ compacted' \in BOOLEAN /\ compacted' = compacted
    BY <1>11 DEF MergeRemainder, IInv, TypeOK
  <2> HIDE DEF t, l
  <2> QED BY <2>1, <2>2, <2>3, Here, Untouched, OnePeer
<1>12. ASSUME NEW p \in Peer, CompactRemainder(p) PROVE IInv'
  <2> DEFINE t == compactRemainder(remainder[p])
  <2>1. /\ remainder' = [remainder EXCEPT ![p] = t]
        /\ known' = [known EXCEPT ![p] = known[p]]
        /\ docSeen' = [docSeen EXCEPT ![p] = docSeen[p]]
        /\ turns' = [turns EXCEPT ![p] = turns[p]]
    BY <1>12, Here DEF CompactRemainder
  <2>2. t \in Remainder /\ OwedReflect(t, known[p])
    BY Here, QueueCompact
  <2>3. ops' \in 0..MaxOps /\ compacted' \in BOOLEAN
    BY <1>12 DEF CompactRemainder, IInv, TypeOK
  <2>4. ~compacted' => ~compacted /\ QueueReflects(t, known[p])
    <3>1. SUFFICES ASSUME ~compacted' PROVE ~compacted /\ QueueReflects(t, known[p])
      OBVIOUS
    <3>2. ~compacted /\ remainder' = remainder
      BY <1>12, <3>1 DEF CompactRemainder
    <3>3. t = remainder[p]
      BY <2>1, <3>2 DEF IInv, TypeOK
    <3> QED BY <3>2, <3>3, Here
  <2> HIDE DEF t
  <2> QED BY <2>1, <2>2, <2>3, <2>4, Here, OnePeer
<1>13. CASE UNCHANGED vars
  BY <1>13 DEF vars, IInv, TypeOK
<1> QED BY <1>2, <1>3, <1>4, <1>5, <1>6, <1>7, <1>8, <1>9, <1>10, <1>11, <1>12, <1>13 DEF Next

LEMMA CrdtInvariant == Spec => []IInv
BY InitIInv, Steps, PTL DEF Spec

---------------------------------------------------------------------------
(* The properties.                                                         *)

\* Every replica stays a value of its class (TypeOK).
THEOREM CrdtTyping == Spec => []TypeOK
<1>1. IInv => TypeOK
  BY DEF IInv
<1> QED BY <1>1, CrdtInvariant, PTL

\* Replicas that received the same operations are equal (Convergence), whatever the
\* operations, the peers and the order of the merges of state-crdt-pure.js.
THEOREM CrdtConverges == Spec => []Convergence
<1>1. ASSUME IInv PROVE Convergence
  <2> SUFFICES ASSUME NEW p \in Peer, NEW q \in Peer
               PROVE  /\ SeenOps(p) = SeenOps(q) => docSeen[p] = docSeen[q]
                      /\ TurnOps(p) = TurnOps(q) => turns[p] = turns[q]
                      /\ QueueOps(p) = QueueOps(q) /\ ~compacted => remainder[p] = remainder[q]
    BY DEF Convergence
  <2>1. ASSUME SeenOps(p) = SeenOps(q) PROVE docSeen[p] = docSeen[q]
    <3>1. SameSeen(known[p], known[q])
      BY <2>1 DEF SeenOps, SameSeen
    <3> DEFINE s == docSeen[p]  r == docSeen[q]
    <3>2. /\ s.actions \in Counter /\ r.actions \in Counter
          /\ s.recalled \in MaxReg /\ r.recalled \in MaxReg
          /\ s.recalledTurn \in MaxReg /\ r.recalledTurn \in MaxReg
          /\ s.denied \in MaxReg /\ r.denied \in MaxReg
      BY <1>1, Here DEF DocSeen
    <3>3. SeenReflects(s, known[p]) /\ SeenReflects(r, known[p])
      BY <1>1, <3>1, Here DEF SameSeen, SeenReflects
    <3>4. s.actions = r.actions
      BY <3>2, <3>3, CountsFunction DEF SeenReflects
    <3>5. s.recalled = r.recalled
      BY <3>2, <3>3, MarksFunction DEF SeenReflects
    <3>6. s.recalledTurn = r.recalledTurn
      BY <3>2, <3>3, MarksFunction DEF SeenReflects
    <3>7. s.denied = r.denied
      BY <3>2, <3>3, MarksFunction DEF SeenReflects
    <3>8. s.seen = r.seen
      BY <3>3, <3>5 DEF SeenReflects
    <3>9. s \in DocSeen /\ r \in DocSeen
      BY <1>1, Here
    <3> QED BY <3>4, <3>5, <3>6, <3>7, <3>8, <3>9 DEF DocSeen
  <2>2. ASSUME TurnOps(p) = TurnOps(q) PROVE turns[p] = turns[q]
    <3>1. SameTurns(known[p], known[q])
      BY <2>2 DEF TurnOps, SameTurns
    <3>2. /\ turns[p] \in Turns /\ turns[q] \in Turns
          /\ TurnsReflect(turns[p], known[p]) /\ TurnsReflect(turns[q], known[q])
      BY <1>1, Here
    <3>3. turns[p].turns = turns[q].turns
      <4>1. turns[p].turns \in Counter /\ turns[q].turns \in Counter
        BY <3>2 DEF Turns
      <4>2. Counts(turns[p].turns, known[p].turns) /\ Counts(turns[q].turns, known[p].turns)
        BY <3>1, <3>2 DEF TurnsReflect, SameTurns
      <4> QED BY <4>1, <4>2, CountsFunction
    <3>4. turns[p].refused = turns[q].refused
      BY <3>1, <3>2 DEF TurnsReflect, SameTurns, Turns
    <3> QED BY <3>2, <3>3, <3>4 DEF Turns
  <2>3. ASSUME QueueOps(p) = QueueOps(q), ~compacted PROVE remainder[p] = remainder[q]
    <3>1. SameQueue(known[p], known[q])
      BY <2>3 DEF QueueOps, SameQueue
    <3>2. /\ remainder[p] \in Remainder /\ remainder[q] \in Remainder
          /\ QueueReflects(remainder[p], known[p]) /\ QueueReflects(remainder[q], known[q])
          /\ OwedReflect(remainder[p], known[p]) /\ OwedReflect(remainder[q], known[q])
      BY <1>1, <2>3, Here
    <3>3. remainder[p].decided = remainder[q].decided
      <4>1. remainder[p].decided \in Decisions /\ remainder[q].decided \in Decisions
        BY <3>2 DEF Remainder
      <4>2. /\ Prefers(remainder[p].decided, known[p].decides)
            /\ Prefers(remainder[q].decided, known[p].decides)
        BY <3>1, <3>2 DEF QueueReflects, SameQueue
      <4> QED BY <4>1, <4>2, PrefersFunction
    <3>4. remainder[p].emitted = remainder[q].emitted
      BY <3>1, <3>2 DEF QueueReflects, SameQueue
    <3>5. remainder[p].emissions = remainder[q].emissions
      <4>1. remainder[p].emissions \in Counter /\ remainder[q].emissions \in Counter
        BY <3>2 DEF Remainder
      <4>2. /\ Counts(remainder[p].emissions, known[p].emissions)
            /\ Counts(remainder[q].emissions, known[p].emissions)
        BY <3>1, <3>2 DEF OwedReflect, SameQueue
      <4> QED BY <4>1, <4>2, CountsFunction
    <3> QED BY <3>2, <3>3, <3>4, <3>5 DEF Remainder
  <2> QED BY <2>1, <2>2, <2>3
<1> QED BY <1>1, CrdtInvariant, PTL

\* No increment is lost (NoLostBump): the counters of state-crdt-pure.js are worth the
\* number of increments received, however many peers merge however often.
THEOREM CrdtCounts == Spec => []NoLostBump
<1>1. ASSUME IInv PROVE NoLostBump
  <2> SUFFICES ASSUME NEW p \in Peer
               PROVE  /\ counterValue(docSeen[p].actions) = Cardinality(known[p].actions)
                      /\ counterValue(turns[p].turns) = Cardinality(known[p].turns)
                      /\ counterValue(remainder[p].emissions) = Cardinality(known[p].emissions)
    BY DEF NoLostBump
  <2>1. /\ docSeen[p].actions \in Counter /\ turns[p].turns \in Counter
        /\ remainder[p].emissions \in Counter
    BY <1>1, Here DEF DocSeen, Turns, Remainder
  <2>2. /\ Counts(docSeen[p].actions, known[p].actions)
        /\ Counts(turns[p].turns, known[p].turns)
        /\ Counts(remainder[p].emissions, known[p].emissions)
    BY <1>1, Here DEF SeenReflects, TurnsReflect, OwedReflect
  <2> QED BY <2>1, <2>2, CountsCardinality
<1> QED BY <1>1, CrdtInvariant, PTL

\* No turn watermark is ahead of the turns the two writers have counted.
TurnMarks == \A p \in Peer : NotAhead(docSeen[p].recalledTurn, bothTurns)

LEMMA InitTurnMarks == Init => TurnMarks
  BY CrdtAssumption
     DEF Init, TurnMarks, NotAhead, bothTurns, mergeCounter, Larger, counterValue, emptyDocSeen,
         emptyTurns, unmarked, zeroes, NoMark, WRITERS

\* The steps that change a turn-count- replica, and those that change a doc-seen- one.
TurnsMove ==
  \/ \E w \in WRITERS : BumpTurn(w) \/ NoteRefusal(w)
  \/ \E p, q \in Peer : MergeTurns(p, q)

SeenMove ==
  \/ \E w \in WRITERS :
       BumpAction(w) \/ \E d \in Doc, denied, timed \in BOOLEAN : Recall(w, d, denied, timed)
  \/ \E p, q \in Peer : MergeDocSeen(p, q)

LEMMA StepsOnTurns ==
  ASSUME [Next]_vars
  PROVE  /\ TurnsMove \/ turns' = turns
         /\ SeenMove \/ docSeen' = docSeen
<1>1. ASSUME NEW w \in WRITERS, NEW d \in Doc, NEW denied \in BOOLEAN, NEW timed \in BOOLEAN,
             Recall(w, d, denied, timed)
      PROVE  turns' = turns
  BY <1>1 DEF Recall
<1>2. ASSUME NEW w \in WRITERS, BumpAction(w) \/ CountEmission(w) PROVE turns' = turns
  BY <1>2 DEF BumpAction, CountEmission
<1>3. ASSUME NEW w \in WRITERS, BumpTurn(w) \/ NoteRefusal(w) \/ CountEmission(w)
      PROVE  docSeen' = docSeen
  BY <1>3 DEF BumpTurn, NoteRefusal, CountEmission
<1>4. ASSUME NEW w \in WRITERS, NEW x \in Seg,
             EmitSegments(w, x) \/ \E rank \in 1..MaxRank : DecideSegments(w, x, rank)
      PROVE  turns' = turns /\ docSeen' = docSeen
  BY <1>4 DEF EmitSegments, DecideSegments
<1>5. ASSUME NEW p \in Peer, NEW q \in Peer
      PROVE  /\ MergeDocSeen(p, q) => turns' = turns
             /\ MergeTurns(p, q) => docSeen' = docSeen
             /\ MergeRemainder(p, q) => turns' = turns /\ docSeen' = docSeen
  BY DEF MergeDocSeen, MergeTurns, MergeRemainder
<1>6. ASSUME NEW p \in Peer, CompactRemainder(p) PROVE turns' = turns /\ docSeen' = docSeen
  BY <1>6 DEF CompactRemainder
<1>7. CASE UNCHANGED vars
  BY <1>7 DEF vars
<1>8. CASE \E w \in WRITERS :
             \/ BumpAction(w) \/ BumpTurn(w) \/ NoteRefusal(w) \/ CountEmission(w)
             \/ \E d \in Doc, denied, timed \in BOOLEAN : Recall(w, d, denied, timed)
             \/ \E x \in Seg : EmitSegments(w, x) \/ \E rank \in 1..MaxRank : DecideSegments(w, x, rank)
  BY <1>1, <1>2, <1>3, <1>4, <1>8 DEF TurnsMove, SeenMove
<1>9. CASE \E p, q \in Peer : MergeDocSeen(p, q) \/ MergeTurns(p, q) \/ MergeRemainder(p, q)
  BY <1>5, <1>9 DEF TurnsMove, SeenMove
<1>10. CASE \E p \in Peer : CompactRemainder(p)
  BY <1>6, <1>10
<1> QED BY <1>7, <1>8, <1>9, <1>10 DEF Next

LEMMA TurnMarksStep ==
  ASSUME IInv, IInv', TurnMarks, [Next]_vars
  PROVE  TurnMarks'
<1> DEFINE now == counterValue(bothTurns)
           then == counterValue(bothTurns')
<1>1. /\ "daemon" \in Peer /\ "spawn" \in Peer
      /\ \A p \in Peer : turns[p].turns \in Counter /\ turns'[p].turns \in Counter
  BY CrdtAssumption DEF IInv, TypeOK, Turns, WRITERS
<1>2. ASSUME NEW p \in Peer, NEW w \in WRITERS PROVE turns[p].turns[w] <= turns'[p].turns[w]
  <2>1. turns[p].turns[w] \in Nat
    BY <1>1 DEF Counter
  <2>2. CASE turns' = turns
    BY <2>1, <2>2
  <2>3. ASSUME NEW v \in WRITERS, BumpTurn(v) PROVE turns[p].turns[w] <= turns'[p].turns[w]
    BY <1>1, <2>1, <2>3 DEF BumpTurn, bumpCounter, IInv, TypeOK, Turns, Counter
  <2>4. ASSUME NEW o \in Peer, NEW q \in Peer, MergeTurns(o, q)
        PROVE  turns[p].turns[w] <= turns'[p].turns[w]
    BY <1>1, <2>1, <2>4 DEF MergeTurns, mergeTurns, mergeCounter, Larger, IInv, TypeOK, Turns, Counter
  <2>5. ASSUME NEW v \in WRITERS, NoteRefusal(v) PROVE turns[p].turns[w] <= turns'[p].turns[w]
    <3>1. turns' = [turns EXCEPT ![v].refused = TRUE] /\ turns \in [Peer -> Turns]
      BY <2>5 DEF NoteRefusal, IInv, TypeOK
    <3>2. turns'[p].turns = turns[p].turns
      BY <3>1 DEF Turns
    <3> QED BY <2>1, <3>2
  <2>6. TurnsMove \/ turns' = turns
    BY StepsOnTurns
  <2> QED BY <2>2, <2>3, <2>4, <2>5, <2>6 DEF TurnsMove
<1>3. now \in Nat /\ then \in Nat /\ now <= then
  BY <1>1, <1>2 DEF bothTurns, mergeCounter, Larger, counterValue, Counter, WRITERS
<1>4. ASSUME NEW p \in Peer, NEW d \in Doc PROVE docSeen'[p].recalledTurn[d] <= then
  <2>1. /\ \A q \in Peer : docSeen[q] \in DocSeen /\ docSeen[q].recalledTurn[d] <= now
        /\ \A q \in Peer : docSeen[q].recalledTurn \in MaxReg
    BY DEF IInv, TypeOK, TurnMarks, NotAhead, DocSeen
  <2>2. CASE docSeen'[p].recalledTurn = docSeen[p].recalledTurn
    BY <1>3, <2>1, <2>2 DEF MaxReg, NoMark
  <2>3. ASSUME NEW w \in WRITERS, BumpAction(w)
        PROVE  docSeen'[p].recalledTurn = docSeen[p].recalledTurn
    BY <2>1, <2>3, <1>1 DEF BumpAction, IInv, TypeOK, DocSeen
  <2>4. ASSUME NEW w \in WRITERS, NEW e \in Doc, NEW denied \in BOOLEAN, NEW timed \in BOOLEAN,
               Recall(w, e, denied, timed)
        PROVE  docSeen'[p].recalledTurn[d] <= then
    <3> DEFINE clock == counterValue(turns[w].turns)
               turn == IF timed THEN clock ELSE NoMark
    <3>1. clock \in Nat /\ clock <= now
      BY <1>1 DEF bothTurns, mergeCounter, Larger, counterValue, Counter, WRITERS
    <3>2. docSeen' = [docSeen EXCEPT ![w] = recall(@, e, denied, turn)]
      BY <2>4 DEF Recall
    <3>3. CASE p # w
      BY <2>2, <3>2, <3>3 DEF IInv, TypeOK
    <3>4. CASE p = w
      <4>1. docSeen'[p].recalledTurn = mark(docSeen[p].recalledTurn, e, turn)
        <5> HIDE DEF turn
        <5> QED BY <2>1, <3>2, <3>4 DEF recall, DocSeen, IInv, TypeOK
      <4>2. docSeen'[p].recalledTurn[d]
              \in {docSeen[p].recalledTurn[d], turn, NoMark}
        <5> HIDE DEF turn
        <5> QED BY <4>1 DEF mark, mergeMaxReg, Larger, unmarked
      <4>3. turn \in {clock, NoMark}
        OBVIOUS
      <4> HIDE DEF turn, clock, now, then
      <4> QED BY <1>3, <2>1, <3>1, <4>2, <4>3 DEF MaxReg, NoMark
    <3> QED BY <3>3, <3>4
  <2>5. ASSUME NEW o \in Peer, NEW q \in Peer, MergeDocSeen(o, q)
        PROVE  docSeen'[p].recalledTurn[d] <= then
    <3>1. CASE p # o
      BY <2>2, <2>5, <3>1 DEF MergeDocSeen, IInv, TypeOK
    <3>2. CASE p = o
      <4>1. docSeen'[p].recalledTurn[d]
              \in {docSeen[o].recalledTurn[d], docSeen[q].recalledTurn[d]}
        BY <2>5, <3>2 DEF MergeDocSeen, mergeDocSeen, mergeMaxReg, Larger, IInv, TypeOK
      <4> HIDE DEF now, then
      <4> QED BY <1>3, <2>1, <4>1 DEF MaxReg, NoMark
    <3> QED BY <3>1, <3>2
  <2>6. SeenMove \/ docSeen' = docSeen
    BY StepsOnTurns
  <2> QED BY <2>2, <2>3, <2>4, <2>5, <2>6 DEF SeenMove
<1> QED BY <1>4 DEF TurnMarks, NotAhead

\* A merge never makes a document look recalled in the future (DriftNeverNegative): neither
\* in actions, on the replica itself, nor in turns, to a reader with both writers' turns.
THEOREM CrdtDrift == Spec => []DriftNeverNegative
<1>1. ASSUME IInv, TurnMarks PROVE DriftNeverNegative
  <2> SUFFICES ASSUME NEW p \in Peer, NEW d \in Doc
               PROVE  /\ drift(docSeen[p], d) >= 0
                      /\ driftTurns(docSeen[p], d, counterValue(bothTurns)) >= 0
    BY DEF DriftNeverNegative
  <2>1. /\ docSeen[p].recalled[d] <= counterValue(docSeen[p].actions)
        /\ docSeen[p].recalled[d] \in Nat \cup {NoMark}
        /\ counterValue(docSeen[p].actions) \in Nat
    BY <1>1, Here DEF SeenReflects, NotAhead, DocSeen, MaxReg, Counter, counterValue, WRITERS
  <2>2. /\ docSeen[p].recalledTurn[d] <= counterValue(bothTurns)
        /\ docSeen[p].recalledTurn[d] \in Nat \cup {NoMark}
        /\ counterValue(bothTurns) \in Nat
    <3>1. /\ docSeen[p].recalledTurn[d] <= counterValue(bothTurns)
          /\ docSeen[p].recalledTurn[d] \in Nat \cup {NoMark}
      BY <1>1, Here DEF TurnMarks, NotAhead, DocSeen, MaxReg
    <3>2. turns["daemon"].turns \in Counter /\ turns["spawn"].turns \in Counter
      BY <1>1, CrdtAssumption DEF IInv, TypeOK, Turns, WRITERS
    <3> QED BY <3>1, <3>2 DEF bothTurns, mergeCounter, Larger, counterValue, Counter, WRITERS
  <2>3. drift(docSeen[p], d) >= 0
    BY <2>1 DEF drift, NoMark
  <2>4. driftTurns(docSeen[p], d, counterValue(bothTurns)) >= 0
    BY <2>2 DEF driftTurns, NoMark
  <2> QED BY <2>3, <2>4
<1>2. Init => IInv /\ TurnMarks
  BY InitIInv, InitTurnMarks
<1>3. IInv /\ TurnMarks /\ [Next]_vars => (IInv /\ TurnMarks)'
  BY Steps, TurnMarksStep
<1> QED BY <1>1, <1>2, <1>3, PTL DEF Spec

\* A document reads as refused exactly when no recall is later than a refusal
\* (DenialIsLastRecall), after any merges.
THEOREM CrdtDenial == Spec => []DenialIsLastRecall
<1>1. ASSUME IInv PROVE DenialIsLastRecall
  <2> SUFFICES ASSUME NEW p \in Peer, NEW d \in Doc
               PROVE  isDenied(docSeen[p], d)
                        <=> \E n \in known[p].denials :
                              n[1] = d /\ \A r \in known[p].recalls : r[1] = d => r[2] <= n[2]
    BY DEF DenialIsLastRecall
  <2> DEFINE s == docSeen[p]  k == known[p]
  <2>1. /\ s.recalled[d] \in Nat \cup {NoMark} /\ s.denied[d] \in Nat \cup {NoMark}
        /\ k.denials \subseteq k.recalls /\ k.recalls \subseteq Doc \X Nat
    BY <1>1, Here DEF SeenReflects, DocSeen, MaxReg, Received
  <2>2. /\ s.recalled[d] = NoMark => \A n \in Nat : <<d, n>> \notin k.recalls
        /\ s.recalled[d] # NoMark =>
             <<d, s.recalled[d]>> \in k.recalls
             /\ \A n \in Nat : <<d, n>> \in k.recalls => n <= s.recalled[d]
    BY <1>1, Here DEF SeenReflects, Marks
  <2>3. /\ s.denied[d] = NoMark => \A n \in Nat : <<d, n>> \notin k.denials
        /\ s.denied[d] # NoMark =>
             <<d, s.denied[d]>> \in k.denials
             /\ \A n \in Nat : <<d, n>> \in k.denials => n <= s.denied[d]
    BY <1>1, Here DEF SeenReflects, Marks
  <2>4. ASSUME isDenied(s, d)
        PROVE  \E n \in k.denials : n[1] = d /\ \A r \in k.recalls : r[1] = d => r[2] <= n[2]
    <3>1. /\ s.denied[d] # NoMark /\ s.denied[d] = s.recalled[d]
          /\ <<d, s.denied[d]>> \in k.denials
      BY <2>3, <2>4 DEF isDenied
    <3>2. ASSUME NEW r \in k.recalls, r[1] = d PROVE r[2] <= s.denied[d]
      <4>1. r = <<d, r[2]>> /\ r[2] \in Nat
        BY <2>1, <3>2
      <4> QED BY <2>2, <3>1, <4>1
    <3>3. <<d, s.denied[d]>>[1] = d /\ <<d, s.denied[d]>>[2] = s.denied[d]
      OBVIOUS
    <3> QED BY <3>1, <3>2, <3>3
  <2>5. ASSUME NEW n \in k.denials, n[1] = d, \A r \in k.recalls : r[1] = d => r[2] <= n[2]
        PROVE  isDenied(s, d)
    <3>1. n = <<d, n[2]>> /\ n[2] \in Nat
      BY <2>1, <2>5
    <3>2. <<d, n[2]>> \in k.denials /\ <<d, n[2]>> \in k.recalls
      BY <2>1, <3>1
    <3>3. s.denied[d] # NoMark /\ s.recalled[d] # NoMark
      BY <2>2, <2>3, <3>1, <3>2
    <3>4. n[2] <= s.denied[d] /\ <<d, s.denied[d]>> \in k.recalls
      BY <2>1, <2>3, <3>1, <3>2, <3>3
    <3>5. s.denied[d] <= s.recalled[d]
      BY <2>1, <2>2, <3>3, <3>4
    <3>6. s.recalled[d] <= n[2]
      <4>1. <<d, s.recalled[d]>> \in k.recalls
        BY <2>2, <3>3
      <4> QED BY <2>5, <4>1
    <3> QED BY <2>1, <3>1, <3>3, <3>4, <3>5, <3>6 DEF isDenied
  <2> QED BY <2>4, <2>5
<1> QED BY <1>1, CrdtInvariant, PTL

\* A segment that was decided and has not left stays owed by every replica that knows
\* of it (OwedIsKept), through merges and compactions.
THEOREM CrdtOwed == Spec => []OwedIsKept
<1>1. ASSUME IInv PROVE OwedIsKept
  <2> SUFFICES ASSUME NEW p \in Peer, NEW o \in known[p].decides, o[1] \notin known[p].emits
               PROVE  o[1] \in remaining(remainder[p])
    BY DEF OwedIsKept
  <2>1. OwedReflect(remainder[p], known[p])
    BY <1>1, Here
  <2>2. o = <<o[1], o[2]>> /\ o[1] \in Seg /\ o[2] \in 1..MaxRank
    BY <2>1 DEF OwedReflect
  <2>3. remainder[p].decided[o[1]] # Undecided /\ o[1] \notin remainder[p].emitted
    BY <2>1, <2>2 DEF OwedReflect
  <2> QED BY <2>2, <2>3 DEF remaining
<1> QED BY <1>1, CrdtInvariant, PTL

=============================================================================
