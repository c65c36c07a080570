--------------------------- MODULE DeliveryProofs ---------------------------
(***************************************************************************)
(* Proofs about Delivery.tla, for any corpus, any number of invocations    *)
(* and frames, any cut and any order of the frames.                        *)
(*                                                                         *)
(* The inductive invariant gives each chunk one place.  The queue and the  *)
(* plan that still owes frames share no chunk; a once chunk that was       *)
(* delivered is in neither; a once chunk of an unconsumed document is      *)
(* nowhere (OnePlace).  The counters say which frames a plan still owes    *)
(* (Counting), and FirstDecides says that, undisturbed, the first frame    *)
(* of an invocation decides, so that no earlier frame goes by unserved.    *)
(* Every decision takes over all that is held (Inherited), so at most one  *)
(* invocation owes content and the lists it builds repeat no chunk.        *)
(*                                                                         *)
(* The second part is about Pool.tla, for any number of threads.  While    *)
(* nothing timed out and no harvest crossed a thread, a chunk has again    *)
(* one place: delivered, still (queued or taken over), or moving with the  *)
(* frames an invocation still answers, in service or to come (Left).       *)
(*                                                                         *)
(* The third part discharges the assumption on the cut: the greedy cut of  *)
(* Budget.tla satisfies it for every list, by an induction over the frames *)
(* drawn from the well-founded order of the naturals.                      *)
(***************************************************************************)
EXTENDS Pool, Budget, FiniteSetTheorems, SequenceTheorems, WellFoundedInduction, TLAPS

---------------------------------------------------------------------------
(* Segment lists.                                                          *)

\* A segment list is a sequence of chunks without repetition.
LEMMA SegSeqSeq ==
  ASSUME NEW s \in SegSeq
  PROVE  /\ s \in Seq(Chunk)
         /\ Len(s) \in Nat /\ DOMAIN s = 1..Len(s)
         /\ \A a \in 1..Len(s) : s[a] \in Chunk
         /\ \A a, b \in 1..Len(s) : s[a] = s[b] => a = b
<1>1. PICK n \in 0..Cardinality(Chunk) : s \in [1..n -> Chunk]
  BY DEF SegSeq
<1>2. Cardinality(Chunk) \in Nat
  BY FS_CardinalityType, DeliveryAssumption
<1>3. n \in Nat
  BY <1>1, <1>2
<1>4. s \in Seq(Chunk) /\ Len(s) = n
  BY <1>1, <1>3
<1> QED
  BY <1>1, <1>3, <1>4 DEF SegSeq

\* Conversely: a repetition-free sequence is never longer than the set of chunks.
LEMMA SeqSegSeq ==
  ASSUME NEW s \in Seq(Chunk), \A a, b \in 1..Len(s) : s[a] = s[b] => a = b
  PROVE  s \in SegSeq
<1>1. Len(s) \in Nat /\ s \in [1..Len(s) -> Chunk] /\ DOMAIN s = 1..Len(s)
  OBVIOUS
<1>2. s \in Injection(1..Len(s), Chunk)
  BY <1>1 DEF Injection, IsInjective
<1>3. Cardinality(1..Len(s)) <= Cardinality(Chunk)
  BY <1>2, FS_Injection, DeliveryAssumption
<1>4. Cardinality(1..Len(s)) = Len(s)
  <2>1. Cardinality(1..Len(s)) = IF 1 > Len(s) THEN 0 ELSE Len(s) - 1 + 1
    BY <1>1, FS_Interval
  <2> QED BY <2>1, <1>1
<1>5. Cardinality(Chunk) \in Nat
  BY FS_CardinalityType, DeliveryAssumption
<1>6. Len(s) \in 0..Cardinality(Chunk)
  BY <1>1, <1>3, <1>4, <1>5
<1> QED
  BY <1>1, <1>6 DEF SegSeq

LEMMA EmptySegSeq == <<>> \in SegSeq /\ Chunks(<<>>) = {}
<1>1. <<>> \in Seq(Chunk) /\ Len(<<>>) = 0 /\ DOMAIN <<>> = {}
  OBVIOUS
<1>2. <<>> \in SegSeq
  BY <1>1, SeqSegSeq, \A a \in 1..0 : FALSE
<1> QED
  BY <1>1, <1>2 DEF Chunks

\* Two lists without a common chunk concatenate into a list.
LEMMA ConcatSegSeq ==
  ASSUME NEW s \in SegSeq, NEW t \in SegSeq, Chunks(s) \cap Chunks(t) = {}
  PROVE  s \o t \in SegSeq /\ Chunks(s \o t) = Chunks(s) \cup Chunks(t)
<1>1. /\ s \in Seq(Chunk) /\ Len(s) \in Nat /\ DOMAIN s = 1..Len(s)
      /\ \A a, b \in 1..Len(s) : s[a] = s[b] => a = b
  BY SegSeqSeq
<1>2. /\ t \in Seq(Chunk) /\ Len(t) \in Nat /\ DOMAIN t = 1..Len(t)
      /\ \A a, b \in 1..Len(t) : t[a] = t[b] => a = b
  BY SegSeqSeq
<1> DEFINE u == s \o t
<1>3. /\ u \in Seq(Chunk) /\ Len(u) = Len(s) + Len(t)
      /\ \A i \in 1..Len(s) + Len(t) : u[i] = IF i <= Len(s) THEN s[i] ELSE t[i - Len(s)]
  BY <1>1, <1>2, ConcatProperties
<1>4. DOMAIN u = 1..Len(s) + Len(t)
  BY <1>3
<1> HIDE DEF u
<1>5. ASSUME NEW a \in 1..Len(s), NEW b \in 1..Len(t) PROVE s[a] # t[b]
  <2>1. s[a] \in Chunks(s) /\ t[b] \in Chunks(t)
    BY <1>1, <1>2 DEF Chunks
  <2> QED BY <2>1
<1>6. ASSUME NEW a \in 1..Len(u), NEW b \in 1..Len(u), u[a] = u[b]
      PROVE  a = b
  <2>1. CASE a <= Len(s) /\ b <= Len(s)
    BY <2>1, <1>1, <1>2, <1>3, <1>6
  <2>2. CASE a > Len(s) /\ b > Len(s)
    <3>1. a - Len(s) \in 1..Len(t) /\ b - Len(s) \in 1..Len(t)
      BY <2>2, <1>1, <1>2, <1>3
    <3>2. t[a - Len(s)] = t[b - Len(s)]
      BY <2>2, <1>1, <1>2, <1>3, <1>6
    <3> QED BY <3>1, <3>2, <1>1, <1>2, <1>3
  <2>3. CASE a <= Len(s) /\ b > Len(s)
    BY <2>3, <1>1, <1>2, <1>3, <1>5, <1>6, SMTT(30)
  <2>4. CASE a > Len(s) /\ b <= Len(s)
    BY <2>4, <1>1, <1>2, <1>3, <1>5, <1>6, SMTT(30)
  <2> QED BY <2>1, <2>2, <2>3, <2>4, <1>1, <1>2, <1>3
<1>7. u \in SegSeq
  BY <1>3, <1>6, SeqSegSeq
<1>8. Chunks(u) \subseteq Chunks(s) \cup Chunks(t)
  <2>1. ASSUME NEW n \in 1..Len(s) + Len(t), n <= Len(s)
        PROVE  n \in DOMAIN s /\ u[n] = s[n]
    BY <2>1, <1>1, <1>2, <1>3
  <2>2. ASSUME NEW n \in 1..Len(s) + Len(t), ~(n <= Len(s))
        PROVE  n - Len(s) \in DOMAIN t /\ u[n] = t[n - Len(s)]
    BY <2>2, <1>1, <1>2, <1>3
  <2> QED BY <2>1, <2>2, <1>4 DEF Chunks
<1>9. Chunks(s) \subseteq Chunks(u)
  <2>1. ASSUME NEW n \in 1..Len(s) PROVE n \in 1..Len(s) + Len(t) /\ u[n] = s[n]
    BY <1>1, <1>2, <1>3
  <2> QED BY <2>1, <1>1, <1>4 DEF Chunks
<1>10. Chunks(t) \subseteq Chunks(u)
  <2>1. ASSUME NEW n \in 1..Len(t)
        PROVE  Len(s) + n \in 1..Len(s) + Len(t) /\ u[Len(s) + n] = t[n]
    BY <1>1, <1>2, <1>3, SMTT(30)
  <2> QED BY <2>1, <1>2, <1>4 DEF Chunks
<1> QED
  BY <1>7, <1>8, <1>9, <1>10 DEF u

\* A slice of a list is a list of the chunks between its bounds.
LEMMA SliceSegSeq ==
  ASSUME NEW s \in SegSeq, NEW n \in 0..Len(s), NEW m \in n..Len(s)
  PROVE  Slice(s, n, m) \in SegSeq /\ Chunks(Slice(s, n, m)) = Between(s, n, m)
<1>1. /\ Len(s) \in Nat /\ \A a \in 1..Len(s) : s[a] \in Chunk
      /\ \A a, b \in 1..Len(s) : s[a] = s[b] => a = b
  BY SegSeqSeq
<1> DEFINE u == Slice(s, n, m)
<1>2. n + 1 \in Int /\ m \in Int /\ \A i \in n + 1 .. m : s[i] \in Chunk
  BY <1>1
<1>3. /\ u \in Seq(Chunk)
      /\ Len(u) = IF n + 1 <= m THEN m - (n + 1) + 1 ELSE 0
      /\ \A i \in 1 .. m - (n + 1) + 1 : u[i] = s[n + 1 + i - 1]
  BY <1>2, SubSeqProperties DEF Slice
<1>4. Len(u) = m - n /\ DOMAIN u = 1..m - n
  BY <1>1, <1>3
<1>5. \A i \in 1..m - n : u[i] = s[n + i] /\ n + i \in 1..Len(s)
  BY <1>1, <1>3
<1> HIDE DEF u
<1>6. u \in SegSeq
  <2>1. ASSUME NEW a \in 1..Len(u), NEW b \in 1..Len(u), u[a] = u[b] PROVE a = b
    <3>1. a \in 1..m - n /\ b \in 1..m - n /\ n \in Nat /\ m \in Nat
      BY <1>1, <1>4
    <3>2. s[n + a] = s[n + b] /\ n + a \in 1..Len(s) /\ n + b \in 1..Len(s)
      BY <3>1, <2>1, <1>5
    <3>3. n + a = n + b
      BY <3>2, <1>1, Zenon
    <3> QED BY <3>1, <3>3
  <2> QED BY <2>1, <1>3, SeqSegSeq
<1>7. Chunks(u) \subseteq Between(s, n, m)
  <2>1. ASSUME NEW i \in 1..m - n PROVE n + i \in n + 1 .. m
    BY <1>1
  <2> QED BY <2>1, <1>4, <1>5 DEF Chunks, Between
<1>8. Between(s, n, m) \subseteq Chunks(u)
  <2>1. ASSUME NEW k \in n + 1 .. m PROVE k - n \in 1..m - n /\ u[k - n] = s[k]
    BY <1>1, <1>5
  <2> QED BY <2>1, <1>4 DEF Chunks, Between
<1> QED
  BY <1>6, <1>7, <1>8 DEF u

\* Consecutive stretches of a list share no chunk.
LEMMA BetweenDisjoint ==
  ASSUME NEW s \in SegSeq, NEW a \in Nat, NEW b \in Nat, NEW c \in Nat, NEW d \in 0..Len(s),
         b <= c
  PROVE  Between(s, a, b) \cap Between(s, c, d) = {}
<1>1. Len(s) \in Nat /\ \A x, y \in 1..Len(s) : s[x] = s[y] => x = y
  BY SegSeqSeq
<1>2. ASSUME NEW x \in a + 1 .. b, NEW y \in c + 1 .. d PROVE s[x] # s[y]
  <2>1. b <= d
    BY <1>1, <1>2
  <2>2. x \in 1..Len(s) /\ y \in 1..Len(s) /\ x # y
    BY <1>1, <1>2, <2>1
  <2> QED BY <1>1, <2>2
<1> QED
  BY <1>2 DEF Between

\* A stretch splits at any point inside it.
LEMMA BetweenSplit ==
  ASSUME NEW s, NEW a \in Nat, NEW b \in Nat, NEW c \in Nat, a <= b, b <= c
  PROVE  Between(s, a, c) = Between(s, a, b) \cup Between(s, b, c)
<1>1. a + 1 .. c = (a + 1 .. b) \cup (b + 1 .. c)
  OBVIOUS
<1> QED
  BY <1>1 DEF Between

LEMMA BetweenAll ==
  ASSUME NEW s \in SegSeq
  PROVE  Between(s, 0, Len(s)) = Chunks(s)
  BY SegSeqSeq DEF Between, Chunks

---------------------------------------------------------------------------
(* The inductive invariant.                                                *)

\* The sequencer counts the arrivals, and so does the carryover table while the
\* invocation still answers.
Counting ==
  \A i \in Inv :
    /\ sequencer[i] = IF arrived[i] < NbFrames THEN arrived[i] ELSE 0
    /\ i \notin harvested => served[i] = arrived[i]
    /\ i \in harvested => arrived[i] > 0
    /\ i \in planned => served[i] > 0

\* Without a lock timeout or a compaction, the first frame of an invocation decides.
FirstDecides == ~Disturbed => \A i \in Inv : arrived[i] > 0 => i \in planned

\* A chunk has one place at most, and none before its document is consumed.
OnePlace ==
  /\ Chunks(queue) \cap OwedChunks = {}
  /\ OnceChunks \cap delivered \cap Held = {}
  /\ \A c \in OnceChunks : DocOf[c] \notin seen => c \notin delivered \cup Held

IInv ==
  /\ TypeOK
  /\ Counting
  /\ OnePending
  /\ FirstDecides
  /\ OnePlace
  /\ NeverTwice
  /\ Accounted
  /\ ForgoneNeedsFault

\* Initially nothing is consumed, and nothing is anywhere.
LEMMA InitIInv == Init => IInv
<1> SUFFICES ASSUME Init PROVE IInv
  OBVIOUS
<1> USE DeliveryAssumption
<1>1. TypeOK
  BY EmptySegSeq DEF Init, TypeOK
<1>2. Owing = {} /\ OwedChunks = {} /\ Held = {}
  BY EmptySegSeq DEF Init, Owing, OwedChunks, Held
<1>3. Counting /\ OnePending /\ FirstDecides
  BY <1>2 DEF Init, Counting, OnePending, FirstDecides
<1>4. OnePlace
  BY <1>2, EmptySegSeq DEF Init, OnePlace
<1>5. NeverTwice /\ Accounted /\ ForgoneNeedsFault
  BY DEF Init, NeverTwice, Accounted, ForgoneNeedsFault, ChunksOf
<1> QED
  BY <1>1, <1>3, <1>4, <1>5 DEF IInv

\* Where a list is cut.
LEMMA Cuts ==
  ASSUME NEW s \in SegSeq, NEW k \in 0..NbFrames
  PROVE  /\ Through(s, k) \in 0..Len(s)
         /\ Through(s, 0) = 0
         /\ k < NbFrames => Through(s, k) <= Through(s, k + 1) /\ Through(s, k + 1) \in 0..Len(s)
         /\ k > 0 => Through(s, k - 1) <= Through(s, k) /\ Through(s, k - 1) \in 0..Len(s)
         /\ Through(s, k) <= Through(s, NbFrames)
         /\ Through(s, NbFrames) \in 0..Len(s)
         /\ Len(s) \in Nat
<1>1. Len(s) \in Nat
  BY SegSeqSeq
<1>2. NbFrames \in Nat /\ NbFrames \in 0..NbFrames /\ 0 \in 0..NbFrames
  BY DeliveryAssumption
<1>3. k < NbFrames => k + 1 \in 0..NbFrames /\ k <= k + 1
  BY <1>2
<1>4. k > 0 => k - 1 \in 0..NbFrames /\ k - 1 <= k
  BY <1>2
<1> QED
  BY <1>1, <1>2, <1>3, <1>4, CutAssumption

\* The frames of a list, the part before and the part after them.
LEMMA Pieces ==
  ASSUME NEW s \in SegSeq, NEW k \in 1..NbFrames
  PROVE  LET rest == Between(s, Through(s, k), Through(s, NbFrames))
             last == Chunks(Deferred(s))
         IN /\ Deferred(s) \in SegSeq
            /\ Unserved(s, k) \in SegSeq
            /\ Chunks(Unserved(s, k)) = rest
            /\ Chunks(s) = Before(s, k) \cup Frame(s, k) \cup rest \cup last
            /\ Frame(s, k) \cap rest = {} /\ Frame(s, k) \cap last = {} /\ rest \cap last = {}
            /\ Between(s, Through(s, k - 1), Through(s, NbFrames)) = Frame(s, k) \cup rest
            /\ Chunks(s) \subseteq Chunk /\ Frame(s, k) \subseteq Chunk
            /\ k = 1 => Before(s, k) = {}
            /\ k = NbFrames => rest = {}
<1> DEFINE a == Through(s, k - 1)
           b == Through(s, k)
           c == Through(s, NbFrames)
           d == Len(s)
<1>0. k \in 0..NbFrames /\ k > 0 /\ NbFrames \in Nat
  BY DeliveryAssumption
<1>1. /\ d \in Nat /\ a \in 0..d /\ b \in a..d /\ c \in b..d
      /\ k = 1 => a = 0
  BY <1>0, Cuts
<1>2. k = NbFrames => b = c
  OBVIOUS
<1> HIDE DEF a, b, c, d
<1>3. Slice(s, c, d) \in SegSeq /\ Chunks(Slice(s, c, d)) = Between(s, c, d)
  BY <1>1, SliceSegSeq DEF d
<1>4. Slice(s, b, c) \in SegSeq /\ Chunks(Slice(s, b, c)) = Between(s, b, c)
  BY <1>1, SliceSegSeq DEF d
<1>5. Between(s, 0, d) = Between(s, 0, a) \cup Between(s, a, b) \cup Between(s, b, c) \cup Between(s, c, d)
  <2>1. Between(s, 0, d) = Between(s, 0, a) \cup Between(s, a, d)
    BY <1>1, BetweenSplit
  <2>2. Between(s, a, d) = Between(s, a, b) \cup Between(s, b, d)
    BY <1>1, BetweenSplit
  <2>3. Between(s, b, d) = Between(s, b, c) \cup Between(s, c, d)
    BY <1>1, BetweenSplit
  <2> QED BY <2>1, <2>2, <2>3
<1>6. Between(s, a, c) = Between(s, a, b) \cup Between(s, b, c)
  BY <1>1, BetweenSplit
<1>7. /\ Between(s, a, b) \cap Between(s, b, c) = {}
      /\ Between(s, a, b) \cap Between(s, c, d) = {}
      /\ Between(s, b, c) \cap Between(s, c, d) = {}
  BY <1>1, BetweenDisjoint DEF d
<1>8. Between(s, 0, d) = Chunks(s)
  BY BetweenAll DEF d
<1>9. (k = 1 => Between(s, 0, a) = {}) /\ (k = NbFrames => Between(s, b, c) = {})
  BY <1>1, <1>2 DEF Between
<1>10. Chunks(s) \subseteq Chunk /\ Between(s, a, b) \subseteq Chunk
  <2>1. Chunks(s) \subseteq Chunk
    BY SegSeqSeq DEF Chunks
  <2> QED BY <2>1, <1>5, <1>8
<1> QED
  BY <1>3, <1>4, <1>5, <1>6, <1>7, <1>8, <1>9, <1>10
     DEF a, b, c, d, Deferred, Unserved, Before, Frame

---------------------------------------------------------------------------
(* The entry of a frame.                                                   *)

\* What a step conserves: nothing consumed is forgotten, nothing delivered is taken
\* back, and nothing forgone comes back.
Conserved ==
  /\ seen \subseteq seen' /\ delivered \subseteq delivered'
  /\ ChunksOf(seen) \cap (delivered' \cup Held') \subseteq delivered \cup Held

LEMMA ArriveFacts ==
  ASSUME IInv, NEW i \in Inv, Arrive(i)
  PROVE  /\ Index(i) = arrived[i] + 1 /\ Index(i) \in 1..NbFrames
         /\ arrived' = [arrived EXCEPT ![i] = Index(i)]
         /\ arrived' \in [Inv -> 0..NbFrames]
         /\ sequencer' \in [Inv -> 0..NbFrames - 1]
         /\ \A j \in Inv : sequencer'[j] = IF arrived'[j] < NbFrames THEN arrived'[j] ELSE 0
<1> USE DeliveryAssumption
<1>1. sequencer[i] = arrived[i] /\ arrived[i] \in 0..NbFrames - 1
  BY DEF IInv, Counting, Arrive, TypeOK
<1>2. Index(i) = arrived[i] + 1
  BY <1>1 DEF Index
<1>3. arrived' = [arrived EXCEPT ![i] = Index(i)]
  BY <1>2 DEF Arrive
<1>4. arrived' \in [Inv -> 0..NbFrames] /\ sequencer' \in [Inv -> 0..NbFrames - 1]
  BY <1>1 DEF Arrive, IInv, TypeOK
<1>5. ASSUME NEW j \in Inv
      PROVE  sequencer'[j] = IF arrived'[j] < NbFrames THEN arrived'[j] ELSE 0
  <2>1. CASE j = i
    BY <2>1, <1>1 DEF Arrive, IInv, TypeOK
  <2>2. CASE j # i
    BY <2>2 DEF Arrive, IInv, TypeOK, Counting
  <2> QED BY <2>1, <2>2
<1> QED
  BY <1>1, <1>2, <1>3, <1>4, <1>5

LEMMA ObserveFacts ==
  ASSUME IInv, NEW i \in Inv, Arrive(i), i \notin harvested, Observe(i)
  PROVE  /\ served' = [served EXCEPT ![i] = Index(i)]
         /\ served' \in [Inv -> 0..NbFrames]
         /\ Index(i) = served[i] + 1
         /\ \A j \in Inv : j \notin harvested => served'[j] = arrived'[j]
         /\ \A j \in Inv : j \in harvested => arrived'[j] > 0
<1> USE DeliveryAssumption
<1>1. Index(i) = arrived[i] + 1 /\ arrived' = [arrived EXCEPT ![i] = Index(i)]
  BY ArriveFacts
<1>2. served[i] = arrived[i] /\ arrived[i] \in 0..NbFrames /\ Index(i) \in 1..NbFrames
  BY ArriveFacts DEF IInv, Counting, TypeOK
<1>3. served' = [served EXCEPT ![i] = Index(i)]
  <2>1. Index(i) > served[i]
    BY <1>1, <1>2
  <2> QED BY <2>1 DEF Observe
<1>4. served' \in [Inv -> 0..NbFrames]
  BY <1>2, <1>3 DEF IInv, TypeOK
<1>5. \A j \in Inv : j \notin harvested => served'[j] = arrived'[j]
  BY <1>1, <1>3 DEF IInv, TypeOK, Counting
<1>6. \A j \in Inv : j \in harvested => arrived'[j] > 0
  BY <1>1, <1>2 DEF IInv, TypeOK, Counting
<1> QED
  BY <1>1, <1>2, <1>3, <1>4, <1>5, <1>6

---------------------------------------------------------------------------
(* Each step preserves the invariant and conserves the content.            *)

\* A late frame of a harvested invocation changes the arrival counters only.
LEMMA FrameOfHarvestedStep ==
  ASSUME IInv, NEW i \in Inv, FrameOfHarvested(i)
  PROVE  IInv' /\ Conserved
<1>1. /\ Arrive(i) /\ i \in harvested
      /\ UNCHANGED <<seen, queue, planned, plan, served, harvested, delivered, repeated,
                     forgone, timeouts, purges>>
  BY DEF FrameOfHarvested, ghosts
<1>2. Owing' = Owing /\ OwedChunks' = OwedChunks /\ Held' = Held
  BY <1>1 DEF Owing, OwedChunks, Owed, Held
<1>3. TypeOK'
  BY <1>1, ArriveFacts DEF IInv, TypeOK
<1>4. Counting'
  <2>1. i \in harvested /\ arrived' = [arrived EXCEPT ![i] = Index(i)] /\ Index(i) > 0
    BY <1>1, ArriveFacts
  <2>2. \A j \in Inv : j # i => arrived'[j] = arrived[j]
    BY <2>1 DEF IInv, TypeOK
  <2>3. arrived'[i] > 0
    BY <2>1 DEF IInv, TypeOK
  <2> QED BY <1>1, <2>2, <2>3, ArriveFacts DEF IInv, Counting
<1>5. FirstDecides'
  <2>1. arrived' = [arrived EXCEPT ![i] = Index(i)] /\ arrived[i] > 0
    BY <1>1, ArriveFacts DEF IInv, Counting
  <2> QED BY <1>1, <2>1 DEF IInv, TypeOK, FirstDecides, Disturbed
<1>6. OnePending' /\ OnePlace' /\ NeverTwice' /\ Accounted' /\ ForgoneNeedsFault'
  BY <1>1, <1>2 DEF IInv, OnePending, OnePlace, NeverTwice, Accounted, ForgoneNeedsFault, Disturbed
<1>7. Conserved
  BY <1>1, <1>2 DEF Conserved
<1> QED
  BY <1>3, <1>4, <1>5, <1>6, <1>7 DEF IInv

\* A replay moves one frame of the plan from owed to delivered.
LEMMA FrameReplayStep ==
  ASSUME IInv, NEW i \in Inv, FrameReplay(i)
  PROVE  IInv' /\ Conserved
<1> DEFINE k == Index(i)
<1>1. /\ Arrive(i) /\ i \notin harvested /\ i \in planned /\ Observe(i)
      /\ delivered' = delivered \cup Frame(plan[i], k)
      /\ repeated' = repeated \cup (Frame(plan[i], k) \cap delivered \cap OnceChunks)
      /\ UNCHANGED <<seen, queue, planned, plan, harvested, forgone, timeouts, purges>>
  BY DEF FrameReplay, Hand
<1>2. /\ k \in 1..NbFrames /\ served' = [served EXCEPT ![i] = k] /\ k = served[i] + 1
      /\ served \in [Inv -> 0..NbFrames] /\ NbFrames \in Nat
      /\ plan[i] \in SegSeq
  BY <1>1, ArriveFacts, ObserveFacts, DeliveryAssumption DEF IInv, TypeOK
<1> HIDE DEF k
<1>3. i \in Owing
  BY <1>1, <1>2 DEF Owing
<1>4. Owing = {i} /\ OwedChunks = Owed(i)
  BY <1>3 DEF IInv, OnePending, OwedChunks
<1>5. Owed(i) = Frame(plan[i], k) \cup Between(plan[i], Through(plan[i], k), Through(plan[i], NbFrames))
  <2>1. served[i] = k - 1
    BY <1>2
  <2> QED BY <2>1, <1>2, Pieces DEF Owed
<1>6. OwedChunks' = Between(plan[i], Through(plan[i], k), Through(plan[i], NbFrames))
  <2>1. CASE k < NbFrames
    <3>1. Owing' = {i}
      BY <2>1, <1>1, <1>2, <1>4 DEF Owing
    <3>2. OwedChunks' = Owed(i)'
      BY <3>1 DEF OwedChunks
    <3> QED BY <3>2, <1>1, <1>2 DEF Owed
  <2>2. CASE k = NbFrames
    <3>1. Owing' = {}
      BY <2>2, <1>1, <1>2, <1>4 DEF Owing
    <3> QED BY <3>1, <2>2, <1>2, Pieces DEF OwedChunks
  <2> QED BY <2>1, <2>2, <1>2
<1>7. /\ OwedChunks = Frame(plan[i], k) \cup OwedChunks'
      /\ Frame(plan[i], k) \cap OwedChunks' = {}
  BY <1>2, <1>4, <1>5, <1>6, Pieces
<1>8. Frame(plan[i], k) \subseteq Chunk
  BY <1>2, Pieces
<1>9. /\ Chunks(queue) \cap OwedChunks = {}
      /\ OnceChunks \cap delivered \cap (Chunks(queue) \cup OwedChunks) = {}
      /\ \A c \in OnceChunks : DocOf[c] \notin seen => c \notin delivered \cup Chunks(queue) \cup OwedChunks
      /\ ChunksOf(seen) \subseteq delivered \cup Chunks(queue) \cup OwedChunks \cup forgone
      /\ repeated = {}
  BY DEF IInv, OnePlace, Held, Accounted, NeverTwice
<1>10. Held' = Chunks(queue) \cup OwedChunks'
  BY <1>1 DEF Held
<1>11. OnePlace' /\ NeverTwice' /\ Accounted' /\ Conserved
  <2>1. Chunks(queue') \cap OwedChunks' = {}
    BY <1>1, <1>7, <1>9
  <2>2. OnceChunks \cap delivered' \cap Held' = {}
    BY <1>1, <1>7, <1>9, <1>10
  <2>3. \A c \in OnceChunks : DocOf[c] \notin seen' => c \notin delivered' \cup Held'
    BY <1>1, <1>7, <1>9, <1>10
  <2>4. repeated' = {}
    BY <1>1, <1>7, <1>9
  <2>5. ChunksOf(seen') \subseteq delivered' \cup Held' \cup forgone'
    BY <1>1, <1>7, <1>9, <1>10
  <2>6. ChunksOf(seen) \cap (delivered' \cup Held') \subseteq delivered \cup Held
    BY <1>1, <1>7, <1>10 DEF Held
  <2> QED BY <1>1, <2>1, <2>2, <2>3, <2>4, <2>5, <2>6 DEF OnePlace, NeverTwice, Accounted, Conserved
<1>12. TypeOK'
  <2>1. repeated' \subseteq Chunk
    BY <1>11 DEF NeverTwice
  <2> QED BY <1>1, <1>8, <2>1, ArriveFacts, ObserveFacts DEF IInv, TypeOK
<1>13. Counting' /\ FirstDecides'
  <2>1. \A j \in Inv : j \in planned => served'[j] > 0
    BY <1>2 DEF IInv, Counting
  <2>2. arrived' = [arrived EXCEPT ![i] = k]
    BY <1>1, ArriveFacts DEF k
  <2> QED BY <1>1, <2>1, <2>2, ArriveFacts, ObserveFacts
          DEF IInv, TypeOK, Counting, FirstDecides, Disturbed
<1>14. OnePending' /\ ForgoneNeedsFault'
  <2>1. Owing' \subseteq Owing
    BY <1>1, <1>2, <1>4 DEF Owing
  <2> QED BY <1>1, <2>1 DEF IInv, OnePending, ForgoneNeedsFault, Disturbed
<1> QED
  BY <1>11, <1>12, <1>13, <1>14 DEF IInv

\* What the deciding frame inherits: the queue, then what the one other invocation
\* that still owes content owes.
LEMMA Inherited ==
  ASSUME IInv, NEW i \in Inv, i \notin planned
  PROVE  /\ Pending(i) = Owing
         /\ queue \o Carried(i) \in SegSeq
         /\ Chunks(queue \o Carried(i)) = Held
<1>1. Pending(i) = Owing
  <2>1. \A j \in planned : j \in Inv /\ j # i /\ served[j] > 0
    BY DEF IInv, TypeOK, Counting
  <2>2. \A j \in Inv : served[j] \in 0..NbFrames
    BY DEF IInv, TypeOK
  <2>3. \A j \in Inv : served[j] \in 1..NbFrames - 1 <=> served[j] > 0 /\ served[j] < NbFrames
    BY <2>2, DeliveryAssumption
  <2> QED BY <2>1, <2>3 DEF Pending, Owing
<1>2. Carried(i) \in SegSeq /\ Chunks(Carried(i)) = OwedChunks
  <2>1. CASE Owing = {}
    BY <1>1, <2>1, EmptySegSeq DEF Carried, OwedChunks
  <2>2. CASE Owing # {}
    <3>1. PICK j \in Owing : j = CHOOSE n \in Pending(i) : TRUE
      BY <2>2, <1>1
    <3>2. Owing = {j} /\ OwedChunks = Owed(j)
      BY DEF IInv, OnePending, OwedChunks
    <3>3. Carried(i) = Unserved(plan[j], served[j])
      BY <3>1, <2>2, <1>1 DEF Carried
    <3>4. plan[j] \in SegSeq /\ served[j] \in 1..NbFrames
      BY <3>1, DeliveryAssumption DEF Owing, IInv, TypeOK, Counting
    <3> QED BY <3>2, <3>3, <3>4, Pieces DEF Owed
  <2> QED BY <2>1, <2>2
<1>3. queue \in SegSeq /\ Chunks(queue) \cap OwedChunks = {}
  BY DEF IInv, TypeOK, OnePlace
<1> QED
  BY <1>1, <1>2, <1>3, ConcatSegSeq DEF Held

\* The emission order: what is inherited, whose once documents are all consumed,
\* then the injected documents that do not wait already.
LEMMA Ordered ==
  ASSUME NEW inherited \in SegSeq, NEW M \in SUBSET Doc,
         \A c \in Chunks(inherited) \cap OnceChunks : DocOf[c] \in seen
  PROVE  LET segments == OrderSegments(inherited, M \ seen)
         IN /\ segments \in SegSeq
            /\ Chunks(inherited) \subseteq Chunks(segments)
            /\ ChunksOf((M \ seen) \cap Once) \subseteq Chunks(segments)
            /\ Chunks(segments) \subseteq Chunks(inherited) \cup ChunksOf(M \ seen)
<1> DEFINE waiting == {DocOf[c] : c \in Chunks(inherited)}
           D == (M \ seen) \ waiting
<1>1. Fresh(D) \in SegSeq /\ Chunks(Fresh(D)) = ChunksOf(D)
  BY FreshAssumption
<1>2. Chunks(inherited) \cap Chunks(Fresh(D)) = {}
  BY <1>1 DEF ChunksOf
<1>3. /\ inherited \o Fresh(D) \in SegSeq
      /\ Chunks(inherited \o Fresh(D)) = Chunks(inherited) \cup ChunksOf(D)
  BY <1>1, <1>2, ConcatSegSeq
<1>4. ChunksOf((M \ seen) \cap Once) \subseteq ChunksOf(D)
  <2> SUFFICES ASSUME NEW c \in Chunk, DocOf[c] \in M \ seen, DocOf[c] \in Once
               PROVE  DocOf[c] \notin waiting
    BY DEF ChunksOf
  <2>1. ASSUME NEW e \in Chunks(inherited), DocOf[e] = DocOf[c] PROVE FALSE
    <3>1. e \in Chunk
      BY SegSeqSeq DEF Chunks
    <3>2. e \in OnceChunks
      BY <2>1, <3>1 DEF OnceChunks, ChunksOf
    <3> QED BY <3>2, <2>1
  <2> QED BY <2>1
<1>5. ChunksOf(D) \subseteq ChunksOf(M \ seen)
  BY DEF ChunksOf
<1>6. OrderSegments(inherited, M \ seen) = inherited \o Fresh(D)
  BY DEF OrderSegments
<1> QED
  BY <1>3, <1>4, <1>5, <1>6

\* The segments of a decision: everything held, then the documents injected that do
\* not wait already; and no once chunk among them was delivered before.
LEMMA Decided ==
  ASSUME IInv, NEW i \in Inv, i \notin planned, NEW M \in SUBSET Doc
  PROVE  LET segments == OrderSegments(queue \o Carried(i), M \ seen)
         IN /\ segments \in SegSeq
            /\ Held \subseteq Chunks(segments)
            /\ ChunksOf((M \ seen) \cap Once) \subseteq Chunks(segments)
            /\ Chunks(segments) \cap OnceChunks \cap delivered = {}
            /\ Chunks(segments) \subseteq Held \cup ChunksOf(M \ seen)
<1> DEFINE inherited == queue \o Carried(i)
           segments == OrderSegments(inherited, M \ seen)
<1>1. inherited \in SegSeq /\ Chunks(inherited) = Held
  BY Inherited
<1> HIDE DEF inherited
<1>2. \A c \in OnceChunks : DocOf[c] \notin seen => c \notin delivered \cup Held
  BY DEF IInv, OnePlace
<1>3. \A c \in Chunks(inherited) \cap OnceChunks : DocOf[c] \in seen
  BY <1>1, <1>2
<1>4. /\ segments \in SegSeq
      /\ Chunks(inherited) \subseteq Chunks(segments)
      /\ ChunksOf((M \ seen) \cap Once) \subseteq Chunks(segments)
      /\ Chunks(segments) \subseteq Chunks(inherited) \cup ChunksOf(M \ seen)
  BY <1>1, <1>3, Ordered
<1>5. OnceChunks \cap delivered \cap Held = {}
  BY DEF IInv, OnePlace
<1>6. ChunksOf(M \ seen) \cap OnceChunks \cap delivered = {}
  BY <1>2 DEF ChunksOf
<1> QED
  BY <1>1, <1>4, <1>5, <1>6 DEF inherited

\* A decision gathers everything held with what it injects, and places each chunk:
\* handed over, owed by the new plan, deferred, or forgone with an earlier frame.
LEMMA FrameDecideStep ==
  ASSUME IInv, NEW i \in Inv, NEW M \in SUBSET Doc, FrameDecide(i, M)
  PROVE  IInv' /\ Conserved
<1> DEFINE k == Index(i)
           new == (M \ seen) \cap Once
           segments == OrderSegments(queue \o Carried(i), M \ seen)
           rest == Between(segments, Through(segments, k), Through(segments, NbFrames))
<1>1. /\ Arrive(i) /\ i \notin harvested /\ i \notin planned /\ Observe(i)
      /\ harvested' = harvested \cup Pending(i)
      /\ queue' = Deferred(segments)
      /\ seen' = seen \cup new
      /\ planned' = planned \cup {i}
      /\ plan' = [plan EXCEPT ![i] = segments]
      /\ delivered' = delivered \cup Frame(segments, k)
      /\ repeated' = repeated \cup (Frame(segments, k) \cap delivered \cap OnceChunks)
      /\ forgone' = forgone \cup (Before(segments, k) \cap OnceChunks)
      /\ UNCHANGED <<timeouts, purges>>
  BY DEF FrameDecide, Hand
<1>2. /\ segments \in SegSeq
      /\ Held \subseteq Chunks(segments)
      /\ ChunksOf(new) \subseteq Chunks(segments)
      /\ Chunks(segments) \cap OnceChunks \cap delivered = {}
      /\ Chunks(segments) \subseteq Held \cup ChunksOf(M \ seen)
  BY <1>1, Decided
<1>3. /\ k \in 1..NbFrames /\ served' = [served EXCEPT ![i] = k]
      /\ k = arrived[i] + 1 /\ arrived' = [arrived EXCEPT ![i] = k]
      /\ served \in [Inv -> 0..NbFrames] /\ NbFrames \in Nat
  BY <1>1, ArriveFacts, ObserveFacts, DeliveryAssumption DEF IInv, TypeOK
<1> HIDE DEF k, segments
<1>4. /\ queue' \in SegSeq
      /\ Chunks(segments) =
           Before(segments, k) \cup Frame(segments, k) \cup rest \cup Chunks(queue')
      /\ Frame(segments, k) \cap rest = {} /\ Frame(segments, k) \cap Chunks(queue') = {}
      /\ rest \cap Chunks(queue') = {}
      /\ Chunks(segments) \subseteq Chunk /\ Frame(segments, k) \subseteq Chunk
      /\ k = 1 => Before(segments, k) = {}
      /\ k = NbFrames => rest = {}
  BY <1>1, <1>2, <1>3, Pieces
<1> HIDE DEF rest
<1>5. Pending(i) = Owing
  BY <1>1, Inherited
<1>6. plan'[i] = segments /\ served'[i] = k /\ i \in planned' \ harvested'
  BY <1>1, <1>3 DEF IInv, TypeOK, Pending
<1>7. Owing' \subseteq {i}
  <2>1. ASSUME NEW j \in planned \ harvested, j # i PROVE served'[j] = served[j] /\ j \in Inv
    BY <2>1, <1>3 DEF IInv, TypeOK
  <2> QED BY <2>1, <1>1, <1>5 DEF Owing
<1>8. OwedChunks' = rest
  <2>1. CASE k < NbFrames
    <3>1. Owing' = {i}
      BY <2>1, <1>6, <1>7 DEF Owing
    <3>2. OwedChunks' = Owed(i)'
      BY <3>1 DEF OwedChunks
    <3> QED BY <3>2, <1>6 DEF Owed, rest
  <2>2. CASE k = NbFrames
    <3>1. Owing' = {}
      <4>1. ~(served'[i] < NbFrames)
        BY <2>2, <1>3, <1>6
      <4> QED BY <4>1, <1>7 DEF Owing
    <3>2. OwedChunks' = {}
      BY <3>1 DEF OwedChunks
    <3>3. rest = {}
      BY <2>2, <1>4
    <3> QED BY <3>2, <3>3
  <2> QED BY <2>1, <2>2, <1>3
<1>9. Held' = Chunks(queue') \cup rest
  BY <1>8 DEF Held
<1>10. /\ OnceChunks \cap delivered \cap Held = {}
       /\ \A c \in OnceChunks : DocOf[c] \notin seen => c \notin delivered \cup Held
       /\ ChunksOf(seen) \subseteq delivered \cup Held \cup forgone
       /\ repeated = {}
  BY DEF IInv, OnePlace, Accounted, NeverTwice
<1>11. ChunksOf(seen') = ChunksOf(seen) \cup ChunksOf(new) /\ ChunksOf(seen') \subseteq OnceChunks
  BY <1>1 DEF ChunksOf, OnceChunks, IInv, TypeOK
<1>12. \A c \in OnceChunks \cap Chunks(segments) : DocOf[c] \in seen'
  <2>1. ASSUME NEW c \in OnceChunks, c \in Held PROVE DocOf[c] \in seen
    BY <2>1, <1>10
  <2>2. ASSUME NEW c \in OnceChunks, c \in ChunksOf(M \ seen) PROVE DocOf[c] \in new
    BY <2>2 DEF OnceChunks, ChunksOf
  <2> QED BY <2>1, <2>2, <1>1, <1>2
<1>13. OnePlace'
  <2>1. OnceChunks \cap delivered' \cap Held' = {}
    BY <1>1, <1>2, <1>4, <1>9
  <2>2. \A c \in OnceChunks : DocOf[c] \notin seen' => c \notin delivered' \cup Held'
    <3>1. delivered' \cup Held' \subseteq delivered \cup Chunks(segments)
      BY <1>1, <1>4, <1>9
    <3>2. \A c \in OnceChunks : DocOf[c] \notin seen' => c \notin delivered
      BY <1>1, <1>10
    <3> QED BY <3>1, <3>2, <1>12
  <2> QED BY <2>1, <2>2, <1>4, <1>8 DEF OnePlace
<1>14. NeverTwice'
  BY <1>1, <1>2, <1>4, <1>10 DEF NeverTwice
<1>15. Accounted'
  <2>1. ChunksOf(seen') \subseteq delivered \cup forgone \cup (OnceChunks \cap Chunks(segments))
    BY <1>2, <1>10, <1>11
  <2>2. OnceChunks \cap Chunks(segments) \subseteq delivered' \cup Held' \cup forgone'
    BY <1>1, <1>4, <1>9
  <2> QED BY <2>1, <2>2, <1>1 DEF Accounted
<1>16. Conserved
  <2>1. ASSUME NEW c \in ChunksOf(seen), c \in delivered' \cup Held' PROVE c \in delivered \cup Held
    <3>1. c \in delivered \cup Held \cup ChunksOf(M \ seen)
      BY <2>1, <1>1, <1>2, <1>4, <1>9
    <3>2. c \notin ChunksOf(M \ seen)
      BY DEF ChunksOf
    <3> QED BY <3>1, <3>2
  <2> QED BY <2>1, <1>1 DEF Conserved
<1>17. TypeOK'
  <2>1. repeated' \subseteq Chunk
    BY <1>14 DEF NeverTwice
  <2>2. Pending(i) \subseteq Inv
    BY DEF Pending
  <2>3. forgone' \subseteq Chunk
    BY <1>1 DEF OnceChunks, ChunksOf, IInv, TypeOK
  <2> QED BY <1>1, <1>2, <1>4, <2>1, <2>2, <2>3, ArriveFacts, ObserveFacts DEF IInv, TypeOK
<1>18. Counting' /\ FirstDecides'
  <2>1. \A j \in planned' : j \in Inv => served'[j] > 0
    BY <1>1, <1>3 DEF IInv, TypeOK, Counting
  <2>2. \A j \in Pending(i) : j \in Inv /\ j # i /\ served[j] > 0 /\ j \notin harvested
    BY <1>5, <1>1 DEF Owing, IInv, TypeOK, Counting
  <2>3. \A j \in harvested' : j \in Inv => arrived'[j] > 0
    <3>1. \A j \in Pending(i) : arrived'[j] = arrived[j] /\ arrived[j] = served[j]
      BY <2>2, <1>3 DEF IInv, TypeOK, Counting
    <3> QED BY <3>1, <2>2, <1>1, ObserveFacts
  <2>4. \A j \in Inv : j \notin harvested' => served'[j] = arrived'[j]
    BY <1>1, ObserveFacts
  <2>5. Counting'
    BY <2>1, <2>3, <2>4, <1>1, ArriveFacts DEF Counting
  <2>6. FirstDecides'
    BY <1>1, <1>3 DEF IInv, TypeOK, FirstDecides, Disturbed
  <2> QED BY <2>5, <2>6
<1>19. OnePending'
  BY <1>7 DEF OnePending
<1>20. ForgoneNeedsFault'
  <2>1. ASSUME ~Disturbed PROVE k = 1
    <3>1. ~(arrived[i] > 0) /\ arrived[i] \in 0..NbFrames
      BY <2>1, <1>1 DEF IInv, TypeOK, FirstDecides
    <3> QED BY <3>1, <1>3
  <2>2. Disturbed' = Disturbed
    BY <1>1 DEF Disturbed
  <2> QED BY <2>1, <2>2, <1>1, <1>4 DEF IInv, ForgoneNeedsFault
<1> QED
  BY <1>13, <1>14, <1>15, <1>16, <1>17, <1>18, <1>19, <1>20 DEF IInv

\* A fallback hands over no once chunk; it may let a frame of the plan go by.
LEMMA FrameFallbackStep ==
  ASSUME IInv, NEW i \in Inv, NEW M \in SUBSET Doc, FrameFallback(i, M)
  PROVE  IInv' /\ Conserved
<1> DEFINE k == Index(i)
           C == Frame(Fresh(M \ Once), k)
           lost == IF i \in planned THEN Frame(plan[i], k) ELSE {}
<1>1. /\ Arrive(i) /\ i \notin harvested /\ Observe(i)
      /\ timeouts < MaxTimeouts /\ timeouts' = timeouts + 1
      /\ delivered' = delivered \cup C
      /\ repeated' = repeated \cup (C \cap delivered \cap OnceChunks)
      /\ forgone' = forgone \cup (lost \cap OnceChunks)
      /\ UNCHANGED <<seen, queue, planned, plan, harvested, purges>>
  BY DEF FrameFallback, Hand
<1>2. /\ k \in 1..NbFrames /\ served' = [served EXCEPT ![i] = k] /\ k = served[i] + 1
      /\ arrived' = [arrived EXCEPT ![i] = k]
      /\ served \in [Inv -> 0..NbFrames] /\ NbFrames \in Nat
      /\ plan[i] \in SegSeq
  BY <1>1, ArriveFacts, ObserveFacts, DeliveryAssumption DEF IInv, TypeOK
<1>3. C \subseteq Chunk /\ C \cap OnceChunks = {}
  <2>1. Fresh(M \ Once) \in SegSeq /\ Chunks(Fresh(M \ Once)) = ChunksOf(M \ Once)
    BY FreshAssumption
  <2>2. C \subseteq ChunksOf(M \ Once)
    BY <2>1, <1>2, Pieces
  <2> QED BY <2>2 DEF ChunksOf, OnceChunks
<1>4. timeouts' \in 0..MaxTimeouts /\ Disturbed'
  BY <1>1, DeliveryAssumption DEF IInv, TypeOK, Disturbed
<1> HIDE DEF k, C
<1>5. Owing' \subseteq Owing /\ \A j \in Owing \ {i} : j \in Owing' /\ Owed(j)' = Owed(j)
  <2>1. ASSUME NEW j \in Inv, j # i PROVE served'[j] = served[j]
    BY <2>1, <1>2
  <2>2. served'[i] = k /\ (k < NbFrames => served[i] < NbFrames)
    BY <1>1, <1>2
  <2>3. planned \subseteq Inv
    BY DEF IInv, TypeOK
  <2> QED BY <1>1, <2>1, <2>2, <2>3 DEF Owing, Owed
<1>6. OwedChunks = OwedChunks' \cup lost
  <2>1. CASE i \in Owing
    <3>1. Owing = {i} /\ OwedChunks = Owed(i)
      BY <2>1 DEF IInv, OnePending, OwedChunks
    <3>2. Owed(i) = Frame(plan[i], k) \cup Between(plan[i], Through(plan[i], k), Through(plan[i], NbFrames))
      <4>1. served[i] = k - 1
        BY <1>2
      <4> QED BY <4>1, <1>2, Pieces DEF Owed
    <3>3. OwedChunks' = Between(plan[i], Through(plan[i], k), Through(plan[i], NbFrames))
      <4>1. CASE k < NbFrames
        <5>1. Owing' = {i}
          BY <4>1, <3>1, <2>1, <1>1, <1>2, <1>5 DEF Owing
        <5>2. OwedChunks' = Owed(i)'
          BY <5>1 DEF OwedChunks
        <5> QED BY <5>2, <1>1, <1>2 DEF Owed
      <4>2. CASE k = NbFrames
        <5>1. Owing' = {}
          BY <4>2, <3>1, <1>1, <1>2, <1>5 DEF Owing
        <5>2. OwedChunks' = {}
          BY <5>1 DEF OwedChunks
        <5> QED BY <5>2, <4>2, <1>2, Pieces
      <4> QED BY <4>1, <4>2, <1>2
    <3>4. i \in planned
      BY <2>1 DEF Owing
    <3> QED BY <3>1, <3>2, <3>3, <3>4
  <2>2. CASE i \notin Owing
    <3>1. Owing' = Owing /\ \A j \in Owing : Owed(j)' = Owed(j)
      BY <2>2, <1>5
    <3>2. OwedChunks' = OwedChunks
      BY <3>1 DEF OwedChunks
    <3>3. i \notin planned
      BY <2>2, <1>1, <1>2 DEF Owing
    <3> QED BY <3>2, <3>3
  <2> QED BY <2>1, <2>2
<1> HIDE DEF lost
<1>7. /\ Chunks(queue) \cap OwedChunks = {}
      /\ OnceChunks \cap delivered \cap (Chunks(queue) \cup OwedChunks) = {}
      /\ \A c \in OnceChunks : DocOf[c] \notin seen => c \notin delivered \cup Chunks(queue) \cup OwedChunks
      /\ ChunksOf(seen) \subseteq delivered \cup Chunks(queue) \cup OwedChunks \cup forgone
      /\ ChunksOf(seen) \subseteq OnceChunks
      /\ repeated = {}
  BY DEF IInv, TypeOK, OnePlace, Held, Accounted, NeverTwice, ChunksOf, OnceChunks
<1>8. Held' = Chunks(queue) \cup OwedChunks'
  BY <1>1 DEF Held
<1>9. OnePlace' /\ NeverTwice' /\ Accounted'
  <2>1. Chunks(queue') \cap OwedChunks' = {}
    BY <1>1, <1>6, <1>7
  <2>2. OnceChunks \cap delivered' \cap Held' = {}
    BY <1>1, <1>3, <1>6, <1>7, <1>8
  <2>3. \A c \in OnceChunks : DocOf[c] \notin seen' => c \notin delivered' \cup Held'
    BY <1>1, <1>3, <1>6, <1>7, <1>8
  <2>4. repeated' = {}
    BY <1>1, <1>3, <1>7
  <2>5. ChunksOf(seen') \subseteq delivered' \cup Held' \cup forgone'
    BY <1>1, <1>6, <1>7, <1>8
  <2> QED BY <2>1, <2>2, <2>3, <2>4, <2>5 DEF OnePlace, NeverTwice, Accounted
<1>10. Conserved
  <2>1. ChunksOf(seen) \cap (delivered' \cup Held') \subseteq delivered \cup Held
    BY <1>1, <1>3, <1>6, <1>7, <1>8 DEF Held
  <2> QED BY <2>1, <1>1 DEF Conserved
<1>11. TypeOK'
  <2>1. repeated' \subseteq Chunk /\ forgone' \subseteq Chunk
    BY <1>1, <1>9 DEF NeverTwice, OnceChunks, ChunksOf, IInv, TypeOK
  <2> QED BY <1>1, <1>3, <1>4, <2>1, ArriveFacts, ObserveFacts DEF IInv, TypeOK
<1>12. Counting'
  <2>1. \A j \in Inv : j \in planned => served'[j] > 0
    BY <1>2 DEF IInv, Counting
  <2> QED BY <1>1, <2>1, ArriveFacts, ObserveFacts DEF Counting
<1>13. OnePending' /\ FirstDecides' /\ ForgoneNeedsFault'
  BY <1>4, <1>5 DEF IInv, OnePending, FirstDecides, ForgoneNeedsFault
<1> QED
  BY <1>9, <1>10, <1>11, <1>12, <1>13 DEF IInv

\* A compaction leaves no chunk anywhere, and the invocations in flight without a plan.
LEMMA PurgeStep ==
  ASSUME IInv, Purge
  PROVE  IInv'
<1>1. /\ purges < MaxPurges /\ purges' = purges + 1
      /\ seen' = {} /\ queue' = <<>> /\ planned' = {} /\ plan' = [i \in Inv |-> <<>>]
      /\ delivered' = {} /\ forgone' = {}
      /\ UNCHANGED <<arrived, sequencer, served, harvested, repeated, timeouts>>
  BY DEF Purge, tables
<1>2. Owing' = {} /\ OwedChunks' = {} /\ Held' = {}
  BY <1>1, EmptySegSeq DEF Owing, OwedChunks, Held
<1>3. TypeOK'
  BY <1>1, EmptySegSeq, DeliveryAssumption DEF IInv, TypeOK
<1>4. Disturbed'
  BY <1>1 DEF IInv, TypeOK, Disturbed
<1>5. Counting' /\ OnePending' /\ FirstDecides'
  BY <1>1, <1>2, <1>4 DEF IInv, Counting, OnePending, FirstDecides
<1>6. OnePlace'
  BY <1>1, <1>2, EmptySegSeq DEF OnePlace
<1>7. NeverTwice' /\ Accounted' /\ ForgoneNeedsFault'
  BY <1>1 DEF IInv, NeverTwice, Accounted, ForgoneNeedsFault, ChunksOf
<1> QED
  BY <1>3, <1>5, <1>6, <1>7 DEF IInv

\* The entry of an invocation that owes nothing is reused: no content moves.
LEMMA NewInvocationStep ==
  ASSUME IInv, NEW i \in Inv, NewInvocation(i)
  PROVE  IInv' /\ Conserved
<1>1. /\ served[i] = NbFrames \/ i \in harvested
      /\ arrived' = [arrived EXCEPT ![i] = 0]
      /\ sequencer' = [sequencer EXCEPT ![i] = 0]
      /\ served' = [served EXCEPT ![i] = 0]
      /\ harvested' = harvested \ {i}
      /\ planned' = planned \ {i}
      /\ plan' = [plan EXCEPT ![i] = <<>>]
      /\ UNCHANGED <<seen, queue, delivered, repeated, forgone, timeouts, purges>>
  BY DEF NewInvocation, ghosts
<1>2. /\ arrived \in [Inv -> 0..NbFrames] /\ served \in [Inv -> 0..NbFrames]
      /\ sequencer \in [Inv -> 0..NbFrames - 1] /\ plan \in [Inv -> SegSeq]
      /\ planned \subseteq Inv /\ NbFrames \in Nat /\ NbFrames >= 2
  BY DeliveryAssumption DEF IInv, TypeOK
<1>3. Owing' = Owing /\ \A j \in Owing : Owed(j)' = Owed(j)
  <2>1. i \notin Owing
    BY <1>1, <1>2 DEF Owing
  <2>2. \A j \in Inv \ {i} : served'[j] = served[j] /\ plan'[j] = plan[j]
    BY <1>1, <1>2
  <2> QED BY <1>1, <1>2, <2>1, <2>2 DEF Owing, Owed
<1>4. OwedChunks' = OwedChunks /\ Held' = Held
  BY <1>1, <1>3 DEF OwedChunks, Held
<1>5. TypeOK'
  BY <1>1, <1>2, EmptySegSeq DEF IInv, TypeOK
<1>6. Counting'
  BY <1>1, <1>2 DEF IInv, Counting
<1>7. FirstDecides'
  BY <1>1, <1>2 DEF IInv, FirstDecides, Disturbed
<1>8. OnePending' /\ OnePlace' /\ NeverTwice' /\ Accounted' /\ ForgoneNeedsFault'
  BY <1>1, <1>3, <1>4 DEF IInv, OnePending, OnePlace, NeverTwice, Accounted, ForgoneNeedsFault, Disturbed
<1>9. Conserved
  BY <1>1, <1>4 DEF Conserved
<1> QED
  BY <1>5, <1>6, <1>7, <1>8, <1>9 DEF IInv

LEMMA StepIInv == IInv /\ [Next]_vars => IInv'
<1> SUFFICES ASSUME IInv, [Next]_vars PROVE IInv'
  OBVIOUS
<1>1. ASSUME NEW i \in Inv, FrameOfHarvested(i) PROVE IInv'
  BY <1>1, FrameOfHarvestedStep
<1>2. ASSUME NEW i \in Inv, FrameReplay(i) PROVE IInv'
  BY <1>2, FrameReplayStep
<1>3. ASSUME NEW i \in Inv, NEW M \in SUBSET Doc, FrameDecide(i, M) PROVE IInv'
  BY <1>3, FrameDecideStep
<1>4. ASSUME NEW i \in Inv, NEW M \in SUBSET Doc, FrameFallback(i, M) PROVE IInv'
  BY <1>4, FrameFallbackStep
<1>5. ASSUME Purge PROVE IInv'
  BY <1>5, PurgeStep
<1>6. ASSUME NEW i \in Inv, NewInvocation(i) PROVE IInv'
  BY <1>6, NewInvocationStep
<1>7. ASSUME UNCHANGED vars PROVE IInv'
  BY <1>7 DEF vars, tables, ghosts, IInv, TypeOK, Counting, OnePending, FirstDecides, OnePlace,
     NeverTwice, Accounted, ForgoneNeedsFault, Owing, OwedChunks, Owed, Held, Disturbed
<1> QED
  BY <1>1, <1>2, <1>3, <1>4, <1>5, <1>6, <1>7 DEF Next

LEMMA Invariance == Spec => []IInv
<1>1. Init => IInv
  BY InitIInv
<1>2. IInv /\ [Next]_vars => IInv'
  BY StepIInv
<1> QED
  BY <1>1, <1>2, PTL DEF Spec

---------------------------------------------------------------------------
(* Theorems.                                                               *)

\* The daemon's tables keep their types; in particular a queue or a plan never
\* names a chunk twice, whatever was harvested into it.
THEOREM DeliveryTyping == Spec => []TypeOK
  BY Invariance, PTL DEF IInv

\* No once chunk is handed over twice between two compactions, for any number of
\* invocations and frames, any corpus and any order of the frames.
THEOREM DeliveryNeverTwice == Spec => []NeverTwice
  BY Invariance, PTL DEF IInv

\* At most one invocation owes content at any time.
THEOREM DeliveryOnePending == Spec => []OnePending
  BY Invariance, PTL DEF IInv

\* Every chunk of a consumed document was delivered, waits, is owed, or went by
\* with a frame of its invocation.
THEOREM DeliveryAccounted == Spec => []Accounted
  BY Invariance, PTL DEF IInv

\* Nothing goes by without a lock timeout or a compaction.
THEOREM DeliveryForgone == Spec => []ForgoneNeedsFault
  BY Invariance, PTL DEF IInv

---------------------------------------------------------------------------
(* The refinement of Promise.tla.                                          *)

LEMMA InitPromised == Init => Promised!Init
<1> SUFFICES ASSUME Init PROVE Promised!Init
  OBVIOUS
<1>1. \A c \in OnceChunks : StatusOf(c) = "undecided"
  BY DEF Init, StatusOf
<1>2. ~Disturbed
  BY DEF Init, Disturbed
<1> QED
  BY <1>1, <1>2 DEF Promised!Init

\* A step that conserves the content and does not undo a fault is a step of Act.
LEMMA ConservedActs ==
  ASSUME IInv, IInv', Conserved, Disturbed => Disturbed'
  PROVE  Promised!Act
<1> DEFINE status == [c \in OnceChunks |-> StatusOf(c)]
           docOf == [c \in OnceChunks |-> DocOf[c]]
<1>1. Disturbed' \in {Disturbed, TRUE}
  BY DEF Disturbed
<1>2. status' \in [OnceChunks -> Promised!Statuses]
  BY DEF StatusOf, Promised!Statuses
<1>3. ASSUME NEW c \in OnceChunks
      PROVE  /\ status[c] = StatusOf(c) /\ status'[c] = StatusOf(c)'
             /\ docOf[c] = DocOf[c]
  OBVIOUS
<1>4. ASSUME NEW c \in OnceChunks
      PROVE  /\ StatusOf(c) \in {"delivered", "forgone"} => StatusOf(c)' = StatusOf(c)
             /\ StatusOf(c) = "owed" => StatusOf(c)' # "undecided"
             /\ StatusOf(c)' = "forgone" => Disturbed'
  <2>1. c \in Chunk
    BY DEF OnceChunks, ChunksOf
  <2>2. CASE DocOf[c] \notin seen
    <3>1. StatusOf(c) = "undecided"
      BY <2>2 DEF StatusOf
    <3>2. StatusOf(c)' = "forgone" => c \in forgone'
      BY <2>1 DEF StatusOf, IInv, Accounted, ChunksOf
    <3> QED BY <3>1, <3>2 DEF IInv, ForgoneNeedsFault
  <2>3. CASE DocOf[c] \in seen
    <3>1. DocOf[c] \in seen' /\ c \in ChunksOf(seen)
      BY <2>1, <2>3 DEF Conserved, ChunksOf
    <3>2. c \in delivered => c \in delivered'
      BY DEF Conserved
    <3>3. c \notin delivered \cup Held => c \notin delivered' \cup Held'
      BY <3>1 DEF Conserved
    <3>4. StatusOf(c)' = "forgone" => c \in forgone'
      BY <2>1, <3>1 DEF StatusOf, IInv, Accounted, ChunksOf
    <3> QED BY <2>3, <3>1, <3>2, <3>3, <3>4 DEF StatusOf, IInv, ForgoneNeedsFault
  <2> QED BY <2>2, <2>3
<1>5. ASSUME NEW c \in OnceChunks, NEW e \in OnceChunks, DocOf[c] = DocOf[e]
      PROVE  StatusOf(c)' = "undecided" <=> StatusOf(e)' = "undecided"
  BY <1>5 DEF StatusOf
<1> HIDE DEF status, docOf
<1>6. \A c \in OnceChunks :
        /\ status[c] \in {"delivered", "forgone"} => status'[c] = status[c]
        /\ status[c] = "owed" => status'[c] # "undecided"
        /\ status[c] # "forgone" /\ status'[c] = "forgone" => Disturbed'
  BY <1>3, <1>4
<1>7. \A c, e \in OnceChunks :
        docOf[c] = docOf[e] => (status'[c] = "undecided" <=> status'[e] = "undecided")
  BY <1>3, <1>5
<1> QED
  BY <1>1, <1>2, <1>6, <1>7 DEF Promised!Act, status, docOf

LEMMA StepPromised ==
  IInv /\ [Next]_vars => [Promised!Next]_<<[c \in OnceChunks |-> StatusOf(c)], Disturbed>>
<1> SUFFICES ASSUME IInv, [Next]_vars
             PROVE  [Promised!Next]_<<[c \in OnceChunks |-> StatusOf(c)], Disturbed>>
  OBVIOUS
<1>1. IInv'
  BY StepIInv
<1>2. ASSUME NEW i \in Inv, FrameOfHarvested(i) PROVE Promised!Act
  <2>1. Disturbed => Disturbed'
    BY <1>2 DEF FrameOfHarvested, Disturbed
  <2> QED BY <1>1, <1>2, <2>1, FrameOfHarvestedStep, ConservedActs
<1>3. ASSUME NEW i \in Inv, FrameReplay(i) PROVE Promised!Act
  <2>1. Disturbed => Disturbed'
    BY <1>3 DEF FrameReplay, Disturbed
  <2> QED BY <1>1, <1>3, <2>1, FrameReplayStep, ConservedActs
<1>4. ASSUME NEW i \in Inv, NEW M \in SUBSET Doc, FrameDecide(i, M) PROVE Promised!Act
  <2>1. Disturbed => Disturbed'
    BY <1>4 DEF FrameDecide, Disturbed
  <2> QED BY <1>1, <1>4, <2>1, FrameDecideStep, ConservedActs
<1>5. ASSUME NEW i \in Inv, NEW M \in SUBSET Doc, FrameFallback(i, M) PROVE Promised!Act
  <2>1. Disturbed => Disturbed'
    BY <1>5, DeliveryAssumption DEF FrameFallback, Disturbed, IInv, TypeOK
  <2> QED BY <1>1, <1>5, <2>1, FrameFallbackStep, ConservedActs
<1>6. ASSUME NEW i \in Inv, NewInvocation(i) PROVE Promised!Act
  <2>1. Disturbed => Disturbed'
    BY <1>6 DEF NewInvocation, Disturbed
  <2> QED BY <1>1, <1>6, <2>1, NewInvocationStep, ConservedActs
<1>7. ASSUME Purge PROVE Promised!Reset
  <2>1. \A c \in OnceChunks : StatusOf(c)' = "undecided"
    BY <1>7 DEF Purge, StatusOf
  <2>2. Disturbed'
    BY <1>7 DEF Purge, Disturbed, IInv, TypeOK
  <2> QED BY <2>1, <2>2 DEF Promised!Reset
<1>8. ASSUME UNCHANGED vars
      PROVE  UNCHANGED <<[c \in OnceChunks |-> StatusOf(c)], Disturbed>>
  BY <1>8 DEF vars, tables, ghosts, StatusOf, Held, OwedChunks, Owing, Owed, Disturbed
<1> QED
  BY <1>2, <1>3, <1>4, <1>5, <1>6, <1>7, <1>8 DEF Next, Promised!Next

\* The daemon's transport implements the promise of Promise.tla: documents are
\* consumed whole, owed chunks leave by being delivered only, nothing is forgone in
\* an undisturbed run, and only a compaction takes anything back.
THEOREM DeliveryKeepsPromise == Spec => PromiseKept
<1>1. Init => Promised!Init
  BY InitPromised
<1>2. IInv /\ [Next]_vars => [Promised!Next]_<<[c \in OnceChunks |-> StatusOf(c)], Disturbed>>
  BY StepPromised
<1> QED
  BY <1>1, <1>2, Invariance, PTL DEF Spec, PromiseKept, Promised!Spec


---------------------------------------------------------------------------
(* The frames of a list.                                                    *)

\* A set of naturals that is not empty has a least element.
LEMMA Least ==
  ASSUME NEW T \in SUBSET Nat, T # {}
  PROVE  \E x \in T : \A y \in T : x <= y
<1> DEFINE R == {ss \in Nat \X Nat : ss[1] < ss[2]}
<1>1. IsWellFoundedOn(R, Nat)
  BY NatLessThanWellFounded DEF OpToRel
<1>2. \A x, y \in Nat : y < x => <<y, x>> \in R
  OBVIOUS
<1> HIDE DEF R
<1>3. \E x \in T : \A y \in T : ~ (<<y, x>> \in R)
  BY <1>1, WFMin
<1>4. ASSUME NEW x \in T, NEW y \in T, ~ (<<y, x>> \in R) PROVE x <= y
  BY <1>2, <1>4
<1> QED
  BY <1>3, <1>4

\* What goes out after the k-th frame goes out in one of the frames after it.
LEMMA FramesCover ==
  ASSUME NEW s \in SegSeq, NEW a \in 0..NbFrames
  PROVE  Between(s, Through(s, a), Through(s, NbFrames)) = UNION {Frame(s, k) : k \in a + 1 .. NbFrames}
<1>1. NbFrames \in Nat /\ NbFrames \in 0..NbFrames /\ a \in Nat
  BY DeliveryAssumption
<1>2. \A k \in 0..NbFrames : Through(s, k) \in Nat
  BY Cuts, SegSeqSeq
<1>3. \A j, k \in 0..NbFrames : j <= k => Through(s, j) <= Through(s, k)
  BY CutAssumption
<1>4. ASSUME NEW x \in Between(s, Through(s, a), Through(s, NbFrames))
      PROVE  \E k \in a + 1 .. NbFrames : x \in Frame(s, k)
  <2>1. PICK p \in Through(s, a) + 1 .. Through(s, NbFrames) : x = s[p]
    BY DEF Between
  <2>2. p \in Nat /\ p > Through(s, a) /\ p <= Through(s, NbFrames)
    BY <1>1, <1>2
  <2> DEFINE T == {k \in a + 1 .. NbFrames : p <= Through(s, k)}
  <2>3. a # NbFrames
    BY <2>2, <1>1, <1>2
  <2>4. NbFrames \in T /\ T \in SUBSET Nat
    BY <2>2, <2>3, <1>1
  <2>5. PICK k \in T : \A y \in T : k <= y
    <3> HIDE DEF T
    <3> QED BY <2>4, Least
  <2>6. k \in a + 1 .. NbFrames /\ p <= Through(s, k)
    BY <2>5
  <2>7. k - 1 \in 0..NbFrames /\ k \in 0..NbFrames /\ k - 1 \notin T
    BY <2>5, <2>6, <1>1
  <2>8. p > Through(s, k - 1)
    <3>1. CASE k - 1 = a
      BY <3>1, <2>2
    <3>2. CASE k - 1 # a
      <4>1. k - 1 \in a + 1 .. NbFrames
        BY <3>2, <2>6, <2>7, <1>1
      <4>2. ~ (p <= Through(s, k - 1))
        BY <4>1, <2>7
      <4> QED BY <4>2, <2>2, <2>7, <1>2
    <3> QED BY <3>1, <3>2
  <2>9. p \in Through(s, k - 1) + 1 .. Through(s, k)
    BY <2>2, <2>6, <2>7, <2>8, <1>2
  <2> QED BY <2>1, <2>6, <2>9 DEF Frame, Between
<1>5. ASSUME NEW k \in a + 1 .. NbFrames
      PROVE  Frame(s, k) \subseteq Between(s, Through(s, a), Through(s, NbFrames))
  <2>1. k - 1 \in 0..NbFrames /\ k \in 0..NbFrames /\ a <= k - 1 /\ k <= NbFrames
    BY <1>1
  <2>2. Through(s, a) <= Through(s, k - 1) /\ Through(s, k) <= Through(s, NbFrames)
    BY <2>1, <1>1, <1>3
  <2>3. Through(s, k - 1) + 1 .. Through(s, k) \subseteq Through(s, a) + 1 .. Through(s, NbFrames)
    BY <2>1, <2>2, <1>1, <1>2
  <2> QED BY <2>3 DEF Frame, Between
<1> QED
  BY <1>4, <1>5

\* Frames share no chunk with one another nor with what is deferred, and are
\* with it the whole list.
LEMMA FramesOfList ==
  ASSUME NEW s \in SegSeq
  PROVE  /\ \A k, m \in 1..NbFrames : k # m => Frame(s, k) \cap Frame(s, m) = {}
         /\ \A k \in 1..NbFrames : Frame(s, k) \cap Chunks(Deferred(s)) = {} /\ Frame(s, k) \subseteq Chunks(s)
         /\ Chunks(s) = Chunks(Deferred(s)) \cup UNION {Frame(s, k) : k \in 1..NbFrames}
         /\ Chunks(s) \subseteq Chunk /\ Deferred(s) \in SegSeq
<1>1. NbFrames \in Nat /\ 1 \in 1..NbFrames /\ 0 \in 0..NbFrames
  BY DeliveryAssumption
<1>2. ASSUME NEW k \in 1..NbFrames, NEW m \in 1..NbFrames, k < m PROVE Frame(s, k) \cap Frame(s, m) = {}
  <2>1. /\ k - 1 \in 0..NbFrames /\ k \in 0..NbFrames /\ m - 1 \in 0..NbFrames /\ m \in 0..NbFrames
        /\ k <= m - 1
    BY <1>1, <1>2
  <2>2. /\ Through(s, k - 1) \in Nat /\ Through(s, k) \in Nat /\ Through(s, m - 1) \in Nat
        /\ Through(s, m) \in 0..Len(s)
    BY <2>1, Cuts, SegSeqSeq
  <2>3. Through(s, k) <= Through(s, m - 1)
    BY <2>1, CutAssumption
  <2> QED BY <2>2, <2>3, BetweenDisjoint DEF Frame
<1>3. \A k, m \in 1..NbFrames : k # m => k < m \/ m < k
  BY <1>1
<1>4. \A k \in 1..NbFrames : Frame(s, k) \cap Chunks(Deferred(s)) = {} /\ Frame(s, k) \subseteq Chunks(s)
  BY Pieces
<1>5. /\ Chunks(s) = Frame(s, 1) \cup Between(s, Through(s, 1), Through(s, NbFrames)) \cup Chunks(Deferred(s))
      /\ Deferred(s) \in SegSeq /\ Chunks(s) \subseteq Chunk
  BY <1>1, Pieces
<1>6. Between(s, Through(s, 1), Through(s, NbFrames)) = UNION {Frame(s, k) : k \in 2..NbFrames}
  <2>1. 1 \in 0..NbFrames /\ 1 + 1 = 2
    BY <1>1
  <2> QED BY <2>1, FramesCover
<1>7. \A k \in 1..NbFrames : k = 1 \/ k \in 2..NbFrames
  BY <1>1
<1>8. Chunks(s) \subseteq Chunks(Deferred(s)) \cup UNION {Frame(s, k) : k \in 1..NbFrames}
  <2>1. \A k \in 2..NbFrames : k \in 1..NbFrames
    BY <1>1
  <2> QED BY <2>1, <1>1, <1>5, <1>6
<1> QED
  BY <1>2, <1>3, <1>4, <1>5, <1>8

---------------------------------------------------------------------------
(* The inductive invariant of the pool.                                     *)

Calm == timeouts = 0 /\ ~crossed

Serves(t, i) == at[t] # "idle" /\ call[t] = i

\* The frames of an invocation that are still to be answered, and their chunks.
Left(i) == {k \in 1..NbFrames : k > arrived[i] \/ \E t \in Thread : Serves(t, i) /\ index[t] = k}
Content(i) == UNION {Frame(plan[i], k) : k \in Left(i)}
Answering == planned \ harvested

\* What moves with the frames, and what does not.
Moving == UNION {Content(i) : i \in Answering}
Still == Chunks(queue) \cup UNION {Chunks(carry[t]) : t \in Thread}

PoolTypes ==
  /\ seen \subseteq Once /\ queue \in SegSeq
  /\ planned \subseteq Inv /\ plan \in [Inv -> SegSeq]
  /\ sequencer \in [Inv -> Nat]
  /\ arrived \in [Inv -> 0..NbFrames] /\ served \in [Inv -> 0..NbFrames]
  /\ harvested \subseteq planned
  /\ at \in [Thread -> Step] /\ call \in [Thread -> Inv] /\ index \in [Thread -> 1..NbFrames]
  /\ owed \in [Thread -> SUBSET (Inv \X (1..NbFrames - 1))] /\ carry \in [Thread -> SegSeq]

\* A frame in service has arrived and is served by one thread; it is not of a
\* harvested invocation past the question; it was noted before the lock.
InService ==
  \A t \in Thread : at[t] # "idle" =>
    /\ index[t] <= arrived[call[t]]
    /\ \A u \in Thread : Serves(u, call[t]) /\ index[u] = index[t] => u = t
    /\ call[t] \in harvested => at[t] = "indexed"
    /\ at[t] \in {"observed", "inside", "harvesting"} => index[t] <= served[call[t]]

\* Before the plan every arrived frame is in service, and what was not noted is.
Counted ==
  \A i \in Inv :
    /\ sequencer[i] = IF arrived[i] < NbFrames THEN arrived[i] ELSE 0
    /\ served[i] <= arrived[i]
    /\ i \in planned => served[i] > 0
    /\ i \notin planned => \A k \in 1..arrived[i] : \E t \in Thread : Serves(t, i) /\ index[t] = k
    /\ i \notin harvested /\ served[i] # arrived[i] =>
         \E t \in Thread : Serves(t, i) /\ index[t] = arrived[i] /\ at[t] \in {"indexed", "asked"}

Inside == {"inside", "harvesting"}
OneInside == \A t, u \in Thread : at[t] \in Inside /\ at[u] \in Inside => t = u

\* The thread that harvests has listed whatever owes frames, as it stands unless a
\* thread is serving it; and what it took over was all there was.
Harvests ==
  \A t \in Thread :
    /\ at[t] # "harvesting" => carry[t] = <<>>
    /\ at[t] = "harvesting" =>
         /\ call[t] \notin planned
         /\ \A o \in owed[t] :
              o[1] \notin harvested /\ (o[2] = arrived[o[1]] \/ \E u \in Thread : Serves(u, o[1]))
         /\ \A o, p \in owed[t] : o[1] = p[1] => o = p
         /\ \A j \in Owing : \E o \in owed[t] : o[1] = j
         /\ carry[t] # <<>> => Owing = {}
         /\ Chunks(carry[t]) \cap Chunks(queue) = {}

\* A once chunk is in one place at most, and none before its document is consumed.
OnePlaceEach ==
  /\ \A i \in Answering : \A k \in 1..NbFrames :
       k > arrived[i] => Chunks(queue) \cap Frame(plan[i], k) = {}
  /\ \A i, j \in Answering : i # j => Content(i) \cap Content(j) \cap OnceChunks = {}
  /\ OnceChunks \cap Moving \cap Still = {}
  /\ OnceChunks \cap delivered \cap (Still \cup Moving) = {}
  /\ \A c \in OnceChunks : DocOf[c] \notin seen => c \notin delivered \cup Still \cup Moving
  /\ ChunksOf(seen) \subseteq delivered \cup Still \cup Moving
  /\ repeated = {}

Orderly ==
  /\ PoolTypes /\ InService /\ Counted /\ OneInside /\ Harvests /\ OnePending /\ OnePlaceEach

PoolInv == timeouts \in Nat /\ (Calm => Orderly)

LEMMA PoolInitInv == PoolInit => PoolInv
<1> SUFFICES ASSUME PoolInit PROVE PoolInv
  OBVIOUS
<1> USE DeliveryAssumption
<1>1. PoolTypes
  BY EmptySegSeq DEF PoolInit, Init, PoolTypes, Step
<1>2. InService /\ Counted /\ OneInside
  BY DEF PoolInit, Init, InService, Counted, OneInside, Inside
<1>3. Answering = {} /\ Owing = {} /\ Moving = {}
  BY DEF PoolInit, Init, Answering, Owing, Moving
<1>4. Still = {}
  BY EmptySegSeq DEF PoolInit, Init, Still
<1>5. Harvests /\ OnePending
  BY <1>3 DEF PoolInit, Harvests, OnePending
<1>6. OnePlaceEach
  BY <1>3, <1>4 DEF PoolInit, Init, OnePlaceEach, ChunksOf
<1> QED
  BY <1>1, <1>2, <1>5, <1>6 DEF PoolInv, Orderly, PoolInit, Init

---------------------------------------------------------------------------
(* The steps that deliver and decide nothing.                               *)

\* As long as the frames left are the same, every chunk stays where it is.
LEMMA PlacesStay ==
  ASSUME PoolTypes, PoolTypes', OnePlaceEach,
         UNCHANGED <<seen, queue, planned, plan, harvested, delivered, repeated, carry>>,
         \A i \in Answering : arrived[i] <= arrived'[i] /\ Left(i)' = Left(i)
  PROVE  OnePlaceEach'
<1>1. Answering' = Answering /\ Still' = Still
  BY DEF Answering, Still
<1>2. \A i \in Answering : Content(i)' = Content(i)
  BY DEF Content, Frame, Between
<1>3. Moving' = Moving
  BY <1>1, <1>2 DEF Moving
<1>4. ASSUME NEW i \in Answering, NEW k \in 1..NbFrames, k > arrived'[i]
      PROVE  Chunks(queue) \cap Frame(plan[i], k) = {}
  <2>1. arrived[i] \in Nat /\ arrived'[i] \in Nat
    BY DEF PoolTypes, Answering
  <2>2. k > arrived[i]
    BY <2>1, <1>4, DeliveryAssumption
  <2> QED BY <2>2 DEF OnePlaceEach
<1>5. \A i, j \in Answering : i # j => Content(i)' \cap Content(j)' \cap OnceChunks = {}
  BY <1>2 DEF OnePlaceEach
<1> QED
  BY <1>1, <1>3, <1>4, <1>5 DEF OnePlaceEach

\* A frame takes its index: it was to come, it is in service.
LEMMA TakeStep ==
  ASSUME Orderly, NEW t \in Thread, NEW i \in Inv, Take(t, i)
  PROVE  Orderly'
<1> USE DeliveryAssumption
<1> USE DEF Orderly
<1>1. /\ at[t] = "idle" /\ at' = [at EXCEPT ![t] = "indexed"]
      /\ arrived[i] < NbFrames /\ arrived' = [arrived EXCEPT ![i] = @ + 1]
      /\ call' = [call EXCEPT ![t] = i] /\ index' = [index EXCEPT ![t] = Index(i)]
      /\ UNCHANGED <<seen, queue, planned, plan, served, harvested, delivered, repeated, owed, carry>>
  BY DEF Take, Goto, Arrive, ghosts
<1>2. arrived[i] \in Nat /\ Index(i) = arrived[i] + 1 /\ Index(i) \in 1..NbFrames
  <2>1. arrived[i] \in 0..NbFrames
    BY DEF PoolTypes
  <2>2. sequencer[i] = arrived[i]
    BY <1>1 DEF Counted
  <2> QED BY <1>1, <2>1, <2>2 DEF Index
<1>3. /\ call'[t] = i /\ index'[t] = arrived[i] + 1 /\ arrived'[i] = arrived[i] + 1 /\ at'[t] = "indexed"
      /\ \A u \in Thread : u # t => at'[u] = at[u] /\ call'[u] = call[u] /\ index'[u] = index[u]
      /\ \A j \in Inv : j # i => arrived'[j] = arrived[j]
      /\ \A j \in Inv : arrived[j] <= arrived'[j] /\ arrived[j] \in Nat /\ arrived'[j] \in Nat
  BY <1>1, <1>2 DEF PoolTypes
<1>4. PoolTypes'
  <2>1. sequencer' \in [Inv -> Nat]
    BY DEF PoolTypes, Take, Arrive
  <2>2. arrived' \in [Inv -> 0..NbFrames]
    BY <1>1, <1>2 DEF PoolTypes
  <2>3. at' \in [Thread -> Step] /\ call' \in [Thread -> Inv] /\ index' \in [Thread -> 1..NbFrames]
    BY <1>1, <1>2 DEF PoolTypes, Step
  <2> QED
    BY <1>1, <2>1, <2>2, <2>3 DEF PoolTypes
<1>5. \A u \in Thread, j \in Inv : Serves(u, j)' <=> (u = t /\ j = i) \/ Serves(u, j)
  BY <1>1, <1>3 DEF Serves
<1>6. \A u \in Thread : Serves(u, i) => index[u] <= arrived[i]
  BY DEF InService, Serves
<1>7. \A u \in Thread : index[u] \in Nat /\ call[u] \in Inv
  BY DEF PoolTypes
<1>8. InService'
  <2> SUFFICES ASSUME NEW v \in Thread, at'[v] # "idle"
               PROVE  /\ index'[v] <= arrived'[call'[v]]
                      /\ \A u \in Thread : Serves(u, call[v])' /\ index'[u] = index'[v] => u = v
                      /\ call'[v] \in harvested => at'[v] = "indexed"
                      /\ at'[v] \in {"observed", "inside", "harvesting"} => index'[v] <= served[call'[v]]
    BY <1>1 DEF InService
  <2>1. CASE v = t
    BY <2>1, <1>2, <1>3, <1>5, <1>6, <1>7
  <2>2. CASE v # t
    <3>1. at[v] # "idle" /\ at'[v] = at[v] /\ call'[v] = call[v] /\ index'[v] = index[v]
      BY <2>2, <1>3
    <3>2. index[v] <= arrived[call[v]] /\ arrived[call[v]] <= arrived'[call[v]]
      BY <3>1, <1>3, <1>7 DEF InService
    <3>3. ASSUME NEW u \in Thread, Serves(u, call[v])', index'[u] = index'[v] PROVE u = v
      <4>1. CASE u = t
        BY <4>1, <3>1, <3>2, <3>3, <1>2, <1>3, <1>7 DEF Serves
      <4>2. CASE u # t
        BY <4>2, <3>1, <3>3, <1>3, <1>5, <1>7 DEF InService
      <4> QED BY <4>1, <4>2
    <3> QED BY <3>1, <3>2, <3>3, <1>3, <1>7 DEF InService
  <2> QED BY <2>1, <2>2
<1>9. Counted'
  <2> SUFFICES ASSUME NEW j \in Inv
               PROVE  /\ sequencer'[j] = IF arrived'[j] < NbFrames THEN arrived'[j] ELSE 0
                      /\ served[j] <= arrived'[j]
                      /\ j \in planned => served[j] > 0
                      /\ j \notin planned => \A k \in 1..arrived'[j] : \E u \in Thread : Serves(u, j)' /\ index'[u] = k
                      /\ j \notin harvested /\ served[j] # arrived'[j] =>
                           \E u \in Thread : Serves(u, j)' /\ index'[u] = arrived'[j] /\ at'[u] \in {"indexed", "asked"}
    BY <1>1 DEF Counted
  <2>0. served[j] \in Nat /\ served[j] <= arrived[j] /\ (j \in planned => served[j] > 0)
    BY DEF PoolTypes, Counted
  <2>1. CASE j = i
    <3>1. sequencer'[i] = IF arrived'[i] < NbFrames THEN arrived'[i] ELSE 0
      <4>1. sequencer[i] = arrived[i]
        BY <1>1 DEF Counted
      <4>2. sequencer' = [sequencer EXCEPT ![i] = IF @ + 1 < NbFrames THEN @ + 1 ELSE 0]
        BY DEF Take, Arrive
      <4>3. sequencer'[i] = IF sequencer[i] + 1 < NbFrames THEN sequencer[i] + 1 ELSE 0
        BY <4>2 DEF PoolTypes
      <4> QED
        BY <4>1, <4>3, <1>3
    <3>2. ASSUME i \notin planned, NEW k \in 1..arrived'[i] PROVE \E u \in Thread : Serves(u, i)' /\ index'[u] = k
      <4>1. CASE k = arrived[i] + 1
        BY <4>1, <1>3, <1>5
      <4>2. CASE k # arrived[i] + 1
        <5>1. k \in 1..arrived[i]
          BY <4>2, <1>2, <1>3
        <5>2. PICK u \in Thread : Serves(u, i) /\ index[u] = k
          BY <5>1, <3>2 DEF Counted
        <5> QED BY <5>2, <1>1, <1>3, <1>5 DEF Serves
      <4> QED BY <4>1, <4>2
    <3> QED BY <2>0, <2>1, <3>1, <3>2, <1>2, <1>3, <1>5
  <2>2. CASE j # i
    <3>1. sequencer'[j] = sequencer[j] /\ arrived'[j] = arrived[j]
      <4>1. sequencer' = [sequencer EXCEPT ![i] = IF @ + 1 < NbFrames THEN @ + 1 ELSE 0]
        BY DEF Take, Arrive
      <4> QED
        BY <4>1, <1>3, <2>2 DEF PoolTypes
    <3>2. \A u \in Thread : Serves(u, j) => u # t /\ Serves(u, j)' /\ index'[u] = index[u] /\ at'[u] = at[u]
      BY <1>1, <1>3, <1>5 DEF Serves
    <3> QED BY <2>0, <2>2, <3>1, <3>2 DEF Counted
  <2> QED BY <2>1, <2>2
<1>10. OneInside'
  BY <1>1, <1>3 DEF OneInside, Inside
<1>11. Owing' = Owing
  BY <1>1 DEF Owing
<1>12. Harvests' /\ OnePending'
  <2>1. ASSUME NEW v \in Thread, at'[v] = "harvesting", NEW o \in owed[v]
        PROVE  o[1] \notin harvested /\ (o[2] = arrived'[o[1]] \/ \E u \in Thread : Serves(u, o[1])')
    <3>1. v # t /\ at[v] = "harvesting" /\ o[1] \in Inv
      BY <2>1, <1>3 DEF PoolTypes
    <3>2. o[1] \notin harvested /\ (o[2] = arrived[o[1]] \/ \E u \in Thread : Serves(u, o[1]))
      BY <3>1 DEF Harvests
    <3> QED BY <3>1, <3>2, <1>3, <1>5
  <2>2. \A v \in Thread : /\ at'[v] = "harvesting" => at[v] = "harvesting" /\ call'[v] = call[v]
                          /\ at'[v] # "harvesting" => at[v] # "harvesting"
    BY <1>1, <1>3
  <2> QED BY <2>1, <2>2, <1>1, <1>11 DEF Harvests, OnePending
<1>13. \A j \in Answering : Left(j)' = Left(j)
  <2> SUFFICES ASSUME NEW j \in Inv, NEW k \in 1..NbFrames
               PROVE  (k > arrived'[j] \/ \E u \in Thread : Serves(u, j)' /\ index'[u] = k)
                        <=> (k > arrived[j] \/ \E u \in Thread : Serves(u, j) /\ index[u] = k)
    BY DEF Left, Answering, PoolTypes
  <2>1. \A u \in Thread : Serves(u, j) => u # t /\ index'[u] = index[u]
    BY <1>1, <1>3 DEF Serves
  <2>2. CASE j # i
    BY <2>1, <2>2, <1>3, <1>5
  <2>3. CASE j = i
    <3>1. k > arrived[i] <=> k > arrived'[i] \/ k = arrived[i] + 1
      BY <1>2, <1>3
    <3> QED BY <2>1, <2>3, <3>1, <1>3, <1>5
  <2> QED BY <2>2, <2>3
<1>14. OnePlaceEach'
  BY <1>1, <1>3, <1>4, <1>13, PlacesStay DEF Answering, PoolTypes
<1> QED
  BY <1>4, <1>8, <1>9, <1>10, <1>12, <1>14

\* The question: only a frame of a harvested invocation leaves.
LEMMA AskStep ==
  ASSUME Orderly, NEW t \in Thread, Ask(t)
  PROVE  Orderly'
<1> USE DEF Orderly
<1>1. /\ at[t] = "indexed"
      /\ at' = [at EXCEPT ![t] = IF call[t] \in harvested THEN "idle" ELSE "asked"]
      /\ UNCHANGED <<seen, queue, planned, plan, arrived, sequencer, served, harvested, delivered, repeated,
                     call, index, owed, carry>>
  BY DEF Ask, Goto, vars, tables, ghosts
<1>2. /\ at'[t] = IF call[t] \in harvested THEN "idle" ELSE "asked"
      /\ \A u \in Thread : u # t => at'[u] = at[u]
  BY <1>1 DEF PoolTypes
<1>3. PoolTypes'
  BY <1>1 DEF PoolTypes, Step
<1>4. /\ \A u \in Thread, j \in Inv : Serves(u, j)' => Serves(u, j)
      /\ \A u \in Thread, j \in Inv \ harvested : Serves(u, j)' <=> Serves(u, j)
  BY <1>1, <1>2 DEF Serves
<1>5. \A u \in Thread : call[u] \in Inv
  BY DEF PoolTypes
<1>6. InService'
  <2> SUFFICES ASSUME NEW v \in Thread, at'[v] # "idle"
               PROVE  /\ index[v] <= arrived[call[v]]
                      /\ \A u \in Thread : Serves(u, call[v])' /\ index[u] = index[v] => u = v
                      /\ call[v] \in harvested => at'[v] = "indexed"
                      /\ at'[v] \in {"observed", "inside", "harvesting"} => index[v] <= served[call[v]]
    BY <1>1 DEF InService
  <2>1. at[v] # "idle"
    BY <1>1, <1>2
  <2> QED BY <2>1, <1>1, <1>2, <1>4, <1>5 DEF InService
<1>7. Counted'
  <2>1. ASSUME NEW j \in Inv, j \notin planned, NEW k \in 1..arrived[j]
        PROVE  \E u \in Thread : Serves(u, j)' /\ index[u] = k
    <3>1. j \notin harvested
      BY <2>1 DEF PoolTypes
    <3>2. PICK u \in Thread : Serves(u, j) /\ index[u] = k
      BY <2>1 DEF Counted
    <3> QED BY <3>1, <3>2, <1>4
  <2>2. ASSUME NEW j \in Inv, j \notin harvested, served[j] # arrived[j]
        PROVE  \E u \in Thread : Serves(u, j)' /\ index[u] = arrived[j] /\ at'[u] \in {"indexed", "asked"}
    <3>1. PICK u \in Thread : Serves(u, j) /\ index[u] = arrived[j] /\ at[u] \in {"indexed", "asked"}
      BY <2>2 DEF Counted
    <3>2. at'[u] \in {"indexed", "asked"}
      BY <3>1, <2>2, <1>2 DEF Serves
    <3> QED BY <3>1, <3>2, <2>2, <1>4
  <2> QED BY <2>1, <2>2, <1>1 DEF Counted
<1>8. OneInside'
  BY <1>1, <1>2 DEF OneInside, Inside
<1>9. Owing' = Owing
  BY <1>1 DEF Owing
<1>10. Harvests' /\ OnePending'
  <2>1. ASSUME NEW v \in Thread, at[v] = "harvesting", NEW o \in owed[v]
        PROVE  o[1] \notin harvested /\ (o[2] = arrived[o[1]] \/ \E u \in Thread : Serves(u, o[1])')
    <3>1. o[1] \in Inv /\ o[1] \notin harvested
      BY <2>1 DEF Harvests, PoolTypes
    <3>2. o[2] = arrived[o[1]] \/ \E u \in Thread : Serves(u, o[1])
      BY <2>1 DEF Harvests
    <3> QED BY <3>1, <3>2, <1>4
  <2>2. \A v \in Thread : at'[v] = "harvesting" <=> at[v] = "harvesting"
    BY <1>1, <1>2
  <2> QED BY <2>1, <2>2, <1>1, <1>9 DEF Harvests, OnePending
<1>11. \A j \in Answering : arrived[j] <= arrived'[j] /\ Left(j)' = Left(j)
  BY <1>1, <1>4, DeliveryAssumption DEF Left, Answering, PoolTypes
<1>12. OnePlaceEach'
  BY <1>1, <1>3, <1>11, PlacesStay
<1> QED
  BY <1>3, <1>6, <1>7, <1>8, <1>10, <1>12

\* The note of an arrival: the highest index never overtakes the arrivals.
LEMMA NoteStep ==
  ASSUME Orderly, NEW t \in Thread, Note(t)
  PROVE  Orderly'
<1> USE DEF Orderly
<1> DEFINE i == call[t]
<1>1. /\ at[t] = "asked" /\ at' = [at EXCEPT ![t] = "observed"]
      /\ served' = [served EXCEPT ![i] = IF index[t] > @ THEN index[t] ELSE @]
      /\ UNCHANGED <<seen, queue, planned, plan, arrived, sequencer, harvested, delivered, repeated,
                     call, index, owed, carry>>
  BY DEF Note, Goto, ghosts
<1>2. /\ i \in Inv /\ at'[t] = "observed"
      /\ \A u \in Thread : u # t => at'[u] = at[u]
      /\ served'[i] = IF index[t] > served[i] THEN index[t] ELSE served[i]
      /\ \A j \in Inv : j # i => served'[j] = served[j]
  BY <1>1 DEF PoolTypes
<1>3. /\ \A u \in Thread : index[u] \in 1..NbFrames /\ index[u] \in Nat /\ call[u] \in Inv
      /\ \A j \in Inv : served[j] \in Nat /\ arrived[j] \in Nat /\ served[j] <= arrived[j]
  BY DeliveryAssumption DEF PoolTypes, Counted
<1>4. i \notin harvested /\ index[t] <= arrived[i]
  BY <1>1 DEF InService
<1> HIDE DEF i
<1>5. PoolTypes'
  BY <1>1, <1>2 DEF PoolTypes, Step
<1>6. \A u \in Thread, j \in Inv : Serves(u, j)' <=> Serves(u, j)
  BY <1>1, <1>2 DEF Serves
<1>7. \A j \in Inv : served[j] <= served'[j] /\ served'[j] \in Nat /\ served'[j] <= arrived[j]
  BY <1>2, <1>3, <1>4
<1>8. InService'
  <2> SUFFICES ASSUME NEW v \in Thread, at'[v] # "idle"
               PROVE  /\ index[v] <= arrived[call[v]]
                      /\ \A u \in Thread : Serves(u, call[v])' /\ index[u] = index[v] => u = v
                      /\ call[v] \in harvested => at'[v] = "indexed"
                      /\ at'[v] \in {"observed", "inside", "harvesting"} => index[v] <= served'[call[v]]
    BY <1>1 DEF InService
  <2>1. at[v] # "idle"
    BY <1>1, <1>2
  <2>2. /\ index[v] <= arrived[call[v]]
        /\ \A u \in Thread : Serves(u, call[v]) /\ index[u] = index[v] => u = v
        /\ call[v] \in harvested => at[v] = "indexed"
        /\ at[v] \in {"observed", "inside", "harvesting"} => index[v] <= served[call[v]]
    BY <2>1 DEF InService
  <2>3. \A u \in Thread : Serves(u, call[v])' <=> Serves(u, call[v])
    BY <1>1, <1>2 DEF Serves
  <2>4. call[v] \in harvested => at'[v] = "indexed"
    BY <2>2, <1>2, <1>4 DEF i
  <2>5. at'[v] \in {"observed", "inside", "harvesting"} => index[v] <= served'[call[v]]
    <3>1. CASE v = t
      BY <3>1, <1>2, <1>3 DEF i
    <3>2. CASE v # t
      BY <3>2, <2>2, <1>2, <1>3, <1>7
    <3> QED BY <3>1, <3>2
  <2> QED BY <2>2, <2>3, <2>4, <2>5, Zenon
<1>9. Counted'
  <2>1. ASSUME NEW j \in Inv, j \notin harvested, served'[j] # arrived[j]
        PROVE  \E u \in Thread : Serves(u, j)' /\ index[u] = arrived[j] /\ at'[u] \in {"indexed", "asked"}
    <3>1. served[j] # arrived[j]
      BY <2>1, <1>3, <1>7
    <3>2. PICK u \in Thread : Serves(u, j) /\ index[u] = arrived[j] /\ at[u] \in {"indexed", "asked"}
      BY <2>1, <3>1 DEF Counted
    <3>3. u # t
      <4>1. CASE u = t
        <5>1. j = i /\ served'[i] = arrived[i]
          BY <4>1, <3>2, <1>2, <1>3, <1>7 DEF Serves, i
        <5> QED BY <5>1, <2>1
      <4> QED BY <4>1
    <3> QED BY <3>2, <3>3, <1>2, <1>6
  <2>2. \A j \in planned : served'[j] > 0
    BY <1>3, <1>7 DEF Counted, PoolTypes
  <2>3. \A j \in Inv : j \notin planned => \A k \in 1..arrived[j] : \E u \in Thread : Serves(u, j)' /\ index[u] = k
    BY <1>6 DEF Counted
  <2> QED BY <2>1, <2>2, <2>3, <1>1, <1>7 DEF Counted
<1>10. OneInside'
  BY <1>1, <1>2 DEF OneInside, Inside
<1>11. Owing' \subseteq Owing
  <2>1. \A j \in planned : j \in Inv /\ (served'[j] < NbFrames => served[j] < NbFrames)
    BY <1>3, <1>7, DeliveryAssumption DEF PoolTypes
  <2> QED BY <2>1, <1>1 DEF Owing
<1>12. Harvests' /\ OnePending'
  <2>1. \A v \in Thread : at'[v] = "harvesting" <=> at[v] = "harvesting"
    BY <1>1, <1>2
  <2>2. \A v \in Thread : \A o \in owed[v] : o[1] \in Inv
    BY DEF PoolTypes
  <2> QED BY <2>1, <2>2, <1>1, <1>6, <1>11 DEF Harvests, OnePending
<1>13. \A j \in Answering : arrived[j] <= arrived'[j] /\ Left(j)' = Left(j)
  BY <1>1, <1>3, <1>6 DEF Left, Answering, PoolTypes
<1>14. OnePlaceEach'
  BY <1>1, <1>5, <1>13, PlacesStay
<1> QED
  BY <1>5, <1>8, <1>9, <1>10, <1>12, <1>14

\* The lock.
LEMMA EnterStep ==
  ASSUME Orderly, NEW t \in Thread, Enter(t)
  PROVE  Orderly'
<1> USE DEF Orderly
<1>1. /\ ~Locked /\ at[t] = "observed" /\ at' = [at EXCEPT ![t] = "inside"]
      /\ UNCHANGED <<seen, queue, planned, plan, arrived, sequencer, served, harvested, delivered, repeated,
                     call, index, owed, carry>>
  BY DEF Enter, Goto, vars, tables, ghosts
<1>2. at'[t] = "inside" /\ \A u \in Thread : u # t => at'[u] = at[u]
  BY <1>1 DEF PoolTypes
<1>3. PoolTypes'
  BY <1>1 DEF PoolTypes, Step
<1>4. \A u \in Thread, j \in Inv : Serves(u, j)' <=> Serves(u, j)
  BY <1>1, <1>2 DEF Serves
<1>5. \A u \in Thread : call[u] \in Inv
  BY DEF PoolTypes
<1>6. InService'
  BY <1>1, <1>2, <1>4, <1>5 DEF InService
<1>7. Counted'
  BY <1>1, <1>2, <1>4 DEF Counted
<1>8. OneInside'
  BY <1>1, <1>2 DEF OneInside, Inside, Locked
<1>9. Owing' = Owing
  BY <1>1 DEF Owing
<1>10. Harvests' /\ OnePending'
  <2>1. \A v \in Thread : at'[v] = "harvesting" <=> at[v] = "harvesting"
    BY <1>1, <1>2
  <2>2. \A v \in Thread : \A o \in owed[v] : o[1] \in Inv
    BY DEF PoolTypes
  <2> QED BY <2>1, <2>2, <1>1, <1>4, <1>9 DEF Harvests, OnePending
<1>11. \A j \in Answering : arrived[j] <= arrived'[j] /\ Left(j)' = Left(j)
  BY <1>1, <1>4, DeliveryAssumption DEF Left, Answering, PoolTypes
<1>12. OnePlaceEach'
  BY <1>1, <1>3, <1>11, PlacesStay
<1> QED
  BY <1>3, <1>6, <1>7, <1>8, <1>10, <1>12

---------------------------------------------------------------------------
(* The steps under the lock.                                                *)

\* The list of what is owed holds every invocation that owes frames.
LEMMA ListStep ==
  ASSUME Orderly, NEW t \in Thread, List(t)
  PROVE  Orderly'
<1> USE DEF Orderly
<1> DEFINE listed == {<<j, served[j]>> : j \in {j \in Inv \ {call[t]} :
                                    served[j] \in 1..NbFrames - 1 /\ j \notin harvested}}
<1>1. /\ at[t] = "inside" /\ at' = [at EXCEPT ![t] = "harvesting"] /\ call[t] \notin planned
      /\ owed' = [owed EXCEPT ![t] = listed] /\ carry' = [carry EXCEPT ![t] = <<>>]
      /\ UNCHANGED <<seen, queue, planned, plan, arrived, sequencer, served, harvested, delivered, repeated,
                     call, index>>
  BY DEF List, Goto, vars, tables, ghosts
<1>2. carry[t] = <<>> /\ carry' = carry
  <2>1. carry[t] = <<>>
    BY <1>1 DEF Harvests
  <2> QED BY <2>1, <1>1 DEF PoolTypes
<1>3. /\ at'[t] = "harvesting" /\ owed'[t] = listed
      /\ \A u \in Thread : u # t => at'[u] = at[u] /\ owed'[u] = owed[u] /\ at[u] # "harvesting"
  BY <1>1 DEF PoolTypes, OneInside, Inside
<1>4. listed \subseteq Inv \X (1..NbFrames - 1)
  OBVIOUS
<1>5. \A o \in listed : o[1] \in Inv /\ o[1] \notin harvested /\ o[2] = served[o[1]]
  OBVIOUS
<1>6. Owing' = Owing
  BY <1>1 DEF Owing
<1>7. \A j \in Owing : \E o \in listed : o[1] = j
  <2> SUFFICES ASSUME NEW j \in Owing PROVE <<j, served[j]>> \in listed
    OBVIOUS
  <2>1. j \in Inv /\ j \in planned /\ j \notin harvested /\ served[j] < NbFrames /\ served[j] > 0
    BY DEF Owing, PoolTypes, Counted
  <2>2. served[j] \in 1..NbFrames - 1 /\ j # call[t]
    BY <2>1, <1>1, DeliveryAssumption DEF PoolTypes
  <2> QED BY <2>1, <2>2
<1> HIDE DEF listed
<1>8. PoolTypes'
  BY <1>1, <1>2, <1>4 DEF PoolTypes, Step
<1>9. \A u \in Thread, j \in Inv : Serves(u, j)' <=> Serves(u, j)
  BY <1>1, <1>3 DEF Serves
<1>10. \A u \in Thread : call[u] \in Inv
  BY DEF PoolTypes
<1>11. InService'
  BY <1>1, <1>3, <1>9, <1>10 DEF InService
<1>12. Counted'
  BY <1>1, <1>3, <1>9 DEF Counted
<1>13. OneInside'
  BY <1>1, <1>3 DEF OneInside, Inside
<1>14. Harvests'
  <2>1. ASSUME NEW o \in listed
        PROVE  o[1] \notin harvested /\ (o[2] = arrived[o[1]] \/ \E u \in Thread : Serves(u, o[1])')
    BY <1>5, <1>9 DEF Counted
  <2>2. \A o, p \in listed : o[1] = p[1] => o = p
    BY DEF listed
  <2>3. Chunks(<<>>) \cap Chunks(queue) = {}
    BY EmptySegSeq
  <2>4. \A v \in Thread : at'[v] # "harvesting" => at[v] # "harvesting"
    BY <1>1, <1>3
  <2> QED BY <2>1, <2>2, <2>3, <2>4, <1>1, <1>2, <1>3, <1>6, <1>7 DEF Harvests
<1>15. \A j \in Answering : arrived[j] <= arrived'[j] /\ Left(j)' = Left(j)
  BY <1>1, <1>9, DeliveryAssumption DEF Left, Answering, PoolTypes
<1>16. OnePlaceEach' /\ OnePending'
  BY <1>1, <1>2, <1>6, <1>8, <1>15, PlacesStay DEF OnePending
<1> QED
  BY <1>8, <1>11, <1>12, <1>13, <1>14, <1>16

\* An invocation without a plan owes nothing.
LEMMA SkipStep ==
  ASSUME Orderly, NEW t \in Thread, at[t] = "harvesting", NEW o \in owed[t],
         owed' = [owed EXCEPT ![t] = @ \ {o}], Skip(t, o[1]), UNCHANGED <<at, call, index>>
  PROVE  Orderly'
<1> USE DEF Orderly
<1>1. /\ o[1] \notin planned
      /\ UNCHANGED <<seen, queue, planned, plan, arrived, sequencer, served, harvested, delivered, repeated,
                     at, call, index, carry>>
  BY DEF Skip, vars, tables, ghosts
<1>2. owed'[t] = owed[t] \ {o} /\ \A u \in Thread : u # t => owed'[u] = owed[u]
  BY DEF PoolTypes
<1>3. \A u \in Thread : owed'[u] \subseteq owed[u]
  BY <1>2
<1>4. PoolTypes'
  BY <1>1, <1>2 DEF PoolTypes
<1>5. \A u \in Thread, j \in Inv : Serves(u, j)' <=> Serves(u, j)
  BY <1>1 DEF Serves
<1>6. InService' /\ Counted' /\ OneInside'
  BY <1>1 DEF InService, Counted, OneInside, Serves
<1>7. Owing' = Owing
  BY <1>1 DEF Owing
<1>8. Harvests'
  <2>1. ASSUME NEW v \in Thread, at[v] = "harvesting", NEW p \in owed'[v]
        PROVE  p[1] \notin harvested /\ (p[2] = arrived[p[1]] \/ \E u \in Thread : Serves(u, p[1])')
    BY <2>1, <1>1, <1>3 DEF Harvests, Serves
  <2>2. ASSUME NEW v \in Thread, at[v] = "harvesting", NEW j \in Owing
        PROVE  \E p \in owed'[v] : p[1] = j
    <3>1. PICK p \in owed[v] : p[1] = j
      BY <2>2 DEF Harvests
    <3>2. p # o
      BY <3>1, <1>1 DEF Owing
    <3> QED BY <3>1, <3>2, <1>2
  <2>3. \A v \in Thread : at[v] = "harvesting" => \A p, q \in owed'[v] : p[1] = q[1] => p = q
    BY <1>3 DEF Harvests
  <2> QED BY <2>1, <2>2, <2>3, <1>1, <1>7 DEF Harvests
<1>9. \A j \in Answering : arrived[j] <= arrived'[j] /\ Left(j)' = Left(j)
  BY <1>1, <1>5, DeliveryAssumption DEF Left, Answering, PoolTypes
<1>10. OnePlaceEach' /\ OnePending'
  BY <1>1, <1>4, <1>7, <1>9, PlacesStay DEF OnePending
<1> QED
  BY <1>4, <1>6, <1>8, <1>10

\* The chunks of the frames left that a thread answers with go to the agent.
LEMMA ReplayStep ==
  ASSUME Orderly, NEW t \in Thread, Replay(t)
  PROVE  Orderly'
<1> USE DEF Orderly
<1>0. PICK i \in Inv, k \in 1..NbFrames : i = call[t] /\ k = index[t]
  BY DEF PoolTypes
<1> DEFINE C == Frame(plan[i], k)
<1>1. /\ at[t] = "inside" /\ at' = [at EXCEPT ![t] = "idle"] /\ i \in planned
      /\ delivered' = delivered \cup C
      /\ repeated' = repeated \cup (C \cap delivered \cap OnceChunks)
      /\ UNCHANGED <<seen, queue, planned, plan, arrived, sequencer, served, harvested,
                     call, index, owed, carry>>
  BY <1>0 DEF Replay, Goto, Hand, tables
<1>2. at'[t] = "idle" /\ \A u \in Thread : u # t => at'[u] = at[u]
  BY <1>1 DEF PoolTypes
<1>3. i \in Inv /\ i \in Answering /\ k \in 1..NbFrames /\ k <= arrived[i] /\ plan[i] \in SegSeq
  BY <1>0, <1>1 DEF PoolTypes, InService, Answering
<1>4. k \in Left(i) /\ \A u \in Thread : Serves(u, i) /\ index[u] = k => u = t
  BY <1>0, <1>1, <1>3 DEF Left, Serves, InService
<1>5. PoolTypes'
  BY <1>1 DEF PoolTypes, Step
<1>6. \A u \in Thread, j \in Inv : Serves(u, j)' <=> u # t /\ Serves(u, j)
  BY <1>1, <1>2 DEF Serves
<1>7. \A u \in Thread : call[u] \in Inv /\ (u # t => at[u] # "harvesting")
  BY <1>1 DEF PoolTypes, OneInside, Inside
<1>8. \A j \in Inv : Serves(t, j) => j = i
  BY <1>0 DEF Serves
<1>9. InService'
  <2>1. \A v \in Thread : at'[v] # "idle" => v # t /\ at[v] # "idle" /\ at'[v] = at[v]
    BY <1>2
  <2> QED BY <2>1, <1>1, <1>6, <1>7 DEF InService
<1>10. Counted'
  <2>1. ASSUME NEW j \in Inv, j \notin planned, NEW m \in 1..arrived[j]
        PROVE  \E u \in Thread : Serves(u, j)' /\ index[u] = m
    <3>1. PICK u \in Thread : Serves(u, j) /\ index[u] = m
      BY <2>1 DEF Counted
    <3> QED BY <3>1, <2>1, <1>1, <1>6, <1>8
  <2>2. ASSUME NEW j \in Inv, j \notin harvested, served[j] # arrived[j]
        PROVE  \E u \in Thread : Serves(u, j)' /\ index[u] = arrived[j] /\ at'[u] \in {"indexed", "asked"}
    <3>1. PICK u \in Thread : Serves(u, j) /\ index[u] = arrived[j] /\ at[u] \in {"indexed", "asked"}
      BY <2>2 DEF Counted
    <3> QED BY <3>1, <1>1, <1>2, <1>6
  <2> QED BY <2>1, <2>2, <1>1 DEF Counted
<1>11. OneInside'
  BY <1>1, <1>2 DEF OneInside, Inside
<1>12. Owing' = Owing /\ Answering' = Answering /\ Still' = Still
  BY <1>1 DEF Owing, Answering, Still
<1>13. Harvests' /\ OnePending'
  <2>1. \A v \in Thread : at'[v] # "harvesting" /\ carry[v] = <<>>
    BY <1>1, <1>2, <1>7 DEF Harvests
  <2> QED BY <2>1, <1>1, <1>12 DEF Harvests, OnePending
<1>14. /\ Left(i)' = Left(i) \ {k}
       /\ \A j \in Answering : j # i => Left(j)' = Left(j)
  <2>1. ASSUME NEW m \in 1..NbFrames, NEW j \in Inv
        PROVE  (m > arrived[j] \/ \E u \in Thread : Serves(u, j)' /\ index[u] = m)
                 <=> (m > arrived[j] \/ \E u \in Thread : Serves(u, j) /\ index[u] = m) /\ ~(j = i /\ m = k)
    <3>1. CASE j # i
      BY <3>1, <1>6, <1>8
    <3>2. CASE j = i /\ m # k
      <4>1. \A u \in Thread : Serves(u, i) /\ index[u] = m => u # t
        BY <3>2, <1>0
      <4> QED BY <3>2, <4>1, <1>6
    <3>3. CASE j = i /\ m = k
      <4>1. ~(k > arrived[i])
        BY <1>3, DeliveryAssumption DEF PoolTypes
      <4> QED BY <3>3, <4>1, <1>4, <1>6
    <3> QED BY <3>1, <3>2, <3>3
  <2>2. Answering \subseteq Inv
    BY DEF Answering, PoolTypes
  <2> QED BY <2>1, <2>2, <1>1, <1>3 DEF Left
<1>15. /\ Content(i) = Content(i)' \cup C /\ Content(i)' \cap C = {}
       /\ \A j \in Answering : j # i => Content(j)' = Content(j)
  <2>1. \A m \in Left(i)' : m \in 1..NbFrames /\ m # k
    BY <1>14 DEF Left
  <2>2. \A m \in Left(i)' : Frame(plan[i], m) \cap C = {}
    BY <2>1, <1>3, FramesOfList DEF C
  <2>3. Content(i)' = UNION {Frame(plan[i], m) : m \in Left(i)'}
    BY <1>1 DEF Content, Frame, Between
  <2>4. \A j \in Answering : j # i => Content(j)' = Content(j)
    BY <1>1, <1>14 DEF Content, Frame, Between
  <2>5. Content(i) = UNION {Frame(plan[i], m) : m \in Left(i)}
    BY DEF Content
  <2> QED BY <2>2, <2>3, <2>4, <2>5, <1>4, <1>14 DEF C
<1>16. Moving = Moving' \cup C /\ C \subseteq Content(i) /\ C \subseteq Moving
  <2>1. \A j \in Answering : Content(j)' \subseteq Content(j)
    BY <1>15
  <2>2. Content(i) \subseteq Moving
    BY <1>3 DEF Moving
  <2>3. Moving' = UNION {Content(j)' : j \in Answering}
    BY <1>12 DEF Moving
  <2>4. ASSUME NEW c \in Moving PROVE c \in Moving' \cup C
    <3>1. PICK j \in Answering : c \in Content(j)
      BY DEF Moving
    <3> QED BY <3>1, <2>3, <1>3, <1>15
  <2>5. Moving' \subseteq Moving
    BY <2>1, <2>3 DEF Moving
  <2> QED BY <2>2, <2>4, <2>5, <1>15
<1>17. C \cap Moving' \cap OnceChunks = {}
  <2>1. ASSUME NEW c \in C \cap OnceChunks, NEW j \in Answering PROVE c \notin Content(j)'
    <3>1. CASE j = i
      BY <3>1, <1>15
    <3>2. CASE j # i
      <4>1. Content(i) \cap Content(j) \cap OnceChunks = {}
        BY <3>2, <1>3 DEF OnePlaceEach
      <4> QED BY <4>1, <3>2, <1>15
    <3> QED BY <3>1, <3>2
  <2>2. Moving' = UNION {Content(j)' : j \in Answering}
    BY <1>12 DEF Moving
  <2> QED BY <2>1, <2>2
<1> HIDE DEF C
<1>18. OnePlaceEach'
  <2>1. \A j \in Answering : \A m \in 1..NbFrames :
          m > arrived[j] => Chunks(queue) \cap Frame(plan[j], m) = {}
    BY DEF OnePlaceEach
  <2>2. \A j, l \in Answering : j # l => Content(j)' \cap Content(l)' \cap OnceChunks = {}
    <3>1. \A j \in Answering : Content(j)' \subseteq Content(j)
      BY <1>15
    <3> QED BY <3>1 DEF OnePlaceEach
  <2>3. OnceChunks \cap Moving' \cap Still = {} /\ C \cap Still \cap OnceChunks = {}
    BY <1>16 DEF OnePlaceEach
  <2>4. OnceChunks \cap delivered \cap (Still \cup Moving) = {}
    BY DEF OnePlaceEach
  <2>5. repeated' = {}
    BY <2>4, <1>1, <1>16 DEF OnePlaceEach
  <2>6. OnceChunks \cap delivered' \cap (Still \cup Moving') = {}
    BY <2>3, <2>4, <1>1, <1>16, <1>17
  <2>7. /\ \A c \in OnceChunks : DocOf[c] \notin seen => c \notin delivered' \cup Still \cup Moving'
        /\ ChunksOf(seen) \subseteq delivered' \cup Still \cup Moving'
    BY <1>1, <1>16 DEF OnePlaceEach
  <2> QED BY <2>1, <2>2, <2>3, <2>5, <2>6, <2>7, <1>1, <1>12 DEF OnePlaceEach, Frame, Between
<1> QED
  BY <1>5, <1>9, <1>10, <1>11, <1>13, <1>18

\* A harvest that crosses no thread takes over all the frames that are left.
LEMMA HarvestStep ==
  ASSUME Orderly, NEW t \in Thread, at[t] = "harvesting", NEW o \in owed[t],
         owed' = [owed EXCEPT ![t] = @ \ {o}], Harvest(t, o[1], o[2]), UNCHANGED <<at, call, index>>,
         ~crossed'
  PROVE  Orderly'
<1> USE DEF Orderly
<1>0. PICK j \in Inv, k \in 1..NbFrames - 1 : o = <<j, k>>
  BY DEF PoolTypes
<1> DEFINE taken == Unserved(plan[j], k)
<1>1. /\ j \in planned /\ carry' = [carry EXCEPT ![t] = @ \o taken] /\ harvested' = harvested \cup {j}
      /\ \A u \in Thread : ~Serves(u, j)
      /\ UNCHANGED <<seen, queue, planned, plan, arrived, sequencer, served, delivered, repeated>>
  BY <1>0 DEF Harvest, Serves, ghosts
<1>2. j \notin harvested /\ k = arrived[j] /\ served[j] = k
  BY <1>0, <1>1 DEF Harvests, Counted
<1>3. k \in 1..NbFrames /\ k \in 0..NbFrames /\ k < NbFrames /\ plan[j] \in SegSeq
  BY DeliveryAssumption DEF PoolTypes
<1>4. Owing = {j} /\ j \in Answering
  BY <1>1, <1>2, <1>3 DEF Owing, Answering, OnePending
<1>5. \A u \in Thread : carry[u] = <<>> /\ (u # t => at[u] # "harvesting")
  BY <1>4 DEF Harvests, OneInside, Inside
<1>6. Left(j) = k + 1 .. NbFrames
  BY <1>1, <1>2, <1>3, DeliveryAssumption DEF Left
<1>7. /\ taken \in SegSeq /\ Chunks(taken) = Content(j)
  <2>1. taken \in SegSeq /\ Chunks(taken) = Between(plan[j], Through(plan[j], k), Through(plan[j], NbFrames))
    BY <1>3, Pieces
  <2>2. Between(plan[j], Through(plan[j], k), Through(plan[j], NbFrames))
          = UNION {Frame(plan[j], m) : m \in k + 1 .. NbFrames}
    BY <1>3, FramesCover
  <2> QED BY <2>1, <2>2, <1>6 DEF Content
<1>8. carry'[t] = taken /\ \A u \in Thread : u # t => carry'[u] = <<>>
  <2>1. <<>> \o taken = taken
    BY <1>7, SegSeqSeq
  <2> QED BY <2>1, <1>1, <1>5 DEF PoolTypes
<1> HIDE DEF taken
<1>9. owed'[t] = owed[t] \ {o} /\ \A u \in Thread : u # t => owed'[u] = owed[u]
  BY DEF PoolTypes
<1>10. PoolTypes'
  <2>1. carry' \in [Thread -> SegSeq]
    BY <1>1, <1>7, <1>8, EmptySegSeq DEF PoolTypes
  <2>2. owed' \in [Thread -> SUBSET (Inv \X (1..NbFrames - 1))]
    BY DEF PoolTypes
  <2> QED BY <2>1, <2>2, <1>1 DEF PoolTypes
<1>11. \A u \in Thread, i \in Inv : Serves(u, i)' <=> Serves(u, i)
  BY DEF Serves
<1>12. InService'
  <2>1. \A u \in Thread : call[u] \in Inv /\ (at[u] # "idle" => call[u] # j)
    BY <1>1 DEF PoolTypes, Serves
  <2> QED BY <2>1, <1>1, <1>11 DEF InService
<1>13. Counted' /\ OneInside'
  BY <1>1, <1>11 DEF Counted, OneInside
<1>14. Owing' = {} /\ Answering' = Answering \ {j}
  <2>1. Owing' = Owing \ {j}
    BY <1>1 DEF Owing
  <2> QED BY <2>1, <1>1, <1>4 DEF Answering
<1>15. Chunks(taken) \cap Chunks(queue) = {}
  <2>1. \A m \in Left(j) : m \in 1..NbFrames /\ m > arrived[j]
    BY <1>2, <1>3, <1>6, DeliveryAssumption
  <2>2. \A m \in Left(j) : Chunks(queue) \cap Frame(plan[j], m) = {}
    BY <2>1, <1>4 DEF OnePlaceEach
  <2> QED BY <2>2, <1>7 DEF Content
<1>16. Harvests' /\ OnePending'
  <2>1. ASSUME NEW p \in owed'[t]
        PROVE  p[1] \notin harvested' /\ (p[2] = arrived[p[1]] \/ \E u \in Thread : Serves(u, p[1])')
    <3>1. p \in owed[t] /\ p # o /\ p[1] \in Inv
      BY <2>1, <1>9 DEF PoolTypes
    <3>2. p[1] # j
      BY <3>1, <1>0 DEF Harvests
    <3>3. p[1] \notin harvested /\ (p[2] = arrived[p[1]] \/ \E u \in Thread : Serves(u, p[1]))
      BY <3>1 DEF Harvests
    <3> QED BY <3>1, <3>2, <3>3, <1>1, <1>11
  <2>2. call[t] \notin planned /\ \A p, q \in owed'[t] : p[1] = q[1] => p = q
    BY <1>9 DEF Harvests
  <2> QED BY <2>1, <2>2, <1>1, <1>5, <1>8, <1>14, <1>15 DEF Harvests, OnePending
<1>17. \A i \in Answering : Content(i)' = Content(i)
  <2>1. \A i \in Answering : Left(i)' = Left(i)
    BY <1>1, <1>11 DEF Left, Answering, PoolTypes
  <2> QED BY <2>1, <1>1 DEF Content, Frame, Between
<1>18. Still' = Still \cup Content(j)
  <2>1. \A u \in Thread : Chunks(carry[u]) = {} /\ Chunks(carry'[u]) = IF u = t THEN Content(j) ELSE {}
    BY <1>5, <1>7, <1>8, EmptySegSeq
  <2>2. Still = Chunks(queue)
    BY <2>1 DEF Still
  <2>3. Still' = Chunks(queue) \cup UNION {Chunks(carry'[u]) : u \in Thread}
    BY <1>1 DEF Still
  <2>4. UNION {Chunks(carry'[u]) : u \in Thread} = Content(j)
    BY <2>1
  <2> QED BY <2>2, <2>3, <2>4
<1>19. /\ Moving = Moving' \cup Content(j)
       /\ Moving' \cap Content(j) \cap OnceChunks = {}
  <2>1. Moving' = UNION {Content(i) : i \in Answering \ {j}}
    BY <1>14, <1>17 DEF Moving
  <2>2. \A i \in Answering \ {j} : Content(i) \cap Content(j) \cap OnceChunks = {}
    BY <1>4 DEF OnePlaceEach
  <2> QED BY <2>1, <2>2, <1>4 DEF Moving
<1>20. OnePlaceEach'
  <2>1. \A i \in Answering' : \A m \in 1..NbFrames :
          m > arrived[i] => Chunks(queue) \cap Frame(plan[i], m) = {}
    BY <1>14 DEF OnePlaceEach
  <2>2. \A i, l \in Answering' : i # l => Content(i)' \cap Content(l)' \cap OnceChunks = {}
    BY <1>14, <1>17 DEF OnePlaceEach
  <2>3. OnceChunks \cap Moving' \cap Still' = {} /\ Still' \cup Moving' = Still \cup Moving
    BY <1>18, <1>19 DEF OnePlaceEach
  <2> QED BY <2>1, <2>2, <2>3, <1>1 DEF OnePlaceEach, Frame, Between
<1> QED
  BY <1>10, <1>12, <1>13, <1>16, <1>20

\* The decision places each chunk it gathers: handed over, in a frame left, deferred.
LEMMA DecideStep ==
  ASSUME Orderly, NEW t \in Thread, NEW M \in SUBSET Doc, Decide(t, M)
  PROVE  Orderly'
<1> USE DEF Orderly
<1>0. PICK i \in Inv, k \in 1..NbFrames : i = call[t] /\ k = index[t]
  BY DEF PoolTypes
<1> DEFINE inherited == queue \o carry[t]
           new == (M \ seen) \cap Once
           segments == OrderSegments(inherited, M \ seen)
           C == Frame(segments, k)
<1>1. /\ at[t] = "harvesting" /\ at' = [at EXCEPT ![t] = "idle"] /\ owed[t] = {}
      /\ queue' = Deferred(segments) /\ seen' = seen \cup new
      /\ planned' = planned \cup {i} /\ plan' = [plan EXCEPT ![i] = segments]
      /\ carry' = [carry EXCEPT ![t] = <<>>]
      /\ delivered' = delivered \cup C
      /\ repeated' = repeated \cup (C \cap delivered \cap OnceChunks)
      /\ UNCHANGED <<arrived, sequencer, served, harvested, call, index, owed>>
  BY <1>0 DEF Decide, Goto, Hand, tables
<1>2. /\ at'[t] = "idle" /\ carry'[t] = <<>> /\ plan'[i] = segments
      /\ \A u \in Thread : u # t => at'[u] = at[u] /\ at[u] # "harvesting" /\ carry[u] = <<>> /\ carry'[u] = <<>>
      /\ \A j \in Inv : j # i => plan'[j] = plan[j]
  BY <1>1 DEF PoolTypes, OneInside, Inside, Harvests
<1>3. Owing = {} /\ i \notin planned /\ i \notin harvested
  BY <1>0, <1>1 DEF Harvests, PoolTypes
<1>4. inherited \in SegSeq /\ Chunks(inherited) = Still
  <2>1. queue \in SegSeq /\ carry[t] \in SegSeq /\ Chunks(queue) \cap Chunks(carry[t]) = {}
    BY <1>1 DEF PoolTypes, Harvests
  <2>2. \A u \in Thread : u # t => Chunks(carry[u]) = {}
    BY <1>2, EmptySegSeq
  <2>3. Still = Chunks(queue) \cup Chunks(carry[t])
    BY <2>2 DEF Still
  <2> QED BY <2>1, <2>3, ConcatSegSeq
<1> HIDE DEF inherited
<1>5. \A c \in OnceChunks : DocOf[c] \notin seen => c \notin delivered \cup Still \cup Moving
  BY DEF OnePlaceEach
<1>6. /\ segments \in SegSeq /\ Still \subseteq Chunks(segments)
      /\ ChunksOf(new) \subseteq Chunks(segments)
      /\ Chunks(segments) \subseteq Still \cup ChunksOf(M \ seen)
  <2>1. \A c \in Chunks(inherited) \cap OnceChunks : DocOf[c] \in seen
    BY <1>4, <1>5
  <2> QED BY <2>1, <1>4, Ordered
<1> HIDE DEF segments
<1>7. Chunks(segments) \cap OnceChunks \cap (delivered \cup Moving) = {}
  <2>1. OnceChunks \cap Still \cap (delivered \cup Moving) = {}
    BY DEF OnePlaceEach
  <2>2. OnceChunks \cap ChunksOf(M \ seen) \cap (delivered \cup Moving) = {}
    BY <1>5 DEF ChunksOf
  <2> QED BY <2>1, <2>2, <1>6
<1>8. PoolTypes'
  BY <1>1, <1>3, <1>6, FramesOfList, EmptySegSeq DEF PoolTypes, Step
<1>9. /\ \A u \in Thread, j \in Inv : Serves(u, j)' <=> u # t /\ Serves(u, j)
      /\ \A j \in Inv : Serves(t, j) <=> j = i
      /\ \A u \in Thread : Serves(u, i) /\ index[u] = k => u = t
      /\ k <= arrived[i] /\ k <= served[i]
  BY <1>0, <1>1, <1>2 DEF Serves, InService, PoolTypes
<1>10. InService'
  <2>1. \A v \in Thread : at'[v] # "idle" => v # t /\ at[v] # "idle" /\ at'[v] = at[v] /\ call[v] \in Inv
    BY <1>2 DEF PoolTypes
  <2> QED BY <2>1, <1>1, <1>9 DEF InService
<1>11. Counted'
  <2>1. ASSUME NEW j \in Inv, j \notin planned', NEW m \in 1..arrived[j]
        PROVE  \E u \in Thread : Serves(u, j)' /\ index[u] = m
    <3>1. j \notin planned /\ j # i
      BY <2>1, <1>1
    <3>2. PICK u \in Thread : Serves(u, j) /\ index[u] = m
      BY <2>1, <3>1 DEF Counted
    <3> QED BY <3>1, <3>2, <1>9
  <2>2. ASSUME NEW j \in Inv, j \notin harvested, served[j] # arrived[j]
        PROVE  \E u \in Thread : Serves(u, j)' /\ index[u] = arrived[j] /\ at'[u] \in {"indexed", "asked"}
    <3>1. PICK u \in Thread : Serves(u, j) /\ index[u] = arrived[j] /\ at[u] \in {"indexed", "asked"}
      BY <2>2 DEF Counted
    <3> QED BY <3>1, <1>1, <1>2, <1>9
  <2>3. served[i] > 0
    BY <1>9, DeliveryAssumption DEF PoolTypes
  <2>4. \A j \in Inv : j \in planned' => served[j] > 0
    BY <2>3, <1>1 DEF Counted
  <2> QED BY <2>1, <2>2, <2>4, <1>1 DEF Counted
<1>12. OneInside'
  BY <1>1, <1>2 DEF OneInside, Inside
<1>13. Harvests' /\ OnePending'
  <2>1. \A v \in Thread : at'[v] # "harvesting" /\ carry'[v] = <<>>
    BY <1>2
  <2>2. Owing' \subseteq {i}
    BY <1>1, <1>3 DEF Owing
  <2> QED BY <2>1, <2>2 DEF Harvests, OnePending
<1>14. Answering' = Answering \cup {i} /\ i \notin Answering
  BY <1>1, <1>3 DEF Answering
<1>15. Left(i)' = (1..NbFrames) \ {k}
  <2>1. ASSUME NEW m \in 1..NbFrames
        PROVE  (m > arrived[i] \/ \E u \in Thread : Serves(u, i)' /\ index[u] = m) <=> m # k
    <3>1. arrived[i] \in Nat
      BY DEF PoolTypes
    <3>2. CASE m = k
      BY <3>1, <3>2, <1>9, DeliveryAssumption
    <3>3. CASE m # k /\ ~(m > arrived[i])
      <4>1. m \in 1..arrived[i]
        BY <3>1, <3>3
      <4>2. PICK u \in Thread : Serves(u, i) /\ index[u] = m
        BY <4>1, <1>3 DEF Counted
      <4>3. u # t
        BY <4>2, <3>3, <1>0
      <4> QED BY <4>2, <4>3, <3>3, <1>9
    <3> QED BY <3>2, <3>3
  <2> QED BY <2>1, <1>1 DEF Left
<1>16. \A j \in Answering : Content(j)' = Content(j)
  <2>1. \A j \in Answering : j \in Inv /\ j # i
    BY <1>14 DEF Answering, PoolTypes
  <2>2. \A j \in Answering : Left(j)' = Left(j)
    BY <2>1, <1>1, <1>9 DEF Left
  <2> QED BY <2>1, <2>2, <1>2 DEF Content, Frame, Between
<1> DEFINE rest == UNION {Frame(segments, m) : m \in (1..NbFrames) \ {k}}
<1>17. Content(i)' = rest
  BY <1>2, <1>15 DEF Content, Frame, Between
<1>18. /\ Chunks(segments) = Chunks(Deferred(segments)) \cup C \cup rest
       /\ C \cap rest = {} /\ C \cap Chunks(Deferred(segments)) = {}
       /\ rest \cap Chunks(Deferred(segments)) = {}
       /\ \A m \in 1..NbFrames : Frame(segments, m) \cap Chunks(Deferred(segments)) = {}
  BY <1>6, FramesOfList
<1> HIDE DEF rest, C
<1>19. Moving' = Moving \cup rest
  <2>1. Moving' = UNION {Content(j)' : j \in Answering \cup {i}}
    BY <1>14 DEF Moving
  <2> QED BY <2>1, <1>16, <1>17 DEF Moving
<1>20. Still' = Chunks(Deferred(segments))
  <2>1. \A u \in Thread : Chunks(carry'[u]) = {}
    BY <1>2, EmptySegSeq
  <2>2. Still' = Chunks(queue') \cup UNION {Chunks(carry'[u]) : u \in Thread}
    BY DEF Still, Chunks
  <2> QED BY <2>1, <2>2, <1>1
<1>21. OnePlaceEach'
  <2>1. ASSUME NEW j \in Answering', NEW m \in 1..NbFrames, m > arrived'[j]
        PROVE  Chunks(queue)' \cap Frame(plan[j], m)' = {}
    <3>1. CASE j = i
      <4>1. Chunks(queue)' = Chunks(Deferred(segments))
        BY <1>1 DEF Chunks
      <4>2. Frame(plan[j], m)' = Frame(segments, m)
        BY <3>1, <1>2 DEF Frame, Between
      <4> QED BY <4>1, <4>2, <1>18
    <3>2. CASE j # i
      <4>1. j \in Inv /\ j \in Answering
        BY <3>2, <1>14 DEF Answering, PoolTypes
      <4>2. served[j] \in 0..NbFrames /\ served[j] <= arrived[j] /\ arrived[j] \in 0..NbFrames
        BY <4>1 DEF PoolTypes, Counted
      <4>3. ~(served[j] < NbFrames)
        BY <4>1, <1>3 DEF Owing, Answering
      <4> QED BY <4>2, <4>3, <2>1, <1>1, DeliveryAssumption
    <3> QED BY <3>1, <3>2
  <2>2. ASSUME NEW j \in Answering', NEW l \in Answering', j # l
        PROVE  Content(j)' \cap Content(l)' \cap OnceChunks = {}
    <3>1. \A n \in Answering : Content(n) \subseteq Moving
      BY DEF Moving
    <3>2. CASE j = i
      BY <3>1, <3>2, <2>2, <1>7, <1>14, <1>16, <1>17, <1>18
    <3>3. CASE l = i
      BY <3>1, <3>3, <2>2, <1>7, <1>14, <1>16, <1>17, <1>18
    <3>4. CASE j # i /\ l # i
      BY <3>4, <2>2, <1>14, <1>16 DEF OnePlaceEach
    <3> QED BY <3>2, <3>3, <3>4
  <2>3. OnceChunks \cap Moving' \cap Still' = {}
    BY <1>7, <1>18, <1>19, <1>20
  <2>4. OnceChunks \cap delivered' \cap (Still' \cup Moving') = {}
    <3>1. OnceChunks \cap delivered \cap Moving = {}
      BY DEF OnePlaceEach
    <3> QED BY <3>1, <1>1, <1>7, <1>18, <1>19, <1>20
  <2>5. repeated' = {}
    BY <1>1, <1>7, <1>18 DEF OnePlaceEach
  <2>6. ASSUME NEW c \in OnceChunks, DocOf[c] \notin seen' PROVE c \notin delivered' \cup Still' \cup Moving'
    <3>1. DocOf[c] \notin seen /\ c \notin ChunksOf(M \ seen)
      BY <2>6, <1>1 DEF OnceChunks, ChunksOf
    <3>2. c \notin delivered \cup Still \cup Moving
      BY <3>1, <1>5
    <3>3. c \notin Chunks(segments)
      BY <3>1, <3>2, <1>6
    <3> QED BY <3>2, <3>3, <1>1, <1>18, <1>19, <1>20
  <2>7. ChunksOf(seen') \subseteq delivered' \cup Still' \cup Moving'
    <3>1. ChunksOf(seen') = ChunksOf(seen) \cup ChunksOf(new)
      BY <1>1 DEF ChunksOf
    <3>2. ChunksOf(seen) \subseteq delivered \cup Still \cup Moving
      BY DEF OnePlaceEach
    <3>3. Chunks(segments) \subseteq delivered' \cup Still' \cup Moving'
      BY <1>1, <1>18, <1>19, <1>20
    <3> QED BY <3>1, <3>2, <3>3, <1>1, <1>6, <1>19
  <2> QED BY <2>1, <2>2, <2>3, <2>4, <2>5, <2>6, <2>7 DEF OnePlaceEach, ChunksOf
<1> QED
  BY <1>8, <1>10, <1>11, <1>12, <1>13, <1>21

---------------------------------------------------------------------------
(* The invariant of the pool, and what it says of the content.              *)

LEMMA PoolStep == PoolInv /\ [PoolNext]_poolVars => PoolInv'
<1> SUFFICES ASSUME PoolInv, [PoolNext]_poolVars PROVE PoolInv'
  OBVIOUS
<1>1. ASSUME NEW t \in Thread, NEW i \in Inv, Take(t, i) PROVE PoolInv'
  BY <1>1, TakeStep DEF PoolInv, Calm, Take
<1>2. ASSUME NEW t \in Thread, Ask(t) PROVE PoolInv'
  BY <1>2, AskStep DEF PoolInv, Calm, Ask, vars
<1>3. ASSUME NEW t \in Thread, Note(t) PROVE PoolInv'
  BY <1>3, NoteStep DEF PoolInv, Calm, Note
<1>4. ASSUME NEW t \in Thread, Enter(t) PROVE PoolInv'
  BY <1>4, EnterStep DEF PoolInv, Calm, Enter, vars
<1>5. ASSUME NEW t \in Thread, Replay(t) PROVE PoolInv'
  BY <1>5, ReplayStep DEF PoolInv, Calm, Replay
<1>6. ASSUME NEW t \in Thread, List(t) PROVE PoolInv'
  BY <1>6, ListStep DEF PoolInv, Calm, List, vars
<1>7. ASSUME NEW t \in Thread, LookAt(t) PROVE PoolInv'
  <2>1. PICK o \in owed[t] : /\ owed' = [owed EXCEPT ![t] = @ \ {o}]
                             /\ Skip(t, o[1]) \/ Harvest(t, o[1], o[2])
    BY <1>7 DEF LookAt
  <2>2. at[t] = "harvesting" /\ UNCHANGED <<at, call, index>>
    BY <1>7 DEF LookAt
  <2>3. CASE Skip(t, o[1])
    BY <2>1, <2>2, <2>3, SkipStep DEF PoolInv, Calm, Skip, vars
  <2>4. CASE Harvest(t, o[1], o[2])
    <3>1. timeouts' = timeouts /\ (~crossed' => ~crossed)
      BY <2>4 DEF Harvest
    <3>2. ASSUME Calm' PROVE Orderly'
      BY <3>1, <3>2, <2>1, <2>2, <2>4, HarvestStep DEF PoolInv, Calm
    <3> QED BY <3>1, <3>2 DEF PoolInv
  <2> QED BY <2>1, <2>3, <2>4
<1>8. ASSUME NEW t \in Thread, NEW M \in SUBSET Doc, Decide(t, M) PROVE PoolInv'
  BY <1>8, DecideStep DEF PoolInv, Calm, Decide
<1>9. ASSUME NEW t \in Thread, NEW M \in SUBSET Doc, GiveUp(t, M) PROVE PoolInv'
  BY <1>9 DEF PoolInv, Calm, GiveUp
<1>10. CASE UNCHANGED poolVars
  <2>1. Orderly' = Orderly
    BY <1>10 DEF poolVars, threads, vars, tables, ghosts, Orderly, PoolTypes, InService, Counted, OneInside, Inside,
         Harvests, OnePending, Owing, OnePlaceEach, Answering, Content, Left, Serves, Moving, Still, Chunks,
         Frame, Between, ChunksOf
  <2> QED BY <2>1, <1>10 DEF PoolInv, Calm, poolVars, vars
<1> QED
  BY <1>1, <1>2, <1>3, <1>4, <1>5, <1>6, <1>7, <1>8, <1>9, <1>10 DEF PoolNext, Serve

\* The invariant of a pool of any number of threads: while nothing timed out and no
\* harvest crossed a thread, every chunk has one place, however the round trips of
\* the threads to the owner interleave.
THEOREM PoolInvariant == PoolSpec => []PoolInv
<1>1. PoolInit => PoolInv
  BY PoolInitInv
<1>2. PoolInv /\ [PoolNext]_poolVars => PoolInv'
  BY PoolStep
<1> QED
  BY <1>1, <1>2, PTL DEF PoolSpec

\* What waits: the queue, what a thread has in hand and what it took over.
LEMMA WaitingParts ==
  /\ Chunks(queue) \subseteq Waiting
  /\ \A t \in Thread : InHand(t) \subseteq Waiting /\ Chunks(carry[t]) \subseteq Waiting
<1> DEFINE parts == {Chunks(queue)} \cup {InHand(t) \cup Chunks(carry[t]) : t \in Thread}
             \cup {Between(plan[i], Through(plan[i], arrived[i]), Through(plan[i], NbFrames)) :
                     i \in planned \ harvested}
<1>1. Waiting = UNION parts
  BY DEF Waiting
<1>2. Chunks(queue) \in parts /\ \A t \in Thread : InHand(t) \cup Chunks(carry[t]) \in parts
  OBVIOUS
<1> HIDE DEF parts
<1> QED
  BY <1>1, <1>2

\* What is left of a plan is in the hands of a thread or in frames still to come.
LEMMA LeftWaits ==
  ASSUME Orderly, NEW i \in Answering
  PROVE  Content(i) \subseteq Waiting
<1> USE DEF Orderly
<1>1. i \in Inv /\ i \in planned /\ i \notin harvested /\ arrived[i] \in 0..NbFrames /\ plan[i] \in SegSeq
  BY DEF Answering, PoolTypes
<1>2. Between(plan[i], Through(plan[i], arrived[i]), Through(plan[i], NbFrames)) \subseteq Waiting
  BY <1>1 DEF Waiting
<1>3. Between(plan[i], Through(plan[i], arrived[i]), Through(plan[i], NbFrames))
        = UNION {Frame(plan[i], k) : k \in arrived[i] + 1 .. NbFrames}
  BY <1>1, FramesCover
<1>4. ASSUME NEW k \in Left(i) PROVE Frame(plan[i], k) \subseteq Waiting
  <2>1. CASE k > arrived[i]
    <3>1. k \in arrived[i] + 1 .. NbFrames
      BY <2>1, <1>1, DeliveryAssumption DEF Left
    <3> QED BY <3>1, <1>2, <1>3
  <2>2. ASSUME NEW t \in Thread, Serves(t, i), index[t] = k PROVE Frame(plan[i], k) \subseteq Waiting
    <3>1. at[t] \in {"indexed", "asked", "observed", "inside"}
      BY <2>2, <1>1 DEF Serves, PoolTypes, Step, Harvests
    <3>2. InHand(t) = Frame(plan[i], k)
      BY <2>2, <3>1, <1>1 DEF InHand, Serves
    <3> QED BY <3>2, WaitingParts
  <2> QED BY <2>1, <2>2 DEF Left
<1> QED
  BY <1>4 DEF Content

\* Undisturbed, and unless an invocation is harvested while a thread serves a frame
\* of it, any number of threads deliver as one does: no chunk of a consumed document
\* is lost and none is handed over twice.
THEOREM PoolTransferIsExact == PoolSpec => []TransferIsExact
<1>1. PoolInv => TransferIsExact
  <2> SUFFICES ASSUME PoolInv, Calm PROVE repeated = {} /\ ChunksOf(seen) \subseteq delivered \cup Waiting
    BY DEF TransferIsExact, Calm
  <2>1. Orderly
    BY DEF PoolInv
  <2>2. Moving \subseteq Waiting
    BY <2>1, LeftWaits DEF Moving
  <2>3. Still \subseteq Waiting
    BY WaitingParts DEF Still
  <2> QED BY <2>1, <2>2, <2>3 DEF Orderly, OnePlaceEach
<1> QED
  BY <1>1, PoolInvariant, PTL

---------------------------------------------------------------------------
(* The cut of Budget.tla.                                                   *)

\* What holds of 0 and passes from each number up to N to the next holds up to N.
LEMMA UpTo ==
  ASSUME NEW N \in Nat, NEW Good, 0 \in Good,
         \A n \in 1..N : n - 1 \in Good => n \in Good
  PROVE  \A n \in 0..N : n \in Good
<1> SUFFICES ASSUME \E n \in 0..N : n \notin Good PROVE FALSE
  OBVIOUS
<1> DEFINE Bad == {n \in 0..N : n \notin Good}
<1>1. PICK n \in Bad : \A m \in Bad : n <= m
  <2>1. Bad \in SUBSET Nat /\ Bad # {}
    OBVIOUS
  <2>2. QED
    BY <2>1, Least
<1>2. n \in 1..N
  BY <1>1
<1>3. n - 1 \notin Bad /\ n - 1 \in 0..N
  BY <1>1, <1>2
<1>4. QED
  BY <1>1, <1>2, <1>3

\* f starts at base and follows the steps h up to N.
Iterates(f, T, base, N, h) ==
  f \in [0..N -> T] /\ f[0] = base /\ \A n \in 1..N : f[n] = h[n][f[n - 1]]

\* A function of 0..N can be defined by its value at 0 and a step.
LEMMA Recursion ==
  ASSUME NEW T, NEW base \in T, NEW N \in Nat, NEW h \in [1..N -> [T -> T]]
  PROVE  \E f : Iterates(f, T, base, N, h)
<1> DEFINE Defines(f, n) == f \in [0..n -> T] /\ f[0] = base /\ \A m \in 1..n : f[m] = h[m][f[m - 1]]
           Good == {n \in 0..N : \E f : Defines(f, n)}
<1>1. 0 \in Good
  <2>1. Defines([m \in 0..0 |-> base], 0)
    OBVIOUS
  <2>2. 0 \in 0..N
    OBVIOUS
  <2> HIDE DEF Defines
  <2>3. QED
    BY <2>1, <2>2
<1>2. ASSUME NEW n \in 1..N, n - 1 \in Good PROVE n \in Good
  <2>1. PICK f : Defines(f, n - 1)
    BY <1>2
  <2> DEFINE g == [m \in 0..n |-> IF m = n THEN h[n][f[n - 1]] ELSE f[m]]
  <2>2. f[n - 1] \in T /\ h[n][f[n - 1]] \in T
    BY <2>1
  <2>3. g \in [0..n -> T] /\ g[0] = base
    BY <2>1, <2>2
  <2>4. ASSUME NEW m \in 1..n PROVE g[m] = h[m][g[m - 1]]
    <3>1. CASE m = n
      BY <3>1, <2>2
    <3>2. CASE m # n
      <4>1. m \in 1..n - 1 /\ m \in 0..n /\ m - 1 \in 0..n /\ m - 1 # n
        BY <3>2
      <4>2. QED
        BY <4>1, <2>1, <3>2
    <3>3. QED
      BY <3>1, <3>2
  <2>5. Defines(g, n)
    BY <2>3, <2>4
  <2>6. n \in 0..N
    OBVIOUS
  <2> HIDE DEF Defines
  <2>7. QED
    BY <2>5, <2>6
<1>3. N \in Good
  <2>1. N \in 0..N
    OBVIOUS
  <2>2. \A n \in 1..N : n - 1 \in Good => n \in Good
    BY <1>2
  <2> HIDE DEF Good
  <2>3. QED
    BY <1>1, <2>1, <2>2, UpTo
<1>4. QED
  BY <1>3 DEF Iterates

\* What the code guarantees of the sizes: they are counts, and an action has a frame.
Units ==
  /\ Capacity \in Nat /\ Whole \in Nat /\ Frames \in Nat \ {0}
  /\ \A c \in Chunk : Size(c) \in Nat
  /\ \A s \in Seq(Chunk), b \in Nat : Notice(s, b) \in Nat

LEMMA Weighs ==
  ASSUME Units, NEW s \in Seq(Chunk), NEW a \in 0..Len(s), NEW b \in 0..Len(s)
  PROVE  Weight(s, a, b) \in Nat /\ (b <= a => Weight(s, a, b) = 0)
<1> DEFINE N == Len(s)
           h == [n \in 1..N |-> [x \in Nat |-> IF n <= a THEN 0 ELSE x + Size(s[n])]]
           Fixed(g) == g = [n \in 0..N |-> IF n <= a THEN 0 ELSE g[n - 1] + Size(s[n])]
<1>1. N \in Nat /\ a \in Nat /\ \A n \in 1..N : Size(s[n]) \in Nat
  <2>1. Len(s) \in Nat /\ a \in Nat
    OBVIOUS
  <2>2. \A n \in 1..Len(s) : s[n] \in Chunk
    OBVIOUS
  <2>3. \A c \in Chunk : Size(c) \in Nat
    BY Zenon DEF Units
  <2>4. QED
    BY <2>1, <2>2, <2>3
<1> HIDE DEF N
<1>2. h \in [1..N -> [Nat -> Nat]]
  BY <1>1
<1>3. PICK f : Iterates(f, Nat, 0, N, h)
  <2> HIDE DEF h
  <2>1. 0 \in Nat
    OBVIOUS
  <2>2. QED
    BY <1>1, <1>2, <2>1, Recursion
<1>4. ASSUME NEW n \in 1..N PROVE f[n] = IF n <= a THEN 0 ELSE f[n - 1] + Size(s[n])
  <2>1. n - 1 \in 0..N
    BY <1>1
  <2>2. f[n - 1] \in Nat /\ f[n] = h[n][f[n - 1]]
    <3> HIDE DEF h
    <3>1. QED
      BY <1>3, <2>1 DEF Iterates
  <2>3. h[n][f[n - 1]] = IF n <= a THEN 0 ELSE f[n - 1] + Size(s[n])
    BY <2>2
  <2>4. QED
    BY <2>2, <2>3
<1> HIDE DEF h
<1>5. Fixed(f)
  <2>1. f[0] = 0 /\ f = [n \in 0..N |-> f[n]]
    BY <1>3 DEF Iterates
  <2>2. \A n \in 0..N : n # 0 => n \in 1..N
    BY <1>1
  <2>3. \A n \in 0..N : f[n] = IF n <= a THEN 0 ELSE f[n - 1] + Size(s[n])
    <3> TAKE n \in 0..N
    <3>1. CASE n = 0
      BY <1>1, <2>1, <3>1
    <3>2. CASE n # 0
      BY <1>4, <2>2, <3>2
    <3>3. QED
      BY <3>1, <3>2
  <2>4. QED
    BY <2>1, <2>3
<1>6. Weight(s, a, b) = (CHOOSE g : Fixed(g))[b]
  BY Zenon DEF Weight, N
<1> DEFINE t == CHOOSE g : Fixed(g)
<1>7. Fixed(t)
  <2> HIDE DEF Fixed
  <2>1. QED
    BY <1>5, Zenon
<1>8. Weight(s, a, b) = t[b]
  BY <1>6
<1> HIDE DEF t
<1>9. \A n \in 0..N : t[n] = IF n <= a THEN 0 ELSE t[n - 1] + Size(s[n])
  BY <1>7
<1> DEFINE Good == {n \in 0..N : t[n] \in Nat}
<1>10. 0 \in Good
  BY <1>1, <1>9
<1>11. ASSUME NEW n \in 1..N, n - 1 \in Good PROVE n \in Good
  <2>1. t[n - 1] \in Nat /\ n \in 0..N /\ Size(s[n]) \in Nat
    BY <1>1, <1>11
  <2>2. t[n] = IF n <= a THEN 0 ELSE t[n - 1] + Size(s[n])
    BY <1>9, <2>1
  <2>3. QED
    BY <2>1, <2>2
<1>12. \A n \in 0..N : n \in Good
  <2> HIDE DEF Good
  <2>1. QED
    BY <1>10, <1>11, <1>1, UpTo
<1>13. b \in 0..N
  BY DEF N
<1>14. QED
  BY <1>8, <1>9, <1>12, <1>13

LEMMA Needs ==
  ASSUME Units, NEW s \in Seq(Chunk), NEW n \in Nat, NEW a \in 0..Len(s), NEW b \in 0..Len(s)
  PROVE  Need(s, n, a, b) \in Nat
<1>1. Weight(s, a, b) \in Nat /\ b \in Nat
  BY Weighs
<1>2. Notice(s, b) \in Nat
  BY <1>1 DEF Units
<1>3. QED
  BY <1>1, <1>2 DEF Need

\* FillFrom is a position: the last one up to which the frame can be filled.
LEMMA Fills ==
  ASSUME Units, NEW s \in Seq(Chunk), NEW n \in Nat, NEW a \in 0..Len(s)
  PROVE  /\ FillFrom(s, n, a) \in a..Len(s)
         /\ FillFrom(s, n, a) = a \/ Need(s, n, a, FillFrom(s, n, a)) <= Capacity
         /\ \A m \in FillFrom(s, n, a) + 1 .. Len(s) : Need(s, n, a, m) > Capacity
<1> DEFINE N == Len(s)
           Fits(b) == b = a \/ Need(s, n, a, b) <= Capacity
           Rest == {x \in 0..N - a : Fits(N - x)}
<1>1. N \in Nat /\ a \in 0..N /\ Capacity \in Nat
  BY DEF Units
<1>2. \A m \in 0..N : Need(s, n, a, m) \in Nat
  BY Needs, <1>1
<1> HIDE DEF N, Fits
<1>3. N - a \in Rest
  <2>1. N - (N - a) = a /\ N - a \in 0..N - a
    BY <1>1
  <2>2. QED
    BY <1>1, <1>2, <2>1 DEF Fits
<1>4. PICK r \in Rest : \A x \in Rest : r <= x
  <2>1. \A x \in Rest : x \in Nat
    BY <1>1
  <2> HIDE DEF Rest
  <2>2. QED
    BY <2>1, <1>3, Least
<1>5. N - r \in a..N /\ Fits(N - r)
  BY <1>1, <1>4
<1>6. ASSUME NEW m \in (N - r) + 1 .. N PROVE Need(s, n, a, m) > Capacity
  <2>1. N - m \in 0..N - a /\ N - m < r /\ N - (N - m) = m /\ m \in 0..N
    BY <1>1, <1>4
  <2>2. N - m \notin Rest
    <3> HIDE DEF Rest
    <3>1. r \in Nat /\ N - m \in Nat
      BY <1>1, <1>4, <2>1 DEF Rest
    <3>2. QED
      BY <3>1, <1>4, <2>1
  <2>3. ~ Fits(m)
    BY <2>1, <2>2
  <2>4. Need(s, n, a, m) \in Nat
    BY <1>2, <2>1
  <2> HIDE DEF Rest
  <2>5. QED
    BY <2>3, <2>4, <1>1 DEF Fits
<1>7. \E b \in a..N : /\ b = a \/ Need(s, n, a, b) <= Capacity
                     /\ \A m \in b + 1 .. N : Need(s, n, a, m) > Capacity
  <2> HIDE DEF Rest
  <2>1. QED
    BY <1>5, <1>6 DEF Fits
<1>8. QED
  BY <1>7 DEF FillFrom, N

\* Where a frame ends, in a list that takes several.
Goes(s, n, a) == IF Lone(s) THEN Len(s) ELSE Advance(s, n, a)
Advances(s, N) == [n \in 1..N |-> [a \in 0..Len(s) |-> Goes(s, n, a)]]

LEMMA Advancing ==
  ASSUME Units, NEW s \in Seq(Chunk), NEW a \in 0..Len(s), NEW n \in Nat
  PROVE  Goes(s, n, a) \in a..Len(s)
<1>1. FillFrom(s, n, a) \in a..Len(s)
  BY Fills, Zenon
<1>2. Len(s) \in Nat
  OBVIOUS
<1>3. QED
  BY <1>1, <1>2 DEF Goes, Advance

\* The cuts of the first frames are the iterates of one function.
LEMMA Plans ==
  ASSUME Units, NEW s \in Seq(Chunk), NEW N \in Nat
  PROVE  \E f : /\ Iterates(f, 0..Len(s), 0, N, Advances(s, N))
                /\ \A k \in 0..N : PlanFrames(s, k) = f[k]
<1>1. Len(s) \in Nat /\ 0 \in 0..Len(s)
  OBVIOUS
<1>2. Advances(s, N) \in [1..N -> [0..Len(s) -> 0..Len(s)]]
  <2>1. ASSUME NEW n \in 1..N, NEW a \in 0..Len(s) PROVE Goes(s, n, a) \in 0..Len(s)
    <3>1. n \in Nat
      OBVIOUS
    <3>2. Goes(s, n, a) \in a..Len(s)
      BY <3>1, Advancing
    <3>3. QED
      BY <1>1, <3>2
  <2>2. QED
    BY <2>1 DEF Advances
<1>3. PICK f : Iterates(f, 0..Len(s), 0, N, Advances(s, N))
  BY <1>1, <1>2, Recursion
<1>4. \A n \in 0..N : f[n] = IF n = 0 THEN 0 ELSE Goes(s, n, f[n - 1])
  <2>1. f[0] = 0
    BY <1>3 DEF Iterates
  <2>2. ASSUME NEW n \in 0..N, n # 0 PROVE f[n] = Goes(s, n, f[n - 1])
    <3>1. n \in 1..N /\ n - 1 \in 0..N
      BY <2>2
    <3>2. f[n - 1] \in 0..Len(s) /\ f[n] = Advances(s, N)[n][f[n - 1]]
      BY <1>3, <3>1 DEF Iterates
    <3>3. QED
      BY <3>1, <3>2 DEF Advances
  <2>3. QED
    BY <2>1, <2>2
<1>5. ASSUME NEW k \in 0..N PROVE PlanFrames(s, k) = f[k]
  <2> DEFINE Fixed(g) ==
        g = [n \in 0..k |->
               IF n = 0 THEN 0
               ELSE IF Lone(s) THEN Len(s) ELSE Advance(s, n, g[n - 1])]
      t == CHOOSE g : Fixed(g)
      r == [n \in 0..k |-> f[n]]
  <2>1. PlanFrames(s, k) = t[k]
    BY Zenon DEF PlanFrames
  <2>2. k \in Nat /\ \A n \in 0..k : n \in 0..N /\ (n # 0 => n - 1 \in 0..k)
    BY <1>1
  <2>3. Fixed(r)
    <3>1. \A n \in 0..k : r[n] = IF n = 0 THEN 0 ELSE Goes(s, n, r[n - 1])
      BY <1>4, <2>2
    <3> HIDE DEF r
    <3>2. \A n \in 0..k : r[n] = IF n = 0 THEN 0
               ELSE IF Lone(s) THEN Len(s) ELSE Advance(s, n, r[n - 1])
      BY <3>1, Zenon DEF Goes
    <3>3. r = [n \in 0..k |-> r[n]]
      BY Zenon DEF r
    <3>4. QED
      BY <3>2, <3>3
  <2>4. Fixed(t)
    <3> HIDE DEF Fixed, r
    <3>1. QED
      BY <2>3, Zenon
  <2> HIDE DEF t
  <2>5. \A n \in 0..k : t[n] = IF n = 0 THEN 0 ELSE Goes(s, n, t[n - 1])
    BY <2>4 DEF Goes
  <2> DEFINE Good == {n \in 0..k : t[n] = f[n]}
  <2> HIDE DEF Fixed, r
  <2>6. 0 \in Good
    BY <1>4, <2>2, <2>5
  <2>7. ASSUME NEW n \in 1..k, n - 1 \in Good PROVE n \in Good
    <3>1. t[n - 1] = f[n - 1] /\ n \in 0..k /\ n \in 0..N /\ n # 0
      BY <2>2, <2>7
    <3>2. QED
      BY <3>1, <1>4, <2>5
  <2>8. \A n \in 0..k : n \in Good
    <3> HIDE DEF Good
    <3>1. QED
      BY <2>6, <2>7, <2>2, UpTo
  <2>9. QED
    BY <2>1, <2>2, <2>8
<1>6. QED
  BY <1>3, <1>5

\* Each frame goes on where the one before ended.
LEMMA PlanStep ==
  ASSUME Units, NEW s \in Seq(Chunk), NEW k \in Nat
  PROVE  /\ PlanFrames(s, 0) = 0 /\ PlanFrames(s, k) \in 0..Len(s)
         /\ PlanFrames(s, k + 1) = Goes(s, k + 1, PlanFrames(s, k))
<1>1. PICK f : /\ Iterates(f, 0..Len(s), 0, k + 1, Advances(s, k + 1))
               /\ \A j \in 0..k + 1 : PlanFrames(s, j) = f[j]
  BY Plans
<1>2. 0 \in 0..k + 1 /\ k \in 0..k + 1 /\ k + 1 \in 0..k + 1 /\ k + 1 \in 1..k + 1 /\ (k + 1) - 1 = k
  OBVIOUS
<1>3. f[0] = 0 /\ f[k] \in 0..Len(s) /\ f[k + 1] = Advances(s, k + 1)[k + 1][f[k]]
  BY <1>1, <1>2 DEF Iterates
<1>4. QED
  BY <1>1, <1>2, <1>3 DEF Advances

\* What CutAssumption asks of the cut, the cut of budget.js (planFrames) gives, for every
\* list, every size of its segments and of the notices, and every capacity of a frame: it
\* starts from nothing, stays within the list and never goes back.
THEOREM CutOfBudget ==
  ASSUME Units, NEW s \in Seq(Chunk)
  PROVE  /\ \A k \in 0..Frames : PlanFrames(s, k) \in 0..Len(s)
         /\ PlanFrames(s, 0) = 0
         /\ \A j, k \in 0..Frames : j <= k => PlanFrames(s, j) <= PlanFrames(s, k)
<1>1. \A k \in Nat : PlanFrames(s, k) \in 0..Len(s) /\ PlanFrames(s, 0) = 0
  BY PlanStep
<1>2. \A k \in Nat : PlanFrames(s, k) <= PlanFrames(s, k + 1)
  <2> TAKE k \in Nat
  <2>1. PlanFrames(s, k) \in 0..Len(s) /\ PlanFrames(s, k + 1) = Goes(s, k + 1, PlanFrames(s, k))
    BY PlanStep
  <2>2. Goes(s, k + 1, PlanFrames(s, k)) \in PlanFrames(s, k)..Len(s)
    <3>1. k + 1 \in Nat
      OBVIOUS
    <3>2. QED
      BY <2>1, <3>1, Advancing
  <2>3. QED
    BY <2>1, <2>2
<1>3. ASSUME NEW j \in Nat, NEW k \in Nat, j <= k PROVE PlanFrames(s, j) <= PlanFrames(s, k)
  <2> DEFINE Good == {d \in Nat : PlanFrames(s, j) <= PlanFrames(s, j + d)}
  <2>1. 0 \in Good
    BY <1>1
  <2>2. ASSUME NEW d \in 1..(k - j), d - 1 \in Good PROVE d \in Good
    <3>1. j + (d - 1) \in Nat /\ (j + (d - 1)) + 1 = j + d /\ d \in Nat /\ j + d \in Nat
      BY <1>3
    <3>2. PlanFrames(s, j + (d - 1)) <= PlanFrames(s, j + d)
      BY <1>2, <3>1
    <3>3. PlanFrames(s, j) \in Nat /\ PlanFrames(s, j + (d - 1)) \in Nat /\ PlanFrames(s, j + d) \in Nat
      BY <1>1, <3>1
    <3>4. QED
      BY <2>2, <3>1, <3>2, <3>3
  <2>3. k - j \in Nat /\ k - j \in 0..k - j /\ j + (k - j) = k
    BY <1>3
  <2>4. k - j \in Good
    <3> HIDE DEF Good
    <3>1. QED
      BY <2>1, <2>2, <2>3, UpTo
  <2>5. QED
    BY <2>3, <2>4
<1>4. Frames \in Nat
  BY DEF Units
<1>5. QED
  BY <1>1, <1>3, <1>4

\* A list that fits in one frame goes out in it. Otherwise no frame carries more than its
\* room, the notice of what is left counted for the last one, but for a last frame forced
\* to carry one segment without a notice; each is filled as far as it goes, and an action
\* that has content always delivers some (budget.js planFrames).
THEOREM FramesOfBudget ==
  ASSUME Units, NEW s \in Seq(Chunk), NEW k \in 1..Frames
  PROVE  LET a == PlanFrames(s, k - 1)
             b == PlanFrames(s, k)
         IN /\ Lone(s) => b = Len(s)
            /\ \/ b = a \/ Need(s, k, a, b) <= Capacity
               \/ Lone(s) /\ Weight(s, a, b) <= Whole
               \/ k = Frames /\ b = a + 1
            /\ \A m \in b + 1 .. Len(s) : Need(s, k, a, m) > Capacity
            /\ k = Frames /\ a < Len(s) => a < b
<1> DEFINE a == PlanFrames(s, k - 1)
<1>1. k \in Nat /\ k - 1 \in Nat /\ (k - 1) + 1 = k
  BY DEF Units
<1>2. a \in 0..Len(s) /\ PlanFrames(s, k) = Goes(s, k, a)
  BY <1>1, PlanStep
<1>3. Lone(s) => a = IF k = 1 THEN 0 ELSE Len(s)
  <2>1. CASE k = 1
    BY <2>1, PlanStep
  <2>2. CASE k # 1
    <3>1. k - 2 \in Nat /\ (k - 2) + 1 = k - 1
      BY <1>1, <2>2
    <3>2. a = Goes(s, k - 1, PlanFrames(s, k - 2))
      BY <3>1, PlanStep
    <3>3. QED
      BY <2>2, <3>2 DEF Goes
  <2>3. QED
    BY <2>1, <2>2
<1> HIDE DEF a
<1>4. /\ FillFrom(s, k, a) \in a..Len(s) /\ Len(s) \in Nat
      /\ FillFrom(s, k, a) = a \/ Need(s, k, a, FillFrom(s, k, a)) <= Capacity
      /\ \A m \in FillFrom(s, k, a) + 1 .. Len(s) : Need(s, k, a, m) > Capacity
  <2>1. Len(s) \in Nat
    OBVIOUS
  <2>2. QED
    BY <1>1, <1>2, <2>1, Fills, Zenon
<1>5. CASE Lone(s)
  <2>1. PlanFrames(s, k) = Len(s) /\ (a = 0 \/ a = Len(s))
    BY <1>2, <1>3, <1>5 DEF Goes
  <2>2. a = 0 => Weight(s, a, Len(s)) <= Whole
    BY <1>5 DEF Lone
  <2>3. QED
    BY <1>4, <1>5, <2>1, <2>2 DEF a
<1>6. CASE ~Lone(s) /\ k = Frames /\ FillFrom(s, k, a) = a /\ a < Len(s)
  <2>1. PlanFrames(s, k) = a + 1
    BY <1>2, <1>6 DEF Goes, Advance
  <2>2. \A m \in a + 1 + 1 .. Len(s) : m \in FillFrom(s, k, a) + 1 .. Len(s)
    BY <1>2, <1>4, <1>6
  <2>3. QED
    BY <1>2, <1>4, <1>6, <2>1, <2>2 DEF a
<1>7. CASE ~Lone(s) /\ ~(k = Frames /\ FillFrom(s, k, a) = a /\ a < Len(s))
  <2>1. PlanFrames(s, k) = FillFrom(s, k, a)
    BY <1>2, <1>7 DEF Goes, Advance
  <2>2. QED
    BY <1>2, <1>4, <1>7, <2>1 DEF a
<1>8. QED
  BY <1>5, <1>6, <1>7
=============================================================================
