---------------------------- MODULE DaemonProofs ----------------------------
(***************************************************************************)
(* Theorems about the resident daemon: its lives (Daemon.tla), the         *)
(* documents it caches (Corpus.tla) and its memory (Resident.tla), for     *)
(* every set of invocations, files, keys and plans, and every bound.       *)
(*                                                                         *)
(* Its lives.  An invocation that this process verified has an answered    *)
(* frame, so it did not begin after the check.  And the table of arrivals, *)
(* which lives in the process while there is one and in the file between   *)
(* two of them, counts the frames that were answered, of every invocation  *)
(* that no restart forgot.                                                 *)
(*                                                                         *)
(* Its documents.  The read under way keeps the promise the entries keep:  *)
(* what it has read and has changed since has been told, or changed before *)
(* it was watched, or its event was lost.                                  *)
(*                                                                         *)
(* Its memory.  The memory and the snapshot both keep under the ceilings,  *)
(* and the memory is in the order of use.  Its weight is a sum over a      *)
(* sequence, so its lemmas are proved by induction over data: not with the *)
(* induction theorems, which take an operator, but from the well-founded   *)
(* order of the naturals, which takes a set.                               *)
(***************************************************************************)
EXTENDS Daemon, Corpus, Resident, FiniteSetTheorems, SequenceTheorems, WellFoundedInduction, TLAPS

---------------------------------------------------------------------------
(* The lives of the daemon.                                                *)

Types ==
  /\ supervisor \in {"socket", "task"} /\ onDemand \in BOOLEAN
  /\ code \in Nat /\ loaded \in Nat
  /\ daemon \in {"off", "loading", "serving"}
  /\ arrivals \in [Invocation -> Nat] /\ saved \in [Invocation -> Nat]
  /\ verified \in SUBSET Invocation
  /\ conn \in [Frame -> {"none", "queued", "accepted", "answered", "lost"}]
  /\ since \in [Invocation -> Nat]
  /\ repeated \subseteq Invocation /\ forgotten \subseteq Invocation /\ broken \in BOOLEAN

\* What was verified was verified after it began.
VerifiedIsFresh ==
  /\ loaded <= code
  /\ \A v \in Invocation : since[v] <= code
  /\ \A v \in verified : Answered(v) # {} /\ since[v] <= loaded

\* The frames answered, modulo FRAMES: the last one forgets its invocation.
Count(v) == IF Cardinality(Answered(v)) < FRAMES THEN Cardinality(Answered(v)) ELSE 0

Table == IF daemon = "off" THEN saved ELSE arrivals

TableCounts ==
  /\ \A v \in Invocation \ forgotten : Table[v] = Count(v)
  /\ RestartIsInvisible

DaemonInv == Types /\ VerifiedIsFresh /\ TableCounts

---------------------------------------------------------------------------
(* Lemmas.                                                                 *)

LEMMA FramesAreNat == FRAMES \in Nat /\ FRAMES # 0
  BY DaemonAssumption DEF DaemonAssumption

\* An invocation with a frame still to answer has fewer than FRAMES answered, and one more
\* when that frame is answered (hooks/http-server.js:1018, the count of the sequencer).
LEMMA AnswerCounts ==
  ASSUME Types, NEW f \in Frame, conn[f] = "accepted",
         conn' = [conn EXCEPT ![f] = "answered"]
  PROVE  /\ Cardinality(Answered(f[1])) \in Nat
         /\ Cardinality(Answered(f[1])) < FRAMES
         /\ Cardinality(Answered(f[1]))' = Cardinality(Answered(f[1])) + 1
         /\ \A v \in Invocation : v # f[1] => Answered(v)' = Answered(v)
<1> DEFINE v == f[1]
           all == {v} \X (1..FRAMES)
<1>1. IsFiniteSet(all) /\ Cardinality(all) = FRAMES
  <2>1. IsFiniteSet({v}) /\ Cardinality({v}) = 1
    BY FS_Singleton
  <2>2. IsFiniteSet(1..FRAMES) /\ Cardinality(1..FRAMES) = FRAMES
    BY FramesAreNat, FS_Interval
  <2>3. IsFiniteSet(all) /\ Cardinality(all) = Cardinality({v}) * Cardinality(1..FRAMES)
    BY <2>1, <2>2, FS_Product, Zenon
  <2>4. 1 * FRAMES = FRAMES
    BY FramesAreNat
  <2> QED BY <2>1, <2>2, <2>3, <2>4, Zenon
<1>2. Answered(v) \subseteq all
  BY DEF Answered, Frame
<1>3. f \in all /\ f \notin Answered(v)
  BY DEF Answered, Frame
<1>4. IsFiniteSet(Answered(v)) /\ Cardinality(Answered(v)) \in Nat
  BY <1>1, <1>2, FS_Subset, FS_CardinalityType
<1>5. Cardinality(Answered(v)) <= FRAMES /\ Cardinality(Answered(v)) # FRAMES
  BY <1>1, <1>2, <1>3, FS_Subset
<1>6. Answered(v)' = Answered(v) \cup {f}
  BY DEF Answered, Types
<1>7. Cardinality(Answered(v) \cup {f}) = Cardinality(Answered(v)) + 1
  BY <1>3, <1>4, FS_AddElement
<1>8. \A w \in Invocation : w # f[1] => Answered(w)' = Answered(w)
  BY DEF Answered, Types
<1> QED BY <1>4, <1>5, <1>6, <1>7, <1>8, FramesAreNat

\* A connection that is queued, accepted, cut or lost leaves what was answered alone.
LEMMA AnsweredStays ==
  ASSUME \A f \in Frame : (conn'[f] = "answered") <=> (conn[f] = "answered")
  PROVE  \A v : Answered(v)' = Answered(v) /\ Count(v)' = Count(v)
<1>1. \A v : Answered(v)' = Answered(v)
  BY DEF Answered
<1> QED BY <1>1 DEF Count

LEMMA LeaveKeepsAnswers ==
  ASSUME Types, Leave
  PROVE  /\ conn' \in [Frame -> {"none", "queued", "accepted", "answered", "lost"}]
         /\ \A f \in Frame : (conn'[f] = "answered") <=> (conn[f] = "answered")
  BY DEF Types, Leave, Gone

LEMMA InitDaemonInv == Init => DaemonInv
<1> SUFFICES ASSUME Init PROVE DaemonInv
  OBVIOUS
<1>1. Types
  BY DaemonAssumption DEF DaemonAssumption, Init, Types
<1>2. VerifiedIsFresh
  BY DEF Init, VerifiedIsFresh
<1>3. \A v : Answered(v) = {}
  BY DEF Init, Answered
<1>4. \A v : Count(v) = 0
  BY <1>3, FS_EmptySet, FramesAreNat DEF Count
<1>5. TableCounts
  BY <1>4 DEF Init, TableCounts, Table, RestartIsInvisible
<1> QED BY <1>1, <1>2, <1>5 DEF DaemonInv

---------------------------------------------------------------------------
(* The step: one lemma for the actions that leave, one for the others.     *)

\* A process that leaves hands its shared table over, or the file is lost, and what is in
\* neither is forgotten.
LEMMA LeavingStep ==
  ASSUME DaemonInv, Leave, daemon # "off", UNCHANGED <<install, code, since, repeated>>,
         forgotten' = forgotten \cup Lost(saved', arrivals),
         \/ saved' = Shared /\ UNCHANGED broken
         \/ broken' = TRUE /\ UNCHANGED saved
  PROVE  DaemonInv'
<1> USE DEF DaemonInv
<1>1. Types'
  <2>1. saved' \in [Invocation -> Nat] /\ forgotten' \subseteq Invocation
    BY DEF Types, Shared, Lost
  <2> QED BY <2>1, LeaveKeepsAnswers DEF Types, Leave, install
<1>2. VerifiedIsFresh'
  BY DEF VerifiedIsFresh, Leave
<1>3. ASSUME NEW v \in Invocation \ forgotten' PROVE Table'[v] = Count(v)'
  <2>1. v \in Invocation \ forgotten /\ saved'[v] = arrivals[v]
    BY DEF Lost
  <2>2. Table[v] = arrivals[v] /\ Table'[v] = saved'[v]
    BY DEF Table, Leave
  <2>3. Count(v)' = Count(v)
    BY LeaveKeepsAnswers, AnsweredStays
  <2> QED BY <2>1, <2>2, <2>3 DEF TableCounts
<1>4. RestartIsInvisible'
  <2>1. repeated' \subseteq forgotten'
    BY DEF TableCounts, RestartIsInvisible
  <2>2. saved' = Shared => Lost(saved', arrivals) \subseteq ByRendezvous
    BY DEF Lost, Shared
  <2> QED BY <2>1, <2>2 DEF TableCounts, RestartIsInvisible
<1> QED BY <1>1, <1>2, <1>3, <1>4 DEF TableCounts

LEMMA ExitIsLeaving ==
  ASSUME Types, daemon # "off",
         \/ ExitStale \/ \E spent : LeaveCleanly(spent) \/ Kill
  PROVE  /\ Leave /\ daemon # "off" /\ UNCHANGED <<install, code, since, repeated>>
         /\ forgotten' = forgotten \cup Lost(saved', arrivals)
         /\ \/ saved' = Shared /\ UNCHANGED broken
            \/ broken' = TRUE /\ UNCHANGED saved
  BY DEF ExitStale, LeaveCleanly, Kill, SaveTables

\* The actions of a session, of the kernel and of the supervisor that answer nothing.
LEMMA QuietStep ==
  ASSUME DaemonInv,
         UNCHANGED <<install, loaded, arrivals, verified, saved, since, repeated, forgotten, broken>>,
         code' \in Nat, code <= code',
         daemon' \in {"off", "loading", "serving"}, daemon = "off" <=> daemon' = "off",
         conn' \in [Frame -> {"none", "queued", "accepted", "answered", "lost"}],
         \A f \in Frame : (conn'[f] = "answered") <=> (conn[f] = "answered")
  PROVE  DaemonInv'
<1> USE DEF DaemonInv
<1>1. Types'
  BY DEF Types, install
<1>2. VerifiedIsFresh'
  <2>1. /\ \A v \in Invocation : since[v] \in Nat /\ since'[v] = since[v]
        /\ loaded \in Nat /\ loaded' = loaded /\ code \in Nat /\ verified' = verified
        /\ verified \subseteq Invocation
    BY DEF Types
  <2>2. \A v : Answered(v)' = Answered(v)
    BY AnsweredStays
  <2> QED BY <2>1, <2>2 DEF VerifiedIsFresh
<1>3. TableCounts'
  <2>1. Table' = Table
    BY DEF Table
  <2> QED BY <2>1, AnsweredStays DEF TableCounts, RestartIsInvisible
<1> QED BY <1>1, <1>2, <1>3

\* A frame that connects starts the clock of its invocation only if none came before it.
LEMMA ConnectStep == ASSUME DaemonInv, NEW f \in Frame, Connect(f) PROVE DaemonInv'
<1> USE DEF DaemonInv
<1>1. conn[f] = "none" /\ \A g \in Frame : (conn'[g] = "answered") <=> (conn[g] = "answered")
  BY DEF Connect, Types
<1>2. f[1] \in Invocation
  BY DEF Frame
<1>3. Types'
  <2>1. conn' \in [Frame -> {"none", "queued", "accepted", "answered", "lost"}]
    BY DEF Connect, Types
  <2>2. since' \in [Invocation -> Nat]
    BY <1>2 DEF Connect, Types
  <2> QED BY <2>1, <2>2 DEF Connect, Types, process, install
<1>4. VerifiedIsFresh'
  <2>1. /\ UNCHANGED <<loaded, code, verified>>
        /\ \A v : Answered(v)' = Answered(v)
    BY <1>1, AnsweredStays DEF Connect, process
  <2>2. \A v \in Invocation : since'[v] = since[v] \/ (v = f[1] /\ since'[v] = code)
    BY <1>2 DEF Connect, Types
  <2>3. ASSUME NEW v \in verified PROVE since'[v] = since[v]
    <3>1. PICK g \in Frame : g[1] = v /\ conn[g] = "answered"
      BY DEF VerifiedIsFresh, Answered
    <3>2. v = f[1] => since' = since
      BY <3>1 DEF Connect
    <3> QED BY <2>2, <3>2 DEF Types
  <2> QED BY <2>1, <2>2, <2>3 DEF VerifiedIsFresh, Types
<1>5. TableCounts'
  <2>1. Table' = Table
    BY DEF Table, Connect, process
  <2> QED BY <1>1, <2>1, AnsweredStays DEF TableCounts, Connect, RestartIsInvisible
<1> QED BY <1>3, <1>4, <1>5

\* A frame that is answered finds the code fresh, or its invocation verified, and gets the
\* index the answers of its invocation make it.
LEMMA AnswerStep ==
  ASSUME DaemonInv, NEW f \in Frame, daemon = "serving", conn[f] = "accepted", Answer(f)
  PROVE  DaemonInv'
<1> USE DEF DaemonInv
<1> DEFINE v == f[1]
           n == Cardinality(Answered(v))
<1>1. v \in Invocation
  BY DEF Frame
<1>2. /\ n \in Nat /\ n < FRAMES /\ Cardinality(Answered(v))' = n + 1
      /\ \A w \in Invocation : w # v => Answered(w)' = Answered(w)
  BY AnswerCounts DEF Answer
<1>3. Types'
  <2>1. arrivals' \in [Invocation -> Nat]
    BY <1>1 DEF Answer, Types, nextIndex
  <2>2. conn' \in [Frame -> {"none", "queued", "accepted", "answered", "lost"}]
    BY DEF Answer, Types
  <2>3. verified' \in SUBSET Invocation /\ repeated' \subseteq Invocation
    BY <1>1 DEF Answer, Types
  <2> QED BY <2>1, <2>2, <2>3 DEF Answer, Types, install
<1>4. VerifiedIsFresh'
  <2>1. UNCHANGED <<loaded, code, since>> /\ verified' = verified \cup {v}
    BY DEF Answer
  <2>2. f \in Answered(v)'
    BY DEF Answer, Answered, Types
  <2>3. v \in verified \/ loaded = code
    BY DEF Answer, NeedsCheck
  <2>4. since[v] <= loaded
    BY <1>1, <2>3 DEF VerifiedIsFresh
  <2>5. ASSUME NEW w \in verified' PROVE Answered(w)' # {} /\ since[w] <= loaded
    <3>1. CASE w = v
      BY <3>1, <2>2, <2>4
    <3>2. CASE w # v /\ w \in verified
      BY <3>2, <1>2 DEF VerifiedIsFresh, Types
    <3> QED BY <2>1, <3>1, <3>2
  <2> QED BY <2>1, <2>5 DEF VerifiedIsFresh
<1>5. TableCounts'
  <2>1. UNCHANGED <<broken, forgotten>> /\ Table = arrivals /\ Table' = arrivals'
    BY DEF Answer, Table
  <2>2. v \notin forgotten => arrivals[v] = n
    BY <1>1, <1>2, <2>1 DEF TableCounts, Count
  <2>3. repeated' \subseteq forgotten'
    <3>1. v \notin forgotten => nextIndex(v) = n + 1
      BY <2>2 DEF nextIndex
    <3>2. repeated' \subseteq repeated \cup {v} /\ (nextIndex(v) = n + 1 => repeated' = repeated)
      BY DEF Answer
    <3> QED BY <2>1, <3>1, <3>2 DEF TableCounts, RestartIsInvisible
  <2>4. RestartIsInvisible'
    BY <2>1, <2>3 DEF TableCounts, RestartIsInvisible
  <2>5. ASSUME NEW w \in Invocation \ forgotten' PROVE arrivals'[w] = Count(w)'
    <3>1. CASE w = v
      <4>1. arrivals'[v] = IF n + 1 < FRAMES THEN n + 1 ELSE 0
        BY <1>1, <2>1, <2>2, <2>5, <3>1 DEF Answer, Types, nextIndex
      <4>2. Count(v)' = IF n + 1 < FRAMES THEN n + 1 ELSE 0
        BY <1>2, FramesAreNat DEF Count
      <4> QED BY <3>1, <4>1, <4>2
    <3>2. CASE w # v
      <4>1. Count(w)' = Count(w)
        BY <1>2, <3>2 DEF Count
      <4>2. arrivals'[w] = arrivals[w]
        BY <3>2 DEF Answer, Types
      <4> QED BY <2>1, <4>1, <4>2, <2>5 DEF TableCounts
    <3> QED BY <3>1, <3>2
  <2> QED BY <2>1, <2>4, <2>5 DEF TableCounts
<1> QED BY <1>3, <1>4, <1>5

\* A new process adopts the file, or forgets what is in it.
LEMMA StartStep == ASSUME DaemonInv, Start PROVE DaemonInv'
<1> USE DEF DaemonInv
<1>1. /\ daemon = "off" /\ daemon' = "loading"
      /\ forgotten' = forgotten \cup Lost(arrivals', saved)
      /\ \/ arrivals' = saved /\ UNCHANGED broken
         \/ arrivals' = [v \in Invocation |-> 0] /\ broken' = TRUE
      /\ UNCHANGED <<saved, conn, repeated>>
  BY DEF Start, Adopted
<1>2. Types'
  <2>1. arrivals' \in [Invocation -> Nat] /\ broken' \in BOOLEAN
    <3>1. CASE arrivals' = saved /\ UNCHANGED broken
      BY <3>1 DEF Types
    <3>2. CASE arrivals' = [v \in Invocation |-> 0] /\ broken' = TRUE
      BY <3>2
    <3> QED BY <1>1, <3>1, <3>2
  <2>2. forgotten' \subseteq Invocation
    BY <1>1 DEF Types, Lost
  <2> QED BY <2>1, <2>2 DEF Start, Types, install
<1>3. VerifiedIsFresh'
  BY DEF Start, VerifiedIsFresh, Types
<1>4. ASSUME NEW v \in Invocation \ forgotten' PROVE Table'[v] = Count(v)'
  <2>1. v \in Invocation \ forgotten /\ arrivals'[v] = saved[v]
    BY <1>1 DEF Lost
  <2>2. Table[v] = saved[v] /\ Table'[v] = arrivals'[v]
    BY <1>1 DEF Table
  <2>3. Count(v)' = Count(v)
    BY <1>1, AnsweredStays
  <2> QED BY <2>1, <2>2, <2>3 DEF TableCounts
<1>5. RestartIsInvisible'
  <2>1. arrivals' = saved => Lost(arrivals', saved) = {}
    BY DEF Lost
  <2> QED BY <1>1, <2>1 DEF TableCounts, RestartIsInvisible
<1> QED BY <1>2, <1>3, <1>4, <1>5 DEF TableCounts

LEMMA DaemonInvStep == DaemonInv /\ [Next]_vars => DaemonInv'
<1> SUFFICES ASSUME DaemonInv, [Next]_vars PROVE DaemonInv'
  OBVIOUS
<1> USE DEF process, install
<1>t. Types
  BY DEF DaemonInv
<1>q. ASSUME UNCHANGED <<install, loaded, arrivals, verified, saved, since, repeated, forgotten, broken>>,
             code' = code \/ code' = code + 1,
             daemon' = daemon \/ (daemon = "loading" /\ daemon' = "serving"),
             conn' = conn
      PROVE  DaemonInv'
  BY <1>q, <1>t, QuietStep DEF Types
<1>1. CASE Prompt
  BY <1>1, <1>q DEF Prompt
<1>2. CASE EndTurn
  BY <1>2, <1>q DEF EndTurn
<1>3. CASE Deliver
  BY <1>3, <1>q DEF Deliver
<1>4. CASE Start
  BY <1>4, StartStep
<1>5. CASE Listen
  BY <1>5, <1>q DEF Listen
<1>6. CASE CodeNotice
  BY <1>6, <1>t, ExitIsLeaving, LeavingStep DEF CodeNotice
<1>7. CASE Signal
  BY <1>7, <1>t, ExitIsLeaving, LeavingStep DEF Signal
<1>8. CASE IdleTimer
  <2>1. CASE quiet
    BY <1>8, <2>1, <1>t, ExitIsLeaving, LeavingStep DEF IdleTimer
  <2>2. CASE ~quiet
    BY <1>8, <2>2, <1>q DEF IdleTimer
  <2> QED BY <2>1, <2>2
<1>9. CASE Kill
  BY <1>9, <1>t, ExitIsLeaving, LeavingStep DEF Kill
<1>10. ASSUME NEW f \in Frame, Connect(f) PROVE DaemonInv'
  BY <1>10, ConnectStep
<1>11. ASSUME NEW f \in Frame, Abort(f) PROVE DaemonInv'
  <2>1. /\ conn' \in [Frame -> {"none", "queued", "accepted", "answered", "lost"}]
        /\ \A g \in Frame : (conn'[g] = "answered") <=> (conn[g] = "answered")
    BY <1>11, <1>t DEF Abort, Types
  <2> QED BY <1>11, <1>t, <2>1, QuietStep DEF Abort, Types
<1>12. ASSUME NEW f \in Frame, Accept(f) PROVE DaemonInv'
  <2>1. /\ conn' \in [Frame -> {"none", "queued", "accepted", "answered", "lost"}]
        /\ \A g \in Frame : (conn'[g] = "answered") <=> (conn[g] = "answered")
    BY <1>12, <1>t DEF Accept, Types
  <2> QED BY <1>12, <1>t, <2>1, QuietStep DEF Accept, Types
<1>13. ASSUME NEW f \in Frame, Handle(f) PROVE DaemonInv'
  <2>1. CASE StaleRequest(f)
    BY <1>13, <2>1, <1>t, ExitIsLeaving, LeavingStep DEF Handle, StaleRequest
  <2>2. CASE Answer(f)
    BY <1>13, <2>2, AnswerStep DEF Handle
  <2> QED BY <1>13, <2>1, <2>2 DEF Handle
<1>14. CASE UNCHANGED vars
  BY <1>14, <1>q DEF vars
<1> QED BY <1>1, <1>2, <1>3, <1>4, <1>5, <1>6, <1>7, <1>8, <1>9, <1>10, <1>11, <1>12, <1>13,
           <1>14 DEF Next

\* The inductive invariant holds in every reachable state.
THEOREM DaemonInvariant == Spec => []DaemonInv
  BY InitDaemonInv, DaemonInvStep, PTL DEF Spec

---------------------------------------------------------------------------

\* The daemon gives no frame an index out of its turn unless a restart forgot its action,
\* and unless a process was killed or the file of its table lost, a restart forgets none of
\* the ports, only those of the client lane (invocation-snapshot-pure.js,
\* hooks/http-server.js:2366).
THEOREM InvisibleRestart == Spec => []RestartIsInvisible
<1>1. DaemonInv => RestartIsInvisible
  BY DEF DaemonInv, TableCounts, RestartIsInvisible
<1> QED BY <1>1, DaemonInvariant, PTL

\* One comparison per action is enough: no frame is answered by code older than the code
\* on disk when its action began (freshness-scope-pure.js needsCheck).
THEOREM FreshAnswers == Spec => AnswersAreFresh
<1> DEFINE Fresh == \A f \in Frame : conn[f] = "accepted" /\ conn'[f] = "answered" => loaded >= since[f[1]]
<1>1. DaemonInv /\ [Next]_vars => [Fresh]_vars
  <2> SUFFICES ASSUME DaemonInv, Next, NEW f \in Frame, conn[f] = "accepted", conn'[f] = "answered"
               PROVE  loaded >= since[f[1]]
    OBVIOUS
  <2>t. Types
    BY DEF DaemonInv
  <2>1. Answer(f)
    <3>1. ~Leave
      BY <2>t DEF Leave, Gone, Types
    <3>2. CASE Prompt \/ EndTurn \/ Deliver \/ Start \/ Listen
      BY <3>2 DEF Prompt, EndTurn, Deliver, Start, Listen
    <3>3. CASE CodeNotice \/ Signal \/ IdleTimer \/ Kill
      BY <3>1, <3>3 DEF CodeNotice, Signal, IdleTimer, Kill, ExitStale, LeaveCleanly
    <3>4. ASSUME NEW g \in Frame, Connect(g) \/ Abort(g) \/ Accept(g) PROVE FALSE
      BY <3>4, <2>t DEF Connect, Abort, Accept, Types
    <3>5. ASSUME NEW g \in Frame, Handle(g) PROVE Answer(f)
      <4>1. ~StaleRequest(g)
        BY <3>1 DEF StaleRequest, ExitStale
      <4>2. Answer(g) /\ conn' = [conn EXCEPT ![g] = "answered"]
        BY <3>5, <4>1 DEF Handle, Answer
      <4>3. g = f
        BY <4>2, <2>t DEF Types
      <4> QED BY <4>2, <4>3
    <3> QED BY <3>2, <3>3, <3>4, <3>5 DEF Next
  <2>2. f[1] \in verified \/ loaded = code
    BY <2>1 DEF Answer, NeedsCheck
  <2>3. f[1] \in Invocation
    BY DEF Frame
  <2>4. since[f[1]] \in Nat /\ loaded \in Nat /\ code \in Nat
    BY <2>t, <2>3 DEF Types
  <2> QED BY <2>2, <2>3, <2>4 DEF DaemonInv, VerifiedIsFresh
<1> QED BY <1>1, DaemonInvariant, PTL DEF Spec, AnswersAreFresh

---------------------------------------------------------------------------
(* The documents held in memory.                                           *)

CorpusTypes ==
  /\ disk \in [File -> Nat]
  /\ held \subseteq Key /\ versions \in [Key -> [File -> Nat]]
  /\ watched \in [Key -> SUBSET Dir]
  /\ roots \in Nat /\ files \in Nat
  /\ events \subseteq Key /\ step \in {"none", "walk", "arm"}
  /\ key \in Key /\ got \subseteq Reads[key]
  /\ window \subseteq Key /\ untold \subseteq Key

\* What is held is watched in full and nothing else is, but for the entry that
\* is being armed; a request never reads a key that is held.
Ownership ==
  /\ \A k \in held : watched[k] = DirsOf(k)
  /\ \A k \in Key \ held : watched[k] # {} => step = "arm" /\ key = k
  /\ watched[key] \subseteq DirsOf(key)
  /\ step # "none" => key \notin held
  /\ step = "arm" => got = Reads[key]

\* The counters of the ceilings count the entries of each kind.
Counters == roots = Cardinality(held \cap Root) /\ files = Cardinality(held \cap Single)

\* What was read so far and has changed since has been told, or changed before
\* it was watched, or its event was lost.
ReadIsTold ==
  step # "none" => \A f \in got : versions[key][f] # disk[f] => key \in events \cup window \cup untold

CorpusInv == CorpusTypes /\ Ownership /\ Counters /\ ReadIsTold /\ StaleIsTold

\* Storing an entry counts it, dropping it uncounts it.
LEMMA HeldPlus ==
  ASSUME NEW S \in SUBSET Key, held \subseteq Key, NEW k \in Key \ held
  PROVE  /\ Cardinality(held \cap S) \in Nat
         /\ Cardinality((held \cup {k}) \cap S) =
              IF k \in S THEN Cardinality(held \cap S) + 1 ELSE Cardinality(held \cap S)
<1>1. IsFiniteSet(held \cap S)
  BY CorpusAssumption, FS_Subset
<1>2. (held \cup {k}) \cap S = IF k \in S THEN (held \cap S) \cup {k} ELSE held \cap S
  OBVIOUS
<1>3. QED
  BY <1>1, <1>2, FS_AddElement, FS_CardinalityType

LEMMA HeldMinus ==
  ASSUME NEW S \in SUBSET Key, held \subseteq Key, NEW k \in Key
  PROVE  /\ Cardinality(held \cap S) \in Nat
         /\ Cardinality((held \ {k}) \cap S) \in Nat
         /\ Cardinality((held \ {k}) \cap S) =
              IF k \in S \cap held THEN Cardinality(held \cap S) - 1 ELSE Cardinality(held \cap S)
<1>1. IsFiniteSet(held \cap S)
  BY CorpusAssumption, FS_Subset
<1>2. (held \ {k}) \cap S = (held \cap S) \ {k}
  OBVIOUS
<1>3. IsFiniteSet((held \ {k}) \cap S)
  BY <1>1, <1>2, FS_RemoveElement
<1>4. Cardinality((held \ {k}) \cap S) =
        IF k \in held \cap S THEN Cardinality(held \cap S) - 1 ELSE Cardinality(held \cap S)
  BY <1>1, <1>2, FS_RemoveElement
<1>5. QED
  BY <1>1, <1>3, <1>4, FS_CardinalityType

\* Nothing is held at the start.
LEMMA CorpusInitInv == CorpusInit => CorpusInv
<1> SUFFICES ASSUME CorpusInit PROVE CorpusInv
  OBVIOUS
<1>1. CorpusTypes /\ Ownership /\ ReadIsTold /\ StaleIsTold
  BY CorpusAssumption DEF CorpusInit, CorpusTypes, Ownership, ReadIsTold, StaleIsTold, Unread
<1>2. Counters
  <2>1. held \cap Root = {} /\ held \cap Single = {}
    BY DEF CorpusInit
  <2>2. QED
    BY <2>1, FS_EmptySet DEF CorpusInit, Counters
<1>3. QED
  BY <1>1, <1>2 DEF CorpusInv

\* What does not touch the map leaves its counters true.
LEMMA CountersStay == ASSUME Counters, UNCHANGED <<held, roots, files>> PROVE Counters'
  BY DEF Counters

\* The step: one case per action.
LEMMA CorpusStep == ASSUME CorpusInv, [CorpusNext]_corpusVars PROVE CorpusInv'
<1> USE CorpusAssumption DEF CorpusInv, ledger, request, ghosts
<1> DEFINE I == CorpusTypes /\ Ownership /\ ReadIsTold /\ StaleIsTold
<1>1. ASSUME NEW f \in File, Change(f) PROVE CorpusInv'
  <2>1. I'
    BY <1>1 DEF Change, Watchers, CorpusTypes, Ownership, ReadIsTold, StaleIsTold, Stale, DirsOf
  <2>2. QED
    BY <1>1, <2>1, CountersStay DEF Change
<1>2. ASSUME NEW f \in File, Walk(f) PROVE CorpusInv'
  <2>1. I'
    BY <1>2 DEF Walk, CorpusTypes, Ownership, ReadIsTold, StaleIsTold, Stale, DirsOf
  <2>2. QED
    BY <1>2, <2>1, CountersStay DEF Walk
<1>3. ASSUME NEW k \in Key, Miss(k) PROVE CorpusInv'
  <2>1. I'
    BY <1>3 DEF Miss, CorpusTypes, Ownership, ReadIsTold, StaleIsTold, Stale, DirsOf
  <2>2. QED
    BY <1>3, <2>1, CountersStay DEF Miss
<1>4. ASSUME NEW k \in Key, Notify(k) PROVE CorpusInv'
  <2>1. Counters'
    BY <1>4, HeldMinus DEF Notify, Counters, CorpusTypes, Key
  <2>2. roots' \in Nat /\ files' \in Nat
    BY <1>4, <2>1, HeldMinus DEF Notify, Counters, CorpusTypes, Key
  <2>3. CorpusTypes'
    BY <1>4, <2>2 DEF Notify, CorpusTypes, Unread
  <2>4. Ownership' /\ ReadIsTold' /\ StaleIsTold'
    BY <1>4 DEF Notify, CorpusTypes, Ownership, ReadIsTold, StaleIsTold, Stale, DirsOf
  <2>5. QED
    BY <2>1, <2>3, <2>4
<1>5. ASSUME NEW d \in Dir, Arm(d) PROVE CorpusInv'
  <2>1. I'
    BY <1>5 DEF Arm, Unarmed, CorpusTypes, Ownership, ReadIsTold, StaleIsTold, Stale, DirsOf
  <2>2. QED
    BY <1>5, <2>1, CountersStay DEF Arm
<1>6. CASE WalkFails
  <2>1. I'
    BY <1>6 DEF WalkFails, Forgotten, CorpusTypes, Ownership, ReadIsTold, StaleIsTold, Stale, DirsOf, Unread
  <2>2. QED
    BY <1>6, <2>1, CountersStay DEF WalkFails
<1>7. CASE Walked
  <2>1. ASSUME step' = "arm", UNCHANGED <<got, versions>> PROVE I'
    BY <1>7, <2>1 DEF Walked, CorpusTypes, Ownership, ReadIsTold, StaleIsTold, Stale, DirsOf
  <2>2. ASSUME Forgotten PROVE I'
    BY <1>7, <2>2 DEF Walked, Forgotten, CorpusTypes, Ownership, ReadIsTold, StaleIsTold, Stale, DirsOf, Unread
  <2>3. I'
    BY <1>7, <2>1, <2>2 DEF Walked
  <2>4. QED
    BY <1>7, <2>3, CountersStay DEF Walked
<1>8. CASE Deaf
  <2>1. I'
    BY <1>8 DEF Deaf, ArmFails, Forgotten, CorpusTypes, Ownership, ReadIsTold, StaleIsTold, Stale, DirsOf, Unread
  <2>2. QED
    BY <1>8, <2>1, CountersStay DEF Deaf
<1>9. CASE Store
  <2>1. Counters'
    BY <1>9, HeldPlus DEF Store, Counters, CorpusTypes, Ownership, Key
  <2>2. I'
    BY <1>9 DEF Store, Unarmed, CorpusTypes, Ownership, ReadIsTold, StaleIsTold, Stale, DirsOf
  <2>3. QED
    BY <2>1, <2>2
<1>10. CASE UNCHANGED corpusVars
  BY <1>10 DEF corpusVars, CorpusTypes, Ownership, Counters, ReadIsTold, StaleIsTold, Stale, DirsOf
<1>11. QED
  BY <1>1, <1>2, <1>3, <1>4, <1>5, <1>6, <1>7, <1>8, <1>9, <1>10 DEF CorpusNext

\* The inductive invariant of the cache holds in every reachable state.
THEOREM CorpusInvariant == CorpusSpec => []CorpusInv
  BY CorpusInitInv, CorpusStep, PTL DEF CorpusSpec

\* What is served from memory is what is on disk, or its notification waits, unless it
\* changed between its read and its watch or the kernel lost its event (corpus-cache.js
\* armWatchers, drop).
THEOREM CorpusStaleIsTold == CorpusSpec => []StaleIsTold
<1>1. CorpusInv => StaleIsTold
  BY DEF CorpusInv
<1>2. QED
  BY <1>1, CorpusInvariant, PTL

\* Every watcher belongs to an entry or to the read under way, and the counters of the
\* ceilings count the entries (corpus-cache.js armWatchers, drop).
THEOREM CorpusWatchersAreOwned == CorpusSpec => []WatchersAreOwned
<1>1. CorpusInv => WatchersAreOwned
  BY DEF CorpusInv, Ownership, Counters, CorpusTypes, WatchersAreOwned
<1>2. QED
  BY <1>1, CorpusInvariant, PTL

---------------------------------------------------------------------------
(* The memory of the plans.                                                *)

---------------------------------------------------------------------------
(* Induction over a sequence.  The induction theorems of the library take   *)
(* an operator; its minimal-element theorem takes a set, and is enough.     *)

\* A set of naturals that is not empty has a least element.
LEMMA Least ==
  ASSUME NEW T \in SUBSET Nat, T # {}
  PROVE  \E x \in T : \A y \in T : x <= y
<1> DEFINE R == {ss \in Nat \X Nat : ss[1] < ss[2]}
<1>1. IsWellFoundedOn(R, Nat)
  BY NatLessThanWellFounded DEF OpToRel
<1>2. \A x, y \in Nat : y < x => <<y, x>> \in R
  OBVIOUS
<1> HIDE DEF R
<1>3. \E x \in T : \A y \in T : ~ (<<y, x>> \in R)
  BY <1>1, WFMin
<1>4. ASSUME NEW x \in T, NEW y \in T, ~ (<<y, x>> \in R) PROVE x <= y
  BY <1>2, <1>4
<1>5. QED
  BY <1>3, <1>4

\* What holds of 0 and passes from each number up to N to the next holds up to N.
LEMMA UpTo ==
  ASSUME NEW N \in Nat, NEW Good, 0 \in Good,
         \A n \in 1..N : n - 1 \in Good => n \in Good
  PROVE  \A n \in 0..N : n \in Good
<1> SUFFICES ASSUME \E n \in 0..N : n \notin Good PROVE FALSE
  OBVIOUS
<1> DEFINE Bad == {n \in 0..N : n \notin Good}
<1>1. PICK n \in Bad : \A m \in Bad : n <= m
  <2>1. Bad \in SUBSET Nat /\ Bad # {}
    OBVIOUS
  <2>2. QED
    BY <2>1, Least
<1>2. n \in 1..N
  BY <1>1
<1>3. n - 1 \notin Bad /\ n - 1 \in 0..N
  BY <1>1, <1>2
<1>4. QED
  BY <1>1, <1>2, <1>3

\* f starts at base and follows the steps h up to N.
Iterates(f, T, base, N, h) ==
  f \in [0..N -> T] /\ f[0] = base /\ \A n \in 1..N : f[n] = h[n][f[n - 1]]

\* A function of 0..N can be defined by its value at 0 and a step.
LEMMA Recursion ==
  ASSUME NEW T, NEW base \in T, NEW N \in Nat, NEW h \in [1..N -> [T -> T]]
  PROVE  \E f : Iterates(f, T, base, N, h)
<1> DEFINE Defines(f, n) == f \in [0..n -> T] /\ f[0] = base /\ \A m \in 1..n : f[m] = h[m][f[m - 1]]
           Good == {n \in 0..N : \E f : Defines(f, n)}
<1>1. 0 \in Good
  <2>1. Defines([m \in 0..0 |-> base], 0)
    OBVIOUS
  <2>2. 0 \in 0..N
    OBVIOUS
  <2> HIDE DEF Defines
  <2>3. QED
    BY <2>1, <2>2
<1>2. ASSUME NEW n \in 1..N, n - 1 \in Good PROVE n \in Good
  <2>1. PICK f : Defines(f, n - 1)
    BY <1>2
  <2> DEFINE g == [m \in 0..n |-> IF m = n THEN h[n][f[n - 1]] ELSE f[m]]
  <2>2. f[n - 1] \in T /\ h[n][f[n - 1]] \in T
    BY <2>1
  <2>3. g \in [0..n -> T] /\ g[0] = base
    BY <2>1, <2>2
  <2>4. ASSUME NEW m \in 1..n PROVE g[m] = h[m][g[m - 1]]
    <3>1. CASE m = n
      BY <3>1, <2>2
    <3>2. CASE m # n
      <4>1. m \in 1..n - 1 /\ m \in 0..n /\ m - 1 \in 0..n /\ m - 1 # n
        BY <3>2
      <4>2. QED
        BY <4>1, <2>1, <3>2
    <3>3. QED
      BY <3>1, <3>2
  <2>5. Defines(g, n)
    BY <2>3, <2>4
  <2>6. n \in 0..N
    OBVIOUS
  <2> HIDE DEF Defines
  <2>7. QED
    BY <2>5, <2>6
<1>3. N \in Good
  <2>1. N \in 0..N
    OBVIOUS
  <2>2. \A n \in 1..N : n - 1 \in Good => n \in Good
    BY <1>2
  <2> HIDE DEF Good
  <2>3. QED
    BY <1>1, <2>1, <2>2, UpTo
<1>4. QED
  BY <1>3 DEF Iterates

---------------------------------------------------------------------------
(* The weight of a sequence of plans.                                       *)

LEMMA Entries ==
  /\ \A e \in Entry : e.key \in Plan /\ e.weight \in Nat
  /\ \A s \in Seq(Entry) : /\ Len(s) \in Nat /\ DOMAIN s = 1..Len(s)
                            /\ \A n \in 1..Len(s) : s[n] \in Entry
<1>1. \A e \in Entry : e.key \in Plan /\ e.weight \in Nat
  BY ResidentAssumption DEF Entry
<1>2. QED
  BY <1>1, ElementOfSeq, LenProperties

\* t holds the weights of the beginnings of s.
Totals(t, s) ==
  /\ t \in [0..Len(s) -> Nat] /\ t[0] = 0
  /\ \A n \in 1..Len(s) : t[n] = t[n - 1] + s[n].weight

LEMMA WeightTotals ==
  ASSUME NEW s \in Seq(Entry)
  PROVE  \E t : Totals(t, s) /\ WeightOf(s) = t[Len(s)]
<1> DEFINE N == Len(s)
           h == [n \in 1..N |-> [x \in Nat |-> x + s[n].weight]]
           Fixed(g) == g = [n \in 0..N |-> IF n = 0 THEN 0 ELSE g[n - 1] + s[n].weight]
<1>1. N \in Nat /\ \A n \in 1..N : s[n].weight \in Nat
  BY Entries
<1> HIDE DEF N
<1>2. h \in [1..N -> [Nat -> Nat]]
  BY <1>1
<1>3. PICK f : Iterates(f, Nat, 0, N, h)
  <2> HIDE DEF h
  <2>1. 0 \in Nat
    OBVIOUS
  <2>2. QED
    BY <1>1, <1>2, <2>1, Recursion
<1>4. ASSUME NEW n \in 1..N PROVE f[n] = f[n - 1] + s[n].weight
  <2>1. n - 1 \in 0..N /\ f[n - 1] \in Nat
    BY <1>1, <1>3 DEF Iterates
  <2>2. h[n][f[n - 1]] = f[n - 1] + s[n].weight
    BY <2>1
  <2>3. QED
    BY <2>2, <1>3 DEF Iterates
<1>5. Fixed(f)
  <2>1. \A n \in 0..N : f[n] = IF n = 0 THEN 0 ELSE f[n - 1] + s[n].weight
    BY <1>3, <1>4 DEF Iterates
  <2>2. QED
    BY <2>1, <1>3 DEF Iterates
<1>6. WeightOf(s) = (CHOOSE g : Fixed(g))[N]
  BY Zenon DEF WeightOf, N
<1> DEFINE t == CHOOSE g : Fixed(g)
<1>7. Fixed(t)
  <2> HIDE DEF Fixed
  <2>1. QED
    BY <1>5, Zenon
<1>8. WeightOf(s) = t[N]
  BY <1>6
<1> HIDE DEF t
<1>9. t[0] = 0 /\ \A n \in 1..N : t[n] = t[n - 1] + s[n].weight
  <2>1. \A n \in 0..N : t[n] = IF n = 0 THEN 0 ELSE t[n - 1] + s[n].weight
    BY <1>7
  <2>2. 0 \in 0..N /\ \A n \in 1..N : n \in 0..N /\ n # 0
    BY <1>1
  <2>3. QED
    BY <2>1, <2>2
<1>10. \A n \in 0..N : n \in {m \in 0..N : t[m] \in Nat}
  <2> DEFINE Good == {m \in 0..N : t[m] \in Nat}
  <2>1. 0 \in Good
    BY <1>1, <1>9
  <2>2. ASSUME NEW n \in 1..N, n - 1 \in Good PROVE n \in Good
    <3>1. t[n - 1] \in Nat /\ n \in 0..N
      BY <2>2, <1>1
    <3>2. t[n] \in Nat
      <4>1. t[n] = t[n - 1] + s[n].weight
        BY <1>9
      <4>2. s[n].weight \in Nat
        BY <1>1
      <4>3. QED
        BY <3>1, <4>1, <4>2
    <3>3. QED
      BY <3>1, <3>2
  <2> HIDE DEF Good
  <2>3. \A n \in 0..N : n \in Good
    BY <2>1, <2>2, <1>1, UpTo
  <2>4. QED
    BY <2>3 DEF Good
<1>11. t \in [0..N -> Nat]
  BY <1>7, <1>10
<1>12. QED
  BY <1>8, <1>9, <1>11 DEF Totals, N

LEMMA WeightNat == ASSUME NEW s \in Seq(Entry) PROVE WeightOf(s) \in Nat
<1>1. PICK t : Totals(t, s) /\ WeightOf(s) = t[Len(s)]
  BY WeightTotals
<1>2. QED
  BY <1>1 DEF Totals

LEMMA WeightEmpty == WeightOf(<<>>) = 0
<1>0. <<>> \in Seq(Entry)
  OBVIOUS
<1>1. PICK t : Totals(t, <<>>) /\ WeightOf(<<>>) = t[Len(<<>>)]
  BY <1>0, WeightTotals
<1>2. QED
  BY <1>1 DEF Totals

\* The weight of a concatenation is the sum of the weights.
LEMMA WeightConcat ==
  ASSUME NEW a \in Seq(Entry), NEW b \in Seq(Entry)
  PROVE  WeightOf(a \o b) = WeightOf(a) + WeightOf(b)
<1>0. a \o b \in Seq(Entry)
  OBVIOUS
<1>1. PICK t : Totals(t, a \o b) /\ WeightOf(a \o b) = t[Len(a \o b)]
  BY <1>0, WeightTotals
<1>2. PICK u : Totals(u, a) /\ WeightOf(a) = u[Len(a)]
  BY WeightTotals
<1>3. PICK v : Totals(v, b) /\ WeightOf(b) = v[Len(b)]
  BY WeightTotals
<1>4. /\ Len(a) \in Nat /\ Len(b) \in Nat /\ Len(a \o b) = Len(a) + Len(b)
      /\ \A n \in 1..Len(a) : (a \o b)[n] = a[n] /\ a[n].weight \in Nat
      /\ \A n \in 1..Len(b) : (a \o b)[Len(a) + n] = b[n] /\ b[n].weight \in Nat
  BY Entries, ConcatProperties
<1>5. \A n \in 0..Len(a) : t[n] = u[n]
  <2> DEFINE Good == {n \in 0..Len(a) : t[n] = u[n]}
  <2>1. 0 \in Good /\ \A n \in 1..Len(a) : n - 1 \in Good => n \in Good
    BY <1>1, <1>2, <1>4 DEF Totals
  <2> HIDE DEF Good
  <2>2. \A n \in 0..Len(a) : n \in Good
    BY <2>1, <1>4, UpTo
  <2>3. QED
    BY <2>2 DEF Good
<1>6. \A n \in 0..Len(b) : t[Len(a) + n] = u[Len(a)] + v[n]
  <2> DEFINE Good == {n \in 0..Len(b) : t[Len(a) + n] = u[Len(a)] + v[n]}
  <2>1. 0 \in Good
    <3>1. 0 \in 0..Len(b) /\ Len(a) \in 0..Len(a) /\ Len(a) + 0 = Len(a)
      BY <1>4
    <3>2. u[Len(a)] \in Nat /\ v[0] = 0
      BY <1>2, <1>3, <3>1 DEF Totals
    <3>3. t[Len(a)] = u[Len(a)]
      BY <1>5, <3>1
    <3>4. QED
      BY <3>1, <3>2, <3>3
  <2>2. ASSUME NEW n \in 1..Len(b), n - 1 \in Good PROVE n \in Good
    <3>1. Len(a) + n \in 1..Len(a \o b) /\ Len(a) + n - 1 = Len(a) + (n - 1)
      BY <1>4
    <3>2. t[Len(a) + n] = t[Len(a) + (n - 1)] + b[n].weight
      BY <3>1, <1>1, <1>4 DEF Totals
    <3>3. v[n] = v[n - 1] + b[n].weight
      BY <1>3, <1>4 DEF Totals
    <3>4. v[n - 1] \in Nat /\ u[Len(a)] \in Nat
      <4>1. n - 1 \in 0..Len(b) /\ Len(a) \in 0..Len(a)
        BY <1>4
      <4>2. QED
        BY <4>1, <1>2, <1>3 DEF Totals
    <3>5. QED
      BY <2>2, <3>2, <3>3, <3>4, <1>4
  <2> HIDE DEF Good
  <2>3. \A n \in 0..Len(b) : n \in Good
    BY <2>1, <2>2, <1>4, UpTo
  <2>4. QED
    BY <2>3 DEF Good
<1>7. QED
  BY <1>1, <1>2, <1>3, <1>4, <1>6

LEMMA WeightAppend ==
  ASSUME NEW s \in Seq(Entry), NEW e \in Entry
  PROVE  WeightOf(Append(s, e)) = WeightOf(s) + e.weight
<1>1. Append(s, e) = s \o <<e>> /\ <<e>> \in Seq(Entry)
  BY AppendIsConcat
<1>2. PICK t : Totals(t, <<e>>) /\ WeightOf(<<e>>) = t[Len(<<e>>)]
  BY <1>1, WeightTotals
<1>3. WeightOf(<<e>>) = e.weight
  <2>1. Len(<<e>>) = 1 /\ <<e>>[1] = e /\ e.weight \in Nat
    BY ResidentAssumption DEF Entry
  <2>2. t[0] = 0 /\ t[1] = t[0] + e.weight
    BY <1>2, <2>1 DEF Totals
  <2>3. QED
    BY <1>2, <2>1, <2>2
<1>4. QED
  BY <1>1, <1>3, WeightConcat

\* What remains after the first n have left weighs what they do not.
LEMMA WeightCut ==
  ASSUME NEW s \in Seq(Entry), NEW n \in 0..Len(s)
  PROVE  /\ SubSeq(s, 1, n) \in Seq(Entry) /\ SubSeq(s, n + 1, Len(s)) \in Seq(Entry)
         /\ WeightOf(SubSeq(s, n + 1, Len(s))) = WeightOf(s) - WeightOf(SubSeq(s, 1, n))
<1>1. SubSeq(s, 1, n) \in Seq(Entry) /\ SubSeq(s, n + 1, Len(s)) \in Seq(Entry)
  BY Entries, SubSeqProperties
<1>2. s = SubSeq(s, 1, n) \o SubSeq(s, n + 1, Len(s))
  <2>1. 1 \in 1..Len(s) + 1 /\ n \in 1 - 1..Len(s) /\ Len(s) \in n..Len(s)
    BY Entries
  <2>2. QED
    BY <2>1, ConcatAdjacentSubSeq, SubSeqFull
<1>3. WeightOf(s) = WeightOf(SubSeq(s, 1, n)) + WeightOf(SubSeq(s, n + 1, Len(s)))
  BY <1>1, <1>2, WeightConcat
<1>4. WeightOf(SubSeq(s, 1, n)) \in Nat /\ WeightOf(SubSeq(s, n + 1, Len(s))) \in Nat
  BY <1>1, WeightNat
<1>5. QED
  BY <1>1, <1>3, <1>4

---------------------------------------------------------------------------
(* The entries of some keys.                                                *)

\* q holds what is kept of the beginnings of s.
Keeps(q, s, K) ==
  /\ q \in [0..Len(s) -> Seq(Entry)] /\ q[0] = <<>>
  /\ \A n \in 1..Len(s) : q[n] = IF s[n].key \in K THEN Append(q[n - 1], s[n]) ELSE q[n - 1]

LEMMA OnlyKeeps ==
  ASSUME NEW s \in Seq(Entry), NEW K
  PROVE  \E q : Keeps(q, s, K) /\ Only(s, K) = q[Len(s)]
<1> DEFINE N == Len(s)
           h == [n \in 1..N |-> [x \in Seq(Entry) |-> IF s[n].key \in K THEN Append(x, s[n]) ELSE x]]
           Fixed(g) == g = [n \in 0..N |-> IF n = 0 THEN <<>>
                                           ELSE IF s[n].key \in K THEN Append(g[n - 1], s[n]) ELSE g[n - 1]]
<1>1. N \in Nat /\ \A n \in 1..N : s[n] \in Entry
  BY Entries
<1>2. Only(s, K) = (CHOOSE g : Fixed(g))[N]
  BY Zenon DEF Only
<1> HIDE DEF N
<1>3. h \in [1..N -> [Seq(Entry) -> Seq(Entry)]]
  BY <1>1
<1>4. PICK f : Iterates(f, Seq(Entry), <<>>, N, h)
  <2> HIDE DEF h
  <2>1. <<>> \in Seq(Entry)
    OBVIOUS
  <2>2. QED
    BY <1>1, <1>3, <2>1, Recursion
<1>5. ASSUME NEW n \in 1..N
      PROVE f[n] = IF s[n].key \in K THEN Append(f[n - 1], s[n]) ELSE f[n - 1]
  <2>1. n - 1 \in 0..N /\ f[n - 1] \in Seq(Entry)
    BY <1>1, <1>4 DEF Iterates
  <2>2. h[n][f[n - 1]] = IF s[n].key \in K THEN Append(f[n - 1], s[n]) ELSE f[n - 1]
    BY <2>1
  <2>3. QED
    BY <2>2, <1>4 DEF Iterates
<1>6. Fixed(f)
  <2>1. \A n \in 0..N : f[n] = IF n = 0 THEN <<>>
                               ELSE IF s[n].key \in K THEN Append(f[n - 1], s[n]) ELSE f[n - 1]
    <3>1. \A n \in 0..N : n = 0 \/ (n \in 1..N /\ n # 0)
      BY <1>1
    <3>2. f[0] = <<>>
      BY <1>4 DEF Iterates
    <3>3. QED
      BY <3>1, <3>2, <1>5
  <2>2. QED
    BY <2>1, <1>4 DEF Iterates
<1> DEFINE q == CHOOSE g : Fixed(g)
<1>7. Fixed(q)
  <2> HIDE DEF Fixed
  <2>1. QED
    BY <1>6, Zenon
<1>8. Only(s, K) = q[N]
  BY <1>2
<1> HIDE DEF q
<1>9. q[0] = <<>> /\ \A n \in 1..N : q[n] = IF s[n].key \in K THEN Append(q[n - 1], s[n]) ELSE q[n - 1]
  <2>1. \A n \in 0..N : q[n] = IF n = 0 THEN <<>>
                               ELSE IF s[n].key \in K THEN Append(q[n - 1], s[n]) ELSE q[n - 1]
    BY <1>7
  <2>2. 0 \in 0..N /\ \A n \in 1..N : n \in 0..N /\ n # 0
    BY <1>1
  <2>3. QED
    BY <2>1, <2>2
<1>10. \A n \in 0..N : q[n] \in Seq(Entry)
  <2> DEFINE Good == {m \in 0..N : q[m] \in Seq(Entry)}
  <2>1. 0 \in Good
    <3>1. 0 \in 0..N /\ <<>> \in Seq(Entry)
      BY <1>1
    <3>2. QED
      BY <3>1, <1>9
  <2>2. ASSUME NEW n \in 1..N, n - 1 \in Good PROVE n \in Good
    <3>1. q[n - 1] \in Seq(Entry) /\ n \in 0..N
      BY <2>2, <1>1
    <3>2. Append(q[n - 1], s[n]) \in Seq(Entry)
      BY <3>1, <1>1, AppendProperties
    <3>3. QED
      BY <3>1, <3>2, <1>9
  <2> HIDE DEF Good
  <2>3. \A n \in 0..N : n \in Good
    BY <2>1, <2>2, <1>1, UpTo
  <2>4. QED
    BY <2>3 DEF Good
<1>11. q \in [0..N -> Seq(Entry)]
  BY <1>7, <1>10
<1>12. QED
  BY <1>8, <1>9, <1>11 DEF Keeps, N

\* e tells, for each entry of r, from which of the first n entries of s it comes:
\* r is those of these keys, in their order.
Comes(e, r, s, n, K) ==
  /\ r \in Seq(Entry) /\ Len(r) <= n
  /\ e \in [1..Len(r) -> 1..n]
  /\ \A i \in 1..Len(r) : r[i] = s[e[i]] /\ s[e[i]].key \in K
  /\ \A i, j \in 1..Len(r) : i < j => e[i] < e[j]
  /\ \A m \in 1..n : s[m].key \in K => \E i \in 1..Len(r) : e[i] = m

LEMMA OnlyComes ==
  ASSUME NEW s \in Seq(Entry), NEW K
  PROVE  \E e : Comes(e, Only(s, K), s, Len(s), K)
<1>1. PICK q : Keeps(q, s, K) /\ Only(s, K) = q[Len(s)]
  BY OnlyKeeps
<1>2. Len(s) \in Nat /\ \A n \in 1..Len(s) : s[n] \in Entry
  BY Entries
<1> DEFINE Good == {n \in 0..Len(s) : \E e : Comes(e, q[n], s, n, K)}
<1>3. 0 \in Good
  <2>1. q[0] = <<>> /\ 0 \in 0..Len(s)
    BY <1>1, <1>2 DEF Keeps
  <2>2. Comes(<<>>, q[0], s, 0, K)
    BY <2>1 DEF Comes
  <2>3. QED
    BY <2>1, <2>2
<1>4. ASSUME NEW n \in 1..Len(s), n - 1 \in Good PROVE n \in Good
  <2>1. PICK e : Comes(e, q[n - 1], s, n - 1, K)
    BY <1>4
  <2>2. n \in 0..Len(s) /\ n \in Nat /\ n - 1 \in Nat
    BY <1>2
  <2>3. CASE s[n].key \notin K
    <3>1. q[n] = q[n - 1]
      BY <1>1, <2>3 DEF Keeps
    <3>2. Comes(e, q[n], s, n, K)
      BY <2>1, <2>2, <2>3, <3>1 DEF Comes
    <3>3. QED
      BY <2>2, <3>2
  <2>4. CASE s[n].key \in K
    <3> DEFINE p == q[n - 1]
               r == Append(p, s[n])
               g == [i \in 1..Len(r) |-> IF i = Len(r) THEN n ELSE e[i]]
    <3>1. q[n] = r
      BY <1>1, <2>4 DEF Keeps
    <3>2. p \in Seq(Entry) /\ Len(p) \in Nat /\ Len(p) <= n - 1
      BY <2>1, Entries DEF Comes
    <3>3. /\ r \in Seq(Entry) /\ Len(r) = Len(p) + 1 /\ r[Len(r)] = s[n]
          /\ \A i \in 1..Len(p) : r[i] = p[i]
      BY <3>2, <1>2, AppendProperties
    <3>4. /\ e \in [1..Len(p) -> 1..n - 1]
          /\ \A i \in 1..Len(p) : p[i] = s[e[i]] /\ s[e[i]].key \in K
          /\ \A i, j \in 1..Len(p) : i < j => e[i] < e[j]
          /\ \A m \in 1..n - 1 : s[m].key \in K => \E i \in 1..Len(p) : e[i] = m
      BY <2>1 DEF Comes
    <3> HIDE DEF p, r
    <3>5. \A i \in 1..Len(r) : i = Len(r) \/ i \in 1..Len(p)
      BY <3>2, <3>3
    <3>6. /\ g[Len(r)] = n
          /\ \A i \in 1..Len(p) : g[i] = e[i] /\ i \in 1..Len(r) /\ e[i] \in 1..n - 1
      <4>1. Len(r) \in 1..Len(r) /\ \A i \in 1..Len(p) : i \in 1..Len(r) /\ i # Len(r)
        BY <3>2, <3>3
      <4>2. \A i \in 1..Len(p) : e[i] \in 1..n - 1
        BY <3>4
      <4>3. QED
        BY <4>1, <4>2
    <3>7. g \in [1..Len(r) -> 1..n]
      <4>1. ASSUME NEW i \in 1..Len(r) PROVE g[i] \in 1..n
        <5>1. CASE i = Len(r)
          BY <5>1, <3>6, <2>2
        <5>2. CASE i \in 1..Len(p)
          <6>1. g[i] \in 1..n - 1
            BY <5>2, <3>6
          <6>2. QED
            BY <6>1, <2>2
        <5>3. QED
          BY <5>1, <5>2, <3>5
      <4>2. QED
        BY <4>1
    <3> HIDE DEF g
    <3>8. \A i \in 1..Len(r) : r[i] = s[g[i]] /\ s[g[i]].key \in K
      BY <2>4, <3>3, <3>4, <3>5, <3>6
    <3>9. ASSUME NEW i \in 1..Len(r), NEW j \in 1..Len(r), i < j PROVE g[i] < g[j]
      <4>1. i \in 1..Len(p)
        BY <3>9, <3>2, <3>3
      <4>2. CASE j = Len(r)
        BY <4>1, <4>2, <3>6, <2>2
      <4>3. CASE j \in 1..Len(p)
        BY <4>1, <4>3, <3>4, <3>6, <3>9
      <4>4. QED
        BY <4>2, <4>3, <3>5
    <3>10. ASSUME NEW m \in 1..n, s[m].key \in K PROVE \E i \in 1..Len(r) : g[i] = m
      <4>1. CASE m = n
        BY <4>1, <3>2, <3>3, <3>6
      <4>2. CASE m # n
        <5>1. PICK i \in 1..Len(p) : e[i] = m
          BY <4>2, <3>4, <3>10, <2>2
        <5>2. QED
          BY <5>1, <3>6
      <4>3. QED
        BY <4>1, <4>2
    <3>11. Comes(g, q[n], s, n, K)
      BY <3>1, <3>2, <3>3, <3>7, <3>8, <3>9, <3>10, <2>2 DEF Comes
    <3>12. QED
      BY <2>2, <3>11
  <2>5. QED
    BY <2>3, <2>4
<1>5. Len(s) \in Good
  <2>1. Len(s) \in 0..Len(s)
    BY <1>2
  <2> HIDE DEF Good
  <2>2. QED
    BY <1>2, <1>3, <1>4, <2>1, UpTo
<1>6. QED
  BY <1>1, <1>5

Distinct(s) == \A i, j \in 1..Len(s) : s[i].key = s[j].key => i = j
InOrder(s, o) == \A i, j \in 1..Len(s) : i < j => <<s[i].key, s[j].key>> \in o

\* What is kept has the same order and no key that it had not.
LEMMA OnlyFacts ==
  ASSUME NEW s \in Seq(Entry), NEW K
  PROVE  /\ Only(s, K) \in Seq(Entry) /\ Len(Only(s, K)) <= Len(s)
         /\ EntriesOf(Only(s, K)) = {x \in EntriesOf(s) : x.key \in K}
         /\ Distinct(s) => Distinct(Only(s, K))
         /\ \A o : InOrder(s, o) => InOrder(Only(s, K), o)
<1>1. PICK e : Comes(e, Only(s, K), s, Len(s), K)
  BY OnlyComes
<1> DEFINE r == Only(s, K)
<1>2. /\ r \in Seq(Entry) /\ Len(r) <= Len(s)
      /\ e \in [1..Len(r) -> 1..Len(s)]
      /\ \A i \in 1..Len(r) : r[i] = s[e[i]] /\ s[e[i]].key \in K
      /\ \A i, j \in 1..Len(r) : i < j => e[i] < e[j]
      /\ \A m \in 1..Len(s) : s[m].key \in K => \E i \in 1..Len(r) : e[i] = m
  BY <1>1 DEF Comes
<1> HIDE DEF r
<1>3. DOMAIN r = 1..Len(r) /\ DOMAIN s = 1..Len(s) /\ Len(r) \in Nat /\ Len(s) \in Nat
  BY <1>2, Entries
<1>4. EntriesOf(r) = {x \in EntriesOf(s) : x.key \in K}
  <2>1. ASSUME NEW x \in EntriesOf(r) PROVE x \in EntriesOf(s) /\ x.key \in K
    BY <1>2, <1>3 DEF EntriesOf
  <2>2. ASSUME NEW m \in 1..Len(s), s[m].key \in K PROVE s[m] \in EntriesOf(r)
    <3>1. PICK i \in 1..Len(r) : e[i] = m
      BY <1>2, <2>2
    <3>2. r[i] = s[m]
      BY <1>2, <3>1
    <3>3. QED
      BY <1>3, <3>2 DEF EntriesOf
  <2>3. QED
    BY <2>1, <2>2, <1>3 DEF EntriesOf
<1>5. Distinct(s) => Distinct(r)
  <2> SUFFICES ASSUME Distinct(s), NEW i \in 1..Len(r), NEW j \in 1..Len(r), r[i].key = r[j].key
               PROVE i = j
    BY DEF Distinct
  <2>1. e[i] \in 1..Len(s) /\ e[j] \in 1..Len(s) /\ r[i] = s[e[i]] /\ r[j] = s[e[j]]
    BY <1>2
  <2>2. e[i] = e[j] /\ e[i] \in Nat
    BY <2>1, <1>3 DEF Distinct
  <2>3. ~ (e[i] < e[j]) /\ ~ (e[j] < e[i])
    BY <2>2
  <2>4. ~ (i < j) /\ ~ (j < i)
    BY <2>3, <1>2
  <2>5. QED
    BY <2>4, <1>3
<1>6. ASSUME NEW o, InOrder(s, o) PROVE InOrder(r, o)
  <2> SUFFICES ASSUME NEW i \in 1..Len(r), NEW j \in 1..Len(r), i < j
               PROVE <<r[i].key, r[j].key>> \in o
    BY DEF InOrder
  <2>1. e[i] \in 1..Len(s) /\ e[j] \in 1..Len(s) /\ e[i] < e[j]
    BY <1>2
  <2>2. r[i] = s[e[i]] /\ r[j] = s[e[j]]
    BY <1>2
  <2>3. QED
    BY <2>1, <2>2, <1>6 DEF InOrder
<1>7. QED
  BY <1>2, <1>4, <1>5, <1>6 DEF r

\* What is kept and what is not weigh together what the sequence weighs, and
\* have together its length.
LEMMA WeightSplit ==
  ASSUME NEW s \in Seq(Entry), NEW K
  PROVE  /\ WeightOf(Only(s, K)) + WeightOf(Only(s, Plan \ K)) = WeightOf(s)
         /\ Len(Only(s, K)) + Len(Only(s, Plan \ K)) = Len(s)
<1>1. PICK q : Keeps(q, s, K) /\ Only(s, K) = q[Len(s)]
  BY OnlyKeeps
<1>2. PICK r : Keeps(r, s, Plan \ K) /\ Only(s, Plan \ K) = r[Len(s)]
  BY OnlyKeeps
<1>3. PICK t : Totals(t, s) /\ WeightOf(s) = t[Len(s)]
  BY WeightTotals
<1>4. /\ Len(s) \in Nat
      /\ \A n \in 1..Len(s) : s[n] \in Entry /\ s[n].key \in Plan /\ s[n].weight \in Nat
  BY Entries
<1> DEFINE Good == {n \in 0..Len(s) : /\ WeightOf(q[n]) + WeightOf(r[n]) = t[n]
                                      /\ Len(q[n]) + Len(r[n]) = n}
<1>5. 0 \in Good
  BY <1>1, <1>2, <1>3, <1>4, WeightEmpty DEF Keeps, Totals
<1>6. ASSUME NEW n \in 1..Len(s), n - 1 \in Good PROVE n \in Good
  <2>1. n \in 0..Len(s) /\ n - 1 \in 0..Len(s)
    BY <1>4
  <2>2. q[n - 1] \in Seq(Entry) /\ r[n - 1] \in Seq(Entry)
    BY <2>1, <1>1, <1>2 DEF Keeps
  <2>3. t[n] = t[n - 1] + s[n].weight /\ t[n - 1] \in Nat
    BY <2>1, <1>3 DEF Totals
  <2>4. WeightOf(q[n - 1]) + WeightOf(r[n - 1]) = t[n - 1] /\ Len(q[n - 1]) + Len(r[n - 1]) = n - 1
    BY <1>6
  <2>5. /\ WeightOf(q[n - 1]) \in Nat /\ WeightOf(r[n - 1]) \in Nat
        /\ Len(q[n - 1]) \in Nat /\ Len(r[n - 1]) \in Nat
    BY <2>2, WeightNat, Entries
  <2>6. CASE s[n].key \in K
    <3>1. q[n] = Append(q[n - 1], s[n]) /\ r[n] = r[n - 1]
      BY <2>6, <1>1, <1>2 DEF Keeps
    <3>2. WeightOf(q[n]) = WeightOf(q[n - 1]) + s[n].weight /\ Len(q[n]) = Len(q[n - 1]) + 1
      BY <3>1, <2>2, <1>4, WeightAppend, AppendProperties
    <3>3. s[n].weight \in Nat
      BY <1>4
    <3>4. WeightOf(q[n]) + WeightOf(r[n]) = t[n]
      BY <2>3, <2>4, <2>5, <3>1, <3>2, <3>3
    <3>5. Len(q[n]) + Len(r[n]) = n
      <4>1. n \in Nat
        BY <1>4
      <4> DEFINE a == Len(q[n - 1])
                 b == Len(r[n - 1])
      <4>2. a \in Nat /\ b \in Nat /\ a + b = n - 1
        BY <2>4, <2>5
      <4>3. Len(q[n]) = a + 1 /\ Len(r[n]) = b
        BY <3>1, <3>2, Zenon
      <4> HIDE DEF a, b
      <4>4. (a + 1) + b = n
        BY <4>1, <4>2
      <4>5. QED
        BY <4>3, <4>4, Zenon
    <3>6. QED
      BY <2>1, <3>4, <3>5
  <2>7. CASE s[n].key \notin K
    <3>1. r[n] = Append(r[n - 1], s[n]) /\ q[n] = q[n - 1]
      BY <2>7, <1>1, <1>2, <1>4 DEF Keeps
    <3>2. WeightOf(r[n]) = WeightOf(r[n - 1]) + s[n].weight /\ Len(r[n]) = Len(r[n - 1]) + 1
      BY <3>1, <2>2, <1>4, WeightAppend, AppendProperties
    <3>3. s[n].weight \in Nat
      BY <1>4
    <3>4. WeightOf(q[n]) + WeightOf(r[n]) = t[n]
      BY <2>3, <2>4, <2>5, <3>1, <3>2, <3>3
    <3>5. Len(q[n]) + Len(r[n]) = n
      <4>1. n \in Nat
        BY <1>4
      <4> DEFINE a == Len(q[n - 1])
                 b == Len(r[n - 1])
      <4>2. a \in Nat /\ b \in Nat /\ a + b = n - 1
        BY <2>4, <2>5
      <4>3. Len(q[n]) = a /\ Len(r[n]) = b + 1
        BY <3>1, <3>2, Zenon
      <4> HIDE DEF a, b
      <4>4. a + (b + 1) = n
        BY <4>1, <4>2
      <4>5. QED
        BY <4>3, <4>4, Zenon
    <3>6. QED
      BY <2>1, <3>4, <3>5
  <2>8. QED
    BY <2>6, <2>7
<1>7. Len(s) \in Good
  <2>1. Len(s) \in 0..Len(s)
    BY <1>4
  <2> HIDE DEF Good
  <2>2. QED
    BY <1>4, <1>5, <1>6, <2>1, UpTo
<1>8. QED
  BY <1>1, <1>2, <1>3, <1>7

---------------------------------------------------------------------------
(* What is written, used and evicted.                                       *)

\* The ceilings: of plans, and of bytes unless a single plan exceeds it alone.
Fits(s) ==
  /\ Len(s) <= MAX_EPHEMERAL
  /\ WeightOf(s) <= MAX_EPHEMERAL_BYTES \/ Len(s) = 1
  /\ Distinct(s)

LEMMA NothingWeighsNothing ==
  ASSUME NEW s \in Seq(Entry)
  PROVE  WeightOf(SubSeq(s, 1, 0)) = 0 /\ (Len(s) = 0 => WeightOf(s) = 0)
<1>1. SubSeq(s, 1, 0) = <<>>
  BY SubSeqEmpty
<1>2. Len(s) = 0 => s = <<>>
  BY EmptySeq
<1>3. QED
  BY <1>1, <1>2, WeightEmpty

\* The plan used now goes to the young end.
LEMMA Placed ==
  ASSUME NEW s \in Seq(Entry), Distinct(s), InOrder(s, older), NEW e \in Entry
  PROVE  LET p == Append(Without(s, {e.key}), e) IN
         /\ p \in Seq(Entry) /\ Len(p) = Len(Without(s, {e.key})) + 1 /\ p[Len(p)] = e
         /\ Without(s, {e.key}) \in Seq(Entry)
         /\ Distinct(p) /\ InOrder(p, Use(e.key))
         /\ WeightOf(p) = WeightOf(Without(s, {e.key})) + e.weight
         /\ EntriesOf(p) = {x \in EntriesOf(s) : x.key # e.key} \cup {e}
<1> DEFINE w == Without(s, {e.key})
           p == Append(w, e)
<1>1. /\ w \in Seq(Entry) /\ Len(w) \in Nat /\ Distinct(w) /\ InOrder(w, older)
      /\ EntriesOf(w) = {x \in EntriesOf(s) : x.key \in Plan \ {e.key}}
  BY OnlyFacts, Entries DEF Without
<1> HIDE DEF w
<1>2. /\ p \in Seq(Entry) /\ Len(p) = Len(w) + 1 /\ p[Len(p)] = e
      /\ \A i \in 1..Len(w) : p[i] = w[i]
      /\ WeightOf(p) = WeightOf(w) + e.weight
  BY <1>1, AppendProperties, WeightAppend
<1> HIDE DEF p
<1>3. DOMAIN p = 1..Len(p) /\ DOMAIN w = 1..Len(w) /\ DOMAIN s = 1..Len(s)
  BY <1>1, <1>2, Entries
<1>4. \A i \in 1..Len(p) : i = Len(p) \/ (i \in 1..Len(w) /\ i # Len(p))
  BY <1>1, <1>2
<1>5. \A i \in 1..Len(w) : w[i].key \in Plan \ {e.key}
  BY <1>1, <1>3 DEF EntriesOf
<1>6. Distinct(p)
  BY <1>1, <1>2, <1>4, <1>5 DEF Distinct
<1>7. ASSUME NEW i \in 1..Len(p), NEW j \in 1..Len(p), i < j
      PROVE <<p[i].key, p[j].key>> \in Use(e.key)
  <2>1. i \in 1..Len(w)
    BY <1>7, <1>1, <1>2, <1>4
  <2>2. CASE j = Len(p)
    BY <2>1, <2>2, <1>2, <1>5 DEF Use
  <2>3. CASE j \in 1..Len(w)
    <3>1. <<w[i].key, w[j].key>> \in older
      BY <2>1, <2>3, <1>1, <1>7 DEF InOrder
    <3>2. QED
      BY <3>1, <2>1, <2>3, <1>2, <1>5 DEF Use
  <2>4. QED
    BY <2>2, <2>3, <1>4
<1>8. EntriesOf(p) = EntriesOf(w) \cup {e}
  <2>1. ASSUME NEW x \in EntriesOf(p) PROVE x \in EntriesOf(w) \cup {e}
    BY <1>2, <1>3, <1>4 DEF EntriesOf
  <2>2. ASSUME NEW i \in 1..Len(w) PROVE w[i] \in EntriesOf(p)
    <3>1. i \in 1..Len(p) /\ p[i] = w[i]
      BY <1>1, <1>2
    <3>2. QED
      BY <3>1, <1>3 DEF EntriesOf
  <2>3. Len(p) \in 1..Len(p)
    BY <1>1, <1>2
  <2>4. QED
    BY <2>1, <2>2, <2>3, <1>2, <1>3 DEF EntriesOf
<1>9. \A x \in EntriesOf(s) : x.key \in Plan
  BY <1>3, Entries DEF EntriesOf
<1>10. QED
  BY <1>1, <1>2, <1>6, <1>7, <1>8, <1>9 DEF InOrder, p, w

\* Reading a plan only moves it.
LEMMA TouchedIs ==
  ASSUME NEW s \in Seq(Entry), Distinct(s), NEW k \in KeysOf(s)
  PROVE  \E e \in EntriesOf(s) :
           /\ e \in Entry /\ e.key = k /\ Touched(s, k) = Append(Without(s, {k}), e)
           /\ Len(Touched(s, k)) = Len(s) /\ WeightOf(Touched(s, k)) = WeightOf(s)
<1> DEFINE w == Without(s, {k})
           o == Only(s, {k})
<1>1. /\ w \in Seq(Entry) /\ o \in Seq(Entry) /\ Distinct(o)
      /\ EntriesOf(o) = {x \in EntriesOf(s) : x.key = k}
  BY OnlyFacts DEF Without
<1>2. WeightOf(o) + WeightOf(w) = WeightOf(s) /\ Len(o) + Len(w) = Len(s)
  BY WeightSplit DEF Without
<1>3. Touched(s, k) = w \o o
  BY DEF Touched
<1> HIDE DEF w, o
<1>4. DOMAIN o = 1..Len(o) /\ DOMAIN s = 1..Len(s) /\ Len(o) \in Nat /\ Len(w) \in Nat
  BY <1>1, Entries
<1>5. PICK e \in EntriesOf(s) : e.key = k
  BY DEF KeysOf, EntriesOf
<1>6. PICK i \in 1..Len(o) : o[i] = e
  BY <1>1, <1>4, <1>5 DEF EntriesOf
<1>7. \A j \in 1..Len(o) : o[j].key = k
  BY <1>1, <1>4 DEF EntriesOf
<1>8. Len(o) = 1
  <2>1. 1 \in 1..Len(o) /\ Len(o) \in 1..Len(o)
    BY <1>4, <1>6
  <2>2. o[1].key = o[Len(o)].key
    BY <2>1, <1>7
  <2>3. QED
    BY <2>1, <2>2, <1>1 DEF Distinct
<1>9. e \in Entry
  BY <1>4, Entries DEF EntriesOf
<1>10. o = <<e>>
  <2>1. <<e>> \in Seq(Entry) /\ Len(<<e>>) = 1 /\ <<e>>[1] = e /\ o[1] = e
    BY <1>6, <1>8, <1>9
  <2>2. \A j \in 1..Len(o) : o[j] = <<e>>[j]
    BY <2>1, <1>8
  <2>3. QED
    BY <2>1, <2>2, <1>1, <1>8, SeqEqual
<1>11. w \o o = Append(w, e)
  BY <1>1, <1>9, <1>10, AppendIsConcat
<1>12. WeightOf(w \o o) = WeightOf(s)
  BY <1>1, <1>2, WeightConcat, WeightNat
<1>13. Len(w \o o) = Len(s)
  BY <1>1, <1>2, <1>4, ConcatProperties
<1>14. QED
  BY <1>3, <1>5, <1>9, <1>11, <1>12, <1>13 DEF w

\* The coldest leave until the ceilings hold, and none leaves when they hold.
LEMMA PrunedFits ==
  ASSUME NEW s \in Seq(Entry), Distinct(s)
  PROVE  LET n == Pruned(s, WeightOf(s))
             r == SubSeq(s, n + 1, Len(s))
         IN /\ n \in 0..Len(s) /\ (Len(s) > 0 => n < Len(s))
            /\ r \in Seq(Entry) /\ Len(r) = Len(s) - n
            /\ \A i \in 1..Len(r) : r[i] = s[n + i] /\ n + i \in 1..Len(s)
            /\ WeightOf(r) = WeightOf(s) - WeightOf(SubSeq(s, 1, n))
            /\ Fits(r)
            /\ Fits(s) => r = s
<1> DEFINE Enough == {n \in 0..Len(s) :
              /\ Len(s) - n <= MAX_EPHEMERAL
              /\ Len(s) - n <= 1 \/ WeightOf(s) - WeightOf(SubSeq(s, 1, n)) <= MAX_EPHEMERAL_BYTES}
           n == Pruned(s, WeightOf(s))
           r == SubSeq(s, n + 1, Len(s))
<1>1. Len(s) \in Nat /\ WeightOf(s) \in Nat /\ \A i \in 1..Len(s) : s[i] \in Entry
  BY Entries, WeightNat
<1>2. n = CHOOSE x \in Enough : \A y \in Enough : x =< y
  BY DEF Pruned, Min
<1>3. Len(s) = 0 => 0 \in Enough
  BY <1>1, ResidentAssumption
<1>4. Len(s) > 0 => Len(s) - 1 \in Enough
  BY <1>1, ResidentAssumption
<1>5. PICK x \in Enough : \A y \in Enough : x <= y
  <2>1. Enough \in SUBSET Nat
    BY <1>1
  <2>2. Enough # {}
    <3>1. Len(s) = 0 \/ Len(s) > 0
      BY <1>1
    <3> HIDE DEF Enough
    <3>2. QED
      BY <3>1, <1>3, <1>4
  <2>3. QED
    BY <2>1, <2>2, Least
<1> HIDE DEF n
<1>6. n \in Enough /\ \A y \in Enough : n <= y
  <2> HIDE DEF Enough
  <2>1. QED
    BY <1>2, <1>5
<1>7. n \in 0..Len(s) /\ (Len(s) > 0 => n < Len(s))
  BY <1>1, <1>4, <1>6
<1>8. /\ r \in Seq(Entry) /\ Len(r) = Len(s) - n
      /\ \A i \in 1..Len(r) : r[i] = s[n + i] /\ n + i \in 1..Len(s)
  <2>1. \A i \in n + 1..Len(s) : s[i] \in Entry
    BY <1>1, <1>7
  <2>2. /\ r \in Seq(Entry) /\ Len(r) = IF n + 1 <= Len(s) THEN Len(s) - (n + 1) + 1 ELSE 0
        /\ \A i \in 1..Len(s) - (n + 1) + 1 : r[i] = s[n + 1 + i - 1]
    BY <2>1, <1>1, <1>7, SubSeqProperties
  <2>3. Len(r) = Len(s) - n
    BY <2>2, <1>1, <1>7
  <2>4. ASSUME NEW i \in 1..Len(r) PROVE r[i] = s[n + i] /\ n + i \in 1..Len(s)
    <3>1. i \in 1..Len(s) - (n + 1) + 1 /\ n + 1 + i - 1 = n + i
      BY <2>3, <1>1, <1>7
    <3>2. r[i] = s[n + i]
      <4>1. r[i] = s[n + 1 + i - 1]
        BY <3>1, <2>2
      <4>2. QED
        BY <3>1, <4>1
    <3>3. n + i \in 1..Len(s)
      BY <2>3, <1>1, <1>7
    <3>4. QED
      BY <3>2, <3>3
  <2>5. QED
    BY <2>2, <2>3, <2>4
<1>9. WeightOf(r) = WeightOf(s) - WeightOf(SubSeq(s, 1, n))
  BY <1>7, WeightCut
<1>10. Fits(r)
  <2>1. Len(r) <= MAX_EPHEMERAL
    BY <1>6, <1>8
  <2>2. WeightOf(r) <= MAX_EPHEMERAL_BYTES \/ Len(r) = 1
    <3>1. CASE Len(r) = 0
      <4>1. WeightOf(r) = 0
        BY <3>1, <1>8, NothingWeighsNothing
      <4>2. MAX_EPHEMERAL_BYTES \in Nat
        BY ResidentAssumption
      <4>3. QED
        BY <4>1, <4>2
    <3>2. CASE Len(r) # 0
      BY <3>2, <1>1, <1>6, <1>7, <1>8, <1>9
    <3>3. QED
      BY <3>1, <3>2
  <2>3. Distinct(r)
    <3> SUFFICES ASSUME NEW i \in 1..Len(r), NEW j \in 1..Len(r), r[i].key = r[j].key
                 PROVE i = j
      BY DEF Distinct
    <3>1. /\ s[n + i].key = s[n + j].key
          /\ n + i \in 1..Len(s) /\ n + j \in 1..Len(s)
      BY <1>8
    <3>2. n + i = n + j
      BY <3>1 DEF Distinct
    <3>3. QED
      BY <3>2, <1>7, <1>8
  <2>4. QED
    BY <2>1, <2>2, <2>3 DEF Fits
<1>11. ASSUME Fits(s) PROVE r = s
  <2>1. 0 \in Enough
    <3>1. WeightOf(SubSeq(s, 1, 0)) = 0
      BY NothingWeighsNothing
    <3>2. QED
      BY <3>1, <1>1, <1>11 DEF Fits
  <2>2. n = 0
    BY <2>1, <1>6, <1>7
  <2>3. QED
    BY <2>2, SubSeqFull
<1>12. QED
  BY <1>7, <1>8, <1>9, <1>10, <1>11 DEF n

---------------------------------------------------------------------------
(* The inductive invariant.  The running weight is the weight of what is    *)
(* held; memory and snapshot both keep under the ceilings, so that a        *)
(* restart restores all of the snapshot; and the sequence is in the order   *)
(* of use.                                                                  *)

ResidentTypes ==
  /\ up \in {"up", "saving", "leaving", "clean", "unsaved", "killed", "cut"}
  /\ mem \in Seq(Entry) /\ snapshot \in Seq(Entry)
  /\ pending \in 0..PERSIST_EVERY - 1 /\ behind \in Nat
  /\ faults \in Nat /\ lives \in Nat /\ mistaken \in BOOLEAN

MemoryFits == bytes = WeightOf(mem) /\ Fits(mem) /\ InOrder(mem, older)

\* The count starts again before the snapshot is written.
Idle == up \in {"saving", "leaving"} => pending = 0

ResidentInv == ResidentTypes /\ MemoryFits /\ Fits(snapshot) /\ Idle /\ BacklogIsTrue

LEMMA NothingFits ==
  <<>> \in Seq(Entry) /\ Fits(<<>>) /\ WeightOf(<<>>) = 0 /\ \A o : InOrder(<<>>, o)
<1>1. Len(<<>>) = 0 /\ WeightOf(<<>>) = 0
  BY WeightEmpty
<1>2. MAX_EPHEMERAL \in Nat /\ MAX_EPHEMERAL_BYTES \in Nat
  BY ResidentAssumption
<1>3. QED
  BY <1>1, <1>2 DEF Fits, Distinct, InOrder

\* A write places its plan at the young end and evicts from the cold one: the
\* weight stays true, the ceilings hold, and what left is older than what stayed.
LEMMA WriteFits ==
  ASSUME mem \in Seq(Entry), MemoryFits, NEW k \in Plan, NEW w \in Weight, SaveState(k, w)
  PROVE  /\ mem' \in Seq(Entry) /\ MemoryFits'
         /\ k \in KeysOf(mem')
         /\ (KeysOf(mem) \ KeysOf(mem')) \X KeysOf(mem') \subseteq older'
<1> DEFINE e == [key |-> k, weight |-> w]
           p == Append(Without(mem, {k}), e)
           n == Pruned(p, WeightOf(p))
<1>1. e \in Entry /\ e.key = k /\ e.weight = w
  BY DEF Entry
<1>2. /\ p \in Seq(Entry) /\ Distinct(p) /\ InOrder(p, Use(k))
      /\ Without(mem, {k}) \in Seq(Entry)
      /\ Len(p) = Len(Without(mem, {k})) + 1 /\ p[Len(p)] = e
      /\ WeightOf(p) = WeightOf(Without(mem, {k})) + w
      /\ EntriesOf(p) = {x \in EntriesOf(mem) : x.key # k} \cup {e}
  <2>1. Distinct(mem) /\ InOrder(mem, older)
    BY DEF MemoryFits, Fits
  <2> HIDE DEF e
  <2>2. QED
    BY <1>1, <2>1, Placed
<1>3. bytes - ForgetWeight(mem, {k}) + w = WeightOf(p)
  <2>1. WeightOf(Only(mem, {k})) + WeightOf(Without(mem, {k})) = WeightOf(mem)
    BY WeightSplit DEF Without
  <2>2. WeightOf(Only(mem, {k})) \in Nat /\ WeightOf(Without(mem, {k})) \in Nat
    BY <1>2, OnlyFacts, WeightNat
  <2>3. w \in Nat
    BY ResidentAssumption
  <2>4. QED
    BY <1>2, <2>1, <2>2, <2>3 DEF MemoryFits, ForgetWeight
<1>4. /\ mem' = SubSeq(p, n + 1, Len(p))
      /\ bytes' = WeightOf(p) - WeightOf(SubSeq(p, 1, n))
      /\ older' = Use(k)
  BY <1>3 DEF SaveState
<1> HIDE DEF p
<1>5. /\ n \in 0..Len(p) /\ mem' \in Seq(Entry) /\ Len(mem') = Len(p) - n
      /\ Len(p) > 0 => n < Len(p)
      /\ \A i \in 1..Len(mem') : mem'[i] = p[n + i] /\ n + i \in 1..Len(p)
      /\ bytes' = WeightOf(mem') /\ Fits(mem')
  <2> DEFINE r == SubSeq(p, n + 1, Len(p))
  <2>1. /\ n \in 0..Len(p) /\ r \in Seq(Entry) /\ Len(r) = Len(p) - n
        /\ Len(p) > 0 => n < Len(p)
        /\ \A i \in 1..Len(r) : r[i] = p[n + i] /\ n + i \in 1..Len(p)
        /\ WeightOf(r) = WeightOf(p) - WeightOf(SubSeq(p, 1, n))
        /\ Fits(r)
    BY <1>2, PrunedFits
  <2>2. mem' = r
    BY <1>4
  <2>3. bytes' = WeightOf(r)
    BY <1>4, <2>1
  <2> HIDE DEF r, n
  <2>4. QED
    BY <2>1, <2>2, <2>3
<1> HIDE DEF n
<1>6. Len(p) \in Nat /\ DOMAIN p = 1..Len(p) /\ DOMAIN mem' = 1..Len(mem') /\ n \in Nat
  BY <1>2, <1>5, Entries
<1>7. InOrder(mem', older')
  <2> SUFFICES ASSUME NEW i \in 1..Len(mem'), NEW j \in 1..Len(mem'), i < j
               PROVE  <<mem'[i].key, mem'[j].key>> \in older'
    BY DEF InOrder
  <2>1. /\ n + i \in 1..Len(p) /\ n + j \in 1..Len(p) /\ n + i < n + j
        /\ mem'[i] = p[n + i] /\ mem'[j] = p[n + j]
    BY <1>5, <1>6
  <2>2. QED
    BY <2>1, <1>2, <1>4 DEF InOrder
<1>8. ASSUME NEW c \in KeysOf(mem) \ KeysOf(mem'), NEW y \in KeysOf(mem')
      PROVE  <<c, y>> \in older'
  <2>1. PICK j \in 1..Len(mem') : y = mem'[j].key
    BY <1>6 DEF KeysOf
  <2>2. y = p[n + j].key /\ n + j \in 1..Len(p)
    BY <2>1, <1>5
  <2>3. PICK i \in 1..Len(p) : p[i].key = c
    <3>1. PICK x \in EntriesOf(mem) : x.key = c
      BY DEF KeysOf, EntriesOf
    <3>2. \E x2 \in EntriesOf(p) : x2.key = c
      BY <3>1, <1>1, <1>2
    <3>3. QED
      BY <3>2, <1>6 DEF EntriesOf
  <2>4. i <= n
    <3> SUFFICES ASSUME i > n PROVE FALSE
      BY <1>6
    <3>1. i - n \in 1..Len(mem') /\ n + (i - n) = i
      BY <1>5, <1>6
    <3>2. mem'[i - n] = p[i]
      BY <3>1, <1>5
    <3>3. QED
      BY <3>1, <3>2, <2>3, <1>6 DEF KeysOf
  <2>5. i < n + j
    BY <2>4, <1>6
  <2>6. QED
    BY <2>2, <2>3, <2>5, <1>2, <1>4 DEF InOrder
<1>9. k \in KeysOf(mem')
  <2>1. Len(Without(mem, {k})) \in Nat
    BY <1>2, Entries
  <2>2. Len(p) > 0
    BY <1>2, <2>1
  <2>3. Len(mem') \in 1..Len(mem') /\ n + Len(mem') = Len(p)
    BY <2>2, <1>5, <1>6
  <2>4. mem'[Len(mem')] = p[Len(p)]
    BY <2>3, <1>5
  <2>5. mem'[Len(mem')].key = k
    BY <2>4, <1>1, <1>2
  <2>6. QED
    BY <2>3, <2>5, <1>6 DEF KeysOf
<1>10. QED
  BY <1>4, <1>5, <1>7, <1>8, <1>9 DEF MemoryFits

\* A read moves its plan to the young end, and changes nothing else.
LEMMA ReadFits ==
  ASSUME mem \in Seq(Entry), MemoryFits, NEW k \in Plan, LoadState(k)
  PROVE  mem' \in Seq(Entry) /\ MemoryFits' /\ EntriesOf(mem') = EntriesOf(mem)
<1>1. mem' = Touched(mem, k) /\ older' = Use(k) /\ bytes' = bytes /\ k \in KeysOf(mem)
  BY DEF LoadState
<1>2. Distinct(mem) /\ InOrder(mem, older) /\ bytes = WeightOf(mem)
  BY DEF MemoryFits, Fits
<1>3. PICK e \in EntriesOf(mem) :
        /\ e \in Entry /\ e.key = k /\ mem' = Append(Without(mem, {k}), e)
        /\ Len(mem') = Len(mem) /\ WeightOf(mem') = WeightOf(mem)
  BY <1>1, <1>2, TouchedIs
<1>4. /\ mem' \in Seq(Entry) /\ Distinct(mem') /\ InOrder(mem', Use(k))
      /\ EntriesOf(mem') = {x \in EntriesOf(mem) : x.key # k} \cup {e}
  BY <1>2, <1>3, Placed
<1>5. \A x \in EntriesOf(mem) : x.key = k => x = e
  <2>1. DOMAIN mem = 1..Len(mem)
    BY Entries
  <2>2. QED
    BY <2>1, <1>2, <1>3 DEF EntriesOf, Distinct
<1>6. EntriesOf(mem') = EntriesOf(mem)
  BY <1>3, <1>4, <1>5
<1>7. Fits(mem')
  BY <1>3, <1>4 DEF MemoryFits, Fits
<1>8. QED
  BY <1>1, <1>2, <1>3, <1>4, <1>6, <1>7 DEF MemoryFits

\* A purge removes the plans of its scope with their weight.
LEMMA PurgeFits ==
  ASSUME mem \in Seq(Entry), MemoryFits, NEW scope \in Scope, NEW both \in BOOLEAN,
         Purge(scope, both)
  PROVE  mem' \in Seq(Entry) /\ MemoryFits'
<1> DEFINE gone == {k \in KeysOf(mem) : ScopeOf[k] = scope}
<1>1. /\ mem' = Only(mem, Plan \ gone) /\ older' = older
      /\ bytes' = bytes - WeightOf(Only(mem, gone))
  BY DEF Purge, Without, ForgetWeight
<1> HIDE DEF gone
<1>2. /\ mem' \in Seq(Entry) /\ Len(mem') <= Len(mem) /\ Distinct(mem') /\ InOrder(mem', older')
  BY <1>1, OnlyFacts DEF MemoryFits, Fits
<1>3. WeightOf(Only(mem, gone)) + WeightOf(mem') = WeightOf(mem)
  BY <1>1, WeightSplit
<1>4. WeightOf(Only(mem, gone)) \in Nat /\ WeightOf(mem') \in Nat /\ WeightOf(mem) \in Nat
  BY <1>2, OnlyFacts, WeightNat
<1>5. bytes' = WeightOf(mem')
  BY <1>1, <1>3, <1>4 DEF MemoryFits
<1>6. Len(mem) \in Nat /\ Len(mem') \in Nat
  BY <1>2, Entries
<1>7. WeightOf(mem') <= MAX_EPHEMERAL_BYTES \/ Len(mem') = 1
  <2>1. MAX_EPHEMERAL_BYTES \in Nat
    BY ResidentAssumption
  <2>2. CASE Len(mem') = 0
    <3>1. WeightOf(mem') = 0
      BY <2>2, <1>2, NothingWeighsNothing
    <3>2. QED
      BY <2>1, <3>1
  <2>3. CASE Len(mem') # 0 /\ WeightOf(mem) <= MAX_EPHEMERAL_BYTES
    BY <2>1, <2>3, <1>3, <1>4
  <2>4. CASE Len(mem') # 0 /\ Len(mem) = 1
    BY <2>4, <1>2, <1>6
  <2>5. QED
    BY <2>2, <2>3, <2>4 DEF MemoryFits, Fits
<1>8. Fits(mem')
  <2>1. MAX_EPHEMERAL \in Nat
    BY ResidentAssumption
  <2>2. QED
    BY <2>1, <1>2, <1>6, <1>7 DEF MemoryFits, Fits
<1>9. QED
  BY <1>2, <1>5, <1>8 DEF MemoryFits

\* A mutation is counted, or asks for a write: the backlog stays true.
LEMMA MutationCounts ==
  ASSUME ResidentInv, up = "up", mem' \in Seq(Entry), MemoryFits', CountMutation
  PROVE  ResidentInv'
<1>1. PERSIST_EVERY \in Nat /\ PERSIST_EVERY # 0 /\ 0 \in 0..PERSIST_EVERY - 1
  BY ResidentAssumption
<1>2. /\ pending \in Nat /\ pending < PERSIST_EVERY /\ behind \in Nat
      /\ faults \in Nat /\ lives \in Nat /\ mistaken \in BOOLEAN
      /\ Fits(snapshot) /\ snapshot \in Seq(Entry)
  BY <1>1 DEF ResidentInv, ResidentTypes
<1>3. /\ behind' = Capped(behind) /\ behind' \in Nat
      /\ UNCHANGED <<snapshot, faults, lives, mistaken>>
      /\ Fits(snapshot')
  BY <1>1, <1>2 DEF CountMutation, Capped, budget
<1>4. ASSUME ~mistaken PROVE behind = pending /\ behind' = pending + 1
  <2>1. behind = pending
    BY <1>4 DEF ResidentInv, BacklogIsTrue
  <2>2. QED
    BY <2>1, <1>1, <1>2, <1>3 DEF Capped
<1>5. CASE pending + 1 >= PERSIST_EVERY
  <2>1. pending' = 0 /\ up' = "saving"
    BY <1>5 DEF CountMutation, PersistTick
  <2>2. ~mistaken => behind' = PERSIST_EVERY
    BY <1>1, <1>2, <1>4, <1>5
  <2>3. BacklogIsTrue'
    BY <1>1, <1>3, <2>1, <2>2 DEF BacklogIsTrue
  <2>4. ResidentTypes'
    BY <1>1, <1>2, <1>3, <2>1 DEF ResidentTypes
  <2>5. QED
    BY <1>3, <2>1, <2>3, <2>4 DEF ResidentInv, Idle
<1>6. CASE ~ (pending + 1 >= PERSIST_EVERY)
  <2>1. pending' = pending + 1 /\ up' = "up"
    BY <1>6 DEF CountMutation, PersistTick
  <2>2. pending' \in 0..PERSIST_EVERY - 1
    BY <1>1, <1>2, <1>6, <2>1
  <2>3. ~mistaken => behind' = pending' /\ behind' # 0 /\ behind' <= PERSIST_EVERY - 1
    BY <1>1, <1>2, <1>4, <1>6, <2>1
  <2>4. BacklogIsTrue'
    BY <1>3, <2>1, <2>3 DEF BacklogIsTrue
  <2>5. ResidentTypes'
    BY <1>2, <1>3, <2>1, <2>2 DEF ResidentTypes
  <2>6. QED
    BY <1>3, <2>1, <2>4, <2>5 DEF ResidentInv, Idle
<1>7. QED
  BY <1>5, <1>6

\* A write of the snapshot holds all there is, and its failure is remembered.
LEMMA WriteSaves == ASSUME ResidentInv, WriteSnapshot PROVE ResidentInv'
<1>1. PERSIST_EVERY \in Nat /\ PERSIST_EVERY # 0 /\ 0 \in 0..PERSIST_EVERY - 1
  BY ResidentAssumption
<1>2. /\ up \in {"saving", "leaving"} /\ UNCHANGED <<mem, bytes, pending, lives, older>>
      /\ up' \in {"up", "clean", "unsaved"} /\ (up' = "up" => up = "saving")
  BY DEF WriteSnapshot
<1>3. MemoryFits'
  BY <1>2 DEF ResidentInv, MemoryFits, Fits, InOrder, Distinct
<1>4. CASE snapshot' = mem /\ behind' = 0 /\ UNCHANGED <<faults, mistaken>>
  <2>1. pending = 0
    BY <1>2 DEF ResidentInv, Idle
  <2>2. BacklogIsTrue'
    BY <1>1, <1>2, <1>4, <2>1 DEF BacklogIsTrue
  <2>3. QED
    BY <1>1, <1>2, <1>3, <1>4, <2>1, <2>2 DEF ResidentInv, ResidentTypes, MemoryFits, Idle
<1>5. CASE faults' = faults + 1 /\ mistaken' = TRUE /\ behind' = behind /\ snapshot' = snapshot
  BY <1>1, <1>2, <1>3, <1>5 DEF ResidentInv, ResidentTypes, BacklogIsTrue, Idle
<1>6. QED
  BY <1>4, <1>5 DEF WriteSnapshot

\* An exit writes what is not in the snapshot, or has nothing to write.
LEMMA ExitSaves == ASSUME ResidentInv, CleanExit PROVE ResidentInv'
<1>1. PERSIST_EVERY \in Nat /\ PERSIST_EVERY # 0 /\ 0 \in 0..PERSIST_EVERY - 1
  BY ResidentAssumption
<1>2. /\ up = "up" /\ pending' = 0 /\ up' = IF pending > 0 THEN "leaving" ELSE "clean"
      /\ UNCHANGED <<mem, bytes, snapshot, faults, lives, behind, mistaken, older>>
  BY DEF CleanExit, budget
<1>3. pending \in Nat
  BY <1>1 DEF ResidentInv, ResidentTypes
<1>4. MemoryFits'
  BY <1>2 DEF ResidentInv, MemoryFits, Fits, InOrder, Distinct
<1>5. BacklogIsTrue'
  BY <1>1, <1>2, <1>3 DEF ResidentInv, BacklogIsTrue
<1>6. QED
  BY <1>1, <1>2, <1>4, <1>5 DEF ResidentInv, ResidentTypes, Idle

\* A restart restores the snapshot whole, since it keeps under the ceilings, or
\* nothing.
LEMMA RestartRestores == ASSUME ResidentInv, Restore PROVE ResidentInv'
<1> DEFINE n == Pruned(snapshot, WeightOf(snapshot))
<1>1. /\ up' = "up" /\ pending' = 0 /\ behind' = 0 /\ lives' = lives + 1 /\ snapshot' = snapshot
      /\ bytes' = WeightOf(mem') /\ older' = UseOrder(mem')
  BY DEF Restore
<1>2. \/ mem' = SubSeq(snapshot, n + 1, Len(snapshot)) /\ UNCHANGED <<faults, mistaken>>
      \/ mem' = <<>> /\ faults' = faults + 1 /\ mistaken' = TRUE
  BY DEF Restore
<1>3. SubSeq(snapshot, n + 1, Len(snapshot)) = snapshot
  BY PrunedFits DEF ResidentInv, ResidentTypes, Fits
<1> HIDE DEF n
<1>4. mem' = snapshot \/ mem' = <<>>
  BY <1>2, <1>3
<1>5. mem' \in Seq(Entry) /\ Fits(mem')
  BY <1>4, NothingFits DEF ResidentInv, ResidentTypes
<1>6. InOrder(mem', older')
  <2>1. Len(mem') \in Nat
    BY <1>5, Entries
  <2> SUFFICES ASSUME NEW i \in 1..Len(mem'), NEW j \in 1..Len(mem'), i < j
               PROVE  <<mem'[i].key, mem'[j].key>> \in UseOrder(mem')
    BY <1>1 DEF InOrder
  <2>2. <<i, j>> \in {q \in (1..Len(mem')) \X (1..Len(mem')) : q[1] < q[2]}
    OBVIOUS
  <2>3. QED
    BY <2>2 DEF UseOrder
<1>7. MemoryFits'
  BY <1>1, <1>5, <1>6 DEF MemoryFits
<1>8. PERSIST_EVERY \in Nat /\ PERSIST_EVERY # 0 /\ 0 \in 0..PERSIST_EVERY - 1
  BY ResidentAssumption
<1>9. BacklogIsTrue'
  <2>1. mistaken' \/ mem' = snapshot
    BY <1>2, <1>3
  <2>2. behind' = 0 /\ pending' = 0 /\ up' = "up" /\ 0 < PERSIST_EVERY
    BY <1>1, <1>8
  <2>3. ~mistaken' => EntriesOf(snapshot') = EntriesOf(mem')
    BY <2>1, <1>1
  <2>4. 0 <= PERSIST_EVERY - 1
    BY <1>8
  <2>5. QED
    BY <2>2, <2>3, <2>4, Zenon DEF BacklogIsTrue
<1>10. ResidentTypes'
  <2>1. /\ mem \in Seq(Entry) /\ snapshot \in Seq(Entry)
        /\ faults \in Nat /\ lives \in Nat /\ mistaken \in BOOLEAN
    BY DEF ResidentInv, ResidentTypes
  <2>2. \/ faults' = faults /\ mistaken' = mistaken
        \/ faults' = faults + 1 /\ mistaken' = TRUE
    BY DEF Restore
  <2>3. faults' \in Nat /\ mistaken' \in BOOLEAN
    <3>1. faults' \in Nat
      BY <2>1, <2>2
    <3>2. mistaken' \in BOOLEAN
      BY <2>1, <2>2, Zenon
    <3>3. QED
      BY <3>1, <3>2
  <2>4. snapshot' \in Seq(Entry) /\ lives' \in Nat
    BY <1>1, <2>1
  <2>5. QED
    BY <1>1, <1>5, <1>8, <2>3, <2>4 DEF ResidentTypes
<1>11. Fits(snapshot')
  BY <1>1 DEF ResidentInv
<1>12. QED
  BY <1>1, <1>7, <1>9, <1>10, <1>11 DEF ResidentInv, Idle

LEMMA ResidentInitInv == ResidentInit => ResidentInv
<1> SUFFICES ASSUME ResidentInit PROVE ResidentInv
  OBVIOUS
<1>1. PERSIST_EVERY \in Nat /\ PERSIST_EVERY # 0 /\ 0 \in 0..PERSIST_EVERY - 1
  BY ResidentAssumption
<1>2. mem = <<>> /\ snapshot = <<>> /\ bytes = 0
  BY DEF ResidentInit
<1>3. Fits(mem) /\ Fits(snapshot) /\ mem \in Seq(Entry) /\ snapshot \in Seq(Entry)
  BY <1>2, NothingFits
<1>4. MemoryFits
  BY <1>2, <1>3, NothingFits DEF MemoryFits
<1>5. ResidentTypes
  BY <1>1, <1>3 DEF ResidentInit, ResidentTypes
<1>6. BacklogIsTrue
  BY <1>1, <1>2 DEF ResidentInit, BacklogIsTrue
<1>7. QED
  BY <1>3, <1>4, <1>5, <1>6 DEF ResidentInv, ResidentInit, Idle

LEMMA ResidentStep == ASSUME ResidentInv, [ResidentNext]_residentVars PROVE ResidentInv'
<1>1. mem \in Seq(Entry) /\ MemoryFits
  BY DEF ResidentInv, ResidentTypes
<1>2. ASSUME NEW k \in Plan, NEW w \in Weight, SaveState(k, w) PROVE ResidentInv'
  <2>1. mem' \in Seq(Entry) /\ MemoryFits'
    BY <1>1, <1>2, WriteFits
  <2>2. up = "up" /\ CountMutation
    BY <1>2 DEF SaveState
  <2>3. QED
    BY <2>1, <2>2, MutationCounts
<1>3. ASSUME NEW k \in Plan, LoadState(k) PROVE ResidentInv'
  <2>1. mem' \in Seq(Entry) /\ MemoryFits' /\ EntriesOf(mem') = EntriesOf(mem)
    BY <1>1, <1>3, ReadFits
  <2>2. UNCHANGED <<up, pending, snapshot, faults, lives, behind, mistaken>>
    BY <1>3 DEF LoadState, budget
  <2>3. QED
    BY <2>1, <2>2 DEF ResidentInv, ResidentTypes, BacklogIsTrue, Idle
<1>4. ASSUME NEW scope \in Scope, NEW both \in BOOLEAN, Purge(scope, both) PROVE ResidentInv'
  <2>1. mem' \in Seq(Entry) /\ MemoryFits'
    BY <1>1, <1>4, PurgeFits
  <2>2. up = "up" /\ CountMutation
    BY <1>4 DEF Purge
  <2>3. QED
    BY <2>1, <2>2, MutationCounts
<1>5. CASE CleanExit
  BY <1>5, ExitSaves
<1>6. CASE WriteSnapshot
  BY <1>6, WriteSaves
<1>7. CASE Die
  <2>1. /\ up \in {"up", "saving", "leaving"} /\ up' = IF up = "up" THEN "killed" ELSE "cut"
        /\ UNCHANGED <<mem, bytes, pending, snapshot, faults, lives, behind, mistaken, older>>
    BY <1>7 DEF Die, Running, budget
  <2>2. MemoryFits' /\ Fits(snapshot') /\ Idle'
    BY <2>1 DEF ResidentInv, MemoryFits, Fits, Distinct, InOrder, Idle
  <2>3. BacklogIsTrue'
    <3>1. PERSIST_EVERY \in Nat /\ behind \in Nat
      BY ResidentAssumption DEF ResidentInv, ResidentTypes
    <3>2. QED
      BY <2>1, <3>1 DEF ResidentInv, BacklogIsTrue
  <2>4. QED
    BY <2>1, <2>2, <2>3 DEF ResidentInv, ResidentTypes
<1>8. CASE Restore
  BY <1>8, RestartRestores
<1>9. CASE UNCHANGED residentVars
  <2>1. UNCHANGED <<up, mem, bytes, pending, snapshot, faults, lives, behind, mistaken, older>>
    BY <1>9 DEF residentVars, budget
  <2>2. QED
    BY <2>1 DEF ResidentInv, ResidentTypes, MemoryFits, BacklogIsTrue, Idle
<1>10. QED
  BY <1>2, <1>3, <1>4, <1>5, <1>6, <1>7, <1>8, <1>9 DEF ResidentNext

\* The inductive invariant of the memory holds in every reachable state.
THEOREM ResidentInvariant == ResidentSpec => []ResidentInv
  BY ResidentInitInv, ResidentStep, PTL DEF ResidentSpec

---------------------------------------------------------------------------

\* A sequence without a key twice has as many keys as entries.
LEMMA DistinctCounts ==
  ASSUME NEW s \in Seq(Entry), Distinct(s)
  PROVE  Cardinality(KeysOf(s)) = Len(s)
<1> DEFINE f == [i \in 1..Len(s) |-> s[i].key]
<1>1. Len(s) \in Nat /\ DOMAIN s = 1..Len(s)
  BY Entries
<1>2. f \in Bijection(1..Len(s), KeysOf(s))
  BY <1>1 DEF Distinct, KeysOf, Bijection, Injection, Surjection, IsInjective
<1>3. ExistsBijection(1..Len(s), KeysOf(s))
  BY <1>2 DEF ExistsBijection
<1>4. QED
  BY <1>1, <1>3, FS_CountingElements

\* The running weight of the memory is the weight of what it holds, and the
\* memory never exceeds its ceilings, whatever was written, read, purged or
\* restored (memory-store-pure.js evict).
THEOREM ResidentWithinCeilings == ResidentSpec => []WithinCeilings
<1>1. ResidentInv => WithinCeilings
  BY DistinctCounts DEF ResidentInv, ResidentTypes, MemoryFits, Fits, WithinCeilings
<1>2. QED
  BY <1>1, ResidentInvariant, PTL

\* What the daemon believes is not in the snapshot is what is not, over any
\* sequence of lives: a kill loses fewer than PERSIST_EVERY mutations, or that
\* many when it cuts the write (memory-store.js persistTick, flush, restore).
THEOREM ResidentBacklog == ResidentSpec => []BacklogIsTrue
<1>1. ResidentInv => BacklogIsTrue
  BY DEF ResidentInv
<1>2. QED
  BY <1>1, ResidentInvariant, PTL

\* A write keeps the plan it writes and evicts the plans used least recently
\* (memory-store-pure.js evict).
THEOREM ResidentColdestLeaves == ResidentSpec => ColdestLeaves
<1> DEFINE Coldest == \A k \in Plan, w \in Weight : SaveState(k, w) =>
                        /\ k \in KeysOf(mem')
                        /\ (KeysOf(mem) \ KeysOf(mem')) \X KeysOf(mem') \subseteq older'
<1>1. ResidentInv /\ [ResidentNext]_residentVars => [Coldest]_residentVars
  BY WriteFits DEF ResidentInv, ResidentTypes
<1>2. QED
  BY <1>1, ResidentInvariant, PTL DEF ResidentSpec, ColdestLeaves
=============================================================================
