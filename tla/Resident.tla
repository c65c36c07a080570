------------------------------ MODULE Resident ------------------------------
(***************************************************************************)
(* The memory of the resident daemon (memory-store.js and                  *)
(* memory-store-pure.js): the plans of the invocations in flight, least    *)
(* recently used first, under a ceiling of keys and one of bytes, saved to *)
(* a snapshot every so many mutations and on a clean exit.  The keys that  *)
(* outlive an action are not here: they are forwarded to the files of      *)
(* SessionStore.tla.                                                       *)
(***************************************************************************)
EXTENDS Naturals, Sequences, FiniteSets, FiniteSetsExt

CONSTANTS
  Plan,                \* the keys plan-<scope>...
  Scope, ScopeOf,
  Weight,              \* what a plan may weigh in the snapshot
  MAX_EPHEMERAL, MAX_EPHEMERAL_BYTES,
  PERSIST_EVERY,
  MaxFaults, MaxLives  \* bounds on the environment

ASSUME ResidentAssumption ==
  /\ ScopeOf \in [Plan -> Scope]
  /\ Weight \subseteq Nat
  /\ MAX_EPHEMERAL \in Nat \ {0} /\ MAX_EPHEMERAL_BYTES \in Nat
  /\ PERSIST_EVERY \in Nat \ {0}
  /\ MaxFaults \in Nat /\ MaxLives \in Nat

VARIABLES
  up,         \* "up"; "saving" or "leaving" while it writes its snapshot, as it serves or
              \* exits; or how it ended: "clean", "unsaved", "killed", "cut" in a write
  mem,        \* the plans held, coldest first; when down, those the dead daemon held
  bytes,      \* their running weight
  pending,    \* mutations the daemon believes are not in the snapshot
  snapshot,   \* the file
  faults, lives,
  (* ghosts *)
  behind,     \* mutations since it was last written
  mistaken,   \* a write of the snapshot, or its reading, failed
  older       \* the pairs of plans of which the first was last used before the second

budget == <<faults, lives>>
residentVars == <<up, mem, bytes, pending, snapshot, budget, behind, mistaken, older>>

Entry == [key : Plan, weight : Weight]
KeysOf(s) == {s[i].key : i \in DOMAIN s}
EntriesOf(s) == {s[i] : i \in DOMAIN s}

\* The entries of these keys, in their order, and the others.
Only(s, keys) ==
  LET kept[n \in 0..Len(s)] ==
        IF n = 0 THEN <<>>
        ELSE IF s[n].key \in keys THEN Append(kept[n - 1], s[n]) ELSE kept[n - 1]
  IN kept[Len(s)]
Without(s, gone) == Only(s, Plan \ gone)

WeightOf(s) ==
  LET total[n \in 0..Len(s)] == IF n = 0 THEN 0 ELSE total[n - 1] + s[n].weight
  IN total[Len(s)]

\* The plan used now is younger than every other.
Use(k) == {p \in older : p[1] # k} \cup {<<j, k>> : j \in Plan \ {k}}
UseOrder(s) ==
  {<<s[p[1]].key, s[p[2]].key>> : p \in {q \in (1..Len(s)) \X (1..Len(s)) : q[1] < q[2]}}

ResidentInit ==
  /\ up = "up" /\ mem = <<>> /\ bytes = 0 /\ pending = 0
  /\ snapshot = <<>>
  /\ faults = 0 /\ lives = 0
  /\ behind = 0 /\ mistaken = FALSE /\ older = {}

-----------------------------------------------------------------------------
\* Mutant of ForgetWeight: an overwritten plan keeps its old weight.
KeepWeight(s, gone) == 0

ForgetWeight(s, gone) == WeightOf(Only(s, gone))

\* Mutant of Pruned: the last one leaves too when it exceeds the ceiling alone.
PrunedToNothing(s, total) ==
  Min({n \in 0..Len(s) :
         /\ Len(s) - n <= MAX_EPHEMERAL
         /\ total - WeightOf(SubSeq(s, 1, n)) <= MAX_EPHEMERAL_BYTES})

\* How many of the coldest leave: while a ceiling is exceeded, never the last.
Pruned(s, total) ==
  Min({n \in 0..Len(s) :
         /\ Len(s) - n <= MAX_EPHEMERAL
         /\ Len(s) - n <= 1 \/ total - WeightOf(SubSeq(s, 1, n)) <= MAX_EPHEMERAL_BYTES})

\* Mutant of PersistTick: one mutation too many.
PersistTickLate(n) == [pending |-> IF n + 1 > PERSIST_EVERY THEN 0 ELSE n + 1,
                       persist |-> n + 1 > PERSIST_EVERY]

PersistTick(n) == [pending |-> IF n + 1 >= PERSIST_EVERY THEN 0 ELSE n + 1,
                   persist |-> n + 1 >= PERSIST_EVERY]

Capped(n) == IF n < 2 * PERSIST_EVERY THEN n + 1 ELSE n

\* The backlog is zero before the snapshot is written.
CountMutation ==
  LET t == PersistTick(pending) IN
  /\ pending' = t.pending /\ behind' = Capped(behind)
  /\ up' = IF t.persist THEN "saving" ELSE "up"
  /\ UNCHANGED <<snapshot, budget, mistaken>>

\* A temporary file and a rename: the new content or, when it fails, the old.
WriteSnapshot ==
  /\ up \in {"saving", "leaving"}
  /\ \/ /\ snapshot' = mem /\ behind' = 0
        /\ up' = IF up = "saving" THEN "up" ELSE "clean"
        /\ UNCHANGED <<faults, mistaken>>
     \/ /\ faults < MaxFaults /\ faults' = faults + 1
        /\ mistaken' = TRUE
        /\ up' = IF up = "saving" THEN "up" ELSE "unsaved"
        /\ UNCHANGED <<snapshot, behind>>
  /\ UNCHANGED <<mem, bytes, pending, lives, older>>

\* Delete, then set at the young end, then evict, in one gesture.
SaveState(k, w) ==
  LET placed == Append(Without(mem, {k}), [key |-> k, weight |-> w])
      total == bytes - ForgetWeight(mem, {k}) + w
      n == Pruned(placed, total)
  IN
  /\ up = "up"
  /\ mem' = SubSeq(placed, n + 1, Len(placed))
  /\ bytes' = total - WeightOf(SubSeq(placed, 1, n))
  /\ older' = Use(k)
  /\ CountMutation

Touched(s, k) == Without(s, {k}) \o Only(s, {k})

LoadState(k) ==
  /\ up = "up" /\ k \in KeysOf(mem)
  /\ mem' = Touched(mem, k)
  /\ older' = Use(k)
  /\ UNCHANGED <<up, bytes, pending, snapshot, budget, behind, mistaken>>

\* One mutation, however many plans or files of the scope go; none, none.
Purge(scope, files) ==
  LET gone == {k \in KeysOf(mem) : ScopeOf[k] = scope} IN
  /\ up = "up" /\ (gone # {} \/ files)
  /\ mem' = Without(mem, gone)
  /\ bytes' = bytes - ForgetWeight(mem, gone)
  /\ CountMutation
  /\ UNCHANGED older

-----------------------------------------------------------------------------
\* A stop, an idle end, new code: process.exit runs flush.
CleanExit ==
  /\ up = "up" /\ up' = IF pending > 0 THEN "leaving" ELSE "clean"
  /\ pending' = 0
  /\ UNCHANGED <<mem, bytes, snapshot, budget, behind, mistaken, older>>

Running == up \in {"up", "saving", "leaving"}

Die ==
  /\ Running /\ up' = IF up = "up" THEN "killed" ELSE "cut"
  /\ UNCHANGED <<mem, bytes, pending, snapshot, budget, behind, mistaken, older>>

\* restore, before the socket is open; what cannot be read is empty.
Restore ==
  /\ ~Running /\ up' = "up"
  /\ lives < MaxLives /\ lives' = lives + 1
  /\ pending' = 0 /\ behind' = 0
  /\ \/ LET n == Pruned(snapshot, WeightOf(snapshot)) IN
        /\ mem' = SubSeq(snapshot, n + 1, Len(snapshot))
        /\ UNCHANGED <<faults, mistaken>>
     \/ /\ faults < MaxFaults /\ faults' = faults + 1
        /\ mem' = <<>> /\ mistaken' = TRUE
  /\ bytes' = WeightOf(mem')
  /\ older' = UseOrder(mem')
  /\ UNCHANGED snapshot

ResidentNext ==
  \/ \E k \in Plan : LoadState(k) \/ \E w \in Weight : SaveState(k, w)
  \/ \E s \in Scope, files \in BOOLEAN : Purge(s, files)
  \/ WriteSnapshot \/ CleanExit \/ Die \/ Restore

ResidentSpec == ResidentInit /\ [][ResidentNext]_residentVars

-----------------------------------------------------------------------------
\* The running weight is the weight of what is held; one ceiling binds the
\* count, the other the bytes unless a single plan exceeds it alone; and no
\* plan is held twice.
WithinCeilings ==
  /\ bytes = WeightOf(mem)
  /\ Len(mem) <= MAX_EPHEMERAL
  /\ bytes <= MAX_EPHEMERAL_BYTES \/ Len(mem) = 1
  /\ Cardinality(KeysOf(mem)) = Len(mem)

\* A write keeps the plan it writes, alone above the ceiling as it may be, and
\* evicts the plans used least recently, whatever was read, purged or restored
\* before (memory-store-pure.js evict).
ColdestLeaves ==
  [][\A k \in Plan, w \in Weight : SaveState(k, w) =>
       /\ k \in KeysOf(mem')
       /\ (KeysOf(mem) \ KeysOf(mem')) \X KeysOf(mem') \subseteq older']_residentVars

\* As long as no write failed, what the daemon believes is not in the snapshot
\* is exactly what is not, over any sequence of lives: a kill loses fewer than
\* PERSIST_EVERY mutations, or PERSIST_EVERY when it cuts the write that the
\* count had asked for, and a clean exit none.
BacklogIsTrue ==
  ~mistaken =>
    /\ up = "up" => behind = pending
    /\ up = "saving" => behind = PERSIST_EVERY
    /\ behind <= IF up \in {"saving", "cut"} THEN PERSIST_EVERY ELSE PERSIST_EVERY - 1
    /\ up = "clean" => behind = 0
    /\ behind = 0 => EntriesOf(snapshot) = EntriesOf(mem)

\* memory-store.js:43: the state survives a clean restart entirely, that is an
\* exit that could write its snapshot, whatever failed earlier.
CleanExitSavesAll == up = "clean" => EntriesOf(snapshot) = EntriesOf(mem)
=============================================================================
