---------------------------- MODULE SessionStore ----------------------------
(***************************************************************************)
(* The files of state/ (src/src/session-store.js), one per key, between    *)
(* processes: read-decide-write under the lock of the scope, reads without *)
(* it, the purge of a compaction and the eviction of a sweep.  A save      *)
(* writes a temporary sibling and renames it; on Windows the name is       *)
(* absent between the two halves of a replacing rename, and the rename     *)
(* fails while a reader has the file open.                                 *)
(***************************************************************************)
EXTENDS Naturals, FiniteSets

CONSTANTS
  Key,           \* one record per scope; its scope's lock has the same name
  Under,         \* the keys a purge asked for a key sweeps: its own and its sub-agents'
  Writer,        \* hooks that take the lock, read, decide and save
  Reader,        \* frames that did not get the lock: they only read
  Purger,        \* the PreCompact hook
  None, Absent,
  RENAME_RETRIES,
  MaxFacts, MaxPurges, MaxKills, MaxEvictions   \* bounds on the environment

Proc == Writer \cup Reader \cup Purger
Fact == 1..MaxFacts

ASSUME StoreAssumption ==
  /\ Under \in [Key -> SUBSET Key]
  /\ \A k \in Key : k \in Under[k]
  /\ Writer \cap Reader = {} /\ Writer \cap Purger = {} /\ Reader \cap Purger = {}
  /\ None \notin Proc \cup Key
  /\ \A c \in SUBSET Fact : c # Absent
  /\ RENAME_RETRIES \in Nat \ {0}
  /\ MaxFacts \in Nat

VARIABLES
  platform,   \* "posix" or "windows"
  file,       \* what each key's file holds, or Absent
  renamer,    \* the process between the two halves of a replacing rename
  tmp,        \* each process's temporary sibling: a content, or Absent
  orphan,     \* keys with a temporary sibling whose writer is dead
  holder,     \* the lock of each scope
  pc, key,    \* where a process stands, on which key
  got,        \* the content it read
  tries,      \* attempts its loop has made
  todo,       \* the names a purge has listed and not yet removed
  facts, purges, kills, evictions,
  (* ghosts *)
  candidates, \* values the key had since the process began to read
  crossed,    \* a change of the key was under way meanwhile
  recorded,   \* facts whose save succeeded since the last purge or eviction
  purged      \* facts of the files that purges removed

disk == <<file, renamer, tmp, orphan>>
local == <<pc, key, got, tries>>
budget == <<facts, purges, kills, evictions>>
ghosts == <<candidates, crossed, recorded, purged>>
vars == <<platform, disk, holder, local, todo, budget, ghosts>>

Content(k) == IF file[k] = Absent THEN {} ELSE file[k]
Named(k) == file[k] # Absent /\ renamer[k] = None
WriteInFlight(k) == k \in orphan \/ \E w \in Writer : key[w] = k /\ tmp[w] # Absent
Reading(p) == pc[p] \in {"read", "open", "list"}

\* A file written in place is truncated before it is filled (mutant of HasWindow).
TruncatesFirst == TRUE

\* Replacing an existing file is two moments on Windows, one elsewhere.
HasWindow == platform = "windows"

\* Pending reads of a key see a new value of it, or that one is coming.
Seen(k, values) ==
  [p \in Proc |-> IF Reading(p) /\ key[p] = k THEN candidates[p] \cup values ELSE candidates[p]]
Crossed(k) == [p \in Proc |-> crossed[p] \/ (Reading(p) /\ key[p] = k)]

Init ==
  /\ platform \in {"posix", "windows"}
  /\ file = [k \in Key |-> Absent]
  /\ renamer = [k \in Key |-> None]
  /\ tmp = [w \in Writer |-> Absent]
  /\ orphan = {}
  /\ holder = [k \in Key |-> None]
  /\ pc = [p \in Proc |-> "idle"]
  /\ key = [p \in Proc |-> None]
  /\ got = [p \in Proc |-> {}]
  /\ tries = [p \in Proc |-> 0]
  /\ todo = [p \in Purger |-> {}]
  /\ facts = 0 /\ purges = 0 /\ kills = 0 /\ evictions = 0
  /\ candidates = [p \in Proc |-> {}]
  /\ crossed = [p \in Proc |-> FALSE]
  /\ recorded = [k \in Key |-> {}]
  /\ purged = [k \in Key |-> {}]

\* The process has nothing under way any more.
Rest(p) ==
  /\ pc' = [pc EXCEPT ![p] = "idle"]
  /\ key' = [key EXCEPT ![p] = None]
  /\ got' = [got EXCEPT ![p] = {}]
  /\ tries' = [tries EXCEPT ![p] = 0]
  /\ candidates' = [candidates EXCEPT ![p] = {}]
  /\ crossed' = [crossed EXCEPT ![p] = FALSE]
  /\ UNCHANGED <<recorded, purged>>

-----------------------------------------------------------------------------
(* loadState: readThrough.                                                 *)

Begin(p, k) ==
  /\ pc[p] = "idle"
  /\ pc' = [pc EXCEPT ![p] = "read"]
  /\ key' = [key EXCEPT ![p] = k]
  /\ candidates' = [candidates EXCEPT ![p] = {Content(k)}]
  /\ crossed' = [crossed EXCEPT ![p] = renamer[k] # None]
  /\ UNCHANGED <<platform, disk, got, tries, todo, budget, recorded, purged>>

Peek(r, k) == Begin(r, k) /\ UNCHANGED holder

\* A read-decide-write that does not take the lock (mutant of CanLock).
NoLockTaken(p, k) == TRUE

CanLock(p, k) == holder[k] = None

Lock(w, k) ==
  /\ CanLock(w, k)
  /\ Begin(w, k)
  /\ facts < MaxFacts
  /\ holder' = [holder EXCEPT ![k] = w]

\* The file is opened, or its name is not there.
Open(p) ==
  /\ pc[p] = "read"
  /\ IF Named(key[p])
     THEN /\ pc' = [pc EXCEPT ![p] = "open"]
          /\ got' = [got EXCEPT ![p] = file[key[p]]]
     ELSE pc' = [pc EXCEPT ![p] = "list"] /\ UNCHANGED got
  /\ UNCHANGED <<platform, disk, holder, key, tries, todo, budget, ghosts>>

\* The read is over: a writer goes on to save, a reader is done.
Close(p) ==
  /\ pc[p] = "open"
  /\ pc' = [pc EXCEPT ![p] = "answered"]
  /\ UNCHANGED <<platform, disk, holder, key, got, tries, todo, budget, ghosts>>

\* ENOENT: is a write in flight?  Then read again, up to the bound; else {}.
List(p) ==
  /\ pc[p] = "list"
  /\ tries' = [tries EXCEPT ![p] = @ + 1]
  /\ pc' = [pc EXCEPT ![p] =
              IF WriteInFlight(key[p]) /\ tries[p] + 1 < RENAME_RETRIES THEN "read" ELSE "answered"]
  /\ UNCHANGED <<platform, disk, holder, key, got, todo, budget, ghosts>>

Done(r) ==
  /\ r \in Reader /\ pc[r] = "answered"
  /\ Rest(r)
  /\ UNCHANGED <<platform, disk, holder, todo, budget>>

-----------------------------------------------------------------------------
(* saveState: a temporary sibling, then a rename.                          *)

WriteTmp(w) ==
  /\ w \in Writer /\ pc[w] = "answered" /\ facts < MaxFacts
  /\ facts' = facts + 1
  /\ tmp' = [tmp EXCEPT ![w] = got[w] \cup {facts + 1}]
  /\ tries' = [tries EXCEPT ![w] = 0]
  /\ pc' = [pc EXCEPT ![w] = "rename"]
  /\ candidates' = [candidates EXCEPT ![w] = {}]
  /\ crossed' = [crossed EXCEPT ![w] = FALSE]
  /\ UNCHANGED <<platform, file, renamer, orphan, holder, key, got, todo,
                 purges, kills, evictions, recorded, purged>>

\* The decision changed nothing, or the directory cannot be written.
NoSave(w) ==
  /\ w \in Writer /\ pc[w] = "answered"
  /\ pc' = [pc EXCEPT ![w] = "release"]
  /\ UNCHANGED <<platform, disk, holder, key, got, tries, todo, budget, ghosts>>

HeldOpen(k) == \E p \in Proc : pc[p] = "open" /\ key[p] = k

\* The name stops existing until PublishTmp; readers of it cross a change.
StartRename(w) ==
  /\ pc[w] = "rename"
  /\ HasWindow /\ file[key[w]] # Absent /\ ~HeldOpen(key[w])
  /\ renamer' = [renamer EXCEPT ![key[w]] = w]
  /\ crossed' = Crossed(key[w])
  /\ pc' = [pc EXCEPT ![w] = "renaming"]
  /\ UNCHANGED <<platform, file, tmp, orphan, holder, key, got, tries, todo, budget,
                 candidates, recorded, purged>>

\* EPERM on Windows; the last attempt drops the temporary file and the write.
RenameFails(w) ==
  /\ pc[w] = "rename"
  /\ platform = "windows" /\ HeldOpen(key[w])
  /\ tries' = [tries EXCEPT ![w] = @ + 1]
  /\ IF tries[w] + 1 < RENAME_RETRIES
     THEN UNCHANGED <<tmp, pc>>
     ELSE /\ tmp' = [tmp EXCEPT ![w] = Absent]
          /\ pc' = [pc EXCEPT ![w] = "release"]
  /\ UNCHANGED <<platform, file, renamer, orphan, holder, key, got, todo, budget, ghosts>>

PublishTmp(w) ==
  LET k == key[w] IN
  /\ \/ pc[w] = "renaming"
     \/ pc[w] = "rename" /\ (file[k] = Absent \/ ~HasWindow)
  /\ file' = [file EXCEPT ![k] = tmp[w]]
  /\ renamer' = [renamer EXCEPT ![k] = None]
  /\ tmp' = [tmp EXCEPT ![w] = Absent]
  /\ pc' = [pc EXCEPT ![w] = "release"]
  /\ candidates' = Seen(k, {tmp[w]})
  /\ crossed' = Crossed(k)
  /\ recorded' = [recorded EXCEPT ![k] = @ \cup (tmp[w] \ got[w])]
  /\ UNCHANGED <<platform, orphan, holder, key, got, tries, todo, budget, purged>>

Release(p) ==
  /\ pc[p] = "release"
  /\ holder' = [holder EXCEPT ![key[p]] = None]
  /\ Rest(p)
  /\ UNCHANGED <<platform, disk, todo, budget>>

\* A writer dies; Lock.tla shows that its lock is taken from it.  A rename that
\* has begun is the kernel's and ends all the same.
Kill(w) ==
  /\ kills < MaxKills
  /\ pc[w] \notin {"idle", "renaming"}
  /\ kills' = kills + 1
  /\ orphan' = IF tmp[w] # Absent THEN orphan \cup {key[w]} ELSE orphan
  /\ tmp' = [tmp EXCEPT ![w] = Absent]
  /\ holder' = [holder EXCEPT ![key[w]] = None]
  /\ Rest(w)
  /\ UNCHANGED <<platform, file, renamer, todo, facts, purges, evictions>>

-----------------------------------------------------------------------------
(* The purge of a compaction, under the lock of the key it is asked for.   *)

\* A purge that runs bare (mutant of CanPurge).
PurgeBare(k) == TRUE

CanPurge(k) == holder[k] = None

StartPurge(p, k) ==
  /\ pc[p] = "idle" /\ CanPurge(k) /\ purges < MaxPurges
  /\ purges' = purges + 1
  /\ holder' = [holder EXCEPT ![k] = p]
  /\ key' = [key EXCEPT ![p] = k]
  /\ pc' = [pc EXCEPT ![p] = "purge"]
  /\ UNCHANGED <<platform, disk, got, tries, todo, facts, kills, evictions, ghosts>>

\* The listing is taken under the lock.
ListNames(p) ==
  /\ pc[p] = "purge"
  /\ todo' = [todo EXCEPT ![p] = {k \in Under[key[p]] : Named(k)}]
  /\ pc' = [pc EXCEPT ![p] = "remove"]
  /\ UNCHANGED <<platform, disk, holder, key, got, tries, budget, ghosts>>

\* The file goes away, and what was recorded in it is forgotten.
Forget(k) ==
  /\ file' = [file EXCEPT ![k] = IF Named(k) THEN Absent ELSE @]
  /\ candidates' = IF Named(k) THEN Seen(k, {{}}) ELSE candidates
  /\ crossed' = IF Named(k) THEN Crossed(k) ELSE crossed
  /\ recorded' = [recorded EXCEPT ![k] = {}]

Remove(p) ==
  /\ pc[p] = "remove"
  /\ \E k \in todo[p] :
       /\ todo' = [todo EXCEPT ![p] = @ \ {k}]
       /\ purged' = [purged EXCEPT ![k] = IF Named(k) THEN @ \cup Content(k) ELSE @]
       /\ Forget(k)
  /\ UNCHANGED <<platform, renamer, tmp, orphan, holder, local, budget>>

\* The listing or a removal throws: the section ends there and the hook goes on.
PurgeAborts(p) ==
  /\ \/ pc[p] = "purge"
     \/ pc[p] = "remove" /\ todo[p] # {}
  /\ todo' = [todo EXCEPT ![p] = {}]
  /\ holder' = [holder EXCEPT ![key[p]] = None]
  /\ Rest(p)
  /\ UNCHANGED <<platform, disk, budget>>

PurgeDone(p) ==
  /\ pc[p] = "remove" /\ todo[p] = {}
  /\ holder' = [holder EXCEPT ![key[p]] = None]
  /\ Rest(p)
  /\ UNCHANGED <<platform, disk, todo, budget>>

-----------------------------------------------------------------------------
(* The sweep of a prompt takes no lock: beyond the ceiling the coldest     *)
(* records go, and a temporary file older than any writer can live.        *)

EvictCold(k) ==
  /\ evictions < MaxEvictions /\ Named(k)
  /\ evictions' = evictions + 1
  /\ Forget(k)
  /\ UNCHANGED <<platform, renamer, tmp, orphan, holder, local, todo, facts, purges, kills, purged>>

EvictScratch(k) ==
  /\ k \in orphan
  /\ orphan' = orphan \ {k}
  /\ UNCHANGED <<platform, file, renamer, tmp, holder, local, todo, budget, ghosts>>

-----------------------------------------------------------------------------
Next ==
  \/ \E k \in Key :
       \/ \E r \in Reader : Peek(r, k)
       \/ \E w \in Writer : Lock(w, k)
       \/ \E p \in Purger : StartPurge(p, k)
       \/ EvictCold(k) \/ EvictScratch(k)
  \/ \E p \in Proc : Open(p) \/ Close(p) \/ List(p)
  \/ \E r \in Reader : Done(r)
  \/ \E w \in Writer : WriteTmp(w) \/ NoSave(w) \/ StartRename(w) \/ RenameFails(w)
                       \/ PublishTmp(w) \/ Release(w) \/ Kill(w)
  \/ \E p \in Purger : ListNames(p) \/ Remove(p) \/ PurgeAborts(p) \/ PurgeDone(p)

Spec == Init /\ [][Next]_vars

-----------------------------------------------------------------------------
\* Every variable keeps its type.
TypeOK ==
  /\ platform \in {"posix", "windows"}
  /\ file \in [Key -> (SUBSET Fact) \cup {Absent}]
  /\ renamer \in [Key -> Writer \cup {None}]
  /\ tmp \in [Writer -> (SUBSET Fact) \cup {Absent}]
  /\ orphan \in SUBSET Key
  /\ holder \in [Key -> Writer \cup Purger \cup {None}]
  /\ pc \in [Proc -> {"idle", "read", "open", "list", "answered", "rename", "renaming",
                      "release", "purge", "remove"}]
  /\ key \in [Proc -> Key \cup {None}]
  /\ got \in [Proc -> SUBSET Fact]
  /\ tries \in [Proc -> 0..RENAME_RETRIES]
  /\ todo \in [Purger -> SUBSET Key]
  /\ facts \in 0..MaxFacts
  /\ candidates \in [Proc -> SUBSET SUBSET Fact]
  /\ crossed \in [Proc -> BOOLEAN]
  /\ recorded \in [Key -> SUBSET Fact]
  /\ purged \in [Key -> SUBSET Fact]

\* What a writer was told it saved stays in the file until a purge or an
\* eviction, whoever else reads, saves, dies or purges meanwhile: no
\* read-decide-write of another process puts an older content back.
RecordsSurvive == \A k \in Key : recorded[k] \subseteq Content(k)

\* What a purge took out of the key whose lock it held never comes back, even
\* when the purge breaks off after it: no writer republishes a content it read
\* before the removal.
PurgedStaysPurged ==
  \A k \in Key :
    (\A j \in Key : k \in Under[j] => j = k) => Content(k) \cap purged[k] = {}

\* ctxroute-reset.js:129 puts the sweep "under the same lock as every other
\* writer", so that no record comes back from the dead, whichever key it swept.
SweptStaysSwept == \A k \in Key : Content(k) \cap purged[k] = {}

\* session-store.js:86: without a sibling the absence is a fact and {} is true.
AbsenceIsAFact ==
  \A r \in Reader :
    pc[r] = "answered" /\ got[r] = {} /\ tries[r] < RENAME_RETRIES => {} \in candidates[r]

\* What Register.tla is shown of the reads and the files.
Reads(p) ==
  IF Reading(p)
  THEN [state |-> "pending", key |-> key[p], candidates |-> candidates[p], crossed |-> crossed[p], answer |-> {}]
  ELSE IF pc[p] = "answered"
  THEN [state |-> "answered", key |-> key[p], candidates |-> candidates[p], crossed |-> crossed[p], answer |-> got[p]]
  ELSE [state |-> "none", key |-> None, candidates |-> {}, crossed |-> FALSE, answer |-> {}]

Values == [k \in Key |-> Content(k)]
Replacing == {k \in Key : renamer[k] # None}
Hollow == IF platform = "windows" THEN Reader ELSE {}

\* A read answers a value its key had while it read, the read of a lock holder
\* always, a read without the lock unless it crossed a rename on Windows.
Reg == INSTANCE Register WITH
  Value <- SUBSET Fact, Empty <- {}, NoKey <- None,
  reg <- Values, busy <- Replacing, read <- [p \in Proc |-> Reads(p)], weak <- Hollow

ReadsAreRegular == Reg!Spec
=============================================================================
