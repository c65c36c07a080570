------------------------------- MODULE Corpus -------------------------------
(***************************************************************************)
(* The documents a resident daemon keeps in memory: corpus.js reads them,  *)
(* corpus-cache.js holds what was read and lets the kernel say when it     *)
(* changed.  A key is a corpus root or a single file; its entry is one     *)
(* snapshot and one watcher per directory the read entered.  The process   *)
(* reads and arms without giving way to its event loop, the files change   *)
(* at any time, and a notification is only served between two requests.    *)
(* The kernel may lose an event (hooks/http-server.js:1303: "all three     *)
(* vendors document event LOSS"), and this cache compares nothing with the *)
(* disk before it serves.                                                  *)
(***************************************************************************)
EXTENDS Naturals, FiniteSets

CONSTANTS
  File, Dir,
  DirOf,           \* the directory of each file
  Root, Single,    \* the keys: corpus roots, and files read one by one
  Reads,           \* the files each key is read from
  MaxRoots, MaxFiles,
  MaxChanges,      \* bound: changes of the files
  MaxDeaf,         \* bound: watchers the kernel refuses
  MaxLost          \* bound: changes whose event the kernel loses

Key == Root \cup Single

ASSUME CorpusAssumption ==
  /\ IsFiniteSet(Key) /\ Root \cap Single = {}
  /\ DirOf \in [File -> Dir]
  /\ Reads \in [Key -> SUBSET File]
  /\ MaxRoots \in Nat \ {0} /\ MaxFiles \in Nat \ {0}
  /\ MaxChanges \in Nat /\ MaxDeaf \in Nat /\ MaxLost \in Nat

VARIABLES
  disk,       \* the version of each file
  held,       \* entries: the keys in the map
  versions,   \* entries: the versions each of them was read at
  watched,    \* entries: the directories watched for each key
  roots, files,    \* the counters of the ceilings
  events,     \* the keys a notification waits for
  step,       \* the request being served: "none", "walk" or "arm"
  key, got,   \* its key, and the files read so far
  deaf,       \* refusals so far
  lost,       \* changes whose event was lost, for one watcher or more
  window,     \* ghost: keys that changed after they were read and before they were watched
  untold      \* ghost: keys with an event lost since they were read

request == <<step, key, got>>
ledger == <<held, versions, watched, roots, files>>
ghosts == <<window, untold>>
corpusVars == <<disk, ledger, events, request, deaf, lost, ghosts>>

Unread == [f \in File |-> 0]

CorpusInit ==
  /\ disk = Unread
  /\ held = {} /\ versions = [k \in Key |-> Unread] /\ watched = [k \in Key |-> {}]
  /\ roots = 0 /\ files = 0 /\ events = {}
  /\ step = "none" /\ key \in Key /\ got = {}
  /\ deaf = 0 /\ lost = 0 /\ window = {} /\ untold = {}

\* Mutant of DirsOf: only the directory of the root, not those the walk entered.
DirsOfTop(k) == {CHOOSE d \in {DirOf[f] : f \in Reads[k]} : TRUE}

\* The directories the read entered.
DirsOf(k) == {DirOf[f] : f \in Reads[k]}

\* The keys with a watcher on the directory of a file.
Watchers(f) == {k \in Key : DirOf[f] \in watched[k]}

\* A file is written, renamed over, created or deleted: its directory changes, and the
\* kernel raises an event for its watchers, or loses some of them.
Change(f) ==
  /\ disk[f] < MaxChanges
  /\ disk' = [disk EXCEPT ![f] = @ + 1]
  /\ \E told \in SUBSET Watchers(f) :
       /\ events' = events \cup told
       /\ untold' = untold \cup (Watchers(f) \ told)
       /\ lost' = IF told = Watchers(f) THEN lost ELSE lost + 1
  /\ lost' <= MaxLost
  /\ window' = IF step # "none" /\ f \in got /\ DirOf[f] \notin watched[key]
               THEN window \cup {key} ELSE window
  /\ UNCHANGED <<ledger, request, deaf>>

\* A request for a key that is not held reads the files.
Miss(k) ==
  /\ step = "none" /\ k \notin held
  /\ step' = "walk" /\ key' = k /\ got' = {}
  /\ window' = window \ {k} /\ untold' = untold \ {k}
  /\ UNCHANGED <<disk, ledger, events, deaf, lost>>

Walk(f) ==
  /\ step = "walk" /\ f \in Reads[key] \ got
  /\ got' = got \cup {f}
  /\ versions' = [versions EXCEPT ![key][f] = disk[f]]
  /\ UNCHANGED <<disk, held, watched, roots, files, events, step, key, deaf, lost, ghosts>>

Full == IF key \in Root THEN roots >= MaxRoots ELSE files >= MaxFiles

\* The request is over and nothing of it is kept.
Forgotten ==
  /\ step' = "none" /\ got' = {}
  /\ versions' = [versions EXCEPT ![key] = Unread]

\* A file listed and gone when it is opened: the request fails, nothing is kept.
WalkFails ==
  /\ step = "walk" /\ got # Reads[key]
  /\ Forgotten
  /\ UNCHANGED <<disk, held, watched, roots, files, events, key, deaf, lost, ghosts>>

\* Past a ceiling, of entries or, for a single file, of characters, the answer is
\* handed out and nothing is kept.
Walked ==
  /\ step = "walk" /\ got = Reads[key]
  /\ \/ ~Full /\ step' = "arm" /\ UNCHANGED <<got, versions>>
     \/ (Full \/ key \in Single) /\ Forgotten
  /\ UNCHANGED <<disk, held, watched, roots, files, events, key, deaf, lost, ghosts>>

Unarmed == DirsOf(key) \ watched[key]

Arm(d) ==
  /\ step = "arm" /\ d \in Unarmed
  /\ watched' = [watched EXCEPT ![key] = @ \cup {d}]
  /\ UNCHANGED <<disk, held, versions, roots, files, events, request, deaf, lost, ghosts>>

\* Mutant of ArmFails: the watchers already armed are left open.
ArmFailsOpen == UNCHANGED <<watched, events>>

\* One refusal closes them all, and nothing is kept.
ArmFails ==
  /\ watched' = [watched EXCEPT ![key] = {}]
  /\ events' = events \ {key}

Deaf ==
  /\ step = "arm" /\ Unarmed # {}
  /\ deaf < MaxDeaf /\ deaf' = deaf + 1
  /\ ArmFails /\ Forgotten
  /\ UNCHANGED <<disk, held, roots, files, key, lost, ghosts>>

Store ==
  /\ step = "arm" /\ Unarmed = {}
  /\ step' = "none" /\ got' = {}
  /\ held' = held \cup {key}
  /\ roots' = IF key \in Root THEN roots + 1 ELSE roots
  /\ files' = IF key \in Single THEN files + 1 ELSE files
  /\ UNCHANGED <<disk, versions, watched, events, key, deaf, lost, ghosts>>

\* drop, from a notification.
Notify(k) ==
  /\ step = "none" /\ k \in events
  /\ events' = events \ {k}
  /\ held' = held \ {k}
  /\ watched' = [watched EXCEPT ![k] = {}]
  /\ roots' = IF k \in Root \cap held THEN roots - 1 ELSE roots
  /\ files' = IF k \in Single \cap held THEN files - 1 ELSE files
  /\ versions' = [versions EXCEPT ![k] = Unread]
  /\ window' = window \ {k} /\ untold' = untold \ {k}
  /\ UNCHANGED <<disk, request, deaf, lost>>

CorpusNext ==
  \/ \E f \in File : Change(f) \/ Walk(f)
  \/ \E k \in Key : Miss(k) \/ Notify(k)
  \/ \E d \in Dir : Arm(d)
  \/ WalkFails \/ Walked \/ Deaf \/ Store

CorpusSpec == CorpusInit /\ [][CorpusNext]_corpusVars

-----------------------------------------------------------------------------
Stale(k) == \E f \in Reads[k] : versions[k][f] # disk[f]

\* What is served from memory is what is on disk, or the kernel has said that it
\* is not and the notification waits, but for the two changes the daemon is never
\* told of: one between the read and the watch, and one whose event was lost.
\* Any later event of a directory of the entry ends both.
StaleIsTold == \A k \in held : Stale(k) => k \in events \cup window \cup untold

\* Every watcher belongs to what is held or to the read under way, every
\* directory of what is held has one, and the counters of the ceilings count it.
WatchersAreOwned ==
  /\ \A k \in Key : watched[k] # {} => k \in held \/ (step = "arm" /\ key = k)
  /\ \A k \in held : watched[k] = DirsOf(k)
  /\ roots = Cardinality(held \cap Root) /\ files = Cardinality(held \cap Single)

\* corpus-cache.js:67 "We never serve what we cannot be told about."
AlwaysTold == \A k \in held : Stale(k) => k \in events
=============================================================================
