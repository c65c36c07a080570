------------------------- MODULE SessionStoreProofs -------------------------
(***************************************************************************)
(* Theorems about SessionStore.tla, for every set of keys and processes    *)
(* and every bound.                                                        *)
(*                                                                         *)
(* The two invariants about the files are not inductive: what makes them   *)
(* true is what a writer knows while it holds the lock.  Its read is not   *)
(* older than any save of the key (only an eviction or a purge may have    *)
(* come in between, and both forget), and what it read survived the last   *)
(* purge made under the same lock.                                         *)
(*                                                                         *)
(* The second part is the refinement of Register.tla.  A pending read      *)
(* knows every value its key had since it began and whether it crossed a   *)
(* replacement (ReadOK), so that what it found is always one of its        *)
(* candidates, or nothing.                                                 *)
(***************************************************************************)
EXTENDS SessionStore, TLAPS

WriterStates == {"idle", "read", "open", "list", "answered", "rename", "renaming", "release"}
Knows(w) == pc[w] \in {"open", "answered", "rename", "renaming"}

\* A key that only a purge of itself sweeps.
Lonely(k) == \A j \in Key : k \in Under[j] => j = k

Types ==
  /\ file \in [Key -> (SUBSET Fact) \cup {Absent}]
  /\ renamer \in [Key -> Writer \cup {None}]
  /\ tmp \in [Writer -> (SUBSET Fact) \cup {Absent}]
  /\ holder \in [Key -> Writer \cup Purger \cup {None}]
  /\ pc \in [Proc -> WriterStates \cup {"purge", "remove"}]
  /\ key \in [Proc -> Key \cup {None}]
  /\ got \in [Proc -> SUBSET Fact]
  /\ todo \in [Purger -> SUBSET Key]
  /\ facts \in 0..MaxFacts
  /\ recorded \in [Key -> SUBSET Fact]
  /\ purged \in [Key -> SUBSET Fact]

\* A writer that is not idle holds the lock of its key, and so does a purge.
Holding(p) == pc[p] # "idle" => key[p] \in Key /\ holder[key[p]] = p

\* A writer that has read knows every save of its key and nothing that was purged.
WriterOK(w) ==
  /\ pc[w] \in WriterStates
  /\ Holding(w)
  /\ pc[w] \in {"idle", "read", "list"} => got[w] = {}
  /\ pc[w] = "list" => file[key[w]] = Absent
  /\ Knows(w) => /\ recorded[key[w]] \subseteq got[w]
                 /\ Lonely(key[w]) => got[w] \cap purged[key[w]] = {}
  /\ got[w] \subseteq 1..facts
  /\ pc[w] \in {"rename", "renaming"} =>
       /\ tmp[w] \in SUBSET (1..facts) /\ got[w] \subseteq tmp[w]
       /\ Lonely(key[w]) => tmp[w] \cap purged[key[w]] = {}
  /\ \A k \in Key : renamer[k] = w => pc[w] = "renaming" /\ key[w] = k

\* A reader that is not idle has a key, and no lock.
ReaderOK(r) ==
  /\ pc[r] \in {"idle", "read", "open", "list", "answered"}
  /\ pc[r] # "idle" => key[r] \in Key

\* A purge holds the lock of its key, and removes only what it was asked to sweep.
PurgerOK(p) ==
  /\ pc[p] \in {"idle", "purge", "remove"}
  /\ Holding(p)
  /\ pc[p] = "remove" => todo[p] \subseteq Under[key[p]]

KeyOK(k) ==
  /\ recorded[k] \subseteq Content(k)
  /\ Content(k) \subseteq 1..facts /\ purged[k] \subseteq 1..facts
  /\ Lonely(k) => Content(k) \cap purged[k] = {}

StoreInv ==
  /\ Types
  /\ \A w \in Writer : WriterOK(w)
  /\ \A r \in Reader : ReaderOK(r)
  /\ \A p \in Purger : PurgerOK(p)
  /\ \A k \in Key : KeyOK(k)

---------------------------------------------------------------------------
(* Lemmas.                                                                 *)

LEMMA Disjoint ==
  /\ \A w \in Writer : w \in Proc /\ w \notin Reader /\ w \notin Purger /\ w # None
  /\ \A p \in Purger : p \in Proc /\ p \notin Reader /\ p \notin Writer /\ p # None
  /\ \A r \in Reader : r \in Proc /\ r \notin Purger /\ r \notin Writer
  /\ None \notin Key
  BY StoreAssumption DEF StoreAssumption, Proc

LEMMA BoundOfFacts == MaxFacts \in Nat /\ \A k \in Key : k \in Under[k]
  BY StoreAssumption DEF StoreAssumption

LEMMA AbsentIsNoContent == \A c \in SUBSET Fact : c # Absent
  BY StoreAssumption DEF StoreAssumption

\* The lock: two processes that are not idle have different keys (session-store.js:39).
LEMMA OneHolder ==
  ASSUME StoreInv, NEW p \in Writer \cup Purger, NEW q \in Writer \cup Purger,
         pc[p] # "idle", pc[q] # "idle", key[p] = key[q]
  PROVE  p = q
  BY DEF StoreInv, WriterOK, PurgerOK, Holding

\* No writer is at work on a lonely key while a purge removes it.
LEMMA NoWriterBeside ==
  ASSUME StoreInv, NEW p \in Purger, NEW k \in todo[p], pc[p] = "remove", Lonely(k),
         NEW w \in Writer, pc[w] # "idle"
  PROVE  key[w] # k
<1>1. key[p] \in Key /\ holder[key[p]] = p /\ k \in Under[key[p]]
  BY DEF StoreInv, PurgerOK, Holding
<1>2. k = key[p]
  BY <1>1 DEF Lonely
<1>3. holder[key[w]] = w
  BY DEF StoreInv, WriterOK, Holding
<1> QED BY <1>1, <1>2, <1>3, Disjoint

\* A name that is missing, to the holder of its lock, is a file that is absent.
LEMMA MissingIsAbsent ==
  ASSUME StoreInv, NEW p \in Writer \cup Purger, pc[p] \notin {"idle", "renaming"}, ~Named(key[p])
  PROVE  file[key[p]] = Absent
<1>1. key[p] \in Key
  BY DEF StoreInv, WriterOK, PurgerOK, Holding
<1>2. renamer[key[p]] = None
  <2>1. CASE renamer[key[p]] = None
    BY <2>1
  <2>2. CASE renamer[key[p]] \in Writer
    <3>1. pc[renamer[key[p]]] = "renaming" /\ key[renamer[key[p]]] = key[p]
      BY <1>1, <2>2 DEF StoreInv, WriterOK
    <3> QED BY <2>2, <3>1, OneHolder
  <2> QED BY <1>1, <2>1, <2>2 DEF StoreInv, Types
<1> QED BY <1>2 DEF Named

LEMMA InitStoreInv == Init => StoreInv
<1> SUFFICES ASSUME Init PROVE StoreInv
  OBVIOUS
<1>1. Types
  BY BoundOfFacts DEF Init, Types, Proc, WriterStates
<1>2. ASSUME NEW w \in Writer PROVE WriterOK(w)
  <2>1. pc[w] = "idle" /\ got[w] = {} /\ \A k \in Key : renamer[k] # w
    BY Disjoint DEF Init
  <2> QED BY <2>1 DEF WriterOK, WriterStates, Holding, Knows
<1>3. \A p \in Purger : PurgerOK(p)
  BY Disjoint DEF Init, PurgerOK, Holding
<1>4. \A k \in Key : KeyOK(k)
  BY DEF Init, KeyOK, Content
<1>5. \A r \in Reader : ReaderOK(r)
  BY Disjoint DEF Init, ReaderOK
<1> QED BY <1>1, <1>2, <1>3, <1>4, <1>5 DEF StoreInv

---------------------------------------------------------------------------
(* The steps that leave the files and the ghosts about them alone: only    *)
(* the process that takes the step, and the lock of its key, change.       *)

Alone(x) ==
  /\ UNCHANGED <<file, renamer, recorded, purged>>
  /\ facts' \in {facts, facts + 1}
  /\ \A p \in Proc \ {x} : pc'[p] = pc[p] /\ key'[p] = key[p] /\ got'[p] = got[p]
  /\ \A w \in Writer \ {x} : tmp'[w] = tmp[w]
  /\ \A p \in Purger \ {x} : todo'[p] = todo[p]
  /\ \A k \in Key : holder'[k] = holder[k] \/ holder[k] \in {None, x}

LEMMA OthersStay ==
  ASSUME StoreInv, NEW x \in Proc, Alone(x)
  PROVE  /\ \A w \in Writer \ {x} : WriterOK(w)'
         /\ \A r \in Reader \ {x} : ReaderOK(r)'
         /\ \A p \in Purger \ {x} : PurgerOK(p)'
<1>f. 1..facts \subseteq 1..facts'
  BY DEF Alone, StoreInv, Types
<1>1. ASSUME NEW w \in Writer \ {x} PROVE WriterOK(w)'
  <2>1. WriterOK(w)
    BY DEF StoreInv
  <2>2. pc'[w] = pc[w] /\ key'[w] = key[w] /\ got'[w] = got[w] /\ tmp'[w] = tmp[w]
    BY Disjoint DEF Alone
  <2>3. Holding(w)'
    BY <2>1, <2>2, Disjoint DEF WriterOK, Holding, Alone
  <2>4. UNCHANGED <<file, renamer, recorded, purged>>
    BY DEF Alone
  <2>5. tmp[w] \in SUBSET (1..facts) => tmp[w] \in SUBSET (1..facts')
    BY <1>f
  <2>6. got'[w] \subseteq 1..facts'
    BY <1>f, <2>1, <2>2 DEF WriterOK
  <2>7. Knows(w)' <=> Knows(w)
    BY <2>2 DEF Knows
  <2> QED BY <2>1, <2>2, <2>3, <2>4, <2>5, <2>6, <2>7 DEF WriterOK, Lonely
<1>2. ASSUME NEW p \in Purger \ {x} PROVE PurgerOK(p)'
  <2>1. PurgerOK(p)
    BY DEF StoreInv
  <2>2. pc'[p] = pc[p] /\ key'[p] = key[p] /\ todo'[p] = todo[p]
    BY Disjoint DEF Alone
  <2>3. Holding(p)'
    BY <2>1, <2>2, Disjoint DEF PurgerOK, Holding, Alone
  <2>4. UNCHANGED file
    BY DEF Alone
  <2> QED BY <2>1, <2>2, <2>3, <2>4 DEF PurgerOK, Content
<1>3. ASSUME NEW r \in Reader \ {x} PROVE ReaderOK(r)'
  <2>1. pc'[r] = pc[r] /\ key'[r] = key[r] /\ ReaderOK(r)
    BY Disjoint DEF Alone, StoreInv
  <2> QED BY <2>1 DEF ReaderOK
<1> QED BY <1>1, <1>2, <1>3

LEMMA KeysStay ==
  ASSUME StoreInv, NEW x \in Proc, Alone(x)
  PROVE  \A k \in Key : KeyOK(k)'
<1> TAKE k \in Key
<1>f. 1..facts \subseteq 1..facts'
  BY DEF Alone, StoreInv, Types
<1>1. KeyOK(k)
  BY DEF StoreInv
<1>2. UNCHANGED <<file, recorded, purged>>
  BY DEF Alone
<1> QED BY <1>f, <1>1, <1>2 DEF KeyOK, Content, Lonely

\* What a step of one process alone still has to show: its own part.
LEMMA AloneStep ==
  ASSUME StoreInv, NEW x \in Proc, Alone(x), Types',
         x \in Writer => WriterOK(x)', x \in Reader => ReaderOK(x)', x \in Purger => PurgerOK(x)'
  PROVE  StoreInv'
<1>1. \A w \in Writer : WriterOK(w)'
  BY OthersStay
<1>2. \A p \in Purger : PurgerOK(p)'
  BY OthersStay
<1>3. \A r \in Reader : ReaderOK(r)'
  BY OthersStay
<1>4. \A k \in Key : KeyOK(k)'
  BY KeysStay
<1> QED BY <1>1, <1>2, <1>3, <1>4 DEF StoreInv

LEMMA BeginStep ==
  ASSUME StoreInv, NEW p \in Reader \cup Writer, NEW k \in Key, Begin(p, k),
         \/ UNCHANGED holder
         \/ p \in Writer /\ holder[k] = None /\ holder' = [holder EXCEPT ![k] = p],
         p \in Writer => holder'[k] = p
  PROVE  StoreInv'
<1>t. Types
  BY DEF StoreInv
<1>p. p \in Proc /\ p \notin Purger
  BY Disjoint
<1>1. Types'
  <2>1. pc' \in [Proc -> WriterStates \cup {"purge", "remove"}] /\ key' \in [Proc -> Key \cup {None}]
    BY <1>t, <1>p DEF Begin, Types, WriterStates
  <2>2. holder' \in [Key -> Writer \cup Purger \cup {None}]
    BY <1>t DEF Types
  <2> QED BY <1>t, <2>1, <2>2 DEF Begin, Types, disk, budget
<1>2. Alone(p)
  BY <1>t, <1>p DEF Begin, Types, Alone, disk, budget
<1>3. ASSUME p \in Writer PROVE WriterOK(p)'
  <2>1. pc'[p] = "read" /\ key'[p] = k /\ got'[p] = got[p] /\ pc[p] = "idle"
    BY <1>t, <1>p DEF Begin, Types
  <2>2. WriterOK(p) /\ renamer' = renamer /\ facts' = facts /\ holder'[k] = p
    BY <1>3 DEF Begin, StoreInv, disk, budget
  <2>3. got[p] = {}
    BY <2>1, <2>2, <1>3 DEF StoreInv, WriterOK
  <2> QED BY <2>1, <2>2, <2>3 DEF WriterOK, WriterStates, Holding, Knows
<1>4. ASSUME p \in Reader PROVE ReaderOK(p)'
  BY <1>t, <1>p DEF Begin, Types, ReaderOK
<1> QED BY <1>p, <1>1, <1>2, <1>3, <1>4, AloneStep

\* The read and the end of a read: what a lock holder takes over is what the file holds.
LEMMA OpenStep == ASSUME StoreInv, NEW p \in Proc, Open(p) PROVE StoreInv'
<1>t. Types
  BY DEF StoreInv
<1>p. p \notin Purger
  BY Disjoint DEF Open, StoreInv, PurgerOK
<1>1. Types'
  <2>1. pc' \in [Proc -> WriterStates \cup {"purge", "remove"}]
    BY <1>t DEF Open, Types, WriterStates
  <2>2. got' \in [Proc -> SUBSET Fact]
    <3>1. CASE UNCHANGED got
      BY <1>t, <3>1 DEF Types
    <3>2. CASE Named(key[p]) /\ got' = [got EXCEPT ![p] = file[key[p]]]
      <4>1. p \in Writer \/ p \in Reader
        BY <1>p DEF Proc
      <4>2. file[key[p]] \in SUBSET Fact
        BY <3>2, <4>1, <1>t DEF Open, Named, Types, StoreInv, WriterOK, ReaderOK, Holding
      <4> QED BY <1>t, <3>2, <4>2 DEF Types
    <3> QED BY <3>1, <3>2 DEF Open
  <2> QED BY <1>t, <2>1, <2>2 DEF Open, Types, disk, budget, ghosts
<1>2. Alone(p)
  BY <1>t DEF Open, Types, Alone, disk, budget, ghosts
<1>3. ASSUME p \in Writer PROVE WriterOK(p)'
  <2>1. /\ pc[p] = "read" /\ WriterOK(p) /\ got[p] = {}
        /\ UNCHANGED <<file, renamer, tmp, orphan, holder, key, facts, recorded, purged>>
    BY <1>3 DEF Open, StoreInv, WriterOK, disk, budget, ghosts
  <2>2. key[p] \in Key /\ KeyOK(key[p])
    BY <1>3, <2>1 DEF StoreInv, WriterOK, Holding
  <2>3. CASE Named(key[p])
    <3>1. pc'[p] = "open" /\ got'[p] = file[key[p]] /\ file[key[p]] = Content(key[p])
      BY <1>t, <2>3 DEF Open, Types, Named, Content
    <3>2. Lonely(key[p]) => got'[p] \cap purged[key[p]] = {}
      BY <2>1, <2>2, <3>1 DEF KeyOK
    <3>3. got'[p] \subseteq 1..facts' /\ recorded[key[p]] \subseteq got'[p]
      BY <2>1, <2>2, <3>1 DEF KeyOK
    <3>4. Holding(p)' /\ \A k \in Key : renamer'[k] # p
      BY <2>1, <3>1 DEF Holding, WriterOK
    <3> QED BY <2>1, <3>1, <3>2, <3>3, <3>4 DEF WriterOK, WriterStates, Knows, Lonely
  <2>4. CASE ~Named(key[p])
    <3>1. pc'[p] = "list" /\ got'[p] = {}
      BY <1>t, <2>1, <2>4 DEF Open, Types
    <3>2. file[key[p]] = Absent
      BY <1>3, <2>1, <2>4, MissingIsAbsent
    <3>3. Holding(p)' /\ \A k \in Key : renamer'[k] # p
      BY <2>1, <3>1 DEF Holding, WriterOK
    <3> QED BY <2>1, <3>1, <3>2, <3>3 DEF WriterOK, WriterStates, Knows
  <2> QED BY <2>3, <2>4
<1>4. ASSUME p \in Reader PROVE ReaderOK(p)'
  <2>1. pc'[p] \in {"read", "open", "list", "answered"} /\ key' = key
    BY <1>t DEF Open, Types
  <2>2. key[p] \in Key
    BY <1>4 DEF Open, StoreInv, ReaderOK
  <2> QED BY <2>1, <2>2 DEF ReaderOK
<1> QED BY <1>p, <1>1, <1>2, <1>3, <1>4, AloneStep

LEMMA CloseStep == ASSUME StoreInv, NEW p \in Proc, Close(p) PROVE StoreInv'
<1>t. Types
  BY DEF StoreInv
<1>p. p \notin Purger
  BY Disjoint DEF Close, StoreInv, PurgerOK
<1>1. Types'
  BY <1>t DEF Close, Types, WriterStates, disk, budget, ghosts
<1>2. Alone(p)
  BY <1>t DEF Close, Types, Alone, disk, budget, ghosts
<1>3. ASSUME p \in Writer PROVE WriterOK(p)'
  <2>1. /\ pc[p] = "open" /\ WriterOK(p) /\ pc'[p] = "answered"
        /\ UNCHANGED <<file, renamer, tmp, orphan, holder, key, got, facts, recorded, purged>>
    BY <1>3, <1>t DEF Close, StoreInv, Types, disk, budget, ghosts
  <2> QED BY <2>1 DEF WriterOK, WriterStates, Holding, Knows, Lonely
<1>4. ASSUME p \in Reader PROVE ReaderOK(p)'
  <2>1. pc'[p] \in {"read", "open", "list", "answered"} /\ key' = key
    BY <1>t DEF Close, Types
  <2>2. key[p] \in Key
    BY <1>4 DEF Close, StoreInv, ReaderOK
  <2> QED BY <2>1, <2>2 DEF ReaderOK
<1> QED BY <1>p, <1>1, <1>2, <1>3, <1>4, AloneStep

\* A lock holder that finds no file knows that nothing is saved in it.
LEMMA ListStep == ASSUME StoreInv, NEW p \in Proc, List(p) PROVE StoreInv'
<1>t. Types
  BY DEF StoreInv
<1>p. p \notin Purger
  BY Disjoint DEF List, StoreInv, PurgerOK
<1>1. Types'
  BY <1>t DEF List, Types, WriterStates, disk, budget, ghosts
<1>2. Alone(p)
  BY <1>t DEF List, Types, Alone, disk, budget, ghosts
<1>3. ASSUME p \in Writer PROVE WriterOK(p)'
  <2>1. /\ pc[p] = "list" /\ WriterOK(p) /\ pc'[p] \in {"read", "answered"}
        /\ UNCHANGED <<file, renamer, tmp, orphan, holder, key, got, facts, recorded, purged>>
    BY <1>3, <1>t DEF List, StoreInv, Types, disk, budget, ghosts
  <2>2. key[p] \in Key /\ got[p] = {} /\ file[key[p]] = Absent
    BY <2>1 DEF WriterOK, Holding
  <2>3. recorded[key[p]] = {}
    BY <2>2 DEF StoreInv, KeyOK, Content
  <2> QED BY <2>1, <2>2, <2>3 DEF WriterOK, WriterStates, Holding, Knows, Lonely
<1>4. ASSUME p \in Reader PROVE ReaderOK(p)'
  <2>1. pc'[p] \in {"read", "open", "list", "answered"} /\ key' = key
    BY <1>t DEF List, Types
  <2>2. key[p] \in Key
    BY <1>4 DEF List, StoreInv, ReaderOK
  <2> QED BY <2>1, <2>2 DEF ReaderOK
<1> QED BY <1>p, <1>1, <1>2, <1>3, <1>4, AloneStep

---------------------------------------------------------------------------
(* The save.                                                               *)

LEMMA WriteTmpStep == ASSUME StoreInv, NEW w \in Writer, WriteTmp(w) PROVE StoreInv'
<1>t. Types
  BY DEF StoreInv
<1>p. w \in Proc /\ w \notin Purger /\ w \notin Reader
  BY Disjoint
<1>f. facts \in Nat /\ facts + 1 \in Fact /\ facts' = facts + 1
  BY <1>t, BoundOfFacts DEF WriteTmp, Types, Fact
<1>1. Types'
  <2>1. got[w] \cup {facts + 1} \in SUBSET Fact
    BY <1>t, <1>p, <1>f DEF Types
  <2>2. tmp' \in [Writer -> (SUBSET Fact) \cup {Absent}]
    BY <1>t, <2>1 DEF WriteTmp, Types
  <2>3. pc' \in [Proc -> WriterStates \cup {"purge", "remove"}]
    BY <1>t DEF WriteTmp, Types, WriterStates
  <2>4. facts' \in 0..MaxFacts
    BY <1>t, <1>f, BoundOfFacts DEF WriteTmp, Types
  <2> QED BY <1>t, <2>2, <2>3, <2>4 DEF WriteTmp, Types
<1>2. Alone(w)
  BY <1>t DEF WriteTmp, Types, Alone
<1>3. WriterOK(w)'
  <2>1. /\ pc[w] = "answered" /\ WriterOK(w) /\ pc'[w] = "rename" /\ tmp'[w] = got[w] \cup {facts + 1}
        /\ UNCHANGED <<file, renamer, orphan, holder, key, got, recorded, purged>>
    BY <1>t, <1>p DEF WriteTmp, StoreInv, Types
  <2>2. key[w] \in Key /\ purged[key[w]] \subseteq 1..facts
    BY <2>1 DEF WriterOK, Holding, StoreInv, KeyOK
  <2>3. Lonely(key[w]) => tmp'[w] \cap purged[key[w]] = {}
    <3>1. facts + 1 \notin purged[key[w]]
      BY <1>f, <2>2
    <3> QED BY <2>1, <3>1 DEF WriterOK, Knows
  <2>4. tmp'[w] \in SUBSET (1..facts') /\ got[w] \subseteq 1..facts'
    BY <1>f, <2>1 DEF WriterOK
  <2> QED BY <2>1, <2>3, <2>4 DEF WriterOK, WriterStates, Holding, Knows, Lonely
<1> QED BY <1>p, <1>1, <1>2, <1>3, AloneStep

LEMMA NoSaveStep == ASSUME StoreInv, NEW w \in Writer, NoSave(w) PROVE StoreInv'
<1>t. Types
  BY DEF StoreInv
<1>p. w \in Proc /\ w \notin Purger /\ w \notin Reader
  BY Disjoint
<1>1. Types'
  BY <1>t DEF NoSave, Types, WriterStates, disk, budget, ghosts
<1>2. Alone(w)
  BY <1>t DEF NoSave, Types, Alone, disk, budget, ghosts
<1>3. WriterOK(w)'
  <2>1. /\ pc[w] = "answered" /\ WriterOK(w) /\ pc'[w] = "release"
        /\ UNCHANGED <<file, renamer, tmp, orphan, holder, key, got, facts, recorded, purged>>
    BY <1>t, <1>p DEF NoSave, StoreInv, Types, disk, budget, ghosts
  <2> QED BY <2>1 DEF WriterOK, WriterStates, Holding, Knows
<1> QED BY <1>p, <1>1, <1>2, <1>3, AloneStep

LEMMA RenameFailsStep == ASSUME StoreInv, NEW w \in Writer, RenameFails(w) PROVE StoreInv'
<1>t. Types
  BY DEF StoreInv
<1>p. w \in Proc /\ w \notin Purger /\ w \notin Reader
  BY Disjoint
<1>c. \/ UNCHANGED <<tmp, pc>>
      \/ tmp' = [tmp EXCEPT ![w] = Absent] /\ pc' = [pc EXCEPT ![w] = "release"]
  BY DEF RenameFails
<1>1. Types'
  <2>1. tmp' \in [Writer -> (SUBSET Fact) \cup {Absent}] /\ pc' \in [Proc -> WriterStates \cup {"purge", "remove"}]
    BY <1>t, <1>c DEF Types, WriterStates
  <2> QED BY <1>t, <2>1 DEF RenameFails, Types, budget, ghosts
<1>2. Alone(w)
  BY <1>t, <1>c DEF RenameFails, Types, Alone, budget, ghosts
<1>3. WriterOK(w)'
  <2>1. /\ pc[w] = "rename" /\ WriterOK(w)
        /\ UNCHANGED <<file, renamer, orphan, holder, key, got, facts, recorded, purged>>
    BY <1>t, <1>p DEF RenameFails, StoreInv, Types, budget, ghosts
  <2>2. CASE UNCHANGED <<tmp, pc>>
    BY <2>1, <2>2 DEF WriterOK, Holding, Knows, Lonely
  <2>3. CASE pc'[w] = "release"
    BY <2>1, <2>3 DEF WriterOK, WriterStates, Holding, Knows
  <2> QED BY <1>c, <1>t, <1>p, <2>2, <2>3 DEF Types
<1> QED BY <1>p, <1>1, <1>2, <1>3, AloneStep

\* A process that rests gives its lock back; it may have died before its save.
LEMMA RestStep ==
  ASSUME StoreInv, NEW w \in Writer, Rest(w), pc[w] \notin {"idle", "renaming"},
         UNCHANGED <<file, renamer, facts, todo>>,
         tmp' = tmp \/ tmp' = [tmp EXCEPT ![w] = Absent],
         holder' = [holder EXCEPT ![key[w]] = None]
  PROVE  StoreInv'
<1>t. Types
  BY DEF StoreInv
<1>p. w \in Proc /\ w \notin Purger /\ w \notin Reader
  BY Disjoint
<1>k. key[w] \in Key /\ holder[key[w]] = w /\ WriterOK(w)
  BY DEF StoreInv, WriterOK, Holding
<1>1. Types'
  <2>1. /\ tmp' \in [Writer -> (SUBSET Fact) \cup {Absent}]
        /\ holder' \in [Key -> Writer \cup Purger \cup {None}]
    BY <1>t DEF Types
  <2>2. /\ pc' \in [Proc -> WriterStates \cup {"purge", "remove"}]
        /\ key' \in [Proc -> Key \cup {None}] /\ got' \in [Proc -> SUBSET Fact]
    BY <1>t DEF Rest, Types, WriterStates
  <2> QED BY <1>t, <2>1, <2>2 DEF Rest, Types
<1>2. Alone(w)
  BY <1>t, <1>k DEF Rest, Types, Alone
<1>3. WriterOK(w)'
  <2>1. pc'[w] = "idle" /\ got'[w] = {} /\ renamer' = renamer
    BY <1>t, <1>p DEF Rest, Types
  <2>2. \A k \in Key : renamer[k] # w
    BY <1>k DEF WriterOK
  <2> QED BY <2>1, <2>2 DEF WriterOK, WriterStates, Holding, Knows
<1> QED BY <1>p, <1>1, <1>2, <1>3, AloneStep

LEMMA DoneStep == ASSUME StoreInv, NEW r \in Reader, Done(r) PROVE StoreInv'
<1>t. Types
  BY DEF StoreInv
<1>p. r \in Proc /\ r \notin Purger /\ r \notin Writer
  BY Disjoint
<1>1. Types'
  BY <1>t DEF Done, Rest, Types, WriterStates, disk, budget
<1>2. Alone(r)
  BY <1>t DEF Done, Rest, Types, Alone, disk, budget
<1>3. ReaderOK(r)'
  BY <1>t, <1>p DEF Done, Rest, Types, ReaderOK
<1> QED BY <1>p, <1>1, <1>2, <1>3, AloneStep

---------------------------------------------------------------------------
(* The steps that change a file.                                           *)

\* The name goes away until the second half of the rename, what it names does not.
LEMMA StartRenameStep == ASSUME StoreInv, NEW w \in Writer, StartRename(w) PROVE StoreInv'
<1>t. Types
  BY DEF StoreInv
<1>p. w \in Proc /\ w \notin Purger /\ w \notin Reader
  BY Disjoint
<1>w. WriterOK(w) /\ key[w] \in Key /\ holder[key[w]] = w /\ pc[w] = "rename"
  BY DEF StartRename, StoreInv, WriterOK, Holding
<1>u. /\ UNCHANGED <<file, tmp, orphan, holder, key, got, todo, facts, recorded, purged>>
      /\ pc' = [pc EXCEPT ![w] = "renaming"] /\ renamer' = [renamer EXCEPT ![key[w]] = w]
  BY DEF StartRename, budget
<1>1. Types'
  BY <1>t, <1>p, <1>w, <1>u DEF Types, WriterStates
<1>2. ASSUME NEW v \in Writer PROVE WriterOK(v)'
  <2>1. WriterOK(v) /\ v \in Proc
    BY Disjoint DEF StoreInv
  <2>2. CASE v = w
    <3>1. \A k \in Key : renamer'[k] = w => k = key[w]
      BY <1>w, <1>u, <1>t DEF WriterOK, Types
    <3>2. pc'[w] = "renaming"
      BY <1>t, <1>p, <1>u DEF Types
    <3> QED BY <1>w, <1>u, <2>2, <3>1, <3>2 DEF WriterOK, WriterStates, Holding, Knows, Lonely
  <2>3. CASE v # w
    <3>1. pc'[v] = pc[v] /\ \A k \in Key : renamer'[k] = v => renamer[k] = v
      BY <1>t, <1>u, <2>3 DEF Types
    <3> QED BY <1>u, <2>1, <3>1 DEF WriterOK, Holding, Knows, Lonely
  <2> QED BY <2>2, <2>3
<1>3. ASSUME NEW p \in Purger PROVE PurgerOK(p)'
  <2>1. PurgerOK(p) /\ pc'[p] = pc[p]
    BY <1>u, <1>t, <1>p, Disjoint DEF StoreInv, Types
  <2> QED BY <1>u, <2>1 DEF PurgerOK, Holding, Content
<1>4. ASSUME NEW r \in Reader PROVE ReaderOK(r)'
  <2>1. ReaderOK(r) /\ pc'[r] = pc[r]
    BY <1>u, <1>t, <1>p, Disjoint DEF StoreInv, Types
  <2> QED BY <1>u, <2>1 DEF ReaderOK
<1>5. ASSUME NEW k \in Key PROVE KeyOK(k)'
  <2>1. KeyOK(k)
    BY DEF StoreInv
  <2> QED BY <1>u, <2>1 DEF KeyOK, Content, Lonely
<1> QED BY <1>1, <1>2, <1>3, <1>4, <1>5 DEF StoreInv

\* The save is over: the file holds what the writer knew, and its fact.
LEMMA PublishTmpStep == ASSUME StoreInv, NEW w \in Writer, PublishTmp(w) PROVE StoreInv'
<1> DEFINE k == key[w]
<1>t. Types
  BY DEF StoreInv
<1>p. w \in Proc /\ w \notin Purger /\ w \notin Reader
  BY Disjoint
<1>w. WriterOK(w) /\ k \in Key /\ holder[k] = w /\ pc[w] \in {"rename", "renaming"}
  BY DEF PublishTmp, StoreInv, WriterOK, Holding
<1>u. /\ UNCHANGED <<holder, key, got, todo, facts, purged>>
      /\ pc' = [pc EXCEPT ![w] = "release"] /\ renamer' = [renamer EXCEPT ![k] = None]
      /\ file' = [file EXCEPT ![k] = tmp[w]] /\ tmp' = [tmp EXCEPT ![w] = Absent]
      /\ recorded' = [recorded EXCEPT ![k] = @ \cup (tmp[w] \ got[w])]
  BY DEF PublishTmp, budget
<1>s. /\ tmp[w] \in SUBSET (1..facts) /\ got[w] \subseteq tmp[w] /\ tmp[w] \in SUBSET Fact
      /\ recorded[k] \subseteq got[w]
      /\ Lonely(k) => tmp[w] \cap purged[k] = {}
  <2>1. 1..facts \subseteq Fact
    BY <1>t, BoundOfFacts DEF Types, Fact
  <2> QED BY <1>w, <2>1 DEF WriterOK, Knows
<1>c. \A j \in Key : /\ j = k => Content(j)' = tmp[w]
                     /\ j # k => Content(j)' = Content(j) /\ recorded'[j] = recorded[j]
  BY <1>t, <1>w, <1>u, <1>s, AbsentIsNoContent DEF Types, Content
<1>1. Types'
  <2>1. /\ file' \in [Key -> (SUBSET Fact) \cup {Absent}] /\ recorded' \in [Key -> SUBSET Fact]
        /\ tmp' \in [Writer -> (SUBSET Fact) \cup {Absent}] /\ renamer' \in [Key -> Writer \cup {None}]
    BY <1>t, <1>w, <1>u, <1>s DEF Types
  <2>2. pc' \in [Proc -> WriterStates \cup {"purge", "remove"}]
    BY <1>t, <1>u DEF Types, WriterStates
  <2> QED BY <1>t, <1>u, <2>1, <2>2 DEF Types
<1>2. ASSUME NEW v \in Writer PROVE WriterOK(v)'
  <2>1. WriterOK(v) /\ v \in Proc
    BY Disjoint DEF StoreInv
  <2>2. CASE v = w
    <3>1. \A j \in Key : renamer'[j] # w
      BY <1>t, <1>u, <1>w, <1>p, Disjoint DEF WriterOK, Types
    <3>2. pc'[w] = "release"
      BY <1>t, <1>p, <1>u DEF Types
    <3> QED BY <1>w, <1>u, <2>2, <3>1, <3>2 DEF WriterOK, WriterStates, Holding, Knows
  <2>3. CASE v # w
    <3>1. /\ pc'[v] = pc[v] /\ tmp'[v] = tmp[v] /\ UNCHANGED <<holder, key, got, facts, purged>>
          /\ \A j \in Key : renamer'[j] = v => renamer[j] = v
      BY <1>t, <1>u, <2>1, <2>3, Disjoint DEF Types
    <3>2. CASE pc[v] = "idle"
      BY <2>1, <3>1, <3>2 DEF WriterOK, WriterStates, Holding, Knows
    <3>3. CASE pc[v] # "idle"
      <4>1. key[v] # k /\ key[v] \in Key
        BY <1>w, <2>1, <2>3, <3>3 DEF WriterOK, Holding
      <4>2. file'[key[v]] = file[key[v]] /\ recorded'[key[v]] = recorded[key[v]]
        BY <1>t, <1>u, <1>c, <4>1 DEF Types
      <4> QED BY <2>1, <3>1, <4>2 DEF WriterOK, Holding, Knows, Lonely
    <3> QED BY <3>2, <3>3
  <2> QED BY <2>2, <2>3
<1>3. ASSUME NEW p \in Purger PROVE PurgerOK(p)'
  <2>1. PurgerOK(p) /\ pc'[p] = pc[p] /\ UNCHANGED <<holder, key, todo>>
    BY <1>u, <1>t, <1>p, Disjoint DEF StoreInv, Types
  <2> QED BY <2>1 DEF PurgerOK, Holding
<1>4. ASSUME NEW r \in Reader PROVE ReaderOK(r)'
  <2>1. ReaderOK(r) /\ pc'[r] = pc[r] /\ key' = key
    BY <1>u, <1>t, <1>p, Disjoint DEF StoreInv, Types
  <2> QED BY <2>1 DEF ReaderOK
<1>5. ASSUME NEW j \in Key PROVE KeyOK(j)'
  <2>1. KeyOK(j) /\ UNCHANGED <<facts, purged>>
    BY <1>u DEF StoreInv
  <2>2. CASE j = k
    <3>1. recorded'[k] \subseteq tmp[w]
      BY <1>t, <1>u, <1>s, <1>w DEF Types
    <3>2. Content(j)' = tmp[w] /\ recorded'[j] \subseteq tmp[w]
      BY <1>c, <2>2, <3>1
    <3>3. tmp[w] \subseteq 1..facts' /\ purged'[j] \subseteq 1..facts'
      BY <1>s, <2>1 DEF KeyOK
    <3>4. Lonely(j)' => tmp[w] \cap purged'[j] = {}
      BY <1>s, <2>1, <2>2 DEF Lonely
    <3> QED BY <3>2, <3>3, <3>4 DEF KeyOK
  <2>3. CASE j # k
    BY <1>c, <2>1, <2>3 DEF KeyOK, Lonely
  <2> QED BY <2>2, <2>3
<1> QED BY <1>1, <1>2, <1>3, <1>4, <1>5 DEF StoreInv

\* A file that goes away takes with it what was recorded in it.
LEMMA ForgetStep ==
  ASSUME StoreInv, NEW k \in Key, Forget(k),
         UNCHANGED <<renamer, tmp, holder, pc, key, got, facts>>,
         todo' \in [Purger -> SUBSET Key],
         \A p \in Purger : todo'[p] \subseteq todo[p],
         purged' \in [Key -> SUBSET Fact],
         \A j \in Key : j # k => purged'[j] = purged[j],
         \/ purged'[k] = purged[k]
         \/ /\ Named(k) /\ purged'[k] = purged[k] \cup Content(k)
            /\ Lonely(k) => \A w \in Writer : pc[w] # "idle" => key[w] # k
  PROVE  StoreInv'
<1>t. Types
  BY DEF StoreInv
<1>u. /\ file' \in [Key -> (SUBSET Fact) \cup {Absent}] /\ recorded' \in [Key -> SUBSET Fact]
      /\ file'[k] = Absent \/ (~Named(k) /\ file'[k] = file[k])
      /\ Named(k) => file'[k] = Absent
      /\ \A j \in Key : j # k => file'[j] = file[j] /\ recorded'[j] = recorded[j]
      /\ recorded'[k] = {}
  BY <1>t DEF Forget, Types
<1>c. Content(k)' \subseteq Content(k) /\ \A j \in Key : j # k => Content(j)' = Content(j)
  BY <1>u DEF Content
<1>1. Types'
  BY <1>t, <1>u DEF Types
<1>2. ASSUME NEW v \in Writer PROVE WriterOK(v)'
  <2>1. WriterOK(v)
    BY DEF StoreInv
  <2>2. CASE pc[v] = "idle"
    BY <2>1, <2>2 DEF WriterOK, WriterStates, Holding, Knows
  <2>3. CASE pc[v] # "idle"
    <3>1. key[v] \in Key
      BY <2>1, <2>3 DEF WriterOK, Holding
    <3>2. recorded'[key[v]] \subseteq recorded[key[v]] /\ (file[key[v]] = Absent => file'[key[v]] = Absent)
      BY <1>u, <3>1
    <3>3. Lonely(key[v]) => purged'[key[v]] = purged[key[v]]
      BY <2>3, <3>1
    <3> QED BY <2>1, <3>2, <3>3 DEF WriterOK, Holding, Knows, Lonely
  <2> QED BY <2>2, <2>3
<1>3. ASSUME NEW p \in Purger PROVE PurgerOK(p)'
  <2>1. PurgerOK(p)
    BY DEF StoreInv
  <2> QED BY <2>1 DEF PurgerOK, Holding
<1>4. \A r \in Reader : ReaderOK(r)'
  BY DEF StoreInv, ReaderOK
<1>5. ASSUME NEW j \in Key PROVE KeyOK(j)'
  <2>1. KeyOK(j)
    BY DEF StoreInv
  <2>3. CASE j = k
    <3>1. purged'[k] \subseteq 1..facts'
      BY <2>1, <2>3 DEF KeyOK
    <3>2. Lonely(k) => Content(k)' \cap purged'[k] = {}
      <4>1. CASE Named(k)
        BY <1>u, <4>1 DEF Content
      <4>2. CASE ~Named(k)
        BY <1>c, <2>1, <2>3, <4>2 DEF KeyOK
      <4> QED BY <4>1, <4>2
    <3> QED BY <1>u, <1>c, <2>1, <2>3, <3>1, <3>2 DEF KeyOK, Lonely
  <2>4. CASE j # k
    BY <1>u, <1>c, <2>1, <2>4 DEF KeyOK, Lonely
  <2> QED BY <2>3, <2>4
<1> QED BY <1>1, <1>2, <1>3, <1>4, <1>5 DEF StoreInv

LEMMA SameStep ==
  ASSUME StoreInv, UNCHANGED <<file, renamer, tmp, holder, pc, key, got, todo, facts, recorded, purged>>
  PROVE  StoreInv'
<1>1. Types'
  BY DEF StoreInv, Types
<1>2. \A w \in Writer : WriterOK(w)'
  BY DEF StoreInv, WriterOK, Holding, Knows, Lonely
<1>3. \A r \in Reader : ReaderOK(r)'
  BY DEF StoreInv, ReaderOK
<1>4. \A p \in Purger : PurgerOK(p)'
  BY DEF StoreInv, PurgerOK, Holding, Content
<1>5. \A k \in Key : KeyOK(k)'
  BY DEF StoreInv, KeyOK, Content, Lonely
<1> QED BY <1>1, <1>2, <1>3, <1>4, <1>5 DEF StoreInv

---------------------------------------------------------------------------
(* The purge.                                                              *)

LEMMA StartPurgeStep ==
  ASSUME StoreInv, NEW p \in Purger, NEW k \in Key, StartPurge(p, k) PROVE StoreInv'
<1>t. Types
  BY DEF StoreInv
<1>p. p \in Proc /\ p \notin Writer /\ p \notin Reader
  BY Disjoint
<1>1. Types'
  BY <1>t, <1>p DEF StartPurge, Types, disk, ghosts
<1>2. Alone(p)
  BY <1>t DEF StartPurge, Types, Alone, CanPurge, disk, ghosts
<1>3. PurgerOK(p)'
  BY <1>t, <1>p DEF StartPurge, Types, PurgerOK, Holding
<1> QED BY <1>p, <1>1, <1>2, <1>3, AloneStep

LEMMA ListNamesStep == ASSUME StoreInv, NEW p \in Purger, ListNames(p) PROVE StoreInv'
<1>t. Types
  BY DEF StoreInv
<1>p. p \in Proc /\ p \notin Writer /\ p \notin Reader
  BY Disjoint
<1>w. PurgerOK(p) /\ key[p] \in Key /\ holder[key[p]] = p /\ pc[p] = "purge"
  BY DEF ListNames, StoreInv, PurgerOK, Holding
<1>u. /\ UNCHANGED <<file, renamer, tmp, holder, key, got, facts, recorded, purged>>
      /\ pc' = [pc EXCEPT ![p] = "remove"]
      /\ todo' = [todo EXCEPT ![p] = {k \in Under[key[p]] : Named(k)}]
  BY DEF ListNames, disk, budget, ghosts
<1>1. Types'
  <2>1. todo' \in [Purger -> SUBSET Key]
    BY <1>t, <1>u, <1>w, StoreAssumption DEF Types, StoreAssumption
  <2>2. pc' \in [Proc -> WriterStates \cup {"purge", "remove"}]
    BY <1>t, <1>u DEF Types
  <2> QED BY <1>t, <1>u, <2>1, <2>2 DEF Types
<1>2. Alone(p)
  BY <1>t, <1>u DEF Types, Alone
<1>3. PurgerOK(p)'
  <2>1. pc'[p] = "remove" /\ todo'[p] \subseteq Under[key[p]]
    BY <1>t, <1>p, <1>u DEF Types
  <2> QED BY <1>w, <1>u, <2>1 DEF PurgerOK, Holding
<1> QED BY <1>p, <1>1, <1>2, <1>3, AloneStep

\* The end of a purge, whether it removed everything or broke off.
LEMMA PurgeEndStep ==
  ASSUME StoreInv, NEW p \in Purger, Rest(p), pc[p] # "idle",
         UNCHANGED <<file, renamer, tmp, facts>>,
         todo' = todo \/ todo' = [todo EXCEPT ![p] = {}],
         holder' = [holder EXCEPT ![key[p]] = None]
  PROVE  StoreInv'
<1>t. Types
  BY DEF StoreInv
<1>p. p \in Proc /\ p \notin Writer /\ p \notin Reader
  BY Disjoint
<1>w. key[p] \in Key /\ holder[key[p]] = p
  BY DEF StoreInv, PurgerOK, Holding
<1>1. Types'
  <2>1. todo' \in [Purger -> SUBSET Key] /\ holder' \in [Key -> Writer \cup Purger \cup {None}]
    BY <1>t DEF Types
  <2>2. /\ pc' \in [Proc -> WriterStates \cup {"purge", "remove"}]
        /\ key' \in [Proc -> Key \cup {None}] /\ got' \in [Proc -> SUBSET Fact]
    BY <1>t DEF Rest, Types, WriterStates
  <2> QED BY <1>t, <2>1, <2>2 DEF Rest, Types
<1>2. Alone(p)
  BY <1>t, <1>w DEF Rest, Types, Alone
<1>3. PurgerOK(p)'
  BY <1>t, <1>p DEF Rest, Types, PurgerOK, Holding
<1> QED BY <1>p, <1>1, <1>2, <1>3, AloneStep

\* A removal forgets what the file held; no writer has it in hand if the key is lonely.
LEMMA RemoveStep == ASSUME StoreInv, NEW p \in Purger, Remove(p) PROVE StoreInv'
<1>t. Types
  BY DEF StoreInv
<1>1. PICK k \in todo[p] :
        /\ todo' = [todo EXCEPT ![p] = @ \ {k}]
        /\ purged' = [purged EXCEPT ![k] = IF Named(k) THEN @ \cup Content(k) ELSE @]
        /\ Forget(k)
  BY DEF Remove
<1>2. /\ k \in Key /\ todo' \in [Purger -> SUBSET Key]
      /\ \A q \in Purger : todo'[q] \subseteq todo[q]
  BY <1>t, <1>1 DEF Types
<1>3. pc[p] = "remove" /\ UNCHANGED <<renamer, tmp, holder, pc, key, got, facts>>
  BY DEF Remove, local, budget
<1>4. /\ purged' \in [Key -> SUBSET Fact]
      /\ \A j \in Key : j # k => purged'[j] = purged[j]
      /\ purged'[k] = IF Named(k) THEN purged[k] \cup Content(k) ELSE purged[k]
  BY <1>t, <1>1, <1>2 DEF Types, Content
<1>5. Lonely(k) => \A w \in Writer : pc[w] # "idle" => key[w] # k
  BY <1>3, NoWriterBeside
<1> QED BY <1>1, <1>2, <1>3, <1>4, <1>5, ForgetStep

---------------------------------------------------------------------------

LEMMA StoreInvStep == StoreInv /\ [Next]_vars => StoreInv'
<1> SUFFICES ASSUME StoreInv, [Next]_vars PROVE StoreInv'
  OBVIOUS
<1>t. Types
  BY DEF StoreInv
<1>1. ASSUME NEW k \in Key, NEW r \in Reader, Peek(r, k) PROVE StoreInv'
  BY <1>1, Disjoint, BeginStep DEF Peek
<1>2. ASSUME NEW k \in Key, NEW w \in Writer, Lock(w, k) PROVE StoreInv'
  <2>1. Begin(w, k) /\ holder[k] = None /\ holder' = [holder EXCEPT ![k] = w] /\ holder'[k] = w
    BY <1>2, <1>t DEF Lock, CanLock, Types
  <2> QED BY <2>1, BeginStep
<1>3. ASSUME NEW k \in Key, NEW p \in Purger, StartPurge(p, k) PROVE StoreInv'
  BY <1>3, StartPurgeStep
<1>4. ASSUME NEW k \in Key, EvictCold(k) PROVE StoreInv'
  <2>1. /\ todo' = todo /\ purged' = purged /\ Forget(k)
        /\ UNCHANGED <<renamer, tmp, holder, pc, key, got, facts>>
    BY <1>4 DEF EvictCold, local
  <2> QED BY <1>t, <2>1, ForgetStep DEF Types
<1>5. ASSUME NEW k \in Key, EvictScratch(k) PROVE StoreInv'
  <2>1. UNCHANGED <<file, renamer, tmp, holder, pc, key, got, todo, facts, recorded, purged>>
    BY <1>5 DEF EvictScratch, local, budget, ghosts
  <2> QED BY <2>1, SameStep
<1>6. ASSUME NEW p \in Proc, Open(p) \/ Close(p) \/ List(p) PROVE StoreInv'
  BY <1>6, OpenStep, CloseStep, ListStep
<1>7. ASSUME NEW r \in Reader, Done(r) PROVE StoreInv'
  BY <1>7, DoneStep
<1>8. ASSUME NEW w \in Writer, WriteTmp(w) \/ NoSave(w) \/ StartRename(w) \/ RenameFails(w) \/ PublishTmp(w)
      PROVE  StoreInv'
  BY <1>8, WriteTmpStep, NoSaveStep, StartRenameStep, RenameFailsStep, PublishTmpStep
<1>9. ASSUME NEW w \in Writer, Release(w) PROVE StoreInv'
  BY <1>9, RestStep DEF Release, disk, budget
<1>10. ASSUME NEW w \in Writer, Kill(w) PROVE StoreInv'
  BY <1>10, RestStep DEF Kill
<1>11. ASSUME NEW p \in Purger, ListNames(p) PROVE StoreInv'
  BY <1>11, ListNamesStep
<1>12. ASSUME NEW p \in Purger, Remove(p) PROVE StoreInv'
  BY <1>12, RemoveStep
<1>13. ASSUME NEW p \in Purger, PurgeAborts(p) \/ PurgeDone(p) PROVE StoreInv'
  BY <1>13, PurgeEndStep DEF PurgeAborts, PurgeDone, disk, budget
<1>14. CASE UNCHANGED vars
  <2>1. UNCHANGED <<file, renamer, tmp, holder, pc, key, got, todo, facts, recorded, purged>>
    BY <1>14 DEF vars, disk, local, budget, ghosts
  <2> QED BY <2>1, SameStep
<1> QED BY <1>1, <1>2, <1>3, <1>4, <1>5, <1>6, <1>7, <1>8, <1>9, <1>10, <1>11, <1>12, <1>13, <1>14
        DEF Next

\* The inductive invariant holds in every reachable state.
THEOREM StoreInvariant == Spec => []StoreInv
  BY InitStoreInv, StoreInvStep, PTL DEF Spec

\* What a writer was told it saved stays until a purge or an eviction, whatever the other
\* processes do meanwhile (session-store.js saveState, hooks under the lock of the scope).
THEOREM SavesSurvive == Spec => []RecordsSurvive
<1>1. StoreInv => RecordsSurvive
  BY DEF StoreInv, KeyOK, RecordsSurvive
<1> QED BY <1>1, StoreInvariant, PTL

\* What a purge took out of the key whose lock it held never comes back
\* (hooks/ctxroute-reset.js, session-store.js purgeByPrefix).
THEOREM PurgeIsFinal == Spec => []PurgedStaysPurged
<1>1. StoreInv => PurgedStaysPurged
  BY DEF StoreInv, KeyOK, PurgedStaysPurged, Lonely
<1> QED BY <1>1, StoreInvariant, PTL


---------------------------------------------------------------------------
(* The refinement of Register.tla.                                          *)

\* A pending read knows the present value of its key and whether the key is being
\* replaced; what it found open was a value of the key, and if it found no name
\* the key had no content or, without the lock on Windows, it crossed a replacement.
ReadOK(p) ==
  /\ Reading(p) =>
       /\ key[p] \in Key
       /\ Content(key[p]) \in candidates[p]
       /\ renamer[key[p]] # None => crossed[p] = TRUE
  /\ pc[p] \in {"idle", "read", "list"} => got[p] = {}
  /\ pc[p] = "open" => got[p] \in candidates[p]
  /\ pc[p] = "list" => {} \in candidates[p] \/ (p \in Hollow /\ crossed[p] = TRUE)

ReadTypes ==
  /\ platform \in {"posix", "windows"}
  /\ candidates \in [Proc -> SUBSET SUBSET Fact]
  /\ crossed \in [Proc -> BOOLEAN]

ReadInv ==
  /\ StoreInv
  /\ ReadTypes
  /\ platform = "posix" => \A k \in Key : renamer[k] = None
  /\ \A p \in Proc : ReadOK(p)

LEMMA InitReadInv == Init => ReadInv /\ Reg!Init
<1> SUFFICES ASSUME Init PROVE ReadInv /\ Reg!Init
  OBVIOUS
<1>1. StoreInv
  BY InitStoreInv
<1>2. ReadTypes /\ (platform = "posix" => \A k \in Key : renamer[k] = None)
  BY DEF Init, ReadTypes
<1>3. \A p \in Proc : ReadOK(p)
  BY DEF Init, ReadOK, Reading
<1>4. Values = [k \in Key |-> {}] /\ Replacing = {}
  BY DEF Init, Values, Content, Replacing
<1>5. [p \in Proc |-> Reads(p)] = [p \in Proc |-> Reg!NoRead]
  BY DEF Init, Reads, Reading, Reg!NoRead
<1>6. Hollow \subseteq Proc
  BY DEF Hollow, Proc
<1> QED
  BY <1>1, <1>2, <1>3, <1>4, <1>5, <1>6 DEF ReadInv, Reg!Init

\* A step of one process that leaves the files alone.
Mine(x) ==
  /\ UNCHANGED <<platform, file, renamer>>
  /\ \A p \in Proc \ {x} :
       /\ pc'[p] = pc[p] /\ key'[p] = key[p] /\ got'[p] = got[p]
       /\ candidates'[p] = candidates[p] /\ crossed'[p] = crossed[p]

\* What it may do to its own read.
Opens(x) ==
  \E k \in Key : Reads(x)' = [state |-> "pending", key |-> k, candidates |-> {Values[k]},
                             crossed |-> k \in Replacing, answer |-> {}]
Answers(x) ==
  /\ Reads(x).state = "pending"
  /\ \E v \in SUBSET Fact :
       /\ v \in Reads(x).candidates \/ (x \in Hollow /\ Reads(x).crossed = TRUE /\ v = {})
       /\ Reads(x)' = [Reads(x) EXCEPT !.state = "answered", !.answer = v]
Ends(x) == Reads(x)' = Reg!NoRead
Goes(x) == Reads(x)' = Reads(x) \/ Opens(x) \/ Answers(x) \/ Ends(x)

LEMMA Quiet ==
  ASSUME ReadInv, StoreInv', NEW x \in Proc, Mine(x), ReadTypes', ReadOK(x)', Goes(x)
  PROVE  ReadInv' /\ [Reg!Next]_(Reg!rvars)
<1>1. /\ UNCHANGED <<platform, file, renamer>>
      /\ \A p \in Proc \ {x} :
           /\ pc'[p] = pc[p] /\ key'[p] = key[p] /\ got'[p] = got[p]
           /\ candidates'[p] = candidates[p] /\ crossed'[p] = crossed[p]
  BY DEF Mine
<1>2. ASSUME NEW p \in Proc, p # x PROVE ReadOK(p)'
  <2>1. ReadOK(p)
    BY DEF ReadInv
  <2> QED BY <2>1, <1>1, <1>2 DEF ReadOK, Reading, Content, Hollow
<1>3. ReadInv'
  <2>1. platform' = "posix" => \A k \in Key : renamer'[k] = None
    BY <1>1 DEF ReadInv
  <2> QED BY <2>1, <1>2 DEF ReadInv
<1>4. Values' = Values /\ Replacing' = Replacing /\ Hollow' = Hollow
  BY <1>1 DEF Values, Content, Replacing, Hollow
<1>5. \A p \in Proc : p # x => Reads(p)' = Reads(p)
  BY <1>1 DEF Reads, Reading
<1> DEFINE read == [p \in Proc |-> Reads(p)]
<1>6. /\ \A p \in Proc : read[p] = Reads(p) /\ read'[p] = Reads(p)'
      /\ read' = [read EXCEPT ![x] = Reads(x)']
  <2>1. read = [p \in Proc |-> Reads(p)] /\ read' = [p \in Proc |-> Reads(p)']
    OBVIOUS
  <2> QED BY <2>1, <1>5
<1> HIDE DEF read
<1>7. CASE Reads(x)' = Reads(x)
  <2>1. read' = read
    BY <1>6, <1>7 DEF read
  <2> QED BY <2>1, <1>3, <1>4 DEF Reg!rvars, read
<1>8. CASE Opens(x)
  <2>1. PICK k \in Key : Reads(x)' = [state |-> "pending", key |-> k, candidates |-> {Values[k]},
                                     crossed |-> k \in Replacing, answer |-> {}]
    BY <1>8 DEF Opens
  <2>2. Reg!Begin(x, k)
    BY <2>1, <1>4, <1>6 DEF Reg!Begin, read
  <2> QED BY <2>2, <1>3 DEF Reg!Next
<1>9. CASE Answers(x)
  <2>1. Reg!Answer(x)
    <3>1. PICK v \in SUBSET Fact :
            /\ v \in Reads(x).candidates \/ (x \in Hollow /\ Reads(x).crossed = TRUE /\ v = {})
            /\ Reads(x)' = [Reads(x) EXCEPT !.state = "answered", !.answer = v]
      BY <1>9 DEF Answers
    <3>2. read' = [read EXCEPT ![x].state = "answered", ![x].answer = v]
      BY <3>1, <1>6 DEF read
    <3>3. read[x].state = "pending" /\ read[x] = Reads(x)
      BY <1>6, <1>9 DEF Answers
    <3> QED BY <3>1, <3>2, <3>3, <1>4 DEF Reg!Answer, read
  <2> QED BY <2>1, <1>3 DEF Reg!Next
<1>10. CASE Ends(x)
  <2>1. Reg!Finish(x)
    BY <1>4, <1>6, <1>10 DEF Reg!Finish, Ends, read
  <2> QED BY <2>1, <1>3 DEF Reg!Next
<1> QED
  BY <1>7, <1>8, <1>9, <1>10 DEF Goes

LEMMA BeginRead ==
  ASSUME ReadInv, StoreInv', NEW p \in Reader \cup Writer, NEW k \in Key, Begin(p, k)
  PROVE  ReadInv' /\ [Reg!Next]_(Reg!rvars)
<1>t. Types /\ ReadTypes /\ p \in Proc
  BY Disjoint DEF ReadInv, StoreInv
<1>1. /\ pc[p] = "idle" /\ pc'[p] = "read" /\ key'[p] = k /\ got' = got
      /\ candidates'[p] = {Content(k)} /\ crossed'[p] = (renamer[k] # None)
      /\ UNCHANGED <<platform, file, renamer>>
  BY <1>t DEF Begin, Types, ReadTypes, disk
<1>2. Mine(p)
  BY <1>t DEF Begin, Types, ReadTypes, Mine, disk
<1>3. Content(k) \in SUBSET Fact
  BY <1>t DEF Content, Types
<1>4. ReadTypes'
  BY <1>t, <1>1, <1>3 DEF Begin, ReadTypes
<1>5. got[p] = {}
  BY <1>t, <1>1 DEF ReadInv, ReadOK
<1>6. ReadOK(p)'
  BY <1>1, <1>5 DEF ReadOK, Reading, Content
<1>7. Opens(p)
  <2>1. Reads(p)' = [state |-> "pending", key |-> key'[p], candidates |-> candidates'[p],
                     crossed |-> crossed'[p], answer |-> {}]
    BY <1>1 DEF Reads, Reading
  <2>2. Values[k] = Content(k) /\ (k \in Replacing) = (renamer[k] # None)
    BY DEF Values, Replacing
  <2> QED BY <2>1, <2>2, <1>1, Zenon DEF Opens
<1> QED
  BY <1>t, <1>2, <1>4, <1>6, <1>7, Quiet DEF Goes

LEMMA OpenRead ==
  ASSUME ReadInv, StoreInv', NEW p \in Proc, Open(p) PROVE ReadInv' /\ [Reg!Next]_(Reg!rvars)
<1>t. Types /\ ReadTypes /\ ReadOK(p)
  BY DEF ReadInv, StoreInv
<1>1. /\ pc[p] = "read"
      /\ IF Named(key[p]) THEN pc'[p] = "open" /\ got'[p] = file[key[p]] ELSE pc'[p] = "list" /\ got'[p] = got[p]
      /\ UNCHANGED <<platform, file, renamer, key, candidates, crossed>>
  BY <1>t DEF Open, Types, disk, ghosts
<1>2. Mine(p)
  BY <1>t DEF Open, Types, Mine, disk, ghosts
<1>3. /\ key[p] \in Key /\ Content(key[p]) \in candidates[p] /\ got[p] = {}
      /\ renamer[key[p]] # None => crossed[p] = TRUE
  BY <1>1, <1>t DEF ReadOK, Reading
<1>4. ReadOK(p)'
  <2>1. CASE Named(key[p])
    BY <2>1, <1>1, <1>3 DEF ReadOK, Reading, Content, Named
  <2>2. CASE ~Named(key[p])
    <3>1. {} \in candidates[p] \/ (p \in Hollow /\ crossed[p] = TRUE)
      <4>1. CASE file[key[p]] = Absent
        BY <4>1, <1>3 DEF Content
      <4>2. CASE file[key[p]] # Absent
        <5>1. renamer[key[p]] # None /\ platform = "windows"
          BY <4>2, <2>2, <1>3, <1>t DEF Named, ReadInv, ReadTypes
        <5>2. p \notin Writer /\ p \notin Purger
          BY <4>2, <2>2, <1>1, MissingIsAbsent DEF ReadInv
        <5> QED BY <5>1, <5>2, <1>3 DEF Hollow, Proc
      <4> QED BY <4>1, <4>2
    <3> QED BY <3>1, <2>2, <1>1, <1>3 DEF ReadOK, Reading, Content, Hollow
  <2> QED BY <2>1, <2>2
<1>5. Reads(p)' = Reads(p)
  BY <1>1 DEF Reads, Reading
<1> QED
  BY <1>1, <1>2, <1>4, <1>5, <1>t, Quiet DEF Goes, ReadTypes

\* A pending read answers with what it got.
LEMMA Answering ==
  ASSUME NEW p \in Proc, pc[p] \in {"open", "list"}, pc'[p] = "answered",
         UNCHANGED <<key, got, candidates, crossed>>, got[p] \in SUBSET Fact,
         got[p] \in candidates[p] \/ (p \in Hollow /\ crossed[p] = TRUE /\ got[p] = {})
  PROVE  Answers(p)
<1> DEFINE r == Reads(p)
           g == [state |-> "answered", key |-> key[p], candidates |-> candidates[p],
                 crossed |-> crossed[p], answer |-> got[p]]
           v == got[p]
           f == [r EXCEPT !.state = "answered", !.answer = v]
           F == {"state", "key", "candidates", "crossed", "answer"}
<1>1. r = [state |-> "pending", key |-> key[p], candidates |-> candidates[p],
           crossed |-> crossed[p], answer |-> {}]
  BY DEF Reads, Reading
<1>2. Reads(p)' = g
  BY DEF Reads, Reading
<1> HIDE DEF r
\* Field by field: the provers do not see the updated record as a whole.
<1>3. /\ r = [i \in F |-> r[i]] /\ DOMAIN r = F
      /\ r.state = "pending" /\ r.key = key[p] /\ r.candidates = candidates[p] /\ r.crossed = crossed[p]
  BY <1>1
<1>4. /\ g = [i \in F |-> g[i]]
      /\ g.state = "answered" /\ g.key = key[p] /\ g.candidates = candidates[p]
      /\ g.crossed = crossed[p] /\ g.answer = v
  OBVIOUS
<1> HIDE DEF g, v
<1>5. f = [i \in F |-> IF i = "answer" THEN v ELSE IF i = "state" THEN "answered" ELSE r[i]]
  BY <1>3
<1>6. f.state = "answered" /\ f.answer = v
  BY <1>3
<1>7. f.key = key[p] /\ f.candidates = candidates[p]
  BY <1>3
<1>8. f.crossed = crossed[p]
  BY <1>3
<1>9. \A i \in F : f[i] = g[i]
  BY <1>4, <1>6, <1>7, <1>8
<1>10. f = [i \in F |-> f[i]]
  BY <1>5
<1>11. f = g
  BY <1>4, <1>9, <1>10, Zenon
<1> QED
  BY <1>2, <1>3, <1>11 DEF Answers, r, v

LEMMA CloseRead ==
  ASSUME ReadInv, StoreInv', NEW p \in Proc, Close(p) PROVE ReadInv' /\ [Reg!Next]_(Reg!rvars)
<1>t. Types /\ ReadTypes /\ ReadOK(p)
  BY DEF ReadInv, StoreInv
<1>1. /\ pc[p] = "open" /\ pc'[p] = "answered"
      /\ UNCHANGED <<platform, file, renamer, key, got, candidates, crossed>>
  BY <1>t DEF Close, Types, disk, ghosts
<1>2. Mine(p)
  BY <1>t DEF Close, Types, Mine, disk, ghosts
<1>3. got[p] \in candidates[p] /\ got[p] \in SUBSET Fact
  BY <1>1, <1>t DEF ReadOK, Types
<1>4. ReadOK(p)'
  BY <1>1 DEF ReadOK, Reading
<1>5. Answers(p)
  BY <1>1, <1>3, Answering
<1> QED
  BY <1>1, <1>2, <1>4, <1>5, <1>t, Quiet DEF Goes, ReadTypes

LEMMA ListRead ==
  ASSUME ReadInv, StoreInv', NEW p \in Proc, List(p) PROVE ReadInv' /\ [Reg!Next]_(Reg!rvars)
<1>t. Types /\ ReadTypes /\ ReadOK(p)
  BY DEF ReadInv, StoreInv
<1>1. /\ pc[p] = "list" /\ pc'[p] \in {"read", "answered"}
      /\ UNCHANGED <<platform, file, renamer, key, got, candidates, crossed>>
  BY <1>t DEF List, Types, disk, ghosts
<1>2. Mine(p)
  BY <1>t DEF List, Types, Mine, disk, ghosts
<1>3. got[p] = {} /\ ({} \in candidates[p] \/ (p \in Hollow /\ crossed[p] = TRUE))
  BY <1>1, <1>t DEF ReadOK
<1>4. ReadOK(p)'
  BY <1>1, <1>3, <1>t DEF ReadOK, Reading, Content
<1>5. Goes(p)
  <2>1. CASE pc'[p] = "read"
    BY <2>1, <1>1 DEF Goes, Reads, Reading
  <2>2. CASE pc'[p] = "answered"
    BY <2>2, <1>1, <1>3, Answering DEF Goes
  <2> QED BY <2>1, <2>2, <1>1
<1> QED
  BY <1>1, <1>2, <1>4, <1>5, <1>t, Quiet DEF ReadTypes

\* The end of a read, by whatever its process does next; and the steps of a process
\* that is not reading.
LEMMA EndRead ==
  ASSUME ReadInv, StoreInv', NEW p \in Proc, Mine(p), ReadTypes',
         pc'[p] \notin {"read", "open", "list", "answered"},
         pc'[p] = "idle" => got'[p] = {}
  PROVE  ReadInv' /\ [Reg!Next]_(Reg!rvars)
<1>1. ReadOK(p)'
  BY DEF ReadOK, Reading
<1>2. Ends(p)
  BY DEF Ends, Reads, Reading, Reg!NoRead
<1> QED
  BY <1>1, <1>2, Quiet DEF Goes

LEMMA RestRead ==
  ASSUME ReadInv, StoreInv', NEW p \in Proc, Rest(p), UNCHANGED <<platform, file, renamer>>
  PROVE  ReadInv' /\ [Reg!Next]_(Reg!rvars)
<1>t. Types /\ ReadTypes
  BY DEF ReadInv, StoreInv
<1>1. Mine(p) /\ ReadTypes'
  BY <1>t DEF Rest, Mine, Types, ReadTypes
<1>2. pc'[p] = "idle" /\ got'[p] = {}
  BY <1>t DEF Rest, Types
<1> QED
  BY <1>1, <1>2, EndRead

LEMMA SaveRead ==
  ASSUME ReadInv, StoreInv', NEW w \in Writer, WriteTmp(w) \/ NoSave(w) \/ RenameFails(w)
  PROVE  ReadInv' /\ [Reg!Next]_(Reg!rvars)
<1>t. Types /\ ReadTypes /\ w \in Proc
  BY Disjoint DEF ReadInv, StoreInv
<1>1. /\ Mine(w) /\ pc'[w] \in {"rename", "release"}
  <2>1. CASE WriteTmp(w)
    BY <2>1, <1>t DEF WriteTmp, Mine, Types, ReadTypes
  <2>2. CASE NoSave(w)
    BY <2>2, <1>t DEF NoSave, Mine, Types, disk, ghosts
  <2>3. CASE RenameFails(w)
    <3>1. pc[w] = "rename" /\ (pc' = pc \/ pc' = [pc EXCEPT ![w] = "release"])
      BY <2>3 DEF RenameFails
    <3> QED BY <2>3, <3>1, <1>t DEF RenameFails, Mine, Types, ghosts
  <2> QED BY <2>1, <2>2, <2>3
<1>2. ReadTypes'
  BY <1>t DEF WriteTmp, NoSave, RenameFails, ReadTypes, ghosts
<1> QED
  BY <1>t, <1>1, <1>2, EndRead

LEMMA PurgeRead ==
  ASSUME ReadInv, StoreInv', NEW p \in Purger, (\E k \in Key : StartPurge(p, k)) \/ ListNames(p)
  PROVE  ReadInv' /\ [Reg!Next]_(Reg!rvars)
<1>t. Types /\ ReadTypes /\ p \in Proc
  BY Disjoint DEF ReadInv, StoreInv
<1>1. Mine(p) /\ pc'[p] \in {"purge", "remove"} /\ ReadTypes'
  <2>1. ASSUME NEW k \in Key, StartPurge(p, k) PROVE Mine(p) /\ pc'[p] = "purge" /\ ReadTypes'
    BY <2>1, <1>t DEF StartPurge, Mine, Types, ReadTypes, disk, ghosts
  <2>2. CASE ListNames(p)
    BY <2>2, <1>t DEF ListNames, Mine, Types, ReadTypes, disk, ghosts
  <2> QED BY <2>1, <2>2
<1> QED
  BY <1>t, <1>1, EndRead

---------------------------------------------------------------------------
(* The steps that change the value of a key, or begin to.                   *)

\* Every read of the key that is under way learns of it, and no other read changes.
LEMMA Change ==
  ASSUME ReadInv, StoreInv', NEW k \in Key, NEW V \in SUBSET SUBSET Fact,
         candidates' = Seen(k, V), crossed' = Crossed(k),
         UNCHANGED <<platform, key, got>>,
         \A p \in Proc : pc'[p] = pc[p] \/ (pc[p] \in {"rename", "renaming"} /\ pc'[p] \in {"renaming", "release"}),
         \A j \in Key \ {k} : Content(j)' = Content(j) /\ renamer'[j] = renamer[j],
         Content(k)' \in V \cup {Content(k)},
         platform = "posix" => renamer'[k] = None
  PROVE  /\ ReadInv'
         /\ [p \in Proc |-> Reads(p)]' =
              [p \in Proc |-> IF Reads(p).state = "pending" /\ Reads(p).key = k
                              THEN [Reads(p) EXCEPT !.candidates = @ \cup V, !.crossed = TRUE]
                              ELSE Reads(p)]
<1>t. Types /\ ReadTypes
  BY DEF ReadInv, StoreInv
<1>1. ASSUME NEW p \in Proc
      PROVE  /\ Reading(p)' <=> Reading(p)
             /\ pc'[p] = "answered" <=> pc[p] = "answered"
             /\ pc'[p] = "idle" <=> pc[p] = "idle"
             /\ Reading(p) => pc'[p] = pc[p]
             /\ Reading(p) /\ key[p] = k => candidates'[p] = candidates[p] \cup V /\ crossed'[p] = TRUE
             /\ ~(Reading(p) /\ key[p] = k) => candidates'[p] = candidates[p] /\ crossed'[p] = crossed[p]
  BY <1>t DEF Reading, Seen, Crossed, ReadTypes
<1>2. ReadTypes'
  <2>1. candidates' \in [Proc -> SUBSET SUBSET Fact]
    BY <1>t DEF Seen, ReadTypes
  <2>2. crossed' \in [Proc -> BOOLEAN]
    BY <1>t DEF Crossed, ReadTypes
  <2> QED BY <2>1, <2>2, <1>t DEF ReadTypes
<1>3. ASSUME NEW p \in Proc PROVE ReadOK(p)'
  <2>1. ReadOK(p)
    BY DEF ReadInv
  <2>2. Reading(p)' => /\ key'[p] \in Key /\ Content(key[p])' \in candidates'[p]
                       /\ renamer'[key'[p]] # None => crossed'[p] = TRUE
    <3> SUFFICES ASSUME Reading(p)
                 PROVE  /\ key[p] \in Key /\ Content(key[p])' \in candidates'[p]
                        /\ renamer'[key[p]] # None => crossed'[p] = TRUE
      BY <1>1
    <3>1. key[p] \in Key /\ Content(key[p]) \in candidates[p] /\ (renamer[key[p]] # None => crossed[p] = TRUE)
      BY <2>1 DEF ReadOK
    <3>2. CASE key[p] = k
      <4>1. Content(key[p])' = Content(k)'
        BY <3>2 DEF Content
      <4>2. candidates'[p] = candidates[p] \cup V /\ crossed'[p] = TRUE
        BY <3>2, <1>1
      <4>3. Content(k) \in candidates[p]
        BY <3>1, <3>2
      <4> QED BY <4>1, <4>2, <4>3, <3>1, Zenon
    <3>3. CASE key[p] # k
      <4>1. Content(key[p])' = Content(key[p]) /\ renamer'[key[p]] = renamer[key[p]]
        BY <3>1, <3>3 DEF Content
      <4> QED BY <4>1, <3>1, <3>3, <1>1
    <3> QED BY <3>2, <3>3
  <2>3. candidates[p] \subseteq candidates'[p] /\ (crossed[p] = TRUE => crossed'[p] = TRUE)
    BY <1>1
  <2>4. Hollow' = Hollow
    BY DEF Hollow
  <2> QED BY <2>1, <2>2, <2>3, <2>4, <1>1 DEF ReadOK, Reading
<1>4. ReadInv'
  <2>1. platform' = "posix" => \A j \in Key : renamer'[j] = None
    BY DEF ReadInv
  <2> QED BY <2>1, <1>2, <1>3 DEF ReadInv
<1>5. ASSUME NEW p \in Proc
      PROVE  Reads(p)' = IF Reads(p).state = "pending" /\ Reads(p).key = k
                         THEN [Reads(p) EXCEPT !.candidates = @ \cup V, !.crossed = TRUE]
                         ELSE Reads(p)
  <2>1. CASE Reading(p) /\ key[p] = k
    BY <2>1, <1>1 DEF Reads
  <2>2. CASE ~(Reading(p) /\ key[p] = k)
    BY <2>2, <1>1 DEF Reads
  <2> QED BY <2>1, <2>2
<1> QED
  BY <1>4, <1>5

LEMMA StartRenameRead ==
  ASSUME ReadInv, StoreInv', NEW w \in Writer, StartRename(w) PROVE ReadInv' /\ [Reg!Next]_(Reg!rvars)
<1>t. Types /\ ReadTypes /\ w \in Proc
  BY Disjoint DEF ReadInv, StoreInv
<1>0. PICK k \in Key : k = key[w]
  BY DEF StartRename, ReadInv, StoreInv, WriterOK, Holding
<1>1. /\ pc[w] = "rename" /\ platform = "windows"
      /\ renamer' = [renamer EXCEPT ![k] = w]
      /\ crossed' = Crossed(k) /\ pc' = [pc EXCEPT ![w] = "renaming"]
      /\ UNCHANGED <<platform, file, key, got, candidates>>
  BY <1>0 DEF StartRename, HasWindow
<1>2. candidates' = Seen(k, {})
  BY <1>1, <1>t DEF Seen, ReadTypes
<1>3. /\ \A p \in Proc : pc'[p] = pc[p] \/ (pc[p] \in {"rename", "renaming"} /\ pc'[p] \in {"renaming", "release"})
      /\ \A j \in Key : j # k => renamer'[j] = renamer[j]
      /\ renamer'[k] = w /\ w # None
      /\ \A j \in Key : Content(j)' = Content(j)
  BY <1>1, <1>t, Disjoint DEF Types, Content
<1>4. /\ ReadInv'
      /\ [p \in Proc |-> Reads(p)]' =
           [p \in Proc |-> IF Reads(p).state = "pending" /\ Reads(p).key = k
                           THEN [Reads(p) EXCEPT !.candidates = @ \cup {}, !.crossed = TRUE]
                           ELSE Reads(p)]
  <2>1. {} \in SUBSET SUBSET Fact /\ Content(k)' \in {} \cup {Content(k)}
    BY <1>3
  <2>2. UNCHANGED <<platform, key, got>> /\ crossed' = Crossed(k) /\ platform # "posix"
    BY <1>1
  <2> QED BY <1>2, <1>3, <2>1, <2>2, Change
<1>5. Values' = Values /\ Replacing' = Replacing \cup {k} /\ Hollow' = Hollow
  BY <1>1, <1>3 DEF Values, Replacing, Hollow
<1>6. Reg!StartChange(k)
  BY <1>4, <1>5 DEF Reg!StartChange, Reg!Learn
<1> QED
  BY <1>4, <1>6 DEF Reg!Next

\* The value changes, and the key is no longer being replaced.
LEMMA NewValue ==
  ASSUME NEW k \in Key, NEW v \in SUBSET Fact, UNCHANGED platform,
         Content(k)' = v, renamer'[k] = None,
         \A j \in Key \ {k} : Content(j)' = Content(j) /\ renamer'[j] = renamer[j],
         [p \in Proc |-> Reads(p)]' =
              [p \in Proc |-> IF Reads(p).state = "pending" /\ Reads(p).key = k
                              THEN [Reads(p) EXCEPT !.candidates = @ \cup {v}, !.crossed = TRUE]
                              ELSE Reads(p)]
  PROVE  Reg!Next
<1>1. Values' = [Values EXCEPT ![k] = v] /\ Values'[k] = v
  BY DEF Values, Content
<1>2. Replacing' = Replacing \ {k} /\ Hollow' = Hollow
  BY DEF Replacing, Hollow
<1>3. Reg!EndChange(k)
  BY <1>1, <1>2 DEF Reg!EndChange, Reg!Learn
<1> QED
  BY <1>3 DEF Reg!Next

LEMMA PublishRead ==
  ASSUME ReadInv, StoreInv', NEW w \in Writer, PublishTmp(w) PROVE ReadInv' /\ [Reg!Next]_(Reg!rvars)
<1>t. Types /\ ReadTypes /\ w \in Proc
  BY Disjoint DEF ReadInv, StoreInv
<1>0. PICK k \in Key, v \in SUBSET Fact : k = key[w] /\ v = tmp[w]
  <2>1. WriterOK(w) /\ pc[w] \in {"rename", "renaming"}
    BY DEF PublishTmp, ReadInv, StoreInv
  <2>2. key[w] \in Key /\ tmp[w] \in SUBSET (1..facts) /\ facts \in 0..MaxFacts
    BY <2>1, <1>t DEF WriterOK, Holding, Types
  <2>3. 1..facts \subseteq Fact
    BY <2>2, BoundOfFacts DEF Fact
  <2> QED BY <2>2, <2>3
<1>1. /\ pc[w] \in {"rename", "renaming"} /\ pc' = [pc EXCEPT ![w] = "release"]
      /\ file' = [file EXCEPT ![k] = v] /\ renamer' = [renamer EXCEPT ![k] = None]
      /\ candidates' = Seen(k, {v}) /\ crossed' = Crossed(k)
      /\ UNCHANGED <<platform, key, got>>
  BY <1>0 DEF PublishTmp
<1>2. /\ \A p \in Proc : pc'[p] = pc[p] \/ (pc[p] \in {"rename", "renaming"} /\ pc'[p] \in {"renaming", "release"})
      /\ \A j \in Key : j # k => renamer'[j] = renamer[j] /\ Content(j)' = Content(j)
      /\ renamer'[k] = None /\ Content(k)' = v
  BY <1>1, <1>t, AbsentIsNoContent DEF Types, Content
<1>3. /\ ReadInv'
      /\ [p \in Proc |-> Reads(p)]' =
           [p \in Proc |-> IF Reads(p).state = "pending" /\ Reads(p).key = k
                           THEN [Reads(p) EXCEPT !.candidates = @ \cup {v}, !.crossed = TRUE]
                           ELSE Reads(p)]
  <2>1. {v} \in SUBSET SUBSET Fact /\ Content(k)' \in {v} \cup {Content(k)}
    BY <1>2
  <2>2. UNCHANGED <<platform, key, got>> /\ crossed' = Crossed(k) /\ candidates' = Seen(k, {v})
    BY <1>1
  <2> QED BY <1>2, <2>1, <2>2, Change
<1> QED
  BY <1>1, <1>2, <1>3, NewValue

\* A removal is a change to the empty value; what has no name is left as it is.
LEMMA ForgetRead ==
  ASSUME ReadInv, StoreInv', NEW k \in Key, Forget(k), UNCHANGED <<platform, renamer, pc, key, got>>
  PROVE  ReadInv' /\ [Reg!Next]_(Reg!rvars)
<1>t. Types /\ ReadTypes
  BY DEF ReadInv, StoreInv
<1>1. CASE Named(k)
  <2>1. /\ candidates' = Seen(k, {{}}) /\ crossed' = Crossed(k)
        /\ \A j \in Key : j # k => renamer'[j] = renamer[j] /\ Content(j)' = Content(j)
        /\ renamer'[k] = None /\ Content(k)' = {}
    BY <1>1, <1>t DEF Forget, Types, Content, Named
  <2>2. /\ ReadInv'
        /\ [p \in Proc |-> Reads(p)]' =
             [p \in Proc |-> IF Reads(p).state = "pending" /\ Reads(p).key = k
                             THEN [Reads(p) EXCEPT !.candidates = @ \cup {{}}, !.crossed = TRUE]
                             ELSE Reads(p)]
    BY <2>1, Change
  <2> QED BY <2>1, <2>2, NewValue
<1>2. CASE ~Named(k)
  <2>1. UNCHANGED <<file, candidates, crossed>>
    BY <1>2, <1>t DEF Forget, Types
  <2>2. ReadInv'
    BY <2>1 DEF ReadInv, ReadTypes, ReadOK, Reading, Content, Hollow
  <2>3. UNCHANGED Reg!rvars
    BY <2>1 DEF Reg!rvars, Values, Content, Replacing, Hollow, Reads, Reading
  <2> QED BY <2>2, <2>3
<1> QED
  BY <1>1, <1>2

LEMMA ReadStep == ReadInv /\ [Next]_vars => ReadInv' /\ [Reg!Next]_(Reg!rvars)
<1> SUFFICES ASSUME ReadInv, [Next]_vars PROVE ReadInv' /\ [Reg!Next]_(Reg!rvars)
  OBVIOUS
<1>0. StoreInv'
  BY StoreInvStep DEF ReadInv
<1>1. ASSUME NEW k \in Key, NEW r \in Reader, Peek(r, k) PROVE ReadInv' /\ [Reg!Next]_(Reg!rvars)
  BY <1>0, <1>1, BeginRead DEF Peek
<1>2. ASSUME NEW k \in Key, NEW w \in Writer, Lock(w, k) PROVE ReadInv' /\ [Reg!Next]_(Reg!rvars)
  BY <1>0, <1>2, BeginRead DEF Lock
<1>3. ASSUME NEW p \in Purger, (\E k \in Key : StartPurge(p, k)) \/ ListNames(p)
      PROVE  ReadInv' /\ [Reg!Next]_(Reg!rvars)
  BY <1>0, <1>3, PurgeRead
<1>4. ASSUME NEW k \in Key, EvictCold(k) PROVE ReadInv' /\ [Reg!Next]_(Reg!rvars)
  BY <1>0, <1>4, ForgetRead DEF EvictCold, local
<1>5. ASSUME UNCHANGED <<platform, file, renamer, pc, key, got, candidates, crossed>>
      PROVE  ReadInv' /\ [Reg!Next]_(Reg!rvars)
  <2>1. ReadInv'
    BY <1>0, <1>5 DEF ReadInv, ReadTypes, ReadOK, Reading, Content, Hollow
  <2>2. UNCHANGED Reg!rvars
    BY <1>5 DEF Reg!rvars, Values, Content, Replacing, Hollow, Reads, Reading
  <2> QED BY <2>1, <2>2
<1>6. ASSUME NEW k \in Key, EvictScratch(k) PROVE ReadInv' /\ [Reg!Next]_(Reg!rvars)
  BY <1>5, <1>6 DEF EvictScratch, local, ghosts
<1>7. ASSUME NEW p \in Proc, Open(p) \/ Close(p) \/ List(p) PROVE ReadInv' /\ [Reg!Next]_(Reg!rvars)
  BY <1>0, <1>7, OpenRead, CloseRead, ListRead
<1>8. ASSUME NEW p \in Proc, Rest(p), UNCHANGED <<platform, file, renamer>> PROVE ReadInv' /\ [Reg!Next]_(Reg!rvars)
  BY <1>0, <1>8, RestRead
<1>9. ASSUME NEW r \in Reader, Done(r) PROVE ReadInv' /\ [Reg!Next]_(Reg!rvars)
  BY <1>8, <1>9, Disjoint DEF Done, disk
<1>10. ASSUME NEW w \in Writer, Release(w) \/ Kill(w) PROVE ReadInv' /\ [Reg!Next]_(Reg!rvars)
  BY <1>8, <1>10, Disjoint DEF Release, Kill, disk
<1>11. ASSUME NEW w \in Writer, WriteTmp(w) \/ NoSave(w) \/ RenameFails(w) PROVE ReadInv' /\ [Reg!Next]_(Reg!rvars)
  BY <1>0, <1>11, SaveRead
<1>12. ASSUME NEW w \in Writer, StartRename(w) \/ PublishTmp(w) PROVE ReadInv' /\ [Reg!Next]_(Reg!rvars)
  BY <1>0, <1>12, StartRenameRead, PublishRead
<1>13. ASSUME NEW p \in Purger, Remove(p) PROVE ReadInv' /\ [Reg!Next]_(Reg!rvars)
  <2>1. PICK k \in todo[p] : Forget(k)
    BY <1>13 DEF Remove
  <2>2. k \in Key
    BY <2>1 DEF ReadInv, StoreInv, Types
  <2> QED BY <1>0, <1>13, <2>1, <2>2, ForgetRead DEF Remove, local
<1>14. ASSUME NEW p \in Purger, PurgeAborts(p) \/ PurgeDone(p) PROVE ReadInv' /\ [Reg!Next]_(Reg!rvars)
  BY <1>8, <1>14, Disjoint DEF PurgeAborts, PurgeDone, disk
<1>15. CASE UNCHANGED vars
  BY <1>5, <1>15 DEF vars, disk, local, ghosts
<1> QED BY <1>1, <1>2, <1>3, <1>4, <1>6, <1>7, <1>9, <1>10, <1>11, <1>12, <1>13, <1>14, <1>15 DEF Next

\* The state files implement Register.tla: a read answers a value its key had while it
\* read, unless it took no lock and crossed a replacing rename on Windows
\* (session-store.js readThrough, saveState, purgeByPrefix).
THEOREM StoreIsRegular == Spec => ReadsAreRegular
<1>1. Init => ReadInv /\ Reg!Init
  BY InitReadInv
<1>2. ReadInv /\ [Next]_vars => ReadInv' /\ [Reg!Next]_(Reg!rvars)
  BY ReadStep
<1> QED
  BY <1>1, <1>2, PTL DEF Spec, ReadsAreRegular, Reg!Spec

=============================================================================
