----------------------------- MODULE GateProofs -----------------------------
(***************************************************************************)
(* Theorems about Gate.tla, for every corpus, configuration and bound.     *)
(*                                                                         *)
(* The inductive invariant adds to the types what the memory means: an     *)
(* owed action still has a document that remembers the refusal, and the    *)
(* drift an entry stores is the number of decisions since the document was *)
(* last recalled, or of turns since the counter was read for that recall;  *)
(* the same of the readings of the decisions to come.                      *)
(***************************************************************************)
EXTENDS Gate, TLAPS

---------------------------------------------------------------------------
(* Lemmas: what a decision reads and writes.                               *)

LEMMA KeptAreSelected ==
  ASSUME NEW a \in Actions, NEW answer
  PROVE  /\ keptBefore[a] \subseteq Selects[a]
         /\ keptAfter(a, answer) \subseteq Selects[a]
         /\ Selects[a] \subseteq Docs
<1>1. \A moment : present(a, moment) \subseteq Selects[a]
  BY DEF present
<1>2. keptBefore[a] = present(a, Before) \ leftOut(a, Before)
  BY DEF keptBefore
<1>3. keptAfter(a, answer) \subseteq present(a, After)
  BY DEF keptAfter
<1>4. Selects[a] \subseteq Docs
  BY GateAssumption DEF GateAssumption
<1> QED BY <1>1, <1>2, <1>3, <1>4

\* Only a kept document that enforces refuses, and none does after an answer or when one
\* of the kept refused the time before (gate.js:448, 485).
LEMMA RefusersEnforce ==
  ASSUME NEW K, NEW moment, NEW now
  PROVE  /\ blocked(K, moment, now) \subseteq inject(K, now)
         /\ inject(K, now) \subseteq K
         /\ \A d \in blocked(K, moment, now) : enforceForDoc(d)
<1>1. inject(K, now) \subseteq K
  BY DEF inject
<1>2. CASE moment = After \/ previouslyDenied(K)
  BY <1>1, <1>2 DEF blocked
<1>3. CASE ~(moment = After \/ previouslyDenied(K))
  <2>1. blocked(K, moment, now) = {d \in inject(K, now) : enforceForDoc(d)}
    BY <1>3 DEF blocked
  <2> QED BY <1>1, <2>1
<1> QED BY <1>2, <1>3

LEMMA NoRefusalAfterRefusal ==
  ASSUME NEW K, NEW moment, NEW now, moment = After \/ previouslyDenied(K)
  PROVE  blocked(K, moment, now) = {}
  BY DEF blocked

LEMMA DenyNeedsRefuser ==
  ASSUME NEW D, NEW B, decision(D, B) = "deny"
  PROVE  B # {}
  BY DEF decision

LEMMA RecalledFields ==
  ASSUME NEW now, NEW d, NEW B
  PROVE  /\ recalled(now, d \in B).seen
         /\ recalled(now, d \in B).denied <=> d \in B
         /\ recalled(now, d \in B).sinceLastCall = 0
         /\ recalled(now, d \in B).turn = now
  BY Zenon DEF recalled

\* What the memory of a document becomes when an action is decided under the lock: a kept
\* document that remembers starts again at `now`, another one drifts by one or is left
\* as it is (gate.js:395-433, 488-505).
LEMMA LeadWrites ==
  ASSUME TypeOK, NEW a \in Actions, NEW K \in SUBSET Docs, NEW moment,
         Lead(a, K, moment), turnCount(a) \in Nat, NEW d \in Docs
  PROVE  /\ d \in K /\ remembers(d) =>
              memory'[d] = recalled(turnCount(a), d \in blocked(K, moment, turnCount(a)))
         /\ d \notin K /\ drifts(d, K, moment) => memory'[d] = foreign(d)
         /\ ~(d \in K /\ remembers(d)) /\ ~drifts(d, K, moment) => memory'[d] = memory[d]
<1> DEFINE now == turnCount(a)
           refusing == blocked(K, moment, now)
<1>1. CASE changed(K, moment, now)
  <2>1. memory' = next(K, moment, now)
    BY <1>1 DEF Lead
  <2>2. memory'[d] = IF d \in K /\ remembers(d) THEN recalled(now, d \in refusing)
                     ELSE IF drifts(d, K, moment) THEN foreign(d) ELSE memory[d]
    BY <2>1 DEF next
  <2> QED BY <2>2 DEF drifts
<1>2. CASE ~changed(K, moment, now)
  <2>1. memory'[d] = memory[d] /\ ~drifts(d, K, moment)
    BY <1>2 DEF Lead, changed
  <2>2. d \in K /\ remembers(d) =>
          /\ memory[d].seen /\ memory[d].sinceLastCall = 0 /\ memory[d].turn = now
          /\ memory[d].denied = (d \in refusing)
    BY <1>2 DEF changed
  <2>3. memory[d] \in Entry
    BY DEF TypeOK
  <2>4. d \in K /\ remembers(d) => memory[d] = recalled(now, d \in refusing)
    BY <2>2, <2>3 DEF Entry, recalled
  <2> QED BY <2>1, <2>4
<1> QED BY <1>1, <1>2

---------------------------------------------------------------------------
(* The inductive invariant.                                                *)

\* The stored drift of a document that counts actions.
DriftStored ==
  \A d \in Docs : memory[d].seen /\ CountsActions(d) => memory[d].sinceLastCall = ignored[d]

\* The stored turn of a document that counts turns, unless the counter was lost.
TurnStored ==
  \A d \in Docs : memory[d].seen /\ CountsTurns(d) /\ d \notin lost
                  => turns = memory[d].turn + elapsed[d]

\* What the decisions to come have read, unless the counter was lost.
ReadStored ==
  \A a \in Actions :
    /\ (reading[a] # NotSet /\ a \notin stale) => turns = reading[a] + passed[a]
    /\ reading[a] = NotSet => passed[a] = 0

GateInv == TypeOK /\ OwedIsRemembered /\ DriftStored /\ TurnStored /\ ReadStored

LEMMA InitGateInv == Init => GateInv
<1> SUFFICES ASSUME Init PROVE GateInv
  OBVIOUS
<1>1. TypeOK
  <2>1. \A d \in Docs : memory[d] = Unseen
    BY DEF Init
  <2>2. Unseen \in Entry /\ ~Unseen.denied
    BY DEF Unseen, Entry
  <2>3. memory \in [Docs -> Entry]
    BY <2>2 DEF Init
  <2>4. verdict.decision = "none"
    BY DEF Init, Silent, Verdict, decision
  <2> QED BY <2>1, <2>2, <2>3, <2>4, GateAssumption DEF Init, TypeOK, GateAssumption
<1>2. OwedIsRemembered
  BY DEF Init, OwedIsRemembered
<1>3. DriftStored /\ TurnStored /\ ReadStored
  BY DEF Init, Unseen, DriftStored, TurnStored, ReadStored
<1> QED BY <1>1, <1>2, <1>3 DEF GateInv

\* A reading that is used up leaves the others, and the counter it read, as they are.
LEMMA UsedReading ==
  ASSUME TypeOK, ReadStored, NEW a \in Actions, UseReading(a)
  PROVE  /\ reading' \in [Actions -> 0..MaxTurns \cup {NotSet}]
         /\ passed' \in [Actions -> 0..MaxTurns] /\ stale' \subseteq Actions
         /\ turns' = turns => ReadStored'
<1>1. /\ reading' = [reading EXCEPT ![a] = NotSet] /\ passed' = [passed EXCEPT ![a] = 0]
      /\ stale' = stale \ {a} /\ 0 \in 0..MaxTurns
  BY GateAssumption DEF UseReading, GateAssumption
<1>2. /\ reading' \in [Actions -> 0..MaxTurns \cup {NotSet}]
      /\ passed' \in [Actions -> 0..MaxTurns] /\ stale' \subseteq Actions
  BY <1>1 DEF TypeOK
<1>3. ASSUME turns' = turns, NEW b \in Actions, reading'[b] # NotSet, b \notin stale'
      PROVE  turns' = reading'[b] + passed'[b]
  <2>1. b # a /\ reading'[b] = reading[b] /\ passed'[b] = passed[b] /\ b \notin stale
    BY <1>1, <1>3 DEF TypeOK
  <2> QED BY <1>3, <2>1 DEF ReadStored
<1>4. ASSUME NEW b \in Actions, reading'[b] = NotSet PROVE passed'[b] = 0
  <2>1. CASE b = a
    BY <1>1, <2>1 DEF TypeOK
  <2>2. CASE b # a
    BY <1>1, <1>4, <2>2 DEF TypeOK, ReadStored
  <2> QED BY <2>1, <2>2
<1> QED BY <1>2, <1>3, <1>4 DEF ReadStored

\* A decision under the lock keeps the invariant, before the action and after the answer.
LEMMA LeadKeepsInv ==
  ASSUME GateInv, NEW a \in Actions, NEW K \in SUBSET Selects[a], NEW moment,
         moment = Before => K = keptBefore[a], moment \in {Before, After},
         Lead(a, K, moment), running' \subseteq Actions
  PROVE  GateInv'
<1> DEFINE now == turnCount(a)
           refusing == blocked(K, moment, now)
<1> USE DEF GateInv
<1>1. Selects[a] \subseteq Docs
  BY KeptAreSelected
<1>2. now \in 0..MaxTurns /\ now \in Nat
  <2>1. Ready(a) /\ reading[a] \in 0..MaxTurns \cup {NotSet}
    BY DEF Lead, TypeOK
  <2> QED BY <2>1, GateAssumption DEF Ready, turnCount, GateAssumption
<1>3. \A d \in Docs : /\ memory[d] \in Entry /\ ignored[d] \in 0..MaxDrift
                      /\ elapsed[d] \in 0..MaxTurns
                      /\ ~memory[d].seen => memory[d] = Unseen
                      /\ memory[d].denied => enforceForDoc(d)
  BY DEF TypeOK
<1>4. \A d \in Docs :
        /\ d \in K /\ remembers(d) => memory'[d] = recalled(now, d \in refusing)
        /\ d \notin K /\ drifts(d, K, moment) => memory'[d] = foreign(d)
        /\ ~(d \in K /\ remembers(d)) /\ ~drifts(d, K, moment) => memory'[d] = memory[d]
  BY <1>1, <1>2, LeadWrites
<1>5. refusing \subseteq K /\ \A d \in refusing : enforceForDoc(d)
  BY RefusersEnforce
<1>6. \A d \in Docs : drifts(d, K, moment) => memory[d].seen /\ d \notin K /\ CountsActions(d)
  BY DEF drifts
<1>7. \A d \in Docs : recalled(now, d \in refusing) \in Entry
  BY <1>2 DEF recalled, Entry
<1>8. \A d \in Docs : foreign(d) \in Entry /\ foreign(d).seen = memory[d].seen
                      /\ foreign(d).denied = memory[d].denied /\ foreign(d).turn = memory[d].turn
                      /\ foreign(d).sinceLastCall = memory[d].sinceLastCall + 1
  BY <1>3 DEF foreign, Entry
<1>9. TypeOK'
  <2>1. memory' \in [Docs -> Entry]
    <3>1. \A d \in Docs : memory'[d] \in Entry
      BY <1>3, <1>4, <1>6, <1>7, <1>8
    <3>2. memory' = [d \in Docs |-> memory'[d]]
      <4>1. memory = [d \in Docs |-> memory[d]]
        BY DEF TypeOK
      <4>2. CASE changed(K, moment, now)
        BY <4>2 DEF Lead, next
      <4>3. CASE ~changed(K, moment, now)
        BY <4>1, <4>3 DEF Lead
      <4> QED BY <4>2, <4>3
    <3> QED BY <3>1, <3>2
  <2>2. \A d \in Docs : /\ ~memory'[d].seen => memory'[d] = Unseen
                        /\ memory'[d].denied => enforceForDoc(d)
    <3> SUFFICES ASSUME NEW d \in Docs
                 PROVE  /\ ~memory'[d].seen => memory'[d] = Unseen
                        /\ memory'[d].denied => enforceForDoc(d)
      OBVIOUS
    <3>1. CASE d \in K /\ remembers(d)
      BY <3>1, <1>4, <1>5, RecalledFields
    <3>2. CASE drifts(d, K, moment)
      BY <3>2, <1>3, <1>4, <1>6, <1>8
    <3>3. CASE ~(d \in K /\ remembers(d)) /\ ~drifts(d, K, moment)
      BY <3>3, <1>3, <1>4
    <3> QED BY <3>1, <3>2, <3>3, <1>6
  <2>3. turns' \in 0..MaxTurns /\ owed' \subseteq Actions /\ lost' \subseteq Docs
    BY <1>1 DEF Lead, TypeOK
  <2>4. ignored' \in [Docs -> 0..MaxDrift]
    BY <1>3, GateAssumption DEF Lead, UpTo, GateAssumption
  <2>5. elapsed' \in [Docs -> 0..MaxTurns]
    <3>1. passed[a] \in 0..MaxTurns /\ 0 \in 0..MaxTurns
      BY GateAssumption DEF TypeOK, GateAssumption
    <3> QED BY <1>3, <3>1 DEF Lead
  <2>6. verdict'.decision \in {"none", "allow", "deny"}
    BY DEF Lead, Verdict, decision
  <2>7. /\ reading' \in [Actions -> 0..MaxTurns \cup {NotSet}]
        /\ passed' \in [Actions -> 0..MaxTurns] /\ stale' \subseteq Actions
    BY UsedReading DEF Lead
  <2> QED BY <2>1, <2>2, <2>3, <2>4, <2>5, <2>6, <2>7 DEF TypeOK
<1>10. OwedIsRemembered'
  <2> SUFFICES ASSUME NEW b \in owed'
               PROVE  \E d \in keptBefore[b] : enforceForDoc(d) /\ memory'[d].seen /\ memory'[d].denied
    BY DEF OwedIsRemembered
  <2>1. CASE b \in owed /\ keptBefore[b] \cap K = {}
    <3>1. PICK d \in keptBefore[b] : enforceForDoc(d) /\ memory[d].seen /\ memory[d].denied
      BY <2>1 DEF OwedIsRemembered
    <3>2. b \in Actions
      BY <2>1 DEF TypeOK
    <3>3. d \in Docs
      BY <3>2, KeptAreSelected
    <3>4. d \notin K
      BY <2>1
    <3> QED BY <3>1, <3>3, <3>4, <1>4, <1>8
  <2>2. CASE b = a /\ verdict'.decision = "deny"
    <3>1. verdict'.decision = decision(inject(K, now), refusing)
      BY DEF Lead, Verdict
    <3>2. PICK d \in refusing : TRUE
      BY <2>2, <3>1, DenyNeedsRefuser
    <3>3. moment = Before
      BY <3>2, NoRefusalAfterRefusal
    <3>4. d \in K /\ d \in Docs /\ enforceForDoc(d) /\ d \in keptBefore[b]
      BY <3>2, <3>3, <1>1, <1>5, <2>2
    <3>5. memory'[d] = recalled(now, d \in refusing)
      BY <3>4, <1>4 DEF remembers
    <3>6. memory'[d].seen /\ memory'[d].denied
      BY <3>2, <3>5, RecalledFields
    <3> QED BY <3>4, <3>6
  <2>3. owed' = {c \in owed : keptBefore[c] \cap K = {}}
                  \cup {c \in {a} : verdict'.decision = "deny"}
    BY DEF Lead
  <2> QED BY <2>1, <2>2, <2>3
<1>11. DriftStored'
  <2> SUFFICES ASSUME NEW d \in Docs, memory'[d].seen, CountsActions(d)
               PROVE  memory'[d].sinceLastCall = ignored'[d]
    BY DEF DriftStored
  <2>1. CASE d \in K
    <3>1. memory'[d] = recalled(now, d \in refusing)
      BY <2>1, <1>4 DEF remembers, CountsActions
    <3>2. ignored'[d] = 0
      BY <2>1 DEF Lead
    <3> QED BY <3>1, <3>2 DEF recalled
  <2>2. CASE d \notin K /\ drifts(d, K, moment)
    <3>1. memory[d].sinceLastCall = ignored[d] /\ memory[d].sinceLastCall < MaxDrift
      BY <2>2, <1>6 DEF DriftStored, Lead, WithinBound
    <3>2. ignored'[d] = UpTo(ignored[d] + 1, MaxDrift)
      BY <2>2 DEF Lead, drifts
    <3>3. memory'[d].sinceLastCall = memory[d].sinceLastCall + 1
      BY <2>2, <1>4, <1>8
    <3> QED BY <3>1, <3>2, <3>3, <1>3, GateAssumption DEF UpTo, GateAssumption
  <2>3. CASE d \notin K /\ ~drifts(d, K, moment)
    <3>1. memory'[d] = memory[d]
      BY <2>3, <1>4
    <3>2. ignored'[d] = ignored[d]
      BY <2>3, <3>1 DEF Lead, drifts
    <3> QED BY <3>1, <3>2 DEF DriftStored
  <2> QED BY <2>1, <2>2, <2>3
<1>12. TurnStored'
  <2> SUFFICES ASSUME NEW d \in Docs, memory'[d].seen, CountsTurns(d), d \notin lost'
               PROVE  turns' = memory'[d].turn + elapsed'[d]
    BY DEF TurnStored
  <2>1. turns' = turns /\ turns \in Nat
    BY GateAssumption DEF Lead, TypeOK, GateAssumption
  <2>2. CASE d \in K
    <3>1. memory'[d] = recalled(now, d \in refusing)
      BY <2>2, <1>4 DEF remembers, CountsTurns
    <3>2. ReadsTurns(a) /\ Ready(a)
      BY <2>2 DEF ReadsTurns, CountsTurns, Lead
    <3>3. now = reading[a] /\ reading[a] # NotSet
      BY <3>2 DEF Ready, turnCount
    <3>4. elapsed'[d] = passed[a] /\ a \notin stale
      BY <2>2 DEF Lead
    <3>5. turns = reading[a] + passed[a]
      BY <3>3, <3>4 DEF ReadStored
    <3> QED BY <2>1, <3>1, <3>3, <3>4, <3>5, RecalledFields
  <2>3. CASE d \notin K
    <3>1. memory'[d] = memory[d]
      BY <2>3, <1>4, <1>6 DEF CountsTurns, CountsActions
    <3>2. elapsed'[d] = elapsed[d] /\ d \notin lost
      <4>1. lost \ K \subseteq lost'
        BY DEF Lead
      <4> QED BY <2>3, <4>1 DEF Lead
    <3> QED BY <2>1, <3>1, <3>2 DEF TurnStored
  <2> QED BY <2>2, <2>3
<1>13. ReadStored'
  BY UsedReading DEF Lead
<1> QED BY <1>9, <1>10, <1>11, <1>12, <1>13

\* A step that decides under the lock, or one that leaves the records alone.
LEMMA NextCases ==
  ASSUME Next
  PROVE  \/ \E a \in Actions, K \in SUBSET Docs, moment \in {Before, After} :
              /\ K \in SUBSET Selects[a]
              /\ moment = Before => K = keptBefore[a]
              /\ Lead(a, K, moment)
              /\ running' = IF moment = After THEN running \ {a}
                            ELSE IF verdict'.decision = "deny" THEN running ELSE running \cup {a}
         \/ \E a \in Actions, K \in SUBSET Docs :
              /\ Fallback(a, K)
              /\ running' = running \cup {a} \/ running' = running \ {a}
         \/ \E a \in Actions : ReadTurns(a)
         \/ Turn \/ LoseTurns \/ Forget(0) \/ Forget(turns)
<1>1. ASSUME NEW a \in Actions, DecideBefore(a)
      PROVE  /\ keptBefore[a] \in SUBSET Selects[a] /\ keptBefore[a] \in SUBSET Docs
             /\ Lead(a, keptBefore[a], Before)
             /\ running' = IF verdict'.decision = "deny" THEN running ELSE running \cup {a}
  BY <1>1, KeptAreSelected DEF DecideBefore
<1>2. ASSUME NEW a \in Actions, NEW answer \in Answers, DecideAfter(a, answer)
      PROVE  /\ keptAfter(a, answer) \in SUBSET Selects[a] /\ keptAfter(a, answer) \in SUBSET Docs
             /\ Lead(a, keptAfter(a, answer), After)
             /\ running' = running \ {a}
  BY <1>2, KeptAreSelected DEF DecideAfter
<1>3. Before # After
  BY DEF Before, After
<1>4. CASE \E a \in Actions : DecideBefore(a)
  BY <1>1, <1>3, <1>4
<1>5. CASE \E a \in Actions, answer \in Answers : DecideAfter(a, answer)
  BY <1>2, <1>3, <1>5
<1>6. CASE \E a \in Actions : DecideBeforeLockless(a)
  <2>1. PICK a \in Actions : DecideBeforeLockless(a)
    BY <1>6
  <2>2. keptBefore[a] \in SUBSET Docs
    BY KeptAreSelected
  <2> QED BY <2>1, <2>2 DEF DecideBeforeLockless
<1>7. CASE \E a \in Actions, answer \in Answers : DecideAfterLockless(a, answer)
  <2>1. PICK a \in Actions, answer \in Answers : DecideAfterLockless(a, answer)
    BY <1>7
  <2>2. keptAfter(a, answer) \in SUBSET Docs
    BY KeptAreSelected
  <2> QED BY <2>1, <2>2 DEF DecideAfterLockless
<1>8. CASE Turn \/ LoseTurns \/ Compact \/ EvictSeen
  BY <1>8 DEF Compact, EvictSeen
<1> QED BY <1>4, <1>5, <1>6, <1>7, <1>8 DEF Next

\* The counter is read outside the lock.
LEMMA ReadKeepsInv ==
  ASSUME GateInv, NEW a \in Actions, ReadTurns(a)
  PROVE  GateInv'
<1>1. verdict'.decision = "none"
  BY DEF ReadTurns, Silent, Verdict, decision
<1>2. /\ reading' = [reading EXCEPT ![a] = turns] /\ turns \in 0..MaxTurns
      /\ UNCHANGED <<memory, turns, running, owed, ignored, elapsed, passed, lost, stale>>
  BY DEF ReadTurns, GateInv, TypeOK
<1>3. TypeOK'
  BY <1>1, <1>2 DEF GateInv, TypeOK
<1>4. OwedIsRemembered' /\ DriftStored' /\ TurnStored'
  BY <1>2 DEF GateInv, OwedIsRemembered, DriftStored, TurnStored
<1>5. passed[a] = 0
  BY DEF GateInv, ReadStored, ReadTurns
<1>6. ASSUME NEW b \in Actions, reading'[b] # NotSet, b \notin stale'
      PROVE  turns' = reading'[b] + passed'[b]
  <2>1. CASE b = a
    BY <1>2, <1>5, <2>1, GateAssumption DEF GateInv, TypeOK, GateAssumption
  <2>2. CASE b # a
    BY <1>2, <1>6, <2>2 DEF GateInv, TypeOK, ReadStored
  <2> QED BY <2>1, <2>2
<1>7. ASSUME NEW b \in Actions, reading'[b] = NotSet PROVE passed'[b] = 0
  BY <1>2, <1>5, <1>7 DEF GateInv, TypeOK, ReadStored
<1> QED BY <1>3, <1>4, <1>6, <1>7 DEF GateInv, ReadStored

LEMMA ForgetKeepsInv ==
  ASSUME GateInv, NEW counter \in 0..MaxTurns, Forget(counter)
  PROVE  GateInv'
<1>1. \A d \in Docs : memory'[d] = Unseen
  BY DEF Forget
<1>2. Unseen \in Entry /\ ~Unseen.denied /\ ~Unseen.seen
  BY DEF Unseen, Entry
<1>3. memory' \in [Docs -> Entry]
  BY <1>2 DEF Forget
<1>4. verdict'.decision = "none"
  BY DEF Forget, Silent, Verdict, decision
<1>5. TypeOK'
  BY <1>1, <1>2, <1>3, <1>4, GateAssumption DEF GateInv, Forget, TypeOK, Outdated, GateAssumption
<1>6. OwedIsRemembered'
  BY DEF Forget, OwedIsRemembered
<1>7. DriftStored' /\ TurnStored'
  BY <1>1, <1>2 DEF DriftStored, TurnStored
<1>8. ReadStored'
  BY DEF GateInv, ReadStored, Forget, Outdated
<1> QED BY <1>5, <1>6, <1>7, <1>8 DEF GateInv

LEMMA TurnKeepsInv ==
  ASSUME GateInv, Turn
  PROVE  GateInv'
<1>1. verdict'.decision = "none"
  BY DEF Turn, Silent, Verdict, decision
<1>2. turns \in Nat /\ turns < MaxTurns /\ turns' = turns + 1 /\ turns' \in 0..MaxTurns
  BY GateAssumption DEF GateInv, TypeOK, Turn, GateAssumption
<1>3. elapsed' \in [Docs -> 0..MaxTurns]
  <2> SUFFICES ASSUME NEW d \in Docs, memory[d].seen, CountsTurns(d), d \notin lost
               PROVE  elapsed[d] + 1 \in 0..MaxTurns
    BY DEF GateInv, TypeOK, Turn
  <2>1. turns = memory[d].turn + elapsed[d]
    BY DEF GateInv, TurnStored
  <2>2. memory[d].turn \in Nat /\ elapsed[d] \in Nat
    BY GateAssumption DEF GateInv, TypeOK, Entry, GateAssumption
  <2> QED BY <1>2, <2>1, <2>2, GateAssumption DEF GateAssumption
<1>7. passed' \in [Actions -> 0..MaxTurns]
  <2> SUFFICES ASSUME NEW a \in Actions, reading[a] # NotSet, a \notin stale
               PROVE  passed[a] + 1 \in 0..MaxTurns
    BY DEF GateInv, TypeOK, Turn
  <2>1. turns = reading[a] + passed[a] /\ reading[a] \in Nat /\ passed[a] \in Nat
    BY GateAssumption DEF GateInv, TypeOK, ReadStored, GateAssumption
  <2> QED BY <1>2, <2>1, GateAssumption DEF GateAssumption
<1>4. TypeOK'
  BY <1>1, <1>2, <1>3, <1>7 DEF GateInv, TypeOK, Turn
<1>5. OwedIsRemembered' /\ DriftStored'
  BY DEF GateInv, Turn, OwedIsRemembered, DriftStored
<1>6. TurnStored'
  <2> SUFFICES ASSUME NEW d \in Docs, memory[d].seen, CountsTurns(d), d \notin lost
               PROVE  turns' = memory[d].turn + elapsed'[d]
    BY DEF TurnStored, Turn
  <2>1. turns = memory[d].turn + elapsed[d]
    BY DEF GateInv, TurnStored
  <2>2. memory[d].turn \in Nat /\ elapsed[d] \in Nat
    BY GateAssumption DEF GateInv, TypeOK, Entry, GateAssumption
  <2>3. elapsed'[d] = elapsed[d] + 1
    BY DEF Turn
  <2> QED BY <1>2, <2>1, <2>2, <2>3
<1>8. ReadStored'
  <2>1. ASSUME NEW a \in Actions, reading[a] # NotSet, a \notin stale
        PROVE  turns' = reading[a] + passed'[a]
    <3>1. turns = reading[a] + passed[a] /\ reading[a] \in Nat /\ passed[a] \in Nat
      BY <2>1, GateAssumption DEF GateInv, TypeOK, ReadStored, GateAssumption
    <3>2. passed'[a] = passed[a] + 1
      BY <2>1 DEF Turn
    <3> QED BY <1>2, <3>1, <3>2
  <2>2. ASSUME NEW a \in Actions, reading[a] = NotSet PROVE passed'[a] = 0
    BY <2>2 DEF GateInv, ReadStored, Turn
  <2> QED BY <2>1, <2>2 DEF ReadStored, Turn
<1> QED BY <1>4, <1>5, <1>6, <1>8 DEF GateInv

LEMMA LoseTurnsKeepsInv ==
  ASSUME GateInv, LoseTurns
  PROVE  GateInv'
<1>1. verdict'.decision = "none"
  BY DEF LoseTurns, Silent, Verdict, decision
<1>2. TypeOK'
  BY <1>1, GateAssumption DEF GateInv, TypeOK, LoseTurns, Outdated, GateAssumption
<1>3. OwedIsRemembered' /\ DriftStored'
  BY DEF GateInv, LoseTurns, OwedIsRemembered, DriftStored
<1>4. TurnStored' /\ ReadStored'
  BY DEF LoseTurns, Outdated, TurnStored, ReadStored
<1> QED BY <1>2, <1>3, <1>4 DEF GateInv

LEMMA FallbackKeepsInv ==
  ASSUME GateInv, NEW a \in Actions, NEW K, Fallback(a, K), running' \subseteq Actions
  PROVE  GateInv'
<1>1. verdict'.decision \in {"none", "allow", "deny"}
  BY DEF Fallback, Verdict, decision
<1>2. UseReading(a) /\ UNCHANGED <<memory, turns, owed, ignored, elapsed, lost>>
  BY DEF Fallback
<1>3. ReadStored' /\ TypeOK'
  BY <1>1, <1>2, UsedReading DEF GateInv, TypeOK
<1> QED BY <1>2, <1>3 DEF GateInv, OwedIsRemembered, DriftStored, TurnStored

LEMMA StutterKeepsInv ==
  ASSUME GateInv, UNCHANGED vars
  PROVE  GateInv'
  BY DEF GateInv, vars, TypeOK, OwedIsRemembered, DriftStored, TurnStored, ReadStored

LEMMA NextKeepsInv ==
  ASSUME GateInv, [Next]_vars
  PROVE  GateInv'
<1>1. running \subseteq Actions /\ turns \in 0..MaxTurns /\ 0 \in 0..MaxTurns
  BY GateAssumption DEF GateInv, TypeOK, GateAssumption
<1>2. CASE \E a \in Actions, K \in SUBSET Docs, moment \in {Before, After} :
              /\ K \in SUBSET Selects[a]
              /\ moment = Before => K = keptBefore[a]
              /\ Lead(a, K, moment)
              /\ running' = IF moment = After THEN running \ {a}
                            ELSE IF verdict'.decision = "deny" THEN running ELSE running \cup {a}
  BY <1>1, <1>2, LeadKeepsInv
<1>3. CASE \E a \in Actions, K \in SUBSET Docs :
              Fallback(a, K) /\ (running' = running \cup {a} \/ running' = running \ {a})
  BY <1>1, <1>3, FallbackKeepsInv
<1>4. CASE Forget(0) \/ Forget(turns)
  BY <1>1, <1>4, ForgetKeepsInv
<1>5. CASE Turn \/ LoseTurns
  BY <1>5, TurnKeepsInv, LoseTurnsKeepsInv
<1>6. CASE UNCHANGED vars
  BY <1>6, StutterKeepsInv
<1>7. CASE \E a \in Actions : ReadTurns(a)
  BY <1>7, ReadKeepsInv
<1> QED BY <1>2, <1>3, <1>4, <1>5, <1>6, <1>7, NextCases

LEMMA AlwaysGateInv == Spec => []GateInv
<1>1. Init => GateInv
  BY InitGateInv
<1>2. GateInv /\ [Next]_vars => GateInv'
  BY NextKeepsInv
<1> QED BY <1>1, <1>2, PTL DEF Spec

---------------------------------------------------------------------------
(* The theorems.                                                           *)

\* The state has its type, and only a document that enforces remembers a refusal.
THEOREM GateTyping == Spec => []TypeOK
<1>1. GateInv => TypeOK
  BY DEF GateInv
<1> QED BY <1>1, AlwaysGateInv, PTL

\* An action that is owed a pass has a document that remembers its refusal (gate.js:448).
THEOREM GateRemembers == Spec => []OwedIsRemembered
<1>1. GateInv => OwedIsRemembered
  BY DEF GateInv
<1> QED BY <1>1, AlwaysGateInv, PTL

\* What a step says when it decides nothing, or decides without the lock.
LEMMA OnlyLeadSpeaks ==
  ASSUME NEW a, NEW K,
         \/ Fallback(a, K) \/ (\E b \in Actions : ReadTurns(b))
         \/ Turn \/ LoseTurns \/ Forget(0) \/ Forget(turns)
  PROVE  verdict'.decision # "deny" /\ ~verdict'.recorded
<1>1. CASE Fallback(a, K)
  BY <1>1 DEF Fallback, Verdict, decision
<1>2. CASE Turn \/ LoseTurns \/ Forget(0) \/ Forget(turns)
  BY <1>2 DEF Turn, LoseTurns, Forget, Silent, Verdict, decision
<1>3. CASE \E b \in Actions : ReadTurns(b)
  BY <1>3 DEF ReadTurns, Silent, Verdict, decision
<1> QED BY <1>1, <1>2, <1>3

LEMMA StepRetryPasses ==
  ASSUME GateInv, [Next]_vars
  PROVE  [verdict'.decision = "deny" => verdict'.action \notin owed]_vars
<1> SUFFICES ASSUME Next, verdict'.decision = "deny", verdict'.action \in owed
             PROVE  FALSE
  OBVIOUS
<1>1. PICK a \in Actions, K \in SUBSET Docs, moment \in {Before, After} :
        (moment = Before => K = keptBefore[a]) /\ Lead(a, K, moment)
  BY NextCases, OnlyLeadSpeaks
<1> DEFINE now == turnCount(a)
<1>2. /\ verdict'.decision = decision(inject(K, now), blocked(K, moment, now))
      /\ verdict'.action = a
  BY <1>1 DEF Lead, Verdict
<1>3. ~(moment = After \/ previouslyDenied(K))
  BY <1>2, DenyNeedsRefuser, NoRefusalAfterRefusal
<1>4. K = keptBefore[a]
  BY <1>1, <1>3
<1>5. \E d \in keptBefore[a] : enforceForDoc(d) /\ memory[d].seen /\ memory[d].denied
  BY <1>2 DEF GateInv, OwedIsRemembered
<1> QED BY <1>3, <1>4, <1>5 DEF previouslyDenied

\* A refused action is not refused again as long as no action sharing a document with it
\* was decided under the lock, whatever else happens in the scope (gate.js:441-449).
THEOREM GateRetryPasses == Spec => RetryPasses
<1>1. GateInv /\ [Next]_vars => [verdict'.decision = "deny" => verdict'.action \notin owed]_vars
  BY StepRetryPasses
<1> QED BY <1>1, AlwaysGateInv, PTL DEF Spec, RetryPasses

\* A recorded decision delivers what it keeps according to the drift of each document.
LEMMA RecordedDelivers ==
  ASSUME GateInv, Next, verdict'.recorded, NEW d \in verdict'.kept, d \in Docs, memory[d].seen,
         modeForDoc(d) = "smart"
  PROVE  \E a \in Actions : /\ d \in Selects[a] /\ Ready(a) /\ verdict'.action = a
                            /\ d \in verdict'.delivered
                                 <=> since(d, turnCount(a)) >= thresholdForDoc(d)
<1>1. PICK a \in Actions, K \in SUBSET Docs, moment \in {Before, After} :
        K \in SUBSET Selects[a] /\ Lead(a, K, moment)
  BY NextCases, OnlyLeadSpeaks
<1>2. /\ verdict'.delivered = inject(K, turnCount(a)) /\ verdict'.kept = K
      /\ Ready(a) /\ verdict'.action = a
  BY <1>1 DEF Lead, Verdict
<1>3. d \in inject(K, turnCount(a)) <=> since(d, turnCount(a)) >= thresholdForDoc(d)
  BY <1>2 DEF inject, shouldInjectFor
<1> QED BY <1>1, <1>2, <1>3

LEMMA StepDriftCounts ==
  ASSUME GateInv, [Next]_vars
  PROVE  [\A d \in Docs :
            verdict'.recorded /\ d \in verdict'.kept /\ memory[d].seen /\ CountsActions(d)
            => (d \in verdict'.delivered <=> ignored[d] >= thresholdForDoc(d))]_vars
<1> SUFFICES ASSUME Next, NEW d \in Docs, verdict'.recorded, d \in verdict'.kept,
                    memory[d].seen, CountsActions(d)
             PROVE  d \in verdict'.delivered <=> ignored[d] >= thresholdForDoc(d)
  OBVIOUS
<1>1. modeForDoc(d) = "smart" /\ driftUnitForDoc(d) # "turn"
  BY DEF CountsActions
<1>2. PICK a \in Actions :
        d \in verdict'.delivered <=> since(d, turnCount(a)) >= thresholdForDoc(d)
  BY <1>1, RecordedDelivers
<1>3. since(d, turnCount(a)) = memory[d].sinceLastCall
  BY <1>1 DEF since
<1>4. memory[d].sinceLastCall = ignored[d]
  BY DEF GateInv, DriftStored
<1> QED BY <1>2, <1>3, <1>4

\* A smart document that counts actions comes back after its threshold of decisions without
\* it, neither earlier nor later (gate.js:395-433, 464-468).
THEOREM GateDriftCounts == Spec => DriftCountsIgnored
<1>1. GateInv /\ [Next]_vars =>
        [\A d \in Docs :
            verdict'.recorded /\ d \in verdict'.kept /\ memory[d].seen /\ CountsActions(d)
            => (d \in verdict'.delivered <=> ignored[d] >= thresholdForDoc(d))]_vars
  BY StepDriftCounts
<1> QED BY <1>1, AlwaysGateInv, PTL DEF Spec, DriftCountsIgnored

LEMMA StepTurnDrift ==
  ASSUME GateInv, [Next]_vars
  PROVE  [\A d \in Docs :
            LET a == verdict'.action IN
            verdict'.recorded /\ d \in verdict'.kept
              /\ memory[d].seen /\ CountsTurns(d) /\ d \notin lost /\ a \notin stale
            => (d \in verdict'.delivered <=> elapsed[d] - passed[a] >= thresholdForDoc(d))]_vars
<1> SUFFICES ASSUME Next, NEW d \in Docs, verdict'.recorded, d \in verdict'.kept,
                    memory[d].seen, CountsTurns(d), d \notin lost, verdict'.action \notin stale
             PROVE  d \in verdict'.delivered
                      <=> elapsed[d] - passed[verdict'.action] >= thresholdForDoc(d)
  OBVIOUS
<1>1. modeForDoc(d) = "smart" /\ driftUnitForDoc(d) = "turn"
  BY DEF CountsTurns
<1>2. PICK a \in Actions :
        /\ d \in Selects[a] /\ Ready(a) /\ verdict'.action = a
        /\ d \in verdict'.delivered <=> since(d, turnCount(a)) >= thresholdForDoc(d)
  BY <1>1, RecordedDelivers
<1>3. reading[a] # NotSet /\ turnCount(a) = reading[a]
  BY <1>1, <1>2 DEF Ready, ReadsTurns, turnCount
<1>4. since(d, turnCount(a)) = reading[a] - memory[d].turn
  BY <1>1, <1>3 DEF since
<1>5. turns = memory[d].turn + elapsed[d] /\ turns = reading[a] + passed[a]
  BY <1>2, <1>3 DEF GateInv, TurnStored, ReadStored
<1>6. /\ memory[d].turn \in Nat /\ elapsed[d] \in Nat
      /\ reading[a] \in Nat /\ passed[a] \in Nat
  BY <1>3, GateAssumption DEF GateInv, TypeOK, Entry, GateAssumption
<1>7. since(d, turnCount(a)) = elapsed[d] - passed[a]
  BY <1>4, <1>5, <1>6
<1> QED BY <1>2, <1>7

\* A smart document that counts turns comes back after its threshold of turns, neither
\* earlier nor later, between the readings its recall and the decision go by, as long as
\* the counter is not lost (pretool-core.js:264-280, gate.js:464-468).
THEOREM GateTurnDrift == Spec => TurnDriftIsElapsed
<1>1. GateInv /\ [Next]_vars =>
        [\A d \in Docs :
            LET a == verdict'.action IN
            verdict'.recorded /\ d \in verdict'.kept
              /\ memory[d].seen /\ CountsTurns(d) /\ d \notin lost /\ a \notin stale
            => (d \in verdict'.delivered <=> elapsed[d] - passed[a] >= thresholdForDoc(d))]_vars
  BY StepTurnDrift
<1> QED BY <1>1, AlwaysGateInv, PTL DEF Spec, TurnDriftIsElapsed

=============================================================================
