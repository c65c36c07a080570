-------------------------------- MODULE Gate --------------------------------
(***************************************************************************)
(* The cadence gate, src/src/gate.js: which of the documents an action     *)
(* selects are delivered, and whether the action is refused.               *)
(*                                                                         *)
(* One scope (an agent), its doc-seen- record `memory` and its turn-count- *)
(* record `turns`.  An action is decided before it runs, by the leading    *)
(* frame that holds the lock or by one that could not get it, and once     *)
(* more when the tool has answered; several actions may be in flight.  The *)
(* turn counter is read before the lock is asked for, so a decision goes   *)
(* by a count that may be old, and two decisions by counts in any order.   *)
(* The configuration and the corpus do not change, and who the scope is    *)
(* (category-pure.js) is the constant Admitted.                            *)
(*                                                                         *)
(* Ghosts: `verdict` is what the last step decided, `owed` the actions     *)
(* that were refused and that no action sharing a document with them has   *)
(* followed, `ignored` the decisions since a document was last recalled,   *)
(* `elapsed` the turns since the counter was read for that recall,         *)
(* `passed` the turns since it was read for a decision to come, `lost` and *)
(* `stale` the recalls and the decisions to come by a counter since lost.  *)
(***************************************************************************)
EXTENDS Integers, FiniteSets

CONSTANTS
  Docs, Actions, Answers,
  Sources,    \* the owners of the documents, "skill" among them
  NotSet,     \* a setting nobody posed, or posed with a value that is not valid
  Selects,    \* Selects[a]: the documents the matching half selects
  Targets,    \* Targets[a]: the names a filter list may reach an action by: *, tool, server
  Owner,      \* Owner[d]: the source of a document
  Decl,       \* Decl[d]: the settings its entry poses
  Defaults,   \* Defaults[s]: the settings posed for a source
  Global,     \* the settings posed for the whole corpus
  Filter,     \* Filter[s], Filter["global"]: a filter mode and its list
  Admitted,   \* the documents whose category admits this scope
  MaxDrift,   \* bound: actions since a recall
  MaxTurns    \* bound: turns

VARIABLES
  memory,     \* the entry of each document
  turns,      \* the turn counter; 0 stands for absent and for malformed too
  reading,    \* what the decision to come of an action read in the counter, or NotSet
  running,    \* the actions let run, whose answer may come
  verdict, owed, ignored, elapsed, passed, lost, stale

vars == <<memory, turns, reading, running, verdict, owed, ignored, elapsed, passed, lost, stale>>

---------------------------------------------------------------------------
(* The cascade: entry, source, corpus, framework; the first that poses.    *)

Setting == {"mode", "threshold", "driftUnit", "enforce", "response"}

Framework(name, s) ==
  CASE name = "mode" -> IF s = "skill" THEN "once" ELSE "smart"
    [] name = "threshold" -> 4
    [] name = "driftUnit" -> "tool"
    [] name = "enforce" -> FALSE
    [] name = "response" -> NotSet

HasGlobal(name, s) ==
  name \in {"threshold", "driftUnit"} \/ (name = "mode" /\ s # "skill")

resolveSetting ==
  [name \in Setting |-> [d \in Docs |->
     LET s == Owner[d] IN
     IF Decl[d][name] # NotSet THEN Decl[d][name]
     ELSE IF Defaults[s][name] # NotSet THEN Defaults[s][name]
     ELSE IF HasGlobal(name, s) /\ Global[name] # NotSet THEN Global[name]
     ELSE Framework(name, s)]]

modeForDoc(d) == resolveSetting["mode"][d]
thresholdForDoc(d) == resolveSetting["threshold"][d]
driftUnitForDoc(d) == resolveSetting["driftUnit"][d]
enforceForDoc(d) == resolveSetting["enforce"][d]

\* The answers that satisfy the filter of a document, NotSet if it waits for none.
responseForDoc(d) == resolveSetting["response"][d]

\* The settings that carry a drift of their own unit.
CountsActions(d) == modeForDoc(d) = "smart" /\ driftUnitForDoc(d) = "tool"
CountsTurns(d) == modeForDoc(d) = "smart" /\ driftUnitForDoc(d) = "turn"

ASSUME GateAssumption ==
  /\ Actions # {} /\ MaxDrift \in Nat /\ MaxTurns \in Nat
  /\ Selects \in [Actions -> SUBSET Docs] /\ Owner \in [Docs -> Sources]
  /\ \A d \in Docs : /\ enforceForDoc(d) \in BOOLEAN
                     /\ thresholdForDoc(d) \in Nat \ {0}

---------------------------------------------------------------------------
(* The documents an action concerns.                                       *)

Before == "before"
After == "after"

FILTER_MODES == {"none", "whitelist", "blacklist"}

filterOf(s) == IF Filter[s].mode \in FILTER_MODES THEN Filter[s] ELSE Filter["global"]

targetExcluded(s, a) ==
  LET reached == filterOf(s).list \cap Targets[a] # {} IN
  \/ filterOf(s).mode = "whitelist" /\ ~reached
  \/ filterOf(s).mode = "blacklist" /\ reached

otherMoment(d, moment) == (responseForDoc(d) # NotSet) # (moment = After)

present(a, moment) == {d \in Selects[a] : ~otherMoment(d, moment)}

leftOut(a, moment) ==
  {d \in present(a, moment) : targetExcluded(Owner[d], a) \/ d \notin Admitted}

keptBefore == [a \in Actions |-> present(a, Before) \ leftOut(a, Before)]

keptAfter(a, answer) ==
  {d \in present(a, After) \ leftOut(a, After) : answer \in responseForDoc(d)}

---------------------------------------------------------------------------
(* The decision, for the documents K that are kept.                        *)

Entry == [seen : BOOLEAN, sinceLastCall : Nat, turn : Nat, denied : BOOLEAN]

Unseen == [seen |-> FALSE, sinceLastCall |-> 0, turn |-> 0, denied |-> FALSE]

\* The counter is read only for a document that measures its drift in turns.
ReadsTurns(a) == \E d \in Selects[a] : driftUnitForDoc(d) = "turn"

Ready(a) == ReadsTurns(a) => reading[a] # NotSet

turnCount(a) == IF ReadsTurns(a) THEN reading[a] ELSE 0

since(d, now) ==
  CASE ~memory[d].seen -> 0
    [] memory[d].seen /\ driftUnitForDoc(d) = "turn" -> now - memory[d].turn
    [] memory[d].seen /\ driftUnitForDoc(d) # "turn" -> memory[d].sinceLastCall

shouldInjectFor(d, now) ==
  \/ modeForDoc(d) = "dumb"
  \/ ~memory[d].seen
  \/ modeForDoc(d) = "smart" /\ since(d, now) >= thresholdForDoc(d)

inject(K, now) == {d \in K : shouldInjectFor(d, now)}

injectLockless(K, now) == {d \in inject(K, now) : modeForDoc(d) # "once"}

previouslyDenied(K) == \E d \in K : enforceForDoc(d) /\ memory[d].seen /\ memory[d].denied

blocked(K, moment, now) ==
  IF moment = After \/ previouslyDenied(K) THEN {}
  ELSE {d \in inject(K, now) : enforceForDoc(d)}

\* Mutant of drifts: the second decision of an action counts it again.
driftsTwice(d, K, moment) == d \notin K /\ memory[d].seen /\ CountsActions(d)

\* A decision before the action is foreign to the documents it does not keep.
drifts(d, K, moment) == moment = Before /\ d \notin K /\ memory[d].seen /\ CountsActions(d)

remembers(d) == modeForDoc(d) # "dumb" \/ enforceForDoc(d)

\* Mutant of foreign: the entry rebuilt field by field, the refusal forgotten.
foreignRebuilt(d) ==
  [seen |-> TRUE, sinceLastCall |-> memory[d].sinceLastCall + 1, turn |-> 0, denied |-> FALSE]

foreign(d) == [memory[d] EXCEPT !.sinceLastCall = @ + 1]

recalled(now, refuses) ==
  [seen |-> TRUE, sinceLastCall |-> 0, turn |-> now, denied |-> refuses]

next(K, moment, now) ==
  LET refusing == blocked(K, moment, now) IN
  [d \in Docs |->
     IF d \in K /\ remembers(d) THEN recalled(now, d \in refusing)
     ELSE IF drifts(d, K, moment) THEN foreign(d) ELSE memory[d]]

\* Mutant of changed: a recall in a later turn is not saved.
changedButTurn(K, moment, now) ==
  LET refusing == blocked(K, moment, now) IN
  \/ \E d \in Docs : drifts(d, K, moment)
  \/ \E d \in K : /\ remembers(d)
                  /\ \/ ~memory[d].seen
                     \/ memory[d].sinceLastCall # 0
                     \/ memory[d].denied # (d \in refusing)

changed(K, moment, now) ==
  LET refusing == blocked(K, moment, now) IN
  \/ \E d \in Docs : drifts(d, K, moment)
  \/ \E d \in K : /\ remembers(d)
                  /\ \/ ~memory[d].seen
                     \/ memory[d].sinceLastCall # 0
                     \/ memory[d].turn # now
                     \/ memory[d].denied # (d \in refusing)

decision(delivered, refusing) ==
  IF delivered = {} THEN "none" ELSE IF refusing # {} THEN "deny" ELSE "allow"

---------------------------------------------------------------------------
(* The steps.                                                              *)

WithinBound(K, moment) ==
  \A d \in Docs : drifts(d, K, moment) => memory[d].sinceLastCall < MaxDrift

UpTo(n, bound) == IF n > bound THEN bound ELSE n

Verdict(a, K, delivered, refusing, recorded) ==
  [action |-> a, kept |-> K, delivered |-> delivered, recorded |-> recorded,
   decision |-> decision(delivered, refusing)]

\* The steps that decide nothing.
Silent == Verdict(NotSet, {}, {}, {}, FALSE)

\* Outside the lock and before it: other decisions, and turns, may come in between.
ReadTurns(a) ==
  /\ ReadsTurns(a) /\ reading[a] = NotSet
  /\ reading' = [reading EXCEPT ![a] = turns]
  /\ verdict' = Silent
  /\ UNCHANGED <<memory, turns, running, owed, ignored, elapsed, passed, lost, stale>>

\* A decision uses up its reading.
UseReading(a) ==
  /\ reading' = [reading EXCEPT ![a] = NotSet]
  /\ passed' = [passed EXCEPT ![a] = 0]
  /\ stale' = stale \ {a}

\* The leading frame decides under the lock, and saves what changed.
Lead(a, K, moment) ==
  LET now == turnCount(a)
      said == Verdict(a, K, inject(K, now), blocked(K, moment, now), TRUE) IN
  /\ Ready(a) /\ WithinBound(K, moment)
  /\ memory' = IF changed(K, moment, now) THEN next(K, moment, now) ELSE memory
  /\ verdict' = said
  /\ owed' = {b \in owed : keptBefore[b] \cap K = {}}
               \cup {b \in {a} : said.decision = "deny"}
  /\ ignored' = [d \in Docs |->
                   IF d \in K THEN 0
                   ELSE IF moment = Before /\ memory[d].seen /\ CountsActions(d)
                     THEN UpTo(ignored[d] + 1, MaxDrift) ELSE ignored[d]]
  /\ elapsed' = [d \in Docs |-> IF d \notin K THEN elapsed[d]
                                ELSE IF CountsTurns(d) THEN passed[a] ELSE 0]
  /\ lost' = IF a \in stale THEN lost \cup {d \in K : CountsTurns(d)} ELSE lost \ K
  /\ UseReading(a)
  /\ UNCHANGED turns

\* A frame that could not get the lock reads, decides, and writes nothing.
Fallback(a, K) ==
  /\ Ready(a)
  /\ verdict' = Verdict(a, K, injectLockless(K, turnCount(a)), {}, FALSE)
  /\ UseReading(a)
  /\ UNCHANGED <<memory, turns, owed, ignored, elapsed, lost>>

DecideBefore(a) ==
  /\ Lead(a, keptBefore[a], Before)
  /\ running' = IF verdict'.decision = "deny" THEN running ELSE running \cup {a}

DecideBeforeLockless(a) == Fallback(a, keptBefore[a]) /\ running' = running \cup {a}

DecideAfter(a, answer) ==
  /\ a \in running /\ running' = running \ {a}
  /\ Lead(a, keptAfter(a, answer), After)

DecideAfterLockless(a, answer) ==
  /\ a \in running /\ running' = running \ {a}
  /\ Fallback(a, keptAfter(a, answer))

\* A turn of the conversation begins.
Turn ==
  /\ turns < MaxTurns
  /\ turns' = turns + 1
  /\ elapsed' = [d \in Docs |-> IF memory[d].seen /\ CountsTurns(d) /\ d \notin lost
                                  THEN elapsed[d] + 1 ELSE elapsed[d]]
  /\ passed' = [a \in Actions |-> IF reading[a] # NotSet /\ a \notin stale
                                    THEN passed[a] + 1 ELSE passed[a]]
  /\ verdict' = Silent /\ UNCHANGED <<memory, reading, running, owed, ignored, lost, stale>>

\* The readings of a counter that is lost now.
Outdated == {a \in Actions : reading[a] # NotSet}

\* The record of the counter is evicted, or is found malformed.
LoseTurns ==
  /\ turns > 0
  /\ turns' = 0
  /\ lost' = {d \in Docs : memory[d].seen /\ CountsTurns(d)}
  /\ stale' = Outdated
  /\ elapsed' = [d \in Docs |-> 0] /\ passed' = [a \in Actions |-> 0]
  /\ verdict' = Silent /\ UNCHANGED <<memory, reading, running, owed, ignored>>

\* A compaction forgets both records, an eviction that of the documents.
Forget(counter) ==
  /\ memory' = [d \in Docs |-> Unseen]
  /\ turns' = counter
  /\ owed' = {} /\ lost' = {}
  /\ ignored' = [d \in Docs |-> 0] /\ elapsed' = [d \in Docs |-> 0]
  /\ stale' = IF counter = turns THEN stale ELSE Outdated
  /\ passed' = [a \in Actions |-> IF counter = turns THEN passed[a] ELSE 0]
  /\ verdict' = Silent /\ UNCHANGED <<reading, running>>

Compact == Forget(0)
EvictSeen == Forget(turns)

Init ==
  /\ memory = [d \in Docs |-> Unseen] /\ turns = 0 /\ running = {}
  /\ reading = [a \in Actions |-> NotSet] /\ passed = [a \in Actions |-> 0] /\ stale = {}
  /\ verdict = Silent
  /\ owed = {} /\ lost = {}
  /\ ignored = [d \in Docs |-> 0] /\ elapsed = [d \in Docs |-> 0]

Next ==
  \/ \E a \in Actions : ReadTurns(a) \/ DecideBefore(a) \/ DecideBeforeLockless(a)
  \/ \E a \in Actions, answer \in Answers : DecideAfter(a, answer) \/ DecideAfterLockless(a, answer)
  \/ Turn \/ LoseTurns \/ Compact \/ EvictSeen

Spec == Init /\ [][Next]_vars

---------------------------------------------------------------------------
(* Properties.                                                             *)

\* The state has its type; what is never seen holds nothing, and only a document that
\* enforces remembers a refusal (gate.js:502).
TypeOK ==
  /\ memory \in [Docs -> Entry]
  /\ turns \in 0..MaxTurns
  /\ reading \in [Actions -> 0..MaxTurns \cup {NotSet}] /\ passed \in [Actions -> 0..MaxTurns]
  /\ running \subseteq Actions /\ owed \subseteq Actions
  /\ lost \subseteq Docs /\ stale \subseteq Actions
  /\ ignored \in [Docs -> 0..MaxDrift] /\ elapsed \in [Docs -> 0..MaxTurns]
  /\ verdict.decision \in {"none", "allow", "deny"}
  /\ \A d \in Docs : /\ ~memory[d].seen => memory[d] = Unseen
                     /\ memory[d].denied => enforceForDoc(d)

\* An action that was refused is not refused again, whatever was decided in between that
\* has no document in common with it: before or after an answer, with the lock or without,
\* in whatever turn (gate.js:441-449, the alternation is a property of the action).
RetryPasses ==
  [][verdict'.decision = "deny" => verdict'.action \notin owed]_vars

\* What an owed action rests on: one of its documents still remembers the refusal.
OwedIsRemembered ==
  \A a \in owed : \E d \in keptBefore[a] : enforceForDoc(d) /\ memory[d].seen /\ memory[d].denied

\* A smart document that counts actions, once seen, is delivered when a recorded decision
\* keeps it exactly if its threshold of actions were decided without it since it was last
\* kept: not the answers, not the actions decided without the lock (gate.js:395-433).
DriftCountsIgnored ==
  [][\A d \in Docs :
       verdict'.recorded /\ d \in verdict'.kept
         /\ memory[d].seen /\ CountsActions(d)
       => (d \in verdict'.delivered <=> ignored[d] >= thresholdForDoc(d))]_vars

\* A smart document that counts turns, once seen, is delivered when a recorded decision
\* keeps it exactly if its threshold of turns began between the reading of the counter
\* that its last recall went by and the reading this decision goes by, unless the counter
\* was lost in the meantime (pretool-core.js:264-280, gate.js:464-468).  Not between the
\* two decisions: a turn that begins while a frame waits for the lock is counted after
\* the recall, not before it, and a decision overtaken by another may read a drift of -1.
TurnDriftIsElapsed ==
  [][\A d \in Docs :
       LET a == verdict'.action IN
       verdict'.recorded /\ d \in verdict'.kept
         /\ memory[d].seen /\ CountsTurns(d) /\ d \notin lost /\ a \notin stale
       => (d \in verdict'.delivered <=> elapsed[d] - passed[a] >= thresholdForDoc(d))]_vars

\* docs/framework/SKILL.md:17 of a once document that enforces: it refuses once per session.
OnceRefuses ==
  [][\A d \in Docs :
       modeForDoc(d) = "once" /\ enforceForDoc(d) /\ ~memory[d].seen /\ memory'[d].seen
       => verdict'.decision = "deny"]_vars

=============================================================================
