------------------------------- MODULE WrapUp -------------------------------
(***************************************************************************)
(* The end of a turn with the wrapUp option on: a sensor records how full  *)
(* the context is, a recorder which files the session wrote, and the Stop  *)
(* hook refuses to let the agent stop while its judges fail                *)
(* (wrap-up-pure.js, hooks/wrap-up-*.js), beside the turn counter whose    *)
(* record it reads (hooks/turn-count.js, turn-core.js) and the purge of a  *)
(* compaction (hooks/ctxroute-reset.js).  The records of one session.      *)
(***************************************************************************)
EXTENDS Naturals, FiniteSets

CONSTANTS
  File, Judge,
  ByCwd,               \* the judges whose perimeter covers the working directory
  Covers,              \* the judges whose perimeter covers each file
  MaxNudges,
  SILENT_SENSOR_TURNS,
  MAX_TOUCHED,
  StaysFull,           \* does the disk stay full once MaxLost saves have failed?
  MaxLost, MaxCompactions, MaxSkips   \* bounds on the environment

ASSUME WrapUpAssumption ==
  /\ ByCwd \subseteq Judge
  /\ Covers \in [File -> SUBSET Judge]
  /\ {MaxNudges, SILENT_SENSOR_TURNS, MAX_TOUCHED} \subseteq Nat \ {0}
  /\ {MaxLost, MaxCompactions, MaxSkips} \subseteq Nat
  /\ StaysFull \in BOOLEAN

Fills == {"low", "high"}        \* below or above wrapUp.atPercent

VARIABLES
  rec,         \* the wrap-up- record: observation, nudges, settled, silence said
  turn,        \* the turn-count- record: turns, refusal said
  touched,     \* the touched- record
  agent,       \* idle, working, or in the Stop hook: "silent", "judging"
  judges,      \* the judges of the Stop hook that is running
  fill,        \* how full the context really is
  sensors,     \* sensor processes that have not landed: what they measured, and in which context
  lost, compactions, skips,
  (* ghosts, since the records were last purged *)
  refusals,    \* ends of turn that were refused
  unsaved,     \* of them, those whose save failed
  released,    \* a release was saved
  written,     \* files the session wrote
  missed,      \* one of them was not recorded
  measured,    \* this context was itself measured above the threshold
  refusedSaid  \* how often the refused connection was announced

records == <<rec, turn, touched>>
ghosts == <<refusals, unsaved, released, written, missed, measured, refusedSaid>>
vars == <<records, agent, judges, fill, sensors, lost, compactions, skips, ghosts>>

NoRecord == [observation |-> "none", nudges |-> 0, settled |-> FALSE, silenceSaid |-> FALSE]
NoTurn == [turns |-> 0, refused |-> FALSE]
NoTouch == [files |-> {}, complete |-> TRUE]

Init ==
  /\ rec = NoRecord /\ turn = NoTurn /\ touched = NoTouch
  /\ agent = "idle" /\ judges = {}
  /\ fill = "low" /\ sensors = {}
  /\ lost = 0 /\ compactions = 0 /\ skips = 0
  /\ refusals = 0 /\ unsaved = 0 /\ released = FALSE
  /\ written = {} /\ missed = FALSE /\ measured = FALSE /\ refusedSaid = 0

-----------------------------------------------------------------------------
(* The decisions of wrap-up-pure.js.                                       *)

isDue(r) == ~r.settled /\ r.observation = "high"

sensorSilent(r, turns) ==
  ~r.silenceSaid /\ r.observation = "none" /\ turns >= SILENT_SENSOR_TURNS

\* Mutant of withObservation: a fresh record.
freshObservation(r, percent) == [NoRecord EXCEPT !.observation = percent]

\* The entry is propagated, never rebuilt.
withObservation(r, percent) == [r EXCEPT !.observation = percent]

\* Mutant of withTouched: the list is cut without saying so.
cutSilently(t, f) ==
  IF Cardinality(t.files) >= MAX_TOUCHED THEN t ELSE [t EXCEPT !.files = @ \cup {f}]

\* Past the ceiling the list stops growing and says so.
withTouched(t, f) ==
  IF f \in t.files THEN t
  ELSE IF Cardinality(t.files) >= MAX_TOUCHED THEN [t EXCEPT !.complete = FALSE]
  ELSE [t EXCEPT !.files = @ \cup {f}]

judgesFor(t) == ByCwd \cup UNION {Covers[f] : f \in t.files}

Settle(r) == [action |-> "allow", next |-> [r EXCEPT !.settled = TRUE]]
Block(r, n) == [action |-> "block", next |-> [r EXCEPT !.nudges = n]]

\* The judges hold the session: one fails, or none covers it and it was not told yet.
\* Broken judges do not hold it.
holds(r, ran, failing) == IF ran = {} THEN r.nudges = 0 ELSE failing # {}

\* Mutant of decide: the bound stops the count, and not the refusals.
decideUnbounded(r, ran, failing, broken) ==
  IF holds(r, ran, failing)
  THEN Block(r, IF r.nudges < MaxNudges THEN r.nudges + 1 ELSE r.nudges)
  ELSE Settle(r)

\* The verdicts of the judges that ran: failing, broken, the others passed.
decide(r, ran, failing, broken) ==
  IF r.nudges < MaxNudges /\ holds(r, ran, failing) THEN Block(r, r.nudges + 1) ELSE Settle(r)

-----------------------------------------------------------------------------
(* Saves.  A save that fails is logged and its caller goes on.             *)

Saved == ~(StaysFull /\ lost = MaxLost) /\ UNCHANGED lost
NotSaved == IF lost < MaxLost THEN lost' = lost + 1 ELSE StaysFull /\ UNCHANGED lost

\* A hook that did not get the lock, or died, does nothing.
Skip == skips < MaxSkips /\ skips' = skips + 1

-----------------------------------------------------------------------------
(* A prompt: the turn counter.  bump writes the whole record.              *)

bump(t) == [turns |-> IF t.turns < SILENT_SENSOR_TURNS THEN t.turns + 1 ELSE t.turns,
            refused |-> FALSE]

Prompt ==
  /\ agent = "idle" /\ agent' = "working"
  /\ \/ Saved /\ turn' = bump(turn) /\ UNCHANGED skips
     \/ NotSaved /\ UNCHANGED <<turn, skips>>
     \/ Skip /\ UNCHANGED <<turn, lost>>
  /\ UNCHANGED <<rec, touched, judges, fill, sensors, compactions, ghosts>>

\* On the client lane with no daemon: said unless the record says it was.
PromptRefused ==
  /\ agent = "idle" /\ agent' = "working"
  /\ refusedSaid' = IF turn.refused \/ refusedSaid = 2 THEN refusedSaid ELSE refusedSaid + 1
  /\ \/ turn.refused /\ UNCHANGED <<turn, lost>>
     \/ ~turn.refused /\ Saved /\ turn' = [turn EXCEPT !.refused = TRUE]
     \/ ~turn.refused /\ NotSaved /\ UNCHANGED turn
  /\ UNCHANGED <<rec, touched, judges, fill, sensors, compactions, skips,
                 refusals, unsaved, released, written, missed, measured>>

-----------------------------------------------------------------------------
(* The agent at work, and the processes that record it.                    *)

Grow ==
  /\ agent = "working" /\ fill = "low"
  /\ fill' = "high"
  /\ UNCHANGED <<records, agent, judges, sensors, lost, compactions, skips, ghosts>>

\* A sensor process is started, and nobody waits for it.
Measure ==
  /\ agent # "idle"
  /\ sensors' = sensors \cup {[percent |-> fill, late |-> FALSE]}
  /\ measured' = (measured \/ fill = "high")
  /\ UNCHANGED <<records, agent, judges, fill, lost, compactions, skips,
                 refusals, unsaved, released, written, missed, refusedSaid>>

Observe(m) ==
  /\ m \in sensors /\ sensors' = sensors \ {m}
  /\ \/ Saved /\ rec' = withObservation(rec, m.percent) /\ UNCHANGED skips
     \/ NotSaved /\ UNCHANGED <<rec, skips>>
     \/ Skip /\ UNCHANGED <<rec, lost>>
  /\ UNCHANGED <<turn, touched, agent, judges, fill, compactions, ghosts>>

\* The session or one of its sub-agents writes a file, at any time.
WriteFile(f) ==
  /\ f \notin written /\ written' = written \cup {f}
  /\ \/ Saved /\ touched' = withTouched(touched, f) /\ UNCHANGED <<skips, missed>>
     \/ NotSaved /\ missed' = TRUE /\ UNCHANGED <<touched, skips>>
     \/ Skip /\ missed' = TRUE /\ UNCHANGED <<touched, lost>>
  /\ UNCHANGED <<rec, turn, agent, judges, fill, sensors, compactions,
                 refusals, unsaved, released, measured, refusedSaid>>

-----------------------------------------------------------------------------
(* The Stop hook: a read without the lock, the judges, a second read and   *)
(* the write under the lock.                                               *)

Stop ==
  /\ agent = "working"
  /\ agent' = IF isDue(rec) THEN "judging" ELSE IF sensorSilent(rec, turn.turns) THEN "silent" ELSE "idle"
  /\ judges' = IF isDue(rec) THEN judgesFor(touched) ELSE {}
  /\ UNCHANGED <<records, fill, sensors, lost, compactions, skips, ghosts>>

\* The silence of the sensor is announced, once: re-checked under the lock, with
\* the number of turns Stop read.
SaySilence ==
  LET turns == SILENT_SENSOR_TURNS IN
  /\ agent = "silent" /\ agent' = "idle"
  /\ \/ ~sensorSilent(rec, turns) /\ UNCHANGED <<rec, lost>>
     \/ /\ sensorSilent(rec, turns)
        /\ \/ Saved /\ rec' = [rec EXCEPT !.silenceSaid = TRUE]
           \/ NotSaved /\ UNCHANGED rec
  /\ UNCHANGED <<turn, touched, judges, fill, sensors, compactions, skips, ghosts>>

\* The counts of the ghosts stop just past what the properties allow.
Capped(n) == IF n <= MaxNudges + MaxLost THEN n + 1 ELSE n

Decide(failing, broken) ==
  LET d == decide(rec, judges, failing, broken) IN
  /\ agent = "judging" /\ judges' = {}
  /\ \/ /\ ~isDue(rec)
        /\ agent' = "idle"
        /\ UNCHANGED <<rec, lost, refusals, unsaved, released>>
     \/ /\ isDue(rec)
        /\ agent' = IF d.action = "block" THEN "working" ELSE "idle"
        /\ refusals' = IF d.action = "block" THEN Capped(refusals) ELSE refusals
        /\ \/ /\ Saved
              /\ rec' = d.next
              /\ released' = (released \/ d.action = "allow")
              /\ UNCHANGED unsaved
           \/ /\ NotSaved
              /\ unsaved' = IF d.action = "block" THEN Capped(unsaved) ELSE unsaved
              /\ UNCHANGED <<rec, released>>
  /\ UNCHANGED <<turn, touched, fill, sensors, compactions, skips,
                 written, missed, measured, refusedSaid>>

\* No lock, or the deadline of the hook: the turn ends unjudged.
NotJudged ==
  /\ agent \in {"silent", "judging"} /\ agent' = "idle"
  /\ Skip
  /\ judges' = {}
  /\ UNCHANGED <<records, fill, sensors, lost, compactions, ghosts>>

-----------------------------------------------------------------------------
\* A compaction of the session opens a new context, at any time; its purge
\* sweeps the three records, or none when it does not get their lock.
Compact ==
  /\ compactions < MaxCompactions /\ compactions' = compactions + 1
  /\ fill' = "low"
  /\ sensors' = {[m EXCEPT !.late = TRUE] : m \in sensors}
  /\ \/ /\ rec' = NoRecord /\ turn' = NoTurn /\ touched' = NoTouch
        /\ refusals' = 0 /\ unsaved' = 0 /\ released' = FALSE /\ written' = {} /\ missed' = FALSE
        /\ measured' = FALSE /\ refusedSaid' = 0
        /\ UNCHANGED skips
     \/ Skip /\ UNCHANGED <<records, ghosts>>
  /\ UNCHANGED <<agent, judges, lost>>

Next ==
  \/ Prompt \/ PromptRefused \/ Grow \/ Measure \/ Stop \/ SaySilence \/ NotJudged
  \/ Compact
  \/ \E m \in sensors : Observe(m)
  \/ \E f \in File : WriteFile(f)
  \/ \E failing \in SUBSET judges : \E broken \in SUBSET (judges \ failing) : Decide(failing, broken)

Spec == Init /\ [][Next]_vars

\* The agent ends its turns, the hooks end: their deadline and their judges' bound.
HookEnds ==
  SaySilence \/ \E failing \in SUBSET judges : \E broken \in SUBSET (judges \ failing) : Decide(failing, broken)

FairSpec == Spec /\ WF_vars(Stop) /\ WF_vars(HookEnds)

-----------------------------------------------------------------------------
\* Every variable keeps its type.
TypeOK ==
  /\ rec \in [observation : {"none"} \cup Fills, nudges : 0..MaxNudges,
              settled : BOOLEAN, silenceSaid : BOOLEAN]
  /\ turn \in [turns : 0..SILENT_SENSOR_TURNS, refused : BOOLEAN]
  /\ touched \in [files : SUBSET File, complete : BOOLEAN]
  /\ agent \in {"idle", "working", "silent", "judging"}
  /\ judges \in SUBSET Judge
  /\ fill \in Fills
  /\ sensors \in SUBSET [percent : Fills, late : BOOLEAN]
  /\ lost \in Nat /\ compactions \in Nat /\ skips \in Nat
  /\ refusals \in Nat /\ unsaved \in Nat /\ refusedSaid \in Nat
  /\ released \in BOOLEAN /\ missed \in BOOLEAN /\ measured \in BOOLEAN
  /\ written \in SUBSET File

\* A context is refused at most MaxNudges ends of turn, plus those refusals
\* whose save failed: neither an observation that lands between the two reads
\* of the hook, nor a skipped one, nor a compaction gives a refusal back.
RefusalsBounded == refusals <= MaxNudges + unsaved

\* Once a release is saved the context is not judged again, whatever the
\* sensors record after it.
ReleasedStaysReleased == released => rec.settled

\* A list handed to the judges as complete holds every file written since the
\* purge whose recorder got its lock and its write.
CompleteListIsComplete == touched.complete /\ ~missed => written \subseteq touched.files

\* An agent that keeps ending its turns is let go, whatever its judges say.
EveryTurnEnds == agent # "idle" ~> agent = "idle"

\* wrap-up-stop.js:152: a new context starts fresh and owes nothing yet; it is
\* refused an end of turn only if it was itself measured above the threshold.
FreshContextOwesNothing == refusals > 0 => measured

\* turn-count.js:96: the refused connection is announced once per context.
RefusalSaidOnce == refusedSaid <= 1
=============================================================================
