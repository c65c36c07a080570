---------------------------- MODULE WrapUpProofs ----------------------------
(***************************************************************************)
(* Theorems about WrapUp.tla, for every set of files and judges and every  *)
(* bound.                                                                  *)
(*                                                                         *)
(* The bound of the refusals is not inductive: what makes it true is that  *)
(* each of them is counted by the record, or by a save that failed, and    *)
(* that the count of the record itself stops at MaxNudges.                 *)
(***************************************************************************)
EXTENDS WrapUp, TLAPS

\* Every refusal is counted by the record or by a failed save.
RefusalsCounted ==
  /\ refusals <= rec.nudges + unsaved
  /\ refusals <= MaxNudges + MaxLost + 1

WrapUpInv == TypeOK /\ RefusalsCounted /\ ReleasedStaysReleased /\ CompleteListIsComplete

---------------------------------------------------------------------------
(* Lemmas: the decisions of wrap-up-pure.js.                               *)

Record == [observation : {"none"} \cup Fills, nudges : 0..MaxNudges,
           settled : BOOLEAN, silenceSaid : BOOLEAN]

LEMMA BoundsAreNat == MaxNudges \in Nat \ {0} /\ MaxLost \in Nat /\ MAX_TOUCHED \in Nat
                      /\ SILENT_SENSOR_TURNS \in Nat
  BY WrapUpAssumption DEF WrapUpAssumption

LEMMA NoRecordIsRecord == NoRecord \in Record
  BY BoundsAreNat DEF NoRecord, Record

\* An observation touches neither the count nor the release (wrap-up-pure.js withObservation).
LEMMA ObservationKeepsCounts ==
  ASSUME NEW r \in Record, NEW p \in Fills
  PROVE  /\ withObservation(r, p) \in Record
         /\ withObservation(r, p).nudges = r.nudges
         /\ withObservation(r, p).settled = r.settled
  BY DEF withObservation, Record

\* A decision on a record that is due counts a refusal by one, and never past MaxNudges;
\* a release keeps the count (wrap-up-pure.js decide).
LEMMA DecideCounts ==
  ASSUME NEW r \in Record, isDue(r), NEW ran, NEW failing, NEW broken
  PROVE  LET d == decide(r, ran, failing, broken) IN
         /\ d.action \in {"allow", "block"}
         /\ d.next \in Record
         /\ d.action = "block" => d.next.nudges = r.nudges + 1 /\ ~d.next.settled
         /\ d.action = "allow" => d.next.nudges = r.nudges /\ d.next.settled
<1> DEFINE d == decide(r, ran, failing, broken)
<1>1. ~r.settled /\ r.nudges \in Nat
  BY BoundsAreNat DEF isDue, Record
<1>2. /\ Settle(r).action = "allow" /\ Settle(r).next \in Record
      /\ Settle(r).next.nudges = r.nudges /\ Settle(r).next.settled
  BY DEF Settle, Record
<1>3. ASSUME NEW n \in 0..MaxNudges
      PROVE  /\ Block(r, n).action = "block" /\ Block(r, n).next \in Record
             /\ Block(r, n).next.nudges = n /\ ~Block(r, n).next.settled
  BY <1>1, <1>3 DEF Block, Record
<1>4. CASE r.nudges < MaxNudges /\ holds(r, ran, failing)
  <2>1. r.nudges + 1 \in 0..MaxNudges
    BY <1>1, <1>4, BoundsAreNat
  <2>2. d = Block(r, r.nudges + 1)
    BY <1>4 DEF decide
  <2> QED BY <2>1, <2>2, <1>3
<1>5. CASE ~(r.nudges < MaxNudges /\ holds(r, ran, failing))
  <2>1. d = Settle(r)
    BY <1>5 DEF decide
  <2> QED BY <2>1, <1>2
<1> QED BY <1>4, <1>5

\* A list that still calls itself complete after a touch held the rest and holds the file.
LEMMA TouchKeepsComplete ==
  ASSUME NEW t \in [files : SUBSET File, complete : BOOLEAN], NEW f \in File
  PROVE  /\ withTouched(t, f) \in [files : SUBSET File, complete : BOOLEAN]
         /\ withTouched(t, f).complete =>
              /\ t.complete
              /\ t.files \cup {f} \subseteq withTouched(t, f).files
<1>1. CASE f \in t.files
  <2>1. withTouched(t, f) = t
    BY <1>1 DEF withTouched
  <2> QED BY <2>1, <1>1
<1>2. CASE f \notin t.files /\ Cardinality(t.files) >= MAX_TOUCHED
  <2>1. withTouched(t, f) = [t EXCEPT !.complete = FALSE]
    BY <1>2 DEF withTouched
  <2> QED BY <2>1
<1>3. CASE f \notin t.files /\ ~(Cardinality(t.files) >= MAX_TOUCHED)
  <2>1. withTouched(t, f) = [t EXCEPT !.files = @ \cup {f}]
    BY <1>3 DEF withTouched
  <2> QED BY <2>1
<1> QED BY <1>1, <1>2, <1>3

LEMMA CappedIsNat ==
  ASSUME NEW n \in Nat
  PROVE  /\ Capped(n) \in Nat
         /\ Capped(n) <= n + 1
         /\ n <= MaxNudges + MaxLost + 1 => Capped(n) <= MaxNudges + MaxLost + 1
         /\ n < Capped(n) \/ n > MaxNudges + MaxLost
  BY BoundsAreNat DEF Capped

---------------------------------------------------------------------------
(* The invariant.                                                          *)

LEMMA InitWrapUpInv == Init => WrapUpInv
<1> SUFFICES ASSUME Init PROVE WrapUpInv
  OBVIOUS
<1>1. rec \in Record
  BY NoRecordIsRecord DEF Init
<1>2. turn \in [turns : 0..SILENT_SENSOR_TURNS, refused : BOOLEAN]
  BY BoundsAreNat DEF Init, NoTurn
<1>3. touched \in [files : SUBSET File, complete : BOOLEAN]
  BY DEF Init, NoTouch
<1>4. TypeOK
  BY <1>1, <1>2, <1>3 DEF Init, TypeOK, Record, Fills
<1>5. RefusalsCounted
  BY <1>4, BoundsAreNat DEF Init, RefusalsCounted, NoRecord
<1>6. ReleasedStaysReleased /\ CompleteListIsComplete
  BY DEF Init, ReleasedStaysReleased, CompleteListIsComplete
<1> QED BY <1>4, <1>5, <1>6 DEF WrapUpInv

LEMMA TypeStep == TypeOK /\ [Next]_vars => TypeOK'
<1> SUFFICES ASSUME TypeOK, [Next]_vars PROVE TypeOK'
  OBVIOUS
<1> USE DEF TypeOK
<1>n. \A n : n \in Nat => Capped(n) \in Nat
  BY CappedIsNat
<1>r. rec \in Record
  BY DEF Record
<1>1. CASE Prompt
  <2>1. bump(turn) \in [turns : 0..SILENT_SENSOR_TURNS, refused : BOOLEAN]
    BY BoundsAreNat DEF bump
  <2> QED BY <1>1, <2>1 DEF Prompt, Saved, NotSaved, Skip, ghosts
<1>2. CASE PromptRefused
  <2>1. turn' \in [turns : 0..SILENT_SENSOR_TURNS, refused : BOOLEAN]
    BY <1>2 DEF PromptRefused
  <2>2. refusedSaid' \in Nat /\ lost' \in Nat /\ agent' = "working"
    BY <1>2 DEF PromptRefused, Saved, NotSaved
  <2> QED BY <1>2, <2>1, <2>2 DEF PromptRefused
<1>3. CASE Grow
  BY <1>3 DEF Grow, Fills, records, ghosts
<1>4. CASE Measure
  <2>1. [percent |-> fill, late |-> FALSE] \in [percent : Fills, late : BOOLEAN]
    OBVIOUS
  <2>2. sensors' \in SUBSET [percent : Fills, late : BOOLEAN]
    BY <1>4, <2>1 DEF Measure
  <2>3. measured' \in BOOLEAN
    BY <1>4 DEF Measure
  <2> QED BY <1>4, <2>2, <2>3 DEF Measure, records
<1>5. ASSUME NEW m \in sensors, Observe(m) PROVE TypeOK'
  <2>1. withObservation(rec, m.percent) \in Record
    BY <1>r, ObservationKeepsCounts
  <2>2. rec' \in Record
    BY <1>5, <2>1, <1>r DEF Observe
  <2> QED BY <1>5, <2>2 DEF Observe, Saved, NotSaved, Skip, ghosts, Record
<1>6. ASSUME NEW f \in File, WriteFile(f) PROVE TypeOK'
  <2>1. withTouched(touched, f) \in [files : SUBSET File, complete : BOOLEAN]
    BY TouchKeepsComplete
  <2>2. touched' \in [files : SUBSET File, complete : BOOLEAN]
    BY <1>6, <2>1 DEF WriteFile
  <2>3. lost' \in Nat /\ skips' \in Nat /\ missed' \in BOOLEAN /\ written' \in SUBSET File
    <3>1. lost' \in Nat
      BY <1>6, BoundsAreNat DEF WriteFile, Saved, NotSaved
    <3>2. skips' \in Nat
      BY <1>6, BoundsAreNat DEF WriteFile, Skip
    <3>3. missed' \in BOOLEAN
      BY <1>6 DEF WriteFile
    <3>4. written' \in SUBSET File
      BY <1>6 DEF WriteFile
    <3> QED BY <3>1, <3>2, <3>3, <3>4
  <2> QED BY <1>6, <2>2, <2>3 DEF WriteFile
<1>7. CASE Stop
  <2>1. judgesFor(touched) \subseteq Judge
    BY WrapUpAssumption DEF WrapUpAssumption, judgesFor
  <2> QED BY <1>7, <2>1 DEF Stop, records, ghosts
<1>8. CASE SaySilence
  <2>1. rec' \in Record
    BY <1>8, <1>r DEF SaySilence, Record
  <2> QED BY <1>8, <2>1 DEF SaySilence, Saved, NotSaved, ghosts, Record
<1>9. ASSUME NEW failing, NEW broken, Decide(failing, broken) PROVE TypeOK'
  <2>1. rec' \in Record
    BY <1>9, <1>r, DecideCounts DEF Decide
  <2>2. lost' \in Nat /\ refusals' \in Nat /\ unsaved' \in Nat
    BY <1>9, <1>n DEF Decide, Saved, NotSaved
  <2>3. released' \in BOOLEAN /\ agent' \in {"idle", "working", "silent", "judging"}
    BY <1>9 DEF Decide
  <2> QED BY <1>9, <2>1, <2>2, <2>3 DEF Decide, Record
<1>10. CASE NotJudged
  BY <1>10 DEF NotJudged, Skip, records, ghosts
<1>11. CASE Compact
  <2>1. rec' \in Record
    BY <1>11, <1>r, NoRecordIsRecord DEF Compact, records
  <2>2. turn' \in [turns : 0..SILENT_SENSOR_TURNS, refused : BOOLEAN]
    <3>1. NoTurn \in [turns : 0..SILENT_SENSOR_TURNS, refused : BOOLEAN]
      BY BoundsAreNat DEF NoTurn
    <3> QED BY <1>11, <3>1 DEF Compact, records
  <2>3. touched' \in [files : SUBSET File, complete : BOOLEAN]
    <3>1. NoTouch \in [files : SUBSET File, complete : BOOLEAN]
      BY DEF NoTouch
    <3> QED BY <1>11, <3>1 DEF Compact, records
  <2>4. sensors' \in SUBSET [percent : Fills, late : BOOLEAN]
    <3>1. \A m \in sensors : [m EXCEPT !.late = TRUE] \in [percent : Fills, late : BOOLEAN]
      OBVIOUS
    <3> QED BY <1>11, <3>1 DEF Compact
  <2>5. skips' \in Nat /\ compactions' \in Nat /\ fill' \in Fills
    BY <1>11 DEF Compact, Skip, Fills
  <2>6. /\ refusals' \in Nat /\ unsaved' \in Nat /\ refusedSaid' \in Nat
        /\ released' \in BOOLEAN /\ missed' \in BOOLEAN /\ measured' \in BOOLEAN
        /\ written' \in SUBSET File
    <3>1. CASE UNCHANGED ghosts
      BY <3>1 DEF ghosts
    <3>2. CASE /\ refusals' = 0 /\ unsaved' = 0 /\ released' = FALSE /\ written' = {}
               /\ missed' = FALSE /\ measured' = FALSE /\ refusedSaid' = 0
      BY <3>2
    <3> QED BY <1>11, <3>1, <3>2 DEF Compact
  <2> QED BY <1>11, <2>1, <2>2, <2>3, <2>4, <2>5, <2>6 DEF Compact, Record
<1>13. CASE UNCHANGED vars
  BY <1>13 DEF vars, records, ghosts
<1> QED BY <1>1, <1>2, <1>3, <1>4, <1>5, <1>6, <1>7, <1>8, <1>9, <1>10, <1>11, <1>13 DEF Next

\* A refusal is counted by the record when it is saved, by `unsaved` when it is not.
LEMMA RefusalsStep == TypeOK /\ RefusalsCounted /\ [Next]_vars => RefusalsCounted'
<1> SUFFICES ASSUME TypeOK, RefusalsCounted, [Next]_vars PROVE RefusalsCounted'
  OBVIOUS
<1> USE BoundsAreNat DEF RefusalsCounted
<1>r. /\ rec \in Record /\ rec.nudges \in Nat
      /\ refusals \in Nat /\ unsaved \in Nat
  BY DEF TypeOK, Record
<1>1. CASE rec'.nudges = rec.nudges /\ UNCHANGED <<refusals, unsaved>>
  BY <1>1
<1>2. CASE Prompt \/ PromptRefused \/ Grow \/ Measure \/ Stop \/ NotJudged \/ UNCHANGED vars
  BY <1>1, <1>2 DEF Prompt, PromptRefused, Grow, Measure, Stop, NotJudged, vars, records, ghosts
<1>3. ASSUME NEW m \in sensors, Observe(m) PROVE RefusalsCounted'
  <2>1. m.percent \in Fills
    BY DEF TypeOK
  <2>2. rec'.nudges = rec.nudges
    BY <1>3, <1>r, <2>1, ObservationKeepsCounts DEF Observe
  <2> QED BY <1>1, <1>3, <2>2 DEF Observe, ghosts
<1>4. ASSUME NEW f \in File, WriteFile(f) PROVE RefusalsCounted'
  BY <1>1, <1>4 DEF WriteFile
<1>5. CASE SaySilence
  <2>1. rec'.nudges = rec.nudges
    BY <1>5, <1>r DEF SaySilence, Record
  <2> QED BY <1>1, <1>5, <2>1 DEF SaySilence, ghosts
<1>6. ASSUME NEW failing, NEW broken, Decide(failing, broken) PROVE RefusalsCounted'
  <2> DEFINE d == decide(rec, judges, failing, broken)
  <2>1. CASE ~isDue(rec)
    BY <1>1, <1>6, <2>1 DEF Decide
  <2>2. CASE isDue(rec)
    <3>1. /\ d.action \in {"allow", "block"}
          /\ d.next \in Record
          /\ d.action = "block" => d.next.nudges = rec.nudges + 1
          /\ d.action = "allow" => d.next.nudges = rec.nudges
      BY <1>r, <2>2, DecideCounts
    <3>2. refusals' = IF d.action = "block" THEN Capped(refusals) ELSE refusals
      BY <1>6, <2>2 DEF Decide
    <3>3. CASE rec' = d.next /\ UNCHANGED unsaved
      <4>1. CASE d.action = "allow"
        BY <1>r, <3>1, <3>2, <3>3, <4>1
      <4>2. CASE d.action = "block"
        BY <1>r, <3>1, <3>2, <3>3, <4>2, CappedIsNat
      <4> QED BY <3>1, <4>1, <4>2
    <3>4. CASE rec' = rec /\ unsaved' = IF d.action = "block" THEN Capped(unsaved) ELSE unsaved
      <4>1. CASE d.action = "allow"
        BY <1>r, <3>2, <3>4, <4>1
      <4>2. CASE d.action = "block"
        <5>1. refusals' = Capped(refusals) /\ unsaved' = Capped(unsaved) /\ rec' = rec
          BY <3>2, <3>4, <4>2
        <5>2. /\ Capped(refusals) <= refusals + 1
              /\ Capped(refusals) <= MaxNudges + MaxLost + 1
              /\ Capped(refusals) \in Nat
          BY <1>r, CappedIsNat
        <5>3. /\ Capped(unsaved) \in Nat
              /\ unsaved < Capped(unsaved) \/ unsaved > MaxNudges + MaxLost
              /\ unsaved <= Capped(unsaved)
          BY <1>r DEF Capped
        <5> QED BY <1>r, <5>1, <5>2, <5>3
      <4> QED BY <3>1, <4>1, <4>2
    <3> QED BY <1>6, <2>2, <3>3, <3>4 DEF Decide
  <2> QED BY <2>1, <2>2
<1>7. CASE Compact
  <2>1. CASE UNCHANGED <<records, ghosts>>
    BY <1>1, <2>1 DEF records, ghosts
  <2>2. CASE rec' = NoRecord /\ refusals' = 0 /\ unsaved' = 0
    BY <2>2 DEF NoRecord
  <2> QED BY <1>7, <2>1, <2>2 DEF Compact
<1> QED BY <1>2, <1>3, <1>4, <1>5, <1>6, <1>7 DEF Next

\* Only a record that is due is decided, and a settled one is not due.
LEMMA ReleaseStep == TypeOK /\ ReleasedStaysReleased /\ [Next]_vars => ReleasedStaysReleased'
<1> SUFFICES ASSUME TypeOK, ReleasedStaysReleased, [Next]_vars PROVE ReleasedStaysReleased'
  OBVIOUS
<1> USE DEF ReleasedStaysReleased
<1>r. rec \in Record /\ released \in BOOLEAN
  BY DEF TypeOK, Record
<1>1. CASE rec'.settled = rec.settled /\ UNCHANGED released
  BY <1>1
<1>2. CASE Prompt \/ PromptRefused \/ Grow \/ Measure \/ Stop \/ NotJudged \/ UNCHANGED vars
  BY <1>1, <1>2 DEF Prompt, PromptRefused, Grow, Measure, Stop, NotJudged, vars, records, ghosts
<1>3. ASSUME NEW m \in sensors, Observe(m) PROVE ReleasedStaysReleased'
  <2>1. m.percent \in Fills
    BY DEF TypeOK
  <2>2. rec'.settled = rec.settled
    BY <1>3, <1>r, <2>1, ObservationKeepsCounts DEF Observe
  <2> QED BY <1>1, <1>3, <2>2 DEF Observe, ghosts
<1>4. ASSUME NEW f \in File, WriteFile(f) PROVE ReleasedStaysReleased'
  BY <1>1, <1>4 DEF WriteFile
<1>5. CASE SaySilence
  <2>1. rec'.settled = rec.settled
    BY <1>5, <1>r DEF SaySilence, Record
  <2> QED BY <1>1, <1>5, <2>1 DEF SaySilence, ghosts
<1>6. ASSUME NEW failing, NEW broken, Decide(failing, broken) PROVE ReleasedStaysReleased'
  <2>1. CASE ~isDue(rec)
    BY <1>1, <1>6, <2>1 DEF Decide
  <2>2. CASE isDue(rec)
    <3> DEFINE d == decide(rec, judges, failing, broken)
    <3>1. ~released
      BY <2>2 DEF isDue
    <3>2. d.action = "allow" => d.next.settled
      BY <1>r, <2>2, DecideCounts
    <3>3. \/ rec' = d.next /\ released' = (released \/ d.action = "allow")
          \/ released' = released
      BY <1>6, <2>2 DEF Decide
    <3> QED BY <3>1, <3>2, <3>3
  <2> QED BY <2>1, <2>2
<1>7. CASE Compact
  BY <1>1, <1>7 DEF Compact, records, ghosts
<1> QED BY <1>2, <1>3, <1>4, <1>5, <1>6, <1>7 DEF Next

LEMMA CompleteStep == TypeOK /\ CompleteListIsComplete /\ [Next]_vars => CompleteListIsComplete'
<1> SUFFICES ASSUME TypeOK, CompleteListIsComplete, [Next]_vars PROVE CompleteListIsComplete'
  OBVIOUS
<1> USE DEF CompleteListIsComplete
<1>t. touched \in [files : SUBSET File, complete : BOOLEAN]
  BY DEF TypeOK
<1>1. CASE UNCHANGED <<touched, written, missed>>
  BY <1>1
<1>2. CASE Prompt \/ PromptRefused \/ Grow \/ Measure \/ Stop \/ SaySilence \/ NotJudged \/ UNCHANGED vars
  BY <1>1, <1>2 DEF Prompt, PromptRefused, Grow, Measure, Stop, SaySilence, NotJudged,
                    vars, records, ghosts
<1>3. ASSUME NEW m \in sensors, Observe(m) PROVE CompleteListIsComplete'
  BY <1>1, <1>3 DEF Observe, ghosts
<1>4. ASSUME NEW f \in File, WriteFile(f) PROVE CompleteListIsComplete'
  <2>1. written' = written \cup {f}
    BY <1>4 DEF WriteFile
  <2>2. CASE missed'
    BY <2>2
  <2>3. CASE ~missed' /\ touched' = withTouched(touched, f) /\ UNCHANGED missed
    BY <1>t, <2>1, <2>3, TouchKeepsComplete
  <2> QED BY <1>4, <2>2, <2>3 DEF WriteFile
<1>5. ASSUME NEW failing, NEW broken, Decide(failing, broken) PROVE CompleteListIsComplete'
  BY <1>1, <1>5 DEF Decide
<1>6. CASE Compact
  BY <1>1, <1>6 DEF Compact, records, ghosts
<1> QED BY <1>2, <1>3, <1>4, <1>5, <1>6 DEF Next

LEMMA WrapUpInvStep == WrapUpInv /\ [Next]_vars => WrapUpInv'
  BY TypeStep, RefusalsStep, ReleaseStep, CompleteStep DEF WrapUpInv

\* The inductive invariant holds in every reachable state.
THEOREM WrapUpInvariant == Spec => []WrapUpInv
  BY InitWrapUpInv, WrapUpInvStep, PTL DEF Spec

---------------------------------------------------------------------------

\* Whatever the judges, the sensors and the compactions do, a context is refused at most
\* MaxNudges ends of turn, plus those whose save failed (wrap-up-pure.js decide,
\* hooks/wrap-up-stop.js).
THEOREM BoundedRefusals == Spec => []RefusalsBounded
<1>1. WrapUpInv => RefusalsBounded
  <2> SUFFICES ASSUME WrapUpInv PROVE RefusalsBounded
    OBVIOUS
  <2>1. rec.nudges \in 0..MaxNudges /\ unsaved \in Nat /\ refusals \in Nat
    BY DEF WrapUpInv, TypeOK
  <2>2. refusals <= rec.nudges + unsaved
    BY DEF WrapUpInv, RefusalsCounted
  <2> QED BY <2>1, <2>2, BoundsAreNat DEF RefusalsBounded
<1> QED BY <1>1, WrapUpInvariant, PTL

\* A saved release is never taken back by an observation that lands after it
\* (wrap-up-pure.js withObservation).
THEOREM ReleaseIsFinal == Spec => []ReleasedStaysReleased
<1>1. WrapUpInv => ReleasedStaysReleased
  BY DEF WrapUpInv
<1> QED BY <1>1, WrapUpInvariant, PTL

\* A list of touched files that calls itself complete is (wrap-up-pure.js withTouched).
THEOREM CompleteLists == Spec => []CompleteListIsComplete
<1>1. WrapUpInv => CompleteListIsComplete
  BY DEF WrapUpInv
<1> QED BY <1>1, WrapUpInvariant, PTL
=============================================================================
