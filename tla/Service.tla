------------------------------ MODULE Service ------------------------------
(***************************************************************************)
(* What the owner of the state promises to the threads of the daemon: a    *)
(* question takes effect on the store at one moment between its asking and *)
(* the taking of its answer, once, and is answered with what the store     *)
(* held at that moment.  Of a thread that gave a question up it promises   *)
(* only that no question takes effect twice.  OwnerChannel.tla is shown to *)
(* implement this module.                                                  *)
(***************************************************************************)
EXTENDS Naturals

CONSTANTS
  Client, Key, Op,
  Found(_),     \* the values the store starts with
  Absent,       \* the value of a key that was purged
  Undefined,    \* the answer that says nothing
  Oversized,    \* the values that fit no answer
  NoKey

VARIABLES
  value, stamps, tick,  \* the store
  trip,        \* the round trip each thread has under way
  late,        \* the threads that gave one up
  questions,   \* how many were asked
  done         \* those that took effect

content == <<value, stamps, tick>>
svars == <<content, trip, late, questions, done>>

NoTrip == [state |-> "none", id |-> 0, op |-> "none", key |-> NoKey, answer |-> <<>>]
Asked(n, op, k) == [state |-> "asked", id |-> n, op |-> op, key |-> k, answer |-> <<>>]
Answered(verdict, v) ==
  [state |-> "answered", id |-> 0, op |-> "none", key |-> NoKey,
   answer |-> IF verdict = "failure" THEN <<verdict, Undefined>> ELSE <<verdict, v>>]

Init ==
  /\ value = [k \in Key |-> Found(k)] /\ stamps = [k \in Key |-> 0] /\ tick = 0
  /\ trip = [c \in Client |-> NoTrip]
  /\ late = {} /\ questions = 0 /\ done = {}

Ask(c, op, k) ==
  /\ c \notin late /\ trip[c].state # "asked"
  /\ questions' = questions + 1
  /\ trip' = [trip EXCEPT ![c] = Asked(questions + 1, op, k)]
  /\ UNCHANGED <<content, late, done>>

AskLate ==
  /\ late # {} /\ questions' = questions + 1
  /\ UNCHANGED <<content, trip, late, done>>

\* A write moves the stamp of its key.
Write(n, op, k) ==
  /\ tick' = tick + 1
  /\ \/ op = "saveState" /\ value' = [value EXCEPT ![k] = n] /\ stamps' = [stamps EXCEPT ![k] = tick + 1]
     \/ op = "purge" /\ value' = [value EXCEPT ![k] = Absent] /\ stamps' = [stamps EXCEPT ![k] = 0]

TakesEffect(n) ==
  /\ n \notin done /\ done' = done \cup {n}
  /\ UNCHANGED <<late, questions>>

Serve(c) ==
  LET t == trip[c]
      Tell(verdict, v) == trip' = [trip EXCEPT ![c] = Answered(verdict, v)]
  IN
  /\ t.state = "asked" /\ TakesEffect(t.id)
  /\ \/ Write(t.id, t.op, t.key) /\ Tell("response", Undefined)
     \/ t.op = "loadState" /\ UNCHANGED content
        /\ Tell(IF value[t.key] \in Oversized THEN "failure" ELSE "response", value[t.key])
     \/ t.op = "stampOf" /\ UNCHANGED content /\ Tell("response", stamps[t.key])

\* A question of a thread that gave one up, whether it still waits or not.
ServeLate(n) ==
  /\ late # {} /\ TakesEffect(n)
  /\ \A c \in Client : trip[c].state = "asked" => trip[c].id # n
  /\ UNCHANGED content \/ \E op \in Op, k \in Key : Write(n, op, k)
  /\ UNCHANGED trip

Take(c) ==
  /\ trip[c].state = "answered"
  /\ trip' = [trip EXCEPT ![c] = NoTrip]
  /\ UNCHANGED <<content, late, questions, done>>

GiveUp(c) ==
  /\ trip[c].state # "none"
  /\ trip' = [trip EXCEPT ![c] = NoTrip] /\ late' = late \cup {c}
  /\ UNCHANGED <<content, questions, done>>

Next ==
  \/ \E c \in Client : Serve(c) \/ Take(c) \/ GiveUp(c) \/ \E op \in Op, k \in Key : Ask(c, op, k)
  \/ AskLate
  \/ \E n \in 1..questions : ServeLate(n)

Spec == Init /\ [][Next]_svars

=============================================================================
