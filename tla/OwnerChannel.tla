---------------------------- MODULE OwnerChannel ----------------------------
(***************************************************************************)
(* The channel between the threads of a pooled daemon and the one thread   *)
(* that owns its state: src/src/hooks/owner-client.js (createClient),      *)
(* src/src/hooks/state-owner-thread.js (createOwner), src/src/owner-ops.js *)
(* and the words of src/src/thread-channel-pure.js.                        *)
(*                                                                         *)
(* One step per access of the shared memory that another thread can see.   *)
(* A client sleeps in slices of 50 ms and looks again, so it is modelled   *)
(* as looking whenever it likes; the owner's sleep on the doorbell is      *)
(* modelled with its wake-ups.  The calls are a memoised loadState and two *)
(* that are never memoised, saveState and purge.  The bytes of a message   *)
(* are one unit, and the memo's ceiling of 32 keys is out of reach.        *)
(***************************************************************************)
EXTENDS Integers, Sequences, FiniteSets

CONSTANTS
  Clients,     \* the slots are 1..Clients
  Key,         \* the keys of the store
  Restored,    \* the keys found on disk when the owner starts
  Warm,        \* the threads that have read every key they could before the behaviour starts
  Oversized,   \* the values whose encoding does not fit a slot
  MaxCalls,    \* bound: calls in a behaviour
  MaxGiveUps   \* bound: how many clients may, once, wait past the ceiling

ASSUME ChannelAssumption ==
  /\ Clients \in Nat \ {0}
  /\ Key # {} /\ Restored \subseteq Key
  /\ Warm \subseteq 1..Clients
  /\ MaxCalls \in Nat /\ MaxGiveUps \in Nat

Client == 1..Clients

VARIABLES
  slot,        \* the state word of each client
  payload,     \* the payload region of each client
  doorbell,    \* DOORBELL
  generation,  \* GENERATION
  shutdown,    \* SHUTDOWN
  drained,     \* DRAINED
  pc,          \* where each client stands
  purpose,     \* what its current request is for
  key,         \* the key of its current call
  asked,       \* its current request
  fetched,     \* the value it fetched, while it asks for the stamp
  memo,        \* its memoised reads
  memoGeneration,
  opc,         \* where the owner stands
  seen,        \* the doorbell it read before its scan
  at,          \* the slot it looks at
  served,      \* has it served a request in this scan?
  answer,      \* the answer it is about to write
  value,       \* the store
  stamps,      \* the stamp of each key, 0 when it has none
  tick,
  calls,       \* calls so far
  gaveUp,      \* ghost: the clients that have given up
  applied      \* ghost: for each request so far, how many times it was executed

control == <<slot, payload, doorbell, generation, shutdown, drained>>
clients == <<pc, purpose, key, asked, fetched, memo, memoGeneration>>
owner == <<opc, seen, at, served, answer>>
store == <<value, stamps, tick>>
ghosts == <<calls, gaveUp, applied>>
vars == <<control, clients, owner, store, ghosts>>

---------------------------------------------------------------------------
(* Values and messages.                                                    *)

Absent == 0        \* the empty state {} of a key that was never written
OnDisk == -1       \* what the owner found on disk
Undefined == -2    \* the `value` of a message that has none
Value == {Absent, OnDisk, Undefined} \cup Nat    \* a save writes its request's number

Op == {"loadState", "stampOf", "saveState", "purge"}
INVALIDATES == {"saveState", "purge"}

Asking(n, op, k) == [kind |-> "request", id |-> n, op |-> op, key |-> k, value |-> Undefined]
Saying(n, v) == [kind |-> "answer", id |-> n, op |-> "loadState", key |-> 0, value |-> v]
Silence == Saying(0, Undefined)
Message ==
  [kind: {"request"}, id: Nat, op: Op, key: Key, value: {Undefined}]
    \cup [kind: {"answer"}, id: Nat, op: {"loadState"}, key: {0}, value: Value]

NoAnswer == [verdict |-> "response", invalidates |-> FALSE, message |-> Silence]

NoMemo == [stamp |-> -1, value |-> Absent]

AnyKey == CHOOSE k \in Key : TRUE    \* the key of no call

Found(k) == IF k \in Restored THEN OnDisk ELSE Absent

stampOf(k) == stamps[k]

Init ==
  /\ slot = [c \in Client |-> "idle"]
  /\ payload = [c \in Client |-> Silence]
  /\ doorbell = 0 /\ generation = 0 /\ shutdown = FALSE /\ drained = FALSE
  /\ pc = [c \in Client |-> "free"]
  /\ purpose = [c \in Client |-> "plain"]
  /\ key = [c \in Client |-> AnyKey]
  /\ asked = [c \in Client |-> 0]
  /\ fetched = [c \in Client |-> Undefined]
  /\ memo = [c \in Client |->
       [k \in Key |-> IF c \in Warm /\ Found(k) \notin Oversized
                     THEN [stamp |-> 0, value |-> Found(k)] ELSE NoMemo]]
  /\ memoGeneration = [c \in Client |-> IF c \in Warm THEN 0 ELSE -1]
  /\ opc = "top" /\ seen = 0 /\ at = 1 /\ served = FALSE
  /\ answer = NoAnswer
  /\ value = [k \in Key |-> Found(k)]
  /\ stamps = [k \in Key |-> 0]
  /\ tick = 0
  /\ calls = 0
  /\ gaveUp = {}
  /\ applied = <<>>

---------------------------------------------------------------------------
(* A client.                                                               *)

Goto(c, l) == pc' = [pc EXCEPT ![c] = l]

\* The call ends, by a return or by a throw: its locals are gone.
Returns(c) ==
  /\ Goto(c, "free")
  /\ purpose' = [purpose EXCEPT ![c] = "plain"]
  /\ key' = [key EXCEPT ![c] = AnyKey]
  /\ asked' = [asked EXCEPT ![c] = 0]
  /\ fetched' = [fetched EXCEPT ![c] = Undefined]

\* The payload is written first; nobody is told yet.
Ask(c, op, k, why) ==
  /\ payload' = [payload EXCEPT ![c] = Asking(Len(applied) + 1, op, k)]
  /\ asked' = [asked EXCEPT ![c] = Len(applied) + 1]
  /\ applied' = Append(applied, 0)
  /\ purpose' = [purpose EXCEPT ![c] = why]
  /\ Goto(c, "post")

NewCall(c, k) ==
  /\ pc[c] = "free" /\ calls < MaxCalls
  /\ calls' = calls + 1
  /\ key' = [key EXCEPT ![c] = k]
  /\ UNCHANGED <<slot, doorbell, generation, shutdown, drained, fetched, owner, store, gaveUp>>

\* The memo a client is left with when it compares generations.
Synced(c) == IF generation = memoGeneration[c] THEN memo[c] ELSE [k \in Key |-> NoMemo]

syncMemo(c) ==
  /\ memo' = [memo EXCEPT ![c] = Synced(c)]
  /\ memoGeneration' = [memoGeneration EXCEPT ![c] = generation]

CallUncached(c, op, k) ==
  /\ op \in INVALIDATES
  /\ NewCall(c, k)
  /\ Ask(c, op, k, "plain")
  /\ UNCHANGED <<memo, memoGeneration>>

\* A save whose bytes do not fit the slot: the call throws, and nothing of it is posted.
SaveRefused(c, k) ==
  /\ NewCall(c, k)
  /\ UNCHANGED <<payload, pc, purpose, asked, memo, memoGeneration, applied>>

\* loadState of a key that is held: at once when nothing was written since the memo
\* was filled.  (Nothing changes but the count of calls.)
LoadHeld(c, k) ==
  /\ memo[c][k] # NoMemo /\ generation = memoGeneration[c]
  /\ NewCall(c, k)
  /\ UNCHANGED <<payload, pc, purpose, asked, memo, memoGeneration, applied>>

LoadMoved(c, k) ==
  /\ memo[c][k] # NoMemo /\ generation # memoGeneration[c]
  /\ NewCall(c, k)
  /\ Ask(c, "stampOf", k, "revalidate")
  /\ UNCHANGED <<memo, memoGeneration>>

LoadMissing(c, k) ==
  /\ memo[c][k] = NoMemo
  /\ NewCall(c, k)
  /\ syncMemo(c)
  /\ Ask(c, "loadState", k, "value")

Post(c) ==
  /\ pc[c] = "post"
  /\ slot' = [slot EXCEPT ![c] = "request"]
  /\ Goto(c, "ring")
  /\ UNCHANGED <<payload, doorbell, generation, shutdown, drained,
                 purpose, key, asked, fetched, memo, memoGeneration, owner, store, ghosts>>

\* The owner wakes when it sleeps; a notify nobody waits for is lost.
Woken == opc' = IF opc = "asleep" THEN "top" ELSE opc

Ring(c) ==
  /\ pc[c] = "ring"
  /\ doorbell' = doorbell + 1
  /\ Woken
  /\ Goto(c, "wait")
  /\ UNCHANGED <<slot, payload, generation, shutdown, drained,
                 purpose, key, asked, fetched, memo, memoGeneration,
                 seen, at, served, answer, store, ghosts>>

\* The verdict is read and the slot becomes free.
Taken(c) ==
  /\ pc[c] = "wait" /\ slot[c] # "request"
  /\ slot' = [slot EXCEPT ![c] = "idle"]
  /\ UNCHANGED <<doorbell, generation, shutdown, drained, owner, store, calls, gaveUp>>

\* The call is over: a plain answer, or a refusal thrown to the caller.
TakeLast(c) ==
  /\ slot[c] = "failure" \/ purpose[c] = "plain"
  /\ Taken(c)
  /\ Returns(c)
  /\ UNCHANGED <<payload, memo, memoGeneration, applied>>

TakeValue(c) ==
  /\ slot[c] = "response" /\ purpose[c] = "value"
  /\ Taken(c)
  /\ fetched' = [fetched EXCEPT ![c] = payload[c].value]
  /\ Ask(c, "stampOf", key[c], "stamp")
  /\ UNCHANGED <<key, memo, memoGeneration>>

TakeStamp(c) ==
  /\ slot[c] = "response" /\ purpose[c] = "stamp"
  /\ Taken(c)
  /\ memo' = [memo EXCEPT ![c][key[c]] = [stamp |-> payload[c].value, value |-> fetched[c]]]
  /\ Returns(c)
  /\ UNCHANGED <<payload, memoGeneration, applied>>

\* The stamp has not moved: the held value is returned, and the generation adopted.
TakeSameStamp(c) ==
  /\ slot[c] = "response" /\ purpose[c] = "revalidate"
  /\ payload[c].value = memo[c][key[c]].stamp
  /\ Taken(c)
  /\ memoGeneration' = [memoGeneration EXCEPT ![c] = generation]
  /\ Returns(c)
  /\ UNCHANGED <<payload, memo, applied>>

TakeOtherStamp(c) ==
  /\ slot[c] = "response" /\ purpose[c] = "revalidate"
  /\ payload[c].value # memo[c][key[c]].stamp
  /\ Taken(c)
  /\ syncMemo(c)
  /\ Ask(c, "loadState", key[c], "value")
  /\ UNCHANGED <<key, fetched>>

\* Mutant of GiveUp: posts the same request again.
GiveUpRetries(c) ==
  /\ pc[c] = "wait" /\ slot[c] = "request"
  /\ c \notin gaveUp /\ Cardinality(gaveUp) < MaxGiveUps
  /\ gaveUp' = gaveUp \cup {c}
  /\ payload' = [payload EXCEPT ![c] = Asking(asked[c], "saveState", key[c])]
  /\ Goto(c, "post")
  /\ UNCHANGED <<slot, doorbell, generation, shutdown, drained, purpose, key, asked, fetched,
                 memo, memoGeneration, owner, store, calls, applied>>

\* The ceiling is exceeded (a wedged owner, a wall clock that jumped): the call throws
\* and the request stays posted.
GiveUp(c) ==
  /\ pc[c] = "wait" /\ slot[c] = "request"
  /\ c \notin gaveUp /\ Cardinality(gaveUp) < MaxGiveUps
  /\ gaveUp' = gaveUp \cup {c}
  /\ Returns(c)
  /\ UNCHANGED <<control, memo, memoGeneration, owner, store, calls, applied>>

---------------------------------------------------------------------------
(* The owner.                                                              *)

OwnerTop ==
  /\ opc = "top"
  /\ IF shutdown THEN opc' = "drain" /\ UNCHANGED <<seen, at, served>>
                 ELSE opc' = "scan" /\ seen' = doorbell /\ at' = 1 /\ served' = FALSE
  /\ UNCHANGED <<control, clients, answer, store, ghosts>>

OwnerSkips ==
  /\ opc = "scan" /\ at \in Client /\ slot[at] # "request"
  /\ at' = at + 1
  /\ UNCHANGED <<control, clients, opc, seen, served, answer, store, ghosts>>

Says(n, v, verdict, invalidates) ==
  answer' = [verdict |-> verdict, invalidates |-> invalidates, message |-> Saying(n, v)]

\* The operations of owner-ops.js on the store.  A value that does not fit its slot is refused.
Executes(n, op, k) ==
  \/ /\ op = "loadState"
     /\ Says(n, value[k], IF value[k] \in Oversized THEN "failure" ELSE "response", FALSE)
     /\ UNCHANGED store
  \/ /\ op = "stampOf"
     /\ Says(n, stampOf(k), "response", FALSE)
     /\ UNCHANGED store
  \/ /\ op = "saveState"
     /\ Says(n, Undefined, "response", TRUE)
     /\ value' = [value EXCEPT ![k] = n]
     /\ tick' = tick + 1
     /\ stamps' = [stamps EXCEPT ![k] = tick + 1]
  \/ /\ op = "purge"
     /\ Says(n, Undefined, "response", TRUE)
     /\ value' = [value EXCEPT ![k] = Absent]
     /\ tick' = tick + 1
     /\ stamps' = [stamps EXCEPT ![k] = 0]

\* The request of the slot is decoded and executed; a message that is no request is refused.
OwnerServes ==
  LET m == payload[at] IN
  /\ opc = "scan" /\ at \in Client /\ slot[at] = "request"
  /\ opc' = "answer"
  /\ \/ m.kind = "answer" /\ Says(m.id, Undefined, "failure", FALSE) /\ UNCHANGED <<store, applied>>
     \/ /\ m.kind = "request"
        /\ applied' = [applied EXCEPT ![m.id] = @ + 1]
        /\ Executes(m.id, m.op, m.key)
  /\ UNCHANGED <<control, clients, seen, at, served, calls, gaveUp>>

\* Mutant of OwnerAnswers: the answer is composed but not written.
OwnerAnswersNothing ==
  /\ opc = "answer"
  /\ opc' = "publish"
  /\ generation' = IF answer.invalidates THEN generation + 1 ELSE generation
  /\ UNCHANGED <<slot, payload, doorbell, shutdown, drained, clients, seen, at, served,
                 answer, store, ghosts>>

\* The answer is written and the generation moves before the verdict is visible.
OwnerAnswers ==
  /\ opc = "answer"
  /\ opc' = "publish"
  /\ payload' = [payload EXCEPT ![at] = answer.message]
  /\ generation' = IF answer.invalidates THEN generation + 1 ELSE generation
  /\ UNCHANGED <<slot, doorbell, shutdown, drained, clients, seen, at, served, answer,
                 store, ghosts>>

OwnerPublishes ==
  /\ opc = "publish"
  /\ opc' = "scan"
  /\ slot' = [slot EXCEPT ![at] = answer.verdict]
  /\ at' = at + 1
  /\ served' = TRUE
  /\ answer' = NoAnswer
  /\ UNCHANGED <<payload, doorbell, generation, shutdown, drained, clients, seen, store, ghosts>>

\* Mutant of OwnerScanned: scans again without starting over.
OwnerScannedSpins ==
  /\ opc = "scan" /\ at \notin Client
  /\ opc' = IF served THEN "scan" ELSE IF shutdown THEN "drain" ELSE "wait"
  /\ UNCHANGED <<control, clients, seen, at, served, answer, store, ghosts>>

OwnerScanned ==
  /\ opc = "scan" /\ at \notin Client
  /\ opc' = IF served THEN "top" ELSE IF shutdown THEN "drain" ELSE "wait"
  /\ UNCHANGED <<control, clients, seen, at, served, answer, store, ghosts>>

\* Mutant of OwnerWaits: sleeps on the doorbell as it is now.
OwnerWaitsNow ==
  /\ opc = "wait"
  /\ opc' = "asleep"
  /\ UNCHANGED <<control, clients, seen, at, served, answer, store, ghosts>>

\* Atomics.wait: sleeps only if the doorbell is still the one that was read.
OwnerWaits ==
  /\ opc = "wait"
  /\ opc' = IF doorbell = seen THEN "asleep" ELSE "top"
  /\ UNCHANGED <<control, clients, seen, at, served, answer, store, ghosts>>

\* Mutant of OwnerSlice: a wait without a bound.
OwnerSleepsOn ==
  /\ opc = "asleep" /\ doorbell # seen
  /\ opc' = "top"
  /\ UNCHANGED <<control, clients, seen, at, served, answer, store, ghosts>>

OwnerSlice ==
  /\ opc = "asleep"
  /\ opc' = "top"
  /\ UNCHANGED <<control, clients, seen, at, served, answer, store, ghosts>>

\* The owner saves what must cross the death, and says so.
OwnerDrains ==
  /\ opc = "drain"
  /\ opc' = "gone"
  /\ drained' = TRUE
  /\ UNCHANGED <<slot, payload, doorbell, generation, shutdown, clients, seen, at, served,
                 answer, store, ghosts>>

---------------------------------------------------------------------------

\* drainOwner, from the main thread: the notify does not move the doorbell.
Stop ==
  /\ ~shutdown
  /\ shutdown' = TRUE
  /\ Woken
  /\ UNCHANGED <<slot, payload, doorbell, generation, drained, clients, seen, at, served,
                 answer, store, ghosts>>

ClientStep(c) ==
  \/ Post(c) \/ Ring(c)
  \/ TakeLast(c) \/ TakeValue(c) \/ TakeStamp(c) \/ TakeSameStamp(c) \/ TakeOtherStamp(c)

OwnerStep ==
  \/ OwnerTop \/ OwnerSkips \/ OwnerServes \/ OwnerAnswers \/ OwnerPublishes
  \/ OwnerScanned \/ OwnerWaits \/ OwnerSlice \/ OwnerDrains

Next ==
  \/ \E c \in Client :
       \/ ClientStep(c) \/ GiveUp(c)
       \/ \E k \in Key :
            \/ LoadHeld(c, k) \/ LoadMoved(c, k) \/ LoadMissing(c, k) \/ SaveRefused(c, k)
            \/ \E op \in INVALIDATES : CallUncached(c, op, k)
  \/ OwnerStep
  \/ Stop

Spec == Init /\ [][Next]_vars

\* The threads are scheduled, and a sleep of one slice ends.
FairSpec == Spec /\ WF_vars(OwnerStep) /\ \A c \in Client : WF_vars(ClientStep(c))

---------------------------------------------------------------------------
(* Properties.                                                             *)

TypeOK ==
  /\ slot \in [Client -> {"idle", "request", "response", "failure"}]
  /\ payload \in [Client -> Message]
  /\ doorbell \in Nat /\ generation \in Nat
  /\ shutdown \in BOOLEAN /\ drained \in BOOLEAN
  /\ pc \in [Client -> {"free", "post", "ring", "wait"}]
  /\ purpose \in [Client -> {"plain", "value", "stamp", "revalidate"}]
  /\ key \in [Client -> Key]
  /\ asked \in [Client -> Nat]
  /\ fetched \in [Client -> Value]
  /\ memo \in [Client -> [Key -> [stamp: Value, value: Value]]]
  /\ memoGeneration \in [Client -> Nat \cup {-1}]
  /\ opc \in {"top", "scan", "answer", "publish", "wait", "asleep", "drain", "gone"}
  /\ seen \in Nat /\ at \in 1..(Clients + 1) /\ served \in BOOLEAN
  /\ answer \in [verdict: {"response", "failure"}, invalidates: BOOLEAN, message: Message]
  /\ value \in [Key -> Value] /\ stamps \in [Key -> Nat] /\ tick \in Nat
  /\ calls \in 0..MaxCalls
  /\ gaveUp \subseteq Client
  /\ applied \in Seq(Nat)

\* The answer a client takes is the answer to what it asked, and what it asked was
\* executed once.  (A client that gave up once has an abandoned request in its slot,
\* and this no longer holds of it.)
AnswerIsMine ==
  \A c \in Client \ gaveUp :
    pc[c] \in {"ring", "wait"} /\ slot[c] # "request" =>
      /\ slot[c] \in {"response", "failure"}
      /\ payload[c].kind = "answer" /\ payload[c].id = asked[c]
      /\ applied[asked[c]] = 1

\* No request is executed twice, give-ups and late answers included: an arrival is
\* never numbered twice, a save never overwrites a later one.
AtMostOnce == \A n \in DOMAIN applied : applied[n] <= 1

\* The doorbell is read before the scan: the owner never sleeps on a request whose
\* ring is past.
NoLostWakeup ==
  opc = "asleep" => \A c \in Client : slot[c] = "request" => pc[c] = "ring"

\* What Service.tla is shown of a round trip: it is answered once the owner has
\* executed its request, although nothing is published yet.
Busy(c) == opc \in {"answer", "publish"} /\ at = c

RoundTrip(state, n, op, k, a) == [state |-> state, id |-> n, op |-> op, key |-> k, answer |-> a]
Told(verdict, v) == <<verdict, IF verdict = "failure" THEN Undefined ELSE v>>
Done(a) == RoundTrip("answered", 0, "none", AnyKey, a)

Trip(c) ==
  IF c \in gaveUp \/ pc[c] = "free" THEN RoundTrip("none", 0, "none", AnyKey, <<>>)
  ELSE IF applied[asked[c]] = 0
       THEN RoundTrip("asked", asked[c], payload[c].op, payload[c].key, <<>>)
  ELSE IF Busy(c) THEN Done(Told(answer.verdict, answer.message.value))
  ELSE Done(Told(slot[c], payload[c].value))

Trips == [c \in Client |-> Trip(c)]
Executed == {n \in DOMAIN applied : applied[n] > 0}

\* The channel is a service: the request of a thread takes effect on the store once,
\* at one moment of its round trip, and its answer is what the store held then, however
\* the threads, the owner, the give-ups and the stop interleave.
Atomic == INSTANCE Service WITH
  NoKey <- AnyKey, trip <- Trips, late <- gaveUp, questions <- Len(applied), done <- Executed

CallsAreAtomic == Atomic!Spec

\* Every call of a thread ends, as long as the daemon is not asked to stop.
EveryCallReturns == \A c \in Client : pc[c] # "free" ~> pc[c] = "free" \/ shutdown

\* A clean stop is answered: the owner saves its tables and sets DRAINED, although
\* the notify of the stop may reach an owner that is about to sleep.
StopDrains == shutdown ~> drained

\* A call costs at most three round trips, however often the generation and the stamps
\* move under it: a revalidation that fails is not revalidated again.
ThreeRoundTrips == Len(applied) <= 3 * calls

\* A write of k by another thread that has not returned yet.
WriteUnderWay(c, k) ==
  \E d \in Client \ {c} : pc[d] # "free" /\ key[d] = k /\ purpose[d] = "plain"

\* What owner-client.js says of the memo: it cannot answer differently from a round
\* trip.  The answer LoadHeld would give now is the value the owner holds.
MemoIsCurrent ==
  \A c \in Client, k \in Key :
    (pc[c] = "free" /\ memo[c][k] # NoMemo /\ generation = memoGeneration[c])
      => memo[c][k].value = value[k] \/ WriteUnderWay(c, k)

\* What owner-ops.js says of the stamps: a stamp that matches proves the held value,
\* for the stamp of a purged key matches no stamp that is held.
StampProvesValue ==
  \A c \in Client, k \in Key :
    memo[c][k] # NoMemo /\ memo[c][k].stamp = stampOf(k) => memo[c][k].value = value[k]

=============================================================================
