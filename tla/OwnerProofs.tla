---------------------------- MODULE OwnerProofs ----------------------------
(***************************************************************************)
(* Proofs about OwnerChannel.tla, for any number of threads, keys, calls   *)
(* and give-ups: its typing, that no request is executed twice, that a     *)
(* client takes the answer to its own request, that the owner never sleeps *)
(* on a request whose ring is past, and that the channel implements        *)
(* Service.tla.                                                            *)
(***************************************************************************)
EXTENDS OwnerChannel, SequenceTheorems, TLAPS

USE DEF Client

---------------------------------------------------------------------------
(* Typing.                                                                 *)

LEMMA MessageTypes ==
  /\ \A n \in Nat, op \in Op, k \in Key : Asking(n, op, k) \in Message
  /\ \A n \in Nat, v \in Value : Saying(n, v) \in Message
  /\ Silence \in Message
  BY DEF Asking, Saying, Silence, Message, Value, Absent, OnDisk, Undefined

LEMMA MessageParts ==
  ASSUME NEW m \in Message
  PROVE  /\ m.kind \in {"request", "answer"} /\ m.id \in Nat /\ m.value \in Value
         /\ m.kind = "request" => m.op \in Op /\ m.key \in Key
  BY DEF Message, Value, Undefined

LEMMA InitTypeOK == Init => TypeOK
<1> SUFFICES ASSUME Init PROVE TypeOK
  OBVIOUS
<1>1. AnyKey \in Key
  BY ChannelAssumption DEF AnyKey
<1>2. \A k \in Key : Found(k) \in Value
  BY DEF Found, Value, Absent, OnDisk, Undefined
<1>3. NoMemo \in [stamp : Value, value : Value]
  BY DEF NoMemo, Value, Absent, OnDisk, Undefined
<1>4. memo \in [Client -> [Key -> [stamp : Value, value : Value]]]
  <2>1. \A k \in Key : [stamp |-> 0, value |-> Found(k)] \in [stamp : Value, value : Value]
    BY <1>2 DEF Value, Absent, OnDisk, Undefined
  <2> QED BY <1>3, <2>1 DEF Init
<1>5. NoAnswer \in [verdict : {"response", "failure"}, invalidates : BOOLEAN, message : Message]
  BY MessageTypes DEF NoAnswer
<1>6. applied \in Seq(Nat) /\ gaveUp \subseteq Client /\ calls \in 0..MaxCalls
  BY ChannelAssumption DEF Init
<1>7. /\ payload \in [Client -> Message] /\ value \in [Key -> Value]
      /\ fetched \in [Client -> Value]
  BY <1>2, MessageTypes DEF Init, Value, Undefined
<1>8. at \in 1..(Clients + 1)
  BY ChannelAssumption DEF Init
<1> QED BY <1>1, <1>4, <1>5, <1>6, <1>7, <1>8, ChannelAssumption DEF Init, TypeOK

\* A request is written by a client of which everything else is well typed.
LEMMA AskTypes ==
  ASSUME TypeOK, NEW c \in Client, NEW op \in Op, NEW k \in Key,
         NEW why \in {"plain", "value", "stamp", "revalidate"}, Ask(c, op, k, why)
  PROVE  /\ payload' \in [Client -> Message] /\ asked' \in [Client -> Nat]
         /\ applied' \in Seq(Nat)
         /\ purpose' \in [Client -> {"plain", "value", "stamp", "revalidate"}]
         /\ pc' \in [Client -> {"free", "post", "ring", "wait"}]
<1>1. Len(applied) + 1 \in Nat /\ Append(applied, 0) \in Seq(Nat)
  BY DEF TypeOK
<1>2. Asking(Len(applied) + 1, op, k) \in Message
  BY <1>1, MessageTypes
<1> QED BY <1>1, <1>2 DEF Ask, Goto, TypeOK

LEMMA ReturnsTypes ==
  ASSUME TypeOK, NEW c \in Client, Returns(c)
  PROVE  /\ pc' \in [Client -> {"free", "post", "ring", "wait"}]
         /\ purpose' \in [Client -> {"plain", "value", "stamp", "revalidate"}]
         /\ key' \in [Client -> Key] /\ asked' \in [Client -> Nat] /\ fetched' \in [Client -> Value]
<1>1. AnyKey \in Key
  BY ChannelAssumption DEF AnyKey
<1>2. Undefined \in Value
  BY DEF Value, Undefined
<1> QED BY <1>1, <1>2 DEF Returns, Goto, TypeOK

LEMMA MemoTypes ==
  ASSUME TypeOK, NEW c \in Client, syncMemo(c)
  PROVE  /\ memo' \in [Client -> [Key -> [stamp : Value, value : Value]]]
         /\ memoGeneration' \in [Client -> Nat \cup {-1}]
<1>1. NoMemo \in [stamp : Value, value : Value]
  BY DEF NoMemo, Value, Absent, OnDisk, Undefined
<1>2. Synced(c) \in [Key -> [stamp : Value, value : Value]]
  BY <1>1 DEF Synced, TypeOK
<1> QED BY <1>2 DEF syncMemo, TypeOK

LEMMA NewCallTypes ==
  ASSUME TypeOK, NEW c \in Client, NEW k \in Key, NewCall(c, k)
  PROVE  calls' \in 0..MaxCalls /\ key' \in [Client -> Key]
  BY ChannelAssumption DEF NewCall, TypeOK

LEMMA ExecutesTypes ==
  ASSUME TypeOK, NEW n \in Nat, NEW op \in Op, NEW k \in Key, Executes(n, op, k)
  PROVE  /\ answer' \in [verdict : {"response", "failure"}, invalidates : BOOLEAN, message : Message]
         /\ value' \in [Key -> Value] /\ stamps' \in [Key -> Nat] /\ tick' \in Nat
         /\ answer'.message.kind = "answer" /\ answer'.message.id = n
<1>1. /\ Undefined \in Value /\ Absent \in Value /\ Nat \subseteq Value
      /\ value[k] \in Value /\ stampOf(k) \in Value /\ tick + 1 \in Nat
  BY DEF Value, Undefined, Absent, OnDisk, TypeOK, stampOf
<1>2. \A v \in Value : /\ Saying(n, v) \in Message
                        /\ Saying(n, v).kind = "answer" /\ Saying(n, v).id = n
  BY MessageTypes DEF Saying
<1>3. ASSUME NEW v \in Value, NEW verdict \in {"response", "failure"}, NEW i \in BOOLEAN,
             Says(n, v, verdict, i)
      PROVE  /\ answer' \in [verdict : {"response", "failure"}, invalidates : BOOLEAN, message : Message]
             /\ answer'.message.kind = "answer" /\ answer'.message.id = n
  <2>1. answer' = [verdict |-> verdict, invalidates |-> i, message |-> Saying(n, v)]
    BY <1>3 DEF Says
  <2> QED BY <1>2, <2>1
<1>4. CASE op = "loadState"
  <2> DEFINE verdict == IF value[k] \in Oversized THEN "failure" ELSE "response"
  <2>1. Says(n, value[k], verdict, FALSE) /\ UNCHANGED store
    BY <1>4 DEF Executes
  <2>2. verdict \in {"response", "failure"}
    OBVIOUS
  <2>3. UNCHANGED store => value' \in [Key -> Value] /\ stamps' \in [Key -> Nat] /\ tick' \in Nat
    BY DEF store, TypeOK
  <2> HIDE DEF verdict
  <2>4. /\ answer' \in [verdict : {"response", "failure"}, invalidates : BOOLEAN, message : Message]
        /\ answer'.message.kind = "answer" /\ answer'.message.id = n
    BY <1>1, <1>3, <2>1, <2>2, Zenon
  <2> QED BY <2>1, <2>3, <2>4
<1>5. CASE op = "stampOf"
  <2>1. Says(n, stampOf(k), "response", FALSE) /\ UNCHANGED store
    BY <1>5 DEF Executes
  <2> QED BY <1>1, <1>3, <2>1 DEF store, TypeOK
<1>6. CASE op = "saveState"
  <2>1. /\ Says(n, Undefined, "response", TRUE) /\ value' = [value EXCEPT ![k] = n]
        /\ tick' = tick + 1 /\ stamps' = [stamps EXCEPT ![k] = tick + 1]
    BY <1>6 DEF Executes
  <2> QED BY <1>1, <1>3, <2>1 DEF TypeOK
<1>7. CASE op = "purge"
  <2>1. /\ Says(n, Undefined, "response", TRUE) /\ value' = [value EXCEPT ![k] = Absent]
        /\ tick' = tick + 1 /\ stamps' = [stamps EXCEPT ![k] = 0]
    BY <1>7 DEF Executes
  <2> QED BY <1>1, <1>3, <2>1 DEF TypeOK
<1> QED BY <1>4, <1>5, <1>6, <1>7 DEF Op

\* What an action of the owner leaves alone, or of a client, at once.
LEMMA SameTypes ==
  ASSUME TypeOK
  PROVE  /\ UNCHANGED owner =>
              /\ opc' \in {"top", "scan", "answer", "publish", "wait", "asleep", "drain", "gone"}
              /\ seen' \in Nat /\ at' \in 1..(Clients + 1) /\ served' \in BOOLEAN
              /\ answer' \in [verdict : {"response", "failure"}, invalidates : BOOLEAN,
                              message : Message]
         /\ UNCHANGED store => /\ value' \in [Key -> Value] /\ stamps' \in [Key -> Nat]
                               /\ tick' \in Nat
         /\ UNCHANGED clients =>
              /\ pc' \in [Client -> {"free", "post", "ring", "wait"}]
              /\ purpose' \in [Client -> {"plain", "value", "stamp", "revalidate"}]
              /\ key' \in [Client -> Key] /\ asked' \in [Client -> Nat]
              /\ fetched' \in [Client -> Value]
              /\ memo' \in [Client -> [Key -> [stamp : Value, value : Value]]]
              /\ memoGeneration' \in [Client -> Nat \cup {-1}]
         /\ UNCHANGED control =>
              /\ slot' \in [Client -> {"idle", "request", "response", "failure"}]
              /\ payload' \in [Client -> Message]
              /\ doorbell' \in Nat /\ generation' \in Nat
              /\ shutdown' \in BOOLEAN /\ drained' \in BOOLEAN
         /\ UNCHANGED ghosts => /\ calls' \in 0..MaxCalls /\ gaveUp' \subseteq Client
                                /\ applied' \in Seq(Nat)
  BY DEF TypeOK, owner, store, clients, control, ghosts

LEMMA ClientTypes ==
  ASSUME TypeOK, NEW c \in Client, ClientStep(c)
  PROVE  TypeOK'
<1>1. CASE Post(c)
  BY <1>1, SameTypes DEF Post, Goto, TypeOK, ghosts
<1>2. CASE Ring(c)
  <2>1. opc' \in {"top", "scan", "answer", "publish", "wait", "asleep", "drain", "gone"}
    BY <1>2 DEF Ring, Woken, TypeOK
  <2> QED BY <1>2, <2>1, SameTypes DEF Ring, Goto, TypeOK, ghosts, owner
<1>3. CASE TakeLast(c)
  BY <1>3, SameTypes, ReturnsTypes DEF TakeLast, Taken, TypeOK
<1>4. CASE TakeValue(c)
  <2>1. payload[c].value \in Value
    BY MessageParts DEF TypeOK
  <2>2. key[c] \in Key /\ "stampOf" \in Op
    BY DEF Op, TypeOK
  <2>3. Ask(c, "stampOf", key[c], "stamp") /\ Taken(c)
    BY <1>4 DEF TakeValue
  <2>4. fetched' \in [Client -> Value] /\ UNCHANGED <<key, memo, memoGeneration>>
    BY <1>4, <2>1 DEF TakeValue, TypeOK
  <2> QED BY <2>2, <2>3, <2>4, SameTypes, AskTypes DEF Taken, TypeOK
<1>5. CASE TakeStamp(c)
  <2>1. [stamp |-> payload[c].value, value |-> fetched[c]] \in [stamp : Value, value : Value]
    BY MessageParts DEF TypeOK
  <2>2. memo' \in [Client -> [Key -> [stamp : Value, value : Value]]]
    BY <1>5, <2>1 DEF TakeStamp, TypeOK
  <2> QED BY <1>5, <2>2, SameTypes, ReturnsTypes DEF TakeStamp, Taken, TypeOK
<1>6. CASE TakeSameStamp(c)
  BY <1>6, SameTypes, ReturnsTypes DEF TakeSameStamp, Taken, TypeOK
<1>7. CASE TakeOtherStamp(c)
  <2>1. key[c] \in Key /\ "loadState" \in Op
    BY DEF Op, TypeOK
  <2>2. Ask(c, "loadState", key[c], "value") /\ Taken(c) /\ syncMemo(c)
        /\ UNCHANGED <<key, fetched>>
    BY <1>7 DEF TakeOtherStamp
  <2> QED BY <2>1, <2>2, SameTypes, AskTypes, MemoTypes DEF Taken, TypeOK
<1> QED BY <1>1, <1>2, <1>3, <1>4, <1>5, <1>6, <1>7 DEF ClientStep

\* The calls of a thread: what NewCall leaves alone, and the one request it may write.
LEMMA CallTypes ==
  ASSUME TypeOK, NEW c \in Client, NEW k \in Key,
         \/ LoadHeld(c, k) \/ LoadMoved(c, k) \/ LoadMissing(c, k) \/ SaveRefused(c, k)
         \/ \E op \in INVALIDATES : CallUncached(c, op, k)
  PROVE  TypeOK'
<1>1. CASE LoadHeld(c, k) \/ SaveRefused(c, k)
  <2>1. NewCall(c, k) /\ UNCHANGED <<payload, pc, purpose, asked, memo, memoGeneration, applied>>
    BY <1>1 DEF LoadHeld, SaveRefused
  <2> QED BY <2>1, SameTypes, NewCallTypes DEF NewCall, TypeOK
<1>2. CASE LoadMoved(c, k)
  <2>1. NewCall(c, k) /\ Ask(c, "stampOf", k, "revalidate") /\ UNCHANGED <<memo, memoGeneration>>
    BY <1>2 DEF LoadMoved
  <2>2. "stampOf" \in Op
    BY DEF Op
  <2> QED BY <2>1, <2>2, SameTypes, NewCallTypes, AskTypes DEF NewCall, TypeOK
<1>3. CASE LoadMissing(c, k)
  <2>1. NewCall(c, k) /\ Ask(c, "loadState", k, "value") /\ syncMemo(c)
    BY <1>3 DEF LoadMissing
  <2>2. "loadState" \in Op
    BY DEF Op
  <2> QED BY <2>1, <2>2, SameTypes, NewCallTypes, AskTypes, MemoTypes DEF NewCall, TypeOK
<1>4. ASSUME NEW op \in INVALIDATES, CallUncached(c, op, k) PROVE TypeOK'
  <2>1. NewCall(c, k) /\ Ask(c, op, k, "plain") /\ UNCHANGED <<memo, memoGeneration>>
    BY <1>4 DEF CallUncached
  <2>2. op \in Op
    BY DEF Op, INVALIDATES
  <2> QED BY <2>1, <2>2, SameTypes, NewCallTypes, AskTypes DEF NewCall, TypeOK
<1> QED BY <1>1, <1>2, <1>3, <1>4

\* One more execution of a request keeps the sequence of counts, and every other count.
LEMMA CountTypes ==
  ASSUME NEW s \in Seq(Nat), NEW n \in Nat
  PROVE  LET t == [s EXCEPT ![n] = @ + 1]
         IN  /\ t \in Seq(Nat) /\ Len(t) = Len(s)
             /\ \A j \in 1..Len(s) : t[j] = IF j = n THEN s[j] + 1 ELSE s[j]
<1>1. CASE n \in 1..Len(s)
  <2>1. s[n] + 1 \in Nat
    BY <1>1
  <2> QED BY <1>1, <2>1, ExceptSeq
<1>2. CASE n \notin 1..Len(s)
  <2>1. [s EXCEPT ![n] = @ + 1] = s
    BY <1>2
  <2> QED BY <1>2, <2>1
<1> QED BY <1>1, <1>2

\* The owner composes and publishes an answer for a slot that exists.
AtSlot == opc \in {"answer", "publish"} => at \in Client

LEMMA OwnerTypes ==
  ASSUME TypeOK, AtSlot, OwnerStep
  PROVE  TypeOK'
<1>1. CASE OwnerTop
  <2>1. 1 \in 1..(Clients + 1)
    BY ChannelAssumption
  <2>2. /\ opc' \in {"top", "scan", "answer", "publish", "wait", "asleep", "drain", "gone"}
        /\ seen' \in Nat /\ at' \in 1..(Clients + 1) /\ served' \in BOOLEAN
    <3>1. CASE shutdown
      BY <1>1, <3>1 DEF OwnerTop, TypeOK
    <3>2. CASE ~shutdown
      BY <1>1, <2>1, <3>2 DEF OwnerTop, TypeOK
    <3> QED BY <3>1, <3>2
  <2> QED BY <1>1, <2>2, SameTypes DEF OwnerTop, TypeOK
<1>2. CASE OwnerSkips
  <2>1. at + 1 \in 1..(Clients + 1)
    BY <1>2, ChannelAssumption DEF OwnerSkips
  <2> QED BY <1>2, <2>1, SameTypes DEF OwnerSkips, TypeOK
<1>3. CASE OwnerServes
  <2> DEFINE m == payload[at]
  <2>1. at \in Client /\ m \in Message
    BY <1>3 DEF OwnerServes, TypeOK
  <2>2. /\ m.kind \in {"request", "answer"} /\ m.id \in Nat
        /\ m.kind = "request" => m.op \in Op /\ m.key \in Key
    BY <2>1, MessageParts
  <2>3. /\ answer' \in [verdict : {"response", "failure"}, invalidates : BOOLEAN,
                        message : Message]
        /\ value' \in [Key -> Value] /\ stamps' \in [Key -> Nat] /\ tick' \in Nat
        /\ applied' \in Seq(Nat)
    <3>1. CASE m.kind = "answer"
      <4>1. Says(m.id, Undefined, "failure", FALSE) /\ UNCHANGED <<store, applied>>
        BY <1>3, <3>1 DEF OwnerServes
      <4>2. Saying(m.id, Undefined) \in Message
        BY <2>2, MessageTypes DEF Value, Undefined
      <4> HIDE DEF m
      <4> QED BY <4>1, <4>2, SameTypes DEF Says, TypeOK
    <3>2. CASE m.kind = "request"
      <4>1. applied' = [applied EXCEPT ![m.id] = @ + 1] /\ Executes(m.id, m.op, m.key)
        BY <1>3, <3>2 DEF OwnerServes
      <4>2. applied' \in Seq(Nat)
        <5> HIDE DEF m
        <5>1. applied \in Seq(Nat)
          BY DEF TypeOK
        <5> QED BY <4>1, <5>1, <2>2, CountTypes
      <4> HIDE DEF m
      <4> QED BY <4>1, <4>2, <2>2, <3>2, ExecutesTypes
    <3> QED BY <2>2, <3>1, <3>2
  <2>4. /\ UNCHANGED <<control, clients, seen, at, served, calls, gaveUp>>
        /\ opc' = "answer"
    BY <1>3 DEF OwnerServes
  <2> HIDE DEF m
  <2> QED BY <2>3, <2>4, SameTypes DEF TypeOK
<1>4. CASE OwnerAnswers
  <2>1. answer.message \in Message
    BY DEF TypeOK
  <2>2. payload' \in [Client -> Message]
    BY <1>4, <2>1 DEF OwnerAnswers, TypeOK
  <2>3. generation' \in Nat
    BY <1>4 DEF OwnerAnswers, TypeOK
  <2> QED BY <1>4, <2>2, <2>3, SameTypes DEF OwnerAnswers, TypeOK
<1>5. CASE OwnerPublishes
  <2>1. NoAnswer \in [verdict : {"response", "failure"}, invalidates : BOOLEAN, message : Message]
    BY MessageTypes DEF NoAnswer
  <2>2. slot' \in [Client -> {"idle", "request", "response", "failure"}]
    BY <1>5 DEF OwnerPublishes, TypeOK
  <2>3. at + 1 \in 1..(Clients + 1)
    BY <1>5, ChannelAssumption DEF OwnerPublishes, AtSlot
  <2> QED BY <1>5, <2>1, <2>2, <2>3, SameTypes DEF OwnerPublishes, TypeOK
<1>6. CASE OwnerScanned
  BY <1>6, SameTypes DEF OwnerScanned, TypeOK
<1>7. CASE OwnerWaits
  BY <1>7, SameTypes DEF OwnerWaits, TypeOK
<1>8. CASE OwnerSlice
  BY <1>8, SameTypes DEF OwnerSlice, TypeOK
<1>9. CASE OwnerDrains
  BY <1>9, SameTypes DEF OwnerDrains, TypeOK
<1> QED BY <1>1, <1>2, <1>3, <1>4, <1>5, <1>6, <1>7, <1>8, <1>9 DEF OwnerStep

LEMMA StopTypes ==
  ASSUME TypeOK, Stop
  PROVE  TypeOK'
<1>1. opc' \in {"top", "scan", "answer", "publish", "wait", "asleep", "drain", "gone"}
  BY DEF Stop, Woken, TypeOK
<1> QED BY <1>1, SameTypes DEF Stop, TypeOK

LEMMA GiveUpTypes ==
  ASSUME TypeOK, NEW c \in Client, GiveUp(c)
  PROVE  TypeOK'
<1>1. gaveUp' \subseteq Client
  BY DEF GiveUp, TypeOK
<1> QED BY <1>1, SameTypes, ReturnsTypes DEF GiveUp, TypeOK

LEMMA AtSlotStep ==
  ASSUME TypeOK, AtSlot, [Next]_vars
  PROVE  AtSlot'
<1>1. CASE OwnerStep
  BY <1>1 DEF OwnerStep, OwnerTop, OwnerSkips, OwnerServes, OwnerAnswers, OwnerPublishes,
              OwnerScanned, OwnerWaits, OwnerSlice, OwnerDrains, AtSlot
<1>2. CASE Stop
  BY <1>2 DEF Stop, Woken, AtSlot
<1>3. CASE UNCHANGED vars
  BY <1>3 DEF vars, owner, AtSlot
<1>4. ASSUME NEW c \in Client, \/ ClientStep(c) \/ GiveUp(c)
                               \/ \E k \in Key :
                                    \/ LoadHeld(c, k) \/ LoadMoved(c, k) \/ LoadMissing(c, k) \/ SaveRefused(c, k)
                                    \/ \E op \in INVALIDATES : CallUncached(c, op, k)
      PROVE  AtSlot'
  <2>1. UNCHANGED owner \/ (Woken /\ UNCHANGED at)
    BY <1>4 DEF ClientStep, Post, Ring, TakeLast, TakeValue, TakeStamp, TakeSameStamp,
                TakeOtherStamp, Taken, GiveUp, LoadHeld, LoadMoved, LoadMissing, SaveRefused, CallUncached,
                NewCall
  <2> QED BY <2>1 DEF owner, Woken, AtSlot
<1> QED BY <1>1, <1>2, <1>3, <1>4 DEF Next

LEMMA TypeOKStep ==
  ASSUME TypeOK, AtSlot, [Next]_vars
  PROVE  TypeOK'
<1>1. CASE UNCHANGED vars
  BY <1>1, SameTypes DEF vars, TypeOK
<1> QED BY <1>1, ClientTypes, CallTypes, OwnerTypes, StopTypes, GiveUpTypes DEF Next

\* Every state of the channel is well typed, whatever the number of threads and keys;
\* in particular the owner never indexes a slot that does not exist.
THEOREM OwnerTyping == Spec => []TypeOK
<1>1. Init => TypeOK /\ AtSlot
  BY InitTypeOK DEF Init, AtSlot
<1>2. TypeOK /\ AtSlot /\ [Next]_vars => (TypeOK /\ AtSlot)'
  BY TypeOKStep, AtSlotStep
<1> QED BY <1>1, <1>2, PTL DEF Spec

---------------------------------------------------------------------------
(* The numbers of the requests, and the answers.                           *)

\* The request of c is written and was not executed yet; or it was, and answered.
Pending(c) ==
  /\ payload[c].kind = "request" /\ payload[c].id = asked[c]
  /\ asked[c] \in 1..Len(applied) /\ applied[asked[c]] = 0
Answered(c) ==
  /\ payload[c].kind = "answer" /\ payload[c].id = asked[c]
  /\ asked[c] \in 1..Len(applied) /\ applied[asked[c]] = 1

\* Where the request of a client that never gave up may be.
Mine(c) ==
  /\ pc[c] \in {"free", "post"} => slot[c] = "idle" /\ ~Busy(c)
  /\ pc[c] = "post" => Pending(c)
  /\ pc[c] \in {"ring", "wait"} =>
       \/ slot[c] = "request" /\ ~Busy(c) /\ Pending(c)
       \/ /\ slot[c] = "request" /\ opc = "answer" /\ at = c
          /\ answer.message.id = asked[c]
          /\ asked[c] \in 1..Len(applied) /\ applied[asked[c]] = 1
       \/ slot[c] = "request" /\ opc = "publish" /\ at = c /\ Answered(c)
       \/ slot[c] \in {"response", "failure"} /\ ~Busy(c) /\ Answered(c)

\* The requests in the slots have numbers of their own, and one that was executed is the
\* one the owner is about to answer.
IdsKnown == \A c \in Client : payload[c].kind = "request" => payload[c].id \in 1..Len(applied)
IdsDiffer ==
  \A c, d \in Client :
    payload[c].kind = "request" /\ payload[d].kind = "request" /\ c # d
      => payload[c].id # payload[d].id
ExecutedOnce ==
  \A c \in Client :
    payload[c].kind = "request" /\ applied[payload[c].id] # 0 => opc = "answer" /\ at = c

Numbers ==
  /\ IdsKnown /\ IdsDiffer /\ ExecutedOnce
  /\ \A n \in 1..Len(applied) : applied[n] <= 1
  /\ answer.message.kind = "answer"

AllMine == \A c \in Client \ gaveUp : Mine(c)

\* What a step of a client does to the owner, to the counts and to the other clients.
OwnerKept ==
  UNCHANGED <<at, answer>> /\ (opc' = opc \/ (opc = "asleep" /\ opc' = "top"))
AppliedKept ==
  Len(applied) <= Len(applied') /\ \A n \in 1..Len(applied) : applied'[n] = applied[n]
Still(d) ==
  slot'[d] = slot[d] /\ payload'[d] = payload[d] /\ pc'[d] = pc[d] /\ asked'[d] = asked[d]

LEMMA MineStill ==
  ASSUME TypeOK, NEW d \in Client, Mine(d), Still(d), OwnerKept, AppliedKept,
         Len(applied) \in Nat, Len(applied') \in Nat
  PROVE  Mine(d)'
<1>1. Busy(d)' = Busy(d)
  BY DEF OwnerKept, Busy
<1>2. Pending(d) => Pending(d)'
  BY DEF Pending, Still, AppliedKept
<1>3. Answered(d) => Answered(d)'
  BY DEF Answered, Still, AppliedKept
<1>4. asked[d] \in 1..Len(applied) /\ applied[asked[d]] = 1
        => asked'[d] \in 1..Len(applied') /\ applied'[asked'[d]] = 1
  BY DEF Still, AppliedKept
<1> QED BY <1>1, <1>2, <1>3, <1>4 DEF Mine, Still, OwnerKept, Busy

LEMMA NumbersStill ==
  ASSUME Numbers, OwnerKept, UNCHANGED <<payload, applied>>
  PROVE  Numbers'
  BY DEF Numbers, OwnerKept, IdsKnown, IdsDiffer, ExecutedOnce

\* What Ask does.
LEMMA AskFacts ==
  ASSUME TypeOK, NEW c \in Client, NEW op, NEW k, NEW why, Ask(c, op, k, why)
  PROVE  /\ payload'[c].kind = "request" /\ payload'[c].id = Len(applied) + 1
         /\ asked'[c] = Len(applied) + 1 /\ pc'[c] = "post"
         /\ Len(applied) \in Nat /\ Len(applied') = Len(applied) + 1
         /\ applied'[Len(applied) + 1] = 0 /\ AppliedKept
         /\ \A d \in Client \ {c} :
              payload'[d] = payload[d] /\ pc'[d] = pc[d] /\ asked'[d] = asked[d]
<1>1. applied \in Seq(Nat) /\ applied' = Append(applied, 0)
  BY DEF Ask, TypeOK
<1>2. /\ Len(applied) \in Nat /\ Len(applied') = Len(applied) + 1
      /\ applied'[Len(applied) + 1] = 0
      /\ \A n \in 1..Len(applied) : applied'[n] = applied[n]
  BY <1>1
<1>3. payload' = [payload EXCEPT ![c] = Asking(Len(applied) + 1, op, k)]
  BY DEF Ask
<1>4. payload'[c] = Asking(Len(applied) + 1, op, k)
  BY <1>3 DEF TypeOK
<1>5. payload'[c].kind = "request" /\ payload'[c].id = Len(applied) + 1
  BY <1>4 DEF Asking
<1> QED BY <1>2, <1>3, <1>5 DEF Ask, Goto, TypeOK, AppliedKept

LEMMA AskNumbers ==
  ASSUME TypeOK, Numbers, OwnerKept, NEW c \in Client, NEW op, NEW k, NEW why,
         Ask(c, op, k, why)
  PROVE  Numbers'
<1> USE AskFacts
<1>1. IdsKnown'
  BY DEF Numbers, IdsKnown
<1>2. IdsDiffer'
  BY DEF Numbers, IdsKnown, IdsDiffer
<1>3. ExecutedOnce'
  <2> SUFFICES ASSUME NEW d \in Client, payload'[d].kind = "request",
                      applied'[payload'[d].id] # 0
               PROVE  opc' = "answer" /\ at' = d
    BY DEF ExecutedOnce
  <2>1. d # c
    OBVIOUS
  <2>2. payload[d].kind = "request" /\ applied[payload[d].id] # 0
    BY <2>1 DEF AppliedKept, Numbers, IdsKnown
  <2> QED BY <2>2 DEF Numbers, ExecutedOnce, OwnerKept
<1>4. \A n \in 1..Len(applied') : applied'[n] <= 1
  BY DEF Numbers, AppliedKept
<1> QED BY <1>1, <1>2, <1>3, <1>4 DEF Numbers, OwnerKept

\* A client that writes a request: it was free, or it takes the answer of the previous one.
LEMMA AskMine ==
  ASSUME TypeOK, Numbers, AllMine, OwnerKept, UNCHANGED gaveUp,
         NEW c \in Client, NEW op, NEW k, NEW why, Ask(c, op, k, why),
         Taken(c) \/ (pc[c] = "free" /\ UNCHANGED slot)
  PROVE  AllMine'
<1> SUFFICES ASSUME NEW d \in Client \ gaveUp PROVE Mine(d)'
  BY DEF AllMine
<1>1. Mine(d)
  BY DEF AllMine
<1>2. CASE d # c
  <2>1. slot'[d] = slot[d]
    <3>1. CASE Taken(c)
      BY <1>2, <3>1 DEF Taken, TypeOK
    <3>2. CASE UNCHANGED slot
      BY <3>2
    <3> QED BY <3>1, <3>2
  <2>2. Still(d)
    BY <1>2, <2>1, AskFacts DEF Still
  <2> QED BY <1>1, <2>2, AskFacts, MineStill
<1>3. CASE d = c
  <2>1. slot'[c] = "idle" /\ ~Busy(c)'
    <3>1. CASE Taken(c)
      BY <1>1, <1>3, <3>1 DEF Taken, Mine, Busy, OwnerKept, TypeOK
    <3>2. CASE pc[c] = "free" /\ UNCHANGED slot
      BY <1>1, <1>3, <3>2 DEF Mine, Busy, OwnerKept
    <3> QED BY <3>1, <3>2
  <2>2. Pending(c)'
    BY AskFacts DEF Pending
  <2> QED BY <1>3, <2>1, <2>2, AskFacts DEF Mine
<1> QED BY <1>2, <1>3

LEMMA ReturnMine ==
  ASSUME TypeOK, Numbers, AllMine, OwnerKept, UNCHANGED <<gaveUp, payload, applied>>,
         NEW c \in Client, Returns(c), Taken(c)
  PROVE  AllMine' /\ Numbers'
<1>1. Numbers'
  BY NumbersStill
<1>2. ASSUME NEW d \in Client \ gaveUp PROVE Mine(d)'
  <2>1. Mine(d)
    BY DEF AllMine
  <2>2. CASE d # c
    <3>1. Still(d)
      BY <2>2 DEF Still, Taken, Returns, Goto, TypeOK
    <3>2. AppliedKept /\ Len(applied) \in Nat /\ Len(applied') \in Nat
      BY DEF AppliedKept, TypeOK
    <3> QED BY <2>1, <3>1, <3>2, MineStill
  <2>3. CASE d = c
    BY <2>1, <2>3 DEF Mine, Busy, OwnerKept, Taken, Returns, Goto, TypeOK
  <2> QED BY <2>2, <2>3
<1> QED BY <1>1, <1>2 DEF AllMine

\* The steps that write no request and take no answer.
LEMMA OwnMine ==
  ASSUME TypeOK, Numbers, AllMine, OwnerKept, UNCHANGED <<payload, applied>>,
         gaveUp \subseteq gaveUp', NEW c \in Client, c \in gaveUp' \/ Mine(c)',
         \A d \in Client \ {c} : Still(d)
  PROVE  AllMine' /\ Numbers'
<1>1. Numbers'
  BY NumbersStill
<1>2. ASSUME NEW d \in Client \ gaveUp', d # c PROVE Mine(d)'
  <2>1. Mine(d) /\ Still(d)
    BY <1>2 DEF AllMine
  <2>2. AppliedKept /\ Len(applied) \in Nat /\ Len(applied') \in Nat
    BY DEF AppliedKept, TypeOK
  <2> QED BY <2>1, <2>2, MineStill
<1> QED BY <1>1, <1>2 DEF AllMine

LEMMA ClientMine ==
  ASSUME TypeOK, Numbers, AllMine, NEW c \in Client, ClientStep(c) \/ GiveUp(c)
  PROVE  AllMine' /\ Numbers'
<1>1. CASE Post(c)
  <2>1. OwnerKept /\ UNCHANGED <<payload, applied, gaveUp>>
    BY <1>1 DEF Post, owner, ghosts, OwnerKept
  <2>2. \A d \in Client \ {c} : Still(d)
    BY <1>1 DEF Post, Goto, Still, TypeOK
  <2>3. ASSUME c \notin gaveUp PROVE Mine(c)'
    <3>1. ~Busy(c) /\ Pending(c)
      BY <1>1, <2>3 DEF AllMine, Mine, Post
    <3>2. ~Busy(c)' /\ Pending(c)'
      BY <1>1, <3>1 DEF Post, Busy, Pending, owner, ghosts
    <3>3. slot'[c] = "request" /\ pc'[c] = "ring"
      BY <1>1 DEF Post, Goto, TypeOK
    <3> QED BY <3>2, <3>3 DEF Mine
  <2> QED BY <2>1, <2>2, <2>3, OwnMine
<1>2. CASE Ring(c)
  <2>1. OwnerKept /\ UNCHANGED <<payload, applied, gaveUp>>
    BY <1>2 DEF Ring, Woken, ghosts, OwnerKept
  <2>2. \A d \in Client \ {c} : Still(d)
    BY <1>2 DEF Ring, Goto, Still, TypeOK
  <2>3. ASSUME c \notin gaveUp PROVE Mine(c)'
    <3>1. pc[c] = "ring" /\ pc'[c] = "wait" /\ UNCHANGED <<slot, asked>> /\ Mine(c)
      BY <1>2, <2>3 DEF Ring, Goto, TypeOK, AllMine
    <3>2. Busy(c)' = Busy(c) /\ Pending(c)' = Pending(c) /\ Answered(c)' = Answered(c)
      BY <2>1, <3>1 DEF Busy, Pending, Answered, OwnerKept
    <3> QED BY <2>1, <3>1, <3>2 DEF Mine, OwnerKept
  <2> QED BY <2>1, <2>2, <2>3, OwnMine
<1>3. CASE TakeLast(c)
  <2>1. Taken(c) /\ Returns(c) /\ UNCHANGED <<payload, applied>>
    BY <1>3 DEF TakeLast
  <2> QED BY <2>1, ReturnMine DEF Taken, owner, OwnerKept
<1>4. CASE TakeValue(c)
  <2>1. Taken(c) /\ Ask(c, "stampOf", key[c], "stamp")
    BY <1>4 DEF TakeValue
  <2> QED BY <2>1, AskMine, AskNumbers DEF Taken, owner, OwnerKept
<1>5. CASE TakeStamp(c)
  <2>1. Taken(c) /\ Returns(c) /\ UNCHANGED <<payload, applied>>
    BY <1>5 DEF TakeStamp
  <2> QED BY <2>1, ReturnMine DEF Taken, owner, OwnerKept
<1>6. CASE TakeSameStamp(c)
  <2>1. Taken(c) /\ Returns(c) /\ UNCHANGED <<payload, applied>>
    BY <1>6 DEF TakeSameStamp
  <2> QED BY <2>1, ReturnMine DEF Taken, owner, OwnerKept
<1>7. CASE TakeOtherStamp(c)
  <2>1. Taken(c) /\ Ask(c, "loadState", key[c], "value")
    BY <1>7 DEF TakeOtherStamp
  <2> QED BY <2>1, AskMine, AskNumbers DEF Taken, owner, OwnerKept
<1>8. CASE GiveUp(c)
  <2>1. OwnerKept /\ UNCHANGED <<payload, applied>> /\ gaveUp' = gaveUp \cup {c}
    BY <1>8 DEF GiveUp, control, owner, OwnerKept
  <2>2. \A d \in Client \ {c} : Still(d)
    BY <1>8 DEF GiveUp, Returns, Goto, Still, control, TypeOK
  <2> QED BY <2>1, <2>2, OwnMine
<1> QED BY <1>1, <1>2, <1>3, <1>4, <1>5, <1>6, <1>7, <1>8 DEF ClientStep

LEMMA CallMine ==
  ASSUME TypeOK, Numbers, AllMine, NEW c \in Client, NEW k \in Key,
         \/ LoadHeld(c, k) \/ LoadMoved(c, k) \/ LoadMissing(c, k) \/ SaveRefused(c, k)
         \/ \E op \in INVALIDATES : CallUncached(c, op, k)
  PROVE  AllMine' /\ Numbers'
<1>1. ASSUME NewCall(c, k) PROVE pc[c] = "free" /\ OwnerKept /\ UNCHANGED <<slot, gaveUp>>
  BY <1>1 DEF NewCall, owner, OwnerKept
<1>2. ASSUME NEW op, NEW why, NewCall(c, k), Ask(c, op, k, why) PROVE AllMine' /\ Numbers'
  BY <1>1, <1>2, AskMine, AskNumbers
<1>3. CASE LoadHeld(c, k) \/ SaveRefused(c, k)
  <2>1. NewCall(c, k) /\ UNCHANGED <<payload, pc, asked, applied>>
    BY <1>3 DEF LoadHeld, SaveRefused
  <2>2. \A d \in Client : Still(d)
    BY <1>1, <2>1 DEF Still
  <2>3. \A d \in Client \ gaveUp : Mine(d)'
    BY <1>1, <2>1, <2>2, MineStill DEF AllMine, AppliedKept, TypeOK
  <2> QED BY <1>1, <2>1, <2>3, NumbersStill DEF AllMine
<1> QED BY <1>2, <1>3 DEF LoadMoved, LoadMissing, CallUncached

\* The owner executes what is in a slot: what no client sees yet.
LEMMA ServesMine ==
  ASSUME TypeOK, Numbers, AllMine, OwnerServes
  PROVE  AllMine' /\ Numbers'
<1> DEFINE m == payload[at]
<1>1. /\ opc = "scan" /\ opc' = "answer" /\ at \in Client /\ slot[at] = "request"
      /\ UNCHANGED <<slot, payload, pc, asked, at, gaveUp>>
  BY DEF OwnerServes, control, clients
<1>2. /\ m.kind \in {"request", "answer"} /\ m.id \in Nat
      /\ m.kind = "request" => m.op \in Op /\ m.key \in Key
  BY <1>1, MessageParts DEF TypeOK
<1>3. \A c \in Client : ~Busy(c)
  BY <1>1 DEF Busy
<1>4. applied \in Seq(Nat) /\ Len(applied) \in Nat
  BY DEF TypeOK
<1>5. CASE m.kind = "answer"
  <2>1. Says(m.id, Undefined, "failure", FALSE) /\ UNCHANGED applied
    BY <1>5 DEF OwnerServes
  <2>2. answer'.message.kind = "answer"
    BY <2>1 DEF Says, Saying
  <2>3. Numbers'
    BY <1>1, <1>5, <2>1, <2>2 DEF Numbers, IdsKnown, IdsDiffer, ExecutedOnce
  <2>4. ASSUME NEW c \in Client \ gaveUp PROVE Mine(c)'
    <3>1. Mine(c)
      BY DEF AllMine
    <3>2. CASE c = at
      BY <1>1, <1>3, <1>5, <3>1, <3>2 DEF Mine, Pending, TypeOK
    <3>3. CASE c # at
      BY <1>1, <1>3, <2>1, <3>1, <3>3 DEF Mine, Busy, Pending, Answered
    <3> QED BY <3>2, <3>3
  <2> QED BY <1>1, <2>3, <2>4 DEF AllMine
<1>6. CASE m.kind = "request"
  <2>1. applied' = [applied EXCEPT ![m.id] = @ + 1] /\ Executes(m.id, m.op, m.key)
    BY <1>6 DEF OwnerServes
  <2>2. m.id \in 1..Len(applied) /\ applied[m.id] = 0
    BY <1>1, <1>6 DEF Numbers, IdsKnown, ExecutedOnce
  <2>3. answer'.message.kind = "answer" /\ answer'.message.id = m.id
    <3> HIDE DEF m
    <3> QED BY <1>2, <1>6, <2>1, ExecutesTypes
  <2>4. /\ Len(applied') = Len(applied)
        /\ \A n \in 1..Len(applied) :
             applied'[n] = IF n = m.id THEN applied[n] + 1 ELSE applied[n]
    <3> HIDE DEF m
    <3> QED BY <1>2, <1>4, <2>1, CountTypes
  <2>5. Numbers'
    <3>1. IdsKnown' /\ IdsDiffer'
      BY <1>1, <2>4 DEF Numbers, IdsKnown, IdsDiffer
    <3>2. ExecutedOnce'
      <4> SUFFICES ASSUME NEW c \in Client, payload[c].kind = "request",
                          applied'[payload[c].id] # 0
                   PROVE  c = at
        BY <1>1 DEF ExecutedOnce
      <4>1. payload[c].id \in 1..Len(applied)
        BY DEF Numbers, IdsKnown
      <4>2. ASSUME c # at PROVE FALSE
        <5>1. payload[c].id # m.id
          BY <1>1, <1>6, <4>2 DEF Numbers, IdsDiffer
        <5> QED BY <1>1, <2>4, <4>1, <5>1 DEF Numbers, ExecutedOnce
      <4> QED BY <4>2
    <3>3. \A n \in 1..Len(applied') : applied'[n] <= 1
      BY <2>2, <2>4 DEF Numbers
    <3> QED BY <2>3, <3>1, <3>2, <3>3 DEF Numbers
  <2>6. ASSUME NEW c \in Client \ gaveUp PROVE Mine(c)'
    <3>1. Mine(c)
      BY DEF AllMine
    <3>2. CASE c = at
      <4>1. pc[c] \in {"ring", "wait"} /\ Pending(c)
        BY <1>1, <1>3, <3>1, <3>2 DEF Mine, TypeOK
      <4>2. /\ m.id = asked[c] /\ asked[c] \in 1..Len(applied) /\ asked'[c] = asked[c]
            /\ pc'[c] \in {"ring", "wait"} /\ slot'[c] = "request"
        BY <1>1, <3>2, <4>1 DEF Pending
      <4>3. applied'[asked[c]] = 1
        BY <2>2, <2>4, <4>2
      <4> HIDE DEF m
      <4> QED BY <1>1, <2>3, <2>4, <3>2, <4>2, <4>3 DEF Mine
    <3>3. CASE c # at
      <4>1. Pending(c) => Pending(c)'
        <5> SUFFICES ASSUME Pending(c) PROVE Pending(c)'
          OBVIOUS
        <5>1. asked[c] # m.id
          BY <1>1, <1>6, <3>3 DEF Pending, Numbers, IdsDiffer
        <5> QED BY <1>1, <2>4, <5>1 DEF Pending
      <4>2. Answered(c) => Answered(c)'
        BY <1>1, <2>2, <2>4 DEF Answered
      <4> QED BY <1>1, <1>3, <3>1, <3>3, <4>1, <4>2 DEF Mine, Busy
    <3> QED BY <3>2, <3>3
  <2> QED BY <1>1, <2>5, <2>6 DEF AllMine
<1> QED BY <1>2, <1>5, <1>6

LEMMA AnswersMine ==
  ASSUME TypeOK, AtSlot, Numbers, AllMine, OwnerAnswers
  PROVE  AllMine' /\ Numbers'
<1>1. /\ opc = "answer" /\ opc' = "publish" /\ at \in Client
      /\ UNCHANGED <<slot, pc, asked, at, answer, applied, gaveUp>>
      /\ payload' = [payload EXCEPT ![at] = answer.message]
  BY DEF OwnerAnswers, AtSlot, clients, ghosts
<1>2. /\ payload'[at] = answer.message /\ answer.message.kind = "answer"
      /\ \A d \in Client \ {at} : payload'[d] = payload[d]
  BY <1>1 DEF TypeOK, Numbers
<1>3. Numbers'
  BY <1>1, <1>2 DEF Numbers, IdsKnown, IdsDiffer, ExecutedOnce
<1>4. ASSUME NEW c \in Client \ gaveUp PROVE Mine(c)'
  <2>1. Mine(c)
    BY DEF AllMine
  <2>2. CASE c = at
    <3>1. /\ pc[c] \in {"ring", "wait"} /\ slot[c] = "request" /\ answer.message.id = asked[c]
          /\ asked[c] \in 1..Len(applied) /\ applied[asked[c]] = 1
      BY <1>1, <2>1, <2>2 DEF Mine, Busy, TypeOK
    <3>2. Answered(c)'
      BY <1>1, <1>2, <2>2, <3>1 DEF Answered
    <3> QED BY <1>1, <2>2, <3>1, <3>2 DEF Mine
  <2>3. CASE c # at
    <3>1. (Pending(c) => Pending(c)') /\ (Answered(c) => Answered(c)') /\ ~Busy(c) /\ ~Busy(c)'
      BY <1>1, <1>2, <2>3 DEF Pending, Answered, Busy
    <3> QED BY <1>1, <2>1, <2>3, <3>1 DEF Mine
  <2> QED BY <2>2, <2>3
<1> QED BY <1>1, <1>3, <1>4 DEF AllMine

LEMMA PublishesMine ==
  ASSUME TypeOK, AtSlot, Numbers, AllMine, OwnerPublishes
  PROVE  AllMine' /\ Numbers'
<1>1. /\ opc = "publish" /\ opc' = "scan" /\ at \in Client
      /\ UNCHANGED <<payload, pc, asked, applied, gaveUp>>
      /\ slot' = [slot EXCEPT ![at] = answer.verdict] /\ answer' = NoAnswer
  BY DEF OwnerPublishes, AtSlot, clients, ghosts
<1>2. /\ slot'[at] \in {"response", "failure"}
      /\ \A d \in Client \ {at} : slot'[d] = slot[d]
  BY <1>1 DEF TypeOK
<1>3. Numbers'
  <2>1. answer'.message.kind = "answer"
    BY <1>1 DEF NoAnswer, Silence, Saying
  <2> QED BY <1>1, <2>1 DEF Numbers, IdsKnown, IdsDiffer, ExecutedOnce
<1>4. ASSUME NEW c \in Client \ gaveUp PROVE Mine(c)'
  <2>1. Mine(c) /\ ~Busy(c)'
    BY <1>1 DEF AllMine, Busy
  <2>2. (Pending(c) => Pending(c)') /\ (Answered(c) => Answered(c)')
    BY <1>1 DEF Pending, Answered
  <2>3. CASE c = at
    BY <1>1, <1>2, <2>1, <2>2, <2>3 DEF Mine, Busy, TypeOK
  <2>4. CASE c # at
    BY <1>1, <1>2, <2>1, <2>2, <2>4 DEF Mine, Busy
  <2> QED BY <2>3, <2>4
<1> QED BY <1>1, <1>3, <1>4 DEF AllMine

\* The steps of the owner that touch no slot, and the stop.
LEMMA ElsewhereMine ==
  ASSUME TypeOK, Numbers, AllMine,
         UNCHANGED <<slot, payload, pc, asked, answer, applied, gaveUp>>,
         opc \notin {"answer", "publish"}, opc' \notin {"answer", "publish"}
  PROVE  AllMine' /\ Numbers'
<1>1. Numbers'
  BY DEF Numbers, IdsKnown, IdsDiffer, ExecutedOnce
<1>2. ASSUME NEW c \in Client \ gaveUp PROVE Mine(c)'
  BY DEF AllMine, Mine, Busy, Pending, Answered
<1> QED BY <1>1, <1>2 DEF AllMine

LEMMA MineStep ==
  ASSUME TypeOK, AtSlot, Numbers, AllMine, [Next]_vars
  PROVE  AllMine' /\ Numbers'
<1>1. CASE UNCHANGED vars
  <2>1. UNCHANGED <<slot, payload, pc, asked, answer, applied, gaveUp, opc, at>>
    BY <1>1 DEF vars, control, clients, owner, ghosts
  <2>2. Numbers'
    BY <2>1 DEF Numbers, IdsKnown, IdsDiffer, ExecutedOnce
  <2>3. ASSUME NEW c \in Client \ gaveUp PROVE Mine(c)'
    BY <2>1 DEF AllMine, Mine, Busy, Pending, Answered
  <2> QED BY <2>1, <2>2, <2>3 DEF AllMine
<1>2. CASE OwnerTop \/ OwnerSkips \/ OwnerScanned \/ OwnerWaits \/ OwnerSlice \/ OwnerDrains
  <2>1. UNCHANGED <<slot, payload, pc, asked, answer, applied, gaveUp>>
    BY <1>2 DEF OwnerTop, OwnerSkips, OwnerScanned, OwnerWaits, OwnerSlice, OwnerDrains,
                control, clients, ghosts
  <2>2. opc \notin {"answer", "publish"} /\ opc' \notin {"answer", "publish"}
    BY <1>2 DEF OwnerTop, OwnerSkips, OwnerScanned, OwnerWaits, OwnerSlice, OwnerDrains
  <2> QED BY <2>1, <2>2, ElsewhereMine
<1>3. CASE Stop
  <2>1. OwnerKept /\ UNCHANGED <<payload, applied, gaveUp>> /\ \A d \in Client : Still(d)
    BY <1>3 DEF Stop, Woken, OwnerKept, clients, ghosts, Still
  <2>2. \A d \in Client \ gaveUp : Mine(d)'
    BY <2>1, MineStill DEF AllMine, AppliedKept, TypeOK
  <2> QED BY <2>1, <2>2, NumbersStill DEF AllMine
<1> QED BY <1>1, <1>2, <1>3, ClientMine, CallMine, ServesMine, AnswersMine, PublishesMine
        DEF Next, OwnerStep

LEMMA InitMine == Init => AllMine /\ Numbers
<1> SUFFICES ASSUME Init PROVE AllMine /\ Numbers
  OBVIOUS
<1>1. \A c \in Client : payload[c].kind = "answer"
  BY DEF Init, Silence, Saying
<1>2. answer.message.kind = "answer" /\ Len(applied) = 0
  BY DEF Init, NoAnswer, Silence, Saying
<1>3. Numbers
  BY <1>1, <1>2 DEF Numbers, IdsKnown, IdsDiffer, ExecutedOnce
<1>4. AllMine
  BY DEF AllMine, Mine, Busy, Init
<1> QED BY <1>3, <1>4

THEOREM Served == Spec => [](TypeOK /\ AtSlot /\ Numbers /\ AllMine)
<1>1. Init => TypeOK /\ AtSlot /\ Numbers /\ AllMine
  BY InitTypeOK, InitMine DEF Init, AtSlot
<1>2. TypeOK /\ AtSlot /\ Numbers /\ AllMine /\ [Next]_vars
        => (TypeOK /\ AtSlot /\ Numbers /\ AllMine)'
  BY TypeOKStep, AtSlotStep, MineStep
<1> QED BY <1>1, <1>2, PTL DEF Spec

\* No request is executed twice, whatever the threads, the keys, the calls and the clients
\* that give up: every request in a slot has a number of its own, and one that was
\* executed is in the slot only until its answer is.
THEOREM OwnerExecutesOnce == Spec => []AtMostOnce
<1>1. TypeOK /\ Numbers => AtMostOnce
  BY DEF TypeOK, Numbers, AtMostOnce
<1> QED BY <1>1, Served, PTL

\* A client that never gave up takes the answer to the request it posted, and that request
\* was executed once.
THEOREM OwnerAnswersMine == Spec => []AnswerIsMine
<1>1. TypeOK /\ AllMine => AnswerIsMine
  BY DEF TypeOK, AllMine, Mine, Answered, AnswerIsMine
<1> QED BY <1>1, Served, PTL

---------------------------------------------------------------------------
(* The doorbell.                                                           *)

\* A request in the slot of c has its ring to come, or it came after the doorbell was read.
Heard(c) == slot[c] = "request" => pc[c] = "ring" \/ doorbell > seen

\* The slots the owner has passed hold no request whose ring it would not hear.
Awake ==
  /\ seen <= doorbell
  /\ opc \in {"scan", "answer", "publish"} => \A c \in Client : c < at => Heard(c)
  /\ opc = "wait" => \A c \in Client : Heard(c)
  /\ NoLostWakeup

\* A step of c that neither posts nor rings: no request of its slot loses its ring.
LEMMA QuietAwake ==
  ASSUME TypeOK, Awake, NEW c \in Client, UNCHANGED <<owner, doorbell>>,
         \A d \in Client \ {c} : slot'[d] = slot[d] /\ pc'[d] = pc[d],
         \/ slot'[c] # "request" \/ pc'[c] = "ring"
         \/ slot'[c] = slot[c] /\ pc[c] # "ring"
  PROVE  Awake'
<1>1. UNCHANGED <<opc, at, seen, doorbell>>
  BY DEF owner
<1>2. \A d \in Client : Heard(d) => Heard(d)'
  BY <1>1 DEF Heard
<1>3. opc = "asleep" => NoLostWakeup'
  BY <1>1 DEF Awake, NoLostWakeup
<1> QED BY <1>1, <1>2, <1>3 DEF Awake, NoLostWakeup

LEMMA ClientAwake ==
  ASSUME TypeOK, Awake, NEW c \in Client, ClientStep(c) \/ GiveUp(c)
  PROVE  Awake'
<1>1. CASE Post(c)
  <2>1. pc'[c] = "ring" /\ \A d \in Client \ {c} : slot'[d] = slot[d] /\ pc'[d] = pc[d]
    BY <1>1 DEF Post, Goto, TypeOK
  <2>2. UNCHANGED <<owner, doorbell>>
    BY <1>1 DEF Post
  <2> QED BY <2>1, <2>2, QuietAwake
<1>2. CASE Ring(c)
  <2>1. /\ doorbell' = doorbell + 1 /\ UNCHANGED <<slot, seen, at>>
        /\ opc' # "asleep" /\ (opc' = opc \/ opc' = "top")
    BY <1>2 DEF Ring, Woken
  <2> QED BY <2>1 DEF TypeOK, Awake, Heard, NoLostWakeup
<1>3. CASE TakeLast(c) \/ TakeValue(c) \/ TakeStamp(c) \/ TakeSameStamp(c) \/ TakeOtherStamp(c)
  <2>1. Taken(c)
    BY <1>3 DEF TakeLast, TakeValue, TakeStamp, TakeSameStamp, TakeOtherStamp
  <2>2. slot'[c] = "idle" /\ \A d \in Client \ {c} : slot'[d] = slot[d]
    BY <2>1 DEF Taken, TypeOK
  <2>3. \A d \in Client \ {c} : pc'[d] = pc[d]
    BY <1>3 DEF TakeLast, TakeValue, TakeStamp, TakeSameStamp, TakeOtherStamp, Returns, Ask,
                Goto, TypeOK
  <2>4. UNCHANGED <<owner, doorbell>>
    BY <2>1 DEF Taken
  <2> QED BY <2>2, <2>3, <2>4, QuietAwake
<1>4. CASE GiveUp(c)
  <2>1. pc[c] = "wait" /\ UNCHANGED <<slot, owner, doorbell>>
    BY <1>4 DEF GiveUp, control
  <2>2. \A d \in Client \ {c} : pc'[d] = pc[d]
    BY <1>4 DEF GiveUp, Returns, Goto, TypeOK
  <2> QED BY <2>1, <2>2, QuietAwake
<1> QED BY <1>1, <1>2, <1>3, <1>4 DEF ClientStep

LEMMA CallAwake ==
  ASSUME TypeOK, Awake, NEW c \in Client, NEW k \in Key,
         \/ LoadHeld(c, k) \/ LoadMoved(c, k) \/ LoadMissing(c, k) \/ SaveRefused(c, k)
         \/ \E op \in INVALIDATES : CallUncached(c, op, k)
  PROVE  Awake'
<1>1. NewCall(c, k)
  BY DEF LoadHeld, LoadMoved, LoadMissing, SaveRefused, CallUncached
<1>2. pc[c] = "free" /\ UNCHANGED <<slot, owner, doorbell>>
  BY <1>1 DEF NewCall
<1>3. \A d \in Client \ {c} : pc'[d] = pc[d]
  BY DEF LoadHeld, LoadMoved, LoadMissing, SaveRefused, CallUncached, Ask, Goto, TypeOK
<1> QED BY <1>2, <1>3, QuietAwake

LEMMA OwnerAwake ==
  ASSUME TypeOK, AtSlot, Awake, OwnerStep
  PROVE  Awake'
<1>1. CASE OwnerTop
  <2>1. UNCHANGED doorbell /\ opc' # "asleep" /\ opc' # "wait"
        /\ \/ opc' = "drain" /\ UNCHANGED seen
           \/ opc' = "scan" /\ seen' = doorbell /\ at' = 1
    BY <1>1 DEF OwnerTop, control
  <2> QED BY <2>1 DEF TypeOK, Awake, NoLostWakeup
<1>2. CASE OwnerSkips
  <2>1. /\ opc = "scan" /\ at \in Client /\ slot[at] # "request" /\ at' = at + 1
        /\ UNCHANGED <<slot, doorbell, pc, opc, seen>>
    BY <1>2 DEF OwnerSkips, control, clients
  <2>2. \A c \in Client : c < at + 1 => c < at \/ c = at
    BY <2>1
  <2> QED BY <2>1, <2>2 DEF TypeOK, Awake, Heard, NoLostWakeup
<1>3. CASE OwnerServes \/ OwnerAnswers
  <2>1. /\ opc \in {"scan", "answer"} /\ opc' \in {"answer", "publish"}
        /\ UNCHANGED <<slot, doorbell, pc, at, seen>>
    BY <1>3 DEF OwnerServes, OwnerAnswers, control, clients
  <2> QED BY <2>1 DEF TypeOK, Awake, Heard, NoLostWakeup
<1>4. CASE OwnerPublishes
  <2>1. /\ opc = "publish" /\ opc' = "scan" /\ at \in Client /\ at' = at + 1
        /\ slot' = [slot EXCEPT ![at] = answer.verdict] /\ UNCHANGED <<doorbell, pc, seen>>
    BY <1>4 DEF OwnerPublishes, AtSlot, clients
  <2>2. slot'[at] # "request" /\ \A d \in Client \ {at} : slot'[d] = slot[d]
    BY <2>1 DEF TypeOK
  <2>3. \A c \in Client : c < at + 1 => c < at \/ c = at
    BY <2>1
  <2> QED BY <2>1, <2>2, <2>3 DEF TypeOK, Awake, Heard, NoLostWakeup
<1>5. CASE OwnerScanned
  <2>1. /\ opc = "scan" /\ at = Clients + 1 /\ opc' \in {"top", "drain", "wait"}
        /\ UNCHANGED <<slot, doorbell, pc, seen>>
    BY <1>5, ChannelAssumption DEF OwnerScanned, control, clients, TypeOK
  <2>2. \A c \in Client : c < at
    BY <2>1, ChannelAssumption
  <2> QED BY <2>1, <2>2 DEF TypeOK, Awake, Heard, NoLostWakeup
<1>6. CASE OwnerWaits
  <2>1. /\ opc = "wait" /\ UNCHANGED <<slot, doorbell, pc, seen>>
        /\ opc' = "top" \/ (opc' = "asleep" /\ doorbell = seen)
    BY <1>6 DEF OwnerWaits, control, clients
  <2> QED BY <2>1 DEF TypeOK, Awake, Heard, NoLostWakeup
<1>7. CASE OwnerSlice \/ OwnerDrains
  <2>1. opc' \in {"top", "gone"} /\ UNCHANGED <<doorbell, seen>>
    BY <1>7 DEF OwnerSlice, OwnerDrains, control
  <2> QED BY <2>1 DEF TypeOK, Awake, NoLostWakeup
<1> QED BY <1>1, <1>2, <1>3, <1>4, <1>5, <1>6, <1>7 DEF OwnerStep

\* The owner never sleeps on a request whose ring is past: the doorbell it compares was
\* read before it looked at any slot.
THEOREM OwnerNeverSleepsThrough == Spec => []NoLostWakeup
<1>1. Init => Awake
  BY DEF Init, Awake, NoLostWakeup
<1>2. TypeOK /\ AtSlot /\ Awake /\ [Next]_vars => Awake'
  <2> SUFFICES ASSUME TypeOK, AtSlot, Awake, [Next]_vars PROVE Awake'
    OBVIOUS
  <2>1. CASE Stop
    <3>1. opc' # "asleep" /\ (opc' = opc \/ opc' = "top") /\ UNCHANGED <<slot, doorbell, pc, seen, at>>
      BY <2>1 DEF Stop, Woken, clients
    <3> QED BY <3>1 DEF TypeOK, Awake, Heard, NoLostWakeup
  <2>2. CASE UNCHANGED vars
    BY <2>2 DEF vars, control, clients, owner, Awake, Heard, NoLostWakeup
  <2> QED BY <2>1, <2>2, ClientAwake, CallAwake, OwnerAwake DEF Next
<1>3. Awake => NoLostWakeup
  BY DEF Awake
<1> QED BY <1>1, <1>2, <1>3, Served, PTL DEF Spec

---------------------------------------------------------------------------
(* The refinement of Service.tla.                                           *)

\* The answer being published is the one in the slot, unless its thread gave up.
Copied == opc = "publish" /\ at \notin gaveUp => payload[at] = answer.message

ServiceInv == TypeOK /\ AtSlot /\ Numbers /\ AllMine /\ Copied

Refined == [Atomic!Next]_(Atomic!svars)

LEMMA InitService == Init => ServiceInv /\ Atomic!Init
<1> SUFFICES ASSUME Init PROVE ServiceInv /\ Atomic!Init
  OBVIOUS
<1>1. TypeOK /\ AtSlot /\ Numbers /\ AllMine /\ Copied
  BY InitTypeOK, InitMine DEF Init, AtSlot, Copied
<1>2. Trips = [c \in Client |-> Atomic!NoTrip]
  BY DEF Init, Trips, Trip, RoundTrip, Atomic!NoTrip
<1>3. Executed = {} /\ Len(applied) = 0
  BY DEF Init, Executed
<1> QED
  BY <1>1, <1>2, <1>3 DEF ServiceInv, Init, Atomic!Init

\* A trip does not change with what happens to the others.
LEMMA TripStill ==
  ASSUME NEW d \in Client, Still(d), UNCHANGED answer, Busy(d)' <=> Busy(d),
         d \in gaveUp' <=> d \in gaveUp,
         d \notin gaveUp /\ pc[d] # "free" => applied'[asked[d]] = applied[asked[d]]
  PROVE  Trip(d)' = Trip(d)
<1>1. CASE d \in gaveUp \/ pc[d] = "free"
  BY <1>1 DEF Trip, Still
<1>2. CASE d \notin gaveUp /\ pc[d] # "free"
  BY <1>2 DEF Trip, Still
<1> QED BY <1>1, <1>2

LEMMA AllTrips ==
  ASSUME \A d \in Client : Trip(d)' = Trip(d)
  PROVE  Trips' = Trips
  BY DEF Trips

LEMMA OneTrip ==
  ASSUME NEW c \in Client, \A d \in Client \ {c} : Trip(d)' = Trip(d)
  PROVE  Trips' = [Trips EXCEPT ![c] = Trip(c)']
  BY DEF Trips

\* A thread in a call that never gave up has a request; the trips it may be on.
LEMMA MyTrip ==
  ASSUME ServiceInv, NEW c \in Client \ gaveUp
  PROVE  /\ pc[c] # "free" => asked[c] \in 1..Len(applied) /\ (Pending(c) \/ applied[asked[c]] = 1)
         /\ slot[c] = "request" => pc[c] \in {"ring", "wait"}
         /\ slot[c] # "request" /\ pc[c] = "wait" => Trip(c).state = "answered"
         /\ pc[c] = "free" => Trip(c).state = "none"
         /\ pc[c] # "free" => Trip(c).state \in {"asked", "answered"}
         /\ Busy(c) => slot[c] = "request" /\ pc[c] \in {"ring", "wait"} /\ applied[asked[c]] = 1
<1>1. Mine(c) /\ pc[c] \in {"free", "post", "ring", "wait"}
  BY DEF ServiceInv, AllMine, TypeOK
<1>2. /\ pc[c] # "free" => asked[c] \in 1..Len(applied) /\ (Pending(c) \/ applied[asked[c]] = 1)
      /\ slot[c] = "request" => pc[c] \in {"ring", "wait"}
      /\ slot[c] # "request" /\ pc[c] = "wait" => applied[asked[c]] = 1
      /\ Busy(c) => slot[c] = "request" /\ pc[c] \in {"ring", "wait"} /\ applied[asked[c]] = 1
  BY <1>1 DEF Mine, Pending, Answered, Busy
<1>3. pc[c] # "free" /\ applied[asked[c]] = 1 => Trip(c).state = "answered"
  BY DEF Trip, Done, RoundTrip
<1>4. pc[c] = "free" => Trip(c).state = "none"
  BY DEF Trip, RoundTrip
<1>5. pc[c] # "free" /\ applied[asked[c]] = 0 => Trip(c).state = "asked"
  BY DEF Trip, RoundTrip
<1> QED BY <1>2, <1>3, <1>4, <1>5 DEF Pending

---------------------------------------------------------------------------
(* The steps of a thread.                                                   *)

\* What a thread may do: ask, take its answer and return, give up, or move on.
Asks(c, op, k) ==
  /\ \E why : Ask(c, op, k, why)
  /\ pc[c] = "free" \/ (pc[c] = "wait" /\ slot[c] # "request")
  /\ UNCHANGED gaveUp
Ends(c) ==
  /\ pc[c] = "wait" /\ slot[c] # "request" /\ pc'[c] = "free"
  /\ UNCHANGED <<payload, applied, gaveUp>>
Leaves(c) ==
  /\ pc[c] = "wait" /\ slot[c] = "request" /\ c \notin gaveUp
  /\ gaveUp' = gaveUp \cup {c}
  /\ UNCHANGED <<payload, applied>>
Moves(c) ==
  /\ UNCHANGED <<payload, applied, gaveUp, asked>>
  /\ pc'[c] = "free" <=> pc[c] = "free"
  /\ slot'[c] = slot[c] \/ pc[c] = "post"

LEMMA ThreadActs ==
  ASSUME TypeOK, NEW c \in Client,
         \/ ClientStep(c) \/ GiveUp(c)
         \/ \E k \in Key :
              \/ LoadHeld(c, k) \/ LoadMoved(c, k) \/ LoadMissing(c, k) \/ SaveRefused(c, k)
              \/ \E op \in INVALIDATES : CallUncached(c, op, k)
  PROVE  /\ OwnerKept /\ UNCHANGED store /\ \A d \in Client \ {c} : Still(d)
         /\ \/ \E op \in Op, k \in Key : Asks(c, op, k)
            \/ Ends(c) \/ Leaves(c) \/ Moves(c)
<1> DEFINE Goal == /\ OwnerKept /\ UNCHANGED store /\ \A d \in Client \ {c} : Still(d)
                   /\ \/ \E op \in Op, k \in Key : Asks(c, op, k)
                      \/ Ends(c) \/ Leaves(c) \/ Moves(c)
<1>1. ASSUME NEW op \in Op, NEW k \in Key, NEW why, Ask(c, op, k, why),
             UNCHANGED <<owner, store, gaveUp>>,
             (pc[c] = "free" /\ UNCHANGED slot) \/ (pc[c] = "wait" /\ slot[c] # "request" /\ slot' = [slot EXCEPT ![c] = "idle"])
      PROVE  Goal
  <2>1. \A d \in Client \ {c} : Still(d)
    BY <1>1, AskFacts DEF Still, TypeOK
  <2>2. Asks(c, op, k)
    BY <1>1 DEF Asks
  <2> QED BY <1>1, <2>1, <2>2 DEF owner, OwnerKept
<1>2. ASSUME NEW k \in Key, LoadMoved(c, k) \/ LoadMissing(c, k) PROVE Goal
  <2>1. pc[c] = "free" /\ UNCHANGED <<owner, store, gaveUp, slot>>
    BY <1>2 DEF LoadMoved, LoadMissing, NewCall
  <2>2. Ask(c, "stampOf", k, "revalidate") \/ Ask(c, "loadState", k, "value")
    BY <1>2 DEF LoadMoved, LoadMissing
  <2>3. "stampOf" \in Op /\ "loadState" \in Op
    BY DEF Op
  <2> QED BY <1>1, <2>1, <2>2, <2>3
<1>3. ASSUME NEW k \in Key, NEW op \in INVALIDATES, CallUncached(c, op, k) PROVE Goal
  <2>1. pc[c] = "free" /\ UNCHANGED <<owner, store, gaveUp, slot>> /\ Ask(c, op, k, "plain")
    BY <1>3 DEF CallUncached, NewCall
  <2>2. op \in Op
    BY DEF Op, INVALIDATES
  <2> QED BY <1>1, <2>1, <2>2
<1>4. ASSUME TakeValue(c) \/ TakeOtherStamp(c) PROVE Goal
  <2>1. /\ pc[c] = "wait" /\ slot[c] # "request" /\ slot' = [slot EXCEPT ![c] = "idle"]
        /\ UNCHANGED <<owner, store, gaveUp>>
    BY <1>4 DEF TakeValue, TakeOtherStamp, Taken
  <2>2. Ask(c, "stampOf", key[c], "stamp") \/ Ask(c, "loadState", key[c], "value")
    BY <1>4 DEF TakeValue, TakeOtherStamp
  <2>3. "stampOf" \in Op /\ "loadState" \in Op /\ key[c] \in Key
    BY DEF Op, TypeOK
  <2> QED BY <1>1, <2>1, <2>2, <2>3
<1>5. ASSUME TakeLast(c) \/ TakeStamp(c) \/ TakeSameStamp(c) PROVE Goal
  <2>1. Taken(c) /\ Returns(c) /\ UNCHANGED <<payload, applied>>
    BY <1>5 DEF TakeLast, TakeStamp, TakeSameStamp
  <2>2. \A d \in Client \ {c} : Still(d)
    BY <2>1 DEF Taken, Returns, Goto, Still, TypeOK
  <2>3. Ends(c)
    BY <2>1 DEF Taken, Returns, Goto, Ends, TypeOK
  <2> QED BY <2>1, <2>2, <2>3 DEF Taken, owner, OwnerKept
<1>6. ASSUME GiveUp(c) PROVE Goal
  <2>1. Leaves(c) /\ Returns(c) /\ UNCHANGED <<control, owner, store>>
    BY <1>6 DEF GiveUp, Leaves, control
  <2>2. \A d \in Client \ {c} : Still(d)
    BY <2>1 DEF Returns, Goto, Still, control, TypeOK
  <2> QED BY <2>1, <2>2 DEF owner, OwnerKept
<1>7. ASSUME Post(c) PROVE Goal
  <2>1. Moves(c) /\ \A d \in Client \ {c} : Still(d)
    BY <1>7 DEF Post, Goto, Moves, Still, TypeOK, ghosts
  <2> QED BY <1>7, <2>1 DEF Post, owner, OwnerKept
<1>8. ASSUME Ring(c) PROVE Goal
  <2>1. Moves(c) /\ \A d \in Client \ {c} : Still(d)
    BY <1>8 DEF Ring, Goto, Moves, Still, TypeOK, ghosts
  <2> QED BY <1>8, <2>1 DEF Ring, Woken, OwnerKept
<1>9. ASSUME NEW k \in Key, LoadHeld(c, k) \/ SaveRefused(c, k) PROVE Goal
  <2>1. UNCHANGED <<owner, store, gaveUp, slot, payload, pc, asked, applied>>
    BY <1>9 DEF LoadHeld, SaveRefused, NewCall
  <2>2. Moves(c) /\ \A d \in Client \ {c} : Still(d)
    BY <2>1 DEF Moves, Still
  <2> QED BY <2>1, <2>2 DEF owner, OwnerKept
<1> HIDE DEF Goal
<1>10. Goal
  BY <1>2, <1>3, <1>4, <1>5, <1>6, <1>7, <1>8, <1>9 DEF ClientStep
<1> QED BY <1>10 DEF Goal

LEMMA AsksRefines ==
  ASSUME ServiceInv, NEW c \in Client, NEW op \in Op, NEW k \in Key, Asks(c, op, k),
         OwnerKept, UNCHANGED store, \A d \in Client \ {c} : Still(d)
  PROVE  Refined /\ Copied'
<1>1. PICK why : Ask(c, op, k, why)
  BY DEF Asks
<1>2. /\ asked'[c] = Len(applied) + 1 /\ pc'[c] = "post"
      /\ Len(applied) \in Nat /\ Len(applied') = Len(applied) + 1
      /\ applied'[Len(applied) + 1] = 0 /\ AppliedKept
  BY <1>1, AskFacts DEF ServiceInv
<1>3. payload' = [payload EXCEPT ![c] = Asking(Len(applied) + 1, op, k)]
  BY <1>1 DEF Ask
<1>4. payload'[c].op = op /\ payload'[c].key = k
  BY <1>3 DEF ServiceInv, TypeOK, Asking
<1>5. UNCHANGED <<answer, gaveUp, store>> /\ \A d \in Client : Busy(d)' <=> Busy(d)
  BY DEF OwnerKept, Asks, Busy
<1>6. ASSUME NEW d \in Client \ {c} PROVE Trip(d)' = Trip(d)
  <2>1. d \notin gaveUp /\ pc[d] # "free" => applied'[asked[d]] = applied[asked[d]]
    BY <1>2, MyTrip DEF AppliedKept
  <2> QED BY <1>5, <2>1, TripStill
<1>7. Executed' = Executed
  <2>1. DOMAIN applied = 1..Len(applied) /\ DOMAIN applied' = 1..Len(applied')
    BY <1>1 DEF ServiceInv, TypeOK, Ask
  <2> QED BY <1>2, <2>1 DEF Executed, AppliedKept
<1>8. ASSUME c \in gaveUp PROVE Refined
  <2>1. Trip(c)' = Trip(c)
    BY <1>5, <1>8 DEF Trip
  <2>2. Trips' = Trips
    BY <1>6, <2>1, AllTrips
  <2>3. Atomic!AskLate
    BY <1>2, <1>5, <1>7, <1>8, <2>2 DEF Atomic!AskLate, Atomic!content, store
  <2> QED BY <2>3 DEF Refined, Atomic!Next
<1>9. ASSUME c \notin gaveUp PROVE Refined
  <2>1. Trip(c)' = Atomic!Asked(Len(applied) + 1, op, k)
    BY <1>2, <1>4, <1>5, <1>9 DEF Trip, RoundTrip, Atomic!Asked
  <2>2. Trips' = [Trips EXCEPT ![c] = Atomic!Asked(Len(applied) + 1, op, k)]
    BY <1>6, <2>1, OneTrip
  <2>3. Trips[c].state # "asked"
    BY <1>9, MyTrip DEF Asks, Trips
  <2>4. Atomic!Ask(c, op, k)
    BY <1>2, <1>5, <1>7, <1>9, <2>2, <2>3 DEF Atomic!Ask, Atomic!content, store
  <2> QED BY <2>4 DEF Refined, Atomic!Next
<1>10. Copied'
  <2> SUFFICES ASSUME opc' = "publish", at' \notin gaveUp' PROVE payload'[at'] = answer'.message
    BY DEF Copied
  <2>1. opc = "publish" /\ at' = at /\ at \notin gaveUp /\ UNCHANGED answer /\ at \in Client
    BY <1>5 DEF OwnerKept, ServiceInv, AtSlot
  <2>2. Busy(at)
    BY <2>1 DEF Busy
  <2>3. at # c
    BY <2>1, <2>2, MyTrip DEF Asks
  <2> QED BY <2>1, <2>3 DEF Still, ServiceInv, Copied
<1> QED BY <1>8, <1>9, <1>10

\* The steps that write no request.
LEMMA QuietRefines ==
  ASSUME ServiceInv, NEW c \in Client, Ends(c) \/ Leaves(c) \/ Moves(c),
         OwnerKept, UNCHANGED store, \A d \in Client \ {c} : Still(d)
  PROVE  Refined /\ Copied'
<1>1. UNCHANGED <<payload, applied, store, answer>> /\ \A d \in Client : Busy(d)' <=> Busy(d)
  BY DEF OwnerKept, Busy, Ends, Leaves, Moves
<1>2. gaveUp' = gaveUp \/ gaveUp' = gaveUp \cup {c}
  BY DEF Ends, Leaves, Moves
<1>3. ASSUME NEW d \in Client \ {c} PROVE Trip(d)' = Trip(d)
  BY <1>1, <1>2, TripStill
<1>4. Executed' = Executed
  BY <1>1 DEF Executed
<1>5. Copied'
  BY <1>1, <1>2 DEF Copied, OwnerKept, ServiceInv
<1>6. ASSUME Trip(c)' = Trip(c), UNCHANGED gaveUp PROVE Refined
  <2>1. Trips' = Trips
    BY <1>3, <1>6, AllTrips
  <2> QED BY <1>1, <1>4, <1>6, <2>1 DEF Refined, Atomic!svars, Atomic!content, store
<1>7. CASE c \in gaveUp
  <2>1. gaveUp' = gaveUp
    BY <1>2, <1>7
  <2>2. Trip(c)' = Trip(c)
    BY <1>7, <2>1 DEF Trip
  <2> QED BY <1>5, <1>6, <2>1, <2>2
<1>8. CASE c \notin gaveUp /\ Ends(c)
  <2>1. Trip(c)' = Atomic!NoTrip
    BY <1>8 DEF Ends, Trip, RoundTrip, Atomic!NoTrip
  <2>2. Trips' = [Trips EXCEPT ![c] = Atomic!NoTrip]
    BY <1>3, <2>1, OneTrip
  <2>3. Trips[c].state = "answered"
    BY <1>8, MyTrip DEF Ends, Trips
  <2>4. Atomic!Take(c)
    BY <1>1, <1>4, <1>8, <2>2, <2>3 DEF Atomic!Take, Atomic!content, store, Ends
  <2> QED BY <1>5, <2>4 DEF Refined, Atomic!Next
<1>9. CASE c \notin gaveUp /\ Leaves(c)
  <2>1. Trip(c)' = Atomic!NoTrip
    BY <1>9 DEF Leaves, Trip, RoundTrip, Atomic!NoTrip
  <2>2. Trips' = [Trips EXCEPT ![c] = Atomic!NoTrip]
    BY <1>3, <2>1, OneTrip
  <2>3. Trips[c].state # "none"
    BY <1>9, MyTrip DEF Leaves, Trips
  <2>4. Atomic!GiveUp(c)
    BY <1>1, <1>4, <1>9, <2>2, <2>3 DEF Atomic!GiveUp, Atomic!content, store, Leaves
  <2> QED BY <1>5, <2>4 DEF Refined, Atomic!Next
<1>10. CASE c \notin gaveUp /\ Moves(c)
  <2>1. UNCHANGED <<payload, applied, gaveUp, asked>> /\ (pc'[c] = "free" <=> pc[c] = "free")
    BY <1>10 DEF Moves
  <2>2. CASE slot'[c] = slot[c]
    <3>1. Trip(c)' = Trip(c)
      BY <1>1, <2>1, <2>2 DEF Trip
    <3> QED BY <1>5, <1>6, <2>1, <3>1
  <2>3. CASE pc[c] = "post"
    <3>1. Pending(c)
      BY <1>10, <2>3 DEF ServiceInv, AllMine, Mine
    <3>2. Trip(c)' = Trip(c)
      BY <2>1, <2>3, <3>1 DEF Trip, Pending
    <3> QED BY <1>5, <1>6, <2>1, <3>2
  <2> QED BY <1>10, <2>2, <2>3 DEF Moves
<1> QED BY <1>5, <1>7, <1>8, <1>9, <1>10

---------------------------------------------------------------------------
(* The steps of the owner.                                                  *)

\* What Executes does is what the service does, and what it says is the answer.
LEMMA ExecutesRefines ==
  ASSUME ServiceInv, NEW n \in Nat, NEW op \in Op, NEW k \in Key, Executes(n, op, k)
  PROVE  LET a == Told(answer'.verdict, answer'.message.value) IN
         \/ Atomic!Write(n, op, k) /\ a = Told("response", Undefined)
         \/ /\ op = "loadState" /\ UNCHANGED store
            /\ a = Told(IF value[k] \in Oversized THEN "failure" ELSE "response", value[k])
         \/ op = "stampOf" /\ UNCHANGED store /\ a = Told("response", stamps[k])
<1>1. ASSUME NEW v, NEW verdict, NEW i, Says(n, v, verdict, i)
      PROVE  answer'.verdict = verdict /\ answer'.message.value = v
  BY <1>1 DEF Says, Saying
<1>2. CASE op = "loadState"
  <2>1. Says(n, value[k], IF value[k] \in Oversized THEN "failure" ELSE "response", FALSE) /\ UNCHANGED store
    BY <1>2 DEF Executes
  <2> QED BY <1>1, <1>2, <2>1
<1>3. CASE op = "stampOf"
  <2>1. Says(n, stamps[k], "response", FALSE) /\ UNCHANGED store
    BY <1>3 DEF Executes, stampOf
  <2> QED BY <1>1, <1>3, <2>1
<1>4. CASE op \in {"saveState", "purge"}
  <2>1. Says(n, Undefined, "response", TRUE) /\ Atomic!Write(n, op, k)
    BY <1>4 DEF Executes, Atomic!Write
  <2> QED BY <1>1, <2>1
<1> QED BY <1>2, <1>3, <1>4 DEF Op

LEMMA ServesRefines ==
  ASSUME ServiceInv, OwnerServes, NEW w \in Client, w = at
  PROVE  Refined /\ Copied'
<1> DEFINE m == payload[w]
<1>1. /\ opc = "scan" /\ opc' = "answer" /\ at \in Client /\ slot[w] = "request"
      /\ UNCHANGED <<slot, payload, pc, asked, at, gaveUp>>
  BY DEF OwnerServes, control, clients
<1>2. /\ m.kind \in {"request", "answer"} /\ m.id \in Nat
      /\ m.kind = "request" => m.op \in Op /\ m.key \in Key
  BY <1>1, MessageParts DEF ServiceInv, TypeOK
<1>3. Copied'
  BY <1>1 DEF Copied
<1>4. applied \in Seq(Nat) /\ Len(applied) \in Nat /\ DOMAIN applied = 1..Len(applied)
  BY DEF ServiceInv, TypeOK
<1>5. \A d \in Client : ~Busy(d) /\ (Busy(d)' <=> d = w)
  BY <1>1 DEF Busy
<1>6. w \notin gaveUp => Pending(w) /\ pc[w] # "free"
  <2> SUFFICES ASSUME w \notin gaveUp PROVE Pending(w) /\ pc[w] # "free"
    OBVIOUS
  <2>1. Mine(w) /\ pc[w] \in {"free", "post", "ring", "wait"}
    BY <1>1 DEF ServiceInv, AllMine, TypeOK
  <2> QED BY <1>1, <2>1 DEF Mine
<1>7. ASSUME NEW d \in Client \ {w},
             d \notin gaveUp /\ pc[d] # "free" => applied'[asked[d]] = applied[asked[d]]
      PROVE  Trip(d)' = Trip(d)
  <2>1. CASE d \in gaveUp \/ pc[d] = "free"
    BY <1>1, <2>1 DEF Trip
  <2>2. CASE d \notin gaveUp /\ pc[d] # "free"
    <3>1. ~Busy(d) /\ ~Busy(d)'
      BY <1>5, <1>7
    <3> QED BY <1>1, <1>7, <2>2, <3>1 DEF Trip
  <2> QED BY <2>1, <2>2
<1>8. CASE m.kind = "answer"
  <2>1. UNCHANGED <<store, applied>>
    BY <1>8 DEF OwnerServes
  <2>2. w \in gaveUp
    BY <1>6, <1>8 DEF Pending
  <2>3. Trip(w)' = Trip(w)
    BY <1>1, <2>2 DEF Trip
  <2>4. Trips' = Trips /\ Executed' = Executed
    BY <1>7, <2>1, <2>3, AllTrips DEF Executed
  <2> QED BY <1>1, <1>3, <2>1, <2>4 DEF Refined, Atomic!svars, Atomic!content, store
<1>9. CASE m.kind = "request"
  <2>1. applied' = [applied EXCEPT ![m.id] = @ + 1] /\ Executes(m.id, m.op, m.key)
    BY <1>9 DEF OwnerServes
  <2>2. m.id \in 1..Len(applied) /\ applied[m.id] = 0
    BY <1>1, <1>9 DEF ServiceInv, Numbers, IdsKnown, ExecutedOnce
  <2>3. /\ applied' \in Seq(Nat) /\ Len(applied') = Len(applied)
        /\ \A n \in 1..Len(applied) :
             applied'[n] = IF n = m.id THEN applied[n] + 1 ELSE applied[n]
    <3> HIDE DEF m
    <3> QED BY <1>2, <1>4, <2>1, CountTypes
  <2>4. Executed' = Executed \cup {m.id} /\ m.id \notin Executed
    <3>1. DOMAIN applied' = 1..Len(applied)
      BY <2>3
    <3> HIDE DEF m
    <3>2. \A n \in 1..Len(applied) : applied[n] \in Nat
      BY <1>4
    <3> QED BY <1>4, <2>2, <2>3, <3>1, <3>2 DEF Executed
  <2>5. ASSUME NEW d \in Client \ {w}, d \notin gaveUp, pc[d] # "free"
        PROVE  /\ applied'[asked[d]] = applied[asked[d]]
               /\ Trip(d).state = "asked" => Trip(d).id # m.id
    <3>1. asked[d] \in 1..Len(applied) /\ (Pending(d) \/ applied[asked[d]] = 1)
      BY <2>5, MyTrip
    <3>2. asked[d] # m.id
      <4>1. CASE Pending(d)
        BY <1>1, <1>9, <2>5, <4>1 DEF Pending, ServiceInv, Numbers, IdsDiffer
      <4>2. CASE applied[asked[d]] = 1
        BY <2>2, <4>2
      <4> QED BY <3>1, <4>1, <4>2
    <3>3. Trip(d).state = "asked" => Trip(d).id = asked[d]
      BY <2>5 DEF Trip, Done, RoundTrip
    <3> QED BY <2>3, <3>1, <3>2, <3>3
  <2>6. \A d \in Client \ {w} : Trip(d)' = Trip(d)
    BY <1>7, <2>5
  <2>7. LET a == Told(answer'.verdict, answer'.message.value) IN
          \/ Atomic!Write(m.id, m.op, m.key) /\ a = Told("response", Undefined)
          \/ /\ m.op = "loadState" /\ UNCHANGED store
             /\ a = Told(IF value[m.key] \in Oversized THEN "failure" ELSE "response", value[m.key])
          \/ m.op = "stampOf" /\ UNCHANGED store /\ a = Told("response", stamps[m.key])
    <3> HIDE DEF m
    <3> QED BY <1>2, <1>9, <2>1, ExecutesRefines
  <2>8. CASE w \in gaveUp
    <3>1. Trip(w)' = Trip(w)
      BY <1>1, <2>8 DEF Trip
    <3>2. Trips' = Trips
      BY <2>6, <3>1, AllTrips
    <3>3. \A c \in Client : Trips[c].state = "asked" => Trips[c].id # m.id
      <4> SUFFICES ASSUME NEW c \in Client, Trip(c).state = "asked" PROVE Trip(c).id # m.id
        BY DEF Trips
      <4>1. c \notin gaveUp /\ pc[c] # "free"
        BY DEF Trip, RoundTrip
      <4> QED BY <2>5, <2>8, <4>1
    <3>4. UNCHANGED Atomic!content \/ \E op \in Op, k \in Key : Atomic!Write(m.id, op, k)
      BY <1>2, <1>9, <2>7 DEF store, Atomic!content
    <3>5. Atomic!TakesEffect(m.id)
      BY <1>1, <2>3, <2>4 DEF Atomic!TakesEffect
    <3>6. Atomic!ServeLate(m.id)
      <4> HIDE DEF m
      <4> QED BY <2>8, <3>2, <3>3, <3>4, <3>5 DEF Atomic!ServeLate
    <3> QED BY <1>3, <2>2, <3>6 DEF Refined, Atomic!Next
  <2>9. CASE w \notin gaveUp
    <3>1. Pending(w) /\ pc[w] # "free" /\ m.id = asked[w]
      BY <1>6, <2>9 DEF Pending
    <3>2. Trip(w) = Atomic!Asked(m.id, m.op, m.key)
      BY <2>9, <3>1 DEF Trip, RoundTrip, Atomic!Asked, Pending
    <3>3. Trip(w)' = Done(Told(answer'.verdict, answer'.message.value))
      <4>1. applied'[asked'[w]] = 1 /\ Busy(w)' /\ at' = at /\ pc'[w] # "free" /\ w \notin gaveUp'
        BY <1>1, <1>5, <2>2, <2>3, <2>9, <3>1
      <4> QED BY <4>1 DEF Trip, Done, RoundTrip
    <3>4. Trips' = [Trips EXCEPT ![w] = Done(Told(answer'.verdict, answer'.message.value))]
      BY <1>1, <2>6, <3>3, OneTrip
    <3>5. \A verdict, v : Done(Told(verdict, v)) = Atomic!Answered(verdict, v)
      BY DEF Done, Told, RoundTrip, Atomic!Answered
    <3>6. /\ Trips[w].state = "asked" /\ Trips[w].id = m.id
          /\ Trips[w].op = m.op /\ Trips[w].key = m.key
      BY <1>1, <3>2 DEF Trips, Atomic!Asked
    <3>7. Atomic!TakesEffect(m.id)
      BY <1>1, <2>3, <2>4 DEF Atomic!TakesEffect
    <3> HIDE DEF m
    <3>8. \/ /\ Atomic!Write(m.id, m.op, m.key)
             /\ Trips' = [Trips EXCEPT ![w] = Atomic!Answered("response", Undefined)]
          \/ /\ m.op = "loadState" /\ UNCHANGED store
             /\ Trips' = [Trips EXCEPT ![w] =
                  Atomic!Answered(IF value[m.key] \in Oversized THEN "failure" ELSE "response", value[m.key])]
          \/ /\ m.op = "stampOf" /\ UNCHANGED store
             /\ Trips' = [Trips EXCEPT ![w] = Atomic!Answered("response", stamps[m.key])]
      <4>1. CASE Atomic!Write(m.id, m.op, m.key) /\ Told(answer'.verdict, answer'.message.value) = Told("response", Undefined)
        <5>1. Trips' = [Trips EXCEPT ![w] = Done(Told("response", Undefined))]
          BY <3>4, <4>1
        <5> QED BY <3>5, <4>1, <5>1
      <4>2. CASE /\ m.op = "loadState" /\ UNCHANGED store
                 /\ Told(answer'.verdict, answer'.message.value)
                      = Told(IF value[m.key] \in Oversized THEN "failure" ELSE "response", value[m.key])
        <5>1. Trips' = [Trips EXCEPT ![w] =
                Done(Told(IF value[m.key] \in Oversized THEN "failure" ELSE "response", value[m.key]))]
          BY <3>4, <4>2
        <5> QED BY <3>5, <4>2, <5>1
      <4>3. CASE /\ m.op = "stampOf" /\ UNCHANGED store
                 /\ Told(answer'.verdict, answer'.message.value) = Told("response", stamps[m.key])
        <5>1. Trips' = [Trips EXCEPT ![w] = Done(Told("response", stamps[m.key]))]
          BY <3>4, <4>3
        <5> QED BY <3>5, <4>3, <5>1
      <4> QED BY <2>7, <4>1, <4>2, <4>3
    <3>9. Atomic!Serve(w)
      BY <3>6, <3>7, <3>8 DEF Atomic!Serve, Atomic!content, store
    <3> QED BY <1>1, <1>3, <3>9 DEF Refined, Atomic!Next
  <2> QED BY <2>8, <2>9
<1> QED BY <1>2, <1>8, <1>9

LEMMA AnswersRefines ==
  ASSUME ServiceInv, OwnerAnswers \/ OwnerPublishes, NEW w \in Client, w = at
  PROVE  Refined /\ Copied'
<1>1. /\ at \in Client /\ opc \in {"answer", "publish"}
      /\ UNCHANGED <<pc, asked, applied, gaveUp, store>>
  BY DEF OwnerAnswers, OwnerPublishes, ServiceInv, AtSlot, clients, ghosts
<1>2. Copied'
  <2>1. CASE OwnerAnswers
    BY <1>1, <2>1 DEF OwnerAnswers, Copied, ServiceInv, TypeOK
  <2>2. CASE OwnerPublishes
    BY <2>2 DEF OwnerPublishes, Copied
  <2> QED BY <2>1, <2>2
<1>3. ASSUME NEW d \in Client \ {w} PROVE Trip(d)' = Trip(d)
  <2>1. slot'[d] = slot[d] /\ payload'[d] = payload[d] /\ ~Busy(d)
    BY <1>3 DEF OwnerAnswers, OwnerPublishes, Busy, ServiceInv, TypeOK
  <2>2. ~Busy(d)'
    BY <1>3 DEF OwnerAnswers, OwnerPublishes, Busy
  <2> QED BY <1>1, <2>1, <2>2 DEF Trip
<1>4. Trip(w)' = Trip(w)
  <2>1. CASE w \in gaveUp
    BY <1>1, <2>1 DEF Trip, OwnerAnswers, OwnerPublishes
  <2>2. CASE w \notin gaveUp
    <3>1. Busy(w) /\ applied[asked[w]] = 1 /\ pc[w] # "free"
      BY <1>1, <2>2, MyTrip DEF Busy
    <3>2. Trip(w) = Done(Told(answer.verdict, answer.message.value))
      BY <2>2, <3>1 DEF Trip
    <3>3. CASE OwnerAnswers
      <4>1. opc' = "publish" /\ UNCHANGED <<at, answer>>
        BY <3>3 DEF OwnerAnswers
      <4> QED BY <1>1, <2>2, <3>1, <3>2, <4>1 DEF Trip, Busy
    <3>4. CASE OwnerPublishes
      <4>1. /\ opc = "publish" /\ opc' = "scan" /\ UNCHANGED payload
            /\ slot' = [slot EXCEPT ![at] = answer.verdict]
        BY <3>4 DEF OwnerPublishes
      <4>2. slot'[w] = answer.verdict /\ payload'[w] = answer.message
        BY <1>1, <2>2, <4>1 DEF ServiceInv, TypeOK, Copied
      <4> QED BY <1>1, <2>2, <3>1, <3>2, <4>1, <4>2 DEF Trip, Busy
    <3> QED BY <3>3, <3>4
  <2> QED BY <2>1, <2>2
<1>5. Trips' = Trips /\ Executed' = Executed
  BY <1>1, <1>3, <1>4, AllTrips DEF Executed
<1> QED BY <1>1, <1>2, <1>5 DEF Refined, Atomic!svars, Atomic!content, store

\* The other steps of the owner, and the stop.
LEMMA ElsewhereRefines ==
  ASSUME ServiceInv, opc \notin {"answer", "publish"}, opc' \notin {"answer", "publish"},
         UNCHANGED <<slot, payload, pc, asked, applied, gaveUp, store>>
  PROVE  Refined /\ Copied'
<1>1. \A d \in Client : Trip(d)' = Trip(d)
  BY DEF Trip, Busy
<1>2. Trips' = Trips /\ Executed' = Executed
  BY <1>1, AllTrips DEF Executed
<1> QED BY <1>2 DEF Refined, Copied, Atomic!svars, Atomic!content, store

LEMMA ServiceStep == ServiceInv /\ [Next]_vars => ServiceInv' /\ Refined
<1> SUFFICES ASSUME ServiceInv, [Next]_vars PROVE ServiceInv' /\ Refined
  OBVIOUS
<1>1. TypeOK' /\ AtSlot' /\ Numbers' /\ AllMine'
  BY TypeOKStep, AtSlotStep, MineStep DEF ServiceInv
<1>2. ASSUME NEW c \in Client,
             \/ ClientStep(c) \/ GiveUp(c)
             \/ \E k \in Key :
                  \/ LoadHeld(c, k) \/ LoadMoved(c, k) \/ LoadMissing(c, k) \/ SaveRefused(c, k)
                  \/ \E op \in INVALIDATES : CallUncached(c, op, k)
      PROVE  Refined /\ Copied'
  <2>1. /\ OwnerKept /\ UNCHANGED store /\ \A d \in Client \ {c} : Still(d)
        /\ \/ \E op \in Op, k \in Key : Asks(c, op, k)
           \/ Ends(c) \/ Leaves(c) \/ Moves(c)
    BY <1>2, ThreadActs DEF ServiceInv
  <2> QED BY <2>1, AsksRefines, QuietRefines
<1>3. ASSUME OwnerTop \/ OwnerSkips \/ OwnerScanned \/ OwnerWaits \/ OwnerSlice \/ OwnerDrains
      PROVE  Refined /\ Copied'
  <2>1. opc \notin {"answer", "publish"} /\ opc' \notin {"answer", "publish"}
    BY <1>3 DEF OwnerTop, OwnerSkips, OwnerScanned, OwnerWaits, OwnerSlice, OwnerDrains
  <2>2. UNCHANGED <<slot, payload, pc, asked, applied, gaveUp, store>>
    BY <1>3 DEF OwnerTop, OwnerSkips, OwnerScanned, OwnerWaits, OwnerSlice, OwnerDrains,
                control, clients, ghosts
  <2> QED BY <2>1, <2>2, ElsewhereRefines
<1>4. ASSUME OwnerServes
      PROVE  Refined /\ Copied'
  <2>1. PICK w \in Client : w = at
    BY <1>4 DEF OwnerServes
  <2> QED BY <1>4, <2>1, ServesRefines
<1>5. ASSUME OwnerAnswers \/ OwnerPublishes
      PROVE  Refined /\ Copied'
  <2>1. PICK w \in Client : w = at
    BY <1>5 DEF OwnerAnswers, OwnerPublishes, ServiceInv, AtSlot
  <2> QED BY <1>5, <2>1, AnswersRefines
<1>6. ASSUME UNCHANGED <<slot, payload, pc, asked, applied, gaveUp, store, at, answer>>,
             \A d \in Client : Busy(d)' <=> Busy(d), opc' = "publish" => opc = "publish"
      PROVE  Refined /\ Copied'
  <2>1. \A d \in Client : Trip(d)' = Trip(d)
    BY <1>6, TripStill DEF Still
  <2>2. Trips' = Trips /\ Executed' = Executed
    BY <1>6, <2>1, AllTrips DEF Executed
  <2> QED BY <1>6, <2>2 DEF Refined, Copied, ServiceInv, Atomic!svars, Atomic!content, store
<1>7. ASSUME Stop
      PROVE  Refined /\ Copied'
  <2>1. UNCHANGED <<slot, payload, pc, asked, applied, gaveUp, store, at, answer>>
    BY <1>7 DEF Stop, clients, ghosts
  <2>2. opc' = opc \/ (opc = "asleep" /\ opc' = "top")
    BY <1>7 DEF Stop, Woken
  <2> QED BY <1>6, <2>1, <2>2 DEF Busy
<1>8. ASSUME UNCHANGED vars
      PROVE  Refined /\ Copied'
  BY <1>6, <1>8 DEF vars, control, clients, owner, ghosts, Busy
<1>9. Refined /\ Copied'
  BY <1>2, <1>3, <1>4, <1>5, <1>7, <1>8 DEF Next, OwnerStep
<1> QED BY <1>1, <1>9 DEF ServiceInv

\* The channel implements Service.tla: a round trip of a thread that never gave up takes
\* effect once, between its question and its answer, and is answered with what the store
\* held then; a request of the others takes effect once at most (owner-client.js request,
\* state-owner-thread.js serve).
THEOREM ChannelIsAtomic == Spec => CallsAreAtomic
<1>1. Init => ServiceInv /\ Atomic!Init
  BY InitService
<1>2. ServiceInv /\ [Next]_vars => ServiceInv' /\ [Atomic!Next]_(Atomic!svars)
  BY ServiceStep DEF Refined
<1> QED
  BY <1>1, <1>2, PTL DEF Spec, CallsAreAtomic, Atomic!Spec

=============================================================================
