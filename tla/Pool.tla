-------------------------------- MODULE Pool --------------------------------
(***************************************************************************)
(* Delivery.tla when the daemon serves with threads (hooks/server-thread.js*)
(* under `http.workers`).  The handler is the same code, but its tables    *)
(* and its store are calls to the owner thread, so a frame is no longer    *)
(* one step: its index, the question whether its invocation was harvested, *)
(* the note of its arrival, the list of what is owed and each mark of a    *)
(* harvest are round trips, between which the other threads make theirs.   *)
(* Only the decision and the replay are under the lock of the scope.       *)
(*                                                                         *)
(* One request at a time per thread: the handler blocks.  Any thread may   *)
(* take any frame; the wiring spreads the frames of a call over the        *)
(* sockets of the threads, and which of them connect is not known.         *)
(***************************************************************************)
EXTENDS Delivery

CONSTANT Thread

VARIABLES
  at,        \* what each thread does
  call, index,   \* the invocation it serves and the index it was given
  owed,      \* what it still has to look at: <<invocation, frames served>>
  carry,     \* the segments it took over so far
  crossed    \* ghost: an invocation was harvested while a thread served it

threads == <<at, call, index, owed, carry>>
poolVars == <<vars, threads, crossed>>

Step == {"idle", "indexed", "asked", "observed", "inside", "harvesting"}

PoolInit ==
  /\ Init
  /\ at = [t \in Thread |-> "idle"]
  /\ call \in [Thread -> Inv] /\ index = [t \in Thread |-> 1]
  /\ owed = [t \in Thread |-> {}] /\ carry = [t \in Thread |-> <<>>]
  /\ crossed = FALSE

Goto(t, from, to) == at[t] = from /\ at' = [at EXCEPT ![t] = to]

\* tables.nextIndex.
Take(t, i) ==
  /\ Goto(t, "idle", "indexed")
  /\ Arrive(i)
  /\ call' = [call EXCEPT ![t] = i]
  /\ index' = [index EXCEPT ![t] = Index(i)]
  /\ UNCHANGED <<seen, queue, planned, plan, served, harvested, ghosts, timeouts, purges,
                 owed, carry, crossed>>

\* Mutant of Ask: the question is not asked.
AskNothing(t) ==
  /\ Goto(t, "indexed", "asked")
  /\ UNCHANGED <<vars, call, index, owed, carry, crossed>>

\* tables.isHarvested: a harvested invocation gets an empty answer.
Ask(t) ==
  /\ Goto(t, "indexed", IF call[t] \in harvested THEN "idle" ELSE "asked")
  /\ UNCHANGED <<vars, call, index, owed, carry, crossed>>

\* tables.observe.
Note(t) ==
  /\ Goto(t, "asked", "observed")
  /\ served' = [served EXCEPT ![call[t]] = IF index[t] > @ THEN index[t] ELSE @]
  /\ UNCHANGED <<seen, queue, planned, plan, arrived, sequencer, harvested, ghosts,
                 timeouts, purges, call, index, owed, carry, crossed>>

Locked == \E t \in Thread : at[t] \in {"inside", "harvesting"}

Enter(t) ==
  /\ ~Locked /\ Goto(t, "observed", "inside")
  /\ UNCHANGED <<vars, call, index, owed, carry, crossed>>

\* The lock stayed taken: FrameFallback.
GiveUp(t, M) ==
  /\ Locked /\ Goto(t, "observed", "idle")
  /\ timeouts < MaxTimeouts /\ timeouts' = timeouts + 1
  /\ Hand(Frame(Fresh(M \ Once), index[t]))
  /\ UNCHANGED <<seen, queue, planned, plan, arrived, tables, forgone, purges,
                 call, index, owed, carry, crossed>>

\* The plan is memoized.
Replay(t) ==
  /\ Goto(t, "inside", "idle")
  /\ call[t] \in planned
  /\ Hand(Frame(plan[call[t]], index[t]))
  /\ UNCHANGED <<seen, queue, planned, plan, arrived, tables, forgone, timeouts, purges,
                 call, index, owed, carry, crossed>>

\* tables.pendingFor, on the deciding frame.
List(t) ==
  /\ Goto(t, "inside", "harvesting")
  /\ call[t] \notin planned
  /\ owed' = [owed EXCEPT ![t] =
       {<<j, served[j]>> : j \in {j \in Inv \ {call[t]} :
                                    served[j] \in 1..NbFrames - 1 /\ j \notin harvested}}]
  /\ carry' = [carry EXCEPT ![t] = <<>>]
  /\ UNCHANGED <<vars, call, index, crossed>>

\* Mutant of Skip: an invocation without a plan is looked at again.
SkipNothing(t, j) == FALSE

\* An invocation that has no plan yet is passed over.
Skip(t, j) ==
  /\ j \notin planned
  /\ UNCHANGED <<vars, carry, crossed>>

\* Its unserved segments, then tables.markHarvested.
Harvest(t, j, k) ==
  /\ j \in planned
  /\ carry' = [carry EXCEPT ![t] = @ \o Unserved(plan[j], k)]
  /\ harvested' = harvested \cup {j}
  /\ crossed' = (crossed \/ \E u \in Thread : at[u] # "idle" /\ call[u] = j)
  /\ UNCHANGED <<seen, queue, planned, plan, arrived, sequencer, served, ghosts, timeouts, purges>>

LookAt(t) ==
  /\ at[t] = "harvesting"
  /\ \E o \in owed[t] :
       /\ owed' = [owed EXCEPT ![t] = @ \ {o}]
       /\ Skip(t, o[1]) \/ Harvest(t, o[1], o[2])
  /\ UNCHANGED <<at, call, index>>

\* The rest of the decision and its saves: FrameDecide.
Decide(t, M) ==
  LET i == call[t]
      inject == M \ seen
      segments == OrderSegments(queue \o carry[t], inject)
  IN /\ owed[t] = {} /\ Goto(t, "harvesting", "idle")
     /\ queue' = Deferred(segments)
     /\ seen' = seen \cup (inject \cap Once)
     /\ planned' = planned \cup {i}
     /\ plan' = [plan EXCEPT ![i] = segments]
     /\ carry' = [carry EXCEPT ![t] = <<>>]
     /\ Hand(Frame(segments, index[t]))
     /\ UNCHANGED <<arrived, tables, forgone, timeouts, purges, call, index, owed, crossed>>

Serve(t) ==
  \/ Ask(t) \/ Note(t) \/ Enter(t) \/ Replay(t) \/ List(t) \/ LookAt(t)
  \/ \E M \in SUBSET Doc : Decide(t, M) \/ GiveUp(t, M)

PoolNext == \E t \in Thread : Serve(t) \/ \E i \in Inv : Take(t, i)

PoolSpec == PoolInit /\ [][PoolNext]_poolVars

\* The threads run; the lock of the scope is contended by them alone.
FairPoolSpec == PoolSpec /\ \A t \in Thread : WF_poolVars(Serve(t))

-----------------------------------------------------------------------------
\* The frames a thread has in hand and may still answer.
InHand(t) ==
  IF call[t] \in planned /\
       (at[t] \in {"asked", "observed", "inside"} \/ (at[t] = "indexed" /\ call[t] \notin harvested))
  THEN Frame(plan[call[t]], index[t]) ELSE {}

\* What waits: queued, in the hands of a thread, or in frames still to come.
Waiting ==
  UNION ({Chunks(queue)} \cup {InHand(t) \cup Chunks(carry[t]) : t \in Thread}
         \cup {Between(plan[i], Through(plan[i], arrived[i]), Through(plan[i], NbFrames)) :
                 i \in planned \ harvested})

\* Undisturbed, and unless an invocation is harvested at the very moment a
\* thread serves a frame of it, threads deliver as one thread does: no chunk of
\* a consumed document is lost and none is handed over twice.
TransferIsExact ==
  timeouts = 0 /\ ~crossed => repeated = {} /\ ChunksOf(seen) \subseteq delivered \cup Waiting

\* No thread waits for ever, neither for the lock nor in the list of what is owed.
EveryRequestEnds == \A t \in Thread : at[t] # "idle" ~> at[t] = "idle"

\* carryover-pure.js:34-38: a late frame of a harvested invocation serves
\* nothing, so nothing is received twice; the transfer is atomic.
OwnershipMoves == repeated = {}
=============================================================================
