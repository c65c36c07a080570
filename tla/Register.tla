------------------------------ MODULE Register ------------------------------
(***************************************************************************)
(* What the files of state/ promise to whoever reads them, with or without *)
(* the lock: a read answers a value its key had at some moment of the      *)
(* read.  Where replacing a file is not atomic, a weak reader that crossed *)
(* a replacement may answer Empty instead.  SessionStore.tla is shown to   *)
(* implement this module.                                                  *)
(***************************************************************************)
CONSTANTS Key, Proc, Value, Empty, NoKey

VARIABLES
  reg,      \* the value of each key
  busy,     \* the keys being replaced
  read,     \* the read each process has under way, or has just finished
  weak      \* the processes whose reads may be hollow

rvars == <<reg, busy, read, weak>>

NoRead == [state |-> "none", key |-> NoKey, candidates |-> {}, crossed |-> FALSE, answer |-> Empty]

Init ==
  /\ reg = [k \in Key |-> Empty]
  /\ busy = {}
  /\ read = [p \in Proc |-> NoRead]
  /\ weak \subseteq Proc

\* The pending reads of a key learn what happens to it.
Learn(k, values) ==
  [p \in Proc |->
     IF read[p].state = "pending" /\ read[p].key = k
     THEN [read[p] EXCEPT !.candidates = @ \cup values, !.crossed = TRUE]
     ELSE read[p]]

Begin(p, k) ==
  /\ read' = [read EXCEPT ![p] = [state |-> "pending", key |-> k, candidates |-> {reg[k]},
                                  crossed |-> k \in busy, answer |-> Empty]]
  /\ UNCHANGED <<reg, busy, weak>>

StartChange(k) ==
  /\ busy' = busy \cup {k}
  /\ read' = Learn(k, {})
  /\ UNCHANGED <<reg, weak>>

EndChange(k) ==
  /\ reg' \in {[reg EXCEPT ![k] = v] : v \in Value}
  /\ busy' = busy \ {k}
  /\ read' = Learn(k, {reg'[k]})
  /\ UNCHANGED weak

Answer(p) ==
  /\ read[p].state = "pending"
  /\ \E v \in Value :
       /\ \/ v \in read[p].candidates
          \/ p \in weak /\ read[p].crossed /\ v = Empty
       /\ read' = [read EXCEPT ![p].state = "answered", ![p].answer = v]
  /\ UNCHANGED <<reg, busy, weak>>

Finish(p) ==
  /\ read' = [read EXCEPT ![p] = NoRead]
  /\ UNCHANGED <<reg, busy, weak>>

Next ==
  \/ \E k \in Key : StartChange(k) \/ EndChange(k) \/ \E p \in Proc : Begin(p, k)
  \/ \E p \in Proc : Answer(p) \/ Finish(p)

Spec == Init /\ [][Next]_rvars

=============================================================================
