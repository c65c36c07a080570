----------------------------- MODULE LockProofs -----------------------------
(***************************************************************************)
(* Proofs about Lock.tla, for any number of processes and deaths.          *)
(*                                                                         *)
(* The inductive invariant says what the directory means.  As long as no   *)
(* removal has hit a living holder, a process between its mkdir and its    *)
(* release owns the standing directory (Ownership).  And as long as nobody *)
(* died or stalled and no removal stopped halfway, a process in any step   *)
(* on the directory owns it, the directory is never without a record       *)
(* behind its owner's back, and no removal but the owner's is in progress  *)
(* (Calm).  Whatever happened, the pid in the record is that of a process  *)
(* that has still to take it away, that was refused, or that is dead       *)
(* (Recorded).                                                             *)
(***************************************************************************)
EXTENDS Lock, TLAPS

OnDir == Holding \cup Undeclared

Ownership == ~evicted => \A p \in alive : pc[p] \in Holding => owner = p

Calm ==
  alive = Proc /\ ~stalled /\ ~bared =>
    /\ ~evicted /\ ~aged
    /\ \A p \in Proc : pc[p] \in OnDir => owner = p
    /\ \A p \in Proc : pc[p] \in {"unlink", "rmdir"} => after[p] = "idle"
    /\ \A p \in Proc : pc[p] = "rmdir" => holder = NoProc
    /\ \A p \in Proc : pc[p] = "ask" => read[p] \in Proc
    /\ holder # NoProc => holder = owner
    /\ dir => pc[owner] \in OnDir \/ holder = owner
    /\ dir /\ holder = NoProc => pc[owner] \in Undeclared

Recorded == holder \in alive => pc[holder] \in {"section", "unlink"} \/ holder \in refused

IInv == TypeOK /\ Ownership /\ Calm /\ Recorded

\* Initially the directory is absent and every process is out of withLock.
LEMMA InitIInv == Init => IInv
  BY LockAssumption DEF Init, IInv, TypeOK, PCs, Ownership, Calm, Recorded, OnDir, Holding, Undeclared

\* Every step of the lock keeps the variables in their types: no interleaving
\* leaves a record in a directory that is not there.
LEMMA TypeStep == ASSUME TypeOK, [Next]_vars PROVE TypeOK'
<1> USE LockAssumption DEF TypeOK, PCs, Goto, StartRemoval, At, lost
<1>1. ASSUME NEW p \in Proc, Call(p) PROVE TypeOK'
  BY <1>1 DEF Call
<1>2. ASSUME NEW p \in Proc, DeadlinePasses(p) PROVE TypeOK'
  BY <1>2 DEF DeadlinePasses
<1>3. ASSUME NEW p \in Proc, GiveUp(p) PROVE TypeOK'
  BY <1>3 DEF GiveUp
<1>4. ASSUME NEW p \in Proc, MkdirWins(p) PROVE TypeOK'
  BY <1>4 DEF MkdirWins
<1>5. ASSUME NEW p \in Proc, MkdirTaken(p) PROVE TypeOK'
  BY <1>5 DEF MkdirTaken
<1>6. ASSUME NEW p \in Proc, RecordHolder(p) PROVE TypeOK'
  BY <1>6 DEF RecordHolder
<1>7. ASSUME NEW p \in Proc, RecordFails(p) PROVE TypeOK'
  BY <1>7 DEF RecordFails
<1>8. ASSUME NEW p \in Proc, ReadHolder(p) PROVE TypeOK'
  BY <1>8 DEF ReadHolder
<1>9. ASSUME NEW p \in Proc, AskKernel(p) PROVE TypeOK'
  BY <1>9 DEF AskKernel
<1>10. ASSUME NEW p \in Proc, StatLock(p) PROVE TypeOK'
  BY <1>10 DEF StatLock
<1>11. ASSUME NEW p \in Proc, Unlink(p) PROVE TypeOK'
  BY <1>11 DEF Unlink, Evicts
<1>12. ASSUME NEW p \in Proc, Rmdir(p) PROVE TypeOK'
  BY <1>12 DEF Rmdir, Evicts
<1>13. ASSUME NEW p \in Proc, SectionDone(p) PROVE TypeOK'
  BY <1>13 DEF SectionDone
<1>14. ASSUME NEW p \in Proc, Die(p) PROVE TypeOK'
  BY <1>14 DEF Die
<1>15. CASE Age
  BY <1>15 DEF Age
<1>16. CASE UNCHANGED vars
  BY <1>16 DEF vars, lost
<1>17. ASSUME NEW p \in Proc, RemovalRefused(p) PROVE TypeOK'
  BY <1>17 DEF RemovalRefused
<1>18. QED
  BY <1>1, <1>2, <1>3, <1>4, <1>5, <1>6, <1>7, <1>8, <1>9, <1>10, <1>11, <1>12,
     <1>13, <1>14, <1>15, <1>16, <1>17 DEF Next, Step

\* What the directory means survives every step of every process.
LEMMA StepIInv == ASSUME IInv, [Next]_vars PROVE IInv'
<1>0. TypeOK'
  BY TypeStep DEF IInv
<1> SUFFICES ASSUME TypeOK, TypeOK', Ownership, Calm, Recorded, [Next]_vars
             PROVE Ownership' /\ Calm' /\ Recorded'
  BY <1>0 DEF IInv
<1> USE LockAssumption DEF TypeOK, PCs, Goto, StartRemoval, At, lost, Holding, Undeclared, OnDir
<1>1. ASSUME NEW p \in Proc, Call(p) PROVE Ownership' /\ Calm' /\ Recorded'
  BY <1>1 DEF Call, Ownership, Calm, Recorded
<1>2. ASSUME NEW p \in Proc, DeadlinePasses(p) PROVE Ownership' /\ Calm' /\ Recorded'
  BY <1>2 DEF DeadlinePasses, Ownership, Calm, Recorded
<1>3. ASSUME NEW p \in Proc, GiveUp(p) PROVE Ownership' /\ Calm' /\ Recorded'
  BY <1>3 DEF GiveUp, Ownership, Calm, Recorded
<1>4. ASSUME NEW p \in Proc, MkdirWins(p) PROVE Ownership' /\ Calm' /\ Recorded'
  BY <1>4 DEF MkdirWins, Ownership, Calm, Recorded
<1>5. ASSUME NEW p \in Proc, MkdirTaken(p) PROVE Ownership' /\ Calm' /\ Recorded'
  BY <1>5 DEF MkdirTaken, Ownership, Calm, Recorded
<1>6. ASSUME NEW p \in Proc, RecordHolder(p) PROVE Ownership' /\ Calm' /\ Recorded'
  BY <1>6 DEF RecordHolder, Ownership, Calm, Recorded
<1>7. ASSUME NEW p \in Proc, RecordFails(p) PROVE Ownership' /\ Calm' /\ Recorded'
  BY <1>7 DEF RecordFails, Ownership, Calm, Recorded
<1>8. ASSUME NEW p \in Proc, ReadHolder(p) PROVE Ownership' /\ Calm' /\ Recorded'
  BY <1>8 DEF ReadHolder, Ownership, Calm, Recorded
<1>9. ASSUME NEW p \in Proc, AskKernel(p) PROVE Ownership' /\ Calm' /\ Recorded'
  BY <1>9 DEF AskKernel, Ownership, Calm, Recorded
<1>10. ASSUME NEW p \in Proc, StatLock(p) PROVE Ownership' /\ Calm' /\ Recorded'
  BY <1>10 DEF StatLock, Ownership, Calm, Recorded
<1>11. ASSUME NEW p \in Proc, Unlink(p) PROVE Ownership' /\ Calm' /\ Recorded'
  BY <1>11 DEF Unlink, Evicts, Ownership, Calm, Recorded
<1>12. ASSUME NEW p \in Proc, Rmdir(p) PROVE Ownership' /\ Calm' /\ Recorded'
  BY <1>12 DEF Rmdir, Evicts, Ownership, Calm, Recorded
<1>13. ASSUME NEW p \in Proc, SectionDone(p) PROVE Ownership' /\ Calm' /\ Recorded'
  BY <1>13 DEF SectionDone, Ownership, Calm, Recorded
<1>14. ASSUME NEW p \in Proc, Die(p) PROVE Ownership' /\ Calm' /\ Recorded'
  BY <1>14 DEF Die, Ownership, Calm, Recorded
<1>15. CASE Age
  BY <1>15 DEF Age, Ownership, Calm, Recorded
<1>16. CASE UNCHANGED vars
  BY <1>16 DEF vars, lost, Ownership, Calm, Recorded
<1>17. ASSUME NEW p \in Proc, RemovalRefused(p) PROVE Ownership' /\ Calm' /\ Recorded'
  <2>1. /\ p \in alive /\ pc[p] \in {"unlink", "rmdir"} /\ pc' = [pc EXCEPT ![p] = after[p]]
        /\ dir /\ bared' = (bared \/ holder = NoProc)
        /\ refused' = IF holder = p THEN refused \cup {p} ELSE refused
        /\ UNCHANGED <<alive, after, read, dir, owner, holder, aged, evicted, stalled>>
    BY <1>17 DEF RemovalRefused
  <2>2. Ownership'
    BY <2>1 DEF Ownership
  <2>3. Recorded'
    BY <2>1 DEF Recorded
  <2>4. Calm'
    <3> SUFFICES ASSUME alive = Proc, ~stalled, ~bared, holder # NoProc PROVE Calm'
      BY <2>1 DEF Calm
    <3> QED BY <2>1 DEF Calm
  <2> QED BY <2>2, <2>3, <2>4
<1>18. QED
  BY <1>1, <1>2, <1>3, <1>4, <1>5, <1>6, <1>7, <1>8, <1>9, <1>10, <1>11, <1>12,
     <1>13, <1>14, <1>15, <1>16, <1>17 DEF Next, Step

LEMMA SpecIInv == Spec => []IInv
  BY InitIInv, StepIInv, PTL DEF Spec

\* The lock of any fleet stays well typed: a directory has an owner, a record
\* has a directory.
THEOREM LockTyping == Spec => []TypeOK
  BY SpecIInv, PTL DEF IInv

\* Two living processes are in the critical section together only if a
\* forceRelease has taken the lock of a living holder (lock.js, withLock).
THEOREM LockMutex == Spec => []MutexUnlessEvicted
<1>1. IInv => MutexUnlessEvicted
  BY DEF IInv, Ownership, MutexUnlessEvicted, MutualExclusion, InSection, Holding
<1>2. QED
  BY <1>1, SpecIInv, PTL

\* As long as nobody died, nobody stalled on the directory and no removal left the
\* directory without its record, forceRelease never takes the lock of a living
\* holder: contention alone is harmless, and so is a record that would not go.
THEOREM LockEviction == Spec => []EvictionNeedsFault
<1>1. IInv => EvictionNeedsFault
  BY DEF IInv, Calm, EvictionNeedsFault
<1>2. QED
  BY <1>1, SpecIInv, PTL

\* A record outlives the call that wrote it only when its writer died or when the
\* forceRelease of its writer was refused that very record (lock.js, the swallowed
\* rmSync in the finally of withLock), whoever was evicted or stalled before.
THEOREM LockNotLeaked == Spec => []NoLeakedLock
<1>1. IInv => NoLeakedLock
  BY LockAssumption DEF IInv, TypeOK, Recorded, NoLeakedLock
<1>2. QED
  BY <1>1, SpecIInv, PTL

=============================================================================
