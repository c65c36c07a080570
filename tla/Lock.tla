-------------------------------- MODULE Lock --------------------------------
(***************************************************************************)
(* The directory lock of src/src/lock.js (withLock), one system call per   *)
(* step.  The lock is a directory: mkdir without `recursive` is the atomic *)
(* acquisition, the holder then writes its pid into a file of that         *)
(* directory, and a contender that finds the directory taken asks the      *)
(* kernel whether the recorded pid still lives.                            *)
(*                                                                         *)
(* Every process runs withLock over and over.  A process may die anywhere  *)
(* (it then takes no more steps) and may stay descheduled for any time.    *)
(* Sleeps and the transient mkdir codes only bring the loop back to its    *)
(* head, so they are stuttering steps here.  A dead pid is never reused    *)
(* (residual 1 of the source is left out).                                 *)
(***************************************************************************)
EXTENDS Naturals, FiniteSets

CONSTANTS
  Proc,        \* the processes that contend for one lock directory
  NoProc,      \* "nobody": no holder record, no pid read, no owner
  MaxDeaths,   \* bound: how many processes may die
  MaxRefusals, \* bound: how many marks of a refused removal may stand at once
  MayStall     \* may a living process be descheduled for UNIDENTIFIED_HOLDER_MS
               \* between two system calls on the directory?

ASSUME LockAssumption ==
  /\ NoProc \notin Proc
  /\ MaxDeaths \in Nat /\ MaxRefusals \in Nat
  /\ MayStall \in BOOLEAN

VARIABLES
  alive,    \* the processes that have not died
  pc,       \* where each process stands in withLock
  after,    \* where a forceRelease in progress returns to
  read,     \* the pid each contender read from the holder file
  expired,  \* the calls whose deadline has passed
  dir,      \* does the lock directory exist?
  owner,    \* ghost: the process whose mkdir made the standing directory
  holder,   \* the pid in the holder file, NoProc when there is no file
  aged,     \* is the directory's mtime older than UNIDENTIFIED_HOLDER_MS?
  evicted,  \* ghost: has a removal ever hit the lock of a living owner?
  stalled,  \* ghost: has a living process kept a directory unrecorded that long?
  refused,  \* ghost: the processes whose own record the file system would not remove
  bared     \* ghost: has a refused removal ever left a directory without its record?

lost == <<refused, bared>>
vars == <<alive, pc, after, read, expired, dir, owner, holder, aged, evicted, stalled, lost>>

PCs == {"idle", "mkdir", "record", "inspect", "ask", "stat", "unlink", "rmdir", "section"}

Holding == {"record", "section"}            \* between the mkdir and the release
Undeclared == {"record", "unlink", "rmdir"} \* on the directory, maybe with no record in it

TypeOK ==
  /\ alive \subseteq Proc
  /\ pc \in [Proc -> PCs]
  /\ after \in [Proc -> {"idle", "mkdir"}]
  /\ read \in [Proc -> Proc \cup {NoProc}]
  /\ expired \subseteq Proc
  /\ dir \in BOOLEAN
  /\ owner \in Proc \cup {NoProc}
  /\ holder \in Proc \cup {NoProc}
  /\ aged \in BOOLEAN
  /\ evicted \in BOOLEAN
  /\ stalled \in BOOLEAN
  /\ refused \subseteq Proc
  /\ bared \in BOOLEAN
  /\ dir <=> owner # NoProc
  /\ holder # NoProc => dir

Init ==
  /\ alive = Proc
  /\ pc = [p \in Proc |-> "idle"]
  /\ after = [p \in Proc |-> "idle"]
  /\ read = [p \in Proc |-> NoProc]
  /\ expired = {}
  /\ dir = FALSE
  /\ owner = NoProc
  /\ holder = NoProc
  /\ aged = FALSE
  /\ evicted = FALSE
  /\ stalled = FALSE
  /\ refused = {}
  /\ bared = FALSE

At(p, l) == p \in alive /\ pc[p] = l

Goto(p, l) == pc' = [pc EXCEPT ![p] = l]

\* The removal of p's forceRelease starts; it will return to l.
StartRemoval(p, l) ==
  /\ Goto(p, "unlink")
  /\ after' = [after EXCEPT ![p] = l]

\* A removal step of p that changes the directory while another, living process holds it.
Evicts(p) == owner # p /\ owner \in alive /\ pc[owner] \in Holding

---------------------------------------------------------------------------
(* The acquisition loop.                                                   *)

Call(p) ==
  /\ At(p, "idle")
  /\ Goto(p, "mkdir")
  /\ expired' = expired \ {p}
  /\ UNCHANGED <<alive, after, read, dir, owner, holder, aged, evicted, stalled, lost>>

DeadlinePasses(p) ==
  /\ p \in alive /\ pc[p] # "idle" /\ p \notin expired
  /\ expired' = expired \cup {p}
  /\ UNCHANGED <<alive, pc, after, read, dir, owner, holder, aged, evicted, stalled, lost>>

\* The loop condition fails, or mkdir fails for a real, non transient reason:
\* fail-open, the caller gets the fallback.
GiveUp(p) ==
  /\ At(p, "mkdir")
  /\ Goto(p, "idle")
  /\ UNCHANGED <<alive, after, read, expired, dir, owner, holder, aged, evicted, stalled, lost>>

\* Mutant of MkdirWins: a `recursive` mkdir, which never fails with EEXIST.
MkdirRecursive(p) ==
  /\ At(p, "mkdir") /\ p \notin expired
  /\ dir' = TRUE /\ owner' = p /\ aged' = FALSE
  /\ Goto(p, "record")
  /\ UNCHANGED <<alive, after, read, expired, holder, evicted, stalled, lost>>

MkdirWins(p) ==
  /\ At(p, "mkdir") /\ p \notin expired
  /\ ~dir
  /\ dir' = TRUE /\ owner' = p /\ aged' = FALSE
  /\ Goto(p, "record")
  /\ UNCHANGED <<alive, after, read, expired, holder, evicted, stalled, lost>>

MkdirTaken(p) ==
  /\ At(p, "mkdir") /\ p \notin expired
  /\ dir
  /\ Goto(p, "inspect")
  /\ UNCHANGED <<alive, after, read, expired, dir, owner, holder, aged, evicted, stalled, lost>>

\* The write opens a path, not a directory handle: it lands in whatever
\* directory now bears the name, and creating the file refreshes the mtime.
RecordHolder(p) ==
  /\ At(p, "record") /\ dir
  /\ holder' = p /\ aged' = FALSE
  /\ Goto(p, "section")
  /\ refused' = refused \ {p}
  /\ UNCHANGED <<alive, after, read, expired, dir, owner, evicted, stalled, bared>>

RecordFails(p) ==
  /\ At(p, "record")
  /\ StartRemoval(p, "idle")
  /\ UNCHANGED <<alive, read, expired, dir, owner, holder, aged, evicted, stalled, lost>>

---------------------------------------------------------------------------
(* holderStatus: read the pid, then ask the kernel; or judge by the clock. *)

ReadHolder(p) ==
  /\ At(p, "inspect")
  /\ read' = [read EXCEPT ![p] = holder]
  /\ Goto(p, IF holder = NoProc THEN "stat" ELSE "ask")
  /\ UNCHANGED <<alive, after, expired, dir, owner, holder, aged, evicted, stalled, lost>>

\* Mutant of AskKernel: an answer other than "no such process" is read as a death.
AskKernelEperm(p) ==
  /\ At(p, "ask")
  /\ StartRemoval(p, "mkdir")
  /\ UNCHANGED <<alive, read, expired, dir, owner, holder, aged, evicted, stalled, lost>>

\* Mutant of AskKernel: waits for the holder to die instead of retrying the loop.
AskKernelWaits(p) ==
  /\ At(p, "ask") /\ read[p] \notin alive
  /\ StartRemoval(p, "mkdir")
  /\ UNCHANGED <<alive, read, expired, dir, owner, holder, aged, evicted, stalled, lost>>

AskKernel(p) ==
  /\ At(p, "ask")
  /\ IF read[p] \in alive THEN Goto(p, "mkdir") /\ UNCHANGED after
                          ELSE StartRemoval(p, "mkdir")
  /\ UNCHANGED <<alive, read, expired, dir, owner, holder, aged, evicted, stalled, lost>>

StatLock(p) ==
  /\ At(p, "stat")
  /\ IF dir /\ aged THEN StartRemoval(p, "mkdir")
                    ELSE Goto(p, "mkdir") /\ UNCHANGED after
  /\ UNCHANGED <<alive, read, expired, dir, owner, holder, aged, evicted, stalled, lost>>

---------------------------------------------------------------------------
(* forceRelease: rmSync({recursive, force}) unlinks the record, then       *)
(* removes the directory.  It never asks whose directory it is.  Whatever  *)
(* makes it fail is swallowed, and the caller goes on.                     *)

Unlink(p) ==
  /\ At(p, "unlink")
  /\ holder' = NoProc
  /\ aged' = (aged /\ holder = NoProc)
  /\ evicted' = (evicted \/ (holder # NoProc /\ Evicts(p)))
  /\ Goto(p, "rmdir")
  /\ UNCHANGED <<alive, after, read, expired, dir, owner, stalled, lost>>

Rmdir(p) ==
  /\ At(p, "rmdir") /\ holder = NoProc
  /\ dir' = FALSE /\ owner' = NoProc /\ aged' = FALSE
  /\ evicted' = (evicted \/ (dir /\ Evicts(p)))
  /\ Goto(p, after[p])
  /\ UNCHANGED <<alive, after, read, expired, holder, stalled, lost>>

\* One of the two calls fails: a file or a directory in use (EBUSY, EPERM, EACCES), or a
\* record that appeared in between (ENOTEMPTY).  What stands is left behind.
RemovalRefused(p) ==
  /\ At(p, "unlink") \/ At(p, "rmdir")
  /\ dir
  /\ refused' = IF holder = p THEN refused \cup {p} ELSE refused
  /\ bared' = (bared \/ holder = NoProc)
  /\ Cardinality(refused') + (IF bared' THEN 1 ELSE 0) <= MaxRefusals
  /\ Goto(p, after[p])
  /\ UNCHANGED <<alive, after, read, expired, dir, owner, holder, aged, evicted, stalled>>

\* Mutant of SectionDone: a section that throws leaves without the release of the finally.
SectionDoneThrows(p) ==
  /\ At(p, "section")
  /\ \/ StartRemoval(p, "idle")
     \/ Goto(p, "idle") /\ UNCHANGED after
  /\ UNCHANGED <<alive, read, expired, dir, owner, holder, aged, evicted, stalled, lost>>

SectionDone(p) ==
  /\ At(p, "section")
  /\ StartRemoval(p, "idle")
  /\ UNCHANGED <<alive, read, expired, dir, owner, holder, aged, evicted, stalled, lost>>

---------------------------------------------------------------------------
(* The environment: death, and the time an unrecorded directory spends.    *)

Die(p) ==
  /\ p \in alive
  /\ Cardinality(Proc \ alive) < MaxDeaths
  /\ alive' = alive \ {p}
  /\ UNCHANGED <<pc, after, read, expired, dir, owner, holder, aged, evicted, stalled, lost>>

\* Only the mtime of a directory without a record is ever consulted.
Age ==
  /\ dir /\ holder = NoProc /\ ~aged
  /\ aged' = TRUE
  /\ stalled' = (stalled \/ \E p \in alive : pc[p] \in Undeclared)
  /\ stalled' => MayStall
  /\ UNCHANGED <<alive, pc, after, read, expired, dir, owner, holder, evicted, lost>>

Step(p) ==
  \/ GiveUp(p) \/ MkdirWins(p) \/ MkdirTaken(p)
  \/ RecordHolder(p) \/ RecordFails(p)
  \/ ReadHolder(p) \/ AskKernel(p) \/ StatLock(p)
  \/ Unlink(p) \/ Rmdir(p) \/ RemovalRefused(p) \/ SectionDone(p)

Next ==
  \/ \E p \in Proc : Call(p) \/ Step(p) \/ DeadlinePasses(p) \/ Die(p)
  \/ Age

Spec == Init /\ [][Next]_vars

\* A living process keeps running its system calls, and time passes.
Fairness == \A p \in Proc : WF_vars(Step(p)) /\ WF_vars(DeadlinePasses(p))

FairSpec == Spec /\ Fairness

---------------------------------------------------------------------------
(* Properties.                                                             *)

InSection == {p \in alive : pc[p] = "section"}

MutualExclusion == \A p, q \in InSection : p = q

\* Two living processes are never in the critical section together unless some
\* forceRelease has taken the lock of a living holder: mkdir, the late write of
\* the record and the two-step removal leave no other way in.
MutexUnlessEvicted == ~evicted => MutualExclusion

\* A living holder can lose its lock only after a death, after somebody was
\* descheduled for the whole unidentified-holder delay, or after a removal took the
\* record and not its directory: in a fleet without these, contention, deadlines,
\* failed writes and records that would not go never break the lock.
EvictionNeedsFault == evicted => alive # Proc \/ stalled \/ bared

\* withLock leaves a lock that nobody may force only where the file system refused
\* to remove it: when every living process is out of withLock, a directory still
\* standing bears a living pid only if the forceRelease of that very process failed
\* on its own record, since it wrote it.  (The failure is swallowed, and the lock is
\* then taken until that process dies: NoLeakedLock without its exception is false.)
NoLeakedLock ==
  dir /\ (\A p \in alive : pc[p] = "idle") => holder \notin alive \ refused

\* What the comment of lock.js promises: a living holder is never evicted.
LivingHolderNeverEvicted == ~evicted

\* Every call of withLock returns, with the lock or with the fallback, whatever
\* the others do: contention, deaths and stale directories never block a hook.
EveryCallReturns == \A p \in Proc : pc[p] # "idle" ~> (pc[p] = "idle" \/ p \notin alive)

=============================================================================
