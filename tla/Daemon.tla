------------------------------- MODULE Daemon -------------------------------
(***************************************************************************)
(* The life of the resident daemon (hooks/http-server.js): it compares its *)
(* code with the disk once per action, exits when they differ, leaves when *)
(* a whole window was quiet, and hands the table of arrivals to its next   *)
(* life through a file.  The ports share one table, which the file holds;  *)
(* the rendezvous, where clients connect, has a table of its own, which it *)
(* does not.  The supervisor brings the daemon back: a socket unit that    *)
(* holds the queue of connections, or a task that restarts on a failure    *)
(* and when a prompt asks (hooks/daemon-ensure.js).                        *)
(***************************************************************************)
EXTENDS Naturals, FiniteSets

CONSTANTS
  Invocation,          \* tool calls
  FRAMES,              \* frames of each
  ByRendezvous,        \* those whose frames come by the client lane, the others by the port
  Supervisor,          \* "socket", "task": the supervisors to consider
  MaxVersion,          \* deliveries of new code
  MaxUpsets            \* kills, stops, aborted requests, files not written or read

ASSUME DaemonAssumption ==
  /\ FRAMES \in Nat \ {0, 1} /\ ByRendezvous \subseteq Invocation
  /\ Supervisor \subseteq {"socket", "task"}
  /\ MaxVersion \in Nat /\ MaxUpsets \in Nat

Frame == Invocation \X (1..FRAMES)

VARIABLES
  supervisor, onDemand,   \* how the daemon is installed
  code,                   \* the version of the code on disk
  daemon,                 \* "off", "loading" (nothing listens yet) or "serving"
  loaded,                 \* the version this process compiled
  arrivals,               \* frames served of each invocation, 0 when none or all: both tables
  verified,               \* invocations whose first frame found the code fresh
  quiet,                  \* no request since the idle timer was armed
  saved,                  \* the file, nothing for an invocation of the client lane
  ended,                  \* how the last process ended
  asked,                  \* the task scheduler was asked for a run
  turn,                   \* a prompt is being answered
  conn,                   \* the connection of each frame
  upsets,                 \* how many there were
  (* ghosts *)
  since,                  \* the version on disk when each invocation began
  repeated,               \* invocations of which a frame got an index out of its turn
  forgotten,              \* invocations whose row did not go from one process to the next
  broken                  \* a kill, or a file not written or not read

install == <<supervisor, onDemand>>
process == <<daemon, loaded, arrivals, verified, quiet>>
vars == <<install, code, process, saved, ended, asked, turn, conn, upsets, since,
          repeated, forgotten, broken>>

Upset == upsets < MaxUpsets /\ upsets' = upsets + 1

Init ==
  /\ supervisor \in Supervisor /\ onDemand \in BOOLEAN
  /\ code = 0
  /\ daemon = "off" /\ loaded = 0 /\ quiet = TRUE /\ verified = {}
  /\ arrivals = [v \in Invocation |-> 0] /\ saved = [v \in Invocation |-> 0]
  /\ ended = "none" /\ asked = ~onDemand /\ turn = FALSE
  /\ conn = [f \in Frame |-> "none"]
  /\ upsets = 0
  /\ since = [v \in Invocation |-> 0]
  /\ repeated = {} /\ forgotten = {} /\ broken = FALSE

-----------------------------------------------------------------------------
(* The session.                                                            *)

\* The prompt asks the scheduler, which ignores it while the task runs; on the
\* other systems there is nothing to ask.
Prompt ==
  /\ ~turn /\ turn' = TRUE
  /\ asked' = (asked \/ (supervisor = "task" /\ daemon = "off"))
  /\ UNCHANGED <<install, code, process, saved, ended, conn, upsets, since,
                 repeated, forgotten, broken>>

EndTurn ==
  /\ turn /\ turn' = FALSE
  /\ \A f \in Frame : conn[f] \notin {"queued", "accepted"}
  /\ UNCHANGED <<install, code, process, saved, ended, asked, conn, upsets, since,
                 repeated, forgotten, broken>>

\* The socket unit holds the ports, never the rendezvous.
Held(v) == supervisor = "socket" /\ v \notin ByRendezvous

\* A frame connects: the kernel queues it where somebody listens.
Connect(f) ==
  LET v == f[1] IN
  /\ turn /\ conn[f] = "none"
  /\ conn' = [conn EXCEPT ![f] = IF Held(v) \/ daemon = "serving" THEN "queued" ELSE "lost"]
  /\ since' = IF \A g \in Frame : g[1] = v => conn[g] = "none" THEN [since EXCEPT ![v] = code] ELSE since
  /\ UNCHANGED <<install, code, process, saved, ended, asked, turn, upsets, repeated, forgotten, broken>>

\* The client of a frame gives up while the daemon works for it.
Abort(f) ==
  /\ conn[f] = "accepted"
  /\ conn' = [conn EXCEPT ![f] = "lost"]
  /\ Upset
  /\ UNCHANGED <<install, code, process, saved, ended, asked, turn, since, repeated, forgotten, broken>>

-----------------------------------------------------------------------------
(* Leaving.  What was accepted is cut; what is queued waits for the next   *)
(* life where the supervisor holds the queue, and is reset elsewhere.      *)

Gone(f) ==
  IF conn[f] = "accepted" \/ (conn[f] = "queued" /\ ~Held(f[1])) THEN "lost" ELSE conn[f]

Leave ==
  /\ daemon' = "off" /\ verified' = {}
  /\ conn' = [f \in Frame |-> Gone(f)]
  /\ UNCHANGED <<loaded, arrivals, quiet>>

\* The rows that are not the same from one table to the next.
Lost(new, old) == {v \in Invocation : new[v] # old[v]}

\* The table the file is written from.
Shared == [v \in Invocation |-> IF v \in ByRendezvous THEN 0 ELSE arrivals[v]]

\* The exit hook writes the shared table, or fails to.
SaveTables(spent) ==
  /\ \/ saved' = Shared /\ upsets' = spent /\ UNCHANGED broken
     \/ /\ spent < MaxUpsets /\ upsets' = spent + 1
        /\ broken' = TRUE /\ UNCHANGED saved
  /\ forgotten' = forgotten \cup Lost(saved', arrivals)

ExitStale ==
  /\ Leave /\ SaveTables(upsets) /\ ended' = "stale"
  /\ UNCHANGED <<install, code, asked, turn, since, repeated>>

LeaveCleanly(spent) ==
  /\ Leave /\ SaveTables(spent) /\ ended' = "clean"
  /\ UNCHANGED <<install, code, asked, turn, since, repeated>>

\* A kernel notification, possibly spurious or late, is only a reason to compare.
CodeNotice ==
  /\ daemon = "serving" /\ loaded # code
  /\ ExitStale

Signal ==
  /\ daemon = "serving" /\ upsets < MaxUpsets
  /\ LeaveCleanly(upsets + 1)

\* The window closes: quiet, the daemon leaves; otherwise it is armed again.
IdleTimer ==
  /\ daemon = "serving" /\ onDemand
  /\ IF quiet
     THEN LeaveCleanly(upsets)
     ELSE /\ quiet' = TRUE
          /\ UNCHANGED <<install, code, daemon, loaded, arrivals, verified, saved, ended, asked,
                         turn, conn, upsets, since, repeated, forgotten, broken>>

Kill ==
  /\ daemon # "off" /\ Upset
  /\ Leave /\ ended' = "killed" /\ broken' = TRUE
  /\ forgotten' = forgotten \cup Lost(saved, arrivals)
  /\ UNCHANGED <<install, code, saved, asked, turn, since, repeated>>

-----------------------------------------------------------------------------
(* Serving.                                                                *)

Accept(f) ==
  /\ daemon = "serving" /\ conn[f] = "queued"
  /\ conn' = [conn EXCEPT ![f] = "accepted"]
  /\ quiet' = FALSE
  /\ UNCHANGED <<install, code, daemon, loaded, arrivals, verified, saved, ended, asked, turn,
                 upsets, since, repeated, forgotten, broken>>

\* Mutant of NeedsCheck: verified once per process.
NeedsCheckOnce(v) == verified = {}

NeedsCheck(v) == v \notin verified

nextIndex(v) == arrivals[v] + 1

Answered(v) == {g \in Frame : g[1] = v /\ conn[g] = "answered"}

\* Mutant of StaleRequest: the request is dropped, the process stays.
StaleRequestDropped(f) ==
  /\ NeedsCheck(f[1]) /\ loaded # code
  /\ UNCHANGED vars

\* The code differs: nothing is answered and the process exits.
StaleRequest(f) ==
  /\ NeedsCheck(f[1]) /\ loaded # code
  /\ ExitStale

\* The body is in; the rest of the request is one step of the event loop.
Answer(f) ==
  LET v == f[1] IN
  /\ ~(NeedsCheck(v) /\ loaded # code)
  /\ verified' = verified \cup {v}
  /\ arrivals' = [arrivals EXCEPT ![v] = IF nextIndex(v) < FRAMES THEN nextIndex(v) ELSE 0]
  /\ repeated' = IF nextIndex(v) = Cardinality(Answered(v)) + 1 THEN repeated ELSE repeated \cup {v}
  /\ conn' = [conn EXCEPT ![f] = "answered"]
  /\ UNCHANGED <<install, code, daemon, loaded, quiet, saved, ended, asked, turn, upsets, since,
                 forgotten, broken>>

Handle(f) ==
  /\ daemon = "serving" /\ conn[f] = "accepted"
  /\ StaleRequest(f) \/ Answer(f)

-----------------------------------------------------------------------------
(* Starting.                                                               *)

\* Mutant of Failure: the exit for new code says that all is well.
FailureQuiet == ended = "killed"

\* The task restarts on an exit code that is not zero: a kill, or code 90.
Failure == ended \in {"killed", "stale"}

Wanted ==
  IF supervisor = "socket" THEN \E f \in Frame : conn[f] = "queued" ELSE Failure \/ asked

\* Mutant of Adopted: the file is read once a socket is taken, if at all.
AdoptedLate == [v \in Invocation |-> 0]

Adopted == saved

\* The code is compiled and the file adopted before any socket is taken.
Start ==
  /\ daemon = "off" /\ Wanted
  /\ daemon' = "loading"
  /\ loaded' = code /\ verified' = {} /\ quiet' = TRUE
  /\ ended' = "none" /\ asked' = FALSE
  /\ \/ arrivals' = Adopted /\ UNCHANGED <<upsets, broken>>
     \/ /\ Upset
        /\ arrivals' = [v \in Invocation |-> 0] /\ broken' = TRUE
  /\ forgotten' = forgotten \cup Lost(arrivals', saved)
  /\ UNCHANGED <<install, code, saved, turn, conn, since, repeated>>

Listen ==
  /\ daemon = "loading" /\ daemon' = "serving"
  /\ UNCHANGED <<install, code, loaded, arrivals, verified, quiet, saved, ended, asked, turn,
                 conn, upsets, since, repeated, forgotten, broken>>

\* New code is delivered to the directory the daemon runs from.
Deliver ==
  /\ code < MaxVersion /\ code' = code + 1
  /\ UNCHANGED <<install, process, saved, ended, asked, turn, conn, upsets, since,
                 repeated, forgotten, broken>>

Next ==
  \/ Prompt \/ EndTurn \/ Deliver \/ Start \/ Listen \/ CodeNotice \/ Signal \/ IdleTimer \/ Kill
  \/ \E f \in Frame : Connect(f) \/ Abort(f) \/ Accept(f) \/ Handle(f)

Spec == Init /\ [][Next]_vars

\* The supervisor starts what it was asked for and the event loop runs.  It
\* polls its sockets before a timer of a second or more can fire, so the
\* frames that wait are not for ever overtaken by the idle timer.
FairSpec ==
  /\ Spec
  /\ WF_vars(Start) /\ WF_vars(Listen)
  /\ SF_vars(\E f \in Frame : Accept(f)) /\ WF_vars(\E f \in Frame : Handle(f))

-----------------------------------------------------------------------------
\* A frame is never answered by code older than what was on disk when its
\* action began, across deliveries, lost notices and restarts.
AnswersAreFresh ==
  [][\A f \in Frame : conn[f] = "accepted" /\ conn'[f] = "answered" => loaded >= since[f[1]]]_vars

\* No frame gets an index out of its turn unless a restart forgot its action,
\* and short of a kill and of a file not written or not read, a restart forgets
\* an action of the client lane only: it is invisible to those of the ports.
RestartIsInvisible ==
  /\ repeated \subseteq forgotten
  /\ broken \/ forgotten \subseteq ByRendezvous

\* hooks/http-server.js:2304: the tables are passed to every server, so that no
\* clean restart is seen by an action in flight, whatever its lane.
EveryLaneKeepsItsOrder == broken \/ repeated = {}

\* A frame that reached the queue is answered or told that nobody will.
EveryFrameEnds ==
  \A f \in Frame : conn[f] = "queued" ~> conn[f] \in {"answered", "lost"}

\* A daemon that left for new code is brought back without a prompt, where the
\* next connection would not.
NewCodeReturns == (supervisor = "task" /\ ended = "stale") ~> daemon = "serving"

\* daemon-ensure.js:14: a session that was prompted always finds a daemon.
PromptFindsDaemon ==
  turn /\ supervisor = "task" => daemon # "off" \/ asked \/ Failure
=============================================================================
