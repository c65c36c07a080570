# ctxroute, in TLA+

ctxroute injects documents into the context of a coding agent: hooks of the harness ask, at each
tool call, which documents the call matches, and get back the text the agent has not seen yet.
What is hard in it is not the matching but the bookkeeping around it: the harness opens several
connections per action, each hook is a process that may die anywhere, a resident daemon answers
beside processes that answer alone, and a document marked as seen that was never delivered is
never delivered at all. These modules model that bookkeeping, the TLC configurations check it on
small instances, and the proof modules prove their safety properties for any size.

Paths below are those of the source tree; the code is under `src/src/`.

    tlc -workers 2 -config Delivery.cfg MCDelivery        # a run
    tlapm DeliveryProofs.tla                              # the proofs

## 1. The system

| component | state it keeps | operations | talks to | what must hold |
|---|---|---|---|---|
| lock (`lock.js`) | a directory, a pid file in it, its mtime | `withLock`, `holderStatus`, `forceRelease` | every process that writes state | one holder; every call returns; no leaked lock |
| delivery transport (`frame-sequencer-pure.js`, `carryover-pure.js`, `emission-core.js`, `pretool-core.js`, `http-server.js` `handle`) | sequencer and carryover tables in the daemon; `doc-seen-`, `remainder-`, `plan-` keys in the store | next index, harvest, replay, decision, fallback, purge | lock, store, gate, budget | content that was consumed is delivered, once, in order |
| frame budget (`budget.js`) | none | split, order, plan frames | transport | frames are consecutive, progress is made |
| state owner channel (`thread-channel-pure.js`, `owner-client.js`, `state-owner-thread.js`, `owner-ops.js`) | slots and words of a shared buffer; a memo per thread; stamps | post, scan, answer, memo, drain | serving threads, resident memory | an answer is mine, nothing executes twice, no lost wake-up, the memo is current |
| commuting state (`state-crdt-pure.js`) | three replicated classes | bump, recall, decide, emit, merge, compact | nothing calls it yet | replicas converge and forget nothing |
| resident memory (`memory-store*.js`) | the plans of the invocations in flight, coldest first; their weight; the mutations not yet saved | load, save, purge, flush, restore, evict | owner, session state | a kill loses fewer than `PERSIST_EVERY` mutations, or all of them when it cuts the write; the coldest plan leaves first |
| session state (`session-store.js`, `state-eviction*.js`, `ctxroute-reset.js`) | one JSON file per key, temporary siblings | load, save by rename, purge of a scope, sweep | every hook | what was saved stays, what was purged stays away, a read answers a value its key had |
| turn counter (`turn-core.js`, `turn-count.js`) | `turn-count-` | count a prompt, announce a refused connection | lock, session state | one prompt counts once |
| cadence gate (`gate.js`) | `doc-seen-`: per document, whether it was recalled, its drift, its turn, its refusal | decide, before the action and after its answer, with the lock or without | transport, turn counter | a refused action passes when retried; a document comes back after exactly its threshold |
| wrap-up gate (`wrap-up-pure.js`, `judge-runner.js`, three hooks) | `wrap-up-`: last measure, refusals, release; `touched-`: files written | touch, observe, judge, block | session state, turn counter | a context is refused a bounded number of ends of turn; a release is final; a list called complete is |
| daemon lifecycle (`http-server.js`, `stale-code.js`, `freshness-scope-pure.js`, `daemon-ensure.js`, the unit files) | the code it compiled, the actions it verified, the file of arrivals | check, exit, idle, signal, adopt, listen | the supervisor, the transport | no answer from old code; a restart is not seen by an action; the daemon comes back |
| serving threads (`server-thread.js`, `http-server.js`) | none of their own | the transport, one round trip at a time | owner channel | what one invocation owes is taken over once |
| corpus cache (`corpus.js`, `corpus-cache.js`) | what was read, one watcher per directory | read, watch, keep, drop | the file system | what is served is current, or the daemon was told |
| client lane, notices, matching, guards, wiring, logs | see the list of components | | | |

How they interact. A hook is a short process. It asks the resident daemon over a socket, or does
the work itself when there is none. The daemon handles one request at a time on its main thread
(`http.workers` = 0, the default); with workers, each is a thread that reaches the state through
the owner channel. Both lanes take the lock of the agent's scope around read, decide, write. Both
end in `pretool-core.js`. A compaction of the agent's context purges the scope.

The hard behaviours, each listed in `PROJECT.json` at the line where it bites:

- two contenders judging the same dead lock holder; a death between a mkdir and its record;
- frames of several invocations of one scope, in any order, some never arriving, some late;
- a timeout on the lock while another frame of the same invocation decides;
- a compaction between the decision of an invocation and the frames that serve it;
- a client that gave up and whose late answer lands in the slot of its next request;
- a doorbell rung between a scan and a sleep, a stop notified just before a sleep;
- a memo revalidated on one key and trusted on another, a stamp that means two things;
- replicas merged one class at a time, in any order, around a compaction;
- an action refused and retried, with any number of other decisions in between, some of them sharing
  its documents, some without the lock, some after an answer;
- a reader in the window of a rename, a sweep that takes no lock, a purge that holds one lock and
  sweeps several keys, a writer that dies beside its temporary file;
- a record read before the judges of an end of turn are awaited, and decided on after; a sensor that
  lands late; a save that fails where its caller goes on;
- a kill between two flushes, or between the count and the write it asks for; a weight that must follow every overwrite;
- a daemon that exits between two frames of an action, because it is idle, stopped or out of date, and
  saves the tables of its ports only;
- a document that changes between its reading and the arming of its watcher, or whose event the kernel loses;
- a turn counter read before the lock and used under it; a lock or a file the system refuses to remove.

## 2. The modules and the code

### Lock.tla, MCLock.tla, LockProofs.tla

`withLock` one system call per step: `MkdirWins`, `MkdirTaken`, `RecordHolder`, `RecordFails`, the
two halves of `holderStatus` (`ReadHolder` then `AskKernel`, or `StatLock`), the two halves of
`forceRelease` (`Unlink`, `Rmdir`, or `RemovalRefused`, whose failure the code swallows), the release, the deadline. The directory, its record and whether
it is older than `UNIDENTIFIED_HOLDER_MS` are the shared state. `Die` and `Age` are the
environment: a process may die in any state, a directory without a record may grow old, and
whether that may happen while a living process is between two calls is the constant `MayStall`.
Sleeps and transient mkdir errors return to the head of the loop and are stuttering. A dead pid is
never reused: the source names that as its residual 1. Four ghosts remember who made the standing
directory (`owner`), whether a removal ever hit a living holder (`evicted`), which processes were refused the
removal of their own record (`refused`), and whether one took the record and left the directory (`bared`). A
process that was refused goes on, and its lock stays taken for as long as it lives.

### Promise.tla, Delivery.tla, Budget.tla, MCDelivery.tla, DeliveryProofs.tla

`Promise` is the abstract specification: each chunk of a `once` document is undecided, owed,
delivered or forgone; documents are consumed whole; what is delivered stays delivered; only a lock
timeout or a compaction may forgo something. `Delivery` implements it (`PromiseKept`, a refinement
whose mapping is `StatusOf`).

In `Delivery` a frame is one step, because `handle` is synchronous on the main thread and the
store's files are only written under the lock of the scope. A frame takes its index from the
sequencer (`Arrive`, `Index`), is observed by the carryover table (`Observe`), and ends in one of
four ways: `FrameOfHarvested`, `FrameReplay`, `FrameDecide` (read, order, cut, save the remainder,
then the seen set, then the plan), `FrameFallback` (the lock stayed taken: the once documents are
left out, nothing is written). A connection that never arrives is one that takes no step. `Purge`
empties the store and not the tables, as the purge route does. `NewInvocation` gives a name to a
new tool call. The fallback and the frames of several invocations interleave freely.

Content is a set of chunks, and a cut is a parameter: `Through(s, k)` is how many segments of `s`
go out in its first `k` frames, and `CutAssumption` asks only that it be monotone, from nothing.
`Budget` is the cut of `planFrames`: a list that fits one frame goes out whole (`Lone`, in a room of its own, `Whole`,
for its header is shorter); otherwise the frames are filled greedily, and the last one must also fit the notice of what
it leaves (`Notice`), yet takes one segment without it when nothing fits. The runs use it; the proofs hold of every cut, and the cut of `Budget` is proved to be one. The gate is reduced to what the transport sees of
it: a `once` document is due until recorded, any other is due at each action.

### OwnerChannel.tla, Service.tla, MCOwnerChannel.tla, OwnerProofs.tla

One step per access of the shared buffer that another thread can see. A client writes its payload
(`Ask`), then its slot (`Post`), then the doorbell (`Ring`), then looks at its slot until a verdict is
there (`TakeLast`, `TakeValue`, `TakeStamp`, `TakeSameStamp`, `TakeOtherStamp`) or gives up
(`GiveUp`), leaving its request behind. The owner reads the doorbell, scans the slots, executes
(`OwnerServes`), writes the answer and the generation (`OwnerAnswers`), publishes the verdict, and
sleeps on the doorbell it read (`OwnerWaits`) for a slice at most. `Stop` is `drainOwner`: its
notify moves no doorbell. The memo of `loadState` is modelled with its generation and stamps.

`Service` is the abstract specification: a question takes effect on the store at one moment between
its asking and the taking of its answer, once, and is answered with what the store held at that
moment. The round trip of a thread is its request until the owner executes it, then the answer,
which is the owner's until it is published and the slot's after (`Trip`); what took effect is what was
executed (`Executed`). A thread that gave up is promised less: its posted request and its next call
share one slot, so an answer may be that of the earlier one, and `Service` keeps only that nothing takes effect twice.

Abstractions: a message is one record, so bytes are never half written (the slot word orders
them); the client's 50 ms slices are a free re-check; the six operations on the transport
tables behave on the channel as a `saveState` does, never memoised; the memo's ceiling of 32 keys is
not reached with the keys a run has. `Restored` (keys found on disk), `Warm` (threads with a
filled memo) and `Oversized` (values found on disk that do not fit a slot, whose answer is refused) are constants, so that
short runs reach the interesting states. A client refuses a save that does not fit before it posts anything (`SaveRefused`). A save writes the number of its request, so two saves
never write the same value.

### StateCrdt.tla, MCStateCrdt.tla, StateCrdtProofs.tla

Every operation, merge and compaction of `state-crdt-pure.js`. Two writers operate on their own
replicas; any peer, the copy on disk included, merges any other, one class at a time, whenever it
likes. Nothing in the repository calls the module yet, so no order of calls is assumed. The ghost
`known` holds the operations a replica has received, and the properties compare a replica with
it. The drift in turns (`driftTurns`) reads a watermark of one class against the counter of another: a replica that merged the first
and not yet the second may read a negative drift, so the property reads every watermark against the increments of both
writers. A segment's value is ranked by `(seq, text)`; an absent watermark is `NoMark`.

### Gate.tla, MCGate.tla, GateProofs.tla

`decide` for one scope, as `pretool-core.js` calls it: `DecideBefore` and `DecideAfter` are the
leading frame (`Lead`: read, decide, save if something changed), the two `Lockless` actions the frame
that did not get the lock (`Fallback`: read, decide, never a once document, never a refusal, nothing
written). An action that was let run may be answered once (`running`); several may be in flight, and
the harness may send any action at any time. The settings resolve through the four stages of the cascade
(`resolveSetting`); which documents an action selects, under which names a filter list reaches it,
which answers satisfy the filter of a document, and whether its category admits the scope are
constants. `Turn` is the bump of the turn counter; `LoseTurns`, `EvictSeen` and
`Compact` remove the counter, the documents, or both, as an eviction, a malformed record or a compaction do; a
compaction that gets one of its two locks only is one of the first two.

A frame that matches a document counted in turns reads the counter in a step of its own (`ReadTurns`), before
the lock, and decides later on what it read (`reading`): turns and other decisions come in between, and a
decision overtaken by another may read a drift of -1 and write an older turn over a newer one.

Abstractions: configuration and corpus do not change during a session; the lists
`filteredOut` and `categoryOut`, which only feed a message, are left out. The ghosts count on
their own what the entries are supposed to measure: `ignored` the recorded actions a document was
not part of, `elapsed` the turns since the reading its recall went by, `passed` those since the reading of a
decision to come, `owed` the refused actions not yet followed by
one that shares a document with them.

### SessionStore.tla, Register.tla, MCSessionStore.tla, SessionStoreProofs.tla

The files of `state/`, one system call per step. A writer takes the lock of its key, opens the file
(`Open`), lists the directory when the name is not there (`List`), writes a temporary sibling
(`WriteTmp`) and renames it (`PublishTmp`). Where `platform` is "windows" the replacing rename has two moments
(`StartRename` first), and fails while the file is open (`RenameFails`, up to `RENAME_RETRIES`). A reader does the same
reads without the lock. A purge (`StartPurge`, `ListNames`, `Remove`) takes the lock of one key, lists
under it, and removes the files of that key and of the sub-agents under it, whose own locks it
does not hold; a listing or a removal that throws ends the section there (`PurgeAborts`). `EvictCold` and `EvictScratch` are the sweep of a prompt, which takes no lock. `Kill` is the death of a
writer; the lock is then free, which is what `Lock` shows. A record is a set of facts and a save adds one. `Register`
is the abstract specification: a read answers a value the key had while it read, or nothing if it
was made without the lock across a replacement (`ReadsAreRegular`, a refinement). The mapping shows it the content
of the files (`Values`), the keys in the window of a rename (`Replacing`), the reads under way (`Reads`) and the readers
that may find nothing there (`Hollow`: those without a lock, on Windows).

### WrapUp.tla, MCWrapUp.tla, WrapUpProofs.tla

The three records of a session with the `wrapUp` option on. `Stop` reads without the lock and
starts the judges; `Decide` reads again and writes under the lock, with any verdicts; between the two,
sensors land (`Observe`), files are recorded (`WriteFile`), other contexts begin (`Compact`). `decide`,
`withObservation`, `withTouched`, `isDue` and `sensorSilent` are the functions of `wrap-up-pure.js`, over
a measure that is above or below the threshold. `Saved` and `NotSaved` are a save that works and one
that fails in silence; `Skip` is a hook that gets no lock or dies. `Prompt` and `PromptRefused` are the
two lanes of `turn-count.js`, whose record the silent sensor is told from.

### Resident.tla, MCResident.tla, DaemonProofs.tla

The plans of the daemon in the order of their last use, their running weight and the mutations not
yet in the snapshot. `SaveState` is delete, set, evict and count in one step, for the daemon's main thread does not
give way inside it. The count resets the backlog and then writes, so `WriteSnapshot` is a step of its own, made while
`up` is "saving" (a write the count asked for) or "leaving" (the flush of a clean exit): a kill may fall before the
rename ("cut"), and the write may fail without its caller knowing, as the `catch` of `writeSnapshot`
does. `CleanExit`, `Die` and `Restore` are the ends and the beginning of a life. The keys that outlive an
action are forwarded to the files of `SessionStore` and are not here, but a purge counts the files it removed.
The ghost `older` keeps the order of last use beside the code's map, as a relation between plans that only `Use`
and a restart change: `ColdestLeaves` compares an eviction with it.

### Daemon.tla, MCDaemon.tla, DaemonProofs.tla

One daemon after another. A frame connects, is accepted, and is answered in one step of the event
loop (`Handle`): the first frame of an action compares the code (`NeedsCheck`), and a difference ends the
process (`StaleRequest`) as a notification does (`CodeNotice`). `IdleTimer`, `Signal` and `Kill` are the other ends. The
exit writes the table of arrivals and `Start` adopts it before `Listen`; either may fail. The file is that of the
tables the ports share (`Shared`); the server of the rendezvous is built without them and counts in tables of
its own, which no file holds, so `arrivals` is both and `ByRendezvous` says whose frames come there. The ghost
`forgotten` holds the actions whose row was not carried from one process to the next. The
supervisor is a constant set: a socket unit keeps the queue of the ports across lives (`Held`: not that of the rendezvous), a task
restarts on a failure code or when a prompt asks. What belongs to the system outside `src/` (the queue of the kernel,
the scheduler's answer) is modelled from the unit files.

### Pool.tla, MCPool.tla, DeliveryProofs.tla

`Delivery` again, when threads serve. The tables are now behind the owner channel, so a
frame is one step per round trip: `Take` (its index), `Ask` (was its invocation harvested), `Note` (its
arrival), then, under the lock of the scope, `Replay` or `List`, `LookAt` for each invocation that owes, and `Decide`; `GiveUp` is
the fallback. The operators and the tables are those of `Delivery.tla`.

### Corpus.tla, MCCorpus.tla, DaemonProofs.tla

A key of the cache is a root or a single file. A miss reads the files one by one (`Walk`), arms one
watcher per directory it entered (`Arm`), and keeps the snapshot (`Store`) unless a ceiling is reached or a watcher
is refused. Files change at any time (`Change`); the kernel tells any part of the watchers of the directory, and the ghost
`untold` holds the keys it did not tell. A notification waits until the daemon is between two requests (`Notify`).

## 3. The runs

| run | instance | states | shows |
|---|---|---|---|
| `lock` | 2 processes, 1 death, 1 refused removal, stalls allowed | 335 784 | mutual exclusion unless a living holder's lock was removed; a removal needs a death, a stall or a bared directory; no lock is leaked but by a refused removal; every call returns |
| `delivery` | 2 invocations of 2 frames, 3 documents in 5 chunks, 1 timeout, 1 compaction | 44 887 | nothing is delivered twice, lost without a fault or owed by two; the promise is implemented |
| `delivery_fallback` | the same, 1 timeout, no compaction | violated | a timeout loses content |
| `owner` | 2 threads, 2 keys, 2 calls, 1 give-up, a stop anywhere | 333 004 | a call takes effect once, at one moment (`Service`), no lost wake-up, every call returns, a stop drains |
| `state_crdt` | 3 peers, 1 document, 1 segment of 2 values, 3 operations | 93 202 | convergence, no lost count, no watermark ahead of its counter, the last recall decides, what is owed is kept |
| `gate` | 3 actions, 6 documents, drift up to 2, 2 turns | 656 776 | a retry passes, drift is the number of ignored actions, or of turns between two readings |
| `session_store` | a session and a sub-agent, 2 writers, 1 reader, 1 purge, 1 death, 1 eviction, both platforms | 286 634 | saves survive, purges are final, reads are those of `Register` |
| `wrap_up` | 2 files, 2 judges, 2 refusals allowed, 1 failed save, 1 skipped hook, 1 compaction | 585 520 | refusals are bounded, a release is final, a complete list is, every turn ends |
| `resident` | 3 plans of 2 scopes, weights 1, 2 and 4 under ceilings of 2 and 3, 3 lives, 1 failure | 181 027 | the ceilings and the running weight, a write keeps its plan and the coldest leave, the backlog is known, a kill inside the write included |
| `daemon` | 2 actions of 2 frames, one by the port and one by the rendezvous, 1 delivery of code, 1 upset, both supervisors | 198 402 | no answer from older code, no index of the port repeated by a restart, frames end, new code returns |
| `pool` | 2 threads, 2 invocations of 3 frames, 4 chunks, 1 timeout | 45 608 | a harvest is exact unless it meets a frame in hand, requests end |
| `corpus` | 2 roots over 2 directories, 2 single files, 2 changes per file, 1 refused watcher, 1 lost event | 3 082 325 | stale is told, but for the window and the lost event; watchers and ceilings are kept |

Why these bounds are enough to be interesting. *lock*: one death is needed to force a lock at all;
two processes are a holder and a contender; the one refusal is of a process's own record or of a directory
left bare. *delivery*: two units per frame against documents of five and one
makes a decision fit one frame, need both, or overflow into the queue; two invocations are one
that owes and one that harvests, and names are reused, so a behaviour has any number of tool
calls; one timeout and one compaction are each enough to forgo content, and together they meet in
both orders. *owner*: a slot is private, so threads meet only in the owner's scan, the
doorbell and the memo, for which two suffice; of the two keys one was found on disk and does not fit a slot; one of them is warm, one is cold, so the two calls
take each path of the memo; the one give-up leaves an abandoned request for the next call of the
same thread. *state_crdt*: merges are not counted, so the replicas exchange what three operations
made in every possible way. *gate*: the actions overlap in a dumb document that enforces and in a
smart one, so each of them can disturb what another rests on, and one of them is alone with a document that
counts turns; thresholds are 1 and 2, so `MaxDrift` = 2 reaches both sides of each comparison,
and two turns pass the one of `clock` with one of them between a reading and its decision. One document is cut by a filter and one by its category, to be foreign to an
action that selects them. Runs of any length are explored; only the drift and the turns are bounded.
*session_store*: two writers of one key contend for a lock and a content, the reader meets both, and a
session with one sub-agent tells the key a purge locks from one it only sweeps; two retries are a
first attempt and a last. *wrap_up*: two refusals are a first one and a last one; one file is covered by two
judges, the other by one, and a session that wrote neither by none, for no judge covers the directory; one file is past the ceiling of the list; one
failed save and one skipped hook may fall on any of the five hooks. *resident*: a weight of 4 is a plan
that exceeds the ceiling alone, three mutations are a tick, a kill may fall inside the write, and two restarts let a snapshot be written, adopted,
and written over. *daemon*: two frames are a first one that checks and a last one that forgets; two
actions share the check and not the table, for each comes by one lane; one delivery can fall between any two steps, as can the one upset,
be it a kill, a signal, an aborted request or a file not written. *pool*: three frames leave two owed, so that a harvest
has something to transfer while another frame is still to come, and the fourth chunk is one that waits
in the queue. *corpus*: two versions after the first let an entry go stale, be dropped, read again and go stale again, and
a lost event be followed by one that is told.

Liveness and fairness. `lock`: weak fairness of each process's next system call and of its
deadline, for a living process keeps being scheduled and the clock moves; nothing is assumed
of deaths or of the age of a directory, nor that a mkdir wins. `owner`: weak fairness of the owner's
and of each client's steps, for both are threads of one process and `Atomics.wait` is called with a
timeout, so that a sleep of one slice ends; no fairness of new calls, of give-ups or of the stop. After a
stop, a request posted behind the owner's last scan is answered by nobody and its client waits for
its ceiling, so `EveryCallReturns` says "or shutdown". `wrap_up`: weak fairness of the end of a turn, for an agent that works stops at some point, and of the hook
that judges it, whose judges run under a bound (`judge-runner.js`) and which has a deadline of its own; none of sensors, prompts or compactions. `daemon`: weak fairness of
the start that the supervisor was asked for, of the end of loading, and of the handler of an accepted request;
strong fairness of accepting, because the idle timer may come between, but the event loop polls its
sockets before a timer of a second or more fires again. `pool`: weak fairness of each thread: a thread is blocked
only in the wait for the lock or for the owner, and both end. Deadlock is checked in the `delivery` and
`gate` runs, where tool calls go on for ever; the others may stop (everybody dead, all calls
made, an owner that is gone, all operations, changes or lives used). `gate` states no liveness, for the code promises none: a document is
delivered when an action selects it; nor do `session_store`, `resident` and `corpus`, whose operations are bounded loops.

Each property of a passing run has a mutant in `PROJECT.json`: a plausible bug of the code under
which the same run fails.

## 4. What disagrees with the code's own words

`delivery_fallback` is a run of the project: the fallback of `pretool-core.js:492` is said to delay and
never to lose, but the frame's index was already observed, so the chunks at its position are recorded as seen and
nobody serves them. The other counterexamples below are not runs; each is reproduced by the
configuration named, for example `tlc -config Lock_aba.cfg MCLock`, and TLC reports the property violated.

| configuration | module | property | what the code says, and what happens |
|---|---|---|---|
| `Lock_aba` | MCLock | `LivingHolderNeverEvicted` | `lock.js:54` "a living holder must never be evicted". Two contenders read the pid of a dead holder; one removes the directory and takes the lock; the other, on its old answer, removes the new lock (`lock.js:226`): `forceRelease` never asks whose directory it is. |
| `Delivery_order` | MCDelivery | `FragmentsTogether` | `budget.js:755` "a fragmented document is NEVER interleaved with another". `emission-core.js:171` puts what another invocation still owed behind the queue, which holds what that same plan deferred after it. A last frame that does not connect is enough. |
| `Pool_twice` | MCPool | `OwnershipMoves` | `carryover-pure.js:34` "without it, a late frame of the harvested invocation would serve a chunk the harvester has just taken over", and `:38` atomic "because the daemon is single-threaded". With serving threads, a frame past `isHarvested` on one thread is answered after another thread harvested its invocation: a chunk is delivered twice. |
| `OwnerChannel_memo` | MCOwnerChannel | `MemoIsCurrent` | `owner-client.js:174` "it is revalidated, never trusted". A key whose stamp has not moved makes the client adopt the generation for its whole memo (`:185`); another key is then answered as it was before a write. With two clients and one key the property also fails because the value and its stamp are two requests. |
| `OwnerChannel_stamp` | MCOwnerChannel | `StampProvesValue` | `owner-ops.js:218` "a forgotten key stamps 0, which matches no held stamp". A key that was only restored is handed out with the stamp 0; its purge stamps 0 again, and the reader keeps the purged value. |
| `SessionStore_absence` | MCSessionStore | `AbsenceIsAFact` | `session-store.js:74` "No sibling: the absence is a FACT". The rename may end between the failed open and the listing, which then shows no sibling: the reader answers nothing for a key that always had a value. |
| `SessionStore_sweep` | MCSessionStore | `SweptStaysSwept` | `ctxroute-reset.js:140` "the sweep, under the same lock as every other writer". It holds the lock of the compacted key; a sub-agent's hook holds its own, and republishes what the purge removed. |
| `WrapUp_fresh` | MCWrapUp | `FreshContextOwesNothing` | `wrap-up-stop.js:152` "a new context starts fresh and owes nothing yet". A sensor of the old context that lands after the purge puts its measure into the new one. |
| `WrapUp_refused` | MCWrapUp | `RefusalSaidOnce` | `turn-count.js` means to announce a refused connection once; the next bump writes the whole record (`turn-core.js:50`) and drops the mark. |
| `WrapUp_trap` | MCWrapUp | `EveryTurnEnds` | the bound of `maxNudges` is meant to let every agent go; on a disk that stays full the count is never saved, and every end of turn is refused for ever. |
| `Resident_flush` | MCResident | `CleanExitSavesAll` | `memory-store.js:42` "the state survives a CLEAN restart ENTIRELY". A periodic write that failed has already reset the count of mutations, so the flush of a clean exit finds nothing to write. |
| `Daemon_idle` | MCDaemon | `PromptFindsDaemon` | `daemon-ensure.js:10` "always finds a daemon before its first tool call". A prompt asks while the daemon runs, the scheduler ignores it, and the idle timer ends the daemon before the first call. |

Four more are shown by adding a definition that stands in the module to the configuration of its
run: `CompactionUnseenByMerge` (StateCrdt.cfg) against `state-crdt-pure.js:133`, for a peer that carries one half only makes a compacted
segment owed again, said twice rather than lost; `OnceRefuses` (Gate.cfg) against `gate.js:216`, for a once
document met behind another document's refusal is consumed without having refused; `EveryLaneKeepsItsOrder` (Daemon.cfg) against `hooks/http-server.js:2300`
"SO THEY ARE PASSED TO EVERY `createServer` BELOW, WITHOUT EXCEPTION", for the rendezvous is built without the
tables (`:2772`), gets default ones (`:1197`), and no file holds those: after a clean exit the next frame of an
action of the client lane gets the first index again, with no kill and no failed write; and `AlwaysTold`
(Corpus.cfg) against `corpus-cache.js:67` "We never serve what we cannot be told about", for a change between the reading of a
document and the arming of its watcher is never told, where the comment at `corpus-cache.js:313` looks at a drop only, nor
is one whose event the kernel loses, which `hooks/http-server.js:1303` says of all three kernels.

Met while modelling, and shown by no configuration. `forceRelease` swallows every failure, where its comment (`lock.js:150`)
names a race only: a living process then leaves its pid on disk, and the lock is taken until it dies.
`memory-store.js:228` bounds the cost of a kill by N-1; inside the write it is N. A replica that merged `doc-seen-` and not
yet `turn-count-` reads a negative drift in turns, and so does a decision of the gate that another overtook between its
reading of the counter and its lock. A read that fails otherwise than for an absent file answers an empty record (`session-store.js:91`),
which the next save writes over the file. Two actions that share a dumb document that enforces: the
second consumes the pass of the first, whose retry is refused again (`RetryPasses` therefore speaks of
actions that share no document). A document that waits for an answer is foreign to its own action
before it runs, so that action adds to its drift. A turn counter that is lost makes the drift of the
documents it recalled negative, and they are silent until it catches up, where `turn-core.js:34`
expects one re-injection (`TurnDriftIsElapsed` excludes them by `lost`). A temporary file whose writer died is
said to wait for the sweep of a compaction (`session-store.js:78`), which removes `.json` names only; the age eviction removes it. The file of
arrivals is never deleted, so a kill that follows a clean exit brings back the table of an earlier life.
`kernel-bind.js` takes any failure to connect for a dead entry, where its header names one, and looks before it
unlinks.

## 5. What is proved

All the theorems below are checked by TLAPS for every value of the constants, from the named
assumptions of the modules (`LockAssumption`, `DeliveryAssumption`, `FreshAssumption`,
`CutAssumption`, `CrdtAssumption`, `ChannelAssumption`, `GateAssumption`, `StoreAssumption`, `WrapUpAssumption`,
`DaemonAssumption`, `CorpusAssumption`, `ResidentAssumption`), which TLC evaluates in the runs. Every invariant, action
property and refinement of the passing runs is a theorem.

- **LockProofs** proves `TypeOK`, `MutexUnlessEvicted`, `EvictionNeedsFault` and `NoLeakedLock`. The invariant adds to the
  typing that a process between its mkdir and its release owns the standing directory as long as
  nobody was evicted (`Ownership`), and, while there is no death, no stall and no bared directory, that a removal in progress is always that of
  the owner (`Calm`). That no lock is leaked needs neither: a living process whose pid is on disk is in its section,
  releasing, or was refused the removal of its own record (`Recorded`), for whoever takes the directory away takes the record with it.
- **DeliveryProofs**, for `Delivery`, proves `TypeOK`, `NeverTwice`, `OnePending`, `Accounted`, `ForgoneNeedsFault`, and that
  `Delivery` implements `Promise`. None of these is inductive alone. The invariant says how the sequencer and
  the carryover count the arrivals (`Counting`), that the first frame decides in an
  undisturbed run (`FirstDecides`), and that a chunk is in one place at most: queue, an owed frame,
  or the agent (`OnePlace`). The refinement has one step per way a frame ends.
  For `Pool` it proves `TransferIsExact`. With threads a frame is in hand for several steps, so a chunk has a third kind
  of place: the frames that are still to be answered, in service or to come (`Left`). While nothing timed out and
  no harvest crossed a thread (`Calm`), each chunk is delivered, or `Still` (queued, or in the hands of the thread that
  harvested it), or `Moving` with exactly one invocation (`OnePlaceEach`); that one thread is inside the lock
  (`OneInside`), knows what it has listed (`Harvests`) and serves the frame its counters say (`InService`, `Counted`) is
  what each round trip needs.
  For `Budget` it discharges `CutAssumption`: the greedy cut starts from nothing, stays within the list and never
  goes back (`CutOfBudget`), for every list, sizes, notices and rooms; and a frame overflows only as the forced segment
  of the last one, is filled as far as it goes, the last one with its notice, and makes progress, while a list that fits one frame goes
  out whole (`FramesOfBudget`).
- **OwnerProofs** proves `TypeOK`, `AtMostOnce`, `AnswerIsMine` (which no run lists: `CallsAreAtomic` says more) and `NoLostWakeup`. The requests in the
  slots have numbers of their own, and one that was executed is the one the owner is about to
  answer (`Numbers`): this holds whoever gave up. For a client that never gave up, `Mine` follows
  its request from the payload to the verdict. For the doorbell, `Awake` says that the slots the
  owner has passed hold no request whose ring it would not hear.
  It also proves that the channel implements `Service` (`ChannelIsAtomic`). `ServiceInv` adds to these that the answer
  being published is already in the payload of its slot (`Copied`). A step of a thread is an `Ask`, the end of
  its call, a give-up or a stutter (`ThreadActs`); the owner's `OwnerServes` is `Serve`, or `ServeLate` for a thread
  that gave up, and every other step of the owner leaves the trips as they were (`TripStill`).
- **StateCrdtProofs** proves the merges to be idempotent, commutative and associative
  (`DocSeenSemilattice`, `TurnsSemilattice`, `RemainderSemilattice`), the typing and the five properties of the run. The invariant says
  that a replica is a function of the operations it has received: a watermark is the
  latest mark received, a slot of a counter the number of increments received from its writer, a decision the lowest
  rank received.
- **GateProofs** proves the properties of the run, its typing and `OwedIsRemembered`. `RetryPasses` rests on `OwedIsRemembered`, which the
  typing makes inductive: only a decision that keeps a document rewrites its refusal, and then the action is no
  longer owed. The two drift properties rest on `DriftStored` and `TurnStored`: the entry of a document holds
  what the ghost counted, up to the bound of the ghost; and on `ReadStored`, that what a decision to come has read is the counter
  less the turns that passed since.
- **SessionStoreProofs** proves `RecordsSurvive` and `PurgedStaysPurged`. Neither is inductive: what makes them
  true is what a writer knows while it holds the lock (`WriterOK`). What it read is not older than any save of the
  key, for only a purge or an eviction can come in between and both forget; and it holds
  nothing a purge took out, because a purge of the same key needs the same lock (`NoWriterBeside`), even one that breaks off. A file that is in the middle
  of a replacing rename cannot be missed by the lock holder, for the renamer would hold the lock.
  It also proves that the files implement `Register` (`ReadsAreRegular`). `ReadInv` adds what a read knows: the present
  value of its key is among its candidates, and a name it did not find was without content or, for a reader without
  the lock on Windows, in the window of a rename it has crossed (`ReadOK`). A step of one process is a step of its
  read or a stutter; one that changes a file is a write, a start or an end of a replacement of `Register`.
- **WrapUpProofs** proves `RefusalsBounded`, `ReleasedStaysReleased` and `CompleteListIsComplete`. Every refusal is
  counted by the record or by a save that failed (`RefusalsCounted`), an observation touches neither the count nor the release
  (`ObservationKeepsCounts`), and a decision counts by one and never past `MaxNudges` (`DecideCounts`).
- **DaemonProofs**, for `Daemon`, proves `RestartIsInvisible` and `AnswersAreFresh`. The table of arrivals, which is in the
  process while there is one and in the file between two of them, counts the frames answered of every action that no restart
  forgot (`TableCounts`), which a clean restart does to the client lane only; and an
  action this process has verified began before the check (`VerifiedIsFresh`).
  For `Corpus` it proves `StaleIsTold` and `WatchersAreOwned`. The read under way keeps what the entries promise: what
  it has read and has changed since was told, changed before it was watched, or lost its event (`ReadIsTold`), and only while it arms
  may a key that is not kept have watchers (`Ownership`).
  For `Resident` it proves `WithinCeilings`, `BacklogIsTrue` and `ColdestLeaves`. The memory holds each key once,
  under both ceilings, with its exact weight, in the order of `older` (`MemoryFits`); so does the snapshot, but for
  the order, which is why a restart needs no other check. That a write keeps its plan follows from the eviction
  never taking the last of the list, where the plan stands; the backlog is read per value of `up`.

Two of these argue over a sequence of any length: the weight of a list of plans, and the frames cut out of a list
of segments. The library's induction theorems take an operator, which the provers cannot instantiate; its theorem on the
well-founded order of the naturals takes a set, and gives that a set of naturals has a least element (`Least`), hence induction
up to a bound (`UpTo`) and the existence of a function given by its first value and a step (`Recursion`). The recursive
definitions of the two modules are functions for that reason. The two proof modules each state these three lemmas.

Only model-checked: liveness under fairness (`EveryCallReturns` of both modules, `StopDrains`, `EveryTurnEnds`, `EveryFrameEnds`,
`NewCodeReturns`, `EveryRequestEnds`), which is out of the prover's reach.

## 6. What is not modelled

Within the modelled components: the eviction of the transport tables at 4096 entries, the splitting of a
document's text into chunks, the words of the answers, pid reuse, the byte encoding of a slot, a
crash of the machine (no file is synced, and `memory-store.js:28` says why), the perimeters of the judges as patterns, the
binding of the rendezvous by two daemons at once (`kernel-bind.js`), and a deadline that ends a hook inside its save
other than as a death, a read error other than an absent file (`session-store.js:91`, which answers an empty record), and a `save` or
a `purge` that throws in the owner: those of the resident memory swallow their failures, and what the owner does with an
operation that throws is modelled by an answer that does not fit. `Delivery` stops at the frames of an invocation, so a connection of
the harness repeated after the last one is not covered. In `WrapUp.cfg` judges come with files only (`ByCwd` is empty), so that a
session judged by nobody is explored; a judge of the directory differs from them only in running each time. `Daemon` is the
daemon without a pool: with one, a stale verdict is posted to the main thread (`server-thread.js:83`) and other frames of the
action may be answered before it exits. `Stop` reads its three records in one step, though they are three files: nothing compares them.

Not modelled at all, because they are text or configuration: matching over string patterns (`frontmatter.js`, `loader.js`,
`sources/`), the write guards, the linters of the repository. Because they have no state of their own: the client lane, the
notices, the process plumbing. They are more than half of the lines of `src/src/`: what they compute are
strings, over which a model would only repeat the program.

Not modelled yet, though they do have control worth a model: the planning and repair of the wiring (`wiring-plan.js`,
`doctor-wiring-pure.js`), the rotation of the journal (`log.js`), the deployment tool. They run once, by hand or at the side of a
session, and none decides whether a document is delivered; they come after everything that does.

## 7. Plan

Done, in this order: `Lock`, `Promise` with `Delivery` and `Budget`, `OwnerChannel` with `Service`, `StateCrdt`, `Gate`, `SessionStore` with
`Register`, `WrapUp`, `Resident`, `Daemon`, `Pool`, `Corpus`. What would come next:

1. the binding of the rendezvous (`kernel-bind.js`) with two daemons that start at once, in `Daemon`;
2. a small cap on the two transport tables of `Delivery`, and what an evicted invocation loses;
3. the rotation of the journal by several writers, and the wiring plan applied twice (that it changes nothing the second time).
