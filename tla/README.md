# Mistake Agent: a TLA+ model

Mistake Agent is a study assistant: a Tauri desktop program whose *kernel*
(`src/src/kernel`) runs an LLM agent over the student's sessions and mistake
book, and an optional relay *server* (`src/server`) that sells model access by
the use. These modules model the parts of both whose correctness depends on
orders, races and failures, and prove what matters most about them.

## 1. Inventory

### Server (`src/server/src`)

| Part | State | Operations | Hard because | Correct means |
|---|---|---|---|---|
| billing (`billing/`) | `entitlements`, `usage_events` in PostgreSQL | `reserve`, `settle` + `recompute_turn_charge`, `quota_view` | reserve holds a per-user advisory lock, settle holds none; a turn's charge is recomputed from a read that may be stale at commit | a turn is charged once, whatever the order; windows and free rounds are not overrun; `used_uses` and the rows agree |
| relay (`relay/handlers.rs`, `concurrency.rs`) | per-user counter, global semaphore, the reserved row | `relay`, spawned stream task, `settle_once` | the handler future may be dropped at every await; the slots must live as long as the stream | a slot is given back exactly once; a reserved row is settled |
| SSE probe (`relay/sse.rs`) | line buffer, current event | `push`, `finish` | chunks split lines anywhere | usage is what the whole stream says |
| auth (`auth/`) | `users`, `auth_tokens` | register, login, refresh, logout, devices | sliding expiry, revocation between check and use | a revoked token never authenticates |
| security (`security/`) | token buckets, failure counters | `check`, `record_failure`, `record_success` | check and record are apart by an await; maps are evicted at a cap | blocked means blocked; memory is bounded |
| start (`config.rs`, `main.rs`) | the environment, the administrator's row | `Config::from_env`, `ensure_seed_admin` | the operator may write anything between two starts | a refused value stops the start; nobody is taken over by the seed |
| admin, http, db, logging | none of their own | | | |

### Kernel (`src/src/kernel`) and shell (`src/src/main.rs`)

| Part | State | Operations | Hard because | Correct means |
|---|---|---|---|---|
| request loop (`main.rs`, `agent/rpc`) | the queue of GUI requests, the turn handle | one handler per `Method` | handlers run one at a time, turns and titles are spawned tasks beside them | at most one turn; an abort and a compute reply get through |
| dispatch (`agent/dispatch.rs`) | deadline, cancel token per call | `call_tool`, `call_command`, `extend`, `interrupt` | watchdog against extension against cancellation | every call ends; an extended call is not killed |
| compute bridge (`plugin/compute`) | pending replies by id | `run`, `deliver` | reply against timeout | a reply reaches its own waiter or nobody |
| sessions (`agent/session`) | session list, status, title | `on_new_message`, `create_new_session`, `open_existing`, `maybe_generate_title` | several writes per operation, auxiliary model calls in between | exactly one active session |
| agent loop (`agent/loop_mod`) | the conversation, failure counts | `run_turn`, `maybe_compact` | limits, cancellation between rounds, compaction, retries | what was completed is persisted; the loop ends |
| storage (`plugin/storage`) | message tree in memory, JSONL files | append, branch, splice, remove, persist | memory first, disk later, rewrite against append, crash | reloading gives what memory had |
| registry (`registry`) | entries, loaded flags | `ensure_*`, `load_plugin` | lazy load by concurrent callers | an entry is registered once, and before it is used |
| memory (`plugin/memory`) | one file per entry | save, read, remove, migration of the old layout | a removal goes file by file, a migration takes many steps, and either may fail or die | entries change whole; no start loses one |
| account (`account`, `settings.rs`) | url, token, e-mail; settings file; routed model service | login, logout, status, quota, `set_settings` | answers are lost or refusals, saves fail, the program ends between steps; four places follow one change | no half of a change stays alone, a logout is not undone |
| model client (`plugin/model`, `agent/loop_mod`) | SSE buffer, open calls, the conversation | post, retry, read, replay | chunks cut anywhere, calls side by side, streams that break off | a round has every finished item once, replay is what the API accepts |
| plugins (`src/src/plugin`) | mistake book, practice history, item pool, report | commands and tools | the turn's tool and the user's command run on two threads, writes fail | a wrong answer is archived, a mastered item is not given again |
| prompt, audit, logger, events, context | text written out | | | |

The GUI (`src/web`) sends requests to the kernel's queue and receives events;
its compute worker answers `ComputeRequest` events with `compute_result`
requests. The kernel calls the server over HTTP, one relayed request per model
round, auxiliary calls (titles, summaries) included.

## 2. What is modelled

Each module's header says which code it is about; `PROJECT.json` maps every
definition to its lines. The modules, from the server to the desktop:

| Module | Models | Instance | Run |
|---|---|---|---|
| `TurnBilling` | the billing store: reserve and settle of a user's requests | `MCTurnBilling` | `billing_races`, `billing_serial` |
| `RelayServer` | the places a relayed request takes, its handler, its streaming task | `MCRelayServer` | `relay` |
| `UsageProbe` | a streamed answer, cut anywhere, read in passing by the relay | `MCParts` (part of `ModelClient`) | `parts` |
| `LoginServer` | token buckets and lockout around login and registration | `MCLoginServer` | `logins` |
| `ServerStart` | configuration and the seeding of the administrator over repeated starts | `MCParts` | `parts` |
| `RequestLoop` | the desktop's request loop, dispatch and watchdog, compute bridge, outline of a turn | `MCRequestLoop` | `request_loop` |
| `SessionKernel` | sessions, turns, titles, edits over the message trees in memory | `MCSessionKernel` | `sessions` |
| `SessionLog` | *abstract*: what each file of the storage promises | | |
| `SessionFiles` | the file storage by system calls; implements `SessionLog` | `MCSessionFiles` | `files` |
| `SessionMigration` | the splitting of session files at each start | `MCSessionMigration` | `migration` |
| `MemoryTree` | *abstract*: what the cross-session memory promises | | |
| `MemoryFiles` | the memory by file operations; implements `MemoryTree` | `MCMemoryFiles` | `memory` |
| `ModelClient` | one round against the relay: posts, reader, loop, replay; extends `UsageProbe` | `MCParts` | `parts` |
| `PluginRegistry` | registration, lazy loading, look-ups | `MCParts` | `parts` |
| `AccountService` | the account on the desktop with the server's tokens | itself | `account` |
| `StudyTools` | grading, mistake book, practice history, item pool | `MCStudyTools` | `study` |
| `WeakPoints` | what gaps, weekly report and paper read off the book | `MCParts` | `parts` |

`MCParts` puts four parts that share no state into one run: `part` says which
one a behaviour is about, the others stand still.

How they fit. `RequestLoop` has the control of a turn (limits, cancellation,
calls) and leaves its data out; `SessionKernel` has the data (what a turn stores,
compacts and names) and takes the end of a run as one step; `ModelClient` has
the inside of one of its rounds. `SessionKernel` treats an operation of the
store as atomic in memory with a write behind it that may fail; `SessionFiles`
opens that write up. `RelayServer` has the places of a request and leaves its
price to `TurnBilling`, whose settlement takes what `UsageProbe` has read.
`ModelClient` composes the probe and the desktop's reader over the same stream.
`AccountService` composes desktop and server.

### `TurnBilling`: the billing store of the relay

One user (every query filters on `user_id` and the lock is per user), several
requests, each going through the places of `pc`:

    new -> waiting -> finding -> deciding -> charging -+-> relaying -> settling -> done
                 \-> free -----------------------------+
    with denied, dropped (before commit) and unsettled (after it) as the other ends

| Action | Code |
|---|---|
| `Begin` | `pool.begin()`; `now()` of every later statement is fixed here, before the lock |
| `Lock` | `pg_advisory_xact_lock` is granted and the head of the turn is read |
| `InsertFree` | the row of a continuation, commit |
| `FindEntitlement`, `Decide` | the entitlement that expires first; windows and `quota::decide`; a denial drops the transaction |
| `InsertCharged` | `used_uses + 1`, the row with `billed_uses = 1`, commit |
| `SettleBegin` | the update that claims the row, the read of the turn and the arithmetic of `recompute_turn_charge` |
| `SettleCommit` | the updates of the first row, the entitlement and the other rows, commit |
| `Drop`, `Unsettled` | the handler is dropped, the server dies or the database fails: before reserve commits, after it |
| `Tick` | the database clock |

State is what is *committed*; an open transaction keeps its own writes in
`head` and `settling` (READ COMMITTED). `SettleCommit` waits while another open
settlement has claimed a row it must update, as PostgreSQL's row locks do.
`settling` keeps what the settlement read, so a commit works on stale values
exactly as far as the code does. Token counts are the sum the ladder looks at;
entitlements are fixed, granting and revoking happens outside the relay.

### `RelayServer`: the places of a request

A request takes a place of its user (`ConcurrencyGate`), one of the server
(`SecurityState`), is reserved, forwarded, and then streamed by a spawned task
that owns both guards. `AcquireGate`, `AcquireGlobal`, `Reserve`, `Forward`,
`ReadErrorBody`, `SettleOnce` are the handler, `ReadChunk`, `SendChunk`,
`StreamEnds`, `Bill` the task, `DropGlobal` and `DropGate` the guards in the
order Rust drops them. `DropHandler` is axum dropping the future because its
client has gone, at any await; `Crash` ends all. `broken` is a ghost.

### `LoginServer`: keeping logins in check

A login goes `AllowIp`, `AllowEmail`, `Verify`, then records failure or success
for the address and for the e-mail, each under the guard's lock and with other
requests between. Buckets count in parts, `Cost` to a token. Both maps have
their caps and evictions. The ghosts `admitted`, `failed` and `blocked` keep what
really happened, independent of what the maps have forgotten. How many failures a
window can see depends on whether the key was blocked before (`MostFailures`,
section 5).

### `RequestLoop`: loop, dispatch, bridge

`main.rs` takes one request of the GUI at a time and awaits its handler; a turn
runs in a task of its own. So the dispatch can hold two calls at once, one per
member of `Callers`: the command the loop is handling and the tool call of the
turn. Python runs in the GUI's worker, and its result is one more request in the
same queue.

| Action | Code |
|---|---|
| `UserSends` | `kernel_send`: the unbounded channel |
| `TakeSend`, `TakeCommand`, `TakeAbort`, `TakeResult` | one iteration of the loop: `send_user_message` to the registration of the turn, `trigger_command` into `Dispatch::run`, `abort`, `compute_result` |
| `HandlerAsks`, `AskTimesOut`, `AskCancelled` | `BridgeCompute::run`: register and emit; the 180 s branch; the cancelled branch |
| `WorkerAnswers`, `ResultTimesOut` | `handleComputeRequest` of the GUI: the result is called in; its call times out after 20 s and the catch block calls again |
| `HandlerDone`, `HandlerExtends`, `HandlerInterrupts` | what a handler may do: end, `DeadlineHandle::extend`, `TurnControl::interrupt` |
| `Expire`, `Sigterm`, `Sigkill` | the watchdog: its copy of the deadline runs out, the token is cancelled, the grace is over |
| `RoundHead`, `StreamOpens`, `StreamFails`, `Retry`, `StreamEnds`, `NextToolCall`, `BatchDone` | `run_turn`, with every place where it reads the signal or the clock and both limits |
| `TurnEnds` | the rest of `start_turn`'s task up to the clearing of the handle |
| `Tick` | one unit of time for every timer |

Timers hold what is left of them. `Tick` waits while a timer is due or the loop
could take a request (`Immediate`): reacting takes no time; handlers, streams and
the worker take any. `asks` numbers the requests beside the id that travels, so
that a result knows what it is for. No handler in the repository extends or
interrupts today; both belong to the API every handler is given.

### `SessionKernel`: sessions while turns run

| Actions | Code |
|---|---|
| `Send`, `Create`, `Open`, `Rename`, `Delete`, `Switch` | the handlers of `rpc/handlers.rs` and the scheduler's `on_new_message`, `create_new_session`, `open_existing` |
| `EditRead`, `EditDerive`, `EditStart` | `edit_message`, whose aborted turn may still end between its steps |
| `EndRun`, `EndCompacted`, `FailRun` | how `run_turn` comes back: the messages that are complete, a summary if it compacted |
| `PersistSkip`, `Persist`, `Persisted`, `Splice`, `SetPath`, `Emit`, `Clear` | the rest of `start_turn`'s task, step by step |
| `TitleCheck`, `TitleRecheck`, `TitleWrite` | `maybe_generate_title` in a task of its own |

`Writes(n, f)`: of the `n` writes a handler makes, number `f` fails, and the
handler ends there with its changes in memory made. `Live` sessions exist,
`Actives` are active.

### `SessionLog` and `SessionFiles`: what reaches the disk

`SessionLog` is the promise, one file at a time: the memory changes (`Begin`),
the disk follows all at once (`Advance`), writes fail (`Fail`), the program
restarts with what is on disk (`Restart`); a file on which operations overlapped
or failed is in `doubt` until a whole write that nothing overlaps. `SessionFiles`
has four actors (request loop, turn, title task, a tool called from a page) that
each work through a list of operations by system call: snapshot, open the
temporary file, write it, rename it; or open the log, append a line; or unlink.
`hold` follows an open file through renames by others. `GivesUp` is a call
that fails, `Left` what its actor still does: a handler nothing, a turn the rest
of its tail, which after a failed append of a message goes on to the splice, the
path and the title. `KeepsTheLog` is
`SessionLog`'s specification under the mapping `durable <- Loaded(file)`,
`busy <- some actor is on the file`.

### `SessionMigration`: splitting old files

Each start lists the session files and splits those that hold several topics:
segments are written one by one (`build_segment`), then the old file is put
aside as `.bak`. Any of these steps may be the last before the next start
(`StartOver`), and any may fail (`Skip`): then the file is kept as it is, the
start goes on with the next, and the kernel comes up with the unsplit file beside
the segments it had written. `cuts` counts both. Between starts the kernel sends, edits, compacts and creates, so that the next
start looks at files the migration itself has made.

### `MemoryTree` and `MemoryFiles`: the cross-session memory

`MemoryTree` is a map from paths to contents, in which a removal may be seen
half done and stays so if a call fails. It keeps apart an entry and the copy it may
have in the old layout, and lets a start put an old content over a newer one only
after a start that has failed. `MemoryFiles` has the names (each segment in
base64url, the old layout by plain path, temporary files) and the file operations:

| Action | Code |
|---|---|
| `Save`, `SaveRename` | `memory::save` down to `atomic_write`: the temporary file, then the rename |
| `Remove`, `RemoveUnder`, `RemoveTree` | `memory::remove`: the entry's file, then `remove_dir_all`, file after file, with saves under it in between |
| `GivesUp` | a write, rename or removal fails; a temporary file stays where it is |
| `List`, `Read`, `Write`, `RemoveOld`, `Started` | `migrate_legacy_layout` at each start |
| `StartFails` | one of its calls fails, or `Read` meets a name the new layout does not take: the kernel comes up *degraded*, with the rest of the old layout in place (`failed`) |
| `Crash` | the end of the process at any point |

`IsATree` is `MemoryTree`'s specification under the mapping `entries <-` the
files in the new layout, `old <-` those in the old one. A plain name that
happens to be base64url of UTF-8 (`Misread`) is, as in the code, the new name of
another entry from the start: nothing moves it.

### `UsageProbe` and `ModelClient`: a streamed answer

An upstream of one of three protocols makes items and events; an event is lines,
a line two pieces, and chunks of one or more pieces reach the relay, which
pushes them to its probe and on to the desktop. Streams end, break off or are let
go of anywhere. The two readers do not know the same last words (`Good`, `Bad`):
`response.done` completes a stream for the probe and `response.cancelled` fails
it, neither is anything to the desktop, which then sees a stream that ends
without a verdict. `ModelClient` adds the posts (`Post` with its retry and the
stripped form), the desktop's reader, the loop that collects messages and calls,
and `Items`, the input the next request makes of them.

### `PluginRegistry`, `ServerStart`, `WeakPoints`

`PluginRegistry`: names are sequences of parts, so that the wire name of an
entry is its namespace and name joined, and two entries may collide. Registration
refuses what `register_inner` refuses; each look-up and insertion of a table is a
step of one of two callers. `ServerStart`: the operator writes anything into the
environment between starts, people register while the server runs. `WeakPoints`:
three rankings of one changing book. A handler tallies the mistakes that count
(`Tally`) and sorts the points; `Rankings` are the lists the sort may leave, since
points it finds equal stay in the order of a hash map. Only the paper breaks
every tie, by the name (`Alphabetic`).

### `AccountService`: identity on two sides

`main.rs:53` awaits each request of the GUI, so there is one command at a time;
what makes the part hard is that each goes through five places and may stop at
any of them. A command asks the server (`Login`, `Logout`, `Query`), the server
answers and may change its tokens while the answer is lost (`Issue`, `Revoke`,
`Answer`, `Lost`), the settings change and are saved (`StoreIdentity`,
`StoreIdentityFields`, `ClearIdentity`, `SetSettings`), the model service is built
anew (`Refresh`) and the GUI is told (`Tell`). `Saves` has the save that fails,
after which the command ends with the settings in memory changed; `behind` is the
set of places that have therefore not followed them. Tokens expire or are
disabled at any time (`Expire`), and the program may end at any step (`Restart`).

### `StudyTools`: the book, the history and the pool

The turn's tool and the user's command run on two threads: `Update`,
`RemoveMany`, `Upload`, `Check`, `Generate`, `Exam` start, and go on by steps
(`Copy`, `Write`, `ArchiveNext`, `Judge`, `Archive`, `LoadHistory`, `Record`,
`Draw`, `Draft`, `Verify`, `GiveUp`). Between two storage calls the other thread
runs, at a model call or a compute call the handler can be given up. `raced`
records that one writer has put something older over what another had written.

## 3. What is checked

Every run is exhaustive within its bounds, every bound is a constant of the
configuration and listed here.

| Run | Shows | Bounds and why they are enough |
|---|---|---|
| `billing_races` | types, `OneCharge`, `LoneRequestsHoldWindows`, `FreeRoundsBounded`, `ChargesAreRecorded` under every interleaving | 3 requests: the fewest for which a turn outgrows its free rounds, is charged again and has settlements overlapping a reservation; a pack with one use in front of a monthly card, two windows, `TURN_MAX_REQUESTS` 2 for 12, a ladder of two rungs, answers on either side of it; one tick |
| `billing_serial` | `QuiescentCharge`, `WaitersServed` when nothing comes between a settlement's read and its commit | the same with one card and no tick |
| `request_loop` | `CallsEndInBudget`, `BridgeIsSound`, `LoopComesBack` | durations keep the code's order: default 30 s < worker 180 s < `compute::verify` 200 s <= budget 600 s become 1, 1, 2, 3, grace 1; 2 requests: a command beside a turn, or a turn and its abort; limits and batches of 1 |
| `sessions` | `OneActive`, `TurnInActive`, `TreeIsSound`, `PathFollowsTurn`, `HistoryGrows`, `TailEnds` | a compaction that keeps 2 messages, turns of up to 2. Two instances: from nothing, 2 sessions, 3 messages (`FewIds`), one failing write: a second session to move to, a branch, a compaction; and from a session that has a title and whose first turn has failed, 5 messages without failing writes, renames and switches: the fewest for a branch that is read before a compaction and answered after it |
| `relay` | `PlacesHold`, `OpenRowsAreBroken`, `PlacesComeBack`; deadlock is checked | 4 requests of 2 users, both limits 2, one crash: either limit is met alone and together |
| `logins` | `RateHolds`, `LockoutHolds` | 2 handlers, 2 addresses, 1 e-mail, 1.5 tokens of capacity refilled in halves, threshold 2, window 3, block 1, caps of 2 and 3 keys. Two instances: from the start, 2 ticks (`FewTicks`); and from where a third handler is gone, a block was set at 1 and another at 2 while a login that had passed the check before them is still verified, up to tick 4: eviction, a window and a block that end, and the counts that a block's end forgets. Registrations that change nothing but a bucket are left out of this instance, not of the module |
| `files` | `KeepsTheLog` (refinement), `OneActiveOnDisk`, `BookLoads` | 2 sessions and the book, 4 actors, 5 operations, one failing call, one crash |
| `migration` | `SplitIsSound`, `SplitOnce` | every tree of 3 messages with any of them a boundary, a fourth message, 4 files, 2 starts, any of which may be cut short or have failing calls: the fewest for a split that is repeated beside the copies of its first attempt |
| `memory` | `IsATree` (refinement), `StartsTidyUp` | 3 entries, one under another, one whose segment ends in the byte 0xBF and so has no directory; one of them in the old layout at first, one misread; 2 clients, 2 contents, one crash and one failing call in either order, 4 temporary names: the fewest for a start that fails, a save after it and a start that moves the old content over that |
| `account` | `NothingHalfway`, `IdentityFollowsUser` | 2 servers, 2 users, 2 keys of the user's own, 2 tokens, 5 operations, of which a restart is one: a login, a logout whose save fails, a restart, and two commands after it |
| `study` | `KeptWhenAlone`, `WrongIsArchived`, `GivenIsNew` | 2 threads, 2 points, one with a template and one with a pool, a history of 2 records (200): the fewest of which some are forgotten while another stays; uploads of 2, 3 operations, one day. Two instances: from nothing, and from where one thread has saved an answer and the other, which read an empty history before, is about to save over it. The threads are interchangeable |
| `parts` | `ProbeAgrees`, `RoundIsWhole`, `SameBill`, `ReplayCarriesReasoning`; `WeakestFirst`; `NoOneIsTakenOver`; `RunsWhatWasCalled`, `MissedOnlyWhileLoading` | answers of 3 items, 2 of them calls, chunks of up to 2 pieces; 4 mistakes on 4 points over 3 days; two configured numbers and six ladders; 6 plugins of which 3 are built in, 2 callers |

Deadlock is checked where a system that has nothing to do says so (`relay`);
elsewhere a finite supply of requests or operations runs out and
`CHECK_DEADLOCK` is off.

### Fairness

* `SerialSpec`: weak fairness of each request's own steps. The runtime polls
  every ready task, PostgreSQL grants the advisory lock in order, queries of a
  live server return. A request may never begin; dropping out is never forced.
* `RequestLoop`: the clock, the loop, the turn's task and the timers. A stream
  ends because the HTTP client has a timeout of 300 s. Handlers, worker and user
  get none: that is what the watchdog is for. A panic of the turn's task is not
  modelled.
* `SessionKernel`: the turn's task and the title task's own steps. That the titler
  answers is a hypothesis inside `TitleArrives`, not of the specification.
* `RelayServer`: handler, task and guards weakly. That an upstream's stream ends
  is strong fairness of `StreamEnds`, an assumption about the upstream: the
  server's client has no time limit (below). No client is made to go.
* `MemoryFiles`: the start-up, whose file operations are synchronous; clients get
  none. `AccountService`: a command's next step, its request ends after 20 s. The other specifications state no liveness.

## 4. What is proved

For every number of requests, sessions, users and every limit, from the named
ASSUMEs of the modules alone, which TLC evaluates in the runs.

`TurnBillingProofs`

* `TypeCorrect`. Needs that an event id indexes the rows and that the maximum of
  a delta and zero is natural, so it is proved together with `Structural`:
  `LockHeld` (whoever is inside reserve holds the lock), `EntitlementChosen`,
  `OwnsRow` (a request that is relayed or settles has a row of its own, still
  reserved) and `FirstKnown` (rows are only appended, so the first row a
  settlement remembers stays the first).
* `TurnsAreChargedOnce` (`OneCharge`), of `TurnChargedOnce` (a row becomes
  settled only by its own commit, which clears it unless it is the first;
  afterwards nobody charges it) and `OneClosesTheTurn` (the later of two
  settlements read the row of the earlier as reserved).
* `FreeRoundsAreBounded`: the count made under the lock still holds when the free
  row is inserted (`FreeStillHolds`).
* `ChargesAreAlwaysRecorded`, from `ChargesKnown`: the charge a settlement
  remembers is the committed one when it changes it, and a raise starts from at
  most what is there.
* `LoneRequestsAlwaysHoldWindows` (`LoneRequestsHoldWindows`), from `Admitted`: who
  is about to be charged still finds fewer charged rows in each window than its
  limit, because it holds the lock, and because a settlement never charges a row
  without a turn id that carried nothing (`LoneCharged`). `decide` compares a sum
  of charges with the limit and the property counts rows: `SumCounts`.
* `TurnsCostTheRule` (`QuiescentCharge`), of `SerialSpec`, from `Fresh`: what an open
  settlement has read is what is there. The charge of a turn is a function of its
  rows' ends and tokens only (`SameCharge`).
* `SumCounts`: a sum of numbers is at least how many of them are not zero. The sum
  is the community modules' fold, expanded at the function it is taken of; that the
  recursive function inside it exists (`SumsExist`) and what it yields follow from
  `SmallestMember`, which stands in for an induction over finite sets.

`RequestLoopProofs`

* `TypeCorrect`; no order between the durations is needed.
* `CallsAreBounded`. `CallsEndInBudget` is not inductive: a running call must
  also have its deadline and the watchdog's copy within what is left (`Timed`).
  `CallChanges` lists the changes of a call once for all proofs.
* `BridgeIsAlwaysSound`, of `RepliesAreOwn` and `WaitersCanBeReached`, from
  `PairsHold` (an id and the request it stands for go together in the worker, in
  the queue and in calls that may be repeated) and `WaitersHold` (who waits is
  registered, below the next id, under an id of its own).
* `AbortEndsRounds`, `DeadlinesAreKept`: a cancelled turn opens no other round
  (`NoRoundAfterAbort`), and the watchdog looks at an extended deadline once more
  (`ExtensionsCount`). Both are proved and no run repeats them.

`SessionKernelProofs`

* `OneActiveAlways`, `TurnStaysInActive`, from the invariant `Inv`: the shape of
  the state, one active session, the turn's session active, and what an
  `edit_message` in progress may rely on. Failing writes are in it: a handler
  that stops half way has archived before it activates.
* `HistoryOnlyGrows` (`HistoryGrows`), from `Inv` and `Logs`: every session's
  messages are a log of records with ids, whose length the appends, the branch of
  an edit and the reparenting of a compaction keep or raise. The lemmas on logs
  (`LogAppend`, `LogReparented`, `LogPrepend`) are stated once for sequences;
  `MessagesStay` and `MessageAdded` reduce most actions to two cases.
* `TreeStaysSound` (`TreeIsSound`), from `Inv` and `Tree`. A message can be
  stored long after its id and its parent were chosen, while edits and switches
  go on, so `Tree` follows a turn: what it has answered is new to the session,
  each message hangs on the one before and the first on the end of the
  conversation it began with (`Running`); what it has still to store comes after
  what it hangs on, except for the first message a compaction keeps, which waits
  for the summary (`Storing`, `Linked`, `Waits`); the end it will set the path to
  is stored or on that list. `EditHolds` says the same of the branch of an edit,
  and `TreeHolds` is the property with the waiting message in it. Links and path
  are claimed while no write has failed, the ids always. `Overlap` says how the
  kept tail of a conversation and the kept part of the answer overlap.
* `PathAlwaysFollowsTurn` (`PathFollowsTurn`), from `Tree` and `FollowHolds`, which
  says which chain a path is. Each message of a conversation hangs on the one
  before it in the store (`Straight`), or on a summary that is none of it (`Cut`),
  or waits for the splice (`Pending`): of what a turn began with, of what it has
  stored (`Stores`), and of the branch an edit has read, for as long as a turn can
  still compact. A summary spliced in turns `Straight` and `Pending` into `Cut` for
  the branch, which is where `CutShort` comes from, and leaves the turn's own tail
  hanging on it (`WrittenHangs`). Then the chain from the end of a conversation is
  that conversation (`LineChain`, `RunsChain`). What a new request reads is a chain
  that nobody has followed yet; that it is one (`ChainIsLine`) needs that parents
  never lead in a circle, so `FollowHolds` has a rank along them (`Ranked`), which
  each append and the splice keep.
* The chain from a message to its root is a recursive function over the length of
  the log. `ChainEnds` (it is made of stored messages and ends where it was asked
  to) needs an induction over that length; `Least`, the least number of a set of
  numbers from the well-foundedness of `<`, stands in for it, also for the
  existence of the function (`ClimbExists`).

`ServerProofs`

* `PlacesAlwaysHold` (`PlacesHold`), from `PlacesCounted`: each counter is the number
  of requests in the phases that hold the place, and within its limit. The
  upstream's bound follows because whoever is at the upstream holds both.
  `Enters`, `LeavesPlace` and `Stays` say once what a change of phase does to those
  numbers; a saturating subtraction never saturates because who leaves was
  counted.
* `OpenRowsAreAlwaysBroken`, from the same invariant with what each phase says of
  the row.
* `RateAlwaysHolds` (`RateHolds`). What is inductive is what a bucket has paid for
  (`Paid`): from any admission on, no more has been let through than has flown in
  beside what is left in it. Time fills a bucket (`PaidLater`), an admission pays
  (`PaidNow`), and one that may be forgotten is full, which is what a bucket that
  does not exist says. The products are the reason for `Products` and for sums kept
  behind definitions: no backend multiplies two variables.
* `LockoutAlwaysHolds` (`LockoutHolds`, all three of its parts), from `StateHolds`
  and `GoneHolds`: which of a key's failures its state still counts, and how old
  the ones are that it does not (`Slack`). The attempt to prove a bound of twice the
  threshold failed at the end of a block, and the state it failed in was real
  (section 5); the bound that is stated now is the one the guard keeps.
* `NoOneIsEverTakenOver` (`NoOneIsTakenOver`), for the start's part of the `parts`
  run on its own.
* `ProbeAlwaysAgrees` (`ProbeAgrees`) and `BillsAgree` (`SameBill`), for the round's
  part of the `parts` run on its own (`RoundSpec`): answers and chunks of any
  length, any ladder. The invariant `RoundHolds` says where in the stream each
  reader is. A place is a number of whole events and of pieces of the next
  (`Placed`); `Mid` says what a reader at that place has in its buffer and fields,
  `ResultIs` what the probe and `TurnAt` what the desktop has made of the events
  before it. The bytes in transit lead from the client's place to the probe's and,
  while the connection is up, from there to the end of what was said
  (`StreamHolds`), which is what every cutting keeps: `LeadsSplit`, `LeadsJoin`, `LeadsEvent`. That a reader that begins
  at one end of such a trail comes out at the other (`PushAlong`, `ReadsAlong`) is
  an induction over a chunk; `UpTo`, from the well-foundedness of `<`, stands in
  for it. Nothing is said after a verdict (`Lasts`), so that the desktop, which
  stops at the first, and the probe, which keeps the last, have the same one
  where both know it. Where only the probe does (`response.done`), the theorem
  bounds the charge of what the desktop has counted and not of what it has not.

`StorageProofs`

* `FilesAreATree` (`IsATree`), the refinement: `MemoryFiles` implements
  `MemoryTree` for any paths, clients, contents, old and misread entries, and any
  number of crashes and failing calls. The invariant `IInv` says that until a start
  has failed both files of an entry agree while both are there (`LayoutsAgree`),
  that no old file is missed by a migration, none is left when a start ends
  without failing, and a copy under way is of what is still there (`MoveHolds`),
  and that whatever has a new name has one that fits (`NewNamesFit`). A removal
  takes nothing but the subtree because a name that fits has directories that fit
  (`FitUnder`), so that there is nothing under an entry whose own directory could
  not be named.
* `SplitsAreSound` (`SplitIsSound`) and `NothingIsSplitTwice` (`SplitOnce`), for any
  old files that hold trees (`LegacyAssumption`; with parents in a circle the code
  still ends, because `split_segments` remembers whom it has seen, and the model
  does not say how). The properties compare states between starts; `MigrationInv`
  says what holds inside one. `CopyHolds`: of the files a message is in, all
  *hold* it but the one that is being split, which holds what still waits for its
  segment; some file holds each message, and at most one more than splits have been
  cut short, by a crash or a failing call. `ActiveHolds` is the same of the active session by its path.
  `ForestHolds`: a rank falls along the parents of every file, which each message
  the kernel adds and each segment keeps.
* The way up from a message is a recursive function over the length of the file.
  `Iterates` gives it as a walk; depth, a rank without gaps, bounds the walk
  (`Depths`, `TopStops`), so that
  `SegmentIs` can say what the code's loop finds: a boundary's own segment, the
  parent's, or the head. `PickedIs` says the same once of the sequences that are
  filtered. A part of a file has one segment (`PartIsOneTopic`), hence
  `MadeHolds`: a file the migration wrote is one topic until the kernel touches it.

`SessionFilesProofs`

* `KeepsItsLog` (`KeepsTheLog`), the refinement: `SessionFiles` implements
  `SessionLog` for any finite set of keys, programs of any length and any number
  of faults and crashes. The invariant `Running` has four parts. `NameInv`, of
  each file: what its content, its memory and the temporary files and open
  handles of those who are on it may be, when one actor is alone on it, when it
  is in doubt, and at each stage of a write. `TornInv`: an end that is torn
  although the file is not in doubt is left by a crash, and whoever appends to
  that file next writes it whole before. `ActiveInv`: the sessions that are
  active in memory or on the disk are one, and a program that opens another
  clears the others first. Only `NameInv` is about the refinement; the other two
  are what a later step relies on.
* `OneActiveStaysOnDisk` and `BookAlwaysLoads`, from the same invariant.
* `GoStep`, `EndStep`, `AppliedStep` and `Replanned` reduce each system call, the
  end of an operation, its change in memory and the choice of a new program to
  what they do to one file; the file storage that could not be opened, where
  everything stays in memory, is the other half of `IInv`.

`PluginProofs`

* `RunsWhatWasAsked` (`RunsWhatWasCalled`), for the registry's part of the `parts`
  run on its own (`RegistrySpec`). `Distinct`: because `Register` refuses a
  namespace that is taken, entries outside it and wire names that exist, no two
  entries of the registered plugins share a full or a wire name. `TablesHold`:
  a handler is one that a registered plugin declares under that name, and a wire
  name leads to a full name it is the wire name of.
  `CallsHold`: what a caller has resolved so far is the name it asked for, of an
  entry its policy lets it run. Of descriptors only their types are assumed
  (`DescriptorsAssumption`).
* `MissesOnlyInARace` (`MissedOnlyWhileLoading`), from `Whole`, which adds what
  the tables lack to what they hold. `PluginsFill`: a plugin whose flag is up,
  that can be loaded and that nobody is registering, has all its entries in the
  tables. It is not inductive without `LeftHolds` (while it is being registered,
  an entry is in the tables or in the rest of whoever registers it) and
  `FindsHold` (a call loads the plugin of what it seeks; once it has tried, that
  is in the tables, or the plugin is broken, or the flag it saw was another's;
  and a call for what is a command falls back to the tools only in those cases). `SearchStep` is
  the one place where a caller's move is shown to keep the others' parts.
* `HistoryIsKept` (`KeptWhenAlone`) and `SolvedIsNotGiven` (`GivenIsNew`), from
  `HistoryHolds`: the history is the last answers, and who draws an exercise knows
  of what the records up to the last it has read have as mastered (`Masks`), which
  a new record does not change and a new day only lessens.
* `WrongAnswersAreArchived` (`WrongIsArchived`), from `BookHolds`. That the file has
  as many mistakes of the check as the history has wrong answers is not inductive:
  a check under way has archived and not recorded, the book in memory is ahead of
  its file, and copies of either age wait to be written. So every answer that is
  recorded or to be is counted against the file; those that are owed once a change
  is written besides, against the book; and of these the ones up to a copy's number
  against that copy, if it is not older than the file. `OneOf` says what a step may
  be, as far as these counts can tell.
* `ListsAreWeakestFirst` (`WeakestFirst`), for any points, book and periods, of the
  lists' part of the `parts` run on its own (`PointSpec`). The invariant is only the
  type of the book; the rest is what the functions compute. `TallyIs`: the tally
  counts the places of a point's open mistakes. `RanksAll`: a list without
  repetition that is as long as there are weak points names them all. `OneRanking`:
  with the names the order is total, and a point's place in any list is the number
  of those before it (`NamedPlace`), so there is one list, and one paper.

`AccountServiceProofs`

* `NothingStaysHalfway` (`NothingHalfway`), `LogoutAlwaysSticks` and
  `TokensGoForAReason` (the safety parts of `IdentityFollowsUser`), for any
  number of servers, users, tokens and operations. The properties speak of the
  time between commands and of the past, so `IInv` says what holds inside one.
  `StoredHold`: of the tokens in memory and on the disk, both were issued, go with
  the name of their user, and nobody has left them. `InHand`: a token that a login
  brings is nowhere yet, a status, quota or logout asks about the token of the
  settings, and what is about to clear it has a reason, the user's or the
  server's. `HalvesHold`: which places agree with the settings at each step of a
  command that has not failed.

Only model-checked: all liveness (`WaitersServed`, `LoopComesBack`, `TailEnds`,
`PlacesComeBack`, the first part of `StartsTidyUp`, the last of
`IdentityFollowsUser`), and `RoundIsWhole` and `ReplayCarriesReasoning` of
`ModelClient`.

## 5. What the code does otherwise

Where the code does something else than a comment, a document or a test says, or
than one would expect, the model does what the code does and the properties are
stated so that they hold. Collected here with the places.

Billing

* Settlements of one turn that overlap leave a charge that depends on their
  order (`store.rs:357` against the comment at `:339` and ADR-0047:301).
* A turn past its free rounds has a second charged row; settling clears
  `billed_uses` on the row and does not give the use back to the entitlement
  (`store.rs:419`, `tests/turn_billing.rs:117`).
* A stream that says nothing is charged one use (`store.rs:393` against
  `relay/handlers.rs:254` and `:348`).
* A refunded turn that is continued can take a window over its limit
  (`store.rs:214`, `:137`).

Relay and server

* The upstream's client has neither a total nor a read timeout
  (`upstream.rs:20`); a row whose handler is dropped is never settled.
* README.md:78 of the server promises a block after 5 failures in 10 minutes. A
  window begins with a failure, so that two of them side by side hold up to twice
  the threshold less two; and logins that had passed the check go on counting while
  a block lasts (`lockout.rs:84`), whose end forgets that count (`:61`): up to three
  times the threshold less three in one window once a key was blocked.
* The lockout's map can exceed its cap when every key in it is blocked; a
  success clears a block of the address set meanwhile; `Retry-After` rounds down
  (`ratelimit.rs:8`); account queries are not rate limited though
  `security/mod.rs:100` says so.
* A blank `BILLING_LADDER_TOKENS` gives an empty ladder. `config.rs:54` says the
  administrator is created only while there is none; `ensure_seed_admin` looks
  for the e-mail (`store.rs:284`).

Request loop

* A `compute_result` queues behind the command that waits for it and is never
  heard in time (`main.rs:58`, `api.md:151`); an abort reaches neither the
  running tool call nor the rest of its batch (`dispatch.rs:229` against
  `api.md:39`, ADR-0022:3).
* The watchdog's 30 s end `practice::generate` before the bridge's 180 s could
  degrade it (`generate.rs:97`, `practice/mod.rs:55`).
* Every call has a budget of its own rather than what is left of the turn's
  (`dispatch.rs:228` against ADR-0022).

Sessions and storage

* Messages a compaction folds away inside a turn are stored nowhere
  (`loop_mod/mod.rs:444`, `:460`); a generated title may overwrite one the user
  gives between the last look and the write (`scheduler.rs:282`); the messages of
  completed rounds go with the error of a later one (`loop_mod/mod.rs:192`).
* `edit_message` may read the path of a branch while the aborted turn still runs
  and start its own turn after that turn was compacted (`handlers.rs:275`). Its
  conversation is then the one before the compaction, while the parent it hangs
  on now leads to the summary (`CutShort` in `PathFollowsTurn`): what the model
  was shown and what the GUI reads back differ from there on. No new message is
  lost. The case came up in an attempt to prove the property without it.
* If archiving fails to be written and the creation after it does not, a restart
  finds two active sessions. A late write resurrects the file of a removed
  session. All writers of a name share one temporary file; overlapping saves of
  the book can leave it unreadable. Nothing is fsynced. ADR-0049:16 calls the
  files append-only; they are also rewritten.
* A migration cut short leaves its copies beside the next one's. One whose write or
  rename fails keeps the unsplit file beside the segments it has written, and the
  kernel comes up with both; the same messages are then in two sessions, and if
  the segment that holds the path is written both are active, though
  `migrate.rs:136` says that none is added and `:80` sees only the old file kept
  (`cuts` in `SplitIsSound`). A session created
  with a summary and compacted later is split again (`migrate.rs:63`, against
  `:8`).

Memory

* A segment, not the last, whose base64url ends in `-` or `_` cannot be saved and
  stops the migration (against `memory/store.rs:82`).
* So does a read, write or removal that fails in it (`store.rs:46` to `:58`). The
  kernel comes up with the rest of the old layout in place, unseen. A later start
  that gets further puts these contents over what has been saved under the same
  paths meanwhile, and brings back entries that were removed (`failed` in
  `MemoryTree`).
* A crash, a failing write or a failing rename leaves a temporary file (`io.rs:100`
  to `:103`), which the next start takes for an entry of the old layout, so that
  it stays as an entry nobody has saved (`LeftoversHaveACause`).
* An old name that happens to decode as base64url to UTF-8, such as `HTML.md`, is
  taken for the new layout (`store.rs:30`, `:97`): it is never moved, and shows as
  an entry of another name.
* A removal drops the errors of its parts and reports success though some of it
  may still be there, and a removal of a subtree ends at the first file that
  cannot be removed or that is saved into it meanwhile.

Account

* A save that fails leaves the new token, or its absence, in memory without refresh
  or announcement, and a restart brings the old one back (against `service.rs:4`).
  A refused `set_settings` patch stays applied up to the refused field, unsaved
  (`settings.rs:203`). `behind` marks both.

Model client

* The relay takes `response.done` for the end of a stream, and
  `response.cancelled` and `response.canceled` for its failure
  (`sse.rs:126` to `:131`); the desktop knows only `response.completed`,
  `response.incomplete` and `response.failed` (`responses.rs:354`, `:370`). A stream
  that ends in `response.done` is charged by its usage while the desktop has
  counted none (`SameBill` excepts it).
* Calls that finish out of the order they were added in get each other's
  arguments (`loop_mod/mod.rs:320`; `Tidy` leaves these streams out). A stripped
  body drops `tool_choice` and is posted even after an abort
  (`responses.rs:164`). An upstream's error in mid-stream is swallowed
  (`handlers.rs:183`). An Anthropic `message_start` counts as complete usage
  though its output is 0 (`handlers.rs:243`). A post that times out at 60 s may
  go on at the relay.

Registry and study tools

* While one caller loads a plugin, another is told that its entries do not exist
  (`raced` in `MissedOnlyWhileLoading`).
* An answer that matches literally returns before it is recorded
  (`check.rs:94` against `:137`); `history.rs:4` says there are no concurrent
  writes; a history that cannot be read counts as empty; of two writers of the
  book the older copy may be renamed last (`raced` in `KeptWhenAlone` and
  `WrongIsArchived`); of two attempts recorded at once one forgets the other's, or
  brings back what was forgotten, so that an exercise being drawn meanwhile may be
  one that counts as solved again (`raced` in `GivenIsNew`; the case came up in an
  attempt to prove the property without it); an upload that fails has archived its first items and
  repeats them when tried again; a paper is cut to length before points without
  a template are dropped.

## 6. What is not modelled

* The GUI's views: no state of their own that the kernel relies on; requests and
  worker answers are the environment of `RequestLoop`.
* Prompt text, audit, logger, event formatting, pages and lists made for the GUI,
  `quota_view`, the device list, the admin page: they read or write text and
  decide nothing.
* Cryptography, password hashing, header handling, TLS, `client_ip.rs`.
* The chat client's own reader (`chat.rs`): as `ModelClient`, of a simpler
  protocol; its stream is modelled on the relay's side only. Sliding expiry of
  tokens: an answer of the server in `AccountService`.
* In `StudyTools`, the memory tools of the model itself, which could save over or
  remove the history's entry as any other; an item without `item_id`, which the
  code names by a hash, is one more free exercise (`Freeform`). An upstream's
  `response.completed` carries its usage.
* The arithmetic of templates and figures, validation of parameters, the token
  estimate that decides when a turn is compacted (a free choice here), clock and
  idle time of the scheduler.
* Loss of power: what the operating system has taken is on the disk.
* A panic of a task.

## 7. Running

    tlc -workers 2 -config TurnBillingRaces.cfg MCTurnBilling
    tlc -workers 2 -config AccountService.cfg AccountService
    tlapm ServerProofs.tla

and likewise the other configurations, each with the module that `PROJECT.json`
names for its run; `MCTurnBilling` has two, `Parts.cfg` goes with `MCParts`.
Every run ends within three minutes or so, the proofs within ten.
