# A verification development for suna

suna is a local-first AI agent: one daemon process per user holds many persisted
sessions, runs an agent loop (model, tools, guard, memory) for each, and serves
terminal clients over local sockets and TCP. This directory models the parts of it
whose correctness depends on the order in which things happen: what requests,
goroutines, processes, crashes and files do to each other.

Contents: the inventory of the system; the modules and how they correspond to the
code; the runs and their bounds; fairness; what the code does that its documents
or comments do not say; the proofs; what is not modelled, and why.

## Inventory of the system

| Component (source) | State it keeps | Operations | What is hard, and what must hold | Module |
|---|---|---|---|---|
| Session manager (`internal/daemon/session_manager.go`, `session_cleanup.go`, `session_runtime_unload.go`) | `runtime`, `attached`, `creating`, `deleting`, `deleteVersion`, `runtimeUnloadVersion`, unload goroutines | create, attach, detach, update, delete, delayed unload | Requests leave the lock around store calls and around the load of the working state. A client is attached to a session iff its current runtime counts it; nobody removes a runtime in use; a deleted session does not come back. | `SessionManager` |
| Run lifecycle (`session_run_lifecycle.go`, `service.go`, `agent.Run/Compact/Cancel`) | per runtime: status, run id, owner, run state, waiting type; per agent: `runMu`, `cancelFn`; `pendingAsks`, `pendingGuards` | send, resume, compact, cancel, the event loop, ask and guard replies, hand-off | Cancel RPC against terminal event against detach. A run has one terminal state, and it is `cancelled` when a cancel was accepted; a question has one answer, by somebody who may give it. | `RunLifecycle` |
| Steering mailbox (`agent/steering.go`, `daemon/steering.go`) | messages, accepted ids, bytes, interaction count, sealed flag | enqueue, remove, take, seal, reject, interaction begin/end | Client RPCs race the run's boundaries and its end. Each accepted message is applied, removed or rejected exactly once, in order. | `Steering`, `MessageFate` |
| Conversation and runner (`internal/runner`, `agent/memory.go`, `memory/compress.go`, `memory/working.go`) | working memory, session state, the saved row, round and retry state | rounds, streams, tool batches, guard decisions, compaction, save, restore | A compaction changes four pieces of state one after the other; any step may fail or be the last. Every request is well formed and nothing said is forgotten. | `Conversation` |
| User memory (`internal/memory`) | candidate table, worker batch, profile | enqueue, batch, retry, give up, merge, delete, stop | Crash between any two steps; retries; deletes while a batch is processed. A candidate is merged once or given up after its attempts. | `ProfileMemory`, `CandidateFate` |
| Single instance and commands (`main.go`, `daemon_start.go`, `daemon/process.go`, `transport/local`) | lock file, socket file, PID file, processes | launch, serve, stop, start-up, close | Several processes work on three files with separate system calls and may die in between. The socket leads to the daemon that serves. | `Instance` |
| Daemon lifecycle and transports (`daemon.go`, `lifecycle.go`, `internal/transport`) | runtime state, sinks, tables, idle timer | mount, accept, handshake, gate, watch, stop | The monitor reads three sets under three locks. It must not stop under a lasting client; it must stop when nobody is left. | `Daemon` |
| MCP runtime (`internal/mcp`, `agent.syncMCPToolCatalog`, `daemon.onMCPChange`) | server configuration, clients, generations, catalog, queue of updates | configure, start, enable, disable, reload, close, refresh, notify | Starts that are outdated when they end; catalog refreshes that fail after the table was changed. | `McpServer` |
| Configuration and skills (`internal/config`, `agent/config.go`, `internal/skill`) | two files, the agent's copy, the runtimes' parts of it, records of skills | config.set, mcp.toggle, skill.set, skill_start, reload, import, check, edit by hand | Two files, two locks, one writer without a lock, renames and in-place writes, crash at any step. | `Settings` |
| Exec jobs (`internal/tools/builtin/exec_*.go`) | job registry, per-job state | start, wait, stop, clean-up by boundary, session, daemon | Process end racing stop, timeout and clean-up; limits of the registry. | `ExecJobs` |
| Terminal interface, steering part (`internal/tui/events.go`, `run_lifecycle.go`, `chat_input.go`) | draft, submissions, pending messages, run shown | type, steer, take back, cancel, open a session | Responses and notifications overtake each other. Each text ends up in one place, the screen agrees with the daemon. | `SteeringClient` |
| Guard (`internal/guard`) | policy, audit log | decide | A decision over one call's data; what happens around it is in `Conversation`. | |
| Model access (`internal/model`) | rate limiter, adapters, calibrator, decoder | complete, stream | Input and output of services. | |
| Other tools (`internal/tools`) | none | files, search, web, patch | One call, no state of their own. | |
| Subtasks (`internal/subtask`) | limits, running children | spawn, cancel | The clean-up of their jobs is in `ExecJobs`. | |
| Update (`internal/update`), prompts, media, protocol, logging, version | none to speak of | formatting, encoding, download | Data. | |
| Terminal interface, the rest (`internal/tui`) | view models | rendering, overlays, input editing | Presentation. | |

Interaction: a transport calls `Service.Handle` for one request of a connection at
a time; the service calls the session manager and the agent; a run is a goroutine
that sends events to the service's event loop, which changes the runtime's status
and forwards notifications; the terminal merges these with the responses of its own
calls; `Lifecycle.Watch` reads connections and runs and stops the daemon; commands
find the daemon by its lock, socket and PID file.

## The modules and the code

| Module | Models | Composition |
|---|---|---|
| `SessionManager` | the session manager and its store | proved in `SessionProofs`, bounded in `SessionManagerMC` |
| `RunLifecycle` | one session's runs between RPCs, agent goroutine and event loop | proved in `RunLifecycleProofs`, bounded in `RunLifecycleMC` |
| `Steering` | the mailbox of a run, the RPCs on it and the loop that empties it | implements `MessageFate`; proved in `SteeringProofs`, bounded in `SteeringMC` |
| `MessageFate` | abstract: what the mailbox promises about one message | |
| `ExecJobs` | background processes: quotas, retention, clean-up | proved in `ProcessProofs`, bounded in `ExecJobsMC` |
| `ProfileMemory` | the candidate table, the worker, the profile, stops and crashes | implements `CandidateFate`; proved in `MemoryProofs` |
| `CandidateFate` | abstract: what becomes of one candidate | |
| `Instance` | lock, socket and PID file, daemons and commands | proved in `ProcessProofs`, bounded in `InstanceMC` |
| `Daemon` | one daemon's start, connections, monitor and end | proved in `ProcessProofs`, bounded in `DaemonMC` |
| `McpServer` | one MCP server in the runtime, its catalog and notifications | proved in `McpServerProofs`, bounded in `McpServerMC` |
| `Settings` | both configuration files and all their writers | proved in `SettingsProofs`, bounded in `SettingsMC` |
| `Conversation` | one session's working memory, compaction and row | proved in `MemoryProofs` |
| `Selections` | what a query or a filtering loop takes from a sequence, in its order | used by `ProfileMemory` and `Conversation` |
| `SteeringClient` | the terminal during a run, with what a client sees of the daemon | proved in `SteeringClientProofs` and `SessionProofs` |

Common conventions. A critical section of a Go mutex, a transaction and a system
call are one action each. Whatever the code does outside a lock (a store call, a
notification, a model request) separates actions, and what a request read before is
kept in its record (`req[c]`, `op[o]`), which is how stale reads come about.
`ServeConn` reads the next request of a connection when the previous one was
answered, so a connection is a sequential process with a program counter. A Go
pointer is modelled by the number or the run it belongs to, so that "the same object"
and "an object with the same key" differ. Definitions marked *Mutant of* are not
part of any specification: each is a plausible bug, and the property it belongs to is
violated when it takes the place of the definition. Where the code loses track for
one known reason, a history variable records that the reason occurred, the property
excepts exactly it, and the steps are told under *Disagreements* below.

### SessionManager

`meta` is the session store (the model reference of each row), `runtime` the map
of loaded sessions (with a generation for the pointer), `attached`, `creating`,
`deleting`, `deleteVersion` and `unloadVersion` the maps of the same names, `timers`
the goroutines in `unloadRuntimeAfter`. `attach` is the actions `Attach`,
`AttachGet`, `Materialize`, `AttachCheck`, `AttachInstall`, `AttachLoad` and
`AttachCommit`; `create` is `Create` and `CreateStore`, goes on as an attach, and
undoes itself by `CreateAbort` and `CreateUndo`; `delete` is `Delete`, `DeleteGet`,
`DeletePersisted`, `DropRuntime` and `Unmark`. `Failures` names the calls that may
fail; each failing branch is part of the action of the call. `MaxRequests` bounds
requests and changes of status. A run is reduced to the status of its runtime,
which is why the component is listed as partly modelled: `RunLifecycle` has the run.

### RunLifecycle

One session whose runtime is loaded. `rt` holds the fields of `sessionRuntime`,
`notify` is `runNotifyMu`, `runMu` and `cancelFn` belong to the agent; `work[r]` is
the goroutine of run `r`, `events[r]` its channel with `Buffer` places, `loop[r]` the
service's event loop. The rounds of the runner are reduced to what they send and to
where they may fail, wait, ask or be cancelled. `log` records the published
lifecycle states; `reason`, `starter` and `ownerAway` are history variables that only
properties read. Actions are named after the functions they stand for.

### Steering and MessageFate

`box[r]` is the mailbox made for run `r` as a record, with one operator per method
(`Accepts`, `Enqueued`, `Removed`, `Taken`, `RejectedAll`); `steering` is the
pointer of the agent. A request reads session, pointer and mailbox in three steps.
The runner's loop is reduced to its boundaries: it takes the queue at the top,
before the request that follows a compaction, and, with an answer in hand, takes or
seals in one step. Parallel tool calls (`Slots`) open interactions, which keep
clients out. The refinement maps `fate` to the states of the mailbox, `number` to
the order of acceptance, `context` to what was added to the working memory, and
`over` to the sealed mailboxes; `KeepsItsPromise` is `MessageFate`'s specification
under that mapping. Not modelled: `seal` by itself, which only a limit of turns would
use and no caller sets one. The notifications are in `SteeringClient`.

### ExecJobs

`reg` is the registry (`jobs`, `active`, `sessionActive`, `closed`), `call[j]` the
place of the tool call that starts job `j`, `job[j]` the fields under the job's lock,
`mon[j]` the goroutine `monitor` with its local variables, `trim` the holder of
`trimMu` with its loop, `end[c]` the clean-up of a boundary, a session or the daemon.
Some neighbouring steps are merged: starting the process and entering it into the
registry; waking up, waiting, draining and taking the time in `monitor`; giving the
place back and locking `trimMu`; `lookup` and the request of `stop`; one pass of the
reaper. The merged steps touch nothing else or nothing that another step tests in
between, but for the one named at `JobCompleted`. Job ids are numbers, and `clock`
increases strictly, so ties are settled by neither. Which terminal status a job has is
only kept until it is published, since nothing decides on it later. Reading (`status`)
is left out. `ExecAssumption` asks that every boundary of a subtask belongs to a run
with a main boundary, as `Agent.Run` opens one before any tool can spawn a subtask.

### ProfileMemory and CandidateFate

`queue` is the table `memory_queue` in the order of `created_at`, with attempts, delay
and model reference; `profile` the active memories; `worker` the goroutine of `worker.go`
with its snapshot, group, batch and answer; `daemon` the process. `Push`, `Commit`
(`CommitQueueCompaction`), `Retry` (`RetryQueueItems`) and `Forget`, the user's delete,
are transactions, hence actions; the model is asked between them. `Signal`, the interval
timer and the end of a delay are what wakes the worker, whose channel has one place.
A stop cancels the worker's context, waits for it and closes the database; a crash
ends the process between any two actions and the next start reads the table. A
candidate stands for the memory it becomes; which memories the model keeps is its
choice. `CandidateFate` says that a candidate goes from pending to merged, once, or to
given up after its attempts; `loads` counts the batches that it was part of.

### Instance

`lease` is the holder of the lock file's flock, `path` what the socket file names,
`open` the listeners, `pidfile` the PID file's owner. `daemon[d].pc` follows
`Mount` (lock, look, probe, compare, remove, listen), `writePID`, the notification of
readiness, `Serve`, and `Close` with its removals in their order; `command[c].pc`
follows the launcher's probe, lock probe, spawn, wait and recheck, `suna serve`'s and
the stop command's ways. A process may fail where a call of it can fail, or be killed
anywhere; the kernel then closes its listener and frees its lock, and the files stay.

### Daemon

`stage` is the main goroutine, `state` the runtime state the gate reads, `conn[c]` a
connection's goroutines, `sinks`, `table` and `runs` what the monitor reads, one after
the other (`watch`), `idle` its timer. Local connections enter the transport's table
at once, those over TCP after their handshake, and after their sink. `steady` is a
history variable: connections and runs that lasted since the evaluation began.

### McpServer

`cfg`, `client`, `state`, `gen`, `cancel` are the runtime's maps at one server. An
operation takes the lock several times: `SetConfig`, `SetEnabled`, `ReloadServer` and
`startAsync` set what is wanted; `startGeneration` opens a client, checks that it is
still wanted, puts it into the table, has the catalog refreshed and keeps or takes
back what it did. `notes` are the notifications taken under the lock and delivered
after it, `queue` and `wake` the daemon's publisher, `view` what clients were told
last. `closed` also stands for the end of the daemon's context. A client has the name
of the operation that opened it. `history` names the moments the properties except.

### Settings

`disk` and `stamp` are config.toml, `key` credentials.toml, `cfg` and `known` the
agent's copy and its `configModTime`, `records` and `seen` the skill runtime's, `mcp` the
MCP runtime's. Every operation is a sequence of steps (`op[p].pc`, `op[p].todo`):
`ensureConfigLoaded`, the lock, the stages of `stageAndCommitConfig` with a failure or a
crash between any two, publication, the follow-up work of the skill runtime with
its own lock. `Edit`, `Place` and `Restart` are the user's editor, a skill placed by hand and
a restart at any step.
One provider with one key; a server that is disabled at first; an update that adds
a model brings the key.

### Conversation

A message is its number with the attributes that decide what becomes of it (role,
text, image, calls, answered call). `working` is `WorkingMemory.messages`, `state` and
`fresh` the session state of the agent and of the run's next request, `disk` the row;
the state is the set of messages folded into it. `Compress` cuts the window
anywhere (`KeepStarts`: token sizes decide in the code), after `ExpandRecentStart` moved
the cut so that no result loses its call, and changes the working memory and the
request's state; `CommitState` the agent's state and the row, with each failure. A `Restart`
may come between any two actions. `call[i]` follows one tool call of a round
through the guard's decision, its question and its execution.

### SteeringClient

`tui` has the fields of the TUI's model that a run concerns; its operators are the
TUI's functions (`Resolve`, `RestoreUnresolved`, `Merge`, `Running`, `Ended`, `Apply`).
`calls` are served one at a time and in order, `replies` may be handled in any order
with the notifications in `wire`, which are in order among themselves. `srv` is
what a client can see of `RunLifecycle` and `Steering`. `lost` and `missed` are
history variables: texts the client let go of, and what it was told while a session
was being opened.

## Runs

Every run is bounded by its constants; each bound is a constant with a comment.
Clients, messages and tool calls are interchangeable where the run says SYMMETRY,
and no run with a liveness property does.

| Run | What it shows | Bounds, and why they are enough |
|---|---|---|
| `session_manager` | `Membership`, `HoldsCounted`, `NoRuntimeWithoutRow`: who is attached to which runtime, what holds it and whether it has a row agree; `UsedRuntimeStays` | three clients (creator or attacher, deleter, bystander), two sessions that are persisted, legacy or new, five requests, every call failing: enough for two overlapping attaches and a delete, or a failed create with two others, one of which deletes its session |
| `run_lifecycle` | `RunIsTold`: one lifecycle per run, from its beginning to one end; `WorkIsExclusive`; `QuestionsAreKept` | two connections, two runs in a row, two questions, two rounds, a channel of two, four requests: a run overlaps the end of the one before, a cancel overlaps both, and the channel fills |
| `run_liveness` | a cancel ends the run, an orphaned question ends it, the session is given back | one run, two rounds |
| `steering` | `MailboxConsistent`, `EndSettlesAll`, `QuietWhileAsking`; the mailbox implements `MessageFate`; a queued message is decided | two runs, two messages of different size for two places and three bytes, one tool that asks, three requests: a request that is late for the first run meets the second, and both limits are reached |
| `exec_jobs` | `LimitsHold`, `EndedIsClean`, `FirstRequestWins`, `RemovedForAReason` | three starts for two places, of a run and its subtask; one may time out and survive its signals, one cannot start; two of the four kinds of end; one completed job is kept |
| `profile_memory` | `TableIsKept`, `RemovedStays`; the worker implements `CandidateFate`; a candidate settles | two candidates (a full batch, or two groups of different models), a model reference that is missing, two attempts, one stop or crash, one failure, one memory kept: a stop between any two steps of a batch and of its retry |
| `instance` | `OneServes`, `PIDIsRight`, `FailsForAReason` | three daemons, so that two compete for the files of a third; a launcher, a server and a stop command; one idle exit or signal; one failure or death |
| `daemon` | `NoLastingClientStopped`; `DaemonEnds` | a client of each transport, three retention policies, one stop from outside: a client may move between the sets in every order while the other comes or goes |
| `mcp_server` | `ClientIsUsable`, `NoClientLeft`, `ToolsAreCurrent` | the start the daemon began with, two operations of any kind, two configurations, a close: an operation is outdated by another at every step |
| `settings` | `NothingLost`, `CredentialsAgree`, `CopyIsTrue`, `EnabledIsTrusted` | two operations of any kind, two models, two skills, one edit, placed skill or restart: a writer meets another writer, or a change from outside, between any two of its steps |
| `conversation` | `RequestIsPaired`, `NothingForgotten`, `RowHasNoHole` | five messages (a user's, a call, two results and a message from the mailbox, say), two attempts, one restart, calls with names of their own: every cut of every such window, in the run, in its resumption and after it |
| `steering_client` | `EachTextOnce`, `ShowsTheEnd` | two runs, two texts, two steering messages, one call given up, three notifications on the way. `InTime` keeps the response to a call of one run from being handled after the end of the next, `Compact` only tells of a compaction that a cancel came too late for |

Deadlock is not checked where the bounds end the behaviours: when they are used up
the clients have nothing left to do, as an idle daemon.

### Fairness

Weak fairness of goroutines that can go on is assumed: requests that are under way,
unload timers (a `time.Sleep` returns), event loops, and the agent's steps that wait
for nobody. In `RunLifecycle` nothing is assumed of models, tools and users: a cancelled
context makes their calls return, which is the fairness of `AgentContinues`. In `Steering`
a model request and a tool come back, since each has a timeout; a user need not
answer, so the property excludes an open question. In `ProfileMemory` the worker
goes on, a delay ends, and a model request ends one way or the other; `CandidateSettles`
speaks of a daemon that is not stopped. In `Daemon` goroutines go on and the grace
period, which starts again whenever somebody comes, is over some day (strong fairness of
`GraceOver`: a timer that is set again and again fires once it is left alone). No client
is assumed to send anything. Weak fairness is enough elsewhere since none of these
steps is disabled by others for ever: a mutex is free again when its holder, itself
fair, goes on.

## Disagreements met while modelling

What the code does and a document, a comment or the obvious intent does not say. Some
are stated as properties that fail; no run of the list checks those, and the last
subsection names the constants under which TLC shows them.

**Sessions and runs**
- A delete ignores the creation latch (`session_cleanup.go:34`) and shares the deleting
  mark with the clean-up of a failed create. The first of them to end clears it, a third
  client attaches, and the other removes its runtime and its row, which leaves the client
  attached to nothing (`session_manager.go:181`, `NoDangling`). The history variable
  `crossed` remembers such sessions; the properties except them and nothing else.
- `attach` installs the model reference that it read before the critical section
  (`session_manager.go:201`); an update in between leaves runtime and row with
  different models (docs/architecture.md:131).
- A failed delete gives its hold back while its mark still blocks the unload
  (`session_cleanup.go:73`): an idle runtime stays loaded (docs/tcp-client.md:318).
- The status says *waiting* until the next model request, so the last client's leaving
  cancels a run that executes an approved tool (`session_manager.go:364`;
  docs/tcp-client.md:318).
- A question that is asked when nobody is attached waits for ever (`service.go:366`;
  session_manager.go:372-374).
- `can_reply` follows the connection that started the run, not the owner, so after a
  hand-off nobody is told that he may answer (`service.go:507`; docs/protocol.md:510-511).
- `agent.cancel` cancels whatever runs when it gets there (`service.go:153`;
  docs/protocol.md:98, session_run_lifecycle.go:29).
- `finishRun` closes the events before it unlocks `runMu` (`agent.go:308`). A run
  that is reserved in between gets a mailbox and is refused (`service.go:286`); a
  message that is queued before the session is idle again stays queued, neither
  applied nor rejected (docs/protocol.md:339).
- A manual compaction registers its cancel function after the response was sent
  (`service.go:721`): a cancel in between is accepted and lost. A
  compaction that a cancel makes fail is reported as an error (`service.go:746`), and leaving does not cancel
  one (`management.go:129`).
- A run whose automatic compaction fails may end without a terminal event
  (`service.go:439`, docs/protocol.md:318), and the end of a run whose cancel is
  being published is not told again (`service.go:290`).
- A late answer takes the control over before it is found to be late (`service.go:617`,
  docs/protocol.md:511).

**Exec jobs**
- `status` reads a job's output before its state (`exec_registry.go:243`): a terminal
  state may come with an output that lacks its tail.
- A start that reserved its place before the daemon closed the registry is stopped by
  its own call, for which `Provider.Close` does not wait (`provider.go:78`).
- A job whose process survived and which was trimmed or reaped before its owner ended is
  not reported by the clean-up.

**User memory**
- A stop's cancelled context counts as a failed attempt, and a row at its last attempt
  is dropped (`worker.go:162-200`, `queue.go:177`), where docs/current-implementation.md:57
  has what was not processed stay in the database (`PendingSurvivesStop`).

**Single instance**
- The launcher's own probe holds the lock for a moment and may turn a daemon away that
  nobody else competes with (`daemon_start.go:84`, `FailsWithoutWinner`).
- `suna serve` fails at once when a daemon is still starting; a launcher that meets a
  stopping daemon waits ten seconds and gives up; the stop command removes whichever
  PID file is there at its end. The Windows variant has no lease.

**Daemon**
- `markReady` may overwrite a stop's *stopping* with *ready* (`daemon.go:129`): requests
  pass the gate again until the process ends.
- A client that connects after the monitor's last read is stopped; a TCP client that
  connects again during its handshake may be missed in the table; a request that was
  admitted before the stop can start a run after `cancelAllRuns`. Both real transports
  declare an idle exit; other policies are what the interface allows.

**MCP runtime** (excepted through `history`)
- A reload, or a second start, while a start waits for the catalog takes the client that
  is still in the table for the old one and closes it; when it then fails, the server is
  *active* with a closed client, which ReloadServer's comment ("失败时旧 client 仍可继续执行")
  excludes. The replaced client of a start that is superseded (by
  whatever cancels it or publishes after it), or that the runtime's close overtakes, is
  never closed.
- Disabling, when its catalog refresh fails during a start, leaves *starting* for ever or
  restores the configuration over a newer one. `startAsync` does not look at the enabled
  flag again; `SetConfig` does not outdate a start that has no generation yet; a
  server that is removed and added again begins with generation 1 once more.
- Notifications are sent after the lock and may cross; `SetConfig` may tell *active*
  before the catalog is refreshed (docs/architecture.md:95); a refresh between a failed
  one and its roll-back lists a closed client.

**Configuration and skills** (excepted through `unseen` and `history`)
- `mcp.toggle` writes the whole configuration in place and without the lock: it loses what
  another writer commits meanwhile, and a crash leaves an empty file, after which the
  daemon asks for its set-up and the next save drops MCP servers and skill records.
- A run's `skill_start` does not look whether the file has changed.
- The time of modification is read after the rename and may be another writer's;
  `reloadRuntimeConfig` may apply an older MCP part after a newer one; until the first
  publication the MCP runtime shares the agent's table of servers.
- A restart with no models reloads the skills without their records, which enables the
  disabled and imported ones (docs/current-implementation.md:193, import.go:43-45).
- An imported skill is enabled by the reload that finds it and disabled by a second
  commit, between which a failure or a crash leaves it enabled;
  `saveWorkflowDecisionLocked` is called without the lock its name asks for
  (`runtime.go:255`); two flows may decide on a check the other has replaced.
- A crash between the two renames of a key's deletion leaves models without key.

**Conversation**
- `ResumeRun` lacks `Run`'s replacement of images by texts (`MediaOnlyInItsRun`; the
  comments at agent.go:209 and runner.go:495).
- With one message in the window and a state, a compaction folds that message
  (`NewestIsKept`; compress.go, "至少保留最新一条消息").
- With a provider that does not name its calls each round's first call is `call_0`
  (compress_test.go:53), and a cut may keep a result without its call (`RequestIsPaired`
  with `UniqueIds = FALSE`).
- A cancel that meets the adapter's closing of its channel makes a cut-off answer, or a
  cut-off session state, count as complete. A message that is only an image is not saved.

**Terminal**
- A text is let go of in three places (`lost`): a failed submission at the end of its run
  or the beginning of another; a removal that is told after the end; a message that the
  session refuses as busy between *done* and *idle*.
- What is told while a session is being opened is dropped (`missed`), so that an ended
  run may stay on the screen (docs/tcp-client.md:237; events.go:652 forgets which run
  was completed).
- A cancel accepted after `finishCancelling` of a run whose failed compaction was its only
  end is never followed by *cancelled* (`srv.late`).
- A call that was given up may duplicate its text. On a second overflow
  `flushPending` (notification_queue.go) handles newer items before older ones. An observer
  gets `Loading = FALSE` at a question and may send what is then refused.

### Stated properties that no run of the list checks

To reproduce one, add it to a copy of the named configuration with the constants given
and nothing else.

| Property | Module | Configuration | Outcome |
|---|---|---|---|
| `NoDangling` | `SessionManager` | `SessionManager.cfg` | fails |
| `UnusedIsUnloaded` under `FairSpec` | `SessionManager` | two clients, one session, one model, no "get" and "persist" failures, no symmetry | holds |
| `LeavingKeepsExecutingRun` (PROPERTY), `SomebodyMayReply` | `RunLifecycle` | `RunLiveness.cfg`, `Spec` | fail |
| `UnanswerableQuestionEnds` | `RunLifecycle` | `RunLiveness.cfg` | fails |
| `NoBystanderCancelled` | `RunLifecycle` | `RunLifecycle.cfg` | fails |
| `PendingSurvivesStop` | `ProfileMemory` | `ProfileMemory.cfg` | fails |
| `FailsWithoutWinner` | `Instance` | `Instance.cfg` | fails |
| `MediaOnlyInItsRun`, `NewestIsKept` | `Conversation` | `Conversation.cfg` | fail |
| `RequestIsPaired` | `Conversation` | `Conversation.cfg` with `UniqueIds = FALSE` | fails |
| `OneAnswerShown` | `Conversation` | `Conversation.cfg` | holds |

## Proofs

All proofs hold for every value of the constants under the named assumptions of the
modules, which TLC evaluates in the runs. Each invariant below was first checked by TLC
on the constants of its run.

**SessionManager, in SessionProofs.** Types need no invariant but that requests name sessions
(`TypeStep`, `TypeCorrect`). For the safety properties `IInv` adds who owns what: the latch
of a session is held by exactly one create and excludes other holders (`Latch`), the
deleting mark has one owner, unless the session is in `crossed`, and excludes every use of
the runtime (`DeleteMark`), who holds a
runtime holds the current object (`HoldsCurrent`, `Generations`), no request knows a later
generation than the manager (`Versions`), and a runtime has a row unless the delete that
removed it is about to drop it (`Rowed`). Without them `Membership` is not inductive: a
commit could install a client in a runtime that a delete is removing. Where the mark had
two owners the session is `Buried` once row and runtime are gone and nobody can install
another, and it stays so (`Stays`): this is all the properties except. `SafeStep` proves that
`IInv` is kept, one lemma per action; `MembershipCorrect`, `HoldsCountedCorrect`,
`LoadCorrect`, `NoStaleRevival` and `UsedRuntimeStaysCorrect` follow.

**RunLifecycleProofs.** `IInv` has three parts. `WorkInv`: nothing of a run exists before a
connection begins it (`Fresh`); a compaction has no event loop and an agent at work on a
chat run has one (`Kinds`); the loop ends after the agent has closed the channel (`Closed`);
the session is busy from the reservation to the end (`Reserved`); and a question is open only
while its loop goes on (`Open`). `AskInv`: a question is at one place at a time, in the channel,
with the loop that stores it, open, or answered (`Once`, `Stages`), and whoever is in the middle
of a reply has found it there, and is its owner or has seen it without its owner (`Replies`).
`ToldInv`: one goroutine publishes (`OnePublishes`), the run's state is what was told or is about
to be (`StateIsTold`), what each publisher holds fits what was told (`FirstIsRunning`,
`CancelFits`, `LoopFits`), and how a run ended is in the channel, in a publisher's hand or
told (`Ends`). `WorkIsExclusive` needs `Closed`: the loop gives the session back, and only the
closed channel keeps it from doing so while the agent works. There is one lemma per action;
`LoopStep`, `LoopPublish` and their like serve the actions that differ only in where they lead.

**SteeringProofs.** `IInv` consists of the types; `Control` (whose turn it is: at most one
run is at work, the pointer names it or is nil, a late request names a run that began);
`Fresh` (a run's mailbox is untouched until it is prepared); `Counted` (the interaction
counter is the number of open tool calls, which exist only in a batch); `Mail` (the queue
holds exactly the queued messages, in the order of acceptance, and nothing when sealed);
and `SealedAtEnd`. All mailbox operations are proved first on the mailbox as a record;
`MailChanges` then says that a step changes at most one mailbox, by a client's message, the
run's own look or an interaction, and the properties are read off from it. `FateKept` proves
the refinement, initial states and steps. `AnswerCorrect` needs `Shown` in addition: the
last request contained all that was applied, what is called applied is in the context,
and nothing is rejected before the run fails. `EndCorrect` states both ends of a run as the
run `steering` checks them.
`MailboxCorrect` needs `Limited`: what was accepted and its bytes only change together, when
the limits leave room. The bytes are a sum over a set, which the library defines as a
recursive function; that the function exists, that the order of the elements does not
matter and that one element more adds its value (`AddsExists`, `AddsAnyFirst`,
`TotalGrows`) is proved from a least counterexample, which needs no induction theorem.

**ExecJobs, in ProcessProofs.** `IInv` says, besides the types: how far call, monitor and process of a job
may be apart (`Stages`); that one job trims at a time and has seen, or will see, whoever
completed before it (`Trims`); that the counters are the cardinalities of the places
held, and within the limits (`QuotaCounted`); that what has been through its trim is within the limits
(`Retained`, from which `RetentionBounded` follows by a pigeonhole argument: the trim keeps the
youngest it has seen); and what a clean-up has
listed and excludes (`Closing`, `Resting`, `Over`, `Listed`, `EndedHasNoJobs`,
`NoSilentSurvivor`). `LimitsCorrect` and `EndedCorrect` are read off; `RemovedCorrect` and
`FirstCorrect` are action properties proved from it. `Resting` is what makes
`EndedHasNoJobs` inductive: a boundary whose clean-up has begun starts nothing any more.

**Instance, in ProcessProofs.** `ProcessProofs` holds the proofs about three modules: the
daemons and commands of a machine, one daemon from within and the processes it runs in the
background. They share the file only; that is why `DaemonSpec` and `JobsSpec` have names
of their own. `Inv`: what each role may be doing (`Roles`); the lock has one holder,
who knows (`Locked`); an open listener is the holder's and is where the socket file leads
(`Listening`); the PID file names nobody but the holder, or a daemon that failed, or one that
a stop command has seen (`Named`). `Locked` carries the argument: every access to the two files
but the stop command's happens at a step where its process holds the lock.
`FailsForAReason` needs more (`Served`): as long as no stop was asked for, nothing failed and
no probe of the lock turned a daemon away, every daemon is on its way, serves or was turned
away (`Ready`); a daemon was turned away only if another one has the lock; and a command
that waits has somebody to wait for (`Awaited`). What was calm after a step was calm before
it (`CalmBefore`), so `Calm => Served` is inductive.

**Daemon, in ProcessProofs.** `LifeInv`: a connection has its sink from `OnConnect` to `removeConnection`
(`Connected`); the end has begun only when it was told to (`Told`); and what the monitor
has read was without lasting clients, while whoever lasts and was not among the sinks is
in its table (`Watched`), which is where the order sinks, tables, runs is used.

**SettingsProofs.** `IInv`: the lock is held exactly by who commits or publishes (`Holder`);
the key around a commit is the old or the new one, and only the deletion of the last model
takes it away (`Committed`); models on disk, and those that a truncated file is about to
get back, have their key (`Keyed`); times of modification only grow, and a writer whose time
is the latest knows what is on disk (`Stamped`); what is left to do fits (`Planned`); and
the copy is the file whenever their times agree (`True`, which is `CopyIsTrue` without its
exception for a commit under way).
`NothingLost` needs what each operation knows of the file (`Knows`): who looked at it first
works on what is on disk, unless somebody has written unseen or is about to publish; what is
about to be committed or written is the file with the intended change, or its writer is
excused; and a skill_start takes none of a request's steps (`Course`).
`EnabledIsTrusted` needs, as long as nothing happened that it excepts (`Calm`), that the
records on disk, in the copy and in the skill runtime, and those that an operation is about to
write, publish or apply (`Promise`), enable only skills that the user agreed to or that an
import will disable (`Trusting`). The import's disabling reaches disk, copy and runtime one
after the other (`FineOnDisk`, `FineInCopy`, `FineInMind`), under the skill runtime's lock
all the time (`PlanOf`), which keeps a reload from enabling the skill again in between.
Proving the two showed what TLC's two operations could not: with a third one an import may
read a copy that is out of date and take the lock after it was brought up to date (excused,
in `Reload`), and a toggle may write over a file that another has truncated (counted as
blind, `Pending`).

**McpServerProofs.** `Inv` holds for any number of operations that overlap. Always: an
operation about to notify has exactly one notification pending (`Noted`); who waits for the
catalog is among the waiters; a client that runs is in the table, in its operation's hands,
another operation's old one, or dropped (`Held`); and an operation that takes a client out
of the table remembers it. As long as no generation was forgotten (`Gens`), none is ahead of
the counter, no two starts have the same one, and `cancel` names one that connects.
While no operation has crossed another's replacement (`Untangled`), there is `Peace`: at
most one operation replaces or removes, and it is the current one; starts are of the current
configuration and can be cancelled; clients run with the current configuration; the state
fits; and whoever is to end a *starting* is under way. The catalog shows the client, or the
old one until its refresh comes (`Listed`), and what was told last is the state, or what a
disabling found (`Tells`). Two lemmas carry the steps: when it ends, the current operation
is alone (`Sole`), and a new generation leaves no other one valid (`Fresh`).
The attempt showed that `NoClientLeft` was false with more operations than TLC explores: a
new configuration that keeps its client, or a client that is put into the table, may
supersede another operation's replacement too, whose old client is then never closed. These
clients now count as dropped (`Dropping`); only the history variable changed.

**ProfileMemory, in MemoryProofs.** The worker takes selections of the table: what is due, what has
the first row's model, the rest. `Chosen` makes one, and is a recursive function; what its
stages hold is shown by contradiction, from the least stage where it fails (`Least`), whose
predecessor has it; no induction over an operator is needed. `Inv`: a candidate
has at most one row and has it exactly while it is pending (`Kept`); the worker's batch and
the groups still to come are in the table, apart from each other, under the model that is
asked (`Held`, which needs that only the worker takes rows away, in one transaction); a row
counts no more attempts than it was in batches, and one fewer while it is in hand
(`Counted`), which makes a row that is given up one that had all its attempts; what was
deleted is in neither profile, nor what the model was shown, nor its answer (`Deleted`);
and no worker outlives its process (`Alive`). `PromiseKept` then maps each action to a step
of `CandidateFate` or a stutter.

**Conversation, in MemoryProofs.** The second part of the module takes `Conversation` beside
`ProfileMemory`, which is why its `ConversationSpec` has a name of its own; both are about
`internal/memory` and choose from sequences with `Chosen`. `TalkInv` consists of the types;
`Numbered` (a message's number is its own in the window and in the row, none is larger than
what was told, and a call carries its message's number); `Whole` (what was said is in the
state or in the window, not in both, and in the window it is still a text); `Stored` (the row
has only texts, and whatever was said up to its newest message); `Timely` (the run's state and
the session's differ only while a compaction is committed, and after a save that went well
the row has everything); and `Calling`. `NothingForgotten` and `RowHasNoHole` are read off.
`Whole` is not inductive without `Numbered`: a message said again under an old number could
be in the state already; and what a save writes is without a hole only because `Whole` knows
that everything said is a text, which is what `VisibleMessages` keeps (`VisibleFacts`,
`SavedRow`). The steps that append are one lemma (`GrowInv`).
`RequestIsPaired` needs `Pairs`: results follow their call's message at once and in order,
and only while calls execute is the last message unanswered (`Closed`, `Open`). The compaction
is the step that could break it: `ExpandFacts` shows that the recursive `ExpandRecentStart`
ends at a place whose kept part asks for no parent before it, again from the least
counterexample, and `ClosedKept` that such a cut leaves results with their calls, because
calls have names of their own. This is why `PairedCorrect` has the hypothesis `UniqueIds =
TRUE`; without it the property fails (see the table above). What `Conversation` assumes
of its bounds (`ConversationAssumption`) is not needed.

**SteeringClientProofs.** What the client knows of a message is never wrong, only late, and
`TextInv` says how late it can be. A message is *sent* exactly as long as its call waits
(`SentWaits`); what a notification or a response says is so (`ToldIsTrue`, `AnsweredTruly`), and a
response of success is handled before the end of the next run (`AnsweredInTime`, which the
bound `InTime` is for). News come in the order of the runs (`InRunOrder`), the client is never ahead of them (`NotAhead`), and a message
of its own is of the run it is at, or nothing of that run is on its way any more (`AtItsRun`).
Each submission that is open will be answered, one that failed was refused or given up
(`Answerable`), and neither has been told of otherwise (`Untold`). The texts follow from two
halves: a text that may still come back, or be given to the model, is so in one place only, and
not in the draft, unless its call was given up (`OneLive`, `NotInDraft`); and a text that is
not in the draft is carried by a message or was let go of (`Somewhere`). `OpensQuietly` keeps
the opening of a session apart, when the user can do nothing yet. The client's handlers are
proved first as operators on its record (`Merge`, `Resolve`, `Ended`, `Apply` and the rest), then
each kind of notification and response has its lemmas, one per conjunct; the daemon's
steps come before them. Steps that differ only in the news they bring share a lemma
(`RunTellsText`, `RefusalHandled`, `NothingHeard`). The proof found one thing in the model: the `CASE` of `Handled` had two
branches for an idle session on the welcome page, which TLC resolves by their order and the
logic does not.

**The screen, in SessionProofs.** The second part of the module proves `ShowsTheEnd` on top of
`SteeringClientProofs`, whose invariant and lemmas it takes; the module holds it beside the
session manager's proofs only for its size. The argument: whatever makes the screen spin, or
keeps a message on its list, is followed by what stops it or takes it off, so that it is over
once nothing is on the way. `ScreenInv` says what follows what. A run that was told of is
executing, or its end or its failure is on the way behind it (`RunsStop`), and each reason for
spinning has a call, a response, a run or a notification to end it (`SpinStops`), unless one of
the causes that the property excepts has occurred (`Excused`). A compaction's failure is the last
that is told of its run (`ErrorIsLast`), and the runs that the client has not reached are told,
one by one (`RunsAreTold`). A listed message waits for its decision, or the decision is on its
way, or another run is coming and clears the list (`ListClears`); this is inductive only with
`RunReached` (the client has been at the run of each message of its own, or is about to be told of
it) and `DecisionKnown` (what was decided at the run where it is, it has remembered or will hear),
since a response lists a message that a notification may have decided before. Every action is
one of two kinds: the client does not change and the rest goes on (`RunSteps`, `DecidedMoves`),
or it handles one response or notification (`ReplyScreen`, `NoteScreen`). What was told while the
session was being opened is excepted because the code may lose it (`MissedScreen`).

**Only model-checked**: every liveness property (the prover has neither fairness nor ENABLED).

## What is not modelled

- Guard's rules, sensitive paths and risk classes: one decision over one call's
  data; they are a policy, whose effect on the run is in `Conversation` and `RunLifecycle`.
- Tools other than background jobs: one call without state of its own.
- Model adapters, token estimates, rate limiter, calibration: input and output, or numbers
  that only move a cut which `Conversation` leaves open anyway.
- Rendering, overlays, configuration pages and input editing of the terminal: about a
  third of the implementation's lines, a function of the view state and the last key.
- Update, prompts, media, protocol types, logging, version: data and formatting.
- Windows: the Named Pipe has no lease and no stale socket; its modules are not modelled.
- In modelled components: subtasks' limits on turns and calls, hooks, project skills,
  archives' limits, calls of MCP tools and their JSON-RPC client, expiry and usage counts of
  memories, pruning of logs, and observers, questions and resumption in the terminal.

Text, formatting, logging and presentation have no state of their own; model providers,
the shell's processes and the file system are external and appear as choices. Go's
memory model is not questioned: the code accesses the modelled fields under their locks.
What is left out is most of the lines and little of the control: the definitions stand for
about an eighth of the implementation, and most of the remaining lines render, parse or
format.

## Plan

Done: all components with state that several actors change, with proofs for eleven.
What is left, in this order:

1. Subtasks inside a tool call: their own rounds, limits and cancellation, as a client of
   `Conversation`'s round.
2. The client side of the transports: reconnecting, the daemon's restart under an open
   terminal, and observers in `SteeringClient`.
3. The stream batcher, the output ring and the calibrator against reference definitions.
