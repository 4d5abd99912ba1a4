------------------------------ MODULE McpServer ------------------------------
(***************************************************************************)
(* One MCP server in the runtime: its configuration, the client that calls *)
(* go to, the state that is shown, and the operations on them: new         *)
(* configurations, enabling, disabling, reloading, closing.  An operation  *)
(* takes the runtime's lock several times; in between it starts a child    *)
(* process, waits for the catalog of tools, and notifies.  Generations     *)
(* tell an operation that it has been entangled.                          *)
(*                                                                         *)
(* An operation opens at most one client, which has the operation's name.  *)
(***************************************************************************)
EXTENDS Naturals, Sequences, FiniteSets

CONSTANTS
  Ops,       \* bound: operations on the server
  First,     \* the start that the daemon began with
  None,
  Versions   \* configurations that differ in more than the enabled flag

ASSUME McpAssumption == IsFiniteSet(Ops) /\ First \notin Ops /\ None \notin Ops \cup {First} /\ None \notin Versions

Absent == [ver |-> None, enabled |-> FALSE]
Starts == Ops \cup {First}
Configs == {Absent} \cup [ver : Versions, enabled : BOOLEAN]

VARIABLES
  cfg,       \* the server's configuration, or Absent
  client,    \* the client in the table
  state,     \* "gone", "disabled", "starting", "active", "error"
  failed,    \* an error is shown
  gen,       \* its generation; 0 when the table has none
  cancel,    \* the start that can be cancelled
  started,   \* Start has run: later configurations start their servers
  closed,    \* the runtime is closed
  open,      \* clients whose process runs
  op,        \* the operations
  waiters,   \* operations that wait for the catalog
  reloading, \* SetConfigs that have yet to refresh the catalog
  catalog,   \* the client whose tools the model is shown
  notes,     \* notifications taken under the lock and not yet delivered
  queue,     \* the daemon's queue of notifications
  wake,      \* its publisher has been woken up
  view,      \* the state that clients were told last
  history    \* what has happened that the properties except

server == <<cfg, client, state, failed, gen, cancel, closed>>
lists == <<waiters, reloading, catalog>>
daemon == <<queue, wake, view>>
vars == <<server, started, open, op, lists, notes, daemon, history>>

NoOp == [pc |-> "none", then |-> "done", config |-> FALSE, ver |-> None, gen |-> 0, got |-> FALSE,
         old |-> None, prev |-> [cfg |-> Absent, state |-> "gone", failed |-> FALSE]]

\* NewRuntime; or later, when the first start has ended well.
Init ==
  /\ cfg \in Configs /\ failed = FALSE /\ cancel = None /\ closed = FALSE
  /\ \/ /\ started = FALSE /\ client = None /\ gen = 0
        /\ state = IF cfg = Absent THEN "gone" ELSE IF cfg.enabled THEN "starting" ELSE "disabled"
     \/ started = TRUE /\ client = First /\ gen = 1 /\ cfg.enabled /\ state = "active"
  /\ open = {client} \ {None} /\ catalog = client /\ waiters = {} /\ reloading = {}
  /\ op = [o \in Starts |-> [NoOp EXCEPT !.ver = IF o = First THEN cfg.ver ELSE None]]
  /\ notes = <<>> /\ queue = <<>> /\ wake = FALSE /\ view = state
  /\ history = [crossed |-> FALSE, entangled |-> FALSE, forgotten |-> FALSE,
                unlisted |-> FALSE, dropped |-> {}]

At(o, pc) == op[o].pc = pc
Set(o, r) == op' = [op EXCEPT ![o] = r]
Go(o, pc) == Set(o, [op[o] EXCEPT !.pc = pc])
Busy == {o \in Ops : op[o].pc \notin {"none", "done"}} \cup reloading

\* serverInfoLocked, for the notification that op o sends next.
Told(o, s) == notes' = Append(notes, [op |-> o, state |-> s])

\* nextGenerationLocked: the start under way is cancelled and outdated.
NextGen(o, r) == gen' = gen + 1 /\ cancel' = None /\ Set(o, [r EXCEPT !.gen = gen + 1])

\* Operations that wait for the catalog, and starts that have been decided but
\* have no generation yet, cannot be cancelled.  Those that have put a new
\* client into the table remember the old one.
Replacing == {o \in Ops : op[o].pc \in {"sync", "synced", "unsynced"}}
Removing == {o \in Ops : op[o].pc \in {"offsync", "off", "offfailed"}}
Announced == {o \in Ops : op[o].then = "async" \/ At(o, "async")}
Unregistered == {o \in Ops : op[o].then = "begin" /\ op[o].pc \in {"notify", "begin"}}
Dropping == [history EXCEPT !.dropped = @ \cup {op[r].old : r \in Replacing}]
Entangling(o) ==
  [Dropping EXCEPT !.entangled = @ \/ (Replacing \cup Removing \cup Announced) \ {o} # {}]

-----------------------------------------------------------------------------
(* New configurations                                                      *)

\* SetConfig: the client stays when nothing about the server changed.
KeepsClient(new) == client # None /\ new.enabled /\ new = cfg

SetConfig(o, new) ==
  /\ At(o, "none")
  /\ LET keep == KeepsClient(new)
         s == IF new = Absent THEN "gone" ELSE IF ~new.enabled THEN "disabled"
              ELSE IF keep THEN "active" ELSE "starting"
     IN /\ Set(o, [NoOp EXCEPT !.config = TRUE, !.ver = new.ver,
                     !.pc = IF new = Absent THEN "reload" ELSE "notify",
                     !.then = IF s = "starting" /\ started THEN "async" ELSE "reload"])
        /\ gen' = IF new = Absent THEN 0 ELSE IF cancel # None THEN gen + 1 ELSE gen
        /\ cancel' = None /\ cfg' = new /\ state' = s
        /\ client' = IF keep THEN client ELSE None
        /\ open' = IF keep THEN open ELSE open \ {client}
        /\ failed' = (failed /\ new.enabled)
        /\ notes' = IF new = Absent THEN notes ELSE Append(notes, [op |-> o, state |-> s])
        /\ history' = [(IF ~keep THEN Entangling(o) ELSE IF cancel # None THEN Dropping ELSE history)
                         EXCEPT !.forgotten = @ \/ (new = Absent /\ Busy # {}) \/ Unregistered # {}]
  /\ UNCHANGED <<started, closed, lists, daemon>>

\* Start, once: it starts the servers of its configuration.
Boot(o) ==
  /\ At(o, "none") /\ ~started /\ ~closed /\ started' = TRUE
  /\ Set(o, [NoOp EXCEPT !.pc = IF cfg.enabled THEN "async" ELSE "done", !.ver = cfg.ver])
  /\ UNCHANGED <<server, open, lists, notes, daemon, history>>

\* startAsync
StartAsync(o) ==
  /\ At(o, "async")
  /\ IF closed
       THEN Go(o, IF op[o].config THEN "reload" ELSE "done") /\ UNCHANGED <<server, notes>>
       ELSE /\ NextGen(o, [op[o] EXCEPT !.pc = "notify", !.then = "begin"])
            /\ state' = "starting" /\ failed' = FALSE /\ Told(o, "starting")
            /\ UNCHANGED <<cfg, client, closed>>
  /\ history' = Entangling(o) /\ UNCHANGED <<open, started, lists, daemon>>

\* reloadRuntimeConfig refreshes the catalog after SetConfig, while the start
\* goes on; the refresh may fail.
Reload(o) ==
  /\ \/ At(o, "reload") /\ Go(o, "done") /\ UNCHANGED reloading
     \/ o \in reloading /\ reloading' = reloading \ {o} /\ UNCHANGED op
  /\ \/ catalog' = client /\ history' = [history EXCEPT !.unlisted = @ \/ Replacing \cup Removing # {}]
     \/ history' = [history EXCEPT !.unlisted = TRUE] /\ UNCHANGED catalog
  /\ UNCHANGED <<server, started, open, waiters, notes, daemon>>

-----------------------------------------------------------------------------
(* Enabling, disabling, reloading                                          *)

\* SetActive(true), and ReloadServer when there is a client.
Restart(o, enable) ==
  /\ At(o, "none") /\ ~closed /\ cfg # Absent /\ (enable \/ client # None)
  /\ NextGen(o, [NoOp EXCEPT !.pc = "notify", !.then = "begin", !.ver = cfg.ver])
  /\ cfg' = IF enable THEN [cfg EXCEPT !.enabled = TRUE] ELSE cfg
  /\ state' = "starting" /\ failed' = FALSE /\ Told(o, "starting")
  /\ history' = Entangling(o)
  /\ UNCHANGED <<client, started, closed, open, lists, daemon>>

\* SetActive(false): the client is taken away, but not yet closed.
Disable(o) ==
  /\ At(o, "none") /\ ~closed /\ cfg # Absent
  /\ NextGen(o, [NoOp EXCEPT !.pc = "offsync", !.old = client,
                  !.prev = [cfg |-> cfg, state |-> state, failed |-> failed]])
  /\ client' = None /\ failed' = FALSE /\ state' = "disabled"
  /\ cfg' = [cfg EXCEPT !.enabled = FALSE] /\ waiters' = waiters \cup {o}
  /\ history' = Entangling(o)
  /\ UNCHANGED <<closed, started, open, reloading, catalog, notes, daemon>>

\* The catalog is up to date: the client is closed and the state told.
Disabled(o) ==
  /\ At(o, "off") /\ open' = open \ {op[o].old}
  /\ Set(o, [op[o] EXCEPT !.pc = "notify", !.then = "done"]) /\ Told(o, state)
  /\ UNCHANGED <<server, started, lists, daemon, history>>

\* It is not: everything is as it was, if nothing happened meanwhile.
EnableAgain(o) ==
  /\ At(o, "offfailed") /\ Go(o, "done")
  /\ IF cfg # Absent /\ gen = op[o].gen /\ ~cfg.enabled
       THEN /\ cfg' = op[o].prev.cfg /\ state' = op[o].prev.state
            /\ client' = (IF op[o].old # None THEN op[o].old ELSE client)
            /\ failed' = (op[o].prev.failed \/ failed)
            /\ history' = [history EXCEPT !.entangled = @ \/ state' = "starting"]
       ELSE /\ history' = [history EXCEPT !.dropped = @ \cup {op[o].old}]
            /\ UNCHANGED <<cfg, state, client, failed>>
  /\ UNCHANGED <<gen, started, cancel, closed, open, lists, notes, daemon>>

-----------------------------------------------------------------------------
(* startGeneration                                                         *)

Begin(o) ==
  /\ At(o, "begin")
  /\ IF closed \/ gen # op[o].gen
       THEN Go(o, "done") /\ UNCHANGED cancel
       ELSE Go(o, "connect") /\ cancel' = o
  /\ UNCHANGED <<cfg, started, client, state, failed, gen, closed, open, lists, notes, daemon, history>>

\* openServer: a child process that answers; a cancel may come too late.
Connect(o) ==
  /\ At(o, "connect")
  /\ \/ Set(o, [op[o] EXCEPT !.pc = "publish", !.got = TRUE]) /\ open' = open \cup {o}
     \/ Go(o, "publish") /\ UNCHANGED open
  /\ UNCHANGED <<server, started, lists, notes, daemon, history>>

\* Mutant of Valid: only the configuration is looked at.
ValidAnyway(o) == ~closed /\ cfg.enabled
Valid(o) == ~closed /\ cfg.enabled /\ gen = op[o].gen

\* Mutant of Discarded: the client of a start that is outdated is forgotten.
DiscardedNever(o) == open
Discarded(o) == open \ {o}

\* Outdated: the client is closed, nothing else changes.
Outdated(o) ==
  /\ At(o, "publish") /\ ~Valid(o) /\ Go(o, "done") /\ open' = Discarded(o)
  /\ cancel' = IF gen = op[o].gen THEN None ELSE cancel
  /\ UNCHANGED <<cfg, started, client, state, failed, gen, closed, lists, notes, daemon, history>>

\* The old client, if any, stays.
ConnectFailed(o) ==
  /\ At(o, "publish") /\ Valid(o) /\ ~op[o].got
  /\ Set(o, [op[o] EXCEPT !.pc = "notify", !.then = "done"])
  /\ cancel' = None /\ failed' = TRUE
  /\ state' = IF client # None THEN "active" ELSE "error"
  /\ Told(o, state')
  /\ UNCHANGED <<cfg, started, client, gen, closed, open, lists, daemon, history>>

Publish(o) ==
  /\ At(o, "publish") /\ Valid(o) /\ op[o].got
  /\ Set(o, [op[o] EXCEPT !.pc = "sync", !.old = client])
  /\ cancel' = None /\ client' = o /\ state' = "starting" /\ failed' = FALSE
  /\ waiters' = waiters \cup {o} /\ history' = Dropping
  /\ UNCHANGED <<cfg, started, gen, closed, open, reloading, catalog, notes, daemon>>

\* The catalog shows the new client's tools: only now it is active.
Activate(o) ==
  /\ At(o, "synced") /\ Valid(o) /\ client = o
  /\ Set(o, [op[o] EXCEPT !.pc = "notify", !.then = "done"])
  /\ state' = "active" /\ open' = open \ {op[o].old} /\ Told(o, "active")
  /\ UNCHANGED <<cfg, started, client, failed, gen, cancel, closed, lists, daemon, history>>

\* Superseded while it waited: its client is closed, wherever it is.
TooLate(o) ==
  /\ At(o, "synced") /\ ~(Valid(o) /\ client = o)
  /\ Go(o, "done") /\ open' = open \ {o}
  /\ UNCHANGED <<server, started, lists, notes, daemon, history>>

\* Mutant of Restored: a client that the catalog refused stays in the table.
RestoredNever(o) == o

Restored(o) == op[o].old

\* The catalog could not be refreshed: the old client is back.
SyncFailed(o) ==
  /\ At(o, "unsynced")
  /\ IF gen = op[o].gen /\ client = o
       THEN /\ client' = Restored(o) /\ failed' = TRUE
            /\ state' = IF op[o].old # None THEN "active" ELSE "error"
       ELSE UNCHANGED <<client, failed, state>>
  /\ open' = open \ {o}
  /\ Set(o, [op[o] EXCEPT !.pc = "notify", !.then = "done"]) /\ Told(o, state')
  /\ UNCHANGED <<cfg, started, gen, cancel, closed, lists, daemon, history>>

\* flushMCPToolCatalog, some time after the last waiter came: one refresh for
\* all of them.
Flush ==
  /\ waiters # {} /\ waiters' = {}
  /\ \E ok \in BOOLEAN :
       /\ catalog' = IF ok THEN client ELSE catalog
       /\ op' = [o \in Starts |-> IF o \notin waiters THEN op[o] ELSE
                   [op[o] EXCEPT !.pc = IF @ = "offsync" THEN (IF ok THEN "off" ELSE "offfailed")
                                        ELSE (IF ok THEN "synced" ELSE "unsynced")]]
  /\ UNCHANGED <<reloading, started, server, open, notes, daemon, history>>

\* The daemon is closing: a waiter does not wait for the catalog.
GiveUp(o) ==
  /\ closed /\ o \in waiters /\ waiters' = waiters \ {o}
  /\ Go(o, IF At(o, "offsync") THEN "offfailed" ELSE "unsynced")
  /\ UNCHANGED <<server, started, open, reloading, catalog, notes, daemon, history>>

-----------------------------------------------------------------------------
(* Notifications: notify, onMCPChange, publishMCPUpdates                   *)

Mine(o) == CHOOSE i \in 1 .. Len(notes) : notes[i].op = o
Without(i) == SubSeq(notes, 1, i - 1) \o SubSeq(notes, i + 1, Len(notes))

\* notify is called without the lock: notifications may pass each other.  The
\* wake-up is dropped when the slot is full.
Notify(o) ==
  /\ At(o, "notify")
  /\ queue' = Append(queue, notes[Mine(o)].state) /\ notes' = Without(Mine(o)) /\ wake' = TRUE
  /\ history' = [history EXCEPT !.crossed = @ \/ Mine(o) # 1] /\ Go(o, op[o].then)
  /\ reloading' = IF op[o].config /\ op[o].then = "begin" THEN reloading \cup {o} ELSE reloading
  /\ UNCHANGED <<server, started, open, waiters, catalog, view>>

\* Mutant of Publisher: one update per wake-up.
PublisherOnce ==
  /\ wake /\ queue # <<>>
  /\ view' = Head(queue) /\ queue' = Tail(queue) /\ wake' = FALSE
  /\ UNCHANGED <<server, started, open, op, lists, notes, history>>

\* Woken up, the publisher empties the queue.
Publisher ==
  /\ wake
  /\ IF queue = <<>> THEN wake' = FALSE /\ UNCHANGED <<queue, view>>
     ELSE view' = Head(queue) /\ queue' = Tail(queue) /\ UNCHANGED wake
  /\ UNCHANGED <<server, started, open, op, lists, notes, history>>

-----------------------------------------------------------------------------

\* Close: starts are cancelled, the client closed.
Close ==
  /\ ~closed /\ closed' = TRUE /\ cancel' = None /\ client' = None /\ open' = open \ {client}
  /\ gen' = IF cancel # None THEN gen + 1 ELSE gen
  /\ history' = Entangling(None)
  /\ UNCHANGED <<cfg, started, state, failed, op, lists, notes, daemon>>

Operation(o) ==
  \/ \E new \in Configs : SetConfig(o, new)
  \/ Boot(o) \/ StartAsync(o) \/ Reload(o)
  \/ \E enable \in BOOLEAN : Restart(o, enable)
  \/ Disable(o) \/ Disabled(o) \/ EnableAgain(o)
  \/ Begin(o) \/ Connect(o) \/ Outdated(o) \/ ConnectFailed(o) \/ Publish(o)
  \/ Activate(o) \/ TooLate(o) \/ SyncFailed(o)
  \/ GiveUp(o) \/ Notify(o)

Next == Flush \/ Publisher \/ Close \/ \E o \in Ops : Operation(o)

Spec == Init /\ [][Next]_vars

-----------------------------------------------------------------------------
(* Properties                                                              *)

\* The values of the variables.
TypeOK ==
  /\ cfg \in Configs /\ client \in Starts \cup {None} /\ failed \in BOOLEAN /\ gen \in Nat
  /\ state \in {"gone", "disabled", "starting", "active", "error"}
  /\ cancel \in Ops \cup {None} /\ {started, closed, wake} \subseteq BOOLEAN
  /\ open \subseteq Starts /\ waiters \subseteq Ops /\ reloading \subseteq Ops
  /\ catalog \in Starts \cup {None} /\ view \in {"gone", "disabled", "starting", "active", "error"}

\* Nothing is under way, and no operation came at one of the moments at which
\* the runtime cannot tell that another one is outdated.
Quiet == Busy = {} /\ ~closed
Plain == Quiet /\ started /\ ~history.entangled /\ ~history.forgotten

\* Once the operations have ended, calls go to an open client of the current
\* configuration, and the state that is shown says so
\* (runtime.go startGeneration, SetActive, ReloadServer).
ClientIsUsable == Plain =>
  /\ client # None => client \in open /\ cfg.enabled /\ op[client].ver = cfg.ver
  /\ state = "active" <=> client # None
  /\ state # "starting"

\* No child process is left behind: every client that was opened is closed,
\* in the table, or in the hands of an operation (runtime.go startGeneration).
NoClientLeft == open \subseteq Busy \cup {client} \cup {op[o].old : o \in Busy} \cup history.dropped

\* The model is shown the tools of the client that calls go to
\* (agent.go syncMCPToolCatalog, config.go reloadRuntimeConfig).
CatalogIsCurrent == Plain /\ ~history.unlisted => catalog = client

\* Every update reaches the clients: once all is quiet they know the state
\* (daemon.go onMCPChange, publishMCPUpdates).
ViewIsCurrent == Plain /\ cfg # Absent /\ ~wake /\ ~history.crossed => view = state

\* Both: the model and the clients are shown the server as it is.
ToolsAreCurrent == CatalogIsCurrent /\ ViewIsCurrent

=============================================================================
