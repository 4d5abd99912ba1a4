--------------------------- MODULE SessionManager ---------------------------
(***************************************************************************)
(* The daemon's session manager: the in-memory runtime of every session,   *)
(* which connection is attached to which runtime, and the operations that  *)
(* create, attach, detach, update, delete and lazily unload them.          *)
(*                                                                         *)
(* ServeConn handles the requests of one connection one after the other,   *)
(* so a connection is a sequential process.  Its requests leave            *)
(* sessionManager.mu around every store call and around the load of the    *)
(* working state, and each critical section is one action here.            *)
(*                                                                         *)
(* A *sessionRuntime pointer is a generation number: a value that names    *)
(* the runtime object, so that a request can find out that the object it   *)
(* worked on was replaced.                                                 *)
(***************************************************************************)
EXTENDS Integers, FiniteSets

CONSTANTS
  Conns,               \* connection identifiers
  Sessions,            \* session identifiers, uuids included
  Models,              \* model references
  DefaultModel,        \* config.ActiveModel
  NoConn, NoSession,   \* the empty identifiers ""
  Legacy,              \* the model_ref "" of a row written by an old version
  Absent,              \* no row in the session store
  Failures,            \* the calls that may fail
  MaxRequests          \* bound on the requests and run events of one behaviour

Calls == {"create", "get", "bind", "load", "update", "persist"}

ASSUME ConstantAssumption ==
  /\ IsFiniteSet(Conns) /\ Conns # {}
  /\ DefaultModel \in Models
  /\ NoConn \notin Conns
  /\ NoSession \notin Sessions
  /\ Legacy \notin Models /\ Absent \notin Models /\ Legacy # Absent
  /\ Failures \subseteq Calls
  /\ MaxRequests \in Nat

VARIABLES
  meta,           \* SessionStore: the model_ref of every persisted session
  unused,         \* uuids no client has seen: their session was never listed
  runtime,        \* sessionManager.runtime
  objects,        \* how many runtime objects each session has had
  attached,       \* sessionManager.attached
  creating,       \* sessionManager.creating
  deleting,       \* sessionManager.deleting
  deleteVersion,  \* sessionManager.deleteVersion
  unloadVersion,  \* sessionManager.runtimeUnloadVersion
  timers,         \* goroutines in unloadRuntimeAfter
  crossed,        \* history: creations undone while a client deleted them too
  req,            \* the request each connection is executing
  budget          \* requests and run events still to come

mgrVars == <<runtime, objects, attached, creating, deleting, deleteVersion,
             unloadVersion, timers, crossed>>
vars == <<meta, unused, mgrVars, req, budget>>

NoRuntime == [gen |-> 0, status |-> "idle", clients |-> {}, ops |-> 0,
              model |-> Legacy]
Ready == [pc |-> "ready", session |-> NoSession, version |-> 0, gen |-> 0,
          model |-> Legacy, load |-> FALSE, active |-> FALSE, create |-> FALSE]

Loaded(s) == runtime[s] # NoRuntime
BusyStatus == {"running", "waiting", "compacting"}

Init ==
  /\ unused \in SUBSET Sessions
  /\ meta \in [Sessions -> Models \cup {Legacy, Absent}]
  /\ \A s \in Sessions : meta[s] = Absent <=> s \in unused
  /\ runtime = [s \in Sessions |-> NoRuntime]
  /\ objects = [s \in Sessions |-> 0]
  /\ attached = [c \in Conns |-> NoSession]
  /\ creating = [s \in Sessions |-> NoConn]
  /\ deleting = {}
  /\ deleteVersion = [s \in Sessions |-> 0]
  /\ unloadVersion = [s \in Sessions |-> 0]
  /\ timers = {}
  /\ crossed = {}
  /\ req = [c \in Conns |-> Ready]
  /\ budget = MaxRequests

-----------------------------------------------------------------------------
(* Helpers that run inside a critical section.                             *)

\* May the runtime value rt of session s be released?
RuntimeCanUnload(s, rt) ==
  /\ rt # NoRuntime
  /\ creating[s] = NoConn
  /\ s \notin deleting
  /\ rt.clients = {}
  /\ rt.status = "idle"
  /\ rt.ops = 0

\* Start an unload timer for the runtime value rt, when nothing uses it.
ScheduleUnload(s, rt) ==
  IF RuntimeCanUnload(s, rt)
    THEN LET v == unloadVersion[s] + 1 IN
         /\ unloadVersion' = [unloadVersion EXCEPT ![s] = v]
         /\ timers' = timers \cup {[session |-> s, gen |-> rt.gen, version |-> v]}
    ELSE UNCHANGED <<unloadVersion, timers>>

InvalidateUnload(s) ==
  /\ unloadVersion' = [unloadVersion EXCEPT ![s] = @ + 1]
  /\ UNCHANGED timers

\* finishStateOp: looks the runtime up by session, not by the object in use.
FinishStateOp(s) ==
  IF runtime[s].ops > 0
    THEN LET rt == [runtime[s] EXCEPT !.ops = @ - 1] IN
         /\ runtime' = [runtime EXCEPT ![s] = rt]
         /\ ScheduleUnload(s, rt)
    ELSE UNCHANGED <<runtime, unloadVersion, timers>>

\* What the connection does next when the attach of its request has failed.
AttachFailed(r) ==
  IF r.create
    THEN [Ready EXCEPT !.pc = "abort", !.session = r.session, !.create = TRUE]
    ELSE Ready

\* The end of a request without an effect on the manager.
Reject(c) ==
  /\ req' = [req EXCEPT ![c] = AttachFailed(@)]
  /\ UNCHANGED <<meta, unused, mgrVars, budget>>

Goto(c, pc) == req' = [req EXCEPT ![c].pc = pc]

\* A ready connection sends a request: r is the request's record.
Send(c, r) ==
  /\ req[c].pc = "ready"
  /\ budget > 0
  /\ budget' = budget - 1
  /\ req' = [req EXCEPT ![c] = r]

-----------------------------------------------------------------------------
(* session.attach                                                          *)

\* The delete generation is read before the row.  Clients do not guess uuids.
Attach(c, s, active) ==
  /\ s \notin unused
  /\ Send(c, [Ready EXCEPT !.pc = "get", !.session = s, !.active = active,
                           !.version = deleteVersion[s]])
  /\ UNCHANGED <<meta, unused, mgrVars>>

\* The attach inside a create reads the generation of the fresh session.
AttachRead(c) ==
  LET s == req[c].session IN
  /\ req[c].pc = "read"
  /\ req' = [req EXCEPT ![c].pc = "get", ![c].version = deleteVersion[s]]
  /\ UNCHANGED <<meta, unused, mgrVars, budget>>

AttachGet(c) ==
  LET s == req[c].session IN
  /\ req[c].pc = "get"
  /\ \/ /\ meta[s] # Absent
        /\ req' = [req EXCEPT ![c].model = meta[s],
                     ![c].pc = IF meta[s] = Legacy THEN "legacy" ELSE "check"]
        /\ UNCHANGED <<meta, unused, mgrVars, budget>>
     \/ /\ "get" \in Failures \/ meta[s] = Absent
        /\ Reject(c)

\* materializeLegacyModelRef runs under its own mutex; the row's model_ref is
\* set only when it is still empty, and the final row is what attach uses.
Materialize(c) ==
  LET s == req[c].session
      final == IF meta[s] = Legacy THEN DefaultModel ELSE meta[s] IN
  /\ req[c].pc = "legacy"
  /\ \/ /\ meta[s] # Absent
        /\ meta' = [meta EXCEPT ![s] = final]
        /\ req' = [req EXCEPT ![c].pc = "check", ![c].model = final]
        /\ UNCHANGED <<unused, mgrVars, budget>>
     \/ /\ meta[s] = Absent \/ Failures \cap {"get", "bind"} # {}
        /\ Reject(c)

\* Mutant of DeletedSince: checks the mark but not the generation.
DeletedSinceNoVersion(c, s) == s \in deleting

CreatedByOther(c, s) == creating[s] \notin {NoConn, c}
DeletedSince(c, s) == s \in deleting \/ deleteVersion[s] # req[c].version
Inactive(c, s) ==
  req[c].active /\ runtime[s].clients = {} /\ runtime[s].status = "idle"

\* Keep the runtime rt alive while the request reads the working state.
HoldRuntime(c, s, rt) ==
  /\ runtime' = [runtime EXCEPT ![s] = [rt EXCEPT !.ops = @ + 1]]
  /\ InvalidateUnload(s)
  /\ req' = [req EXCEPT ![c].pc = "load", ![c].gen = rt.gen,
                        ![c].load = (rt.status = "idle")]
  /\ UNCHANGED <<meta, unused, attached, creating, deleting, deleteVersion, crossed, budget>>

AttachCheck(c) ==
  LET s == req[c].session IN
  /\ req[c].pc = "check"
  /\ IF CreatedByOther(c, s) \/ DeletedSince(c, s) \/ Inactive(c, s)
       THEN Reject(c)
       ELSE IF Loaded(s)
         THEN HoldRuntime(c, s, runtime[s]) /\ UNCHANGED objects
         ELSE Goto(c, "install") /\ UNCHANGED <<meta, unused, mgrVars, budget>>

\* The candidate was built outside the lock, from the row read before.
AttachInstall(c) ==
  LET s == req[c].session
      candidate == [NoRuntime EXCEPT !.gen = objects[s] + 1, !.model = req[c].model]
  IN
  /\ req[c].pc = "install"
  /\ IF DeletedSince(c, s)
       THEN Reject(c)
       ELSE IF Loaded(s)
         THEN HoldRuntime(c, s, runtime[s]) /\ UNCHANGED objects
         ELSE /\ HoldRuntime(c, s, candidate)
              /\ objects' = [objects EXCEPT ![s] = @ + 1]

\* LoadSessionState or SnapshotState, outside the manager's lock.
AttachLoad(c) ==
  LET s == req[c].session IN
  /\ req[c].pc = "load"
  /\ \/ /\ Goto(c, "commit")
        /\ UNCHANGED <<meta, unused, mgrVars, budget>>
     \/ /\ "load" \in Failures
        /\ FinishStateOp(s)
        /\ req' = [req EXCEPT ![c] = AttachFailed(@)]
        /\ UNCHANGED <<meta, unused, objects, attached, creating, deleting,
                       deleteVersion, crossed, budget>>

\* Mutant of Left: the runtime keeps counting the client.
LeftCounted(c) == runtime

\* The runtimes once connection c has left the session it is attached to.
Left(c) ==
  [s \in Sessions |-> IF s = attached[c]
     THEN [runtime[s] EXCEPT !.clients = @ \ {c}] ELSE runtime[s]]

\* Did c leave, in state rts, an idle runtime without clients behind?
Orphaned(c, rts) ==
  /\ attached[c] # NoSession
  /\ rts[attached[c]] # NoRuntime
  /\ rts[attached[c]].clients = {}
  /\ rts[attached[c]].status = "idle"

AttachCommit(c) ==
  LET s == req[c].session
      moves == attached[c] \notin {NoSession, s}
      rts == IF moves THEN Left(c) ELSE runtime
  IN
  /\ req[c].pc = "commit"
  /\ IF DeletedSince(c, s) \/ runtime[s].gen # req[c].gen
          \/ Inactive(c, s) \/ CreatedByOther(c, s)
       THEN /\ IF runtime[s].gen = req[c].gen
                 THEN FinishStateOp(s)
                 ELSE UNCHANGED <<runtime, unloadVersion, timers>>
            /\ req' = [req EXCEPT ![c] = AttachFailed(@)]
            /\ UNCHANGED <<attached, creating>>
       ELSE /\ runtime' = [rts EXCEPT ![s].clients = @ \cup {c},
                                      ![s].ops = IF @ > 0 THEN @ - 1 ELSE @]
            /\ attached' = [attached EXCEPT ![c] = s]
            /\ creating' = [creating EXCEPT ![s] = NoConn]
            /\ req' = [req EXCEPT ![c] =
                 IF moves /\ Orphaned(c, rts)
                   THEN [Ready EXCEPT !.pc = "settle", !.session = attached[c]]
                   ELSE Ready]
            /\ UNCHANGED <<unloadVersion, timers>>
  /\ UNCHANGED <<meta, unused, objects, deleting, deleteVersion, crossed, budget>>

-----------------------------------------------------------------------------
(* session.create                                                          *)

\* The creation latch is set before the row exists; the row lists the session.
Create(c, s) ==
  /\ s \in unused /\ creating[s] = NoConn
  /\ Send(c, [Ready EXCEPT !.pc = "create", !.session = s, !.create = TRUE])
  /\ creating' = [creating EXCEPT ![s] = c]
  /\ UNCHANGED <<meta, unused, runtime, objects, attached, deleting, deleteVersion, crossed,
                 unloadVersion, timers>>

CreateStore(c) ==
  LET s == req[c].session IN
  /\ req[c].pc = "create"
  /\ \/ /\ meta' = [meta EXCEPT ![s] = DefaultModel]
        /\ unused' = unused \ {s}
        /\ Goto(c, "read")
        /\ UNCHANGED creating
     \/ /\ "create" \in Failures
        /\ creating' = [creating EXCEPT ![s] = NoConn]
        /\ req' = [req EXCEPT ![c] = Ready]
        /\ UNCHANGED <<meta, unused>>
  /\ UNCHANGED <<runtime, objects, attached, deleting, deleteVersion, crossed,
                 unloadVersion, timers, budget>>

\* The first attach failed: the latch is exchanged for the delete mark.  No
\* client can attach meanwhile, but canDelete does not look at the latch: a
\* client that deletes the session already has set the same mark.  crossed only
\* records it.
CreateAbort(c) ==
  LET s == req[c].session IN
  /\ req[c].pc = "abort"
  /\ creating' = [creating EXCEPT ![s] = NoConn]
  /\ deleting' = deleting \cup {s}
  /\ crossed' = IF s \in deleting THEN crossed \cup {s} ELSE crossed
  /\ Goto(c, "undo")
  /\ UNCHANGED <<meta, unused, runtime, objects, attached, deleteVersion,
                 unloadVersion, timers, budget>>

CreateUndo(c) ==
  LET s == req[c].session IN
  /\ req[c].pc = "undo"
  /\ \/ /\ meta' = [meta EXCEPT ![s] = Absent]
        /\ Goto(c, "drop")
     \/ /\ "persist" \in Failures
        /\ Goto(c, "unmark")
        /\ UNCHANGED meta
  /\ UNCHANGED <<unused, mgrVars, budget>>

-----------------------------------------------------------------------------
(* session.delete                                                          *)

\* Mutant of Delete: no look at the attached clients.
DeleteUnderClients(c, s) ==
  /\ attached[c] # s
  /\ runtime[s].status = "idle" /\ runtime[s].ops = 0
  /\ s \notin deleting
  /\ s \notin unused
  /\ Send(c, [Ready EXCEPT !.pc = "deleteGet", !.session = s, !.gen = runtime[s].gen])
  /\ deleting' = deleting \cup {s}
  /\ runtime' = IF Loaded(s) THEN [runtime EXCEPT ![s].ops = @ + 1] ELSE runtime
  /\ UNCHANGED <<meta, unused, objects, attached, creating, deleteVersion, crossed,
                 unloadVersion, timers>>

\* A refused delete changes nothing and is not modelled as a step.
Delete(c, s) ==
  /\ attached[c] # s
  /\ runtime[s].status = "idle" /\ runtime[s].ops = 0 /\ runtime[s].clients = {}
  /\ s \notin deleting
  /\ s \notin unused
  /\ Send(c, [Ready EXCEPT !.pc = "deleteGet", !.session = s, !.gen = runtime[s].gen])
  /\ deleting' = deleting \cup {s}
  /\ runtime' = IF Loaded(s) THEN [runtime EXCEPT ![s].ops = @ + 1] ELSE runtime
  /\ UNCHANGED <<meta, unused, objects, attached, creating, deleteVersion, crossed,
                 unloadVersion, timers>>

\* Mutant of DeleteFailed: an early return that keeps the hold.
DeleteFailedHolding(c) ==
  /\ Goto(c, "unmark")
  /\ UNCHANGED <<meta, unused, mgrVars, budget>>

\* The delete gives its hold on the runtime back, when it had one.
DeleteFailed(c) ==
  /\ IF req[c].gen # 0
       THEN FinishStateOp(req[c].session)
       ELSE UNCHANGED <<runtime, unloadVersion, timers>>
  /\ Goto(c, "unmark")
  /\ UNCHANGED <<meta, unused, objects, attached, creating, deleting,
                 deleteVersion, crossed, budget>>

DeleteGet(c) ==
  /\ req[c].pc = "deleteGet"
  /\ \/ /\ meta[req[c].session] # Absent
        /\ Goto(c, "delete")
        /\ UNCHANGED <<meta, unused, mgrVars, budget>>
     \/ /\ "get" \in Failures \/ meta[req[c].session] = Absent
        /\ DeleteFailed(c)

DeletePersisted(c) ==
  /\ req[c].pc = "delete"
  /\ \/ /\ meta' = [meta EXCEPT ![req[c].session] = Absent]
        /\ Goto(c, "drop")
        /\ UNCHANGED <<unused, mgrVars, budget>>
     \/ /\ "persist" \in Failures
        /\ DeleteFailed(c)

\* The last section of a delete, and of the clean-up of a failed create: the
\* runtime and the version of its unload timers leave their maps.
DropRuntime(c) ==
  LET s == req[c].session IN
  /\ req[c].pc = "drop"
  /\ deleteVersion' = [deleteVersion EXCEPT ![s] = @ + 1]
  /\ runtime' = [runtime EXCEPT ![s] = NoRuntime]
  /\ unloadVersion' = [unloadVersion EXCEPT ![s] = 0]
  /\ Goto(c, "unmark")
  /\ UNCHANGED <<meta, unused, objects, attached, creating, deleting, timers,
                 crossed, budget>>

Unmark(c) ==
  /\ req[c].pc = "unmark"
  /\ deleting' = deleting \ {req[c].session}
  /\ req' = [req EXCEPT ![c] = Ready]
  /\ UNCHANGED <<meta, unused, runtime, objects, attached, creating,
                 deleteVersion, crossed, unloadVersion, timers, budget>>

-----------------------------------------------------------------------------
(* session.detach, session.update and the end of a connection              *)

Detach(c) ==
  /\ attached[c] # NoSession
  /\ Send(c, IF Orphaned(c, Left(c))
               THEN [Ready EXCEPT !.pc = "settle", !.session = attached[c]]
               ELSE Ready)
  /\ runtime' = Left(c)
  /\ attached' = [attached EXCEPT ![c] = NoSession]
  /\ UNCHANGED <<meta, unused, objects, creating, deleting, deleteVersion, crossed,
                 unloadVersion, timers>>

\* finishDetach runs after the critical section that took the client away.
Settle(c) ==
  /\ req[c].pc = "settle"
  /\ ScheduleUnload(req[c].session, runtime[req[c].session])
  /\ req' = [req EXCEPT ![c] = Ready]
  /\ UNCHANGED <<meta, unused, runtime, objects, attached, creating, deleting,
                 deleteVersion, crossed, budget>>

\* An update of the model; one of the title alone leaves the runtime alone.
Update(c, m) ==
  LET s == attached[c] IN
  /\ s # NoSession
  /\ Loaded(s) /\ runtime[s].status = "idle" /\ runtime[s].ops = 0
  /\ Send(c, [Ready EXCEPT !.pc = "update", !.session = s, !.model = m,
                           !.gen = runtime[s].gen])
  /\ runtime' = [runtime EXCEPT ![s].ops = @ + 1]
  /\ UNCHANGED <<meta, unused, objects, attached, creating, deleting,
                 deleteVersion, crossed, unloadVersion, timers>>

\* Every check precedes the commit of the row; the agent's model follows it.
UpdateRow(c) ==
  LET s == req[c].session IN
  /\ req[c].pc = "update"
  /\ \/ /\ meta[s] # Absent
        /\ meta' = [meta EXCEPT ![s] = req[c].model]
        /\ Goto(c, "setModel")
        /\ UNCHANGED <<runtime, unloadVersion, timers>>
     \/ /\ "update" \in Failures \/ meta[s] = Absent
        /\ FinishStateOp(s)
        /\ req' = [req EXCEPT ![c] = Ready]
        /\ UNCHANGED meta
  /\ UNCHANGED <<unused, objects, attached, creating, deleting, deleteVersion, crossed, budget>>

UpdateAgent(c) ==
  LET s == req[c].session
      rt == [runtime[s] EXCEPT !.model = req[c].model, !.ops = @ - 1] IN
  /\ req[c].pc = "setModel"
  /\ IF runtime[s].gen = req[c].gen /\ runtime[s].ops > 0
       THEN runtime' = [runtime EXCEPT ![s] = rt] /\ ScheduleUnload(s, rt)
       ELSE FinishStateOp(s)
  /\ req' = [req EXCEPT ![c] = Ready]
  /\ UNCHANGED <<meta, unused, objects, attached, creating, deleting,
                 deleteVersion, crossed, budget>>

-----------------------------------------------------------------------------
(* Runs, as far as the manager sees them, and unload timers                *)

BeginRun(c) ==
  LET s == attached[c] IN
  /\ s # NoSession
  /\ Loaded(s) /\ runtime[s].status = "idle" /\ runtime[s].ops = 0
  /\ Send(c, Ready)
  /\ runtime' = [runtime EXCEPT ![s].status = "running"]
  /\ InvalidateUnload(s)
  /\ UNCHANGED <<meta, unused, objects, attached, creating, deleting, deleteVersion, crossed>>

\* setStatus and setWaiting while a run is active.
RunStatus(s, status) ==
  /\ budget > 0
  /\ budget' = budget - 1
  /\ runtime[s].status \notin {"idle", status}
  /\ runtime' = [runtime EXCEPT ![s].status = status]
  /\ InvalidateUnload(s)
  /\ UNCHANGED <<meta, unused, objects, attached, creating, deleting,
                 deleteVersion, crossed, req>>

\* setStatus(idle) at the end of a run.
FinishRun(s) ==
  LET rt == [runtime[s] EXCEPT !.status = "idle"] IN
  /\ runtime[s].status # "idle"
  /\ runtime' = [runtime EXCEPT ![s] = rt]
  /\ ScheduleUnload(s, rt)
  /\ UNCHANGED <<meta, unused, objects, attached, creating, deleting,
                 deleteVersion, crossed, req, budget>>

UnloadFires(t) ==
  LET s == t.session IN
  /\ timers' = timers \ {t}
  /\ IF unloadVersion[s] = t.version /\ runtime[s].gen = t.gen
          /\ RuntimeCanUnload(s, runtime[s])
       THEN /\ runtime' = [runtime EXCEPT ![s] = NoRuntime]
            /\ unloadVersion' = [unloadVersion EXCEPT ![s] = 0]
       ELSE UNCHANGED <<runtime, unloadVersion>>
  /\ UNCHANGED <<meta, unused, objects, attached, creating, deleting,
                 deleteVersion, crossed, req, budget>>

-----------------------------------------------------------------------------
\* A client's request reaches an idle connection.
Request(c) ==
  \/ \E s \in Sessions, active \in BOOLEAN : Attach(c, s, active)
  \/ \E s \in Sessions : Create(c, s) \/ Delete(c, s)
  \/ \E m \in Models : Update(c, m)
  \/ Detach(c) \/ BeginRun(c)

\* The connection's goroutine goes on with the request it is executing.
Continue(c) ==
  \/ AttachRead(c) \/ AttachGet(c) \/ Materialize(c) \/ AttachCheck(c)
  \/ AttachInstall(c) \/ AttachLoad(c) \/ AttachCommit(c)
  \/ CreateStore(c) \/ CreateAbort(c) \/ CreateUndo(c)
  \/ DeleteGet(c) \/ DeletePersisted(c) \/ DropRuntime(c) \/ Unmark(c)
  \/ Settle(c) \/ UpdateRow(c) \/ UpdateAgent(c)

Next ==
  \/ \E c \in Conns : Request(c) \/ Continue(c)
  \/ \E s \in Sessions : FinishRun(s) \/ \E st \in BusyStatus : RunStatus(s, st)
  \/ \E t \in timers : UnloadFires(t)

Spec == Init /\ [][Next]_vars

\* Goroutines that are not blocked are scheduled and timers fire; clients need
\* not send anything and a run need not end.
FairSpec ==
  /\ Spec
  /\ \A c \in Conns : WF_vars(Continue(c))
  /\ WF_vars(\E t \in timers : UnloadFires(t))

-----------------------------------------------------------------------------
(* Properties                                                              *)

PCs == {"ready", "read", "get", "legacy", "check", "install", "load", "commit",
        "create", "abort", "undo", "drop", "unmark", "deleteGet", "delete",
        "settle", "update", "setModel"}
Rows == Models \cup {Legacy, Absent}
Statuses == BusyStatus \cup {"idle"}

Runtimes == [gen : Nat, status : Statuses, clients : SUBSET Conns, ops : Nat, model : Rows]
Requests == [pc : PCs, session : Sessions \cup {NoSession}, version : Nat, gen : Nat,
             model : Rows, load : BOOLEAN, active : BOOLEAN, create : BOOLEAN]
Timers == [session : Sessions, gen : Nat, version : Nat]

\* Every variable has its type.
TypeOK ==
  /\ meta \in [Sessions -> Rows]
  /\ unused \subseteq Sessions
  /\ runtime \in [Sessions -> Runtimes]
  /\ objects \in [Sessions -> Nat]
  /\ attached \in [Conns -> Sessions \cup {NoSession}]
  /\ creating \in [Sessions -> Conns \cup {NoConn}]
  /\ deleting \subseteq Sessions
  /\ deleteVersion \in [Sessions -> Nat]
  /\ unloadVersion \in [Sessions -> Nat]
  /\ timers \subseteq Timers
  /\ crossed \subseteq Sessions
  /\ req \in [Conns -> Requests]
  /\ budget \in Nat

\* No connection is left pointing at a runtime that was removed, which the
\* comment in attach promises.
NoDangling ==
  \A c \in Conns, s \in Sessions : attached[c] = s => c \in runtime[s].clients

\* The session is gone for good: two requests shared its delete mark, a client
\* attached once the first had cleared it, and the second erased the session.
Gone(s) == s \in crossed /\ meta[s] = Absent /\ ~Loaded(s)

\* A connection is attached to a session exactly when the session's current
\* runtime counts it as a client, whatever attaches, deletes and failures
\* overlap, deletes of a session that is being created included.  The one
\* exception: it may point at a session that two requests erased at once.
Membership ==
  \A c \in Conns, s \in Sessions :
    /\ c \in runtime[s].clients => attached[c] = s
    /\ attached[c] = s => c \in runtime[s].clients \/ Gone(s)

\* Does connection c hold the current runtime of s with a state operation?
Holds(c, s) ==
  /\ req[c].session = s
  /\ req[c].pc \in {"load", "commit", "update", "setModel", "deleteGet", "delete", "drop"}
  /\ req[c].gen # 0 /\ req[c].gen = runtime[s].gen

\* stateOps counts the requests that hold the runtime, so that none leaks (the
\* session would refuse every run) and none is given back twice.
HoldsCounted ==
  \A s \in Sessions : runtime[s].ops = Cardinality({c \in Conns : Holds(c, s)})

\* A request that reloads the working memory of the agent finds no run active,
\* and works on the current runtime unless two requests erased the session.
LoadIsExclusive ==
  \A c \in Conns : req[c].pc = "load" /\ req[c].load =>
    LET s == req[c].session IN
    /\ runtime[s].gen = req[c].gen \/ s \in crossed
    /\ runtime[s].status = "idle"

\* c is executing request steps pcs on session s.
At(c, s, pcs) == req[c].session = s /\ req[c].pc \in pcs

\* The row is gone, the runtime and the generation not yet.
Erased(s) == \E c \in Conns : At(c, s, {"drop"})

\* A stale row never brings a deleted session back: a session with a runtime
\* has a row, or the request that erased the row is about to drop the runtime.
NoRuntimeWithoutRow ==
  \A s \in Sessions : Loaded(s) => meta[s] # Absent \/ Erased(s)

\* No step, unload timer or delete removes or replaces a runtime that has a
\* client or an active run, except where two requests erase a session at once.
UsedRuntimeStays ==
  [][\A s \in Sessions :
       runtime[s].clients # {} \/ runtime[s].status # "idle"
         => runtime'[s].gen = runtime[s].gen \/ (s \in crossed /\ meta[s] = Absent)]_vars

\* A runtime nobody uses is unloaded or used again.
UnusedIsUnloaded ==
  \A s \in Sessions :
    RuntimeCanUnload(s, runtime[s]) ~> ~RuntimeCanUnload(s, runtime[s])

=============================================================================
