---------------------------- MODULE RunLifecycle ----------------------------
(***************************************************************************)
(* One session's runs: sending, compacting, cancelling, answering the      *)
(* agent's questions, leaving and coming back, and the three goroutines    *)
(* that take part:                                                         *)
(*   - ServeConn of each connection, which handles its requests in turn;   *)
(*   - the agent's goroutine, which does the work of a run and writes to   *)
(*     the run's event channel;                                            *)
(*   - the service's event loop of the run, which reads that channel,      *)
(*     changes the runtime's status and notifies the clients.              *)
(*                                                                         *)
(* The session's runtime stays loaded here; SessionManager models its      *)
(* creation, removal and attachment in detail.  A critical section of      *)
(* sessionManager.mu is one action.  runNotifyMu, which is held while a    *)
(* lifecycle notification is sent, is the variable notify.                 *)
(***************************************************************************)
EXTENDS Integers, Sequences, FiniteSets

CONSTANTS
  Conns,        \* connection identifiers
  NoConn,       \* the empty identifier ""
  MaxRuns,      \* bound on the runs and manual compactions of a behaviour
  MaxAsks,      \* bound on the questions (AskUser, GuardConfirm)
  MaxRounds,    \* bound on model requests, retries and automatic compactions
  MaxRequests,  \* bound on the requests of the clients
  Buffer        \* capacity of the event channel

ASSUME RunAssumption ==
  /\ IsFiniteSet(Conns) /\ Conns # {}
  /\ NoConn \notin Conns
  /\ MaxRuns \in Nat /\ MaxAsks \in Nat /\ MaxRounds \in Nat
  /\ MaxRequests \in Nat
  /\ Buffer \in Nat \ {0}

Runs == 1 .. MaxRuns   \* run ids: uuids in the order of their creation
Asks == 1 .. MaxAsks   \* interaction ids
NoRun == 0
Terminal == {"done", "failed", "cancelled"}

VARIABLES
  clients,    \* sessionRuntime.clients: the attached connections
  rt,         \* sessionRuntime: status, runID, runOwner, runState
  notify,     \* does somebody hold sessionRuntime.runNotifyMu?
  req,        \* the request each connection is executing
  kind,       \* what each run is: a chat run or a manual compaction
  runMu,      \* agent.runMu: the run that holds it
  cancelFn,   \* agent.cancelFn: the run whose context it cancels
  stopped,    \* the runs whose context is cancelled
  work,       \* the agent's goroutine of each run
  events,     \* the event channel of each run
  loop,       \* the event loop of each run
  pending,    \* service.pendingAsks and pendingGuards
  replies,    \* who wrote to the reply channel of each question
  canReply,   \* the clients that were told can_reply=true for each question
  log,        \* the lifecycle notifications of each run, in order
  reason,     \* (history) runs somebody had a reason to cancel
  ownerAway,  \* (history) questions during which the run's starter was away
  starter,    \* (history) the connection that started each run
  budget      \* what is left of MaxRequests, MaxRounds and MaxAsks

sessionVars == <<clients, rt, notify, req>>
agentVars == <<kind, runMu, cancelFn, stopped, work, events>>
askVars == <<pending, replies, canReply>>
ghostVars == <<reason, ownerAway, starter>>
vars == <<sessionVars, agentVars, loop, askVars, log, ghostVars, budget>>

Idle == [status |-> "idle", runID |-> NoRun, runOwner |-> NoConn, runState |-> ""]
Ready == [pc |-> "ready", run |-> NoRun, ask |-> 0]

Init ==
  /\ clients \in SUBSET Conns
  /\ rt = Idle
  /\ notify = FALSE
  /\ req = [c \in Conns |-> Ready]
  /\ kind = [r \in Runs |-> "none"]
  /\ runMu = NoRun
  /\ cancelFn = NoRun
  /\ stopped = {}
  /\ work = [r \in Runs |-> [pc |-> "none", open |-> {}]]
  /\ events = [r \in Runs |-> <<>>]
  /\ loop = [r \in Runs |-> [pc |-> "none", ask |-> 0, state |-> "",
                             compactFailed |-> FALSE]]
  /\ pending = {}
  /\ replies = [a \in Asks |-> <<>>]
  /\ canReply = [a \in Asks |-> {}]
  /\ log = [r \in Runs |-> <<>>]
  /\ reason = {}
  /\ ownerAway = {}
  /\ starter = [r \in Runs |-> NoConn]
  /\ budget = [requests |-> MaxRequests, rounds |-> MaxRounds, asks |-> MaxAsks]

-----------------------------------------------------------------------------
(* Helpers.                                                                *)

NewRun == CHOOSE r \in Runs : kind[r] = "none" /\ \A q \in 1 .. r - 1 : kind[q] # "none"
NewAsk == MaxAsks - budget.asks + 1

\* Agent.CancelCurrentRun: cancels whatever is registered at this moment.
CancelCurrentRun ==
  /\ stopped' = IF cancelFn = NoRun THEN stopped ELSE stopped \cup {cancelFn}
  /\ cancelFn' = NoRun

\* Mutant of LockNotify: publishes without the notification lock.
LockNotifyDropped == UNCHANGED notify

\* Takes runNotifyMu; the action that publishes releases it.
LockNotify == ~notify /\ notify' = TRUE

\* Connection c takes up a request.
Request(c) ==
  /\ req[c].pc = "ready"
  /\ budget.requests > 0
  /\ budget' = [budget EXCEPT !.requests = @ - 1]

Goto(c, pc, r, a) == req' = [req EXCEPT ![c] = [pc |-> pc, run |-> r, ask |-> a]]
Done(c) == req' = [req EXCEPT ![c] = Ready]

\* beginRunNoLock: reserves the session for a run of connection c.
BeginRunNoLock(c, k) ==
  /\ c \in clients
  /\ rt.status = "idle"
  /\ \E r \in Runs : kind[r] = "none"
  /\ rt' = [status |-> "running", runID |-> NewRun, runOwner |-> c,
            runState |-> "running"]
  /\ kind' = [kind EXCEPT ![NewRun] = k]
  /\ starter' = [starter EXCEPT ![NewRun] = c]

\* Appends one notification of run r's lifecycle.
Publish(r, state) == log' = [log EXCEPT ![r] = Append(@, state)]

\* The agent of run r sends one event; it blocks while the channel is full.
Emit(r, type, a) ==
  /\ Len(events[r]) < Buffer
  /\ events' = [events EXCEPT ![r] = Append(@, [type |-> type, ask |-> a])]

WorkAt(r, pc) == work[r].pc = pc
WorkTo(r, pc) == work' = [work EXCEPT ![r].pc = pc]
LoopTo(r, pc) == loop' = [loop EXCEPT ![r].pc = pc]

-----------------------------------------------------------------------------
(* Attaching and leaving.                                                  *)

\* attach: a connection whose run owner is gone takes the control over.
Attach(c) ==
  /\ Request(c)
  /\ c \notin clients
  /\ clients' = clients \cup {c}
  /\ rt' = IF /\ rt.runOwner \notin clients \cup {c, NoConn}
              /\ rt.status # "idle"
              /\ rt.runState # "cancelling"
             THEN [rt EXCEPT !.runOwner = c] ELSE rt
  /\ UNCHANGED <<notify, req, agentVars, loop, askVars, log, ghostVars>>

\* Mutant of DetachPlan: the last client leaves a waiting run alone.
DetachPlanNoCancel(c) == IF clients = {c} THEN "ready" ELSE "handoff"

\* detachConnNoLock: what finishDetach has to do once the lock is released.
DetachPlan(c) ==
  IF clients = {c}
    THEN IF rt.status = "waiting" THEN "cancelWaiting" ELSE "ready"
    ELSE "handoff"

\* session.detach, an attach to another session, or the connection's end.
Detach(c) ==
  /\ Request(c)
  /\ c \in clients
  /\ clients' = clients \ {c}
  /\ IF DetachPlan(c) = "ready" THEN UNCHANGED req
                                ELSE Goto(c, DetachPlan(c), rt.runID, 0)
  /\ reason' = IF DetachPlan(c) = "cancelWaiting" THEN reason \cup {rt.runID} ELSE reason
  /\ ownerAway' = ownerAway \cup {p.ask : p \in {q \in pending : q.owner = c}}
  /\ UNCHANGED <<rt, notify, agentVars, loop, askVars, log, starter>>

\* finishDetach of the last client, outside the lock.
FinishDetachCancel(c) ==
  /\ req[c].pc = "cancelWaiting"
  /\ CancelCurrentRun
  /\ Done(c)
  /\ UNCHANGED <<clients, rt, notify, kind, runMu, work, events, loop, askVars,
                 log, ghostVars, budget>>

\* onClientDetached: offers the questions of the one who left to the others.
OnClientDetached(c) ==
  /\ req[c].pc = "handoff"
  /\ LET offered == {p.ask : p \in {q \in pending : q.owner = c}} IN
     canReply' = [a \in Asks |-> IF a \in offered THEN canReply[a] \cup clients
                                                  ELSE canReply[a]]
  /\ Done(c)
  /\ UNCHANGED <<clients, rt, notify, agentVars, loop, pending, replies, log,
                 ghostVars, budget>>

-----------------------------------------------------------------------------
(* agent.send and agent.resumeRun.                                         *)

\* beginRunWithNotification: the reservation, under runNotifyMu.
BeginRun(c) ==
  /\ Request(c)
  /\ LockNotify
  /\ BeginRunNoLock(c, "chat")
  /\ Goto(c, "publishRunning", NewRun, 0)
  /\ UNCHANGED <<clients, runMu, cancelFn, stopped, work, events, loop, askVars,
                 log, reason, ownerAway>>

\* The first notification of the run, still under runNotifyMu.
PublishRunning(c) ==
  /\ req[c].pc = "publishRunning"
  /\ Publish(req[c].run, "running")
  /\ notify' = FALSE
  /\ Goto(c, "startAgent", req[c].run, 0)
  /\ UNCHANGED <<clients, rt, agentVars, loop, askVars, ghostVars, budget>>

\* agent.Run takes runMu with TryLock; a run that does not get it is an event
\* channel with one error in it.  Then the run's event loop is started.
StartAgent(c) ==
  /\ req[c].pc = "startAgent"
  /\ LET r == req[c].run IN
     /\ IF runMu = NoRun
          THEN /\ runMu' = r
               /\ cancelFn' = r
               /\ WorkTo(r, "top")
               /\ UNCHANGED events
          ELSE /\ WorkTo(r, "done")
               /\ events' = [events EXCEPT ![r] =
                    <<[type |-> "failed", ask |-> 0], [type |-> "closed", ask |-> 0]>>]
               /\ UNCHANGED <<runMu, cancelFn>>
     /\ LoopTo(r, "receive")
  /\ Done(c)
  /\ UNCHANGED <<clients, rt, notify, kind, stopped, askVars, log, ghostVars, budget>>

-----------------------------------------------------------------------------
(* agent.cancel.                                                           *)

\* markCancelling: only the owner, only once, and not after the terminal state.
MarkCancelling(c) ==
  /\ Request(c)
  /\ LockNotify
  /\ c \in clients
  /\ rt.status # "idle" /\ rt.runID # NoRun
  /\ rt.runOwner = c
  /\ rt.runState \notin Terminal \cup {"cancelling"}
  /\ rt' = [rt EXCEPT !.runState = "cancelling"]
  /\ Goto(c, "publishCancelling", rt.runID, 0)
  /\ reason' = reason \cup {rt.runID}
  /\ UNCHANGED <<clients, agentVars, loop, askVars, log, ownerAway, starter>>

\* Mutant of PublishCancelling: returns without unlocking runNotifyMu.
PublishCancellingLocked(c) ==
  /\ req[c].pc = "publishCancelling"
  /\ Publish(req[c].run, "cancelling")
  /\ Goto(c, "cancelAgent", req[c].run, 0)
  /\ UNCHANGED <<clients, rt, notify, agentVars, loop, askVars, ghostVars, budget>>

PublishCancelling(c) ==
  /\ req[c].pc = "publishCancelling"
  /\ Publish(req[c].run, "cancelling")
  /\ notify' = FALSE
  /\ Goto(c, "cancelAgent", req[c].run, 0)
  /\ UNCHANGED <<clients, rt, agentVars, loop, askVars, ghostVars, budget>>

\* Mutant of CancelAgent: the cancellation never reaches the agent.
CancelAgentForgotten(c) ==
  /\ req[c].pc = "cancelAgent"
  /\ Done(c)
  /\ UNCHANGED <<clients, rt, notify, agentVars, loop, askVars, log, ghostVars, budget>>

\* The handler cancels after it released both locks.
CancelAgent(c) ==
  /\ req[c].pc = "cancelAgent"
  /\ CancelCurrentRun
  /\ Done(c)
  /\ UNCHANGED <<clients, rt, notify, kind, runMu, work, events, loop, askVars,
                 log, ghostVars, budget>>

-----------------------------------------------------------------------------
(* agent.compact.                                                          *)

\* beginRun reserves the session without a notification.
BeginCompact(c) ==
  /\ Request(c)
  /\ BeginRunNoLock(c, "compact")
  /\ Goto(c, "startCompact", NewRun, 0)
  /\ UNCHANGED <<clients, notify, runMu, cancelFn, stopped, work, events, loop,
                 askVars, log, reason, ownerAway>>

\* setStatus(compacting); the rest is the goroutine runCompact.
StartCompact(c) ==
  /\ req[c].pc = "startCompact"
  /\ rt' = [rt EXCEPT !.status = "compacting"]
  /\ WorkTo(req[c].run, "lock")
  /\ Done(c)
  /\ UNCHANGED <<clients, notify, kind, runMu, cancelFn, stopped, events, loop,
                 askVars, log, ghostVars, budget>>

\* Agent.Compact waits for runMu and registers its context.
CompactLock(r) ==
  /\ WorkAt(r, "lock")
  /\ runMu = NoRun
  /\ runMu' = r
  /\ cancelFn' = r
  /\ WorkTo(r, "compact")
  /\ UNCHANGED <<sessionVars, kind, stopped, events, loop, askVars, log,
                 ghostVars, budget>>

\* Agent.Compact returns.  A cancel that comes after the model's answer does
\* not make it fail: the commit runs in the context of the request.
CompactReturns(r, result) ==
  /\ WorkAt(r, "compact")
  /\ runMu' = NoRun
  /\ cancelFn' = NoRun
  /\ WorkTo(r, result)
  /\ UNCHANGED <<sessionVars, kind, stopped, events, loop, askVars, log,
                 ghostVars, budget>>

CompactEnds(r) == \E result \in {"compact_done", "compact_error"} : CompactReturns(r, result)

\* setStatusIfCurrentRun(idle), before the result is sent.
CompactIdle(r) ==
  /\ work[r].pc \in {"compact_done", "compact_error"}
  /\ rt' = IF rt.runID = r THEN Idle ELSE rt
  /\ WorkTo(r, IF WorkAt(r, "compact_done") THEN "report_done" ELSE "report_error")
  /\ UNCHANGED <<clients, notify, req, kind, runMu, cancelFn, stopped, events,
                 loop, askVars, log, ghostVars, budget>>

\* runCompact: an error is reported as one unless the request's own context,
\* which ends with the daemon, is cancelled.
CompactReport(r) ==
  /\ work[r].pc \in {"report_done", "report_error"}
  /\ Publish(r, IF WorkAt(r, "report_done") THEN "compact_done" ELSE "compact_error")
  /\ WorkTo(r, "done")
  /\ UNCHANGED <<sessionVars, kind, runMu, cancelFn, stopped, events, loop,
                 askVars, ghostVars, budget>>

-----------------------------------------------------------------------------
(* Answering a question.  Each store call and each lock is a step.         *)

\* claimInteractionReply: Load.
ReplyLoad(c, a) ==
  /\ Request(c)
  /\ \E p \in pending : p.ask = a
  /\ Goto(c, "replyCheck", (CHOOSE p \in pending : p.ask = a).run, a)
  /\ UNCHANGED <<clients, rt, notify, agentVars, loop, askVars, log, ghostVars>>

\* Mutant of ReplyAllowed: does not ask whether the owner is still there.
ReplyAllowedToAll(c, owner) == c = owner \/ c \in clients

\* ensureInteractionReplyAllowed: the owner, or an attached client once the
\* owner is gone.
ReplyAllowed(c, owner) == c = owner \/ (c \in clients /\ owner \notin clients)

\* The owner claims at once; another client takes over first.
ReplyCheck(c) ==
  /\ req[c].pc = "replyCheck"
  /\ LET owner == starter[req[c].run] IN
     IF ~ReplyAllowed(c, owner) THEN Done(c)
       ELSE Goto(c, IF c = owner THEN "replyClaim" ELSE "replyTakeOver",
                 req[c].run, req[c].ask)
  /\ UNCHANGED <<clients, rt, notify, agentVars, loop, askVars, log, ghostVars, budget>>

\* setRunOwner: of whatever run the session has at this moment.
ReplyTakeOver(c) ==
  /\ req[c].pc = "replyTakeOver"
  /\ rt' = IF c \in clients THEN [rt EXCEPT !.runOwner = c] ELSE rt
  /\ Goto(c, "replyClaim", req[c].run, req[c].ask)
  /\ UNCHANGED <<clients, notify, agentVars, loop, askVars, log, ghostVars, budget>>

\* Mutant of Claimed: a question that was loaded once is answered.
ClaimedAlways(a) == TRUE

\* LoadAndDelete finds the question.
Claimed(a) == \E p \in pending : p.ask = a

\* LoadAndDelete, and the answer into the reply channel.
ReplyClaim(c) ==
  /\ req[c].pc = "replyClaim"
  /\ LET a == req[c].ask IN
     /\ pending' = {p \in pending : p.ask # a}
     /\ replies' = IF Claimed(a) THEN
                     [replies EXCEPT ![a] = Append(@, [by |-> c, owner |-> starter[req[c].run]])]
                   ELSE replies
  /\ Done(c)
  /\ UNCHANGED <<clients, rt, notify, agentVars, loop, canReply, log, ghostVars, budget>>

-----------------------------------------------------------------------------
(* The agent's goroutine of a chat run.                                    *)

Round == budget.rounds > 0 /\ budget' = [budget EXCEPT !.rounds = @ - 1]
WorkUnchanged == UNCHANGED <<sessionVars, kind, runMu, cancelFn, stopped, loop,
                             askVars, log, ghostVars>>

\* The top of the runner's loop: the context is looked at, then the model is
\* called, after an automatic compaction when the request is too large.
CallModel(r) ==
  /\ \/ WorkAt(r, "top") /\ r \notin stopped /\ Round
     \/ WorkAt(r, "compacted") /\ UNCHANGED budget
  /\ Emit(r, "waitingLLM", 0)
  /\ WorkTo(r, "llm")
  /\ WorkUnchanged

AutoCompact(r) ==
  /\ WorkAt(r, "top")
  /\ r \notin stopped
  /\ Round
  /\ Emit(r, "compactRunning", 0)
  /\ WorkTo(r, "squeeze")
  /\ WorkUnchanged

AutoCompactDone(r) ==
  /\ WorkAt(r, "squeeze")
  /\ Emit(r, "compactDone", 0)
  /\ WorkTo(r, "compacted")
  /\ WorkUnchanged /\ UNCHANGED budget

\* The compaction fails, or the request is still too large after it.
AutoCompactError(r) ==
  /\ work[r].pc \in {"squeeze", "compacted"}
  /\ Emit(r, "compactError", 0)
  /\ WorkTo(r, "failing")
  /\ WorkUnchanged /\ UNCHANGED budget

\* completeWithRecovery announces a retry of the model request and waits.
Retry(r) ==
  /\ WorkAt(r, "llm")
  /\ Round
  /\ Emit(r, "retrying", 0)
  /\ WorkTo(r, "backoff")
  /\ WorkUnchanged

\* The delay is over and the request is sent again.
RetryNow(r) ==
  /\ WorkAt(r, "backoff")
  /\ Emit(r, "waitingLLM", 0)
  /\ WorkTo(r, "llm")
  /\ WorkUnchanged /\ UNCHANGED budget

\* The model asks for tools; each call of the batch gets its goroutine.
CallTools(r) ==
  /\ WorkAt(r, "llm")
  /\ WorkTo(r, "tools")
  /\ UNCHANGED events
  /\ WorkUnchanged /\ UNCHANGED budget

\* A tool asks the user, or the guard has a call confirmed.
Ask(r) ==
  /\ WorkAt(r, "tools")
  /\ budget.asks > 0
  /\ Emit(r, "ask", NewAsk)
  /\ work' = [work EXCEPT ![r].open = @ \cup {NewAsk}]
  /\ budget' = [budget EXCEPT !.asks = @ - 1]
  /\ WorkUnchanged

\* The tool goes on with the reply, or gives up when the context is done.
Answered(r, a) ==
  /\ a \in work[r].open
  /\ replies[a] # <<>> \/ r \in stopped
  /\ work' = [work EXCEPT ![r].open = @ \ {a}]
  /\ UNCHANGED events
  /\ WorkUnchanged /\ UNCHANGED budget

ToolsDone(r) ==
  /\ WorkAt(r, "tools")
  /\ work[r].open = {}
  /\ WorkTo(r, "top")
  /\ UNCHANGED events
  /\ WorkUnchanged /\ UNCHANGED budget

\* The model answers without tool calls.
Answer(r) ==
  /\ WorkAt(r, "llm")
  /\ Emit(r, "done", 0)
  /\ WorkTo(r, "finish")
  /\ WorkUnchanged /\ UNCHANGED budget

\* The runner returns an error: the context is done, the model failed, the
\* run cannot start (no model, nothing to resume) or a limit is reached.
Fail(r) ==
  /\ work[r].pc \in {"top", "llm", "failing"} \/ (WorkAt(r, "backoff") /\ r \in stopped)
  /\ Emit(r, IF r \in stopped THEN "cancelled" ELSE "failed", 0)
  /\ WorkTo(r, "finish")
  /\ WorkUnchanged /\ UNCHANGED budget

\* finishRun: forgets the cancel function and, last, closes the channel.
FinishRun(r) ==
  /\ WorkAt(r, "finish")
  /\ events' = [events EXCEPT ![r] = Append(@, [type |-> "closed", ask |-> 0])]
  /\ cancelFn' = NoRun
  /\ WorkTo(r, "unlock")
  /\ UNCHANGED <<sessionVars, kind, runMu, stopped, loop, askVars, log,
                 ghostVars, budget>>

\* finishRun unlocks runMu after it closed the channel.
UnlockRun(r) ==
  /\ WorkAt(r, "unlock")
  /\ runMu' = NoRun
  /\ WorkTo(r, "done")
  /\ UNCHANGED <<sessionVars, kind, cancelFn, stopped, events, loop, askVars,
                 log, ghostVars, budget>>

-----------------------------------------------------------------------------
(* The event loop of a chat run (runAgentEvents).                          *)

LoopAt(r, pc) == loop[r].pc = pc
Receives(r, types) == /\ LoopAt(r, "receive")
                      /\ events[r] # <<>>
                      /\ Head(events[r]).type \in types
Received(r) == events' = [events EXCEPT ![r] = Tail(@)]
LoopUnchanged == UNCHANGED <<clients, req, kind, runMu, cancelFn, stopped, work,
                             ghostVars, budget>>

\* The lifecycle state that an agent event asks for.
Requested(type) == IF type = "waitingLLM" THEN "running" ELSE type

\* Mutant of NextRunState: a retrying run has to be running before it ends.
NextRunStateStrict(state, next) ==
  CASE state = "cancelling" -> IF next \in Terminal THEN "cancelled" ELSE ""
    [] state \in Terminal -> ""
    [] state = "retrying" -> IF next \in Terminal THEN "" ELSE next
    [] OTHER -> next

\* transitionRunState's switch: the new run state, "" when it is refused.
NextRunState(state, next) ==
  CASE state = "cancelling" -> IF next \in Terminal THEN "cancelled" ELSE ""
    [] state \in Terminal -> ""
    [] OTHER -> next

\* transitionRunState: a lifecycle event of the agent, under runNotifyMu.  An
\* error after a failed automatic compaction is swallowed.
Transition(r) ==
  /\ Receives(r, {"waitingLLM", "retrying", "done", "failed", "cancelled"})
  /\ Received(r)
  /\ LET type == Head(events[r]).type
         next == NextRunState(rt.runState, Requested(type)) IN
     IF type \in {"failed", "cancelled"} /\ loop[r].compactFailed
       THEN UNCHANGED <<rt, notify, loop>>
       ELSE IF rt.runID = r /\ next # ""
              THEN /\ LockNotify
                   /\ rt' = [rt EXCEPT !.runState = next]
                   /\ loop' = [loop EXCEPT ![r].pc = "publish", ![r].state = next]
              ELSE /\ ~notify
                   /\ UNCHANGED <<rt, notify, loop>>
  /\ LoopUnchanged /\ UNCHANGED <<askVars, log>>

\* Mutant of AfterPublish: the loop ends with the terminal state.
AfterPublishEnds(state) == IF state \in Terminal THEN "finish" ELSE "receive"

\* The loop goes on until the channel is closed.
AfterPublish(state) == "receive"

\* The notification of transitionRunState; a running one resets the status.
PublishTransition(r) ==
  /\ LoopAt(r, "publish")
  /\ Publish(r, loop[r].state)
  /\ rt' = IF loop[r].state = "running" THEN [rt EXCEPT !.status = "running"] ELSE rt
  /\ notify' = FALSE
  /\ LoopTo(r, AfterPublish(loop[r].state))
  /\ LoopUnchanged /\ UNCHANGED <<events, askVars>>

\* The status events of an automatic compaction.
ReceiveCompaction(r) ==
  /\ Receives(r, {"compactRunning", "compactDone", "compactError"})
  /\ Received(r)
  /\ LET type == Head(events[r]).type IN
     /\ rt' = IF type = "compactRunning" THEN [rt EXCEPT !.status = "compacting"] ELSE rt
     /\ loop' = [loop EXCEPT ![r].compactFailed = @ \/ type = "compactError"]
  /\ LoopUnchanged /\ UNCHANGED <<notify, askVars, log>>

\* A question: setWaiting.
ReceiveAsk(r) ==
  /\ Receives(r, {"ask"})
  /\ Received(r)
  /\ rt' = [rt EXCEPT !.status = "waiting"]
  /\ loop' = [loop EXCEPT ![r].pc = "store", ![r].ask = Head(events[r]).ask]
  /\ LoopUnchanged /\ UNCHANGED <<notify, askVars, log>>

\* withAttachedClients: the question is stored only while somebody is attached.
StoreAsk(r) ==
  /\ LoopAt(r, "store")
  /\ pending' = IF clients = {} THEN pending
                  ELSE pending \cup {[ask |-> loop[r].ask, run |-> r, owner |-> starter[r]]}
  /\ ownerAway' = IF starter[r] \in clients THEN ownerAway
                                            ELSE ownerAway \cup {loop[r].ask}
  /\ LoopTo(r, "tell")
  /\ UNCHANGED <<sessionVars, agentVars, replies, canReply, log, reason, starter, budget>>

\* emitAskUser and emitGuardConfirm: only the run's starter may reply.
TellAsk(r) ==
  /\ LoopAt(r, "tell")
  /\ canReply' = [canReply EXCEPT ![loop[r].ask] = @ \cup ({starter[r]} \cap clients)]
  /\ LoopTo(r, "receive")
  /\ UNCHANGED <<sessionVars, agentVars, pending, replies, log, ghostVars, budget>>

\* The channel is closed: finishCancelling supplies a missing cancelled.
FinishCancelling(r) ==
  /\ \/ LoopAt(r, "finish") /\ UNCHANGED events
     \/ Receives(r, {"closed"}) /\ Received(r)
  /\ IF rt.runID = r /\ rt.runState = "cancelling"
       THEN /\ LockNotify
            /\ rt' = [rt EXCEPT !.runState = "cancelled"]
            /\ LoopTo(r, "publishEnd")
       ELSE /\ ~notify
            /\ LoopTo(r, "cleanup")
            /\ UNCHANGED <<rt, notify>>
  /\ LoopUnchanged /\ UNCHANGED <<askVars, log>>

PublishEnd(r) ==
  /\ LoopAt(r, "publishEnd")
  /\ Publish(r, "cancelled")
  /\ notify' = FALSE
  /\ LoopTo(r, "cleanup")
  /\ LoopUnchanged /\ UNCHANGED <<rt, events, askVars>>

\* Mutant of Leftover: the end of the run leaves its questions behind.
LeftoverKept == pending

\* cancelPendingInteractions deletes every question of the session.
Leftover == {}

CancelPendingInteractions(r) ==
  /\ LoopAt(r, "cleanup")
  /\ pending' = Leftover
  /\ LoopTo(r, "idle")
  /\ LoopUnchanged /\ UNCHANGED <<rt, notify, events, replies, canReply, log>>

\* setStatus(idle), the last step of the run.
SetIdle(r) ==
  /\ LoopAt(r, "idle")
  /\ rt' = Idle
  /\ LoopTo(r, "done")
  /\ LoopUnchanged /\ UNCHANGED <<notify, events, askVars, log>>

-----------------------------------------------------------------------------
Leaves(c) == FinishDetachCancel(c) \/ OnClientDetached(c)
Begins(c) == PublishRunning(c) \/ StartAgent(c) \/ StartCompact(c)
Cancels(c) == PublishCancelling(c) \/ CancelAgent(c)
Answers(c) == ReplyCheck(c) \/ ReplyTakeOver(c) \/ ReplyClaim(c)

\* A connection starts a request, or goes on with the one it is handling.
ClientStarts(c) ==
  \/ Attach(c) \/ Detach(c) \/ BeginRun(c) \/ BeginCompact(c) \/ MarkCancelling(c)
  \/ \E a \in Asks : ReplyLoad(c, a)
ClientContinues(c) == Leaves(c) \/ Begins(c) \/ Cancels(c) \/ Answers(c)

\* The agent's steps that wait for no model: those after the context is done,
\* or after the model, the tools or the user came back.
AgentContinues(r) ==
  \/ CompactLock(r) \/ CompactIdle(r) \/ CompactReport(r)
  \/ ToolsDone(r) \/ FinishRun(r) \/ UnlockRun(r)
  \/ \E a \in Asks : Answered(r, a)
  \/ WorkAt(r, "failing") /\ Fail(r)
  \/ WorkAt(r, "compacted") /\ CallModel(r)
  \/ RetryNow(r)
  \/ r \in stopped /\ (Fail(r) \/ AutoCompactError(r) \/ CompactEnds(r))
AgentProceeds(r) ==
  \/ CompactEnds(r)
  \/ CallModel(r) \/ AutoCompact(r) \/ AutoCompactDone(r) \/ AutoCompactError(r)
  \/ Retry(r) \/ CallTools(r) \/ Ask(r) \/ Answer(r) \/ Fail(r)
EventLoop(r) ==
  \/ Transition(r) \/ PublishTransition(r) \/ ReceiveCompaction(r)
  \/ ReceiveAsk(r) \/ StoreAsk(r) \/ TellAsk(r)
  \/ FinishCancelling(r) \/ PublishEnd(r) \/ CancelPendingInteractions(r) \/ SetIdle(r)

Next ==
  \/ \E c \in Conns : ClientStarts(c) \/ ClientContinues(c)
  \/ \E r \in Runs : AgentContinues(r) \/ AgentProceeds(r) \/ EventLoop(r)

Spec == Init /\ [][Next]_vars

\* Goroutines that can go on do.  Nothing is assumed of the clients' requests,
\* of the users' answers and of the model.
FairSpec ==
  /\ Spec
  /\ \A c \in Conns : WF_vars(ClientContinues(c))
  /\ \A r \in Runs : WF_vars(AgentContinues(r)) /\ WF_vars(EventLoop(r))

-----------------------------------------------------------------------------
(* Properties.                                                             *)

\* The clients of run r were told of a state.
Published(r, state) == \E i \in 1 .. Len(log[r]) : log[r][i] = state

\* What the clients are told of a chat run is one lifecycle: it starts with
\* running; once cancelling was sent nothing but one cancelled follows; and
\* nothing at all follows the terminal state.  Three goroutines publish:
\* the sending and the cancelling connection and the event loop.
LifecycleOrder ==
  \A r \in Runs : kind[r] = "chat" =>
    \A i \in 1 .. Len(log[r]) :
      /\ log[r][1] = "running"
      /\ log[r][i] \in Terminal => i = Len(log[r])
      /\ log[r][i] = "cancelling" =>
           \A j \in i + 1 .. Len(log[r]) : log[r][j] = "cancelled"

\* A run that is over has been told to be over, with done, failed or cancelled,
\* whatever cancel raced with its end.  (A failed automatic compaction is told
\* by its own notification instead.)
EndedRunIsTold ==
  \A r \in Runs : LoopAt(r, "done") /\ ~loop[r].compactFailed
                    => \E state \in Terminal : Published(r, state)

\* Both: the clients are told of every chat run from its beginning to one end.
RunIsTold == LifecycleOrder /\ EndedRunIsTold

\* While an agent goroutine may touch the session's working memory, the session
\* is busy with that very run: no other run can be reserved, and the runtime
\* cannot be unloaded or reloaded, until the run's state is saved.
WorkIsExclusive ==
  \A r \in Runs :
    work[r].pc \in {"top", "llm", "backoff", "tools", "squeeze", "compacted", "failing",
                    "finish", "lock", "compact"}
      => rt.runID = r /\ rt.status # "idle"

\* A question that can be answered belongs to the session's present run: none
\* outlives its run, so no answer reaches a run that is over.
PendingBelongsToRun == \A p \in pending : p.run = rt.runID /\ rt.status # "idle"

\* A question gets one answer, whatever clients race for it: a second write
\* would hit a closed channel.
OneAnswer == \A a \in Asks : Len(replies[a]) <= 1

\* Only the owner of a question answers it, or, once the owner was away while it
\* was open, a client that took over (docs/protocol.md, Handoff).
OwnerAnswers ==
  \A a \in Asks : \A i \in 1 .. Len(replies[a]) :
    replies[a][i].by = replies[a][i].owner \/ a \in ownerAway

\* What replies, leaving clients and the end of the run do to a question, step by
\* step and at the same time, keeps all three.
QuestionsAreKept == PendingBelongsToRun /\ OneAnswer /\ OwnerAnswers

\* A cancel that the daemon accepted ends a chat run, whatever the model and
\* the users do, and the session becomes idle.
CancelTakesEffect ==
  \A r \in Runs : (kind[r] = "chat" /\ rt.runID = r /\ rt.runState = "cancelling")
                    ~> (rt.runID # r)

\* When the last client leaves while a question is open, the run does not wait
\* for an answer that nobody can give.
OrphanedQuestionEnds ==
  \A a \in Asks : ((\E p \in pending : p.ask = a) /\ clients = {})
                    ~> ~(\E p \in pending : p.ask = a)

\* A run whose agent is done gives the session back.
SessionIsGivenBack ==
  \A r \in Runs : (rt.runID = r /\ work[r].pc \in {"finish", "unlock", "done"})
                    ~> (rt.runID # r)

-----------------------------------------------------------------------------
(* What the documentation says and the code does not do.                   *)

\* "正在执行的 run 不会被打断" (docs/tcp-client.md): when the last client leaves,
\* only a run that waits for an answer is cancelled.
LeavingKeepsExecutingRun ==
  [][\A c \in Conns :
       (req[c].pc = "ready" /\ req'[c].pc = "cancelWaiting" /\ rt.runID \notin reason)
         => \E a \in work[rt.runID].open : replies[a] = <<>>]_vars

\* "无人能回复，run 无法继续" (session_manager.go): a question that nobody can answer
\* does not keep the run waiting.
UnanswerableQuestionEnds ==
  \A r \in Runs :
    (/\ rt.runID = r /\ LoopAt(r, "receive") /\ events[r] = <<>>
     /\ \E a \in work[r].open : replies[a] = <<>> /\ \A p \in pending : p.ask # a)
      ~> (rt.runID # r)

\* "ask/guard owner 在线时只有 owner can_reply=true" and the hand-off to the clients
\* that are still there (docs/protocol.md): of a stored question, some attached
\* client knows that it may answer.
SomebodyMayReply ==
  \A p \in pending :
    (LoopAt(p.run, "receive") /\ clients # {} /\ \A c \in Conns : req[c].pc # "handoff")
      => canReply[p.ask] \cap clients # {}

\* "agent.cancel: 取消当前 run" (docs/protocol.md): no run is cancelled that its
\* owner did not cancel and that was not left waiting.
NoBystanderCancelled == stopped \subseteq reason

=============================================================================
