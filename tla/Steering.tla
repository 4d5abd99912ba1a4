------------------------------ MODULE Steering ------------------------------
(***************************************************************************)
(* The messages that the owner of a run sends while the run executes       *)
(* (internal/agent/steering.go, internal/daemon/steering.go) and the run   *)
(* that takes them at its boundaries (internal/runner/runner.go).          *)
(*                                                                         *)
(* A client's request reads the session under the manager's lock, then the *)
(* agent's mailbox pointer under steeringMu, then works on that mailbox    *)
(* under the mailbox's own lock: three steps, between which the run goes   *)
(* on, ends, and gives way to the next run of the session.                 *)
(***************************************************************************)
EXTENDS Naturals, FiniteSets, SequencesExt

CONSTANTS
  Conns,         \* connections attached to the session
  NoConn,        \* no connection
  MaxRuns,       \* bound: runs of the session, one after the other
  Msgs,          \* client_msg_ids
  NoMsg,         \* no message
  Sizes,         \* texts, each by its length in bytes; equal texts have equal size
  Slots,         \* tool calls of one batch
  MaxMessages,   \* MaxSteeringMessages
  MaxBytes,      \* MaxSteeringBytes
  MaxRequests,   \* bound: client requests
  MaxBatches     \* bound: tool batches of one run

Runs == 1 .. MaxRuns
NoRun == 0

ASSUME SteeringAssumption ==
  /\ MaxRuns \in Nat \ {0} /\ MaxMessages \in Nat /\ MaxBytes \in Nat
  /\ MaxRequests \in Nat /\ MaxBatches \in Nat
  /\ Sizes \subseteq Nat \ {0} /\ NoConn \notin Conns /\ NoMsg \notin Msgs
  /\ IsFiniteSet(Msgs) /\ IsFiniteSet(Slots)

VARIABLES
  session,   \* the runtime: run, runOwner, whether cancelling, whether waiting
  steering,  \* Agent.steering: the run whose mailbox the agent points at
  box,       \* box[r]: the mailbox made for run r
  runMu,     \* the run that holds Agent.runMu
  work,      \* work[r]: where the goroutine of run r is
  slot,      \* slot[r][i]: where tool call i of the run's batch is
  stopped,   \* runs whose context is cancelled
  batches,   \* batches[r]: tool batches of run r so far
  applied,   \* applied[r]: steering messages added to the working memory, in order
  seen,      \* seen[r]: how many of them the last model request contained
  events,    \* events[r]: what the event loop has not handled yet
  req,       \* req[c]: the request connection c is executing
  budget     \* client requests that may still come

agentVars == <<work, slot, batches, applied, seen, events>>
vars == <<session, steering, box, runMu, work, slot, stopped, batches, applied,
          seen, events, req, budget>>

-----------------------------------------------------------------------------
(* The mailbox: one operator per method, on the mailbox as a record.       *)

NewMailbox ==
  [sealed |-> FALSE, interactions |-> 0, items |-> <<>>,
   state |-> [m \in Msgs |-> "none"], size |-> [m \in Msgs |-> 0],
   number |-> [m \in Msgs |-> 0], bytes |-> 0, next |-> 0]

\* The keys of byClient: what the mailbox ever accepted.
Accepted(b) == {m \in Msgs : b.state[m] # "none"}

\* enqueue after its early returns.
Enqueued(b, m, s) ==
  [b EXCEPT !.next = @ + 1, !.items = Append(@, m), !.state[m] = "queued",
            !.size[m] = s, !.number[m] = b.next + 1, !.bytes = @ + s]

\* Mutant of Accepts: does not look at the open interactions.
AcceptsWhileAsking(b, s) ==
  ~b.sealed /\ Cardinality(Accepted(b)) < MaxMessages /\ b.bytes + s <= MaxBytes

\* enqueue's conditions for a message it does not know yet.
Accepts(b, s) ==
  /\ ~b.sealed /\ b.interactions = 0
  /\ Cardinality(Accepted(b)) < MaxMessages /\ b.bytes + s <= MaxBytes

\* Mutant of Removed: the message stays in the queue.
RemovedKept(b, i) == [b EXCEPT !.state[b.items[i]] = "removed"]

\* remove, of the message at place i of the queue.
Removed(b, i) ==
  [b EXCEPT !.items = RemoveAt(@, i), !.state[b.items[i]] = "removed"]

\* The state of every message, the queued ones becoming f.
Decided(b, f) == [m \in Msgs |-> IF m \in ToSet(b.items) THEN f ELSE b.state[m]]

\* take(seal): the queue becomes the caller's; an empty one may be sealed.
Taken(b, seal) ==
  IF b.items = <<>> THEN [b EXCEPT !.sealed = @ \/ seal]
    ELSE [b EXCEPT !.items = <<>>, !.state = Decided(b, "applied")]

\* Mutant of RejectedAll: forgets to seal.
RejectedOpen(b) == [b EXCEPT !.items = <<>>, !.state = Decided(b, "rejected")]

\* rejectPending.
RejectedAll(b) == [b EXCEPT !.items = <<>>, !.sealed = TRUE, !.state = Decided(b, "rejected")]

\* The mailbox that a call for run r finds, if any: the pointer's runID is
\* compared with the caller's.
Found(pointer, r) == pointer = r

-----------------------------------------------------------------------------
Ready == [pc |-> "ready", op |-> "steer", run |-> NoRun, msg |-> NoMsg,
          size |-> 0, pointer |-> NoRun]
Idle == [run |-> NoRun, owner |-> NoConn, cancelling |-> FALSE, waiting |-> FALSE]

Init ==
  /\ session = Idle
  /\ steering = NoRun
  /\ box = [r \in Runs |-> NewMailbox]
  /\ runMu = NoRun
  /\ work = [r \in Runs |-> "none"]
  /\ slot = [r \in Runs |-> [i \in Slots |-> "ended"]]
  /\ stopped = {}
  /\ batches = [r \in Runs |-> 0]
  /\ applied = [r \in Runs |-> <<>>]
  /\ seen = [r \in Runs |-> 0]
  /\ events = [r \in Runs |-> <<>>]
  /\ req = [c \in Conns |-> Ready]
  /\ budget = MaxRequests

WorkAt(r, pc) == work[r] = pc
Goto(r, pc) == work' = [work EXCEPT ![r] = pc]
Tell(r, type) == events' = [events EXCEPT ![r] = Append(@, type)]

Request(c) == req[c].pc = "ready" /\ budget > 0 /\ budget' = budget - 1
Return(c) == req' = [req EXCEPT ![c] = Ready] /\ UNCHANGED budget

-----------------------------------------------------------------------------
(* The session's side of a run.                                            *)

\* agent.sendMessage, agent.resumeRun: the run is reserved under the locks.
BeginRun(c) ==
  /\ Request(c)
  /\ session.run = NoRun
  /\ \E r \in Runs :
       /\ WorkAt(r, "none") /\ \A k \in Runs : k < r => ~WorkAt(k, "none")
       /\ session' = [Idle EXCEPT !.run = r, !.owner = c]
       /\ Goto(r, "reserved")
       /\ req' = [req EXCEPT ![c] = [Ready EXCEPT !.pc = "prepare", !.run = r]]
  /\ UNCHANGED <<steering, box, runMu, slot, stopped, batches, applied, seen, events>>

\* The publication of running, still under runNotifyMu, installs the mailbox.
PrepareSteering(c) ==
  /\ req[c].pc = "prepare"
  /\ steering' = req[c].run
  /\ box' = [box EXCEPT ![req[c].run] = NewMailbox]
  /\ req' = [req EXCEPT ![c].pc = "start"]
  /\ UNCHANGED <<session, runMu, stopped, agentVars, budget>>

\* Run, ResumeRun: refused while the goroutine of an earlier run has not
\* unlocked runMu; otherwise the goroutine starts, possibly to fail at once for
\* want of a model.  ensureSteeringMailbox finds the mailbox prepared above.
StartAgent(c) ==
  LET r == req[c].run IN
  /\ req[c].pc = "start"
  /\ IF runMu # NoRun
       THEN Goto(r, "refused") /\ UNCHANGED <<runMu, steering, box>>
       ELSE /\ runMu' = r
            /\ \E pc \in {"top", "failing"} : Goto(r, pc)
            /\ steering' = r
            /\ box' = IF Found(steering, r) THEN box ELSE [box EXCEPT ![r] = NewMailbox]
  /\ Return(c)
  /\ UNCHANGED <<session, stopped, slot, batches, applied, seen, events>>

\* agent.cancel: the session is marked under runNotifyMu, which a begin still
\* holds while it prepares the mailbox.
MarkCancelling(c) ==
  /\ Request(c)
  /\ session.run # NoRun /\ session.owner = c /\ ~session.cancelling
  /\ \A d \in Conns : req[d].pc # "prepare"
  /\ session' = [session EXCEPT !.cancelling = TRUE]
  /\ req' = [req EXCEPT ![c].pc = "cancel"]
  /\ UNCHANGED <<steering, box, runMu, stopped, agentVars>>

\* CancelCurrentRun: the context registered by then is cancelled.
CancelAgent(c) ==
  /\ req[c].pc = "cancel"
  /\ stopped' = stopped \cup {r \in Runs : runMu = r /\ work[r] \notin {"close", "unlock"}}
  /\ Return(c)
  /\ UNCHANGED <<session, steering, box, runMu, agentVars>>

\* The control goes over to c, by attach or by an answer, when the owner left.
HandOff(c) ==
  /\ Request(c)
  /\ session.run # NoRun /\ session.owner # c /\ req[session.owner].pc = "ready"
  /\ session' = [session EXCEPT !.owner = c]
  /\ UNCHANGED <<steering, box, runMu, stopped, agentVars, req>>

\* The event loop handles a question, or the status of a model request or of a
\* compaction, which ends the waiting.
Receive(r) ==
  /\ session.run = r /\ events[r] # <<>>
  /\ session' = [session EXCEPT !.waiting = (Head(events[r]) = "ask")]
  /\ events' = [events EXCEPT ![r] = Tail(@)]
  /\ UNCHANGED <<steering, box, runMu, work, slot, stopped, batches, applied, seen, req, budget>>

\* The events are closed: the session becomes idle.
SetIdle(r) ==
  /\ session.run = r /\ events[r] = <<>> /\ work[r] \in {"unlock", "ended", "refused"}
  /\ session' = Idle
  /\ UNCHANGED <<steering, box, runMu, stopped, agentVars, req, budget>>

-----------------------------------------------------------------------------
(* A client's requests, in the three steps between which no lock is held.  *)

\* steerableRun: only the owner of the present run, while it is not cancelling
\* and does not wait for an answer.
SteerableRun(c, op) ==
  /\ Request(c)
  /\ session.run # NoRun /\ session.owner = c
  /\ ~session.cancelling /\ ~session.waiting
  /\ \E m \in Msgs, s \in IF op = "steer" THEN Sizes ELSE {0} :
       req' = [req EXCEPT ![c] = [pc |-> "load", op |-> op, run |-> session.run,
                                   msg |-> m, size |-> s, pointer |-> NoRun]]
  /\ UNCHANGED <<session, steering, box, runMu, stopped, agentVars>>

\* EnqueueSteering and RemoveSteering read the pointer under steeringMu.
LoadMailbox(c) ==
  /\ req[c].pc = "load"
  /\ req' = [req EXCEPT ![c].pc = "act", ![c].pointer = steering]
  /\ UNCHANGED <<session, steering, box, runMu, stopped, agentVars, budget>>

\* Does the request find the mailbox it was meant for?  (enqueue and remove
\* compare the run that the client named with the mailbox's.)
Meant(c) == req[c].pointer # NoRun /\ Found(req[c].pointer, req[c].run)

EnqueueSteering(c) ==
  LET b == box[req[c].pointer]
      m == req[c].msg
      s == req[c].size
  IN
  /\ req[c].pc = "act" /\ req[c].op = "steer"
  /\ IF Meant(c) /\ b.state[m] = "none" /\ Accepts(b, s)
       THEN box' = [box EXCEPT ![req[c].pointer] = Enqueued(b, m, s)]
       ELSE UNCHANGED box
  /\ Return(c)
  /\ UNCHANGED <<session, steering, runMu, stopped, agentVars>>

RemoveSteering(c) ==
  LET b == box[req[c].pointer] IN
  /\ req[c].pc = "act" /\ req[c].op = "remove"
  /\ \/ /\ Meant(c) /\ b.interactions = 0
        /\ \E i \in 1 .. Len(b.items) :
             /\ b.items[i] = req[c].msg
             /\ box' = [box EXCEPT ![req[c].pointer] = Removed(b, i)]
     \/ /\ Meant(c) => b.interactions > 0 \/ req[c].msg \notin ToSet(b.items)
        /\ UNCHANGED box
  /\ Return(c)
  /\ UNCHANGED <<session, steering, runMu, stopped, agentVars>>

-----------------------------------------------------------------------------
(* The run's goroutine.                                                    *)

\* Mutant of Take: the newest message first.
TakeNewestFirst(r, seal) ==
  IF Found(steering, r)
    THEN /\ box' = [box EXCEPT ![r] = Taken(box[r], seal)]
         /\ applied' = [applied EXCEPT ![r] = @ \o Reverse(box[r].items)]
    ELSE UNCHANGED <<box, applied>>

\* takeSteering and applySteering: what the mailbox holds is appended to the
\* working memory, unless the agent points at another mailbox by now.
Take(r, seal) ==
  IF Found(steering, r)
    THEN /\ box' = [box EXCEPT ![r] = Taken(box[r], seal)]
         /\ applied' = [applied EXCEPT ![r] = @ \o box[r].items]
    ELSE UNCHANGED <<box, applied>>
Takes(r) == Found(steering, r) /\ box[r].items # <<>>

\* The top of the runner's loop: the context, then the mailbox.
TakeAtTop(r) ==
  /\ WorkAt(r, "top") /\ r \notin stopped
  /\ Take(r, FALSE)
  /\ Goto(r, "prepared")
  /\ UNCHANGED <<session, steering, runMu, slot, stopped, batches, seen, events, req, budget>>

Compact(r) ==
  /\ WorkAt(r, "prepared")
  /\ Tell(r, "busy")
  /\ Goto(r, "compact")
  /\ UNCHANGED <<session, steering, box, runMu, slot, stopped, batches, applied, seen, req, budget>>

\* After the compaction, or instead of it, the mailbox is looked at again; if
\* the messages make the request too large again, the loop starts over.
TakeBeforeRequest(r) ==
  /\ work[r] \in {"prepared", "compact"}
  /\ Take(r, FALSE)
  /\ \/ Goto(r, "call")
     \/ Takes(r) /\ Goto(r, "top")
  /\ UNCHANGED <<session, steering, runMu, slot, stopped, batches, seen, events, req, budget>>

CallModel(r) ==
  /\ WorkAt(r, "call")
  /\ seen' = [seen EXCEPT ![r] = Len(applied[r])]
  /\ Tell(r, "busy")
  /\ Goto(r, "llm")
  /\ UNCHANGED <<session, steering, box, runMu, slot, stopped, batches, applied, req, budget>>

ModelAnswers(r) ==
  /\ WorkAt(r, "llm")
  /\ Goto(r, "answered")
  /\ UNCHANGED <<session, steering, box, runMu, slot, stopped, batches, applied, seen, events,
                 req, budget>>

\* Mutant of TakeAtEnd: ends the run whatever it took.
TakeAtEndOnce(r) ==
  /\ WorkAt(r, "answered")
  /\ box' = [box EXCEPT ![r] = [Taken(@, TRUE) EXCEPT !.sealed = TRUE]]
  /\ applied' = [applied EXCEPT ![r] = @ \o box[r].items]
  /\ Goto(r, "done")
  /\ UNCHANGED <<session, steering, runMu, slot, stopped, batches, seen, events, req, budget>>

\* Mutant of TakeAtEnd: seals the mailbox without looking into it.
TakeAtEndSealing(r) ==
  /\ WorkAt(r, "answered")
  /\ box' = [box EXCEPT ![r].sealed = TRUE]
  /\ Goto(r, "done")
  /\ UNCHANGED <<session, steering, runMu, slot, stopped, batches, applied, seen, events,
                 req, budget>>

\* An answer without tool calls ends the run unless a message waits; the look
\* at the queue and the sealing are one critical section.
TakeAtEnd(r) ==
  /\ WorkAt(r, "answered")
  /\ Take(r, TRUE)
  /\ Goto(r, IF Takes(r) THEN "top" ELSE "done")
  /\ UNCHANGED <<session, steering, runMu, slot, stopped, batches, seen, events, req, budget>>

CallTools(r) ==
  /\ WorkAt(r, "llm") /\ batches[r] < MaxBatches
  /\ batches' = [batches EXCEPT ![r] = @ + 1]
  /\ slot' = [slot EXCEPT ![r] = [i \in Slots |-> "run"]]
  /\ Goto(r, "tools")
  /\ UNCHANGED <<session, steering, box, runMu, stopped, applied, seen, events, req, budget>>

\* A tool asks the user: the interaction is registered before the question is
\* sent (confirmGuard, ExecuteAskUserTool, AskChoice).
BeginInteraction(r, i) ==
  /\ WorkAt(r, "tools") /\ slot[r][i] = "run"
  /\ slot' = [slot EXCEPT ![r][i] = "begun"]
  /\ box' = IF Found(steering, r) THEN [box EXCEPT ![r].interactions = @ + 1] ELSE box
  /\ UNCHANGED <<session, steering, runMu, work, stopped, batches, applied, seen, events,
                 req, budget>>

Ask(r, i) ==
  /\ slot[r][i] = "begun"
  /\ slot' = [slot EXCEPT ![r][i] = "asking"]
  /\ Tell(r, "ask")
  /\ UNCHANGED <<session, steering, box, runMu, work, stopped, batches, applied, seen, req, budget>>

\* The answer came or the context is done: the deferred finish gives the
\* interaction back to the mailbox it was registered with, once.
FinishInteraction(r, i) ==
  /\ slot[r][i] = "asking"
  /\ slot' = [slot EXCEPT ![r][i] = "ended"]
  /\ box' = [box EXCEPT ![r].interactions = @ - 1]
  /\ UNCHANGED <<session, steering, runMu, work, stopped, batches, applied, seen, events,
                 req, budget>>

\* A tool that asks nothing.
ToolEnds(r, i) ==
  /\ slot[r][i] = "run"
  /\ slot' = [slot EXCEPT ![r][i] = "ended"]
  /\ UNCHANGED <<session, steering, box, runMu, work, stopped, batches, applied, seen, events,
                 req, budget>>

\* All results are written to the working memory; only then the mailbox is taken.
ToolsDone(r) ==
  /\ WorkAt(r, "tools") /\ \A i \in Slots : slot[r][i] = "ended"
  /\ Take(r, FALSE)
  /\ Goto(r, "top")
  /\ UNCHANGED <<session, steering, runMu, slot, stopped, batches, seen, events, req, budget>>

\* A model request or a compaction fails, of itself or because the run is
\* cancelled; the top of the loop looks at the context.
Fail(r) ==
  /\ work[r] \in {"llm", "compact"} \/ (WorkAt(r, "top") /\ r \in stopped)
  /\ Goto(r, "failing")
  /\ UNCHANGED <<session, steering, box, runMu, slot, stopped, batches, applied, seen, events,
                 req, budget>>

\* rejectSteeringBeforeFailure, before the failure is reported.
RejectPending(r) ==
  /\ WorkAt(r, "failing")
  /\ box' = IF Found(steering, r) THEN [box EXCEPT ![r] = RejectedAll(box[r])] ELSE box
  /\ Goto(r, "failed")
  /\ UNCHANGED <<session, steering, runMu, slot, stopped, batches, applied, seen, events, req,
                 budget>>

\* finishRun: unregister the cancel function and the mailbox, close the events,
\* unlock.
FinishRun(r) ==
  /\ work[r] \in {"done", "failed"} /\ runMu = r
  /\ steering' = IF Found(steering, r) THEN NoRun ELSE steering
  /\ Goto(r, "close")
  /\ UNCHANGED <<session, box, runMu, slot, stopped, batches, applied, seen, events, req, budget>>

CloseEvents(r) ==
  /\ WorkAt(r, "close")
  /\ Goto(r, "unlock")
  /\ UNCHANGED <<session, steering, box, runMu, slot, stopped, batches, applied, seen, events,
                 req, budget>>

UnlockRun(r) ==
  /\ WorkAt(r, "unlock")
  /\ runMu' = NoRun
  /\ Goto(r, "ended")
  /\ UNCHANGED <<session, steering, box, slot, stopped, batches, applied, seen, events, req, budget>>

-----------------------------------------------------------------------------
ClientStarts(c) ==
  \/ BeginRun(c) \/ MarkCancelling(c) \/ HandOff(c)
  \/ \E op \in {"steer", "remove"} : SteerableRun(c, op)
ClientContinues(c) ==
  \/ PrepareSteering(c) \/ StartAgent(c) \/ CancelAgent(c)
  \/ LoadMailbox(c) \/ EnqueueSteering(c) \/ RemoveSteering(c)

\* The run's own steps, the end of a request or of a tool included.
AgentProceeds(r) ==
  \/ TakeAtTop(r) \/ TakeBeforeRequest(r) \/ CallModel(r) \/ TakeAtEnd(r) \/ ToolsDone(r)
  \/ \E i \in Slots : Ask(r, i) \/ ToolEnds(r, i)
  \/ ModelAnswers(r) \/ Fail(r)
  \/ RejectPending(r) \/ FinishRun(r) \/ CloseEvents(r) \/ UnlockRun(r)
\* What the model and the user decide.
AgentChooses(r) ==
  \/ Compact(r) \/ CallTools(r)
  \/ \E i \in Slots : BeginInteraction(r, i) \/ FinishInteraction(r, i)
EventLoop(r) == Receive(r) \/ SetIdle(r)

Next ==
  \/ \E c \in Conns : ClientStarts(c) \/ ClientContinues(c)
  \/ \E r \in Runs : AgentProceeds(r) \/ AgentChooses(r) \/ EventLoop(r)

Spec == Init /\ [][Next]_vars

\* Goroutines are scheduled, and a model request or a tool comes back (each has
\* a timeout).  A user need not answer, and a client need not send anything.
FairSpec ==
  /\ Spec
  /\ \A c \in Conns : WF_vars(ClientContinues(c))
  /\ \A r \in Runs : WF_vars(AgentProceeds(r)) /\ WF_vars(EventLoop(r))

-----------------------------------------------------------------------------
(* Properties.                                                             *)

Ended == {"done", "failed", "close", "unlock", "ended"}
Working == {"top", "prepared", "compact", "call", "llm", "answered", "tools", "failing"}
Mailboxes ==
  [sealed : BOOLEAN, interactions : Nat, items : Seq(Msgs),
   state : [Msgs -> {"none", "queued", "applied", "removed", "rejected"}],
   size : [Msgs -> Nat], number : [Msgs -> Nat], bytes : Nat, next : Nat]

\* Every variable has its type; in particular no interaction is given back
\* twice, which would make the count negative.
TypeOK ==
  /\ session \in [run : Runs \cup {NoRun}, owner : Conns \cup {NoConn},
                  cancelling : BOOLEAN, waiting : BOOLEAN]
  /\ steering \in Runs \cup {NoRun}
  /\ box \in [Runs -> Mailboxes]
  /\ runMu \in Runs \cup {NoRun}
  /\ work \in [Runs -> {"none", "reserved", "refused"} \cup Working \cup Ended]
  /\ slot \in [Runs -> [Slots -> {"run", "begun", "asking", "ended"}]]
  /\ stopped \subseteq Runs
  /\ batches \in [Runs -> 0 .. MaxBatches]
  /\ applied \in [Runs -> Seq(Msgs)]
  /\ seen \in [Runs -> Nat]
  /\ events \in [Runs -> Seq({"ask", "busy"})]
  /\ req \in [Conns -> [pc : {"ready", "prepare", "start", "cancel", "load", "act"},
                        op : {"steer", "remove"}, run : Runs \cup {NoRun},
                        msg : Msgs \cup {NoMsg}, size : Sizes \cup {0},
                        pointer : Runs \cup {NoRun}]]
  /\ budget \in 0 .. MaxRequests

\* The queue holds exactly the messages that byClient and byID call queued, in
\* the order of their acceptance, and the limits hold for all that a run ever
\* accepted, removed messages included.
MailboxConsistent ==
  \A r \in Runs :
    LET b == box[r] IN
    /\ ToSet(b.items) = {m \in Msgs : b.state[m] = "queued"}
    /\ \A i, j \in 1 .. Len(b.items) : i < j => b.number[b.items[i]] < b.number[b.items[j]]
    /\ Cardinality(Accepted(b)) <= MaxMessages
    /\ b.bytes = MapThenSumSet(LAMBDA m : b.size[m], Accepted(b)) /\ b.bytes <= MaxBytes

\* When a run's goroutine has ended, each message it accepted has been applied,
\* removed or rejected, and none is accepted afterwards: not even by a request
\* that read the mailbox pointer before.
DecidedAtEnd ==
  \A r \in Runs : work[r] \in Ended => box[r].sealed /\ \A m \in Msgs : box[r].state[m] # "queued"

\* A run that ends with an answer has shown the model every message that was
\* accepted and not removed.
AnswerSawAll ==
  \A r \in Runs, m \in Msgs :
    WorkAt(r, "done") /\ box[r].state[m] \notin {"none", "removed"}
      => \E i \in 1 .. seen[r] : applied[r][i] = m

\* Both: however a run ends, what was sent to it is settled.
EndSettlesAll == DecidedAtEnd /\ AnswerSawAll

\* From the moment a question is sent until its answer came, the client neither
\* adds to the run's queue nor takes from it.
QuietWhileAsking ==
  [][\A r \in Runs : (\E i \in Slots : slot[r][i] = "asking")
                       => box'[r].items = box[r].items]_vars

\* A request only changes the mailbox of the run that the client named, also
\* when it was so slow that the agent points at the next run's mailbox.
RequestKeepsToItsRun ==
  [][\A c \in Conns, r \in Runs :
       req[c].pc = "act" /\ req'[c].pc = "ready" /\ req[c].run # r => box'[r] = box[r]]_vars

\* The mailboxes and the run's boundaries implement the promise of MessageFate.
Fate == INSTANCE MessageFate WITH
  fate <- [r \in Runs |-> box[r].state],
  number <- [r \in Runs |-> box[r].number],
  context <- applied,
  over <- {r \in Runs : box[r].sealed}
KeepsItsPromise == Fate!Spec

\* A queued message of a run that executes is decided, unless a user is asked.
QueuedIsDecided ==
  \A r \in Runs, m \in Msgs :
    (box[r].state[m] = "queued" /\ work[r] \in Working)
      ~> (box[r].state[m] # "queued" \/ \E i \in Slots : slot[r][i] = "asking")

=============================================================================
