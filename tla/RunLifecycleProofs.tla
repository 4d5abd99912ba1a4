-------------------------- MODULE RunLifecycleProofs --------------------------
(***************************************************************************)
(* Proofs about RunLifecycle, for any connections, runs, questions and     *)
(* requests: an agent's work is exclusive, questions are kept, and the     *)
(* clients are told one lifecycle.                                         *)
(***************************************************************************)
EXTENDS RunLifecycle, NaturalsInduction, WellFoundedInduction, TLAPS

-----------------------------------------------------------------------------
(* Types.                                                                  *)

States == {"", "running", "retrying", "cancelling", "done", "failed", "cancelled"}
Session ==
  [status : {"idle", "running", "waiting", "compacting"}, runID : Runs \cup {NoRun},
   runOwner : Conns \cup {NoConn}, runState : States]

\* What a connection can be doing: beginning a run, publishing, replying, the rest.
Beginning == {"publishRunning", "startAgent", "startCompact"}
Replying == {"replyCheck", "replyTakeOver", "replyClaim"}
Elsewhere == {"ready", "cancelWaiting", "handoff", "publishCancelling", "cancelAgent"}
HandlingAt == Beginning \cup Replying \cup Elsewhere
Handling ==
  [pc : HandlingAt, run : Runs \cup {NoRun}, ask : Asks \cup {0}]

\* The stages of an agent that works on a chat run, on a compaction, and after.
Chatting == {"top", "llm", "backoff", "tools", "squeeze", "compacted", "failing", "finish"}
Compacting == {"lock", "compact", "compact_done", "compact_error"}
Worked == {"report_done", "report_error"}
AgentAt == {"none", "unlock", "done"} \cup Chatting \cup Compacting \cup Worked
Agent == [pc : AgentAt, open : SUBSET Asks]

EventTypes ==
  {"waitingLLM", "retrying", "compactRunning", "compactDone", "compactError", "ask", "closed"}
  \cup Terminal
Event == [type : EventTypes, ask : Asks \cup {0}]

\* The event loop's stages; those after the channel was closed.
Ending == {"cleanup", "idle", "done"}
LoopAts == {"none", "receive", "publish", "publishEnd", "store", "tell"} \cup Ending
Loop ==
  [pc : LoopAts, ask : Asks \cup {0}, state : States, compactFailed : BOOLEAN]

Question == [ask : Asks, run : Runs, owner : Conns \cup {NoConn}]
Reply == [by : Conns, owner : Conns \cup {NoConn}]
Told == States \cup {"compact_done", "compact_error"}

Types ==
  /\ clients \subseteq Conns /\ rt \in Session /\ notify \in BOOLEAN
  /\ req \in [Conns -> Handling] /\ kind \in [Runs -> {"none", "chat", "compact"}]
  /\ work \in [Runs -> Agent] /\ events \in [Runs -> Seq(Event)] /\ loop \in [Runs -> Loop]
  /\ pending \subseteq Question /\ replies \in [Asks -> Seq(Reply)] /\ log \in [Runs -> Seq(Told)]
  /\ ownerAway \subseteq Asks /\ starter \in [Runs -> Conns \cup {NoConn}]
  /\ budget \in [requests : Nat, rounds : Nat, asks : 0 .. MaxAsks]

-----------------------------------------------------------------------------
(* The work is exclusive.                                                  *)

\* A run begins once, by one connection, and nothing of it exists before.
Fresh ==
  /\ \A r \in Runs : kind[r] = "none" =>
       /\ work[r].pc = "none" /\ loop[r].pc = "none" /\ events[r] = <<>> /\ log[r] = <<>>
  /\ \A c \in Conns : req[c].pc \in Beginning =>
       /\ req[c].run \in Runs /\ work[req[c].run].pc = "none" /\ loop[req[c].run].pc = "none"
       /\ events[req[c].run] = <<>>
       /\ kind[req[c].run] = IF req[c].pc = "startCompact" THEN "compact" ELSE "chat"
  /\ \A c, d \in Conns : req[c].pc \in Beginning /\ req[d].pc \in Beginning /\ req[c].run = req[d].run => c = d

\* A compaction has no event loop; an agent at work on a chat run has one.
KindAt(r) ==
  /\ kind[r] = "compact" => loop[r].pc = "none"
  /\ work[r].pc \in Compacting \cup Worked => kind[r] = "compact"
  /\ work[r].pc \in Chatting => kind[r] = "chat" /\ loop[r].pc # "none"
Kinds == \A r \in Runs : KindAt(r)

\* The event loop ends after the agent closed the channel.
ClosedAt(r) ==
  /\ (\E i \in 1 .. Len(events[r]) : events[r][i].type = "closed") => work[r].pc \in {"unlock", "done"}
  /\ loop[r].pc \in Ending \cup {"publishEnd"} => work[r].pc \in {"unlock", "done"}
Closed == \A r \in Runs : ClosedAt(r)

\* The session is busy with a run from its reservation to its end.
ReservedAt(r) ==
  loop[r].pc \notin {"none", "done"} \/ work[r].pc \in Compacting => rt.runID = r /\ rt.status # "idle"
Reserved ==
  /\ \A c \in Conns : req[c].pc \in Beginning => rt.runID = req[c].run /\ rt.status # "idle"
  /\ rt.runID \in Runs => kind[rt.runID] # "none"
  /\ \A r \in Runs : ReservedAt(r)

\* A question is open only while its run's loop goes on.
Open == \A p \in pending : loop[p.run].pc \notin {"none", "idle", "done"}

WorkInv == Types /\ Fresh /\ Kinds /\ Closed /\ Reserved /\ Open

-----------------------------------------------------------------------------
(* Questions are kept.                                                     *)

Issued(a) == a <= MaxAsks - budget.asks
Sent(a) == \E r \in Runs : \E i \in 1 .. Len(events[r]) : events[r][i].type = "ask" /\ events[r][i].ask = a
Storing(a) == \E r \in Runs : loop[r].pc = "store" /\ loop[r].ask = a
IsOpen(a) == \E p \in pending : p.ask = a

\* A question is on its way in one place.
Once ==
  /\ \A r, q \in Runs : \A i \in 1 .. Len(events[r]), j \in 1 .. Len(events[q]) :
       events[r][i].type = "ask" /\ events[q][j].type = "ask" /\ events[r][i].ask = events[q][j].ask
         => r = q /\ i = j
  /\ \A r \in Runs : \A i \in 1 .. Len(events[r]) : events[r][i].type = "ask" => events[r][i].ask \in Asks
  /\ \A r \in Runs : loop[r].pc = "store" => loop[r].ask \in Asks
  /\ \A r, q \in Runs : loop[r].pc = "store" /\ loop[q].pc = "store" /\ loop[r].ask = loop[q].ask => r = q

\* It is asked, then stored, then answered.
Stages ==
  \A a \in Asks :
    /\ Sent(a) => Issued(a) /\ ~Storing(a) /\ ~IsOpen(a) /\ replies[a] = <<>>
    /\ Storing(a) => Issued(a) /\ ~IsOpen(a) /\ replies[a] = <<>>
    /\ IsOpen(a) => Issued(a) /\ replies[a] = <<>>
    /\ replies[a] # <<>> => Issued(a)
    /\ Len(replies[a]) <= 1

\* Whoever replies has found the question; who is not its owner saw it without its owner.
Replies ==
  /\ \A p, q \in pending : p.ask = q.ask => p = q
  /\ \A p \in pending : p.owner = starter[p.run] /\ (p.owner \notin clients => p.ask \in ownerAway)
  /\ \A c \in Conns : req[c].pc \in Replying =>
       /\ req[c].ask \in Asks /\ req[c].run \in Runs /\ kind[req[c].run] # "none"
       /\ Issued(req[c].ask) /\ ~Sent(req[c].ask) /\ ~Storing(req[c].ask)
       /\ \A p \in pending : p.ask = req[c].ask => p.run = req[c].run
  /\ \A c \in Conns : req[c].pc \in {"replyTakeOver", "replyClaim"} =>
       c = starter[req[c].run] \/ req[c].ask \in ownerAway \/ ~IsOpen(req[c].ask)

AskInv == Once /\ Stages /\ Replies /\ OwnerAnswers

-----------------------------------------------------------------------------
(* One lifecycle is told.                                                  *)

\* One goroutine publishes.
Publisher(c) == req[c].pc \in {"publishRunning", "publishCancelling"}
Publishes(r) == loop[r].pc \in {"publish", "publishEnd"}
OnePublishes ==
  /\ \A c \in Conns : Publisher(c) => notify
  /\ \A r \in Runs : Publishes(r) => notify
  /\ \A c, d \in Conns : Publisher(c) /\ Publisher(d) => c = d
  /\ \A r, q \in Runs : Publishes(r) /\ Publishes(q) => r = q
  /\ \A c \in Conns, r \in Runs : ~(Publisher(c) /\ Publishes(r))

NoEnd(l) == \A i \in 1 .. Len(l) : l[i] \notin Terminal
NoCancel(l) == \A i \in 1 .. Len(l) : l[i] # "cancelling"
HasEnd(l) == \E i \in 1 .. Len(l) : l[i] \in Terminal

\* The run's state is what was told or is about to be.
StateAt(r) ==
  kind[r] = "chat" /\ rt.runID = r =>
    /\ rt.runState \notin Terminal => NoEnd(log[r])
    /\ rt.runState \notin Terminal \cup {"cancelling"} => NoCancel(log[r])
    /\ rt.runState \in Terminal /\ ~Publishes(r) => HasEnd(log[r])
StateIsTold == \A r \in Runs : StateAt(r)

\* What each publisher is about to tell fits what was told.
FirstIsRunning ==
  /\ \A c \in Conns : req[c].pc = "publishRunning" => log[req[c].run] = <<>>
  /\ \A r \in Runs : kind[r] = "chat" /\ log[r] = <<>> =>
       \E c \in Conns : req[c].pc = "publishRunning" /\ req[c].run = r

CancelFits ==
  \A c \in Conns : req[c].pc = "publishCancelling" =>
    /\ req[c].run \in Runs
    /\ rt.runID = req[c].run => rt.runState = "cancelling"
    /\ kind[req[c].run] # "none"
    /\ kind[req[c].run] = "chat" => NoEnd(log[req[c].run]) /\ NoCancel(log[req[c].run])

LoopFitsAt(r) ==
  /\ loop[r].pc = "publish" =>
       /\ loop[r].state = rt.runState /\ NoEnd(log[r])
       /\ loop[r].state # "cancelled" => NoCancel(log[r])
       /\ loop[r].state \in {"running", "retrying"} \cup Terminal
  /\ loop[r].pc = "publishEnd" => rt.runState = "cancelled" /\ NoEnd(log[r])
LoopFits == \A r \in Runs : LoopFitsAt(r)

\* An agent that is done with a chat run has sent how it ended, before it closed the channel.
EndSent(r) == \E i \in 1 .. Len(events[r]) : events[r][i].type \in Terminal
EndAt(r) ==
  /\ \A i \in 1 .. Len(events[r]) : events[r][i].type = "closed" => i = Len(events[r])
  /\ kind[r] = "chat" /\ work[r].pc \in {"finish", "unlock", "done"} =>
       \/ EndSent(r) \/ loop[r].compactFailed \/ HasEnd(log[r])
       \/ loop[r].pc = "publish" /\ loop[r].state \in Terminal
       \/ loop[r].pc = "publishEnd"
  /\ loop[r].pc \in Ending => loop[r].compactFailed \/ HasEnd(log[r])
Ends == \A r \in Runs : EndAt(r)

\* LifecycleOrder, of one run.
Ordered(l) ==
  \A i \in 1 .. Len(l) :
    /\ l[1] = "running"
    /\ l[i] \in Terminal => i = Len(l)
    /\ l[i] = "cancelling" => \A j \in i + 1 .. Len(l) : l[j] = "cancelled"
Order == \A r \in Runs : kind[r] = "chat" => Ordered(log[r])

ToldInv ==
  OnePublishes /\ StateIsTold /\ FirstIsRunning /\ CancelFits /\ LoopFits /\ Ends /\ Order

IInv == WorkInv /\ AskInv /\ ToldInv

-----------------------------------------------------------------------------
(* What the operators return.                                              *)

\* A sequence with one element more.
LEMMA AppendFacts ==
  ASSUME NEW S, NEW s \in Seq(S), NEW e \in S
  PROVE  /\ Append(s, e) \in Seq(S) /\ Len(Append(s, e)) = Len(s) + 1 /\ Append(s, e) # <<>>
         /\ \A i \in 1 .. Len(s) : Append(s, e)[i] = s[i]
         /\ Append(s, e)[Len(s) + 1] = e /\ Len(s) \in Nat
OBVIOUS

\* A sequence without its first element.
LEMMA TailFacts ==
  ASSUME NEW S, NEW s \in Seq(S), s # <<>>
  PROVE  /\ Tail(s) \in Seq(S) /\ Len(Tail(s)) = Len(s) - 1 /\ Head(s) = s[1] /\ Head(s) \in S
         /\ \A i \in 1 .. Len(Tail(s)) : Tail(s)[i] = s[i + 1]
         /\ Len(s) \in Nat \ {0}
OBVIOUS

\* One connection goes to a stage of its request; the others stay where they are.
LEMMA GotoFacts ==
  ASSUME Types, NEW c \in Conns, NEW pc \in HandlingAt, NEW r \in Runs \cup {NoRun},
         NEW a \in Asks \cup {0}, Goto(c, pc, r, a)
  PROVE  /\ req' \in [Conns -> Handling]
         /\ req'[c].pc = pc /\ req'[c].run = r /\ req'[c].ask = a
         /\ \A d \in Conns \ {c} : req'[d] = req[d]
<1>1. [pc |-> pc, run |-> r, ask |-> a] \in Handling
  BY DEF Handling
<1>2. req \in [Conns -> Handling]
  BY DEF Types
<1>. QED BY <1>1, <1>2 DEF Goto

\* One connection is done with its request.
LEMMA DoneFacts ==
  ASSUME Types, NEW c \in Conns, Done(c)
  PROVE  /\ req' \in [Conns -> Handling]
         /\ req'[c].pc = "ready" /\ \A d \in Conns \ {c} : req'[d] = req[d]
<1>1. Ready \in Handling /\ Ready.pc = "ready"
  BY DEF Handling, Ready, HandlingAt, Elsewhere
<1>2. req \in [Conns -> Handling]
  BY DEF Types
<1>. QED BY <1>1, <1>2 DEF Done

\* One agent's goroutine goes to another stage.
LEMMA WorkToFacts ==
  ASSUME Types, NEW r \in Runs, NEW pc \in AgentAt, WorkTo(r, pc)
  PROVE  /\ work' \in [Runs -> Agent]
         /\ work'[r].pc = pc /\ \A q \in Runs \ {r} : work'[q] = work[q]
<1>1. work \in [Runs -> Agent] /\ work[r] \in Agent
  BY DEF Types
<1>2. [work[r] EXCEPT !.pc = pc] \in Agent /\ [work[r] EXCEPT !.pc = pc].pc = pc
  BY <1>1 DEF Agent
<1>3. work' = [work EXCEPT ![r] = [work[r] EXCEPT !.pc = pc]]
  BY <1>1 DEF WorkTo
<1>. QED BY <1>1, <1>2, <1>3

\* One event loop goes to another stage and keeps the rest of its state.
LEMMA LoopToFacts ==
  ASSUME Types, NEW r \in Runs, NEW pc \in LoopAts, LoopTo(r, pc)
  PROVE  /\ loop' \in [Runs -> Loop]
         /\ loop'[r].pc = pc /\ loop'[r].ask = loop[r].ask /\ loop'[r].state = loop[r].state
         /\ loop'[r].compactFailed = loop[r].compactFailed
         /\ \A q \in Runs \ {r} : loop'[q] = loop[q]
<1>1. loop \in [Runs -> Loop] /\ loop[r] \in Loop
  BY DEF Types
<1>2. [loop[r] EXCEPT !.pc = pc] \in Loop
  BY <1>1 DEF Loop
<1>3. /\ [loop[r] EXCEPT !.pc = pc].pc = pc /\ [loop[r] EXCEPT !.pc = pc].ask = loop[r].ask
      /\ [loop[r] EXCEPT !.pc = pc].state = loop[r].state
      /\ [loop[r] EXCEPT !.pc = pc].compactFailed = loop[r].compactFailed
  BY <1>1 DEF Loop
<1>4. loop' = [loop EXCEPT ![r] = [loop[r] EXCEPT !.pc = pc]]
  BY <1>1 DEF LoopTo
<1>. QED BY <1>1, <1>2, <1>3, <1>4

\* A notification more in the log of one run.
LEMMA PublishFacts ==
  ASSUME Types, NEW r \in Runs, NEW v \in Told, Publish(r, v)
  PROVE  /\ log' \in [Runs -> Seq(Told)] /\ \A q \in Runs \ {r} : log'[q] = log[q]
         /\ log'[r] # <<>> /\ Len(log'[r]) = Len(log[r]) + 1 /\ Len(log[r]) \in Nat
         /\ \A i \in 1 .. Len(log[r]) : log'[r][i] = log[r][i]
         /\ log'[r][Len(log[r]) + 1] = v
<1>1. log \in [Runs -> Seq(Told)] /\ log[r] \in Seq(Told)
  BY DEF Types
<1>2. log' = [log EXCEPT ![r] = Append(log[r], v)]
  BY DEF Publish
<1>3. log'[r] = Append(log[r], v) /\ \A q \in Runs \ {r} : log'[q] = log[q]
  BY <1>1, <1>2
<1>4. Append(log[r], v) \in Seq(Told)
  BY <1>1, AppendFacts
<1>5. log' \in [Runs -> Seq(Told)]
  BY <1>1, <1>2, <1>4
<1>. QED BY <1>1, <1>3, <1>5, AppendFacts

\* An event more in the channel of one run.
LEMMA SendFacts ==
  ASSUME Types, NEW r \in Runs, NEW e \in Event, events' = [events EXCEPT ![r] = Append(@, e)]
  PROVE  /\ events' \in [Runs -> Seq(Event)] /\ \A q \in Runs \ {r} : events'[q] = events[q]
         /\ Len(events'[r]) = Len(events[r]) + 1 /\ Len(events[r]) \in Nat
         /\ \A i \in 1 .. Len(events[r]) : events'[r][i] = events[r][i]
         /\ events'[r][Len(events[r]) + 1] = e
<1>1. events \in [Runs -> Seq(Event)] /\ events[r] \in Seq(Event)
  BY DEF Types
<1>3. events'[r] = Append(events[r], e) /\ \A q \in Runs \ {r} : events'[q] = events[q]
  BY <1>1
<1>4. Append(events[r], e) \in Seq(Event)
  BY <1>1, AppendFacts
<1>5. events' \in [Runs -> Seq(Event)]
  BY <1>1, <1>4
<1>. QED BY <1>1, <1>3, <1>5, AppendFacts

\* The first event of one run is taken from its channel.
LEMMA ReceiveFacts ==
  ASSUME Types, NEW r \in Runs, events[r] # <<>>, Received(r)
  PROVE  /\ events' \in [Runs -> Seq(Event)] /\ \A q \in Runs \ {r} : events'[q] = events[q]
         /\ Len(events'[r]) = Len(events[r]) - 1 /\ Len(events[r]) \in Nat \ {0}
         /\ \A i \in 1 .. Len(events'[r]) : events'[r][i] = events[r][i + 1]
         /\ Head(events[r]) = events[r][1] /\ Head(events[r]) \in Event
<1>1. events \in [Runs -> Seq(Event)] /\ events[r] \in Seq(Event)
  BY DEF Types
<1>2. events'[r] = Tail(events[r]) /\ \A q \in Runs \ {r} : events'[q] = events[q]
  BY <1>1 DEF Received
<1>3. Tail(events[r]) \in Seq(Event)
  BY <1>1, TailFacts
<1>4. events' \in [Runs -> Seq(Event)]
  BY <1>1, <1>3 DEF Received
<1>. QED BY <1>1, <1>2, <1>4, TailFacts

-----------------------------------------------------------------------------
(* Steps of a connection that begin and publish nothing.                   *)

\* A step of a connection that begins nothing keeps what is known of the work.
LEMMA ClientWork ==
  ASSUME WorkInv, Types', \A d \in Conns : req'[d] = req[d] \/ req'[d].pc \notin Beginning,
         rt'.runID = rt.runID, rt'.status = rt.status, UNCHANGED <<kind, work, events, loop>>,
         \A r \in Runs : kind[r] = "none" => log'[r] = log[r], pending' \subseteq pending
  PROVE  WorkInv'
<1>0. Types /\ Fresh /\ Kinds /\ Closed /\ Reserved /\ Open
  BY DEF WorkInv
<1>1. Fresh'
  <2>1. \A r \in Runs : kind'[r] = "none" =>
          /\ work'[r].pc = "none" /\ loop'[r].pc = "none" /\ events'[r] = <<>> /\ log'[r] = <<>>
    BY <1>0 DEF Fresh
  <2>2. \A c \in Conns : req'[c].pc \in Beginning =>
       /\ req'[c].run \in Runs /\ work'[req'[c].run].pc = "none" /\ loop'[req'[c].run].pc = "none"
       /\ events'[req'[c].run] = <<>>
       /\ kind'[req'[c].run] = IF req'[c].pc = "startCompact" THEN "compact" ELSE "chat"
    <3>. TAKE c \in Conns
    <3>1. req'[c].pc \in Beginning => req'[c] = req[c]
      OBVIOUS
    <3>. QED BY <1>0, <3>1 DEF Fresh
  <2>3. \A c, d \in Conns : req'[c].pc \in Beginning /\ req'[d].pc \in Beginning /\ req'[c].run = req'[d].run => c = d
    BY <1>0 DEF Fresh
  <2>. QED BY <2>1, <2>2, <2>3 DEF Fresh
<1>2. Kinds' /\ Closed'
  BY <1>0 DEF Kinds, KindAt, Closed, ClosedAt
<1>3. Reserved'
  BY <1>0 DEF Reserved, ReservedAt
<1>4. Open'
  BY <1>0 DEF Open
<1>. QED BY <1>1, <1>2, <1>3, <1>4 DEF WorkInv

\* A step of a connection that publishes nothing keeps what is known of the lifecycle.
LEMMA ClientTold ==
  ASSUME ToldInv, \A d \in Conns : req'[d] = req[d] \/ (~Publisher(d)' /\ req[d].pc # "publishRunning"),
         rt'.runID = rt.runID, rt'.runState = rt.runState,
         UNCHANGED <<kind, work, events, loop, log, notify>>
  PROVE  ToldInv'
<1>0. OnePublishes /\ StateIsTold /\ FirstIsRunning /\ CancelFits /\ LoopFits /\ Ends /\ Order
  BY DEF ToldInv
<1>1. \A d \in Conns : Publisher(d)' => req'[d] = req[d] /\ Publisher(d)
  BY DEF Publisher
<1>2. \A r \in Runs : Publishes(r)' <=> Publishes(r)
  BY DEF Publishes
<1>3. OnePublishes'
  BY <1>0, <1>1, <1>2 DEF OnePublishes
<1>4. StateIsTold'
  BY <1>0, <1>2 DEF StateIsTold, StateAt
<1>5. FirstIsRunning'
  <2>1. \A c \in Conns : req'[c].pc = "publishRunning" => log'[req'[c].run] = <<>>
    BY <1>0, <1>1 DEF FirstIsRunning, Publisher
  <2>2. \A c \in Conns : req[c].pc = "publishRunning" => req'[c] = req[c]
    OBVIOUS
  <2>. QED BY <1>0, <2>1, <2>2 DEF FirstIsRunning
<1>6. CancelFits'
  BY <1>0, <1>1 DEF CancelFits, Publisher
<1>7. LoopFits'
  BY <1>0 DEF LoopFits, LoopFitsAt
<1>8. Ends' /\ Order'
  BY <1>0 DEF Ends, EndAt, EndSent, Order
<1>. QED BY <1>3, <1>4, <1>5, <1>6, <1>7, <1>8 DEF ToldInv

\* What keeps the questions: nothing new is on its way, nothing is answered.
LEMMA AskFrame ==
  ASSUME WorkInv, AskInv, Once',
         \A a \in Asks : Sent(a)' => Sent(a), \A a \in Asks : Storing(a)' => Storing(a),
         pending' \subseteq pending, UNCHANGED <<replies, ownerAway>>, clients \subseteq clients', budget'.asks = budget.asks,
         \A r \in Runs : kind[r] # "none" => kind'[r] = kind[r] /\ starter'[r] = starter[r],
         \A d \in Conns : req'[d] = req[d] \/ req'[d].pc \notin Replying
  PROVE  AskInv'
<1>0. Types /\ Fresh /\ Open /\ Once /\ Stages /\ Replies /\ OwnerAnswers
  BY DEF WorkInv, AskInv
<1>1. \A a : (Issued(a)' <=> Issued(a)) /\ (IsOpen(a)' => IsOpen(a))
  BY DEF Issued, IsOpen
<1>2. Stages'
  BY <1>0, <1>1 DEF Stages
<1>3. \A p \in pending : p.run \in Runs /\ starter'[p.run] = starter[p.run]
  BY <1>0 DEF Open, Fresh, Types, Question
<1>4. Replies'
  <2>0. \A p, q \in pending' : p.ask = q.ask => p = q
    BY <1>0 DEF Replies
  <2>1. \A p \in pending' : p.owner = starter'[p.run] /\ (p.owner \notin clients' => p.ask \in ownerAway')
    BY <1>0, <1>3 DEF Replies
  <2>2. ASSUME NEW c \in Conns, req'[c].pc \in Replying
        PROVE  /\ req'[c].ask \in Asks /\ req'[c].run \in Runs /\ kind'[req'[c].run] # "none"
               /\ Issued(req[c].ask)' /\ ~Sent(req[c].ask)' /\ ~Storing(req[c].ask)'
               /\ \A p \in pending' : p.ask = req'[c].ask => p.run = req'[c].run
    <3>1. req'[c] = req[c]
      BY <2>2
    <3>2. /\ req[c].ask \in Asks /\ req[c].run \in Runs /\ kind[req[c].run] # "none"
          /\ Issued(req[c].ask) /\ ~Sent(req[c].ask) /\ ~Storing(req[c].ask)
          /\ \A p \in pending : p.ask = req[c].ask => p.run = req[c].run
      BY <1>0, <2>2, <3>1 DEF Replies
    <3>. QED BY <1>1, <3>1, <3>2
  <2>3. ASSUME NEW c \in Conns, req'[c].pc \in {"replyTakeOver", "replyClaim"}
        PROVE  c = starter'[req'[c].run] \/ req'[c].ask \in ownerAway' \/ ~IsOpen(req[c].ask)'
    <3>1. req'[c] = req[c]
      BY <2>3 DEF Replying
    <3>2. req[c].run \in Runs /\ kind[req[c].run] # "none"
      BY <1>0, <2>3, <3>1 DEF Replies, Replying
    <3>3. starter'[req[c].run] = starter[req[c].run]
      BY <3>2
    <3>4. c = starter[req[c].run] \/ req[c].ask \in ownerAway \/ ~IsOpen(req[c].ask)
      BY <1>0, <2>3, <3>1 DEF Replies
    <3>. QED BY <1>1, <3>1, <3>3, <3>4
  <2>. QED BY <2>0, <2>1, <2>2, <2>3 DEF Replies
<1>5. OwnerAnswers'
  BY <1>0 DEF OwnerAnswers
<1>. QED BY <1>2, <1>4, <1>5 DEF AskInv

\* The channels stay as they are; nothing more is being stored.
LEMMA OnceSame ==
  ASSUME Once, UNCHANGED events,
         \A r \in Runs : loop'[r].pc = "store" => loop[r].pc = "store" /\ loop'[r].ask = loop[r].ask
  PROVE  Once' /\ (\A a \in Asks : Sent(a)' => Sent(a)) /\ (\A a \in Asks : Storing(a)' => Storing(a))
<1>1. Once'
  BY DEF Once
<1>2. \A a \in Asks : Sent(a)' => Sent(a)
  BY DEF Sent
<1>3. \A a \in Asks : Storing(a)' => Storing(a)
  BY DEF Storing
<1>. QED BY <1>1, <1>2, <1>3

\* One channel has one event more, which is no question.
LEMMA OnceSend ==
  ASSUME Once, NEW r \in Runs, NEW e \in Event, e.type # "ask", Types,
         events' = [events EXCEPT ![r] = Append(@, e)],
         \A q \in Runs : loop'[q].pc = "store" => loop[q].pc = "store" /\ loop'[q].ask = loop[q].ask
  PROVE  Once' /\ (\A a \in Asks : Sent(a)' => Sent(a)) /\ (\A a \in Asks : Storing(a)' => Storing(a))
<1>1. /\ events' \in [Runs -> Seq(Event)] /\ \A q \in Runs \ {r} : events'[q] = events[q]
      /\ Len(events'[r]) = Len(events[r]) + 1 /\ Len(events[r]) \in Nat
      /\ \A i \in 1 .. Len(events[r]) : events'[r][i] = events[r][i]
      /\ events'[r][Len(events[r]) + 1] = e
  BY SendFacts
<1>2. \A q \in Runs : \A i \in 1 .. Len(events'[q]) :
        events'[q][i].type = "ask" => i \in 1 .. Len(events[q]) /\ events'[q][i] = events[q][i]
  <2>. TAKE q \in Runs
  <2>1. CASE q = r
    <3>. TAKE i \in 1 .. Len(events'[q])
    <3>1. i \in 1 .. Len(events[r]) \/ i = Len(events[r]) + 1
      BY <1>1, <2>1
    <3>. QED BY <1>1, <2>1, <3>1
  <2>2. CASE q # r
    BY <1>1, <2>2
  <2>. QED BY <2>1, <2>2
<1>3. Once'
  BY <1>2 DEF Once
<1>4. \A a \in Asks : Sent(a)' => Sent(a)
  BY <1>2 DEF Sent
<1>5. \A a \in Asks : Storing(a)' => Storing(a)
  BY DEF Storing
<1>. QED BY <1>3, <1>4, <1>5

\* The first event of one channel is taken.
LEMMA OnceReceive ==
  ASSUME Once, Types, NEW r \in Runs, events[r] # <<>>, Received(r),
         \A q \in Runs : loop'[q].pc = "store" => loop[q].pc = "store" /\ loop'[q].ask = loop[q].ask
  PROVE  Once' /\ (\A a \in Asks : Sent(a)' => Sent(a)) /\ (\A a \in Asks : Storing(a)' => Storing(a))
<1>1. /\ \A q \in Runs \ {r} : events'[q] = events[q]
      /\ Len(events'[r]) = Len(events[r]) - 1 /\ Len(events[r]) \in Nat \ {0}
      /\ \A i \in 1 .. Len(events'[r]) : events'[r][i] = events[r][i + 1]
  BY ReceiveFacts
<1>. DEFINE At(q, i) == IF q = r THEN i + 1 ELSE i
<1>2. \A q \in Runs : \A i \in 1 .. Len(events'[q]) :
        At(q, i) \in 1 .. Len(events[q]) /\ events'[q][i] = events[q][At(q, i)]
  BY <1>1
<1>3. \A q \in Runs : \A i, j \in Int : At(q, i) = At(q, j) => i = j
  OBVIOUS
<1>. HIDE DEF At
<1>4. Once'
  <2>1. \A p, q \in Runs : \A i \in 1 .. Len(events'[p]), j \in 1 .. Len(events'[q]) :
       events'[p][i].type = "ask" /\ events'[q][j].type = "ask" /\ events'[p][i].ask = events'[q][j].ask
         => p = q /\ i = j
    <3>. SUFFICES ASSUME NEW p \in Runs, NEW q \in Runs,
                        NEW i \in 1 .. Len(events'[p]), NEW j \in 1 .. Len(events'[q]),
                        events'[p][i].type = "ask", events'[q][j].type = "ask",
                        events'[p][i].ask = events'[q][j].ask
                 PROVE  p = q /\ i = j
      OBVIOUS
    <3>1. /\ At(p, i) \in 1 .. Len(events[p]) /\ events'[p][i] = events[p][At(p, i)]
          /\ At(q, j) \in 1 .. Len(events[q]) /\ events'[q][j] = events[q][At(q, j)]
      BY <1>2
    <3>2. p = q /\ At(p, i) = At(q, j)
      BY <3>1 DEF Once
    <3>3. i \in Int /\ j \in Int
      OBVIOUS
    <3>. QED BY <1>3, <3>2, <3>3
  <2>2. \A p \in Runs : \A i \in 1 .. Len(events'[p]) : events'[p][i].type = "ask" => events'[p][i].ask \in Asks
    BY <1>2 DEF Once
  <2>. QED BY <2>1, <2>2 DEF Once
<1>5. \A a \in Asks : Sent(a)' => Sent(a)
  BY <1>2 DEF Sent
<1>6. \A a \in Asks : Storing(a)' => Storing(a)
  BY DEF Storing
<1>. QED BY <1>4, <1>5, <1>6

\* The session with one field changed.
LEMMA SessionFacts ==
  ASSUME NEW t \in Session
  PROVE  /\ \A o \in Conns \cup {NoConn} :
              /\ [t EXCEPT !.runOwner = o] \in Session
              /\ [t EXCEPT !.runOwner = o].runID = t.runID /\ [t EXCEPT !.runOwner = o].status = t.status
              /\ [t EXCEPT !.runOwner = o].runState = t.runState
         /\ \A v \in {"idle", "running", "waiting", "compacting"} :
              /\ [t EXCEPT !.status = v] \in Session /\ [t EXCEPT !.status = v].status = v
              /\ [t EXCEPT !.status = v].runID = t.runID /\ [t EXCEPT !.status = v].runState = t.runState
         /\ \A v \in States :
              /\ [t EXCEPT !.runState = v] \in Session /\ [t EXCEPT !.runState = v].status = t.status
              /\ [t EXCEPT !.runState = v].runID = t.runID /\ [t EXCEPT !.runState = v].runState = v
<1>1. \A o \in Conns \cup {NoConn} :
              /\ [t EXCEPT !.runOwner = o] \in Session
              /\ [t EXCEPT !.runOwner = o].runID = t.runID /\ [t EXCEPT !.runOwner = o].status = t.status
              /\ [t EXCEPT !.runOwner = o].runState = t.runState
  BY DEF Session
<1>2. \A v \in {"idle", "running", "waiting", "compacting"} :
              /\ [t EXCEPT !.status = v] \in Session /\ [t EXCEPT !.status = v].status = v
              /\ [t EXCEPT !.status = v].runID = t.runID /\ [t EXCEPT !.status = v].runState = t.runState
  BY DEF Session
<1>3. \A v \in States :
              /\ [t EXCEPT !.runState = v] \in Session /\ [t EXCEPT !.runState = v].status = t.status
              /\ [t EXCEPT !.runState = v].runID = t.runID /\ [t EXCEPT !.runState = v].runState = v
  BY DEF Session
<1>. QED BY <1>1, <1>2, <1>3

\* A request and a round are counted.
LEMMA RequestFacts ==
  ASSUME Types, NEW c \in Conns, Request(c)
  PROVE  /\ budget' \in [requests : Nat, rounds : Nat, asks : 0 .. MaxAsks] /\ budget'.asks = budget.asks
         /\ req[c].pc = "ready"
<1>1. budget \in [requests : Nat, rounds : Nat, asks : 0 .. MaxAsks] /\ budget.requests \in Nat /\ budget.requests > 0
  BY DEF Types, Request
<1>2. budget' = [budget EXCEPT !.requests = budget.requests - 1] /\ budget.requests - 1 \in Nat
  BY <1>1 DEF Request
<1>. QED BY <1>1, <1>2 DEF Request

\* A round is counted.
LEMMA RoundFacts ==
  ASSUME Types, Round
  PROVE  budget' \in [requests : Nat, rounds : Nat, asks : 0 .. MaxAsks] /\ budget'.asks = budget.asks
<1>1. budget \in [requests : Nat, rounds : Nat, asks : 0 .. MaxAsks] /\ budget.rounds \in Nat /\ budget.rounds > 0
  BY DEF Types, Round
<1>2. budget' = [budget EXCEPT !.rounds = budget.rounds - 1] /\ budget.rounds - 1 \in Nat
  BY <1>1 DEF Round
<1>. QED BY <1>1, <1>2

-----------------------------------------------------------------------------
(* Attaching, leaving and answering.                                       *)

\* attach takes the control of a run at most.
LEMMA AttachSafe ==
  ASSUME IInv, NEW c \in Conns, Attach(c)
  PROVE  IInv'
<1>0. WorkInv /\ AskInv /\ ToldInv /\ Types
  BY DEF IInv, WorkInv
<1>1. /\ UNCHANGED <<notify, req, kind, work, events, loop, pending, replies, log, ownerAway, starter>>
      /\ clients' = clients \cup {c}
  BY DEF Attach, agentVars, askVars, ghostVars
<1>2. budget' \in [requests : Nat, rounds : Nat, asks : 0 .. MaxAsks] /\ budget'.asks = budget.asks
  BY <1>0, RequestFacts DEF Attach
<1>3. rt' \in Session /\ rt'.runID = rt.runID /\ rt'.status = rt.status /\ rt'.runState = rt.runState
  <2>1. rt' = rt \/ rt' = [rt EXCEPT !.runOwner = c]
    BY DEF Attach
  <2>2. rt \in Session /\ c \in Conns \cup {NoConn}
    BY <1>0 DEF Types
  <2>3. CASE rt' = rt
    BY <2>2, <2>3
  <2>4. CASE rt' = [rt EXCEPT !.runOwner = c]
    BY <2>2, <2>4, SessionFacts
  <2>. QED BY <2>1, <2>3, <2>4
<1>4. Types'
  BY <1>0, <1>1, <1>2, <1>3 DEF Types
<1>5. WorkInv'
  BY <1>0, <1>1, <1>3, <1>4, ClientWork
<1>6. Once' /\ (\A a \in Asks : Sent(a)' => Sent(a)) /\ (\A a \in Asks : Storing(a)' => Storing(a))
  BY <1>0, <1>1, OnceSame DEF AskInv
<1>7. AskInv'
  BY <1>0, <1>1, <1>2, <1>6, AskFrame
<1>8. ToldInv'
  BY <1>0, <1>1, <1>3, ClientTold
<1>. QED BY <1>5, <1>7, <1>8 DEF IInv

\* Who leaves is away from the questions that it owns.
LEMMA DetachSafe ==
  ASSUME IInv, NEW c \in Conns, Detach(c)
  PROVE  IInv'
<1>0. WorkInv /\ AskInv /\ ToldInv /\ Types /\ Once /\ Stages /\ Replies /\ OwnerAnswers
  BY DEF IInv, WorkInv, AskInv
<1>1. /\ UNCHANGED <<rt, notify, kind, work, events, loop, pending, replies, log, starter>>
      /\ clients' = clients \ {c}
      /\ ownerAway' = ownerAway \cup {p.ask : p \in {q \in pending : q.owner = c}}
  BY DEF Detach, agentVars, askVars
<1>2. /\ budget' \in [requests : Nat, rounds : Nat, asks : 0 .. MaxAsks] /\ budget'.asks = budget.asks
      /\ req[c].pc = "ready"
  BY <1>0, RequestFacts DEF Detach
<1>3. /\ req' \in [Conns -> Handling]
      /\ req'[c].pc \in {"ready", "cancelWaiting", "handoff"}
      /\ \A d \in Conns \ {c} : req'[d] = req[d]
  <2>1. CASE UNCHANGED req
    BY <1>0, <1>2, <2>1 DEF Types
  <2>2. CASE Goto(c, "cancelWaiting", rt.runID, 0) \/ Goto(c, "handoff", rt.runID, 0)
    <3>1. rt.runID \in Runs \cup {NoRun} /\ {"cancelWaiting", "handoff"} \subseteq HandlingAt
      BY <1>0 DEF Types, Session, HandlingAt, Elsewhere
    <3>. QED BY <1>0, <2>2, <3>1, GotoFacts
  <2>. QED BY <2>1, <2>2 DEF Detach, DetachPlan
<1>4. Types'
  <2>1. ownerAway' \subseteq Asks
    BY <1>0, <1>1 DEF Types, Question
  <2>. QED BY <1>0, <1>1, <1>2, <1>3, <2>1 DEF Types
<1>5. WorkInv'
  <2>. \A d \in Conns : req'[d] = req[d] \/ req'[d].pc \notin Beginning
    BY <1>3 DEF Beginning
  <2>. QED BY <1>0, <1>1, <1>4, ClientWork
<1>6. Once' /\ (\A a \in Asks : Sent(a)' <=> Sent(a)) /\ (\A a \in Asks : Storing(a)' <=> Storing(a))
      /\ (\A a \in Asks : (Issued(a)' <=> Issued(a)) /\ (IsOpen(a)' <=> IsOpen(a)))
  BY <1>0, <1>1, <1>2 DEF Once, Sent, Storing, Issued, IsOpen
<1>7. AskInv'
  <2>1. Stages'
    BY <1>0, <1>1, <1>6 DEF Stages
  <2>2. \A d \in Conns : req'[d].pc \in Replying => req'[d] = req[d]
    BY <1>3 DEF Replying
  <2>3. Replies'
    <3>0. \A p, q \in pending' : p.ask = q.ask => p = q
      BY <1>0, <1>1 DEF Replies
    <3>1. \A p \in pending' : p.owner = starter'[p.run] /\ (p.owner \notin clients' => p.ask \in ownerAway')
      BY <1>0, <1>1 DEF Replies
    <3>2. ASSUME NEW d \in Conns, req'[d].pc \in Replying
          PROVE  /\ req'[d].ask \in Asks /\ req'[d].run \in Runs /\ kind'[req'[d].run] # "none"
                 /\ Issued(req[d].ask)' /\ ~Sent(req[d].ask)' /\ ~Storing(req[d].ask)'
                 /\ \A p \in pending' : p.ask = req'[d].ask => p.run = req'[d].run
      BY <1>0, <1>1, <1>6, <2>2, <3>2 DEF Replies
    <3>3. ASSUME NEW d \in Conns, req'[d].pc \in {"replyTakeOver", "replyClaim"}
          PROVE  d = starter'[req'[d].run] \/ req'[d].ask \in ownerAway' \/ ~IsOpen(req[d].ask)'
      BY <1>0, <1>1, <1>6, <2>2, <3>3 DEF Replies, Replying
    <3>. QED BY <3>0, <3>1, <3>2, <3>3 DEF Replies
  <2>4. OwnerAnswers'
    BY <1>0, <1>1 DEF OwnerAnswers
  <2>. QED BY <1>6, <2>1, <2>3, <2>4 DEF AskInv
<1>8. ToldInv'
  <2>. \A d \in Conns : req'[d] = req[d] \/ (~Publisher(d)' /\ req[d].pc # "publishRunning")
    BY <1>2, <1>3 DEF Publisher
  <2>. QED BY <1>0, <1>1, ClientTold
<1>. QED BY <1>5, <1>7, <1>8 DEF IInv

\* A connection is done with a request, and nothing else changes.
LEMMA QuietDone ==
  ASSUME IInv, NEW c \in Conns, Done(c), req[c].pc \notin Beginning,
         UNCHANGED <<clients, rt, notify, kind, work, events, loop, pending, replies, log, ownerAway, starter, budget>>
  PROVE  IInv'
<1>0. WorkInv /\ AskInv /\ ToldInv /\ Types
  BY DEF IInv, WorkInv
<1>1. /\ req' \in [Conns -> Handling]
      /\ req'[c].pc = "ready" /\ \A d \in Conns \ {c} : req'[d] = req[d]
  BY <1>0, DoneFacts
<1>2. Types'
  BY <1>0, <1>1 DEF Types
<1>3. WorkInv'
  <2>. \A d \in Conns : req'[d] = req[d] \/ req'[d].pc \notin Beginning
    BY <1>1 DEF Beginning
  <2>. QED BY <1>0, <1>2, ClientWork
<1>4. Once' /\ (\A a \in Asks : Sent(a)' => Sent(a)) /\ (\A a \in Asks : Storing(a)' => Storing(a))
  BY <1>0, OnceSame DEF AskInv
<1>5. AskInv'
  <2>. \A d \in Conns : req'[d] = req[d] \/ req'[d].pc \notin Replying
    BY <1>1 DEF Replying
  <2>. QED BY <1>0, <1>4, AskFrame
<1>6. ToldInv'
  <2>. \A d \in Conns : req'[d] = req[d] \/ (~Publisher(d)' /\ req[d].pc # "publishRunning")
    BY <1>1 DEF Publisher, Beginning
  <2>. QED BY <1>0, ClientTold
<1>. QED BY <1>3, <1>5, <1>6 DEF IInv

\* finishDetach and agent.cancel cancel a context; onClientDetached offers questions.
LEMMA FinishDetachCancelSafe ==
  ASSUME IInv, NEW c \in Conns, FinishDetachCancel(c) PROVE IInv'
BY QuietDone DEF FinishDetachCancel, askVars, ghostVars, Beginning

\* onClientDetached offers the questions to the clients that stay.
LEMMA OnClientDetachedSafe ==
  ASSUME IInv, NEW c \in Conns, OnClientDetached(c) PROVE IInv'
BY QuietDone DEF OnClientDetached, agentVars, ghostVars, Beginning

\* The handler of agent.cancel calls CancelCurrentRun outside the locks.
LEMMA CancelAgentSafe ==
  ASSUME IInv, NEW c \in Conns, CancelAgent(c) PROVE IInv'
BY QuietDone DEF CancelAgent, askVars, ghostVars, Beginning

\* A connection has found question a of run r, and may answer it or has yet to be
\* asked whether it may.
LEMMA ReplyStep ==
  ASSUME IInv, NEW c \in Conns, NEW a \in Asks, NEW r \in Runs, NEW pc \in Replying,
         Goto(c, pc, r, a), req[c].pc \notin Beginning,
         rt' \in Session, rt'.runID = rt.runID, rt'.status = rt.status, rt'.runState = rt.runState,
         UNCHANGED <<clients, notify, kind, work, events, loop, pending, replies, log, ownerAway, starter>>,
         budget' \in [requests : Nat, rounds : Nat, asks : 0 .. MaxAsks], budget'.asks = budget.asks,
         kind[r] # "none", Issued(a), ~Sent(a), ~Storing(a), \A p \in pending : p.ask = a => p.run = r,
         pc = "replyCheck" \/ c = starter[r] \/ a \in ownerAway \/ ~IsOpen(a)
  PROVE  IInv'
<1>0. WorkInv /\ AskInv /\ ToldInv /\ Types /\ Once /\ Stages /\ Replies /\ OwnerAnswers
  BY DEF IInv, WorkInv, AskInv
<1>1. /\ req' \in [Conns -> Handling] /\ req'[c].pc = pc /\ req'[c].run = r /\ req'[c].ask = a
      /\ \A d \in Conns \ {c} : req'[d] = req[d]
  BY <1>0, GotoFacts DEF HandlingAt
<1>2. Types'
  BY <1>0, <1>1 DEF Types
<1>3. WorkInv'
  <2>. \A d \in Conns : req'[d] = req[d] \/ req'[d].pc \notin Beginning
    BY <1>1 DEF Beginning, Replying
  <2>. QED BY <1>0, <1>2, ClientWork
<1>4. /\ Once' /\ (\A b \in Asks : (Sent(b)' <=> Sent(b)) /\ (Storing(b)' <=> Storing(b)))
      /\ (\A b \in Asks : (Issued(b)' <=> Issued(b)) /\ (IsOpen(b)' <=> IsOpen(b)))
  BY <1>0 DEF Once, Sent, Storing, Issued, IsOpen
<1>5. AskInv'
  <2>1. Stages'
    BY <1>0, <1>4 DEF Stages
  <2>2. Replies'
    <3>1. /\ \A p, q \in pending' : p.ask = q.ask => p = q
          /\ \A p \in pending' : p.owner = starter'[p.run] /\ (p.owner \notin clients' => p.ask \in ownerAway')
      BY <1>0 DEF Replies
    <3>2. ASSUME NEW d \in Conns, req'[d].pc \in Replying
          PROVE  /\ req'[d].ask \in Asks /\ req'[d].run \in Runs /\ kind'[req'[d].run] # "none"
                 /\ Issued(req[d].ask)' /\ ~Sent(req[d].ask)' /\ ~Storing(req[d].ask)'
                 /\ \A p \in pending' : p.ask = req'[d].ask => p.run = req'[d].run
      <4>. DEFINE b == req'[d].ask
      <4>1. /\ b \in Asks /\ req'[d].run \in Runs /\ kind[req'[d].run] # "none"
            /\ Issued(b) /\ ~Sent(b) /\ ~Storing(b)
            /\ \A p \in pending : p.ask = b => p.run = req'[d].run
        <5>1. CASE d = c
          BY <1>1, <5>1
        <5>2. CASE d # c
          BY <1>0, <1>1, <3>2, <5>2 DEF Replies
        <5>. QED BY <5>1, <5>2
      <4>2. (Issued(req[d].ask)' <=> b <= MaxAsks - budget'.asks) /\ (Issued(b) <=> b <= MaxAsks - budget.asks)
        BY DEF Issued
      <4>3. (Sent(req[d].ask)' <=> Sent(b)) /\ (Storing(req[d].ask)' <=> Storing(b))
        BY DEF Sent, Storing
      <4>. HIDE DEF b
      <4>4. b = req'[d].ask
        BY DEF b
      <4>. QED BY <4>1, <4>2, <4>3, <4>4
    <3>3. ASSUME NEW d \in Conns, req'[d].pc \in {"replyTakeOver", "replyClaim"}
          PROVE  d = starter'[req'[d].run] \/ req'[d].ask \in ownerAway' \/ ~IsOpen(req[d].ask)'
      <4>1. CASE d = c
        <5>1. c = starter[r] \/ a \in ownerAway \/ ~IsOpen(a)
          BY <1>1, <3>3, <4>1
        <5>. QED BY <1>1, <4>1, <5>1 DEF IsOpen
      <4>2. CASE d # c
        <5>1. req'[d] = req[d]
          BY <1>1, <4>2
        <5>2. d = starter[req[d].run] \/ req[d].ask \in ownerAway \/ ~IsOpen(req[d].ask)
          BY <1>0, <3>3, <5>1 DEF Replies
        <5>. QED BY <5>1, <5>2 DEF IsOpen
      <4>. QED BY <4>1, <4>2
    <3>. QED BY <3>1, <3>2, <3>3 DEF Replies
  <2>3. OwnerAnswers'
    BY <1>0 DEF OwnerAnswers
  <2>. QED BY <1>4, <2>1, <2>2, <2>3 DEF AskInv
<1>6. ToldInv'
  <2>. \A d \in Conns : req'[d] = req[d] \/ (~Publisher(d)' /\ req[d].pc # "publishRunning")
    BY <1>1 DEF Publisher, Beginning, Replying
  <2>. QED BY <1>0, ClientTold
<1>. QED BY <1>3, <1>5, <1>6 DEF IInv

\* claimInteractionReply's Load finds an open question.
LEMMA ReplyLoadSafe ==
  ASSUME IInv, NEW c \in Conns, NEW a \in Asks, ReplyLoad(c, a)
  PROVE  IInv'
<1>0. WorkInv /\ AskInv /\ Types /\ Stages /\ Replies /\ Open /\ Fresh
  BY DEF IInv, WorkInv, AskInv
<1>. DEFINE q == CHOOSE p \in pending : p.ask = a
<1>1. q \in pending /\ q.ask = a
  BY DEF ReplyLoad
<1>. HIDE DEF q
<1>2. Goto(c, "replyCheck", q.run, a)
  BY DEF ReplyLoad, q
<1>3. q.run \in Runs /\ loop[q.run].pc \notin {"none", "idle", "done"}
  BY <1>0, <1>1 DEF Open, Types, Question
<1>4. kind[q.run] # "none"
  BY <1>0, <1>3 DEF Fresh
<1>5. Issued(a) /\ ~Sent(a) /\ ~Storing(a)
  BY <1>0, <1>1 DEF Stages, IsOpen
<1>6. \A p \in pending : p.ask = a => p.run = q.run
  BY <1>0, <1>1 DEF Replies
<1>7. /\ budget' \in [requests : Nat, rounds : Nat, asks : 0 .. MaxAsks] /\ budget'.asks = budget.asks
      /\ req[c].pc = "ready"
  BY <1>0, RequestFacts DEF ReplyLoad
<1>8. UNCHANGED <<clients, rt, notify, kind, work, events, loop, pending, replies, log, ownerAway, starter>>
  BY DEF ReplyLoad, agentVars, askVars, ghostVars
<1>9. rt \in Session /\ "replyCheck" \in Replying /\ req[c].pc \notin Beginning
  BY <1>0, <1>7 DEF Types, Replying, Beginning
<1>. QED BY <1>2, <1>3, <1>4, <1>5, <1>6, <1>7, <1>8, <1>9, ReplyStep

\* ensureInteractionReplyAllowed: who is not the owner sees that the owner is away.
LEMMA ReplyCheckSafe ==
  ASSUME IInv, NEW c \in Conns, ReplyCheck(c)
  PROVE  IInv'
<1>0. WorkInv /\ AskInv /\ Types /\ Replies
  BY DEF IInv, WorkInv, AskInv
<1>1. /\ UNCHANGED <<clients, rt, notify, kind, work, events, loop, pending, replies, log, ownerAway, starter, budget>>
      /\ req[c].pc = "replyCheck"
  BY DEF ReplyCheck, agentVars, askVars, ghostVars
<1>2. req[c].pc \in Replying /\ req[c].pc \notin Beginning
  BY <1>1 DEF Replying, Beginning
<1>. DEFINE a == req[c].ask
            r == req[c].run
<1>3. /\ a \in Asks /\ r \in Runs /\ kind[r] # "none"
      /\ Issued(a) /\ ~Sent(a) /\ ~Storing(a) /\ \A p \in pending : p.ask = a => p.run = r
  BY <1>0, <1>2 DEF Replies
<1>4. CASE ~ReplyAllowed(c, starter[r])
  BY <1>1, <1>2, <1>4, QuietDone DEF ReplyCheck
<1>5. CASE ReplyAllowed(c, starter[r])
  <2>1. PICK pc \in {"replyClaim", "replyTakeOver"} : Goto(c, pc, r, a)
    BY <1>5 DEF ReplyCheck
  <2>2. c = starter[r] \/ a \in ownerAway \/ ~IsOpen(a)
    BY <1>0, <1>3, <1>5 DEF ReplyAllowed, IsOpen, Replies
  <2>3. rt \in Session /\ budget \in [requests : Nat, rounds : Nat, asks : 0 .. MaxAsks] /\ pc \in Replying
    BY <1>0 DEF Types, Replying
  <2>. HIDE DEF a, r
  <2>. QED BY <1>1, <1>2, <1>3, <2>1, <2>2, <2>3, ReplyStep
<1>. QED BY <1>4, <1>5

\* setRunOwner.
LEMMA ReplyTakeOverSafe ==
  ASSUME IInv, NEW c \in Conns, ReplyTakeOver(c)
  PROVE  IInv'
<1>0. WorkInv /\ AskInv /\ Types /\ Replies
  BY DEF IInv, WorkInv, AskInv
<1>1. /\ UNCHANGED <<clients, notify, kind, work, events, loop, pending, replies, log, ownerAway, starter, budget>>
      /\ req[c].pc = "replyTakeOver"
  BY DEF ReplyTakeOver, agentVars, askVars, ghostVars
<1>2. req[c].pc \in Replying /\ req[c].pc \notin Beginning /\ "replyClaim" \in Replying
  BY <1>1 DEF Replying, Beginning
<1>. DEFINE a == req[c].ask
            r == req[c].run
<1>3. /\ a \in Asks /\ r \in Runs /\ kind[r] # "none"
      /\ Issued(a) /\ ~Sent(a) /\ ~Storing(a) /\ \A p \in pending : p.ask = a => p.run = r
      /\ c = starter[r] \/ a \in ownerAway \/ ~IsOpen(a)
  BY <1>0, <1>1, <1>2 DEF Replies
<1>4. Goto(c, "replyClaim", r, a)
  BY DEF ReplyTakeOver
<1>5. rt' \in Session /\ rt'.runID = rt.runID /\ rt'.status = rt.status /\ rt'.runState = rt.runState
  <2>1. rt' = rt \/ rt' = [rt EXCEPT !.runOwner = c]
    BY DEF ReplyTakeOver
  <2>2. rt \in Session /\ c \in Conns \cup {NoConn}
    BY <1>0 DEF Types
  <2>3. CASE rt' = rt
    BY <2>2, <2>3
  <2>4. CASE rt' = [rt EXCEPT !.runOwner = c]
    BY <2>2, <2>4, SessionFacts
  <2>. QED BY <2>1, <2>3, <2>4
<1>6. budget \in [requests : Nat, rounds : Nat, asks : 0 .. MaxAsks]
  BY <1>0 DEF Types
<1>. HIDE DEF a, r
<1>. QED BY <1>1, <1>2, <1>3, <1>4, <1>5, <1>6, ReplyStep

\* LoadAndDelete: the first that finds the question answers it.
LEMMA ReplyClaimSafe ==
  ASSUME IInv, NEW c \in Conns, ReplyClaim(c)
  PROVE  IInv'
<1>0. WorkInv /\ AskInv /\ ToldInv /\ Types /\ Once /\ Stages /\ Replies /\ OwnerAnswers
  BY DEF IInv, WorkInv, AskInv
<1>. DEFINE a == req[c].ask
            r == req[c].run
<1>1. /\ UNCHANGED <<clients, rt, notify, kind, work, events, loop, log, ownerAway, starter, budget>>
      /\ req[c].pc = "replyClaim" /\ pending' = {p \in pending : p.ask # a}
      /\ replies' = IF IsOpen(a) THEN [replies EXCEPT ![a] = Append(@, [by |-> c, owner |-> starter[r]])]
                                 ELSE replies
  BY DEF ReplyClaim, agentVars, ghostVars, Claimed, IsOpen
<1>2. /\ a \in Asks /\ r \in Runs /\ kind[r] # "none"
      /\ Issued(a) /\ ~Sent(a) /\ ~Storing(a)
      /\ c = starter[r] \/ a \in ownerAway \/ ~IsOpen(a)
  BY <1>0, <1>1 DEF Replies, Replying
<1>3. /\ req' \in [Conns -> Handling]
      /\ req'[c].pc = "ready" /\ \A d \in Conns \ {c} : req'[d] = req[d]
  BY <1>0, DoneFacts DEF ReplyClaim
<1>. HIDE DEF a, r
<1>4. /\ replies' \in [Asks -> Seq(Reply)] /\ \A b \in Asks \ {a} : replies'[b] = replies[b]
      /\ \/ replies'[a] = replies[a]
         \/ IsOpen(a) /\ Len(replies'[a]) = 1 /\ replies'[a][1] = [by |-> c, owner |-> starter[r]]
  <2>1. replies \in [Asks -> Seq(Reply)] /\ [by |-> c, owner |-> starter[r]] \in Reply
    BY <1>0, <1>2 DEF Types, Reply
  <2>2. CASE IsOpen(a)
    <3>1. replies[a] = <<>>
      BY <1>0, <1>2, <2>2 DEF Stages
    <3>2. Append(<<>>, [by |-> c, owner |-> starter[r]]) = <<[by |-> c, owner |-> starter[r]]>>
      OBVIOUS
    <3>3. replies' = [replies EXCEPT ![a] = <<[by |-> c, owner |-> starter[r]]>>]
      BY <1>1, <2>2, <3>1, <3>2
    <3>4. <<[by |-> c, owner |-> starter[r]]>> \in Seq(Reply)
      BY <2>1
    <3>. QED BY <1>2, <2>1, <2>2, <3>3, <3>4
  <2>3. CASE ~IsOpen(a)
    BY <1>1, <2>1, <2>3
  <2>. QED BY <2>2, <2>3
<1>5. Types'
  BY <1>0, <1>1, <1>3, <1>4 DEF Types
<1>6. WorkInv'
  <2>. \A d \in Conns : req'[d] = req[d] \/ req'[d].pc \notin Beginning
    BY <1>3 DEF Beginning
  <2>. QED BY <1>0, <1>1, <1>5, ClientWork
<1>7. /\ Once' /\ (\A b \in Asks : (Sent(b)' <=> Sent(b)) /\ (Storing(b)' <=> Storing(b)))
      /\ (\A b \in Asks : (Issued(b)' <=> Issued(b)) /\ (IsOpen(b)' <=> IsOpen(b) /\ b # a))
  BY <1>0, <1>1 DEF Once, Sent, Storing, Issued, IsOpen
<1>8. AskInv'
  <2>1. Stages'
    <3>. SUFFICES ASSUME NEW b \in Asks
                  PROVE  /\ Sent(b)' => Issued(b)' /\ ~Storing(b)' /\ ~IsOpen(b)' /\ replies'[b] = <<>>
                         /\ Storing(b)' => Issued(b)' /\ ~IsOpen(b)' /\ replies'[b] = <<>>
                         /\ IsOpen(b)' => Issued(b)' /\ replies'[b] = <<>>
                         /\ replies'[b] # <<>> => Issued(b)'
                         /\ Len(replies'[b]) <= 1
      BY DEF Stages
    <3>1. /\ Sent(b) => Issued(b) /\ ~Storing(b) /\ ~IsOpen(b) /\ replies[b] = <<>>
          /\ Storing(b) => Issued(b) /\ ~IsOpen(b) /\ replies[b] = <<>>
          /\ IsOpen(b) => Issued(b) /\ replies[b] = <<>>
          /\ replies[b] # <<>> => Issued(b)
          /\ Len(replies[b]) <= 1
      BY <1>0 DEF Stages
    <3>2. CASE b = a
      <4>1. ~Sent(b) /\ ~Storing(b) /\ Issued(b)
        BY <1>2, <3>2
      <4>2. ~Sent(b)' /\ ~Storing(b)' /\ Issued(b)' /\ ~IsOpen(b)'
        BY <1>7, <3>2, <4>1
      <4>3. Len(replies'[b]) <= 1
        <5>1. CASE replies'[a] = replies[a]
          BY <3>1, <3>2, <5>1
        <5>2. CASE Len(replies'[a]) = 1
          BY <3>2, <5>2
        <5>. QED BY <1>4, <5>1, <5>2
      <4>. QED BY <4>2, <4>3
    <3>3. CASE b # a
      BY <1>4, <1>7, <3>1, <3>3
    <3>. QED BY <3>2, <3>3
  <2>2. \A d \in Conns : req'[d].pc \in Replying => req'[d] = req[d]
    BY <1>3 DEF Replying
  <2>3. Replies'
    <3>1. /\ \A p, q \in pending' : p.ask = q.ask => p = q
          /\ \A p \in pending' : p.owner = starter'[p.run] /\ (p.owner \notin clients' => p.ask \in ownerAway')
      BY <1>0, <1>1 DEF Replies
    <3>2. ASSUME NEW d \in Conns, req'[d].pc \in Replying
          PROVE  /\ req'[d].ask \in Asks /\ req'[d].run \in Runs /\ kind'[req'[d].run] # "none"
                 /\ Issued(req[d].ask)' /\ ~Sent(req[d].ask)' /\ ~Storing(req[d].ask)'
                 /\ \A p \in pending' : p.ask = req'[d].ask => p.run = req'[d].run
      BY <1>0, <1>1, <1>7, <2>2, <3>2 DEF Replies
    <3>3. ASSUME NEW d \in Conns, req'[d].pc \in {"replyTakeOver", "replyClaim"}
          PROVE  d = starter'[req'[d].run] \/ req'[d].ask \in ownerAway' \/ ~IsOpen(req[d].ask)'
      BY <1>0, <1>1, <1>7, <2>2, <3>3 DEF Replies, Replying
    <3>. QED BY <3>1, <3>2, <3>3 DEF Replies
  <2>4. OwnerAnswers'
    <3>. SUFFICES ASSUME NEW b \in Asks, NEW i \in 1 .. Len(replies'[b])
                  PROVE  replies'[b][i].by = replies'[b][i].owner \/ b \in ownerAway'
      BY DEF OwnerAnswers
    <3>1. CASE replies'[b] = replies[b]
      BY <1>0, <1>1, <3>1 DEF OwnerAnswers
    <3>2. CASE replies'[b] # replies[b]
      <4>1. b = a
        BY <1>4, <3>2
      <4>2. IsOpen(a) /\ Len(replies'[b]) = 1 /\ replies'[b][1] = [by |-> c, owner |-> starter[r]]
        BY <1>4, <3>2, <4>1
      <4>3. i = 1
        BY <4>2
      <4>4. replies'[b][i].by = c /\ replies'[b][i].owner = starter[r]
        BY <4>2, <4>3
      <4>5. CASE c = starter[r]
        BY <4>4, <4>5
      <4>6. CASE a \in ownerAway
        BY <1>1, <4>1, <4>6
      <4>. QED BY <1>2, <4>2, <4>5, <4>6
    <3>. QED BY <3>1, <3>2
  <2>. QED BY <1>7, <2>1, <2>3, <2>4 DEF AskInv
<1>9. ToldInv'
  <2>. \A d \in Conns : req'[d] = req[d] \/ (~Publisher(d)' /\ req[d].pc # "publishRunning")
    BY <1>1, <1>3 DEF Publisher
  <2>. QED BY <1>0, <1>1, ClientTold
<1>. QED BY <1>6, <1>8, <1>9 DEF IInv

-----------------------------------------------------------------------------
(* Beginning a run.                                                        *)

\* Any numbers have a least.
LEMMA Least ==
  ASSUME NEW T, T \subseteq Nat, T # {}
  PROVE  \E m \in T : \A k \in T : m <= k
<1>. DEFINE R == OpToRel(<, Nat)
<1>1. IsWellFoundedOn(R, Nat)
  BY NatLessThanWellFounded
<1>2. \A a, b \in Nat : a < b => <<a, b>> \in R
  BY DEF OpToRel
<1>. HIDE DEF R
<1>3. PICK m \in T : \A k \in T : ~(<<k, m>> \in R)
  BY <1>1, WFMin
<1>4. m \in Nat /\ \A k \in T : k \in Nat /\ ~(k < m)
  BY <1>2, <1>3
<1>5. \A k \in T : m <= k
  BY <1>4
<1>. QED BY <1>3, <1>5

\* The id of a run is new.
LEMMA NewRunFacts ==
  ASSUME RunAssumption, \E r \in Runs : kind[r] = "none"
  PROVE  NewRun \in Runs /\ kind[NewRun] = "none"
<1>. DEFINE T == {r \in Runs : kind[r] = "none"}
<1>1. T \subseteq Nat /\ T # {}
  BY DEF Runs, RunAssumption
<1>2. PICK m \in T : \A k \in T : m <= k
  BY <1>1, Least
<1>3. m \in Runs /\ kind[m] = "none" /\ \A q \in 1 .. m - 1 : q \in Runs /\ q \notin T
  BY <1>2 DEF Runs, RunAssumption
<1>4. \A q \in 1 .. m - 1 : kind[q] # "none"
  BY <1>3
<1>. QED BY <1>3, <1>4 DEF NewRun

\* An idle session has no work, no event loop and no question.
LEMMA IdleFacts ==
  ASSUME WorkInv, rt.status = "idle"
  PROVE  /\ \A d \in Conns : req[d].pc \notin Beginning
         /\ \A r \in Runs : /\ loop[r].pc \in {"none", "done"} /\ work[r].pc \notin Compacting
                            /\ ~Publishes(r)
         /\ pending = {}
<1>0. Types /\ Reserved /\ Open
  BY DEF WorkInv
<1>1. \A d \in Conns : req[d].pc \notin Beginning
  BY <1>0 DEF Reserved
<1>2. \A r \in Runs : loop[r].pc \in {"none", "done"} /\ work[r].pc \notin Compacting
  BY <1>0 DEF Reserved, ReservedAt
<1>3. \A r \in Runs : ~Publishes(r)
  BY <1>2 DEF Publishes
<1>4. \A p \in pending : p.run \in Runs
  BY <1>0 DEF Types, Question
<1>5. pending = {}
  BY <1>0, <1>2, <1>4 DEF Open
<1>. QED BY <1>1, <1>2, <1>3, <1>5

\* beginRunNoLock: nothing of the new run exists, and nothing of another goes on.
LEMMA BeginSafe ==
  ASSUME RunAssumption, IInv, NEW c \in Conns, NEW k \in {"chat", "compact"}, NEW pc \in {"publishRunning", "startCompact"},
         k = IF pc = "startCompact" THEN "compact" ELSE "chat",
         Request(c), BeginRunNoLock(c, k), Goto(c, pc, NewRun, 0),
         IF k = "chat" THEN LockNotify ELSE UNCHANGED notify,
         UNCHANGED <<clients, work, events, loop, pending, replies, log, ownerAway>>
  PROVE  IInv'
<1>0. WorkInv /\ AskInv /\ ToldInv /\ Types /\ Fresh /\ Kinds /\ Closed /\ Reserved /\ Open
  BY DEF IInv, WorkInv
<1>1. /\ budget' \in [requests : Nat, rounds : Nat, asks : 0 .. MaxAsks] /\ budget'.asks = budget.asks
      /\ req[c].pc = "ready"
  BY <1>0, RequestFacts
<1>. DEFINE n == NewRun
<1>2. n \in Runs /\ kind[n] = "none" /\ rt.status = "idle"
  BY NewRunFacts DEF BeginRunNoLock
<1>3. /\ rt' = [status |-> "running", runID |-> n, runOwner |-> c, runState |-> "running"]
      /\ kind' = [kind EXCEPT ![n] = k] /\ starter' = [starter EXCEPT ![n] = c]
      /\ Goto(c, pc, n, 0)
  BY DEF BeginRunNoLock
<1>. HIDE DEF n
<1>4. /\ req' \in [Conns -> Handling] /\ req'[c].pc = pc /\ req'[c].run = n
      /\ \A d \in Conns \ {c} : req'[d] = req[d]
  BY <1>0, <1>2, <1>3, GotoFacts DEF HandlingAt, Beginning
<1>5. rt' \in Session /\ rt'.runID = n /\ rt'.status = "running" /\ rt'.runState = "running"
  BY <1>2, <1>3 DEF Session, States
<1>6. /\ kind' \in [Runs -> {"none", "chat", "compact"}] /\ kind'[n] = k
      /\ \A r \in Runs \ {n} : kind'[r] = kind[r]
  BY <1>0, <1>2, <1>3 DEF Types
<1>7. /\ starter' \in [Runs -> Conns \cup {NoConn}] /\ \A r \in Runs \ {n} : starter'[r] = starter[r]
  BY <1>0, <1>2, <1>3 DEF Types
<1>8. /\ \A d \in Conns : req[d].pc \notin Beginning
      /\ \A r \in Runs : loop[r].pc \in {"none", "done"} /\ work[r].pc \notin Compacting /\ ~Publishes(r)
      /\ pending = {}
  BY <1>0, <1>2, IdleFacts
<1>9. work[n].pc = "none" /\ loop[n].pc = "none" /\ events[n] = <<>> /\ log[n] = <<>>
  BY <1>0, <1>2 DEF Fresh
<1>10. Types'
  <2>1. notify' \in BOOLEAN
    BY <1>0 DEF Types, LockNotify
  <2>. QED BY <1>0, <1>1, <1>4, <1>5, <1>6, <1>7, <2>1 DEF Types
<1>11. WorkInv'
  <2>1. Fresh'
    <3>1. \A r \in Runs : kind'[r] = "none" =>
            /\ work'[r].pc = "none" /\ loop'[r].pc = "none" /\ events'[r] = <<>> /\ log'[r] = <<>>
      BY <1>0, <1>6 DEF Fresh
    <3>2. \A d \in Conns : req'[d].pc \in Beginning => d = c
      BY <1>4, <1>8
    <3>. QED BY <1>2, <1>4, <1>6, <1>9, <3>1, <3>2 DEF Fresh
  <2>2. Kinds' /\ Closed'
    <3>1. ASSUME NEW r \in Runs PROVE KindAt(r)'
      <4>1. CASE r = n
        BY <1>9, <4>1 DEF KindAt, Chatting, Compacting, Worked
      <4>2. CASE r # n
        BY <1>0, <1>6, <4>2 DEF Kinds, KindAt
      <4>. QED BY <4>1, <4>2
    <3>2. Closed'
      BY <1>0 DEF Closed, ClosedAt
    <3>. QED BY <3>1, <3>2 DEF Kinds
  <2>3. Reserved' /\ Open'
    <3>1. \A d \in Conns : req'[d].pc \in Beginning => rt'.runID = req'[d].run /\ rt'.status # "idle"
      BY <1>4, <1>5, <1>8
    <3>2. \A r \in Runs : ReservedAt(r)'
      BY <1>8 DEF ReservedAt
    <3>3. rt'.runID \in Runs => kind'[rt'.runID] # "none"
      BY <1>5, <1>6
    <3>4. Open'
      BY <1>8 DEF Open
    <3>. QED BY <3>1, <3>2, <3>3, <3>4 DEF Reserved
  <2>. QED BY <1>10, <2>1, <2>2, <2>3 DEF WorkInv
<1>12. AskInv'
  <2>1. Once' /\ (\A a \in Asks : Sent(a)' => Sent(a)) /\ (\A a \in Asks : Storing(a)' => Storing(a))
    BY <1>0, OnceSame DEF AskInv
  <2>2. \A r \in Runs : kind[r] # "none" => kind'[r] = kind[r] /\ starter'[r] = starter[r]
    BY <1>2, <1>6, <1>7
  <2>3. \A d \in Conns : req'[d] = req[d] \/ req'[d].pc \notin Replying
    BY <1>4 DEF Replying
  <2>. QED BY <1>0, <1>1, <2>1, <2>2, <2>3, AskFrame
<1>13. ToldInv'
  <2>0. OnePublishes /\ StateIsTold /\ FirstIsRunning /\ CancelFits /\ LoopFits /\ Ends /\ Order
    BY <1>0 DEF ToldInv
  <2>1. OnePublishes'
    <3>1. \A r \in Runs : ~Publishes(r)'
      BY <1>8 DEF Publishes
    <3>2. CASE k = "chat"
      <4>1. notify' = TRUE /\ \A d \in Conns : ~Publisher(d)
        BY <2>0, <3>2 DEF LockNotify, OnePublishes
      <4>2. \A d \in Conns : Publisher(d)' => d = c
        BY <1>4, <4>1 DEF Publisher
      <4>. QED BY <3>1, <4>1, <4>2 DEF OnePublishes
    <3>3. CASE k = "compact"
      <4>1. UNCHANGED notify /\ pc = "startCompact"
        BY <3>3
      <4>2. \A d \in Conns : Publisher(d)' => Publisher(d)
        BY <1>4, <4>1 DEF Publisher
      <4>. QED BY <2>0, <3>1, <4>1, <4>2 DEF OnePublishes
    <3>. QED BY <3>2, <3>3
  <2>2. StateIsTold'
    <3>1. NoEnd(log[n]) /\ NoCancel(log[n])
      BY <1>9 DEF NoEnd, NoCancel
    <3>. QED BY <1>5, <3>1 DEF StateIsTold, StateAt, Terminal
  <2>3. FirstIsRunning'
    <3>1. \A d \in Conns : req'[d].pc = "publishRunning" => d = c
      BY <1>4, <1>8 DEF Beginning
    <3>2. ASSUME NEW r \in Runs, kind'[r] = "chat", log'[r] = <<>>
          PROVE  \E d \in Conns : req'[d].pc = "publishRunning" /\ req'[d].run = r
      <4>1. CASE r = n
        BY <1>4, <1>6, <3>2, <4>1
      <4>2. CASE r # n
        BY <1>6, <1>8, <2>0, <3>2, <4>2 DEF FirstIsRunning, Beginning
      <4>. QED BY <4>1, <4>2
    <3>. QED BY <1>4, <1>9, <3>1, <3>2 DEF FirstIsRunning
  <2>4. CancelFits'
    <3>. SUFFICES ASSUME NEW d \in Conns, req'[d].pc = "publishCancelling"
                  PROVE  /\ req'[d].run \in Runs
                         /\ rt'.runID = req'[d].run => rt'.runState = "cancelling"
                         /\ kind'[req'[d].run] # "none"
                         /\ kind'[req'[d].run] = "chat" => NoEnd(log'[req'[d].run]) /\ NoCancel(log'[req'[d].run])
      BY DEF CancelFits
    <3>1. req'[d] = req[d]
      BY <1>4
    <3>2. req[d].run \in Runs /\ kind[req[d].run] # "none"
      BY <2>0, <3>1 DEF CancelFits
    <3>3. req[d].run # n /\ kind'[req[d].run] = kind[req[d].run]
      BY <1>2, <1>6, <3>2
    <3>. QED BY <1>5, <2>0, <3>1, <3>2, <3>3 DEF CancelFits
  <2>5. LoopFits'
    BY <1>8 DEF LoopFits, LoopFitsAt, Publishes
  <2>6. Ends'
    <3>1. ASSUME NEW r \in Runs PROVE EndAt(r)'
      <4>1. CASE r = n
        BY <1>9, <4>1 DEF EndAt, Ending
      <4>2. CASE r # n
        BY <1>6, <2>0, <4>2 DEF Ends, EndAt, EndSent
      <4>. QED BY <4>1, <4>2
    <3>. QED BY <3>1 DEF Ends
  <2>7. Order'
    <3>1. Ordered(log[n])
      BY <1>9 DEF Ordered
    <3>. QED BY <1>6, <2>0, <3>1 DEF Order
  <2>. QED BY <2>1, <2>2, <2>3, <2>4, <2>5, <2>6, <2>7 DEF ToldInv
<1>. QED BY <1>11, <1>12, <1>13 DEF IInv

\* agent.send and agent.resumeRun reserve the session under the notification lock.
LEMMA BeginRunSafe ==
  ASSUME RunAssumption, IInv, NEW c \in Conns, BeginRun(c) PROVE IInv'
BY BeginSafe DEF BeginRun, askVars

\* agent.compact reserves it without one.
LEMMA BeginCompactSafe ==
  ASSUME RunAssumption, IInv, NEW c \in Conns, BeginCompact(c) PROVE IInv'
BY BeginSafe DEF BeginCompact, askVars

-----------------------------------------------------------------------------
(* Steps of one run's agent and event loop.                                *)

\* The empty run id is the id of no run.
LEMMA NoRunIsNone == ASSUME RunAssumption PROVE NoRun \notin Runs
BY DEF NoRun, Runs, RunAssumption

\* A run that is at work has begun, and no connection is beginning it.
LEMMA AtWork ==
  ASSUME WorkInv, NEW r \in Runs, work[r].pc # "none" \/ loop[r].pc # "none"
  PROVE  kind[r] # "none" /\ \A d \in Conns : req[d].pc \in Beginning => req[d].run # r
BY DEF WorkInv, Fresh

\* A step of run r keeps what is known of the work of the others.
LEMMA RunWork ==
  ASSUME RunAssumption, WorkInv, Types', NEW r \in Runs, UNCHANGED kind, kind[r] # "none",
         \A q \in Runs \ {r} : work'[q] = work[q] /\ events'[q] = events[q] /\ loop'[q] = loop[q] /\ log'[q] = log[q],
         \A d \in Conns : req'[d] = req[d] \/ req'[d].pc = "ready",
         \A d \in Conns : req'[d].pc \in Beginning => req[d].run # r,
         KindAt(r)', ClosedAt(r)', ReservedAt(r)', Open',
         \/ rt'.runID = rt.runID /\ (rt'.status = "idle" => rt.status = "idle")
         \/ rt.runID = r /\ rt'.runID = NoRun
  PROVE  WorkInv'
<1>0. Fresh /\ Kinds /\ Closed /\ Reserved
  BY DEF WorkInv
<1>1. \A d \in Conns : req'[d].pc \in Beginning => req'[d] = req[d] /\ req[d].run # r
  BY DEF Beginning
<1>2. Fresh'
  <2>1. \A q \in Runs : kind'[q] = "none" =>
          /\ work'[q].pc = "none" /\ loop'[q].pc = "none" /\ events'[q] = <<>> /\ log'[q] = <<>>
    BY <1>0 DEF Fresh
  <2>2. ASSUME NEW d \in Conns, req'[d].pc \in Beginning
        PROVE  /\ req'[d].run \in Runs /\ work'[req'[d].run].pc = "none" /\ loop'[req'[d].run].pc = "none"
               /\ events'[req'[d].run] = <<>>
               /\ kind'[req'[d].run] = IF req'[d].pc = "startCompact" THEN "compact" ELSE "chat"
    <3>1. req'[d] = req[d] /\ req[d].run # r
      BY <1>1, <2>2
    <3>. QED BY <1>0, <2>2, <3>1 DEF Fresh
  <2>3. \A c, d \in Conns : req'[c].pc \in Beginning /\ req'[d].pc \in Beginning /\ req'[c].run = req'[d].run => c = d
    BY <1>0, <1>1 DEF Fresh
  <2>. QED BY <2>1, <2>2, <2>3 DEF Fresh
<1>3. \A q \in Runs : KindAt(q)'
  BY <1>0 DEF Kinds, KindAt
<1>4. \A q \in Runs : ClosedAt(q)'
  BY <1>0 DEF Closed, ClosedAt
<1>5. Reserved'
  <2>1. \A d \in Conns : req'[d].pc \in Beginning => rt'.runID = req'[d].run /\ rt'.status # "idle"
    BY <1>0, <1>1 DEF Reserved
  <2>2. \A q \in Runs : ReservedAt(q)'
    BY <1>0 DEF Reserved, ReservedAt
  <2>3. rt'.runID \in Runs => kind'[rt'.runID] # "none"
    BY <1>0, NoRunIsNone DEF Reserved
  <2>. QED BY <2>1, <2>2, <2>3 DEF Reserved
<1>. QED BY <1>2, <1>3, <1>4, <1>5 DEF WorkInv, Kinds, Closed

\* And what the clients are told of the others.
LEMMA RunTold ==
  ASSUME RunAssumption, WorkInv, ToldInv, NEW r \in Runs, UNCHANGED kind, kind[r] # "none",
         \A q \in Runs \ {r} : work'[q] = work[q] /\ events'[q] = events[q] /\ loop'[q] = loop[q] /\ log'[q] = log[q],
         \A d \in Conns : req'[d] = req[d] \/ (req'[d].pc = "ready" /\ req[d].pc # "publishRunning"),
         \A d \in Conns : req[d].pc = "publishRunning" => req[d].run # r,
         OnePublishes', StateAt(r)', LoopFitsAt(r)', EndAt(r)', kind[r] = "chat" => Ordered(log'[r]),
         log'[r] = <<>> => log[r] = <<>>,
         \/ rt'.runID = rt.runID /\ rt'.runState = rt.runState
         \/ rt.runID = r /\ rt'.runID = NoRun
         \/ rt.runID = r /\ rt'.runID = r /\ \A d \in Conns : ~Publisher(d)',
         log'[r] = log[r] \/ kind[r] = "compact" \/ \A d \in Conns : ~Publisher(d)'
  PROVE  ToldInv'
<1>0. StateIsTold /\ FirstIsRunning /\ CancelFits /\ LoopFits /\ Ends /\ Order /\ Reserved /\ NoRun \notin Runs
  BY NoRunIsNone DEF ToldInv, WorkInv
<1>1. \A q \in Runs \ {r} : Publishes(q)' <=> Publishes(q)
  BY DEF Publishes
<1>2. \A d \in Conns : Publisher(d)' => req'[d] = req[d]
  BY DEF Publisher
<1>3. StateIsTold'
  <2>1. ASSUME NEW q \in Runs \ {r} PROVE StateAt(q)'
    BY <1>0, <1>1 DEF StateIsTold, StateAt
  <2>. QED BY <2>1 DEF StateIsTold
<1>4. FirstIsRunning'
  <2>1. \A d \in Conns : req'[d].pc = "publishRunning" => log'[req'[d].run] = <<>>
    <3>. TAKE d \in Conns
    <3>1. SUFFICES ASSUME req'[d].pc = "publishRunning" PROVE log'[req[d].run] = <<>> /\ req'[d] = req[d]
      OBVIOUS
    <3>2. req'[d] = req[d] /\ req[d].run # r
      BY <3>1
    <3>3. req[d].run \in Runs
      BY <3>1, <3>2 DEF WorkInv, Fresh, Beginning
    <3>. QED BY <1>0, <3>1, <3>2, <3>3 DEF FirstIsRunning
  <2>2. ASSUME NEW q \in Runs, kind'[q] = "chat", log'[q] = <<>>
        PROVE  \E d \in Conns : req'[d].pc = "publishRunning" /\ req'[d].run = q
    <3>1. log[q] = <<>>
      BY <2>2
    <3>2. PICK d \in Conns : req[d].pc = "publishRunning" /\ req[d].run = q
      BY <1>0, <2>2, <3>1 DEF FirstIsRunning
    <3>. QED BY <3>2
  <2>. QED BY <2>1, <2>2 DEF FirstIsRunning
<1>5. CancelFits'
  <2>. SUFFICES ASSUME NEW d \in Conns, req'[d].pc = "publishCancelling"
                PROVE  /\ req'[d].run \in Runs
                       /\ rt'.runID = req'[d].run => rt'.runState = "cancelling"
                       /\ kind'[req'[d].run] # "none"
                       /\ kind'[req'[d].run] = "chat" => NoEnd(log'[req'[d].run]) /\ NoCancel(log'[req'[d].run])
    BY DEF CancelFits
  <2>1. req'[d] = req[d] /\ Publisher(d)'
    BY DEF Publisher
  <2>2. /\ req[d].run \in Runs
        /\ rt.runID = req[d].run => rt.runState = "cancelling"
        /\ kind[req[d].run] # "none"
        /\ kind[req[d].run] = "chat" => NoEnd(log[req[d].run]) /\ NoCancel(log[req[d].run])
    BY <1>0, <2>1 DEF CancelFits
  <2>3. kind[req[d].run] = "chat" => log'[req[d].run] = log[req[d].run]
    BY <2>1, <2>2
  <2>4. rt'.runID = req[d].run => rt'.runState = "cancelling"
    BY <1>0, <2>1, <2>2
  <2>. QED BY <2>1, <2>2, <2>3, <2>4
<1>6. LoopFits'
  <2>1. ASSUME NEW q \in Runs \ {r} PROVE LoopFitsAt(q)'
    <3>1. CASE Publishes(q)
      <4>1. rt.runID = q
        BY <1>0, <3>1 DEF Reserved, ReservedAt, Publishes
      <4>2. rt'.runState = rt.runState
        BY <4>1
      <4>. QED BY <1>0, <4>2 DEF LoopFits, LoopFitsAt
    <3>2. CASE ~Publishes(q)
      BY <3>2 DEF LoopFitsAt, Publishes
    <3>. QED BY <3>1, <3>2
  <2>. QED BY <2>1 DEF LoopFits
<1>7. Ends' /\ Order'
  <2>1. ASSUME NEW q \in Runs \ {r} PROVE EndAt(q)'
    BY <1>0 DEF Ends, EndAt, EndSent
  <2>2. Order'
    BY <1>0 DEF Order
  <2>. QED BY <2>1, <2>2 DEF Ends
<1>. QED BY <1>3, <1>4, <1>5, <1>6, <1>7 DEF ToldInv

\* Nobody begins or stops to publish.
LEMMA SamePublishers ==
  ASSUME OnePublishes, UNCHANGED notify, \A q \in Runs : Publishes(q)' => Publishes(q),
         \A d \in Conns : req'[d] = req[d] \/ req'[d].pc = "ready"
  PROVE  OnePublishes'
<1>1. \A d \in Conns : Publisher(d)' => Publisher(d)
  BY DEF Publisher
<1>. QED BY <1>1 DEF OnePublishes

\* The channels have no question that they did not have.
LEMMA OnceFewer ==
  ASSUME Once,
         \A q \in Runs : \A i \in 1 .. Len(events'[q]) :
           events'[q][i].type = "ask" => i \in 1 .. Len(events[q]) /\ events'[q][i] = events[q][i],
         \A q \in Runs : loop'[q].pc = "store" => loop[q].pc = "store" /\ loop'[q].ask = loop[q].ask
  PROVE  Once' /\ (\A a \in Asks : Sent(a)' => Sent(a)) /\ (\A a \in Asks : Storing(a)' => Storing(a))
<1>1. Once'
  <2>1. \A p, q \in Runs : \A i \in 1 .. Len(events'[p]), j \in 1 .. Len(events'[q]) :
       events'[p][i].type = "ask" /\ events'[q][j].type = "ask" /\ events'[p][i].ask = events'[q][j].ask
         => p = q /\ i = j
    <3>. SUFFICES ASSUME NEW p \in Runs, NEW q \in Runs,
                        NEW i \in 1 .. Len(events'[p]), NEW j \in 1 .. Len(events'[q]),
                        events'[p][i].type = "ask", events'[q][j].type = "ask",
                        events'[p][i].ask = events'[q][j].ask
                 PROVE  p = q /\ i = j
      OBVIOUS
    <3>1. /\ i \in 1 .. Len(events[p]) /\ events'[p][i] = events[p][i]
          /\ j \in 1 .. Len(events[q]) /\ events'[q][j] = events[q][j]
      OBVIOUS
    <3>. QED BY <3>1 DEF Once
  <2>2. \A p \in Runs : \A i \in 1 .. Len(events'[p]) : events'[p][i].type = "ask" => events'[p][i].ask \in Asks
    BY DEF Once
  <2>3. \A q \in Runs : loop'[q].pc = "store" => loop'[q].ask \in Asks
    BY DEF Once
  <2>4. \A p, q \in Runs : loop'[p].pc = "store" /\ loop'[q].pc = "store" /\ loop'[p].ask = loop'[q].ask => p = q
    BY DEF Once
  <2>. QED BY <2>1, <2>2, <2>3, <2>4 DEF Once
<1>2. \A a \in Asks : Sent(a)' => Sent(a)
  BY DEF Sent
<1>3. \A a \in Asks : Storing(a)' => Storing(a)
  BY DEF Storing
<1>. QED BY <1>1, <1>2, <1>3

\* agent.Run, or an error in a channel of its own when another run holds runMu.
LEMMA StartAgentSafe ==
  ASSUME RunAssumption, IInv, NEW c \in Conns, StartAgent(c)
  PROVE  IInv'
<1>0. WorkInv /\ AskInv /\ ToldInv /\ Types /\ Fresh /\ Kinds /\ Closed /\ Reserved /\ Open
  BY DEF IInv, WorkInv
<1>1. /\ UNCHANGED <<clients, rt, notify, kind, pending, replies, log, ownerAway, starter, budget>>
      /\ req[c].pc = "startAgent"
  BY DEF StartAgent, askVars, ghostVars
<1>r. PICK r \in Runs : r = req[c].run
  BY <1>0, <1>1 DEF Fresh, Beginning
<1>2. /\ r \in Runs /\ work[r].pc = "none" /\ loop[r].pc = "none" /\ events[r] = <<>> /\ kind[r] = "chat"
      /\ rt.runID = r /\ rt.status # "idle"
  BY <1>0, <1>1, <1>r DEF Fresh, Reserved, Beginning
<1>3. /\ req' \in [Conns -> Handling]
      /\ req'[c].pc = "ready" /\ \A d \in Conns \ {c} : req'[d] = req[d]
  BY <1>0, DoneFacts DEF StartAgent
<1>4. LoopTo(r, "receive")
  BY <1>r DEF StartAgent
<1>5. \/ WorkTo(r, "top") /\ UNCHANGED events
      \/ WorkTo(r, "done") /\ events' = [events EXCEPT ![r] =
                    <<[type |-> "failed", ask |-> 0], [type |-> "closed", ask |-> 0]>>]
  BY <1>r DEF StartAgent
<1>6. /\ loop' \in [Runs -> Loop] /\ loop'[r].pc = "receive" /\ \A q \in Runs \ {r} : loop'[q] = loop[q]
  BY <1>0, <1>2, <1>4, LoopToFacts DEF LoopAts
<1>7. /\ work' \in [Runs -> Agent] /\ work'[r].pc \in {"top", "done"} /\ \A q \in Runs \ {r} : work'[q] = work[q]
  BY <1>0, <1>2, <1>5, WorkToFacts DEF AgentAt, Chatting
<1>. DEFINE two == <<[type |-> "failed", ask |-> 0], [type |-> "closed", ask |-> 0]>>
<1>8. /\ two \in Seq(Event) /\ Len(two) = 2 /\ two[1].type = "failed" /\ two[2].type = "closed"
      /\ \A i \in 1 .. Len(two) : i = 1 \/ i = 2
  <2>1. [type |-> "failed", ask |-> 0] \in Event /\ [type |-> "closed", ask |-> 0] \in Event
    BY DEF Event, EventTypes, Terminal
  <2>. QED BY <2>1
<1>. HIDE DEF two
<1>9. /\ events' \in [Runs -> Seq(Event)] /\ \A q \in Runs \ {r} : events'[q] = events[q]
      /\ \/ events'[r] = <<>> /\ work'[r].pc = "top"
         \/ events'[r] = two /\ work'[r].pc = "done"
  <2>1. events \in [Runs -> Seq(Event)]
    BY <1>0 DEF Types
  <2>2. CASE WorkTo(r, "top") /\ UNCHANGED events
    BY <1>0, <1>2, <2>1, <2>2, WorkToFacts DEF AgentAt, Chatting
  <2>3. CASE WorkTo(r, "done") /\ events' = [events EXCEPT ![r] = two]
    BY <1>0, <1>2, <1>8, <2>1, <2>3, WorkToFacts DEF AgentAt
  <2>. QED BY <1>5, <2>2, <2>3 DEF two
<1>10. Types'
  BY <1>0, <1>1, <1>3, <1>6, <1>7, <1>9 DEF Types
<1>11. WorkInv'
  <2>1. KindAt(r)'
    BY <1>1, <1>2, <1>6, <1>7 DEF KindAt, Compacting, Worked
  <2>2. ClosedAt(r)'
    BY <1>6, <1>9 DEF ClosedAt, Ending
  <2>3. ReservedAt(r)'
    BY <1>1, <1>2 DEF ReservedAt
  <2>4. Open'
    <3>1. \A p \in pending : p.run \in Runs /\ p.run # r
      BY <1>0, <1>2 DEF Open, Types, Question
    <3>. QED BY <1>0, <1>1, <1>6, <3>1 DEF Open
  <2>5. \A d \in Conns : req'[d] = req[d] \/ req'[d].pc = "ready"
    BY <1>3
  <2>6. \A d \in Conns : req'[d].pc \in Beginning => req[d].run # r
    BY <1>0, <1>1, <1>3, <1>r DEF Fresh, Beginning
  <2>. QED BY <1>0, <1>1, <1>2, <1>6, <1>7, <1>9, <1>10, <2>1, <2>2, <2>3, <2>4, <2>5, <2>6, RunWork
<1>12. AskInv'
  <2>1. \A q \in Runs : \A i \in 1 .. Len(events'[q]) :
          events'[q][i].type = "ask" => i \in 1 .. Len(events[q]) /\ events'[q][i] = events[q][i]
    BY <1>8, <1>9
  <2>2. \A q \in Runs : loop'[q].pc = "store" => loop[q].pc = "store" /\ loop'[q].ask = loop[q].ask
    BY <1>6
  <2>3. Once' /\ (\A a \in Asks : Sent(a)' => Sent(a)) /\ (\A a \in Asks : Storing(a)' => Storing(a))
    BY <1>0, <2>1, <2>2, OnceFewer DEF AskInv
  <2>6. \A d \in Conns : req'[d] = req[d] \/ req'[d].pc \notin Replying
    BY <1>3 DEF Replying
  <2>. QED BY <1>0, <1>1, <2>3, <2>6, AskFrame
<1>13. ToldInv'
  <2>0. OnePublishes /\ StateIsTold /\ Order
    BY <1>0 DEF ToldInv
  <2>1. OnePublishes'
    <3>1. \A q \in Runs : Publishes(q)' => Publishes(q)
      BY <1>6 DEF Publishes
    <3>. QED BY <1>1, <1>3, <2>0, <3>1, SamePublishers
  <2>2. StateAt(r)'
    BY <1>1, <1>2, <2>0 DEF StateIsTold, StateAt, Publishes
  <2>3. LoopFitsAt(r)'
    BY <1>6 DEF LoopFitsAt
  <2>4. EndAt(r)'
    <3>1. CASE events'[r] = <<>> /\ work'[r].pc = "top"
      <4>1. \A i \in 1 .. Len(events'[r]) : FALSE
        BY <3>1
      <4>2. loop'[r].pc \notin Ending
        BY <1>6 DEF Ending
      <4>. QED BY <3>1, <4>1, <4>2 DEF EndAt
    <3>2. CASE events'[r] = two /\ work'[r].pc = "done"
      <4>a. Len(events'[r]) = 2 /\ events'[r][1] = two[1] /\ two[1].type = "failed"
        BY <1>8, <3>2
      <4>b. 1 \in 1 .. 2 /\ "failed" \in Terminal
        BY DEF Terminal
      <4>0. 1 \in 1 .. Len(events'[r]) /\ events'[r][1].type \in Terminal
        BY <4>a, <4>b
      <4>1. EndSent(r)'
        BY <4>0 DEF EndSent
      <4>2. \A i \in 1 .. Len(events'[r]) : events'[r][i].type = "closed" => i = Len(events'[r])
        BY <1>8, <3>2
      <4>. QED BY <1>6, <4>1, <4>2 DEF EndAt, Ending
    <3>. QED BY <1>9, <3>1, <3>2
  <2>5. Ordered(log'[r])
    BY <1>1, <1>2, <2>0 DEF Order
  <2>6. \A d \in Conns : req'[d] = req[d] \/ (req'[d].pc = "ready" /\ req[d].pc # "publishRunning")
    BY <1>1, <1>3
  <2>7. \A d \in Conns : req[d].pc = "publishRunning" => req[d].run # r
    BY <1>0, <1>1, <1>r DEF Fresh, Beginning
  <2>. QED BY <1>0, <1>1, <1>2, <1>6, <1>7, <1>9, <2>1, <2>2, <2>3, <2>4, <2>5, <2>6, <2>7, RunTold
<1>. QED BY <1>11, <1>12, <1>13 DEF IInv

-----------------------------------------------------------------------------
(* Publishing by a connection.                                             *)

\* The one that publishes tells of run r and releases runNotifyMu.
LEMMA PublishTold ==
  ASSUME WorkInv, ToldInv, NEW r \in Runs, UNCHANGED kind,
         \A q \in Runs \ {r} : work'[q] = work[q] /\ events'[q] = events[q] /\ loop'[q] = loop[q] /\ log'[q] = log[q],
         \A d \in Conns : ~Publisher(d)', \A q \in Runs : ~Publishes(q)', \A q \in Runs \ {r} : ~Publishes(q),
         \A d \in Conns : req[d].pc = "publishRunning" => req[d].run = r,
         rt'.runID = rt.runID, rt'.runState = rt.runState, log'[r] # <<>>,
         StateAt(r)', EndAt(r)', kind[r] = "chat" => Ordered(log'[r])
  PROVE  ToldInv'
<1>0. StateIsTold /\ FirstIsRunning /\ LoopFits /\ Ends /\ Order
  BY DEF ToldInv
<1>1. OnePublishes'
  BY DEF OnePublishes
<1>2. StateIsTold'
  <2>1. ASSUME NEW q \in Runs \ {r} PROVE StateAt(q)'
    BY <1>0 DEF StateIsTold, StateAt
  <2>. QED BY <2>1 DEF StateIsTold
<1>3. FirstIsRunning'
  <2>1. \A d \in Conns : req'[d].pc # "publishRunning"
    BY DEF Publisher
  <2>2. \A q \in Runs : kind'[q] = "chat" => log'[q] # <<>>
    BY <1>0 DEF FirstIsRunning
  <2>. QED BY <2>1, <2>2 DEF FirstIsRunning
<1>4. CancelFits'
  BY DEF CancelFits, Publisher
<1>5. LoopFits'
  BY DEF LoopFits, LoopFitsAt, Publishes
<1>6. Ends'
  <2>1. ASSUME NEW q \in Runs \ {r} PROVE EndAt(q)'
    BY <1>0 DEF Ends, EndAt, EndSent
  <2>. QED BY <2>1 DEF Ends
<1>7. Order'
  BY <1>0 DEF Order
<1>. QED BY <1>1, <1>2, <1>3, <1>4, <1>5, <1>6, <1>7 DEF ToldInv

\* What one more notification does to a log.
LEMMA OneMore ==
  ASSUME NEW l \in Seq(Told), NEW m \in Seq(Told), NEW v \in Told, Len(m) = Len(l) + 1,
         \A i \in 1 .. Len(l) : m[i] = l[i], m[Len(l) + 1] = v
  PROVE  /\ NoEnd(l) /\ v \notin Terminal => NoEnd(m)
         /\ NoCancel(l) /\ v # "cancelling" => NoCancel(m)
         /\ HasEnd(l) \/ v \in Terminal => HasEnd(m)
         /\ Ordered(l) /\ NoEnd(l) /\ (NoCancel(l) \/ v = "cancelled") /\ (l = <<>> => v = "running") => Ordered(m)
<1>1. Len(l) \in Nat /\ \A i \in 1 .. Len(m) : (i \in 1 .. Len(l) /\ m[i] = l[i]) \/ (i = Len(l) + 1 /\ m[i] = v)
  OBVIOUS
<1>2. NoEnd(l) /\ v \notin Terminal => NoEnd(m)
  BY <1>1 DEF NoEnd
<1>3. NoCancel(l) /\ v # "cancelling" => NoCancel(m)
  BY <1>1 DEF NoCancel
<1>4. HasEnd(l) \/ v \in Terminal => HasEnd(m)
  <2>1. Len(l) + 1 \in 1 .. Len(m) /\ \A i \in 1 .. Len(l) : i \in 1 .. Len(m)
    BY <1>1
  <2>. QED BY <2>1 DEF HasEnd
<1>5. ASSUME Ordered(l), NoEnd(l), NoCancel(l) \/ v = "cancelled", l = <<>> => v = "running"
      PROVE  Ordered(m)
  <2>1. m[1] = "running"
    <3>1. CASE l = <<>>
      BY <1>5, <3>1
    <3>2. CASE l # <<>>
      <4>1. 1 \in 1 .. Len(l)
        BY <3>2
      <4>. QED BY <1>5, <4>1 DEF Ordered
    <3>. QED BY <3>1, <3>2
  <2>2. \A i \in 1 .. Len(m) : m[i] \in Terminal => i = Len(m)
    BY <1>1, <1>5 DEF NoEnd
  <2>3. ASSUME NEW i \in 1 .. Len(m), m[i] = "cancelling", NEW j \in i + 1 .. Len(m)
        PROVE  m[j] = "cancelled"
    <3>1. i \in 1 .. Len(l) /\ l[i] = "cancelling"
      BY <1>1, <2>3
    <3>2. v = "cancelled"
      BY <1>5, <3>1 DEF NoCancel
    <3>3. CASE j = Len(l) + 1
      BY <3>2, <3>3
    <3>4. CASE j # Len(l) + 1
      <4>1. j \in i + 1 .. Len(l) /\ j \in 1 .. Len(l)
        BY <1>1, <3>1, <3>4
      <4>2. l[j] = "cancelled"
        BY <1>5, <3>1, <4>1 DEF Ordered
      <4>. QED BY <4>1, <4>2
    <3>. QED BY <3>3, <3>4
  <2>. QED BY <2>1, <2>2, <2>3 DEF Ordered
<1>. QED BY <1>2, <1>3, <1>4, <1>5

\* The first notification of a run.
LEMMA PublishRunningSafe ==
  ASSUME RunAssumption, IInv, NEW c \in Conns, PublishRunning(c)
  PROVE  IInv'
<1>0. WorkInv /\ AskInv /\ ToldInv /\ Types /\ Fresh /\ Kinds /\ Closed /\ Reserved /\ Open
  BY DEF IInv, WorkInv
<1>t. OnePublishes /\ StateIsTold /\ FirstIsRunning /\ Ends
  BY <1>0 DEF ToldInv
<1>1. /\ UNCHANGED <<clients, rt, kind, work, events, loop, pending, replies, ownerAway, starter, budget>>
      /\ req[c].pc = "publishRunning" /\ notify' = FALSE
  BY DEF PublishRunning, askVars, ghostVars, agentVars
<1>r. PICK r \in Runs : r = req[c].run
  BY <1>0, <1>1 DEF Fresh, Beginning
<1>2. /\ work[r].pc = "none" /\ loop[r].pc = "none" /\ events[r] = <<>> /\ kind[r] = "chat"
      /\ rt.runID = r /\ rt.status # "idle" /\ log[r] = <<>>
  BY <1>0, <1>1, <1>r, <1>t DEF Fresh, Reserved, Beginning, FirstIsRunning
<1>3. /\ req' \in [Conns -> Handling] /\ req'[c].pc = "startAgent" /\ req'[c].run = r
      /\ \A d \in Conns \ {c} : req'[d] = req[d]
  <2>1. Goto(c, "startAgent", r, 0)
    BY <1>r DEF PublishRunning
  <2>. QED BY <1>0, <2>1, GotoFacts DEF HandlingAt, Beginning
<1>4. /\ log' \in [Runs -> Seq(Told)] /\ \A q \in Runs \ {r} : log'[q] = log[q]
      /\ log'[r] # <<>> /\ Len(log'[r]) = Len(log[r]) + 1
      /\ \A i \in 1 .. Len(log[r]) : log'[r][i] = log[r][i]
      /\ log'[r][Len(log[r]) + 1] = "running"
  <2>1. Publish(r, "running") /\ "running" \in Told
    BY <1>r DEF PublishRunning, Told, States
  <2>. QED BY <1>0, <2>1, PublishFacts
<1>5. Types'
  BY <1>0, <1>1, <1>3, <1>4 DEF Types
<1>6. WorkInv'
  <2>1. Fresh'
    <3>1. \A q \in Runs : kind'[q] = "none" =>
            /\ work'[q].pc = "none" /\ loop'[q].pc = "none" /\ events'[q] = <<>> /\ log'[q] = <<>>
      BY <1>0, <1>1, <1>2, <1>4 DEF Fresh
    <3>2. ASSUME NEW d \in Conns, req'[d].pc \in Beginning
          PROVE  /\ req'[d].run \in Runs /\ work'[req'[d].run].pc = "none" /\ loop'[req'[d].run].pc = "none"
                 /\ events'[req'[d].run] = <<>>
                 /\ kind'[req'[d].run] = IF req'[d].pc = "startCompact" THEN "compact" ELSE "chat"
      <4>1. CASE d = c
        BY <1>1, <1>2, <1>3, <4>1
      <4>2. CASE d # c
        BY <1>0, <1>1, <1>3, <3>2, <4>2 DEF Fresh
      <4>. QED BY <4>1, <4>2
    <3>3. \A d \in Conns : req'[d].pc \in Beginning => req[d].pc \in Beginning /\ req'[d].run = req[d].run
      BY <1>1, <1>3, <1>r DEF Beginning
    <3>. QED BY <1>0, <3>1, <3>2, <3>3 DEF Fresh
  <2>2. Kinds' /\ Closed'
    BY <1>0, <1>1 DEF Kinds, KindAt, Closed, ClosedAt
  <2>3. Reserved' /\ Open'
    <3>1. \A d \in Conns : req'[d].pc \in Beginning => rt'.runID = req'[d].run /\ rt'.status # "idle"
      BY <1>0, <1>1, <1>2, <1>3 DEF Reserved
    <3>2. Open' /\ \A q \in Runs : ReservedAt(q)'
      BY <1>0, <1>1 DEF Open, Reserved, ReservedAt
    <3>. QED BY <1>0, <1>1, <3>1, <3>2 DEF Reserved
  <2>. QED BY <1>5, <2>1, <2>2, <2>3 DEF WorkInv
<1>7. AskInv'
  <2>1. Once' /\ (\A a \in Asks : Sent(a)' => Sent(a)) /\ (\A a \in Asks : Storing(a)' => Storing(a))
    BY <1>0, <1>1, OnceSame DEF AskInv
  <2>2. \A d \in Conns : req'[d] = req[d] \/ req'[d].pc \notin Replying
    BY <1>3 DEF Replying
  <2>. QED BY <1>0, <1>1, <2>1, <2>2, AskFrame
<1>8. ToldInv'
  <2>1. /\ \A d \in Conns \ {c} : ~Publisher(d)
        /\ \A q \in Runs : ~Publishes(q)
    BY <1>1, <1>t DEF OnePublishes, Publisher
  <2>2. \A d \in Conns : ~Publisher(d)'
    BY <1>3, <2>1 DEF Publisher
  <2>3. \A q \in Runs : ~Publishes(q)'
    BY <1>1, <2>1 DEF Publishes
  <2>4. \A d \in Conns : req[d].pc = "publishRunning" => req[d].run = r
    BY <1>r, <2>1 DEF Publisher
  <2>5. log[r] \in Seq(Told) /\ log'[r] \in Seq(Told) /\ "running" \in Told
    BY <1>0, <1>5 DEF Types, Told, States
  <2>6. NoEnd(log[r]) /\ NoCancel(log[r]) /\ Ordered(log[r]) /\ ~HasEnd(log[r])
    BY <1>2 DEF NoEnd, NoCancel, Ordered, HasEnd
  <2>7. NoEnd(log'[r]) /\ NoCancel(log'[r]) /\ Ordered(log'[r])
    BY <1>4, <2>5, <2>6, OneMore DEF Terminal
  <2>8. rt.runState \notin Terminal
    BY <1>2, <1>t, <2>1, <2>6 DEF StateIsTold, StateAt
  <2>9. StateAt(r)'
    BY <1>1, <2>7, <2>8 DEF StateAt
  <2>10. EndAt(r)'
    BY <1>1, <1>2 DEF EndAt, Ending
  <2>. QED BY <1>0, <1>1, <1>4, <2>1, <2>2, <2>3, <2>4, <2>7, <2>9, <2>10, PublishTold
<1>. QED BY <1>6, <1>7, <1>8 DEF IInv

\* agent.cancel takes the notification lock and marks the run.
LEMMA MarkCancellingSafe ==
  ASSUME RunAssumption, IInv, NEW c \in Conns, MarkCancelling(c)
  PROVE  IInv'
<1>0. WorkInv /\ AskInv /\ ToldInv /\ Types /\ Reserved
  BY DEF IInv, WorkInv
<1>t. OnePublishes /\ StateIsTold /\ FirstIsRunning /\ LoopFits /\ Ends /\ Order
  BY <1>0 DEF ToldInv
<1>1. /\ UNCHANGED <<clients, kind, work, events, loop, pending, replies, log, ownerAway, starter>>
      /\ rt' = [rt EXCEPT !.runState = "cancelling"] /\ notify' = TRUE /\ ~notify
      /\ rt.status # "idle" /\ rt.runID # NoRun /\ rt.runState \notin Terminal \cup {"cancelling"}
  BY DEF MarkCancelling, agentVars, askVars, LockNotify
<1>2. /\ budget' \in [requests : Nat, rounds : Nat, asks : 0 .. MaxAsks] /\ budget'.asks = budget.asks
      /\ req[c].pc = "ready"
  BY <1>0, RequestFacts DEF MarkCancelling
<1>3. PICK r \in Runs : r = rt.runID
  BY <1>0, <1>1 DEF Types, Session
<1>4. /\ req' \in [Conns -> Handling] /\ req'[c].pc = "publishCancelling" /\ req'[c].run = r
      /\ \A d \in Conns \ {c} : req'[d] = req[d]
  <2>1. Goto(c, "publishCancelling", r, 0)
    BY <1>3 DEF MarkCancelling
  <2>. QED BY <1>0, <2>1, GotoFacts DEF HandlingAt, Elsewhere
<1>5. rt' \in Session /\ rt'.runID = rt.runID /\ rt'.status = rt.status /\ rt'.runState = "cancelling"
  <2>1. rt \in Session /\ "cancelling" \in States
    BY <1>0 DEF Types, States
  <2>. QED BY <1>1, <2>1, SessionFacts
<1>6. Types'
  BY <1>0, <1>1, <1>2, <1>4, <1>5 DEF Types
<1>7. WorkInv'
  <2>. \A d \in Conns : req'[d] = req[d] \/ req'[d].pc \notin Beginning
    BY <1>4 DEF Beginning
  <2>. QED BY <1>0, <1>1, <1>5, <1>6, ClientWork
<1>8. AskInv'
  <2>1. Once' /\ (\A a \in Asks : Sent(a)' => Sent(a)) /\ (\A a \in Asks : Storing(a)' => Storing(a))
    BY <1>0, <1>1, OnceSame DEF AskInv
  <2>2. \A d \in Conns : req'[d] = req[d] \/ req'[d].pc \notin Replying
    BY <1>4 DEF Replying
  <2>. QED BY <1>0, <1>1, <1>2, <2>1, <2>2, AskFrame
<1>9. ToldInv'
  <2>1. /\ \A d \in Conns : ~Publisher(d)
        /\ \A q \in Runs : ~Publishes(q)
    BY <1>1, <1>t DEF OnePublishes
  <2>2. \A d \in Conns : Publisher(d)' => d = c
    BY <1>4, <2>1 DEF Publisher
  <2>3. \A q \in Runs : ~Publishes(q)'
    BY <1>1, <2>1 DEF Publishes
  <2>4. OnePublishes'
    BY <1>1, <2>2, <2>3 DEF OnePublishes
  <2>5. StateIsTold'
    <3>. SUFFICES ASSUME NEW q \in Runs, kind[q] = "chat", rt.runID = q
                  PROVE  NoEnd(log[q])
      BY <1>1, <1>5 DEF StateIsTold, StateAt, Terminal
    <3>. QED BY <1>1, <1>t DEF StateIsTold, StateAt
  <2>6. FirstIsRunning'
    <3>1. \A d \in Conns : req'[d].pc # "publishRunning" /\ req[d].pc # "publishRunning"
      BY <1>4, <2>1 DEF Publisher
    <3>. QED BY <1>1, <1>t, <3>1 DEF FirstIsRunning
  <2>7. CancelFits'
    <3>1. \A d \in Conns : req'[d].pc = "publishCancelling" => d = c
      BY <2>2 DEF Publisher
    <3>2. kind[r] # "none"
      BY <1>0, <1>3 DEF Reserved
    <3>3. kind[r] = "chat" => NoEnd(log[r]) /\ NoCancel(log[r])
      BY <1>1, <1>3, <1>t DEF StateIsTold, StateAt
    <3>. QED BY <1>1, <1>4, <1>5, <3>1, <3>2, <3>3 DEF CancelFits
  <2>8. LoopFits'
    BY <2>3 DEF LoopFits, LoopFitsAt, Publishes
  <2>9. Ends' /\ Order'
    BY <1>1, <1>t DEF Ends, EndAt, EndSent, Order
  <2>. QED BY <2>4, <2>5, <2>6, <2>7, <2>8, <2>9 DEF ToldInv
<1>. QED BY <1>7, <1>8, <1>9 DEF IInv

\* The notification of the cancel.
LEMMA PublishCancellingSafe ==
  ASSUME RunAssumption, IInv, NEW c \in Conns, PublishCancelling(c)
  PROVE  IInv'
<1>0. WorkInv /\ AskInv /\ ToldInv /\ Types
  BY DEF IInv, WorkInv
<1>t. OnePublishes /\ StateIsTold /\ FirstIsRunning /\ CancelFits /\ Ends /\ Order
  BY <1>0 DEF ToldInv
<1>1. /\ UNCHANGED <<clients, rt, kind, work, events, loop, pending, replies, ownerAway, starter, budget>>
      /\ req[c].pc = "publishCancelling" /\ notify' = FALSE
  BY DEF PublishCancelling, askVars, ghostVars, agentVars
<1>r. PICK r \in Runs : r = req[c].run
  BY <1>1, <1>t DEF CancelFits
<1>2. /\ rt.runID = r => rt.runState = "cancelling"
      /\ kind[r] # "none" /\ (kind[r] = "chat" => NoEnd(log[r]) /\ NoCancel(log[r]))
  BY <1>1, <1>r, <1>t DEF CancelFits
<1>3. /\ req' \in [Conns -> Handling] /\ req'[c].pc = "cancelAgent"
      /\ \A d \in Conns \ {c} : req'[d] = req[d]
  <2>1. Goto(c, "cancelAgent", r, 0)
    BY <1>r DEF PublishCancelling
  <2>. QED BY <1>0, <2>1, GotoFacts DEF HandlingAt, Elsewhere
<1>4. /\ log' \in [Runs -> Seq(Told)] /\ \A q \in Runs \ {r} : log'[q] = log[q]
      /\ log'[r] # <<>> /\ Len(log'[r]) = Len(log[r]) + 1
      /\ \A i \in 1 .. Len(log[r]) : log'[r][i] = log[r][i]
      /\ log'[r][Len(log[r]) + 1] = "cancelling"
  <2>1. Publish(r, "cancelling") /\ "cancelling" \in Told
    BY <1>r DEF PublishCancelling, Told, States
  <2>. QED BY <1>0, <2>1, PublishFacts
<1>5. Types'
  BY <1>0, <1>1, <1>3, <1>4 DEF Types
<1>6. WorkInv'
  <2>1. \A d \in Conns : req'[d] = req[d] \/ req'[d].pc \notin Beginning
    BY <1>3 DEF Beginning
  <2>2. \A q \in Runs : kind[q] = "none" => log'[q] = log[q]
    BY <1>2, <1>4
  <2>. QED BY <1>0, <1>1, <1>5, <2>1, <2>2, ClientWork
<1>7. AskInv'
  <2>1. Once' /\ (\A a \in Asks : Sent(a)' => Sent(a)) /\ (\A a \in Asks : Storing(a)' => Storing(a))
    BY <1>0, <1>1, OnceSame DEF AskInv
  <2>2. \A d \in Conns : req'[d] = req[d] \/ req'[d].pc \notin Replying
    BY <1>3 DEF Replying
  <2>. QED BY <1>0, <1>1, <2>1, <2>2, AskFrame
<1>8. ToldInv'
  <2>1. /\ \A d \in Conns \ {c} : ~Publisher(d)
        /\ \A q \in Runs : ~Publishes(q)
    BY <1>1, <1>t DEF OnePublishes, Publisher
  <2>2. \A d \in Conns : ~Publisher(d)'
    BY <1>3, <2>1 DEF Publisher
  <2>3. \A q \in Runs : ~Publishes(q)'
    BY <1>1, <2>1 DEF Publishes
  <2>4. \A d \in Conns : req[d].pc # "publishRunning"
    BY <1>1, <2>1 DEF Publisher
  <2>5. log[r] \in Seq(Told) /\ log'[r] \in Seq(Told) /\ "cancelling" \in Told
    BY <1>0, <1>5 DEF Types, Told, States
  <2>6. kind[r] = "chat" => NoEnd(log'[r]) /\ Ordered(log'[r])
    <3>1. kind[r] = "chat" => log[r] # <<>> /\ Ordered(log[r])
      BY <1>t, <2>4 DEF FirstIsRunning, Order
    <3>. QED BY <1>2, <1>4, <2>5, <3>1, OneMore DEF Terminal
  <2>7. StateAt(r)'
    BY <1>1, <1>2, <2>6 DEF StateAt, Terminal
  <2>8. EndAt(r)'
    <3>1. HasEnd(log[r]) => HasEnd(log'[r])
      BY <1>4, <2>5, OneMore
    <3>2. EndAt(r)
      BY <1>t DEF Ends
    <3>. QED BY <1>1, <3>1, <3>2 DEF EndAt, EndSent
  <2>. QED BY <1>0, <1>1, <1>4, <2>1, <2>2, <2>3, <2>4, <2>6, <2>7, <2>8, PublishTold
<1>. QED BY <1>6, <1>7, <1>8 DEF IInv

-----------------------------------------------------------------------------
(* The agent.                                                              *)

\* A manual compaction has no events and no lifecycle.
LEMMA CompactStep ==
  ASSUME RunAssumption, IInv, NEW r \in Runs, NEW pc \in Compacting \cup Worked \cup {"done"}, WorkTo(r, pc),
         kind[r] = "compact", work[r].pc \notin {"unlock", "done"},
         UNCHANGED <<clients, notify, kind, events, loop, pending, replies, ownerAway, starter, budget>>,
         req' \in [Conns -> Handling],
         \A d \in Conns : req'[d] = req[d] \/ (req'[d].pc = "ready" /\ req[d].pc # "publishRunning"),
         \A d \in Conns : req'[d].pc \in Beginning => req[d].run # r,
         log' \in [Runs -> Seq(Told)], \A q \in Runs \ {r} : log'[q] = log[q], log'[r] = <<>> => log[r] = <<>>,
         rt' \in Session, pc \in Compacting => rt'.runID = r /\ rt'.status # "idle",
         \/ rt'.runID = rt.runID /\ rt'.runState = rt.runState /\ (rt'.status = "idle" => rt.status = "idle")
         \/ rt.runID = r /\ rt'.runID = NoRun
  PROVE  IInv'
<1>0. WorkInv /\ AskInv /\ ToldInv /\ Types /\ Fresh /\ Kinds /\ Closed /\ Open /\ OnePublishes
  BY DEF IInv, WorkInv, ToldInv
<1>1. work' \in [Runs -> Agent] /\ work'[r].pc = pc /\ \A q \in Runs \ {r} : work'[q] = work[q]
  BY <1>0, WorkToFacts DEF AgentAt
<1>2. Types'
  BY <1>0, <1>1 DEF Types
<1>3. loop[r].pc = "none" /\ \A i \in 1 .. Len(events[r]) : events[r][i].type # "closed"
  BY <1>0 DEF Kinds, KindAt, Closed, ClosedAt
<1>4. WorkInv'
  <2>1. KindAt(r)'
    BY <1>1, <1>3 DEF KindAt, Chatting, Compacting, Worked
  <2>2. ClosedAt(r)'
    BY <1>3 DEF ClosedAt, Ending
  <2>3. ReservedAt(r)'
    BY <1>1, <1>3 DEF ReservedAt
  <2>4. Open'
    BY <1>0 DEF Open
  <2>. QED BY <1>0, <1>1, <1>2, <2>1, <2>2, <2>3, <2>4, RunWork
<1>5. AskInv'
  <2>1. Once' /\ (\A a \in Asks : Sent(a)' => Sent(a)) /\ (\A a \in Asks : Storing(a)' => Storing(a))
    BY <1>0, OnceSame DEF AskInv
  <2>2. \A d \in Conns : req'[d] = req[d] \/ req'[d].pc \notin Replying
    BY DEF Replying
  <2>. QED BY <1>0, <2>1, <2>2, AskFrame
<1>6. ToldInv'
  <2>1. OnePublishes'
    <3>1. \A q \in Runs : Publishes(q)' => Publishes(q)
      BY DEF Publishes
    <3>. QED BY <1>0, <3>1, SamePublishers
  <2>2. StateAt(r)'
    BY DEF StateAt
  <2>3. LoopFitsAt(r)'
    BY <1>3 DEF LoopFitsAt
  <2>4. EndAt(r)'
    BY <1>3 DEF EndAt, Ending
  <2>5. \A d \in Conns : req[d].pc = "publishRunning" => req[d].run # r
    BY <1>0 DEF Fresh, Beginning
  <2>. QED BY <1>0, <1>1, <2>1, <2>2, <2>3, <2>4, <2>5, RunTold
<1>. QED BY <1>4, <1>5, <1>6 DEF IInv

\* setStatus(compacting), and the goroutine runCompact.
LEMMA StartCompactSafe ==
  ASSUME RunAssumption, IInv, NEW c \in Conns, StartCompact(c)
  PROVE  IInv'
<1>0. WorkInv /\ Types /\ Fresh /\ Reserved
  BY DEF IInv, WorkInv
<1>1. /\ UNCHANGED <<clients, notify, kind, events, loop, pending, replies, log, ownerAway, starter, budget>>
      /\ req[c].pc = "startCompact" /\ rt' = [rt EXCEPT !.status = "compacting"]
  BY DEF StartCompact, askVars, ghostVars
<1>r. PICK r \in Runs : r = req[c].run
  BY <1>0, <1>1 DEF Fresh, Beginning
<1>2. work[r].pc = "none" /\ kind[r] = "compact" /\ rt.runID = r
  BY <1>0, <1>1, <1>r DEF Fresh, Reserved, Beginning
<1>3. req' \in [Conns -> Handling] /\ req'[c].pc = "ready" /\ \A d \in Conns \ {c} : req'[d] = req[d]
  BY <1>0, DoneFacts DEF StartCompact
<1>4. \A d \in Conns : req'[d].pc \in Beginning => req[d].run # r
  BY <1>0, <1>1, <1>3, <1>r DEF Fresh, Beginning
<1>5. rt' \in Session /\ rt'.runID = rt.runID /\ rt'.runState = rt.runState /\ rt'.status = "compacting"
  BY <1>0, <1>1, SessionFacts DEF Types
<1>6. WorkTo(r, "lock") /\ "lock" \in Compacting
  BY <1>r DEF StartCompact, Compacting
<1>7. log \in [Runs -> Seq(Told)]
  BY <1>0 DEF Types
<1>. QED BY <1>1, <1>2, <1>3, <1>4, <1>5, <1>6, <1>7, CompactStep

\* The goroutine of a compaction changes neither the connections nor the questions.
LEMMA CompactGoesOn ==
  ASSUME RunAssumption, IInv, NEW r \in Runs, NEW pc \in Compacting \cup Worked \cup {"done"}, WorkTo(r, pc),
         work[r].pc \in Compacting \cup Worked,
         UNCHANGED <<clients, notify, req, kind, events, loop, pending, replies, ownerAway, starter, budget>>,
         log' \in [Runs -> Seq(Told)], \A q \in Runs \ {r} : log'[q] = log[q], log'[r] = <<>> => log[r] = <<>>,
         \/ UNCHANGED rt /\ (pc \in Compacting => work[r].pc \in Compacting)
         \/ rt.runID = r /\ rt' = Idle /\ pc \notin Compacting
  PROVE  IInv'
<1>0. WorkInv /\ Types /\ Kinds /\ Reserved
  BY DEF IInv, WorkInv
<1>1. kind[r] = "compact" /\ work[r].pc \notin {"none", "unlock", "done"}
  BY <1>0 DEF Kinds, KindAt, Compacting, Worked
<1>2. \A d \in Conns : req[d].pc \in Beginning => req[d].run # r
  BY <1>0, <1>1, AtWork
<1>3. \A d \in Conns : req'[d] = req[d]
  OBVIOUS
<1>4. req' \in [Conns -> Handling] /\ rt \in Session
  BY <1>0 DEF Types
<1>5. CASE UNCHANGED rt /\ (pc \in Compacting => work[r].pc \in Compacting)
  <2>1. pc \in Compacting => rt'.runID = r /\ rt'.status # "idle"
    BY <1>0, <1>5 DEF Reserved, ReservedAt
  <2>. QED BY <1>1, <1>2, <1>3, <1>4, <1>5, <2>1, CompactStep
<1>6. CASE rt.runID = r /\ rt' = Idle /\ pc \notin Compacting
  <2>1. Idle \in Session /\ Idle.runID = NoRun
    BY DEF Idle, Session, States
  <2>. QED BY <1>1, <1>2, <1>3, <1>4, <1>6, <2>1, CompactStep
<1>. QED BY <1>5, <1>6

\* A compaction's goroutine moves on inside its work.
LEMMA CompactSame ==
  ASSUME RunAssumption, IInv, NEW r \in Runs, NEW pc \in Compacting, WorkTo(r, pc), work[r].pc \in Compacting,
         UNCHANGED <<clients, rt, notify, req, kind, events, loop, pending, replies, log, ownerAway, starter, budget>>
  PROVE  IInv'
<1>1. log \in [Runs -> Seq(Told)]
  BY DEF IInv, WorkInv, Types
<1>. QED BY <1>1, CompactGoesOn

\* Agent.Compact locks runMu, works and returns.
LEMMA CompactLockSafe ==
  ASSUME RunAssumption, IInv, NEW r \in Runs, CompactLock(r) PROVE IInv'
BY CompactSame DEF CompactLock, WorkAt, Compacting, sessionVars, askVars, ghostVars

\* Agent.Compact returns and unlocks runMu.
LEMMA CompactReturnsSafe ==
  ASSUME RunAssumption, IInv, NEW r \in Runs, NEW result \in {"compact_done", "compact_error"}, CompactReturns(r, result)
  PROVE  IInv'
BY CompactSame DEF CompactReturns, WorkAt, Compacting, sessionVars, askVars, ghostVars

\* setStatusIfCurrentRun(idle) gives the session back, once.
LEMMA CompactIdleSafe ==
  ASSUME RunAssumption, IInv, NEW r \in Runs, CompactIdle(r)
  PROVE  IInv'
<1>1. /\ UNCHANGED <<clients, notify, req, kind, events, loop, pending, replies, log, ownerAway, starter, budget>>
      /\ work[r].pc \in Compacting
      /\ rt' = IF rt.runID = r THEN Idle ELSE rt
  BY DEF CompactIdle, Compacting, askVars, ghostVars
<1>2. PICK pc \in Worked : WorkTo(r, pc)
  BY DEF CompactIdle, Worked
<1>3. pc \notin Compacting
  BY DEF Worked, Compacting
<1>4. log \in [Runs -> Seq(Told)]
  BY DEF IInv, WorkInv, Types
<1>. QED BY <1>1, <1>2, <1>3, <1>4, CompactGoesOn

\* The result is told after the session was given back.
LEMMA CompactReportSafe ==
  ASSUME RunAssumption, IInv, NEW r \in Runs, CompactReport(r)
  PROVE  IInv'
<1>1. /\ UNCHANGED <<clients, rt, notify, req, kind, events, loop, pending, replies, ownerAway, starter, budget>>
      /\ work[r].pc \in Worked /\ WorkTo(r, "done")
  BY DEF CompactReport, Worked, sessionVars, askVars, ghostVars
<1>2. PICK v \in Told : Publish(r, v)
  BY DEF CompactReport, Told
<1>3. log' \in [Runs -> Seq(Told)] /\ \A q \in Runs \ {r} : log'[q] = log[q] /\ log'[r] # <<>>
  BY <1>2, PublishFacts DEF IInv, WorkInv
<1>4. log'[r] # <<>>
  BY <1>2, PublishFacts DEF IInv, WorkInv
<1>5. "done" \notin Compacting
  BY DEF Compacting
<1>. QED BY <1>1, <1>3, <1>4, <1>5, CompactGoesOn

\* The goroutine of a chat run goes on, and may send an event that is neither a
\* question nor the channel's end.
LEMMA AgentStep ==
  ASSUME RunAssumption, IInv, NEW r \in Runs, NEW pc \in Chatting, WorkTo(r, pc), WorkUnchanged,
         work[r].pc \in Chatting \ {"finish"},
         budget' \in [requests : Nat, rounds : Nat, asks : 0 .. MaxAsks], budget'.asks = budget.asks,
         \/ UNCHANGED events /\ pc # "finish"
         \/ \E type \in EventTypes \ {"ask", "closed"} :
              Emit(r, type, 0) /\ (pc = "finish" => type \in Terminal)
  PROVE  IInv'
<1>0. WorkInv /\ AskInv /\ ToldInv /\ Types /\ Fresh /\ Kinds /\ Closed /\ Reserved /\ Open
  BY DEF IInv, WorkInv
<1>t. OnePublishes /\ StateIsTold /\ LoopFits /\ Ends /\ Order
  BY <1>0 DEF ToldInv
<1>1. UNCHANGED <<clients, rt, notify, req, kind, loop, pending, replies, log, ownerAway, starter>>
  BY DEF WorkUnchanged, sessionVars, askVars, ghostVars
<1>2. work' \in [Runs -> Agent] /\ work'[r].pc = pc /\ \A q \in Runs \ {r} : work'[q] = work[q]
  BY <1>0, WorkToFacts DEF AgentAt
<1>3. kind[r] = "chat" /\ loop[r].pc # "none" /\ work[r].pc \notin {"none", "unlock", "done"}
  BY <1>0 DEF Kinds, KindAt, Chatting
<1>4. loop[r].pc \notin Ending \cup {"publishEnd"} /\ \A i \in 1 .. Len(events[r]) : events[r][i].type # "closed"
  BY <1>0, <1>3 DEF Closed, ClosedAt
<1>5. /\ events' \in [Runs -> Seq(Event)] /\ \A q \in Runs \ {r} : events'[q] = events[q]
      /\ \A i \in 1 .. Len(events'[r]) : events'[r][i].type # "closed"
      /\ pc = "finish" => EndSent(r)'
      /\ Once' /\ (\A a \in Asks : Sent(a)' => Sent(a)) /\ (\A a \in Asks : Storing(a)' => Storing(a))
  <2>1. CASE UNCHANGED events /\ pc # "finish"
    <3>1. events' \in [Runs -> Seq(Event)]
      BY <1>0, <2>1 DEF Types
    <3>2. Once' /\ (\A a \in Asks : Sent(a)' => Sent(a)) /\ (\A a \in Asks : Storing(a)' => Storing(a))
      BY <1>0, <1>1, <2>1, OnceSame DEF AskInv
    <3>. QED BY <1>4, <2>1, <3>1, <3>2
  <2>2. CASE \E type \in EventTypes \ {"ask", "closed"} : Emit(r, type, 0) /\ (pc = "finish" => type \in Terminal)
    <3>0. PICK type \in EventTypes \ {"ask", "closed"} : Emit(r, type, 0) /\ (pc = "finish" => type \in Terminal)
      BY <2>2
    <3>. DEFINE e == [type |-> type, ask |-> 0]
    <3>1. e \in Event /\ e.type = type /\ events' = [events EXCEPT ![r] = Append(@, e)]
      BY <3>0 DEF Event, Emit
    <3>. HIDE DEF e
    <3>2. /\ events' \in [Runs -> Seq(Event)] /\ \A q \in Runs \ {r} : events'[q] = events[q]
          /\ Len(events'[r]) = Len(events[r]) + 1 /\ Len(events[r]) \in Nat
          /\ \A i \in 1 .. Len(events[r]) : events'[r][i] = events[r][i]
          /\ events'[r][Len(events[r]) + 1] = e
      BY <1>0, <3>1, SendFacts
    <3>3. Once' /\ (\A a \in Asks : Sent(a)' => Sent(a)) /\ (\A a \in Asks : Storing(a)' => Storing(a))
      BY <1>0, <1>1, <3>1, OnceSend DEF AskInv
    <3>4. ASSUME NEW i \in 1 .. Len(events'[r]) PROVE events'[r][i].type # "closed"
      <4>1. i \in 1 .. Len(events[r]) \/ i = Len(events[r]) + 1
        BY <3>2
      <4>. QED BY <1>4, <3>1, <3>2, <4>1
    <3>5. ASSUME pc = "finish" PROVE EndSent(r)'
      <4>1. Len(events[r]) + 1 \in 1 .. Len(events'[r]) /\ events'[r][Len(events[r]) + 1].type \in Terminal
        BY <3>0, <3>1, <3>2, <3>5
      <4>. QED BY <4>1 DEF EndSent
    <3>. QED BY <3>2, <3>3, <3>4, <3>5
  <2>. QED BY <2>1, <2>2
<1>6. Types'
  BY <1>0, <1>1, <1>2, <1>5 DEF Types
<1>7. \A d \in Conns : req[d].pc \in Beginning => req[d].run # r
  BY <1>0, <1>3, AtWork
<1>8. WorkInv'
  <2>1. KindAt(r)'
    BY <1>1, <1>2, <1>3 DEF KindAt, Chatting, Compacting, Worked
  <2>2. ClosedAt(r)'
    BY <1>1, <1>4, <1>5 DEF ClosedAt
  <2>3. ReservedAt(r)'
    BY <1>0, <1>1, <1>2 DEF Reserved, ReservedAt, Chatting, Compacting
  <2>4. Open'
    BY <1>0, <1>1 DEF Open
  <2>. QED BY <1>0, <1>1, <1>2, <1>3, <1>5, <1>6, <1>7, <2>1, <2>2, <2>3, <2>4, RunWork
<1>9. AskInv'
  BY <1>0, <1>1, <1>5, AskFrame
<1>10. ToldInv'
  <2>1. OnePublishes'
    <3>1. \A q \in Runs : Publishes(q)' => Publishes(q)
      BY <1>1 DEF Publishes
    <3>. QED BY <1>1, <1>t, <3>1, SamePublishers
  <2>2. StateAt(r)' /\ LoopFitsAt(r)'
    BY <1>1, <1>t DEF StateIsTold, StateAt, Publishes, LoopFits, LoopFitsAt
  <2>3. EndAt(r)'
    BY <1>1, <1>2, <1>4, <1>5 DEF EndAt, Chatting
  <2>4. Ordered(log'[r])
    BY <1>1, <1>3, <1>t DEF Order
  <2>5. \A d \in Conns : req[d].pc = "publishRunning" => req[d].run # r
    BY <1>7 DEF Beginning
  <2>. QED BY <1>0, <1>1, <1>2, <1>3, <1>5, <2>1, <2>2, <2>3, <2>4, <2>5, RunTold
<1>. QED BY <1>8, <1>9, <1>10 DEF IInv

\* The budget stays as it is.
LEMMA BudgetKept ==
  ASSUME Types, UNCHANGED budget
  PROVE  budget' \in [requests : Nat, rounds : Nat, asks : 0 .. MaxAsks] /\ budget'.asks = budget.asks
BY DEF Types

\* The runner's steps: the model, automatic compactions, retries, tools and the end.
LEMMA CallModelSafe ==
  ASSUME RunAssumption, IInv, NEW r \in Runs, CallModel(r) PROVE IInv'
<1>1. Types /\ "waitingLLM" \in EventTypes \ {"ask", "closed"} /\ "llm" \in Chatting
  BY DEF IInv, WorkInv, EventTypes, Chatting
<1>2. budget' \in [requests : Nat, rounds : Nat, asks : 0 .. MaxAsks] /\ budget'.asks = budget.asks
  BY <1>1, BudgetKept, RoundFacts DEF CallModel
<1>3. work[r].pc \in Chatting \ {"finish"}
  BY DEF CallModel, WorkAt, Chatting
<1>. QED BY <1>1, <1>2, <1>3, AgentStep DEF CallModel

\* The runner announces an automatic compaction.
LEMMA AutoCompactSafe ==
  ASSUME RunAssumption, IInv, NEW r \in Runs, AutoCompact(r) PROVE IInv'
<1>1. Types /\ "compactRunning" \in EventTypes \ {"ask", "closed"} /\ "squeeze" \in Chatting
  BY DEF IInv, WorkInv, EventTypes, Chatting
<1>2. budget' \in [requests : Nat, rounds : Nat, asks : 0 .. MaxAsks] /\ budget'.asks = budget.asks
  BY <1>1, RoundFacts DEF AutoCompact
<1>3. work[r].pc \in Chatting \ {"finish"}
  BY DEF AutoCompact, WorkAt, Chatting
<1>. QED BY <1>1, <1>2, <1>3, AgentStep DEF AutoCompact

\* The automatic compaction has made room.
LEMMA AutoCompactDoneSafe ==
  ASSUME RunAssumption, IInv, NEW r \in Runs, AutoCompactDone(r) PROVE IInv'
<1>1. Types /\ "compactDone" \in EventTypes \ {"ask", "closed"} /\ "compacted" \in Chatting
  BY DEF IInv, WorkInv, EventTypes, Chatting
<1>2. budget' \in [requests : Nat, rounds : Nat, asks : 0 .. MaxAsks] /\ budget'.asks = budget.asks
  BY <1>1, BudgetKept DEF AutoCompactDone
<1>3. work[r].pc \in Chatting \ {"finish"}
  BY DEF AutoCompactDone, WorkAt, Chatting
<1>. QED BY <1>1, <1>2, <1>3, AgentStep DEF AutoCompactDone

\* The automatic compaction failed, or did not help.
LEMMA AutoCompactErrorSafe ==
  ASSUME RunAssumption, IInv, NEW r \in Runs, AutoCompactError(r) PROVE IInv'
<1>1. Types /\ "compactError" \in EventTypes \ {"ask", "closed"} /\ "failing" \in Chatting
  BY DEF IInv, WorkInv, EventTypes, Chatting
<1>2. budget' \in [requests : Nat, rounds : Nat, asks : 0 .. MaxAsks] /\ budget'.asks = budget.asks
  BY <1>1, BudgetKept DEF AutoCompactError
<1>3. work[r].pc \in Chatting \ {"finish"}
  BY DEF AutoCompactError, Chatting
<1>. QED BY <1>1, <1>2, <1>3, AgentStep DEF AutoCompactError

\* completeWithRecovery announces a retry.
LEMMA RetrySafe ==
  ASSUME RunAssumption, IInv, NEW r \in Runs, Retry(r) PROVE IInv'
<1>1. Types /\ "retrying" \in EventTypes \ {"ask", "closed"} /\ "backoff" \in Chatting
  BY DEF IInv, WorkInv, EventTypes, Chatting
<1>2. budget' \in [requests : Nat, rounds : Nat, asks : 0 .. MaxAsks] /\ budget'.asks = budget.asks
  BY <1>1, RoundFacts DEF Retry
<1>3. work[r].pc \in Chatting \ {"finish"}
  BY DEF Retry, WorkAt, Chatting
<1>. QED BY <1>1, <1>2, <1>3, AgentStep DEF Retry

\* The request is sent again after the delay.
LEMMA RetryNowSafe ==
  ASSUME RunAssumption, IInv, NEW r \in Runs, RetryNow(r) PROVE IInv'
<1>1. Types /\ "waitingLLM" \in EventTypes \ {"ask", "closed"} /\ "llm" \in Chatting
  BY DEF IInv, WorkInv, EventTypes, Chatting
<1>2. budget' \in [requests : Nat, rounds : Nat, asks : 0 .. MaxAsks] /\ budget'.asks = budget.asks
  BY <1>1, BudgetKept DEF RetryNow
<1>3. work[r].pc \in Chatting \ {"finish"}
  BY DEF RetryNow, WorkAt, Chatting
<1>. QED BY <1>1, <1>2, <1>3, AgentStep DEF RetryNow

\* The model asks for tools.
LEMMA CallToolsSafe ==
  ASSUME RunAssumption, IInv, NEW r \in Runs, CallTools(r) PROVE IInv'
<1>1. Types /\ "tools" \in Chatting
  BY DEF IInv, WorkInv, Chatting
<1>2. budget' \in [requests : Nat, rounds : Nat, asks : 0 .. MaxAsks] /\ budget'.asks = budget.asks
  BY <1>1, BudgetKept DEF CallTools
<1>3. work[r].pc \in Chatting \ {"finish"}
  BY DEF CallTools, WorkAt, Chatting
<1>. QED BY <1>1, <1>2, <1>3, AgentStep DEF CallTools

\* All tools have returned.
LEMMA ToolsDoneSafe ==
  ASSUME RunAssumption, IInv, NEW r \in Runs, ToolsDone(r) PROVE IInv'
<1>1. Types /\ "top" \in Chatting
  BY DEF IInv, WorkInv, Chatting
<1>2. budget' \in [requests : Nat, rounds : Nat, asks : 0 .. MaxAsks] /\ budget'.asks = budget.asks
  BY <1>1, BudgetKept DEF ToolsDone
<1>3. work[r].pc \in Chatting \ {"finish"}
  BY DEF ToolsDone, WorkAt, Chatting
<1>. QED BY <1>1, <1>2, <1>3, AgentStep DEF ToolsDone

\* The model answers without tools, and the run is done.
LEMMA AnswerSafe ==
  ASSUME RunAssumption, IInv, NEW r \in Runs, Answer(r) PROVE IInv'
<1>1. Types /\ "done" \in EventTypes \ {"ask", "closed"} /\ "finish" \in Chatting /\ "done" \in Terminal
  BY DEF IInv, WorkInv, EventTypes, Chatting, Terminal
<1>2. budget' \in [requests : Nat, rounds : Nat, asks : 0 .. MaxAsks] /\ budget'.asks = budget.asks
  BY <1>1, BudgetKept DEF Answer
<1>3. work[r].pc \in Chatting \ {"finish"}
  BY DEF Answer, WorkAt, Chatting
<1>. QED BY <1>1, <1>2, <1>3, AgentStep DEF Answer

\* The runner returns an error, and the run has failed or is cancelled.
LEMMA FailSafe ==
  ASSUME RunAssumption, IInv, NEW r \in Runs, Fail(r) PROVE IInv'
<1>1. Types /\ {"failed", "cancelled"} \subseteq EventTypes \ {"ask", "closed"} /\ "finish" \in Chatting
      /\ {"failed", "cancelled"} \subseteq Terminal
  BY DEF IInv, WorkInv, EventTypes, Chatting, Terminal
<1>2. budget' \in [requests : Nat, rounds : Nat, asks : 0 .. MaxAsks] /\ budget'.asks = budget.asks
  BY <1>1, BudgetKept DEF Fail
<1>3. work[r].pc \in Chatting \ {"finish"}
  BY DEF Fail, WorkAt, Chatting
<1>4. PICK type \in {"failed", "cancelled"} : Emit(r, type, 0)
  BY DEF Fail
<1>5. WorkTo(r, "finish") /\ WorkUnchanged
  BY DEF Fail
<1>. QED BY <1>1, <1>2, <1>3, <1>4, <1>5, AgentStep

\* A tool that goes on changes nothing that clients or questions depend on.
LEMMA AnsweredSafe ==
  ASSUME RunAssumption, IInv, NEW r \in Runs, NEW a \in Asks, Answered(r, a) PROVE IInv'
<1>0. WorkInv /\ AskInv /\ ToldInv /\ Types /\ Fresh /\ Kinds /\ Closed /\ Reserved /\ Open
  BY DEF IInv, WorkInv
<1>t. OnePublishes /\ StateIsTold /\ FirstIsRunning /\ CancelFits /\ LoopFits /\ Ends /\ Order
  BY <1>0 DEF ToldInv
<1>1. UNCHANGED <<clients, rt, notify, req, kind, events, loop, pending, replies, log, ownerAway, starter, budget>>
  BY DEF Answered, WorkUnchanged, sessionVars, askVars, ghostVars
<1>2. work' \in [Runs -> Agent] /\ \A q \in Runs : work'[q].pc = work[q].pc
  <2>1. work \in [Runs -> Agent] /\ work[r] \in Agent
    BY <1>0 DEF Types
  <2>2. work' = [work EXCEPT ![r] = [work[r] EXCEPT !.open = work[r].open \ {a}]]
    BY <2>1 DEF Answered
  <2>3. [work[r] EXCEPT !.open = work[r].open \ {a}] \in Agent
        /\ [work[r] EXCEPT !.open = work[r].open \ {a}].pc = work[r].pc
    BY <2>1 DEF Agent
  <2>. QED BY <2>1, <2>2, <2>3
<1>3. WorkInv'
  <2>1. Types'
    BY <1>0, <1>1, <1>2 DEF Types
  <2>2. Fresh'
    BY <1>0, <1>1, <1>2 DEF Fresh
  <2>3. Kinds' /\ Closed'
    BY <1>0, <1>1, <1>2 DEF Kinds, KindAt, Closed, ClosedAt
  <2>4. Reserved' /\ Open'
    BY <1>0, <1>1, <1>2 DEF Reserved, ReservedAt, Open
  <2>. QED BY <2>1, <2>2, <2>3, <2>4 DEF WorkInv
<1>4. AskInv'
  <2>1. Once' /\ (\A b \in Asks : Sent(b)' => Sent(b)) /\ (\A b \in Asks : Storing(b)' => Storing(b))
    BY <1>0, <1>1, OnceSame DEF AskInv
  <2>. QED BY <1>0, <1>1, <2>1, AskFrame
<1>5. ToldInv'
  <2>1. OnePublishes' /\ StateIsTold' /\ LoopFits' /\ Order'
    BY <1>1, <1>t DEF OnePublishes, Publisher, Publishes, StateIsTold, StateAt, LoopFits, LoopFitsAt, Order
  <2>2. FirstIsRunning' /\ CancelFits'
    BY <1>1, <1>t DEF FirstIsRunning, CancelFits
  <2>3. Ends'
    BY <1>1, <1>2, <1>t DEF Ends, EndAt, EndSent
  <2>. QED BY <2>1, <2>2, <2>3 DEF ToldInv
<1>. QED BY <1>3, <1>4, <1>5 DEF IInv

\* finishRun closes the channel after the last event, and then unlocks runMu.
LEMMA FinishRunSafe ==
  ASSUME RunAssumption, IInv, NEW r \in Runs, FinishRun(r) PROVE IInv'
<1>0. WorkInv /\ AskInv /\ ToldInv /\ Types /\ Fresh /\ Kinds /\ Closed /\ Reserved /\ Open
  BY DEF IInv, WorkInv
<1>t. OnePublishes /\ StateIsTold /\ LoopFits /\ Ends /\ Order
  BY <1>0 DEF ToldInv
<1>1. /\ UNCHANGED <<clients, rt, notify, req, kind, loop, pending, replies, log, ownerAway, starter, budget>>
      /\ work[r].pc = "finish"
  BY DEF FinishRun, WorkAt, sessionVars, askVars, ghostVars
<1>2. work' \in [Runs -> Agent] /\ work'[r].pc = "unlock" /\ \A q \in Runs \ {r} : work'[q] = work[q]
  BY <1>0, WorkToFacts DEF FinishRun, AgentAt
<1>3. kind[r] = "chat" /\ loop[r].pc # "none"
  BY <1>0, <1>1 DEF Kinds, KindAt, Chatting
<1>4. loop[r].pc \notin Ending \cup {"publishEnd"} /\ \A i \in 1 .. Len(events[r]) : events[r][i].type # "closed"
  BY <1>0, <1>1 DEF Closed, ClosedAt
<1>. DEFINE e == [type |-> "closed", ask |-> 0]
<1>5. e \in Event /\ e.type = "closed" /\ events' = [events EXCEPT ![r] = Append(@, e)]
  BY DEF Event, EventTypes, FinishRun
<1>. HIDE DEF e
<1>6. /\ events' \in [Runs -> Seq(Event)] /\ \A q \in Runs \ {r} : events'[q] = events[q]
      /\ Len(events'[r]) = Len(events[r]) + 1 /\ Len(events[r]) \in Nat
      /\ \A i \in 1 .. Len(events[r]) : events'[r][i] = events[r][i]
      /\ events'[r][Len(events[r]) + 1] = e
  BY <1>0, <1>5, SendFacts
<1>7. Types'
  BY <1>0, <1>1, <1>2, <1>6 DEF Types
<1>8. \A d \in Conns : req[d].pc \in Beginning => req[d].run # r
  BY <1>0, <1>1, AtWork
<1>9. WorkInv'
  <2>1. KindAt(r)'
    BY <1>1, <1>2, <1>3 DEF KindAt, Chatting, Compacting, Worked
  <2>2. ClosedAt(r)'
    BY <1>2 DEF ClosedAt
  <2>3. ReservedAt(r)'
    BY <1>0, <1>1, <1>2 DEF Reserved, ReservedAt, Compacting
  <2>4. Open'
    BY <1>0, <1>1 DEF Open
  <2>. QED BY <1>0, <1>1, <1>2, <1>3, <1>6, <1>7, <1>8, <2>1, <2>2, <2>3, <2>4, RunWork
<1>10. AskInv'
  <2>1. Once' /\ (\A b \in Asks : Sent(b)' => Sent(b)) /\ (\A b \in Asks : Storing(b)' => Storing(b))
    BY <1>0, <1>1, <1>5, OnceSend DEF AskInv
  <2>. QED BY <1>0, <1>1, <2>1, AskFrame
<1>11. ToldInv'
  <2>1. OnePublishes'
    <3>1. \A q \in Runs : Publishes(q)' => Publishes(q)
      BY <1>1 DEF Publishes
    <3>. QED BY <1>1, <1>t, <3>1, SamePublishers
  <2>2. StateAt(r)' /\ LoopFitsAt(r)'
    BY <1>1, <1>t DEF StateIsTold, StateAt, Publishes, LoopFits, LoopFitsAt
  <2>3. EndAt(r)'
    <3>1. \A i \in 1 .. Len(events'[r]) : events'[r][i].type = "closed" => i = Len(events'[r])
      <4>. TAKE i \in 1 .. Len(events'[r])
      <4>1. i \in 1 .. Len(events[r]) \/ i = Len(events'[r])
        BY <1>6
      <4>. QED BY <1>4, <1>6, <4>1
    <3>2. EndSent(r) => EndSent(r)'
      <4>1. \A i \in 1 .. Len(events[r]) : i \in 1 .. Len(events'[r]) /\ events'[r][i] = events[r][i]
        BY <1>6
      <4>. QED BY <4>1 DEF EndSent
    <3>3. EndAt(r)
      BY <1>t DEF Ends
    <3>. QED BY <1>1, <1>2, <1>4, <3>1, <3>2, <3>3 DEF EndAt
  <2>4. Ordered(log'[r])
    BY <1>1, <1>3, <1>t DEF Order
  <2>5. \A d \in Conns : req[d].pc = "publishRunning" => req[d].run # r
    BY <1>8 DEF Beginning
  <2>. QED BY <1>0, <1>1, <1>2, <1>3, <1>6, <2>1, <2>2, <2>3, <2>4, <2>5, RunTold
<1>. QED BY <1>9, <1>10, <1>11 DEF IInv

\* finishRun unlocks runMu when the channel is closed.
LEMMA UnlockRunSafe ==
  ASSUME RunAssumption, IInv, NEW r \in Runs, UnlockRun(r) PROVE IInv'
<1>0. WorkInv /\ AskInv /\ ToldInv /\ Types /\ Fresh /\ Kinds /\ Closed /\ Reserved /\ Open
  BY DEF IInv, WorkInv
<1>t. OnePublishes /\ StateIsTold /\ LoopFits /\ Ends /\ Order
  BY <1>0 DEF ToldInv
<1>1. /\ UNCHANGED <<clients, rt, notify, req, kind, events, loop, pending, replies, log, ownerAway, starter, budget>>
      /\ work[r].pc = "unlock"
  BY DEF UnlockRun, WorkAt, sessionVars, askVars, ghostVars
<1>2. work' \in [Runs -> Agent] /\ work'[r].pc = "done" /\ \A q \in Runs \ {r} : work'[q] = work[q]
  BY <1>0, WorkToFacts DEF UnlockRun, AgentAt
<1>3. kind[r] # "none" /\ \A d \in Conns : req[d].pc \in Beginning => req[d].run # r
  BY <1>0, <1>1, AtWork
<1>4. Types'
  BY <1>0, <1>1, <1>2 DEF Types
<1>5. WorkInv'
  <2>1. KindAt(r)'
    BY <1>0, <1>1, <1>2 DEF Kinds, KindAt, Chatting, Compacting, Worked
  <2>2. ClosedAt(r)'
    BY <1>2 DEF ClosedAt
  <2>3. ReservedAt(r)'
    BY <1>0, <1>1, <1>2 DEF Reserved, ReservedAt, Compacting
  <2>4. Open'
    BY <1>0, <1>1 DEF Open
  <2>. QED BY <1>0, <1>1, <1>2, <1>3, <1>4, <2>1, <2>2, <2>3, <2>4, RunWork
<1>6. AskInv'
  <2>1. Once' /\ (\A b \in Asks : Sent(b)' => Sent(b)) /\ (\A b \in Asks : Storing(b)' => Storing(b))
    BY <1>0, <1>1, OnceSame DEF AskInv
  <2>. QED BY <1>0, <1>1, <2>1, AskFrame
<1>7. ToldInv'
  <2>1. OnePublishes'
    <3>1. \A q \in Runs : Publishes(q)' => Publishes(q)
      BY <1>1 DEF Publishes
    <3>. QED BY <1>1, <1>t, <3>1, SamePublishers
  <2>2. StateAt(r)' /\ LoopFitsAt(r)'
    BY <1>1, <1>t DEF StateIsTold, StateAt, Publishes, LoopFits, LoopFitsAt
  <2>3. EndAt(r)'
    BY <1>1, <1>2, <1>t DEF Ends, EndAt, EndSent
  <2>4. kind[r] = "chat" => Ordered(log'[r])
    BY <1>1, <1>t DEF Order
  <2>5. \A d \in Conns : req[d].pc = "publishRunning" => req[d].run # r
    BY <1>3 DEF Beginning
  <2>. QED BY <1>0, <1>1, <1>2, <1>3, <2>1, <2>2, <2>3, <2>4, <2>5, RunTold
<1>. QED BY <1>5, <1>6, <1>7 DEF IInv

\* A tool asks a question that nobody has asked before.
LEMMA AskKeeps ==
  ASSUME RunAssumption, IInv, NEW r \in Runs, Ask(r), NEW a \in Asks, a = NewAsk,
         UNCHANGED <<clients, req, kind, loop, pending, replies, ownerAway, starter>>,
         ~Issued(a), \A b \in Asks : Issued(b)' <=> Issued(b) \/ b = a,
         \A q \in Runs \ {r} : events'[q] = events[q],
         Len(events'[r]) = Len(events[r]) + 1, Len(events[r]) \in Nat,
         \A i \in 1 .. Len(events[r]) : events'[r][i] = events[r][i],
         events'[r][Len(events[r]) + 1] = [type |-> "ask", ask |-> a]
  PROVE  AskInv'
<1>0. AskInv /\ Once /\ Stages /\ Replies /\ OwnerAnswers
  BY DEF IInv, AskInv
<1>1. ~Sent(a) /\ ~Storing(a) /\ ~IsOpen(a) /\ replies[a] = <<>>
  BY <1>0 DEF Stages
<1>2. \A q \in Runs : \A i \in 1 .. Len(events'[q]) :
        \/ i \in 1 .. Len(events[q]) /\ events'[q][i] = events[q][i]
        \/ q = r /\ i = Len(events[r]) + 1 /\ events'[q][i] = [type |-> "ask", ask |-> a]
  <2>. TAKE q \in Runs
  <2>. TAKE i \in 1 .. Len(events'[q])
  <2>1. CASE q # r
    BY <2>1
  <2>2. CASE q = r
    <3>1. i \in 1 .. Len(events[r]) \/ i = Len(events[r]) + 1
      BY <2>2
    <3>. QED BY <2>2, <3>1
  <2>. QED BY <2>1, <2>2
<1>3. \A q \in Runs : \A i \in 1 .. Len(events[q]) : ~(events[q][i].type = "ask" /\ events[q][i].ask = a)
  BY <1>1 DEF Sent
<1>4. Once'
  <2>1. \A p, q \in Runs : \A i \in 1 .. Len(events'[p]), j \in 1 .. Len(events'[q]) :
       events'[p][i].type = "ask" /\ events'[q][j].type = "ask" /\ events'[p][i].ask = events'[q][j].ask
         => p = q /\ i = j
    <3>. SUFFICES ASSUME NEW p \in Runs, NEW q \in Runs,
                        NEW i \in 1 .. Len(events'[p]), NEW j \in 1 .. Len(events'[q]),
                        events'[p][i].type = "ask", events'[q][j].type = "ask",
                        events'[p][i].ask = events'[q][j].ask
                 PROVE  p = q /\ i = j
      OBVIOUS
    <3>1. \/ i \in 1 .. Len(events[p]) /\ events'[p][i] = events[p][i]
          \/ p = r /\ i = Len(events[r]) + 1 /\ events'[p][i].ask = a
      BY <1>2
    <3>2. \/ j \in 1 .. Len(events[q]) /\ events'[q][j] = events[q][j]
          \/ q = r /\ j = Len(events[r]) + 1 /\ events'[q][j].ask = a
      BY <1>2
    <3>3. CASE i \in 1 .. Len(events[p]) /\ events'[p][i] = events[p][i]
      <4>1. events'[p][i].ask # a
        BY <1>3, <3>3
      <4>2. j \in 1 .. Len(events[q]) /\ events'[q][j] = events[q][j]
        BY <3>2, <4>1
      <4>. QED BY <1>0, <3>3, <4>2 DEF Once
    <3>4. CASE p = r /\ i = Len(events[r]) + 1 /\ events'[p][i].ask = a
      <4>1. q = r /\ j = Len(events[r]) + 1
        BY <1>3, <3>2, <3>4
      <4>. QED BY <3>4, <4>1
    <3>. QED BY <3>1, <3>3, <3>4
  <2>2. \A q \in Runs : \A i \in 1 .. Len(events'[q]) : events'[q][i].type = "ask" => events'[q][i].ask \in Asks
    BY <1>0, <1>2 DEF Once
  <2>3. /\ \A q \in Runs : loop'[q].pc = "store" => loop'[q].ask \in Asks
        /\ \A p, q \in Runs : loop'[p].pc = "store" /\ loop'[q].pc = "store" /\ loop'[p].ask = loop'[q].ask => p = q
    BY <1>0 DEF Once
  <2>. QED BY <2>1, <2>2, <2>3 DEF Once
<1>5. \A b \in Asks : Sent(b)' => Sent(b) \/ b = a
  BY <1>2 DEF Sent
<1>6. \A b \in Asks : (Storing(b)' <=> Storing(b)) /\ (IsOpen(b)' <=> IsOpen(b))
  BY DEF Storing, IsOpen
<1>7. Stages'
  <2>. SUFFICES ASSUME NEW b \in Asks
                PROVE  /\ Sent(b)' => Issued(b)' /\ ~Storing(b)' /\ ~IsOpen(b)' /\ replies'[b] = <<>>
                       /\ Storing(b)' => Issued(b)' /\ ~IsOpen(b)' /\ replies'[b] = <<>>
                       /\ IsOpen(b)' => Issued(b)' /\ replies'[b] = <<>>
                       /\ replies'[b] # <<>> => Issued(b)'
                       /\ Len(replies'[b]) <= 1
    BY DEF Stages
  <2>1. /\ Sent(b) => Issued(b) /\ ~Storing(b) /\ ~IsOpen(b) /\ replies[b] = <<>>
        /\ Storing(b) => Issued(b) /\ ~IsOpen(b) /\ replies[b] = <<>>
        /\ IsOpen(b) => Issued(b) /\ replies[b] = <<>>
        /\ replies[b] # <<>> => Issued(b)
        /\ Len(replies[b]) <= 1
    BY <1>0 DEF Stages
  <2>2. CASE b = a
    BY <1>1, <1>6, <2>1, <2>2
  <2>3. CASE b # a
    BY <1>5, <1>6, <2>1, <2>3
  <2>. QED BY <2>2, <2>3
<1>8. Replies'
  <2>1. /\ \A p, q \in pending' : p.ask = q.ask => p = q
        /\ \A p \in pending' : p.owner = starter'[p.run] /\ (p.owner \notin clients' => p.ask \in ownerAway')
    BY <1>0 DEF Replies
  <2>2. ASSUME NEW d \in Conns, req'[d].pc \in Replying
        PROVE  /\ req'[d].ask \in Asks /\ req'[d].run \in Runs /\ kind'[req'[d].run] # "none"
               /\ Issued(req[d].ask)' /\ ~Sent(req[d].ask)' /\ ~Storing(req[d].ask)'
               /\ \A p \in pending' : p.ask = req'[d].ask => p.run = req'[d].run
    <3>1. /\ req[d].ask \in Asks /\ req[d].run \in Runs /\ kind[req[d].run] # "none"
          /\ Issued(req[d].ask) /\ ~Sent(req[d].ask) /\ ~Storing(req[d].ask)
          /\ \A p \in pending : p.ask = req[d].ask => p.run = req[d].run
      BY <1>0, <2>2 DEF Replies
    <3>2. req[d].ask # a /\ req'[d] = req[d]
      BY <3>1
    <3>3. ASSUME NEW b \in Asks, b = req[d].ask, b # a, Issued(b), ~Sent(b), ~Storing(b)
          PROVE  Issued(b)' /\ ~Sent(b)' /\ ~Storing(b)'
      BY <1>5, <1>6, <3>3
    <3>. QED BY <3>1, <3>2, <3>3
  <2>3. ASSUME NEW d \in Conns, req'[d].pc \in {"replyTakeOver", "replyClaim"}
        PROVE  d = starter'[req'[d].run] \/ req'[d].ask \in ownerAway' \/ ~IsOpen(req[d].ask)'
    BY <1>0, <2>3 DEF Replies, IsOpen
  <2>. QED BY <2>1, <2>2, <2>3 DEF Replies
<1>9. OwnerAnswers'
  BY <1>0 DEF OwnerAnswers
<1>. QED BY <1>4, <1>7, <1>8, <1>9 DEF AskInv

\* A tool asks: the question gets an id that nobody has seen.
LEMMA AskSafe ==
  ASSUME RunAssumption, IInv, NEW r \in Runs, Ask(r) PROVE IInv'
<1>0. WorkInv /\ AskInv /\ ToldInv /\ Types /\ Fresh /\ Kinds /\ Closed /\ Reserved /\ Open
  BY DEF IInv, WorkInv
<1>t. OnePublishes /\ StateIsTold /\ LoopFits /\ Ends /\ Order
  BY <1>0 DEF ToldInv
<1>1. /\ UNCHANGED <<clients, rt, notify, req, kind, loop, pending, replies, log, ownerAway, starter>>
      /\ work[r].pc = "tools"
  BY DEF Ask, WorkAt, WorkUnchanged, sessionVars, askVars, ghostVars
<1>a. PICK a \in Asks : a = NewAsk
  BY <1>0 DEF Ask, NewAsk, Types, Asks, RunAssumption
<1>b. /\ budget' \in [requests : Nat, rounds : Nat, asks : 0 .. MaxAsks] /\ budget'.asks = budget.asks - 1
      /\ budget.asks \in Nat
  <2>1. budget \in [requests : Nat, rounds : Nat, asks : 0 .. MaxAsks] /\ budget.asks > 0 /\ MaxAsks \in Nat
    BY <1>0 DEF Types, Ask, RunAssumption
  <2>2. budget' = [budget EXCEPT !.asks = budget.asks - 1] /\ budget.asks - 1 \in 0 .. MaxAsks
    BY <2>1 DEF Ask
  <2>. QED BY <2>1, <2>2
<1>c. ~Issued(a) /\ \A b \in Asks : Issued(b)' <=> Issued(b) \/ b = a
  BY <1>a, <1>b DEF Issued, NewAsk, Asks, RunAssumption
<1>2. work' \in [Runs -> Agent] /\ work'[r].pc = work[r].pc /\ \A q \in Runs \ {r} : work'[q] = work[q]
  <2>1. work \in [Runs -> Agent] /\ work[r] \in Agent
    BY <1>0 DEF Types
  <2>2. work' = [work EXCEPT ![r] = [work[r] EXCEPT !.open = work[r].open \cup {a}]]
    BY <1>a, <2>1 DEF Ask
  <2>3. [work[r] EXCEPT !.open = work[r].open \cup {a}] \in Agent
        /\ [work[r] EXCEPT !.open = work[r].open \cup {a}].pc = work[r].pc
    BY <2>1 DEF Agent
  <2>. QED BY <2>1, <2>2, <2>3
<1>3. kind[r] = "chat" /\ loop[r].pc # "none"
  BY <1>0, <1>1 DEF Kinds, KindAt, Chatting
<1>4. loop[r].pc \notin Ending \cup {"publishEnd"} /\ \A i \in 1 .. Len(events[r]) : events[r][i].type # "closed"
  BY <1>0, <1>1 DEF Closed, ClosedAt
<1>. DEFINE e == [type |-> "ask", ask |-> a]
<1>5. e \in Event /\ e.type = "ask" /\ events' = [events EXCEPT ![r] = Append(@, e)]
  BY <1>a DEF Event, EventTypes, Ask, Emit
<1>. HIDE DEF e
<1>6. /\ events' \in [Runs -> Seq(Event)] /\ \A q \in Runs \ {r} : events'[q] = events[q]
      /\ Len(events'[r]) = Len(events[r]) + 1 /\ Len(events[r]) \in Nat
      /\ \A i \in 1 .. Len(events[r]) : events'[r][i] = events[r][i]
      /\ events'[r][Len(events[r]) + 1] = e
  BY <1>0, <1>5, SendFacts
<1>7. Types'
  BY <1>0, <1>1, <1>2, <1>6, <1>b DEF Types
<1>8. \A d \in Conns : req[d].pc \in Beginning => req[d].run # r
  BY <1>0, <1>1, AtWork
<1>9. \A i \in 1 .. Len(events'[r]) : events'[r][i].type # "closed"
  <2>. TAKE i \in 1 .. Len(events'[r])
  <2>1. i \in 1 .. Len(events[r]) \/ i = Len(events[r]) + 1
    BY <1>6
  <2>. QED BY <1>4, <1>5, <1>6, <2>1
<1>10. WorkInv'
  <2>1. KindAt(r)'
    BY <1>0, <1>1, <1>2 DEF Kinds, KindAt
  <2>2. ClosedAt(r)'
    BY <1>1, <1>4, <1>9 DEF ClosedAt
  <2>3. ReservedAt(r)'
    BY <1>0, <1>1, <1>2 DEF Reserved, ReservedAt
  <2>4. Open'
    BY <1>0, <1>1 DEF Open
  <2>. QED BY <1>0, <1>1, <1>2, <1>3, <1>6, <1>7, <1>8, <2>1, <2>2, <2>3, <2>4, RunWork
<1>11. AskInv'
  BY <1>0, <1>1, <1>6, <1>a, <1>c, AskKeeps DEF e
<1>12. ToldInv'
  <2>1. OnePublishes'
    <3>1. \A q \in Runs : Publishes(q)' => Publishes(q)
      BY <1>1 DEF Publishes
    <3>. QED BY <1>1, <1>t, <3>1, SamePublishers
  <2>2. StateAt(r)' /\ LoopFitsAt(r)'
    BY <1>1, <1>t DEF StateIsTold, StateAt, Publishes, LoopFits, LoopFitsAt
  <2>3. EndAt(r)'
    BY <1>1, <1>2, <1>4, <1>9 DEF EndAt
  <2>4. Ordered(log'[r])
    BY <1>1, <1>3, <1>t DEF Order
  <2>5. \A d \in Conns : req[d].pc = "publishRunning" => req[d].run # r
    BY <1>8 DEF Beginning
  <2>. QED BY <1>0, <1>1, <1>2, <1>3, <1>6, <2>1, <2>2, <2>3, <2>4, <2>5, RunTold
<1>. QED BY <1>10, <1>11, <1>12 DEF IInv

-----------------------------------------------------------------------------
(* The event loop.                                                         *)

\* The run whose loop goes on is the session's present one.
LEMMA AtLoop ==
  ASSUME WorkInv, NEW r \in Runs, loop[r].pc \notin {"none", "done"}
  PROVE  /\ kind[r] = "chat" /\ rt.runID = r /\ rt.status # "idle" /\ work[r].pc \notin Compacting
         /\ \A d \in Conns : req[d].pc \in Beginning => req[d].run # r
<1>0. Types /\ Kinds /\ Reserved
  BY DEF WorkInv
<1>1. kind[r] # "none" /\ \A d \in Conns : req[d].pc \in Beginning => req[d].run # r
  BY AtWork
<1>2. kind[r] # "compact" /\ work[r].pc \notin Compacting
  BY <1>0 DEF Kinds, KindAt, Compacting, Worked
<1>3. kind[r] \in {"none", "chat", "compact"}
  BY <1>0 DEF Types
<1>. QED BY <1>0, <1>1, <1>2, <1>3 DEF Reserved, ReservedAt

\* A step of the loop keeps what is known of the work.
LEMMA LoopWork ==
  ASSUME RunAssumption, WorkInv, Types', NEW r \in Runs, loop[r].pc \notin {"none", "done"},
         UNCHANGED <<req, kind, work>>, loop'[r].pc # "none",
         \A q \in Runs \ {r} : events'[q] = events[q] /\ loop'[q] = loop[q] /\ log'[q] = log[q],
         (\E i \in 1 .. Len(events'[r]) : events'[r][i].type = "closed") => work[r].pc \in {"unlock", "done"},
         loop'[r].pc \in Ending \cup {"publishEnd"} => work[r].pc \in {"unlock", "done"},
         Open',
         \/ rt'.runID = r /\ rt'.status # "idle"
         \/ loop'[r].pc = "done" /\ rt'.runID = NoRun
  PROVE  WorkInv'
<1>0. Kinds
  BY DEF WorkInv
<1>1. /\ kind[r] = "chat" /\ rt.runID = r /\ rt.status # "idle" /\ work[r].pc \notin Compacting
      /\ \A d \in Conns : req[d].pc \in Beginning => req[d].run # r
  BY AtLoop
<1>2. KindAt(r)'
  BY <1>0, <1>1 DEF Kinds, KindAt
<1>3. ClosedAt(r)'
  BY DEF ClosedAt
<1>4. ReservedAt(r)'
  BY <1>1 DEF ReservedAt
<1>. QED BY <1>1, <1>2, <1>3, <1>4, RunWork

\* What is left of the channel after its first event.
LEMMA RestOfChannel ==
  ASSUME WorkInv, Ends, NEW r \in Runs, events[r] # <<>>, Received(r)
  PROVE  /\ events' \in [Runs -> Seq(Event)] /\ \A q \in Runs \ {r} : events'[q] = events[q]
         /\ (\E i \in 1 .. Len(events'[r]) : events'[r][i].type = "closed") => work[r].pc \in {"unlock", "done"}
         /\ \A i \in 1 .. Len(events'[r]) : events'[r][i].type = "closed" => i = Len(events'[r])
         /\ EndSent(r) /\ Head(events[r]).type \notin Terminal => EndSent(r)'
         /\ Head(events[r]).type = "closed" => work[r].pc \in {"unlock", "done"} /\ ~EndSent(r)
         /\ Head(events[r]) \in Event /\ Head(events[r]) = events[r][1] /\ 1 \in 1 .. Len(events[r])
         /\ \A i \in 1 .. Len(events'[r]) : i + 1 \in 1 .. Len(events[r]) /\ events'[r][i] = events[r][i + 1]
<1>0. Types /\ Closed
  BY DEF WorkInv
<1>1. /\ events' \in [Runs -> Seq(Event)] /\ \A q \in Runs \ {r} : events'[q] = events[q]
      /\ Len(events'[r]) = Len(events[r]) - 1 /\ Len(events[r]) \in Nat \ {0}
      /\ \A i \in 1 .. Len(events'[r]) : events'[r][i] = events[r][i + 1]
  BY <1>0, ReceiveFacts
<1>2. Head(events[r]) \in Event /\ Head(events[r]) = events[r][1]
  BY <1>0, TailFacts DEF Types
<1>3. \A i \in 1 .. Len(events'[r]) : i + 1 \in 1 .. Len(events[r])
  BY <1>1
<1>4. 1 \in 1 .. Len(events[r])
  BY <1>1
<1>5. \A i \in 1 .. Len(events[r]) : events[r][i].type = "closed" => i = Len(events[r]) /\ work[r].pc \in {"unlock", "done"}
  BY <1>0 DEF Ends, EndAt, Closed, ClosedAt
<1>6. (\E i \in 1 .. Len(events'[r]) : events'[r][i].type = "closed") => work[r].pc \in {"unlock", "done"}
  BY <1>1, <1>3, <1>5
<1>7. \A i \in 1 .. Len(events'[r]) : events'[r][i].type = "closed" => i = Len(events'[r])
  <2>. TAKE i \in 1 .. Len(events'[r])
  <2>1. events'[r][i].type = "closed" => i + 1 = Len(events[r])
    BY <1>1, <1>3, <1>5
  <2>. QED BY <1>1, <2>1
<1>8. EndSent(r) /\ Head(events[r]).type \notin Terminal => EndSent(r)'
  <2>. SUFFICES ASSUME EndSent(r), Head(events[r]).type \notin Terminal PROVE EndSent(r)'
    OBVIOUS
  <2>1. PICK i \in 1 .. Len(events[r]) : events[r][i].type \in Terminal
    BY DEF EndSent
  <2>2. i # 1
    BY <1>2, <2>1
  <2>3. i - 1 \in 1 .. Len(events'[r]) /\ (i - 1) + 1 = i
    BY <1>1, <2>2
  <2>4. events'[r][i - 1] = events[r][i]
    BY <1>1, <2>3
  <2>5. events'[r][i - 1].type \in Terminal
    BY <2>1, <2>4
  <2>. QED BY <2>3, <2>5 DEF EndSent
<1>9. Head(events[r]).type = "closed" => work[r].pc \in {"unlock", "done"} /\ ~EndSent(r)
  <2>. SUFFICES ASSUME events[r][1].type = "closed" PROVE work[r].pc \in {"unlock", "done"} /\ ~EndSent(r)
    BY <1>2
  <2>1. Len(events[r]) = 1 /\ work[r].pc \in {"unlock", "done"}
    BY <1>4, <1>5
  <2>2. \A i \in 1 .. Len(events[r]) : events[r][i].type = "closed"
    BY <2>1
  <2>3. "closed" \notin Terminal
    BY DEF Terminal
  <2>. QED BY <2>1, <2>2, <2>3 DEF EndSent
<1>. QED BY <1>1, <1>2, <1>3, <1>4, <1>6, <1>7, <1>8, <1>9

\* transitionRunState refuses an event, or it is the error after a failed compaction.
LEMMA TransitionRefused ==
  ASSUME RunAssumption, IInv, NEW r \in Runs, loop[r].pc = "receive", events[r] # <<>>, Received(r),
         UNCHANGED <<clients, rt, notify, req, kind, work, loop, pending, replies, log, ownerAway, starter, budget>>,
         Head(events[r]).type \in Terminal => loop[r].compactFailed \/ HasEnd(log[r])
  PROVE  IInv'
<1>0. WorkInv /\ AskInv /\ ToldInv /\ Types /\ Closed /\ Open
  BY DEF IInv, WorkInv
<1>t. OnePublishes /\ StateIsTold /\ LoopFits /\ Ends /\ Order
  BY <1>0 DEF ToldInv
<1>1. /\ kind[r] = "chat" /\ rt.runID = r /\ rt.status # "idle"
      /\ \A d \in Conns : req[d].pc \in Beginning => req[d].run # r
  BY <1>0, AtLoop
<1>2. /\ events' \in [Runs -> Seq(Event)] /\ \A q \in Runs \ {r} : events'[q] = events[q]
      /\ (\E i \in 1 .. Len(events'[r]) : events'[r][i].type = "closed") => work[r].pc \in {"unlock", "done"}
      /\ \A i \in 1 .. Len(events'[r]) : events'[r][i].type = "closed" => i = Len(events'[r])
      /\ EndSent(r) /\ Head(events[r]).type \notin Terminal => EndSent(r)'
  BY <1>0, <1>t, RestOfChannel
<1>3. Types'
  BY <1>0, <1>2 DEF Types
<1>4. WorkInv'
  <2>1. Open'
    BY <1>0 DEF Open
  <2>2. loop'[r].pc \notin Ending \cup {"publishEnd"}
    BY DEF Ending
  <2>. QED BY <1>0, <1>1, <1>2, <1>3, <2>1, <2>2, LoopWork
<1>5. AskInv'
  <2>1. Once' /\ (\A b \in Asks : Sent(b)' => Sent(b)) /\ (\A b \in Asks : Storing(b)' => Storing(b))
    BY <1>0, OnceReceive DEF AskInv
  <2>. QED BY <1>0, <2>1, AskFrame
<1>6. ToldInv'
  <2>1. OnePublishes'
    <3>1. \A q \in Runs : Publishes(q)' => Publishes(q)
      BY DEF Publishes
    <3>. QED BY <1>t, <3>1, SamePublishers
  <2>2. StateAt(r)' /\ LoopFitsAt(r)'
    BY <1>t DEF StateIsTold, StateAt, Publishes, LoopFits, LoopFitsAt
  <2>3. EndAt(r)'
    <3>1. EndAt(r)
      BY <1>t DEF Ends
    <3>. QED BY <1>2, <3>1 DEF EndAt, Ending
  <2>4. Ordered(log'[r])
    BY <1>1, <1>t DEF Order
  <2>5. \A d \in Conns : req[d].pc = "publishRunning" => req[d].run # r
    BY <1>1 DEF Beginning
  <2>. QED BY <1>0, <1>1, <1>2, <2>1, <2>2, <2>3, <2>4, <2>5, RunTold
<1>. QED BY <1>4, <1>5, <1>6 DEF IInv

\* It accepts one, under the notification lock.
LEMMA TransitionAccepted ==
  ASSUME RunAssumption, IInv, NEW r \in Runs, loop[r].pc = "receive", events[r] # <<>>, Received(r),
         NEW next \in {"running", "retrying"} \cup Terminal, LockNotify, rt' = [rt EXCEPT !.runState = next],
         loop' = [loop EXCEPT ![r].pc = "publish", ![r].state = next],
         UNCHANGED <<clients, req, kind, work, pending, replies, log, ownerAway, starter, budget>>,
         rt.runState \notin Terminal, rt.runState = "cancelling" => next = "cancelled",
         Head(events[r]).type \in Terminal => next \in Terminal
  PROVE  IInv'
<1>0. WorkInv /\ AskInv /\ ToldInv /\ Types /\ Closed /\ Open
  BY DEF IInv, WorkInv
<1>t. OnePublishes /\ StateIsTold /\ LoopFits /\ Ends /\ Order
  BY <1>0 DEF ToldInv
<1>1. /\ kind[r] = "chat" /\ rt.runID = r /\ rt.status # "idle"
      /\ \A d \in Conns : req[d].pc \in Beginning => req[d].run # r
  BY <1>0, AtLoop
<1>2. /\ events' \in [Runs -> Seq(Event)] /\ \A q \in Runs \ {r} : events'[q] = events[q]
      /\ (\E i \in 1 .. Len(events'[r]) : events'[r][i].type = "closed") => work[r].pc \in {"unlock", "done"}
      /\ \A i \in 1 .. Len(events'[r]) : events'[r][i].type = "closed" => i = Len(events'[r])
      /\ EndSent(r) /\ Head(events[r]).type \notin Terminal => EndSent(r)'
  BY <1>0, <1>t, RestOfChannel
<1>3. next \in States /\ next \notin {"cancelling", ""}
  BY DEF States, Terminal
<1>4. rt' \in Session /\ rt'.runID = r /\ rt'.status = rt.status /\ rt'.runState = next
  <2>1. rt \in Session
    BY <1>0 DEF Types
  <2>2. /\ [rt EXCEPT !.runState = next] \in Session /\ [rt EXCEPT !.runState = next].status = rt.status
        /\ [rt EXCEPT !.runState = next].runID = rt.runID /\ [rt EXCEPT !.runState = next].runState = next
    BY <1>3, <2>1, SessionFacts
  <2>. QED BY <1>1, <2>2
<1>5. /\ loop' \in [Runs -> Loop] /\ loop'[r].pc = "publish" /\ loop'[r].state = next
      /\ loop'[r].compactFailed = loop[r].compactFailed /\ \A q \in Runs \ {r} : loop'[q] = loop[q]
  <2>1. loop \in [Runs -> Loop] /\ loop[r] \in Loop
    BY <1>0 DEF Types
  <2>. DEFINE l == [[loop[r] EXCEPT !.pc = "publish"] EXCEPT !.state = next]
  <2>2. /\ l \in Loop /\ l.pc = "publish" /\ l.state = next /\ l.compactFailed = loop[r].compactFailed
    BY <1>3, <2>1 DEF Loop, LoopAts
  <2>3. loop' = [loop EXCEPT ![r] = l]
    BY <2>1
  <2>. HIDE DEF l
  <2>. QED BY <2>1, <2>2, <2>3
<1>6. Types'
  <2>1. notify' \in BOOLEAN
    BY DEF LockNotify
  <2>. QED BY <1>0, <1>2, <1>4, <1>5, <2>1 DEF Types
<1>7. WorkInv'
  <2>1. Open'
    BY <1>0, <1>5 DEF Open, Types, Question
  <2>2. loop'[r].pc \notin Ending \cup {"publishEnd"}
    BY <1>5 DEF Ending
  <2>. QED BY <1>0, <1>1, <1>2, <1>4, <1>5, <1>6, <2>1, <2>2, LoopWork
<1>8. AskInv'
  <2>1. Once' /\ (\A b \in Asks : Sent(b)' => Sent(b)) /\ (\A b \in Asks : Storing(b)' => Storing(b))
    <3>1. \A q \in Runs : loop'[q].pc = "store" => loop[q].pc = "store" /\ loop'[q].ask = loop[q].ask
      BY <1>5
    <3>. QED BY <1>0, <3>1, OnceReceive DEF AskInv
  <2>. QED BY <1>0, <2>1, AskFrame
<1>9. ToldInv'
  <2>1. /\ \A d \in Conns : ~Publisher(d)
        /\ \A q \in Runs : ~Publishes(q)
    BY <1>t DEF OnePublishes, LockNotify
  <2>2. (\A d \in Conns : ~Publisher(d)') /\ \A q \in Runs \ {r} : ~Publishes(q)'
    BY <1>5, <2>1 DEF Publisher, Publishes
  <2>3. OnePublishes'
    BY <2>2 DEF OnePublishes, LockNotify
  <2>4. NoEnd(log[r]) /\ (rt.runState # "cancelling" => NoCancel(log[r]))
    BY <1>1, <1>t DEF StateIsTold, StateAt
  <2>5. StateAt(r)'
    BY <1>4, <1>5, <2>4, <1>3 DEF StateAt, Publishes, Terminal
  <2>6. LoopFitsAt(r)'
    BY <1>4, <1>5, <2>4 DEF LoopFitsAt
  <2>7. EndAt(r)'
    <3>1. EndAt(r)
      BY <1>t DEF Ends
    <3>2. kind[r] = "chat" /\ work[r].pc \in {"finish", "unlock", "done"} =>
            EndSent(r) \/ loop[r].compactFailed \/ HasEnd(log[r])
      BY <3>1 DEF EndAt
    <3>3. loop'[r].pc \notin Ending
      BY <1>5 DEF Ending
    <3>. QED BY <1>2, <1>5, <3>2, <3>3 DEF EndAt
  <2>8. Ordered(log'[r])
    BY <1>1, <1>t DEF Order
  <2>9. \A d \in Conns : req[d].pc = "publishRunning" => req[d].run # r
    BY <1>1 DEF Beginning
  <2>. QED BY <1>0, <1>1, <1>2, <1>4, <1>5, <2>2, <2>3, <2>5, <2>6, <2>7, <2>8, <2>9, RunTold
<1>. QED BY <1>7, <1>8, <1>9 DEF IInv

\* The agent's lifecycle events ask for a state, and transitionRunState refuses or accepts it.
LEMMA TransitionSafe ==
  ASSUME RunAssumption, IInv, NEW r \in Runs, Transition(r)
  PROVE  IInv'
<1>0. WorkInv /\ ToldInv /\ Types
  BY DEF IInv, WorkInv
<1>t. StateIsTold
  BY <1>0 DEF ToldInv
<1>. DEFINE type == Head(events[r]).type
            next == NextRunState(rt.runState, Requested(type))
<1>1. /\ loop[r].pc = "receive" /\ events[r] # <<>> /\ Received(r)
      /\ type \in {"waitingLLM", "retrying", "done", "failed", "cancelled"}
      /\ UNCHANGED <<clients, req, kind, work, pending, replies, log, ownerAway, starter, budget>>
  BY DEF Transition, Receives, LoopAt, LoopUnchanged, askVars, ghostVars
<1>2. kind[r] = "chat" /\ rt.runID = r
  BY <1>0, <1>1, AtLoop
<1>3. /\ next # "" => /\ next \in {"running", "retrying"} \cup Terminal
                      /\ rt.runState \notin Terminal
                      /\ rt.runState = "cancelling" => next = "cancelled"
                      /\ type \in Terminal => next \in Terminal
      /\ next = "" /\ type \in Terminal => rt.runState \in Terminal
  <2>1. /\ Requested(type) \in {"running", "retrying"} \cup Terminal
        /\ type \in Terminal => Requested(type) = type
    <3>. HIDE DEF type
    <3>. QED BY <1>1 DEF Requested, Terminal
  <2>2. PICK s : s = rt.runState
    OBVIOUS
  <2>3. PICK t : t = Requested(type)
    OBVIOUS
  <2>4. next = NextRunState(s, t)
    BY <2>2, <2>3
  <2>. HIDE DEF type, next
  <2>5. CASE s = "cancelling"
    <3>1. next = IF t \in Terminal THEN "cancelled" ELSE ""
      BY <2>4, <2>5 DEF NextRunState, Terminal
    <3>. QED BY <2>1, <2>2, <2>3, <2>5, <3>1 DEF Terminal
  <2>6. CASE s # "cancelling" /\ s \in Terminal
    <3>1. next = ""
      BY <2>4, <2>6 DEF NextRunState
    <3>. QED BY <2>2, <2>6, <3>1
  <2>7. CASE s # "cancelling" /\ s \notin Terminal
    <3>1. next = t
      BY <2>4, <2>7 DEF NextRunState
    <3>. QED BY <2>1, <2>2, <2>3, <2>7, <3>1 DEF Terminal
  <2>. QED BY <2>5, <2>6, <2>7
<1>4. \/ type \in {"failed", "cancelled"} /\ loop[r].compactFailed /\ UNCHANGED <<rt, notify, loop>>
      \/ /\ next # "" /\ LockNotify /\ rt' = [rt EXCEPT !.runState = next]
         /\ loop' = [loop EXCEPT ![r].pc = "publish", ![r].state = next]
      \/ next = "" /\ UNCHANGED <<rt, notify, loop>>
  BY <1>2 DEF Transition
<1>. HIDE DEF next
<1>5. CASE type \in {"failed", "cancelled"} /\ loop[r].compactFailed /\ UNCHANGED <<rt, notify, loop>>
  BY <1>1, <1>5, TransitionRefused
<1>6. CASE /\ next # "" /\ LockNotify /\ rt' = [rt EXCEPT !.runState = next]
           /\ loop' = [loop EXCEPT ![r].pc = "publish", ![r].state = next]
  BY <1>1, <1>3, <1>6, TransitionAccepted
<1>7. CASE next = "" /\ UNCHANGED <<rt, notify, loop>>
  <2>1. type \in Terminal => HasEnd(log[r])
    BY <1>1, <1>2, <1>3, <1>7, <1>t DEF StateIsTold, StateAt, Publishes
  <2>. QED BY <1>1, <1>7, <2>1, TransitionRefused
<1>. QED BY <1>4, <1>5, <1>6, <1>7

\* A question is received, and from now on it is being stored.
LEMMA ReceiveAskKeeps ==
  ASSUME RunAssumption, WorkInv, AskInv, Ends, NEW r \in Runs, loop[r].pc = "receive", events[r] # <<>>, Received(r),
         NEW a, a = Head(events[r]).ask, Head(events[r]).type = "ask",
         loop'[r].pc = "store", loop'[r].ask = a, \A q \in Runs \ {r} : loop'[q] = loop[q],
         UNCHANGED <<clients, req, kind, pending, replies, ownerAway, starter, budget>>
  PROVE  AskInv'
<1>0. Once /\ Stages /\ Replies /\ OwnerAnswers
  BY DEF AskInv
<1>1. /\ \A q \in Runs \ {r} : events'[q] = events[q]
      /\ Head(events[r]) = events[r][1] /\ 1 \in 1 .. Len(events[r])
      /\ \A i \in 1 .. Len(events'[r]) : i + 1 \in 1 .. Len(events[r]) /\ events'[r][i] = events[r][i + 1]
  BY RestOfChannel
<1>2. a \in Asks /\ Sent(a)
  <2>1. events[r][1].type = "ask" /\ events[r][1].ask = a
    BY <1>1
  <2>2. a \in Asks
    BY <1>0, <1>1, <2>1 DEF Once
  <2>. QED BY <1>1, <2>1, <2>2 DEF Sent
<1>3. Issued(a) /\ ~Storing(a) /\ ~IsOpen(a) /\ replies[a] = <<>>
  BY <1>0, <1>2 DEF Stages
<1>. DEFINE At(q, i) == IF q = r THEN i + 1 ELSE i
<1>4. \A q \in Runs : \A i \in 1 .. Len(events'[q]) :
        At(q, i) \in 1 .. Len(events[q]) /\ events'[q][i] = events[q][At(q, i)]
  BY <1>1
<1>5. \A q \in Runs : \A i, j \in Int : At(q, i) = At(q, j) => i = j
  OBVIOUS
<1>6. \A i \in 1 .. Len(events'[r]) : At(r, i) # 1
  OBVIOUS
<1>. HIDE DEF At
<1>7. \A q \in Runs : \A i \in 1 .. Len(events'[q]) : ~(events'[q][i].type = "ask" /\ events'[q][i].ask = a)
  <2>. SUFFICES ASSUME NEW q \in Runs, NEW i \in 1 .. Len(events'[q]),
                       events'[q][i].type = "ask", events'[q][i].ask = a
                PROVE  FALSE
    OBVIOUS
  <2>1. At(q, i) \in 1 .. Len(events[q]) /\ events[q][At(q, i)].type = "ask" /\ events[q][At(q, i)].ask = a
    BY <1>4
  <2>2. q = r /\ At(q, i) = 1
    BY <1>0, <1>1, <2>1 DEF Once
  <2>. QED BY <1>6, <2>2
<1>8. Once'
  <2>1. \A p, q \in Runs : \A i \in 1 .. Len(events'[p]), j \in 1 .. Len(events'[q]) :
       events'[p][i].type = "ask" /\ events'[q][j].type = "ask" /\ events'[p][i].ask = events'[q][j].ask
         => p = q /\ i = j
    <3>. SUFFICES ASSUME NEW p \in Runs, NEW q \in Runs,
                        NEW i \in 1 .. Len(events'[p]), NEW j \in 1 .. Len(events'[q]),
                        events'[p][i].type = "ask", events'[q][j].type = "ask",
                        events'[p][i].ask = events'[q][j].ask
                 PROVE  p = q /\ i = j
      OBVIOUS
    <3>1. /\ At(p, i) \in 1 .. Len(events[p]) /\ events'[p][i] = events[p][At(p, i)]
          /\ At(q, j) \in 1 .. Len(events[q]) /\ events'[q][j] = events[q][At(q, j)]
      BY <1>4
    <3>2. p = q /\ At(p, i) = At(q, j)
      BY <1>0, <3>1 DEF Once
    <3>3. i \in Int /\ j \in Int
      OBVIOUS
    <3>. QED BY <1>5, <3>2, <3>3
  <2>2. \A p \in Runs : \A i \in 1 .. Len(events'[p]) : events'[p][i].type = "ask" => events'[p][i].ask \in Asks
    BY <1>0, <1>4 DEF Once
  <2>3. \A q \in Runs : loop'[q].pc = "store" => loop'[q].ask \in Asks
    BY <1>0, <1>2 DEF Once
  <2>4. \A p, q \in Runs : loop'[p].pc = "store" /\ loop'[q].pc = "store" /\ loop'[p].ask = loop'[q].ask => p = q
    <3>1. \A q \in Runs : ~(loop[q].pc = "store" /\ loop[q].ask = a)
      BY <1>3 DEF Storing
    <3>. QED BY <1>0, <3>1 DEF Once
  <2>. QED BY <2>1, <2>2, <2>3, <2>4 DEF Once
<1>9. \A b \in Asks : Sent(b)' => Sent(b) /\ b # a
  BY <1>4, <1>7 DEF Sent
<1>10. \A b \in Asks : Storing(b)' => Storing(b) \/ b = a
  BY DEF Storing
<1>11. \A b : (Issued(b)' <=> Issued(b)) /\ (IsOpen(b)' <=> IsOpen(b))
  BY DEF Issued, IsOpen
<1>12. Stages'
  <2>. SUFFICES ASSUME NEW b \in Asks
                PROVE  /\ Sent(b)' => Issued(b)' /\ ~Storing(b)' /\ ~IsOpen(b)' /\ replies'[b] = <<>>
                       /\ Storing(b)' => Issued(b)' /\ ~IsOpen(b)' /\ replies'[b] = <<>>
                       /\ IsOpen(b)' => Issued(b)' /\ replies'[b] = <<>>
                       /\ replies'[b] # <<>> => Issued(b)'
                       /\ Len(replies'[b]) <= 1
    BY DEF Stages
  <2>1. /\ Sent(b) => Issued(b) /\ ~Storing(b) /\ ~IsOpen(b) /\ replies[b] = <<>>
        /\ Storing(b) => Issued(b) /\ ~IsOpen(b) /\ replies[b] = <<>>
        /\ IsOpen(b) => Issued(b) /\ replies[b] = <<>>
        /\ replies[b] # <<>> => Issued(b)
        /\ Len(replies[b]) <= 1
    BY <1>0 DEF Stages
  <2>. QED BY <1>3, <1>9, <1>10, <1>11, <2>1
<1>13. Replies'
  <2>1. /\ \A p, q \in pending' : p.ask = q.ask => p = q
        /\ \A p \in pending' : p.owner = starter'[p.run] /\ (p.owner \notin clients' => p.ask \in ownerAway')
    BY <1>0 DEF Replies
  <2>2. ASSUME NEW d \in Conns, req'[d].pc \in Replying
        PROVE  /\ req'[d].ask \in Asks /\ req'[d].run \in Runs /\ kind'[req'[d].run] # "none"
               /\ Issued(req[d].ask)' /\ ~Sent(req[d].ask)' /\ ~Storing(req[d].ask)'
               /\ \A p \in pending' : p.ask = req'[d].ask => p.run = req'[d].run
    <3>1. /\ req[d].ask \in Asks /\ req[d].run \in Runs /\ kind[req[d].run] # "none"
          /\ Issued(req[d].ask) /\ ~Sent(req[d].ask) /\ ~Storing(req[d].ask)
          /\ \A p \in pending : p.ask = req[d].ask => p.run = req[d].run
      BY <1>0, <2>2 DEF Replies
    <3>2. req[d].ask # a /\ req'[d] = req[d]
      BY <1>2, <3>1
    <3>3. ASSUME NEW b \in Asks, b = req[d].ask, b # a, Issued(b), ~Sent(b), ~Storing(b)
          PROVE  Issued(b)' /\ ~Sent(b)' /\ ~Storing(b)'
      BY <1>9, <1>10, <1>11, <3>3
    <3>. QED BY <3>1, <3>2, <3>3
  <2>3. ASSUME NEW d \in Conns, req'[d].pc \in {"replyTakeOver", "replyClaim"}
        PROVE  d = starter'[req'[d].run] \/ req'[d].ask \in ownerAway' \/ ~IsOpen(req[d].ask)'
    BY <1>0, <2>3 DEF Replies, IsOpen
  <2>. QED BY <2>1, <2>2, <2>3 DEF Replies
<1>14. OwnerAnswers'
  BY <1>0 DEF OwnerAnswers
<1>. QED BY <1>8, <1>12, <1>13, <1>14 DEF AskInv

\* The loop takes an event that changes the run's status: a question or a compaction's.
LEMMA ReceiveStatus ==
  ASSUME RunAssumption, IInv, NEW r \in Runs, loop[r].pc = "receive", events[r] # <<>>, Received(r),
         Head(events[r]).type \notin Terminal, rt' \in Session, rt'.runID = r, rt'.status # "idle", rt'.runState = rt.runState,
         UNCHANGED <<clients, notify, req, kind, work, pending, replies, log, ownerAway, starter, budget>>,
         loop' \in [Runs -> Loop], \A q \in Runs \ {r} : loop'[q] = loop[q],
         loop'[r].pc \in {"receive", "store"}, loop[r].compactFailed => loop'[r].compactFailed,
         AskInv'
  PROVE  IInv'
<1>0. WorkInv /\ AskInv /\ ToldInv /\ Types /\ Closed /\ Open
  BY DEF IInv, WorkInv
<1>t. OnePublishes /\ StateIsTold /\ LoopFits /\ Ends /\ Order
  BY <1>0 DEF ToldInv
<1>1. /\ kind[r] = "chat" /\ rt.runID = r /\ rt.status # "idle"
      /\ \A d \in Conns : req[d].pc \in Beginning => req[d].run # r
  BY <1>0, AtLoop
<1>2. /\ events' \in [Runs -> Seq(Event)] /\ \A q \in Runs \ {r} : events'[q] = events[q]
      /\ (\E i \in 1 .. Len(events'[r]) : events'[r][i].type = "closed") => work[r].pc \in {"unlock", "done"}
      /\ \A i \in 1 .. Len(events'[r]) : events'[r][i].type = "closed" => i = Len(events'[r])
      /\ EndSent(r) => EndSent(r)'
  BY <1>0, <1>t, RestOfChannel
<1>3. Types'
  BY <1>0, <1>2 DEF Types
<1>4. WorkInv'
  <2>1. Open'
    BY <1>0 DEF Open, Types, Question
  <2>2. loop'[r].pc \notin Ending \cup {"publishEnd"} /\ loop'[r].pc # "none"
    BY DEF Ending
  <2>. QED BY <1>0, <1>1, <1>2, <1>3, <2>1, <2>2, LoopWork
<1>5. ToldInv'
  <2>1. OnePublishes'
    <3>1. \A q \in Runs : Publishes(q)' => Publishes(q)
      BY DEF Publishes
    <3>. QED BY <1>t, <3>1, SamePublishers
  <2>2. StateAt(r)'
    BY <1>1, <1>t DEF StateIsTold, StateAt, Publishes
  <2>3. LoopFitsAt(r)'
    BY DEF LoopFitsAt
  <2>4. EndAt(r)'
    <3>1. EndAt(r)
      BY <1>t DEF Ends
    <3>2. kind[r] = "chat" /\ work[r].pc \in {"finish", "unlock", "done"} =>
            EndSent(r) \/ loop[r].compactFailed \/ HasEnd(log[r])
      BY <3>1 DEF EndAt
    <3>3. loop'[r].pc \notin Ending
      BY DEF Ending
    <3>. QED BY <1>2, <3>2, <3>3 DEF EndAt
  <2>5. Ordered(log'[r])
    BY <1>1, <1>t DEF Order
  <2>6. \A d \in Conns : req[d].pc = "publishRunning" => req[d].run # r
    BY <1>1 DEF Beginning
  <2>. QED BY <1>0, <1>1, <1>2, <2>1, <2>2, <2>3, <2>4, <2>5, <2>6, RunTold
<1>. QED BY <1>4, <1>5 DEF IInv

\* setWaiting.
LEMMA ReceiveAskSafe ==
  ASSUME RunAssumption, IInv, NEW r \in Runs, ReceiveAsk(r)
  PROVE  IInv'
<1>0. WorkInv /\ AskInv /\ ToldInv /\ Types /\ Ends
  BY DEF IInv, WorkInv, ToldInv
<1>1. /\ loop[r].pc = "receive" /\ events[r] # <<>> /\ Received(r) /\ Head(events[r]).type = "ask"
      /\ UNCHANGED <<clients, notify, req, kind, work, pending, replies, log, ownerAway, starter, budget>>
      /\ rt' = [rt EXCEPT !.status = "waiting"]
      /\ loop' = [loop EXCEPT ![r].pc = "store", ![r].ask = Head(events[r]).ask]
  BY DEF ReceiveAsk, Receives, LoopAt, LoopUnchanged, askVars, ghostVars
<1>2. PICK a \in Asks \cup {0} : a = Head(events[r]).ask
  BY <1>0, <1>1, RestOfChannel DEF Event
<1>3. /\ loop' \in [Runs -> Loop] /\ loop'[r].pc = "store" /\ loop'[r].ask = a
      /\ loop'[r].compactFailed = loop[r].compactFailed /\ \A q \in Runs \ {r} : loop'[q] = loop[q]
  <2>1. loop \in [Runs -> Loop] /\ loop[r] \in Loop
    BY <1>0 DEF Types
  <2>. DEFINE l == [[loop[r] EXCEPT !.pc = "store"] EXCEPT !.ask = a]
  <2>2. /\ l \in Loop /\ l.pc = "store" /\ l.ask = a /\ l.compactFailed = loop[r].compactFailed
    BY <2>1 DEF Loop, LoopAts
  <2>3. loop' = [loop EXCEPT ![r] = l]
    BY <1>1, <1>2, <2>1
  <2>. HIDE DEF l
  <2>. QED BY <2>1, <2>2, <2>3
<1>4. rt.runID = r
  BY <1>0, <1>1, AtLoop
<1>5. rt' \in Session /\ rt'.runID = r /\ rt'.status # "idle" /\ rt'.runState = rt.runState
  BY <1>0, <1>1, <1>4, SessionFacts DEF Types
<1>6. AskInv'
  BY <1>0, <1>1, <1>2, <1>3, ReceiveAskKeeps
<1>7. Head(events[r]).type \notin Terminal
  BY <1>1 DEF Terminal
<1>. QED BY <1>1, <1>3, <1>5, <1>6, <1>7, ReceiveStatus

\* The status of an automatic compaction.
LEMMA ReceiveCompactionSafe ==
  ASSUME RunAssumption, IInv, NEW r \in Runs, ReceiveCompaction(r)
  PROVE  IInv'
<1>0. WorkInv /\ AskInv /\ ToldInv /\ Types /\ Ends
  BY DEF IInv, WorkInv, ToldInv
<1>1. /\ loop[r].pc = "receive" /\ events[r] # <<>> /\ Received(r)
      /\ Head(events[r]).type \in {"compactRunning", "compactDone", "compactError"}
      /\ UNCHANGED <<clients, notify, req, kind, work, pending, replies, log, ownerAway, starter, budget>>
      /\ rt' = rt \/ rt' = [rt EXCEPT !.status = "compacting"]
  BY DEF ReceiveCompaction, Receives, LoopAt, LoopUnchanged, askVars, ghostVars
<1>2. PICK b \in BOOLEAN : b = (loop[r].compactFailed \/ Head(events[r]).type = "compactError")
  OBVIOUS
<1>3. /\ loop' \in [Runs -> Loop] /\ loop'[r].pc = "receive" /\ loop'[r].compactFailed = b
      /\ \A q \in Runs \ {r} : loop'[q] = loop[q]
  <2>1. loop \in [Runs -> Loop] /\ loop[r] \in Loop
    BY <1>0 DEF Types
  <2>. DEFINE l == [loop[r] EXCEPT !.compactFailed = b]
  <2>2. l \in Loop /\ l.pc = loop[r].pc /\ l.compactFailed = b
    BY <2>1 DEF Loop
  <2>3. loop' = [loop EXCEPT ![r] = l]
    BY <1>2, <2>1 DEF ReceiveCompaction
  <2>. HIDE DEF l
  <2>. QED BY <1>1, <2>1, <2>2, <2>3
<1>4. rt.runID = r /\ rt.status # "idle" /\ rt \in Session
  BY <1>0, <1>1, AtLoop DEF Types
<1>5. rt' \in Session /\ rt'.runID = r /\ rt'.status # "idle" /\ rt'.runState = rt.runState
  <2>1. CASE rt' = rt
    BY <1>4, <2>1
  <2>2. CASE rt' = [rt EXCEPT !.status = "compacting"]
    BY <1>4, <2>2, SessionFacts
  <2>. QED BY <1>1, <2>1, <2>2
<1>6. AskInv'
  <2>0. \A q \in Runs : loop'[q].pc = "store" => loop[q].pc = "store" /\ loop'[q].ask = loop[q].ask
    BY <1>3
  <2>1. Once' /\ (\A a \in Asks : Sent(a)' => Sent(a)) /\ (\A a \in Asks : Storing(a)' => Storing(a))
    BY <1>0, <1>1, <2>0, OnceReceive DEF AskInv
  <2>. QED BY <1>0, <1>1, <2>1, AskFrame
<1>7. Head(events[r]).type \notin Terminal
  BY <1>1 DEF Terminal
<1>8. loop[r].compactFailed => loop'[r].compactFailed
  BY <1>2, <1>3
<1>. QED BY <1>1, <1>3, <1>5, <1>6, <1>7, <1>8, ReceiveStatus

\* A question is stored for the clients that are attached.
LEMMA StoreAskSafe ==
  ASSUME RunAssumption, IInv, NEW r \in Runs, StoreAsk(r)
  PROVE  IInv'
<1>0. WorkInv /\ AskInv /\ ToldInv /\ Types /\ Kinds /\ Closed /\ Open
  BY DEF IInv, WorkInv
<1>t. OnePublishes /\ StateIsTold /\ LoopFits /\ Ends /\ Order /\ Once /\ Stages /\ Replies /\ OwnerAnswers
  BY <1>0 DEF ToldInv, AskInv
<1>1. /\ loop[r].pc = "store"
      /\ UNCHANGED <<clients, rt, notify, req, kind, work, events, replies, log, starter, budget>>
  BY DEF StoreAsk, LoopAt, sessionVars, agentVars
<1>a. PICK a \in Asks : a = loop[r].ask
  BY <1>1, <1>t DEF Once
<1>2. /\ kind[r] = "chat" /\ rt.runID = r /\ rt.status # "idle"
      /\ \A d \in Conns : req[d].pc \in Beginning => req[d].run # r
  BY <1>0, <1>1, AtLoop
<1>3. /\ loop' \in [Runs -> Loop] /\ loop'[r].pc = "tell" /\ loop'[r].compactFailed = loop[r].compactFailed
      /\ \A q \in Runs \ {r} : loop'[q] = loop[q]
  BY <1>0, LoopToFacts DEF StoreAsk, LoopAts
<1>. DEFINE new == [ask |-> a, run |-> r, owner |-> starter[r]]
<1>4. new \in Question /\ new.ask = a /\ new.run = r /\ new.owner = starter[r]
  BY <1>0 DEF Question, Types
<1>5. pending' = pending \/ pending' = pending \cup {new}
  BY <1>a DEF StoreAsk
<1>6. /\ ownerAway' = ownerAway \/ ownerAway' = ownerAway \cup {a}
      /\ starter[r] \notin clients => a \in ownerAway'
  BY <1>a DEF StoreAsk
<1>. HIDE DEF new
<1>7. Types'
  BY <1>0, <1>1, <1>3, <1>4, <1>5, <1>6 DEF Types
<1>8. WorkInv'
  <2>1. Open'
    <3>1. \A p \in pending' : p \in pending \/ p = new
      BY <1>5
    <3>2. \A p \in pending : p.run \in Runs /\ loop'[p.run].pc \notin {"none", "idle", "done"}
      BY <1>0, <1>3 DEF Open, Types, Question
    <3>. QED BY <1>3, <1>4, <3>1, <3>2 DEF Open
  <2>2. loop'[r].pc \notin Ending \cup {"publishEnd"} /\ loop'[r].pc # "none"
    BY <1>3 DEF Ending
  <2>3. (\E i \in 1 .. Len(events'[r]) : events'[r][i].type = "closed") => work[r].pc \in {"unlock", "done"}
    BY <1>0, <1>1 DEF Closed, ClosedAt
  <2>. QED BY <1>0, <1>1, <1>2, <1>3, <1>7, <2>1, <2>2, <2>3, LoopWork
<1>9. AskInv'
  <2>1. Once' /\ (\A b \in Asks : Sent(b)' => Sent(b))
    <3>1. \A q \in Runs : loop'[q].pc = "store" => loop[q].pc = "store" /\ loop'[q].ask = loop[q].ask
      BY <1>3
    <3>. QED BY <1>1, <1>t, <3>1, OnceSame
  <2>2. \A b \in Asks : Storing(b)' => Storing(b) /\ b # a
    <3>1. \A q \in Runs : loop'[q].pc = "store" => q # r /\ loop[q].pc = "store" /\ loop'[q].ask = loop[q].ask
      BY <1>3
    <3>2. \A q \in Runs : loop[q].pc = "store" /\ loop[q].ask = a => q = r
      BY <1>1, <1>a, <1>t DEF Once
    <3>. QED BY <3>1, <3>2 DEF Storing
  <2>3. Storing(a) /\ Issued(a) /\ ~Sent(a) /\ ~IsOpen(a) /\ replies[a] = <<>>
    <3>1. Storing(a)
      BY <1>1, <1>a DEF Storing
    <3>. QED BY <1>t, <3>1 DEF Stages
  <2>4. \A b \in Asks : Issued(b)' <=> Issued(b)
    BY <1>1 DEF Issued
  <2>5. \A b \in Asks : IsOpen(b)' => IsOpen(b) \/ b = a
    BY <1>4, <1>5 DEF IsOpen
  <2>6. Stages'
    <3>. SUFFICES ASSUME NEW b \in Asks
                  PROVE  /\ Sent(b)' => Issued(b)' /\ ~Storing(b)' /\ ~IsOpen(b)' /\ replies'[b] = <<>>
                         /\ Storing(b)' => Issued(b)' /\ ~IsOpen(b)' /\ replies'[b] = <<>>
                         /\ IsOpen(b)' => Issued(b)' /\ replies'[b] = <<>>
                         /\ replies'[b] # <<>> => Issued(b)'
                         /\ Len(replies'[b]) <= 1
      BY DEF Stages
    <3>1. /\ Sent(b) => Issued(b) /\ ~Storing(b) /\ ~IsOpen(b) /\ replies[b] = <<>>
          /\ Storing(b) => Issued(b) /\ ~IsOpen(b) /\ replies[b] = <<>>
          /\ IsOpen(b) => Issued(b) /\ replies[b] = <<>>
          /\ replies[b] # <<>> => Issued(b)
          /\ Len(replies[b]) <= 1
      BY <1>t DEF Stages
    <3>. QED BY <1>1, <2>1, <2>2, <2>3, <2>4, <2>5, <3>1
  <2>7. Replies'
    <3>1. \A p, q \in pending' : p.ask = q.ask => p = q
      <4>1. \A p \in pending : p.ask # a
        BY <2>3 DEF IsOpen
      <4>. QED BY <1>4, <1>5, <1>t, <4>1 DEF Replies
    <3>2. \A p \in pending' : p.owner = starter'[p.run] /\ (p.owner \notin clients' => p.ask \in ownerAway')
      BY <1>1, <1>4, <1>5, <1>6, <1>t DEF Replies
    <3>3. ASSUME NEW d \in Conns, req'[d].pc \in Replying
          PROVE  /\ req'[d].ask \in Asks /\ req'[d].run \in Runs /\ kind'[req'[d].run] # "none"
                 /\ Issued(req[d].ask)' /\ ~Sent(req[d].ask)' /\ ~Storing(req[d].ask)'
                 /\ \A p \in pending' : p.ask = req'[d].ask => p.run = req'[d].run
      <4>1. /\ req[d].ask \in Asks /\ req[d].run \in Runs /\ kind[req[d].run] # "none"
            /\ Issued(req[d].ask) /\ ~Sent(req[d].ask) /\ ~Storing(req[d].ask)
            /\ \A p \in pending : p.ask = req[d].ask => p.run = req[d].run
        BY <1>1, <1>t, <3>3 DEF Replies
      <4>2. req[d].ask # a /\ req'[d] = req[d]
        BY <1>1, <2>3, <4>1
      <4>3. ASSUME NEW b \in Asks, b = req[d].ask, b # a, Issued(b), ~Sent(b), ~Storing(b)
            PROVE  Issued(b)' /\ ~Sent(b)' /\ ~Storing(b)'
        BY <2>1, <2>2, <2>4, <4>3
      <4>4. \A p \in pending' : p.ask = req[d].ask => p.run = req[d].run
        BY <1>4, <1>5, <4>1, <4>2
      <4>. QED BY <1>1, <4>1, <4>2, <4>3, <4>4
    <3>4. ASSUME NEW d \in Conns, req'[d].pc \in {"replyTakeOver", "replyClaim"}
          PROVE  d = starter'[req'[d].run] \/ req'[d].ask \in ownerAway' \/ ~IsOpen(req[d].ask)'
      <4>1. req'[d] = req[d] /\ req[d].ask \in Asks /\ ~Storing(req[d].ask)
        BY <1>1, <1>t, <3>4 DEF Replies, Replying
      <4>2. d = starter[req[d].run] \/ req[d].ask \in ownerAway \/ ~IsOpen(req[d].ask)
        BY <1>1, <1>t, <3>4 DEF Replies
      <4>3. ASSUME NEW b \in Asks, b = req[d].ask, ~Storing(b), ~IsOpen(b)
            PROVE  ~IsOpen(b)'
        BY <2>3, <2>5, <4>3
      <4>. QED BY <1>1, <1>6, <4>1, <4>2, <4>3
    <3>. QED BY <3>1, <3>2, <3>3, <3>4 DEF Replies
  <2>8. OwnerAnswers'
    BY <1>1, <1>6, <1>t DEF OwnerAnswers
  <2>. QED BY <2>1, <2>6, <2>7, <2>8 DEF AskInv
<1>10. ToldInv'
  <2>1. OnePublishes'
    <3>1. \A q \in Runs : Publishes(q)' => Publishes(q)
      BY <1>3 DEF Publishes
    <3>. QED BY <1>1, <1>t, <3>1, SamePublishers
  <2>2. StateAt(r)'
    BY <1>1, <1>t DEF StateIsTold, StateAt, Publishes
  <2>3. LoopFitsAt(r)'
    BY <1>3 DEF LoopFitsAt
  <2>4. EndAt(r)'
    <3>1. EndAt(r)
      BY <1>t DEF Ends
    <3>2. kind[r] = "chat" /\ work[r].pc \in {"finish", "unlock", "done"} =>
            EndSent(r) \/ loop[r].compactFailed \/ HasEnd(log[r])
      BY <1>1, <3>1 DEF EndAt
    <3>3. loop'[r].pc \notin Ending
      BY <1>3 DEF Ending
    <3>4. EndSent(r) => EndSent(r)'
      BY <1>1 DEF EndSent
    <3>5. \A i \in 1 .. Len(events'[r]) : events'[r][i].type = "closed" => i = Len(events'[r])
      BY <1>1, <3>1 DEF EndAt
    <3>. QED BY <1>1, <1>3, <3>2, <3>3, <3>4, <3>5 DEF EndAt
  <2>5. Ordered(log'[r])
    BY <1>1, <1>2, <1>t DEF Order
  <2>6. \A d \in Conns : req[d].pc = "publishRunning" => req[d].run # r
    BY <1>2 DEF Beginning
  <2>. QED BY <1>0, <1>1, <1>2, <1>3, <2>1, <2>2, <2>3, <2>4, <2>5, <2>6, RunTold
<1>. QED BY <1>8, <1>9, <1>10 DEF IInv

\* The loop goes on to a stage in which it tells nothing of the run's state.
LEMMA LoopStep ==
  ASSUME RunAssumption, IInv, NEW r \in Runs, NEW pc \in {"receive", "idle", "done"}, LoopTo(r, pc),
         loop[r].pc \in {"tell", "cleanup", "idle"},
         UNCHANGED <<clients, notify, req, kind, work, events, replies, log, ownerAway, starter, budget>>,
         pending' \subseteq pending,
         UNCHANGED rt \/ rt' = Idle, rt' = rt <=> pc # "done",
         pc \in Ending => loop[r].pc \in Ending /\ \A p \in pending' : p.run # r
  PROVE  IInv'
<1>0. WorkInv /\ AskInv /\ ToldInv /\ Types /\ Kinds /\ Closed /\ Open
  BY DEF IInv, WorkInv
<1>t. OnePublishes /\ StateIsTold /\ LoopFits /\ Ends /\ Order
  BY <1>0 DEF ToldInv
<1>1. /\ kind[r] = "chat" /\ rt.runID = r /\ rt.status # "idle"
      /\ \A d \in Conns : req[d].pc \in Beginning => req[d].run # r
  BY <1>0, AtLoop
<1>2. /\ loop' \in [Runs -> Loop] /\ loop'[r].pc = pc /\ loop'[r].compactFailed = loop[r].compactFailed
      /\ \A q \in Runs \ {r} : loop'[q] = loop[q]
  BY <1>0, LoopToFacts DEF LoopAts, Ending
<1>3. Idle \in Session /\ Idle.runID = NoRun
  BY DEF Idle, Session, States
<1>4. Types'
  BY <1>0, <1>2, <1>3 DEF Types
<1>5. WorkInv'
  <2>1. Open'
    <3>1. \A p \in pending : p.run \in Runs
      BY <1>0 DEF Types, Question
    <3>2. ASSUME NEW p \in pending' PROVE loop'[p.run].pc \notin {"none", "idle", "done"}
      <4>1. p \in pending /\ p.run \in Runs /\ loop[p.run].pc \notin {"none", "idle", "done"}
        BY <1>0, <3>1, <3>2 DEF Open
      <4>2. CASE p.run = r
        <5>1. pc \notin Ending
          BY <3>2, <4>2
        <5>. QED BY <1>2, <4>2, <5>1 DEF Ending
      <4>3. CASE p.run # r
        BY <1>2, <4>1, <4>3
      <4>. QED BY <4>2, <4>3
    <3>. QED BY <3>2 DEF Open
  <2>2. loop'[r].pc \in Ending \cup {"publishEnd"} => work[r].pc \in {"unlock", "done"}
    BY <1>0, <1>2 DEF Closed, ClosedAt, Ending
  <2>3. (\E i \in 1 .. Len(events'[r]) : events'[r][i].type = "closed") => work[r].pc \in {"unlock", "done"}
    BY <1>0 DEF Closed, ClosedAt
  <2>4. \/ rt'.runID = r /\ rt'.status # "idle"
        \/ loop'[r].pc = "done" /\ rt'.runID = NoRun
    BY <1>1, <1>2, <1>3
  <2>. QED BY <1>0, <1>1, <1>2, <1>4, <2>1, <2>2, <2>3, <2>4, LoopWork
<1>6. AskInv'
  <2>0. \A q \in Runs : loop'[q].pc = "store" => loop[q].pc = "store" /\ loop'[q].ask = loop[q].ask
    BY <1>2
  <2>1. Once' /\ (\A a \in Asks : Sent(a)' => Sent(a)) /\ (\A a \in Asks : Storing(a)' => Storing(a))
    BY <1>0, <2>0, OnceSame DEF AskInv
  <2>. QED BY <1>0, <2>1, AskFrame
<1>7. ToldInv'
  <2>1. OnePublishes'
    <3>1. \A q \in Runs : Publishes(q)' => Publishes(q)
      BY <1>2 DEF Publishes
    <3>. QED BY <1>t, <3>1, SamePublishers
  <2>2. StateAt(r)'
    <3>1. CASE UNCHANGED rt
      BY <1>t, <3>1 DEF StateIsTold, StateAt, Publishes
    <3>2. CASE rt' = Idle
      <4>1. rt'.runID # r
        BY <1>3, <3>2, NoRunIsNone
      <4>. QED BY <4>1 DEF StateAt
    <3>. QED BY <3>1, <3>2
  <2>3. LoopFitsAt(r)'
    BY <1>2 DEF LoopFitsAt
  <2>4. EndAt(r)'
    <3>1. EndAt(r)
      BY <1>t DEF Ends
    <3>2. kind[r] = "chat" /\ work[r].pc \in {"finish", "unlock", "done"} =>
            EndSent(r) \/ loop[r].compactFailed \/ HasEnd(log[r])
      BY <3>1 DEF EndAt
    <3>3. loop'[r].pc \in Ending => loop[r].compactFailed \/ HasEnd(log[r])
      BY <1>2, <3>1 DEF EndAt
    <3>4. EndSent(r) => EndSent(r)'
      BY DEF EndSent
    <3>5. \A i \in 1 .. Len(events'[r]) : events'[r][i].type = "closed" => i = Len(events'[r])
      BY <3>1 DEF EndAt
    <3>. QED BY <1>2, <3>2, <3>3, <3>4, <3>5 DEF EndAt
  <2>5. Ordered(log'[r])
    BY <1>1, <1>t DEF Order
  <2>6. \A d \in Conns : req[d].pc = "publishRunning" => req[d].run # r
    BY <1>1 DEF Beginning
  <2>7. \/ rt'.runID = rt.runID /\ rt'.runState = rt.runState
        \/ rt.runID = r /\ rt'.runID = NoRun
    BY <1>1, <1>3
  <2>. QED BY <1>0, <1>1, <1>2, <2>1, <2>2, <2>3, <2>4, <2>5, <2>6, <2>7, RunTold
<1>. QED BY <1>5, <1>6, <1>7 DEF IInv

\* emitAskUser and emitGuardConfirm; cancelPendingInteractions; setStatus(idle).
LEMMA TellAskSafe ==
  ASSUME RunAssumption, IInv, NEW r \in Runs, TellAsk(r) PROVE IInv'
<1>1. "receive" \notin Ending /\ "receive" # "done"
  BY DEF Ending
<1>. QED BY <1>1, LoopStep DEF TellAsk, LoopAt, sessionVars, agentVars, ghostVars

\* cancelPendingInteractions deletes the session's questions.
LEMMA CancelPendingInteractionsSafe ==
  ASSUME RunAssumption, IInv, NEW r \in Runs, CancelPendingInteractions(r) PROVE IInv'
<1>1. loop[r].pc = "cleanup" /\ loop[r].pc \in Ending
  BY DEF CancelPendingInteractions, LoopAt, Ending
<1>2. pending' = {}
  BY DEF CancelPendingInteractions, Leftover
<1>. QED BY <1>1, <1>2, LoopStep DEF CancelPendingInteractions, LoopUnchanged, ghostVars

\* setStatus(idle) gives the session back, when no question of the run is open.
LEMMA SetIdleSafe ==
  ASSUME RunAssumption, IInv, NEW r \in Runs, SetIdle(r) PROVE IInv'
<1>0. WorkInv /\ Open /\ NoRun \notin Runs
  BY NoRunIsNone DEF IInv, WorkInv
<1>1. loop[r].pc = "idle" /\ loop[r].pc \in Ending /\ LoopTo(r, "done") /\ rt' = Idle
      /\ UNCHANGED <<clients, notify, req, kind, work, events, pending, replies, log, ownerAway, starter, budget>>
  BY DEF SetIdle, LoopAt, Ending, LoopUnchanged, ghostVars, askVars
<1>2. \A p \in pending' : p.run # r
  BY <1>0, <1>1 DEF Open
<1>3. rt.runID = r
  BY <1>0, <1>1, AtLoop
<1>4. rt' # rt
  <2>1. Idle.runID = NoRun
    BY DEF Idle
  <2>. QED BY <1>0, <1>1, <1>3, <2>1
<1>. QED BY <1>1, <1>2, <1>4, LoopStep

\* The loop publishes the state that it has set, and releases runNotifyMu.
LEMMA LoopPublish ==
  ASSUME RunAssumption, IInv, NEW r \in Runs, Publishes(r), NEW v \in {"running", "retrying"} \cup Terminal,
         Publish(r, v), v = rt.runState, NoEnd(log[r]), v # "cancelled" => NoCancel(log[r]), notify' = FALSE,
         NEW pc \in {"receive", "cleanup"}, LoopTo(r, pc), pc = "cleanup" => loop[r].pc = "publishEnd" /\ v \in Terminal,
         loop[r].pc = "publish" => loop[r].state = v, loop[r].pc = "publishEnd" => v \in Terminal,
         rt' \in Session, rt'.runID = r, rt'.status # "idle", rt'.runState = rt.runState,
         UNCHANGED <<clients, req, kind, work, events, pending, replies, ownerAway, starter, budget>>
  PROVE  IInv'
<1>0. WorkInv /\ AskInv /\ ToldInv /\ Types /\ Kinds /\ Closed /\ Open
  BY DEF IInv, WorkInv
<1>t. OnePublishes /\ StateIsTold /\ FirstIsRunning /\ LoopFits /\ Ends /\ Order
  BY <1>0 DEF ToldInv
<1>1. /\ kind[r] = "chat" /\ rt.runID = r /\ rt.status # "idle" /\ loop[r].pc \notin {"none", "done"}
      /\ \A d \in Conns : req[d].pc \in Beginning => req[d].run # r
  BY <1>0, AtLoop DEF Publishes
<1>2. /\ loop' \in [Runs -> Loop] /\ loop'[r].pc = pc /\ loop'[r].compactFailed = loop[r].compactFailed
      /\ \A q \in Runs \ {r} : loop'[q] = loop[q]
  BY <1>0, LoopToFacts DEF LoopAts, Ending
<1>3. v \in Told /\ v # "cancelling"
  BY DEF Told, States, Terminal
<1>4. /\ log' \in [Runs -> Seq(Told)] /\ \A q \in Runs \ {r} : log'[q] = log[q]
      /\ log'[r] # <<>> /\ Len(log'[r]) = Len(log[r]) + 1
      /\ \A i \in 1 .. Len(log[r]) : log'[r][i] = log[r][i]
      /\ log'[r][Len(log[r]) + 1] = v
  BY <1>0, <1>3, PublishFacts
<1>5. Types'
  BY <1>0, <1>2, <1>4 DEF Types
<1>6. WorkInv'
  <2>1. Open'
    <3>1. \A p \in pending : p.run \in Runs
      BY <1>0 DEF Types, Question
    <3>. QED BY <1>0, <1>2, <3>1 DEF Open
  <2>2. loop'[r].pc \in Ending \cup {"publishEnd"} => work[r].pc \in {"unlock", "done"}
    BY <1>0, <1>2 DEF Closed, ClosedAt, Ending
  <2>3. (\E i \in 1 .. Len(events'[r]) : events'[r][i].type = "closed") => work[r].pc \in {"unlock", "done"}
    BY <1>0 DEF Closed, ClosedAt
  <2>. QED BY <1>0, <1>1, <1>2, <1>4, <1>5, <2>1, <2>2, <2>3, LoopWork
<1>7. AskInv'
  <2>0. \A q \in Runs : loop'[q].pc = "store" => loop[q].pc = "store" /\ loop'[q].ask = loop[q].ask
    BY <1>2
  <2>1. Once' /\ (\A a \in Asks : Sent(a)' => Sent(a)) /\ (\A a \in Asks : Storing(a)' => Storing(a))
    BY <1>0, <2>0, OnceSame DEF AskInv
  <2>. QED BY <1>0, <2>1, AskFrame
<1>8. ToldInv'
  <2>1. (\A d \in Conns : ~Publisher(d)) /\ \A q \in Runs \ {r} : ~Publishes(q)
    BY <1>t DEF OnePublishes
  <2>2. (\A d \in Conns : ~Publisher(d)') /\ \A q \in Runs : ~Publishes(q)'
    BY <1>2, <2>1 DEF Publisher, Publishes
  <2>3. \A d \in Conns : req[d].pc = "publishRunning" => req[d].run = r
    BY <2>1 DEF Publisher
  <2>4. log[r] # <<>> /\ Ordered(log[r]) /\ log[r] \in Seq(Told) /\ log'[r] \in Seq(Told)
    BY <1>0, <1>1, <1>4, <1>t, <2>1 DEF FirstIsRunning, Order, Types, Publisher
  <2>5. /\ v \notin Terminal => NoEnd(log'[r])
        /\ NoCancel(log[r]) => NoCancel(log'[r])
        /\ HasEnd(log[r]) \/ v \in Terminal => HasEnd(log'[r])
        /\ Ordered(log'[r])
    BY <1>3, <1>4, <2>4, OneMore
  <2>6. StateAt(r)'
    BY <2>5 DEF StateAt, Terminal
  <2>7. EndAt(r)'
    <3>1. EndAt(r)
      BY <1>t DEF Ends
    <3>2. kind[r] = "chat" /\ work[r].pc \in {"finish", "unlock", "done"} =>
            EndSent(r) \/ loop[r].compactFailed \/ HasEnd(log[r]) \/ v \in Terminal
      BY <3>1 DEF EndAt
    <3>3. loop'[r].pc \in Ending => v \in Terminal
      BY <1>2 DEF Ending
    <3>4. EndSent(r) => EndSent(r)'
      BY DEF EndSent
    <3>5. \A i \in 1 .. Len(events'[r]) : events'[r][i].type = "closed" => i = Len(events'[r])
      BY <3>1 DEF EndAt
    <3>. QED BY <1>2, <2>5, <3>2, <3>3, <3>4, <3>5 DEF EndAt
  <2>. QED BY <1>0, <1>1, <1>2, <1>4, <2>1, <2>2, <2>3, <2>5, <2>6, <2>7, PublishTold
<1>. QED BY <1>6, <1>7, <1>8 DEF IInv

\* transitionRunState tells the state that it has set.
LEMMA PublishTransitionSafe ==
  ASSUME RunAssumption, IInv, NEW r \in Runs, PublishTransition(r) PROVE IInv'
<1>0. WorkInv /\ ToldInv /\ Types /\ LoopFits
  BY DEF IInv, WorkInv, ToldInv
<1>1. /\ loop[r].pc = "publish" /\ Publish(r, loop[r].state) /\ notify' = FALSE /\ LoopTo(r, "receive")
      /\ rt' = IF loop[r].state = "running" THEN [rt EXCEPT !.status = "running"] ELSE rt
      /\ UNCHANGED <<clients, req, kind, work, events, pending, replies, ownerAway, starter, budget>>
  BY DEF PublishTransition, LoopAt, AfterPublish, LoopUnchanged, askVars, ghostVars
<1>2. PICK v \in {"running", "retrying"} \cup Terminal : v = loop[r].state
  BY <1>0, <1>1 DEF LoopFits, LoopFitsAt
<1>3. v = rt.runState /\ NoEnd(log[r]) /\ (v # "cancelled" => NoCancel(log[r]))
  BY <1>0, <1>1, <1>2 DEF LoopFits, LoopFitsAt
<1>4. rt.runID = r /\ rt.status # "idle" /\ rt \in Session
  BY <1>0, <1>1, AtLoop DEF Types
<1>5. rt' \in Session /\ rt'.runID = r /\ rt'.status # "idle" /\ rt'.runState = rt.runState
  <2>1. CASE rt' = rt
    BY <1>4, <2>1
  <2>2. CASE rt' = [rt EXCEPT !.status = "running"]
    BY <1>4, <2>2, SessionFacts
  <2>. QED BY <1>1, <2>1, <2>2
<1>6. Publishes(r)
  BY <1>1 DEF Publishes
<1>. QED BY <1>1, <1>2, <1>3, <1>5, <1>6, LoopPublish

\* finishCancelling tells the cancelled that was missing.
LEMMA PublishEndSafe ==
  ASSUME RunAssumption, IInv, NEW r \in Runs, PublishEnd(r) PROVE IInv'
<1>0. WorkInv /\ ToldInv /\ Types /\ LoopFits
  BY DEF IInv, WorkInv, ToldInv
<1>1. /\ loop[r].pc = "publishEnd" /\ Publish(r, "cancelled") /\ notify' = FALSE /\ LoopTo(r, "cleanup")
      /\ UNCHANGED <<clients, rt, req, kind, work, events, pending, replies, ownerAway, starter, budget>>
  BY DEF PublishEnd, LoopAt, LoopUnchanged, askVars, ghostVars
<1>2. rt.runState = "cancelled" /\ NoEnd(log[r])
  BY <1>0, <1>1 DEF LoopFits, LoopFitsAt
<1>3. rt.runID = r /\ rt.status # "idle" /\ rt \in Session
  BY <1>0, <1>1, AtLoop DEF Types
<1>4. Publishes(r) /\ "cancelled" \in Terminal
  BY <1>1 DEF Publishes, Terminal
<1>. QED BY <1>1, <1>2, <1>3, <1>4, LoopPublish

\* finishCancelling: the channel is closed, and a cancelled run has to be told so.
LEMMA FinishCancellingSafe ==
  ASSUME RunAssumption, IInv, NEW r \in Runs, FinishCancelling(r)
  PROVE  IInv'
<1>0. WorkInv /\ AskInv /\ ToldInv /\ Types /\ Kinds /\ Closed /\ Open
  BY DEF IInv, WorkInv
<1>t. OnePublishes /\ StateIsTold /\ LoopFits /\ Ends /\ Order
  BY <1>0 DEF ToldInv
<1>1. /\ loop[r].pc = "receive" /\ events[r] # <<>> /\ Received(r) /\ Head(events[r]).type = "closed"
      /\ UNCHANGED <<clients, req, kind, work, pending, replies, log, ownerAway, starter, budget>>
  <2>1. loop[r].pc # "finish"
    BY <1>0 DEF Types, Loop, LoopAts, Ending
  <2>. QED BY <2>1 DEF FinishCancelling, LoopAt, Receives, LoopUnchanged, askVars, ghostVars
<1>2. /\ kind[r] = "chat" /\ rt.runID = r /\ rt.status # "idle"
      /\ \A d \in Conns : req[d].pc \in Beginning => req[d].run # r
  BY <1>0, <1>1, AtLoop
<1>3. /\ events' \in [Runs -> Seq(Event)] /\ \A q \in Runs \ {r} : events'[q] = events[q]
      /\ \A i \in 1 .. Len(events'[r]) : events'[r][i].type = "closed" => i = Len(events'[r])
      /\ work[r].pc \in {"unlock", "done"} /\ ~EndSent(r)
  BY <1>0, <1>1, <1>t, RestOfChannel
<1>4. loop[r].compactFailed \/ HasEnd(log[r])
  BY <1>1, <1>2, <1>3, <1>t DEF Ends, EndAt
<1>5. \/ /\ rt.runState = "cancelling" /\ LockNotify /\ rt' = [rt EXCEPT !.runState = "cancelled"]
         /\ LoopTo(r, "publishEnd")
      \/ ~notify /\ LoopTo(r, "cleanup") /\ UNCHANGED <<rt, notify>>
  BY <1>2 DEF FinishCancelling
<1>6. PICK pc \in {"publishEnd", "cleanup"} : LoopTo(r, pc)
  BY <1>5
<1>7. /\ loop' \in [Runs -> Loop] /\ loop'[r].pc = pc /\ loop'[r].compactFailed = loop[r].compactFailed
      /\ \A q \in Runs \ {r} : loop'[q] = loop[q]
  BY <1>0, <1>6, LoopToFacts DEF LoopAts, Ending
<1>8. /\ rt' \in Session /\ rt'.runID = r /\ rt'.status # "idle"
      /\ \/ /\ pc = "publishEnd" /\ rt.runState = "cancelling" /\ rt'.runState = "cancelled"
            /\ ~notify /\ notify' = TRUE
         \/ pc = "cleanup" /\ UNCHANGED <<rt, notify>>
  <2>1. rt \in Session /\ "cancelled" \in States
    BY <1>0 DEF Types, States
  <2>2. CASE /\ rt.runState = "cancelling" /\ LockNotify /\ rt' = [rt EXCEPT !.runState = "cancelled"]
             /\ LoopTo(r, "publishEnd")
    <3>1. loop'[r].pc = "publishEnd"
      BY <1>0, <2>2, LoopToFacts DEF LoopAts
    <3>. QED BY <1>2, <1>7, <2>1, <2>2, <3>1, SessionFacts DEF LockNotify
  <2>3. CASE ~notify /\ LoopTo(r, "cleanup") /\ UNCHANGED <<rt, notify>>
    <3>1. loop'[r].pc = "cleanup"
      BY <1>0, <2>3, LoopToFacts DEF LoopAts, Ending
    <3>. QED BY <1>2, <1>7, <2>1, <2>3, <3>1
  <2>. QED BY <1>5, <2>2, <2>3
<1>9. Types'
  <2>1. notify' \in BOOLEAN
    BY <1>0, <1>8 DEF Types
  <2>. QED BY <1>0, <1>1, <1>3, <1>7, <1>8, <2>1 DEF Types
<1>10. WorkInv'
  <2>1. Open'
    <3>1. \A p \in pending : p.run \in Runs
      BY <1>0 DEF Types, Question
    <3>. QED BY <1>0, <1>1, <1>7, <3>1 DEF Open
  <2>2. loop'[r].pc # "none"
    BY <1>7
  <2>. QED BY <1>0, <1>1, <1>3, <1>7, <1>8, <1>9, <2>1, <2>2, LoopWork
<1>11. AskInv'
  <2>0. \A q \in Runs : loop'[q].pc = "store" => loop[q].pc = "store" /\ loop'[q].ask = loop[q].ask
    BY <1>7
  <2>1. Once' /\ (\A a \in Asks : Sent(a)' => Sent(a)) /\ (\A a \in Asks : Storing(a)' => Storing(a))
    BY <1>0, <1>1, <2>0, OnceReceive DEF AskInv
  <2>. QED BY <1>0, <1>1, <2>1, AskFrame
<1>12. ToldInv'
  <2>1. NoEnd(log[r]) \/ pc = "cleanup"
    BY <1>2, <1>8, <1>t DEF StateIsTold, StateAt, Terminal
  <2>2. StateAt(r)'
    <3>1. StateAt(r)
      BY <1>t DEF StateIsTold
    <3>2. CASE pc = "publishEnd"
      <4>1. rt'.runState = "cancelled" /\ Publishes(r)'
        BY <1>7, <1>8, <3>2 DEF Publishes
      <4>. QED BY <4>1 DEF StateAt, Terminal
    <3>3. CASE pc = "cleanup"
      <4>1. UNCHANGED rt /\ ~Publishes(r)
        BY <1>1, <1>8, <3>3 DEF Publishes
      <4>. QED BY <1>1, <3>1, <4>1 DEF StateAt
    <3>. QED BY <3>2, <3>3
  <2>3. LoopFitsAt(r)'
    BY <1>1, <1>7, <1>8, <2>1 DEF LoopFitsAt
  <2>4. EndAt(r)'
    BY <1>1, <1>3, <1>4, <1>7 DEF EndAt
  <2>5. Ordered(log'[r])
    BY <1>1, <1>2, <1>t DEF Order
  <2>6. \A d \in Conns : req[d].pc = "publishRunning" => req[d].run # r
    BY <1>2 DEF Beginning
  <2>7. CASE pc = "publishEnd"
    <3>1. (\A d \in Conns : ~Publisher(d)) /\ \A q \in Runs : ~Publishes(q)
      BY <1>8, <1>t, <2>7 DEF OnePublishes
    <3>2. (\A d \in Conns : ~Publisher(d)') /\ \A q \in Runs \ {r} : ~Publishes(q)'
      BY <1>1, <1>7, <3>1 DEF Publisher, Publishes
    <3>3. OnePublishes'
      BY <1>8, <2>7, <3>2 DEF OnePublishes
    <3>. QED BY <1>0, <1>1, <1>2, <1>3, <1>7, <1>8, <2>2, <2>3, <2>4, <2>5, <2>6, <3>2, <3>3, RunTold
  <2>8. CASE pc = "cleanup"
    <3>1. \A q \in Runs : Publishes(q)' => Publishes(q)
      BY <1>7, <2>8 DEF Publishes
    <3>2. OnePublishes'
      BY <1>1, <1>8, <1>t, <2>8, <3>1, SamePublishers
    <3>. QED BY <1>0, <1>1, <1>2, <1>3, <1>7, <1>8, <2>2, <2>3, <2>4, <2>5, <2>6, <2>8, <3>2, RunTold
  <2>. QED BY <2>7, <2>8
<1>. QED BY <1>10, <1>11, <1>12 DEF IInv

-----------------------------------------------------------------------------
(* The invariant.                                                          *)

\* Nothing has begun, and nobody was told anything.
LEMMA InitSafe ==
  ASSUME RunAssumption, Init
  PROVE  IInv
<1>0. NoRun \notin Runs /\ NoRun = 0 /\ MaxAsks \in Nat /\ MaxRequests \in Nat /\ MaxRounds \in Nat
  BY NoRunIsNone DEF NoRun, RunAssumption
<1>1. /\ clients \subseteq Conns /\ rt = Idle /\ notify = FALSE /\ pending = {} /\ ownerAway = {}
      /\ budget = [requests |-> MaxRequests, rounds |-> MaxRounds, asks |-> MaxAsks]
  BY DEF Init
<1>2. \A c \in Conns : req[c] = Ready /\ Ready.pc = "ready"
  BY DEF Init, Ready
<1>3. \A r \in Runs :
        /\ kind[r] = "none" /\ work[r].pc = "none" /\ events[r] = <<>> /\ log[r] = <<>> /\ Len(<<>>) = 0
        /\ loop[r].pc = "none"
  BY DEF Init
<1>4. Idle \in Session /\ Idle.runID = NoRun
  BY DEF Idle, Session, States
<1>5. Types
  <2>1. req \in [Conns -> Handling]
    <3>1. Ready \in Handling
      BY DEF Ready, Handling, HandlingAt, Elsewhere
    <3>. QED BY <3>1 DEF Init
  <2>2. kind \in [Runs -> {"none", "chat", "compact"}] /\ starter \in [Runs -> Conns \cup {NoConn}]
    BY DEF Init
  <2>3. work \in [Runs -> Agent]
    BY DEF Init, Agent, AgentAt
  <2>4. events \in [Runs -> Seq(Event)] /\ log \in [Runs -> Seq(Told)] /\ replies \in [Asks -> Seq(Reply)]
    <3>1. <<>> \in Seq(Event)
      OBVIOUS
    <3>2. <<>> \in Seq(Told)
      OBVIOUS
    <3>3. <<>> \in Seq(Reply)
      OBVIOUS
    <3>. QED BY <3>1, <3>2, <3>3 DEF Init
  <2>5. loop \in [Runs -> Loop]
    BY DEF Init, Loop, LoopAts, States
  <2>6. budget \in [requests : Nat, rounds : Nat, asks : 0 .. MaxAsks]
    BY <1>0, <1>1
  <2>. QED BY <1>1, <1>4, <2>1, <2>2, <2>3, <2>4, <2>5, <2>6 DEF Types
<1>6. WorkInv
  <2>1. Fresh
    BY <1>2, <1>3 DEF Fresh, Beginning
  <2>2. Kinds /\ Closed
    BY <1>3 DEF Kinds, KindAt, Closed, ClosedAt, Compacting, Worked, Chatting, Ending
  <2>3. Reserved
    BY <1>0, <1>1, <1>2, <1>3, <1>4 DEF Reserved, ReservedAt, Beginning, Compacting
  <2>4. Open
    BY <1>1 DEF Open
  <2>. QED BY <1>5, <2>1, <2>2, <2>3, <2>4 DEF WorkInv
<1>7. AskInv
  <2>1. \A a \in Asks : replies[a] = <<>> /\ Len(<<>>) = 0 /\ ~Sent(a) /\ ~Storing(a) /\ ~IsOpen(a)
    <3>. SUFFICES ASSUME NEW a \in Asks
                  PROVE  replies[a] = <<>> /\ Len(<<>>) = 0 /\ ~Sent(a) /\ ~Storing(a) /\ ~IsOpen(a)
      OBVIOUS
    <3>1. replies[a] = <<>> /\ Len(<<>>) = 0
      BY DEF Init
    <3>2. ~Sent(a)
      BY <1>3 DEF Sent
    <3>3. ~Storing(a) /\ ~IsOpen(a)
      BY <1>1, <1>3 DEF Storing, IsOpen
    <3>. QED BY <3>1, <3>2, <3>3
  <2>2. Once
    BY <1>3 DEF Once
  <2>3. Stages
    BY <2>1 DEF Stages
  <2>4. Replies
    BY <1>1, <1>2 DEF Replies, Replying
  <2>5. OwnerAnswers
    BY <2>1 DEF OwnerAnswers
  <2>. QED BY <2>2, <2>3, <2>4, <2>5 DEF AskInv
<1>8. ToldInv
  <2>1. (\A c \in Conns : ~Publisher(c)) /\ \A r \in Runs : ~Publishes(r)
    BY <1>2, <1>3 DEF Publisher, Publishes
  <2>2. OnePublishes
    BY <2>1 DEF OnePublishes
  <2>3. StateIsTold /\ Order
    BY <1>3 DEF StateIsTold, StateAt, Order
  <2>4. FirstIsRunning /\ CancelFits
    BY <1>2, <1>3 DEF FirstIsRunning, CancelFits
  <2>5. LoopFits /\ Ends
    BY <1>3 DEF LoopFits, LoopFitsAt, Ends, EndAt, Ending
  <2>. QED BY <2>2, <2>3, <2>4, <2>5 DEF ToldInv
<1>. QED BY <1>6, <1>7, <1>8 DEF IInv

\* A step that changes nothing.
LEMMA StutterSafe ==
  ASSUME IInv, UNCHANGED vars
  PROVE  IInv'
<1>0. WorkInv /\ AskInv /\ ToldInv /\ Types
  BY DEF IInv, WorkInv
<1>1. UNCHANGED <<clients, rt, notify, req, kind, work, events, loop, pending, replies, log, ownerAway,
                  starter, budget>>
  BY DEF vars, sessionVars, agentVars, askVars, ghostVars
<1>2. Types'
  BY <1>0, <1>1 DEF Types
<1>3. WorkInv'
  BY <1>0, <1>1, <1>2, ClientWork
<1>4. AskInv'
  <2>1. Once' /\ (\A a \in Asks : Sent(a)' => Sent(a)) /\ (\A a \in Asks : Storing(a)' => Storing(a))
    BY <1>0, <1>1, OnceSame DEF AskInv
  <2>. QED BY <1>0, <1>1, <2>1, AskFrame
<1>5. ToldInv'
  BY <1>0, <1>1, ClientTold
<1>. QED BY <1>3, <1>4, <1>5 DEF IInv

\* Every step of a connection, of an agent's goroutine and of an event loop.
LEMMA ClientSafe ==
  ASSUME RunAssumption, IInv, NEW c \in Conns, ClientStarts(c) \/ ClientContinues(c)
  PROVE  IInv'
<1>1. CASE ClientStarts(c)
  <2>1. CASE Attach(c) \/ Detach(c)
    BY <2>1, AttachSafe, DetachSafe
  <2>2. CASE BeginRun(c) \/ BeginCompact(c) \/ MarkCancelling(c)
    BY <2>2, BeginRunSafe, BeginCompactSafe, MarkCancellingSafe
  <2>3. CASE \E a \in Asks : ReplyLoad(c, a)
    BY <2>3, ReplyLoadSafe
  <2>. QED BY <1>1, <2>1, <2>2, <2>3 DEF ClientStarts
<1>2. CASE Leaves(c)
  BY <1>2, FinishDetachCancelSafe, OnClientDetachedSafe DEF Leaves
<1>3. CASE Begins(c)
  BY <1>3, PublishRunningSafe, StartAgentSafe, StartCompactSafe DEF Begins
<1>4. CASE Cancels(c)
  BY <1>4, PublishCancellingSafe, CancelAgentSafe DEF Cancels
<1>5. CASE Answers(c)
  BY <1>5, ReplyCheckSafe, ReplyTakeOverSafe, ReplyClaimSafe DEF Answers
<1>. QED BY <1>1, <1>2, <1>3, <1>4, <1>5 DEF ClientContinues

\* Every step of an agent's goroutine.
LEMMA AgentSafe ==
  ASSUME RunAssumption, IInv, NEW r \in Runs, AgentContinues(r) \/ AgentProceeds(r)
  PROVE  IInv'
<1>1. CASE CompactLock(r) \/ CompactIdle(r) \/ CompactReport(r)
  BY <1>1, CompactLockSafe, CompactIdleSafe, CompactReportSafe
<1>2. CASE CompactEnds(r)
  BY <1>2, CompactReturnsSafe DEF CompactEnds
<1>3. CASE CallModel(r) \/ AutoCompact(r) \/ AutoCompactDone(r) \/ AutoCompactError(r)
  BY <1>3, CallModelSafe, AutoCompactSafe, AutoCompactDoneSafe, AutoCompactErrorSafe
<1>4. CASE Retry(r) \/ RetryNow(r) \/ CallTools(r) \/ ToolsDone(r)
  BY <1>4, RetrySafe, RetryNowSafe, CallToolsSafe, ToolsDoneSafe
<1>5. CASE Ask(r) \/ \E a \in Asks : Answered(r, a)
  BY <1>5, AskSafe, AnsweredSafe
<1>6. CASE Answer(r) \/ Fail(r)
  BY <1>6, AnswerSafe, FailSafe
<1>7. CASE FinishRun(r) \/ UnlockRun(r)
  BY <1>7, FinishRunSafe, UnlockRunSafe
<1>. QED BY <1>1, <1>2, <1>3, <1>4, <1>5, <1>6, <1>7 DEF AgentContinues, AgentProceeds

\* Every step of an event loop.
LEMMA EventLoopSafe ==
  ASSUME RunAssumption, IInv, NEW r \in Runs, EventLoop(r)
  PROVE  IInv'
<1>1. CASE Transition(r) \/ PublishTransition(r) \/ ReceiveCompaction(r)
  BY <1>1, TransitionSafe, PublishTransitionSafe, ReceiveCompactionSafe
<1>2. CASE ReceiveAsk(r) \/ StoreAsk(r) \/ TellAsk(r)
  BY <1>2, ReceiveAskSafe, StoreAskSafe, TellAskSafe
<1>3. CASE FinishCancelling(r) \/ PublishEnd(r)
  BY <1>3, FinishCancellingSafe, PublishEndSafe
<1>4. CASE CancelPendingInteractions(r) \/ SetIdle(r)
  BY <1>4, CancelPendingInteractionsSafe, SetIdleSafe
<1>. QED BY <1>1, <1>2, <1>3, <1>4 DEF EventLoop

\* The strengthened invariant, which every step of every goroutine keeps.
THEOREM InvCorrect == Spec => []IInv
<1>1. Init => IInv
  BY RunAssumption, InitSafe
<1>2. IInv /\ [Next]_vars => IInv'
  <2>. SUFFICES ASSUME IInv, [Next]_vars PROVE IInv'
    OBVIOUS
  <2>1. CASE Next
    BY <2>1, RunAssumption, ClientSafe, AgentSafe, EventLoopSafe DEF Next
  <2>2. CASE UNCHANGED vars
    BY <2>2, StutterSafe
  <2>. QED BY <2>1, <2>2
<1>. QED BY <1>1, <1>2, PTL DEF Spec

-----------------------------------------------------------------------------
(* What follows.                                                           *)

\* The work is done while the session is busy with it.
LEMMA InvWork == ASSUME IInv PROVE WorkIsExclusive
<1>0. Kinds /\ Closed /\ Reserved
  BY DEF IInv, WorkInv
<1>. SUFFICES ASSUME NEW r \in Runs, work[r].pc \in Chatting \cup {"lock", "compact"}
              PROVE  rt.runID = r /\ rt.status # "idle"
  BY DEF WorkIsExclusive, Chatting
<1>1. CASE work[r].pc \in Chatting
  <2>1. loop[r].pc # "none" /\ work[r].pc \notin {"unlock", "done"}
    BY <1>0, <1>1 DEF Kinds, KindAt, Chatting
  <2>2. loop[r].pc # "done"
    BY <1>0, <2>1 DEF Closed, ClosedAt, Ending
  <2>. QED BY <1>0, <2>1, <2>2 DEF Reserved, ReservedAt
<1>2. CASE work[r].pc \in {"lock", "compact"}
  BY <1>0, <1>2 DEF Reserved, ReservedAt, Compacting
<1>. QED BY <1>1, <1>2

\* The questions belong to the run, and get one answer from who may give it.
LEMMA InvQuestions == ASSUME IInv PROVE QuestionsAreKept
<1>0. Types /\ Open /\ Reserved /\ Stages /\ OwnerAnswers
  BY DEF IInv, WorkInv, AskInv
<1>1. PendingBelongsToRun
  <2>. SUFFICES ASSUME NEW p \in pending PROVE p.run = rt.runID /\ rt.status # "idle"
    BY DEF PendingBelongsToRun
  <2>1. p.run \in Runs /\ loop[p.run].pc \notin {"none", "done"}
    BY <1>0 DEF Types, Question, Open
  <2>. QED BY <1>0, <2>1 DEF Reserved, ReservedAt
<1>2. OneAnswer
  BY <1>0 DEF Stages, OneAnswer
<1>. QED BY <1>0, <1>1, <1>2 DEF QuestionsAreKept

\* What was told is one lifecycle, and complete when the loop is over.
LEMMA InvTold == ASSUME IInv PROVE RunIsTold
<1>0. Order /\ Ends
  BY DEF IInv, ToldInv
<1>1. LifecycleOrder
  BY <1>0 DEF Order, Ordered, LifecycleOrder
<1>2. EndedRunIsTold
  <2>. SUFFICES ASSUME NEW r \in Runs, loop[r].pc = "done", ~loop[r].compactFailed
                PROVE  \E state \in Terminal : Published(r, state)
    BY DEF EndedRunIsTold, LoopAt
  <2>1. HasEnd(log[r])
    BY <1>0 DEF Ends, EndAt, Ending
  <2>. QED BY <2>1 DEF HasEnd, Published
<1>. QED BY <1>1, <1>2 DEF RunIsTold

\* While an agent's goroutine works on a run the session is busy with that run,
\* so no other run is reserved and the runtime is not unloaded, for any number of
\* connections, runs and questions.
THEOREM WorkIsExclusiveCorrect == Spec => []WorkIsExclusive
<1>1. IInv => WorkIsExclusive
  BY InvWork
<1>. QED BY <1>1, InvCorrect, PTL

\* A question belongs to the session's run, gets one answer at most, and from its
\* owner unless the owner was away while it was open.
THEOREM QuestionsAreKeptCorrect == Spec => []QuestionsAreKept
<1>1. IInv => QuestionsAreKept
  BY InvQuestions
<1>. QED BY <1>1, InvCorrect, PTL

\* The clients are told one lifecycle of every chat run, with an end.
THEOREM RunIsToldCorrect == Spec => []RunIsTold
<1>1. IInv => RunIsTold
  BY InvTold
<1>. QED BY <1>1, InvCorrect, PTL

=============================================================================
