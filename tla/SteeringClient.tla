--------------------------- MODULE SteeringClient ---------------------------
(***************************************************************************)
(* The terminal's side of a run (internal/tui): what the user types while  *)
(* it executes, and how two unordered paths, the notifications of the      *)
(* connection and the responses of the calls, are merged into what the     *)
(* screen shows (run_lifecycle.go, events.go, chat_input.go,               *)
(* protocol_results.go).  The daemon's side is what a client can see of    *)
(* RunLifecycle and Steering: a connection's requests are served one after *)
(* the other while the run goes on.                                        *)
(*                                                                         *)
(* A text is a number.  The draft and a message are sets of texts, since   *)
(* what comes back is joined with what is there.                           *)
(***************************************************************************)
EXTENDS Naturals, FiniteSets, SequencesExt

CONSTANTS
  MaxRuns,     \* bound: runs of the session
  MaxTexts,    \* bound: texts the user types
  MaxSteers,   \* bound: messages sent to a run
  MaxGiveUps,  \* bound: calls whose answer is not waited for any longer
  MaxWire      \* bound: notifications on the way

ASSUME SteeringClientAssumption ==
  /\ MaxRuns \in Nat \ {0} /\ MaxTexts \in Nat /\ MaxSteers \in Nat /\ MaxGiveUps \in Nat /\ MaxWire \in Nat

VARIABLES
  tui,       \* the client
  typed,     \* texts typed so far
  gaveUp,    \* texts whose call was given up
  sent,      \* messages sent to a run, and what became of them there
  calls,     \* calls the daemon has not begun to serve
  busy,      \* the call it is serving
  replies,   \* responses the client has not handled
  wire,      \* notifications the client has not handled, in order
  srv        \* the session's run

clientVars == <<tui, typed, gaveUp, sent, calls, busy, replies, wire, srv>>

None == [op |-> "none", id |-> 0]
Note(type, n) == [type |-> type, of |-> n]

Text(id) == sent[id].text
Texts(ids) == UNION {Text(id) : id \in ids}

\* The messages that are waiting at the daemon.
Queued == {id \in DOMAIN sent : sent[id].state = "queued"}

-----------------------------------------------------------------------------
(* The client.  subs are the messages whose call has not been answered, and*)
(* those that wait for the rest to be answered.  Not in the code: lost, the*)
(* texts the client has let go of, and missed, what it was told while the   *)
(* session was being opened.                                               *)

InState(t, state) == {s.id : s \in {x \in t.subs : x.state = state}}

\* canSteerCurrentRun.
CanSteer(t) == t.loading /\ t.control /\ t.active # 0 /\ ~t.cancelling

\* Mutant of Resolve: those that failed while others were open are forgotten.
ResolveLast(t, id, state) ==
  LET marked == {IF s.id = id THEN [s EXCEPT !.state = state] ELSE s : s \in t.subs}
      u == [t EXCEPT !.subs = marked]
  IN IF \/ \A s \in t.subs : s.id # id
        \/ \E s \in marked : s.state = "open" THEN u
     ELSE [u EXCEPT !.subs = {}, !.draft = @ \cup IF state = "failed" THEN Text(id) ELSE {}]

\* resolveSteeringSubmission: the texts that failed come back once nothing is open.
Resolve(t, id, state) ==
  LET marked == {IF s.id = id THEN [s EXCEPT !.state = state] ELSE s : s \in t.subs}
      u == [t EXCEPT !.subs = marked]
  IN IF \/ \A s \in t.subs : s.id # id
        \/ \E s \in marked : s.state = "open" THEN u
     ELSE [u EXCEPT !.subs = {}, !.draft = @ \cup Texts(InState(u, "failed"))]

\* Mutant of RestoreUnresolved: forgets that the daemon took some of them.
RestoreAll(t) ==
  [t EXCEPT !.subs = {}, !.draft = @ \cup Texts({s.id : s \in t.subs})]

\* restoreUnresolvedSteeringSubmissions: those that failed before do not come back.
RestoreUnresolved(t) ==
  [t EXCEPT !.subs = {}, !.draft = @ \cup Texts(InState(t, "open")),
            !.lost = @ \cup Texts(InState(t, "failed"))]

\* handleSteeringNotification's first condition.
Outdated(t, r) == r = t.completed \/ (t.active # 0 /\ r # t.active)

\* Mutant of Merge: what was decided before is not remembered.
MergeForgetful(t, state, id) ==
  LET u == Resolve(t, id, "ok")
  IN IF Outdated(t, sent[id].run)
     THEN IF state = "removed" /\ id \notin t.tombs THEN [t EXCEPT !.lost = @ \cup Text(id)] ELSE t
     ELSE IF state = "queued" THEN [u EXCEPT !.pending = @ \cup {id}]
     ELSE [u EXCEPT !.pending = @ \ {id}, !.tombs = @ \cup {id},
                    !.draft = IF state \in {"removed", "rejected"} /\ id \notin t.tombs
                              THEN @ \cup Text(id) ELSE @]

\* handleSteeringNotification, for a notification or the response of a call.
Merge(t, state, id) ==
  LET u == Resolve(t, id, "ok")
  IN IF Outdated(t, sent[id].run)
     THEN IF state = "removed" /\ id \notin t.tombs THEN [t EXCEPT !.lost = @ \cup Text(id)] ELSE t
     ELSE IF state = "queued"
     THEN IF id \in t.tombs THEN u ELSE [u EXCEPT !.pending = @ \cup {id}]
     ELSE [u EXCEPT !.pending = @ \ {id}, !.tombs = @ \cup {id},
                    !.draft = IF state \in {"removed", "rejected"} /\ id \notin t.tombs
                              THEN @ \cup Text(id) ELSE @]

EnterCancelling(t) == [t EXCEPT !.cancelling = TRUE, !.control = FALSE, !.loading = TRUE]

\* agent.run running: a run the client has not seen takes over.
Running(t, r) ==
  LET u == IF r = t.active THEN t
           ELSE [RestoreUnresolved(t) EXCEPT !.pending = {}, !.tombs = {}]
      v == [u EXCEPT !.active = r, !.completed = 0]
  IN IF r = t.completed THEN t
     ELSE IF t.cancelling THEN v
     ELSE [v EXCEPT !.control = srv.mine[r], !.loading = TRUE]

\* agent.run done, failed or cancelled.
Ended(t, r) ==
  IF r = t.completed \/ (t.active # 0 /\ r # t.active) THEN t
  ELSE [RestoreUnresolved(t) EXCEPT
          !.completed = r, !.pending = {}, !.control = FALSE, !.cancelling = FALSE,
          !.loading = FALSE, !.active = 0]

\* A failed compaction, which is told instead of the run's end.
CompactFailed(t) == [t EXCEPT !.cancelling = FALSE, !.loading = FALSE]

\* A compaction that a cancel came too late for counts as cancelled.
CompactDone(t) == IF t.cancelling THEN CompactFailed(t) ELSE t

\* session.updated, when it says idle.
Idle(t) ==
  IF t.at # "open" THEN t
  ELSE [t EXCEPT !.control = FALSE, !.loading = @ /\ t.cancelling]

\* handleNotificationMsg: the start page takes no notification of a run.
Handled(t, n) ==
  IF t.at = "welcome" /\ n.type # "idle" THEN t
  ELSE CASE n.type = "idle" -> Idle(t)
         [] n.type = "running" -> Running(t, n.of)
         [] n.type = "cancelling" -> IF n.of = t.completed THEN t ELSE EnterCancelling(t)
         [] n.type = "end" -> Ended(t, n.of)
         [] n.type = "compactError" -> CompactFailed(t)
         [] n.type = "compactDone" -> CompactDone(t)
         [] OTHER -> Merge(t, n.type, n.of)

\* applySessionSnapshot of a session that was not open: all that was known of a
\* run is forgotten first.
Apply(t, s) ==
  LET u == [t EXCEPT !.at = "open", !.completed = 0, !.active = s.run, !.cancelling = FALSE,
                     !.control = s.run # 0 /\ s.control, !.pending = s.pending,
                     !.subs = {}, !.tombs = {}, !.loading = @ \/ s.run # 0]
  IN IF s.cancelling THEN EnterCancelling(u) ELSE u

-----------------------------------------------------------------------------

Fresh == [draft |-> {}, subs |-> {}, pending |-> {}, tombs |-> {}, active |-> 0, completed |-> 0,
          control |-> FALSE, loading |-> FALSE, cancelling |-> FALSE, at |-> "open",
          lost |-> {}, missed |-> {}]
NoRun == [run |-> 0, mode |-> "idle", told |-> TRUE, cancelling |-> FALSE,
          mine |-> [r \in 1 .. MaxRuns |-> TRUE], late |-> FALSE]

\* The session is open and idle; or it is being opened, from the start page or
\* the chat page, while a run executes that has come over to this client, or has
\* not, with a message of somebody else in its queue, or none.
ClientInit ==
  /\ typed = 0 /\ gaveUp = {} /\ calls = {} /\ replies = {} /\ wire = <<>>
  /\ \/ tui = Fresh /\ srv = NoRun /\ sent = <<>> /\ busy = None
     \/ \E at \in {"welcome", "chat"}, mine \in BOOLEAN, k \in 0 .. 1 :
          /\ tui = [Fresh EXCEPT !.at = at]
          /\ srv = [NoRun EXCEPT !.run = 1, !.mode = "running", !.told = FALSE, !.mine[1] = mine]
          /\ sent = [i \in 1 .. k |-> [run |-> 1, text |-> {}, state |-> "queued"]]
          /\ busy = [op |-> "attach", id |-> 0]

Call(op, id) == calls' = calls \cup {[op |-> op, id |-> id]}
Quietly == UNCHANGED <<replies, wire, srv, busy>>

\* Enter: what is typed goes, with what has come back, to the run; or it begins one.
Enter ==
  /\ tui.at = "open"
  /\ \E new \in 0 .. 1 :
       /\ typed + new <= MaxTexts /\ typed' = typed + new
       /\ LET text == tui.draft \cup (typed + 1 .. typed + new)
              id == Len(sent) + 1
          IN /\ text # {}
             /\ \/ /\ CanSteer(tui) /\ Len(sent) < MaxSteers
                   /\ sent' = Append(sent, [run |-> tui.active, text |-> text, state |-> "sent"])
                   /\ Call("steer", id)
                   /\ tui' = [tui EXCEPT !.draft = {}, !.subs = @ \cup {[id |-> id, state |-> "open"]}]
                \/ /\ ~tui.loading /\ ~tui.cancelling /\ Len(sent) < MaxSteers
                   /\ sent' = Append(sent, [run |-> 0, text |-> text, state |-> "sent"])
                   /\ Call("send", id)
                   /\ tui' = [tui EXCEPT !.draft = {}, !.completed = 0, !.control = TRUE, !.loading = TRUE]
  /\ Quietly /\ UNCHANGED gaveUp

\* Ctrl+Z: the last message of the list, in whatever order they got there, is
\* asked back.
AskBack ==
  /\ tui.at = "open" /\ CanSteer(tui) /\ InState(tui, "open") = {}
  /\ \E last \in tui.pending : Call("remove", last)
  /\ Quietly /\ UNCHANGED <<tui, typed, gaveUp, sent>>

\* Esc.
Cancel ==
  /\ tui.at = "open" /\ tui.loading /\ tui.control /\ ~tui.cancelling
  /\ tui' = EnterCancelling(tui) /\ Call("cancel", 0)
  /\ Quietly /\ UNCHANGED <<typed, gaveUp, sent>>

\* A call of a message takes too long: it counts as failed.
GiveUp ==
  \E id \in InState(tui, "open") :
    /\ Cardinality(gaveUp) < MaxGiveUps /\ \A x \in replies : x.id # id
    /\ gaveUp' = gaveUp \cup {id}
    /\ tui' = Resolve(tui, id, "failed")
    /\ Quietly /\ UNCHANGED <<typed, sent, calls>>

HandleNote ==
  /\ wire # <<>> /\ wire' = Tail(wire)
  /\ tui' = IF tui.at = "open" THEN Handled(tui, Head(wire))
            ELSE [Handled(tui, Head(wire)) EXCEPT !.missed = @ \cup {Head(wire)}]
  /\ UNCHANGED <<typed, gaveUp, sent, calls, busy, replies, srv>>

\* handleProtocolResultMsg.
Reply(x) ==
  CASE x.op = "attach" -> Apply(tui, x)
    [] x.op = "steer" /\ x.ok -> Merge(Resolve(tui, x.id, "ok"), "queued", x.id)
    [] x.op = "steer" /\ ~x.ok -> Resolve(tui, x.id, "failed")
    [] x.op = "remove" /\ x.ok -> Merge(tui, "removed", x.id)
    [] x.op = "cancel" /\ ~x.ok -> [tui EXCEPT !.cancelling = FALSE, !.control = TRUE]
    [] x.op = "send" /\ ~x.ok -> [tui EXCEPT !.lost = @ \cup Text(x.id)]
    [] OTHER -> tui

HandleReply ==
  \E x \in replies :
    /\ replies' = replies \ {x}
    /\ tui' = Reply(x)
    /\ UNCHANGED <<typed, gaveUp, sent, calls, busy, wire, srv>>

-----------------------------------------------------------------------------
(* The daemon: the connection's requests, then the run.                    *)

Room(n) == Len(wire) + n <= MaxWire
Told(notes) == Room(Len(notes)) /\ wire' = wire \o notes
\* A response the client does nothing with is left out.
Answer(op, id, ok) ==
  replies' = IF (op = "steer" /\ id \in gaveUp) \/ (op \in {"send", "cancel"} /\ ok) THEN replies
             ELSE replies \cup {[op |-> op, id |-> id, ok |-> ok]}
Begin(op, id) == busy = None /\ [op |-> op, id |-> id] \in calls /\ calls' = calls \ {[op |-> op, id |-> id]}
Mine == srv.mine[srv.run]

\* The snapshot of handleSessionAttach, after which the connection is told all;
\* also how the session is.
Snapshot ==
  /\ busy.op = "attach" /\ busy' = None
  /\ Told(IF srv.mode = "idle" THEN <<Note("idle", 0)>> ELSE <<>>)
  /\ replies' = replies \cup
       {IF srv.mode = "idle"
        THEN [op |-> "attach", id |-> 0, run |-> 0, cancelling |-> FALSE, control |-> FALSE, pending |-> {}]
        ELSE [op |-> "attach", id |-> 0, run |-> srv.run, cancelling |-> srv.cancelling /\ ~srv.told,
              control |-> Mine /\ ~(srv.cancelling /\ ~srv.told), pending |-> Queued]}
  /\ UNCHANGED <<tui, typed, gaveUp, sent, calls, srv>>

\* agent.sendMessage begins a run, or the session is busy.
StartRun(id) ==
  /\ Begin("send", id)
  /\ IF srv.mode = "idle"
     THEN /\ srv.run < MaxRuns /\ Told(<<Note("running", srv.run + 1)>>)
          /\ srv' = [srv EXCEPT !.run = @ + 1, !.mode = "running", !.told = FALSE, !.cancelling = FALSE]
          /\ sent' = [sent EXCEPT ![id].state = "applied"] /\ Answer("send", id, TRUE)
     ELSE /\ sent' = [sent EXCEPT ![id].state = "busy"] /\ Answer("send", id, FALSE)
          /\ UNCHANGED <<srv, wire>>
  /\ UNCHANGED <<tui, typed, gaveUp, busy>>

\* handleSteer puts the message into the mailbox of the run it names, and tells
\* of it later; or refuses it, because the run is over or cancelled, waits for an
\* answer or has too much in its mailbox.
Accept(id) ==
  /\ Begin("steer", id)
  /\ srv.mode = "running" /\ Mine /\ ~srv.cancelling /\ sent[id].run = srv.run
  /\ sent' = [sent EXCEPT ![id].state = "queued"]
  /\ busy' = [op |-> "steer", id |-> id]
  /\ UNCHANGED <<tui, typed, gaveUp, replies, wire, srv>>

Refuse(id) ==
  /\ Begin("steer", id)
  /\ sent' = [sent EXCEPT ![id].state = "refused"] /\ Answer("steer", id, FALSE)
  /\ UNCHANGED <<tui, typed, gaveUp, busy, wire, srv>>

\* handleSteerRemove.
TakeBack(id) ==
  /\ Begin("remove", id)
  /\ IF srv.mode = "running" /\ Mine /\ ~srv.cancelling /\ id \in Queued
     THEN /\ sent' = [sent EXCEPT ![id].state = "removed"] /\ busy' = [op |-> "remove", id |-> id]
          /\ UNCHANGED replies
     ELSE Answer("remove", id, FALSE) /\ UNCHANGED <<sent, busy>>
  /\ UNCHANGED <<tui, typed, gaveUp, wire, srv>>

Confirm ==
  /\ busy.op \in {"steer", "remove"} /\ busy' = None
  /\ Told(<<Note(IF busy.op = "steer" THEN "queued" ELSE "removed", busy.id)>>)
  /\ Answer(busy.op, busy.id, TRUE)
  /\ UNCHANGED <<tui, typed, gaveUp, sent, calls, srv>>

\* agent.cancel: refused once the run's end was told, or the session is idle.
CancelRun ==
  /\ Begin("cancel", 0)
  /\ IF srv.mode # "idle" /\ Mine /\ ~srv.told
     THEN /\ Answer("cancel", 0, TRUE)
          /\ srv' = [srv EXCEPT !.cancelling = TRUE, !.late = @ \/ srv.mode = "closing"]
          /\ IF srv.cancelling THEN UNCHANGED wire ELSE Told(<<Note("cancelling", srv.run)>>)
     ELSE Answer("cancel", 0, FALSE) /\ UNCHANGED <<srv, wire>>
  /\ UNCHANGED <<tui, typed, gaveUp, sent, busy>>

ServeCalls == \E c \in calls : StartRun(c.id) \/ Accept(c.id) \/ Refuse(c.id) \/ TakeBack(c.id)

\* The one order of the queue: by age.
InOrder == {ids \in SetToSeqs(Queued) : \A i, j \in DOMAIN ids : i < j => ids[i] < ids[j]}
Became(type, ids) == [i \in DOMAIN ids |-> Note(type, ids[i])]
Decided(state) == sent' = [id \in DOMAIN sent |-> IF id \in Queued THEN [sent[id] EXCEPT !.state = state] ELSE sent[id]]

\* The run takes what is queued and calls the model again.
Take ==
  /\ srv.mode = "running" /\ Queued # {}
  /\ \E ids \in InOrder :
       Told(Became("applied", ids) \o (IF srv.cancelling THEN <<>> ELSE <<Note("running", srv.run)>>))
  /\ Decided("applied")
  /\ UNCHANGED <<tui, typed, gaveUp, calls, busy, replies, srv>>

\* It has compacted its context; bound: only one that a cancel came too late for.
Compact ==
  /\ srv.mode = "running" /\ srv.cancelling /\ Told(<<Note("compactDone", srv.run)>>)
  /\ UNCHANGED <<tui, typed, gaveUp, sent, calls, busy, replies, srv>>

\* Bound: no response is on its way from one run to the end of the next.
InTime == \A x \in replies : x.op \in {"steer", "remove"} => sent[x.id].run = srv.run

\* It is done, with nothing queued.
Finish ==
  /\ srv.mode = "running" /\ Queued = {} /\ InTime
  /\ Told(<<Note("end", srv.run)>>)
  /\ srv' = [srv EXCEPT !.mode = "over", !.told = TRUE]
  /\ UNCHANGED <<tui, typed, gaveUp, sent, calls, busy, replies>>

\* It fails: what is queued is rejected, the newest first, before the end is told;
\* of a compaction that failed, only the failure is told.
Fail ==
  /\ srv.mode = "running" /\ InTime
  /\ \E compact \in BOOLEAN, ids \in InOrder :
       LET end == IF compact THEN Note("compactError", srv.run) ELSE Note("end", srv.run)
           rejected == Reverse(Became("rejected", ids))
       IN /\ Told(IF compact THEN <<end>> \o rejected ELSE Append(rejected, end))
          /\ srv' = [srv EXCEPT !.mode = "over", !.told = ~compact]
  /\ Decided("rejected")
  /\ UNCHANGED <<tui, typed, gaveUp, calls, busy, replies>>

\* finishCancelling.
Close ==
  /\ srv.mode = "over"
  /\ IF srv.cancelling /\ ~srv.told
     THEN Told(<<Note("end", srv.run)>>) /\ srv' = [srv EXCEPT !.mode = "closing", !.told = TRUE]
     ELSE srv' = [srv EXCEPT !.mode = "closing"] /\ UNCHANGED wire
  /\ UNCHANGED <<tui, typed, gaveUp, sent, calls, busy, replies>>

SetIdle ==
  /\ srv.mode = "closing" /\ Told(<<Note("idle", srv.run)>>)
  /\ srv' = [srv EXCEPT !.mode = "idle"]
  /\ UNCHANGED <<tui, typed, gaveUp, sent, calls, busy, replies>>

ClientNext ==
  \/ Enter \/ AskBack \/ Cancel \/ GiveUp \/ HandleNote \/ HandleReply
  \/ Snapshot \/ ServeCalls \/ Confirm \/ CancelRun
  \/ Take \/ Compact \/ Finish \/ Fail \/ Close \/ SetIdle

ClientSpec == ClientInit /\ [][ClientNext]_clientVars

-----------------------------------------------------------------------------

Settled ==
  /\ calls = {} /\ replies = {} /\ wire = <<>> /\ busy = None
  /\ srv.mode = "idle" /\ tui.at = "open"

\* Once nothing is on the way, every text the user has sent was taken by a run or
\* is back in the draft: whatever came first, the response, the notification or
\* the end of the run.  The client lets go of a text in three places, told of in
\* the README: lost.
NothingLost ==
  Settled => 1 .. typed \subseteq tui.draft \cup tui.lost
                                 \cup Texts({id \in DOMAIN sent : sent[id].state = "applied"})

\* A text never comes back to the draft while the daemon has it in the queue or
\* has given it to the model, where it would be said twice; except that the user
\* gave up waiting for the answer.
NotTwice ==
  tui.draft \cap Texts({id \in DOMAIN sent : sent[id].state \in {"queued", "applied"}}) \subseteq Texts(gaveUp)

\* Both: a text has one place, at the daemon or in the draft.
EachTextOnce == NothingLost /\ NotTwice

\* Once nothing is on the way and no run executes, the screen shows none: no
\* message waits, nothing spins, and the user can type.  Except for what was told
\* while the session was being opened, for a cancel that was accepted after the
\* daemon's last look for one, and for a message the session was too busy for.
ShowsTheEnd ==
  Settled /\ ~srv.late /\ (\A id \in DOMAIN sent : sent[id].state # "busy") =>
    /\ tui.subs = {}
    /\ tui.loading \/ tui.cancelling => \E n \in tui.missed : n.type \in {"end", "compactError", "idle"} /\ n.of # 0
    /\ \A id \in tui.pending : \E n \in tui.missed : n.type \in {"applied", "rejected"} /\ n.of = id

=============================================================================
