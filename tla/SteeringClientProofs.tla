------------------------ MODULE SteeringClientProofs -------------------------
(***************************************************************************)
(* Proofs about SteeringClient, for any number of runs, texts, messages    *)
(* and calls given up, and however far responses and notifications are     *)
(* behind.  What the client knows of a message is never wrong, only late:  *)
(* the invariant says of each kind of news on its way what the daemon has  *)
(* done already and what the client cannot have done yet.                  *)
(***************************************************************************)
EXTENDS SteeringClient, SequenceTheorems, FiniteSetTheorems, TLAPS

-----------------------------------------------------------------------------
(* What is on the way, and the types.                                      *)

MessageTypes == {"queued", "removed", "applied", "rejected"}
RunTypes == {"running", "end", "cancelling", "compactError", "compactDone", "idle"}
NoteSet == [type : MessageTypes \cup RunTypes, of : Nat]

\* What a message is once the daemon has taken it.
Accepted == {"queued", "removed", "applied", "rejected"}
Fates == Accepted \cup {"sent", "refused", "busy"}

Ids == DOMAIN sent
Wire == {wire[i] : i \in DOMAIN wire}
Asked(op, id) == [op |-> op, id |-> id] \in calls
Serving(op, id) == busy = [op |-> op, id |-> id]
Opening == busy.op = "attach"
Yes(op, id) == [op |-> op, id |-> id, ok |-> TRUE] \in replies
No(op, id) == [op |-> op, id |-> id, ok |-> FALSE] \in replies
Snapshots == {x \in replies : x.op = "attach"}

Opens == InState(tui, "open")
Faileds == InState(tui, "failed")
SubIds(t) == {s.id : s \in t.subs}
Submitted == SubIds(tui)

\* The run that a notification is of.
RunOf(n) == IF n.type \in MessageTypes THEN sent[n.of].run ELSE n.of

Clients == [draft : SUBSET Nat, subs : SUBSET [id : Nat, state : {"open", "ok", "failed"}],
            pending : SUBSET Nat, tombs : SUBSET Nat, active : Nat, completed : Nat,
            control : BOOLEAN, loading : BOOLEAN, cancelling : BOOLEAN,
            at : {"open", "welcome", "chat"}, lost : SUBSET Nat, missed : SUBSET NoteSet]

MessageSet == [run : Nat, text : SUBSET Nat, state : Fates]
CallSet == [op : {"steer", "send", "remove", "cancel"}, id : Nat]
BusySet == [op : {"steer", "remove", "attach", "none"}, id : Nat]
ReplySet ==
  [op : {"steer", "send", "remove", "cancel"}, id : Nat, ok : BOOLEAN]
    \cup [op : {"attach"}, id : {0}, run : Nat, cancelling : BOOLEAN, control : BOOLEAN, pending : SUBSET Nat]
SessionSet == [run : Nat, mode : {"idle", "running", "over", "closing"}, told : BOOLEAN,
               cancelling : BOOLEAN, mine : [1 .. MaxRuns -> BOOLEAN], late : BOOLEAN]

Types ==
  /\ typed \in Nat /\ gaveUp \subseteq Ids
  /\ sent \in Seq(MessageSet) /\ tui \in Clients /\ srv \in SessionSet
  /\ calls \subseteq CallSet /\ busy \in BusySet /\ replies \subseteq ReplySet /\ wire \in Seq(NoteSet)

\* Everything is about texts, messages and runs there are.
SentKnown ==
  /\ srv.run <= MaxRuns /\ (srv.mode # "idle" => srv.run # 0)
  /\ \A id \in Ids : Text(id) \subseteq 1 .. typed /\ sent[id].run <= srv.run
ClientKnown ==
  /\ tui.draft \subseteq 1 .. typed /\ tui.lost \subseteq 1 .. typed
  /\ tui.pending \subseteq Ids /\ tui.tombs \subseteq Ids /\ Submitted \subseteq Ids
  /\ tui.active <= srv.run /\ tui.completed <= srv.run
CallsKnown ==
  /\ \A op, id : Asked(op, id) => IF op = "cancel" THEN id = 0 ELSE id \in Ids
  /\ \A id : Serving("steer", id) \/ Serving("remove", id) => id \in Ids
RepliesKnown ==
  /\ \A op, id : op # "cancel" /\ (Yes(op, id) \/ No(op, id)) => id \in Ids
  /\ \A x \in Snapshots : x.pending \subseteq Ids /\ x.run <= srv.run
WireKnown == \A n \in Wire :
  /\ n.type \in MessageTypes => n.of \in Ids
  /\ n.type # "idle" => RunOf(n) \in 1 .. srv.run
Known == SentKnown /\ ClientKnown /\ CallsKnown /\ RepliesKnown /\ WireKnown

-----------------------------------------------------------------------------
(* The invariant.                                                          *)

\* A message is sent as long as its call waits; and where it can be.
SentWaits == \A id \in Ids :
  /\ sent[id].state = "sent" <=> Asked("send", id) \/ Asked("steer", id)
  /\ Asked("send", id) => sent[id].run = 0
  /\ Asked("steer", id) => sent[id].run # 0 /\ Text(id) # {}
  /\ Asked("remove", id) => sent[id].state \in Accepted
  /\ sent[id].run = 0 => sent[id].state \in {"sent", "applied", "busy"}
  /\ sent[id].state = "queued" => srv.mode = "running" /\ sent[id].run = srv.run

\* What is told, or about to be, is so.
ToldIsTrue ==
  /\ \A id \in Ids : Serving("steer", id) =>
       /\ sent[id].state \in {"queued", "applied", "rejected"} /\ Text(id) # {}
       /\ sent[id].run = srv.run /\ srv.run # 0
  /\ \A id \in Ids : Serving("remove", id) => sent[id].state = "removed" /\ sent[id].run = srv.run
  /\ \A id \in Ids : Note("queued", id) \in Wire => sent[id].state \in Accepted /\ Text(id) # {}
  /\ \A id \in Ids : Note("removed", id) \in Wire => sent[id].state = "removed"
  /\ \A id \in Ids : Note("applied", id) \in Wire => sent[id].state = "applied"
  /\ \A id \in Ids : Note("rejected", id) \in Wire => sent[id].state = "rejected"

AnsweredTruly ==
  /\ \A id \in Ids : Yes("steer", id) => sent[id].state \in Accepted /\ Text(id) # {} /\ sent[id].run # 0
  /\ \A id \in Ids : No("steer", id) => sent[id].state = "refused"
  /\ \A id \in Ids : Yes("steer", id) \/ No("steer", id) => id \notin gaveUp
  /\ \A id \in Ids : Yes("remove", id) => sent[id].state = "removed"
  /\ \A id \in Ids : No("send", id) => sent[id].state = "busy"
  /\ \A id : ~Yes("send", id) /\ ~Yes("cancel", id)

\* A response of success that comes after its run's end comes before that of the next.
AnsweredInTime == \A id \in Ids :
  Yes("steer", id) \/ Yes("remove", id) =>
    sent[id].run = srv.run \/ (srv.mode = "running" /\ sent[id].run + 1 = srv.run)

\* Notifications are told in the order of the runs, and after the end of a run nothing
\* that only a run tells.
InRun == {"running", "applied", "rejected", "end", "cancelling"}
Before(a, b) ==
  a.type # "idle" /\ b.type # "idle" =>
    /\ RunOf(a) <= RunOf(b)
    /\ a.type = "end" /\ b.type \in InRun => RunOf(a) < RunOf(b)
InRunOrder == \A i, j \in DOMAIN wire : i < j => Before(wire[i], wire[j])

\* The client is not ahead of what it will be told.
NotAhead ==
  /\ \A n \in Wire : n.type # "idle" => tui.active <= RunOf(n) /\ tui.completed <= RunOf(n)
  /\ \A n \in Wire : n.type = "end" => n.of < srv.run \/ srv.told
  /\ \A n \in Wire : n.type = "end" => tui.completed # n.of
  /\ srv.told => srv.mode # "running"
  /\ tui.completed # 0 => tui.completed < srv.run \/ srv.told
  /\ tui.active # 0 => tui.completed = 0

\* While a session is opened the user does nothing.
OpensQuietly ==
  /\ tui.at # "open" =>
       /\ typed = 0 /\ tui.subs = {} /\ srv.run = 1 /\ ~srv.cancelling /\ ~tui.cancelling
       /\ \A op, id : ~Asked(op, id) /\ ~Yes(op, id) /\ ~No(op, id) /\ (Serving(op, id) => op \in {"attach", "none"})
       /\ \A n \in Wire : n.type # "cancelling"
  /\ tui.at = "open" <=> ~Opening /\ Snapshots = {}
  /\ Opening => Snapshots = {}
  /\ \A x, y \in Snapshots : x = y
  /\ \A x \in Snapshots : ~x.cancelling

\* A message of this client's is of the run the client is at, or that run is past.
Ours(id) == sent[id].run # 0 /\ Text(id) # {}
Passed(r) ==
  /\ r < srv.run \/ srv.told
  /\ \A n \in Wire : n.type \in InRun => r < RunOf(n)
AtItsRun == \A id \in Ids : Ours(id) => tui.active = sent[id].run \/ Passed(sent[id].run)

\* Submissions: what is open will be answered, and what failed was refused or given up.
Answerable ==
  /\ \A s, u \in tui.subs : s.id = u.id => s = u
  /\ \A id \in Submitted : tui.active # 0 /\ sent[id].run = tui.active /\ Text(id) # {}
  /\ \A id \in Opens : /\ id \notin gaveUp
                       /\ \/ Asked("steer", id) \/ Serving("steer", id) \/ Yes("steer", id) \/ No("steer", id)
  /\ tui.subs # {} => Opens # {}
  /\ \A id \in Faileds : sent[id].state = "refused" \/ id \in gaveUp
  /\ \A id \in Submitted : sent[id].state \in Accepted \/ id \in Opens \/ id \in Faileds

\* Neither open nor failed is what the client has been told of.
Untold == \A id \in Opens \cup Faileds :
  /\ sent[id].state # "removed" /\ ~Asked("remove", id)
  /\ sent[id].state = "applied" => Note("applied", id) \in Wire
  /\ sent[id].state = "rejected" => Note("rejected", id) \in Wire
  /\ id \notin tui.pending /\ id \notin tui.tombs

\* What waits on the screen was accepted, and what is decided there, by the daemon too.
Pending ==
  /\ \A id \in tui.pending : sent[id].state \in Accepted /\ sent[id].run # 0
  /\ \A id \in tui.tombs : sent[id].state \in {"removed", "applied", "rejected"} /\ sent[id].run # 0
  /\ \A x \in Snapshots : \A id \in x.pending : sent[id].state \in Accepted /\ sent[id].run # 0

\* The removal of a message is about to be told.
Removal(id) == Serving("remove", id) \/ Note("removed", id) \in Wire \/ Yes("remove", id)

\* A text that may still come back, or be given to the model, is nowhere else.
MayReturn(id) ==
  \/ sent[id].state = "removed" /\ Removal(id) /\ id \notin tui.tombs /\ tui.active <= sent[id].run
  \/ sent[id].state = "rejected" /\ Note("rejected", id) \in Wire /\ id \notin tui.tombs
Live(id) ==
  \/ id \in Opens \/ id \in Faileds \/ MayReturn(id)
  \/ sent[id].state \in {"queued", "applied"}
  \/ sent[id].state = "sent" /\ (sent[id].run = 0 \/ (sent[id].run = srv.run /\ srv.mode = "running"))
Given(x) == \E id \in gaveUp : x \in Text(id)
OneLive == \A i, j \in Ids : \A x \in Text(i) :
  i # j /\ Live(i) /\ Live(j) /\ x \in Text(j) => Given(x)
NotInDraft == \A i \in Ids : \A x \in Text(i) : Live(i) /\ x \in tui.draft => Given(x)

\* A text that is not in the draft is with the daemon, or comes back.
Carries(id) ==
  \/ id \in Opens \/ id \in Faileds
  \/ sent[id].state \in {"queued", "applied"}
  \/ sent[id].state = "sent" /\ sent[id].run = 0
  \/ sent[id].state = "busy" /\ No("send", id)
  \/ sent[id].state = "removed" /\ Removal(id) /\ id \notin tui.tombs
  \/ sent[id].state = "rejected" /\ Note("rejected", id) \in Wire /\ id \notin tui.tombs
Somewhere == \A x \in 1 .. typed :
  \/ x \in tui.draft \/ x \in tui.lost
  \/ \E id \in Ids : Carries(id) /\ x \in Text(id)

TextInv ==
  /\ Types /\ Known /\ SentWaits /\ ToldIsTrue /\ AnsweredTruly /\ AnsweredInTime
  /\ InRunOrder /\ NotAhead /\ OpensQuietly /\ AtItsRun
  /\ Answerable /\ Untold /\ Pending /\ OneLive /\ NotInDraft /\ Somewhere

-----------------------------------------------------------------------------
(* The client's operators.                                                 *)

\* Submissions have numbers of their own, and one that is not open waits for one that is.
SubsOK(t) ==
  /\ \A s, u \in t.subs : s.id = u.id => s = u
  /\ t.subs # {} => InState(t, "open") # {}

SameButTexts(t, v) ==
  /\ v.pending = t.pending /\ v.tombs = t.tombs /\ v.active = t.active
  /\ v.completed = t.completed /\ v.control = t.control /\ v.loading = t.loading
  /\ v.cancelling = t.cancelling /\ v.at = t.at /\ v.missed = t.missed

\* The client with a submission marked, as in Resolve.
Mark(t, id, state) ==
  [t EXCEPT !.subs = {IF s.id = id THEN [s EXCEPT !.state = state] ELSE s : s \in t.subs}]

\* Whoever is marked is not open any more.
LEMMA MarkFacts ==
  ASSUME NEW t \in Clients, SubsOK(t), NEW id \in Nat, NEW state \in {"ok", "failed"}
  PROVE  /\ Mark(t, id, state) \in Clients
         /\ Mark(t, id, state).draft = t.draft /\ Mark(t, id, state).lost = t.lost
         /\ SameButTexts(t, Mark(t, id, state))
         /\ \A s, w \in Mark(t, id, state).subs : s.id = w.id => s = w
         /\ SubIds(Mark(t, id, state)) = SubIds(t)
         /\ InState(Mark(t, id, state), "open") = InState(t, "open") \ {id}
         /\ InState(Mark(t, id, state), "failed") = (InState(t, "failed") \ {id}) \cup
              (IF state = "failed" /\ (\E s \in t.subs : s.id = id) THEN {id} ELSE {})
<1> DEFINE f(s) == IF s.id = id THEN [s EXCEPT !.state = state] ELSE s
           marked == {f(s) : s \in t.subs}
           u == [t EXCEPT !.subs = marked]
<1>1. t.subs \subseteq [id : Nat, state : {"open", "ok", "failed"}]
  BY DEF Clients
<1>2. \A s \in t.subs : /\ f(s) \in [id : Nat, state : {"open", "ok", "failed"}]
                        /\ f(s).id = s.id
                        /\ f(s).state = IF s.id = id THEN state ELSE s.state
  BY <1>1
<1>3. u \in Clients /\ u.subs = marked /\ u.draft = t.draft /\ u.lost = t.lost /\ SameButTexts(t, u)
  BY <1>2 DEF Clients, SameButTexts
<1> HIDE DEF f, u
<1>4. \A s, w \in marked : s.id = w.id => s = w
  BY <1>2 DEF SubsOK
<1>5. SubIds(u) = SubIds(t)
  BY <1>2, <1>3 DEF SubIds
<1>6. InState(u, "open") = InState(t, "open") \ {id}
  <2>1. \A i : i \in InState(u, "open") <=> \E s \in t.subs : f(s).id = i /\ f(s).state = "open"
    BY <1>3 DEF InState
  <2>2. \A i : i \in InState(t, "open") <=> \E s \in t.subs : s.id = i /\ s.state = "open"
    BY DEF InState
  <2>3. \A s \in t.subs : f(s).state = "open" <=> s.state = "open" /\ s.id # id
    BY <1>2
  <2>4. QED
    BY <1>2, <2>1, <2>2, <2>3
<1>7. InState(u, "failed") = (InState(t, "failed") \ {id}) \cup
        (IF state = "failed" /\ (\E s \in t.subs : s.id = id) THEN {id} ELSE {})
  <2>1. \A i : i \in InState(u, "failed") <=> \E s \in t.subs : f(s).id = i /\ f(s).state = "failed"
    BY <1>3 DEF InState
  <2>2. \A i : i \in InState(t, "failed") <=> \E s \in t.subs : s.id = i /\ s.state = "failed"
    BY DEF InState
  <2>3. \A s \in t.subs : f(s).state = "failed" <=> IF s.id = id THEN state = "failed" ELSE s.state = "failed"
    BY <1>2
  <2>4. QED
    BY <1>2, <2>1, <2>2, <2>3
<1>8. QED
  <2>1. u = Mark(t, id, state)
    BY DEF f, u, Mark
  <2>2. QED
    BY <1>3, <1>4, <1>5, <1>6, <1>7, <2>1

\* A submission that is resolved is not open any more; once none is, the texts of those that
\* failed are back in the draft.
LEMMA ResolveFacts ==
  ASSUME NEW t \in Clients, SubsOK(t), NEW id \in Nat, NEW state \in {"ok", "failed"},
         \A i \in InState(t, "failed") \cup {id} : Text(i) \subseteq Nat,
         state = "failed" => \E s \in t.subs : s.id = id
  PROVE  LET v == Resolve(t, id, state)
             failed == (InState(t, "failed") \ {id}) \cup (IF state = "failed" THEN {id} ELSE {})
         IN /\ v \in Clients /\ SubsOK(v) /\ SameButTexts(t, v) /\ v.lost = t.lost
            /\ SubIds(v) \subseteq SubIds(t)
            /\ InState(v, "open") = InState(t, "open") \ {id}
            /\ IF InState(v, "open") # {}
               THEN InState(v, "failed") = failed /\ v.draft = t.draft
               ELSE v.subs = {} /\ InState(v, "failed") = {} /\ v.draft = t.draft \cup Texts(failed)
<1> DEFINE u == Mark(t, id, state)
           failed == (InState(t, "failed") \ {id}) \cup (IF state = "failed" THEN {id} ELSE {})
           w == [u EXCEPT !.subs = {}, !.draft = @ \cup Texts(InState(u, "failed"))]
<1>1. /\ u \in Clients
      /\ u.draft = t.draft /\ u.lost = t.lost /\ SameButTexts(t, u)
      /\ \A s, x \in u.subs : s.id = x.id => s = x
      /\ SubIds(u) = SubIds(t)
      /\ InState(u, "open") = InState(t, "open") \ {id}
      /\ InState(u, "failed") = failed
  BY MarkFacts
<1>2. (\E s \in u.subs : s.state = "open") <=> InState(u, "open") # {}
  BY DEF InState
<1>3. Texts(failed) \subseteq Nat
  BY DEF Texts
<1>4. /\ w \in Clients /\ w.subs = {} /\ w.draft = t.draft \cup Texts(failed)
      /\ w.lost = t.lost /\ SameButTexts(t, w)
  <2> HIDE DEF u, failed
  <2> QED BY <1>1, <1>3 DEF Clients, SameButTexts
<1>5. Resolve(t, id, state) = IF (\A s \in t.subs : s.id # id) \/ (\E s \in u.subs : s.state = "open")
                              THEN u ELSE w
  <2>1. u.subs = {IF s.id = id THEN [s EXCEPT !.state = state] ELSE s : s \in t.subs}
    BY DEF Mark, Clients
  <2> HIDE DEF w
  <2>2. QED
    BY <2>1 DEF Resolve, Mark, w
<1> HIDE DEF w, failed
<1>6. CASE \E s \in u.subs : s.state = "open"
  <2>1. Resolve(t, id, state) = u
    BY <1>5, <1>6
  <2>2. SubsOK(u)
    BY <1>1, <1>2, <1>6 DEF SubsOK
  <2> HIDE DEF u
  <2> QED
    BY <1>1, <1>2, <1>6, <2>1, <2>2 DEF failed
<1>7. CASE (\A s \in t.subs : s.id # id) /\ ~(\E s \in u.subs : s.state = "open")
  <2>1. Resolve(t, id, state) = u /\ state = "ok"
    BY <1>5, <1>7
  <2>2. id \notin InState(t, "open")
    BY <1>7 DEF InState
  <2>a. t.subs = {}
    BY <1>1, <1>2, <1>7, <2>2 DEF SubsOK
  <2>b. SubIds(u) = {}
    BY <1>1, <2>a DEF SubIds
  <2>3. u.subs = {}
    BY <2>b DEF SubIds
  <2>4. InState(u, "failed") = {} /\ InState(u, "open") = {}
    BY <2>3 DEF InState
  <2>5. SubsOK(u)
    BY <2>3 DEF SubsOK
  <2>6. failed = {} /\ Texts(failed) = {}
    BY <1>1, <2>4 DEF Texts
  <2> HIDE DEF u
  <2> QED
    BY <1>1, <2>1, <2>b, <2>3, <2>4, <2>5, <2>6 DEF failed
<1>8. CASE (\E s \in t.subs : s.id = id) /\ ~(\E s \in u.subs : s.state = "open")
  <2>1. Resolve(t, id, state) = w
    BY <1>5, <1>8
  <2>2. SubsOK(w) /\ InState(w, "open") = {} /\ InState(w, "failed") = {}
    BY <1>4 DEF SubsOK, InState
  <2>3. SubIds(w) = {}
    BY <1>4 DEF SubIds
  <2> HIDE DEF u
  <2> QED
    BY <1>1, <1>2, <1>4, <1>8, <2>1, <2>2, <2>3 DEF failed
<1>9. QED
  BY <1>6, <1>7, <1>8

\* Submissions that are open come back, those that failed are let go of.
LEMMA RestoreFacts ==
  ASSUME NEW t \in Clients, \A s \in t.subs : Text(s.id) \subseteq Nat
  PROVE  LET v == RestoreUnresolved(t)
         IN /\ v \in Clients /\ SubsOK(v) /\ SameButTexts(t, v) /\ v.subs = {} /\ SubIds(v) = {}
            /\ InState(v, "open") = {} /\ InState(v, "failed") = {}
            /\ v.draft = t.draft \cup Texts(InState(t, "open"))
            /\ v.lost = t.lost \cup Texts(InState(t, "failed"))
<1>1. Texts(InState(t, "open")) \subseteq Nat /\ Texts(InState(t, "failed")) \subseteq Nat
  BY DEF Texts, InState
<1>2. QED
  BY <1>1 DEF RestoreUnresolved, Clients, SubsOK, SubIds, InState, SameButTexts

SameRun(t, v) ==
  /\ v.active = t.active /\ v.completed = t.completed /\ v.control = t.control
  /\ v.loading = t.loading /\ v.cancelling = t.cancelling /\ v.at = t.at /\ v.missed = t.missed
SameSubs(t, v) ==
  /\ v.subs = t.subs /\ SubIds(v) = SubIds(t)
  /\ InState(v, "open") = InState(t, "open") /\ InState(v, "failed") = InState(t, "failed")

\* What is outdated changes nothing but what the client lets go of.
LEMMA MergeOutdated ==
  ASSUME NEW t \in Clients, NEW id \in Nat, NEW state \in MessageTypes, Text(id) \subseteq Nat,
         Outdated(t, sent[id].run)
  PROVE  LET v == Merge(t, state, id)
         IN /\ v \in Clients /\ SameButTexts(t, v) /\ SameSubs(t, v) /\ v.draft = t.draft
            /\ v.lost = IF state = "removed" /\ id \notin t.tombs THEN t.lost \cup Text(id) ELSE t.lost
<1>1. Merge(t, state, id) = IF state = "removed" /\ id \notin t.tombs
                            THEN [t EXCEPT !.lost = @ \cup Text(id)] ELSE t
  BY DEF Merge
<1>2. QED
  BY <1>1 DEF Clients, SameButTexts, SameSubs, SubIds, InState

\* Otherwise the submission is resolved, and what was decided is remembered.
LEMMA MergeFacts ==
  ASSUME NEW t \in Clients, NEW id \in Nat, NEW state \in MessageTypes,
         Text(id) \subseteq Nat, ~Outdated(t, sent[id].run),
         Resolve(t, id, "ok") \in Clients, SameButTexts(t, Resolve(t, id, "ok")),
         Resolve(t, id, "ok").lost = t.lost
  PROVE  LET v == Merge(t, state, id)
             u == Resolve(t, id, "ok")
         IN /\ v \in Clients /\ SameRun(t, v) /\ SameSubs(u, v) /\ v.lost = t.lost
            /\ state = "queued" =>
                 /\ v.pending = IF id \in t.tombs THEN t.pending ELSE t.pending \cup {id}
                 /\ v.tombs = t.tombs /\ v.draft = u.draft
            /\ state # "queued" =>
                 /\ v.pending = t.pending \ {id} /\ v.tombs = t.tombs \cup {id}
                 /\ v.draft = IF state \in {"removed", "rejected"} /\ id \notin t.tombs
                              THEN u.draft \cup Text(id) ELSE u.draft
<1> DEFINE u == Resolve(t, id, "ok")
           w == [u EXCEPT !.pending = @ \ {id}, !.tombs = @ \cup {id},
                    !.draft = IF state \in {"removed", "rejected"} /\ id \notin t.tombs
                              THEN @ \cup Text(id) ELSE @]
           p == [u EXCEPT !.pending = @ \cup {id}]
<1>1. Merge(t, state, id) = IF state = "queued" THEN IF id \in t.tombs THEN u ELSE p ELSE w
  BY DEF Merge
<1>a. u \in Clients /\ SameButTexts(t, u) /\ u.lost = t.lost
  OBVIOUS
<1> HIDE DEF u
<1>2. /\ w \in Clients /\ SameRun(u, w) /\ SameSubs(u, w) /\ w.lost = u.lost
      /\ w.pending = u.pending \ {id} /\ w.tombs = u.tombs \cup {id}
      /\ w.draft = IF state \in {"removed", "rejected"} /\ id \notin t.tombs
                   THEN u.draft \cup Text(id) ELSE u.draft
  BY <1>a DEF Clients, SameRun, SameSubs, SubIds, InState
<1>3. /\ p \in Clients /\ SameRun(u, p) /\ SameSubs(u, p) /\ p.lost = u.lost
      /\ p.pending = u.pending \cup {id} /\ p.tombs = u.tombs /\ p.draft = u.draft
  BY <1>a DEF Clients, SameRun, SameSubs, SubIds, InState
<1>4. SameRun(u, u) /\ SameSubs(u, u)
  BY DEF SameRun, SameSubs
<1> HIDE DEF w, p
<1>5. QED
  BY <1>1, <1>2, <1>3, <1>4, <1>a DEF SameButTexts, SameRun, u

\* A run that has begun takes the place of the one before.
LEMMA RunningFacts ==
  ASSUME NEW t \in Clients, NEW r \in Nat, srv.mine[r] \in BOOLEAN, r # t.completed, SubsOK(t),
         \A s \in t.subs : Text(s.id) \subseteq Nat
  PROVE  LET v == Running(t, r)
         IN /\ v \in Clients /\ SubsOK(v)
            /\ v.active = r /\ v.completed = 0 /\ v.at = t.at /\ v.missed = t.missed
            /\ v.cancelling = t.cancelling /\ (v.loading => t.loading \/ ~t.cancelling)
            /\ r = t.active =>
                 /\ SameSubs(t, v) /\ v.draft = t.draft /\ v.lost = t.lost
                 /\ v.pending = t.pending /\ v.tombs = t.tombs
            /\ r # t.active =>
                 /\ v.subs = {} /\ SubIds(v) = {} /\ InState(v, "open") = {} /\ InState(v, "failed") = {}
                 /\ v.pending = {} /\ v.tombs = {}
                 /\ v.draft = t.draft \cup Texts(InState(t, "open"))
                 /\ v.lost = t.lost \cup Texts(InState(t, "failed"))
<1> DEFINE z == RestoreUnresolved(t)
           u == IF r = t.active THEN t ELSE [z EXCEPT !.pending = {}, !.tombs = {}]
           v == [u EXCEPT !.active = r, !.completed = 0]
           w == [v EXCEPT !.control = srv.mine[r], !.loading = TRUE]
<1>1. /\ z \in Clients /\ SameButTexts(t, z) /\ z.subs = {}
      /\ z.draft = t.draft \cup Texts(InState(t, "open"))
      /\ z.lost = t.lost \cup Texts(InState(t, "failed"))
  BY RestoreFacts
<1>2. Running(t, r) = IF t.cancelling THEN v ELSE w
  BY DEF Running
<1> HIDE DEF z
<1>a. ASSUME u \in Clients
      PROVE  /\ Running(t, r) \in Clients /\ Running(t, r).subs = u.subs
             /\ Running(t, r).active = r /\ Running(t, r).completed = 0 /\ Running(t, r).at = u.at
             /\ Running(t, r).missed = u.missed /\ Running(t, r).cancelling = u.cancelling
             /\ Running(t, r).draft = u.draft /\ Running(t, r).lost = u.lost
             /\ Running(t, r).pending = u.pending /\ Running(t, r).tombs = u.tombs
             /\ Running(t, r).loading => u.loading \/ ~t.cancelling
  <2> HIDE DEF u
  <2>1. /\ v \in Clients /\ v.subs = u.subs /\ v.active = r /\ v.completed = 0 /\ v.at = u.at
        /\ v.missed = u.missed /\ v.cancelling = u.cancelling /\ v.draft = u.draft /\ v.lost = u.lost
        /\ v.pending = u.pending /\ v.tombs = u.tombs /\ v.loading = u.loading
    BY <1>a DEF Clients
  <2> HIDE DEF v
  <2>2. /\ w \in Clients /\ w.subs = v.subs /\ w.active = v.active /\ w.completed = v.completed /\ w.at = v.at
        /\ w.missed = v.missed /\ w.cancelling = v.cancelling /\ w.draft = v.draft /\ w.lost = v.lost
        /\ w.pending = v.pending /\ w.tombs = v.tombs
    BY <2>1 DEF Clients
  <2> HIDE DEF w
  <2>3. CASE t.cancelling
    BY <1>2, <2>1, <2>3
  <2>4. CASE ~t.cancelling
    BY <1>2, <2>1, <2>2, <2>4
  <2>5. QED
    BY <2>3, <2>4
<1>3. CASE r = t.active
  <2>1. u = t
    BY <1>3
  <2> HIDE DEF u
  <2>2. /\ Running(t, r) \in Clients /\ Running(t, r).subs = t.subs
        /\ Running(t, r).active = r /\ Running(t, r).completed = 0 /\ Running(t, r).at = t.at
        /\ Running(t, r).missed = t.missed /\ Running(t, r).cancelling = t.cancelling
        /\ Running(t, r).draft = t.draft /\ Running(t, r).lost = t.lost
        /\ Running(t, r).pending = t.pending /\ Running(t, r).tombs = t.tombs
        /\ Running(t, r).loading => t.loading \/ ~t.cancelling
    BY <1>a, <2>1
  <2>4. SubsOK(Running(t, r)) /\ SameSubs(t, Running(t, r))
    BY <2>2 DEF SubsOK, SameSubs, SubIds, InState
  <2>5. QED
    BY <1>3, <2>2, <2>4
<1>4. CASE r # t.active
  <2>1. /\ u \in Clients /\ u.at = t.at /\ u.missed = t.missed /\ u.cancelling = t.cancelling
        /\ u.loading = t.loading /\ u.subs = {} /\ u.pending = {} /\ u.tombs = {}
        /\ u.draft = z.draft /\ u.lost = z.lost
    BY <1>1, <1>4 DEF Clients, SameButTexts
  <2> HIDE DEF u
  <2>2. Running(t, r) \in Clients /\ Running(t, r).subs = {}
    BY <1>a, <2>1
  <2>3. /\ SubsOK(Running(t, r)) /\ SubIds(Running(t, r)) = {}
        /\ InState(Running(t, r), "open") = {} /\ InState(Running(t, r), "failed") = {}
    BY <2>2 DEF SubsOK, SubIds, InState
  <2>4. /\ Running(t, r).active = r /\ Running(t, r).completed = 0 /\ Running(t, r).at = t.at
        /\ Running(t, r).missed = t.missed /\ Running(t, r).cancelling = t.cancelling
        /\ Running(t, r).draft = z.draft /\ Running(t, r).lost = z.lost
        /\ Running(t, r).pending = {} /\ Running(t, r).tombs = {}
    BY <1>a, <2>1
  <2>5. Running(t, r).loading => t.loading \/ ~t.cancelling
    BY <1>a, <2>1
  <2>6. QED
    BY <1>1, <1>4, <2>2, <2>3, <2>4, <2>5
<1>5. QED
  BY <1>3, <1>4

\* The end of a run that the client is at.
LEMMA EndedFacts ==
  ASSUME NEW t \in Clients, NEW r \in Nat, ~(r = t.completed \/ (t.active # 0 /\ r # t.active)),
         \A s \in t.subs : Text(s.id) \subseteq Nat
  PROVE  LET v == Ended(t, r)
         IN /\ v \in Clients /\ SubsOK(v)
            /\ v.active = 0 /\ v.completed = r /\ v.at = t.at /\ v.missed = t.missed
            /\ ~v.cancelling /\ ~v.loading
            /\ v.subs = {} /\ SubIds(v) = {} /\ InState(v, "open") = {} /\ InState(v, "failed") = {}
            /\ v.pending = {} /\ v.tombs = t.tombs
            /\ v.draft = t.draft \cup Texts(InState(t, "open"))
            /\ v.lost = t.lost \cup Texts(InState(t, "failed"))
<1> DEFINE z == RestoreUnresolved(t)
<1>1. /\ z \in Clients /\ SameButTexts(t, z) /\ z.subs = {}
      /\ z.draft = t.draft \cup Texts(InState(t, "open"))
      /\ z.lost = t.lost \cup Texts(InState(t, "failed"))
  BY RestoreFacts
<1>2. Ended(t, r) = [z EXCEPT !.completed = r, !.pending = {}, !.control = FALSE,
                              !.cancelling = FALSE, !.loading = FALSE, !.active = 0]
  BY DEF Ended
<1> HIDE DEF z
<1> DEFINE y == [z EXCEPT !.completed = r, !.pending = {}, !.control = FALSE,
                          !.cancelling = FALSE, !.loading = FALSE, !.active = 0]
<1>a. y \in Clients
  BY <1>1 DEF Clients
<1>b. /\ y.subs = z.subs /\ y.active = 0 /\ y.completed = r /\ y.at = z.at
      /\ y.missed = z.missed /\ y.cancelling = FALSE /\ y.loading = FALSE
      /\ y.draft = z.draft /\ y.lost = z.lost /\ y.pending = {} /\ y.tombs = z.tombs
  BY <1>1 DEF Clients
<1>c. Ended(t, r) = y
  BY <1>2
<1> HIDE DEF y
<1>3. /\ Ended(t, r) \in Clients /\ Ended(t, r).subs = {}
      /\ Ended(t, r).active = 0 /\ Ended(t, r).completed = r /\ Ended(t, r).at = t.at
      /\ Ended(t, r).missed = t.missed /\ ~Ended(t, r).cancelling /\ ~Ended(t, r).loading
      /\ Ended(t, r).draft = z.draft /\ Ended(t, r).lost = z.lost
      /\ Ended(t, r).pending = {} /\ Ended(t, r).tombs = t.tombs
  BY <1>1, <1>a, <1>b, <1>c DEF SameButTexts
<1>4. /\ SubsOK(Ended(t, r)) /\ SubIds(Ended(t, r)) = {}
      /\ InState(Ended(t, r), "open") = {} /\ InState(Ended(t, r), "failed") = {}
  BY <1>3 DEF SubsOK, SubIds, InState
<1>5. QED
  BY <1>1, <1>3, <1>4

-----------------------------------------------------------------------------
(* Messages and notifications.                                             *)

\* The messages are the same but for their fates.
MessagesKept ==
  /\ Ids' = Ids
  /\ \A id \in Ids : sent'[id].run = sent[id].run /\ sent'[id].text = sent[id].text

\* The parts of a message.
LEMMA MessageType ==
  ASSUME Types, NEW id \in Ids
  PROVE  /\ sent[id] \in MessageSet
         /\ sent[id].run \in Nat /\ Text(id) \subseteq Nat /\ sent[id].state \in Fates /\ id \in Nat
<1>1. sent \in Seq(MessageSet)
  BY DEF Types
<1>2. sent[id] \in MessageSet /\ id \in Nat
  BY <1>1 DEF Ids
<1>3. QED
  BY <1>2 DEF Text, MessageSet

\* One message changes its state: the others, and every text, stay.
LEMMA OneChanges ==
  ASSUME Types, NEW id \in Ids, NEW s \in Fates, sent' = [sent EXCEPT ![id].state = s]
  PROVE  /\ sent' \in Seq(MessageSet)
         /\ MessagesKept /\ (\A i : Text(i)' = Text(i)) /\ sent'[id].state = s
         /\ \A i \in Ids \ {id} : sent'[i] = sent[i]
<1>1. sent \in Seq(MessageSet) /\ id \in 1 .. Len(sent) /\ sent[id] \in MessageSet
  BY MessageType DEF Types, Ids
<1>2. [sent[id] EXCEPT !.state = s] \in MessageSet
  BY <1>1 DEF MessageSet
<1> DEFINE e == [sent[id] EXCEPT !.state = s]
<1>3. sent' = [sent EXCEPT ![id] = e]
  OBVIOUS
<1>4. e.run = sent[id].run /\ e.text = sent[id].text /\ e.state = s
  BY <1>1 DEF MessageSet
<1> HIDE DEF e
<1>5. /\ sent' \in Seq(MessageSet) /\ Len(sent') = Len(sent)
      /\ \A i \in 1 .. Len(sent) : sent'[i] = IF i = id THEN e ELSE sent[i]
  BY <1>1, <1>2, <1>3, ExceptSeq DEF e
<1>6. Ids' = Ids
  BY <1>1, <1>5 DEF Ids
<1>7. \A i \in Ids : sent'[i].run = sent[i].run /\ sent'[i].text = sent[i].text
  BY <1>1, <1>4, <1>5 DEF Ids
<1>8. QED
  BY <1>1, <1>4, <1>5, <1>6, <1>7 DEF Ids, MessagesKept, Text

\* The whole queue is decided: what was queued has the new state, the rest its own.
LEMMA DecidedFacts ==
  ASSUME Types, NEW s \in Fates, Decided(s)
  PROVE  /\ sent' \in Seq(MessageSet)
         /\ MessagesKept
         /\ \A i \in Ids : sent'[i].state = IF sent[i].state = "queued" THEN s ELSE sent[i].state
<1> DEFINE e(i) == IF i \in Queued THEN [sent[i] EXCEPT !.state = s] ELSE sent[i]
<1>1. Ids = 1 .. Len(sent) /\ Len(sent) \in Nat
  BY DEF Types, Ids
<1>2. \A i \in Ids : sent[i] \in MessageSet
  BY MessageType
<1>3. \A i \in Ids : /\ e(i) \in MessageSet /\ e(i).run = sent[i].run /\ e(i).text = sent[i].text
                     /\ e(i).state = IF sent[i].state = "queued" THEN s ELSE sent[i].state
  BY <1>2 DEF Queued, Ids, MessageSet
<1>4. sent' = [i \in 1 .. Len(sent) |-> e(i)]
  BY <1>1 DEF Decided, Ids
<1> HIDE DEF e
<1>5. sent' \in Seq(MessageSet) /\ Len(sent') = Len(sent) /\ DOMAIN sent' = 1 .. Len(sent)
  BY <1>1, <1>3, <1>4, IsASeq
<1>6. \A i \in Ids : sent'[i] = e(i)
  BY <1>1, <1>4
<1>7. Ids' = Ids
  BY <1>1, <1>5 DEF Ids
<1>8. QED
  BY <1>3, <1>5, <1>6, <1>7 DEF MessagesKept

\* ... and the texts stay.
LEMMA DecidedText ==
  ASSUME Types, NEW s \in Fates, Decided(s)
  PROVE  \A id \in Ids : Text(id)' = Text(id)
BY DecidedFacts DEF MessagesKept, Text

\* The queue in its order names what is queued, and nothing else.
LEMMA InOrderFacts ==
  ASSUME Types, NEW ids \in InOrder
  PROVE  /\ ids \in Seq(Ids) /\ DOMAIN ids = 1 .. Len(ids) /\ Len(ids) \in Nat
         /\ ToSet(ids) = Queued
<1> DEFINE n == Cardinality(Queued)
           R == {ids[i] : i \in 1 .. n}
<1>1. IsFiniteSet(Ids)
  BY FS_Interval DEF Types, Ids
<1>2. IsFiniteSet(Queued) /\ n \in Nat /\ Queued \subseteq Ids
  BY <1>1, FS_Subset, FS_CardinalityType DEF Queued, Ids
<1>3. ids \in [1 .. n -> Queued] /\ \A i, j \in 1 .. n : i # j => ids[i] # ids[j]
  BY DEF InOrder, SetToSeqs
<1> HIDE DEF n
<1>4. R \subseteq Queued
  BY <1>3
<1>5. ids \in Bijection(1 .. n, R)
  <2>1. ids \in [1 .. n -> R] /\ \A y \in R : \E x \in 1 .. n : ids[x] = y
    BY <1>3
  <2> HIDE DEF R
  <2>2. QED
    BY <1>3, <2>1 DEF Bijection, Injection, Surjection, IsInjective
<1>6. Cardinality(R) = n
  <2>1. ExistsBijection(1 .. n, R)
    BY <1>5 DEF ExistsBijection
  <2> HIDE DEF R
  <2>2. QED
    BY <1>2, <2>1, FS_CountingElements
<1>7. R = Queued
  <2> HIDE DEF R
  <2> QED
    BY <1>2, <1>4, <1>6, FS_Subset DEF n
<1>8. ids \in Seq(Ids) /\ Len(ids) = n /\ DOMAIN ids = 1 .. n
  BY <1>2, <1>3
<1>9. QED
  BY <1>2, <1>7, <1>8 DEF ToSet

\* What is told is added to what is on the way.
LEMMA ToldFacts ==
  ASSUME Types, NEW notes \in Seq(NoteSet), wire' = wire \o notes
  PROVE  /\ wire' \in Seq(NoteSet)
         /\ Wire' = Wire \cup ToSet(notes)
<1>1. wire \in Seq(NoteSet) /\ Len(wire) \in Nat /\ Len(notes) \in Nat
  BY DEF Types
<1>2. /\ wire' \in Seq(NoteSet) /\ Len(wire') = Len(wire) + Len(notes)
      /\ \A i \in 1 .. Len(wire) + Len(notes) :
           wire'[i] = IF i <= Len(wire) THEN wire[i] ELSE notes[i - Len(wire)]
  BY <1>1, ConcatProperties
<1>3. DOMAIN wire = 1 .. Len(wire) /\ DOMAIN notes = 1 .. Len(notes) /\ DOMAIN wire' = 1 .. Len(wire')
  BY <1>1, <1>2
<1>4. \A n \in Wire' : n \in Wire \cup ToSet(notes)
  BY <1>1, <1>2, <1>3 DEF Wire, ToSet
<1>5. \A i \in DOMAIN notes : notes[i] \in Wire'
  <2> SUFFICES ASSUME NEW i \in DOMAIN notes PROVE notes[i] \in Wire'
    OBVIOUS
  <2>1. i + Len(wire) \in DOMAIN wire' /\ wire'[i + Len(wire)] = notes[i]
    BY <1>1, <1>2, <1>3
  <2>2. QED
    BY <2>1 DEF Wire
<1>6. \A i \in DOMAIN wire : wire[i] \in Wire'
  BY <1>1, <1>2, <1>3 DEF Wire
<1>7. QED
  BY <1>2, <1>4, <1>5, <1>6 DEF Wire, ToSet

\* The order of the runs is kept by what the daemon's current run tells.
LEMMA ToldInOrder ==
  ASSUME Types, Known, InRunOrder, NotAhead,
         NEW notes \in Seq(NoteSet), wire' = wire \o notes, srv'.run \in Nat, srv.run <= srv'.run,
         \A id \in Ids : sent'[id].run = sent[id].run,
         \A i \in DOMAIN notes : notes[i].type # "idle" => RunOf(notes[i])' = srv'.run,
         (\E i \in DOMAIN notes : notes[i].type \in InRun) => ~srv.told \/ srv.run < srv'.run,
         \A i, j \in DOMAIN notes : i < j /\ notes[i].type = "end" => notes[j].type \notin InRun
  PROVE  InRunOrder'
<1>1. wire \in Seq(NoteSet) /\ Len(wire) \in Nat /\ Len(notes) \in Nat /\ srv.run \in Nat
  BY DEF Types, SessionSet
<1>2. /\ wire' \in Seq(NoteSet) /\ Len(wire') = Len(wire) + Len(notes)
      /\ \A i \in 1 .. Len(wire) + Len(notes) :
           wire'[i] = IF i <= Len(wire) THEN wire[i] ELSE notes[i - Len(wire)]
  BY <1>1, ConcatProperties
<1>3. DOMAIN wire = 1 .. Len(wire) /\ DOMAIN notes = 1 .. Len(notes) /\ DOMAIN wire' = 1 .. Len(wire')
  BY <1>1, <1>2
<1>4. \A n \in Wire : n.type # "idle" => RunOf(n)' = RunOf(n) /\ RunOf(n) \in 1 .. srv.run
  BY DEF Known, WireKnown, RunOf
<1>5. \A a, b \in Wire : Before(a, b) => Before(a, b)'
  BY <1>4 DEF Before
<1>6. \A a \in Wire : \A i \in DOMAIN notes : Before(a, notes[i])'
  <2> SUFFICES ASSUME NEW a \in Wire, NEW i \in DOMAIN notes PROVE Before(a, notes[i])'
    OBVIOUS
  <2>1. a.type # "idle" /\ notes[i].type # "idle" => RunOf(a)' <= RunOf(notes[i])'
    BY <1>1, <1>4
  <2>2. a.type = "end" => RunOf(a)' = a.of /\ (a.of < srv.run \/ srv.told)
    BY DEF NotAhead, RunOf, MessageTypes
  <2>3. a.type = "end" /\ notes[i].type \in InRun => RunOf(a)' < RunOf(notes[i])'
    <3>1. notes[i].type \in InRun => notes[i].type # "idle"
      BY DEF InRun
    <3>2. a.type = "end" => RunOf(a)' \in 1 .. srv.run
      BY <1>4
    <3>3. QED
      BY <1>1, <2>2, <3>1, <3>2
  <2>4. QED
    BY <2>1, <2>3 DEF Before
<1>7. \A i, j \in DOMAIN notes : i < j => Before(notes[i], notes[j])'
  BY DEF Before
<1>8. SUFFICES ASSUME NEW i \in DOMAIN wire', NEW j \in DOMAIN wire', i < j
               PROVE  Before(wire[i], wire[j])'
  BY DEF InRunOrder
<1>9. CASE j <= Len(wire)
  <2>1. i \in DOMAIN wire /\ j \in DOMAIN wire /\ wire'[i] = wire[i] /\ wire'[j] = wire[j]
    BY <1>1, <1>2, <1>3, <1>8, <1>9
  <2>2. Before(wire[i], wire[j]) /\ wire[i] \in Wire /\ wire[j] \in Wire
    BY <1>8, <2>1 DEF InRunOrder, Wire
  <2>3. Before(wire[i], wire[j])'
    BY <1>4, <2>2, <2>1 DEF Before, RunOf
  <2>4. QED
    BY <2>1, <2>3
<1>10. CASE i <= Len(wire) /\ ~(j <= Len(wire))
  <2>1. /\ i \in DOMAIN wire /\ j - Len(wire) \in DOMAIN notes
        /\ wire'[i] = wire[i] /\ wire'[j] = notes[j - Len(wire)]
    BY <1>1, <1>2, <1>3, <1>8, <1>10
  <2>2. wire[i] \in Wire
    BY <2>1 DEF Wire
  <2>3. QED
    BY <1>6, <2>1, <2>2 DEF Before, RunOf
<1>11. CASE ~(i <= Len(wire))
  <2>1. /\ i - Len(wire) \in DOMAIN notes /\ j - Len(wire) \in DOMAIN notes
        /\ i - Len(wire) < j - Len(wire)
        /\ wire'[i] = notes[i - Len(wire)] /\ wire'[j] = notes[j - Len(wire)]
    BY <1>1, <1>2, <1>3, <1>8, <1>11
  <2>2. QED
    BY <1>7, <2>1 DEF Before, RunOf
<1>12. QED
  BY <1>1, <1>2, <1>3, <1>8, <1>9, <1>10, <1>11

\* What is handled was on the way before everything that still is.
LEMMA HandledFacts ==
  ASSUME Types, InRunOrder, wire # <<>>, wire' = Tail(wire), sent' = sent
  PROVE  /\ wire' \in Seq(NoteSet) /\ Head(wire) \in NoteSet
         /\ Head(wire) \in Wire /\ Wire' \subseteq Wire
         /\ \A n \in Wire : n = Head(wire) \/ n \in Wire'
         /\ \A n \in Wire' : Before(Head(wire), n)
         /\ InRunOrder'
<1>1. /\ wire \in Seq(NoteSet) /\ Len(wire) \in Nat /\ Len(wire) # 0
      /\ Head(wire) = wire[1] /\ wire[1] \in NoteSet
  BY DEF Types
<1>2. /\ wire' \in Seq(NoteSet) /\ Len(wire') = Len(wire) - 1
      /\ \A i \in 1 .. Len(wire') : wire'[i] = wire[i + 1]
  BY <1>1, HeadTailProperties
<1>3. DOMAIN wire = 1 .. Len(wire) /\ DOMAIN wire' = 1 .. Len(wire')
  BY <1>1, <1>2
<1>4. \A i \in DOMAIN wire' : i + 1 \in DOMAIN wire /\ wire'[i] = wire[i + 1] /\ 1 < i + 1 /\ 1 \in DOMAIN wire
  BY <1>1, <1>2, <1>3
<1>5. \A i \in DOMAIN wire : i # 1 => i - 1 \in DOMAIN wire' /\ wire'[i - 1] = wire[i]
  BY <1>1, <1>2, <1>3
<1>6. Wire' \subseteq Wire /\ Head(wire) \in Wire
  BY <1>1, <1>3, <1>4 DEF Wire
<1>7. ASSUME NEW n \in Wire, n # Head(wire)
      PROVE  n \in Wire'
  <2>1. PICK i \in DOMAIN wire : n = wire[i]
    BY DEF Wire
  <2>2. i - 1 \in DOMAIN wire' /\ wire'[i - 1] = n
    BY <1>1, <1>5, <1>7, <2>1
  <2>3. QED
    BY <2>2 DEF Wire
<1>8. \A n \in Wire' : Before(Head(wire), n)
  BY <1>1, <1>4 DEF Wire, InRunOrder
<1>9. InRunOrder'
  <2> SUFFICES ASSUME NEW i \in DOMAIN wire', NEW j \in DOMAIN wire', i < j
               PROVE  Before(wire[i], wire[j])'
    BY DEF InRunOrder
  <2>1. i + 1 < j + 1
    BY <1>2, <1>3
  <2>2. Before(wire[i + 1], wire[j + 1])
    BY <1>4, <2>1 DEF InRunOrder
  <2>3. QED
    BY <1>4, <2>2 DEF Before, RunOf
<1>10. QED
  BY <1>1, <1>2, <1>6, <1>7, <1>8, <1>9

-----------------------------------------------------------------------------
(* Steps of the daemon: what they leave alone.                             *)

\* Whatever the client has of a message, the message was sent.
LEMMA ClientKnows ==
  ASSUME Types, Known
  PROVE  /\ Opens \cup Faileds \subseteq Submitted
         /\ Submitted \cup Opens \cup Faileds \cup tui.pending \cup tui.tombs \subseteq Ids
<1>1. Opens \subseteq Submitted /\ Faileds \subseteq Submitted
  BY DEF Opens, Faileds, Submitted, InState, SubIds
<1>2. QED
  BY <1>1 DEF Known, ClientKnown

\* A step that leaves the client alone.
LEMMA SameClient ==
  ASSUME tui' = tui
  PROVE  Opens' = Opens /\ Faileds' = Faileds /\ Submitted' = Submitted
BY DEF Opens, Faileds, Submitted

\* Where a step leaves a variable alone, what is read from it stays: the notifications, ...
LEMMA SameWire == ASSUME wire' = wire PROVE Wire' = Wire
BY DEF Wire

\* ... the responses, ...
LEMMA SameReplies ==
  ASSUME replies' = replies
  PROVE  /\ \A op, id : (Yes(op, id)' <=> Yes(op, id)) /\ (No(op, id)' <=> No(op, id))
         /\ Snapshots' = Snapshots
BY DEF Yes, No, Snapshots

\* ... the calls, ...
LEMMA SameCalls == ASSUME calls' = calls PROVE \A op, id : Asked(op, id)' <=> Asked(op, id)
BY DEF Asked

\* ... what is being served, ...
LEMMA SameBusy ==
  ASSUME busy' = busy PROVE (Opening' <=> Opening) /\ \A op, id : Serving(op, id)' <=> Serving(op, id)
BY DEF Opening, Serving

\* ... and the messages.
LEMMA SameSent ==
  ASSUME sent' = sent
  PROVE  /\ MessagesKept /\ (\A id : Text(id)' = Text(id)) /\ (\A m : RunOf(m)' = RunOf(m))
         /\ Queued' = Queued
BY DEF MessagesKept, Ids, Text, RunOf, Queued

\* Where messages are kept, so are their texts and runs.
LEMMA KeptTexts ==
  ASSUME MessagesKept
  PROVE  \A id \in Ids : Text(id)' = Text(id) /\ sent'[id].run = sent[id].run
BY DEF MessagesKept, Text

\* The call that is served is the oldest that waits, as far as a client can tell.
LEMMA BeginFacts ==
  ASSUME Types, NEW o \in {"steer", "send", "remove", "cancel"}, NEW k, Begin(o, k)
  PROVE  /\ Asked(o, k) /\ k \in Nat /\ ~Opening
         /\ \A op, id : ~Serving(op, id) \/ op = "none"
         /\ calls' \subseteq CallSet
         /\ \A op, id : Asked(op, id)' <=> Asked(op, id) /\ ~(op = o /\ id = k)
<1>1. calls \subseteq CallSet
  BY DEF Types
<1>2. /\ busy = None /\ [op |-> o, id |-> k] \in calls /\ calls' = calls \ {[op |-> o, id |-> k]}
  BY DEF Begin
<1>3. [op |-> o, id |-> k] \in CallSet
  BY <1>1, <1>2
<1>4. k \in Nat
  BY <1>3 DEF CallSet
<1>5. \A op, id : [op |-> op, id |-> id] = [op |-> o, id |-> k] <=> op = o /\ id = k
  BY Zenon
<1>6. busy.op = "none"
  BY <1>2 DEF None
<1>7. \A op, id : busy = [op |-> op, id |-> id] => op = "none"
  BY <1>6
<1>8. QED
  BY <1>1, <1>2, <1>4, <1>5, <1>6, <1>7 DEF Asked, Opening, Serving

\* An answer of the daemon's.
LEMMA AnswerFacts ==
  ASSUME Types, NEW o \in {"steer", "send", "remove", "cancel"}, NEW k \in Nat, NEW b \in BOOLEAN,
         Answer(o, k, b)
  PROVE  /\ replies' \subseteq ReplySet
         /\ Snapshots' = Snapshots
         /\ \A op, id : Yes(op, id)' <=> Yes(op, id) \/ (b /\ op = o /\ id = k /\ o \notin {"send", "cancel"}
                                                          /\ ~(o = "steer" /\ k \in gaveUp))
         /\ \A op, id : No(op, id)' <=> No(op, id) \/ (~b /\ op = o /\ id = k /\ ~(o = "steer" /\ k \in gaveUp))
<1> DEFINE x == [op |-> o, id |-> k, ok |-> b]
           quiet == (o = "steer" /\ k \in gaveUp) \/ (o \in {"send", "cancel"} /\ b)
<1>1. replies' = IF quiet THEN replies ELSE replies \cup {x}
  BY DEF Answer
<1>2. x.op = o /\ x \in ReplySet
  BY DEF ReplySet
<1>3. \A op, id, c : [op |-> op, id |-> id, ok |-> c] = x <=> op = o /\ id = k /\ c = b
  BY Zenon
<1> HIDE DEF x
<1>4. Snapshots' = Snapshots
  BY <1>1, <1>2 DEF Snapshots
<1>5. \A op, id : Yes(op, id)' <=> Yes(op, id) \/ (~quiet /\ op = o /\ id = k /\ b)
  <2>1. \A op, id : [op |-> op, id |-> id, ok |-> TRUE] = x <=> op = o /\ id = k /\ b
    <3>1. CASE b = TRUE
      BY <1>3, <3>1
    <3>2. CASE b = FALSE
      BY <1>3, <3>2
    <3>3. QED
      BY <3>1, <3>2
  <2> HIDE DEF quiet
  <2>2. CASE quiet
    <3>1. replies' = replies
      BY <1>1, <2>2
    <3>2. QED
      BY <3>1, <2>2 DEF Yes
  <2>3. CASE ~quiet
    <3>1. \A y : y \in replies' <=> y \in replies \/ y = x
      BY <1>1, <2>3
    <3>2. \A op, id : Yes(op, id)' <=> Yes(op, id) \/ (op = o /\ id = k /\ b)
      BY <2>1, <3>1 DEF Yes
    <3>3. QED
      BY <3>2, <2>3
  <2>4. QED
    BY <2>2, <2>3
<1>6. \A op, id : No(op, id)' <=> No(op, id) \/ (~quiet /\ op = o /\ id = k /\ ~b)
  <2>1. \A op, id : [op |-> op, id |-> id, ok |-> FALSE] = x <=> op = o /\ id = k /\ ~b
    <3>1. CASE b = TRUE
      BY <1>3, <3>1
    <3>2. CASE b = FALSE
      BY <1>3, <3>2
    <3>3. QED
      BY <3>1, <3>2
  <2> HIDE DEF quiet
  <2>2. CASE quiet
    <3>1. replies' = replies
      BY <1>1, <2>2
    <3>2. QED
      BY <3>1, <2>2 DEF No
  <2>3. CASE ~quiet
    <3>1. \A y : y \in replies' <=> y \in replies \/ y = x
      BY <1>1, <2>3
    <3>2. \A op, id : No(op, id)' <=> No(op, id) \/ (op = o /\ id = k /\ ~b)
      BY <2>1, <3>1 DEF No
    <3>3. QED
      BY <3>2, <2>3
  <2>4. QED
    BY <2>2, <2>3
<1>7. replies' \subseteq ReplySet
  <2> HIDE DEF quiet
  <2> QED BY <1>1, <1>2 DEF Types
<1>8. QED
  BY <1>4, <1>5, <1>6, <1>7

\* As long as nothing new is live and the draft stays, texts stay in one place.
LEMMA LiveShrinks ==
  ASSUME OneLive, NotInDraft, Ids' = Ids, \A id \in Ids : Text(id)' = Text(id),
         gaveUp \subseteq gaveUp', gaveUp' \subseteq Ids, tui'.draft \subseteq tui.draft,
         \A id \in Ids : Live(id)' => Live(id)
  PROVE  OneLive' /\ NotInDraft'
<1>1. \A x : Given(x) => Given(x)'
  BY DEF Given
<1>2. QED
  BY <1>1 DEF OneLive, NotInDraft

\* What carries a text goes on to carry it, and the draft only grows: every text stays somewhere.
LEMMA CarriesGrows ==
  ASSUME Somewhere, typed' = typed, Ids' = Ids, \A id \in Ids : Text(id)' = Text(id),
         tui.draft \subseteq tui'.draft, tui.lost \subseteq tui'.lost,
         \A id \in Ids : Carries(id) => Carries(id)'
  PROVE  Somewhere'
BY DEF Somewhere

-----------------------------------------------------------------------------
(* What the daemon tells.                                                  *)

\* A notification is what its parts are.
LEMMA NoteFacts ==
  /\ \A type \in MessageTypes \cup RunTypes, n \in Nat : Note(type, n) \in NoteSet
  /\ \A type, n : Note(type, n).type = type /\ Note(type, n).of = n
  /\ \A type, n, u, m : Note(type, n) = Note(u, m) <=> type = u /\ n = m
<1>1. \A type, n : Note(type, n).type = type /\ Note(type, n).of = n
  BY DEF Note
<1>2. \A type, n, u, m : Note(type, n) = Note(u, m) <=> type = u /\ n = m
  BY <1>1
<1>3. \A type \in MessageTypes \cup RunTypes, n \in Nat : Note(type, n) \in NoteSet
  BY DEF Note, NoteSet
<1>4. QED
  BY <1>1, <1>2, <1>3

\* One notification is told.
LEMMA OneTold ==
  ASSUME Types, NEW n \in NoteSet, wire' = wire \o <<n>>
  PROVE  wire' \in Seq(NoteSet) /\ Wire' = Wire \cup {n}
<1>1. <<n>> \in Seq(NoteSet) /\ DOMAIN <<n>> = {1} /\ <<n>>[1] = n
  OBVIOUS
<1>2. ToSet(<<n>>) = {n}
  BY <1>1 DEF ToSet
<1>3. QED
  BY <1>1, <1>2, ToldFacts

\* One more notification, of the run there is now, keeps the order.
LEMMA OneToldInOrder ==
  ASSUME Types, Known, InRunOrder, NotAhead,
         NEW n \in NoteSet, wire' = wire \o <<n>>, srv'.run \in Nat, srv.run <= srv'.run,
         \A id \in Ids : sent'[id].run = sent[id].run,
         n.type # "idle" => RunOf(n)' = srv'.run,
         n.type \in InRun => ~srv.told \/ srv.run < srv'.run
  PROVE  InRunOrder'
<1>1. <<n>> \in Seq(NoteSet) /\ DOMAIN <<n>> = {1} /\ <<n>>[1] = n
  OBVIOUS
<1>2. \A i \in DOMAIN <<n>> : <<n>>[i] = n
  BY <1>1
<1>3. \A i, j \in DOMAIN <<n>> : ~(i < j)
  BY <1>1
<1>4. \A i \in DOMAIN <<n>> : <<n>>[i].type # "idle" => RunOf(<<n>>[i])' = srv'.run
  <2>1. TAKE i \in DOMAIN <<n>>
  <2>2. <<n>>[i] = n
    BY <1>2
  <2>3. QED
    BY <2>2 DEF RunOf
<1>5. QED
  BY <1>1, <1>2, <1>3, <1>4, ToldInOrder

\* The elements of two sequences, one after the other.
LEMMA ElementsOfBoth ==
  ASSUME NEW S, NEW s \in Seq(S), NEW t \in Seq(S)
  PROVE  /\ s \o t \in Seq(S) /\ DOMAIN (s \o t) = 1 .. Len(s) + Len(t)
         /\ ToSet(s \o t) = ToSet(s) \cup ToSet(t)
         /\ \A i \in 1 .. Len(s) + Len(t) : (s \o t)[i] = IF i <= Len(s) THEN s[i] ELSE t[i - Len(s)]
<1> DEFINE st == s \o t
<1>1. /\ st \in Seq(S) /\ Len(st) = Len(s) + Len(t) /\ Len(s) \in Nat /\ Len(t) \in Nat
      /\ \A i \in 1 .. Len(s) + Len(t) : st[i] = IF i <= Len(s) THEN s[i] ELSE t[i - Len(s)]
  BY ConcatProperties
<1> HIDE DEF st
<1>2. DOMAIN st = 1 .. Len(s) + Len(t) /\ DOMAIN s = 1 .. Len(s) /\ DOMAIN t = 1 .. Len(t)
  BY <1>1
<1>3. ASSUME NEW x \in ToSet(st)
      PROVE  x \in ToSet(s) \cup ToSet(t)
  <2>1. PICK i \in DOMAIN st : x = st[i]
    BY DEF ToSet
  <2>2. CASE i <= Len(s)
    BY <1>1, <1>2, <2>1, <2>2 DEF ToSet
  <2>3. CASE ~(i <= Len(s))
    <3>1. i - Len(s) \in 1 .. Len(t) /\ x = t[i - Len(s)]
      BY <1>1, <1>2, <2>1, <2>3
    <3>2. QED
      BY <1>2, <3>1 DEF ToSet
  <2>4. QED
    BY <2>2, <2>3
<1>4. \A i \in DOMAIN s : i \in DOMAIN st /\ st[i] = s[i]
  BY <1>1, <1>2
<1>5. \A i \in DOMAIN t : i + Len(s) \in DOMAIN st /\ st[i + Len(s)] = t[i]
  <2>1. TAKE i \in DOMAIN t
  <2>2. i \in Nat /\ i >= 1 /\ i + Len(s) \in 1 .. Len(s) + Len(t) /\ ~(i + Len(s) <= Len(s)) /\ i + Len(s) - Len(s) = i
    BY <1>1, <1>2
  <2>3. QED
    BY <1>1, <1>2, <2>2
<1>6. ToSet(st) = ToSet(s) \cup ToSet(t)
  <2>1. \A i \in DOMAIN s : s[i] \in {st[j] : j \in DOMAIN st}
    BY <1>4
  <2>2. \A i \in DOMAIN t : t[i] \in {st[j] : j \in DOMAIN st}
    BY <1>5
  <2>3. \A x \in ToSet(s) \cup ToSet(t) : x \in ToSet(st)
    BY <2>1, <2>2 DEF ToSet
  <2>4. \A x \in ToSet(st) : x \in ToSet(s) \cup ToSet(t)
    BY <1>3
  <2>5. QED
    BY <2>3, <2>4, Zenon
<1>7. QED
  BY <1>1, <1>2, <1>6 DEF st

\* What the daemon tells of the messages of its queue, in its order or from behind.
LEMMA BecameFacts ==
  ASSUME Types, NEW ids \in InOrder, NEW type \in MessageTypes
  PROVE  /\ Became(type, ids) \in Seq(NoteSet) /\ Reverse(Became(type, ids)) \in Seq(NoteSet)
         /\ ToSet(Became(type, ids)) = {Note(type, id) : id \in Queued}
         /\ ToSet(Reverse(Became(type, ids))) = {Note(type, id) : id \in Queued}
<1> DEFINE b == Became(type, ids)
           r == Reverse(b)
<1>1. /\ ids \in Seq(Ids) /\ DOMAIN ids = 1 .. Len(ids) /\ Len(ids) \in Nat
      /\ ToSet(ids) = Queued
  BY InOrderFacts
<1>2. Ids \subseteq Nat
  BY MessageType
<1>3. DOMAIN b = 1 .. Len(ids) /\ \A i \in 1 .. Len(ids) : b[i] = Note(type, ids[i])
  BY <1>1 DEF Became
<1>4. \A i \in 1 .. Len(ids) : b[i] \in NoteSet
  <2>1. \A i \in 1 .. Len(ids) : ids[i] \in Nat
    <3>1. Queued \subseteq Ids
      BY DEF Queued, Ids
    <3>2. \A i \in 1 .. Len(ids) : ids[i] \in Queued
      BY <1>1 DEF ToSet
    <3>3. QED
      BY <1>2, <3>1, <3>2
  <2>2. \A i \in 1 .. Len(ids) : Note(type, ids[i]) \in NoteSet
    BY <2>1, NoteFacts
  <2>3. QED
    BY <1>3, <2>2
<1>5. b = [i \in 1 .. Len(ids) |-> b[i]]
  BY <1>1 DEF Became
<1>6. b \in Seq(NoteSet)
  BY <1>1, <1>4, <1>5, IsASeq
<1> HIDE DEF b
<1>7. Len(b) = Len(ids)
  BY <1>1, <1>3, <1>6
<1>8. ToSet(b) = {Note(type, id) : id \in Queued}
  BY <1>1, <1>3 DEF ToSet
<1>9. r = [i \in 1 .. Len(ids) |-> b[(Len(ids) - i) + 1]]
  BY <1>7 DEF Reverse
<1>10. \A i \in 1 .. Len(ids) : (Len(ids) - i) + 1 \in 1 .. Len(ids) /\ (Len(ids) - ((Len(ids) - i) + 1)) + 1 = i
  BY <1>1
<1>11. r \in Seq(NoteSet)
  BY <1>1, <1>4, <1>9, <1>10, IsASeq
<1>12. DOMAIN r = 1 .. Len(ids) /\ \A i \in 1 .. Len(ids) : r[i] = b[(Len(ids) - i) + 1]
  BY <1>9
<1> HIDE DEF r
<1>13. ToSet(r) \subseteq ToSet(b)
  BY <1>3, <1>10, <1>12 DEF ToSet
<1>14. ASSUME NEW i \in DOMAIN b PROVE b[i] \in {r[j] : j \in DOMAIN r}
  <2>1. /\ (Len(ids) - i) + 1 \in DOMAIN r
        /\ r[(Len(ids) - i) + 1] = b[(Len(ids) - ((Len(ids) - i) + 1)) + 1]
    BY <1>3, <1>10, <1>12
  <2>2. QED
    BY <1>3, <1>10, <2>1
<1>15. ToSet(r) = ToSet(b)
  BY <1>13, <1>14 DEF ToSet
<1>16. QED
  BY <1>6, <1>8, <1>11, <1>15 DEF b, r

\* A notification of a run is told.
LEMMA RunNote ==
  ASSUME Types, NEW type \in RunTypes, NEW r \in Nat, wire' = wire \o <<Note(type, r)>>
  PROVE  /\ wire' \in Seq(NoteSet) /\ Note(type, r) \in NoteSet /\ Wire' = Wire \cup {Note(type, r)}
         /\ Note(type, r).type = type /\ Note(type, r).of = r
         /\ RunOf(Note(type, r)) = r /\ RunOf(Note(type, r))' = r
         /\ \A u, m : Note(u, m) = Note(type, r) <=> u = type /\ m = r
<1>1. type \notin MessageTypes
  BY DEF RunTypes, MessageTypes
<1>2. Note(type, r) \in NoteSet /\ Note(type, r).type = type /\ Note(type, r).of = r
  BY NoteFacts
<1>3. RunOf(Note(type, r)) = r /\ RunOf(Note(type, r))' = r
  BY <1>1, <1>2 DEF RunOf
<1>4. QED
  BY <1>2, <1>3, OneTold, NoteFacts

\* What is in range.
LEMMA Ranges ==
  ASSUME Types, Known
  PROVE  /\ srv.run \in Nat /\ tui.active \in 0 .. srv.run /\ tui.completed \in 0 .. srv.run
         /\ \A id \in Ids : sent[id].run \in 0 .. srv.run /\ Text(id) \subseteq 1 .. typed
         /\ \A n \in Wire : n.type # "idle" => RunOf(n) \in 1 .. srv.run
         /\ \A n \in Wire : n.type = "end" => n.of \in 1 .. srv.run
         /\ srv.mode # "idle" => srv.run \in 1 .. srv.run
<1>1. srv.run \in Nat /\ tui.active \in Nat /\ tui.completed \in Nat
  BY DEF Types, SessionSet, Clients
<1>2. \A id \in Ids : sent[id].run \in Nat
  BY MessageType
<1>3. \A n \in Wire : n.type # "idle" => RunOf(n) \in 1 .. srv.run
  BY DEF Known, WireKnown
<1>4. \A n \in Wire : n.type = "end" => n.of \in 1 .. srv.run
  BY <1>3 DEF RunOf, MessageTypes
<1>5. QED
  BY <1>1, <1>2, <1>3, <1>4 DEF Known, SentKnown, ClientKnown

\* What the invariant is made of, ...
LEMMA Parts ==
  ASSUME TextInv
  PROVE  /\ Types /\ Known /\ SentKnown /\ ClientKnown /\ CallsKnown /\ RepliesKnown /\ WireKnown
         /\ SentWaits /\ ToldIsTrue /\ AnsweredTruly /\ AnsweredInTime
         /\ InRunOrder /\ NotAhead /\ OpensQuietly /\ AtItsRun
         /\ Answerable /\ Untold /\ Pending /\ OneLive /\ NotInDraft /\ Somewhere
         /\ Opens \cup Faileds \subseteq Submitted
         /\ Submitted \cup Opens \cup Faileds \cup tui.pending \cup tui.tombs \subseteq Ids
BY ClientKnows DEF TextInv, Known

\* ... and the runs that it speaks of.
LEMMA InRanges ==
  ASSUME TextInv
  PROVE  /\ srv.run \in Nat /\ tui.active \in 0 .. srv.run /\ tui.completed \in 0 .. srv.run
         /\ \A id \in Ids : sent[id].run \in 0 .. srv.run /\ Text(id) \subseteq 1 .. typed
         /\ \A m \in Wire : m.type # "idle" => RunOf(m) \in 1 .. srv.run
         /\ \A m \in Wire : m.type = "end" => m.of \in 1 .. srv.run
         /\ srv.mode # "idle" => srv.run \in 1 .. srv.run
BY Parts, Ranges

\* Responses of success that are in time are of the run that executes.
LEMMA InTimeFacts ==
  ASSUME InTime
  PROVE  \A i : Yes("steer", i) \/ Yes("remove", i) => sent[i].run = srv.run
<1>1. \A op, i : [op |-> op, id |-> i, ok |-> TRUE].op = op /\ [op |-> op, id |-> i, ok |-> TRUE].id = i
  OBVIOUS
<1>2. QED
  BY <1>1 DEF InTime, Yes

-----------------------------------------------------------------------------
(* The daemon's steps keep the texts in place.                             *)

\* A removal that comes too late is refused.
LEMMA TakeBackRefused ==
  ASSUME TextInv, NEW k, TakeBack(k), Answer("remove", k, FALSE), sent' = sent, busy' = busy
  PROVE  TextInv'
<1>1. /\ Asked("remove", k) /\ k \in Ids /\ ~Opening /\ (\A op, i : Serving(op, i) => op = "none")
      /\ calls' \subseteq CallSet
      /\ \A op, i : Asked(op, i)' <=> Asked(op, i) /\ ~(op = "remove" /\ i = k)
  BY Parts, BeginFacts DEF TakeBack, CallsKnown
<1>2. tui' = tui /\ Opens' = Opens /\ Faileds' = Faileds /\ Submitted' = Submitted
  BY SameClient DEF TakeBack
<1>3. wire' = wire /\ Wire' = Wire
  BY SameWire DEF TakeBack
<1>4. /\ replies' \subseteq ReplySet
      /\ Snapshots' = Snapshots
      /\ \A op, i : Yes(op, i)' <=> Yes(op, i)
      /\ \A op, i : No(op, i)' <=> No(op, i) \/ (op = "remove" /\ i = k)
  BY Parts, <1>1, MessageType, AnswerFacts DEF TakeBack
<1>5. busy' = busy /\ (Opening' <=> Opening) /\ \A op, i : Serving(op, i)' <=> Serving(op, i)
  BY SameBusy DEF TakeBack
<1>6. sent' = sent /\ Ids' = Ids /\ (\A i : Text(i)' = Text(i)) /\ (\A m : RunOf(m)' = RunOf(m))
  BY SameSent DEF TakeBack, MessagesKept
<1>7. typed' = typed /\ gaveUp' = gaveUp /\ srv' = srv
  BY DEF TakeBack
<1>8. Types'
  BY Parts, <1>1, <1>2, <1>3, <1>4, <1>5, <1>6, <1>7 DEF Types
<1>9. SentKnown'
  BY Parts, <1>6, <1>7 DEF SentKnown
<1>10. ClientKnown'
  BY Parts, <1>2, <1>6, <1>7 DEF ClientKnown
<1>11. CallsKnown'
  BY Parts, <1>1, <1>5, <1>6, <1>7 DEF CallsKnown
<1>12. RepliesKnown'
  BY Parts, <1>1, <1>4, <1>6, <1>7 DEF RepliesKnown
<1>13. WireKnown'
  BY Parts, <1>1, <1>3, <1>6, <1>7 DEF WireKnown, RunOf, MessageTypes
<1>14. SentWaits'
  BY Parts, <1>1, <1>6, <1>7 DEF SentWaits, Accepted
<1>15. ToldIsTrue'
  BY Parts, <1>1, <1>3, <1>5, <1>6, <1>7 DEF ToldIsTrue, Accepted
<1>16. AnsweredTruly'
  BY Parts, <1>1, <1>4, <1>6, <1>7 DEF AnsweredTruly, Accepted
<1>17. AnsweredInTime'
  BY Parts, <1>1, <1>4, <1>6, <1>7 DEF AnsweredInTime
<1>18. InRunOrder'
  BY Parts, <1>3, <1>6 DEF InRunOrder, Before, Wire
<1>19. NotAhead'
  BY Parts, <1>2, <1>3, <1>6, <1>7 DEF NotAhead
<1>20. OpensQuietly'
  BY Parts, <1>1, <1>2, <1>3, <1>4, <1>5, <1>7 DEF OpensQuietly
<1>21. AtItsRun'
  BY Parts, <1>2, <1>3, <1>6, <1>7 DEF AtItsRun, Ours, Passed, InRun
<1>22. Answerable'
  BY Parts, <1>1, <1>2, <1>4, <1>5, <1>6, <1>7 DEF Answerable, Accepted
<1>23. Untold'
  BY Parts, <1>1, <1>2, <1>3, <1>6, <1>7 DEF Untold
<1>24. Pending'
  BY Parts, <1>2, <1>4, <1>6, <1>7 DEF Pending, Accepted, RepliesKnown
<1>25. OneLive' /\ NotInDraft'
  <2>1. \A i \in Ids : Live(i)' => Live(i)
    BY Parts, <1>1, <1>2, <1>3, <1>4, <1>5, <1>6, <1>7 DEF Live, MayReturn, Removal
  <2>2. QED
    BY Parts, <1>2, <1>6, <1>7, <2>1, LiveShrinks DEF Types
<1>26. Somewhere'
  <2>1. \A i \in Ids : Carries(i) => Carries(i)'
    BY Parts, <1>1, <1>2, <1>3, <1>4, <1>5, <1>6, <1>7 DEF Carries, Removal
  <2>2. QED
    BY Parts, <1>2, <1>6, <1>7, <2>1, CarriesGrows
<1>27. QED
  BY <1>8, <1>9, <1>10, <1>11, <1>12, <1>13, <1>14, <1>15, <1>16, <1>17, <1>18, <1>19, <1>20, <1>21, <1>22, <1>23, <1>24, <1>25, <1>26 DEF TextInv, Known

\* A message is taken back, and that is about to be told.
LEMMA TakeBackRemoves ==
  ASSUME TextInv, NEW k, TakeBack(k), k \in Queued, sent' = [sent EXCEPT ![k].state = "removed"],
         busy' = [op |-> "remove", id |-> k], replies' = replies
  PROVE  TextInv'
<1>1. /\ Asked("remove", k) /\ k \in Ids /\ ~Opening /\ (\A op, i : Serving(op, i) => op = "none")
      /\ calls' \subseteq CallSet
      /\ \A op, i : Asked(op, i)' <=> Asked(op, i) /\ ~(op = "remove" /\ i = k)
  BY Parts, BeginFacts DEF TakeBack, CallsKnown
<1>2. tui' = tui /\ Opens' = Opens /\ Faileds' = Faileds /\ Submitted' = Submitted
  BY SameClient DEF TakeBack
<1>3. wire' = wire /\ Wire' = Wire
  BY SameWire DEF TakeBack
<1>4. /\ replies' = replies /\ Snapshots' = Snapshots
      /\ \A op, i : (Yes(op, i)' <=> Yes(op, i)) /\ (No(op, i)' <=> No(op, i))
  BY SameReplies DEF TakeBack
<1>5. /\ busy' \in BusySet /\ ~Opening'
      /\ \A op, i : Serving(op, i)' <=> op = "remove" /\ i = k
  BY Parts, <1>1, MessageType DEF TakeBack, Opening, Serving, BusySet
<1>6. /\ sent' \in Seq(MessageSet)
      /\ Ids' = Ids /\ (\A i : Text(i)' = Text(i)) /\ (\A i \in Ids : sent'[i].run = sent[i].run)
      /\ sent'[k].state = "removed" /\ \A i \in Ids : i # k => sent'[i].state = sent[i].state
  BY Parts, <1>1, OneChanges DEF TakeBack, MessagesKept, Fates, Accepted
<1>7. \A n \in Wire : n.type # "idle" => RunOf(n)' = RunOf(n)
  BY Parts, <1>6 DEF Known, WireKnown, RunOf
<1>8. typed' = typed /\ gaveUp' = gaveUp /\ srv' = srv
  BY DEF TakeBack
<1>9. sent[k].state = "queued" /\ sent[k].run = srv.run /\ k \notin tui.tombs
  BY Parts, <1>1 DEF Queued, SentWaits, Pending
<1>10. Types'
  BY Parts, <1>1, <1>2, <1>3, <1>4, <1>5, <1>6, <1>7, <1>8, <1>9 DEF Types
<1>11. SentKnown'
  BY Parts, <1>6, <1>7, <1>8, <1>9 DEF SentKnown
<1>12. ClientKnown'
  BY Parts, <1>2, <1>6, <1>7, <1>8, <1>9 DEF ClientKnown
<1>13. CallsKnown'
  BY Parts, <1>1, <1>5, <1>6, <1>7, <1>8, <1>9 DEF CallsKnown
<1>14. RepliesKnown'
  BY Parts, <1>1, <1>4, <1>6, <1>7, <1>8, <1>9 DEF RepliesKnown
<1>15. WireKnown'
  BY Parts, <1>1, <1>3, <1>6, <1>7, <1>8, <1>9 DEF WireKnown, RunOf, MessageTypes
<1>16. SentWaits'
  BY Parts, <1>1, <1>6, <1>7, <1>8, <1>9 DEF SentWaits, Accepted
<1>17. ToldIsTrue'
  BY Parts, <1>1, <1>3, <1>5, <1>6, <1>7, <1>8, <1>9 DEF ToldIsTrue, Accepted
<1>18. AnsweredTruly'
  BY Parts, <1>1, <1>4, <1>6, <1>7, <1>8, <1>9 DEF AnsweredTruly, Accepted
<1>19. AnsweredInTime'
  BY Parts, <1>1, <1>4, <1>6, <1>7, <1>8, <1>9 DEF AnsweredInTime
<1>20. InRunOrder'
  BY Parts, <1>3, <1>6, <1>7 DEF InRunOrder, Before, Wire
<1>21. NotAhead'
  BY Parts, <1>2, <1>3, <1>6, <1>7, <1>8, <1>9 DEF NotAhead
<1>22. OpensQuietly'
  BY Parts, <1>1, <1>2, <1>3, <1>4, <1>5, <1>8, <1>9 DEF OpensQuietly
<1>23. AtItsRun'
  BY Parts, <1>2, <1>3, <1>6, <1>7, <1>8, <1>9, SMTT(30) DEF AtItsRun, Ours, Passed, InRun
<1>24. Answerable'
  BY Parts, <1>1, <1>2, <1>4, <1>5, <1>6, <1>7, <1>8, <1>9 DEF Answerable, Accepted
<1>25. Untold'
  BY Parts, <1>1, <1>2, <1>3, <1>6, <1>7, <1>8, <1>9 DEF Untold
<1>26. Pending'
  BY Parts, <1>2, <1>4, <1>6, <1>7, <1>8, <1>9 DEF Pending, Accepted, RepliesKnown
<1>27. OneLive' /\ NotInDraft'
  <2>1. \A i \in Ids : Live(i)' => Live(i)
    BY Parts, <1>1, <1>2, <1>3, <1>4, <1>5, <1>6, <1>7, <1>8, <1>9 DEF Live, MayReturn, Removal
  <2>2. QED
    BY Parts, <1>2, <1>6, <1>7, <1>8, <1>9, <2>1, LiveShrinks DEF Types
<1>28. Somewhere'
  <2>1. \A i \in Ids : Carries(i) => Carries(i)'
    BY Parts, <1>1, <1>2, <1>3, <1>4, <1>5, <1>6, <1>7, <1>8, <1>9 DEF Carries, Removal
  <2>2. QED
    BY Parts, <1>2, <1>6, <1>7, <1>8, <1>9, <2>1, CarriesGrows
<1>29. QED
  BY <1>10, <1>11, <1>12, <1>13, <1>14, <1>15, <1>16, <1>17, <1>18, <1>19, <1>20, <1>21, <1>22, <1>23, <1>24, <1>25, <1>26, <1>27, <1>28 DEF TextInv, Known

\* A message is refused.
LEMMA RefuseText ==
  ASSUME TextInv, NEW k, Refuse(k)
  PROVE  TextInv'
<1>1. /\ Asked("steer", k) /\ k \in Ids /\ ~Opening /\ (\A op, i : Serving(op, i) => op = "none")
      /\ calls' \subseteq CallSet
      /\ \A op, i : Asked(op, i)' <=> Asked(op, i) /\ ~(op = "steer" /\ i = k)
  BY Parts, BeginFacts DEF Refuse, CallsKnown
<1>2. tui' = tui /\ Opens' = Opens /\ Faileds' = Faileds /\ Submitted' = Submitted
  BY SameClient DEF Refuse
<1>3. wire' = wire /\ Wire' = Wire
  BY SameWire DEF Refuse
<1>4. /\ replies' \subseteq ReplySet
      /\ Snapshots' = Snapshots
      /\ \A op, i : Yes(op, i)' <=> Yes(op, i)
      /\ \A op, i : No(op, i)' <=> No(op, i) \/ (op = "steer" /\ i = k /\ k \notin gaveUp)
  BY Parts, <1>1, MessageType, AnswerFacts DEF Refuse
<1>5. busy' = busy /\ (Opening' <=> Opening) /\ \A op, i : Serving(op, i)' <=> Serving(op, i)
  BY SameBusy DEF Refuse
<1>6. /\ sent' \in Seq(MessageSet)
      /\ Ids' = Ids /\ (\A i : Text(i)' = Text(i)) /\ (\A i \in Ids : sent'[i].run = sent[i].run)
      /\ sent'[k].state = "refused" /\ \A i \in Ids : i # k => sent'[i].state = sent[i].state
  BY Parts, <1>1, OneChanges DEF Refuse, MessagesKept, Fates, Accepted
<1>7. \A n \in Wire : n.type # "idle" => RunOf(n)' = RunOf(n)
  BY Parts, <1>6 DEF Known, WireKnown, RunOf
<1>8. sent[k].state = "sent" /\ sent[k].run # 0 /\ Text(k) # {}
  BY Parts, <1>1 DEF SentWaits
<1>9. typed' = typed /\ gaveUp' = gaveUp /\ srv' = srv
  BY DEF Refuse
<1>10. Types'
  BY Parts, <1>1, <1>2, <1>3, <1>4, <1>5, <1>6, <1>7, <1>8, <1>9 DEF Types
<1>11. SentKnown'
  BY Parts, <1>6, <1>7, <1>8, <1>9 DEF SentKnown
<1>12. ClientKnown'
  BY Parts, <1>2, <1>6, <1>7, <1>8, <1>9 DEF ClientKnown
<1>13. CallsKnown'
  BY Parts, <1>1, <1>5, <1>6, <1>7, <1>8, <1>9 DEF CallsKnown
<1>14. RepliesKnown'
  BY Parts, <1>1, <1>4, <1>6, <1>7, <1>8, <1>9 DEF RepliesKnown
<1>15. WireKnown'
  BY Parts, <1>1, <1>3, <1>6, <1>7, <1>8, <1>9 DEF WireKnown, RunOf, MessageTypes
<1>16. SentWaits'
  BY Parts, <1>1, <1>6, <1>7, <1>8, <1>9 DEF SentWaits, Accepted
<1>17. ToldIsTrue'
  BY Parts, <1>1, <1>3, <1>5, <1>6, <1>7, <1>8, <1>9 DEF ToldIsTrue, Accepted
<1>18. AnsweredTruly'
  BY Parts, <1>1, <1>4, <1>6, <1>7, <1>8, <1>9 DEF AnsweredTruly, Accepted
<1>19. AnsweredInTime'
  BY Parts, <1>1, <1>4, <1>6, <1>7, <1>8, <1>9 DEF AnsweredInTime
<1>20. InRunOrder'
  BY Parts, <1>3, <1>6, <1>7 DEF InRunOrder, Before, Wire
<1>21. NotAhead'
  BY Parts, <1>2, <1>3, <1>6, <1>7, <1>8, <1>9 DEF NotAhead
<1>22. OpensQuietly'
  BY Parts, <1>1, <1>2, <1>3, <1>4, <1>5, <1>8, <1>9 DEF OpensQuietly
<1>23. AtItsRun'
  BY Parts, <1>2, <1>3, <1>6, <1>7, <1>8, <1>9 DEF AtItsRun, Ours, Passed, InRun
<1>24. Answerable'
  BY Parts, <1>1, <1>2, <1>4, <1>5, <1>6, <1>7, <1>8, <1>9 DEF Answerable, Accepted
<1>25. Untold'
  BY Parts, <1>1, <1>2, <1>3, <1>6, <1>7, <1>8, <1>9 DEF Untold
<1>26. Pending'
  BY Parts, <1>2, <1>4, <1>6, <1>7, <1>8, <1>9 DEF Pending, Accepted, RepliesKnown
<1>27. OneLive' /\ NotInDraft'
  <2>1. \A i \in Ids : Live(i)' => Live(i)
    BY Parts, <1>1, <1>2, <1>3, <1>4, <1>5, <1>6, <1>7, <1>8, <1>9 DEF Live, MayReturn, Removal
  <2>2. QED
    BY Parts, <1>2, <1>6, <1>7, <1>8, <1>9, <2>1, LiveShrinks DEF Types
<1>28. Somewhere'
  <2>1. \A i \in Ids : Carries(i) => Carries(i)'
    BY Parts, <1>1, <1>2, <1>3, <1>4, <1>5, <1>6, <1>7, <1>8, <1>9 DEF Carries, Removal
  <2>2. QED
    BY Parts, <1>2, <1>6, <1>7, <1>8, <1>9, <2>1, CarriesGrows
<1>29. QED
  BY <1>10, <1>11, <1>12, <1>13, <1>14, <1>15, <1>16, <1>17, <1>18, <1>19, <1>20, <1>21, <1>22, <1>23, <1>24, <1>25, <1>26, <1>27, <1>28 DEF TextInv, Known

\* A message is put into the mailbox of the run it names.
LEMMA AcceptText ==
  ASSUME TextInv, NEW k, Accept(k)
  PROVE  TextInv'
<1>1. /\ Asked("steer", k) /\ k \in Ids /\ ~Opening /\ (\A op, i : Serving(op, i) => op = "none")
      /\ calls' \subseteq CallSet
      /\ \A op, i : Asked(op, i)' <=> Asked(op, i) /\ ~(op = "steer" /\ i = k)
  BY Parts, BeginFacts DEF Accept, CallsKnown
<1>2. tui' = tui /\ Opens' = Opens /\ Faileds' = Faileds /\ Submitted' = Submitted
  BY SameClient DEF Accept
<1>3. wire' = wire /\ Wire' = Wire
  BY SameWire DEF Accept
<1>4. /\ replies' = replies /\ Snapshots' = Snapshots
      /\ \A op, i : (Yes(op, i)' <=> Yes(op, i)) /\ (No(op, i)' <=> No(op, i))
  BY SameReplies DEF Accept
<1>5. /\ busy' \in BusySet /\ ~Opening'
      /\ \A op, i : Serving(op, i)' <=> op = "steer" /\ i = k
  BY Parts, <1>1, MessageType DEF Accept, Opening, Serving, BusySet
<1>6. /\ sent' \in Seq(MessageSet)
      /\ Ids' = Ids /\ (\A i : Text(i)' = Text(i)) /\ (\A i \in Ids : sent'[i].run = sent[i].run)
      /\ sent'[k].state = "queued" /\ \A i \in Ids : i # k => sent'[i].state = sent[i].state
  BY Parts, <1>1, OneChanges DEF Accept, MessagesKept, Fates, Accepted
<1>7. \A n \in Wire : n.type # "idle" => RunOf(n)' = RunOf(n)
  BY Parts, <1>6 DEF Known, WireKnown, RunOf
<1>8. sent[k].state = "sent" /\ sent[k].run # 0 /\ Text(k) # {}
  BY Parts, <1>1 DEF SentWaits
<1>9. typed' = typed /\ gaveUp' = gaveUp /\ srv' = srv
  BY DEF Accept
<1>10. srv.mode = "running" /\ sent[k].run = srv.run
  BY DEF Accept
<1>11. Types'
  BY Parts, <1>1, <1>2, <1>3, <1>4, <1>5, <1>6, <1>7, <1>8, <1>9, <1>10 DEF Types
<1>12. SentKnown'
  BY Parts, <1>6, <1>7, <1>8, <1>9, <1>10 DEF SentKnown
<1>13. ClientKnown'
  BY Parts, <1>2, <1>6, <1>7, <1>8, <1>9, <1>10 DEF ClientKnown
<1>14. CallsKnown'
  BY Parts, <1>1, <1>5, <1>6, <1>7, <1>8, <1>9, <1>10 DEF CallsKnown
<1>15. RepliesKnown'
  BY Parts, <1>1, <1>4, <1>6, <1>7, <1>8, <1>9, <1>10 DEF RepliesKnown
<1>16. WireKnown'
  BY Parts, <1>1, <1>3, <1>6, <1>7, <1>8, <1>9, <1>10 DEF WireKnown, RunOf, MessageTypes
<1>17. SentWaits'
  BY Parts, <1>1, <1>6, <1>7, <1>8, <1>9, <1>10 DEF SentWaits, Accepted
<1>18. ToldIsTrue'
  BY Parts, <1>1, <1>3, <1>5, <1>6, <1>7, <1>8, <1>9, <1>10 DEF ToldIsTrue, Accepted
<1>19. AnsweredTruly'
  BY Parts, <1>1, <1>4, <1>6, <1>7, <1>8, <1>9, <1>10 DEF AnsweredTruly, Accepted
<1>20. AnsweredInTime'
  BY Parts, <1>1, <1>4, <1>6, <1>7, <1>8, <1>9, <1>10 DEF AnsweredInTime
<1>21. InRunOrder'
  BY Parts, <1>3, <1>6, <1>7 DEF InRunOrder, Before, Wire
<1>22. NotAhead'
  BY Parts, <1>2, <1>3, <1>6, <1>7, <1>8, <1>9, <1>10 DEF NotAhead
<1>23. OpensQuietly'
  BY Parts, <1>1, <1>2, <1>3, <1>4, <1>5, <1>8, <1>9, <1>10 DEF OpensQuietly
<1>24. AtItsRun'
  BY Parts, <1>2, <1>3, <1>6, <1>7, <1>8, <1>9, <1>10 DEF AtItsRun, Ours, Passed, InRun
<1>25. Answerable'
  BY Parts, <1>1, <1>2, <1>4, <1>5, <1>6, <1>7, <1>8, <1>9, <1>10 DEF Answerable, Accepted
<1>26. Untold'
  BY Parts, <1>1, <1>2, <1>3, <1>6, <1>7, <1>8, <1>9, <1>10 DEF Untold
<1>27. Pending'
  BY Parts, <1>2, <1>4, <1>6, <1>7, <1>8, <1>9, <1>10 DEF Pending, Accepted, RepliesKnown
<1>28. OneLive' /\ NotInDraft'
  <2>1. \A i \in Ids : Live(i)' => Live(i)
    BY Parts, <1>1, <1>2, <1>3, <1>4, <1>5, <1>6, <1>7, <1>8, <1>9, <1>10 DEF Live, MayReturn, Removal
  <2>2. QED
    BY Parts, <1>2, <1>6, <1>7, <1>8, <1>9, <1>10, <2>1, LiveShrinks DEF Types
<1>29. Somewhere'
  <2>1. \A i \in Ids : Carries(i) => Carries(i)'
    BY Parts, <1>1, <1>2, <1>3, <1>4, <1>5, <1>6, <1>7, <1>8, <1>9, <1>10 DEF Carries, Removal
  <2>2. QED
    BY Parts, <1>2, <1>6, <1>7, <1>8, <1>9, <1>10, <2>1, CarriesGrows
<1>30. QED
  BY <1>11, <1>12, <1>13, <1>14, <1>15, <1>16, <1>17, <1>18, <1>19, <1>20, <1>21, <1>22, <1>23, <1>24, <1>25, <1>26, <1>27, <1>28, <1>29 DEF TextInv, Known

\* It is told that a message was taken, or taken back, and the call answered.
LEMMA ConfirmTold ==
  ASSUME TextInv, Confirm, NEW k, k = busy.id, NEW o \in {"steer", "remove"}, busy.op = o,
         NEW t \in {"queued", "removed"}, t = "queued" <=> o = "steer"
  PROVE  TextInv'
<1>1. /\ Serving(o, k) /\ k \in Ids /\ ~Opening /\ (\A op, i : Serving(op, i) <=> op = o /\ i = k)
      /\ busy' \in BusySet /\ ~Opening' /\ \A op, i : Serving(op, i)' => op = "none"
  <2>1. Serving(o, k) /\ (\A op, i : Serving(op, i) <=> op = o /\ i = k) /\ ~Opening
    BY Parts DEF Types, Serving, Opening, BusySet
  <2>2. /\ busy' \in BusySet /\ ~Opening'
        /\ \A op, i : Serving(op, i)' => op = "none"
    BY DEF Confirm, None, Opening, Serving, BusySet
  <2>3. QED
    BY Parts, <2>1, <2>2 DEF CallsKnown
<1>2. wire' = wire \o <<Note(t, k)>> /\ wire' \in Seq(NoteSet) /\ Wire' = Wire \cup {Note(t, k)} /\ Note(t, k) \in NoteSet
  <2>1. wire' = wire \o <<Note(t, k)>> /\ Note(t, k) \in NoteSet
    BY Parts, <1>1, MessageType, NoteFacts DEF Confirm, Told, MessageTypes, RunTypes, Types
  <2>2. QED
    BY Parts, <2>1, OneTold
<1>3. sent' = sent /\ Ids' = Ids /\ (\A i : Text(i)' = Text(i)) /\ (\A m : RunOf(m)' = RunOf(m))
  BY SameSent DEF Confirm, MessagesKept
<1>4. tui' = tui /\ Opens' = Opens /\ Faileds' = Faileds /\ Submitted' = Submitted
  BY SameClient DEF Confirm
<1>5. /\ replies' \subseteq ReplySet
      /\ Snapshots' = Snapshots
      /\ \A op, i : Yes(op, i)' <=> Yes(op, i) \/ (op = o /\ i = k /\ ~(o = "steer" /\ k \in gaveUp))
      /\ \A op, i : No(op, i)' <=> No(op, i)
  <2>1. Answer(o, k, TRUE)
    BY DEF Confirm, Answer
  <2>2. k \in Nat
    BY Parts, <1>1, MessageType
  <2>3. CASE o = "steer"
    <3>1. Answer("steer", k, TRUE)
      BY <2>1, <2>3
    <3>2. /\ replies' \subseteq ReplySet /\ Snapshots' = Snapshots
          /\ \A op, i : Yes(op, i)' <=> Yes(op, i) \/ (op = "steer" /\ i = k /\ ~("steer" = "steer" /\ k \in gaveUp))
          /\ \A op, i : No(op, i)' <=> No(op, i)
      BY Parts, <2>2, <3>1, AnswerFacts
    <3>3. QED
      BY <2>3, <3>2
  <2>4. CASE o = "remove"
    <3>1. Answer("remove", k, TRUE)
      BY <2>1, <2>4
    <3>2. /\ replies' \subseteq ReplySet /\ Snapshots' = Snapshots
          /\ \A op, i : Yes(op, i)' <=> Yes(op, i) \/ (op = "remove" /\ i = k /\ ~("remove" = "steer" /\ k \in gaveUp))
          /\ \A op, i : No(op, i)' <=> No(op, i)
      BY Parts, <2>2, <3>1, AnswerFacts
    <3>3. QED
      BY <2>4, <3>2
  <2>5. QED
    BY <2>3, <2>4
<1>6. calls' = calls /\ \A op, i : Asked(op, i)' <=> Asked(op, i)
  BY SameCalls DEF Confirm
<1>7. typed' = typed /\ gaveUp' = gaveUp /\ srv' = srv
  BY DEF Confirm
<1>8. /\ sent[k].run = srv.run /\ srv.run # 0
      /\ o = "steer" => sent[k].state \in {"queued", "applied", "rejected"} /\ Text(k) # {}
      /\ o = "remove" => sent[k].state = "removed"
  <2>1. CASE o = "steer"
    BY Parts, <1>1, <2>1 DEF ToldIsTrue, SentWaits
  <2>2. CASE o = "remove"
    BY Parts, <1>1, <2>2 DEF ToldIsTrue, SentWaits
  <2>3. QED
    BY <2>1, <2>2
<1>9. /\ Note(t, k).type = t /\ Note(t, k).of = k /\ RunOf(Note(t, k)) = srv.run /\ srv.run \in 1 .. srv.run
      /\ tui.active <= srv.run /\ tui.completed <= srv.run
      /\ \A u, m : Note(u, m) = Note(t, k) <=> u = t /\ m = k
  BY Parts, <1>1, <1>8, NoteFacts DEF RunOf, MessageTypes, ClientKnown, Types, SessionSet, Clients
<1>10. Types'
  BY Parts, <1>1, <1>2, <1>3, <1>4, <1>5, <1>6, <1>7, <1>8, <1>9 DEF Types
<1>11. SentKnown'
  BY Parts, <1>3, <1>7, <1>8 DEF SentKnown
<1>12. ClientKnown'
  BY Parts, <1>3, <1>4, <1>7, <1>8 DEF ClientKnown
<1>13. CallsKnown'
  BY Parts, <1>1, <1>3, <1>6, <1>7, <1>8 DEF CallsKnown
<1>14. RepliesKnown'
  BY Parts, <1>1, <1>3, <1>5, <1>7, <1>8 DEF RepliesKnown
<1>15. WireKnown'
  BY Parts, <1>1, <1>2, <1>3, <1>7, <1>8, <1>9 DEF WireKnown, RunOf, MessageTypes
<1>16. SentWaits'
  BY Parts, <1>1, <1>3, <1>6, <1>7, <1>8 DEF SentWaits, Accepted
<1>17. ToldIsTrue'
  BY Parts, <1>1, <1>2, <1>3, <1>7, <1>8, <1>9 DEF ToldIsTrue, Accepted
<1>18. AnsweredTruly'
  BY Parts, <1>1, <1>3, <1>5, <1>7, <1>8 DEF AnsweredTruly, Accepted
<1>19. AnsweredInTime'
  BY Parts, <1>1, <1>3, <1>5, <1>7, <1>8 DEF AnsweredInTime
<1>20. InRunOrder'
  <2>1. RunOf(Note(t, k))' = srv'.run /\ srv'.run \in Nat /\ srv'.run = srv.run /\ Note(t, k).type \notin InRun
    BY Parts, <1>3, <1>7, <1>9 DEF InRun, Types, SessionSet
  <2>2. QED
    BY Parts, <1>2, <1>3, <2>1, OneToldInOrder
<1>21. NotAhead'
  BY Parts, <1>2, <1>3, <1>4, <1>7, <1>8, <1>9 DEF NotAhead
<1>22. OpensQuietly'
  BY Parts, <1>1, <1>2, <1>4, <1>5, <1>6, <1>7, <1>8, <1>9 DEF OpensQuietly
<1>23. AtItsRun'
  BY Parts, <1>2, <1>3, <1>4, <1>7, <1>8, <1>9 DEF AtItsRun, Ours, Passed, InRun
<1>24. Answerable'
  BY Parts, <1>1, <1>3, <1>4, <1>5, <1>6, <1>7, <1>8 DEF Answerable, Accepted
<1>25. Untold'
  BY Parts, <1>1, <1>2, <1>3, <1>4, <1>6, <1>7, <1>8, <1>9 DEF Untold
<1>26. Pending'
  BY Parts, <1>3, <1>4, <1>5, <1>7, <1>8 DEF Pending, Accepted, RepliesKnown
<1>27. OneLive' /\ NotInDraft'
  <2>1. \A i \in Ids : Live(i)' => Live(i)
    BY Parts, <1>1, <1>2, <1>3, <1>4, <1>5, <1>7, <1>8, <1>9 DEF Live, MayReturn, Removal
  <2>2. QED
    BY Parts, <1>3, <1>4, <1>7, <1>8, <2>1, LiveShrinks DEF Types
<1>28. Somewhere'
  <2>1. \A i \in Ids : Carries(i) => Carries(i)'
    BY Parts, <1>1, <1>2, <1>3, <1>4, <1>5, <1>7, <1>8, <1>9 DEF Carries, Removal
  <2>2. QED
    BY Parts, <1>3, <1>4, <1>7, <1>8, <2>1, CarriesGrows
<1>29. QED
  BY <1>10, <1>11, <1>12, <1>13, <1>14, <1>15, <1>16, <1>17, <1>18, <1>19, <1>20, <1>21, <1>22, <1>23, <1>24, <1>25, <1>26, <1>27, <1>28 DEF TextInv, Known

\* The run says how it goes on, and the session's state changes with it.
RunTells(type) ==
  /\ wire' = wire \o <<Note(type, srv.run)>>
  /\ srv' \in SessionSet /\ srv'.run = srv.run /\ srv'.cancelling = srv.cancelling
  /\ srv'.mine = srv.mine /\ srv'.late = srv.late
  /\ srv.mode # "idle" /\ (srv'.mode = "running" => srv.mode = "running")
  /\ IF type = "end" THEN ~srv.told /\ srv'.told /\ srv'.mode # "running" ELSE srv'.told = srv.told
  /\ srv.mode = "running" /\ srv'.mode # "running" =>
       /\ \A i \in Ids : sent[i].state # "queued"
       /\ \A i : Yes("steer", i) \/ Yes("remove", i) => sent[i].run = srv.run
  /\ UNCHANGED <<tui, typed, gaveUp, sent, calls, busy, replies>>

\* That keeps the texts in place.
LEMMA RunTellsText ==
  ASSUME TextInv, NEW type \in {"compactDone", "end", "idle"}, RunTells(type)
  PROVE  TextInv'
<1> PICK r : r = srv.run
  OBVIOUS
<1>1. RunTells(type) /\ r = srv.run
  OBVIOUS
<1>2. /\ srv' \in SessionSet /\ srv'.run = srv.run /\ srv'.cancelling = srv.cancelling
      /\ srv'.mine = srv.mine /\ srv'.late = srv.late
      /\ srv.mode # "idle" /\ (srv'.mode = "running" => srv.mode = "running")
      /\ IF type = "end" THEN ~srv.told /\ srv'.told /\ srv'.mode # "running" ELSE srv'.told = srv.told
      /\ srv.mode = "running" /\ srv'.mode # "running" =>
           /\ \A i \in Ids : sent[i].state # "queued"
           /\ \A i : Yes("steer", i) \/ Yes("remove", i) => sent[i].run = srv.run
  BY <1>1 DEF RunTells
<1>3. /\ wire' \in Seq(NoteSet) /\ Note(type, r) \in NoteSet /\ Wire' = Wire \cup {Note(type, r)}
      /\ Note(type, r).type = type /\ Note(type, r).of = r /\ RunOf(Note(type, r)) = r /\ RunOf(Note(type, r))' = r
      /\ (\A u, m : Note(u, m) = Note(type, r) <=> u = type /\ m = r) /\ wire' = wire \o <<Note(type, r)>>
  <2>1. wire' = wire \o <<Note(type, r)>> /\ r \in Nat
    BY InRanges, <1>1 DEF RunTells
  <2>2. type \in RunTypes /\ Types
    BY Parts DEF RunTypes
  <2>3. QED
    BY <2>1, <2>2, RunNote
<1>4. tui' = tui /\ Opens' = Opens /\ Faileds' = Faileds /\ Submitted' = Submitted
  BY SameClient DEF RunTells
<1>5. /\ replies' = replies /\ Snapshots' = Snapshots
      /\ \A op, i : (Yes(op, i)' <=> Yes(op, i)) /\ (No(op, i)' <=> No(op, i))
  BY SameReplies DEF RunTells
<1>6. calls' = calls /\ \A op, i : Asked(op, i)' <=> Asked(op, i)
  BY SameCalls DEF RunTells
<1>7. busy' = busy /\ (Opening' <=> Opening) /\ \A op, i : Serving(op, i)' <=> Serving(op, i)
  BY SameBusy DEF RunTells
<1>8. sent' = sent /\ Ids' = Ids /\ (\A i : Text(i)' = Text(i)) /\ (\A m : RunOf(m)' = RunOf(m))
  BY SameSent DEF RunTells, MessagesKept
<1>9. typed' = typed /\ gaveUp' = gaveUp
  BY DEF RunTells
<1>10. Types'
  BY Parts, <1>2, <1>3, <1>4, <1>5, <1>6, <1>7, <1>8, <1>9 DEF Types
<1>11. SentKnown'
  BY Parts, InRanges, <1>2, <1>8, <1>9 DEF SentKnown
<1>12. ClientKnown'
  BY Parts, InRanges, <1>2, <1>4, <1>8, <1>9 DEF ClientKnown
<1>13. CallsKnown'
  BY Parts, <1>2, <1>6, <1>7, <1>8, <1>9 DEF CallsKnown
<1>14. RepliesKnown'
  BY Parts, InRanges, <1>2, <1>5, <1>8, <1>9 DEF RepliesKnown
<1>15. WireKnown'
  BY Parts, InRanges, <1>2, <1>3, <1>8, <1>9 DEF WireKnown, RunOf, MessageTypes
<1>16. SentWaits'
  BY Parts, InRanges, <1>2, <1>6, <1>8, <1>9 DEF SentWaits, Accepted
<1>17. ToldIsTrue'
  BY Parts, InRanges, <1>2, <1>3, <1>7, <1>8, <1>9 DEF ToldIsTrue, Accepted
<1>18. AnsweredTruly'
  BY Parts, <1>2, <1>5, <1>8, <1>9 DEF AnsweredTruly, Accepted
<1>19. AnsweredInTime'
  BY Parts, InRanges, <1>2, <1>5, <1>8, <1>9 DEF AnsweredInTime
<1>20. InRunOrder'
  <2>1. /\ srv'.run \in Nat /\ srv.run <= srv'.run /\ RunOf(Note(type, r))' = srv'.run
        /\ Note(type, r).type \in InRun => ~srv.told \/ srv.run < srv'.run
    BY Parts, InRanges, <1>2, <1>3, <1>8 DEF InRun
  <2>2. QED
    BY Parts, InRanges, <1>2, <1>3, <1>8, <2>1, OneToldInOrder
<1>21. NotAhead'
  BY Parts, InRanges, <1>2, <1>3, <1>4, <1>8, <1>9 DEF NotAhead
<1>22. OpensQuietly'
  BY Parts, <1>2, <1>3, <1>4, <1>5, <1>6, <1>7, <1>9 DEF OpensQuietly
<1>23. AtItsRun'
  BY Parts, InRanges, <1>2, <1>3, <1>4, <1>8, <1>9 DEF AtItsRun, Ours, Passed, InRun
<1>24. Answerable'
  BY Parts, <1>2, <1>4, <1>5, <1>6, <1>7, <1>8, <1>9 DEF Answerable, Accepted
<1>25. Untold'
  BY Parts, <1>2, <1>3, <1>4, <1>6, <1>8, <1>9 DEF Untold
<1>26. Pending'
  BY Parts, <1>2, <1>4, <1>5, <1>8, <1>9 DEF Pending, Accepted, RepliesKnown
<1>27. OneLive' /\ NotInDraft'
  <2>1. \A i \in Ids : Live(i)' => Live(i)
    BY Parts, InRanges, <1>2, <1>3, <1>4, <1>5, <1>7, <1>8, <1>9 DEF Live, MayReturn, Removal
  <2>2. QED
    BY Parts, <1>2, <1>4, <1>8, <1>9, <2>1, LiveShrinks DEF Types
<1>28. Somewhere'
  <2>1. \A i \in Ids : Carries(i) => Carries(i)'
    BY Parts, <1>2, <1>3, <1>4, <1>5, <1>7, <1>8, <1>9 DEF Carries, Removal
  <2>2. QED
    BY Parts, <1>2, <1>4, <1>8, <1>9, <2>1, CarriesGrows
<1>29. QED
  BY <1>10, <1>11, <1>12, <1>13, <1>14, <1>15, <1>16, <1>17, <1>18, <1>19, <1>20, <1>21, <1>22, <1>23, <1>24, <1>25, <1>26, <1>27, <1>28 DEF TextInv, Known

\* The session is idle.
LEMMA SetIdleText ==
  ASSUME TextInv, SetIdle
  PROVE  TextInv'
<1>1. srv' \in SessionSet /\ srv \in SessionSet
  BY DEF SetIdle, TextInv, Types, SessionSet
<1>2. RunTells("idle")
  BY <1>1 DEF RunTells, SetIdle, Told, SessionSet
<1>3. QED
  BY <1>2, RunTellsText

\* A context was compacted.
LEMMA CompactText ==
  ASSUME TextInv, Compact
  PROVE  TextInv'
<1>1. srv' \in SessionSet /\ srv \in SessionSet
  BY DEF Compact, TextInv, Types, SessionSet
<1>2. RunTells("compactDone")
  BY <1>1 DEF RunTells, Compact, Told, SessionSet
<1>3. QED
  BY <1>2, RunTellsText

\* A run is done.
LEMMA FinishText ==
  ASSUME TextInv, Finish
  PROVE  TextInv'
<1>1. Types /\ NotAhead
  BY DEF TextInv
<1>2. srv' \in SessionSet /\ srv \in SessionSet
  BY <1>1 DEF Finish, Types, SessionSet
<1>3. /\ \A i \in Ids : sent[i].state # "queued"
      /\ \A i : Yes("steer", i) \/ Yes("remove", i) => sent[i].run = srv.run
  BY InTimeFacts DEF Finish, Queued, Ids
<1>4. RunTells("end")
  BY <1>1, <1>2, <1>3 DEF RunTells, Finish, Told, NotAhead, SessionSet
<1>5. QED
  BY <1>4, RunTellsText

\* The end of a run that was cancelled is told.
LEMMA CloseText ==
  ASSUME TextInv, Close, srv.cancelling /\ ~srv.told
  PROVE  TextInv'
<1>1. /\ srv.mode = "over" /\ srv' = [srv EXCEPT !.mode = "closing", !.told = TRUE]
      /\ wire' = wire \o <<Note("end", srv.run)>> /\ UNCHANGED <<tui, typed, gaveUp, sent, calls, busy, replies>>
  BY DEF Close, Told
<1>2. srv' \in SessionSet /\ srv \in SessionSet
  BY <1>1 DEF TextInv, Types, SessionSet
<1>3. RunTells("end")
  BY <1>1, <1>2 DEF RunTells, SessionSet
<1>4. QED
  BY <1>3, RunTellsText

\* A run whose end was told is closed.
LEMMA CloseQuietly ==
  ASSUME TextInv, Close, ~(srv.cancelling /\ ~srv.told)
  PROVE  TextInv'
<1>1. srv.mode = "over"
  BY DEF Close
<1>2. /\ srv' \in SessionSet /\ srv'.run = srv.run /\ srv'.mode = "closing" /\ srv'.told = srv.told /\ srv'.cancelling = srv.cancelling /\ srv'.mine = srv.mine /\ srv'.late = srv.late
  BY Parts DEF Close, Types, SessionSet
<1>3. tui' = tui /\ Opens' = Opens /\ Faileds' = Faileds /\ Submitted' = Submitted
  BY SameClient DEF Close
<1>4. wire' = wire /\ Wire' = Wire
  BY SameWire DEF Close
<1>5. /\ replies' = replies /\ Snapshots' = Snapshots
      /\ \A op, i : (Yes(op, i)' <=> Yes(op, i)) /\ (No(op, i)' <=> No(op, i))
  BY SameReplies DEF Close
<1>6. calls' = calls /\ \A op, i : Asked(op, i)' <=> Asked(op, i)
  BY SameCalls DEF Close
<1>7. busy' = busy /\ (Opening' <=> Opening) /\ \A op, i : Serving(op, i)' <=> Serving(op, i)
  BY SameBusy DEF Close
<1>8. sent' = sent /\ Ids' = Ids /\ (\A i : Text(i)' = Text(i)) /\ (\A m : RunOf(m)' = RunOf(m))
  BY SameSent DEF Close, MessagesKept
<1>9. typed' = typed /\ gaveUp' = gaveUp
  BY DEF Close
<1>10. Types'
  BY Parts, <1>1, <1>2, <1>3, <1>4, <1>5, <1>6, <1>7, <1>8, <1>9 DEF Types
<1>11. SentKnown'
  BY Parts, <1>1, <1>2, <1>8, <1>9 DEF SentKnown
<1>12. ClientKnown'
  BY Parts, <1>1, <1>2, <1>3, <1>8, <1>9 DEF ClientKnown
<1>13. CallsKnown'
  BY Parts, <1>1, <1>2, <1>6, <1>7, <1>8, <1>9 DEF CallsKnown
<1>14. RepliesKnown'
  BY Parts, <1>1, <1>2, <1>5, <1>8, <1>9 DEF RepliesKnown
<1>15. WireKnown'
  BY Parts, <1>1, <1>2, <1>4, <1>8, <1>9 DEF WireKnown, RunOf, MessageTypes
<1>16. SentWaits'
  BY Parts, <1>1, <1>2, <1>6, <1>8, <1>9 DEF SentWaits, Accepted
<1>17. ToldIsTrue'
  BY Parts, <1>1, <1>2, <1>4, <1>7, <1>8, <1>9 DEF ToldIsTrue, Accepted
<1>18. AnsweredTruly'
  BY Parts, <1>1, <1>2, <1>5, <1>8, <1>9 DEF AnsweredTruly, Accepted
<1>19. AnsweredInTime'
  BY Parts, <1>1, <1>2, <1>5, <1>8, <1>9 DEF AnsweredInTime
<1>20. InRunOrder'
  BY Parts, <1>4, <1>8 DEF InRunOrder, Before, Wire
<1>21. NotAhead'
  BY Parts, <1>1, <1>2, <1>3, <1>4, <1>8, <1>9 DEF NotAhead
<1>22. OpensQuietly'
  BY Parts, <1>1, <1>2, <1>3, <1>4, <1>5, <1>6, <1>7, <1>9 DEF OpensQuietly
<1>23. AtItsRun'
  BY Parts, <1>1, <1>2, <1>3, <1>4, <1>8, <1>9 DEF AtItsRun, Ours, Passed, InRun
<1>24. Answerable'
  BY Parts, <1>1, <1>2, <1>3, <1>5, <1>6, <1>7, <1>8, <1>9 DEF Answerable, Accepted
<1>25. Untold'
  BY Parts, <1>1, <1>2, <1>3, <1>4, <1>6, <1>8, <1>9 DEF Untold
<1>26. Pending'
  BY Parts, <1>1, <1>2, <1>3, <1>5, <1>8, <1>9 DEF Pending, Accepted, RepliesKnown
<1>27. OneLive' /\ NotInDraft'
  <2>1. \A i \in Ids : Live(i)' => Live(i)
    BY Parts, <1>1, <1>2, <1>3, <1>4, <1>5, <1>7, <1>8, <1>9 DEF Live, MayReturn, Removal
  <2>2. QED
    BY Parts, <1>1, <1>2, <1>3, <1>8, <1>9, <2>1, LiveShrinks DEF Types
<1>28. Somewhere'
  <2>1. \A i \in Ids : Carries(i) => Carries(i)'
    BY Parts, <1>1, <1>2, <1>3, <1>4, <1>5, <1>7, <1>8, <1>9 DEF Carries, Removal
  <2>2. QED
    BY Parts, <1>1, <1>2, <1>3, <1>8, <1>9, <2>1, CarriesGrows
<1>29. QED
  BY <1>10, <1>11, <1>12, <1>13, <1>14, <1>15, <1>16, <1>17, <1>18, <1>19, <1>20, <1>21, <1>22, <1>23, <1>24, <1>25, <1>26, <1>27, <1>28 DEF TextInv, Known

\* A cancel that comes too late is refused.
LEMMA CancelRefused ==
  ASSUME TextInv, CancelRun, Answer("cancel", 0, FALSE), srv' = srv, wire' = wire
  PROVE  TextInv'
<1>1. /\ Asked("cancel", 0) /\ ~Opening /\ (\A op, i : Serving(op, i) => op = "none")
      /\ calls' \subseteq CallSet
      /\ \A op, i : Asked(op, i)' <=> Asked(op, i) /\ ~(op = "cancel" /\ i = 0)
  BY Parts, BeginFacts DEF CancelRun, CallsKnown
<1>2. tui' = tui /\ Opens' = Opens /\ Faileds' = Faileds /\ Submitted' = Submitted
  BY SameClient DEF CancelRun
<1>3. wire' = wire /\ Wire' = Wire
  BY SameWire DEF CancelRun
<1>4. /\ replies' \subseteq ReplySet
      /\ Snapshots' = Snapshots
      /\ \A op, i : Yes(op, i)' <=> Yes(op, i)
      /\ \A op, i : No(op, i)' <=> No(op, i) \/ (op = "cancel" /\ i = 0)
  BY Parts, AnswerFacts
<1>5. busy' = busy /\ (Opening' <=> Opening) /\ \A op, i : Serving(op, i)' <=> Serving(op, i)
  BY SameBusy DEF CancelRun
<1>6. sent' = sent /\ Ids' = Ids /\ (\A i : Text(i)' = Text(i)) /\ (\A m : RunOf(m)' = RunOf(m))
  BY SameSent DEF CancelRun, MessagesKept
<1>7. srv' = srv
 OBVIOUS
<1>8. typed' = typed /\ gaveUp' = gaveUp
  BY DEF CancelRun
<1>9. Types'
  BY Parts, <1>1, <1>2, <1>3, <1>4, <1>5, <1>6, <1>7, <1>8 DEF Types
<1>10. SentKnown'
  BY Parts, <1>6, <1>7, <1>8 DEF SentKnown
<1>11. ClientKnown'
  BY Parts, <1>2, <1>6, <1>7, <1>8 DEF ClientKnown
<1>12. CallsKnown'
  BY Parts, <1>1, <1>5, <1>6, <1>7, <1>8 DEF CallsKnown
<1>13. RepliesKnown'
  BY Parts, <1>1, <1>4, <1>6, <1>7, <1>8 DEF RepliesKnown
<1>14. WireKnown'
  BY Parts, <1>1, <1>3, <1>6, <1>7, <1>8 DEF WireKnown, RunOf, MessageTypes
<1>15. SentWaits'
  BY Parts, <1>1, <1>6, <1>7, <1>8 DEF SentWaits, Accepted
<1>16. ToldIsTrue'
  BY Parts, <1>1, <1>3, <1>5, <1>6, <1>7, <1>8 DEF ToldIsTrue, Accepted
<1>17. AnsweredTruly'
  BY Parts, <1>1, <1>4, <1>6, <1>7, <1>8 DEF AnsweredTruly, Accepted
<1>18. AnsweredInTime'
  BY Parts, <1>1, <1>4, <1>6, <1>7, <1>8 DEF AnsweredInTime
<1>19. InRunOrder'
  BY Parts, <1>3, <1>6 DEF InRunOrder, Before, Wire
<1>20. NotAhead'
  BY Parts, <1>2, <1>3, <1>6, <1>7, <1>8 DEF NotAhead
<1>21. OpensQuietly'
  BY Parts, <1>1, <1>2, <1>3, <1>4, <1>5, <1>7, <1>8 DEF OpensQuietly
<1>22. AtItsRun'
  BY Parts, <1>2, <1>3, <1>6, <1>7, <1>8 DEF AtItsRun, Ours, Passed, InRun
<1>23. Answerable'
  BY Parts, <1>1, <1>2, <1>4, <1>5, <1>6, <1>7, <1>8 DEF Answerable, Accepted
<1>24. Untold'
  BY Parts, <1>1, <1>2, <1>3, <1>6, <1>7, <1>8 DEF Untold
<1>25. Pending'
  BY Parts, <1>2, <1>4, <1>6, <1>7, <1>8 DEF Pending, Accepted, RepliesKnown
<1>26. OneLive' /\ NotInDraft'
  <2>1. \A i \in Ids : Live(i)' => Live(i)
    BY Parts, <1>1, <1>2, <1>3, <1>4, <1>5, <1>6, <1>7, <1>8 DEF Live, MayReturn, Removal
  <2>2. QED
    BY Parts, <1>2, <1>6, <1>7, <1>8, <2>1, LiveShrinks DEF Types
<1>27. Somewhere'
  <2>1. \A i \in Ids : Carries(i) => Carries(i)'
    BY Parts, <1>1, <1>2, <1>3, <1>4, <1>5, <1>6, <1>7, <1>8 DEF Carries, Removal
  <2>2. QED
    BY Parts, <1>2, <1>6, <1>7, <1>8, <2>1, CarriesGrows
<1>28. QED
  BY <1>9, <1>10, <1>11, <1>12, <1>13, <1>14, <1>15, <1>16, <1>17, <1>18, <1>19, <1>20, <1>21, <1>22, <1>23, <1>24, <1>25, <1>26, <1>27 DEF TextInv, Known

\* A run that is cancelled already is cancelled.
LEMMA CancelAgain ==
  ASSUME TextInv, CancelRun, Answer("cancel", 0, TRUE), wire' = wire, srv.cancelling,
         srv' = [srv EXCEPT !.cancelling = TRUE, !.late = @ \/ srv.mode = "closing"]
  PROVE  TextInv'
<1>1. /\ Asked("cancel", 0) /\ ~Opening /\ (\A op, i : Serving(op, i) => op = "none")
      /\ calls' \subseteq CallSet
      /\ \A op, i : Asked(op, i)' <=> Asked(op, i) /\ ~(op = "cancel" /\ i = 0)
  BY Parts, BeginFacts DEF CancelRun, CallsKnown
<1>2. /\ srv' \in SessionSet /\ srv'.run = srv.run /\ srv'.mode = srv.mode /\ srv'.told = srv.told /\ srv'.cancelling = TRUE /\ srv'.mine = srv.mine
  BY Parts DEF CancelRun, Types, SessionSet
<1>3. tui' = tui /\ Opens' = Opens /\ Faileds' = Faileds /\ Submitted' = Submitted
  BY SameClient DEF CancelRun
<1>4. wire' = wire /\ Wire' = Wire
  BY SameWire DEF CancelRun
<1>5. /\ replies' \subseteq ReplySet
      /\ Snapshots' = Snapshots
      /\ \A op, i : Yes(op, i)' <=> Yes(op, i)
      /\ \A op, i : No(op, i)' <=> No(op, i)
  BY Parts, AnswerFacts
<1>6. busy' = busy /\ (Opening' <=> Opening) /\ \A op, i : Serving(op, i)' <=> Serving(op, i)
  BY SameBusy DEF CancelRun
<1>7. sent' = sent /\ Ids' = Ids /\ (\A i : Text(i)' = Text(i)) /\ (\A m : RunOf(m)' = RunOf(m))
  BY SameSent DEF CancelRun, MessagesKept
<1>8. typed' = typed /\ gaveUp' = gaveUp
  BY DEF CancelRun
<1>9. Types'
  BY Parts, <1>1, <1>2, <1>3, <1>4, <1>5, <1>6, <1>7, <1>8 DEF Types
<1>10. SentKnown'
  BY Parts, <1>2, <1>7, <1>8 DEF SentKnown
<1>11. ClientKnown'
  BY Parts, <1>2, <1>3, <1>7, <1>8 DEF ClientKnown
<1>12. CallsKnown'
  BY Parts, <1>1, <1>2, <1>6, <1>7, <1>8 DEF CallsKnown
<1>13. RepliesKnown'
  BY Parts, <1>1, <1>2, <1>5, <1>7, <1>8 DEF RepliesKnown
<1>14. WireKnown'
  BY Parts, <1>1, <1>2, <1>4, <1>7, <1>8 DEF WireKnown, RunOf, MessageTypes
<1>15. SentWaits'
  BY Parts, <1>1, <1>2, <1>7, <1>8 DEF SentWaits, Accepted
<1>16. ToldIsTrue'
  BY Parts, <1>1, <1>2, <1>4, <1>6, <1>7, <1>8 DEF ToldIsTrue, Accepted
<1>17. AnsweredTruly'
  BY Parts, <1>1, <1>2, <1>5, <1>7, <1>8 DEF AnsweredTruly, Accepted
<1>18. AnsweredInTime'
  BY Parts, <1>1, <1>2, <1>5, <1>7, <1>8 DEF AnsweredInTime
<1>19. InRunOrder'
  BY Parts, <1>4, <1>7 DEF InRunOrder, Before, Wire
<1>20. NotAhead'
  BY Parts, <1>2, <1>3, <1>4, <1>7, <1>8 DEF NotAhead
<1>21. OpensQuietly'
  BY Parts, <1>1, <1>2, <1>3, <1>4, <1>5, <1>6, <1>8 DEF OpensQuietly
<1>22. AtItsRun'
  BY Parts, <1>2, <1>3, <1>4, <1>7, <1>8 DEF AtItsRun, Ours, Passed, InRun
<1>23. Answerable'
  BY Parts, <1>1, <1>2, <1>3, <1>5, <1>6, <1>7, <1>8 DEF Answerable, Accepted
<1>24. Untold'
  BY Parts, <1>1, <1>2, <1>3, <1>4, <1>7, <1>8 DEF Untold
<1>25. Pending'
  BY Parts, <1>2, <1>3, <1>5, <1>7, <1>8 DEF Pending, Accepted, RepliesKnown
<1>26. OneLive' /\ NotInDraft'
  <2>1. \A i \in Ids : Live(i)' => Live(i)
    BY Parts, <1>1, <1>2, <1>3, <1>4, <1>5, <1>6, <1>7, <1>8 DEF Live, MayReturn, Removal
  <2>2. QED
    BY Parts, <1>2, <1>3, <1>7, <1>8, <2>1, LiveShrinks DEF Types
<1>27. Somewhere'
  <2>1. \A i \in Ids : Carries(i) => Carries(i)'
    BY Parts, <1>1, <1>2, <1>3, <1>4, <1>5, <1>6, <1>7, <1>8 DEF Carries, Removal
  <2>2. QED
    BY Parts, <1>2, <1>3, <1>7, <1>8, <2>1, CarriesGrows
<1>28. QED
  BY <1>9, <1>10, <1>11, <1>12, <1>13, <1>14, <1>15, <1>16, <1>17, <1>18, <1>19, <1>20, <1>21, <1>22, <1>23, <1>24, <1>25, <1>26, <1>27 DEF TextInv, Known

\* A run is cancelled, and that is told.
LEMMA CancelTold ==
  ASSUME TextInv, CancelRun, Answer("cancel", 0, TRUE), Told(<<Note("cancelling", srv.run)>>), srv.mode # "idle", ~srv.told,
         srv' = [srv EXCEPT !.cancelling = TRUE, !.late = @ \/ srv.mode = "closing"]
  PROVE  TextInv'
<1> PICK r : r = srv.run
  OBVIOUS
<1>1. /\ Asked("cancel", 0) /\ ~Opening /\ (\A op, i : Serving(op, i) => op = "none")
      /\ calls' \subseteq CallSet
      /\ \A op, i : Asked(op, i)' <=> Asked(op, i) /\ ~(op = "cancel" /\ i = 0)
  BY Parts, BeginFacts DEF CancelRun, CallsKnown
<1>2. /\ srv' \in SessionSet /\ srv'.run = srv.run /\ srv'.mode = srv.mode /\ srv'.told = srv.told /\ srv'.cancelling = TRUE /\ srv'.mine = srv.mine
  BY Parts, InRanges DEF CancelRun, Types, SessionSet
<1>3. /\ wire' \in Seq(NoteSet) /\ Note("cancelling", r) \in NoteSet /\ Wire' = Wire \cup {Note("cancelling", r)}
      /\ Note("cancelling", r).type = "cancelling" /\ Note("cancelling", r).of = r /\ RunOf(Note("cancelling", r)) = r /\ RunOf(Note("cancelling", r))' = r
      /\ (\A u, m : Note(u, m) = Note("cancelling", r) <=> u = "cancelling" /\ m = r) /\ wire' = wire \o <<Note("cancelling", r)>>
  <2>1. wire' = wire \o <<Note("cancelling", r)>> /\ r \in Nat
    BY Parts, InRanges DEF CancelRun, Told
  <2>2. "cancelling" \in RunTypes
    BY DEF RunTypes
  <2>3. Types
    BY Parts
  <2>4. QED
    BY <2>1, <2>2, <2>3, RunNote
<1>4. tui' = tui /\ Opens' = Opens /\ Faileds' = Faileds /\ Submitted' = Submitted
  BY SameClient DEF CancelRun
<1>5. /\ replies' \subseteq ReplySet
      /\ Snapshots' = Snapshots
      /\ \A op, i : Yes(op, i)' <=> Yes(op, i)
      /\ \A op, i : No(op, i)' <=> No(op, i)
  BY Parts, AnswerFacts
<1>6. busy' = busy /\ (Opening' <=> Opening) /\ \A op, i : Serving(op, i)' <=> Serving(op, i)
  BY SameBusy DEF CancelRun
<1>7. sent' = sent /\ Ids' = Ids /\ (\A i : Text(i)' = Text(i)) /\ (\A m : RunOf(m)' = RunOf(m))
  BY SameSent DEF CancelRun, MessagesKept
<1>8. typed' = typed /\ gaveUp' = gaveUp
  BY DEF CancelRun
<1>9. r = srv.run /\ srv.mode # "idle" /\ ~srv.told
 OBVIOUS
<1>10. Types'
  BY Parts, <1>1, <1>2, <1>3, <1>4, <1>5, <1>6, <1>7, <1>8, <1>9 DEF Types
<1>11. SentKnown'
  BY Parts, InRanges, <1>2, <1>7, <1>8, <1>9 DEF SentKnown
<1>12. ClientKnown'
  BY Parts, InRanges, <1>2, <1>4, <1>7, <1>8, <1>9 DEF ClientKnown
<1>13. CallsKnown'
  BY Parts, <1>1, <1>2, <1>6, <1>7, <1>8, <1>9 DEF CallsKnown
<1>14. RepliesKnown'
  BY Parts, <1>1, InRanges, <1>2, <1>5, <1>7, <1>8, <1>9 DEF RepliesKnown
<1>15. WireKnown'
  BY Parts, <1>1, InRanges, <1>2, <1>3, <1>7, <1>8, <1>9 DEF WireKnown, RunOf, MessageTypes
<1>16. SentWaits'
  BY Parts, <1>1, InRanges, <1>2, <1>7, <1>8, <1>9 DEF SentWaits, Accepted
<1>17. ToldIsTrue'
  BY Parts, <1>1, InRanges, <1>2, <1>3, <1>6, <1>7, <1>8, <1>9 DEF ToldIsTrue, Accepted
<1>18. AnsweredTruly'
  BY Parts, <1>1, <1>2, <1>5, <1>7, <1>8, <1>9 DEF AnsweredTruly, Accepted
<1>19. AnsweredInTime'
  BY Parts, <1>1, InRanges, <1>2, <1>5, <1>7, <1>8, <1>9 DEF AnsweredInTime
<1>20. InRunOrder'
  <2>1. /\ srv'.run \in Nat /\ srv.run <= srv'.run /\ RunOf(Note("cancelling", r))' = srv'.run
        /\ Note("cancelling", r).type \in InRun => ~srv.told \/ srv.run < srv'.run
    BY Parts, InRanges, <1>3, <1>7, <1>9, <1>2 DEF InRun
  <2>2. QED
    BY Parts, InRanges, <1>3, <1>7, <1>9, <1>2, <2>1, OneToldInOrder
<1>21. NotAhead'
  BY Parts, InRanges, <1>2, <1>3, <1>4, <1>7, <1>8, <1>9 DEF NotAhead
<1>22. OpensQuietly'
  BY Parts, <1>1, <1>2, <1>3, <1>4, <1>5, <1>6, <1>8, <1>9 DEF OpensQuietly
<1>23. AtItsRun'
  BY Parts, InRanges, <1>2, <1>3, <1>4, <1>7, <1>8, <1>9 DEF AtItsRun, Ours, Passed, InRun
<1>24. Answerable'
  BY Parts, <1>1, <1>2, <1>4, <1>5, <1>6, <1>7, <1>8, <1>9 DEF Answerable, Accepted
<1>25. Untold'
  BY Parts, <1>1, <1>2, <1>3, <1>4, <1>7, <1>8, <1>9 DEF Untold
<1>26. Pending'
  BY Parts, <1>2, <1>4, <1>5, <1>7, <1>8, <1>9 DEF Pending, Accepted, RepliesKnown
<1>27. OneLive' /\ NotInDraft'
  <2>1. \A i \in Ids : Live(i)' => Live(i)
    BY Parts, <1>1, InRanges, <1>2, <1>3, <1>4, <1>5, <1>6, <1>7, <1>8, <1>9 DEF Live, MayReturn, Removal
  <2>2. QED
    BY Parts, <1>2, <1>4, <1>7, <1>8, <1>9, <2>1, LiveShrinks DEF Types
<1>28. Somewhere'
  <2>1. \A i \in Ids : Carries(i) => Carries(i)'
    BY Parts, <1>1, <1>2, <1>3, <1>4, <1>5, <1>6, <1>7, <1>8, <1>9 DEF Carries, Removal
  <2>2. QED
    BY Parts, <1>2, <1>4, <1>7, <1>8, <1>9, <2>1, CarriesGrows
<1>29. QED
  BY <1>10, <1>11, <1>12, <1>13, <1>14, <1>15, <1>16, <1>17, <1>18, <1>19, <1>20, <1>21, <1>22, <1>23, <1>24, <1>25, <1>26, <1>27, <1>28 DEF TextInv, Known

\* A message does not begin a run, because one executes.
LEMMA SendRefused ==
  ASSUME TextInv, NEW k, StartRun(k), srv.mode # "idle"
  PROVE  TextInv'
<1>1. /\ Asked("send", k) /\ k \in Ids /\ ~Opening /\ (\A op, i : Serving(op, i) => op = "none")
      /\ calls' \subseteq CallSet
      /\ \A op, i : Asked(op, i)' <=> Asked(op, i) /\ ~(op = "send" /\ i = k)
  BY Parts, BeginFacts DEF StartRun, CallsKnown
<1>2. tui' = tui /\ Opens' = Opens /\ Faileds' = Faileds /\ Submitted' = Submitted
  BY SameClient DEF StartRun
<1>3. wire' = wire /\ Wire' = Wire
  BY SameWire DEF StartRun
<1>4. /\ replies' \subseteq ReplySet
      /\ Snapshots' = Snapshots
      /\ \A op, i : Yes(op, i)' <=> Yes(op, i)
      /\ \A op, i : No(op, i)' <=> No(op, i) \/ (op = "send" /\ i = k)
  BY Parts, <1>1, MessageType, AnswerFacts DEF StartRun
<1>5. busy' = busy /\ (Opening' <=> Opening) /\ \A op, i : Serving(op, i)' <=> Serving(op, i)
  BY SameBusy DEF StartRun
<1>6. /\ sent' \in Seq(MessageSet)
      /\ Ids' = Ids /\ (\A i : Text(i)' = Text(i)) /\ (\A i \in Ids : sent'[i].run = sent[i].run)
      /\ sent'[k].state = "busy" /\ \A i \in Ids : i # k => sent'[i].state = sent[i].state
  BY Parts, <1>1, OneChanges DEF StartRun, MessagesKept, Fates, Accepted
<1>7. \A n \in Wire : n.type # "idle" => RunOf(n)' = RunOf(n)
  BY Parts, <1>6 DEF Known, WireKnown, RunOf
<1>8. srv' = srv
  BY DEF StartRun
<1>9. typed' = typed /\ gaveUp' = gaveUp
  BY DEF StartRun
<1>10. sent[k].state = "sent" /\ sent[k].run = 0
  BY Parts, <1>1 DEF SentWaits
<1>11. Types'
  BY Parts, <1>1, <1>2, <1>3, <1>4, <1>5, <1>6, <1>7, <1>8, <1>9, <1>10 DEF Types
<1>12. SentKnown'
  BY Parts, <1>6, <1>7, <1>8, <1>9, <1>10 DEF SentKnown
<1>13. ClientKnown'
  BY Parts, <1>2, <1>6, <1>7, <1>8, <1>9, <1>10 DEF ClientKnown
<1>14. CallsKnown'
  BY Parts, <1>1, <1>5, <1>6, <1>7, <1>8, <1>9, <1>10 DEF CallsKnown
<1>15. RepliesKnown'
  BY Parts, <1>1, <1>4, <1>6, <1>7, <1>8, <1>9, <1>10 DEF RepliesKnown
<1>16. WireKnown'
  BY Parts, <1>1, <1>3, <1>6, <1>7, <1>8, <1>9, <1>10 DEF WireKnown, RunOf, MessageTypes
<1>17. SentWaits'
  BY Parts, <1>1, <1>6, <1>7, <1>8, <1>9, <1>10 DEF SentWaits, Accepted
<1>18. ToldIsTrue'
  BY Parts, <1>1, <1>3, <1>5, <1>6, <1>7, <1>8, <1>9, <1>10 DEF ToldIsTrue, Accepted
<1>19. AnsweredTruly'
  BY Parts, <1>1, <1>4, <1>6, <1>7, <1>8, <1>9, <1>10 DEF AnsweredTruly, Accepted
<1>20. AnsweredInTime'
  BY Parts, <1>1, <1>4, <1>6, <1>7, <1>8, <1>9, <1>10 DEF AnsweredInTime
<1>21. InRunOrder'
  BY Parts, <1>3, <1>6, <1>7 DEF InRunOrder, Before, Wire
<1>22. NotAhead'
  BY Parts, <1>2, <1>3, <1>6, <1>7, <1>8, <1>9, <1>10 DEF NotAhead
<1>23. OpensQuietly'
  BY Parts, <1>1, <1>2, <1>3, <1>4, <1>5, <1>8, <1>9, <1>10 DEF OpensQuietly
<1>24. AtItsRun'
  BY Parts, <1>2, <1>3, <1>6, <1>7, <1>8, <1>9, <1>10 DEF AtItsRun, Ours, Passed, InRun
<1>25. Answerable'
  BY Parts, <1>1, <1>2, <1>4, <1>5, <1>6, <1>7, <1>8, <1>9, <1>10 DEF Answerable, Accepted
<1>26. Untold'
  BY Parts, <1>1, <1>2, <1>3, <1>6, <1>7, <1>8, <1>9, <1>10 DEF Untold
<1>27. Pending'
  BY Parts, <1>2, <1>4, <1>6, <1>7, <1>8, <1>9, <1>10 DEF Pending, Accepted, RepliesKnown
<1>28. OneLive' /\ NotInDraft'
  <2>1. \A i \in Ids : Live(i)' => Live(i)
    BY Parts, <1>1, <1>2, <1>3, <1>4, <1>5, <1>6, <1>7, <1>8, <1>9, <1>10 DEF Live, MayReturn, Removal
  <2>2. QED
    BY Parts, <1>2, <1>6, <1>7, <1>8, <1>9, <1>10, <2>1, LiveShrinks DEF Types
<1>29. Somewhere'
  <2>1. \A i \in Ids : Carries(i) => Carries(i)'
    BY Parts, <1>1, <1>2, <1>3, <1>4, <1>5, <1>6, <1>7, <1>8, <1>9, <1>10 DEF Carries, Removal
  <2>2. QED
    BY Parts, <1>2, <1>6, <1>7, <1>8, <1>9, <1>10, <2>1, CarriesGrows
<1>30. QED
  BY <1>11, <1>12, <1>13, <1>14, <1>15, <1>16, <1>17, <1>18, <1>19, <1>20, <1>21, <1>22, <1>23, <1>24, <1>25, <1>26, <1>27, <1>28, <1>29 DEF TextInv, Known

\* A message begins a run.
LEMMA SendBegins ==
  ASSUME TextInv, NEW k, StartRun(k), srv.mode = "idle"
  PROVE  TextInv'
<1> PICK r : r = srv.run + 1
  OBVIOUS
<1>1. /\ Asked("send", k) /\ k \in Ids /\ ~Opening /\ (\A op, i : Serving(op, i) => op = "none")
      /\ calls' \subseteq CallSet
      /\ \A op, i : Asked(op, i)' <=> Asked(op, i) /\ ~(op = "send" /\ i = k)
  BY Parts, BeginFacts DEF StartRun, CallsKnown
<1>2. r = srv.run + 1 /\ srv.run < MaxRuns /\ r \in Nat /\ r <= MaxRuns /\ srv.mode = "idle"
  BY InRanges, SteeringClientAssumption DEF StartRun
<1>3. /\ srv' \in SessionSet /\ srv'.run = r /\ srv'.mode = "running" /\ srv'.told = FALSE /\ srv'.cancelling = FALSE
  BY Parts, InRanges, <1>2, ZenonT(40) DEF StartRun, Types, SessionSet
<1>4. /\ wire' \in Seq(NoteSet) /\ Note("running", r) \in NoteSet /\ Wire' = Wire \cup {Note("running", r)}
      /\ Note("running", r).type = "running" /\ Note("running", r).of = r /\ RunOf(Note("running", r)) = r /\ RunOf(Note("running", r))' = r
      /\ (\A u, m : Note(u, m) = Note("running", r) <=> u = "running" /\ m = r) /\ wire' = wire \o <<Note("running", r)>>
  <2>1. wire' = wire \o <<Note("running", r)>> /\ r \in Nat
    BY Parts, InRanges, <1>2 DEF StartRun, Told
  <2>2. "running" \in RunTypes
    BY DEF RunTypes
  <2>3. Types
    BY Parts
  <2>4. QED
    BY <2>1, <2>2, <2>3, RunNote
<1>5. tui' = tui /\ Opens' = Opens /\ Faileds' = Faileds /\ Submitted' = Submitted
  BY SameClient DEF StartRun
<1>6. /\ replies' \subseteq ReplySet
      /\ Snapshots' = Snapshots
      /\ \A op, i : Yes(op, i)' <=> Yes(op, i)
      /\ \A op, i : No(op, i)' <=> No(op, i)
  BY Parts, <1>1, MessageType, AnswerFacts DEF StartRun
<1>7. busy' = busy /\ (Opening' <=> Opening) /\ \A op, i : Serving(op, i)' <=> Serving(op, i)
  BY SameBusy DEF StartRun
<1>8. /\ sent' \in Seq(MessageSet)
      /\ Ids' = Ids /\ (\A i : Text(i)' = Text(i)) /\ (\A i \in Ids : sent'[i].run = sent[i].run)
      /\ sent'[k].state = "applied" /\ \A i \in Ids : i # k => sent'[i].state = sent[i].state
  BY Parts, <1>1, OneChanges DEF StartRun, MessagesKept, Fates, Accepted
<1>9. \A n \in Wire : n.type # "idle" => RunOf(n)' = RunOf(n)
  BY Parts, <1>8 DEF Known, WireKnown, RunOf
<1>10. typed' = typed /\ gaveUp' = gaveUp
  BY DEF StartRun
<1>11. sent[k].state = "sent" /\ sent[k].run = 0
  BY Parts, <1>1 DEF SentWaits
<1>12. k \notin Submitted
  BY Parts, <1>11 DEF Answerable
<1>13. tui.at = "open" /\ Snapshots = {}
  BY Parts, <1>1 DEF OpensQuietly
<1>14. Types'
  BY Parts, <1>1, <1>2, <1>3, <1>4, <1>5, <1>6, <1>7, <1>8, <1>9, <1>10, <1>11, <1>13 DEF Types
<1>15. SentKnown'
  BY Parts, InRanges, <1>2, <1>3, <1>8, <1>9, <1>10, <1>11, <1>13 DEF SentKnown
<1>16. ClientKnown'
  BY Parts, InRanges, <1>2, <1>3, <1>5, <1>8, <1>9, <1>10, <1>11, <1>12, <1>13 DEF ClientKnown
<1>17. CallsKnown'
  BY Parts, <1>1, <1>2, <1>3, <1>7, <1>8, <1>9, <1>10, <1>11, <1>13 DEF CallsKnown
<1>18. RepliesKnown'
  BY Parts, <1>1, InRanges, <1>2, <1>3, <1>6, <1>8, <1>9, <1>10, <1>11, <1>13 DEF RepliesKnown
<1>19. WireKnown'
  <2>1. \A n \in Wire : /\ n.type \in MessageTypes => n.of \in Ids'
                        /\ n.type # "idle" => RunOf(n)' \in 1 .. srv'.run
    BY Parts, InRanges, <1>2, <1>3, <1>8, <1>9 DEF WireKnown, Known
  <2>2. "running" \notin MessageTypes /\ r \in 1 .. srv'.run
    BY InRanges, <1>2, <1>3 DEF MessageTypes
  <2>3. /\ Note("running", r).type = "running" /\ Note("running", r).of = r /\ Wire' = Wire \cup {Note("running", r)}
    BY <1>4
  <2>4. ASSUME NEW n \in Wire'
        PROVE  /\ n.type \in MessageTypes => n.of \in Ids'
               /\ n.type # "idle" => RunOf(n)' \in 1 .. srv'.run
    <3>1. CASE n \in Wire
      BY <2>1, <3>1
    <3>2. CASE n = Note("running", r)
      BY <2>2, <2>3, <3>2 DEF RunOf
    <3>3. QED
      BY <2>3, <3>1, <3>2
  <2>5. QED
    BY <2>4 DEF WireKnown
<1>20. SentWaits'
  BY Parts, <1>1, InRanges, <1>2, <1>3, <1>8, <1>9, <1>10, <1>11, <1>13 DEF SentWaits, Accepted
<1>21. ToldIsTrue'
  <2>1. \A u \in MessageTypes, i \in Ids : Note(u, i) \in Wire' => Note(u, i) \in Wire
    BY <1>4 DEF MessageTypes
  <2>2. \A i : ~Serving("steer", i)' /\ ~Serving("remove", i)'
    BY <1>1, <1>7
  <2>3. \A i \in Ids : Note("queued", i) \in Wire \/ Note("removed", i) \in Wire \/ Note("rejected", i) \in Wire => i # k
    BY Parts, <1>11 DEF ToldIsTrue, Accepted
  <2>4. QED
    BY Parts, <1>8, <1>11, <2>1, <2>2, <2>3 DEF ToldIsTrue, MessageTypes
<1>22. AnsweredTruly'
  BY Parts, <1>1, <1>2, <1>3, <1>6, <1>8, <1>9, <1>10, <1>11, <1>13 DEF AnsweredTruly, Accepted
<1>23. AnsweredInTime'
  BY Parts, <1>1, InRanges, <1>2, <1>3, <1>6, <1>8, <1>9, <1>10, <1>11, <1>13 DEF AnsweredInTime
<1>24. InRunOrder'
  <2>1. /\ srv'.run \in Nat /\ srv.run <= srv'.run /\ RunOf(Note("running", r))' = srv'.run
        /\ Note("running", r).type \in InRun => ~srv.told \/ srv.run < srv'.run
    BY Parts, InRanges, <1>2, <1>4, <1>8, <1>9, <1>3 DEF InRun
  <2>2. QED
    BY Parts, InRanges, <1>2, <1>4, <1>8, <1>9, <1>3, <2>1, OneToldInOrder
<1>25. NotAhead'
  BY Parts, InRanges, <1>2, <1>3, <1>4, <1>5, <1>8, <1>9, <1>10, <1>11, <1>13, SMTT(30) DEF NotAhead
<1>26. OpensQuietly'
  BY Parts, <1>1, <1>2, <1>3, <1>4, <1>5, <1>6, <1>7, <1>10, <1>11, <1>13 DEF OpensQuietly
<1>27. AtItsRun'
  <2>1. \A q \in 0 .. srv.run : Passed(q) => Passed(q)'
    <3>1. \A n \in Wire : n.type \in InRun => RunOf(n)' = RunOf(n)
      BY <1>9 DEF InRun
    <3>2. QED
      BY InRanges, <1>2, <1>3, <1>4, <3>1 DEF Passed
  <2>2. QED
    BY Parts, InRanges, <1>5, <1>8, <1>11, <2>1 DEF AtItsRun, Ours
<1>28. Answerable'
  BY Parts, <1>1, <1>2, <1>3, <1>5, <1>6, <1>7, <1>8, <1>9, <1>10, <1>11, <1>12, <1>13 DEF Answerable, Accepted
<1>29. Untold'
  BY Parts, <1>1, <1>2, <1>3, <1>4, <1>5, <1>8, <1>9, <1>10, <1>11, <1>12, <1>13, ZenonT(60) DEF Untold
<1>30. Pending'
  BY Parts, <1>2, <1>3, <1>5, <1>6, <1>8, <1>9, <1>10, <1>11, <1>12, <1>13 DEF Pending, Accepted, RepliesKnown
<1>31. OneLive' /\ NotInDraft'
  <2>1. \A i \in Ids : MayReturn(i)' => MayReturn(i)
    BY <1>1, <1>4, <1>5, <1>6, <1>7, <1>8, <1>11 DEF MayReturn, Removal
  <2>2. \A i \in Ids : Live(i)' => Live(i)
    <3>1. \A i \in Ids : ~(sent[i].run = srv'.run)
      BY InRanges, <1>2, <1>3
    <3>2. QED
      BY <1>5, <1>8, <1>11, <2>1, <3>1 DEF Live
  <2>3. QED
    BY Parts, <1>2, <1>3, <1>5, <1>8, <1>9, <1>10, <1>11, <1>13, <2>2, LiveShrinks DEF Types
<1>32. Somewhere'
  <2>1. \A i \in Ids : Carries(i) => Carries(i)'
    BY Parts, <1>1, <1>2, <1>3, <1>4, <1>5, <1>6, <1>7, <1>8, <1>9, <1>10, <1>11, <1>12, <1>13 DEF Carries, Removal
  <2>2. QED
    BY Parts, <1>2, <1>3, <1>5, <1>8, <1>9, <1>10, <1>11, <1>13, <2>1, CarriesGrows
<1>33. QED
  BY <1>14, <1>15, <1>16, <1>17, <1>18, <1>19, <1>20, <1>21, <1>22, <1>23, <1>24, <1>25, <1>26, <1>27, <1>28, <1>29, <1>30, <1>31, <1>32 DEF TextInv, Known

\* The snapshot of the session is the only one, and no other answer.
LEMMA SnapshotFacts ==
  ASSUME Types, Known, SentWaits, OpensQuietly, Snapshot
  PROVE  /\ Opening /\ tui.at # "open" /\ ~Opening' /\ busy' \in BusySet
         /\ (\A op, i : Serving(op, i) => op = "attach") /\ (\A op, i : Serving(op, i)' => op = "none")
         /\ replies' \subseteq ReplySet /\ Snapshots' # {}
         /\ \A x, y \in Snapshots' : x = y
         /\ \A x \in Snapshots' : ~x.cancelling /\ x.pending \subseteq Ids /\ x.run <= srv.run
         /\ \A x \in Snapshots' : \A id \in x.pending : sent[id].state \in Accepted /\ sent[id].run # 0
         /\ \A op, i : (Yes(op, i)' <=> Yes(op, i)) /\ (No(op, i)' <=> No(op, i))
<1> DEFINE x == IF srv.mode = "idle"
        THEN [op |-> "attach", id |-> 0, run |-> 0, cancelling |-> FALSE, control |-> FALSE, pending |-> {}]
        ELSE [op |-> "attach", id |-> 0, run |-> srv.run, cancelling |-> srv.cancelling /\ ~srv.told,
              control |-> Mine /\ ~(srv.cancelling /\ ~srv.told), pending |-> Queued]
<1>1. replies' = replies \cup {x} /\ busy.op = "attach" /\ busy' = None
  BY DEF Snapshot
<1>2. Opening /\ tui.at # "open" /\ ~srv.cancelling /\ Snapshots = {}
  BY <1>1 DEF OpensQuietly, Opening
<1>3. srv.run \in Nat /\ Queued \subseteq Ids /\ Ids \subseteq Nat
  BY MessageType DEF Types, SessionSet, Queued, Ids
<1>4. x.op = "attach" /\ "run" \in DOMAIN x
  OBVIOUS
<1>5. x.cancelling = FALSE /\ x.pending \subseteq Ids /\ x.run \in Nat /\ x.run <= srv.run
  <2>1. CASE srv.mode = "idle"
    BY <1>3, <2>1
  <2>2. CASE srv.mode # "idle"
    <3>1. /\ x.cancelling = (srv.cancelling /\ ~srv.told) /\ x.pending = Queued /\ x.run = srv.run
      BY <2>2
    <3>2. (srv.cancelling /\ ~srv.told) = FALSE
      BY <1>2
    <3> HIDE DEF x
    <3>3. x.cancelling = FALSE
      BY <3>1, <3>2, Zenon
    <3>4. QED
      BY <1>3, <3>1, <3>3
  <2>3. QED
    BY <2>1, <2>2
<1>6. x \in ReplySet
  <2>1. x.control \in BOOLEAN
    <3>1. CASE srv.mode = "idle"
      BY <3>1
    <3>2. CASE srv.mode # "idle"
      <4>1. x.control = (Mine /\ ~(srv.cancelling /\ ~srv.told))
        BY <3>2
      <4>2. QED
        BY <4>1
    <3>3. QED
      BY <3>1, <3>2
  <2>2. x = [op |-> "attach", id |-> 0, run |-> x.run, cancelling |-> x.cancelling, control |-> x.control, pending |-> x.pending]
    OBVIOUS
  <2> HIDE DEF x
  <2>3. x.pending \in SUBSET Nat
    BY <1>3, <1>5
  <2>4. x.cancelling \in BOOLEAN /\ x.run \in Nat
    BY <1>5
  <2>5. [op |-> "attach", id |-> 0, run |-> x.run, cancelling |-> x.cancelling, control |-> x.control, pending |-> x.pending]
          \in [op : {"attach"}, id : {0}, run : Nat, cancelling : BOOLEAN, control : BOOLEAN, pending : SUBSET Nat]
    BY <2>1, <2>3, <2>4
  <2>6. QED
    BY <2>2, <2>5 DEF ReplySet
<1>7. \A op, i, b : [op |-> op, id |-> i, ok |-> b] # x
  <2> HIDE DEF x
  <2>1. \A op, i, b : "run" \notin DOMAIN [op |-> op, id |-> i, ok |-> b]
    OBVIOUS
  <2>2. QED
    BY <1>4, <2>1
<1> HIDE DEF x
<1>8. Snapshots' = {x}
  BY <1>1, <1>2, <1>4 DEF Snapshots
<1>9. \A op, i : (Yes(op, i)' <=> Yes(op, i)) /\ (No(op, i)' <=> No(op, i))
  BY <1>1, <1>7 DEF Yes, No
<1>10. replies' \subseteq ReplySet
  BY <1>1, <1>6 DEF Types
<1>11. /\ (\A op, i : Serving(op, i) => op = "attach") /\ (\A op, i : Serving(op, i)' => op = "none")
       /\ ~Opening' /\ busy' \in BusySet
  BY <1>1 DEF Serving, Opening, None, BusySet
<1>12. \A i \in x.pending : sent[i].state \in Accepted /\ sent[i].run # 0
  <2>1. \A i \in Queued : sent[i].state \in Accepted /\ sent[i].run # 0
    BY DEF Queued, Ids, SentWaits, Accepted, Known, SentKnown
  <2>2. x.pending \subseteq Queued
    BY DEF x
  <2>3. QED
    BY <2>1, <2>2
<1>13. QED
  BY <1>2, <1>5, <1>8, <1>9, <1>10, <1>11, <1>12

\* The session is described to the client while a run executes.
LEMMA SnapshotText ==
  ASSUME TextInv, Snapshot, srv.mode # "idle"
  PROVE  TextInv'
<1>1. /\ Opening /\ tui.at # "open" /\ ~Opening' /\ busy' \in BusySet
      /\ (\A op, i : Serving(op, i) => op = "attach") /\ (\A op, i : Serving(op, i)' => op = "none")
      /\ replies' \subseteq ReplySet /\ Snapshots' # {}
      /\ (\A x, y \in Snapshots' : x = y)
      /\ (\A x \in Snapshots' : ~x.cancelling /\ x.pending \subseteq Ids /\ x.run <= srv.run)
      /\ (\A x \in Snapshots' : \A id \in x.pending : sent[id].state \in Accepted /\ sent[id].run # 0)
      /\ \A op, i : (Yes(op, i)' <=> Yes(op, i)) /\ (No(op, i)' <=> No(op, i))
  BY Parts, SnapshotFacts
<1>2. tui' = tui /\ Opens' = Opens /\ Faileds' = Faileds /\ Submitted' = Submitted
  BY SameClient DEF Snapshot
<1>3. wire' = wire /\ Wire' = Wire
  <2>1. wire' = wire \o <<>> /\ wire \in Seq(NoteSet)
    BY Parts DEF Snapshot, Told, Types
  <2>2. QED
    BY <2>1, ConcatEmptySeq, SameWire
<1>4. calls' = calls /\ \A op, i : Asked(op, i)' <=> Asked(op, i)
  BY SameCalls DEF Snapshot
<1>5. sent' = sent /\ Ids' = Ids /\ (\A i : Text(i)' = Text(i)) /\ (\A m : RunOf(m)' = RunOf(m))
  BY SameSent DEF Snapshot, MessagesKept
<1>6. srv' = srv
  BY DEF Snapshot
<1>7. typed' = typed /\ gaveUp' = gaveUp
  BY DEF Snapshot
<1>8. Types'
  BY Parts, <1>1, <1>2, <1>3, <1>4, <1>5, <1>6, <1>7 DEF Types
<1>9. SentKnown'
  BY Parts, <1>5, <1>6, <1>7 DEF SentKnown
<1>10. ClientKnown'
  BY Parts, <1>1, <1>2, <1>5, <1>6, <1>7 DEF ClientKnown
<1>11. CallsKnown'
  BY Parts, <1>1, <1>4, <1>5, <1>6, <1>7 DEF CallsKnown
<1>12. RepliesKnown'
  BY Parts, <1>1, <1>5, <1>6, <1>7 DEF RepliesKnown
<1>13. WireKnown'
  BY Parts, <1>1, <1>3, <1>5, <1>6, <1>7 DEF WireKnown, RunOf, MessageTypes
<1>14. SentWaits'
  BY Parts, <1>1, <1>4, <1>5, <1>6, <1>7 DEF SentWaits, Accepted
<1>15. ToldIsTrue'
  BY Parts, <1>1, <1>3, <1>5, <1>6, <1>7 DEF ToldIsTrue, Accepted
<1>16. AnsweredTruly'
  BY Parts, <1>1, <1>5, <1>6, <1>7 DEF AnsweredTruly, Accepted
<1>17. AnsweredInTime'
  BY Parts, <1>1, <1>5, <1>6, <1>7 DEF AnsweredInTime
<1>18. InRunOrder'
  BY Parts, <1>3, <1>5 DEF InRunOrder, Before, Wire
<1>19. NotAhead'
  BY Parts, <1>1, <1>2, <1>3, <1>5, <1>6, <1>7 DEF NotAhead
<1>20. OpensQuietly'
  BY Parts, <1>1, <1>2, <1>3, <1>4, <1>6, <1>7 DEF OpensQuietly
<1>21. AtItsRun'
  BY Parts, <1>1, <1>2, <1>3, <1>5, <1>6, <1>7 DEF AtItsRun, Ours, Passed, InRun
<1>22. Answerable'
  BY Parts, <1>1, <1>2, <1>4, <1>5, <1>6, <1>7 DEF Answerable, Accepted
<1>23. Untold'
  BY Parts, <1>1, <1>2, <1>3, <1>4, <1>5, <1>6, <1>7 DEF Untold
<1>24. Pending'
  BY Parts, <1>1, <1>2, <1>5, <1>6, <1>7 DEF Pending, Accepted, RepliesKnown
<1>25. OneLive' /\ NotInDraft'
  <2>1. \A i \in Ids : Live(i)' => Live(i)
    BY Parts, <1>1, <1>2, <1>3, <1>5, <1>6, <1>7 DEF Live, MayReturn, Removal
  <2>2. QED
    BY Parts, <1>1, <1>2, <1>5, <1>6, <1>7, <2>1, LiveShrinks DEF Types
<1>26. Somewhere'
  <2>1. \A i \in Ids : Carries(i) => Carries(i)'
    BY Parts, <1>1, <1>2, <1>3, <1>5, <1>6, <1>7 DEF Carries, Removal
  <2>2. QED
    BY Parts, <1>1, <1>2, <1>5, <1>6, <1>7, <2>1, CarriesGrows
<1>27. QED
  BY <1>8, <1>9, <1>10, <1>11, <1>12, <1>13, <1>14, <1>15, <1>16, <1>17, <1>18, <1>19, <1>20, <1>21, <1>22, <1>23, <1>24, <1>25, <1>26 DEF TextInv, Known

\* The session is described to the client when none does.
LEMMA SnapshotIdle ==
  ASSUME TextInv, Snapshot, srv.mode = "idle"
  PROVE  TextInv'
<1> PICK r : r = 0
  OBVIOUS
<1>1. /\ Opening /\ tui.at # "open" /\ ~Opening' /\ busy' \in BusySet
      /\ (\A op, i : Serving(op, i) => op = "attach") /\ (\A op, i : Serving(op, i)' => op = "none")
      /\ replies' \subseteq ReplySet /\ Snapshots' # {}
      /\ (\A x, y \in Snapshots' : x = y)
      /\ (\A x \in Snapshots' : ~x.cancelling /\ x.pending \subseteq Ids /\ x.run <= srv.run)
      /\ (\A x \in Snapshots' : \A id \in x.pending : sent[id].state \in Accepted /\ sent[id].run # 0)
      /\ \A op, i : (Yes(op, i)' <=> Yes(op, i)) /\ (No(op, i)' <=> No(op, i))
  BY Parts, SnapshotFacts
<1>2. srv' = srv
  BY DEF Snapshot
<1>3. /\ wire' \in Seq(NoteSet) /\ Note("idle", r) \in NoteSet /\ Wire' = Wire \cup {Note("idle", r)}
      /\ Note("idle", r).type = "idle" /\ Note("idle", r).of = r /\ RunOf(Note("idle", r)) = r /\ RunOf(Note("idle", r))' = r
      /\ (\A u, m : Note(u, m) = Note("idle", r) <=> u = "idle" /\ m = r) /\ wire' = wire \o <<Note("idle", r)>>
  <2>1. wire' = wire \o <<Note("idle", r)>> /\ r \in Nat
    BY Parts, InRanges DEF Snapshot, Told
  <2>2. "idle" \in RunTypes
    BY DEF RunTypes
  <2>3. Types
    BY Parts
  <2>4. QED
    BY <2>1, <2>2, <2>3, RunNote
<1>4. tui' = tui /\ Opens' = Opens /\ Faileds' = Faileds /\ Submitted' = Submitted
  BY SameClient DEF Snapshot
<1>5. calls' = calls /\ \A op, i : Asked(op, i)' <=> Asked(op, i)
  BY SameCalls DEF Snapshot
<1>6. sent' = sent /\ Ids' = Ids /\ (\A i : Text(i)' = Text(i)) /\ (\A m : RunOf(m)' = RunOf(m))
  BY SameSent DEF Snapshot, MessagesKept
<1>7. typed' = typed /\ gaveUp' = gaveUp
  BY DEF Snapshot
<1>8. Types'
  BY Parts, <1>1, <1>2, <1>3, <1>4, <1>5, <1>6, <1>7 DEF Types
<1>9. SentKnown'
  BY Parts, InRanges, <1>2, <1>6, <1>7 DEF SentKnown
<1>10. ClientKnown'
  BY Parts, <1>1, InRanges, <1>2, <1>4, <1>6, <1>7 DEF ClientKnown
<1>11. CallsKnown'
  BY Parts, <1>1, <1>2, <1>5, <1>6, <1>7 DEF CallsKnown
<1>12. RepliesKnown'
  BY Parts, <1>1, InRanges, <1>2, <1>6, <1>7 DEF RepliesKnown
<1>13. WireKnown'
  BY Parts, <1>1, InRanges, <1>2, <1>3, <1>6, <1>7 DEF WireKnown, RunOf, MessageTypes
<1>14. SentWaits'
  BY Parts, <1>1, InRanges, <1>2, <1>5, <1>6, <1>7 DEF SentWaits, Accepted
<1>15. ToldIsTrue'
  BY Parts, <1>1, InRanges, <1>2, <1>3, <1>6, <1>7 DEF ToldIsTrue, Accepted
<1>16. AnsweredTruly'
  BY Parts, <1>1, <1>2, <1>6, <1>7 DEF AnsweredTruly, Accepted
<1>17. AnsweredInTime'
  BY Parts, <1>1, InRanges, <1>2, <1>6, <1>7 DEF AnsweredInTime
<1>18. InRunOrder'
  <2>1. /\ srv'.run \in Nat /\ srv.run <= srv'.run /\ Note("idle", r).type = "idle"
        /\ Note("idle", r).type \in InRun => ~srv.told \/ srv.run < srv'.run
    BY Parts, InRanges, <1>3, <1>6, <1>2 DEF InRun
  <2>2. QED
    BY Parts, InRanges, <1>3, <1>6, <1>2, <2>1, OneToldInOrder
<1>19. NotAhead'
  BY Parts, <1>1, InRanges, <1>2, <1>3, <1>4, <1>6, <1>7 DEF NotAhead
<1>20. OpensQuietly'
  BY Parts, <1>1, <1>2, <1>3, <1>4, <1>5, <1>7 DEF OpensQuietly
<1>21. AtItsRun'
  BY Parts, <1>1, InRanges, <1>2, <1>3, <1>4, <1>6, <1>7 DEF AtItsRun, Ours, Passed, InRun
<1>22. Answerable'
  BY Parts, <1>1, <1>2, <1>4, <1>5, <1>6, <1>7 DEF Answerable, Accepted
<1>23. Untold'
  BY Parts, <1>1, <1>2, <1>3, <1>4, <1>5, <1>6, <1>7 DEF Untold
<1>24. Pending'
  BY Parts, <1>1, <1>2, <1>4, <1>6, <1>7 DEF Pending, Accepted, RepliesKnown
<1>25. OneLive' /\ NotInDraft'
  <2>1. \A i \in Ids : Live(i)' => Live(i)
    BY Parts, <1>1, InRanges, <1>2, <1>3, <1>4, <1>6, <1>7 DEF Live, MayReturn, Removal
  <2>2. QED
    BY Parts, <1>1, <1>2, <1>4, <1>6, <1>7, <2>1, LiveShrinks DEF Types
<1>26. Somewhere'
  <2>1. \A i \in Ids : Carries(i) => Carries(i)'
    BY Parts, <1>1, <1>2, <1>3, <1>4, <1>6, <1>7 DEF Carries, Removal
  <2>2. QED
    BY Parts, <1>1, <1>2, <1>4, <1>6, <1>7, <2>1, CarriesGrows
<1>27. QED
  BY <1>8, <1>9, <1>10, <1>11, <1>12, <1>13, <1>14, <1>15, <1>16, <1>17, <1>18, <1>19, <1>20, <1>21, <1>22, <1>23, <1>24, <1>25, <1>26 DEF TextInv, Known

-----------------------------------------------------------------------------
(* What becomes of the queue.                                              *)

\* What the run tells when it takes or rejects what is queued, and what else it tells then.
LEMMA QueueTold ==
  ASSUME Types, Known, SentWaits, InRunOrder, NotAhead, MessagesKept, srv'.run = srv.run, ~srv.told,
         srv.mode # "idle", NEW type \in {"applied", "rejected"}, NEW notes \in Seq(NoteSet), NEW more,
         \A n \in more : n.type \in {"running", "end", "compactError"} /\ n.of = srv.run,
         wire' = wire \o notes,
         ToSet(notes) = {Note(type, id) : id \in Queued} \cup more,
         \A i, j \in DOMAIN notes : i < j /\ notes[i].type = "end" => notes[j].type \notin InRun
  PROVE  /\ wire' \in Seq(NoteSet) /\ Wire \subseteq Wire' /\ InRunOrder'
         /\ \A id \in Queued : Note(type, id) \in Wire'
         /\ \A n \in Wire' \ Wire : /\ n.type \in {type, "running", "end", "compactError"}
                                    /\ RunOf(n)' = srv.run /\ (n.type # type => n \in more)
                                    /\ n.type \in MessageTypes => n.of \in Queued
         /\ \A u \in MessageTypes : \A id : Note(u, id) \in Wire' => Note(u, id) \in Wire \/ (u = type /\ id \in Queued)
<1>1. /\ wire' \in Seq(NoteSet)
      /\ Wire' = Wire \cup ({Note(type, id) : id \in Queued} \cup more)
  BY ToldFacts
<1>2. Queued \subseteq Ids /\ (\A id \in Queued : sent[id].run = srv.run) /\ srv.run \in Nat
  BY DEF Queued, Ids, SentWaits, Types, SessionSet
<1>3. \A id \in Queued : RunOf(Note(type, id))' = srv.run
  <2>1. TAKE id \in Queued
  <2>2. Note(type, id).type \in MessageTypes /\ Note(type, id).of = id
    BY NoteFacts DEF MessageTypes
  <2>3. sent'[id].run = srv.run
    BY <1>2 DEF MessagesKept
  <2>4. QED
    BY <2>2, <2>3 DEF RunOf
<1>4. \A n \in more : RunOf(n)' = srv.run /\ n.type \notin MessageTypes
  BY DEF RunOf, MessageTypes
<1>5. ASSUME NEW n \in Wire', n \notin Wire
      PROVE  /\ n.type \in {type, "running", "end", "compactError"}
             /\ RunOf(n)' = srv.run /\ (n.type # type => n \in more)
             /\ n.type \in MessageTypes => n.of \in Queued
  <2>1. CASE n \in more
    BY <1>4, <2>1
  <2>2. CASE n \in {Note(type, id) : id \in Queued}
    <3>1. PICK id \in Queued : n = Note(type, id)
      BY <2>2
    <3>2. n.type = type /\ n.of = id
      BY <3>1, NoteFacts
    <3>3. RunOf(n)' = srv.run
      BY <1>3, <3>1
    <3>4. QED
      BY <3>2, <3>3
  <2>3. QED
    BY <1>1, <1>5, <2>1, <2>2
<1>6. ASSUME NEW u \in MessageTypes, NEW id, Note(u, id) \in Wire', Note(u, id) \notin Wire
      PROVE  u = type /\ id \in Queued
  <2>1. Note(u, id).type = u /\ Note(u, id).of = id
    BY NoteFacts
  <2>2. Note(u, id) \notin more
    BY <1>4, <2>1
  <2>3. QED
    BY <1>1, <1>6, <2>1, <2>2, NoteFacts
<1>7. ASSUME NEW i \in DOMAIN notes PROVE RunOf(notes[i])' = srv.run
  <2>1. notes[i] \in {Note(type, id) : id \in Queued} \cup more
    BY DEF ToSet
  <2>2. CASE notes[i] \in more
    BY <1>4, <2>2
  <2>3. CASE notes[i] \in {Note(type, id) : id \in Queued}
    BY <1>3, <2>3
  <2>4. QED
    BY <2>1, <2>2, <2>3
<1>8. InRunOrder'
  BY <1>2, <1>7, ToldInOrder, SMTT(30) DEF MessagesKept
<1>9. QED
  BY <1>1, <1>5, <1>6, <1>8

\* The run takes what is queued, and says that it goes on unless it is cancelled.
LEMMA TakeTold ==
  ASSUME Types, NEW ids \in InOrder, srv.run \in Nat
  PROVE  LET more == IF srv.cancelling THEN <<>> ELSE <<Note("running", srv.run)>>
             notes == Became("applied", ids) \o more
             set == IF srv.cancelling THEN {} ELSE {Note("running", srv.run)}
         IN /\ notes \in Seq(NoteSet)
            /\ ToSet(notes) = {Note("applied", id) : id \in Queued} \cup set
            /\ \A i \in DOMAIN notes : notes[i].type # "end"
<1> DEFINE more == IF srv.cancelling THEN <<>> ELSE <<Note("running", srv.run)>>
           applied == Became("applied", ids)
           notes == applied \o more
           set == IF srv.cancelling THEN {} ELSE {Note("running", srv.run)}
<1>1. /\ applied \in Seq(NoteSet)
      /\ ToSet(applied) = {Note("applied", id) : id \in Queued}
  BY BecameFacts DEF MessageTypes
<1>2. more \in Seq(NoteSet) /\ ToSet(more) = set
  <2>1. Note("running", srv.run) \in NoteSet
    BY NoteFacts DEF RunTypes
  <2>2. CASE srv.cancelling
    <3>1. more = <<>> /\ set = {} /\ DOMAIN <<>> = {}
      BY <2>2
    <3>2. QED
      BY <3>1 DEF ToSet
  <2>3. CASE ~srv.cancelling
    <3>1. more = <<Note("running", srv.run)>> /\ set = {Note("running", srv.run)}
      BY <2>3
    <3>2. DOMAIN more = {1} /\ more[1] = Note("running", srv.run)
      BY <3>1
    <3>3. more \in Seq(NoteSet)
      BY <2>1, <3>1
    <3> HIDE DEF more, set
    <3>4. ToSet(more) = {Note("running", srv.run)}
      BY <3>2 DEF ToSet
    <3>5. QED
      BY <3>1, <3>3, <3>4
  <2>4. QED
    BY <2>2, <2>3
<1>3. \A n \in {Note("applied", id) : id \in Queued} \cup set : n.type # "end"
  BY NoteFacts
<1> HIDE DEF more, set, applied
<1>4. /\ notes \in Seq(NoteSet)
      /\ ToSet(notes) = ToSet(applied) \cup ToSet(more)
  <2>1. applied \in Seq(NoteSet) /\ more \in Seq(NoteSet)
    BY <1>1, <1>2
  <2>2. QED
    BY <2>1, ElementsOfBoth
<1> HIDE DEF notes
<1>5. \A i \in DOMAIN notes : notes[i].type # "end"
  BY <1>1, <1>2, <1>3, <1>4 DEF ToSet
<1>6. QED
  BY <1>1, <1>2, <1>4, <1>5 DEF notes, more, set, applied

\* It fails: what is queued is rejected, then comes the end, or the error before.
LEMMA FailTold ==
  ASSUME Types, NEW ids \in InOrder, NEW compact \in BOOLEAN, srv.run \in Nat
  PROVE  LET end == IF compact THEN Note("compactError", srv.run) ELSE Note("end", srv.run)
             rejected == Reverse(Became("rejected", ids))
             notes == IF compact THEN <<end>> \o rejected ELSE Append(rejected, end)
         IN /\ notes \in Seq(NoteSet)
            /\ ToSet(notes) = {Note("rejected", id) : id \in Queued} \cup {end}
            /\ \A i, j \in DOMAIN notes : i < j => notes[i].type # "end"
<1> DEFINE end == IF compact THEN Note("compactError", srv.run) ELSE Note("end", srv.run)
           rejected == Reverse(Became("rejected", ids))
           notes == IF compact THEN <<end>> \o rejected ELSE Append(rejected, end)
<1>1. /\ rejected \in Seq(NoteSet)
      /\ ToSet(rejected) = {Note("rejected", id) : id \in Queued}
  BY BecameFacts DEF MessageTypes
<1>2. end \in NoteSet /\ end.type = (IF compact THEN "compactError" ELSE "end")
  BY NoteFacts DEF RunTypes
<1>3. <<end>> \in Seq(NoteSet) /\ DOMAIN <<end>> = {1} /\ <<end>>[1] = end /\ Len(<<end>>) = 1
  BY <1>2
<1>4. ToSet(<<end>>) = {end}
  BY <1>3 DEF ToSet
<1>5. \A i \in DOMAIN rejected : rejected[i].type = "rejected"
  <2> HIDE DEF rejected
  <2>1. TAKE i \in DOMAIN rejected
  <2>2. PICK id \in Queued : rejected[i] = Note("rejected", id)
    BY <1>1 DEF ToSet
  <2>3. QED
    BY <2>2, NoteFacts
<1> HIDE DEF rejected, end
<1>6. CASE compact
  <2>1. notes = <<end>> \o rejected
    BY <1>6
  <2>2. /\ notes \in Seq(NoteSet)
        /\ ToSet(notes) = {end} \cup ToSet(rejected)
    <3> DEFINE first == <<end>>
    <3>1. first \in Seq(NoteSet) /\ ToSet(first) = {end} /\ notes = first \o rejected
      BY <1>3, <1>4, <2>1
    <3> HIDE DEF first, notes
    <3>2. /\ first \o rejected \in Seq(NoteSet)
          /\ ToSet(first \o rejected)
               = ToSet(first) \cup ToSet(rejected)
      <4>1. first \in Seq(NoteSet) /\ rejected \in Seq(NoteSet)
        BY <1>1, <3>1
      <4>2. QED
        BY <4>1, ElementsOfBoth
    <3>3. QED
      BY <3>1, <3>2
  <2>3. \A n \in {end} \cup ToSet(rejected) : n.type # "end"
    BY <1>2, <1>5, <1>6 DEF ToSet
  <2> HIDE DEF notes
  <2>4. \A i \in DOMAIN notes : notes[i].type # "end"
    BY <2>2, <2>3 DEF ToSet
  <2>5. QED
    BY <1>1, <2>2, <2>4 DEF notes, end, rejected
<1>7. CASE ~compact
  <2>1. notes = rejected \o <<end>>
    <3>1. notes = Append(rejected, end)
      BY <1>7
    <3> HIDE DEF notes
    <3>2. QED
      BY <1>1, <1>2, <3>1
  <2>2. /\ notes \in Seq(NoteSet) /\ DOMAIN notes = 1 .. Len(rejected) + 1
        /\ ToSet(notes) = ToSet(rejected) \cup {end}
        /\ \A i \in 1 .. Len(rejected) + 1 : i <= Len(rejected) => notes[i] = rejected[i]
    <3> DEFINE last == <<end>>
    <3>1. /\ last \in Seq(NoteSet) /\ ToSet(last) = {end} /\ notes = rejected \o last
          /\ Len(last) = 1
      BY <1>3, <1>4, <2>1
    <3> HIDE DEF last, notes
    <3>2. /\ rejected \o last \in Seq(NoteSet) /\ DOMAIN (rejected \o last) = 1 .. Len(rejected) + Len(last)
          /\ ToSet(rejected \o last)
               = ToSet(rejected) \cup ToSet(last)
          /\ \A i \in 1 .. Len(rejected) + Len(last) :
               (rejected \o last)[i] = IF i <= Len(rejected) THEN rejected[i] ELSE last[i - Len(rejected)]
      <4>1. rejected \in Seq(NoteSet) /\ last \in Seq(NoteSet)
        BY <1>1, <3>1
      <4>2. QED
        BY <4>1, ElementsOfBoth
    <3>3. QED
      BY <3>1, <3>2
  <2> HIDE DEF notes
  <2>3. Len(rejected) \in Nat /\ DOMAIN rejected = 1 .. Len(rejected)
    BY <1>1
  <2>4. \A i, j \in DOMAIN notes : i < j => notes[i].type # "end"
    BY <1>5, <2>2, <2>3
  <2>5. QED
    BY <1>1, <2>2, <2>4 DEF notes, end, rejected
<1>8. QED
  BY <1>6, <1>7

\* The run takes what is queued.
LEMMA TakeText ==
  ASSUME TextInv, Take
  PROVE  TextInv'
<1>1. srv.mode = "running" /\ ~srv.told
  BY Parts DEF Take, NotAhead
<1>2. srv' = srv
  BY DEF Take
<1>3. /\ sent' \in Seq(MessageSet) /\ MessagesKept
      /\ Ids' = Ids /\ (\A i \in Ids : Text(i)' = Text(i)) /\ (\A i \in Ids : sent'[i].run = sent[i].run)
      /\ \A i \in Ids : sent'[i].state = IF sent[i].state = "queued" THEN "applied" ELSE sent[i].state
      /\ \A n \in Wire : n.type # "idle" => RunOf(n)' = RunOf(n)
  <2>1. /\ sent' \in Seq(MessageSet) /\ MessagesKept
        /\ \A i \in Ids : sent'[i].state = IF sent[i].state = "queued" THEN "applied" ELSE sent[i].state
    BY Parts, DecidedFacts DEF Take, Fates, Accepted
  <2>2. \A i \in Ids : Text(i)' = Text(i)
    BY Parts, DecidedText DEF Take, Fates, Accepted
  <2>3. \A n \in Wire : n.type # "idle" => RunOf(n)' = RunOf(n)
    BY Parts, <2>1 DEF WireKnown, RunOf, MessagesKept
  <2>4. QED
    BY <2>1, <2>2, <2>3 DEF MessagesKept
<1>4. /\ wire' \in Seq(NoteSet) /\ Wire \subseteq Wire' /\ InRunOrder'
      /\ (\A id \in Ids : sent[id].state = "queued" => Note("applied", id) \in Wire')
      /\ (\A n \in Wire' \ Wire : /\ n.type \in {"applied", "running"} /\ RunOf(n)' = srv.run
                                  /\ n.type \in MessageTypes => n.of \in Ids)
      /\ (\A id \in Ids : /\ Note("queued", id) \in Wire' => Note("queued", id) \in Wire
                          /\ Note("removed", id) \in Wire' => Note("removed", id) \in Wire
                          /\ Note("applied", id) \in Wire' => Note("applied", id) \in Wire \/ sent[id].state = "queued"
                          /\ Note("rejected", id) \in Wire' => Note("rejected", id) \in Wire)
  <2>1. PICK ids \in InOrder : Told(Became("applied", ids) \o (IF srv.cancelling THEN <<>> ELSE <<Note("running", srv.run)>>))
    BY DEF Take
  <2> DEFINE notes == Became("applied", ids) \o (IF srv.cancelling THEN <<>> ELSE <<Note("running", srv.run)>>)
             more == IF srv.cancelling THEN {} ELSE {Note("running", srv.run)}
  <2>2. wire' = wire \o notes
    BY <2>1 DEF Told
  <2>3. /\ notes \in Seq(NoteSet)
        /\ ToSet(notes) = {Note("applied", id) : id \in Queued} \cup more
        /\ \A i \in DOMAIN notes : notes[i].type # "end"
    BY Parts, InRanges, TakeTold
  <2>4. \A n \in more : n.type = "running" /\ n.of = srv.run
    BY NoteFacts
  <2> HIDE DEF notes, more
  <2>5. /\ wire' \in Seq(NoteSet) /\ Wire \subseteq Wire' /\ InRunOrder'
        /\ \A id \in Queued : Note("applied", id) \in Wire'
        /\ \A n \in Wire' \ Wire : /\ n.type \in {"applied", "running", "end", "compactError"}
                                   /\ RunOf(n)' = srv.run /\ (n.type # "applied" => n \in more)
                                   /\ n.type \in MessageTypes => n.of \in Queued
        /\ \A u \in MessageTypes : \A id : Note(u, id) \in Wire' => Note(u, id) \in Wire \/ (u = "applied" /\ id \in Queued)
    <3>1. \A n \in more : n.type \in {"running", "end", "compactError"} /\ n.of = srv.run
      BY <2>4
    <3>2. \A i, j \in DOMAIN notes : i < j /\ notes[i].type = "end" => notes[j].type \notin InRun
      BY <2>3
    <3>3. srv.mode # "idle" /\ ~srv.told /\ srv'.run = srv.run
      BY <1>1, <1>2
    <3>4. "applied" \in {"applied", "rejected"}
      OBVIOUS
    <3>5. QED
      BY Parts, <1>3, <2>2, <2>3, <3>1, <3>2, <3>3, <3>4, QueueTold
  <2>6. \A id : id \in Queued <=> id \in Ids /\ sent[id].state = "queued"
    BY DEF Queued, Ids
  <2>7. QED
    BY <2>4, <2>5, <2>6 DEF MessageTypes
<1>5. tui' = tui /\ Opens' = Opens /\ Faileds' = Faileds /\ Submitted' = Submitted
  BY SameClient DEF Take
<1>6. /\ replies' = replies /\ Snapshots' = Snapshots
      /\ \A op, i : (Yes(op, i)' <=> Yes(op, i)) /\ (No(op, i)' <=> No(op, i))
  BY SameReplies DEF Take
<1>7. calls' = calls /\ \A op, i : Asked(op, i)' <=> Asked(op, i)
  BY SameCalls DEF Take
<1>8. busy' = busy /\ (Opening' <=> Opening) /\ \A op, i : Serving(op, i)' <=> Serving(op, i)
  BY SameBusy DEF Take
<1>9. typed' = typed /\ gaveUp' = gaveUp
  BY DEF Take
<1>10. Types'
  BY Parts, <1>1, <1>2, <1>3, <1>4, <1>5, <1>6, <1>7, <1>8, <1>9 DEF Types
<1>11. SentKnown'
  BY Parts, <1>1, InRanges, <1>2, <1>3, <1>9 DEF SentKnown
<1>12. ClientKnown'
  BY Parts, <1>1, InRanges, <1>2, <1>3, <1>5, <1>9 DEF ClientKnown
<1>13. CallsKnown'
  BY Parts, <1>1, <1>2, <1>3, <1>7, <1>8, <1>9 DEF CallsKnown
<1>14. RepliesKnown'
  BY Parts, <1>1, InRanges, <1>2, <1>3, <1>6, <1>9 DEF RepliesKnown
<1>15. WireKnown'
  BY Parts, <1>1, InRanges, <1>2, <1>3, <1>4, <1>9 DEF WireKnown, RunOf, MessageTypes
<1>16. SentWaits'
  BY Parts, <1>1, InRanges, <1>2, <1>3, <1>7, <1>9 DEF SentWaits, Accepted
<1>17. ToldIsTrue'
  <2>1. \A i \in Ids : sent'[i].state # sent[i].state => sent[i].state = "queued" /\ sent'[i].state = "applied"
    BY <1>3
  <2>2. \A i \in Ids : sent'[i].state \in {"queued", "applied", "rejected"} <=> sent[i].state \in {"queued", "applied", "rejected"}
    BY <1>3
  <2>3. \A i \in Ids : sent[i].state \in {"removed", "applied", "rejected"} => sent'[i].state = sent[i].state
    BY <1>3
  <2>4. \A i \in Ids : sent[i].state \in Accepted <=> sent'[i].state \in Accepted
    BY <1>3 DEF Accepted
  <2>5. \A i \in Ids : sent[i].state = "queued" => sent'[i].state = "applied"
    BY <1>3
  <2>6. /\ \A id \in Ids : Serving("steer", id)' =>
             /\ sent'[id].state \in {"queued", "applied", "rejected"} /\ Text(id)' # {}
             /\ sent'[id].run = srv'.run /\ srv'.run # 0
        /\ \A id \in Ids : Serving("remove", id)' => sent'[id].state = "removed" /\ sent'[id].run = srv'.run
    BY Parts, <1>2, <1>3, <1>8, <2>2, <2>3 DEF ToldIsTrue
  <2>7. /\ \A id \in Ids : Note("queued", id) \in Wire' => sent'[id].state \in Accepted /\ Text(id)' # {}
        /\ \A id \in Ids : Note("removed", id) \in Wire' => sent'[id].state = "removed"
    BY Parts, <1>3, <1>4, <2>3, <2>4 DEF ToldIsTrue
  <2>8. /\ \A id \in Ids : Note("applied", id) \in Wire' => sent'[id].state = "applied"
        /\ \A id \in Ids : Note("rejected", id) \in Wire' => sent'[id].state = "rejected"
    BY Parts, <1>4, <2>3, <2>5 DEF ToldIsTrue
  <2>9. QED
    BY <1>3, <2>6, <2>7, <2>8 DEF ToldIsTrue
<1>18. AnsweredTruly'
  BY Parts, <1>1, <1>2, <1>3, <1>6, <1>9 DEF AnsweredTruly, Accepted
<1>19. AnsweredInTime'
  BY Parts, <1>1, InRanges, <1>2, <1>3, <1>6, <1>9 DEF AnsweredInTime
<1>20. InRunOrder'
  BY <1>4
<1>21. NotAhead'
  BY Parts, <1>1, InRanges, <1>2, <1>3, <1>4, <1>5, <1>9 DEF NotAhead
<1>22. OpensQuietly'
  BY Parts, <1>1, <1>2, <1>4, <1>5, <1>6, <1>7, <1>8, <1>9 DEF OpensQuietly
<1>23. AtItsRun'
  BY Parts, <1>1, InRanges, <1>2, <1>3, <1>4, <1>5, <1>9 DEF AtItsRun, Ours, Passed, InRun
<1>24. Answerable'
  BY Parts, <1>1, <1>2, <1>3, <1>5, <1>6, <1>7, <1>8, <1>9 DEF Answerable, Accepted
<1>25. Untold'
  BY Parts, <1>1, <1>2, <1>3, <1>4, <1>5, <1>7, <1>9 DEF Untold
<1>26. Pending'
  BY Parts, <1>1, <1>2, <1>3, <1>5, <1>6, <1>9 DEF Pending, Accepted, RepliesKnown
<1>27. OneLive' /\ NotInDraft'
  <2>1. \A i \in Ids : MayReturn(i)' => MayReturn(i) \/ sent[i].state = "queued"
    BY <1>3, <1>4, <1>5, <1>6, <1>8 DEF MayReturn, Removal
  <2>2. \A i \in Ids : Live(i)' => Live(i)
    <3>1. \A i \in Ids : sent'[i].state \in {"queued", "applied"} => sent[i].state \in {"queued", "applied"}
      BY <1>3
    <3>2. \A i \in Ids : sent'[i].state = "sent" => sent[i].state = "sent"
      BY <1>3
    <3>3. QED
      BY <1>1, <1>2, <1>3, <1>5, <2>1, <3>1, <3>2 DEF Live
  <2>3. QED
    BY Parts, <1>3, <1>5, <1>9, <2>2, LiveShrinks DEF Types
<1>28. Somewhere'
  <2>1. \A i \in Ids : Carries(i) => Carries(i)'
    BY Parts, <1>1, <1>2, <1>3, <1>4, <1>5, <1>6, <1>8, <1>9 DEF Carries, Removal
  <2>2. QED
    BY Parts, <1>1, <1>2, <1>3, <1>5, <1>9, <2>1, CarriesGrows
<1>29. QED
  BY <1>10, <1>11, <1>12, <1>13, <1>14, <1>15, <1>16, <1>17, <1>18, <1>19, <1>20, <1>21, <1>22, <1>23, <1>24, <1>25, <1>26, <1>27, <1>28 DEF TextInv, Known

\* The run fails, and what is queued is rejected.
LEMMA FailText ==
  ASSUME TextInv, NEW compact \in BOOLEAN, NEW ids \in InOrder, Decided("rejected"), Fail,
         Told(IF compact
              THEN <<IF compact THEN Note("compactError", srv.run) ELSE Note("end", srv.run)>> \o Reverse(Became("rejected", ids))
              ELSE Append(Reverse(Became("rejected", ids)), IF compact THEN Note("compactError", srv.run) ELSE Note("end", srv.run))),
         srv' = [srv EXCEPT !.mode = "over", !.told = ~compact]
  PROVE  TextInv'
<1>1. srv.mode = "running" /\ ~srv.told
  BY Parts DEF Fail, NotAhead
<1>2. /\ srv' \in SessionSet /\ srv'.run = srv.run /\ srv'.mode = "over" /\ srv'.told = ~compact /\ srv'.cancelling = srv.cancelling /\ srv'.mine = srv.mine /\ srv'.late = srv.late
  BY Parts, InRanges DEF Fail, Types, SessionSet
<1>3. /\ sent' \in Seq(MessageSet) /\ MessagesKept
      /\ Ids' = Ids /\ (\A i \in Ids : Text(i)' = Text(i)) /\ (\A i \in Ids : sent'[i].run = sent[i].run)
      /\ \A i \in Ids : sent'[i].state = IF sent[i].state = "queued" THEN "rejected" ELSE sent[i].state
      /\ \A n \in Wire : n.type # "idle" => RunOf(n)' = RunOf(n)
  <2>1. /\ sent' \in Seq(MessageSet) /\ MessagesKept
        /\ \A i \in Ids : sent'[i].state = IF sent[i].state = "queued" THEN "rejected" ELSE sent[i].state
    BY Parts, DecidedFacts DEF Fail, Fates, Accepted
  <2>2. \A i \in Ids : Text(i)' = Text(i)
    BY Parts, DecidedText DEF Fail, Fates, Accepted
  <2>3. \A n \in Wire : n.type # "idle" => RunOf(n)' = RunOf(n)
    BY Parts, <2>1 DEF WireKnown, RunOf, MessagesKept
  <2>4. QED
    BY <2>1, <2>2, <2>3 DEF MessagesKept
<1>4. /\ wire' \in Seq(NoteSet) /\ Wire \subseteq Wire' /\ InRunOrder'
      /\ (\A id \in Ids : sent[id].state = "queued" => Note("rejected", id) \in Wire')
      /\ (\A n \in Wire' \ Wire : /\ n.type \in {"rejected", "end", "compactError"} /\ RunOf(n)' = srv.run
                                  /\ n.type \in MessageTypes => n.of \in Ids
                                  /\ n.type = "end" => ~compact /\ n.of = srv.run)
      /\ (\A id \in Ids : /\ Note("queued", id) \in Wire' => Note("queued", id) \in Wire
                          /\ Note("removed", id) \in Wire' => Note("removed", id) \in Wire
                          /\ Note("applied", id) \in Wire' => Note("applied", id) \in Wire
                          /\ Note("rejected", id) \in Wire' => Note("rejected", id) \in Wire \/ sent[id].state = "queued")
  <2> DEFINE end == IF compact THEN Note("compactError", srv.run) ELSE Note("end", srv.run)
             rejected == Reverse(Became("rejected", ids))
             notes == IF compact THEN <<end>> \o rejected ELSE Append(rejected, end)
             more == {end}
  <2>1. wire' = wire \o notes
    BY DEF Told
  <2>2. /\ notes \in Seq(NoteSet)
        /\ ToSet(notes) = {Note("rejected", id) : id \in Queued} \cup more
        /\ \A i, j \in DOMAIN notes : i < j => notes[i].type # "end"
    BY Parts, InRanges, FailTold
  <2>3. \A n \in more : n.type \in {"end", "compactError"} /\ n.of = srv.run /\ (n.type = "end" => ~compact)
    BY NoteFacts
  <2> HIDE DEF notes, end, rejected, more
  <2>4. /\ wire' \in Seq(NoteSet) /\ Wire \subseteq Wire' /\ InRunOrder'
        /\ \A id \in Queued : Note("rejected", id) \in Wire'
        /\ \A n \in Wire' \ Wire : /\ n.type \in {"rejected", "running", "end", "compactError"}
                                   /\ RunOf(n)' = srv.run /\ (n.type # "rejected" => n \in more)
                                   /\ n.type \in MessageTypes => n.of \in Queued
        /\ \A u \in MessageTypes : \A id : Note(u, id) \in Wire' => Note(u, id) \in Wire \/ (u = "rejected" /\ id \in Queued)
    <3>1. \A n \in more : n.type \in {"running", "end", "compactError"} /\ n.of = srv.run
      BY <2>3
    <3>2. \A i, j \in DOMAIN notes : i < j /\ notes[i].type = "end" => notes[j].type \notin InRun
      BY <2>2
    <3>3. srv.mode # "idle" /\ ~srv.told /\ srv'.run = srv.run
      BY <1>1, <1>2
    <3>4. "rejected" \in {"applied", "rejected"}
      OBVIOUS
    <3>5. QED
      BY Parts, <1>3, <2>1, <2>2, <3>1, <3>2, <3>3, <3>4, QueueTold
  <2>5. \A id : id \in Queued <=> id \in Ids /\ sent[id].state = "queued"
    BY DEF Queued, Ids
  <2>6. QED
    BY <2>3, <2>4, <2>5 DEF MessageTypes
<1>5. tui' = tui /\ Opens' = Opens /\ Faileds' = Faileds /\ Submitted' = Submitted
  BY SameClient DEF Fail
<1>6. /\ replies' = replies /\ Snapshots' = Snapshots
      /\ \A op, i : (Yes(op, i)' <=> Yes(op, i)) /\ (No(op, i)' <=> No(op, i))
  BY SameReplies DEF Fail
<1>7. calls' = calls /\ \A op, i : Asked(op, i)' <=> Asked(op, i)
  BY SameCalls DEF Fail
<1>8. busy' = busy /\ (Opening' <=> Opening) /\ \A op, i : Serving(op, i)' <=> Serving(op, i)
  BY SameBusy DEF Fail
<1>9. typed' = typed /\ gaveUp' = gaveUp
  BY DEF Fail
<1>10. \A i : Yes("steer", i) \/ Yes("remove", i) => sent[i].run = srv.run
  BY InTimeFacts DEF Fail
<1>11. Types'
  BY Parts, <1>1, <1>2, <1>3, <1>4, <1>5, <1>6, <1>7, <1>8, <1>9, <1>10 DEF Types
<1>12. SentKnown'
  BY Parts, <1>1, InRanges, <1>2, <1>3, <1>9 DEF SentKnown
<1>13. ClientKnown'
  BY Parts, <1>1, InRanges, <1>2, <1>3, <1>5, <1>9 DEF ClientKnown
<1>14. CallsKnown'
  BY Parts, <1>1, <1>2, <1>3, <1>7, <1>8, <1>9 DEF CallsKnown
<1>15. RepliesKnown'
  BY Parts, <1>1, InRanges, <1>2, <1>3, <1>6, <1>9, <1>10 DEF RepliesKnown
<1>16. WireKnown'
  BY Parts, <1>1, InRanges, <1>2, <1>3, <1>4, <1>9 DEF WireKnown, RunOf, MessageTypes
<1>17. SentWaits'
  BY Parts, <1>1, InRanges, <1>2, <1>3, <1>7, <1>9 DEF SentWaits, Accepted
<1>18. ToldIsTrue'
  <2>1. \A i \in Ids : sent'[i].state # sent[i].state => sent[i].state = "queued" /\ sent'[i].state = "rejected"
    BY <1>3
  <2>2. \A i \in Ids : sent'[i].state \in {"queued", "applied", "rejected"} <=> sent[i].state \in {"queued", "applied", "rejected"}
    BY <1>3
  <2>3. \A i \in Ids : sent[i].state \in {"removed", "applied", "rejected"} => sent'[i].state = sent[i].state
    BY <1>3
  <2>4. \A i \in Ids : sent[i].state \in Accepted <=> sent'[i].state \in Accepted
    BY <1>3 DEF Accepted
  <2>5. \A i \in Ids : sent[i].state = "queued" => sent'[i].state = "rejected"
    BY <1>3
  <2>6. /\ \A id \in Ids : Serving("steer", id)' =>
             /\ sent'[id].state \in {"queued", "applied", "rejected"} /\ Text(id)' # {}
             /\ sent'[id].run = srv'.run /\ srv'.run # 0
        /\ \A id \in Ids : Serving("remove", id)' => sent'[id].state = "removed" /\ sent'[id].run = srv'.run
    BY Parts, <1>2, <1>3, <1>8, <2>2, <2>3 DEF ToldIsTrue
  <2>7. /\ \A id \in Ids : Note("queued", id) \in Wire' => sent'[id].state \in Accepted /\ Text(id)' # {}
        /\ \A id \in Ids : Note("removed", id) \in Wire' => sent'[id].state = "removed"
    BY Parts, <1>3, <1>4, <2>3, <2>4 DEF ToldIsTrue
  <2>8. /\ \A id \in Ids : Note("applied", id) \in Wire' => sent'[id].state = "applied"
        /\ \A id \in Ids : Note("rejected", id) \in Wire' => sent'[id].state = "rejected"
    BY Parts, <1>4, <2>3, <2>5 DEF ToldIsTrue
  <2>9. QED
    BY <1>3, <2>6, <2>7, <2>8 DEF ToldIsTrue
<1>19. AnsweredTruly'
  BY Parts, <1>1, <1>2, <1>3, <1>6, <1>9, <1>10 DEF AnsweredTruly, Accepted
<1>20. AnsweredInTime'
  BY Parts, <1>1, InRanges, <1>2, <1>3, <1>6, <1>9, <1>10 DEF AnsweredInTime
<1>21. InRunOrder'
  BY <1>4
<1>22. NotAhead'
  <2>1. tui.completed < srv.run /\ tui.completed # srv.run
    BY Parts, <1>1, InRanges DEF NotAhead
  <2>2. \A n \in Wire' : n.type # "idle" => RunOf(n)' \in 1 .. srv.run /\ tui.active <= RunOf(n)' /\ tui.completed <= RunOf(n)'
    BY Parts, <1>1, InRanges, <1>3, <1>4 DEF NotAhead
  <2>3. \A n \in Wire' : n.type = "end" => (n.of < srv.run \/ srv'.told) /\ tui.completed # n.of
    BY Parts, <1>1, <1>2, <1>4, <2>1 DEF NotAhead
  <2>4. QED
    BY Parts, <1>1, <1>2, <1>5, <2>1, <2>2, <2>3 DEF NotAhead
<1>23. OpensQuietly'
  BY Parts, <1>1, <1>2, <1>4, <1>5, <1>6, <1>7, <1>8, <1>9, <1>10 DEF OpensQuietly
<1>24. AtItsRun'
  BY Parts, <1>1, InRanges, <1>2, <1>3, <1>4, <1>5, <1>9, SMTT(30) DEF AtItsRun, Ours, Passed, InRun
<1>25. Answerable'
  BY Parts, <1>1, <1>2, <1>3, <1>5, <1>6, <1>7, <1>8, <1>9, <1>10 DEF Answerable, Accepted
<1>26. Untold'
  BY Parts, <1>1, <1>2, <1>3, <1>4, <1>5, <1>7, <1>9 DEF Untold
<1>27. Pending'
  BY Parts, <1>1, <1>2, <1>3, <1>5, <1>6, <1>9, <1>10 DEF Pending, Accepted, RepliesKnown
<1>28. OneLive' /\ NotInDraft'
  <2>1. \A i \in Ids : MayReturn(i)' => MayReturn(i) \/ sent[i].state = "queued"
    BY <1>3, <1>4, <1>5, <1>6, <1>8 DEF MayReturn, Removal
  <2>2. \A i \in Ids : Live(i)' => Live(i)
    <3>1. \A i \in Ids : sent'[i].state \in {"queued", "applied"} => sent[i].state \in {"queued", "applied"}
      BY <1>3
    <3>2. \A i \in Ids : sent'[i].state = "sent" => sent[i].state = "sent"
      BY <1>3
    <3>3. QED
      BY <1>1, <1>2, <1>3, <1>5, <2>1, <3>1, <3>2 DEF Live
  <2>3. QED
    BY Parts, <1>3, <1>5, <1>9, <2>2, LiveShrinks DEF Types
<1>29. Somewhere'
  <2>1. \A i \in Ids : Carries(i) => Carries(i)'
    <3>1. \A i \in Ids : sent[i].state = "queued" => i \notin tui.tombs
      BY Parts DEF Pending
    <3>2. \A i \in Ids : sent[i].state = "queued" => Carries(i)'
      BY <1>3, <1>4, <1>5, <3>1 DEF Carries
    <3>3. \A i \in Ids : sent[i].state # "queued" => sent'[i].state = sent[i].state
      BY <1>3
    <3>4. \A i \in Ids : Removal(i) => Removal(i)'
      BY <1>4, <1>6, <1>8 DEF Removal
    <3>5. QED
      BY <1>3, <1>4, <1>5, <1>6, <3>2, <3>3, <3>4 DEF Carries
  <2>2. QED
    BY Parts, <1>3, <1>5, <1>9, <2>1, CarriesGrows
<1>30. QED
  BY <1>11, <1>12, <1>13, <1>14, <1>15, <1>16, <1>17, <1>18, <1>19, <1>20, <1>21, <1>22, <1>23, <1>24, <1>25, <1>26, <1>27, <1>28, <1>29 DEF TextInv, Known

-----------------------------------------------------------------------------
(* Steps of the client.                                                    *)

\* Texts that come back were nowhere else, or were given up.
LEMMA TextsComeBack ==
  ASSUME OneLive, NotInDraft, Ids' = Ids, \A id \in Ids : Text(id)' = Text(id),
         gaveUp \subseteq gaveUp', gaveUp' \subseteq Ids,
         NEW back \in SUBSET Ids, tui'.draft \subseteq tui.draft \cup Texts(back),
         \A id \in Ids : Live(id)' /\ Text(id) # {} => Live(id),
         \A id \in back : Text(id) = {} \/ id \in gaveUp' \/ (Live(id) /\ ~Live(id)')
  PROVE  OneLive' /\ NotInDraft'
<1>1. \A x : Given(x) => Given(x)'
  BY DEF Given
<1>2. OneLive'
  BY <1>1 DEF OneLive
<1>3. ASSUME NEW i \in Ids, NEW x \in Text(i), Live(i)', x \in tui'.draft
      PROVE  Given(x)'
  <2>1. CASE x \in tui.draft
    BY <1>1, <1>3, <2>1 DEF NotInDraft
  <2>2. CASE x \notin tui.draft
    <3>1. PICK j \in back : x \in Text(j)
      BY <1>3, <2>2 DEF Texts
    <3>2. CASE j \in gaveUp'
      BY <3>1, <3>2 DEF Given
    <3>3. CASE j \notin gaveUp'
      <4>1. Live(j) /\ ~Live(j)' /\ Live(i) /\ i # j
        BY <1>3, <3>1, <3>3
      <4>2. QED
        BY <1>1, <1>3, <3>1, <4>1 DEF OneLive
    <3>4. QED
      BY <3>2, <3>3
  <2>3. QED
    BY <2>1, <2>2
<1>4. NotInDraft'
  BY <1>3 DEF NotInDraft
<1>5. QED
  BY <1>2, <1>4

\* The same when a text may also come back to the draft, or be let go of.
LEMMA CarriesOrBack ==
  ASSUME Somewhere, typed' = typed, Ids' = Ids, \A id \in Ids : Text(id)' = Text(id),
         tui.draft \subseteq tui'.draft, tui.lost \subseteq tui'.lost,
         \A id \in Ids : Carries(id) => Carries(id)' \/ Text(id) \subseteq tui'.draft \/ Text(id) \subseteq tui'.lost
  PROVE  Somewhere'
BY DEF Somewhere

\* What the client has is what the operators need.
LEMMA ClientFits ==
  ASSUME Types, Known, Answerable
  PROVE  /\ tui \in Clients /\ SubsOK(tui)
         /\ \A s \in tui.subs : Text(s.id) \subseteq Nat /\ s.id \in Ids
         /\ \A i \in Ids : Text(i) \subseteq Nat
<1>1. tui \in Clients /\ SubsOK(tui)
  BY DEF Types, Answerable, SubsOK, Opens
<1>2. \A i \in Ids : Text(i) \subseteq Nat
  BY MessageType
<1>3. \A s \in tui.subs : s.id \in Ids
  BY DEF Known, ClientKnown, Submitted, SubIds
<1>4. QED
  BY <1>1, <1>2, <1>3

\* What the client knows of the runs, the messages and the texts.
NothingLearnt ==
  /\ tui' \in Clients /\ tui'.at = tui.at /\ tui'.draft = tui.draft /\ tui'.lost = tui.lost
  /\ tui'.pending = tui.pending /\ tui'.tombs = tui.tombs /\ tui'.active = tui.active
  /\ tui'.completed = tui.completed /\ tui'.subs = tui.subs

\* A notification that only changes what the screen says of the run.
LEMMA NothingHeard ==
  ASSUME TextInv, HandleNote, tui.at = "open", NothingLearnt, Head(wire).type \notin MessageTypes,
         Head(wire).type = "running" => Head(wire).of = tui.completed,
         Head(wire).type = "end" => tui.active # 0 /\ Head(wire).of # tui.active
  PROVE  TextInv'
<1> PICK n : n = Head(wire)
  OBVIOUS
<1>1. /\ wire' \in Seq(NoteSet) /\ n \in NoteSet /\ n \in Wire /\ Wire' \subseteq Wire
      /\ (\A m \in Wire : m = n \/ m \in Wire') /\ (\A m \in Wire' : Before(n, m)) /\ InRunOrder'
  BY Parts, HandledFacts DEF HandleNote
<1>2. /\ n.type \notin MessageTypes
      /\ n.type = "running" => n.of = tui.completed
      /\ n.type = "end" => tui.active # 0 /\ n.of # tui.active
      /\ \A i : /\ Note("queued", i) \in Wire => Note("queued", i) \in Wire'
                /\ Note("removed", i) \in Wire => Note("removed", i) \in Wire'
                /\ Note("applied", i) \in Wire => Note("applied", i) \in Wire'
                /\ Note("rejected", i) \in Wire => Note("rejected", i) \in Wire'
  BY <1>1, NoteFacts DEF MessageTypes
<1>3. /\ tui' \in Clients /\ tui'.at = "open" /\ tui'.draft = tui.draft /\ tui'.lost = tui.lost
      /\ tui'.pending = tui.pending /\ tui'.tombs = tui.tombs /\ tui'.active = tui.active
      /\ tui'.completed = tui.completed /\ tui'.subs = tui.subs
      /\ Opens' = Opens /\ Faileds' = Faileds /\ Submitted' = Submitted
  BY DEF NothingLearnt, Opens, Faileds, Submitted, InState, SubIds
<1>4. sent' = sent /\ Ids' = Ids /\ (\A i : Text(i)' = Text(i)) /\ (\A m : RunOf(m)' = RunOf(m))
  BY SameSent DEF HandleNote, MessagesKept
<1>5. calls' = calls /\ \A op, i : Asked(op, i)' <=> Asked(op, i)
  BY SameCalls DEF HandleNote
<1>6. busy' = busy /\ (Opening' <=> Opening) /\ \A op, i : Serving(op, i)' <=> Serving(op, i)
  BY SameBusy DEF HandleNote
<1>7. /\ replies' = replies /\ Snapshots' = Snapshots
      /\ \A op, i : (Yes(op, i)' <=> Yes(op, i)) /\ (No(op, i)' <=> No(op, i))
  BY SameReplies DEF HandleNote
<1>8. srv' = srv
  BY DEF HandleNote
<1>9. typed' = typed /\ gaveUp' = gaveUp
  BY DEF HandleNote
<1>10. Types'
  BY Parts, <1>1, <1>2, <1>3, <1>4, <1>5, <1>6, <1>7, <1>8, <1>9 DEF Types
<1>11. SentKnown'
  BY Parts, <1>4, <1>8, <1>9 DEF SentKnown
<1>12. ClientKnown'
  BY Parts, <1>3, <1>4, <1>8, <1>9 DEF ClientKnown
<1>13. CallsKnown'
  BY Parts, <1>4, <1>5, <1>6, <1>8, <1>9 DEF CallsKnown
<1>14. RepliesKnown'
  BY Parts, <1>4, <1>7, <1>8, <1>9 DEF RepliesKnown
<1>15. WireKnown'
  BY Parts, <1>1, <1>2, <1>4, <1>8, <1>9 DEF WireKnown, RunOf, MessageTypes
<1>16. SentWaits'
  BY Parts, <1>4, <1>5, <1>8, <1>9 DEF SentWaits, Accepted
<1>17. ToldIsTrue'
  BY Parts, <1>1, <1>2, <1>4, <1>6, <1>8, <1>9 DEF ToldIsTrue, Accepted
<1>18. AnsweredTruly'
  BY Parts, <1>4, <1>7, <1>8, <1>9 DEF AnsweredTruly, Accepted
<1>19. AnsweredInTime'
  BY Parts, <1>4, <1>7, <1>8, <1>9 DEF AnsweredInTime
<1>20. InRunOrder'
  BY <1>1
<1>21. NotAhead'
  BY Parts, <1>1, <1>2, <1>3, <1>4, <1>8, <1>9 DEF NotAhead
<1>22. OpensQuietly'
  BY Parts, <1>1, <1>2, <1>3, <1>5, <1>6, <1>7, <1>8, <1>9 DEF OpensQuietly
<1>23. AtItsRun'
  BY Parts, <1>1, <1>2, <1>3, <1>4, <1>8, <1>9 DEF AtItsRun, Ours, Passed, InRun
<1>24. Answerable'
  BY Parts, <1>3, <1>4, <1>5, <1>6, <1>7, <1>8, <1>9 DEF Answerable, Accepted
<1>25. Untold'
  BY Parts, <1>1, <1>2, <1>3, <1>4, <1>5, <1>8, <1>9 DEF Untold
<1>26. Pending'
  BY Parts, <1>3, <1>4, <1>7, <1>8, <1>9 DEF Pending, Accepted, RepliesKnown
<1>27. OneLive' /\ NotInDraft'
  <2>1. \A i \in Ids : Live(i)' => Live(i)
    BY Parts, <1>1, <1>2, <1>3, <1>4, <1>6, <1>7, <1>8, <1>9 DEF Live, MayReturn, Removal
  <2>2. QED
    BY Parts, <1>3, <1>4, <1>8, <1>9, <2>1, LiveShrinks DEF Types
<1>28. Somewhere'
  <2>1. \A i \in Ids : Carries(i) => Carries(i)'
    BY Parts, <1>1, <1>2, <1>3, <1>4, <1>6, <1>7, <1>8, <1>9 DEF Carries, Removal
  <2>2. QED
    BY Parts, <1>3, <1>4, <1>8, <1>9, <2>1, CarriesGrows
<1>29. QED
  BY <1>10, <1>11, <1>12, <1>13, <1>14, <1>15, <1>16, <1>17, <1>18, <1>19, <1>20, <1>21, <1>22, <1>23, <1>24, <1>25, <1>26, <1>27, <1>28 DEF TextInv, Known

\* The session is idle.
LEMMA IdleHandled ==
  ASSUME TextInv, HandleNote, tui.at = "open", Head(wire).type = "idle"
  PROVE  TextInv'
<1>1. tui' = Handled(tui, Head(wire)) /\ tui \in Clients
  BY DEF HandleNote, TextInv, Types
<1>2. NothingLearnt
  BY <1>1 DEF NothingLearnt, Handled, Idle, Clients
<1>3. QED
  BY <1>2, NothingHeard DEF MessageTypes

\* The run is being cancelled.
LEMMA CancellingHandled ==
  ASSUME TextInv, HandleNote, tui.at = "open", Head(wire).type = "cancelling"
  PROVE  TextInv'
<1>1. tui' = Handled(tui, Head(wire)) /\ tui \in Clients
  BY DEF HandleNote, TextInv, Types
<1>2. NothingLearnt
  BY <1>1 DEF NothingLearnt, Handled, EnterCancelling, Clients
<1>3. QED
  BY <1>2, NothingHeard DEF MessageTypes

\* A compaction failed.
LEMMA ErrorHandled ==
  ASSUME TextInv, HandleNote, tui.at = "open", Head(wire).type = "compactError"
  PROVE  TextInv'
<1>1. tui' = Handled(tui, Head(wire)) /\ tui \in Clients
  BY DEF HandleNote, TextInv, Types
<1>2. NothingLearnt
  BY <1>1 DEF NothingLearnt, Handled, CompactFailed, Clients
<1>3. QED
  BY <1>2, NothingHeard DEF MessageTypes

\* A compaction is done.
LEMMA DoneHandled ==
  ASSUME TextInv, HandleNote, tui.at = "open", Head(wire).type = "compactDone"
  PROVE  TextInv'
<1>1. tui' = Handled(tui, Head(wire)) /\ tui \in Clients
  BY DEF HandleNote, TextInv, Types
<1>2. NothingLearnt
  BY <1>1 DEF NothingLearnt, Handled, CompactDone, CompactFailed, Clients
<1>3. QED
  BY <1>2, NothingHeard DEF MessageTypes

\* A run goes on that is over for the client.
LEMMA RunningOfOld ==
  ASSUME TextInv, HandleNote, tui.at = "open", Head(wire).type = "running", Head(wire).of = tui.completed
  PROVE  TextInv'
<1>1. tui' = Handled(tui, Head(wire)) /\ tui \in Clients
  BY DEF HandleNote, TextInv, Types
<1>2. NothingLearnt
  BY <1>1 DEF NothingLearnt, Handled, Running, Clients
<1>3. QED
  BY <1>2, NothingHeard DEF MessageTypes

\* The run that the client is at goes on.
LEMMA RunningGoesOn ==
  ASSUME TextInv, HandleNote, tui.at = "open", Head(wire).type = "running", Head(wire).of # tui.completed, Head(wire).of = tui.active
  PROVE  TextInv'
<1> PICK n : n = Head(wire)
  OBVIOUS
<1> PICK r : r = Head(wire).of
  OBVIOUS
<1>1. /\ wire' \in Seq(NoteSet) /\ n \in NoteSet /\ n \in Wire /\ Wire' \subseteq Wire
      /\ (\A m \in Wire : m = n \/ m \in Wire') /\ (\A m \in Wire' : Before(n, m)) /\ InRunOrder'
  BY Parts, HandledFacts DEF HandleNote
<1>2. /\ n.type = "running" /\ RunOf(n) = r /\ r \in 1 .. srv.run /\ tui.active <= r /\ tui.completed <= r
      /\ (\A m \in Wire' : m.type # "idle" => r <= RunOf(m))
  <2>1. n.type # "idle" /\ RunOf(n) = r
    BY Parts DEF RunOf, MessageTypes
  <2>2. QED
    BY Parts, <1>1, InRanges, <2>1 DEF Before, NotAhead, InRun
<1>3. /\ tui' \in Clients /\ tui'.at = "open" /\ tui'.draft = tui.draft /\ tui'.lost = tui.lost
      /\ tui'.pending = tui.pending /\ tui'.tombs = tui.tombs /\ tui'.active = tui.active
      /\ tui'.completed = 0 /\ tui'.subs = tui.subs
      /\ Opens' = Opens /\ Faileds' = Faileds /\ Submitted' = Submitted
  <2>1. tui' = Running(tui, r) /\ srv.mine[r] \in BOOLEAN
    <3>1. r \in 1 .. MaxRuns /\ srv \in SessionSet
      BY Parts, InRanges, <1>2, SteeringClientAssumption DEF SentKnown, Types
    <3>2. QED
      BY Parts, <3>1 DEF HandleNote, Handled, SessionSet
  <2>2. /\ tui \in Clients /\ SubsOK(tui)
        /\ \A s \in tui.subs : Text(s.id) \subseteq Nat
    BY Parts, ClientFits
  <2>3. r \in Nat
    BY InRanges, <1>2
  <2>4. QED
    BY Parts, <2>1, <2>2, <2>3, RunningFacts DEF Opens, Faileds, Submitted, SameSubs
<1>4. /\ n.type = "running" /\ n.type \notin MessageTypes
      /\ \A i : /\ Note("queued", i) \in Wire => Note("queued", i) \in Wire'
                /\ Note("removed", i) \in Wire => Note("removed", i) \in Wire'
                /\ Note("applied", i) \in Wire => Note("applied", i) \in Wire'
                /\ Note("rejected", i) \in Wire => Note("rejected", i) \in Wire'
  BY <1>1, <1>2, NoteFacts DEF MessageTypes
<1>5. sent' = sent /\ Ids' = Ids /\ (\A i : Text(i)' = Text(i)) /\ (\A m : RunOf(m)' = RunOf(m))
  BY SameSent DEF HandleNote, MessagesKept
<1>6. calls' = calls /\ \A op, i : Asked(op, i)' <=> Asked(op, i)
  BY SameCalls DEF HandleNote
<1>7. busy' = busy /\ (Opening' <=> Opening) /\ \A op, i : Serving(op, i)' <=> Serving(op, i)
  BY SameBusy DEF HandleNote
<1>8. /\ replies' = replies /\ Snapshots' = Snapshots
      /\ \A op, i : (Yes(op, i)' <=> Yes(op, i)) /\ (No(op, i)' <=> No(op, i))
  BY SameReplies DEF HandleNote
<1>9. srv' = srv
  BY DEF HandleNote
<1>10. typed' = typed /\ gaveUp' = gaveUp
  BY DEF HandleNote
<1>11. Types'
  BY Parts, <1>1, <1>2, <1>3, <1>4, <1>5, <1>6, <1>7, <1>8, <1>9, <1>10 DEF Types
<1>12. SentKnown'
  BY Parts, InRanges, <1>2, <1>5, <1>9, <1>10 DEF SentKnown
<1>13. ClientKnown'
  BY Parts, InRanges, <1>2, <1>3, <1>5, <1>9, <1>10 DEF ClientKnown
<1>14. CallsKnown'
  BY Parts, <1>5, <1>6, <1>7, <1>9, <1>10 DEF CallsKnown
<1>15. RepliesKnown'
  BY Parts, InRanges, <1>2, <1>5, <1>8, <1>9, <1>10 DEF RepliesKnown
<1>16. WireKnown'
  BY Parts, <1>1, InRanges, <1>2, <1>4, <1>5, <1>9, <1>10 DEF WireKnown, RunOf, MessageTypes
<1>17. SentWaits'
  BY Parts, InRanges, <1>2, <1>5, <1>6, <1>9, <1>10 DEF SentWaits, Accepted
<1>18. ToldIsTrue'
  BY Parts, <1>1, InRanges, <1>2, <1>4, <1>5, <1>7, <1>9, <1>10 DEF ToldIsTrue, Accepted
<1>19. AnsweredTruly'
  BY Parts, <1>5, <1>8, <1>9, <1>10 DEF AnsweredTruly, Accepted
<1>20. AnsweredInTime'
  BY Parts, InRanges, <1>2, <1>5, <1>8, <1>9, <1>10 DEF AnsweredInTime
<1>21. InRunOrder'
  BY <1>1
<1>22. NotAhead'
  BY Parts, <1>1, InRanges, <1>2, <1>3, <1>4, <1>5, <1>9, <1>10 DEF NotAhead
<1>23. OpensQuietly'
  BY Parts, <1>1, <1>2, <1>3, <1>4, <1>6, <1>7, <1>8, <1>9, <1>10 DEF OpensQuietly
<1>24. AtItsRun'
  BY Parts, <1>1, InRanges, <1>2, <1>3, <1>4, <1>5, <1>9, <1>10 DEF AtItsRun, Ours, Passed, InRun
<1>25. Answerable'
  BY Parts, <1>3, <1>5, <1>6, <1>7, <1>8, <1>9, <1>10 DEF Answerable, Accepted
<1>26. Untold'
  BY Parts, <1>1, <1>2, <1>3, <1>4, <1>5, <1>6, <1>9, <1>10 DEF Untold
<1>27. Pending'
  BY Parts, <1>3, <1>5, <1>8, <1>9, <1>10 DEF Pending, Accepted, RepliesKnown
<1>28. OneLive' /\ NotInDraft'
  <2>1. \A i \in Ids : Live(i)' => Live(i)
    BY Parts, <1>1, InRanges, <1>2, <1>3, <1>4, <1>5, <1>7, <1>8, <1>9, <1>10 DEF Live, MayReturn, Removal
  <2>2. QED
    BY Parts, <1>3, <1>5, <1>9, <1>10, <2>1, LiveShrinks DEF Types
<1>29. Somewhere'
  <2>1. \A i \in Ids : Carries(i) => Carries(i)'
    BY Parts, <1>1, <1>2, <1>3, <1>4, <1>5, <1>7, <1>8, <1>9, <1>10 DEF Carries, Removal
  <2>2. QED
    BY Parts, <1>3, <1>5, <1>9, <1>10, <2>1, CarriesGrows
<1>30. QED
  BY <1>11, <1>12, <1>13, <1>14, <1>15, <1>16, <1>17, <1>18, <1>19, <1>20, <1>21, <1>22, <1>23, <1>24, <1>25, <1>26, <1>27, <1>28, <1>29 DEF TextInv, Known

\* A run has begun that the client has not seen.
LEMMA RunningTakesOver ==
  ASSUME TextInv, HandleNote, tui.at = "open", Head(wire).type = "running", Head(wire).of # tui.completed, Head(wire).of # tui.active
  PROVE  TextInv'
<1> PICK n : n = Head(wire)
  OBVIOUS
<1> PICK r : r = Head(wire).of
  OBVIOUS
<1>1. /\ wire' \in Seq(NoteSet) /\ n \in NoteSet /\ n \in Wire /\ Wire' \subseteq Wire
      /\ (\A m \in Wire : m = n \/ m \in Wire') /\ (\A m \in Wire' : Before(n, m)) /\ InRunOrder'
  BY Parts, HandledFacts DEF HandleNote
<1>2. /\ n.type = "running" /\ RunOf(n) = r /\ r \in 1 .. srv.run /\ tui.active <= r /\ tui.completed <= r
      /\ (\A m \in Wire' : m.type # "idle" => r <= RunOf(m))
  <2>1. n.type # "idle" /\ RunOf(n) = r
    BY Parts DEF RunOf, MessageTypes
  <2>2. QED
    BY Parts, <1>1, InRanges, <2>1 DEF Before, NotAhead, InRun
<1>3. /\ tui' \in Clients /\ tui'.at = "open" /\ tui'.draft = tui.draft \cup Texts(Opens) /\ tui'.lost = tui.lost \cup Texts(Faileds)
      /\ tui'.active = r /\ tui'.completed = 0 /\ tui'.pending = {} /\ tui'.tombs = {} /\ tui'.subs = {}
      /\ Opens' = {} /\ Faileds' = {} /\ Submitted' = {}
  <2>1. tui' = Running(tui, r) /\ srv.mine[r] \in BOOLEAN
    <3>1. r \in 1 .. MaxRuns /\ srv \in SessionSet
      BY Parts, InRanges, <1>2, SteeringClientAssumption DEF SentKnown, Types
    <3>2. QED
      BY Parts, <3>1 DEF HandleNote, Handled, SessionSet
  <2>2. /\ tui \in Clients /\ SubsOK(tui)
        /\ \A s \in tui.subs : Text(s.id) \subseteq Nat
    BY Parts, ClientFits
  <2>3. r \in Nat
    BY InRanges, <1>2
  <2>4. QED
    BY Parts, <2>1, <2>2, <2>3, RunningFacts DEF Opens, Faileds, Submitted
<1>4. /\ n.type = "running" /\ n.type \notin MessageTypes
      /\ \A i : /\ Note("queued", i) \in Wire => Note("queued", i) \in Wire'
                /\ Note("removed", i) \in Wire => Note("removed", i) \in Wire'
                /\ Note("applied", i) \in Wire => Note("applied", i) \in Wire'
                /\ Note("rejected", i) \in Wire => Note("rejected", i) \in Wire'
  BY <1>1, <1>2, NoteFacts DEF MessageTypes
<1>5. sent' = sent /\ Ids' = Ids /\ (\A i : Text(i)' = Text(i)) /\ (\A m : RunOf(m)' = RunOf(m))
  BY SameSent DEF HandleNote, MessagesKept
<1>6. calls' = calls /\ \A op, i : Asked(op, i)' <=> Asked(op, i)
  BY SameCalls DEF HandleNote
<1>7. busy' = busy /\ (Opening' <=> Opening) /\ \A op, i : Serving(op, i)' <=> Serving(op, i)
  BY SameBusy DEF HandleNote
<1>8. /\ replies' = replies /\ Snapshots' = Snapshots
      /\ \A op, i : (Yes(op, i)' <=> Yes(op, i)) /\ (No(op, i)' <=> No(op, i))
  BY SameReplies DEF HandleNote
<1>9. srv' = srv
  BY DEF HandleNote
<1>10. typed' = typed /\ gaveUp' = gaveUp
  BY DEF HandleNote
<1>11. Types'
  BY Parts, <1>1, <1>2, <1>3, <1>4, <1>5, <1>6, <1>7, <1>8, <1>9, <1>10 DEF Types
<1>12. SentKnown'
  BY Parts, InRanges, <1>2, <1>5, <1>9, <1>10 DEF SentKnown
<1>13. ClientKnown'
  <2>1. Texts(Opens) \subseteq 1 .. typed /\ Texts(Faileds) \subseteq 1 .. typed
    BY Parts, InRanges DEF Texts
  <2>2. QED
    BY Parts, InRanges, <1>2, <1>3, <1>5, <1>9, <1>10, <2>1 DEF ClientKnown
<1>14. CallsKnown'
  BY Parts, <1>5, <1>6, <1>7, <1>9, <1>10 DEF CallsKnown
<1>15. RepliesKnown'
  BY Parts, InRanges, <1>2, <1>5, <1>8, <1>9, <1>10 DEF RepliesKnown
<1>16. WireKnown'
  BY Parts, <1>1, InRanges, <1>2, <1>4, <1>5, <1>9, <1>10 DEF WireKnown, RunOf, MessageTypes
<1>17. SentWaits'
  BY Parts, InRanges, <1>2, <1>5, <1>6, <1>9, <1>10 DEF SentWaits, Accepted
<1>18. ToldIsTrue'
  BY Parts, <1>1, InRanges, <1>2, <1>4, <1>5, <1>7, <1>9, <1>10 DEF ToldIsTrue, Accepted
<1>19. AnsweredTruly'
  BY Parts, <1>5, <1>8, <1>9, <1>10 DEF AnsweredTruly, Accepted
<1>20. AnsweredInTime'
  BY Parts, InRanges, <1>2, <1>5, <1>8, <1>9, <1>10 DEF AnsweredInTime
<1>21. InRunOrder'
  BY <1>1
<1>22. NotAhead'
  BY Parts, <1>1, InRanges, <1>2, <1>3, <1>4, <1>5, <1>9, <1>10 DEF NotAhead
<1>23. OpensQuietly'
  BY Parts, <1>1, <1>2, <1>3, <1>4, <1>6, <1>7, <1>8, <1>9, <1>10 DEF OpensQuietly
<1>24. AtItsRun'
  <2>1. \A q \in 0 .. srv.run : Passed(q) => Passed(q)'
    BY <1>1, <1>5, <1>9 DEF Passed
  <2>2. \A q \in 0 .. srv.run : q < r => Passed(q)'
    <3>1. \A m \in Wire' : m.type \in InRun => r <= RunOf(m)' /\ RunOf(m) \in Nat
      BY <1>1, InRanges, <1>2, <1>5 DEF InRun
    <3>2. QED
      BY InRanges, <1>2, <1>5, <1>9, <3>1 DEF Passed
  <2>3. tui.active < r
    BY Parts, InRanges, <1>2
  <2>4. QED
    BY Parts, InRanges, <1>3, <1>5, <2>1, <2>2, <2>3 DEF AtItsRun, Ours
<1>25. Answerable'
  BY Parts, <1>3, <1>5, <1>6, <1>7, <1>8, <1>9, <1>10 DEF Answerable, Accepted
<1>26. Untold'
  BY Parts, <1>1, <1>2, <1>3, <1>4, <1>5, <1>6, <1>9, <1>10 DEF Untold
<1>27. Pending'
  BY Parts, <1>3, <1>5, <1>8, <1>9, <1>10 DEF Pending, Accepted, RepliesKnown
<1>28. OneLive' /\ NotInDraft'
  <2>1. \A i \in Ids : Text(i) # {} /\ sent[i].run # 0 => tui.active = sent[i].run \/ Passed(sent[i].run)
    BY Parts DEF AtItsRun, Ours
  <2>2. \A i \in Ids : sent[i].state \notin {"sent", "applied", "busy"} => sent[i].run # 0
    BY Parts DEF SentWaits
  <2>3. \A i \in Ids : /\ Note("rejected", i) \in Wire => RunOf(Note("rejected", i)) = sent[i].run
                       /\ Note("removed", i) \in Wire => RunOf(Note("removed", i)) = sent[i].run
                       /\ Note("applied", i) \in Wire => RunOf(Note("applied", i)) = sent[i].run
    BY NoteFacts DEF RunOf, MessageTypes
  <2>4. \A m \in Wire' : m.type # "idle" => r <= RunOf(m)
    BY <1>2
  <2>a. tui.active < r
    BY Parts, InRanges, <1>2
  <2>5. \A i \in Ids : Text(i) # {} /\ MayReturn(i)' => MayReturn(i)
    <3>1. SUFFICES ASSUME NEW i \in Ids, Text(i) # {}, MayReturn(i)' PROVE MayReturn(i)
      OBVIOUS
    <3>2. CASE sent[i].state = "removed"
      <4>1. Removal(i)' /\ r <= sent[i].run
        BY <1>3, <1>5, <3>1, <3>2 DEF MayReturn
      <4>2. Removal(i)
        BY <1>1, <1>5, <1>7, <1>8, <4>1 DEF Removal
      <4>3. tui.active # sent[i].run /\ ~Passed(sent[i].run)
        BY Parts, <1>1, InRanges, <1>2, <2>a, <3>1, <4>1 DEF Passed, InRun
      <4>4. QED
        BY <2>1, <2>2, <3>1, <3>2, <4>3
    <3>3. CASE sent[i].state = "rejected"
      <4>1. Note("rejected", i) \in Wire' /\ Note("rejected", i) \in Wire /\ Note("rejected", i).type = "rejected"
        BY <1>1, <1>5, <3>1, <3>3, NoteFacts DEF MayReturn
      <4>2. r <= sent[i].run
        BY <2>3, <2>4, <4>1
      <4>3. tui.active # sent[i].run /\ ~Passed(sent[i].run)
        BY Parts, <1>1, InRanges, <1>2, <2>a, <3>1, <4>2 DEF Passed, InRun
      <4>4. QED
        BY <2>1, <2>2, <3>1, <3>3, <4>3
    <3>4. QED
      BY <1>5, <3>1, <3>2, <3>3 DEF MayReturn
  <2>6. \A i \in Ids : Text(i) # {} /\ Live(i)' => Live(i)
    BY <1>3, <1>5, <1>9, <2>5 DEF Live
  <2>7. \A i \in Opens : i \in Ids /\ tui.active = sent[i].run /\ sent[i].run # 0 /\ sent[i].state # "removed"
    BY Parts DEF Answerable, Untold
  <2>8. \A i \in Opens : ~Live(i)'
    <3>1. SUFFICES ASSUME NEW i \in Opens PROVE ~Live(i)'
      OBVIOUS
    <3>2. sent[i].run < r /\ sent[i].run < srv.run
      BY Parts, InRanges, <1>2, <2>7
    <3>3. ~(sent[i].state = "applied" \/ sent[i].state = "rejected")
      <4>1. ASSUME sent[i].state = "applied" \/ sent[i].state = "rejected" PROVE FALSE
        <5>1. \E m \in {Note("applied", i), Note("rejected", i)} : m \in Wire /\ RunOf(m) = sent[i].run
          BY Parts, <2>3, <2>7, <4>1 DEF Untold
        <5>a. PICK m \in {Note("applied", i), Note("rejected", i)} : m \in Wire /\ RunOf(m) = sent[i].run
          BY <5>1
        <5>2. m.type \in {"applied", "rejected"}
          BY <5>a, NoteFacts
        <5>3. m \in Wire'
          BY <1>1, <1>2, <5>a, <5>2
        <5>4. QED
          BY InRanges, <1>2, <2>7, <3>2, <5>a, <5>2, <5>3
      <4>2. QED
        BY <4>1
    <3>4. sent[i].state # "queued"
      BY InRanges, <2>7, <3>2, Parts DEF SentWaits
    <3>5. ~MayReturn(i)'
      BY <1>5, <2>7, <3>3 DEF MayReturn
    <3>6. ~(sent[i].run = srv.run)
      BY InRanges, <3>2
    <3>7. QED
      BY <1>3, <1>5, <1>9, <2>7, <3>3, <3>4, <3>5, <3>6 DEF Live
  <2>9. \A i \in Opens : Live(i)
    BY DEF Live
  <2>10. QED
    <3>1. Opens \in SUBSET Ids /\ gaveUp' \subseteq Ids
      BY Parts, <1>10 DEF Types
    <3>2. QED
      BY Parts, <1>3, <1>5, <1>10, <2>6, <2>8, <2>9, <3>1, TextsComeBack
<1>29. Somewhere'
  <2>1. \A i \in Ids : Carries(i) => Carries(i)' \/ Text(i) \subseteq tui'.draft \/ Text(i) \subseteq tui'.lost
    <3>1. \A i \in Ids : i \in Opens => Text(i) \subseteq tui'.draft
      BY <1>3 DEF Texts
    <3>2. \A i \in Ids : i \in Faileds => Text(i) \subseteq tui'.lost
      BY <1>3 DEF Texts
    <3>3. \A i \in Ids : Removal(i) => Removal(i)'
      BY <1>4, <1>7, <1>8 DEF Removal
    <3>4. \A i \in Ids : i \notin tui.tombs => i \notin tui'.tombs
      BY <1>3
    <3>5. \A i \in Ids : Carries(i) /\ i \notin Opens /\ i \notin Faileds => Carries(i)'
      BY <1>4, <1>5, <1>8, <3>3, <3>4 DEF Carries
    <3>6. QED
      BY <3>1, <3>2, <3>5
  <2>2. QED
    BY Parts, <1>3, <1>5, <1>10, <2>1, CarriesOrBack
<1>30. QED
  BY <1>11, <1>12, <1>13, <1>14, <1>15, <1>16, <1>17, <1>18, <1>19, <1>20, <1>21, <1>22, <1>23, <1>24, <1>25, <1>26, <1>27, <1>28, <1>29 DEF TextInv, Known

\* A run ends that the client is not at.
LEMMA EndOfOther ==
  ASSUME TextInv, HandleNote, tui.at = "open", Head(wire).type = "end", tui.active # 0, Head(wire).of # tui.active
  PROVE  TextInv'
<1>1. tui' = Handled(tui, Head(wire)) /\ tui \in Clients
  BY DEF HandleNote, TextInv, Types
<1>2. NothingLearnt
  BY <1>1 DEF NothingLearnt, Handled, Ended, Clients
<1>3. QED
  BY <1>2, NothingHeard DEF MessageTypes

\* The run that the client is at ends.
LEMMA EndHandled ==
  ASSUME TextInv, HandleNote, tui.at = "open", Head(wire).type = "end", ~(tui.active # 0 /\ Head(wire).of # tui.active)
  PROVE  TextInv'
<1> PICK n : n = Head(wire)
  OBVIOUS
<1> PICK r : r = Head(wire).of
  OBVIOUS
<1>1. /\ wire' \in Seq(NoteSet) /\ n \in NoteSet /\ n \in Wire /\ Wire' \subseteq Wire
      /\ (\A m \in Wire : m = n \/ m \in Wire') /\ (\A m \in Wire' : Before(n, m)) /\ InRunOrder'
  BY Parts, HandledFacts DEF HandleNote
<1>2. /\ n.type = "end" /\ RunOf(n) = r /\ r \in 1 .. srv.run /\ tui.active <= r /\ tui.completed <= r
      /\ (\A m \in Wire' : m.type # "idle" => r <= RunOf(m))
      /\ (\A m \in Wire' : m.type \in InRun => r < RunOf(m)) /\ r # tui.completed /\ (r < srv.run \/ srv.told)
  <2>1. n.type # "idle" /\ RunOf(n) = r
    BY Parts DEF RunOf, MessageTypes
  <2>2. QED
    BY Parts, <1>1, InRanges, <2>1 DEF Before, NotAhead, InRun
<1>3. /\ tui' \in Clients /\ tui'.at = "open" /\ tui'.draft = tui.draft \cup Texts(Opens) /\ tui'.lost = tui.lost \cup Texts(Faileds)
      /\ tui'.active = 0 /\ tui'.completed = r /\ tui'.pending = {} /\ tui'.tombs = tui.tombs /\ tui'.subs = {}
      /\ Opens' = {} /\ Faileds' = {} /\ Submitted' = {}
  <2>1. tui' = Ended(tui, r)
    BY Parts DEF HandleNote, Handled
  <2>2. /\ tui \in Clients /\ SubsOK(tui)
        /\ \A s \in tui.subs : Text(s.id) \subseteq Nat
    BY Parts, ClientFits
  <2>3. r \in Nat /\ ~(r = tui.completed \/ (tui.active # 0 /\ r # tui.active))
    BY Parts, InRanges, <1>2
  <2>4. QED
    BY Parts, <2>1, <2>2, <2>3, EndedFacts DEF Opens, Faileds, Submitted
<1>4. /\ n.type = "end" /\ n.type \notin MessageTypes
      /\ \A i : /\ Note("queued", i) \in Wire => Note("queued", i) \in Wire'
                /\ Note("removed", i) \in Wire => Note("removed", i) \in Wire'
                /\ Note("applied", i) \in Wire => Note("applied", i) \in Wire'
                /\ Note("rejected", i) \in Wire => Note("rejected", i) \in Wire'
  BY <1>1, <1>2, NoteFacts DEF MessageTypes
<1>5. sent' = sent /\ Ids' = Ids /\ (\A i : Text(i)' = Text(i)) /\ (\A m : RunOf(m)' = RunOf(m))
  BY SameSent DEF HandleNote, MessagesKept
<1>6. calls' = calls /\ \A op, i : Asked(op, i)' <=> Asked(op, i)
  BY SameCalls DEF HandleNote
<1>7. busy' = busy /\ (Opening' <=> Opening) /\ \A op, i : Serving(op, i)' <=> Serving(op, i)
  BY SameBusy DEF HandleNote
<1>8. /\ replies' = replies /\ Snapshots' = Snapshots
      /\ \A op, i : (Yes(op, i)' <=> Yes(op, i)) /\ (No(op, i)' <=> No(op, i))
  BY SameReplies DEF HandleNote
<1>9. srv' = srv
  BY DEF HandleNote
<1>10. typed' = typed /\ gaveUp' = gaveUp
  BY DEF HandleNote
<1>11. Types'
  BY Parts, <1>1, <1>2, <1>3, <1>4, <1>5, <1>6, <1>7, <1>8, <1>9, <1>10 DEF Types
<1>12. SentKnown'
  BY Parts, InRanges, <1>2, <1>5, <1>9, <1>10 DEF SentKnown
<1>13. ClientKnown'
  <2>1. Texts(Opens) \subseteq 1 .. typed /\ Texts(Faileds) \subseteq 1 .. typed
    BY Parts, InRanges DEF Texts
  <2>2. QED
    BY Parts, InRanges, <1>2, <1>3, <1>5, <1>9, <1>10, <2>1 DEF ClientKnown
<1>14. CallsKnown'
  BY Parts, <1>5, <1>6, <1>7, <1>9, <1>10 DEF CallsKnown
<1>15. RepliesKnown'
  BY Parts, InRanges, <1>2, <1>5, <1>8, <1>9, <1>10 DEF RepliesKnown
<1>16. WireKnown'
  BY Parts, <1>1, InRanges, <1>2, <1>4, <1>5, <1>9, <1>10 DEF WireKnown, RunOf, MessageTypes
<1>17. SentWaits'
  BY Parts, InRanges, <1>2, <1>5, <1>6, <1>9, <1>10 DEF SentWaits, Accepted
<1>18. ToldIsTrue'
  BY Parts, <1>1, InRanges, <1>2, <1>4, <1>5, <1>7, <1>9, <1>10 DEF ToldIsTrue, Accepted
<1>19. AnsweredTruly'
  BY Parts, <1>5, <1>8, <1>9, <1>10 DEF AnsweredTruly, Accepted
<1>20. AnsweredInTime'
  BY Parts, InRanges, <1>2, <1>5, <1>8, <1>9, <1>10 DEF AnsweredInTime
<1>21. InRunOrder'
  BY <1>1
<1>22. NotAhead'
  <2>1. \A m \in Wire' : m.type # "idle" => r <= RunOf(m)'
    BY <1>2, <1>5
  <2>2. \A m \in Wire' : m.type # "idle" => RunOf(m)' \in 1 .. srv.run
    BY <1>1, InRanges, <1>5
  <2>3. \A m \in Wire' : m.type = "end" => m.of # r /\ (m.of < srv.run \/ srv.told)
    BY Parts, <1>1, <1>2 DEF InRun, RunOf, NotAhead, MessageTypes
  <2>4. QED
    BY Parts, <1>2, <1>3, <1>9, <2>1, <2>2, <2>3 DEF NotAhead
<1>23. OpensQuietly'
  BY Parts, <1>1, <1>2, <1>3, <1>4, <1>6, <1>7, <1>8, <1>9, <1>10 DEF OpensQuietly
<1>24. AtItsRun'
  <2>1. \A q \in 0 .. srv.run : Passed(q) => Passed(q)'
    BY <1>1, <1>5, <1>9 DEF Passed
  <2>2. Passed(r)'
    BY <1>2, <1>5, <1>9 DEF Passed
  <2>3. QED
    BY Parts, InRanges, <1>3, <1>5, <2>1, <2>2 DEF AtItsRun, Ours
<1>25. Answerable'
  BY Parts, <1>3, <1>5, <1>6, <1>7, <1>8, <1>9, <1>10 DEF Answerable, Accepted
<1>26. Untold'
  BY Parts, <1>1, <1>2, <1>3, <1>4, <1>5, <1>6, <1>9, <1>10 DEF Untold
<1>27. Pending'
  BY Parts, <1>3, <1>5, <1>8, <1>9, <1>10 DEF Pending, Accepted, RepliesKnown
<1>28. OneLive' /\ NotInDraft'
  <2>1. \A i \in Ids : Text(i) # {} /\ sent[i].run # 0 => tui.active = sent[i].run \/ Passed(sent[i].run)
    BY Parts DEF AtItsRun, Ours
  <2>2. \A i \in Ids : sent[i].state \notin {"sent", "applied", "busy"} => sent[i].run # 0
    BY Parts DEF SentWaits
  <2>3. \A i \in Ids : /\ Note("rejected", i) \in Wire => RunOf(Note("rejected", i)) = sent[i].run
                       /\ Note("removed", i) \in Wire => RunOf(Note("removed", i)) = sent[i].run
                       /\ Note("applied", i) \in Wire => RunOf(Note("applied", i)) = sent[i].run
    BY NoteFacts DEF RunOf, MessageTypes
  <2>4. \A m \in Wire' : m.type # "idle" => r <= RunOf(m)
    BY <1>2
  <2>5. \A i \in Ids : Text(i) # {} /\ MayReturn(i)' => MayReturn(i)
    <3>1. SUFFICES ASSUME NEW i \in Ids, Text(i) # {}, MayReturn(i)' PROVE MayReturn(i)
      OBVIOUS
    <3>2. CASE sent[i].state = "removed"
      <4>1. Removal(i)' /\ i \notin tui.tombs
        BY <1>3, <1>5, <3>1, <3>2 DEF MayReturn
      <4>2. Removal(i)
        BY <1>1, <1>5, <1>7, <1>8, <4>1 DEF Removal
      <4>3. r <= sent[i].run
        <5>1. CASE Serving("remove", i)
          BY Parts, InRanges, <1>2, <5>1 DEF ToldIsTrue
        <5>2. CASE Note("removed", i) \in Wire'
          <6>1. Note("removed", i).type = "removed" /\ Note("removed", i) \in Wire
            BY <1>1, <5>2, NoteFacts
          <6>2. QED
            BY <2>3, <2>4, <5>2, <6>1
        <5>3. CASE Yes("remove", i)
          <6>1. sent[i].run = srv.run \/ (srv.mode = "running" /\ sent[i].run + 1 = srv.run)
            BY Parts, <5>3 DEF AnsweredInTime
          <6>2. srv.mode = "running" => r < srv.run
            BY Parts, <1>2 DEF NotAhead
          <6>3. QED
            BY InRanges, <1>2, <6>1, <6>2
        <5>4. QED
          BY <1>7, <1>8, <4>1, <5>1, <5>2, <5>3 DEF Removal
      <4>4. QED
        BY InRanges, <1>2, <3>2, <4>1, <4>2, <4>3 DEF MayReturn
    <3>3. CASE sent[i].state = "rejected"
      BY <1>1, <1>3, <1>5, <3>1, <3>3 DEF MayReturn
    <3>4. QED
      BY <1>5, <3>1, <3>2, <3>3 DEF MayReturn
  <2>6. \A i \in Ids : Text(i) # {} /\ Live(i)' => Live(i)
    BY <1>3, <1>5, <1>9, <2>5 DEF Live
  <2>7. \A i \in Opens : i \in Ids /\ tui.active = sent[i].run /\ sent[i].run # 0 /\ sent[i].state # "removed"
    BY Parts DEF Answerable, Untold
  <2>8. \A i \in Opens : ~Live(i)'
    <3>1. SUFFICES ASSUME NEW i \in Opens PROVE ~Live(i)'
      OBVIOUS
    <3>2. sent[i].run = r
      BY Parts, <1>2, <2>7
    <3>3. ~(sent[i].state = "applied" \/ sent[i].state = "rejected")
      <4>1. ASSUME sent[i].state = "applied" \/ sent[i].state = "rejected" PROVE FALSE
        <5>1. \E m \in {Note("applied", i), Note("rejected", i)} : m \in Wire /\ RunOf(m) = sent[i].run
          BY Parts, <2>3, <2>7, <4>1 DEF Untold
        <5>a. PICK m \in {Note("applied", i), Note("rejected", i)} : m \in Wire /\ RunOf(m) = sent[i].run
          BY <5>1
        <5>2. m.type \in {"applied", "rejected"} /\ m.type \in InRun
          BY <5>a, NoteFacts DEF InRun
        <5>3. m \in Wire'
          BY <1>1, <1>2, <5>a, <5>2
        <5>4. QED
          BY InRanges, <1>2, <3>2, <5>a, <5>2, <5>3
      <4>2. QED
        BY <4>1
    <3>4. ~(sent[i].run = srv.run /\ srv.mode = "running")
      BY Parts, InRanges, <1>2, <3>2 DEF NotAhead
    <3>5. sent[i].state # "queued"
      BY <2>7, <3>4, Parts DEF SentWaits
    <3>6. QED
      BY <1>3, <1>5, <1>9, <2>7, <3>2, <3>3, <3>4, <3>5 DEF Live, MayReturn
  <2>9. \A i \in Opens : Live(i)
    BY DEF Live
  <2>10. QED
    <3>1. Opens \in SUBSET Ids /\ gaveUp' \subseteq Ids
      BY Parts, <1>10 DEF Types
    <3>2. QED
      BY Parts, <1>3, <1>5, <1>10, <2>6, <2>8, <2>9, <3>1, TextsComeBack
<1>29. Somewhere'
  <2>1. \A i \in Ids : Carries(i) => Carries(i)' \/ Text(i) \subseteq tui'.draft \/ Text(i) \subseteq tui'.lost
    <3>1. \A i \in Ids : i \in Opens => Text(i) \subseteq tui'.draft
      BY <1>3 DEF Texts
    <3>2. \A i \in Ids : i \in Faileds => Text(i) \subseteq tui'.lost
      BY <1>3 DEF Texts
    <3>3. \A i \in Ids : Removal(i) => Removal(i)'
      BY <1>4, <1>7, <1>8 DEF Removal
    <3>4. \A i \in Ids : i \notin tui.tombs => i \notin tui'.tombs
      BY <1>3
    <3>5. \A i \in Ids : Carries(i) /\ i \notin Opens /\ i \notin Faileds => Carries(i)'
      BY <1>4, <1>5, <1>8, <3>3, <3>4 DEF Carries
    <3>6. QED
      BY <3>1, <3>2, <3>5
  <2>2. QED
    BY Parts, <1>3, <1>5, <1>10, <2>1, CarriesOrBack
<1>30. QED
  BY <1>11, <1>12, <1>13, <1>14, <1>15, <1>16, <1>17, <1>18, <1>19, <1>20, <1>21, <1>22, <1>23, <1>24, <1>25, <1>26, <1>27, <1>28, <1>29 DEF TextInv, Known

\* What became of a message is heard, from a notification or a response.
Heard(type, id) ==
  /\ UNCHANGED <<typed, gaveUp, sent, calls, busy, srv>>
  /\ wire' \in Seq(NoteSet) /\ Wire' \subseteq Wire /\ InRunOrder'
  /\ \A n \in Wire : n \in Wire' \/ n = Note(type, id)
  /\ replies' \subseteq replies /\ Snapshots' = Snapshots
  /\ \A i : Yes("steer", i) => Yes("steer", i)' \/ (type = "queued" /\ i = id)
  /\ \A i : Yes("remove", i) => Yes("remove", i)' \/ (type = "removed" /\ i = id)
  /\ \A op, i : No(op, i) => No(op, i)'
  /\ id \in Ids /\ sent[id].run # 0
  /\ type = "queued" => sent[id].state \in Accepted
  /\ type # "queued" => sent[id].state = type

\* The client with a submission resolved.
Resolved(id, failed) ==
  /\ tui' \in Clients /\ SubsOK(tui') /\ SameRun(tui, tui')
  /\ Submitted' \subseteq Submitted /\ Opens' = Opens \ {id}
  /\ (Opens' # {} => Faileds' = failed)
  /\ (Opens' = {} => tui'.subs = {} /\ Faileds' = {})

\* Of those that failed, whose texts come back: all, or none yet.
Returning(failed) == IF Opens' = {} THEN failed ELSE {}

\* What is heard of a run that is over for the client.
LEMMA OutdatedText ==
  ASSUME TextInv, NEW type \in MessageTypes, NEW k, Heard(type, k), Outdated(tui, sent[k].run), tui.at = "open",
         type = "queued" => replies' = replies, tui' = Merge(tui, type, k)
  PROVE  TextInv'
<1>1. /\ tui' \in Clients /\ tui'.at = "open" /\ tui'.draft = tui.draft /\ tui'.subs = tui.subs
      /\ tui'.pending = tui.pending /\ tui'.tombs = tui.tombs /\ tui'.active = tui.active
      /\ tui'.completed = tui.completed
      /\ Opens' = Opens /\ Faileds' = Faileds /\ Submitted' = Submitted
      /\ tui'.lost = IF type = "removed" /\ k \notin tui.tombs THEN tui.lost \cup Text(k) ELSE tui.lost
  <2>1. tui \in Clients /\ Text(k) \subseteq Nat /\ k \in Nat
    BY Parts, MessageType DEF Heard, Types
  <2>2. QED
    BY <2>1, MergeOutdated DEF SameButTexts, SameSubs, Opens, Faileds, Submitted
<1>2. /\ wire' \in Seq(NoteSet) /\ Wire' \subseteq Wire
      /\ \A i \in Ids : /\ Note("queued", i) \in Wire => Note("queued", i) \in Wire' \/ (type = "queued" /\ i = k)
                        /\ Note("removed", i) \in Wire => Note("removed", i) \in Wire' \/ (type = "removed" /\ i = k)
                        /\ Note("applied", i) \in Wire => Note("applied", i) \in Wire' \/ (type = "applied" /\ i = k)
                        /\ Note("rejected", i) \in Wire => Note("rejected", i) \in Wire' \/ (type = "rejected" /\ i = k)
  BY NoteFacts DEF Heard
<1>3. /\ replies' \subseteq replies /\ Snapshots' = Snapshots
      /\ (\A op, i : (Yes(op, i)' => Yes(op, i)) /\ (No(op, i)' <=> No(op, i)))
      /\ (\A i : Yes("steer", i) => Yes("steer", i)' \/ (type = "queued" /\ i = k))
      /\ (\A i : Yes("remove", i) => Yes("remove", i)' \/ (type = "removed" /\ i = k))
  BY DEF Heard, Yes, No
<1>4. sent' = sent /\ Ids' = Ids /\ (\A i : Text(i)' = Text(i)) /\ (\A m : RunOf(m)' = RunOf(m))
  BY SameSent DEF Heard, MessagesKept
<1>5. calls' = calls /\ \A op, i : Asked(op, i)' <=> Asked(op, i)
  BY SameCalls DEF Heard
<1>6. busy' = busy /\ (Opening' <=> Opening) /\ \A op, i : Serving(op, i)' <=> Serving(op, i)
  BY SameBusy DEF Heard
<1>7. srv' = srv /\ typed' = typed /\ gaveUp' = gaveUp
  BY DEF Heard
<1>8. k \in Ids /\ sent[k].run # 0 /\ (type = "queued" => sent[k].state \in Accepted) /\ (type # "queued" => sent[k].state = type)
  BY DEF Heard
<1>9. \A i : Yes("steer", i) => Yes("steer", i)'
  BY <1>8 DEF Heard, Yes
<1>10. sent[k].state \in {"applied", "rejected"} /\ Text(k) # {} => k \notin Opens /\ k \notin Faileds /\ ~(type = "rejected" /\ Note("rejected", k) \in Wire)
  <2>1. ~(tui.active # 0 /\ tui.active = sent[k].run)
    BY Parts, <1>8 DEF NotAhead, Outdated
  <2>2. RunOf(Note("rejected", k)) = sent[k].run /\ Note("rejected", k).type \in InRun
    BY NoteFacts DEF RunOf, MessageTypes, InRun
  <2>3. Note("rejected", k) \in Wire => ~Passed(sent[k].run)
    BY Parts, InRanges, <1>8, <2>2 DEF Passed
  <2>4. Text(k) # {} => tui.active = sent[k].run \/ Passed(sent[k].run)
    BY Parts, <1>8 DEF AtItsRun, Ours
  <2>5. k \in Opens \/ k \in Faileds => tui.active # 0 /\ sent[k].run = tui.active
    BY Parts DEF Answerable
  <2>6. QED
    BY <1>8, <2>1, <2>3, <2>4, <2>5
<1>11. Types'
  BY Parts, <1>1, <1>2, <1>3, <1>4, <1>5, <1>6, <1>7, <1>8, <1>9, <1>10 DEF Types
<1>12. SentKnown'
  BY Parts, InRanges, <1>4, <1>7, <1>8, <1>10 DEF SentKnown
<1>13. ClientKnown'
  <2>1. Text(k) \subseteq 1 .. typed
    BY InRanges, <1>8
  <2>2. QED
    BY Parts, <1>1, InRanges, <1>4, <1>7, <1>8, <1>10, <2>1 DEF ClientKnown
<1>14. CallsKnown'
  BY Parts, <1>4, <1>5, <1>6, <1>7, <1>8, <1>10 DEF CallsKnown
<1>15. RepliesKnown'
  BY Parts, InRanges, <1>3, <1>4, <1>7, <1>8, <1>9, <1>10 DEF RepliesKnown
<1>16. WireKnown'
  BY Parts, InRanges, <1>2, <1>4, <1>7, <1>8, <1>10 DEF WireKnown, RunOf, MessageTypes
<1>17. SentWaits'
  BY Parts, InRanges, <1>4, <1>5, <1>7, <1>8, <1>10 DEF SentWaits, Accepted
<1>18. ToldIsTrue'
  BY Parts, InRanges, <1>2, <1>4, <1>6, <1>7, <1>8, <1>10 DEF ToldIsTrue, Accepted
<1>19. AnsweredTruly'
  BY Parts, <1>3, <1>4, <1>7, <1>8, <1>9, <1>10 DEF AnsweredTruly, Accepted
<1>20. AnsweredInTime'
  BY Parts, InRanges, <1>3, <1>4, <1>7, <1>8, <1>9, <1>10 DEF AnsweredInTime
<1>21. InRunOrder'
  BY DEF Heard
<1>22. NotAhead'
  BY Parts, <1>1, InRanges, <1>2, <1>4, <1>7, <1>8, <1>10 DEF NotAhead
<1>23. OpensQuietly'
  BY Parts, <1>1, <1>2, <1>3, <1>5, <1>6, <1>7, <1>8, <1>9, <1>10 DEF OpensQuietly
<1>24. AtItsRun'
  BY Parts, <1>1, InRanges, <1>2, <1>4, <1>7, <1>8, <1>10 DEF AtItsRun, Ours, Passed, InRun
<1>25. Answerable'
  BY Parts, <1>1, <1>3, <1>4, <1>5, <1>6, <1>7, <1>8, <1>9, <1>10 DEF Answerable, Accepted
<1>26. Untold'
  <2>1. \A i \in Opens \cup Faileds : i \in Ids /\ Text(i) # {}
    BY Parts DEF Answerable
  <2>2. QED
    BY Parts, <1>1, <1>2, <1>4, <1>5, <1>8, <1>10, <2>1 DEF Untold
<1>27. Pending'
  BY Parts, <1>1, <1>3, <1>4, <1>7, <1>8, <1>9, <1>10 DEF Pending, Accepted, RepliesKnown
<1>28. OneLive' /\ NotInDraft'
  <2>1. \A i \in Ids : Live(i)' => Live(i)
    BY Parts, <1>1, InRanges, <1>2, <1>3, <1>4, <1>6, <1>7, <1>8, <1>9, <1>10 DEF Live, MayReturn, Removal
  <2>2. QED
    BY Parts, <1>1, <1>4, <1>7, <1>8, <1>10, <2>1, LiveShrinks DEF Types
<1>29. Somewhere'
  <2>1. \A i \in Ids : Removal(i)' => Removal(i)
    BY <1>2, <1>3, <1>6 DEF Removal
  <2>2. \A i \in Ids : Removal(i) => Removal(i)' \/ (type = "removed" /\ i = k)
    BY <1>2, <1>3, <1>6 DEF Removal
  <2>3. \A i \in Ids : Carries(i) => Carries(i)' \/ Text(i) \subseteq tui'.lost
    <3>1. \A i \in Ids : Text(i) = {} => Text(i) \subseteq tui'.lost
      OBVIOUS
    <3>2. \A i \in Ids : i # k /\ Carries(i) => Carries(i)'
      BY <1>1, <1>2, <1>3, <1>4, <2>2 DEF Carries
    <3>3. Text(k) # {} /\ type # "removed" /\ Carries(k) => Carries(k)'
      BY <1>1, <1>2, <1>3, <1>4, <1>8, <1>10, <2>2 DEF Carries
    <3>4. type = "removed" /\ Carries(k) => Carries(k)' \/ Text(k) \subseteq tui'.lost
      BY <1>1, <1>2, <1>3, <1>4, <1>8, <2>2 DEF Carries
    <3>5. QED
      BY <3>1, <3>2, <3>3, <3>4
  <2>4. QED
    BY Parts, <1>1, <1>4, <1>7, <2>3, CarriesOrBack
<1>30. QED
  BY <1>11, <1>12, <1>13, <1>14, <1>15, <1>16, <1>17, <1>18, <1>19, <1>20, <1>21, <1>22, <1>23, <1>24, <1>25, <1>26, <1>27, <1>28, <1>29 DEF TextInv, Known

\* The client hears that the daemon has taken a message.
LEMMA TakenText ==
  ASSUME TextInv, NEW k, NEW back, Heard("queued", k), Resolved(k, Faileds \ {k}), back = (IF Opens' = {} THEN Faileds \ {k} ELSE {}), tui.at = "open",
         tui'.draft = tui.draft \cup Texts(back), tui'.tombs = tui.tombs, tui'.lost = tui.lost, tui'.pending \subseteq tui.pending \cup {k}
  PROVE  TextInv'
<1>1. /\ tui' \in Clients /\ tui'.at = "open" /\ tui'.lost = tui.lost /\ tui'.active = tui.active /\ tui'.completed = tui.completed
      /\ Opens' \subseteq Ids /\ Faileds' \subseteq Ids /\ Submitted' \subseteq Submitted
      /\ Opens' = Opens \ {k} /\ Faileds' \subseteq Faileds \ {k} /\ (tui'.subs # {} => Opens' # {})
      /\ (Opens' # {} => Faileds' = Faileds \ {k} /\ back = {}) /\ (Opens' = {} => back = Faileds \ {k} /\ Submitted' = {})
      /\ (\A s, u \in tui'.subs : s.id = u.id => s = u) /\ back \subseteq Ids
      /\ tui'.draft = tui.draft \cup Texts(back) /\ tui'.tombs = tui.tombs /\ tui'.pending \subseteq tui.pending \cup {k}
  <2>1. /\ Faileds' \subseteq Faileds \ {k} /\ back \subseteq Faileds \ {k}
        /\ (Opens' # {} => Faileds' = Faileds \ {k} /\ back = {}) /\ (Opens' = {} => back = Faileds \ {k} /\ tui'.subs = {})
    BY DEF Resolved
  <2>2. Opens' = {} => Submitted' = {}
    BY <2>1 DEF Submitted, SubIds
  <2>3. QED
    BY Parts, <2>1, <2>2 DEF Resolved, SameRun, SubsOK, Opens
<1>2. /\ wire' \in Seq(NoteSet) /\ Wire' \subseteq Wire
      /\ \A i \in Ids : /\ Note("queued", i) \in Wire => Note("queued", i) \in Wire' \/ i = k
                        /\ Note("removed", i) \in Wire => Note("removed", i) \in Wire'
                        /\ Note("applied", i) \in Wire => Note("applied", i) \in Wire'
                        /\ Note("rejected", i) \in Wire => Note("rejected", i) \in Wire'
  BY NoteFacts DEF Heard
<1>3. /\ replies' \subseteq replies /\ Snapshots' = Snapshots
      /\ (\A op, i : (Yes(op, i)' => Yes(op, i)) /\ (No(op, i)' <=> No(op, i)))
      /\ (\A i : Yes("steer", i) => Yes("steer", i)' \/ i = k)
      /\ (\A i : Yes("remove", i) => Yes("remove", i)')
  BY DEF Heard, Yes, No
<1>4. sent' = sent /\ Ids' = Ids /\ (\A i : Text(i)' = Text(i)) /\ (\A m : RunOf(m)' = RunOf(m))
  BY SameSent DEF Heard, MessagesKept
<1>5. calls' = calls /\ \A op, i : Asked(op, i)' <=> Asked(op, i)
  BY SameCalls DEF Heard
<1>6. busy' = busy /\ (Opening' <=> Opening) /\ \A op, i : Serving(op, i)' <=> Serving(op, i)
  BY SameBusy DEF Heard
<1>7. srv' = srv /\ typed' = typed /\ gaveUp' = gaveUp
  BY DEF Heard
<1>8. k \in Ids /\ sent[k].run # 0 /\ sent[k].state \in Accepted
  BY DEF Heard
<1>9. Types'
  BY Parts, <1>1, <1>2, <1>3, <1>4, <1>5, <1>6, <1>7, <1>8 DEF Types
<1>10. SentKnown'
  BY Parts, InRanges, <1>4, <1>7, <1>8 DEF SentKnown
<1>11. ClientKnown'
  <2>1. Texts(back) \subseteq 1 .. typed
    BY <1>1, InRanges DEF Texts
  <2>2. QED
    BY Parts, <1>1, InRanges, <1>4, <1>7, <1>8, <2>1 DEF ClientKnown
<1>12. CallsKnown'
  BY Parts, <1>4, <1>5, <1>6, <1>7, <1>8 DEF CallsKnown
<1>13. RepliesKnown'
  BY Parts, InRanges, <1>3, <1>4, <1>7, <1>8 DEF RepliesKnown
<1>14. WireKnown'
  BY Parts, InRanges, <1>2, <1>4, <1>7, <1>8 DEF WireKnown, RunOf, MessageTypes
<1>15. SentWaits'
  BY Parts, InRanges, <1>4, <1>5, <1>7, <1>8 DEF SentWaits, Accepted
<1>16. ToldIsTrue'
  BY Parts, InRanges, <1>2, <1>4, <1>6, <1>7, <1>8 DEF ToldIsTrue, Accepted
<1>17. AnsweredTruly'
  BY Parts, <1>3, <1>4, <1>7, <1>8 DEF AnsweredTruly, Accepted
<1>18. AnsweredInTime'
  BY Parts, InRanges, <1>3, <1>4, <1>7, <1>8 DEF AnsweredInTime
<1>19. InRunOrder'
  BY DEF Heard
<1>20. NotAhead'
  BY Parts, <1>1, InRanges, <1>2, <1>4, <1>7, <1>8 DEF NotAhead
<1>21. OpensQuietly'
  BY Parts, <1>1, <1>2, <1>3, <1>5, <1>6, <1>7, <1>8 DEF OpensQuietly
<1>22. AtItsRun'
  BY Parts, <1>1, InRanges, <1>2, <1>4, <1>7, <1>8 DEF AtItsRun, Ours, Passed, InRun
<1>23. Answerable'
  BY Parts, <1>1, <1>3, <1>4, <1>5, <1>6, <1>7, <1>8 DEF Answerable, Accepted
<1>24. Untold'
  BY Parts, <1>1, <1>2, <1>4, <1>5, <1>7, <1>8 DEF Untold
<1>25. Pending'
  BY Parts, <1>1, <1>3, <1>4, <1>7, <1>8 DEF Pending, Accepted, RepliesKnown
<1>26. OneLive' /\ NotInDraft'
  <2>1. \A i \in Ids : MayReturn(i)' => MayReturn(i)
    BY <1>1, <1>2, <1>3, <1>4, <1>6 DEF MayReturn, Removal
  <2>2. \A i \in Ids : Live(i)' => Live(i)
    BY <1>1, <1>4, <1>7, <2>1 DEF Live
  <2>3. \A i \in back : i \in gaveUp' \/ (Live(i) /\ ~Live(i)')
    <3>1. SUFFICES ASSUME NEW i \in back, i \notin gaveUp PROVE Live(i) /\ ~Live(i)'
      BY <1>7
    <3>2. i \in Faileds /\ Opens' = {} /\ Faileds' = {} /\ sent[i].state = "refused"
      BY Parts, <1>1, <3>1 DEF Answerable, SubIds, Submitted, Faileds, Opens, InState
    <3>3. QED
      BY <1>4, <3>2 DEF Live, MayReturn
  <2>4. QED
    <3>1. back \in SUBSET Ids /\ gaveUp' \subseteq Ids
      BY Parts, <1>1, <1>7 DEF Types
    <3>2. QED
      BY Parts, <1>1, <1>4, <1>7, <2>2, <2>3, <3>1, TextsComeBack
<1>27. Somewhere'
  <2>1. \A i \in Ids : Removal(i)' => Removal(i)
    BY <1>2, <1>3, <1>6 DEF Removal
  <2>2. \A i \in Ids : Removal(i) => Removal(i)'
    BY <1>2, <1>3, <1>6 DEF Removal
  <2>3. \A i \in Ids : Carries(i) => Carries(i)' \/ Text(i) \subseteq tui'.draft
    <3>1. \A i \in Ids : i \in Faileds /\ i # k => i \in Faileds' \/ Text(i) \subseteq tui'.draft
      BY <1>1 DEF Texts
    <3>2. \A i \in Ids : Carries(i) /\ i \notin Opens /\ i \notin Faileds => Carries(i)'
      BY <1>1, <1>2, <1>3, <1>4, <2>2 DEF Carries
    <3>3. k \in Opens \/ k \in Faileds => Carries(k)'
      BY Parts, <1>1, <1>2, <1>4, <1>8 DEF Carries, Untold, Accepted
    <3>4. QED
      BY <1>1, <3>1, <3>2, <3>3 DEF Carries
  <2>4. QED
    BY Parts, <1>1, <1>4, <1>7, <2>3, CarriesOrBack
<1>28. QED
  BY <1>9, <1>10, <1>11, <1>12, <1>13, <1>14, <1>15, <1>16, <1>17, <1>18, <1>19, <1>20, <1>21, <1>22, <1>23, <1>24, <1>25, <1>26, <1>27 DEF TextInv, Known

\* The client hears what became of a message.
LEMMA DecidedHeard ==
  ASSUME TextInv, NEW type \in {"removed", "applied", "rejected"}, NEW k, NEW back, Heard(type, k), Resolved(k, Faileds \ {k}), ~Outdated(tui, sent[k].run),
         back = (IF Opens' = {} THEN Faileds \ {k} ELSE {}), tui.at = "open",
         type # "applied" => Removal(k) \/ Note(type, k) \in Wire,
         tui'.draft = tui.draft \cup Texts(back) \cup (IF type # "applied" /\ k \notin tui.tombs THEN Text(k) ELSE {}), tui'.tombs = tui.tombs \cup {k}, tui'.lost = tui.lost, tui'.pending = tui.pending \ {k}
  PROVE  TextInv'
<1>1. /\ tui' \in Clients /\ tui'.at = "open" /\ tui'.lost = tui.lost /\ tui'.active = tui.active /\ tui'.completed = tui.completed
      /\ Opens' \subseteq Ids /\ Faileds' \subseteq Ids /\ Submitted' \subseteq Submitted
      /\ Opens' = Opens \ {k} /\ Faileds' \subseteq Faileds \ {k} /\ (tui'.subs # {} => Opens' # {})
      /\ (Opens' # {} => Faileds' = Faileds \ {k} /\ back = {}) /\ (Opens' = {} => back = Faileds \ {k} /\ Submitted' = {})
      /\ (\A s, u \in tui'.subs : s.id = u.id => s = u) /\ back \subseteq Ids
      /\ tui'.draft = tui.draft \cup Texts(back) \cup (IF type # "applied" /\ k \notin tui.tombs THEN Text(k) ELSE {}) /\ tui'.tombs = tui.tombs \cup {k} /\ tui'.pending = tui.pending \ {k}
  <2>1. /\ Faileds' \subseteq Faileds \ {k} /\ back \subseteq Faileds \ {k}
        /\ (Opens' # {} => Faileds' = Faileds \ {k} /\ back = {}) /\ (Opens' = {} => back = Faileds \ {k} /\ tui'.subs = {})
    BY DEF Resolved
  <2>2. Opens' = {} => Submitted' = {}
    BY <2>1 DEF Submitted, SubIds
  <2>3. QED
    BY Parts, <2>1, <2>2 DEF Resolved, SameRun, SubsOK, Opens
<1>2. /\ wire' \in Seq(NoteSet) /\ Wire' \subseteq Wire
      /\ \A i \in Ids : /\ Note("queued", i) \in Wire => Note("queued", i) \in Wire' \/ (type = "queued" /\ i = k)
                        /\ Note("removed", i) \in Wire => Note("removed", i) \in Wire' \/ (type = "removed" /\ i = k)
                        /\ Note("applied", i) \in Wire => Note("applied", i) \in Wire' \/ (type = "applied" /\ i = k)
                        /\ Note("rejected", i) \in Wire => Note("rejected", i) \in Wire' \/ (type = "rejected" /\ i = k)
  BY NoteFacts DEF Heard
<1>3. /\ replies' \subseteq replies /\ Snapshots' = Snapshots
      /\ (\A op, i : (Yes(op, i)' => Yes(op, i)) /\ (No(op, i)' <=> No(op, i)))
      /\ (\A i : Yes("steer", i) => Yes("steer", i)' \/ (type = "queued" /\ i = k))
      /\ (\A i : Yes("remove", i) => Yes("remove", i)' \/ (type = "removed" /\ i = k))
  BY DEF Heard, Yes, No
<1>4. sent' = sent /\ Ids' = Ids /\ (\A i : Text(i)' = Text(i)) /\ (\A m : RunOf(m)' = RunOf(m))
  BY SameSent DEF Heard, MessagesKept
<1>5. calls' = calls /\ \A op, i : Asked(op, i)' <=> Asked(op, i)
  BY SameCalls DEF Heard
<1>6. busy' = busy /\ (Opening' <=> Opening) /\ \A op, i : Serving(op, i)' <=> Serving(op, i)
  BY SameBusy DEF Heard
<1>7. srv' = srv /\ typed' = typed /\ gaveUp' = gaveUp
  BY DEF Heard
<1>8. k \in Ids /\ sent[k].run # 0 /\ sent[k].state = type
  BY DEF Heard
<1>9. Types'
  BY Parts, <1>1, <1>2, <1>3, <1>4, <1>5, <1>6, <1>7, <1>8 DEF Types
<1>10. SentKnown'
  BY Parts, InRanges, <1>4, <1>7, <1>8 DEF SentKnown
<1>11. ClientKnown'
  <2>1. Texts(back) \subseteq 1 .. typed
    BY <1>1, InRanges DEF Texts
  <2>2. Text(k) \subseteq 1 .. typed
    BY InRanges, <1>8
  <2>3. QED
    BY Parts, <1>1, InRanges, <1>4, <1>7, <1>8, <2>1, <2>2 DEF ClientKnown
<1>12. CallsKnown'
  BY Parts, <1>4, <1>5, <1>6, <1>7, <1>8 DEF CallsKnown
<1>13. RepliesKnown'
  BY Parts, InRanges, <1>3, <1>4, <1>7, <1>8 DEF RepliesKnown
<1>14. WireKnown'
  BY Parts, InRanges, <1>2, <1>4, <1>7, <1>8 DEF WireKnown, RunOf, MessageTypes
<1>15. SentWaits'
  BY Parts, InRanges, <1>4, <1>5, <1>7, <1>8 DEF SentWaits, Accepted
<1>16. ToldIsTrue'
  BY Parts, InRanges, <1>2, <1>4, <1>6, <1>7, <1>8 DEF ToldIsTrue, Accepted
<1>17. AnsweredTruly'
  BY Parts, <1>3, <1>4, <1>7, <1>8 DEF AnsweredTruly, Accepted
<1>18. AnsweredInTime'
  BY Parts, InRanges, <1>3, <1>4, <1>7, <1>8 DEF AnsweredInTime
<1>19. InRunOrder'
  BY DEF Heard
<1>20. NotAhead'
  BY Parts, <1>1, InRanges, <1>2, <1>4, <1>7, <1>8 DEF NotAhead
<1>21. OpensQuietly'
  BY Parts, <1>1, <1>2, <1>3, <1>5, <1>6, <1>7, <1>8 DEF OpensQuietly
<1>22. AtItsRun'
  BY Parts, <1>1, InRanges, <1>2, <1>4, <1>7, <1>8 DEF AtItsRun, Ours, Passed, InRun
<1>23. Answerable'
  BY Parts, <1>1, <1>3, <1>4, <1>5, <1>6, <1>7, <1>8 DEF Answerable, Accepted
<1>24. Untold'
  <2>1. \A i \in Opens' \cup Faileds' : i \in Opens \cup Faileds /\ i # k /\ i \in Ids
    BY <1>1
  <2>2. QED
    BY Parts, <1>1, <1>2, <1>4, <1>5, <2>1 DEF Untold
<1>25. Pending'
  BY Parts, <1>1, <1>3, <1>4, <1>7, <1>8 DEF Pending, Accepted, RepliesKnown
<1>26. OneLive' /\ NotInDraft'
  <2>1. \A i \in Ids : MayReturn(i)' => MayReturn(i)
    BY <1>1, <1>2, <1>3, <1>4, <1>6 DEF MayReturn, Removal
  <2>2. \A i \in Ids : Live(i)' => Live(i)
    BY <1>1, <1>4, <1>7, <2>1 DEF Live
  <2>3. \A i \in back : i \in gaveUp' \/ (Live(i) /\ ~Live(i)')
    <3>1. SUFFICES ASSUME NEW i \in back, i \notin gaveUp PROVE Live(i) /\ ~Live(i)'
      BY <1>7
    <3>2. i \in Faileds /\ Opens' = {} /\ Faileds' = {} /\ sent[i].state = "refused"
      BY Parts, <1>1, <3>1 DEF Answerable, SubIds, Submitted, Faileds, Opens, InState
    <3>3. QED
      BY <1>4, <3>2 DEF Live, MayReturn
  <2>4. type # "applied" /\ k \notin tui.tombs => Live(k) /\ ~Live(k)'
    <3>1. type = "removed" => ~(Note("rejected", k) \in Wire) /\ tui.active <= sent[k].run
      BY Parts, InRanges, <1>8 DEF Outdated, ToldIsTrue
    <3>2. type # "applied" => ~Live(k)'
      <4>1. k \notin Opens' /\ k \notin Faileds' /\ k \in tui'.tombs /\ sent'[k].state = type
        BY <1>1, <1>4, <1>8
      <4>2. QED
        BY <4>1 DEF Live, MayReturn
    <3>3. (type = "removed" \/ type = "rejected") /\ Removal(k) => type = "removed"
      BY Parts, <1>8 DEF Removal, ToldIsTrue, AnsweredTruly
    <3>4. QED
      BY <1>8, <3>1, <3>2, <3>3 DEF Live, MayReturn, Removal
  <2>5. QED
    <3> DEFINE more == back \cup (IF type # "applied" /\ k \notin tui.tombs THEN {k} ELSE {})
    <3>1. more \in SUBSET Ids /\ gaveUp' \subseteq Ids
      BY Parts, <1>1, <1>7, <1>8 DEF Types
    <3>2. Texts(more) = Texts(back) \cup (IF type # "applied" /\ k \notin tui.tombs THEN Text(k) ELSE {})
      BY DEF Texts
    <3>3. \A i \in more : i \in gaveUp' \/ (Live(i) /\ ~Live(i)')
      BY <2>3, <2>4
    <3> HIDE DEF more
    <3>4. QED
      BY Parts, <1>1, <1>4, <1>7, <2>2, <3>1, <3>2, <3>3, TextsComeBack
<1>27. Somewhere'
  <2>1. \A i \in Ids : Removal(i)' => Removal(i)
    BY <1>2, <1>3, <1>6 DEF Removal
  <2>2. \A i \in Ids : Removal(i) => Removal(i)' \/ (type = "removed" /\ i = k)
    BY <1>2, <1>3, <1>6 DEF Removal
  <2>3. \A i \in Ids : Carries(i) => Carries(i)' \/ Text(i) \subseteq tui'.draft
    <3>1. \A i \in Ids : i \in Faileds /\ i # k => i \in Faileds' \/ Text(i) \subseteq tui'.draft
      BY <1>1 DEF Texts
    <3>2. \A i \in Ids : i # k /\ Carries(i) /\ i \notin Opens /\ i \notin Faileds => Carries(i)'
      BY <1>1, <1>2, <1>3, <1>4, <2>2 DEF Carries
    <3>3. Carries(k) => Carries(k)' \/ Text(k) \subseteq tui'.draft
      <4>1. CASE type = "applied"
        BY <1>4, <1>8, <4>1 DEF Carries
      <4>2. CASE type # "applied"
        <5>1. k \in Opens \/ k \in Faileds => k \notin tui.tombs
          BY Parts DEF Untold
        <5>2. Carries(k) => k \notin tui.tombs
          BY <1>8, <4>2, <5>1 DEF Carries
        <5>3. QED
          BY <1>1, <4>2, <5>2
      <4>3. QED
        BY <4>1, <4>2
    <3>4. QED
      BY <1>1, <3>1, <3>2, <3>3, ZenonT(40) DEF Carries
  <2>4. QED
    BY Parts, <1>1, <1>4, <1>7, <2>3, CarriesOrBack
<1>28. QED
  BY <1>9, <1>10, <1>11, <1>12, <1>13, <1>14, <1>15, <1>16, <1>17, <1>18, <1>19, <1>20, <1>21, <1>22, <1>23, <1>24, <1>25, <1>26, <1>27 DEF TextInv, Known

\* A message's notification is handled.
LEMMA NoteHeard ==
  ASSUME TextInv, HandleNote, Head(wire).type \in MessageTypes
  PROVE  LET n == Head(wire)
         IN /\ Heard(n.type, n.of) /\ n = Note(n.type, n.of) /\ n \in Wire /\ replies' = replies
<1> PICK n : n = Head(wire)
  OBVIOUS
<1>1. /\ Types /\ Known /\ WireKnown /\ ToldIsTrue /\ InRunOrder
  BY DEF TextInv, Known
<1>2. /\ wire' \in Seq(NoteSet) /\ n \in NoteSet /\ n \in Wire /\ Wire' \subseteq Wire
      /\ (\A m \in Wire : m = n \/ m \in Wire') /\ InRunOrder'
  BY <1>1, HandledFacts DEF HandleNote
<1>3. n = Note(n.type, n.of)
  BY <1>2 DEF NoteSet, Note
<1>4. n.of \in Ids /\ sent[n.of].run # 0
  <2>1. n.type # "idle"
    BY DEF MessageTypes
  <2>2. n.of \in Ids /\ RunOf(n) \in 1 .. srv.run /\ RunOf(n) = sent[n.of].run /\ srv.run \in Nat
    BY <1>1, <1>2, <2>1, Ranges DEF WireKnown, RunOf
  <2>3. QED
    BY <2>2
<1>5. IF n.type = "queued" THEN sent[n.of].state \in Accepted ELSE sent[n.of].state = n.type
  BY <1>1, <1>2, <1>3, <1>4 DEF ToldIsTrue, MessageTypes
<1>6. replies' = replies /\ UNCHANGED <<typed, gaveUp, sent, calls, busy, srv>>
  BY DEF HandleNote
<1>7. QED
  BY <1>2, <1>3, <1>4, <1>5, <1>6, SameReplies DEF Heard

\* A submission that counts as taken.
LEMMA OneResolved ==
  ASSUME TextInv, NEW k \in Ids
  PROVE  LET u == Resolve(tui, k, "ok")
         IN /\ u \in Clients /\ SubsOK(u) /\ SameButTexts(tui, u) /\ u.lost = tui.lost
            /\ SubIds(u) \subseteq Submitted /\ InState(u, "open") = Opens \ {k}
            /\ InState(u, "open") # {} => InState(u, "failed") = Faileds \ {k} /\ u.draft = tui.draft
            /\ InState(u, "open") = {} => /\ u.subs = {} /\ InState(u, "failed") = {}
                                         /\ u.draft = tui.draft \cup Texts(Faileds \ {k})
<1>1. Types /\ Known /\ Answerable
  BY DEF TextInv
<1>2. /\ tui \in Clients /\ SubsOK(tui) /\ k \in Nat
      /\ \A i \in Faileds \cup {k} : Text(i) \subseteq Nat
  BY <1>1, ClientFits, ClientKnows, MessageType
<1>3. (Faileds \ {k}) \cup {} = Faileds \ {k}
  OBVIOUS
<1>4. QED
  BY <1>2, <1>3, ResolveFacts DEF Opens, Faileds, Submitted

\* What is heard of a message that counts is merged.
LEMMA Merged ==
  ASSUME TextInv, NEW k \in Ids, NEW type \in MessageTypes, ~Outdated(tui, sent[k].run),
         tui' = Merge(tui, type, k)
  PROVE  /\ Resolved(k, Faileds \ {k}) /\ tui'.lost = tui.lost
         /\ type = "queued" => /\ tui'.draft = tui.draft \cup Texts(Returning(Faileds \ {k})) /\ tui'.tombs = tui.tombs
                               /\ tui'.pending \subseteq tui.pending \cup {k}
         /\ type # "queued" =>
              /\ tui'.draft = tui.draft \cup Texts(Returning(Faileds \ {k}))
                                \cup (IF type # "applied" /\ k \notin tui.tombs THEN Text(k) ELSE {})
              /\ tui'.tombs = tui.tombs \cup {k} /\ tui'.pending = tui.pending \ {k}
<1> DEFINE u == Resolve(tui, k, "ok")
<1>1. Types /\ Known /\ Answerable
  BY DEF TextInv
<1>2. tui \in Clients /\ Text(k) \subseteq Nat /\ k \in Nat
  BY <1>1, ClientFits, MessageType
<1>3. /\ u \in Clients /\ SubsOK(u) /\ SameButTexts(tui, u) /\ u.lost = tui.lost
      /\ SubIds(u) \subseteq Submitted /\ InState(u, "open") = Opens \ {k}
      /\ InState(u, "open") # {} => InState(u, "failed") = Faileds \ {k} /\ u.draft = tui.draft
      /\ InState(u, "open") = {} => /\ u.subs = {} /\ InState(u, "failed") = {}
                                   /\ u.draft = tui.draft \cup Texts(Faileds \ {k})
  BY OneResolved
<1>4. /\ tui' \in Clients /\ SameRun(tui, tui') /\ SameSubs(u, tui') /\ tui'.lost = tui.lost
      /\ type = "queued" =>
           /\ tui'.pending = IF k \in tui.tombs THEN tui.pending ELSE tui.pending \cup {k}
           /\ tui'.tombs = tui.tombs /\ tui'.draft = u.draft
      /\ type # "queued" =>
           /\ tui'.pending = tui.pending \ {k} /\ tui'.tombs = tui.tombs \cup {k}
           /\ tui'.draft = IF type \in {"removed", "rejected"} /\ k \notin tui.tombs
                           THEN u.draft \cup Text(k) ELSE u.draft
  <2>1. u \in Clients /\ SameButTexts(tui, u) /\ u.lost = tui.lost
    BY <1>3
  <2> DEFINE v == Merge(tui, type, k)
  <2>2. /\ v \in Clients /\ SameRun(tui, v) /\ SameSubs(u, v) /\ v.lost = tui.lost
        /\ type = "queued" =>
             /\ v.pending = IF k \in tui.tombs THEN tui.pending ELSE tui.pending \cup {k}
             /\ v.tombs = tui.tombs /\ v.draft = u.draft
        /\ type # "queued" =>
             /\ v.pending = tui.pending \ {k} /\ v.tombs = tui.tombs \cup {k}
             /\ v.draft = IF type \in {"removed", "rejected"} /\ k \notin tui.tombs
                          THEN u.draft \cup Text(k) ELSE u.draft
    BY <1>2, <2>1, MergeFacts, ZenonT(30)
  <2> HIDE DEF u, v
  <2>3. tui' = v
    BY DEF v
  <2>4. QED
    BY <2>2, <2>3
<1> HIDE DEF u
<1>5. Opens' = Opens \ {k} /\ Submitted' \subseteq Submitted /\ Faileds' = InState(u, "failed") /\ tui'.subs = u.subs
  BY <1>3, <1>4 DEF SameSubs, Opens, Faileds, Submitted
<1>6. u.draft = tui.draft \cup Texts(Returning(Faileds \ {k}))
  BY <1>3, <1>5 DEF Texts, Returning
<1>7. Resolved(k, Faileds \ {k})
  <2>1. SubsOK(tui')
    BY <1>3, <1>4, <1>5 DEF SubsOK, Opens, SameRun
  <2>2. QED
    BY <1>3, <1>4, <1>5, <2>1 DEF Resolved
<1>8. QED
  BY <1>4, <1>6, <1>7 DEF MessageTypes

\* What became of a message, from its notification.
LEMMA MessageHandled ==
  ASSUME TextInv, HandleNote, tui.at = "open", Head(wire).type \in MessageTypes
  PROVE  TextInv'
<1> PICK n, t, k, back :
      n = Head(wire) /\ t = n.type /\ k = n.of /\ back = Returning(Faileds \ {k})
  OBVIOUS
<1>1. Heard(t, k) /\ n = Note(t, k) /\ n \in Wire /\ replies' = replies /\ k \in Ids /\ t \in MessageTypes
  BY NoteHeard DEF Heard
<1>2. tui' = Merge(tui, t, k)
  BY DEF HandleNote, Handled, MessageTypes
<1>3. CASE Outdated(tui, sent[k].run)
  BY <1>1, <1>2, <1>3, OutdatedText
<1>b. back = (IF Opens' = {} THEN Faileds \ {k} ELSE {})
  BY DEF Returning
<1>4. CASE ~Outdated(tui, sent[k].run)
  <2>0. /\ Resolved(k, Faileds \ {k}) /\ tui'.lost = tui.lost
        /\ t = "queued" => /\ tui'.draft = tui.draft \cup Texts(back) /\ tui'.tombs = tui.tombs
                           /\ tui'.pending \subseteq tui.pending \cup {k}
        /\ t # "queued" =>
             /\ tui'.draft = tui.draft \cup Texts(back)
                               \cup (IF t # "applied" /\ k \notin tui.tombs THEN Text(k) ELSE {})
             /\ tui'.tombs = tui.tombs \cup {k} /\ tui'.pending = tui.pending \ {k}
    BY <1>1, <1>2, <1>4, Merged, ZenonT(30)
  <2>1. CASE t = "queued"
    <3>1. Heard("queued", k)
      BY <1>1, <2>1
    <3>2. QED
      BY <1>b, <2>0, <2>1, <3>1, TakenText
  <2>2. CASE t # "queued"
    <3>1. t \in {"removed", "applied", "rejected"} /\ Note(t, k) \in Wire
      BY <1>1, <2>2 DEF MessageTypes
    <3>2. QED
      BY <1>1, <1>b, <1>4, <2>0, <2>2, <3>1, DecidedHeard
  <2>3. QED
    BY <2>1, <2>2
<1>5. QED
  BY <1>3, <1>4

\* The response x is handled.
ReplyHandled(x) ==
  /\ x \in replies /\ replies' = replies \ {x} /\ tui' = Reply(x)
  /\ UNCHANGED <<typed, gaveUp, sent, calls, busy, wire, srv>>

\* A response is a snapshot, or says yes or no.
LEMMA ReplyFacts ==
  ASSUME TextInv, NEW x, ReplyHandled(x), x.op # "attach"
  PROVE  /\ tui.at = "open" /\ Snapshots' = Snapshots /\ x.op \in {"steer", "send", "remove", "cancel"}
         /\ x.ok => Yes(x.op, x.id)
         /\ ~x.ok => No(x.op, x.id)
         /\ \A op, i : Yes(op, i)' <=> Yes(op, i) /\ ~(x.ok /\ op = x.op /\ i = x.id)
         /\ \A op, i : No(op, i)' <=> No(op, i) /\ ~(~x.ok /\ op = x.op /\ i = x.id)
<1>1. replies \subseteq ReplySet /\ OpensQuietly
  BY DEF TextInv, Types
<1>2. x \in replies /\ replies' = replies \ {x} /\ x \in ReplySet
  BY <1>1 DEF ReplyHandled
<1>3. x \in [op : {"steer", "send", "remove", "cancel"}, id : Nat, ok : BOOLEAN]
  BY <1>2 DEF ReplySet
<1>4. x = [op |-> x.op, id |-> x.id, ok |-> x.ok] /\ x.ok \in BOOLEAN /\ x.op \in {"steer", "send", "remove", "cancel"}
  BY <1>3
<1>5. (x.ok => Yes(x.op, x.id)) /\ (~x.ok => No(x.op, x.id))
  <2>1. CASE x.ok = TRUE
    BY <1>2, <1>4, <2>1 DEF Yes
  <2>2. CASE x.ok = FALSE
    BY <1>2, <1>4, <2>2 DEF No
  <2>3. QED
    BY <1>4, <2>1, <2>2
<1>6. \A op, i : Yes(op, i)' <=> Yes(op, i) /\ ~(x.ok /\ op = x.op /\ i = x.id)
  <2>1. \A op, i : [op |-> op, id |-> i, ok |-> TRUE] = x <=> x.ok = TRUE /\ op = x.op /\ i = x.id
    BY <1>4
  <2>2. QED
    BY <1>2, <1>4, <2>1 DEF Yes
<1>7. \A op, i : No(op, i)' <=> No(op, i) /\ ~(~x.ok /\ op = x.op /\ i = x.id)
  <2>1. \A op, i : [op |-> op, id |-> i, ok |-> FALSE] = x <=> x.ok = FALSE /\ op = x.op /\ i = x.id
    BY <1>4
  <2>2. QED
    BY <1>2, <1>4, <2>1 DEF No
<1>8. Snapshots' = Snapshots
  BY <1>2 DEF Snapshots
<1>9. tui.at = "open"
  BY <1>1, <1>5 DEF OpensQuietly
<1>10. QED
  BY <1>4, <1>5, <1>6, <1>7, <1>8, <1>9

\* A response that says what became of a message.
LEMMA ReplyHeard ==
  ASSUME TextInv, NEW x, ReplyHandled(x), x.op \in {"steer", "remove"}, x.ok
  PROVE  Heard(IF x.op = "steer" THEN "queued" ELSE "removed", x.id)
<1> PICK t : t = IF x.op = "steer" THEN "queued" ELSE "removed"
  OBVIOUS
<1>1. /\ Types /\ Known /\ RepliesKnown /\ AnsweredTruly /\ InRunOrder /\ SentWaits
  BY DEF TextInv, Known
<1>2. /\ x.op # "attach" /\ Snapshots' = Snapshots /\ Yes(x.op, x.id)
      /\ \A op, i : Yes(op, i)' <=> Yes(op, i) /\ ~(op = x.op /\ i = x.id)
      /\ \A op, i : No(op, i)' <=> No(op, i)
  BY ReplyFacts
<1>3. /\ UNCHANGED <<typed, gaveUp, sent, calls, busy, srv>> /\ wire' = wire /\ Wire' = Wire
      /\ wire' \in Seq(NoteSet) /\ replies' \subseteq replies
  BY <1>1 DEF ReplyHandled, Types, Wire
<1>4. InRunOrder'
  BY <1>1, <1>3 DEF InRunOrder, Before, RunOf
<1>5. x.id \in Ids /\ sent[x.id].run # 0
  BY <1>1, <1>2 DEF RepliesKnown, AnsweredTruly, SentWaits
<1>6. (t = "queued" => sent[x.id].state \in Accepted) /\ (t # "queued" => sent[x.id].state = t)
  BY <1>1, <1>2, <1>5 DEF AnsweredTruly
<1>7. Heard(t, x.id)
  BY <1>2, <1>3, <1>4, <1>5, <1>6 DEF Heard
<1>8. QED
  BY <1>7

\* That the daemon took a message, told of one that is not open any more.
LEMMA TakenAgain ==
  ASSUME NEW t \in Clients, SubsOK(t), NEW k \in Nat, Text(k) \subseteq Nat,
         \A i \in InState(t, "failed") : Text(i) \subseteq Nat,
         k \notin InState(t, "open"), k \notin InState(t, "failed")
  PROVE  LET v == Merge(t, "queued", k)
         IN /\ v \in Clients /\ SubsOK(v) /\ SameRun(t, v) /\ v.lost = t.lost /\ v.tombs = t.tombs
            /\ v.pending \subseteq t.pending \cup {k} /\ v.draft = t.draft
            /\ SubIds(v) \subseteq SubIds(t) /\ InState(v, "open") = InState(t, "open")
            /\ InState(v, "failed") = InState(t, "failed")
            /\ InState(t, "open") = {} => v.subs = {}
<1> DEFINE v == Merge(t, "queued", k)
           u == Resolve(t, k, "ok")
<1>1. "queued" \in MessageTypes
  BY DEF MessageTypes
<1>2. InState(t, "open") = {} => t.subs = {}
  BY DEF SubsOK
<1>3. ASSUME Outdated(t, sent[k].run)
      PROVE  /\ v \in Clients /\ SubsOK(v) /\ SameRun(t, v) /\ v.lost = t.lost /\ v.tombs = t.tombs
             /\ v.pending \subseteq t.pending \cup {k} /\ v.draft = t.draft
             /\ SubIds(v) \subseteq SubIds(t) /\ InState(v, "open") = InState(t, "open")
             /\ InState(v, "failed") = InState(t, "failed")
             /\ InState(t, "open") = {} => v.subs = {}
  <2>1. v = t
    BY <1>3 DEF Merge
  <2> HIDE DEF v
  <2>2. QED
    BY <1>2, <2>1 DEF SameRun
<1>4. ASSUME ~Outdated(t, sent[k].run)
      PROVE  /\ v \in Clients /\ SubsOK(v) /\ SameRun(t, v) /\ v.lost = t.lost /\ v.tombs = t.tombs
             /\ v.pending \subseteq t.pending \cup {k} /\ v.draft = t.draft
             /\ SubIds(v) \subseteq SubIds(t) /\ InState(v, "open") = InState(t, "open")
             /\ InState(v, "failed") = InState(t, "failed")
             /\ InState(t, "open") = {} => v.subs = {}
  <2>1. \A i \in InState(t, "failed") \cup {k} : Text(i) \subseteq Nat
    OBVIOUS
  <2>2. (InState(t, "failed") \ {k}) \cup {} = InState(t, "failed")
    OBVIOUS
  <2>3. /\ u \in Clients /\ SubsOK(u) /\ SameButTexts(t, u) /\ u.lost = t.lost
        /\ SubIds(u) \subseteq SubIds(t)
        /\ InState(u, "open") = InState(t, "open") \ {k}
        /\ IF InState(u, "open") # {}
           THEN InState(u, "failed") = InState(t, "failed") /\ u.draft = t.draft
           ELSE u.subs = {} /\ InState(u, "failed") = {} /\ u.draft = t.draft \cup Texts(InState(t, "failed"))
    BY <2>1, <2>2, ResolveFacts
  <2>4. /\ v \in Clients /\ SameRun(t, v) /\ SameSubs(u, v) /\ v.lost = t.lost
        /\ v.pending = IF k \in t.tombs THEN t.pending ELSE t.pending \cup {k}
        /\ v.tombs = t.tombs /\ v.draft = u.draft
    <3>1. u \in Clients /\ SameButTexts(t, u) /\ u.lost = t.lost
      BY <2>3
    <3>2. /\ v \in Clients /\ SameRun(t, v) /\ SameSubs(u, v) /\ v.lost = t.lost
          /\ "queued" = "queued" =>
               /\ v.pending = IF k \in t.tombs THEN t.pending ELSE t.pending \cup {k}
               /\ v.tombs = t.tombs /\ v.draft = u.draft
      BY <1>1, <1>4, <3>1, MergeFacts, ZenonT(30)
    <3>3. QED
      BY <3>2, Zenon
  <2> HIDE DEF v
  <2> HIDE DEF u
  <2>5. InState(t, "open") = {} => InState(t, "failed") = {} /\ Texts(InState(t, "failed")) = {}
    BY <1>2 DEF InState, Texts
  <2>6. u.draft = t.draft /\ InState(u, "open") = InState(t, "open") /\ InState(u, "failed") = InState(t, "failed")
    BY <2>3, <2>5
  <2>7. v.subs = u.subs /\ SubIds(v) = SubIds(u) /\ InState(v, "open") = InState(u, "open") /\ InState(v, "failed") = InState(u, "failed")
    BY <2>4 DEF SameSubs
  <2>8. SubsOK(v)
    BY <2>3, <2>7 DEF SubsOK
  <2>9. QED
    BY <2>3, <2>4, <2>6, <2>7, <2>8
<1>5. QED
  BY <1>3, <1>4, Zenon

\* The daemon has taken the message, says its response.
LEMMA SteerTaken ==
  ASSUME TextInv, NEW x, ReplyHandled(x), x.op = "steer", x.ok
  PROVE  TextInv'
<1> DEFINE k == x.id
           u == Resolve(tui, k, "ok")
           back == IF Opens' = {} THEN Faileds \ {k} ELSE {}
<1>1. Types /\ Known /\ Answerable
  BY DEF TextInv
<1>2. Heard("queued", k) /\ k \in Ids
  BY ReplyHeard DEF Heard
<1>3. /\ u \in Clients /\ SubsOK(u) /\ SameButTexts(tui, u) /\ u.lost = tui.lost
      /\ SubIds(u) \subseteq Submitted /\ InState(u, "open") = Opens \ {k}
      /\ InState(u, "open") # {} => InState(u, "failed") = Faileds \ {k} /\ u.draft = tui.draft
      /\ InState(u, "open") = {} => /\ u.subs = {} /\ InState(u, "failed") = {}
                                   /\ u.draft = tui.draft \cup Texts(Faileds \ {k})
  BY <1>2, OneResolved
<1>4. tui' = Merge(u, "queued", k)
  BY DEF ReplyHandled, Reply
<1>5. k \in Nat /\ Text(k) \subseteq Nat /\ \A i \in Ids : Text(i) \subseteq Nat
  BY <1>1, <1>2, MessageType
<1>6. k \notin InState(u, "open") /\ k \notin InState(u, "failed") /\ \A i \in InState(u, "failed") : Text(i) \subseteq Nat
  <2>1. Faileds \subseteq Ids
    BY <1>1, ClientKnows
  <2>2. QED
    BY <1>3, <1>5, <2>1
<1> HIDE DEF u
<1> DEFINE v == Merge(u, "queued", k)
<1>7. /\ v \in Clients /\ SubsOK(v) /\ SameRun(u, v) /\ v.lost = u.lost /\ v.tombs = u.tombs
      /\ v.pending \subseteq u.pending \cup {k} /\ v.draft = u.draft
      /\ SubIds(v) \subseteq SubIds(u) /\ InState(v, "open") = InState(u, "open")
      /\ InState(v, "failed") = InState(u, "failed")
      /\ InState(u, "open") = {} => v.subs = {}
  BY <1>3, <1>5, <1>6, TakenAgain
<1>8. tui' = v
  BY <1>4
<1> HIDE DEF v
<1>9. Opens' = InState(v, "open") /\ Faileds' = InState(v, "failed") /\ Submitted' = SubIds(v)
  BY <1>8 DEF Opens, Faileds, Submitted
<1>10. Resolved(k, Faileds \ {k})
  <2>1. SameRun(tui, v)
    BY <1>3, <1>7 DEF SameButTexts, SameRun
  <2>2. QED
    BY <1>3, <1>7, <1>8, <1>9, <2>1 DEF Resolved
<1>11. tui'.draft = tui.draft \cup Texts(back)
  BY <1>3, <1>7, <1>8, <1>9 DEF Texts
<1>12. tui'.lost = tui.lost /\ tui'.tombs = tui.tombs /\ tui'.pending \subseteq tui.pending \cup {k}
  BY <1>3, <1>7, <1>8 DEF SameButTexts
<1>13. tui.at = "open"
  BY ReplyFacts
<1>14. QED
  BY <1>2, <1>10, <1>11, <1>12, <1>13, TakenText

\* The message is back, says the response of the one who asked for it.
LEMMA RemoveAnswered ==
  ASSUME TextInv, NEW x, ReplyHandled(x), x.op = "remove", x.ok
  PROVE  TextInv'
<1> DEFINE k == x.id
           back == IF Opens' = {} THEN Faileds \ {k} ELSE {}
<1>1. Heard("removed", k) /\ k \in Ids /\ "removed" \in MessageTypes
  BY ReplyHeard DEF Heard, MessageTypes
<1>2. tui' = Merge(tui, "removed", k)
  BY DEF ReplyHandled, Reply
<1>3. CASE ~Outdated(tui, sent[k].run)
  <2>0. /\ Resolved(k, Faileds \ {k}) /\ tui'.lost = tui.lost
        /\ "removed" # "queued" =>
             /\ tui'.draft = tui.draft \cup Texts(Returning(Faileds \ {k}))
                               \cup (IF "removed" # "applied" /\ k \notin tui.tombs THEN Text(k) ELSE {})
             /\ tui'.tombs = tui.tombs \cup {k} /\ tui'.pending = tui.pending \ {k}
    BY <1>1, <1>2, <1>3, Merged, Zenon
  <2>1. /\ Resolved(k, Faileds \ {k}) /\ tui'.lost = tui.lost
        /\ tui'.draft = tui.draft \cup Texts(Returning(Faileds \ {k}))
                          \cup (IF k \notin tui.tombs THEN Text(k) ELSE {})
        /\ tui'.tombs = tui.tombs \cup {k} /\ tui'.pending = tui.pending \ {k}
    BY <2>0
  <2>2. Returning(Faileds \ {k}) = back
    BY DEF Returning
  <2>3. tui.at = "open" /\ Removal(k)
    BY ReplyFacts DEF Removal
  <2>4. QED
    BY <1>1, <1>3, <2>1, <2>2, <2>3, DecidedHeard
<1>4. CASE Outdated(tui, sent[k].run)
  <2>1. tui.at = "open"
    BY ReplyFacts
  <2>2. QED
    BY <1>1, <1>2, <1>4, <2>1, OutdatedText
<1>5. QED
  BY <1>3, <1>4

\* A call was refused whose text is no longer the client's to bring back.
LEMMA RefusalHandled ==
  ASSUME TextInv, NEW x, ReplyHandled(x), ~x.ok, NothingLearnt,
         x.op \in {"cancel", "remove"} \/ (x.op = "steer" /\ x.id \notin Submitted)
  PROVE  TextInv'
<1>1. /\ tui' \in Clients /\ tui'.at = tui.at /\ tui'.draft = tui.draft /\ tui'.lost = tui.lost
      /\ tui'.pending = tui.pending /\ tui'.tombs = tui.tombs /\ tui'.active = tui.active
      /\ tui'.completed = tui.completed /\ tui'.subs = tui.subs
      /\ Opens' = Opens /\ Faileds' = Faileds /\ Submitted' = Submitted
  BY DEF NothingLearnt, Opens, Faileds, Submitted, InState, SubIds
<1>2. /\ replies' \subseteq replies /\ Snapshots' = Snapshots /\ No(x.op, x.id) /\ tui.at = "open"
      /\ (\A op, i : Yes(op, i)' <=> Yes(op, i))
      /\ \A op, i : No(op, i)' <=> No(op, i) /\ ~(op = x.op /\ i = x.id)
  BY Parts, ReplyFacts DEF ReplyHandled
<1>3. wire' = wire /\ Wire' = Wire
  BY SameWire DEF ReplyHandled
<1>4. sent' = sent /\ Ids' = Ids /\ (\A i : Text(i)' = Text(i)) /\ (\A m : RunOf(m)' = RunOf(m))
  BY SameSent DEF ReplyHandled, MessagesKept
<1>5. calls' = calls /\ \A op, i : Asked(op, i)' <=> Asked(op, i)
  BY SameCalls DEF ReplyHandled
<1>6. busy' = busy /\ (Opening' <=> Opening) /\ \A op, i : Serving(op, i)' <=> Serving(op, i)
  BY SameBusy DEF ReplyHandled
<1>7. srv' = srv /\ typed' = typed /\ gaveUp' = gaveUp
  BY DEF ReplyHandled
<1>8. Types'
  BY Parts, <1>1, <1>2, <1>3, <1>4, <1>5, <1>6, <1>7 DEF Types
<1>9. SentKnown'
  BY Parts, <1>4, <1>7 DEF SentKnown
<1>10. ClientKnown'
  BY Parts, <1>1, <1>4, <1>7 DEF ClientKnown
<1>11. CallsKnown'
  BY Parts, <1>4, <1>5, <1>6, <1>7 DEF CallsKnown
<1>12. RepliesKnown'
  BY Parts, <1>2, <1>4, <1>7 DEF RepliesKnown
<1>13. WireKnown'
  BY Parts, <1>3, <1>4, <1>7 DEF WireKnown, RunOf, MessageTypes
<1>14. SentWaits'
  BY Parts, <1>4, <1>5, <1>7 DEF SentWaits, Accepted
<1>15. ToldIsTrue'
  BY Parts, <1>3, <1>4, <1>6, <1>7 DEF ToldIsTrue, Accepted
<1>16. AnsweredTruly'
  BY Parts, <1>2, <1>4, <1>7 DEF AnsweredTruly, Accepted
<1>17. AnsweredInTime'
  BY Parts, <1>2, <1>4, <1>7 DEF AnsweredInTime
<1>18. InRunOrder'
  BY Parts, <1>3, <1>4 DEF InRunOrder, Before, Wire
<1>19. NotAhead'
  BY Parts, <1>1, <1>3, <1>4, <1>7 DEF NotAhead
<1>20. OpensQuietly'
  BY Parts, <1>1, <1>2, <1>3, <1>5, <1>6, <1>7 DEF OpensQuietly
<1>21. AtItsRun'
  BY Parts, <1>1, <1>3, <1>4, <1>7 DEF AtItsRun, Ours, Passed, InRun
<1>22. Answerable'
  BY Parts, <1>1, <1>2, <1>4, <1>5, <1>6, <1>7 DEF Answerable, Accepted
<1>23. Untold'
  BY Parts, <1>1, <1>3, <1>4, <1>5, <1>7 DEF Untold
<1>24. Pending'
  BY Parts, <1>1, <1>2, <1>4, <1>7 DEF Pending, Accepted, RepliesKnown
<1>25. OneLive' /\ NotInDraft'
  <2>1. \A i \in Ids : Live(i)' => Live(i)
    BY Parts, <1>1, <1>2, <1>3, <1>4, <1>6, <1>7 DEF Live, MayReturn, Removal
  <2>2. QED
    BY Parts, <1>1, <1>4, <1>7, <2>1, LiveShrinks DEF Types
<1>26. Somewhere'
  <2>1. \A i \in Ids : Carries(i) => Carries(i)'
    BY Parts, <1>1, <1>2, <1>3, <1>4, <1>6, <1>7 DEF Carries, Removal
  <2>2. QED
    BY Parts, <1>1, <1>4, <1>7, <2>1, CarriesGrows
<1>27. QED
  BY <1>8, <1>9, <1>10, <1>11, <1>12, <1>13, <1>14, <1>15, <1>16, <1>17, <1>18, <1>19, <1>20, <1>21, <1>22, <1>23, <1>24, <1>25, <1>26 DEF TextInv, Known

\* A message is not back: the client does nothing.
LEMMA RemoveRefused ==
  ASSUME TextInv, NEW x, ReplyHandled(x), x.op = "remove", ~x.ok
  PROVE  TextInv'
<1>1. tui \in Clients
  BY DEF TextInv, Types
<1>2. NothingLearnt
  BY <1>1 DEF NothingLearnt, ReplyHandled, Reply, Clients
<1>3. QED
  BY <1>2, RefusalHandled

\* The cancellation was refused.
LEMMA CancelAnswered ==
  ASSUME TextInv, NEW x, ReplyHandled(x), x.op = "cancel", ~x.ok
  PROVE  TextInv'
<1>1. tui \in Clients
  BY DEF TextInv, Types
<1>2. NothingLearnt
  BY <1>1 DEF NothingLearnt, ReplyHandled, Reply, Clients
<1>3. QED
  BY <1>2, RefusalHandled

\* A message did not begin a run: its text is let go of.
LEMMA SendAnswered ==
  ASSUME TextInv, NEW x, ReplyHandled(x), x.op = "send", ~x.ok
  PROVE  TextInv'
<1>1. /\ tui' \in Clients /\ tui'.at = tui.at /\ tui'.draft = tui.draft /\ tui'.lost = tui.lost \cup Text(x.id)
      /\ tui'.pending = tui.pending /\ tui'.tombs = tui.tombs /\ tui'.active = tui.active
      /\ tui'.completed = tui.completed /\ tui'.subs = tui.subs /\ x.id \in Ids
      /\ Opens' = Opens /\ Faileds' = Faileds /\ Submitted' = Submitted
  <2>1. x.id \in Ids
    BY Parts, ReplyFacts DEF RepliesKnown
  <2>2. Text(x.id) \subseteq Nat
    BY Parts, <2>1, MessageType
  <2>3. /\ tui' \in Clients /\ tui'.at = tui.at /\ tui'.draft = tui.draft /\ tui'.lost = tui.lost \cup Text(x.id)
        /\ tui'.pending = tui.pending /\ tui'.tombs = tui.tombs /\ tui'.active = tui.active
        /\ tui'.completed = tui.completed /\ tui'.subs = tui.subs
    BY Parts, <2>2 DEF ReplyHandled, Reply, Types, Clients
  <2>4. QED
    BY <2>1, <2>3 DEF Opens, Faileds, Submitted, InState, SubIds
<1>2. /\ replies' \subseteq replies /\ Snapshots' = Snapshots /\ No(x.op, x.id) /\ tui.at = "open"
      /\ (\A op, i : Yes(op, i)' <=> Yes(op, i))
      /\ \A op, i : No(op, i)' <=> No(op, i) /\ ~(op = x.op /\ i = x.id)
  BY Parts, ReplyFacts DEF ReplyHandled
<1>3. wire' = wire /\ Wire' = Wire
  BY SameWire DEF ReplyHandled
<1>4. sent' = sent /\ Ids' = Ids /\ (\A i : Text(i)' = Text(i)) /\ (\A m : RunOf(m)' = RunOf(m))
  BY SameSent DEF ReplyHandled, MessagesKept
<1>5. calls' = calls /\ \A op, i : Asked(op, i)' <=> Asked(op, i)
  BY SameCalls DEF ReplyHandled
<1>6. busy' = busy /\ (Opening' <=> Opening) /\ \A op, i : Serving(op, i)' <=> Serving(op, i)
  BY SameBusy DEF ReplyHandled
<1>7. srv' = srv /\ typed' = typed /\ gaveUp' = gaveUp
  BY DEF ReplyHandled
<1>8. Types'
  BY Parts, <1>1, <1>2, <1>3, <1>4, <1>5, <1>6, <1>7 DEF Types
<1>9. SentKnown'
  BY Parts, <1>4, <1>7 DEF SentKnown
<1>10. ClientKnown'
  <2>1. Text(x.id) \subseteq 1 .. typed
    BY Parts, <1>1 DEF SentKnown
  <2>2. QED
    BY Parts, <1>1, <1>4, <1>7, <2>1 DEF ClientKnown
<1>11. CallsKnown'
  BY Parts, <1>4, <1>5, <1>6, <1>7 DEF CallsKnown
<1>12. RepliesKnown'
  BY Parts, <1>2, <1>4, <1>7 DEF RepliesKnown
<1>13. WireKnown'
  BY Parts, <1>3, <1>4, <1>7 DEF WireKnown, RunOf, MessageTypes
<1>14. SentWaits'
  BY Parts, <1>4, <1>5, <1>7 DEF SentWaits, Accepted
<1>15. ToldIsTrue'
  BY Parts, <1>3, <1>4, <1>6, <1>7 DEF ToldIsTrue, Accepted
<1>16. AnsweredTruly'
  BY Parts, <1>2, <1>4, <1>7 DEF AnsweredTruly, Accepted
<1>17. AnsweredInTime'
  BY Parts, <1>2, <1>4, <1>7 DEF AnsweredInTime
<1>18. InRunOrder'
  BY Parts, <1>3, <1>4 DEF InRunOrder, Before, Wire
<1>19. NotAhead'
  BY Parts, <1>1, <1>3, <1>4, <1>7 DEF NotAhead
<1>20. OpensQuietly'
  BY Parts, <1>1, <1>2, <1>3, <1>5, <1>6, <1>7 DEF OpensQuietly
<1>21. AtItsRun'
  BY Parts, <1>1, <1>3, <1>4, <1>7 DEF AtItsRun, Ours, Passed, InRun
<1>22. Answerable'
  BY Parts, <1>1, <1>2, <1>4, <1>5, <1>6, <1>7 DEF Answerable, Accepted
<1>23. Untold'
  BY Parts, <1>1, <1>3, <1>4, <1>5, <1>7 DEF Untold
<1>24. Pending'
  BY Parts, <1>1, <1>2, <1>4, <1>7 DEF Pending, Accepted, RepliesKnown
<1>25. OneLive' /\ NotInDraft'
  <2>1. \A i \in Ids : Live(i)' => Live(i)
    BY Parts, <1>1, <1>2, <1>3, <1>4, <1>6, <1>7 DEF Live, MayReturn, Removal
  <2>2. QED
    BY Parts, <1>1, <1>4, <1>7, <2>1, LiveShrinks DEF Types
<1>26. Somewhere'
  <2>1. \A i \in Ids : Carries(i) => Carries(i)' \/ Text(i) \subseteq tui'.lost
    BY <1>1, <1>2, <1>3, <1>4, <1>6 DEF Carries, Removal
  <2>2. QED
    BY Parts, <1>1, <1>4, <1>7, <2>1, CarriesOrBack
<1>27. QED
  BY <1>8, <1>9, <1>10, <1>11, <1>12, <1>13, <1>14, <1>15, <1>16, <1>17, <1>18, <1>19, <1>20, <1>21, <1>22, <1>23, <1>24, <1>25, <1>26 DEF TextInv, Known

\* A submission that counts as failed.
LEMMA OneFailed ==
  ASSUME TextInv, NEW k \in Submitted
  PROVE  LET v == Resolve(tui, k, "failed")
         IN /\ v \in Clients /\ SubsOK(v) /\ SameButTexts(tui, v) /\ v.lost = tui.lost
            /\ SubIds(v) \subseteq Submitted /\ InState(v, "open") = Opens \ {k}
            /\ InState(v, "open") # {} => InState(v, "failed") = Faileds \cup {k} /\ v.draft = tui.draft
            /\ InState(v, "open") = {} => /\ v.subs = {} /\ InState(v, "failed") = {} /\ SubIds(v) = {}
                                         /\ v.draft = tui.draft \cup Texts(Faileds \cup {k})
<1> DEFINE v == Resolve(tui, k, "failed")
<1>1. Types /\ Known /\ Answerable
  BY DEF TextInv
<1>2. /\ tui \in Clients /\ SubsOK(tui) /\ k \in Nat /\ (\E s \in tui.subs : s.id = k)
      /\ \A i \in Faileds \cup {k} : Text(i) \subseteq Nat
  BY <1>1, ClientFits, ClientKnows, MessageType DEF Submitted, SubIds
<1>3. (Faileds \ {k}) \cup {k} = Faileds \cup {k}
  OBVIOUS
<1>4. /\ v \in Clients /\ SubsOK(v) /\ SameButTexts(tui, v) /\ v.lost = tui.lost
      /\ SubIds(v) \subseteq Submitted /\ InState(v, "open") = Opens \ {k}
      /\ InState(v, "open") # {} => InState(v, "failed") = (Faileds \ {k}) \cup {k} /\ v.draft = tui.draft
      /\ InState(v, "open") = {} => /\ v.subs = {} /\ InState(v, "failed") = {}
                                   /\ v.draft = tui.draft \cup Texts((Faileds \ {k}) \cup {k})
  BY <1>2, ResolveFacts DEF Opens, Faileds, Submitted
<1> HIDE DEF v
<1>5. v.subs = {} => SubIds(v) = {}
  BY DEF SubIds
<1>6. /\ v \in Clients /\ SubsOK(v) /\ SameButTexts(tui, v) /\ v.lost = tui.lost
      /\ SubIds(v) \subseteq Submitted /\ InState(v, "open") = Opens \ {k}
      /\ InState(v, "open") # {} => InState(v, "failed") = Faileds \cup {k} /\ v.draft = tui.draft
      /\ InState(v, "open") = {} => /\ v.subs = {} /\ InState(v, "failed") = {} /\ SubIds(v) = {}
                                   /\ v.draft = tui.draft \cup Texts(Faileds \cup {k})
  BY <1>3, <1>4, <1>5
<1>7. QED
  BY <1>6 DEF v

\* A message was refused.
LEMMA SteerNotTaken ==
  ASSUME TextInv, NEW x, ReplyHandled(x), x.op = "steer", ~x.ok, x.id \in Submitted, NEW k, k = x.id, NEW back, back = Returning(Faileds \cup {k})
  PROVE  TextInv'
<1>1. /\ tui' \in Clients /\ tui'.at = tui.at /\ tui'.lost = tui.lost /\ tui'.active = tui.active /\ tui'.completed = tui.completed
      /\ Opens' \subseteq Ids /\ Faileds' \subseteq Ids /\ Submitted' \subseteq Submitted
      /\ Opens' = Opens \ {k} /\ Faileds' \subseteq Faileds \cup {k} /\ (tui'.subs # {} => Opens' # {})
      /\ (Opens' # {} => Faileds' = Faileds \cup {k} /\ back = {}) /\ (Opens' = {} => back = Faileds \cup {k} /\ Submitted' = {} /\ Faileds' = {})
      /\ (\A s, u \in tui'.subs : s.id = u.id => s = u) /\ back \subseteq Ids /\ k \in Ids
      /\ tui'.draft = tui.draft \cup Texts(back) /\ tui'.tombs = tui.tombs /\ tui'.pending = tui.pending
  <2>1. /\ tui' \in Clients /\ SubsOK(tui') /\ SameButTexts(tui, tui') /\ tui'.lost = tui.lost
        /\ SubIds(tui') \subseteq Submitted /\ InState(tui', "open") = Opens \ {k}
        /\ InState(tui', "open") # {} => InState(tui', "failed") = Faileds \cup {k} /\ tui'.draft = tui.draft
        /\ InState(tui', "open") = {} => /\ tui'.subs = {} /\ InState(tui', "failed") = {} /\ SubIds(tui') = {}
                                        /\ tui'.draft = tui.draft \cup Texts(Faileds \cup {k})
    <3>1. k \in Submitted /\ tui' = Resolve(tui, k, "failed")
      BY Parts DEF ReplyHandled, Reply
    <3>2. QED
      BY <3>1, OneFailed
  <2>2. Opens' = InState(tui', "open") /\ Faileds' = InState(tui', "failed") /\ Submitted' = SubIds(tui')
    BY DEF Opens, Faileds, Submitted
  <2>3. back = IF Opens' = {} THEN Faileds \cup {k} ELSE {}
    BY DEF Returning
  <2>4. Opens' # {} => tui'.draft = tui.draft \cup Texts(back)
    BY <2>1, <2>2, <2>3 DEF Texts
  <2>5. k \in Ids /\ back \subseteq Ids
    BY Parts, <2>3 DEF Known, ClientKnown
  <2>6. QED
    BY Parts, <2>1, <2>2, <2>3, <2>4, <2>5 DEF SameButTexts, SubsOK
<1>2. /\ replies' \subseteq replies /\ Snapshots' = Snapshots /\ No(x.op, x.id) /\ tui.at = "open"
      /\ (\A op, i : Yes(op, i)' <=> Yes(op, i))
      /\ \A op, i : No(op, i)' <=> No(op, i) /\ ~(op = x.op /\ i = x.id)
  BY Parts, ReplyFacts DEF ReplyHandled
<1>3. wire' = wire /\ Wire' = Wire
  BY SameWire DEF ReplyHandled
<1>4. sent' = sent /\ Ids' = Ids /\ (\A i : Text(i)' = Text(i)) /\ (\A m : RunOf(m)' = RunOf(m))
  BY SameSent DEF ReplyHandled, MessagesKept
<1>5. calls' = calls /\ \A op, i : Asked(op, i)' <=> Asked(op, i)
  BY SameCalls DEF ReplyHandled
<1>6. busy' = busy /\ (Opening' <=> Opening) /\ \A op, i : Serving(op, i)' <=> Serving(op, i)
  BY SameBusy DEF ReplyHandled
<1>7. srv' = srv /\ typed' = typed /\ gaveUp' = gaveUp
  BY DEF ReplyHandled
<1>8. sent[k].state = "refused" /\ (k \in Opens \/ k \in Faileds)
  BY Parts, <1>1, <1>2 DEF Answerable, AnsweredTruly, Accepted
<1>9. Types'
  BY Parts, <1>1, <1>2, <1>3, <1>4, <1>5, <1>6, <1>7, <1>8 DEF Types
<1>10. SentKnown'
  BY Parts, <1>4, <1>7, <1>8 DEF SentKnown
<1>11. ClientKnown'
  <2>0. \A i \in back : Text(i) \subseteq 1 .. typed
    BY Parts, <1>1 DEF SentKnown
  <2>1. Texts(back) \subseteq 1 .. typed
    BY <2>0 DEF Texts
  <2>2. QED
    BY Parts, <1>1, <1>4, <1>7, <1>8, <2>1 DEF ClientKnown
<1>12. CallsKnown'
  BY Parts, <1>4, <1>5, <1>6, <1>7, <1>8 DEF CallsKnown
<1>13. RepliesKnown'
  BY Parts, <1>2, <1>4, <1>7, <1>8 DEF RepliesKnown
<1>14. WireKnown'
  BY Parts, <1>3, <1>4, <1>7, <1>8 DEF WireKnown, RunOf, MessageTypes
<1>15. SentWaits'
  BY Parts, <1>4, <1>5, <1>7, <1>8 DEF SentWaits, Accepted
<1>16. ToldIsTrue'
  BY Parts, <1>3, <1>4, <1>6, <1>7, <1>8 DEF ToldIsTrue, Accepted
<1>17. AnsweredTruly'
  BY Parts, <1>2, <1>4, <1>7, <1>8 DEF AnsweredTruly, Accepted
<1>18. AnsweredInTime'
  BY Parts, <1>2, <1>4, <1>7, <1>8 DEF AnsweredInTime
<1>19. InRunOrder'
  BY Parts, <1>3, <1>4 DEF InRunOrder, Before, Wire
<1>20. NotAhead'
  BY Parts, <1>1, <1>3, <1>4, <1>7, <1>8 DEF NotAhead
<1>21. OpensQuietly'
  BY Parts, <1>1, <1>2, <1>3, <1>5, <1>6, <1>7, <1>8 DEF OpensQuietly
<1>22. AtItsRun'
  BY Parts, <1>1, <1>3, <1>4, <1>7, <1>8 DEF AtItsRun, Ours, Passed, InRun
<1>23. Answerable'
  BY Parts, <1>1, <1>2, <1>4, <1>5, <1>6, <1>7, <1>8 DEF Answerable, Accepted
<1>24. Untold'
  BY Parts, <1>1, <1>3, <1>4, <1>5, <1>7, <1>8 DEF Untold
<1>25. Pending'
  BY Parts, <1>1, <1>2, <1>4, <1>7, <1>8 DEF Pending, Accepted, RepliesKnown
<1>26. OneLive' /\ NotInDraft'
  <2>1. \A i \in Ids : MayReturn(i)' => MayReturn(i)
    BY <1>1, <1>2, <1>3, <1>4, <1>6 DEF MayReturn, Removal
  <2>2. \A i \in Ids : Live(i)' => Live(i)
    BY <1>1, <1>4, <1>7, <1>8, <2>1 DEF Live
  <2>3. \A i \in back : i \in gaveUp' \/ (Live(i) /\ ~Live(i)')
    <3>1. SUFFICES ASSUME NEW i \in back, i \notin gaveUp' PROVE Live(i) /\ ~Live(i)'
      OBVIOUS
    <3>2. (i \in Faileds \/ i \in Opens) /\ Opens' = {} /\ Faileds' = {} /\ sent[i].state = "refused"
      BY Parts, <1>1, <1>7, <1>8, <3>1 DEF Answerable
    <3>3. QED
      BY <1>4, <3>2 DEF Live, MayReturn
  <2>4. QED
    <3>1. back \in SUBSET Ids /\ gaveUp' \subseteq Ids /\ gaveUp \subseteq gaveUp'
      BY Parts, <1>1, <1>7 DEF Types
    <3>2. QED
      BY Parts, <1>1, <1>4, <1>7, <2>2, <2>3, <3>1, TextsComeBack
<1>27. Somewhere'
  <2>1. \A i \in Ids : Carries(i) => Carries(i)' \/ Text(i) \subseteq tui'.draft
    <3>1. \A i \in Ids : i \in Faileds \/ i = k => i \in Faileds' \/ Text(i) \subseteq tui'.draft
      BY <1>1, ZenonT(40) DEF Texts
    <3>2. \A i \in Ids : Carries(i) /\ i \notin Opens /\ i \notin Faileds => Carries(i)'
      BY <1>1, <1>2, <1>3, <1>4, <1>6 DEF Carries, Removal
    <3>3. QED
      BY <1>1, <3>1, <3>2 DEF Carries
  <2>2. QED
    BY Parts, <1>1, <1>4, <1>7, <2>1, CarriesOrBack
<1>28. QED
  BY <1>9, <1>10, <1>11, <1>12, <1>13, <1>14, <1>15, <1>16, <1>17, <1>18, <1>19, <1>20, <1>21, <1>22, <1>23, <1>24, <1>25, <1>26, <1>27 DEF TextInv, Known

\* A message was refused that the client has forgotten.
LEMMA SteerForgotten ==
  ASSUME TextInv, NEW x, ReplyHandled(x), x.op = "steer", x.id \notin Submitted, ~x.ok
  PROVE  TextInv'
<1>1. tui \in Clients
  BY DEF TextInv, Types
<1>2. \A s \in tui.subs : s.id # x.id
  BY DEF Submitted, SubIds
<1>3. {IF s.id = x.id THEN [s EXCEPT !.state = "failed"] ELSE s : s \in tui.subs} = tui.subs
  BY <1>2
<1>4. [tui EXCEPT !.subs = tui.subs] = tui
  BY <1>1 DEF Clients
<1>5. Resolve(tui, x.id, "failed") = tui
  BY <1>2, <1>3, <1>4 DEF Resolve
<1>6. tui' = tui
  BY <1>5 DEF ReplyHandled, Reply
<1>7. QED
  BY <1>1, <1>6, RefusalHandled DEF NothingLearnt

\* One call is given up.
OneGivenUp(id) ==
  /\ \A x \in replies : x.id # id
  /\ gaveUp' = gaveUp \cup {id} /\ tui' = Resolve(tui, id, "failed")
  /\ UNCHANGED <<typed, sent, calls, busy, replies, wire, srv>>

\* A call is not waited for any longer.
LEMMA GiveUpText ==
  ASSUME TextInv, NEW k \in Opens, OneGivenUp(k), NEW back, back = Returning(Faileds \cup {k})
  PROVE  TextInv'
<1>1. /\ tui' \in Clients /\ tui'.at = tui.at /\ tui'.lost = tui.lost /\ tui'.active = tui.active /\ tui'.completed = tui.completed
      /\ Opens' \subseteq Ids /\ Faileds' \subseteq Ids /\ Submitted' \subseteq Submitted
      /\ Opens' = Opens \ {k} /\ Faileds' \subseteq Faileds \cup {k} /\ (tui'.subs # {} => Opens' # {})
      /\ (Opens' # {} => Faileds' = Faileds \cup {k} /\ back = {}) /\ (Opens' = {} => back = Faileds \cup {k} /\ Submitted' = {} /\ Faileds' = {})
      /\ (\A s, u \in tui'.subs : s.id = u.id => s = u) /\ back \subseteq Ids /\ k \in Ids
      /\ tui'.draft = tui.draft \cup Texts(back) /\ tui'.tombs = tui.tombs /\ tui'.pending = tui.pending
  <2>1. /\ tui' \in Clients /\ SubsOK(tui') /\ SameButTexts(tui, tui') /\ tui'.lost = tui.lost
        /\ SubIds(tui') \subseteq Submitted /\ InState(tui', "open") = Opens \ {k}
        /\ InState(tui', "open") # {} => InState(tui', "failed") = Faileds \cup {k} /\ tui'.draft = tui.draft
        /\ InState(tui', "open") = {} => /\ tui'.subs = {} /\ InState(tui', "failed") = {} /\ SubIds(tui') = {}
                                        /\ tui'.draft = tui.draft \cup Texts(Faileds \cup {k})
    <3>1. k \in Submitted /\ tui' = Resolve(tui, k, "failed")
      BY Parts DEF OneGivenUp
    <3>2. QED
      BY <3>1, OneFailed
  <2>2. Opens' = InState(tui', "open") /\ Faileds' = InState(tui', "failed") /\ Submitted' = SubIds(tui')
    BY DEF Opens, Faileds, Submitted
  <2>3. back = IF Opens' = {} THEN Faileds \cup {k} ELSE {}
    BY DEF Returning
  <2>4. Opens' # {} => tui'.draft = tui.draft \cup Texts(back)
    BY <2>1, <2>2, <2>3 DEF Texts
  <2>5. k \in Ids /\ back \subseteq Ids
    BY Parts, <2>3 DEF Known, ClientKnown
  <2>6. QED
    BY Parts, <2>1, <2>2, <2>3, <2>4, <2>5 DEF SameButTexts, SubsOK
<1>2. /\ replies' = replies /\ Snapshots' = Snapshots
      /\ \A op, i : (Yes(op, i)' <=> Yes(op, i)) /\ (No(op, i)' <=> No(op, i))
      /\ \A op \in {"steer", "remove", "send"} : ~Yes(op, k) /\ ~No(op, k)
  <2>1. \A y \in replies : y.id # k
    BY DEF OneGivenUp
  <2>2. QED
    BY <2>1, SameReplies DEF OneGivenUp, Yes, No
<1>3. wire' = wire /\ Wire' = Wire
  BY SameWire DEF OneGivenUp
<1>4. sent' = sent /\ Ids' = Ids /\ (\A i : Text(i)' = Text(i)) /\ (\A m : RunOf(m)' = RunOf(m))
  BY SameSent DEF OneGivenUp, MessagesKept
<1>5. calls' = calls /\ \A op, i : Asked(op, i)' <=> Asked(op, i)
  BY SameCalls DEF OneGivenUp
<1>6. busy' = busy /\ (Opening' <=> Opening) /\ \A op, i : Serving(op, i)' <=> Serving(op, i)
  BY SameBusy DEF OneGivenUp
<1>7. srv' = srv /\ typed' = typed /\ gaveUp' = gaveUp \cup {k}
  BY DEF OneGivenUp
<1>8. k \in Opens
  OBVIOUS
<1>9. Types'
  BY Parts, <1>1, <1>2, <1>3, <1>4, <1>5, <1>6, <1>7, <1>8 DEF Types
<1>10. SentKnown'
  BY Parts, <1>4, <1>7, <1>8 DEF SentKnown
<1>11. ClientKnown'
  <2>0. \A i \in back : Text(i) \subseteq 1 .. typed
    BY Parts, <1>1 DEF SentKnown
  <2>1. Texts(back) \subseteq 1 .. typed
    BY <2>0 DEF Texts
  <2>2. QED
    BY Parts, <1>1, <1>4, <1>7, <1>8, <2>1 DEF ClientKnown
<1>12. CallsKnown'
  BY Parts, <1>4, <1>5, <1>6, <1>7, <1>8 DEF CallsKnown
<1>13. RepliesKnown'
  BY Parts, <1>2, <1>4, <1>7, <1>8 DEF RepliesKnown
<1>14. WireKnown'
  BY Parts, <1>3, <1>4, <1>7, <1>8 DEF WireKnown, RunOf, MessageTypes
<1>15. SentWaits'
  BY Parts, <1>4, <1>5, <1>7, <1>8 DEF SentWaits, Accepted
<1>16. ToldIsTrue'
  BY Parts, <1>3, <1>4, <1>6, <1>7, <1>8 DEF ToldIsTrue, Accepted
<1>17. AnsweredTruly'
  BY Parts, <1>2, <1>4, <1>7, <1>8 DEF AnsweredTruly, Accepted
<1>18. AnsweredInTime'
  BY Parts, <1>2, <1>4, <1>7, <1>8 DEF AnsweredInTime
<1>19. InRunOrder'
  BY Parts, <1>3, <1>4 DEF InRunOrder, Before, Wire
<1>20. NotAhead'
  BY Parts, <1>1, <1>3, <1>4, <1>7, <1>8 DEF NotAhead
<1>21. OpensQuietly'
  <2>1. tui.subs # {}
    BY DEF Opens, InState
  <2>2. tui.at = "open"
    BY Parts, <2>1 DEF OpensQuietly
  <2>3. QED
    BY Parts, <1>1, <1>2, <1>3, <1>5, <1>6, <1>7, <1>8, <2>2 DEF OpensQuietly
<1>22. AtItsRun'
  BY Parts, <1>1, <1>3, <1>4, <1>7, <1>8 DEF AtItsRun, Ours, Passed, InRun
<1>23. Answerable'
  BY Parts, <1>1, <1>2, <1>4, <1>5, <1>6, <1>7, <1>8 DEF Answerable, Accepted
<1>24. Untold'
  BY Parts, <1>1, <1>3, <1>4, <1>5, <1>7, <1>8 DEF Untold
<1>25. Pending'
  BY Parts, <1>1, <1>2, <1>4, <1>7, <1>8 DEF Pending, Accepted, RepliesKnown
<1>26. OneLive' /\ NotInDraft'
  <2>1. \A i \in Ids : MayReturn(i)' => MayReturn(i)
    BY <1>1, <1>2, <1>3, <1>4, <1>6 DEF MayReturn, Removal
  <2>2. \A i \in Ids : Live(i)' => Live(i)
    BY <1>1, <1>4, <1>7, <1>8, <2>1 DEF Live
  <2>3. \A i \in back : i \in gaveUp' \/ (Live(i) /\ ~Live(i)')
    <3>1. SUFFICES ASSUME NEW i \in back, i \notin gaveUp' PROVE Live(i) /\ ~Live(i)'
      OBVIOUS
    <3>2. (i \in Faileds \/ i \in Opens) /\ Opens' = {} /\ Faileds' = {} /\ sent[i].state = "refused"
      BY Parts, <1>1, <1>7, <1>8, <3>1 DEF Answerable
    <3>3. QED
      BY <1>4, <3>2 DEF Live, MayReturn
  <2>4. QED
    <3>1. back \in SUBSET Ids /\ gaveUp' \subseteq Ids /\ gaveUp \subseteq gaveUp'
      BY Parts, <1>1, <1>7 DEF Types
    <3>2. QED
      BY Parts, <1>1, <1>4, <1>7, <2>2, <2>3, <3>1, TextsComeBack
<1>27. Somewhere'
  <2>1. \A i \in Ids : Carries(i) => Carries(i)' \/ Text(i) \subseteq tui'.draft
    <3>1. \A i \in Ids : i \in Faileds \/ i = k => i \in Faileds' \/ Text(i) \subseteq tui'.draft
      BY <1>1 DEF Texts
    <3>2. \A i \in Ids : Carries(i) /\ i \notin Opens /\ i \notin Faileds => Carries(i)'
      BY <1>1, <1>2, <1>3, <1>4, <1>6 DEF Carries, Removal
    <3>3. QED
      BY <1>1, <3>1, <3>2 DEF Carries
  <2>2. QED
    BY Parts, <1>1, <1>4, <1>7, <2>1, CarriesOrBack
<1>28. QED
  BY <1>9, <1>10, <1>11, <1>12, <1>13, <1>14, <1>15, <1>16, <1>17, <1>18, <1>19, <1>20, <1>21, <1>22, <1>23, <1>24, <1>25, <1>26, <1>27 DEF TextInv, Known

\* The session is open: what the client knows is what the snapshot says.
LEMMA SnapshotApplied ==
  ASSUME TextInv, NEW x, ReplyHandled(x), x.op = "attach"
  PROVE  TextInv'
<1>1. /\ tui.at # "open" /\ typed = 0 /\ tui.subs = {} /\ srv.run = 1 /\ ~srv.cancelling
      /\ \A i \in Ids : Text(i) = {}
      /\ x \in Snapshots /\ Snapshots = {x} /\ x \in ReplySet /\ x.run \in 0 .. 1 /\ x.cancelling = FALSE
      /\ ~Opening /\ x.pending \subseteq Ids /\ (\A i \in x.pending : sent[i].state \in Accepted /\ sent[i].run # 0)
  <2>1. x \in Snapshots /\ x \in ReplySet
    BY Parts DEF ReplyHandled, Snapshots, Types
  <2>2. x \in [op : {"attach"}, id : {0}, run : Nat, cancelling : BOOLEAN, control : BOOLEAN, pending : SUBSET Nat]
    BY <2>1 DEF ReplySet
  <2>3. tui.at # "open" /\ ~Opening /\ ~x.cancelling /\ Snapshots = {x}
    BY Parts, <2>1 DEF OpensQuietly
  <2>4. x.cancelling = FALSE /\ x.run \in Nat
    <3>1. x.cancelling \in BOOLEAN /\ x.run \in Nat
      BY <2>2
    <3>2. QED
      BY <2>3, <3>1
  <2>5. typed = 0 /\ tui.subs = {} /\ srv.run = 1 /\ ~srv.cancelling
    BY Parts, <2>3 DEF OpensQuietly
  <2>6. x.pending \subseteq Ids /\ x.run <= srv.run
    BY Parts, <2>1 DEF RepliesKnown
  <2>7. \A i \in x.pending : sent[i].state \in Accepted /\ sent[i].run # 0
    BY Parts, <2>1 DEF Pending
  <2>8. \A i \in Ids : Text(i) = {}
    BY Parts, <2>5 DEF SentKnown
  <2>9. x.run \in 0 .. 1
    BY <2>4, <2>5, <2>6
  <2>10. QED
    BY <2>1, <2>3, <2>4, <2>5, <2>6, <2>7, <2>8, <2>9
<1>2. /\ tui' \in Clients /\ tui'.at = "open" /\ tui'.draft = tui.draft /\ tui'.lost = tui.lost
      /\ tui'.pending = x.pending /\ tui'.tombs = {} /\ tui'.active = x.run
      /\ tui'.completed = 0 /\ tui'.subs = {}
      /\ Opens' = {} /\ Faileds' = {} /\ Submitted' = {}
  <2> DEFINE u == [tui EXCEPT !.at = "open", !.completed = 0, !.active = x.run, !.cancelling = FALSE,
                              !.control = x.run # 0 /\ x.control, !.pending = x.pending,
                              !.subs = {}, !.tombs = {}, !.loading = @ \/ x.run # 0]
  <2>1. x \in [op : {"attach"}, id : {0}, run : Nat, cancelling : BOOLEAN, control : BOOLEAN, pending : SUBSET Nat]
    BY <1>1 DEF ReplySet
  <2>2. tui' = u
    BY <1>1 DEF ReplyHandled, Reply, Apply
  <2>3. tui \in Clients /\ x.run \in Nat /\ x.pending \in SUBSET Nat /\ x.control \in BOOLEAN
    BY Parts, <2>1 DEF Types
  <2>4. /\ u \in Clients /\ u.at = "open" /\ u.draft = tui.draft /\ u.lost = tui.lost
        /\ u.pending = x.pending /\ u.tombs = {} /\ u.active = x.run
        /\ u.completed = 0 /\ u.subs = {}
    BY <2>3, ZenonT(40) DEF Clients
  <2> HIDE DEF u
  <2>5. tui'.subs = {}
    BY <2>2, <2>4
  <2>6. Opens' = {} /\ Faileds' = {} /\ Submitted' = {}
    BY <2>5 DEF Opens, Faileds, Submitted, InState, SubIds
  <2>7. QED
    BY <2>2, <2>4, <2>6
<1>3. /\ replies' \subseteq replies /\ Snapshots' = {}
      /\ \A op, i : (Yes(op, i)' <=> Yes(op, i)) /\ (No(op, i)' <=> No(op, i))
  <2>1. replies' = replies \ {x}
    BY DEF ReplyHandled
  <2>2. Snapshots' = {}
    BY <1>1, <2>1 DEF Snapshots
  <2>3. \A op, i, ok : [op |-> op, id |-> i, ok |-> ok] # x
    <3>1. x \in [op : {"attach"}, id : {0}, run : Nat, cancelling : BOOLEAN, control : BOOLEAN, pending : SUBSET Nat]
      BY <1>1 DEF ReplySet
    <3>2. DOMAIN x = {"op", "id", "run", "cancelling", "control", "pending"}
      BY <3>1
    <3>3. \A op, i, ok : DOMAIN [op |-> op, id |-> i, ok |-> ok] = {"op", "id", "ok"}
      OBVIOUS
    <3>4. "run" \in DOMAIN x /\ \A op, i, ok : "run" \notin DOMAIN [op |-> op, id |-> i, ok |-> ok]
      BY <3>2, <3>3
    <3>5. QED
      BY <3>4
  <2>4. QED
    BY <2>1, <2>2, <2>3 DEF Yes, No
<1>4. wire' = wire /\ Wire' = Wire
  BY SameWire DEF ReplyHandled
<1>5. sent' = sent /\ Ids' = Ids /\ (\A i : Text(i)' = Text(i)) /\ (\A m : RunOf(m)' = RunOf(m))
  BY SameSent DEF ReplyHandled, MessagesKept
<1>6. calls' = calls /\ \A op, i : Asked(op, i)' <=> Asked(op, i)
  BY SameCalls DEF ReplyHandled
<1>7. busy' = busy /\ (Opening' <=> Opening) /\ \A op, i : Serving(op, i)' <=> Serving(op, i)
  BY SameBusy DEF ReplyHandled
<1>8. srv' = srv /\ typed' = typed /\ gaveUp' = gaveUp
  BY DEF ReplyHandled
<1>9. Types'
  BY Parts, <1>1, <1>2, <1>3, <1>4, <1>5, <1>6, <1>7, <1>8 DEF Types
<1>10. SentKnown'
  BY Parts, <1>1, InRanges, <1>5, <1>8 DEF SentKnown
<1>11. ClientKnown'
  BY Parts, <1>1, InRanges, <1>2, <1>5, <1>8 DEF ClientKnown
<1>12. CallsKnown'
  BY Parts, <1>1, <1>5, <1>6, <1>7, <1>8 DEF CallsKnown
<1>13. RepliesKnown'
  BY Parts, <1>1, InRanges, <1>3, <1>5, <1>8 DEF RepliesKnown
<1>14. WireKnown'
  BY Parts, <1>1, InRanges, <1>4, <1>5, <1>8 DEF WireKnown, RunOf, MessageTypes
<1>15. SentWaits'
  BY Parts, <1>1, InRanges, <1>5, <1>6, <1>8 DEF SentWaits, Accepted
<1>16. ToldIsTrue'
  BY Parts, <1>1, InRanges, <1>4, <1>5, <1>7, <1>8 DEF ToldIsTrue, Accepted
<1>17. AnsweredTruly'
  BY Parts, <1>1, <1>3, <1>5, <1>8 DEF AnsweredTruly, Accepted
<1>18. AnsweredInTime'
  BY Parts, <1>1, InRanges, <1>3, <1>5, <1>8 DEF AnsweredInTime
<1>19. InRunOrder'
  BY Parts, <1>1, <1>4, <1>5 DEF InRunOrder, Before, Wire
<1>20. NotAhead'
  BY Parts, <1>1, InRanges, <1>2, <1>4, <1>5, <1>8 DEF NotAhead
<1>21. OpensQuietly'
  BY Parts, <1>1, <1>2, <1>3, <1>4, <1>6, <1>7, <1>8 DEF OpensQuietly
<1>22. AtItsRun'
  BY Parts, <1>1, InRanges, <1>2, <1>4, <1>5, <1>8 DEF AtItsRun, Ours, Passed, InRun
<1>23. Answerable'
  BY Parts, <1>1, <1>2, <1>3, <1>5, <1>6, <1>7, <1>8 DEF Answerable, Accepted
<1>24. Untold'
  BY Parts, <1>1, <1>2, <1>4, <1>5, <1>6, <1>8 DEF Untold
<1>25. Pending'
  BY Parts, <1>1, <1>2, <1>3, <1>5, <1>8 DEF Pending, Accepted, RepliesKnown
<1>26. OneLive' /\ NotInDraft'
  <2>1. Ids' = Ids /\ \A i \in Ids : Text(i)' = {}
    BY <1>1, Parts, <1>5
  <2>2. QED
    BY <2>1 DEF OneLive, NotInDraft
<1>27. Somewhere'
  <2>1. typed' = 0
    BY Parts, <1>1, <1>8
  <2>2. QED
    BY <2>1 DEF Somewhere
<1>28. QED
  BY <1>9, <1>10, <1>11, <1>12, <1>13, <1>14, <1>15, <1>16, <1>17, <1>18, <1>19, <1>20, <1>21, <1>22, <1>23, <1>24, <1>25, <1>26, <1>27 DEF TextInv, Known

\* What a client makes of a notification while it opens the session.
Quiet(t, v) ==
  /\ v \in Clients /\ v.subs = {} /\ v.at = t.at /\ v.draft = t.draft /\ v.lost = t.lost
  /\ v.cancelling = FALSE /\ v.missed = t.missed
QuietList(t, v, n) ==
  /\ v.pending \subseteq t.pending \cup (IF n.type = "queued" THEN {n.of} ELSE {})
  /\ v.tombs \subseteq t.tombs \cup (IF n.type \in MessageTypes /\ n.type # "queued" THEN {n.of} ELSE {})
QuietRun(t, v, n) ==
  \/ v.active = t.active /\ v.completed = t.completed
  \/ n.type = "running" /\ v.active = n.of /\ v.completed = 0
  \/ n.type = "end" /\ v.active = 0 /\ v.completed = n.of

\* A client without submissions has none of either kind.
LEMMA NoSubmissions ==
  ASSUME NEW t \in Clients, t.subs = {}
  PROVE  /\ InState(t, "open") = {} /\ InState(t, "failed") = {} /\ SubIds(t) = {}
         /\ SubsOK(t) /\ Texts({}) = {} /\ \A s \in t.subs : Text(s.id) \subseteq Nat
BY DEF InState, SubIds, SubsOK, Texts

\* While a session is opened, a message that is not this client's changes at most the list of what waits, ...
LEMMA MergedQuietly ==
  ASSUME NEW t \in Clients, t.subs = {}, t.cancelling = FALSE, NEW k \in Nat, NEW s \in MessageTypes, Text(k) = {}
  PROVE  LET v == Merge(t, s, k)
         IN /\ Quiet(t, v) /\ v.active = t.active /\ v.completed = t.completed
            /\ v.pending \subseteq t.pending \cup (IF s = "queued" THEN {k} ELSE {})
            /\ v.tombs \subseteq t.tombs \cup (IF s # "queued" THEN {k} ELSE {})
<1> DEFINE v == Merge(t, s, k)
           u == Resolve(t, k, "ok")
<1>1. /\ InState(t, "open") = {} /\ InState(t, "failed") = {} /\ SubIds(t) = {}
      /\ SubsOK(t) /\ Texts({}) = {} /\ Text(k) \subseteq Nat
  BY NoSubmissions
<1>3. ASSUME Outdated(t, sent[k].run)
      PROVE  /\ Quiet(t, v) /\ v.active = t.active /\ v.completed = t.completed
             /\ v.pending = t.pending /\ v.tombs = t.tombs
  <2>1. /\ v \in Clients /\ SameButTexts(t, v) /\ SameSubs(t, v) /\ v.draft = t.draft
        /\ v.lost = IF s = "removed" /\ k \notin t.tombs THEN t.lost \cup Text(k) ELSE t.lost
    BY <1>1, <1>3, MergeOutdated, Zenon
  <2> HIDE DEF v
  <2>2. v.lost = t.lost
    BY <2>1
  <2>3. QED
    BY <2>1, <2>2 DEF SameButTexts, SameSubs, Quiet
<1>4. ASSUME ~Outdated(t, sent[k].run)
      PROVE  /\ Quiet(t, v) /\ v.active = t.active /\ v.completed = t.completed
             /\ v.pending \subseteq t.pending \cup (IF s = "queued" THEN {k} ELSE {})
             /\ v.tombs \subseteq t.tombs \cup (IF s # "queued" THEN {k} ELSE {})
  <2>1. /\ u \in Clients /\ SubsOK(u) /\ SameButTexts(t, u) /\ u.lost = t.lost
        /\ u.subs = {} /\ u.draft = t.draft
    <3>1. \A i \in InState(t, "failed") \cup {k} : Text(i) \subseteq Nat
      BY <1>1
    <3>2. (InState(t, "failed") \ {k}) \cup {} = InState(t, "failed")
      BY <1>1
    <3>a. SubsOK(t)
      BY <1>1
    <3>3. /\ u \in Clients /\ SubsOK(u) /\ SameButTexts(t, u) /\ u.lost = t.lost
          /\ InState(u, "open") = InState(t, "open") \ {k}
          /\ IF InState(u, "open") # {}
             THEN InState(u, "failed") = InState(t, "failed") /\ u.draft = t.draft
             ELSE u.subs = {} /\ InState(u, "failed") = {} /\ u.draft = t.draft \cup Texts(InState(t, "failed"))
      BY <3>a, <3>1, <3>2, ResolveFacts
    <3> HIDE DEF u
    <3>4. QED
      BY <1>1, <3>3
  <2>2. u \in Clients /\ SameButTexts(t, u) /\ u.lost = t.lost
    BY <2>1
  <2>3. /\ v \in Clients /\ SameRun(t, v) /\ SameSubs(u, v) /\ v.lost = t.lost
        /\ s = "queued" =>
             /\ v.pending = IF k \in t.tombs THEN t.pending ELSE t.pending \cup {k}
             /\ v.tombs = t.tombs /\ v.draft = u.draft
        /\ s # "queued" =>
             /\ v.pending = t.pending \ {k} /\ v.tombs = t.tombs \cup {k}
             /\ v.draft = IF s \in {"removed", "rejected"} /\ k \notin t.tombs
                          THEN u.draft \cup Text(k) ELSE u.draft
    BY <1>1, <1>4, <2>2, MergeFacts, ZenonT(30)
  <2> HIDE DEF u, v
  <2>4. v.draft = t.draft
    BY <2>1, <2>3
  <2>5. v.subs = {} /\ Quiet(t, v) /\ v.active = t.active /\ v.completed = t.completed
    BY <2>1, <2>3, <2>4 DEF SameSubs, SameRun, Quiet
  <2>6. QED
    BY <2>3, <2>5
<1> HIDE DEF u
<1>5. /\ Quiet(t, v) /\ v.active = t.active /\ v.completed = t.completed
      /\ v.pending \subseteq t.pending \cup (IF s = "queued" THEN {k} ELSE {})
      /\ v.tombs \subseteq t.tombs \cup (IF s # "queued" THEN {k} ELSE {})
  <2> HIDE DEF v
  <2> QED BY <1>3, <1>4
<1>6. QED
  BY <1>5

\* ... and every other notification at most the run.
LEMMA HandledQuietly ==
  ASSUME NEW t \in Clients, t.at # "open", t.subs = {}, t.cancelling = FALSE, NEW n \in NoteSet,
         n.type # "cancelling", n.type = "running" => srv.mine[n.of] \in BOOLEAN,
         n.type \in MessageTypes => Text(n.of) = {}
  PROVE  LET v == Handled(t, n) IN Quiet(t, v) /\ QuietList(t, v, n) /\ QuietRun(t, v, n)
<1> DEFINE v == Handled(t, n)
<1>1. n.of \in Nat /\ n.type \in MessageTypes \cup RunTypes
  BY DEF NoteSet
<1>2. /\ InState(t, "open") = {} /\ InState(t, "failed") = {} /\ SubIds(t) = {}
      /\ SubsOK(t) /\ Texts({}) = {} /\ \A s \in t.subs : Text(s.id) \subseteq Nat
  BY NoSubmissions
<1>3. Quiet(t, t) /\ QuietList(t, t, n) /\ QuietRun(t, t, n)
  BY DEF Quiet, QuietList, QuietRun
<1>4. CASE v = t
  BY <1>3, <1>4
<1>5. CASE n.type = "idle" \/ t.at = "welcome"
  <2>1. v = t
    <3>1. CASE n.type = "idle"
      BY <3>1 DEF Handled, Idle
    <3>2. CASE n.type # "idle" /\ t.at = "welcome"
      BY <3>2 DEF Handled
    <3>3. QED
      BY <1>5, <3>1, <3>2
  <2>2. QED
    BY <1>3, <2>1
<1>6. CASE n.type = "running" /\ t.at # "welcome"
  <2> DEFINE r == n.of
  <2>1. v = Running(t, r)
    BY <1>6 DEF Handled
  <2>2. CASE r = t.completed
    <3>1. v = t
      BY <2>1, <2>2 DEF Running
    <3>2. QED
      BY <1>3, <3>1
  <2>3. CASE r # t.completed
    <3> DEFINE w == Running(t, r)
    <3>1. srv.mine[r] \in BOOLEAN /\ r \in Nat
      BY <1>1, <1>6
    <3>2. /\ w \in Clients /\ SubsOK(w)
          /\ w.active = r /\ w.completed = 0 /\ w.at = t.at /\ w.missed = t.missed
          /\ w.cancelling = t.cancelling
          /\ r = t.active =>
               /\ SameSubs(t, w) /\ w.draft = t.draft /\ w.lost = t.lost
               /\ w.pending = t.pending /\ w.tombs = t.tombs
          /\ r # t.active =>
               /\ w.subs = {} /\ w.pending = {} /\ w.tombs = {}
               /\ w.draft = t.draft \cup Texts(InState(t, "open"))
               /\ w.lost = t.lost \cup Texts(InState(t, "failed"))
      BY <1>2, <2>3, <3>1, RunningFacts
    <3> HIDE DEF w
    <3>3. w.draft = t.draft /\ w.lost = t.lost /\ w.subs = {} /\ w.pending \subseteq t.pending /\ w.tombs \subseteq t.tombs
      BY <1>2, <3>2 DEF SameSubs
    <3>4. Quiet(t, w) /\ QuietList(t, w, n) /\ QuietRun(t, w, n)
      BY <1>6, <3>2, <3>3 DEF Quiet, QuietList, QuietRun
    <3>5. QED
      BY <2>1, <3>4 DEF w
  <2>4. QED
    BY <2>2, <2>3
<1>7. CASE n.type = "end" /\ t.at # "welcome"
  <2> DEFINE r == n.of
             w == Ended(t, r)
  <2>1. v = w
    BY <1>7 DEF Handled
  <2>2. CASE r = t.completed \/ (t.active # 0 /\ r # t.active)
    <3>1. v = t
      BY <2>1, <2>2 DEF Ended
    <3>2. QED
      BY <1>3, <3>1
  <2>3. CASE ~(r = t.completed \/ (t.active # 0 /\ r # t.active))
    <3>1. /\ w \in Clients
          /\ w.active = 0 /\ w.completed = r /\ w.at = t.at /\ w.missed = t.missed
          /\ ~w.cancelling /\ w.subs = {} /\ w.pending = {} /\ w.tombs = t.tombs
          /\ w.draft = t.draft \cup Texts(InState(t, "open"))
          /\ w.lost = t.lost \cup Texts(InState(t, "failed"))
      BY <1>1, <1>2, <2>3, EndedFacts
    <3> HIDE DEF w
    <3>2. w.cancelling = FALSE
      BY <3>1 DEF Clients
    <3>3. w.draft = t.draft /\ w.lost = t.lost /\ w.pending \subseteq t.pending /\ w.tombs \subseteq t.tombs
      BY <1>2, <3>1
    <3>4. Quiet(t, w) /\ QuietList(t, w, n) /\ QuietRun(t, w, n)
      BY <1>7, <3>1, <3>2, <3>3 DEF Quiet, QuietList, QuietRun
    <3>5. QED
      BY <2>1, <3>4 DEF w
  <2>4. QED
    BY <2>2, <2>3
<1>8. CASE n.type \in {"compactError", "compactDone"} /\ t.at # "welcome"
  <2> DEFINE w == CompactFailed(t)
  <2>1. v = w \/ v = t
    BY <1>8 DEF Handled, CompactDone
  <2>2. /\ w \in Clients /\ w.subs = {} /\ w.at = t.at /\ w.draft = t.draft /\ w.lost = t.lost
        /\ w.cancelling = FALSE /\ w.missed = t.missed /\ w.pending = t.pending /\ w.tombs = t.tombs
        /\ w.active = t.active /\ w.completed = t.completed
    BY DEF CompactFailed, Clients
  <2> HIDE DEF w
  <2>3. Quiet(t, w) /\ QuietList(t, w, n) /\ QuietRun(t, w, n)
    BY <2>2 DEF Quiet, QuietList, QuietRun
  <2>4. QED
    BY <1>3, <2>1, <2>3
<1>9. CASE n.type \in MessageTypes /\ t.at # "welcome"
  <2> DEFINE w == Merge(t, n.type, n.of)
  <2>1. v = w
    BY <1>9 DEF Handled, MessageTypes
  <2>2. Text(n.of) = {}
    BY <1>9
  <2>3. /\ Quiet(t, w) /\ w.active = t.active /\ w.completed = t.completed
        /\ w.pending \subseteq t.pending \cup (IF n.type = "queued" THEN {n.of} ELSE {})
        /\ w.tombs \subseteq t.tombs \cup (IF n.type # "queued" THEN {n.of} ELSE {})
    BY <1>1, <1>9, <2>2, MergedQuietly
  <2> HIDE DEF w
  <2>4. QuietList(t, w, n) /\ QuietRun(t, w, n)
    BY <1>9, <2>3 DEF QuietList, QuietRun
  <2>5. QED
    BY <2>1, <2>3, <2>4
<1>10. QED
  BY <1>1, <1>5, <1>6, <1>7, <1>8, <1>9 DEF RunTypes

\* What is told while the session is opened.
LEMMA MissedText ==
  ASSUME TextInv, HandleNote, tui.at # "open"
  PROVE  TextInv'
<1> PICK n : n = Head(wire)
  OBVIOUS
<1>1. /\ typed = 0 /\ tui.subs = {} /\ srv.run = 1 /\ ~srv.cancelling /\ tui.cancelling = FALSE
      /\ (\A i \in Ids : Text(i) = {}) /\ tui.draft = {} /\ tui.lost = {}
  <2>1. typed = 0 /\ tui.subs = {} /\ srv.run = 1 /\ ~srv.cancelling /\ ~tui.cancelling
    BY Parts DEF OpensQuietly
  <2>2. tui.cancelling \in BOOLEAN
    BY Parts DEF Types, Clients
  <2>3. \A i \in Ids : Text(i) = {}
    BY Parts, <2>1 DEF SentKnown
  <2>4. QED
    BY Parts, <2>1, <2>2, <2>3 DEF ClientKnown
<1>2. /\ wire' \in Seq(NoteSet) /\ n \in NoteSet /\ n \in Wire /\ Wire' \subseteq Wire
      /\ (\A m \in Wire : m = n \/ m \in Wire') /\ (\A m \in Wire' : Before(n, m)) /\ InRunOrder'
  BY Parts, HandledFacts DEF HandleNote
<1>3. /\ n.type # "cancelling"
      /\ n.type # "idle" => RunOf(n) \in 1 .. srv.run
      /\ n.type \in MessageTypes => n.of \in Ids /\ sent[n.of].run # 0
      /\ n.type \notin MessageTypes => RunOf(n) = n.of
      /\ n.type \in MessageTypes => sent[n.of].state \in IF n.type = "queued" THEN Accepted ELSE {n.type}
  <2>1. n.type # "cancelling"
    BY Parts, <1>1, <1>2 DEF OpensQuietly
  <2>2. n.type # "idle" => RunOf(n) \in 1 .. srv.run
    BY InRanges, <1>2
  <2>3. n.type \in MessageTypes => n.of \in Ids /\ RunOf(n) = sent[n.of].run /\ n.type # "idle"
    BY Parts, <1>2 DEF WireKnown, RunOf, MessageTypes
  <2>4. n.type \in MessageTypes => sent[n.of].run # 0
    BY <1>1, <2>2, <2>3
  <2>5. n = Note(n.type, n.of)
    BY <1>2 DEF NoteSet, Note
  <2>6. n.type \in MessageTypes => sent[n.of].state \in IF n.type = "queued" THEN Accepted ELSE {n.type}
    BY Parts, <1>2, <2>3, <2>5 DEF ToldIsTrue, MessageTypes
  <2>7. n.type \notin MessageTypes => RunOf(n) = n.of
    BY DEF RunOf
  <2>8. QED
    BY <2>1, <2>2, <2>3, <2>4, <2>6, <2>7
<1>4. /\ tui' \in Clients /\ tui'.at = tui.at /\ tui'.draft = {} /\ tui'.lost = {}
      /\ tui'.cancelling = FALSE /\ tui'.subs = {} /\ QuietList(tui, tui', n) /\ QuietRun(tui, tui', n)
      /\ Opens' = {} /\ Faileds' = {} /\ Submitted' = {}
  <2> DEFINE v == Handled(tui, n)
             w == [v EXCEPT !.missed = @ \cup {n}]
  <2>1. tui' = w
    BY DEF HandleNote
  <2>2. tui \in Clients
    BY Parts DEF Types
  <2>3. n.type = "running" => srv.mine[n.of] \in BOOLEAN
    <3>1. srv \in SessionSet /\ MaxRuns \in Nat \ {0}
      BY Parts, SteeringClientAssumption DEF Types
    <3>2. n.type = "running" => n.of \in 1 .. 1
      BY <1>1, <1>3 DEF MessageTypes
    <3>3. n.type = "running" => n.of \in 1 .. MaxRuns
      BY <3>1, <3>2
    <3>4. QED
      BY <3>1, <3>3 DEF SessionSet
  <2>4. n.type \in MessageTypes => Text(n.of) = {}
    BY <1>1, <1>3
  <2>5. Quiet(tui, v) /\ QuietList(tui, v, n) /\ QuietRun(tui, v, n)
    BY <1>1, <1>2, <1>3, <2>2, <2>3, <2>4, HandledQuietly
  <2> HIDE DEF v
  <2>6. /\ w \in Clients /\ w.at = v.at /\ w.draft = v.draft /\ w.lost = v.lost /\ w.cancelling = v.cancelling
        /\ w.subs = v.subs /\ w.pending = v.pending /\ w.tombs = v.tombs /\ w.active = v.active /\ w.completed = v.completed
    BY <1>2, <2>5 DEF Quiet, Clients
  <2> HIDE DEF w
  <2>7. tui'.subs = {}
    BY <2>1, <2>5, <2>6 DEF Quiet
  <2>8. Opens' = {} /\ Faileds' = {} /\ Submitted' = {}
    BY <2>7 DEF Opens, Faileds, Submitted, InState, SubIds
  <2>9. QED
    BY <1>1, <2>1, <2>5, <2>6, <2>7, <2>8 DEF Quiet, QuietList, QuietRun
<1>5. \A i : /\ Note("queued", i) \in Wire' => Note("queued", i) \in Wire
             /\ Note("removed", i) \in Wire' => Note("removed", i) \in Wire
             /\ Note("applied", i) \in Wire' => Note("applied", i) \in Wire
             /\ Note("rejected", i) \in Wire' => Note("rejected", i) \in Wire
  BY <1>2
<1>6. sent' = sent /\ Ids' = Ids /\ (\A i : Text(i)' = Text(i)) /\ (\A m : RunOf(m)' = RunOf(m))
  BY SameSent DEF HandleNote, MessagesKept
<1>7. calls' = calls /\ \A op, i : Asked(op, i)' <=> Asked(op, i)
  BY SameCalls DEF HandleNote
<1>8. busy' = busy /\ (Opening' <=> Opening) /\ \A op, i : Serving(op, i)' <=> Serving(op, i)
  BY SameBusy DEF HandleNote
<1>9. /\ replies' = replies /\ Snapshots' = Snapshots
      /\ \A op, i : (Yes(op, i)' <=> Yes(op, i)) /\ (No(op, i)' <=> No(op, i))
  BY SameReplies DEF HandleNote
<1>10. srv' = srv
  BY DEF HandleNote
<1>11. typed' = typed /\ gaveUp' = gaveUp
  BY DEF HandleNote
<1>12. Types'
  BY Parts, <1>1, <1>2, <1>3, <1>4, <1>5, <1>6, <1>7, <1>8, <1>9, <1>10, <1>11 DEF Types
<1>13. SentKnown'
  BY Parts, <1>1, InRanges, <1>6, <1>10, <1>11 DEF SentKnown
<1>14. ClientKnown'
  <2>1. tui'.pending \subseteq Ids /\ tui'.tombs \subseteq Ids
    BY Parts, <1>3, <1>4 DEF QuietList, MessageTypes
  <2>2. tui'.active <= srv.run /\ tui'.completed <= srv.run
    BY <1>1, InRanges, <1>3, <1>4 DEF QuietRun, MessageTypes
  <2>3. QED
    BY <1>4, <1>6, <1>10, <1>11, <2>1, <2>2 DEF ClientKnown
<1>15. CallsKnown'
  BY Parts, <1>1, <1>6, <1>7, <1>8, <1>10, <1>11 DEF CallsKnown
<1>16. RepliesKnown'
  BY Parts, <1>1, InRanges, <1>6, <1>9, <1>10, <1>11 DEF RepliesKnown
<1>17. WireKnown'
  BY Parts, <1>1, InRanges, <1>2, <1>3, <1>5, <1>6, <1>10, <1>11 DEF WireKnown, RunOf, MessageTypes
<1>18. SentWaits'
  BY Parts, <1>1, InRanges, <1>6, <1>7, <1>10, <1>11 DEF SentWaits, Accepted
<1>19. ToldIsTrue'
  BY Parts, <1>1, InRanges, <1>2, <1>3, <1>5, <1>6, <1>8, <1>10, <1>11 DEF ToldIsTrue, Accepted
<1>20. AnsweredTruly'
  BY Parts, <1>1, <1>6, <1>9, <1>10, <1>11 DEF AnsweredTruly, Accepted
<1>21. AnsweredInTime'
  BY Parts, <1>1, InRanges, <1>6, <1>9, <1>10, <1>11 DEF AnsweredInTime
<1>22. InRunOrder'
  BY <1>2
<1>23. NotAhead'
  <2>1. /\ tui'.active <= 1 /\ tui'.completed <= 1 /\ tui'.active \in Nat /\ tui'.completed \in Nat
    BY <1>1, InRanges, <1>3, <1>4 DEF QuietRun, MessageTypes
  <2>2. \A m \in Wire' : m.type # "idle" => tui'.active <= RunOf(m) /\ tui'.completed <= RunOf(m)
    BY <1>1, InRanges, <1>2, <2>1
  <2>3. \A m \in Wire' : m.type = "end" => RunOf(m) = m.of
    BY DEF RunOf, MessageTypes
  <2>4. n.type = "end" => \A m \in Wire' : m.type = "end" => n.of < m.of
    <3>1. n.type = "end" => RunOf(n) = n.of
      BY <1>3 DEF MessageTypes
    <3>2. QED
      BY <1>2, <2>3, <3>1 DEF Before, InRun
  <2>5. \A m \in Wire' : m.type = "end" => tui'.completed # m.of
    <3>1. \A m \in Wire' : m.type = "end" => m.of \in 1 .. 1
      BY <1>1, InRanges, <1>2
    <3>2. \A m \in Wire' : m.type = "end" => tui.completed # m.of
      BY Parts, <1>2 DEF NotAhead
    <3>3. QED
      BY <1>1, <1>3, <1>4, <2>4, <3>1, <3>2 DEF QuietRun, MessageTypes
  <2>6. tui'.completed # 0 => tui'.completed < srv.run \/ srv.told
    BY Parts, <1>2, <1>4 DEF NotAhead, QuietRun
  <2>7. tui'.active # 0 => tui'.completed = 0
    BY Parts, <1>4 DEF NotAhead, QuietRun
  <2>8. (\A m \in Wire' : m.type = "end" => m.of < srv.run \/ srv.told) /\ (srv.told => srv.mode # "running")
    BY Parts, <1>2 DEF NotAhead
  <2>9. QED
    BY <1>6, <1>10, <2>2, <2>5, <2>6, <2>7, <2>8 DEF NotAhead
<1>24. OpensQuietly'
  BY Parts, <1>1, <1>2, <1>3, <1>4, <1>5, <1>7, <1>8, <1>9, <1>10, <1>11 DEF OpensQuietly
<1>25. AtItsRun'
  BY Parts, <1>1, InRanges, <1>2, <1>3, <1>4, <1>5, <1>6, <1>10, <1>11 DEF AtItsRun, Ours, Passed, InRun
<1>26. Answerable'
  BY Parts, <1>1, <1>4, <1>6, <1>7, <1>8, <1>9, <1>10, <1>11 DEF Answerable, Accepted
<1>27. Untold'
  BY Parts, <1>1, <1>2, <1>3, <1>4, <1>5, <1>6, <1>7, <1>10, <1>11 DEF Untold
<1>28. Pending'
  <2>1. \A i \in tui'.pending : sent[i].state \in Accepted /\ sent[i].run # 0
    BY Parts, <1>3, <1>4 DEF Pending, QuietList, MessageTypes
  <2>2. \A i \in tui'.tombs : sent[i].state \in {"removed", "applied", "rejected"} /\ sent[i].run # 0
    BY Parts, <1>3, <1>4 DEF Pending, QuietList, MessageTypes
  <2>3. QED
    BY Parts, <1>6, <1>9, <2>1, <2>2 DEF Pending
<1>29. OneLive' /\ NotInDraft'
  <2>1. Ids' = Ids /\ \A i \in Ids : Text(i)' = {}
    BY <1>1, Parts, <1>6
  <2>2. QED
    BY <2>1 DEF OneLive, NotInDraft
<1>30. Somewhere'
  <2>1. typed' = 0
    BY Parts, <1>1, <1>10, <1>11
  <2>2. QED
    BY <2>1 DEF Somewhere
<1>31. QED
  BY <1>12, <1>13, <1>14, <1>15, <1>16, <1>17, <1>18, <1>19, <1>20, <1>21, <1>22, <1>23, <1>24, <1>25, <1>26, <1>27, <1>28, <1>29, <1>30 DEF TextInv, Known

\* A new message is one nobody has heard of.
LEMMA SentGrows ==
  ASSUME Types, Known, NEW e \in MessageSet, sent' = Append(sent, e), NEW k, k = Len(sent) + 1
  PROVE  /\ sent' \in Seq(MessageSet) /\ k \in Nat /\ k \notin Ids /\ Ids' = Ids \cup {k}
         /\ sent'[k] = e /\ Text(k)' = e.text
         /\ \A i \in Ids : sent'[i] = sent[i] /\ Text(i)' = Text(i)
         /\ \A n \in Wire : RunOf(n)' = RunOf(n)
<1>1. sent \in Seq(MessageSet) /\ Len(sent) \in Nat /\ Ids = 1 .. Len(sent)
  BY DEF Types, Ids
<1>2. /\ sent' \in Seq(MessageSet) /\ Len(sent') = Len(sent) + 1 /\ sent'[Len(sent) + 1] = e
      /\ \A i \in 1 .. Len(sent) : sent'[i] = sent[i]
  BY <1>1, AppendProperties
<1>3. Ids' = Ids \cup {k} /\ k \notin Ids /\ k \in Nat
  BY <1>1, <1>2 DEF Ids
<1>4. \A i \in Ids : sent'[i] = sent[i] /\ Text(i)' = Text(i)
  BY <1>1, <1>2 DEF Text
<1>5. \A n \in Wire : RunOf(n)' = RunOf(n)
  BY <1>4 DEF RunOf, Known, WireKnown
<1>6. QED
  BY <1>2, <1>3, <1>4, <1>5 DEF Text

\* Nobody has heard of a message that is not sent yet.
LEMMA Unheard ==
  ASSUME Types, Known, NEW k, k \notin Ids
  PROVE  /\ \A op \in {"steer", "send", "remove"} : ~Asked(op, k) /\ ~Yes(op, k) /\ ~No(op, k)
         /\ ~Serving("steer", k) /\ ~Serving("remove", k)
         /\ Note("queued", k) \notin Wire /\ Note("removed", k) \notin Wire
         /\ Note("applied", k) \notin Wire /\ Note("rejected", k) \notin Wire
         /\ k \notin Submitted /\ k \notin tui.pending /\ k \notin tui.tombs /\ k \notin gaveUp
<1>1. \A op \in {"steer", "send", "remove"} : ~Asked(op, k) /\ ~Yes(op, k) /\ ~No(op, k)
  BY DEF Known, CallsKnown, RepliesKnown
<1>2. ~Serving("steer", k) /\ ~Serving("remove", k)
  BY DEF Known, CallsKnown
<1>3. \A n \in Wire : n.type \in MessageTypes => n.of # k
  BY DEF Known, WireKnown
<1>4. /\ Note("queued", k) \notin Wire /\ Note("removed", k) \notin Wire
      /\ Note("applied", k) \notin Wire /\ Note("rejected", k) \notin Wire
  BY <1>3, NoteFacts DEF MessageTypes
<1>5. k \notin Submitted /\ k \notin tui.pending /\ k \notin tui.tombs /\ k \notin gaveUp
  BY ClientKnows DEF Types
<1>6. QED
  BY <1>1, <1>2, <1>4, <1>5

\* What is typed and what has come back is in no message that may return.
LEMMA TextsEntered ==
  ASSUME OneLive, NotInDraft, typed \in Nat, NEW k, k \notin Ids, Ids' = Ids \cup {k},
         \A i \in Ids : Text(i)' = Text(i) /\ Text(i) \subseteq 1 .. typed,
         NEW new \in 0 .. 1, Text(k)' = tui.draft \cup (typed + 1 .. typed + new),
         gaveUp' = gaveUp, gaveUp \subseteq Ids, tui'.draft = {},
         \A i \in Ids : Live(i)' => Live(i)
  PROVE  OneLive' /\ NotInDraft'
<1>1. \A x : Given(x) => Given(x)'
  BY DEF Given
<1>2. \A i \in Ids : \A x \in Text(i) : Live(i)' /\ x \in Text(k)' => Given(x)'
  <2>1. \A i \in Ids : \A x \in Text(i) : x \notin typed + 1 .. typed + new
    OBVIOUS
  <2>2. QED
    BY <1>1, <2>1 DEF NotInDraft
<1>3. \A i, j \in Ids : \A x \in Text(i) : i # j /\ Live(i)' /\ Live(j)' /\ x \in Text(j) => Given(x)'
  BY <1>1 DEF OneLive
<1>4. OneLive'
  <2>1. SUFFICES ASSUME NEW i \in Ids', NEW j \in Ids', NEW x \in Text(i)', i # j, Live(i)', Live(j)', x \in Text(j)'
                 PROVE  Given(x)'
    BY DEF OneLive
  <2>2. CASE i = k
    BY <1>2, <2>1, <2>2
  <2>3. CASE j = k
    BY <1>2, <2>1, <2>3
  <2>4. CASE i \in Ids /\ j \in Ids
    BY <1>3, <2>1, <2>4
  <2>5. QED
    BY <2>1, <2>2, <2>3, <2>4
<1>5. NotInDraft'
  BY DEF NotInDraft
<1>6. QED
  BY <1>4, <1>5

\* And goes with the new message.
LEMMA EnteredSomewhere ==
  ASSUME Somewhere, typed \in Nat, NEW k, Ids' = Ids \cup {k}, \A i \in Ids : Text(i)' = Text(i),
         NEW new \in 0 .. 1, typed' = typed + new, Text(k)' = tui.draft \cup (typed + 1 .. typed + new),
         tui'.lost = tui.lost, Carries(k)', \A i \in Ids : Carries(i) => Carries(i)'
  PROVE  Somewhere'
<1>1. SUFFICES ASSUME NEW x \in 1 .. typed'
               PROVE  x \in tui'.draft \/ x \in tui'.lost \/ \E id \in Ids' : Carries(id)' /\ x \in Text(id)'
  BY DEF Somewhere
<1>2. x \in 1 .. typed \/ x \in typed + 1 .. typed + new
  BY <1>1
<1>3. CASE x \in Text(k)'
  BY <1>3
<1>4. CASE x \in 1 .. typed /\ x \notin tui.draft
  BY <1>4 DEF Somewhere
<1>5. QED
  BY <1>2, <1>3, <1>4

\* Enter, with what is typed since.
EnterText(new) == tui.draft \cup (typed + 1 .. typed + new)
SteerEntered(new) ==
  /\ tui.at = "open" /\ typed' = typed + new /\ EnterText(new) # {} /\ CanSteer(tui)
  /\ sent' = Append(sent, [run |-> tui.active, text |-> EnterText(new), state |-> "sent"])
  /\ Call("steer", Len(sent) + 1)
  /\ tui' = [tui EXCEPT !.draft = {}, !.subs = @ \cup {[id |-> Len(sent) + 1, state |-> "open"]}]
  /\ UNCHANGED <<replies, wire, srv, busy, gaveUp>>
SendEntered(new) ==
  /\ tui.at = "open" /\ typed' = typed + new /\ EnterText(new) # {}
  /\ sent' = Append(sent, [run |-> 0, text |-> EnterText(new), state |-> "sent"])
  /\ Call("send", Len(sent) + 1)
  /\ tui' = [tui EXCEPT !.draft = {}, !.completed = 0, !.control = TRUE, !.loading = TRUE]
  /\ UNCHANGED <<replies, wire, srv, busy, gaveUp>>

\* A message is sent to the run.
LEMMA SteerEnteredText ==
  ASSUME TextInv, NEW new \in 0 .. 1, SteerEntered(new)
  PROVE  TextInv'
<1>k. PICK k, text : k = Len(sent) + 1 /\ text = EnterText(new)
  OBVIOUS
<1>1. /\ sent' \in Seq(MessageSet) /\ k \in Nat /\ k \notin Ids /\ Ids' = Ids \cup {k}
      /\ sent'[k].run = tui.active /\ sent'[k].state = "sent" /\ Text(k)' = text /\ text # {}
      /\ (\A i \in Ids : sent'[i] = sent[i] /\ Text(i)' = Text(i)) /\ (\A n \in Wire : RunOf(n)' = RunOf(n))
      /\ text = tui.draft \cup (typed + 1 .. typed + new) /\ text \subseteq 1 .. typed' /\ typed \in Nat /\ typed' \in Nat
  <2> DEFINE e == [run |-> tui.active, text |-> text, state |-> "sent"]
  <2>1. typed \in Nat /\ tui.draft \subseteq 1 .. typed /\ typed' = typed + new /\ tui.active \in Nat
    BY Parts DEF Types, ClientKnown, Clients, SteerEntered
  <2>2. text \subseteq 1 .. typed' /\ text \subseteq Nat /\ text # {}
    BY <2>1, <1>k DEF EnterText, SteerEntered
  <2>3. e \in MessageSet /\ e.run = tui.active /\ e.text = text /\ e.state = "sent"
    BY <2>1, <2>2 DEF MessageSet, Fates
  <2>4. sent' = Append(sent, e) /\ k = Len(sent) + 1
    BY <1>k DEF SteerEntered
  <2> HIDE DEF e
  <2>5. /\ sent' \in Seq(MessageSet) /\ k \in Nat /\ k \notin Ids /\ Ids' = Ids \cup {k}
        /\ sent'[k] = e /\ Text(k)' = e.text
        /\ \A i \in Ids : sent'[i] = sent[i] /\ Text(i)' = Text(i)
        /\ \A n \in Wire : RunOf(n)' = RunOf(n)
    BY Parts, <2>3, <2>4, SentGrows, ZenonT(40)
  <2>6. QED
    BY <1>k, <2>1, <2>2, <2>3, <2>5 DEF EnterText
<1>2. /\ tui' \in Clients /\ tui'.at = tui.at /\ tui'.draft = {} /\ tui'.lost = tui.lost
      /\ tui'.pending = tui.pending /\ tui'.tombs = tui.tombs /\ tui'.active = tui.active
      /\ tui'.completed = tui.completed /\ tui.active # 0 /\ tui'.subs = tui.subs \cup {[id |-> k, state |-> "open"]}
      /\ Opens' = Opens \cup {k} /\ Faileds' = Faileds /\ Submitted' = Submitted \cup {k}
  <2> DEFINE s == [id |-> k, state |-> "open"]
  <2>1. tui' = [tui EXCEPT !.draft = {}, !.subs = @ \cup {s}] /\ k \in Nat /\ tui.active # 0
    BY <1>k, <1>1 DEF SteerEntered, CanSteer
  <2>2. tui \in Clients /\ s \in [id : Nat, state : {"open", "ok", "failed"}] /\ s.id = k /\ s.state = "open"
    BY Parts, <2>1 DEF Types
  <2> HIDE DEF s
  <2>3. /\ tui' \in Clients /\ tui'.at = tui.at /\ tui'.draft = {} /\ tui'.lost = tui.lost
        /\ tui'.pending = tui.pending /\ tui'.tombs = tui.tombs /\ tui'.active = tui.active
        /\ tui'.completed = tui.completed /\ tui'.subs = tui.subs \cup {s}
    BY <2>1, <2>2 DEF Clients
  <2>4. Opens' = Opens \cup {k}
    BY <2>2, <2>3 DEF Opens, InState
  <2>5. Faileds' = Faileds
    BY <2>2, <2>3 DEF Faileds, InState
  <2>6. Submitted' = Submitted \cup {k}
    BY <2>2, <2>3 DEF Submitted, SubIds
  <2>7. QED
    BY <2>1, <2>3, <2>4, <2>5, <2>6 DEF s
<1>3. calls' \subseteq CallSet /\ \A op, i : Asked(op, i)' <=> Asked(op, i) \/ (op = "steer" /\ i = k)
  <2>1. calls' = calls \cup {[op |-> "steer", id |-> k]} /\ k \in Nat
    BY <1>k, <1>1 DEF SteerEntered, Call
  <2>2. calls \subseteq CallSet
    BY Parts DEF Types
  <2>3. QED
    BY <2>1, <2>2 DEF Asked, CallSet
<1>4. /\ (\A op \in {"steer", "send", "remove"} : ~Asked(op, k) /\ ~Yes(op, k) /\ ~No(op, k))
      /\ ~Serving("steer", k) /\ ~Serving("remove", k)
      /\ Note("queued", k) \notin Wire /\ Note("removed", k) \notin Wire
      /\ Note("applied", k) \notin Wire /\ Note("rejected", k) \notin Wire
      /\ k \notin Submitted /\ k \notin tui.pending /\ k \notin tui.tombs /\ k \notin gaveUp
  BY Parts, <1>1, Unheard
<1>5. wire' = wire /\ Wire' = Wire
  BY SameWire DEF SteerEntered
<1>6. /\ replies' = replies /\ Snapshots' = Snapshots
      /\ \A op, i : (Yes(op, i)' <=> Yes(op, i)) /\ (No(op, i)' <=> No(op, i))
  BY SameReplies DEF SteerEntered
<1>7. busy' = busy /\ (Opening' <=> Opening) /\ \A op, i : Serving(op, i)' <=> Serving(op, i)
  BY SameBusy DEF SteerEntered
<1>8. srv' = srv /\ gaveUp' = gaveUp /\ tui.at = "open" /\ typed' = typed + new
  BY DEF SteerEntered
<1>9. Types'
  BY Parts, <1>1, <1>2, <1>3, <1>4, <1>5, <1>6, <1>7, <1>8 DEF Types
<1>10. SentKnown'
  <2>1. \A i \in Ids' : sent'[i].run <= srv.run
    BY Parts, <1>1, InRanges, <1>4, <1>8, SMTT(30)
  <2>2. 1 .. typed \subseteq 1 .. typed'
    BY Parts, <1>1, <1>4, <1>8
  <2>3. \A i \in Ids' : Text(i)' \subseteq 1 .. typed'
    BY Parts, <1>1, InRanges, <1>4, <1>8, <2>2
  <2>4. QED
    BY Parts, <1>1, InRanges, <1>4, <1>8, <2>1, <2>3 DEF SentKnown
<1>11. ClientKnown'
  BY Parts, <1>1, InRanges, <1>2, <1>4, <1>8 DEF ClientKnown
<1>12. CallsKnown'
  BY Parts, <1>1, <1>3, <1>4, <1>7, <1>8 DEF CallsKnown
<1>13. RepliesKnown'
  BY Parts, <1>1, InRanges, <1>4, <1>6, <1>8 DEF RepliesKnown
<1>14. WireKnown'
  BY Parts, <1>1, InRanges, <1>4, <1>5, <1>8 DEF WireKnown, RunOf, MessageTypes
<1>15. SentWaits'
  BY Parts, <1>1, InRanges, <1>2, <1>3, <1>4, <1>8, SMTT(30) DEF SentWaits, Accepted
<1>16. ToldIsTrue'
  <2>1. ToldIsTrue
    BY Parts
  <2>2. /\ \A op, i : Serving(op, i)' <=> Serving(op, i)
        /\ \A type, i : (Note(type, i) \in Wire)' <=> Note(type, i) \in Wire
        /\ Ids' = Ids \cup {k} /\ srv' = srv
        /\ \A i \in Ids : sent'[i] = sent[i] /\ Text(i)' = Text(i)
    BY <1>1, <1>5, <1>7, <1>8 DEF Note
  <2>3. /\ ~Serving("steer", k) /\ ~Serving("remove", k)
        /\ Note("queued", k) \notin Wire /\ Note("removed", k) \notin Wire
        /\ Note("applied", k) \notin Wire /\ Note("rejected", k) \notin Wire
    BY <1>4
  <2>4. QED
    BY <2>1, <2>2, <2>3 DEF ToldIsTrue, Accepted
<1>17. AnsweredTruly'
  BY Parts, <1>1, <1>4, <1>6, <1>8 DEF AnsweredTruly, Accepted
<1>18. AnsweredInTime'
  BY Parts, <1>1, InRanges, <1>4, <1>6, <1>8 DEF AnsweredInTime
<1>19. InRunOrder'
  <2>1. \A i \in DOMAIN wire : wire[i] \in Wire /\ wire'[i] = wire[i]
    BY Parts, <1>5 DEF Wire
  <2>2. \A i, j \in DOMAIN wire : Before(wire[i], wire[j]) => Before(wire[i], wire[j])'
    BY Parts, <1>1, <1>5, <2>1 DEF Before
  <2>3. QED
    BY Parts, <1>5, <2>2 DEF InRunOrder
<1>20. NotAhead'
  BY Parts, <1>1, InRanges, <1>2, <1>4, <1>5, <1>8 DEF NotAhead
<1>21. OpensQuietly'
  BY Parts, <1>2, <1>3, <1>4, <1>5, <1>6, <1>7, <1>8 DEF OpensQuietly
<1>22. AtItsRun'
  BY Parts, <1>1, InRanges, <1>2, <1>4, <1>5, <1>8, SMTT(30) DEF AtItsRun, Ours, Passed, InRun
<1>23. Answerable'
  <2>1. \A s \in tui.subs : s.id # k
    BY Parts, <1>4, <1>8 DEF Submitted, SubIds
  <2>2. \A s, u \in tui'.subs : s.id = u.id => s = u
    BY Parts, <1>2, <2>1 DEF Answerable
  <2>3. \A i \in Submitted' : tui'.active # 0 /\ sent'[i].run = tui'.active /\ Text(i)' # {}
    BY Parts, <1>1, <1>2 DEF Answerable
  <2>4. \A i \in Opens' : /\ i \notin gaveUp'
                         /\ \/ Asked("steer", i)' \/ Serving("steer", i)' \/ Yes("steer", i)' \/ No("steer", i)'
    BY Parts, <1>1, <1>2, <1>3, <1>4, <1>6, <1>7, <1>8 DEF Answerable
  <2>5. tui'.subs # {} => Opens' # {}
    BY Parts, <1>2
  <2>6. \A i \in Faileds' : sent'[i].state = "refused" \/ i \in gaveUp'
    BY Parts, <1>1, <1>2, <1>4, <1>8 DEF Answerable
  <2>7. \A i \in Submitted' : sent'[i].state \in Accepted \/ i \in Opens' \/ i \in Faileds'
    BY Parts, <1>1, <1>2, <1>4, <1>8 DEF Answerable
  <2>8. QED
    BY <2>2, <2>3, <2>4, <2>5, <2>6, <2>7 DEF Answerable
<1>24. Untold'
  BY Parts, <1>1, <1>2, <1>3, <1>4, <1>5, <1>8 DEF Untold
<1>25. Pending'
  BY Parts, <1>1, <1>2, <1>4, <1>6, <1>8 DEF Pending, Accepted, RepliesKnown
<1>26. OneLive' /\ NotInDraft'
  <2>1. \A i \in Ids : Live(i)' => Live(i)
    BY Parts, <1>1, InRanges, <1>2, <1>4, <1>5, <1>6, <1>7, <1>8 DEF Live, MayReturn, Removal
  <2>2. gaveUp \subseteq Ids /\ \A i \in Ids : Text(i) \subseteq 1 .. typed
    BY Parts DEF Types, SentKnown
  <2>3. QED
    BY Parts, <1>1, <1>2, <1>4, <1>8, <2>1, <2>2, TextsEntered
<1>27. Somewhere'
  <2>1. \A i \in Ids : Carries(i) => Carries(i)'
    BY Parts, <1>1, <1>2, <1>4, <1>5, <1>6, <1>7, <1>8 DEF Carries, Removal
  <2>2. Carries(k)'
    BY Parts, <1>1, <1>2 DEF Carries
  <2>3. QED
    BY Parts, <1>1, <1>2, <1>4, <1>8, <2>1, <2>2, EnteredSomewhere
<1>28. QED
  BY <1>9, <1>10, <1>11, <1>12, <1>13, <1>14, <1>15, <1>16, <1>17, <1>18, <1>19, <1>20, <1>21, <1>22, <1>23, <1>24, <1>25, <1>26, <1>27 DEF TextInv, Known

\* A message is sent that begins a run.
LEMMA SendEnteredText ==
  ASSUME TextInv, NEW new \in 0 .. 1, SendEntered(new)
  PROVE  TextInv'
<1>k. PICK k, text : k = Len(sent) + 1 /\ text = EnterText(new)
  OBVIOUS
<1>1. /\ sent' \in Seq(MessageSet) /\ k \in Nat /\ k \notin Ids /\ Ids' = Ids \cup {k}
      /\ sent'[k].run = 0 /\ sent'[k].state = "sent" /\ Text(k)' = text /\ text # {}
      /\ (\A i \in Ids : sent'[i] = sent[i] /\ Text(i)' = Text(i)) /\ (\A n \in Wire : RunOf(n)' = RunOf(n))
      /\ text = tui.draft \cup (typed + 1 .. typed + new) /\ text \subseteq 1 .. typed' /\ typed \in Nat /\ typed' \in Nat
  <2> DEFINE e == [run |-> 0, text |-> text, state |-> "sent"]
  <2>1. typed \in Nat /\ tui.draft \subseteq 1 .. typed /\ typed' = typed + new /\ tui.active \in Nat
    BY Parts DEF Types, ClientKnown, Clients, SendEntered
  <2>2. text \subseteq 1 .. typed' /\ text \subseteq Nat /\ text # {}
    BY <2>1, <1>k DEF EnterText, SendEntered
  <2>3. e \in MessageSet /\ e.run = 0 /\ e.text = text /\ e.state = "sent"
    BY <2>1, <2>2 DEF MessageSet, Fates
  <2>4. sent' = Append(sent, e) /\ k = Len(sent) + 1
    BY <1>k DEF SendEntered
  <2> HIDE DEF e
  <2>5. /\ sent' \in Seq(MessageSet) /\ k \in Nat /\ k \notin Ids /\ Ids' = Ids \cup {k}
        /\ sent'[k] = e /\ Text(k)' = e.text
        /\ \A i \in Ids : sent'[i] = sent[i] /\ Text(i)' = Text(i)
        /\ \A n \in Wire : RunOf(n)' = RunOf(n)
    BY Parts, <2>3, <2>4, SentGrows
  <2>6. QED
    BY <1>k, <2>1, <2>2, <2>3, <2>5 DEF EnterText
<1>2. /\ tui' \in Clients /\ tui'.at = tui.at /\ tui'.draft = {} /\ tui'.lost = tui.lost
      /\ tui'.pending = tui.pending /\ tui'.tombs = tui.tombs /\ tui'.active = tui.active
      /\ tui'.completed = 0 /\ tui'.subs = tui.subs
      /\ Opens' = Opens /\ Faileds' = Faileds /\ Submitted' = Submitted
  <2>1. tui' = [tui EXCEPT !.draft = {}, !.completed = 0, !.control = TRUE, !.loading = TRUE] /\ tui \in Clients
    BY Parts DEF SendEntered, Types
  <2>2. /\ tui' \in Clients /\ tui'.at = tui.at /\ tui'.draft = {} /\ tui'.lost = tui.lost
        /\ tui'.pending = tui.pending /\ tui'.tombs = tui.tombs /\ tui'.active = tui.active
        /\ tui'.completed = 0 /\ tui'.subs = tui.subs
    BY <2>1 DEF Clients
  <2>3. QED
    BY <2>2 DEF Opens, Faileds, Submitted, InState, SubIds
<1>3. calls' \subseteq CallSet /\ \A op, i : Asked(op, i)' <=> Asked(op, i) \/ (op = "send" /\ i = k)
  <2>1. calls' = calls \cup {[op |-> "send", id |-> k]} /\ k \in Nat
    BY <1>k, <1>1 DEF SendEntered, Call
  <2>2. calls \subseteq CallSet
    BY Parts DEF Types
  <2>3. QED
    BY <2>1, <2>2 DEF Asked, CallSet
<1>4. /\ (\A op \in {"steer", "send", "remove"} : ~Asked(op, k) /\ ~Yes(op, k) /\ ~No(op, k))
      /\ ~Serving("steer", k) /\ ~Serving("remove", k)
      /\ Note("queued", k) \notin Wire /\ Note("removed", k) \notin Wire
      /\ Note("applied", k) \notin Wire /\ Note("rejected", k) \notin Wire
      /\ k \notin Submitted /\ k \notin tui.pending /\ k \notin tui.tombs /\ k \notin gaveUp
  BY Parts, <1>1, Unheard
<1>5. wire' = wire /\ Wire' = Wire
  BY SameWire DEF SendEntered
<1>6. /\ replies' = replies /\ Snapshots' = Snapshots
      /\ \A op, i : (Yes(op, i)' <=> Yes(op, i)) /\ (No(op, i)' <=> No(op, i))
  BY SameReplies DEF SendEntered
<1>7. busy' = busy /\ (Opening' <=> Opening) /\ \A op, i : Serving(op, i)' <=> Serving(op, i)
  BY SameBusy DEF SendEntered
<1>8. srv' = srv /\ gaveUp' = gaveUp /\ tui.at = "open" /\ typed' = typed + new
  BY DEF SendEntered
<1>9. Types'
  BY Parts, <1>1, <1>2, <1>3, <1>4, <1>5, <1>6, <1>7, <1>8 DEF Types
<1>10. SentKnown'
  <2>1. \A i \in Ids' : sent'[i].run <= srv.run
    BY Parts, <1>1, InRanges, <1>4, <1>8
  <2>2. 1 .. typed \subseteq 1 .. typed'
    BY Parts, <1>1, <1>4, <1>8
  <2>3. \A i \in Ids' : Text(i)' \subseteq 1 .. typed'
    BY Parts, <1>1, InRanges, <1>4, <1>8, <2>2
  <2>4. QED
    BY Parts, <1>1, InRanges, <1>4, <1>8, <2>1, <2>3 DEF SentKnown
<1>11. ClientKnown'
  BY Parts, <1>1, InRanges, <1>2, <1>4, <1>8 DEF ClientKnown
<1>12. CallsKnown'
  BY Parts, <1>1, <1>3, <1>4, <1>7, <1>8 DEF CallsKnown
<1>13. RepliesKnown'
  BY Parts, <1>1, InRanges, <1>4, <1>6, <1>8 DEF RepliesKnown
<1>14. WireKnown'
  BY Parts, <1>1, InRanges, <1>4, <1>5, <1>8 DEF WireKnown, RunOf, MessageTypes
<1>15. SentWaits'
  BY Parts, <1>1, InRanges, <1>3, <1>4, <1>8 DEF SentWaits, Accepted
<1>16. ToldIsTrue'
  BY Parts, <1>1, InRanges, <1>4, <1>5, <1>7, <1>8, SMTT(30) DEF ToldIsTrue, Accepted
<1>17. AnsweredTruly'
  <2>1. Types /\ Known /\ AnsweredTruly /\ RepliesKnown /\ SentWaits /\ Answerable
    BY Parts
  <2>2. QED
    BY <2>1, <1>1, <1>4, <1>6, <1>8 DEF AnsweredTruly, Accepted
<1>18. AnsweredInTime'
  BY Parts, <1>1, InRanges, <1>4, <1>6, <1>8 DEF AnsweredInTime
<1>19. InRunOrder'
  <2>1. \A i \in DOMAIN wire : wire[i] \in Wire /\ wire'[i] = wire[i]
    BY Parts, <1>5 DEF Wire
  <2>2. \A i, j \in DOMAIN wire : Before(wire[i], wire[j]) => Before(wire[i], wire[j])'
    BY Parts, <1>1, <1>5, <2>1 DEF Before
  <2>3. QED
    BY Parts, <1>5, <2>2 DEF InRunOrder
<1>20. NotAhead'
  BY Parts, <1>1, InRanges, <1>2, <1>4, <1>5, <1>8 DEF NotAhead
<1>21. OpensQuietly'
  BY Parts, <1>2, <1>3, <1>4, <1>5, <1>6, <1>7, <1>8 DEF OpensQuietly
<1>22. AtItsRun'
  BY Parts, <1>1, InRanges, <1>2, <1>4, <1>5, <1>8, SMTT(30) DEF AtItsRun, Ours, Passed, InRun
<1>23. Answerable'
  BY Parts, <1>1, <1>2, <1>3, <1>4, <1>6, <1>7, <1>8 DEF Answerable, Accepted
<1>24. Untold'
  BY Parts, <1>1, <1>2, <1>3, <1>4, <1>5, <1>8 DEF Untold
<1>25. Pending'
  BY Parts, <1>1, <1>2, <1>4, <1>6, <1>8 DEF Pending, Accepted, RepliesKnown
<1>26. OneLive' /\ NotInDraft'
  <2>1. \A i \in Ids : Live(i)' => Live(i)
    BY Parts, <1>1, InRanges, <1>2, <1>4, <1>5, <1>6, <1>7, <1>8 DEF Live, MayReturn, Removal
  <2>2. gaveUp \subseteq Ids /\ \A i \in Ids : Text(i) \subseteq 1 .. typed
    BY Parts DEF Types, SentKnown
  <2>3. QED
    BY Parts, <1>1, <1>2, <1>4, <1>8, <2>1, <2>2, TextsEntered
<1>27. Somewhere'
  <2>1. \A i \in Ids : Carries(i) => Carries(i)'
    BY Parts, <1>1, <1>2, <1>4, <1>5, <1>6, <1>7, <1>8 DEF Carries, Removal
  <2>2. Carries(k)'
    BY Parts, <1>1, <1>2 DEF Carries
  <2>3. QED
    BY Parts, <1>1, <1>2, <1>4, <1>8, <2>1, <2>2, EnteredSomewhere
<1>28. QED
  BY <1>9, <1>10, <1>11, <1>12, <1>13, <1>14, <1>15, <1>16, <1>17, <1>18, <1>19, <1>20, <1>21, <1>22, <1>23, <1>24, <1>25, <1>26, <1>27 DEF TextInv, Known

\* A message is asked back.
AskedBack(last) ==
  /\ tui.at = "open" /\ InState(tui, "open") = {} /\ last \in tui.pending /\ Call("remove", last)
  /\ UNCHANGED <<tui, typed, gaveUp, sent, replies, wire, srv, busy>>

\* A message is asked back.
LEMMA AskedBackText ==
  ASSUME TextInv, NEW k, AskedBack(k)
  PROVE  TextInv'
<1>1. tui' = tui /\ Opens' = Opens /\ Faileds' = Faileds /\ Submitted' = Submitted
  BY SameClient DEF AskedBack
<1>2. sent' = sent /\ Ids' = Ids /\ (\A i : Text(i)' = Text(i)) /\ (\A m : RunOf(m)' = RunOf(m))
  BY SameSent DEF AskedBack, MessagesKept
<1>3. calls' \subseteq CallSet /\ k \in Ids /\ \A op, i : Asked(op, i)' <=> Asked(op, i) \/ (op = "remove" /\ i = k)
  <2>1. calls' = calls \cup {[op |-> "remove", id |-> k]} /\ k \in Ids
    BY Parts DEF AskedBack, Call
  <2>2. calls \subseteq CallSet /\ k \in Nat
    BY Parts, <2>1, MessageType DEF Types
  <2>3. QED
    BY <2>1, <2>2 DEF Asked, CallSet
<1>4. wire' = wire /\ Wire' = Wire
  BY SameWire DEF AskedBack
<1>5. /\ replies' = replies /\ Snapshots' = Snapshots
      /\ \A op, i : (Yes(op, i)' <=> Yes(op, i)) /\ (No(op, i)' <=> No(op, i))
  BY SameReplies DEF AskedBack
<1>6. busy' = busy /\ (Opening' <=> Opening) /\ \A op, i : Serving(op, i)' <=> Serving(op, i)
  BY SameBusy DEF AskedBack
<1>7. srv' = srv /\ typed' = typed /\ gaveUp' = gaveUp /\ tui.at = "open"
  BY DEF AskedBack
<1>8. k \in tui.pending /\ sent[k].state \in Accepted /\ sent[k].run # 0 /\ tui.subs = {} /\ Opens = {} /\ Faileds = {}
  <2>1. Opens = {}
    BY DEF AskedBack, Opens
  <2>2. tui.subs = {}
    BY Parts, <2>1 DEF Answerable
  <2>3. Faileds = {}
    BY <2>2 DEF Faileds, InState
  <2>4. k \in tui.pending /\ sent[k].state \in Accepted /\ sent[k].run # 0
    BY Parts DEF AskedBack, Pending
  <2>5. QED
    BY <2>1, <2>2, <2>3, <2>4
<1>9. Types'
  BY Parts, <1>1, <1>2, <1>3, <1>4, <1>5, <1>6, <1>7, <1>8 DEF Types
<1>10. SentKnown'
  BY Parts, <1>2, <1>7, <1>8 DEF SentKnown
<1>11. ClientKnown'
  BY Parts, <1>1, <1>2, <1>7, <1>8 DEF ClientKnown
<1>12. CallsKnown'
  BY Parts, <1>2, <1>3, <1>6, <1>7, <1>8 DEF CallsKnown
<1>13. RepliesKnown'
  BY Parts, <1>2, <1>5, <1>7, <1>8 DEF RepliesKnown
<1>14. WireKnown'
  BY Parts, <1>2, <1>4, <1>7, <1>8 DEF WireKnown, RunOf, MessageTypes
<1>15. SentWaits'
  BY Parts, <1>2, <1>3, <1>7, <1>8 DEF SentWaits, Accepted
<1>16. ToldIsTrue'
  BY Parts, <1>2, <1>4, <1>6, <1>7, <1>8 DEF ToldIsTrue, Accepted
<1>17. AnsweredTruly'
  BY Parts, <1>2, <1>5, <1>7, <1>8 DEF AnsweredTruly, Accepted
<1>18. AnsweredInTime'
  BY Parts, <1>2, <1>5, <1>7, <1>8 DEF AnsweredInTime
<1>19. InRunOrder'
  BY Parts, <1>2, <1>4 DEF InRunOrder, Before, Wire
<1>20. NotAhead'
  BY Parts, <1>1, <1>2, <1>4, <1>7, <1>8 DEF NotAhead
<1>21. OpensQuietly'
  BY Parts, <1>1, <1>3, <1>4, <1>5, <1>6, <1>7, <1>8 DEF OpensQuietly
<1>22. AtItsRun'
  BY Parts, <1>1, <1>2, <1>4, <1>7, <1>8 DEF AtItsRun, Ours, Passed, InRun
<1>23. Answerable'
  BY Parts, <1>1, <1>2, <1>3, <1>5, <1>6, <1>7, <1>8 DEF Answerable, Accepted
<1>24. Untold'
  BY Parts, <1>1, <1>2, <1>3, <1>4, <1>7, <1>8 DEF Untold
<1>25. Pending'
  BY Parts, <1>1, <1>2, <1>5, <1>7, <1>8 DEF Pending, Accepted, RepliesKnown
<1>26. OneLive' /\ NotInDraft'
  <2>1. \A i \in Ids : Live(i)' => Live(i)
    BY Parts, <1>1, <1>2, <1>4, <1>5, <1>6, <1>7, <1>8 DEF Live, MayReturn, Removal
  <2>2. QED
    BY Parts, <1>1, <1>2, <1>7, <1>8, <2>1, LiveShrinks DEF Types
<1>27. Somewhere'
  <2>1. \A i \in Ids : Carries(i) => Carries(i)'
    BY Parts, <1>1, <1>2, <1>4, <1>5, <1>6, <1>7, <1>8 DEF Carries, Removal
  <2>2. QED
    BY Parts, <1>1, <1>2, <1>7, <1>8, <2>1, CarriesGrows
<1>28. QED
  BY <1>9, <1>10, <1>11, <1>12, <1>13, <1>14, <1>15, <1>16, <1>17, <1>18, <1>19, <1>20, <1>21, <1>22, <1>23, <1>24, <1>25, <1>26, <1>27 DEF TextInv, Known

\* A cancel is asked for.
LEMMA CancelText ==
  ASSUME TextInv, Cancel
  PROVE  TextInv'
<1>1. /\ tui' \in Clients /\ tui'.at = tui.at /\ tui'.draft = tui.draft /\ tui'.lost = tui.lost
      /\ tui'.pending = tui.pending /\ tui'.tombs = tui.tombs /\ tui'.active = tui.active
      /\ tui'.completed = tui.completed /\ tui'.subs = tui.subs
      /\ Opens' = Opens /\ Faileds' = Faileds /\ Submitted' = Submitted
  <2>1. tui' = EnterCancelling(tui) /\ tui \in Clients
    BY Parts DEF Cancel, Quietly, Types
  <2>2. /\ tui' \in Clients /\ tui'.at = tui.at /\ tui'.draft = tui.draft /\ tui'.lost = tui.lost
        /\ tui'.pending = tui.pending /\ tui'.tombs = tui.tombs /\ tui'.active = tui.active
        /\ tui'.completed = tui.completed /\ tui'.subs = tui.subs
    BY <2>1 DEF EnterCancelling, Clients
  <2>3. QED
    BY <2>2 DEF Opens, Faileds, Submitted, InState, SubIds
<1>2. sent' = sent /\ Ids' = Ids /\ (\A i : Text(i)' = Text(i)) /\ (\A m : RunOf(m)' = RunOf(m))
  BY SameSent DEF Cancel, Quietly, MessagesKept
<1>3. calls' \subseteq CallSet /\ \A op, i : Asked(op, i)' <=> Asked(op, i) \/ (op = "cancel" /\ i = 0)
  <2>1. calls' = calls \cup {[op |-> "cancel", id |-> 0]}
    BY DEF Cancel, Quietly, Call
  <2>2. calls \subseteq CallSet
    BY Parts DEF Types
  <2>3. QED
    BY <2>1, <2>2 DEF Asked, CallSet
<1>4. wire' = wire /\ Wire' = Wire
  BY SameWire DEF Cancel, Quietly
<1>5. /\ replies' = replies /\ Snapshots' = Snapshots
      /\ \A op, i : (Yes(op, i)' <=> Yes(op, i)) /\ (No(op, i)' <=> No(op, i))
  BY SameReplies DEF Cancel, Quietly
<1>6. busy' = busy /\ (Opening' <=> Opening) /\ \A op, i : Serving(op, i)' <=> Serving(op, i)
  BY SameBusy DEF Cancel, Quietly
<1>7. srv' = srv /\ typed' = typed /\ gaveUp' = gaveUp /\ tui.at = "open"
  BY DEF Cancel, Quietly
<1>8. Types'
  BY Parts, <1>1, <1>2, <1>3, <1>4, <1>5, <1>6, <1>7 DEF Types
<1>9. SentKnown'
  BY Parts, <1>2, <1>7 DEF SentKnown
<1>10. ClientKnown'
  BY Parts, <1>1, <1>2, <1>7 DEF ClientKnown
<1>11. CallsKnown'
  BY Parts, <1>2, <1>3, <1>6, <1>7 DEF CallsKnown
<1>12. RepliesKnown'
  BY Parts, <1>2, <1>5, <1>7 DEF RepliesKnown
<1>13. WireKnown'
  BY Parts, <1>2, <1>4, <1>7 DEF WireKnown, RunOf, MessageTypes
<1>14. SentWaits'
  BY Parts, <1>2, <1>3, <1>7 DEF SentWaits, Accepted
<1>15. ToldIsTrue'
  BY Parts, <1>2, <1>4, <1>6, <1>7 DEF ToldIsTrue, Accepted
<1>16. AnsweredTruly'
  BY Parts, <1>2, <1>5, <1>7 DEF AnsweredTruly, Accepted
<1>17. AnsweredInTime'
  BY Parts, <1>2, <1>5, <1>7 DEF AnsweredInTime
<1>18. InRunOrder'
  BY Parts, <1>2, <1>4 DEF InRunOrder, Before, Wire
<1>19. NotAhead'
  BY Parts, <1>1, <1>2, <1>4, <1>7 DEF NotAhead
<1>20. OpensQuietly'
  BY Parts, <1>1, <1>3, <1>4, <1>5, <1>6, <1>7 DEF OpensQuietly
<1>21. AtItsRun'
  BY Parts, <1>1, <1>2, <1>4, <1>7 DEF AtItsRun, Ours, Passed, InRun
<1>22. Answerable'
  BY Parts, <1>1, <1>2, <1>3, <1>5, <1>6, <1>7 DEF Answerable, Accepted
<1>23. Untold'
  BY Parts, <1>1, <1>2, <1>3, <1>4, <1>7 DEF Untold
<1>24. Pending'
  BY Parts, <1>1, <1>2, <1>5, <1>7 DEF Pending, Accepted, RepliesKnown
<1>25. OneLive' /\ NotInDraft'
  <2>1. \A i \in Ids : Live(i)' => Live(i)
    BY Parts, <1>1, <1>2, <1>4, <1>5, <1>6, <1>7 DEF Live, MayReturn, Removal
  <2>2. QED
    BY Parts, <1>1, <1>2, <1>7, <2>1, LiveShrinks DEF Types
<1>26. Somewhere'
  <2>1. \A i \in Ids : Carries(i) => Carries(i)'
    BY Parts, <1>1, <1>2, <1>4, <1>5, <1>6, <1>7 DEF Carries, Removal
  <2>2. QED
    BY Parts, <1>1, <1>2, <1>7, <2>1, CarriesGrows
<1>27. QED
  BY <1>8, <1>9, <1>10, <1>11, <1>12, <1>13, <1>14, <1>15, <1>16, <1>17, <1>18, <1>19, <1>20, <1>21, <1>22, <1>23, <1>24, <1>25, <1>26 DEF TextInv, Known

-----------------------------------------------------------------------------
(* Every step.                                                             *)

\* The client's steps keep the invariant: a notification, ...
LEMMA NoteText == ASSUME TextInv, HandleNote PROVE TextInv'
<1> DEFINE n == Head(wire)
<1>1. CASE tui.at # "open"
  BY <1>1, MissedText
<1>2. CASE tui.at = "open"
  <2>1. n \in NoteSet
    <3>1. Types /\ InRunOrder
      BY DEF TextInv
    <3>2. wire # <<>> /\ wire' = Tail(wire) /\ sent' = sent
      BY DEF HandleNote
    <3>3. QED
      BY <3>1, <3>2, HandledFacts
  <2>2. n.type \in MessageTypes \cup RunTypes
    BY <2>1 DEF NoteSet
  <2>3. CASE n.type \in MessageTypes
    BY <1>2, <2>3, MessageHandled
  <2>4. CASE n.type = "running"
    BY <1>2, <2>4, RunningOfOld, RunningGoesOn, RunningTakesOver
  <2>5. CASE n.type = "end"
    BY <1>2, <2>5, EndOfOther, EndHandled
  <2>6. QED
    BY <1>2, <2>2, <2>3, <2>4, <2>5, IdleHandled, CancellingHandled, ErrorHandled, DoneHandled DEF RunTypes
<1>3. QED
  BY <1>1, <1>2

\* ... a response, ...
LEMMA ReplyText == ASSUME TextInv, HandleReply PROVE TextInv'
<1>1. PICK x : ReplyHandled(x)
  BY DEF HandleReply, ReplyHandled
<1>2. CASE x.op = "attach"
  BY <1>1, <1>2, SnapshotApplied
<1>3. CASE x.op # "attach"
  <2>1. /\ x.op \in {"steer", "send", "remove", "cancel"}
        /\ x.ok => Yes(x.op, x.id)
    BY <1>1, <1>3, ReplyFacts
  <2>2. \A i : ~Yes("send", i) /\ ~Yes("cancel", i)
    BY DEF TextInv, AnsweredTruly
  <2>3. CASE x.op = "steer" /\ ~x.ok
    <3>1. CASE x.id \in Submitted
      <4>1. PICK k, back : k = x.id /\ back = Returning(Faileds \cup {k})
        OBVIOUS
      <4>2. QED
        BY <1>1, <2>3, <3>1, <4>1, SteerNotTaken
    <3>2. CASE x.id \notin Submitted
      BY <1>1, <2>3, <3>2, SteerForgotten
    <3>3. QED
      BY <3>1, <3>2
  <2>4. CASE x.ok
    BY <1>1, <2>1, <2>2, <2>4, SteerTaken, RemoveAnswered
  <2>5. CASE ~x.ok /\ x.op # "steer"
    BY <1>1, <2>1, <2>5, RemoveRefused, CancelAnswered, SendAnswered
  <2>6. QED
    BY <2>3, <2>4, <2>5
<1>4. QED
  BY <1>2, <1>3

\* ... a text typed, sent or steered, ...
LEMMA EnterKeepsText == ASSUME TextInv, Enter PROVE TextInv'
<1>1. PICK new \in 0 .. 1 : SteerEntered(new) \/ SendEntered(new)
  BY DEF Enter, SteerEntered, SendEntered, EnterText, Quietly
<1>2. QED
  BY <1>1, SteerEnteredText, SendEnteredText

\* ... and whatever else the client does.
LEMMA ClientText ==
  ASSUME TextInv, Enter \/ AskBack \/ Cancel \/ GiveUp \/ HandleNote \/ HandleReply
  PROVE  TextInv'
<1>1. CASE AskBack
  <2>1. PICK last : AskedBack(last)
    BY <1>1 DEF AskBack, AskedBack, Quietly
  <2>2. QED
    BY <2>1, AskedBackText
<1>2. CASE GiveUp
  <2>1. PICK id \in Opens : OneGivenUp(id)
    BY <1>2 DEF GiveUp, OneGivenUp, Quietly, Opens
  <2>2. PICK back : back = Returning(Faileds \cup {id})
    OBVIOUS
  <2>3. QED
    BY <2>1, <2>2, GiveUpText
<1>3. QED
  BY <1>1, <1>2, EnterKeepsText, CancelText, NoteText, ReplyText

\* The daemon's steps keep it: the requests, ...
LEMMA RequestText ==
  ASSUME TextInv, NEW k, StartRun(k) \/ Accept(k) \/ Refuse(k) \/ TakeBack(k)
  PROVE  TextInv'
<1>1. CASE StartRun(k)
  BY <1>1, SendRefused, SendBegins
<1>2. CASE TakeBack(k)
  <2>1. CASE srv.mode = "running" /\ Mine /\ ~srv.cancelling /\ k \in Queued
    BY <1>2, <2>1, TakeBackRemoves DEF TakeBack
  <2>2. CASE ~(srv.mode = "running" /\ Mine /\ ~srv.cancelling /\ k \in Queued)
    BY <1>2, <2>2, TakeBackRefused DEF TakeBack
  <2>3. QED
    BY <2>1, <2>2
<1>3. QED
  BY <1>1, <1>2, AcceptText, RefuseText

\* ... the cancel, ...
LEMMA CancelRunText == ASSUME TextInv, CancelRun PROVE TextInv'
<1>1. CASE srv.mode # "idle" /\ Mine /\ ~srv.told
  <2>1. CASE srv.cancelling
    BY <1>1, <2>1, CancelAgain DEF CancelRun
  <2>2. CASE ~srv.cancelling
    BY <1>1, <2>2, CancelTold DEF CancelRun
  <2>3. QED
    BY <2>1, <2>2
<1>2. CASE ~(srv.mode # "idle" /\ Mine /\ ~srv.told)
  BY <1>2, CancelRefused DEF CancelRun
<1>3. QED
  BY <1>1, <1>2

\* ... what it confirms, ...
LEMMA ConfirmText == ASSUME TextInv, Confirm PROVE TextInv'
<1>1. PICK k : k = busy.id
  OBVIOUS
<1>2. PICK o \in {"steer", "remove"}, t \in {"queued", "removed"} :
         busy.op = o /\ (t = "queued" <=> o = "steer")
  BY DEF Confirm
<1>3. QED
  BY <1>1, <1>2, ConfirmTold

\* ... the failure of a run, ...
LEMMA FailKeepsText == ASSUME TextInv, Fail PROVE TextInv'
<1>1. PICK compact \in BOOLEAN, ids \in InOrder :
        /\ Told(IF compact
                THEN <<IF compact THEN Note("compactError", srv.run) ELSE Note("end", srv.run)>> \o Reverse(Became("rejected", ids))
                ELSE Append(Reverse(Became("rejected", ids)), IF compact THEN Note("compactError", srv.run) ELSE Note("end", srv.run)))
        /\ srv' = [srv EXCEPT !.mode = "over", !.told = ~compact]
  BY DEF Fail
<1>2. Decided("rejected")
  BY DEF Fail
<1>3. QED
  BY <1>1, <1>2, FailText

\* ... the other steps of a run, ...
LEMMA RunText ==
  ASSUME TextInv, Take \/ Compact \/ Finish \/ Fail \/ Close \/ SetIdle
  PROVE  TextInv'
BY TakeText, CompactText, FinishText, FailKeepsText, CloseText, CloseQuietly, SetIdleText

\* ... and all of them.
LEMMA DaemonText ==
  ASSUME TextInv, Snapshot \/ ServeCalls \/ Confirm \/ CancelRun
  PROVE  TextInv'
<1>1. CASE Snapshot
  BY <1>1, SnapshotText, SnapshotIdle
<1>2. CASE ServeCalls
  <2>1. PICK c \in calls : StartRun(c.id) \/ Accept(c.id) \/ Refuse(c.id) \/ TakeBack(c.id)
    BY <1>2 DEF ServeCalls
  <2>2. QED
    BY <2>1, RequestText
<1>3. QED
  BY <1>1, <1>2, ConfirmText, CancelRunText

\* A step that changes nothing.
LEMMA StutterText == ASSUME TextInv, UNCHANGED clientVars PROVE TextInv'
<1>1. /\ tui' = tui /\ typed' = typed /\ gaveUp' = gaveUp /\ sent' = sent /\ calls' = calls
      /\ busy' = busy /\ replies' = replies /\ wire' = wire /\ srv' = srv
  BY DEF clientVars
<1> USE <1>1
<1>2. /\ Ids' = Ids /\ Wire' = Wire /\ Opens' = Opens /\ Faileds' = Faileds /\ Submitted' = Submitted
      /\ Snapshots' = Snapshots /\ (Opening' <=> Opening)
      /\ (\A m : RunOf(m)' = RunOf(m)) /\ (\A i : Text(i)' = Text(i))
      /\ (\A op, i : Asked(op, i)' <=> Asked(op, i)) /\ (\A op, i : Serving(op, i)' <=> Serving(op, i))
      /\ \A op, i : (Yes(op, i)' <=> Yes(op, i)) /\ (No(op, i)' <=> No(op, i))
  BY SameSent, SameWire, SameClient, SameReplies, SameBusy, SameCalls DEF MessagesKept
<1>3. (\A i : Removal(i)' <=> Removal(i)) /\ (\A x : Given(x)' <=> Given(x)) /\ (\A a, b : Before(a, b)' <=> Before(a, b))
  BY <1>2 DEF Removal, Given, Before
<1>4. \A i : (MayReturn(i)' <=> MayReturn(i)) /\ (Ours(i)' <=> Ours(i)) /\ (Passed(i)' <=> Passed(i))
  BY <1>2, <1>3 DEF MayReturn, Ours, Passed
<1>5. \A i : (Live(i)' <=> Live(i)) /\ (Carries(i)' <=> Carries(i))
  BY <1>2, <1>3, <1>4 DEF Live, Carries
<1>6. Types' /\ Known'
  BY <1>2 DEF TextInv, Types, Known, SentKnown, ClientKnown, CallsKnown, RepliesKnown, WireKnown
<1>7. SentWaits' /\ ToldIsTrue' /\ AnsweredTruly' /\ AnsweredInTime'
  BY <1>2 DEF TextInv, SentWaits, ToldIsTrue, AnsweredTruly, AnsweredInTime
<1>8. InRunOrder' /\ NotAhead' /\ OpensQuietly' /\ AtItsRun'
  <2>1. InRunOrder'
    BY <1>3 DEF TextInv, InRunOrder
  <2>2. NotAhead' /\ OpensQuietly'
    BY <1>2 DEF TextInv, NotAhead, OpensQuietly
  <2>3. AtItsRun'
    BY <1>2, <1>4 DEF TextInv, AtItsRun
  <2>4. QED
    BY <2>1, <2>2, <2>3
<1>9. Answerable' /\ Untold' /\ Pending'
  BY <1>2 DEF TextInv, Answerable, Untold, Pending
<1>10. OneLive' /\ NotInDraft' /\ Somewhere'
  BY <1>2, <1>3, <1>5 DEF TextInv, OneLive, NotInDraft, Somewhere
<1>11. QED
  BY <1>6, <1>7, <1>8, <1>9, <1>10 DEF TextInv

\* The session is open and idle, or is being opened.
LEMMA InitFacts ==
  ASSUME ClientInit
  PROVE  /\ tui \in Clients /\ srv \in SessionSet /\ busy \in BusySet
         /\ tui.draft = {} /\ tui.subs = {} /\ tui.pending = {} /\ tui.tombs = {} /\ tui.lost = {}
         /\ tui.active = 0 /\ tui.completed = 0 /\ tui.cancelling = FALSE
         /\ srv.run <= MaxRuns /\ (srv.mode # "idle" => srv.run # 0) /\ (srv.told => srv.mode # "running")
         /\ (tui.at = "open" <=> ~Opening) /\ (tui.at # "open" => srv.run = 1 /\ ~srv.cancelling)
         /\ \A op, id : Serving(op, id) => op \in {"attach", "none"}
<1>0. \A r \in 1 .. MaxRuns : NoRun.mine[r] = TRUE
  BY DEF NoRun
<1>1. NoRun \in SessionSet /\ MaxRuns \in Nat \ {0}
  BY SteeringClientAssumption DEF NoRun, SessionSet
<1>2. Fresh \in Clients
  BY DEF Fresh, Clients
<1>3. CASE tui = Fresh /\ srv = NoRun /\ sent = <<>> /\ busy = None
  <2>1. busy = [op |-> "none", id |-> 0]
    BY <1>3 DEF None
  <2>2. busy \in BusySet /\ ~Opening /\ \A op, id : Serving(op, id) => op = "none"
    BY <2>1 DEF BusySet, Opening, Serving
  <2>3. /\ tui.draft = {} /\ tui.subs = {} /\ tui.pending = {} /\ tui.tombs = {} /\ tui.lost = {}
        /\ tui.active = 0 /\ tui.completed = 0 /\ tui.cancelling = FALSE /\ tui.at = "open"
    BY <1>3 DEF Fresh
  <2>4. srv.run = 0 /\ srv.mode = "idle"
    BY <1>3 DEF NoRun
  <2>5. QED
    BY <1>1, <1>2, <1>3, <2>2, <2>3, <2>4
<1>4. ASSUME NEW at \in {"welcome", "chat"}, NEW mine \in BOOLEAN,
             tui = [Fresh EXCEPT !.at = at],
             srv = [NoRun EXCEPT !.run = 1, !.mode = "running", !.told = FALSE, !.mine[1] = mine],
             busy = [op |-> "attach", id |-> 0]
      PROVE  /\ tui \in Clients /\ srv \in SessionSet /\ busy \in BusySet
             /\ tui.draft = {} /\ tui.subs = {} /\ tui.pending = {} /\ tui.tombs = {} /\ tui.lost = {}
             /\ tui.active = 0 /\ tui.completed = 0 /\ tui.cancelling = FALSE
             /\ srv.run <= MaxRuns /\ (srv.mode # "idle" => srv.run # 0) /\ (srv.told => srv.mode # "running")
             /\ (tui.at = "open" <=> ~Opening) /\ (tui.at # "open" => srv.run = 1 /\ ~srv.cancelling)
             /\ \A op, id : Serving(op, id) => op \in {"attach", "none"}
  <2>1. busy \in BusySet /\ Opening /\ \A op, id : Serving(op, id) => op = "attach"
    BY <1>4 DEF BusySet, Opening, Serving
  <2>2. /\ tui \in Clients /\ tui.draft = {} /\ tui.subs = {} /\ tui.pending = {} /\ tui.tombs = {} /\ tui.lost = {}
        /\ tui.active = 0 /\ tui.completed = 0 /\ tui.cancelling = FALSE /\ tui.at # "open"
    BY <1>4 DEF Fresh, Clients
  <2>3. srv \in SessionSet /\ srv.run = 1 /\ srv.mode = "running" /\ srv.told = FALSE /\ srv.cancelling = FALSE
    <3>1. [NoRun.mine EXCEPT ![1] = mine] \in [1 .. MaxRuns -> BOOLEAN]
      BY <1>1 DEF NoRun
    <3>2. srv = [NoRun EXCEPT !.run = 1, !.mode = "running", !.told = FALSE, !.mine = [NoRun.mine EXCEPT ![1] = mine]]
      BY <1>4
    <3>3. QED
      BY <3>1, <3>2 DEF NoRun, SessionSet
  <2>4. QED
    BY <1>1, <2>1, <2>2, <2>3
<1>5. QED
  BY <1>3, <1>4 DEF ClientInit

\* At the start there are the messages of other clients, if any.
LEMMA InitSent ==
  ASSUME ClientInit
  PROVE  /\ sent \in Seq(MessageSet)
         /\ \A id \in Ids : /\ sent[id].run = 1 /\ Text(id) = {} /\ sent[id].state = "queued"
                            /\ srv.mode = "running" /\ srv.run = 1
<1>1. CASE sent = <<>>
  <2>1. Ids = {}
    BY <1>1 DEF Ids
  <2>2. QED
    BY <1>1, <2>1
<1>2. ASSUME NEW k \in 0 .. 1, sent = [i \in 1 .. k |-> [run |-> 1, text |-> {}, state |-> "queued"]],
             NEW mine, srv = [NoRun EXCEPT !.run = 1, !.mode = "running", !.told = FALSE, !.mine[1] = mine]
      PROVE  /\ sent \in Seq(MessageSet)
             /\ \A id \in Ids : /\ sent[id].run = 1 /\ Text(id) = {} /\ sent[id].state = "queued"
                                /\ srv.mode = "running" /\ srv.run = 1
  <2> DEFINE e == [run |-> 1, text |-> {}, state |-> "queued"]
  <2>1. e \in MessageSet /\ e.run = 1 /\ e.text = {} /\ e.state = "queued"
    BY DEF MessageSet, Fates, Accepted
  <2>2. sent = [i \in 1 .. k |-> e] /\ k \in Nat
    BY <1>2
  <2> HIDE DEF e
  <2>3. sent \in Seq(MessageSet) /\ Ids = 1 .. k /\ \A id \in Ids : sent[id] = e
    BY <2>1, <2>2, IsASeq DEF Ids
  <2>4. srv.mode = "running" /\ srv.run = 1
    BY <1>2 DEF NoRun
  <2>5. QED
    BY <2>1, <2>3, <2>4 DEF Text
<1>3. QED
  BY <1>1, <1>2 DEF ClientInit

\* The invariant holds at the start.
LEMMA TextInit == ASSUME ClientInit PROVE TextInv
<1>1. /\ tui \in Clients /\ srv \in SessionSet /\ busy \in BusySet
      /\ tui.draft = {} /\ tui.subs = {} /\ tui.pending = {} /\ tui.tombs = {} /\ tui.lost = {}
      /\ tui.active = 0 /\ tui.completed = 0 /\ tui.cancelling = FALSE
      /\ srv.run <= MaxRuns /\ (srv.mode # "idle" => srv.run # 0) /\ (srv.told => srv.mode # "running")
      /\ (tui.at = "open" <=> ~Opening) /\ (tui.at # "open" => srv.run = 1 /\ ~srv.cancelling)
      /\ \A op, id : Serving(op, id) => op \in {"attach", "none"}
  BY InitFacts
<1>2. /\ sent \in Seq(MessageSet)
      /\ \A id \in Ids : /\ sent[id].run = 1 /\ Text(id) = {} /\ sent[id].state = "queued"
                         /\ srv.mode = "running" /\ srv.run = 1
  BY InitSent
<1>3. typed = 0 /\ gaveUp = {} /\ calls = {} /\ replies = {} /\ wire = <<>>
  BY DEF ClientInit
<1>4. /\ Wire = {} /\ wire \in Seq(NoteSet) /\ DOMAIN wire = {}
      /\ (\A op, id : ~Asked(op, id) /\ ~Yes(op, id) /\ ~No(op, id)) /\ Snapshots = {}
  BY <1>3 DEF Wire, Asked, Yes, No, Snapshots
<1>5. Opens = {} /\ Faileds = {} /\ Submitted = {}
  BY <1>1 DEF Opens, Faileds, Submitted, InState, SubIds
<1>6. srv.run \in Nat
  BY <1>1 DEF SessionSet
<1>7. Types
  BY <1>1, <1>2, <1>3, <1>4 DEF Types
<1>8. SentKnown /\ ClientKnown /\ CallsKnown /\ RepliesKnown /\ WireKnown
  BY <1>1, <1>2, <1>3, <1>4, <1>5, <1>6 DEF SentKnown, ClientKnown, CallsKnown, RepliesKnown, WireKnown
<1>9. SentWaits /\ ToldIsTrue /\ AnsweredTruly /\ AnsweredInTime
  BY <1>1, <1>2, <1>4 DEF SentWaits, ToldIsTrue, AnsweredTruly, AnsweredInTime
<1>10. InRunOrder /\ NotAhead /\ OpensQuietly /\ AtItsRun
  <2>1. InRunOrder
    BY <1>4 DEF InRunOrder
  <2>2. NotAhead
    BY <1>1, <1>4 DEF NotAhead
  <2>3. OpensQuietly
    BY <1>1, <1>3, <1>4 DEF OpensQuietly
  <2>4. AtItsRun
    BY <1>2 DEF AtItsRun, Ours
  <2>5. QED
    BY <2>1, <2>2, <2>3, <2>4
<1>11. Answerable /\ Untold /\ Pending
  BY <1>1, <1>4, <1>5 DEF Answerable, Untold, Pending
<1>12. OneLive /\ NotInDraft /\ Somewhere
  BY <1>2, <1>3 DEF OneLive, NotInDraft, Somewhere
<1>13. QED
  BY <1>7, <1>8, <1>9, <1>10, <1>11, <1>12 DEF TextInv, Known

\* What the client knows of its messages, and where every text is, in every state.
THEOREM TextAlways == ClientSpec => []TextInv
<1>1. ClientInit => TextInv
  BY TextInit
<1>2. TextInv /\ [ClientNext]_clientVars => TextInv'
  <2> SUFFICES ASSUME TextInv, [ClientNext]_clientVars PROVE TextInv'
    OBVIOUS
  <2>1. CASE UNCHANGED clientVars
    BY <2>1, StutterText
  <2>2. CASE ClientNext
    BY <2>2, ClientText, DaemonText, RunText DEF ClientNext
  <2>3. QED
    BY <2>1, <2>2
<1>3. QED
  BY <1>1, <1>2, PTL DEF ClientSpec

\* A text never comes back to the draft while the daemon has it, or has given it to the model, and
\* once nothing is on the way it is in the draft or a run took it, or the client let go of it.
THEOREM EachTextOnceAlways == ClientSpec => []EachTextOnce
<1>1. ASSUME TextInv PROVE NotTwice
  <2>1. SUFFICES ASSUME NEW id \in Ids, sent[id].state \in {"queued", "applied"}, NEW x \in Text(id), x \in tui.draft
                 PROVE  x \in Texts(gaveUp)
    BY DEF NotTwice, Texts, Ids
  <2>2. Given(x)
    BY <1>1, <2>1 DEF TextInv, NotInDraft, Live
  <2>3. QED
    BY <2>2 DEF Given, Texts
<1>2. ASSUME TextInv PROVE NothingLost
  <2>1. SUFFICES ASSUME Settled, NEW x \in 1 .. typed
                 PROVE  x \in tui.draft \cup tui.lost
                                 \cup Texts({id \in DOMAIN sent : sent[id].state = "applied"})
    BY DEF NothingLost
  <2>2. /\ (\A op, id : ~Asked(op, id) /\ ~Yes(op, id) /\ ~No(op, id)) /\ Wire = {} /\ srv.mode = "idle"
    BY <2>1 DEF Settled, Asked, Yes, No, Wire
  <2>3. ~Serving("steer", 0) /\ \A id : ~Serving("steer", id) /\ ~Serving("remove", id)
    BY <2>1 DEF Settled, Serving, None
  <2>4. Opens = {} /\ Faileds = {}
    <3>1. Opens = {}
      BY <1>2, <2>2, <2>3 DEF TextInv, Answerable
    <3>2. tui.subs = {}
      BY <1>2, <3>1 DEF TextInv, Answerable
    <3>3. QED
      BY <3>1, <3>2 DEF Faileds, InState
  <2>5. \A id : ~Removal(id)
    BY <2>2, <2>3 DEF Removal
  <2>6. \A id \in Ids : sent[id].state \notin {"sent", "queued"}
    BY <1>2, <2>2 DEF TextInv, SentWaits
  <2>7. \A id \in Ids : Carries(id) => sent[id].state = "applied"
    BY <2>2, <2>4, <2>5, <2>6 DEF Carries
  <2>8. QED
    BY <1>2, <2>7 DEF TextInv, Somewhere, Texts, Ids
<1>3. TextInv => EachTextOnce
  BY <1>1, <1>2 DEF EachTextOnce
<1>4. QED
  BY <1>3, TextAlways, PTL
=============================================================================
