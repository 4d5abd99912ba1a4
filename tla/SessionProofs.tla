---------------------------- MODULE SessionProofs ----------------------------
(***************************************************************************)
(* Proofs about the two ends of a session, in two parts that share nothing *)
(* but this file: SessionManager, which holds it in the daemon, and        *)
(* SteeringClient, the screen that shows it.                               *)
(*                                                                         *)
(* What the session manager guarantees for every number of clients and     *)
(* sessions.  The properties are not inductive.  The strengthening says    *)
(* who may be in a session's critical work: the creation latch and the     *)
(* delete mark exclude everybody who holds the runtime, and each have one  *)
(* owner, but for the mark of a session that a client deletes while its    *)
(* failed creation is undone (crossed).                                    *)
(*                                                                         *)
(* What the screen shows once nothing is on the way, for any number of     *)
(* runs, texts, messages and calls given up: the proof of ShowsTheEnd.     *)
(* Whatever makes the screen spin, and whatever it lists, is followed by   *)
(* what stops it or takes it off the list.                                 *)
(***************************************************************************)
EXTENDS SessionManager, SteeringClientProofs

-----------------------------------------------------------------------------
(* The session manager: the inductive invariant.                           *)

\* Every request but the ready one is about a session.
Named == \A c \in Conns : req[c].pc # "ready" => req[c].session \in Sessions

\* Generation 0 is the absent runtime, and generations are never reused.
Generations ==
  \A s \in Sessions :
    /\ runtime[s].gen = 0 <=> runtime[s] = NoRuntime
    /\ runtime[s].gen <= objects[s]

HoldPCs == {"load", "commit", "update", "setModel"}
LatchPCs == {"create", "read", "get", "legacy", "check", "install", "load",
             "commit", "abort"}
ErasePCs == {"deleteGet", "delete", "undo", "drop", "unmark"}

\* A session no client has seen is known to its creator at most, who has not
\* written its row.
UnusedUntouched ==
  /\ \A s \in unused :
       /\ meta[s] = Absent /\ runtime[s] = NoRuntime
       /\ s \notin deleting /\ s \notin crossed
       /\ \A c \in Conns : /\ attached[c] # s
                           /\ req[c].session = s => req[c].pc = "create"
  /\ \A c \in Conns : req[c].pc = "create" => req[c].session \in unused

\* The session has a runtime, or somebody may install one for the row he read.
Usable(s) ==
  \/ Loaded(s)
  \/ \E c \in Conns : /\ At(c, s, {"legacy", "check", "install"})
                      /\ req[c].version = deleteVersion[s]

\* Two requests erased the session at once, and nobody can bring it back.
Buried(s) == s \in crossed \ unused /\ meta[s] = Absent /\ ~Usable(s)

\* Who has taken hold of a runtime holds the current one, or has lost it for good.
HoldsCurrent ==
  \A c \in Conns :
    /\ req[c].pc \in HoldPCs => req[c].gen # 0
    /\ req[c].pc \in HoldPCs \cup {"deleteGet", "delete", "drop"} /\ req[c].gen # 0
         => Holds(c, req[c].session) \/ Buried(req[c].session)
    /\ req[c].pc \in {"abort", "undo", "drop", "unmark"} /\ req[c].create =>
         req[c].gen = 0

\* Who is attached to a session is its client, or its session is lost for good.
Attachments ==
  \A c \in Conns, s \in Sessions :
    /\ c \in runtime[s].clients => attached[c] = s
    /\ attached[c] = s => c \in runtime[s].clients \/ Buried(s)

\* The latch is set exactly while its owner creates the session, and nobody
\* else has got hold of the runtime.
Latch ==
  \A s \in Sessions :
    /\ \A c \in Conns : creating[s] = c <=> At(c, s, LatchPCs) /\ req[c].create
    /\ creating[s] # NoConn =>
         /\ s \notin crossed
         /\ runtime[s].clients = {} /\ runtime[s].status = "idle"
         /\ \A c \in Conns : At(c, s, HoldPCs \cup {"install"}) => c = creating[s]

\* The delete mark excludes everybody who uses the runtime, and has one owner
\* unless a creation was undone during a delete.
DeleteMark ==
  /\ \A s \in deleting :
       /\ runtime[s].clients = {} /\ runtime[s].status = "idle"
       /\ \A c \in Conns : ~(At(c, s, HoldPCs) /\ Holds(c, s))
  /\ \A s \in Sessions \ crossed :
       /\ s \in deleting <=> \E c \in Conns : At(c, s, ErasePCs)
       /\ \A c, d \in Conns : At(c, s, ErasePCs) /\ At(d, s, ErasePCs) => c = d

\* A request never knows a later generation than the manager.
Versions ==
  \A c \in Conns : req[c].pc # "ready" =>
    req[c].version <= deleteVersion[req[c].session]

\* A live session has a row, until somebody has erased it.
Rowed == \A s \in Sessions :
  /\ Erased(s) => meta[s] = Absent
  /\ Usable(s) => meta[s] # Absent \/ Erased(s)

\* Only a create carries the create flag, and only in its own steps.
CreateFlag ==
  \A c \in Conns :
    /\ req[c].pc \in {"read", "create", "abort", "undo"} => req[c].create
    /\ req[c].create => req[c].pc \in LatchPCs \cup {"undo", "drop", "unmark"}

\* A run is never active while an attach reloads the working memory.
LoadIdle == \A c \in Conns :
  req[c].pc = "load" /\ req[c].load => runtime[req[c].session].status = "idle"

\* An update names a model.
UpdateModels == \A c \in Conns : req[c].pc = "update" => req[c].model \in Models

IInv ==
  /\ TypeOK /\ Named /\ Generations /\ UnusedUntouched /\ CreateFlag
  /\ HoldsCurrent /\ HoldsCounted /\ Latch /\ DeleteMark /\ Versions /\ Rowed
  /\ Attachments /\ LoadIdle

\* What is lost for good stays so: every step does this (BuriedStep).
Stays == \A s \in Sessions : Buried(s) => Buried(s)'

-----------------------------------------------------------------------------
(* Types                                                                   *)

TypeInv == TypeOK /\ Named

LEMMA ConstantTypes == NoRuntime \in Runtimes /\ Ready \in Requests
BY DEF NoRuntime, Ready, PCs, Rows, Statuses, Runtimes, Requests

LEMMA TypeInit == Init => TypeInv
BY ConstantTypes, ConstantAssumption DEF Init, TypeInv, TypeOK, Named, Ready, Rows

LEMMA ScheduleUnloadType ==
  ASSUME TypeOK, NEW s \in Sessions, NEW rt \in Runtimes, ScheduleUnload(s, rt)
  PROVE  unloadVersion' \in [Sessions -> Nat] /\ timers' \subseteq Timers
BY DEF TypeOK, ScheduleUnload, Timers, Runtimes

LEMMA FinishStateOpType ==
  ASSUME TypeOK, NEW s \in Sessions, FinishStateOp(s)
  PROVE  /\ runtime' \in [Sessions -> Runtimes]
         /\ unloadVersion' \in [Sessions -> Nat] /\ timers' \subseteq Timers
<1>1. CASE runtime[s].ops > 0
  <2>1. [runtime[s] EXCEPT !.ops = @ - 1] \in Runtimes
    BY <1>1 DEF TypeOK, Runtimes
  <2> QED
    BY <1>1, <2>1, ScheduleUnloadType DEF FinishStateOp, TypeOK
<1>2. CASE ~(runtime[s].ops > 0)
  BY <1>2 DEF FinishStateOp, TypeOK
<1> QED
  BY <1>1, <1>2

LEMMA AttachFailedType ==
  ASSUME NEW r \in Requests
  PROVE  /\ AttachFailed(r) \in Requests
         /\ AttachFailed(r).pc # "ready" => AttachFailed(r).session = r.session
         /\ AttachFailed(r).pc \in {"ready", "abort"}
BY ConstantTypes DEF AttachFailed, Ready, Requests, PCs

LEMMA LeftType ==
  ASSUME TypeOK, NEW c \in Conns
  PROVE  Left(c) \in [Sessions -> Runtimes]
BY DEF TypeOK, Left, Runtimes

LEMMA OpsType ==
  ASSUME NEW rt \in Runtimes
  PROVE  [rt EXCEPT !.ops = @ + 1] \in Runtimes
BY DEF Runtimes

LEMMA AttachedType ==
  ASSUME NEW rt \in Runtimes, NEW c \in Conns
  PROVE  [rt EXCEPT !.clients = @ \cup {c}, !.ops = IF @ > 0 THEN @ - 1 ELSE @]
           \in Runtimes
<1>1. (IF rt.ops > 0 THEN rt.ops - 1 ELSE rt.ops) \in Nat
  BY DEF Runtimes
<1>2. rt.clients \cup {c} \in SUBSET Conns
  BY DEF Runtimes
<1> QED
  BY <1>1, <1>2 DEF Runtimes

LEMMA CandidateType ==
  ASSUME NEW g \in Nat, NEW m \in Rows
  PROVE  [NoRuntime EXCEPT !.gen = g, !.model = m] \in Runtimes
BY ConstantTypes DEF NoRuntime, Runtimes

\* A step that only changes the request of c, and keeps its session.
LEMMA RequestType ==
  ASSUME TypeInv, NEW c \in Conns, NEW r \in Requests, req' = [req EXCEPT ![c] = r],
         r.pc # "ready" => r.session \in Sessions
  PROVE  req' \in [Conns -> Requests] /\ Named'
BY DEF TypeInv, TypeOK, Named

LEMMA LoadRequestType ==
  ASSUME NEW r \in Requests, NEW g \in Nat, NEW b \in BOOLEAN
  PROVE  /\ [r EXCEPT !.pc = "load", !.gen = g, !.load = b] \in Requests
         /\ [r EXCEPT !.pc = "load", !.gen = g, !.load = b].session = r.session
BY DEF Requests, PCs

LEMMA HoldRuntimeType ==
  ASSUME TypeInv, NEW c \in Conns, NEW s \in Sessions, NEW rt \in Runtimes,
         req[c].session = s, HoldRuntime(c, s, rt), objects' \in [Sessions -> Nat]
  PROVE  TypeInv'
<1> DEFINE b == rt.status = "idle"
<1>1. [rt EXCEPT !.ops = @ + 1] \in Runtimes /\ rt.gen \in Nat /\ b \in BOOLEAN
  BY OpsType DEF Runtimes
<1>2. req' = [req EXCEPT ![c] = [req[c] EXCEPT !.pc = "load", !.gen = rt.gen, !.load = b]]
  BY DEF HoldRuntime
<1>3. req[c] \in Requests
  BY DEF TypeInv, TypeOK
<1> HIDE DEF b
<1>4. [req[c] EXCEPT !.pc = "load", !.gen = rt.gen, !.load = b] \in Requests
  BY <1>1, <1>3, LoadRequestType
<1>5. req' \in [Conns -> Requests] /\ Named'
  BY <1>1, <1>2, <1>3, <1>4, LoadRequestType, RequestType
<1>6. /\ runtime' \in [Sessions -> Runtimes]
      /\ unloadVersion' \in [Sessions -> Nat] /\ UNCHANGED timers
      /\ UNCHANGED <<meta, unused, attached, creating, deleting, deleteVersion, crossed, budget>>
  BY <1>1 DEF HoldRuntime, InvalidateUnload, TypeInv, TypeOK
<1> QED
  BY <1>5, <1>6 DEF TypeInv, TypeOK

LEMMA SendType ==
  ASSUME TypeInv, NEW c \in Conns, NEW r \in Requests, Send(c, r),
         r.pc # "ready" => r.session \in Sessions
  PROVE  req' \in [Conns -> Requests] /\ Named' /\ budget' \in Nat
<1>1. budget' \in Nat
  BY DEF Send, TypeInv, TypeOK
<1> QED
  BY <1>1, RequestType DEF Send

LEMMA GotoType ==
  ASSUME TypeInv, NEW c \in Conns, NEW pc \in PCs, Goto(c, pc), req[c].pc # "ready"
  PROVE  req' \in [Conns -> Requests] /\ Named'
<1>1. /\ [req[c] EXCEPT !.pc = pc] \in Requests
      /\ [req[c] EXCEPT !.pc = pc].session \in Sessions
  BY DEF TypeInv, TypeOK, Named, Requests
<1>2. req' = [req EXCEPT ![c] = [req[c] EXCEPT !.pc = pc]]
  BY DEF Goto
<1> QED
  BY <1>1, <1>2, RequestType

LEMMA FailedType ==
  ASSUME TypeInv, NEW c \in Conns, req' = [req EXCEPT ![c] = AttachFailed(@)],
         req[c].pc # "ready"
  PROVE  req' \in [Conns -> Requests] /\ Named'
<1>1. req[c] \in Requests /\ req[c].session \in Sessions
  BY DEF TypeInv, TypeOK, Named
<1> QED
  BY <1>1, AttachFailedType, RequestType

LEMMA ReadyType ==
  ASSUME TypeInv, NEW c \in Conns, req' = [req EXCEPT ![c] = Ready]
  PROVE  req' \in [Conns -> Requests] /\ Named'
BY ConstantTypes, RequestType DEF Ready

LEMMA RejectType ==
  ASSUME TypeInv, NEW c \in Conns, Reject(c), req[c].pc # "ready"
  PROVE  TypeInv'
BY FailedType DEF Reject, mgrVars, TypeInv, TypeOK

-----------------------------------------------------------------------------
LEMMA RequestStepType ==
  ASSUME TypeInv, NEW c \in Conns, Request(c)
  PROVE  TypeInv'
<1> USE ConstantTypes, ConstantAssumption DEF TypeInv, TypeOK
<1>1. ASSUME NEW s \in Sessions, NEW active \in BOOLEAN, Attach(c, s, active)
      PROVE  TypeInv'
  <2>1. [Ready EXCEPT !.pc = "get", !.session = s, !.active = active,
                      !.version = deleteVersion[s]] \in Requests
    BY DEF Ready, Requests, PCs, Rows
  <2> QED
    BY <1>1, <2>1, SendType DEF Attach, mgrVars, Ready
<1>2. ASSUME NEW s \in Sessions, Create(c, s) PROVE TypeInv'
  <2>1. [Ready EXCEPT !.pc = "create", !.session = s, !.create = TRUE] \in Requests
    BY DEF Ready, Requests, PCs, Rows
  <2> QED
    BY <1>2, <2>1, SendType DEF Create, Ready
<1>3. ASSUME NEW s \in Sessions, Delete(c, s) PROVE TypeInv'
  <2>1. [Ready EXCEPT !.pc = "deleteGet", !.session = s, !.gen = runtime[s].gen]
           \in Requests
    BY DEF Ready, Requests, PCs, Rows, Runtimes
  <2>2. [runtime EXCEPT ![s].ops = @ + 1] \in [Sessions -> Runtimes]
    BY OpsType
  <2> QED
    BY <1>3, <2>1, <2>2, SendType DEF Delete, Ready
<1>4. ASSUME NEW m \in Models, Update(c, m) PROVE TypeInv'
  <2> DEFINE s == attached[c]
  <2>1. s \in Sessions
    BY <1>4 DEF Update
  <2>2. [Ready EXCEPT !.pc = "update", !.session = s, !.model = m,
                      !.gen = runtime[s].gen] \in Requests
    BY <2>1 DEF Ready, Requests, PCs, Rows, Runtimes
  <2>3. [runtime EXCEPT ![s].ops = @ + 1] \in [Sessions -> Runtimes]
    BY <2>1, OpsType
  <2> QED
    BY <1>4, <2>1, <2>2, <2>3, SendType DEF Update, Ready
<1>5. CASE Detach(c)
  <2> DEFINE r == IF Orphaned(c, Left(c))
                    THEN [Ready EXCEPT !.pc = "settle", !.session = attached[c]]
                    ELSE Ready
  <2>1. r \in Requests /\ (r.pc # "ready" => r.session \in Sessions)
    BY <1>5 DEF Detach, Ready, Requests, PCs, Rows
  <2>2. Send(c, r)
    BY <1>5 DEF Detach
  <2> HIDE DEF r
  <2> QED
    BY <1>5, <2>1, <2>2, SendType, LeftType DEF Detach
<1>6. CASE BeginRun(c)
  <2>1. attached[c] \in Sessions
    BY <1>6 DEF BeginRun
  <2>2. [runtime EXCEPT ![attached[c]].status = "running"] \in [Sessions -> Runtimes]
    BY <2>1 DEF Runtimes, Statuses, BusyStatus
  <2>3. req' \in [Conns -> Requests] /\ Named' /\ budget' \in Nat
    BY <1>6, SendType DEF BeginRun, Ready
  <2> QED
    BY <1>6, <2>1, <2>2, <2>3 DEF BeginRun, InvalidateUnload
<1> QED
  BY <1>1, <1>2, <1>3, <1>4, <1>5, <1>6 DEF Request

LEMMA DeleteFailedType ==
  ASSUME TypeInv, NEW c \in Conns, DeleteFailed(c), req[c].pc # "ready"
  PROVE  TypeInv'
<1>1. req' \in [Conns -> Requests] /\ Named'
  BY GotoType DEF DeleteFailed, PCs
<1>2. /\ runtime' \in [Sessions -> Runtimes]
      /\ unloadVersion' \in [Sessions -> Nat] /\ timers' \subseteq Timers
  <2>1. req[c].session \in Sessions
    BY DEF TypeInv, Named
  <2> QED
    BY <2>1, FinishStateOpType DEF DeleteFailed, TypeInv, TypeOK
<1> QED
  BY <1>1, <1>2 DEF DeleteFailed, TypeInv, TypeOK

LEMMA AttachStepType ==
  ASSUME TypeInv, NEW c \in Conns,
         \/ AttachRead(c) \/ AttachGet(c) \/ Materialize(c) \/ AttachCheck(c)
         \/ AttachInstall(c) \/ AttachLoad(c) \/ AttachCommit(c)
  PROVE  TypeInv'
<1> USE ConstantTypes, ConstantAssumption DEF TypeInv, TypeOK
<1> DEFINE s == req[c].session
<1>0. /\ s \in Sessions /\ req[c].pc # "ready" /\ req[c] \in Requests
      /\ runtime[s] \in Runtimes
  BY DEF Named, AttachRead, AttachGet, Materialize, AttachCheck, AttachInstall,
         AttachLoad, AttachCommit
<1>1. CASE AttachRead(c)
  <2>1. [req[c] EXCEPT !.pc = "get", !.version = deleteVersion[s]] \in Requests
    BY <1>0 DEF Requests, PCs
  <2>2. [req[c] EXCEPT !.pc = "get", !.version = deleteVersion[s]].session = s
    BY <1>0 DEF Requests
  <2>3. req' = [req EXCEPT ![c] = [req[c] EXCEPT !.pc = "get", !.version = deleteVersion[s]]]
    BY <1>1 DEF AttachRead
  <2>4. UNCHANGED <<meta, unused, mgrVars, budget>>
    BY <1>1 DEF AttachRead
  <2> QED
    BY <1>0, <2>1, <2>2, <2>3, <2>4, RequestType DEF mgrVars
<1>2. CASE AttachGet(c)
  <2>1. CASE Reject(c)
    BY <1>0, <2>1, RejectType
  <2>2. CASE /\ meta[s] # Absent
             /\ req' = [req EXCEPT ![c].model = meta[s],
                  ![c].pc = IF meta[s] = Legacy THEN "legacy" ELSE "check"]
             /\ UNCHANGED <<meta, unused, mgrVars, budget>>
    <3> DEFINE r == [req[c] EXCEPT !.model = meta[s],
                       !.pc = IF meta[s] = Legacy THEN "legacy" ELSE "check"]
    <3>1. r \in Requests /\ r.session = s
      BY <1>0 DEF Requests, PCs
    <3>2. req' = [req EXCEPT ![c] = r]
      BY <2>2
    <3> HIDE DEF r
    <3> QED
      BY <1>0, <2>2, <3>1, <3>2, RequestType DEF mgrVars
  <2> QED
    BY <1>2, <2>1, <2>2 DEF AttachGet
<1>3. CASE Materialize(c)
  <2> DEFINE final == IF meta[s] = Legacy THEN DefaultModel ELSE meta[s]
             r == [req[c] EXCEPT !.pc = "check", !.model = final]
  <2>0. final \in Rows
    BY <1>0 DEF Rows
  <2>1. CASE Reject(c)
    BY <1>0, <2>1, RejectType
  <2>2. CASE /\ meta' = [meta EXCEPT ![s] = final]
             /\ req' = [req EXCEPT ![c].pc = "check", ![c].model = final]
             /\ UNCHANGED <<unused, mgrVars, budget>>
    <3>1. r \in Requests /\ r.session = s
      BY <1>0, <2>0 DEF Requests, PCs
    <3>2. req' = [req EXCEPT ![c] = r]
      BY <2>2
    <3> HIDE DEF r, final
    <3> QED
      BY <1>0, <2>0, <2>2, <3>1, <3>2, RequestType DEF mgrVars
  <2> QED
    BY <1>3, <2>1, <2>2 DEF Materialize
<1>4. CASE AttachCheck(c)
  <2>1. CASE Reject(c)
    BY <1>0, <2>1, RejectType
  <2>2. CASE HoldRuntime(c, s, runtime[s]) /\ UNCHANGED objects
    BY <1>0, <2>2, HoldRuntimeType
  <2>3. CASE Goto(c, "install") /\ UNCHANGED <<meta, unused, mgrVars, budget>>
    BY <1>0, <2>3, GotoType DEF mgrVars, PCs
  <2> QED
    BY <1>4, <2>1, <2>2, <2>3 DEF AttachCheck
<1>5. CASE AttachInstall(c)
  <2> DEFINE candidate == [NoRuntime EXCEPT !.gen = objects[s] + 1, !.model = req[c].model]
  <2>0. candidate \in Runtimes
    <3>1. objects[s] + 1 \in Nat /\ req[c].model \in Rows
      BY <1>0 DEF Requests
    <3> QED
      BY <3>1, CandidateType
  <2>1. CASE Reject(c)
    BY <1>0, <2>1, RejectType
  <2>2. CASE HoldRuntime(c, s, runtime[s]) /\ UNCHANGED objects
    BY <1>0, <2>2, HoldRuntimeType
  <2>3. CASE /\ HoldRuntime(c, s, candidate)
             /\ objects' = [objects EXCEPT ![s] = @ + 1]
    BY <1>0, <2>0, <2>3, HoldRuntimeType
  <2> QED
    BY <1>5, <2>1, <2>2, <2>3 DEF AttachInstall
<1>6. CASE AttachLoad(c)
  <2>1. CASE Goto(c, "commit") /\ UNCHANGED <<meta, unused, mgrVars, budget>>
    BY <1>0, <2>1, GotoType DEF mgrVars, PCs
  <2>2. CASE /\ FinishStateOp(s)
             /\ req' = [req EXCEPT ![c] = AttachFailed(@)]
             /\ UNCHANGED <<meta, unused, objects, attached, creating, deleting,
                            deleteVersion, crossed, budget>>
    BY <1>0, <2>2, FinishStateOpType, FailedType
  <2> QED
    BY <1>6, <2>1, <2>2 DEF AttachLoad
<1>7. CASE AttachCommit(c)
  <2> DEFINE moves == attached[c] \notin {NoSession, s}
             rts == IF moves THEN Left(c) ELSE runtime
             r == IF moves /\ Orphaned(c, rts)
                    THEN [Ready EXCEPT !.pc = "settle", !.session = attached[c]]
                    ELSE Ready
  <2>1. CASE /\ IF runtime[s].gen = req[c].gen
                  THEN FinishStateOp(s)
                  ELSE UNCHANGED <<runtime, unloadVersion, timers>>
             /\ req' = [req EXCEPT ![c] = AttachFailed(@)]
             /\ UNCHANGED <<attached, creating>>
    BY <1>0, <1>7, <2>1, FinishStateOpType, FailedType DEF AttachCommit
  <2>2. CASE /\ runtime' = [rts EXCEPT ![s].clients = @ \cup {c},
                                       ![s].ops = IF @ > 0 THEN @ - 1 ELSE @]
             /\ attached' = [attached EXCEPT ![c] = s]
             /\ creating' = [creating EXCEPT ![s] = NoConn]
             /\ req' = [req EXCEPT ![c] = r]
             /\ UNCHANGED <<unloadVersion, timers>>
    <3>1. rts \in [Sessions -> Runtimes]
      BY LeftType
    <3>2. r \in Requests /\ (r.pc # "ready" => r.session \in Sessions)
      BY DEF Ready, Requests, PCs, Rows
    <3> HIDE DEF rts, r
    <3>3. runtime' \in [Sessions -> Runtimes]
      <4>1. [rts[s] EXCEPT !.clients = @ \cup {c}, !.ops = IF @ > 0 THEN @ - 1 ELSE @]
              \in Runtimes
        BY <1>0, <3>1, AttachedType
      <4> QED
        BY <2>2, <3>1, <4>1
    <3>4. req' \in [Conns -> Requests] /\ Named'
      BY <2>2, <3>2, RequestType
    <3> QED
      BY <1>0, <1>7, <2>2, <3>3, <3>4 DEF AttachCommit
  <2> QED
    BY <1>7, <2>1, <2>2 DEF AttachCommit
<1> QED
  BY <1>1, <1>2, <1>3, <1>4, <1>5, <1>6, <1>7

LEMMA OtherStepType ==
  ASSUME TypeInv, NEW c \in Conns,
         \/ CreateStore(c) \/ CreateAbort(c) \/ CreateUndo(c)
         \/ DeleteGet(c) \/ DeletePersisted(c) \/ DropRuntime(c) \/ Unmark(c)
         \/ Settle(c) \/ UpdateRow(c) \/ UpdateAgent(c)
  PROVE  TypeInv'
<1> USE ConstantTypes, ConstantAssumption DEF TypeInv, TypeOK
<1> DEFINE s == req[c].session
<1>0. /\ s \in Sessions /\ req[c].pc # "ready" /\ req[c] \in Requests
      /\ runtime[s] \in Runtimes
  BY DEF Named, CreateStore, CreateAbort, CreateUndo, DeleteGet, DeletePersisted,
         DropRuntime, Unmark, Settle, UpdateRow, UpdateAgent
<1>1. CASE CreateStore(c)
  <2>1. req' \in [Conns -> Requests] /\ Named'
    BY <1>0, <1>1, GotoType, ReadyType DEF CreateStore, PCs
  <2>2. DefaultModel \in Rows
    BY DEF Rows
  <2> QED
    BY <1>0, <1>1, <2>1, <2>2 DEF CreateStore
<1>2. CASE CreateAbort(c)
  BY <1>0, <1>2, GotoType DEF CreateAbort, PCs
<1>3. CASE CreateUndo(c)
  <2>1. req' \in [Conns -> Requests] /\ Named'
    BY <1>0, <1>3, GotoType DEF CreateUndo, PCs
  <2>2. Absent \in Rows
    BY DEF Rows
  <2> QED
    BY <1>0, <1>3, <2>1, <2>2 DEF CreateUndo, mgrVars
<1>4. CASE DeleteGet(c)
  <2>1. CASE DeleteFailed(c)
    BY <1>0, <2>1, DeleteFailedType
  <2>2. CASE Goto(c, "delete") /\ UNCHANGED <<meta, unused, mgrVars, budget>>
    BY <1>0, <2>2, GotoType DEF mgrVars, PCs
  <2> QED
    BY <1>4, <2>1, <2>2 DEF DeleteGet
<1>5. CASE DeletePersisted(c)
  <2>1. CASE DeleteFailed(c)
    BY <1>0, <2>1, DeleteFailedType
  <2>2. CASE /\ meta' = [meta EXCEPT ![s] = Absent]
             /\ Goto(c, "drop")
             /\ UNCHANGED <<unused, mgrVars, budget>>
    BY <1>0, <2>2, GotoType DEF mgrVars, PCs, Rows
  <2> QED
    BY <1>5, <2>1, <2>2 DEF DeletePersisted
<1>6. CASE DropRuntime(c)
  BY <1>0, <1>6, GotoType DEF DropRuntime, PCs
<1>7. CASE Unmark(c)
  BY <1>0, <1>7, ReadyType DEF Unmark
<1>8. CASE Settle(c)
  BY <1>0, <1>8, ReadyType, ScheduleUnloadType DEF Settle
<1>9. CASE UpdateRow(c)
  <2>1. CASE /\ meta' = [meta EXCEPT ![s] = req[c].model]
             /\ Goto(c, "setModel")
             /\ UNCHANGED <<runtime, unloadVersion, timers>>
    <3>1. req[c].model \in Rows
      BY <1>0 DEF Requests
    <3> QED
      BY <1>0, <1>9, <2>1, <3>1, GotoType DEF UpdateRow, PCs
  <2>2. CASE FinishStateOp(s) /\ req' = [req EXCEPT ![c] = Ready] /\ UNCHANGED meta
    BY <1>0, <1>9, <2>2, FinishStateOpType, ReadyType DEF UpdateRow
  <2> QED
    BY <1>9, <2>1, <2>2 DEF UpdateRow
<1>10. CASE UpdateAgent(c)
  <2> DEFINE rt == [runtime[s] EXCEPT !.model = req[c].model, !.ops = @ - 1]
  <2>1. req' \in [Conns -> Requests] /\ Named'
    BY <1>10, ReadyType DEF UpdateAgent
  <2>2. /\ runtime' \in [Sessions -> Runtimes]
        /\ unloadVersion' \in [Sessions -> Nat] /\ timers' \subseteq Timers
    <3>1. CASE /\ runtime[s].ops > 0
               /\ runtime' = [runtime EXCEPT ![s] = rt] /\ ScheduleUnload(s, rt)
      <4>1. rt \in Runtimes
        <5>1. req[c].model \in Rows /\ runtime[s].ops - 1 \in Nat
          BY <1>0, <3>1 DEF Requests, Runtimes
        <5> QED
          BY <1>0, <5>1 DEF Runtimes
      <4> HIDE DEF rt
      <4> QED
        BY <1>0, <3>1, <4>1, ScheduleUnloadType
    <3>2. CASE FinishStateOp(s)
      BY <1>0, <3>2, FinishStateOpType
    <3> QED
      BY <1>10, <3>1, <3>2 DEF UpdateAgent
  <2> QED
    BY <1>10, <2>1, <2>2 DEF UpdateAgent
<1> QED
  BY <1>1, <1>2, <1>3, <1>4, <1>5, <1>6, <1>7, <1>8, <1>9, <1>10

\* Every step of the manager keeps the types, and the session of a request.
THEOREM TypeStep == TypeInv /\ [Next]_vars => TypeInv'
<1> SUFFICES ASSUME TypeInv, [Next]_vars PROVE TypeInv'
  OBVIOUS
<1>1. ASSUME NEW c \in Conns, Request(c) \/ Continue(c) PROVE TypeInv'
  BY <1>1, RequestStepType, AttachStepType, OtherStepType DEF Continue
<1>2. ASSUME NEW s \in Sessions, FinishRun(s) PROVE TypeInv'
  <2>1. [runtime[s] EXCEPT !.status = "idle"] \in Runtimes
    BY DEF TypeInv, TypeOK, Runtimes, Statuses
  <2> QED
    BY <1>2, <2>1, ScheduleUnloadType DEF FinishRun, TypeInv, TypeOK, Named
<1>3. ASSUME NEW s \in Sessions, NEW st \in BusyStatus, RunStatus(s, st) PROVE TypeInv'
  <2>1. [runtime[s] EXCEPT !.status = st] \in Runtimes
    BY DEF TypeInv, TypeOK, Runtimes, Statuses
  <2>2. runtime' \in [Sessions -> Runtimes]
    BY <1>3, <2>1 DEF RunStatus, TypeInv, TypeOK
  <2> QED
    BY <1>3, <2>2 DEF RunStatus, InvalidateUnload, TypeInv, TypeOK, Named
<1>4. ASSUME NEW t \in timers, UnloadFires(t) PROVE TypeInv'
  BY <1>4, ConstantTypes DEF UnloadFires, TypeInv, TypeOK, Named, Timers
<1>5. CASE UNCHANGED vars
  BY <1>5 DEF vars, mgrVars, TypeInv, TypeOK, Named
<1> QED
  BY <1>1, <1>2, <1>3, <1>4, <1>5 DEF Next

\* Every variable of the session manager keeps its type.
THEOREM TypeCorrect == Spec => []TypeOK
<1>1. TypeInv => TypeOK
  BY DEF TypeInv
<1> QED
  BY <1>1, TypeInit, TypeStep, PTL DEF Spec

-----------------------------------------------------------------------------
(* How many requests hold a runtime                                        *)

CountOk(s) == runtime[s].ops = Cardinality({c \in Conns : Holds(c, s)})

LEMMA HoldersFinite ==
  ASSUME NEW s \in Sessions
  PROVE  /\ IsFiniteSet({c \in Conns : Holds(c, s)})
         /\ Cardinality({c \in Conns : Holds(c, s)}) \in Nat
BY ConstantAssumption, FS_Subset, FS_CardinalityType

LEMMA NoHolder ==
  ASSUME NEW s \in Sessions, CountOk(s), runtime[s].ops = 0
  PROVE  \A c \in Conns : ~Holds(c, s)
<1>1. {c \in Conns : Holds(c, s)} = {}
  BY HoldersFinite, FS_EmptySet DEF CountOk
<1> QED
  BY <1>1

LEMMA SomeHolder ==
  ASSUME TypeOK, NEW s \in Sessions, CountOk(s), NEW c \in Conns, Holds(c, s)
  PROVE  runtime[s].ops > 0
<1>1. runtime[s].ops \in Nat
  BY DEF TypeOK, Runtimes
<1> QED
  BY <1>1, NoHolder

LEMMA CountKept ==
  ASSUME NEW s \in Sessions, CountOk(s), runtime'[s].ops = runtime[s].ops,
         \A c \in Conns : Holds(c, s)' <=> Holds(c, s)
  PROVE  CountOk(s)'
<1>1. {c \in Conns : Holds(c, s)'} = {c \in Conns : Holds(c, s)}
  OBVIOUS
<1> QED
  BY <1>1 DEF CountOk

LEMMA CountAdded ==
  ASSUME NEW s \in Sessions, CountOk(s), runtime'[s].ops = runtime[s].ops + 1,
         NEW c \in Conns, ~Holds(c, s), Holds(c, s)',
         \A d \in Conns \ {c} : Holds(d, s)' <=> Holds(d, s)
  PROVE  CountOk(s)'
<1>1. {d \in Conns : Holds(d, s)'} = {d \in Conns : Holds(d, s)} \cup {c}
  OBVIOUS
<1>2. c \notin {d \in Conns : Holds(d, s)}
  OBVIOUS
<1>3. Cardinality({d \in Conns : Holds(d, s)} \cup {c})
        = Cardinality({d \in Conns : Holds(d, s)}) + 1
  BY <1>2, HoldersFinite, FS_AddElement
<1> QED
  BY <1>1, <1>3 DEF CountOk

LEMMA CountRemoved ==
  ASSUME NEW s \in Sessions, CountOk(s), runtime'[s].ops = runtime[s].ops - 1,
         NEW c \in Conns, Holds(c, s), ~Holds(c, s)',
         \A d \in Conns \ {c} : Holds(d, s)' <=> Holds(d, s)
  PROVE  CountOk(s)'
<1>1. {d \in Conns : Holds(d, s)'} = {d \in Conns : Holds(d, s)} \ {c}
  OBVIOUS
<1>2. c \in {d \in Conns : Holds(d, s)}
  OBVIOUS
<1>3. Cardinality({d \in Conns : Holds(d, s)} \ {c})
        = Cardinality({d \in Conns : Holds(d, s)}) - 1
  BY <1>2, HoldersFinite, FS_RemoveElement
<1> QED
  BY <1>1, <1>3 DEF CountOk

LEMMA CountEmpty ==
  ASSUME NEW s \in Sessions, runtime'[s].ops = 0, \A c \in Conns : ~Holds(c, s)'
  PROVE  CountOk(s)'
<1>1. {c \in Conns : Holds(c, s)'} = {}
  OBVIOUS
<1> QED
  BY <1>1, FS_EmptySet DEF CountOk

LEMMA Counted == HoldsCounted <=> \A s \in Sessions : CountOk(s)
BY DEF HoldsCounted, CountOk

-----------------------------------------------------------------------------
(* Steps of a request that leave the manager alone                         *)

OtherReqs(c) == \A d \in Conns \ {c} : req'[d] = req[d]

ManagerSame ==
  UNCHANGED <<runtime, objects, attached, creating, deleting, deleteVersion, crossed>>

QuietMoves ==
  {<<"read", "get">>, <<"get", "legacy">>, <<"get", "check">>, <<"legacy", "check">>,
   <<"check", "install">>, <<"load", "commit">>, <<"create", "read">>,
   <<"deleteGet", "delete">>, <<"delete", "drop">>, <<"undo", "drop">>,
   <<"deleteGet", "unmark">>, <<"delete", "unmark">>, <<"undo", "unmark">>,
   <<"update", "setModel">>}

\* A request moves on without leaving or entering a critical class of steps;
\* it enters install only past the creation latch.
LEMMA QuietStep ==
  ASSUME IInv, Stays, NEW c \in Conns, req' \in [Conns -> Requests], OtherReqs(c),
         ManagerSame, <<req[c].pc, req'[c].pc>> \in QuietMoves,
         unused' = IF req[c].pc = "create" THEN unused \ {req[c].session} ELSE unused,
         req'[c].pc = "install" => ~CreatedByOther(c, req[c].session),
         req'[c].pc = "unmark" => ~Holds(c, req[c].session),
         req'[c].session = req[c].session, req'[c].gen = req[c].gen,
         req'[c].create = req[c].create,
         \A s \in unused' : meta'[s] = meta[s],
         TypeOK', Named', Versions', Rowed'
  PROVE  IInv'
<1> DEFINE s == req[c].session
<1>0. /\ s \in Sessions /\ req \in [Conns -> Requests] /\ req[c].pc # "ready"
      /\ creating[s] \in Conns \cup {NoConn} /\ creating \in [Sessions -> Conns \cup {NoConn}]
  BY DEF IInv, Named, TypeOK, QuietMoves
<1>1. Generations'
  BY DEF IInv, Generations, ManagerSame
<1>2. UnusedUntouched'
  <2>1. ASSUME NEW x \in unused', NEW d \in Conns, req'[d].session = x
        PROVE  req'[d].pc = "create"
    <3>1. x \in unused
      OBVIOUS
    <3> QED
      BY <1>0, <2>1, <3>1 DEF IInv, UnusedUntouched, OtherReqs
  <2>2. ASSUME NEW d \in Conns, req'[d].pc = "create" PROVE req'[d].session \in unused'
    <3>1. d # c /\ req'[d] = req[d]
      BY <2>2 DEF QuietMoves, OtherReqs
    <3>2. req[d].session \in unused /\ req[d].session \in Sessions /\ req[d].create
      BY <2>2, <3>1 DEF IInv, UnusedUntouched, CreateFlag, Named
    <3>3. creating[req[d].session] = d
      BY <2>2, <3>1, <3>2 DEF IInv, Latch, At, LatchPCs
    <3>4. CASE req[c].pc = "create"
      <4>1. creating[s] = c
        BY <1>0, <3>4 DEF IInv, Latch, At, LatchPCs, CreateFlag
      <4> QED
        BY <3>1, <3>2, <3>3, <3>4, <4>1
    <3> QED
      BY <3>1, <3>2, <3>4
  <2> QED
    BY <2>1, <2>2 DEF IInv, UnusedUntouched, ManagerSame
<1>3. CreateFlag'
  BY <1>0 DEF IInv, CreateFlag, OtherReqs, LatchPCs, QuietMoves
<1>4. ASSUME NEW x \in Sessions, NEW d \in Conns PROVE Holds(d, x)' <=> Holds(d, x)
  <2>1. CASE d # c
    BY <2>1 DEF Holds, OtherReqs, ManagerSame
  <2>2. CASE d = c
    BY <1>0, <2>2 DEF Holds, ManagerSame, QuietMoves, IInv, HoldsCurrent, CreateFlag
  <2> QED
    BY <2>1, <2>2
<1>5. HoldsCurrent'
  <2>1. ASSUME NEW d \in Conns
        PROVE  /\ req'[d].pc \in HoldPCs => req'[d].gen # 0
               /\ req'[d].pc \in HoldPCs \cup {"deleteGet", "delete", "drop"}
                    /\ req'[d].gen # 0
                    => Holds(d, req[d].session) \/ Buried(req[d].session)
               /\ req'[d].pc \in {"abort", "undo", "drop", "unmark"} /\ req'[d].create =>
                    req'[d].gen = 0
               /\ req'[d].session = req[d].session
    BY <1>0 DEF IInv, HoldsCurrent, HoldPCs, OtherReqs, QuietMoves, CreateFlag, LatchPCs
  <2>2. ASSUME NEW d \in Conns, req'[d].pc # "ready" PROVE req'[d].session \in Sessions
    BY <2>2 DEF Named
  <2> QED
    BY <1>4, <2>1, <2>2 DEF HoldsCurrent, HoldPCs, Stays
<1>6. HoldsCounted'
  BY <1>4, CountKept, Counted DEF IInv, ManagerSame, HoldsCounted, CountOk
<1>7. Latch'
  BY <1>0 DEF IInv, Latch, At, LatchPCs, HoldPCs, OtherReqs, ManagerSame, QuietMoves,
              CreateFlag, CreatedByOther
<1>8. DeleteMark'
  <2>1. \A d \in Conns, x \in Sessions :
          /\ At(d, x, ErasePCs)' <=> At(d, x, ErasePCs)
          /\ At(d, x, HoldPCs)' <=> At(d, x, HoldPCs)
    BY <1>0 DEF At, ErasePCs, HoldPCs, OtherReqs, QuietMoves
  <2>2. deleting \subseteq Sessions
    BY DEF IInv, TypeOK
  <2> QED
    BY <1>4, <2>1, <2>2 DEF IInv, DeleteMark, ManagerSame
<1>9. Attachments' /\ LoadIdle'
  BY <1>0 DEF IInv, Attachments, LoadIdle, Stays, ManagerSame, OtherReqs, QuietMoves
<1> QED
  BY <1>1, <1>2, <1>3, <1>5, <1>6, <1>7, <1>8, <1>9 DEF IInv

\* The request that follows a failed attach.
LEMMA FailedFields ==
  ASSUME NEW r \in Requests
  PROVE  /\ r.create => /\ AttachFailed(r).pc = "abort" /\ AttachFailed(r).session = r.session
                        /\ AttachFailed(r).create
         /\ ~r.create => AttachFailed(r) = Ready
         /\ AttachFailed(r).gen = 0 /\ AttachFailed(r).version = 0
BY ConstantTypes DEF AttachFailed, Ready, Requests

\* An attach or an update that fails without a hold on the current runtime.
LEMMA GivesUp ==
  ASSUME IInv, TypeInv', Stays, NEW c \in Conns, OtherReqs(c), ManagerSame,
         UNCHANGED <<meta, unused>>, req'[c] = AttachFailed(req[c]),
         req[c].pc \in {"get", "legacy", "check", "install"} \cup HoldPCs,
         ~Holds(c, req[c].session)
  PROVE  IInv'
<1> DEFINE s == req[c].session
<1>0. /\ s \in Sessions /\ req[c] \in Requests /\ req \in [Conns -> Requests]
      /\ req' \in [Conns -> Requests] /\ NoSession \notin Sessions
      /\ creating \in [Sessions -> Conns \cup {NoConn}]
      /\ deleteVersion \in [Sessions -> Nat] /\ unused \subseteq Sessions
      /\ deleting \subseteq Sessions
  BY ConstantAssumption DEF IInv, Named, TypeOK, TypeInv, HoldPCs
<1>3. \/ req[c].create /\ req'[c].pc = "abort" /\ req'[c].session = s /\ req'[c].create
      \/ ~req[c].create /\ req'[c].pc = "ready" /\ req'[c].session = NoSession
           /\ ~req'[c].create
  BY <1>0, FailedFields DEF Ready
<1>4. req'[c].gen = 0 /\ req'[c].version = 0
  BY <1>0, FailedFields
<1>5. Generations' /\ Attachments'
  BY DEF IInv, Generations, Attachments, ManagerSame, Stays
<1>6. UnusedUntouched'
  BY <1>0, <1>3 DEF IInv, UnusedUntouched, OtherReqs, ManagerSame, HoldPCs
<1>7. CreateFlag'
  BY <1>0, <1>3 DEF IInv, CreateFlag, OtherReqs, LatchPCs
<1>8. ASSUME NEW x \in Sessions, NEW d \in Conns PROVE Holds(d, x)' <=> Holds(d, x)
  BY <1>0, <1>3, <1>4, <1>8 DEF Holds, OtherReqs, ManagerSame
<1>9. HoldsCurrent'
  <2>1. ASSUME NEW d \in Conns \ {c}, req[d].pc # "ready"
        PROVE  req'[d] = req[d] /\ req[d].session \in Sessions
    BY <2>1 DEF OtherReqs, IInv, Named
  <2> QED
    BY <1>3, <1>4, <1>8, <2>1 DEF IInv, HoldsCurrent, HoldPCs, OtherReqs, Stays
<1>10. HoldsCounted'
  BY <1>8, CountKept, Counted DEF IInv, ManagerSame, HoldsCounted, CountOk
<1>11. Latch'
  BY <1>0, <1>3 DEF IInv, Latch, At, LatchPCs, HoldPCs, OtherReqs, ManagerSame, CreateFlag
<1>12. DeleteMark'
  <2>1. \A d \in Conns, x \in Sessions :
          /\ At(d, x, ErasePCs)' <=> At(d, x, ErasePCs)
          /\ At(d, x, HoldPCs)' => At(d, x, HoldPCs)
    BY <1>0, <1>3 DEF At, ErasePCs, HoldPCs, OtherReqs
  <2> QED
    BY <1>0, <1>8, <2>1 DEF IInv, DeleteMark, ManagerSame
<1>13. Versions' /\ LoadIdle'
  BY <1>0, <1>3, <1>4 DEF IInv, Versions, LoadIdle, OtherReqs, ManagerSame
<1>14. Rowed'
  <2>1. \A x \in Sessions : (Erased(x)' <=> Erased(x)) /\ (Usable(x)' => Usable(x))
    BY <1>0, <1>3 DEF Erased, Usable, Loaded, At, OtherReqs, ManagerSame, HoldPCs
  <2> QED
    BY <2>1 DEF IInv, Rowed
<1> QED
  BY <1>5, <1>6, <1>7, <1>9, <1>10, <1>11, <1>12, <1>13, <1>14 DEF IInv, TypeInv

LEMMA RejectSafe ==
  ASSUME IInv, TypeInv', Stays, NEW c \in Conns, Reject(c),
         req[c].pc \in {"get", "legacy", "check", "install"}
  PROVE  IInv'
<1>1. /\ OtherReqs(c) /\ ManagerSame /\ UNCHANGED <<meta, unused>>
      /\ req'[c] = AttachFailed(req[c])
  BY DEF IInv, TypeOK, Reject, OtherReqs, ManagerSame, mgrVars
<1>2. ~Holds(c, req[c].session)
  BY DEF Holds
<1> QED
  BY <1>1, <1>2, GivesUp



LEMMA FinishFields ==
  ASSUME IInv, NEW c \in Conns, NEW s \in Sessions, Holds(c, s), FinishStateOp(s)
  PROVE  /\ runtime'[s].gen = runtime[s].gen /\ runtime'[s].status = runtime[s].status
         /\ runtime'[s].clients = runtime[s].clients
         /\ runtime'[s].ops = runtime[s].ops - 1
         /\ \A x \in Sessions \ {s} : runtime'[x] = runtime[x]
<1>1. /\ runtime \in [Sessions -> Runtimes] /\ CountOk(s) /\ TypeOK
  BY Counted DEF IInv, TypeOK
<1>2. runtime[s].ops > 0
  BY <1>1, SomeHolder
<1> QED
  BY <1>1, <1>2 DEF FinishStateOp, Runtimes

\* The steps in which a request gives its hold on the runtime back.
LEMMA ReleaseSafe ==
  ASSUME IInv, TypeInv', Stays, NEW c \in Conns, NEW s \in Sessions, req[c].session = s,
         Holds(c, s), OtherReqs(c),
         runtime'[s].gen = runtime[s].gen, runtime'[s].status = runtime[s].status,
         runtime'[s].clients = runtime[s].clients, runtime'[s].ops = runtime[s].ops - 1,
         \A x \in Sessions \ {s} : runtime'[x] = runtime[x],
         UNCHANGED <<meta, unused, objects, attached, creating, deleting, deleteVersion,
                     crossed>>,
         req'[c].gen = 0 \/ req'[c].pc = "unmark", req'[c].version <= req[c].version,
         req'[c].pc # "ready" => req'[c].session = s,
         req'[c].pc = "ready" => req'[c].session = NoSession,
         req'[c].create <=> req[c].create /\ req'[c].pc # "ready",
         \/ req[c].pc \in {"load", "commit"} /\ req[c].create /\ req'[c].pc = "abort"
         \/ req[c].pc \in {"load", "commit", "update", "setModel"} /\ ~req[c].create
              /\ req'[c].pc = "ready"
         \/ req[c].pc \in {"deleteGet", "delete"} /\ req'[c].pc = "unmark"
              /\ req'[c].gen = req[c].gen
  PROVE  IInv'
<1>0. /\ req[c] \in Requests /\ req \in [Conns -> Requests]
      /\ req' \in [Conns -> Requests] /\ NoSession \notin Sessions
      /\ creating \in [Sessions -> Conns \cup {NoConn}]
      /\ deleteVersion \in [Sessions -> Nat] /\ runtime \in [Sessions -> Runtimes]
      /\ CountOk(s) /\ deleting \subseteq Sessions /\ s \in Sessions
  BY ConstantAssumption, Counted DEF IInv, Named, TypeOK, TypeInv
<1>1. runtime[s].ops > 0 /\ runtime[s].ops \in Nat /\ runtime[s].gen # 0
  BY <1>0, SomeHolder DEF IInv, Holds, Runtimes
<1>2. /\ runtime'[s].gen = runtime[s].gen /\ runtime'[s].status = runtime[s].status
      /\ runtime'[s].clients = runtime[s].clients
      /\ runtime'[s].ops = runtime[s].ops - 1
      /\ \A x \in Sessions \ {s} : runtime'[x] = runtime[x]
  OBVIOUS
<1>4. \A x \in Sessions : /\ runtime'[x].gen = runtime[x].gen
                          /\ runtime'[x].status = runtime[x].status
                          /\ runtime'[x].clients = runtime[x].clients
  BY <1>2
<1>5. Generations'
  <2>1. runtime'[s] # NoRuntime /\ runtime'[s].gen # 0
    BY <1>1, <1>2 DEF NoRuntime
  <2>2. /\ \A x \in Sessions : runtime[x].gen = 0 <=> runtime[x] = NoRuntime
        /\ \A x \in Sessions : runtime'[x].gen <= objects'[x]
    BY <1>4 DEF IInv, Generations
  <2>3. \A x \in Sessions : runtime'[x].gen = 0 <=> runtime'[x] = NoRuntime
    BY <1>2, <2>1, <2>2
  <2> QED
    BY <2>2, <2>3 DEF Generations
<1>6. \A x \in Sessions : Loaded(x)' <=> Loaded(x)
  BY <1>4, <1>5 DEF IInv, Generations, Loaded
<1>7. Attachments'
  BY <1>4 DEF IInv, Attachments, Stays
<1>8. UnusedUntouched'
  <2>1. s \notin unused /\ req'[c].pc # "create" /\ unused \subseteq Sessions
    BY <1>0 DEF IInv, UnusedUntouched, TypeOK
  <2> QED
    BY <1>0, <1>2, <2>1 DEF IInv, UnusedUntouched, OtherReqs
<1>9. CreateFlag'
  BY <1>0 DEF IInv, CreateFlag, OtherReqs, LatchPCs
<1>10. HoldsCurrent'
  <2>1. ASSUME NEW d \in Conns \ {c}
        PROVE  /\ req'[d] = req[d] /\ (req[d].pc # "ready" => req[d].session \in Sessions)
               /\ \A x \in Sessions : Holds(d, x)' <=> Holds(d, x)
    BY <1>4 DEF OtherReqs, IInv, Named, Holds
  <2> QED
    BY <1>0, <2>1 DEF IInv, HoldsCurrent, HoldPCs, Stays, CreateFlag, LatchPCs
<1>11. HoldsCounted'
  <2>1. \A x \in Sessions \ {s}, d \in Conns : Holds(d, x)' <=> Holds(d, x)
    BY <1>0, <1>2 DEF Holds, OtherReqs
  <2>2. ASSUME NEW x \in Sessions \ {s} PROVE CountOk(x)'
    <3>1. CountOk(x) /\ runtime'[x].ops = runtime[x].ops
      BY <1>2, Counted DEF IInv
    <3> QED
      BY <2>1, <3>1, CountKept
  <2>3. ~Holds(c, s)'
    BY <1>1 DEF Holds
  <2>4. \A d \in Conns \ {c} : Holds(d, s)' <=> Holds(d, s)
    BY <1>2 DEF Holds, OtherReqs
  <2>5. CountOk(s)'
    BY <1>0, <1>2, <2>3, <2>4, CountRemoved
  <2> QED
    BY <2>2, <2>5 DEF HoldsCounted, CountOk
<1>12. Latch'
  BY <1>0, <1>4 DEF IInv, Latch, At, LatchPCs, HoldPCs, OtherReqs, CreateFlag
<1>13. DeleteMark'
  <2>1. \A x \in Sessions, d \in Conns :
          /\ At(d, x, ErasePCs)' <=> At(d, x, ErasePCs)
          /\ At(d, x, HoldPCs)' /\ Holds(d, x)' => At(d, x, HoldPCs) /\ Holds(d, x)
    BY <1>0, <1>4 DEF At, Holds, ErasePCs, HoldPCs, OtherReqs
  <2> QED
    BY <1>0, <1>4, <2>1 DEF IInv, DeleteMark
<1>14. Versions'
  BY <1>0 DEF IInv, Versions, OtherReqs, Requests
<1>15. LoadIdle'
  BY <1>0, <1>4 DEF IInv, LoadIdle, OtherReqs, Named
<1>16. Rowed'
  BY <1>0, <1>6 DEF IInv, Rowed, Usable, Erased, At, OtherReqs
<1> QED
  BY <1>5, <1>7, <1>8, <1>9, <1>10, <1>11, <1>12, <1>13, <1>14, <1>15, <1>16 DEF IInv, TypeInv

\* The steps in which a request takes hold of the runtime of s, installing it
\* when there was none.
LEMMA HoldSafe ==
  ASSUME IInv, TypeInv', Stays, NEW c \in Conns, NEW s \in Sessions, OtherReqs(c),
         \/ req[c].pc \in {"check", "install"} /\ req[c].session = s /\ req'[c].pc = "load"
         \/ req[c].pc = "ready" /\ req'[c].pc = "update",
         s \notin unused, s \notin deleting, ~CreatedByOther(c, s), ~Buried(s),
         ~Erased(s) => meta[s] # Absent,
         UNCHANGED <<meta, unused, attached, creating, deleting, deleteVersion, crossed>>,
         req'[c].session = s, req'[c].create = req[c].create,
         req'[c].version <= deleteVersion[s], req'[c].gen = runtime'[s].gen,
         req'[c].load => runtime'[s].status = "idle",
         runtime'[s].gen = runtime[s].gen \/ runtime[s] = NoRuntime,
         runtime'[s].gen # 0, runtime'[s].gen <= objects'[s],
         runtime'[s].ops = runtime[s].ops + 1,
         runtime'[s].clients = runtime[s].clients, runtime'[s].status = runtime[s].status,
         \A x \in Sessions \ {s} : runtime'[x] = runtime[x] /\ objects'[x] = objects[x]
  PROVE  IInv'
<1>0. /\ req \in [Conns -> Requests] /\ req' \in [Conns -> Requests]
      /\ creating \in [Sessions -> Conns \cup {NoConn}] /\ NoConn \notin Conns
      /\ runtime[s].gen \in Nat /\ CountOk(s)
      /\ deleting \subseteq Sessions
  BY ConstantAssumption, Counted DEF IInv, TypeOK, TypeInv, Runtimes
<1>1. NoRuntime.gen = 0 /\ NoRuntime.clients = {}
  BY DEF NoRuntime
<1>2. ASSUME NEW d \in Conns \ {c}, NEW x \in Sessions PROVE Holds(d, x)' <=> Holds(d, x)
  <2>1. CASE x # s
    BY <2>1 DEF Holds, OtherReqs
  <2>2. CASE x = s /\ runtime'[s].gen = runtime[s].gen
    BY <2>2 DEF Holds, OtherReqs
  <2>3. CASE x = s /\ runtime[s] = NoRuntime
    <3>1. ~Holds(d, s)
      BY <1>1, <2>3 DEF Holds
    <3> QED
      BY <2>3, <3>1 DEF IInv, HoldsCurrent, Holds, HoldPCs, OtherReqs
  <2> QED
    BY <2>1, <2>2, <2>3
<1>3. ASSUME NEW d \in Conns, At(d, s, HoldPCs) PROVE runtime'[s].gen = runtime[s].gen
  BY <1>1, <1>3 DEF IInv, HoldsCurrent, At, Holds
<1>4. Generations'
  <2>1. \A x \in Sessions : runtime'[x].gen = 0 <=> runtime'[x] = NoRuntime
    BY <1>1 DEF IInv, Generations
  <2>2. \A x \in Sessions : runtime'[x].gen <= objects'[x]
    BY DEF IInv, Generations
  <2> QED
    BY <2>1, <2>2 DEF Generations
<1>5. Attachments'
  BY DEF IInv, Attachments, Stays
<1>6. UnusedUntouched'
  BY <1>0 DEF IInv, UnusedUntouched, OtherReqs, TypeOK, Named
<1>7. CreateFlag'
  BY <1>0 DEF IInv, CreateFlag, OtherReqs, LatchPCs
<1>8. HoldsCurrent'
  <2>1. ASSUME NEW d \in Conns \ {c}
        PROVE  req'[d] = req[d] /\ (req[d].pc # "ready" => req[d].session \in Sessions)
    BY DEF OtherReqs, IInv, Named
  <2>2. Holds(c, s)' /\ req'[c].gen # 0
    BY DEF Holds
  <2>3. req'[c].pc \notin {"abort", "undo", "drop", "unmark"}
    OBVIOUS
  <2> QED
    BY <1>2, <2>1, <2>2, <2>3 DEF IInv, HoldsCurrent, HoldPCs, Stays
<1>9. HoldsCounted'
  <2>1. \A x \in Sessions \ {s}, d \in Conns : Holds(d, x)' <=> Holds(d, x)
    BY <1>0, <1>2 DEF Holds
  <2>2. ASSUME NEW x \in Sessions \ {s} PROVE CountOk(x)'
    <3>1. CountOk(x) /\ runtime'[x].ops = runtime[x].ops
      BY Counted DEF IInv
    <3> QED
      BY <2>1, <3>1, CountKept
  <2>3. ~Holds(c, s) /\ Holds(c, s)'
    BY DEF Holds
  <2>5. CountOk(s)'
    BY <1>0, <1>2, <2>3, CountAdded
  <2> QED
    BY <2>2, <2>5 DEF HoldsCounted, CountOk
<1>10. Latch'
  BY <1>0 DEF IInv, Latch, At, LatchPCs, HoldPCs, OtherReqs, CreateFlag, CreatedByOther
<1>11. DeleteMark'
  <2>1. \A x \in Sessions, d \in Conns : At(d, x, ErasePCs)' <=> At(d, x, ErasePCs)
    BY <1>0 DEF At, ErasePCs, OtherReqs
  <2>2. \A x \in deleting, d \in Conns :
          At(d, x, HoldPCs)' /\ Holds(d, x)' => At(d, x, HoldPCs) /\ Holds(d, x)
    BY <1>0, <1>2 DEF At, HoldPCs, OtherReqs
  <2> QED
    BY <1>0, <2>1, <2>2 DEF IInv, DeleteMark
<1>12. Versions'
  BY <1>0 DEF IInv, Versions, OtherReqs
<1>13. LoadIdle'
  <2>1. ASSUME NEW d \in Conns \ {c}, req'[d].pc = "load"
        PROVE  req'[d] = req[d] /\ req[d].session \in Sessions
    BY <2>1 DEF OtherReqs, IInv, Named
  <2> QED
    BY <2>1 DEF IInv, LoadIdle
<1>14. Rowed'
  <2>1. \A x \in Sessions : (Erased(x)' <=> Erased(x)) /\ (Usable(x)' => Usable(x) \/ x = s)
    BY <1>0 DEF Erased, Usable, Loaded, At, OtherReqs
  <2> QED
    BY <2>1 DEF IInv, Rowed
<1> QED
  BY <1>4, <1>5, <1>6, <1>7, <1>8, <1>9, <1>10, <1>11, <1>12, <1>13, <1>14 DEF IInv, TypeInv

\* The next load of an attach, from an installed runtime or a candidate.
LEMMA HoldRuntimeSafe ==
  ASSUME IInv, TypeInv', Stays, NEW c \in Conns, NEW s \in Sessions, NEW rt \in Runtimes,
         req[c].session = s, req[c].pc \in {"check", "install"},
         ~DeletedSince(c, s), ~CreatedByOther(c, s), ~Buried(s),
         ~Erased(s) => meta[s] # Absent,
         HoldRuntime(c, s, rt), rt.gen # 0,
         \/ rt = runtime[s] /\ UNCHANGED objects
         \/ /\ runtime[s] = NoRuntime /\ rt.gen = objects[s] + 1
            /\ rt.clients = {} /\ rt.status = "idle" /\ rt.ops = 0
            /\ objects' = [objects EXCEPT ![s] = @ + 1]
  PROVE  IInv'
<1>0. /\ req \in [Conns -> Requests] /\ req[c] \in Requests
      /\ runtime \in [Sessions -> Runtimes] /\ objects \in [Sessions -> Nat]
      /\ deleteVersion \in [Sessions -> Nat]
  BY DEF IInv, TypeOK
<1> DEFINE b == rt.status = "idle"
<1>1. b \in BOOLEAN /\ b = (rt.status = "idle")
  OBVIOUS
<1>2. req' = [req EXCEPT ![c].pc = "load", ![c].gen = rt.gen, ![c].load = b]
  BY DEF HoldRuntime
<1> HIDE DEF b
<1>3. /\ req'[c].pc = "load" /\ req'[c].session = s /\ req'[c].create = req[c].create
      /\ req'[c].version = req[c].version /\ req'[c].gen = rt.gen
      /\ OtherReqs(c)
  BY <1>0, <1>2 DEF Requests, OtherReqs
<1>4. req'[c].load = b
  BY <1>0, <1>2 DEF Requests
<1>5. /\ runtime'[s].gen = rt.gen /\ runtime'[s].ops = rt.ops + 1
      /\ runtime'[s].clients = rt.clients /\ runtime'[s].status = rt.status
      /\ \A x \in Sessions \ {s} : runtime'[x] = runtime[x] /\ objects'[x] = objects[x]
  BY <1>0 DEF HoldRuntime, Runtimes
<1>6. /\ runtime[s].clients = rt.clients /\ runtime[s].status = rt.status
      /\ runtime[s].ops = rt.ops
  BY DEF NoRuntime
<1>7. rt.gen <= objects'[s]
  BY <1>0 DEF IInv, Generations, Runtimes
<1>8. UNCHANGED <<meta, unused, attached, creating, deleting, deleteVersion, crossed>>
  BY DEF HoldRuntime
<1>9. s \notin unused /\ s \notin deleting /\ req[c].version <= deleteVersion[s]
  BY <1>0 DEF DeletedSince, IInv, UnusedUntouched
<1>10. req'[c].load => runtime'[s].status = "idle"
  BY <1>1, <1>4, <1>5
<1>11. runtime'[s].gen = runtime[s].gen \/ runtime[s] = NoRuntime
  BY <1>5
<1> QED
  BY <1>3, <1>5, <1>6, <1>7, <1>8, <1>9, <1>10, <1>11, HoldSafe

-----------------------------------------------------------------------------
(* The steps of an attach                                                  *)

\* A step on the request of c that only changes its pc, version or model.
LEMMA GotoFields ==
  ASSUME NEW c \in Conns, req \in [Conns -> Requests], NEW p, Goto(c, p)
  PROVE  /\ OtherReqs(c) /\ req'[c].pc = p /\ req'[c].session = req[c].session
         /\ req'[c].gen = req[c].gen /\ req'[c].create = req[c].create
         /\ req'[c].version = req[c].version
BY DEF Goto, OtherReqs, Requests

\* A session that is lost for good has no runtime, so nothing is given back.
LEMMA BuriedFields ==
  ASSUME NEW s \in Sessions, Buried(s)
  PROVE  /\ runtime[s] = NoRuntime /\ runtime[s].gen = 0 /\ runtime[s].clients = {}
         /\ FinishStateOp(s) => UNCHANGED runtime
BY DEF Buried, Usable, Loaded, FinishStateOp, NoRuntime

LEMMA AttachReadSafe ==
  ASSUME IInv, TypeInv', Stays, NEW c \in Conns,
         AttachRead(c) \/ AttachGet(c) \/ Materialize(c)
  PROVE  IInv'
<1>0. /\ req \in [Conns -> Requests] /\ req[c] \in Requests /\ req' \in [Conns -> Requests]
      /\ req[c].session \in Sessions /\ deleteVersion \in [Sessions -> Nat]
      /\ meta \in [Sessions -> Rows] /\ DefaultModel # Absent /\ Legacy # Absent
  BY ConstantAssumption DEF IInv, TypeOK, TypeInv, Named, AttachRead, AttachGet, Materialize
<1>1. CASE Reject(c) /\ ~AttachRead(c)
  BY <1>1, RejectSafe DEF AttachGet, Materialize
<1>2. CASE AttachRead(c) \/ ~Reject(c)
  <2>1. /\ OtherReqs(c) /\ ManagerSame
        /\ req'[c].session = req[c].session /\ req'[c].gen = req[c].gen
        /\ req'[c].create = req[c].create
        /\ <<req[c].pc, req'[c].pc>> \in QuietMoves
        /\ req'[c].pc # "install" /\ req'[c].pc # "unmark"
    BY <1>0, <1>2 DEF AttachRead, AttachGet, Materialize, OtherReqs, ManagerSame, mgrVars,
                      Requests, QuietMoves
  <2>8. /\ UNCHANGED unused /\ req[c].pc \in {"read", "get", "legacy"}
        /\ req'[c].pc \in {"get", "legacy", "check"}
    BY <1>0, <1>2 DEF AttachRead, AttachGet, Materialize, Requests
  <2>2. req'[c].version \in {req[c].version, deleteVersion[req[c].session]}
    BY <1>0, <1>2 DEF AttachRead, AttachGet, Materialize, Requests
  <2>3. \A s \in Sessions : (meta'[s] = Absent <=> meta[s] = Absent)
    BY <1>0, <1>2 DEF AttachRead, AttachGet, Materialize
  <2>4. req'[c].pc \in {"legacy", "check"} => meta[req[c].session] # Absent
    BY <1>0, <1>2 DEF AttachRead, AttachGet, Materialize, Requests
  <2>5. \A s \in unused : meta'[s] = meta[s]
    <3>1. req[c].session \notin unused /\ unused \subseteq Sessions
      BY <1>2 DEF IInv, TypeOK, UnusedUntouched, AttachRead, AttachGet, Materialize
    <3> QED
      BY <1>0, <1>2, <3>1 DEF AttachRead, AttachGet, Materialize, IInv, TypeOK
  <2>6. Versions'
    <3>1. req'[c].version <= deleteVersion'[req'[c].session]
      BY <1>0, <2>1, <2>2 DEF IInv, Versions, ManagerSame, QuietMoves
    <3> QED
      BY <2>1, <3>1 DEF IInv, Versions, OtherReqs, ManagerSame
  <2>7. Rowed'
    <3>1. \A x \in Sessions : Erased(x)' <=> Erased(x)
      BY <2>1, <2>8 DEF Erased, At, OtherReqs
    <3>2. ASSUME NEW x \in Sessions, Usable(x)' PROVE Usable(x) \/ meta[x] # Absent
      <4>1. CASE At(c, x, {"legacy", "check", "install"})'
        BY <2>1, <2>3, <2>4, <2>8, <4>1 DEF At
      <4>2. CASE ~At(c, x, {"legacy", "check", "install"})'
        BY <2>1, <3>2, <4>2 DEF Usable, Loaded, At, OtherReqs, ManagerSame
      <4> QED
        BY <4>1, <4>2
    <3> QED
      BY <2>3, <3>1, <3>2 DEF IInv, Rowed
  <2> QED
    BY <1>0, <2>1, <2>5, <2>6, <2>7, <2>8, QuietStep DEF TypeInv
<1> QED
  BY <1>1, <1>2

LEMMA AttachCheckSafe ==
  ASSUME IInv, TypeInv', Stays, NEW c \in Conns, AttachCheck(c)
  PROVE  IInv'
<1> DEFINE s == req[c].session
<1>0. /\ req \in [Conns -> Requests] /\ req[c] \in Requests /\ req' \in [Conns -> Requests]
      /\ s \in Sessions /\ runtime \in [Sessions -> Runtimes] /\ req[c].pc = "check"
  BY DEF IInv, TypeOK, TypeInv, Named, AttachCheck
<1>1. CASE Reject(c)
  BY <1>0, <1>1, RejectSafe
<1>2. CASE ~Reject(c)
  <2>1. ~CreatedByOther(c, s) /\ ~DeletedSince(c, s)
    BY <1>2 DEF AttachCheck
  <2>3. CASE Loaded(s)
    <3>1. HoldRuntime(c, s, runtime[s]) /\ UNCHANGED objects
      BY <1>2, <2>1, <2>3 DEF AttachCheck
    <3>2. ~Buried(s) /\ (~Erased(s) => meta[s] # Absent) /\ runtime[s].gen # 0
      BY <1>0, <2>3 DEF IInv, Rowed, Generations, Usable, Loaded, Buried
    <3> QED
      BY <1>0, <2>1, <3>1, <3>2, HoldRuntimeSafe
  <2>4. CASE ~Loaded(s)
    <3>1. Goto(c, "install") /\ UNCHANGED <<meta, unused, mgrVars, budget>>
      BY <1>2, <2>1, <2>4 DEF AttachCheck
    <3>2. /\ OtherReqs(c) /\ ManagerSame /\ UNCHANGED <<meta, unused>>
          /\ req'[c].session = s /\ req'[c].gen = req[c].gen
          /\ req'[c].create = req[c].create /\ req'[c].version = req[c].version
          /\ req'[c].pc = "install"
      BY <1>0, <3>1, GotoFields DEF ManagerSame, mgrVars
    <3>3. Versions'
      BY <1>0, <3>2 DEF IInv, Versions, OtherReqs, ManagerSame
    <3>4. Rowed'
      <4>1. \A x \in Sessions : (Erased(x)' <=> Erased(x)) /\ (Usable(x)' => Usable(x))
        BY <1>0, <3>2 DEF Usable, Erased, Loaded, At, OtherReqs, ManagerSame
      <4> QED
        BY <3>2, <4>1 DEF IInv, Rowed
    <3>5. <<req[c].pc, req'[c].pc>> \in QuietMoves
      BY <1>0, <3>2 DEF QuietMoves
    <3> QED
      BY <1>0, <2>1, <3>2, <3>3, <3>4, <3>5, QuietStep DEF TypeInv
  <2> QED
    BY <2>3, <2>4
<1> QED
  BY <1>1, <1>2

LEMMA AttachInstallSafe ==
  ASSUME IInv, TypeInv', Stays, NEW c \in Conns, AttachInstall(c)
  PROVE  IInv'
<1> DEFINE s == req[c].session
           candidate == [NoRuntime EXCEPT !.gen = objects[s] + 1, !.model = req[c].model]
<1>0. /\ req \in [Conns -> Requests] /\ req[c] \in Requests
      /\ s \in Sessions /\ runtime \in [Sessions -> Runtimes] /\ req[c].pc = "install"
      /\ objects[s] \in Nat
  BY DEF IInv, TypeOK, TypeInv, Named, AttachInstall
<1>1. CASE Reject(c)
  BY <1>0, <1>1, RejectSafe
<1>2. CASE ~Reject(c)
  <2>1. ~DeletedSince(c, s)
    BY <1>2 DEF AttachInstall
  <2>2. ~CreatedByOther(c, s)
    BY <1>0 DEF IInv, Latch, At, CreatedByOther
  <2>4. ~Buried(s) /\ (~Erased(s) => meta[s] # Absent)
    BY <1>0, <2>1 DEF IInv, Rowed, Usable, At, DeletedSince, Buried
  <2>5. CASE Loaded(s)
    <3>1. HoldRuntime(c, s, runtime[s]) /\ UNCHANGED objects
      BY <1>2, <2>1, <2>5 DEF AttachInstall
    <3>2. runtime[s].gen # 0
      BY <1>0, <2>5 DEF IInv, Generations, Loaded
    <3> QED
      BY <1>0, <2>1, <2>2, <2>4, <3>1, <3>2, HoldRuntimeSafe
  <2>6. CASE ~Loaded(s)
    <3>1. HoldRuntime(c, s, candidate) /\ objects' = [objects EXCEPT ![s] = @ + 1]
      BY <1>2, <2>1, <2>6 DEF AttachInstall
    <3>2. /\ candidate.gen = objects[s] + 1 /\ candidate.clients = {}
          /\ candidate.status = "idle" /\ candidate.ops = 0 /\ candidate.gen # 0
      BY <1>0 DEF NoRuntime
    <3>3. candidate \in Runtimes
      <4>1. req[c].model \in Rows /\ objects[s] + 1 \in Nat
        BY <1>0 DEF Requests
      <4> QED
        BY <1>0, <4>1, CandidateType
    <3>4. runtime[s] = NoRuntime
      BY <2>6 DEF Loaded
    <3> HIDE DEF candidate
    <3> QED
      BY <1>0, <2>1, <2>2, <2>4, <3>1, <3>2, <3>3, <3>4, HoldRuntimeSafe
  <2> QED
    BY <2>5, <2>6
<1> QED
  BY <1>1, <1>2

LEMMA AttachLoadSafe ==
  ASSUME IInv, TypeInv', Stays, NEW c \in Conns, AttachLoad(c)
  PROVE  IInv'
<1> DEFINE s == req[c].session
<1>0. /\ req \in [Conns -> Requests] /\ req[c] \in Requests /\ req' \in [Conns -> Requests]
      /\ s \in Sessions /\ req[c].pc = "load" /\ req[c].version \in Nat
      /\ Holds(c, s) \/ Buried(s)
  BY DEF IInv, TypeOK, TypeInv, Named, AttachLoad, HoldsCurrent, HoldPCs, Requests
<1>1. CASE Goto(c, "commit") /\ UNCHANGED <<meta, unused, mgrVars, budget>>
  <2>2. /\ OtherReqs(c) /\ ManagerSame /\ UNCHANGED <<meta, unused>>
        /\ req'[c].session = s /\ req'[c].gen = req[c].gen
        /\ req'[c].create = req[c].create /\ req'[c].version = req[c].version
        /\ req'[c].pc = "commit"
    BY <1>0, <1>1, GotoFields DEF ManagerSame, mgrVars
  <2>3. Versions'
    BY <1>0, <2>2 DEF IInv, Versions, OtherReqs, ManagerSame
  <2>4. Rowed'
    <3>1. \A x \in Sessions : (Erased(x)' <=> Erased(x)) /\ (Usable(x)' => Usable(x))
      BY <1>0, <2>2 DEF Usable, Erased, Loaded, At, OtherReqs, ManagerSame
    <3> QED
      BY <2>2, <3>1 DEF IInv, Rowed
  <2>5. <<req[c].pc, req'[c].pc>> \in QuietMoves
    BY <1>0, <2>2 DEF QuietMoves
  <2> QED
    BY <1>0, <2>2, <2>3, <2>4, <2>5, QuietStep DEF TypeInv
<1>2. CASE FinishStateOp(s) /\ req' = [req EXCEPT ![c] = AttachFailed(@)]
             /\ UNCHANGED <<meta, unused, objects, attached, creating, deleting,
                            deleteVersion, crossed, budget>>
  <2>1. OtherReqs(c) /\ req'[c] = AttachFailed(req[c])
    BY <1>0, <1>2 DEF OtherReqs
  <2>2. /\ req'[c].gen = 0 /\ req'[c].version <= req[c].version
        /\ req'[c].pc # "ready" => req'[c].session = s
        /\ req'[c].pc = "ready" => req'[c].session = NoSession
        /\ req'[c].create <=> req[c].create /\ req'[c].pc # "ready"
        /\ \/ req[c].create /\ req'[c].pc = "abort"
           \/ ~req[c].create /\ req'[c].pc = "ready"
    BY <1>0, <2>1, FailedFields DEF Ready
  <2>3. CASE Holds(c, s)
    BY <1>0, <1>2, <2>1, <2>2, <2>3, FinishFields, ReleaseSafe
  <2>4. CASE ~Holds(c, s)
    <3>1. UNCHANGED runtime
      BY <1>0, <1>2, <2>4, BuriedFields
    <3> QED
      BY <1>0, <1>2, <2>1, <2>4, <3>1, GivesUp DEF ManagerSame, HoldPCs
  <2> QED
    BY <2>3, <2>4
<1> QED
  BY <1>1, <1>2 DEF AttachLoad

\* A client leaves the session it is attached to.
LEMMA LeftFields ==
  ASSUME IInv, NEW c \in Conns, NEW x \in Sessions
  PROVE  /\ Left(c)[x].gen = runtime[x].gen /\ Left(c)[x].status = runtime[x].status
         /\ Left(c)[x].ops = runtime[x].ops
         /\ Left(c)[x].clients = runtime[x].clients \ {c}
         /\ attached[c] # x => Left(c)[x] = runtime[x]
<1>1. runtime[x] \in Runtimes
  BY DEF IInv, TypeOK
<1>2. c \in runtime[x].clients => attached[c] = x
  BY DEF IInv, Attachments
<1> QED
  BY <1>1, <1>2 DEF Left, Runtimes

\* A step that takes c away from its session, and attaches it to s perhaps.
LEMMA MoveSafe ==
  ASSUME IInv, TypeInv', Stays, NEW c \in Conns, OtherReqs(c),
         UNCHANGED <<meta, unused, objects, deleting, deleteVersion, crossed>>,
         req[c].pc = "ready" \/ (req[c].pc = "commit" /\ attached'[c] = req[c].session),
         req'[c].pc \in {"ready", "settle"}, req'[c].session \in {NoSession, attached[c]},
         ~req'[c].create, req'[c].version = 0,
         attached' = [attached EXCEPT ![c] = attached'[c]],
         attached'[c] \in Sessions =>
           /\ attached'[c] \notin deleting /\ ~CreatedByOther(c, attached'[c])
           /\ Holds(c, attached'[c]) /\ attached'[c] \notin unused
           /\ creating' = [creating EXCEPT ![attached'[c]] = NoConn]
           /\ runtime'[attached'[c]].ops = runtime[attached'[c]].ops - 1,
         attached'[c] \notin Sessions => UNCHANGED creating /\ req[c].pc = "ready",
         \A x \in Sessions :
           /\ runtime'[x].gen = runtime[x].gen /\ runtime'[x].status = runtime[x].status
           /\ x # attached'[c] => /\ runtime'[x].clients = runtime[x].clients \ {c}
                                  /\ runtime'[x].ops = runtime[x].ops
                                  /\ attached[c] # x => runtime'[x] = runtime[x]
           /\ x = attached'[c] => runtime'[x].clients = runtime[x].clients \cup {c}
  PROVE  IInv'
<1> DEFINE s == attached'[c]
<1>0. /\ req \in [Conns -> Requests] /\ req' \in [Conns -> Requests]
      /\ creating \in [Sessions -> Conns \cup {NoConn}] /\ NoConn \notin Conns
      /\ NoSession \notin Sessions /\ attached \in [Conns -> Sessions \cup {NoSession}]
      /\ deleteVersion \in [Sessions -> Nat] /\ runtime \in [Sessions -> Runtimes]
  BY ConstantAssumption DEF IInv, TypeOK, TypeInv
<1>1. \A x \in Sessions : runtime[x].gen \in Nat
  BY <1>0 DEF Runtimes
<1> HIDE DEF s
<1>2. Generations'
  <2>1. ASSUME NEW x \in Sessions, runtime[x].gen = 0 PROVE runtime'[x] = NoRuntime
    <3>0. NoRuntime.clients = {}
      BY DEF NoRuntime
    <3>1. runtime[x] = NoRuntime /\ runtime[x].clients = {}
      BY <2>1, <3>0 DEF IInv, Generations
    <3>2. attached[c] = x => ~Loaded(x)'
      BY <3>1 DEF IInv, Attachments, Stays, Buried, Usable
    <3>3. x # attached'[c]
      BY <2>1 DEF Holds
    <3> QED
      BY <3>1, <3>2, <3>3 DEF Loaded
  <2>2. NoRuntime.gen = 0
    BY DEF NoRuntime
  <2>3. \A x \in Sessions : runtime'[x].gen <= objects'[x]
    BY DEF IInv, Generations
  <2>4. \A x \in Sessions : runtime'[x].gen = 0 <=> runtime'[x] = NoRuntime
    BY <2>1, <2>2
  <2> QED
    BY <2>3, <2>4 DEF Generations
<1>3. \A x \in Sessions : Loaded(x)' <=> Loaded(x)
  BY <1>2 DEF IInv, Generations, Loaded
<1>4. Attachments'
  <2>1. \A d \in Conns \ {c} : attached'[d] = attached[d]
    BY <1>0
  <2>2. ASSUME NEW x \in Sessions, NEW d \in Conns
        PROVE  /\ d \in runtime'[x].clients => attached'[d] = x
               /\ attached'[d] = x => d \in runtime'[x].clients \/ Buried(x)
    BY <2>1 DEF IInv, Attachments
  <2> QED
    BY <2>2 DEF Attachments, Stays
<1>5. UnusedUntouched'
  <2>1. ASSUME NEW x \in unused
        PROVE  /\ x \in Sessions /\ x # attached'[c] /\ attached[c] # x
               /\ runtime'[x] = NoRuntime
    BY DEF IInv, TypeOK, UnusedUntouched
  <2>2. \A x \in unused, d \in Conns : attached'[d] # x
    BY <1>0, <2>1 DEF IInv, UnusedUntouched
  <2>3. /\ \A x \in unused, d \in Conns : req'[d].session = x => req'[d].pc = "create"
        /\ \A d \in Conns : req'[d].pc = "create" => req'[d].session \in unused
    BY <1>0, <2>1 DEF IInv, UnusedUntouched, OtherReqs
  <2> QED
    BY <2>1, <2>2, <2>3 DEF IInv, UnusedUntouched
<1>6. CreateFlag'
  BY <1>0 DEF IInv, CreateFlag, OtherReqs, LatchPCs
<1>14. \A x \in Sessions, d \in Conns \ {c} : Holds(d, x)' <=> Holds(d, x)
  BY <1>0 DEF Holds, OtherReqs
<1>7. HoldsCurrent'
  <2>1. ASSUME NEW d \in Conns \ {c}
        PROVE  req'[d] = req[d] /\ (req[d].pc # "ready" => req[d].session \in Sessions)
    BY DEF OtherReqs, IInv, Named
  <2> QED
    BY <1>14, <2>1 DEF IInv, HoldsCurrent, HoldPCs, Stays
<1>8. HoldsCounted'
  <2>2. \A x \in Sessions : ~Holds(c, x)'
    BY DEF Holds
  <2>3. ASSUME NEW x \in Sessions, x # attached'[c] PROVE CountOk(x)'
    <3>1. ~Holds(c, x)
      BY <2>3 DEF Holds
    <3>2. CountOk(x) /\ runtime'[x].ops = runtime[x].ops
      BY <2>3, Counted DEF IInv
    <3>3. \A d \in Conns : Holds(d, x)' <=> Holds(d, x)
      BY <1>14, <2>2, <3>1
    <3> QED
      BY <3>2, <3>3, CountKept
  <2>4. ASSUME NEW x \in Sessions, x = attached'[c] PROVE CountOk(x)'
    <3>1. CountOk(x) /\ Holds(c, x) /\ runtime'[x].ops = runtime[x].ops - 1
      BY <2>4, Counted DEF IInv
    <3> QED
      BY <1>14, <2>2, <3>1, CountRemoved
  <2> QED
    BY <2>3, <2>4 DEF HoldsCounted, CountOk
<1>9. Latch'
  <2>1. ASSUME NEW x \in Sessions, NEW d \in Conns
        PROVE  creating'[x] = d <=> At(d, x, LatchPCs)' /\ req'[d].create
    BY <1>0 DEF IInv, Latch, At, LatchPCs, OtherReqs, CreateFlag, CreatedByOther, Holds
  <2>2. ASSUME NEW x \in Sessions, creating'[x] # NoConn
        PROVE  /\ x \notin crossed'
               /\ runtime'[x].clients = {} /\ runtime'[x].status = "idle"
               /\ \A d \in Conns : At(d, x, HoldPCs \cup {"install"})' => d = creating'[x]
    <3>1. creating[x] = creating'[x] /\ x # attached'[c]
      BY <1>0, <2>2
    <3>2. \A d \in Conns : At(d, x, HoldPCs \cup {"install"})' =>
                             At(d, x, HoldPCs \cup {"install"})
      BY <1>0 DEF At, HoldPCs, OtherReqs
    <3>3. runtime'[x].clients = {} /\ runtime'[x].status = "idle" /\ x \notin crossed'
      BY <2>2, <3>1 DEF IInv, Latch
    <3>4. \A d \in Conns : At(d, x, HoldPCs \cup {"install"}) => d = creating[x]
      BY <2>2, <3>1 DEF IInv, Latch
    <3> QED
      BY <3>1, <3>2, <3>3, <3>4
  <2> QED
    BY <2>1, <2>2 DEF Latch
<1>10. DeleteMark'
  <2>1. \A d \in Conns, x \in Sessions : At(d, x, ErasePCs)' <=> At(d, x, ErasePCs)
    BY <1>0 DEF At, ErasePCs, OtherReqs
  <2>2. \A d \in Conns, x \in Sessions :
          At(d, x, HoldPCs)' /\ Holds(d, x)' => At(d, x, HoldPCs) /\ Holds(d, x)
    BY <1>14 DEF At, HoldPCs, OtherReqs
  <2>3. \A x \in deleting' :
           x \in Sessions /\ runtime'[x].clients = {} /\ runtime'[x].status = "idle"
    BY DEF IInv, DeleteMark, TypeOK
  <2> QED
    BY <2>1, <2>2, <2>3 DEF IInv, DeleteMark
<1>11. Versions'
  BY <1>0 DEF IInv, Versions, OtherReqs, TypeInv, Named
<1>12. LoadIdle'
  BY <1>0 DEF IInv, LoadIdle, OtherReqs, Named
<1>13. Rowed'
  <2>1. \A x \in Sessions : (Erased(x)' <=> Erased(x)) /\ (Usable(x)' => Usable(x))
    BY <1>0, <1>3 DEF Usable, Erased, At, OtherReqs
  <2> QED
    BY <2>1 DEF IInv, Rowed
<1> QED
  BY <1>2, <1>4, <1>5, <1>6, <1>7, <1>8, <1>9, <1>10, <1>11, <1>12, <1>13 DEF IInv, TypeInv

LEMMA AttachCommitSafe ==
  ASSUME IInv, TypeInv', Stays, NEW c \in Conns, AttachCommit(c)
  PROVE  IInv'
<1> DEFINE s == req[c].session
           moves == attached[c] \notin {NoSession, s}
           rts == IF moves THEN Left(c) ELSE runtime
<1>0. /\ req \in [Conns -> Requests] /\ req[c] \in Requests /\ req' \in [Conns -> Requests]
      /\ s \in Sessions /\ req[c].pc = "commit" /\ req[c].version \in Nat
      /\ (Holds(c, s) \/ Buried(s)) /\ req[c].gen # 0
      /\ runtime \in [Sessions -> Runtimes] /\ NoSession \notin Sessions
      /\ attached \in [Conns -> Sessions \cup {NoSession}]
      /\ creating \in [Sessions -> Conns \cup {NoConn}]
  BY ConstantAssumption DEF IInv, TypeOK, TypeInv, Named, AttachCommit, HoldsCurrent,
                            HoldPCs, Requests
<1>1. UNCHANGED <<meta, unused, objects, deleting, deleteVersion, crossed>>
  BY DEF AttachCommit
<1>4. CASE runtime[s].gen # req[c].gen
  <2>1. OtherReqs(c) /\ req'[c] = AttachFailed(req[c])
    BY <1>0, <1>4 DEF AttachCommit, OtherReqs
  <2>2. ManagerSame /\ ~Holds(c, s)
    BY <1>0, <1>4 DEF AttachCommit, ManagerSame, Holds
  <2> QED
    BY <1>0, <1>1, <2>1, <2>2, GivesUp DEF HoldPCs
<1>2. CASE /\ runtime[s].gen = req[c].gen /\ FinishStateOp(s)
           /\ req' = [req EXCEPT ![c] = AttachFailed(@)]
           /\ UNCHANGED <<attached, creating>>
  <2>1. OtherReqs(c) /\ req'[c] = AttachFailed(req[c])
    BY <1>0, <1>2 DEF OtherReqs
  <2>2. /\ req'[c].gen = 0 /\ req'[c].version <= req[c].version
        /\ req'[c].pc # "ready" => req'[c].session = s
        /\ req'[c].pc = "ready" => req'[c].session = NoSession
        /\ req'[c].create <=> req[c].create /\ req'[c].pc # "ready"
        /\ \/ req[c].create /\ req'[c].pc = "abort"
           \/ ~req[c].create /\ req'[c].pc = "ready"
    BY <1>0, <2>1, FailedFields DEF Ready
  <2> QED
    <3>1. Holds(c, s)
      BY <1>0, <1>2, BuriedFields
    <3> QED
      BY <1>0, <1>1, <1>2, <2>1, <2>2, <3>1, FinishFields, ReleaseSafe
<1>3. CASE /\ runtime[s].gen = req[c].gen /\ ~DeletedSince(c, s) /\ ~CreatedByOther(c, s)
           /\ runtime' = [rts EXCEPT ![s].clients = @ \cup {c},
                                     ![s].ops = IF @ > 0 THEN @ - 1 ELSE @]
           /\ attached' = [attached EXCEPT ![c] = s]
           /\ creating' = [creating EXCEPT ![s] = NoConn]
           /\ req' = [req EXCEPT ![c] =
                IF moves /\ Orphaned(c, rts)
                  THEN [Ready EXCEPT !.pc = "settle", !.session = attached[c]]
                  ELSE Ready]
  <2>1. /\ req'[c].pc \in {"ready", "settle"} /\ req'[c].session \in {NoSession, attached[c]}
        /\ ~req'[c].create /\ req'[c].version = 0 /\ OtherReqs(c)
    BY <1>0, <1>3 DEF Ready, OtherReqs
  <2>2. attached'[c] = s /\ attached' = [attached EXCEPT ![c] = attached'[c]]
    BY <1>0, <1>3
  <2>3. s \notin deleting /\ s \notin unused
    BY <1>0, <1>3 DEF DeletedSince, IInv, UnusedUntouched
  <2>12. Holds(c, s)
    BY <1>0, <1>3, BuriedFields
  <2>4. runtime[s].ops > 0
    BY <2>12, <1>0, SomeHolder, Counted DEF IInv
  <2>5. rts \in [Sessions -> Runtimes] /\ rts[s] = runtime[s]
    <3>1. attached[c] # s \/ ~moves
      OBVIOUS
    <3>2. moves => Left(c)[s] = runtime[s]
      BY <1>0, LeftFields
    <3>3. TypeOK
      BY DEF IInv
    <3> QED
      BY <1>0, <3>2, <3>3, LeftType
  <2>6. \A x \in Sessions \ {s} :
          /\ rts[x].gen = runtime[x].gen /\ rts[x].status = runtime[x].status
          /\ rts[x].clients = runtime[x].clients \ {c} /\ rts[x].ops = runtime[x].ops
          /\ attached[c] # x => rts[x] = runtime[x]
    <3>1. CASE moves
      BY <3>1, LeftFields
    <3>2. CASE ~moves
      <4>1. \A x \in Sessions \ {s} : c \notin runtime[x].clients
        BY <1>0, <3>2 DEF IInv, Attachments
      <4> QED
        BY <3>2, <4>1
    <3> QED
      BY <3>1, <3>2
  <2> HIDE DEF rts
  <2>7. /\ runtime'[s].gen = runtime[s].gen /\ runtime'[s].status = runtime[s].status
        /\ runtime'[s].clients = runtime[s].clients \cup {c}
        /\ runtime'[s].ops = runtime[s].ops - 1
    BY <1>0, <1>3, <2>4, <2>5 DEF Runtimes
  <2>8. \A x \in Sessions \ {s} : runtime'[x] = rts[x]
    BY <1>3, <2>5
  <2>9. \A x \in Sessions :
          /\ runtime'[x].gen = runtime[x].gen /\ runtime'[x].status = runtime[x].status
          /\ x # attached'[c] => /\ runtime'[x].clients = runtime[x].clients \ {c}
                                 /\ runtime'[x].ops = runtime[x].ops
                                 /\ attached[c] # x => runtime'[x] = runtime[x]
          /\ x = attached'[c] => runtime'[x].clients = runtime[x].clients \cup {c}
    BY <2>2, <2>6, <2>7, <2>8
  <2>10. /\ attached'[c] \in Sessions
         /\ attached'[c] \notin deleting /\ ~CreatedByOther(c, attached'[c])
         /\ Holds(c, attached'[c]) /\ attached'[c] \notin unused
         /\ creating' = [creating EXCEPT ![attached'[c]] = NoConn]
         /\ runtime'[attached'[c]].ops = runtime[attached'[c]].ops - 1
    BY <1>0, <1>3, <2>2, <2>3, <2>7, <2>12
  <2>11. req[c].pc = "commit" /\ attached'[c] = req[c].session
    BY <1>0, <2>2
  <2> HIDE DEF s, moves
  <2> QED
    BY <1>1, <2>1, <2>2, <2>9, <2>10, <2>11, MoveSafe
<1> QED
  BY <1>2, <1>3, <1>4 DEF AttachCommit

LEMMA DetachSafe ==
  ASSUME IInv, TypeInv', Stays, NEW c \in Conns, Detach(c)
  PROVE  IInv'
<1>0. /\ req \in [Conns -> Requests] /\ NoSession \notin Sessions
      /\ attached \in [Conns -> Sessions \cup {NoSession}]
  BY ConstantAssumption DEF IInv, TypeOK
<1>1. /\ req'[c].pc \in {"ready", "settle"} /\ req'[c].session \in {NoSession, attached[c]}
      /\ ~req'[c].create /\ req'[c].version = 0 /\ OtherReqs(c) /\ req[c].pc = "ready"
  BY <1>0 DEF Detach, Send, Ready, OtherReqs
<1>2. /\ UNCHANGED <<meta, unused, objects, creating, deleting, deleteVersion, crossed>>
      /\ attached' = [attached EXCEPT ![c] = NoSession] /\ attached'[c] = NoSession
  BY <1>0 DEF Detach
<1>3. \A x \in Sessions : x # attached'[c]
  BY <1>0, <1>2
<1>4. \A x \in Sessions :
        /\ runtime'[x].gen = runtime[x].gen /\ runtime'[x].status = runtime[x].status
        /\ runtime'[x].clients = runtime[x].clients \ {c}
        /\ runtime'[x].ops = runtime[x].ops
        /\ attached[c] # x => runtime'[x] = runtime[x]
  BY LeftFields DEF Detach
<1> QED
  BY <1>0, <1>1, <1>2, <1>3, <1>4, MoveSafe

-----------------------------------------------------------------------------
(* The steps of a create, a delete and an update                           *)

LEMMA UpdateSafe ==
  ASSUME IInv, TypeInv', Stays, NEW c \in Conns, NEW m \in Models, Update(c, m)
  PROVE  IInv'
<1> DEFINE s == attached[c]
<1>0. /\ req \in [Conns -> Requests] /\ s \in Sessions /\ req[c].pc = "ready"
      /\ runtime \in [Sessions -> Runtimes] /\ req[c] \in Requests
      /\ deleteVersion[s] \in Nat /\ creating[s] \in Conns \cup {NoConn}
      /\ runtime[s].gen \in Nat /\ objects[s] \in Nat
  <2>1. s \in Sessions /\ req[c].pc = "ready"
    BY DEF Update, Send, IInv, TypeOK
  <2> QED
    BY <2>1 DEF IInv, TypeOK, Runtimes
<1>1. /\ req'[c].pc = "update" /\ req'[c].session = s /\ ~req'[c].create
      /\ req'[c].version = 0 /\ req'[c].gen = runtime[s].gen /\ OtherReqs(c)
      /\ req'[c].load = FALSE
  BY <1>0 DEF Update, Send, Ready, OtherReqs
<1>2. ~req[c].create
  BY <1>0 DEF IInv, CreateFlag, LatchPCs
<1>3. c \in runtime[s].clients /\ runtime[s].gen # 0
  BY <1>0 DEF IInv, Attachments, Generations, Update, Loaded, Buried, Usable
<1>4. s \notin deleting /\ creating[s] = NoConn /\ s \notin unused
  BY <1>0, <1>3 DEF IInv, DeleteMark, Latch, UnusedUntouched
<1>5. ~Buried(s) /\ (~Erased(s) => meta[s] # Absent)
  BY <1>0 DEF IInv, Rowed, Update, Usable, Loaded, Buried
<1>6. /\ runtime'[s].gen = runtime[s].gen /\ runtime'[s].ops = runtime[s].ops + 1
      /\ runtime'[s].clients = runtime[s].clients /\ runtime'[s].status = runtime[s].status
      /\ \A x \in Sessions \ {s} : runtime'[x] = runtime[x] /\ objects'[x] = objects[x]
      /\ objects'[s] = objects[s]
  BY <1>0 DEF Update, Runtimes
<1>7. UNCHANGED <<meta, unused, attached, creating, deleting, deleteVersion, crossed>>
  BY DEF Update
<1>8. runtime'[s].gen <= objects'[s]
  BY <1>0, <1>6 DEF IInv, Generations
<1>9. ~CreatedByOther(c, s)
  BY <1>4 DEF CreatedByOther
<1>10. /\ req'[c].version <= deleteVersion[s] /\ (req'[c].create <=> req[c].create)
       /\ req'[c].load => runtime'[s].status = "idle"
       /\ req'[c].gen = runtime'[s].gen /\ runtime'[s].gen # 0
  BY <1>0, <1>1, <1>2, <1>3, <1>6
<1>11. req'[c].create = req[c].create
  BY <1>0, <1>1, <1>2 DEF TypeInv, TypeOK, Requests
<1> QED
  BY <1>0, <1>1, <1>4, <1>5, <1>6, <1>7, <1>8, <1>9, <1>10, <1>11, HoldSafe

LEMMA CreateSafe ==
  ASSUME IInv, TypeInv', Stays, NEW c \in Conns, NEW s \in Sessions, Create(c, s)
  PROVE  IInv'
<1>0. /\ req \in [Conns -> Requests] /\ req[c].pc = "ready" /\ s \in unused
      /\ creating \in [Sessions -> Conns \cup {NoConn}] /\ NoConn \notin Conns
      /\ deleteVersion \in [Sessions -> Nat]
  BY ConstantAssumption DEF IInv, TypeOK, Create, Send
<1>1. /\ req'[c].pc = "create" /\ req'[c].session = s /\ req'[c].create
      /\ req'[c].version = 0 /\ req'[c].gen = 0 /\ OtherReqs(c)
  BY <1>0 DEF Create, Send, Ready, OtherReqs
<1>2. /\ creating' = [creating EXCEPT ![s] = c]
      /\ UNCHANGED <<meta, unused, runtime, objects, attached, deleting, deleteVersion, crossed>>
  BY DEF Create
<1>3. /\ runtime[s] = NoRuntime /\ s \notin deleting /\ s \notin crossed
      /\ \A d \in Conns : req[d].session # s
  <2>1. creating[s] = NoConn
    BY DEF Create
  <2>2. \A d \in Conns : ~(At(d, s, LatchPCs) /\ req[d].create)
    BY <1>0, <2>1 DEF IInv, Latch
  <2> QED
    BY <1>0, <2>2 DEF IInv, UnusedUntouched, CreateFlag, At, LatchPCs
<1>4. Generations' /\ Attachments'
  BY <1>2 DEF IInv, Generations, Attachments, Stays
<1>5. UnusedUntouched'
  BY <1>0, <1>1, <1>2 DEF IInv, UnusedUntouched, OtherReqs, TypeOK
<1>6. CreateFlag'
  BY <1>0, <1>1 DEF IInv, CreateFlag, OtherReqs, LatchPCs
<1>13. \A d \in Conns, x \in Sessions : Holds(d, x)' <=> Holds(d, x)
  BY <1>0, <1>1, <1>2 DEF Holds, OtherReqs
<1>7. HoldsCurrent'
  <2>1. ASSUME NEW d \in Conns \ {c}
        PROVE  req'[d] = req[d] /\ (req[d].pc # "ready" => req[d].session \in Sessions)
    BY <1>1 DEF OtherReqs, IInv, Named
  <2> QED
    BY <1>1, <1>13, <2>1 DEF IInv, HoldsCurrent, HoldPCs, Stays
<1>8. HoldsCounted'
  BY <1>2, <1>13, CountKept, Counted DEF IInv, HoldsCounted, CountOk
<1>9. Latch'
  <2>1. runtime[s].clients = {} /\ runtime[s].status = "idle"
    BY <1>3 DEF NoRuntime
  <2>2. \A d \in Conns : req'[d].session = s => d = c
    BY <1>1, <1>3 DEF OtherReqs
  <2>3. ASSUME NEW x \in Sessions \ {s}
        PROVE  /\ \A d \in Conns : At(d, x, LatchPCs)' /\ req'[d].create <=>
                                   At(d, x, LatchPCs) /\ req[d].create
               /\ \A d \in Conns : At(d, x, HoldPCs \cup {"install"})' <=>
                                   At(d, x, HoldPCs \cup {"install"})
               /\ creating'[x] = creating[x]
    BY <1>0, <1>1, <1>2 DEF At, LatchPCs, HoldPCs, OtherReqs
  <2>4. ASSUME NEW x \in Sessions \ {s}
        PROVE  /\ \A d \in Conns : creating'[x] = d <=> At(d, x, LatchPCs)' /\ req'[d].create
               /\ creating'[x] # NoConn =>
                    /\ x \notin crossed'
                    /\ runtime'[x].clients = {} /\ runtime'[x].status = "idle"
                    /\ \A d \in Conns : At(d, x, HoldPCs \cup {"install"})' => d = creating'[x]
    <3>1. \A d \in Conns : creating'[x] = d <=> At(d, x, LatchPCs)' /\ req'[d].create
      BY <2>3 DEF IInv, Latch
    <3>2. creating[x] # NoConn =>
            /\ x \notin crossed /\ runtime[x].clients = {} /\ runtime[x].status = "idle"
            /\ \A d \in Conns : At(d, x, HoldPCs \cup {"install"}) => d = creating[x]
      BY DEF IInv, Latch
    <3>3. \A d \in Conns : creating'[x] # NoConn /\ At(d, x, HoldPCs \cup {"install"})' =>
            d = creating'[x]
      BY <2>3, <3>2
    <3> QED
      BY <1>2, <2>3, <3>1, <3>2, <3>3
  <2>5. \A d \in Conns : creating'[s] = d <=> At(d, s, LatchPCs)' /\ req'[d].create
    BY <1>0, <1>1, <1>2, <2>2, <1>3 DEF At, LatchPCs, OtherReqs
  <2>6. /\ creating'[s] = c /\ s \notin crossed'
        /\ runtime'[s].clients = {} /\ runtime'[s].status = "idle"
        /\ \A d \in Conns : At(d, s, HoldPCs \cup {"install"})' => d = creating'[s]
    BY <1>0, <1>1, <1>2, <1>3, <2>1 DEF At, OtherReqs
  <2>7. ASSUME NEW x \in Sessions
        PROVE  /\ \A d \in Conns : creating'[x] = d <=> At(d, x, LatchPCs)' /\ req'[d].create
               /\ creating'[x] # NoConn =>
                    /\ x \notin crossed'
                    /\ runtime'[x].clients = {} /\ runtime'[x].status = "idle"
                    /\ \A d \in Conns : At(d, x, HoldPCs \cup {"install"})' => d = creating'[x]
    <3>1. CASE x = s
      BY <2>5, <2>6, <3>1
    <3>2. CASE x # s
      BY <2>4, <3>2, ZenonT(30)
    <3> QED
      BY <3>1, <3>2
  <2> QED
    BY <2>7, ZenonT(30) DEF Latch
<1>10. DeleteMark'
  <2>1. \A d \in Conns, x \in Sessions :
          /\ At(d, x, ErasePCs)' <=> At(d, x, ErasePCs)
          /\ At(d, x, HoldPCs)' <=> At(d, x, HoldPCs)
    BY <1>0, <1>1, <1>3 DEF At, ErasePCs, HoldPCs, OtherReqs
  <2> QED
    BY <1>2, <1>13, <2>1 DEF IInv, DeleteMark, TypeOK
<1>11. Versions' /\ LoadIdle'
  BY <1>0, <1>1, <1>2 DEF IInv, Versions, LoadIdle, OtherReqs
<1>12. Rowed'
  <2>1. \A x \in Sessions : (Erased(x)' <=> Erased(x)) /\ (Usable(x)' => Usable(x))
    BY <1>0, <1>1, <1>2 DEF Usable, Erased, Loaded, At, OtherReqs
  <2> QED
    BY <1>2, <2>1 DEF IInv, Rowed
<1> QED
  BY <1>4, <1>5, <1>6, <1>7, <1>8, <1>9, <1>10, <1>11, <1>12 DEF IInv, TypeInv

LEMMA DeleteSafe ==
  ASSUME IInv, TypeInv', Stays, NEW c \in Conns, NEW s \in Sessions, Delete(c, s)
  PROVE  IInv'
<1>0. /\ req \in [Conns -> Requests] /\ req' \in [Conns -> Requests] /\ req[c].pc = "ready"
      /\ creating \in [Sessions -> Conns \cup {NoConn}] /\ NoConn \notin Conns
      /\ deleteVersion[s] \in Nat /\ runtime \in [Sessions -> Runtimes]
      /\ s \notin deleting /\ s \notin unused
      /\ runtime[s].status = "idle" /\ runtime[s].ops = 0 /\ runtime[s].clients = {}
      /\ CountOk(s)
  BY ConstantAssumption, Counted DEF IInv, TypeOK, TypeInv, Delete, Send
<1>1. /\ req'[c].pc = "deleteGet" /\ req'[c].session = s /\ ~req'[c].create
      /\ req'[c].version = 0 /\ req'[c].gen = runtime[s].gen /\ OtherReqs(c)
  BY <1>0 DEF Delete, Send, Ready, OtherReqs
<1>2. /\ deleting' = deleting \cup {s}
      /\ UNCHANGED <<meta, unused, objects, attached, creating, deleteVersion, crossed>>
  BY DEF Delete
<1>3. /\ \A x \in Sessions : /\ runtime'[x].gen = runtime[x].gen
                             /\ runtime'[x].status = runtime[x].status
                             /\ runtime'[x].clients = runtime[x].clients
      /\ \A x \in Sessions \ {s} : runtime'[x] = runtime[x]
      /\ runtime[s].gen # 0 => runtime'[s].ops = runtime[s].ops + 1
      /\ runtime[s].gen = 0 => runtime'[s] = runtime[s]
  BY <1>0 DEF Delete, Runtimes, Loaded, IInv, Generations
<1>4. \A d \in Conns : ~Holds(d, s)
  BY <1>0, NoHolder
<1>5. s \notin crossed => \A d \in Conns : ~At(d, s, ErasePCs)
  BY <1>0 DEF IInv, DeleteMark
<1>6. Generations'
  <2>1. \A x \in Sessions : runtime'[x].gen <= objects'[x]
    BY <1>2, <1>3 DEF IInv, Generations
  <2>2. NoRuntime.gen = 0
    BY DEF NoRuntime
  <2>3. \A x \in Sessions : runtime'[x].gen = 0 <=> runtime'[x] = NoRuntime
    BY <1>3, <2>2 DEF IInv, Generations
  <2> QED
    BY <2>1, <2>3 DEF Generations
<1>7. \A x \in Sessions : Loaded(x)' <=> Loaded(x)
  BY <1>3, <1>6 DEF IInv, Generations, Loaded
<1>8. Attachments'
  BY <1>2, <1>3 DEF IInv, Attachments, Stays
<1>9. UnusedUntouched'
  BY <1>0, <1>1, <1>2, <1>3 DEF IInv, UnusedUntouched, OtherReqs, TypeOK
<1>10. CreateFlag'
  BY <1>0, <1>1 DEF IInv, CreateFlag, OtherReqs, LatchPCs
<1>11. HoldsCurrent'
  <2>1. ASSUME NEW d \in Conns \ {c}
        PROVE  /\ req'[d] = req[d] /\ (req[d].pc # "ready" => req[d].session \in Sessions)
               /\ \A x \in Sessions : Holds(d, x)' <=> Holds(d, x)
    BY <1>1, <1>3 DEF OtherReqs, IInv, Named, Holds
  <2>2. req'[c].gen # 0 => Holds(c, s)'
    BY <1>1, <1>3 DEF Holds
  <2> QED
    BY <1>1, <2>1, <2>2 DEF IInv, HoldsCurrent, HoldPCs, Stays
<1>12. HoldsCounted'
  <2>1. \A x \in Sessions \ {s}, d \in Conns : Holds(d, x)' <=> Holds(d, x)
    BY <1>0, <1>1, <1>3 DEF Holds, OtherReqs
  <2>2. ASSUME NEW x \in Sessions \ {s} PROVE CountOk(x)'
    <3>1. CountOk(x) /\ runtime'[x].ops = runtime[x].ops
      BY <1>3, Counted DEF IInv
    <3> QED
      BY <2>1, <3>1, CountKept
  <2>3. \A d \in Conns \ {c} : Holds(d, s)' <=> Holds(d, s)
    BY <1>1, <1>3 DEF Holds, OtherReqs
  <2>4. ASSUME runtime[s].gen # 0 PROVE CountOk(s)'
    <3>1. Holds(c, s)'
      BY <1>1, <1>3, <2>4 DEF Holds
    <3> QED
      BY <1>0, <1>3, <1>4, <2>3, <2>4, <3>1, CountAdded
  <2>5. ASSUME runtime[s].gen = 0 PROVE CountOk(s)'
    <3>1. \A d \in Conns : Holds(d, s)' <=> Holds(d, s)
      BY <1>1, <1>3, <1>4, <2>3, <2>5 DEF Holds
    <3> QED
      BY <1>0, <1>3, <2>5, <3>1, CountKept
  <2> QED
    BY <2>2, <2>4, <2>5 DEF HoldsCounted, CountOk
<1>13. Latch'
  BY <1>0, <1>1, <1>2, <1>3 DEF IInv, Latch, At, LatchPCs, HoldPCs, OtherReqs
<1>14. DeleteMark'
  <2>1. \A x \in Sessions \ {s}, d \in Conns : At(d, x, ErasePCs)' <=> At(d, x, ErasePCs)
    BY <1>0, <1>1 DEF At, ErasePCs, OtherReqs
  <2>2. s \notin crossed => \A d \in Conns : At(d, s, ErasePCs)' <=> d = c
    BY <1>0, <1>1, <1>5 DEF At, ErasePCs, OtherReqs
  <2>3. ASSUME NEW d \in Conns, NEW x \in Sessions, At(d, x, HoldPCs)', Holds(d, x)'
        PROVE  At(d, x, HoldPCs) /\ Holds(d, x)
    BY <1>1, <1>3, <2>3 DEF At, HoldPCs, OtherReqs, Holds
  <2>4. \A x \in deleting' :
          /\ x \in Sessions /\ runtime'[x].clients = {} /\ runtime'[x].status = "idle"
          /\ \A d \in Conns : ~(At(d, x, HoldPCs)' /\ Holds(d, x)')
    BY <1>0, <1>2, <1>3, <1>4, <2>3 DEF IInv, DeleteMark, TypeOK
  <2>5. \A x \in Sessions \ crossed :
          /\ x \in deleting' <=> \E d \in Conns : At(d, x, ErasePCs)'
          /\ \A d, e \in Conns : At(d, x, ErasePCs)' /\ At(e, x, ErasePCs)' => d = e
    BY <1>2, <2>1, <2>2 DEF IInv, DeleteMark
  <2> QED
    BY <1>2, <2>4, <2>5 DEF DeleteMark
<1>15. Versions'
  BY <1>0, <1>1, <1>2 DEF IInv, Versions, OtherReqs
<1>16. LoadIdle'
  BY <1>0, <1>1, <1>3 DEF IInv, LoadIdle, OtherReqs, Named
<1>17. Rowed'
  <2>1. \A x \in Sessions : (Erased(x)' <=> Erased(x)) /\ (Usable(x)' => Usable(x))
    BY <1>0, <1>1, <1>2, <1>7 DEF Usable, Erased, At, OtherReqs
  <2> QED
    BY <1>2, <2>1 DEF IInv, Rowed
<1> QED
  BY <1>6, <1>8, <1>9, <1>10, <1>11, <1>12, <1>13, <1>14, <1>15, <1>16, <1>17
     DEF IInv, TypeInv

\* A session whose runtime nobody uses loses it, or one that is lost for good.
LEMMA GoneSafe ==
  ASSUME IInv, TypeInv', Stays, NEW c \in Conns, NEW s \in Sessions, OtherReqs(c),
         \/ req'[c] = req[c] /\ UNCHANGED deleteVersion
         \/ /\ At(c, s, {"drop"}) /\ req'[c].pc = "unmark" /\ req'[c].session = s
            /\ req'[c].gen = req[c].gen /\ req'[c].create = req[c].create
            /\ req'[c].version = req[c].version
            /\ deleteVersion' = [deleteVersion EXCEPT ![s] = @ + 1],
         UNCHANGED <<meta, unused, objects, attached, creating, deleting, crossed>>,
         runtime' = [runtime EXCEPT ![s] = NoRuntime],
         \/ s \in crossed /\ req'[c].pc = "unmark" /\ At(c, s, {"drop"})
         \/ /\ runtime[s].clients = {}
            /\ \A d \in Conns : Holds(d, s) => d = c /\ req'[c].pc = "unmark"
  PROVE  IInv'
<1>0. /\ req \in [Conns -> Requests] /\ req' \in [Conns -> Requests]
      /\ deleteVersion \in [Sessions -> Nat] /\ runtime \in [Sessions -> Runtimes]
      /\ objects \in [Sessions -> Nat]
  BY DEF IInv, TypeOK, TypeInv
<1>1. /\ runtime'[s] = NoRuntime /\ \A x \in Sessions \ {s} : runtime'[x] = runtime[x]
      /\ NoRuntime.gen = 0 /\ NoRuntime.clients = {} /\ NoRuntime.status = "idle"
      /\ NoRuntime.ops = 0
  BY <1>0 DEF NoRuntime
<1>14. ASSUME req'[c].pc = "unmark", At(c, s, {"drop"}),
              deleteVersion' = [deleteVersion EXCEPT ![s] = @ + 1]
       PROVE  ~Usable(s)' /\ (s \in crossed => Buried(s)')
  <2>1. ASSUME NEW d \in Conns, At(d, s, {"legacy", "check", "install"})'
        PROVE  req'[d].version # deleteVersion'[s]
    <3>1. req'[d] = req[d] /\ req[d].version <= deleteVersion[s]
      BY <1>14, <2>1 DEF IInv, Versions, At, OtherReqs
    <3>2. deleteVersion[s] \in Nat /\ req[d].version \in Nat
            /\ deleteVersion'[s] = deleteVersion[s] + 1
      BY <1>0, <1>14 DEF Requests
    <3> QED
      BY <3>1, <3>2
  <2>2. ~Usable(s)'
    BY <1>1, <2>1 DEF Usable, Loaded
  <2>3. meta[s] = Absent /\ s \notin unused
    BY <1>14 DEF IInv, UnusedUntouched, Rowed, Erased, At
  <2> QED
    BY <2>2, <2>3 DEF Buried
<1>15. \/ Buried(s)'
       \/ runtime[s].clients = {} /\ \A d \in Conns : Holds(d, s) => d = c /\ req'[c].pc = "unmark"
  BY <1>14 DEF At
<1>2. Generations'
  BY <1>0, <1>1 DEF IInv, Generations
<1>13. ASSUME NEW x \in Sessions, NEW d \in Conns
       PROVE  /\ Holds(d, x)' => x # s /\ Holds(d, x)
              /\ x # s => (Holds(d, x)' <=> Holds(d, x))
  BY <1>0, <1>1 DEF Holds, OtherReqs, At
<1>3. Attachments'
  <2>1. ASSUME NEW x \in Sessions \ {s}, NEW d \in Conns
        PROVE  /\ d \in runtime'[x].clients => attached'[d] = x
               /\ attached'[d] = x => d \in runtime'[x].clients \/ Buried(x)'
    BY <1>1 DEF IInv, Attachments, Stays
  <2>2. ASSUME NEW d \in Conns, attached[d] = s PROVE Buried(s)'
    BY <1>15, <2>2 DEF IInv, Attachments, Stays
  <2> QED
    BY <1>1, <2>1, <2>2 DEF Attachments
<1>4. UnusedUntouched'
  BY <1>0, <1>1 DEF IInv, UnusedUntouched, OtherReqs, TypeOK, At
<1>5. CreateFlag'
  BY <1>0 DEF IInv, CreateFlag, OtherReqs, LatchPCs, At
<1>6. HoldsCurrent'
  <2>1. ASSUME NEW d \in Conns
        PROVE  /\ req'[d].pc \in HoldPCs => req'[d].gen # 0
               /\ req'[d].pc \in HoldPCs \cup {"deleteGet", "delete", "drop"} =>
                    req'[d] = req[d] /\ req[d].session \in Sessions
               /\ req'[d].pc \in {"abort", "undo", "drop", "unmark"} /\ req'[d].create =>
                    req'[d].gen = 0
    BY <1>0 DEF OtherReqs, IInv, Named, At, HoldPCs, HoldsCurrent
  <2>2. ASSUME NEW d \in Conns, NEW x \in Sessions, req[d].session = x, req'[d] = req[d],
               req[d].gen # 0, req[d].pc \in HoldPCs \cup {"deleteGet", "delete", "drop"}
        PROVE  Holds(d, x)' \/ Buried(x)'
    <3>1. Holds(d, x) \/ Buried(x)'
      BY <2>2 DEF IInv, HoldsCurrent, Stays
    <3>2. CASE Holds(d, x) /\ x = s
      BY <1>15, <2>2, <3>2 DEF HoldPCs
    <3> QED
      BY <1>13, <3>1, <3>2
  <2> QED
    BY <2>1, <2>2 DEF HoldsCurrent
<1>7. HoldsCounted'
  <2>2. ASSUME NEW x \in Sessions \ {s} PROVE CountOk(x)'
    <3>1. CountOk(x) /\ runtime'[x].ops = runtime[x].ops
      BY <1>1, Counted DEF IInv
    <3> QED
      BY <1>13, <3>1, CountKept
  <2>3. CountOk(s)'
    BY <1>1, <1>13, CountEmpty
  <2> QED
    BY <2>2, <2>3 DEF HoldsCounted, CountOk
<1>8. Latch'
  <2>1. \A x \in Sessions, d \in Conns :
          /\ At(d, x, LatchPCs)' <=> At(d, x, LatchPCs)
          /\ At(d, x, HoldPCs \cup {"install"})' <=> At(d, x, HoldPCs \cup {"install"})
          /\ req'[d].create = req[d].create
    BY <1>0 DEF At, LatchPCs, HoldPCs, OtherReqs
  <2>2. \A x \in Sessions : creating[x] # NoConn =>
           runtime'[x].clients = {} /\ runtime'[x].status = "idle"
    BY <1>1 DEF IInv, Latch
  <2> QED
    BY <2>1, <2>2, ZenonT(30) DEF IInv, Latch
<1>9. DeleteMark'
  <2>1. \A x \in Sessions, d \in Conns :
          /\ At(d, x, ErasePCs)' <=> At(d, x, ErasePCs)
          /\ At(d, x, HoldPCs)' <=> At(d, x, HoldPCs)
    BY <1>0 DEF At, ErasePCs, HoldPCs, OtherReqs
  <2>2. \A x \in deleting :
          /\ x \in Sessions /\ runtime'[x].clients = {} /\ runtime'[x].status = "idle"
          /\ \A d \in Conns : ~(At(d, x, HoldPCs)' /\ Holds(d, x)')
    BY <1>1, <1>13, <2>1 DEF IInv, DeleteMark, TypeOK
  <2> QED
    BY <2>1, <2>2 DEF IInv, DeleteMark
<1>10. Versions'
  <2>1. \A x \in Sessions : deleteVersion[x] <= deleteVersion'[x]
    BY <1>0
  <2>2. \A d \in Conns : /\ req'[d].version = req[d].version /\ req'[d].version \in Nat
                         /\ req'[d].pc # "ready" => /\ req'[d].session = req[d].session
                                                    /\ req[d].pc # "ready"
    BY <1>0 DEF OtherReqs, At, Requests
  <2>3. \A d \in Conns : req[d].pc # "ready" => req[d].session \in Sessions
    BY DEF IInv, Named
  <2>4. deleteVersion' \in [Sessions -> Nat]
    BY DEF TypeInv, TypeOK
  <2> QED
    BY <1>0, <2>1, <2>2, <2>3, <2>4 DEF IInv, Versions
<1>11. LoadIdle'
  BY <1>0, <1>1 DEF IInv, LoadIdle, OtherReqs, Named, At
<1>12. Rowed'
  <2>1. CASE req'[c] = req[c] /\ UNCHANGED deleteVersion
    <3>1. \A x \in Sessions : (Erased(x)' <=> Erased(x)) /\ (Usable(x)' => Usable(x))
      BY <1>0, <1>1, <2>1 DEF Usable, Loaded, Erased, At, OtherReqs
    <3> QED
      BY <3>1 DEF IInv, Rowed
  <2>2. CASE /\ At(c, s, {"drop"}) /\ req'[c].pc = "unmark" /\ req'[c].session = s
             /\ deleteVersion' = [deleteVersion EXCEPT ![s] = @ + 1]
    <3>1. \A x \in Sessions \ {s} : (Erased(x)' <=> Erased(x)) /\ (Usable(x)' => Usable(x))
      BY <1>0, <1>1, <2>2 DEF Usable, Loaded, Erased, At, OtherReqs
    <3>2. Erased(s)' => Erased(s)
      BY <2>2 DEF Erased, At, OtherReqs
    <3> QED
      BY <1>14, <2>2, <3>1, <3>2 DEF IInv, Rowed
  <2> QED
    BY <2>1, <2>2
<1> QED
  BY <1>2, <1>3, <1>4, <1>5, <1>6, <1>7, <1>8, <1>9, <1>10, <1>11, <1>12 DEF IInv, TypeInv

\* Only the status of a runtime changes; from idle, nobody holds the runtime and
\* it has a client.
LEMMA StatusSafe ==
  ASSUME IInv, TypeInv', Stays, NEW s \in Sessions,
         \A d \in Conns : req'[d] = req[d] \/ (req[d].pc = "ready" /\ req'[d] = Ready),
         UNCHANGED <<meta, unused, objects, attached, creating, deleting, deleteVersion, crossed>>,
         \A x \in Sessions \ {s} : runtime'[x] = runtime[x],
         runtime'[s].gen = runtime[s].gen, runtime'[s].clients = runtime[s].clients,
         runtime'[s].ops = runtime[s].ops, runtime[s].gen # 0,
         \/ runtime[s].status # "idle"
         \/ runtime[s].ops = 0 /\ runtime[s].clients # {}
  PROVE  IInv'
<1>0. /\ NoSession \notin Sessions /\ deleteVersion \in [Sessions -> Nat] /\ CountOk(s)
      /\ Ready.pc = "ready" /\ Ready.session = NoSession /\ ~Ready.create
  BY ConstantAssumption, Counted DEF IInv, TypeOK, Ready
<1>1. \A x \in Sessions : /\ runtime'[x].gen = runtime[x].gen
                          /\ runtime'[x].clients = runtime[x].clients
                          /\ runtime'[x].ops = runtime[x].ops
  OBVIOUS
<1>2. s \notin deleting /\ creating[s] = NoConn /\ s \notin unused
  <2>1. s \notin deleting /\ creating[s] = NoConn
    BY DEF IInv, DeleteMark, Latch
  <2>2. NoRuntime.gen = 0
    BY DEF NoRuntime
  <2> QED
    BY <2>1, <2>2 DEF IInv, UnusedUntouched
<1>3. \A d \in Conns : req'[d].pc # "ready" => req'[d] = req[d]
  BY <1>0
<1>4. Generations'
  <2>1. \A x \in Sessions : runtime'[x].gen <= objects'[x]
    BY <1>1 DEF IInv, Generations
  <2>2. NoRuntime.gen = 0
    BY DEF NoRuntime
  <2>3. \A x \in Sessions : runtime'[x].gen = 0 <=> runtime'[x] = NoRuntime
    BY <2>2 DEF IInv, Generations
  <2> QED
    BY <2>1, <2>3 DEF Generations
<1>15. \A x \in Sessions, d \in Conns : Holds(d, x)' <=> Holds(d, x)
  BY <1>0, <1>1 DEF Holds
<1>5. Attachments'
  BY <1>1 DEF IInv, Attachments, Stays
<1>6. UnusedUntouched'
  BY <1>0, <1>2 DEF IInv, UnusedUntouched, TypeOK
<1>7. CreateFlag'
  BY <1>0, <1>3 DEF IInv, CreateFlag, LatchPCs
<1>8. HoldsCurrent'
  BY <1>0, <1>3, <1>15 DEF IInv, HoldsCurrent, HoldPCs, Named, Stays
<1>9. HoldsCounted'
  <2>2. ASSUME NEW x \in Sessions PROVE CountOk(x)'
    BY <1>1, <1>15, CountKept, Counted DEF IInv
  <2> QED
    BY <2>2 DEF HoldsCounted, CountOk
<1>10. Latch'
  <2>1. \A x \in Sessions, d \in Conns :
          /\ At(d, x, LatchPCs)' <=> At(d, x, LatchPCs)
          /\ At(d, x, HoldPCs \cup {"install"})' <=> At(d, x, HoldPCs \cup {"install"})
          /\ At(d, x, LatchPCs) => req'[d].create = req[d].create
    BY <1>0, <1>3 DEF At, LatchPCs, HoldPCs
  <2>2. \A x \in Sessions : creating[x] # NoConn =>
           /\ x \notin crossed /\ runtime'[x].clients = {} /\ runtime'[x].status = "idle"
           /\ \A d \in Conns : At(d, x, HoldPCs \cup {"install"}) => d = creating[x]
    BY <1>2 DEF IInv, Latch
  <2>3. \A x \in Sessions, d \in Conns :
           creating[x] = d <=> At(d, x, LatchPCs) /\ req[d].create
    BY DEF IInv, Latch
  <2>4. \A x \in Sessions, d \in Conns :
           creating'[x] = d <=> At(d, x, LatchPCs)' /\ req'[d].create
    BY <2>1, <2>3
  <2>5. \A x \in Sessions : creating'[x] # NoConn =>
           /\ x \notin crossed' /\ runtime'[x].clients = {} /\ runtime'[x].status = "idle"
           /\ \A d \in Conns : At(d, x, HoldPCs \cup {"install"})' => d = creating'[x]
    BY <2>1, <2>2
  <2> QED
    BY <2>4, <2>5 DEF Latch
<1>11. DeleteMark'
  <2>1. \A x \in Sessions, d \in Conns :
          /\ At(d, x, ErasePCs)' <=> At(d, x, ErasePCs)
          /\ At(d, x, HoldPCs)' <=> At(d, x, HoldPCs)
    BY <1>0, <1>3 DEF At, ErasePCs, HoldPCs
  <2>2. \A x \in deleting :
          x \in Sessions /\ runtime'[x].clients = {} /\ runtime'[x].status = "idle"
    BY <1>2 DEF IInv, DeleteMark, TypeOK
  <2> QED
    BY <1>15, <2>1, <2>2 DEF IInv, DeleteMark
<1>12. Versions'
  BY <1>3 DEF IInv, Versions
<1>13. LoadIdle'
  <2>1. ASSUME NEW d \in Conns, req'[d].pc = "load", req'[d].load
        PROVE  runtime'[req'[d].session].status = "idle"
    <3>1. req'[d] = req[d] /\ req[d].session \in Sessions /\ req[d].pc = "load"
      BY <1>3, <2>1 DEF IInv, Named
    <3>2. runtime[req[d].session].status = "idle"
      BY <2>1, <3>1 DEF IInv, LoadIdle
    <3>3. Holds(d, req[d].session) \/ Buried(req[d].session)
      BY <3>1 DEF IInv, HoldsCurrent, HoldPCs
    <3>4. CASE req[d].session = s
      BY <1>0, <3>2, <3>3, <3>4, NoHolder, BuriedFields
    <3>5. CASE req[d].session # s
      BY <3>1, <3>2, <3>5
    <3> QED
      BY <3>4, <3>5
  <2> QED
    BY <2>1 DEF LoadIdle
<1>14. Rowed'
  <2>1. \A x \in Sessions : Loaded(x)' <=> Loaded(x)
    BY <1>1, <1>4 DEF IInv, Generations, Loaded
  <2>2. \A x \in Sessions : (Erased(x)' <=> Erased(x)) /\ (Usable(x)' => Usable(x))
    BY <1>0, <1>3, <2>1 DEF Erased, Usable, At
  <2> QED
    BY <2>2 DEF IInv, Rowed
<1> QED
  BY <1>4, <1>5, <1>6, <1>7, <1>8, <1>9, <1>10, <1>11, <1>12, <1>13, <1>14 DEF IInv, TypeInv

\* The latch of a create leaves: exchanged for the mark, or after a failure.
LEMMA CreateFailsSafe ==
  ASSUME IInv, TypeInv', Stays, NEW c \in Conns, NEW s \in Sessions, req[c].session = s,
         \/ CreateAbort(c)
         \/ CreateStore(c) /\ req' = [req EXCEPT ![c] = Ready] /\ UNCHANGED <<meta, unused>>
              /\ creating' = [creating EXCEPT ![s] = NoConn]
  PROVE  IInv'
<1>0. /\ req \in [Conns -> Requests] /\ req' \in [Conns -> Requests]
      /\ creating \in [Sessions -> Conns \cup {NoConn}] /\ NoConn \notin Conns
      /\ req[c].pc \in {"abort", "create"} /\ req[c].create /\ NoSession \notin Sessions
      /\ deleteVersion \in [Sessions -> Nat]
  BY ConstantAssumption
     DEF IInv, TypeOK, TypeInv, Named, CreateAbort, CreateStore, CreateFlag
<1>1. At(c, s, LatchPCs)
  BY <1>0 DEF At, LatchPCs
<1>2. /\ creating[s] = c /\ s \notin crossed
      /\ runtime[s].clients = {} /\ runtime[s].status = "idle"
      /\ \A d \in Conns : ~At(d, s, HoldPCs \cup {"install"})
  <2>1. creating[s] = c
    BY <1>0, <1>1 DEF IInv, Latch
  <2>2. \A d \in Conns : At(d, s, HoldPCs \cup {"install"}) => d = c
    BY <1>0, <2>1 DEF IInv, Latch
  <2>3. ~At(c, s, HoldPCs \cup {"install"})
    BY <1>0 DEF At, HoldPCs
  <2>4. s \notin crossed /\ runtime[s].clients = {} /\ runtime[s].status = "idle"
    BY <1>0, <2>1 DEF IInv, Latch
  <2> QED
    BY <2>1, <2>2, <2>3, <2>4
<1>3. /\ OtherReqs(c) /\ creating' = [creating EXCEPT ![s] = NoConn]
      /\ UNCHANGED <<meta, unused, runtime, objects, attached, deleteVersion>>
      /\ \/ /\ req'[c].pc = "undo" /\ req'[c].session = s /\ req'[c].create
            /\ req'[c].gen = req[c].gen /\ req'[c].version = req[c].version
            /\ req[c].pc = "abort" /\ deleting' = deleting \cup {s}
            /\ crossed' = IF s \in deleting THEN crossed \cup {s} ELSE crossed
         \/ /\ req'[c].pc = "ready" /\ req'[c].session = NoSession /\ ~req'[c].create
            /\ req'[c].gen = 0 /\ UNCHANGED <<deleting, crossed>>
  <2>1. CASE CreateAbort(c)
    BY <1>0, <2>1, GotoFields DEF CreateAbort
  <2>2. CASE CreateStore(c) /\ req' = [req EXCEPT ![c] = Ready] /\ UNCHANGED <<meta, unused>>
               /\ creating' = [creating EXCEPT ![s] = NoConn]
    BY <1>0, <2>2 DEF CreateStore, Ready, OtherReqs
  <2> QED
    BY <2>1, <2>2
<1>4. Generations' /\ Attachments'
  BY <1>3 DEF IInv, Generations, Attachments, Stays
<1>5. UnusedUntouched'
  <2>1. req[c].pc = "abort" => s \notin unused
    BY DEF IInv, UnusedUntouched
  <2> QED
    BY <1>0, <1>3, <2>1 DEF IInv, UnusedUntouched, OtherReqs, TypeOK
<1>13. \A x \in Sessions, d \in Conns : Holds(d, x)' <=> Holds(d, x)
  BY <1>0, <1>3 DEF Holds, OtherReqs
<1>6. CreateFlag'
  BY <1>0, <1>3 DEF IInv, CreateFlag, OtherReqs, LatchPCs
<1>7. HoldsCurrent'
  <2>1. ASSUME NEW d \in Conns \ {c}
        PROVE  req'[d] = req[d] /\ (req[d].pc # "ready" => req[d].session \in Sessions)
    BY <1>3 DEF OtherReqs, IInv, Named
  <2>2. /\ req'[c].pc \in {"undo", "ready"}
        /\ req'[c].pc = "undo" => req'[c].gen = 0
    BY <1>0, <1>3 DEF IInv, HoldsCurrent
  <2> QED
    BY <1>13, <2>1, <2>2 DEF IInv, HoldsCurrent, HoldPCs, Stays
<1>8. HoldsCounted'
  <2>2. ASSUME NEW x \in Sessions PROVE CountOk(x)'
    BY <1>3, <1>13, CountKept, Counted DEF IInv
  <2> QED
    BY <2>2 DEF HoldsCounted, CountOk
<1>9. Latch'
  <2>1. \A x \in Sessions \ {s}, d \in Conns :
          /\ At(d, x, LatchPCs)' /\ req'[d].create <=> At(d, x, LatchPCs) /\ req[d].create
          /\ At(d, x, HoldPCs \cup {"install"})' <=> At(d, x, HoldPCs \cup {"install"})
    BY <1>0, <1>3 DEF At, LatchPCs, HoldPCs, OtherReqs
  <2>2. \A d \in Conns : ~(At(d, s, LatchPCs)' /\ req'[d].create)
    BY <1>0, <1>2, <1>3 DEF At, LatchPCs, OtherReqs, IInv, Latch
  <2>3. \A x \in Sessions \ {s} : /\ creating'[x] = creating[x]
                                  /\ x \in crossed' <=> x \in crossed
    BY <1>0, <1>3
  <2>4. creating'[s] = NoConn
    BY <1>0, <1>3
  <2>5. ASSUME NEW x \in Sessions \ {s}
        PROVE  /\ \A d \in Conns : creating'[x] = d <=> At(d, x, LatchPCs)' /\ req'[d].create
               /\ creating'[x] # NoConn =>
                    /\ x \notin crossed'
                    /\ runtime'[x].clients = {} /\ runtime'[x].status = "idle"
                    /\ \A d \in Conns : At(d, x, HoldPCs \cup {"install"})' => d = creating'[x]
    <3>1. \A d \in Conns : creating'[x] = d <=> At(d, x, LatchPCs)' /\ req'[d].create
      BY <2>1, <2>3 DEF IInv, Latch
    <3>2. creating[x] # NoConn =>
            /\ x \notin crossed /\ runtime[x].clients = {} /\ runtime[x].status = "idle"
            /\ \A d \in Conns : At(d, x, HoldPCs \cup {"install"}) => d = creating[x]
      BY DEF IInv, Latch
    <3>3. \A d \in Conns : creating'[x] # NoConn /\ At(d, x, HoldPCs \cup {"install"})' =>
            d = creating'[x]
      BY <2>1, <2>3, <3>2
    <3> QED
      BY <1>3, <2>3, <3>1, <3>2, <3>3
  <2>6. \A d \in Conns : creating'[s] = d <=> At(d, s, LatchPCs)' /\ req'[d].create
    BY <1>0, <2>2, <2>4
  <2>7. \A x \in Sessions, d \in Conns :
           creating'[x] = d <=> At(d, x, LatchPCs)' /\ req'[d].create
    BY <2>5, <2>6
  <2>8. \A x \in Sessions : creating'[x] # NoConn =>
           /\ x \notin crossed' /\ runtime'[x].clients = {} /\ runtime'[x].status = "idle"
           /\ \A d \in Conns : At(d, x, HoldPCs \cup {"install"})' => d = creating'[x]
    BY <2>4, <2>5
  <2> QED
    BY <2>7, <2>8 DEF Latch
<1>10. DeleteMark'
  <2>1. \A x \in Sessions \ {s}, d \in Conns : At(d, x, ErasePCs)' <=> At(d, x, ErasePCs)
    BY <1>0, <1>3 DEF At, ErasePCs, OtherReqs
  <2>2. \A x \in Sessions, d \in Conns : At(d, x, HoldPCs)' => At(d, x, HoldPCs)
    BY <1>0, <1>3 DEF At, HoldPCs, OtherReqs
  <2>3. \A d \in Conns : At(d, s, ErasePCs)' <=> \/ d = c /\ req'[c].pc = "undo"
                                                 \/ At(d, s, ErasePCs)
    BY <1>0, <1>3 DEF At, ErasePCs, OtherReqs
  <2>5. \A d \in Conns : ~At(d, s, HoldPCs)'
    BY <1>2, <2>2 DEF At
  <2>6. ASSUME NEW x \in deleting'
        PROVE  /\ runtime'[x].clients = {} /\ runtime'[x].status = "idle"
               /\ \A d \in Conns : ~(At(d, x, HoldPCs)' /\ Holds(d, x)')
    <3>1. CASE x = s
      BY <1>2, <1>3, <2>5, <3>1
    <3>2. CASE x # s
      <4>1. x \in deleting /\ x \in Sessions
        BY <1>3, <3>2 DEF IInv, TypeOK
      <4> QED
        BY <1>3, <1>13, <2>2, <4>1 DEF IInv, DeleteMark
    <3> QED
      BY <3>1, <3>2
  <2>7. ASSUME NEW x \in Sessions \ crossed'
        PROVE  /\ x \in deleting' <=> \E d \in Conns : At(d, x, ErasePCs)'
               /\ \A d, e \in Conns : At(d, x, ErasePCs)' /\ At(e, x, ErasePCs)' => d = e
    <3>1. CASE x = s /\ req'[c].pc = "undo"
      <4>1. s \notin deleting /\ s \in deleting'
        BY <1>3, <2>7, <3>1
      <4>2. \A d \in Conns : ~At(d, s, ErasePCs)
        BY <1>2, <4>1 DEF IInv, DeleteMark
      <4> QED
        BY <2>3, <3>1, <4>1, <4>2
    <3>2. CASE x # s \/ req'[c].pc # "undo"
      <4>1. x \notin crossed /\ (x \in deleting' <=> x \in deleting)
        BY <1>3, <2>7, <3>2
      <4>2. \A d \in Conns : At(d, x, ErasePCs)' <=> At(d, x, ErasePCs)
        BY <2>1, <2>3, <3>2
      <4> QED
        BY <4>1, <4>2 DEF IInv, DeleteMark
    <3> QED
      BY <3>1, <3>2
  <2> QED
    BY <2>6, <2>7 DEF DeleteMark
<1>11. Versions' /\ LoadIdle'
  BY <1>0, <1>3 DEF IInv, Versions, LoadIdle, OtherReqs
<1>12. Rowed'
  <2>1. \A x \in Sessions : (Erased(x)' <=> Erased(x)) /\ (Usable(x)' => Usable(x))
    BY <1>0, <1>3 DEF Usable, Loaded, Erased, At, OtherReqs
  <2> QED
    BY <1>3, <2>1 DEF IInv, Rowed
<1> QED
  BY <1>4, <1>5, <1>6, <1>7, <1>8, <1>9, <1>10, <1>11, <1>12 DEF IInv, TypeInv

LEMMA CreateStepSafe ==
  ASSUME IInv, TypeInv', Stays, NEW c \in Conns, CreateStore(c) \/ CreateAbort(c) \/ CreateUndo(c)
  PROVE  IInv'
<1> DEFINE s == req[c].session
<1>0. /\ req \in [Conns -> Requests] /\ s \in Sessions
      /\ s \in unused <=> req[c].pc = "create"
      /\ unused \subseteq Sessions /\ meta \in [Sessions -> Rows] /\ DefaultModel # Absent
      /\ req' \in [Conns -> Requests] /\ req[c].pc \in {"create", "abort", "undo"}
  BY ConstantAssumption DEF IInv, TypeOK, TypeInv, Named, CreateAbort, CreateStore,
                            CreateUndo, UnusedUntouched
<1>1. ASSUME NEW p \in {"read", "drop", "unmark"}, Goto(c, p), ManagerSame,
             <<req[c].pc, p>> \in QuietMoves, p = "unmark" => UNCHANGED meta,
             \A x \in Sessions \ {s} : meta'[x] = meta[x],
             p = "read" => meta'[s] # Absent, p = "drop" => meta'[s] = Absent,
             unused' = IF p = "read" THEN unused \ {s} ELSE unused
      PROVE  IInv'
  <2>1. /\ OtherReqs(c) /\ req'[c].pc = p /\ req'[c].session = s
        /\ req'[c].gen = req[c].gen /\ req'[c].create = req[c].create
        /\ req'[c].version = req[c].version
    BY <1>0, <1>1, GotoFields
  <2>2. Versions'
    BY <1>0, <1>1, <2>1 DEF IInv, Versions, OtherReqs, ManagerSame
  <2>3. Rowed'
    <3>1. \A x \in Sessions : /\ Erased(x)' <=> Erased(x) \/ (x = s /\ p = "drop")
                              /\ Usable(x)' => Usable(x)
      BY <1>0, <1>1, <2>1 DEF Usable, Loaded, Erased, At, OtherReqs, ManagerSame
    <3>2. p = "read" => ~Erased(s)
      BY <1>0, <1>1 DEF IInv, UnusedUntouched, Erased, At, QuietMoves
    <3> QED
      BY <1>1, <3>1, <3>2 DEF IInv, Rowed
  <2>4. p = "unmark" => req[c].gen = 0
    BY <1>0, <1>1 DEF IInv, CreateFlag, HoldsCurrent, QuietMoves
  <2>5. /\ p = "read" <=> req[c].pc = "create"
        /\ p # "read" => s \notin unused
    BY <1>0, <1>1 DEF QuietMoves
  <2>6. \A x \in unused' : meta'[x] = meta[x]
    BY <1>0, <1>1, <2>5
  <2> QED
    BY <1>0, <1>1, <2>1, <2>2, <2>3, <2>4, <2>5, <2>6, QuietStep DEF TypeInv, Holds
<1>2. CASE CreateStore(c)
  <2>1. CASE /\ meta' = [meta EXCEPT ![s] = DefaultModel] /\ unused' = unused \ {s}
             /\ Goto(c, "read") /\ UNCHANGED creating
    <3>1. ManagerSame /\ <<req[c].pc, "read">> \in QuietMoves
      BY <1>2, <2>1 DEF CreateStore, ManagerSame, QuietMoves
    <3>2. meta'[s] # Absent /\ \A x \in Sessions \ {s} : meta'[x] = meta[x]
      BY <1>0, <2>1
    <3> QED
      BY <1>1, <2>1, <3>1, <3>2
  <2>2. CASE /\ creating' = [creating EXCEPT ![s] = NoConn]
             /\ req' = [req EXCEPT ![c] = Ready] /\ UNCHANGED <<meta, unused>>
    BY <1>0, <1>2, <2>2, CreateFailsSafe
  <2> QED
    BY <1>2, <2>1, <2>2 DEF CreateStore
<1>3. CASE CreateAbort(c)
  BY <1>0, <1>3, CreateFailsSafe
<1>4. CASE CreateUndo(c)
  <2>1. ManagerSame /\ UNCHANGED unused
    BY <1>4 DEF CreateUndo, ManagerSame, mgrVars
  <2>2. CASE meta' = [meta EXCEPT ![s] = Absent] /\ Goto(c, "drop")
    <3>1. <<req[c].pc, "drop">> \in QuietMoves /\ meta'[s] = Absent /\ \A x \in Sessions \ {s} : meta'[x] = meta[x]
      BY <1>0, <1>4, <2>2 DEF CreateUndo, QuietMoves
    <3> QED
      BY <1>1, <2>1, <2>2, <3>1
  <2>3. CASE Goto(c, "unmark") /\ UNCHANGED meta
    <3>1. <<req[c].pc, "unmark">> \in QuietMoves
      BY <1>4 DEF CreateUndo, QuietMoves
    <3> QED
      BY <1>1, <2>1, <2>3, <3>1
  <2> QED
    BY <1>4, <2>2, <2>3 DEF CreateUndo
<1> QED
  BY <1>2, <1>3, <1>4

LEMMA DeleteFailedSafe ==
  ASSUME IInv, TypeInv', Stays, NEW c \in Conns, DeleteFailed(c),
         req[c].pc \in {"deleteGet", "delete"}
  PROVE  IInv'
<1> DEFINE s == req[c].session
<1>0. /\ req \in [Conns -> Requests] /\ s \in Sessions
      /\ req' \in [Conns -> Requests] /\ req[c].version \in Nat
  BY DEF IInv, TypeOK, TypeInv, Named, Requests
<1>1. /\ OtherReqs(c) /\ req'[c].pc = "unmark" /\ req'[c].session = s
      /\ req'[c].gen = req[c].gen /\ req'[c].create = req[c].create
      /\ req'[c].version = req[c].version
  BY <1>0, GotoFields DEF DeleteFailed
<1>2. UNCHANGED <<meta, unused, objects, attached, creating, deleting, deleteVersion, crossed>>
  BY DEF DeleteFailed
<1>3. CASE Holds(c, s)
  <2>2. FinishStateOp(s)
    BY <1>3 DEF DeleteFailed, Holds
  <2>3. req'[c].version <= req[c].version
    BY <1>0, <1>1
  <2> QED
    BY <1>0, <1>1, <1>2, <1>3, <2>2, <2>3, FinishFields, ReleaseSafe
<1>4. CASE ~Holds(c, s)
  <2>1. ManagerSame
    <3>1. req[c].gen # 0 => Buried(s)
      BY <1>4 DEF IInv, HoldsCurrent
    <3>2. UNCHANGED runtime
      BY <1>0, <3>1, BuriedFields DEF DeleteFailed
    <3> QED
      BY <1>2, <3>2 DEF ManagerSame
  <2>2. Versions'
    BY <1>0, <1>1, <1>2 DEF IInv, Versions, OtherReqs
  <2>3. Rowed'
    <3>1. \A x \in Sessions : (Erased(x)' <=> Erased(x)) /\ (Usable(x)' => Usable(x))
      BY <1>0, <1>1, <2>1 DEF Usable, Loaded, Erased, At, OtherReqs, ManagerSame
    <3> QED
      BY <1>2, <3>1 DEF IInv, Rowed
  <2>4. <<req[c].pc, req'[c].pc>> \in QuietMoves
    BY <1>1 DEF QuietMoves
  <2> QED
    BY <1>0, <1>1, <1>2, <1>4, <2>1, <2>2, <2>3, <2>4, QuietStep DEF TypeInv
<1> QED
  BY <1>3, <1>4

LEMMA UnmarkSafe ==
  ASSUME IInv, TypeInv', Stays, NEW c \in Conns, NEW s \in Sessions, req[c].session = s, Unmark(c)
  PROVE  IInv'
<1>0. /\ req \in [Conns -> Requests] /\ req[c].pc = "unmark" /\ NoSession \notin Sessions
      /\ req' \in [Conns -> Requests]
  BY ConstantAssumption DEF IInv, TypeOK, TypeInv, Unmark
<1>1. /\ OtherReqs(c) /\ deleting' = deleting \ {s}
      /\ UNCHANGED <<meta, unused, runtime, objects, attached, creating, deleteVersion, crossed>>
      /\ req'[c].pc = "ready" /\ req'[c].session = NoSession /\ ~req'[c].create
  BY <1>0 DEF Unmark, Ready, OtherReqs
<1>2. s \notin crossed => \A d \in Conns : At(d, s, ErasePCs) => d = c
  <2>1. At(c, s, ErasePCs)
    BY <1>0 DEF At, ErasePCs
  <2> QED
    BY <2>1 DEF IInv, DeleteMark
<1>3. Generations' /\ Attachments'
  BY <1>1 DEF IInv, Generations, Attachments, Stays
<1>12. \A x \in Sessions, d \in Conns : Holds(d, x)' <=> Holds(d, x)
  BY <1>0, <1>1 DEF Holds, OtherReqs
<1>4. UnusedUntouched'
  BY <1>0, <1>1 DEF IInv, UnusedUntouched, OtherReqs, TypeOK
<1>5. CreateFlag'
  BY <1>0, <1>1 DEF IInv, CreateFlag, OtherReqs, LatchPCs
<1>6. HoldsCurrent'
  <2>1. ASSUME NEW d \in Conns \ {c}
        PROVE  req'[d] = req[d] /\ (req[d].pc # "ready" => req[d].session \in Sessions)
    BY <1>1 DEF OtherReqs, IInv, Named
  <2> QED
    BY <1>1, <1>12, <2>1 DEF IInv, HoldsCurrent, HoldPCs, Stays
<1>7. HoldsCounted'
  <2>2. ASSUME NEW x \in Sessions PROVE CountOk(x)'
    BY <1>1, <1>12, CountKept, Counted DEF IInv
  <2> QED
    BY <2>2 DEF HoldsCounted, CountOk
<1>8. Latch'
  BY <1>0, <1>1 DEF IInv, Latch, At, LatchPCs, HoldPCs, OtherReqs
<1>9. DeleteMark'
  <2>1. \A x \in Sessions \ {s}, d \in Conns : At(d, x, ErasePCs)' <=> At(d, x, ErasePCs)
    BY <1>0, <1>1 DEF At, ErasePCs, OtherReqs
  <2>2. \A x \in Sessions, d \in Conns : At(d, x, HoldPCs)' <=> At(d, x, HoldPCs)
    BY <1>0, <1>1 DEF At, HoldPCs, OtherReqs
  <2>3. s \notin crossed => \A d \in Conns : ~At(d, s, ErasePCs)'
    BY <1>0, <1>1, <1>2 DEF At, ErasePCs, OtherReqs
  <2>4. s \notin deleting' /\ \A x \in Sessions \ {s} : x \in deleting' <=> x \in deleting
    BY <1>1
  <2>5. \A x \in deleting' :
          /\ runtime'[x].clients = {} /\ runtime'[x].status = "idle"
          /\ \A d \in Conns : ~(At(d, x, HoldPCs)' /\ Holds(d, x)')
    BY <1>1, <1>12, <2>2 DEF IInv, DeleteMark, TypeOK
  <2>6. \A x \in Sessions \ crossed :
          /\ x \in deleting' <=> \E d \in Conns : At(d, x, ErasePCs)'
          /\ \A d, e \in Conns : At(d, x, ErasePCs)' /\ At(e, x, ErasePCs)' => d = e
    BY <2>1, <2>3, <2>4 DEF IInv, DeleteMark
  <2> QED
    BY <1>1, <2>5, <2>6 DEF DeleteMark
<1>10. Versions' /\ LoadIdle'
  BY <1>0, <1>1 DEF IInv, Versions, LoadIdle, OtherReqs
<1>11. Rowed'
  <2>1. \A x \in Sessions : (Erased(x)' <=> Erased(x)) /\ (Usable(x)' => Usable(x))
    BY <1>0, <1>1 DEF Usable, Loaded, Erased, At, OtherReqs
  <2> QED
    BY <1>1, <2>1 DEF IInv, Rowed
<1> QED
  BY <1>3, <1>4, <1>5, <1>6, <1>7, <1>8, <1>9, <1>10, <1>11 DEF IInv, TypeInv

LEMMA SettleSafe ==
  ASSUME IInv, TypeInv', Stays, NEW c \in Conns, Settle(c)
  PROVE  IInv'
<1>0. /\ req \in [Conns -> Requests] /\ req[c].pc = "settle" /\ NoSession \notin Sessions
      /\ req' \in [Conns -> Requests]
  BY ConstantAssumption DEF IInv, TypeOK, TypeInv, Settle
<1>1. /\ OtherReqs(c)
      /\ UNCHANGED <<meta, unused, runtime, objects, attached, creating, deleting,
                     deleteVersion, crossed>>
      /\ req'[c].pc = "ready" /\ req'[c].session = NoSession /\ ~req'[c].create
  BY <1>0 DEF Settle, Ready, OtherReqs
<1>2. Generations' /\ Attachments'
  BY <1>1 DEF IInv, Generations, Attachments, Stays
<1>12. \A x \in Sessions, d \in Conns : Holds(d, x)' <=> Holds(d, x)
  BY <1>0, <1>1 DEF Holds, OtherReqs
<1>3. UnusedUntouched'
  BY <1>0, <1>1 DEF IInv, UnusedUntouched, OtherReqs, TypeOK
<1>4. CreateFlag'
  BY <1>0, <1>1 DEF IInv, CreateFlag, OtherReqs, LatchPCs
<1>5. HoldsCurrent'
  <2>1. ASSUME NEW d \in Conns \ {c}
        PROVE  req'[d] = req[d] /\ (req[d].pc # "ready" => req[d].session \in Sessions)
    BY <1>1 DEF OtherReqs, IInv, Named
  <2> QED
    BY <1>1, <1>12, <2>1 DEF IInv, HoldsCurrent, HoldPCs, Stays
<1>6. HoldsCounted'
  <2>2. ASSUME NEW x \in Sessions PROVE CountOk(x)'
    BY <1>1, <1>12, CountKept, Counted DEF IInv
  <2> QED
    BY <2>2 DEF HoldsCounted, CountOk
<1>7. Latch'
  BY <1>0, <1>1 DEF IInv, Latch, At, LatchPCs, HoldPCs, OtherReqs
<1>8. DeleteMark'
  <2>1. \A x \in Sessions, d \in Conns :
          /\ At(d, x, ErasePCs)' <=> At(d, x, ErasePCs)
          /\ At(d, x, HoldPCs)' <=> At(d, x, HoldPCs)
    BY <1>0, <1>1 DEF At, ErasePCs, HoldPCs, OtherReqs
  <2> QED
    BY <1>1, <1>12, <2>1 DEF IInv, DeleteMark, TypeOK
<1>9. Versions' /\ LoadIdle'
  BY <1>0, <1>1 DEF IInv, Versions, LoadIdle, OtherReqs
<1>10. Rowed'
  <2>1. \A x \in Sessions : (Erased(x)' <=> Erased(x)) /\ (Usable(x)' => Usable(x))
    BY <1>0, <1>1 DEF Usable, Loaded, Erased, At, OtherReqs
  <2> QED
    BY <1>1, <2>1 DEF IInv, Rowed
<1> QED
  BY <1>2, <1>3, <1>4, <1>5, <1>6, <1>7, <1>8, <1>9, <1>10 DEF IInv, TypeInv

LEMMA DeleteStepSafe ==
  ASSUME IInv, TypeInv', Stays, NEW c \in Conns, NEW s \in Sessions, req[c].session = s,
         DeleteGet(c) \/ DeletePersisted(c) \/ DropRuntime(c) \/ Unmark(c)
  PROVE  IInv'
<1>0. /\ req \in [Conns -> Requests] /\ s \notin unused
      /\ unused \subseteq Sessions /\ meta \in [Sessions -> Rows]
      /\ req' \in [Conns -> Requests] /\ runtime \in [Sessions -> Runtimes]
      /\ deleteVersion \in [Sessions -> Nat]
  BY DEF IInv, TypeOK, TypeInv, Named, DeleteGet, DeletePersisted, DropRuntime, Unmark,
         UnusedUntouched
<1>1. ASSUME NEW p \in {"delete", "drop"}, Goto(c, p), ManagerSame,
             <<req[c].pc, p>> \in QuietMoves, p = "delete" => UNCHANGED meta,
             p = "drop" => meta'[s] = Absent,
             \A x \in Sessions \ {s} : meta'[x] = meta[x], UNCHANGED unused
      PROVE  IInv'
  <2>1. /\ OtherReqs(c) /\ req'[c].pc = p /\ req'[c].session = s
        /\ req'[c].gen = req[c].gen /\ req'[c].create = req[c].create
        /\ req'[c].version = req[c].version
    BY <1>0, <1>1, GotoFields
  <2>2. Versions'
    BY <1>0, <1>1, <2>1 DEF IInv, Versions, OtherReqs, ManagerSame, QuietMoves
  <2>3. Rowed'
    <3>1. \A x \in Sessions : /\ Erased(x)' <=> Erased(x) \/ (x = s /\ p = "drop")
                              /\ Usable(x)' => Usable(x)
      <4>1. req[c].pc # "drop"
        BY <1>1 DEF QuietMoves
      <4> QED
        BY <1>0, <1>1, <2>1, <4>1 DEF Usable, Loaded, Erased, At, OtherReqs, ManagerSame
    <3> QED
      BY <1>1, <3>1 DEF IInv, Rowed
  <2>4. \A x \in unused : meta'[x] = meta[x]
    BY <1>0, <1>1
  <2> QED
    BY <1>0, <1>1, <2>1, <2>2, <2>3, <2>4, QuietStep DEF TypeInv, QuietMoves
<1>2. CASE DeleteGet(c)
  <2>1. CASE DeleteFailed(c)
    BY <1>2, <2>1, DeleteFailedSafe DEF DeleteGet
  <2>2. CASE Goto(c, "delete") /\ UNCHANGED <<meta, unused, mgrVars, budget>>
    <3>1. ManagerSame /\ <<req[c].pc, "delete">> \in QuietMoves /\ UNCHANGED <<meta, unused>>
      BY <1>2, <2>2 DEF DeleteGet, ManagerSame, mgrVars, QuietMoves
    <3> QED
      BY <1>1, <2>2, <3>1
  <2> QED
    BY <1>2, <2>1, <2>2 DEF DeleteGet
<1>3. CASE DeletePersisted(c)
  <2>1. CASE DeleteFailed(c)
    BY <1>3, <2>1, DeleteFailedSafe DEF DeletePersisted
  <2>2. CASE /\ meta' = [meta EXCEPT ![s] = Absent] /\ Goto(c, "drop")
             /\ UNCHANGED <<unused, mgrVars, budget>>
    <3>1. /\ ManagerSame /\ <<req[c].pc, "drop">> \in QuietMoves
          /\ meta'[s] = Absent /\ \A x \in Sessions \ {s} : meta'[x] = meta[x]
      BY <1>0, <1>3, <2>2 DEF DeletePersisted, ManagerSame, mgrVars, QuietMoves
    <3> QED
      BY <1>1, <2>2, <3>1
  <2> QED
    BY <1>3, <2>1, <2>2 DEF DeletePersisted
<1>4. CASE DropRuntime(c)
  <2>1. /\ OtherReqs(c) /\ req'[c].pc = "unmark" /\ req'[c].session = s
        /\ req'[c].gen = req[c].gen /\ req'[c].create = req[c].create
        /\ req'[c].version = req[c].version
    BY <1>0, <1>4, GotoFields DEF DropRuntime
  <2>2. At(c, s, {"drop"}) /\ At(c, s, ErasePCs)
    BY <1>4 DEF DropRuntime, At, ErasePCs
  <2>3. \/ s \in crossed
        \/ s \in deleting /\ \A d \in Conns : At(d, s, ErasePCs) => d = c
    BY <1>0, <2>2 DEF IInv, DeleteMark
  <2>4. \/ s \in crossed
        \/ /\ runtime[s].clients = {}
           /\ \A d \in Conns : Holds(d, s) => d = c
    BY <1>0, <2>3 DEF IInv, DeleteMark, Holds, At, HoldPCs, ErasePCs
  <2>6. /\ UNCHANGED <<meta, unused, objects, attached, creating, deleting, crossed>>
        /\ runtime' = [runtime EXCEPT ![s] = NoRuntime]
        /\ deleteVersion' = [deleteVersion EXCEPT ![s] = @ + 1]
    BY <1>4 DEF DropRuntime
  <2> QED
    BY <1>0, <2>1, <2>2, <2>4, <2>6, GoneSafe
<1>5. CASE Unmark(c)
  BY <1>0, <1>5, UnmarkSafe
<1> QED
  BY <1>2, <1>3, <1>4, <1>5

LEMMA UpdateStepSafe ==
  ASSUME IInv, UpdateModels, TypeInv', Stays, NEW c \in Conns, UpdateRow(c) \/ UpdateAgent(c)
  PROVE  IInv'
<1> DEFINE s == req[c].session
<1>0. /\ req \in [Conns -> Requests] /\ s \in Sessions /\ s \notin unused
      /\ unused \subseteq Sessions /\ meta \in [Sessions -> Rows]
      /\ req' \in [Conns -> Requests] /\ runtime \in [Sessions -> Runtimes]
      /\ req[c].pc \in {"update", "setModel"} /\ ~req[c].create
      /\ (Holds(c, s) \/ Buried(s)) /\ req[c].gen # 0
      /\ CountOk(s) /\ req[c].version \in Nat
  BY Counted DEF IInv, TypeOK, TypeInv, Named, UpdateRow, UpdateAgent, UnusedUntouched,
     HoldsCurrent, HoldPCs, CreateFlag, LatchPCs, Requests
<1>1. UNCHANGED <<unused, objects, attached, creating, deleting, deleteVersion, crossed>>
  BY DEF UpdateRow, UpdateAgent
<1>6. CASE ~Holds(c, s)
  <2>1. UNCHANGED meta /\ FinishStateOp(s) /\ req' = [req EXCEPT ![c] = Ready]
    BY <1>0, <1>6, BuriedFields DEF UpdateRow, UpdateAgent, Buried
  <2>2. UNCHANGED runtime
    BY <1>0, <1>6, <2>1, BuriedFields
  <2>3. OtherReqs(c) /\ req'[c] = AttachFailed(req[c])
    BY <1>0, <2>1, FailedFields DEF OtherReqs, IInv, TypeOK
  <2> QED
    BY <1>0, <1>1, <1>6, <2>1, <2>2, <2>3, GivesUp DEF ManagerSame, HoldPCs
<1> SUFFICES ASSUME Holds(c, s) PROVE IInv'
  BY <1>6
<1>2. runtime[s].ops > 0 /\ runtime[s].gen = req[c].gen
  BY <1>0, SomeHolder DEF IInv, Holds
<1>3. ASSUME req' = [req EXCEPT ![c] = Ready], FinishStateOp(s), UNCHANGED meta
      PROVE  IInv'
  <2>1. /\ OtherReqs(c) /\ req'[c].pc = "ready" /\ req'[c].session = NoSession
        /\ ~req'[c].create /\ req'[c].gen = 0 /\ req'[c].version <= req[c].version
    BY <1>0, <1>3 DEF Ready, OtherReqs
  <2> QED
    BY <1>0, <1>1, <1>3, <2>1, FinishFields, ReleaseSafe
<1>4. CASE UpdateRow(c)
  <2>1. CASE FinishStateOp(s) /\ req' = [req EXCEPT ![c] = Ready] /\ UNCHANGED meta
    BY <1>3, <2>1
  <2>2. CASE /\ meta[s] # Absent /\ meta' = [meta EXCEPT ![s] = req[c].model]
             /\ Goto(c, "setModel") /\ UNCHANGED runtime
    <3>1. ManagerSame /\ <<req[c].pc, "setModel">> \in QuietMoves
      BY <1>1, <1>4, <2>2 DEF UpdateRow, ManagerSame, QuietMoves
    <3>2. /\ OtherReqs(c) /\ req'[c].pc = "setModel" /\ req'[c].session = s
          /\ req'[c].gen = req[c].gen /\ req'[c].create = req[c].create
          /\ req'[c].version = req[c].version
      BY <1>0, <2>2, GotoFields
    <3>3. Versions'
      BY <1>0, <3>1, <3>2 DEF IInv, Versions, OtherReqs, ManagerSame
    <3>4. \A x \in Sessions : meta[x] # Absent => meta'[x] # Absent
      <4>1. req[c].model # Absent
        BY <1>4, ConstantAssumption DEF UpdateRow, UpdateModels
      <4> QED
        BY <1>0, <2>2, <4>1
    <3>5. Rowed'
      <4>1. \A x \in Sessions : (Erased(x)' <=> Erased(x)) /\ (Usable(x)' => Usable(x))
        BY <1>0, <1>4, <3>1, <3>2 DEF Usable, Loaded, Erased, At, OtherReqs, ManagerSame, UpdateRow
      <4>2. \A x \in Sessions : meta[x] = Absent => meta'[x] = Absent
        BY <1>0, <2>2
      <4> QED
        BY <3>4, <4>1, <4>2 DEF IInv, Rowed
    <3>6. \A x \in unused : meta'[x] = meta[x]
      BY <1>0, <2>2
    <3> QED
      BY <1>0, <1>1, <3>1, <3>2, <3>3, <3>5, <3>6, QuietStep DEF TypeInv
  <2> QED
    BY <1>4, <2>1, <2>2 DEF UpdateRow
<1>5. CASE UpdateAgent(c)
  <2>1. req' = [req EXCEPT ![c] = Ready] /\ UNCHANGED meta
    BY <1>5 DEF UpdateAgent
  <2>3. /\ runtime'[s].gen = runtime[s].gen /\ runtime'[s].status = runtime[s].status
        /\ runtime'[s].clients = runtime[s].clients
        /\ runtime'[s].ops = runtime[s].ops - 1
        /\ \A x \in Sessions \ {s} : runtime'[x] = runtime[x]
    <3> DEFINE rt == [runtime[s] EXCEPT !.model = req[c].model, !.ops = @ - 1]
    <3>1. /\ rt.gen = runtime[s].gen /\ rt.status = runtime[s].status
          /\ rt.clients = runtime[s].clients /\ rt.ops = runtime[s].ops - 1
      <4>1. runtime[s] \in Runtimes
        BY <1>0
      <4> QED
        BY <4>1 DEF Runtimes
    <3>2. runtime' = [runtime EXCEPT ![s] = rt]
      BY <1>2, <1>5 DEF UpdateAgent
    <3> HIDE DEF rt, s
    <3> QED
      BY <1>0, <3>1, <3>2
  <2>4. /\ OtherReqs(c) /\ req'[c].pc = "ready" /\ req'[c].session = NoSession
        /\ ~req'[c].create /\ req'[c].gen = 0 /\ req'[c].version <= req[c].version
    BY <1>0, <2>1 DEF Ready, OtherReqs
  <2> QED
    BY <1>0, <1>1, <2>1, <2>3, <2>4, ReleaseSafe
<1> QED
  BY <1>4, <1>5

-----------------------------------------------------------------------------
(* Every step keeps the invariant                                          *)

\* A session is named by every request that goes on.
LEMMA ContinueNamed ==
  ASSUME TypeInv, NEW c \in Conns, Continue(c)
  PROVE  req[c].session \in Sessions
BY DEF TypeInv, Named, Continue, AttachRead, AttachGet, Materialize, AttachCheck,
       AttachInstall, AttachLoad, AttachCommit, CreateStore, CreateAbort, CreateUndo,
       DeleteGet, DeletePersisted, DropRuntime, Unmark, Settle, UpdateRow, UpdateAgent

LEMMA AttachSafe ==
  ASSUME IInv, TypeInv', Stays, NEW c \in Conns, NEW s \in Sessions, NEW active \in BOOLEAN,
         Attach(c, s, active)
  PROVE  IInv'
<1>0. /\ req \in [Conns -> Requests] /\ req[c].pc = "ready" /\ s \notin unused
      /\ req' \in [Conns -> Requests] /\ deleteVersion[s] \in Nat
  BY DEF IInv, TypeOK, TypeInv, Attach, Send
<1>1. /\ OtherReqs(c) /\ ManagerSame /\ UNCHANGED <<meta, unused>>
      /\ req'[c].pc = "get" /\ req'[c].session = s /\ ~req'[c].create
      /\ req'[c].gen = 0 /\ req'[c].version = deleteVersion[s]
  BY <1>0 DEF Attach, Send, Ready, OtherReqs, ManagerSame, mgrVars
<1>2. ~req[c].create
  BY <1>0 DEF IInv, CreateFlag, LatchPCs
<1>3. Generations' /\ Attachments'
  BY <1>1 DEF IInv, Generations, Attachments, ManagerSame, Stays
<1>12. \A x \in Sessions, d \in Conns : Holds(d, x)' <=> Holds(d, x)
  BY <1>0, <1>1 DEF Holds, OtherReqs, ManagerSame
<1>4. UnusedUntouched'
  BY <1>0, <1>1 DEF IInv, UnusedUntouched, OtherReqs, ManagerSame, TypeOK
<1>5. CreateFlag'
  BY <1>0, <1>1 DEF IInv, CreateFlag, OtherReqs, LatchPCs
<1>6. HoldsCurrent'
  <2>1. ASSUME NEW d \in Conns \ {c}
        PROVE  req'[d] = req[d] /\ (req[d].pc # "ready" => req[d].session \in Sessions)
    BY <1>1 DEF OtherReqs, IInv, Named
  <2> QED
    BY <1>1, <1>12, <2>1 DEF IInv, HoldsCurrent, HoldPCs, Stays
<1>7. HoldsCounted'
  <2>2. ASSUME NEW x \in Sessions PROVE CountOk(x)'
    BY <1>1, <1>12, CountKept, Counted DEF IInv, ManagerSame
  <2> QED
    BY <2>2 DEF HoldsCounted, CountOk
<1>8. Latch'
  BY <1>0, <1>1 DEF IInv, Latch, At, LatchPCs, HoldPCs, OtherReqs, ManagerSame
<1>9. DeleteMark'
  <2>1. \A x \in Sessions, d \in Conns :
          /\ At(d, x, ErasePCs)' <=> At(d, x, ErasePCs)
          /\ At(d, x, HoldPCs)' <=> At(d, x, HoldPCs)
    BY <1>0, <1>1 DEF At, ErasePCs, HoldPCs, OtherReqs
  <2> QED
    BY <1>1, <1>12, <2>1 DEF IInv, DeleteMark, TypeOK, ManagerSame
<1>10. Versions' /\ LoadIdle'
  BY <1>0, <1>1 DEF IInv, Versions, LoadIdle, OtherReqs, ManagerSame
<1>11. Rowed'
  <2>1. \A x \in Sessions : (Erased(x)' <=> Erased(x)) /\ (Usable(x)' => Usable(x))
    BY <1>0, <1>1 DEF Usable, Loaded, Erased, At, OtherReqs, ManagerSame
  <2> QED
    BY <1>1, <2>1 DEF IInv, Rowed
<1> QED
  BY <1>3, <1>4, <1>5, <1>6, <1>7, <1>8, <1>9, <1>10, <1>11 DEF IInv, TypeInv

LEMMA BeginRunSafe ==
  ASSUME IInv, TypeInv', Stays, NEW c \in Conns, BeginRun(c)
  PROVE  IInv'
<1> DEFINE s == attached[c]
<1>0. /\ req \in [Conns -> Requests] /\ s \in Sessions /\ req[c].pc = "ready"
      /\ runtime \in [Sessions -> Runtimes] /\ runtime[s].ops = 0
  BY DEF IInv, TypeOK, BeginRun, Send
<1>1. c \in runtime[s].clients /\ runtime[s].gen # 0
  BY <1>0 DEF IInv, Attachments, Generations, BeginRun, Loaded, Buried, Usable
<1>2. \A d \in Conns : req'[d] = req[d] \/ (req[d].pc = "ready" /\ req'[d] = Ready)
  BY <1>0 DEF BeginRun, Send
<1>3. /\ UNCHANGED <<meta, unused, objects, attached, creating, deleting, deleteVersion, crossed>>
      /\ \A x \in Sessions \ {s} : runtime'[x] = runtime[x]
      /\ runtime'[s].gen = runtime[s].gen /\ runtime'[s].clients = runtime[s].clients
      /\ runtime'[s].ops = runtime[s].ops
  BY <1>0 DEF BeginRun, Runtimes
<1> HIDE DEF s
<1> QED
  BY <1>0, <1>1, <1>2, <1>3, StatusSafe

LEMMA RunStepSafe ==
  ASSUME IInv, TypeInv', Stays, NEW s \in Sessions,
         FinishRun(s) \/ \E st \in BusyStatus : RunStatus(s, st)
  PROVE  IInv'
<1>0. runtime \in [Sessions -> Runtimes] /\ NoRuntime.status = "idle"
  BY DEF IInv, TypeOK, NoRuntime
<1>1. runtime[s].status # "idle"
  BY DEF FinishRun, RunStatus
<1>2. runtime[s].gen # 0
  BY <1>0, <1>1 DEF IInv, Generations
<1>3. /\ UNCHANGED <<meta, unused, objects, attached, creating, deleting, deleteVersion, crossed, req>>
      /\ \A x \in Sessions \ {s} : runtime'[x] = runtime[x]
      /\ runtime'[s].gen = runtime[s].gen /\ runtime'[s].clients = runtime[s].clients
      /\ runtime'[s].ops = runtime[s].ops
  BY <1>0 DEF FinishRun, RunStatus, Runtimes
<1> QED
  BY <1>1, <1>2, <1>3, StatusSafe

LEMMA SameSafe ==
  ASSUME IInv, TypeInv',
         UNCHANGED <<meta, unused, runtime, objects, attached, creating, deleting,
                     deleteVersion, crossed, req>>
  PROVE  IInv'
<1>1. /\ \A c \in Conns, s \in Sessions : Holds(c, s)' <=> Holds(c, s)
      /\ \A s \in Sessions : /\ Usable(s)' <=> Usable(s)
                             /\ Erased(s)' <=> Erased(s)
                             /\ Buried(s)' <=> Buried(s)
  BY DEF Holds, Usable, Loaded, Erased, At, Buried
<1>2. HoldsCounted'
  BY DEF IInv, HoldsCounted, Holds
<1>3. HoldsCurrent' /\ Attachments' /\ Rowed'
  <2>1. \A c \in Conns : req[c].pc # "ready" => req[c].session \in Sessions
    BY DEF IInv, Named
  <2> QED
    BY <1>1, <2>1 DEF IInv, HoldsCurrent, HoldPCs, Attachments, Rowed
<1>4. DeleteMark'
  <2>1. deleting \subseteq Sessions
    BY DEF IInv, TypeOK
  <2> QED
    BY <1>1, <2>1 DEF IInv, DeleteMark, At
<1> QED
  BY <1>2, <1>3, <1>4
     DEF IInv, TypeInv, Generations, UnusedUntouched, CreateFlag, Latch, Versions, LoadIdle, At

LEMMA UnloadSafe ==
  ASSUME IInv, TypeInv', Stays, NEW t \in timers, UnloadFires(t)
  PROVE  IInv'
<1> DEFINE s == t.session
<1>0. s \in Sessions /\ CountOk(s)
  BY Counted DEF IInv, TypeOK, Timers
<1>1. UNCHANGED <<meta, unused, objects, attached, creating, deleting, deleteVersion, crossed, req>>
  BY DEF UnloadFires
<1>2. CASE UNCHANGED runtime
  BY <1>1, <1>2, SameSafe
<1>3. CASE RuntimeCanUnload(s, runtime[s]) /\ runtime' = [runtime EXCEPT ![s] = NoRuntime]
  <2>1. \A d \in Conns : ~Holds(d, s)
    BY <1>0, <1>3, NoHolder DEF RuntimeCanUnload
  <2>3. runtime[s].clients = {}
    BY <1>3 DEF RuntimeCanUnload
  <2>4. PICK c \in Conns : TRUE
    BY ConstantAssumption
  <2> QED
    BY <1>0, <1>1, <1>3, <2>1, <2>3, <2>4, GoneSafe DEF OtherReqs
<1> QED
  BY <1>2, <1>3 DEF UnloadFires

LEMMA UpdateModelsStep ==
  ASSUME TypeInv, UpdateModels, [Next]_vars
  PROVE  UpdateModels'
<1>0. req \in [Conns -> Requests]
  BY DEF TypeInv, TypeOK
<1>1. Ready.pc = "ready" /\ \A r \in Requests : AttachFailed(r).pc \in {"ready", "abort"}
  BY AttachFailedType DEF Ready
<1>2. ASSUME NEW c \in Conns, NEW r, req' = [req EXCEPT ![c] = r], r.pc # "update"
      PROVE  UpdateModels'
  BY <1>0, <1>2 DEF UpdateModels
<1>3. ASSUME NEW c \in Conns, NEW p, Goto(c, p), p # "update" PROVE UpdateModels'
  BY <1>0, <1>3 DEF Goto, UpdateModels, Requests
<1>4. ASSUME NEW c \in Conns, Reject(c) PROVE UpdateModels'
  BY <1>0, <1>1, <1>2, <1>4 DEF Reject
<1>5. ASSUME NEW c \in Conns, NEW r, Send(c, r), r.pc # "update" PROVE UpdateModels'
  BY <1>2, <1>5 DEF Send
<1>6. ASSUME NEW c \in Conns, Request(c) PROVE UpdateModels'
  <2>1. ASSUME NEW s \in Sessions, NEW active \in BOOLEAN, Attach(c, s, active)
        PROVE  UpdateModels'
    BY <1>5, <2>1 DEF Attach, Ready
  <2>2. ASSUME NEW s \in Sessions, Create(c, s) \/ Delete(c, s) PROVE UpdateModels'
    BY <1>5, <2>2 DEF Create, Delete, Ready
  <2>3. ASSUME NEW m \in Models, Update(c, m) PROVE UpdateModels'
    <3>1. req'[c].model = m /\ \A d \in Conns \ {c} : req'[d] = req[d]
      BY <1>0, <2>3 DEF Update, Send, Ready
    <3> QED
      BY <3>1 DEF UpdateModels
  <2>4. CASE Detach(c)
    <3> DEFINE r == IF Orphaned(c, Left(c))
                      THEN [Ready EXCEPT !.pc = "settle", !.session = attached[c]]
                      ELSE Ready
    <3>1. Send(c, r) /\ r.pc # "update"
      BY <2>4 DEF Detach, Ready
    <3> HIDE DEF r
    <3> QED
      BY <1>5, <3>1
  <2>5. CASE BeginRun(c)
    BY <1>1, <1>5, <2>5 DEF BeginRun
  <2> QED
    BY <1>6, <2>1, <2>2, <2>3, <2>4, <2>5 DEF Request
<1>7. ASSUME NEW c \in Conns, Continue(c) PROVE UpdateModels'
  <2>1. CASE AttachRead(c)
    BY <1>0, <2>1 DEF AttachRead, UpdateModels, Requests
  <2>2. CASE AttachGet(c)
    BY <1>0, <1>4, <2>2 DEF AttachGet, UpdateModels, Requests
  <2>3. CASE Materialize(c)
    BY <1>0, <1>4, <2>3 DEF Materialize, UpdateModels, Requests
  <2>4. ASSUME NEW s, NEW rt, HoldRuntime(c, s, rt) PROVE UpdateModels'
    BY <1>0, <2>4 DEF HoldRuntime, UpdateModels, Requests
  <2>5. CASE AttachCheck(c) \/ AttachInstall(c)
    BY <1>3, <1>4, <2>4, <2>5 DEF AttachCheck, AttachInstall
  <2>6. CASE AttachLoad(c)
    BY <1>0, <1>1, <1>2, <1>3, <2>6 DEF AttachLoad
  <2>7. CASE AttachCommit(c)
    <3> DEFINE s == req[c].session
               moves == attached[c] \notin {NoSession, s}
               rts == IF moves THEN Left(c) ELSE runtime
               r == IF moves /\ Orphaned(c, rts)
                      THEN [Ready EXCEPT !.pc = "settle", !.session = attached[c]]
                      ELSE Ready
    <3>1. r.pc # "update"
      BY DEF Ready
    <3>2. req' = [req EXCEPT ![c] = AttachFailed(@)] \/ req' = [req EXCEPT ![c] = r]
      BY <2>7 DEF AttachCommit
    <3> HIDE DEF r
    <3> QED
      BY <1>0, <1>1, <1>2, <3>1, <3>2
  <2>8. CASE CreateStore(c) \/ CreateAbort(c) \/ CreateUndo(c)
    BY <1>1, <1>2, <1>3, <2>8 DEF CreateStore, CreateAbort, CreateUndo
  <2>9. CASE DeleteGet(c) \/ DeletePersisted(c) \/ DropRuntime(c) \/ Unmark(c)
    BY <1>1, <1>2, <1>3, <2>9 DEF DeleteGet, DeletePersisted, DropRuntime, Unmark, DeleteFailed
  <2>10. CASE Settle(c) \/ UpdateRow(c) \/ UpdateAgent(c)
    BY <1>1, <1>2, <1>3, <2>10 DEF Settle, UpdateRow, UpdateAgent
  <2> QED
    BY <1>7, <2>1, <2>2, <2>3, <2>5, <2>6, <2>7, <2>8, <2>9, <2>10 DEF Continue
<1>8. ASSUME NEW s \in Sessions, FinishRun(s) \/ \E st \in BusyStatus : RunStatus(s, st)
      PROVE  UpdateModels'
  BY <1>8 DEF FinishRun, RunStatus, UpdateModels
<1>9. ASSUME NEW t \in timers, UnloadFires(t) PROVE UpdateModels'
  BY <1>9 DEF UnloadFires, UpdateModels
<1>10. CASE UNCHANGED vars
  BY <1>10 DEF vars, UpdateModels
<1> QED
  BY <1>6, <1>7, <1>8, <1>9, <1>10 DEF Next

\* A session that two requests erased at once stays without row and runtime.
LEMMA BuriedStep ==
  ASSUME IInv, [Next]_vars
  PROVE  Stays
<1> SUFFICES ASSUME NEW s \in Sessions, Buried(s) PROVE Buried(s)'
  BY DEF Stays
<1> DEFINE Reviving == {"legacy", "check", "install"}
           Kept == s \in crossed' /\ s \notin unused' /\ meta'[s] = Absent
                     /\ runtime'[s] = NoRuntime
<1>0. /\ s \in crossed /\ s \notin unused /\ meta[s] = Absent /\ runtime[s] = NoRuntime
      /\ runtime \in [Sessions -> Runtimes] /\ req \in [Conns -> Requests]
      /\ meta \in [Sessions -> Rows] /\ deleteVersion \in [Sessions -> Nat] /\ TypeOK
      /\ \A c \in Conns : At(c, s, Reviving) => req[c].version # deleteVersion[s]
  BY DEF Buried, Usable, Loaded, IInv, TypeOK
<1>1. /\ NoRuntime.gen = 0 /\ NoRuntime.ops = 0 /\ NoRuntime.status = "idle"
      /\ NoRuntime.clients = {} /\ Ready.session \notin Sessions
      /\ \A r \in Requests : AttachFailed(r).pc \notin Reviving
  BY ConstantAssumption, FailedFields DEF NoRuntime, Ready
<1>2. ASSUME Kept, deleteVersion'[s] \in {deleteVersion[s], deleteVersion[s] + 1},
             NEW c \in Conns, OtherReqs(c),
             At(c, s, Reviving)' => At(c, s, Reviving) /\ req'[c].version = req[c].version
      PROVE  Buried(s)'
  <2>1. ASSUME NEW d \in Conns, At(d, s, Reviving)' PROVE req'[d].version # deleteVersion'[s]
    <3>1. At(d, s, Reviving) /\ req'[d].version = req[d].version
      BY <1>2, <2>1 DEF At, OtherReqs
    <3>2. req[d].version <= deleteVersion[s]
      BY <3>1 DEF At, IInv, Versions
    <3>3. req[d].version \in Nat /\ deleteVersion[s] \in Nat
      BY <1>0 DEF Requests
    <3> QED
      BY <1>0, <1>2, <3>1, <3>2, <3>3
  <2> QED
    BY <1>2, <2>1 DEF Buried, Usable, Loaded
<1>3. ASSUME NEW x \in Sessions, FinishStateOp(x) PROVE runtime'[s] = NoRuntime
  BY <1>0, <1>1, <1>3 DEF FinishStateOp
<1>4. ASSUME NEW c \in Conns PROVE Left(c)[s] = NoRuntime
  <2>1. [NoRuntime EXCEPT !.clients = @ \ {c}] = NoRuntime
    BY DEF NoRuntime
  <2> QED
    BY <1>0, <2>1 DEF Left
<1>5. ASSUME NEW c \in Conns, Request(c) PROVE Buried(s)'
  <2>1. OtherReqs(c) /\ ~At(c, s, Reviving)'
    <3>1. ASSUME NEW r, Send(c, r), r.pc \notin Reviving PROVE OtherReqs(c) /\ ~At(c, s, Reviving)'
      BY <1>0, <3>1 DEF Send, OtherReqs, At
    <3>2. CASE Detach(c)
      <4> DEFINE r == IF Orphaned(c, Left(c))
                        THEN [Ready EXCEPT !.pc = "settle", !.session = attached[c]]
                        ELSE Ready
      <4>1. Send(c, r) /\ r.pc \notin Reviving
        BY <3>2 DEF Detach, Ready
      <4> HIDE DEF r
      <4> QED
        BY <3>1, <4>1
    <3>3. CASE BeginRun(c)
      BY <3>1, <3>3 DEF BeginRun, Ready
    <3>4. CASE \E x \in Sessions, active \in BOOLEAN : Attach(c, x, active)
      BY <3>1, <3>4 DEF Attach, Ready
    <3>5. CASE \E x \in Sessions : Create(c, x)
      BY <3>1, <3>5 DEF Create, Ready
    <3>6. CASE \E x \in Sessions : Delete(c, x)
      BY <3>1, <3>6 DEF Delete, Ready
    <3>7. CASE \E m \in Models : Update(c, m)
      BY <3>1, <3>7 DEF Update, Ready
    <3> QED
      BY <1>5, <3>2, <3>3, <3>4, <3>5, <3>6, <3>7 DEF Request
  <2>2. UNCHANGED <<meta, unused, crossed, deleteVersion>>
    BY <1>5 DEF Request, Attach, Create, Delete, Update, Detach, BeginRun, mgrVars
  <2>3. runtime'[s] = NoRuntime
    BY <1>0, <1>4, <1>5
       DEF Request, Attach, Create, Delete, Update, Detach, BeginRun, Loaded, mgrVars
  <2> QED
    BY <1>0, <1>2, <2>1, <2>2, <2>3
<1>6. ASSUME NEW c \in Conns, Continue(c) PROVE Buried(s)'
  <2> DEFINE x == req[c].session
  <2>0. x \in Sessions /\ req[c] \in Requests
    BY <1>0, <1>6, ContinueNamed DEF IInv, TypeInv
  <2>1. CASE Reject(c)
    BY <1>0, <1>1, <1>2, <2>0, <2>1 DEF Reject, OtherReqs, At, mgrVars
  <2>2. ASSUME NEW rt, HoldRuntime(c, x, rt), x # s PROVE Buried(s)'
    BY <1>0, <1>2, <2>0, <2>2 DEF HoldRuntime, OtherReqs, At, Requests
  <2>3. ASSUME NEW p, Goto(c, p), Kept, deleteVersion'[s] \in {deleteVersion[s], deleteVersion[s] + 1},
               p \in Reviving => x # s \/ req[c].pc \in Reviving
        PROVE  Buried(s)'
    BY <1>0, <1>2, <2>3, GotoFields DEF At
  <2>4. ASSUME NEW r, req' = [req EXCEPT ![c] = r], r.pc \notin Reviving, Kept, UNCHANGED deleteVersion
        PROVE  Buried(s)'
    BY <1>0, <1>2, <2>4 DEF At, OtherReqs
  <2>5. CASE AttachRead(c) \/ AttachGet(c) \/ Materialize(c)
    BY <1>0, <1>2, <2>0, <2>1, <2>5
       DEF AttachRead, AttachGet, Materialize, OtherReqs, At, Requests, mgrVars
  <2>6. CASE AttachCheck(c)
    BY <1>0, <2>0, <2>1, <2>2, <2>3, <2>6 DEF AttachCheck, Loaded, mgrVars
  <2>7. CASE AttachInstall(c)
    <3>1. ~Reject(c) => x # s
      BY <1>0, <2>7 DEF AttachInstall, DeletedSince, At
    <3> QED
      BY <2>0, <2>1, <2>2, <2>7, <3>1 DEF AttachInstall
  <2>8. CASE AttachLoad(c)
    BY <1>0, <1>1, <1>3, <2>0, <2>3, <2>4, <2>8 DEF AttachLoad, mgrVars
  <2>9. CASE AttachCommit(c)
    <3> DEFINE moves == attached[c] \notin {NoSession, x}
               rts == IF moves THEN Left(c) ELSE runtime
               r == IF moves /\ Orphaned(c, rts)
                      THEN [Ready EXCEPT !.pc = "settle", !.session = attached[c]]
                      ELSE Ready
    <3>0. rts \in [Sessions -> Runtimes]
      BY <1>0, LeftType
    <3>1. r.pc \notin Reviving /\ rts[s] = NoRuntime
      BY <1>0, <1>4 DEF Ready
    <3>2. req[c].gen # 0 /\ UNCHANGED <<meta, unused, deleteVersion, crossed>>
      BY <2>9 DEF AttachCommit, IInv, HoldsCurrent, HoldPCs
    <3>3. \/ (UNCHANGED runtime \/ FinishStateOp(x)) /\ req' = [req EXCEPT ![c] = AttachFailed(@)]
          \/ /\ runtime[x].gen = req[c].gen /\ req' = [req EXCEPT ![c] = r]
             /\ runtime' = [rts EXCEPT ![x].clients = @ \cup {c},
                                       ![x].ops = IF @ > 0 THEN @ - 1 ELSE @]
      BY <2>9 DEF AttachCommit
    <3> HIDE DEF r, rts
    <3>4. CASE req' = [req EXCEPT ![c] = AttachFailed(@)] /\ (UNCHANGED runtime \/ FinishStateOp(x))
      BY <1>0, <1>1, <1>3, <2>0, <2>4, <3>2, <3>4
    <3>5. CASE /\ runtime[x].gen = req[c].gen /\ req' = [req EXCEPT ![c] = r]
               /\ runtime' = [rts EXCEPT ![x].clients = @ \cup {c},
                                         ![x].ops = IF @ > 0 THEN @ - 1 ELSE @]
      <4>1. x # s
        BY <1>0, <1>1, <3>2, <3>5
      <4>2. runtime'[s] = rts[s]
        BY <3>0, <3>5, <4>1, <2>0
      <4> QED
        BY <1>0, <2>4, <3>1, <3>2, <3>5, <4>2
    <3> QED
      BY <3>3, <3>4, <3>5
  <2>10. CASE CreateStore(c) \/ CreateAbort(c) \/ CreateUndo(c)
    <3>1. req[c].pc = "create" => x # s
      BY <1>0 DEF IInv, UnusedUntouched
    <3>2. Ready.pc \notin Reviving
      BY DEF Ready
    <3> QED
      BY <1>0, <2>0, <2>3, <2>4, <2>10, <3>1, <3>2 DEF CreateStore, CreateAbort, CreateUndo, mgrVars
  <2>11. CASE DeleteGet(c) \/ DeletePersisted(c)
    BY <1>0, <1>3, <2>0, <2>3, <2>11 DEF DeleteGet, DeletePersisted, DeleteFailed, mgrVars
  <2>12. CASE DropRuntime(c)
    BY <1>0, <2>0, <2>3, <2>12 DEF DropRuntime
  <2>13. CASE Unmark(c) \/ Settle(c)
    BY <1>0, <2>4, <2>13 DEF Unmark, Settle, Ready
  <2>14. CASE UpdateRow(c)
    <3>1. Ready.pc \notin Reviving
      BY DEF Ready
    <3> QED
      BY <1>0, <1>3, <2>0, <2>3, <2>4, <2>14, <3>1 DEF UpdateRow
  <2>15. CASE UpdateAgent(c)
    <3>1. Ready.pc \notin Reviving
      BY DEF Ready
    <3>2. runtime'[s] = NoRuntime
      BY <1>0, <1>1, <1>3, <2>0, <2>15 DEF UpdateAgent
    <3> QED
      BY <1>0, <2>4, <2>15, <3>1, <3>2 DEF UpdateAgent
  <2> QED
    BY <1>6, <2>5, <2>6, <2>7, <2>8, <2>9, <2>10, <2>11, <2>12, <2>13, <2>14, <2>15 DEF Continue
<1>7. ASSUME UNCHANGED <<meta, unused, deleteVersion, crossed, req>>, runtime'[s] = NoRuntime
      PROVE  Buried(s)'
  BY <1>0, <1>7 DEF Buried, Usable, Loaded, At
<1>8. ASSUME NEW x \in Sessions, FinishRun(x) \/ \E st \in BusyStatus : RunStatus(x, st)
      PROVE  Buried(s)'
  BY <1>0, <1>1, <1>7, <1>8 DEF FinishRun, RunStatus
<1>9. ASSUME NEW t \in timers, UnloadFires(t) PROVE Buried(s)'
  BY <1>0, <1>7, <1>9 DEF UnloadFires
<1>10. CASE UNCHANGED vars
  BY <1>0, <1>7, <1>10 DEF vars, mgrVars
<1> QED
  BY <1>5, <1>6, <1>8, <1>9, <1>10 DEF Next

LEMMA SafeInit == Init => IInv /\ UpdateModels
<1> SUFFICES ASSUME Init PROVE IInv /\ UpdateModels
  OBVIOUS
<1>1. /\ \A s \in Sessions : /\ runtime[s] = NoRuntime /\ objects[s] = 0
                             /\ creating[s] = NoConn /\ s \notin deleting
                             /\ s \notin crossed /\ (meta[s] = Absent <=> s \in unused)
      /\ \A c \in Conns : req[c] = Ready /\ attached[c] = NoSession
      /\ unused \subseteq Sessions /\ NoConn \notin Conns /\ NoSession \notin Sessions
      /\ deleting = {}
  BY ConstantAssumption DEF Init
<1>2. /\ NoRuntime.gen = 0 /\ NoRuntime.ops = 0 /\ NoRuntime.clients = {}
      /\ NoRuntime.status = "idle"
      /\ Ready.pc = "ready" /\ Ready.session = NoSession /\ ~Ready.create
  BY DEF NoRuntime, Ready
<1>3. TypeOK /\ Named
  BY TypeInit DEF TypeInv
<1>4. Generations /\ UnusedUntouched /\ CreateFlag /\ HoldsCurrent /\ Versions
  BY <1>1, <1>2 DEF Generations, UnusedUntouched, CreateFlag, HoldsCurrent, Versions,
                    HoldPCs, LatchPCs
<1>5. HoldsCounted
  <2>1. ASSUME NEW s \in Sessions PROVE CountOk(s)
    <3>1. {c \in Conns : Holds(c, s)} = {}
      BY <1>1, <1>2 DEF Holds
    <3> QED
      BY <1>1, <1>2, <3>1, FS_EmptySet DEF CountOk
  <2> QED
    BY <2>1, Counted
<1>6. Latch /\ DeleteMark
  <2>1. \A c \in Conns, s \in Sessions : ~At(c, s, LatchPCs \cup HoldPCs \cup ErasePCs \cup {"install"})
    BY <1>1, <1>2 DEF At
  <2>2. \A c \in Conns, s \in Sessions : ~At(c, s, LatchPCs) /\ ~At(c, s, ErasePCs)
    BY <2>1 DEF At
  <2>3. Latch
    BY <1>1, <2>2 DEF Latch
  <2> QED
    BY <1>1, <2>2, <2>3 DEF DeleteMark
<1>7. Rowed
  <2>1. ASSUME NEW s \in Sessions PROVE ~Usable(s) /\ ~Erased(s)
    BY <1>1, <1>2 DEF Usable, Erased, Loaded, At
  <2> QED
    BY <2>1 DEF Rowed
<1>8. Attachments /\ LoadIdle /\ UpdateModels
  BY <1>1, <1>2 DEF Attachments, LoadIdle, UpdateModels
<1> QED
  BY <1>3, <1>4, <1>5, <1>6, <1>7, <1>8 DEF IInv

\* The invariant is inductive.
THEOREM SafeStep ==
  ASSUME IInv, UpdateModels, [Next]_vars
  PROVE  IInv' /\ UpdateModels'
<1>1. TypeInv /\ TypeInv' /\ UpdateModels' /\ Stays
  BY TypeStep, UpdateModelsStep, BuriedStep DEF IInv, TypeInv
<1>2. ASSUME NEW c \in Conns, Request(c) PROVE IInv'
  BY <1>1, <1>2, AttachSafe, CreateSafe, DeleteSafe, UpdateSafe, DetachSafe, BeginRunSafe
     DEF Request
<1>3. ASSUME NEW c \in Conns, Continue(c) PROVE IInv'
  <2>1. req[c].session \in Sessions
    BY <1>1, <1>3, ContinueNamed
  <2> QED
    BY <1>1, <1>3, <2>1, AttachReadSafe, AttachCheckSafe, AttachInstallSafe, AttachLoadSafe,
       AttachCommitSafe, CreateStepSafe, DeleteStepSafe, SettleSafe, UpdateStepSafe
       DEF Continue
<1>4. ASSUME NEW s \in Sessions, FinishRun(s) \/ \E st \in BusyStatus : RunStatus(s, st)
      PROVE  IInv'
  BY <1>1, <1>4, RunStepSafe
<1>5. ASSUME NEW t \in timers, UnloadFires(t) PROVE IInv'
  BY <1>1, <1>5, UnloadSafe
<1>6. CASE UNCHANGED vars
  <2>1. UNCHANGED <<meta, unused, runtime, objects, attached, creating, deleting,
                    deleteVersion, crossed, req>>
    BY <1>6 DEF vars, mgrVars
  <2> QED
    BY <1>1, <2>1, SameSafe
<1> QED
  BY <1>1, <1>2, <1>3, <1>4, <1>5, <1>6 DEF Next

-----------------------------------------------------------------------------
(* The properties                                                          *)

\* The strengthened invariant holds in every reachable state.
THEOREM Safe == Spec => [](IInv /\ UpdateModels)
<1>1. IInv /\ UpdateModels /\ [Next]_vars => (IInv /\ UpdateModels)'
  BY SafeStep
<1> QED
  BY <1>1, SafeInit, PTL DEF Spec

\* The connections and the runtimes never disagree about who is attached,
\* but for a session that two requests erased at once.
THEOREM MembershipCorrect == Spec => []Membership
<1>1. IInv => Membership
  BY DEF IInv, Attachments, Membership, Buried, Usable, Gone
<1> QED
  BY <1>1, Safe, PTL

\* No state operation leaks, and none is given back twice.
THEOREM HoldsCountedCorrect == Spec => []HoldsCounted
<1>1. IInv => HoldsCounted
  BY DEF IInv
<1> QED
  BY <1>1, Safe, PTL

\* Nobody runs on the working memory while an attach reloads it.
THEOREM LoadCorrect == Spec => []LoadIsExclusive
<1>1. IInv => LoadIsExclusive
  BY DEF IInv, HoldsCurrent, HoldPCs, Holds, Buried, LoadIdle, LoadIsExclusive
<1> QED
  BY <1>1, Safe, PTL

\* A deleted session is not brought back by a row read before the delete.
THEOREM NoStaleRevival == Spec => []NoRuntimeWithoutRow
<1>1. IInv => NoRuntimeWithoutRow
  BY DEF IInv, Rowed, Usable, NoRuntimeWithoutRow
<1> QED
  BY <1>1, Safe, PTL

\* The steps that keep the generation of every runtime.
LEMMA FinishKeeps ==
  ASSUME TypeOK, NEW s \in Sessions, FinishStateOp(s)
  PROVE  \A x \in Sessions : runtime'[x].gen = runtime[x].gen
<1>1. runtime \in [Sessions -> Runtimes]
  BY DEF TypeOK
<1> QED
  BY <1>1 DEF FinishStateOp, Runtimes

LEMMA UsedStep ==
  ASSUME IInv, [Next]_vars, NEW s \in Sessions,
         runtime[s].clients # {} \/ runtime[s].status # "idle"
  PROVE  runtime'[s].gen = runtime[s].gen \/ (s \in crossed /\ meta[s] = Absent)
<1>0. /\ runtime \in [Sessions -> Runtimes] /\ runtime[s] \in Runtimes /\ TypeOK
      /\ s \notin deleting /\ Loaded(s)
  <2>1. NoRuntime.clients = {} /\ NoRuntime.status = "idle"
    BY DEF NoRuntime
  <2> QED
    BY <2>1 DEF IInv, TypeOK, DeleteMark, Loaded
<1>1. ASSUME NEW c \in Conns, Request(c) PROVE runtime'[s].gen = runtime[s].gen
  <2>1. CASE Detach(c)
    BY <2>1, LeftFields DEF Detach
  <2>2. CASE BeginRun(c)
    BY <1>0, <2>2 DEF BeginRun, Runtimes
  <2>3. ASSUME NEW x \in Sessions, NEW active \in BOOLEAN,
               Attach(c, x, active) \/ Create(c, x)
        PROVE  runtime'[s].gen = runtime[s].gen
    BY <2>3 DEF Attach, Create, mgrVars
  <2>4. ASSUME NEW x \in Sessions, Delete(c, x) PROVE runtime'[s].gen = runtime[s].gen
    BY <1>0, <2>4 DEF Delete, Runtimes
  <2>5. ASSUME NEW m \in Models, Update(c, m) PROVE runtime'[s].gen = runtime[s].gen
    BY <1>0, <2>5 DEF Update, Runtimes
  <2> QED
    BY <1>1, <2>1, <2>2, <2>3, <2>4, <2>5 DEF Request
<1>2. ASSUME NEW c \in Conns, Continue(c)
      PROVE  runtime'[s].gen = runtime[s].gen \/ (s \in crossed /\ meta[s] = Absent)
  <2>0. req[c].session \in Sessions
    BY <1>2, ContinueNamed DEF IInv, TypeInv
  <2>1. CASE UNCHANGED runtime
    BY <2>1
  <2>2. CASE FinishStateOp(req[c].session)
    BY <1>0, <2>0, <2>2, FinishKeeps
  <2>3. ASSUME NEW rt \in Runtimes, HoldRuntime(c, req[c].session, rt),
               req[c].session = s => rt = runtime[s]
        PROVE  runtime'[s].gen = runtime[s].gen
    BY <1>0, <2>0, <2>3 DEF HoldRuntime, Runtimes
  <2>4. CASE AttachRead(c) \/ AttachGet(c) \/ Materialize(c)
    BY <2>1, <2>4 DEF AttachRead, AttachGet, Materialize, Reject, mgrVars
  <2>5. CASE AttachCheck(c)
    BY <1>0, <2>0, <2>1, <2>3, <2>5 DEF AttachCheck, Reject, mgrVars
  <2>6. CASE AttachInstall(c)
    <3> DEFINE x == req[c].session
               candidate == [NoRuntime EXCEPT !.gen = objects[x] + 1, !.model = req[c].model]
    <3>1. candidate \in Runtimes
      <4>1. req[c].model \in Rows /\ objects[x] + 1 \in Nat
        BY <1>0, <2>0 DEF TypeOK, Requests
      <4> QED
        BY <4>1, CandidateType
    <3>2. \/ UNCHANGED runtime
          \/ Loaded(x) /\ HoldRuntime(c, x, runtime[x])
          \/ ~Loaded(x) /\ HoldRuntime(c, x, candidate)
      BY <2>6 DEF AttachInstall, Reject, mgrVars
    <3> HIDE DEF candidate
    <3> QED
      BY <1>0, <2>0, <2>1, <2>3, <3>1, <3>2
  <2>7. CASE AttachLoad(c)
    BY <2>1, <2>2, <2>7 DEF AttachLoad, mgrVars
  <2>8. CASE AttachCommit(c)
    <3> DEFINE x == req[c].session
               moves == attached[c] \notin {NoSession, x}
               rts == IF moves THEN Left(c) ELSE runtime
    <3>1. rts \in [Sessions -> Runtimes] /\ rts[s].gen = runtime[s].gen
      BY <1>0, LeftType, LeftFields
    <3>2. \/ UNCHANGED runtime \/ FinishStateOp(x)
          \/ runtime' = [rts EXCEPT ![x].clients = @ \cup {c},
                                    ![x].ops = IF @ > 0 THEN @ - 1 ELSE @]
      BY <2>8 DEF AttachCommit
    <3> HIDE DEF rts
    <3>3. CASE runtime' = [rts EXCEPT ![x].clients = @ \cup {c},
                                      ![x].ops = IF @ > 0 THEN @ - 1 ELSE @]
      BY <2>0, <3>1, <3>3 DEF Runtimes
    <3> QED
      BY <2>1, <2>2, <3>2, <3>3
  <2>9. CASE CreateStore(c) \/ CreateAbort(c) \/ CreateUndo(c) \/ Unmark(c) \/ Settle(c)
    BY <2>9 DEF CreateStore, CreateAbort, CreateUndo, Unmark, Settle, mgrVars
  <2>10. CASE DeleteGet(c) \/ DeletePersisted(c)
    BY <2>1, <2>2, <2>10 DEF DeleteGet, DeletePersisted, DeleteFailed, mgrVars
  <2>11. CASE DropRuntime(c)
    <3>1. req[c].session # s \/ (s \in crossed /\ meta[s] = Absent)
      BY <1>0, <2>11 DEF DropRuntime, IInv, DeleteMark, Rowed, Erased, At, ErasePCs
    <3> QED
      BY <1>0, <2>11, <3>1 DEF DropRuntime
  <2>12. CASE UpdateRow(c)
    BY <2>1, <2>2, <2>12 DEF UpdateRow
  <2>13. CASE UpdateAgent(c)
    <3> DEFINE x == req[c].session
               rt == [runtime[x] EXCEPT !.model = req[c].model, !.ops = @ - 1]
    <3>1. rt.gen = runtime[x].gen
      <4>1. runtime[x] \in Runtimes
        BY <1>0, <2>0
      <4> QED
        BY <4>1 DEF Runtimes
    <3>2. FinishStateOp(x) \/ runtime' = [runtime EXCEPT ![x] = rt]
      BY <2>13 DEF UpdateAgent
    <3> HIDE DEF rt
    <3> QED
      BY <1>0, <2>0, <2>2, <3>1, <3>2
  <2> QED
    BY <1>2, <2>4, <2>5, <2>6, <2>7, <2>8, <2>9, <2>10, <2>11, <2>12, <2>13 DEF Continue
<1>3. ASSUME NEW x \in Sessions, FinishRun(x) \/ \E st \in BusyStatus : RunStatus(x, st)
      PROVE  runtime'[s].gen = runtime[s].gen
  BY <1>0, <1>3 DEF FinishRun, RunStatus, Runtimes
<1>4. ASSUME NEW t \in timers, UnloadFires(t) PROVE runtime'[s].gen = runtime[s].gen
  BY <1>0, <1>4 DEF UnloadFires, RuntimeCanUnload
<1>5. CASE UNCHANGED vars
  BY <1>5 DEF vars, mgrVars
<1> QED
  BY <1>1, <1>2, <1>3, <1>4, <1>5 DEF Next

\* Neither a timer nor a delete takes a runtime away from a client or a run,
\* but for a session that two requests erased at once.
THEOREM UsedRuntimeStaysCorrect ==
  Spec => UsedRuntimeStays
<1>1. IInv /\ [Next]_vars =>
        [\A s \in Sessions : runtime[s].clients # {} \/ runtime[s].status # "idle"
           => runtime'[s].gen = runtime[s].gen \/ (s \in crossed /\ meta[s] = Absent)]_vars
  BY UsedStep
<1>2. Spec => []IInv /\ [][Next]_vars
  BY Safe, PTL DEF Spec
<1> QED
  BY <1>1, <1>2, PTL DEF UsedRuntimeStays

-----------------------------------------------------------------------------
(* The screen: the inductive invariant.                                    *)

\* What ShowsTheEnd excepts.
IsBusy == \E id \in Ids : sent[id].state = "busy"
Excused ==
  \/ srv.late \/ IsBusy
  \/ \E n \in tui.missed : n.type \in {"end", "compactError", "idle"} /\ n.of # 0

SendComes == \E id \in Ids : Asked("send", id)
EndTold == \E n \in Wire : n.type = "end"
ErrorTold == \E n \in Wire : n.type = "compactError"
WillClose == srv.cancelling /\ (srv.mode = "running" \/ (srv.mode = "over" /\ ~srv.told))
StopComes == srv.mode = "running" \/ EndTold \/ ErrorTold

\* A run that was told of is executing, or its end or its failure is told after it; a
\* cancel that was told of, likewise.
RunsStop == \A n \in Wire :
  /\ n.type = "running" => \/ srv.mode = "running" /\ srv.run = n.of
                           \/ Note("end", n.of) \in Wire \/ Note("compactError", n.of) \in Wire
  /\ n.type = "cancelling" => (WillClose /\ srv.run = n.of) \/ Note("end", n.of) \in Wire

\* What makes the screen spin is followed by what stops it.
SpinStops ==
  /\ tui.cancelling => Asked("cancel", 0) \/ No("cancel", 0) \/ WillClose \/ EndTold
  /\ tui.loading => SendComes \/ WillClose \/ StopComes
  /\ tui.at # "open" => StopComes

Stops == Excused \/ (RunsStop /\ SpinStops)

\* After the failure of a compaction its run is not told of any more.
ErrorIsLast ==
  /\ \A i, j \in DOMAIN wire :
       i < j /\ wire[i].type = "compactError" /\ wire[j].type = "running" => wire[i].of < wire[j].of
  /\ \A n \in Wire : n.type = "compactError" => n.of < srv.run \/ srv.mode # "running"

\* The runs that the client has not reached are told, one by one.
RunsAreTold ==
  /\ \A n \in Wire : n.type = "running" => \A r \in n.of + 1 .. srv.run : Note("running", r) \in Wire
  /\ tui.active # 0 => \A r \in tui.active + 1 .. srv.run : Note("running", r) \in Wire

\* Another run is coming, and clears the list.
Coming ==
  \/ SendComes \/ IsBusy
  \/ \E n \in Wire : n.type = "running" /\ tui.active < n.of /\ tui.completed < n.of

\* What is listed is about to be decided, and told.
WillBeTold(id) ==
  \/ sent[id].state = "queued"
  \/ sent[id].state = "applied" /\ Note("applied", id) \in Wire \cup tui.missed
  \/ sent[id].state = "rejected" /\ Note("rejected", id) \in Wire \cup tui.missed
WillLeave(id) == WillBeTold(id) \/ (sent[id].state = "removed" /\ Removal(id))
ListClears ==
  /\ tui.at = "open" => \A id \in tui.pending : ~Outdated(tui, sent[id].run) /\ (WillLeave(id) \/ Coming)
  /\ \A x \in Snapshots : \A id \in x.pending : WillBeTold(id) /\ sent[id].run = x.run

\* The client was at the run of each message of its own; and what was decided at the run
\* where it is now, it knows or will be told.
RunReached == \A id \in Ids : Ours(id) =>
  tui.active >= sent[id].run \/ tui.completed >= sent[id].run \/ Coming
DecisionKnown == \A id \in Ids : Ours(id) /\ tui.active = sent[id].run =>
  /\ sent[id].state = "applied" => Note("applied", id) \in Wire \/ id \in tui.tombs
  /\ sent[id].state = "rejected" => Note("rejected", id) \in Wire \/ id \in tui.tombs
  /\ sent[id].state = "removed" => Removal(id) \/ id \in tui.tombs

ScreenInv == Stops /\ ErrorIsLast /\ RunsAreTold /\ ListClears /\ RunReached /\ DecisionKnown

-----------------------------------------------------------------------------
(* Steps that tell, or change the screen without handling what was told.   *)

\* Every message keeps its run and its text; a new one is just sent.
AllKept ==
  /\ \A id \in Ids : id \in Ids' /\ sent'[id].run = sent[id].run /\ Text(id)' = Text(id)
  /\ \A id \in Ids' \ Ids : sent'[id].state = "sent" /\ sent'[id].run \in {0, tui'.active}

\* What may become of a message.
Moved == \A id \in Ids :
  \/ sent'[id].state = sent[id].state
  \/ /\ sent[id].state = "sent" /\ sent'[id].state \in {"queued", "refused", "busy", "applied"}
     /\ sent'[id].state = "applied" => sent[id].run = 0
  \/ /\ sent[id].state = "queued" /\ sent'[id].state \in {"applied", "rejected"}
     /\ Note(sent'[id].state, id) \in Wire'
  \/ sent[id].state = "queued" /\ sent'[id].state = "removed" /\ Serving("remove", id)'

\* The run goes on, or its end or its failure is told; another begins, and is told.
RunGoesOn ==
  /\ srv.mode = "running" => \/ srv'.mode = "running" /\ srv'.run = srv.run
                             \/ Note("end", srv.run) \in Wire' \/ Note("compactError", srv.run) \in Wire'
  /\ WillClose => (WillClose' /\ srv'.run = srv.run) \/ Note("end", srv.run) \in Wire'
  /\ \/ srv'.run = srv.run /\ (srv'.mode = "running" => srv.mode = "running")
     \/ srv'.run = srv.run + 1 /\ srv'.mode = "running" /\ Note("running", srv'.run) \in Wire'
  /\ srv.late => srv'.late

\* What is told.
Tells(notes) ==
  /\ notes \in Seq(NoteSet) /\ wire' = wire \o notes
  /\ \A i \in DOMAIN notes :
       /\ notes[i].type = "running" => srv'.mode = "running" /\ notes[i].of = srv'.run
       /\ notes[i].type = "cancelling" => srv'.late \/ (WillClose' /\ notes[i].of = srv'.run)
       /\ notes[i].type = "compactError" => srv'.mode # "running"

\* Calls of this client are answered.
CallsGoOn ==
  /\ SendComes => SendComes' \/ IsBusy' \/ srv'.run = srv.run + 1
  /\ Asked("cancel", 0) => Asked("cancel", 0)' \/ No("cancel", 0)' \/ WillClose' \/ srv'.late

\* The screen spins only if it did, or if a call goes out.
SpinsAlike ==
  /\ tui'.at # "open" => tui.at # "open"
  /\ tui'.cancelling => \/ Asked("cancel", 0)'
                        \/ tui.cancelling /\ (No("cancel", 0) => No("cancel", 0)')
  /\ tui'.loading => tui.loading \/ SendComes' \/ tui.at # "open"
  /\ tui.missed \subseteq tui'.missed

\* The list is the same, or is about to be cleared.
ListsAlike ==
  /\ tui'.at = tui.at /\ tui'.missed = tui.missed /\ tui'.pending = tui.pending
  /\ tui'.tombs = tui.tombs /\ tui'.active = tui.active
  /\ tui'.completed = tui.completed \/ (tui'.completed = 0 /\ SendComes')

\* What the invariant needs of a message's type, as it is and as it will be.
LEMMA BusyStays ==
  ASSUME AllKept, Moved, IsBusy
  PROVE  IsBusy'
<1>1. PICK id \in Ids : sent[id].state = "busy"
  BY DEF IsBusy
<1>2. QED
  BY <1>1 DEF AllKept, Moved, IsBusy

\* What is excused stays so.
LEMMA ExcusedStays ==
  ASSUME AllKept, Moved, srv.late => srv'.late, tui.missed \subseteq tui'.missed, Excused
  PROVE  Excused'
BY BusyStays DEF Excused

\* What is told is added.
LEMMA TellsFacts ==
  ASSUME Types, NEW notes, Tells(notes)
  PROVE  /\ Wire' = Wire \cup ToSet(notes) /\ Wire \subseteq Wire'
         /\ \A n \in Wire' \ Wire :
              /\ n.type = "running" => srv'.mode = "running" /\ n.of = srv'.run
              /\ n.type = "cancelling" => srv'.late \/ (WillClose' /\ n.of = srv'.run)
              /\ n.type = "compactError" => srv'.mode # "running"
<1>1. Wire' = Wire \cup ToSet(notes)
  BY ToldFacts DEF Tells
<1>2. \A n \in ToSet(notes) : \E i \in DOMAIN notes : n = notes[i]
  BY DEF ToSet
<1>3. QED
  BY <1>1, <1>2 DEF Tells

\* Whatever makes the screen spin goes on to be followed by what stops it.
LEMMA StopsKept ==
  ASSUME Types, Stops, AllKept, Moved, RunGoesOn, CallsGoOn, SpinsAlike, NEW notes, Tells(notes)
  PROVE  Stops'
<1>1. CASE Excused
  BY <1>1, ExcusedStays DEF Stops, RunGoesOn, SpinsAlike
<1>2. CASE ~Excused /\ ~Excused'
  <2>1. RunsStop /\ SpinStops
    BY <1>2 DEF Stops
  <2>2. ~IsBusy' /\ ~srv'.late
    BY <1>2 DEF Excused
  <2>3. /\ Wire \subseteq Wire'
        /\ \A n \in Wire' \ Wire :
              /\ n.type = "running" => srv'.mode = "running" /\ n.of = srv'.run
              /\ n.type = "cancelling" => srv'.late \/ (WillClose' /\ n.of = srv'.run)
    BY TellsFacts
  <2>4. RunsStop'
    <3>1. SUFFICES ASSUME NEW n \in Wire'
                   PROVE  /\ n.type = "running" => \/ srv'.mode = "running" /\ srv'.run = n.of
                                                   \/ Note("end", n.of)' \in Wire' \/ Note("compactError", n.of)' \in Wire'
                          /\ n.type = "cancelling" => (WillClose' /\ srv'.run = n.of) \/ Note("end", n.of)' \in Wire'
      BY DEF RunsStop
    <3>2. CASE n \in Wire
      <4>1. /\ n.type = "running" => \/ srv.mode = "running" /\ srv.run = n.of
                                     \/ Note("end", n.of) \in Wire \/ Note("compactError", n.of) \in Wire
            /\ n.type = "cancelling" => (WillClose /\ srv.run = n.of) \/ Note("end", n.of) \in Wire
        BY <2>1, <3>2 DEF RunsStop
      <4>2. QED
        BY <4>1, <2>3 DEF RunGoesOn, Note
    <3>3. CASE n \notin Wire
      BY <3>1, <3>3, <2>2, <2>3
    <3>4. QED
      BY <3>2, <3>3
  <2>5. /\ EndTold => EndTold'
        /\ ErrorTold => ErrorTold'
        /\ \A r : Note("end", r) \in Wire' => EndTold'
        /\ \A r : Note("compactError", r) \in Wire' => ErrorTold'
    BY <2>3, NoteFacts DEF EndTold, ErrorTold
  <2>6. StopComes => StopComes'
    BY <2>5 DEF RunGoesOn, StopComes
  <2>7. WillClose => WillClose' \/ EndTold'
    BY <2>5 DEF RunGoesOn
  <2>8. SendComes => SendComes' \/ StopComes'
    BY <2>2 DEF CallsGoOn, RunGoesOn, StopComes, Types, SessionSet
  <2>9. EndTold' => StopComes'
    BY DEF StopComes
  <2>10. tui'.cancelling => Asked("cancel", 0)' \/ No("cancel", 0)' \/ WillClose' \/ EndTold'
    BY <2>1, <2>2, <2>5, <2>7 DEF SpinStops, SpinsAlike, CallsGoOn
  <2>11. tui'.loading => SendComes' \/ WillClose' \/ StopComes'
    BY <2>1, <2>6, <2>7, <2>8, <2>9 DEF SpinStops, SpinsAlike
  <2>12. tui'.at # "open" => StopComes'
    BY <2>1, <2>6 DEF SpinStops, SpinsAlike
  <2>13. QED
    BY <2>4, <2>10, <2>11, <2>12 DEF Stops, SpinStops
<1>3. QED
  BY <1>1, <1>2 DEF Stops

\* After a failure its run is not told of.
LEMMA ErrorsKept ==
  ASSUME Types, Known, ErrorIsLast, RunGoesOn, NEW notes, Tells(notes)
  PROVE  ErrorIsLast'
<1>1. notes \in Seq(NoteSet) /\ wire \in Seq(NoteSet) /\ wire' = wire \o notes
  BY DEF Types, Tells
<1>2. /\ DOMAIN wire = 1 .. Len(wire) /\ DOMAIN notes = 1 .. Len(notes) /\ Len(wire) \in Nat /\ Len(notes) \in Nat
      /\ DOMAIN wire' = 1 .. Len(wire) + Len(notes)
      /\ \A i \in 1 .. Len(wire) + Len(notes) : wire'[i] = IF i <= Len(wire) THEN wire[i] ELSE notes[i - Len(wire)]
  BY <1>1, ElementsOfBoth
<1>3. \A i \in DOMAIN wire : wire[i] \in Wire
  BY DEF Wire
<1>4. \A n \in Wire : n.type = "compactError" => n.of <= srv.run /\ n.of \in Nat
  <2>1. TAKE n \in Wire
  <2>2. n.type = "compactError" => RunOf(n) = n.of /\ n.type \notin MessageTypes
    BY DEF RunOf, MessageTypes
  <2>3. n.type = "compactError" => RunOf(n) \in 1 .. srv.run
    BY Ranges
  <2>4. QED
    BY <2>2, <2>3, Ranges
<1>5. srv.run \in Nat /\ srv.run <= srv'.run
  BY Ranges DEF RunGoesOn
<1>6. srv'.mode = "running" => \A n \in Wire : n.type = "compactError" => n.of < srv'.run
  BY <1>4, <1>5 DEF ErrorIsLast, RunGoesOn
<1>7. ASSUME NEW i \in DOMAIN wire', NEW j \in DOMAIN wire', i < j,
             wire'[i].type = "compactError", wire'[j].type = "running"
      PROVE  wire'[i].of < wire'[j].of
  <2>1. i \in 1 .. Len(wire) + Len(notes) /\ j \in 1 .. Len(wire) + Len(notes)
    BY <1>7, <1>2
  <2>2. CASE j <= Len(wire)
    BY <1>7, <1>2, <2>1, <2>2 DEF ErrorIsLast
  <2>3. CASE j > Len(wire)
    <3>1. j - Len(wire) \in DOMAIN notes /\ wire'[j] = notes[j - Len(wire)]
      BY <1>2, <2>1, <2>3
    <3>2. srv'.mode = "running" /\ wire'[j].of = srv'.run
      BY <1>7, <3>1 DEF Tells
    <3>3. CASE i <= Len(wire)
      <4>1. wire'[i] = wire[i] /\ wire[i] \in Wire
        BY <1>2, <1>3, <2>1, <3>3
      <4>2. QED
        BY <1>6, <1>7, <3>2, <4>1
    <3>4. CASE i > Len(wire)
      <4>1. i - Len(wire) \in DOMAIN notes /\ wire'[i] = notes[i - Len(wire)]
        BY <1>2, <2>1, <3>4
      <4>2. QED
        BY <1>7, <3>2, <4>1 DEF Tells
    <3>5. QED
      BY <1>2, <2>1, <3>3, <3>4
  <2>4. QED
    BY <1>2, <2>1, <2>2, <2>3
<1>8. \A n \in Wire' : n.type = "compactError" => n.of < srv'.run \/ srv'.mode # "running"
  BY <1>6, TellsFacts
<1>9. QED
  BY <1>7, <1>8 DEF ErrorIsLast

\* The runs are told one by one.
LEMMA RunsToldKept ==
  ASSUME Types, Known, RunsAreTold, RunGoesOn, NEW notes, Tells(notes),
         tui'.active \in {0, tui.active, srv'.run}
  PROVE  RunsAreTold'
<1>1. /\ Wire \subseteq Wire' /\ srv.run \in Nat /\ tui.active \in 0 .. srv.run
      /\ \A n \in Wire' \ Wire : n.type = "running" => n.of = srv'.run
  BY TellsFacts, Ranges
<1>2. srv'.run \in Nat /\ srv.run <= srv'.run
  BY <1>1 DEF RunGoesOn
<1>3. \A r \in srv.run + 1 .. srv'.run : Note("running", r) \in Wire'
  BY <1>1, <1>2 DEF RunGoesOn
<1>4. ASSUME NEW n \in Wire', n.type = "running", NEW r \in n.of + 1 .. srv'.run
      PROVE  Note("running", r) \in Wire'
  <2>1. CASE n \in Wire
    <3>1. RunOf(n) = n.of
      BY <1>4 DEF RunOf, MessageTypes
    <3>2. n.of \in 1 .. srv.run
      BY <1>4, <2>1, <3>1, Ranges
    <3>3. CASE r <= srv.run
      <4>1. r \in n.of + 1 .. srv.run
        BY <1>1, <1>2, <1>4, <3>2, <3>3
      <4>2. Note("running", r) \in Wire
        BY <1>4, <2>1, <4>1 DEF RunsAreTold
      <4>3. QED
        BY <1>1, <4>2
    <3>4. CASE ~(r <= srv.run)
      BY <1>1, <1>2, <1>3, <1>4, <3>2, <3>4
    <3>5. QED
      BY <3>3, <3>4
  <2>2. CASE n \notin Wire
    <3>1. n.of = srv'.run
      BY <1>1, <1>4, <2>2
    <3>2. QED
      BY <1>2, <1>4, <3>1
  <2>3. QED
    BY <2>1, <2>2
<1>5. ASSUME tui'.active # 0, NEW r \in tui'.active + 1 .. srv'.run
      PROVE  Note("running", r) \in Wire'
  <2>1. CASE tui'.active = srv'.run
    BY <1>2, <1>5, <2>1
  <2>2. CASE tui'.active = tui.active
    <3>1. CASE r <= srv.run
      <4>1. r \in tui.active + 1 .. srv.run
        BY <1>1, <1>2, <1>5, <2>2, <3>1
      <4>2. QED
        BY <1>1, <1>5, <2>2, <4>1 DEF RunsAreTold
    <3>2. CASE ~(r <= srv.run)
      BY <1>1, <1>2, <1>3, <1>5, <2>2, <3>2
    <3>3. QED
      BY <3>1, <3>2
  <2>3. QED
    BY <1>5, <2>1, <2>2
<1>6. QED
  BY <1>4, <1>5, NoteFacts DEF RunsAreTold, Note

\* While a session is opened the user has no messages.
LEMMA NoneOfOurs ==
  ASSUME TextInv, tui.at # "open", NEW id \in Ids
  PROVE  ~Ours(id)
<1>1. typed = 0 /\ Text(id) \subseteq 1 .. typed
  BY DEF TextInv, OpensQuietly, Known, SentKnown
<1>2. QED
  BY <1>1 DEF Ours

\* A run that is coming goes on to be.
LEMMA ComingStays ==
  ASSUME Types, Known, AllKept, Moved, RunGoesOn, CallsGoOn, ListsAlike, Wire \subseteq Wire', Coming
  PROVE  Coming'
<1>1. CASE IsBusy
  BY <1>1, BusyStays DEF Coming
<1>2. srv.run \in Nat /\ tui.active \in 0 .. srv.run /\ tui.completed \in 0 .. srv.run
  BY Ranges
<1>3. CASE SendComes
  <2>1. CASE srv'.run = srv.run + 1
    <3>1. Note("running", srv'.run) \in Wire'
      BY <1>2, <2>1 DEF RunGoesOn
    <3>2. tui'.active < srv'.run /\ tui'.completed < srv'.run
      BY <1>2, <2>1 DEF ListsAlike
    <3>3. QED
      BY <3>1, <3>2, NoteFacts DEF Coming
  <2>2. CASE SendComes' \/ IsBusy'
    BY <2>2 DEF Coming
  <2>3. QED
    BY <1>3, <2>1, <2>2 DEF CallsGoOn
<1>4. CASE \E n \in Wire : n.type = "running" /\ tui.active < n.of /\ tui.completed < n.of
  <2>1. CASE tui'.completed = tui.completed
    BY <1>4, <2>1 DEF Coming, ListsAlike
  <2>2. CASE tui'.completed # tui.completed
    BY <2>2 DEF Coming, ListsAlike
  <2>3. QED
    BY <2>1, <2>2
<1>5. QED
  BY <1>1, <1>3, <1>4 DEF Coming

\* What was to be told goes on to be, or is taken back.
LEMMA WillBeToldStays ==
  ASSUME AllKept, Moved, Wire \subseteq Wire', tui.missed \subseteq tui'.missed, NEW id \in Ids, WillBeTold(id)
  PROVE  WillBeTold(id)' \/ (sent'[id].state = "removed" /\ Serving("remove", id)')
<1>1. CASE sent[id].state = "queued"
  BY <1>1 DEF WillBeTold, Moved, Note
<1>2. CASE sent[id].state # "queued"
  BY <1>2 DEF WillBeTold, Moved, Note
<1>3. QED
  BY <1>1, <1>2

\* The list goes on to be cleared, and the client to know what was decided.
LEMMA ListsKept ==
  ASSUME TextInv, TextInv', ListClears, RunReached, DecisionKnown,
         AllKept, Moved, RunGoesOn, CallsGoOn, ListsAlike, Wire \subseteq Wire',
         \A id \in Ids : Removal(id) => Removal(id)',
         \A x \in Snapshots' : x \in Snapshots \/ x.pending = {} \/ (x.pending = Queued /\ x.run = srv.run /\ sent' = sent)
  PROVE  ListClears' /\ RunReached' /\ DecisionKnown'
<1>1. Types /\ Known /\ Pending /\ SentWaits /\ OpensQuietly
  BY DEF TextInv
<1>2. /\ srv.run \in Nat /\ tui.active \in 0 .. srv.run /\ tui.completed \in 0 .. srv.run
      /\ \A id \in Ids : sent[id].run \in 0 .. srv.run
  BY <1>1, Ranges
<1>3. Coming => Coming'
  BY <1>1, ComingStays
<1>4. \A id \in Ids : WillLeave(id) => WillLeave(id)'
  <2>1. TAKE id \in Ids
  <2>2. CASE WillBeTold(id)
    BY <2>2, WillBeToldStays DEF WillLeave, Removal, ListsAlike
  <2>3. CASE sent[id].state = "removed" /\ Removal(id)
    BY <2>3 DEF WillLeave, Moved
  <2>4. QED
    BY <2>2, <2>3 DEF WillLeave
<1>5. tui.pending \subseteq Ids
  BY <1>1 DEF Known, ClientKnown
<1>6. ASSUME tui'.at = "open", NEW id \in tui'.pending
      PROVE  ~Outdated(tui', sent'[id].run) /\ (WillLeave(id)' \/ Coming')
  <2>1. id \in tui.pending /\ tui.at = "open" /\ id \in Ids
    BY <1>5, <1>6 DEF ListsAlike
  <2>2. ~Outdated(tui, sent[id].run) /\ (WillLeave(id) \/ Coming)
    BY <2>1 DEF ListClears
  <2>3. sent'[id].run = sent[id].run /\ sent[id].run # 0
    BY <1>1, <2>1 DEF AllKept, Pending
  <2>4. ~Outdated(tui', sent'[id].run)
    BY <2>2, <2>3 DEF Outdated, ListsAlike
  <2>5. QED
    BY <1>3, <1>4, <2>1, <2>2, <2>4
<1>7. ASSUME NEW x \in Snapshots', NEW id \in x.pending
      PROVE  WillBeTold(id)' /\ sent'[id].run = x.run
  <2>1. \A i : ~Serving("remove", i)'
    BY <1>7 DEF TextInv, OpensQuietly
  <2>2. CASE x \in Snapshots
    <3>1. id \in Ids /\ WillBeTold(id) /\ sent[id].run = x.run
      BY <1>1, <1>7, <2>2 DEF Known, RepliesKnown, ListClears
    <3>2. QED
      BY <2>1, <3>1, WillBeToldStays DEF AllKept, ListsAlike
  <2>3. CASE x.pending = Queued /\ x.run = srv.run /\ sent' = sent
    <3>1. id \in Ids /\ sent[id].state = "queued"
      BY <1>7, <2>3 DEF Queued, Ids
    <3>2. QED
      BY <1>1, <2>3, <3>1 DEF SentWaits, WillBeTold
  <2>4. QED
    BY <1>7, <2>2, <2>3
<1>8. ASSUME NEW id \in Ids', Ours(id)'
      PROVE  /\ tui'.active >= sent'[id].run \/ tui'.completed >= sent'[id].run \/ Coming'
             /\ tui'.active = sent'[id].run =>
                  /\ sent'[id].state = "applied" => Note("applied", id)' \in Wire' \/ id \in tui'.tombs
                  /\ sent'[id].state = "rejected" => Note("rejected", id)' \in Wire' \/ id \in tui'.tombs
                  /\ sent'[id].state = "removed" => Removal(id)' \/ id \in tui'.tombs
  <2>1. CASE id \in Ids
    <3>1. Ours(id) /\ sent'[id].run = sent[id].run /\ sent[id].run # 0
      BY <1>8, <2>1 DEF AllKept, Ours
    <3>2. tui.active >= sent[id].run \/ tui.completed >= sent[id].run \/ Coming
      BY <2>1, <3>1 DEF RunReached
    <3>3. tui'.active >= sent'[id].run \/ tui'.completed >= sent'[id].run \/ Coming'
      <4>1. CASE tui'.completed = tui.completed
        BY <1>3, <3>1, <3>2, <4>1 DEF ListsAlike
      <4>2. CASE SendComes'
        BY <4>2 DEF Coming
      <4>3. QED
        BY <4>1, <4>2 DEF ListsAlike
    <3>4. ASSUME tui'.active = sent'[id].run
          PROVE  /\ sent'[id].state = "applied" => Note("applied", id)' \in Wire' \/ id \in tui'.tombs
                 /\ sent'[id].state = "rejected" => Note("rejected", id)' \in Wire' \/ id \in tui'.tombs
                 /\ sent'[id].state = "removed" => Removal(id)' \/ id \in tui'.tombs
      <4>1. /\ sent[id].state = "applied" => Note("applied", id) \in Wire \/ id \in tui.tombs
            /\ sent[id].state = "rejected" => Note("rejected", id) \in Wire \/ id \in tui.tombs
            /\ sent[id].state = "removed" => Removal(id) \/ id \in tui.tombs
        BY <2>1, <3>1, <3>4 DEF DecisionKnown, ListsAlike
      <4>2. CASE sent'[id].state = sent[id].state
        BY <2>1, <4>1, <4>2 DEF ListsAlike, Note
      <4>3. CASE sent'[id].state # sent[id].state
        BY <2>1, <3>1, <4>3 DEF Moved, Note, Removal
      <4>4. QED
        BY <4>2, <4>3
    <3>5. QED
      BY <3>3, <3>4
  <2>2. CASE id \notin Ids
    <3>1. sent'[id].state = "sent" /\ sent'[id].run = tui'.active
      BY <1>8, <2>2 DEF AllKept, Ours
    <3>2. tui'.active \in Nat
      BY <1>2 DEF ListsAlike
    <3>3. QED
      BY <3>1, <3>2
  <2>3. QED
    BY <2>1, <2>2
<1>9. ListClears'
  BY <1>6, <1>7 DEF ListClears
<1>10. RunReached' /\ DecisionKnown'
  BY <1>8 DEF RunReached, DecisionKnown
<1>11. QED
  BY <1>9, <1>10

\* Such a step keeps the invariant.
LEMMA StepKeeps ==
  ASSUME TextInv, TextInv', ScreenInv, AllKept, Moved, RunGoesOn, CallsGoOn, SpinsAlike, ListsAlike,
         NEW notes, Tells(notes), \A id \in Ids : Removal(id) => Removal(id)',
         \A x \in Snapshots' : x \in Snapshots \/ x.pending = {} \/ (x.pending = Queued /\ x.run = srv.run /\ sent' = sent)
  PROVE  ScreenInv'
<1>1. Types /\ Known
  BY DEF TextInv
<1>2. Wire \subseteq Wire'
  BY <1>1, TellsFacts
<1>3. Stops' /\ ErrorIsLast' /\ RunsAreTold'
  BY <1>1, StopsKept, ErrorsKept, RunsToldKept DEF ScreenInv, ListsAlike
<1>4. QED
  BY <1>2, <1>3, ListsKept DEF ScreenInv


-----------------------------------------------------------------------------
(* The daemon's steps.                                                     *)

\* No message changes.
LEMMA NoneMoves ==
  ASSUME sent' = sent
  PROVE  AllKept /\ Moved
BY DEF AllKept, Moved, Ids, Text

\* One message changes.
LEMMA OneMoves ==
  ASSUME Types, NEW k \in Ids, NEW s \in Fates, sent' = [sent EXCEPT ![k].state = s],
         \/ sent[k].state = "sent" /\ s \in {"queued", "refused", "busy"}
         \/ sent[k].state = "sent" /\ s = "applied" /\ sent[k].run = 0
         \/ sent[k].state = "queued" /\ s = "removed" /\ Serving("remove", k)'
  PROVE  AllKept /\ Moved
<1>1. /\ Ids' = Ids /\ (\A i : Text(i)' = Text(i)) /\ sent'[k].state = s
      /\ (\A i \in Ids : sent'[i].run = sent[i].run) /\ (\A i \in Ids \ {k} : sent'[i] = sent[i])
  BY OneChanges DEF MessagesKept
<1>2. AllKept
  BY <1>1 DEF AllKept
<1>3. \A i \in Ids \ {k} : sent'[i].state = sent[i].state
  BY <1>1
<1>4. Moved
  BY <1>1, <1>3 DEF Moved
<1>5. QED
  BY <1>2, <1>4

\* The run is the same.
LEMMA SameRunGoesOn == ASSUME Types, srv' = srv PROVE RunGoesOn
BY DEF RunGoesOn, WillClose, Types, SessionSet

\* No such call is served.
LEMMA CallsStay ==
  ASSUME AllKept, \A id : Asked("send", id) => Asked("send", id)', Asked("cancel", 0) => Asked("cancel", 0)'
  PROVE  CallsGoOn
<1>1. SendComes => SendComes'
  BY DEF SendComes, AllKept
<1>2. QED
  BY <1>1 DEF CallsGoOn

\* Nothing is told.
LEMMA NothingTold == ASSUME Types, wire' = wire PROVE Tells(<<>>)
<1>1. wire \in Seq(NoteSet)
  BY DEF Types
<1>2. wire = wire \o <<>> /\ <<>> \in Seq(NoteSet) /\ DOMAIN <<>> = {}
  BY <1>1
<1>3. QED
  BY <1>2 DEF Tells

\* One thing is told.
LEMMA OneTells ==
  ASSUME Types, NEW n \in NoteSet, wire' = wire \o <<n>>,
         n.type = "running" => srv'.mode = "running" /\ n.of = srv'.run,
         n.type = "cancelling" => srv'.late \/ (WillClose' /\ n.of = srv'.run),
         n.type = "compactError" => srv'.mode # "running"
  PROVE  Tells(<<n>>)
<1>1. <<n>> \in Seq(NoteSet) /\ DOMAIN <<n>> = {1} /\ <<n>>[1] = n
  OBVIOUS
<1>2. QED
  BY <1>1 DEF Tells

\* The client does nothing.
LEMMA ClientWaits ==
  ASSUME TextInv, TextInv', ScreenInv, tui' = tui, AllKept, Moved, RunGoesOn, CallsGoOn,
         NEW notes, Tells(notes), \A id \in Ids : Removal(id) => Removal(id)',
         No("cancel", 0) => No("cancel", 0)', Snapshots' = Snapshots
  PROVE  ScreenInv'
<1>1. SpinsAlike /\ ListsAlike
  BY DEF SpinsAlike, ListsAlike
<1>2. QED
  BY <1>1, StepKeeps

\* A request to take back is answered.
LEMMA TakeBackScreen ==
  ASSUME TextInv, TextInv', ScreenInv, NEW k, TakeBack(k)
  PROVE  ScreenInv'
<1>1. Types /\ Known /\ SentWaits /\ CallsKnown
  BY DEF TextInv, Known
<1>2. /\ Asked("remove", k) /\ k \in Ids /\ k \in Nat
      /\ \A op, id : ~Serving(op, id) \/ op = "none"
      /\ \A op, i : Asked(op, i)' <=> Asked(op, i) /\ ~(op = "remove" /\ i = k)
  BY <1>1, BeginFacts DEF TakeBack, CallsKnown
<1>3. tui' = tui /\ srv' = srv /\ wire' = wire /\ Wire' = Wire
  BY SameWire DEF TakeBack
<1>4. RunGoesOn /\ Tells(<<>>)
  BY <1>1, <1>3, SameRunGoesOn, NothingTold
<1>c. \A id : (Asked("send", id) => Asked("send", id)') /\ (Asked("cancel", id) => Asked("cancel", id)')
  BY <1>2
<1>5. CASE k \in Queued /\ sent' = [sent EXCEPT ![k].state = "removed"]
           /\ busy' = [op |-> "remove", id |-> k] /\ replies' = replies
  <2>1. sent[k].state = "queued" /\ Serving("remove", k)'
    BY <1>5 DEF Queued, Serving
  <2>2. AllKept /\ Moved
    BY <1>1, <1>2, <1>5, <2>1, OneMoves DEF Fates, Accepted
  <2>3. \A id \in Ids : Removal(id) => Removal(id)'
    BY <1>2, <1>3, <1>5, SameReplies DEF Removal, Note
  <2>4. QED
    BY <1>3, <1>4, <1>c, <1>5, <2>2, <2>3, CallsStay, ClientWaits, SameReplies
<1>6. CASE Answer("remove", k, FALSE) /\ sent' = sent /\ busy' = busy
  <2>1. /\ Snapshots' = Snapshots
        /\ \A op, id : (Yes(op, id) => Yes(op, id)') /\ (No(op, id) => No(op, id)')
    BY <1>1, <1>2, <1>6, AnswerFacts
  <2>2. \A id \in Ids : Removal(id) => Removal(id)'
    BY <1>3, <1>6, <2>1, SameBusy DEF Removal, Note
  <2>3. QED
    BY <1>3, <1>4, <1>c, <1>6, <2>1, <2>2, NoneMoves, CallsStay, ClientWaits
<1>7. QED
  BY <1>5, <1>6 DEF TakeBack

\* A message is refused.
LEMMA RefuseScreen ==
  ASSUME TextInv, TextInv', ScreenInv, NEW k, Refuse(k)
  PROVE  ScreenInv'
<1>1. Types /\ Known /\ SentWaits /\ CallsKnown
  BY DEF TextInv, Known
<1>2. /\ Asked("steer", k) /\ k \in Ids /\ k \in Nat
      /\ \A op, id : ~Serving(op, id) \/ op = "none"
      /\ \A op, i : Asked(op, i)' <=> Asked(op, i) /\ ~(op = "steer" /\ i = k)
  BY <1>1, BeginFacts DEF Refuse, CallsKnown
<1>3. tui' = tui /\ srv' = srv /\ wire' = wire /\ busy' = busy /\ Wire' = Wire
  BY SameWire DEF Refuse
<1>4. RunGoesOn /\ Tells(<<>>)
  BY <1>1, <1>3, SameRunGoesOn, NothingTold
<1>c. \A id : (Asked("send", id) => Asked("send", id)') /\ (Asked("cancel", id) => Asked("cancel", id)')
  BY <1>2
<1>5. /\ Snapshots' = Snapshots
      /\ \A op, id : (Yes(op, id) => Yes(op, id)') /\ (No(op, id) => No(op, id)')
  BY <1>1, <1>2, AnswerFacts DEF Refuse
<1>6. AllKept /\ Moved
  BY <1>1, <1>2, OneMoves DEF Fates, Refuse, SentWaits
<1>7. \A id \in Ids : Removal(id) => Removal(id)'
  BY <1>3, <1>5, SameBusy DEF Removal, Note
<1>8. QED
  BY <1>3, <1>4, <1>c, <1>5, <1>6, <1>7, CallsStay, ClientWaits

\* A message is accepted.
LEMMA AcceptScreen ==
  ASSUME TextInv, TextInv', ScreenInv, NEW k, Accept(k)
  PROVE  ScreenInv'
<1>1. Types /\ Known /\ SentWaits /\ CallsKnown
  BY DEF TextInv, Known
<1>2. /\ Asked("steer", k) /\ k \in Ids /\ k \in Nat
      /\ \A op, id : ~Serving(op, id) \/ op = "none"
      /\ \A op, i : Asked(op, i)' <=> Asked(op, i) /\ ~(op = "steer" /\ i = k)
  BY <1>1, BeginFacts DEF Accept, CallsKnown
<1>3. tui' = tui /\ srv' = srv /\ wire' = wire /\ replies' = replies /\ Wire' = Wire
  BY SameWire DEF Accept
<1>4. RunGoesOn /\ Tells(<<>>)
  BY <1>1, <1>3, SameRunGoesOn, NothingTold
<1>c. \A id : (Asked("send", id) => Asked("send", id)') /\ (Asked("cancel", id) => Asked("cancel", id)')
  BY <1>2
<1>5. AllKept /\ Moved
  BY <1>1, <1>2, OneMoves DEF Fates, Accepted, Accept, SentWaits
<1>6. \A id \in Ids : Removal(id) => Removal(id)'
  BY <1>2, <1>3, SameReplies DEF Removal, Note
<1>7. QED
  BY <1>3, <1>4, <1>c, <1>5, <1>6, CallsStay, ClientWaits, SameReplies

\* What was accepted or taken back is told, and its call is answered.
LEMMA ConfirmScreen ==
  ASSUME TextInv, TextInv', ScreenInv, Confirm
  PROVE  ScreenInv'
<1>1. Types /\ Known /\ CallsKnown
  BY DEF TextInv, Known
<1>2. tui' = tui /\ srv' = srv /\ calls' = calls /\ sent' = sent
  BY DEF Confirm
<1> DEFINE type == IF busy.op = "steer" THEN "queued" ELSE "removed"
<1>3. busy.op \in {"steer", "remove"} /\ busy.id \in Nat /\ Serving(busy.op, busy.id)
  BY <1>1 DEF Confirm, Types, BusySet, Serving
<1>4. Note(type, busy.id) \in NoteSet /\ Note(type, busy.id).type = type
  BY <1>3, NoteFacts DEF MessageTypes
<1>5. wire' = wire \o <<Note(type, busy.id)>>
  BY DEF Confirm, Told
<1>6. Tells(<<Note(type, busy.id)>>) /\ Wire' = Wire \cup {Note(type, busy.id)}
  BY <1>1, <1>4, <1>5, OneTells, OneTold
<1>7. RunGoesOn /\ CallsGoOn
  BY <1>1, <1>2, SameRunGoesOn, SameCalls, CallsStay, NoneMoves
<1>8. /\ Snapshots' = Snapshots
      /\ \A op, id : (Yes(op, id) => Yes(op, id)') /\ (No(op, id) => No(op, id)')
  BY <1>1, <1>3, AnswerFacts DEF Confirm
<1>9. \A id \in Ids : Removal(id) => Removal(id)'
  <2>1. \A id : Serving("remove", id) => id = busy.id /\ busy.op = "remove"
    BY DEF Serving
  <2>2. QED
    BY <1>6, <1>8, <2>1 DEF Removal, Note
<1>10. QED
  BY <1>2, <1>6, <1>7, <1>8, <1>9, NoneMoves, ClientWaits

\* A message begins a run, or the session is busy.
LEMMA StartRunScreen ==
  ASSUME TextInv, TextInv', ScreenInv, NEW k, StartRun(k)
  PROVE  ScreenInv'
<1>1. Types /\ Known /\ SentWaits /\ CallsKnown
  BY DEF TextInv, Known
<1>2. /\ Asked("send", k) /\ k \in Ids /\ k \in Nat
      /\ \A op, id : ~Serving(op, id) \/ op = "none"
      /\ \A op, i : Asked(op, i)' <=> Asked(op, i) /\ ~(op = "send" /\ i = k)
  BY <1>1, BeginFacts DEF StartRun, CallsKnown
<1>3. tui' = tui /\ busy' = busy /\ srv \in SessionSet
  BY <1>1 DEF StartRun, Types
<1>4. \A b \in BOOLEAN : Answer("send", k, b) =>
        /\ Snapshots' = Snapshots
        /\ \A op, id : (Yes(op, id) => Yes(op, id)') /\ (No(op, id) => No(op, id)')
  BY <1>1, <1>2, AnswerFacts
<1>5. /\ Snapshots' = Snapshots
      /\ \A op, id : (Yes(op, id) => Yes(op, id)') /\ (No(op, id) => No(op, id)')
  BY <1>4 DEF StartRun
<1>6. sent[k].state = "sent" /\ sent[k].run = 0
  BY <1>2, <1>1 DEF SentWaits
<1>7. CASE srv.mode = "idle"
  <2>1. /\ srv' = [srv EXCEPT !.run = @ + 1, !.mode = "running", !.told = FALSE, !.cancelling = FALSE]
        /\ wire' = wire \o <<Note("running", srv.run + 1)>> /\ sent' = [sent EXCEPT ![k].state = "applied"]
    BY <1>7 DEF StartRun, Told
  <2>2. srv'.run = srv.run + 1 /\ srv'.mode = "running" /\ srv'.late = srv.late /\ srv.run + 1 \in Nat
    BY <1>3, <2>1 DEF SessionSet
  <2>3. Note("running", srv.run + 1) \in NoteSet
    BY <2>2, NoteFacts DEF RunTypes
  <2>4. Wire' = Wire \cup {Note("running", srv.run + 1)}
    BY <1>1, <2>1, <2>3, OneTold
  <2>5. Tells(<<Note("running", srv.run + 1)>>)
    BY <1>1, <2>1, <2>2, <2>3, OneTells, NoteFacts
  <2>6. RunGoesOn
    BY <1>7, <2>2, <2>4 DEF RunGoesOn, WillClose, Note
  <2>7. AllKept /\ Moved
    BY <1>1, <1>2, <1>6, <2>1, OneMoves DEF Fates, Accepted
  <2>8. Asked("cancel", 0) => Asked("cancel", 0)'
    BY <1>2
  <2>9. CallsGoOn
    BY <2>2, <2>8 DEF CallsGoOn
  <2>10. \A id \in Ids : Removal(id) => Removal(id)'
    BY <1>3, <1>5, <2>4, SameBusy DEF Removal, Note
  <2>11. QED
    BY <1>3, <1>5, <2>5, <2>6, <2>7, <2>9, <2>10, ClientWaits
<1>8. CASE srv.mode # "idle"
  <2>1. srv' = srv /\ wire' = wire /\ Wire' = Wire /\ sent' = [sent EXCEPT ![k].state = "busy"]
    BY <1>8, SameWire DEF StartRun
  <2>2. AllKept /\ Moved
    BY <1>1, <1>2, <1>6, <2>1, OneMoves DEF Fates
  <2>3. IsBusy'
    BY <1>1, <1>2, <2>1, <2>2, OneChanges DEF IsBusy, AllKept, Fates
  <2>4. Asked("cancel", 0) => Asked("cancel", 0)'
    BY <1>2
  <2>5. CallsGoOn
    BY <2>3, <2>4 DEF CallsGoOn
  <2>6. \A id \in Ids : Removal(id) => Removal(id)'
    BY <1>3, <1>5, <2>1, SameBusy DEF Removal, Note
  <2>7. QED
    BY <1>1, <1>3, <1>5, <2>1, <2>2, <2>5, <2>6, SameRunGoesOn, NothingTold, ClientWaits
<1>9. QED
  BY <1>7, <1>8

\* A cancel is served.
LEMMA CancelRunScreen ==
  ASSUME TextInv, TextInv', ScreenInv, CancelRun
  PROVE  ScreenInv'
<1>1. Types /\ Known /\ CallsKnown
  BY DEF TextInv, Known
<1>2. \A op, i : Asked(op, i)' <=> Asked(op, i) /\ ~(op = "cancel" /\ i = 0)
  BY <1>1, BeginFacts DEF CancelRun
<1>3. tui' = tui /\ busy' = busy /\ sent' = sent /\ srv \in SessionSet
  BY <1>1 DEF CancelRun, Types
<1>4. AllKept /\ Moved
  BY <1>3, NoneMoves
<1>5. SendComes => SendComes'
  BY <1>2, <1>4 DEF SendComes, AllKept
<1>6. CASE Answer("cancel", 0, FALSE) /\ srv' = srv /\ wire' = wire
  <2>1. /\ Snapshots' = Snapshots /\ No("cancel", 0)'
        /\ \A op, id : (Yes(op, id) => Yes(op, id)') /\ (No(op, id) => No(op, id)')
    BY <1>1, <1>6, AnswerFacts
  <2>2. CallsGoOn
    BY <1>5, <2>1 DEF CallsGoOn
  <2>3. \A id \in Ids : Removal(id) => Removal(id)'
    BY <1>3, <1>6, <2>1, SameBusy, SameWire DEF Removal, Note
  <2>4. QED
    BY <1>1, <1>3, <1>4, <1>6, <2>1, <2>2, <2>3, SameRunGoesOn, NothingTold, ClientWaits
<1>7. CASE /\ Answer("cancel", 0, TRUE) /\ srv.mode # "idle" /\ ~srv.told
           /\ srv' = [srv EXCEPT !.cancelling = TRUE, !.late = @ \/ srv.mode = "closing"]
           /\ (srv.cancelling /\ wire' = wire) \/ wire' = wire \o <<Note("cancelling", srv.run)>>
  <2>1. /\ Snapshots' = Snapshots
        /\ \A op, id : (Yes(op, id) => Yes(op, id)') /\ (No(op, id) => No(op, id)')
    BY <1>1, <1>7, AnswerFacts
  <2>2. /\ srv'.run = srv.run /\ srv'.mode = srv.mode /\ srv'.told = srv.told /\ srv'.cancelling = TRUE
        /\ srv'.late <=> (srv.late \/ srv.mode = "closing")
    BY <1>3, <1>7 DEF SessionSet
  <2>3. WillClose' \/ srv'.late
    BY <1>3, <1>7, <2>2 DEF WillClose, SessionSet
  <2>4. WillClose => WillClose'
    BY <2>2 DEF WillClose
  <2>5. RunGoesOn
    BY <2>2, <2>4 DEF RunGoesOn
  <2>6. CallsGoOn
    BY <1>5, <2>3 DEF CallsGoOn
  <2>7. CASE wire' = wire
    <3>1. \A id \in Ids : Removal(id) => Removal(id)'
      BY <1>3, <2>1, <2>7, SameBusy, SameWire DEF Removal, Note
    <3>2. QED
      BY <1>1, <1>3, <1>4, <2>1, <2>5, <2>6, <2>7, <3>1, NothingTold, ClientWaits
  <2>8. CASE wire' = wire \o <<Note("cancelling", srv.run)>>
    <3>1. Note("cancelling", srv.run) \in NoteSet
      BY <1>3, NoteFacts DEF SessionSet, RunTypes
    <3>2. Wire \subseteq Wire'
      BY <1>1, <2>8, <3>1, OneTold
    <3>3. Tells(<<Note("cancelling", srv.run)>>)
      BY <1>1, <2>2, <2>3, <2>8, <3>1, OneTells, NoteFacts
    <3>4. \A id \in Ids : Removal(id) => Removal(id)'
      BY <1>3, <2>1, <3>2, SameBusy DEF Removal, Note
    <3>5. QED
      BY <1>3, <1>4, <2>1, <2>5, <2>6, <3>3, <3>4, ClientWaits
  <2>9. QED
    BY <1>7, <2>7, <2>8
<1>8. QED
  BY <1>6, <1>7 DEF CancelRun, Told

\* The run's own step: calls stay as they are.
LEMMA RunSteps ==
  ASSUME TextInv, TextInv', ScreenInv, UNCHANGED <<tui, calls, busy, replies>>,
         AllKept, Moved, RunGoesOn, NEW notes, Tells(notes)
  PROVE  ScreenInv'
<1>1. Wire \subseteq Wire'
  BY TellsFacts DEF TextInv
<1>2. CallsGoOn
  BY SameCalls, CallsStay
<1>3. \A id \in Ids : Removal(id) => Removal(id)'
  BY <1>1, SameBusy, SameReplies DEF Removal, Note
<1>4. QED
  BY <1>2, <1>3, SameReplies, ClientWaits

\* The run tells one thing that is not of a message.
LEMMA RunTellsOne ==
  ASSUME TextInv, TextInv', ScreenInv, UNCHANGED <<tui, calls, busy, replies, sent>>, RunGoesOn,
         NEW type \in {"end", "compactDone", "idle"}, wire' = wire \o <<Note(type, srv.run)>>
  PROVE  ScreenInv'
<1>1. Types /\ srv.run \in Nat
  BY DEF TextInv, Types, SessionSet
<1>2. Note(type, srv.run) \in NoteSet /\ Note(type, srv.run).type = type
  BY <1>1, NoteFacts DEF RunTypes
<1>3. Tells(<<Note(type, srv.run)>>)
  BY <1>1, <1>2, OneTells
<1>4. QED
  BY <1>3, NoneMoves, RunSteps

\* The context has been compacted.
LEMMA CompactScreen ==
  ASSUME TextInv, TextInv', ScreenInv, Compact
  PROVE  ScreenInv'
BY SameRunGoesOn, RunTellsOne DEF Compact, Told, TextInv

\* The run is done.
LEMMA FinishScreen ==
  ASSUME TextInv, TextInv', ScreenInv, Finish
  PROVE  ScreenInv'
<1>1. Types /\ srv \in SessionSet /\ srv.run \in Nat
  BY DEF TextInv, Types, SessionSet
<1>2. srv' = [srv EXCEPT !.mode = "over", !.told = TRUE] /\ wire' = wire \o <<Note("end", srv.run)>>
  BY DEF Finish, Told
<1>3. srv'.run = srv.run /\ srv'.mode = "over" /\ srv'.late = srv.late
  BY <1>1, <1>2 DEF SessionSet
<1>4. Note("end", srv.run) \in Wire'
  BY <1>1, <1>2, RunNote DEF RunTypes
<1>5. RunGoesOn
  BY <1>3, <1>4 DEF RunGoesOn, Note
<1>6. QED
  BY <1>2, <1>5, RunTellsOne DEF Finish

\* The end is told to whoever cancelled, and the session is about to be idle.
LEMMA CloseScreen ==
  ASSUME TextInv, TextInv', ScreenInv, Close
  PROVE  ScreenInv'
<1>1. Types /\ srv \in SessionSet /\ srv.run \in Nat /\ srv.mode = "over"
  BY DEF TextInv, Types, SessionSet, Close
<1>2. CASE srv.cancelling /\ ~srv.told
  <2>1. srv' = [srv EXCEPT !.mode = "closing", !.told = TRUE] /\ wire' = wire \o <<Note("end", srv.run)>>
    BY <1>2 DEF Close, Told
  <2>2. srv'.run = srv.run /\ srv'.mode = "closing" /\ srv'.late = srv.late
    BY <1>1, <2>1 DEF SessionSet
  <2>3. Note("end", srv.run) \in Wire'
    BY <1>1, <2>1, RunNote DEF RunTypes
  <2>4. RunGoesOn
    BY <1>1, <2>2, <2>3 DEF RunGoesOn, Note
  <2>5. QED
    BY <2>1, <2>4, RunTellsOne DEF Close
<1>3. CASE ~(srv.cancelling /\ ~srv.told)
  <2>1. srv' = [srv EXCEPT !.mode = "closing"] /\ wire' = wire
    BY <1>3 DEF Close
  <2>2. srv'.run = srv.run /\ srv'.mode = "closing" /\ srv'.late = srv.late
    BY <1>1, <2>1 DEF SessionSet
  <2>3. RunGoesOn
    BY <1>1, <1>3, <2>2 DEF RunGoesOn, WillClose
  <2>4. QED
    BY <1>1, <2>1, <2>3, NothingTold, NoneMoves, RunSteps DEF Close
<1>4. QED
  BY <1>2, <1>3

\* The session is idle.
LEMMA SetIdleScreen ==
  ASSUME TextInv, TextInv', ScreenInv, SetIdle
  PROVE  ScreenInv'
<1>1. Types /\ srv \in SessionSet /\ srv.mode = "closing"
  BY DEF TextInv, Types, SetIdle
<1>2. srv' = [srv EXCEPT !.mode = "idle"] /\ wire' = wire \o <<Note("idle", srv.run)>>
  BY DEF SetIdle, Told
<1>3. srv'.run = srv.run /\ srv'.mode = "idle" /\ srv'.late = srv.late
  BY <1>1, <1>2 DEF SessionSet
<1>4. RunGoesOn
  BY <1>1, <1>3 DEF RunGoesOn, WillClose
<1>5. QED
  BY <1>2, <1>4, RunTellsOne DEF SetIdle

\* What is queued is decided, and told.
LEMMA DecidedMoves ==
  ASSUME Types, NEW s \in {"applied", "rejected"}, Decided(s),
         \A id \in Queued : Note(s, id) \in Wire'
  PROVE  AllKept /\ Moved
<1>1. /\ Ids' = Ids /\ \A id \in Ids : sent'[id].run = sent[id].run /\ Text(id)' = Text(id)
      /\ \A i \in Ids : sent'[i].state = IF sent[i].state = "queued" THEN s ELSE sent[i].state
  BY DecidedFacts, DecidedText DEF MessagesKept, Fates, Accepted
<1>2. AllKept
  BY <1>1 DEF AllKept
<1>3. Moved
  BY <1>1 DEF Moved, Queued, Ids
<1>4. QED
  BY <1>2, <1>3

\* The run takes what is queued.
LEMMA TakeScreen ==
  ASSUME TextInv, TextInv', ScreenInv, Take
  PROVE  ScreenInv'
<1>1. Types /\ srv.run \in Nat /\ srv.mode = "running" /\ srv' = srv
  BY DEF TextInv, Types, SessionSet, Take
<1> DEFINE more == IF srv.cancelling THEN <<>> ELSE <<Note("running", srv.run)>>
           set == IF srv.cancelling THEN {} ELSE {Note("running", srv.run)}
<1>2. PICK ids \in InOrder : wire' = wire \o (Became("applied", ids) \o more)
  BY DEF Take, Told
<1> DEFINE notes == Became("applied", ids) \o more
<1>3. notes \in Seq(NoteSet) /\ ToSet(notes) = {Note("applied", id) : id \in Queued} \cup set
  BY <1>1, TakeTold
<1>4. wire' = wire \o notes
  BY <1>2
<1> HIDE DEF notes
<1>5. \A i \in DOMAIN notes : notes[i] \in ToSet(notes)
  BY <1>3 DEF ToSet
<1>6. \A n \in ToSet(notes) : n.type = "applied" \/ (n.type = "running" /\ n.of = srv.run)
  BY <1>3, NoteFacts
<1>7. Tells(notes)
  BY <1>1, <1>3, <1>4, <1>5, <1>6 DEF Tells
<1>8. \A id \in Queued : Note("applied", id) \in Wire'
  BY <1>1, <1>3, <1>4, ToldFacts
<1>9. AllKept /\ Moved
  BY <1>1, <1>8, DecidedMoves DEF Take
<1>10. QED
  BY <1>1, <1>7, <1>9, SameRunGoesOn, RunSteps DEF Take

\* The run fails.
LEMMA FailScreen ==
  ASSUME TextInv, TextInv', ScreenInv, Fail
  PROVE  ScreenInv'
<1>1. Types /\ srv \in SessionSet /\ srv.run \in Nat /\ srv.mode = "running" /\ srv.told \in BOOLEAN
  BY DEF TextInv, Types, SessionSet, Fail
<1>2. PICK compact \in BOOLEAN, ids \in InOrder :
        LET end == IF compact THEN Note("compactError", srv.run) ELSE Note("end", srv.run)
            rejected == Reverse(Became("rejected", ids))
        IN /\ Told(IF compact THEN <<end>> \o rejected ELSE Append(rejected, end))
           /\ srv' = [srv EXCEPT !.mode = "over", !.told = ~compact]
  BY DEF Fail
<1> DEFINE end == IF compact THEN Note("compactError", srv.run) ELSE Note("end", srv.run)
           rejected == Reverse(Became("rejected", ids))
           notes == IF compact THEN <<end>> \o rejected ELSE Append(rejected, end)
<1>3. notes \in Seq(NoteSet) /\ ToSet(notes) = {Note("rejected", id) : id \in Queued} \cup {end}
  BY <1>1, FailTold
<1>4. wire' = wire \o notes /\ srv' = [srv EXCEPT !.mode = "over", !.told = ~compact]
  BY <1>2 DEF Told
<1>5. end.type = (IF compact THEN "compactError" ELSE "end") /\ end.of = srv.run
  BY NoteFacts
<1>6. Wire' = Wire \cup ToSet(notes)
  BY <1>1, <1>3, <1>4, ToldFacts
<1> HIDE DEF notes
<1>7. srv'.run = srv.run /\ srv'.mode = "over" /\ srv'.late = srv.late /\ srv'.told = ~compact /\ srv'.cancelling = srv.cancelling
  BY <1>1, <1>4 DEF SessionSet
<1>8. \A i \in DOMAIN notes : notes[i] \in ToSet(notes)
  BY <1>3 DEF ToSet
<1>9. \A n \in ToSet(notes) : n.type \in {"rejected", "compactError", "end"}
  BY <1>3, <1>5, NoteFacts
<1>10. Tells(notes)
  BY <1>3, <1>4, <1>7, <1>8, <1>9 DEF Tells
<1>11. \A id \in Queued : Note("rejected", id) \in Wire'
  BY <1>3, <1>6
<1>12. AllKept /\ Moved
  BY <1>1, <1>11, DecidedMoves DEF Fail
<1>13. end \in Wire'
  BY <1>3, <1>6
<1>14. RunGoesOn
  <2>1. CASE compact
    BY <1>7, <1>13, <2>1 DEF RunGoesOn, WillClose, Note
  <2>2. CASE ~compact
    BY <1>7, <1>13, <2>2 DEF RunGoesOn, Note
  <2>3. QED
    BY <2>1, <2>2
<1>15. QED
  BY <1>10, <1>12, <1>14, RunSteps DEF Fail

\* The session is opened.
LEMMA SnapshotScreen ==
  ASSUME TextInv, TextInv', ScreenInv, Snapshot
  PROVE  ScreenInv'
<1>1. Types /\ Known /\ SentWaits /\ OpensQuietly
  BY DEF TextInv
<1>2. /\ tui' = tui /\ calls' = calls /\ sent' = sent /\ srv' = srv
      /\ \A op, i : Serving(op, i) => op = "attach"
      /\ \A op, i : (Yes(op, i)' <=> Yes(op, i)) /\ (No(op, i)' <=> No(op, i))
  BY <1>1, SnapshotFacts DEF Snapshot
<1>3. AllKept /\ Moved /\ RunGoesOn /\ CallsGoOn
  BY <1>1, <1>2, NoneMoves, SameRunGoesOn, SameCalls, CallsStay
<1>4. SpinsAlike /\ ListsAlike
  BY <1>2 DEF SpinsAlike, ListsAlike
<1>5. \E notes : Tells(notes)
  <2>1. CASE srv.mode = "idle"
    <3>1. wire' = wire \o <<Note("idle", 0)>> /\ Note("idle", 0) \in NoteSet /\ Note("idle", 0).type = "idle"
      BY <2>1, NoteFacts DEF Snapshot, Told, RunTypes
    <3>2. Tells(<<Note("idle", 0)>>)
      BY <1>1, <3>1, OneTells
    <3>3. QED
      BY <3>2
  <2>2. CASE srv.mode # "idle"
    <3>1. wire' = wire \o <<>> /\ wire \in Seq(NoteSet)
      BY <1>1, <2>2 DEF Snapshot, Told, Types
    <3>2. wire' = wire
      BY <3>1
    <3>3. QED
      BY <1>1, <3>2, NothingTold
  <2>3. QED
    BY <2>1, <2>2
<1>6. PICK notes : Tells(notes)
  BY <1>5
<1>7. Wire \subseteq Wire'
  BY <1>1, <1>6, TellsFacts
<1>8. \A id \in Ids : Removal(id) => Removal(id)'
  BY <1>2, <1>7 DEF Removal, Note
<1>9. \A x \in Snapshots' : x \in Snapshots \/ x.pending = {} \/ (x.pending = Queued /\ x.run = srv.run /\ sent' = sent)
  BY <1>2 DEF Snapshots, Snapshot
<1>10. QED
  BY <1>3, <1>4, <1>6, <1>8, <1>9, StepKeeps

-----------------------------------------------------------------------------
(* The client's steps that nothing told is handled in.                     *)

\* The client alone does something.
LEMMA ClientMoves ==
  ASSUME TextInv, TextInv', ScreenInv, SpinsAlike, ListsAlike, UNCHANGED <<wire, srv, busy>>, AllKept, Moved,
         \A op, id : Asked(op, id) => Asked(op, id)', \A id : Yes("remove", id) => Yes("remove", id)',
         Snapshots' \subseteq Snapshots
  PROVE  ScreenInv'
<1>1. Types /\ RunGoesOn /\ Tells(<<>>) /\ CallsGoOn
  BY SameRunGoesOn, NothingTold, CallsStay DEF TextInv
<1>2. \A id \in Ids : Removal(id) => Removal(id)'
  BY SameBusy, SameWire DEF Removal, Note
<1>3. QED
  BY <1>1, <1>2, StepKeeps

\* What the user typed is sent, or steers the run.
LEMMA EnterScreen ==
  ASSUME TextInv, TextInv', ScreenInv, Enter
  PROVE  ScreenInv'
<1>1. PICK new \in 0 .. 1 : SteerEntered(new) \/ SendEntered(new)
  BY DEF Enter, SteerEntered, SendEntered, EnterText, Quietly
<1>2. /\ Types /\ Known /\ tui \in Clients /\ tui.at = "open" /\ wire' = wire /\ srv' = srv /\ busy' = busy
      /\ replies' = replies /\ typed \in Nat /\ tui.draft \subseteq Nat
  BY <1>1 DEF TextInv, Types, SteerEntered, SendEntered, Clients
<1>3. PICK k : k = Len(sent) + 1
  OBVIOUS
<1>4. EnterText(new) \subseteq Nat
  BY <1>2 DEF EnterText
<1>5. CASE SteerEntered(new)
  <2>a. PICK e : e = [run |-> tui.active, text |-> EnterText(new), state |-> "sent"]
    OBVIOUS
  <2>1. e \in MessageSet /\ e.state = "sent" /\ e.run = tui.active /\ sent' = Append(sent, e)
    BY <1>2, <1>4, <1>5, <2>a DEF MessageSet, Fates, Clients, SteerEntered
  <2>2. /\ k \notin Ids /\ Ids' = Ids \cup {k} /\ sent'[k].state = "sent" /\ sent'[k].run = tui.active
        /\ \A i \in Ids : sent'[i] = sent[i] /\ Text(i)' = Text(i)
    BY <1>2, <1>3, <2>1, SentGrows
  <2>3. /\ tui'.at = tui.at /\ tui'.missed = tui.missed /\ tui'.pending = tui.pending
        /\ tui'.tombs = tui.tombs /\ tui'.active = tui.active /\ tui'.completed = tui.completed
        /\ tui'.cancelling = tui.cancelling /\ tui'.loading = tui.loading
    BY <1>2, <1>5 DEF SteerEntered, Clients
  <2>4. AllKept
    BY <2>2, <2>3 DEF AllKept
  <2>5. Moved
    BY <2>2 DEF Moved
  <2>6. SpinsAlike /\ ListsAlike
    BY <1>2, <2>3, SameReplies DEF SpinsAlike, ListsAlike
  <2>7. \A op, id : Asked(op, id) => Asked(op, id)'
    BY <1>5 DEF SteerEntered, Call, Asked
  <2>8. QED
    BY <1>2, <2>4, <2>5, <2>6, <2>7, SameReplies, ClientMoves
<1>6. CASE SendEntered(new)
  <2>a. PICK e : e = [run |-> 0, text |-> EnterText(new), state |-> "sent"]
    OBVIOUS
  <2>1. e \in MessageSet /\ e.state = "sent" /\ e.run = 0 /\ sent' = Append(sent, e)
    BY <1>2, <1>4, <1>6, <2>a DEF MessageSet, Fates, SendEntered
  <2>2. /\ k \notin Ids /\ Ids' = Ids \cup {k} /\ sent'[k].state = "sent" /\ sent'[k].run = 0
        /\ \A i \in Ids : sent'[i] = sent[i] /\ Text(i)' = Text(i)
    BY <1>2, <1>3, <2>1, SentGrows
  <2>3. /\ tui'.at = tui.at /\ tui'.missed = tui.missed /\ tui'.pending = tui.pending
        /\ tui'.tombs = tui.tombs /\ tui'.active = tui.active /\ tui'.completed = 0
        /\ tui'.cancelling = tui.cancelling
    BY <1>2, <1>6 DEF SendEntered, Clients
  <2>4. AllKept
    BY <2>2, <2>3 DEF AllKept
  <2>5. Moved
    BY <2>2 DEF Moved
  <2>6. \A op, id : Asked(op, id) => Asked(op, id)'
    BY <1>6 DEF SendEntered, Call, Asked
  <2>7. Asked("send", k)'
    BY <1>3, <1>6 DEF SendEntered, Call, Asked
  <2>8. SendComes'
    BY <2>2, <2>7 DEF SendComes
  <2>9. SpinsAlike /\ ListsAlike
    BY <1>2, <2>3, <2>8, SameReplies DEF SpinsAlike, ListsAlike
  <2>10. QED
    BY <1>2, <2>4, <2>5, <2>6, <2>9, SameReplies, ClientMoves
<1>7. QED
  BY <1>1, <1>5, <1>6

\* A message is asked back.
LEMMA AskBackScreen ==
  ASSUME TextInv, TextInv', ScreenInv, AskBack
  PROVE  ScreenInv'
<1>1. PICK last : AskedBack(last)
  BY DEF AskBack, AskedBack, Quietly
<1>2. UNCHANGED <<tui, sent, wire, srv, busy, replies>>
  BY <1>1 DEF AskedBack
<1>3. \A op, id : Asked(op, id) => Asked(op, id)'
  BY <1>1 DEF AskedBack, Call, Asked
<1>4. SpinsAlike /\ ListsAlike
  BY <1>2, SameReplies DEF SpinsAlike, ListsAlike
<1>5. QED
  BY <1>2, <1>3, <1>4, SameReplies, NoneMoves, ClientMoves

\* The run is cancelled.
LEMMA CancelScreen ==
  ASSUME TextInv, TextInv', ScreenInv, Cancel
  PROVE  ScreenInv'
<1>1. UNCHANGED <<sent, wire, srv, busy, replies>> /\ tui.loading /\ tui.at = "open" /\ tui \in Clients
  BY DEF Cancel, Quietly, TextInv, Types
<1>2. \A op, id : Asked(op, id) => Asked(op, id)'
  BY DEF Cancel, Call, Asked
<1>3. Asked("cancel", 0)'
  BY DEF Cancel, Call, Asked
<1>4. /\ tui'.at = tui.at /\ tui'.missed = tui.missed /\ tui'.pending = tui.pending
      /\ tui'.tombs = tui.tombs /\ tui'.active = tui.active /\ tui'.completed = tui.completed
  BY <1>1 DEF Cancel, EnterCancelling, Clients
<1>5. SpinsAlike /\ ListsAlike
  BY <1>1, <1>3, <1>4 DEF SpinsAlike, ListsAlike
<1>6. QED
  BY <1>1, <1>2, <1>5, SameReplies, NoneMoves, ClientMoves

\* A call is given up.
LEMMA GiveUpScreen ==
  ASSUME TextInv, TextInv', ScreenInv, GiveUp
  PROVE  ScreenInv'
<1>1. PICK k \in Opens : OneGivenUp(k)
  BY DEF GiveUp, OneGivenUp, Quietly, Opens
<1>2. UNCHANGED <<sent, calls, wire, srv, busy, replies>> /\ tui' = Resolve(tui, k, "failed")
  BY <1>1 DEF OneGivenUp
<1>3. k \in Submitted
  BY ClientKnows DEF TextInv
<1>4. SameButTexts(tui, tui')
  BY <1>2, <1>3, OneFailed
<1>5. SpinsAlike /\ ListsAlike
  BY <1>2, <1>4, SameReplies DEF SpinsAlike, ListsAlike, SameButTexts
<1>6. QED
  BY <1>2, <1>5, SameReplies, SameCalls, NoneMoves, ClientMoves

\* A call is refused, or the session was busy.
LEMMA RefusedScreen ==
  ASSUME TextInv, TextInv', ScreenInv, NEW x, ReplyHandled(x), x.op # "attach", ~x.ok
  PROVE  ScreenInv'
<1>1. /\ tui.at = "open" /\ Snapshots' = Snapshots /\ x.op \in {"steer", "send", "remove", "cancel"}
      /\ (\A op, i : Yes(op, i) => Yes(op, i)')
      /\ \A op, i : No(op, i)' <=> No(op, i) /\ ~(op = x.op /\ i = x.id)
  BY ReplyFacts
<1>2. UNCHANGED <<sent, calls, wire, srv, busy>> /\ tui' = Reply(x) /\ tui \in Clients
  BY DEF ReplyHandled, TextInv, Types
<1>3. SpinsAlike /\ ListsAlike
  <2>1. CASE x.op = "cancel"
    <3>1. tui' = [tui EXCEPT !.cancelling = FALSE, !.control = TRUE]
      BY <1>2, <2>1 DEF Reply
    <3>2. /\ tui'.at = tui.at /\ tui'.missed = tui.missed /\ tui'.pending = tui.pending
          /\ tui'.tombs = tui.tombs /\ tui'.active = tui.active /\ tui'.completed = tui.completed
          /\ tui'.loading = tui.loading /\ tui'.cancelling = FALSE
      BY <1>2, <3>1 DEF Clients, SameButTexts
    <3>3. QED
      BY <3>2 DEF SpinsAlike, ListsAlike
  <2>2. CASE x.op # "cancel" /\ SameButTexts(tui, tui')
    BY <1>1, <2>2 DEF SpinsAlike, ListsAlike, SameButTexts
  <2>3. CASE x.op = "remove"
    <3>1. tui' = tui
      BY <1>2, <2>3 DEF Reply
    <3>2. QED
      BY <2>2, <2>3, <3>1 DEF SameButTexts
  <2>4. CASE x.op = "send"
    <3>1. tui' = [tui EXCEPT !.lost = @ \cup Text(x.id)]
      BY <1>2, <2>4 DEF Reply
    <3>2. QED
      BY <1>2, <2>2, <2>4, <3>1 DEF SameButTexts, Clients
  <2>5. CASE x.op = "steer"
    <3>1. tui' = Resolve(tui, x.id, "failed")
      BY <1>2, <2>5 DEF Reply
    <3>2. CASE x.id \in Submitted
      BY <2>2, <2>5, <3>1, <3>2, OneFailed
    <3>3. CASE x.id \notin Submitted
      <4>1. \A s \in tui.subs : s.id # x.id
        BY <3>3 DEF Submitted, SubIds
      <4>2. {IF s.id = x.id THEN [s EXCEPT !.state = "failed"] ELSE s : s \in tui.subs} = tui.subs
        BY <4>1
      <4>3. [tui EXCEPT !.subs = tui.subs] = tui
        BY <1>2 DEF Clients
      <4>4. tui' = tui
        BY <3>1, <4>1, <4>2, <4>3 DEF Resolve
      <4>5. QED
        BY <2>2, <2>5, <4>4 DEF SameButTexts
    <3>4. QED
      BY <3>2, <3>3
  <2>6. QED
    BY <1>1, <2>1, <2>3, <2>4, <2>5
<1>4. QED
  BY <1>1, <1>2, <1>3, SameCalls, NoneMoves, ClientMoves

-----------------------------------------------------------------------------
(* What is heard of a session, or of a message.                            *)

\* The session is shown as it was.
LEMMA AppliedScreen ==
  ASSUME TextInv, ScreenInv, NEW x, ReplyHandled(x), x.op = "attach"
  PROVE  ScreenInv'
<1>1. Types /\ Known /\ OpensQuietly /\ Pending /\ tui \in Clients
  BY DEF TextInv, Types
<1>2. x \in Snapshots /\ x.pending \subseteq Ids /\ x.run <= srv.run /\ ~x.cancelling
  BY <1>1 DEF ReplyHandled, Snapshots, Known, RepliesKnown, OpensQuietly
<1>3. x.run \in Nat
  <2>1. x \in [op : {"attach"}, id : {0}, run : Nat, cancelling : BOOLEAN, control : BOOLEAN, pending : SUBSET Nat]
    BY <1>1, <1>2 DEF Types, ReplySet, Snapshots
  <2>2. QED
    BY <2>1
<1>4. tui.at # "open" /\ srv.run = 1
  BY <1>1, <1>2 DEF OpensQuietly
<1>5. /\ tui'.at = "open" /\ tui'.completed = 0 /\ tui'.active = x.run /\ tui'.cancelling = FALSE
      /\ tui'.pending = x.pending /\ tui'.missed = tui.missed
  <2>1. tui' = Apply(tui, x)
    BY DEF ReplyHandled, Reply
  <2> DEFINE u == [tui EXCEPT !.at = "open", !.completed = 0, !.active = x.run, !.cancelling = FALSE,
                              !.control = x.run # 0 /\ x.control, !.pending = x.pending,
                              !.subs = {}, !.tombs = {}, !.loading = @ \/ x.run # 0]
  <2>2. tui' = u
    BY <1>2, <2>1 DEF Apply
  <2>3. QED
    BY <1>1, <2>2 DEF Clients
<1>6. UNCHANGED <<sent, calls, wire, srv, busy>> /\ Ids' = Ids /\ Wire' = Wire
  BY SameWire DEF ReplyHandled, Ids
<1>7. Snapshots' \subseteq Snapshots
  BY DEF ReplyHandled, Snapshots
<1>8. SpinsAlike
  BY <1>4, <1>5 DEF SpinsAlike
<1>9. AllKept /\ Moved /\ RunGoesOn /\ CallsGoOn /\ Tells(<<>>)
  BY <1>1, <1>6, NoneMoves, SameRunGoesOn, SameCalls, CallsStay, NothingTold
<1>10. tui'.active \in {0, tui.active, srv'.run}
  BY <1>2, <1>3, <1>4, <1>5, <1>6
<1>11. Stops' /\ ErrorIsLast' /\ RunsAreTold'
  BY <1>1, <1>8, <1>9, <1>10, StopsKept, ErrorsKept, RunsToldKept DEF ScreenInv
<1>12. ASSUME NEW y \in Snapshots, NEW id \in y.pending
       PROVE  WillBeTold(id)' /\ sent'[id].run = y.run /\ id \in Ids /\ sent[id].run # 0
  <2>1. WillBeTold(id) /\ sent[id].run = y.run
    BY <1>12 DEF ScreenInv, ListClears
  <2>2. id \in Ids /\ sent[id].run # 0
    BY <1>1, <1>12 DEF Known, RepliesKnown, Pending
  <2>3. WillBeTold(id)'
    BY <1>5, <1>6, <2>1 DEF WillBeTold, Note
  <2>4. QED
    BY <1>6, <2>1, <2>2, <2>3
<1>13. ListClears'
  <2>1. ASSUME NEW id \in tui'.pending
        PROVE  ~Outdated(tui', sent'[id].run) /\ WillLeave(id)'
    <3>1. WillBeTold(id)' /\ sent'[id].run = x.run /\ sent[id].run # 0
      BY <1>2, <1>5, <1>12, <2>1
    <3>2. QED
      BY <1>5, <1>6, <3>1 DEF WillLeave, Outdated
  <2>2. QED
    BY <1>7, <1>12, <2>1 DEF ListClears
<1>14. RunReached' /\ DecisionKnown'
  <2>1. \A id \in Ids : ~Ours(id)
    BY <1>4, NoneOfOurs
  <2>2. \A id \in Ids' : ~Ours(id)'
    BY <1>6, <2>1 DEF Ours, Text
  <2>3. QED
    BY <2>2 DEF RunReached, DecisionKnown
<1>15. QED
  BY <1>11, <1>13, <1>14 DEF ScreenInv

\* One notification fewer is on the way, or none.
Fewer == wire' = wire \/ (wire # <<>> /\ wire' = Tail(wire))

\* What is left comes in the same order.
LEMMA ErrorsStay ==
  ASSUME Types, ErrorIsLast, Fewer, srv' = srv, sent' = sent
  PROVE  ErrorIsLast'
<1>1. CASE wire' = wire
  BY <1>1, SameWire DEF ErrorIsLast
<1>2. CASE wire # <<>> /\ wire' = Tail(wire)
  <2>1. /\ wire \in Seq(NoteSet) /\ Len(wire) \in Nat /\ Len(wire) # 0 /\ DOMAIN wire = 1 .. Len(wire)
    BY <1>2 DEF Types
  <2>2. /\ DOMAIN wire' = 1 .. Len(wire) - 1
        /\ \A i \in 1 .. Len(wire) - 1 : wire'[i] = wire[i + 1]
    BY <1>2, <2>1, HeadTailProperties
  <2>3. \A i \in DOMAIN wire' : i \in Nat /\ i + 1 \in DOMAIN wire /\ wire'[i] = wire[i + 1]
    BY <2>1, <2>2
  <2>4. ASSUME NEW i \in DOMAIN wire', NEW j \in DOMAIN wire', i < j,
               wire'[i].type = "compactError", wire'[j].type = "running"
        PROVE  wire'[i].of < wire'[j].of
    <3>1. i + 1 < j + 1 /\ i + 1 \in DOMAIN wire /\ j + 1 \in DOMAIN wire
      BY <2>3, <2>4
    <3>2. QED
      BY <2>3, <2>4, <3>1 DEF ErrorIsLast
  <2>5. Wire' \subseteq Wire
    BY <2>3 DEF Wire
  <2>6. QED
    BY <2>4, <2>5 DEF ErrorIsLast
<1>3. QED
  BY <1>1, <1>2 DEF Fewer

\* What was heard of a message does not stop the screen.
LEMMA StopsHeard ==
  ASSUME Types, Stops, ErrorIsLast, RunsAreTold, NEW type \in MessageTypes, NEW k, Heard(type, k), Fewer, SameRun(tui, tui')
  PROVE  Stops' /\ ErrorIsLast' /\ RunsAreTold'
<1>1. UNCHANGED <<sent, calls, busy, srv>> /\ Ids' = Ids
  BY DEF Heard, Ids
<1>2. /\ Wire' \subseteq Wire
      /\ \A n \in Wire : n.type \notin MessageTypes => n \in Wire'
      /\ \A op, i : No(op, i) => No(op, i)'
  BY NoteFacts DEF Heard
<1>3. /\ \A t, r : t \in RunTypes => Note(t, r).type \notin MessageTypes
      /\ RunTypes = {"running", "end", "cancelling", "compactError", "compactDone", "idle"}
  BY NoteFacts DEF RunTypes, MessageTypes
<1>4. /\ \A r : Note("end", r) \in Wire => Note("end", r) \in Wire'
      /\ \A r : Note("compactError", r) \in Wire => Note("compactError", r) \in Wire'
      /\ \A r : Note("running", r) \in Wire => Note("running", r) \in Wire'
      /\ EndTold => EndTold'
      /\ ErrorTold => ErrorTold'
  BY <1>2, <1>3 DEF EndTold, ErrorTold, MessageTypes
<1>5. ErrorIsLast'
  BY <1>1, ErrorsStay
<1>6. RunsAreTold'
  BY <1>1, <1>2, <1>4 DEF RunsAreTold, SameRun, Note
<1>7. Excused => Excused'
  BY <1>1 DEF Excused, IsBusy, SameRun
<1>8. ASSUME RunsStop, SpinStops
      PROVE  Stops'
  <2>1. RunsStop'
    <3>1. \A n \in Wire :
            /\ n.type = "running" => \/ srv.mode = "running" /\ srv.run = n.of
                                     \/ Note("end", n.of) \in Wire' \/ Note("compactError", n.of) \in Wire'
            /\ n.type = "cancelling" => (WillClose /\ srv.run = n.of) \/ Note("end", n.of) \in Wire'
      BY <1>4, <1>8 DEF RunsStop
    <3>2. QED
      BY <1>1, <1>2, <3>1 DEF RunsStop, WillClose, Note
  <2>2. (StopComes => StopComes') /\ (WillClose => WillClose') /\ (SendComes => SendComes') /\ (Asked("cancel", 0) => Asked("cancel", 0)')
    BY <1>1, <1>4, SameCalls DEF StopComes, WillClose, SendComes
  <2>3. SpinStops'
    BY <1>2, <1>4, <1>8, <2>2 DEF SpinStops, SameRun
  <2>4. QED
    BY <2>1, <2>3 DEF Stops
<1>9. QED
  BY <1>5, <1>6, <1>7, <1>8 DEF Stops

\* What the list becomes.
ListHears(type, k) ==
  \/ Outdated(tui, sent[k].run) /\ tui'.pending = tui.pending /\ tui'.tombs = tui.tombs
  \/ /\ type = "queued" /\ ~Outdated(tui, sent[k].run) /\ tui'.tombs = tui.tombs
     /\ tui'.pending \subseteq tui.pending \cup (IF k \in tui.tombs THEN {} ELSE {k})
  \/ /\ type # "queued" /\ ~Outdated(tui, sent[k].run)
     /\ tui'.pending = tui.pending \ {k} /\ tui'.tombs = tui.tombs \cup {k}

\* What is listed was accepted and not decided, or the client will be told.
LEMMA Listed ==
  ASSUME TextInv, ScreenInv, NEW k \in Ids, Ours(k), sent[k].state \in Accepted, k \notin tui.tombs,
         ~Outdated(tui, sent[k].run), tui.completed <= sent[k].run
  PROVE  WillLeave(k) \/ Coming
<1>1. /\ srv.run \in Nat /\ tui.active \in 0 .. srv.run /\ tui.completed \in 0 .. srv.run
      /\ sent[k].run \in 0 .. srv.run /\ sent[k].run # 0
  BY Ranges DEF TextInv, Ours
<1>2. sent[k].run # tui.completed /\ (tui.active = 0 \/ sent[k].run = tui.active)
  BY DEF Outdated
<1>3. CASE tui.active = sent[k].run
  <2>1. /\ sent[k].state = "applied" => Note("applied", k) \in Wire
        /\ sent[k].state = "rejected" => Note("rejected", k) \in Wire
        /\ sent[k].state = "removed" => Removal(k)
    BY <1>3 DEF ScreenInv, DecisionKnown
  <2>2. QED
    BY <2>1 DEF WillLeave, WillBeTold, Accepted
<1>4. CASE tui.active = 0
  <2>1. ~(tui.active >= sent[k].run) /\ ~(tui.completed >= sent[k].run)
    BY <1>1, <1>2, <1>4
  <2>2. QED
    BY <2>1 DEF ScreenInv, RunReached
<1>5. QED
  BY <1>2, <1>3, <1>4

\* What is heard of a message puts it on the list, or takes it off.
LEMMA MessageScreen ==
  ASSUME TextInv, ScreenInv, NEW type \in MessageTypes, NEW k, Heard(type, k), Fewer, tui.at = "open",
         SameRun(tui, tui'), ListHears(type, k),
         type = "queued" => Text(k) # {} /\ tui.completed <= sent[k].run
  PROVE  ScreenInv'
<1>1. Types /\ Known /\ NotAhead /\ tui.pending \subseteq Ids
  BY DEF TextInv, Known, ClientKnown
<1>2. Stops' /\ ErrorIsLast' /\ RunsAreTold'
  BY <1>1, StopsHeard DEF ScreenInv
<1>3. /\ UNCHANGED <<sent, calls, busy, srv>> /\ Ids' = Ids /\ k \in Ids /\ sent[k].run # 0
      /\ type = "queued" => sent[k].state \in Accepted
      /\ type # "queued" => sent[k].state = type
  BY DEF Heard, Ids
<1>4. /\ Wire' \subseteq Wire /\ Snapshots' = Snapshots
      /\ \A n \in Wire : n \in Wire' \/ n = Note(type, k)
      /\ \A i : Yes("remove", i) => Yes("remove", i)' \/ (type = "removed" /\ i = k)
  BY DEF Heard
<1>5. /\ tui'.active = tui.active /\ tui'.completed = tui.completed /\ tui'.at = tui.at /\ tui'.missed = tui.missed
  BY DEF SameRun
<1>6. \A u \in MessageTypes : \A id : Note(u, id) \in Wire => Note(u, id) \in Wire' \/ (u = type /\ id = k)
  BY <1>4, NoteFacts
<1>7. \A n \in Wire : n.type = "running" => n \in Wire'
  BY <1>4, NoteFacts DEF MessageTypes
<1>8. Coming => Coming'
  BY <1>3, <1>5, <1>7, SameCalls DEF Coming, SendComes, IsBusy
<1>9. \A id \in Ids : /\ Text(id)' = Text(id) /\ (Ours(id)' <=> Ours(id))
                      /\ Outdated(tui', sent'[id].run) <=> Outdated(tui, sent[id].run)
  BY <1>3, <1>5 DEF Ours, Text, Outdated
<1>10. \A id \in Ids : id # k \/ type = "queued" =>
         /\ Removal(id) => Removal(id)'
         /\ Note("applied", id) \in Wire => Note("applied", id) \in Wire'
         /\ Note("rejected", id) \in Wire => Note("rejected", id) \in Wire'
         /\ WillBeTold(id) => WillBeTold(id)'
         /\ WillLeave(id) => WillLeave(id)'
  <2>1. TAKE id \in Ids
  <2>2. HAVE id # k \/ type = "queued"
  <2>3. /\ Note("applied", id) \in Wire => Note("applied", id) \in Wire'
        /\ Note("rejected", id) \in Wire => Note("rejected", id) \in Wire'
        /\ Note("removed", id) \in Wire => Note("removed", id) \in Wire'
    BY <1>6, <2>2 DEF MessageTypes
  <2>4. Removal(id) => Removal(id)'
    BY <1>3, <1>4, <2>2, <2>3, SameBusy DEF Removal, Note
  <2>5. WillBeTold(id) => WillBeTold(id)'
    BY <1>3, <1>5, <2>3 DEF WillBeTold, Note
  <2>6. QED
    BY <1>3, <2>3, <2>4, <2>5 DEF WillLeave
<1>11. tui'.pending \subseteq tui.pending \cup {k}
  BY DEF ListHears
<1>12. ASSUME NEW id \in tui'.pending
       PROVE  ~Outdated(tui', sent'[id].run) /\ (WillLeave(id)' \/ Coming')
  <2>1. id \in Ids
    BY <1>1, <1>3, <1>11, <1>12
  <2>2. CASE id \in tui.pending /\ (id # k \/ type = "queued")
    <3>1. ~Outdated(tui, sent[id].run) /\ (WillLeave(id) \/ Coming)
      BY <2>2 DEF ScreenInv, ListClears
    <3>2. QED
      BY <1>8, <1>9, <1>10, <2>1, <2>2, <3>1
  <2>3. CASE id = k /\ type # "queued"
    <3>1. Outdated(tui, sent[k].run) /\ k \in tui.pending
      BY <1>12, <2>3 DEF ListHears
    <3>2. QED
      BY <3>1 DEF ScreenInv, ListClears
  <2>4. CASE id \notin tui.pending /\ id = k /\ type = "queued"
    <3>1. ~Outdated(tui, sent[k].run) /\ k \notin tui.tombs
      BY <1>12, <2>4 DEF ListHears
    <3>2. Ours(k)
      BY <1>3, <2>4 DEF Ours
    <3>3. WillLeave(k) \/ Coming
      BY <1>3, <2>4, <3>1, <3>2, Listed
    <3>4. QED
      BY <1>8, <1>9, <1>10, <2>1, <2>4, <3>1, <3>3
  <2>5. QED
    BY <1>11, <1>12, <2>2, <2>3, <2>4
<1>13. ListClears'
  <2>1. Snapshots = {}
    BY DEF TextInv, OpensQuietly
  <2>2. QED
    BY <1>4, <1>12, <2>1 DEF ListClears
<1>14. RunReached'
  BY <1>3, <1>5, <1>8, <1>9 DEF ScreenInv, RunReached
<1>15. ASSUME NEW id \in Ids, Ours(id), tui.active = sent[id].run
       PROVE  /\ sent[id].state = "applied" => Note("applied", id) \in Wire' \/ id \in tui'.tombs
              /\ sent[id].state = "rejected" => Note("rejected", id) \in Wire' \/ id \in tui'.tombs
              /\ sent[id].state = "removed" => Removal(id)' \/ id \in tui'.tombs
  <2>1. /\ sent[id].state = "applied" => Note("applied", id) \in Wire \/ id \in tui.tombs
        /\ sent[id].state = "rejected" => Note("rejected", id) \in Wire \/ id \in tui.tombs
        /\ sent[id].state = "removed" => Removal(id) \/ id \in tui.tombs
    BY <1>15 DEF ScreenInv, DecisionKnown
  <2>2. tui.tombs \subseteq tui'.tombs
    BY DEF ListHears
  <2>3. CASE id # k \/ type = "queued"
    BY <1>10, <2>1, <2>2, <2>3
  <2>4. CASE id = k /\ type # "queued"
    <3>1. ~Outdated(tui, sent[k].run)
      BY <1>1, <1>3, <1>15, <2>4 DEF Outdated, NotAhead
    <3>2. k \in tui'.tombs
      BY <2>4, <3>1 DEF ListHears
    <3>3. QED
      BY <2>4, <3>2
  <2>5. QED
    BY <2>3, <2>4
<1>16. DecisionKnown'
  BY <1>3, <1>5, <1>9, <1>15 DEF DecisionKnown, Note
<1>17. QED
  BY <1>2, <1>13, <1>14, <1>16 DEF ScreenInv

\* The list, when what became of a message is merged into it.
LEMMA ListMerged ==
  ASSUME TextInv, NEW k \in Ids, NEW type \in MessageTypes, tui' = Merge(tui, type, k)
  PROVE  SameRun(tui, tui') /\ ListHears(type, k)
<1>1. Types /\ Known /\ Answerable /\ tui \in Clients
  BY DEF TextInv, Types
<1>2. k \in Nat /\ Text(k) \subseteq Nat
  BY <1>1, MessageType
<1>3. CASE Outdated(tui, sent[k].run)
  <2>1. SameButTexts(tui, tui')
    BY <1>1, <1>2, <1>3, MergeOutdated
  <2>2. QED
    BY <1>3, <2>1 DEF SameButTexts, SameRun, ListHears
<1>4. CASE ~Outdated(tui, sent[k].run)
  <2> DEFINE u == Resolve(tui, k, "ok")
  <2>1. u \in Clients /\ SameButTexts(tui, u) /\ u.lost = tui.lost
    BY OneResolved
  <2> DEFINE v == Merge(tui, type, k)
  <2>2. /\ v \in Clients /\ SameRun(tui, v) /\ SameSubs(u, v) /\ v.lost = tui.lost
        /\ type = "queued" =>
             /\ v.pending = IF k \in tui.tombs THEN tui.pending ELSE tui.pending \cup {k}
             /\ v.tombs = tui.tombs /\ v.draft = u.draft
        /\ type # "queued" =>
             /\ v.pending = tui.pending \ {k} /\ v.tombs = tui.tombs \cup {k}
             /\ v.draft = IF type \in {"removed", "rejected"} /\ k \notin tui.tombs
                          THEN u.draft \cup Text(k) ELSE u.draft
    BY <1>1, <1>2, <1>4, <2>1, MergeFacts, ZenonT(30)
  <2>3. tui' = v
    OBVIOUS
  <2> HIDE DEF v
  <2>4. QED
    BY <1>4, <2>2, <2>3 DEF ListHears
<1>5. QED
  BY <1>3, <1>4

\* A message counts as taken, whatever was resolved before.
LEMMA ListTaken ==
  ASSUME NEW t \in Clients, SubsOK(t), NEW k \in Nat, Text(k) \subseteq Nat,
         \A i \in InState(t, "failed") : Text(i) \subseteq Nat
  PROVE  LET v == Merge(t, "queued", k)
         IN /\ SameRun(t, v) /\ v.tombs = t.tombs
            /\ Outdated(t, sent[k].run) => v.pending = t.pending
            /\ ~Outdated(t, sent[k].run) => v.pending = IF k \in t.tombs THEN t.pending ELSE t.pending \cup {k}
<1> DEFINE v == Merge(t, "queued", k)
           u == Resolve(t, k, "ok")
<1>1. u \in Clients /\ SameButTexts(t, u) /\ u.lost = t.lost
  BY ResolveFacts
<1>2. "queued" \in MessageTypes
  BY DEF MessageTypes
<1>3. CASE Outdated(t, sent[k].run)
  <2>1. SameButTexts(t, v)
    BY <1>2, <1>3, MergeOutdated
  <2> HIDE DEF v
  <2>2. SameRun(t, v) /\ v.tombs = t.tombs /\ v.pending = t.pending
    BY <2>1 DEF SameButTexts, SameRun
  <2>3. QED
    BY <1>3, <2>2 DEF v
<1>4. CASE ~Outdated(t, sent[k].run)
  <2>1. /\ SameRun(t, v)
        /\ "queued" = "queued" =>
             /\ v.pending = IF k \in t.tombs THEN t.pending ELSE t.pending \cup {k}
             /\ v.tombs = t.tombs /\ v.draft = u.draft
    BY <1>1, <1>2, <1>4, MergeFacts, ZenonT(30)
  <2> HIDE DEF v
  <2>2. /\ SameRun(t, v) /\ v.tombs = t.tombs
        /\ v.pending = IF k \in t.tombs THEN t.pending ELSE t.pending \cup {k}
    BY <2>1
  <2>3. QED
    BY <1>4, <2>2 DEF v
<1>5. QED
  BY <1>3, <1>4

\* A steering call has succeeded.
LEMMA TakenScreen ==
  ASSUME TextInv, ScreenInv, NEW x, ReplyHandled(x), x.op = "steer", x.ok
  PROVE  ScreenInv'
<1> PICK k, u : k = x.id /\ u = Resolve(tui, k, "ok")
  OBVIOUS
<1>1. Types /\ Known /\ Answerable /\ AnsweredTruly /\ AnsweredInTime /\ NotAhead
  BY DEF TextInv
<1>2. Heard("queued", k) /\ k \in Ids /\ "queued" \in MessageTypes /\ Yes("steer", k) /\ tui.at = "open"
  BY ReplyHeard, ReplyFacts DEF Heard, MessageTypes
<1>3. /\ u \in Clients /\ SubsOK(u) /\ SameButTexts(tui, u)
      /\ InState(u, "failed") \subseteq Faileds
  BY <1>2, OneResolved
<1>4. k \in Nat /\ Text(k) \subseteq Nat /\ \A i \in InState(u, "failed") : Text(i) \subseteq Nat
  BY <1>1, <1>2, <1>3, ClientKnows, MessageType
<1>5. tui' = Merge(u, "queued", k)
  BY DEF ReplyHandled, Reply
<1>6. /\ SameRun(u, tui') /\ tui'.tombs = u.tombs
      /\ Outdated(u, sent[k].run) => tui'.pending = u.pending
      /\ ~Outdated(u, sent[k].run) => tui'.pending = IF k \in u.tombs THEN u.pending ELSE u.pending \cup {k}
  BY <1>3, <1>4, <1>5, ListTaken
<1>7. SameRun(tui, tui') /\ ListHears("queued", k)
  BY <1>3, <1>6 DEF SameRun, SameButTexts, ListHears, Outdated
<1>8. Text(k) # {} /\ tui.completed <= sent[k].run
  <2>1. /\ srv.run \in Nat /\ tui.completed \in 0 .. srv.run /\ sent[k].run \in 0 .. srv.run
    BY <1>1, <1>2, Ranges
  <2>2. Text(k) # {} /\ (sent[k].run = srv.run \/ (srv.mode = "running" /\ sent[k].run + 1 = srv.run))
    BY <1>1, <1>2 DEF AnsweredTruly, AnsweredInTime
  <2>3. srv.mode = "running" => tui.completed = 0 \/ tui.completed < srv.run
    BY <1>1 DEF NotAhead
  <2>4. QED
    BY <2>1, <2>2, <2>3
<1>9. Fewer
  BY DEF Fewer, ReplyHandled
<1>10. QED
  BY <1>2, <1>7, <1>8, <1>9, MessageScreen

\* A message was taken back.
LEMMA RemovedScreen ==
  ASSUME TextInv, ScreenInv, NEW x, ReplyHandled(x), x.op = "remove", x.ok
  PROVE  ScreenInv'
<1>1. Heard("removed", x.id) /\ x.id \in Ids /\ "removed" \in MessageTypes /\ tui.at = "open"
  BY ReplyHeard, ReplyFacts DEF Heard, MessageTypes
<1>2. tui' = Merge(tui, "removed", x.id) /\ Fewer
  BY DEF ReplyHandled, Reply, Fewer
<1>3. QED
  BY <1>1, <1>2, ListMerged, MessageScreen

\* Whatever is answered.
LEMMA ReplyScreen ==
  ASSUME TextInv, TextInv', ScreenInv, HandleReply
  PROVE  ScreenInv'
<1>1. PICK x : ReplyHandled(x)
  BY DEF HandleReply, ReplyHandled
<1>2. CASE x.op = "attach"
  BY <1>1, <1>2, AppliedScreen
<1>3. CASE x.op # "attach"
  <2>1. /\ x.op \in {"steer", "send", "remove", "cancel"}
        /\ x.ok => Yes(x.op, x.id)
    BY <1>1, <1>3, ReplyFacts
  <2>2. \A i : ~Yes("send", i) /\ ~Yes("cancel", i)
    BY DEF TextInv, AnsweredTruly
  <2>3. CASE x.ok
    BY <1>1, <2>1, <2>2, <2>3, TakenScreen, RemovedScreen
  <2>4. CASE ~x.ok
    BY <1>1, <1>3, <2>4, RefusedScreen
  <2>5. QED
    BY <2>3, <2>4
<1>4. QED
  BY <1>2, <1>3

-----------------------------------------------------------------------------
(* What is told is handled.                                                *)

\* A message is told of.
LEMMA MessageNoteScreen ==
  ASSUME TextInv, ScreenInv, HandleNote, tui.at = "open", Head(wire).type \in MessageTypes
  PROVE  ScreenInv'
<1> PICK n, t, k : n = Head(wire) /\ t = n.type /\ k = n.of
  OBVIOUS
<1>1. Heard(t, k) /\ n = Note(t, k) /\ n \in Wire /\ k \in Ids /\ t \in MessageTypes
  BY NoteHeard DEF Heard
<1>2. tui' = Merge(tui, t, k)
  BY DEF HandleNote, Handled, MessageTypes
<1>3. SameRun(tui, tui') /\ ListHears(t, k)
  BY <1>1, <1>2, ListMerged
<1>4. t = "queued" => Text(k) # {}
  BY <1>1 DEF TextInv, ToldIsTrue
<1>5. tui.completed <= sent[k].run
  <2>1. n.type # "idle" /\ RunOf(n) = sent[k].run
    BY <1>1 DEF RunOf, MessageTypes
  <2>2. QED
    BY <1>1, <2>1 DEF TextInv, NotAhead
<1>6. Fewer
  BY DEF HandleNote, Fewer
<1>7. QED
  BY <1>1, <1>3, <1>4, <1>5, <1>6, MessageScreen

\* The first of what is on the way.
LEMMA FirstFacts ==
  ASSUME TextInv, HandleNote, NEW n, n = Head(wire)
  PROVE  /\ UNCHANGED <<sent, calls, busy, srv, replies>> /\ Ids' = Ids
         /\ n \in NoteSet /\ n \in Wire /\ Wire' \subseteq Wire
         /\ \A m \in Wire : m = n \/ m \in Wire'
         /\ \A m \in Wire' : Before(n, m)
         /\ \A m \in Wire : m.type \notin MessageTypes => RunOf(m) = m.of /\ m.of \in Nat
         /\ n.type \in RunTypes \ {"idle"} => /\ n.of \in 1 .. srv.run /\ tui.active <= n.of /\ tui.completed <= n.of
                                              /\ \A m \in Wire' : m.type # "idle" => n.of <= RunOf(m)
         /\ n = Note(n.type, n.of) /\ Fewer
<1>1. Types /\ Known /\ InRunOrder /\ NotAhead
  BY DEF TextInv
<1>2. /\ n \in NoteSet /\ n \in Wire /\ Wire' \subseteq Wire
      /\ (\A m \in Wire : m = n \/ m \in Wire') /\ (\A m \in Wire' : Before(n, m))
  BY <1>1, HandledFacts DEF HandleNote
<1>3. UNCHANGED <<sent, calls, busy, srv, replies>> /\ Ids' = Ids /\ Fewer
  BY DEF HandleNote, Fewer, Ids
<1>4. \A m \in Wire : m.type \notin MessageTypes => RunOf(m) = m.of /\ m.of \in Nat
  <2>1. \A m \in Wire : m \in NoteSet
    BY <1>1 DEF Types, Wire
  <2>2. QED
    BY <2>1 DEF RunOf, NoteSet
<1>5. n = Note(n.type, n.of)
  BY <1>2 DEF NoteSet, Note
<1>6. n.type \in RunTypes \ {"idle"} => /\ n.of \in 1 .. srv.run /\ tui.active <= n.of /\ tui.completed <= n.of
                                        /\ \A m \in Wire' : m.type # "idle" => n.of <= RunOf(m)
  <2>1. HAVE n.type \in RunTypes \ {"idle"}
  <2>2. n.type # "idle" /\ RunOf(n) = n.of
    BY <1>2, <1>4, <2>1 DEF RunTypes, MessageTypes
  <2>3. n.of \in 1 .. srv.run
    BY <1>1, <1>2, <2>2, Ranges
  <2>4. QED
    BY <1>1, <1>2, <2>2, <2>3 DEF NotAhead, Before
<1>7. QED
  BY <1>2, <1>3, <1>4, <1>5, <1>6

\* What is told while the session is being opened.
LEMMA MissedScreen ==
  ASSUME TextInv, ScreenInv, HandleNote, tui.at # "open"
  PROVE  ScreenInv'
<1> PICK n : n = Head(wire)
  OBVIOUS
<1>1. /\ Types /\ Known /\ OpensQuietly /\ NotAhead /\ tui \in Clients
  BY DEF TextInv, Types
<1>2. /\ UNCHANGED <<sent, calls, busy, srv, replies>> /\ Ids' = Ids
      /\ n \in NoteSet /\ n \in Wire /\ Wire' \subseteq Wire
      /\ \A m \in Wire : m = n \/ m \in Wire'
      /\ \A m \in Wire : m.type \notin MessageTypes => RunOf(m) = m.of /\ m.of \in Nat
      /\ n.type \in RunTypes \ {"idle"} => n.of \in 1 .. srv.run
      /\ n = Note(n.type, n.of) /\ Fewer
  BY FirstFacts
<1>3. tui.subs = {} /\ srv.run = 1 /\ tui.cancelling = FALSE /\ n.type # "cancelling"
  <2>1. tui.cancelling \in BOOLEAN
    BY <1>1 DEF Clients
  <2>2. QED
    BY <1>1, <1>2, <2>1 DEF OpensQuietly
<1>4. /\ tui'.at = tui.at /\ tui'.cancelling = FALSE /\ tui'.missed = tui.missed \cup {n} /\ tui'.active \in Nat
  <2> DEFINE v == Handled(tui, n)
  <2>1. n.type = "running" => srv.mine[n.of] \in BOOLEAN
    <3>1. srv \in SessionSet /\ (n.type = "running" => n.of \in 1 .. MaxRuns)
      BY <1>1, <1>2, <1>3, SteeringClientAssumption DEF Types, Known, SentKnown, RunTypes
    <3>2. QED
      BY <3>1 DEF SessionSet
  <2>2. n.type \in MessageTypes => Text(n.of) = {}
    <3>1. n.type \in MessageTypes => n.of \in Ids
      BY <1>1, <1>2 DEF Known, WireKnown
    <3>2. QED
      BY <1>1, <3>1 DEF OpensQuietly, Known, SentKnown
  <2>3. Quiet(tui, v)
    BY <1>1, <1>2, <1>3, <2>1, <2>2, HandledQuietly
  <2>4. tui' = [v EXCEPT !.missed = @ \cup {n}]
    BY DEF HandleNote
  <2> HIDE DEF v
  <2>5. QED
    BY <2>3, <2>4 DEF Quiet, Clients
<1>5. Excused => Excused'
  BY <1>2, <1>4 DEF Excused, IsBusy
<1>6. n.type \in {"end", "compactError"} => Excused'
  BY <1>2, <1>4 DEF Excused, RunTypes
<1>7. ASSUME RunsStop, SpinStops, n.type \notin {"end", "compactError"}
      PROVE  Stops'
  <2>1. /\ \A r : Note("end", r) \in Wire => Note("end", r) \in Wire'
        /\ \A r : Note("compactError", r) \in Wire => Note("compactError", r) \in Wire'
        /\ EndTold => EndTold'
        /\ ErrorTold => ErrorTold'
    BY <1>2, <1>7, NoteFacts DEF EndTold, ErrorTold
  <2>2. \A m \in Wire :
          /\ m.type = "running" => \/ srv.mode = "running" /\ srv.run = m.of
                                   \/ Note("end", m.of) \in Wire' \/ Note("compactError", m.of) \in Wire'
          /\ m.type = "cancelling" => (WillClose /\ srv.run = m.of) \/ Note("end", m.of) \in Wire'
    BY <1>7, <2>1 DEF RunsStop
  <2>3. RunsStop'
    BY <1>2, <2>2 DEF RunsStop, WillClose, Note
  <2>4. StopComes'
    BY <1>2, <1>7, <2>1 DEF SpinStops, StopComes
  <2>5. SpinStops'
    BY <1>4, <2>4 DEF SpinStops
  <2>6. QED
    BY <2>3, <2>5 DEF Stops
<1>8. Stops'
  BY <1>5, <1>6, <1>7 DEF ScreenInv, Stops
<1>9. ErrorIsLast'
  BY <1>1, <1>2, ErrorsStay DEF ScreenInv
<1>10. RunsAreTold'
  <2>1. ASSUME NEW m \in Wire', m.type = "running"
        PROVE  m.of + 1 .. srv'.run = {}
    <3>1. m \in Wire /\ m.type # "idle" /\ m.type \notin MessageTypes
      BY <1>2, <2>1 DEF MessageTypes
    <3>2. m.of \in 1 .. srv.run
      BY <1>1, <1>2, <3>1, Ranges
    <3>3. QED
      BY <1>2, <1>3, <3>2
  <2>2. tui'.active # 0 => tui'.active + 1 .. srv'.run = {}
    BY <1>2, <1>3, <1>4
  <2>3. QED
    BY <2>1, <2>2 DEF RunsAreTold
<1>11. ListClears'
  <2>1. Snapshots' = Snapshots
    BY <1>2, SameReplies
  <2>2. Wire \cup tui.missed \subseteq Wire' \cup tui'.missed
    BY <1>2, <1>4
  <2>3. \A id : WillBeTold(id) => WillBeTold(id)'
    BY <1>2, <2>2 DEF WillBeTold, Note
  <2>4. \A x \in Snapshots : \A id \in x.pending : WillBeTold(id) /\ sent[id].run = x.run
    BY DEF ScreenInv, ListClears
  <2>5. QED
    BY <1>2, <1>4, <2>1, <2>3, <2>4 DEF ListClears
<1>12. RunReached' /\ DecisionKnown'
  <2>1. \A id \in Ids : ~Ours(id)
    BY NoneOfOurs
  <2>2. \A id \in Ids' : ~Ours(id)'
    BY <1>2, <2>1 DEF Ours, Text
  <2>3. QED
    BY <2>2 DEF RunReached, DecisionKnown
<1>13. QED
  BY <1>8, <1>9, <1>10, <1>11, <1>12 DEF ScreenInv

\* The runs are told one by one, when the first of what is told is handled.
LEMMA RunsToldHandled ==
  ASSUME TextInv, ScreenInv, HandleNote, NEW n, n = Head(wire),
         \/ n.type # "running" /\ tui'.active \in {0, tui.active}
         \/ n.type = "running" /\ tui'.active = tui.active /\ (n.of <= tui.active \/ n.of <= tui.completed)
         \/ n.type = "running" /\ tui'.active = n.of
  PROVE  RunsAreTold'
<1>1. /\ UNCHANGED <<sent, calls, busy, srv, replies>> /\ n \in Wire /\ Wire' \subseteq Wire
      /\ \A m \in Wire : m = n \/ m \in Wire'
      /\ \A m \in Wire : m.type \notin MessageTypes => RunOf(m) = m.of /\ m.of \in Nat
      /\ n.type \in RunTypes \ {"idle"} => /\ n.of \in 1 .. srv.run /\ tui.active <= n.of /\ tui.completed <= n.of
                                           /\ \A m \in Wire' : m.type # "idle" => n.of <= RunOf(m)
      /\ n = Note(n.type, n.of)
  BY FirstFacts
<1>2. /\ srv.run \in Nat /\ tui.active \in 0 .. srv.run /\ tui.completed \in 0 .. srv.run
      /\ (tui.active # 0 => tui.completed = 0)
  BY Ranges DEF TextInv, NotAhead
<1>3. \A r : Note("running", r) \in Wire => Note("running", r) \in Wire' \/ (n.type = "running" /\ r = n.of)
  BY <1>1, NoteFacts
<1>4. n.type = "running" => n.of \in 1 .. srv.run /\ \A m \in Wire' : m.type = "running" => n.of <= m.of
  <2>1. n.type = "running" => n.type \in RunTypes \ {"idle"}
    BY DEF RunTypes
  <2>2. \A m \in Wire : m.type = "running" => m.type # "idle" /\ m.type \notin MessageTypes
    BY DEF MessageTypes
  <2>3. QED
    BY <1>1, <2>1, <2>2
<1>5. ASSUME NEW m \in Wire', m.type = "running", NEW r \in m.of + 1 .. srv.run
      PROVE  Note("running", r) \in Wire'
  <2>1. m \in Wire /\ m.type \notin MessageTypes
    BY <1>1, <1>5 DEF MessageTypes
  <2>2. m.of \in Nat /\ Note("running", r) \in Wire
    BY <1>1, <1>5, <2>1 DEF ScreenInv, RunsAreTold
  <2>3. n.type = "running" => r # n.of
    BY <1>2, <1>4, <1>5, <2>2
  <2>4. QED
    BY <1>3, <2>2, <2>3
<1>6. ASSUME tui'.active # 0, NEW r \in tui'.active + 1 .. srv.run
      PROVE  Note("running", r) \in Wire'
  <2>1. CASE tui'.active = tui.active
    <3>1. Note("running", r) \in Wire
      BY <1>6, <2>1 DEF ScreenInv, RunsAreTold
    <3>2. n.type = "running" => n.of <= tui.active
      <4>1. tui.completed = 0
        BY <1>2, <1>6, <2>1
      <4>2. QED
        BY <1>2, <1>4, <2>1, <4>1
    <3>3. n.type = "running" => r # n.of
      BY <1>2, <1>4, <1>6, <2>1, <3>2
    <3>4. QED
      BY <1>3, <3>1, <3>3
  <2>2. CASE n.type = "running" /\ tui'.active = n.of
    <3>1. Note("running", r) \in Wire
      BY <1>1, <1>6, <2>2 DEF ScreenInv, RunsAreTold
    <3>2. r # n.of
      BY <1>2, <1>4, <1>6, <2>2
    <3>3. QED
      BY <1>3, <3>1, <3>2
  <2>3. QED
    BY <1>6, <2>1, <2>2
<1>7. QED
  BY <1>1, <1>5, <1>6 DEF RunsAreTold, Note

\* What stops the screen goes on to come, unless it is what is handled.
LEMMA RunsStopHandled ==
  ASSUME TextInv, ScreenInv, HandleNote, NEW n, n = Head(wire), n.type \notin MessageTypes, RunsStop
  PROVE  /\ RunsStop'
         /\ WillClose' <=> WillClose
         /\ EndTold /\ n.type # "end" => EndTold'
         /\ ErrorTold /\ n.type # "compactError" => ErrorTold'
         /\ StopComes /\ n.type \notin {"end", "compactError"} => StopComes'
         /\ n.type = "running" => StopComes'
         /\ n.type = "cancelling" => WillClose' \/ EndTold'
<1>1. /\ UNCHANGED <<sent, calls, busy, srv, replies>> /\ n \in Wire /\ Wire' \subseteq Wire
      /\ \A m \in Wire : m = n \/ m \in Wire'
      /\ \A m \in Wire' : Before(n, m)
      /\ \A m \in Wire : m.type \notin MessageTypes => RunOf(m) = m.of /\ m.of \in Nat
      /\ n = Note(n.type, n.of)
  BY FirstFacts
<1>2. /\ \A r : Note("end", r) \in Wire => Note("end", r) \in Wire' \/ (n.type = "end" /\ r = n.of)
      /\ \A r : Note("compactError", r) \in Wire => Note("compactError", r) \in Wire' \/ (n.type = "compactError" /\ r = n.of)
  BY <1>1, NoteFacts
<1>3. \A m \in Wire' : m.type \in {"running", "cancelling"} /\ n.type = "end" => n.of < m.of
  <2>1. TAKE m \in Wire'
  <2>2. HAVE m.type \in {"running", "cancelling"} /\ n.type = "end"
  <2>3. RunOf(n) < RunOf(m)
    BY <1>1, <2>2 DEF Before, InRun
  <2>4. m \in Wire /\ m.type \notin MessageTypes
    BY <1>1, <2>2 DEF MessageTypes
  <2>5. QED
    BY <1>1, <2>3, <2>4
<1>4. \A m \in Wire' : m.type = "running" /\ n.type = "compactError" => n.of < m.of
  <2>1. TAKE m \in Wire'
  <2>2. HAVE m.type = "running" /\ n.type = "compactError"
  <2>3. wire \in Seq(NoteSet) /\ wire # <<>> /\ wire' = Tail(wire)
    BY DEF TextInv, Types, HandleNote
  <2>4. /\ DOMAIN wire = 1 .. Len(wire) /\ Len(wire) \in Nat /\ Len(wire) # 0 /\ n = wire[1]
        /\ DOMAIN wire' = 1 .. Len(wire) - 1
        /\ \A i \in 1 .. Len(wire) - 1 : wire'[i] = wire[i + 1]
    BY <2>3, HeadTailProperties
  <2>5. PICK i \in DOMAIN wire' : m = wire'[i]
    BY DEF Wire
  <2>6. 1 \in DOMAIN wire /\ i + 1 \in DOMAIN wire /\ 1 < i + 1 /\ m = wire[i + 1]
    BY <2>4, <2>5
  <2>7. QED
    BY <2>2, <2>4, <2>6 DEF ScreenInv, ErrorIsLast
<1>5. /\ EndTold /\ n.type # "end" => EndTold'
      /\ ErrorTold /\ n.type # "compactError" => ErrorTold'
  BY <1>1 DEF EndTold, ErrorTold
<1>6. /\ \A r : Note("end", r) \in Wire' => EndTold'
      /\ \A r : Note("compactError", r) \in Wire' => ErrorTold'
  BY NoteFacts DEF EndTold, ErrorTold
<1>7. WillClose' <=> WillClose
  BY <1>1 DEF WillClose
<1>8. RunsStop'
  <2>1. ASSUME NEW m \in Wire'
        PROVE  /\ m.type = "running" => \/ srv.mode = "running" /\ srv.run = m.of
                                        \/ Note("end", m.of) \in Wire' \/ Note("compactError", m.of) \in Wire'
               /\ m.type = "cancelling" => (WillClose /\ srv.run = m.of) \/ Note("end", m.of) \in Wire'
    <3>1. /\ m.type = "running" => \/ srv.mode = "running" /\ srv.run = m.of
                                   \/ Note("end", m.of) \in Wire \/ Note("compactError", m.of) \in Wire
          /\ m.type = "cancelling" => (WillClose /\ srv.run = m.of) \/ Note("end", m.of) \in Wire
      BY <1>1, <2>1 DEF RunsStop
    <3>2. m.type \in {"running", "cancelling"} /\ n.type = "end" => n.of # m.of
      <4>1. HAVE m.type \in {"running", "cancelling"} /\ n.type = "end"
      <4>2. n.of < m.of /\ m \in Wire /\ m.type \notin MessageTypes
        BY <1>1, <1>3, <2>1, <4>1 DEF MessageTypes
      <4>3. n.of \in Nat
        BY <1>1
      <4>4. QED
        BY <4>2, <4>3
    <3>3. m.type = "running" /\ n.type = "compactError" => n.of # m.of
      <4>1. HAVE m.type = "running" /\ n.type = "compactError"
      <4>2. n.of < m.of /\ n.of \in Nat
        BY <1>1, <1>4, <2>1, <4>1
      <4>3. QED
        BY <4>2
    <3>4. QED
      BY <1>2, <3>1, <3>2, <3>3
  <2>2. QED
    BY <1>1, <1>7, <2>1 DEF RunsStop, Note
<1>9. StopComes /\ n.type \notin {"end", "compactError"} => StopComes'
  BY <1>1, <1>5 DEF StopComes
<1>10. n.type = "running" => StopComes'
  <2>1. HAVE n.type = "running"
  <2>2. \/ srv.mode = "running" /\ srv.run = n.of
        \/ Note("end", n.of) \in Wire \/ Note("compactError", n.of) \in Wire
    BY <1>1, <2>1 DEF RunsStop
  <2>3. QED
    BY <1>1, <1>2, <1>6, <2>1, <2>2 DEF StopComes
<1>11. n.type = "cancelling" => WillClose' \/ EndTold'
  <2>1. HAVE n.type = "cancelling"
  <2>2. (WillClose /\ srv.run = n.of) \/ Note("end", n.of) \in Wire
    BY <1>1, <2>1 DEF RunsStop
  <2>3. QED
    BY <1>2, <1>6, <1>7, <2>1, <2>2
<1>12. QED
  BY <1>5, <1>7, <1>8, <1>9, <1>10, <1>11

\* What is told of a run, and the list stays.
LEMMA OtherScreen ==
  ASSUME TextInv, ScreenInv, HandleNote, tui.at = "open", NEW n, n = Head(wire),
         n.type \in {"idle", "cancelling", "compactDone", "compactError", "running"},
         n.type = "running" => n.of <= tui.active \/ n.of <= tui.completed,
         tui'.at = "open", tui'.missed = tui.missed, tui'.pending = tui.pending, tui'.tombs = tui.tombs,
         tui'.active = tui.active, tui'.completed = tui.completed,
         tui'.cancelling => tui.cancelling \/ n.type = "cancelling",
         tui'.loading => tui.loading \/ n.type \in {"cancelling", "running"},
         n.type = "compactError" => ~tui'.loading
  PROVE  ScreenInv'
<1>1. /\ UNCHANGED <<sent, calls, busy, srv, replies>> /\ Ids' = Ids /\ n \in Wire /\ Wire' \subseteq Wire
      /\ \A m \in Wire : m = n \/ m \in Wire'
      /\ n = Note(n.type, n.of) /\ Fewer
  BY FirstFacts
<1>2. Types /\ n.type \notin MessageTypes
  BY DEF TextInv, MessageTypes
<1>3. ErrorIsLast'
  BY <1>1, <1>2, ErrorsStay DEF ScreenInv
<1>4. RunsAreTold'
  BY RunsToldHandled
<1>5. Excused => Excused'
  BY <1>1 DEF Excused, IsBusy
<1>6. ASSUME RunsStop, SpinStops
      PROVE  Stops'
  <2>1. /\ RunsStop'
        /\ WillClose' <=> WillClose
        /\ EndTold => EndTold'
        /\ StopComes /\ n.type # "compactError" => StopComes'
        /\ n.type = "running" => StopComes'
        /\ n.type = "cancelling" => WillClose' \/ EndTold'
    BY <1>2, <1>6, RunsStopHandled
  <2>2. /\ SendComes => SendComes'
        /\ Asked("cancel", 0) => Asked("cancel", 0)'
        /\ No("cancel", 0) => No("cancel", 0)'
    BY <1>1, SameCalls, SameReplies DEF SendComes
  <2>3. EndTold' => StopComes'
    BY DEF StopComes
  <2>4. tui'.cancelling => Asked("cancel", 0)' \/ No("cancel", 0)' \/ WillClose' \/ EndTold'
    BY <1>6, <2>1, <2>2 DEF SpinStops
  <2>5. tui'.loading => SendComes' \/ WillClose' \/ StopComes'
    BY <1>6, <2>1, <2>2, <2>3 DEF SpinStops
  <2>6. QED
    BY <2>1, <2>4, <2>5 DEF Stops, SpinStops
<1>7. Stops'
  BY <1>5, <1>6 DEF ScreenInv, Stops
<1>8. \A u \in MessageTypes : \A id : Note(u, id) \in Wire => Note(u, id) \in Wire'
  BY <1>1, <1>2, NoteFacts
<1>9. \A id : /\ Removal(id) => Removal(id)'
              /\ WillBeTold(id) => WillBeTold(id)'
              /\ WillLeave(id) => WillLeave(id)'
              /\ Note("applied", id) \in Wire => Note("applied", id) \in Wire'
              /\ Note("rejected", id) \in Wire => Note("rejected", id) \in Wire'
  <2>1. TAKE id
  <2>2. /\ Note("applied", id) \in Wire => Note("applied", id) \in Wire'
        /\ Note("rejected", id) \in Wire => Note("rejected", id) \in Wire'
        /\ Note("removed", id) \in Wire => Note("removed", id) \in Wire'
    BY <1>8 DEF MessageTypes
  <2>3. Removal(id) => Removal(id)'
    BY <1>1, <2>2, SameBusy, SameReplies DEF Removal, Note
  <2>4. WillBeTold(id) => WillBeTold(id)'
    BY <1>1, <2>2 DEF WillBeTold, Note
  <2>5. QED
    BY <1>1, <2>2, <2>3, <2>4 DEF WillLeave
<1>10. Coming => Coming'
  <2>1. /\ tui.active \in Nat /\ tui.completed \in Nat
        /\ n.type = "running" => n.of \in Nat
    BY FirstFacts, Ranges DEF TextInv, RunTypes
  <2>2. ASSUME NEW m \in Wire, m.type = "running", tui.active < m.of, tui.completed < m.of
        PROVE  m \in Wire'
    BY <1>1, <2>1, <2>2
  <2>3. QED
    BY <1>1, <2>2, SameCalls DEF Coming, SendComes, IsBusy
<1>11. ListClears'
  <2>1. Snapshots' = Snapshots
    BY <1>1, SameReplies
  <2>2. \A x \in Snapshots : \A id \in x.pending : WillBeTold(id) /\ sent[id].run = x.run
    BY DEF ScreenInv, ListClears
  <2>3. \A id \in tui.pending : ~Outdated(tui, sent[id].run) /\ (WillLeave(id) \/ Coming)
    BY DEF ScreenInv, ListClears
  <2>4. \A id \in tui'.pending : ~Outdated(tui', sent'[id].run) /\ (WillLeave(id)' \/ Coming')
    BY <1>1, <1>9, <1>10, <2>3 DEF Outdated
  <2>5. QED
    BY <1>1, <1>9, <2>1, <2>2, <2>4 DEF ListClears
<1>12. RunReached'
  BY <1>1, <1>10 DEF ScreenInv, RunReached, Ours, Text
<1>13. DecisionKnown'
  <2>1. ASSUME NEW id \in Ids, Ours(id), tui.active = sent[id].run
        PROVE  /\ sent[id].state = "applied" => Note("applied", id) \in Wire' \/ id \in tui'.tombs
               /\ sent[id].state = "rejected" => Note("rejected", id) \in Wire' \/ id \in tui'.tombs
               /\ sent[id].state = "removed" => Removal(id)' \/ id \in tui'.tombs
    BY <1>9, <2>1 DEF ScreenInv, DecisionKnown
  <2>2. QED
    BY <1>1, <2>1 DEF DecisionKnown, Ours, Text, Note
<1>14. QED
  BY <1>3, <1>4, <1>7, <1>11, <1>12, <1>13 DEF ScreenInv

\* Another run has begun.
LEMMA TakesOverScreen ==
  ASSUME TextInv, ScreenInv, HandleNote, tui.at = "open", NEW n, n = Head(wire), n.type = "running",
         n.of # tui.completed, n.of # tui.active
  PROVE  ScreenInv'
<1>1. /\ UNCHANGED <<sent, calls, busy, srv, replies>> /\ Ids' = Ids /\ n \in Wire /\ Wire' \subseteq Wire
      /\ \A m \in Wire : m.type \notin MessageTypes => RunOf(m) = m.of /\ m.of \in Nat
      /\ n.of \in 1 .. srv.run /\ Fewer
  BY FirstFacts DEF RunTypes
<1>2. Types /\ Known /\ AtItsRun /\ Answerable /\ NotAhead /\ OpensQuietly /\ n.type \notin MessageTypes
  BY DEF TextInv, MessageTypes
<1>3. tui' = Running(tui, n.of) /\ srv.mine[n.of] \in BOOLEAN
  <2>1. n.of \in 1 .. MaxRuns /\ srv \in SessionSet
    BY <1>1, <1>2, SteeringClientAssumption DEF Known, SentKnown, Types, SessionSet
  <2>2. QED
    BY <2>1 DEF HandleNote, Handled, SessionSet
<1>4. /\ tui'.active = n.of /\ tui'.completed = 0 /\ tui'.at = "open" /\ tui'.missed = tui.missed
      /\ tui'.cancelling = tui.cancelling /\ tui'.pending = {} /\ tui'.tombs = {}
  BY <1>1, <1>2, <1>3, ClientFits, RunningFacts
<1>5. ErrorIsLast' /\ RunsAreTold'
  BY <1>1, <1>2, <1>4, ErrorsStay, RunsToldHandled DEF ScreenInv
<1>6. Excused => Excused'
  BY <1>1, <1>4 DEF Excused, IsBusy
<1>7. ASSUME RunsStop, SpinStops
      PROVE  Stops'
  <2>1. /\ RunsStop' /\ StopComes'
        /\ WillClose' <=> WillClose
        /\ EndTold => EndTold'
    BY <1>2, <1>7, RunsStopHandled
  <2>2. /\ Asked("cancel", 0) => Asked("cancel", 0)'
        /\ No("cancel", 0) => No("cancel", 0)'
    BY <1>1, SameCalls, SameReplies
  <2>3. SpinStops'
    BY <1>4, <1>7, <2>1, <2>2 DEF SpinStops
  <2>4. QED
    BY <2>1, <2>3 DEF Stops
<1>8. Stops'
  BY <1>6, <1>7 DEF ScreenInv, Stops
<1>9. ListClears'
  <2>1. Snapshots' = {}
    BY <1>1, <1>2, SameReplies DEF OpensQuietly
  <2>2. QED
    BY <1>4, <2>1 DEF ListClears
<1>10. \A id \in Ids : Ours(id) => sent[id].run < n.of
  <2>1. TAKE id \in Ids
  <2>2. HAVE Ours(id)
  <2>3. sent[id].run \in Nat /\ tui.active \in Nat /\ tui.active <= n.of
    BY <1>2, FirstFacts, Ranges DEF RunTypes
  <2>4. CASE tui.active = sent[id].run
    BY <1>1, <2>3, <2>4
  <2>5. CASE Passed(sent[id].run)
    BY <1>1, <1>2, <2>5 DEF Passed, InRun
  <2>6. QED
    BY <1>2, <2>2, <2>4, <2>5 DEF AtItsRun
<1>11. RunReached' /\ DecisionKnown'
  <2>1. \A id \in Ids' : Ours(id)' => sent'[id].run < n.of /\ sent'[id].run \in Nat
    BY <1>1, <1>2, <1>10, Ranges DEF Ours, Text
  <2>2. n.of \in Nat
    BY <1>1
  <2>3. QED
    BY <1>4, <2>1, <2>2 DEF RunReached, DecisionKnown
<1>12. QED
  BY <1>5, <1>8, <1>9, <1>11 DEF ScreenInv

\* The run is over.
LEMMA EndScreen ==
  ASSUME TextInv, ScreenInv, HandleNote, tui.at = "open", NEW n, n = Head(wire), n.type = "end"
  PROVE  ScreenInv'
<1>1. /\ UNCHANGED <<sent, calls, busy, srv, replies>> /\ Ids' = Ids /\ n \in Wire /\ Wire' \subseteq Wire
      /\ \A m \in Wire : m = n \/ m \in Wire'
      /\ \A m \in Wire' : Before(n, m)
      /\ \A m \in Wire : m.type \notin MessageTypes => RunOf(m) = m.of /\ m.of \in Nat
      /\ n.of \in 1 .. srv.run /\ tui.active <= n.of /\ tui.completed <= n.of /\ Fewer
  BY FirstFacts DEF RunTypes
<1>2. Types /\ Known /\ AtItsRun /\ Answerable /\ NotAhead /\ OpensQuietly /\ n.type \notin MessageTypes
  BY DEF TextInv, MessageTypes
<1>3. srv.run \in Nat /\ tui.active \in 0 .. srv.run
  BY <1>2, Ranges
<1>4. n.of # tui.completed /\ (tui.active = 0 \/ n.of = tui.active)
  <2>1. n.of # tui.completed
    BY <1>1, <1>2 DEF NotAhead
  <2>2. ASSUME tui.active # 0, n.of # tui.active
        PROVE  FALSE
    <3>1. n.of \in tui.active + 1 .. srv.run
      BY <1>1, <1>3, <2>2
    <3>2. Note("running", n.of) \in Wire
      BY <2>2, <3>1 DEF ScreenInv, RunsAreTold
    <3>3. Note("running", n.of).type = "running" /\ Note("running", n.of).of = n.of
      BY NoteFacts
    <3>4. Note("running", n.of) \in Wire'
      BY <1>1, <3>2, <3>3
    <3>5. RunOf(n) < RunOf(Note("running", n.of))
      BY <1>1, <3>3, <3>4 DEF Before, InRun
    <3>6. RunOf(n) = n.of /\ RunOf(Note("running", n.of)) = n.of /\ n.of \in Nat
      BY <1>1, <1>2, <3>2, <3>3 DEF MessageTypes
    <3>7. QED
      BY <3>5, <3>6
  <2>3. QED
    BY <2>1, <2>2
<1>5. tui' = Ended(tui, n.of)
  BY DEF HandleNote, Handled
<1>6. /\ tui'.active = 0 /\ tui'.completed = n.of /\ tui'.at = "open" /\ tui'.missed = tui.missed
      /\ ~tui'.cancelling /\ ~tui'.loading /\ tui'.pending = {} /\ tui'.tombs = tui.tombs
  BY <1>1, <1>2, <1>4, <1>5, ClientFits, EndedFacts
<1>7. ErrorIsLast' /\ RunsAreTold'
  BY <1>1, <1>2, <1>6, ErrorsStay, RunsToldHandled DEF ScreenInv
<1>8. Excused => Excused'
  BY <1>1, <1>6 DEF Excused, IsBusy
<1>9. RunsStop => Stops'
  <2>1. HAVE RunsStop
  <2>2. RunsStop'
    BY <1>2, <2>1, RunsStopHandled
  <2>3. QED
    BY <1>6, <2>2 DEF Stops, SpinStops
<1>10. Stops'
  BY <1>8, <1>9 DEF ScreenInv, Stops
<1>11. ListClears'
  <2>1. Snapshots' = {}
    BY <1>1, <1>2, SameReplies DEF OpensQuietly
  <2>2. QED
    BY <1>6, <2>1 DEF ListClears
<1>12. \A id \in Ids : Ours(id) => n.of >= sent[id].run
  <2>1. TAKE id \in Ids
  <2>2. HAVE Ours(id)
  <2>3. sent[id].run \in Nat
    BY <1>2, Ranges
  <2>4. CASE tui.active = sent[id].run
    BY <1>1, <2>3, <2>4
  <2>5. CASE Passed(sent[id].run)
    <3>1. sent[id].run < RunOf(n) /\ RunOf(n) = n.of
      BY <1>1, <1>2, <2>5 DEF Passed, InRun
    <3>2. QED
      BY <1>1, <2>3, <3>1
  <2>6. QED
    BY <1>2, <2>2, <2>4, <2>5 DEF AtItsRun
<1>13. RunReached'
  BY <1>1, <1>6, <1>12 DEF RunReached, Ours, Text
<1>14. DecisionKnown'
  BY <1>1, <1>6 DEF DecisionKnown, Ours, Text
<1>15. QED
  BY <1>7, <1>10, <1>11, <1>13, <1>14 DEF ScreenInv

\* Whatever else is told.
LEMMA NoteScreen ==
  ASSUME TextInv, ScreenInv, HandleNote
  PROVE  ScreenInv'
<1> PICK n : n = Head(wire)
  OBVIOUS
<1>1. /\ n \in NoteSet /\ n.of \in Nat
      /\ n.type = "running" => n.of \in 1 .. srv.run
  BY FirstFacts DEF NoteSet, RunTypes
<1>2. Types /\ Known /\ Answerable /\ NotAhead /\ tui \in Clients /\ tui.active \in Nat /\ tui.completed \in Nat
  BY DEF TextInv, Types, Clients
<1>3. CASE tui.at # "open"
  BY <1>3, MissedScreen
<1>4. CASE tui.at = "open" /\ n.type \in MessageTypes
  BY <1>4, MessageNoteScreen
<1>5. CASE tui.at = "open" /\ n.type = "end"
  BY <1>5, EndScreen
<1>6. CASE tui.at = "open" /\ n.type = "idle"
  <2>1. tui' = [tui EXCEPT !.control = FALSE, !.loading = @ /\ tui.cancelling]
    BY <1>6 DEF HandleNote, Handled, Idle
  <2>2. /\ tui'.at = "open" /\ tui'.missed = tui.missed /\ tui'.pending = tui.pending /\ tui'.tombs = tui.tombs
        /\ tui'.active = tui.active /\ tui'.completed = tui.completed
        /\ tui'.cancelling = tui.cancelling /\ (tui'.loading => tui.loading)
    BY <1>2, <1>6, <2>1 DEF Clients
  <2>3. QED
    BY <1>6, <2>2, OtherScreen
<1>7. CASE tui.at = "open" /\ n.type = "cancelling"
  <2>1. tui' = IF n.of = tui.completed THEN tui ELSE [tui EXCEPT !.cancelling = TRUE, !.control = FALSE, !.loading = TRUE]
    BY <1>7 DEF HandleNote, Handled, EnterCancelling
  <2>2. /\ tui'.at = "open" /\ tui'.missed = tui.missed /\ tui'.pending = tui.pending /\ tui'.tombs = tui.tombs
        /\ tui'.active = tui.active /\ tui'.completed = tui.completed
    BY <1>2, <1>7, <2>1 DEF Clients
  <2>3. QED
    BY <1>7, <2>2, OtherScreen
<1>8. CASE tui.at = "open" /\ n.type \in {"compactError", "compactDone"}
  <2>1. tui' \in {tui, [tui EXCEPT !.cancelling = FALSE, !.loading = FALSE]}
        /\ (n.type = "compactError" => tui' = [tui EXCEPT !.cancelling = FALSE, !.loading = FALSE])
    BY <1>8 DEF HandleNote, Handled, CompactFailed, CompactDone
  <2>2. /\ tui'.at = "open" /\ tui'.missed = tui.missed /\ tui'.pending = tui.pending /\ tui'.tombs = tui.tombs
        /\ tui'.active = tui.active /\ tui'.completed = tui.completed
        /\ (tui'.cancelling => tui.cancelling) /\ (tui'.loading => tui.loading)
        /\ (n.type = "compactError" => ~tui'.loading)
    BY <1>2, <1>8, <2>1 DEF Clients
  <2>3. QED
    BY <1>8, <2>2, OtherScreen
<1>9. CASE tui.at = "open" /\ n.type = "running"
  <2>1. tui' = Running(tui, n.of)
    BY <1>9 DEF HandleNote, Handled
  <2>2. CASE n.of = tui.completed
    <3>1. tui' = tui
      BY <2>1, <2>2 DEF Running
    <3>2. QED
      BY <1>1, <1>2, <1>9, <2>2, <3>1, OtherScreen
  <2>3. CASE n.of # tui.completed /\ n.of = tui.active
    <3>1. srv.mine[n.of] \in BOOLEAN
      <4>1. n.of \in 1 .. MaxRuns /\ srv \in SessionSet
        BY <1>1, <1>2, <1>9, SteeringClientAssumption DEF Known, SentKnown, Types, SessionSet
      <4>2. QED
        BY <4>1 DEF SessionSet
    <3>2. /\ tui'.at = tui.at /\ tui'.missed = tui.missed /\ tui'.pending = tui.pending /\ tui'.tombs = tui.tombs
          /\ tui'.active = n.of /\ tui'.completed = 0 /\ tui'.cancelling = tui.cancelling
      BY <1>1, <1>2, <2>1, <2>3, <3>1, ClientFits, RunningFacts
    <3>3. tui.completed = 0
      BY <1>1, <1>2, <1>9, <2>3 DEF NotAhead
    <3>4. QED
      BY <1>1, <1>2, <1>9, <2>3, <3>2, <3>3, OtherScreen
  <2>4. CASE n.of # tui.completed /\ n.of # tui.active
    BY <1>9, <2>4, TakesOverScreen
  <2>5. QED
    BY <2>2, <2>3, <2>4
<1>10. n.type \in MessageTypes \cup {"end", "idle", "cancelling", "compactError", "compactDone", "running"}
  BY <1>1 DEF NoteSet, RunTypes
<1>11. QED
  BY <1>3, <1>4, <1>5, <1>6, <1>7, <1>8, <1>9, <1>10

-----------------------------------------------------------------------------
(* The theorems.                                                           *)

\* It holds at the start.
LEMMA ScreenInit == ASSUME ClientInit, TextInv PROVE ScreenInv
<1>0. wire = <<>> /\ calls = {} /\ replies = {}
  BY DEF ClientInit
<1>e. DOMAIN <<>> = {}
  OBVIOUS
<1>1. DOMAIN wire = {} /\ Wire = {} /\ Snapshots = {}
  BY <1>0, <1>e DEF Wire, Snapshots
<1>2. /\ tui.pending = {} /\ tui.active = 0 /\ tui.cancelling = FALSE
      /\ \A id \in Ids : Text(id) = {}
  BY InitFacts, InitSent
<1>3. tui.loading = FALSE /\ (tui.at # "open" => srv.mode = "running")
  <2>1. CASE tui = Fresh
    BY <2>1 DEF Fresh
  <2>2. CASE \E at \in {"welcome", "chat"}, mine \in BOOLEAN :
               /\ tui = [Fresh EXCEPT !.at = at]
               /\ srv = [NoRun EXCEPT !.run = 1, !.mode = "running", !.told = FALSE, !.mine[1] = mine]
    <3>1. PICK at \in {"welcome", "chat"}, mine \in BOOLEAN :
               /\ tui = [Fresh EXCEPT !.at = at]
               /\ srv = [NoRun EXCEPT !.run = 1, !.mode = "running", !.told = FALSE, !.mine[1] = mine]
      BY <2>2
    <3>2. tui.loading = FALSE
      BY <3>1 DEF Fresh
    <3>3. srv.mode = "running"
      BY <3>1 DEF NoRun
    <3>4. QED
      BY <3>2, <3>3
  <2>3. QED
    BY <2>1, <2>2 DEF ClientInit
<1>4. Stops
  BY <1>1, <1>2, <1>3 DEF Stops, RunsStop, SpinStops, StopComes
<1>5. ErrorIsLast /\ RunsAreTold /\ ListClears
  BY <1>1, <1>2 DEF ErrorIsLast, RunsAreTold, ListClears
<1>6. RunReached /\ DecisionKnown
  BY <1>2 DEF RunReached, DecisionKnown, Ours
<1>7. QED
  BY <1>4, <1>5, <1>6 DEF ScreenInv

\* Nothing happens to it when nothing happens.
LEMMA ScreenStutter == ASSUME TextInv, TextInv', ScreenInv, UNCHANGED clientVars PROVE ScreenInv'
<1>1. UNCHANGED <<tui, sent, calls, busy, replies, wire, srv>>
  BY DEF clientVars
<1>2. Types
  BY DEF TextInv
<1>3. QED
  BY <1>1, <1>2, NoneMoves, SameRunGoesOn, NothingTold, RunSteps

\* Every step keeps it.
LEMMA ScreenStep == ASSUME TextInv, TextInv', ScreenInv, ClientNext PROVE ScreenInv'
<1>1. CASE ServeCalls
  <2>1. PICK c \in calls : StartRun(c.id) \/ Accept(c.id) \/ Refuse(c.id) \/ TakeBack(c.id)
    BY <1>1 DEF ServeCalls
  <2>2. QED
    BY <2>1, StartRunScreen, AcceptScreen, RefuseScreen, TakeBackScreen
<1>2. CASE Enter \/ AskBack \/ Cancel \/ GiveUp \/ HandleNote \/ HandleReply
  BY <1>2, EnterScreen, AskBackScreen, CancelScreen, GiveUpScreen, NoteScreen, ReplyScreen
<1>3. CASE Snapshot \/ Confirm \/ CancelRun
  BY <1>3, SnapshotScreen, ConfirmScreen, CancelRunScreen
<1>4. CASE Take \/ Compact \/ Finish \/ Fail \/ Close \/ SetIdle
  BY <1>4, TakeScreen, CompactScreen, FinishScreen, FailScreen, CloseScreen, SetIdleScreen
<1>5. QED
  BY <1>1, <1>2, <1>3, <1>4 DEF ClientNext

\* Whatever the screen shows is followed by what takes it off.
THEOREM ScreenAlways == ClientSpec => []ScreenInv
<1>1. ClientInit => TextInv /\ ScreenInv
  BY TextInit, ScreenInit
<1>2. TextInv /\ TextInv' /\ ScreenInv /\ [ClientNext]_clientVars => ScreenInv'
  BY ScreenStep, ScreenStutter
<1>3. QED
  BY <1>1, <1>2, TextAlways, PTL DEF ClientSpec

\* Once nothing is on the way and no run executes, the screen shows none, except for
\* what was told while the session was being opened, a cancel that came too late and a
\* message the session was too busy for.
THEOREM ShowsTheEndAlways == ClientSpec => []ShowsTheEnd
<1>1. TextInv /\ ScreenInv => ShowsTheEnd
  <2>1. SUFFICES ASSUME TextInv, ScreenInv, Settled, ~srv.late, \A id \in DOMAIN sent : sent[id].state # "busy"
                 PROVE  /\ tui.subs = {}
                        /\ tui.loading \/ tui.cancelling =>
                             \E n \in tui.missed : n.type \in {"end", "compactError", "idle"} /\ n.of # 0
                        /\ \A id \in tui.pending :
                             \E n \in tui.missed : n.type \in {"applied", "rejected"} /\ n.of = id
    BY DEF ShowsTheEnd
  <2>2. calls = {} /\ replies = {} /\ Wire = {} /\ busy = None /\ srv.mode = "idle" /\ tui.at = "open"
    BY <2>1 DEF Settled, Wire
  <2>3. /\ \A op, id : ~Asked(op, id) /\ ~Yes(op, id) /\ ~No(op, id)
        /\ ~Opening /\ \A op, id : op # "none" => ~Serving(op, id)
    BY <2>2 DEF Asked, Yes, No, Opening, Serving, None
  <2>4. tui.subs = {}
    <3>1. Opens = {}
      BY <2>1, <2>3 DEF TextInv, Answerable
    <3>2. QED
      BY <2>1, <3>1 DEF TextInv, Answerable
  <2>5. ~SendComes /\ ~EndTold /\ ~ErrorTold /\ ~WillClose /\ ~StopComes /\ ~IsBusy
    BY <2>1, <2>2, <2>3 DEF SendComes, EndTold, ErrorTold, WillClose, StopComes, IsBusy, Ids
  <2>6. tui.loading \/ tui.cancelling => Excused
    BY <2>1, <2>3, <2>5 DEF ScreenInv, Stops, SpinStops
  <2>7. Excused => \E n \in tui.missed : n.type \in {"end", "compactError", "idle"} /\ n.of # 0
    BY <2>1, <2>5 DEF Excused
  <2>8. ASSUME NEW id \in tui.pending
        PROVE  \E n \in tui.missed : n.type \in {"applied", "rejected"} /\ n.of = id
    <3>1. id \in Ids
      BY <2>1, <2>8 DEF TextInv, Known, ClientKnown
    <3>2. ~Coming
      BY <2>2, <2>5 DEF Coming
    <3>3. ~Removal(id)
      BY <2>2, <2>3 DEF Removal
    <3>4. WillBeTold(id)
      BY <2>1, <2>2, <2>8, <3>2, <3>3 DEF ScreenInv, ListClears, WillLeave
    <3>5. sent[id].state # "queued"
      BY <2>1, <2>2, <3>1 DEF TextInv, SentWaits
    <3>6. Note("applied", id) \in tui.missed \/ Note("rejected", id) \in tui.missed
      BY <2>2, <3>4, <3>5 DEF WillBeTold
    <3>7. QED
      BY <3>6, NoteFacts
  <2>9. QED
    BY <2>4, <2>6, <2>7, <2>8
<1>2. QED
  BY <1>1, TextAlways, ScreenAlways, PTL

=============================================================================
