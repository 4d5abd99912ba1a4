---------------------------- MODULE SettingsProofs ----------------------------
(***************************************************************************)
(* Proofs about Settings, for any operations, models and skills and any    *)
(* number of edits and restarts: the two files agree, the agent's copy is  *)
(* what it is believed to be, no write that could have been seen is lost,  *)
(* and the model loads only what the user agreed to.                       *)
(***************************************************************************)
EXTENDS Settings, TLAPS

-----------------------------------------------------------------------------
(* The inductive invariant.                                                *)

\* What an operation has still to do.
Todos ==
  {<<"done">>, <<"ask", "done">>, <<"off", "ask", "done">>, <<"enable", "done">>,
   <<"act", "done">>, <<"servers", "done">>, <<"servers", "act", "done">>,
   <<"reload", "servers", "done">>, <<"reload", "servers", "act", "done">>}

Stages ==
  {"none", "done", "commit", "publish", "refresh", "reload", "adopt", "apply", "servers", "act",
   "snapshot", "truncate", "write", "off", "ask", "enable"}

Intents ==
  [what : {"none"}] \cup [what : {"upsert", "delete"}, model : Models]
  \cup [what : {"toggle"}, to : BOOLEAN]
  \cup [what : {"record"}, skill : Skills, to : {"on", "off"}]
  \cup [what : {"adopt"}, found : SUBSET Skills]

Operation ==
  [pc : Stages, kind : {"none", "boot", "toggle", "import", "check"}, todo : Todos,
   skill : Skills \cup {None}, intent : Intents, new : Contents, key : BOOLEAN, backup : BOOLEAN,
   stamp : Nat, mcp : BOOLEAN, unseen : BOOLEAN]

Happenings ==
  [{"blind", "late", "forgot", "keyless", "stayed", "stale", "early"} -> BOOLEAN]

Types ==
  /\ disk \in Contents /\ stamp \in Nat /\ key \in BOOLEAN
  /\ dirs \subseteq Skills /\ seen \subseteq Skills /\ records \in [Skills -> {"none", "on", "off"}]
  /\ cfg \in Contents /\ known \in Nat /\ mcp \in BOOLEAN /\ shared \in BOOLEAN
  /\ configMu \in Procs \cup {None} /\ op \in [Procs -> Operation] /\ given \in BOOLEAN
  /\ history \in Happenings

\* Who holds the lock of the configuration is committing or publishing ...
Holder == \A p \in Procs : op[p].pc \in {"commit", "publish"} <=> configMu = p

\* ... has noted the key as it was, and has renamed it or not; only the deletion of the
\* last model leaves without a key what had one.
Committed ==
  /\ configMu = None => key = given
  /\ \A p \in Procs : op[p].pc = "commit" =>
       /\ op[p].backup = given /\ key \in {op[p].backup, op[p].key}
       /\ op[p].backup /\ ~op[p].key => op[p].new.models = {}
       /\ ~op[p].key => op[p].intent.what # "upsert"
       /\ op[p].intent.what \in {"upsert", "delete", "record", "adopt"}
  /\ \A p \in Procs : op[p].pc = "publish" => key = given /\ op[p].key = given

\* Unless a write was blind, or there were models without a key before, models have
\* their key; so have those that a truncated file is about to get back.
Keyed ==
  ~history.blind /\ ~history.keyless =>
    /\ disk.models # {} => given
    /\ \A p \in Procs : op[p].pc = "write" /\ op[p].stamp = stamp /\ op[p].new.models # {} => given

\* Times of modification only grow; who has written knows what is on disk for as long
\* as nobody else writes.
Stamped ==
  /\ known <= stamp
  /\ \A p \in Procs : op[p].stamp <= stamp
  /\ \A p \in Procs : op[p].pc = "publish" /\ op[p].stamp = stamp => disk = op[p].new
  /\ \A p \in Procs : op[p].pc = "write" => op[p].intent.what = "toggle"
  /\ \A p \in Procs : op[p].pc = "truncate" => op[p].intent.what = "toggle"

\* A refresh has something to do after it; only skills are adopted.
Planned ==
  \A p \in Procs :
    /\ op[p].pc = "refresh" => op[p].todo # <<"done">>
    /\ op[p].pc = "adopt" => op[p].intent.what = "adopt"

True ==
  known = stamp /\ ~history.late /\ ~history.forgot /\ ~history.early => cfg = disk

IInv == Types /\ Holder /\ Committed /\ Keyed /\ Stamped /\ Planned /\ True
-----------------------------------------------------------------------------
(* Constants and what the operators return.                                *)

\* Where an operation goes next is no stage of a commit.
Nexts == {"done", "ask", "off", "enable", "act", "servers", "reload"}

\* Whatever an operation has still to do, its next step is one of Nexts.
LEMMA TodoNext ==
  \A t \in Todos : t # <<"done">> => Head(t) \in Nexts /\ Tail(t) \in Todos
<1>. SUFFICES ASSUME NEW t \in Todos, t # <<"done">>
             PROVE  Head(t) \in Nexts /\ Tail(t) \in Todos
  OBVIOUS
<1>1. CASE t = <<"ask", "done">>
  <2>. Head(t) = "ask" /\ Tail(t) = <<"done">>
    BY <1>1
  <2>. QED BY DEF Todos, Nexts
<1>2. CASE t = <<"off", "ask", "done">>
  <2>. Head(t) = "off" /\ Tail(t) = <<"ask", "done">>
    BY <1>2
  <2>. QED BY DEF Todos, Nexts
<1>3. CASE t = <<"enable", "done">>
  <2>. Head(t) = "enable" /\ Tail(t) = <<"done">>
    BY <1>3
  <2>. QED BY DEF Todos, Nexts
<1>4. CASE t = <<"act", "done">>
  <2>. Head(t) = "act" /\ Tail(t) = <<"done">>
    BY <1>4
  <2>. QED BY DEF Todos, Nexts
<1>5. CASE t = <<"servers", "done">>
  <2>. Head(t) = "servers" /\ Tail(t) = <<"done">>
    BY <1>5
  <2>. QED BY DEF Todos, Nexts
<1>6. CASE t = <<"servers", "act", "done">>
  <2>. Head(t) = "servers" /\ Tail(t) = <<"act", "done">>
    BY <1>6
  <2>. QED BY DEF Todos, Nexts
<1>7. CASE t = <<"reload", "servers", "done">>
  <2>. Head(t) = "reload" /\ Tail(t) = <<"servers", "done">>
    BY <1>7
  <2>. QED BY DEF Todos, Nexts
<1>8. CASE t = <<"reload", "servers", "act", "done">>
  <2>. Head(t) = "reload" /\ Tail(t) = <<"servers", "act", "done">>
    BY <1>8
  <2>. QED BY DEF Todos, Nexts
<1>. QED BY <1>1, <1>2, <1>3, <1>4, <1>5, <1>6, <1>7, <1>8 DEF Todos

\* What a truncated file says is a content.
LEMMA EmptyType == Empty \in Contents
BY DEF Empty, Contents

\* An operation before its start, at its end and at the daemon's start.
LEMMA ConstantTypes ==
  /\ Idle \in Operation /\ Idle.pc = "none" /\ Idle.stamp = 0
  /\ Finished \in Operation /\ Finished.pc = "done" /\ Finished.stamp = 0
  /\ Booting \in Operation /\ Booting.pc = "reload" /\ Booting.stamp = 0
<1>1. [what |-> "none"] \in Intents
  BY DEF Intents
<1>2. <<"done">> \in Todos
  BY DEF Todos
<1>3. Idle \in Operation /\ Idle.pc = "none" /\ Idle.stamp = 0
  BY <1>1, <1>2, EmptyType DEF Idle, Operation, Stages
<1>4. Finished \in Operation /\ Finished.pc = "done" /\ Finished.stamp = 0
  BY <1>3 DEF Finished, Operation, Stages
<1>5. Booting \in Operation /\ Booting.pc = "reload" /\ Booting.stamp = 0
  BY <1>3 DEF Booting, Operation, Stages
<1>. QED BY <1>3, <1>4, <1>5

\* The effect of an intent is a content; only an upsert adds a model, and what is no
\* update leaves the models alone.
LEMMA EffectFacts ==
  ASSUME NEW i \in Intents, i.what # "none", NEW c \in Contents
  PROVE  /\ Effect(i, c) \in Contents
         /\ i.what # "upsert" => Effect(i, c).models \subseteq c.models
         /\ i.what \notin {"upsert", "delete"} => Effect(i, c).models = c.models
<1>1. CASE i.what = "upsert"
  <2>1. Effect(i, c) = [c EXCEPT !.models = @ \cup {i.model}]
    BY <1>1 DEF Effect
  <2>2. i.model \in Models
    BY <1>1 DEF Intents
  <2>. QED BY <1>1, <2>1, <2>2 DEF Contents
<1>2. CASE i.what = "delete"
  <2>1. Effect(i, c) = [c EXCEPT !.models = @ \ {i.model}]
    BY <1>2 DEF Effect
  <2>. QED BY <1>2, <2>1 DEF Contents
<1>3. CASE i.what = "toggle"
  <2>1. Effect(i, c) = [c EXCEPT !.mcp = i.to]
    BY <1>3 DEF Effect
  <2>2. i.to \in BOOLEAN
    BY <1>3 DEF Intents
  <2>. QED BY <1>3, <2>1, <2>2 DEF Contents
<1>4. CASE i.what = "record"
  <2>1. Effect(i, c) = [c EXCEPT !.skills[i.skill] = i.to]
    BY <1>4 DEF Effect
  <2>2. i.to \in {"none", "on", "off"}
    BY <1>4 DEF Intents
  <2>3. [c.skills EXCEPT ![i.skill] = i.to] \in [Skills -> {"none", "on", "off"}]
    BY <2>2 DEF Contents
  <2>. QED BY <1>4, <2>1, <2>3 DEF Contents
<1>5. CASE i.what = "adopt"
  <2>1. Effect(i, c) = [c EXCEPT !.skills = [s \in Skills |-> IF s \in i.found THEN "on" ELSE @[s]]]
    BY <1>5 DEF Effect
  <2>3. [s \in Skills |-> IF s \in i.found THEN "on" ELSE c.skills[s]] \in [Skills -> {"none", "on", "off"}]
    BY DEF Contents
  <2>. QED BY <1>5, <2>1, <2>3 DEF Contents
<1>. QED BY <1>1, <1>2, <1>3, <1>4, <1>5 DEF Intents

\* What the others may have noticed changes nothing else.
LEMMA NoticedFacts ==
  ASSUME op \in [Procs -> Operation], NEW p, NEW locked
  PROVE  /\ Noticed(p, locked) \in [Procs -> Operation]
         /\ \A q \in Procs :
              /\ Noticed(p, locked)[q].pc = op[q].pc /\ Noticed(p, locked)[q].kind = op[q].kind
              /\ Noticed(p, locked)[q].todo = op[q].todo /\ Noticed(p, locked)[q].intent = op[q].intent
              /\ Noticed(p, locked)[q].new = op[q].new /\ Noticed(p, locked)[q].key = op[q].key
              /\ Noticed(p, locked)[q].backup = op[q].backup /\ Noticed(p, locked)[q].stamp = op[q].stamp
<1>. DEFINE N == Noticed(p, locked)
<1>1. \A q \in Procs : N[q] = op[q] \/ N[q] = [op[q] EXCEPT !.unseen = TRUE]
  BY DEF Noticed
<1>2. \A q \in Procs : op[q] \in Operation
  OBVIOUS
<1>3. \A r \in Operation : [r EXCEPT !.unseen = TRUE] \in Operation
  BY DEF Operation
<1>4. \A q \in Procs : N[q] \in Operation
  BY <1>1, <1>2, <1>3
<1>5. N \in [Procs -> Operation]
  BY <1>4 DEF Noticed
<1>6. \A r \in Operation :
        LET s == [r EXCEPT !.unseen = TRUE]
        IN /\ s.pc = r.pc /\ s.kind = r.kind /\ s.todo = r.todo /\ s.intent = r.intent
           /\ s.new = r.new /\ s.key = r.key /\ s.backup = r.backup /\ s.stamp = r.stamp
  BY DEF Operation
<1>. HIDE DEF N
<1>7. \A q \in Procs :
        /\ N[q].pc = op[q].pc /\ N[q].kind = op[q].kind /\ N[q].todo = op[q].todo
        /\ N[q].intent = op[q].intent /\ N[q].new = op[q].new /\ N[q].key = op[q].key
        /\ N[q].backup = op[q].backup /\ N[q].stamp = op[q].stamp
  <2>. SUFFICES ASSUME NEW q \in Procs
               PROVE  /\ N[q].pc = op[q].pc /\ N[q].kind = op[q].kind /\ N[q].todo = op[q].todo
                      /\ N[q].intent = op[q].intent /\ N[q].new = op[q].new /\ N[q].key = op[q].key
                      /\ N[q].backup = op[q].backup /\ N[q].stamp = op[q].stamp
    OBVIOUS
  <2>1. CASE N[q] = op[q]
    BY <2>1
  <2>2. CASE N[q] = [op[q] EXCEPT !.unseen = TRUE]
    BY <1>2, <1>6, <2>2
  <2>. QED BY <1>1, <2>1, <2>2
<1>. QED BY <1>5, <1>7 DEF N

\* An operation that notices is marked, and the others are as they were.
LEMMA NoticedMarks ==
  ASSUME op \in [Procs -> Operation], NEW p, NEW locked \in BOOLEAN, NEW q \in Procs
  PROVE  /\ Noticed(p, locked)[q].kind = op[q].kind /\ Noticed(p, locked)[q].skill = op[q].skill
         /\ Noticed(p, locked)[q].unseen \in BOOLEAN
         /\ op[q].unseen => Noticed(p, locked)[q].unseen
         /\ q # p /\ op[q].pc \notin {"none", "done"} /\ (~locked \/ op[q].pc \in {"truncate", "write", "adopt"})
              => Noticed(p, locked)[q].unseen
<1>1. op[q] \in Operation
  OBVIOUS
<1>. DEFINE c == q # p /\ op[q].pc \notin {"none", "done"} /\ (locked => op[q].pc \in {"truncate", "write", "adopt"})
            u == [op[q] EXCEPT !.unseen = TRUE]
<1>2. Noticed(p, locked)[q] = IF c THEN u ELSE op[q]
  BY DEF Noticed
<1>3. u.kind = op[q].kind /\ u.skill = op[q].skill /\ u.unseen = TRUE
  BY <1>1 DEF Operation
<1>4. op[q].unseen \in BOOLEAN
  BY <1>1 DEF Operation
<1>. HIDE DEF u
<1>. QED BY <1>2, <1>3, <1>4

-----------------------------------------------------------------------------
(* Steps that several actions share.                                       *)

\* What the invariant reads besides the operations.
held == <<disk, stamp, key, cfg, known, configMu, given>>

\* A step of one operation that commits nothing.
LEMMA QuietStep ==
  ASSUME IInv, NEW p \in Procs, NEW r \in Operation, op' = [op EXCEPT ![p] = r],
         op[p].pc \notin {"commit", "publish"},
         r.pc \notin {"commit", "publish", "truncate", "write"},
         r.stamp <= stamp, r.pc = "refresh" => r.todo # <<"done">>,
         r.pc = "adopt" => r.intent.what = "adopt",
         UNCHANGED held, UNCHANGED shared, mcp' \in BOOLEAN,
         dirs' \subseteq Skills, seen' \subseteq Skills, records' \in [Skills -> {"none", "on", "off"}],
         history' \in Happenings, history'.blind = history.blind, history'.keyless = history.keyless,
         history'.late = history.late, history'.forgot = history.forgot, history'.early = history.early
  PROVE  IInv'
<1>0. Types /\ Holder /\ Committed /\ Keyed /\ Stamped /\ Planned /\ True
  BY DEF IInv
<1>1. op \in [Procs -> Operation]
  BY <1>0 DEF Types
<1>2. \A q \in Procs : op'[q] = IF q = p THEN r ELSE op[q]
  BY <1>1
<1>3. Types'
  <2>1. op' \in [Procs -> Operation]
    BY <1>1
  <2>. QED BY <1>0, <2>1 DEF Types, held
<1>4. Holder'
  BY <1>0, <1>2 DEF Holder, held
<1>5. Committed'
  BY <1>0, <1>2 DEF Committed, held
<1>6. Keyed'
  BY <1>0, <1>2 DEF Keyed, held
<1>7. Stamped'
  BY <1>0, <1>2 DEF Stamped, held
<1>8. Planned'
  BY <1>0, <1>2 DEF Planned
<1>9. True'
  BY <1>0 DEF True, held
<1>. QED BY <1>3, <1>4, <1>5, <1>6, <1>7, <1>8, <1>9 DEF IInv

\* Who takes the lock of the configuration notes the key as it is.
LEMMA TakeStep ==
  ASSUME IInv, NEW p \in Procs, NEW i \in Intents, NEW new \in Contents, NEW k \in BOOLEAN,
         Take(p, i, new, k), i.what \in {"upsert", "delete", "record", "adopt"},
         key /\ ~k => new.models = {}, ~k => i.what # "upsert",
         UNCHANGED <<disk, stamp, key, cfg, known, given, shared, mcp, dirs, seen, records, history>>
  PROVE  IInv'
<1>0. Types /\ Holder /\ Committed /\ Keyed /\ Stamped /\ Planned /\ True
  BY DEF IInv
<1>1. op \in [Procs -> Operation] /\ key \in BOOLEAN
  BY <1>0 DEF Types
<1>. DEFINE r == [op[p] EXCEPT !.pc = "commit", !.intent = i, !.new = new, !.key = k, !.backup = key]
<1>2. r \in Operation
  <2>1. op[p] \in Operation
    BY <1>1
  <2>2. [op[p] EXCEPT !.pc = "commit"] \in Operation
    BY <2>1 DEF Operation, Stages
  <2>3. \A o \in Operation : [o EXCEPT !.intent = i] \in Operation
    BY DEF Operation
  <2>4. \A o \in Operation : [o EXCEPT !.new = new] \in Operation
    BY DEF Operation
  <2>5. \A o \in Operation : [o EXCEPT !.key = k] \in Operation
    BY DEF Operation
  <2>6. \A o \in Operation : [o EXCEPT !.backup = key] \in Operation
    BY <1>1 DEF Operation
  <2>. QED BY <2>2, <2>3, <2>4, <2>5, <2>6
<1>3. /\ r.pc = "commit" /\ r.intent = i /\ r.new = new /\ r.key = k /\ r.backup = key
      /\ r.stamp = op[p].stamp
  BY <1>1 DEF Operation
<1>4. op' = [op EXCEPT ![p] = r] /\ configMu = None /\ configMu' = p
  BY DEF Take, Set
<1>. HIDE DEF r
<1>5. \A q \in Procs : op'[q] = IF q = p THEN r ELSE op[q]
  BY <1>1, <1>4
<1>6. key = given
  BY <1>0, <1>4 DEF Committed
<1>7. \A q \in Procs : op[q].pc \notin {"commit", "publish"}
  BY <1>0, <1>4, SettingsAssumption DEF Holder, Procs
<1>8. Types'
  <2>1. op' \in [Procs -> Operation]
    BY <1>1, <1>2, <1>4
  <2>. QED BY <1>0, <1>4, <2>1 DEF Types
<1>9. Holder'
  BY <1>3, <1>4, <1>5, <1>7 DEF Holder
<1>10. Committed'
  BY <1>3, <1>4, <1>5, <1>6, <1>7, SettingsAssumption DEF Committed, Procs
<1>11. Keyed'
  BY <1>0, <1>3, <1>5 DEF Keyed
<1>12. Stamped'
  BY <1>0, <1>3, <1>5 DEF Stamped
<1>13. Planned'
  BY <1>0, <1>3, <1>5 DEF Planned
<1>14. True'
  BY <1>0 DEF True
<1>. QED BY <1>8, <1>9, <1>10, <1>11, <1>12, <1>13, <1>14 DEF IInv

\* An operation with one field changed.
LEMMA FieldFacts ==
  ASSUME NEW o \in Operation
  PROVE  /\ \A v \in Stages : [o EXCEPT !.pc = v] \in Operation
         /\ \A v \in {"none", "boot", "toggle", "import", "check"} : [o EXCEPT !.kind = v] \in Operation
         /\ \A v \in Todos : [o EXCEPT !.todo = v] \in Operation
         /\ \A v \in Skills \cup {None} : [o EXCEPT !.skill = v] \in Operation
         /\ \A v \in Intents : [o EXCEPT !.intent = v] \in Operation
         /\ \A v \in Contents : [o EXCEPT !.new = v] \in Operation
         /\ \A v \in Nat : [o EXCEPT !.stamp = v] \in Operation
         /\ \A v \in BOOLEAN : [o EXCEPT !.mcp = v] \in Operation
         /\ \A v \in BOOLEAN : [o EXCEPT !.unseen = v] \in Operation
<1>1. \A v \in Stages : [o EXCEPT !.pc = v] \in Operation
  BY DEF Operation
<1>2. \A v \in {"none", "boot", "toggle", "import", "check"} : [o EXCEPT !.kind = v] \in Operation
  BY DEF Operation
<1>3. \A v \in Todos : [o EXCEPT !.todo = v] \in Operation
  BY DEF Operation
<1>4. \A v \in Skills \cup {None} : [o EXCEPT !.skill = v] \in Operation
  BY DEF Operation
<1>5. \A v \in Intents : [o EXCEPT !.intent = v] \in Operation
  BY DEF Operation
<1>6. \A v \in Contents : [o EXCEPT !.new = v] \in Operation
  BY DEF Operation
<1>7. \A v \in Nat : [o EXCEPT !.stamp = v] \in Operation
  BY DEF Operation
<1>8. \A v \in BOOLEAN : [o EXCEPT !.mcp = v] \in Operation
  BY DEF Operation
<1>9. \A v \in BOOLEAN : [o EXCEPT !.unseen = v] \in Operation
  BY DEF Operation
<1>. QED BY <1>1, <1>2, <1>3, <1>4, <1>5, <1>6, <1>7, <1>8, <1>9

\* What every step may use of the operations.
LEMMA OpTypes ==
  ASSUME Types
  PROVE  /\ op \in [Procs -> Operation] /\ \A q \in Procs : op[q] \in Operation
         /\ \A q \in Procs : /\ op[q].stamp \in Nat /\ op[q].todo \in Todos /\ op[q].new \in Contents
                             /\ op[q].key \in BOOLEAN /\ op[q].backup \in BOOLEAN /\ op[q].mcp \in BOOLEAN
                             /\ op[q].intent \in Intents /\ op[q].skill \in Skills \cup {None}
BY DEF Types, Operation

\* What UNCHANGED leaves to a step of one operation.
rest == <<held, shared, mcp, dirs, seen, records, history>>

\* Where nothing else changes, the types stay.
LEMMA QuietRest ==
  ASSUME Types, UNCHANGED rest
  PROVE  /\ UNCHANGED held /\ UNCHANGED shared /\ mcp' \in BOOLEAN
         /\ dirs' \subseteq Skills /\ seen' \subseteq Skills
         /\ records' \in [Skills -> {"none", "on", "off"}]
         /\ history' \in Happenings /\ history' = history
BY DEF Types, rest

\* An operation at its next step, or at its end.
LEMMA NextFacts ==
  ASSUME IInv, NEW p \in Procs, Continue(p) \/ Set(p, Finished)
  PROVE  \E r \in Operation : op' = [op EXCEPT ![p] = r] /\ r.pc \in Nexts /\ r.stamp <= stamp
<1>0. op[p] \in Operation /\ op[p].todo \in Todos /\ op[p].stamp \in Nat /\ stamp \in Nat /\ op[p].stamp <= stamp
  BY OpTypes DEF IInv, Types, Stamped
<1>1. CASE Set(p, Finished)
  <2>1. op' = [op EXCEPT ![p] = Finished]
    BY <1>1 DEF Set
  <2>2. Finished \in Operation /\ Finished.pc \in Nexts /\ Finished.stamp <= stamp
    BY <1>0, ConstantTypes DEF Nexts
  <2>. QED BY <2>1, <2>2
<1>2. CASE op[p].todo # <<"done">> /\ Continue(p)
  <2>. DEFINE h == Head(op[p].todo)
              t == Tail(op[p].todo)
              r == [op[p] EXCEPT !.pc = h, !.todo = t]
  <2>1. op' = [op EXCEPT ![p] = r]
    BY <1>2 DEF Continue, Set
  <2>2. h \in Nexts /\ h \in Stages /\ t \in Todos
    BY <1>0, <1>2, TodoNext DEF Nexts, Stages
  <2>. HIDE DEF h, t
  <2>3. r = [[op[p] EXCEPT !.pc = h] EXCEPT !.todo = t]
    BY <1>0 DEF Operation
  <2>4. [op[p] EXCEPT !.pc = h] \in Operation
    BY <1>0, <2>2, FieldFacts
  <2>5. [[op[p] EXCEPT !.pc = h] EXCEPT !.todo = t] \in Operation
    BY <2>2, <2>4, FieldFacts
  <2>6. r.pc = h /\ r.stamp = op[p].stamp
    BY <1>0 DEF Operation
  <2>7. r \in Operation /\ r.pc \in Nexts /\ r.stamp <= stamp
    BY <1>0, <2>2, <2>3, <2>5, <2>6
  <2>. HIDE DEF r
  <2>. QED BY <2>1, <2>7
<1>3. CASE op[p].todo = <<"done">> /\ Continue(p)
  <2>. Set(p, Finished)
    BY <1>3 DEF Continue
  <2>. QED BY <1>1
<1>. QED BY <1>1, <1>2, <1>3

\* ... that commits nothing.
LEMMA NextStep ==
  ASSUME IInv, NEW p \in Procs, Continue(p) \/ Set(p, Finished), op[p].pc \notin {"commit", "publish"},
         UNCHANGED held, UNCHANGED shared, mcp' \in BOOLEAN,
         dirs' \subseteq Skills, seen' \subseteq Skills, records' \in [Skills -> {"none", "on", "off"}],
         history' \in Happenings, history'.blind = history.blind, history'.keyless = history.keyless,
         history'.late = history.late, history'.forgot = history.forgot, history'.early = history.early
  PROVE  IInv'
<1>1. PICK r \in Operation : op' = [op EXCEPT ![p] = r] /\ r.pc \in Nexts /\ r.stamp <= stamp
  BY NextFacts
<1>2. r.pc \notin {"commit", "publish", "truncate", "write", "refresh", "adopt"}
  BY <1>1 DEF Nexts
<1>. QED BY QuietStep, <1>1, <1>2

-----------------------------------------------------------------------------
(* Reloads and requests.                                                   *)

\* A step that puts one operation at a stage of the reloads and requests.
LEMMA StageStep ==
  ASSUME IInv, NEW p \in Procs, NEW r \in Operation, Set(p, r), op[p].pc \notin {"commit", "publish"},
         r.pc \in Stages \ {"commit", "publish", "truncate", "write", "adopt"},
         r.stamp = op[p].stamp, r.pc = "refresh" => r.todo # <<"done">>, UNCHANGED rest
  PROVE  IInv'
<1>1. op' = [op EXCEPT ![p] = r]
  BY DEF Set
<1>2. Types /\ Stamped
  BY DEF IInv
<1>3. r.stamp <= stamp
  BY <1>2 DEF Stamped
<1>4. /\ UNCHANGED held /\ UNCHANGED shared /\ mcp' \in BOOLEAN
      /\ dirs' \subseteq Skills /\ seen' \subseteq Skills
      /\ records' \in [Skills -> {"none", "on", "off"}]
      /\ history' \in Happenings /\ history' = history
  BY <1>2, QuietRest
<1>. QED BY QuietStep, <1>1, <1>3, <1>4

\* A step that moves one operation on.
LEMMA GoStep ==
  ASSUME IInv, NEW p \in Procs, NEW s \in Stages \ {"commit", "publish", "truncate", "write", "refresh", "adopt"},
         Go(p, s), op[p].pc \notin {"commit", "publish"}, UNCHANGED rest
  PROVE  IInv'
<1>1. op[p] \in Operation
  BY OpTypes DEF IInv
<1>2. [op[p] EXCEPT !.pc = s] \in Operation
  BY <1>1, FieldFacts
<1>3. [op[p] EXCEPT !.pc = s].pc = s /\ [op[p] EXCEPT !.pc = s].stamp = op[p].stamp
  BY <1>1 DEF Operation
<1>. QED BY StageStep, <1>2, <1>3 DEF Go

\* A step that ends one operation.
LEMMA StopStep ==
  ASSUME IInv, NEW p \in Procs, Set(p, Finished), op[p].pc \notin {"commit", "publish"}, UNCHANGED rest
  PROVE  IInv'
<1>1. Types
  BY DEF IInv
<1>2. /\ UNCHANGED held /\ UNCHANGED shared /\ mcp' \in BOOLEAN
      /\ dirs' \subseteq Skills /\ seen' \subseteq Skills
      /\ records' \in [Skills -> {"none", "on", "off"}]
      /\ history' \in Happenings /\ history' = history
  BY <1>1, QuietRest
<1>. QED BY NextStep, <1>2

\* A reload takes a copy.
LEMMA RefreshSafe ==
  ASSUME IInv, NEW p \in Procs, Refresh(p)
  PROVE  IInv'
<1>. DEFINE t == Tail(op[p].todo)
            r == [op[p] EXCEPT !.pc = "reload", !.todo = t, !.mcp = cfg.mcp]
<1>1. op[p] \in Operation /\ op[p].todo \in Todos /\ op[p].todo # <<"done">>
  BY OpTypes DEF IInv, Planned, Refresh, At
<1>2. t \in Todos
  BY <1>1, TodoNext
<1>3. cfg.mcp \in BOOLEAN
  BY DEF IInv, Types, Contents
<1>4. Set(p, r)
  BY DEF Refresh
<1>. HIDE DEF t
<1>5. r \in Operation /\ r.pc = "reload" /\ r.stamp = op[p].stamp
  <2>1. [op[p] EXCEPT !.pc = "reload"] \in Operation
    BY <1>1, FieldFacts DEF Stages
  <2>2. [[op[p] EXCEPT !.pc = "reload"] EXCEPT !.todo = t] \in Operation
    BY <1>2, <2>1, FieldFacts
  <2>3. [[[op[p] EXCEPT !.pc = "reload"] EXCEPT !.todo = t] EXCEPT !.mcp = cfg.mcp] \in Operation
    BY <1>3, <2>2, FieldFacts
  <2>4. r = [[[op[p] EXCEPT !.pc = "reload"] EXCEPT !.todo = t] EXCEPT !.mcp = cfg.mcp]
    BY <1>1 DEF Operation
  <2>5. r.pc = "reload" /\ r.stamp = op[p].stamp
    BY <1>1 DEF Operation
  <2>. QED BY <2>3, <2>4, <2>5
<1>6. UNCHANGED rest /\ op[p].pc = "refresh"
  BY DEF Refresh, rest, held, file, copy, skillState, locks, ghosts, At
<1>. HIDE DEF r
<1>. QED BY StageStep, <1>4, <1>5, <1>6 DEF Stages

\* The skill runtime reads the copy.
LEMMA ReloadSafe ==
  ASSUME IInv, NEW p \in Procs, Reload(p)
  PROVE  IInv'
<1>. DEFINE found == {s \in dirs : cfg.skills[s] = "none"}
            i == [what |-> "adopt", found |-> found]
            c == Effect(i, cfg)
            u == op[p].unseen \/ OldCopy(p)
            r == [op[p] EXCEPT !.pc = "adopt", !.intent = i, !.new = c, !.unseen = u]
<1>0. Types /\ Stamped
  BY DEF IInv
<1>1. op[p] \in Operation /\ op[p].pc = "reload" /\ op[p].stamp <= stamp
  BY <1>0, OpTypes DEF Reload, At, Stamped
<1>2. /\ UNCHANGED held /\ UNCHANGED shared /\ mcp' \in BOOLEAN
      /\ dirs' \subseteq Skills /\ seen' \subseteq Skills
      /\ records' \in [Skills -> {"none", "on", "off"}] /\ history' \in Happenings /\ history' = history
  BY <1>0 DEF Reload, Types, Contents, held, file, copy, ghosts
<1>3. CASE Continue(p)
  BY NextStep, <1>1, <1>2, <1>3
<1>4. CASE Set(p, r)
  <2>1. i \in Intents /\ i.what = "adopt" /\ cfg \in Contents
    BY <1>0 DEF Intents, Types
  <2>2. c \in Contents
    BY <2>1, EffectFacts
  <2>a. u \in BOOLEAN
    OBVIOUS
  <2>. HIDE DEF i, c, u
  <2>3. [op[p] EXCEPT !.pc = "adopt"] \in Operation
    BY <1>1, FieldFacts DEF Stages
  <2>4. [[op[p] EXCEPT !.pc = "adopt"] EXCEPT !.intent = i] \in Operation
    BY <2>1, <2>3, FieldFacts
  <2>5. [[[op[p] EXCEPT !.pc = "adopt"] EXCEPT !.intent = i] EXCEPT !.new = c] \in Operation
    BY <2>2, <2>4, FieldFacts
  <2>b. [[[[op[p] EXCEPT !.pc = "adopt"] EXCEPT !.intent = i] EXCEPT !.new = c] EXCEPT !.unseen = u] \in Operation
    BY <2>a, <2>5, FieldFacts
  <2>6. r = [[[[op[p] EXCEPT !.pc = "adopt"] EXCEPT !.intent = i] EXCEPT !.new = c] EXCEPT !.unseen = u]
    BY <1>1 DEF Operation
  <2>7. r.pc = "adopt" /\ r.stamp = op[p].stamp /\ r.intent.what = "adopt"
    BY <1>1, <2>1 DEF Operation
  <2>8. r \in Operation
    BY <2>b, <2>6
  <2>9. op' = [op EXCEPT ![p] = r]
    BY <1>4 DEF Set
  <2>. HIDE DEF r
  <2>. QED BY QuietStep, <1>1, <1>2, <2>7, <2>8, <2>9
<1>. QED BY <1>3, <1>4 DEF Reload

\* The skill runtime takes the records that were saved.
LEMMA ApplySafe ==
  ASSUME IInv, NEW p \in Procs, Apply(p)
  PROVE  IInv'
<1>. DEFINE b == history.stale \/ (skillMu # p /\ op[p].new.skills # cfg.skills)
<1>0. Types /\ history \in Happenings
  BY DEF IInv, Types
<1>1. op[p].pc = "apply" /\ op[p].new \in Contents
  BY <1>0, OpTypes DEF Apply, At
<1>2. history' = [history EXCEPT !["stale"] = b] /\ b \in BOOLEAN
  BY DEF Apply
<1>. HIDE DEF b
<1>3. /\ history' \in Happenings /\ history'.blind = history.blind /\ history'.keyless = history.keyless
      /\ history'.late = history.late /\ history'.forgot = history.forgot /\ history'.early = history.early
  BY <1>0, <1>2 DEF Happenings
<1>4. records' \in [Skills -> {"none", "on", "off"}]
  BY <1>1 DEF Apply, Contents
<1>5. UNCHANGED held /\ UNCHANGED shared /\ mcp' \in BOOLEAN /\ dirs' \subseteq Skills /\ seen' \subseteq Skills
  BY <1>0 DEF Apply, Types, held, file, copy
<1>6. Continue(p)
  BY DEF Apply
<1>. QED BY NextStep, <1>1, <1>3, <1>4, <1>5, <1>6

\* The MCP runtime takes what was read.
LEMMA ServersSafe ==
  ASSUME IInv, NEW p \in Procs, Servers(p)
  PROVE  IInv'
<1>0. Types
  BY DEF IInv
<1>1. op[p].pc = "servers" /\ op[p].mcp \in BOOLEAN /\ Continue(p)
  BY <1>0, OpTypes DEF Servers, At
<1>2. /\ UNCHANGED held /\ UNCHANGED shared /\ mcp' \in BOOLEAN
      /\ dirs' \subseteq Skills /\ seen' \subseteq Skills
      /\ records' \in [Skills -> {"none", "on", "off"}] /\ history' \in Happenings /\ history' = history
  BY <1>0, <1>1 DEF Servers, Types, held, file, copy, skillState, ghosts
<1>. QED BY NextStep, <1>1, <1>2

\* Skills without a record are enabled.
LEMMA AdoptSafe ==
  ASSUME IInv, NEW p \in Procs, Adopt(p)
  PROVE  IInv'
<1>. DEFINE new == [cfg EXCEPT !.skills = op[p].new.skills]
<1>0. Types
  BY DEF IInv
<1>1. op[p].intent \in Intents /\ op[p].new \in Contents /\ op[p].intent.what = "adopt"
  BY <1>0, OpTypes DEF IInv, Planned, Adopt, At
<1>2. new \in Contents
  BY <1>0, <1>1 DEF Types, Contents
<1>. HIDE DEF new
<1>3. Take(p, op[p].intent, new, key) /\ key \in BOOLEAN
  BY <1>0 DEF Adopt, Types, new
<1>4. UNCHANGED <<disk, stamp, key, cfg, known, given, shared, mcp, dirs, seen, records, history>>
  BY DEF Adopt, file, copy, skillState, ghosts
<1>. QED BY TakeStep, <1>1, <1>2, <1>3, <1>4

\* config.set: a key goes only with the last model.
LEMMA UpdateSafe ==
  ASSUME IInv, NEW p \in Procs, Update(p)
  PROVE  IInv'
<1>1. PICK m \in Models, what \in {"upsert", "delete"}, k \in BOOLEAN :
        /\ IF what = "upsert" THEN k ELSE k = key \/ cfg.models = {m}
        /\ Take(p, [what |-> what, model |-> m], Effect([what |-> what, model |-> m], cfg), k)
  BY DEF Update
<1>. DEFINE i == [what |-> what, model |-> m]
            new == Effect(i, cfg)
<1>2. i \in Intents /\ i.what = what /\ i.model = m
  BY DEF Intents
<1>3. cfg \in Contents
  BY DEF IInv, Types
<1>4. new \in Contents
  BY <1>2, <1>3, EffectFacts
<1>5. key /\ ~k => new.models = {}
  <2>. SUFFICES ASSUME key, ~k
               PROVE  new.models = {}
    OBVIOUS
  <2>1. what = "delete" /\ cfg.models = {m}
    BY <1>1
  <2>2. new = [cfg EXCEPT !.models = @ \ {m}]
    BY <1>2, <2>1 DEF Effect
  <2>. QED BY <1>3, <2>1, <2>2 DEF Contents
<1>6. Take(p, i, new, k) /\ (~k => i.what # "upsert")
  BY <1>1, <1>2
<1>7. UNCHANGED <<disk, stamp, key, cfg, known, given, shared, mcp, dirs, seen, records, history>>
  BY DEF Update, file, copy, skillState, ghosts
<1>8. i.what \in {"upsert", "delete", "record", "adopt"}
  BY <1>2
<1>. HIDE DEF i, new
<1>. QED BY TakeStep, <1>2, <1>4, <1>5, <1>6, <1>7, <1>8

\* A record of a skill is committed with the key as it is.
LEMMA RecordSafe ==
  ASSUME IInv, NEW p \in Procs, NEW s \in Skills, NEW to \in {"on", "off"}, Record(p, s, to),
         UNCHANGED <<disk, stamp, key, cfg, known, given, shared, mcp, dirs, seen, records, history>>
  PROVE  IInv'
<1>. DEFINE i == [what |-> "record", skill |-> s, to |-> to]
            new == Effect(i, cfg)
<1>1. i \in Intents /\ i.what = "record"
  BY DEF Intents
<1>2. cfg \in Contents /\ key \in BOOLEAN
  BY DEF IInv, Types
<1>3. new \in Contents
  BY <1>1, <1>2, EffectFacts
<1>4. Take(p, i, new, key)
  BY DEF Record
<1>. HIDE DEF i, new
<1>. QED BY TakeStep, <1>1, <1>2, <1>3, <1>4

\* skill.set.
LEMMA SetSkillSafe ==
  ASSUME IInv, NEW p \in Procs, SetSkill(p)
  PROVE  IInv'
<1>1. PICK s \in Skills, to \in {"on", "off"} : Record(p, s, to)
  BY DEF SetSkill
<1>2. UNCHANGED <<disk, stamp, key, cfg, known, given, shared, mcp, dirs, seen, records, history>>
  BY DEF SetSkill, file, copy, skillState, ghosts
<1>. QED BY RecordSafe, <1>1, <1>2

\* A skill that was imported or checked is disabled.
LEMMA OffSafe ==
  ASSUME IInv, NEW p \in Procs, Off(p)
  PROVE  IInv'
<1>1. UNCHANGED <<disk, stamp, key, cfg, known, given, shared, mcp, dirs, seen, records, history>>
  BY DEF Off, file, copy, skillState, ghosts
<1>2. CASE op[p].skill \in seen
  <2>. op[p].skill \in Skills /\ Record(p, op[p].skill, "off")
    BY <1>2 DEF Off, IInv, Types
  <2>. QED BY RecordSafe, <1>1
<1>3. CASE op[p].skill \notin seen
  <2>. Set(p, Finished) /\ UNCHANGED configMu /\ op[p].pc = "off"
    BY <1>3 DEF Off, Stop, At
  <2>. QED BY StopStep, <1>1 DEF rest, held
<1>. QED BY <1>2, <1>3

\* The user's decision is recorded.
LEMMA EnableSafe ==
  ASSUME IInv, NEW p \in Procs, Enable(p)
  PROVE  IInv'
<1>1. UNCHANGED <<disk, stamp, key, cfg, known, given, shared, mcp, dirs, seen, records, history>>
  BY DEF Enable, file, copy, skillState, ghosts
<1>2. CASE op[p].skill \in seen /\ \E to \in {"on", "off"} : Record(p, op[p].skill, to)
  <2>1. PICK to \in {"on", "off"} : Record(p, op[p].skill, to)
    BY <1>2
  <2>2. op[p].skill \in Skills
    BY <1>2 DEF IInv, Types
  <2>. QED BY RecordSafe, <1>1, <2>1, <2>2
<1>3. CASE Set(p, Finished) /\ UNCHANGED configMu
  <2>. op[p].pc = "enable"
    BY DEF Enable, At
  <2>. QED BY StopStep, <1>1, <1>3 DEF rest, held
<1>. QED BY <1>2, <1>3 DEF Enable

\* The user is asked.
LEMMA AskSafe ==
  ASSUME IInv, NEW p \in Procs, Ask(p)
  PROVE  IInv'
<1>. DEFINE t == <<"enable", "done">>
            r == [op[p] EXCEPT !.pc = "reload", !.todo = t]
<1>1. UNCHANGED rest /\ op[p].pc = "ask"
  BY DEF Ask, At, rest, held, file, copy, skillState, locks, ghosts
<1>2. CASE Set(p, r)
  <2>1. op[p] \in Operation /\ t \in Todos
    BY OpTypes DEF IInv, Todos
  <2>. HIDE DEF t
  <2>2. [op[p] EXCEPT !.pc = "reload"] \in Operation
    BY <2>1, FieldFacts DEF Stages
  <2>3. [[op[p] EXCEPT !.pc = "reload"] EXCEPT !.todo = t] \in Operation
    BY <2>1, <2>2, FieldFacts
  <2>4. r = [[op[p] EXCEPT !.pc = "reload"] EXCEPT !.todo = t]
    BY <2>1 DEF Operation
  <2>5. r.pc = "reload" /\ r.stamp = op[p].stamp
    BY <2>1 DEF Operation
  <2>6. r \in Operation
    BY <2>3, <2>4
  <2>. HIDE DEF r
  <2>. QED BY StageStep, <1>1, <1>2, <2>5, <2>6 DEF Stages
<1>3. CASE Go(p, "enable")
  BY GoStep, <1>1, <1>3 DEF Stages
<1>4. CASE Set(p, Finished)
  BY StopStep, <1>1, <1>4
<1>. QED BY <1>2, <1>3, <1>4 DEF Ask

\* The operation of a skill_start that begins.
Begun(o, kind, s, t) == [o EXCEPT !.kind = kind, !.skill = s, !.pc = "reload", !.todo = t]

\* ... is an operation that reloads.
LEMMA WorkflowFacts ==
  ASSUME NEW o \in Operation, NEW kind \in {"import", "check"}, NEW s \in Skills, NEW t \in Todos
  PROVE  /\ Begun(o, kind, s, t) \in Operation
         /\ Begun(o, kind, s, t).pc = "reload" /\ Begun(o, kind, s, t).stamp = o.stamp
<1>. DEFINE r == [o EXCEPT !.kind = kind, !.skill = s, !.pc = "reload", !.todo = t]
<1>1. [o EXCEPT !.kind = kind] \in Operation
  BY FieldFacts
<1>2. [[o EXCEPT !.kind = kind] EXCEPT !.skill = s] \in Operation
  BY <1>1, FieldFacts
<1>3. [[[o EXCEPT !.kind = kind] EXCEPT !.skill = s] EXCEPT !.pc = "reload"] \in Operation
  BY <1>2, FieldFacts DEF Stages
<1>4. [[[[o EXCEPT !.kind = kind] EXCEPT !.skill = s] EXCEPT !.pc = "reload"] EXCEPT !.todo = t] \in Operation
  BY <1>3, FieldFacts
<1>5. r = [[[[o EXCEPT !.kind = kind] EXCEPT !.skill = s] EXCEPT !.pc = "reload"] EXCEPT !.todo = t]
  BY DEF Operation
<1>6. r.pc = "reload" /\ r.stamp = o.stamp
  BY DEF Operation
<1>. QED BY <1>4, <1>5, <1>6 DEF Begun

\* A skill_start checks an installed skill.
LEMMA CheckSafe ==
  ASSUME IInv, NEW p \in Procs, Check(p)
  PROVE  IInv'
<1>. DEFINE t == <<"off", "ask", "done">>
<1>1. PICK s \in Skills :
        Set(p, [op[p] EXCEPT !.kind = "check", !.skill = s, !.pc = "reload", !.todo = t])
  BY DEF Check
<1>. DEFINE r == Begun(op[p], "check", s, t)
<1>2. t \in Todos
  BY DEF Todos
<1>3. op[p] \in Operation
  BY OpTypes DEF IInv
<1>. HIDE DEF t
<1>4. r \in Operation /\ r.pc = "reload" /\ r.stamp = op[p].stamp
  BY <1>2, <1>3, WorkflowFacts
<1>5. Set(p, r)
  BY <1>1 DEF Begun
<1>6. UNCHANGED rest /\ op[p].pc = "none"
  BY DEF Check, Starts, At, rest, held, file, copy, skillState, locks, ghosts
<1>. HIDE DEF r
<1>. QED BY StageStep, <1>4, <1>5, <1>6 DEF Stages

\* A skill_start imports one.
LEMMA ImportSafe ==
  ASSUME IInv, NEW p \in Procs, Import(p)
  PROVE  IInv'
<1>. DEFINE t == ImportSteps
<1>0. Types /\ Stamped
  BY DEF IInv
<1>1. op[p] \in Operation /\ op[p].pc = "none" /\ op[p].stamp <= stamp
  BY <1>0, OpTypes DEF Import, Starts, At, Stamped
<1>2. t \in Todos
  BY DEF Todos, ImportSteps
<1>. HIDE DEF t
<1>3. PICK s \in Skills :
        \/ /\ dirs' = dirs \cup {s}
           /\ Set(p, [op[p] EXCEPT !.kind = "import", !.skill = s, !.pc = "reload", !.todo = t])
           /\ history' = [history EXCEPT !.stayed = @ \/ \E q \in Ops : op[q].skill = s]
        \/ /\ dirs' \in {dirs \cup {s}, dirs \ {s}} /\ Set(p, Finished)
           /\ history' = [history EXCEPT !.stayed = TRUE]
  BY DEF Import, t
<1>. DEFINE b == \E q \in Ops : op[q].skill = s
            r == Begun(op[p], "import", s, t)
<1>4. /\ history' \in Happenings /\ history'.blind = history.blind /\ history'.keyless = history.keyless
      /\ history'.late = history.late /\ history'.forgot = history.forgot /\ history'.early = history.early
  <2>1. b \in BOOLEAN
    OBVIOUS
  <2>2. history' = [history EXCEPT !["stayed"] = history.stayed \/ b] \/ history' = [history EXCEPT !["stayed"] = TRUE]
    BY <1>3
  <2>. HIDE DEF b
  <2>. QED BY <1>0, <2>1, <2>2 DEF Types, Happenings
<1>5. /\ UNCHANGED held /\ UNCHANGED shared /\ mcp' \in BOOLEAN /\ dirs' \subseteq Skills
      /\ seen' \subseteq Skills /\ records' \in [Skills -> {"none", "on", "off"}]
  BY <1>0, <1>3 DEF Import, Types, held, file, copy, skillState
<1>6. CASE Set(p, r)
  <2>1. r \in Operation /\ r.pc = "reload" /\ r.stamp = op[p].stamp
    BY <1>1, <1>2, WorkflowFacts
  <2>2. op' = [op EXCEPT ![p] = r]
    BY <1>6 DEF Set
  <2>. HIDE DEF r
  <2>. QED BY QuietStep, <1>1, <1>4, <1>5, <2>1, <2>2
<1>7. CASE Set(p, Finished)
  BY NextStep, <1>1, <1>4, <1>5, <1>7
<1>. QED BY <1>3, <1>6, <1>7 DEF Begun

-----------------------------------------------------------------------------
(* The copy, the runtime and the file written in place.                    *)

\* A request looks at the file.
LEMMA GateSafe ==
  ASSUME IInv, NEW p \in Procs, Gate(p)
  PROVE  IInv'
<1>. DEFINE t == <<"reload", "servers", "act", "done">>
            r == [op[p] EXCEPT !.pc = "refresh", !.todo = t]
            b == Newer /\ cfg # disk
            w == [op[p] EXCEPT !.pc = "act", !.unseen = b]
<1>0. Types /\ Holder /\ Committed /\ Keyed /\ Stamped /\ Planned /\ True
  BY DEF IInv
<1>1. op[p] \in Operation /\ op[p].pc = "none" /\ op \in [Procs -> Operation]
  BY <1>0, OpTypes DEF Gate, Starts, At
<1>2. UNCHANGED <<disk, stamp, key, given, configMu, mcp, dirs, seen, records, history>>
  BY DEF Gate, file, skillState, locks, ghosts
<1>3. CASE Set(p, w) /\ UNCHANGED copy
  <2>1. b \in BOOLEAN
    OBVIOUS
  <2>. HIDE DEF b
  <2>2. [op[p] EXCEPT !.pc = "act"] \in Operation
    BY <1>1, FieldFacts DEF Stages
  <2>3. [[op[p] EXCEPT !.pc = "act"] EXCEPT !.unseen = b] \in Operation
    BY <2>1, <2>2, FieldFacts
  <2>4. w = [[op[p] EXCEPT !.pc = "act"] EXCEPT !.unseen = b]
    BY <1>1 DEF Operation
  <2>5. w.pc = "act" /\ w.stamp = op[p].stamp
    BY <1>1 DEF Operation
  <2>6. w \in Operation
    BY <2>3, <2>4
  <2>7. UNCHANGED rest
    BY <1>2, <1>3 DEF rest, held, copy
  <2>. HIDE DEF w
  <2>. QED BY StageStep, <1>1, <1>3, <2>5, <2>6, <2>7 DEF Stages
<1>4. CASE Set(p, r) /\ cfg' = disk /\ known' = stamp /\ shared' = FALSE
  <2>1. t \in Todos /\ t # <<"done">>
    BY DEF Todos
  <2>. HIDE DEF t
  <2>2. [op[p] EXCEPT !.pc = "refresh"] \in Operation
    BY <1>1, FieldFacts DEF Stages
  <2>3. [[op[p] EXCEPT !.pc = "refresh"] EXCEPT !.todo = t] \in Operation
    BY <2>1, <2>2, FieldFacts
  <2>4. r = [[op[p] EXCEPT !.pc = "refresh"] EXCEPT !.todo = t]
    BY <1>1 DEF Operation
  <2>5. r.pc = "refresh" /\ r.stamp = op[p].stamp /\ r.todo # <<"done">>
    BY <1>1, <2>1 DEF Operation
  <2>6. r \in Operation
    BY <2>3, <2>4
  <2>7. op' = [op EXCEPT ![p] = r]
    BY <1>4 DEF Set
  <2>. HIDE DEF r
  <2>8. \A q \in Procs : op'[q] = IF q = p THEN r ELSE op[q]
    BY <1>1, <2>7
  <2>9. Types'
    <3>1. op' \in [Procs -> Operation]
      BY <1>1, <2>6, <2>7
    <3>. QED BY <1>0, <1>2, <1>4, <3>1 DEF Types
  <2>10. Holder'
    BY <1>0, <1>1, <1>2, <2>5, <2>8 DEF Holder
  <2>11. Committed'
    BY <1>0, <1>2, <2>5, <2>8 DEF Committed
  <2>12. Keyed'
    BY <1>0, <1>2, <2>5, <2>8 DEF Keyed
  <2>13. Stamped'
    BY <1>0, <1>2, <1>4, <2>5, <2>8 DEF Stamped, Types
  <2>14. Planned'
    BY <1>0, <2>5, <2>8 DEF Planned
  <2>15. True'
    BY <1>2, <1>4 DEF True
  <2>. QED BY <2>9, <2>10, <2>11, <2>12, <2>13, <2>14, <2>15 DEF IInv
<1>. QED BY <1>3, <1>4 DEF Gate

\* mcp.toggle switches the runtime, and with it a copy that is shared.
LEMMA ToggleSafe ==
  ASSUME IInv, NEW p \in Procs, Toggle(p)
  PROVE  IInv'
<1>0. Types /\ Holder /\ Committed /\ Keyed /\ Stamped /\ Planned /\ True
  BY DEF IInv
<1>1. op[p] \in Operation /\ op[p].pc = "act" /\ op \in [Procs -> Operation]
  BY <1>0, OpTypes DEF Toggle, At
<1>2. UNCHANGED <<disk, stamp, key, known, given, configMu, shared, dirs, seen, records>>
  BY DEF Toggle, file, skillState, locks
<1>3. CASE Set(p, Finished) /\ UNCHANGED <<mcp, cfg, history>>
  <2>. UNCHANGED rest
    BY <1>2, <1>3 DEF rest, held
  <2>. QED BY StopStep, <1>1, <1>3
<1>4. CASE /\ mcp' = ~mcp /\ Set(p, [op[p] EXCEPT !.pc = "snapshot", !.kind = "toggle"])
           /\ cfg' = IF shared THEN [cfg EXCEPT !.mcp = mcp'] ELSE cfg
           /\ history' = [history EXCEPT !.early = @ \/ shared]
  <2>. DEFINE r == [op[p] EXCEPT !.pc = "snapshot", !.kind = "toggle"]
  <2>1. r \in Operation /\ r.pc = "snapshot" /\ r.stamp = op[p].stamp
    <3>1. [op[p] EXCEPT !.pc = "snapshot"] \in Operation
      BY <1>1, FieldFacts DEF Stages
    <3>2. [[op[p] EXCEPT !.pc = "snapshot"] EXCEPT !.kind = "toggle"] \in Operation
      BY <3>1, FieldFacts
    <3>3. r = [[op[p] EXCEPT !.pc = "snapshot"] EXCEPT !.kind = "toggle"]
      BY <1>1 DEF Operation
    <3>4. r.pc = "snapshot" /\ r.stamp = op[p].stamp
      BY <1>1 DEF Operation
    <3>. QED BY <3>2, <3>3, <3>4
  <2>2. op' = [op EXCEPT ![p] = r]
    BY <1>4 DEF Set
  <2>. HIDE DEF r
  <2>3. \A q \in Procs : op'[q] = IF q = p THEN r ELSE op[q]
    BY <1>1, <2>2
  <2>4. mcp' \in BOOLEAN /\ cfg' \in Contents
    <3>1. mcp' \in BOOLEAN
      BY <1>4
    <3>2. [cfg EXCEPT !.mcp = mcp'] \in Contents
      BY <1>0, <3>1 DEF Types, Contents
    <3>. QED BY <1>0, <1>4, <3>1, <3>2 DEF Types
  <2>5. /\ history' \in Happenings /\ history'.blind = history.blind /\ history'.keyless = history.keyless
        /\ history'.late = history.late /\ history'.forgot = history.forgot
        /\ ~history'.early => ~history.early /\ ~shared
    BY <1>0, <1>4 DEF Types, Happenings
  <2>6. Types'
    <3>1. op' \in [Procs -> Operation]
      BY <1>1, <2>1, <2>2
    <3>. QED BY <1>0, <1>2, <2>4, <2>5, <3>1 DEF Types
  <2>7. Holder'
    BY <1>0, <1>1, <1>2, <2>1, <2>3 DEF Holder
  <2>8. Committed'
    BY <1>0, <1>2, <2>1, <2>3 DEF Committed
  <2>9. Keyed'
    BY <1>0, <1>2, <2>1, <2>3, <2>5 DEF Keyed
  <2>10. Stamped'
    BY <1>0, <1>2, <2>1, <2>3 DEF Stamped
  <2>11. Planned'
    BY <1>0, <2>1, <2>3 DEF Planned
  <2>12. True'
    BY <1>0, <1>2, <1>4, <2>5 DEF True
  <2>. QED BY <2>6, <2>7, <2>8, <2>9, <2>10, <2>11, <2>12 DEF IInv
<1>. QED BY <1>3, <1>4 DEF Toggle

\* ... then reads what it will write.
LEMMA SnapshotSafe ==
  ASSUME IInv, NEW p \in Procs, Snapshot(p)
  PROVE  IInv'
<1>. DEFINE i == [what |-> "toggle", to |-> mcp]
            new == [cfg EXCEPT !.mcp = mcp]
            r == [op[p] EXCEPT !.pc = "truncate", !.new = new, !.intent = i]
<1>0. Types /\ Holder /\ Committed /\ Keyed /\ Stamped /\ Planned /\ True
  BY DEF IInv
<1>1. op[p] \in Operation /\ op[p].pc = "snapshot" /\ op \in [Procs -> Operation]
  BY <1>0, OpTypes DEF Snapshot, At
<1>2. UNCHANGED rest
  BY DEF Snapshot, rest, held, file, copy, skillState, locks, ghosts
<1>3. CASE Set(p, Finished)
  BY StopStep, <1>1, <1>2, <1>3
<1>4. CASE Set(p, r)
  <2>1. i \in Intents /\ i.what = "toggle"
    BY <1>0 DEF Intents, Types
  <2>2. new \in Contents
    BY <1>0 DEF Types, Contents
  <2>. HIDE DEF i, new
  <2>3. [op[p] EXCEPT !.pc = "truncate"] \in Operation
    BY <1>1, FieldFacts DEF Stages
  <2>4. [[op[p] EXCEPT !.pc = "truncate"] EXCEPT !.new = new] \in Operation
    BY <2>2, <2>3, FieldFacts
  <2>5. [[[op[p] EXCEPT !.pc = "truncate"] EXCEPT !.new = new] EXCEPT !.intent = i] \in Operation
    BY <2>1, <2>4, FieldFacts
  <2>6. r = [[[op[p] EXCEPT !.pc = "truncate"] EXCEPT !.new = new] EXCEPT !.intent = i]
    BY <1>1 DEF Operation
  <2>7. r.pc = "truncate" /\ r.stamp = op[p].stamp /\ r.intent.what = "toggle"
    BY <1>1, <2>1 DEF Operation
  <2>8. r \in Operation
    BY <2>5, <2>6
  <2>9. op' = [op EXCEPT ![p] = r]
    BY <1>4 DEF Set
  <2>. HIDE DEF r
  <2>10. \A q \in Procs : op'[q] = IF q = p THEN r ELSE op[q]
    BY <1>1, <2>9
  <2>11. Types'
    <3>1. op' \in [Procs -> Operation]
      BY <1>1, <2>8, <2>9
    <3>. QED BY <1>0, <1>2, <3>1 DEF Types, rest, held
  <2>12. Holder'
    BY <1>0, <1>1, <1>2, <2>7, <2>10 DEF Holder, rest, held
  <2>13. Committed'
    BY <1>0, <1>2, <2>7, <2>10 DEF Committed, rest, held
  <2>14. Keyed'
    BY <1>0, <1>2, <2>7, <2>10 DEF Keyed, rest, held
  <2>15. Stamped'
    BY <1>0, <1>2, <2>7, <2>10 DEF Stamped, rest, held
  <2>16. Planned'
    BY <1>0, <2>7, <2>10 DEF Planned
  <2>17. True'
    BY <1>0, <1>2 DEF True, rest, held
  <2>. QED BY <2>11, <2>12, <2>13, <2>14, <2>15, <2>16, <2>17 DEF IInv
<1>. QED BY <1>3, <1>4 DEF Snapshot

\* What a writer overwrites is noted.
LEMMA JudgeFacts ==
  ASSUME Types, NEW p \in Procs, Judge(p)
  PROVE  /\ history' \in Happenings /\ history'.keyless = history.keyless
         /\ ~history'.blind => ~history.blind /\ op[p].new = Effect(op[p].intent, disk) /\ ~Pending
         /\ history'.late = history.late /\ history'.forgot = history.forgot /\ history'.early = history.early
         /\ history'.stayed = history.stayed /\ history'.stale = history.stale
<1>. DEFINE b == Blind(p) \/ Pending
<1>1. history' = [history EXCEPT !.blind = @ \/ b] /\ b \in BOOLEAN
  BY DEF Judge, Blind, Pending
<1>2. ~b => op[p].new = Effect(op[p].intent, disk) /\ ~Pending
  BY DEF Blind
<1>. HIDE DEF b
<1>. QED BY <1>1, <1>2 DEF Types, Happenings

\* The operations after a write.
LEMMA WriterFacts ==
  ASSUME Types, NEW p \in Procs, NEW locked, NEW s \in Stages,
         op' = [Noticed(p, locked) EXCEPT ![p].pc = s, ![p].stamp = stamp + 1]
  PROVE  /\ op' \in [Procs -> Operation]
         /\ \A q \in Procs :
              /\ op'[q].pc = (IF q = p THEN s ELSE op[q].pc)
              /\ op'[q].stamp = (IF q = p THEN stamp + 1 ELSE op[q].stamp)
              /\ op'[q].todo = op[q].todo /\ op'[q].intent = op[q].intent /\ op'[q].new = op[q].new
              /\ op'[q].key = op[q].key /\ op'[q].backup = op[q].backup
<1>. DEFINE N == Noticed(p, locked)
<1>1. /\ N \in [Procs -> Operation]
      /\ \A q \in Procs :
           /\ N[q].pc = op[q].pc /\ N[q].todo = op[q].todo /\ N[q].intent = op[q].intent
           /\ N[q].new = op[q].new /\ N[q].key = op[q].key
           /\ N[q].backup = op[q].backup /\ N[q].stamp = op[q].stamp
  BY NoticedFacts, OpTypes
<1>2. op' = [N EXCEPT ![p].pc = s, ![p].stamp = stamp + 1]
  OBVIOUS
<1>3. stamp + 1 \in Nat
  BY DEF Types
<1>. HIDE DEF N
<1>. DEFINE r == [[N[p] EXCEPT !.pc = s] EXCEPT !.stamp = stamp + 1]
<1>4. op' = [N EXCEPT ![p] = r]
  BY <1>1, <1>2
<1>5. N[p] \in Operation
  BY <1>1
<1>6. [N[p] EXCEPT !.pc = s] \in Operation
  BY <1>5, FieldFacts
<1>7. r \in Operation
  BY <1>3, <1>6, FieldFacts
<1>8. /\ r.pc = s /\ r.stamp = stamp + 1 /\ r.todo = N[p].todo /\ r.intent = N[p].intent
      /\ r.new = N[p].new /\ r.key = N[p].key /\ r.backup = N[p].backup
  BY <1>5 DEF Operation
<1>. HIDE DEF r
<1>9. \A q \in Procs : op'[q] = IF q = p THEN r ELSE N[q]
  BY <1>1, <1>4
<1>10. op' \in [Procs -> Operation]
  BY <1>1, <1>4, <1>7
<1>11. op'[p] = r /\ \A q \in Procs \ {p} : op'[q] = N[q]
  BY <1>9
<1>12. \A q \in Procs \ {p} :
         /\ op'[q].pc = op[q].pc /\ op'[q].stamp = op[q].stamp
         /\ op'[q].todo = op[q].todo /\ op'[q].intent = op[q].intent /\ op'[q].new = op[q].new
         /\ op'[q].key = op[q].key /\ op'[q].backup = op[q].backup
  <2>. TAKE q \in Procs \ {p}
  <2>1. op'[q] = N[q] /\ q \in Procs
    BY <1>11
  <2>. QED BY <1>1, <2>1
<1>13. /\ op'[p].pc = s /\ op'[p].stamp = stamp + 1
       /\ op'[p].todo = op[p].todo /\ op'[p].intent = op[p].intent /\ op'[p].new = op[p].new
       /\ op'[p].key = op[p].key /\ op'[p].backup = op[p].backup
  BY <1>1, <1>8, <1>11
<1>. QED BY <1>10, <1>12, <1>13

\* ... and whom it marks.
LEMMA WriterMarks ==
  ASSUME Types, NEW p \in Procs, NEW locked \in BOOLEAN, NEW s \in Stages,
         op' = [Noticed(p, locked) EXCEPT ![p].pc = s, ![p].stamp = stamp + 1], NEW q \in Procs
  PROVE  /\ op'[q].kind = op[q].kind /\ op'[q].skill = op[q].skill
         /\ op'[q].unseen \in BOOLEAN /\ (op[q].unseen => op'[q].unseen)
         /\ q # p /\ op[q].pc \notin {"none", "done"} /\ (~locked \/ op[q].pc \in {"truncate", "write", "adopt"})
              => op'[q].unseen
<1>. DEFINE N == Noticed(p, locked)
<1>0. op \in [Procs -> Operation]
  BY DEF Types
<1>1. /\ N[q].kind = op[q].kind /\ N[q].skill = op[q].skill /\ N[q].unseen \in BOOLEAN
      /\ op[q].unseen => N[q].unseen
      /\ q # p /\ op[q].pc \notin {"none", "done"} /\ (~locked \/ op[q].pc \in {"truncate", "write", "adopt"})
              => N[q].unseen
  BY <1>0, NoticedMarks
<1>2. N \in [Procs -> Operation]
  BY <1>0, NoticedFacts
<1>3. op' = [N EXCEPT ![p].pc = s, ![p].stamp = stamp + 1]
  OBVIOUS
<1>. HIDE DEF N
<1>4. CASE q # p
  <2>. op'[q] = N[q]
    BY <1>2, <1>3, <1>4
  <2>. QED BY <1>1
<1>5. CASE q = p
  <2>1. N[p] \in Operation
    BY <1>2
  <2>. DEFINE r == [[N[p] EXCEPT !.pc = s] EXCEPT !.stamp = stamp + 1]
  <2>2. op' = [N EXCEPT ![p] = r]
    BY <1>2, <1>3
  <2>a. r.kind = N[p].kind /\ r.skill = N[p].skill /\ r.unseen = N[p].unseen
    BY <2>1 DEF Operation
  <2>. HIDE DEF r
  <2>3. op'[p] = r
    BY <1>2, <2>2
  <2>. QED BY <1>1, <1>5, <2>a, <2>3
<1>. QED BY <1>4, <1>5

\* os.WriteFile truncates.
LEMMA TruncateSafe ==
  ASSUME IInv, NEW p \in Procs, Truncate(p)
  PROVE  IInv'
<1>0. Types /\ Holder /\ Committed /\ Keyed /\ Stamped /\ Planned /\ True
  BY DEF IInv
<1>1. op[p].pc = "truncate" /\ Judge(p) /\ disk' = Empty /\ stamp' = stamp + 1
  BY DEF Truncate, At
<1>2. UNCHANGED <<key, known, cfg, given, configMu, shared, mcp, dirs, seen, records>>
  BY DEF Truncate, copy, skillState, locks
<1>3. stamp \in Nat /\ known \in Nat /\ disk \in Contents
  BY <1>0 DEF Types
<1>4. PICK locked \in BOOLEAN : op' = [Noticed(p, locked) EXCEPT ![p].pc = "write", ![p].stamp = stamp + 1]
  BY DEF Truncate
<1>. "write" \in Stages
  BY DEF Stages
<1>5. /\ op' \in [Procs -> Operation]
      /\ \A q \in Procs :
           /\ op'[q].pc = (IF q = p THEN "write" ELSE op[q].pc)
           /\ op'[q].stamp = (IF q = p THEN stamp + 1 ELSE op[q].stamp)
           /\ op'[q].todo = op[q].todo /\ op'[q].intent = op[q].intent /\ op'[q].new = op[q].new
           /\ op'[q].key = op[q].key /\ op'[q].backup = op[q].backup
  BY <1>0, <1>4, WriterFacts
<1>6. /\ history' \in Happenings /\ history'.keyless = history.keyless
      /\ ~history'.blind => ~history.blind /\ op[p].new = Effect(op[p].intent, disk)
  BY <1>0, <1>1, JudgeFacts
<1>7. \A q \in Procs : op[q].stamp <= stamp /\ op[q].stamp \in Nat
  BY <1>0, OpTypes DEF Stamped
<1>8. op[p].intent \in Intents /\ op[p].intent.what = "toggle"
  BY <1>0, <1>1, OpTypes DEF Stamped
<1>9. ~history'.blind => op[p].new.models = disk.models
  BY <1>3, <1>6, <1>8, EffectFacts
<1>10. Types'
  BY <1>0, <1>1, <1>2, <1>3, <1>5, <1>6, EmptyType DEF Types
<1>11. Holder'
  BY <1>0, <1>1, <1>2, <1>5 DEF Holder
<1>12. Committed'
  <2>1. \A q \in Procs : op'[q].pc \in {"commit", "publish"} => q # p /\ op'[q].pc = op[q].pc
    BY <1>5
  <2>. QED BY <1>0, <1>2, <1>5, <2>1 DEF Committed
<1>13. Keyed'
  <2>. SUFFICES ASSUME ~history'.blind, ~history'.keyless
               PROVE  /\ disk'.models # {} => given'
                      /\ \A q \in Procs : op'[q].pc = "write" /\ op'[q].stamp = stamp' /\ op'[q].new.models # {} => given'
    BY DEF Keyed
  <2>1. disk.models # {} => given
    BY <1>0, <1>6 DEF Keyed
  <2>2. disk'.models = {}
    BY <1>1 DEF Empty
  <2>3. ASSUME NEW q \in Procs, op'[q].stamp = stamp'
        PROVE  q = p
    BY <1>1, <1>3, <1>5, <1>7, <2>3
  <2>4. op'[p].new.models = disk.models
    BY <1>5, <1>9
  <2>. QED BY <1>2, <2>1, <2>2, <2>3, <2>4
<1>14. Stamped'
  <2>1. known' <= stamp'
    BY <1>0, <1>1, <1>2, <1>3 DEF Stamped
  <2>2. \A q \in Procs : op'[q].stamp <= stamp'
    BY <1>1, <1>3, <1>5, <1>7
  <2>3. \A q \in Procs : op'[q].pc = "publish" => op'[q].stamp # stamp'
    BY <1>1, <1>3, <1>5, <1>7
  <2>4. \A q \in Procs : op'[q].pc \in {"write", "truncate"} => op'[q].intent.what = "toggle"
    BY <1>0, <1>5, <1>8 DEF Stamped
  <2>. QED BY <2>1, <2>2, <2>3, <2>4 DEF Stamped
<1>15. Planned'
  BY <1>0, <1>5 DEF Planned
<1>16. True'
  <2>. known' # stamp'
    BY <1>0, <1>1, <1>2, <1>3 DEF Stamped
  <2>. QED BY DEF True
<1>. QED BY <1>10, <1>11, <1>12, <1>13, <1>14, <1>15, <1>16 DEF IInv

\* ... and writes: what it read has its key, or the write was blind.
LEMMA WriteSafe ==
  ASSUME IInv, NEW p \in Procs, Write(p)
  PROVE  IInv'
<1>0. Types /\ Holder /\ Committed /\ Keyed /\ Stamped /\ Planned /\ True
  BY DEF IInv
<1>1. op[p].pc = "write" /\ disk' = op[p].new /\ stamp' = stamp + 1
  BY DEF Write, At
<1>2. UNCHANGED <<key, known, cfg, given, configMu, shared, mcp, dirs, seen, records>>
  BY DEF Write, copy, skillState, locks
<1>3. stamp \in Nat /\ known \in Nat /\ disk \in Contents /\ op[p].new \in Contents
  BY <1>0, OpTypes DEF Types
<1>. PICK locked \in BOOLEAN : op' = [Noticed(p, locked) EXCEPT ![p] = Finished]
  BY DEF Write
<1>. DEFINE N == Noticed(p, locked)
<1>4. op' = [N EXCEPT ![p] = Finished]
  OBVIOUS
<1>5. /\ N \in [Procs -> Operation]
      /\ \A q \in Procs :
           /\ N[q].pc = op[q].pc /\ N[q].todo = op[q].todo /\ N[q].intent = op[q].intent
           /\ N[q].new = op[q].new /\ N[q].key = op[q].key
           /\ N[q].backup = op[q].backup /\ N[q].stamp = op[q].stamp
  <2>. op \in [Procs -> Operation]
    BY <1>0 DEF Types
  <2>. QED BY NoticedFacts
<1>. HIDE DEF N
<1>6. op'[p] = Finished /\ \A q \in Procs \ {p} : op'[q] = N[q]
  BY <1>4, <1>5
<1>7. op'[p].pc = "done" /\ op'[p].stamp = 0
  BY <1>6, ConstantTypes
<1>8. \A q \in Procs \ {p} :
        /\ op'[q].pc = op[q].pc /\ op'[q].stamp = op[q].stamp
        /\ op'[q].todo = op[q].todo /\ op'[q].intent = op[q].intent /\ op'[q].new = op[q].new
        /\ op'[q].key = op[q].key /\ op'[q].backup = op[q].backup
  BY <1>5, <1>6
<1>9. \A q \in Procs : op[q].stamp <= stamp /\ op[q].stamp \in Nat
  BY <1>0, OpTypes DEF Stamped
<1>10. op[p].intent \in Intents /\ op[p].intent.what = "toggle"
  BY <1>0, <1>1, OpTypes DEF Stamped
<1>11. /\ history' \in Happenings /\ history'.keyless = history.keyless
       /\ ~history'.blind => ~history.blind
       /\ ~history'.blind => op[p].stamp = stamp \/ op[p].new = Effect(op[p].intent, disk)
  <2>1. CASE op[p].stamp = stamp
    BY <1>0, <2>1 DEF Write, Types
  <2>2. CASE op[p].stamp # stamp
    <3>. Judge(p)
      BY <2>2 DEF Write
    <3>. QED BY <1>0, JudgeFacts
  <2>. QED BY <2>1, <2>2
<1>12. Types'
  <2>1. op' \in [Procs -> Operation]
    BY <1>4, <1>5, ConstantTypes
  <2>. QED BY <1>0, <1>1, <1>2, <1>3, <1>11, <2>1 DEF Types
<1>13. Holder'
  BY <1>0, <1>1, <1>2, <1>7, <1>8 DEF Holder
<1>14. Committed'
  <2>1. \A q \in Procs : op'[q].pc \in {"commit", "publish"} => q \in Procs \ {p}
    BY <1>7
  <2>. QED BY <1>0, <1>2, <1>8, <2>1 DEF Committed
<1>15. Keyed'
  <2>. SUFFICES ASSUME ~history'.blind, ~history'.keyless
               PROVE  /\ disk'.models # {} => given'
                      /\ \A q \in Procs : op'[q].pc = "write" => op'[q].stamp # stamp'
    BY DEF Keyed
  <2>1. /\ disk.models # {} => given
        /\ op[p].stamp = stamp /\ op[p].new.models # {} => given
    BY <1>0, <1>1, <1>11 DEF Keyed
  <2>2. op[p].stamp = stamp \/ op[p].new.models = disk.models
    BY <1>3, <1>10, <1>11, EffectFacts
  <2>3. \A q \in Procs : op'[q].pc = "write" => op'[q].stamp # stamp'
    BY <1>1, <1>3, <1>7, <1>8, <1>9
  <2>. QED BY <1>1, <1>2, <2>1, <2>2, <2>3
<1>16. Stamped'
  <2>1. known' <= stamp'
    BY <1>0, <1>1, <1>2, <1>3 DEF Stamped
  <2>2. \A q \in Procs : op'[q].stamp <= stamp'
    BY <1>1, <1>3, <1>7, <1>8, <1>9
  <2>3. \A q \in Procs : op'[q].pc = "publish" => op'[q].stamp # stamp'
    BY <1>1, <1>3, <1>7, <1>8, <1>9
  <2>4. \A q \in Procs : op'[q].pc \in {"write", "truncate"} => op'[q].intent.what = "toggle"
    BY <1>0, <1>7, <1>8 DEF Stamped
  <2>. QED BY <2>1, <2>2, <2>3, <2>4 DEF Stamped
<1>17. Planned'
  BY <1>0, <1>7, <1>8 DEF Planned
<1>18. True'
  <2>. known' # stamp'
    BY <1>0, <1>1, <1>2, <1>3 DEF Stamped
  <2>. QED BY DEF True
<1>. QED BY <1>12, <1>13, <1>14, <1>15, <1>16, <1>17, <1>18 DEF IInv

-----------------------------------------------------------------------------
(* Commits.                                                                *)

\* The credentials are renamed first, or the commit ends there.
LEMMA RenameKeySafe ==
  ASSUME IInv, NEW p \in Procs, RenameKey(p)
  PROVE  IInv'
<1>0. Types /\ Holder /\ Committed /\ Keyed /\ Stamped /\ Planned /\ True
  BY DEF IInv
<1>1. op[p].pc = "commit" /\ op[p].key # key /\ configMu = p /\ op \in [Procs -> Operation]
  BY <1>0 DEF RenameKey, At, Holder, Types
<1>2. UNCHANGED <<disk, stamp, cfg, known, given, shared, mcp, dirs, seen, records, history>>
  BY DEF RenameKey, file, copy, skillState, ghosts
<1>3. \A q \in Procs : op[q].pc \in {"commit", "publish"} => q = p
  BY <1>0, <1>1 DEF Holder
<1>4. CASE key' = op[p].key /\ UNCHANGED <<locks, op>>
  <2>1. op' = op /\ configMu' = configMu
    BY <1>4 DEF locks
  <2>2. Types'
    BY <1>0, <1>2, <1>4, <2>1, OpTypes DEF Types
  <2>3. Committed'
    BY <1>0, <1>1, <1>2, <1>3, <1>4, <2>1, SettingsAssumption DEF Committed, Procs
  <2>. QED BY <1>0, <1>2, <2>1, <2>2, <2>3 DEF IInv, Holder, Keyed, Stamped, Planned, True
<1>5. CASE configMu' = None /\ Stop(p) /\ UNCHANGED key
  <2>1. Set(p, Finished)
    BY <1>5 DEF Stop
  <2>2. PICK r \in Operation : op' = [op EXCEPT ![p] = r] /\ r.pc \in Nexts /\ r.stamp <= stamp
    BY <2>1, NextFacts
  <2>3. \A q \in Procs : op'[q] = IF q = p THEN r ELSE op[q]
    BY <1>1, <2>2
  <2>4. r.pc \notin {"commit", "publish", "write", "truncate", "refresh", "adopt"}
    BY <2>2 DEF Nexts
  <2>5. Types'
    <3>1. op' \in [Procs -> Operation]
      BY <1>1, <2>2
    <3>. QED BY <1>0, <1>2, <1>5, <3>1 DEF Types
  <2>6. Holder'
    BY <1>0, <1>3, <1>5, <2>3, <2>4, SettingsAssumption DEF Holder, Procs
  <2>7. Committed'
    BY <1>0, <1>1, <1>2, <1>3, <1>5, <2>3, <2>4 DEF Committed
  <2>8. Keyed'
    BY <1>0, <1>2, <2>3, <2>4 DEF Keyed
  <2>9. Stamped'
    BY <1>0, <1>2, <2>2, <2>3, <2>4 DEF Stamped
  <2>10. Planned'
    BY <1>0, <2>3, <2>4 DEF Planned
  <2>11. True'
    BY <1>0, <1>2 DEF True
  <2>. QED BY <2>5, <2>6, <2>7, <2>8, <2>9, <2>10, <2>11 DEF IInv
<1>. QED BY <1>4, <1>5 DEF RenameKey

\* The configuration follows once the key is there; without a key it has no models.
LEMMA RenameConfigSafe ==
  ASSUME IInv, NEW p \in Procs, RenameConfig(p)
  PROVE  IInv'
<1>0. Types /\ Holder /\ Committed /\ Keyed /\ Stamped /\ Planned /\ True
  BY DEF IInv
<1>1. /\ op[p].pc = "commit" /\ op[p].key = key /\ Judge(p) /\ configMu = p
      /\ disk' = op[p].new /\ stamp' = stamp + 1 /\ given' = op[p].key
  BY <1>0 DEF RenameConfig, Ready, At, Holder
<1>2. UNCHANGED <<key, known, cfg, configMu, shared, mcp, dirs, seen, records>>
  BY DEF RenameConfig, copy, skillState, locks
<1>3. stamp \in Nat /\ known \in Nat /\ disk \in Contents /\ op[p].new \in Contents /\ key \in BOOLEAN
  BY <1>0, OpTypes DEF Types
<1>4. PICK locked \in BOOLEAN : op' = [Noticed(p, locked) EXCEPT ![p].pc = "publish", ![p].stamp = stamp + 1]
  BY DEF RenameConfig
<1>. "publish" \in Stages
  BY DEF Stages
<1>5. /\ op' \in [Procs -> Operation]
      /\ \A q \in Procs :
           /\ op'[q].pc = (IF q = p THEN "publish" ELSE op[q].pc)
           /\ op'[q].stamp = (IF q = p THEN stamp + 1 ELSE op[q].stamp)
           /\ op'[q].todo = op[q].todo /\ op'[q].intent = op[q].intent /\ op'[q].new = op[q].new
           /\ op'[q].key = op[q].key /\ op'[q].backup = op[q].backup
  BY <1>0, <1>4, WriterFacts
<1>6. /\ history' \in Happenings /\ history'.keyless = history.keyless
      /\ ~history'.blind => ~history.blind /\ op[p].new = Effect(op[p].intent, disk)
  BY <1>0, <1>1, JudgeFacts
<1>7. \A q \in Procs : op[q].stamp <= stamp /\ op[q].stamp \in Nat
  BY <1>0, OpTypes DEF Stamped
<1>8. /\ op[p].backup = given /\ op[p].intent.what \in {"upsert", "delete", "record", "adopt"}
      /\ op[p].backup /\ ~op[p].key => op[p].new.models = {}
      /\ ~op[p].key => op[p].intent.what # "upsert"
  BY <1>0, <1>1 DEF Committed
<1>9. op[p].intent \in Intents
  BY <1>0, OpTypes
<1>10. Types'
  BY <1>0, <1>1, <1>2, <1>3, <1>5, <1>6 DEF Types
<1>11. Holder'
  BY <1>0, <1>1, <1>2, <1>5 DEF Holder
<1>12. Committed'
  <2>1. configMu' # None
    BY <1>1, <1>2, SettingsAssumption DEF Procs
  <2>2. \A q \in Procs : op'[q].pc # "commit" /\ (op'[q].pc = "publish" => q = p)
    BY <1>0, <1>1, <1>5 DEF Holder
  <2>. QED BY <1>1, <1>2, <1>5, <2>1, <2>2 DEF Committed
<1>13. Keyed'
  <2>. SUFFICES ASSUME ~history'.blind, ~history'.keyless
               PROVE  /\ disk'.models # {} => given'
                      /\ \A q \in Procs : op'[q].pc = "write" => op'[q].stamp # stamp'
    BY DEF Keyed
  <2>1. disk.models # {} => given
    BY <1>0, <1>6 DEF Keyed
  <2>2. ~op[p].key => op[p].new.models \subseteq disk.models
    BY <1>3, <1>6, <1>8, <1>9, EffectFacts
  <2>3. ~op[p].key => op[p].new.models = {}
    BY <1>8, <2>1, <2>2
  <2>4. \A q \in Procs : op'[q].pc = "write" => op'[q].stamp # stamp'
    BY <1>1, <1>3, <1>5, <1>7
  <2>. QED BY <1>1, <2>3, <2>4
<1>14. Stamped'
  <2>1. known' <= stamp'
    BY <1>0, <1>1, <1>2, <1>3 DEF Stamped
  <2>2. \A q \in Procs : op'[q].stamp <= stamp'
    BY <1>1, <1>3, <1>5, <1>7
  <2>3. \A q \in Procs : op'[q].pc = "publish" => q = p
    BY <1>0, <1>1, <1>5 DEF Holder
  <2>4. \A q \in Procs : op'[q].pc \in {"write", "truncate"} => op'[q].intent.what = "toggle"
    BY <1>0, <1>5 DEF Stamped
  <2>. QED BY <1>1, <1>5, <2>1, <2>2, <2>3, <2>4 DEF Stamped
<1>15. Planned'
  BY <1>0, <1>5 DEF Planned
<1>16. True'
  <2>. known' # stamp'
    BY <1>0, <1>1, <1>2, <1>3 DEF Stamped
  <2>. QED BY DEF True
<1>. QED BY <1>10, <1>11, <1>12, <1>13, <1>14, <1>15, <1>16 DEF IInv

\* A commit that fails puts back the key that was given.
LEMMA CommitFailsSafe ==
  ASSUME IInv, NEW p \in Procs, CommitFails(p)
  PROVE  IInv'
<1>0. Types /\ Holder /\ Committed /\ Keyed /\ Stamped /\ Planned /\ True
  BY DEF IInv
<1>1. /\ op[p].pc = "commit" /\ configMu = p /\ op \in [Procs -> Operation]
      /\ key' = op[p].backup /\ configMu' = None /\ cfg' = cfg
  BY <1>0 DEF CommitFails, Ready, At, Holder, Types, Restored, Unpublished
<1>2. UNCHANGED <<disk, stamp, known, given, shared, mcp, dirs, seen, records>>
  BY DEF CommitFails, file, skillState
<1>3. \A q \in Procs : op[q].pc \in {"commit", "publish"} => q = p
  BY <1>0, <1>1 DEF Holder
<1>4. key' = given /\ key' \in BOOLEAN
  BY <1>0, <1>1, OpTypes DEF Committed
<1>5. Continue(p) \/ Set(p, Finished)
  BY DEF CommitFails, Stop
<1>6. PICK r \in Operation : op' = [op EXCEPT ![p] = r] /\ r.pc \in Nexts /\ r.stamp <= stamp
  BY <1>5, NextFacts
<1>7. \A q \in Procs : op'[q] = IF q = p THEN r ELSE op[q]
  BY <1>1, <1>6
<1>8. r.pc \notin {"commit", "publish", "write", "truncate", "refresh", "adopt"}
  BY <1>6 DEF Nexts
<1>9. /\ history' \in Happenings /\ history'.blind = history.blind /\ history'.keyless = history.keyless
      /\ history'.late = history.late /\ history'.forgot = history.forgot /\ history'.early = history.early
  <2>. DEFINE b == op[p].kind = "import"
  <2>1. history' = [history EXCEPT !.stayed = @ \/ b] /\ b \in BOOLEAN
    BY DEF CommitFails
  <2>. HIDE DEF b
  <2>. QED BY <1>0, <2>1 DEF Types, Happenings
<1>10. Types'
  <2>1. op' \in [Procs -> Operation]
    BY <1>1, <1>6
  <2>. QED BY <1>0, <1>1, <1>2, <1>4, <1>9, <2>1 DEF Types
<1>11. Holder'
  BY <1>0, <1>1, <1>3, <1>7, <1>8, SettingsAssumption DEF Holder, Procs
<1>12. Committed'
  BY <1>1, <1>2, <1>3, <1>4, <1>7, <1>8 DEF Committed
<1>13. Keyed'
  BY <1>0, <1>2, <1>7, <1>8, <1>9 DEF Keyed
<1>14. Stamped'
  BY <1>0, <1>2, <1>6, <1>7, <1>8 DEF Stamped
<1>15. Planned'
  BY <1>0, <1>7, <1>8 DEF Planned
<1>16. True'
  BY <1>0, <1>1, <1>2, <1>9 DEF True
<1>. QED BY <1>10, <1>11, <1>12, <1>13, <1>14, <1>15, <1>16 DEF IInv

\* The copy is what was renamed, unless somebody has written since.
LEMMA PublishSafe ==
  ASSUME IInv, NEW p \in Procs, Publish(p)
  PROVE  IInv'
<1>0. Types /\ Holder /\ Committed /\ Keyed /\ Stamped /\ Planned /\ True
  BY DEF IInv
<1>1. /\ op[p].pc = "publish" /\ configMu = p /\ op \in [Procs -> Operation] /\ op[p] \in Operation
      /\ configMu' = None /\ cfg' = op[p].new /\ known' = stamp /\ shared' = FALSE
  BY <1>0, OpTypes DEF Publish, At, Holder, Types
<1>2. UNCHANGED <<disk, stamp, key, given, mcp, dirs, seen, records>>
  BY DEF Publish, file, skillState
<1>3. \A q \in Procs : op[q].pc \in {"commit", "publish"} => q = p
  BY <1>0, <1>1 DEF Holder
<1>4. key = given /\ (op[p].stamp = stamp => disk = op[p].new)
  BY <1>0, <1>1 DEF Committed, Stamped
<1>5. /\ history' \in Happenings /\ history'.blind = history.blind /\ history'.keyless = history.keyless
      /\ history'.forgot = history.forgot /\ history'.early = history.early
      /\ ~history'.late => stamp = op[p].stamp
  <2>. DEFINE b == stamp # op[p].stamp
  <2>1. history' = [history EXCEPT !.late = @ \/ b] /\ b \in BOOLEAN
    BY DEF Publish
  <2>2. ~b => stamp = op[p].stamp
    OBVIOUS
  <2>. HIDE DEF b
  <2>. QED BY <1>0, <2>1, <2>2 DEF Types, Happenings
<1>. DEFINE t == <<"reload", "servers", "done">>
<1>6. \E r \in Operation :
        /\ op' = [op EXCEPT ![p] = r] /\ r.pc \in {"apply", "refresh"} /\ r.stamp = op[p].stamp
        /\ r.pc = "refresh" => r.todo # <<"done">>
  <2>1. CASE Go(p, "apply")
    <3>. DEFINE r == [op[p] EXCEPT !.pc = "apply"]
    <3>1. r \in Operation
      BY <1>1, FieldFacts DEF Stages
    <3>2. r.pc = "apply" /\ r.stamp = op[p].stamp
      BY <1>1 DEF Operation
    <3>3. op' = [op EXCEPT ![p] = r]
      BY <2>1 DEF Go, Set
    <3>. HIDE DEF r
    <3>. QED BY <3>1, <3>2, <3>3
  <2>2. CASE Set(p, [op[p] EXCEPT !.pc = "refresh", !.todo = t])
    <3>. DEFINE r == [op[p] EXCEPT !.pc = "refresh", !.todo = t]
    <3>1. t \in Todos /\ t # <<"done">>
      BY DEF Todos
    <3>. HIDE DEF t
    <3>2. [op[p] EXCEPT !.pc = "refresh"] \in Operation
      BY <1>1, FieldFacts DEF Stages
    <3>3. [[op[p] EXCEPT !.pc = "refresh"] EXCEPT !.todo = t] \in Operation
      BY <3>1, <3>2, FieldFacts
    <3>4. r = [[op[p] EXCEPT !.pc = "refresh"] EXCEPT !.todo = t]
      BY <1>1 DEF Operation
    <3>5. r.pc = "refresh" /\ r.stamp = op[p].stamp /\ r.todo # <<"done">>
      BY <1>1, <3>1 DEF Operation
    <3>6. r \in Operation
      BY <3>3, <3>4
    <3>7. op' = [op EXCEPT ![p] = r]
      BY <2>2 DEF Set
    <3>. HIDE DEF r
    <3>. QED BY <3>5, <3>6, <3>7
  <2>. QED BY <2>1, <2>2 DEF Publish
<1>7. PICK r \in Operation :
        /\ op' = [op EXCEPT ![p] = r] /\ r.pc \in {"apply", "refresh"} /\ r.stamp = op[p].stamp
        /\ r.pc = "refresh" => r.todo # <<"done">>
  BY <1>6
<1>8. \A q \in Procs : op'[q] = IF q = p THEN r ELSE op[q]
  BY <1>1, <1>7
<1>9. Types'
  <2>1. op' \in [Procs -> Operation]
    BY <1>1, <1>7
  <2>2. cfg' \in Contents
    BY <1>0, <1>1, OpTypes
  <2>. QED BY <1>0, <1>1, <1>2, <1>5, <2>1, <2>2 DEF Types
<1>10. Holder'
  BY <1>1, <1>3, <1>7, <1>8, SettingsAssumption DEF Holder, Procs
<1>11. Committed'
  BY <1>1, <1>2, <1>3, <1>4, <1>7, <1>8 DEF Committed
<1>12. Keyed'
  BY <1>0, <1>2, <1>5, <1>7, <1>8 DEF Keyed
<1>13. Stamped'
  <2>1. known' <= stamp'
    BY <1>0, <1>1, <1>2 DEF Types
  <2>. QED BY <1>0, <1>2, <1>7, <1>8, <2>1 DEF Stamped
<1>14. Planned'
  BY <1>0, <1>7, <1>8 DEF Planned
<1>15. True'
  BY <1>1, <1>2, <1>4, <1>5 DEF True
<1>. QED BY <1>9, <1>10, <1>11, <1>12, <1>13, <1>14, <1>15 DEF IInv

-----------------------------------------------------------------------------
(* The user, and restarts.                                                 *)

\* The user edits the file.
LEMMA EditSafe ==
  ASSUME IInv, Edit
  PROVE  IInv'
<1>0. Types /\ Holder /\ Committed /\ Keyed /\ Stamped /\ Planned /\ True
  BY DEF IInv
<1>1. stamp' = stamp + 1
  BY DEF Edit
<1>2. UNCHANGED <<key, known, cfg, given, configMu, shared, mcp, dirs, seen, records>>
  BY DEF Edit, copy, skillState, locks
<1>3. stamp \in Nat /\ known \in Nat /\ disk \in Contents /\ history \in Happenings /\ op \in [Procs -> Operation]
  BY <1>0 DEF Types
<1>4. /\ op' \in [Procs -> Operation]
      /\ \A q \in Procs :
           /\ op'[q].pc = op[q].pc /\ op'[q].todo = op[q].todo /\ op'[q].intent = op[q].intent
           /\ op'[q].new = op[q].new /\ op'[q].key = op[q].key
           /\ op'[q].backup = op[q].backup /\ op'[q].stamp = op[q].stamp
  <2>1. PICK locked \in BOOLEAN : op' = Noticed(None, locked)
    BY DEF Edit
  <2>. QED BY <1>3, <2>1, NoticedFacts
<1>5. disk' \in Contents
  <2>1. CASE \E m \in Models \ disk.models : disk' = Effect([what |-> "upsert", model |-> m], disk)
    <3>1. PICK m \in Models : disk' = Effect([what |-> "upsert", model |-> m], disk)
      BY <2>1
    <3>. DEFINE i == [what |-> "upsert", model |-> m]
    <3>2. i \in Intents /\ i.what # "none"
      BY DEF Intents
    <3>3. disk' = Effect(i, disk)
      BY <3>1
    <3>. HIDE DEF i
    <3>. QED BY <1>3, <3>2, <3>3, EffectFacts
  <2>2. CASE disk' = Effect([what |-> "toggle", to |-> ~disk.mcp], disk)
    <3>. DEFINE b == ~disk.mcp
                i == [what |-> "toggle", to |-> b]
    <3>1. b \in BOOLEAN
      OBVIOUS
    <3>. HIDE DEF b
    <3>2. i \in Intents /\ i.what # "none"
      BY <3>1 DEF Intents
    <3>3. disk' = Effect(i, disk)
      BY <2>2 DEF b
    <3>. HIDE DEF i
    <3>. QED BY <1>3, <3>2, <3>3, EffectFacts
  <2>. QED BY <2>1, <2>2 DEF Edit
<1>6. history' \in Happenings /\ (~history'.keyless => given)
  <2>. DEFINE b == ~(key /\ given)
  <2>1. history' = [history EXCEPT !.keyless = @ \/ b] /\ b \in BOOLEAN
    BY DEF Edit
  <2>2. ~b => given
    OBVIOUS
  <2>. HIDE DEF b
  <2>. QED BY <1>3, <2>1, <2>2 DEF Happenings
<1>7. \A q \in Procs : op[q].stamp <= stamp /\ op[q].stamp \in Nat
  BY <1>0, OpTypes DEF Stamped
<1>8. Types'
  BY <1>0, <1>1, <1>2, <1>3, <1>4, <1>5, <1>6 DEF Types
<1>9. Holder'
  BY <1>0, <1>2, <1>4 DEF Holder
<1>10. Committed'
  BY <1>0, <1>2, <1>4 DEF Committed
<1>11. Keyed'
  BY <1>2, <1>6 DEF Keyed
<1>12. Stamped'
  <2>1. known' <= stamp'
    BY <1>0, <1>1, <1>2, <1>3 DEF Stamped
  <2>2. \A q \in Procs : op'[q].stamp <= stamp' /\ op'[q].stamp # stamp'
    BY <1>1, <1>3, <1>4, <1>7
  <2>. QED BY <1>0, <1>4, <2>1, <2>2 DEF Stamped
<1>13. Planned'
  BY <1>0, <1>4 DEF Planned
<1>14. True'
  <2>. known' # stamp'
    BY <1>0, <1>1, <1>2, <1>3 DEF Stamped
  <2>. QED BY DEF True
<1>. QED BY <1>8, <1>9, <1>10, <1>11, <1>12, <1>13, <1>14 DEF IInv

\* The user places a skill.
LEMMA PlaceSafe ==
  ASSUME IInv, Place
  PROVE  IInv'
<1>0. Types /\ Holder /\ Committed /\ Keyed /\ Stamped /\ Planned /\ True
  BY DEF IInv
<1>1. UNCHANGED <<held, shared, mcp, seen, records, op, history>>
  BY DEF Place, held, file, copy, skillState, locks
<1>2. PICK s \in Skills : dirs' = dirs \cup {s}
  BY DEF Place
<1>3. Types'
  BY <1>0, <1>1, <1>2 DEF Types, held
<1>. QED BY <1>0, <1>1, <1>3 DEF IInv, held, Holder, Committed, Keyed, Stamped, Planned, True

\* After a crash at any step the key is what the configuration on disk needs.
LEMMA RestartSafe ==
  ASSUME IInv, Restart
  PROVE  IInv'
<1>0. Types /\ Holder /\ Committed /\ Keyed /\ Stamped /\ Planned /\ True
  BY DEF IInv
<1>1. /\ cfg' = Loaded(disk) /\ known' = stamp /\ shared' = TRUE /\ mcp' = cfg'.mcp
      /\ records' = cfg'.skills /\ seen' = {} /\ configMu' = None /\ given' = key
  BY DEF Restart
<1>2. UNCHANGED <<disk, stamp, key, dirs>>
  BY DEF Restart, file
<1>3. stamp \in Nat /\ disk \in Contents /\ history \in Happenings /\ key \in BOOLEAN /\ given \in BOOLEAN
  BY <1>0 DEF Types
<1>4. op' = [q \in Procs |-> IF q = Boot THEN Booting ELSE IF op[q].pc = "none" THEN Idle ELSE Finished]
  BY DEF Restart, At
<1>5. op' \in [Procs -> Operation] /\ \A q \in Procs : op'[q].pc \in {"none", "done", "reload"} /\ op'[q].stamp = 0
  <2>1. \A q \in Procs : op'[q] \in {Booting, Idle, Finished}
    BY <1>4
  <2>2. \A q \in Procs : op'[q] \in Operation /\ op'[q].pc \in {"none", "done", "reload"} /\ op'[q].stamp = 0
    BY <2>1, ConstantTypes
  <2>3. DOMAIN op' = Procs /\ op' = [q \in Procs |-> op'[q]]
    BY <1>4
  <2>. QED BY <2>2, <2>3
<1>6. /\ history' \in Happenings /\ history'.blind = history.blind
      /\ ~history'.keyless => ~history.keyless /\ (given => key)
      /\ ~history'.forgot => Configured(disk)
  <2>. DEFINE a == ~Configured(disk)
              b == given /\ ~key
              c == \E q \in Ops : op[q].kind = "import"
  <2>1. a \in BOOLEAN /\ b \in BOOLEAN /\ c \in BOOLEAN
    BY DEF Configured
  <2>2. history' = [history EXCEPT !.forgot = @ \/ a, !.keyless = @ \/ b, !.stayed = @ \/ c]
    BY DEF Restart
  <2>3. (~a => Configured(disk)) /\ (~b => (given => key))
    OBVIOUS
  <2>. HIDE DEF a, b, c
  <2>. QED BY <1>3, <2>1, <2>2, <2>3 DEF Happenings
<1>7. cfg' \in Contents
  BY <1>1, <1>3, EmptyType DEF Loaded
<1>8. Types'
  BY <1>0, <1>1, <1>2, <1>3, <1>5, <1>6, <1>7 DEF Types, Contents
<1>9. Holder'
  BY <1>1, <1>5, SettingsAssumption DEF Holder, Procs
<1>10. Committed'
  BY <1>1, <1>2, <1>5 DEF Committed
<1>11. Keyed'
  <2>. SUFFICES ASSUME ~history'.blind, ~history'.keyless, disk.models # {}
               PROVE  key
    BY <1>1, <1>2, <1>5 DEF Keyed
  <2>. QED BY <1>0, <1>6 DEF Keyed
<1>12. Stamped'
  BY <1>1, <1>2, <1>3, <1>5 DEF Stamped
<1>13. Planned'
  BY <1>5 DEF Planned
<1>14. True'
  BY <1>1, <1>2, <1>6 DEF True, Loaded
<1>. QED BY <1>8, <1>9, <1>10, <1>11, <1>12, <1>13, <1>14 DEF IInv

-----------------------------------------------------------------------------
(* The invariant is inductive.                                             *)

\* A daemon that has started.
LEMMA InitSafe == Init => IInv
<1>. SUFFICES ASSUME Init
             PROVE  IInv
  OBVIOUS
<1>1. PICK c \in Contents : disk = c
  BY DEF Init
<1>2. \A q \in Procs : op[q] \in {Finished, Idle}
  BY DEF Init
<1>3. \A q \in Procs : op[q] \in Operation /\ op[q].pc \in {"none", "done"} /\ op[q].stamp = 0
  BY <1>2, ConstantTypes
<1>4. op \in [Procs -> Operation]
  BY <1>3 DEF Init
<1>5. /\ disk \in Contents /\ cfg = disk /\ stamp = 1 /\ known = 1 /\ key = TRUE /\ given = TRUE
      /\ configMu = None /\ mcp = FALSE /\ shared \in BOOLEAN
  BY <1>1 DEF Init
<1>6. Types
  <2>1. dirs \subseteq Skills /\ seen \subseteq Skills /\ records \in [Skills -> {"none", "on", "off"}]
    BY <1>5 DEF Init, Contents
  <2>2. history \in Happenings
    BY DEF Init, Happenings
  <2>. QED BY <1>4, <1>5, <2>1, <2>2 DEF Types
<1>7. Holder
  BY <1>3, <1>5, SettingsAssumption DEF Holder, Procs
<1>8. Committed
  BY <1>3, <1>5 DEF Committed
<1>9. Keyed
  BY <1>5 DEF Keyed
<1>10. Stamped
  BY <1>3, <1>5 DEF Stamped
<1>11. Planned
  BY <1>3 DEF Planned
<1>12. True
  BY <1>5 DEF True
<1>. QED BY <1>6, <1>7, <1>8, <1>9, <1>10, <1>11, <1>12 DEF IInv

\* No step breaks the invariant.
LEMMA NextSafe == IInv /\ [Next]_vars => IInv'
<1>. SUFFICES ASSUME IInv, [Next]_vars
             PROVE  IInv'
  OBVIOUS
<1>1. ASSUME NEW p \in Procs, Committing(p)
      PROVE  IInv'
  BY <1>1, RenameKeySafe, RenameConfigSafe, CommitFailsSafe, PublishSafe DEF Committing
<1>2. ASSUME NEW p \in Procs, Reloading(p)
      PROVE  IInv'
  BY <1>2, RefreshSafe, ReloadSafe, AdoptSafe, ApplySafe, ServersSafe DEF Reloading
<1>3. ASSUME NEW o \in Ops, Request(o)
      PROVE  IInv'
  <2>. o \in Procs
    BY DEF Procs
  <2>. QED BY <1>3, GateSafe, UpdateSafe, ToggleSafe, SnapshotSafe, TruncateSafe, WriteSafe, SetSkillSafe DEF Request
<1>4. ASSUME NEW o \in Ops, Workflow(o)
      PROVE  IInv'
  <2>. o \in Procs
    BY DEF Procs
  <2>. QED BY <1>4, ImportSafe, CheckSafe, OffSafe, AskSafe, EnableSafe DEF Workflow
<1>5. ASSUME UNCHANGED vars
      PROVE  IInv'
  BY <1>5 DEF vars, file, copy, skillState, locks, ghosts, IInv, Types, Holder, Committed, Keyed, Stamped, Planned, True
<1>. QED BY <1>1, <1>2, <1>3, <1>4, <1>5, EditSafe, PlaceSafe, RestartSafe DEF Next

\* The strengthening holds at every step, for any operations, models and
\* skills, failures of a commit, edits of the user and restarts.
THEOREM InvCorrect == Spec => []IInv
BY InitSafe, NextSafe, PTL DEF Spec

\* The two files agree where the invariant holds.
LEMMA AgreeFromInv == IInv => CredentialsAgree
<1>. SUFFICES ASSUME IInv
             PROVE  CredentialsAgree
  OBVIOUS
<1>0. Types /\ Holder /\ Committed /\ Keyed
  BY DEF IInv
<1>1. RolledBack
  BY <1>0 DEF RolledBack, Committed
<1>2. KeysPrecedeModels
  <2>. SUFFICES ASSUME disk.models # {}, ~history.blind, ~history.keyless, ~key
               PROVE  \E p \in Procs : configMu = p /\ ~op[p].key
    BY DEF KeysPrecedeModels
  <2>1. given
    BY <1>0 DEF Keyed
  <2>2. configMu \in Procs
    BY <1>0, <2>1 DEF Committed, Types
  <2>3. op[configMu].pc \in {"commit", "publish"}
    BY <1>0, <2>2 DEF Holder
  <2>4. CASE op[configMu].pc = "commit"
    <3>. ~op[configMu].key
      BY <1>0, <2>1, <2>2, <2>4 DEF Committed
    <3>. QED BY <2>2
  <2>5. CASE op[configMu].pc = "publish"
    BY <1>0, <2>1, <2>2, <2>5 DEF Committed
  <2>. QED BY <2>3, <2>4, <2>5
<1>. QED BY <1>1, <1>2 DEF CredentialsAgree

\* The two files agree through every commit and its failure (config.go
\* stageAndCommitConfig): an update that fails leaves the credentials as they were,
\* a restart keeps what it finds, and models on disk have their key, but for a crash
\* in a key's deletion, an edit without a key and a file overwritten blindly.
THEOREM CredentialsCorrect == Spec => []CredentialsAgree
BY InvCorrect, AgreeFromInv, PTL

\* The agent has what is on disk whenever it believes so (config.go
\* publishConfigLocked, ReloadConfigFromDiskIfNeeded).
THEOREM CopyCorrect == Spec => []CopyIsTrue
<1>1. IInv => CopyIsTrue
  BY DEF IInv, True, CopyIsTrue
<1>. QED BY <1>1, InvCorrect, PTL

-----------------------------------------------------------------------------
(* Nothing is lost: what a writer knows of the file.                       *)

\* An operation that does not look at the file first, and one whose write is excused.
Skips(o) == o.kind \in {"import", "check"}
Pardoned(o) == o.unseen \/ history.late \/ history.forgot \/ history.early

\* Somebody's write is on disk, and the copy is about to follow.
Publishing == \E q \in Procs : op[q].pc = "publish" /\ op[q].stamp = stamp

\* A skill_start reloads, records and asks, and does nothing else.
SkipTodos == {<<"done">>, <<"ask", "done">>, <<"off", "ask", "done">>, <<"enable", "done">>}
Course(o) ==
  /\ o.pc \in {"act", "snapshot"} => ~Skips(o)
  /\ Skips(o) =>
       /\ o.pc \in {"reload", "adopt", "commit", "publish", "apply", "off", "ask", "enable"}
       /\ o.todo \in SkipTodos
       /\ o.pc \in {"commit", "publish"} => o.intent.what \in {"record", "adopt"}

\* Who looks at the file first works on what is on disk, until somebody writes to it
\* unseen; what is about to be written changes what is on disk as it is meant to.
Knows(o) ==
  /\ Course(o)
  /\ o.pc \notin {"none", "done", "write"} /\ ~Skips(o) /\ ~Pardoned(o) => cfg = disk \/ Publishing
  /\ o.pc = "truncate" /\ ~Pardoned(o) => o.new = Effect(o.intent, disk)
  /\ o.pc = "write" /\ o.stamp # stamp => o.unseen
  /\ o.pc = "adopt" /\ ~Pardoned(o) => o.new.skills = Effect(o.intent, disk).skills
  /\ o.pc = "commit" /\ ~Pardoned(o) /\ ~(known # stamp /\ Skips(o)) => o.new = Effect(o.intent, disk)
Informed == \A p \in Procs : Knows(op[p])

\* What happens in the meantime is not forgotten.
Remembers ==
  (history.late => history'.late) /\ (history.forgot => history'.forgot) /\ (history.early => history'.early)

\* The next step of a skill_start is one of its own.
LEMMA SkipNext ==
  \A t \in SkipTodos : t # <<"done">> => Head(t) \in {"off", "ask", "enable"} /\ Tail(t) \in SkipTodos
<1>. SUFFICES ASSUME NEW t \in SkipTodos, t # <<"done">>
             PROVE  Head(t) \in {"off", "ask", "enable"} /\ Tail(t) \in SkipTodos
  OBVIOUS
<1>1. CASE t = <<"ask", "done">>
  <2>. Head(t) = "ask" /\ Tail(t) = <<"done">>
    BY <1>1
  <2>. QED BY DEF SkipTodos
<1>2. CASE t = <<"off", "ask", "done">>
  <2>. Head(t) = "off" /\ Tail(t) = <<"ask", "done">>
    BY <1>2
  <2>. QED BY DEF SkipTodos
<1>3. CASE t = <<"enable", "done">>
  <2>. Head(t) = "enable" /\ Tail(t) = <<"done">>
    BY <1>3
  <2>. QED BY DEF SkipTodos
<1>. QED BY <1>1, <1>2, <1>3 DEF SkipTodos

\* While nobody has the lock, who looks at the file first has what is on disk; so has
\* everybody when the time of modification is known.
LEMMA FreeCopy ==
  ASSUME IInv, Informed, configMu = None, NEW p \in Procs, op[p].pc \notin {"none", "done", "write"}
  PROVE  Pardoned(op[p]) \/ (known # stamp /\ Skips(op[p])) \/ cfg = disk
<1>1. ~Publishing
  BY SettingsAssumption DEF IInv, Holder, Publishing, Procs
<1>2. CASE Skips(op[p])
  BY <1>2 DEF IInv, True, Pardoned
<1>3. CASE ~Skips(op[p])
  BY <1>1, <1>3 DEF Informed, Knows
<1>. QED BY <1>2, <1>3

\* A step of one operation that leaves the file and the copy alone.
LEMMA LearnStep ==
  ASSUME IInv, Informed, NEW p \in Procs, NEW r, op' = [op EXCEPT ![p] = r], Knows(r),
         op[p].pc # "publish", UNCHANGED <<disk, stamp, cfg, known>>, Remembers
  PROVE  Informed'
<1>0. op \in [Procs -> Operation]
  BY DEF IInv, Types
<1>1. \A q \in Procs : op'[q] = IF q = p THEN r ELSE op[q]
  BY <1>0
<1>2. Publishing => Publishing'
  BY <1>1 DEF Publishing
<1>3. \A o : Pardoned(o) => Pardoned(o)'
  BY DEF Pardoned, Remembers
<1>4. \A o : Knows(o) => Knows(o)'
  BY <1>2, <1>3 DEF Knows
<1>. QED BY <1>1, <1>4 DEF Informed

\* The next step of an operation, in full.
LEMMA NextParts ==
  ASSUME IInv, NEW p \in Procs, Continue(p) \/ Set(p, Finished)
  PROVE  \E r \in Operation :
           /\ op' = [op EXCEPT ![p] = r]
           /\ \/ r = Finished
              \/ /\ op[p].todo # <<"done">> /\ r.pc = Head(op[p].todo) /\ r.todo = Tail(op[p].todo)
                 /\ r.kind = op[p].kind /\ r.skill = op[p].skill /\ r.unseen = op[p].unseen
                 /\ r.new = op[p].new /\ r.intent = op[p].intent /\ r.stamp = op[p].stamp
<1>0. op[p] \in Operation /\ op[p].todo \in Todos
  BY OpTypes DEF IInv
<1>1. CASE Set(p, Finished)
  <2>. op' = [op EXCEPT ![p] = Finished]
    BY <1>1 DEF Set
  <2>. QED BY ConstantTypes
<1>2. CASE op[p].todo # <<"done">> /\ Continue(p)
  <2>. DEFINE h == Head(op[p].todo)
              t == Tail(op[p].todo)
              r == [op[p] EXCEPT !.pc = h, !.todo = t]
  <2>1. op' = [op EXCEPT ![p] = r]
    BY <1>2 DEF Continue, Set
  <2>2. h \in Stages /\ t \in Todos
    BY <1>0, <1>2, TodoNext DEF Nexts, Stages
  <2>. HIDE DEF h, t
  <2>3. r = [[op[p] EXCEPT !.pc = h] EXCEPT !.todo = t]
    BY <1>0 DEF Operation
  <2>4. [op[p] EXCEPT !.pc = h] \in Operation
    BY <1>0, <2>2, FieldFacts
  <2>5. [[op[p] EXCEPT !.pc = h] EXCEPT !.todo = t] \in Operation
    BY <2>2, <2>4, FieldFacts
  <2>6. /\ r.pc = h /\ r.todo = t /\ r.kind = op[p].kind /\ r.skill = op[p].skill /\ r.unseen = op[p].unseen
        /\ r.new = op[p].new /\ r.intent = op[p].intent /\ r.stamp = op[p].stamp
    BY <1>0 DEF Operation
  <2>7. r \in Operation
    BY <2>3, <2>5
  <2>. HIDE DEF r
  <2>8. r.pc = Head(op[p].todo) /\ r.todo = Tail(op[p].todo)
    BY <2>6 DEF h, t
  <2>. QED BY <1>2, <2>1, <2>6, <2>7, <2>8
<1>3. CASE op[p].todo = <<"done">> /\ Continue(p)
  <2>. Set(p, Finished)
    BY <1>3 DEF Continue
  <2>. QED BY <1>1
<1>. QED BY <1>1, <1>2, <1>3

\* A finished operation knows what it has to.
LEMMA FinishedKnows == /\ Finished.pc = "done" /\ Finished.kind = "none" /\ Finished.todo = <<"done">> /\ Finished.skill = None
                       /\ Knows(Finished)
<1>1. Finished.pc = "done" /\ Finished.kind = "none" /\ Finished.todo = <<"done">> /\ Finished.skill = None
  BY DEF Finished, Idle
<1>. QED BY <1>1 DEF Knows, Course, Skips

\* An operation that goes on, or ends, knows what it did.
LEMMA NextLearn ==
  ASSUME IInv, Informed, NEW p \in Procs, Continue(p) \/ Set(p, Finished),
         op[p].pc \notin {"none", "done", "write", "publish"},
         UNCHANGED <<disk, stamp, cfg, known>>, Remembers
  PROVE  Informed'
<1>1. PICK r \in Operation :
        /\ op' = [op EXCEPT ![p] = r]
        /\ \/ r = Finished
           \/ /\ op[p].todo # <<"done">> /\ r.pc = Head(op[p].todo) /\ r.todo = Tail(op[p].todo)
              /\ r.kind = op[p].kind /\ r.skill = op[p].skill /\ r.unseen = op[p].unseen
              /\ r.new = op[p].new /\ r.intent = op[p].intent /\ r.stamp = op[p].stamp
  BY NextParts
<1>2. CASE r = Finished
  BY <1>1, <1>2, FinishedKnows, LearnStep
<1>3. CASE r # Finished
  <2>1. op[p].todo \in Todos /\ Knows(op[p])
    BY OpTypes DEF IInv, Informed
  <2>2. r.pc \in Nexts
    BY <1>1, <1>3, <2>1, TodoNext
  <2>3. Course(r)
    <3>1. CASE Skips(op[p])
      <4>1. op[p].todo \in SkipTodos
        BY <2>1, <3>1 DEF Knows, Course
      <4>2. r.pc \in {"off", "ask", "enable"} /\ r.todo \in SkipTodos
        BY <1>1, <1>3, <4>1, SkipNext
      <4>. QED BY <4>2 DEF Course
    <3>2. CASE ~Skips(op[p])
      BY <1>1, <1>3, <3>2 DEF Course, Skips
    <3>. QED BY <3>1, <3>2
  <2>4. Knows(r)
    BY <1>1, <1>3, <2>1, <2>2, <2>3 DEF Knows, Pardoned, Skips, Nexts
  <2>. QED BY <1>1, <2>4, LearnStep
<1>. QED BY <1>2, <1>3

\* Who takes the lock means to change what is on disk, unless it is excused.
LEMMA TakeLearn ==
  ASSUME IInv, Informed, NEW p \in Procs, NEW i \in Intents, NEW new, NEW k, Take(p, i, new, k),
         op[p].pc \notin {"none", "done", "write", "publish"},
         Skips(op[p]) => i.what \in {"record", "adopt"},
         cfg = disk => new = Effect(i, disk) \/ Pardoned(op[p]),
         UNCHANGED <<disk, stamp, cfg, known>>, Remembers
  PROVE  Informed'
<1>. DEFINE r == [op[p] EXCEPT !.pc = "commit", !.intent = i, !.new = new, !.key = k, !.backup = key]
<1>1. op[p] \in Operation /\ Knows(op[p])
  BY OpTypes DEF IInv, Informed
<1>2. /\ r.pc = "commit" /\ r.intent = i /\ r.new = new /\ r.kind = op[p].kind
      /\ r.unseen = op[p].unseen /\ r.todo = op[p].todo
  BY <1>1 DEF Operation
<1>3. op' = [op EXCEPT ![p] = r] /\ configMu = None
  BY DEF Take, Set
<1>. HIDE DEF r
<1>4. Pardoned(op[p]) \/ (known # stamp /\ Skips(op[p])) \/ cfg = disk
  BY <1>3, FreeCopy
<1>5. Knows(r)
  BY <1>1, <1>2, <1>4 DEF Knows, Course, Pardoned, Skips
<1>. QED BY <1>3, <1>5, LearnStep

\* A copy is taken.
LEMMA RefreshLearn ==
  ASSUME IInv, Informed, NEW p \in Procs, Refresh(p)
  PROVE  Informed'
<1>. DEFINE t == Tail(op[p].todo)
            r == [op[p] EXCEPT !.pc = "reload", !.todo = t, !.mcp = cfg.mcp]
<1>1. op[p] \in Operation /\ Knows(op[p]) /\ op[p].pc = "refresh"
  BY OpTypes DEF IInv, Informed, Refresh, At
<1>2. op' = [op EXCEPT ![p] = r] /\ UNCHANGED <<disk, stamp, cfg, known>> /\ Remembers
  BY DEF Refresh, Set, file, copy, ghosts, Remembers
<1>. HIDE DEF t
<1>3. r.pc = "reload" /\ r.kind = op[p].kind /\ r.unseen = op[p].unseen
  BY <1>1 DEF Operation
<1>. HIDE DEF r
<1>4. Knows(r)
  BY <1>1, <1>3 DEF Knows, Course, Pardoned, Skips
<1>. QED BY <1>1, <1>2, <1>4, LearnStep

\* The skill runtime reads the copy; an import that reads an old one is excused.
LEMMA ReloadLearn ==
  ASSUME IInv, Informed, NEW p \in Procs, Reload(p)
  PROVE  Informed'
<1>. DEFINE found == {s \in dirs : cfg.skills[s] = "none"}
            i == [what |-> "adopt", found |-> found]
            c == Effect(i, cfg)
            u == op[p].unseen \/ OldCopy(p)
            r == [op[p] EXCEPT !.pc = "adopt", !.intent = i, !.new = c, !.unseen = u]
<1>1. op[p] \in Operation /\ Knows(op[p]) /\ op[p].pc = "reload" /\ configMu = None
  BY OpTypes DEF IInv, Informed, Reload, At
<1>2. UNCHANGED <<disk, stamp, cfg, known>> /\ Remembers
  BY DEF Reload, file, copy, ghosts, Remembers
<1>3. CASE Continue(p)
  BY <1>1, <1>2, <1>3, NextLearn
<1>4. CASE Set(p, r)
  <2>1. op' = [op EXCEPT ![p] = r]
    BY <1>4 DEF Set
  <2>2. Pardoned(op[p]) \/ (known # stamp /\ Skips(op[p])) \/ c = Effect(i, disk)
    BY <1>1, FreeCopy
  <2>3. u \in BOOLEAN /\ (op[p].unseen => u) /\ (known # stamp /\ Skips(op[p]) => u)
    BY DEF OldCopy, Skips
  <2>. HIDE DEF c, i, u
  <2>4. r.pc = "adopt" /\ r.kind = op[p].kind /\ r.unseen = u /\ r.new = c /\ r.intent = i /\ r.todo = op[p].todo
    BY <1>1 DEF Operation
  <2>. HIDE DEF r
  <2>5. Knows(r)
    BY <1>1, <2>2, <2>3, <2>4 DEF Knows, Course, Pardoned, Skips
  <2>. QED BY <1>1, <1>2, <2>1, <2>5, LearnStep
<1>. QED BY <1>3, <1>4 DEF Reload

\* The runtimes take what was saved and read.
LEMMA ApplyLearn ==
  ASSUME IInv, Informed, NEW p \in Procs, Apply(p) \/ Servers(p)
  PROVE  Informed'
<1>1. op[p].pc \in {"apply", "servers"} /\ Continue(p) /\ UNCHANGED <<disk, stamp, cfg, known>>
  BY DEF Apply, Servers, At, file, copy
<1>2. Remembers
  <2>1. CASE Servers(p)
    BY <2>1 DEF Servers, ghosts, Remembers
  <2>2. CASE Apply(p)
    <3>. DEFINE b == history.stale \/ (skillMu # p /\ op[p].new.skills # cfg.skills)
    <3>1. history' = [history EXCEPT !["stale"] = b]
      BY <2>2 DEF Apply
    <3>. HIDE DEF b
    <3>. QED BY <3>1 DEF Remembers, IInv, Types, Happenings
  <2>. QED BY <2>1, <2>2
<1>. QED BY <1>1, <1>2, NextLearn

\* Skills without a record are enabled: the other records are those on disk.
LEMMA AdoptLearn ==
  ASSUME IInv, Informed, NEW p \in Procs, Adopt(p)
  PROVE  Informed'
<1>. DEFINE i == op[p].intent
            new == [cfg EXCEPT !.skills = op[p].new.skills]
<1>1. /\ op[p] \in Operation /\ Knows(op[p]) /\ op[p].pc = "adopt" /\ disk \in Contents
      /\ i \in Intents /\ i.what = "adopt"
  BY OpTypes DEF IInv, Types, Informed, Adopt, At, Planned
<1>2. UNCHANGED <<disk, stamp, cfg, known>> /\ Remembers /\ Take(p, i, new, key)
  BY DEF Adopt, file, copy, ghosts, Remembers
<1>3. cfg = disk => new = Effect(i, disk) \/ Pardoned(op[p])
  <2>. SUFFICES ASSUME cfg = disk, ~Pardoned(op[p]) PROVE new = Effect(i, disk)
    OBVIOUS
  <2>. DEFINE sk == [s \in Skills |-> IF s \in i.found THEN "on" ELSE disk.skills[s]]
  <2>1. Effect(i, disk) = [disk EXCEPT !.skills = sk]
    BY <1>1 DEF Effect
  <2>. HIDE DEF sk
  <2>2. op[p].new.skills = Effect(i, disk).skills
    BY <1>1 DEF Knows
  <2>3. op[p].new.skills = sk
    BY <1>1, <2>1, <2>2 DEF Contents
  <2>. QED BY <2>1, <2>3
<1>. HIDE DEF i, new
<1>. QED BY <1>1, <1>2, <1>3, TakeLearn

\* config.set changes the models of the copy.
LEMMA UpdateLearn ==
  ASSUME IInv, Informed, NEW p \in Procs, Update(p)
  PROVE  Informed'
<1>1. PICK m \in Models, what \in {"upsert", "delete"}, k \in BOOLEAN :
        Take(p, [what |-> what, model |-> m], Effect([what |-> what, model |-> m], cfg), k)
  BY DEF Update
<1>. DEFINE i == [what |-> what, model |-> m]
            new == Effect(i, cfg)
<1>2. i \in Intents
  BY DEF Intents
<1>3. op[p].pc = "act" /\ ~Skips(op[p]) /\ UNCHANGED <<disk, stamp, cfg, known>> /\ Remembers
  BY DEF Informed, Knows, Course, Update, At, file, copy, ghosts, Remembers
<1>4. Take(p, i, new, k) /\ (cfg = disk => new = Effect(i, disk))
  BY <1>1
<1>. HIDE DEF i, new
<1>. QED BY <1>2, <1>3, <1>4, TakeLearn

\* A record of a skill changes the records of the copy.
LEMMA RecordLearn ==
  ASSUME IInv, Informed, NEW p \in Procs, NEW s \in Skills, NEW to \in {"on", "off"}, Record(p, s, to),
         op[p].pc \in {"act", "off", "enable"}, UNCHANGED <<disk, stamp, cfg, known>>, Remembers
  PROVE  Informed'
<1>. DEFINE i == [what |-> "record", skill |-> s, to |-> to]
            new == Effect(i, cfg)
<1>1. i \in Intents /\ i.what = "record"
  BY DEF Intents
<1>2. Take(p, i, new, key) /\ (cfg = disk => new = Effect(i, disk))
  BY DEF Record
<1>. HIDE DEF i, new
<1>. QED BY <1>1, <1>2, TakeLearn

\* skill.set, and what a skill_start records.
LEMMA SkillLearn ==
  ASSUME IInv, Informed, NEW p \in Procs, SetSkill(p) \/ Off(p) \/ Enable(p)
  PROVE  Informed'
<1>1. op[p].pc \in {"act", "off", "enable"} /\ UNCHANGED <<disk, stamp, cfg, known>> /\ Remembers
  BY DEF SetSkill, Off, Enable, At, file, copy, ghosts, Remembers
<1>2. op[p].skill \in seen => op[p].skill \in Skills
  BY DEF IInv, Types
<1>3. (\E s \in Skills, to \in {"on", "off"} : Record(p, s, to)) \/ Set(p, Finished)
  BY <1>2 DEF SetSkill, Off, Enable, Stop
<1>. QED BY <1>1, <1>3, RecordLearn, NextLearn

\* The user is asked.
LEMMA AskLearn ==
  ASSUME IInv, Informed, NEW p \in Procs, Ask(p)
  PROVE  Informed'
<1>. DEFINE t == <<"enable", "done">>
            a == [op[p] EXCEPT !.pc = "reload", !.todo = t]
            b == [op[p] EXCEPT !.pc = "enable"]
<1>1. op[p] \in Operation /\ Knows(op[p]) /\ op[p].pc = "ask"
  BY OpTypes DEF IInv, Informed, Ask, At
<1>2. UNCHANGED <<disk, stamp, cfg, known>> /\ Remembers
  BY DEF Ask, file, copy, ghosts, Remembers
<1>3. CASE op' = [op EXCEPT ![p] = a]
  <2>1. t \in SkipTodos
    BY DEF SkipTodos
  <2>. HIDE DEF t
  <2>2. a.pc = "reload" /\ a.kind = op[p].kind /\ a.unseen = op[p].unseen /\ a.todo = t
    BY <1>1 DEF Operation
  <2>. HIDE DEF a
  <2>3. Knows(a)
    BY <1>1, <2>1, <2>2 DEF Knows, Course, Pardoned, Skips
  <2>. QED BY <1>1, <1>2, <1>3, <2>3, LearnStep
<1>4. CASE op' = [op EXCEPT ![p] = b]
  <2>1. b.pc = "enable" /\ b.kind = op[p].kind /\ b.unseen = op[p].unseen /\ b.todo = op[p].todo
    BY <1>1 DEF Operation
  <2>. HIDE DEF b
  <2>2. Knows(b)
    BY <1>1, <2>1 DEF Knows, Course, Pardoned, Skips
  <2>. QED BY <1>1, <1>2, <1>4, <2>2, LearnStep
<1>5. CASE Set(p, Finished)
  BY <1>1, <1>2, <1>5, NextLearn
<1>. QED BY <1>3, <1>4, <1>5 DEF Ask, Go, Set

\* A skill_start begins.
LEMMA StartLearn ==
  ASSUME IInv, Informed, NEW p \in Procs, Import(p) \/ Check(p)
  PROVE  Informed'
<1>. DEFINE t == <<"off", "ask", "done">>
<1>1. op[p] \in Operation /\ op[p].pc = "none" /\ UNCHANGED <<disk, stamp, cfg, known>>
  BY OpTypes DEF IInv, Import, Check, Starts, At, file, copy
<1>2. Remembers
  <2>1. CASE Check(p)
    BY <2>1 DEF Check, ghosts, Remembers
  <2>2. CASE Import(p)
    <3>1. PICK v : history' = [history EXCEPT !["stayed"] = v]
      BY <2>2 DEF Import
    <3>. QED BY <3>1 DEF Remembers, IInv, Types, Happenings
  <2>. QED BY <2>1, <2>2
<1>3. CASE Set(p, Finished)
  <2>. op' = [op EXCEPT ![p] = Finished]
    BY <1>3 DEF Set
  <2>. QED BY <1>1, <1>2, FinishedKnows, LearnStep
<1>4. ASSUME NEW s \in Skills, NEW k \in {"import", "check"},
             Set(p, [op[p] EXCEPT !.kind = k, !.skill = s, !.pc = "reload", !.todo = t])
      PROVE  Informed'
  <2>. DEFINE r == [op[p] EXCEPT !.kind = k, !.skill = s, !.pc = "reload", !.todo = t]
  <2>1. t \in SkipTodos
    BY DEF SkipTodos
  <2>. HIDE DEF t
  <2>2. r.pc = "reload" /\ r.kind = k /\ r.todo = t
    BY <1>1 DEF Operation
  <2>3. op' = [op EXCEPT ![p] = r]
    BY <1>4 DEF Set
  <2>. HIDE DEF r
  <2>4. Knows(r)
    BY <2>1, <2>2 DEF Knows, Course, Skips
  <2>. QED BY <1>1, <1>2, <2>3, <2>4, LearnStep
<1>. QED BY <1>3, <1>4 DEF Import, Check, ImportSteps

\* The credentials are renamed, or the commit ends, or fails.
LEMMA RenameKeyLearn ==
  ASSUME IInv, Informed, NEW p \in Procs, RenameKey(p) \/ CommitFails(p)
  PROVE  Informed'
<1>1. op[p].pc = "commit" /\ UNCHANGED <<disk, stamp, cfg, known>>
  BY DEF RenameKey, CommitFails, Ready, Unpublished, At, file, copy
<1>2. Remembers
  <2>1. CASE RenameKey(p)
    BY <2>1 DEF RenameKey, ghosts, Remembers
  <2>2. CASE CommitFails(p)
    <3>1. PICK v : history' = [history EXCEPT !["stayed"] = v]
      BY <2>2 DEF CommitFails
    <3>. QED BY <3>1 DEF Remembers, IInv, Types, Happenings
  <2>. QED BY <2>1, <2>2
<1>3. CASE op' = op
  <2>1. op' = [op EXCEPT ![p] = op[p]]
    BY <1>3 DEF IInv, Types
  <2>. QED BY <1>1, <1>2, <2>1, LearnStep DEF Informed
<1>4. Continue(p) \/ Set(p, Finished) \/ op' = op
  BY DEF RenameKey, CommitFails, Stop
<1>. QED BY <1>1, <1>2, <1>3, <1>4, NextLearn

\* A step that changes no operation but one, after which what is read is not worse than
\* before: nobody commits, and the copy is the file or everybody is excused.
LEMMA CopyLearn ==
  ASSUME IInv, Informed, NEW p \in Procs, NEW r, op' = [op EXCEPT ![p] = r], Knows(op[p])',
         \A q \in Procs : q # p => op[q].pc # "commit",
         UNCHANGED <<disk, stamp>>, Remembers, cfg' = disk \/ history'.late \/ history'.early
  PROVE  Informed'
<1>0. op \in [Procs -> Operation]
  BY DEF IInv, Types
<1>1. \A q \in Procs : op'[q] = IF q = p THEN r ELSE op[q]
  BY <1>0
<1>2. ASSUME NEW q \in Procs, q # p
      PROVE  Knows(op[q])'
  <2>1. op'[q] = op[q] /\ op[q].pc # "commit" /\ Knows(op[q])
    BY <1>1, <1>2 DEF Informed
  <2>2. Pardoned(op[q]) => Pardoned(op[q])'
    BY <2>1 DEF Pardoned, Remembers
  <2>3. Course(op'[q])
    BY <2>1 DEF Knows
  <2>4. cfg' = disk' \/ Pardoned(op[q])'
    BY DEF Pardoned
  <2>. HIDE DEF Course
  <2>. QED BY <2>1, <2>2, <2>3, <2>4 DEF Knows
<1>3. op'[p] = r
  BY <1>1
<1>. QED BY <1>2, <1>3 DEF Informed

\* A request looks at the file: it takes what is there, or has it, or is excused.
LEMMA GateLearn ==
  ASSUME IInv, Informed, NEW p \in Procs, Gate(p)
  PROVE  Informed'
<1>. DEFINE t == <<"reload", "servers", "act", "done">>
            b == Newer /\ cfg # disk
            r == [op[p] EXCEPT !.pc = "refresh", !.todo = t]
            w == [op[p] EXCEPT !.pc = "act", !.unseen = b]
<1>1. op[p] \in Operation /\ op[p].pc = "none" /\ configMu = None /\ Knows(op[p]) /\ op \in [Procs -> Operation]
  BY OpTypes DEF IInv, Types, Informed, Gate, Starts, At
<1>2. UNCHANGED <<disk, stamp>> /\ Remembers
  BY DEF Gate, file, ghosts, Remembers
<1>3. ~Skips(op[p])
  BY <1>1 DEF Knows, Course
<1>4. CASE Set(p, r) /\ cfg' = disk
  <2>. HIDE DEF t
  <2>1. op' = [op EXCEPT ![p] = r] /\ op'[p].pc = "refresh" /\ op'[p].kind = op[p].kind
    BY <1>1, <1>4 DEF Set, Operation
  <2>. HIDE DEF r
  <2>2. Knows(op[p])'
    BY <1>2, <1>3, <1>4, <2>1 DEF Knows, Course, Skips
  <2>3. \A q \in Procs : op[q].pc # "commit"
    BY <1>1, SettingsAssumption DEF IInv, Holder, Procs
  <2>. QED BY <1>2, <1>4, <2>1, <2>2, <2>3, CopyLearn
<1>5. CASE Set(p, w) /\ UNCHANGED copy
  <2>1. b \in BOOLEAN /\ (~b => cfg = disk \/ known = stamp)
    <3>1. stamp \in Nat /\ known \in Nat /\ known <= stamp
      BY DEF IInv, Types, Stamped
    <3>. QED BY <3>1 DEF Newer
  <2>. HIDE DEF b
  <2>2. op' = [op EXCEPT ![p] = w] /\ w.pc = "act" /\ w.kind = op[p].kind /\ w.unseen = b
    BY <1>1, <1>5 DEF Set, Operation
  <2>. HIDE DEF w
  <2>3. Pardoned(w) \/ cfg = disk
    BY <2>1, <2>2 DEF IInv, True, Pardoned
  <2>4. Knows(w)
    BY <1>3, <2>2, <2>3 DEF Knows, Course, Skips
  <2>5. UNCHANGED <<cfg, known>>
    BY <1>5 DEF copy
  <2>. QED BY <1>1, <1>2, <2>2, <2>4, <2>5, LearnStep
<1>. QED BY <1>4, <1>5 DEF Gate

\* mcp.toggle tells the runtime, which may change the copy before the file.
LEMMA ToggleLearn ==
  ASSUME IInv, Informed, NEW p \in Procs, Toggle(p)
  PROVE  Informed'
<1>. DEFINE r == [op[p] EXCEPT !.pc = "snapshot", !.kind = "toggle"]
<1>1. op[p] \in Operation /\ op[p].pc = "act" /\ Knows(op[p]) /\ UNCHANGED <<disk, stamp, known>>
  BY OpTypes DEF IInv, Informed, Toggle, At, file
<1>2. CASE Set(p, Finished) /\ UNCHANGED <<mcp, cfg, history>>
  BY <1>1, <1>2, NextLearn DEF Remembers
<1>3. CASE /\ Set(p, r) /\ cfg' = (IF shared THEN [cfg EXCEPT !.mcp = mcp'] ELSE cfg)
           /\ history' = [history EXCEPT !.early = @ \/ shared]
  <2>1. shared \in BOOLEAN /\ Remembers /\ (shared => history'.early)
    BY <1>3 DEF IInv, Types, Happenings, Remembers
  <2>2. op' = [op EXCEPT ![p] = r] /\ r.pc = "snapshot" /\ r.kind = "toggle" /\ r.unseen = op[p].unseen
    BY <1>1, <1>3 DEF Set, Operation
  <2>5. op'[p] = r
    BY <2>2 DEF IInv, Types
  <2>. HIDE DEF r
  <2>3. CASE shared
    <3>1. history'.early /\ Remembers
      BY <2>1, <2>3
    <3>2. Knows(op[p])'
      BY <2>2, <2>5, <3>1 DEF Knows, Course, Skips, Pardoned
    <3>3. ASSUME NEW q \in Procs, q # p
          PROVE  Knows(op[q])'
      <4>1. op'[q] = op[q] /\ Knows(op[q])
        BY <2>2, <3>3 DEF IInv, Types, Informed
      <4>. QED BY <1>1, <3>1, <4>1 DEF Knows, Pardoned
    <3>. QED BY <3>2, <3>3 DEF Informed
  <2>4. CASE ~shared
    <3>1. cfg' = cfg
      BY <1>3, <2>4
    <3>2. ~Skips(op[p]) /\ ~Skips(r)
      BY <1>1, <2>2 DEF Knows, Course, Skips
    <3>3. Knows(r)
      BY <1>1, <2>2, <3>2 DEF Knows, Course, Pardoned
    <3>. QED BY <1>1, <2>1, <2>2, <3>1, <3>3, LearnStep
  <2>. QED BY <2>1, <2>3, <2>4
<1>. QED BY <1>2, <1>3 DEF Toggle

\* The whole configuration is about to be written, with the server's switch changed.
LEMMA SnapshotLearn ==
  ASSUME IInv, Informed, NEW p \in Procs, Snapshot(p)
  PROVE  Informed'
<1>. DEFINE i == [what |-> "toggle", to |-> mcp]
            new == [cfg EXCEPT !.mcp = mcp]
            r == [op[p] EXCEPT !.pc = "truncate", !.new = new, !.intent = i]
<1>1. op[p] \in Operation /\ op[p].pc = "snapshot" /\ configMu = None /\ Knows(op[p])
  BY OpTypes DEF IInv, Informed, Snapshot, At
<1>2. UNCHANGED <<disk, stamp, cfg, known>> /\ Remembers
  BY DEF Snapshot, file, copy, ghosts, Remembers
<1>3. CASE Set(p, Finished)
  BY <1>1, <1>2, <1>3, NextLearn
<1>4. CASE Set(p, r)
  <2>1. ~Skips(op[p])
    BY <1>1 DEF Knows, Course
  <2>2. Pardoned(op[p]) \/ cfg = disk
    BY <1>1, <2>1, FreeCopy
  <2>3. cfg = disk => new = Effect(i, disk)
    BY DEF Effect
  <2>. HIDE DEF i, new
  <2>4. op' = [op EXCEPT ![p] = r] /\ r.pc = "truncate" /\ r.kind = op[p].kind /\ r.unseen = op[p].unseen
        /\ r.new = new /\ r.intent = i
    BY <1>1, <1>4 DEF Set, Operation
  <2>. HIDE DEF r
  <2>5. Knows(r)
    BY <2>1, <2>2, <2>3, <2>4 DEF Knows, Course, Skips, Pardoned
  <2>. QED BY <1>1, <1>2, <2>4, <2>5, LearnStep
<1>. QED BY <1>3, <1>4 DEF Snapshot

\* A write that somebody is about to make is no loss, if what it knows is true or it is
\* excused.
LEMMA JudgeLost ==
  ASSUME Types, NothingLost, NEW p \in Procs, Judge(p), Pardoned(op[p]) \/ OldCopy(p) \/ op[p].new = Effect(op[p].intent, disk)
  PROVE  NothingLost'
BY DEF NothingLost, Judge, Blind, Excused, Pardoned

\* mcp.toggle begins to write: everybody else has not seen it.
LEMMA TruncateLearn ==
  ASSUME IInv, Informed, NothingLost, NEW p \in Procs, Truncate(p)
  PROVE  Informed' /\ NothingLost'
<1>0. Types /\ Knows(op[p]) /\ op[p].pc = "truncate" /\ stamp \in Nat
  BY DEF IInv, Types, Informed, Truncate, At
<1>1. /\ Judge(p) /\ stamp' = stamp + 1
      /\ op' = [Noticed(p, FALSE) EXCEPT ![p].pc = "write", ![p].stamp = stamp + 1]
  BY DEF Truncate
<1>. "write" \in Stages
  BY DEF Stages
<1>2. /\ \A q \in Procs :
           /\ op'[q].pc = (IF q = p THEN "write" ELSE op[q].pc)
           /\ op'[q].stamp = (IF q = p THEN stamp + 1 ELSE op[q].stamp)
           /\ op'[q].todo = op[q].todo /\ op'[q].intent = op[q].intent
  BY <1>0, <1>1, WriterFacts
<1>3. ASSUME NEW q \in Procs
      PROVE  /\ op'[q].kind = op[q].kind
             /\ q # p /\ op[q].pc \notin {"none", "done"} => op'[q].unseen
  BY <1>0, <1>1, WriterMarks
<1>4. ASSUME NEW q \in Procs
      PROVE  Knows(op[q])'
  <2>1. Knows(op[q]) /\ op'[q].kind = op[q].kind
    BY <1>3 DEF Informed
  <2>2. CASE q = p
    <3>1. op'[p].pc = "write" /\ op'[p].stamp = stamp' /\ ~Skips(op[p])
      BY <1>0, <1>1, <1>2 DEF Knows, Course
    <3>. QED BY <2>1, <2>2, <3>1 DEF Knows, Course, Skips
  <2>3. CASE q # p
    <3>1. op'[q].pc = op[q].pc /\ op'[q].todo = op[q].todo /\ op'[q].intent = op[q].intent
      BY <1>2, <2>3
    <3>2. Course(op'[q])
      BY <2>1, <3>1 DEF Knows, Course, Skips
    <3>3. op'[q].pc \in {"none", "done"} \/ (op'[q].unseen /\ Pardoned(op[q])')
      BY <1>3, <2>3, <3>1 DEF Pardoned
    <3>. QED BY <3>2, <3>3 DEF Knows
  <2>. QED BY <2>2, <2>3
<1>5. NothingLost'
  BY <1>0, <1>1, JudgeLost DEF Knows
<1>. QED BY <1>4, <1>5 DEF Informed

\* mcp.toggle's write: whoever has written in between has marked it.
LEMMA WriteLearn ==
  ASSUME IInv, Informed, NothingLost, NEW p \in Procs, Write(p)
  PROVE  Informed' /\ NothingLost'
<1>0. Types /\ Knows(op[p]) /\ op[p].pc = "write" /\ op \in [Procs -> Operation]
  BY DEF IInv, Types, Informed, Write, At
<1>1. PICK locked \in BOOLEAN : ~locked /\ op' = [Noticed(p, locked) EXCEPT ![p] = Finished]
  BY DEF Write
<1>. DEFINE N == Noticed(p, locked)
<1>2. N \in [Procs -> Operation] /\ \A q \in Procs :
        N[q].pc = op[q].pc /\ N[q].todo = op[q].todo /\ N[q].intent = op[q].intent
  BY <1>0, NoticedFacts
<1>3. ASSUME NEW q \in Procs
      PROVE  N[q].kind = op[q].kind /\ (q # p /\ op[q].pc \notin {"none", "done"} => N[q].unseen)
  BY <1>0, <1>1, NoticedMarks
<1>. HIDE DEF N
<1>4. \A q \in Procs : op'[q] = IF q = p THEN Finished ELSE N[q]
  BY <1>1, <1>2 DEF N
<1>5. ASSUME NEW q \in Procs
      PROVE  Knows(op[q])'
  <2>1. CASE q = p
    <3>1. op'[q] = Finished
      BY <1>4, <2>1
    <3>. QED BY <3>1, FinishedKnows DEF Knows, Course, Skips
  <2>2. CASE q # p
    <3>1. op'[q] = N[q] /\ Knows(op[q])
      BY <1>4, <2>2 DEF Informed
    <3>2. Course(op'[q])
      BY <1>2, <1>3, <3>1 DEF Knows, Course, Skips
    <3>3. op'[q].pc \in {"none", "done"} \/ (op'[q].unseen /\ Pardoned(op[q])')
      BY <1>2, <1>3, <2>2, <3>1 DEF Pardoned
    <3>. QED BY <3>2, <3>3 DEF Knows
  <2>. QED BY <2>1, <2>2
<1>6. NothingLost'
  <2>1. CASE stamp = op[p].stamp
    BY <2>1 DEF Write, NothingLost
  <2>2. CASE stamp # op[p].stamp
    <3>1. Judge(p) /\ Pardoned(op[p])
      BY <1>0, <2>2 DEF Write, Knows, Pardoned
    <3>. QED BY <1>0, <3>1, JudgeLost
  <2>. QED BY <2>1, <2>2
<1>. QED BY <1>5, <1>6 DEF Informed

\* The configuration is renamed: the lock keeps others apart, but for those that have
\* read already.
LEMMA RenameConfigLearn ==
  ASSUME IInv, Informed, NothingLost, NEW p \in Procs, RenameConfig(p)
  PROVE  Informed' /\ NothingLost'
<1>0. Types /\ Knows(op[p]) /\ op[p].pc = "commit" /\ stamp \in Nat /\ configMu = p
  BY DEF IInv, Types, Holder, Informed, RenameConfig, Ready, At
<1>1. /\ Judge(p) /\ stamp' = stamp + 1
      /\ op' = [Noticed(p, TRUE) EXCEPT ![p].pc = "publish", ![p].stamp = stamp + 1]
  BY DEF RenameConfig
<1>. "publish" \in Stages
  BY DEF Stages
<1>2. /\ \A q \in Procs :
           /\ op'[q].pc = (IF q = p THEN "publish" ELSE op[q].pc)
           /\ op'[q].stamp = (IF q = p THEN stamp + 1 ELSE op[q].stamp)
           /\ op'[q].todo = op[q].todo /\ op'[q].intent = op[q].intent
  BY <1>0, <1>1, WriterFacts
<1>3. ASSUME NEW q \in Procs
      PROVE  /\ op'[q].kind = op[q].kind
             /\ q # p /\ op[q].pc \in {"truncate", "write", "adopt"} => op'[q].unseen
  BY <1>0, <1>1, WriterMarks
<1>4. Publishing'
  BY <1>1, <1>2 DEF Publishing
<1>5. ASSUME NEW q \in Procs
      PROVE  Knows(op[q])'
  <2>1. Knows(op[q]) /\ op'[q].kind = op[q].kind /\ op'[q].todo = op[q].todo /\ op'[q].intent = op[q].intent
    BY <1>2, <1>3 DEF Informed
  <2>2. CASE q = p
    <3>1. op'[p].pc = "publish" /\ op'[p].stamp = stamp'
      BY <1>1, <1>2
    <3>2. Course(op'[p])
      BY <1>0, <2>1, <2>2, <3>1 DEF Knows, Course, Skips
    <3>. QED BY <1>4, <2>2, <3>1, <3>2 DEF Knows
  <2>3. CASE q # p
    <3>1. op'[q].pc = op[q].pc /\ op[q].pc # "commit"
      BY <1>0, <1>2, <2>3 DEF IInv, Holder
    <3>2. Course(op'[q])
      BY <2>1, <3>1 DEF Knows, Course, Skips
    <3>3. op'[q].pc \in {"truncate", "write", "adopt"} => op'[q].unseen /\ Pardoned(op[q])'
      BY <1>3, <2>3, <3>1 DEF Pardoned
    <3>. QED BY <1>4, <3>1, <3>2, <3>3 DEF Knows
  <2>. QED BY <2>2, <2>3
<1>6. NothingLost'
  BY <1>0, <1>1, JudgeLost DEF Knows, OldCopy, Skips
<1>. QED BY <1>5, <1>6 DEF Informed

\* The copy follows what was written, unless somebody has written since.
LEMMA PublishLearn ==
  ASSUME IInv, Informed, NEW p \in Procs, Publish(p)
  PROVE  Informed'
<1>. DEFINE a == [op[p] EXCEPT !.pc = "apply"]
            t == <<"reload", "servers", "done">>
            b == [op[p] EXCEPT !.pc = "refresh", !.todo = t]
<1>0. op[p] \in Operation /\ Knows(op[p]) /\ op[p].pc = "publish" /\ configMu = p
  BY OpTypes DEF IInv, Holder, Informed, Publish, At
<1>1. UNCHANGED <<disk, stamp>> /\ cfg' = op[p].new
  BY DEF Publish, file
<1>2. Remembers /\ (stamp # op[p].stamp => history'.late)
  <2>. DEFINE v == history.late \/ stamp # op[p].stamp
  <2>1. history' = [history EXCEPT !["late"] = v]
    BY DEF Publish
  <2>2. (history.late => v) /\ (stamp # op[p].stamp => v)
    OBVIOUS
  <2>. HIDE DEF v
  <2>. QED BY <2>1, <2>2 DEF Remembers, IInv, Types, Happenings
<1>3. cfg' = disk \/ history'.late
  BY <1>0, <1>1, <1>2 DEF IInv, Stamped
<1>4. \A q \in Procs : q # p => op[q].pc # "commit"
  BY <1>0 DEF IInv, Holder
<1>5. CASE op[p].intent.what \in {"adopt", "record"} /\ Set(p, a)
  <2>1. op' = [op EXCEPT ![p] = a] /\ op'[p].pc = "apply" /\ op'[p].kind = op[p].kind /\ op'[p].todo = op[p].todo
    BY <1>0, <1>5 DEF Set, Operation, IInv, Types
  <2>. HIDE DEF a
  <2>2. Course(op'[p])
    BY <1>0, <2>1 DEF Knows, Course, Skips
  <2>3. Knows(op[p])'
    BY <1>1, <1>3, <2>1, <2>2 DEF Knows, Pardoned
  <2>. QED BY <1>1, <1>2, <1>3, <1>4, <2>1, <2>3, CopyLearn
<1>6. CASE op[p].intent.what \notin {"adopt", "record"} /\ Set(p, b)
  <2>. HIDE DEF t
  <2>1. op' = [op EXCEPT ![p] = b] /\ op'[p].pc = "refresh" /\ op'[p].kind = op[p].kind
    BY <1>0, <1>6 DEF Set, Operation, IInv, Types
  <2>. HIDE DEF b
  <2>2. Course(op'[p])
    BY <1>0, <1>6, <2>1 DEF Knows, Course, Skips
  <2>3. Knows(op[p])'
    BY <1>1, <1>3, <2>1, <2>2 DEF Knows, Pardoned
  <2>. QED BY <1>1, <1>2, <1>3, <1>4, <2>1, <2>3, CopyLearn
<1>. QED BY <1>5, <1>6 DEF Publish, Go

\* The user edits the file: no operation has seen it.
LEMMA EditLearn ==
  ASSUME IInv, Informed, Edit
  PROVE  Informed'
<1>0. op \in [Procs -> Operation] /\ None \notin Procs
  BY SettingsAssumption DEF IInv, Types, Procs
<1>1. PICK locked \in BOOLEAN : ~locked /\ op' = Noticed(None, locked)
  BY DEF Edit
<1>2. ASSUME NEW q \in Procs
      PROVE  Knows(op[q])'
  <2>1. op'[q].pc = op[q].pc /\ op'[q].todo = op[q].todo /\ op'[q].intent = op[q].intent
    BY <1>0, <1>1, NoticedFacts
  <2>2. op'[q].kind = op[q].kind /\ (op[q].pc \notin {"none", "done"} => op'[q].unseen)
    BY <1>0, <1>1, NoticedMarks
  <2>3. Knows(op[q])
    BY DEF Informed
  <2>4. Course(op'[q])
    BY <2>1, <2>2, <2>3 DEF Knows, Course, Skips
  <2>5. op'[q].pc \in {"none", "done"} \/ (op'[q].unseen /\ Pardoned(op[q])')
    BY <2>1, <2>2 DEF Pardoned
  <2>. QED BY <2>4, <2>5 DEF Knows
<1>. QED BY <1>2 DEF Informed

\* The daemon starts again, with what is on disk if that is a configuration.
LEMMA RestartLearn ==
  ASSUME IInv, Informed, Restart
  PROVE  Informed'
<1>1. op' = [q \in Procs |-> IF q = Boot THEN Booting ELSE IF op[q].pc = "none" THEN Idle ELSE Finished]
  BY DEF Restart, At
<1>2. history'.forgot \/ cfg' = disk'
  <2>. DEFINE f == history.forgot \/ ~Configured(disk)
              k == history.keyless \/ (given /\ ~key)
              s == history.stayed \/ \E p \in Ops : op[p].kind = "import"
  <2>1. history' = [[[history EXCEPT !["forgot"] = f] EXCEPT !["keyless"] = k] EXCEPT !["stayed"] = s]
    BY DEF Restart
  <2>2. f \/ Configured(disk)
    OBVIOUS
  <2>. HIDE DEF f, k, s
  <2>3. history'.forgot = f
    BY <2>1 DEF IInv, Types, Happenings
  <2>. QED BY <2>2, <2>3 DEF Restart, Loaded, file
<1>3. ASSUME NEW q \in Procs
      PROVE  Knows(op[q])'
  <2>1. CASE q = Boot
    <3>1. op'[q].pc = "reload" /\ op'[q].kind = "boot"
      BY <1>1, <2>1 DEF Booting, Idle
    <3>. QED BY <1>2, <3>1 DEF Knows, Course, Skips, Pardoned
  <2>2. CASE q # Boot
    <3>1. op'[q].pc \in {"none", "done"} /\ op'[q].kind = "none"
      BY <1>1, <2>2 DEF Finished, Idle
    <3>. QED BY <3>1 DEF Knows, Course, Skips
  <2>. QED BY <2>1, <2>2
<1>. QED BY <1>3 DEF Informed

\* A daemon that has started has nothing to do.
LEMMA InitLearn == Init => Informed /\ NothingLost
<1>. SUFFICES ASSUME Init PROVE Informed /\ NothingLost
  OBVIOUS
<1>1. ASSUME NEW q \in Procs
      PROVE  Knows(op[q])
  <2>1. op[q].pc \in {"none", "done"} /\ op[q].kind = "none"
    BY DEF Init, Finished, Idle
  <2>. QED BY <2>1 DEF Knows, Course, Skips
<1>. QED BY <1>1 DEF Informed, Init, NothingLost

\* No step loses anything.
LEMMA NextLearns == IInv /\ Informed /\ NothingLost /\ [Next]_vars => Informed' /\ NothingLost'
<1>. SUFFICES ASSUME IInv, Informed, NothingLost, [Next]_vars
             PROVE  Informed' /\ NothingLost'
  OBVIOUS
<1>1. ASSUME NEW p \in Procs, Committing(p)
      PROVE  Informed' /\ NothingLost'
  <2>1. RenameKey(p) \/ CommitFails(p) \/ Publish(p) => UNCHANGED lost
    BY DEF RenameKey, CommitFails, Publish, ghosts
  <2>. QED BY <1>1, <2>1, RenameKeyLearn, RenameConfigLearn, PublishLearn DEF Committing, NothingLost
<1>2. ASSUME NEW p \in Procs, Reloading(p)
      PROVE  Informed' /\ NothingLost'
  <2>1. UNCHANGED lost
    BY <1>2 DEF Reloading, Refresh, Reload, Adopt, Apply, Servers, ghosts
  <2>. QED BY <1>2, <2>1, RefreshLearn, ReloadLearn, AdoptLearn, ApplyLearn DEF Reloading, NothingLost
<1>3. ASSUME NEW o \in Ops, Request(o)
      PROVE  Informed' /\ NothingLost'
  <2>. o \in Procs
    BY DEF Procs
  <2>1. Gate(o) \/ Update(o) \/ Toggle(o) \/ Snapshot(o) \/ SetSkill(o) => UNCHANGED lost
    BY DEF Gate, Update, Toggle, Snapshot, SetSkill, ghosts
  <2>. QED BY <1>3, <2>1, GateLearn, UpdateLearn, ToggleLearn, SnapshotLearn, TruncateLearn, WriteLearn, SkillLearn
           DEF Request, NothingLost
<1>4. ASSUME NEW o \in Ops, Workflow(o)
      PROVE  Informed' /\ NothingLost'
  <2>. o \in Procs
    BY DEF Procs
  <2>1. UNCHANGED lost
    BY <1>4 DEF Workflow, Import, Check, Off, Ask, Enable, ghosts
  <2>. QED BY <1>4, <2>1, StartLearn, SkillLearn, AskLearn DEF Workflow, NothingLost
<1>5. ASSUME UNCHANGED vars
      PROVE  Informed' /\ NothingLost'
  <2>1. UNCHANGED <<disk, stamp, cfg, known, op, history, lost>>
    BY <1>5 DEF vars, file, copy, ghosts
  <2>. QED BY <2>1 DEF Informed, Knows, Course, Pardoned, Publishing, NothingLost
<1>6. ASSUME Edit
      PROVE  Informed' /\ NothingLost'
  BY <1>6, EditLearn DEF Edit, NothingLost
<1>7. ASSUME Place
      PROVE  Informed' /\ NothingLost'
  <2>1. UNCHANGED <<disk, stamp, cfg, known, op, history, lost>>
    BY <1>7 DEF Place, file, copy
  <2>. QED BY <2>1 DEF Informed, Knows, Course, Pardoned, Publishing, NothingLost
<1>8. ASSUME Restart
      PROVE  Informed' /\ NothingLost'
  BY <1>8, RestartLearn DEF Restart, NothingLost
<1>. QED BY <1>1, <1>2, <1>3, <1>4, <1>5, <1>6, <1>7, <1>8 DEF Next

\* No change that is on disk is overwritten by a writer that could have seen it
\* (service.go ensureConfigLoaded, config.go UpdateConfig, skill_store.go): by
\* a request that came after it, or by whoever takes the lock after it.
THEOREM NothingLostCorrect == Spec => []NothingLost
<1>1. Init => IInv /\ Informed /\ NothingLost
  BY InitSafe, InitLearn
<1>2. (IInv /\ Informed /\ NothingLost) /\ [Next]_vars => (IInv /\ Informed /\ NothingLost)'
  BY NextSafe, NextLearns
<1>. QED BY <1>1, <1>2, PTL DEF Spec

-----------------------------------------------------------------------------
(* The model can load only what the user agreed to.                        *)

\* What a skill_start that installs has to do while the record is not off yet,
\* and when it is turned off.
Importing == <<"off", "ask", "done">>
Imported == <<"ask", "done">>

\* It has enabled the skill, or is about to, and will disable it, which reaches the
\* disk, the copy and the skill runtime one after the other.
Undecided(o) == o.kind = "import" /\ o.todo \in {Importing, Imported}
OffOnDisk(o) == o.todo = Imported /\ o.pc \in {"publish", "apply"}
OffInCopy(o) == o.todo = Imported /\ o.pc = "apply"

\* A skill may be enabled on disk, in the copy and in the skill runtime.
FineOnDisk(s) == s \in trusted \/ \E p \in Procs : Undecided(op[p]) /\ op[p].skill = s /\ ~OffOnDisk(op[p])
FineInCopy(s) == s \in trusted \/ \E p \in Procs : Undecided(op[p]) /\ op[p].skill = s /\ ~OffInCopy(op[p])
FineInMind(s) == s \in trusted \/ \E p \in Procs : Undecided(op[p]) /\ op[p].skill = s

\* Records by which no other skill is, or will be when it is found, enabled.
SafeOnDisk(r) == \A s \in dirs : r[s] = "off" \/ FineOnDisk(s)
SafeInCopy(r) == \A s \in dirs : r[s] = "off" \/ FineInCopy(s)
SafeInMind(r) == \A s \in dirs : r[s] = "off" \/ FineInMind(s)

DiskTrusted == SafeOnDisk(disk.skills) \/ Pending
CopyTrusted == SafeInCopy(cfg.skills)
MindTrusted == seen \subseteq dirs /\ \A s \in seen : records[s] = "on" => FineInMind(s)

\* An import keeps the skill runtime's lock until the record is off; skills are
\* adopted under that lock; a record never changes the key.
PlanOf(p, o) ==
  /\ p = Boot => o.kind # "import"
  /\ Undecided(o) =>
       /\ skillMu = p /\ o.skill \in dirs
       /\ o.todo = Importing => o.pc \in {"reload", "adopt", "commit", "publish", "apply"}
       /\ o.todo = Imported => o.pc \in {"off", "commit", "publish", "apply"}
       /\ o.pc # "reload" => o.skill \in seen
       /\ o.todo = Imported /\ o.pc # "off" =>
            /\ o.intent.what = "record" /\ o.intent.to = "off"
            /\ o.new.skills[o.skill] = "off"
  /\ o.pc = "adopt" => skillMu = p
  /\ o.pc = "commit" /\ o.intent.what \in {"record", "adopt"} => o.key = o.backup
  /\ o.pc = "write" /\ o.stamp = stamp => disk = Empty

\* What an operation is about to write, to publish and to apply.
Asked(o, s) == o.intent.what = "record" /\ o.intent.skill = s /\ o.intent.to = "on"
Promise(p, o) ==
  /\ o.pc = "adopt" => SafeOnDisk(o.new.skills)
  /\ o.pc = "commit" => \A s \in dirs : o.new.skills[s] = "off" \/ FineOnDisk(s) \/ Asked(o, s)
  /\ o.pc = "publish" => SafeInCopy(o.new.skills)
  /\ o.pc = "apply" /\ skillMu = p => SafeInMind(o.new.skills)
  /\ o.pc = "write" /\ o.stamp = stamp => SafeOnDisk(o.new.skills)
OpTrusted(p, o) == PlanOf(p, o) /\ Promise(p, o)

Trusting == DiskTrusted /\ CopyTrusted /\ MindTrusted /\ \A p \in Procs : OpTrusted(p, op[p])
Calm == ~history.blind /\ ~history.forgot /\ ~history.stayed /\ ~history.stale

\* What may be enabled still may.
KeepsDisk == \A s \in dirs' : s \notin dirs \/ FineOnDisk(s) => FineOnDisk(s)'
KeepsCopy == \A s \in dirs' : s \notin dirs \/ FineInCopy(s) => FineInCopy(s)'
KeepsMind == \A s \in dirs' : s \notin dirs \/ FineInMind(s) => FineInMind(s)'

\* An operation that a step leaves alone, but for what it has not seen.
SameOp(q) ==
  /\ op'[q].pc = op[q].pc /\ op'[q].kind = op[q].kind /\ op'[q].todo = op[q].todo
  /\ op'[q].skill = op[q].skill /\ op'[q].intent = op[q].intent /\ op'[q].new = op[q].new
  /\ op'[q].key = op[q].key /\ op'[q].backup = op[q].backup /\ op'[q].stamp = op[q].stamp

\* The steps of an import.
LEMMA ImportTodos ==
  /\ Importing # Imported /\ Importing # <<"done">> /\ Imported # <<"done">>
  /\ Head(Importing) = "off" /\ Tail(Importing) = Imported
  /\ Head(Imported) = "ask" /\ Tail(Imported) = <<"done">>
  /\ <<"enable", "done">> \notin {Importing, Imported}
<1>1. Importing # Imported
  <2>1. Importing[1] = "off" /\ Imported[1] = "ask"
    BY DEF Importing, Imported
  <2>. QED BY <2>1
<1>2. Importing # <<"done">> /\ Imported # <<"done">>
  BY DEF Importing, Imported
<1>3. Head(Importing) = "off" /\ Tail(Importing) = Imported
  BY DEF Importing, Imported
<1>4. Head(Imported) = "ask" /\ Tail(Imported) = <<"done">>
  BY DEF Imported
<1>5. <<"enable", "done">> \notin {Importing, Imported}
  <2>1. Importing[1] = "off" /\ Imported[1] = "ask"
    BY DEF Importing, Imported
  <2>. DEFINE e == <<"enable", "done">>
  <2>2. e[1] = "enable"
    OBVIOUS
  <2>. HIDE DEF e
  <2>3. e \notin {Importing, Imported}
    BY <2>1, <2>2
  <2>. QED BY <2>3 DEF e
<1>. QED BY <1>1, <1>2, <1>3, <1>4, <1>5

\* Off reaches the disk first and the skill runtime last.
LEMMA FineOrder ==
  \A s : (FineOnDisk(s) => FineInCopy(s)) /\ (FineInCopy(s) => FineInMind(s))
BY DEF FineOnDisk, FineInCopy, FineInMind, OffOnDisk, OffInCopy

\* While nobody publishes, the disk and the copy do not differ in that.
LEMMA FineFree ==
  ASSUME IInv, configMu = None, NEW s, FineInCopy(s)
  PROVE  FineOnDisk(s)
<1>1. \A p \in Procs : op[p].pc # "publish"
  BY SettingsAssumption DEF IInv, Holder, Procs
<1>. QED BY <1>1 DEF FineOnDisk, FineInCopy, OffOnDisk, OffInCopy

\* Records that were safe still are.
LEMMA KeepSafe ==
  /\ KeepsDisk => \A r : SafeOnDisk(r) => SafeOnDisk(r)'
  /\ KeepsCopy => \A r : SafeInCopy(r) => SafeInCopy(r)'
  /\ KeepsMind => \A r : SafeInMind(r) => SafeInMind(r)'
BY DEF KeepsDisk, KeepsCopy, KeepsMind, SafeOnDisk, SafeInCopy, SafeInMind

\* An operation that a step leaves alone.
LEMMA OtherTrusts ==
  ASSUME IInv, Trusting, NEW q \in Procs, SameOp(q),
         KeepsDisk \/ (skillMu # q /\ op[q].pc # "commit" /\ stamp' = stamp + 1),
         KeepsCopy \/ op[q].pc # "publish", KeepsMind \/ skillMu # q,
         skillMu' = q <=> skillMu = q, dirs \subseteq dirs', seen \subseteq seen',
         UNCHANGED <<disk, stamp>> \/ stamp' = stamp + 1
  PROVE  OpTrusted(q, op[q])'
<1>0. PlanOf(q, op[q]) /\ Promise(q, op[q]) /\ SameOp(q)
  BY DEF Trusting, OpTrusted
<1>1. stamp' = stamp + 1 => op'[q].stamp # stamp'
  <2>1. stamp \in Nat /\ op[q].stamp <= stamp /\ op[q].stamp \in Nat
    BY OpTypes DEF IInv, Types, Stamped, Operation
  <2>. QED BY <1>0, <2>1 DEF SameOp
<1>2. PlanOf(q, op[q])'
  <2>1. Undecided(op[q])' => Undecided(op[q])
    BY <1>0 DEF SameOp, Undecided
  <2>2. op'[q].pc = "write" /\ op'[q].stamp = stamp' => disk' = Empty
    BY <1>0, <1>1 DEF SameOp, PlanOf
  <2>. QED BY <1>0, <2>1, <2>2 DEF SameOp, PlanOf
<1>3. Promise(q, op[q])'
  <2>1. op'[q].pc = "adopt" => SafeOnDisk(op[q].new.skills)'
    BY <1>0, KeepSafe DEF SameOp, PlanOf, Promise
  <2>2. op'[q].pc = "commit" =>
          \A s \in dirs' : op'[q].new.skills[s] = "off" \/ FineOnDisk(s)' \/ Asked(op[q], s)'
    BY <1>0 DEF SameOp, Promise, KeepsDisk, Asked
  <2>3. op'[q].pc = "publish" => SafeInCopy(op[q].new.skills)'
    BY <1>0, KeepSafe DEF SameOp, Promise
  <2>4. op'[q].pc = "apply" /\ skillMu' = q => SafeInMind(op[q].new.skills)'
    BY <1>0, KeepSafe DEF SameOp, Promise
  <2>5. op'[q].pc = "write" /\ op'[q].stamp = stamp' => SafeOnDisk(op[q].new.skills)'
    BY <1>0, <1>1, KeepSafe DEF SameOp, Promise
  <2>. QED BY <2>1, <2>2, <2>3, <2>4, <2>5 DEF Promise
<1>. QED BY <1>2, <1>3 DEF OpTrusted

\* What happened before is not forgotten.
LEMMA GrowsOne ==
  ASSUME IInv, NEW e \in {"blind", "late", "forgot", "keyless", "stayed", "stale", "early"}, NEW b \in BOOLEAN,
         history' = [history EXCEPT ![e] = history[e] \/ b]
  PROVE  (Calm' => Calm) /\ (b => history'[e])
BY DEF IInv, Types, Happenings, Calm

\* A step after which an import is undecided still, and no further than before.
Stays(o, r) ==
  Undecided(o) =>
    /\ Undecided(r) /\ r.skill = o.skill
    /\ (OffOnDisk(r) => OffOnDisk(o)) /\ (OffInCopy(r) => OffInCopy(o))

\* After such a step what may be enabled still may.
LEMMA StaysKeeps ==
  ASSUME IInv, NEW p \in Procs, NEW r, op' = [op EXCEPT ![p] = r], Stays(op[p], r),
         UNCHANGED dirs, trusted \subseteq trusted'
  PROVE  KeepsDisk /\ KeepsCopy /\ KeepsMind
<1>1. \A q \in Procs : op'[q] = IF q = p THEN r ELSE op[q]
  BY DEF IInv, Types
<1>2. \A s : FineOnDisk(s) => FineOnDisk(s)'
  BY <1>1 DEF FineOnDisk, Stays
<1>3. \A s : FineInCopy(s) => FineInCopy(s)'
  BY <1>1 DEF FineInCopy, Stays
<1>4. \A s : FineInMind(s) => FineInMind(s)'
  BY <1>1 DEF FineInMind, Stays
<1>. QED BY <1>2, <1>3, <1>4 DEF KeepsDisk, KeepsCopy, KeepsMind

\* One operation moves, and the file stays.
LEMMA TrustStep ==
  ASSUME IInv, Trusting, NEW p \in Procs, NEW r, op' = [op EXCEPT ![p] = r], Stays(op[p], r),
         op[p].pc # "write", UNCHANGED <<dirs, trusted, disk, stamp>>,
         \A q \in Procs : q # p => (skillMu' = q <=> skillMu = q),
         seen \subseteq seen', CopyTrusted', MindTrusted', OpTrusted(p, op[p])'
  PROVE  Trusting'
<1>1. \A q \in Procs : op'[q] = IF q = p THEN r ELSE op[q]
  BY DEF IInv, Types
<1>2. KeepsDisk /\ KeepsCopy /\ KeepsMind
  BY StaysKeeps
<1>3. ASSUME NEW q \in Procs, q # p
      PROVE  OpTrusted(q, op[q])'
  <2>1. SameOp(q)
    BY <1>1, <1>3 DEF SameOp
  <2>2. skillMu' = q <=> skillMu = q
    BY <1>3
  <2>. QED BY <1>2, <2>1, <2>2, OtherTrusts
<1>4. Pending => Pending'
  BY <1>1 DEF Pending, At
<1>5. DiskTrusted'
  BY <1>2, <1>4, KeepSafe DEF Trusting, DiskTrusted
<1>. QED BY <1>3, <1>5 DEF Trusting

\* One operation moves, the file, the records and what was found stay.
LEMMA QuietTrusts ==
  ASSUME IInv, Trusting, NEW p \in Procs, NEW r, op' = [op EXCEPT ![p] = r], Stays(op[p], r),
         op[p].pc # "write", UNCHANGED <<dirs, trusted, disk, stamp, records, seen>>, cfg'.skills = cfg.skills,
         \A q \in Procs : q # p => (skillMu' = q <=> skillMu = q), OpTrusted(p, op[p])'
  PROVE  Trusting'
<1>1. KeepsCopy /\ KeepsMind
  BY StaysKeeps
<1>2. CopyTrusted'
  BY <1>1, KeepSafe DEF Trusting, CopyTrusted
<1>3. MindTrusted'
  BY <1>1 DEF Trusting, MindTrusted, KeepsMind
<1>. QED BY <1>2, <1>3, TrustStep

\* An operation with no import to decide and nothing to write, publish or apply.
LEMMA IdleTrusts ==
  ASSUME NEW p, p = Boot => op'[p].kind # "import", ~Undecided(op[p])',
         op'[p].pc \notin {"adopt", "commit", "publish", "apply", "write"}
  PROVE  OpTrusted(p, op[p])'
BY DEF OpTrusted, PlanOf, Promise

\* The next step, or the end, of an operation with no import to decide.
LEMMA NextStays ==
  ASSUME IInv, Informed, Trusting, NEW p \in Procs, ~Undecided(op[p]),
         Continue(p) \/ Stop(p) \/ (Set(p, Finished) /\ UNCHANGED skillMu)
  PROVE  \E r : /\ op' = [op EXCEPT ![p] = r] /\ Stays(op[p], r) /\ OpTrusted(p, op[p])'
                /\ \A q \in Procs : q # p => (skillMu' = q <=> skillMu = q)
<1>1. PICK r \in Operation :
        /\ op' = [op EXCEPT ![p] = r]
        /\ \/ r = Finished
           \/ /\ op[p].todo # <<"done">> /\ r.pc = Head(op[p].todo) /\ r.todo = Tail(op[p].todo)
              /\ r.kind = op[p].kind /\ r.skill = op[p].skill /\ r.unseen = op[p].unseen
              /\ r.new = op[p].new /\ r.intent = op[p].intent /\ r.stamp = op[p].stamp
  BY NextParts DEF Stop
<1>2. op'[p] = r
  BY <1>1 DEF IInv, Types
<1>3. \A q \in Procs : q # p => (skillMu' = q <=> skillMu = q)
  BY SettingsAssumption DEF Continue, Stop, Procs
<1>4. Knows(op[p]) /\ PlanOf(p, op[p]) /\ op[p].todo \in Todos
  BY OpTypes DEF IInv, Informed, Trusting, OpTrusted
<1>5. (p = Boot => r.kind # "import") /\ ~Undecided(r) /\ r.pc \notin {"adopt", "commit", "publish", "apply", "write"}
  <2>1. CASE r = Finished
    BY <2>1, FinishedKnows DEF Undecided
  <2>2. CASE r # Finished
    <3>1. op[p].todo # <<"done">> /\ r.pc = Head(op[p].todo) /\ r.todo = Tail(op[p].todo) /\ r.kind = op[p].kind
      BY <1>1, <2>2
    <3>2. r.pc \in Nexts
      BY <1>4, <3>1, TodoNext
    <3>3. p = Boot => r.kind # "import"
      BY <1>4, <3>1 DEF PlanOf
    <3>4. ~Undecided(r)
      <4>. SUFFICES ASSUME r.kind = "import" PROVE r.todo \notin {Importing, Imported}
        BY DEF Undecided
      <4>1. op[p].todo \in SkipTodos /\ op[p].todo \notin {Importing, Imported}
        BY <1>4, <3>1 DEF Knows, Course, Skips, Undecided
      <4>2. op[p].todo = <<"enable", "done">>
        BY <3>1, <4>1 DEF SkipTodos, Importing, Imported
      <4>3. r.todo = <<"done">>
        BY <3>1, <4>2
      <4>. QED BY <4>3, ImportTodos
    <3>. QED BY <3>2, <3>3, <3>4 DEF Nexts
  <2>. QED BY <2>1, <2>2
<1>6. ~Undecided(op[p])'
  BY <1>2, <1>5 DEF Undecided
<1>7. OpTrusted(p, op[p])'
  BY <1>2, <1>5, <1>6, IdleTrusts
<1>8. Stays(op[p], r)
  BY DEF Stays
<1>. QED BY <1>1, <1>3, <1>7, <1>8

\* An operation that is at none of an import's steps has no import to decide.
LEMMA Elsewhere ==
  ASSUME Informed, Trusting, NEW p \in Procs,
         \/ op[p].pc \notin {"reload", "adopt", "commit", "publish", "apply", "off"}
         \/ ~Skips(op[p])
  PROVE  ~Undecided(op[p])
BY ImportTodos DEF Trusting, OpTrusted, PlanOf, Undecided, Skips

\* A request that reads, and a runtime that is told.
LEMMA RefreshTrusts ==
  ASSUME IInv, Informed, Trusting, NEW p \in Procs, Refresh(p)
  PROVE  Trusting'
<1>. DEFINE t == Tail(op[p].todo)
            r == [op[p] EXCEPT !.pc = "reload", !.todo = t, !.mcp = cfg.mcp]
<1>1. op[p] \in Operation /\ Knows(op[p]) /\ op[p].pc = "refresh"
  BY OpTypes DEF IInv, Informed, Refresh, At
<1>2. op' = [op EXCEPT ![p] = r] /\ UNCHANGED <<dirs, trusted, disk, stamp, cfg, records, seen, skillMu>>
  BY DEF Refresh, Set, file, copy, skillState, locks, ghosts
<1>3. ~Skips(op[p]) /\ ~Undecided(op[p])
  BY <1>1, Elsewhere DEF Knows, Course
<1>. HIDE DEF t
<1>4. op'[p].pc = "reload" /\ op'[p].kind = op[p].kind
  BY <1>1, <1>2 DEF IInv, Types, Operation
<1>. HIDE DEF r
<1>5. OpTrusted(p, op[p])'
  BY <1>3, <1>4, IdleTrusts DEF Undecided, Skips
<1>. QED BY <1>1, <1>2, <1>3, <1>5, QuietTrusts DEF Stays

\* The MCP runtime takes its part.
LEMMA ServersTrusts ==
  ASSUME IInv, Informed, Trusting, NEW p \in Procs, Servers(p)
  PROVE  Trusting'
<1>1. Continue(p) /\ op[p].pc = "servers" /\ UNCHANGED <<dirs, trusted, disk, stamp, cfg, records, seen>>
  BY DEF Servers, At, file, copy, skillState, ghosts
<1>2. ~Undecided(op[p])
  BY <1>1, Elsewhere
<1>. QED BY <1>1, <1>2, NextStays, QuietTrusts

\* A request that began with the file's configuration, or the copy.
LEMMA GateTrusts ==
  ASSUME IInv, Informed, Trusting, NEW p \in Ops, Gate(p)
  PROVE  Trusting'
<1>. DEFINE t == <<"reload", "servers", "act", "done">>
            b == Newer /\ cfg # disk
            r == [op[p] EXCEPT !.pc = "refresh", !.todo = t]
            w == [op[p] EXCEPT !.pc = "act", !.unseen = b]
<1>0. p \in Procs /\ p # Boot
  BY SettingsAssumption DEF Procs
<1>1. op[p] \in Operation /\ op[p].pc = "none" /\ Knows(op[p])
  BY <1>0, OpTypes DEF IInv, Informed, Gate, Starts, At
<1>2. UNCHANGED <<dirs, trusted, disk, stamp, records, seen, skillMu>>
  BY DEF Gate, file, skillState, locks, ghosts
<1>3. ~Skips(op[p]) /\ ~Undecided(op[p])
  BY <1>0, <1>1, Elsewhere DEF Knows, Course
<1>4. CASE Set(p, r) /\ cfg' = disk /\ Configured(disk)
  <2>. HIDE DEF t
  <2>1. op' = [op EXCEPT ![p] = r] /\ op'[p].pc = "refresh" /\ op'[p].kind = op[p].kind
    BY <1>0, <1>1, <1>4 DEF Set, IInv, Types, Operation
  <2>. HIDE DEF r
  <2>2. OpTrusted(p, op[p])'
    BY <1>3, <2>1, IdleTrusts DEF Undecided, Skips
  <2>3. Stays(op[p], r)
    BY <1>3 DEF Stays
  <2>4. KeepsCopy /\ KeepsMind
    BY <1>0, <1>2, <2>1, <2>3, StaysKeeps
  <2>5. ~Pending
    <3>. SUFFICES ASSUME Pending PROVE FALSE
      OBVIOUS
    <3>1. disk = Empty
      BY DEF Pending, At, Trusting, OpTrusted, PlanOf
    <3>. QED BY <1>4, <3>1 DEF Configured, Empty
  <2>6. SafeInCopy(disk.skills)
    BY <2>5, FineOrder DEF Trusting, DiskTrusted, SafeOnDisk, SafeInCopy
  <2>7. CopyTrusted'
    BY <1>4, <2>4, <2>6, KeepSafe DEF CopyTrusted
  <2>8. MindTrusted'
    BY <1>2, <2>4 DEF Trusting, MindTrusted, KeepsMind
  <2>. QED BY <1>0, <1>1, <1>2, <2>1, <2>2, <2>3, <2>7, <2>8, TrustStep
<1>5. CASE Set(p, w) /\ UNCHANGED copy
  <2>. HIDE DEF b
  <2>1. op' = [op EXCEPT ![p] = w] /\ op'[p].pc = "act" /\ op'[p].kind = op[p].kind
    BY <1>0, <1>1, <1>5 DEF Set, IInv, Types, Operation
  <2>. HIDE DEF w
  <2>2. OpTrusted(p, op[p])'
    BY <1>3, <2>1, IdleTrusts DEF Undecided, Skips
  <2>3. Stays(op[p], w) /\ cfg' = cfg
    BY <1>3, <1>5 DEF Stays, copy
  <2>. QED BY <1>0, <1>1, <1>2, <2>1, <2>2, <2>3, QuietTrusts
<1>. QED BY <1>4, <1>5 DEF Gate

\* An operation takes the lock with records that are those of the copy, but for one
\* that it was asked for; or with those that it has adopted.
LEMMA TakeTrusts ==
  ASSUME IInv, Informed, Trusting, NEW p \in Procs, NEW i \in Intents, NEW new, NEW k, Take(p, i, new, k),
         op[p].pc # "write", i.what \in {"record", "adopt"} => k = key,
         \A s \in dirs : new.skills[s] = "off" \/ FineOnDisk(s) \/ (i.what = "record" /\ i.skill = s /\ i.to = "on"),
         Undecided(op[p]) =>
           /\ skillMu' = p
           /\ op[p].todo = Imported =>
                /\ op[p].pc = "off" /\ i.what = "record" /\ i.to = "off" /\ new.skills[op[p].skill] = "off",
         Undecided(op[p]) => op[p].pc # "reload",
         \A q \in Procs : q # p => (skillMu' = q <=> skillMu = q),
         UNCHANGED <<dirs, trusted, disk, stamp, cfg, records, seen>>
  PROVE  Trusting'
<1>. DEFINE r == [op[p] EXCEPT !.pc = "commit", !.intent = i, !.new = new, !.key = k, !.backup = key]
<1>1. op[p] \in Operation /\ PlanOf(p, op[p]) /\ configMu = None
  BY OpTypes DEF IInv, Trusting, OpTrusted, Take
<1>2. /\ r.pc = "commit" /\ r.intent = i /\ r.new = new /\ r.kind = op[p].kind
      /\ r.skill = op[p].skill /\ r.todo = op[p].todo /\ r.key = k /\ r.backup = key
  BY <1>1 DEF Operation
<1>3. op' = [op EXCEPT ![p] = r] /\ op'[p] = r
  BY DEF Take, Set, IInv, Types
<1>. HIDE DEF r
<1>4. Stays(op[p], r)
  BY <1>2 DEF Stays, Undecided, OffOnDisk, OffInCopy
<1>5. KeepsDisk
  BY <1>3, <1>4, StaysKeeps
<1>6. Promise(p, op[p])'
  BY <1>2, <1>3, <1>5 DEF Promise, KeepsDisk, Asked
<1>7. PlanOf(p, op[p])'
  <2>1. p = Boot => op'[p].kind # "import"
    BY <1>1, <1>2, <1>3 DEF PlanOf
  <2>2. Undecided(op[p])' => Undecided(op[p])
    BY <1>2, <1>3 DEF Undecided
  <2>3. op'[p].pc = "commit" /\ op'[p].skill = op[p].skill /\ op'[p].todo = op[p].todo /\ op'[p].intent = i /\ op'[p].new = new
        /\ op'[p].key = k /\ op'[p].backup = key
    BY <1>2, <1>3
  <2>. QED BY <1>1, <2>1, <2>2, <2>3 DEF PlanOf
<1>. QED BY <1>3, <1>4, <1>6, <1>7, QuietTrusts DEF OpTrusted

\* While nobody publishes, the copy's records are safe on disk.
LEMMA CopySafe ==
  ASSUME IInv, Trusting, configMu = None
  PROVE  SafeOnDisk(cfg.skills)
BY FineFree DEF Trusting, CopyTrusted, SafeInCopy, SafeOnDisk

\* config.set leaves the records as they are.
LEMMA UpdateTrusts ==
  ASSUME IInv, Informed, Trusting, NEW p \in Procs, Update(p)
  PROVE  Trusting'
<1>1. PICK m \in Models, what \in {"upsert", "delete"}, k \in BOOLEAN :
        Take(p, [what |-> what, model |-> m], Effect([what |-> what, model |-> m], cfg), k)
  BY DEF Update
<1>. DEFINE i == [what |-> what, model |-> m]
            new == Effect(i, cfg)
<1>2. i \in Intents /\ i.what \notin {"record", "adopt"}
  BY DEF Intents
<1>3. op[p].pc = "act" /\ UNCHANGED <<dirs, trusted, disk, stamp, cfg, records, seen, skillMu>>
  BY DEF Update, At, file, copy, skillState, ghosts
<1>4. new.skills = cfg.skills
  <2>1. cfg \in Contents
    BY DEF IInv, Types
  <2>2. CASE what = "upsert"
    BY <2>1, <2>2 DEF Effect, Contents
  <2>3. CASE what = "delete"
    BY <2>1, <2>3 DEF Effect, Contents
  <2>. QED BY <2>2, <2>3
<1>5. ~Undecided(op[p])
  BY <1>3, Elsewhere
<1>6. configMu = None /\ Take(p, i, new, k)
  BY <1>1 DEF Take
<1>7. \A s \in dirs : new.skills[s] = "off" \/ FineOnDisk(s)
  BY <1>4, <1>6, CopySafe DEF SafeOnDisk
<1>. HIDE DEF i, new
<1>. QED BY <1>2, <1>3, <1>5, <1>6, <1>7, TakeTrusts

\* Adopted records are committed as they are.
LEMMA AdoptTrusts ==
  ASSUME IInv, Informed, Trusting, NEW p \in Procs, Adopt(p)
  PROVE  Trusting'
<1>. DEFINE i == op[p].intent
            new == [cfg EXCEPT !.skills = op[p].new.skills]
<1>1. op[p].pc = "adopt" /\ i \in Intents /\ i.what = "adopt" /\ cfg \in Contents
  BY OpTypes DEF IInv, Types, Adopt, At, Planned
<1>2. Take(p, i, new, key) /\ UNCHANGED <<dirs, trusted, disk, stamp, cfg, records, seen, skillMu>>
  BY DEF Adopt, file, copy, skillState, ghosts
<1>3. SafeOnDisk(op[p].new.skills) /\ PlanOf(p, op[p])
  BY <1>1 DEF Trusting, OpTrusted, Promise
<1>4. new.skills = op[p].new.skills
  BY <1>1 DEF Contents
<1>5. \A s \in dirs : new.skills[s] = "off" \/ FineOnDisk(s)
  BY <1>3, <1>4 DEF SafeOnDisk
<1>6. Undecided(op[p]) => skillMu' = p /\ op[p].todo # Imported
  BY <1>1, <1>2, <1>3 DEF PlanOf
<1>. HIDE DEF i, new
<1>. QED BY <1>1, <1>2, <1>5, <1>6, TakeTrusts

\* A record is set: enabled because it was asked for, or disabled.
LEMMA RecordTrusts ==
  ASSUME IInv, Informed, Trusting, NEW p \in Procs, NEW s \in Skills, NEW to \in {"on", "off"}, Record(p, s, to),
         op[p].pc # "write",
         Undecided(op[p]) => skillMu' = p /\ op[p].todo = Imported /\ op[p].pc = "off" /\ to = "off" /\ op[p].skill = s,
         \A q \in Procs : q # p => (skillMu' = q <=> skillMu = q),
         UNCHANGED <<dirs, trusted, disk, stamp, cfg, records, seen>>
  PROVE  Trusting'
<1>. DEFINE i == [what |-> "record", skill |-> s, to |-> to]
            new == Effect(i, cfg)
<1>1. i \in Intents /\ i.what = "record" /\ i.skill = s /\ i.to = to
  BY DEF Intents
<1>2. Take(p, i, new, key) /\ configMu = None
  BY DEF Record, Take
<1>3. new.skills = [cfg.skills EXCEPT ![s] = to]
  BY DEF IInv, Types, Contents, Effect
<1>4. cfg.skills \in [Skills -> {"none", "on", "off"}] /\ dirs \subseteq Skills
  BY DEF IInv, Types, Contents
<1>. HIDE DEF i, new
<1>5. \A x \in dirs : new.skills[x] = "off" \/ FineOnDisk(x) \/ (i.what = "record" /\ i.skill = x /\ i.to = "on")
  <2>1. \A x \in dirs : cfg.skills[x] = "off" \/ FineOnDisk(x)
    BY <1>2, CopySafe DEF SafeOnDisk
  <2>. QED BY <1>1, <1>3, <1>4, <2>1
<1>6. to = "off" => new.skills[s] = "off"
  BY <1>3, <1>4
<1>. QED BY <1>1, <1>2, <1>5, <1>6, TakeTrusts

\* skill.set; an import that disables what it enabled; the user's answer.
LEMMA SkillTrusts ==
  ASSUME IInv, Informed, Trusting, NEW p \in Procs, SetSkill(p) \/ Off(p) \/ Enable(p)
  PROVE  Trusting'
<1>0. UNCHANGED <<dirs, trusted, disk, stamp, cfg, records, seen>>
  BY DEF SetSkill, Off, Enable, file, copy, skillState, ghosts
<1>1. PlanOf(p, op[p]) /\ seen \subseteq Skills /\ None \notin Procs
  BY SettingsAssumption DEF Trusting, OpTrusted, IInv, Types, Procs
<1>2. CASE SetSkill(p)
  <2>1. op[p].pc = "act" /\ skillMu = None /\ skillMu' = p
    BY <1>2 DEF SetSkill, At
  <2>2. ~Undecided(op[p])
    BY <2>1, Elsewhere
  <2>. QED BY <1>0, <1>1, <1>2, <2>1, <2>2, RecordTrusts DEF SetSkill
<1>3. CASE Off(p)
  <2>1. op[p].pc = "off" /\ skillMu \in {None, p}
    BY <1>3 DEF Off, At
  <2>2. CASE op[p].skill \in seen
    <3>1. Record(p, op[p].skill, "off") /\ skillMu' = p
      BY <1>3, <2>2 DEF Off
    <3>2. Undecided(op[p]) => op[p].todo = Imported
      BY <1>1, <2>1, ImportTodos DEF PlanOf, Undecided
    <3>3. op[p].skill \in Skills
      BY <1>1, <2>2
    <3>4. \A q \in Procs : q # p => (skillMu' = q <=> skillMu = q)
      BY <1>1, <2>1, <3>1
    <3>. QED BY <1>0, <2>1, <3>1, <3>2, <3>3, <3>4, RecordTrusts
  <2>3. CASE op[p].skill \notin seen
    <3>1. Stop(p)
      BY <1>3, <2>3 DEF Off
    <3>2. ~Undecided(op[p])
      BY <1>1, <2>1, <2>3 DEF PlanOf
    <3>. QED BY <1>0, <2>1, <3>1, <3>2, NextStays, QuietTrusts
  <2>. QED BY <2>2, <2>3
<1>4. CASE Enable(p)
  <2>1. op[p].pc = "enable" /\ skillMu' = skillMu
    BY <1>4 DEF Enable, At
  <2>2. ~Undecided(op[p])
    BY <2>1, Elsewhere
  <2>3. CASE op[p].skill \in seen /\ \E to \in {"on", "off"} : Record(p, op[p].skill, to)
    BY <1>0, <1>1, <2>1, <2>2, <2>3, RecordTrusts
  <2>4. CASE Set(p, Finished)
    BY <1>0, <2>1, <2>2, <2>4, NextStays, QuietTrusts
  <2>. QED BY <1>4, <2>3, <2>4 DEF Enable
<1>. QED BY <1>2, <1>3, <1>4

\* An import that has enabled the skill goes on to disable it, and keeps the lock.
LEMMA ImportNext ==
  ASSUME IInv, Trusting, NEW p \in Procs, Undecided(op[p]), op[p].todo = Importing, Continue(p)
  PROVE  \E r : /\ op' = [op EXCEPT ![p] = r] /\ r.pc = "off" /\ r.todo = Imported
                /\ r.kind = op[p].kind /\ r.skill = op[p].skill /\ skillMu = p /\ skillMu' = p
<1>1. PICK r \in Operation :
        /\ op' = [op EXCEPT ![p] = r]
        /\ \/ r = Finished
           \/ /\ op[p].todo # <<"done">> /\ r.pc = Head(op[p].todo) /\ r.todo = Tail(op[p].todo)
              /\ r.kind = op[p].kind /\ r.skill = op[p].skill /\ r.unseen = op[p].unseen
              /\ r.new = op[p].new /\ r.intent = op[p].intent /\ r.stamp = op[p].stamp
  BY NextParts
<1>2. skillMu = p
  BY DEF Trusting, OpTrusted, PlanOf
<1>3. Keeps(p) /\ op[p].todo # <<"done">>
  BY ImportTodos DEF Keeps, Undecided
<1>4. skillMu' = p
  BY <1>2, <1>3 DEF Continue
<1>5. op' # [op EXCEPT ![p] = Finished]
  <2>. DEFINE h == Head(op[p].todo)
              t == Tail(op[p].todo)
              a == [op[p] EXCEPT !.pc = h, !.todo = t]
  <2>1. op' = [op EXCEPT ![p] = a]
    BY <1>3 DEF Continue, Set
  <2>2. h = "off" /\ op[p] \in Operation
    BY ImportTodos, OpTypes DEF IInv
  <2>. HIDE DEF h, t
  <2>3. a.pc = "off"
    BY <2>2 DEF Operation
  <2>. HIDE DEF a
  <2>. QED BY <2>1, <2>3, FinishedKnows DEF IInv, Types
<1>6. r.pc = "off" /\ r.todo = Imported /\ r.kind = op[p].kind /\ r.skill = op[p].skill
  BY <1>1, <1>5, ImportTodos
<1>. QED BY <1>1, <1>2, <1>4, <1>6

\* The skill runtime reads the copy: what it enables is placed by hand, or what an
\* import will disable.
LEMMA ReloadTrusts ==
  ASSUME IInv, Informed, Trusting, NEW p \in Procs, Reload(p)
  PROVE  Trusting'
<1>. DEFINE found == {s \in dirs : cfg.skills[s] = "none"}
            i == [what |-> "adopt", found |-> found]
            c == Effect(i, cfg)
            u == op[p].unseen \/ OldCopy(p)
            r == [op[p] EXCEPT !.pc = "adopt", !.intent = i, !.new = c, !.unseen = u]
<1>1. /\ op[p] \in Operation /\ op[p].pc = "reload" /\ configMu = None /\ skillMu \in {None, p}
      /\ records' = cfg.skills /\ seen' = dirs /\ cfg \in Contents /\ dirs \subseteq Skills
  BY OpTypes DEF IInv, Types, Reload, At
<1>2. UNCHANGED <<dirs, trusted, disk, stamp, cfg>> /\ seen \subseteq seen'
  BY <1>1 DEF Reload, file, copy, ghosts, Trusting, MindTrusted
<1>3. PlanOf(p, op[p])
  BY DEF Trusting, OpTrusted
<1>4. ASSUME KeepsCopy, KeepsMind
      PROVE  CopyTrusted' /\ MindTrusted'
  <2>1. CopyTrusted'
    BY <1>2, <1>4, KeepSafe DEF Trusting, CopyTrusted
  <2>2. \A s \in dirs : cfg.skills[s] = "off" \/ FineInMind(s)
    BY FineOrder DEF Trusting, CopyTrusted, SafeInCopy
  <2>3. MindTrusted'
    BY <1>1, <1>2, <1>4, <2>2 DEF MindTrusted, KeepsMind
  <2>. QED BY <2>1, <2>3
<1>5. CASE Continue(p) /\ ~Undecided(op[p])
  <2>1. PICK x : /\ op' = [op EXCEPT ![p] = x] /\ Stays(op[p], x) /\ OpTrusted(p, op[p])'
                 /\ \A q \in Procs : q # p => (skillMu' = q <=> skillMu = q)
    BY <1>5, NextStays
  <2>2. KeepsCopy /\ KeepsMind
    BY <1>2, <2>1, StaysKeeps
  <2>3. CopyTrusted' /\ MindTrusted'
    BY <1>4, <2>2
  <2>. QED BY <1>1, <1>2, <2>1, <2>3, TrustStep
<1>6. CASE Continue(p) /\ Undecided(op[p])
  <2>0. op[p].todo = Importing
    BY <1>1, <1>3, <1>6 DEF PlanOf, Undecided
  <2>1. PICK x : /\ op' = [op EXCEPT ![p] = x] /\ x.pc = "off" /\ x.todo = Imported
                 /\ x.kind = op[p].kind /\ x.skill = op[p].skill /\ skillMu = p /\ skillMu' = p
    BY <1>6, <2>0, ImportNext
  <2>2. Stays(op[p], x) /\ op'[p] = x
    BY <1>6, <2>1 DEF Stays, Undecided, OffOnDisk, OffInCopy, IInv, Types
  <2>3. KeepsCopy /\ KeepsMind
    BY <1>2, <2>1, <2>2, StaysKeeps
  <2>4. OpTrusted(p, op[p])'
    <3>1. op'[p].pc = "off" /\ op'[p].todo = Imported /\ op'[p].kind = op[p].kind /\ op'[p].skill = op[p].skill
      BY <2>1, <2>2
    <3>2. op[p].skill \in dirs /\ (p = Boot => op[p].kind # "import")
      BY <1>3, <1>6 DEF PlanOf
    <3>. QED BY <1>1, <1>2, <2>1, <3>1, <3>2, ImportTodos DEF OpTrusted, PlanOf, Promise
  <2>5. CopyTrusted' /\ MindTrusted'
    BY <1>4, <2>3
  <2>. QED BY <1>1, <1>2, <2>1, <2>2, <2>4, <2>5, TrustStep
<1>7. CASE Set(p, r) /\ skillMu' = p
  <2>1. c.skills = [s \in Skills |-> IF s \in found THEN "on" ELSE cfg.skills[s]]
    BY <1>1 DEF Effect, Contents
  <2>2. \A s \in dirs : c.skills[s] = "off" \/ FineOnDisk(s)
    <3>1. \A s \in dirs : cfg.skills[s] = "off" \/ FineOnDisk(s)
      BY <1>1, CopySafe DEF SafeOnDisk
    <3>2. \A s \in dirs : cfg.skills[s] = "off" => s \notin found
      OBVIOUS
    <3>. HIDE DEF found, i, c
    <3>. QED BY <1>1, <2>1, <3>1, <3>2
  <2>3. i.what = "adopt"
    OBVIOUS
  <2>. HIDE DEF found, c, u, i
  <2>4. op' = [op EXCEPT ![p] = r] /\ r.pc = "adopt" /\ r.kind = op[p].kind /\ r.todo = op[p].todo /\ r.skill = op[p].skill
        /\ r.new = c
    BY <1>1, <1>7 DEF Set, Operation
  <2>. HIDE DEF r
  <2>5. op'[p] = r
    BY <2>4 DEF IInv, Types
  <2>6. Stays(op[p], r)
    BY <2>4 DEF Stays, Undecided, OffOnDisk, OffInCopy
  <2>7. KeepsDisk /\ KeepsCopy /\ KeepsMind
    BY <1>2, <2>4, <2>6, StaysKeeps
  <2>8. Undecided(r) => op[p].todo = Importing /\ op[p].skill \in dirs
    BY <1>1, <1>3, <2>4 DEF PlanOf, Undecided
  <2>9. PlanOf(p, op[p])'
    <3>1. Undecided(op[p])' => Undecided(r)
      BY <2>5 DEF Undecided
    <3>2. op'[p].pc = "adopt" /\ op'[p].kind = op[p].kind /\ op'[p].todo = op[p].todo /\ op'[p].skill = op[p].skill
      BY <2>4, <2>5
    <3>. QED BY <1>1, <1>2, <1>3, <1>7, <2>8, <3>1, <3>2, ImportTodos DEF PlanOf
  <2>10. Promise(p, op[p])'
    <3>1. op'[p].pc = "adopt" /\ op'[p].new = c
      BY <2>4, <2>5
    <3>2. \A s \in dirs : c.skills[s] = "off" \/ FineOnDisk(s)'
      BY <1>2, <2>2, <2>7 DEF KeepsDisk
    <3>. QED BY <1>2, <3>1, <3>2 DEF Promise, SafeOnDisk
  <2>11. \A q \in Procs : q # p => (skillMu' = q <=> skillMu = q)
    BY <1>1, <1>7, SettingsAssumption DEF Procs
  <2>12. CopyTrusted' /\ MindTrusted'
    BY <1>4, <2>7
  <2>. QED BY <1>1, <1>2, <2>4, <2>6, <2>9, <2>10, <2>11, <2>12, TrustStep DEF OpTrusted
<1>. QED BY <1>5, <1>6, <1>7 DEF Reload

\* The skill runtime takes the records that were committed: its own, under its lock,
\* or what is in the copy.
LEMMA ApplyTrusts ==
  ASSUME IInv, Informed, Trusting, NEW p \in Procs, Apply(p), Calm'
  PROVE  Trusting'
<1>1. op[p].pc = "apply" /\ records' = op[p].new.skills /\ Continue(p)
      /\ UNCHANGED <<dirs, trusted, disk, stamp, cfg, seen>>
  BY DEF Apply, At, file, copy
<1>2. OpTrusted(p, op[p]) /\ PlanOf(p, op[p]) /\ Promise(p, op[p])
  BY DEF Trusting, OpTrusted
<1>3. skillMu = p \/ op[p].new.skills = cfg.skills
  <2>. DEFINE b == skillMu # p /\ op[p].new.skills # cfg.skills
  <2>1. history' = [history EXCEPT !["stale"] = history["stale"] \/ b] /\ b \in BOOLEAN
    BY DEF Apply
  <2>2. ~b => skillMu = p \/ op[p].new.skills = cfg.skills
    OBVIOUS
  <2>. HIDE DEF b
  <2>3. ~b
    BY <2>1, GrowsOne DEF Calm
  <2>. QED BY <2>2, <2>3
<1>4. \A s \in seen : op[p].new.skills[s] = "on" => FineInMind(s)
  BY <1>1, <1>2, <1>3, FineOrder DEF Trusting, MindTrusted, CopyTrusted, SafeInCopy, Promise, SafeInMind
<1>5. seen \subseteq dirs /\ CopyTrusted
  BY DEF Trusting, MindTrusted
<1>6. CASE ~Undecided(op[p])
  <2>1. PICK x : /\ op' = [op EXCEPT ![p] = x] /\ Stays(op[p], x) /\ OpTrusted(p, op[p])'
                 /\ \A q \in Procs : q # p => (skillMu' = q <=> skillMu = q)
    BY <1>1, <1>6, NextStays
  <2>2. KeepsCopy /\ KeepsMind
    BY <1>1, <2>1, StaysKeeps
  <2>3. CopyTrusted' /\ MindTrusted'
    BY <1>1, <1>4, <1>5, <2>2, KeepSafe DEF CopyTrusted, MindTrusted, KeepsMind
  <2>. QED BY <1>1, <2>1, <2>3, TrustStep
<1>7. CASE Undecided(op[p]) /\ op[p].todo = Importing
  <2>1. PICK x : /\ op' = [op EXCEPT ![p] = x] /\ x.pc = "off" /\ x.todo = Imported
                 /\ x.kind = op[p].kind /\ x.skill = op[p].skill /\ skillMu = p /\ skillMu' = p
    BY <1>1, <1>7, ImportNext
  <2>2. Stays(op[p], x) /\ op'[p] = x
    BY <1>7, <2>1 DEF Stays, Undecided, OffOnDisk, OffInCopy, IInv, Types
  <2>3. KeepsCopy /\ KeepsMind
    BY <1>1, <2>1, <2>2, StaysKeeps
  <2>4. OpTrusted(p, op[p])'
    <3>1. op'[p].pc = "off" /\ op'[p].todo = Imported /\ op'[p].kind = op[p].kind /\ op'[p].skill = op[p].skill
      BY <2>1, <2>2
    <3>2. op[p].skill \in dirs /\ op[p].skill \in seen /\ (p = Boot => op[p].kind # "import")
      BY <1>1, <1>2, <1>7 DEF PlanOf
    <3>. QED BY <1>1, <2>1, <3>1, <3>2, ImportTodos DEF OpTrusted, PlanOf, Promise
  <2>5. CopyTrusted' /\ MindTrusted'
    BY <1>1, <1>4, <1>5, <2>3, KeepSafe DEF CopyTrusted, MindTrusted, KeepsMind
  <2>. QED BY <1>1, <2>1, <2>2, <2>4, <2>5, TrustStep
<1>8. CASE Undecided(op[p]) /\ op[p].todo = Imported
  <2>1. PICK r \in Operation :
          /\ op' = [op EXCEPT ![p] = r]
          /\ \/ r = Finished
             \/ /\ op[p].todo # <<"done">> /\ r.pc = Head(op[p].todo) /\ r.todo = Tail(op[p].todo)
                /\ r.kind = op[p].kind /\ r.skill = op[p].skill /\ r.unseen = op[p].unseen
                /\ r.new = op[p].new /\ r.intent = op[p].intent /\ r.stamp = op[p].stamp
    BY <1>1, NextParts
  <2>2. skillMu = p /\ op[p].new.skills[op[p].skill] = "off" /\ (p = Boot => op[p].kind # "import")
    BY <1>1, <1>2, <1>8 DEF PlanOf
  <2>3. r.pc \in {"ask", "done"} /\ r.todo = <<"done">> /\ r.kind \in {"none", op[p].kind}
    BY <1>8, <2>1, ImportTodos, FinishedKnows
  <2>4. \A q \in Procs : op'[q] = IF q = p THEN r ELSE op[q]
    BY <2>1 DEF IInv, Types
  <2>5. ~Undecided(r)
    BY <2>3, ImportTodos DEF Undecided
  <2>6. OpTrusted(p, op[p])'
    <3>1. ~Undecided(op[p])'
      BY <2>4, <2>5 DEF Undecided
    <3>. QED BY <2>2, <2>3, <2>4, <3>1, IdleTrusts
  <2>7. KeepsDisk /\ KeepsCopy
    <3>1. OffOnDisk(op[p]) /\ OffInCopy(op[p])
      BY <1>1, <1>8 DEF OffOnDisk, OffInCopy
    <3>2. \A s : FineOnDisk(s) => FineOnDisk(s)'
      BY <1>1, <2>4, <3>1 DEF FineOnDisk
    <3>3. \A s : FineInCopy(s) => FineInCopy(s)'
      BY <1>1, <2>4, <3>1 DEF FineInCopy
    <3>. QED BY <1>1, <3>2, <3>3 DEF KeepsDisk, KeepsCopy
  <2>8. \A s : FineInMind(s) => s = op[p].skill \/ FineInMind(s)'
    BY <1>1, <2>4 DEF FineInMind
  <2>9. CopyTrusted' /\ MindTrusted'
    BY <1>1, <1>4, <1>5, <2>2, <2>7, <2>8, KeepSafe DEF CopyTrusted, MindTrusted
  <2>10. ASSUME NEW q \in Procs, q # p
         PROVE  OpTrusted(q, op[q])'
    <3>1. SameOp(q)
      BY <2>4, <2>10 DEF SameOp
    <3>2. skillMu # q /\ (skillMu' = q <=> skillMu = q)
      BY <1>1, <2>2, <2>10, SettingsAssumption DEF Continue, Procs
    <3>. QED BY <1>1, <2>7, <3>1, <3>2, OtherTrusts
  <2>11. DiskTrusted'
    <3>1. Pending => Pending'
      BY <1>1, <2>4 DEF Pending, At
    <3>. QED BY <1>1, <2>7, <3>1, KeepSafe DEF Trusting, DiskTrusted
  <2>. QED BY <2>6, <2>9, <2>10, <2>11 DEF Trusting
<1>. QED BY <1>6, <1>7, <1>8 DEF Undecided

\* The user is asked.
LEMMA AskTrusts ==
  ASSUME IInv, Informed, Trusting, NEW p \in Procs, Ask(p)
  PROVE  Trusting'
<1>. DEFINE t == <<"enable", "done">>
            a == [op[p] EXCEPT !.pc = "reload", !.todo = t]
            b == [op[p] EXCEPT !.pc = "enable"]
<1>1. op[p] \in Operation /\ op[p].pc = "ask" /\ PlanOf(p, op[p])
  BY OpTypes DEF IInv, Trusting, OpTrusted, Ask, At
<1>2. UNCHANGED <<dirs, trusted, disk, stamp, cfg, records, seen, skillMu>>
  BY DEF Ask, file, copy, skillState, locks, ghosts
<1>3. ~Undecided(op[p])
  BY <1>1, Elsewhere
<1>4. CASE op' = [op EXCEPT ![p] = a]
  <2>1. t \notin {Importing, Imported}
    BY ImportTodos
  <2>. HIDE DEF t
  <2>2. op'[p].pc = "reload" /\ op'[p].kind = op[p].kind /\ op'[p].todo = t
    BY <1>1, <1>4 DEF IInv, Types, Operation
  <2>. HIDE DEF a
  <2>3. OpTrusted(p, op[p])'
    BY <1>1, <2>1, <2>2, IdleTrusts DEF Undecided, PlanOf
  <2>. QED BY <1>1, <1>2, <1>3, <1>4, <2>3, QuietTrusts DEF Stays
<1>5. CASE op' = [op EXCEPT ![p] = b]
  <2>2. op'[p].pc = "enable" /\ op'[p].kind = op[p].kind /\ op'[p].todo = op[p].todo
    BY <1>1, <1>5 DEF IInv, Types, Operation
  <2>. HIDE DEF b
  <2>3. OpTrusted(p, op[p])'
    BY <1>1, <1>3, <2>2, IdleTrusts DEF Undecided, PlanOf
  <2>. QED BY <1>1, <1>2, <1>3, <1>5, <2>3, QuietTrusts DEF Stays
<1>6. CASE Set(p, Finished)
  BY <1>1, <1>2, <1>3, <1>6, NextStays, QuietTrusts
<1>. QED BY <1>4, <1>5, <1>6 DEF Ask, Go, Set

\* A skill_start begins with a skill that is installed.
LEMMA CheckTrusts ==
  ASSUME IInv, Informed, Trusting, NEW p \in Procs, Check(p)
  PROVE  Trusting'
<1>. DEFINE t == <<"off", "ask", "done">>
<1>1. op[p] \in Operation /\ op[p].pc = "none"
  BY OpTypes DEF IInv, Check, Starts, At
<1>2. UNCHANGED <<dirs, trusted, disk, stamp, cfg, records, seen, skillMu>>
  BY DEF Check, file, copy, skillState, locks, ghosts
<1>3. ~Undecided(op[p])
  BY <1>1, Elsewhere
<1>. PICK s \in Skills : Set(p, [op[p] EXCEPT !.kind = "check", !.skill = s, !.pc = "reload", !.todo = t])
  BY DEF Check
<1>. DEFINE r == [op[p] EXCEPT !.kind = "check", !.skill = s, !.pc = "reload", !.todo = t]
<1>4. op' = [op EXCEPT ![p] = r]
  BY DEF Set
<1>. HIDE DEF t
<1>5. op'[p].pc = "reload" /\ op'[p].kind = "check"
  BY <1>1, <1>4 DEF IInv, Types, Operation
<1>. HIDE DEF r
<1>6. OpTrusted(p, op[p])'
  BY <1>5, IdleTrusts DEF Undecided
<1>. QED BY <1>1, <1>2, <1>3, <1>4, <1>6, QuietTrusts DEF Stays

\* mcp.toggle goes on: it leaves the records as they are.
LEMMA ToggleTrusts ==
  ASSUME IInv, Informed, Trusting, NEW p \in Procs, Toggle(p) \/ Snapshot(p)
  PROVE  Trusting'
<1>. DEFINE r == [op[p] EXCEPT !.pc = "snapshot", !.kind = "toggle"]
            i == [what |-> "toggle", to |-> mcp]
            new == [cfg EXCEPT !.mcp = mcp]
            w == [op[p] EXCEPT !.pc = "truncate", !.new = new, !.intent = i]
<1>1. op[p] \in Operation /\ op[p].pc \in {"act", "snapshot"} /\ PlanOf(p, op[p])
  BY OpTypes DEF IInv, Trusting, OpTrusted, Toggle, Snapshot, At
<1>2. UNCHANGED <<dirs, trusted, disk, stamp, records, seen, skillMu>>
  BY DEF Toggle, Snapshot, file, copy, skillState, locks, ghosts
<1>3. cfg'.skills = cfg.skills
  BY DEF Toggle, Snapshot, copy, IInv, Types, Contents
<1>4. ~Undecided(op[p])
  BY <1>1, Elsewhere
<1>5. CASE Set(p, r)
  <2>1. op' = [op EXCEPT ![p] = r] /\ op'[p].pc = "snapshot" /\ op'[p].kind = "toggle"
    BY <1>1, <1>5 DEF Set, IInv, Types, Operation
  <2>. HIDE DEF r
  <2>2. OpTrusted(p, op[p])'
    BY <2>1, IdleTrusts DEF Undecided
  <2>. QED BY <1>1, <1>2, <1>3, <1>4, <2>1, <2>2, QuietTrusts DEF Stays
<1>6. CASE Set(p, w)
  <2>. HIDE DEF i, new
  <2>1. op' = [op EXCEPT ![p] = w] /\ op'[p].pc = "truncate" /\ op'[p].kind = op[p].kind /\ op'[p].todo = op[p].todo
    BY <1>1, <1>6 DEF Set, IInv, Types, Operation
  <2>. HIDE DEF w
  <2>2. OpTrusted(p, op[p])'
    BY <1>1, <1>4, <2>1, IdleTrusts DEF Undecided, PlanOf
  <2>. QED BY <1>1, <1>2, <1>3, <1>4, <2>1, <2>2, QuietTrusts DEF Stays
<1>7. CASE Set(p, Finished)
  BY <1>1, <1>2, <1>3, <1>4, <1>7, NextStays, QuietTrusts
<1>. QED BY <1>5, <1>6, <1>7 DEF Toggle, Snapshot

\* The credentials are renamed, or cannot be, which concerns no skill.
LEMMA RenameKeyTrusts ==
  ASSUME IInv, Informed, Trusting, NEW p \in Procs, RenameKey(p)
  PROVE  Trusting'
<1>1. op[p].pc = "commit" /\ op[p].key # key /\ Knows(op[p]) /\ PlanOf(p, op[p])
  BY DEF Informed, Trusting, OpTrusted, RenameKey, At
<1>2. UNCHANGED <<dirs, trusted, disk, stamp, cfg, records, seen>>
  BY DEF RenameKey, file, copy, skillState, ghosts
<1>3. op[p].intent.what \notin {"record", "adopt"}
  BY <1>1 DEF PlanOf, IInv, Committed
<1>4. ~Undecided(op[p])
  BY <1>1, <1>3, Elsewhere DEF Knows, Course
<1>5. CASE UNCHANGED <<locks, op>>
  <2>1. op' = [op EXCEPT ![p] = op[p]] /\ SameOp(p) /\ skillMu' = skillMu
    BY <1>5 DEF IInv, Types, SameOp, locks
  <2>2. KeepsDisk /\ KeepsCopy /\ KeepsMind
    BY <1>2, <1>4, <2>1, StaysKeeps DEF Stays
  <2>3. OpTrusted(p, op[p])'
    BY <1>2, <2>1, <2>2, OtherTrusts
  <2>. QED BY <1>1, <1>2, <1>4, <2>1, <2>3, QuietTrusts DEF Stays
<1>6. CASE Stop(p)
  BY <1>1, <1>2, <1>4, <1>6, NextStays, QuietTrusts
<1>. QED BY <1>5, <1>6 DEF RenameKey

\* A commit that fails, of somebody who does not import.
LEMMA CommitFailsTrusts ==
  ASSUME IInv, Informed, Trusting, NEW p \in Procs, CommitFails(p), Calm'
  PROVE  Trusting'
<1>1. op[p].pc = "commit" /\ UNCHANGED <<dirs, trusted, disk, stamp, cfg, records, seen>>
  BY DEF CommitFails, Ready, Unpublished, At, file, skillState
<1>2. op[p].kind # "import"
  <2>. DEFINE b == op[p].kind = "import"
  <2>1. history' = [history EXCEPT !["stayed"] = history["stayed"] \/ b] /\ b \in BOOLEAN
    BY DEF CommitFails
  <2>. HIDE DEF b
  <2>2. ~b
    BY <2>1, GrowsOne DEF Calm
  <2>. QED BY <2>2 DEF b
<1>3. ~Undecided(op[p])
  BY <1>2 DEF Undecided
<1>4. Continue(p) \/ Stop(p)
  BY DEF CommitFails
<1>. QED BY <1>1, <1>3, <1>4, NextStays, QuietTrusts

\* An import replaces what was installed, and is going to disable it.
LEMMA ImportTrusts ==
  ASSUME IInv, Informed, Trusting, NEW p \in Ops, Import(p), Calm'
  PROVE  Trusting'
<1>. DEFINE t == <<"off", "ask", "done">>
<1>0. p \in Procs /\ p # Boot /\ None \notin Procs
  BY SettingsAssumption DEF Procs
<1>1. op[p] \in Operation /\ op[p].pc = "none" /\ skillMu = None /\ op \in [Procs -> Operation]
  BY <1>0, OpTypes DEF IInv, Types, Import, Starts, At
<1>2. UNCHANGED <<disk, stamp, cfg, records, seen>>
  BY DEF Import, file, copy, skillState
<1>3. PICK s \in Skills :
        /\ trusted' = trusted \ {s}
        /\ \/ /\ dirs' = dirs \cup {s} /\ skillMu' = p
              /\ Set(p, [op[p] EXCEPT !.kind = "import", !.skill = s, !.pc = "reload", !.todo = t])
           \/ history' = [history EXCEPT !["stayed"] = TRUE]
  BY DEF Import, ImportSteps
<1>4. history' # [history EXCEPT !["stayed"] = TRUE]
  BY DEF Calm, IInv, Types, Happenings
<1>. DEFINE r == [op[p] EXCEPT !.kind = "import", !.skill = s, !.pc = "reload", !.todo = t]
<1>5. op' = [op EXCEPT ![p] = r] /\ dirs' = dirs \cup {s} /\ skillMu' = p
  BY <1>3, <1>4 DEF Set
<1>6. t = Importing
  BY DEF Importing
<1>. HIDE DEF t
<1>7. r.pc = "reload" /\ r.kind = "import" /\ r.skill = s /\ r.todo = t
  BY <1>1 DEF Operation
<1>. HIDE DEF r
<1>8. \A q \in Procs : op'[q] = IF q = p THEN r ELSE op[q]
  BY <1>1, <1>5
<1>9. \A q \in Procs : ~Undecided(op[q])
  BY <1>0, <1>1 DEF Trusting, OpTrusted, PlanOf
<1>10. FineOnDisk(s)' /\ FineInCopy(s)' /\ FineInMind(s)'
  <2>1. Undecided(op[p])' /\ op'[p].skill = s /\ op'[p].pc = "reload"
    BY <1>0, <1>6, <1>7, <1>8 DEF Undecided
  <2>. QED BY <1>0, <2>1 DEF FineOnDisk, FineInCopy, FineInMind, OffOnDisk, OffInCopy
<1>11. \A x : x # s /\ (FineOnDisk(x) \/ FineInCopy(x) \/ FineInMind(x)) => x \in trusted'
  BY <1>3, <1>9 DEF FineOnDisk, FineInCopy, FineInMind
<1>12. KeepsDisk /\ KeepsCopy /\ KeepsMind
  <2>1. \A x : x \in trusted' => FineOnDisk(x)' /\ FineInCopy(x)' /\ FineInMind(x)'
    BY DEF FineOnDisk, FineInCopy, FineInMind
  <2>. QED BY <1>5, <1>10, <1>11, <2>1 DEF KeepsDisk, KeepsCopy, KeepsMind
<1>13. ASSUME NEW q \in Procs, q # p
       PROVE  OpTrusted(q, op[q])'
  <2>1. SameOp(q)
    BY <1>8, <1>13 DEF SameOp
  <2>2. skillMu' = q <=> skillMu = q
    BY <1>0, <1>1, <1>5, <1>13
  <2>. QED BY <1>2, <1>5, <1>12, <2>1, <2>2, OtherTrusts
<1>14. OpTrusted(p, op[p])'
  <2>1. op'[p].pc = "reload" /\ op'[p].kind = "import" /\ op'[p].skill = s /\ op'[p].todo = Importing
    BY <1>0, <1>6, <1>7, <1>8
  <2>. QED BY <1>0, <1>5, <2>1, ImportTodos DEF OpTrusted, PlanOf, Promise
<1>15. DiskTrusted' /\ CopyTrusted' /\ MindTrusted'
  <2>1. Pending => Pending'
    BY <1>1, <1>2, <1>8 DEF Pending, At
  <2>2. MindTrusted'
    BY <1>2, <1>5, <1>12 DEF Trusting, MindTrusted, KeepsMind
  <2>. QED BY <1>2, <1>12, <2>1, <2>2, KeepSafe DEF Trusting, DiskTrusted, CopyTrusted
<1>. QED BY <1>13, <1>14, <1>15 DEF Trusting

\* The user places a skill by hand, and thereby agrees to it.
LEMMA PlaceTrusts ==
  ASSUME IInv, Trusting, Place
  PROVE  Trusting'
<1>1. UNCHANGED <<op, disk, stamp, cfg, records, seen, skillMu>>
  BY DEF Place, file, copy, skillState, locks
<1>2. PICK s \in Skills : dirs' = dirs \cup {s} /\ trusted' = trusted \cup {s}
  BY DEF Place
<1>3. KeepsDisk /\ KeepsCopy /\ KeepsMind
  BY <1>1, <1>2 DEF KeepsDisk, KeepsCopy, KeepsMind, FineOnDisk, FineInCopy, FineInMind
<1>4. ASSUME NEW q \in Procs
      PROVE  OpTrusted(q, op[q])'
  <2>1. SameOp(q)
    BY <1>1 DEF SameOp
  <2>. QED BY <1>1, <1>2, <1>3, <2>1, OtherTrusts
<1>5. DiskTrusted' /\ CopyTrusted' /\ MindTrusted'
  <2>1. Pending => Pending'
    BY <1>1 DEF Pending, At
  <2>2. MindTrusted'
    BY <1>1, <1>2, <1>3 DEF Trusting, MindTrusted, KeepsMind
  <2>. QED BY <1>1, <1>3, <2>1, <2>2, KeepSafe DEF Trusting, DiskTrusted, CopyTrusted
<1>. QED BY <1>4, <1>5 DEF Trusting

\* A step that moves one operation with no import to decide, and marks others.
LEMMA SameKeeps ==
  ASSUME NEW p, \A q \in Procs : q # p => SameOp(q), p \in Procs => ~Undecided(op[p]),
         UNCHANGED dirs, trusted \subseteq trusted'
  PROVE  KeepsDisk /\ KeepsCopy /\ KeepsMind
<1>1. \A s : FineOnDisk(s) => FineOnDisk(s)'
  BY DEF FineOnDisk, SameOp, Undecided, OffOnDisk
<1>2. \A s : FineInCopy(s) => FineInCopy(s)'
  BY DEF FineInCopy, SameOp, Undecided, OffInCopy
<1>3. \A s : FineInMind(s) => FineInMind(s)'
  BY DEF FineInMind, SameOp, Undecided
<1>. QED BY <1>1, <1>2, <1>3 DEF KeepsDisk, KeepsCopy, KeepsMind

\* The others after a write.
LEMMA WriterOthers ==
  ASSUME Types, NEW p \in Procs, NEW locked \in BOOLEAN, NEW s \in Stages,
         op' = [Noticed(p, locked) EXCEPT ![p].pc = s, ![p].stamp = stamp + 1]
  PROVE  /\ \A q \in Procs : q # p => SameOp(q)
         /\ op'[p].pc = s /\ op'[p].stamp = stamp + 1 /\ op'[p].todo = op[p].todo /\ op'[p].intent = op[p].intent
         /\ op'[p].new = op[p].new /\ op'[p].key = op[p].key /\ op'[p].backup = op[p].backup
         /\ op'[p].kind = op[p].kind /\ op'[p].skill = op[p].skill
<1>1. \A q \in Procs :
        /\ op'[q].pc = (IF q = p THEN s ELSE op[q].pc)
        /\ op'[q].stamp = (IF q = p THEN stamp + 1 ELSE op[q].stamp)
        /\ op'[q].todo = op[q].todo /\ op'[q].intent = op[q].intent /\ op'[q].new = op[q].new
        /\ op'[q].key = op[q].key /\ op'[q].backup = op[q].backup
  BY WriterFacts
<1>2. ASSUME NEW q \in Procs
      PROVE  op'[q].kind = op[q].kind /\ op'[q].skill = op[q].skill
  BY WriterMarks
<1>. QED BY <1>1, <1>2 DEF SameOp

\* What mcp.toggle writes has the records that are on disk, unless the write is blind.
LEMMA ToggleSkills ==
  ASSUME IInv, NEW p \in Procs, op[p].intent.what = "toggle", op[p].new = Effect(op[p].intent, disk)
  PROVE  op[p].new.skills = disk.skills
BY DEF Effect, IInv, Types, Contents

\* The copy and the skill runtime, when they stay as they are.
LEMMA CopyStays ==
  ASSUME Trusting, KeepsCopy, KeepsMind, UNCHANGED <<dirs, cfg, records, seen>>
  PROVE  CopyTrusted' /\ MindTrusted'
BY KeepSafe DEF Trusting, CopyTrusted, MindTrusted, KeepsMind

\* mcp.toggle truncates the file, and is about to write its records back.
LEMMA TruncateTrusts ==
  ASSUME IInv, Informed, Trusting, NEW p \in Ops, Truncate(p), Calm'
  PROVE  Trusting'
<1>0. p \in Procs /\ p # Boot
  BY SettingsAssumption DEF Procs
<1>1. Types /\ op[p].pc = "truncate" /\ op[p].intent.what = "toggle" /\ stamp \in Nat
  BY <1>0 DEF IInv, Types, Stamped, Truncate, At
<1>2. UNCHANGED <<dirs, trusted, cfg, records, seen, skillMu>> /\ stamp' = stamp + 1 /\ disk' = Empty
  BY DEF Truncate, copy, skillState, locks
<1>3. ~Pending /\ op[p].new.skills = disk.skills
  <2>1. Judge(p)
    BY DEF Truncate
  <2>2. ~Pending /\ op[p].new = Effect(op[p].intent, disk)
    BY <1>0, <1>1, <2>1, JudgeFacts DEF Calm
  <2>. QED BY <1>0, <1>1, <2>2, ToggleSkills
<1>4. /\ \A q \in Procs : q # p => SameOp(q)
      /\ op'[p].pc = "write" /\ op'[p].stamp = stamp' /\ op'[p].todo = op[p].todo
      /\ op'[p].new = op[p].new /\ op'[p].kind = op[p].kind
  <2>1. PICK locked \in BOOLEAN : op' = [Noticed(p, locked) EXCEPT ![p].pc = "write", ![p].stamp = stamp + 1]
    BY DEF Truncate
  <2>2. "write" \in Stages
    BY DEF Stages
  <2>. QED BY <1>0, <1>1, <1>2, <2>1, <2>2, WriterOthers
<1>5. ~Undecided(op[p]) /\ ~Undecided(op[p])'
  BY <1>0, <1>1, <1>4, Elsewhere DEF Undecided
<1>6. KeepsDisk /\ KeepsCopy /\ KeepsMind
  BY <1>2, <1>4, <1>5, SameKeeps
<1>7. ASSUME NEW q \in Procs, q # p
      PROVE  OpTrusted(q, op[q])'
  BY <1>2, <1>4, <1>6, <1>7, OtherTrusts
<1>8. OpTrusted(p, op[p])'
  <2>1. SafeOnDisk(disk.skills)
    BY <1>3 DEF Trusting, DiskTrusted
  <2>2. SafeOnDisk(op[p].new.skills)'
    BY <1>3, <1>4, <1>6, <2>1, KeepSafe
  <2>. QED BY <1>0, <1>2, <1>4, <1>5, <2>2 DEF OpTrusted, PlanOf, Promise
<1>9. Pending'
  BY <1>0, <1>4 DEF Pending, At
<1>. QED BY <1>2, <1>6, <1>7, <1>8, <1>9, CopyStays DEF Trusting, DiskTrusted

\* mcp.toggle writes back the records that it has truncated.
LEMMA WriteTrusts ==
  ASSUME IInv, Informed, Trusting, NEW p \in Ops, Write(p), Calm'
  PROVE  Trusting'
<1>0. p \in Procs /\ p # Boot
  BY SettingsAssumption DEF Procs
<1>1. Types /\ op[p].pc = "write" /\ op[p].intent.what = "toggle" /\ OpTrusted(p, op[p]) /\ op \in [Procs -> Operation]
  BY <1>0 DEF IInv, Types, Stamped, Trusting, Write, At
<1>2. UNCHANGED <<dirs, trusted, cfg, records, seen, skillMu>> /\ stamp' = stamp + 1 /\ disk' = op[p].new
  BY DEF Write, copy, skillState, locks
<1>3. SafeOnDisk(op[p].new.skills)
  <2>1. CASE stamp = op[p].stamp
    BY <1>1, <2>1 DEF OpTrusted, Promise
  <2>2. CASE stamp # op[p].stamp
    <3>1. Judge(p)
      BY <2>2 DEF Write
    <3>2. ~Pending /\ op[p].new = Effect(op[p].intent, disk)
      BY <1>0, <1>1, <3>1, JudgeFacts DEF Calm
    <3>3. op[p].new.skills = disk.skills
      BY <1>0, <1>1, <3>2, ToggleSkills
    <3>. QED BY <3>2, <3>3 DEF Trusting, DiskTrusted
  <2>. QED BY <2>1, <2>2
<1>4. (\A q \in Procs : q # p => SameOp(q)) /\ op'[p] = Finished
  <2>1. PICK locked \in BOOLEAN : op' = [Noticed(p, locked) EXCEPT ![p] = Finished]
    BY DEF Write
  <2>. DEFINE N == Noticed(p, locked)
  <2>2. N \in [Procs -> Operation] /\ \A q \in Procs :
          /\ N[q].pc = op[q].pc /\ N[q].kind = op[q].kind /\ N[q].todo = op[q].todo /\ N[q].intent = op[q].intent
          /\ N[q].new = op[q].new /\ N[q].key = op[q].key /\ N[q].backup = op[q].backup /\ N[q].stamp = op[q].stamp
    BY <1>1, NoticedFacts
  <2>3. ASSUME NEW q \in Procs
        PROVE  N[q].skill = op[q].skill
    BY <1>1, NoticedMarks
  <2>. HIDE DEF N
  <2>4. \A q \in Procs : op'[q] = IF q = p THEN Finished ELSE N[q]
    BY <2>1, <2>2 DEF N
  <2>. QED BY <1>0, <2>2, <2>3, <2>4 DEF SameOp
<1>5. ~Undecided(op[p])
  BY <1>0, <1>1, Elsewhere
<1>6. KeepsDisk /\ KeepsCopy /\ KeepsMind
  BY <1>2, <1>4, <1>5, SameKeeps
<1>7. ASSUME NEW q \in Procs, q # p
      PROVE  OpTrusted(q, op[q])'
  BY <1>2, <1>4, <1>6, <1>7, OtherTrusts
<1>8. OpTrusted(p, op[p])'
  BY <1>0, <1>4, FinishedKnows, IdleTrusts DEF Undecided
<1>9. DiskTrusted'
  BY <1>2, <1>3, <1>6, KeepSafe DEF DiskTrusted
<1>. QED BY <1>2, <1>6, <1>7, <1>8, <1>9, CopyStays DEF Trusting

\* The user edits the file: the records stay as they are.
LEMMA EditTrusts ==
  ASSUME IInv, Informed, Trusting, Edit
  PROVE  Trusting'
<1>0. Types /\ op \in [Procs -> Operation] /\ None \notin Procs /\ disk \in Contents
  BY SettingsAssumption DEF IInv, Types, Procs
<1>1. UNCHANGED <<dirs, trusted, cfg, records, seen, skillMu>> /\ stamp' = stamp + 1 /\ disk # Empty
  BY DEF Edit, copy, skillState, locks
<1>2. disk'.skills = disk.skills
  BY <1>0 DEF Edit, Effect, Contents
<1>3. \A q \in Procs : SameOp(q)
  <2>1. PICK locked \in BOOLEAN : op' = Noticed(None, locked)
    BY DEF Edit
  <2>2. \A q \in Procs :
          /\ op'[q].pc = op[q].pc /\ op'[q].kind = op[q].kind /\ op'[q].todo = op[q].todo /\ op'[q].intent = op[q].intent
          /\ op'[q].new = op[q].new /\ op'[q].key = op[q].key /\ op'[q].backup = op[q].backup /\ op'[q].stamp = op[q].stamp
    BY <1>0, <2>1, NoticedFacts
  <2>3. ASSUME NEW q \in Procs
        PROVE  op'[q].skill = op[q].skill
    BY <1>0, <2>1, NoticedMarks
  <2>. QED BY <2>2, <2>3 DEF SameOp
<1>4. KeepsDisk /\ KeepsCopy /\ KeepsMind
  BY <1>0, <1>1, <1>3, SameKeeps
<1>5. ASSUME NEW q \in Procs
      PROVE  OpTrusted(q, op[q])'
  BY <1>1, <1>3, <1>4, OtherTrusts
<1>6. ~Pending
  BY <1>1 DEF Pending, At, Trusting, OpTrusted, PlanOf
<1>7. DiskTrusted'
  BY <1>2, <1>4, <1>6, KeepSafe DEF Trusting, DiskTrusted
<1>. QED BY <1>1, <1>4, <1>5, <1>7, CopyStays DEF Trusting

\* The configuration is renamed: what enables a skill was asked for, what an import
\* disables is off.
LEMMA RenameConfigTrusts ==
  ASSUME IInv, Informed, Trusting, NEW p \in Procs, RenameConfig(p)
  PROVE  Trusting'
<1>1. Types /\ op[p].pc = "commit" /\ configMu = p /\ PlanOf(p, op[p]) /\ Promise(p, op[p])
  BY DEF IInv, Holder, Trusting, OpTrusted, RenameConfig, Ready, At
<1>2. UNCHANGED <<dirs, cfg, records, seen, skillMu>> /\ stamp' = stamp + 1 /\ disk' = op[p].new
  BY DEF RenameConfig, copy, skillState, locks
<1>3. trusted \subseteq trusted' /\ \A s : Asked(op[p], s) => s \in trusted'
  BY DEF RenameConfig, Asked
<1>4. /\ \A q \in Procs : q # p => SameOp(q)
      /\ op'[p].pc = "publish" /\ op'[p].todo = op[p].todo /\ op'[p].intent = op[p].intent
      /\ op'[p].new = op[p].new /\ op'[p].kind = op[p].kind /\ op'[p].skill = op[p].skill
  <2>1. PICK locked \in BOOLEAN : op' = [Noticed(p, locked) EXCEPT ![p].pc = "publish", ![p].stamp = stamp + 1]
    BY DEF RenameConfig
  <2>2. "publish" \in Stages
    BY DEF Stages
  <2>. QED BY <1>1, <2>1, <2>2, WriterOthers
<1>5. \A s : FineInCopy(s) => FineInCopy(s)'
  BY <1>1, <1>3, <1>4 DEF FineInCopy, SameOp, Undecided, OffInCopy
<1>6. \A s : FineInMind(s) => FineInMind(s)'
  BY <1>3, <1>4 DEF FineInMind, SameOp, Undecided
<1>7. \A s : FineOnDisk(s) => FineOnDisk(s)' \/ (Undecided(op[p]) /\ op[p].todo = Imported /\ op[p].skill = s)
  BY <1>1, <1>3, <1>4 DEF FineOnDisk, SameOp, Undecided, OffOnDisk
<1>8. KeepsCopy /\ KeepsMind
  BY <1>2, <1>5, <1>6 DEF KeepsCopy, KeepsMind
<1>9. Undecided(op[p]) => skillMu = p
  BY <1>1 DEF PlanOf
<1>10. ~Undecided(op[p]) => KeepsDisk
  BY <1>2, <1>7 DEF KeepsDisk
<1>11. ASSUME NEW q \in Procs, q # p
       PROVE  OpTrusted(q, op[q])'
  <2>1. op[q].pc # "commit" /\ SameOp(q)
    BY <1>1, <1>4, <1>11 DEF IInv, Holder
  <2>. QED BY <1>2, <1>8, <1>9, <1>10, <1>11, <2>1, OtherTrusts
<1>12. DiskTrusted'
  <2>1. \A s \in dirs : op[p].new.skills[s] = "off" \/ FineOnDisk(s)'
    <3>1. \A s : s \in trusted' => FineOnDisk(s)'
      BY DEF FineOnDisk
    <3>2. Undecided(op[p]) /\ op[p].todo = Imported => op[p].new.skills[op[p].skill] = "off"
      BY <1>1 DEF PlanOf
    <3>. QED BY <1>1, <1>3, <1>7, <3>1, <3>2 DEF Promise
  <2>. QED BY <1>2, <2>1 DEF DiskTrusted, SafeOnDisk
<1>13. Promise(p, op[p])'
  <2>1. \A s \in dirs : op[p].new.skills[s] = "off" \/ FineInCopy(s)'
    <3>1. \A s : s \in trusted' => FineInCopy(s)'
      BY DEF FineInCopy
    <3>. QED BY <1>1, <1>3, <1>5, <3>1, FineOrder DEF Promise
  <2>. QED BY <1>2, <1>4, <2>1 DEF Promise, SafeInCopy
<1>14. PlanOf(p, op[p])'
  <2>1. Undecided(op[p])' => Undecided(op[p])
    BY <1>4 DEF Undecided
  <2>. QED BY <1>1, <1>2, <1>4, <2>1 DEF PlanOf
<1>. QED BY <1>2, <1>8, <1>11, <1>12, <1>13, <1>14, CopyStays DEF Trusting, OpTrusted

\* The copy follows what was committed.
LEMMA PublishTrusts ==
  ASSUME IInv, Informed, Trusting, NEW p \in Procs, Publish(p)
  PROVE  Trusting'
<1>. DEFINE t == <<"reload", "servers", "done">>
            a == [op[p] EXCEPT !.pc = "apply"]
            b == [op[p] EXCEPT !.pc = "refresh", !.todo = t]
<1>1. /\ op[p] \in Operation /\ op[p].pc = "publish" /\ configMu = p /\ Knows(op[p])
      /\ PlanOf(p, op[p]) /\ SafeInCopy(op[p].new.skills)
  BY OpTypes DEF IInv, Holder, Informed, Trusting, OpTrusted, Promise, Publish, At
<1>2. UNCHANGED <<dirs, trusted, disk, stamp, records, seen, skillMu>> /\ cfg' = op[p].new
  BY DEF Publish, file, skillState
<1>3. \A q \in Procs : q # p => op[q].pc # "publish"
  BY <1>1 DEF IInv, Holder
<1>4. CASE op[p].intent.what \in {"adopt", "record"} /\ Set(p, a)
  <2>1. \A q \in Procs : op'[q] = IF q = p THEN a ELSE op[q]
    BY <1>4 DEF Set, IInv, Types
  <2>2. /\ a.pc = "apply" /\ a.kind = op[p].kind /\ a.todo = op[p].todo /\ a.skill = op[p].skill
        /\ a.new = op[p].new /\ a.intent = op[p].intent
    BY <1>1 DEF Operation
  <2>. HIDE DEF a
  <2>3. \A s : FineOnDisk(s) => FineOnDisk(s)'
    BY <1>1, <1>2, <2>1, <2>2 DEF FineOnDisk, Undecided, OffOnDisk
  <2>4. \A s : FineInMind(s) => FineInMind(s)'
    BY <1>2, <2>1, <2>2 DEF FineInMind, Undecided
  <2>5. \A s : FineInCopy(s) => FineInCopy(s)' \/ (Undecided(op[p]) /\ op[p].todo = Imported /\ op[p].skill = s)
    BY <1>2, <2>1, <2>2 DEF FineInCopy, Undecided, OffInCopy
  <2>6. KeepsDisk /\ KeepsMind
    BY <1>2, <2>3, <2>4 DEF KeepsDisk, KeepsMind
  <2>7. CopyTrusted'
    <3>1. Undecided(op[p]) /\ op[p].todo = Imported => op[p].new.skills[op[p].skill] = "off"
      BY <1>1 DEF PlanOf
    <3>. QED BY <1>1, <1>2, <2>5, <3>1 DEF CopyTrusted, SafeInCopy
  <2>8. ASSUME NEW q \in Procs, q # p
        PROVE  OpTrusted(q, op[q])'
    <3>1. SameOp(q)
      BY <2>1, <2>8 DEF SameOp
    <3>. QED BY <1>2, <1>3, <2>6, <2>8, <3>1, OtherTrusts
  <2>9. op'[p].pc = "apply" /\ op'[p].kind = op[p].kind /\ op'[p].todo = op[p].todo /\ op'[p].skill = op[p].skill
        /\ op'[p].new = op[p].new /\ op'[p].intent = op[p].intent
    BY <2>1, <2>2
  <2>10. PlanOf(p, op[p])'
    <3>1. Undecided(op[p])' => Undecided(op[p])
      BY <2>9 DEF Undecided
    <3>. QED BY <1>1, <1>2, <2>9, <3>1 DEF PlanOf
  <2>11. Promise(p, op[p])'
    <3>1. SafeInMind(op[p].new.skills)
      BY <1>1, FineOrder DEF SafeInCopy, SafeInMind
    <3>2. SafeInMind(op[p].new.skills)'
      BY <2>6, <2>9, <3>1, KeepSafe
    <3>. QED BY <2>9, <3>2 DEF Promise
  <2>12. DiskTrusted'
    <3>1. Pending => Pending'
      BY <1>1, <1>2, <2>1 DEF Pending, At
    <3>. QED BY <1>2, <2>6, <3>1, KeepSafe DEF Trusting, DiskTrusted
  <2>13. MindTrusted'
    BY <1>2, <2>6 DEF Trusting, MindTrusted, KeepsMind
  <2>. QED BY <2>7, <2>8, <2>10, <2>11, <2>12, <2>13 DEF Trusting, OpTrusted
<1>5. CASE op[p].intent.what \notin {"adopt", "record"} /\ Set(p, b)
  <2>. HIDE DEF t
  <2>1. op' = [op EXCEPT ![p] = b] /\ op'[p].pc = "refresh" /\ op'[p].kind = op[p].kind
    BY <1>1, <1>5 DEF Set, IInv, Types, Operation
  <2>. HIDE DEF b
  <2>2. ~Skips(op[p]) /\ ~Undecided(op[p])
    BY <1>1, <1>5, Elsewhere DEF Knows, Course
  <2>3. OpTrusted(p, op[p])'
    BY <2>1, <2>2, IdleTrusts DEF Undecided, Skips
  <2>4. Stays(op[p], b)
    BY <2>2 DEF Stays
  <2>5. KeepsCopy /\ KeepsMind
    BY <1>2, <2>1, <2>4, StaysKeeps
  <2>6. CopyTrusted'
    BY <1>1, <1>2, <2>5, KeepSafe DEF CopyTrusted
  <2>7. MindTrusted'
    BY <1>2, <2>5 DEF Trusting, MindTrusted, KeepsMind
  <2>. QED BY <1>1, <1>2, <2>1, <2>3, <2>4, <2>6, <2>7, TrustStep
<1>. QED BY <1>4, <1>5 DEF Publish, Go

\* What a restart forgets, and whom it stops.
LEMMA RestartCalm ==
  ASSUME IInv, Restart, Calm'
  PROVE  Configured(disk) /\ (\A q \in Ops : op[q].kind # "import") /\ Calm
<1>. DEFINE f == ~Configured(disk)
            k == given /\ ~key
            s == \E p \in Ops : op[p].kind = "import"
            F == history["forgot"] \/ f
            K == history["keyless"] \/ k
            S == history["stayed"] \/ s
<1>1. history' = [[[history EXCEPT !["forgot"] = F] EXCEPT !["keyless"] = K] EXCEPT !["stayed"] = S]
  BY DEF Restart
<1>2. (f => F) /\ (s => S) /\ (history.forgot => F) /\ (history.stayed => S)
  OBVIOUS
<1>3. ~f => Configured(disk)
  OBVIOUS
<1>4. ~s => \A q \in Ops : op[q].kind # "import"
  OBVIOUS
<1>. HIDE DEF f, k, s, F, K, S
<1>5. history'.forgot = F /\ history'.stayed = S /\ history'.blind = history.blind /\ history'.stale = history.stale
  BY <1>1 DEF IInv, Types, Happenings
<1>6. ~F /\ ~S
  BY <1>5 DEF Calm
<1>. QED BY <1>2, <1>3, <1>4, <1>5, <1>6 DEF Calm

\* The daemon starts again while nobody imports, with what is on disk.
LEMMA RestartTrusts ==
  ASSUME IInv, Informed, Trusting, Restart, Calm'
  PROVE  Trusting'
<1>1. /\ cfg' = Loaded(disk) /\ records' = cfg'.skills /\ seen' = {}
      /\ UNCHANGED <<disk, stamp, dirs, trusted>>
  BY DEF Restart, file
<1>2. op' = [q \in Procs |-> IF q = Boot THEN Booting ELSE IF op[q].pc = "none" THEN Idle ELSE Finished]
  BY DEF Restart, At
<1>3. Configured(disk) /\ \A q \in Ops : op[q].kind # "import"
  BY RestartCalm
<1>4. \A q \in Procs : ~Undecided(op[q])
  BY <1>3 DEF Undecided, Procs, Trusting, OpTrusted, PlanOf
<1>5. ~Pending
  <2>. SUFFICES ASSUME Pending PROVE FALSE
    OBVIOUS
  <2>1. disk = Empty
    BY DEF Pending, At, Trusting, OpTrusted, PlanOf
  <2>. QED BY <1>3, <2>1 DEF Configured, Empty
<1>6. \A s \in dirs : disk.skills[s] = "off" \/ s \in trusted
  BY <1>4, <1>5 DEF Trusting, DiskTrusted, SafeOnDisk, FineOnDisk
<1>7. DiskTrusted'
  BY <1>1, <1>6 DEF DiskTrusted, SafeOnDisk, FineOnDisk
<1>8. CopyTrusted'
  BY <1>1, <1>3, <1>6 DEF CopyTrusted, SafeInCopy, FineInCopy, Loaded
<1>9. MindTrusted'
  BY <1>1 DEF MindTrusted
<1>10. ASSUME NEW q \in Procs
       PROVE  OpTrusted(q, op[q])'
  <2>1. op'[q].pc \in {"none", "done", "reload"} /\ op'[q].kind \in {"none", "boot"}
    BY <1>2 DEF Booting, Idle, Finished
  <2>. QED BY <2>1, IdleTrusts DEF Undecided
<1>. QED BY <1>3, <1>7, <1>8, <1>9, <1>10 DEF Trusting

\* A daemon that has started has enabled what the user agreed to.
LEMMA InitTrusts == Init => Trusting
<1>. SUFFICES ASSUME Init PROVE Trusting
  OBVIOUS
<1>1. /\ disk \in Contents /\ dirs = {s \in Skills : disk.skills[s] # "none"}
      /\ cfg = disk /\ records = disk.skills /\ seen = dirs /\ trusted = {s \in Skills : disk.skills[s] = "on"}
  BY DEF Init
<1>2. \A s \in dirs : disk.skills[s] = "off" \/ s \in trusted
  BY <1>1 DEF Contents
<1>3. DiskTrusted /\ CopyTrusted /\ MindTrusted
  BY <1>1, <1>2 DEF DiskTrusted, CopyTrusted, MindTrusted, SafeOnDisk, SafeInCopy, FineOnDisk, FineInCopy, FineInMind
<1>4. ASSUME NEW q \in Procs
      PROVE  OpTrusted(q, op[q])
  <2>1. op[q].pc \in {"none", "done"} /\ op[q].kind = "none"
    BY DEF Init, Finished, Idle
  <2>. QED BY <2>1 DEF OpTrusted, PlanOf, Promise, Undecided
<1>. QED BY <1>3, <1>4 DEF Trusting

\* A step that the property excepts stays excepted.
LEMMA CalmBefore ==
  ASSUME IInv, [Next]_vars, Calm', ~Restart
  PROVE  Calm
<1>0. Types
  BY DEF IInv
<1>1. ASSUME NEW p \in Procs, Judge(p) PROVE Calm
  BY <1>0, <1>1, JudgeFacts DEF Calm
<1>3. ASSUME NEW p \in Procs, Committing(p) PROVE Calm
  <2>1. RenameKey(p) => Calm
    BY DEF RenameKey, ghosts, Calm
  <2>2. RenameConfig(p) => Calm
    BY <1>1 DEF RenameConfig
  <2>3. CommitFails(p) => Calm
    <3>. SUFFICES ASSUME CommitFails(p) PROVE Calm
      OBVIOUS
    <3>. DEFINE b == op[p].kind = "import"
    <3>1. history' = [history EXCEPT !["stayed"] = history["stayed"] \/ b] /\ b \in BOOLEAN
      BY DEF CommitFails
    <3>. HIDE DEF b
    <3>. QED BY <3>1, GrowsOne
  <2>4. Publish(p) => Calm
    <3>. SUFFICES ASSUME Publish(p) PROVE Calm
      OBVIOUS
    <3>. DEFINE b == stamp # op[p].stamp
    <3>1. history' = [history EXCEPT !["late"] = history["late"] \/ b] /\ b \in BOOLEAN
      BY DEF Publish
    <3>. HIDE DEF b
    <3>. QED BY <3>1, GrowsOne
  <2>. QED BY <1>3, <2>1, <2>2, <2>3, <2>4 DEF Committing
<1>4. ASSUME NEW p \in Procs, Reloading(p) PROVE Calm
  <2>1. Refresh(p) \/ Reload(p) \/ Adopt(p) \/ Servers(p) => Calm
    BY DEF Refresh, Reload, Adopt, Servers, ghosts, Calm
  <2>2. Apply(p) => Calm
    <3>. SUFFICES ASSUME Apply(p) PROVE Calm
      OBVIOUS
    <3>. DEFINE b == skillMu # p /\ op[p].new.skills # cfg.skills
    <3>1. history' = [history EXCEPT !["stale"] = history["stale"] \/ b] /\ b \in BOOLEAN
      BY DEF Apply
    <3>. HIDE DEF b
    <3>. QED BY <3>1, GrowsOne
  <2>. QED BY <1>4, <2>1, <2>2 DEF Reloading
<1>5. ASSUME NEW p \in Ops, Request(p) PROVE Calm
  <2>0. p \in Procs
    BY DEF Procs
  <2>1. Gate(p) \/ Update(p) \/ Snapshot(p) \/ SetSkill(p) => Calm
    BY DEF Gate, Update, Snapshot, SetSkill, ghosts, Calm
  <2>2. Truncate(p) \/ Write(p) => Calm
    BY <1>1, <2>0 DEF Truncate, Write, Calm
  <2>3. Toggle(p) => Calm
    <3>. SUFFICES ASSUME Toggle(p) PROVE Calm
      OBVIOUS
    <3>1. history' = [history EXCEPT !["early"] = history["early"] \/ shared] \/ UNCHANGED history
      BY DEF Toggle
    <3>2. shared \in BOOLEAN
      BY <1>0 DEF Types
    <3>. QED BY <3>1, <3>2, GrowsOne DEF Calm
  <2>. QED BY <1>5, <2>1, <2>2, <2>3 DEF Request
<1>6. ASSUME NEW p \in Ops, Workflow(p) PROVE Calm
  <2>1. Check(p) \/ Off(p) \/ Ask(p) \/ Enable(p) => Calm
    BY DEF Check, Off, Ask, Enable, ghosts, Calm
  <2>2. Import(p) => Calm
    <3>. SUFFICES ASSUME Import(p) PROVE Calm
      OBVIOUS
    <3>1. PICK b \in BOOLEAN : history' = [history EXCEPT !["stayed"] = history["stayed"] \/ b]
      <4>1. PICK s \in Skills :
              \/ history' = [history EXCEPT !["stayed"] = history["stayed"] \/ \E q \in Ops : op[q].skill = s]
              \/ history' = [history EXCEPT !["stayed"] = TRUE]
        BY DEF Import
      <4>. DEFINE b == \E q \in Ops : op[q].skill = s
      <4>2. b \in BOOLEAN
        OBVIOUS
      <4>. HIDE DEF b
      <4>3. history["stayed"] \/ TRUE <=> TRUE
        OBVIOUS
      <4>. QED BY <4>1, <4>2, <4>3 DEF b
    <3>. QED BY <3>1, GrowsOne
  <2>. QED BY <1>6, <2>1, <2>2 DEF Workflow
<1>7. Edit => Calm
  <2>. SUFFICES ASSUME Edit PROVE Calm
    OBVIOUS
  <2>. DEFINE b == ~(key /\ given)
  <2>1. history' = [history EXCEPT !["keyless"] = history["keyless"] \/ b] /\ b \in BOOLEAN
    BY DEF Edit
  <2>. HIDE DEF b
  <2>. QED BY <2>1, GrowsOne
<1>8. Place \/ UNCHANGED vars => Calm
  BY DEF Place, vars, ghosts, Calm
<1>. QED BY <1>3, <1>4, <1>5, <1>6, <1>7, <1>8 DEF Next

\* No step lets the model load what the user has not agreed to.
LEMMA NextTrusts ==
  IInv /\ Informed /\ (Calm => Trusting) /\ [Next]_vars => (Calm => Trusting)'
<1>. SUFFICES ASSUME IInv, Informed, Calm => Trusting, [Next]_vars, Calm'
             PROVE  Trusting'
  OBVIOUS
<1>0. CASE Restart
  BY <1>0, RestartCalm, RestartTrusts
<1>. SUFFICES ASSUME ~Restart, Calm, Trusting PROVE Trusting'
  BY <1>0, CalmBefore
<1>1. ASSUME NEW p \in Procs, Committing(p) PROVE Trusting'
  BY <1>1, RenameKeyTrusts, RenameConfigTrusts, CommitFailsTrusts, PublishTrusts DEF Committing
<1>2. ASSUME NEW p \in Procs, Reloading(p) PROVE Trusting'
  BY <1>2, RefreshTrusts, ReloadTrusts, AdoptTrusts, ApplyTrusts, ServersTrusts DEF Reloading
<1>3. ASSUME NEW o \in Ops, Request(o) PROVE Trusting'
  <2>. o \in Procs
    BY DEF Procs
  <2>. QED BY <1>3, GateTrusts, UpdateTrusts, ToggleTrusts, TruncateTrusts, WriteTrusts, SkillTrusts DEF Request
<1>4. ASSUME NEW o \in Ops, Workflow(o) PROVE Trusting'
  <2>. o \in Procs
    BY DEF Procs
  <2>. QED BY <1>4, ImportTrusts, CheckTrusts, SkillTrusts, AskTrusts DEF Workflow
<1>5. ASSUME UNCHANGED vars PROVE Trusting'
  BY <1>5 DEF vars, file, copy, skillState, locks, ghosts, Trusting, DiskTrusted, CopyTrusted, MindTrusted, OpTrusted,
              PlanOf, Promise, SafeOnDisk, SafeInCopy, SafeInMind, FineOnDisk, FineInCopy, FineInMind, Pending, At
<1>. QED BY <1>1, <1>2, <1>3, <1>4, <1>5, EditTrusts, PlaceTrusts DEF Next

\* While nobody holds the skill runtime's lock no import is undecided.
LEMMA TrustedFromInv == (Calm => Trusting) => EnabledIsTrusted
<1>. SUFFICES ASSUME Calm => Trusting, skillMu = None, Calm, NEW s \in seen, records[s] = "on"
             PROVE  s \in trusted
  BY DEF EnabledIsTrusted, Calm
<1>1. \A p \in Procs : ~Undecided(op[p])
  BY SettingsAssumption DEF Procs, Trusting, OpTrusted, PlanOf
<1>. QED BY <1>1 DEF Trusting, MindTrusted, FineInMind

\* The model can load a skill only after the user agreed to its content, by
\* enabling it or by placing it there (skill/import.go importLocal, workflow.go
\* finishStart, runtime.go syncStoreLocked, setEnabledLocked), but for imports that
\* fail, are cut off by a restart or overlap, and for what blind writes, truncated
\* files and records applied out of order enable.
THEOREM TrustedCorrect == Spec => []EnabledIsTrusted
<1>1. Init => IInv /\ Informed /\ NothingLost /\ (Calm => Trusting)
  BY InitSafe, InitLearn, InitTrusts
<1>2. (IInv /\ Informed /\ NothingLost /\ (Calm => Trusting)) /\ [Next]_vars
        => (IInv /\ Informed /\ NothingLost /\ (Calm => Trusting))'
  BY NextSafe, NextLearns, NextTrusts
<1>. QED BY <1>1, <1>2, TrustedFromInv, PTL DEF Spec
=============================================================================
