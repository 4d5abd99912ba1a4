------------------------------ MODULE Settings ------------------------------
(***************************************************************************)
(* The settings and their writers.  config.toml (models, an MCP server,    *)
(* records of skills) and credentials.toml are on disk; the agent keeps a  *)
(* copy of the first, the MCP runtime and the skill runtime keep parts of  *)
(* that.  Written by: config.set and the skill runtime, under the          *)
(* configuration lock, staged and renamed; mcp.toggle, without the lock    *)
(* and in place; the user, in an editor.  Every request first looks        *)
(* whether the file is newer than the copy; a run's skill_start does not.  *)
(* The models share one provider, hence one key.                           *)
(***************************************************************************)
EXTENDS Naturals, Sequences, FiniteSets

CONSTANTS
  Ops,       \* bound: requests and runs' skill_start
  Boot,      \* the start of the daemon
  None,
  Models, Skills,
  MaxOutside \* bound: edits of the user, skills placed by hand, restarts

ASSUME SettingsAssumption ==
  /\ Boot \notin Ops /\ None \notin Ops \cup {Boot}
  /\ MaxOutside \in Nat

Procs == Ops \cup {Boot}
Contents == [models : SUBSET Models, mcp : BOOLEAN, skills : [Skills -> {"none", "on", "off"}]]
\* Also what a truncated file says.
Empty == [models |-> {}, mcp |-> FALSE, skills |-> [s \in Skills |-> "none"]]

VARIABLES
  disk, stamp, \* config.toml and its time of modification
  key,         \* credentials.toml has the provider's key
  dirs,        \* skills that are installed
  cfg, known,  \* the agent's copy and the time of modification it stands for
  mcp,         \* the MCP runtime runs the server
  shared,      \* it has the copy's own table of servers
  records,     \* the skill runtime's records
  seen,        \* the skills that it has found
  configMu, skillMu,
  op,          \* the operations
  outside,     \* edits and restarts so far
  trusted,     \* skills whose content the user has agreed to
  given,       \* the key as the accepted updates left it
  lost,        \* a change that the writer could have seen was overwritten
  history      \* what has happened that the properties except

file == <<disk, stamp>>
copy == <<cfg, known, shared>>
skillState == <<records, seen>>
locks == <<configMu, skillMu>>
ghosts == <<trusted, given, lost, history>>
vars == <<file, key, dirs, copy, mcp, skillState, locks, op, outside, ghosts>>

\* kind: the operation; intent: what its current write means to change.
Idle == [pc |-> "none", kind |-> "none", todo |-> <<"done">>, skill |-> None,
         intent |-> [what |-> "none"], new |-> Empty, key |-> FALSE, backup |-> FALSE,
         stamp |-> 0, mcp |-> FALSE, unseen |-> FALSE]
Finished == [Idle EXCEPT !.pc = "done"]
Booting == [Idle EXCEPT !.kind = "boot", !.pc = "reload"]

\* main's loadOrCreateConfig, LoadFromDataDir: without models there is no
\* configuration.
Configured(c) == c.models # {}
Loaded(c) == IF Configured(c) THEN c ELSE Empty

\* Some configuration with the server disabled, in a daemon that has started.
Init ==
  /\ disk \in {c \in Contents : Configured(c) /\ ~c.mcp} /\ stamp = 1 /\ key = TRUE /\ given = TRUE
  /\ dirs = {s \in Skills : disk.skills[s] # "none"}
  /\ cfg = disk /\ known = 1 /\ records = disk.skills /\ seen = dirs
  /\ mcp = FALSE /\ shared \in BOOLEAN
  /\ configMu = None /\ skillMu = None
  /\ op = [p \in Procs |-> IF p = Boot THEN Finished ELSE Idle]
  /\ outside = 0 /\ trusted = {s \in Skills : disk.skills[s] = "on"} /\ lost = FALSE
  /\ history = [e \in {"blind", "late", "forgot", "keyless", "stayed", "stale", "early"} |-> FALSE]

At(p, pc) == op[p].pc = pc
Set(p, r) == op' = [op EXCEPT ![p] = r]
Go(p, pc) == Set(p, [op[p] EXCEPT !.pc = pc])
Starts(p) == At(p, "none") /\ At(Boot, "done")

\* The next step of an operation; from its reload to the record that disables
\* the skill, an import keeps the skill runtime's lock.
Keeps(p) == op[p].kind = "import" /\ Head(op[p].todo) = "off"
Continue(p) ==
  /\ Set(p, IF op[p].todo = <<"done">> THEN Finished
            ELSE [op[p] EXCEPT !.pc = Head(op[p].todo), !.todo = Tail(@)])
  /\ skillMu' = IF skillMu = p /\ ~Keeps(p) THEN None ELSE skillMu
Stop(p) == Set(p, Finished) /\ skillMu' = IF skillMu = p THEN None ELSE skillMu

\* What an intent changes in some content.
Effect(i, c) ==
  CASE i.what = "upsert" -> [c EXCEPT !.models = @ \cup {i.model}]
    [] i.what = "delete" -> [c EXCEPT !.models = @ \ {i.model}]
    [] i.what = "toggle" -> [c EXCEPT !.mcp = i.to]
    [] i.what = "record" -> [c EXCEPT !.skills[i.skill] = i.to]
    [] i.what = "adopt" -> [c EXCEPT !.skills = [s \in Skills |-> IF s \in i.found THEN "on" ELSE @[s]]]

\* A write overwrites what it did not mean to change, or does not wait for one
\* that is half done.  The first counts as lost when the writer, or the copy it
\* started from, could have seen it.
Blind(p) == op[p].new # Effect(op[p].intent, disk)
Pending == \E q \in Procs : At(q, "write") /\ op[q].stamp = stamp
OldCopy(p) == known # stamp /\ op[p].kind \in {"import", "check"}
Excused(p) ==
  \/ op[p].unseen \/ history.late \/ history.forgot \/ history.early
  \/ OldCopy(p)
Judge(p) ==
  /\ lost' = (lost \/ (Blind(p) /\ ~Excused(p)))
  /\ history' = [history EXCEPT !.blind = @ \/ Blind(p) \/ Pending]

\* Operations that cannot see a write by p: the configuration lock keeps
\* others apart, but for those that have read already.
Noticed(p, locked) == [q \in Procs |->
  IF q # p /\ op[q].pc \notin {"none", "done"} /\ (locked => op[q].pc \in {"truncate", "write", "adopt"})
    THEN [op[q] EXCEPT !.unseen = TRUE] ELSE op[q]]

-----------------------------------------------------------------------------
(* stageAndCommitConfig, with the configuration lock                       *)

Take(p, i, new, k) ==
  /\ configMu = None /\ configMu' = p
  /\ Set(p, [op[p] EXCEPT !.pc = "commit", !.intent = i, !.new = new, !.key = k, !.backup = key])

\* Mutant of Ready: the configuration does not wait for the key.
ReadyAnyway(p) == At(p, "commit")
Ready(p) == At(p, "commit") /\ op[p].key = key

\* The credentials first.
RenameKey(p) ==
  /\ At(p, "commit") /\ op[p].key # key
  /\ \/ key' = op[p].key /\ UNCHANGED <<locks, op>>
     \/ configMu' = None /\ Stop(p) /\ UNCHANGED key
  /\ UNCHANGED <<file, dirs, copy, mcp, skillState, outside, ghosts>>

RenameConfig(p) ==
  /\ Ready(p) /\ Judge(p)
  /\ disk' = op[p].new /\ stamp' = stamp + 1 /\ given' = op[p].key
  /\ op' = [Noticed(p, TRUE) EXCEPT ![p].pc = "publish", ![p].stamp = stamp + 1]
  /\ trusted' = IF op[p].intent.what = "record" /\ op[p].intent.to = "on"
                  THEN trusted \cup {op[p].intent.skill} ELSE trusted
  /\ UNCHANGED <<key, dirs, copy, mcp, skillState, locks, outside>>

\* Mutant of Restored: the key is not restored.
RestoredNever(p) == key
Restored(p) == op[p].backup

\* Mutant of Unpublished: the copy is replaced before the commit.
UnpublishedNever(p) == op[p].new
Unpublished(p) == cfg

\* A reload that cannot save its records goes on, and so does a check that
\* cannot disable the skill; everybody else gives up.
Tolerates(p) ==
  IF op[p].intent.what = "adopt" THEN op[p].kind \notin {"import", "check"}
  ELSE op[p].kind = "check" /\ Head(op[p].todo) = "ask"

CommitFails(p) ==
  /\ Ready(p) /\ key' = Restored(p) /\ configMu' = None /\ cfg' = Unpublished(p)
  /\ IF Tolerates(p) THEN Continue(p) ELSE Stop(p)
  /\ history' = [history EXCEPT !.stayed = @ \/ op[p].kind = "import"]
  /\ UNCHANGED <<file, dirs, known, shared, mcp, skillState, outside, trusted, given, lost>>

\* The time of modification is read after the rename.
Publish(p) ==
  /\ At(p, "publish") /\ configMu' = None
  /\ cfg' = op[p].new /\ known' = stamp /\ shared' = FALSE
  /\ history' = [history EXCEPT !.late = @ \/ stamp # op[p].stamp]
  /\ IF op[p].intent.what \in {"adopt", "record"} THEN Go(p, "apply")
     ELSE Set(p, [op[p] EXCEPT !.pc = "refresh", !.todo = <<"reload", "servers", "done">>])
  /\ UNCHANGED <<file, key, dirs, mcp, skillState, skillMu, outside, trusted, given, lost>>

-----------------------------------------------------------------------------
(* ReloadConfigFromDiskIfNeeded, reloadRuntimeConfig                       *)

\* Mutant of Newer: the file is looked at only when there are no models.
NewerNever == ~Configured(cfg)
Newer == stamp > known \/ ~Configured(cfg)

Gate(r) ==
  /\ Starts(r) /\ configMu = None
  /\ IF Newer /\ Configured(disk)
       THEN /\ cfg' = disk /\ known' = stamp /\ shared' = FALSE
            /\ Set(r, [op[r] EXCEPT !.pc = "refresh", !.todo = <<"reload", "servers", "act", "done">>])
       ELSE /\ Set(r, [op[r] EXCEPT !.pc = "act", !.unseen = Newer /\ cfg # disk])
            /\ UNCHANGED copy
  /\ UNCHANGED <<file, key, dirs, mcp, skillState, locks, outside, ghosts>>

\* A copy is taken; what follows works on it without the lock.
Refresh(p) ==
  /\ At(p, "refresh") /\ configMu = None
  /\ Set(p, [op[p] EXCEPT !.pc = "reload", !.todo = Tail(@), !.mcp = cfg.mcp])
  /\ UNCHANGED <<file, key, dirs, copy, mcp, skillState, locks, outside, ghosts>>

\* reloadLocked: skills without a record are enabled (syncStoreLocked).
Reload(p) ==
  /\ At(p, "reload") /\ configMu = None /\ skillMu \in {None, p}
  /\ records' = cfg.skills /\ seen' = dirs
  /\ LET i == [what |-> "adopt", found |-> {s \in dirs : cfg.skills[s] = "none"}]
     IN IF i.found = {} THEN Continue(p)
        ELSE /\ Set(p, [op[p] EXCEPT !.pc = "adopt", !.intent = i, !.new = Effect(i, cfg),
                                  !.unseen = @ \/ OldCopy(p)])
             /\ skillMu' = p
  /\ UNCHANGED <<file, key, dirs, copy, mcp, configMu, outside, ghosts>>

Adopt(p) ==
  /\ At(p, "adopt") /\ Take(p, op[p].intent, [cfg EXCEPT !.skills = op[p].new.skills], key)
  /\ UNCHANGED <<file, key, dirs, copy, mcp, skillState, skillMu, outside, ghosts>>

\* ApplyRecords.  Without the skill runtime's lock the records may be old.
Apply(p) ==
  /\ At(p, "apply") /\ records' = op[p].new.skills /\ Continue(p)
  /\ history' = [history EXCEPT !.stale = @ \/ (skillMu # p /\ op[p].new.skills # cfg.skills)]
  /\ UNCHANGED <<file, key, dirs, copy, mcp, seen, configMu, outside, trusted, given, lost>>

\* mcp.SetConfig
Servers(p) ==
  /\ At(p, "servers") /\ mcp' = op[p].mcp /\ Continue(p)
  /\ UNCHANGED <<file, key, dirs, copy, skillState, configMu, outside, ghosts>>

-----------------------------------------------------------------------------
(* Requests                                                                *)

\* UpdateConfig.  A model comes with its key unless there is one; the key goes
\* with the last model, when that is asked for.
Update(r) ==
  /\ At(r, "act")
  /\ \E m \in Models, what \in {"upsert", "delete"}, k \in BOOLEAN :
       /\ IF what = "upsert" THEN k ELSE k = key \/ cfg.models = {m}
       /\ LET i == [what |-> what, model |-> m] IN Take(r, i, Effect(i, cfg), k)
  /\ UNCHANGED <<file, key, dirs, copy, mcp, skillState, skillMu, outside, ghosts>>

\* mcp.toggle: the runtime first, which may change the copy with it; then the
\* whole configuration is written.
Toggle(r) ==
  /\ At(r, "act")
  /\ \/ /\ mcp' = ~mcp /\ Set(r, [op[r] EXCEPT !.pc = "snapshot", !.kind = "toggle"])
        /\ cfg' = IF shared THEN [cfg EXCEPT !.mcp = mcp'] ELSE cfg
        /\ history' = [history EXCEPT !.early = @ \/ shared]
     \/ Set(r, Finished) /\ UNCHANGED <<mcp, cfg, history>>
  /\ UNCHANGED <<file, key, dirs, known, shared, skillState, locks, outside, trusted, given, lost>>

Snapshot(r) ==
  /\ At(r, "snapshot") /\ configMu = None
  /\ \/ Set(r, [op[r] EXCEPT !.pc = "truncate", !.new = [cfg EXCEPT !.mcp = mcp],
                  !.intent = [what |-> "toggle", to |-> mcp]])
     \/ Set(r, Finished)
  /\ UNCHANGED <<file, key, dirs, copy, mcp, skillState, locks, outside, ghosts>>

\* os.WriteFile
Truncate(r) ==
  /\ At(r, "truncate") /\ Judge(r)
  /\ disk' = Empty /\ stamp' = stamp + 1
  /\ op' = [Noticed(r, FALSE) EXCEPT ![r].pc = "write", ![r].stamp = stamp + 1]
  /\ UNCHANGED <<key, dirs, copy, mcp, skillState, locks, outside, trusted, given>>

Write(r) ==
  /\ At(r, "write") /\ IF stamp = op[r].stamp THEN UNCHANGED <<lost, history>> ELSE Judge(r)
  /\ disk' = op[r].new /\ stamp' = stamp + 1
  /\ op' = [Noticed(r, FALSE) EXCEPT ![r] = Finished]
  /\ UNCHANGED <<key, dirs, copy, mcp, skillState, locks, outside, trusted, given>>

-----------------------------------------------------------------------------
(* skill_start: Start, Import, finishStart                                 *)

\* Mutant of ImportSteps: an import leaves the record as it is.
ImportStepsNoOff == <<"ask", "done">>
ImportSteps == <<"off", "ask", "done">>

\* importLocal: what was installed under the name is replaced; half a copy may
\* be a skill, whose record stays as it was.
Import(p) ==
  /\ Starts(p) /\ skillMu = None
  /\ \E s \in Skills :
       /\ trusted' = trusted \ {s}
       /\ \/ /\ dirs' = dirs \cup {s} /\ skillMu' = p
             /\ Set(p, [op[p] EXCEPT !.kind = "import", !.skill = s, !.pc = "reload", !.todo = ImportSteps])
             /\ history' = [history EXCEPT !.stayed = @ \/ \E q \in Ops : op[q].skill = s]
          \/ /\ dirs' \in {dirs \cup {s}, dirs \ {s}} /\ Set(p, Finished) /\ UNCHANGED skillMu
             /\ history' = [history EXCEPT !.stayed = TRUE]
  /\ UNCHANGED <<file, key, copy, mcp, skillState, configMu, outside, given, lost>>

\* Start's check; the reload is Check's.
Check(p) ==
  /\ Starts(p)
  /\ \E s \in Skills :
       Set(p, [op[p] EXCEPT !.kind = "check", !.skill = s, !.pc = "reload", !.todo = <<"off", "ask", "done">>])
  /\ UNCHANGED <<file, key, dirs, copy, mcp, skillState, locks, outside, ghosts>>

\* setEnabledLocked
Record(p, s, to) ==
  LET i == [what |-> "record", skill |-> s, to |-> to] IN Take(p, i, Effect(i, cfg), key)

\* skill.set; only a skill that was found can be enabled.
SetSkill(p) ==
  /\ At(p, "act") /\ skillMu = None /\ skillMu' = p
  /\ \E s \in Skills, to \in {"on", "off"} : (to = "on" => s \in seen) /\ Record(p, s, to)
  /\ UNCHANGED <<file, key, dirs, copy, mcp, skillState, outside, ghosts>>

Off(p) ==
  /\ At(p, "off") /\ skillMu \in {None, p}
  /\ IF op[p].skill \in seen
       THEN Record(p, op[p].skill, "off") /\ skillMu' = p
       ELSE Stop(p) /\ UNCHANGED configMu
  /\ UNCHANGED <<file, key, dirs, copy, mcp, skillState, outside, ghosts>>

\* The review, if the user wants one, reloads.
Ask(p) ==
  /\ At(p, "ask")
  /\ \/ Set(p, [op[p] EXCEPT !.pc = "reload", !.todo = <<"enable", "done">>])
     \/ Go(p, "enable")
     \/ Set(p, Finished)
  /\ UNCHANGED <<file, key, dirs, copy, mcp, skillState, locks, outside, ghosts>>

\* saveWorkflowDecisionLocked, which is called without the lock.
Enable(p) ==
  /\ At(p, "enable")
  /\ \/ op[p].skill \in seen /\ \E to \in {"on", "off"} : Record(p, op[p].skill, to)
     \/ Set(p, Finished) /\ UNCHANGED configMu
  /\ UNCHANGED <<file, key, dirs, copy, mcp, skillState, skillMu, outside, ghosts>>

-----------------------------------------------------------------------------
(* The user, and restarts                                                  *)

Outside == outside < MaxOutside /\ outside' = outside + 1

Edit ==
  /\ Outside /\ disk # Empty
  /\ \/ \E m \in Models \ disk.models : disk' = Effect([what |-> "upsert", model |-> m], disk)
     \/ disk' = Effect([what |-> "toggle", to |-> ~disk.mcp], disk)
  /\ stamp' = stamp + 1 /\ op' = Noticed(None, FALSE)
  /\ history' = [history EXCEPT !.keyless = @ \/ ~(key /\ given)]
  /\ UNCHANGED <<key, dirs, copy, mcp, skillState, locks, trusted, given, lost>>

Place ==
  /\ Outside /\ \E s \in Skills \ dirs : dirs' = dirs \cup {s} /\ trusted' = trusted \cup {s}
  /\ UNCHANGED <<file, key, copy, mcp, skillState, locks, op, given, lost, history>>

\* At any step; then NewAgent.
Restart ==
  /\ Outside
  /\ cfg' = Loaded(disk) /\ known' = stamp /\ shared' = TRUE
  /\ mcp' = cfg'.mcp /\ records' = cfg'.skills /\ seen' = {}
  /\ configMu' = None /\ skillMu' = None /\ given' = key
  /\ op' = [p \in Procs |-> IF p = Boot THEN Booting ELSE IF At(p, "none") THEN Idle ELSE Finished]
  /\ history' = [history EXCEPT
       !.forgot = @ \/ ~Configured(disk), !.keyless = @ \/ (given /\ ~key),
       !.stayed = @ \/ \E p \in Ops : op[p].kind = "import"]
  /\ UNCHANGED <<file, key, dirs, trusted, lost>>

Committing(p) == RenameKey(p) \/ RenameConfig(p) \/ CommitFails(p) \/ Publish(p)
Reloading(p) == Refresh(p) \/ Reload(p) \/ Adopt(p) \/ Apply(p) \/ Servers(p)
Request(r) == Gate(r) \/ Update(r) \/ Toggle(r) \/ Snapshot(r) \/ Truncate(r) \/ Write(r) \/ SetSkill(r)
Workflow(p) == Import(p) \/ Check(p) \/ Off(p) \/ Ask(p) \/ Enable(p)

Next ==
  \/ \E p \in Procs : Committing(p) \/ Reloading(p)
  \/ \E o \in Ops : Request(o) \/ Workflow(o)
  \/ Edit \/ Place \/ Restart

Spec == Init /\ [][Next]_vars

-----------------------------------------------------------------------------
(* Properties                                                              *)

\* The values of the variables.
TypeOK ==
  /\ {disk, cfg} \subseteq Contents /\ stamp \in Nat /\ known \in Nat /\ outside \in 0 .. MaxOutside
  /\ {key, mcp, shared, given, lost} \subseteq BOOLEAN /\ dirs \cup seen \cup trusted \subseteq Skills
  /\ records \in [Skills -> {"none", "on", "off"}] /\ {configMu, skillMu} \subseteq Procs \cup {None}

\* No change that is on disk is overwritten by a writer that could have seen
\* it: requests that came after it, and whoever takes the lock after it
\* (service.go ensureConfigLoaded, config.go UpdateConfig, skill_store.go).
NothingLost == ~lost

\* Outside a commit the key is what the accepted updates made it, or what the
\* last restart found: a failed update leaves the credentials as they were
\* (config.go stageAndCommitConfig, "later commit failure restores them").
RolledBack == configMu = None => key = given

\* At every step, hence after a crash there, the models on disk have their key
\* (config.go stageAndCommitConfig, credentials first).  Excepted: a crash
\* between the renames of a key's deletion, an edit while there is no key, and
\* a writer that overwrote the file blindly.
KeysPrecedeModels ==
  disk.models # {} /\ ~history.blind /\ ~history.keyless
    => key \/ \E p \in Procs : configMu = p /\ ~op[p].key

\* Both: the two files agree, in a failure and in a crash.
CredentialsAgree == RolledBack /\ KeysPrecedeModels

\* When the agent believes that it has what is on disk, it has
\* (config.go publishConfigLocked, configModTime).
CopyIsTrue == configMu = None /\ known = stamp /\ ~history.late /\ ~history.forgot /\ ~history.early => cfg = disk

\* The model can load a skill only after the user agreed to its content: by
\* enabling it, or by placing it there (import.go:43, skill/runtime.go
\* syncStoreLocked, saveWorkflowCheckLocked).  Excepted: an import that fails
\* half way, cannot disable the skill or is cut off by a restart, another
\* skill_start of the skill, a blind or truncated file, and old records.
EnabledIsTrusted ==
  skillMu = None /\ ~history.blind /\ ~history.forgot /\ ~history.stayed /\ ~history.stale
    => \A s \in seen : records[s] = "on" => s \in trusted
=============================================================================
