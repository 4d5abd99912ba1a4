------------------------------ MODULE ExecJobs ------------------------------
(***************************************************************************)
(* The background processes of the exec tool: the registry that counts,    *)
(* keeps and gives them up (internal/tools/builtin/exec_registry.go), the  *)
(* goroutine that watches each process (exec_job.go) and the calls that    *)
(* start and stop them (exec.go).                                          *)
(*                                                                         *)
(* A call belongs to an owner: the main boundary of a run or one of its    *)
(* subtasks.  A run, a subtask, a session and the daemon each end with a   *)
(* clean-up of the jobs that belong to them.  Reading a job's output or    *)
(* status changes nothing and is left out.                                 *)
(***************************************************************************)
EXTENDS Naturals, FiniteSets

CONSTANTS
  MaxJobs,              \* bound: background starts, each with a job id of its own
  MaxEnds,              \* bound: clean-ups
  Sessions,             \* sessions
  Owners,               \* boundaries of runs: [session, run, main]
  Owner,                \* Owner[j]: who may start job j
  Scope,                \* Scope[j]: "run" or "session"
  Timed,                \* jobs with a timeout
  Broken,               \* jobs whose process cannot be started
  Stubborn,             \* jobs whose process or output may outlive the signals
  Daemon,               \* the daemon as what ends
  MaxGlobalActive,      \* execMaxGlobalActive
  MaxSessionActive,     \* execMaxSessionActive
  MaxGlobalCompleted,   \* execMaxGlobalCompleted
  MaxSessionCompleted   \* execMaxSessionCompleted

\* Numbered in the order in which their places are reserved.
Jobs == 1 .. MaxJobs
NoJob == 0

\* What ends with a clean-up.
Ends == Owners \cup Sessions \cup {Daemon}

ASSUME ExecAssumption ==
  /\ MaxJobs \in Nat /\ MaxEnds \in Nat /\ MaxGlobalActive \in Nat /\ MaxSessionActive \in Nat
  /\ MaxGlobalCompleted \in Nat /\ MaxSessionCompleted \in Nat
  /\ \A o \in Owners : o.session \in Sessions /\ o.main \in BOOLEAN
  /\ \A o \in Owners : \E p \in Owners : p.main /\ p.session = o.session /\ p.run = o.run
  /\ Owner \in [Jobs -> Owners] /\ Scope \in [Jobs -> {"run", "session"}]
  /\ \A j \in Jobs : Scope[j] = "session" => Owner[j].main
  /\ Timed \subseteq Jobs /\ Broken \subseteq Jobs /\ Stubborn \subseteq Jobs
  /\ Owners \cap Sessions = {} /\ Daemon \notin Owners \cup Sessions

VARIABLES
  reg,     \* the registry: its jobs, the two counters, whether it is closed
  call,    \* call[j]: where the call that starts job j is
  job,     \* job[j]: the fields of the job under its lock; once it finished, how
           \* its status reads is not kept
  mon,     \* mon[j]: the goroutine monitor of job j and its local variables
  proc,    \* proc[j]: the process
  clock,   \* the time of day as far as jobs finished
  trim,    \* trimCompleted: the holder of trimMu, the jobs to look at, those completed
  end      \* end[c]: the clean-up of c

jobsVars == <<reg, call, job, mon, proc, clock, trim, end>>

-----------------------------------------------------------------------------
SameRun(o, p) == o.session = p.session /\ o.run = p.run

Local == [pc |-> "none", status |-> "running", finished |-> 0, cleanup |-> "none"]

JobsInit ==
  /\ reg = [jobs |-> {}, active |-> 0, perSession |-> [s \in Sessions |-> 0],
            closed |-> FALSE]
  /\ call = [j \in Jobs |-> "idle"]
  /\ job = [j \in Jobs |-> [finished |-> 0, cleanup |-> "none", stop |-> "none"]]
  /\ mon = [j \in Jobs |-> Local]
  /\ proc = [j \in Jobs |-> "none"]
  /\ clock = 1
  /\ trim = [holder |-> NoJob, todo |-> {}, seen |-> {}]
  /\ end = [c \in Ends |-> [pc |-> "no", todo |-> {}, jobs |-> {}, partial |-> FALSE]]

-----------------------------------------------------------------------------
(* Parts of several actions.                                               *)

\* Mutant of Completed: running jobs are trimmed as well.
CompletedOrNot(j) == TRUE

\* The terminal fields are written together: a job runs until it has a time.
Completed(j) == job[j].finished # 0
Running(j) == job[j].finished = 0

\* Mutant of Full: one place too many in all.
FullLater(s) == reg.active > MaxGlobalActive \/ reg.perSession[s] > MaxSessionActive

\* reserve's limits.
Full(s) == reg.active >= MaxGlobalActive \/ reg.perSession[s] >= MaxSessionActive

\* releaseLocked: never below zero, and a session's last count is dropped.
GivenBack(s) ==
  [reg EXCEPT !.active = IF @ > 0 THEN @ - 1 ELSE 0,
              !.perSession[s] = IF @ <= 1 THEN 0 ELSE @ - 1]

\* Mutant of StoppedJob: a later request overwrites the first.
StoppedAgain(j, status) ==
  IF Running(j) THEN [job[j] EXCEPT !.stop = status] ELSE job[j]

\* requestTerminate: the first request for a running job closes the stop channel.
StoppedJob(j, status) ==
  IF Running(j) /\ job[j].stop = "none"
    THEN [job[j] EXCEPT !.stop = status] ELSE job[j]

\* Which jobs a clean-up is for: CleanupRun, CleanupSession, Close.
Matches(c, j) ==
  \/ c = Daemon
  \/ c \in Sessions /\ Owner[j].session = c
  \/ /\ c \in Owners /\ Scope[j] = "run" /\ SameRun(Owner[j], c)
     /\ c.main \/ Owner[j] = c

-----------------------------------------------------------------------------
(* Starting a job.                                                         *)

InFlight == {"reserved", "added", "refused", "cancelling"}

\* A run makes calls until it ends, a subtask too; neither ends before its
\* calls returned (external to this module: runner.executeToolCalls waits).
MayCall(o) ==
  \A p \in Owners : SameRun(p, o) /\ (p.main \/ p = o) => end[p].pc = "no"

MidCall(o) == \E j \in Jobs : call[j] \in InFlight /\ Owner[j] = o

\* startBackground: reserves a place before the process is started.
Reserve(j) ==
  /\ call[j] = "idle" /\ MayCall(Owner[j])
  /\ ~reg.closed /\ ~Full(Owner[j].session)
  /\ call' = [call EXCEPT ![j] = "reserved"]
  /\ reg' = [reg EXCEPT !.active = @ + 1, !.perSession[Owner[j].session] = @ + 1]
  /\ UNCHANGED <<job, mon, proc, clock, trim, end>>

\* The process cannot be started: the place is given back.
LaunchFails(j) ==
  /\ call[j] = "reserved" /\ j \in Broken
  /\ call' = [call EXCEPT ![j] = "failed"]
  /\ reg' = GivenBack(Owner[j].session)
  /\ UNCHANGED <<job, mon, proc, clock, trim, end>>

\* Mutant of Launch: the registry does not look whether it was closed.
LaunchClosed(j) ==
  /\ call[j] = "reserved" /\ j \notin Broken
  /\ proc' = [proc EXCEPT ![j] = "alive"]
  /\ mon' = [mon EXCEPT ![j].pc = "watch"]
  /\ reg' = [reg EXCEPT !.jobs = @ \cup {j}]
  /\ call' = [call EXCEPT ![j] = "added"]
  /\ UNCHANGED <<job, clock, trim, end>>

\* The process starts and its job enters the registry (add), or is stopped if
\* that was closed meanwhile; either way its monitor starts.
Launch(j) ==
  /\ call[j] = "reserved" /\ j \notin Broken
  /\ proc' = [proc EXCEPT ![j] = "alive"]
  /\ mon' = [mon EXCEPT ![j].pc = "watch"]
  /\ \/ /\ reg.closed
        /\ call' = [call EXCEPT ![j] = "refused"]
        /\ job' = [job EXCEPT ![j] = StoppedJob(j, "stopped")]
        /\ UNCHANGED reg
     \/ /\ ~reg.closed
        /\ reg' = [reg EXCEPT !.jobs = @ \cup {j}]
        /\ call' = [call EXCEPT ![j] = "added"]
        /\ UNCHANGED job
  /\ UNCHANGED <<clock, trim, end>>

\* The job id is returned ...
StartReturns(j) ==
  /\ call[j] = "added"
  /\ call' = [call EXCEPT ![j] = "returned"]
  /\ UNCHANGED <<reg, job, mon, proc, clock, trim, end>>

\* ... unless the call's context is cancelled: cancelBackgroundStart.
StartCancelled(j) ==
  /\ call[j] = "added"
  /\ call' = [call EXCEPT ![j] = "cancelling"]
  /\ job' = [job EXCEPT ![j] = StoppedJob(j, "cancelled")]
  /\ UNCHANGED <<reg, mon, proc, clock, trim, end>>

\* A refused start waits for its job however long that takes.
RefusedReturns(j) ==
  /\ call[j] = "refused" /\ mon[j].pc = "done"
  /\ call' = [call EXCEPT ![j] = "failed"]
  /\ UNCHANGED <<reg, job, mon, proc, clock, trim, end>>

\* Mutant of Dropped: gives the place back although the monitor will do so.
DroppedAndReleased(j) == [GivenBack(Owner[j].session) EXCEPT !.jobs = @ \ {j}]

\* remove.
Dropped(j) == [reg EXCEPT !.jobs = @ \ {j}]

\* The job ended, or execJobStopLimit passed; it leaves the registry.
CancelReturns(j) ==
  /\ call[j] = "cancelling"
  /\ call' = [call EXCEPT ![j] = "returned"]
  /\ reg' = Dropped(j)
  /\ UNCHANGED <<job, mon, proc, clock, trim, end>>

\* The stop action, up to its request: only who may access the job (lookup).
StopJob(j, o) ==
  /\ MayCall(o) /\ j \in reg.jobs /\ call[j] = "returned"
  /\ Owner[j].session = o.session
  /\ IF Scope[j] = "run" THEN o = Owner[j] ELSE o.main
  /\ Running(j) /\ job[j].stop = "none"
  /\ job' = [job EXCEPT ![j] = StoppedJob(j, "stopped")]
  /\ UNCHANGED <<reg, call, mon, proc, clock, trim, end>>

-----------------------------------------------------------------------------
(* The process and its monitor.                                            *)

\* The process ends by itself (external: the operating system).  Whether one that
\* survived its monitor still ends changes nothing here and is left out.
ProcExits(j) ==
  /\ proc[j] = "alive" /\ mon[j].pc = "watch"
  /\ proc' = [proc EXCEPT ![j] = "exited"]
  /\ UNCHANGED <<reg, call, job, mon, clock, trim, end>>

\* Mutant of CleanupStatus: only the output counts.
CleanupStatusOutput(wait, output) == IF output THEN "complete" ELSE "partial"

\* execCleanupStatus.
CleanupStatus(wait, output) == IF wait /\ output THEN "complete" ELSE "partial"

\* The monitor woke up with a status: it signals the process tree, waits for the
\* process and for its output, each within a limit, and notes the time.  Only a
\* stubborn job outlives the limits, with its process or with its output.
Drained(j, status) ==
  /\ mon[j].pc = "watch"
  /\ clock' = clock + 1
  /\ \E output \in BOOLEAN, after \in {proc[j], "exited"} :
       /\ j \notin Stubborn => output /\ after = "exited"
       /\ proc' = [proc EXCEPT ![j] = after]
       /\ mon' = [mon EXCEPT ![j] =
            [pc |-> "drained", status |-> status, finished |-> clock',
             cleanup |-> CleanupStatus(after = "exited", output)]]
  /\ UNCHANGED <<reg, call, job, trim, end>>

\* The select of monitor: one of what is ready.
SeesProcExit(j) == proc[j] = "exited" /\ Drained(j, "exited")
SeesStop(j) == job[j].stop # "none" /\ Drained(j, job[j].stop)
TimesOut(j) == j \in Timed /\ Drained(j, "timed_out")

\* The terminal fields become visible together; the stop request and the monitor's
\* variables, the status among them, are not read any more.
Finish(j) ==
  /\ mon[j].pc = "drained"
  /\ job' = [job EXCEPT ![j] = [finished |-> mon[j].finished, cleanup |-> mon[j].cleanup,
                                stop |-> "none"]]
  /\ mon' = [mon EXCEPT ![j] = [Local EXCEPT !.pc = "finished"]]
  /\ UNCHANGED <<reg, call, proc, clock, trim, end>>

-----------------------------------------------------------------------------
(* trimCompleted.                                                          *)

\* completedLess.
Older(j, k) ==
  \/ job[j].finished < job[k].finished
  \/ job[j].finished = job[k].finished /\ j < k

\* Mutant of Excess: the newest go.
ExcessNewest(S, n) == {j \in S : Cardinality({k \in S : Older(k, j)}) >= n}

\* All of S but its n newest.
Excess(S, n) == {j \in S : Cardinality({k \in S : Older(j, k)}) >= n}

\* What is to go among the completed jobs S.
Surplus(S) ==
  LET gone == UNION {Excess({j \in S : Owner[j].session = s}, MaxSessionCompleted)
                     : s \in Sessions}
  IN  gone \cup Excess(S \ gone, MaxGlobalCompleted)

\* Mutant of JobCompleted: does not trim while another job does.
JobCompletedSkips(j) ==
  /\ mon[j].pc = "finished"
  /\ reg' = GivenBack(Owner[j].session)
  /\ IF trim.holder = NoJob
       THEN /\ trim' = [holder |-> j, todo |-> reg.jobs, seen |-> {}]
            /\ mon' = [mon EXCEPT ![j].pc = "trimming"]
       ELSE mon' = [mon EXCEPT ![j].pc = "done"] /\ UNCHANGED trim
  /\ UNCHANGED <<call, job, proc, clock, end>>

\* jobCompleted: gives the place back, then locks trimMu and lists the jobs.
\* (In the code others may see the place free before trimMu is.)
JobCompleted(j) ==
  /\ mon[j].pc = "finished" /\ trim.holder = NoJob
  /\ reg' = GivenBack(Owner[j].session)
  /\ trim' = [holder |-> j, todo |-> reg.jobs, seen |-> {}]
  /\ mon' = [mon EXCEPT ![j].pc = "trimming"]
  /\ UNCHANGED <<call, job, proc, clock, end>>

\* One job's snapshot; the others go on meanwhile.
TrimLook(j) ==
  /\ mon[j].pc = "trimming"
  /\ \E k \in trim.todo :
       trim' = [trim EXCEPT !.todo = @ \ {k},
                            !.seen = @ \cup {i \in {k} : Completed(k)}]
  /\ UNCHANGED <<reg, call, job, mon, proc, clock, end>>

\* Removes the surplus, unlocks trimMu and closes done.
TrimDelete(j) ==
  /\ mon[j].pc = "trimming" /\ trim.todo = {}
  /\ reg' = [reg EXCEPT !.jobs = @ \ Surplus(trim.seen)]
  /\ mon' = [mon EXCEPT ![j].pc = "done"]
  /\ trim' = [holder |-> NoJob, todo |-> {}, seen |-> {}]
  /\ UNCHANGED <<call, job, proc, clock, end>>

-----------------------------------------------------------------------------
(* reapLoop.                                                               *)

\* reapCompleted: what finished long enough ago, whatever that is.  The reaper
\* may do so once more after it was told to stop.
Reap ==
  /\ end[Daemon].pc \in {"no", "closing"}
  /\ \E t \in 1 .. clock :
       LET old == {j \in reg.jobs : Completed(j) /\ job[j].finished <= t}
       IN  old # {} /\ reg' = [reg EXCEPT !.jobs = @ \ old]
  /\ UNCHANGED <<call, job, mon, proc, clock, trim, end>>

-----------------------------------------------------------------------------
(* Ends and their clean-ups.                                               *)

MayBegin == Cardinality({c \in Ends : end[c].pc # "no"}) < MaxEnds

Begin(c) == end' = [end EXCEPT ![c].pc = "list"]

\* A subtask returned (Agent.executeSpawn), or a run (Agent.finishRun).
EndBoundary(o) ==
  /\ MayBegin /\ MayCall(o) /\ ~MidCall(o)
  /\ o.main => \A p \in Owners : SameRun(p, o) /\ p # o =>
                 ~MidCall(p) /\ end[p].pc \in {"no", "done"}
  /\ Begin(o)
  /\ UNCHANGED <<reg, call, job, mon, proc, clock, trim>>

\* A session is deleted when its runs are over (session_cleanup.go).
EndSession(s) ==
  /\ MayBegin /\ end[s].pc = "no"
  /\ \A o \in Owners : o.session = s /\ o.main => end[o].pc = "done"
  /\ Begin(s)
  /\ UNCHANGED <<reg, call, job, mon, proc, clock, trim>>

\* close: runs may still be calling.  The reaper is stopped first.
CloseRegistry ==
  /\ MayBegin /\ end[Daemon].pc = "no"
  /\ reg' = [reg EXCEPT !.closed = TRUE]
  /\ end' = [end EXCEPT ![Daemon].pc = "closing"]
  /\ UNCHANGED <<call, job, mon, proc, clock, trim>>

ReaperStopped ==
  /\ end[Daemon].pc = "closing"
  /\ Begin(Daemon)
  /\ UNCHANGED <<reg, call, job, mon, proc, clock, trim>>

\* cleanup: the jobs of the registry that match.
CleanupList(c) ==
  /\ end[c].pc = "list"
  /\ LET mine == {j \in reg.jobs : Matches(c, j)}
     IN  end' = [end EXCEPT ![c].pc = IF mine = {} THEN "done" ELSE "wait",
                            ![c].todo = mine, ![c].jobs = mine]
  /\ UNCHANGED <<reg, call, job, mon, proc, clock, trim>>

\* requestTerminate of the next of them, in the order of a map.
CleanupRequest(c, j) ==
  /\ end[c].pc = "wait" /\ j \in end[c].todo
  /\ job' = [job EXCEPT ![j] = StoppedJob(j, "stopped")]
  /\ end' = [end EXCEPT ![c].todo = @ \ {j}]
  /\ UNCHANGED <<reg, call, mon, proc, clock, trim>>

\* All jobs are done: the clean-up is partial when one of them is.
CleanupWaited(c) ==
  /\ end[c].pc = "wait" /\ end[c].todo = {}
  /\ \A j \in end[c].jobs : mon[j].pc = "done"
  /\ end' = [end EXCEPT ![c].pc = "delete",
                        ![c].partial = \E j \in end[c].jobs : job[j].cleanup = "partial"]
  /\ UNCHANGED <<reg, call, job, mon, proc, clock, trim>>

\* execLifecycleCleanupLimit, or the caller's limit, passed: before a job was
\* done, or as it was.
CleanupTimesOut(c) ==
  /\ end[c].pc = "wait" /\ end[c].todo = {}
  /\ end' = [end EXCEPT ![c].pc = "delete", ![c].partial = TRUE]
  /\ UNCHANGED <<reg, call, job, mon, proc, clock, trim>>

\* Every job that was waited for loses its place in the registry.
CleanupDelete(c) ==
  /\ end[c].pc = "delete"
  /\ reg' = [reg EXCEPT !.jobs = @ \ end[c].jobs]
  /\ end' = [end EXCEPT ![c] = [pc |-> "done", todo |-> {}, jobs |-> {}, partial |-> FALSE]]
  /\ UNCHANGED <<call, job, mon, proc, clock, trim>>

-----------------------------------------------------------------------------
StartCall(j) ==
  \/ Launch(j) \/ LaunchFails(j) \/ StartReturns(j) \/ StartCancelled(j)
  \/ RefusedReturns(j) \/ CancelReturns(j)

Monitor(j) ==
  \/ SeesProcExit(j) \/ SeesStop(j) \/ Finish(j) \/ JobCompleted(j)
  \/ TrimLook(j) \/ TrimDelete(j)

Cleanup(c) ==
  \/ CleanupList(c) \/ (\E j \in Jobs : CleanupRequest(c, j))
  \/ CleanupWaited(c) \/ CleanupDelete(c)

JobsNext ==
  \/ \E j \in Jobs, o \in Owners : StopJob(j, o)
  \/ \E j \in Jobs : Reserve(j) \/ StartCall(j) \/ ProcExits(j) \/ TimesOut(j) \/ Monitor(j)
  \/ Reap
  \/ \E o \in Owners : EndBoundary(o)
  \/ \E s \in Sessions : EndSession(s)
  \/ CloseRegistry \/ ReaperStopped
  \/ \E c \in Ends : Cleanup(c) \/ CleanupTimesOut(c)

JobsSpec == JobsInit /\ [][JobsNext]_jobsVars

-----------------------------------------------------------------------------
(* Properties.                                                             *)

\* A start holds its place from the reservation until its monitor gave it back.
Holders == {j \in Jobs : /\ call[j] \notin {"idle", "failed"} \/ mon[j].pc # "none"
                         /\ mon[j].pc \notin {"trimming", "done"}}

\* The counters that limit the active jobs count the places that are held, and
\* keep the limits, whatever way a start, its cancellation or a clean-up takes.
QuotaCounted ==
  /\ reg.active = Cardinality(Holders) /\ reg.active <= MaxGlobalActive
  /\ \A s \in Sessions :
       /\ reg.perSession[s] = Cardinality({j \in Holders : Owner[j].session = s})
       /\ reg.perSession[s] <= MaxSessionActive

\* The registry holds more completed jobs of a session, or in all, than it may
\* only while a job that completed has not been through its own trim.
RetentionBounded ==
  LET kept == {j \in reg.jobs : Completed(j)}
  IN  (\A j \in Jobs : mon[j].pc \notin {"finished", "trimming"}) =>
        /\ Cardinality(kept) <= MaxGlobalCompleted
        /\ \A s \in Sessions :
             Cardinality({j \in kept : Owner[j].session = s}) <= MaxSessionCompleted

\* Both limits, of the active and of the completed jobs, hold at every moment.
LimitsHold == QuotaCounted /\ RetentionBounded

\* A job that a trim removes had enough younger ones, of its session or in all,
\* although the trim looks at the jobs one by one while they complete.
TrimKeepsNewest ==
  [][\A j \in reg.jobs \ reg'.jobs : \A k \in Jobs :
       mon[k].pc = "trimming" /\ mon'[k].pc = "done" =>
         LET younger == {i \in Jobs : Completed(i) /\ Older(j, i)}
         IN  \/ Cardinality(younger) >= MaxGlobalCompleted
             \/ Cardinality({i \in younger : Owner[i].session = Owner[j].session})
                  >= MaxSessionCompleted]_jobsVars

\* A running job can be reached until its owner, its session or the daemon
\* cleans up, or its start was cancelled: neither trim nor reaper removes it.
RunningStaysReachable ==
  [][\A j \in reg.jobs \ reg'.jobs : Running(j) =>
       \/ call[j] = "cancelling"
       \/ \E c \in Ends : end[c].pc = "delete" /\ Matches(c, j)]_jobsVars

\* Both: whoever removes a job had a reason to remove that job.
RemovedForAReason == TrimKeepsNewest /\ RunningStaysReachable

\* A job that is stopped or cancelled ends as the first request asked: a start
\* that is cancelled races the daemon's end, a subtask's end and a stop.
FirstRequestWins ==
  /\ [][\A j \in Jobs : job[j].stop # "none" => job'[j].stop \in {job[j].stop, "none"}]_jobsVars
  /\ [][\A j \in Jobs : mon'[j].status \in {"stopped", "cancelled"} =>
          mon'[j].status \in {job[j].stop, mon[j].status}]_jobsVars

\* When a subtask, a run, a session or the daemon has been cleaned up, none of
\* its jobs is or comes back in the registry.
EndedHasNoJobs ==
  \A c \in Ends : end[c].pc = "done" => \A j \in reg.jobs : ~Matches(c, j)

\* No process outlives a clean-up in silence: if one of the jobs it waited for still
\* has a living process when it removes them, it reports that it was partial.
NoSilentSurvivor ==
  \A c \in Ends : \A j \in end[c].jobs :
    end[c].pc = "delete" /\ proc[j] = "alive" => end[c].partial

\* Both: an end leaves no job behind, and no process without saying so.
EndedIsClean == EndedHasNoJobs /\ NoSilentSurvivor

=============================================================================
