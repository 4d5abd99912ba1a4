------------------------------ MODULE Instance ------------------------------
(***************************************************************************)
(* One daemon per user (Unix): the commands that start and stop daemons,   *)
(* the daemon processes, and what they share: the lock file's flock, the   *)
(* socket file, the PID file.  Any command or daemon may be started while  *)
(* others run, and a daemon may fail or die at any step.                   *)
(*                                                                         *)
(* System calls are the steps.  A socket file is named by the daemon that  *)
(* bound it, which is what os.SameFile tells apart.                        *)
(***************************************************************************)
EXTENDS Naturals, FiniteSets

CONSTANTS
  Daemons,     \* bound: the daemon processes that may ever be spawned
  Launchers,   \* commands that open the TUI
  Servers,     \* commands that ensure a headless daemon (suna serve)
  Stoppers,    \* commands that stop the daemon
  None,
  MaxStops,    \* bound: stops that no command asked for (idle exit, signals)
  MaxFaults    \* bound: daemons that fail to start or die

Starters == Launchers \cup Servers
Commands == Starters \cup Stoppers

ASSUME InstanceAssumption ==
  /\ IsFiniteSet(Daemons) /\ None \notin Daemons \cup Commands
  /\ Daemons \cap Commands = {} /\ Launchers \cap Servers = {}
  /\ Starters \cap Stoppers = {} /\ MaxStops \in Nat /\ MaxFaults \in Nat

VARIABLES
  lease,    \* who has the flock of sunad.lock
  path,     \* the socket file: the daemon that bound it, or None
  open,     \* daemons whose listener is open
  pidfile,  \* the daemon that sunad.pid names, or None
  daemon,   \* the daemon processes
  command,  \* the command processes
  stops,    \* stops that no command asked for, so far
  faults,   \* failures so far
  lost      \* history: daemons that found the flock taken by a probe

files == <<lease, path, open, pidfile>>
vars == <<lease, path, open, pidfile, daemon, command, stops, faults, lost>>

\* Where a process is in runDaemon.
Steps == {"none", "lease", "probe", "same", "remove", "listen", "tcp", "pid", "ready",
          "notify", "run", "closing", "readpid", "rmpid", "close", "unlink", "rmsocket",
          "exit", "dead"}

\* What it publishes, whether its context is cancelled, and the socket file
\* that it found.
Fresh == [pc |-> "none", state |-> "starting", cancelled |-> FALSE, seen |-> None]

\* A command, the daemon it spawned, and which of its probes is next.
Idle == [pc |-> "ask", child |-> None, site |-> "none"]

Init ==
  /\ lease = None /\ path = None /\ open = {} /\ pidfile = None
  /\ daemon = [d \in Daemons |-> Fresh] /\ command = [c \in Commands |-> Idle]
  /\ stops = 0 /\ faults = 0 /\ lost = {}

Go(d, pc) == daemon' = [daemon EXCEPT ![d].pc = pc]
Do(c, pc) == command' = [command EXCEPT ![c].pc = pc]

-----------------------------------------------------------------------------
(* The daemon process: runDaemon, Daemon.run and the local transport       *)

\* Mutant of MayLock: the platform's lease is no lock.
MayLockAlways == TRUE

\* flock(LOCK_EX | LOCK_NB)
MayLock == lease = None

\* runDaemon ends at once when somebody has the lock.
AcquireLease(d) ==
  /\ daemon[d].pc = "lease"
  /\ IF MayLock
       THEN lease' = d /\ Go(d, "probe") /\ UNCHANGED lost
       ELSE /\ Go(d, "dead") /\ UNCHANGED lease
            /\ lost' = IF lease \in Commands THEN lost \cup {d} ELSE lost
  /\ UNCHANGED <<path, open, pidfile, command, stops, faults>>

\* Mount: a socket that answers is left alone, one that refuses is stale.
ProbeSocket(d) ==
  /\ daemon[d].pc = "probe"
  /\ daemon' = [daemon EXCEPT ![d].seen = path, ![d].pc =
                 IF path = None THEN "listen" ELSE IF path \in open THEN "exit" ELSE "same"]
  /\ UNCHANGED <<files, command, stops, faults, lost>>

\* Mount: it is still the file that refused...
SameSocket(d) ==
  /\ daemon[d].pc = "same"
  /\ Go(d, IF path = daemon[d].seen THEN "remove" ELSE IF path = None THEN "listen" ELSE "exit")
  /\ UNCHANGED <<files, command, stops, faults, lost>>

\* ... and whatever is there by now is removed.
RemoveStale(d) ==
  /\ daemon[d].pc = "remove"
  /\ path' = None /\ Go(d, IF path = None THEN "exit" ELSE "listen")
  /\ UNCHANGED <<lease, open, pidfile, command, stops, faults, lost>>

\* bind and listen; bind refuses a path that exists.
Listen(d) ==
  /\ daemon[d].pc = "listen"
  /\ IF path = None THEN path' = d /\ open' = open \cup {d} /\ Go(d, "tcp")
                    ELSE Go(d, "exit") /\ UNCHANGED <<path, open>>
  /\ UNCHANGED <<lease, pidfile, command, stops, faults, lost>>

\* Mounting the TCP transport or writing the PID file fails: what is mounted
\* is closed again.
StartFails(d) ==
  /\ daemon[d].pc \in {"tcp", "pid"} /\ faults < MaxFaults
  /\ Go(d, "close") /\ faults' = faults + 1
  /\ UNCHANGED <<files, command, stops, lost>>

MountTCP(d) ==
  /\ daemon[d].pc = "tcp" /\ Go(d, "pid")
  /\ UNCHANGED <<files, command, stops, faults, lost>>

WritePID(d) ==
  /\ daemon[d].pc = "pid"
  /\ pidfile' = d /\ Go(d, "ready")
  /\ UNCHANGED <<lease, path, open, command, stops, faults, lost>>

\* Whatever a stop request has published meanwhile.
MarkReady(d) ==
  /\ daemon[d].pc = "ready"
  /\ daemon' = [daemon EXCEPT ![d].pc = "notify", ![d].state = "ready"]
  /\ UNCHANGED <<files, command, stops, faults, lost>>

\* signal.Notify and Lifecycle.Watch
NotifySignals(d) ==
  /\ daemon[d].pc = "notify" /\ Go(d, "run")
  /\ UNCHANGED <<files, command, stops, faults, lost>>

Stopped(p) == [p EXCEPT !.state = "stopping", !.cancelled = TRUE]

\* Daemon.Stop by the lifecycle, or by a signal from elsewhere.
StopItself(d) ==
  /\ daemon[d].pc = "run" /\ ~daemon[d].cancelled /\ stops < MaxStops
  /\ daemon' = [daemon EXCEPT ![d] = Stopped(@)] /\ stops' = stops + 1
  /\ UNCHANGED <<files, command, faults, lost>>

\* run: <-ctx.Done(), then cancelAllRuns and Agent.Close.
BeginClosing(d) ==
  /\ daemon[d].pc = "run" /\ daemon[d].cancelled /\ Go(d, "closing")
  /\ UNCHANGED <<files, command, stops, faults, lost>>

\* The TCP transport is closed first.
CloseTCP(d) ==
  /\ daemon[d].pc = "closing" /\ Go(d, "readpid")
  /\ UNCHANGED <<files, command, stops, faults, lost>>

\* removePID: the file is read...
ReadOwnPID(d) ==
  /\ daemon[d].pc = "readpid"
  /\ Go(d, IF pidfile = d THEN "rmpid" ELSE "close")
  /\ UNCHANGED <<files, command, stops, faults, lost>>

\* Mutant of PIDGone: it is left to the next daemon.
PIDGoneNever == pidfile

\* ... and removed.
PIDGone == None

RemoveOwnPID(d) ==
  /\ daemon[d].pc = "rmpid"
  /\ pidfile' = PIDGone /\ Go(d, "close")
  /\ UNCHANGED <<lease, path, open, command, stops, faults, lost>>

\* Close of the local transport: the listener, without its implicit unlink...
CloseListener(d) ==
  /\ daemon[d].pc = "close"
  /\ open' = open \ {d} /\ Go(d, "unlink")
  /\ UNCHANGED <<lease, path, pidfile, command, stops, faults, lost>>

\* ... removeSocketIfSame: compared...
CompareSocket(d) ==
  /\ daemon[d].pc = "unlink"
  /\ Go(d, IF path = d THEN "rmsocket" ELSE "exit")
  /\ UNCHANGED <<files, command, stops, faults, lost>>

\* ... and removed.
RemoveSocket(d) ==
  /\ daemon[d].pc = "rmsocket"
  /\ path' = None /\ Go(d, "exit")
  /\ UNCHANGED <<lease, open, pidfile, command, stops, faults, lost>>

\* What the kernel does when a process ends.
Released(d) ==
  /\ lease' = IF lease = d THEN None ELSE lease
  /\ open' = open \ {d}
  /\ daemon' = [daemon EXCEPT ![d].pc = "dead"]

\* runDaemon returns, or os.Exit: the lease is given up last.
Exit(d) ==
  /\ daemon[d].pc = "exit" /\ Released(d)
  /\ UNCHANGED <<path, pidfile, command, stops, faults, lost>>

Crash(d) ==
  /\ daemon[d].pc \notin {"none", "dead"} /\ faults < MaxFaults
  /\ faults' = faults + 1 /\ Released(d)
  /\ UNCHANGED <<path, pidfile, command, stops, lost>>

-----------------------------------------------------------------------------
(* The commands                                                            *)

\* What queryDaemonStatus may find.  A daemon whose context is cancelled takes
\* no more requests, except those of connections it had accepted before.
Status ==
  IF path \notin open THEN {"dial"}
  ELSE IF daemon[path].cancelled THEN {"broken", daemon[path].state} ELSE {daemon[path].state}

\* ensureDaemonRunning and serve, up to the probe of the lock.
Ask(c) ==
  /\ c \in Starters /\ command[c].pc = "ask"
  /\ \E s \in Status :
       command' = [command EXCEPT ![c] =
         CASE s = "ready"                            -> [@ EXCEPT !.pc = "done"]
           [] s = "dial" /\ c \in Launchers          -> [@ EXCEPT !.pc = "probe", !.site = "ensure"]
           [] s = "dial" /\ c \in Servers            -> [@ EXCEPT !.pc = "probe", !.site = "start"]
           [] s \in {"starting", "stopping"} /\ c \in Launchers -> [@ EXCEPT !.pc = "wait"]
           [] OTHER                                  -> [@ EXCEPT !.pc = "failed"]]
  /\ UNCHANGED <<files, daemon, stops, faults, lost>>

\* Mutant of Contested: a child that has ended is taken for a failure.
ContestedNever(c) == [command[c] EXCEPT !.pc = "failed"]

\* Where a starter goes on when somebody holds the lock.
Contested(c) ==
  [command[c] EXCEPT !.pc = IF command[c].site = "exited" THEN "watch" ELSE "wait",
                     !.child = None]

\* daemonLeaseHeld takes the lock to see whether it is free...
ProbeLease(c) ==
  /\ command[c].pc = "probe"
  /\ IF lease = None
       THEN lease' = c /\ Do(c, "holding")
       ELSE command' = [command EXCEPT ![c] = Contested(c)] /\ UNCHANGED lease
  /\ UNCHANGED <<path, open, pidfile, daemon, stops, faults, lost>>

\* ... and gives it back.  The lock was free: startDaemonWithTCP probes again,
\* then spawns; after the child's end it is an error.
ReleaseProbe(c) ==
  /\ command[c].pc = "holding" /\ lease' = None
  /\ command' = [command EXCEPT ![c] =
       CASE @.site = "ensure" -> [@ EXCEPT !.pc = "probe", !.site = "start"]
         [] @.site = "start"  -> [@ EXCEPT !.pc = "spawn"]
         [] @.site = "exited" -> [@ EXCEPT !.pc = "failed"]]
  /\ UNCHANGED <<path, open, pidfile, daemon, stops, faults, lost>>

Spawn(c, d) ==
  /\ command[c].pc = "spawn" /\ daemon[d].pc = "none"
  /\ Go(d, "lease")
  /\ command' = [command EXCEPT ![c].pc = "watch", ![c].child = d]
  /\ UNCHANGED <<files, stops, faults, lost>>

\* waitUntilDaemonAvailable and waitUntilDaemonAvailableOrExit.
SeesReady(c) ==
  /\ command[c].pc \in {"wait", "watch"} /\ "ready" \in Status
  /\ Do(c, IF c \in Servers THEN "recheck" ELSE "done")
  /\ UNCHANGED <<files, daemon, stops, faults, lost>>

\* serve asks once more, for the TCP endpoint.
Recheck(c) ==
  /\ command[c].pc = "recheck"
  /\ \E s \in Status : Do(c, IF s = "ready" THEN "done" ELSE "failed")
  /\ UNCHANGED <<files, daemon, stops, faults, lost>>

\* The child has ended: somebody else's may have won.
SeesExit(c) ==
  /\ command[c].pc = "watch" /\ command[c].child # None
  /\ daemon[command[c].child].pc = "dead"
  /\ command' = [command EXCEPT ![c].pc = "probe", ![c].site = "exited"]
  /\ UNCHANGED <<files, daemon, stops, faults, lost>>

\* To start a daemon takes less than a command waits (10 seconds).
Starting ==
  \/ \E c \in Starters : command[c].pc \in {"probe", "holding", "spawn"}
  \/ \E d \in Daemons :
       daemon[d].pc \in {"lease", "probe", "same", "remove", "listen", "tcp", "pid", "ready"}

StartTimesOut(c) ==
  /\ command[c].pc \in {"wait", "watch"} /\ ~Starting /\ Status # {"ready"}
  /\ Do(c, "failed")
  /\ UNCHANGED <<files, daemon, stops, faults, lost>>

\* stopDaemonCommand: daemon.stop is answered in every state, before the daemon
\* stops; a daemon that is closing answers no more.
RequestStop(c) ==
  /\ c \in Stoppers /\ command[c].pc = "ask"
  /\ \/ /\ path \in open
        /\ command' = [command EXCEPT ![c].pc = "await", ![c].child = path]
     \/ /\ path \in open => daemon[path].cancelled
        /\ Do(c, "readpid")
  /\ UNCHANGED <<files, daemon, stops, faults, lost>>

\* The goroutine of daemon.stop, 100 milliseconds later.
RequestedStop(c) ==
  /\ c \in Stoppers /\ command[c].child # None
  /\ daemon[command[c].child].pc # "dead" /\ ~daemon[command[c].child].cancelled
  /\ daemon' = [daemon EXCEPT ![command[c].child] = Stopped(@)]
  /\ UNCHANGED <<files, command, stops, faults, lost>>

\* Without an answer: the process that the PID file names gets SIGTERM.
SignalByPID(c) ==
  /\ command[c].pc = "readpid"
  /\ IF pidfile = None THEN Do(c, "done")
     ELSE IF daemon[pidfile].pc = "dead" THEN Do(c, "failed")
     ELSE command' = [command EXCEPT ![c].pc = "term", ![c].site = pidfile]
  /\ UNCHANGED <<files, daemon, stops, faults, lost>>

\* SIGTERM ends a process that does not handle signals yet.
Terminate(c) ==
  /\ command[c].pc = "term"
  /\ LET d == command[c].site
     IN IF daemon[d].pc \in {"ready", "notify"}
          THEN Released(d)
          ELSE /\ daemon' = IF daemon[d].pc = "dead" THEN daemon ELSE [daemon EXCEPT ![d] = Stopped(@)]
               /\ UNCHANGED <<lease, open>>
  /\ Do(c, "awaitpid")
  /\ UNCHANGED <<path, pidfile, stops, faults, lost>>

\* waitUntilDaemonUnavailable: one answer that fails is enough.
SeesGone(c) ==
  /\ command[c].pc \in {"await", "awaitpid"} /\ Status \cap {"dial", "broken"} # {}
  /\ Do(c, IF command[c].pc = "await" THEN "done" ELSE "forget")
  /\ UNCHANGED <<files, daemon, stops, faults, lost>>

\* Another daemon answers by then.
StopTimesOut(c) ==
  /\ command[c].pc \in {"await", "awaitpid"} /\ Status = {"ready"} /\ path # command[c].child
  /\ Do(c, "failed")
  /\ UNCHANGED <<files, daemon, stops, faults, lost>>

\* The command removes the PID file, whomever it names by now.
ForgetPID(c) ==
  /\ command[c].pc = "forget"
  /\ pidfile' = None /\ Do(c, "done")
  /\ UNCHANGED <<lease, path, open, daemon, stops, faults, lost>>

-----------------------------------------------------------------------------
DaemonStep(d) ==
  \/ AcquireLease(d) \/ ProbeSocket(d) \/ SameSocket(d) \/ RemoveStale(d) \/ Listen(d)
  \/ MountTCP(d) \/ WritePID(d) \/ MarkReady(d) \/ NotifySignals(d) \/ BeginClosing(d)
  \/ CloseTCP(d) \/ ReadOwnPID(d) \/ RemoveOwnPID(d) \/ CloseListener(d)
  \/ CompareSocket(d) \/ RemoveSocket(d) \/ Exit(d)

CommandStep(c) ==
  \/ Ask(c) \/ ProbeLease(c) \/ ReleaseProbe(c) \/ SeesReady(c) \/ Recheck(c) \/ SeesExit(c)
  \/ StartTimesOut(c) \/ RequestStop(c) \/ RequestedStop(c) \/ SignalByPID(c)
  \/ Terminate(c) \/ SeesGone(c) \/ StopTimesOut(c) \/ ForgetPID(c)
  \/ \E d \in Daemons : Spawn(c, d)

Next ==
  \/ \E d \in Daemons : DaemonStep(d) \/ StopItself(d) \/ StartFails(d) \/ Crash(d)
  \/ \E c \in Commands : CommandStep(c)

Spec == Init /\ [][Next]_vars

-----------------------------------------------------------------------------
(* Properties                                                              *)

TypeOK ==
  /\ lease \in Daemons \cup Commands \cup {None} /\ path \in Daemons \cup {None}
  /\ open \subseteq Daemons /\ pidfile \in Daemons \cup {None}
  /\ daemon \in [Daemons -> [pc : Steps, state : {"starting", "ready", "stopping"},
                             cancelled : BOOLEAN, seen : Daemons \cup {None}]]
  /\ command \in [Commands ->
       [pc : {"ask", "probe", "holding", "spawn", "wait", "watch", "recheck", "await",
              "readpid", "term", "awaitpid", "forget", "done", "failed"},
        child : Daemons \cup {None},
        site : {"none", "ensure", "start", "exited"} \cup Daemons]]
  /\ stops \in 0 .. MaxStops /\ faults \in 0 .. MaxFaults /\ lost \subseteq Daemons

\* The socket file leads to the only open listener: no start, close or crash
\* of another process takes a running daemon's socket away (Mount looks at the
\* file in four steps, Close in two; only the lease keeps them apart).
OneServes == \A d \in open : open = {d} /\ path = d

\* The PID file of a daemon that ended in order is gone, and a running daemon
\* finds nobody else's PID in the file.
PIDIsRight ==
  /\ \A d \in Daemons : daemon[d].pc \in {"notify", "run", "closing"} => pidfile \in {d, None}
  /\ faults = 0 /\ pidfile # None /\ daemon[pidfile].pc = "dead"
       => \E c \in Stoppers : command[c].pc \in {"awaitpid", "forget", "done", "failed"}

\* The TUI's command gives up only when there was a reason: a stop, a failure,
\* or a daemon that was turned away by a probe of the lock.  A child that loses
\* to another command's daemon is none (waitUntilDaemonAvailableOrExit).
StopWanted == stops > 0 \/ \E c \in Stoppers : command[c].pc # "ask"

FailsForAReason ==
  (\E c \in Launchers : command[c].pc = "failed") => StopWanted \/ faults > 0 \/ lost # {}

\* The comment at the probe after a child's end: the flock tells "no winner"
\* from "lost to a concurrent winner".
FailsWithoutWinner ==
  (\E c \in Launchers : command[c].pc = "failed") => StopWanted \/ faults > 0

=============================================================================
