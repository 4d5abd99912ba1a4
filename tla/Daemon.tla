-------------------------------- MODULE Daemon --------------------------------
(***************************************************************************)
(* The life of one daemon process: the main goroutine from mounting its    *)
(* transports to closing them, the connections that its transports accept, *)
(* the gate in front of the service, and the lifecycle monitor that stops  *)
(* a daemon nobody needs.  The monitor reads the sinks, the tables of the  *)
(* transports and the runs under different locks, while connections and    *)
(* runs come and go.                                                       *)
(***************************************************************************)
EXTENDS Naturals, FiniteSets

CONSTANTS
  LocalClients,   \* bound: clients of the local transport
  TcpClients,     \* bound: clients of the TCP transport
  Policies,       \* what the transports declare, together
  MaxHalts        \* bound: stops from outside (requests, signals)

Clients == LocalClients \cup TcpClients
Retentions == {"persistent", "client_bound", "idle_exit", "none"}

DaemonConstants ==
  /\ IsFiniteSet(Clients) /\ LocalClients \cap TcpClients = {}
  /\ Policies \subseteq SUBSET Retentions /\ MaxHalts \in Nat

ASSUME DaemonAssumption == DaemonConstants

VARIABLES
  policy,     \* the retention policies that the mounted transports declare
  stage,      \* where the main goroutine is
  state,      \* what the daemon publishes: "starting", "ready", "stopping"
  cancelled,  \* the daemon's context
  conn,       \* where the goroutine of each client's connection is
  sinks,      \* connections whose sink the daemon has
  table,      \* connections in their transport's table
  runs,       \* clients whose run is executing
  watch,      \* where the lifecycle monitor is
  idle,       \* noClientSince: "unknown" before the first tick, "no" or "since"
  halts,      \* stops from outside so far: "asked" and delayed, or made
  steady      \* history: what has kept the daemon busy all through this evaluation

main == <<policy, stage, state, cancelled, halts>>
clients == <<conn, sinks, table, runs>>
monitor == <<watch, idle, steady>>
daemonVars == <<main, clients, monitor>>

\* What the daemon must live for: connections and runs.
Busy == {<<"conn", c>> : c \in sinks \cup table} \cup {<<"run", c>> : c \in runs}

DaemonInit ==
  /\ policy \in Policies /\ stage = "mount" /\ state = "starting" /\ cancelled = FALSE
  /\ conn = [c \in Clients |-> "none"] /\ sinks = {} /\ table = {} /\ runs = {}
  /\ watch = "none" /\ idle = "unknown" /\ halts = [asked |-> 0, made |-> 0] /\ steady = {}

\* Connections and runs that lasted since the evaluation began, and the runs
\* that such connections started.
Track == steady' = IF cancelled' THEN {} ELSE
  (steady \cap Busy') \cup {<<"run", c>> : c \in {d \in runs' \ runs : <<"conn", d>> \in steady}}

Goto(c, pc) == conn' = [conn EXCEPT ![c] = pc]

-----------------------------------------------------------------------------
(* Connections: the accept loops and ServeConn                             *)

\* The transports serve from the moment they are mounted.
Serving == stage \in {"pid", "start", "run", "cancel", "agent"}

\* The local transport lists a connection at once; TCP only after its hello.
Accept(c) ==
  /\ Serving /\ conn[c] = "none"
  /\ IF c \in LocalClients THEN table' = table \cup {c} /\ Goto(c, "connect")
                           ELSE Goto(c, "hello") /\ UNCHANGED table
  /\ UNCHANGED <<main, sinks, runs, watch, idle>> /\ Track

\* runtime.hello, or the deadline of a client that does not send it.
Hello(c) ==
  /\ conn[c] = "hello" /\ \E pc \in {"connect", "none"} : Goto(c, pc)
  /\ UNCHANGED <<main, sinks, table, runs, watch, idle>> /\ Track

\* OnConnect
AddSink(c) ==
  /\ conn[c] = "connect" /\ sinks' = sinks \cup {c}
  /\ Goto(c, IF c \in LocalClients THEN "serve" ELSE "handshake")
  /\ UNCHANGED <<main, table, runs, watch, idle>> /\ Track

\* OnHandshake, after the sink: even when the transport is already closed.
AddToTable(c) ==
  /\ conn[c] = "handshake" /\ table' = table \cup {c} /\ Goto(c, "serve")
  /\ UNCHANGED <<main, sinks, runs, watch, idle>> /\ Track

\* Handle: the gate reads the state once, and the request goes on from there.
Admit(c) ==
  /\ conn[c] = "serve" /\ state = "ready" /\ Goto(c, "admitted")
  /\ UNCHANGED <<main, sinks, table, runs, watch, idle>> /\ Track

\* agent.send: one run for this client, or none (rejected, or another request).
Answer(c) ==
  /\ conn[c] = "admitted" /\ Goto(c, "serve")
  /\ runs' \in {runs, runs \cup {c}}
  /\ UNCHANGED <<main, sinks, table, watch, idle>> /\ Track

\* daemon.stop passes the gate in every state; it stops after a delay.
AskStop(c) ==
  /\ conn[c] = "serve" /\ halts.asked + halts.made < MaxHalts
  /\ halts' = [halts EXCEPT !.asked = @ + 1]
  /\ UNCHANGED <<policy, stage, state, cancelled, clients, watch, idle>> /\ Track

\* Receive fails, or the context is cancelled between two requests.
Hangup(c) ==
  /\ conn[c] = "serve" /\ Goto(c, "unsink")
  /\ UNCHANGED <<main, sinks, table, runs, watch, idle>> /\ Track

\* Mutant of RemoveSink: the sink of a client that has gone is kept.
RemoveSinkNever(c) ==
  /\ conn[c] = "unsink" /\ UNCHANGED sinks /\ Goto(c, "done")
  /\ UNCHANGED <<main, table, runs, watch, idle>> /\ Track

\* removeConnection: the session is detached, which leaves its run alone, and
\* the sink deleted.
RemoveSink(c) ==
  /\ conn[c] = "unsink" /\ sinks' = sinks \ {c} /\ Goto(c, "done")
  /\ UNCHANGED <<main, table, runs, watch, idle>> /\ Track

\* onDone
RemoveFromTable(c) ==
  /\ conn[c] = "done" /\ table' = table \ {c} /\ Goto(c, "none")
  /\ UNCHANGED <<main, sinks, runs, watch, idle>> /\ Track

\* A run ends, with or without its client.
EndRun(c) ==
  /\ c \in runs /\ runs' = runs \ {c}
  /\ UNCHANGED <<main, conn, sinks, table, watch, idle>> /\ Track

Connection(c) ==
  \/ Accept(c) \/ Hello(c) \/ AddSink(c) \/ AddToTable(c) \/ Admit(c) \/ Answer(c) \/ AskStop(c)
  \/ Hangup(c) \/ RemoveSink(c) \/ RemoveFromTable(c) \/ EndRun(c)

-----------------------------------------------------------------------------
(* The lifecycle monitor                                                   *)

\* evaluate reads the policies, then the sinks, ...
BeginEvaluation ==
  /\ watch \in {"begin", "tick"}
  /\ watch' = IF "persistent" \in policy THEN "keep" ELSE "sinks"
  /\ steady' = (IF cancelled THEN {} ELSE Busy) /\ UNCHANGED <<main, clients, idle>>

\* Mutant of ReadSinks: the runs are read first, the connections after them.
ReadSinksLast ==
  \/ /\ watch = "sinks" /\ watch' = (IF runs # {} THEN "keep" ELSE "tables")
     /\ UNCHANGED <<main, clients, idle>> /\ Track
  \/ /\ watch = "runs" /\ watch' = (IF sinks # {} THEN "keep" ELSE "decide")
     /\ UNCHANGED <<main, clients, idle>> /\ Track

ReadSinks ==
  /\ watch = "sinks" /\ watch' = (IF sinks # {} THEN "keep" ELSE "tables")
  /\ UNCHANGED <<main, clients, idle>> /\ Track

\* ... the connections that the transports count, ...
ReadTables ==
  /\ watch = "tables" /\ watch' = (IF table # {} THEN "keep" ELSE "runs")
  /\ UNCHANGED <<main, clients, idle>> /\ Track

\* ... and the runs.
ReadRuns ==
  /\ watch = "runs" /\ watch' = (IF runs # {} THEN "keep" ELSE "decide")
  /\ UNCHANGED <<main, clients, idle>> /\ Track

Keep ==
  /\ watch = "keep" /\ watch' = "tick" /\ idle' = "no"
  /\ UNCHANGED <<main, clients>> /\ Track

StopAtOnce == "client_bound" \in policy \/ "idle_exit" \notin policy

\* Nobody: the first tick starts the grace, a later one may find it over.
\* The evaluation before the first tick acts only on a stop at once.
StartGrace ==
  /\ watch = "decide" /\ ~StopAtOnce /\ watch' = "tick"
  /\ idle' = IF idle = "unknown" THEN "no" ELSE "since"
  /\ UNCHANGED <<main, clients>> /\ Track

GraceOver ==
  /\ watch = "decide" /\ (StopAtOnce \/ idle = "since") /\ watch' = "stop"
  /\ UNCHANGED <<main, clients, idle>> /\ Track

\* Watch calls Stop.
MonitorStops ==
  /\ watch = "stop" /\ watch' = "ended" /\ state' = "stopping" /\ cancelled' = TRUE
  /\ UNCHANGED <<policy, stage, halts, clients, idle>> /\ Track

MonitorEnds ==
  /\ watch = "tick" /\ cancelled /\ watch' = "ended"
  /\ UNCHANGED <<main, clients, idle>> /\ Track

Watch ==
  BeginEvaluation \/ ReadSinks \/ ReadTables \/ ReadRuns \/ Keep \/ StartGrace \/ GraceOver
  \/ MonitorStops \/ MonitorEnds

-----------------------------------------------------------------------------
(* The main goroutine                                                      *)

Stage(from, to) == stage = from /\ stage' = to

Mount ==
  /\ Stage("mount", "pid")
  /\ UNCHANGED <<policy, state, cancelled, halts, clients, watch, idle>> /\ Track

\* Whatever a stop request has published meanwhile.
PublishReady ==
  /\ Stage("pid", "start") /\ state' = "ready"
  /\ UNCHANGED <<policy, cancelled, halts, clients, watch, idle>> /\ Track

StartMonitor ==
  /\ Stage("start", "run") /\ watch' = "begin"
  /\ UNCHANGED <<policy, state, cancelled, halts, clients, idle>> /\ Track

\* Stop: of a delayed request...
Stop ==
  /\ stage # "gone" /\ halts.asked > 0 /\ halts' = [asked |-> halts.asked - 1, made |-> halts.made + 1]
  /\ state' = "stopping" /\ cancelled' = TRUE
  /\ UNCHANGED <<policy, stage, clients, watch, idle>> /\ Track

\* ... or of a signal, once the handler is installed.
Signal ==
  /\ stage = "run" /\ halts.asked + halts.made < MaxHalts /\ halts' = [halts EXCEPT !.made = @ + 1]
  /\ state' = "stopping" /\ cancelled' = TRUE
  /\ UNCHANGED <<policy, stage, clients, watch, idle>> /\ Track

\* Mutant of BeginShutdown: the shutdown waits until the clients have left.
BeginShutdownWhenAlone ==
  /\ Stage("run", "cancel") /\ cancelled /\ sinks = {}
  /\ UNCHANGED <<policy, state, cancelled, halts, clients, watch, idle>> /\ Track

BeginShutdown ==
  /\ Stage("run", "cancel") /\ cancelled
  /\ UNCHANGED <<policy, state, cancelled, halts, clients, watch, idle>> /\ Track

\* cancelAllRuns only asks the runs to end; Agent.Close comes next.
CloseAgent ==
  /\ Stage("cancel", "agent")
  /\ UNCHANGED <<policy, state, cancelled, halts, clients, watch, idle>> /\ Track

\* The transports forget and close their connections.
CloseTransports ==
  /\ Stage("agent", "closed") /\ table' = {}
  /\ UNCHANGED <<policy, state, cancelled, halts, conn, sinks, runs, watch, idle>> /\ Track

\* The process ends, and everything in it.
ProcessEnds ==
  /\ Stage("closed", "gone") /\ conn' = [c \in Clients |-> "none"]
  /\ sinks' = {} /\ table' = {} /\ runs' = {} /\ watch' = "ended"
  /\ UNCHANGED <<policy, state, cancelled, halts, idle>> /\ Track

Main == Mount \/ PublishReady \/ StartMonitor \/ BeginShutdown \/ CloseAgent \/ CloseTransports \/ ProcessEnds

DaemonNext == Main \/ Stop \/ Signal \/ Watch \/ \E c \in Clients : Connection(c)

\* The goroutines run; nobody connects, asks or hangs up unless they want to.
\* A run ends when it is cancelled.  Time passes: the grace is over some day.
Fairness ==
  /\ WF_daemonVars(Main) /\ WF_daemonVars(Stop) /\ WF_daemonVars(Watch) /\ SF_daemonVars(GraceOver)
  /\ \A c \in Clients : WF_daemonVars(Hello(c) \/ AddSink(c) \/ AddToTable(c) \/ Answer(c)
                                \/ RemoveSink(c) \/ RemoveFromTable(c))

DaemonSpec == DaemonInit /\ [][DaemonNext]_daemonVars /\ Fairness

-----------------------------------------------------------------------------
(* Properties                                                              *)

\* The values of the variables.
DaemonTypeOK ==
  /\ policy \in Policies /\ state \in {"starting", "ready", "stopping"} /\ cancelled \in BOOLEAN
  /\ stage \in {"mount", "pid", "start", "run", "cancel", "agent", "closed", "gone"}
  /\ conn \in [Clients -> {"none", "hello", "connect", "handshake", "serve", "admitted",
                            "unsink", "done"}]
  /\ sinks \subseteq Clients /\ table \subseteq Clients /\ runs \subseteq Clients
  /\ watch \in {"none", "begin", "tick", "sinks", "tables", "runs", "decide", "keep", "stop", "ended"}
  /\ idle \in {"unknown", "no", "since"} /\ halts \in [asked : 0 .. MaxHalts, made : 0 .. MaxHalts]
  /\ steady \subseteq {"conn", "run"} \X Clients

\* The monitor never stops a daemon that somebody was using from the beginning
\* to the end of its evaluation: connected all the time, or connected until its
\* run was started and then gone with the run still executing
\* (lifecycle.go evaluate, hasActiveConnection).
NoLastingClientStopped == watch = "stop" /\ ~cancelled => steady = {}

\* A daemon without a persistent transport stops once everybody has left and
\* the runs have ended: no connection that has gone keeps it alive
\* (lifecycle.go Watch, daemon.go removeConnection).
Deserted == runs = {} /\ \A c \in Clients : conn[c] \in {"none", "hello"}
IdleDaemonStops == "persistent" \notin policy => (<>[]Deserted => <>cancelled)

\* A stop that was asked for ends the process, whoever is connected and
\* whatever is executing (daemon.go run).
StopCompletes == (halts.asked > 0 \/ cancelled) ~> stage = "gone"

\* Both: a daemon that is not needed, or not wanted, ends.
DaemonEnds == IdleDaemonStops /\ StopCompletes

=============================================================================
