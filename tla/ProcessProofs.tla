--------------------------- MODULE ProcessProofs ----------------------------
(***************************************************************************)
(* Proofs about the processes of the machine, in three parts that share    *)
(* nothing but this file: Instance, for any number of daemons and          *)
(* commands; Daemon, one of these daemons from within, for any clients,    *)
(* transports and stops; and ExecJobs, the processes that it runs in the   *)
(* background, for any number of jobs, owners and clean-ups and any        *)
(* limits.                                                                 *)
(*                                                                         *)
(* In Instance the lease orders everything: a daemon looks at the socket   *)
(* file, listens, writes the PID file and cleans up between taking the     *)
(* lease and giving it up.                                                 *)
(***************************************************************************)
EXTENDS Instance, Daemon, ExecJobs, Integers, FiniteSetTheorems, WellFoundedInduction,
        NaturalsInduction, TLAPS

-----------------------------------------------------------------------------
(* The commands and the daemons of one user: proofs about Instance.        *)

Process == [pc : Steps, state : {"starting", "ready", "stopping"},
            cancelled : BOOLEAN, seen : Daemons \cup {None}]
Request == [pc : {"ask", "probe", "holding", "spawn", "wait", "watch", "recheck", "await",
                  "readpid", "term", "awaitpid", "forget", "done", "failed"},
            child : Daemons \cup {None},
            site : {"none", "ensure", "start", "exited"} \cup Daemons]

\* Where a daemon has the lease; where its listener is open; and where the PID
\* file is its own.
Holding == {"probe", "same", "remove", "listen", "tcp", "pid", "ready", "notify", "run", "closing",
            "readpid", "rmpid", "close", "unlink", "rmsocket", "exit"}
Listens == {"tcp", "pid", "ready", "notify", "run", "closing", "readpid", "rmpid", "close"}
Owning == {"ready", "notify", "run", "closing", "readpid", "rmpid"}

\* Where a stop command may have removed the PID file's owner.
Stopper(r) == r.pc \in {"awaitpid", "forget", "done", "failed"}

\* What a command may be doing, and what it remembers then.
Role(c, r) ==
  /\ c \in Stoppers =>
       /\ r.pc \in {"ask", "await", "readpid", "term", "awaitpid", "forget", "done", "failed"}
       /\ r.pc = "ask" => r.child = None
  /\ c \notin Stoppers =>
       r.pc \in {"ask", "probe", "holding", "spawn", "wait", "watch", "recheck", "done", "failed"}
  /\ r.pc \in {"probe", "holding"} => r.site \in {"ensure", "start", "exited"}
  /\ r.pc = "term" => r.site \in Daemons
  /\ r.pc = "recheck" => c \notin Launchers

Roles == \A c \in Commands : Role(c, command[c])

\* The lease has one holder, who knows.
Locked ==
  /\ \A d \in Daemons : daemon[d].pc \in Holding <=> lease = d
  /\ \A c \in Commands : command[c].pc = "holding" <=> lease = c

\* An open listener belongs to the holder and is where the socket file leads.
Listening == \A d \in open : daemon[d].pc \in Listens /\ path = d

\* The holder's PID file is nobody else's; and it is gone when the daemon went in
\* order.
Named ==
  /\ \A d \in Daemons : daemon[d].pc \in Owning => pidfile \in {d, None}
  /\ faults = 0 /\ pidfile # None =>
       daemon[pidfile].pc \in Owning \/ \E c \in Stoppers : Stopper(command[c])

Inv == TypeOK /\ Roles /\ Locked /\ Listening /\ Named

-----------------------------------------------------------------------------
(* Types.                                                                  *)

\* What a stop request and its wait leave is of its type.
LEMMA StoppedType ==
  ASSUME NEW r \in Process
  PROVE  Stopped(r) \in Process /\ Stopped(r).pc = r.pc
  BY DEF Process, Stopped

\* The program starts in the invariant.
LEMMA InitInv == ASSUME InstanceAssumption, Init PROVE Inv
  BY DEF InstanceAssumption, Init, Inv, TypeOK, Roles, Role, Locked, Listening, Named, Fresh, Idle,
         Steps, Holding, Owning, Listens, Stopper, Starters, Commands

\* The roles of a command exclude each other.
LEMMA Disjoint ==
  ASSUME InstanceAssumption
  PROVE  /\ None \notin Daemons /\ None \notin Commands
         /\ \A c \in Commands : c \notin Daemons /\ (c \in Stoppers <=> c \notin Starters)
         /\ Stoppers \subseteq Commands
  BY DEF InstanceAssumption, Starters, Commands

-----------------------------------------------------------------------------
(* A daemon's own steps, and its failures.                                 *)

\* A step of a daemon keeps the invariant.
LEMMA DaemonInv ==
  ASSUME InstanceAssumption, Inv, NEW d \in Daemons,
         DaemonStep(d) \/ StopItself(d) \/ StartFails(d) \/ Crash(d)
  PROVE  Inv'
<1> USE Disjoint DEF Inv
<1>r. daemon \in [Daemons -> Process] /\ UNCHANGED command
  BY DEF TypeOK, Process, DaemonStep, AcquireLease, ProbeSocket, SameSocket, RemoveStale, Listen,
         MountTCP, WritePID, MarkReady, NotifySignals, BeginClosing, CloseTCP, ReadOwnPID,
         RemoveOwnPID, CloseListener, CompareSocket, RemoveSocket, Exit, StopItself, StartFails, Crash
<1>s. Roles' BY <1>r DEF Roles
<1>t. SUFFICES TypeOK' /\ Locked' /\ Listening' /\ Named'
  BY <1>s
<1>1. CASE AcquireLease(d)
  <2> USE <1>r, <1>1 DEF AcquireLease, Go, MayLock, files
  <2> QED BY SMTT(60) DEF TypeOK, Process, Steps, Locked, Holding, Listening, Listens, Named, Owning
<1>2. CASE ProbeSocket(d)
  <2> USE <1>r, <1>2 DEF ProbeSocket, Go, files
  <2> QED BY SMTT(60) DEF TypeOK, Process, Steps, Locked, Holding, Listening, Listens, Named, Owning
<1>3. CASE SameSocket(d)
  <2> USE <1>r, <1>3 DEF SameSocket, Go, files
  <2> QED BY SMTT(60) DEF TypeOK, Process, Steps, Locked, Holding, Listening, Listens, Named, Owning
<1>4. CASE RemoveStale(d)
  <2> USE <1>r, <1>4 DEF RemoveStale, Go
  <2> QED BY SMTT(60) DEF TypeOK, Process, Steps, Locked, Holding, Listening, Listens, Named, Owning
<1>5. CASE Listen(d)
  <2> USE <1>r, <1>5 DEF Listen, Go
  <2> QED BY SMTT(60) DEF TypeOK, Process, Steps, Locked, Holding, Listening, Listens, Named, Owning
<1>6. CASE MountTCP(d)
  <2> USE <1>r, <1>6 DEF MountTCP, Go, files
  <2> QED BY SMTT(60) DEF TypeOK, Process, Steps, Locked, Holding, Listening, Listens, Named, Owning
<1>7. CASE WritePID(d)
  <2> USE <1>r, <1>7 DEF WritePID, Go
  <2> QED BY SMTT(60) DEF TypeOK, Process, Steps, Locked, Holding, Listening, Listens, Named, Owning
<1>8. CASE MarkReady(d)
  <2> USE <1>r, <1>8 DEF MarkReady, files
  <2>0. [daemon[d] EXCEPT !.pc = "notify", !.state = "ready"] \in Process
    BY DEF Process, Steps
  <2>5. daemon' \in [Daemons -> Process] /\ daemon'[d].pc = "notify"
    BY <2>0
  <2>1. TypeOK' BY <2>0 DEF TypeOK, Process, Steps
  <2>2. Locked' BY <2>0 DEF Locked, Process, Holding, TypeOK
  <2>3. Listening' BY <2>0 DEF Locked, Listening, Process, Holding, Listens, TypeOK
  <2>4. Named' BY <2>0 DEF Locked, Named, Process, Holding, Owning, TypeOK
  <2> QED BY <2>1, <2>2, <2>3, <2>4
<1>9. CASE NotifySignals(d)
  <2> USE <1>r, <1>9 DEF NotifySignals, Go, files
  <2> QED BY SMTT(60) DEF TypeOK, Process, Steps, Locked, Holding, Listening, Listens, Named, Owning
<1>10. CASE BeginClosing(d)
  <2> USE <1>r, <1>10 DEF BeginClosing, Go, files
  <2> QED BY SMTT(60) DEF TypeOK, Process, Steps, Locked, Holding, Listening, Listens, Named, Owning
<1>11. CASE CloseTCP(d)
  <2> USE <1>r, <1>11 DEF CloseTCP, Go, files
  <2> QED BY SMTT(60) DEF TypeOK, Process, Steps, Locked, Holding, Listening, Listens, Named, Owning
<1>12. CASE ReadOwnPID(d)
  <2> USE <1>r, <1>12 DEF ReadOwnPID, Go, files
  <2> QED BY SMTT(60) DEF TypeOK, Process, Steps, Locked, Holding, Listening, Listens, Named, Owning
<1>13. CASE RemoveOwnPID(d)
  <2> USE <1>r, <1>13 DEF RemoveOwnPID, Go, PIDGone
  <2> QED BY SMTT(60) DEF TypeOK, Process, Steps, Locked, Holding, Listening, Listens, Named, Owning
<1>14. CASE CloseListener(d)
  <2> USE <1>r, <1>14 DEF CloseListener, Go
  <2> QED BY SMTT(60) DEF TypeOK, Process, Steps, Locked, Holding, Listening, Listens, Named, Owning
<1>15. CASE CompareSocket(d)
  <2> USE <1>r, <1>15 DEF CompareSocket, Go, files
  <2> QED BY SMTT(60) DEF TypeOK, Process, Steps, Locked, Holding, Listening, Listens, Named, Owning
<1>16. CASE RemoveSocket(d)
  <2> USE <1>r, <1>16 DEF RemoveSocket, Go
  <2> QED BY SMTT(60) DEF TypeOK, Process, Steps, Locked, Holding, Listening, Listens, Named, Owning
<1>17. CASE Exit(d)
  <2> USE <1>r, <1>17 DEF Exit, Released
  <2> QED BY SMTT(60) DEF TypeOK, Process, Steps, Locked, Holding, Listening, Listens, Named, Owning
<1>18. CASE StopItself(d)
  <2> USE <1>r, <1>18 DEF StopItself, files
  <2>0. Stopped(daemon[d]) \in Process /\ Stopped(daemon[d]).pc = daemon[d].pc
    BY StoppedType
  <2>1. TypeOK' BY <2>0 DEF TypeOK, Process, Steps
  <2>2. Locked' BY <2>0 DEF Locked, Process, Holding, TypeOK
  <2>3. Listening' BY <2>0 DEF Locked, Listening, Process, Holding, Listens, TypeOK
  <2>4. Named' BY <2>0 DEF Locked, Named, Process, Holding, Owning, TypeOK
  <2> QED BY <2>1, <2>2, <2>3, <2>4
<1>19. CASE StartFails(d)
  <2> USE <1>r, <1>19 DEF StartFails, Go, files
  <2> QED BY SMTT(60) DEF TypeOK, Process, Steps, Locked, Holding, Listening, Listens, Named, Owning
<1>20. CASE Crash(d)
  <2> USE <1>r, <1>20 DEF Crash, Released
  <2> QED BY SMTT(60) DEF TypeOK, Process, Steps, Locked, Holding, Listening, Listens, Named, Owning
<1> QED
  BY <1>1, <1>2, <1>3, <1>4, <1>5, <1>6, <1>7, <1>8, <1>9, <1>10, <1>11, <1>12, <1>13, <1>14, <1>15, <1>16, <1>17, <1>18, <1>19, <1>20 DEF DaemonStep

-----------------------------------------------------------------------------
(* The commands' steps.                                                    *)

\* What a command does to itself: it becomes r, which is in order.
LEMMA CommandInv ==
  ASSUME InstanceAssumption, Inv, NEW c \in Commands, NEW r \in Request, Role(c, r),
         command' = [command EXCEPT ![c] = r]
  PROVE  /\ command' \in [Commands -> Request] /\ Roles'
         /\ \A e \in Commands : command'[e] = IF e = c THEN r ELSE command[e]
<1> USE DEF Inv, TypeOK
<1>1. command \in [Commands -> Request] BY DEF Request
<1>2. \A e \in Commands : command'[e] = IF e = c THEN r ELSE command[e]
  BY <1>1
<1>3. Roles' BY <1>2 DEF Roles
<1> QED BY <1>1, <1>2, <1>3

\* Steps that leave the files and the daemons alone: nothing but the command's
\* own state counts.
LEMMA QuietInv ==
  ASSUME InstanceAssumption, Inv, NEW c \in Commands, NEW r \in Request, Role(c, r),
         command' = [command EXCEPT ![c] = r], UNCHANGED <<files, daemon, stops, faults, lost>>,
         r.pc = "holding" <=> command[c].pc = "holding",
         Stopper(command[c]) => Stopper(r)
  PROVE  Inv'
<1> USE Disjoint DEF Inv, files
<1>1. command' \in [Commands -> Request] /\ Roles'
      /\ \A e \in Commands : command'[e] = IF e = c THEN r ELSE command[e]
  BY CommandInv
<1>2. TypeOK' BY <1>1 DEF TypeOK, Request
<1>3. Locked' BY <1>1 DEF Locked
<1>4. Listening' BY DEF Listening
<1>5. Named' BY <1>1 DEF Named
<1> QED BY <1>1, <1>2, <1>3, <1>4, <1>5

\* The steps of a command, one by one.
LEMMA CommandSteps ==
  ASSUME InstanceAssumption, Inv, NEW c \in Commands, CommandStep(c)
  PROVE  Inv'
<1> USE Disjoint
<1>0. command[c] \in Request /\ Role(c, command[c]) /\ daemon \in [Daemons -> Process]
  BY DEF Inv, TypeOK, Roles, Request, Process
<1> DEFINE Kept(r) == /\ r \in Request /\ Role(c, r)
                      /\ r.pc = "holding" <=> command[c].pc = "holding"
                      /\ Stopper(command[c]) => Stopper(r)
<1>q. ASSUME NEW r, Kept(r), command' = [command EXCEPT ![c] = r],
             UNCHANGED <<files, daemon, stops, faults, lost>>
      PROVE  Inv'
  BY <1>q, QuietInv
<1>1. CASE Ask(c)
  <2>1. PICK s \in Status : command' = [command EXCEPT ![c] =
         CASE s = "ready"                            -> [@ EXCEPT !.pc = "done"]
           [] s = "dial" /\ c \in Launchers          -> [@ EXCEPT !.pc = "probe", !.site = "ensure"]
           [] s = "dial" /\ c \in Servers            -> [@ EXCEPT !.pc = "probe", !.site = "start"]
           [] s \in {"starting", "stopping"} /\ c \in Launchers -> [@ EXCEPT !.pc = "wait"]
           [] OTHER                                  -> [@ EXCEPT !.pc = "failed"]]
    BY <1>1 DEF Ask
  <2>2. /\ c \notin Stoppers /\ command[c].pc = "ask" /\ c \in Launchers \cup Servers
        /\ UNCHANGED <<files, daemon, stops, faults, lost>>
    BY <1>1 DEF Ask, Starters
  <2>3. PICK p \in {"done", "probe", "wait", "failed"}, t \in {"ensure", "start", command[c].site} :
          /\ command' = [command EXCEPT ![c] = [command[c] EXCEPT !.pc = p, !.site = t]]
          /\ p = "probe" => t \in {"ensure", "start"}
    <3>1. \A p : [command[c] EXCEPT !.pc = p] = [command[c] EXCEPT !.pc = p, !.site = command[c].site]
      BY <1>0 DEF Request
    <3> QED BY <2>1, <2>2, <3>1
  <2>4. Kept([command[c] EXCEPT !.pc = p, !.site = t])
    BY <1>0, <2>2, <2>3 DEF Request, Role, Stopper
  <2> QED BY <1>q, <2>2, <2>3, <2>4
<1>2. CASE SeesReady(c)
  <2> DEFINE r == [command[c] EXCEPT !.pc = IF c \in Servers THEN "recheck" ELSE "done"]
  <2>1. command' = [command EXCEPT ![c] = r] /\ UNCHANGED <<files, daemon, stops, faults, lost>>
    BY <1>2 DEF SeesReady, Do
  <2>2. Kept(r) BY <1>0, <1>2, InstanceAssumption DEF SeesReady, Request, Role, Stopper
  <2> QED BY <1>q, <2>1, <2>2
<1>3. CASE SeesExit(c)
  <2> DEFINE r == [command[c] EXCEPT !.pc = "probe", !.site = "exited"]
  <2>1. command' = [command EXCEPT ![c] = r] /\ UNCHANGED <<files, daemon, stops, faults, lost>>
    BY <1>3 DEF SeesExit, Do
  <2>2. Kept(r) BY <1>0, <1>3 DEF SeesExit, Request, Role, Stopper
  <2> QED BY <1>q, <2>1, <2>2
<1>4. CASE StartTimesOut(c)
  <2> DEFINE r == [command[c] EXCEPT !.pc = "failed"]
  <2>1. command' = [command EXCEPT ![c] = r] /\ UNCHANGED <<files, daemon, stops, faults, lost>>
    BY <1>4 DEF StartTimesOut, Do
  <2>2. Kept(r) BY <1>0, <1>4 DEF StartTimesOut, Request, Role, Stopper
  <2> QED BY <1>q, <2>1, <2>2
<1>5. CASE SeesGone(c)
  <2> DEFINE r == [command[c] EXCEPT !.pc = IF command[c].pc = "await" THEN "done" ELSE "forget"]
  <2>1. command' = [command EXCEPT ![c] = r] /\ UNCHANGED <<files, daemon, stops, faults, lost>>
    BY <1>5 DEF SeesGone, Do
  <2>2. Kept(r) BY <1>0, <1>5 DEF SeesGone, Request, Role, Stopper
  <2> QED BY <1>q, <2>1, <2>2
<1>6. CASE StopTimesOut(c)
  <2> DEFINE r == [command[c] EXCEPT !.pc = "failed"]
  <2>1. command' = [command EXCEPT ![c] = r] /\ UNCHANGED <<files, daemon, stops, faults, lost>>
    BY <1>6 DEF StopTimesOut, Do
  <2>2. Kept(r) BY <1>0, <1>6 DEF StopTimesOut, Request, Role, Stopper
  <2> QED BY <1>q, <2>1, <2>2
<1>7. CASE Recheck(c)
  <2>1. PICK s \in Status :
          command' = [command EXCEPT ![c] = [command[c] EXCEPT !.pc = IF s = "ready" THEN "done" ELSE "failed"]]
    BY <1>7 DEF Recheck, Do
  <2>2. Kept([command[c] EXCEPT !.pc = IF s = "ready" THEN "done" ELSE "failed"])
    BY <1>0, <1>7 DEF Recheck, Request, Role, Stopper
  <2> QED BY <1>7, <1>q, <2>1, <2>2 DEF Recheck
<1>8. CASE RequestStop(c)
  <2>1. CASE command' = [command EXCEPT ![c] = [command[c] EXCEPT !.pc = "await", !.child = path]]
    <3>1. Kept([command[c] EXCEPT !.pc = "await", !.child = path])
      BY <1>0, <1>8 DEF RequestStop, Request, Role, Stopper, Inv, TypeOK
    <3> QED BY <1>8, <1>q, <2>1, <3>1 DEF RequestStop
  <2>2. CASE command' = [command EXCEPT ![c] = [command[c] EXCEPT !.pc = "readpid"]]
    <3>1. Kept([command[c] EXCEPT !.pc = "readpid"])
      BY <1>0, <1>8 DEF RequestStop, Request, Role, Stopper
    <3> QED BY <1>8, <1>q, <2>2, <3>1 DEF RequestStop
  <2> QED BY <1>8, <2>1, <2>2 DEF RequestStop, Do
<1>9. CASE SignalByPID(c)
  <2>1. ASSUME NEW p \in {"done", "failed"}, command' = [command EXCEPT ![c] = [command[c] EXCEPT !.pc = p]]
        PROVE  Inv'
    <3>1. Kept([command[c] EXCEPT !.pc = p])
      BY <1>0, <1>9 DEF SignalByPID, Request, Role, Stopper
    <3> QED BY <1>9, <1>q, <2>1, <3>1 DEF SignalByPID
  <2>2. CASE pidfile # None /\ command' = [command EXCEPT ![c] = [command[c] EXCEPT !.pc = "term", !.site = pidfile]]
    <3>1. Kept([command[c] EXCEPT !.pc = "term", !.site = pidfile])
      BY <1>0, <1>9, <2>2 DEF SignalByPID, Request, Role, Stopper, Inv, TypeOK
    <3> QED BY <1>9, <1>q, <2>2, <3>1 DEF SignalByPID
  <2> QED BY <1>9, <2>1, <2>2 DEF SignalByPID, Do
\* The steps that touch more than the command.
<1>10. CASE ProbeLease(c) /\ lease = None
  <2> DEFINE r == [command[c] EXCEPT !.pc = "holding"]
  <2>1. command' = [command EXCEPT ![c] = r] /\ lease' = c
        /\ UNCHANGED <<path, open, pidfile, daemon, stops, faults, lost>>
    BY <1>10 DEF ProbeLease, Do
  <2>2. r \in Request /\ Role(c, r) /\ r.pc = "holding" /\ ~Stopper(command[c])
    BY <1>0, <1>10 DEF ProbeLease, Request, Role, Stopper
  <2> HIDE DEF r
  <2>3. command' \in [Commands -> Request] /\ Roles'
        /\ \A e \in Commands : command'[e] = IF e = c THEN r ELSE command[e]
    BY <2>1, <2>2, CommandInv
  <2>4. TypeOK' BY <2>1, <2>3 DEF Inv, TypeOK, Request
  <2>5. Locked' BY <1>10, <2>1, <2>2, <2>3 DEF Inv, Locked
  <2>6. Listening' BY <2>1 DEF Inv, Listening
  <2>7. Named' BY <2>1, <2>2, <2>3 DEF Inv, Named
  <2> QED BY <2>3, <2>4, <2>5, <2>6, <2>7 DEF Inv
<1>11. CASE ProbeLease(c) /\ lease # None
  <2>1. command' = [command EXCEPT ![c] = Contested(c)] /\ UNCHANGED <<files, daemon, stops, faults, lost>>
    BY <1>11 DEF ProbeLease, files
  <2>2. Kept(Contested(c))
    <3>1. PICK p \in {"watch", "wait"} : Contested(c) = [command[c] EXCEPT !.pc = p, !.child = None]
      BY DEF Contested
    <3> QED BY <1>0, <1>11, <3>1 DEF ProbeLease, Request, Role, Stopper
  <2> QED BY <1>q, <2>1, <2>2
<1>12. CASE ReleaseProbe(c)
  <2>1. PICK r \in Request : /\ Role(c, r) /\ command' = [command EXCEPT ![c] = r]
                             /\ r.pc # "holding"
    <3>1. command[c].site \in {"ensure", "start", "exited"} /\ c \notin Stoppers
      BY <1>0, <1>12 DEF ReleaseProbe, Role
    <3>2. CASE command[c].site = "ensure"
      <4> DEFINE r == [command[c] EXCEPT !.pc = "probe", !.site = "start"]
      <4>1. command' = [command EXCEPT ![c] = r] BY <1>12, <3>2 DEF ReleaseProbe
      <4>2. r \in Request /\ Role(c, r) /\ r.pc # "holding" BY <1>0, <3>1 DEF Request, Role
      <4> QED BY <4>1, <4>2
    <3>3. CASE command[c].site = "start"
      <4> DEFINE r == [command[c] EXCEPT !.pc = "spawn"]
      <4>1. command' = [command EXCEPT ![c] = r] BY <1>12, <3>3 DEF ReleaseProbe
      <4>2. r \in Request /\ Role(c, r) /\ r.pc # "holding" BY <1>0, <3>1 DEF Request, Role
      <4> QED BY <4>1, <4>2
    <3>4. CASE command[c].site = "exited"
      <4> DEFINE r == [command[c] EXCEPT !.pc = "failed"]
      <4>1. command' = [command EXCEPT ![c] = r] BY <1>12, <3>4 DEF ReleaseProbe
      <4>2. r \in Request /\ Role(c, r) /\ r.pc # "holding" BY <1>0, <3>1 DEF Request, Role
      <4> QED BY <4>1, <4>2
    <3> QED BY <3>1, <3>2, <3>3, <3>4
  <2>2. /\ lease' = None /\ command[c].pc = "holding"
        /\ UNCHANGED <<path, open, pidfile, daemon, stops, faults, lost>>
    BY <1>12 DEF ReleaseProbe
  <2>3. command' \in [Commands -> Request] /\ Roles'
        /\ \A e \in Commands : command'[e] = IF e = c THEN r ELSE command[e]
    BY <2>1, CommandInv
  <2>4. TypeOK' BY <2>2, <2>3 DEF Inv, TypeOK, Request
  <2>5. Locked' BY <2>1, <2>2, <2>3 DEF Inv, Locked
  <2>6. Listening' BY <2>2 DEF Inv, Listening
  <2>7. Named' BY <2>2, <2>3 DEF Inv, Named, Stopper
  <2> QED BY <2>3, <2>4, <2>5, <2>6, <2>7 DEF Inv
<1>13. ASSUME NEW d \in Daemons, Spawn(c, d) PROVE Inv'
  <2> DEFINE r == [command[c] EXCEPT !.pc = "watch", !.child = d]
  <2>1. /\ command' = [command EXCEPT ![c] = r] /\ daemon' = [daemon EXCEPT ![d].pc = "lease"]
        /\ daemon[d].pc = "none" /\ UNCHANGED <<files, stops, faults, lost>>
    BY <1>13 DEF Spawn, Go
  <2>2. r \in Request /\ Role(c, r) /\ r.pc # "holding" /\ command[c].pc # "holding" /\ ~Stopper(command[c])
    BY <1>0, <1>13 DEF Spawn, Request, Role, Stopper
  <2> HIDE DEF r
  <2>3. command' \in [Commands -> Request] /\ Roles'
        /\ \A e \in Commands : command'[e] = IF e = c THEN r ELSE command[e]
    BY <2>1, <2>2, CommandInv
  <2>4. daemon' \in [Daemons -> Process]
        /\ \A e \in Daemons : daemon'[e].pc = IF e = d THEN "lease" ELSE daemon[e].pc
    BY <1>0, <2>1 DEF Process, Steps
  <2>5. TypeOK' BY <2>1, <2>3, <2>4 DEF Inv, TypeOK, Request, Process, files
  <2>6. Locked' BY <2>1, <2>2, <2>3, <2>4 DEF Inv, Locked, Holding, files
  <2>7. Listening' BY <2>1, <2>4 DEF Inv, TypeOK, Listening, Listens, files
  <2>8. Named' BY <2>1, <2>2, <2>3, <2>4 DEF Inv, TypeOK, Named, Owning, files
  <2> QED BY <2>3, <2>5, <2>6, <2>7, <2>8 DEF Inv
<1>14. CASE RequestedStop(c)
  <2> DEFINE d == command[c].child
  <2>1. /\ d \in Daemons /\ daemon' = [daemon EXCEPT ![d] = Stopped(daemon[d])]
        /\ UNCHANGED <<files, command, stops, faults, lost>>
    BY <1>0, <1>14 DEF RequestedStop, Request
  <2> HIDE DEF d
  <2>2. Stopped(daemon[d]) \in Process /\ Stopped(daemon[d]).pc = daemon[d].pc
    BY <1>0, <2>1, StoppedType
  <2>3. daemon' \in [Daemons -> Process] /\ \A e \in Daemons : daemon'[e].pc = daemon[e].pc
    BY <1>0, <2>1, <2>2
  <2>4. TypeOK' BY <2>1, <2>3 DEF Inv, TypeOK, Process, files
  <2>5. Roles' BY <2>1 DEF Inv, Roles
  <2>6. Locked' BY <2>1, <2>3 DEF Inv, Locked, files
  <2>7. Listening' BY <2>1, <2>3 DEF Inv, TypeOK, Listening, files
  <2>8. Named' BY <2>1, <2>3 DEF Inv, TypeOK, Named, files
  <2> QED BY <2>4, <2>5, <2>6, <2>7, <2>8 DEF Inv
<1>15. CASE Terminate(c)
  <2> DEFINE d == command[c].site
             r == [command[c] EXCEPT !.pc = "awaitpid"]
  <2>0. /\ d \in Daemons /\ c \in Stoppers /\ command[c].pc = "term"
        /\ command' = [command EXCEPT ![c] = r] /\ UNCHANGED <<path, pidfile, stops, faults, lost>>
    BY <1>0, <1>15 DEF Terminate, Do, Role
  <2>1. r \in Request /\ Role(c, r) /\ r.pc = "awaitpid"
    BY <1>0, <2>0 DEF Request, Role
  <2>2. \/ Released(d) /\ daemon[d].pc \in {"ready", "notify"}
        \/ daemon' = daemon /\ UNCHANGED <<lease, open>>
        \/ daemon' = [daemon EXCEPT ![d] = Stopped(daemon[d])] /\ UNCHANGED <<lease, open>>
    BY <1>15 DEF Terminate
  <2> HIDE DEF d, r
  <2>3. command' \in [Commands -> Request] /\ Roles'
        /\ \A e \in Commands : command'[e] = IF e = c THEN r ELSE command[e]
    BY <2>0, <2>1, CommandInv
  <2>4. Stopped(daemon[d]) \in Process /\ Stopped(daemon[d]).pc = daemon[d].pc
    BY <1>0, <2>0, StoppedType
  <2>5. daemon' \in [Daemons -> Process]
    BY <1>0, <2>0, <2>2, <2>4 DEF Released, Process, Steps
  <2>6. \/ /\ daemon[d].pc \in {"ready", "notify"} /\ open' = open \ {d}
           /\ lease' = IF lease = d THEN None ELSE lease
           /\ \A e \in Daemons : daemon'[e].pc = IF e = d THEN "dead" ELSE daemon[e].pc
        \/ /\ \A e \in Daemons : daemon'[e].pc = daemon[e].pc
           /\ UNCHANGED <<lease, open>>
    BY <1>0, <2>0, <2>2, <2>4 DEF Released, Process
  <2>7. TypeOK' BY <2>0, <2>3, <2>5, <2>6 DEF Inv, TypeOK, Request, Process
  <2>8. Locked' BY <2>0, <2>1, <2>3, <2>6 DEF Inv, Locked, Holding
  <2>9. Listening' BY <2>0, <2>6 DEF Inv, TypeOK, Listening, Locked, Listens, Holding
  <2>10. Named' BY <2>0, <2>1, <2>3, <2>6 DEF Inv, TypeOK, Named, Owning, Stopper
  <2> QED BY <2>3, <2>7, <2>8, <2>9, <2>10 DEF Inv
<1>16. CASE ForgetPID(c)
  <2> DEFINE r == [command[c] EXCEPT !.pc = "done"]
  <2>1. /\ command' = [command EXCEPT ![c] = r] /\ pidfile' = None /\ command[c].pc = "forget"
        /\ UNCHANGED <<lease, path, open, daemon, stops, faults, lost>>
    BY <1>16 DEF ForgetPID, Do
  <2>2. r \in Request /\ Role(c, r) /\ r.pc # "holding"
    BY <1>0, <2>1 DEF Request, Role
  <2> HIDE DEF r
  <2>3. command' \in [Commands -> Request] /\ Roles'
        /\ \A e \in Commands : command'[e] = IF e = c THEN r ELSE command[e]
    BY <2>1, <2>2, CommandInv
  <2>4. TypeOK' BY <2>1, <2>3 DEF Inv, TypeOK, Request
  <2>5. Locked' BY <2>1, <2>2, <2>3 DEF Inv, Locked
  <2>6. Listening' BY <2>1 DEF Inv, Listening
  <2>7. Named' BY <2>1, <2>2, <2>3 DEF Inv, Named
  <2> QED BY <2>3, <2>4, <2>5, <2>6, <2>7 DEF Inv
<1> QED
  BY <1>1, <1>2, <1>3, <1>4, <1>5, <1>6, <1>7, <1>8, <1>9, <1>10, <1>11, <1>12, <1>13, <1>14,
     <1>15, <1>16 DEF CommandStep

-----------------------------------------------------------------------------
(* The theorems.                                                           *)

\* Every step keeps the invariant.
LEMMA NextInv == ASSUME InstanceAssumption, Inv, [Next]_vars PROVE Inv'
<1>1. CASE Next BY <1>1, DaemonInv, CommandSteps DEF Next
<1>2. CASE UNCHANGED vars
  BY <1>2 DEF vars, Inv, TypeOK, Roles, Role, Locked, Listening, Named, Stopper
<1> QED BY <1>1, <1>2

\* The lock, the listener, the PID file and the stages of daemons and commands fit
\* together at every moment.
THEOREM InvCorrect == Spec => []Inv
<1>1. InstanceAssumption BY InstanceAssumption
<1>2. Init => Inv BY <1>1, InitInv
<1>3. Inv /\ [Next]_vars => Inv' BY <1>1, NextInv
<1> QED BY <1>2, <1>3, PTL DEF Spec

\* The variables keep their types (Instance!TypeOK), whatever is started.
THEOREM TypeCorrect == Spec => []TypeOK
<1>1. Inv => TypeOK BY DEF Inv
<1> QED BY <1>1, InvCorrect, PTL

\* The socket file leads to the only open listener, for any number of daemons,
\* commands, stops and failures.
THEOREM OneServesCorrect == Spec => []OneServes
<1>1. Inv => OneServes
  BY Disjoint, InstanceAssumption DEF Inv, TypeOK, Listening, Locked, OneServes
<1> QED BY <1>1, InvCorrect, PTL

\* The PID file is the running daemon's or nobody's, and goes with a daemon that
\* ends in order.
THEOREM PIDCorrect == Spec => []PIDIsRight
<1>1. Inv => PIDIsRight
  BY DEF Inv, TypeOK, Named, Owning, Stopper, PIDIsRight
<1> QED BY <1>1, InvCorrect, PTL

-----------------------------------------------------------------------------
(* A command that fails had a reason.                                      *)

\* Nothing has happened that a launcher may fail for.
Calm == ~StopWanted /\ faults = 0 /\ lost = {}

\* Where a daemon is until somebody stops it: on its way, serving, or turned away.
Ahead == {"none", "lease", "probe", "listen", "tcp", "pid", "ready", "notify", "run", "dead"}

\* Somebody is about to spawn a daemon, has spawned one, has one that was turned away.
Trying == \E e \in Starters : command[e].pc \in {"probe", "holding", "spawn"}
Spawned == \E d \in Daemons : daemon[d].pc # "none"
TurnedAway == \E d \in Daemons : daemon[d].pc = "dead"

\* Then the daemon that has the lock goes on to serve, a daemon was turned away by
\* that one only, and whoever waits waits for somebody.
Ready(d) ==
  /\ ~daemon[d].cancelled /\ daemon[d].state # "stopping" /\ daemon[d].pc \in Ahead
  /\ daemon[d].pc \in {"notify", "run"} => daemon[d].state = "ready"
  /\ daemon[d].pc \in {"tcp", "pid", "ready", "notify", "run"} => path = d
Awaited(c) ==
  /\ command[c].site = "exited" => TurnedAway
  /\ command[c].pc \in {"wait", "watch"} => Trying \/ Spawned
  /\ c \in Launchers => command[c].pc # "failed"
Served ==
  /\ \A d \in Daemons : Ready(d)
  /\ path # None => path \in open
  /\ TurnedAway => lease \in Daemons
  /\ \A c \in Starters : Awaited(c)

\* What was calm after a step was calm before it: stops, faults and lost only grow,
\* and a stop command asks once.
LEMMA CalmBefore ==
  ASSUME InstanceAssumption, Inv, Next, Calm'
  PROVE  Calm
<1>0. TypeOK /\ Roles BY DEF Inv
<1>1. stops \in Nat /\ faults \in Nat /\ stops' \in Nat /\ faults' \in Nat
      /\ stops' >= stops /\ faults' >= faults /\ lost \subseteq lost'
  <2>0. stops \in Nat /\ faults \in Nat
    BY <1>0, InstanceAssumption DEF TypeOK
  <2>1. ASSUME NEW d \in Daemons, DaemonStep(d)
        PROVE  stops' = stops /\ faults' = faults /\ lost \subseteq lost'
    BY <2>1 DEF DaemonStep, AcquireLease, ProbeSocket, SameSocket, RemoveStale, Listen,
         MountTCP, WritePID, MarkReady, NotifySignals, BeginClosing, CloseTCP, ReadOwnPID,
         RemoveOwnPID, CloseListener, CompareSocket, RemoveSocket, Exit
  <2>2. ASSUME NEW d \in Daemons, StopItself(d) \/ StartFails(d) \/ Crash(d)
        PROVE  stops' \in {stops, stops + 1} /\ faults' \in {faults, faults + 1} /\ lost' = lost
    BY <2>2 DEF StopItself, StartFails, Crash
  <2>3. ASSUME NEW c \in Commands, CommandStep(c)
        PROVE  stops' = stops /\ faults' = faults /\ lost' = lost
    BY <2>3 DEF CommandStep, Ask, ProbeLease, ReleaseProbe, SeesReady, Recheck, SeesExit, StartTimesOut, RequestStop,
         RequestedStop, SignalByPID, Terminate, SeesGone, StopTimesOut, ForgetPID, Spawn
  <2>4. CASE \E d \in Daemons : DaemonStep(d)
    BY <2>0, <2>1, <2>4
  <2>5. CASE \E d \in Daemons : StopItself(d) \/ StartFails(d) \/ Crash(d)
    BY <2>0, <2>2, <2>5
  <2>6. CASE \E c \in Commands : CommandStep(c)
    BY <2>0, <2>3, <2>6
  <2>. QED BY <2>4, <2>5, <2>6 DEF Next
<1>2. ASSUME NEW k \in Stoppers, command'[k].pc = "ask" PROVE command[k].pc = "ask"
  <2>0. k \in Commands /\ command[k] \in Request /\ k \notin Starters
    BY <1>0, Disjoint DEF TypeOK, Request
  <2>1. CASE command' = command
    BY <1>2, <2>1
  <2>2. ASSUME NEW c \in Commands, CommandStep(c), command' # command PROVE command[k].pc = "ask"
    <3>1. c = k \/ command'[k] = command[k]
      <4>1. \E r : command' = [command EXCEPT ![c] = r]
        BY <2>2 DEF CommandStep, Ask, ProbeLease, ReleaseProbe, SeesReady, Recheck, SeesExit, StartTimesOut, RequestStop,
           RequestedStop, SignalByPID, Terminate, SeesGone, StopTimesOut, ForgetPID, Spawn, Do
      <4>. QED BY <1>0, <2>0, <4>1 DEF TypeOK
    <3>2. ASSUME c = k PROVE command'[k].pc # "ask"
      <4>0. command[c].pc \in {"ask", "await", "readpid", "term", "awaitpid", "forget", "done", "failed"}
        BY <1>0, <3>2, <2>0 DEF Roles, Role
      <4>1. CASE RequestStop(c)
        BY <1>0, <2>0, <3>2, <4>1 DEF RequestStop, Do, TypeOK
      <4>2. CASE SignalByPID(c)
        BY <1>0, <2>0, <3>2, <4>2 DEF SignalByPID, Do, TypeOK
      <4>3. CASE Terminate(c) \/ SeesGone(c) \/ StopTimesOut(c) \/ ForgetPID(c)
        BY <1>0, <2>0, <3>2, <4>3 DEF Terminate, SeesGone, StopTimesOut, ForgetPID, Do, TypeOK
      <4>. QED BY <2>0, <2>2, <3>2, <4>0, <4>1, <4>2, <4>3 DEF CommandStep, Ask, ProbeLease, ReleaseProbe, SeesReady, Recheck,
             SeesExit, StartTimesOut, RequestedStop, Spawn
    <3>. QED BY <1>2, <3>1, <3>2
  <2>3. ASSUME NEW d \in Daemons, DaemonStep(d) \/ StopItself(d) \/ StartFails(d) \/ Crash(d) PROVE command' = command
    BY <2>3 DEF DaemonStep, AcquireLease, ProbeSocket, SameSocket, RemoveStale, Listen,
         MountTCP, WritePID, MarkReady, NotifySignals, BeginClosing, CloseTCP, ReadOwnPID,
         RemoveOwnPID, CloseListener, CompareSocket, RemoveSocket, Exit, StopItself, StartFails, Crash
  <2>. QED BY <2>1, <2>2, <2>3 DEF Next
<1>. QED BY <1>1, <1>2 DEF Calm, StopWanted

\* What a daemon does on its way keeps everybody served.
LEMMA DaemonServes ==
  ASSUME InstanceAssumption, Inv, Calm, Calm', Served, NEW d \in Daemons,
         DaemonStep(d) \/ StopItself(d) \/ StartFails(d) \/ Crash(d)
  PROVE  Served'
<1>0. /\ TypeOK /\ Locked /\ Listening /\ daemon \in [Daemons -> Process]
      /\ None \notin Daemons /\ daemon[d] \in Process /\ Ready(d) /\ faults = 0
  BY Disjoint DEF Inv, TypeOK, Process, Served, Calm
<1>1. ~StopItself(d) /\ ~StartFails(d) /\ ~Crash(d)
  BY <1>0 DEF StopItself, StartFails, Crash, Calm, StopWanted, TypeOK, InstanceAssumption
<1>2. ~daemon[d].cancelled /\ daemon[d].state # "stopping" /\ daemon[d].pc \in Ahead
  BY <1>0 DEF Ready
<1>3. AcquireLease(d) \/ ProbeSocket(d) \/ Listen(d) \/ MountTCP(d) \/ WritePID(d) \/ MarkReady(d) \/ NotifySignals(d)
  BY <1>1, <1>2 DEF DaemonStep, Ahead, SameSocket, RemoveStale, BeginClosing, CloseTCP, ReadOwnPID,
       RemoveOwnPID, CloseListener, CompareSocket, RemoveSocket, Exit
\* The holder that does not listen yet finds no socket file.
<1>4. daemon[d].pc \in {"probe", "listen"} => path = None
  <2>. SUFFICES ASSUME daemon[d].pc \in {"probe", "listen"}, path # None PROVE FALSE
    OBVIOUS
  <2>1. path \in open /\ path \in Daemons
    BY <1>0 DEF Served, TypeOK
  <2>2. daemon[path].pc \in Holding /\ daemon[path].pc \notin {"probe", "listen"}
    BY <1>0, <2>1 DEF Listening, Listens, Holding
  <2>3. lease = path /\ lease = d
    BY <1>0, <2>1, <2>2 DEF Locked, Holding
  <2>. QED BY <2>2, <2>3
\* It goes on with its own state only, and is on its way.
<1>5. /\ command' = command /\ \A e \in Daemons \ {d} : daemon'[e] = daemon[e]
      /\ ~daemon'[d].cancelled /\ daemon'[d].state # "stopping" /\ daemon'[d].pc \in Ahead \ {"none"}
      /\ daemon'[d].pc \in {"notify", "run"} => daemon'[d].state = "ready"
      /\ daemon'[d].pc = "dead" => daemon[d].pc = "lease" /\ lease' = lease /\ lease \in Daemons
      /\ daemon[d].pc # "dead"
      /\ lease \in Daemons => lease' = lease
      /\ \/ path' = path /\ open' = open /\ (daemon'[d].pc \in {"tcp", "pid", "ready", "notify", "run"} =>
                                               daemon[d].pc \in {"tcp", "pid", "ready", "notify", "run"})
         \/ path = None /\ path' = d /\ d \in open'
  <2>1. CASE AcquireLease(d)
    <3>1. daemon'[d].cancelled = daemon[d].cancelled /\ daemon'[d].state = daemon[d].state /\ daemon'[d].pc \in {"probe", "dead"} /\ command' = command
          /\ path' = path /\ open' = open /\ daemon[d].pc = "lease" /\ \A e \in Daemons \ {d} : daemon'[e] = daemon[e]
      BY <1>0, <2>1 DEF AcquireLease, Go, Process
    <3>2. CASE lease = None
      BY <1>0, <1>2, <2>1, <3>1, <3>2 DEF AcquireLease, Go, MayLock, Ahead, Process
    <3>3. CASE lease # None
      <4>1. lease' = lease /\ lease \notin Commands /\ lease \in Daemons
        BY <1>0, <2>1, <3>3 DEF AcquireLease, MayLock, Calm, TypeOK
      <4>. QED BY <1>2, <3>1, <3>3, <4>1, <2>1, <1>0 DEF AcquireLease, Go, MayLock, Ahead, Process
    <3>. QED BY <3>2, <3>3
  <2>2. CASE ProbeSocket(d)
    <3>1. daemon' = [daemon EXCEPT ![d] = [daemon[d] EXCEPT !.seen = path, !.pc = "listen"]]
          /\ UNCHANGED <<lease, path, open, command>> /\ daemon[d].pc = "probe"
      BY <1>4, <2>2 DEF ProbeSocket, files
    <3>. QED BY <1>0, <1>2, <3>1 DEF Process, Ahead
  <2>3. CASE Listen(d)
    BY <1>0, <1>2, <1>4, <2>3 DEF Listen, Go, Process, Ahead
  <2>4. CASE MountTCP(d)
    BY <1>0, <1>2, <2>4 DEF MountTCP, Go, Process, Ahead, files
  <2>5. CASE WritePID(d)
    BY <1>0, <1>2, <2>5 DEF WritePID, Go, Process, Ahead
  <2>6. CASE MarkReady(d)
    <3>1. daemon' = [daemon EXCEPT ![d] = [daemon[d] EXCEPT !.pc = "notify", !.state = "ready"]]
          /\ UNCHANGED <<lease, path, open, command>> /\ daemon[d].pc = "ready"
      BY <2>6 DEF MarkReady, files
    <3>. QED BY <1>0, <1>2, <3>1 DEF Process, Ahead
  <2>7. CASE NotifySignals(d)
    <3>1. daemon[d].state = "ready"
      BY <1>0, <2>7 DEF NotifySignals, Ready
    <3>. QED BY <1>0, <1>2, <2>7, <3>1 DEF NotifySignals, Go, Process, Ahead, files
  <2>. QED BY <1>3, <2>1, <2>2, <2>3, <2>4, <2>5, <2>6, <2>7
<1>6. \A e \in Daemons : Ready(e)'
  <2>. SUFFICES ASSUME NEW e \in Daemons PROVE Ready(e)'
    OBVIOUS
  <2>1. Ready(e)
    BY DEF Served
  <2>2. CASE e = d
    BY <1>0, <1>5, <2>1, <2>2 DEF Ready
  <2>3. CASE e # d
    <3>1. daemon[e].pc \in {"tcp", "pid", "ready", "notify", "run"} => path' = path
      BY <1>0, <1>5, <2>1 DEF Ready
    <3>. QED BY <1>5, <2>1, <2>3, <3>1 DEF Ready
  <2>. QED BY <2>2, <2>3
<1>7. path' # None => path' \in open'
  BY <1>5 DEF Served
<1>8. TurnedAway' => lease' \in Daemons
  <2>1. TurnedAway' => TurnedAway \/ lease \in Daemons
    BY <1>5 DEF TurnedAway
  <2>. QED BY <1>5, <2>1 DEF Served
<1>9. (TurnedAway => TurnedAway') /\ (Spawned => Spawned') /\ (Trying => Trying')
  BY <1>5 DEF TurnedAway, Spawned, Trying, Ahead
<1>10. \A c \in Starters : Awaited(c)'
  BY <1>5, <1>9 DEF Served, Awaited
<1>. QED BY <1>6, <1>7, <1>8, <1>10 DEF Served

\* While all is calm and nobody is about to start a daemon, a daemon that was
\* spawned leads to one that answers and is ready.
LEMMA ReadyAnswers ==
  ASSUME InstanceAssumption, Inv, Calm, Served
  PROVE  /\ Status \subseteq {"dial", "starting", "ready"} /\ ("starting" \in Status => Spawned)
         /\ ~Starting /\ (Trying \/ Spawned) => Status = {"ready"}
<1>0. TypeOK /\ Locked /\ Listening /\ None \notin Daemons
  BY Disjoint DEF Inv
<1>1. \A e \in Daemons : Ready(e)
  BY DEF Served
<1>2. path \in open => path \in Daemons /\ daemon[path].pc \in Listens /\ ~daemon[path].cancelled
  BY <1>0, <1>1 DEF TypeOK, Listening, Ready
<1>3. \A e \in Daemons : daemon[e].state \in {"starting", "ready", "stopping"}
  BY <1>0 DEF TypeOK
<1>s. \A e \in Daemons : daemon[e].state # "stopping"
  BY DEF Served, Ready
<1>4. Status \subseteq {"dial", "starting", "ready"} /\ ("starting" \in Status => Spawned)
  BY <1>2, <1>3, <1>s DEF Status, Spawned, Listens
<1>5. ASSUME ~Starting, Trying \/ Spawned PROVE Status = {"ready"}
  <2>1. ~Trying
    BY <1>5 DEF Trying, Starting
  <2>2. PICK d \in Daemons : daemon[d].pc # "none"
    BY <1>5, <2>1 DEF Spawned
  <2>3. \A e \in Daemons : daemon[e].pc \in {"none", "notify", "run", "dead"}
    BY <1>1, <1>5 DEF Starting, Ready, Ahead
  <2>4. PICK e \in Daemons : daemon[e].pc \in {"notify", "run"}
    <3>1. CASE daemon[d].pc = "dead"
      <4>1. lease \in Daemons /\ daemon[lease].pc \in Holding
        BY <1>0, <3>1 DEF Served, TurnedAway, Locked
      <4>. QED BY <2>3, <4>1 DEF Holding
    <3>. QED BY <2>2, <2>3, <3>1
  <2>5. path = e /\ path \in open /\ daemon[e].state = "ready" /\ ~daemon[e].cancelled
    BY <1>0, <1>1, <2>4 DEF Ready, Served
  <2>. QED BY <2>5 DEF Status
<1>. QED BY <1>4, <1>5

\* Somebody other than c is on the way to spawning a daemon.
OtherTries(c) == \E e \in Starters : e # c /\ command[e].pc \in {"probe", "holding", "spawn"}

\* The daemons that a step of a command leaves as they were, but for one it spawned.
Alike == \A e \in Daemons : /\ daemon'[e].cancelled = daemon[e].cancelled
                            /\ daemon'[e].state = daemon[e].state
                            /\ \/ daemon'[e].pc = daemon[e].pc
                               \/ daemon'[e].pc = "lease" /\ daemon[e].pc = "none"

\* What c waits for by its new state r is there, and who waited for c still can.
Fits(c, r) ==
  /\ r.site = "exited" => TurnedAway
  /\ c \in Launchers => r.pc # "failed"
  /\ \/ r.pc \in {"probe", "holding", "spawn"}
     \/ Spawned'
     \/ /\ r.pc \in {"wait", "watch"} => OtherTries(c)
        /\ command[c].pc \notin {"probe", "holding", "spawn"} \/ OtherTries(c)

\* A command whose new state fits keeps everybody served.
LEMMA FitServes ==
  ASSUME Inv, Served, NEW c \in Starters, NEW r \in Request,
         command' = [command EXCEPT ![c] = r], UNCHANGED <<path, open>>, Alike,
         lease \in Daemons => lease' = lease, Fits(c, r)
  PROVE  Served'
<1>0. command \in [Commands -> Request] /\ Starters \subseteq Commands /\ c \in Commands
  BY DEF Inv, TypeOK, Request, Starters, Commands
<1>1. \A e \in Commands : command'[e] = IF e = c THEN r ELSE command[e]
  BY <1>0
<1>2. (TurnedAway <=> TurnedAway') /\ (Spawned => Spawned')
  BY DEF TurnedAway, Spawned, Alike
<1>3. \A d \in Daemons : Ready(d)'
  <2>. SUFFICES ASSUME NEW d \in Daemons PROVE Ready(d)'
    OBVIOUS
  <2>1. Ready(d)
    BY DEF Served
  <2>2. CASE daemon'[d].pc = daemon[d].pc
    BY <2>1, <2>2 DEF Ready, Alike
  <2>3. CASE daemon'[d].pc = "lease" /\ daemon[d].pc = "none"
    BY <2>1, <2>3 DEF Ready, Alike, Ahead
  <2>. QED BY <2>2, <2>3 DEF Alike
<1>4. OtherTries(c) => Trying'
  BY <1>0, <1>1 DEF Trying, OtherTries
<1>5. (Trying \/ Spawned => Trying' \/ Spawned') /\ (r.pc \in {"wait", "watch"} => Trying' \/ Spawned')
  <2>1. CASE r.pc \in {"probe", "holding", "spawn"}
    <3>1. Trying'
      BY <1>0, <1>1, <2>1 DEF Trying
    <3>. QED BY <3>1
  <2>2. CASE Spawned'
    BY <2>2
  <2>3. CASE /\ r.pc \in {"wait", "watch"} => OtherTries(c)
             /\ command[c].pc \notin {"probe", "holding", "spawn"} \/ OtherTries(c)
    <3>1. Trying => Trying'
      BY <1>4, <2>3 DEF Trying, OtherTries
    <3>. QED BY <1>2, <1>4, <2>3, <3>1
  <2>. QED BY <2>1, <2>2, <2>3 DEF Fits
<1>6. \A e \in Starters : Awaited(e)'
  <2>. SUFFICES ASSUME NEW e \in Starters PROVE Awaited(e)'
    OBVIOUS
  <2>1. Awaited(e) /\ e \in Commands
    BY <1>0 DEF Served
  <2>2. CASE e = c
    BY <1>0, <1>1, <1>2, <1>5, <2>2 DEF Awaited, Fits
  <2>3. CASE e # c
    <3>1. command'[e] = command[e]
      BY <1>1, <2>1, <2>3
    <3>. QED BY <1>2, <1>5, <2>1, <3>1 DEF Awaited
  <2>. QED BY <2>2, <2>3
<1>7. (path' # None => path' \in open') /\ (TurnedAway' => lease' \in Daemons)
  BY <1>2 DEF Served
<1>. QED BY <1>3, <1>6, <1>7 DEF Served

\* What a starting command does keeps everybody served; the others do nothing.
LEMMA CommandServes ==
  ASSUME InstanceAssumption, Inv, Calm, Calm', Served, NEW c \in Commands, CommandStep(c)
  PROVE  Served'
<1>0. /\ TypeOK /\ Locked /\ Listening /\ Roles /\ None \notin Daemons /\ Role(c, command[c])
      /\ command \in [Commands -> Request] /\ command[c] \in Request /\ Starters \subseteq Commands
      /\ daemon \in [Daemons -> Process] /\ Stoppers \subseteq Commands /\ \A e \in Daemons : e \notin Commands
  BY Disjoint DEF Inv, TypeOK, Process, Served, Calm, Request, Roles, Starters, Commands
<1>1. c \in Starters
  <2>. SUFFICES ASSUME c \in Stoppers PROVE FALSE
    BY DEF Commands
  <2>1. command[c].pc = "ask" /\ command'[c].pc = "ask" /\ command[c].child = None
    BY <1>0 DEF Calm, StopWanted, Role
  <2>2. RequestStop(c)
    BY <1>0, <2>1, Disjoint DEF CommandStep, Ask, ProbeLease, ReleaseProbe, SeesReady, Recheck,
         SeesExit, StartTimesOut, RequestedStop, Spawn, SignalByPID, Terminate, SeesGone, StopTimesOut, ForgetPID
  <2>3. \/ command' = [command EXCEPT ![c] = [command[c] EXCEPT !.pc = "await", !.child = path]]
        \/ command' = [command EXCEPT ![c] = [command[c] EXCEPT !.pc = "readpid"]]
    BY <2>2 DEF RequestStop, Do
  <2>4. command'[c] \in {[command[c] EXCEPT !.pc = "await", !.child = path], [command[c] EXCEPT !.pc = "readpid"]}
    BY <1>0, <2>3
  <2>5. [command[c] EXCEPT !.pc = "await", !.child = path].pc = "await" /\ [command[c] EXCEPT !.pc = "readpid"].pc = "readpid"
    BY <1>0 DEF Request
  <2>. QED BY <2>1, <2>4, <2>5
<1>2. c \notin Stoppers /\ Awaited(c)
  BY <1>0, <1>1, Disjoint DEF Served
<1>3. \/ Ask(c) \/ ProbeLease(c) \/ ReleaseProbe(c) \/ SeesReady(c) \/ Recheck(c) \/ SeesExit(c)
      \/ StartTimesOut(c) \/ \E d \in Daemons : Spawn(c, d)
  BY <1>0, <1>2 DEF CommandStep, RequestStop, RequestedStop, SignalByPID, Terminate, SeesGone,
       StopTimesOut, ForgetPID, Role
<1>4. CASE Ask(c)
  <2>1. PICK s \in Status : command' = [command EXCEPT ![c] =
         CASE s = "ready"                            -> [@ EXCEPT !.pc = "done"]
           [] s = "dial" /\ c \in Launchers          -> [@ EXCEPT !.pc = "probe", !.site = "ensure"]
           [] s = "dial" /\ c \in Servers            -> [@ EXCEPT !.pc = "probe", !.site = "start"]
           [] s \in {"starting", "stopping"} /\ c \in Launchers -> [@ EXCEPT !.pc = "wait"]
           [] OTHER                                  -> [@ EXCEPT !.pc = "failed"]]
    BY <1>4 DEF Ask
  <2>2. s \in {"dial", "starting", "ready"} /\ (s = "starting" => Spawned) /\ UNCHANGED <<files, daemon>>
        /\ command[c].pc = "ask" /\ c \in Launchers \cup Servers
    BY <1>1, <1>4, ReadyAnswers DEF Ask, Starters
  <2>3. PICK p \in {"done", "probe", "wait", "failed"}, t \in {"ensure", "start", command[c].site} :
          /\ command' = [command EXCEPT ![c] = [command[c] EXCEPT !.pc = p, !.site = t]]
          /\ p = "wait" => s = "starting"
          /\ p = "failed" => c \notin Launchers
    <3>1. \A p : [command[c] EXCEPT !.pc = p] = [command[c] EXCEPT !.pc = p, !.site = command[c].site]
      BY <1>0 DEF Request
    <3> QED BY <2>1, <2>2, <3>1
  <2>. DEFINE r == [command[c] EXCEPT !.pc = p, !.site = t]
  <2>4. r \in Request /\ r.pc = p /\ r.site = t
    BY <1>0, <2>3 DEF Request
  <2>5. (r.site = "exited" => TurnedAway) /\ (p = "wait" => Spawned') /\ command' = [command EXCEPT ![c] = r]
    BY <1>2, <2>2, <2>3, <2>4 DEF Awaited, Spawned
  <2>. HIDE DEF r
  <2>6. c \in Launchers => r.pc # "failed"
    BY <2>3, <2>4
  <2>7. Alike /\ UNCHANGED <<path, open, lease>>
    BY <2>2 DEF Alike, files
  <2>8. OtherTries(c) \/ command[c].pc \notin {"probe", "holding", "spawn"}
    BY <2>2
  <2>. HIDE DEF r
  <2>9. Fits(c, r)
    BY <2>3, <2>4, <2>5, <2>6, <2>8 DEF Fits
  <2>. QED BY <1>1, <2>4, <2>5, <2>7, <2>9, FitServes
<1>5. CASE ProbeLease(c) /\ lease = None
  <2>. DEFINE r == [command[c] EXCEPT !.pc = "holding"]
  <2>1. command' = [command EXCEPT ![c] = r] /\ r \in Request /\ r.pc = "holding" /\ r.site = command[c].site
        /\ UNCHANGED <<path, open, daemon>>
    BY <1>0, <1>5 DEF ProbeLease, Do, Request
  <2>. HIDE DEF r
  <2>a. Alike
    BY <2>1 DEF Alike
  <2>l. lease \in Daemons => lease' = lease
    BY <1>0, <1>5
  <2>f. Fits(c, r)
    BY <1>2, <2>1 DEF Fits, Awaited
  <2>. QED BY <1>1, <2>1, <2>a, <2>l, <2>f, FitServes
<1>6. CASE ProbeLease(c) /\ lease # None
  <2>1. PICK p \in {"watch", "wait"} : Contested(c) = [command[c] EXCEPT !.pc = p, !.child = None]
    BY DEF Contested
  <2>. DEFINE r == [command[c] EXCEPT !.pc = p, !.child = None]
  <2>2. command' = [command EXCEPT ![c] = r] /\ r \in Request /\ r.pc = p /\ r.site = command[c].site
        /\ UNCHANGED <<path, open, daemon, lease>> /\ command[c].pc = "probe"
    BY <1>0, <1>6, <2>1 DEF ProbeLease, Request
  <2>. HIDE DEF r
  <2>3. Spawned' \/ \E e \in Starters : e # c /\ command[e].pc \in {"probe", "holding", "spawn"}
    <3>1. CASE lease \in Daemons
      <4>1. daemon[lease].pc \in Holding
        BY <1>0, <3>1 DEF Locked
      <4>. QED BY <2>2, <3>1, <4>1 DEF Spawned, Holding
    <3>2. CASE lease \in Commands
      <4>1. command[lease].pc = "holding" /\ lease # c
        BY <1>0, <2>2, <3>2 DEF Locked
      <4>2. lease \in Starters
        BY <1>0, <3>2, <4>1, Disjoint DEF Roles, Role, Commands
      <4>. QED BY <4>1, <4>2
    <3>. QED BY <1>0, <1>6, <3>1, <3>2 DEF TypeOK
  <2>a. Alike
    BY <2>2 DEF Alike
  <2>f. Fits(c, r)
    BY <1>2, <2>2, <2>3 DEF Fits, Awaited, OtherTries
  <2>. QED BY <1>1, <2>2, <2>a, <2>f, FitServes
<1>7. CASE ReleaseProbe(c)
  <2>1. command[c].site \in {"ensure", "start", "exited"} /\ command[c].pc = "holding" /\ lease = c /\ UNCHANGED <<path, open, daemon>>
    BY <1>0, <1>7 DEF ReleaseProbe, Role, Locked
  \* A daemon was turned away by another one, which still has the lock.
  <2>2. command[c].site # "exited"
    BY <1>0, <1>2, <2>1 DEF Awaited, Served
  <2>3. PICK r \in Request : command' = [command EXCEPT ![c] = r] /\ r.pc \in {"probe", "spawn"} /\ r.site # "exited"
    <3>1. CASE command[c].site = "ensure"
      <4> DEFINE r == [command[c] EXCEPT !.pc = "probe", !.site = "start"]
      <4>1. command' = [command EXCEPT ![c] = r] BY <1>7, <3>1 DEF ReleaseProbe
      <4>2. r \in Request /\ r.pc = "probe" /\ r.site # "exited" BY <1>0 DEF Request
      <4> QED BY <4>1, <4>2
    <3>2. CASE command[c].site = "start"
      <4> DEFINE r == [command[c] EXCEPT !.pc = "spawn"]
      <4>1. command' = [command EXCEPT ![c] = r] BY <1>7, <3>2 DEF ReleaseProbe
      <4>2. r \in Request /\ r.pc = "spawn" /\ r.site # "exited" BY <1>0, <3>2 DEF Request
      <4> QED BY <4>1, <4>2
    <3>. QED BY <2>1, <2>2, <3>1, <3>2
  <2>a. Alike
    BY <2>1 DEF Alike
  <2>l. lease \notin Daemons
    BY <1>0, <2>1
  <2>f. Fits(c, r)
    BY <2>3 DEF Fits
  <2>. QED BY <1>1, <2>1, <2>3, <2>a, <2>l, <2>f, FitServes
<1>8. ASSUME NEW d \in Daemons, Spawn(c, d) PROVE Served'
  <2>. DEFINE r == [command[c] EXCEPT !.pc = "watch", !.child = d]
  <2>1. command' = [command EXCEPT ![c] = r] /\ r \in Request /\ r.pc = "watch" /\ r.site = command[c].site
        /\ daemon' = [daemon EXCEPT ![d].pc = "lease"] /\ daemon[d].pc = "none" /\ UNCHANGED <<path, open, lease>>
    BY <1>0, <1>8 DEF Spawn, Go, Request, files
  <2>. HIDE DEF r
  <2>2. Alike /\ daemon'[d].pc = "lease"
    BY <1>0, <2>1 DEF Alike, Process
  <2>3. Spawned'
    BY <2>2 DEF Spawned
  <2>a. Alike
    BY <2>2 DEF Alike
  <2>f. Fits(c, r)
    BY <1>2, <2>1, <2>3 DEF Fits, Awaited
  <2>. QED BY <1>1, <2>1, <2>a, <2>f, FitServes
<1>9. CASE SeesReady(c)
  <2>. DEFINE r == [command[c] EXCEPT !.pc = IF c \in Servers THEN "recheck" ELSE "done"]
  <2>1. command' = [command EXCEPT ![c] = r] /\ r \in Request /\ r.pc \in {"recheck", "done"} /\ r.site = command[c].site
        /\ UNCHANGED <<path, open, daemon, lease>> /\ command[c].pc \in {"wait", "watch"}
    BY <1>0, <1>9 DEF SeesReady, Do, Request, files
  <2>. HIDE DEF r
  <2>a. Alike
    BY <2>1 DEF Alike
  <2>n. c \in Launchers => r.pc # "failed"
    BY <2>1
  <2>f. Fits(c, r)
    BY <1>2, <2>1, <2>n DEF Fits, Awaited
  <2>. QED BY <1>1, <2>1, <2>a, <2>f, FitServes
<1>10. CASE Recheck(c)
  <2>1. PICK s \in Status :
          command' = [command EXCEPT ![c] = [command[c] EXCEPT !.pc = IF s = "ready" THEN "done" ELSE "failed"]]
    BY <1>10 DEF Recheck, Do
  <2>. DEFINE r == [command[c] EXCEPT !.pc = IF s = "ready" THEN "done" ELSE "failed"]
  <2>2. command' = [command EXCEPT ![c] = r] /\ r \in Request /\ r.pc \in {"done", "failed"} /\ r.site = command[c].site
        /\ UNCHANGED <<path, open, daemon, lease>> /\ command[c].pc = "recheck"
    BY <1>0, <1>10, <2>1 DEF Recheck, Request, files
  <2>3. c \notin Launchers
    BY <1>0, <2>2 DEF Role
  <2>. HIDE DEF r
  <2>a. Alike
    BY <2>2 DEF Alike
  <2>f. Fits(c, r)
    BY <1>2, <2>2, <2>3 DEF Fits, Awaited
  <2>. QED BY <1>1, <2>2, <2>a, <2>f, FitServes
<1>11. CASE SeesExit(c)
  <2>. DEFINE r == [command[c] EXCEPT !.pc = "probe", !.site = "exited"]
  <2>1. command' = [command EXCEPT ![c] = r] /\ r \in Request /\ r.pc = "probe"
        /\ UNCHANGED <<path, open, daemon, lease>>
    BY <1>0, <1>11 DEF SeesExit, Request, files
  <2>2. TurnedAway
    BY <1>0, <1>11 DEF SeesExit, TurnedAway, Request
  <2>. HIDE DEF r
  <2>a. Alike
    BY <2>1 DEF Alike
  <2>f. Fits(c, r)
    BY <2>1, <2>2 DEF Fits
  <2>. QED BY <1>1, <2>1, <2>a, <2>f, FitServes
<1>12. CASE StartTimesOut(c)
  \* Whom the command waits for is there, and answers.
  <2>1. FALSE
    BY <1>2, <1>12, ReadyAnswers DEF StartTimesOut, Awaited
  <2>. QED BY <2>1
<1>. QED BY <1>3, <1>4, <1>5, <1>6, <1>7, <1>8, <1>9, <1>10, <1>11, <1>12

\* A launcher fails for a reason (Instance!FailsForAReason): a stop, a failure, or a
\* daemon that a probe of the lock turned away.
THEOREM FailsCorrect == Spec => []FailsForAReason
<1>1. Init => (Calm => Served)
  BY Disjoint, InstanceAssumption DEF Init, Served, Ready, Awaited, TurnedAway, Trying, Spawned, Fresh, Idle, Ahead, Starters, Commands
<1>2. Inv /\ (Calm => Served) /\ [Next]_vars => (Calm => Served)'
  <2>. SUFFICES ASSUME Inv, Calm => Served, [Next]_vars, Calm' PROVE Served'
    OBVIOUS
  <2>1. CASE Next
    <3>1. Calm
      BY <2>1, InstanceAssumption, CalmBefore
    <3>. QED BY <2>1, <3>1, InstanceAssumption, DaemonServes, CommandServes DEF Next
  <2>2. CASE UNCHANGED vars
    BY <2>2 DEF vars, Calm, StopWanted, Served, Ready, Awaited, TurnedAway, Trying, Spawned
  <2>. QED BY <2>1, <2>2
<1>3. Inv /\ (Calm => Served) => FailsForAReason
  <2>. SUFFICES ASSUME Inv, Calm => Served, NEW c \in Launchers, command[c].pc = "failed", ~StopWanted, ~(faults > 0), lost = {}
                PROVE  FALSE
    BY DEF FailsForAReason
  <2>1. faults = 0
    BY InstanceAssumption DEF Inv, TypeOK
  <2>. QED BY <2>1 DEF Calm, Served, Awaited, Starters
<1>. QED BY <1>1, <1>2, <1>3, InvCorrect, PTL DEF Spec

-----------------------------------------------------------------------------
(* One of the daemons, from its start to its end: proofs about Daemon, for *)
(* any clients, transports' policies and number of stops.                  *)

\* A connection has its sink from OnConnect to removeConnection.
Connected == \A c \in sinks : conn[c] \in {"handshake", "serve", "admitted", "unsink"}

\* The main goroutine goes on to its end only when it has been told to; and the bound.
Told ==
  /\ stage \in {"cancel", "agent", "closed", "gone"} => cancelled
  /\ halts.asked + halts.made <= MaxHalts

\* What lasted keeps the daemon busy now; whoever is connected and was not found among
\* the sinks is in its transport's table; and what was read was empty.
Watched ==
  /\ steady \subseteq Busy
  /\ cancelled => steady = {}
  /\ watch = "tables" => \A c \in Clients : <<"conn", c>> \in steady => c \in table
  /\ watch = "runs" => \A c \in Clients : <<"conn", c>> \notin steady
  /\ watch \in {"decide", "stop"} => steady = {}

LifeInv == DaemonTypeOK /\ Connected /\ Told /\ Watched

-----------------------------------------------------------------------------
\* The daemon starts in the invariant.
LEMMA LifeInit == ASSUME DaemonConstants, DaemonInit PROVE LifeInv
<1> USE DEF DaemonInit, DaemonConstants
<1>1. DaemonTypeOK
  <2>1. conn \in [Clients -> {"none", "hello", "connect", "handshake", "serve", "admitted",
                              "unsink", "done"}]
    OBVIOUS
  <2>2. halts \in [asked : 0 .. MaxHalts, made : 0 .. MaxHalts] OBVIOUS
  <2> QED BY <2>1, <2>2 DEF DaemonTypeOK
<1>2. Connected /\ Told /\ Watched BY DEF Connected, Told, Watched, Busy
<1> QED BY <1>1, <1>2 DEF LifeInv

\* What lasts through a step that ends no evaluation: who is connected and loses neither
\* its sink nor its place, and runs that go on.
LEMMA Tracked ==
  ASSUME Watched, sinks \cup table \cup runs \subseteq Clients,
         sinks' \cup table' \cup runs' \subseteq Clients,
         Track, watch' = watch, cancelled => cancelled',
         \A c \in table \ table' : c \notin sinks' \/ cancelled'
  PROVE  Watched' /\ steady' \subseteq {"conn", "run"} \X Clients
<1>1. CASE cancelled'
  BY <1>1 DEF Track, Watched
<1>2. CASE ~cancelled'
  <2>1. steady' = (steady \cap Busy') \cup
                    {<<"run", c>> : c \in {d \in runs' \ runs : <<"conn", d>> \in steady}}
    BY <1>2 DEF Track
  <2>2. \A c : <<"conn", c>> \in steady' => <<"conn", c>> \in steady /\ c \in sinks' \cup table'
    BY <2>1 DEF Busy
  <2>3. \A x \in steady' \ steady : \E d : x = <<"run", d>> /\ d \in runs' /\ <<"conn", d>> \in steady
    BY <2>1
  <2>4. steady' \subseteq Busy' BY <2>1, <2>3 DEF Busy
  <2>5. Busy' \subseteq {"conn", "run"} \X Clients BY DEF Busy
  <2>6. watch = "tables" => \A c \in Clients : <<"conn", c>> \in steady' => c \in table'
    BY <1>2, <2>2 DEF Watched
  <2>7. watch = "runs" => \A c \in Clients : <<"conn", c>> \notin steady'
    BY <2>2 DEF Watched
  <2>8. watch \in {"decide", "stop"} => steady' = {}
    BY <2>1, <2>3 DEF Watched
  <2> QED BY <1>2, <2>4, <2>5, <2>6, <2>7, <2>8 DEF Watched
<1> QED BY <1>1, <1>2

\* The steps of a connection.
LEMMA ConnectionInv ==
  ASSUME DaemonConstants, LifeInv, NEW c \in Clients, Connection(c)
  PROVE  LifeInv'
<1> USE DEF LifeInv, Goto
<1>t. conn \in [Clients -> {"none", "hello", "connect", "handshake", "serve", "admitted",
                            "unsink", "done"}]
      /\ sinks \subseteq Clients /\ table \subseteq Clients /\ runs \subseteq Clients
      /\ LocalClients \subseteq Clients
  BY DEF DaemonTypeOK, Clients
<1> DEFINE Fine ==
      /\ UNCHANGED <<policy, stage, state, cancelled, watch, idle>>
      /\ halts' \in [asked : 0 .. MaxHalts, made : 0 .. MaxHalts]
      /\ halts'.asked + halts'.made <= MaxHalts
      /\ conn' \in [Clients -> {"none", "hello", "connect", "handshake", "serve", "admitted",
                                "unsink", "done"}]
      /\ sinks' \subseteq Clients /\ table' \subseteq Clients /\ runs' \subseteq Clients
      /\ Connected' /\ Track
      /\ \A d \in table \ table' : d \notin sinks'
<1>q. Fine => LifeInv'
  <2> SUFFICES ASSUME Fine PROVE LifeInv' OBVIOUS
  <2>1. Watched' /\ steady' \subseteq {"conn", "run"} \X Clients BY <1>t, Tracked
  <2>2. DaemonTypeOK' BY <2>1 DEF DaemonTypeOK
  <2> QED BY <2>1, <2>2 DEF Told
<1>s. /\ halts \in [asked : 0 .. MaxHalts, made : 0 .. MaxHalts]
      /\ halts.asked + halts.made <= MaxHalts
  BY DEF DaemonTypeOK, Told
<1>1. CASE Accept(c)
  BY <1>q, <1>1, <1>t, <1>s DEF Accept, main, Connected
<1>2. CASE Hello(c)
  BY <1>q, <1>2, <1>t, <1>s DEF Hello, main, Connected
<1>3. CASE AddSink(c)
  BY <1>q, <1>3, <1>t, <1>s DEF AddSink, main, Connected
<1>4. CASE AddToTable(c)
  BY <1>q, <1>4, <1>t, <1>s DEF AddToTable, main, Connected
<1>5. CASE Admit(c)
  BY <1>q, <1>5, <1>t, <1>s DEF Admit, main, Connected
<1>6. CASE Answer(c)
  BY <1>q, <1>6, <1>t, <1>s DEF Answer, main, Connected
<1>7. CASE AskStop(c)
  BY <1>q, <1>7, <1>t, <1>s DEF AskStop, clients, Connected, DaemonConstants
<1>8. CASE Hangup(c)
  BY <1>q, <1>8, <1>t, <1>s DEF Hangup, main, Connected
<1>9. CASE RemoveSink(c)
  BY <1>q, <1>9, <1>t, <1>s DEF RemoveSink, main, Connected
<1>10. CASE RemoveFromTable(c)
  BY <1>q, <1>10, <1>t, <1>s DEF RemoveFromTable, main, Connected
<1>11. CASE EndRun(c)
  BY <1>q, <1>11, <1>t, <1>s DEF EndRun, main, Connected
<1> QED
  BY <1>1, <1>2, <1>3, <1>4, <1>5, <1>6, <1>7, <1>8, <1>9, <1>10, <1>11 DEF Connection

\* The steps of the main goroutine and the stops from outside.
LEMMA MainInv ==
  ASSUME DaemonConstants, LifeInv, Main \/ Stop \/ Signal
  PROVE  LifeInv'
<1> USE DEF LifeInv
<1>t. sinks \subseteq Clients /\ table \subseteq Clients /\ runs \subseteq Clients
  BY DEF DaemonTypeOK
<1> DEFINE Fine == /\ UNCHANGED <<sinks, runs, watch>> /\ Track /\ (cancelled => cancelled')
                   /\ table' = table \/ (table' = {} /\ cancelled')
<1>q. Fine => Watched' /\ steady' \subseteq {"conn", "run"} \X Clients BY <1>t, Tracked
<1>1. CASE Mount
  <2>1. Fine BY <1>1 DEF Mount, clients
  <2> QED BY <1>1, <1>q, <2>1 DEF Mount, Stage, DaemonTypeOK, Connected, Told, clients
<1>2. CASE PublishReady
  <2>1. Fine BY <1>2 DEF PublishReady, clients
  <2> QED BY <1>2, <1>q, <2>1 DEF PublishReady, Stage, DaemonTypeOK, Connected, Told,
       clients
<1>3. CASE StartMonitor
  <2>1. DaemonTypeOK' /\ Connected' /\ Told'
    <3>1. steady' \subseteq {"conn", "run"} \X Clients
      BY <1>3, <1>t DEF StartMonitor, Track, DaemonTypeOK, clients
    <3> QED BY <1>3, <3>1 DEF StartMonitor, Stage, DaemonTypeOK, Connected, Told,
         clients
  <2>2. Watched' BY <1>3 DEF StartMonitor, Track, Watched, Busy, clients
  <2> QED BY <2>1, <2>2
<1>4. CASE BeginShutdown
  <2>1. Fine BY <1>4 DEF BeginShutdown, clients
  <2> QED BY <1>4, <1>q, <2>1 DEF BeginShutdown, Stage, DaemonTypeOK, Connected, Told,
       clients
<1>5. CASE CloseAgent
  <2>1. Fine BY <1>5 DEF CloseAgent, clients
  <2> QED BY <1>5, <1>q, <2>1 DEF CloseAgent, Stage, DaemonTypeOK, Connected, Told,
       clients
<1>6. CASE CloseTransports
  <2>1. Fine BY <1>6 DEF CloseTransports, Stage, Told
  <2> QED BY <1>6, <1>q, <2>1 DEF CloseTransports, Stage, DaemonTypeOK, Connected, Told
<1>7. CASE ProcessEnds
  <2>1. steady' = {} BY <1>7 DEF ProcessEnds, Stage, Told, Track
  <2> QED BY <1>7, <2>1 DEF ProcessEnds, Stage, DaemonTypeOK, Connected, Told, Watched
<1>8. CASE Stop
  <2>1. Fine BY <1>8 DEF Stop, clients
  <2>2. halts' \in [asked : 0 .. MaxHalts, made : 0 .. MaxHalts]
        /\ halts'.asked + halts'.made <= MaxHalts
    BY <1>8 DEF Stop, DaemonTypeOK, Told, DaemonConstants
  <2> QED BY <1>8, <1>q, <2>1, <2>2 DEF Stop, DaemonTypeOK, Connected, Told, clients
<1>9. CASE Signal
  <2>1. Fine BY <1>9 DEF Signal, clients
  <2>2. halts' \in [asked : 0 .. MaxHalts, made : 0 .. MaxHalts]
        /\ halts'.asked + halts'.made <= MaxHalts
    BY <1>9 DEF Signal, DaemonTypeOK, Told, DaemonConstants
  <2> QED BY <1>9, <1>q, <2>1, <2>2 DEF Signal, DaemonTypeOK, Connected, Told, clients
<1> QED BY <1>1, <1>2, <1>3, <1>4, <1>5, <1>6, <1>7, <1>8, <1>9 DEF Main

\* The steps of the monitor.
LEMMA WatchInv == ASSUME DaemonConstants, LifeInv, Watch PROVE LifeInv'
<1> USE DEF LifeInv, main, clients
<1>t. sinks \subseteq Clients /\ table \subseteq Clients /\ runs \subseteq Clients
  BY DEF DaemonTypeOK
<1> DEFINE Fine == UNCHANGED <<policy, stage, halts, conn, sinks, table, runs>> /\ Track
<1>q. Fine => /\ steady' \subseteq steady /\ steady' \subseteq {"conn", "run"} \X Clients
              /\ steady' \subseteq Busy' /\ (cancelled' => steady' = {})
  BY <1>t DEF Track, Busy, DaemonTypeOK
<1>1. CASE BeginEvaluation
  <2>1. steady' \subseteq {"conn", "run"} \X Clients BY <1>1, <1>t DEF BeginEvaluation,
       Busy
  <2> QED BY <1>1, <2>1 DEF BeginEvaluation, DaemonTypeOK, Connected, Told, Watched, Busy
<1>2. CASE ReadSinks
  <2>1. Fine BY <1>2 DEF ReadSinks
  <2>2. DaemonTypeOK' /\ Connected' /\ Told' BY <1>2, <1>q, <2>1 DEF ReadSinks, DaemonTypeOK,
       Connected, Told
  <2>3. watch' = "tables" => \A c \in Clients : <<"conn", c>> \in steady' => c \in table'
    <3>1. watch' = "tables" => sinks' = {} BY <1>2 DEF ReadSinks
    <3> QED BY <1>q, <2>1, <3>1 DEF Busy
  <2> QED BY <1>2, <1>q, <2>1, <2>2, <2>3 DEF ReadSinks, Watched
<1>3. CASE ReadTables
  <2>1. Fine BY <1>3 DEF ReadTables
  <2>2. DaemonTypeOK' /\ Connected' /\ Told' BY <1>3, <1>q, <2>1 DEF ReadTables, DaemonTypeOK,
       Connected, Told
  <2> QED BY <1>3, <1>q, <2>1, <2>2 DEF ReadTables, Watched
<1>4. CASE ReadRuns
  <2>1. Fine BY <1>4 DEF ReadRuns
  <2>2. DaemonTypeOK' /\ Connected' /\ Told' BY <1>4, <1>q, <2>1 DEF ReadRuns, DaemonTypeOK,
       Connected, Told
  <2>3. watch' = "decide" => steady' = {}
    <3>1. watch' = "decide" => runs' = {} BY <1>4 DEF ReadRuns
    <3>2. \A c \in Clients : <<"conn", c>> \notin steady BY <1>4 DEF ReadRuns, Watched
    <3> QED BY <1>q, <1>t, <2>1, <3>1, <3>2 DEF Busy
  <2> QED BY <1>4, <1>q, <2>1, <2>2, <2>3 DEF ReadRuns, Watched
<1>5. CASE Keep
  <2>1. Fine BY <1>5 DEF Keep
  <2> QED BY <1>5, <1>q, <2>1 DEF Keep, DaemonTypeOK, Connected, Told, Watched
<1>6. CASE StartGrace
  <2>1. Fine BY <1>6 DEF StartGrace
  <2> QED BY <1>6, <1>q, <2>1 DEF StartGrace, DaemonTypeOK, Connected, Told, Watched
<1>7. CASE GraceOver
  <2>1. Fine BY <1>7 DEF GraceOver
  <2> QED BY <1>7, <1>q, <2>1 DEF GraceOver, DaemonTypeOK, Connected, Told, Watched
<1>8. CASE MonitorStops
  <2>1. Fine BY <1>8 DEF MonitorStops
  <2> QED BY <1>8, <1>q, <2>1 DEF MonitorStops, DaemonTypeOK, Connected, Told, Watched
<1>9. CASE MonitorEnds
  <2>1. Fine BY <1>9 DEF MonitorEnds
  <2> QED BY <1>9, <1>q, <2>1 DEF MonitorEnds, DaemonTypeOK, Connected, Told, Watched
<1> QED BY <1>1, <1>2, <1>3, <1>4, <1>5, <1>6, <1>7, <1>8, <1>9 DEF Watch

\* Every step keeps the invariant.
LEMMA LifeNext == ASSUME DaemonConstants, LifeInv, [DaemonNext]_daemonVars PROVE LifeInv'
<1>1. CASE DaemonNext BY <1>1, ConnectionInv, MainInv, WatchInv DEF DaemonNext
<1>2. CASE UNCHANGED daemonVars
  BY <1>2 DEF daemonVars, main, clients, monitor, LifeInv, DaemonTypeOK, Connected,
       Told, Watched, Busy
<1> QED BY <1>1, <1>2

\* The sinks, the stages of the shutdown and what the monitor has read fit together.
THEOREM LifeCorrect == DaemonSpec => []LifeInv
<1>1. DaemonInit => LifeInv BY DaemonAssumption, LifeInit
<1>2. LifeInv /\ [DaemonNext]_daemonVars => LifeInv' BY DaemonAssumption, LifeNext
<1> QED BY <1>1, <1>2, PTL DEF DaemonSpec

\* Every variable keeps its type.
THEOREM LifeTypeCorrect == DaemonSpec => []DaemonTypeOK
<1>1. LifeInv => DaemonTypeOK BY DEF LifeInv
<1> QED BY <1>1, LifeCorrect, PTL

\* The monitor never stops a daemon that somebody was using from the beginning of its
\* evaluation to the end, in whatever order clients come, start runs and leave.
THEOREM LastingCorrect == DaemonSpec => []NoLastingClientStopped
<1>1. LifeInv => NoLastingClientStopped
  BY DEF LifeInv, Watched, NoLastingClientStopped
<1> QED BY <1>1, LifeCorrect, PTL

-----------------------------------------------------------------------------
(* The background processes: proofs about ExecJobs.                        *)

Marks == {"none", "complete", "partial"}

Registry == [jobs : SUBSET Jobs, active : Nat, perSession : [Sessions -> Nat], closed : BOOLEAN]
Calls == {"idle", "reserved", "added", "refused", "cancelling", "returned", "failed"}
Record == [finished : Nat, cleanup : Marks, stop : {"none", "stopped", "cancelled"}]
Ways == {"exited", "stopped", "cancelled", "timed_out"}
Monitoring == [pc : {"none", "watch", "drained", "finished", "trimming", "done"},
          status : Ways \cup {"running"}, finished : Nat, cleanup : Marks]
Trimming == [holder : Jobs \cup {NoJob}, todo : SUBSET Jobs, seen : SUBSET Jobs]
Cleaning == [pc : {"no", "closing", "list", "wait", "delete", "done"},
             todo : SUBSET Jobs, jobs : SUBSET Jobs, partial : BOOLEAN]

Types ==
  /\ reg \in Registry /\ call \in [Jobs -> Calls] /\ job \in [Jobs -> Record]
  /\ mon \in [Jobs -> Monitoring] /\ proc \in [Jobs -> {"none", "alive", "exited"}]
  /\ clock \in Nat \ {0} /\ trim \in Trimming /\ end \in [Ends -> Cleaning]

\* What the call has done tells whether there is a monitor; whoever is listed has
\* one; a job has a time from Finish on; and a process that survived is known.
Stages ==
  /\ \A j \in Jobs :
       /\ call[j] \in {"idle", "reserved"} => mon[j].pc = "none"
       /\ mon[j].pc = "none" => call[j] \in {"idle", "reserved", "failed"}
       /\ call[j] = "failed" => mon[j].pc \in {"none", "done"}
       /\ mon[j].pc \in {"finished", "trimming", "done"} <=> Completed(j)
       /\ mon[j].pc = "drained" =>
            mon[j].finished # 0 /\ (proc[j] = "alive" => mon[j].cleanup = "partial")
       /\ Completed(j) /\ proc[j] = "alive" => job[j].cleanup = "partial"
  /\ \A j \in reg.jobs : mon[j].pc # "none"
  /\ \A c \in Ends : \A j \in end[c].jobs : mon[j].pc # "none"

\* One trims at a time, and has seen or will see whoever completed before.
Trims ==
  /\ \A j \in Jobs : mon[j].pc = "trimming" <=> trim.holder = j
  /\ \A j \in trim.seen : Completed(j)
  /\ trim.holder # NoJob =>
       \A j \in reg.jobs : mon[j].pc \in {"trimming", "done"} => j \in trim.todo \cup trim.seen

\* Whoever has been through its trim is within the limits.
Retained ==
  LET kept == {j \in reg.jobs : mon[j].pc = "done"}
  IN  /\ Cardinality(kept) <= MaxGlobalCompleted
      /\ \A s \in Sessions :
           Cardinality({j \in kept : Owner[j].session = s}) <= MaxSessionCompleted

\* The registry is closed when the daemon ends; a boundary that has ended, and what
\* belongs to it, is not in the middle of a start; a session ends after its runs;
\* and a clean-up has listed the jobs that it is for, and no others.
Closing == reg.closed <=> end[Daemon].pc # "no"

Resting ==
  \A o \in Owners : end[o].pc # "no" =>
    \A p \in Owners : p = o \/ (o.main /\ SameRun(p, o)) => ~MidCall(p)

Over ==
  \A s \in Sessions : end[s].pc # "no" =>
    \A o \in Owners : o.session = s /\ o.main => end[o].pc = "done"

Listed ==
  \A c \in Ends :
    /\ end[c].pc \in {"wait", "delete"} => \A j \in reg.jobs : Matches(c, j) => j \in end[c].jobs
    /\ end[c].todo \subseteq end[c].jobs
    /\ \A j \in end[c].jobs : Matches(c, j)

Ended == Closing /\ Resting /\ Over /\ Listed /\ EndedHasNoJobs

IInv ==
  /\ Types /\ Stages /\ Trims
  /\ QuotaCounted /\ Retained
  /\ Ended /\ NoSilentSurvivor

-----------------------------------------------------------------------------
(* Facts about the constants, and about counting.                          *)

\* What the assumptions say about jobs, owners and ends.
LEMMA Constants ==
  ASSUME ExecAssumption
  PROVE  /\ Jobs \subseteq Nat /\ NoJob \notin Jobs /\ IsFiniteSet(Jobs)
         /\ \A j \in Jobs : Owner[j] \in Owners /\ Owner[j].session \in Sessions
         /\ Daemon \in Ends /\ Daemon \notin Owners /\ Daemon \notin Sessions
         /\ \A o \in Owners : o \in Ends /\ o \notin Sessions
         /\ \A s \in Sessions : s \in Ends /\ s \notin Owners
<1>1. IsFiniteSet(Jobs) BY FS_Interval DEF ExecAssumption, Jobs
<1> QED BY <1>1 DEF ExecAssumption, Jobs, NoJob, Ends

\* Any jobs are finitely many.
LEMMA Finite ==
  ASSUME ExecAssumption, NEW S \in SUBSET Jobs
  PROVE  IsFiniteSet(S) /\ Cardinality(S) \in Nat
  BY Constants, FS_Subset, FS_CardinalityType

\* A part is not larger.
LEMMA PartIsSmaller ==
  ASSUME ExecAssumption, NEW S \in SUBSET Jobs, NEW T \in SUBSET S
  PROVE  Cardinality(T) <= Cardinality(S) /\ Cardinality(S) \in Nat /\ Cardinality(T) \in Nat
  BY Finite, FS_Subset

\* Any numbers have a least.
LEMMA Least ==
  ASSUME NEW T, T \subseteq Nat, T # {}
  PROVE  \E m \in T : \A k \in T : m <= k
<1> DEFINE R == OpToRel(<, Nat)
<1>1. IsWellFoundedOn(R, Nat) BY NatLessThanWellFounded
<1>2. \A a, b \in Nat : a < b => <<a, b>> \in R BY DEF OpToRel
<1> HIDE DEF R
<1>3. PICK m \in T : \A k \in T : ~(<<k, m>> \in R) BY <1>1, WFMin
<1>4. \A k \in T : ~(k < m) BY <1>2, <1>3
<1>5. \A k \in T : k \in Nat OBVIOUS
<1>6. \A k \in T : m <= k BY <1>3, <1>4, <1>5
<1> QED BY <1>3, <1>6

\* Among any jobs one is the oldest.
LEMMA Oldest ==
  ASSUME ExecAssumption, Types, NEW T \in SUBSET Jobs, T # {}
  PROVE  \E m \in T : \A k \in T \ {m} : Older(m, k)
<1> DEFINE Times == {job[j].finished : j \in T}
<1>0. \A j \in T : job[j].finished \in Nat /\ j \in Nat BY Constants DEF Types, Record
<1>1. PICK t \in Times : \A u \in Times : t <= u
  <2>1. Times \subseteq Nat BY <1>0
  <2>2. \E j \in T : job[j].finished \in Times OBVIOUS
  <2> HIDE DEF Times
  <2> QED BY <2>1, <2>2, Least
<1> DEFINE First == {j \in T : job[j].finished = t}
<1>2. PICK m \in First : \A k \in First : m <= k
  <2>1. First \subseteq Nat BY <1>0
  <2>2. First # {} BY <1>1
  <2> HIDE DEF First
  <2> QED BY <2>1, <2>2, Least
<1>3. ASSUME NEW k \in T \ {m} PROVE Older(m, k)
  <2>1. /\ job[k].finished \in Nat /\ job[m].finished \in Nat /\ k \in Nat /\ m \in Nat
        /\ job[m].finished = t
    BY <1>0, <1>2
  <2>2. CASE job[k].finished = t
    <3>1. m <= k /\ m # k BY <1>2, <2>2
    <3> QED BY <2>1, <2>2, <3>1 DEF Older
  <2>3. CASE job[k].finished # t
    <3>1. t <= job[k].finished BY <1>1
    <3> QED BY <2>1, <2>3, <3>1 DEF Older
  <2> QED BY <2>2, <2>3
<1> QED BY <1>2, <1>3

\* Without their excess no more than n are left.
LEMMA ExcessBounds ==
  ASSUME ExecAssumption, Types, NEW S \in SUBSET Jobs, NEW n \in Nat
  PROVE  Cardinality(S \ Excess(S, n)) <= n
<1> DEFINE T == S \ Excess(S, n)
<1>0. T \subseteq Jobs /\ T \subseteq S OBVIOUS
<1>1. IsFiniteSet(T) /\ Cardinality(T) \in Nat BY <1>0, Finite
<1>2. CASE T = {}
  <2>1. Cardinality(T) = 0 BY <1>2, FS_EmptySet
  <2> HIDE DEF T
  <2> QED BY <2>1 DEF T
<1>3. CASE T # {}
  <2>1. PICK m \in T : \A k \in T \ {m} : Older(m, k)
    <3> HIDE DEF T
    <3> QED BY <1>0, <1>3, Oldest
  <2>2. T \ {m} \subseteq {k \in S : Older(m, k)} BY <2>1
  <2>3. Cardinality(T \ {m}) = Cardinality(T) - 1
    <3> HIDE DEF T
    <3> QED BY <1>1, <2>1, FS_RemoveElement
  <2>4. m \in S /\ ~(Cardinality({k \in S : Older(m, k)}) >= n) BY <2>1 DEF Excess
  <2>5. Cardinality(T \ {m}) <= Cardinality({k \in S : Older(m, k)})
        /\ Cardinality({k \in S : Older(m, k)}) \in Nat
    <3> HIDE DEF T
    <3>1. {k \in S : Older(m, k)} \in SUBSET Jobs OBVIOUS
    <3> QED BY <2>2, <3>1, PartIsSmaller
  <2> HIDE DEF T
  <2> QED BY <1>1, <2>3, <2>4, <2>5 DEF T
<1> QED BY <1>2, <1>3

-----------------------------------------------------------------------------
(* Types.                                                                  *)

\* A reservation, ...
LEMMA ReservedType ==
  ASSUME NEW r \in Registry, NEW s \in Sessions
  PROVE  [r EXCEPT !.active = @ + 1, !.perSession[s] = @ + 1] \in Registry
<1>1. [r EXCEPT !.active = r.active + 1] \in Registry BY DEF Registry
<1>2. \A q \in Registry : [q EXCEPT !.perSession = [q.perSession EXCEPT ![s] = q.perSession[s] + 1]] \in Registry
  BY DEF Registry
<1> QED BY <1>1, <1>2 DEF Registry

\* ... a release, ...
LEMMA ReleasedType ==
  ASSUME reg \in Registry, NEW s \in Sessions
  PROVE  GivenBack(s) \in Registry /\ GivenBack(s).jobs = reg.jobs /\ GivenBack(s).closed = reg.closed
<1>1. [reg EXCEPT !.active = IF reg.active > 0 THEN reg.active - 1 ELSE 0] \in Registry
  BY DEF Registry
<1>2. \A q \in Registry :
        [q EXCEPT !.perSession = [q.perSession EXCEPT ![s] = IF q.perSession[s] <= 1 THEN 0 ELSE q.perSession[s] - 1]]
          \in Registry
  BY DEF Registry
<1> QED BY <1>1, <1>2 DEF Registry, GivenBack

\* ... a stop request ...
LEMMA StoppedJobType ==
  ASSUME job \in [Jobs -> Record], NEW j \in Jobs, NEW status \in {"stopped", "cancelled"}
  PROVE  /\ StoppedJob(j, status) \in Record
         /\ StoppedJob(j, status).finished = job[j].finished /\ StoppedJob(j, status).cleanup = job[j].cleanup
         /\ StoppedJob(j, status).stop = job[j].stop \/ job[j].stop = "none"
  BY DEF Record, StoppedJob, Running

\* ... and the steps of a clean-up keep the types.
LEMMA CleaningType ==
  ASSUME NEW r \in Cleaning, NEW p \in {"no", "closing", "list", "wait", "delete", "done"},
         NEW T \in SUBSET Jobs, NEW b \in BOOLEAN
  PROVE  /\ [r EXCEPT !.pc = p] \in Cleaning /\ [r EXCEPT !.todo = T] \in Cleaning
         /\ [r EXCEPT !.pc = p, !.partial = b] \in Cleaning
         /\ [r EXCEPT !.pc = p, !.todo = T, !.jobs = T] \in Cleaning
<1>1. [r EXCEPT !.pc = p] \in Cleaning BY DEF Cleaning
<1>2. [r EXCEPT !.todo = T] \in Cleaning BY DEF Cleaning
<1>3. [r EXCEPT !.pc = p, !.partial = b] \in Cleaning BY DEF Cleaning
<1>4. [r EXCEPT !.pc = p, !.todo = T, !.jobs = T] \in Cleaning BY DEF Cleaning
<1> QED BY <1>1, <1>2, <1>3, <1>4

\* So do a look of a trim ...
LEMMA TrimType ==
  ASSUME NEW r \in Trimming, NEW k \in Jobs, NEW K \in SUBSET Jobs
  PROVE  [r EXCEPT !.todo = @ \ {k}, !.seen = @ \cup K] \in Trimming
<1>1. [r EXCEPT !.todo = r.todo \ {k}] \in Trimming BY DEF Trimming
<1>2. \A q \in Trimming : [q EXCEPT !.seen = q.seen \cup K] \in Trimming BY DEF Trimming
<1> QED BY <1>1, <1>2 DEF Trimming

\* ... and a monitor that moves on.
LEMMA WatchType ==
  ASSUME NEW r \in Monitoring, NEW p \in {"none", "watch", "drained", "finished", "trimming", "done"}
  PROVE  [r EXCEPT !.pc = p] \in Monitoring
  BY DEF Monitoring

\* What wakes a monitor up.
LEMMA Wakes ==
  ASSUME Types, NEW j \in Jobs, SeesProcExit(j) \/ SeesStop(j) \/ TimesOut(j)
  PROVE  \E status \in Ways : Drained(j, status)
<1>1. job[j] \in Record BY DEF Types
<1>2. job[j].stop # "none" => job[j].stop \in Ways BY <1>1 DEF Record, Ways
<1>3. "exited" \in Ways /\ "timed_out" \in Ways BY DEF Ways
<1> QED BY <1>2, <1>3 DEF SeesProcExit, SeesStop, TimesOut

\* Every step keeps the types.
LEMMA TypesKept == ASSUME ExecAssumption, Types, JobsNext PROVE Types'
<1>r. reg \in Registry BY DEF Types
<1>c. call \in [Jobs -> Calls] BY DEF Types
<1>j. job \in [Jobs -> Record] BY DEF Types
<1>m. mon \in [Jobs -> Monitoring] BY DEF Types
<1>p. proc \in [Jobs -> {"none", "alive", "exited"}] BY DEF Types
<1>k. clock \in Nat \ {0} BY DEF Types
<1>t. trim \in Trimming BY DEF Types
<1>e. end \in [Ends -> Cleaning] BY DEF Types
<1>s. /\ \A x \in Jobs : Owner[x] \in Owners /\ Owner[x].session \in Sessions
      /\ Daemon \in Ends /\ \A o \in Owners : o \in Ends
      /\ \A x \in Sessions : x \in Ends
  BY Constants
<1>1. ASSUME NEW j \in Jobs, Reserve(j) PROVE Types'
  <2>1. reg' \in Registry BY <1>1, <1>r, <1>s, ReservedType DEF Reserve, Registry
  <2>2. call' \in [Jobs -> Calls] BY <1>1, <1>c DEF Reserve, Calls
  <2> QED BY <2>1, <2>2, <1>1 DEF Types, Reserve
<1>2. ASSUME NEW j \in Jobs, LaunchFails(j) PROVE Types'
  <2>1. reg' \in Registry BY <1>2, <1>r, <1>s, ReleasedType DEF LaunchFails, Registry
  <2>2. call' \in [Jobs -> Calls] BY <1>2, <1>c DEF LaunchFails, Calls
  <2> QED BY <2>1, <2>2, <1>2 DEF Types, LaunchFails
<1>3. ASSUME NEW j \in Jobs, Launch(j) PROVE Types'
  <2>1. reg' \in Registry BY <1>3, <1>r, <1>s DEF Launch, Registry
  <2>2. call' \in [Jobs -> Calls] BY <1>3, <1>c DEF Launch, Calls
  <2>3. job' \in [Jobs -> Record] BY <1>3, <1>j, <1>s, StoppedJobType DEF Launch, Record
  <2>4. mon' \in [Jobs -> Monitoring] BY <1>3, <1>m, SMTT(30) DEF Launch, Monitoring, Ways, Marks
  <2>5. proc' \in [Jobs -> {"none", "alive", "exited"}] BY <1>3, <1>p DEF Launch
  <2> QED BY <2>1, <2>2, <2>3, <2>4, <2>5, <1>3 DEF Types, Launch
<1>4. ASSUME NEW j \in Jobs, StartReturns(j) PROVE Types'
  <2>1. call' \in [Jobs -> Calls] BY <1>4, <1>c DEF StartReturns, Calls
  <2> QED BY <2>1, <1>4 DEF Types, StartReturns
<1>5. ASSUME NEW j \in Jobs, StartCancelled(j) PROVE Types'
  <2>1. call' \in [Jobs -> Calls] BY <1>5, <1>c DEF StartCancelled, Calls
  <2>2. job' \in [Jobs -> Record] BY <1>5, <1>j, <1>s, StoppedJobType DEF StartCancelled, Record
  <2> QED BY <2>1, <2>2, <1>5 DEF Types, StartCancelled
<1>6. ASSUME NEW j \in Jobs, RefusedReturns(j) PROVE Types'
  <2>1. call' \in [Jobs -> Calls] BY <1>6, <1>c DEF RefusedReturns, Calls
  <2> QED BY <2>1, <1>6 DEF Types, RefusedReturns
<1>7. ASSUME NEW j \in Jobs, CancelReturns(j) PROVE Types'
  <2>1. reg' \in Registry BY <1>7, <1>r, <1>s DEF CancelReturns, Dropped, Registry
  <2>2. call' \in [Jobs -> Calls] BY <1>7, <1>c DEF CancelReturns, Dropped, Calls
  <2> QED BY <2>1, <2>2, <1>7 DEF Types, CancelReturns
<1>8. ASSUME NEW j \in Jobs, NEW o \in Owners, StopJob(j, o) PROVE Types'
  <2>1. job' \in [Jobs -> Record] BY <1>8, <1>j, <1>s, StoppedJobType DEF StopJob, Record
  <2> QED BY <2>1, <1>8 DEF Types, StopJob
<1>9. ASSUME NEW j \in Jobs, ProcExits(j) PROVE Types'
  <2>1. proc' \in [Jobs -> {"none", "alive", "exited"}] BY <1>9, <1>p DEF ProcExits
  <2> QED BY <2>1, <1>9 DEF Types, ProcExits
<1>10. ASSUME NEW j \in Jobs, NEW status \in Ways, Drained(j, status) PROVE Types'
  <2>1. mon' \in [Jobs -> Monitoring] BY <1>10, <1>m, <1>s, <1>k DEF Drained, CleanupStatus, Monitoring, Ways, Marks
  <2>2. proc' \in [Jobs -> {"none", "alive", "exited"}] BY <1>10, <1>p, <1>s DEF Drained, CleanupStatus
  <2>3. clock' \in Nat \ {0} BY <1>10, <1>k, <1>s DEF Drained, CleanupStatus
  <2> QED BY <2>1, <2>2, <2>3, <1>10 DEF Types, Drained
<1>11. ASSUME NEW j \in Jobs, Finish(j) PROVE Types'
  <2>1. job' \in [Jobs -> Record] BY <1>11, <1>j, <1>s, <1>m DEF Finish, Local, Record, Monitoring
  <2>2. mon' \in [Jobs -> Monitoring] BY <1>11, <1>m DEF Finish, Local, Monitoring, Ways, Marks
  <2> QED BY <2>1, <2>2, <1>11 DEF Types, Finish
<1>12. ASSUME NEW j \in Jobs, JobCompleted(j) PROVE Types'
  <2>1. reg' \in Registry BY <1>12, <1>r, <1>s, ReleasedType DEF JobCompleted, Registry
  <2>2. [mon[j] EXCEPT !.pc = "trimming"] \in Monitoring
    <3>1. mon[j] \in Monitoring BY <1>m
    <3> QED BY <3>1, WatchType
  <2>3. mon' \in [Jobs -> Monitoring] BY <1>12, <1>m, <2>2 DEF JobCompleted
  <2>4. trim' \in Trimming BY <1>12, <1>t, <1>r DEF JobCompleted, Trimming, Registry
  <2> QED BY <2>1, <2>3, <2>4, <1>12 DEF Types, JobCompleted
<1>13. ASSUME NEW j \in Jobs, TrimLook(j) PROVE Types'
  <2>1. PICK k \in trim.todo : trim' = [trim EXCEPT !.todo = @ \ {k}, !.seen = @ \cup {x \in {k} : Completed(k)}]
    BY <1>13 DEF TrimLook
  <2>2. k \in Jobs /\ {x \in {k} : Completed(k)} \in SUBSET Jobs BY <1>t DEF Trimming
  <2>3. trim' \in Trimming BY <1>t, <2>1, <2>2, TrimType
  <2> QED BY <2>3, <1>13 DEF Types, TrimLook
<1>14. ASSUME NEW j \in Jobs, TrimDelete(j) PROVE Types'
  <2>1. reg' \in Registry BY <1>14, <1>r, <1>s DEF TrimDelete, Registry
  <2>2. [mon[j] EXCEPT !.pc = "done"] \in Monitoring
    <3>1. mon[j] \in Monitoring BY <1>m
    <3> QED BY <3>1, WatchType
  <2>3. mon' \in [Jobs -> Monitoring] BY <1>14, <1>m, <2>2 DEF TrimDelete
  <2>4. trim' \in Trimming BY <1>14, <1>t, <1>r DEF TrimDelete, Trimming, Registry
  <2> QED BY <2>1, <2>3, <2>4, <1>14 DEF Types, TrimDelete
<1>15. CASE Reap
  <2>1. reg' \in Registry BY <1>15, <1>r, <1>s DEF Reap, Registry
  <2> QED BY <2>1, <1>15 DEF Types, Reap
<1>16. ASSUME NEW o \in Owners, EndBoundary(o) PROVE Types'
  <2>1. [end[o] EXCEPT !.pc = "list"] \in Cleaning
    <3>1. end[o] \in Cleaning BY <1>e, <1>s
    <3> QED BY <3>1, CleaningType
  <2>2. end' \in [Ends -> Cleaning] BY <1>16, <1>e, <2>1 DEF EndBoundary, Begin
  <2> QED BY <2>2, <1>16 DEF Types, EndBoundary
<1>17. ASSUME NEW s \in Sessions, EndSession(s) PROVE Types'
  <2>1. [end[s] EXCEPT !.pc = "list"] \in Cleaning
    <3>1. end[s] \in Cleaning BY <1>e, <1>s
    <3> QED BY <3>1, CleaningType
  <2>2. end' \in [Ends -> Cleaning] BY <1>17, <1>e, <2>1 DEF EndSession, Begin
  <2> QED BY <2>2, <1>17 DEF Types, EndSession
<1>18. CASE CloseRegistry
  <2>1. reg' \in Registry BY <1>18, <1>r, <1>s DEF CloseRegistry, Registry
  <2>2. [end[Daemon] EXCEPT !.pc = "closing"] \in Cleaning
    <3>1. end[Daemon] \in Cleaning BY <1>e, <1>s
    <3> QED BY <3>1, CleaningType
  <2>3. end' \in [Ends -> Cleaning] BY <1>18, <1>e, <2>2 DEF CloseRegistry
  <2> QED BY <2>1, <2>3, <1>18 DEF Types, CloseRegistry
<1>19. CASE ReaperStopped
  <2>1. [end[Daemon] EXCEPT !.pc = "list"] \in Cleaning
    <3>1. end[Daemon] \in Cleaning BY <1>e, <1>s
    <3> QED BY <3>1, CleaningType
  <2>2. end' \in [Ends -> Cleaning] BY <1>19, <1>e, <2>1 DEF ReaperStopped, Begin
  <2> QED BY <2>2, <1>19 DEF Types, ReaperStopped
<1>20. ASSUME NEW c \in Ends, CleanupList(c) PROVE Types'
  <2> DEFINE mine == {x \in reg.jobs : Matches(c, x)}
             p == IF mine = {} THEN "done" ELSE "wait"
  <2>1. mine \in SUBSET Jobs /\ p \in {"done", "wait"} BY <1>r DEF Registry
  <2>2. end' = [end EXCEPT ![c].pc = p, ![c].todo = mine, ![c].jobs = mine]
        /\ UNCHANGED <<reg, call, job, mon, proc, clock, trim>>
    BY <1>20 DEF CleanupList
  <2> HIDE DEF mine, p
  <2>3. [end[c] EXCEPT !.pc = p, !.todo = mine, !.jobs = mine] \in Cleaning
    BY <1>e, <2>1, CleaningType
  <2>4. end' \in [Ends -> Cleaning] BY <1>e, <2>2, <2>3
  <2> QED BY <2>2, <2>4 DEF Types
<1>21. ASSUME NEW c \in Ends, NEW j \in Jobs, CleanupRequest(c, j) PROVE Types'
  <2>1. job' \in [Jobs -> Record] BY <1>21, <1>j, <1>s, StoppedJobType DEF CleanupRequest, Record
  <2>2. [end[c] EXCEPT !.todo = @ \ {j}] \in Cleaning
    <3>1. end[c] \in Cleaning BY <1>e, <1>s
    <3>2. end[c].todo \ {j} \in SUBSET Jobs BY <3>1 DEF Cleaning
    <3> QED BY <3>1, <3>2, CleaningType
  <2>3. end' \in [Ends -> Cleaning] BY <1>21, <1>e, <2>2 DEF CleanupRequest
  <2> QED BY <2>1, <2>3, <1>21 DEF Types, CleanupRequest
<1>22. ASSUME NEW c \in Ends, CleanupWaited(c) PROVE Types'
  <2>1. [end[c] EXCEPT !.pc = "delete", !.partial = \E x \in end[c].jobs : job[x].cleanup = "partial"] \in Cleaning
    <3>1. end[c] \in Cleaning BY <1>e, <1>s
    <3>2. (\E x \in end[c].jobs : job[x].cleanup = "partial") \in BOOLEAN OBVIOUS
    <3> QED BY <3>1, <3>2, CleaningType
  <2>2. end' \in [Ends -> Cleaning] BY <1>22, <1>e, <2>1 DEF CleanupWaited
  <2> QED BY <2>2, <1>22 DEF Types, CleanupWaited
<1>23. ASSUME NEW c \in Ends, CleanupTimesOut(c) PROVE Types'
  <2>1. [end[c] EXCEPT !.pc = "delete", !.partial = TRUE] \in Cleaning
    <3>1. end[c] \in Cleaning BY <1>e, <1>s
    <3> QED BY <3>1, CleaningType
  <2>2. end' \in [Ends -> Cleaning] BY <1>23, <1>e, <2>1 DEF CleanupTimesOut
  <2> QED BY <2>2, <1>23 DEF Types, CleanupTimesOut
<1>24. ASSUME NEW c \in Ends, CleanupDelete(c) PROVE Types'
  <2>1. reg' \in Registry BY <1>24, <1>r, <1>s DEF CleanupDelete, Registry
  <2>2. end' \in [Ends -> Cleaning] BY <1>24, <1>e, <1>s DEF CleanupDelete, Cleaning
  <2> QED BY <2>1, <2>2, <1>24 DEF Types, CleanupDelete
<1> QED
  BY <1>1, <1>2, <1>3, <1>4, <1>5, <1>6, <1>7, <1>8, <1>9, <1>10, <1>11, <1>12, <1>13, <1>14,
     <1>15, <1>16, <1>17, <1>18, <1>19, <1>20, <1>21, <1>22, <1>23, <1>24, Wakes
  DEF JobsNext, StartCall, Monitor, Cleanup

-----------------------------------------------------------------------------
(* Stages and trims.                                                       *)

\* Every step keeps the stages of calls, monitors and processes together.
LEMMA StagesKept ==
  ASSUME ExecAssumption, Types, Stages, JobsNext
  PROVE  Stages'
<1>r. reg \in Registry BY DEF Types
<1>c. call \in [Jobs -> Calls] BY DEF Types
<1>j. job \in [Jobs -> Record] BY DEF Types
<1>m. mon \in [Jobs -> Monitoring] BY DEF Types
<1>p. proc \in [Jobs -> {"none", "alive", "exited"}] BY DEF Types
<1>k. clock \in Nat \ {0} BY DEF Types
<1>t. trim \in Trimming BY DEF Types
<1>e. end \in [Ends -> Cleaning] BY DEF Types
<1> USE <1>r, <1>c, <1>j, <1>m, <1>p, <1>k, <1>t, <1>e
    DEF Stages, Completed, Registry, Calls, Record, Monitoring, Ways, Marks, Cleaning
<1>1. ASSUME NEW j \in Jobs, Reserve(j) PROVE Stages'
  BY <1>1 DEF Reserve
<1>2. ASSUME NEW j \in Jobs, LaunchFails(j) PROVE Stages'
  BY <1>2 DEF LaunchFails, GivenBack
<1>3. ASSUME NEW j \in Jobs, Launch(j) PROVE Stages'
  BY <1>3 DEF Launch, StoppedJob, Running
<1>4. ASSUME NEW j \in Jobs, StartReturns(j) PROVE Stages'
  BY <1>4 DEF StartReturns
<1>5. ASSUME NEW j \in Jobs, StartCancelled(j) PROVE Stages'
  BY <1>5 DEF StartCancelled, StoppedJob, Running
<1>6. ASSUME NEW j \in Jobs, RefusedReturns(j) PROVE Stages'
  BY <1>6 DEF RefusedReturns
<1>7. ASSUME NEW j \in Jobs, CancelReturns(j) PROVE Stages'
  BY <1>7 DEF CancelReturns, Dropped
<1>8. ASSUME NEW j \in Jobs, NEW o \in Owners, StopJob(j, o) PROVE Stages'
  BY <1>8 DEF StopJob, StoppedJob, Running
<1>9. ASSUME NEW j \in Jobs, ProcExits(j) PROVE Stages'
  BY <1>9 DEF ProcExits
<1>10. ASSUME NEW j \in Jobs, NEW status \in Ways, Drained(j, status) PROVE Stages'
  BY <1>10 DEF Drained, CleanupStatus
<1>11. ASSUME NEW j \in Jobs, Finish(j) PROVE Stages'
  BY <1>11 DEF Finish, Local
<1>12. ASSUME NEW j \in Jobs, JobCompleted(j) PROVE Stages'
  BY <1>12 DEF JobCompleted, GivenBack
<1>13. ASSUME NEW j \in Jobs, TrimLook(j) PROVE Stages'
  BY <1>13 DEF TrimLook
<1>14. ASSUME NEW j \in Jobs, TrimDelete(j) PROVE Stages'
  BY <1>14 DEF TrimDelete
<1>15. CASE Reap
  BY <1>15 DEF Reap
<1>16. ASSUME NEW o \in Owners, EndBoundary(o) PROVE Stages'
  BY <1>16 DEF EndBoundary, Begin
<1>17. ASSUME NEW s \in Sessions, EndSession(s) PROVE Stages'
  BY <1>17 DEF EndSession, Begin
<1>18. CASE CloseRegistry
  BY <1>18 DEF CloseRegistry
<1>19. CASE ReaperStopped
  BY <1>19 DEF ReaperStopped, Begin
<1>20. ASSUME NEW c \in Ends, CleanupList(c) PROVE Stages'
  <2> DEFINE mine == {x \in reg.jobs : Matches(c, x)}
             p == IF mine = {} THEN "done" ELSE "wait"
  <2>1. /\ end' = [end EXCEPT ![c].pc = p, ![c].todo = mine, ![c].jobs = mine]
        /\ UNCHANGED <<reg, call, job, mon, proc, clock, trim>>
    BY <1>20 DEF CleanupList
  <2>2. mine \subseteq reg.jobs OBVIOUS
  <2> HIDE DEF mine, p
  <2>3. \A d \in Ends : end'[d].jobs = IF d = c THEN mine ELSE end[d].jobs BY <2>1
  <2> QED BY <2>1, <2>2, <2>3
<1>21. ASSUME NEW c \in Ends, NEW j \in Jobs, CleanupRequest(c, j) PROVE Stages'
  BY <1>21 DEF CleanupRequest, StoppedJob, Running
<1>22. ASSUME NEW c \in Ends, CleanupWaited(c) PROVE Stages'
  BY <1>22 DEF CleanupWaited
<1>23. ASSUME NEW c \in Ends, CleanupTimesOut(c) PROVE Stages'
  BY <1>23 DEF CleanupTimesOut
<1>24. ASSUME NEW c \in Ends, CleanupDelete(c) PROVE Stages'
  BY <1>24 DEF CleanupDelete
<1> QED
  BY <1>1, <1>2, <1>3, <1>4, <1>5, <1>6, <1>7, <1>8, <1>9, <1>10, <1>11, <1>12, <1>13, <1>14,
     <1>15, <1>16, <1>17, <1>18, <1>19, <1>20, <1>21, <1>22, <1>23, <1>24, Wakes, SMTT(40)
  DEF JobsNext, StartCall, Monitor, Cleanup

\* Every step keeps what a trim has seen and will see.
LEMMA TrimsKept ==
  ASSUME ExecAssumption, Types, Stages, Trims, JobsNext
  PROVE  Trims'
<1>r. reg \in Registry BY DEF Types
<1>c. call \in [Jobs -> Calls] BY DEF Types
<1>j. job \in [Jobs -> Record] BY DEF Types
<1>m. mon \in [Jobs -> Monitoring] BY DEF Types
<1>t. trim \in Trimming BY DEF Types
<1>e. end \in [Ends -> Cleaning] BY DEF Types
<1>s. NoJob \notin Jobs BY Constants
<1> USE <1>r, <1>c, <1>j, <1>m, <1>t, <1>e, <1>s
    DEF Trims, Stages, Completed, Registry, Calls, Record, Monitoring, Trimming
<1>1. ASSUME NEW j \in Jobs, Reserve(j) PROVE Trims'
  BY <1>1 DEF Reserve
<1>2. ASSUME NEW j \in Jobs, LaunchFails(j) PROVE Trims'
  BY <1>2 DEF LaunchFails, GivenBack
<1>3. ASSUME NEW j \in Jobs, Launch(j) PROVE Trims'
  <2>1. /\ mon' = [mon EXCEPT ![j].pc = "watch"] /\ mon[j].pc = "none"
        /\ reg'.jobs \subseteq reg.jobs \cup {j} /\ trim' = trim
    BY <1>3 DEF Launch
  <2>2. \A x \in Jobs : job'[x].finished = job[x].finished
    <3>1. job' = job \/ job' = [job EXCEPT ![j] = StoppedJob(j, "stopped")] BY <1>3 DEF Launch
    <3> QED BY ONLY <3>1, <1>j, StoppedJobType
  <2>3. \A x \in Jobs : mon'[x].pc = IF x = j THEN "watch" ELSE mon[x].pc BY <2>1
  <2> QED BY <2>1, <2>2, <2>3
<1>4. ASSUME NEW j \in Jobs, StartReturns(j) PROVE Trims'
  BY <1>4 DEF StartReturns
<1>5. ASSUME NEW j \in Jobs, StartCancelled(j) PROVE Trims'
  BY <1>5 DEF StartCancelled, StoppedJob, Running
<1>6. ASSUME NEW j \in Jobs, RefusedReturns(j) PROVE Trims'
  BY <1>6 DEF RefusedReturns
<1>7. ASSUME NEW j \in Jobs, CancelReturns(j) PROVE Trims'
  BY <1>7 DEF CancelReturns, Dropped
<1>8. ASSUME NEW j \in Jobs, NEW o \in Owners, StopJob(j, o) PROVE Trims'
  BY <1>8 DEF StopJob, StoppedJob, Running
<1>9. ASSUME NEW j \in Jobs, ProcExits(j) PROVE Trims'
  BY <1>9 DEF ProcExits
<1>10. ASSUME NEW j \in Jobs, NEW status \in Ways, Drained(j, status) PROVE Trims'
  BY <1>10 DEF Drained, CleanupStatus
<1>11. ASSUME NEW j \in Jobs, Finish(j) PROVE Trims'
  BY <1>11 DEF Finish, Local
<1>12. ASSUME NEW j \in Jobs, JobCompleted(j) PROVE Trims'
  BY <1>12 DEF JobCompleted, GivenBack
<1>13. ASSUME NEW j \in Jobs, TrimLook(j) PROVE Trims'
  BY <1>13 DEF TrimLook
<1>14. ASSUME NEW j \in Jobs, TrimDelete(j) PROVE Trims'
  BY <1>14 DEF TrimDelete
<1>15. CASE Reap
  BY <1>15 DEF Reap
<1>16. ASSUME NEW o \in Owners, EndBoundary(o) PROVE Trims'
  BY <1>16 DEF EndBoundary, Begin
<1>17. ASSUME NEW s \in Sessions, EndSession(s) PROVE Trims'
  BY <1>17 DEF EndSession, Begin
<1>18. CASE CloseRegistry
  BY <1>18 DEF CloseRegistry
<1>19. CASE ReaperStopped
  BY <1>19 DEF ReaperStopped, Begin
<1>20. ASSUME NEW c \in Ends, CleanupList(c) PROVE Trims'
  BY <1>20 DEF CleanupList
<1>21. ASSUME NEW c \in Ends, NEW j \in Jobs, CleanupRequest(c, j) PROVE Trims'
  BY <1>21 DEF CleanupRequest, StoppedJob, Running
<1>22. ASSUME NEW c \in Ends, CleanupWaited(c) PROVE Trims'
  BY <1>22 DEF CleanupWaited
<1>23. ASSUME NEW c \in Ends, CleanupTimesOut(c) PROVE Trims'
  BY <1>23 DEF CleanupTimesOut
<1>24. ASSUME NEW c \in Ends, CleanupDelete(c) PROVE Trims'
  BY <1>24 DEF CleanupDelete
<1> QED
  BY <1>1, <1>2, <1>3, <1>4, <1>5, <1>6, <1>7, <1>8, <1>9, <1>10, <1>11, <1>12, <1>13, <1>14,
     <1>15, <1>16, <1>17, <1>18, <1>19, <1>20, <1>21, <1>22, <1>23, <1>24, Wakes
  DEF JobsNext, StartCall, Monitor, Cleanup

-----------------------------------------------------------------------------
(* What has ended.                                                         *)

\* Whoever has ended is not in the middle of a start.
LEMMA NoneStarts ==
  ASSUME ExecAssumption, Resting, Over, NEW c \in Ends, c # Daemon, end[c].pc # "no",
         NEW j \in Jobs, Matches(c, j)
  PROVE  call[j] \notin InFlight
<1>1. Owner[j] \in Owners BY Constants
<1>2. CASE c \in Owners
  <2>1. ~MidCall(Owner[j]) BY <1>1, <1>2, Constants DEF Resting, Matches
  <2> QED BY <1>1, <2>1 DEF MidCall
<1>3. CASE c \in Sessions
  <2>1. Owner[j].session = c BY <1>3, Constants DEF Matches
  <2>2. PICK p \in Owners : p.main /\ p.session = Owner[j].session /\ p.run = Owner[j].run
    BY <1>1 DEF ExecAssumption
  <2>3. end[p].pc = "done" BY <1>3, <2>1, <2>2 DEF Over
  <2>4. ~MidCall(Owner[j]) BY <1>1, <2>2, <2>3 DEF Resting, SameRun
  <2> QED BY <1>1, <2>4 DEF MidCall
<1> QED BY <1>2, <1>3 DEF Ends

\* Steps that begin no start, add no job and end nothing.
LEMMA EndedStays ==
  ASSUME ExecAssumption, Ended, reg'.closed = reg.closed, reg'.jobs \subseteq reg.jobs,
         \A j \in Jobs : call'[j] \in InFlight => call[j] \in InFlight,
         \A c \in Ends : /\ end'[c].pc = end[c].pc /\ end'[c].jobs = end[c].jobs
                         /\ end'[c].todo \subseteq end[c].todo
  PROVE  Ended'
<1> USE DEF Ended
<1>0. /\ Daemon \in Ends /\ \A o \in Owners : o \in Ends
      /\ \A s \in Sessions : s \in Ends
  BY Constants
<1>1. Closing' BY <1>0 DEF Closing
<1>2. Resting' BY <1>0 DEF Resting, MidCall
<1>3. Over' BY <1>0 DEF Over
<1>4. Listed' BY DEF Listed
<1>5. EndedHasNoJobs' BY DEF EndedHasNoJobs
<1> QED BY <1>1, <1>2, <1>3, <1>4, <1>5

\* Every step keeps what holds of those that have ended.
LEMMA EndedKept ==
  ASSUME ExecAssumption, Types, Ended, JobsNext
  PROVE  Ended'
<1>r. reg \in Registry BY DEF Types
<1>c. call \in [Jobs -> Calls] BY DEF Types
<1>j. job \in [Jobs -> Record] BY DEF Types
<1>e. end \in [Ends -> Cleaning] BY DEF Types
<1>s. /\ \A x \in Jobs : Owner[x] \in Owners /\ Owner[x].session \in Sessions
      /\ Daemon \in Ends /\ Daemon \notin Owners /\ Daemon \notin Sessions
      /\ \A o \in Owners : o \in Ends /\ o \notin Sessions
      /\ \A x \in Sessions : x \in Ends /\ x \notin Owners
  BY Constants
<1>f. Closing /\ Resting /\ Over /\ Listed /\ EndedHasNoJobs BY DEF Ended
<1> DEFINE Still ==
      /\ reg'.closed = reg.closed /\ reg'.jobs \subseteq reg.jobs
      /\ \A x \in Jobs : call'[x] \in InFlight => call[x] \in InFlight
      /\ \A d \in Ends : /\ end'[d].pc = end[d].pc /\ end'[d].jobs = end[d].jobs
                         /\ end'[d].todo \subseteq end[d].todo
<1>q. Still => Ended' BY EndedStays
<1>1. ASSUME NEW j \in Jobs, Reserve(j) PROVE Ended'
  <2>1. /\ call' = [call EXCEPT ![j] = "reserved"] /\ MayCall(Owner[j]) /\ UNCHANGED end
        /\ reg'.jobs = reg.jobs /\ reg'.closed = reg.closed
    BY <1>1, <1>r DEF Reserve, Registry
  <2>2. \A p \in Owners : MidCall(p)' => MidCall(p) \/ p = Owner[j] BY <1>c, <2>1 DEF MidCall
  <2>3. Resting' BY <1>f, <1>s, <2>1, <2>2 DEF Resting, MayCall, SameRun
  <2>4. Closing' /\ Over' BY <1>f, <2>1 DEF Closing, Over
  <2>5. Listed' /\ EndedHasNoJobs' BY <1>f, <2>1 DEF Listed, EndedHasNoJobs
  <2> QED BY <2>3, <2>4, <2>5 DEF Ended
<1>2. ASSUME NEW j \in Jobs, LaunchFails(j) PROVE Ended'
  BY <1>2, <1>q, <1>r, <1>c, <1>e DEF LaunchFails, GivenBack, InFlight, Registry, Cleaning
<1>3. ASSUME NEW j \in Jobs, Launch(j) PROVE Ended'
  <2>1. /\ \/ call' = [call EXCEPT ![j] = "added"] /\ ~reg.closed
           \/ call' = [call EXCEPT ![j] = "refused"] /\ reg' = reg
        /\ call[j] = "reserved" /\ UNCHANGED end
        /\ reg'.closed = reg.closed /\ reg'.jobs \subseteq reg.jobs \cup {j}
    BY <1>3, <1>r DEF Launch, Registry
  <2>2. \A p \in Owners : MidCall(p)' => MidCall(p) BY <1>c, <2>1 DEF MidCall, InFlight
  <2>3. \A d \in Ends : end[d].pc # "no" /\ Matches(d, j) => reg' = reg
    BY <1>f, <2>1, NoneStarts DEF Closing, InFlight
  <2>4. Resting' /\ Closing' /\ Over' BY <1>f, <2>1, <2>2 DEF Resting, Closing, Over
  <2>5. Listed' /\ EndedHasNoJobs' BY <1>f, <2>1, <2>3 DEF Listed, EndedHasNoJobs
  <2> QED BY <2>4, <2>5 DEF Ended
<1>4. ASSUME NEW j \in Jobs, StartReturns(j) PROVE Ended'
  BY <1>4, <1>q, <1>r, <1>c, <1>e DEF StartReturns, InFlight, Registry, Cleaning
<1>5. ASSUME NEW j \in Jobs, StartCancelled(j) PROVE Ended'
  BY <1>5, <1>q, <1>r, <1>c, <1>e DEF StartCancelled, StoppedJob, Running, InFlight, Registry, Cleaning
<1>6. ASSUME NEW j \in Jobs, RefusedReturns(j) PROVE Ended'
  BY <1>6, <1>q, <1>r, <1>c, <1>e DEF RefusedReturns, InFlight, Registry, Cleaning
<1>7. ASSUME NEW j \in Jobs, CancelReturns(j) PROVE Ended'
  BY <1>7, <1>q, <1>r, <1>c, <1>e DEF CancelReturns, Dropped, InFlight, Registry, Cleaning
<1>8. ASSUME NEW j \in Jobs, NEW o \in Owners, StopJob(j, o) PROVE Ended'
  BY <1>8, <1>q, <1>r, <1>c, <1>e DEF StopJob, StoppedJob, Running, InFlight, Registry, Cleaning
<1>9. ASSUME NEW j \in Jobs, ProcExits(j) PROVE Ended'
  BY <1>9, <1>q, <1>r, <1>c, <1>e DEF ProcExits, InFlight, Registry, Cleaning
<1>10. ASSUME NEW j \in Jobs, NEW status \in Ways, Drained(j, status) PROVE Ended'
  BY <1>10, <1>q, <1>r, <1>c, <1>e DEF Drained, CleanupStatus, InFlight, Registry, Cleaning
<1>11. ASSUME NEW j \in Jobs, Finish(j) PROVE Ended'
  BY <1>11, <1>q, <1>r, <1>c, <1>e DEF Finish, Local, InFlight, Registry, Cleaning
<1>12. ASSUME NEW j \in Jobs, JobCompleted(j) PROVE Ended'
  BY <1>12, <1>q, <1>r, <1>c, <1>e DEF JobCompleted, GivenBack, InFlight, Registry, Cleaning
<1>13. ASSUME NEW j \in Jobs, TrimLook(j) PROVE Ended'
  BY <1>13, <1>q, <1>r, <1>c, <1>e DEF TrimLook, InFlight, Registry, Cleaning
<1>14. ASSUME NEW j \in Jobs, TrimDelete(j) PROVE Ended'
  BY <1>14, <1>q, <1>r, <1>c, <1>e DEF TrimDelete, InFlight, Registry, Cleaning
<1>15. CASE Reap
  BY <1>15, <1>q, <1>r, <1>c, <1>e DEF Reap, InFlight, Registry, Cleaning
<1>16. ASSUME NEW o \in Owners, EndBoundary(o) PROVE Ended'
  <2>1. /\ \A d \in Ends : /\ end'[d].pc = IF d = o THEN "list" ELSE end[d].pc
                           /\ end'[d].jobs = end[d].jobs /\ end'[d].todo = end[d].todo
        /\ UNCHANGED <<reg, call>>
    BY <1>16, <1>e DEF EndBoundary, Begin, Cleaning
  <2>2. end[o].pc = "no" /\ ~MidCall(o) /\ (o.main => \A p \in Owners : SameRun(p, o) => ~MidCall(p))
    BY <1>16 DEF EndBoundary, MayCall, SameRun
  <2>3. Resting' BY <1>f, <1>s, <2>1, <2>2 DEF Resting, MidCall
  <2>4. Closing' /\ Over' BY <1>f, <1>s, <2>1, <2>2 DEF Closing, Over
  <2>5. Listed' /\ EndedHasNoJobs' BY <1>f, <1>s, <2>1 DEF Listed, EndedHasNoJobs
  <2> QED BY <2>3, <2>4, <2>5 DEF Ended
<1>17. ASSUME NEW s \in Sessions, EndSession(s) PROVE Ended'
  <2>1. /\ \A d \in Ends : /\ end'[d].pc = IF d = s THEN "list" ELSE end[d].pc
                           /\ end'[d].jobs = end[d].jobs /\ end'[d].todo = end[d].todo
        /\ UNCHANGED <<reg, call>>
    BY <1>17, <1>e, <1>s DEF EndSession, Begin, Cleaning
  <2>2. end[s].pc = "no" /\ \A o \in Owners : o.session = s /\ o.main => end[o].pc = "done"
    BY <1>17 DEF EndSession
  <2>3. Resting' BY <1>f, <1>s, <2>1, SMTT(30) DEF Resting, MidCall
  <2>4. Closing' /\ Over' BY <1>f, <1>s, <2>1, <2>2 DEF Closing, Over
  <2>5. Listed' /\ EndedHasNoJobs' BY <1>f, <1>s, <2>1 DEF Listed, EndedHasNoJobs
  <2> QED BY <2>3, <2>4, <2>5 DEF Ended
<1>18. CASE CloseRegistry
  <2>1. /\ \A d \in Ends : /\ end'[d].pc = IF d = Daemon THEN "closing" ELSE end[d].pc
                           /\ end'[d].jobs = end[d].jobs /\ end'[d].todo = end[d].todo
        /\ reg'.closed = TRUE /\ reg'.jobs = reg.jobs /\ call' = call
    BY <1>18, <1>e, <1>r DEF CloseRegistry, Cleaning, Registry
  <2>2. Resting' BY <1>f, <1>s, <2>1 DEF Resting, MidCall
  <2>3. Closing' /\ Over' BY <1>f, <1>s, <2>1 DEF Closing, Over
  <2>4. Listed' /\ EndedHasNoJobs' BY <1>f, <2>1 DEF Listed, EndedHasNoJobs
  <2> QED BY <2>2, <2>3, <2>4 DEF Ended
<1>19. CASE ReaperStopped
  <2>1. /\ \A d \in Ends : /\ end'[d].pc = IF d = Daemon THEN "list" ELSE end[d].pc
                           /\ end'[d].jobs = end[d].jobs /\ end'[d].todo = end[d].todo
        /\ UNCHANGED <<reg, call>> /\ end[Daemon].pc = "closing"
    BY <1>19, <1>e DEF ReaperStopped, Begin, Cleaning
  <2>2. Resting' BY <1>f, <1>s, <2>1 DEF Resting, MidCall
  <2>3. Closing' /\ Over' BY <1>f, <1>s, <2>1 DEF Closing, Over
  <2>4. Listed' /\ EndedHasNoJobs' BY <1>f, <2>1 DEF Listed, EndedHasNoJobs
  <2> QED BY <2>2, <2>3, <2>4 DEF Ended
<1>20. ASSUME NEW c \in Ends, CleanupList(c) PROVE Ended'
  <2> DEFINE mine == {x \in reg.jobs : Matches(c, x)}
             p == IF mine = {} THEN "done" ELSE "wait"
  <2>1. /\ end' = [end EXCEPT ![c].pc = p, ![c].todo = mine, ![c].jobs = mine]
        /\ UNCHANGED <<reg, call>> /\ end[c].pc = "list"
    BY <1>20 DEF CleanupList
  <2>2. p \in {"done", "wait"} /\ (p = "done" => mine = {}) OBVIOUS
  <2>3. \A d \in Ends : /\ end'[d].pc = IF d = c THEN p ELSE end[d].pc
                        /\ end'[d].jobs = IF d = c THEN mine ELSE end[d].jobs
                        /\ end'[d].todo = IF d = c THEN mine ELSE end[d].todo
    <3> HIDE DEF mine, p
    <3> QED BY <1>e, <2>1 DEF Cleaning
  <2>4. /\ mine \subseteq reg.jobs /\ \A x \in mine : Matches(c, x)
        /\ \A x \in reg.jobs : Matches(c, x) => x \in mine
    OBVIOUS
  <2>5. reg' = reg /\ call' = call /\ end[c].pc = "list" BY <2>1
  <2> HIDE DEF mine, p
  <2>6. \A d \in Ends : end'[d].pc = "no" <=> end[d].pc = "no" BY <2>2, <2>3, <2>5
  <2>7. Listed'
    <3>1. ASSUME NEW d \in Ends, d = c
          PROVE  /\ end'[d].pc \in {"wait", "delete"} =>
                      \A x \in reg'.jobs : Matches(d, x) => x \in end'[d].jobs
                 /\ end'[d].todo \subseteq end'[d].jobs
                 /\ \A x \in end'[d].jobs : Matches(d, x)
      BY <2>3, <2>4, <2>5, <3>1
    <3>2. ASSUME NEW d \in Ends, d # c
          PROVE  /\ end'[d].pc \in {"wait", "delete"} =>
                      \A x \in reg'.jobs : Matches(d, x) => x \in end'[d].jobs
                 /\ end'[d].todo \subseteq end'[d].jobs
                 /\ \A x \in end'[d].jobs : Matches(d, x)
      BY <1>f, <2>3, <2>5, <3>2 DEF Listed
    <3> QED BY <3>1, <3>2 DEF Listed
  <2>8. EndedHasNoJobs'
    <3>1. ASSUME NEW d \in Ends, end'[d].pc = "done", NEW x \in reg'.jobs, Matches(d, x)
          PROVE  FALSE
      <4>1. d # c BY <2>2, <2>3, <2>4, <2>5, <3>1
      <4> QED BY <1>f, <2>3, <2>5, <3>1, <4>1 DEF EndedHasNoJobs
    <3> QED BY <3>1 DEF EndedHasNoJobs
  <2>9. Resting'
    <3>1. \A o \in Owners : MidCall(o)' <=> MidCall(o) BY <2>5 DEF MidCall
    <3> QED BY <1>f, <1>s, <2>6, <3>1 DEF Resting
  <2>10. Closing' BY <1>f, <1>s, <2>5, <2>6 DEF Closing
  <2>11. Over' BY <1>f, <1>s, <2>3, <2>5, <2>6 DEF Over
  <2> QED BY <2>7, <2>8, <2>9, <2>10, <2>11 DEF Ended
<1>21. ASSUME NEW c \in Ends, NEW j \in Jobs, CleanupRequest(c, j) PROVE Ended'
  BY <1>21, <1>q, <1>r, <1>c, <1>e DEF CleanupRequest, StoppedJob, Running, InFlight, Registry, Cleaning
<1>22. ASSUME NEW c \in Ends, CleanupWaited(c) PROVE Ended'
  <2>1. /\ \A d \in Ends : /\ end'[d].pc = IF d = c THEN "delete" ELSE end[d].pc
                           /\ end'[d].jobs = end[d].jobs /\ end'[d].todo = end[d].todo
        /\ UNCHANGED <<reg, call>> /\ end[c].pc = "wait"
    BY <1>22, <1>e DEF CleanupWaited, Cleaning
  <2>2. Resting' BY <1>f, <1>s, <2>1 DEF Resting, MidCall
  <2>3. Closing' /\ Over' BY <1>f, <1>s, <2>1 DEF Closing, Over
  <2>4. Listed' /\ EndedHasNoJobs' BY <1>f, <2>1 DEF Listed, EndedHasNoJobs
  <2> QED BY <2>2, <2>3, <2>4 DEF Ended
<1>23. ASSUME NEW c \in Ends, CleanupTimesOut(c) PROVE Ended'
  <2>1. /\ \A d \in Ends : /\ end'[d].pc = IF d = c THEN "delete" ELSE end[d].pc
                           /\ end'[d].jobs = end[d].jobs /\ end'[d].todo = end[d].todo
        /\ UNCHANGED <<reg, call>> /\ end[c].pc = "wait"
    BY <1>23, <1>e DEF CleanupTimesOut, Cleaning
  <2>2. Resting' BY <1>f, <1>s, <2>1 DEF Resting, MidCall
  <2>3. Closing' /\ Over' BY <1>f, <1>s, <2>1 DEF Closing, Over
  <2>4. Listed' /\ EndedHasNoJobs' BY <1>f, <2>1 DEF Listed, EndedHasNoJobs
  <2> QED BY <2>2, <2>3, <2>4 DEF Ended
<1>24. ASSUME NEW c \in Ends, CleanupDelete(c) PROVE Ended'
  <2>1. /\ \A d \in Ends : /\ end'[d].pc = IF d = c THEN "done" ELSE end[d].pc
                           /\ end'[d].jobs = IF d = c THEN {} ELSE end[d].jobs
                           /\ end'[d].todo = IF d = c THEN {} ELSE end[d].todo
        /\ reg'.jobs = reg.jobs \ end[c].jobs /\ reg'.closed = reg.closed /\ call' = call
        /\ end[c].pc = "delete"
    BY <1>24, <1>e, <1>r DEF CleanupDelete, Cleaning, Registry
  <2>2. Resting' BY <1>f, <1>s, <2>1 DEF Resting, MidCall
  <2>3. Closing' /\ Over' BY <1>f, <1>s, <2>1, SMTT(30) DEF Closing, Over
  <2>4. Listed' /\ EndedHasNoJobs' BY <1>f, <2>1 DEF Listed, EndedHasNoJobs
  <2> QED BY <2>2, <2>3, <2>4 DEF Ended
<1> QED
  BY <1>1, <1>2, <1>3, <1>4, <1>5, <1>6, <1>7, <1>8, <1>9, <1>10, <1>11, <1>12, <1>13, <1>14,
     <1>15, <1>16, <1>17, <1>18, <1>19, <1>20, <1>21, <1>22, <1>23, <1>24, Wakes
  DEF JobsNext, StartCall, Monitor, Cleanup

-----------------------------------------------------------------------------
(* No process survives in silence.                                         *)

\* Every step keeps that a survivor is reported.
LEMMA SurvivorKept ==
  ASSUME ExecAssumption, Types, Stages, NoSilentSurvivor, JobsNext
  PROVE  NoSilentSurvivor'
<1>c. call \in [Jobs -> Calls] BY DEF Types
<1>j. job \in [Jobs -> Record] BY DEF Types
<1>m. mon \in [Jobs -> Monitoring] BY DEF Types
<1>p. proc \in [Jobs -> {"none", "alive", "exited"}] BY DEF Types
<1>e. end \in [Ends -> Cleaning] BY DEF Types
<1> DEFINE Still == /\ \A x \in Jobs : proc'[x] = "alive" => proc[x] = "alive" \/ mon[x].pc = "none"
                   /\ \A d \in Ends : end'[d].pc = "delete" =>
                        /\ end[d].pc = "delete"
                        /\ end'[d].jobs = end[d].jobs /\ end'[d].partial = end[d].partial
<1>q. Still => NoSilentSurvivor'
  <2>1. \A d \in Ends : \A x \in end[d].jobs : x \in Jobs /\ mon[x].pc # "none"
    BY <1>e DEF Stages, Cleaning
  <2> QED BY <2>1 DEF NoSilentSurvivor
<1> USE <1>c, <1>j, <1>m, <1>p, <1>e DEF Cleaning
<1>1. ASSUME NEW j \in Jobs, Reserve(j) PROVE NoSilentSurvivor'
  BY <1>1, <1>q DEF Reserve
<1>2. ASSUME NEW j \in Jobs, LaunchFails(j) PROVE NoSilentSurvivor'
  BY <1>2, <1>q DEF LaunchFails, GivenBack
<1>3. ASSUME NEW j \in Jobs, Launch(j) PROVE NoSilentSurvivor'
  BY <1>3, <1>q DEF Launch, StoppedJob, Running, Stages
<1>4. ASSUME NEW j \in Jobs, StartReturns(j) PROVE NoSilentSurvivor'
  BY <1>4, <1>q DEF StartReturns
<1>5. ASSUME NEW j \in Jobs, StartCancelled(j) PROVE NoSilentSurvivor'
  BY <1>5, <1>q DEF StartCancelled, StoppedJob, Running
<1>6. ASSUME NEW j \in Jobs, RefusedReturns(j) PROVE NoSilentSurvivor'
  BY <1>6, <1>q DEF RefusedReturns
<1>7. ASSUME NEW j \in Jobs, CancelReturns(j) PROVE NoSilentSurvivor'
  BY <1>7, <1>q DEF CancelReturns, Dropped
<1>8. ASSUME NEW j \in Jobs, NEW o \in Owners, StopJob(j, o) PROVE NoSilentSurvivor'
  BY <1>8, <1>q DEF StopJob, StoppedJob, Running
<1>9. ASSUME NEW j \in Jobs, ProcExits(j) PROVE NoSilentSurvivor'
  BY <1>9, <1>q DEF ProcExits
<1>10. ASSUME NEW j \in Jobs, NEW status \in Ways, Drained(j, status) PROVE NoSilentSurvivor'
  BY <1>10, <1>q DEF Drained, CleanupStatus
<1>11. ASSUME NEW j \in Jobs, Finish(j) PROVE NoSilentSurvivor'
  BY <1>11, <1>q DEF Finish, Local
<1>12. ASSUME NEW j \in Jobs, JobCompleted(j) PROVE NoSilentSurvivor'
  BY <1>12, <1>q DEF JobCompleted, GivenBack
<1>13. ASSUME NEW j \in Jobs, TrimLook(j) PROVE NoSilentSurvivor'
  BY <1>13, <1>q DEF TrimLook
<1>14. ASSUME NEW j \in Jobs, TrimDelete(j) PROVE NoSilentSurvivor'
  BY <1>14, <1>q DEF TrimDelete
<1>15. CASE Reap
  BY <1>15, <1>q DEF Reap
<1>16. ASSUME NEW o \in Owners, EndBoundary(o) PROVE NoSilentSurvivor'
  BY <1>16, <1>q DEF EndBoundary, Begin
<1>17. ASSUME NEW s \in Sessions, EndSession(s) PROVE NoSilentSurvivor'
  BY <1>17, <1>q DEF EndSession, Begin
<1>18. CASE CloseRegistry
  BY <1>18, <1>q DEF CloseRegistry
<1>19. CASE ReaperStopped
  BY <1>19, <1>q DEF ReaperStopped, Begin
<1>20. ASSUME NEW c \in Ends, CleanupList(c) PROVE NoSilentSurvivor'
  <2> DEFINE mine == {x \in reg.jobs : Matches(c, x)}
             p == IF mine = {} THEN "done" ELSE "wait"
  <2>1. /\ end' = [end EXCEPT ![c].pc = p, ![c].todo = mine, ![c].jobs = mine]
        /\ proc' = proc /\ p # "delete"
    BY <1>20 DEF CleanupList
  <2> HIDE DEF mine, p
  <2>2. Still BY <2>1
  <2> QED BY <1>q, <2>2
<1>21. ASSUME NEW c \in Ends, NEW j \in Jobs, CleanupRequest(c, j) PROVE NoSilentSurvivor'
  BY <1>21, <1>q DEF CleanupRequest, StoppedJob, Running
<1>22. ASSUME NEW c \in Ends, CleanupWaited(c) PROVE NoSilentSurvivor'
  <2>1. \A x \in end[c].jobs : proc[x] = "alive" => job[x].cleanup = "partial"
    BY <1>22 DEF CleanupWaited, Stages
  <2> DEFINE b == \E x \in end[c].jobs : job[x].cleanup = "partial"
  <2>2. end' = [end EXCEPT ![c].pc = "delete", ![c].partial = b] /\ proc' = proc
    BY <1>22 DEF CleanupWaited
  <2>3. \A x \in end[c].jobs : proc[x] = "alive" => b BY <2>1
  <2> HIDE DEF b
  <2>4. /\ \A d \in Ends : end'[d].jobs = end[d].jobs
        /\ \A d \in Ends : d # c => end'[d] = end[d]
        /\ end'[c].partial = b
    BY <2>2
  <2>5. ASSUME NEW d \in Ends, NEW x \in end'[d].jobs, end'[d].pc = "delete", proc'[x] = "alive"
        PROVE  end'[d].partial
    <3>1. CASE d = c BY <2>2, <2>3, <2>4, <2>5, <3>1
    <3>2. CASE d # c BY <2>2, <2>4, <2>5, <3>2 DEF NoSilentSurvivor
    <3> QED BY <3>1, <3>2
  <2> QED BY <2>5 DEF NoSilentSurvivor
<1>23. ASSUME NEW c \in Ends, CleanupTimesOut(c) PROVE NoSilentSurvivor'
  <2>1. end' = [end EXCEPT ![c].pc = "delete", ![c].partial = TRUE] /\ proc' = proc
    BY <1>23 DEF CleanupTimesOut
  <2>2. /\ \A d \in Ends : end'[d].jobs = end[d].jobs
        /\ \A d \in Ends : d # c => end'[d] = end[d]
        /\ end'[c].partial = TRUE
    BY <2>1
  <2>3. ASSUME NEW d \in Ends, NEW x \in end'[d].jobs, end'[d].pc = "delete", proc'[x] = "alive"
        PROVE  end'[d].partial
    <3>1. CASE d = c BY <2>2, <2>3, <3>1
    <3>2. CASE d # c BY <2>1, <2>2, <2>3, <3>2 DEF NoSilentSurvivor
    <3> QED BY <3>1, <3>2
  <2> QED BY <2>3 DEF NoSilentSurvivor
<1>24. ASSUME NEW c \in Ends, CleanupDelete(c) PROVE NoSilentSurvivor'
  <2>1. end'[c].pc = "done" /\ proc' = proc BY <1>24 DEF CleanupDelete
  <2>2. \A d \in Ends : d # c => end'[d] = end[d] BY <1>24 DEF CleanupDelete
  <2>3. Still BY <2>1, <2>2
  <2> QED BY <1>q, <2>3
<1> QED
  BY <1>1, <1>2, <1>3, <1>4, <1>5, <1>6, <1>7, <1>8, <1>9, <1>10, <1>11, <1>12, <1>13, <1>14,
     <1>15, <1>16, <1>17, <1>18, <1>19, <1>20, <1>21, <1>22, <1>23, <1>24, Wakes
  DEF JobsNext, StartCall, Monitor, Cleanup

-----------------------------------------------------------------------------
(* The counters count the places that are held.                            *)

\* One place more ...
LEMMA PlaceTaken ==
  ASSUME ExecAssumption, Types, QuotaCounted, NEW j \in Jobs, j \notin Holders,
         Holders' = Holders \cup {j}, NEW s, s = Owner[j].session, ~Full(s),
         reg'.active = reg.active + 1,
         reg'.perSession = [reg.perSession EXCEPT ![s] = @ + 1]
  PROVE  QuotaCounted'
<1> DEFINE Of(q) == {x \in Holders : Owner[x].session = q}
<1>1. Holders \in SUBSET Jobs BY DEF Holders
<1>2. IsFiniteSet(Holders) BY <1>1, Finite
<1>3. reg'.active = Cardinality(Holders') /\ reg'.active <= MaxGlobalActive
  <2>1. Cardinality(Holders \cup {j}) = Cardinality(Holders) + 1 BY <1>2, FS_AddElement
  <2>2. reg.active < MaxGlobalActive BY DEF Full, Types, Registry, ExecAssumption
  <2> QED BY <2>1, <2>2 DEF QuotaCounted, Types, Registry, ExecAssumption
<1>4. ASSUME NEW q \in Sessions
      PROVE  /\ reg'.perSession[q] = Cardinality({x \in Holders' : Owner[x].session = q})
             /\ reg'.perSession[q] <= MaxSessionActive
  <2>1. Of(q) \in SUBSET Jobs /\ j \notin Of(q) BY <1>1
  <2>2. reg.perSession[q] = Cardinality(Of(q)) /\ reg.perSession[q] <= MaxSessionActive
    BY DEF QuotaCounted
  <2>3. reg.perSession \in [Sessions -> Nat] BY DEF Types, Registry
  <2>4. CASE q = s
    <3>1. {x \in Holders' : Owner[x].session = q} = Of(q) \cup {j} BY <2>4
    <3>2. IsFiniteSet(Of(q)) BY <2>1, Finite
    <3>3. Cardinality(Of(q) \cup {j}) = Cardinality(Of(q)) + 1
      <4> HIDE DEF Of
      <4> QED BY <2>1, <3>2, FS_AddElement
    <3>4. reg'.perSession[q] = reg.perSession[q] + 1 BY <2>3, <2>4
    <3>5. reg'.perSession[q] <= MaxSessionActive BY <2>3, <2>4, <3>4 DEF Full, ExecAssumption
    <3> QED BY <2>2, <3>1, <3>3, <3>4, <3>5
  <2>5. CASE q # s
    <3>1. {x \in Holders' : Owner[x].session = q} = Of(q) BY <2>5
    <3>2. reg'.perSession[q] = reg.perSession[q] BY <2>3, <2>5
    <3> QED BY <2>2, <3>1, <3>2
  <2> QED BY <2>4, <2>5
<1> QED BY <1>3, <1>4 DEF QuotaCounted

\* ... and one less: neither counter is at its floor.
LEMMA PlaceGivenBack ==
  ASSUME ExecAssumption, Types, QuotaCounted, NEW j \in Jobs, j \in Holders,
         Holders' = Holders \ {j}, reg' = GivenBack(Owner[j].session)
  PROVE  QuotaCounted'
<1> DEFINE s == Owner[j].session
           Of(q) == {x \in Holders : Owner[x].session = q}
<1>1. Holders \in SUBSET Jobs BY DEF Holders
<1>2. IsFiniteSet(Holders) /\ Cardinality(Holders) \in Nat BY <1>1, Finite
<1>r. reg \in Registry BY DEF Types
<1>3. /\ reg'.active = IF reg.active > 0 THEN reg.active - 1 ELSE 0
      /\ reg'.perSession = [reg.perSession EXCEPT
                              ![s] = IF reg.perSession[s] <= 1 THEN 0 ELSE reg.perSession[s] - 1]
  BY <1>r DEF GivenBack, Registry
<1>4. reg'.active = Cardinality(Holders') /\ reg'.active <= MaxGlobalActive
  <2>1. Cardinality(Holders \ {j}) = Cardinality(Holders) - 1 BY <1>2, FS_RemoveElement
  <2>2. Cardinality(Holders \ {j}) \in Nat
    <3>1. Holders \ {j} \in SUBSET Jobs BY <1>1
    <3> QED BY <3>1, Finite
  <2>3. reg.active = Cardinality(Holders) /\ reg.active <= MaxGlobalActive BY DEF QuotaCounted
  <2> QED BY <1>2, <1>3, <2>1, <2>2, <2>3 DEF ExecAssumption
<1>5. ASSUME NEW q \in Sessions
      PROVE  /\ reg'.perSession[q] = Cardinality({x \in Holders' : Owner[x].session = q})
             /\ reg'.perSession[q] <= MaxSessionActive
  <2>1. Of(q) \in SUBSET Jobs BY <1>1
  <2>2. reg.perSession[q] = Cardinality(Of(q)) /\ reg.perSession[q] <= MaxSessionActive
    BY DEF QuotaCounted
  <2>3. reg.perSession \in [Sessions -> Nat] BY <1>r DEF Registry
  <2>4. CASE q = s
    <3>1. {x \in Holders' : Owner[x].session = q} = Of(q) \ {j} BY <2>4
    <3>2. IsFiniteSet(Of(q)) /\ j \in Of(q) /\ Of(q) \ {j} \in SUBSET Jobs BY <2>1, <2>4, Finite
    <3>3. Cardinality(Of(q) \ {j}) = Cardinality(Of(q)) - 1 /\ Cardinality(Of(q) \ {j}) \in Nat
      <4> HIDE DEF Of
      <4> QED BY <3>2, Finite, FS_RemoveElement
    <3>4. reg'.perSession[q] = IF reg.perSession[q] <= 1 THEN 0 ELSE reg.perSession[q] - 1
      BY <1>3, <2>3, <2>4
    <3>5. reg.perSession[q] \in Nat BY <2>3
    <3>6. reg'.perSession[q] = Cardinality(Of(q) \ {j})
      <4> HIDE DEF Of
      <4> QED BY <2>2, <3>3, <3>4, <3>5
    <3>7. reg'.perSession[q] <= MaxSessionActive BY <2>2, <3>4, <3>5 DEF ExecAssumption
    <3> QED BY <3>1, <3>6, <3>7
  <2>5. CASE q # s
    <3>1. {x \in Holders' : Owner[x].session = q} = Of(q) BY <2>5
    <3>2. reg'.perSession[q] = reg.perSession[q] BY <1>3, <2>3, <2>5
    <3> QED BY <2>2, <3>1, <3>2
  <2> QED BY <2>4, <2>5
<1> QED BY <1>4, <1>5 DEF QuotaCounted

\* Every step keeps the counters right.
LEMMA QuotaKept ==
  ASSUME ExecAssumption, Types, Stages, QuotaCounted, JobsNext
  PROVE  QuotaCounted'
<1>r. reg \in Registry BY DEF Types
<1>c. call \in [Jobs -> Calls] BY DEF Types
<1>m. mon \in [Jobs -> Monitoring] BY DEF Types
<1> DEFINE Still == /\ reg'.active = reg.active /\ reg'.perSession = reg.perSession
                   /\ \A x \in Jobs : x \in Holders' <=> x \in Holders
<1>q. Still => QuotaCounted'
  <2> SUFFICES ASSUME Still PROVE QuotaCounted' OBVIOUS
  <2>1. Holders' = Holders BY DEF Holders
  <2> QED BY <2>1 DEF QuotaCounted
<1>1. ASSUME NEW j \in Jobs, Reserve(j) PROVE QuotaCounted'
  <2>1. /\ call' = [call EXCEPT ![j] = "reserved"] /\ call[j] = "idle" /\ mon' = mon
        /\ ~Full(Owner[j].session)
        /\ reg' = [reg EXCEPT !.active = @ + 1, !.perSession[Owner[j].session] = @ + 1]
    BY <1>1 DEF Reserve
  <2>2. mon[j].pc = "none" BY <2>1 DEF Stages
  <2>3. j \notin Holders BY <2>1, <2>2 DEF Holders
  <2>4. Holders' = Holders \cup {j} BY <1>c, <2>1, <2>2 DEF Holders
  <2>5. /\ reg'.active = reg.active + 1
        /\ reg'.perSession = [reg.perSession EXCEPT ![Owner[j].session] = @ + 1]
    BY <1>r, <2>1 DEF Registry
  <2> QED BY <2>1, <2>3, <2>4, <2>5, PlaceTaken
<1>2. ASSUME NEW j \in Jobs, LaunchFails(j) PROVE QuotaCounted'
  <2>1. /\ call' = [call EXCEPT ![j] = "failed"] /\ call[j] = "reserved" /\ mon' = mon
        /\ reg' = GivenBack(Owner[j].session)
    BY <1>2 DEF LaunchFails
  <2>2. mon[j].pc = "none" BY <2>1 DEF Stages
  <2>3. j \in Holders BY <2>1, <2>2 DEF Holders
  <2>4. Holders' = Holders \ {j} BY <1>c, <2>1, <2>2 DEF Holders
  <2> QED BY <2>1, <2>3, <2>4, PlaceGivenBack
<1>3. ASSUME NEW j \in Jobs, Launch(j) PROVE QuotaCounted'
  BY <1>3, <1>q, <1>r, <1>c, <1>m DEF Launch, StoppedJob, Running, Holders, Stages, Registry, Monitoring
<1>4. ASSUME NEW j \in Jobs, StartReturns(j) PROVE QuotaCounted'
  BY <1>4, <1>q, <1>r, <1>c, <1>m DEF StartReturns, Holders, Stages, Registry, Monitoring
<1>5. ASSUME NEW j \in Jobs, StartCancelled(j) PROVE QuotaCounted'
  BY <1>5, <1>q, <1>r, <1>c, <1>m DEF StartCancelled, StoppedJob, Running, Holders, Stages, Registry, Monitoring
<1>6. ASSUME NEW j \in Jobs, RefusedReturns(j) PROVE QuotaCounted'
  BY <1>6, <1>q, <1>r, <1>c, <1>m DEF RefusedReturns, Holders, Stages, Registry, Monitoring
<1>7. ASSUME NEW j \in Jobs, CancelReturns(j) PROVE QuotaCounted'
  BY <1>7, <1>q, <1>r, <1>c, <1>m DEF CancelReturns, Dropped, Holders, Stages, Registry, Monitoring
<1>8. ASSUME NEW j \in Jobs, NEW o \in Owners, StopJob(j, o) PROVE QuotaCounted'
  BY <1>8, <1>q, <1>r, <1>c, <1>m DEF StopJob, StoppedJob, Running, Holders, Stages, Registry, Monitoring
<1>9. ASSUME NEW j \in Jobs, ProcExits(j) PROVE QuotaCounted'
  BY <1>9, <1>q, <1>r, <1>c, <1>m DEF ProcExits, Holders, Stages, Registry, Monitoring
<1>10. ASSUME NEW j \in Jobs, NEW status \in Ways, Drained(j, status) PROVE QuotaCounted'
  BY <1>10, <1>q, <1>r, <1>c, <1>m DEF Drained, CleanupStatus, Holders, Stages, Registry, Monitoring
<1>11. ASSUME NEW j \in Jobs, Finish(j) PROVE QuotaCounted'
  BY <1>11, <1>q, <1>r, <1>c, <1>m DEF Finish, Local, Holders, Stages, Registry, Monitoring
<1>12. ASSUME NEW j \in Jobs, JobCompleted(j) PROVE QuotaCounted'
  <2>1. /\ mon' = [mon EXCEPT ![j].pc = "trimming"] /\ mon[j].pc = "finished" /\ call' = call
        /\ reg' = GivenBack(Owner[j].session)
    BY <1>12 DEF JobCompleted
  <2>2. j \in Holders BY <2>1 DEF Holders
  <2>3. \A x \in Jobs : mon'[x].pc = IF x = j THEN "trimming" ELSE mon[x].pc
    BY <1>m, <2>1 DEF Monitoring
  <2>4. Holders' = Holders \ {j} BY <2>1, <2>3 DEF Holders
  <2> QED BY <2>1, <2>2, <2>4, PlaceGivenBack
<1>13. ASSUME NEW j \in Jobs, TrimLook(j) PROVE QuotaCounted'
  BY <1>13, <1>q, <1>r, <1>c, <1>m DEF TrimLook, Holders, Stages, Registry, Monitoring
<1>14. ASSUME NEW j \in Jobs, TrimDelete(j) PROVE QuotaCounted'
  BY <1>14, <1>q, <1>r, <1>c, <1>m DEF TrimDelete, Holders, Stages, Registry, Monitoring
<1>15. CASE Reap
  BY <1>15, <1>q, <1>r, <1>c, <1>m DEF Reap, Holders, Stages, Registry, Monitoring
<1>16. ASSUME NEW o \in Owners, EndBoundary(o) PROVE QuotaCounted'
  BY <1>16, <1>q, <1>r, <1>c, <1>m DEF EndBoundary, Begin, Holders, Stages, Registry, Monitoring
<1>17. ASSUME NEW s \in Sessions, EndSession(s) PROVE QuotaCounted'
  BY <1>17, <1>q, <1>r, <1>c, <1>m DEF EndSession, Begin, Holders, Stages, Registry, Monitoring
<1>18. CASE CloseRegistry
  BY <1>18, <1>q, <1>r, <1>c, <1>m DEF CloseRegistry, Holders, Stages, Registry, Monitoring
<1>19. CASE ReaperStopped
  BY <1>19, <1>q, <1>r, <1>c, <1>m DEF ReaperStopped, Begin, Holders, Stages, Registry, Monitoring
<1>20. ASSUME NEW c \in Ends, CleanupList(c) PROVE QuotaCounted'
  BY <1>20, <1>q, <1>r, <1>c, <1>m DEF CleanupList, Holders, Stages, Registry, Monitoring
<1>21. ASSUME NEW c \in Ends, NEW j \in Jobs, CleanupRequest(c, j) PROVE QuotaCounted'
  BY <1>21, <1>q, <1>r, <1>c, <1>m DEF CleanupRequest, StoppedJob, Running, Holders, Stages, Registry, Monitoring
<1>22. ASSUME NEW c \in Ends, CleanupWaited(c) PROVE QuotaCounted'
  BY <1>22, <1>q, <1>r, <1>c, <1>m DEF CleanupWaited, Holders, Stages, Registry, Monitoring
<1>23. ASSUME NEW c \in Ends, CleanupTimesOut(c) PROVE QuotaCounted'
  BY <1>23, <1>q, <1>r, <1>c, <1>m DEF CleanupTimesOut, Holders, Stages, Registry, Monitoring
<1>24. ASSUME NEW c \in Ends, CleanupDelete(c) PROVE QuotaCounted'
  BY <1>24, <1>q, <1>r, <1>c, <1>m DEF CleanupDelete, Holders, Stages, Registry, Monitoring
<1> QED
  BY <1>1, <1>2, <1>3, <1>4, <1>5, <1>6, <1>7, <1>8, <1>9, <1>10, <1>11, <1>12, <1>13, <1>14,
     <1>15, <1>16, <1>17, <1>18, <1>19, <1>20, <1>21, <1>22, <1>23, <1>24, Wakes
  DEF JobsNext, StartCall, Monitor, Cleanup

-----------------------------------------------------------------------------
(* Whoever has been through its trim is within the limits.                 *)

\* What a trim leaves of the jobs that it saw.
LEMMA TrimBounds ==
  ASSUME ExecAssumption, Types, NEW S \in SUBSET Jobs, NEW K \in SUBSET (S \ Surplus(S))
  PROVE  /\ Cardinality(K) <= MaxGlobalCompleted
         /\ \A s \in Sessions : Cardinality({x \in K : Owner[x].session = s}) <= MaxSessionCompleted
<1> DEFINE Of(s) == {x \in S : Owner[x].session = s}
           gone == UNION {Excess(Of(s), MaxSessionCompleted) : s \in Sessions}
           T == S \ gone
<1>1. Surplus(S) = gone \cup Excess(T, MaxGlobalCompleted) BY DEF Surplus
<1>2. Cardinality(K) <= MaxGlobalCompleted
  <2>1. K \subseteq T \ Excess(T, MaxGlobalCompleted) BY <1>1
  <2>2. T \in SUBSET Jobs OBVIOUS
  <2> HIDE DEF T
  <2>3. /\ Cardinality(T \ Excess(T, MaxGlobalCompleted)) <= MaxGlobalCompleted
        /\ MaxGlobalCompleted \in Nat
    BY <2>2, ExcessBounds DEF ExecAssumption
  <2>4. T \ Excess(T, MaxGlobalCompleted) \in SUBSET Jobs BY <2>2
  <2> DEFINE L == T \ Excess(T, MaxGlobalCompleted)
  <2>5. Cardinality(K) <= Cardinality(L) /\ Cardinality(L) \in Nat /\ Cardinality(K) \in Nat
    <3> HIDE DEF L
    <3> QED BY <2>1, <2>4, PartIsSmaller DEF L
  <2> QED BY <2>3, <2>5
<1>3. ASSUME NEW s \in Sessions
      PROVE  Cardinality({x \in K : Owner[x].session = s}) <= MaxSessionCompleted
  <2> DEFINE O == Of(s)
             M == {x \in K : Owner[x].session = s}
  <2>1. M \subseteq O \ Excess(O, MaxSessionCompleted)
    <3>1. Excess(O, MaxSessionCompleted) \subseteq gone
      <4>1. Excess(O, MaxSessionCompleted) \in {Excess(Of(q), MaxSessionCompleted) : q \in Sessions}
        <5> HIDE DEF Of
        <5> QED OBVIOUS
      <4> QED BY <4>1
    <3>2. \A x \in K : x \in S /\ x \notin gone BY <1>1
    <3> HIDE DEF gone
    <3> QED BY <3>1, <3>2
  <2>2. O \in SUBSET Jobs OBVIOUS
  <2> HIDE DEF O
  <2>3. /\ Cardinality(O \ Excess(O, MaxSessionCompleted)) <= MaxSessionCompleted
        /\ MaxSessionCompleted \in Nat
    BY <2>2, ExcessBounds DEF ExecAssumption
  <2>4. O \ Excess(O, MaxSessionCompleted) \in SUBSET Jobs BY <2>2
  <2> DEFINE L == O \ Excess(O, MaxSessionCompleted)
  <2>5. Cardinality(M) <= Cardinality(L) /\ Cardinality(L) \in Nat /\ Cardinality(M) \in Nat
    <3> HIDE DEF L, M
    <3> QED BY <2>1, <2>4, PartIsSmaller DEF L
  <2> QED BY <2>3, <2>5
<1> QED BY <1>2, <1>3

\* Every step keeps the limits for those that have been through their trim.
LEMMA RetainedKept ==
  ASSUME ExecAssumption, Types, Stages, Trims, Retained, JobsNext
  PROVE  Retained'
<1>r. reg \in Registry BY DEF Types
<1>j. job \in [Jobs -> Record] BY DEF Types
<1>m. mon \in [Jobs -> Monitoring] BY DEF Types
<1>t. trim \in Trimming BY DEF Types
<1> DEFINE Done == {x \in reg.jobs : mon[x].pc = "done"}
           Still == \A x \in reg'.jobs : mon'[x].pc = "done" => x \in reg.jobs /\ mon[x].pc = "done"
<1>q. Still => Retained'
  <2> SUFFICES ASSUME Still PROVE Retained' OBVIOUS
  <2>1. Done \in SUBSET Jobs BY <1>r DEF Registry
  <2>2. Done' \subseteq Done OBVIOUS
  <2>3. ASSUME NEW s \in Sessions
        PROVE  Cardinality({x \in Done' : Owner[x].session = s}) <= MaxSessionCompleted
    <3> DEFINE P == {x \in Done' : Owner[x].session = s}
               Q == {x \in Done : Owner[x].session = s}
    <3>1. P \subseteq Q /\ Q \in SUBSET Jobs BY <2>1, <2>2
    <3>2. Cardinality(Q) <= MaxSessionCompleted BY DEF Retained
    <3> HIDE DEF P, Q
    <3>3. Cardinality(P) <= Cardinality(Q) /\ Cardinality(Q) \in Nat /\ Cardinality(P) \in Nat
      BY <3>1, PartIsSmaller
    <3>4. Cardinality(P) <= MaxSessionCompleted BY <3>2, <3>3 DEF ExecAssumption
    <3> QED BY <3>4 DEF P
  <2>4. Cardinality(Done') <= MaxGlobalCompleted
    <3>1. Cardinality(Done) <= MaxGlobalCompleted BY DEF Retained
    <3>2. Cardinality(Done') <= Cardinality(Done) /\ Cardinality(Done) \in Nat
          /\ Cardinality(Done') \in Nat
      <4> HIDE DEF Done
      <4> QED BY <2>1, <2>2, PartIsSmaller
    <3> QED BY <3>1, <3>2 DEF ExecAssumption
  <2> QED BY <2>3, <2>4 DEF Retained
<1>1. ASSUME NEW j \in Jobs, Reserve(j) PROVE Retained'
  BY <1>1, <1>q, <1>r, <1>m DEF Reserve, Registry, Monitoring
<1>2. ASSUME NEW j \in Jobs, LaunchFails(j) PROVE Retained'
  BY <1>2, <1>q, <1>r, <1>m DEF LaunchFails, GivenBack, Registry, Monitoring
<1>3. ASSUME NEW j \in Jobs, Launch(j) PROVE Retained'
  BY <1>3, <1>q, <1>r, <1>m DEF Launch, StoppedJob, Running, Registry, Monitoring
<1>4. ASSUME NEW j \in Jobs, StartReturns(j) PROVE Retained'
  BY <1>4, <1>q, <1>r, <1>m DEF StartReturns, Registry, Monitoring
<1>5. ASSUME NEW j \in Jobs, StartCancelled(j) PROVE Retained'
  BY <1>5, <1>q, <1>r, <1>m DEF StartCancelled, StoppedJob, Running, Registry, Monitoring
<1>6. ASSUME NEW j \in Jobs, RefusedReturns(j) PROVE Retained'
  BY <1>6, <1>q, <1>r, <1>m DEF RefusedReturns, Registry, Monitoring
<1>7. ASSUME NEW j \in Jobs, CancelReturns(j) PROVE Retained'
  BY <1>7, <1>q, <1>r, <1>m DEF CancelReturns, Dropped, Registry, Monitoring
<1>8. ASSUME NEW j \in Jobs, NEW o \in Owners, StopJob(j, o) PROVE Retained'
  BY <1>8, <1>q, <1>r, <1>m DEF StopJob, StoppedJob, Running, Registry, Monitoring
<1>9. ASSUME NEW j \in Jobs, ProcExits(j) PROVE Retained'
  BY <1>9, <1>q, <1>r, <1>m DEF ProcExits, Registry, Monitoring
<1>10. ASSUME NEW j \in Jobs, NEW status \in Ways, Drained(j, status) PROVE Retained'
  BY <1>10, <1>q, <1>r, <1>m DEF Drained, CleanupStatus, Registry, Monitoring
<1>11. ASSUME NEW j \in Jobs, Finish(j) PROVE Retained'
  BY <1>11, <1>q, <1>r, <1>m DEF Finish, Local, Registry, Monitoring
<1>12. ASSUME NEW j \in Jobs, JobCompleted(j) PROVE Retained'
  BY <1>12, <1>q, <1>r, <1>m DEF JobCompleted, GivenBack, Registry, Monitoring
<1>13. ASSUME NEW j \in Jobs, TrimLook(j) PROVE Retained'
  BY <1>13, <1>q, <1>r, <1>m DEF TrimLook, Registry, Monitoring
<1>14. ASSUME NEW j \in Jobs, TrimDelete(j) PROVE Retained'
  <2>1. /\ mon[j].pc = "trimming" /\ trim.todo = {}
        /\ reg'.jobs = reg.jobs \ Surplus(trim.seen)
        /\ mon' = [mon EXCEPT ![j].pc = "done"]
    BY <1>14, <1>r DEF TrimDelete, Registry
  <2>2. \A x \in Jobs : mon'[x].pc = "done" => mon[x].pc \in {"trimming", "done"}
    BY <1>m, <2>1 DEF Monitoring
  <2>3. trim.holder # NoJob BY <2>1, Constants DEF Trims
  <2>4. trim.seen \in SUBSET Jobs /\ reg.jobs \subseteq Jobs BY <1>r, <1>t DEF Trimming, Registry
  <2>5. Done' \in SUBSET (trim.seen \ Surplus(trim.seen)) BY <2>1, <2>2, <2>3, <2>4 DEF Trims
  <2>6. /\ Cardinality(Done') <= MaxGlobalCompleted
        /\ \A s \in Sessions :
             Cardinality({x \in Done' : Owner[x].session = s}) <= MaxSessionCompleted
    <3>1. \A K \in SUBSET (trim.seen \ Surplus(trim.seen)) :
            /\ Cardinality(K) <= MaxGlobalCompleted
            /\ \A s \in Sessions : Cardinality({x \in K : Owner[x].session = s}) <= MaxSessionCompleted
      BY <2>4, TrimBounds
    <3> DEFINE L == Done'
    <3>2. L \in SUBSET (trim.seen \ Surplus(trim.seen)) BY <2>5
    <3> HIDE DEF L
    <3>3. /\ Cardinality(L) <= MaxGlobalCompleted
          /\ \A s \in Sessions : Cardinality({x \in L : Owner[x].session = s}) <= MaxSessionCompleted
      BY <3>1, <3>2
    <3> QED BY <3>3 DEF L
  <2> QED BY <2>6 DEF Retained
<1>15. CASE Reap
  BY <1>15, <1>q, <1>r, <1>m DEF Reap, Registry, Monitoring
<1>16. ASSUME NEW o \in Owners, EndBoundary(o) PROVE Retained'
  BY <1>16, <1>q, <1>r, <1>m DEF EndBoundary, Begin, Registry, Monitoring
<1>17. ASSUME NEW s \in Sessions, EndSession(s) PROVE Retained'
  BY <1>17, <1>q, <1>r, <1>m DEF EndSession, Begin, Registry, Monitoring
<1>18. CASE CloseRegistry
  BY <1>18, <1>q, <1>r, <1>m DEF CloseRegistry, Registry, Monitoring
<1>19. CASE ReaperStopped
  BY <1>19, <1>q, <1>r, <1>m DEF ReaperStopped, Begin, Registry, Monitoring
<1>20. ASSUME NEW c \in Ends, CleanupList(c) PROVE Retained'
  BY <1>20, <1>q, <1>r, <1>m DEF CleanupList, Registry, Monitoring
<1>21. ASSUME NEW c \in Ends, NEW j \in Jobs, CleanupRequest(c, j) PROVE Retained'
  BY <1>21, <1>q, <1>r, <1>m DEF CleanupRequest, StoppedJob, Running, Registry, Monitoring
<1>22. ASSUME NEW c \in Ends, CleanupWaited(c) PROVE Retained'
  BY <1>22, <1>q, <1>r, <1>m DEF CleanupWaited, Registry, Monitoring
<1>23. ASSUME NEW c \in Ends, CleanupTimesOut(c) PROVE Retained'
  BY <1>23, <1>q, <1>r, <1>m DEF CleanupTimesOut, Registry, Monitoring
<1>24. ASSUME NEW c \in Ends, CleanupDelete(c) PROVE Retained'
  BY <1>24, <1>q, <1>r, <1>m DEF CleanupDelete, Registry, Monitoring
<1> QED
  BY <1>1, <1>2, <1>3, <1>4, <1>5, <1>6, <1>7, <1>8, <1>9, <1>10, <1>11, <1>12, <1>13, <1>14,
     <1>15, <1>16, <1>17, <1>18, <1>19, <1>20, <1>21, <1>22, <1>23, <1>24, Wakes
  DEF JobsNext, StartCall, Monitor, Cleanup

\* A job that completed and is not about to trim has been through its trim.
LEMMA RetainedBounds ==
  ASSUME ExecAssumption, Types, Stages, Retained
  PROVE  RetentionBounded
<1> SUFFICES ASSUME \A j \in Jobs : mon[j].pc \notin {"finished", "trimming"}
             PROVE  LET kept == {j \in reg.jobs : Completed(j)}
                    IN  /\ Cardinality(kept) <= MaxGlobalCompleted
                        /\ \A s \in Sessions :
                             Cardinality({j \in kept : Owner[j].session = s}) <= MaxSessionCompleted
  BY DEF RetentionBounded
<1>1. reg.jobs \subseteq Jobs BY DEF Types, Registry
<1> DEFINE A == {j \in reg.jobs : Completed(j)}
           B == {j \in reg.jobs : mon[j].pc = "done"}
<1>2. A = B BY <1>1 DEF Stages
<1>3. /\ Cardinality(B) <= MaxGlobalCompleted
      /\ \A s \in Sessions : Cardinality({j \in B : Owner[j].session = s}) <= MaxSessionCompleted
  BY DEF Retained
<1>4. /\ Cardinality(A) <= MaxGlobalCompleted
      /\ \A s \in Sessions : Cardinality({j \in A : Owner[j].session = s}) <= MaxSessionCompleted
  <2> HIDE DEF A, B
  <2> QED BY <1>2, <1>3
<1> QED BY <1>4

-----------------------------------------------------------------------------
(* The invariant.                                                          *)

\* The registry starts in the invariant.
LEMMA JobsInitInv == ASSUME ExecAssumption, JobsInit PROVE IInv
<1> USE DEF JobsInit
<1>1. Types
  <2>1. reg \in Registry BY DEF Registry
  <2>2. call \in [Jobs -> Calls] /\ proc \in [Jobs -> {"none", "alive", "exited"}] BY DEF Calls
  <2>3. job \in [Jobs -> Record] BY DEF Record, Marks
  <2>4. mon \in [Jobs -> Monitoring] BY DEF Monitoring, Ways, Marks, Local
  <2>5. clock \in Nat \ {0} /\ trim \in Trimming BY DEF Trimming
  <2>6. end \in [Ends -> Cleaning] BY DEF Cleaning
  <2> QED BY <2>1, <2>2, <2>3, <2>4, <2>5, <2>6 DEF Types
<1>2. Stages BY DEF Stages, Completed, Local
<1>3. Trims BY Constants DEF Trims, Local
<1>4. QuotaCounted
  <2>1. Holders = {} BY DEF Holders, Local
  <2>2. \A s \in Sessions : {j \in Holders : Owner[j].session = s} = {} BY <2>1
  <2> QED BY <2>1, <2>2, FS_EmptySet DEF QuotaCounted, ExecAssumption
<1>5. Retained
  <2> DEFINE kept == {j \in reg.jobs : mon[j].pc = "done"}
  <2>1. kept = {} OBVIOUS
  <2>2. \A s \in Sessions : {j \in kept : Owner[j].session = s} = {} BY <2>1
  <2>3. /\ Cardinality(kept) <= MaxGlobalCompleted
        /\ \A s \in Sessions :
             Cardinality({j \in kept : Owner[j].session = s}) <= MaxSessionCompleted
    <3> HIDE DEF kept
    <3> QED BY <2>1, <2>2, FS_EmptySet DEF ExecAssumption
  <2> QED BY <2>3 DEF Retained
<1>6. Ended
  <2>1. Resting BY Constants DEF Resting
  <2>2. Closing /\ Over BY Constants DEF Closing, Over
  <2>3. Listed /\ EndedHasNoJobs BY DEF Listed, EndedHasNoJobs
  <2> QED BY <2>1, <2>2, <2>3 DEF Ended
<1>7. NoSilentSurvivor BY DEF NoSilentSurvivor
<1> QED BY <1>1, <1>2, <1>3, <1>4, <1>5, <1>6, <1>7 DEF IInv

\* Every step keeps the invariant.
LEMMA JobsNextInv == ASSUME ExecAssumption, IInv, [JobsNext]_jobsVars PROVE IInv'
<1>1. CASE JobsNext
  BY <1>1, TypesKept, StagesKept, TrimsKept, QuotaKept, RetainedKept, EndedKept, SurvivorKept
  DEF IInv
<1>2. CASE UNCHANGED jobsVars
  <2> USE <1>2 DEF jobsVars
  <2>1. Types' /\ Stages' /\ Trims' BY DEF IInv, Types, Stages, Trims, Completed
  <2>2. QuotaCounted' /\ Retained' BY DEF IInv, QuotaCounted, Holders, Retained
  <2>3. Ended' BY DEF IInv, Ended, Closing, Resting, MidCall, Over, Listed, EndedHasNoJobs
  <2>4. NoSilentSurvivor' BY DEF IInv, NoSilentSurvivor
  <2> QED BY <2>1, <2>2, <2>3, <2>4 DEF IInv
<1> QED BY <1>1, <1>2

\* The state of the registry, of the calls and monitors, of a trim and of the
\* clean-ups fit together at every moment.
THEOREM JobsInvCorrect == ASSUME ExecAssumption PROVE JobsSpec => []IInv
<1>1. JobsInit => IInv BY JobsInitInv
<1>2. IInv /\ [JobsNext]_jobsVars => IInv' BY JobsNextInv
<1> QED BY <1>1, <1>2, PTL DEF JobsSpec

\* Every variable keeps its type.
THEOREM JobsTypeCorrect == ASSUME ExecAssumption PROVE JobsSpec => []Types
<1>1. IInv => Types BY DEF IInv
<1> QED BY <1>1, JobsInvCorrect, PTL

\* Whatever way starts, cancellations, timeouts and clean-ups take, the counters
\* count the places that are held, no more of them than there are, and the registry
\* keeps no more completed jobs than it may.
THEOREM LimitsCorrect == ASSUME ExecAssumption PROVE JobsSpec => []LimitsHold
<1>1. IInv => LimitsHold BY RetainedBounds DEF IInv, LimitsHold
<1> QED BY <1>1, JobsInvCorrect, PTL

\* Whoever has ended has no job in the registry, and a clean-up that leaves a living
\* process says so.
THEOREM EndedCorrect == ASSUME ExecAssumption PROVE JobsSpec => []EndedIsClean
<1>1. IInv => EndedIsClean BY DEF IInv, Ended, EndedIsClean
<1> QED BY <1>1, JobsInvCorrect, PTL

-----------------------------------------------------------------------------
(* What a step may do.                                                     *)

\* A trim removes only what it saw.
LEMMA SurplusIsSeen ==
  ASSUME NEW S \in SUBSET Jobs
  PROVE  Surplus(S) \subseteq S
<1> DEFINE Of(s) == {x \in S : Owner[x].session = s}
           gone == UNION {Excess(Of(s), MaxSessionCompleted) : s \in Sessions}
<1>1. \A T, n : Excess(T, n) \subseteq T BY DEF Excess
<1>2. ASSUME NEW y \in gone PROVE y \in S
  <2>1. PICK s \in Sessions : y \in Excess(Of(s), MaxSessionCompleted)
    <3> HIDE DEF Of
    <3> QED OBVIOUS
  <2>2. y \in Of(s)
    <3> HIDE DEF Of
    <3> QED BY <1>1, <2>1
  <2> QED BY <2>2
<1>3. Surplus(S) = gone \cup Excess(S \ gone, MaxGlobalCompleted) BY DEF Surplus
<1> QED BY <1>1, <1>2, <1>3

\* A job of the surplus has that many younger ones among those that were seen.
LEMMA SurplusIsOld ==
  ASSUME ExecAssumption, NEW S \in SUBSET Jobs, NEW j \in Surplus(S)
  PROVE  \/ Cardinality({i \in S : Older(j, i)}) >= MaxGlobalCompleted
         \/ Cardinality({i \in S : Owner[i].session = Owner[j].session /\ Older(j, i)})
              >= MaxSessionCompleted
<1> DEFINE Of(s) == {x \in S : Owner[x].session = s}
           gone == UNION {Excess(Of(s), MaxSessionCompleted) : s \in Sessions}
           T == S \ gone
<1>1. Surplus(S) = gone \cup Excess(T, MaxGlobalCompleted) BY DEF Surplus
<1>2. CASE j \in gone
  <2>1. PICK s \in Sessions : j \in Excess(Of(s), MaxSessionCompleted)
    <3> HIDE DEF Of
    <3> QED BY <1>2
  <2>2. j \in Of(s) /\ Cardinality({i \in Of(s) : Older(j, i)}) >= MaxSessionCompleted
    BY <2>1 DEF Excess
  <2>3. {i \in Of(s) : Older(j, i)}
          = {i \in S : Owner[i].session = Owner[j].session /\ Older(j, i)}
    BY <2>2
  <2> QED BY <2>2, <2>3
<1>3. CASE j \in Excess(T, MaxGlobalCompleted)
  <2> DEFINE A == {i \in T : Older(j, i)}
             B == {i \in S : Older(j, i)}
  <2>1. Cardinality(A) >= MaxGlobalCompleted BY <1>3 DEF Excess
  <2>2. A \subseteq B /\ B \in SUBSET Jobs OBVIOUS
  <2>3. Cardinality(A) <= Cardinality(B) /\ Cardinality(A) \in Nat /\ Cardinality(B) \in Nat
    <3> HIDE DEF A, B
    <3> QED BY <2>2, PartIsSmaller
  <2> HIDE DEF A
  <2> QED BY <2>1, <2>3 DEF ExecAssumption
<1> QED BY <1>1, <1>2, <1>3

\* Only a trim moves a monitor on from trimming.
LEMMA OnlyTrims ==
  ASSUME ExecAssumption, Types, Stages, Trims, JobsNext, NEW k \in Jobs,
         mon[k].pc = "trimming", mon'[k].pc = "done"
  PROVE  TrimDelete(k)
<1>m. mon \in [Jobs -> Monitoring] BY DEF Types
<1> USE <1>m DEF Monitoring
<1>1. ASSUME NEW j \in Jobs, Reserve(j) PROVE TrimDelete(k)
  BY <1>1 DEF Reserve
<1>2. ASSUME NEW j \in Jobs, LaunchFails(j) PROVE TrimDelete(k)
  BY <1>2 DEF LaunchFails, GivenBack
<1>3. ASSUME NEW j \in Jobs, Launch(j) PROVE TrimDelete(k)
  BY <1>3 DEF Launch, StoppedJob, Running
<1>4. ASSUME NEW j \in Jobs, StartReturns(j) PROVE TrimDelete(k)
  BY <1>4 DEF StartReturns
<1>5. ASSUME NEW j \in Jobs, StartCancelled(j) PROVE TrimDelete(k)
  BY <1>5 DEF StartCancelled, StoppedJob, Running
<1>6. ASSUME NEW j \in Jobs, RefusedReturns(j) PROVE TrimDelete(k)
  BY <1>6 DEF RefusedReturns
<1>7. ASSUME NEW j \in Jobs, CancelReturns(j) PROVE TrimDelete(k)
  BY <1>7 DEF CancelReturns, Dropped
<1>8. ASSUME NEW j \in Jobs, NEW o \in Owners, StopJob(j, o) PROVE TrimDelete(k)
  BY <1>8 DEF StopJob, StoppedJob, Running
<1>9. ASSUME NEW j \in Jobs, ProcExits(j) PROVE TrimDelete(k)
  BY <1>9 DEF ProcExits
<1>10. ASSUME NEW j \in Jobs, NEW status \in Ways, Drained(j, status) PROVE TrimDelete(k)
  BY <1>10 DEF Drained, CleanupStatus
<1>11. ASSUME NEW j \in Jobs, Finish(j) PROVE TrimDelete(k)
  BY <1>11 DEF Finish, Local
<1>12. ASSUME NEW j \in Jobs, JobCompleted(j) PROVE TrimDelete(k)
  BY <1>12 DEF JobCompleted, GivenBack
<1>13. ASSUME NEW j \in Jobs, TrimLook(j) PROVE TrimDelete(k)
  BY <1>13 DEF TrimLook
<1>14. ASSUME NEW j \in Jobs, TrimDelete(j) PROVE TrimDelete(k)
  <2>1. mon' = [mon EXCEPT ![j].pc = "done"] BY <1>14 DEF TrimDelete
  <2>2. k = j BY <2>1
  <2> QED BY <1>14, <2>2
<1>15. ASSUME Reap PROVE TrimDelete(k)
  BY <1>15 DEF Reap
<1>16. ASSUME NEW o \in Owners, EndBoundary(o) PROVE TrimDelete(k)
  BY <1>16 DEF EndBoundary, Begin
<1>17. ASSUME NEW s \in Sessions, EndSession(s) PROVE TrimDelete(k)
  BY <1>17 DEF EndSession, Begin
<1>18. ASSUME CloseRegistry PROVE TrimDelete(k)
  BY <1>18 DEF CloseRegistry
<1>19. ASSUME ReaperStopped PROVE TrimDelete(k)
  BY <1>19 DEF ReaperStopped, Begin
<1>20. ASSUME NEW c \in Ends, CleanupList(c) PROVE TrimDelete(k)
  BY <1>20 DEF CleanupList
<1>21. ASSUME NEW c \in Ends, NEW j \in Jobs, CleanupRequest(c, j) PROVE TrimDelete(k)
  BY <1>21 DEF CleanupRequest, StoppedJob, Running
<1>22. ASSUME NEW c \in Ends, CleanupWaited(c) PROVE TrimDelete(k)
  BY <1>22 DEF CleanupWaited
<1>23. ASSUME NEW c \in Ends, CleanupTimesOut(c) PROVE TrimDelete(k)
  BY <1>23 DEF CleanupTimesOut
<1>24. ASSUME NEW c \in Ends, CleanupDelete(c) PROVE TrimDelete(k)
  BY <1>24 DEF CleanupDelete
<1> QED
  BY <1>1, <1>2, <1>3, <1>4, <1>5, <1>6, <1>7, <1>8, <1>9, <1>10, <1>11, <1>12, <1>13, <1>14,
     <1>15, <1>16, <1>17, <1>18, <1>19, <1>20, <1>21, <1>22, <1>23, <1>24, Wakes
  DEF JobsNext, StartCall, Monitor, Cleanup

\* A running job leaves the registry by its cancelled start or by a clean-up.
LEMMA RunningStays ==
  ASSUME ExecAssumption, IInv, JobsNext, NEW x \in reg.jobs \ reg'.jobs, Running(x)
  PROVE  \/ call[x] = "cancelling"
         \/ \E c \in Ends : end[c].pc = "delete" /\ Matches(c, x)
<1> DEFINE Why == \/ call[x] = "cancelling"
                  \/ \E c \in Ends : end[c].pc = "delete" /\ Matches(c, x)
<1>r. reg \in Registry BY DEF IInv, Types
<1>t. trim \in Trimming BY DEF IInv, Types
<1>x. x \in reg.jobs /\ x \notin reg'.jobs /\ ~Completed(x) /\ x \in Jobs
  BY <1>r DEF Running, Completed, Registry
<1>1. ASSUME NEW j \in Jobs, Reserve(j) PROVE Why
  BY <1>1, <1>r, <1>x DEF Reserve, Registry
<1>2. ASSUME NEW j \in Jobs, LaunchFails(j) PROVE Why
  BY <1>2, <1>r, <1>x DEF LaunchFails, GivenBack, Registry
<1>3. ASSUME NEW j \in Jobs, Launch(j) PROVE Why
  BY <1>3, <1>r, <1>x DEF Launch, StoppedJob, Running, Registry
<1>4. ASSUME NEW j \in Jobs, StartReturns(j) PROVE Why
  BY <1>4, <1>r, <1>x DEF StartReturns, Registry
<1>5. ASSUME NEW j \in Jobs, StartCancelled(j) PROVE Why
  BY <1>5, <1>r, <1>x DEF StartCancelled, StoppedJob, Running, Registry
<1>6. ASSUME NEW j \in Jobs, RefusedReturns(j) PROVE Why
  BY <1>6, <1>r, <1>x DEF RefusedReturns, Registry
<1>7. ASSUME NEW j \in Jobs, CancelReturns(j) PROVE Why
  BY <1>7, <1>r, <1>x DEF CancelReturns, Dropped, Registry
<1>8. ASSUME NEW j \in Jobs, NEW o \in Owners, StopJob(j, o) PROVE Why
  BY <1>8, <1>r, <1>x DEF StopJob, StoppedJob, Running, Registry
<1>9. ASSUME NEW j \in Jobs, ProcExits(j) PROVE Why
  BY <1>9, <1>r, <1>x DEF ProcExits, Registry
<1>10. ASSUME NEW j \in Jobs, NEW status \in Ways, Drained(j, status) PROVE Why
  BY <1>10, <1>r, <1>x DEF Drained, CleanupStatus, Registry
<1>11. ASSUME NEW j \in Jobs, Finish(j) PROVE Why
  BY <1>11, <1>r, <1>x DEF Finish, Local, Registry
<1>12. ASSUME NEW j \in Jobs, JobCompleted(j) PROVE Why
  BY <1>12, <1>r, <1>x DEF JobCompleted, GivenBack, Registry
<1>13. ASSUME NEW j \in Jobs, TrimLook(j) PROVE Why
  BY <1>13, <1>r, <1>x DEF TrimLook, Registry
<1>14. ASSUME NEW j \in Jobs, TrimDelete(j) PROVE Why
  <2>1. x \in Surplus(trim.seen) BY <1>14, <1>r, <1>x DEF TrimDelete, Registry
  <2>2. trim.seen \in SUBSET Jobs BY <1>t DEF Trimming
  <2>3. x \in trim.seen BY <2>1, <2>2, SurplusIsSeen
  <2> QED BY <1>x, <2>3 DEF IInv, Trims
<1>15. ASSUME Reap PROVE Why
  BY <1>15, <1>r, <1>x DEF Reap, Registry
<1>16. ASSUME NEW o \in Owners, EndBoundary(o) PROVE Why
  BY <1>16, <1>r, <1>x DEF EndBoundary, Begin, Registry
<1>17. ASSUME NEW s \in Sessions, EndSession(s) PROVE Why
  BY <1>17, <1>r, <1>x DEF EndSession, Begin, Registry
<1>18. ASSUME CloseRegistry PROVE Why
  BY <1>18, <1>r, <1>x DEF CloseRegistry, Registry
<1>19. ASSUME ReaperStopped PROVE Why
  BY <1>19, <1>r, <1>x DEF ReaperStopped, Begin, Registry
<1>20. ASSUME NEW c \in Ends, CleanupList(c) PROVE Why
  BY <1>20, <1>r, <1>x DEF CleanupList, Registry
<1>21. ASSUME NEW c \in Ends, NEW j \in Jobs, CleanupRequest(c, j) PROVE Why
  BY <1>21, <1>r, <1>x DEF CleanupRequest, StoppedJob, Running, Registry
<1>22. ASSUME NEW c \in Ends, CleanupWaited(c) PROVE Why
  BY <1>22, <1>r, <1>x DEF CleanupWaited, Registry
<1>23. ASSUME NEW c \in Ends, CleanupTimesOut(c) PROVE Why
  BY <1>23, <1>r, <1>x DEF CleanupTimesOut, Registry
<1>24. ASSUME NEW c \in Ends, CleanupDelete(c) PROVE Why
  <2>1. x \in end[c].jobs /\ end[c].pc = "delete" BY <1>24, <1>r, <1>x DEF CleanupDelete, Registry
  <2> QED BY <2>1 DEF IInv, Ended, Listed
<1> QED
  BY <1>1, <1>2, <1>3, <1>4, <1>5, <1>6, <1>7, <1>8, <1>9, <1>10, <1>11, <1>12, <1>13, <1>14,
     <1>15, <1>16, <1>17, <1>18, <1>19, <1>20, <1>21, <1>22, <1>23, <1>24, Wakes
  DEF IInv, JobsNext, StartCall, Monitor, Cleanup

\* Whoever removes a job had a reason to remove that job: a trim left younger ones in
\* its place; a running job's start was cancelled or its boundary ended.
THEOREM RemovedCorrect == ASSUME ExecAssumption PROVE JobsSpec => RemovedForAReason
<1>1. IInv /\ [JobsNext]_jobsVars =>
        \A j \in reg.jobs \ reg'.jobs : \A k \in Jobs :
          mon[k].pc = "trimming" /\ mon'[k].pc = "done" =>
            LET younger == {i \in Jobs : Completed(i) /\ Older(j, i)}
            IN  \/ Cardinality(younger) >= MaxGlobalCompleted
                \/ Cardinality({i \in younger : Owner[i].session = Owner[j].session})
                     >= MaxSessionCompleted
  <2> SUFFICES ASSUME IInv, [JobsNext]_jobsVars, NEW j \in reg.jobs \ reg'.jobs, NEW k \in Jobs,
                      mon[k].pc = "trimming" /\ mon'[k].pc = "done"
               PROVE  LET younger == {i \in Jobs : Completed(i) /\ Older(j, i)}
                      IN  \/ Cardinality(younger) >= MaxGlobalCompleted
                          \/ Cardinality({i \in younger : Owner[i].session = Owner[j].session})
                               >= MaxSessionCompleted
    OBVIOUS
  <2>1. TrimDelete(k) BY OnlyTrims DEF IInv, jobsVars
  <2>2. reg \in Registry /\ trim \in Trimming BY DEF IInv, Types
  <2>3. j \in Surplus(trim.seen) BY <2>1, <2>2 DEF TrimDelete, Registry
  <2>4. trim.seen \in SUBSET Jobs /\ \A i \in trim.seen : Completed(i)
    BY <2>2 DEF IInv, Trims, Trimming
  <2> DEFINE S == trim.seen
             younger == {i \in Jobs : Completed(i) /\ Older(j, i)}
             mine == {i \in younger : Owner[i].session = Owner[j].session}
             A == {i \in S : Older(j, i)}
             B == {i \in S : Owner[i].session = Owner[j].session /\ Older(j, i)}
  <2>5. Cardinality(A) >= MaxGlobalCompleted \/ Cardinality(B) >= MaxSessionCompleted
    <3>1. \A R \in SUBSET Jobs : \A y \in Surplus(R) :
            \/ Cardinality({i \in R : Older(y, i)}) >= MaxGlobalCompleted
            \/ Cardinality({i \in R : Owner[i].session = Owner[y].session /\ Older(y, i)})
                 >= MaxSessionCompleted
      BY SurplusIsOld
    <3>2. S \in SUBSET Jobs /\ j \in Surplus(S) BY <2>3, <2>4
    <3> HIDE DEF S
    <3> QED BY <3>1, <3>2 DEF A, B
  <2>6. A \subseteq younger /\ B \subseteq mine /\ younger \in SUBSET Jobs /\ mine \in SUBSET Jobs
    BY <2>4
  <2>7. /\ Cardinality(A) <= Cardinality(younger) /\ Cardinality(B) <= Cardinality(mine)
        /\ Cardinality(A) \in Nat /\ Cardinality(younger) \in Nat
        /\ Cardinality(B) \in Nat /\ Cardinality(mine) \in Nat
    <3> HIDE DEF A, B, younger, mine
    <3> QED BY <2>6, PartIsSmaller
  <2>8. Cardinality(younger) >= MaxGlobalCompleted \/ Cardinality(mine) >= MaxSessionCompleted
    <3> HIDE DEF A, B, younger, mine
    <3> QED BY <2>5, <2>7 DEF ExecAssumption
  <2> QED BY <2>8
<1>2. IInv /\ [JobsNext]_jobsVars =>
        \A j \in reg.jobs \ reg'.jobs : Running(j) =>
          \/ call[j] = "cancelling"
          \/ \E c \in Ends : end[c].pc = "delete" /\ Matches(c, j)
  <2>1. ASSUME IInv, JobsNext, NEW j \in reg.jobs \ reg'.jobs, Running(j)
        PROVE  \/ call[j] = "cancelling"
               \/ \E c \in Ends : end[c].pc = "delete" /\ Matches(c, j)
    BY <2>1, RunningStays
  <2>2. UNCHANGED jobsVars => reg' = reg BY DEF jobsVars
  <2> QED BY <2>1, <2>2
<1> QED BY <1>1, <1>2, JobsInvCorrect, PTL DEF JobsSpec, RemovedForAReason, TrimKeepsNewest,
           RunningStaysReachable

\* A wake-up with a request's status is one for that request.
LEMMA WakesFor ==
  ASSUME Types, NEW j \in Jobs, SeesProcExit(j) \/ SeesStop(j) \/ TimesOut(j)
  PROVE  \E status \in Ways : /\ Drained(j, status)
                              /\ status \in {"stopped", "cancelled"} => status = job[j].stop
<1>1. job[j] \in Record BY DEF Types
<1>2. job[j].stop # "none" => job[j].stop \in Ways BY <1>1 DEF Record, Ways
<1> QED BY <1>2 DEF SeesProcExit, SeesStop, TimesOut, Ways

\* No step changes a request once it is made.
LEMMA FirstWins ==
  ASSUME ExecAssumption, Types, JobsNext, NEW x \in Jobs
  PROVE  /\ job[x].stop # "none" => job'[x].stop \in {job[x].stop, "none"}
         /\ mon'[x].status \in {"stopped", "cancelled"} => mon'[x].status \in {job[x].stop, mon[x].status}
<1> DEFINE Wins ==
      /\ job[x].stop # "none" => job'[x].stop \in {job[x].stop, "none"}
      /\ mon'[x].status \in {"stopped", "cancelled"} => mon'[x].status \in {job[x].stop, mon[x].status}
<1>j. job \in [Jobs -> Record] BY DEF Types
<1>m. mon \in [Jobs -> Monitoring] BY DEF Types
<1> USE <1>j, <1>m DEF Record, Monitoring
<1>1. ASSUME NEW j \in Jobs, Reserve(j) PROVE Wins
  BY <1>1 DEF Reserve
<1>2. ASSUME NEW j \in Jobs, LaunchFails(j) PROVE Wins
  BY <1>2 DEF LaunchFails, GivenBack
<1>3. ASSUME NEW j \in Jobs, Launch(j) PROVE Wins
  BY <1>3 DEF Launch, StoppedJob, Running
<1>4. ASSUME NEW j \in Jobs, StartReturns(j) PROVE Wins
  BY <1>4 DEF StartReturns
<1>5. ASSUME NEW j \in Jobs, StartCancelled(j) PROVE Wins
  BY <1>5 DEF StartCancelled, StoppedJob, Running
<1>6. ASSUME NEW j \in Jobs, RefusedReturns(j) PROVE Wins
  BY <1>6 DEF RefusedReturns
<1>7. ASSUME NEW j \in Jobs, CancelReturns(j) PROVE Wins
  BY <1>7 DEF CancelReturns, Dropped
<1>8. ASSUME NEW j \in Jobs, NEW o \in Owners, StopJob(j, o) PROVE Wins
  BY <1>8 DEF StopJob, StoppedJob, Running
<1>9. ASSUME NEW j \in Jobs, ProcExits(j) PROVE Wins
  BY <1>9 DEF ProcExits
<1>10. ASSUME NEW j \in Jobs, NEW status \in Ways, Drained(j, status),
            status \in {"stopped", "cancelled"} => status = job[j].stop
      PROVE  Wins
  BY <1>10 DEF Drained, CleanupStatus
<1>11. ASSUME NEW j \in Jobs, Finish(j) PROVE Wins
  BY <1>11 DEF Finish, Local
<1>12. ASSUME NEW j \in Jobs, JobCompleted(j) PROVE Wins
  BY <1>12 DEF JobCompleted, GivenBack
<1>13. ASSUME NEW j \in Jobs, TrimLook(j) PROVE Wins
  BY <1>13 DEF TrimLook
<1>14. ASSUME NEW j \in Jobs, TrimDelete(j) PROVE Wins
  BY <1>14 DEF TrimDelete
<1>15. ASSUME Reap PROVE Wins
  BY <1>15 DEF Reap
<1>16. ASSUME NEW o \in Owners, EndBoundary(o) PROVE Wins
  BY <1>16 DEF EndBoundary, Begin
<1>17. ASSUME NEW s \in Sessions, EndSession(s) PROVE Wins
  BY <1>17 DEF EndSession, Begin
<1>18. ASSUME CloseRegistry PROVE Wins
  BY <1>18 DEF CloseRegistry
<1>19. ASSUME ReaperStopped PROVE Wins
  BY <1>19 DEF ReaperStopped, Begin
<1>20. ASSUME NEW c \in Ends, CleanupList(c) PROVE Wins
  BY <1>20 DEF CleanupList
<1>21. ASSUME NEW c \in Ends, NEW j \in Jobs, CleanupRequest(c, j) PROVE Wins
  BY <1>21 DEF CleanupRequest, StoppedJob, Running
<1>22. ASSUME NEW c \in Ends, CleanupWaited(c) PROVE Wins
  BY <1>22 DEF CleanupWaited
<1>23. ASSUME NEW c \in Ends, CleanupTimesOut(c) PROVE Wins
  BY <1>23 DEF CleanupTimesOut
<1>24. ASSUME NEW c \in Ends, CleanupDelete(c) PROVE Wins
  BY <1>24 DEF CleanupDelete
<1> QED
  BY <1>1, <1>2, <1>3, <1>4, <1>5, <1>6, <1>7, <1>8, <1>9, <1>10, <1>11, <1>12, <1>13, <1>14,
     <1>15, <1>16, <1>17, <1>18, <1>19, <1>20, <1>21, <1>22, <1>23, <1>24, WakesFor
  DEF JobsNext, StartCall, Monitor, Cleanup

\* The first request decides how a job that is stopped or cancelled ends.
THEOREM FirstCorrect == ASSUME ExecAssumption PROVE JobsSpec => FirstRequestWins
<1>1. IInv /\ [JobsNext]_jobsVars =>
        \A j \in Jobs : job[j].stop # "none" => job'[j].stop \in {job[j].stop, "none"}
  BY FirstWins DEF IInv, jobsVars
<1>2. IInv /\ [JobsNext]_jobsVars =>
        \A j \in Jobs : mon'[j].status \in {"stopped", "cancelled"} =>
          mon'[j].status \in {job[j].stop, mon[j].status}
  BY FirstWins DEF IInv, jobsVars
<1> QED BY <1>1, <1>2, JobsInvCorrect, PTL DEF JobsSpec, FirstRequestWins

=============================================================================
