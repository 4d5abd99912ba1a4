-------------------------- MODULE McpServerProofs ---------------------------
(***************************************************************************)
(* Proofs about McpServer, for any number of operations and configurations *)
(* that differ: no client is left behind, the client that calls go to is   *)
(* usable once the operations have ended, and the tools and the state that *)
(* are shown are its own.                                                  *)
(***************************************************************************)
EXTENDS McpServer, SequenceTheorems, FiniteSetTheorems, TLAPS

-----------------------------------------------------------------------------
(* The values of the variables.                                            *)

\* The states that are shown.
States == {"gone", "disabled", "starting", "active", "error"}

\* Where an operation can be.
PCs == {"none", "done", "notify", "async", "reload", "begin", "connect", "publish",
        "sync", "synced", "unsynced", "offsync", "off", "offfailed"}

\* What is known of an operation.
Records ==
  [pc : PCs, then : {"done", "async", "reload", "begin"}, config : BOOLEAN,
   ver : Versions \cup {None}, gen : Nat, got : BOOLEAN, old : Starts \cup {None},
   prev : [cfg : Configs, state : States, failed : BOOLEAN]]

\* What the properties except.
Histories ==
  [crossed : BOOLEAN, entangled : BOOLEAN, forgotten : BOOLEAN, unlisted : BOOLEAN,
   dropped : SUBSET (Starts \cup {None})]

\* The type of the operations.
OpIs == op \in [Starts -> Records]

\* The type of the history.
HistoryIs == history \in Histories

\* A notification.
Notice == [op : Ops, state : States]

\* The types of the notifications.
NotesIs == notes \in Seq(Notice) /\ queue \in Seq(States)

\* The type invariant, of all variables.
Types ==
  /\ cfg \in Configs /\ client \in Starts \cup {None} /\ failed \in BOOLEAN /\ gen \in Nat
  /\ state \in States /\ cancel \in Ops \cup {None}
  /\ started \in BOOLEAN /\ closed \in BOOLEAN /\ wake \in BOOLEAN
  /\ open \in SUBSET Starts /\ waiters \in SUBSET Ops /\ reloading \in SUBSET Ops
  /\ catalog \in Starts \cup {None} /\ view \in States
  /\ OpIs /\ HistoryIs /\ NotesIs

-----------------------------------------------------------------------------
(* What each action changes, field by field.                               *)

\* The state that new configurations show (SetConfig).
Shown(new) ==
  IF new = Absent THEN "gone" ELSE IF ~new.enabled THEN "disabled"
    ELSE IF KeepsClient(new) THEN "active" ELSE "starting"

\* Operation o comes while another one cannot be told to stop (Entangling).
Entangles(o) == (Replacing \cup Removing \cup Announced) \ {o} # {}

\* A step of operation o changes no other operation.
Others(o) == \A p \in Starts : p # o => op'[p] = op[p]

\* A failed disabling is taken back (EnableAgain).
Reverts(o) == cfg # Absent /\ gen = op[o].gen /\ ~cfg.enabled

\* A configuration has a flag and a version; the absent one is not enabled.
LEMMA ConfigFacts ==
  /\ Absent \in Configs
  /\ \A c \in Configs : /\ c.enabled \in BOOLEAN /\ c.ver \in Versions \cup {None}
                        /\ c # Absent => c.ver \in Versions
                        /\ c.enabled => c # Absent
                        /\ \A b \in BOOLEAN : c # Absent =>
                             /\ [c EXCEPT !.enabled = b] \in Configs
                             /\ [c EXCEPT !.enabled = b] # Absent
                             /\ [c EXCEPT !.enabled = b].enabled = b
                             /\ [c EXCEPT !.enabled = b].ver = c.ver
<1>1. Absent \in Configs /\ Absent.enabled = FALSE /\ Absent.ver = None
  BY DEF Absent, Configs
<1>2. ASSUME NEW c \in Configs, c # Absent
      PROVE  /\ c.enabled \in BOOLEAN /\ c.ver \in Versions
             /\ \A b \in BOOLEAN : /\ [c EXCEPT !.enabled = b] \in Configs
                                  /\ [c EXCEPT !.enabled = b].enabled = b
                                  /\ [c EXCEPT !.enabled = b].ver = c.ver
  <2>1. c \in [ver : Versions, enabled : BOOLEAN]
    BY <1>2 DEF Configs
  <2> QED BY <2>1 DEF Configs
<1>3. \A c \in Configs : c.ver \in Versions => c # Absent
  BY <1>1, McpAssumption
<1>4. ASSUME NEW c \in Configs, c # Absent, NEW b \in BOOLEAN
      PROVE  [c EXCEPT !.enabled = b] # Absent
  <2>1. [c EXCEPT !.enabled = b] \in Configs /\ [c EXCEPT !.enabled = b].ver \in Versions
    BY <1>2, <1>4
  <2> QED BY <1>3, <2>1
<1>5. \A c \in Configs :
       c.enabled \in BOOLEAN /\ c.ver \in Versions \cup {None} /\ (c # Absent => c.ver \in Versions)
  BY <1>1, <1>2
<1>6. \A c \in Configs : c.enabled => c # Absent
  BY <1>1
<1>7. \A c \in Configs : c # Absent => \A b \in BOOLEAN :
        /\ [c EXCEPT !.enabled = b] \in Configs /\ [c EXCEPT !.enabled = b] # Absent
        /\ [c EXCEPT !.enabled = b].enabled = b /\ [c EXCEPT !.enabled = b].ver = c.ver
  BY <1>2, <1>4
<1> QED BY <1>1, <1>5, <1>6, <1>7

\* An operation that has not begun.
LEMMA NoOpType == NoOp \in Records
BY McpAssumption DEF NoOp, Records, PCs, States, Configs, Absent, Starts

\* Set changes one operation.
LEMMA SetFacts ==
  ASSUME Types, NEW o \in Ops, NEW r \in Records, Set(o, r)
  PROVE  OpIs' /\ Others(o) /\ op'[o] = r
BY DEF Types, OpIs, Set, Others, Starts

\* What SetConfig changes.
LEMMA SetConfigFacts ==
  ASSUME Types, NEW o \in Ops, NEW new \in Configs, SetConfig(o, new)
  PROVE  /\ OpIs' /\ Others(o)
         /\ op'[o].pc = (IF new = Absent THEN "reload" ELSE "notify")
         /\ op'[o].then = (IF Shown(new) = "starting" /\ started THEN "async" ELSE "reload")
         /\ op'[o].config = TRUE /\ op'[o].ver = new.ver /\ op'[o].gen = 0 /\ op'[o].got = FALSE
         /\ op'[o].old = None
         /\ op[o].pc = "none"
         /\ cancel' = None /\ cfg' = new /\ state' = Shown(new)
         /\ failed' = (failed /\ new.enabled)
         /\ gen' = IF new = Absent THEN 0 ELSE IF cancel # None THEN gen + 1 ELSE gen
         /\ client' = IF KeepsClient(new) THEN client ELSE None
         /\ open' = IF KeepsClient(new) THEN open ELSE open \ {client}
         /\ started' = started /\ closed' = closed /\ waiters' = waiters
         /\ reloading' = reloading /\ catalog' = catalog /\ queue' = queue /\ wake' = wake
         /\ view' = view
         /\ IF new = Absent THEN notes' = notes ELSE Told(o, Shown(new))
         /\ history'.crossed = history.crossed /\ history'.unlisted = history.unlisted
         /\ history'.entangled = IF KeepsClient(new) THEN history.entangled
                                   ELSE (history.entangled \/ Entangles(o))
         /\ history'.forgotten =
              (history.forgotten \/ (new = Absent /\ Busy # {}) \/ Unregistered # {})
         /\ history'.dropped = IF KeepsClient(new) /\ cancel = None THEN history.dropped
                                 ELSE history.dropped \cup {op[r].old : r \in Replacing}
<1>1. op[o] \in Records
  BY DEF Types, OpIs, Starts
<1> DEFINE after == [NoOp EXCEPT !.config = TRUE, !.ver = new.ver,
                       !.pc = IF new = Absent THEN "reload" ELSE "notify",
                       !.then = IF Shown(new) = "starting" /\ started THEN "async" ELSE "reload"]
<1>2. /\ {"none", "done", "notify", "async", "reload", "begin", "connect", "publish",
          "offfailed", "unsynced"} \subseteq PCs
      /\ new.ver \in Versions \cup {None}
  BY DEF PCs, Configs, Absent
<1>3. after \in Records
  BY <1>1, <1>2, NoOpType DEF Records
<1>4. Set(o, after)
  BY DEF SetConfig, KeepsClient, Shown
<1>5. OpIs' /\ Others(o) /\ op'[o] = after
  <2> HIDE DEF after
  <2> QED BY <1>3, <1>4, SetFacts
<1>6. /\ op'[o].pc = (IF new = Absent THEN "reload" ELSE "notify")
      /\ op'[o].then = (IF Shown(new) = "starting" /\ started THEN "async" ELSE "reload")
      /\ op'[o].config = TRUE /\ op'[o].ver = new.ver /\ op'[o].gen = 0 /\ op'[o].got = FALSE
      /\ op'[o].old = None
  BY <1>1, <1>3, <1>5 DEF Records, NoOp
<1>7. /\ op[o].pc = "none"
      /\ cancel' = None /\ cfg' = new /\ state' = Shown(new)
      /\ failed' = (failed /\ new.enabled)
      /\ gen' = IF new = Absent THEN 0 ELSE IF cancel # None THEN gen + 1 ELSE gen
      /\ client' = IF KeepsClient(new) THEN client ELSE None
      /\ open' = IF KeepsClient(new) THEN open ELSE open \ {client}
      /\ started' = started /\ closed' = closed /\ waiters' = waiters
      /\ reloading' = reloading /\ catalog' = catalog /\ queue' = queue /\ wake' = wake
      /\ view' = view
  BY DEF SetConfig, At, KeepsClient, Shown, Told, server, lists, daemon
<1>8. /\ IF new = Absent THEN notes' = notes ELSE Told(o, Shown(new))
      /\ history'.crossed = history.crossed /\ history'.unlisted = history.unlisted
      /\ history'.entangled = IF KeepsClient(new) THEN history.entangled
                                ELSE (history.entangled \/ Entangles(o))
      /\ history'.forgotten =
           (history.forgotten \/ (new = Absent /\ Busy # {}) \/ Unregistered # {})
      /\ history'.dropped = IF KeepsClient(new) /\ cancel = None THEN history.dropped
                              ELSE history.dropped \cup {op[r].old : r \in Replacing}
  BY DEF SetConfig, At, KeepsClient, Shown, Told, server, lists, daemon, Entangling, Dropping,
     Entangles, Types, HistoryIs, Histories
<1> QED BY <1>5, <1>6, <1>7, <1>8

\* What Boot changes.
LEMMA BootFacts ==
  ASSUME Types, NEW o \in Ops, Boot(o)
  PROVE  /\ OpIs' /\ Others(o)
         /\ op'[o].pc = (IF cfg.enabled THEN "async" ELSE "done") /\ op'[o].then = "done"
         /\ op'[o].config = FALSE /\ op'[o].ver = cfg.ver /\ op'[o].gen = 0
         /\ op'[o].got = FALSE /\ op'[o].old = None
         /\ op[o].pc = "none" /\ ~started /\ ~closed
         /\ started' = TRUE
         /\ cfg' = cfg /\ client' = client /\ state' = state /\ failed' = failed /\ gen' = gen
         /\ cancel' = cancel /\ closed' = closed /\ open' = open /\ waiters' = waiters
         /\ reloading' = reloading /\ catalog' = catalog /\ notes' = notes /\ queue' = queue
         /\ wake' = wake /\ view' = view
         /\ history' = history
<1>1. op[o] \in Records
  BY DEF Types, OpIs, Starts
<1> DEFINE after == [NoOp EXCEPT !.pc = IF cfg.enabled THEN "async" ELSE "done", !.ver = cfg.ver]
<1>2. /\ {"none", "done", "notify", "async", "reload", "begin", "connect", "publish",
          "offfailed", "unsynced"} \subseteq PCs
      /\ cfg.ver \in Versions \cup {None} /\ gen + 1 \in Nat
  BY DEF PCs, Types, OpIs, Configs, Absent
<1>3. after \in Records
  BY <1>1, <1>2, NoOpType DEF Records
<1>4. Set(o, after)
  BY DEF Boot
<1>5. OpIs' /\ Others(o) /\ op'[o] = after
  <2> HIDE DEF after
  <2> QED BY <1>3, <1>4, SetFacts
<1>6. /\ op'[o].pc = (IF cfg.enabled THEN "async" ELSE "done") /\ op'[o].then = "done"
      /\ op'[o].config = FALSE /\ op'[o].ver = cfg.ver /\ op'[o].gen = 0
      /\ op'[o].got = FALSE /\ op'[o].old = None
  BY <1>1, <1>3, <1>5 DEF Records, NoOp
<1>7. /\ op[o].pc = "none" /\ ~started /\ ~closed
      /\ started' = TRUE
      /\ cfg' = cfg /\ client' = client /\ state' = state /\ failed' = failed /\ gen' = gen
      /\ cancel' = cancel /\ closed' = closed /\ open' = open /\ waiters' = waiters
      /\ reloading' = reloading /\ catalog' = catalog /\ notes' = notes /\ queue' = queue
      /\ wake' = wake /\ view' = view
  BY DEF Boot, At, server, lists, daemon
<1>8. /\ history' = history
  BY DEF Boot, At, server, lists, daemon
<1> QED BY <1>5, <1>6, <1>7, <1>8

\* What a start in the background leaves behind.
SetsOff(o) ==
  /\ closed =>
       op'[o].pc = (IF op[o].config THEN "reload" ELSE "done") /\ op'[o].then = op[o].then
  /\ ~closed => op'[o].pc = "notify" /\ op'[o].then = "begin"
  /\ op'[o].gen = (IF closed THEN op[o].gen ELSE gen + 1)
  /\ closed =>
       state' = state /\ failed' = failed /\ gen' = gen /\ cancel' = cancel /\ notes' = notes
  /\ ~closed => /\ gen' = gen + 1 /\ cancel' = None /\ state' = "starting" /\ failed' = FALSE
             /\ Told(o, "starting")

\* What StartAsync changes.
LEMMA StartAsyncFacts ==
  ASSUME Types, NEW o \in Ops, StartAsync(o)
  PROVE  /\ OpIs' /\ Others(o)
         /\ closed =>
              op'[o].pc = (IF op[o].config THEN "reload" ELSE "done") /\ op'[o].then = op[o].then
         /\ ~closed => op'[o].pc = "notify" /\ op'[o].then = "begin"
         /\ op'[o].config = op[o].config /\ op'[o].ver = op[o].ver /\ op'[o].got = op[o].got
         /\ op'[o].gen = (IF closed THEN op[o].gen ELSE gen + 1) /\ op'[o].old = op[o].old
         /\ op'[o].prev = op[o].prev
         /\ op[o].pc = "async"
         /\ cfg' = cfg /\ client' = client /\ started' = started /\ closed' = closed
         /\ open' = open /\ waiters' = waiters /\ reloading' = reloading /\ catalog' = catalog
         /\ queue' = queue /\ wake' = wake /\ view' = view
         /\ closed =>
              state' = state /\ failed' = failed /\ gen' = gen /\ cancel' = cancel /\ notes' = notes
         /\ ~closed => /\ gen' = gen + 1 /\ cancel' = None /\ state' = "starting" /\ failed' = FALSE
                    /\ Told(o, "starting")
         /\ history'.crossed = history.crossed
         /\ history'.entangled = (history.entangled \/ Entangles(o))
         /\ history'.forgotten = history.forgotten /\ history'.unlisted = history.unlisted
         /\ history'.dropped = history.dropped \cup {op[r].old : r \in Replacing}
<1>1. op[o] \in Records
  BY DEF Types, OpIs, Starts
<1> DEFINE after == IF closed THEN [op[o] EXCEPT !.pc = IF op[o].config THEN "reload" ELSE "done"]
                    ELSE [[op[o] EXCEPT !.pc = "notify", !.then = "begin"] EXCEPT !.gen = gen + 1]
<1>2. /\ {"none", "done", "notify", "async", "reload", "begin", "connect", "publish",
          "offfailed", "unsynced"} \subseteq PCs
      /\ cfg.ver \in Versions \cup {None} /\ gen + 1 \in Nat
  BY DEF PCs, Types, OpIs, Configs, Absent
<1>3. after \in Records
  BY <1>1, <1>2, NoOpType DEF Records
<1>4. Set(o, after)
  BY DEF StartAsync, Go, NextGen
<1>5. OpIs' /\ Others(o) /\ op'[o] = after
  <2> HIDE DEF after
  <2> QED BY <1>3, <1>4, SetFacts
<1>6. /\ closed =>
           op'[o].pc = (IF op[o].config THEN "reload" ELSE "done") /\ op'[o].then = op[o].then
      /\ ~closed => op'[o].pc = "notify" /\ op'[o].then = "begin"
      /\ op'[o].config = op[o].config /\ op'[o].ver = op[o].ver /\ op'[o].got = op[o].got
      /\ op'[o].gen = (IF closed THEN op[o].gen ELSE gen + 1) /\ op'[o].old = op[o].old
      /\ op'[o].prev = op[o].prev
  BY <1>1, <1>3, <1>5 DEF Records, NoOp
<1>7. /\ op[o].pc = "async"
      /\ cfg' = cfg /\ client' = client /\ started' = started /\ closed' = closed
      /\ open' = open /\ waiters' = waiters /\ reloading' = reloading /\ catalog' = catalog
      /\ queue' = queue /\ wake' = wake /\ view' = view
  BY DEF StartAsync, At, NextGen, server, lists, daemon
<1>8. /\ closed =>
           state' = state /\ failed' = failed /\ gen' = gen /\ cancel' = cancel /\ notes' = notes
      /\ ~closed => /\ gen' = gen + 1 /\ cancel' = None /\ state' = "starting" /\ failed' = FALSE
                 /\ Told(o, "starting")
      /\ history'.crossed = history.crossed
      /\ history'.entangled = (history.entangled \/ Entangles(o))
      /\ history'.forgotten = history.forgotten /\ history'.unlisted = history.unlisted
      /\ history'.dropped = history.dropped \cup {op[r].old : r \in Replacing}
  BY DEF StartAsync, At, NextGen, server, lists, daemon, Entangling, Dropping, Entangles, Types,
     HistoryIs, Histories
<1> QED BY <1>5, <1>6, <1>7, <1>8

\* What Reload changes.
LEMMA ReloadFacts ==
  ASSUME Types, NEW o \in Ops, Reload(o)
  PROVE  /\ OpIs' /\ Others(o)
         /\ op'[o].then = op[o].then /\ op'[o].config = op[o].config /\ op'[o].ver = op[o].ver
         /\ op'[o].gen = op[o].gen /\ op'[o].got = op[o].got /\ op'[o].old = op[o].old
         /\ op'[o].prev = op[o].prev
         /\ \/ op[o].pc = "reload" /\ op'[o].pc = "done" /\ reloading' = reloading
            \/ o \in reloading /\ op'[o].pc = op[o].pc /\ reloading' = reloading \ {o}
         /\ cfg' = cfg /\ client' = client /\ state' = state /\ failed' = failed /\ gen' = gen
         /\ cancel' = cancel /\ started' = started /\ closed' = closed /\ open' = open
         /\ waiters' = waiters /\ notes' = notes /\ queue' = queue /\ wake' = wake
         /\ view' = view
         /\ \/ /\ catalog' = client
               /\ history'.unlisted = (history.unlisted \/ Replacing \cup Removing # {})
            \/ catalog' = catalog /\ history'.unlisted = TRUE
         /\ history'.crossed = history.crossed /\ history'.entangled = history.entangled
         /\ history'.forgotten = history.forgotten /\ history'.dropped = history.dropped
<1>1. op[o] \in Records
  BY DEF Types, OpIs, Starts
<1>2. ASSUME At(o, "reload"), Go(o, "done"), reloading' = reloading
      PROVE   /\ OpIs' /\ Others(o)
              /\ op'[o].then = op[o].then /\ op'[o].config = op[o].config /\ op'[o].ver = op[o].ver
              /\ op'[o].gen = op[o].gen /\ op'[o].got = op[o].got /\ op'[o].old = op[o].old
              /\ op'[o].prev = op[o].prev
              /\ \/ op[o].pc = "reload" /\ op'[o].pc = "done" /\ reloading' = reloading
                 \/ o \in reloading /\ op'[o].pc = op[o].pc /\ reloading' = reloading \ {o}
  <2> DEFINE after == [op[o] EXCEPT !.pc = "done"]
  <2>1. after \in Records
    BY <1>1 DEF Records, PCs
  <2>2. Set(o, after)
    BY <1>2 DEF Go
  <2>3. OpIs' /\ Others(o) /\ op'[o] = after
    <3> HIDE DEF after
    <3> QED BY <2>1, <2>2, SetFacts
  <2> QED BY <1>1, <1>2, <2>1, <2>3 DEF Records, At
<1>3. ASSUME o \in reloading, reloading' = reloading \ {o}, op' = op
      PROVE   /\ OpIs' /\ Others(o)
              /\ op'[o].then = op[o].then /\ op'[o].config = op[o].config /\ op'[o].ver = op[o].ver
              /\ op'[o].gen = op[o].gen /\ op'[o].got = op[o].got /\ op'[o].old = op[o].old
              /\ op'[o].prev = op[o].prev
              /\ \/ op[o].pc = "reload" /\ op'[o].pc = "done" /\ reloading' = reloading
                 \/ o \in reloading /\ op'[o].pc = op[o].pc /\ reloading' = reloading \ {o}
  BY <1>1, <1>3 DEF Others, Types, OpIs
<1>4. (At(o, "reload") /\ Go(o, "done") /\ reloading' = reloading)
        \/ (o \in reloading /\ reloading' = reloading \ {o} /\ op' = op)
  BY DEF Reload
<1>5. /\ OpIs' /\ Others(o)
      /\ op'[o].then = op[o].then /\ op'[o].config = op[o].config /\ op'[o].ver = op[o].ver
      /\ op'[o].gen = op[o].gen /\ op'[o].got = op[o].got /\ op'[o].old = op[o].old
      /\ op'[o].prev = op[o].prev
      /\ \/ op[o].pc = "reload" /\ op'[o].pc = "done" /\ reloading' = reloading
         \/ o \in reloading /\ op'[o].pc = op[o].pc /\ reloading' = reloading \ {o}
  BY <1>2, <1>3, <1>4
<1>6. /\ cfg' = cfg /\ client' = client /\ state' = state /\ failed' = failed /\ gen' = gen
      /\ cancel' = cancel /\ started' = started /\ closed' = closed /\ open' = open
      /\ waiters' = waiters /\ notes' = notes /\ queue' = queue /\ wake' = wake
      /\ view' = view
  BY DEF Reload, At, server, lists, daemon
<1>7. /\ \/ /\ catalog' = client
            /\ history'.unlisted = (history.unlisted \/ Replacing \cup Removing # {})
         \/ catalog' = catalog /\ history'.unlisted = TRUE
      /\ history'.crossed = history.crossed /\ history'.entangled = history.entangled
      /\ history'.forgotten = history.forgotten /\ history'.dropped = history.dropped
  BY DEF Reload, At, server, lists, daemon, Types, HistoryIs, Histories
<1> QED BY <1>5, <1>6, <1>7

\* What Restart changes.
LEMMA RestartFacts ==
  ASSUME Types, NEW o \in Ops, NEW enable \in BOOLEAN, Restart(o, enable)
  PROVE  /\ OpIs' /\ Others(o)
         /\ op'[o].pc = "notify" /\ op'[o].then = "begin" /\ op'[o].config = FALSE
         /\ op'[o].ver = cfg.ver /\ op'[o].gen = gen + 1 /\ op'[o].got = FALSE
         /\ op'[o].old = None
         /\ op[o].pc = "none" /\ ~closed /\ cfg # Absent /\ (enable \/ client # None)
         /\ gen' = gen + 1 /\ cancel' = None /\ state' = "starting" /\ failed' = FALSE
         /\ client' = client /\ started' = started /\ closed' = closed /\ open' = open
         /\ waiters' = waiters /\ reloading' = reloading /\ catalog' = catalog /\ queue' = queue
         /\ wake' = wake /\ view' = view
         /\ cfg'.ver = cfg.ver /\ cfg'.enabled = (enable \/ cfg.enabled) /\ cfg' \in Configs
         /\ cfg' # Absent
         /\ Told(o, "starting")
         /\ history'.crossed = history.crossed
         /\ history'.entangled = (history.entangled \/ Entangles(o))
         /\ history'.forgotten = history.forgotten /\ history'.unlisted = history.unlisted
         /\ history'.dropped = history.dropped \cup {op[r].old : r \in Replacing}
<1>1. op[o] \in Records
  BY DEF Types, OpIs, Starts
<1> DEFINE after == [[NoOp EXCEPT !.pc = "notify", !.then = "begin", !.ver = cfg.ver]
                       EXCEPT !.gen = gen + 1]
<1>2. /\ {"none", "done", "notify", "async", "reload", "begin", "connect", "publish",
          "offfailed", "unsynced"} \subseteq PCs
      /\ cfg.ver \in Versions \cup {None} /\ gen + 1 \in Nat
  BY DEF PCs, Types, OpIs, Configs, Absent
<1>3. after \in Records
  BY <1>1, <1>2, NoOpType DEF Records
<1>4. Set(o, after)
  BY DEF Restart, NextGen
<1>5. OpIs' /\ Others(o) /\ op'[o] = after
  <2> HIDE DEF after
  <2> QED BY <1>3, <1>4, SetFacts
<1>6. /\ op'[o].pc = "notify" /\ op'[o].then = "begin" /\ op'[o].config = FALSE
      /\ op'[o].ver = cfg.ver /\ op'[o].gen = gen + 1 /\ op'[o].got = FALSE
      /\ op'[o].old = None
  BY <1>1, <1>3, <1>5 DEF Records, NoOp
<1>7. /\ op[o].pc = "none" /\ ~closed /\ cfg # Absent /\ (enable \/ client # None)
      /\ gen' = gen + 1 /\ cancel' = None /\ state' = "starting" /\ failed' = FALSE
      /\ client' = client /\ started' = started /\ closed' = closed /\ open' = open
      /\ waiters' = waiters /\ reloading' = reloading /\ catalog' = catalog /\ queue' = queue
      /\ wake' = wake /\ view' = view
  BY DEF Restart, At, NextGen, server, lists, daemon
<1>8. /\ cfg'.ver = cfg.ver /\ cfg'.enabled = (enable \/ cfg.enabled) /\ cfg' \in Configs
      /\ cfg' # Absent
      /\ Told(o, "starting")
      /\ history'.crossed = history.crossed
      /\ history'.entangled = (history.entangled \/ Entangles(o))
      /\ history'.forgotten = history.forgotten /\ history'.unlisted = history.unlisted
      /\ history'.dropped = history.dropped \cup {op[r].old : r \in Replacing}
  BY ConfigFacts DEF Restart, At, NextGen, server, lists, daemon, Entangling, Dropping, Entangles,
     Types, HistoryIs, Histories
<1> QED BY <1>5, <1>6, <1>7, <1>8

\* What Disable changes.
LEMMA DisableFacts ==
  ASSUME Types, NEW o \in Ops, Disable(o)
  PROVE  /\ OpIs' /\ Others(o)
         /\ op'[o].pc = "offsync" /\ op'[o].then = "done" /\ op'[o].config = FALSE
         /\ op'[o].ver = None /\ op'[o].gen = gen + 1 /\ op'[o].got = FALSE
         /\ op'[o].old = client
         /\ op'[o].prev.cfg = cfg /\ op'[o].prev.state = state /\ op'[o].prev.failed = failed
         /\ op[o].pc = "none" /\ ~closed /\ cfg # Absent
         /\ gen' = gen + 1 /\ cancel' = None /\ client' = None /\ failed' = FALSE
         /\ state' = "disabled" /\ waiters' = waiters \cup {o}
         /\ started' = started /\ closed' = closed /\ open' = open /\ reloading' = reloading
         /\ catalog' = catalog /\ notes' = notes /\ queue' = queue /\ wake' = wake
         /\ view' = view
         /\ cfg'.ver = cfg.ver /\ cfg'.enabled = FALSE /\ cfg' \in Configs /\ cfg' # Absent
         /\ history'.crossed = history.crossed
         /\ history'.entangled = (history.entangled \/ Entangles(o))
         /\ history'.forgotten = history.forgotten /\ history'.unlisted = history.unlisted
         /\ history'.dropped = history.dropped \cup {op[r].old : r \in Replacing}
<1>1. op[o] \in Records
  BY DEF Types, OpIs, Starts
<1> DEFINE after == [[NoOp EXCEPT !.pc = "offsync", !.old = client,
                       !.prev = [cfg |-> cfg, state |-> state, failed |-> failed]]
                       EXCEPT !.gen = gen + 1]
<1>2. /\ gen + 1 \in Nat /\ cfg \in Configs /\ state \in States /\ failed \in BOOLEAN
      /\ client \in Starts \cup {None} /\ "offsync" \in PCs
  BY DEF Types, OpIs, PCs
<1>3. after \in Records
  BY <1>1, <1>2, NoOpType DEF Records
<1>4. Set(o, after)
  BY DEF Disable, NextGen
<1>5. OpIs' /\ Others(o) /\ op'[o] = after
  <2> HIDE DEF after
  <2> QED BY <1>3, <1>4, SetFacts
<1>6. /\ op'[o].pc = "offsync" /\ op'[o].then = "done" /\ op'[o].config = FALSE
      /\ op'[o].ver = None /\ op'[o].gen = gen + 1 /\ op'[o].got = FALSE
      /\ op'[o].old = client
      /\ op'[o].prev.cfg = cfg /\ op'[o].prev.state = state /\ op'[o].prev.failed = failed
  BY <1>1, <1>3, <1>5 DEF Records, NoOp
<1>7. /\ op[o].pc = "none" /\ ~closed /\ cfg # Absent
      /\ gen' = gen + 1 /\ cancel' = None /\ client' = None /\ failed' = FALSE
      /\ state' = "disabled" /\ waiters' = waiters \cup {o}
      /\ started' = started /\ closed' = closed /\ open' = open /\ reloading' = reloading
      /\ catalog' = catalog /\ notes' = notes /\ queue' = queue /\ wake' = wake
      /\ view' = view
  BY DEF Disable, At, NextGen, server, lists, daemon
<1>8. /\ cfg'.ver = cfg.ver /\ cfg'.enabled = FALSE /\ cfg' \in Configs /\ cfg' # Absent
      /\ history'.crossed = history.crossed
      /\ history'.entangled = (history.entangled \/ Entangles(o))
      /\ history'.forgotten = history.forgotten /\ history'.unlisted = history.unlisted
      /\ history'.dropped = history.dropped \cup {op[r].old : r \in Replacing}
  BY ConfigFacts DEF Disable, At, NextGen, server, lists, daemon, Entangling, Dropping, Entangles,
     Types, HistoryIs, Histories
<1> QED BY <1>5, <1>6, <1>7, <1>8

\* What Disabled changes.
LEMMA DisabledFacts ==
  ASSUME Types, NEW o \in Ops, Disabled(o)
  PROVE  /\ OpIs' /\ Others(o)
         /\ op'[o].pc = "notify" /\ op'[o].then = "done" /\ op'[o].config = op[o].config
         /\ op'[o].ver = op[o].ver /\ op'[o].gen = op[o].gen /\ op'[o].got = op[o].got
         /\ op'[o].old = op[o].old /\ op'[o].prev = op[o].prev
         /\ op[o].pc = "off"
         /\ open' = open \ {op[o].old}
         /\ cfg' = cfg /\ client' = client /\ state' = state /\ failed' = failed /\ gen' = gen
         /\ cancel' = cancel /\ started' = started /\ closed' = closed /\ waiters' = waiters
         /\ reloading' = reloading /\ catalog' = catalog /\ queue' = queue /\ wake' = wake
         /\ view' = view
         /\ Told(o, state)
         /\ history' = history
<1>1. op[o] \in Records
  BY DEF Types, OpIs, Starts
<1> DEFINE after == [op[o] EXCEPT !.pc = "notify", !.then = "done"]
<1>2. {"none", "done", "notify", "async", "reload", "begin", "connect", "publish",
       "offfailed", "unsynced"} \subseteq PCs
  BY DEF PCs
<1>3. after \in Records
  BY <1>1, <1>2, NoOpType DEF Records
<1>4. Set(o, after)
  BY DEF Disabled
<1>5. OpIs' /\ Others(o) /\ op'[o] = after
  <2> HIDE DEF after
  <2> QED BY <1>3, <1>4, SetFacts
<1>6. /\ op'[o].pc = "notify" /\ op'[o].then = "done" /\ op'[o].config = op[o].config
      /\ op'[o].ver = op[o].ver /\ op'[o].gen = op[o].gen /\ op'[o].got = op[o].got
      /\ op'[o].old = op[o].old /\ op'[o].prev = op[o].prev
  BY <1>1, <1>3, <1>5 DEF Records, NoOp
<1>7. /\ op[o].pc = "off"
      /\ open' = open \ {op[o].old}
      /\ cfg' = cfg /\ client' = client /\ state' = state /\ failed' = failed /\ gen' = gen
      /\ cancel' = cancel /\ started' = started /\ closed' = closed /\ waiters' = waiters
      /\ reloading' = reloading /\ catalog' = catalog /\ queue' = queue /\ wake' = wake
      /\ view' = view
  BY DEF Disabled, At, server, lists, daemon
<1>8. /\ Told(o, state)
      /\ history' = history
  BY DEF Disabled, At, server, lists, daemon
<1> QED BY <1>5, <1>6, <1>7, <1>8

\* What the operation that takes its removal back leaves behind.
TakenBack(o) ==
  /\ Reverts(o) =>
       /\ cfg' = op[o].prev.cfg /\ state' = op[o].prev.state
       /\ client' = (IF op[o].old # None THEN op[o].old ELSE client)
       /\ failed' = (op[o].prev.failed \/ failed)
       /\ history'.entangled = (history.entangled \/ state' = "starting")
       /\ history'.dropped = history.dropped
  /\ ~Reverts(o) =>
       /\ cfg' = cfg /\ state' = state /\ client' = client /\ failed' = failed
       /\ history'.entangled = history.entangled
       /\ history'.dropped = history.dropped \cup {op[o].old}

\* What EnableAgain changes.
LEMMA EnableAgainFacts ==
  ASSUME Types, NEW o \in Ops, EnableAgain(o)
  PROVE  /\ OpIs' /\ Others(o)
         /\ op'[o].pc = "done" /\ op'[o].then = op[o].then /\ op'[o].config = op[o].config
         /\ op'[o].ver = op[o].ver /\ op'[o].gen = op[o].gen /\ op'[o].got = op[o].got
         /\ op'[o].old = op[o].old /\ op'[o].prev = op[o].prev
         /\ op[o].pc = "offfailed"
         /\ gen' = gen /\ cancel' = cancel /\ started' = started /\ closed' = closed
         /\ open' = open /\ waiters' = waiters /\ reloading' = reloading /\ catalog' = catalog
         /\ notes' = notes /\ queue' = queue /\ wake' = wake /\ view' = view
         /\ Reverts(o) =>
              /\ cfg' = op[o].prev.cfg /\ state' = op[o].prev.state
              /\ client' = (IF op[o].old # None THEN op[o].old ELSE client)
              /\ failed' = (op[o].prev.failed \/ failed)
              /\ history'.entangled = (history.entangled \/ state' = "starting")
              /\ history'.dropped = history.dropped
         /\ ~Reverts(o) =>
              /\ cfg' = cfg /\ state' = state /\ client' = client /\ failed' = failed
              /\ history'.entangled = history.entangled
              /\ history'.dropped = history.dropped \cup {op[o].old}
         /\ history'.crossed = history.crossed /\ history'.unlisted = history.unlisted
         /\ history'.forgotten = history.forgotten
<1>1. op[o] \in Records
  BY DEF Types, OpIs, Starts
<1> DEFINE after == [op[o] EXCEPT !.pc = "done"]
<1>2. {"none", "done", "notify", "async", "reload", "begin", "connect", "publish",
       "offfailed", "unsynced"} \subseteq PCs
  BY DEF PCs
<1>3. after \in Records
  BY <1>1, <1>2, NoOpType DEF Records
<1>4. Set(o, after)
  BY DEF EnableAgain, Go
<1>5. OpIs' /\ Others(o) /\ op'[o] = after
  <2> HIDE DEF after
  <2> QED BY <1>3, <1>4, SetFacts
<1>6. /\ op'[o].pc = "done" /\ op'[o].then = op[o].then /\ op'[o].config = op[o].config
      /\ op'[o].ver = op[o].ver /\ op'[o].gen = op[o].gen /\ op'[o].got = op[o].got
      /\ op'[o].old = op[o].old /\ op'[o].prev = op[o].prev
  BY <1>1, <1>3, <1>5 DEF Records, NoOp
<1>7. /\ op[o].pc = "offfailed"
      /\ gen' = gen /\ cancel' = cancel /\ started' = started /\ closed' = closed
      /\ open' = open /\ waiters' = waiters /\ reloading' = reloading /\ catalog' = catalog
      /\ notes' = notes /\ queue' = queue /\ wake' = wake /\ view' = view
  BY DEF EnableAgain, At, Reverts, server, lists, daemon
<1>8. /\ Reverts(o) =>
           /\ cfg' = op[o].prev.cfg /\ state' = op[o].prev.state
           /\ client' = (IF op[o].old # None THEN op[o].old ELSE client)
           /\ failed' = (op[o].prev.failed \/ failed)
           /\ history'.entangled = (history.entangled \/ state' = "starting")
           /\ history'.dropped = history.dropped
      /\ ~Reverts(o) =>
           /\ cfg' = cfg /\ state' = state /\ client' = client /\ failed' = failed
           /\ history'.entangled = history.entangled
           /\ history'.dropped = history.dropped \cup {op[o].old}
      /\ history'.crossed = history.crossed /\ history'.unlisted = history.unlisted
      /\ history'.forgotten = history.forgotten
  BY DEF EnableAgain, At, Reverts, server, lists, daemon, Types, HistoryIs, Histories
<1> QED BY <1>5, <1>6, <1>7, <1>8

\* What Begin changes.
LEMMA BeginFacts ==
  ASSUME Types, NEW o \in Ops, Begin(o)
  PROVE  /\ OpIs' /\ Others(o)
         /\ op'[o].pc = (IF closed \/ gen # op[o].gen THEN "done" ELSE "connect")
         /\ op'[o].then = op[o].then /\ op'[o].config = op[o].config /\ op'[o].ver = op[o].ver
         /\ op'[o].gen = op[o].gen /\ op'[o].got = op[o].got /\ op'[o].old = op[o].old
         /\ op'[o].prev = op[o].prev
         /\ op[o].pc = "begin"
         /\ cancel' = IF closed \/ gen # op[o].gen THEN cancel ELSE o
         /\ cfg' = cfg /\ client' = client /\ state' = state /\ failed' = failed /\ gen' = gen
         /\ started' = started /\ closed' = closed /\ open' = open /\ waiters' = waiters
         /\ reloading' = reloading /\ catalog' = catalog /\ notes' = notes /\ queue' = queue
         /\ wake' = wake /\ view' = view
         /\ history' = history
<1>1. op[o] \in Records
  BY DEF Types, OpIs, Starts
<1> DEFINE after == [op[o] EXCEPT !.pc = IF closed \/ gen # op[o].gen THEN "done" ELSE "connect"]
<1>2. {"none", "done", "notify", "async", "reload", "begin", "connect", "publish",
       "offfailed", "unsynced"} \subseteq PCs
  BY DEF PCs
<1>3. after \in Records
  BY <1>1, <1>2, NoOpType DEF Records
<1>4. Set(o, after)
  BY DEF Begin, Go
<1>5. OpIs' /\ Others(o) /\ op'[o] = after
  <2> HIDE DEF after
  <2> QED BY <1>3, <1>4, SetFacts
<1>6. /\ op'[o].pc = (IF closed \/ gen # op[o].gen THEN "done" ELSE "connect")
      /\ op'[o].then = op[o].then /\ op'[o].config = op[o].config /\ op'[o].ver = op[o].ver
      /\ op'[o].gen = op[o].gen /\ op'[o].got = op[o].got /\ op'[o].old = op[o].old
      /\ op'[o].prev = op[o].prev
  BY <1>1, <1>3, <1>5 DEF Records, NoOp
<1>7. /\ op[o].pc = "begin"
      /\ cancel' = IF closed \/ gen # op[o].gen THEN cancel ELSE o
      /\ cfg' = cfg /\ client' = client /\ state' = state /\ failed' = failed /\ gen' = gen
      /\ started' = started /\ closed' = closed /\ open' = open /\ waiters' = waiters
      /\ reloading' = reloading /\ catalog' = catalog /\ notes' = notes /\ queue' = queue
      /\ wake' = wake /\ view' = view
  BY DEF Begin, At, server, lists, daemon
<1>8. /\ history' = history
  BY DEF Begin, At, server, lists, daemon
<1> QED BY <1>5, <1>6, <1>7, <1>8

\* What Connect changes.
LEMMA ConnectFacts ==
  ASSUME Types, NEW o \in Ops, Connect(o)
  PROVE  /\ OpIs' /\ Others(o)
         /\ op'[o].pc = "publish" /\ op'[o].then = op[o].then /\ op'[o].config = op[o].config
         /\ op'[o].ver = op[o].ver /\ op'[o].gen = op[o].gen /\ op'[o].old = op[o].old
         /\ op'[o].prev = op[o].prev
         /\ (op'[o].got = TRUE /\ open' = open \cup {o}) \/ (op'[o].got = op[o].got /\ open' = open)
         /\ op[o].pc = "connect"
         /\ cfg' = cfg /\ client' = client /\ state' = state /\ failed' = failed /\ gen' = gen
         /\ cancel' = cancel /\ started' = started /\ closed' = closed /\ waiters' = waiters
         /\ reloading' = reloading /\ catalog' = catalog /\ notes' = notes /\ queue' = queue
         /\ wake' = wake /\ view' = view
         /\ history' = history
<1>1. op[o] \in Records
  BY DEF Types, OpIs, Starts
<1>2. ASSUME NEW r \in Records, Set(o, r) PROVE OpIs' /\ Others(o) /\ op'[o] = r
  BY <1>2, SetFacts
<1>3. ASSUME Set(o, [op[o] EXCEPT !.pc = "publish", !.got = TRUE]), open' = open \cup {o}
      PROVE   /\ OpIs' /\ Others(o)
              /\ op'[o].pc = "publish" /\ op'[o].then = op[o].then /\ op'[o].config = op[o].config
              /\ op'[o].ver = op[o].ver /\ op'[o].gen = op[o].gen /\ op'[o].old = op[o].old
              /\ op'[o].prev = op[o].prev
              /\ \/ (op'[o].got = TRUE /\ open' = open \cup {o})
                 \/ (op'[o].got = op[o].got /\ open' = open)
  <2> DEFINE after == [op[o] EXCEPT !.pc = "publish", !.got = TRUE]
  <2>1. after \in Records
    BY <1>1 DEF Records, PCs
  <2>2. OpIs' /\ Others(o) /\ op'[o] = after
    <3> HIDE DEF after
    <3> QED BY <1>2, <1>3, <2>1 DEF after
  <2> QED BY <1>1, <1>3, <2>1, <2>2 DEF Records
<1>4. ASSUME Go(o, "publish"), open' = open
      PROVE   /\ OpIs' /\ Others(o)
              /\ op'[o].pc = "publish" /\ op'[o].then = op[o].then /\ op'[o].config = op[o].config
              /\ op'[o].ver = op[o].ver /\ op'[o].gen = op[o].gen /\ op'[o].old = op[o].old
              /\ op'[o].prev = op[o].prev
              /\ \/ (op'[o].got = TRUE /\ open' = open \cup {o})
                 \/ (op'[o].got = op[o].got /\ open' = open)
  <2> DEFINE after == [op[o] EXCEPT !.pc = "publish"]
  <2>1. after \in Records
    BY <1>1 DEF Records, PCs
  <2>2. OpIs' /\ Others(o) /\ op'[o] = after
    <3>1. Set(o, after)
      BY <1>4 DEF Go
    <3> HIDE DEF after
    <3> QED BY <1>2, <2>1, <3>1
  <2> QED BY <1>1, <1>4, <2>1, <2>2 DEF Records
<1>5. /\ OpIs' /\ Others(o)
      /\ op'[o].pc = "publish" /\ op'[o].then = op[o].then /\ op'[o].config = op[o].config
      /\ op'[o].ver = op[o].ver /\ op'[o].gen = op[o].gen /\ op'[o].old = op[o].old
      /\ op'[o].prev = op[o].prev
      /\ (op'[o].got = TRUE /\ open' = open \cup {o}) \/ (op'[o].got = op[o].got /\ open' = open)
  BY <1>3, <1>4 DEF Connect
<1>6. /\ op[o].pc = "connect"
      /\ cfg' = cfg /\ client' = client /\ state' = state /\ failed' = failed /\ gen' = gen
      /\ cancel' = cancel /\ started' = started /\ closed' = closed /\ waiters' = waiters
      /\ reloading' = reloading /\ catalog' = catalog /\ notes' = notes /\ queue' = queue
      /\ wake' = wake /\ view' = view
  BY DEF Connect, At, server, lists, daemon
<1>7. /\ history' = history
  BY DEF Connect, At, server, lists, daemon
<1> QED BY <1>5, <1>6, <1>7

\* What Outdated changes.
LEMMA OutdatedFacts ==
  ASSUME Types, NEW o \in Ops, Outdated(o)
  PROVE  /\ OpIs' /\ Others(o)
         /\ op'[o].pc = "done" /\ op'[o].then = op[o].then /\ op'[o].config = op[o].config
         /\ op'[o].ver = op[o].ver /\ op'[o].gen = op[o].gen /\ op'[o].got = op[o].got
         /\ op'[o].old = op[o].old /\ op'[o].prev = op[o].prev
         /\ op[o].pc = "publish" /\ ~Valid(o)
         /\ open' = open \ {o}
         /\ cancel' = IF gen = op[o].gen THEN None ELSE cancel
         /\ cfg' = cfg /\ client' = client /\ state' = state /\ failed' = failed /\ gen' = gen
         /\ started' = started /\ closed' = closed /\ waiters' = waiters
         /\ reloading' = reloading /\ catalog' = catalog /\ notes' = notes /\ queue' = queue
         /\ wake' = wake /\ view' = view
         /\ history' = history
<1>1. op[o] \in Records
  BY DEF Types, OpIs, Starts
<1> DEFINE after == [op[o] EXCEPT !.pc = "done"]
<1>2. {"none", "done", "notify", "async", "reload", "begin", "connect", "publish",
       "offfailed", "unsynced"} \subseteq PCs
  BY DEF PCs
<1>3. after \in Records
  BY <1>1, <1>2, NoOpType DEF Records
<1>4. Set(o, after)
  BY DEF Outdated, Go
<1>5. OpIs' /\ Others(o) /\ op'[o] = after
  <2> HIDE DEF after
  <2> QED BY <1>3, <1>4, SetFacts
<1>6. /\ op'[o].pc = "done" /\ op'[o].then = op[o].then /\ op'[o].config = op[o].config
      /\ op'[o].ver = op[o].ver /\ op'[o].gen = op[o].gen /\ op'[o].got = op[o].got
      /\ op'[o].old = op[o].old /\ op'[o].prev = op[o].prev
  BY <1>1, <1>3, <1>5 DEF Records, NoOp
<1>7. /\ op[o].pc = "publish" /\ ~Valid(o)
      /\ open' = open \ {o}
      /\ cancel' = IF gen = op[o].gen THEN None ELSE cancel
      /\ cfg' = cfg /\ client' = client /\ state' = state /\ failed' = failed /\ gen' = gen
      /\ started' = started /\ closed' = closed /\ waiters' = waiters
      /\ reloading' = reloading /\ catalog' = catalog /\ notes' = notes /\ queue' = queue
      /\ wake' = wake /\ view' = view
  BY DEF Outdated, At, Discarded, server, lists, daemon
<1>8. /\ history' = history
  BY DEF Outdated, At, Discarded, server, lists, daemon
<1> QED BY <1>5, <1>6, <1>7, <1>8

\* What ConnectFailed changes.
LEMMA ConnectFailedFacts ==
  ASSUME Types, NEW o \in Ops, ConnectFailed(o)
  PROVE  /\ OpIs' /\ Others(o)
         /\ op'[o].pc = "notify" /\ op'[o].then = "done" /\ op'[o].config = op[o].config
         /\ op'[o].ver = op[o].ver /\ op'[o].gen = op[o].gen /\ op'[o].got = op[o].got
         /\ op'[o].old = op[o].old /\ op'[o].prev = op[o].prev
         /\ op[o].pc = "publish" /\ Valid(o) /\ ~op[o].got
         /\ cancel' = None /\ failed' = TRUE
         /\ state' = IF client # None THEN "active" ELSE "error"
         /\ cfg' = cfg /\ client' = client /\ gen' = gen /\ started' = started
         /\ closed' = closed /\ open' = open /\ waiters' = waiters /\ reloading' = reloading
         /\ catalog' = catalog /\ queue' = queue /\ wake' = wake /\ view' = view
         /\ Told(o, state')
         /\ history' = history
<1>1. op[o] \in Records
  BY DEF Types, OpIs, Starts
<1> DEFINE after == [op[o] EXCEPT !.pc = "notify", !.then = "done"]
<1>2. {"none", "done", "notify", "async", "reload", "begin", "connect", "publish",
       "offfailed", "unsynced"} \subseteq PCs
  BY DEF PCs
<1>3. after \in Records
  BY <1>1, <1>2, NoOpType DEF Records
<1>4. Set(o, after)
  BY DEF ConnectFailed
<1>5. OpIs' /\ Others(o) /\ op'[o] = after
  <2> HIDE DEF after
  <2> QED BY <1>3, <1>4, SetFacts
<1>6. /\ op'[o].pc = "notify" /\ op'[o].then = "done" /\ op'[o].config = op[o].config
      /\ op'[o].ver = op[o].ver /\ op'[o].gen = op[o].gen /\ op'[o].got = op[o].got
      /\ op'[o].old = op[o].old /\ op'[o].prev = op[o].prev
  BY <1>1, <1>3, <1>5 DEF Records, NoOp
<1>7. /\ op[o].pc = "publish" /\ Valid(o) /\ ~op[o].got
      /\ cancel' = None /\ failed' = TRUE
      /\ state' = IF client # None THEN "active" ELSE "error"
      /\ cfg' = cfg /\ client' = client /\ gen' = gen /\ started' = started
      /\ closed' = closed /\ open' = open /\ waiters' = waiters /\ reloading' = reloading
      /\ catalog' = catalog /\ queue' = queue /\ wake' = wake /\ view' = view
  BY DEF ConnectFailed, At, server, lists, daemon
<1>8. /\ Told(o, state')
      /\ history' = history
  BY DEF ConnectFailed, At, server, lists, daemon
<1> QED BY <1>5, <1>6, <1>7, <1>8

\* What Publish changes.
LEMMA PublishFacts ==
  ASSUME Types, NEW o \in Ops, Publish(o)
  PROVE  /\ OpIs' /\ Others(o)
         /\ op'[o].pc = "sync" /\ op'[o].then = op[o].then /\ op'[o].config = op[o].config
         /\ op'[o].ver = op[o].ver /\ op'[o].gen = op[o].gen /\ op'[o].got = op[o].got
         /\ op'[o].old = client /\ op'[o].prev = op[o].prev
         /\ op[o].pc = "publish" /\ Valid(o) /\ op[o].got
         /\ cancel' = None /\ client' = o /\ state' = "starting" /\ failed' = FALSE
         /\ waiters' = waiters \cup {o}
         /\ cfg' = cfg /\ gen' = gen /\ started' = started /\ closed' = closed /\ open' = open
         /\ reloading' = reloading /\ catalog' = catalog /\ notes' = notes /\ queue' = queue
         /\ wake' = wake /\ view' = view
         /\ history'.crossed = history.crossed /\ history'.entangled = history.entangled
         /\ history'.forgotten = history.forgotten /\ history'.unlisted = history.unlisted
         /\ history'.dropped = history.dropped \cup {op[r].old : r \in Replacing}
<1>1. op[o] \in Records
  BY DEF Types, OpIs, Starts
<1> DEFINE after == [op[o] EXCEPT !.pc = "sync", !.old = client]
<1>2. client \in Starts \cup {None} /\ "sync" \in PCs
  BY DEF Types, OpIs, PCs
<1>3. after \in Records
  BY <1>1, <1>2, NoOpType DEF Records
<1>4. Set(o, after)
  BY DEF Publish
<1>5. OpIs' /\ Others(o) /\ op'[o] = after
  <2> HIDE DEF after
  <2> QED BY <1>3, <1>4, SetFacts
<1>6. /\ op'[o].pc = "sync" /\ op'[o].then = op[o].then /\ op'[o].config = op[o].config
      /\ op'[o].ver = op[o].ver /\ op'[o].gen = op[o].gen /\ op'[o].got = op[o].got
      /\ op'[o].old = client /\ op'[o].prev = op[o].prev
  BY <1>1, <1>3, <1>5 DEF Records, NoOp
<1>7. /\ op[o].pc = "publish" /\ Valid(o) /\ op[o].got
      /\ cancel' = None /\ client' = o /\ state' = "starting" /\ failed' = FALSE
      /\ waiters' = waiters \cup {o}
      /\ cfg' = cfg /\ gen' = gen /\ started' = started /\ closed' = closed /\ open' = open
      /\ reloading' = reloading /\ catalog' = catalog /\ notes' = notes /\ queue' = queue
      /\ wake' = wake /\ view' = view
  BY DEF Publish, At, server, lists, daemon
<1>8. /\ history'.crossed = history.crossed /\ history'.entangled = history.entangled
      /\ history'.forgotten = history.forgotten /\ history'.unlisted = history.unlisted
      /\ history'.dropped = history.dropped \cup {op[r].old : r \in Replacing}
  BY DEF Publish, At, server, lists, daemon, Entangling, Dropping, Entangles, Types, HistoryIs,
     Histories
<1> QED BY <1>5, <1>6, <1>7, <1>8

\* What Activate changes.
LEMMA ActivateFacts ==
  ASSUME Types, NEW o \in Ops, Activate(o)
  PROVE  /\ OpIs' /\ Others(o)
         /\ op'[o].pc = "notify" /\ op'[o].then = "done" /\ op'[o].config = op[o].config
         /\ op'[o].ver = op[o].ver /\ op'[o].gen = op[o].gen /\ op'[o].got = op[o].got
         /\ op'[o].old = op[o].old /\ op'[o].prev = op[o].prev
         /\ op[o].pc = "synced" /\ Valid(o) /\ client = o
         /\ state' = "active" /\ open' = open \ {op[o].old}
         /\ cfg' = cfg /\ client' = client /\ failed' = failed /\ gen' = gen /\ cancel' = cancel
         /\ started' = started /\ closed' = closed /\ waiters' = waiters
         /\ reloading' = reloading /\ catalog' = catalog /\ queue' = queue /\ wake' = wake
         /\ view' = view
         /\ Told(o, "active")
         /\ history' = history
<1>1. op[o] \in Records
  BY DEF Types, OpIs, Starts
<1> DEFINE after == [op[o] EXCEPT !.pc = "notify", !.then = "done"]
<1>2. {"none", "done", "notify", "async", "reload", "begin", "connect", "publish",
       "offfailed", "unsynced"} \subseteq PCs
  BY DEF PCs
<1>3. after \in Records
  BY <1>1, <1>2, NoOpType DEF Records
<1>4. Set(o, after)
  BY DEF Activate
<1>5. OpIs' /\ Others(o) /\ op'[o] = after
  <2> HIDE DEF after
  <2> QED BY <1>3, <1>4, SetFacts
<1>6. /\ op'[o].pc = "notify" /\ op'[o].then = "done" /\ op'[o].config = op[o].config
      /\ op'[o].ver = op[o].ver /\ op'[o].gen = op[o].gen /\ op'[o].got = op[o].got
      /\ op'[o].old = op[o].old /\ op'[o].prev = op[o].prev
  BY <1>1, <1>3, <1>5 DEF Records, NoOp
<1>7. /\ op[o].pc = "synced" /\ Valid(o) /\ client = o
      /\ state' = "active" /\ open' = open \ {op[o].old}
      /\ cfg' = cfg /\ client' = client /\ failed' = failed /\ gen' = gen /\ cancel' = cancel
      /\ started' = started /\ closed' = closed /\ waiters' = waiters
      /\ reloading' = reloading /\ catalog' = catalog /\ queue' = queue /\ wake' = wake
      /\ view' = view
  BY DEF Activate, At, server, lists, daemon
<1>8. /\ Told(o, "active")
      /\ history' = history
  BY DEF Activate, At, server, lists, daemon
<1> QED BY <1>5, <1>6, <1>7, <1>8

\* What TooLate changes.
LEMMA TooLateFacts ==
  ASSUME Types, NEW o \in Ops, TooLate(o)
  PROVE  /\ OpIs' /\ Others(o)
         /\ op'[o].pc = "done" /\ op'[o].then = op[o].then /\ op'[o].config = op[o].config
         /\ op'[o].ver = op[o].ver /\ op'[o].gen = op[o].gen /\ op'[o].got = op[o].got
         /\ op'[o].old = op[o].old /\ op'[o].prev = op[o].prev
         /\ op[o].pc = "synced" /\ ~(Valid(o) /\ client = o)
         /\ open' = open \ {o}
         /\ cfg' = cfg /\ client' = client /\ state' = state /\ failed' = failed /\ gen' = gen
         /\ cancel' = cancel /\ started' = started /\ closed' = closed /\ waiters' = waiters
         /\ reloading' = reloading /\ catalog' = catalog /\ notes' = notes /\ queue' = queue
         /\ wake' = wake /\ view' = view
         /\ history' = history
<1>1. op[o] \in Records
  BY DEF Types, OpIs, Starts
<1> DEFINE after == [op[o] EXCEPT !.pc = "done"]
<1>2. {"none", "done", "notify", "async", "reload", "begin", "connect", "publish",
       "offfailed", "unsynced"} \subseteq PCs
  BY DEF PCs
<1>3. after \in Records
  BY <1>1, <1>2, NoOpType DEF Records
<1>4. Set(o, after)
  BY DEF TooLate, Go
<1>5. OpIs' /\ Others(o) /\ op'[o] = after
  <2> HIDE DEF after
  <2> QED BY <1>3, <1>4, SetFacts
<1>6. /\ op'[o].pc = "done" /\ op'[o].then = op[o].then /\ op'[o].config = op[o].config
      /\ op'[o].ver = op[o].ver /\ op'[o].gen = op[o].gen /\ op'[o].got = op[o].got
      /\ op'[o].old = op[o].old /\ op'[o].prev = op[o].prev
  BY <1>1, <1>3, <1>5 DEF Records, NoOp
<1>7. /\ op[o].pc = "synced" /\ ~(Valid(o) /\ client = o)
      /\ open' = open \ {o}
      /\ cfg' = cfg /\ client' = client /\ state' = state /\ failed' = failed /\ gen' = gen
      /\ cancel' = cancel /\ started' = started /\ closed' = closed /\ waiters' = waiters
      /\ reloading' = reloading /\ catalog' = catalog /\ notes' = notes /\ queue' = queue
      /\ wake' = wake /\ view' = view
  BY DEF TooLate, At, server, lists, daemon
<1>8. /\ history' = history
  BY DEF TooLate, At, server, lists, daemon
<1> QED BY <1>5, <1>6, <1>7, <1>8

\* What SyncFailed changes.
LEMMA SyncFailedFacts ==
  ASSUME Types, NEW o \in Ops, SyncFailed(o)
  PROVE  /\ OpIs' /\ Others(o)
         /\ op'[o].pc = "notify" /\ op'[o].then = "done" /\ op'[o].config = op[o].config
         /\ op'[o].ver = op[o].ver /\ op'[o].gen = op[o].gen /\ op'[o].got = op[o].got
         /\ op'[o].old = op[o].old /\ op'[o].prev = op[o].prev
         /\ op[o].pc = "unsynced"
         /\ open' = open \ {o}
         /\ cfg' = cfg /\ gen' = gen /\ cancel' = cancel /\ started' = started
         /\ closed' = closed /\ waiters' = waiters /\ reloading' = reloading
         /\ catalog' = catalog /\ queue' = queue /\ wake' = wake /\ view' = view
         /\ gen = op[o].gen /\ client = o =>
              /\ client' = op[o].old /\ failed' = TRUE
              /\ state' = IF op[o].old # None THEN "active" ELSE "error"
         /\ ~(gen = op[o].gen /\ client = o) =>
              client' = client /\ failed' = failed /\ state' = state
         /\ Told(o, state')
         /\ history' = history
<1>1. op[o] \in Records
  BY DEF Types, OpIs, Starts
<1> DEFINE after == [op[o] EXCEPT !.pc = "notify", !.then = "done"]
<1>2. {"none", "done", "notify", "async", "reload", "begin", "connect", "publish",
       "offfailed", "unsynced"} \subseteq PCs
  BY DEF PCs
<1>3. after \in Records
  BY <1>1, <1>2, NoOpType DEF Records
<1>4. Set(o, after)
  BY DEF SyncFailed
<1>5. OpIs' /\ Others(o) /\ op'[o] = after
  <2> HIDE DEF after
  <2> QED BY <1>3, <1>4, SetFacts
<1>6. /\ op'[o].pc = "notify" /\ op'[o].then = "done" /\ op'[o].config = op[o].config
      /\ op'[o].ver = op[o].ver /\ op'[o].gen = op[o].gen /\ op'[o].got = op[o].got
      /\ op'[o].old = op[o].old /\ op'[o].prev = op[o].prev
  BY <1>1, <1>3, <1>5 DEF Records, NoOp
<1>7. /\ op[o].pc = "unsynced"
      /\ open' = open \ {o}
      /\ cfg' = cfg /\ gen' = gen /\ cancel' = cancel /\ started' = started
      /\ closed' = closed /\ waiters' = waiters /\ reloading' = reloading
      /\ catalog' = catalog /\ queue' = queue /\ wake' = wake /\ view' = view
  BY DEF SyncFailed, At, Restored, server, lists, daemon
<1>8. /\ gen = op[o].gen /\ client = o =>
           /\ client' = op[o].old /\ failed' = TRUE
           /\ state' = IF op[o].old # None THEN "active" ELSE "error"
      /\ ~(gen = op[o].gen /\ client = o) => client' = client /\ failed' = failed /\ state' = state
      /\ Told(o, state')
      /\ history' = history
  BY DEF SyncFailed, At, Restored, server, lists, daemon
<1> QED BY <1>5, <1>6, <1>7, <1>8

\* What GiveUp changes.
LEMMA GiveUpFacts ==
  ASSUME Types, NEW o \in Ops, GiveUp(o)
  PROVE  /\ OpIs' /\ Others(o)
         /\ op'[o].pc = (IF op[o].pc = "offsync" THEN "offfailed" ELSE "unsynced")
         /\ op'[o].then = op[o].then /\ op'[o].config = op[o].config /\ op'[o].ver = op[o].ver
         /\ op'[o].gen = op[o].gen /\ op'[o].got = op[o].got /\ op'[o].old = op[o].old
         /\ op'[o].prev = op[o].prev
         /\ closed /\ o \in waiters
         /\ waiters' = waiters \ {o}
         /\ cfg' = cfg /\ client' = client /\ state' = state /\ failed' = failed /\ gen' = gen
         /\ cancel' = cancel /\ started' = started /\ closed' = closed /\ open' = open
         /\ reloading' = reloading /\ catalog' = catalog /\ notes' = notes /\ queue' = queue
         /\ wake' = wake /\ view' = view
         /\ history' = history
<1>1. op[o] \in Records
  BY DEF Types, OpIs, Starts
<1> DEFINE after == [op[o] EXCEPT !.pc = IF op[o].pc = "offsync" THEN "offfailed" ELSE "unsynced"]
<1>2. {"none", "done", "notify", "async", "reload", "begin", "connect", "publish",
       "offfailed", "unsynced"} \subseteq PCs
  BY DEF PCs
<1>3. after \in Records
  BY <1>1, <1>2, NoOpType DEF Records
<1>4. Set(o, after)
  BY DEF GiveUp, Go, At
<1>5. OpIs' /\ Others(o) /\ op'[o] = after
  <2> HIDE DEF after
  <2> QED BY <1>3, <1>4, SetFacts
<1>6. /\ op'[o].pc = (IF op[o].pc = "offsync" THEN "offfailed" ELSE "unsynced")
      /\ op'[o].then = op[o].then /\ op'[o].config = op[o].config /\ op'[o].ver = op[o].ver
      /\ op'[o].gen = op[o].gen /\ op'[o].got = op[o].got /\ op'[o].old = op[o].old
      /\ op'[o].prev = op[o].prev
  BY <1>1, <1>3, <1>5 DEF Records, NoOp
<1>7. /\ closed /\ o \in waiters
      /\ waiters' = waiters \ {o}
      /\ cfg' = cfg /\ client' = client /\ state' = state /\ failed' = failed /\ gen' = gen
      /\ cancel' = cancel /\ started' = started /\ closed' = closed /\ open' = open
      /\ reloading' = reloading /\ catalog' = catalog /\ notes' = notes /\ queue' = queue
      /\ wake' = wake /\ view' = view
  BY DEF GiveUp, At, server, lists, daemon
<1>8. /\ history' = history
  BY DEF GiveUp, At, server, lists, daemon
<1> QED BY <1>5, <1>6, <1>7, <1>8

\* What Notify changes.
LEMMA NotifyFacts ==
  ASSUME Types, NEW o \in Ops, Notify(o)
  PROVE  /\ OpIs' /\ Others(o)
         /\ op'[o].pc = op[o].then /\ op'[o].then = op[o].then /\ op'[o].config = op[o].config
         /\ op'[o].ver = op[o].ver /\ op'[o].gen = op[o].gen /\ op'[o].got = op[o].got
         /\ op'[o].old = op[o].old /\ op'[o].prev = op[o].prev
         /\ op[o].pc = "notify"
         /\ queue' = Append(queue, notes[Mine(o)].state) /\ notes' = Without(Mine(o))
         /\ wake' = TRUE
         /\ reloading' = IF op[o].config /\ op[o].then = "begin" THEN reloading \cup {o}
                         ELSE reloading
         /\ cfg' = cfg /\ client' = client /\ state' = state /\ failed' = failed /\ gen' = gen
         /\ cancel' = cancel /\ started' = started /\ closed' = closed /\ open' = open
         /\ waiters' = waiters /\ catalog' = catalog /\ view' = view
         /\ history'.crossed = (history.crossed \/ Mine(o) # 1)
         /\ history'.entangled = history.entangled
         /\ history'.forgotten = history.forgotten /\ history'.unlisted = history.unlisted
         /\ history'.dropped = history.dropped
<1>1. op[o] \in Records
  BY DEF Types, OpIs, Starts
<1> DEFINE after == [op[o] EXCEPT !.pc = op[o].then]
<1>2. op[o].then \in PCs
  BY DEF Types, OpIs, Records, PCs, Starts
<1>3. after \in Records
  BY <1>1, <1>2, NoOpType DEF Records
<1>4. Set(o, after)
  BY DEF Notify, Go
<1>5. OpIs' /\ Others(o) /\ op'[o] = after
  <2> HIDE DEF after
  <2> QED BY <1>3, <1>4, SetFacts
<1>6. /\ op'[o].pc = op[o].then /\ op'[o].then = op[o].then /\ op'[o].config = op[o].config
      /\ op'[o].ver = op[o].ver /\ op'[o].gen = op[o].gen /\ op'[o].got = op[o].got
      /\ op'[o].old = op[o].old /\ op'[o].prev = op[o].prev
  BY <1>1, <1>3, <1>5 DEF Records, NoOp
<1>7. /\ op[o].pc = "notify"
      /\ queue' = Append(queue, notes[Mine(o)].state) /\ notes' = Without(Mine(o))
      /\ wake' = TRUE
      /\ reloading' = IF op[o].config /\ op[o].then = "begin" THEN reloading \cup {o} ELSE reloading
      /\ cfg' = cfg /\ client' = client /\ state' = state /\ failed' = failed /\ gen' = gen
      /\ cancel' = cancel /\ started' = started /\ closed' = closed /\ open' = open
      /\ waiters' = waiters /\ catalog' = catalog /\ view' = view
  BY DEF Notify, At, server, lists, daemon
<1>8. /\ history'.crossed = (history.crossed \/ Mine(o) # 1)
      /\ history'.entangled = history.entangled
      /\ history'.forgotten = history.forgotten /\ history'.unlisted = history.unlisted
      /\ history'.dropped = history.dropped
  BY DEF Notify, At, server, lists, daemon, Types, HistoryIs, Histories
<1> QED BY <1>5, <1>6, <1>7, <1>8

\* Flush moves all waiters on, and nothing else.
LEMMA FlushFacts ==
  ASSUME Types, Flush
  PROVE  /\ OpIs'
         /\ \A p \in Starts : p \notin waiters => op'[p] = op[p]
         /\ \/ /\ catalog' = client
               /\ \A p \in waiters : op'[p].pc = IF op[p].pc = "offsync" THEN "off" ELSE "synced"
            \/ /\ catalog' = catalog
               /\ \A p \in waiters :
                    op'[p].pc = IF op[p].pc = "offsync" THEN "offfailed" ELSE "unsynced"
         /\ \A p \in Starts : /\ op'[p].then = op[p].then /\ op'[p].config = op[p].config
                             /\ op'[p].ver = op[p].ver /\ op'[p].gen = op[p].gen
                             /\ op'[p].got = op[p].got /\ op'[p].old = op[p].old
                             /\ op'[p].prev = op[p].prev
         /\ waiters # {} /\ waiters' = {} /\ cfg' = cfg /\ client' = client /\ state' = state
         /\ failed' = failed /\ gen' = gen /\ cancel' = cancel /\ started' = started
         /\ closed' = closed /\ open' = open /\ reloading' = reloading /\ notes' = notes
         /\ queue' = queue /\ wake' = wake /\ view' = view /\ history' = history
<1>1. PICK ok \in BOOLEAN :
        /\ catalog' = IF ok THEN client ELSE catalog
        /\ op' = [o \in Starts |-> IF o \notin waiters THEN op[o] ELSE
                    [op[o] EXCEPT !.pc = IF @ = "offsync" THEN (IF ok THEN "off" ELSE "offfailed")
                                         ELSE (IF ok THEN "synced" ELSE "unsynced")]]
  BY DEF Flush
<1>2. {"off", "offfailed", "synced", "unsynced"} \subseteq PCs
  BY DEF PCs
<1>3. \A p \in Starts : op[p] \in Records
  BY DEF Types, OpIs
<1>4. waiters \subseteq Starts
  BY DEF Types, Starts
<1>5. ASSUME NEW p \in Starts
      PROVE  /\ op'[p] \in Records /\ (p \notin waiters => op'[p] = op[p])
             /\ op'[p].then = op[p].then /\ op'[p].config = op[p].config
             /\ op'[p].ver = op[p].ver /\ op'[p].gen = op[p].gen
             /\ op'[p].got = op[p].got /\ op'[p].old = op[p].old
             /\ op'[p].prev = op[p].prev
  BY <1>1, <1>2, <1>3 DEF Records
<1>6. \A p \in waiters :
        op'[p].pc = IF op[p].pc = "offsync" THEN (IF ok THEN "off" ELSE "offfailed")
                      ELSE (IF ok THEN "synced" ELSE "unsynced")
  BY <1>1, <1>3, <1>4 DEF Records
<1>7. op' = [p \in Starts |-> op'[p]]
  BY <1>1
<1>8. op' \in [Starts -> Records]
  BY <1>5, <1>7
<1>9. /\ waiters # {} /\ waiters' = {} /\ cfg' = cfg /\ client' = client /\ state' = state
      /\ failed' = failed /\ gen' = gen /\ cancel' = cancel /\ started' = started
      /\ closed' = closed /\ open' = open /\ reloading' = reloading /\ notes' = notes
      /\ queue' = queue /\ wake' = wake /\ view' = view /\ history' = history
  BY DEF Flush, server, daemon
<1> QED BY <1>1, <1>5, <1>6, <1>8, <1>9 DEF OpIs

\* Publisher delivers the oldest update.
LEMMA PublisherFacts ==
  ASSUME Publisher
  PROVE  /\ wake
         /\ queue = <<>> => wake' = FALSE /\ queue' = queue /\ view' = view
         /\ queue # <<>> => view' = Head(queue) /\ queue' = Tail(queue) /\ wake' = wake
         /\ cfg' = cfg /\ client' = client /\ state' = state /\ failed' = failed /\ gen' = gen
         /\ cancel' = cancel /\ started' = started /\ closed' = closed /\ open' = open /\ op' = op
         /\ waiters' = waiters /\ reloading' = reloading /\ catalog' = catalog /\ notes' = notes
         /\ history' = history
BY DEF Publisher, server, lists

\* Close takes the client away.
LEMMA CloseFacts ==
  ASSUME Types, Close
  PROVE  /\ ~closed /\ closed' = TRUE /\ cancel' = None /\ client' = None /\ open' = open \ {client}
         /\ gen' = IF cancel # None THEN gen + 1 ELSE gen
         /\ cfg' = cfg /\ state' = state /\ failed' = failed /\ started' = started /\ op' = op
         /\ waiters' = waiters /\ reloading' = reloading /\ catalog' = catalog /\ notes' = notes
         /\ queue' = queue /\ wake' = wake /\ view' = view
         /\ history'.crossed = history.crossed /\ history'.unlisted = history.unlisted
         /\ history'.forgotten = history.forgotten
         /\ history'.dropped = history.dropped \cup {op[r].old : r \in Replacing}
BY DEF Types, Close, HistoryIs, Histories, Entangling, Dropping, Entangles, lists, daemon

\* A stuttering step changes nothing.
LEMMA NothingFacts ==
  ASSUME UNCHANGED vars
  PROVE  /\ cfg' = cfg /\ client' = client /\ state' = state /\ failed' = failed /\ gen' = gen
         /\ cancel' = cancel /\ started' = started /\ closed' = closed /\ open' = open /\ op' = op
         /\ waiters' = waiters /\ reloading' = reloading /\ catalog' = catalog /\ notes' = notes
         /\ queue' = queue /\ wake' = wake /\ view' = view /\ history' = history
BY DEF vars, server, lists, daemon

-----------------------------------------------------------------------------
(* Notifications that wait, and the types.                                 *)

\* Each operation that is about to notify has one notification, and only they have.
Noted ==
  /\ \A i \in 1 .. Len(notes) : At(notes[i].op, "notify")
  /\ \A o \in Ops : At(o, "notify") => \E i \in 1 .. Len(notes) : notes[i].op = o
  /\ \A i, j \in 1 .. Len(notes) : notes[i].op = notes[j].op => i = j

\* What is added to the history is of its type.
LEMMA HistoryTypes ==
  ASSUME Types, NEW o
  PROVE  /\ Dropping \in Histories /\ Entangling(o) \in Histories
<1>1. \A r \in Replacing : op[r].old \in Starts \cup {None}
  BY DEF Types, OpIs, Replacing, Records, Starts
<1>2. {op[r].old : r \in Replacing} \subseteq Starts \cup {None}
  BY <1>1
<1>3. Dropping \in Histories
  BY <1>2 DEF Types, HistoryIs, Dropping, Histories
<1> QED BY <1>3 DEF Entangling, Histories

\* Each single change of the history keeps its type.
LEMMA HistoryChanges ==
  ASSUME NEW h \in Histories
  PROVE  /\ \A b \in BOOLEAN : /\ [h EXCEPT !.crossed = @ \/ b] \in Histories
                               /\ [h EXCEPT !.entangled = @ \/ b] \in Histories
                               /\ [h EXCEPT !.unlisted = @ \/ b] \in Histories
                               /\ [h EXCEPT !.forgotten = @ \/ b] \in Histories
         /\ [h EXCEPT !.unlisted = TRUE] \in Histories
         /\ \A x \in Starts \cup {None} : [h EXCEPT !.dropped = @ \cup {x}] \in Histories
BY DEF Histories

\* The sequence without its i-th element.
Cut(s, i) == SubSeq(s, 1, i - 1) \o SubSeq(s, i + 1, Len(s))

\* The others keep their order.
LEMMA CutProperties ==
  ASSUME NEW S, NEW s \in Seq(S), NEW i \in 1 .. Len(s)
  PROVE  /\ Cut(s, i) \in Seq(S)
         /\ Len(Cut(s, i)) = Len(s) - 1
         /\ \A k \in 1 .. Len(s) - 1 : Cut(s, i)[k] = IF k < i THEN s[k] ELSE s[k + 1]
<1> DEFINE front == SubSeq(s, 1, i - 1)
           back == SubSeq(s, i + 1, Len(s))
<1>1. Len(s) \in Nat /\ i \in Nat /\ 1 <= i /\ i <= Len(s) /\ \A k \in 1 .. Len(s) : s[k] \in S
  BY LenProperties, ElementOfSeq
<1>2. front \in Seq(S) /\ Len(front) = i - 1 /\ \A k \in 1 .. i - 1 : front[k] = s[k]
  <2>1. 1 \in Int /\ i - 1 \in Int /\ \A k \in 1 .. i - 1 : s[k] \in S
    BY <1>1
  <2>2. /\ front \in Seq(S) /\ Len(front) = IF 1 <= i - 1 THEN i - 1 - 1 + 1 ELSE 0
        /\ \A k \in 1 .. i - 1 - 1 + 1 : front[k] = s[1 + k - 1]
    BY <2>1, SubSeqProperties
  <2> HIDE DEF front
  <2> QED BY <1>1, <2>2
<1>3. /\ back \in Seq(S) /\ Len(back) = Len(s) - i
      /\ \A k \in 1 .. Len(s) - i : back[k] = s[i + k]
  <2>1. i + 1 \in Int /\ Len(s) \in Int /\ \A k \in i + 1 .. Len(s) : s[k] \in S
    BY <1>1
  <2>2. /\ back \in Seq(S) /\ Len(back) = IF i + 1 <= Len(s) THEN Len(s) - (i + 1) + 1 ELSE 0
        /\ \A k \in 1 .. Len(s) - (i + 1) + 1 : back[k] = s[i + 1 + k - 1]
    BY <2>1, SubSeqProperties
  <2> HIDE DEF back
  <2> QED BY <1>1, <2>2
<1>4. Cut(s, i) = front \o back
  BY DEF Cut
<1> HIDE DEF front, back
<1>5. /\ front \o back \in Seq(S) /\ Len(front \o back) = Len(front) + Len(back)
      /\ \A k \in 1 .. Len(front) + Len(back) :
           (front \o back)[k] = IF k <= Len(front) THEN front[k] ELSE back[k - Len(front)]
  BY <1>2, <1>3, ConcatProperties
<1>6. Len(front) + Len(back) = Len(s) - 1
  BY <1>1, <1>2, <1>3
<1>7. ASSUME NEW k \in 1 .. Len(s) - 1
      PROVE  (front \o back)[k] = IF k < i THEN s[k] ELSE s[k + 1]
  <2>1. CASE k < i
    BY <1>1, <1>2, <1>5, <1>6, <2>1
  <2>2. CASE ~(k < i)
    <3>1. k - (i - 1) \in 1 .. Len(s) - i /\ ~(k <= i - 1) /\ i + (k - (i - 1)) = k + 1
      BY <1>1, <2>2
    <3> QED BY <1>2, <1>3, <1>5, <1>6, <2>2, <3>1
  <2> QED BY <2>1, <2>2
<1> QED BY <1>4, <1>5, <1>6, <1>7

\* Told keeps the type.
LEMMA ToldType ==
  ASSUME Types, NEW o \in Ops, NEW s \in States, Told(o, s)
  PROVE  notes' \in Seq(Notice)
<1>1. [op |-> o, state |-> s] \in Notice
  BY DEF Notice
<1> QED BY <1>1, AppendProperties DEF Types, NotesIs, Told

\* Every notification is of an operation.
LEMMA NoticeFacts ==
  ASSUME Types
  PROVE  /\ Len(notes) \in Nat
         /\ \A i \in 1 .. Len(notes) :
              notes[i] \in Notice /\ notes[i].op \in Ops /\ notes[i].state \in States
<1>1. \A i \in 1 .. Len(notes) : notes[i] \in Notice
  BY ElementOfSeq DEF Types, NotesIs
<1> QED BY <1>1, LenProperties DEF Types, NotesIs, Notice

\* Mine finds the operation's notification, Without takes it out.
LEMMA MineFacts ==
  ASSUME Types, Noted, NEW o \in Ops, At(o, "notify")
  PROVE  /\ Mine(o) \in 1 .. Len(notes) /\ notes[Mine(o)].op = o
         /\ Without(Mine(o)) \in Seq(Notice)
         /\ Len(Without(Mine(o))) = Len(notes) - 1
         /\ \A j \in 1 .. Len(notes) - 1 :
              Without(Mine(o))[j] = IF j < Mine(o) THEN notes[j] ELSE notes[j + 1]
<1>1. Mine(o) \in 1 .. Len(notes) /\ notes[Mine(o)].op = o
  BY DEF Noted, Mine
<1>2. Without(Mine(o)) = Cut(notes, Mine(o)) /\ notes \in Seq(Notice)
  BY DEF Without, Cut, Types, NotesIs
<1>3. \A i \in 1 .. Len(notes) :
        /\ Cut(notes, i) \in Seq(Notice) /\ Len(Cut(notes, i)) = Len(notes) - 1
        /\ \A k \in 1 .. Len(notes) - 1 : Cut(notes, i)[k] = IF k < i THEN notes[k]
                                                             ELSE notes[k + 1]
  BY <1>2, CutProperties
<1> QED BY <1>1, <1>2, <1>3

\* The generation is a number.
GenIs == gen \in Nat

\* The types of the variables that hold single values or sets.
Scalars ==
  /\ cfg \in Configs /\ client \in Starts \cup {None} /\ failed \in BOOLEAN
  /\ state \in States /\ cancel \in Ops \cup {None}
  /\ started \in BOOLEAN /\ closed \in BOOLEAN /\ wake \in BOOLEAN
  /\ open \in SUBSET Starts /\ waiters \in SUBSET Ops /\ reloading \in SUBSET Ops
  /\ catalog \in Starts \cup {None} /\ view \in States

\* Every step keeps the types of single values.
LEMMA ScalarsStep == Types /\ [Next]_vars => Scalars'
<1> SUFFICES ASSUME Types, [Next]_vars PROVE Scalars'
  OBVIOUS
<1>1. ASSUME NEW o \in Ops, NEW new \in Configs, SetConfig(o, new) PROVE Scalars'
  <2>1. /\ started' = started /\ closed' = closed /\ wake' = wake /\ waiters' = waiters
        /\ reloading' = reloading /\ catalog' = catalog /\ view' = view /\ cfg' = new
        /\ cancel' = None /\ open' \subseteq open /\ client' \in {client, None}
    BY <1>1, SetConfigFacts
  <2>2. state' \in States /\ failed' \in BOOLEAN
    BY <1>1, SetConfigFacts, ConfigFacts DEF Types, Shown, States
  <2> QED BY <2>1, <2>2 DEF Scalars, Types
<1>2. ASSUME NEW o \in Ops, Boot(o) PROVE Scalars'
  BY <1>2, BootFacts DEF Scalars, Types, States, Starts
<1>3. ASSUME NEW o \in Ops, StartAsync(o) PROVE Scalars'
  <2>1. /\ cfg' = cfg /\ client' = client /\ started' = started /\ closed' = closed /\ wake' = wake
        /\ open' = open /\ waiters' = waiters /\ reloading' = reloading /\ catalog' = catalog
        /\ view' = view
        /\ \/ (state' = state /\ failed' = failed /\ cancel' = cancel)
           \/ (state' = "starting" /\ failed' = FALSE /\ cancel' = None)
    BY <1>3, StartAsyncFacts
  <2> QED BY <1>3, <2>1 DEF Scalars, Types, States, Starts
<1>4. ASSUME NEW o \in Ops, Reload(o) PROVE Scalars'
  BY <1>4, ReloadFacts DEF Scalars, Types, States, Starts
<1>5. ASSUME NEW o \in Ops, NEW enable \in BOOLEAN, Restart(o, enable) PROVE Scalars'
  <2>1. /\ cfg' \in Configs /\ client' = client /\ started' = started /\ closed' = closed
        /\ wake' = wake
        /\ open' = open /\ waiters' = waiters /\ reloading' = reloading /\ catalog' = catalog
        /\ view' = view
        /\ state' = "starting" /\ failed' = FALSE /\ cancel' = None
    BY <1>5, RestartFacts
  <2> QED BY <1>5, <2>1 DEF Scalars, Types, States, Starts
<1>6. ASSUME NEW o \in Ops, Disable(o) PROVE Scalars'
  <2>1. /\ cfg' \in Configs /\ client' = None /\ started' = started /\ closed' = closed
        /\ wake' = wake
        /\ open' = open /\ waiters' = waiters \cup {o} /\ reloading' = reloading
        /\ catalog' = catalog /\ view' = view
        /\ state' = "disabled" /\ failed' = FALSE /\ cancel' = None
    BY <1>6, DisableFacts
  <2> QED BY <1>6, <2>1 DEF Scalars, Types, States, Starts
<1>7. ASSUME NEW o \in Ops, Disabled(o) PROVE Scalars'
  BY <1>7, DisabledFacts DEF Scalars, Types, States, Starts
<1>8. ASSUME NEW o \in Ops, EnableAgain(o) PROVE Scalars'
  <2>1. op[o].old \in Starts \cup {None} /\ op[o].prev.cfg \in Configs
        /\ op[o].prev.state \in States /\ op[o].prev.failed \in BOOLEAN
    BY DEF Types, OpIs, Records, Starts
  <2> QED BY <1>8, <2>1, EnableAgainFacts DEF Scalars, Types
<1>9. ASSUME NEW o \in Ops, Begin(o) PROVE Scalars'
  BY <1>9, BeginFacts DEF Scalars, Types, States, Starts
<1>10. ASSUME NEW o \in Ops, Connect(o) PROVE Scalars'
  BY <1>10, ConnectFacts DEF Scalars, Types, States, Starts
<1>11. ASSUME NEW o \in Ops, Outdated(o) PROVE Scalars'
  BY <1>11, OutdatedFacts DEF Scalars, Types, States, Starts
<1>12. ASSUME NEW o \in Ops, ConnectFailed(o) PROVE Scalars'
  BY <1>12, ConnectFailedFacts DEF Scalars, Types, States, Starts
<1>13. ASSUME NEW o \in Ops, Publish(o) PROVE Scalars'
  BY <1>13, PublishFacts DEF Scalars, Types, States, Starts
<1>14. ASSUME NEW o \in Ops, Activate(o) PROVE Scalars'
  BY <1>14, ActivateFacts DEF Scalars, Types, States, Starts
<1>15. ASSUME NEW o \in Ops, TooLate(o) PROVE Scalars'
  BY <1>15, TooLateFacts DEF Scalars, Types, States, Starts
<1>16. ASSUME NEW o \in Ops, SyncFailed(o) PROVE Scalars'
  <2>1. op[o].old \in Starts \cup {None}
    BY DEF Types, OpIs, Records, Starts
  <2> QED BY <1>16, <2>1, SyncFailedFacts DEF Scalars, Types, States
<1>17. ASSUME NEW o \in Ops, GiveUp(o) PROVE Scalars'
  BY <1>17, GiveUpFacts DEF Scalars, Types, States, Starts
<1>18. ASSUME NEW o \in Ops, Notify(o) PROVE Scalars'
  <2>1. /\ cfg' = cfg /\ client' = client /\ started' = started /\ closed' = closed /\ wake' = TRUE
        /\ open' = open /\ waiters' = waiters /\ reloading' \in {reloading, reloading \cup {o}}
        /\ catalog' = catalog /\ view' = view
        /\ state' = state /\ failed' = failed /\ cancel' = cancel
    BY <1>18, NotifyFacts
  <2> QED BY <1>18, <2>1 DEF Scalars, Types, States, Starts
<1>19. CASE Flush
  BY <1>19, FlushFacts DEF Scalars, Types, States, Starts
<1>20. CASE Publisher
  <2>1. queue # <<>> => Head(queue) \in States
    BY HeadTailProperties DEF Types, NotesIs
  <2> QED BY <1>20, <2>1, PublisherFacts DEF Scalars, Types
<1>21. CASE Close
  <2>1. /\ cfg' = cfg /\ client' = None /\ started' = started /\ closed' = TRUE /\ wake' = wake
        /\ open' \subseteq open /\ waiters' = waiters /\ reloading' = reloading
        /\ catalog' = catalog /\ view' = view
        /\ state' = state /\ failed' = failed /\ cancel' = None
    BY <1>21, CloseFacts
  <2> QED BY <1>21, <2>1 DEF Scalars, Types, States, Starts
<1>22. CASE UNCHANGED vars
  BY <1>22, NothingFacts DEF Scalars, Types, States, Starts
<1> QED BY <1>1, <1>2, <1>3, <1>4, <1>5, <1>6, <1>7, <1>8, <1>9, <1>10, <1>11, <1>12, <1>13, <1>14,
    <1>15, <1>16, <1>17, <1>18, <1>19, <1>20, <1>21, <1>22 DEF Next, Operation

\* Every step keeps the generation a number.
LEMMA GenStep == Types /\ [Next]_vars => GenIs'
<1> SUFFICES ASSUME Types, [Next]_vars PROVE GenIs'
  OBVIOUS
<1>1. ASSUME NEW o \in Ops, NEW new \in Configs, SetConfig(o, new) PROVE GenIs'
  <2>1. gen \in Nat
    BY DEF Types
  <2>2. gen' = gen \/ gen' = gen + 1 \/ gen' = 0
    BY <1>1, SetConfigFacts
  <2> QED BY <2>1, <2>2 DEF GenIs
<1>2. ASSUME NEW o \in Ops, Boot(o) PROVE GenIs'
  BY <1>2, BootFacts DEF Types, GenIs
<1>3. ASSUME NEW o \in Ops, StartAsync(o) PROVE GenIs'
  <2>1. gen \in Nat
    BY DEF Types
  <2>2. gen' = gen \/ gen' = gen + 1 \/ gen' = 0
    BY <1>3, StartAsyncFacts
  <2> QED BY <2>1, <2>2 DEF GenIs
<1>4. ASSUME NEW o \in Ops, Reload(o) PROVE GenIs'
  BY <1>4, ReloadFacts DEF Types, GenIs
<1>5. ASSUME NEW o \in Ops, NEW enable \in BOOLEAN, Restart(o, enable) PROVE GenIs'
  <2>1. gen \in Nat
    BY DEF Types
  <2>2. gen' = gen \/ gen' = gen + 1 \/ gen' = 0
    BY <1>5, RestartFacts
  <2> QED BY <2>1, <2>2 DEF GenIs
<1>6. ASSUME NEW o \in Ops, Disable(o) PROVE GenIs'
  <2>1. gen \in Nat
    BY DEF Types
  <2>2. gen' = gen \/ gen' = gen + 1 \/ gen' = 0
    BY <1>6, DisableFacts
  <2> QED BY <2>1, <2>2 DEF GenIs
<1>7. ASSUME NEW o \in Ops, Disabled(o) PROVE GenIs'
  BY <1>7, DisabledFacts DEF Types, GenIs
<1>8. ASSUME NEW o \in Ops, EnableAgain(o) PROVE GenIs'
  BY <1>8, EnableAgainFacts DEF Types, GenIs
<1>9. ASSUME NEW o \in Ops, Begin(o) PROVE GenIs'
  BY <1>9, BeginFacts DEF Types, GenIs
<1>10. ASSUME NEW o \in Ops, Connect(o) PROVE GenIs'
  BY <1>10, ConnectFacts DEF Types, GenIs
<1>11. ASSUME NEW o \in Ops, Outdated(o) PROVE GenIs'
  BY <1>11, OutdatedFacts DEF Types, GenIs
<1>12. ASSUME NEW o \in Ops, ConnectFailed(o) PROVE GenIs'
  BY <1>12, ConnectFailedFacts DEF Types, GenIs
<1>13. ASSUME NEW o \in Ops, Publish(o) PROVE GenIs'
  BY <1>13, PublishFacts DEF Types, GenIs
<1>14. ASSUME NEW o \in Ops, Activate(o) PROVE GenIs'
  BY <1>14, ActivateFacts DEF Types, GenIs
<1>15. ASSUME NEW o \in Ops, TooLate(o) PROVE GenIs'
  BY <1>15, TooLateFacts DEF Types, GenIs
<1>16. ASSUME NEW o \in Ops, SyncFailed(o) PROVE GenIs'
  BY <1>16, SyncFailedFacts DEF Types, GenIs
<1>17. ASSUME NEW o \in Ops, GiveUp(o) PROVE GenIs'
  BY <1>17, GiveUpFacts DEF Types, GenIs
<1>18. ASSUME NEW o \in Ops, Notify(o) PROVE GenIs'
  BY <1>18, NotifyFacts DEF Types, GenIs
<1>19. CASE Flush
  BY <1>19, FlushFacts DEF Types, GenIs
<1>20. CASE Publisher
  BY <1>20, PublisherFacts DEF Types, GenIs
<1>21. CASE Close
  <2>1. gen \in Nat
    BY DEF Types
  <2>2. gen' = gen \/ gen' = gen + 1 \/ gen' = 0
    BY <1>21, CloseFacts
  <2> QED BY <2>1, <2>2 DEF GenIs
<1>22. CASE UNCHANGED vars
  BY <1>22, NothingFacts DEF Types, GenIs
<1> QED BY <1>1, <1>2, <1>3, <1>4, <1>5, <1>6, <1>7, <1>8, <1>9, <1>10, <1>11, <1>12, <1>13, <1>14,
    <1>15, <1>16, <1>17, <1>18, <1>19, <1>20, <1>21, <1>22 DEF Next, Operation

\* Every step keeps the type of the operations.
LEMMA OpIsStep == Types /\ [Next]_vars => OpIs'
<1> SUFFICES ASSUME Types, [Next]_vars PROVE OpIs'
  OBVIOUS
<1>1. ASSUME NEW o \in Ops, NEW new \in Configs, SetConfig(o, new) PROVE OpIs'
  BY <1>1, SetConfigFacts DEF Types, OpIs
<1>2. ASSUME NEW o \in Ops, Boot(o) PROVE OpIs'
  BY <1>2, BootFacts DEF Types, OpIs
<1>3. ASSUME NEW o \in Ops, StartAsync(o) PROVE OpIs'
  BY <1>3, StartAsyncFacts DEF Types, OpIs
<1>4. ASSUME NEW o \in Ops, Reload(o) PROVE OpIs'
  BY <1>4, ReloadFacts DEF Types, OpIs
<1>5. ASSUME NEW o \in Ops, NEW enable \in BOOLEAN, Restart(o, enable) PROVE OpIs'
  BY <1>5, RestartFacts DEF Types, OpIs
<1>6. ASSUME NEW o \in Ops, Disable(o) PROVE OpIs'
  BY <1>6, DisableFacts DEF Types, OpIs
<1>7. ASSUME NEW o \in Ops, Disabled(o) PROVE OpIs'
  BY <1>7, DisabledFacts DEF Types, OpIs
<1>8. ASSUME NEW o \in Ops, EnableAgain(o) PROVE OpIs'
  BY <1>8, EnableAgainFacts DEF Types, OpIs
<1>9. ASSUME NEW o \in Ops, Begin(o) PROVE OpIs'
  BY <1>9, BeginFacts DEF Types, OpIs
<1>10. ASSUME NEW o \in Ops, Connect(o) PROVE OpIs'
  BY <1>10, ConnectFacts DEF Types, OpIs
<1>11. ASSUME NEW o \in Ops, Outdated(o) PROVE OpIs'
  BY <1>11, OutdatedFacts DEF Types, OpIs
<1>12. ASSUME NEW o \in Ops, ConnectFailed(o) PROVE OpIs'
  BY <1>12, ConnectFailedFacts DEF Types, OpIs
<1>13. ASSUME NEW o \in Ops, Publish(o) PROVE OpIs'
  BY <1>13, PublishFacts DEF Types, OpIs
<1>14. ASSUME NEW o \in Ops, Activate(o) PROVE OpIs'
  BY <1>14, ActivateFacts DEF Types, OpIs
<1>15. ASSUME NEW o \in Ops, TooLate(o) PROVE OpIs'
  BY <1>15, TooLateFacts DEF Types, OpIs
<1>16. ASSUME NEW o \in Ops, SyncFailed(o) PROVE OpIs'
  BY <1>16, SyncFailedFacts DEF Types, OpIs
<1>17. ASSUME NEW o \in Ops, GiveUp(o) PROVE OpIs'
  BY <1>17, GiveUpFacts DEF Types, OpIs
<1>18. ASSUME NEW o \in Ops, Notify(o) PROVE OpIs'
  BY <1>18, NotifyFacts DEF Types, OpIs
<1>19. CASE Flush
  BY <1>19, FlushFacts DEF Types, OpIs
<1>20. CASE Publisher
  BY <1>20, PublisherFacts DEF Types, OpIs
<1>21. CASE Close
  BY <1>21, CloseFacts DEF Types, OpIs
<1>22. CASE UNCHANGED vars
  BY <1>22, NothingFacts DEF Types, OpIs
<1> QED BY <1>1, <1>2, <1>3, <1>4, <1>5, <1>6, <1>7, <1>8, <1>9, <1>10, <1>11, <1>12, <1>13, <1>14,
    <1>15, <1>16, <1>17, <1>18, <1>19, <1>20, <1>21, <1>22 DEF Next, Operation

\* Every step keeps the type of the history.
LEMMA HistoryIsStep == Types /\ [Next]_vars => HistoryIs'
<1> SUFFICES ASSUME Types, [Next]_vars PROVE HistoryIs'
  OBVIOUS
<1>1. ASSUME NEW o \in Ops, NEW new \in Configs, SetConfig(o, new) PROVE HistoryIs'
  BY <1>1, HistoryTypes, HistoryChanges DEF SetConfig, Types, HistoryIs
<1>2. ASSUME NEW o \in Ops, Boot(o) PROVE HistoryIs'
  BY <1>2, BootFacts DEF Types, HistoryIs
<1>3. ASSUME NEW o \in Ops, StartAsync(o) PROVE HistoryIs'
  BY <1>3, HistoryTypes, HistoryChanges DEF StartAsync, Types, HistoryIs
<1>4. ASSUME NEW o \in Ops, Reload(o) PROVE HistoryIs'
  BY <1>4, HistoryTypes, HistoryChanges DEF Reload, Types, HistoryIs
<1>5. ASSUME NEW o \in Ops, NEW enable \in BOOLEAN, Restart(o, enable) PROVE HistoryIs'
  BY <1>5, HistoryTypes, HistoryChanges DEF Restart, Types, HistoryIs
<1>6. ASSUME NEW o \in Ops, Disable(o) PROVE HistoryIs'
  BY <1>6, HistoryTypes, HistoryChanges DEF Disable, Types, HistoryIs
<1>7. ASSUME NEW o \in Ops, Disabled(o) PROVE HistoryIs'
  BY <1>7, DisabledFacts DEF Types, HistoryIs
<1>8. ASSUME NEW o \in Ops, EnableAgain(o) PROVE HistoryIs'
  <2>1. op[o].old \in Starts \cup {None} /\ (state' = "starting") \in BOOLEAN
    BY DEF Types, OpIs, Records, Starts
  <2> QED BY <1>8, <2>1, HistoryChanges DEF EnableAgain, Types, HistoryIs
<1>9. ASSUME NEW o \in Ops, Begin(o) PROVE HistoryIs'
  BY <1>9, BeginFacts DEF Types, HistoryIs
<1>10. ASSUME NEW o \in Ops, Connect(o) PROVE HistoryIs'
  BY <1>10, ConnectFacts DEF Types, HistoryIs
<1>11. ASSUME NEW o \in Ops, Outdated(o) PROVE HistoryIs'
  BY <1>11, OutdatedFacts DEF Types, HistoryIs
<1>12. ASSUME NEW o \in Ops, ConnectFailed(o) PROVE HistoryIs'
  BY <1>12, ConnectFailedFacts DEF Types, HistoryIs
<1>13. ASSUME NEW o \in Ops, Publish(o) PROVE HistoryIs'
  BY <1>13, HistoryTypes, HistoryChanges DEF Publish, Types, HistoryIs
<1>14. ASSUME NEW o \in Ops, Activate(o) PROVE HistoryIs'
  BY <1>14, ActivateFacts DEF Types, HistoryIs
<1>15. ASSUME NEW o \in Ops, TooLate(o) PROVE HistoryIs'
  BY <1>15, TooLateFacts DEF Types, HistoryIs
<1>16. ASSUME NEW o \in Ops, SyncFailed(o) PROVE HistoryIs'
  BY <1>16, SyncFailedFacts DEF Types, HistoryIs
<1>17. ASSUME NEW o \in Ops, GiveUp(o) PROVE HistoryIs'
  BY <1>17, GiveUpFacts DEF Types, HistoryIs
<1>18. ASSUME NEW o \in Ops, Notify(o) PROVE HistoryIs'
  BY <1>18, HistoryTypes, HistoryChanges DEF Notify, Types, HistoryIs
<1>19. CASE Flush
  BY <1>19, FlushFacts DEF Types, HistoryIs
<1>20. CASE Publisher
  BY <1>20, PublisherFacts DEF Types, HistoryIs
<1>21. CASE Close
  BY <1>21, HistoryTypes, HistoryChanges DEF Close, Types, HistoryIs
<1>22. CASE UNCHANGED vars
  BY <1>22, NothingFacts DEF Types, HistoryIs
<1> QED BY <1>1, <1>2, <1>3, <1>4, <1>5, <1>6, <1>7, <1>8, <1>9, <1>10, <1>11, <1>12, <1>13, <1>14,
    <1>15, <1>16, <1>17, <1>18, <1>19, <1>20, <1>21, <1>22 DEF Next, Operation

\* Every step keeps the types of the notifications.
LEMMA NotesIsStep == Types /\ Noted /\ [Next]_vars => NotesIs'
<1> SUFFICES ASSUME Types, Noted, [Next]_vars PROVE NotesIs'
  OBVIOUS
<1>1. ASSUME NEW o \in Ops, NEW new \in Configs, SetConfig(o, new) PROVE NotesIs'
  <2>1. Shown(new) \in States
    BY DEF Shown, States
  <2> QED BY <1>1, <2>1, SetConfigFacts, ToldType DEF Types, NotesIs
<1>2. ASSUME NEW o \in Ops, Boot(o) PROVE NotesIs'
  BY <1>2, BootFacts DEF Types, NotesIs
<1>3. ASSUME NEW o \in Ops, StartAsync(o) PROVE NotesIs'
  <2>1. "starting" \in States
    BY DEF States
  <2> QED BY <1>3, <2>1, StartAsyncFacts, ToldType DEF Types, NotesIs
<1>4. ASSUME NEW o \in Ops, Reload(o) PROVE NotesIs'
  BY <1>4, ReloadFacts DEF Types, NotesIs
<1>5. ASSUME NEW o \in Ops, NEW enable \in BOOLEAN, Restart(o, enable) PROVE NotesIs'
  <2>1. Told(o, "starting") /\ "starting" \in States /\ queue' = queue
    BY <1>5, RestartFacts, ScalarsStep DEF States, Scalars, Types
  <2> QED BY <2>1, ToldType DEF Types, NotesIs
<1>6. ASSUME NEW o \in Ops, Disable(o) PROVE NotesIs'
  BY <1>6, DisableFacts DEF Types, NotesIs
<1>7. ASSUME NEW o \in Ops, Disabled(o) PROVE NotesIs'
  <2>1. Told(o, state) /\ state \in States /\ queue' = queue
    BY <1>7, DisabledFacts, ScalarsStep DEF States, Scalars, Types
  <2> QED BY <2>1, ToldType DEF Types, NotesIs
<1>8. ASSUME NEW o \in Ops, EnableAgain(o) PROVE NotesIs'
  BY <1>8, EnableAgainFacts DEF Types, NotesIs
<1>9. ASSUME NEW o \in Ops, Begin(o) PROVE NotesIs'
  BY <1>9, BeginFacts DEF Types, NotesIs
<1>10. ASSUME NEW o \in Ops, Connect(o) PROVE NotesIs'
  BY <1>10, ConnectFacts DEF Types, NotesIs
<1>11. ASSUME NEW o \in Ops, Outdated(o) PROVE NotesIs'
  BY <1>11, OutdatedFacts DEF Types, NotesIs
<1>12. ASSUME NEW o \in Ops, ConnectFailed(o) PROVE NotesIs'
  <2>1. Told(o, state') /\ state' \in States /\ queue' = queue
    BY <1>12, ConnectFailedFacts, ScalarsStep DEF States, Scalars, Types
  <2> QED BY <2>1, ToldType DEF Types, NotesIs
<1>13. ASSUME NEW o \in Ops, Publish(o) PROVE NotesIs'
  BY <1>13, PublishFacts DEF Types, NotesIs
<1>14. ASSUME NEW o \in Ops, Activate(o) PROVE NotesIs'
  <2>1. Told(o, "active") /\ "active" \in States /\ queue' = queue
    BY <1>14, ActivateFacts, ScalarsStep DEF States, Scalars, Types
  <2> QED BY <2>1, ToldType DEF Types, NotesIs
<1>15. ASSUME NEW o \in Ops, TooLate(o) PROVE NotesIs'
  BY <1>15, TooLateFacts DEF Types, NotesIs
<1>16. ASSUME NEW o \in Ops, SyncFailed(o) PROVE NotesIs'
  <2>1. Told(o, state') /\ state' \in States /\ queue' = queue
    BY <1>16, SyncFailedFacts, ScalarsStep DEF States, Scalars, Types
  <2> QED BY <2>1, ToldType DEF Types, NotesIs
<1>17. ASSUME NEW o \in Ops, GiveUp(o) PROVE NotesIs'
  BY <1>17, GiveUpFacts DEF Types, NotesIs
<1>18. ASSUME NEW o \in Ops, Notify(o) PROVE NotesIs'
  <2>1. At(o, "notify") /\ queue' = Append(queue, notes[Mine(o)].state) /\ notes' = Without(Mine(o))
    BY <1>18, NotifyFacts DEF At
  <2>2. notes' \in Seq(Notice) /\ notes[Mine(o)].state \in States
    BY <2>1, MineFacts, NoticeFacts
  <2> QED BY <2>1, <2>2, AppendProperties DEF Types, NotesIs
<1>19. CASE Flush
  BY <1>19, FlushFacts DEF Types, NotesIs
<1>20. CASE Publisher
  <2>1. queue # <<>> => Tail(queue) \in Seq(States)
    BY HeadTailProperties DEF Types, NotesIs
  <2> QED BY <1>20, <2>1, PublisherFacts DEF Types, NotesIs
<1>21. CASE Close
  BY <1>21, CloseFacts DEF Types, NotesIs
<1>22. CASE UNCHANGED vars
  BY <1>22, NothingFacts DEF Types, NotesIs
<1> QED BY <1>1, <1>2, <1>3, <1>4, <1>5, <1>6, <1>7, <1>8, <1>9, <1>10, <1>11, <1>12, <1>13, <1>14,
    <1>15, <1>16, <1>17, <1>18, <1>19, <1>20, <1>21, <1>22 DEF Next, Operation

\* Every step keeps the types.
LEMMA TypesStep == Types /\ Noted /\ [Next]_vars => Types'
BY ScalarsStep, GenStep, OpIsStep, HistoryIsStep, NotesIsStep DEF Types, Scalars, GenIs

-----------------------------------------------------------------------------
(* Operations that wait for the catalog, or to notify.                     *)

\* The operation waits for the catalog.
Syncing(o) == op[o].pc \in {"sync", "offsync"}

\* These are the waiters.
Waiters == \A o \in Ops : o \in waiters <=> Syncing(o)

\* What follows a notification.
LEMMA ThenFacts ==
  ASSUME Types
  PROVE  \A o \in Ops : op[o].then \in {"done", "async", "reload", "begin"}
BY DEF Types, OpIs, Records, Starts

\* Steps that tell nothing keep Noted.
LEMMA NotedSame ==
  ASSUME Types, Noted, NEW o \in Ops, Others(o), op[o].pc # "notify", op'[o].pc # "notify",
         notes' = notes
  PROVE  Noted'
<1>1. \A i \in 1 .. Len(notes) : notes[i].op \in Ops
  BY NoticeFacts
<1>2. \A p \in Ops : op'[p].pc = "notify" <=> op[p].pc = "notify"
  BY DEF Others, Starts
<1> QED BY <1>1, <1>2 DEF Noted, At

\* Steps that tell something keep Noted.
LEMMA NotedMore ==
  ASSUME Types, Noted, NEW o \in Ops, NEW s \in States, Others(o), op[o].pc # "notify",
         op'[o].pc = "notify", Told(o, s)
  PROVE  Noted'
<1>1. /\ Len(notes') = Len(notes) + 1 /\ Len(notes) \in Nat
      /\ notes'[Len(notes) + 1] = [op |-> o, state |-> s]
      /\ \A i \in 1 .. Len(notes) : notes'[i] = notes[i]
  BY AppendProperties, LenProperties DEF Types, NotesIs, Notice, Told
<1>2. \A i \in 1 .. Len(notes) : notes[i].op \in Ops /\ notes[i].op # o
  BY NoticeFacts DEF Noted, At
<1>3. \A p \in Ops : op'[p].pc = "notify" <=> p = o \/ op[p].pc = "notify"
  BY DEF Others, Starts
<1> DEFINE n == Len(notes)
<1>4. notes'[n + 1].op = o
  BY <1>1
<1> HIDE DEF n
<1>5. ASSUME NEW i \in 1 .. n + 1
      PROVE  \/ (i = n + 1 /\ notes'[i].op = o)
             \/ (i \in 1 .. n /\ notes'[i] = notes[i] /\ notes[i].op # o)
  BY <1>1, <1>2, <1>4 DEF n
<1>6. \A i \in 1 .. n + 1 : op'[notes'[i].op].pc = "notify"
  BY <1>1, <1>2, <1>3, <1>5 DEF n, Noted, At
<1>7. ASSUME NEW p \in Ops, op'[p].pc = "notify" PROVE \E i \in 1 .. n + 1 : notes'[i].op = p
  <2>1. CASE p = o
    <3>1. n + 1 \in 1 .. n + 1
      BY <1>1 DEF n
    <3> QED BY <1>4, <2>1, <3>1
  <2>2. CASE p # o
    <3>1. PICK i \in 1 .. n : notes[i].op = p
      BY <1>3, <1>7, <2>2 DEF n, Noted, At
    <3> QED BY <1>1, <3>1 DEF n
  <2> QED BY <2>1, <2>2
<1>8. \A i, j \in 1 .. n + 1 : notes'[i].op = notes'[j].op => i = j
  BY <1>5 DEF n, Noted
<1> QED BY <1>1, <1>6, <1>7, <1>8 DEF Noted, At, n

\* The delivery of a notification keeps Noted.
LEMMA NotedLess ==
  ASSUME Types, Noted, NEW o \in Ops, Others(o), op[o].pc = "notify", op'[o].pc # "notify",
         notes' = Without(Mine(o))
  PROVE  Noted'
<1> DEFINE m == Mine(o)
           n == Len(notes)
<1>1. /\ m \in 1 .. n /\ n \in Nat /\ notes[m].op = o /\ Len(notes') = n - 1
      /\ \A j \in 1 .. n - 1 : notes'[j] = IF j < m THEN notes[j] ELSE notes[j + 1]
  BY MineFacts, NoticeFacts DEF At
<1> HIDE DEF m, n
<1>2. \A i \in 1 .. n : notes[i].op \in Ops
  BY NoticeFacts DEF n
<1>3. \A i \in 1 .. n : i # m => notes[i].op # o /\ op[notes[i].op].pc = "notify"
  BY <1>1 DEF Noted, At, n
<1>4. \A p \in Ops : op'[p].pc = "notify" <=> p # o /\ op[p].pc = "notify"
  BY DEF Others, Starts
<1>5. ASSUME NEW j \in 1 .. n - 1
      PROVE  \E i \in 1 .. n : notes'[j] = notes[i] /\ i # m /\ i = IF j < m THEN j ELSE j + 1
  BY <1>1
<1>6. \A j \in 1 .. n - 1 : op'[notes'[j].op].pc = "notify"
  BY <1>2, <1>3, <1>4, <1>5
<1>7. ASSUME NEW p \in Ops, op'[p].pc = "notify" PROVE \E j \in 1 .. n - 1 : notes'[j].op = p
  <2>1. PICK i \in 1 .. n : notes[i].op = p /\ i # m
    BY <1>1, <1>4, <1>7 DEF n, Noted, At
  <2>2. CASE i < m
    BY <1>1, <2>1, <2>2
  <2>3. CASE ~(i < m)
    <3>1. i - 1 \in 1 .. n - 1 /\ ~(i - 1 < m) /\ i - 1 + 1 = i
      BY <1>1, <2>1, <2>3
    <3> QED BY <1>1, <2>1, <3>1
  <2> QED BY <2>2, <2>3
<1>8. ASSUME NEW i \in 1 .. n - 1, NEW j \in 1 .. n - 1, notes'[i].op = notes'[j].op PROVE i = j
  BY <1>1, <1>5, <1>8 DEF n, Noted
<1> QED BY <1>1, <1>6, <1>7, <1>8 DEF Noted, At

\* Every step keeps Waiters.
LEMMA WaitersStep == Types /\ Waiters /\ [Next]_vars => Waiters'
<1> SUFFICES ASSUME Types, Waiters, [Next]_vars PROVE Waiters'
  OBVIOUS
<1>1. ASSUME NEW o \in Ops, NEW new \in Configs, SetConfig(o, new) PROVE Waiters'
  <2>1. /\ Others(o) /\ op[o].pc = "none" /\ waiters' = waiters
        /\ op'[o].pc = (IF new = Absent THEN "reload" ELSE "notify")
    BY <1>1, SetConfigFacts
  <2> QED BY <2>1 DEF Waiters, Syncing, Others, Starts
<1>2. ASSUME NEW o \in Ops, Boot(o) PROVE Waiters'
  <2>1. /\ Others(o) /\ op[o].pc = "none" /\ ~started /\ ~closed /\ waiters' = waiters
        /\ op'[o].pc = (IF cfg.enabled THEN "async" ELSE "done")
    BY <1>2, BootFacts
  <2> QED BY <2>1 DEF Waiters, Syncing, Others, Starts
<1>3. ASSUME NEW o \in Ops, StartAsync(o) PROVE Waiters'
  <2>1. /\ Others(o) /\ op[o].pc = "async" /\ waiters' = waiters
        /\ closed =>
             op'[o].pc = (IF op[o].config THEN "reload" ELSE "done") /\ op'[o].then = op[o].then
        /\ ~closed => op'[o].pc = "notify" /\ op'[o].then = "begin"
    BY <1>3, StartAsyncFacts
  <2> QED BY <2>1 DEF Waiters, Syncing, Others, Starts
<1>4. ASSUME NEW o \in Ops, Reload(o) PROVE Waiters'
  <2>1. /\ Others(o) /\ waiters' = waiters
        /\ \/ op[o].pc = "reload" /\ op'[o].pc = "done" /\ reloading' = reloading
           \/ o \in reloading /\ op'[o].pc = op[o].pc /\ reloading' = reloading \ {o}
    BY <1>4, ReloadFacts
  <2> QED BY <2>1 DEF Waiters, Syncing, Others, Starts
<1>5. ASSUME NEW o \in Ops, NEW enable \in BOOLEAN, Restart(o, enable) PROVE Waiters'
  <2>1. /\ Others(o) /\ op'[o].pc = "notify" /\ op[o].pc = "none" /\ ~closed /\ cfg # Absent
        /\ waiters' = waiters
        /\ (enable \/ client # None)
    BY <1>5, RestartFacts
  <2> QED BY <2>1 DEF Waiters, Syncing, Others, Starts
<1>6. ASSUME NEW o \in Ops, Disable(o) PROVE Waiters'
  <2>1. /\ Others(o) /\ op'[o].pc = "offsync" /\ op[o].pc = "none" /\ ~closed /\ cfg # Absent
        /\ waiters' = waiters \cup {o}
    BY <1>6, DisableFacts
  <2> QED BY <2>1 DEF Waiters, Syncing, Others, Starts
<1>7. ASSUME NEW o \in Ops, Disabled(o) PROVE Waiters'
  <2>1. /\ Others(o) /\ op'[o].pc = "notify" /\ op[o].pc = "off" /\ waiters' = waiters
    BY <1>7, DisabledFacts
  <2> QED BY <2>1 DEF Waiters, Syncing, Others, Starts
<1>8. ASSUME NEW o \in Ops, EnableAgain(o) PROVE Waiters'
  <2>1. /\ Others(o) /\ op'[o].pc = "done" /\ op[o].pc = "offfailed" /\ waiters' = waiters
    BY <1>8, EnableAgainFacts
  <2> QED BY <2>1 DEF Waiters, Syncing, Others, Starts
<1>9. ASSUME NEW o \in Ops, Begin(o) PROVE Waiters'
  <2>1. /\ Others(o) /\ op[o].pc = "begin" /\ waiters' = waiters
        /\ op'[o].pc = (IF closed \/ gen # op[o].gen THEN "done" ELSE "connect")
    BY <1>9, BeginFacts
  <2> QED BY <2>1 DEF Waiters, Syncing, Others, Starts
<1>10. ASSUME NEW o \in Ops, Connect(o) PROVE Waiters'
  <2>1. /\ Others(o) /\ op'[o].pc = "publish" /\ op[o].pc = "connect" /\ waiters' = waiters
    BY <1>10, ConnectFacts
  <2> QED BY <2>1 DEF Waiters, Syncing, Others, Starts
<1>11. ASSUME NEW o \in Ops, Outdated(o) PROVE Waiters'
  <2>1. /\ Others(o) /\ op'[o].pc = "done" /\ op[o].pc = "publish" /\ ~Valid(o)
        /\ waiters' = waiters
    BY <1>11, OutdatedFacts
  <2> QED BY <2>1 DEF Waiters, Syncing, Others, Starts
<1>12. ASSUME NEW o \in Ops, ConnectFailed(o) PROVE Waiters'
  <2>1. /\ Others(o) /\ op'[o].pc = "notify" /\ op[o].pc = "publish" /\ Valid(o) /\ ~op[o].got
        /\ waiters' = waiters
    BY <1>12, ConnectFailedFacts
  <2> QED BY <2>1 DEF Waiters, Syncing, Others, Starts
<1>13. ASSUME NEW o \in Ops, Publish(o) PROVE Waiters'
  <2>1. /\ Others(o) /\ op'[o].pc = "sync" /\ op[o].pc = "publish" /\ Valid(o) /\ op[o].got
        /\ waiters' = waiters \cup {o}
    BY <1>13, PublishFacts
  <2> QED BY <2>1 DEF Waiters, Syncing, Others, Starts
<1>14. ASSUME NEW o \in Ops, Activate(o) PROVE Waiters'
  <2>1. /\ Others(o) /\ op'[o].pc = "notify" /\ op[o].pc = "synced" /\ Valid(o) /\ client = o
        /\ waiters' = waiters
    BY <1>14, ActivateFacts
  <2> QED BY <2>1 DEF Waiters, Syncing, Others, Starts
<1>15. ASSUME NEW o \in Ops, TooLate(o) PROVE Waiters'
  <2>1. /\ Others(o) /\ op'[o].pc = "done" /\ op[o].pc = "synced" /\ ~(Valid(o) /\ client = o)
        /\ waiters' = waiters
    BY <1>15, TooLateFacts
  <2> QED BY <2>1 DEF Waiters, Syncing, Others, Starts
<1>16. ASSUME NEW o \in Ops, SyncFailed(o) PROVE Waiters'
  <2>1. /\ Others(o) /\ op'[o].pc = "notify" /\ op[o].pc = "unsynced" /\ waiters' = waiters
    BY <1>16, SyncFailedFacts
  <2> QED BY <2>1 DEF Waiters, Syncing, Others, Starts
<1>17. ASSUME NEW o \in Ops, GiveUp(o) PROVE Waiters'
  <2>1. /\ Others(o) /\ closed /\ o \in waiters /\ waiters' = waiters \ {o}
        /\ op'[o].pc = (IF op[o].pc = "offsync" THEN "offfailed" ELSE "unsynced")
    BY <1>17, GiveUpFacts
  <2> QED BY <2>1 DEF Waiters, Syncing, Others, Starts
<1>18. ASSUME NEW o \in Ops, Notify(o) PROVE Waiters'
  <2>1. /\ Others(o) /\ op'[o].pc = op[o].then /\ op[o].pc = "notify" /\ waiters' = waiters
    BY <1>18, NotifyFacts
  <2>2. op[o].then \in {"done", "async", "reload", "begin"}
    BY ThenFacts
  <2> QED BY <2>1, <2>2 DEF Waiters, Syncing, Others, Starts
<1>19. CASE Flush
  <2>1. \A p \in Ops : ~Syncing(p)'
    BY <1>19, FlushFacts DEF Waiters, Syncing, Starts
  <2> QED BY <1>19, <2>1, FlushFacts DEF Waiters
<1>20. CASE Publisher
  <2>1. /\ wake /\ op' = op /\ waiters' = waiters
    BY <1>20, PublisherFacts
  <2> QED BY <2>1 DEF Waiters, Syncing, Others, Starts
<1>21. CASE Close
  <2>1. /\ ~closed /\ op' = op /\ waiters' = waiters
    BY <1>21, CloseFacts
  <2> QED BY <2>1 DEF Waiters, Syncing, Others, Starts
<1>22. CASE UNCHANGED vars
  <2>1. /\ op' = op /\ waiters' = waiters
    BY <1>22, NothingFacts
  <2> QED BY <2>1 DEF Waiters, Syncing, Others, Starts
<1> QED BY <1>1, <1>2, <1>3, <1>4, <1>5, <1>6, <1>7, <1>8, <1>9, <1>10, <1>11, <1>12, <1>13, <1>14,
    <1>15, <1>16, <1>17, <1>18, <1>19, <1>20, <1>21, <1>22 DEF Next, Operation

\* Every step keeps Noted.
LEMMA NotedStep == Types /\ Waiters /\ Noted /\ [Next]_vars => Noted'
<1> SUFFICES ASSUME Types, Waiters, Noted, [Next]_vars PROVE Noted'
  OBVIOUS
<1>1. ASSUME NEW o \in Ops, NEW new \in Configs, SetConfig(o, new) PROVE Noted'
  <2>1. op[o].pc # "notify" /\ Others(o)
        /\ op'[o].pc = (IF new = Absent THEN "reload" ELSE "notify")
        /\ (new = Absent => notes' = notes) /\ (new # Absent => Told(o, Shown(new)))
    BY <1>1, SetConfigFacts
  <2>2. Shown(new) \in States
    BY DEF Shown, States
  <2> QED BY <2>1, <2>2, NotedSame, NotedMore
<1>2. ASSUME NEW o \in Ops, Boot(o) PROVE Noted'
  <2>1. op[o].pc # "notify" /\ op'[o].pc # "notify" /\ Others(o) /\ notes' = notes
    BY <1>2, BootFacts
  <2> QED BY <2>1, NotedSame
<1>3. ASSUME NEW o \in Ops, StartAsync(o) PROVE Noted'
  <2>1. op[o].pc # "notify" /\ Others(o)
        /\ (closed => op'[o].pc # "notify" /\ notes' = notes)
        /\ (~closed => op'[o].pc = "notify" /\ Told(o, "starting"))
    BY <1>3, StartAsyncFacts
  <2>2. "starting" \in States
    BY DEF States
  <2> QED BY <2>1, <2>2, NotedSame, NotedMore
<1>4. ASSUME NEW o \in Ops, Reload(o) PROVE Noted'
  <2>1. Others(o) /\ notes' = notes /\ (op[o].pc = "notify" <=> op'[o].pc = "notify")
    BY <1>4, ReloadFacts
  <2>2. \A p \in Ops : op'[p].pc = "notify" <=> op[p].pc = "notify"
    BY <2>1 DEF Others, Starts
  <2>3. \A i \in 1 .. Len(notes) : notes[i].op \in Ops
    BY NoticeFacts
  <2> QED BY <2>1, <2>2, <2>3 DEF Noted, At
<1>5. ASSUME NEW o \in Ops, NEW enable \in BOOLEAN, Restart(o, enable) PROVE Noted'
  <2>1. op[o].pc # "notify" /\ op'[o].pc = "notify" /\ Others(o) /\ Told(o, "starting")
    BY <1>5, RestartFacts
  <2>2. "starting" \in States
    BY ScalarsStep DEF States, Scalars, Types
  <2> QED BY <2>1, <2>2, NotedMore
<1>6. ASSUME NEW o \in Ops, Disable(o) PROVE Noted'
  <2>1. op[o].pc # "notify" /\ op'[o].pc # "notify" /\ Others(o) /\ notes' = notes
    BY <1>6, DisableFacts
  <2> QED BY <2>1, NotedSame
<1>7. ASSUME NEW o \in Ops, Disabled(o) PROVE Noted'
  <2>1. op[o].pc # "notify" /\ op'[o].pc = "notify" /\ Others(o) /\ Told(o, state)
    BY <1>7, DisabledFacts
  <2>2. state \in States
    BY ScalarsStep DEF States, Scalars, Types
  <2> QED BY <2>1, <2>2, NotedMore
<1>8. ASSUME NEW o \in Ops, EnableAgain(o) PROVE Noted'
  <2>1. op[o].pc # "notify" /\ op'[o].pc # "notify" /\ Others(o) /\ notes' = notes
    BY <1>8, EnableAgainFacts
  <2> QED BY <2>1, NotedSame
<1>9. ASSUME NEW o \in Ops, Begin(o) PROVE Noted'
  <2>1. op[o].pc # "notify" /\ op'[o].pc # "notify" /\ Others(o) /\ notes' = notes
    BY <1>9, BeginFacts
  <2> QED BY <2>1, NotedSame
<1>10. ASSUME NEW o \in Ops, Connect(o) PROVE Noted'
  <2>1. op[o].pc # "notify" /\ op'[o].pc # "notify" /\ Others(o) /\ notes' = notes
    BY <1>10, ConnectFacts
  <2> QED BY <2>1, NotedSame
<1>11. ASSUME NEW o \in Ops, Outdated(o) PROVE Noted'
  <2>1. op[o].pc # "notify" /\ op'[o].pc # "notify" /\ Others(o) /\ notes' = notes
    BY <1>11, OutdatedFacts
  <2> QED BY <2>1, NotedSame
<1>12. ASSUME NEW o \in Ops, ConnectFailed(o) PROVE Noted'
  <2>1. op[o].pc # "notify" /\ op'[o].pc = "notify" /\ Others(o) /\ Told(o, state')
    BY <1>12, ConnectFailedFacts
  <2>2. state' \in States
    BY ScalarsStep DEF States, Scalars, Types
  <2> QED BY <2>1, <2>2, NotedMore
<1>13. ASSUME NEW o \in Ops, Publish(o) PROVE Noted'
  <2>1. op[o].pc # "notify" /\ op'[o].pc # "notify" /\ Others(o) /\ notes' = notes
    BY <1>13, PublishFacts
  <2> QED BY <2>1, NotedSame
<1>14. ASSUME NEW o \in Ops, Activate(o) PROVE Noted'
  <2>1. op[o].pc # "notify" /\ op'[o].pc = "notify" /\ Others(o) /\ Told(o, "active")
    BY <1>14, ActivateFacts
  <2>2. "active" \in States
    BY ScalarsStep DEF States, Scalars, Types
  <2> QED BY <2>1, <2>2, NotedMore
<1>15. ASSUME NEW o \in Ops, TooLate(o) PROVE Noted'
  <2>1. op[o].pc # "notify" /\ op'[o].pc # "notify" /\ Others(o) /\ notes' = notes
    BY <1>15, TooLateFacts
  <2> QED BY <2>1, NotedSame
<1>16. ASSUME NEW o \in Ops, SyncFailed(o) PROVE Noted'
  <2>1. op[o].pc # "notify" /\ op'[o].pc = "notify" /\ Others(o) /\ Told(o, state')
    BY <1>16, SyncFailedFacts
  <2>2. state' \in States
    BY ScalarsStep DEF States, Scalars, Types
  <2> QED BY <2>1, <2>2, NotedMore
<1>17. ASSUME NEW o \in Ops, GiveUp(o) PROVE Noted'
  <2>1. op[o].pc # "notify" /\ op'[o].pc # "notify" /\ Others(o) /\ notes' = notes
    BY <1>17, GiveUpFacts DEF Waiters, Syncing
  <2> QED BY <2>1, NotedSame
<1>18. ASSUME NEW o \in Ops, Notify(o) PROVE Noted'
  <2>1. op[o].pc = "notify" /\ op'[o].pc = op[o].then /\ Others(o) /\ notes' = Without(Mine(o))
    BY <1>18, NotifyFacts
  <2>2. op[o].then # "notify"
    BY DEF Types, OpIs, Records, Starts
  <2> QED BY <2>1, <2>2, NotedLess
<1>19. CASE Flush
  <2>1. \A p \in Ops : op'[p].pc = "notify" <=> op[p].pc = "notify"
    BY <1>19, FlushFacts DEF Starts, Waiters, Syncing
  <2>2. notes' = notes
    BY <1>19, FlushFacts
  <2>3. \A i \in 1 .. Len(notes) : notes[i].op \in Ops
    BY NoticeFacts
  <2> QED BY <2>1, <2>2, <2>3 DEF Noted, At
<1>20. CASE Publisher
  BY <1>20, PublisherFacts DEF Noted, At
<1>21. CASE Close
  BY <1>21, CloseFacts DEF Noted, At
<1>22. CASE UNCHANGED vars
  BY <1>22, NothingFacts DEF Noted, At
<1> QED BY <1>1, <1>2, <1>3, <1>4, <1>5, <1>6, <1>7, <1>8, <1>9, <1>10, <1>11, <1>12, <1>13, <1>14,
    <1>15, <1>16, <1>17, <1>18, <1>19, <1>20, <1>21, <1>22 DEF Next, Operation

-----------------------------------------------------------------------------
(* Every client is somebody's.                                             *)

\* No operation has the name of no client, or of the first one.
LEMMA NoneFacts ==
  ASSUME Types
  PROVE  None \notin open /\ \A o \in Ops : o # None /\ o # First
BY McpAssumption DEF Types, Starts

\* To an operation, Flush is the end of its waiting or nothing.
LEMMA FlushStages ==
  ASSUME Types, Waiters, Flush
  PROVE  \A p \in Ops :
           /\ \/ op'[p].pc = op[p].pc
              \/ op[p].pc = "sync" /\ op'[p].pc \in {"synced", "unsynced"}
              \/ op[p].pc = "offsync" /\ op'[p].pc \in {"off", "offfailed"}
           /\ op'[p].then = op[p].then /\ op'[p].config = op[p].config
           /\ op'[p].ver = op[p].ver /\ op'[p].gen = op[p].gen
           /\ op'[p].got = op[p].got /\ op'[p].old = op[p].old
           /\ op'[p].prev = op[p].prev
<1>1. \A p \in Ops : p \notin waiters => op'[p] = op[p]
  BY FlushFacts DEF Starts
<1>2. \A p \in waiters :
        \/ op'[p].pc = (IF op[p].pc = "offsync" THEN "off" ELSE "synced")
        \/ op'[p].pc = (IF op[p].pc = "offsync" THEN "offfailed" ELSE "unsynced")
  BY FlushFacts
<1>3. \A p \in Ops :  /\ op'[p].then = op[p].then /\ op'[p].config = op[p].config
                             /\ op'[p].ver = op[p].ver /\ op'[p].gen = op[p].gen
                             /\ op'[p].got = op[p].got /\ op'[p].old = op[p].old
                             /\ op'[p].prev = op[p].prev
  BY FlushFacts DEF Starts
<1> QED BY <1>1, <1>2, <1>3 DEF Waiters, Syncing

\* Operations that hold on to the client they replace or remove.
Mid == Replacing \cup Removing

\* The operation has put its client into the table, or taken it away again.
Published(x) ==
  \/ x = First
  \/ x \in Ops /\ op[x].pc \in {"sync", "synced", "unsynced", "done"}
  \/ x \in Ops /\ op[x].pc = "notify" /\ op[x].then = "done"

\* The operation has no client yet.
Unopened(o) ==
  \/ op[o].pc \in {"none", "reload", "async", "begin", "connect"}
  \/ op[o].pc = "notify" /\ op[o].then # "done"
  \/ op[o].pc = "publish" /\ ~op[o].got

\* Clients that run were opened.
Opened == \A o \in Ops : Unopened(o) => o \notin open

\* A client in the table, or held on to, was put there by an operation that is past that.
Olds ==
  /\ client # None => Published(client) /\ cfg.enabled
  /\ \A o \in Ops : o \in Mid /\ op[o].old # None => Published(op[o].old) /\ op[o].old # o
  /\ \A o \in Ops : o \in Removing /\ op[o].old # None => op[o].prev.cfg.enabled

\* A client that runs is in the table, its operation is at it, another holds on to it,
\* or it has been dropped.
Held ==
  \A x \in open :
    \/ x = client
    \/ x \in Ops /\ op[x].pc \in {"publish", "sync", "synced", "unsynced"}
    \/ \E o \in Ops : o \in Mid /\ op[o].old = x
    \/ x \in history.dropped

\* A client that is held on to, and was not dropped, will be closed: its successor is valid.
Remembered ==
  \A o \in Ops : o \in Replacing =>
    op[o].old = None \/ op[o].old \in history.dropped \/ (Valid(o) /\ client = o)

\* Every step keeps Opened.
LEMMA OpenedStep == Types /\ Waiters /\ Opened /\ [Next]_vars => Opened'
<1> SUFFICES ASSUME Types, Waiters, Opened, [Next]_vars PROVE Opened'
  OBVIOUS
<1>1. ASSUME NEW o \in Ops, NEW new \in Configs, SetConfig(o, new) PROVE Opened'
  <2>1. /\ Others(o) /\ op'[o].got = FALSE /\ op[o].pc = "none"
        /\ op'[o].pc = (IF new = Absent THEN "reload" ELSE "notify")
        /\ op'[o].then = (IF Shown(new) = "starting" /\ started THEN "async" ELSE "reload")
        /\ open' = IF KeepsClient(new) THEN open ELSE open \ {client}
    BY <1>1, SetConfigFacts
  <2> QED BY <2>1 DEF Opened, Unopened, Others, Starts
<1>2. ASSUME NEW o \in Ops, Boot(o) PROVE Opened'
  <2>1. /\ Others(o) /\ op'[o].then = "done" /\ op'[o].got = FALSE /\ op[o].pc = "none" /\ ~started
        /\ ~closed /\ open' = open
        /\ op'[o].pc = (IF cfg.enabled THEN "async" ELSE "done")
    BY <1>2, BootFacts
  <2> QED BY <2>1 DEF Opened, Unopened, Others, Starts
<1>3. ASSUME NEW o \in Ops, StartAsync(o) PROVE Opened'
  <2>1. /\ Others(o) /\ op'[o].got = op[o].got /\ op[o].pc = "async" /\ open' = open
        /\ closed =>
             op'[o].pc = (IF op[o].config THEN "reload" ELSE "done") /\ op'[o].then = op[o].then
        /\ ~closed => op'[o].pc = "notify" /\ op'[o].then = "begin"
    BY <1>3, StartAsyncFacts
  <2> QED BY <2>1 DEF Opened, Unopened, Others, Starts
<1>4. ASSUME NEW o \in Ops, Reload(o) PROVE Opened'
  <2>1. /\ Others(o) /\ op'[o].then = op[o].then /\ op'[o].got = op[o].got /\ open' = open
        /\ \/ op[o].pc = "reload" /\ op'[o].pc = "done" /\ reloading' = reloading
           \/ o \in reloading /\ op'[o].pc = op[o].pc /\ reloading' = reloading \ {o}
    BY <1>4, ReloadFacts
  <2> QED BY <2>1 DEF Opened, Unopened, Others, Starts
<1>5. ASSUME NEW o \in Ops, NEW enable \in BOOLEAN, Restart(o, enable) PROVE Opened'
  <2>1. /\ Others(o) /\ op'[o].pc = "notify" /\ op'[o].then = "begin" /\ op'[o].got = FALSE
        /\ op[o].pc = "none" /\ ~closed /\ cfg # Absent /\ open' = open
        /\ (enable \/ client # None)
    BY <1>5, RestartFacts
  <2> QED BY <2>1 DEF Opened, Unopened, Others, Starts
<1>6. ASSUME NEW o \in Ops, Disable(o) PROVE Opened'
  <2>1. /\ Others(o) /\ op'[o].pc = "offsync" /\ op'[o].then = "done" /\ op'[o].got = FALSE
        /\ op[o].pc = "none" /\ ~closed /\ cfg # Absent /\ open' = open
    BY <1>6, DisableFacts
  <2> QED BY <2>1 DEF Opened, Unopened, Others, Starts
<1>7. ASSUME NEW o \in Ops, Disabled(o) PROVE Opened'
  <2>1. /\ Others(o) /\ op'[o].pc = "notify" /\ op'[o].then = "done" /\ op'[o].got = op[o].got
        /\ op[o].pc = "off" /\ open' = open \ {op[o].old}
    BY <1>7, DisabledFacts
  <2> QED BY <2>1 DEF Opened, Unopened, Others, Starts
<1>8. ASSUME NEW o \in Ops, EnableAgain(o) PROVE Opened'
  <2>1. /\ Others(o) /\ op'[o].pc = "done" /\ op'[o].then = op[o].then /\ op'[o].got = op[o].got
        /\ op[o].pc = "offfailed" /\ open' = open
    BY <1>8, EnableAgainFacts
  <2> QED BY <2>1 DEF Opened, Unopened, Others, Starts
<1>9. ASSUME NEW o \in Ops, Begin(o) PROVE Opened'
  <2>1. /\ Others(o) /\ op'[o].then = op[o].then /\ op'[o].got = op[o].got /\ op[o].pc = "begin"
        /\ open' = open
        /\ op'[o].pc = (IF closed \/ gen # op[o].gen THEN "done" ELSE "connect")
    BY <1>9, BeginFacts
  <2> QED BY <2>1 DEF Opened, Unopened, Others, Starts
<1>10. ASSUME NEW o \in Ops, Connect(o) PROVE Opened'
  <2>1. /\ Others(o) /\ op'[o].pc = "publish" /\ op'[o].then = op[o].then /\ op[o].pc = "connect"
        /\ (op'[o].got = TRUE /\ open' = open \cup {o}) \/ (op'[o].got = op[o].got /\ open' = open)
    BY <1>10, ConnectFacts
  <2> QED BY <2>1 DEF Opened, Unopened, Others, Starts
<1>11. ASSUME NEW o \in Ops, Outdated(o) PROVE Opened'
  <2>1. /\ Others(o) /\ op'[o].pc = "done" /\ op'[o].then = op[o].then /\ op'[o].got = op[o].got
        /\ op[o].pc = "publish" /\ ~Valid(o) /\ open' = open \ {o}
    BY <1>11, OutdatedFacts
  <2> QED BY <2>1 DEF Opened, Unopened, Others, Starts
<1>12. ASSUME NEW o \in Ops, ConnectFailed(o) PROVE Opened'
  <2>1. /\ Others(o) /\ op'[o].pc = "notify" /\ op'[o].then = "done" /\ op'[o].got = op[o].got
        /\ op[o].pc = "publish" /\ Valid(o) /\ ~op[o].got /\ open' = open
    BY <1>12, ConnectFailedFacts
  <2> QED BY <2>1 DEF Opened, Unopened, Others, Starts
<1>13. ASSUME NEW o \in Ops, Publish(o) PROVE Opened'
  <2>1. /\ Others(o) /\ op'[o].pc = "sync" /\ op'[o].then = op[o].then /\ op'[o].got = op[o].got
        /\ op[o].pc = "publish" /\ Valid(o) /\ op[o].got /\ open' = open
    BY <1>13, PublishFacts
  <2> QED BY <2>1 DEF Opened, Unopened, Others, Starts
<1>14. ASSUME NEW o \in Ops, Activate(o) PROVE Opened'
  <2>1. /\ Others(o) /\ op'[o].pc = "notify" /\ op'[o].then = "done" /\ op'[o].got = op[o].got
        /\ op[o].pc = "synced" /\ Valid(o) /\ client = o /\ open' = open \ {op[o].old}
    BY <1>14, ActivateFacts
  <2> QED BY <2>1 DEF Opened, Unopened, Others, Starts
<1>15. ASSUME NEW o \in Ops, TooLate(o) PROVE Opened'
  <2>1. /\ Others(o) /\ op'[o].pc = "done" /\ op'[o].then = op[o].then /\ op'[o].got = op[o].got
        /\ op[o].pc = "synced" /\ ~(Valid(o) /\ client = o) /\ open' = open \ {o}
    BY <1>15, TooLateFacts
  <2> QED BY <2>1 DEF Opened, Unopened, Others, Starts
<1>16. ASSUME NEW o \in Ops, SyncFailed(o) PROVE Opened'
  <2>1. /\ Others(o) /\ op'[o].pc = "notify" /\ op'[o].then = "done" /\ op'[o].got = op[o].got
        /\ op[o].pc = "unsynced" /\ open' = open \ {o}
    BY <1>16, SyncFailedFacts
  <2> QED BY <2>1 DEF Opened, Unopened, Others, Starts
<1>17. ASSUME NEW o \in Ops, GiveUp(o) PROVE Opened'
  <2>1. /\ Others(o) /\ op'[o].then = op[o].then /\ op'[o].got = op[o].got /\ closed
        /\ o \in waiters /\ open' = open
        /\ op'[o].pc = (IF op[o].pc = "offsync" THEN "offfailed" ELSE "unsynced")
    BY <1>17, GiveUpFacts
  <2> QED BY <2>1 DEF Opened, Unopened, Others, Starts
<1>18. ASSUME NEW o \in Ops, Notify(o) PROVE Opened'
  <2>1. /\ Others(o) /\ op'[o].pc = op[o].then /\ op'[o].then = op[o].then
        /\ op'[o].got = op[o].got /\ op[o].pc = "notify" /\ open' = open
    BY <1>18, NotifyFacts
  <2> QED BY <2>1 DEF Opened, Unopened, Others, Starts
<1>19. CASE Flush
  BY <1>19, FlushFacts DEF Opened, Unopened, Others, Starts
<1>20. CASE Publisher
  <2>1. /\ wake /\ op' = op /\ open' = open
    BY <1>20, PublisherFacts
  <2> QED BY <2>1 DEF Opened, Unopened, Others, Starts
<1>21. CASE Close
  <2>1. /\ ~closed /\ open' = open \ {client} /\ op' = op
    BY <1>21, CloseFacts
  <2> QED BY <2>1 DEF Opened, Unopened, Others, Starts
<1>22. CASE UNCHANGED vars
  <2>1. /\ op' = op /\ open' = open
    BY <1>22, NothingFacts
  <2> QED BY <2>1 DEF Opened, Unopened, Others, Starts
<1> QED BY <1>1, <1>2, <1>3, <1>4, <1>5, <1>6, <1>7, <1>8, <1>9, <1>10, <1>11, <1>12, <1>13, <1>14,
    <1>15, <1>16, <1>17, <1>18, <1>19, <1>20, <1>21, <1>22 DEF Next, Operation

\* Every step keeps Olds.
LEMMA OldsStep == Types /\ Waiters /\ Olds /\ [Next]_vars => Olds'
<1> SUFFICES ASSUME Types, Waiters, Olds, [Next]_vars PROVE Olds'
  OBVIOUS
<1>1. ASSUME NEW o \in Ops, NEW new \in Configs, SetConfig(o, new) PROVE Olds'
  <2>1. /\ Others(o) /\ op'[o].old = None /\ op[o].pc = "none" /\ cfg' = new
        /\ op'[o].pc = (IF new = Absent THEN "reload" ELSE "notify")
        /\ op'[o].then = (IF Shown(new) = "starting" /\ started THEN "async" ELSE "reload")
        /\ client' = IF KeepsClient(new) THEN client ELSE None
    BY <1>1, SetConfigFacts
  <2> QED BY <2>1 DEF Olds, Mid, Replacing, Removing, Published, Others, Starts, KeepsClient
<1>2. ASSUME NEW o \in Ops, Boot(o) PROVE Olds'
  <2>1. /\ Others(o) /\ op'[o].then = "done" /\ op'[o].old = None /\ op[o].pc = "none" /\ ~started
        /\ ~closed /\ cfg' = cfg /\ client' = client
        /\ op'[o].pc = (IF cfg.enabled THEN "async" ELSE "done")
    BY <1>2, BootFacts
  <2> QED BY <2>1 DEF Olds, Mid, Replacing, Removing, Published, Others, Starts
<1>3. ASSUME NEW o \in Ops, StartAsync(o) PROVE Olds'
  <2>1. /\ Others(o) /\ op'[o].old = op[o].old /\ op'[o].prev = op[o].prev /\ op[o].pc = "async"
        /\ cfg' = cfg /\ client' = client
        /\ closed =>
             op'[o].pc = (IF op[o].config THEN "reload" ELSE "done") /\ op'[o].then = op[o].then
        /\ ~closed => op'[o].pc = "notify" /\ op'[o].then = "begin"
    BY <1>3, StartAsyncFacts
  <2> QED BY <2>1 DEF Olds, Mid, Replacing, Removing, Published, Others, Starts
<1>4. ASSUME NEW o \in Ops, Reload(o) PROVE Olds'
  <2>1. /\ Others(o) /\ op'[o].then = op[o].then /\ op'[o].old = op[o].old
        /\ op'[o].prev = op[o].prev /\ cfg' = cfg /\ client' = client
        /\ \/ op[o].pc = "reload" /\ op'[o].pc = "done" /\ reloading' = reloading
           \/ o \in reloading /\ op'[o].pc = op[o].pc /\ reloading' = reloading \ {o}
    BY <1>4, ReloadFacts
  <2> QED BY <2>1 DEF Olds, Mid, Replacing, Removing, Published, Others, Starts
<1>5. ASSUME NEW o \in Ops, NEW enable \in BOOLEAN, Restart(o, enable) PROVE Olds'
  <2>1. /\ Others(o) /\ op'[o].pc = "notify" /\ op'[o].then = "begin" /\ op'[o].old = None
        /\ op[o].pc = "none" /\ ~closed /\ cfg # Absent /\ client' = client
        /\ (enable \/ client # None)
        /\ cfg'.ver = cfg.ver /\ cfg'.enabled = (enable \/ cfg.enabled) /\ cfg' \in Configs
        /\ cfg' # Absent
    BY <1>5, RestartFacts
  <2>2. cfg.enabled => cfg'.enabled
    BY <2>1
  <2> QED BY <2>1, <2>2 DEF Olds, Mid, Replacing, Removing, Published, Others, Starts
<1>6. ASSUME NEW o \in Ops, Disable(o) PROVE Olds'
  <2>1. /\ Others(o) /\ op'[o].pc = "offsync" /\ op'[o].then = "done" /\ op'[o].old = client
        /\ op'[o].prev.cfg = cfg /\ op'[o].prev.state = state /\ op'[o].prev.failed = failed
        /\ op[o].pc = "none" /\ ~closed /\ cfg # Absent /\ client' = None
        /\ cfg'.ver = cfg.ver /\ cfg'.enabled = FALSE /\ cfg' \in Configs /\ cfg' # Absent
    BY <1>6, DisableFacts
  <2>2. ~Published(o) /\ \A x : Published(x) => Published(x)'
    BY <2>1, NoneFacts DEF Published, Others, Starts
  <2>3. \A p \in Ops : p # o => op'[p] = op[p]
    BY <2>1 DEF Others, Starts
  <2> QED BY <2>1, <2>2, <2>3 DEF Olds, Mid, Replacing, Removing
<1>7. ASSUME NEW o \in Ops, Disabled(o) PROVE Olds'
  <2>1. /\ Others(o) /\ op'[o].pc = "notify" /\ op'[o].then = "done" /\ op'[o].old = op[o].old
        /\ op'[o].prev = op[o].prev /\ op[o].pc = "off" /\ cfg' = cfg /\ client' = client
    BY <1>7, DisabledFacts
  <2> QED BY <2>1 DEF Olds, Mid, Replacing, Removing, Published, Others, Starts
<1>8. ASSUME NEW o \in Ops, EnableAgain(o) PROVE Olds'
  <2> USE DEF TakenBack
  <2>1. /\ Others(o) /\ op'[o].pc = "done" /\ op'[o].then = op[o].then /\ op'[o].old = op[o].old
        /\ op'[o].prev = op[o].prev /\ op[o].pc = "offfailed"
        /\ TakenBack(o)
    BY <1>8, EnableAgainFacts
  <2>2. ~Published(o) /\ \A x : Published(x) => Published(x)'
    BY <2>1, NoneFacts DEF Published, Others, Starts
  <2>3. \A p \in Ops : p # o => op'[p] = op[p]
    BY <2>1 DEF Others, Starts
  <2>4. op[o].old # None => Published(op[o].old) /\ op[o].prev.cfg.enabled
    BY <2>1 DEF Olds, Mid, Replacing, Removing
  <2>5. client' # None => Published(client') /\ cfg'.enabled
    <3>1. CASE Reverts(o)
      <4>1. client = None
        BY <3>1 DEF Olds, Reverts
      <4>2. cfg' = op[o].prev.cfg /\ client' = IF op[o].old # None THEN op[o].old ELSE client
        BY <2>1, <3>1
      <4> QED BY <2>4, <4>1, <4>2
    <3>2. CASE ~Reverts(o)
      <4>1. cfg' = cfg /\ client' = client
        BY <2>1, <3>2
      <4> QED BY <4>1 DEF Olds
    <3> QED BY <3>1, <3>2
  <2> QED BY <2>1, <2>2, <2>3, <2>5 DEF Olds, Mid, Replacing, Removing
<1>9. ASSUME NEW o \in Ops, Begin(o) PROVE Olds'
  <2>1. /\ Others(o) /\ op'[o].then = op[o].then /\ op'[o].old = op[o].old
        /\ op'[o].prev = op[o].prev /\ op[o].pc = "begin" /\ cfg' = cfg /\ client' = client
        /\ op'[o].pc = (IF closed \/ gen # op[o].gen THEN "done" ELSE "connect")
    BY <1>9, BeginFacts
  <2> QED BY <2>1 DEF Olds, Mid, Replacing, Removing, Published, Others, Starts
<1>10. ASSUME NEW o \in Ops, Connect(o) PROVE Olds'
  <2>1. /\ Others(o) /\ op'[o].pc = "publish" /\ op'[o].then = op[o].then /\ op'[o].old = op[o].old
        /\ op'[o].prev = op[o].prev /\ op[o].pc = "connect" /\ cfg' = cfg /\ client' = client
    BY <1>10, ConnectFacts
  <2> QED BY <2>1 DEF Olds, Mid, Replacing, Removing, Published, Others, Starts
<1>11. ASSUME NEW o \in Ops, Outdated(o) PROVE Olds'
  <2>1. /\ Others(o) /\ op'[o].pc = "done" /\ op'[o].then = op[o].then /\ op'[o].old = op[o].old
        /\ op'[o].prev = op[o].prev /\ op[o].pc = "publish" /\ ~Valid(o) /\ cfg' = cfg
        /\ client' = client
    BY <1>11, OutdatedFacts
  <2> QED BY <2>1 DEF Olds, Mid, Replacing, Removing, Published, Others, Starts
<1>12. ASSUME NEW o \in Ops, ConnectFailed(o) PROVE Olds'
  <2>1. /\ Others(o) /\ op'[o].pc = "notify" /\ op'[o].then = "done" /\ op'[o].old = op[o].old
        /\ op'[o].prev = op[o].prev /\ op[o].pc = "publish" /\ Valid(o) /\ ~op[o].got /\ cfg' = cfg
        /\ client' = client
    BY <1>12, ConnectFailedFacts
  <2> QED BY <2>1 DEF Olds, Mid, Replacing, Removing, Published, Others, Starts
<1>13. ASSUME NEW o \in Ops, Publish(o) PROVE Olds'
  <2>1. /\ Others(o) /\ op'[o].pc = "sync" /\ op'[o].then = op[o].then /\ op'[o].old = client
        /\ op'[o].prev = op[o].prev /\ op[o].pc = "publish" /\ Valid(o) /\ op[o].got /\ client' = o
        /\ cfg' = cfg
    BY <1>13, PublishFacts
  <2>2. ~Published(o) /\ \A x : Published(x) => Published(x)'
    BY <2>1, NoneFacts DEF Published, Others, Starts
  <2>3. \A p \in Ops : p # o => op'[p] = op[p]
    BY <2>1 DEF Others, Starts
  <2>4. Published(o)'
    BY <2>1 DEF Published
  <2> QED BY <2>1, <2>2, <2>3, <2>4 DEF Olds, Mid, Replacing, Removing, Valid
<1>14. ASSUME NEW o \in Ops, Activate(o) PROVE Olds'
  <2>1. /\ Others(o) /\ op'[o].pc = "notify" /\ op'[o].then = "done" /\ op'[o].old = op[o].old
        /\ op'[o].prev = op[o].prev /\ op[o].pc = "synced" /\ Valid(o) /\ client = o /\ cfg' = cfg
        /\ client' = client
    BY <1>14, ActivateFacts
  <2> QED BY <2>1 DEF Olds, Mid, Replacing, Removing, Published, Others, Starts
<1>15. ASSUME NEW o \in Ops, TooLate(o) PROVE Olds'
  <2>1. /\ Others(o) /\ op'[o].pc = "done" /\ op'[o].then = op[o].then /\ op'[o].old = op[o].old
        /\ op'[o].prev = op[o].prev /\ op[o].pc = "synced" /\ ~(Valid(o) /\ client = o)
        /\ cfg' = cfg /\ client' = client
    BY <1>15, TooLateFacts
  <2> QED BY <2>1 DEF Olds, Mid, Replacing, Removing, Published, Others, Starts
<1>16. ASSUME NEW o \in Ops, SyncFailed(o) PROVE Olds'
  <2>1. /\ Others(o) /\ op'[o].pc = "notify" /\ op'[o].then = "done" /\ op'[o].old = op[o].old
        /\ op'[o].prev = op[o].prev /\ op[o].pc = "unsynced" /\ cfg' = cfg
        /\ gen = op[o].gen /\ client = o =>
             /\ client' = op[o].old /\ failed' = TRUE
             /\ state' = IF op[o].old # None THEN "active" ELSE "error"
        /\ ~(gen = op[o].gen /\ client = o) =>
             client' = client /\ failed' = failed /\ state' = state
    BY <1>16, SyncFailedFacts
  <2> QED BY <2>1, NoneFacts DEF Olds, Mid, Replacing, Removing, Published, Others, Starts
<1>17. ASSUME NEW o \in Ops, GiveUp(o) PROVE Olds'
  <2>1. /\ Others(o) /\ op'[o].then = op[o].then /\ op'[o].old = op[o].old
        /\ op'[o].prev = op[o].prev /\ closed /\ o \in waiters /\ cfg' = cfg /\ client' = client
        /\ op'[o].pc = (IF op[o].pc = "offsync" THEN "offfailed" ELSE "unsynced")
    BY <1>17, GiveUpFacts
  <2> QED BY <2>1 DEF Olds, Mid, Replacing, Removing, Published, Others, Starts, Waiters, Syncing
<1>18. ASSUME NEW o \in Ops, Notify(o) PROVE Olds'
  <2>1. /\ Others(o) /\ op'[o].pc = op[o].then /\ op'[o].then = op[o].then
        /\ op'[o].old = op[o].old /\ op'[o].prev = op[o].prev /\ op[o].pc = "notify" /\ cfg' = cfg
        /\ client' = client
    BY <1>18, NotifyFacts
  <2>2. op[o].then \in {"done", "async", "reload", "begin"}
    BY ThenFacts
  <2> QED BY <2>1, <2>2 DEF Olds, Mid, Replacing, Removing, Published, Others, Starts
<1>19. CASE Flush
  <2>1. /\ cfg' = cfg /\ client' = client
    BY <1>19, FlushFacts
  <2> QED BY <1>19, <2>1, FlushStages DEF Olds, Mid, Replacing, Removing, Published, Others, Starts
<1>20. CASE Publisher
  <2>1. /\ wake /\ op' = op /\ cfg' = cfg /\ client' = client
    BY <1>20, PublisherFacts
  <2> QED BY <2>1 DEF Olds, Mid, Replacing, Removing, Published, Others, Starts
<1>21. CASE Close
  <2>1. /\ ~closed /\ client' = None /\ op' = op /\ cfg' = cfg
    BY <1>21, CloseFacts
  <2> QED BY <2>1 DEF Olds, Mid, Replacing, Removing, Published, Others, Starts
<1>22. CASE UNCHANGED vars
  <2>1. /\ op' = op /\ cfg' = cfg /\ client' = client
    BY <1>22, NothingFacts
  <2> QED BY <2>1 DEF Olds, Mid, Replacing, Removing, Published, Others, Starts
<1> QED BY <1>1, <1>2, <1>3, <1>4, <1>5, <1>6, <1>7, <1>8, <1>9, <1>10, <1>11, <1>12, <1>13, <1>14,
    <1>15, <1>16, <1>17, <1>18, <1>19, <1>20, <1>21, <1>22 DEF Next, Operation

\* Every step keeps Held.
LEMMA HeldStep == Types /\ Waiters /\ Opened /\ Olds /\ Held /\ Remembered /\ [Next]_vars => Held'
<1> SUFFICES ASSUME Types, Waiters, Opened, Olds, Held, Remembered, [Next]_vars PROVE Held'
  OBVIOUS
<1>1. ASSUME NEW o \in Ops, NEW new \in Configs, SetConfig(o, new) PROVE Held'
  <2>1. /\ Others(o) /\ op'[o].old = None /\ op[o].pc = "none"
        /\ op'[o].pc = (IF new = Absent THEN "reload" ELSE "notify")
        /\ client' = IF KeepsClient(new) THEN client ELSE None
        /\ open' = IF KeepsClient(new) THEN open ELSE open \ {client}
        /\ history'.dropped = IF KeepsClient(new) /\ cancel = None THEN history.dropped
                                ELSE history.dropped \cup {op[r].old : r \in Replacing}
    BY <1>1, SetConfigFacts
  <2> QED BY <2>1 DEF Held, Mid, Replacing, Removing, Others, Starts
<1>2. ASSUME NEW o \in Ops, Boot(o) PROVE Held'
  <2>1. /\ Others(o) /\ op'[o].old = None /\ op[o].pc = "none" /\ ~started /\ ~closed
        /\ client' = client /\ open' = open /\ history' = history
        /\ op'[o].pc = (IF cfg.enabled THEN "async" ELSE "done")
    BY <1>2, BootFacts
  <2> QED BY <2>1 DEF Held, Mid, Replacing, Removing, Others, Starts
<1>3. ASSUME NEW o \in Ops, StartAsync(o) PROVE Held'
  <2>1. /\ Others(o) /\ op'[o].old = op[o].old /\ op[o].pc = "async" /\ client' = client
        /\ open' = open /\ history'.dropped = history.dropped \cup {op[r].old : r \in Replacing}
        /\ closed =>
             op'[o].pc = (IF op[o].config THEN "reload" ELSE "done") /\ op'[o].then = op[o].then
        /\ ~closed => op'[o].pc = "notify" /\ op'[o].then = "begin"
    BY <1>3, StartAsyncFacts
  <2> QED BY <2>1 DEF Held, Mid, Replacing, Removing, Others, Starts
<1>4. ASSUME NEW o \in Ops, Reload(o) PROVE Held'
  <2>1. /\ Others(o) /\ op'[o].old = op[o].old /\ client' = client /\ open' = open
        /\ history'.dropped = history.dropped
        /\ \/ op[o].pc = "reload" /\ op'[o].pc = "done" /\ reloading' = reloading
           \/ o \in reloading /\ op'[o].pc = op[o].pc /\ reloading' = reloading \ {o}
    BY <1>4, ReloadFacts
  <2> QED BY <2>1 DEF Held, Mid, Replacing, Removing, Others, Starts
<1>5. ASSUME NEW o \in Ops, NEW enable \in BOOLEAN, Restart(o, enable) PROVE Held'
  <2>1. /\ Others(o) /\ op'[o].pc = "notify" /\ op'[o].old = None /\ op[o].pc = "none" /\ ~closed
        /\ cfg # Absent /\ client' = client /\ open' = open
        /\ history'.dropped = history.dropped \cup {op[r].old : r \in Replacing}
        /\ (enable \/ client # None)
    BY <1>5, RestartFacts
  <2> QED BY <2>1 DEF Held, Mid, Replacing, Removing, Others, Starts
<1>6. ASSUME NEW o \in Ops, Disable(o) PROVE Held'
  <2>1. /\ Others(o) /\ op'[o].pc = "offsync" /\ op'[o].old = client /\ op[o].pc = "none"
        /\ ~closed /\ cfg # Absent /\ client' = None /\ open' = open
        /\ history'.dropped = history.dropped \cup {op[r].old : r \in Replacing}
    BY <1>6, DisableFacts
  <2> QED BY <2>1 DEF Held, Mid, Replacing, Removing, Others, Starts
<1>7. ASSUME NEW o \in Ops, Disabled(o) PROVE Held'
  <2>1. /\ Others(o) /\ op'[o].pc = "notify" /\ op'[o].old = op[o].old /\ op[o].pc = "off"
        /\ open' = open \ {op[o].old} /\ client' = client /\ history' = history
    BY <1>7, DisabledFacts
  <2> QED BY <2>1 DEF Held, Mid, Replacing, Removing, Others, Starts
<1>8. ASSUME NEW o \in Ops, EnableAgain(o) PROVE Held'
  <2> USE DEF TakenBack
  <2>1. /\ Others(o) /\ op'[o].pc = "done" /\ op'[o].old = op[o].old /\ op[o].pc = "offfailed"
        /\ open' = open
        /\ TakenBack(o)
    BY <1>8, EnableAgainFacts
  <2> QED BY <2>1, NoneFacts DEF Held, Mid, Replacing, Removing, Others, Starts, Olds, Reverts
<1>9. ASSUME NEW o \in Ops, Begin(o) PROVE Held'
  <2>1. /\ Others(o) /\ op'[o].old = op[o].old /\ op[o].pc = "begin" /\ client' = client
        /\ open' = open /\ history' = history
        /\ op'[o].pc = (IF closed \/ gen # op[o].gen THEN "done" ELSE "connect")
    BY <1>9, BeginFacts
  <2> QED BY <2>1 DEF Held, Mid, Replacing, Removing, Others, Starts
<1>10. ASSUME NEW o \in Ops, Connect(o) PROVE Held'
  <2>1. /\ Others(o) /\ op'[o].pc = "publish" /\ op'[o].old = op[o].old /\ op[o].pc = "connect"
        /\ client' = client /\ history' = history
        /\ (op'[o].got = TRUE /\ open' = open \cup {o}) \/ (op'[o].got = op[o].got /\ open' = open)
    BY <1>10, ConnectFacts
  <2> QED BY <2>1 DEF Held, Mid, Replacing, Removing, Others, Starts
<1>11. ASSUME NEW o \in Ops, Outdated(o) PROVE Held'
  <2>1. /\ Others(o) /\ op'[o].pc = "done" /\ op'[o].old = op[o].old /\ op[o].pc = "publish"
        /\ ~Valid(o) /\ open' = open \ {o} /\ client' = client /\ history' = history
    BY <1>11, OutdatedFacts
  <2> QED BY <2>1 DEF Held, Mid, Replacing, Removing, Others, Starts
<1>12. ASSUME NEW o \in Ops, ConnectFailed(o) PROVE Held'
  <2>1. /\ Others(o) /\ op'[o].pc = "notify" /\ op'[o].old = op[o].old /\ op[o].pc = "publish"
        /\ Valid(o) /\ ~op[o].got /\ client' = client /\ open' = open /\ history' = history
    BY <1>12, ConnectFailedFacts
  <2> QED BY <2>1 DEF Held, Mid, Replacing, Removing, Others, Starts, Opened, Unopened
<1>13. ASSUME NEW o \in Ops, Publish(o) PROVE Held'
  <2>1. /\ Others(o) /\ op'[o].pc = "sync" /\ op'[o].old = client /\ op[o].pc = "publish"
        /\ Valid(o) /\ op[o].got /\ client' = o /\ open' = open
        /\ history'.dropped = history.dropped \cup {op[r].old : r \in Replacing}
    BY <1>13, PublishFacts
  <2> QED BY <2>1 DEF Held, Mid, Replacing, Removing, Others, Starts
<1>14. ASSUME NEW o \in Ops, Activate(o) PROVE Held'
  <2>1. /\ Others(o) /\ op'[o].pc = "notify" /\ op'[o].old = op[o].old /\ op[o].pc = "synced"
        /\ Valid(o) /\ client = o /\ open' = open \ {op[o].old} /\ client' = client
        /\ history' = history
    BY <1>14, ActivateFacts
  <2> QED BY <2>1 DEF Held, Mid, Replacing, Removing, Others, Starts
<1>15. ASSUME NEW o \in Ops, TooLate(o) PROVE Held'
  <2>1. /\ Others(o) /\ op'[o].pc = "done" /\ op'[o].old = op[o].old /\ op[o].pc = "synced"
        /\ ~(Valid(o) /\ client = o) /\ open' = open \ {o} /\ client' = client
        /\ history' = history
    BY <1>15, TooLateFacts
  <2> QED BY <2>1, NoneFacts DEF Held, Mid, Replacing, Removing, Others, Starts, Remembered
<1>16. ASSUME NEW o \in Ops, SyncFailed(o) PROVE Held'
  <2>1. /\ Others(o) /\ op'[o].pc = "notify" /\ op'[o].old = op[o].old /\ op[o].pc = "unsynced"
        /\ open' = open \ {o} /\ history' = history
        /\ gen = op[o].gen /\ client = o =>
             /\ client' = op[o].old /\ failed' = TRUE
             /\ state' = IF op[o].old # None THEN "active" ELSE "error"
        /\ ~(gen = op[o].gen /\ client = o) =>
             client' = client /\ failed' = failed /\ state' = state
    BY <1>16, SyncFailedFacts
  <2> QED BY <2>1, NoneFacts DEF Held, Mid, Replacing, Removing, Others, Starts, Remembered, Valid
<1>17. ASSUME NEW o \in Ops, GiveUp(o) PROVE Held'
  <2>1. /\ Others(o) /\ op'[o].old = op[o].old /\ closed /\ o \in waiters /\ client' = client
        /\ open' = open /\ history' = history
        /\ op'[o].pc = (IF op[o].pc = "offsync" THEN "offfailed" ELSE "unsynced")
    BY <1>17, GiveUpFacts
  <2> QED BY <2>1 DEF Held, Mid, Replacing, Removing, Others, Starts
<1>18. ASSUME NEW o \in Ops, Notify(o) PROVE Held'
  <2>1. /\ Others(o) /\ op'[o].pc = op[o].then /\ op'[o].old = op[o].old /\ op[o].pc = "notify"
        /\ client' = client /\ open' = open /\ history'.dropped = history.dropped
    BY <1>18, NotifyFacts
  <2> QED BY <2>1 DEF Held, Mid, Replacing, Removing, Others, Starts
<1>19. CASE Flush
  BY <1>19, FlushFacts DEF Held, Mid, Replacing, Removing, Others, Starts
<1>20. CASE Publisher
  <2>1. /\ wake /\ op' = op /\ history' = history /\ client' = client /\ open' = open
    BY <1>20, PublisherFacts
  <2> QED BY <2>1 DEF Held, Mid, Replacing, Removing, Others, Starts
<1>21. CASE Close
  <2>1. /\ ~closed /\ client' = None /\ open' = open \ {client} /\ op' = op
        /\ history'.dropped = history.dropped \cup {op[r].old : r \in Replacing}
    BY <1>21, CloseFacts
  <2> QED BY <2>1 DEF Held, Mid, Replacing, Removing, Others, Starts
<1>22. CASE UNCHANGED vars
  <2>1. /\ op' = op /\ history' = history /\ client' = client /\ open' = open
    BY <1>22, NothingFacts
  <2> QED BY <2>1 DEF Held, Mid, Replacing, Removing, Others, Starts
<1> QED BY <1>1, <1>2, <1>3, <1>4, <1>5, <1>6, <1>7, <1>8, <1>9, <1>10, <1>11, <1>12, <1>13, <1>14,
    <1>15, <1>16, <1>17, <1>18, <1>19, <1>20, <1>21, <1>22 DEF Next, Operation

\* Every step keeps Remembered.
LEMMA RememberedStep == Types /\ Waiters /\ Olds /\ Remembered /\ [Next]_vars => Remembered'
<1> SUFFICES ASSUME Types, Waiters, Olds, Remembered, [Next]_vars PROVE Remembered'
  OBVIOUS
<1>1. ASSUME NEW o \in Ops, NEW new \in Configs, SetConfig(o, new) PROVE Remembered'
  <2>1. /\ Others(o) /\ op'[o].gen = 0 /\ op'[o].old = None /\ op[o].pc = "none" /\ cfg' = new
        /\ closed' = closed
        /\ op'[o].pc = (IF new = Absent THEN "reload" ELSE "notify")
        /\ gen' = IF new = Absent THEN 0 ELSE IF cancel # None THEN gen + 1 ELSE gen
        /\ client' = IF KeepsClient(new) THEN client ELSE None
        /\ history'.dropped = IF KeepsClient(new) /\ cancel = None THEN history.dropped
                                ELSE history.dropped \cup {op[r].old : r \in Replacing}
    BY <1>1, SetConfigFacts
  <2> QED BY <2>1, ConfigFacts DEF Remembered, Replacing, Others, Starts, Valid, KeepsClient
<1>2. ASSUME NEW o \in Ops, Boot(o) PROVE Remembered'
  <2>1. /\ Others(o) /\ op'[o].gen = 0 /\ op'[o].old = None /\ op[o].pc = "none" /\ ~started
        /\ ~closed /\ cfg' = cfg /\ client' = client /\ gen' = gen /\ closed' = closed
        /\ history' = history
        /\ op'[o].pc = (IF cfg.enabled THEN "async" ELSE "done")
    BY <1>2, BootFacts
  <2> QED BY <2>1 DEF Remembered, Replacing, Others, Starts, Valid
<1>3. ASSUME NEW o \in Ops, StartAsync(o) PROVE Remembered'
  <2> USE DEF SetsOff
  <2>1. /\ Others(o) /\ op'[o].old = op[o].old /\ op[o].pc = "async" /\ cfg' = cfg
        /\ client' = client /\ closed' = closed
        /\ history'.dropped = history.dropped \cup {op[r].old : r \in Replacing}
        /\ SetsOff(o)
    BY <1>3, StartAsyncFacts
  <2> QED BY <2>1 DEF Remembered, Replacing, Others, Starts, Valid
<1>4. ASSUME NEW o \in Ops, Reload(o) PROVE Remembered'
  <2>1. /\ Others(o) /\ op'[o].gen = op[o].gen /\ op'[o].old = op[o].old /\ cfg' = cfg
        /\ client' = client /\ gen' = gen /\ closed' = closed /\ history'.dropped = history.dropped
        /\ \/ op[o].pc = "reload" /\ op'[o].pc = "done" /\ reloading' = reloading
           \/ o \in reloading /\ op'[o].pc = op[o].pc /\ reloading' = reloading \ {o}
    BY <1>4, ReloadFacts
  <2> QED BY <2>1 DEF Remembered, Replacing, Others, Starts, Valid
<1>5. ASSUME NEW o \in Ops, NEW enable \in BOOLEAN, Restart(o, enable) PROVE Remembered'
  <2>1. /\ Others(o) /\ op'[o].pc = "notify" /\ op'[o].gen = gen + 1 /\ op'[o].old = None
        /\ op[o].pc = "none" /\ ~closed /\ cfg # Absent /\ gen' = gen + 1 /\ client' = client
        /\ closed' = closed
        /\ history'.dropped = history.dropped \cup {op[r].old : r \in Replacing}
        /\ (enable \/ client # None)
        /\ cfg'.ver = cfg.ver /\ cfg'.enabled = (enable \/ cfg.enabled) /\ cfg' \in Configs
        /\ cfg' # Absent
    BY <1>5, RestartFacts
  <2> QED BY <2>1 DEF Remembered, Replacing, Others, Starts, Valid
<1>6. ASSUME NEW o \in Ops, Disable(o) PROVE Remembered'
  <2>1. /\ Others(o) /\ op'[o].pc = "offsync" /\ op'[o].gen = gen + 1 /\ op'[o].old = client
        /\ op[o].pc = "none" /\ ~closed /\ cfg # Absent /\ gen' = gen + 1 /\ client' = None
        /\ closed' = closed
        /\ cfg'.ver = cfg.ver /\ cfg'.enabled = FALSE /\ cfg' \in Configs /\ cfg' # Absent
        /\ history'.dropped = history.dropped \cup {op[r].old : r \in Replacing}
    BY <1>6, DisableFacts
  <2> QED BY <2>1 DEF Remembered, Replacing, Others, Starts, Valid
<1>7. ASSUME NEW o \in Ops, Disabled(o) PROVE Remembered'
  <2>1. /\ Others(o) /\ op'[o].pc = "notify" /\ op'[o].gen = op[o].gen /\ op'[o].old = op[o].old
        /\ op[o].pc = "off" /\ cfg' = cfg /\ client' = client /\ gen' = gen /\ closed' = closed
        /\ history' = history
    BY <1>7, DisabledFacts
  <2> QED BY <2>1 DEF Remembered, Replacing, Others, Starts, Valid
<1>8. ASSUME NEW o \in Ops, EnableAgain(o) PROVE Remembered'
  <2> USE DEF TakenBack
  <2>1. /\ Others(o) /\ op'[o].pc = "done" /\ op'[o].gen = op[o].gen /\ op'[o].old = op[o].old
        /\ op[o].pc = "offfailed" /\ gen' = gen /\ closed' = closed
        /\ TakenBack(o)
    BY <1>8, EnableAgainFacts
  <2> QED BY <2>1 DEF Remembered, Replacing, Others, Starts, Valid, Reverts
<1>9. ASSUME NEW o \in Ops, Begin(o) PROVE Remembered'
  <2>1. /\ Others(o) /\ op'[o].gen = op[o].gen /\ op'[o].old = op[o].old /\ op[o].pc = "begin"
        /\ cfg' = cfg /\ client' = client /\ gen' = gen /\ closed' = closed /\ history' = history
        /\ op'[o].pc = (IF closed \/ gen # op[o].gen THEN "done" ELSE "connect")
    BY <1>9, BeginFacts
  <2> QED BY <2>1 DEF Remembered, Replacing, Others, Starts, Valid
<1>10. ASSUME NEW o \in Ops, Connect(o) PROVE Remembered'
  <2>1. /\ Others(o) /\ op'[o].pc = "publish" /\ op'[o].gen = op[o].gen /\ op'[o].old = op[o].old
        /\ op[o].pc = "connect" /\ cfg' = cfg /\ client' = client /\ gen' = gen /\ closed' = closed
        /\ history' = history
    BY <1>10, ConnectFacts
  <2> QED BY <2>1 DEF Remembered, Replacing, Others, Starts, Valid
<1>11. ASSUME NEW o \in Ops, Outdated(o) PROVE Remembered'
  <2>1. /\ Others(o) /\ op'[o].pc = "done" /\ op'[o].gen = op[o].gen /\ op'[o].old = op[o].old
        /\ op[o].pc = "publish" /\ ~Valid(o) /\ cfg' = cfg /\ client' = client /\ gen' = gen
        /\ closed' = closed /\ history' = history
    BY <1>11, OutdatedFacts
  <2> QED BY <2>1 DEF Remembered, Replacing, Others, Starts, Valid
<1>12. ASSUME NEW o \in Ops, ConnectFailed(o) PROVE Remembered'
  <2>1. /\ Others(o) /\ op'[o].pc = "notify" /\ op'[o].gen = op[o].gen /\ op'[o].old = op[o].old
        /\ op[o].pc = "publish" /\ Valid(o) /\ ~op[o].got /\ cfg' = cfg /\ client' = client
        /\ gen' = gen /\ closed' = closed /\ history' = history
    BY <1>12, ConnectFailedFacts
  <2> QED BY <2>1 DEF Remembered, Replacing, Others, Starts, Valid
<1>13. ASSUME NEW o \in Ops, Publish(o) PROVE Remembered'
  <2>1. /\ Others(o) /\ op'[o].pc = "sync" /\ op'[o].gen = op[o].gen /\ op'[o].old = client
        /\ op[o].pc = "publish" /\ Valid(o) /\ op[o].got /\ client' = o /\ cfg' = cfg /\ gen' = gen
        /\ closed' = closed
        /\ history'.dropped = history.dropped \cup {op[r].old : r \in Replacing}
    BY <1>13, PublishFacts
  <2> QED BY <2>1 DEF Remembered, Replacing, Others, Starts, Valid
<1>14. ASSUME NEW o \in Ops, Activate(o) PROVE Remembered'
  <2>1. /\ Others(o) /\ op'[o].pc = "notify" /\ op'[o].gen = op[o].gen /\ op'[o].old = op[o].old
        /\ op[o].pc = "synced" /\ Valid(o) /\ client = o /\ cfg' = cfg /\ client' = client
        /\ gen' = gen /\ closed' = closed /\ history' = history
    BY <1>14, ActivateFacts
  <2> QED BY <2>1 DEF Remembered, Replacing, Others, Starts, Valid
<1>15. ASSUME NEW o \in Ops, TooLate(o) PROVE Remembered'
  <2>1. /\ Others(o) /\ op'[o].pc = "done" /\ op'[o].gen = op[o].gen /\ op'[o].old = op[o].old
        /\ op[o].pc = "synced" /\ ~(Valid(o) /\ client = o) /\ cfg' = cfg /\ client' = client
        /\ gen' = gen /\ closed' = closed /\ history' = history
    BY <1>15, TooLateFacts
  <2> QED BY <2>1 DEF Remembered, Replacing, Others, Starts, Valid
<1>16. ASSUME NEW o \in Ops, SyncFailed(o) PROVE Remembered'
  <2>1. /\ Others(o) /\ op'[o].pc = "notify" /\ op'[o].gen = op[o].gen /\ op'[o].old = op[o].old
        /\ op[o].pc = "unsynced" /\ cfg' = cfg /\ gen' = gen /\ closed' = closed
        /\ history' = history
        /\ gen = op[o].gen /\ client = o =>
             /\ client' = op[o].old /\ failed' = TRUE
             /\ state' = IF op[o].old # None THEN "active" ELSE "error"
        /\ ~(gen = op[o].gen /\ client = o) =>
             client' = client /\ failed' = failed /\ state' = state
    BY <1>16, SyncFailedFacts
  <2> QED BY <2>1 DEF Remembered, Replacing, Others, Starts, Valid
<1>17. ASSUME NEW o \in Ops, GiveUp(o) PROVE Remembered'
  <2>1. /\ Others(o) /\ op'[o].gen = op[o].gen /\ op'[o].old = op[o].old /\ closed /\ o \in waiters
        /\ cfg' = cfg /\ client' = client /\ gen' = gen /\ closed' = closed /\ history' = history
        /\ op'[o].pc = (IF op[o].pc = "offsync" THEN "offfailed" ELSE "unsynced")
    BY <1>17, GiveUpFacts
  <2> QED BY <2>1 DEF Remembered, Replacing, Others, Starts, Valid, Waiters, Syncing
<1>18. ASSUME NEW o \in Ops, Notify(o) PROVE Remembered'
  <2>1. /\ Others(o) /\ op'[o].pc = op[o].then /\ op'[o].gen = op[o].gen /\ op'[o].old = op[o].old
        /\ op[o].pc = "notify" /\ cfg' = cfg /\ client' = client /\ gen' = gen /\ closed' = closed
        /\ history'.dropped = history.dropped
    BY <1>18, NotifyFacts
  <2>2. op[o].then \in {"done", "async", "reload", "begin"}
    BY ThenFacts
  <2> QED BY <2>1, <2>2 DEF Remembered, Replacing, Others, Starts, Valid
<1>19. CASE Flush
  <2>1. /\ cfg' = cfg /\ client' = client /\ gen' = gen /\ closed' = closed /\ history' = history
    BY <1>19, FlushFacts
  <2> QED BY <1>19, <2>1, FlushStages DEF Remembered, Replacing, Others, Starts, Valid
<1>20. CASE Publisher
  <2>1. /\ wake /\ op' = op /\ history' = history /\ cfg' = cfg /\ client' = client /\ gen' = gen
        /\ closed' = closed
    BY <1>20, PublisherFacts
  <2> QED BY <2>1 DEF Remembered, Replacing, Others, Starts, Valid
<1>21. CASE Close
  <2>1. /\ ~closed /\ closed' = TRUE /\ client' = None /\ op' = op /\ cfg' = cfg
        /\ history'.dropped = history.dropped \cup {op[r].old : r \in Replacing}
        /\ gen' = IF cancel # None THEN gen + 1 ELSE gen
    BY <1>21, CloseFacts
  <2> QED BY <2>1 DEF Remembered, Replacing, Others, Starts, Valid
<1>22. CASE UNCHANGED vars
  <2>1. /\ op' = op /\ history' = history /\ cfg' = cfg /\ client' = client /\ gen' = gen
        /\ closed' = closed
    BY <1>22, NothingFacts
  <2> QED BY <2>1 DEF Remembered, Replacing, Others, Starts, Valid
<1> QED BY <1>1, <1>2, <1>3, <1>4, <1>5, <1>6, <1>7, <1>8, <1>9, <1>10, <1>11, <1>12, <1>13, <1>14,
    <1>15, <1>16, <1>17, <1>18, <1>19, <1>20, <1>21, <1>22 DEF Next, Operation

-----------------------------------------------------------------------------
(* Generations tell operations apart.                                      *)

\* The operation has a generation, and no client in the table.
Early(o) ==
  \/ op[o].pc \in {"begin", "connect", "publish"}
  \/ op[o].pc = "notify" /\ op[o].then = "begin"

\* The operation can still act on its generation.
Live(o) == Early(o) \/ o \in Mid

\* Generations are numbers.
Numbers == gen \in Nat /\ \A o \in Ops : op[o].gen \in Nat

\* The types say that generations are numbers.
LEMMA NumberFacts == Types => Numbers
BY DEF Types, OpIs, Records, Starts, Numbers

\* No operation has a generation that is yet to come.
Ahead == \A o \in Ops : Live(o) => op[o].gen <= gen

\* No two operations have the same generation.
Apart == \A o, p \in Ops : Live(o) /\ Live(p) /\ op[o].gen = op[p].gen => o = p

\* The operation connects, and its generation is the current one.
Connecting(o) == op[o].pc \in {"connect", "publish"} /\ op[o].gen = gen

\* What can be cancelled is an operation that connects.
Cancels == cancel # None => Connecting(cancel)

\* The generations tell the operations apart, as long as none was forgotten.
Gens == ~history.forgotten => Ahead /\ Apart /\ Cancels

\* Starts are announced only when Start has run; they begin as they were told to.
Begun ==
  \A o \in Ops :
    /\ op[o].then = "async" \/ op[o].pc = "async" => started
    /\ op[o].pc = "begin" => op[o].then = "begin"

\* An announced start has not begun.
Asyncs == \A o \in Ops : op[o].then = "async" => closed \/ op[o].pc \in {"notify", "async"}

\* What is queued will be delivered.
Queued == queue # <<>> => wake

\* The other operations stay live, or not.
LEMMA LiveOthers ==
  ASSUME NEW o \in Ops, Others(o)
  PROVE  \A p \in Ops : p # o => (Live(p)' <=> Live(p)) /\ op'[p].gen = op[p].gen
BY DEF Others, Live, Early, Mid, Replacing, Removing, Starts

\* The operation keeps its generation, or ends.
KeepsGen(o) == gen' = gen /\ (Live(o)' => Live(o) /\ op'[o].gen = op[o].gen)

\* What can be cancelled stays, becomes nothing, or becomes the operation.
KeepsCancel(o) ==
  \/ cancel' = None
  \/ cancel' = cancel /\ (cancel = o => ~Connecting(o) \/ Connecting(o)')
  \/ cancel' = o /\ Connecting(o)'

\* The operation takes the next generation.
TakesNext(o) == op'[o].gen = gen + 1 /\ gen' = gen + 1 /\ cancel' = None

\* Steps that keep the generation keep Gens.
LEMMA GensKept ==
  ASSUME Types, Gens, NEW o \in Ops, Others(o), KeepsGen(o), KeepsCancel(o),
         history'.forgotten = history.forgotten
  PROVE  Gens'
<1> SUFFICES ASSUME ~history.forgotten, Ahead, Apart, Cancels PROVE (Ahead /\ Apart /\ Cancels)'
  BY DEF Gens
<1>1. \A p \in Ops : p # o => (Live(p)' <=> Live(p)) /\ op'[p].gen = op[p].gen
  BY LiveOthers
<1>2. Ahead' /\ Apart'
  BY <1>1 DEF Ahead, Apart, KeepsGen
<1>3. cancel \in Ops \cup {None}
  BY DEF Types
<1>4. \A p \in Ops : p # o /\ Connecting(p) => Connecting(p)'
  BY DEF Connecting, Others, Starts, KeepsGen
<1>5. Cancels'
  BY <1>3, <1>4 DEF Cancels, KeepsCancel
<1> QED BY <1>2, <1>5

\* Steps that take the next generation keep Gens.
LEMMA GensNext ==
  ASSUME Types, Gens, NEW o \in Ops, Others(o), TakesNext(o), history'.forgotten = history.forgotten
  PROVE  Gens'
<1> SUFFICES ASSUME ~history.forgotten, Ahead, Apart, Cancels PROVE (Ahead /\ Apart /\ Cancels)'
  BY DEF Gens
<1>1. \A p \in Ops : p # o => (Live(p)' <=> Live(p)) /\ op'[p].gen = op[p].gen
  BY LiveOthers
<1>2. gen \in Nat /\ \A p \in Ops : op[p].gen \in Nat
  BY NumberFacts DEF Numbers
<1>3. \A p \in Ops : Live(p)' => p = o \/ op'[p].gen <= gen
  BY <1>1 DEF Ahead
<1>4. Ahead'
  BY <1>1, <1>2, <1>3 DEF Ahead, TakesNext
<1>5. \A p \in Ops : p # o /\ Live(p)' => op'[p].gen # op'[o].gen
  BY <1>1, <1>2, <1>3 DEF TakesNext
<1>6. Apart'
  BY <1>1, <1>5 DEF Apart
<1>7. Cancels'
  BY DEF Cancels, TakesNext
<1> QED BY <1>4, <1>6, <1>7

\* Every step keeps Gens.
LEMMA GensStep == Types /\ Waiters /\ Gens /\ [Next]_vars => Gens'
<1> SUFFICES ASSUME Types, Waiters, Gens, [Next]_vars PROVE Gens'
  OBVIOUS
<1>1. ASSUME NEW o \in Ops, NEW new \in Configs, SetConfig(o, new) PROVE Gens'
  <2>1. /\ Others(o) /\ op[o].pc = "none" /\ op'[o].pc \in {"reload", "notify"} /\ cancel' = None
        /\ op'[o].then # "begin" /\ (new = Absent \/ gen' = gen \/ gen' = gen + 1)
        /\ history.forgotten => history'.forgotten
        /\ new = Absent /\ Busy # {} => history'.forgotten
    BY <1>1, SetConfigFacts
  <2> SUFFICES ASSUME ~history.forgotten, ~history'.forgotten PROVE (Ahead /\ Apart /\ Cancels)'
    BY <2>1 DEF Gens
  <2>2. ~Live(o)'
    BY <2>1 DEF Live, Early, Mid, Replacing, Removing
  <2>3. \A p \in Ops : Live(p)' => Live(p) /\ p # o /\ op'[p].gen = op[p].gen
    BY <2>1, <2>2, LiveOthers
  <2>4. Apart' /\ Cancels'
    BY <2>1, <2>3 DEF Gens, Apart, Cancels
  <2>5. CASE new = Absent
    <3>1. Busy = {}
      BY <2>1, <2>5
    <3>2. \A p \in Ops : ~Live(p)
      BY <3>1 DEF Busy, Live, Early, Mid, Replacing, Removing
    <3> QED BY <2>3, <2>4, <3>2 DEF Ahead
  <2>6. CASE new # Absent
    <3>1. gen \in Nat /\ \A p \in Ops : op[p].gen \in Nat
      BY NumberFacts DEF Numbers
    <3>2. gen <= gen'
      BY <2>1, <2>6, <3>1
    <3> QED BY <2>3, <2>4, <2>1, <2>6, <3>1 DEF Gens, Ahead
  <2> QED BY <2>5, <2>6
<1>2. ASSUME NEW o \in Ops, Boot(o) PROVE Gens'
  <2>1. /\ Others(o) /\ op'[o].then = "done" /\ op'[o].gen = 0 /\ op[o].pc = "none" /\ ~started
        /\ ~closed /\ gen' = gen /\ cancel' = cancel /\ history' = history
        /\ op'[o].pc = (IF cfg.enabled THEN "async" ELSE "done")
    BY <1>2, BootFacts
  <2>2. KeepsGen(o) /\ KeepsCancel(o)
    BY <2>1 DEF KeepsGen, KeepsCancel, Connecting, Live, Early, Mid, Replacing, Removing
  <2> QED BY <2>1, <2>2, GensKept
<1>3. ASSUME NEW o \in Ops, StartAsync(o) PROVE Gens'
  <2> USE DEF SetsOff
  <2>1. /\ Others(o) /\ op[o].pc = "async" /\ history'.forgotten = history.forgotten
        /\ SetsOff(o)
    BY <1>3, StartAsyncFacts
  <2>2. CASE closed
    <3>1. KeepsGen(o) /\ KeepsCancel(o)
      BY <2>1, <2>2 DEF KeepsGen, KeepsCancel, Connecting, Live, Early, Mid, Replacing, Removing
    <3> QED BY <2>1, <3>1, GensKept
  <2>3. CASE ~closed
    <3>1. TakesNext(o)
      BY <2>1, <2>3 DEF TakesNext
    <3> QED BY <2>1, <3>1, GensNext
  <2> QED BY <2>2, <2>3
<1>4. ASSUME NEW o \in Ops, Reload(o) PROVE Gens'
  <2>1. /\ Others(o) /\ op'[o].then = op[o].then /\ op'[o].gen = op[o].gen /\ gen' = gen
        /\ cancel' = cancel /\ history'.forgotten = history.forgotten
        /\ \/ op[o].pc = "reload" /\ op'[o].pc = "done" /\ reloading' = reloading
           \/ o \in reloading /\ op'[o].pc = op[o].pc /\ reloading' = reloading \ {o}
    BY <1>4, ReloadFacts
  <2>2. KeepsGen(o) /\ KeepsCancel(o)
    BY <2>1 DEF KeepsGen, KeepsCancel, Connecting, Live, Early, Mid, Replacing, Removing
  <2> QED BY <2>1, <2>2, GensKept
<1>5. ASSUME NEW o \in Ops, NEW enable \in BOOLEAN, Restart(o, enable) PROVE Gens'
  <2>1. /\ Others(o) /\ op'[o].pc = "notify" /\ op'[o].then = "begin" /\ op'[o].gen = gen + 1
        /\ op[o].pc = "none" /\ ~closed /\ cfg # Absent /\ gen' = gen + 1 /\ cancel' = None
        /\ history'.forgotten = history.forgotten
        /\ (enable \/ client # None)
    BY <1>5, RestartFacts
  <2>2. TakesNext(o)
    BY <2>1 DEF TakesNext
  <2> QED BY <2>1, <2>2, GensNext
<1>6. ASSUME NEW o \in Ops, Disable(o) PROVE Gens'
  <2>1. /\ Others(o) /\ op'[o].pc = "offsync" /\ op'[o].then = "done" /\ op'[o].gen = gen + 1
        /\ op[o].pc = "none" /\ ~closed /\ cfg # Absent /\ gen' = gen + 1 /\ cancel' = None
        /\ history'.forgotten = history.forgotten
    BY <1>6, DisableFacts
  <2>2. TakesNext(o)
    BY <2>1 DEF TakesNext
  <2> QED BY <2>1, <2>2, GensNext
<1>7. ASSUME NEW o \in Ops, Disabled(o) PROVE Gens'
  <2>1. /\ Others(o) /\ op'[o].pc = "notify" /\ op'[o].then = "done" /\ op'[o].gen = op[o].gen
        /\ op[o].pc = "off" /\ gen' = gen /\ cancel' = cancel /\ history' = history
    BY <1>7, DisabledFacts
  <2>2. KeepsGen(o) /\ KeepsCancel(o)
    BY <2>1 DEF KeepsGen, KeepsCancel, Connecting, Live, Early, Mid, Replacing, Removing
  <2> QED BY <2>1, <2>2, GensKept
<1>8. ASSUME NEW o \in Ops, EnableAgain(o) PROVE Gens'
  <2>1. /\ Others(o) /\ op'[o].pc = "done" /\ op'[o].then = op[o].then /\ op'[o].gen = op[o].gen
        /\ op[o].pc = "offfailed" /\ gen' = gen /\ cancel' = cancel
        /\ history'.forgotten = history.forgotten
    BY <1>8, EnableAgainFacts
  <2>2. KeepsGen(o) /\ KeepsCancel(o)
    BY <2>1 DEF KeepsGen, KeepsCancel, Connecting, Live, Early, Mid, Replacing, Removing
  <2> QED BY <2>1, <2>2, GensKept
<1>9. ASSUME NEW o \in Ops, Begin(o) PROVE Gens'
  <2>1. /\ Others(o) /\ op'[o].then = op[o].then /\ op'[o].gen = op[o].gen /\ op[o].pc = "begin"
        /\ gen' = gen /\ history' = history
        /\ op'[o].pc = (IF closed \/ gen # op[o].gen THEN "done" ELSE "connect")
        /\ cancel' = IF closed \/ gen # op[o].gen THEN cancel ELSE o
    BY <1>9, BeginFacts
  <2>2. CASE closed \/ gen # op[o].gen
    <3>1. /\ op'[o].pc = "done" /\ cancel' = cancel /\ op'[o].gen = op[o].gen /\ gen' = gen
          /\ op[o].pc = "begin"
      BY <2>1, <2>2
    <3>2. KeepsGen(o) /\ KeepsCancel(o)
      BY <3>1 DEF KeepsGen, KeepsCancel, Connecting, Live, Early, Mid, Replacing, Removing
    <3> QED BY <2>1, <3>2, GensKept
  <2>3. CASE ~(closed \/ gen # op[o].gen)
    <3>1. /\ op'[o].pc = "connect" /\ cancel' = o /\ op'[o].gen = op[o].gen /\ gen' = gen
          /\ op[o].pc = "begin" /\ op[o].gen = gen
      BY <2>1, <2>3
    <3>2. KeepsGen(o) /\ KeepsCancel(o)
      BY <3>1 DEF KeepsGen, KeepsCancel, Connecting, Live, Early, Mid, Replacing, Removing
    <3> QED BY <2>1, <3>2, GensKept
  <2> QED BY <2>2, <2>3
<1>10. ASSUME NEW o \in Ops, Connect(o) PROVE Gens'
  <2>1. /\ Others(o) /\ op'[o].pc = "publish" /\ op'[o].then = op[o].then /\ op'[o].gen = op[o].gen
        /\ op[o].pc = "connect" /\ gen' = gen /\ cancel' = cancel /\ history' = history
    BY <1>10, ConnectFacts
  <2>2. KeepsGen(o) /\ KeepsCancel(o)
    BY <2>1 DEF KeepsGen, KeepsCancel, Connecting, Live, Early, Mid, Replacing, Removing
  <2> QED BY <2>1, <2>2, GensKept
<1>11. ASSUME NEW o \in Ops, Outdated(o) PROVE Gens'
  <2>1. /\ Others(o) /\ op'[o].pc = "done" /\ op'[o].then = op[o].then /\ op'[o].gen = op[o].gen
        /\ op[o].pc = "publish" /\ ~Valid(o) /\ gen' = gen /\ history' = history
        /\ cancel' = IF gen = op[o].gen THEN None ELSE cancel
    BY <1>11, OutdatedFacts
  <2>2. KeepsGen(o) /\ KeepsCancel(o)
    BY <2>1 DEF KeepsGen, KeepsCancel, Connecting, Live, Early, Mid, Replacing, Removing
  <2> QED BY <2>1, <2>2, GensKept
<1>12. ASSUME NEW o \in Ops, ConnectFailed(o) PROVE Gens'
  <2>1. /\ Others(o) /\ op'[o].pc = "notify" /\ op'[o].then = "done" /\ op'[o].gen = op[o].gen
        /\ op[o].pc = "publish" /\ Valid(o) /\ ~op[o].got /\ cancel' = None /\ gen' = gen
        /\ history' = history
    BY <1>12, ConnectFailedFacts
  <2>2. KeepsGen(o) /\ KeepsCancel(o)
    BY <2>1 DEF KeepsGen, KeepsCancel, Connecting, Live, Early, Mid, Replacing, Removing
  <2> QED BY <2>1, <2>2, GensKept
<1>13. ASSUME NEW o \in Ops, Publish(o) PROVE Gens'
  <2>1. /\ Others(o) /\ op'[o].pc = "sync" /\ op'[o].then = op[o].then /\ op'[o].gen = op[o].gen
        /\ op[o].pc = "publish" /\ Valid(o) /\ op[o].got /\ cancel' = None /\ gen' = gen
        /\ history'.forgotten = history.forgotten
    BY <1>13, PublishFacts
  <2>2. KeepsGen(o) /\ KeepsCancel(o)
    BY <2>1 DEF KeepsGen, KeepsCancel, Connecting, Live, Early, Mid, Replacing, Removing
  <2> QED BY <2>1, <2>2, GensKept
<1>14. ASSUME NEW o \in Ops, Activate(o) PROVE Gens'
  <2>1. /\ Others(o) /\ op'[o].pc = "notify" /\ op'[o].then = "done" /\ op'[o].gen = op[o].gen
        /\ op[o].pc = "synced" /\ Valid(o) /\ client = o /\ gen' = gen /\ cancel' = cancel
        /\ history' = history
    BY <1>14, ActivateFacts
  <2>2. KeepsGen(o) /\ KeepsCancel(o)
    BY <2>1 DEF KeepsGen, KeepsCancel, Connecting, Live, Early, Mid, Replacing, Removing
  <2> QED BY <2>1, <2>2, GensKept
<1>15. ASSUME NEW o \in Ops, TooLate(o) PROVE Gens'
  <2>1. /\ Others(o) /\ op'[o].pc = "done" /\ op'[o].then = op[o].then /\ op'[o].gen = op[o].gen
        /\ op[o].pc = "synced" /\ ~(Valid(o) /\ client = o) /\ gen' = gen /\ cancel' = cancel
        /\ history' = history
    BY <1>15, TooLateFacts
  <2>2. KeepsGen(o) /\ KeepsCancel(o)
    BY <2>1 DEF KeepsGen, KeepsCancel, Connecting, Live, Early, Mid, Replacing, Removing
  <2> QED BY <2>1, <2>2, GensKept
<1>16. ASSUME NEW o \in Ops, SyncFailed(o) PROVE Gens'
  <2>1. /\ Others(o) /\ op'[o].pc = "notify" /\ op'[o].then = "done" /\ op'[o].gen = op[o].gen
        /\ op[o].pc = "unsynced" /\ gen' = gen /\ cancel' = cancel /\ history' = history
    BY <1>16, SyncFailedFacts
  <2>2. KeepsGen(o) /\ KeepsCancel(o)
    BY <2>1 DEF KeepsGen, KeepsCancel, Connecting, Live, Early, Mid, Replacing, Removing
  <2> QED BY <2>1, <2>2, GensKept
<1>17. ASSUME NEW o \in Ops, GiveUp(o) PROVE Gens'
  <2>1. /\ Others(o) /\ op'[o].then = op[o].then /\ op'[o].gen = op[o].gen /\ closed
        /\ o \in waiters /\ gen' = gen /\ cancel' = cancel /\ history' = history
        /\ op'[o].pc = (IF op[o].pc = "offsync" THEN "offfailed" ELSE "unsynced")
    BY <1>17, GiveUpFacts
  <2>2. KeepsGen(o) /\ KeepsCancel(o)
    BY <2>1 DEF KeepsGen, KeepsCancel, Connecting, Live, Early, Mid, Replacing, Removing, Waiters,
       Syncing
  <2> QED BY <2>1, <2>2, GensKept
<1>18. ASSUME NEW o \in Ops, Notify(o) PROVE Gens'
  <2>1. /\ Others(o) /\ op'[o].pc = op[o].then /\ op'[o].then = op[o].then
        /\ op'[o].gen = op[o].gen /\ op[o].pc = "notify" /\ gen' = gen /\ cancel' = cancel
        /\ history'.forgotten = history.forgotten
    BY <1>18, NotifyFacts
  <2>2. op[o].then \in {"done", "async", "reload", "begin"}
    BY ThenFacts
  <2>3. KeepsGen(o) /\ KeepsCancel(o)
    BY <2>1, <2>2 DEF KeepsGen, KeepsCancel, Connecting, Live, Early, Mid, Replacing, Removing
  <2> QED BY <2>1, <2>3, GensKept
<1>19. CASE Flush
  <2>1. gen' = gen /\ cancel' = cancel /\ history' = history
    BY <1>19, FlushFacts
  <2>2. \A p \in Ops : /\ Live(p)' <=> Live(p)
                       /\ op'[p].gen = op[p].gen /\ (Connecting(p)' <=> Connecting(p))
    BY <1>19, <2>1, FlushStages DEF Live, Early, Mid, Replacing, Removing, Connecting
  <2>3. cancel \in Ops \cup {None}
    BY DEF Types
  <2> QED BY <2>1, <2>2, <2>3 DEF Gens, Ahead, Apart, Cancels
<1>20. CASE Publisher
  <2>1. /\ wake /\ op' = op /\ history' = history /\ gen' = gen /\ cancel' = cancel
    BY <1>20, PublisherFacts
  <2> QED BY <2>1 DEF Gens, Ahead, Apart, Cancels, Connecting, Live, Early, Mid, Replacing, Removing
<1>21. CASE Close
  <2>1. /\ ~closed /\ cancel' = None /\ op' = op /\ history'.forgotten = history.forgotten
        /\ gen' = IF cancel # None THEN gen + 1 ELSE gen
    BY <1>21, CloseFacts
  <2>2. \A p \in Ops : (Live(p)' <=> Live(p)) /\ op'[p].gen = op[p].gen
    BY <2>1 DEF Live, Early, Mid, Replacing, Removing
  <2>3. gen \in Nat /\ \A p \in Ops : op[p].gen \in Nat
    BY NumberFacts DEF Numbers
  <2>4. gen' = gen \/ gen' = gen + 1
    BY <2>1
  <2>5. Ahead => Ahead'
    BY <2>2, <2>3, <2>4 DEF Ahead
  <2> QED BY <2>1, <2>2, <2>5 DEF Gens, Apart, Cancels
<1>22. CASE UNCHANGED vars
  <2>1. /\ op' = op /\ history' = history /\ gen' = gen /\ cancel' = cancel
    BY <1>22, NothingFacts
  <2> QED BY <2>1 DEF Gens, Ahead, Apart, Cancels, Connecting, Live, Early, Mid, Replacing, Removing
<1> QED BY <1>1, <1>2, <1>3, <1>4, <1>5, <1>6, <1>7, <1>8, <1>9, <1>10, <1>11, <1>12, <1>13, <1>14,
    <1>15, <1>16, <1>17, <1>18, <1>19, <1>20, <1>21, <1>22 DEF Next, Operation

\* Every step keeps Begun and Asyncs.
LEMMA BegunStep == Types /\ Waiters /\ Begun /\ Asyncs /\ [Next]_vars => (Begun /\ Asyncs)'
<1> SUFFICES ASSUME Types, Waiters, Begun, Asyncs, [Next]_vars PROVE (Begun /\ Asyncs)'
  OBVIOUS
<1>1. ASSUME NEW o \in Ops, NEW new \in Configs, SetConfig(o, new) PROVE (Begun /\ Asyncs)'
  <2>1. /\ Others(o) /\ op[o].pc = "none" /\ started' = started /\ closed' = closed
        /\ op'[o].pc = (IF new = Absent THEN "reload" ELSE "notify")
        /\ op'[o].then = (IF Shown(new) = "starting" /\ started THEN "async" ELSE "reload")
    BY <1>1, SetConfigFacts
  <2> QED BY <2>1 DEF Begun, Asyncs, Others, Starts, Shown
<1>2. ASSUME NEW o \in Ops, Boot(o) PROVE (Begun /\ Asyncs)'
  <2>1. /\ Others(o) /\ op'[o].then = "done" /\ op[o].pc = "none" /\ ~started /\ ~closed
        /\ started' = TRUE /\ closed' = closed
        /\ op'[o].pc = (IF cfg.enabled THEN "async" ELSE "done")
    BY <1>2, BootFacts
  <2> QED BY <2>1 DEF Begun, Asyncs, Others, Starts
<1>3. ASSUME NEW o \in Ops, StartAsync(o) PROVE (Begun /\ Asyncs)'
  <2>1. /\ Others(o) /\ op[o].pc = "async" /\ started' = started /\ closed' = closed
        /\ closed =>
             op'[o].pc = (IF op[o].config THEN "reload" ELSE "done") /\ op'[o].then = op[o].then
        /\ ~closed => op'[o].pc = "notify" /\ op'[o].then = "begin"
    BY <1>3, StartAsyncFacts
  <2> QED BY <2>1 DEF Begun, Asyncs, Others, Starts
<1>4. ASSUME NEW o \in Ops, Reload(o) PROVE (Begun /\ Asyncs)'
  <2>1. /\ Others(o) /\ op'[o].then = op[o].then /\ started' = started /\ closed' = closed
        /\ \/ op[o].pc = "reload" /\ op'[o].pc = "done" /\ reloading' = reloading
           \/ o \in reloading /\ op'[o].pc = op[o].pc /\ reloading' = reloading \ {o}
    BY <1>4, ReloadFacts
  <2> QED BY <2>1 DEF Begun, Asyncs, Others, Starts
<1>5. ASSUME NEW o \in Ops, NEW enable \in BOOLEAN, Restart(o, enable) PROVE (Begun /\ Asyncs)'
  <2>1. /\ Others(o) /\ op'[o].pc = "notify" /\ op'[o].then = "begin" /\ op[o].pc = "none"
        /\ ~closed /\ cfg # Absent /\ started' = started /\ closed' = closed
        /\ (enable \/ client # None)
    BY <1>5, RestartFacts
  <2> QED BY <2>1 DEF Begun, Asyncs, Others, Starts
<1>6. ASSUME NEW o \in Ops, Disable(o) PROVE (Begun /\ Asyncs)'
  <2>1. /\ Others(o) /\ op'[o].pc = "offsync" /\ op'[o].then = "done" /\ op[o].pc = "none"
        /\ ~closed /\ cfg # Absent /\ started' = started /\ closed' = closed
    BY <1>6, DisableFacts
  <2> QED BY <2>1 DEF Begun, Asyncs, Others, Starts
<1>7. ASSUME NEW o \in Ops, Disabled(o) PROVE (Begun /\ Asyncs)'
  <2>1. /\ Others(o) /\ op'[o].pc = "notify" /\ op'[o].then = "done" /\ op[o].pc = "off"
        /\ started' = started /\ closed' = closed
    BY <1>7, DisabledFacts
  <2> QED BY <2>1 DEF Begun, Asyncs, Others, Starts
<1>8. ASSUME NEW o \in Ops, EnableAgain(o) PROVE (Begun /\ Asyncs)'
  <2>1. /\ Others(o) /\ op'[o].pc = "done" /\ op'[o].then = op[o].then /\ op[o].pc = "offfailed"
        /\ started' = started /\ closed' = closed
    BY <1>8, EnableAgainFacts
  <2> QED BY <2>1 DEF Begun, Asyncs, Others, Starts
<1>9. ASSUME NEW o \in Ops, Begin(o) PROVE (Begun /\ Asyncs)'
  <2>1. /\ Others(o) /\ op'[o].then = op[o].then /\ op[o].pc = "begin" /\ started' = started
        /\ closed' = closed
        /\ op'[o].pc = (IF closed \/ gen # op[o].gen THEN "done" ELSE "connect")
    BY <1>9, BeginFacts
  <2> QED BY <2>1 DEF Begun, Asyncs, Others, Starts
<1>10. ASSUME NEW o \in Ops, Connect(o) PROVE (Begun /\ Asyncs)'
  <2>1. /\ Others(o) /\ op'[o].pc = "publish" /\ op'[o].then = op[o].then /\ op[o].pc = "connect"
        /\ started' = started /\ closed' = closed
    BY <1>10, ConnectFacts
  <2> QED BY <2>1 DEF Begun, Asyncs, Others, Starts
<1>11. ASSUME NEW o \in Ops, Outdated(o) PROVE (Begun /\ Asyncs)'
  <2>1. /\ Others(o) /\ op'[o].pc = "done" /\ op'[o].then = op[o].then /\ op[o].pc = "publish"
        /\ ~Valid(o) /\ started' = started /\ closed' = closed
    BY <1>11, OutdatedFacts
  <2> QED BY <2>1 DEF Begun, Asyncs, Others, Starts
<1>12. ASSUME NEW o \in Ops, ConnectFailed(o) PROVE (Begun /\ Asyncs)'
  <2>1. /\ Others(o) /\ op'[o].pc = "notify" /\ op'[o].then = "done" /\ op[o].pc = "publish"
        /\ Valid(o) /\ ~op[o].got /\ started' = started /\ closed' = closed
    BY <1>12, ConnectFailedFacts
  <2> QED BY <2>1 DEF Begun, Asyncs, Others, Starts
<1>13. ASSUME NEW o \in Ops, Publish(o) PROVE (Begun /\ Asyncs)'
  <2>1. /\ Others(o) /\ op'[o].pc = "sync" /\ op'[o].then = op[o].then /\ op[o].pc = "publish"
        /\ Valid(o) /\ op[o].got /\ started' = started /\ closed' = closed
    BY <1>13, PublishFacts
  <2> QED BY <2>1 DEF Begun, Asyncs, Others, Starts
<1>14. ASSUME NEW o \in Ops, Activate(o) PROVE (Begun /\ Asyncs)'
  <2>1. /\ Others(o) /\ op'[o].pc = "notify" /\ op'[o].then = "done" /\ op[o].pc = "synced"
        /\ Valid(o) /\ client = o /\ started' = started /\ closed' = closed
    BY <1>14, ActivateFacts
  <2> QED BY <2>1 DEF Begun, Asyncs, Others, Starts
<1>15. ASSUME NEW o \in Ops, TooLate(o) PROVE (Begun /\ Asyncs)'
  <2>1. /\ Others(o) /\ op'[o].pc = "done" /\ op'[o].then = op[o].then /\ op[o].pc = "synced"
        /\ ~(Valid(o) /\ client = o) /\ started' = started /\ closed' = closed
    BY <1>15, TooLateFacts
  <2> QED BY <2>1 DEF Begun, Asyncs, Others, Starts
<1>16. ASSUME NEW o \in Ops, SyncFailed(o) PROVE (Begun /\ Asyncs)'
  <2>1. /\ Others(o) /\ op'[o].pc = "notify" /\ op'[o].then = "done" /\ op[o].pc = "unsynced"
        /\ started' = started /\ closed' = closed
    BY <1>16, SyncFailedFacts
  <2> QED BY <2>1 DEF Begun, Asyncs, Others, Starts
<1>17. ASSUME NEW o \in Ops, GiveUp(o) PROVE (Begun /\ Asyncs)'
  <2>1. /\ Others(o) /\ op'[o].then = op[o].then /\ closed /\ o \in waiters /\ started' = started
        /\ closed' = closed
        /\ op'[o].pc = (IF op[o].pc = "offsync" THEN "offfailed" ELSE "unsynced")
    BY <1>17, GiveUpFacts
  <2> QED BY <2>1 DEF Begun, Asyncs, Others, Starts, Waiters, Syncing
<1>18. ASSUME NEW o \in Ops, Notify(o) PROVE (Begun /\ Asyncs)'
  <2>1. /\ Others(o) /\ op'[o].pc = op[o].then /\ op'[o].then = op[o].then /\ op[o].pc = "notify"
        /\ started' = started /\ closed' = closed
    BY <1>18, NotifyFacts
  <2>2. op[o].then \in {"done", "async", "reload", "begin"}
    BY ThenFacts
  <2> QED BY <2>1, <2>2 DEF Begun, Asyncs, Others, Starts
<1>19. CASE Flush
  <2>1. /\ started' = started /\ closed' = closed
    BY <1>19, FlushFacts
  <2> QED BY <1>19, <2>1, FlushStages DEF Begun, Asyncs, Others, Starts
<1>20. CASE Publisher
  <2>1. /\ wake /\ op' = op /\ started' = started /\ closed' = closed
    BY <1>20, PublisherFacts
  <2> QED BY <2>1 DEF Begun, Asyncs, Others, Starts
<1>21. CASE Close
  <2>1. /\ ~closed /\ closed' = TRUE /\ op' = op /\ started' = started
    BY <1>21, CloseFacts
  <2> QED BY <2>1 DEF Begun, Asyncs, Others, Starts
<1>22. CASE UNCHANGED vars
  <2>1. /\ op' = op /\ started' = started /\ closed' = closed
    BY <1>22, NothingFacts
  <2> QED BY <2>1 DEF Begun, Asyncs, Others, Starts
<1> QED BY <1>1, <1>2, <1>3, <1>4, <1>5, <1>6, <1>7, <1>8, <1>9, <1>10, <1>11, <1>12, <1>13, <1>14,
    <1>15, <1>16, <1>17, <1>18, <1>19, <1>20, <1>21, <1>22 DEF Next, Operation

\* Every step keeps Queued.
LEMMA QueuedStep == Types /\ Queued /\ [Next]_vars => Queued'
<1> SUFFICES ASSUME Types, Queued, [Next]_vars PROVE Queued'
  OBVIOUS
<1>1. ASSUME NEW o \in Ops, NEW new \in Configs, SetConfig(o, new) PROVE Queued'
  <2>1. /\ Others(o) /\ op[o].pc = "none" /\ queue' = queue /\ wake' = wake
    BY <1>1, SetConfigFacts
  <2> QED BY <2>1 DEF Queued
<1>2. ASSUME NEW o \in Ops, Boot(o) PROVE Queued'
  <2>1. /\ Others(o) /\ op[o].pc = "none" /\ ~started /\ ~closed /\ queue' = queue /\ wake' = wake
    BY <1>2, BootFacts
  <2> QED BY <2>1 DEF Queued
<1>3. ASSUME NEW o \in Ops, StartAsync(o) PROVE Queued'
  <2>1. /\ Others(o) /\ op[o].pc = "async" /\ queue' = queue /\ wake' = wake
    BY <1>3, StartAsyncFacts
  <2> QED BY <2>1 DEF Queued
<1>4. ASSUME NEW o \in Ops, Reload(o) PROVE Queued'
  <2>1. /\ Others(o) /\ queue' = queue /\ wake' = wake
    BY <1>4, ReloadFacts
  <2> QED BY <2>1 DEF Queued
<1>5. ASSUME NEW o \in Ops, NEW enable \in BOOLEAN, Restart(o, enable) PROVE Queued'
  <2>1. /\ Others(o) /\ op[o].pc = "none" /\ ~closed /\ cfg # Absent /\ queue' = queue
        /\ wake' = wake
        /\ (enable \/ client # None)
    BY <1>5, RestartFacts
  <2> QED BY <2>1 DEF Queued
<1>6. ASSUME NEW o \in Ops, Disable(o) PROVE Queued'
  <2>1. /\ Others(o) /\ op[o].pc = "none" /\ ~closed /\ cfg # Absent /\ queue' = queue
        /\ wake' = wake
    BY <1>6, DisableFacts
  <2> QED BY <2>1 DEF Queued
<1>7. ASSUME NEW o \in Ops, Disabled(o) PROVE Queued'
  <2>1. /\ Others(o) /\ op[o].pc = "off" /\ queue' = queue /\ wake' = wake
    BY <1>7, DisabledFacts
  <2> QED BY <2>1 DEF Queued
<1>8. ASSUME NEW o \in Ops, EnableAgain(o) PROVE Queued'
  <2>1. /\ Others(o) /\ op[o].pc = "offfailed" /\ queue' = queue /\ wake' = wake
    BY <1>8, EnableAgainFacts
  <2> QED BY <2>1 DEF Queued
<1>9. ASSUME NEW o \in Ops, Begin(o) PROVE Queued'
  <2>1. /\ Others(o) /\ op[o].pc = "begin" /\ queue' = queue /\ wake' = wake
    BY <1>9, BeginFacts
  <2> QED BY <2>1 DEF Queued
<1>10. ASSUME NEW o \in Ops, Connect(o) PROVE Queued'
  <2>1. /\ Others(o) /\ op[o].pc = "connect" /\ queue' = queue /\ wake' = wake
    BY <1>10, ConnectFacts
  <2> QED BY <2>1 DEF Queued
<1>11. ASSUME NEW o \in Ops, Outdated(o) PROVE Queued'
  <2>1. /\ Others(o) /\ op[o].pc = "publish" /\ ~Valid(o) /\ queue' = queue /\ wake' = wake
    BY <1>11, OutdatedFacts
  <2> QED BY <2>1 DEF Queued
<1>12. ASSUME NEW o \in Ops, ConnectFailed(o) PROVE Queued'
  <2>1. /\ Others(o) /\ op[o].pc = "publish" /\ Valid(o) /\ ~op[o].got /\ queue' = queue
        /\ wake' = wake
    BY <1>12, ConnectFailedFacts
  <2> QED BY <2>1 DEF Queued
<1>13. ASSUME NEW o \in Ops, Publish(o) PROVE Queued'
  <2>1. /\ Others(o) /\ op[o].pc = "publish" /\ Valid(o) /\ op[o].got /\ queue' = queue
        /\ wake' = wake
    BY <1>13, PublishFacts
  <2> QED BY <2>1 DEF Queued
<1>14. ASSUME NEW o \in Ops, Activate(o) PROVE Queued'
  <2>1. /\ Others(o) /\ op[o].pc = "synced" /\ Valid(o) /\ client = o /\ queue' = queue
        /\ wake' = wake
    BY <1>14, ActivateFacts
  <2> QED BY <2>1 DEF Queued
<1>15. ASSUME NEW o \in Ops, TooLate(o) PROVE Queued'
  <2>1. /\ Others(o) /\ op[o].pc = "synced" /\ ~(Valid(o) /\ client = o) /\ queue' = queue
        /\ wake' = wake
    BY <1>15, TooLateFacts
  <2> QED BY <2>1 DEF Queued
<1>16. ASSUME NEW o \in Ops, SyncFailed(o) PROVE Queued'
  <2>1. /\ Others(o) /\ op[o].pc = "unsynced" /\ queue' = queue /\ wake' = wake
    BY <1>16, SyncFailedFacts
  <2> QED BY <2>1 DEF Queued
<1>17. ASSUME NEW o \in Ops, GiveUp(o) PROVE Queued'
  <2>1. /\ Others(o) /\ closed /\ o \in waiters /\ queue' = queue /\ wake' = wake
    BY <1>17, GiveUpFacts
  <2> QED BY <2>1 DEF Queued
<1>18. ASSUME NEW o \in Ops, Notify(o) PROVE Queued'
  <2>1. /\ Others(o) /\ op[o].pc = "notify" /\ queue' = Append(queue, notes[Mine(o)].state)
        /\ wake' = TRUE
    BY <1>18, NotifyFacts
  <2> QED BY <2>1 DEF Queued
<1>19. CASE Flush
  BY <1>19, FlushFacts DEF Queued
<1>20. CASE Publisher
  <2>1. /\ wake
        /\ queue = <<>> => wake' = FALSE /\ queue' = queue /\ view' = view
        /\ queue # <<>> => view' = Head(queue) /\ queue' = Tail(queue) /\ wake' = wake
    BY <1>20, PublisherFacts
  <2> QED BY <2>1 DEF Queued
<1>21. CASE Close
  <2>1. /\ ~closed /\ queue' = queue /\ wake' = wake
    BY <1>21, CloseFacts
  <2> QED BY <2>1 DEF Queued
<1>22. CASE UNCHANGED vars
  <2>1. /\ queue' = queue /\ wake' = wake
    BY <1>22, NothingFacts
  <2> QED BY <2>1 DEF Queued
<1> QED BY <1>1, <1>2, <1>3, <1>4, <1>5, <1>6, <1>7, <1>8, <1>9, <1>10, <1>11, <1>12, <1>13, <1>14,
    <1>15, <1>16, <1>17, <1>18, <1>19, <1>20, <1>21, <1>22 DEF Next, Operation

-----------------------------------------------------------------------------
(* Where the operations stand while none is entangled.                     *)

\* Nothing came after the operation.
Current(o) == op[o].gen = gen

\* The operation is starting the client.
Going(o) == (Early(o) \/ o \in Replacing) /\ Current(o)

\* It will start a client.
Announces(o) == op[o].then = "async" \/ op[o].pc = "async"

\* The state is active if there is a client, unless one is starting, and only then.
Fits(s, c) == (s = "active" => c # None) /\ (c # None /\ s # "starting" => s = "active")

\* The runtime is open, and no operation came at a moment that the properties except.
Untangled == ~closed /\ ~history.entangled /\ ~history.forgotten

\* A client that answered is open until it is published.
Got == \A o \in Ops :
  /\ op[o].pc = "publish" /\ op[o].got => o \in open
  /\ Unopened(o) => ~op[o].got

\* An operation that replaces the client has its own in the table.
ReplacersHold == \A o \in Ops : o \in Replacing => Current(o) /\ client = o

\* One that removes it knows how things were.
RemoversHold ==
  \A o \in Ops : o \in Removing =>
    /\ Current(o) /\ ~cfg.enabled /\ cfg # Absent
    /\ op[o].prev.cfg.ver = cfg.ver /\ Fits(op[o].prev.state, op[o].old)

\* A start in progress is of the current configuration, is shown, and can be cancelled.
StartsHold ==
  \A o \in Ops : Going(o) =>
    /\ cfg.enabled /\ op[o].ver = cfg.ver /\ (Early(o) => state = "starting")
    /\ op[o].pc \in {"connect", "publish"} => cancel = o

\* An announced start is of the current configuration.
AnnouncedHold == \A o \in Ops : Announces(o) => cfg.enabled /\ op[o].ver = cfg.ver

\* The client in the table runs, with the current configuration.
ClientHolds == client # None => client \in open /\ op[client].ver = cfg.ver

\* A client that is held on to runs, with the current configuration.
OldsHold ==
  \A o \in Ops : o \in Mid /\ op[o].old # None => op[o].old \in open /\ op[op[o].old].ver = cfg.ver

\* The state fits the client.
StateFits == Fits(state, client)

\* Somebody will end the state "starting".
StartingEnds ==
  state = "starting" =>
    cfg.enabled /\ (~started \/ \E o \in Ops : Announces(o) \/ Going(o))

\* How the operations stand when none was entangled.
Peace ==
  /\ ReplacersHold /\ RemoversHold /\ StartsHold /\ AnnouncedHold
  /\ ClientHolds /\ OldsHold /\ StateFits /\ StartingEnds

\* They stand so, unless one was entangled.
Calm == Untangled => Peace

\* The other operations stay where they are.
LEMMA OthersStay ==
  ASSUME NEW o \in Ops, Others(o)
  PROVE  \A p \in Ops : p # o =>
           /\ op'[p] = op[p]
           /\ Early(p)' <=> Early(p)
           /\ (p \in Replacing)' <=> p \in Replacing
           /\ (p \in Removing)' <=> p \in Removing
           /\ Announces(p)' <=> Announces(p)
BY DEF Others, Starts, Early, Replacing, Removing, Announces

\* After the step, no other operation has anything in hand.
Alone(o) ==
  \A p \in Ops : p # o =>
    /\ ~Going(p)' /\ (p \notin Replacing)' /\ (p \notin Removing)' /\ op'[p] = op[p]

\* At the end of the only current operation, no other has anything in hand.
LEMMA Sole ==
  ASSUME Types, Untangled, Gens, Peace, NEW o \in Ops, Others(o), Live(o), Current(o), gen' = gen
  PROVE  Alone(o)
<1>1. Apart
  BY DEF Untangled, Gens
<1>2. \A p \in Ops : Live(p) /\ Current(p) => p = o
  BY <1>1 DEF Apart, Current
<1>3. \A p \in Ops : p \in Mid => Current(p)
  BY DEF Peace, ReplacersHold, RemoversHold, Mid
<1>4. \A p \in Ops : p # o => ~Going(p) /\ p \notin Mid
  BY <1>2, <1>3 DEF Going, Live, Mid
<1> QED BY <1>4, OthersStay DEF Alone, Going, Mid, Current

\* With a new generation and nothing to entangle, no other operation has anything in hand.
LEMMA Fresh ==
  ASSUME Types, Untangled, Gens, NEW o \in Ops, Others(o), gen' = gen + 1,
         ~Entangles(o)
  PROVE  Alone(o) /\ \A p \in Ops : p # o => ~Announces(p)'
<1>1. \A p \in Ops : p # o => p \notin Replacing /\ p \notin Removing /\ ~Announces(p)
  BY DEF Entangles, Announced, Announces, At
<1>2. Ahead
  BY DEF Untangled, Gens
<1>3. gen \in Nat /\ \A p \in Ops : op[p].gen \in Nat
  BY NumberFacts DEF Numbers
<1>4. \A p \in Ops : Live(p) => op[p].gen # gen + 1
  BY <1>2, <1>3 DEF Ahead
<1>5. \A p \in Ops : p # o /\ Early(p)' => op'[p].gen # gen'
  BY <1>4, OthersStay DEF Live
<1> QED BY <1>1, <1>5, OthersStay DEF Alone, Going, Current

\* Every step keeps Got.
LEMMA GotStep == Types /\ Waiters /\ Olds /\ Got /\ [Next]_vars => Got'
<1> SUFFICES ASSUME Types, Waiters, Olds, Got, [Next]_vars PROVE Got'
  OBVIOUS
<1>1. ASSUME NEW o \in Ops, NEW new \in Configs, SetConfig(o, new) PROVE Got'
  <2>1. /\ Others(o) /\ op'[o].got = FALSE /\ op'[o].old = None /\ op[o].pc = "none"
        /\ op'[o].pc = (IF new = Absent THEN "reload" ELSE "notify")
        /\ op'[o].then = (IF Shown(new) = "starting" /\ started THEN "async" ELSE "reload")
        /\ client' = IF KeepsClient(new) THEN client ELSE None
        /\ open' = IF KeepsClient(new) THEN open ELSE open \ {client}
    BY <1>1, SetConfigFacts
  <2> QED BY <2>1, NoneFacts DEF Got, Unopened, Others, Starts, Olds, Mid, Removing, Replacing,
      Published
<1>2. ASSUME NEW o \in Ops, Boot(o) PROVE Got'
  <2>1. /\ Others(o) /\ op'[o].then = "done" /\ op'[o].got = FALSE /\ op'[o].old = None
        /\ op[o].pc = "none" /\ ~started /\ ~closed /\ client' = client /\ open' = open
        /\ op'[o].pc = (IF cfg.enabled THEN "async" ELSE "done")
    BY <1>2, BootFacts
  <2> QED BY <2>1 DEF Got, Unopened, Others, Starts
<1>3. ASSUME NEW o \in Ops, StartAsync(o) PROVE Got'
  <2>1. /\ Others(o) /\ op'[o].got = op[o].got /\ op'[o].old = op[o].old /\ op[o].pc = "async"
        /\ client' = client /\ open' = open
        /\ closed =>
             op'[o].pc = (IF op[o].config THEN "reload" ELSE "done") /\ op'[o].then = op[o].then
        /\ ~closed => op'[o].pc = "notify" /\ op'[o].then = "begin"
    BY <1>3, StartAsyncFacts
  <2> QED BY <2>1 DEF Got, Unopened, Others, Starts
<1>4. ASSUME NEW o \in Ops, Reload(o) PROVE Got'
  <2>1. /\ Others(o) /\ op'[o].then = op[o].then /\ op'[o].got = op[o].got
        /\ op'[o].old = op[o].old /\ client' = client /\ open' = open
        /\ \/ op[o].pc = "reload" /\ op'[o].pc = "done" /\ reloading' = reloading
           \/ o \in reloading /\ op'[o].pc = op[o].pc /\ reloading' = reloading \ {o}
    BY <1>4, ReloadFacts
  <2> QED BY <2>1 DEF Got, Unopened, Others, Starts
<1>5. ASSUME NEW o \in Ops, NEW enable \in BOOLEAN, Restart(o, enable) PROVE Got'
  <2>1. /\ Others(o) /\ op'[o].pc = "notify" /\ op'[o].then = "begin" /\ op'[o].got = FALSE
        /\ op'[o].old = None /\ op[o].pc = "none" /\ ~closed /\ cfg # Absent /\ client' = client
        /\ open' = open
        /\ (enable \/ client # None)
    BY <1>5, RestartFacts
  <2> QED BY <2>1 DEF Got, Unopened, Others, Starts
<1>6. ASSUME NEW o \in Ops, Disable(o) PROVE Got'
  <2>1. /\ Others(o) /\ op'[o].pc = "offsync" /\ op'[o].then = "done" /\ op'[o].got = FALSE
        /\ op'[o].old = client /\ op[o].pc = "none" /\ ~closed /\ cfg # Absent /\ client' = None
        /\ open' = open
    BY <1>6, DisableFacts
  <2> QED BY <2>1 DEF Got, Unopened, Others, Starts
<1>7. ASSUME NEW o \in Ops, Disabled(o) PROVE Got'
  <2>1. /\ Others(o) /\ op'[o].pc = "notify" /\ op'[o].then = "done" /\ op'[o].got = op[o].got
        /\ op'[o].old = op[o].old /\ op[o].pc = "off" /\ open' = open \ {op[o].old}
        /\ client' = client
    BY <1>7, DisabledFacts
  <2> QED BY <2>1, NoneFacts DEF Got, Unopened, Others, Starts, Olds, Mid, Removing, Replacing,
      Published
<1>8. ASSUME NEW o \in Ops, EnableAgain(o) PROVE Got'
  <2> USE DEF TakenBack
  <2>1. /\ Others(o) /\ op'[o].pc = "done" /\ op'[o].then = op[o].then /\ op'[o].got = op[o].got
        /\ op'[o].old = op[o].old /\ op[o].pc = "offfailed" /\ open' = open
        /\ TakenBack(o)
    BY <1>8, EnableAgainFacts
  <2> QED BY <2>1 DEF Got, Unopened, Others, Starts
<1>9. ASSUME NEW o \in Ops, Begin(o) PROVE Got'
  <2>1. /\ Others(o) /\ op'[o].then = op[o].then /\ op'[o].got = op[o].got
        /\ op'[o].old = op[o].old /\ op[o].pc = "begin" /\ client' = client /\ open' = open
        /\ op'[o].pc = (IF closed \/ gen # op[o].gen THEN "done" ELSE "connect")
    BY <1>9, BeginFacts
  <2> QED BY <2>1 DEF Got, Unopened, Others, Starts
<1>10. ASSUME NEW o \in Ops, Connect(o) PROVE Got'
  <2>1. /\ Others(o) /\ op'[o].pc = "publish" /\ op'[o].then = op[o].then /\ op'[o].old = op[o].old
        /\ op[o].pc = "connect" /\ client' = client
        /\ (op'[o].got = TRUE /\ open' = open \cup {o}) \/ (op'[o].got = op[o].got /\ open' = open)
    BY <1>10, ConnectFacts
  <2> QED BY <2>1 DEF Got, Unopened, Others, Starts
<1>11. ASSUME NEW o \in Ops, Outdated(o) PROVE Got'
  <2>1. /\ Others(o) /\ op'[o].pc = "done" /\ op'[o].then = op[o].then /\ op'[o].got = op[o].got
        /\ op'[o].old = op[o].old /\ op[o].pc = "publish" /\ ~Valid(o) /\ open' = open \ {o}
        /\ client' = client
    BY <1>11, OutdatedFacts
  <2> QED BY <2>1 DEF Got, Unopened, Others, Starts
<1>12. ASSUME NEW o \in Ops, ConnectFailed(o) PROVE Got'
  <2>1. /\ Others(o) /\ op'[o].pc = "notify" /\ op'[o].then = "done" /\ op'[o].got = op[o].got
        /\ op'[o].old = op[o].old /\ op[o].pc = "publish" /\ Valid(o) /\ ~op[o].got
        /\ client' = client /\ open' = open
    BY <1>12, ConnectFailedFacts
  <2> QED BY <2>1 DEF Got, Unopened, Others, Starts
<1>13. ASSUME NEW o \in Ops, Publish(o) PROVE Got'
  <2>1. /\ Others(o) /\ op'[o].pc = "sync" /\ op'[o].then = op[o].then /\ op'[o].got = op[o].got
        /\ op'[o].old = client /\ op[o].pc = "publish" /\ Valid(o) /\ op[o].got /\ client' = o
        /\ open' = open
    BY <1>13, PublishFacts
  <2> QED BY <2>1 DEF Got, Unopened, Others, Starts
<1>14. ASSUME NEW o \in Ops, Activate(o) PROVE Got'
  <2>1. /\ Others(o) /\ op'[o].pc = "notify" /\ op'[o].then = "done" /\ op'[o].got = op[o].got
        /\ op'[o].old = op[o].old /\ op[o].pc = "synced" /\ Valid(o) /\ client = o
        /\ open' = open \ {op[o].old} /\ client' = client
    BY <1>14, ActivateFacts
  <2> QED BY <2>1, NoneFacts DEF Got, Unopened, Others, Starts, Olds, Mid, Removing, Replacing,
      Published
<1>15. ASSUME NEW o \in Ops, TooLate(o) PROVE Got'
  <2>1. /\ Others(o) /\ op'[o].pc = "done" /\ op'[o].then = op[o].then /\ op'[o].got = op[o].got
        /\ op'[o].old = op[o].old /\ op[o].pc = "synced" /\ ~(Valid(o) /\ client = o)
        /\ open' = open \ {o} /\ client' = client
    BY <1>15, TooLateFacts
  <2> QED BY <2>1 DEF Got, Unopened, Others, Starts
<1>16. ASSUME NEW o \in Ops, SyncFailed(o) PROVE Got'
  <2>1. /\ Others(o) /\ op'[o].pc = "notify" /\ op'[o].then = "done" /\ op'[o].got = op[o].got
        /\ op'[o].old = op[o].old /\ op[o].pc = "unsynced" /\ open' = open \ {o}
        /\ gen = op[o].gen /\ client = o =>
             /\ client' = op[o].old /\ failed' = TRUE
             /\ state' = IF op[o].old # None THEN "active" ELSE "error"
        /\ ~(gen = op[o].gen /\ client = o) =>
             client' = client /\ failed' = failed /\ state' = state
    BY <1>16, SyncFailedFacts
  <2> QED BY <2>1 DEF Got, Unopened, Others, Starts
<1>17. ASSUME NEW o \in Ops, GiveUp(o) PROVE Got'
  <2>1. /\ Others(o) /\ op'[o].then = op[o].then /\ op'[o].got = op[o].got
        /\ op'[o].old = op[o].old /\ closed /\ o \in waiters /\ client' = client /\ open' = open
        /\ op'[o].pc = (IF op[o].pc = "offsync" THEN "offfailed" ELSE "unsynced")
    BY <1>17, GiveUpFacts
  <2> QED BY <2>1 DEF Got, Unopened, Others, Starts, Waiters, Syncing
<1>18. ASSUME NEW o \in Ops, Notify(o) PROVE Got'
  <2>1. /\ Others(o) /\ op'[o].pc = op[o].then /\ op'[o].then = op[o].then
        /\ op'[o].got = op[o].got /\ op'[o].old = op[o].old /\ op[o].pc = "notify"
        /\ client' = client /\ open' = open
    BY <1>18, NotifyFacts
  <2>2. op[o].then \in {"done", "async", "reload", "begin"}
    BY ThenFacts
  <2> QED BY <2>1, <2>2 DEF Got, Unopened, Others, Starts
<1>19. CASE Flush
  <2>1. /\ client' = client /\ open' = open
    BY <1>19, FlushFacts
  <2> QED BY <1>19, <2>1, FlushStages DEF Got, Unopened, Others, Starts
<1>20. CASE Publisher
  <2>1. /\ wake /\ op' = op /\ client' = client /\ open' = open
    BY <1>20, PublisherFacts
  <2> QED BY <2>1 DEF Got, Unopened, Others, Starts
<1>21. CASE Close
  <2>1. /\ ~closed /\ client' = None /\ open' = open \ {client} /\ op' = op
    BY <1>21, CloseFacts
  <2> QED BY <2>1, NoneFacts DEF Got, Unopened, Others, Starts, Olds, Mid, Removing, Replacing,
      Published
<1>22. CASE UNCHANGED vars
  <2>1. /\ op' = op /\ client' = client /\ open' = open
    BY <1>22, NothingFacts
  <2> QED BY <2>1 DEF Got, Unopened, Others, Starts
<1> QED BY <1>1, <1>2, <1>3, <1>4, <1>5, <1>6, <1>7, <1>8, <1>9, <1>10, <1>11, <1>12, <1>13, <1>14,
    <1>15, <1>16, <1>17, <1>18, <1>19, <1>20, <1>21, <1>22 DEF Next, Operation

\* Every operation keeps what it holds on to.
SteadyStages ==
  \A p \in Ops : /\ (p \in Replacing)' <=> p \in Replacing
                 /\ (p \in Removing)' <=> p \in Removing
                 /\ p \in Mid =>
                      op'[p].gen = op[p].gen /\ op'[p].old = op[p].old /\ op'[p].prev = op[p].prev

\* Clients that were published keep running.
SteadyClients == \A x : Published(x) => op'[x].ver = op[x].ver /\ (x \in open => x \in open')

\* Steps that keep both keep what is held of the clients.
LEMMA Steady ==
  ASSUME Types, Olds, Peace, SteadyStages, SteadyClients, cfg' = cfg, client' = client,
         state' = state, gen' = gen
  PROVE  ReplacersHold' /\ RemoversHold' /\ ClientHolds' /\ OldsHold' /\ StateFits'
<1>1. ReplacersHold' /\ RemoversHold'
  BY DEF Peace, ReplacersHold, RemoversHold, SteadyStages, Current, Mid
<1>2. ClientHolds'
  BY DEF Peace, ClientHolds, SteadyClients, Olds
<1>3. \A p \in Ops : p \in Mid' => p \in Mid /\ op'[p].old = op[p].old
  BY DEF SteadyStages, Mid
<1>4. OldsHold'
  BY <1>3 DEF Peace, OldsHold, SteadyClients, Olds
<1> QED BY <1>1, <1>2, <1>4 DEF Peace, StateFits

\* A start of the operation goes on, and does not begin.
StillStarting(o) ==
  /\ Going(o)' => Going(o) /\ op'[o].ver = op[o].ver /\ (Early(o)' => Early(o))
  /\ Going(o)' /\ op'[o].pc \in {"connect", "publish"} => cancel' = o

\* Steps in which no start begins keep StartsHold.
LEMMA StartsSteady ==
  ASSUME Peace, NEW o \in Ops, Others(o), StillStarting(o), cfg' = cfg, state' = state, gen' = gen,
         \A p \in Ops : cancel = p /\ p # o => cancel' = p
  PROVE  StartsHold'
<1>1. ASSUME NEW p \in Ops, p # o, Going(p)'
      PROVE  /\ Going(p) /\ (Early(p)' => Early(p)) /\ op'[p] = op[p]
  BY <1>1, OthersStay DEF Going, Current
<1>2. \A p \in Ops : Going(p)' => Going(p) /\ (Early(p)' => Early(p)) /\ op'[p].ver = op[p].ver
  BY <1>1 DEF StillStarting
<1>3. \A p \in Ops : Going(p)' /\ op'[p].pc \in {"connect", "publish"} => cancel' = p
  BY <1>1 DEF StillStarting, Peace, StartsHold
<1> QED BY <1>2, <1>3 DEF Peace, StartsHold

\* Steps in which the operation goes on with its start keep StartingEnds.
LEMMA StartingSteady ==
  ASSUME Peace, NEW o \in Ops, Others(o), cfg' = cfg, state' = state, gen' = gen,
         Announces(o) \/ Going(o) => Announces(o)' \/ Going(o)',
         cfg.enabled => started' = started \/ Announces(o)'
  PROVE  StartingEnds'
<1>1. \A p \in Ops : Announces(p) \/ Going(p) => Announces(p)' \/ Going(p)'
  BY OthersStay DEF Going, Current
<1> QED BY <1>1 DEF Peace, StartingEnds

\* Every step keeps Calm.
LEMMA CalmStep ==
  Types /\ Waiters /\ Opened /\ Olds /\ Gens /\ Begun /\ Asyncs /\ Got /\ Calm /\
    [Next]_vars => Calm'
<1> SUFFICES ASSUME Types, Waiters, Opened, Olds, Gens, Begun, Asyncs, Got, Calm, [Next]_vars
             PROVE  Calm'
  OBVIOUS
<1>1. ASSUME NEW o \in Ops, NEW new \in Configs, SetConfig(o, new) PROVE Calm'
  <2>1. /\ Others(o) /\ op[o].pc = "none" /\ op'[o].pc \in {"reload", "notify"}
        /\ op'[o].then # "begin"
        /\ op'[o].ver = new.ver /\ op'[o].old = None
        /\ cancel' = None /\ cfg' = new /\ state' = Shown(new) /\ started' = started
        /\ closed' = closed
        /\ client' = IF KeepsClient(new) THEN client ELSE None
        /\ open' = IF KeepsClient(new) THEN open ELSE open \ {client}
    <3>1. op'[o].pc \in {"reload", "notify"}
      BY <1>1, SetConfigFacts
    <3>2. op'[o].then \in {"async", "reload"}
      BY <1>1, SetConfigFacts
    <3>3. /\ Others(o) /\ op[o].pc = "none" /\ op'[o].ver = new.ver /\ op'[o].old = None
          /\ cancel' = None /\ cfg' = new /\ state' = Shown(new) /\ started' = started
          /\ closed' = closed
      BY <1>1, SetConfigFacts
    <3>4. /\ client' = IF KeepsClient(new) THEN client ELSE None
          /\ open' = IF KeepsClient(new) THEN open ELSE open \ {client}
      BY <1>1, SetConfigFacts
    <3> QED BY <3>1, <3>2, <3>3, <3>4
  <2>2. gen' = IF new = Absent THEN 0 ELSE IF cancel # None THEN gen + 1 ELSE gen
    BY <1>1, SetConfigFacts
  <2>3. /\ KeepsClient(new) => history'.entangled = history.entangled
        /\ ~KeepsClient(new) /\ ~history'.entangled =>
             ~history.entangled /\ ~Entangles(o)
        /\ ~history'.forgotten =>
             ~history.forgotten /\ Unregistered = {} /\ (new = Absent => Busy = {})
    BY <1>1, SetConfigFacts
  <2>4. op'[o].then = (IF Shown(new) = "starting" /\ started THEN "async" ELSE "reload")
        /\ op'[o].pc = (IF new = Absent THEN "reload" ELSE "notify")
    BY <1>1, SetConfigFacts
  <2> SUFFICES ASSUME Untangled' PROVE Peace'
    BY DEF Calm
  <2>5. Untangled /\ Peace
    BY <2>1, <2>3 DEF Untangled, Calm
  <2>6. /\ ~Early(o)' /\ (o \notin Replacing)' /\ (o \notin Removing)'
        /\ Announces(o)' => Shown(new) = "starting"
    BY <2>1, <2>4 DEF Early, Replacing, Removing, Announces
  <2>7. \A x : Published(x) => x # o /\ op'[x].ver = op[x].ver
    BY <2>1, NoneFacts DEF Published, Others, Starts
  <2>8. \A p \in Ops : Early(p) => op[p].pc \in {"connect", "publish"} /\ p \in Busy
    BY <2>3, <2>5 DEF Untangled, Early, Unregistered, At, Busy, Begun
  <2>9. \A p \in Ops : Early(p) => ~Going(p)'
    <3> SUFFICES ASSUME NEW p \in Ops, Early(p), Going(p)' PROVE FALSE
      OBVIOUS
    <3>1. p # o /\ op'[p].gen = op[p].gen /\ new # Absent
      BY <2>1, <2>3, <2>6, <2>8 DEF Untangled, Others, Starts, Going
    <3>2. CASE cancel = None
      <4>1. Going(p)
        BY <2>2, <2>1, <3>1, <3>2 DEF Going, Current
      <4> QED BY <2>5, <2>8, <3>2, <4>1, NoneFacts DEF Peace, StartsHold
    <3>3. CASE cancel # None
      <4>1. gen \in Nat /\ op[p].gen \in Nat
        BY NumberFacts DEF Numbers
      <4>2. op[p].gen <= gen
        BY <2>5 DEF Untangled, Gens, Ahead, Live
      <4>3. op[p].gen = gen + 1
        BY <2>2, <2>1, <3>1, <3>3 DEF Going, Current
      <4> QED BY <4>1, <4>2, <4>3
    <3> QED BY <3>2, <3>3
  <2>10. CASE KeepsClient(new)
    <3>1. new = cfg /\ cfg.enabled /\ client # None /\ new # Absent /\ Shown(new) = "active"
      BY <2>10, ConfigFacts DEF KeepsClient, Shown
    <3>2. \A p \in Ops : p \notin Removing
      BY <2>5, <3>1 DEF Peace, RemoversHold
    <3>3. \A p \in Ops : p \in Replacing => cancel = None
      <4> SUFFICES ASSUME NEW p \in Ops, p \in Replacing, cancel # None PROVE FALSE
        OBVIOUS
      <4>1. cancel \in Ops /\ Connecting(cancel)
        BY <2>5 DEF Untangled, Gens, Cancels, Types
      <4>2. Live(p) /\ Live(cancel) /\ op[p].gen = op[cancel].gen
        BY <2>5, <4>1 DEF Peace, ReplacersHold, Current, Connecting, Live, Early, Mid
      <4>3. p = cancel
        BY <2>5, <4>1, <4>2 DEF Untangled, Gens, Apart
      <4> QED BY <4>1, <4>3 DEF Connecting, Replacing
    <3>4. \A p \in Ops : /\ (p \in Replacing)' => p \in Replacing /\ p # o /\ gen' = gen
                         /\ (p \notin Removing)'
      BY <2>2, <2>1, <2>6, <3>1, <3>2, <3>3, OthersStay
    <3>5. ReplacersHold' /\ RemoversHold'
      BY <2>1, <2>5, <2>10, <3>4, OthersStay DEF Peace, ReplacersHold, RemoversHold, Current
    <3>6. \A p \in Ops : Going(p)' =>
                  p \in Replacing /\ p # o /\ Going(p) /\ op'[p] = op[p] /\ ~Early(p)'
      BY <2>1, <2>6, <2>9, <3>4, OthersStay DEF Going, Current
    <3>7. StartsHold'
      BY <2>1, <2>5, <3>1, <3>6 DEF Peace, StartsHold, Early
    <3>8. AnnouncedHold'
      BY <2>1, <2>5, <3>1, OthersStay DEF Peace, AnnouncedHold
    <3>9. ClientHolds' /\ OldsHold'
      BY <2>1, <2>5, <2>7, <2>10, <3>1, <3>4, OthersStay DEF Peace, ClientHolds, OldsHold, Mid, Olds
    <3>10. StateFits' /\ StartingEnds'
      BY <2>1, <2>10, <3>1 DEF StateFits, Fits, StartingEnds
    <3> QED BY <3>5, <3>7, <3>8, <3>9, <3>10 DEF Peace
  <2>11. CASE ~KeepsClient(new)
    <3>1. \A p \in Ops : p # o => p \notin Replacing /\ p \notin Removing /\ ~Announces(p)
      BY <2>3, <2>11 DEF Untangled, Entangles, Announced, Announces, At
    <3>2. \A p \in Ops :
            (p \notin Replacing)' /\ (p \notin Removing)' /\ ~Going(p)' /\ (Announces(p)' => p = o)
      BY <2>1, <2>6, <2>9, <3>1, OthersStay DEF Going
    <3>3. ReplacersHold' /\ RemoversHold' /\ StartsHold' /\ OldsHold'
      BY <3>2 DEF ReplacersHold, RemoversHold, StartsHold, OldsHold, Mid
    <3>4. Shown(new) # "active" /\ (Shown(new) = "starting" => new.enabled /\ new # Absent)
      BY <2>11 DEF Shown
    <3>5. AnnouncedHold'
      BY <2>1, <2>6, <3>2, <3>4 DEF AnnouncedHold
    <3>6. client' = None
      BY <2>1, <2>11
    <3>7. ClientHolds' /\ StateFits'
      BY <2>1, <3>4, <3>6 DEF ClientHolds, StateFits, Fits
    <3>8. StartingEnds'
      BY <2>1, <2>4, <3>4 DEF StartingEnds, Announces
    <3> QED BY <3>3, <3>5, <3>7, <3>8 DEF Peace
  <2> QED BY <2>10, <2>11
<1>2. ASSUME NEW o \in Ops, Boot(o) PROVE Calm'
  <2>1. /\ Others(o) /\ op'[o].then = "done" /\ op'[o].ver = cfg.ver /\ op'[o].gen = 0
        /\ op'[o].got = FALSE /\ op'[o].old = None /\ op[o].pc = "none" /\ ~started /\ ~closed
        /\ started' = TRUE /\ cfg' = cfg /\ client' = client /\ state' = state /\ gen' = gen
        /\ cancel' = cancel /\ closed' = closed /\ open' = open /\ history' = history
        /\ op'[o].pc = (IF cfg.enabled THEN "async" ELSE "done")
    BY <1>2, BootFacts
  <2> SUFFICES ASSUME Untangled' PROVE Peace'
    BY DEF Calm
  <2>2. Untangled /\ Peace
    BY <2>1 DEF Untangled, Calm
  <2>3. SteadyStages /\ SteadyClients
    BY <2>1, NoneFacts DEF SteadyStages, SteadyClients, Published, Replacing, Removing, Mid, Others,
       Starts
  <2>4. ReplacersHold' /\ RemoversHold' /\ ClientHolds' /\ OldsHold' /\ StateFits'
    BY <2>1, <2>2, <2>3, Steady
  <2>5. StillStarting(o)
    BY <2>1, <2>2 DEF StillStarting, Peace, StartsHold, Going, Early, Replacing, Announces, Current
  <2>6. StartsHold'
    BY <2>1, <2>2, <2>5, StartsSteady
  <2>7. AnnouncedHold'
    BY <2>1, <2>2, OthersStay DEF Peace, AnnouncedHold, Announces
  <2>8. StartingEnds'
    <3>1. /\ Announces(o) \/ Going(o) => Announces(o)' \/ Going(o)'
          /\ cfg.enabled => started' = started \/ Announces(o)'
      BY <2>1, <2>2 DEF Untangled, Asyncs, Going, Early, Replacing, Announces, Current
    <3> QED BY <2>1, <2>2, <3>1, StartingSteady
  <2> QED BY <2>4, <2>6, <2>7, <2>8 DEF Peace
<1>3. ASSUME NEW o \in Ops, StartAsync(o) PROVE Calm'
  <2> USE DEF SetsOff
  <2>1. /\ Others(o) /\ op'[o].ver = op[o].ver /\ op'[o].got = op[o].got /\ op'[o].old = op[o].old
        /\ op'[o].prev = op[o].prev /\ op[o].pc = "async" /\ cfg' = cfg /\ client' = client
        /\ started' = started /\ closed' = closed /\ open' = open
        /\ history'.forgotten = history.forgotten
        /\ SetsOff(o)
        /\ history'.entangled = (history.entangled \/ Entangles(o))
    BY <1>3, StartAsyncFacts
  <2>2. CASE closed
    BY <2>1, <2>2 DEF Calm, Untangled
  <2> SUFFICES ASSUME ~closed PROVE Calm'
    BY <2>2
  <2> SUFFICES ASSUME Untangled' PROVE Peace'
    BY DEF Calm
  <2>3. Untangled /\ Peace
    BY <2>1 DEF Untangled, Calm
  <2>4. ~Entangles(o)
    BY <2>1 DEF Untangled
  <2>5. Alone(o) /\ \A p \in Ops : p # o => ~Announces(p)'
    BY <2>1, <2>3, <2>4, Fresh
  <2>6. /\ Early(o)' /\ (o \notin Replacing)' /\ (o \notin Removing)' /\ ~Announces(o)'
        /\ SteadyClients /\ Going(o)'
    BY <2>1, NoneFacts DEF Early, Replacing, Removing, Announces, SteadyClients, Published, Others,
       Starts, Going, Current
  <2>7. cfg'.enabled /\ op'[o].ver = cfg'.ver
    BY <2>1, <2>3 DEF Peace, AnnouncedHold, Announces
  <2>8. ReplacersHold' /\ RemoversHold' /\ OldsHold'
    BY <2>5, <2>6 DEF Alone, ReplacersHold, RemoversHold, OldsHold, Mid
  <2>9. StartsHold' /\ AnnouncedHold'
    BY <2>1, <2>5, <2>6, <2>7 DEF Alone, StartsHold, AnnouncedHold
  <2>10. ClientHolds'
    BY <2>1, <2>3, <2>6 DEF Peace, ClientHolds, SteadyClients, Olds
  <2>11. StateFits' /\ StartingEnds'
    BY <2>1, <2>6, <2>7 DEF StateFits, Fits, StartingEnds
  <2> QED BY <2>8, <2>9, <2>10, <2>11 DEF Peace
<1>4. ASSUME NEW o \in Ops, Reload(o) PROVE Calm'
  <2>1. /\ Others(o) /\ op'[o].then = op[o].then /\ op'[o].ver = op[o].ver
        /\ op'[o].gen = op[o].gen /\ op'[o].got = op[o].got /\ op'[o].old = op[o].old
        /\ op'[o].prev = op[o].prev /\ cfg' = cfg /\ client' = client /\ state' = state
        /\ gen' = gen /\ cancel' = cancel /\ started' = started /\ closed' = closed /\ open' = open
        /\ history'.entangled = history.entangled /\ history'.forgotten = history.forgotten
        /\ \/ op[o].pc = "reload" /\ op'[o].pc = "done" /\ reloading' = reloading
           \/ o \in reloading /\ op'[o].pc = op[o].pc /\ reloading' = reloading \ {o}
    BY <1>4, ReloadFacts
  <2> SUFFICES ASSUME Untangled' PROVE Peace'
    BY DEF Calm
  <2>2. Untangled /\ Peace
    BY <2>1 DEF Untangled, Calm
  <2>3. SteadyStages /\ SteadyClients
    BY <2>1, NoneFacts DEF SteadyStages, SteadyClients, Published, Replacing, Removing, Mid, Others,
       Starts
  <2>4. ReplacersHold' /\ RemoversHold' /\ ClientHolds' /\ OldsHold' /\ StateFits'
    BY <2>1, <2>2, <2>3, Steady
  <2>5. StillStarting(o)
    BY <2>1, <2>2 DEF StillStarting, Peace, StartsHold, Going, Early, Replacing, Announces, Current
  <2>6. StartsHold'
    BY <2>1, <2>2, <2>5, StartsSteady
  <2>7. AnnouncedHold'
    BY <2>1, <2>2, OthersStay DEF Peace, AnnouncedHold, Announces
  <2>8. StartingEnds'
    <3>1. /\ Announces(o) \/ Going(o) => Announces(o)' \/ Going(o)'
          /\ cfg.enabled => started' = started \/ Announces(o)'
      BY <2>1 DEF Going, Early, Replacing, Announces, Current
    <3> QED BY <2>1, <2>2, <3>1, StartingSteady
  <2> QED BY <2>4, <2>6, <2>7, <2>8 DEF Peace
<1>5. ASSUME NEW o \in Ops, NEW enable \in BOOLEAN, Restart(o, enable) PROVE Calm'
  <2>1. /\ Others(o) /\ op'[o].pc = "notify" /\ op'[o].then = "begin" /\ op'[o].ver = cfg.ver
        /\ op'[o].gen = gen + 1 /\ op'[o].got = FALSE /\ op'[o].old = None /\ op[o].pc = "none"
        /\ ~closed /\ cfg # Absent /\ gen' = gen + 1 /\ cancel' = None /\ state' = "starting"
        /\ client' = client /\ started' = started /\ closed' = closed /\ open' = open
        /\ history'.forgotten = history.forgotten
        /\ (enable \/ client # None)
        /\ cfg'.ver = cfg.ver /\ cfg'.enabled = (enable \/ cfg.enabled) /\ cfg' \in Configs
        /\ cfg' # Absent
        /\ history'.entangled = (history.entangled \/ Entangles(o))
    BY <1>5, RestartFacts
  <2> SUFFICES ASSUME Untangled' PROVE Peace'
    BY DEF Calm
  <2>2. Untangled /\ Peace
    BY <2>1 DEF Untangled, Calm
  <2>3. ~Entangles(o)
    BY <2>1 DEF Untangled
  <2>4. Alone(o) /\ \A p \in Ops : p # o => ~Announces(p)'
    BY <2>1, <2>2, <2>3, Fresh
  <2>5. /\ Early(o)' /\ (o \notin Replacing)' /\ (o \notin Removing)' /\ ~Announces(o)'
        /\ SteadyClients /\ Going(o)'
    BY <2>1, NoneFacts DEF Early, Replacing, Removing, Announces, SteadyClients, Published, Others,
       Starts, Going, Current
  <2>6. cfg'.enabled /\ op'[o].ver = cfg'.ver
    BY <2>1 DEF Olds
  <2>7. ReplacersHold' /\ RemoversHold' /\ OldsHold'
    BY <2>4, <2>5 DEF Alone, ReplacersHold, RemoversHold, OldsHold, Mid
  <2>8. StartsHold' /\ AnnouncedHold'
    BY <2>1, <2>4, <2>5, <2>6 DEF Alone, StartsHold, AnnouncedHold
  <2>9. ClientHolds'
    BY <2>1, <2>2, <2>5 DEF Peace, ClientHolds, SteadyClients, Olds
  <2>10. StateFits' /\ StartingEnds'
    BY <2>1, <2>5, <2>6 DEF StateFits, Fits, StartingEnds
  <2> QED BY <2>7, <2>8, <2>9, <2>10 DEF Peace
<1>6. ASSUME NEW o \in Ops, Disable(o) PROVE Calm'
  <2>1. /\ Others(o) /\ op'[o].pc = "offsync" /\ op'[o].then = "done" /\ op'[o].ver = None
        /\ op'[o].gen = gen + 1 /\ op'[o].got = FALSE /\ op'[o].old = client
        /\ op'[o].prev.cfg = cfg /\ op'[o].prev.state = state /\ op'[o].prev.failed = failed
        /\ op[o].pc = "none" /\ ~closed /\ cfg # Absent /\ gen' = gen + 1 /\ cancel' = None
        /\ client' = None /\ state' = "disabled" /\ started' = started /\ closed' = closed
        /\ open' = open
        /\ cfg'.ver = cfg.ver /\ cfg'.enabled = FALSE /\ cfg' \in Configs /\ cfg' # Absent
        /\ history'.forgotten = history.forgotten
        /\ history'.entangled = (history.entangled \/ Entangles(o))
    BY <1>6, DisableFacts
  <2> SUFFICES ASSUME Untangled' PROVE Peace'
    BY DEF Calm
  <2>2. Untangled /\ Peace
    BY <2>1 DEF Untangled, Calm
  <2>3. ~Entangles(o)
    BY <2>1 DEF Untangled
  <2>4. Alone(o) /\ \A p \in Ops : p # o => ~Announces(p)'
    BY <2>1, <2>2, <2>3, Fresh
  <2>5. /\ ~Going(o)' /\ (o \notin Replacing)' /\ (o \in Removing)' /\ ~Announces(o)' /\ Current(o)'
        /\ SteadyClients
    BY <2>1, NoneFacts DEF Early, Replacing, Removing, Announces, SteadyClients, Published, Others,
       Starts, Going, Current
  <2>6. ReplacersHold' /\ RemoversHold'
    BY <2>1, <2>2, <2>4, <2>5 DEF Alone, ReplacersHold, RemoversHold, Peace, StateFits
  <2>7. StartsHold' /\ AnnouncedHold'
    BY <2>4, <2>5 DEF Alone, StartsHold, AnnouncedHold
  <2>8. OldsHold'
    BY <2>1, <2>2, <2>4, <2>5 DEF Alone, OldsHold, Mid, Peace, ClientHolds, SteadyClients, Olds
  <2>9. ClientHolds' /\ StateFits' /\ StartingEnds'
    BY <2>1 DEF ClientHolds, StateFits, Fits, StartingEnds
  <2> QED BY <2>6, <2>7, <2>8, <2>9 DEF Peace
<1>7. ASSUME NEW o \in Ops, Disabled(o) PROVE Calm'
  <2>1. /\ Others(o) /\ op'[o].pc = "notify" /\ op'[o].then = "done" /\ op'[o].ver = op[o].ver
        /\ op'[o].gen = op[o].gen /\ op'[o].got = op[o].got /\ op'[o].old = op[o].old
        /\ op'[o].prev = op[o].prev /\ op[o].pc = "off" /\ open' = open \ {op[o].old} /\ cfg' = cfg
        /\ client' = client /\ state' = state /\ gen' = gen /\ cancel' = cancel
        /\ started' = started /\ closed' = closed /\ history' = history
    BY <1>7, DisabledFacts
  <2> SUFFICES ASSUME Untangled' PROVE Peace'
    BY DEF Calm
  <2>2. Untangled /\ Peace
    BY <2>1 DEF Untangled, Calm
  <2>3. o \in Removing /\ Live(o)
    BY <2>1 DEF Live, Mid, Removing
  <2>4. Current(o) /\ ~cfg.enabled /\ client = None
    BY <2>2, <2>3 DEF Peace, RemoversHold, Olds
  <2>5. Alone(o)
    BY <2>1, <2>2, <2>3, <2>4, Sole
  <2>6. /\ ~Going(o)' /\ (o \notin Replacing)' /\ (o \notin Removing)' /\ ~Announces(o)'
    BY <2>1 DEF Going, Early, Replacing, Removing, Announces
  <2>7. ReplacersHold' /\ RemoversHold' /\ StartsHold' /\ OldsHold'
    BY <2>5, <2>6 DEF Alone, ReplacersHold, RemoversHold, StartsHold, OldsHold, Mid
  <2>8. AnnouncedHold'
    BY <2>1, <2>2, <2>6, OthersStay DEF Peace, AnnouncedHold
  <2>9. ClientHolds' /\ StateFits' /\ StartingEnds'
    BY <2>1, <2>2, <2>4 DEF Peace, ClientHolds, StateFits, StartingEnds
  <2> QED BY <2>7, <2>8, <2>9 DEF Peace
<1>8. ASSUME NEW o \in Ops, EnableAgain(o) PROVE Calm'
  <2> USE DEF TakenBack
  <2>1. /\ Others(o) /\ op'[o].pc = "done" /\ op'[o].then = op[o].then /\ op'[o].ver = op[o].ver
        /\ op'[o].gen = op[o].gen /\ op'[o].got = op[o].got /\ op'[o].old = op[o].old
        /\ op'[o].prev = op[o].prev /\ op[o].pc = "offfailed" /\ gen' = gen /\ cancel' = cancel
        /\ started' = started /\ closed' = closed /\ open' = open
        /\ history'.forgotten = history.forgotten
        /\ TakenBack(o)
    BY <1>8, EnableAgainFacts
  <2> SUFFICES ASSUME Untangled' PROVE Peace'
    BY DEF Calm
  <2>2. Untangled /\ Peace
    BY <2>1 DEF Untangled, Calm
  <2>3. o \in Removing /\ Live(o)
    BY <2>1 DEF Live, Mid, Removing
  <2>4. /\ Current(o) /\ ~cfg.enabled /\ cfg # Absent /\ client = None
        /\ op[o].prev.cfg.ver = cfg.ver /\ Fits(op[o].prev.state, op[o].old)
    BY <2>2, <2>3 DEF Peace, RemoversHold, Olds
  <2>5. Reverts(o)
    BY <2>4 DEF Reverts, Current
  <2>6. /\ cfg' = op[o].prev.cfg /\ state' = op[o].prev.state /\ client' = op[o].old
        /\ state' # "starting"
    BY <2>1, <2>4, <2>5 DEF Untangled
  <2>7. Alone(o)
    BY <2>1, <2>2, <2>3, <2>4, Sole
  <2>8. /\ ~Going(o)' /\ (o \notin Replacing)' /\ (o \notin Removing)'
        /\ (Announces(o)' => Announces(o))
        /\ \A x \in Starts : op'[x].ver = op[x].ver
    BY <2>1 DEF Going, Early, Replacing, Removing, Announces, Others, Starts
  <2>9. ReplacersHold' /\ RemoversHold' /\ StartsHold' /\ OldsHold'
    BY <2>7, <2>8 DEF Alone, ReplacersHold, RemoversHold, StartsHold, OldsHold, Mid
  <2>10. \A p \in Ops : ~Announces(p)'
    <3>1. \A p \in Ops : ~Announces(p)
      BY <2>2, <2>4 DEF Peace, AnnouncedHold
    <3> QED BY <2>1, <2>8, <3>1, OthersStay
  <2>11. op[o].old # None =>
           op[o].old \in open /\ op[op[o].old].ver = cfg.ver /\ op[o].old \in Starts
    BY <2>2, <2>3 DEF Peace, OldsHold, Mid, Olds, Types
  <2>12. ClientHolds' /\ AnnouncedHold'
    BY <2>1, <2>4, <2>6, <2>8, <2>10, <2>11 DEF ClientHolds, AnnouncedHold
  <2>13. StateFits' /\ StartingEnds'
    BY <2>4, <2>6 DEF StateFits, StartingEnds
  <2> QED BY <2>9, <2>12, <2>13 DEF Peace
<1>9. ASSUME NEW o \in Ops, Begin(o) PROVE Calm'
  <2>1. /\ Others(o) /\ op'[o].then = op[o].then /\ op'[o].ver = op[o].ver
        /\ op'[o].gen = op[o].gen /\ op'[o].got = op[o].got /\ op'[o].old = op[o].old
        /\ op'[o].prev = op[o].prev /\ op[o].pc = "begin" /\ cfg' = cfg /\ client' = client
        /\ state' = state /\ gen' = gen /\ started' = started /\ closed' = closed /\ open' = open
        /\ history' = history
        /\ op'[o].pc = (IF closed \/ gen # op[o].gen THEN "done" ELSE "connect")
        /\ cancel' = IF closed \/ gen # op[o].gen THEN cancel ELSE o
    BY <1>9, BeginFacts
  <2> SUFFICES ASSUME Untangled' PROVE Peace'
    BY DEF Calm
  <2>2. Untangled /\ Peace
    BY <2>1 DEF Untangled, Calm
  <2>3. SteadyStages /\ SteadyClients
    BY <2>1, NoneFacts DEF SteadyStages, SteadyClients, Published, Replacing, Removing, Mid, Others,
       Starts
  <2>4. ReplacersHold' /\ RemoversHold' /\ ClientHolds' /\ OldsHold' /\ StateFits'
    BY <2>1, <2>2, <2>3, Steady
  <2>5. Early(o) /\ Live(o) /\ Early(o)' = (gen = op[o].gen)
    BY <2>1, <2>2 DEF Untangled, Early, Live
  <2>6. StartsHold'
    <3>1. CASE gen = op[o].gen
      <4>1. cancel' = o /\ op'[o].pc = "connect"
        BY <2>1, <2>2, <3>1 DEF Untangled
      <4>2. Alone(o)
        BY <2>1, <2>2, <2>5, <3>1, Sole DEF Current
      <4>3. Going(o)
        BY <2>5, <3>1 DEF Going, Current
      <4> QED BY <2>1, <2>2, <2>5, <4>1, <4>2, <4>3 DEF Alone, Peace, StartsHold
    <3>2. CASE gen # op[o].gen
      <4>1. cancel' = cancel /\ ~Going(o)'
        BY <2>1, <3>2 DEF Going, Current
      <4>2. StillStarting(o)
        BY <4>1 DEF StillStarting
      <4> QED BY <2>1, <2>2, <4>1, <4>2, StartsSteady
    <3> QED BY <3>1, <3>2
  <2>7. AnnouncedHold'
    BY <2>1, <2>2, OthersStay DEF Peace, AnnouncedHold, Announces
  <2>8. StartingEnds'
    <3>1. Going(o) => Going(o)'
      BY <2>1, <2>5 DEF Going, Current, Replacing
    <3>2. Announces(o) => Announces(o)'
      BY <2>1 DEF Announces
    <3> QED BY <2>1, <2>2, <3>1, <3>2, StartingSteady
  <2> QED BY <2>4, <2>6, <2>7, <2>8 DEF Peace
<1>10. ASSUME NEW o \in Ops, Connect(o) PROVE Calm'
  <2>1. /\ Others(o) /\ op'[o].pc = "publish" /\ op'[o].then = op[o].then /\ op'[o].ver = op[o].ver
        /\ op'[o].gen = op[o].gen /\ op'[o].old = op[o].old /\ op'[o].prev = op[o].prev
        /\ op[o].pc = "connect" /\ cfg' = cfg /\ client' = client /\ state' = state /\ gen' = gen
        /\ cancel' = cancel /\ started' = started /\ closed' = closed /\ history' = history
        /\ (op'[o].got = TRUE /\ open' = open \cup {o}) \/ (op'[o].got = op[o].got /\ open' = open)
    BY <1>10, ConnectFacts
  <2> SUFFICES ASSUME Untangled' PROVE Peace'
    BY DEF Calm
  <2>2. Untangled /\ Peace
    BY <2>1 DEF Untangled, Calm
  <2>3. SteadyStages /\ SteadyClients
    BY <2>1, NoneFacts DEF SteadyStages, SteadyClients, Published, Replacing, Removing, Mid, Others,
       Starts
  <2>4. ReplacersHold' /\ RemoversHold' /\ ClientHolds' /\ OldsHold' /\ StateFits'
    BY <2>1, <2>2, <2>3, Steady
  <2>5. StillStarting(o)
    BY <2>1, <2>2 DEF StillStarting, Peace, StartsHold, Going, Early, Replacing, Announces, Current
  <2>6. StartsHold'
    BY <2>1, <2>2, <2>5, StartsSteady
  <2>7. AnnouncedHold'
    BY <2>1, <2>2, OthersStay DEF Peace, AnnouncedHold, Announces
  <2>8. StartingEnds'
    <3>1. /\ Announces(o) \/ Going(o) => Announces(o)' \/ Going(o)'
          /\ cfg.enabled => started' = started \/ Announces(o)'
      BY <2>1 DEF Going, Early, Replacing, Announces, Current
    <3> QED BY <2>1, <2>2, <3>1, StartingSteady
  <2> QED BY <2>4, <2>6, <2>7, <2>8 DEF Peace
<1>11. ASSUME NEW o \in Ops, Outdated(o) PROVE Calm'
  <2>1. /\ Others(o) /\ op'[o].pc = "done" /\ op'[o].then = op[o].then /\ op'[o].ver = op[o].ver
        /\ op'[o].gen = op[o].gen /\ op'[o].got = op[o].got /\ op'[o].old = op[o].old
        /\ op'[o].prev = op[o].prev /\ op[o].pc = "publish" /\ ~Valid(o) /\ open' = open \ {o}
        /\ cfg' = cfg /\ client' = client /\ state' = state /\ gen' = gen /\ started' = started
        /\ closed' = closed /\ history' = history
        /\ cancel' = IF gen = op[o].gen THEN None ELSE cancel
    BY <1>11, OutdatedFacts
  <2> SUFFICES ASSUME Untangled' PROVE Peace'
    BY DEF Calm
  <2>2. Untangled /\ Peace
    BY <2>1 DEF Untangled, Calm
  <2>3. ~Current(o)
    <3>1. Current(o) => Going(o)
      BY <2>1 DEF Going, Early
    <3> QED BY <2>1, <2>2, <3>1 DEF Peace, StartsHold, Valid, Untangled, Current
  <2>4. SteadyStages /\ SteadyClients
    BY <2>1, NoneFacts DEF SteadyStages, SteadyClients, Published, Replacing, Removing, Mid, Others,
       Starts
  <2>5. ReplacersHold' /\ RemoversHold' /\ ClientHolds' /\ OldsHold' /\ StateFits'
    BY <2>1, <2>2, <2>4, Steady
  <2>6. StillStarting(o)
    BY <2>1, <2>2, <2>3 DEF StillStarting, Peace, StartsHold, Going, Early, Replacing, Announces,
       Current
  <2>7. StartsHold'
    BY <2>1, <2>2, <2>3, <2>6, StartsSteady DEF Current
  <2>8. AnnouncedHold'
    BY <2>1, <2>2, OthersStay DEF Peace, AnnouncedHold, Announces
  <2>9. StartingEnds'
    <3>1. /\ Announces(o) \/ Going(o) => Announces(o)' \/ Going(o)'
          /\ cfg.enabled => started' = started \/ Announces(o)'
      BY <2>1, <2>3 DEF Going, Early, Replacing, Announces, Current
    <3> QED BY <2>1, <2>2, <3>1, StartingSteady
  <2> QED BY <2>5, <2>7, <2>8, <2>9 DEF Peace
<1>12. ASSUME NEW o \in Ops, ConnectFailed(o) PROVE Calm'
  <2>1. /\ Others(o) /\ op'[o].pc = "notify" /\ op'[o].then = "done" /\ op'[o].ver = op[o].ver
        /\ op'[o].gen = op[o].gen /\ op'[o].got = op[o].got /\ op'[o].old = op[o].old
        /\ op'[o].prev = op[o].prev /\ op[o].pc = "publish" /\ Valid(o) /\ ~op[o].got
        /\ cancel' = None /\ cfg' = cfg /\ client' = client /\ gen' = gen /\ started' = started
        /\ closed' = closed /\ open' = open /\ Told(o, state') /\ history' = history
        /\ state' = IF client # None THEN "active" ELSE "error"
    BY <1>12, ConnectFailedFacts
  <2> SUFFICES ASSUME Untangled' PROVE Peace'
    BY DEF Calm
  <2>2. Untangled /\ Peace
    BY <2>1 DEF Untangled, Calm
  <2>3. Live(o) /\ Current(o) /\ cfg.enabled
    BY <2>1 DEF Live, Early, Current, Valid
  <2>4. Alone(o)
    BY <2>1, <2>2, <2>3, Sole
  <2>5. /\ ~Going(o)' /\ (o \notin Replacing)' /\ (o \notin Removing)' /\ ~Announces(o)'
        /\ \A x \in Starts : op'[x].ver = op[x].ver
    BY <2>1 DEF Going, Early, Replacing, Removing, Announces, Others, Starts
  <2>6. ReplacersHold' /\ RemoversHold' /\ StartsHold' /\ OldsHold'
    BY <2>4, <2>5 DEF Alone, ReplacersHold, RemoversHold, StartsHold, OldsHold, Mid
  <2>7. AnnouncedHold'
    BY <2>1, <2>2, <2>5, OthersStay DEF Peace, AnnouncedHold
  <2>8. ClientHolds'
    BY <2>1, <2>2, <2>5 DEF Peace, ClientHolds, Types
  <2>9. StateFits' /\ StartingEnds'
    BY <2>1 DEF StateFits, Fits, StartingEnds
  <2> QED BY <2>6, <2>7, <2>8, <2>9 DEF Peace
<1>13. ASSUME NEW o \in Ops, Publish(o) PROVE Calm'
  <2>1. /\ Others(o) /\ op'[o].pc = "sync" /\ op'[o].then = op[o].then /\ op'[o].ver = op[o].ver
        /\ op'[o].gen = op[o].gen /\ op'[o].got = op[o].got /\ op'[o].old = client
        /\ op'[o].prev = op[o].prev /\ op[o].pc = "publish" /\ Valid(o) /\ op[o].got
        /\ cancel' = None /\ client' = o /\ state' = "starting" /\ cfg' = cfg /\ gen' = gen
        /\ started' = started /\ closed' = closed /\ open' = open
        /\ history'.entangled = history.entangled /\ history'.forgotten = history.forgotten
    BY <1>13, PublishFacts
  <2> SUFFICES ASSUME Untangled' PROVE Peace'
    BY DEF Calm
  <2>2. Untangled /\ Peace
    BY <2>1 DEF Untangled, Calm
  <2>3. Live(o) /\ Current(o) /\ Going(o) /\ cfg.enabled /\ o \in open /\ client # o
    BY <2>1, NoneFacts DEF Live, Early, Current, Going, Valid, Got, Olds, Published
  <2>4. Alone(o)
    BY <2>1, <2>2, <2>3, Sole
  <2>5. /\ ~Early(o)' /\ (o \in Replacing)' /\ (o \notin Removing)' /\ ~Announces(o)' /\ Going(o)'
        /\ op[o].ver = cfg.ver /\ \A x \in Starts : op'[x].ver = op[x].ver
    <3>1. op[o].ver = cfg.ver
      BY <2>2, <2>3 DEF Peace, StartsHold
    <3>2. ~Announces(o)
      BY <2>1, <2>2 DEF Untangled, Asyncs, Announces
    <3> QED BY <2>1, <3>1, <3>2 DEF Going, Current, Early, Replacing, Removing, Announces, Others,
        Starts, Valid
  <2>6. ReplacersHold' /\ RemoversHold' /\ StartsHold'
    BY <2>1, <2>3, <2>4, <2>5 DEF Alone, ReplacersHold, RemoversHold, StartsHold, Current
  <2>7. AnnouncedHold'
    BY <2>1, <2>2, <2>5, OthersStay DEF Peace, AnnouncedHold
  <2>8. ClientHolds' /\ OldsHold'
    BY <2>1, <2>2, <2>3, <2>4, <2>5 DEF Peace, ClientHolds, OldsHold, Alone, Mid, Types, Starts
  <2>9. StateFits' /\ StartingEnds'
    BY <2>1, <2>3, <2>5 DEF StateFits, Fits, StartingEnds
  <2> QED BY <2>6, <2>7, <2>8, <2>9 DEF Peace
<1>14. ASSUME NEW o \in Ops, Activate(o) PROVE Calm'
  <2>1. /\ Others(o) /\ op'[o].pc = "notify" /\ op'[o].then = "done" /\ op'[o].ver = op[o].ver
        /\ op'[o].gen = op[o].gen /\ op'[o].got = op[o].got /\ op'[o].old = op[o].old
        /\ op'[o].prev = op[o].prev /\ op[o].pc = "synced" /\ Valid(o) /\ client = o
        /\ state' = "active" /\ open' = open \ {op[o].old} /\ cfg' = cfg /\ client' = client
        /\ gen' = gen /\ cancel' = cancel /\ started' = started /\ closed' = closed
        /\ history' = history
    BY <1>14, ActivateFacts
  <2> SUFFICES ASSUME Untangled' PROVE Peace'
    BY DEF Calm
  <2>2. Untangled /\ Peace
    BY <2>1 DEF Untangled, Calm
  <2>3. Live(o) /\ Current(o) /\ cfg.enabled /\ op[o].old # o /\ o # None
    BY <2>1, NoneFacts DEF Live, Mid, Replacing, Current, Valid, Olds
  <2>4. Alone(o)
    BY <2>1, <2>2, <2>3, Sole
  <2>5. /\ ~Going(o)' /\ (o \notin Replacing)' /\ (o \notin Removing)' /\ ~Announces(o)'
        /\ \A x \in Starts : op'[x].ver = op[x].ver
    BY <2>1 DEF Going, Early, Replacing, Removing, Announces, Others, Starts
  <2>6. ReplacersHold' /\ RemoversHold' /\ StartsHold' /\ OldsHold'
    BY <2>4, <2>5 DEF Alone, ReplacersHold, RemoversHold, StartsHold, OldsHold, Mid
  <2>7. AnnouncedHold'
    BY <2>1, <2>2, <2>5, OthersStay DEF Peace, AnnouncedHold
  <2>8. ClientHolds'
    BY <2>1, <2>2, <2>3, <2>5 DEF Peace, ClientHolds, Starts
  <2>9. StateFits' /\ StartingEnds'
    BY <2>1, <2>3 DEF StateFits, Fits, StartingEnds
  <2> QED BY <2>6, <2>7, <2>8, <2>9 DEF Peace
<1>15. ASSUME NEW o \in Ops, TooLate(o) PROVE Calm'
  <2>1. /\ Others(o) /\ op'[o].pc = "done" /\ op'[o].then = op[o].then /\ op'[o].ver = op[o].ver
        /\ op'[o].gen = op[o].gen /\ op'[o].got = op[o].got /\ op'[o].old = op[o].old
        /\ op'[o].prev = op[o].prev /\ op[o].pc = "synced" /\ ~(Valid(o) /\ client = o)
        /\ open' = open \ {o} /\ cfg' = cfg /\ client' = client /\ state' = state /\ gen' = gen
        /\ cancel' = cancel /\ started' = started /\ closed' = closed /\ history' = history
    BY <1>15, TooLateFacts
  <2> SUFFICES ASSUME Untangled' PROVE FALSE
    BY DEF Calm
  <2>2. Untangled /\ Peace
    BY <2>1 DEF Untangled, Calm
  <2>3. o \in Replacing
    BY <2>1 DEF Replacing
  <2>4. Current(o) /\ client = o /\ cfg.enabled
    BY <2>2, <2>3 DEF Peace, ReplacersHold, StartsHold, Going
  <2> QED BY <2>1, <2>2, <2>4 DEF Valid, Untangled, Current
<1>16. ASSUME NEW o \in Ops, SyncFailed(o) PROVE Calm'
  <2>1. /\ Others(o) /\ op'[o].pc = "notify" /\ op'[o].then = "done" /\ op'[o].ver = op[o].ver
        /\ op'[o].gen = op[o].gen /\ op'[o].got = op[o].got /\ op'[o].old = op[o].old
        /\ op'[o].prev = op[o].prev /\ op[o].pc = "unsynced" /\ open' = open \ {o} /\ cfg' = cfg
        /\ gen' = gen /\ cancel' = cancel /\ started' = started /\ closed' = closed
        /\ Told(o, state') /\ history' = history
        /\ gen = op[o].gen /\ client = o =>
             /\ client' = op[o].old /\ failed' = TRUE
             /\ state' = IF op[o].old # None THEN "active" ELSE "error"
        /\ ~(gen = op[o].gen /\ client = o) =>
             client' = client /\ failed' = failed /\ state' = state
    BY <1>16, SyncFailedFacts
  <2> SUFFICES ASSUME Untangled' PROVE Peace'
    BY DEF Calm
  <2>2. Untangled /\ Peace
    BY <2>1 DEF Untangled, Calm
  <2>3. o \in Replacing /\ Live(o)
    BY <2>1 DEF Live, Mid, Replacing
  <2>4. Current(o) /\ client = o
    BY <2>2, <2>3 DEF Peace, ReplacersHold
  <2>5. client' = op[o].old /\ state' = IF op[o].old # None THEN "active" ELSE "error"
    BY <2>1, <2>4 DEF Current
  <2>6. Alone(o)
    BY <2>1, <2>2, <2>3, <2>4, Sole
  <2>7. /\ ~Going(o)' /\ (o \notin Replacing)' /\ (o \notin Removing)' /\ ~Announces(o)'
        /\ \A x \in Starts : op'[x].ver = op[x].ver
    BY <2>1 DEF Going, Early, Replacing, Removing, Announces, Others, Starts
  <2>8. ReplacersHold' /\ RemoversHold' /\ StartsHold' /\ OldsHold'
    BY <2>6, <2>7 DEF Alone, ReplacersHold, RemoversHold, StartsHold, OldsHold, Mid
  <2>9. AnnouncedHold'
    BY <2>1, <2>2, <2>7, OthersStay DEF Peace, AnnouncedHold
  <2>10. op[o].old # None =>
           /\ op[o].old # o /\ op[o].old \in open /\ op[op[o].old].ver = cfg.ver
           /\ op[o].old \in Starts
    BY <2>2, <2>3 DEF Peace, OldsHold, Mid, Olds, Types
  <2>11. ClientHolds'
    BY <2>1, <2>5, <2>7, <2>10 DEF ClientHolds
  <2>12. StateFits' /\ StartingEnds'
    BY <2>5 DEF StateFits, Fits, StartingEnds
  <2> QED BY <2>8, <2>9, <2>11, <2>12 DEF Peace
<1>17. ASSUME NEW o \in Ops, GiveUp(o) PROVE Calm'
  <2>1. /\ Others(o) /\ op'[o].then = op[o].then /\ op'[o].ver = op[o].ver
        /\ op'[o].gen = op[o].gen /\ op'[o].got = op[o].got /\ op'[o].old = op[o].old
        /\ op'[o].prev = op[o].prev /\ closed /\ o \in waiters /\ cfg' = cfg /\ client' = client
        /\ state' = state /\ gen' = gen /\ cancel' = cancel /\ started' = started
        /\ closed' = closed /\ open' = open /\ history' = history
        /\ op'[o].pc = (IF op[o].pc = "offsync" THEN "offfailed" ELSE "unsynced")
    BY <1>17, GiveUpFacts
  <2> QED BY <2>1 DEF Calm, Untangled
<1>18. ASSUME NEW o \in Ops, Notify(o) PROVE Calm'
  <2>1. /\ Others(o) /\ op'[o].pc = op[o].then /\ op'[o].then = op[o].then
        /\ op'[o].ver = op[o].ver /\ op'[o].gen = op[o].gen /\ op'[o].got = op[o].got
        /\ op'[o].old = op[o].old /\ op'[o].prev = op[o].prev /\ op[o].pc = "notify" /\ cfg' = cfg
        /\ client' = client /\ state' = state /\ gen' = gen /\ cancel' = cancel
        /\ started' = started /\ closed' = closed /\ open' = open
        /\ history'.entangled = history.entangled /\ history'.forgotten = history.forgotten
    BY <1>18, NotifyFacts
  <2> SUFFICES ASSUME Untangled' PROVE Peace'
    BY DEF Calm
  <2>2. Untangled /\ Peace
    BY <2>1 DEF Untangled, Calm
  <2>3. op[o].then \in {"done", "async", "reload", "begin"}
    BY ThenFacts
  <2>4. SteadyStages /\ SteadyClients
    BY <2>1, NoneFacts, <2>3 DEF SteadyStages, SteadyClients, Published, Replacing, Removing, Mid,
       Others, Starts
  <2>5. ReplacersHold' /\ RemoversHold' /\ ClientHolds' /\ OldsHold' /\ StateFits'
    BY <2>1, <2>2, <2>4, Steady
  <2>6. StillStarting(o)
    BY <2>1, <2>2, <2>3 DEF StillStarting, Peace, StartsHold, Going, Early, Replacing, Announces,
       Current
  <2>7. StartsHold'
    BY <2>1, <2>2, <2>6, StartsSteady
  <2>8. AnnouncedHold'
    BY <2>1, <2>2, OthersStay, <2>3 DEF Peace, AnnouncedHold, Announces
  <2>9. StartingEnds'
    <3>1. /\ Announces(o) \/ Going(o) => Announces(o)' \/ Going(o)'
          /\ cfg.enabled => started' = started \/ Announces(o)'
      BY <2>1, <2>3 DEF Going, Early, Replacing, Announces, Current
    <3> QED BY <2>1, <2>2, <3>1, StartingSteady
  <2> QED BY <2>5, <2>7, <2>8, <2>9 DEF Peace
<1>19. CASE Flush
  <2>1. /\ cfg' = cfg /\ client' = client /\ state' = state /\ gen' = gen /\ cancel' = cancel
        /\ started' = started /\ closed' = closed /\ open' = open /\ history' = history
    BY <1>19, FlushFacts
  <2> SUFFICES ASSUME Untangled' PROVE Peace'
    BY DEF Calm
  <2>2. Untangled /\ Peace
    BY <2>1 DEF Untangled, Calm
  <2>3. \A p \in Ops : /\ Early(p)' <=> Early(p)
                       /\ (p \in Replacing)' <=> p \in Replacing
                       /\ (p \in Removing)' <=> p \in Removing
                       /\ Announces(p)' <=> Announces(p)
                       /\ op'[p].pc \in {"connect", "publish"}
                            <=> op[p].pc \in {"connect", "publish"}
    BY <1>19, FlushStages DEF Early, Replacing, Removing, Announces
  <2>4. SteadyStages /\ SteadyClients
    <3>1. \A x : Published(x) => x \in Starts
      BY DEF Published, Starts
    <3>2. \A x \in Starts : op'[x].ver = op[x].ver
      BY <1>19, FlushFacts
    <3> QED BY <1>19, <2>1, <2>3, <3>1, <3>2, FlushStages DEF SteadyStages, SteadyClients
  <2>5. ReplacersHold' /\ RemoversHold' /\ ClientHolds' /\ OldsHold' /\ StateFits'
    BY <2>1, <2>2, <2>4, Steady
  <2>6. \A p \in Ops : (Going(p)' <=> Going(p)) /\ op'[p].ver = op[p].ver
    BY <1>19, <2>1, <2>3, FlushStages DEF Going, Current
  <2>7. StartsHold'
    BY <2>1, <2>2, <2>3, <2>6 DEF Peace, StartsHold
  <2>8. AnnouncedHold' /\ StartingEnds'
    BY <2>1, <2>2, <2>3, <2>6 DEF Peace, AnnouncedHold, StartingEnds
  <2> QED BY <2>5, <2>7, <2>8 DEF Peace
<1>20. CASE Publisher
  <2>1. /\ wake /\ op' = op /\ history' = history /\ cfg' = cfg /\ client' = client
        /\ state' = state /\ gen' = gen /\ cancel' = cancel /\ started' = started
        /\ closed' = closed /\ open' = open
    BY <1>20, PublisherFacts
  <2> QED BY <2>1 DEF Calm, Peace, Untangled, ReplacersHold, RemoversHold, StartsHold,
      AnnouncedHold, ClientHolds, OldsHold, StateFits, StartingEnds, Current, Going, Announces,
      Fits, Early, Mid, Replacing, Removing, Others, Starts
<1>21. CASE Close
  <2>1. /\ ~closed /\ closed' = TRUE /\ cancel' = None /\ client' = None /\ open' = open \ {client}
        /\ op' = op /\ cfg' = cfg /\ state' = state /\ started' = started
        /\ history'.forgotten = history.forgotten
        /\ gen' = IF cancel # None THEN gen + 1 ELSE gen
    BY <1>21, CloseFacts
  <2> QED BY <2>1 DEF Calm, Untangled
<1>22. CASE UNCHANGED vars
  <2>1. /\ op' = op /\ history' = history /\ cfg' = cfg /\ client' = client /\ state' = state
        /\ gen' = gen /\ cancel' = cancel /\ started' = started /\ closed' = closed /\ open' = open
    BY <1>22, NothingFacts
  <2> QED BY <2>1 DEF Calm, Peace, Untangled, ReplacersHold, RemoversHold, StartsHold,
      AnnouncedHold, ClientHolds, OldsHold, StateFits, StartingEnds, Current, Going, Announces,
      Fits, Early, Mid, Replacing, Removing, Others, Starts
<1> QED BY <1>1, <1>2, <1>3, <1>4, <1>5, <1>6, <1>7, <1>8, <1>9, <1>10, <1>11, <1>12, <1>13, <1>14,
    <1>15, <1>16, <1>17, <1>18, <1>19, <1>20, <1>21, <1>22 DEF Next, Operation

-----------------------------------------------------------------------------
(* The tools that the model is shown.                                      *)

\* The operation will refresh the catalog after new configurations.
Pends(o) ==
  \/ o \in reloading
  \/ op[o].config /\ op[o].pc \in {"reload", "async"}
  \/ op[o].config /\ op[o].pc = "notify" /\ op[o].then # "done"

\* No operation was entangled, each refresh was good, and nobody has yet to refresh.
Listing == Untangled /\ ~history.unlisted /\ \A o \in Ops : ~Pends(o)

\* The catalog shows the client; a replacement or removal changes that when its refresh has come.
Lists ==
  /\ (\A o \in Ops : o \notin Mid) => catalog = client
  /\ \A o \in Ops : o \in Mid =>
       catalog = IF op[o].pc \in {"synced", "off"} THEN client ELSE op[o].old

\* The catalog is as it should be, while every refresh was good.
Listed == Listing => Lists

\* An operation that publishes, replaces or removes is the only one.
LEMMA SoleStage ==
  ASSUME Types, Untangled, Gens, Peace, NEW o \in Ops, Others(o), gen' = gen,
         (op[o].pc = "publish" /\ Valid(o)) \/ o \in Mid
  PROVE  Alone(o)
<1>1. Live(o)
  BY DEF Live, Early
<1>2. Current(o)
  BY DEF Valid, Current, Peace, ReplacersHold, RemoversHold, Mid
<1> QED BY <1>1, <1>2, Sole

\* If no other operation holds on to a client after the step, none did before.
LEMMA AloneBefore ==
  ASSUME NEW o \in Ops, Alone(o)
  PROVE  \A p \in Ops : p # o => p \notin Mid /\ (p \notin Mid)'
BY DEF Alone, Mid, Replacing, Removing

\* A step takes no refresh away from other operations.
LEMMA PendsOthers ==
  ASSUME NEW o \in Ops, Others(o), reloading \ {o} \subseteq reloading', Pends(o) => Pends(o)'
  PROVE  (\A p \in Ops : ~Pends(p)') => \A p \in Ops : ~Pends(p)
BY DEF Others, Starts, Pends

\* The operation keeps what it holds on to, and its stage.
MidKept(o) ==
  /\ (o \in Mid)' <=> o \in Mid
  /\ o \in Mid => op'[o].old = op[o].old /\ op'[o].pc = op[o].pc

\* Steps that keep the client, the catalog and who holds on to what keep Lists.
LEMMA ListedKept ==
  ASSUME Listed, Listing, NEW o \in Ops, Others(o), MidKept(o), client' = client, catalog' = catalog
  PROVE  Lists'
<1>1. \A p \in Ops : MidKept(p)
  BY DEF Others, Starts, MidKept, Mid, Replacing, Removing
<1> QED BY <1>1 DEF Listed, Lists, MidKept

\* At the end of a replacement or removal the catalog shows the client.
LEMMA ListedEnds ==
  ASSUME NEW o \in Ops, Alone(o), (o \notin Mid)', catalog' = client'
  PROVE  Lists'
BY AloneBefore DEF Lists

\* At the beginning of one the catalog shows the old client.
LEMMA ListedBegins ==
  ASSUME NEW o \in Ops, Alone(o), Listed, Listing, o \notin Mid, catalog' = catalog,
         op'[o].old = client, op'[o].pc \in {"sync", "offsync"}
  PROVE  Lists'
<1>1. catalog = client
  BY AloneBefore DEF Listed, Lists
<1>2. \A p \in Ops : p # o => (p \notin Mid)'
  BY AloneBefore
<1>3. (o \in Mid)'
  BY DEF Mid, Replacing, Removing
<1> QED BY <1>1, <1>2, <1>3 DEF Lists

\* Every step keeps Listed.
LEMMA ListedStep ==
  Types /\ Waiters /\ Olds /\ Gens /\ Begun /\ Asyncs /\ Calm /\ Listed /\ [Next]_vars => Listed'
<1> SUFFICES ASSUME Types, Waiters, Olds, Gens, Begun, Asyncs, Calm, Listed, [Next]_vars
             PROVE  Listed'
  OBVIOUS
<1>1. ASSUME NEW o \in Ops, NEW new \in Configs, SetConfig(o, new) PROVE Listed'
  <2>1. op'[o].config = TRUE /\ op'[o].then # "done" /\ op'[o].pc \in {"reload", "notify"}
    BY <1>1, SetConfigFacts
  <2>2. Pends(o)'
    BY <2>1 DEF Pends
  <2> QED BY <2>2 DEF Listed, Listing
<1>2. ASSUME NEW o \in Ops, Boot(o) PROVE Listed'
  <2>1. /\ Others(o) /\ op'[o].then = "done" /\ op'[o].config = FALSE /\ op'[o].gen = 0
        /\ op'[o].old = None /\ op[o].pc = "none" /\ ~started /\ ~closed /\ cfg' = cfg
        /\ client' = client /\ state' = state /\ gen' = gen /\ closed' = closed
        /\ reloading' = reloading /\ catalog' = catalog /\ history' = history
        /\ op'[o].pc = (IF cfg.enabled THEN "async" ELSE "done")
    BY <1>2, BootFacts
  <2> SUFFICES ASSUME Listing' PROVE Lists'
    BY DEF Listed
  <2>2. Untangled /\ Peace /\ ~history.unlisted
    BY <2>1 DEF Listing, Untangled, Calm
  <2>3. Listing
    BY <2>1, <2>2, PendsOthers DEF Listing, Pends
  <2>4. MidKept(o)
    BY <2>1 DEF MidKept, Mid, Replacing, Removing
  <2> QED BY <2>1, <2>3, <2>4, ListedKept
<1>3. ASSUME NEW o \in Ops, StartAsync(o) PROVE Listed'
  <2> USE DEF SetsOff
  <2>1. /\ Others(o) /\ op'[o].config = op[o].config /\ op'[o].old = op[o].old
        /\ op'[o].prev = op[o].prev /\ op[o].pc = "async" /\ cfg' = cfg /\ client' = client
        /\ closed' = closed /\ reloading' = reloading /\ catalog' = catalog
        /\ history'.forgotten = history.forgotten /\ history'.unlisted = history.unlisted
        /\ SetsOff(o)
        /\ history'.entangled = (history.entangled \/ Entangles(o))
    BY <1>3, StartAsyncFacts
  <2>2. CASE closed
    BY <2>1, <2>2 DEF Listed, Listing, Untangled
  <2> SUFFICES ASSUME ~closed PROVE Listed'
    BY <2>2
  <2> SUFFICES ASSUME Listing' PROVE Lists'
    BY DEF Listed
  <2>3. Untangled /\ Peace /\ ~history.unlisted
    BY <2>1 DEF Listing, Untangled, Calm
  <2>4. Listing
    BY <2>1, <2>3, PendsOthers DEF Listing, Pends
  <2>5. MidKept(o)
    BY <2>1 DEF MidKept, Mid, Replacing, Removing
  <2> QED BY <2>1, <2>4, <2>5, ListedKept
<1>4. ASSUME NEW o \in Ops, Reload(o) PROVE Listed'
  <2>1. /\ Others(o) /\ op'[o].then = op[o].then /\ op'[o].config = op[o].config
        /\ op'[o].gen = op[o].gen /\ op'[o].old = op[o].old /\ op'[o].prev = op[o].prev
        /\ cfg' = cfg /\ client' = client /\ state' = state /\ gen' = gen /\ closed' = closed
        /\ history'.entangled = history.entangled /\ history'.forgotten = history.forgotten
        /\ \/ op[o].pc = "reload" /\ op'[o].pc = "done" /\ reloading' = reloading
           \/ o \in reloading /\ op'[o].pc = op[o].pc /\ reloading' = reloading \ {o}
        /\ \/ /\ catalog' = client
              /\ history'.unlisted = (history.unlisted \/ Replacing \cup Removing # {})
           \/ catalog' = catalog /\ history'.unlisted = TRUE
    BY <1>4, ReloadFacts
  <2> SUFFICES ASSUME Listing' PROVE Lists'
    BY DEF Listed
  <2>2. Untangled /\ Peace /\ ~history.unlisted
    BY <2>1 DEF Listing, Untangled, Calm
  <2>3. catalog' = client' /\ \A p \in Ops : p \notin Mid
    BY <2>1 DEF Listing, Mid
  <2>4. \A p \in Ops : (p \notin Mid)'
    BY <2>1, <2>3 DEF Mid, Replacing, Removing, Others, Starts
  <2> QED BY <2>3, <2>4 DEF Lists
<1>5. ASSUME NEW o \in Ops, NEW enable \in BOOLEAN, Restart(o, enable) PROVE Listed'
  <2>1. /\ Others(o) /\ op'[o].pc = "notify" /\ op'[o].then = "begin" /\ op'[o].config = FALSE
        /\ op'[o].gen = gen + 1 /\ op'[o].old = None /\ op[o].pc = "none" /\ ~closed
        /\ cfg # Absent /\ gen' = gen + 1 /\ state' = "starting" /\ client' = client
        /\ closed' = closed /\ reloading' = reloading /\ catalog' = catalog
        /\ history'.forgotten = history.forgotten /\ history'.unlisted = history.unlisted
        /\ (enable \/ client # None)
        /\ cfg'.ver = cfg.ver /\ cfg'.enabled = (enable \/ cfg.enabled) /\ cfg' \in Configs
        /\ cfg' # Absent
        /\ history'.entangled = (history.entangled \/ Entangles(o))
    BY <1>5, RestartFacts
  <2> SUFFICES ASSUME Listing' PROVE Lists'
    BY DEF Listed
  <2>2. Untangled /\ Peace /\ ~history.unlisted
    BY <2>1 DEF Listing, Untangled, Calm
  <2>3. Listing
    BY <2>1, <2>2, PendsOthers DEF Listing, Pends
  <2>4. MidKept(o)
    BY <2>1 DEF MidKept, Mid, Replacing, Removing
  <2> QED BY <2>1, <2>3, <2>4, ListedKept
<1>6. ASSUME NEW o \in Ops, Disable(o) PROVE Listed'
  <2>1. /\ Others(o) /\ op'[o].pc = "offsync" /\ op'[o].then = "done" /\ op'[o].config = FALSE
        /\ op'[o].gen = gen + 1 /\ op'[o].old = client /\ op'[o].prev.cfg = cfg
        /\ op'[o].prev.state = state /\ op'[o].prev.failed = failed /\ op[o].pc = "none" /\ ~closed
        /\ cfg # Absent /\ gen' = gen + 1 /\ client' = None /\ state' = "disabled"
        /\ closed' = closed /\ reloading' = reloading /\ catalog' = catalog
        /\ cfg'.ver = cfg.ver /\ cfg'.enabled = FALSE /\ cfg' \in Configs /\ cfg' # Absent
        /\ history'.forgotten = history.forgotten /\ history'.unlisted = history.unlisted
        /\ history'.entangled = (history.entangled \/ Entangles(o))
    BY <1>6, DisableFacts
  <2> SUFFICES ASSUME Listing' PROVE Lists'
    BY DEF Listed
  <2>2. Untangled /\ Peace /\ ~history.unlisted
    BY <2>1 DEF Listing, Untangled, Calm
  <2>3. Listing
    BY <2>1, <2>2, PendsOthers DEF Listing, Pends
  <2>4. ~Entangles(o)
    BY <2>1 DEF Listing, Untangled
  <2>5. Alone(o)
    BY <2>1, <2>2, <2>4, Fresh
  <2>6. o \notin Mid
    BY <2>1 DEF Mid, Replacing, Removing
  <2> QED BY <2>1, <2>3, <2>5, <2>6, ListedBegins
<1>7. ASSUME NEW o \in Ops, Disabled(o) PROVE Listed'
  <2>1. /\ Others(o) /\ op'[o].pc = "notify" /\ op'[o].then = "done"
        /\ op'[o].config = op[o].config /\ op'[o].gen = op[o].gen /\ op'[o].old = op[o].old
        /\ op'[o].prev = op[o].prev /\ op[o].pc = "off" /\ cfg' = cfg /\ client' = client
        /\ state' = state /\ gen' = gen /\ closed' = closed /\ reloading' = reloading
        /\ catalog' = catalog /\ history' = history
    BY <1>7, DisabledFacts
  <2> SUFFICES ASSUME Listing' PROVE Lists'
    BY DEF Listed
  <2>2. Untangled /\ Peace /\ ~history.unlisted
    BY <2>1 DEF Listing, Untangled, Calm
  <2>3. Listing
    BY <2>1, <2>2, PendsOthers DEF Listing, Pends
  <2>4. o \in Mid /\ (o \notin Mid)'
    BY <2>1 DEF Mid, Replacing, Removing
  <2>5. Alone(o)
    BY <2>1, <2>2, <2>4, SoleStage
  <2>6. catalog = client
    BY <2>1, <2>3, <2>4 DEF Listed, Lists
  <2>7. client' = client
    BY <2>1
  <2> QED BY <2>1, <2>4, <2>5, <2>6, <2>7, ListedEnds
<1>8. ASSUME NEW o \in Ops, EnableAgain(o) PROVE Listed'
  <2> USE DEF TakenBack
  <2>1. /\ Others(o) /\ op'[o].pc = "done" /\ op'[o].then = op[o].then
        /\ op'[o].config = op[o].config /\ op'[o].gen = op[o].gen /\ op'[o].old = op[o].old
        /\ op'[o].prev = op[o].prev /\ op[o].pc = "offfailed" /\ gen' = gen /\ closed' = closed
        /\ reloading' = reloading /\ catalog' = catalog /\ history'.unlisted = history.unlisted
        /\ history'.forgotten = history.forgotten
        /\ TakenBack(o)
    BY <1>8, EnableAgainFacts
  <2> SUFFICES ASSUME Listing' PROVE Lists'
    BY DEF Listed
  <2>2. Untangled /\ Peace /\ ~history.unlisted
    BY <2>1 DEF Listing, Untangled, Calm
  <2>3. Listing
    BY <2>1, <2>2, PendsOthers DEF Listing, Pends
  <2>4. o \in Mid /\ (o \notin Mid)'
    BY <2>1 DEF Mid, Replacing, Removing
  <2>5. Alone(o)
    BY <2>1, <2>2, <2>4, SoleStage
  <2>6. catalog = op[o].old
    BY <2>1, <2>3, <2>4 DEF Listed, Lists
  <2>7. client' = op[o].old
    <3>1. o \in Removing
      BY <2>1 DEF Removing
    <3>2. Current(o) /\ ~cfg.enabled /\ cfg # Absent /\ client = None
      BY <2>2, <3>1 DEF Peace, RemoversHold, Olds
    <3> QED BY <2>1, <3>2 DEF Reverts, Current
  <2> QED BY <2>1, <2>4, <2>5, <2>6, <2>7, ListedEnds
<1>9. ASSUME NEW o \in Ops, Begin(o) PROVE Listed'
  <2>1. /\ Others(o) /\ op'[o].then = op[o].then /\ op'[o].config = op[o].config
        /\ op'[o].gen = op[o].gen /\ op'[o].old = op[o].old /\ op'[o].prev = op[o].prev
        /\ op[o].pc = "begin" /\ cfg' = cfg /\ client' = client /\ state' = state /\ gen' = gen
        /\ closed' = closed /\ reloading' = reloading /\ catalog' = catalog /\ history' = history
        /\ op'[o].pc = (IF closed \/ gen # op[o].gen THEN "done" ELSE "connect")
    BY <1>9, BeginFacts
  <2> SUFFICES ASSUME Listing' PROVE Lists'
    BY DEF Listed
  <2>2. Untangled /\ Peace /\ ~history.unlisted
    BY <2>1 DEF Listing, Untangled, Calm
  <2>3. Listing
    BY <2>1, <2>2, PendsOthers DEF Listing, Pends
  <2>4. MidKept(o)
    BY <2>1 DEF MidKept, Mid, Replacing, Removing
  <2> QED BY <2>1, <2>3, <2>4, ListedKept
<1>10. ASSUME NEW o \in Ops, Connect(o) PROVE Listed'
  <2>1. /\ Others(o) /\ op'[o].pc = "publish" /\ op'[o].then = op[o].then
        /\ op'[o].config = op[o].config /\ op'[o].gen = op[o].gen /\ op'[o].old = op[o].old
        /\ op'[o].prev = op[o].prev /\ op[o].pc = "connect" /\ cfg' = cfg /\ client' = client
        /\ state' = state /\ gen' = gen /\ closed' = closed /\ reloading' = reloading
        /\ catalog' = catalog /\ history' = history
    BY <1>10, ConnectFacts
  <2> SUFFICES ASSUME Listing' PROVE Lists'
    BY DEF Listed
  <2>2. Untangled /\ Peace /\ ~history.unlisted
    BY <2>1 DEF Listing, Untangled, Calm
  <2>3. Listing
    BY <2>1, <2>2, PendsOthers DEF Listing, Pends
  <2>4. MidKept(o)
    BY <2>1 DEF MidKept, Mid, Replacing, Removing
  <2> QED BY <2>1, <2>3, <2>4, ListedKept
<1>11. ASSUME NEW o \in Ops, Outdated(o) PROVE Listed'
  <2>1. /\ Others(o) /\ op'[o].pc = "done" /\ op'[o].then = op[o].then
        /\ op'[o].config = op[o].config /\ op'[o].gen = op[o].gen /\ op'[o].old = op[o].old
        /\ op'[o].prev = op[o].prev /\ op[o].pc = "publish" /\ ~Valid(o) /\ cfg' = cfg
        /\ client' = client /\ state' = state /\ gen' = gen /\ closed' = closed
        /\ reloading' = reloading /\ catalog' = catalog /\ history' = history
    BY <1>11, OutdatedFacts
  <2> SUFFICES ASSUME Listing' PROVE Lists'
    BY DEF Listed
  <2>2. Untangled /\ Peace /\ ~history.unlisted
    BY <2>1 DEF Listing, Untangled, Calm
  <2>3. Listing
    BY <2>1, <2>2, PendsOthers DEF Listing, Pends
  <2>4. MidKept(o)
    BY <2>1 DEF MidKept, Mid, Replacing, Removing
  <2> QED BY <2>1, <2>3, <2>4, ListedKept
<1>12. ASSUME NEW o \in Ops, ConnectFailed(o) PROVE Listed'
  <2>1. /\ Others(o) /\ op'[o].pc = "notify" /\ op'[o].then = "done"
        /\ op'[o].config = op[o].config /\ op'[o].gen = op[o].gen /\ op'[o].old = op[o].old
        /\ op'[o].prev = op[o].prev /\ op[o].pc = "publish" /\ Valid(o) /\ ~op[o].got /\ cfg' = cfg
        /\ client' = client /\ gen' = gen /\ closed' = closed /\ reloading' = reloading
        /\ catalog' = catalog /\ Told(o, state') /\ history' = history
        /\ state' = IF client # None THEN "active" ELSE "error"
    BY <1>12, ConnectFailedFacts
  <2> SUFFICES ASSUME Listing' PROVE Lists'
    BY DEF Listed
  <2>2. Untangled /\ Peace /\ ~history.unlisted
    BY <2>1 DEF Listing, Untangled, Calm
  <2>3. Listing
    BY <2>1, <2>2, PendsOthers DEF Listing, Pends
  <2>4. MidKept(o)
    BY <2>1 DEF MidKept, Mid, Replacing, Removing
  <2> QED BY <2>1, <2>3, <2>4, ListedKept
<1>13. ASSUME NEW o \in Ops, Publish(o) PROVE Listed'
  <2>1. /\ Others(o) /\ op'[o].pc = "sync" /\ op'[o].then = op[o].then
        /\ op'[o].config = op[o].config /\ op'[o].gen = op[o].gen /\ op'[o].old = client
        /\ op'[o].prev = op[o].prev /\ op[o].pc = "publish" /\ Valid(o) /\ op[o].got /\ client' = o
        /\ state' = "starting" /\ cfg' = cfg /\ gen' = gen /\ closed' = closed
        /\ reloading' = reloading /\ catalog' = catalog /\ history'.entangled = history.entangled
        /\ history'.forgotten = history.forgotten /\ history'.unlisted = history.unlisted
    BY <1>13, PublishFacts
  <2> SUFFICES ASSUME Listing' PROVE Lists'
    BY DEF Listed
  <2>2. Untangled /\ Peace /\ ~history.unlisted
    BY <2>1 DEF Listing, Untangled, Calm
  <2>3. Listing
    BY <2>1, <2>2, PendsOthers DEF Listing, Pends
  <2>4. Alone(o)
    BY <2>1, <2>2, SoleStage
  <2>5. o \notin Mid
    BY <2>1 DEF Mid, Replacing, Removing
  <2> QED BY <2>1, <2>3, <2>4, <2>5, ListedBegins
<1>14. ASSUME NEW o \in Ops, Activate(o) PROVE Listed'
  <2>1. /\ Others(o) /\ op'[o].pc = "notify" /\ op'[o].then = "done"
        /\ op'[o].config = op[o].config /\ op'[o].gen = op[o].gen /\ op'[o].old = op[o].old
        /\ op'[o].prev = op[o].prev /\ op[o].pc = "synced" /\ Valid(o) /\ client = o
        /\ state' = "active" /\ cfg' = cfg /\ client' = client /\ gen' = gen /\ closed' = closed
        /\ reloading' = reloading /\ catalog' = catalog /\ history' = history
    BY <1>14, ActivateFacts
  <2> SUFFICES ASSUME Listing' PROVE Lists'
    BY DEF Listed
  <2>2. Untangled /\ Peace /\ ~history.unlisted
    BY <2>1 DEF Listing, Untangled, Calm
  <2>3. Listing
    BY <2>1, <2>2, PendsOthers DEF Listing, Pends
  <2>4. o \in Mid /\ (o \notin Mid)'
    BY <2>1 DEF Mid, Replacing, Removing
  <2>5. Alone(o)
    BY <2>1, <2>2, <2>4, SoleStage
  <2>6. catalog = client
    BY <2>1, <2>3, <2>4 DEF Listed, Lists
  <2>7. client' = client
    BY <2>1
  <2> QED BY <2>1, <2>4, <2>5, <2>6, <2>7, ListedEnds
<1>15. ASSUME NEW o \in Ops, TooLate(o) PROVE Listed'
  <2>1. /\ Others(o) /\ op'[o].pc = "done" /\ op'[o].then = op[o].then
        /\ op'[o].config = op[o].config /\ op'[o].gen = op[o].gen /\ op'[o].old = op[o].old
        /\ op'[o].prev = op[o].prev /\ op[o].pc = "synced" /\ ~(Valid(o) /\ client = o)
        /\ cfg' = cfg /\ client' = client /\ state' = state /\ gen' = gen /\ closed' = closed
        /\ reloading' = reloading /\ catalog' = catalog /\ history' = history
    BY <1>15, TooLateFacts
  <2> SUFFICES ASSUME Untangled' PROVE FALSE
    BY DEF Listed, Listing
  <2>2. Untangled /\ Peace
    BY <2>1 DEF Untangled, Calm
  <2>3. o \in Replacing
    BY <2>1 DEF Replacing
  <2>4. Current(o) /\ client = o /\ cfg.enabled
    BY <2>2, <2>3 DEF Peace, ReplacersHold, StartsHold, Going
  <2> QED BY <2>1, <2>2, <2>4 DEF Valid, Untangled, Current
<1>16. ASSUME NEW o \in Ops, SyncFailed(o) PROVE Listed'
  <2>1. /\ Others(o) /\ op'[o].pc = "notify" /\ op'[o].then = "done"
        /\ op'[o].config = op[o].config /\ op'[o].gen = op[o].gen /\ op'[o].old = op[o].old
        /\ op'[o].prev = op[o].prev /\ op[o].pc = "unsynced" /\ cfg' = cfg /\ gen' = gen
        /\ closed' = closed /\ reloading' = reloading /\ catalog' = catalog /\ Told(o, state')
        /\ history' = history
        /\ gen = op[o].gen /\ client = o =>
             /\ client' = op[o].old /\ failed' = TRUE
             /\ state' = IF op[o].old # None THEN "active" ELSE "error"
        /\ ~(gen = op[o].gen /\ client = o) =>
             client' = client /\ failed' = failed /\ state' = state
    BY <1>16, SyncFailedFacts
  <2> SUFFICES ASSUME Listing' PROVE Lists'
    BY DEF Listed
  <2>2. Untangled /\ Peace /\ ~history.unlisted
    BY <2>1 DEF Listing, Untangled, Calm
  <2>3. Listing
    BY <2>1, <2>2, PendsOthers DEF Listing, Pends
  <2>4. o \in Mid /\ (o \notin Mid)'
    BY <2>1 DEF Mid, Replacing, Removing
  <2>5. Alone(o)
    BY <2>1, <2>2, <2>4, SoleStage
  <2>6. catalog = op[o].old
    BY <2>1, <2>3, <2>4 DEF Listed, Lists
  <2>7. client' = op[o].old
    <3>1. o \in Replacing
      BY <2>1 DEF Replacing
    <3> QED BY <2>1, <2>2, <3>1 DEF Peace, ReplacersHold, Current
  <2> QED BY <2>1, <2>4, <2>5, <2>6, <2>7, ListedEnds
<1>17. ASSUME NEW o \in Ops, GiveUp(o) PROVE Listed'
  <2>1. /\ Others(o) /\ op'[o].then = op[o].then /\ op'[o].config = op[o].config
        /\ op'[o].gen = op[o].gen /\ op'[o].old = op[o].old /\ op'[o].prev = op[o].prev /\ closed
        /\ o \in waiters /\ cfg' = cfg /\ client' = client /\ state' = state /\ gen' = gen
        /\ closed' = closed /\ reloading' = reloading /\ catalog' = catalog /\ history' = history
        /\ op'[o].pc = (IF op[o].pc = "offsync" THEN "offfailed" ELSE "unsynced")
    BY <1>17, GiveUpFacts
  <2> QED BY <2>1 DEF Listed, Listing, Untangled
<1>18. ASSUME NEW o \in Ops, Notify(o) PROVE Listed'
  <2>1. /\ Others(o) /\ op'[o].pc = op[o].then /\ op'[o].then = op[o].then
        /\ op'[o].config = op[o].config /\ op'[o].gen = op[o].gen /\ op'[o].old = op[o].old
        /\ op'[o].prev = op[o].prev /\ op[o].pc = "notify" /\ cfg' = cfg /\ client' = client
        /\ state' = state /\ gen' = gen /\ closed' = closed /\ catalog' = catalog
        /\ history'.entangled = history.entangled /\ history'.forgotten = history.forgotten
        /\ history'.unlisted = history.unlisted
        /\ reloading' = IF op[o].config /\ op[o].then = "begin" THEN reloading \cup {o}
                        ELSE reloading
    BY <1>18, NotifyFacts
  <2> SUFFICES ASSUME Listing' PROVE Lists'
    BY DEF Listed
  <2>2. Untangled /\ Peace /\ ~history.unlisted
    BY <2>1 DEF Listing, Untangled, Calm
  <2>3. op[o].then \in {"done", "async", "reload", "begin"}
    BY ThenFacts
  <2>4. Listing
    <3>1. Pends(o) => Pends(o)'
      BY <2>1, <2>3 DEF Pends
    <3>2. \A p \in Ops : ~Pends(p)
      BY <2>1, <3>1, PendsOthers DEF Listing
    <3> QED BY <2>2, <3>2 DEF Listing
  <2>5. MidKept(o)
    BY <2>1, <2>3 DEF MidKept, Mid, Replacing, Removing
  <2> QED BY <2>1, <2>4, <2>5, ListedKept
<1>19. CASE Flush
  <2>1. /\ cfg' = cfg /\ client' = client /\ state' = state /\ gen' = gen /\ closed' = closed
        /\ reloading' = reloading /\ history' = history
    BY <1>19, FlushFacts
  <2> SUFFICES ASSUME Listing' PROVE Lists'
    BY DEF Listed
  <2>2. Untangled /\ Peace /\ ~history.unlisted
    BY <2>1 DEF Listing, Untangled, Calm
  <2>3. Listing
    <3>1. \A p \in Ops : Pends(p) => Pends(p)'
      BY <1>19, <2>1, FlushStages DEF Pends
    <3> QED BY <2>2, <3>1 DEF Listing
  <2>4. PICK q \in Ops : q \in waiters /\ Syncing(q)
    <3>1. waiters # {} /\ waiters \subseteq Ops
      BY <1>19, FlushFacts DEF Types
    <3> QED BY <3>1 DEF Waiters
  <2>5. \A p \in Ops : p \in Mid => p = q
    <3>1. q \in Mid
      BY <2>4 DEF Syncing, Mid, Replacing, Removing
    <3>2. \A p \in Ops : p \in Mid => Live(p) /\ op[p].gen = gen
      BY <2>2 DEF Peace, ReplacersHold, RemoversHold, Current, Mid, Live
    <3> QED BY <2>2, <3>1, <3>2 DEF Untangled, Gens, Apart
  <2>6. \A p \in Ops : (p \in Mid)' => p \in Mid
    BY <1>19, FlushStages DEF Mid, Replacing, Removing
  <2>7. (q \in Mid)'
    BY <1>19, <2>4, FlushStages DEF Syncing, Mid, Replacing, Removing
  <2>8. catalog = op[q].old
    BY <2>3, <2>4, <2>5, <2>6, <2>7 DEF Listed, Lists, Syncing
  <2>9. op'[q].old = op[q].old
    BY <1>19, FlushStages
  <2>10. \/ catalog' = client /\ op'[q].pc \in {"synced", "off"}
         \/ catalog' = catalog /\ op'[q].pc \notin {"synced", "off"}
    BY <1>19, <2>4, FlushFacts DEF Waiters, Syncing
  <2> QED BY <2>1, <2>5, <2>6, <2>7, <2>8, <2>9, <2>10 DEF Lists
<1>20. CASE Publisher
  <2>1. /\ wake /\ op' = op /\ history' = history /\ cfg' = cfg /\ client' = client
        /\ state' = state /\ gen' = gen /\ closed' = closed /\ reloading' = reloading
        /\ catalog' = catalog
    BY <1>20, PublisherFacts
  <2> SUFFICES ASSUME Listing' PROVE Lists'
    BY DEF Listed
  <2>2. Untangled /\ Peace /\ ~history.unlisted
    BY <2>1 DEF Listing, Untangled, Calm
  <2> QED BY <2>1 DEF Listing, Untangled, Pends, Listed, Lists, Mid, Replacing, Removing
<1>21. CASE Close
  <2>1. /\ ~closed /\ closed' = TRUE /\ client' = None /\ op' = op /\ cfg' = cfg /\ state' = state
        /\ reloading' = reloading /\ catalog' = catalog /\ history'.unlisted = history.unlisted
        /\ history'.forgotten = history.forgotten
        /\ gen' = IF cancel # None THEN gen + 1 ELSE gen
    BY <1>21, CloseFacts
  <2> QED BY <2>1 DEF Listed, Listing, Untangled
<1>22. CASE UNCHANGED vars
  <2>1. /\ op' = op /\ history' = history /\ cfg' = cfg /\ client' = client /\ state' = state
        /\ gen' = gen /\ closed' = closed /\ reloading' = reloading /\ catalog' = catalog
    BY <1>22, NothingFacts
  <2> SUFFICES ASSUME Listing' PROVE Lists'
    BY DEF Listed
  <2>2. Untangled /\ Peace /\ ~history.unlisted
    BY <2>1 DEF Listing, Untangled, Calm
  <2> QED BY <2>1 DEF Listing, Untangled, Pends, Listed, Lists, Mid, Replacing, Removing
<1> QED BY <1>1, <1>2, <1>3, <1>4, <1>5, <1>6, <1>7, <1>8, <1>9, <1>10, <1>11, <1>12, <1>13, <1>14,
    <1>15, <1>16, <1>17, <1>18, <1>19, <1>20, <1>21, <1>22 DEF Next, Operation

-----------------------------------------------------------------------------
(* The state that the clients are told.                                    *)

\* What the clients will have been told in the end.
LastTold ==
  IF notes # <<>> THEN notes[Len(notes)].state
  ELSE IF queue # <<>> THEN queue[Len(queue)]
  ELSE view

\* No operation was entangled, and no notification overtook another one.
Telling == Untangled /\ ~history.crossed /\ cfg # Absent

\* The last that is told is the state or, during a disabling, the state that it found.
Knows ==
  /\ (\A o \in Ops : o \notin Removing) => LastTold = state
  /\ \A o \in Ops : o \in Removing => LastTold = op[o].prev.state

\* That is so, while no notification overtook another one.
Tells == Telling => Knows

\* Steps that tell nothing change nothing about what was told.
LEMMA SameTold ==
  ASSUME notes' = notes, queue' = queue, view' = view
  PROVE  LastTold' = LastTold
BY DEF LastTold

\* What is told is told last.
LEMMA NowTold ==
  ASSUME Types, NEW o \in Ops, NEW s \in States, Told(o, s)
  PROVE  LastTold' = s
<1>1. [op |-> o, state |-> s] \in Notice /\ notes \in Seq(Notice)
  BY DEF Notice, Types, NotesIs
<1>2. /\ notes' # <<>> /\ Len(notes') = Len(notes) + 1
      /\ notes'[Len(notes) + 1] = [op |-> o, state |-> s]
  BY <1>1, AppendProperties DEF Told
<1> QED BY <1>2 DEF LastTold

\* Notify, in order, passes on what was told.
LEMMA PassedOn ==
  ASSUME Types, Noted, NEW o \in Ops, At(o, "notify"), Mine(o) = 1,
         queue' = Append(queue, notes[Mine(o)].state), notes' = Without(Mine(o))
  PROVE  LastTold' = LastTold
<1>1. /\ notes \in Seq(Notice) /\ Len(notes) \in Nat /\ 1 \in 1 .. Len(notes)
      /\ notes[1].state \in States /\ queue \in Seq(States)
  BY MineFacts, NoticeFacts DEF Types, NotesIs
<1>2. /\ notes' \in Seq(Notice) /\ Len(notes') = Len(notes) - 1
      /\ \A j \in 1 .. Len(notes) - 1 : notes'[j] = notes[j + 1]
  <2>1. \A j \in 1 .. Len(notes) - 1 : ~(j < 1)
    OBVIOUS
  <2> QED BY <2>1, MineFacts
<1>3. /\ queue' # <<>> /\ Len(queue') = Len(queue) + 1 /\ queue'[Len(queue) + 1] = notes[1].state
  BY <1>1, AppendProperties
<1>4. notes # <<>>
  BY <1>1, EmptySeq
<1>5. CASE Len(notes) = 1
  <2>1. notes' = <<>>
    BY <1>2, <1>5, EmptySeq
  <2> QED BY <1>3, <1>4, <1>5, <2>1 DEF LastTold
<1>6. CASE Len(notes) # 1
  <2>1. notes' # <<>> /\ Len(notes) - 1 \in 1 .. Len(notes) - 1
    BY <1>1, <1>2, <1>6, EmptySeq
  <2>2. notes'[Len(notes')] = notes[Len(notes)]
    BY <1>1, <1>2, <2>1
  <2> QED BY <1>4, <2>1, <2>2 DEF LastTold
<1> QED BY <1>5, <1>6

\* The publisher delivers what was told.
LEMMA Delivered ==
  ASSUME Types, Publisher
  PROVE  LastTold' = LastTold
<1>1. notes' = notes /\ queue \in Seq(States) /\ Len(queue) \in Nat
  BY PublisherFacts, LenProperties DEF Types, NotesIs
<1>2. CASE queue = <<>>
  BY <1>2, PublisherFacts, SameTold
<1>3. CASE queue # <<>>
  <2>1. view' = Head(queue) /\ queue' = Tail(queue)
    BY <1>3, PublisherFacts
  <2>2. /\ queue' \in Seq(States) /\ Len(queue') = Len(queue) - 1
        /\ \A i \in 1 .. Len(queue') : queue'[i] = queue[i + 1]
    BY <1>1, <1>3, <2>1, HeadTailProperties
  <2>3. Len(queue) # 0
    BY <1>1, <1>3, EmptySeq
  <2>4. CASE Len(queue) = 1
    <3>1. queue' = <<>> /\ view' = queue[Len(queue)]
      BY <2>1, <2>2, <2>4, EmptySeq
    <3> QED BY <1>1, <1>3, <3>1 DEF LastTold
  <2>5. CASE Len(queue) # 1
    <3>1. queue' # <<>> /\ Len(queue') \in 1 .. Len(queue')
      BY <1>1, <2>2, <2>3, <2>5, EmptySeq
    <3>2. queue'[Len(queue')] = queue[Len(queue)]
      BY <1>1, <2>2, <3>1
    <3> QED BY <1>1, <1>3, <3>1, <3>2 DEF LastTold
  <2> QED BY <2>4, <2>5
<1> QED BY <1>2, <1>3

\* The operation keeps what a disabling found.
RemovingKept(o) ==
  /\ (o \in Removing)' <=> o \in Removing
  /\ o \in Removing => op'[o].prev = op[o].prev

\* Steps that keep the state and what was told keep Knows.
LEMMA KnowsKept ==
  ASSUME Knows, NEW o \in Ops, Others(o), RemovingKept(o), state' = state, LastTold' = LastTold
  PROVE  Knows'
<1>1. \A p \in Ops : RemovingKept(p)
  BY DEF Others, Starts, RemovingKept, Removing
<1> QED BY <1>1 DEF Knows, RemovingKept

\* A step that tells the state, while no other operation disables, makes Knows true.
LEMMA KnowsAlone ==
  ASSUME NEW o \in Ops, Alone(o), (o \notin Removing)', LastTold' = state'
  PROVE  Knows'
BY DEF Alone, Knows

\* Every step keeps Tells.
LEMMA TellsStep ==
  Types /\ Noted /\ Waiters /\ Olds /\ Gens /\ Begun /\ Asyncs /\ Calm /\ Tells /\
    [Next]_vars => Tells'
<1> SUFFICES ASSUME Types, Noted, Waiters, Olds, Gens, Begun, Asyncs, Calm, Tells, [Next]_vars
             PROVE  Tells'
  OBVIOUS
<1>1. ASSUME NEW o \in Ops, NEW new \in Configs, SetConfig(o, new) PROVE Tells'
  <2>1. /\ Others(o) /\ op[o].pc = "none" /\ op'[o].pc \in {"reload", "notify"}
        /\ cfg' = new /\ state' = Shown(new) /\ closed' = closed
        /\ history'.crossed = history.crossed
    <3>1. op'[o].pc \in {"reload", "notify"}
      BY <1>1, SetConfigFacts
    <3> QED BY <1>1, <3>1, SetConfigFacts
  <2>2. /\ KeepsClient(new) => history'.entangled = history.entangled
        /\ ~KeepsClient(new) /\ ~history'.entangled =>
             ~history.entangled /\ ~Entangles(o)
        /\ ~history'.forgotten => ~history.forgotten
        /\ new # Absent => Told(o, Shown(new))
    BY <1>1, SetConfigFacts
  <2> SUFFICES ASSUME Telling' PROVE Knows'
    BY DEF Tells
  <2>3. Untangled /\ Peace /\ new # Absent
    BY <2>1, <2>2 DEF Telling, Untangled, Calm
  <2>4. LastTold' = state'
    <3>1. Shown(new) \in States
      BY DEF Shown, States
    <3> QED BY <2>1, <2>2, <2>3, <3>1, NowTold
  <2>5. \A p \in Ops : p # o => p \notin Removing
    <3>1. CASE KeepsClient(new)
      BY <2>3, <3>1 DEF Peace, RemoversHold, KeepsClient
    <3>2. CASE ~KeepsClient(new)
      BY <2>2, <3>2 DEF Telling, Untangled, Entangles
    <3> QED BY <3>1, <3>2
  <2>6. \A p \in Ops : (p \notin Removing)'
    BY <2>1, <2>5 DEF Removing, Others, Starts
  <2> QED BY <2>4, <2>6 DEF Knows
<1>2. ASSUME NEW o \in Ops, Boot(o) PROVE Tells'
  <2>1. /\ Others(o) /\ op'[o].then = "done" /\ op'[o].gen = 0 /\ op'[o].old = None
        /\ op[o].pc = "none" /\ ~started /\ ~closed /\ cfg' = cfg /\ client' = client
        /\ state' = state /\ gen' = gen /\ closed' = closed /\ notes' = notes /\ queue' = queue
        /\ view' = view /\ history' = history
        /\ op'[o].pc = (IF cfg.enabled THEN "async" ELSE "done")
    BY <1>2, BootFacts
  <2> SUFFICES ASSUME Telling' PROVE Knows'
    BY DEF Tells
  <2>2. Untangled /\ Peace /\ ~history.crossed
    BY <2>1 DEF Telling, Untangled, Calm
  <2>3. Knows
    BY <2>1, <2>2 DEF Tells, Telling
  <2>4. RemovingKept(o)
    BY <2>1 DEF RemovingKept, Removing
  <2>5. LastTold' = LastTold
    BY <2>1, SameTold
  <2> QED BY <2>1, <2>3, <2>4, <2>5, KnowsKept
<1>3. ASSUME NEW o \in Ops, StartAsync(o) PROVE Tells'
  <2> USE DEF SetsOff
  <2>1. /\ Others(o) /\ op'[o].old = op[o].old /\ op'[o].prev = op[o].prev /\ op[o].pc = "async"
        /\ cfg' = cfg /\ client' = client /\ closed' = closed /\ queue' = queue /\ view' = view
        /\ history'.crossed = history.crossed /\ history'.forgotten = history.forgotten
        /\ SetsOff(o)
        /\ history'.entangled = (history.entangled \/ Entangles(o))
    BY <1>3, StartAsyncFacts
  <2>2. CASE closed
    BY <2>1, <2>2 DEF Tells, Telling, Untangled
  <2> SUFFICES ASSUME ~closed PROVE Tells'
    BY <2>2
  <2> SUFFICES ASSUME Telling' PROVE Knows'
    BY DEF Tells
  <2>3. Untangled /\ Peace /\ ~history.crossed
    BY <2>1 DEF Telling, Untangled, Calm
  <2>4. ~Entangles(o)
    BY <2>1 DEF Telling, Untangled
  <2>5. Alone(o)
    BY <2>4, <2>1, <2>3, Fresh
  <2>6. (o \notin Removing)'
    BY <2>1 DEF Removing
  <2>7. LastTold' = "starting"
    <3>1. "starting" \in States
      BY TypesStep DEF Types, States
    <3> QED BY <2>1, <3>1, NowTold
  <2> QED BY <2>1, <2>5, <2>6, <2>7, KnowsAlone
<1>4. ASSUME NEW o \in Ops, Reload(o) PROVE Tells'
  <2>1. /\ Others(o) /\ op'[o].then = op[o].then /\ op'[o].gen = op[o].gen
        /\ op'[o].old = op[o].old /\ op'[o].prev = op[o].prev /\ cfg' = cfg /\ client' = client
        /\ state' = state /\ gen' = gen /\ closed' = closed /\ notes' = notes /\ queue' = queue
        /\ view' = view /\ history'.crossed = history.crossed
        /\ history'.entangled = history.entangled /\ history'.forgotten = history.forgotten
        /\ \/ op[o].pc = "reload" /\ op'[o].pc = "done" /\ reloading' = reloading
           \/ o \in reloading /\ op'[o].pc = op[o].pc /\ reloading' = reloading \ {o}
    BY <1>4, ReloadFacts
  <2> SUFFICES ASSUME Telling' PROVE Knows'
    BY DEF Tells
  <2>2. Untangled /\ Peace /\ ~history.crossed
    BY <2>1 DEF Telling, Untangled, Calm
  <2>3. Knows
    BY <2>1, <2>2 DEF Tells, Telling
  <2>4. RemovingKept(o)
    BY <2>1 DEF RemovingKept, Removing
  <2>5. LastTold' = LastTold
    BY <2>1, SameTold
  <2> QED BY <2>1, <2>3, <2>4, <2>5, KnowsKept
<1>5. ASSUME NEW o \in Ops, NEW enable \in BOOLEAN, Restart(o, enable) PROVE Tells'
  <2>1. /\ Others(o) /\ op'[o].pc = "notify" /\ op'[o].then = "begin" /\ op'[o].gen = gen + 1
        /\ op'[o].old = None /\ op[o].pc = "none" /\ ~closed /\ cfg # Absent /\ gen' = gen + 1
        /\ state' = "starting" /\ client' = client /\ closed' = closed /\ queue' = queue
        /\ view' = view /\ Told(o, "starting") /\ history'.crossed = history.crossed
        /\ history'.forgotten = history.forgotten
        /\ (enable \/ client # None)
        /\ cfg'.ver = cfg.ver /\ cfg'.enabled = (enable \/ cfg.enabled) /\ cfg' \in Configs
        /\ cfg' # Absent
        /\ history'.entangled = (history.entangled \/ Entangles(o))
    BY <1>5, RestartFacts
  <2> SUFFICES ASSUME Telling' PROVE Knows'
    BY DEF Tells
  <2>2. Untangled /\ Peace /\ ~history.crossed
    BY <2>1 DEF Telling, Untangled, Calm
  <2>3. ~Entangles(o)
    BY <2>1 DEF Telling, Untangled
  <2>4. Alone(o)
    BY <2>3, <2>1, <2>2, Fresh
  <2>5. (o \notin Removing)'
    BY <2>1 DEF Removing
  <2>6. LastTold' = "starting"
    <3>1. "starting" \in States
      BY TypesStep DEF Types, States
    <3> QED BY <2>1, <3>1, NowTold
  <2> QED BY <2>1, <2>4, <2>5, <2>6, KnowsAlone
<1>6. ASSUME NEW o \in Ops, Disable(o) PROVE Tells'
  <2>1. /\ Others(o) /\ op'[o].pc = "offsync" /\ op'[o].then = "done" /\ op'[o].gen = gen + 1
        /\ op'[o].old = client /\ op'[o].prev.cfg = cfg /\ op'[o].prev.state = state
        /\ op'[o].prev.failed = failed /\ op[o].pc = "none" /\ ~closed /\ cfg # Absent
        /\ gen' = gen + 1 /\ client' = None /\ state' = "disabled" /\ closed' = closed
        /\ notes' = notes /\ queue' = queue /\ view' = view
        /\ cfg'.ver = cfg.ver /\ cfg'.enabled = FALSE /\ cfg' \in Configs /\ cfg' # Absent
        /\ history'.crossed = history.crossed /\ history'.forgotten = history.forgotten
        /\ history'.entangled = (history.entangled \/ Entangles(o))
    BY <1>6, DisableFacts
  <2> SUFFICES ASSUME Telling' PROVE Knows'
    BY DEF Tells
  <2>2. Untangled /\ Peace /\ ~history.crossed
    BY <2>1 DEF Telling, Untangled, Calm
  <2>3. ~Entangles(o)
    BY <2>1 DEF Telling, Untangled
  <2>4. Alone(o)
    BY <2>3, <2>1, <2>2, Fresh
  <2>5. o \notin Removing /\ \A p \in Ops : p # o => p \notin Removing /\ (p \notin Removing)'
    BY <2>1, <2>4 DEF Alone, Removing
  <2>6. Knows
    BY <2>1, <2>2 DEF Tells, Telling
  <2>7. LastTold = state
    BY <2>5, <2>6 DEF Knows
  <2>8. LastTold' = LastTold
    BY <2>1, SameTold
  <2>9. (o \in Removing)' /\ op'[o].prev.state = state
    BY <2>1 DEF Removing
  <2> QED BY <2>5, <2>7, <2>8, <2>9 DEF Knows
<1>7. ASSUME NEW o \in Ops, Disabled(o) PROVE Tells'
  <2>1. /\ Others(o) /\ op'[o].pc = "notify" /\ op'[o].then = "done" /\ op'[o].gen = op[o].gen
        /\ op'[o].old = op[o].old /\ op'[o].prev = op[o].prev /\ op[o].pc = "off" /\ cfg' = cfg
        /\ client' = client /\ state' = state /\ gen' = gen /\ closed' = closed /\ queue' = queue
        /\ view' = view /\ Told(o, state) /\ history' = history
    BY <1>7, DisabledFacts
  <2> SUFFICES ASSUME Telling' PROVE Knows'
    BY DEF Tells
  <2>2. Untangled /\ Peace /\ ~history.crossed
    BY <2>1 DEF Telling, Untangled, Calm
  <2>3. Alone(o)
    BY <2>1, <2>2, SoleStage DEF Mid, Replacing, Removing
  <2>4. (o \notin Removing)'
    BY <2>1 DEF Removing
  <2>5. LastTold' = state
    <3>1. state \in States
      BY TypesStep DEF Types, States
    <3> QED BY <2>1, <3>1, NowTold
  <2> QED BY <2>1, <2>3, <2>4, <2>5, KnowsAlone
<1>8. ASSUME NEW o \in Ops, EnableAgain(o) PROVE Tells'
  <2> USE DEF TakenBack
  <2>1. /\ Others(o) /\ op'[o].pc = "done" /\ op'[o].then = op[o].then /\ op'[o].gen = op[o].gen
        /\ op'[o].old = op[o].old /\ op'[o].prev = op[o].prev /\ op[o].pc = "offfailed"
        /\ gen' = gen /\ closed' = closed /\ notes' = notes /\ queue' = queue /\ view' = view
        /\ history'.crossed = history.crossed /\ history'.forgotten = history.forgotten
        /\ TakenBack(o)
    BY <1>8, EnableAgainFacts
  <2> SUFFICES ASSUME Telling' PROVE Knows'
    BY DEF Tells
  <2>2. Untangled /\ Peace /\ ~history.crossed
    BY <2>1 DEF Telling, Untangled, Calm
  <2>3. Alone(o)
    BY <2>1, <2>2, SoleStage DEF Mid, Replacing, Removing
  <2>4. o \in Removing /\ (o \notin Removing)'
    BY <2>1 DEF Removing
  <2>5. Reverts(o)
    BY <2>2, <2>4 DEF Peace, RemoversHold, Reverts, Current
  <2>6. Knows
    BY <2>2, <2>5 DEF Tells, Telling, Reverts
  <2>7. LastTold' = LastTold
    BY <2>1, SameTold
  <2>8. LastTold' = state'
    BY <2>1, <2>4, <2>5, <2>6, <2>7 DEF Knows
  <2> QED BY <2>3, <2>4, <2>8, KnowsAlone
<1>9. ASSUME NEW o \in Ops, Begin(o) PROVE Tells'
  <2>1. /\ Others(o) /\ op'[o].then = op[o].then /\ op'[o].gen = op[o].gen
        /\ op'[o].old = op[o].old /\ op'[o].prev = op[o].prev /\ op[o].pc = "begin" /\ cfg' = cfg
        /\ client' = client /\ state' = state /\ gen' = gen /\ closed' = closed /\ notes' = notes
        /\ queue' = queue /\ view' = view /\ history' = history
        /\ op'[o].pc = (IF closed \/ gen # op[o].gen THEN "done" ELSE "connect")
    BY <1>9, BeginFacts
  <2> SUFFICES ASSUME Telling' PROVE Knows'
    BY DEF Tells
  <2>2. Untangled /\ Peace /\ ~history.crossed
    BY <2>1 DEF Telling, Untangled, Calm
  <2>3. Knows
    BY <2>1, <2>2 DEF Tells, Telling
  <2>4. RemovingKept(o)
    BY <2>1 DEF RemovingKept, Removing
  <2>5. LastTold' = LastTold
    BY <2>1, SameTold
  <2> QED BY <2>1, <2>3, <2>4, <2>5, KnowsKept
<1>10. ASSUME NEW o \in Ops, Connect(o) PROVE Tells'
  <2>1. /\ Others(o) /\ op'[o].pc = "publish" /\ op'[o].then = op[o].then /\ op'[o].gen = op[o].gen
        /\ op'[o].old = op[o].old /\ op'[o].prev = op[o].prev /\ op[o].pc = "connect" /\ cfg' = cfg
        /\ client' = client /\ state' = state /\ gen' = gen /\ closed' = closed /\ notes' = notes
        /\ queue' = queue /\ view' = view /\ history' = history
    BY <1>10, ConnectFacts
  <2> SUFFICES ASSUME Telling' PROVE Knows'
    BY DEF Tells
  <2>2. Untangled /\ Peace /\ ~history.crossed
    BY <2>1 DEF Telling, Untangled, Calm
  <2>3. Knows
    BY <2>1, <2>2 DEF Tells, Telling
  <2>4. RemovingKept(o)
    BY <2>1 DEF RemovingKept, Removing
  <2>5. LastTold' = LastTold
    BY <2>1, SameTold
  <2> QED BY <2>1, <2>3, <2>4, <2>5, KnowsKept
<1>11. ASSUME NEW o \in Ops, Outdated(o) PROVE Tells'
  <2>1. /\ Others(o) /\ op'[o].pc = "done" /\ op'[o].then = op[o].then /\ op'[o].gen = op[o].gen
        /\ op'[o].old = op[o].old /\ op'[o].prev = op[o].prev /\ op[o].pc = "publish" /\ ~Valid(o)
        /\ cfg' = cfg /\ client' = client /\ state' = state /\ gen' = gen /\ closed' = closed
        /\ notes' = notes /\ queue' = queue /\ view' = view /\ history' = history
    BY <1>11, OutdatedFacts
  <2> SUFFICES ASSUME Telling' PROVE Knows'
    BY DEF Tells
  <2>2. Untangled /\ Peace /\ ~history.crossed
    BY <2>1 DEF Telling, Untangled, Calm
  <2>3. Knows
    BY <2>1, <2>2 DEF Tells, Telling
  <2>4. RemovingKept(o)
    BY <2>1 DEF RemovingKept, Removing
  <2>5. LastTold' = LastTold
    BY <2>1, SameTold
  <2> QED BY <2>1, <2>3, <2>4, <2>5, KnowsKept
<1>12. ASSUME NEW o \in Ops, ConnectFailed(o) PROVE Tells'
  <2>1. /\ Others(o) /\ op'[o].pc = "notify" /\ op'[o].then = "done" /\ op'[o].gen = op[o].gen
        /\ op'[o].old = op[o].old /\ op'[o].prev = op[o].prev /\ op[o].pc = "publish" /\ Valid(o)
        /\ ~op[o].got /\ cfg' = cfg /\ client' = client /\ gen' = gen /\ closed' = closed
        /\ queue' = queue /\ view' = view /\ Told(o, state') /\ history' = history
        /\ state' = IF client # None THEN "active" ELSE "error"
    BY <1>12, ConnectFailedFacts
  <2> SUFFICES ASSUME Telling' PROVE Knows'
    BY DEF Tells
  <2>2. Untangled /\ Peace /\ ~history.crossed
    BY <2>1 DEF Telling, Untangled, Calm
  <2>3. Alone(o)
    BY <2>1, <2>2, SoleStage
  <2>4. (o \notin Removing)'
    BY <2>1 DEF Removing
  <2>5. LastTold' = state'
    <3>1. state' \in States
      BY TypesStep DEF Types, States
    <3> QED BY <2>1, <3>1, NowTold
  <2> QED BY <2>1, <2>3, <2>4, <2>5, KnowsAlone
<1>13. ASSUME NEW o \in Ops, Publish(o) PROVE Tells'
  <2>1. /\ Others(o) /\ op'[o].pc = "sync" /\ op'[o].then = op[o].then /\ op'[o].gen = op[o].gen
        /\ op'[o].old = client /\ op'[o].prev = op[o].prev /\ op[o].pc = "publish" /\ Valid(o)
        /\ op[o].got /\ client' = o /\ state' = "starting" /\ cfg' = cfg /\ gen' = gen
        /\ closed' = closed /\ notes' = notes /\ queue' = queue /\ view' = view
        /\ history'.crossed = history.crossed /\ history'.entangled = history.entangled
        /\ history'.forgotten = history.forgotten
    BY <1>13, PublishFacts
  <2> SUFFICES ASSUME Telling' PROVE Knows'
    BY DEF Tells
  <2>2. Untangled /\ Peace /\ ~history.crossed
    BY <2>1 DEF Telling, Untangled, Calm
  <2>3. Alone(o)
    BY <2>1, <2>2, SoleStage
  <2>4. \A p \in Ops : p \notin Removing
    <3>1. \A p \in Ops : p # o => p \notin Removing
      BY <2>3 DEF Alone, Removing
    <3> QED BY <2>1, <3>1 DEF Removing
  <2>5. state = "starting"
    <3>1. Early(o) /\ Going(o)
      BY <2>1 DEF Early, Going, Current, Valid
    <3> QED BY <2>2, <3>1 DEF Peace, StartsHold
  <2>6. Knows
    BY <2>1, <2>2 DEF Tells, Telling
  <2>7. LastTold' = LastTold
    BY <2>1, SameTold
  <2>8. LastTold' = state' /\ (o \notin Removing)'
    BY <2>1, <2>4, <2>5, <2>6, <2>7 DEF Knows, Removing
  <2> QED BY <2>3, <2>8, KnowsAlone
<1>14. ASSUME NEW o \in Ops, Activate(o) PROVE Tells'
  <2>1. /\ Others(o) /\ op'[o].pc = "notify" /\ op'[o].then = "done" /\ op'[o].gen = op[o].gen
        /\ op'[o].old = op[o].old /\ op'[o].prev = op[o].prev /\ op[o].pc = "synced" /\ Valid(o)
        /\ client = o /\ state' = "active" /\ cfg' = cfg /\ client' = client /\ gen' = gen
        /\ closed' = closed /\ queue' = queue /\ view' = view /\ Told(o, "active")
        /\ history' = history
    BY <1>14, ActivateFacts
  <2> SUFFICES ASSUME Telling' PROVE Knows'
    BY DEF Tells
  <2>2. Untangled /\ Peace /\ ~history.crossed
    BY <2>1 DEF Telling, Untangled, Calm
  <2>3. Alone(o)
    BY <2>1, <2>2, SoleStage DEF Mid, Replacing, Removing
  <2>4. (o \notin Removing)'
    BY <2>1 DEF Removing
  <2>5. LastTold' = "active"
    <3>1. "active" \in States
      BY TypesStep DEF Types, States
    <3> QED BY <2>1, <3>1, NowTold
  <2> QED BY <2>1, <2>3, <2>4, <2>5, KnowsAlone
<1>15. ASSUME NEW o \in Ops, TooLate(o) PROVE Tells'
  <2>1. /\ Others(o) /\ op'[o].pc = "done" /\ op'[o].then = op[o].then /\ op'[o].gen = op[o].gen
        /\ op'[o].old = op[o].old /\ op'[o].prev = op[o].prev /\ op[o].pc = "synced"
        /\ ~(Valid(o) /\ client = o) /\ cfg' = cfg /\ client' = client /\ state' = state
        /\ gen' = gen /\ closed' = closed /\ notes' = notes /\ queue' = queue /\ view' = view
        /\ history' = history
    BY <1>15, TooLateFacts
  <2> SUFFICES ASSUME Untangled' PROVE FALSE
    BY DEF Tells, Telling
  <2>2. Untangled /\ Peace
    BY <2>1 DEF Untangled, Calm
  <2>3. o \in Replacing
    BY <2>1 DEF Replacing
  <2>4. Current(o) /\ client = o /\ cfg.enabled
    BY <2>2, <2>3 DEF Peace, ReplacersHold, StartsHold, Going
  <2> QED BY <2>1, <2>2, <2>4 DEF Valid, Untangled, Current
<1>16. ASSUME NEW o \in Ops, SyncFailed(o) PROVE Tells'
  <2>1. /\ Others(o) /\ op'[o].pc = "notify" /\ op'[o].then = "done" /\ op'[o].gen = op[o].gen
        /\ op'[o].old = op[o].old /\ op'[o].prev = op[o].prev /\ op[o].pc = "unsynced"
        /\ cfg' = cfg /\ gen' = gen /\ closed' = closed /\ queue' = queue /\ view' = view
        /\ Told(o, state') /\ history' = history
        /\ gen = op[o].gen /\ client = o =>
             /\ client' = op[o].old /\ failed' = TRUE
             /\ state' = IF op[o].old # None THEN "active" ELSE "error"
        /\ ~(gen = op[o].gen /\ client = o) =>
             client' = client /\ failed' = failed /\ state' = state
    BY <1>16, SyncFailedFacts
  <2> SUFFICES ASSUME Telling' PROVE Knows'
    BY DEF Tells
  <2>2. Untangled /\ Peace /\ ~history.crossed
    BY <2>1 DEF Telling, Untangled, Calm
  <2>3. Alone(o)
    BY <2>1, <2>2, SoleStage DEF Mid, Replacing, Removing
  <2>4. (o \notin Removing)'
    BY <2>1 DEF Removing
  <2>5. LastTold' = state'
    <3>1. state' \in States
      BY TypesStep DEF Types, States
    <3> QED BY <2>1, <3>1, NowTold
  <2> QED BY <2>1, <2>3, <2>4, <2>5, KnowsAlone
<1>17. ASSUME NEW o \in Ops, GiveUp(o) PROVE Tells'
  <2>1. /\ Others(o) /\ op'[o].then = op[o].then /\ op'[o].gen = op[o].gen
        /\ op'[o].old = op[o].old /\ op'[o].prev = op[o].prev /\ closed /\ o \in waiters
        /\ cfg' = cfg /\ client' = client /\ state' = state /\ gen' = gen /\ closed' = closed
        /\ notes' = notes /\ queue' = queue /\ view' = view /\ history' = history
        /\ op'[o].pc = (IF op[o].pc = "offsync" THEN "offfailed" ELSE "unsynced")
    BY <1>17, GiveUpFacts
  <2> QED BY <2>1 DEF Tells, Telling, Untangled
<1>18. ASSUME NEW o \in Ops, Notify(o) PROVE Tells'
  <2>1. /\ Others(o) /\ op'[o].pc = op[o].then /\ op'[o].then = op[o].then
        /\ op'[o].gen = op[o].gen /\ op'[o].old = op[o].old /\ op'[o].prev = op[o].prev
        /\ op[o].pc = "notify" /\ queue' = Append(queue, notes[Mine(o)].state)
        /\ notes' = Without(Mine(o)) /\ cfg' = cfg /\ client' = client /\ state' = state
        /\ gen' = gen /\ closed' = closed /\ view' = view /\ history'.entangled = history.entangled
        /\ history'.forgotten = history.forgotten
        /\ history'.crossed = (history.crossed \/ Mine(o) # 1)
    BY <1>18, NotifyFacts
  <2> SUFFICES ASSUME Telling' PROVE Knows'
    BY DEF Tells
  <2>2. Untangled /\ Peace /\ ~history.crossed
    BY <2>1 DEF Telling, Untangled, Calm
  <2>3. op[o].then \in {"done", "async", "reload", "begin"}
    BY ThenFacts
  <2>4. Mine(o) = 1
    BY <2>1 DEF Telling
  <2>5. Knows
    BY <2>1, <2>2 DEF Tells, Telling
  <2>6. RemovingKept(o)
    BY <2>1, <2>3 DEF RemovingKept, Removing
  <2>7. LastTold' = LastTold
    BY <2>1, <2>4, PassedOn DEF At
  <2> QED BY <2>1, <2>5, <2>6, <2>7, KnowsKept
<1>19. CASE Flush
  <2>1. /\ cfg' = cfg /\ client' = client /\ state' = state /\ gen' = gen /\ closed' = closed
        /\ notes' = notes /\ queue' = queue /\ view' = view /\ history' = history
    BY <1>19, FlushFacts
  <2> SUFFICES ASSUME Telling' PROVE Knows'
    BY DEF Tells
  <2>2. Untangled /\ Peace /\ ~history.crossed
    BY <2>1 DEF Telling, Untangled, Calm
  <2>3. Knows
    BY <2>1, <2>2 DEF Tells, Telling
  <2>4. \A p \in Ops : RemovingKept(p)
    BY <1>19, FlushStages DEF RemovingKept, Removing
  <2>5. LastTold' = LastTold
    BY <2>1, SameTold
  <2> QED BY <2>1, <2>3, <2>4, <2>5 DEF Knows, RemovingKept
<1>20. CASE Publisher
  <2>1. /\ wake /\ op' = op /\ history' = history /\ cfg' = cfg /\ client' = client
        /\ state' = state /\ gen' = gen /\ closed' = closed /\ notes' = notes
        /\ queue = <<>> => wake' = FALSE /\ queue' = queue /\ view' = view
        /\ queue # <<>> => view' = Head(queue) /\ queue' = Tail(queue) /\ wake' = wake
    BY <1>20, PublisherFacts
  <2> SUFFICES ASSUME Telling' PROVE Knows'
    BY DEF Tells
  <2>2. Untangled /\ Peace /\ ~history.crossed
    BY <2>1 DEF Telling, Untangled, Calm
  <2>3. Knows /\ LastTold' = LastTold
    BY <1>20, <2>1, <2>2, Delivered DEF Tells, Telling
  <2> QED BY <2>1, <2>3 DEF Knows, Removing
<1>21. CASE Close
  <2>1. /\ ~closed /\ closed' = TRUE /\ client' = None /\ op' = op /\ cfg' = cfg /\ state' = state
        /\ notes' = notes /\ queue' = queue /\ view' = view /\ history'.crossed = history.crossed
        /\ history'.forgotten = history.forgotten
        /\ gen' = IF cancel # None THEN gen + 1 ELSE gen
    BY <1>21, CloseFacts
  <2> QED BY <2>1 DEF Tells, Telling, Untangled
<1>22. CASE UNCHANGED vars
  <2>1. /\ op' = op /\ history' = history /\ cfg' = cfg /\ client' = client /\ state' = state
        /\ gen' = gen /\ closed' = closed /\ notes' = notes /\ queue' = queue /\ view' = view
    BY <1>22, NothingFacts
  <2> SUFFICES ASSUME Telling' PROVE Knows'
    BY DEF Tells
  <2>2. Untangled /\ Peace /\ ~history.crossed
    BY <2>1 DEF Telling, Untangled, Calm
  <2>3. Knows /\ LastTold' = LastTold
    BY <2>1, <2>2, SameTold DEF Tells, Telling
  <2> QED BY <2>1, <2>3 DEF Knows, Removing
<1> QED BY <1>1, <1>2, <1>3, <1>4, <1>5, <1>6, <1>7, <1>8, <1>9, <1>10, <1>11, <1>12, <1>13, <1>14,
    <1>15, <1>16, <1>17, <1>18, <1>19, <1>20, <1>21, <1>22 DEF Next, Operation

-----------------------------------------------------------------------------
(* The theorems.                                                           *)

\* The inductive invariant.
Inv ==
  /\ Types /\ Noted /\ Waiters /\ Opened /\ Olds /\ Held /\ Remembered
  /\ Gens /\ Begun /\ Asyncs /\ Queued /\ Got /\ Calm /\ Listed /\ Tells

\* At first no operation has begun.
LEMMA InitOps ==
  ASSUME Init
  PROVE  /\ OpIs
         /\ \A o \in Ops : /\ op[o].pc = "none" /\ op[o].then = "done" /\ op[o].config = FALSE
                           /\ op[o].got = FALSE
         /\ op[First].ver = cfg.ver
<1>1. cfg \in Configs /\ cfg.ver \in Versions \cup {None} /\ First \in Starts
  BY ConfigFacts DEF Init, Starts
<1> DEFINE r(o) == [NoOp EXCEPT !.ver = IF o = First THEN cfg.ver ELSE None]
<1>2. \A o \in Starts : /\ r(o) \in Records /\ r(o).pc = "none" /\ r(o).then = "done"
                        /\ r(o).config = FALSE /\ r(o).got = FALSE
                        /\ r(o).ver = IF o = First THEN cfg.ver ELSE None
  BY <1>1, NoOpType DEF Records, NoOp
<1>3. op = [o \in Starts |-> r(o)]
  BY DEF Init
<1> HIDE DEF r
<1> QED BY <1>1, <1>2, <1>3 DEF OpIs, Starts

\* The values of the other variables at first.
LEMMA InitValues ==
  ASSUME Init
  PROVE  /\ cfg \in Configs /\ failed = FALSE /\ cancel = None /\ closed = FALSE
         /\ \/ /\ started = FALSE /\ client = None /\ gen = 0
               /\ state = IF cfg = Absent THEN "gone"
                          ELSE IF cfg.enabled THEN "starting" ELSE "disabled"
            \/ started = TRUE /\ client = First /\ gen = 1 /\ cfg.enabled /\ state = "active"
         /\ open = {client} \ {None} /\ catalog = client /\ waiters = {} /\ reloading = {}
         /\ notes = <<>> /\ queue = <<>> /\ wake = FALSE /\ view = state
         /\ HistoryIs
BY DEF Init, HistoryIs, Histories

\* The types hold at first.
LEMMA InitTypes == Init => Types
<1> SUFFICES ASSUME Init PROVE Types
  OBVIOUS
<1>1. state \in States /\ client \in Starts \cup {None} /\ gen \in Nat /\ started \in BOOLEAN
  <2>1. state \in States
    BY InitValues DEF States
  <2>2. client \in Starts \cup {None}
    BY InitValues DEF Starts
  <2>3. gen \in Nat
    <3>1. gen = 0 \/ gen = 1
      BY InitValues
    <3> QED BY <3>1
  <2>4. started \in BOOLEAN
    BY InitValues
  <2> QED BY <2>1, <2>2, <2>3, <2>4
<1>2. NotesIs
  BY InitValues, EmptySeq DEF NotesIs
<1>3. open \in SUBSET Starts
  BY <1>1, InitValues
<1> QED BY <1>1, <1>2, <1>3, InitValues, InitOps DEF Types

\* No operation does anything.
LEMMA InitIdle ==
  ASSUME Init
  PROVE  \A o \in Ops : /\ o \notin Mid /\ ~Early(o) /\ ~Announces(o) /\ ~Live(o)
                        /\ o \notin Replacing /\ o \notin Removing /\ ~Going(o) /\ ~Syncing(o)
                        /\ ~At(o, "notify") /\ ~Pends(o)
BY InitOps, InitValues DEF Mid, Replacing, Removing, Early, Announces, Live, Going, Syncing, At,
   Pends

\* The invariant holds at first.
LEMMA InitInv == Init => Inv
<1> SUFFICES ASSUME Init PROVE Inv
  OBVIOUS
<1>1. Types
  BY InitTypes
<1>2. Noted /\ Waiters /\ Queued
  <2>1. Len(notes) = 0
    BY InitValues, EmptySeq
  <2> QED BY <2>1, InitValues, InitIdle DEF Noted, Waiters, Queued
<1>3. First \notin Ops /\ None \notin Ops /\ First # None
  BY McpAssumption
<1>4. Opened /\ Olds /\ Held /\ Remembered
  <2>1. Opened
    BY <1>3, InitValues DEF Opened
  <2>2. Olds
    BY InitValues, InitIdle DEF Olds, Mid, Published
  <2>3. Held
    BY InitValues DEF Held
  <2> QED BY <2>1, <2>2, <2>3, InitIdle DEF Remembered
<1>5. Gens /\ Begun /\ Asyncs /\ Got
  BY InitValues, InitIdle, InitOps DEF Gens, Ahead, Apart, Cancels, Begun, Asyncs, Got
<1>6. Calm
  <2>1. ReplacersHold /\ RemoversHold /\ StartsHold /\ AnnouncedHold /\ OldsHold
    BY InitIdle DEF ReplacersHold, RemoversHold, StartsHold, AnnouncedHold, OldsHold, Mid
  <2>2. ClientHolds
    BY <1>3, InitValues, InitOps DEF ClientHolds
  <2>3. StateFits /\ StartingEnds
    BY <1>3, InitValues DEF StateFits, Fits, StartingEnds
  <2> QED BY <2>1, <2>2, <2>3 DEF Calm, Peace
<1>7. Listed /\ Tells
  <2>1. Lists
    BY InitValues, InitIdle DEF Lists
  <2>2. Knows
    BY InitValues, InitIdle DEF Knows, LastTold
  <2> QED BY <2>1, <2>2 DEF Listed, Tells
<1> QED BY <1>1, <1>2, <1>4, <1>5, <1>6, <1>7 DEF Inv

\* Every step keeps the invariant.
LEMMA InvStep == Inv /\ [Next]_vars => Inv'
BY TypesStep, NotedStep, WaitersStep, OpenedStep, OldsStep, HeldStep, RememberedStep, GensStep,
   BegunStep, QueuedStep, GotStep, CalmStep, ListedStep, TellsStep DEF Inv

\* The invariant holds in every behaviour.
LEMMA InvHolds == Spec => []Inv
BY InitInv, InvStep, PTL DEF Spec

\* When nothing is under way, no operation has anything in hand.
LEMMA Idle ==
  ASSUME Inv, Busy = {}, ~closed
  PROVE  \A o \in Ops : /\ op[o].pc \in {"none", "done"} /\ o \notin reloading
                        /\ o \notin Mid /\ ~Early(o) /\ ~Announces(o)
<1>1. \A o \in Ops : op[o].pc \in {"none", "done"} /\ o \notin reloading
  BY DEF Busy
<1>2. \A o \in Ops : op[o].then # "async"
  BY <1>1 DEF Inv, Asyncs
<1> QED BY <1>1, <1>2 DEF Mid, Replacing, Removing, Early, Announces

\* When all is quiet, what the invariant says of calm states holds.
LEMMA PlainPeace ==
  ASSUME Inv, Plain
  PROVE  Untangled /\ Peace /\ Busy = {} /\ ~closed /\ started
BY DEF Inv, Plain, Quiet, Untangled, Calm

\* The variables have their types, whatever operations come.
THEOREM TypeCorrect == Spec => []TypeOK
<1>1. Inv => TypeOK
  BY DEF Inv, Types, TypeOK, States
<1> QED BY <1>1, InvHolds, PTL

\* No child process is left behind: a client that runs is in the table, in the hands of an
\* operation, or is one that the history has noted as dropped
\* (runtime.go startGeneration, SetActive).
THEOREM NoClientCorrect == Spec => []NoClientLeft
<1>1. Inv => NoClientLeft
  <2> SUFFICES ASSUME Inv, NEW x \in open
               PROVE  x \in Busy \cup {client} \cup {op[o].old : o \in Busy} \cup history.dropped
    BY DEF NoClientLeft
  <2>1. \A o \in Ops : o \in Mid \/ op[o].pc = "publish" => o \in Busy
    BY DEF Busy, Mid, Replacing, Removing
  <2>2. \/ x = client
        \/ x \in Ops /\ op[x].pc \in {"publish", "sync", "synced", "unsynced"}
        \/ \E o \in Ops : o \in Mid /\ op[o].old = x
        \/ x \in history.dropped
    BY DEF Inv, Held
  <2>3. x \in Ops /\ op[x].pc \in {"publish", "sync", "synced", "unsynced"} => x \in Busy
    BY DEF Busy
  <2> QED BY <2>1, <2>2, <2>3
<1> QED BY <1>1, InvHolds, PTL

\* Once all operations have ended, calls go to an open client of the current
\* configuration, the state says so, and nothing is left starting (runtime.go startGeneration,
\* SetActive, ReloadServer).
THEOREM ClientCorrect == Spec => []ClientIsUsable
<1>1. Inv => ClientIsUsable
  <2> SUFFICES ASSUME Inv, Plain
               PROVE  /\ client # None => client \in open /\ cfg.enabled /\ op[client].ver = cfg.ver
                      /\ state = "active" <=> client # None
                      /\ state # "starting"
    BY DEF ClientIsUsable
  <2>1. Peace /\ Busy = {} /\ ~closed /\ started
    BY PlainPeace
  <2>2. state # "starting"
    <3>1. \A o \in Ops : ~Announces(o) /\ ~Going(o)
      BY <2>1, Idle DEF Going, Mid
    <3> QED BY <2>1, <3>1 DEF Peace, StartingEnds
  <2>3. client # None => client \in open /\ cfg.enabled /\ op[client].ver = cfg.ver
    BY <2>1 DEF Inv, Olds, Peace, ClientHolds
  <2> QED BY <2>1, <2>2, <2>3 DEF Peace, StateFits, Fits
<1> QED BY <1>1, InvHolds, PTL

\* Then the model is shown the tools of that client, and the clients have been told
\* the state (agent.go syncMCPToolCatalog, daemon.go onMCPChange, publishMCPUpdates).
THEOREM ToolsCorrect == Spec => []ToolsAreCurrent
<1>1. Inv => CatalogIsCurrent
  <2> SUFFICES ASSUME Inv, Plain, ~history.unlisted PROVE catalog = client
    BY DEF CatalogIsCurrent
  <2>1. Untangled /\ Busy = {} /\ ~closed
    BY PlainPeace
  <2>2. \A o \in Ops : ~Pends(o) /\ o \notin Mid
    BY <2>1, Idle DEF Pends
  <2> QED BY <2>1, <2>2 DEF Inv, Listed, Listing, Lists
<1>2. Inv => ViewIsCurrent
  <2> SUFFICES ASSUME Inv, Plain, cfg # Absent, ~wake, ~history.crossed PROVE view = state
    BY DEF ViewIsCurrent
  <2>1. Untangled /\ Busy = {} /\ ~closed
    BY PlainPeace
  <2>2. \A o \in Ops : o \notin Removing /\ ~At(o, "notify")
    BY <2>1, Idle DEF Mid, At
  <2>3. notes = <<>>
    <3>1. notes \in Seq(Notice) /\ \A i \in 1 .. Len(notes) : notes[i].op \in Ops
      BY NoticeFacts DEF Inv, Types, NotesIs
    <3>2. Len(notes) \in Nat /\ \A i \in 1 .. Len(notes) : FALSE
      BY <2>2, <3>1, NoticeFacts DEF Inv, Noted
    <3> QED BY <3>1, <3>2, EmptySeq
  <2>4. queue = <<>>
    BY DEF Inv, Queued
  <2>5. LastTold = state
    BY <2>1, <2>2 DEF Inv, Tells, Telling, Knows
  <2> QED BY <2>3, <2>4, <2>5 DEF LastTold
<1>3. Inv => ToolsAreCurrent
  BY <1>1, <1>2 DEF ToolsAreCurrent
<1> QED BY <1>3, InvHolds, PTL

=============================================================================
