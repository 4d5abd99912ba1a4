---------------------------- MODULE ProfileMemory ----------------------------
(***************************************************************************)
(* The long-term memory of the user (internal/memory): candidates wait in  *)
(* a table of the database, one worker per daemon merges them into the     *)
(* profile in batches, one model request per batch, and the user deletes   *)
(* memories meanwhile.  Table and profile survive the daemon; the wake-up, *)
(* the worker and its batch do not.  A transaction is one action.          *)
(*                                                                         *)
(* A candidate stands for the memory that it becomes.  Which memories a    *)
(* model keeps is its own choice, among those it was shown.                *)
(***************************************************************************)
EXTENDS Naturals, FiniteSets, Selections

CONSTANTS
  Candidates,   \* what the user's messages suggest
  Models,       \* model references
  NoRef,        \* the empty model_ref of a row that is older than the column
  MaxAttempts,  \* maxQueueAttempts
  BatchSize,    \* batchSize
  MaxActive,    \* MaxActiveMemories
  MaxStops,     \* bound: stops and crashes of the daemon
  MaxFaults     \* bound: failures, of the database or of model requests

ASSUME MemoryAssumption ==
  /\ NoRef \notin Models /\ IsFiniteSet(Candidates)
  /\ MaxAttempts \in Nat \ {0} /\ BatchSize \in Nat \ {0} /\ MaxActive \in Nat
  /\ MaxStops \in Nat /\ MaxFaults \in Nat

VARIABLES
  queue,     \* memory_queue in the order of created_at
  profile,   \* user_profile_memory
  daemon,    \* "down", "up", or "stopping": its context is cancelled
  closed,    \* the queue's wake-up channel is closed
  signal,    \* the one place of that channel is taken
  telling,   \* inserted or recovered rows whose Signal is still to come
  worker,    \* the goroutine Worker.Run with its local variables
  stops,     \* stops and crashes so far
  faults,    \* failures so far
  fate,      \* history: what became of each candidate
  loads,     \* history: batches that contained it
  removed    \* history: memories the user deleted while no request was open

durable == <<queue, profile>>
history == <<fate, loads, removed>>
vars == <<queue, profile, daemon, closed, signal, telling, worker, stops, faults,
          fate, loads, removed>>

Row == [id : Candidates, ref : Models \cup {NoRef}, high : BOOLEAN,
        attempts : 0 .. MaxAttempts - 1, later : BOOLEAN]

Ids(rows) == {rows[i].id : i \in DOMAIN rows}
Queued == Ids(queue)

\* The rows that LoadDueQueue and QueueDueCount select: their delay is over.
Due == Chosen(queue, {r \in ToSet(queue) : r.attempts < MaxAttempts /\ ~r.later})

NoWork == [pc |-> "idle", rest |-> <<>>, batch |-> {}, ref |-> NoRef,
           shown |-> {}, list |-> {}]

Gone == [NoWork EXCEPT !.pc = "gone"]

\* An older daemon may have left rows without a model.
Init ==
  /\ \E old \in SUBSET Candidates, r \in Models \cup {NoRef} :
       /\ Cardinality(old) <= 1
       /\ queue = SetToSeq({[id |-> c, ref |-> r, high |-> FALSE,
                             attempts |-> 0, later |-> FALSE] : c \in old})
       /\ fate = [c \in Candidates |-> IF c \in old THEN "pending" ELSE "new"]
  /\ profile = {} /\ daemon = "down" /\ closed = FALSE /\ signal = FALSE
  /\ telling = 0 /\ worker = Gone /\ stops = 0 /\ faults = 0
  /\ loads = [c \in Candidates |-> 0] /\ removed = {}

\* A failure of the database, a model or its answer, as long as the bound allows.
Fault == faults < MaxFaults /\ faults' = faults + 1

-----------------------------------------------------------------------------
(* The daemon                                                              *)

\* StartBackgroundResources: the worker, and RecoverUnextracted beside it,
\* which only announces rows that wait.
Start ==
  /\ daemon = "down"
  /\ daemon' = "up" /\ closed' = FALSE /\ signal' = FALSE /\ worker' = NoWork
  /\ telling' = IF queue = <<>> THEN 0 ELSE 1
  /\ UNCHANGED <<durable, history, stops, faults>>

\* The daemon's context is cancelled; the worker's is the same.
Stop ==
  /\ daemon = "up" /\ stops < MaxStops
  /\ daemon' = "stopping" /\ stops' = stops + 1
  /\ UNCHANGED <<durable, history, closed, signal, telling, worker, faults>>

\* Agent.Close closes the wake-up channel...
CloseQueue ==
  /\ daemon = "stopping" /\ ~closed
  /\ closed' = TRUE
  /\ UNCHANGED <<durable, history, daemon, signal, telling, worker, stops, faults>>

\* Mutant of WorkerEnded: the store is closed without Wait.
WorkerForgotten == TRUE

\* What Agent.Close waits for.
WorkerEnded == worker.pc = "gone"

\* ... waits for the worker, and closes the database; the process ends.
CloseStore ==
  /\ daemon = "stopping" /\ closed /\ WorkerEnded
  /\ daemon' = "down" /\ telling' = 0 /\ closed' = FALSE /\ signal' = FALSE
  /\ UNCHANGED <<durable, history, worker, stops, faults>>

\* The process dies between any two steps.
Crash ==
  /\ daemon # "down" /\ stops < MaxStops
  /\ daemon' = "down" /\ stops' = stops + 1
  /\ worker' = Gone /\ telling' = 0 /\ closed' = FALSE /\ signal' = FALSE
  /\ UNCHANGED <<durable, history, faults>>

-----------------------------------------------------------------------------
(* Requests and runs                                                       *)

\* Push inserts the row; an INSERT that fails is no step.
Push(c) ==
  /\ daemon # "down" /\ fate[c] = "new"
  /\ \E r \in Models, h \in BOOLEAN :
       queue' = Append(queue, [id |-> c, ref |-> r, high |-> h,
                               attempts |-> 0, later |-> FALSE])
  /\ telling' = telling + 1
  /\ fate' = [fate EXCEPT ![c] = "pending"]
  /\ UNCHANGED <<profile, daemon, closed, signal, worker, stops, faults, loads, removed>>

\* Signal, at the end of Push, of RecoverUnextracted and of Materialize: a
\* place that is taken already is enough.
Signal ==
  /\ daemon # "down" /\ telling > 0
  /\ telling' = telling - 1 /\ signal' = (signal \/ ~closed)
  /\ UNCHANGED <<durable, history, daemon, closed, worker, stops, faults>>

\* Mutant of Materialized: the new default model is given to every row.
MaterializedAll(rows, m) == [i \in DOMAIN rows |-> [rows[i] EXCEPT !.ref = m]]

\* MaterializePendingMemoryQueueModelRef: rows without a model get the default.
Materialized(rows, m) ==
  [i \in DOMAIN rows |-> IF rows[i].ref = NoRef THEN [rows[i] EXCEPT !.ref = m] ELSE rows[i]]

\* A configuration is applied: old rows get its model, which is announced.
Materialize(m) ==
  /\ daemon # "down" /\ \E i \in DOMAIN queue : queue[i].ref = NoRef
  /\ queue' = Materialized(queue, m) /\ telling' = telling + 1
  /\ UNCHANGED <<profile, history, daemon, closed, signal, worker, stops, faults>>

\* MemoryStore.Delete and Clear: neither looks at the queue or the worker.
Forget(some) ==
  /\ daemon # "down" /\ some # {} /\ some \subseteq profile
  /\ profile' = profile \ some
  /\ removed' = IF worker.pc \in {"asking", "answered"} THEN removed ELSE removed \cup some
  /\ UNCHANGED <<queue, daemon, closed, signal, telling, worker, stops, faults, fate, loads>>

\* The delay that RetryQueueItems gave a row is over.
DelayEnds(i) ==
  /\ queue[i].later
  /\ queue' = [queue EXCEPT ![i].later = FALSE]
  /\ UNCHANGED <<profile, history, daemon, closed, signal, telling, worker, stops, faults>>

-----------------------------------------------------------------------------
(* The worker                                                              *)

\* Run's select: the context is done, or the channel closed and drained.
WorkerStops ==
  /\ worker.pc = "idle" /\ (daemon = "stopping" \/ (closed /\ ~signal))
  /\ worker' = Gone
  /\ UNCHANGED <<durable, history, daemon, closed, signal, telling, stops, faults>>

\* processPending: LoadDueQueue, which fails under a cancelled context.
Loaded == IF daemon = "up" THEN Due ELSE <<>>

Process ==
  /\ worker' = [NoWork EXCEPT !.pc = IF Loaded = <<>> THEN "idle" ELSE "next", !.rest = Loaded]
  /\ loads' = [c \in Candidates |-> loads[c] + (IF c \in Ids(Loaded) THEN 1 ELSE 0)]

\* Run's condition for not waiting any longer.
Urgent == Len(Due) >= BatchSize \/ \E i \in DOMAIN Due : Due[i].high

\* Run's select: a wake-up.
WakeUp ==
  /\ worker.pc = "idle" /\ signal
  /\ signal' = FALSE
  /\ IF Urgent THEN Process ELSE UNCHANGED <<worker, loads>>
  /\ UNCHANGED <<durable, daemon, closed, telling, stops, faults, fate, removed>>

\* Mutant of Overdue: a few rows wait for more.
OverdueBatch == Len(Due) >= BatchSize

\* pendingCount, at the end of the longest wait.
Overdue == Due # <<>>

\* Run's select: the timer, after batchTimeout.
TimerFires ==
  /\ worker.pc = "idle" /\ Overdue
  /\ Process
  /\ UNCHANGED <<durable, daemon, closed, signal, telling, stops, faults, fate, removed>>

\* The next group: the rows that have the model of the first one.
Together(rows) == Chosen(rows, {r \in ToSet(rows) : r.ref = rows[1].ref})

\* The rows of the other groups.
Others(rows) == Chosen(rows, ToSet(rows) \ ToSet(Together(rows)))

\* Mutant of Shown: goes on from the list that was committed for the group before.
ShownBefore == IF worker.list = {} THEN profile ELSE worker.list

\* MemoryStore.List.
Shown == profile

\* processModelGroup up to the model request.  A group without a model, with
\* one that cannot be bound, or whose profile cannot be read (as under a
\* cancelled context) is put off.
BeginGroup ==
  /\ worker.pc = "next" /\ worker.rest # <<>>
  /\ LET group == Together(worker.rest)
         begun == [worker EXCEPT !.batch = Ids(group), !.ref = group[1].ref,
                                 !.rest = Others(worker.rest)]
     IN \/ /\ group[1].ref # NoRef /\ daemon = "up"
           /\ worker' = [begun EXCEPT !.pc = "asking", !.shown = Shown]
           /\ UNCHANGED faults
        \/ /\ IF group[1].ref # NoRef /\ daemon = "up" THEN Fault ELSE UNCHANGED faults
           /\ worker' = [begun EXCEPT !.pc = "failed"]
  /\ UNCHANGED <<durable, history, daemon, closed, signal, telling, stops>>

\* compact: the model's new list, of what it was shown, of which replaceAllTx
\* takes no more than MaxActiveMemories.
Answer ==
  /\ worker.pc = "asking"
  /\ \/ /\ daemon = "up"
        /\ \E list \in SUBSET (worker.shown \cup worker.batch) :
             /\ Cardinality(list) <= MaxActive
             /\ worker' = [worker EXCEPT !.pc = "answered", !.shown = {}, !.list = list]
        /\ UNCHANGED faults
     \/ /\ IF daemon = "up" THEN Fault ELSE UNCHANGED faults
        /\ worker' = [worker EXCEPT !.pc = "failed"]
  /\ UNCHANGED <<durable, history, daemon, closed, signal, telling, stops>>

NextGroup == [worker EXCEPT !.pc = "next", !.batch = {}, !.ref = NoRef, !.shown = {}]

\* Mutant of Without: the rows stay for another time.
WithoutNone(rows, some) == rows

\* DELETE FROM memory_queue for a batch.
Without(rows, some) == Chosen(rows, {r \in ToSet(rows) : r.id \notin some})

\* CommitQueueCompaction: one transaction, rolled back if a row is missing or
\* the context is cancelled.
Commit ==
  /\ worker.pc = "answered"
  /\ \/ /\ daemon = "up" /\ worker.batch \subseteq Queued
        /\ profile' = worker.list /\ queue' = Without(queue, worker.batch)
        /\ fate' = [c \in Candidates |-> IF c \in worker.batch THEN "merged" ELSE fate[c]]
        /\ worker' = NextGroup
        /\ UNCHANGED faults
     \/ /\ IF daemon = "up" /\ worker.batch \subseteq Queued THEN Fault ELSE UNCHANGED faults
        /\ worker' = [worker EXCEPT !.pc = "failed"]
        /\ UNCHANGED <<durable, fate>>
  /\ UNCHANGED <<daemon, closed, signal, telling, stops, loads, removed>>

\* Mutant of Exhausted: one attempt too few.
ExhaustedEarly(row) == row.attempts + 2 >= MaxAttempts

\* The failure that a row does not survive.
Exhausted(row) == row.attempts + 1 >= MaxAttempts

\* RetryQueueItems: one transaction, under a context of its own, so that it
\* goes through while the daemon stops.
Retry ==
  /\ worker.pc = "failed"
  /\ worker' = NextGroup
  /\ \/ LET given == {r.id : r \in {r \in ToSet(queue) : r.id \in worker.batch /\ Exhausted(r)}}
            kept == Without(queue, given)
        IN /\ queue' = [i \in DOMAIN kept |->
                          IF kept[i].id \in worker.batch
                            THEN [kept[i] EXCEPT !.attempts = @ + 1, !.later = TRUE]
                            ELSE kept[i]]
           /\ fate' = [c \in Candidates |-> IF c \in given THEN "dropped" ELSE fate[c]]
           /\ UNCHANGED faults
     \/ Fault /\ UNCHANGED <<queue, fate>>
  /\ UNCHANGED <<profile, daemon, closed, signal, telling, stops, loads, removed>>

\* processModelGroups is done: the timer is reset, Run waits again.
Rest ==
  /\ worker.pc = "next" /\ worker.rest = <<>>
  /\ worker' = NoWork
  /\ UNCHANGED <<durable, history, daemon, closed, signal, telling, stops, faults>>

-----------------------------------------------------------------------------
WorkerNext ==
  \/ WorkerStops \/ WakeUp \/ TimerFires
  \/ BeginGroup \/ Answer \/ Commit \/ Retry \/ Rest

Next ==
  \/ Start \/ Stop \/ CloseQueue \/ CloseStore \/ Crash \/ Signal \/ WorkerNext
  \/ \E c \in Candidates : Push(c)
  \/ \E m \in Models : Materialize(m)
  \/ \E some \in SUBSET profile : Forget(some)
  \/ \E i \in DOMAIN queue : DelayEnds(i)

Spec == Init /\ [][Next]_vars

\* The goroutines go on, a model's answer comes or times out, a delay ends.
\* Nobody is assumed to start the daemon, to stop it, or to speak to it.
Fairness ==
  /\ WF_vars(Signal) /\ WF_vars(WorkerNext) /\ WF_vars(CloseQueue) /\ WF_vars(CloseStore)
  /\ WF_vars(\E i \in DOMAIN queue : DelayEnds(i))

FairSpec == Spec /\ Fairness

-----------------------------------------------------------------------------
(* Properties                                                              *)

\* A candidate is in the table, once, exactly as long as it is neither merged
\* nor given up (CommitQueueCompaction, RetryQueueItems): a crash leaves no
\* merged candidate behind to be merged again, and no lost one.
NothingLost ==
  /\ Queued = {c \in Candidates : fate[c] = "pending"}
  /\ IsInjective([i \in DOMAIN queue |-> queue[i].id])

\* The worker asks the model that each of the rows carries by now, also when a
\* configuration gives models to old rows meanwhile (processPending groups by
\* model_ref), and what it asks about is still in the table.
AskedByOwnModel ==
  worker.pc \in {"asking", "answered"} =>
    \A c \in worker.batch : \E i \in DOMAIN queue :
      queue[i].id = c /\ queue[i].ref = worker.ref

\* The database is closed, and the process ends, after the worker has ended
\* (Agent.Close): no transaction is cut off by an orderly stop.
WorkerHasStore == worker.pc # "gone" => daemon # "down"

\* All three: the table, and the worker's view of it.
TableIsKept == NothingLost /\ AskedByOwnModel /\ WorkerHasStore

\* A memory that the user deletes while no model request is open does not come
\* back: the profile that a later group merges into is read anew.
RemovedStays == removed \cap profile = {}

\* What a candidate may rely on (CandidateFate): one merge or enough attempts.
Promise == INSTANCE CandidateFate WITH tries <- loads
KeepsItsPromise == Promise!Spec

\* The user's documentation: what was not processed when the daemon exits stays
\* in the database and is processed after the next start.
PendingSurvivesStop == [][daemon = "stopping" => Queued \subseteq Queued']_vars

\* As long as the daemon is not stopped, every candidate is merged or given up:
\* a few that never fill a batch, and those whose delay ended without a wake-up.
CandidateSettles ==
  \A c \in Candidates : fate[c] = "pending" /\ daemon = "up" ~> fate[c] # "pending" \/ daemon # "up"

=============================================================================
