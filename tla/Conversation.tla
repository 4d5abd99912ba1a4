---------------------------- MODULE Conversation ----------------------------
(***************************************************************************)
(* The conversation of one session: the working memory that a run's rounds *)
(* append to and a compaction folds into the session state                 *)
(* (internal/runner/runner.go, compression.go, internal/memory/compress.go,*)
(* working.go), the row that both are saved in (internal/agent/memory.go,  *)
(* internal/memory/conversation.go), and the tool calls of a round, each   *)
(* reviewed on its own (internal/agent/tools.go, internal/guard/guard.go). *)
(*                                                                         *)
(* A message is its number in the conversation, with the attributes that   *)
(* decide what becomes of it.  The session state is the set of the         *)
(* messages that have been folded into it.                                 *)
(***************************************************************************)
EXTENDS Naturals, Selections

CONSTANTS
  UniqueIds,    \* the provider names every tool call; else it is named by its place
  MaxMessages,  \* bound: messages of the conversation
  MaxMail,      \* bound: steering messages queued at a time
  MaxRequests,  \* bound: physical requests for one answer
  MaxRestarts   \* bound: times the daemon's process ends

ASSUME ConversationAssumption ==
  /\ UniqueIds \in BOOLEAN
  /\ MaxMessages \in Nat /\ MaxMail \in Nat /\ MaxRequests \in Nat /\ MaxRestarts \in Nat

VARIABLES
  working,   \* WorkingMemory.messages
  state,     \* Agent.sessionState
  fresh,     \* Request.SessionState: what the run's next request says
  disk,      \* the session_state row
  pc,        \* where the goroutine that holds runMu is; "idle" when none does
  mode,      \* "run", "resume" or "compact"
  cancelled, \* its context is cancelled
  mail,      \* steering messages queued
  sealed,    \* the mailbox takes no more of them
  attempt,   \* the physical request of this round
  shown,     \* requests of this round whose output the client has seen
  call,      \* the tool calls of the round
  told,      \* how many messages the conversation has had
  said,      \* those with a text, as far as a restart has left them
  saved,     \* the last save at an end went well
  restarts   \* restarts so far

memory == <<working, state, fresh>>
round == <<attempt, shown, call>>
conversationVars ==
  <<memory, disk, pc, mode, cancelled, mail, sealed, round, told, said, saved, restarts>>

-----------------------------------------------------------------------------
(* Messages.                                                               *)

Nums(s) == {s[i].n : i \in DOMAIN s}

User(n, text, image) ==
  [n |-> n, role |-> "user", text |-> text, image |-> image, calls |-> <<>>, of |-> <<>>]

CallId(n, i) == IF UniqueIds THEN <<n, i>> ELSE <<0, i>>

Assistant(n, text, k) ==
  [n |-> n, role |-> "assistant", text |-> text, image |-> FALSE,
   calls |-> [i \in 1 .. k |-> CallId(n, i)], of |-> <<>>]

ToolResult(n, id) ==
  [n |-> n, role |-> "tool", text |-> TRUE, image |-> FALSE, calls |-> <<>>, of |-> id]

\* The messages queued, as they are appended after n messages.
Steered(n) == [i \in 1 .. mail |-> User(n + i, TRUE, FALSE)]

\* Mutant of VisibleMessages: a message with an image is left out with its text.
VisibleMessagesPlain(s) ==
  LET plain(m) == [m EXCEPT !.calls = <<>>]
      texts == Chosen(s, {m \in ToSet(s) : m.role # "tool" /\ m.text /\ ~m.image})
  IN [i \in DOMAIN texts |-> plain(texts[i])]

\* What is saved: the texts of the user and the assistant.
VisibleMessages(s) ==
  LET plain(m) == [m EXCEPT !.image = FALSE, !.calls = <<>>]
      texts == Chosen(s, {m \in ToSet(s) : m.role # "tool" /\ m.text})
  IN [i \in DOMAIN texts |-> plain(texts[i])]

\* Images become texts that name where they came from.
Summarized(s) ==
  [i \in DOMAIN s |-> IF s[i].image THEN [s[i] EXCEPT !.text = TRUE, !.image = FALSE] ELSE s[i]]

-----------------------------------------------------------------------------
(* Choosing what a compaction folds.                                       *)

\* Messages before start that made a call whose result is kept without it.
Parents(s, start) ==
  LET kept == UNION {ToSet(s[i].calls) : i \in start + 1 .. Len(s)}
      orphans == {s[i].of : i \in {j \in start + 1 .. Len(s) : s[j].role = "tool"}} \ kept
      makers(id) == {i \in 1 .. start : id \in ToSet(s[i].calls)}
  IN {CHOOSE i \in makers(id) : \A j \in makers(id) : j <= i :
        id \in {o \in orphans : makers(o) # {}}}

\* Mutant of ExpandRecentStart: the window is cut where the budget ends.
ExpandRecentStartNever(s, start) == start

\* The last place no later than start that leaves no result without its call.
ExpandRecentStart(s, start) ==
  LET expand[k \in 0 .. Len(s)] ==
        IF k \in {0, Len(s)} \/ Parents(s, k) = {} THEN k
        ELSE expand[(CHOOSE i \in Parents(s, k) : \A j \in Parents(s, k) : i <= j) - 1]
  IN expand[start]

\* Where the kept messages may begin; the token budget decides how many they are.
KeepStarts(s, previous) ==
  IF Len(s) = 1 THEN IF previous = {} THEN {0} ELSE {1}
  ELSE {ExpandRecentStart(s, k) : k \in 1 .. Len(s) - 1}

\* There is something for the compressor's prompt: an earlier state, a text or a
\* call among the first k messages.
HasInput(s, previous, k) ==
  previous # {} \/ \E i \in 1 .. k : s[i].text \/ s[i].calls # <<>>

-----------------------------------------------------------------------------

ConversationInit ==
  /\ working = <<>> /\ state = {} /\ fresh = {} /\ disk = [state |-> {}, msgs |-> <<>>]
  /\ pc = "idle" /\ mode = "run" /\ cancelled = FALSE /\ mail = 0 /\ sealed = TRUE
  /\ attempt = 0 /\ shown = {} /\ call = <<>>
  /\ told = 0 /\ said = {} /\ saved = TRUE /\ restarts = 0

Room(n) == told + mail + n <= MaxMessages

Begin(m) ==
  /\ pc = "idle"
  /\ mode' = m /\ cancelled' = FALSE /\ fresh' = state
  /\ sealed' = (m = "compact")
  /\ UNCHANGED <<state, disk, mail, round, saved, restarts>>

\* Run adds the user's message, with or without a text and an image, and then
\* binds the model, which may fail.
Run ==
  /\ Begin("run") /\ Room(1)
  /\ \E text, image \in BOOLEAN :
       /\ text \/ image
       /\ working' = Append(working, User(told + 1, text, image))
       /\ said' = IF text THEN said \cup {told + 1} ELSE said
  /\ told' = told + 1 /\ pc' \in {"top", "end"}

CanResume == working # <<>> /\ Last(working).role \in {"user", "tool"}

ResumeRun ==
  /\ Begin("resume")
  /\ pc' \in IF CanResume THEN {"top", "end"} ELSE {"end"}
  /\ UNCHANGED <<working, told, said>>

\* Agent.Compact, which a client asks for.
CompactNow ==
  /\ Begin("compact") /\ pc' = "compress"
  /\ UNCHANGED <<working, told, said>>

Go(p) == pc' = p

\* Runner.applySteering: the queued messages are appended, in order.
ApplySteering(seal, s, n) ==
  /\ working' = s \o Steered(n)
  /\ told' = n + mail
  /\ mail' = 0
  /\ sealed' = (sealed \/ (seal /\ mail = 0))

\* The messages of one such step; those with a text will be looked for.
Hear(s) == said' = said \cup {m.n : m \in {x \in ToSet(s) : x.text /\ x.role # "tool"}}

SessionStays == UNCHANGED <<state, disk, mode, cancelled, saved, restarts>>

\* The top of the loop: the context, then the messages that have come, and
\* whether what is to be sent is too long.
Top ==
  /\ pc = "top"
  /\ IF cancelled
     THEN Go("end") /\ UNCHANGED <<working, mail, sealed, told, said>>
     ELSE /\ pc' \in {"compress", "steer"}
          /\ ApplySteering(FALSE, working, told) /\ Hear(Steered(told))
  /\ SessionStays /\ UNCHANGED <<fresh, round>>

\* The compressor answers: the folded part leaves the working memory.  An answer
\* that a cancellation cuts off may count as one.
Compress ==
  /\ pc = "compress" /\ ~(mode = "compact" /\ Len(working) <= 1)
  /\ \E k \in 0 .. Len(working) :
       /\ k \in KeepStarts(working, fresh) /\ HasInput(working, fresh, k)
       /\ working' = SubSeq(working, k + 1, Len(working))
       /\ fresh' = fresh \cup Nums(SubSeq(working, 1, k))
  /\ Go("commit")
  /\ SessionStays /\ UNCHANGED <<mail, sealed, round, told, said>>

\* There is nothing to fold.
CompressNothing ==
  /\ pc = "compress"
  /\ \/ mode = "compact" /\ Len(working) <= 1
     \/ working = <<>>
     \/ \E k \in KeepStarts(working, fresh) : ~HasInput(working, fresh, k)
  /\ Go("commit")
  /\ SessionStays /\ UNCHANGED <<memory, mail, sealed, round, told, said>>

\* The compressor's request fails, or answers with nothing.
CompressFails ==
  /\ pc = "compress"
  /\ Go(IF mode = "compact" THEN "idle" ELSE "end")
  /\ SessionStays /\ UNCHANGED <<memory, mail, sealed, round, told, said>>

RowOf(st, s) == [state |-> st, msgs |-> VisibleMessages(s)]

\* Mutant of CommitState: only the row is given the new state.
CommitRowOnly ==
  /\ pc = "commit"
  /\ UNCHANGED state
  /\ disk' = RowOf(fresh, working) /\ UNCHANGED saved
  /\ Go(IF mode = "compact" THEN "idle" ELSE "recheck")
  /\ UNCHANGED <<working, fresh, mode, cancelled, mail, sealed, round, told, said, restarts>>

\* commitCompactState: the state and the window that goes with it, in one row; it
\* also fails when only the number of messages could not be written.
CommitState ==
  /\ pc = "commit"
  /\ state' = fresh
  /\ \/ /\ disk' = IF fresh = {} /\ mode # "compact" THEN disk ELSE RowOf(fresh, working)
        /\ IF mode = "compact"
           THEN Go("idle") /\ saved' = TRUE
           ELSE Go("recheck") /\ UNCHANGED saved
     \/ /\ fresh # {} \/ mode = "compact"
        /\ Go(IF mode = "compact" THEN "idle" ELSE "end")
        /\ saved' = IF mode = "compact" THEN FALSE ELSE saved
        /\ disk' \in {disk, RowOf(fresh, working)}
  /\ UNCHANGED <<working, fresh, mode, cancelled, mail, sealed, round, told, said, restarts>>

\* Still too long: the run gives up.
Recheck ==
  /\ pc = "recheck" /\ pc' \in {"steer", "end"}
  /\ SessionStays /\ UNCHANGED <<memory, mail, sealed, round, told, said>>

\* What came during the compaction; with it the request may be too long again.
Steer ==
  /\ pc = "steer"
  /\ ApplySteering(FALSE, working, told) /\ Hear(Steered(told))
  /\ pc' \in IF mail > 0 THEN {"top", "request"} ELSE {"request"}
  /\ attempt' = 1 /\ shown' = {} /\ UNCHANGED call
  /\ SessionStays /\ UNCHANGED fresh

-----------------------------------------------------------------------------
(* One round: completeWithRecovery and readStream.                         *)

Leave == attempt' = 0 /\ shown' = {}

RestStays == UNCHANGED <<memory, disk, mode, cancelled, saved, restarts, mail, sealed, told, said>>

\* binding.Complete: the request is accepted, or it fails.
Request ==
  /\ pc = "request"
  /\ \/ Go("stream") /\ UNCHANGED round
     \/ Go("end") /\ Leave /\ UNCHANGED call
     \/ ~cancelled /\ attempt < MaxRequests /\ Go("backoff") /\ UNCHANGED round
  /\ RestStays

\* A chunk with reasoning, text or calls.
Chunk ==
  /\ pc = "stream" /\ ~cancelled /\ attempt \notin shown
  /\ shown' = shown \cup {attempt}
  /\ RestStays /\ UNCHANGED <<pc, attempt, call>>

\* An error, an idle timeout or the cancellation ends the stream.
StreamFails ==
  /\ pc = "stream"
  /\ \/ Go("end") /\ Leave /\ UNCHANGED call
     \/ /\ attempt \notin shown /\ ~cancelled /\ attempt < MaxRequests
        /\ Go("backoff") /\ UNCHANGED round
  /\ RestStays

\* The delay is over; or the budget is, or the run is cancelled.
Backoff ==
  /\ pc = "backoff"
  /\ \/ Go("end") /\ Leave
     \/ ~cancelled /\ Go("request") /\ attempt' = attempt + 1 /\ UNCHANGED shown
  /\ RestStays /\ UNCHANGED call

\* The stream ends; what was shown of it is complete.
ModelAnswers(text, k) ==
  /\ pc = "stream" /\ (text \/ k > 0 => attempt \in shown)
  /\ Leave /\ UNCHANGED <<state, fresh, disk, mode, cancelled, saved, restarts>>

\* Without calls it is the last, unless messages are waiting.
FinalAnswer ==
  \E text \in BOOLEAN :
    /\ ModelAnswers(text, 0) /\ (text => Room(1))
    /\ LET s == IF text THEN <<Assistant(told + 1, TRUE, 0)>> ELSE <<>>
           n == told + Len(s)
       IN ApplySteering(TRUE, working \o s, n) /\ Hear(s \o Steered(n))
    /\ Go(IF mail > 0 THEN "top" ELSE "end")
    /\ UNCHANGED call

\* With calls, they are all started.
CallingAnswer ==
  \E text \in BOOLEAN, k \in 1 .. 2 :
    /\ ModelAnswers(text, k) /\ Room(k + 1)
    /\ LET s == <<Assistant(told + 1, text, k)>> IN working' = working \o s /\ Hear(s)
    /\ told' = told + 1
    /\ call' = [i \in 1 .. k |-> [at |-> "check", verdict |-> "none", image |-> FALSE]]
    /\ Go("tools") /\ UNCHANGED <<mail, sealed>>

-----------------------------------------------------------------------------
(* The calls of a round, each in its own goroutine: mainExecutor and       *)
(* subtaskExecutor.                                                        *)

Put(i, at, verdict) == call' = [call EXCEPT ![i].at = at, ![i].verdict = verdict]
Step(i, at) ==
  /\ pc = "tools" /\ i \in DOMAIN call /\ call[i].at = at
  /\ RestStays /\ UNCHANGED <<pc, attempt, shown>>

\* The guard's rules or its reviewer decide, or it asks the user; a call that
\* needs no guard counts as approved.
Check(i) ==
  /\ Step(i, "check")
  /\ \/ ~cancelled /\ Put(i, "decided", "approve")
     \/ Put(i, "decided", "reject")
     \/ ~cancelled /\ Put(i, "asking", "confirm")

\* The user answers the call's own channel; or the context is cancelled.
Confirm(i) ==
  /\ Step(i, "asking")
  /\ \E verdict \in {"approve", "reject"} : Put(i, "decided", verdict)

ConfirmCancelled(i) == cancelled /\ Step(i, "asking") /\ Put(i, "decided", "reject")

\* What was decided holds, unless the run was cancelled since.
Execute(i) ==
  /\ Step(i, "decided")
  /\ Put(i, IF cancelled \/ call[i].verdict # "approve" THEN "done" ELSE "running", call[i].verdict)

Executed(i) ==
  /\ Step(i, "running")
  /\ \E image \in IF Room(Len(call) + 1) THEN BOOLEAN ELSE {FALSE} :
       call' = [call EXCEPT ![i].at = "done", ![i].image = image]

\* All calls are answered: their results in the order of the calls, the images
\* in one more message, then the queued messages.
Results ==
  /\ pc = "tools" /\ \A i \in DOMAIN call : call[i].at = "done"
  /\ LET ids == Last(working).calls
         results == [i \in DOMAIN call |-> ToolResult(told + i, ids[i])]
         images == IF \E i \in DOMAIN call : call[i].image
                   THEN <<User(told + Len(call) + 1, FALSE, TRUE)>> ELSE <<>>
         s == results \o images
         n == told + Len(s)
     IN ApplySteering(FALSE, working \o s, n) /\ Hear(s \o Steered(n))
  /\ call' = <<>> /\ Go("top")
  /\ SessionStays /\ UNCHANGED <<fresh, attempt, shown>>

-----------------------------------------------------------------------------

\* What Run and ResumeRun have deferred: the images leave, the rest is saved.
End ==
  /\ pc = "end"
  /\ working' = IF mode = "run" THEN Summarized(working) ELSE working
  /\ \/ disk' = RowOf(state, working') /\ saved' = TRUE
     \/ UNCHANGED disk /\ saved' = FALSE
  /\ mail' = 0 /\ sealed' = TRUE /\ Go("idle")
  /\ mode' = "run" /\ cancelled' = FALSE
  /\ UNCHANGED <<state, fresh, round, told, said, restarts>>

Cancel ==
  /\ pc # "idle" /\ ~cancelled /\ cancelled' = TRUE
  /\ UNCHANGED <<memory, disk, pc, mode, mail, sealed, round, told, said, saved, restarts>>

\* The owner sends a message while the run executes and nothing is asked.
Enqueue ==
  /\ pc # "idle" /\ ~sealed /\ mail < MaxMail
  /\ \A i \in DOMAIN call : call[i].at # "asking"
  /\ Room(1 + IF pc = "tools" THEN Len(call) + 1 ELSE 0)
  /\ mail' = mail + 1
  /\ UNCHANGED <<memory, disk, pc, mode, cancelled, sealed, round, told, said, saved, restarts>>

\* The process ends at any moment; the next one loads the row.
Restart ==
  /\ restarts < MaxRestarts /\ restarts' = restarts + 1
  /\ working' = disk.msgs /\ state' = disk.state /\ fresh' = disk.state
  /\ said' = said \cap (disk.state \cup Nums(disk.msgs))
  /\ pc' = "idle" /\ mode' = "run" /\ mail' = 0 /\ sealed' = TRUE /\ cancelled' = FALSE
  /\ Leave /\ call' = <<>> /\ saved' = TRUE
  /\ UNCHANGED <<disk, told>>

Rounds == Top \/ Compress \/ CompressNothing \/ CompressFails \/ CommitState \/ Recheck \/ Steer
          \/ Request \/ Chunk \/ StreamFails \/ Backoff \/ FinalAnswer \/ CallingAnswer
          \/ Results \/ End

Calls == \E i \in DOMAIN call :
           Check(i) \/ Confirm(i) \/ ConfirmCancelled(i) \/ Execute(i) \/ Executed(i)

ConversationNext ==
  Run \/ ResumeRun \/ CompactNow \/ Rounds \/ Calls \/ Cancel \/ Enqueue \/ Restart

ConversationSpec == ConversationInit /\ [][ConversationNext]_conversationVars

-----------------------------------------------------------------------------

\* Every request that a model streams its answer to keeps each result behind the
\* call it answers, and each call before all of its results: a provider refuses
\* anything else, and goes on refusing it when the run is resumed
\* (expandRecentStartForToolCalls, executeToolCalls).
RequestIsPaired ==
  pc = "stream" =>
    /\ \A j \in DOMAIN working : working[j].role = "tool" =>
         \E i \in 1 .. j - 1 : /\ working[j].of \in ToSet(working[i].calls)
                               /\ \A m \in i + 1 .. j : working[m].role = "tool"
    /\ \A i \in DOMAIN working : \A x \in DOMAIN working[i].calls :
         i + x <= Len(working) /\ working[i + x].of = working[i].calls[x]

\* The model is told everything that was said, once: in the session state or in
\* the window, through compactions that fail, are cancelled or cannot be saved.
Current == IF pc = "idle" THEN state ELSE fresh
NothingForgotten ==
  /\ said \subseteq Current \cup Nums(working)
  /\ Current \cap Nums(working) = {}

\* At any moment at which the process may end, the row has no hole: what has left
\* the saved window is in the saved state (types.go OnCompactCommit); and once a
\* run has ended and could be saved, the row has everything.
RowHasNoHole ==
  LET kept == disk.state \cup Nums(disk.msgs)
  IN /\ \A n \in said : (\E k \in kept : n <= k) => n \in kept
     /\ disk.state \cap Nums(disk.msgs) = {}
     /\ pc = "idle" /\ saved => said \subseteq kept

\* One round shows the client the output of one request: a request whose output
\* it has seen is not repeated, whatever goes wrong later.
OneAnswerShown == \A a, b \in shown : a = b

\* The comments have images take part in the run that brought them only.
MediaOnlyInItsRun == pc = "idle" => \A i \in DOMAIN working : ~working[i].image

\* The comment has at least the newest message kept by a compaction.
NewestIsKept == pc = "stream" => working # <<>>

=============================================================================
