----------------------------- MODULE Selections -----------------------------
(***************************************************************************)
(* What a query or a filtering loop takes from a sequence, in its order    *)
(* (internal/memory/queue.go, worker.go, conversation.go).                 *)
(***************************************************************************)
EXTENDS Naturals, SequencesExt

\* The members of s that are among some, in their order.
Chosen(s, some) ==
  LET upto[n \in 0 .. Len(s)] ==
        IF n = 0 THEN <<>>
        ELSE IF s[n] \in some THEN Append(upto[n - 1], s[n]) ELSE upto[n - 1]
  IN upto[Len(s)]

=============================================================================
