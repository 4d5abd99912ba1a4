---------------------------- MODULE CandidateFate ----------------------------
(***************************************************************************)
(* What the daemon promises about a memory candidate, whatever stops or    *)
(* crashes in between: once accepted it is pending until it was merged     *)
(* into the profile, once, or was given up, and it is not given up before  *)
(* it had its attempts.                                                    *)
(***************************************************************************)
EXTENDS Naturals

CONSTANTS
  Candidates,
  MaxAttempts

VARIABLES
  fate,    \* what became of each candidate
  tries    \* the attempts it had

vars == <<fate, tries>>

Fates == {"new", "pending", "merged", "dropped"}

Init ==
  /\ fate \in [Candidates -> {"new", "pending"}]
  /\ tries = [c \in Candidates |-> 0]

Pending(some) == \A c \in some : fate[c] = "pending"

Become(some, f) == fate' = [c \in Candidates |-> IF c \in some THEN f ELSE fate[c]]

Accept(c) ==
  /\ fate[c] = "new" /\ Become({c}, "pending")
  /\ UNCHANGED tries

Try(some) ==
  /\ Pending(some)
  /\ tries' = [c \in Candidates |-> tries[c] + (IF c \in some THEN 1 ELSE 0)]
  /\ UNCHANGED fate

Merge(some) ==
  /\ Pending(some) /\ \A c \in some : tries[c] > 0
  /\ Become(some, "merged")
  /\ UNCHANGED tries

GiveUp(some) ==
  /\ Pending(some) /\ \A c \in some : tries[c] >= MaxAttempts
  /\ Become(some, "dropped")
  /\ UNCHANGED tries

Next ==
  \/ \E c \in Candidates : Accept(c)
  \/ \E some \in SUBSET Candidates : Try(some) \/ Merge(some) \/ GiveUp(some)

Spec == Init /\ [][Next]_vars

=============================================================================
