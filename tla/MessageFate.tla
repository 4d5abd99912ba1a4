----------------------------- MODULE MessageFate -----------------------------
(***************************************************************************)
(* What the daemon promises about the messages that a client sends to a    *)
(* run while it executes (agent.steer): an accepted message is undecided   *)
(* until it is applied, withdrawn or rejected, once and for ever; messages *)
(* are applied in the order in which they were accepted; a run that is     *)
(* over has decided every message and accepts no other.                    *)
(***************************************************************************)
EXTENDS Naturals, Sequences, FiniteSets

CONSTANTS
  Runs,    \* runs of one session
  Msgs     \* messages, by the client_msg_id that identifies them in a run

VARIABLES
  fate,    \* fate[r][m]: what became of message m in run r
  number,  \* number[r][m]: its place in the order of acceptance
  context, \* context[r]: the messages the run's working memory received, in order
  over     \* runs that accept nothing any more

vars == <<fate, number, context, over>>

Fates == {"none", "queued", "applied", "removed", "rejected"}

Queued(r) == {m \in Msgs : fate[r][m] = "queued"}

\* The queued messages of run r in the order of their acceptance.
InOrder(r) ==
  {q \in [1 .. Cardinality(Queued(r)) -> Queued(r)] :
     \A i, j \in DOMAIN q : i < j => number[r][q[i]] < number[r][q[j]]}

\* Every queued message of run r becomes f.
Decide(r, f) ==
  fate' = [fate EXCEPT ![r] = [m \in Msgs |-> IF fate[r][m] = "queued" THEN f ELSE fate[r][m]]]

Init ==
  /\ fate = [r \in Runs |-> [m \in Msgs |-> "none"]]
  /\ number = [r \in Runs |-> [m \in Msgs |-> 0]]
  /\ context = [r \in Runs |-> <<>>]
  /\ over = {}

Accept(r, m) ==
  /\ r \notin over /\ fate[r][m] = "none"
  /\ fate' = [fate EXCEPT ![r][m] = "queued"]
  /\ number' = [number EXCEPT ![r][m] = number'[r][m]]
  /\ \A k \in Msgs : fate[r][k] # "none" => number[r][k] < number'[r][m]
  /\ UNCHANGED <<context, over>>

Withdraw(r, m) ==
  /\ r \notin over /\ fate[r][m] = "queued"
  /\ fate' = [fate EXCEPT ![r][m] = "removed"]
  /\ UNCHANGED <<number, context, over>>

Apply(r) ==
  /\ r \notin over /\ Queued(r) # {}
  /\ \E q \in InOrder(r) : context' = [context EXCEPT ![r] = @ \o q]
  /\ Decide(r, "applied")
  /\ UNCHANGED <<number, over>>

End(r) ==
  /\ Decide(r, "rejected")
  /\ over' = over \cup {r}
  /\ UNCHANGED <<number, context>>

Next ==
  \E r \in Runs :
    \/ \E m \in Msgs : Accept(r, m) \/ Withdraw(r, m)
    \/ Apply(r) \/ End(r)

Spec == Init /\ [][Next]_vars

=============================================================================
