----------------------------- MODULE SteeringMC -----------------------------
\* Symmetry for the model checking of Steering.
EXTENDS Steering

\* Connections, messages and tool calls are interchangeable.
Symmetry == Permutations(Conns) \cup Permutations(Msgs) \cup Permutations(Slots)

=============================================================================
