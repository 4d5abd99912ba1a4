-------------------------- MODULE RunLifecycleMC --------------------------
\* Symmetry for the model checking of RunLifecycle.
EXTENDS RunLifecycle, TLC

\* Connections are interchangeable: no definition names one.
Symmetry == Permutations(Conns)

=============================================================================
