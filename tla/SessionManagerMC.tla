-------------------------- MODULE SessionManagerMC --------------------------
\* Model values and symmetry for the model checking of SessionManager.
EXTENDS SessionManager, TLC

\* Connections and sessions are interchangeable: no definition names one.
Symmetry == Permutations(Conns) \cup Permutations(Sessions)

=============================================================================
