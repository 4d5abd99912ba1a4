----------------------------- MODULE ExecJobsMC -----------------------------
\* A run with a subtask, and who starts which job, for the model checking of
\* ExecJobs.
EXTENDS ExecJobs

CONSTANT s1

Main == [session |-> s1, run |-> 1, main |-> TRUE]
Subtask == [session |-> s1, run |-> 1, main |-> FALSE]

OneRun == {Main, Subtask}

\* A job of the session, one of the subtask and one of the run.
ThreeOwners == <<Main, Subtask, Main>>
ThreeScopes == <<"session", "run", "run">>

=============================================================================
