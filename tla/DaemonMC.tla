------------------------------- MODULE DaemonMC -------------------------------
EXTENDS Daemon

\* Both real transports declare idle_exit; the others are what a transport may
\* declare.
MCPolicies == {{"idle_exit"}, {"idle_exit", "persistent"}, {"client_bound"}}
=============================================================================
