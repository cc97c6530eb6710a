---------------------------- MODULE MCTcpServer ----------------------------
(* TcpServer for TLC: model values for the coroutines and connections.     *)
EXTENDS TcpServer, TLC

\* Tasks, listeners and connections are interchangeable; used by runs that
\* check no liveness property.
Symmetry ==
    Permutations(Tasks) \cup Permutations(Listeners) \cup Permutations(Conns)

=============================================================================
