-------------------------- MODULE MCParallelQuery --------------------------
(* ParallelQuery with the application's setting (pdnsd.xml: TCP only, and a *)
(* trusted server by default) and the methods that change over half-way.    *)
EXTENDS ParallelQuery

SomeSettings ==
  { [qm |-> "TCP_ONLY", trusted |-> TRUE, edns |-> FALSE],
    [qm |-> "TCP_UDP", trusted |-> FALSE, edns |-> FALSE],
    [qm |-> "UDP_TCP", trusted |-> FALSE, edns |-> FALSE] }
=============================================================================
