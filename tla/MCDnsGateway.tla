---------------------------- MODULE MCDnsGateway ----------------------------
(* DnsGateway with a bound on the answers that are lost.                     *)
EXTENDS DnsGateway

CONSTANT MaxLost
ASSUME MaxLostAssumption == MaxLost \in Nat

FewLost == \A p \in Ports : lost[p] <= MaxLost
=============================================================================
