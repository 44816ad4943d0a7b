----------------------------- MODULE DnsGateway -----------------------------
(***************************************************************************)
(* The DNS gateway of tun2socks (process_device_dns_packet and             *)
(* connections_tree): a UDP packet to port 53 is sent on to pdnsd under the *)
(* interface's own address, and what pdnsd answers is sent back under the   *)
(* address of the server that was asked, found by the asker's port.         *)
(*                                                                         *)
(* pdnsd is external: it answers its queries in any order, and may never    *)
(* answer one.  `atGw' are the queries it has; a query knows the server it  *)
(* was meant for, the packet pdnsd answers it with does not.  `lost' and    *)
(* `asked' are history: answers that will not come, and the servers asked   *)
(* since the port last had neither a query at pdnsd nor a lost answer.      *)
(***************************************************************************)
EXTENDS Naturals, FiniteSets

CONSTANTS Ports, Servers,
          Ids            \* tells queries of one port to one server apart

VARIABLES tree,          \* connections_tree: an entry or None for every port
          atGw, treeFreed,
          answered,      \* the last answer written to the device
          stray,         \* an answer that no entry was found for
          lost, asked

gatewayVars == <<tree, atGw, treeFreed, answered, stray, lost, asked>>

Query == [port : Ports, server : Servers, id : Ids]

(* A Connection; a count of 0 stands for a port without one.                 *)
Entry == [remote_addr : Servers, count : Nat]
NoAnswer == [port |-> 0, meant |-> 0, from |-> 0]

GatewayTypeOK ==
  /\ tree \in [Ports -> Entry]
  /\ atGw \subseteq Query /\ IsFiniteSet(atGw)
  /\ treeFreed \in BOOLEAN /\ stray \in BOOLEAN
  /\ lost \in [Ports -> Nat]
  /\ asked \in [Ports -> SUBSET Servers]

find_connection(p) == tree[p].count > 0

(* Mutant of insert_connection: the count of an entry in use is not raised.   *)
Mut_insert_no_count(p, s) ==
  tree' = [tree EXCEPT ![p] = IF find_connection(p) THEN @
                              ELSE [remote_addr |-> s, count |-> 1]]

(* Mutant of insert_connection: a new entry is not given the server.          *)
Mut_insert_keeps_remote(p, s) == tree' = [tree EXCEPT ![p].count = @ + 1]

(* An entry in use keeps the server it was made for.                         *)
insert_connection(p, s) ==
  tree' = [tree EXCEPT ![p] =
             IF find_connection(p)
             THEN [remote_addr |-> tree[p].remote_addr, count |-> tree[p].count + 1]
             ELSE [remote_addr |-> s, count |-> 1]]

remove_connection(p) == tree' = [tree EXCEPT ![p].count = @ - 1]

-----------------------------------------------------------------------------
GatewayInit ==
  /\ tree \in [Ports -> [remote_addr : Servers, count : {0}]]
  /\ atGw = {} /\ treeFreed = FALSE /\ answered = NoAnswer /\ stray = FALSE
  /\ lost = [p \in Ports |-> 0]
  /\ asked = [p \in Ports |-> {}]

Outstanding(p) == {q \in atGw : q.port = p}

(* to_dns: an application's query.                                          *)
ToDns(q) ==
  /\ ~treeFreed
  /\ q \notin atGw
  /\ insert_connection(q.port, q.server)
  /\ atGw' = atGw \cup {q}
  /\ asked' = [asked EXCEPT ![q.port] = IF Outstanding(q.port) = {} /\ lost[q.port] = 0
                                        THEN {q.server} ELSE @ \cup {q.server}]
  /\ UNCHANGED <<treeFreed, answered, stray, lost>>

(* from_dns: pdnsd's answer.  Without an entry the packet goes on to lwIP.   *)
FromDns(q) ==
  /\ ~treeFreed
  /\ q \in atGw
  /\ atGw' = atGw \ {q}
  /\ \/ /\ find_connection(q.port)
        /\ answered' = [port |-> q.port, meant |-> q.server,
                        from |-> tree[q.port].remote_addr]
        /\ remove_connection(q.port)
        /\ UNCHANGED stray
     \/ /\ ~find_connection(q.port)
        /\ stray' = TRUE
        /\ UNCHANGED <<tree, answered>>
  /\ UNCHANGED <<treeFreed, lost, asked>>

(* The query or its answer is dropped, or pdnsd has none.                    *)
Lose(q) ==
  /\ q \in atGw
  /\ atGw' = atGw \ {q}
  /\ lost' = [lost EXCEPT ![q.port] = @ + 1]
  /\ UNCHANGED <<tree, treeFreed, answered, stray, asked>>

(* main, after the reactor has ended.                                        *)
free_connections ==
  /\ ~treeFreed
  /\ treeFreed' = TRUE
  /\ tree' = [p \in Ports |-> [tree[p] EXCEPT !.count = 0]]
  /\ UNCHANGED <<atGw, answered, stray, lost, asked>>

GatewayExited == treeFreed /\ UNCHANGED gatewayVars

GatewayNext == \/ \E q \in Query : ToDns(q) \/ FromDns(q) \/ Lose(q)
               \/ free_connections \/ GatewayExited

GatewaySpec == GatewayInit /\ [][GatewayNext]_gatewayVars

-----------------------------------------------------------------------------
(* The count of a port's entry is what pdnsd still has of the port plus every *)
(* answer that never came: an entry is released at the last answer, and an    *)
(* unanswered query keeps it, with its server, until the process ends.        *)
CountCovers ==
  ~treeFreed => \A p \in Ports : tree[p].count = Cardinality(Outstanding(p)) + lost[p]

(* Every answer of pdnsd finds its entry: none falls through to lwIP.         *)
NoStrayAnswer == ~stray

(* An answer carries the address of a server other than the one its query was *)
(* meant for only if the port asked both without a moment in between at which *)
(* all its queries were answered.  (One lost answer, and there is no such     *)
(* moment for any later user of the port.)                                    *)
AnswerAttributed ==
  [][answered' # answered /\ answered'.from # answered'.meant =>
       {answered'.from, answered'.meant} \subseteq asked[answered'.port]]_gatewayVars

(* Every server that an outstanding query of a port, or its entry, names was   *)
(* asked since the port was last without a query.                             *)
AskedAgrees ==
  ~treeFreed => \A p \in Ports :
    /\ \A q \in Outstanding(p) : q.server \in asked[p]
    /\ tree[p].count > 0 => tree[p].remote_addr \in asked[p]

(* The inductive invariant: the tree counts every query once, so that each     *)
(* answer finds an entry, with a server the port has asked.                    *)
GatewayIInv == GatewayTypeOK /\ CountCovers /\ NoStrayAnswer /\ AskedAgrees
=============================================================================
