----------------------------- MODULE ByteRelay -----------------------------
(***************************************************************************)
(* What tun2socks promises for one TCP connection: a pipe of bounded        *)
(* capacity in each direction between the application and SOCKS, and a      *)
(* half-closed connection that lasts exactly as long as the side still open *)
(* has bytes to be given.                                                   *)
(***************************************************************************)
EXTENDS Naturals

CONSTANTS ToSocksMax, ToAppMax

VARIABLES app, socks,         \* which side is open
          toSocks, toApp,     \* bytes accepted from one side, not given to the other
          running             \* the process has not been told to end

relay == <<app, socks, toSocks, toApp, running>>

Init == running = TRUE /\ ~app /\ ~socks /\ toSocks = 0 /\ toApp = 0

Open ==
  /\ ~app /\ ~socks
  /\ app' /\ socks' /\ toSocks' = 0 /\ toApp' = 0

(* Bytes are accepted only while both sides are open.                       *)
AppBytes ==
  /\ app /\ socks
  /\ toSocks' \in toSocks + 1 .. ToSocksMax
  /\ UNCHANGED <<app, socks, toApp>>

SocksBytes ==
  /\ app /\ socks
  /\ toApp' \in toApp + 1 .. ToAppMax
  /\ UNCHANGED <<app, socks, toSocks>>

(* The last byte for a side ends the connection if the other is closed.     *)
SocksTakes ==
  /\ socks /\ toSocks > 0
  /\ toSocks' \in 0 .. toSocks - 1
  /\ socks' = (app \/ toSocks' > 0)
  /\ UNCHANGED <<app, toApp>>

AppTakes ==
  /\ app /\ toApp > 0
  /\ toApp' \in 0 .. toApp - 1
  /\ app' = (socks \/ toApp' > 0)
  /\ UNCHANGED <<socks, toSocks>>

(* A side closes: its bytes are dropped, the other side's are kept.          *)
AppCloses ==
  /\ app /\ ~app'
  /\ toApp' = 0
  /\ UNCHANGED toSocks
  /\ socks' = (socks /\ toSocks > 0)

SocksCloses ==
  /\ socks /\ ~socks'
  /\ toSocks' = 0
  /\ toApp' = (IF app' THEN toApp ELSE 0)
  /\ app' = (app /\ toApp > 0)

(* The process ends, and drops what it has.                                  *)
Kill ==
  /\ running /\ ~running'
  /\ ~app' /\ ~socks' /\ toSocks' = 0 /\ toApp' = 0

Step == \/ Open \/ AppBytes \/ SocksBytes \/ SocksTakes \/ AppTakes
        \/ AppCloses \/ SocksCloses

Next == (Step /\ running /\ running') \/ Kill

Spec == Init /\ [][Next]_relay
=============================================================================
