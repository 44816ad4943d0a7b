------------------------------ MODULE TcpRelay ------------------------------
(***************************************************************************)
(* TcpClient seen from outside: as a relay of bytes (ByteRelay), and as the *)
(* user of a SOCKS session (SocksSession, which SocksClient implements).    *)
(***************************************************************************)
EXTENDS TcpClient

app == ~c.client_closed
socks == ~c.socks_closed
running == ~quitting

(* Bytes of the application in client->buf.                                 *)
toSocks == IF socks THEN c.buf_used ELSE 0

(* Bytes of SOCKS in socks_recv_buf, or queued in lwIP and not acknowledged. *)
toApp == IF app /\ c.socks_up
         THEN c.socks_recv_tcp_pending
              + (IF c.socks_recv_buf_used > 0
                 THEN c.socks_recv_buf_used - c.socks_recv_buf_sent ELSE 0)
         ELSE 0

Relay == INSTANCE ByteRelay WITH ToSocksMax <- TCP_WND,
                                 ToAppMax <- TCP_SND_BUF + CLIENT_SOCKS_RECV_BUF_SIZE

(* Every step of tun2socks for one connection, inside lwIP's callbacks too,  *)
(* is a step of the byte relay: no byte is made up, kept for a closed side   *)
(* or accepted beyond capacity, and a half-closed client lives exactly as    *)
(* long as it has bytes for the other side.                                  *)
RelaySpec == Relay!Spec

session == IF c.socks_closed THEN "none"
           ELSE IF c.socks_up THEN "up" ELSE "connecting"

Session == INSTANCE SocksSession

(* tun2socks follows the protocol of BSocksClient: one Init, then UP at most *)
(* once, then one Free, with every error and early close in between.         *)
SessionSpec == Session!Spec

(* Both contracts of the relay: of its bytes, and with BSocksClient.         *)
Contracts == RelaySpec /\ SessionSpec
=============================================================================
