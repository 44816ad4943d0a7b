-------------------------- MODULE MCSocksDialogue --------------------------
(* Destinations for SocksDialogue: a plain one, one whose second half reads *)
(* like a request for a domain name, one that reads like a hello.           *)
EXTENDS SocksDialogue

SomeAddresses == {<<10, 0, 0, 2>>, <<1, 9, 3, 0>>, <<5, 2, 9, 9>>}
=============================================================================
