------------------------------- MODULE Stream -------------------------------
(***************************************************************************)
(* What a BConnection promises to its user (system/BConnectionGeneric.h and *)
(* flow/Stream*Interface.h): an operation is asked for with a length, one   *)
(* at a time and direction, and is answered once, with a part of that       *)
(* length that is not empty; once the connection is over nothing happens.   *)
(***************************************************************************)
EXTENDS Naturals

CONSTANT MaxLen               \* length of one operation at most

VARIABLES up, asked, moved    \* asked[d]: length of the operation under way, or 0

vars == <<up, asked, moved>>

Dir == {"send", "recv"}

Init ==
  /\ up = "connecting"
  /\ asked = [d \in Dir |-> 0] /\ moved = [d \in Dir |-> 0]

Connected == up = "connecting" /\ up' = "up" /\ UNCHANGED <<asked, moved>>

Ask(d) ==
  /\ up = "up" /\ asked[d] = 0
  /\ \E n \in 1 .. MaxLen : asked' = [asked EXCEPT ![d] = n]
  /\ UNCHANGED <<up, moved>>

Answer(d) ==
  /\ up = "up" /\ asked[d] > 0
  /\ \E n \in 1 .. asked[d] : moved' = [moved EXCEPT ![d] = @ + n]
  /\ asked' = [asked EXCEPT ![d] = 0]
  /\ UNCHANGED up

(* An error, the end of the stream, or the user frees the connection.        *)
Over ==
  /\ up # "over" /\ up' = "over"
  /\ asked' = [d \in Dir |-> 0] /\ UNCHANGED moved

Next == Connected \/ Over \/ \E d \in Dir : Ask(d) \/ Answer(d)

Spec == Init /\ [][Next]_vars
=============================================================================
