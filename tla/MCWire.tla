------------------------------- MODULE MCWire -------------------------------
(***************************************************************************)
(* The instance of Heads and of Framing that TLC checks: a request head is *)
(* read, or a response is cut into frames.  The two share nothing; side    *)
(* says which one it is, and the other stays as it began.                  *)
(***************************************************************************)
EXTENDS Heads, Framing

VARIABLE side

(* Both ends of the range, both sides of 0 and of a byte's boundary. *)
BoundaryIds == {-(Word \div 2), -Byte, -1, 0, Byte \div 2, Word \div 2 - 1}

WireInit ==
  /\ RequestInit /\ FramingInit
  /\ \/ side = "request" /\ id = 0 /\ max = 1
     \/ side = "response" /\ config = "" /\ tokens = 3 /\ path = "p"

WireNext ==
  /\ UNCHANGED side
  /\ \/ side = "request" /\ RequestNext /\ UNCHANGED framingVars
     \/ side = "response" /\ FramingNext /\ UNCHANGED requestVars

WireSpec == WireInit /\ [][WireNext]_<<side, requestVars, framingVars>>
=============================================================================
