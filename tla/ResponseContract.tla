-------------------------- MODULE ResponseContract --------------------------
(***************************************************************************)
(* What the connector promises the router for each request stream          *)
(* (Cranker v3): the response is HEADER frames, the last one flagged as    *)
(* the end of the head, then DATA frames, the last one flagged as the end  *)
(* of the stream; at any point before that end one RST_STREAM may abort    *)
(* it; nothing follows the end or the abort.                               *)
(*                                                                         *)
(* The promise only depends on the last frame of the stream that is on     *)
(* the wire, out[s].                                                       *)
(***************************************************************************)
CONSTANT Streams

VARIABLE out

Kind == {"HEADER", "HEADER_END", "DATA", "DATA_END", "RST_STREAM"}

(* The frames that may follow a frame of kind k, "none" for no frame. *)
Follows(k) ==
  CASE k \in {"none", "HEADER"} -> {"HEADER", "HEADER_END", "RST_STREAM"}
    [] k \in {"HEADER_END", "DATA"} -> {"DATA", "DATA_END", "RST_STREAM"}
    [] k \in {"DATA_END", "RST_STREAM"} -> {}

Init == out = [s \in Streams |-> "none"]

Emit(s, k) ==
  /\ k \in Follows(out[s])
  /\ out' = [out EXCEPT ![s] = k]

Next == \E s \in Streams, k \in Kind : Emit(s, k)

Spec == Init /\ [][Next]_out
=============================================================================
