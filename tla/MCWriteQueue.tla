---------------------------- MODULE MCWriteQueue ----------------------------
(* Two senders, one kind of frame and at most three waiting items: enough  *)
(* for an item to wait behind another one, behind an abandoned one, and    *)
(* before or behind Stop.                                                  *)
EXTENDS WriteQueue
=============================================================================
