--------------------------- MODULE MCSocketWorker ---------------------------
(***************************************************************************)
(* The instances of SocketWorker that TLC checks.  MCSocketWorker.cfg: two *)
(* workers, the default delays.  WorkerGivesUp.cfg: one worker whose       *)
(* router is away for more than a thousand attempts.                       *)
(***************************************************************************)
EXTENDS SocketWorker
=============================================================================
