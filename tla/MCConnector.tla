---------------------------- MODULE MCConnector ----------------------------
(***************************************************************************)
(* The instances of Connector that TLC checks, each with one caller.       *)
(* MCConnector.cfg: two addresses that come and go, refreshes that may     *)
(* fail, a request.  ConnectorAttach.cfg: what the code does not do.       *)
(***************************************************************************)
EXTENDS Connector
=============================================================================
