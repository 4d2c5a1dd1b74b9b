----------------------------- MODULE MCSession -----------------------------
(***************************************************************************)
(* The instances of Session that TLC checks.  MCSession.cfg: one stream    *)
(* with everything that the router and the link can do to it.              *)
(* MCSessionLive.cfg: how requests and sessions end, with an app that may  *)
(* give up its calls and handle a refused start.  SessionLinkLost.cfg,     *)
(* SessionChunkLost.cfg and SessionBadStart.cfg: what the code does not    *)
(* do.                                                                     *)
(***************************************************************************)
EXTENDS Session
=============================================================================
