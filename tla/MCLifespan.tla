----------------------------- MODULE MCLifespan -----------------------------
(***************************************************************************)
(* The instance of Lifespan that TLC checks: two lifespans in each of the  *)
(* three ways, and a program that calls what it likes meanwhile.           *)
(***************************************************************************)
EXTENDS Lifespan
=============================================================================
