--------------------------- MODULE MCMilterPolicy ---------------------------
(* The values TLC gives the constants of MilterPolicy. *)
EXTENDS MilterPolicy, MCMilterConnection
=============================================================================
