---------------------------- MODULE MCEmailDump ----------------------------
(* The values TLC gives the constants of EmailDump. *)
EXTENDS EmailDump

CONSTANTS m1, m2
=============================================================================
