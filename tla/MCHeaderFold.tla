----------------------------- MODULE MCHeaderFold -----------------------------
(***************************************************************************)
(* Values for HeaderFold: names and lines as small as the assumption       *)
(* allows and a little larger, and every signature from none to several    *)
(* lines.                                                                  *)
(***************************************************************************)
EXTENDS HeaderFold

MCSignatureSizes == 0 .. 16
MCNameSizes == 1 .. 3
MCLineSizes == 5 .. 8
=============================================================================
