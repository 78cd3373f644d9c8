---------------------------- MODULE MCSmtpClient ----------------------------
(***************************************************************************)
(* Values for the constants of SmtpClient: one message with a body that    *)
(* needs several buffers, and one with an empty body.                      *)
(***************************************************************************)
EXTENDS SmtpClient

MCHeadersSize == <<2, 1>>
MCBodySize == <<3, 0>>
=============================================================================
