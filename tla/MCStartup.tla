----------------------------- MODULE MCStartup -----------------------------
(* The values TLC gives the constants of Startup. *)
EXTENDS Startup

\* Every account, every logging setting that is valid, and one of each that is not.
MCContent ==
    [daemonize : BOOLEAN, user : Account, group : Account,
     log_type : {"console"}, log_facility : {"mail"}, log_priority : {"info"}]
    \cup
    [daemonize : {FALSE}, user : {"known"}, group : {"known"},
     log_type : {"console", "syslog", "bogus"}, log_facility : {"mail", "local0", "bogus"},
     log_priority : {"info", "bogus"}]
=============================================================================
