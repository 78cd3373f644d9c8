--------------------------- MODULE StartupProofs ---------------------------
(***************************************************************************)
(* What Startup promises of the process that serves, for any set of        *)
(* configurations and any number of reloads.                               *)
(*                                                                         *)
(* The argument follows main(): each step establishes one fact, and no     *)
(* later step takes it back. Inv lists these facts by the steps after      *)
(* which they hold.                                                        *)
(***************************************************************************)
EXTENDS Startup, TLAPS

AfterDrop == {"signals", "milter", "run", "serving"}
AfterSetConfig == {"daemonize", "drop_privileges"} \cup AfterDrop
AfterLog == {"set_config"} \cup AfterSetConfig
AfterLoad == {"init_spdlog"} \cup AfterLog
AfterSignals == {"milter", "run", "serving"}
BeforeLog == {"getopt", "load", "init_spdlog"}
BeforeDrop == {"getopt", "load", "init_spdlog", "set_config", "daemonize", "drop_privileges"}

\* What main works with was loaded.
Loaded == main \in AfterLoad => config \in Content /\ LogValid(config)

\* A console logger has no facility.
PlainConsole == \A l \in registered : l.name = "console" => l.facility = "none"

\* The registry holds the logger that init_spdlog made last, and no other.
Logged ==
    /\ main \in BeforeLog => registered = {}
    /\ main \in AfterLog => registered = {default_logger}
    /\ PlainConsole
    /\ main = "set_config" => default_logger = NewLogger(config)

\* The callbacks' configuration is one that was loaded, and the logger is its own.
Published ==
    main \in AfterSetConfig =>
        g_config \in Content /\ LogValid(g_config) /\ default_logger = NewLogger(g_config)

Unprivileged ==
    IF start.uid = "root"
    THEN /\ uid = IF config.user = "unset" THEN "root" ELSE "user"
         /\ groups = IF config.user = "unset" THEN "initial" ELSE "none"
         /\ gid = IF config.group = "unset" THEN "initial" ELSE "group"
    ELSE uid = "other" /\ gid = "initial" /\ groups = "initial"

Privileges ==
    /\ main \in BeforeDrop => uid = start.uid /\ gid = "initial" /\ groups = "initial"
    /\ main \in AfterDrop => Unprivileged

Threads ==
    /\ main \in BeforeDrop \cup {"signals"} => thread = "none"
    /\ main \in AfterSignals => masked /\ thread = "running"

\* Nobody is told anything before the fork or the end, and success for nothing less than a
\* published configuration.
Told ==
    /\ ~forked /\ main # "exited" => status = "none"
    /\ forked => main \in {"drop_privileges", "exited"} \cup AfterDrop
    /\ forked \/ status = "success" => g_config \in Content /\ default_logger # Spdlog
    /\ status = "success" /\ ~forked => main = "exited" /\ thread = "ended"

Inv == TypeOK /\ Loaded /\ Logged /\ Published /\ Privileges /\ Threads /\ Told

-----------------------------------------------------------------------------
(* main's steps and the loggers *)

\* Where each step of main() leads.
LEMMA Steps ==
    /\ DOMAIN Order = {"getopt", "load", "init_spdlog", "set_config", "daemonize",
                       "drop_privileges", "signals", "milter", "run"}
    /\ Order["getopt"] = "load" /\ Order["load"] = "init_spdlog"
    /\ Order["init_spdlog"] = "set_config" /\ Order["set_config"] = "daemonize"
    /\ Order["daemonize"] = "drop_privileges" /\ Order["drop_privileges"] = "signals"
    /\ Order["signals"] = "milter" /\ Order["milter"] = "run" /\ Order["run"] = "serving"
BY DEF Order

\* The logger made for a valid configuration is one of spdlog's two and not its own default.
LEMMA ValidLogger ==
    ASSUME NEW c \in Content, LogValid(c)
    PROVE  NewLogger(c) \in Logger /\ NewLogger(c) # Spdlog
<1>1. c.log_type \in {"console", "syslog"} /\ c.log_facility \in {"mail", "local0"}
  BY DEF LogValid
<1>2. (IF c.log_type = "syslog" THEN c.log_facility ELSE "none") \in {"none", "mail", "local0"}
  BY <1>1
<1>3. NewLogger(c) \in Logger
  BY <1>1, <1>2 DEF NewLogger, Logger
<1>4. NewLogger(c).name = c.log_type /\ Spdlog.name = "spdlog"
  BY DEF NewLogger, Spdlog
<1> QED
  BY <1>1, <1>3, <1>4

\* init_spdlog, called with one logger registered or none, leaves the new one as the only one: none
\* of the names it asks for is taken.
LEMMA InitSpdlog ==
    ASSUME NEW c \in Content, LogValid(c), registered \subseteq {default_logger},
           registered \subseteq Logger, PlainConsole, init_spdlog(c)
    PROVE  default_logger' = NewLogger(c) /\ registered' = {NewLogger(c)}
<1>1. ~NoLogger(c)
  BY DEF NoLogger, LoggerClash, KeptLoggers, LogValid
<1>2. ASSUME NEW l \in KeptLoggers(c)  PROVE l = NewLogger(c)
  BY <1>2 DEF KeptLoggers, NewLogger, Logger, PlainConsole
<1> QED
  BY <1>1, <1>2 DEF init_spdlog

-----------------------------------------------------------------------------
(* The invariant *)

LEMMA InitInv == Init => Inv
<1> SUFFICES ASSUME Init PROVE Inv
  OBVIOUS
<1>1. TypeOK
  <2>1. main \in DOMAIN Order /\ reloads \in 0 .. MaxReloads
    BY Steps, MaxReloadsAssumption DEF Init
  <2>2. uid \in {"root", "other", "user"}
    BY DEF Init, Start
  <2> QED
    BY <2>1, <2>2 DEF Init, TypeOK, Spdlog
<1>2. Loaded /\ Logged /\ Published /\ Privileges /\ Threads /\ Told
  BY DEF Init, Loaded, Logged, PlainConsole, Published, Privileges, Threads, Told, AfterLoad,
         AfterLog, AfterSetConfig, AfterDrop, AfterSignals, BeforeLog, BeforeDrop
<1> QED
  BY <1>1, <1>2 DEF Inv

LEMMA StepInv == Inv /\ [Next]_vars => Inv'
<1> SUFFICES ASSUME Inv, [Next]_vars PROVE Inv'
  OBVIOUS
<1> USE DEF Inv, TypeOK, Loaded, Logged, PlainConsole, Published, Privileges, Unprivileged, Threads,
            Told, At, process, logging, signals
<1> USE DEF AfterLoad, AfterLog, AfterSetConfig, AfterDrop, AfterSignals, BeforeLog, BeforeDrop
<1>1. CASE UsageExit
  BY <1>1, Steps DEF UsageExit, Exit
<1>2. CASE GetOptions
  BY <1>2, Steps DEF GetOptions, Continue
<1>3. CASE NullPath
  BY <1>3, Steps DEF NullPath, Exit
<1>4. ASSUME Throw PROVE Inv'
  BY <1>4, Steps DEF Throw, Exit
<1>5. CASE Load
  <2>1. CASE Loads
    BY <1>5, <2>1, Steps DEF Load, Loads, Continue
  <2>2. CASE ~Loads
    BY <1>5, <2>2, <1>4 DEF Load
  <2> QED
    BY <2>1, <2>2
<1>6. CASE InitLog
  <2>1. config \in Content /\ LogValid(config) /\ init_spdlog(config)
    BY <1>6 DEF InitLog
  <2>2. default_logger' = NewLogger(config) /\ registered' = {NewLogger(config)}
    <3>1. registered = {}
      BY <1>6 DEF InitLog
    <3>2. registered \subseteq {default_logger} /\ registered \subseteq Logger /\ PlainConsole
      BY <3>1
    <3> QED
      BY <2>1, <3>2, InitSpdlog
  <2>3. NewLogger(config) \in Logger /\ PlainConsole'
    BY <2>1, <2>2, ValidLogger DEF NewLogger
  <2>4. config' = config /\ main' = "set_config" /\ ~forked /\ ~forked'
    BY <1>6, Steps DEF InitLog, Continue
  <2>5. NewLogger(config)' = NewLogger(config)
    BY <2>4 DEF NewLogger
  <2> QED
    BY <1>6, <2>1, <2>2, <2>3, <2>4, <2>5, Steps DEF InitLog, Continue, LogValid
<1>7. CASE SetConfig
  <2>1. LogValid(config) => LogValid(g_config)' /\ NewLogger(g_config)' = NewLogger(config)
    BY <1>7 DEF SetConfig, LogValid, NewLogger
  <2> QED
    BY <1>7, <2>1, Steps DEF SetConfig, Continue, LogValid
<1>8. CASE Foreground
  BY <1>8, Steps DEF Foreground, Continue, LogValid, NewLogger
<1>9. CASE Daemonize
  <2>1. default_logger # Spdlog
    BY <1>9, ValidLogger DEF Daemonize
  <2> QED
    BY <1>9, <2>1, Steps DEF Daemonize, LogValid, NewLogger
<1>10. CASE DaemonFails
  BY <1>10, Steps DEF DaemonFails, Exit
<1>11. CASE KeepPrivileges
  BY <1>11, Steps DEF KeepPrivileges, Continue, Start, LogValid, NewLogger
<1>12. CASE drop_privileges
  BY <1>12, Steps, ContentAssumption DEF drop_privileges, Continue, LogValid, NewLogger, Account
<1>13. CASE DropFails
  BY <1>13, <1>4 DEF DropFails
<1>14. CASE InstallSignals
  BY <1>14, Steps DEF InstallSignals, Continue, LogValid, NewLogger
<1>15. CASE Register
  BY <1>15, Steps DEF Register, Continue, LogValid, NewLogger
<1>16. CASE StepThrows
  BY <1>16, <1>4 DEF StepThrows
<1>17. CASE EditFile
  BY <1>17 DEF EditFile, LogValid, NewLogger
<1>18. CASE Hangup
  <2>1. /\ main = "serving" /\ thread' = thread /\ notFound' \in BOOLEAN
        /\ reloads' \in 0 .. MaxReloads
        /\ UNCHANGED <<start, file, process, config, masked, forked>>
    <3>1. reloads \in 0 .. MaxReloads /\ reloads < MaxReloads /\ reloads' = reloads + 1
      BY <1>18 DEF Hangup
    <3>2. reloads' \in 0 .. MaxReloads
      BY <3>1, MaxReloadsAssumption
    <3>3. UNCHANGED <<start, file, process, config, masked, forked>> /\ main = "serving"
      BY <1>18 DEF Hangup
    <3>4. thread' = thread /\ notFound' \in BOOLEAN
      BY <1>18 DEF Hangup
    <3> QED
      BY <3>2, <3>3, <3>4
  <2>2. CASE Found /\ ~Readable /\ start.readable = "root-dir" /\ main' = "exited"
    <3>1. status' \in {status, "killed"} /\ UNCHANGED <<g_config, logging>>
      BY <1>18, <2>2 DEF Hangup
    <3> QED
      BY <2>2, <2>1, <3>1
  <2>3. CASE UNCHANGED <<main, status, g_config, logging>>
    <3>1. LogValid(config)' = LogValid(config) /\ NewLogger(config)' = NewLogger(config)
      BY <2>1 DEF LogValid, NewLogger
    <3>2. LogValid(g_config)' = LogValid(g_config) /\ NewLogger(g_config)' = NewLogger(g_config)
      BY <2>3 DEF LogValid, NewLogger
    <3> QED
      BY <2>3, <2>1, <3>1, <3>2
  <2>4. CASE Loads /\ main' = main
    <3>1. LogValid(file) /\ g_config' = file /\ init_spdlog(file) /\ file' = file
      BY <1>18, <2>4 DEF Hangup, Loads
    <3>2. default_logger' = NewLogger(file) /\ registered' = {NewLogger(file)}
      BY <1>18, <3>1, InitSpdlog DEF Hangup
    <3>3. NewLogger(file) \in Logger /\ NewLogger(file) # Spdlog /\ PlainConsole'
      BY <3>1, <3>2, ValidLogger DEF NewLogger
    <3>4. LogValid(g_config)' /\ NewLogger(g_config)' = NewLogger(file)
      BY <3>1 DEF LogValid, NewLogger
    <3>5. status' = status
      BY <1>18, <2>4 DEF Hangup
    <3> QED
      BY <2>4, <2>1, <3>1, <3>2, <3>3, <3>4, <3>5
  <2> QED
    BY <1>18, <2>2, <2>3, <2>4 DEF Hangup
<1>19. CASE Stop
  <2>1. default_logger # Spdlog
    BY <1>19, ValidLogger DEF Stop
  <2> QED
    BY <1>19, <2>1 DEF Stop, Exit, LogValid, NewLogger
<1>20. CASE UNCHANGED vars
  BY <1>20 DEF vars, LogValid, NewLogger
<1>21. CASE Exited
  BY <1>20, <1>21 DEF Exited
<1> QED
  BY <1>1, <1>2, <1>3, <1>5, <1>6, <1>7, <1>8, <1>9, <1>10, <1>11, <1>12, <1>13, <1>14, <1>15,
     <1>16, <1>17, <1>18, <1>19, <1>20, <1>21 DEF Next

\* Every state of Startup satisfies Inv.
THEOREM Invariance == Spec => []Inv
<1> QED
  BY InitInv, StepInv, PTL DEF Spec

-----------------------------------------------------------------------------
(* What the invariant gives *)

\* main(): the types, with one logger of a name at most.
THEOREM TypeCorrect == Spec => []TypeOK
<1>1. Inv => TypeOK
  BY DEF Inv
<1> QED
  BY <1>1, Invariance, PTL

\* main(), callbacks::get_config: the milter serves with a configuration for its callbacks and a
\* signal thread of its own process.
THEOREM Prepared == Spec => []ServesPrepared
<1>1. Inv => ServesPrepared
  BY NoConfigAssumption
     DEF Inv, Published, Threads, ServesPrepared, At, AfterSetConfig, AfterDrop, AfterSignals
<1> QED
  BY <1>1, Invariance, PTL

\* drop_privileges: a milter started as root serves as the configured user without supplementary
\* groups and in the configured group; what the configuration leaves open, root's primary group
\* under a configured user among it, stays as the process was started.
THEOREM PrivilegesDropped == Spec => []ServesUnprivileged
<1>1. Inv => ServesUnprivileged
  BY DEF Inv, Privileges, Unprivileged, ServesUnprivileged, At, AfterDrop
<1> QED
  BY <1>1, Invariance, PTL

\* main's exit status: success is told of a published configuration only.
THEOREM SuccessEarned == Spec => []SuccessIsEarned
<1>1. Inv => SuccessIsEarned
  BY NoConfigAssumption DEF Inv, Told, SuccessIsEarned, At
<1> QED
  BY <1>1, Invariance, PTL

\* init_spdlog after any number of reloads: what is served is what is logged by.
THEOREM LoggingFollows == Spec => []LogFollows
<1>1. Inv => LogFollows
  BY DEF Inv, Published, LogFollows, At, AfterSetConfig, AfterDrop
<1> QED
  BY <1>1, Invariance, PTL
=============================================================================
