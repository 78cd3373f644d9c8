------------------------------ MODULE Startup ------------------------------
(***************************************************************************)
(* The life of the process around the milter: main() from its options to   *)
(* its exit status, with what the steps do to the process itself (its      *)
(* working directory, its user and groups, its threads and signal mask,    *)
(* its default logger), and the reloads that later run in that process.    *)
(*                                                                         *)
(* The order of the steps matters more than any of them: a thread does not *)
(* survive a fork, a path does not survive a change of directory, and a    *)
(* permission does not survive a change of user. How signals, edits and    *)
(* teardown interleave is the subject of SignalReload: here a reload is    *)
(* one step.                                                               *)
(***************************************************************************)
EXTENDS Integers, FiniteSets

CONSTANTS
    Content,        \* what the configuration file may hold
    NoConfig,       \* no configuration
    MaxReloads      \* bound: reloads

Account == {"unset", "known", "unknown"}

ASSUME ContentAssumption ==
    Content \subseteq
        [daemonize : BOOLEAN, user : Account, group : Account,
         log_type : STRING, log_facility : STRING, log_priority : STRING]
ASSUME NoConfigAssumption == NoConfig \notin Content
ASSUME MaxReloadsAssumption == MaxReloads \in Nat

\* How the program is started. "nopath" is a command line with arguments but without -c.
Start ==
    [options : {"none", "help", "nopath", "path"},
     relative : BOOLEAN,                    \* is the path after -c relative?
     uid : {"root", "other"},
     readable : {"all", "root", "root-dir"}]    \* by whom; root-dir: nor may others enter its directory

Logger == [name : {"console", "syslog"}, facility : {"none", "mail", "local0"}]
Spdlog == [name |-> "spdlog", facility |-> "none"]

VARIABLES
    start,
    file,               \* the configuration file's content
    main,               \* the step of main()
    status,             \* what the invoker has been told
    forked,             \* does a child of the invoked process run main()?
    cwd,
    uid, gid, groups,
    config,             \* main's config
    g_config,           \* the configuration of the milter callbacks
    registered,         \* spdlog's registry
    default_logger,
    masked,             \* are the signals blocked in main's thread, and in those it starts?
    thread,             \* the signal thread
    notFound,           \* a reload said that there is no configuration file
    reloads

process == <<cwd, uid, gid, groups>>
logging == <<registered, default_logger>>
signals == <<masked, thread>>
vars == <<start, file, main, status, forked, process, config, g_config, logging, signals,
          notFound, reloads>>

\* Mutant of Order: signals before the fork.
OrderSignalsFirst ==
    [getopt |-> "load", load |-> "init_spdlog", init_spdlog |-> "set_config",
     set_config |-> "signals", signals |-> "daemonize", daemonize |-> "drop_privileges",
     drop_privileges |-> "milter", milter |-> "run", run |-> "serving"]

\* Mutant of Order: the fork comes as soon as the configuration is read.
OrderForkEarly ==
    [getopt |-> "load", load |-> "daemonize", daemonize |-> "init_spdlog",
     init_spdlog |-> "set_config", set_config |-> "drop_privileges",
     drop_privileges |-> "signals", signals |-> "milter", milter |-> "run", run |-> "serving"]

\* The order of main's steps.
Order ==
    [getopt |-> "load", load |-> "init_spdlog", init_spdlog |-> "set_config",
     set_config |-> "daemonize", daemonize |-> "drop_privileges",
     drop_privileges |-> "signals", signals |-> "milter", milter |-> "run", run |-> "serving"]

TypeOK ==
    /\ start \in Start
    /\ file \in Content
    /\ main \in DOMAIN Order \cup {"serving", "exited"}
    /\ status \in {"none", "success", "failure", "killed"}
    /\ forked \in BOOLEAN
    /\ cwd \in {"start", "/"}
    /\ uid \in {"root", "other", "user"} /\ gid \in {"initial", "group"}
    /\ groups \in {"initial", "none"}
    /\ config \in Content \cup {NoConfig}
    /\ g_config \in Content \cup {NoConfig}
    /\ registered \subseteq Logger
    /\ \A l, k \in registered : l.name = k.name => l = k
    /\ default_logger \in Logger \cup {Spdlog}
    /\ masked \in BOOLEAN
    /\ thread \in {"none", "running", "ended", "lost"}
    /\ notFound \in BOOLEAN
    /\ reloads \in 0 .. MaxReloads

Init ==
    /\ start \in Start
    /\ file \in Content
    /\ main = "getopt"
    /\ status = "none"
    /\ forked = FALSE
    /\ cwd = "start"
    /\ uid = start.uid
    /\ gid = "initial"
    /\ groups = "initial"
    /\ config = NoConfig
    /\ g_config = NoConfig
    /\ registered = {}
    /\ default_logger = Spdlog
    /\ masked = FALSE
    /\ thread = "none"
    /\ notFound = FALSE
    /\ reloads = 0

At(step) == main = step
Continue == main' = Order[main] /\ UNCHANGED <<status, forked>>

\* The invoker waits for the process it started, not for a child of that.
Exit(s) ==
    /\ main' = "exited"
    /\ status' = IF forked THEN status ELSE s
    /\ UNCHANGED forked

\* An exception: ~SignalManager joins the signal thread, main's handlers log and return.
Throw ==
    /\ Exit("failure")
    /\ thread' = IF thread = "running" THEN "ended" ELSE thread
    /\ masked' = FALSE
    /\ UNCHANGED <<start, file, process, config, g_config, logging, notFound, reloads>>

-----------------------------------------------------------------------------
(* main() *)

UsageExit ==
    /\ At("getopt")
    /\ start.options \in {"none", "help"}
    /\ Exit("failure")
    /\ UNCHANGED <<start, file, process, config, g_config, logging, signals, notFound, reloads>>

\* Without -c, ConfigManager's path is made from a null pointer, which is undefined: an exception
\* or a crash.
NullPath ==
    /\ At("load")
    /\ start.options = "nopath"
    /\ \E s \in {"failure", "killed"} : Exit(s)
    /\ UNCHANGED <<start, file, process, config, g_config, logging, signals, notFound, reloads>>

GetOptions ==
    /\ At("getopt")
    /\ start.options \in {"nopath", "path"}
    /\ Continue
    /\ UNCHANGED <<start, file, process, config, g_config, logging, signals, notFound, reloads>>

\* Mutant of LogValid: the facility counts for syslog only, the type not at all.
LogValidFacility(c) ==
    /\ c.log_type = "syslog" => c.log_facility \in {"mail", "local0"}
    /\ c.log_priority \in {"info", "debug"}

\* GeneralSection::validate, its checks of the logging settings
LogValid(c) ==
    /\ c.log_type \in {"console", "syslog"}
    /\ c.log_facility \in {"mail", "local0"}
    /\ c.log_priority \in {"info", "debug"}

\* What the path names from here.
Found == start.relative => cwd = "start"
Readable == start.readable = "all" \/ uid = "root"
Loads == Found /\ Readable /\ LogValid(file)

Load ==
    /\ At("load")
    /\ start.options = "path"
    /\ IF Loads
       THEN /\ config' = file
            /\ Continue
            /\ UNCHANGED <<start, file, process, g_config, logging, signals, notFound, reloads>>
       ELSE Throw

NewLogger(c) ==
    [name |-> c.log_type, facility |-> IF c.log_type = "syslog" THEN c.log_facility ELSE "none"]

\* spdlog::drop: for syslog both loggers, for console the one of syslog.
KeptLoggers(c) ==
    {l \in registered : l.name = "console" /\ c.log_type = "console"}

\* spdlog refuses a second logger of a name.
LoggerClash(c) == c.log_type = "syslog" /\ \E l \in KeptLoggers(c) : l.name = "syslog"

\* init_spdlog throws before it makes a logger ...
NoLogger(c) ==
    \/ c.log_type \notin {"console", "syslog"}
    \/ c.log_type = "syslog" /\ c.log_facility \notin {"mail", "local0"}
    \/ LoggerClash(c)

\* ... or after that.
init_spdlog_throws(c) == NoLogger(c) \/ c.log_priority \notin {"info", "debug"}

\* init_spdlog: the console's logger is reused, that of syslog is made anew.
init_spdlog(c) ==
    IF NoLogger(c) THEN UNCHANGED logging
    ELSE /\ default_logger' = NewLogger(c)
         /\ registered' = KeptLoggers(c) \cup {NewLogger(c)}

InitLog ==
    /\ At("init_spdlog")
    /\ ~init_spdlog_throws(config)
    /\ init_spdlog(config)
    /\ Continue
    /\ UNCHANGED <<start, file, process, config, g_config, signals, notFound, reloads>>

SetConfig ==
    /\ At("set_config")
    /\ g_config' = config
    /\ Continue
    /\ UNCHANGED <<start, file, process, config, logging, signals, notFound, reloads>>

Foreground ==
    /\ At("daemonize")
    /\ ~config.daemonize
    /\ Continue
    /\ UNCHANGED <<start, file, process, config, g_config, logging, signals, notFound, reloads>>

\* daemon(0, 0): the invoked process exits, its child has one thread and goes on from /.
Daemonize ==
    /\ At("daemonize")
    /\ config.daemonize
    /\ forked' = TRUE
    /\ status' = "success"
    /\ main' = Order[main]
    /\ cwd' = "/"
    /\ thread' = IF thread = "running" THEN "lost" ELSE thread
    /\ UNCHANGED <<start, file, uid, gid, groups, config, g_config, logging, masked, notFound, reloads>>

DaemonFails ==
    /\ At("daemonize")
    /\ config.daemonize
    /\ Exit("failure")
    /\ UNCHANGED <<start, file, process, config, g_config, logging, signals, notFound, reloads>>

KeepPrivileges ==
    /\ At("drop_privileges")
    /\ uid # "root"
    /\ Continue
    /\ UNCHANGED <<start, file, process, config, g_config, logging, signals, notFound, reloads>>

\* Mutant of drop_privileges: the supplementary groups stay.
drop_privileges_groups ==
    /\ At("drop_privileges")
    /\ uid = "root"
    /\ config.group # "unknown" /\ config.user # "unknown"
    /\ gid' = IF config.group = "known" THEN "group" ELSE gid
    /\ uid' = IF config.user = "known" THEN "user" ELSE uid
    /\ Continue
    /\ UNCHANGED <<start, file, cwd, groups, config, g_config, logging, signals, notFound, reloads>>

\* The group first, while root may still set it; the supplementary groups go with the user.
drop_privileges ==
    /\ At("drop_privileges")
    /\ uid = "root"
    /\ config.group # "unknown" /\ config.user # "unknown"
    /\ gid' = IF config.group = "known" THEN "group" ELSE gid
    /\ groups' = IF config.user = "known" THEN "none" ELSE groups
    /\ uid' = IF config.user = "known" THEN "user" ELSE uid
    /\ Continue
    /\ UNCHANGED <<start, file, cwd, config, g_config, logging, signals, notFound, reloads>>

\* getgrnam, setgid, getpwnam, setgroups or setuid fails.
DropFails == At("drop_privileges") /\ uid = "root" /\ Throw

\* SignalManager's constructor
InstallSignals ==
    /\ At("signals")
    /\ masked' = TRUE
    /\ thread' = "running"
    /\ Continue
    /\ UNCHANGED <<start, file, process, config, g_config, logging, notFound, reloads>>

\* milter's constructor, and smfi_main up to its socket
Register ==
    /\ main \in {"milter", "run"}
    /\ Continue
    /\ UNCHANGED <<start, file, process, config, g_config, logging, signals, notFound, reloads>>

\* Making the logger, pthread_sigmask, a call of libmilter's, or smfi_main fails.
StepThrows == main \in {"init_spdlog", "signals", "milter", "run", "serving"} /\ Throw

-----------------------------------------------------------------------------
(* While the milter serves *)

EditFile ==
    /\ At("serving")
    /\ reloads < MaxReloads
    /\ file' \in Content \ {file}
    /\ UNCHANGED <<start, main, status, forked, process, config, g_config, logging, signals,
                   notFound, reloads>>

\* SIGHUP, its whole reload.
Hangup ==
    /\ At("serving")
    /\ thread = "running"
    /\ reloads < MaxReloads
    /\ reloads' = reloads + 1
    /\ UNCHANGED <<start, file, process, config, masked, forked>>
    \* exists() cannot enter the directory: the exception leaves the thread
    /\ \/ /\ Found /\ ~Readable /\ start.readable = "root-dir"
          /\ main' = "exited"
          /\ status' = IF forked THEN status ELSE "killed"
          /\ UNCHANGED <<g_config, logging, thread, notFound>>
       \/ /\ ~Found
          /\ notFound' = TRUE
          /\ UNCHANGED <<main, status, g_config, logging, thread>>
       \/ /\ Found /\ ~Loads /\ (Readable \/ start.readable = "root")
          /\ UNCHANGED <<main, status, g_config, logging, thread, notFound>>
       \/ /\ Loads
          /\ g_config' = file
          /\ init_spdlog(file)
          /\ UNCHANGED <<main, status, thread, notFound>>

\* SIGTERM or SIGINT: smfi_stop, smfi_main returns, ~SignalManager, and main returns.
Stop ==
    /\ At("serving")
    /\ thread = "running"
    /\ thread' = "ended"
    /\ masked' = FALSE
    /\ Exit("success")
    /\ UNCHANGED <<start, file, process, config, g_config, logging, notFound, reloads>>

Exited == At("exited") /\ UNCHANGED vars

Next ==
    \/ UsageExit \/ GetOptions \/ NullPath \/ Load \/ InitLog \/ SetConfig
    \/ Foreground \/ Daemonize \/ DaemonFails
    \/ KeepPrivileges \/ drop_privileges \/ DropFails
    \/ InstallSignals \/ Register \/ StepThrows
    \/ EditFile \/ Hangup \/ Stop \/ Exited

Spec == Init /\ [][Next]_vars

-----------------------------------------------------------------------------
(* Properties *)

\* main, callbacks::get_config: whoever calls a callback finds a configuration, and the signals of
\* the process that serves are blocked in its callback threads and taken by a thread of its own.
ServesPrepared ==
    At("serving") => g_config # NoConfig /\ masked /\ thread = "running"

\* drop_privileges, config.ini's user and group: a milter started as root serves as the configured
\* user, and then without supplementary groups, and in the configured group; what is not configured
\* it keeps, whatever was edited or reloaded since. So with a user and no group it serves that user
\* in root's primary group: only the supplementary groups go with the user. One started by another
\* user serves as that user.
ServesUnprivileged ==
    At("serving") =>
        IF start.uid = "root"
        THEN /\ uid = IF config.user = "unset" THEN "root" ELSE "user"
             /\ groups = IF config.user = "unset" THEN "initial" ELSE "none"
             /\ gid = IF config.group = "unset" THEN "initial" ELSE "group"
        ELSE uid = "other" /\ gid = "initial" /\ groups = "initial"

\* What one might take "drop privileges to the specified user and group" (config.ini) for: a
\* configured user is never served in root's primary group. It is, when no group is configured.
NoRootGroup == At("serving") /\ start.uid = "root" /\ uid = "user" => gid # "initial"

\* main's exit status: the invoker is told success only of a configuration that was loaded and
\* published with its logging set up, and, unless the milter went into the background, only after
\* it was stopped by a signal.
SuccessIsEarned ==
    status = "success" =>
        /\ g_config # NoConfig /\ default_logger # Spdlog
        /\ ~forked => At("exited") /\ thread = "ended"

\* init_spdlog and GeneralSection::validate: what passes validation can be logged with, so a reload
\* that publishes a configuration also logs by it, whatever was logged with before.
LogFollows == At("serving") => default_logger = NewLogger(g_config)

\* ConfigManager::reload's message "Config file not found", README's "-c config.ini": a reload
\* does not miss the file the program was started with.
ReloadFindsFile == ~notFound
=============================================================================
