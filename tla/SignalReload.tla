---------------------------- MODULE SignalReload ----------------------------
(***************************************************************************)
(* Signals, configuration reload and shutdown: SignalManager's dedicated   *)
(* sigwait thread, ConfigManager, the configuration published to the       *)
(* milter callbacks, and the main thread that runs smfi_main and then      *)
(* tears SignalManager down.                                               *)
(*                                                                         *)
(* A configuration is identified by the version of the file it was read    *)
(* from. The file is edited, and signals are sent, by the operator at any  *)
(* time. POSIX keeps at most one pending signal of each kind and does not  *)
(* say which one sigwait takes first.                                      *)
(***************************************************************************)
EXTENDS Integers

CONSTANTS
    MaxEdits,       \* bound: edits of the configuration file
    MaxSignals      \* bound: signals from outside

ASSUME MaxEditsAssumption == MaxEdits \in Nat
ASSUME MaxSignalsAssumption == MaxSignals \in Nat

Signal == {"HUP", "INT", "TERM"}
Version == 0 .. MaxEdits

\* What ConfigManager can find at config_file_path_: a file that parses and validates, one that
\* does not, none, or a path that stat() may not reach.
Kind == {"valid", "invalid", "missing", "unreachable"}

VARIABLES
    \* the operator's side
    file,               \* the file: its version and what it is
    sent,               \* signals sent so far
    pending,            \* signals waiting for sigwait
    \* shared between threads
    current_config_,    \* ConfigManager's configuration
    g_config,           \* the configuration of the milter callbacks
    log_config,         \* the configuration the default logger was made from
    running_,
    stopped,            \* smfi_stop was called
    terminated,         \* std::terminate was called
    \* program counters
    thread,             \* the signal thread
    sig,                \* the signal it took
    main,               \* the main thread
    \* history
    valid               \* versions whose content was valid

configVars == <<current_config_, g_config, log_config>>
operatorVars == <<file, sent, valid>>
vars == <<operatorVars, pending, configVars, running_, stopped, terminated, thread, sig, main>>

TypeOK ==
    /\ file \in [version : Version, kind : Kind]
    /\ sent \in 0 .. MaxSignals
    /\ pending \subseteq Signal
    /\ current_config_ \in Version
    /\ g_config \in Version
    /\ log_config \in Version
    /\ running_ \in BOOLEAN
    /\ stopped \in BOOLEAN
    /\ terminated \in BOOLEAN
    /\ thread \in {"sigwait", "dispatch", "exists", "load", "publish", "relog", "exited"}
    /\ sig \in Signal
    /\ main \in {"serving", "teardown", "wake", "join", "exited"}
    /\ valid \subseteq Version

\* main: the configuration is loaded, logging set up, the configuration published, the thread
\* started; all before smfi_main serves the first connection.
Init ==
    /\ file = [version |-> 0, kind |-> "valid"]
    /\ sent = 0
    /\ pending = {}
    /\ current_config_ = 0
    /\ g_config = 0
    /\ log_config = 0
    /\ running_ = TRUE
    /\ stopped = FALSE
    /\ terminated = FALSE
    /\ thread = "sigwait"
    /\ sig = "HUP"
    /\ main = "serving"
    /\ valid = {0}

Live == ~terminated /\ main # "exited"

-----------------------------------------------------------------------------
(* The operator *)

EditFile ==
    /\ Live
    /\ file.version < MaxEdits
    /\ \E k \in Kind :
          /\ file' = [version |-> file.version + 1, kind |-> k]
          /\ valid' = IF k = "valid" THEN valid \cup {file.version + 1} ELSE valid
    /\ UNCHANGED <<sent, pending, configVars, running_, stopped, terminated, thread, sig, main>>

SendSignal ==
    /\ Live
    /\ sent < MaxSignals
    /\ sent' = sent + 1
    /\ \E s \in Signal : pending' = pending \cup {s}
    /\ UNCHANGED <<file, valid, configVars, running_, stopped, terminated, thread, sig, main>>

-----------------------------------------------------------------------------
(* signalLoop *)

\* Mutant of Sigwait: every pending signal is taken, one is dispatched.
SigwaitDrains ==
    /\ Live
    /\ thread = "sigwait"
    /\ \E s \in pending : sig' = s
    /\ pending' = {}
    /\ thread' = "dispatch"
    /\ UNCHANGED <<operatorVars, configVars, running_, stopped, terminated, main>>

Sigwait ==
    /\ Live
    /\ thread = "sigwait"
    /\ \E s \in pending : sig' = s /\ pending' = pending \ {s}
    /\ thread' = "dispatch"
    /\ UNCHANGED <<operatorVars, configVars, running_, stopped, terminated, main>>

\* Events during teardown are ignored.
DispatchTeardown ==
    /\ Live
    /\ thread = "dispatch"
    /\ ~running_
    /\ thread' = "exited"
    /\ UNCHANGED <<operatorVars, pending, configVars, running_, stopped, terminated, sig, main>>

DispatchHup ==
    /\ Live
    /\ thread = "dispatch"
    /\ running_
    /\ sig = "HUP"
    /\ thread' = "exists"
    /\ UNCHANGED <<operatorVars, pending, configVars, running_, stopped, terminated, sig, main>>

DispatchStop ==
    /\ Live
    /\ thread = "dispatch"
    /\ running_
    /\ sig \in {"TERM", "INT"}
    /\ stopped' = TRUE
    /\ thread' = "exited"
    /\ UNCHANGED <<operatorVars, pending, configVars, running_, terminated, sig, main>>

\* reload: filesystem::exists, outside the try block. An error other than "not found" is thrown;
\* nothing on the thread catches it.
ReloadExists ==
    /\ Live
    /\ thread = "exists"
    /\ terminated' = (file.kind = "unreachable")
    /\ thread' = IF file.kind = "missing" THEN "sigwait" ELSE "load"
    /\ UNCHANGED <<operatorVars, pending, configVars, running_, stopped, sig, main>>

\* reload: parse, validate and store; a failure keeps the current configuration.
Loadable == file.kind = "valid"

ReloadLoad ==
    /\ Live
    /\ thread = "load"
    /\ current_config_' = IF Loadable THEN file.version ELSE current_config_
    /\ thread' = IF Loadable THEN "publish" ELSE "sigwait"
    /\ UNCHANGED <<operatorVars, pending, g_config, log_config, running_, stopped, terminated,
                   sig, main>>

\* getConfig, then callbacks::set_config
Publish ==
    /\ Live
    /\ thread = "publish"
    /\ g_config' = current_config_
    /\ thread' = "relog"
    /\ UNCHANGED <<operatorVars, pending, current_config_, log_config, running_, stopped,
                   terminated, sig, main>>

\* Mutant of Relog: a SIGHUP that came during the reload is dropped.
RelogDropsHup ==
    /\ Live
    /\ thread = "relog"
    /\ log_config' \in {g_config, log_config}
    /\ pending' = pending \ {"HUP"}
    /\ thread' = "sigwait"
    /\ UNCHANGED <<operatorVars, current_config_, g_config, running_, stopped, terminated, sig, main>>

\* init_spdlog; what it throws is caught and the logging settings stay.
Relog ==
    /\ Live
    /\ thread = "relog"
    /\ log_config' \in {g_config, log_config}
    /\ thread' = "sigwait"
    /\ UNCHANGED <<operatorVars, pending, current_config_, g_config, running_, stopped,
                   terminated, sig, main>>

-----------------------------------------------------------------------------
(* The main thread *)

\* smfi_main returns after smfi_stop ...
SmfiMainStops ==
    /\ Live
    /\ main = "serving"
    /\ stopped
    /\ main' = "teardown"
    /\ UNCHANGED <<operatorVars, pending, configVars, running_, stopped, terminated, thread, sig>>

\* ... or fails by itself.
SmfiMainFails ==
    /\ Live
    /\ main = "serving"
    /\ ~stopped
    /\ main' = "teardown"
    /\ UNCHANGED <<operatorVars, pending, configVars, running_, stopped, terminated, thread, sig>>

\* libmilter's own signal thread waits for the same signals, and takes any of them for a request
\* to stop.
LibmilterTakesSignal ==
    /\ Live
    /\ main = "serving"
    /\ \E s \in pending : pending' = pending \ {s}
    /\ main' = "teardown"
    /\ UNCHANGED <<operatorVars, configVars, running_, stopped, terminated, thread, sig>>

\* ~SignalManager: running_ = false ...
ClearRunning ==
    /\ Live
    /\ main = "teardown"
    /\ running_' = FALSE
    /\ main' = "wake"
    /\ UNCHANGED <<operatorVars, pending, configVars, stopped, terminated, thread, sig>>

\* Mutant of Wake: pthread_kill is not called.
WakeNot ==
    /\ Live
    /\ main = "wake"
    /\ main' = "join"
    /\ UNCHANGED <<operatorVars, pending, configVars, running_, stopped, terminated, thread, sig>>

\* ... pthread_kill(SIGINT), without effect on a thread that has exited ...
Wake ==
    /\ Live
    /\ main = "wake"
    /\ pending' = IF thread = "exited" THEN pending ELSE pending \cup {"INT"}
    /\ main' = "join"
    /\ UNCHANGED <<operatorVars, configVars, running_, stopped, terminated, thread, sig>>

\* ... and join().
Join ==
    /\ Live
    /\ main = "join"
    /\ thread = "exited"
    /\ main' = "exited"
    /\ UNCHANGED <<operatorVars, pending, configVars, running_, stopped, terminated, thread, sig>>

\* The process is gone.
Gone == ~Live /\ UNCHANGED vars

-----------------------------------------------------------------------------
ThreadNext ==
    \/ Sigwait \/ DispatchTeardown \/ DispatchHup \/ DispatchStop
    \/ ReloadExists \/ ReloadLoad \/ Publish \/ Relog

MainNext == SmfiMainStops \/ ClearRunning \/ Wake \/ Join

Next ==
    \/ EditFile \/ SendSignal \/ ThreadNext \/ MainNext
    \/ SmfiMainFails \/ LibmilterTakesSignal \/ Gone

Spec == Init /\ [][Next]_vars

\* Both threads are scheduled, and smfi_main returns once it was stopped. Nothing is assumed of
\* the operator.
FairSpec == Spec /\ WF_vars(ThreadNext) /\ WF_vars(MainNext)

-----------------------------------------------------------------------------
(* Properties *)

\* ConfigManager::reload and signalLoop: only what was valid in the file is ever stored,
\* published or used for logging, and each stage never runs ahead of the one before it.
ConfigOrder ==
    /\ {current_config_, g_config, log_config} \subseteq valid
    /\ log_config <= g_config /\ g_config <= current_config_ /\ current_config_ <= file.version

\* signalLoop: an older configuration never replaces a newer one, however edits and reloads meet.
NoRollback == [][g_config' >= g_config /\ current_config_' >= current_config_]_vars

Gives(c) == c \/ stopped \/ ~running_ \/ terminated

\* signalLoop: a SIGHUP is never lost, also when it arrives during a reload: a valid file that
\* stays as it is gets published, unless the process is shutting down.
HangupServed ==
    \A v \in Version :
        ("HUP" \in pending /\ file = [version |-> v, kind |-> "valid"])
            ~> Gives(g_config = v \/ file.version # v)

\* signalLoop: SIGTERM stops the milter.
StopServed == "TERM" \in pending ~> Gives(FALSE)

\* ~SignalManager: teardown ends, whatever the signal thread was doing.
TeardownEnds == main = "teardown" ~> ~Live

\* signalLoop's log message: "Configuration reload failed; keeping current configuration".
FailedReloadKeepsServing == ~terminated

=============================================================================
