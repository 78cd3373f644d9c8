----------------------------- MODULE EmailDump -----------------------------
(***************************************************************************)
(* The files that on_eom keeps of mails: dump_email's constructor writes   *)
(* dump/crash-<mail>.eml before the mail is processed and its destructor   *)
(* removes it afterwards, so that it is left over when the process dies in *)
(* between; the catch blocks of on_eom write dump/exception-<mail>.eml,    *)
(* which stays. Mails are processed by several callback threads at a time, *)
(* all in one directory that others may change.                            *)
(***************************************************************************)
EXTENDS Integers, FiniteSets

CONSTANTS
    Mail,           \* mails, each with its own connection and message id
    MaxFaults,      \* bound: changes of the directory or the disk by others
    MaxCrashes      \* bound: crashes

\* A closed directory may not be entered, a readonly one is entered but not changed.
Dir == {"absent", "writable", "readonly", "closed"}

ASSUME BoundsAssumption == MaxFaults \in Nat /\ MaxCrashes \in Nat

VARIABLES
    dump_email_on_panic,    \* of the configuration each mail is processed under
    creatable,              \* may the process create the directory where it is missing?
    dir,
    full,                   \* is the disk full?
    files,
    stage,                  \* where on_eom is with each mail
    erase_,                 \* of the dump_email on on_eom's stack
    outcome,                \* how the processing of each mail ended
    faults,
    crashes

settings == <<dump_email_on_panic, creatable>>
vars == <<settings, dir, full, files, stage, erase_, outcome, faults, crashes>>

InProcess == {"processing", "caught", "leaving"}

File == [mail : Mail, prefix : {"crash-", "exception-"}, whole : BOOLEAN]

TypeOK ==
    /\ dump_email_on_panic \in [Mail -> BOOLEAN]
    /\ creatable \in BOOLEAN
    /\ dir \in Dir
    /\ full \in BOOLEAN
    /\ files \subseteq File
    /\ dir = "absent" => files = {}
    /\ stage \in [Mail -> InProcess \cup {"new", "left", "died"}]
    /\ erase_ \in [Mail -> BOOLEAN]
    /\ outcome \in [Mail -> {"none", "answered", "verify", "resend", "exception", "nodump"}]
    /\ faults \in 0 .. MaxFaults
    /\ crashes \in 0 .. MaxCrashes

Init ==
    /\ dump_email_on_panic \in [Mail -> BOOLEAN]
    /\ creatable \in BOOLEAN
    /\ dir \in Dir
    /\ full = FALSE
    /\ files = {}
    /\ stage = [m \in Mail |-> "new"]
    /\ erase_ = [m \in Mail |-> FALSE]
    /\ outcome = [m \in Mail |-> "none"]
    /\ faults = 0
    /\ crashes = 0

-----------------------------------------------------------------------------
(* dump_email::dump_email *)

\* create_directories throws.
NoDirectory == dir = "absent" /\ ~creatable

\* create_directories and the stream, whose errors nobody looks at.
Written(m, prefix) ==
    /\ dir' = IF dir = "absent" THEN "writable" ELSE dir
    /\ files' = IF dir' = "writable"
                THEN files \cup {[mail |-> m, prefix |-> prefix, whole |-> ~full]}
                ELSE files

Goes(m, to) == stage' = [stage EXCEPT ![m] = to]

\* on_eom begins: the mail is on disk before it is processed.
EomDump(m) ==
    /\ stage[m] = "new"
    /\ dump_email_on_panic[m]
    /\ ~NoDirectory
    /\ Written(m, "crash-")
    /\ erase_' = [erase_ EXCEPT ![m] = TRUE]
    /\ Goes(m, "processing")
    /\ UNCHANGED <<settings, full, outcome, faults, crashes>>

EomNoDump(m) ==
    /\ stage[m] = "new"
    /\ ~dump_email_on_panic[m]
    /\ Goes(m, "processing")
    /\ UNCHANGED <<settings, dir, full, files, erase_, outcome, faults, crashes>>

\* The exception leaves on_eom before the mail is processed; xxfi_eom defers it.
EomDumpThrows(m) ==
    /\ stage[m] = "new"
    /\ dump_email_on_panic[m]
    /\ NoDirectory
    /\ outcome' = [outcome EXCEPT ![m] = "nodump"]
    /\ Goes(m, "left")
    /\ UNCHANGED <<settings, dir, full, files, erase_, faults, crashes>>

-----------------------------------------------------------------------------
(* on_eom *)

\* The exceptions whose handlers dump the mail. Those of verify_signature and of perform() have
\* handlers of their own, which answer and no more.
Caught == {"exception"}

Process(m) ==
    /\ stage[m] = "processing"
    /\ \E o \in {"answered", "verify", "resend", "exception"} :
          /\ outcome' = [outcome EXCEPT ![m] = o]
          /\ Goes(m, IF o \in Caught THEN "caught" ELSE "leaving")
    /\ UNCHANGED <<settings, dir, full, files, erase_, faults, crashes>>

ExceptionDump(m) ==
    /\ stage[m] = "caught"
    /\ dump_email_on_panic[m]
    /\ ~NoDirectory
    /\ Written(m, "exception-")
    /\ Goes(m, "leaving")
    /\ UNCHANGED <<settings, full, erase_, outcome, faults, crashes>>

ExceptionNoDump(m) ==
    /\ stage[m] = "caught"
    /\ ~dump_email_on_panic[m]
    /\ Goes(m, "leaving")
    /\ UNCHANGED <<settings, dir, full, files, erase_, outcome, faults, crashes>>

\* This exception leaves the handler, and on_eom.
ExceptionDumpThrows(m) ==
    /\ stage[m] = "caught"
    /\ dump_email_on_panic[m]
    /\ NoDirectory
    /\ outcome' = [outcome EXCEPT ![m] = "nodump"]
    /\ Goes(m, "leaving")
    /\ UNCHANGED <<settings, dir, full, files, erase_, faults, crashes>>

-----------------------------------------------------------------------------
(* dump_email::~dump_email *)

Mine(m) == {f \in files : f.mail = m /\ f.prefix = "crash-"}

\* remove() finds nothing to remove where there is no file, but may not look into a closed
\* directory nor change a readonly one.
Removable(m) == dir # "closed" /\ (dir = "readonly" => Mine(m) = {})

\* Mutant of Removed: the directory is cleared of crash- files.
RemovedAll(m) == {f \in files : f.prefix = "crash-"}

\* Mutant of Removed: eraseOnDestruct is not passed on.
RemovedNone(m) == {}

\* Mutant of Removed: both files of the mail go.
RemovedBoth(m) == {f \in files : f.mail = m}

Removed(m) == Mine(m)

Destroy(m) ==
    /\ stage[m] = "leaving"
    /\ erase_[m] => Removable(m)
    /\ files' = IF erase_[m] THEN files \ Removed(m) ELSE files
    /\ Goes(m, "left")
    /\ UNCHANGED <<settings, dir, full, erase_, outcome, faults, crashes>>

ProcessDies ==
    stage' = [m \in Mail |-> IF stage[m] \in InProcess THEN "died" ELSE stage[m]]

\* What remove() throws may not leave a destructor: std::terminate ends the whole process.
DestroyTerminates(m) ==
    /\ stage[m] = "leaving"
    /\ erase_[m]
    /\ ~Removable(m)
    /\ ProcessDies
    /\ UNCHANGED <<settings, dir, full, files, erase_, outcome, faults, crashes>>

-----------------------------------------------------------------------------
(* What comes from outside. The process is started again at once. *)

Crash ==
    /\ crashes < MaxCrashes
    /\ crashes' = crashes + 1
    /\ ProcessDies
    /\ UNCHANGED <<settings, dir, full, files, erase_, outcome, faults>>

\* The directory is removed with what is in it, comes back, or has its mode changed.
ChangeDir ==
    /\ faults < MaxFaults
    /\ faults' = faults + 1
    /\ \E d \in Dir \ {dir} :
          /\ dir' = d
          /\ files' = IF d = "absent" THEN {} ELSE files
    /\ UNCHANGED <<settings, full, stage, erase_, outcome, crashes>>

ChangeDisk ==
    /\ faults < MaxFaults
    /\ faults' = faults + 1
    /\ full' = ~full
    /\ UNCHANGED <<settings, dir, files, stage, erase_, outcome, crashes>>

Next ==
    \/ \E m \in Mail :
          \/ EomDump(m) \/ EomNoDump(m) \/ EomDumpThrows(m)
          \/ Process(m)
          \/ ExceptionDump(m) \/ ExceptionNoDump(m) \/ ExceptionDumpThrows(m)
          \/ Destroy(m) \/ DestroyTerminates(m)
    \/ Crash \/ ChangeDir \/ ChangeDisk

Spec == Init /\ [][Next]_vars

-----------------------------------------------------------------------------
(* Properties *)

Whole(m, prefix) == [mail |-> m, prefix |-> prefix, whole |-> TRUE] \in files

\* The file system has worked so far: what ChangeDir and ChangeDisk do has not come yet.
Healthy == faults = 0 /\ dir \in {"absent", "writable"}

\* config.ini, dump_email_on_panic: on a file system that works, a mail that was being processed
\* when the process died is on disk, whichever of the others were processed, failed or done by then.
DiedIsOnDisk ==
    Healthy =>
        \A m \in Mail : stage[m] = "died" /\ dump_email_on_panic[m] => Whole(m, "crash-")

\* on_eom's catch blocks: on a file system that works, a mail whose processing failed stays on disk
\* for good.
FailedIsKept ==
    Healthy =>
        \A m \in Mail :
            stage[m] = "left" /\ outcome[m] = "exception" /\ dump_email_on_panic[m] =>
                Whole(m, "exception-")

\* ~dump_email: what is found in a crash- file was never finished, however the directory, crashes and
\* the destructors that end the process come together.
CrashFileMeansCrash ==
    \A f \in files : f.prefix = "crash-" => stage[f.mail] \in InProcess \cup {"died"}

\* ~dump_email: the program removes a file only as its own mail is done, and no exception- file at
\* all: one that ends the process takes no other mail's file with it.
OnlyOwnRemoved ==
    [][\A f \in files \ files' :
          \/ f.prefix = "crash-" /\ stage[f.mail] = "leaving" /\ stage'[f.mail] = "left"
          \/ dir # "absent" /\ dir' = "absent"]_vars

\* config.ini: "emails are dumped to the filesystem when a panic condition occurs (i.e. crash or
\* exceptions during processing)".
EveryExceptionDumped ==
    \A m \in Mail :
        /\ stage[m] = "left"
        /\ outcome[m] \in {"verify", "resend", "exception"}
        /\ dump_email_on_panic[m]
        => Whole(m, "exception-")

\* dump_email's message "Email dumped into {}".
ProcessedIsDumped ==
    \A m \in Mail : stage[m] = "processing" /\ erase_[m] => Whole(m, "crash-")
=============================================================================
