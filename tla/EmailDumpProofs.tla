-------------------------- MODULE EmailDumpProofs --------------------------
(***************************************************************************)
(* What EmailDump promises, for any set of mails: that what is found on    *)
(* disk can be believed, whatever is done to the directory (DumpInv), and  *)
(* that what should be found is, while the file system works (KeptInv).    *)
(***************************************************************************)
EXTENDS EmailDump, TLAPS

\* A crash- file belongs to an unfinished mail, whose dump_email will remove it.
DumpInv ==
    /\ TypeOK
    /\ \A f \in files :
          f.prefix = "crash-" => stage[f.mail] \in InProcess \cup {"died"} /\ erase_[f.mail]

\* While the file system works, an unfinished mail is on disk from its first step, a failed one from
\* the end of its handler.
Kept ==
    \A m \in Mail :
        /\ stage[m] \in InProcess \cup {"died"} /\ dump_email_on_panic[m] => Whole(m, "crash-")
        /\ stage[m] \in {"leaving", "left"} /\ outcome[m] = "exception" /\ dump_email_on_panic[m]
              => Whole(m, "exception-")

KeptInv ==
    /\ DumpInv
    /\ faults = 0 => ~full
    /\ Healthy => Kept
    \* no mail is under way without the directory it was dumped to
    /\ faults = 0 /\ dir = "absent" =>
          \A m \in Mail :
              /\ stage[m] \in InProcess \cup {"died"} => ~dump_email_on_panic[m]
              /\ outcome[m] = "exception" => ~dump_email_on_panic[m]

-----------------------------------------------------------------------------
(* One step *)

\* What dump_email writes: one file of this mail, and nothing is lost. On a file system that works it
\* is whole.
LEMMA WrittenAdds ==
    ASSUME TypeOK, NEW m \in Mail, NEW prefix \in {"crash-", "exception-"}, Written(m, prefix)
    PROVE  /\ dir' \in Dir
           /\ files' \subseteq File
           /\ dir' # "absent"
           /\ files \subseteq files'
           /\ \A f \in files' \ files : f.mail = m /\ f.prefix = prefix
           /\ dir \in {"absent", "writable"} => dir' = "writable"
           /\ dir' = "writable" /\ ~full => [mail |-> m, prefix |-> prefix, whole |-> TRUE] \in files'
<1> DEFINE new == [mail |-> m, prefix |-> prefix, whole |-> ~full]
<1>1. new \in File /\ new.mail = m /\ new.prefix = prefix
  BY DEF TypeOK, File
<1>2. dir' \in Dir /\ dir' # "absent" /\ (dir \in {"absent", "writable"} => dir' = "writable")
  BY DEF Written, TypeOK, Dir
<1>3. files' = files \cup {new} \/ files' = files
  BY DEF Written
<1>4. dir' = "writable" => files' = files \cup {new}
  BY DEF Written
<1>5. ~full => new = [mail |-> m, prefix |-> prefix, whole |-> TRUE]
  BY DEF TypeOK
<1> HIDE DEF new
<1> QED
  BY <1>1, <1>2, <1>3, <1>4, <1>5 DEF TypeOK

LEMMA InitDumpInv == Init => DumpInv
<1> SUFFICES ASSUME Init PROVE DumpInv
  OBVIOUS
<1>1. faults \in 0 .. MaxFaults /\ crashes \in 0 .. MaxCrashes
  BY BoundsAssumption DEF Init
<1> QED
  BY <1>1 DEF Init, DumpInv, TypeOK

LEMMA StepDumpInv == DumpInv /\ [Next]_vars => DumpInv'
<1> SUFFICES ASSUME DumpInv, [Next]_vars PROVE DumpInv'
  OBVIOUS
<1> USE DEF DumpInv, TypeOK, InProcess, Goes, settings
<1>1. ASSUME NEW m \in Mail, EomDump(m) PROVE DumpInv'
  <2>1. /\ dir' \in Dir /\ dir' # "absent" /\ files' \subseteq File
        /\ \A f \in files' \ files : f.mail = m /\ f.prefix = "crash-"
    <3>1. Written(m, "crash-") /\ TypeOK
      BY <1>1 DEF EomDump
    <3> QED
      BY <3>1, WrittenAdds
  <2>2. TypeOK'
    BY <1>1, <2>1 DEF EomDump
  <2> QED
    BY <1>1, <2>1, <2>2 DEF EomDump, File
<1>2. ASSUME NEW m \in Mail, EomNoDump(m) PROVE DumpInv'
  BY <1>2 DEF EomNoDump, File
<1>3. ASSUME NEW m \in Mail, EomDumpThrows(m) PROVE DumpInv'
  BY <1>3 DEF EomDumpThrows, File
<1>4. ASSUME NEW m \in Mail, Process(m) PROVE DumpInv'
  BY <1>4 DEF Process, File
<1>5. ASSUME NEW m \in Mail, ExceptionDump(m) PROVE DumpInv'
  <2>1. /\ dir' \in Dir /\ dir' # "absent" /\ files' \subseteq File
        /\ \A f \in files' \ files : f.mail = m /\ f.prefix = "exception-"
    <3>1. Written(m, "exception-") /\ TypeOK
      BY <1>5 DEF ExceptionDump
    <3> QED
      BY <3>1, WrittenAdds
  <2>2. TypeOK'
    BY <1>5, <2>1 DEF ExceptionDump
  <2> QED
    BY <1>5, <2>1, <2>2 DEF ExceptionDump, File
<1>6. ASSUME NEW m \in Mail, ExceptionNoDump(m) PROVE DumpInv'
  BY <1>6 DEF ExceptionNoDump, File
<1>7. ASSUME NEW m \in Mail, ExceptionDumpThrows(m) PROVE DumpInv'
  BY <1>7 DEF ExceptionDumpThrows, File
<1>8. ASSUME NEW m \in Mail, Destroy(m) PROVE DumpInv'
  BY <1>8 DEF Destroy, Removed, Mine, File
<1>9. ASSUME NEW m \in Mail, DestroyTerminates(m) PROVE DumpInv'
  BY <1>9 DEF DestroyTerminates, ProcessDies, File
<1>10. CASE Crash
  BY <1>10, BoundsAssumption DEF Crash, ProcessDies, File
<1>11. CASE ChangeDir
  BY <1>11, BoundsAssumption DEF ChangeDir, File
<1>12. CASE ChangeDisk
  BY <1>12, BoundsAssumption DEF ChangeDisk, File
<1>13. CASE UNCHANGED vars
  BY <1>13 DEF vars
<1> QED
  BY <1>1, <1>2, <1>3, <1>4, <1>5, <1>6, <1>7, <1>8, <1>9, <1>10, <1>11, <1>12, <1>13 DEF Next

\* Every state satisfies DumpInv, on any file system.
THEOREM DumpInvariance == Spec => []DumpInv
<1> QED
  BY InitDumpInv, StepDumpInv, PTL DEF Spec

-----------------------------------------------------------------------------
(* On any file system *)

\* dump_email and on_eom: the types, with an absent directory holding nothing.
THEOREM TypeCorrect == Spec => []TypeOK
<1>1. DumpInv => TypeOK
  BY DEF DumpInv
<1> QED
  BY <1>1, DumpInvariance, PTL

\* ~dump_email: a crash- file means that its mail was not finished.
THEOREM CrashFilesBelieved == Spec => []CrashFileMeansCrash
<1>1. DumpInv => CrashFileMeansCrash
  BY DEF DumpInv, CrashFileMeansCrash
<1> QED
  BY <1>1, DumpInvariance, PTL

\* ~dump_email: the program removes no file but the crash- file of the mail that is done.
THEOREM RemovesItsOwn == Spec => OnlyOwnRemoved
<1> DEFINE Own == \A f \in files \ files' :
                     \/ f.prefix = "crash-" /\ stage[f.mail] = "leaving" /\ stage'[f.mail] = "left"
                     \/ dir # "absent" /\ dir' = "absent"
<1>1. DumpInv /\ [Next]_vars => [Own]_vars
  <2> SUFFICES ASSUME DumpInv, [Next]_vars, NEW f \in files \ files'
               PROVE \/ f.prefix = "crash-" /\ stage[f.mail] = "leaving" /\ stage'[f.mail] = "left"
                     \/ dir # "absent" /\ dir' = "absent"
    OBVIOUS
  <2> USE DEF DumpInv
  <2>1. ASSUME NEW m \in Mail, EomDump(m) \/ ExceptionDump(m) PROVE FALSE
    BY <2>1, WrittenAdds DEF EomDump, ExceptionDump
  <2>2. ASSUME NEW m \in Mail, Destroy(m)
        PROVE  f.prefix = "crash-" /\ stage[f.mail] = "leaving" /\ stage'[f.mail] = "left"
    BY <2>2 DEF Destroy, Removed, Mine, Goes, TypeOK
  <2>3. CASE ChangeDir
    BY <2>3 DEF ChangeDir
  <2>4. files' = files \/ ChangeDir
           \/ \E m \in Mail : EomDump(m) \/ ExceptionDump(m) \/ Destroy(m)
    BY DEF Next, vars, EomNoDump, EomDumpThrows, Process, ExceptionNoDump, ExceptionDumpThrows,
           DestroyTerminates, Crash, ChangeDisk
  <2> QED
    BY <2>1, <2>2, <2>3, <2>4
<1> QED
  BY <1>1, DumpInvariance, PTL DEF Spec, OnlyOwnRemoved

-----------------------------------------------------------------------------
(* While the file system works *)

LEMMA InitKeptInv == Init => KeptInv
<1> SUFFICES ASSUME Init PROVE KeptInv
  OBVIOUS
<1> QED
  BY InitDumpInv DEF KeptInv, Kept, Init, InProcess

LEMMA StepKeptInv == KeptInv /\ [Next]_vars => KeptInv'
<1> SUFFICES ASSUME KeptInv, [Next]_vars PROVE KeptInv'
  OBVIOUS
<1>1. DumpInv'
  BY StepDumpInv DEF KeptInv
<1> USE DEF KeptInv, Kept, Healthy, InProcess, Goes, Whole, settings
<1>2. TypeOK /\ TypeOK'
  BY <1>1 DEF DumpInv
<1>3. ASSUME NEW m \in Mail, EomDump(m) PROVE KeptInv'
  <2>1. Written(m, "crash-") /\ stage[m] = "new" /\ faults' = faults /\ full' = full
    BY <1>3 DEF EomDump
  <2>2. /\ files \subseteq files' /\ dir' # "absent"
        /\ dir \in {"absent", "writable"} => dir' = "writable"
        /\ dir' = "writable" /\ ~full =>
               [mail |-> m, prefix |-> "crash-", whole |-> TRUE] \in files'
    BY <1>2, <2>1, WrittenAdds
  <2> QED
    BY <1>1, <1>2, <1>3, <2>2 DEF EomDump, Written, TypeOK
<1>4. ASSUME NEW m \in Mail, EomNoDump(m) PROVE KeptInv'
  BY <1>1, <1>2, <1>4 DEF EomNoDump, TypeOK
<1>5. ASSUME NEW m \in Mail, EomDumpThrows(m) PROVE KeptInv'
  BY <1>1, <1>2, <1>5 DEF EomDumpThrows, TypeOK
<1>6. ASSUME NEW m \in Mail, Process(m) PROVE KeptInv'
  BY <1>1, <1>2, <1>6 DEF Process, Caught, TypeOK
<1>7. ASSUME NEW m \in Mail, ExceptionDump(m) PROVE KeptInv'
  <2>1. Written(m, "exception-") /\ stage[m] = "caught" /\ faults' = faults /\ full' = full
    BY <1>7 DEF ExceptionDump
  <2>2. /\ files \subseteq files' /\ dir' # "absent"
        /\ dir \in {"absent", "writable"} => dir' = "writable"
        /\ dir' = "writable" /\ ~full =>
               [mail |-> m, prefix |-> "exception-", whole |-> TRUE] \in files'
    BY <1>2, <2>1, WrittenAdds
  <2> QED
    BY <1>1, <1>2, <1>7, <2>2 DEF ExceptionDump, Written, TypeOK
<1>8. ASSUME NEW m \in Mail, ExceptionNoDump(m) PROVE KeptInv'
  BY <1>1, <1>2, <1>8 DEF ExceptionNoDump, TypeOK
<1>9. ASSUME NEW m \in Mail, ExceptionDumpThrows(m) PROVE KeptInv'
  BY <1>1, <1>2, <1>9 DEF ExceptionDumpThrows, NoDirectory, TypeOK
<1>10. ASSUME NEW m \in Mail, Destroy(m) PROVE KeptInv'
  BY <1>1, <1>2, <1>10 DEF Destroy, Removed, Mine, TypeOK
<1>11. ASSUME NEW m \in Mail, DestroyTerminates(m) PROVE KeptInv'
  BY <1>1, <1>2, <1>11 DEF DestroyTerminates, ProcessDies, TypeOK
<1>12. CASE Crash
  BY <1>1, <1>2, <1>12 DEF Crash, ProcessDies, TypeOK
<1>13. CASE ChangeDir \/ ChangeDisk
  <2>1. faults' # 0
    BY <1>2, <1>13, BoundsAssumption DEF ChangeDir, ChangeDisk, TypeOK
  <2> QED
    BY <1>1, <2>1
<1>14. CASE UNCHANGED vars
  BY <1>1, <1>14 DEF vars
<1> QED
  BY <1>3, <1>4, <1>5, <1>6, <1>7, <1>8, <1>9, <1>10, <1>11, <1>12, <1>13, <1>14 DEF Next

\* Every state satisfies KeptInv.
THEOREM KeptInvariance == Spec => []KeptInv
<1> QED
  BY InitKeptInv, StepKeptInv, PTL DEF Spec

\* dump_email_on_panic, crash: whatever was being processed when the process died is on disk.
THEOREM DiedOnDisk == Spec => []DiedIsOnDisk
<1>1. KeptInv => DiedIsOnDisk
  BY DEF KeptInv, Kept, DiedIsOnDisk
<1> QED
  BY <1>1, KeptInvariance, PTL

\* dump_email_on_panic, exceptions that on_eom's catch blocks see: the mail stays on disk.
THEOREM FailedKept == Spec => []FailedIsKept
<1>1. KeptInv => FailedIsKept
  BY DEF KeptInv, Kept, FailedIsKept
<1> QED
  BY <1>1, KeptInvariance, PTL
=============================================================================
