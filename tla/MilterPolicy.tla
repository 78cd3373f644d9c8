---------------------------- MODULE MilterPolicy ----------------------------
(* MilterConnection implements MailPolicy: the refinement mapping. *)
EXTENDS MilterConnection

\* The callbacks up to the RCPT answers are the envelope, the ones from DATA to the answer of
\* xxfi_eom the content; what follows is named by that answer.
PolicyStage ==
    CASE phase \in {"closed", "noctx", "idle"} -> "none"
      [] phase = "mail" -> "envelope"
      [] phase \in {"data", "eoh", "sections", "sending"} -> "content"
      [] phase = "done" -> IF \E m \in mails : m.via = "unchanged" THEN "passed" ELSE "continue"
      [] phase = "refused" -> reply

\* What left encrypted, by the section that encrypted it.
PolicyServed == UNION {m.rcpts \X {m.section} : m \in {n \in mails : n.via # "unchanged"}}

MP == INSTANCE MailPolicy WITH
    stage <- PolicyStage, promised <- owed, served <- PolicyServed

\* milter_message as a whole: whatever the MTA, the keyrings, the key server, libcurl and a
\* reload do, the callbacks treat every mail as MailPolicy allows.
ImplementsPolicy == MP!Spec

\* The same, as the state the policy guarantees: see MailPolicy!Guarantee.
PolicyGuarantee == MP!Guarantee
=============================================================================
