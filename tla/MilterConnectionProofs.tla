----------------------- MODULE MilterConnectionProofs -----------------------
(***************************************************************************)
(* Theorems about MilterConnection and MilterPolicy, for every value of    *)
(* the constants: the types and what holds where dump_email does not fail, *)
(* the loop of on_eom and what holds in any case, and the refinement of    *)
(* MailPolicy.                                                             *)
(***************************************************************************)
EXTENDS MilterPolicy, TLAPS

USE NoSectionAssumption, NoConfigAssumption, MaxTxnAssumption

\* get_context keeps contexts_ a sequence of sections, with s among them.
LEMMA GetContextType ==
    ASSUME contexts_ \in Seq(Section), NEW s \in Section
    PROVE  get_context(s) \in Seq(Section)
BY DEF get_context

\* A fresh message has well-typed fields, and so have the locals of on_eom before it runs.
LEMMA FreshType == FreshFields => MessageTypeOK'
<1> SUFFICES ASSUME FreshFields PROVE MessageTypeOK'
    OBVIOUS
<1>1. recipients' \in [Section -> [Rcpt -> Presence]]
    BY DEF FreshFields, NoRecipients, Presence
<1>2. good_recipients' \in [Section -> SUBSET Rcpt] /\ written' \in [Section -> SUBSET Txn]
    BY DEF FreshFields, Nothing
<1> QED
    BY <1>1, <1>2 DEF FreshFields, MessageTypeOK, Signature

LEMMA NoEomType == NoEom => EomTypeOK'
BY DEF NoEom, EomTypeOK

LEMMA InitTypeOK == Init => TypeOK
<1> SUFFICES ASSUME Init PROVE TypeOK
    OBVIOUS
<1>1. recipients \in [Section -> [Rcpt -> Presence]]
    BY DEF Init, NoRecipients, Presence
<1>2. good_recipients \in [Section -> SUBSET Rcpt] /\ written \in [Section -> SUBSET Txn]
    BY DEF Init, Nothing
<1>3. MessageTypeOK
    BY <1>1, <1>2 DEF Init, MessageTypeOK, Signature
<1>4. EomTypeOK /\ MtaTypeOK
    BY DEF Init, EomTypeOK, MtaTypeOK
<1> QED
    BY <1>3, <1>4 DEF Init, TypeOK

LEMMA StepTypeOK == TypeOK /\ [Next]_vars => TypeOK'
<1> SUFFICES ASSUME TypeOK, [Next]_vars PROVE TypeOK'
    OBVIOUS
<1> USE FreshType, NoEomType DEF MtaTypeOK
<1>1. CASE xxfi_connect
    BY <1>1 DEF TypeOK, MessageTypeOK, EomTypeOK, xxfi_connect, msgVars, eomVars, histVars
<1>2. CASE NoContext
    BY <1>2 DEF TypeOK, MessageTypeOK, EomTypeOK, NoContext, msgVars, eomVars, histVars
<1>3. CASE xxfi_close
    BY <1>3 DEF TypeOK, MessageTypeOK, EomTypeOK, xxfi_close, msgVars, eomVars, histVars, ResetMessage
<1>4. CASE xxfi_abort
    BY <1>4 DEF TypeOK, MessageTypeOK, EomTypeOK, xxfi_abort, eomVars, ResetMessage
<1>5. CASE set_config
    BY <1>5 DEF TypeOK, MessageTypeOK, EomTypeOK, set_config, msgVars, eomVars, mtaVars, histVars
<1>6. CASE xxfi_envfrom
  <2>1. MtaTypeOK'
    BY <1>6 DEF TypeOK, xxfi_envfrom, Txn
  <2>2. /\ msg' \in BOOLEAN /\ config_' \in Config
        /\ MessageTypeOK'
    BY <1>6 DEF TypeOK, MessageTypeOK, xxfi_envfrom, GetMessage, msgVars
  <2> QED
    BY <1>6, <2>1, <2>2 DEF TypeOK, EomTypeOK, xxfi_envfrom, eomVars
<1>7. CASE xxfi_data
    BY <1>7 DEF TypeOK, MessageTypeOK, EomTypeOK, xxfi_data, Keyed, eomVars, histVars
<1>8. CASE xxfi_header
    BY <1>8 DEF TypeOK, MessageTypeOK, EomTypeOK, xxfi_header, eomVars, histVars, Signature
<1>9. CASE xxfi_eoh
    BY <1>9 DEF TypeOK, MessageTypeOK, EomTypeOK, xxfi_eoh, msgVars, eomVars, histVars
<1>10. CASE xxfi_body
    BY <1>10 DEF TypeOK, MessageTypeOK, EomTypeOK, xxfi_body, eomVars, histVars
<1>11. CASE \E r \in Rcpt : RcptUnmatched(r)
    BY <1>11 DEF TypeOK, MessageTypeOK, EomTypeOK, RcptUnmatched, Refuse, RcptRest, eomVars
<1>12. CASE \E r \in Rcpt, s \in Section :
              \/ RcptKeyFound(r, s) \/ RcptDiscarded(r, s) \/ RcptRetrieved(r, s)
              \/ RcptRefused(r, s) \/ RcptThrows(r, s)
  <2>1. PICK r \in Rcpt, s \in Section :
            \/ RcptKeyFound(r, s) \/ RcptDiscarded(r, s) \/ RcptRetrieved(r, s)
            \/ RcptRefused(r, s) \/ RcptThrows(r, s)
    BY <1>12
  <2>2. RcptMatched(r, s)
    BY <2>1 DEF RcptKeyFound, RcptDiscarded, RcptRetrieved, RcptRefused, RcptThrows
  <2>3. contexts_' \in Seq(Section)
    BY <2>2, GetContextType DEF TypeOK, MessageTypeOK, EomTypeOK, RcptMatched
  <2>4. CASE \E presence \in {"key", "nokey"} : Accept(r, s, presence)
    <3>1. PICK presence \in {"key", "nokey"} : Accept(r, s, presence)
      BY <2>4
    <3>2. recipients' \in [Section -> [Rcpt -> Presence]]
      BY <3>1 DEF Accept, TypeOK, MessageTypeOK, Presence
    <3>3. owed' \subseteq Rcpt \X Section
      BY <3>1 DEF Accept, TypeOK
    <3> QED
      BY <2>2, <2>3, <3>1, <3>2, <3>3 DEF TypeOK, MessageTypeOK, EomTypeOK, RcptMatched, RcptRest, Accept, eomVars
  <2>5. CASE \E answer \in {"reject", "tempfail"} : Refuse(answer)
    BY <2>2, <2>3, <2>5 DEF TypeOK, MessageTypeOK, EomTypeOK, RcptMatched, RcptRest, Refuse, eomVars
  <2> QED
    BY <2>1, <2>4, <2>5 DEF RcptKeyFound, RcptDiscarded, RcptRetrieved, RcptRefused, RcptThrows
<1>13. CASE EomDumpThrows
    BY <1>13 DEF TypeOK, MessageTypeOK, EomTypeOK, EomDumpThrows, EomEscape, NoEom, histVars
<1>14. CASE EomSignatureVerifies
  <2>1. mails' \subseteq Mail
    BY <1>14 DEF TypeOK, EomSignatureVerifies, Mail
  <2> QED
    BY <1>14, <2>1 DEF TypeOK, EomSignatureVerifies, EomReturn, NoEom, ResetMessage
<1>15. CASE EomSignatureRefused
    BY <1>15 DEF TypeOK, EomSignatureRefused, EomReturn, NoEom, ResetMessage
<1>16. CASE EomUnsigned
    BY <1>16 DEF TypeOK, MessageTypeOK, EomTypeOK, EomUnsigned, msgVars, histVars
<1>17. CASE \E s \in Section : EomSkipSection(s)
    BY <1>17 DEF TypeOK, MessageTypeOK, EomTypeOK, EomSkipSection, msgVars, mtaVars, histVars
<1>18. CASE \E s \in Section : EomReplaceBody(s)
    BY <1>18 DEF TypeOK, MessageTypeOK, EomTypeOK, EomReplaceBody, update_milter_recipients, Written, histVars
<1>19. CASE \E s \in Section : EomReplaceBodyFails(s)
    BY <1>19 DEF TypeOK, EomReplaceBodyFails, AtSection, EomReturn, NoEom, ResetMessage
<1>20. CASE \E s \in Section : EomWorkItem(s)
    BY <1>20 DEF TypeOK, MessageTypeOK, EomTypeOK, EomWorkItem, Written, mtaVars, histVars
<1>21. CASE EomCatch
    BY <1>21 DEF TypeOK, EomCatch, CanThrow, EomReturn, NoEom, ResetMessage
<1>22. CASE EomCatchThrows
    BY <1>22 DEF TypeOK, MessageTypeOK, EomTypeOK, EomCatchThrows, CanThrow, EomEscape, NoEom,
                 Written, histVars
<1>23. CASE EomNothingToSend
  <2>1. MilterCopy \subseteq Mail
    BY <1>23 DEF TypeOK, MessageTypeOK, EomTypeOK, MilterCopy, Mail, Txn, EomNothingToSend
  <2> QED
    BY <1>23, <2>1 DEF TypeOK, EomNothingToSend, EomReturn, NoEom, ResetMessage
<1>24. CASE EomSend
    BY <1>24 DEF TypeOK, MessageTypeOK, EomTypeOK, EomSend, msgVars, histVars
<1>25. CASE \E s \in Section : TransferEnds(s)
  <2>1. \A s \in Section : Copy(s) \in Mail
    BY DEF TypeOK, MessageTypeOK, EomTypeOK, Copy, Mail
  <2> QED
    BY <1>25, <2>1 DEF TypeOK, MessageTypeOK, EomTypeOK, TransferEnds, msgVars, mtaVars
<1>26. CASE PerformThrows
    BY <1>26 DEF TypeOK, PerformThrows, EomReturn, NoEom, ResetMessage
<1>27. CASE PerformReturns
  <2>1. MilterCopy \subseteq Mail
    BY <1>27 DEF TypeOK, MessageTypeOK, EomTypeOK, MilterCopy, Mail, Txn, PerformReturns
  <2> QED
    BY <1>27, <2>1 DEF TypeOK, PerformReturns, EomReturn, NoEom, ResetMessage
<1>28. CASE UNCHANGED vars
    BY <1>28 DEF TypeOK, MessageTypeOK, EomTypeOK, vars, msgVars, eomVars, mtaVars, histVars
<1> QED
    BY <1>1, <1>2, <1>3, <1>4, <1>5, <1>6, <1>7, <1>8, <1>9, <1>10, <1>11, <1>12, <1>13, <1>14,
       <1>15, <1>16, <1>17, <1>18, <1>19, <1>20, <1>21, <1>22, <1>23, <1>24, <1>25, <1>26, <1>27,
       <1>28
    DEF Next, xxfi_envrcpt, xxfi_eom, EomSection

\* Every variable keeps its type.
THEOREM TypeCorrect == Spec => []TypeOK
BY InitTypeOK, StepTypeOK, PTL DEF Spec

-----------------------------------------------------------------------------
(* OwnCopiesOnly, in a deployment where dump_email does not fail *)

InTransaction == phase \in {"mail", "data", "eoh", "sections", "sending"}
PastData == phase \in {"data", "eoh", "sections", "sending"}

\* A message lives exactly during a transaction, or after a refusal without any key or text.
Lifetime ==
    /\ InTransaction => msg
    /\ phase \in {"closed", "noctx", "idle", "done"} => ~msg
    /\ phase \notin {"closed", "noctx"} => priv

\* The two booleans kept per recipient agree with what the MTA was promised.
Promises ==
    /\ InTransaction => \A r \in Rcpt, s \in Section : r \in Keyed(s) <=> <<r, s>> \in owed
    /\ ~InTransaction => \A s \in Section : Keyed(s) = {}
    /\ IF PastData THEN \A s \in Section : good_recipients[s] = Keyed(s)
       ELSE good_recipients = Nothing
    /\ \A p \in owed : p[1] \in accepted
    /\ InTransaction => accepted \subseteq recipients_all_

\* Every text at hand is this transaction's.
Texts ==
    /\ body_ \subseteq {txn}
    /\ \A s \in Section : written[s] \subseteq {txn}
    /\ phase \notin {"eoh", "sections", "sending"} => body_ = {}
    /\ phase \notin {"data", "eoh", "sections", "sending"} => signature_header_ = NoSig
    /\ ~InEom => written = Nothing

\* Past DATA some section has a good recipient.
SomeGood == PastData => \E s \in Section : Keyed(s) # {}

\* What the loop over contexts_ has done so far.
Loop ==
    /\ InEom => pos >= 1
    /\ phase = "sending" => LoopEnded
    /\ InEom /\ replaced_by = NoSection =>
          \A k \in DOMAIN contexts_ : k < pos => ~HasGood(contexts_[k])
    /\ InEom /\ replaced_by # NoSection => recipients_all_ \ good_recipients[replaced_by] \subseteq deleted
    /\ ~InEom => replaced_by = NoSection

\* Nothing leaves before the loop is over.
NoCopyYet == phase \in {"mail", "data", "eoh", "sections"} => mails = {}

IInv ==
    /\ Lifetime /\ SnapshotMatch /\ Promises /\ Texts
    /\ SomeGood /\ Loop /\ NoCopyYet /\ OwnCopiesOnly

\* Dropping the message at the end of a transaction re-establishes the invariant.
LEMMA ResetInv ==
    ASSUME ResetMessage,
           phase' \in {"closed", "idle", "done", "refused"},
           phase' # "closed" => priv',
           replaced_by' = NoSection,
           \A p \in owed' : p[1] \in accepted',
           OwnCopiesOnly'
    PROVE  IInv'
<1>1. \A s \in Section, r \in Rcpt : recipients'[s][r] = "absent"
    BY DEF ResetMessage, FreshFields, NoRecipients
<1>2. SnapshotMatch' /\ \A s \in Section : Keyed(s)' = {}
    BY <1>1 DEF SnapshotMatch, Keyed
<1>3. Promises'
    BY <1>2 DEF Promises, InTransaction, PastData, ResetMessage, FreshFields
<1>4. Texts'
    BY DEF Texts, InEom, ResetMessage, FreshFields, Nothing
<1> QED
    BY <1>2, <1>3, <1>4 DEF IInv, Lifetime, InTransaction, SomeGood, PastData, Loop, InEom,
                            NoCopyYet, ResetMessage

LEMMA InitIInv == Init => IInv
<1> SUFFICES ASSUME Init PROVE IInv
    OBVIOUS
<1>1. \A s \in Section, r \in Rcpt : recipients[s][r] = "absent"
    BY DEF Init, NoRecipients
<1>2. SnapshotMatch /\ \A s \in Section : Keyed(s) = {}
    BY <1>1 DEF SnapshotMatch, Keyed
<1>3. Promises /\ Texts
    BY <1>2 DEF Init, Promises, InTransaction, PastData, Texts, InEom, Nothing
<1> QED
    BY <1>2, <1>3 DEF Init, IInv, Lifetime, InTransaction, SomeGood, PastData, Loop, InEom,
                      NoCopyYet, OwnCopiesOnly

\* Nothing the invariant speaks of moves, except the phase within one of its classes.
LEMMA QuietInv ==
    ASSUME IInv, UNCHANGED <<msg, config_, contexts_, recipients, good_recipients, recipients_all_,
                             accepted, txn, histVars>>,
           UNCHANGED <<body_, written, signature_header_, pos, replaced_by, deleted>>,
           UNCHANGED phase, UNCHANGED priv
    PROVE  IInv'
<1>1. /\ \A s \in Section : Keyed(s)' = Keyed(s)
      /\ \A s \in Section : HasGood(s)' = HasGood(s)
      /\ \A s \in Section : InContexts(s)' = InContexts(s)
    BY DEF Keyed, HasGood, InContexts
<1>2. SnapshotMatch' /\ OwnCopiesOnly'
    BY <1>1 DEF IInv, SnapshotMatch, OwnCopiesOnly, histVars, InContexts
<1>3. Promises' /\ SomeGood'
    BY <1>1 DEF IInv, Promises, SomeGood, InTransaction, PastData, histVars
<1> QED
    BY <1>2, <1>3 DEF IInv, Lifetime, InTransaction, Texts, InEom, Loop, LoopEnded, HasGood,
                      NoCopyYet, histVars

\* get_context keeps every context and adds the section's own.
LEMMA GetContextHolds ==
    ASSUME TypeOK, NEW s \in Section, contexts_' = get_context(s),
           NEW t \in Section, InContexts(t) \/ t = s
    PROVE  InContexts(t)'
<1>1. CASE InContexts(s)
    BY <1>1 DEF get_context, InContexts
<1>2. CASE ~InContexts(s)
  <2>1. contexts_' = Append(contexts_, s) /\ contexts_ \in Seq(Section)
    BY <1>2 DEF get_context, InContexts, TypeOK, MessageTypeOK
  <2>2. CASE t = s
    <3>1. Len(contexts_) + 1 \in DOMAIN contexts_' /\ contexts_'[Len(contexts_) + 1] = s
      BY <2>1
    <3> QED
      BY <2>2, <3>1 DEF InContexts
  <2>3. CASE InContexts(t)
    <3>1. PICK k \in DOMAIN contexts_ : contexts_[k] = t
      BY <2>3 DEF InContexts
    <3>2. k \in DOMAIN contexts_' /\ contexts_'[k] = t
      BY <2>1, <3>1
    <3> QED
      BY <3>2 DEF InContexts
  <2> QED
    BY <2>2, <2>3
<1> QED
    BY <1>1, <1>2

\* The envelope callbacks.
LEMMA EnvfromInv == TypeOK /\ IInv /\ xxfi_envfrom => IInv'
<1> SUFFICES ASSUME TypeOK, IInv, xxfi_envfrom PROVE IInv'
    OBVIOUS
<1>1. /\ ~InTransaction /\ ~InEom /\ ~PastData
      /\ InTransaction' /\ ~InEom' /\ ~PastData'
    BY DEF xxfi_envfrom, InTransaction, InEom, PastData
<1>2. /\ good_recipients' = Nothing /\ written' = Nothing /\ body_' = {}
      /\ signature_header_' = NoSig
      /\ msg' /\ \A s \in Section : Keyed(s)' = {}
  <2>1. CASE msg
    BY <1>1, <2>1 DEF xxfi_envfrom, GetMessage, msgVars, IInv, Promises, Texts, Keyed
  <2>2. CASE ~msg
    BY <2>2 DEF xxfi_envfrom, GetMessage, FreshFields, NoRecipients, Keyed
  <2> QED
    BY <2>1, <2>2
<1>3. SnapshotMatch'
  <2>1. CASE msg
    BY <2>1 DEF xxfi_envfrom, GetMessage, msgVars, IInv, SnapshotMatch, InContexts
  <2>2. CASE ~msg
    BY <2>2 DEF xxfi_envfrom, GetMessage, FreshFields, NoRecipients, SnapshotMatch
  <2> QED
    BY <2>1, <2>2
<1>4. Promises' /\ OwnCopiesOnly'
    BY <1>1, <1>2 DEF xxfi_envfrom, Promises, OwnCopiesOnly
<1>5. Texts' /\ SomeGood' /\ Loop'
    BY <1>1, <1>2 DEF xxfi_envfrom, eomVars, IInv, Texts, SomeGood, Loop, Nothing
<1> QED
    BY <1>1, <1>2, <1>3, <1>4, <1>5 DEF xxfi_envfrom, IInv, Lifetime, NoCopyYet

LEMMA AcceptInv ==
    ASSUME TypeOK, IInv, NEW r \in Rcpt, NEW s \in Section, NEW presence \in {"key", "nokey"},
           RcptMatched(r, s), Accept(r, s, presence)
    PROVE  IInv'
<1>1. /\ InTransaction /\ ~InEom /\ ~PastData
      /\ InTransaction' /\ ~InEom' /\ ~PastData'
    BY DEF RcptMatched, RcptRest, InTransaction, InEom, PastData
<1>2. \A t \in Section : InContexts(t) \/ t = s => InContexts(t)'
    BY GetContextHolds DEF RcptMatched
<1>3. \A t \in Section, q \in Rcpt :
          recipients'[t][q] = IF t = s /\ q = r THEN presence ELSE recipients[t][q]
    BY DEF Accept, TypeOK, MessageTypeOK
<1>4. SnapshotMatch'
    BY <1>2, <1>3 DEF IInv, SnapshotMatch, RcptMatched, RcptRest, SectionFor
<1>5. \A t \in Section, q \in Rcpt : q \in Keyed(t)' <=> <<q, t>> \in owed'
  <2> TAKE t \in Section, q \in Rcpt
  <2>1. q \in Keyed(t) <=> <<q, t>> \in owed
    BY <1>1 DEF IInv, Promises
  <2>2. CASE q = r
    <3>1. t # s => recipients[t][r] = "absent"
      BY DEF IInv, SnapshotMatch, RcptMatched, SectionFor
    <3> QED
      BY <1>3, <2>2, <3>1 DEF Accept, Keyed
  <2>3. CASE q # r
    BY <1>3, <2>1, <2>3 DEF Accept, Keyed
  <2> QED
    BY <2>2, <2>3
<1>6. Promises'
    BY <1>1, <1>5 DEF IInv, Promises, Accept, RcptMatched, RcptRest
<1>7. Lifetime' /\ Texts' /\ SomeGood' /\ Loop' /\ NoCopyYet'
    BY <1>1 DEF IInv, Lifetime, Texts, SomeGood, Loop, NoCopyYet, RcptMatched, RcptRest, eomVars
<1>8. OwnCopiesOnly'
    BY DEF IInv, OwnCopiesOnly, RcptMatched, RcptRest, NoCopyYet
<1> QED
    BY <1>4, <1>6, <1>7, <1>8 DEF IInv

LEMMA RefuseInv ==
    ASSUME TypeOK, IInv, NEW r \in Rcpt, NEW s \in Section, NEW answer,
           RcptMatched(r, s), Refuse(answer)
    PROVE  IInv'
<1>1. /\ InTransaction /\ ~InEom /\ ~PastData
      /\ InTransaction' /\ ~InEom' /\ ~PastData'
    BY DEF RcptMatched, RcptRest, InTransaction, InEom, PastData
<1>2. \A t \in Section : InContexts(t) => InContexts(t)'
    BY GetContextHolds DEF RcptMatched
<1>3. SnapshotMatch' /\ \A t \in Section : Keyed(t)' = Keyed(t)
    BY <1>2 DEF IInv, SnapshotMatch, RcptMatched, RcptRest, Refuse, Keyed
<1> QED
    BY <1>1, <1>3 DEF IInv, Lifetime, Promises, Texts, SomeGood, Loop, NoCopyYet,
                      OwnCopiesOnly, RcptMatched, RcptRest, Refuse, eomVars

\* The message callbacks.
LEMMA DataInv == TypeOK /\ IInv /\ xxfi_data => IInv'
<1> SUFFICES ASSUME TypeOK, IInv, xxfi_data PROVE IInv'
    OBVIOUS
<1>1. InTransaction /\ ~InEom /\ ~PastData /\ ~InEom'
    BY DEF xxfi_data, InTransaction, InEom, PastData
<1>2. /\ UNCHANGED <<recipients, config_, contexts_, owed, accepted, recipients_all_>>
      /\ \A s \in Section : Keyed(s)' = Keyed(s)
    BY DEF xxfi_data, Keyed, histVars
<1>3. \A s \in Section : good_recipients'[s] = Keyed(s)
  <2> SUFFICES ASSUME NEW s \in Section PROVE good_recipients'[s] = Keyed(s)
    OBVIOUS
  <2>1. good_recipients[s] = {}
    BY <1>1 DEF IInv, Promises, Nothing
  <2>2. CASE InContexts(s)
    BY <2>1, <2>2 DEF xxfi_data
  <2>3. CASE ~InContexts(s)
    <3>1. Keyed(s) = {}
      BY <2>3 DEF IInv, SnapshotMatch, Keyed
    <3> QED
      BY <2>1, <2>3, <3>1 DEF xxfi_data
  <2> QED
    BY <2>2, <2>3
<1>4. SnapshotMatch'
    BY <1>2 DEF IInv, SnapshotMatch, InContexts
<1>5. CASE \A s \in Section : InContexts(s) => Keyed(s) = {}
  <2>1. phase' = "refused" /\ \A s \in Section : Keyed(s)' = {}
    <3>1. \A s \in Section : Keyed(s) = {}
      BY <1>5 DEF IInv, SnapshotMatch, Keyed
    <3> QED
      BY <1>2, <1>5, <3>1 DEF xxfi_data
  <2>2. good_recipients' = [s \in Section |-> good_recipients'[s]]
    BY DEF xxfi_data
  <2>3. good_recipients' = Nothing
    BY <1>2, <1>3, <2>1, <2>2, Zenon DEF Nothing
  <2> QED
    BY <1>1, <1>4, <2>1, <2>3 DEF IInv, xxfi_data, Lifetime, InTransaction, Promises, PastData, Texts,
                            SomeGood, Loop, NoCopyYet, OwnCopiesOnly, eomVars, histVars
<1>6. CASE ~ \A s \in Section : InContexts(s) => Keyed(s) = {}
  <2>1. phase' = "data" /\ PastData' /\ InTransaction' /\ \E s \in Section : Keyed(s)' # {}
    <3>1. phase' = "data"
      BY <1>6 DEF xxfi_data
    <3>2. \E s \in Section : Keyed(s) # {}
      BY <1>6
    <3> QED
      BY <1>2, <3>1, <3>2 DEF PastData, InTransaction
  <2>2. Promises'
    BY <1>1, <1>2, <1>3, <2>1 DEF IInv, Promises
  <2> QED
    BY <1>1, <1>4, <2>1, <2>2 DEF IInv, xxfi_data, Lifetime, InTransaction, Texts,
                            SomeGood, Loop, NoCopyYet, OwnCopiesOnly, eomVars, histVars
<1> QED
    BY <1>5, <1>6

\* Within PastData, when only the text, the phase and the loop's own variables move.
LEMMA PastDataInv ==
    ASSUME IInv, PastData, PastData',
           UNCHANGED <<msg, config_, contexts_, recipients, good_recipients, recipients_all_, priv,
                       accepted, txn, owed>>,
           Texts', Loop', NoCopyYet', OwnCopiesOnly'
    PROVE  IInv'
<1>1. InTransaction /\ InTransaction'
    BY DEF PastData, InTransaction
<1>2. \A s \in Section : Keyed(s)' = Keyed(s) /\ InContexts(s)' = InContexts(s)
    BY DEF Keyed, InContexts
<1>3. SnapshotMatch' /\ Promises' /\ SomeGood'
    BY <1>1, <1>2 DEF IInv, SnapshotMatch, Promises, SomeGood
<1>4. Lifetime'
    BY <1>1 DEF IInv, Lifetime, PastData
<1> QED
    BY <1>3, <1>4 DEF IInv

LEMMA HeaderBodyInv == TypeOK /\ IInv /\ (xxfi_header \/ xxfi_eoh \/ xxfi_body \/ EomUnsigned) => IInv'
<1> SUFFICES ASSUME TypeOK, IInv, xxfi_header \/ xxfi_eoh \/ xxfi_body \/ EomUnsigned
             PROVE  IInv'
    OBVIOUS
<1> USE DEF xxfi_header, xxfi_eoh, xxfi_body, EomUnsigned, msgVars, eomVars, histVars
<1>1. PastData /\ PastData' /\ ~InEom
    BY DEF PastData, InEom
<1>2. Texts' /\ NoCopyYet' /\ OwnCopiesOnly'
    BY <1>1 DEF IInv, Texts, InEom, NoCopyYet, OwnCopiesOnly
<1>3. Loop'
    BY <1>1 DEF IInv, Loop, InEom, TypeOK, MessageTypeOK
<1> QED
    BY <1>1, <1>2, <1>3, PastDataInv

\* The loop over contexts_ and the transfers.
LEMMA SectionInv ==
    ASSUME TypeOK, IInv, NEW s \in Section,
           EomSkipSection(s) \/ EomReplaceBody(s) \/ EomWorkItem(s)
    PROVE  IInv'
<1> USE DEF EomSkipSection, EomReplaceBody, EomWorkItem, AtSection, msgVars, mtaVars, histVars
<1>1. /\ phase = "sections" /\ phase' = "sections"
      /\ PastData /\ PastData' /\ InEom /\ InEom'
    BY DEF PastData, InEom
<1>2. /\ UNCHANGED <<msg, config_, contexts_, recipients, good_recipients, recipients_all_, priv,
                     accepted, txn, owed, body_, mails>>
      /\ pos' = pos + 1
      /\ s = contexts_[pos]
    OBVIOUS
<1>3. NoCopyYet' /\ OwnCopiesOnly'
    BY <1>1, <1>2 DEF IInv, NoCopyYet, OwnCopiesOnly
<1>4. Texts'
  <2>1. \A t \in Section : written'[t] \subseteq written[t] \cup body_
    BY DEF Written, TypeOK, MessageTypeOK
  <2> QED
    BY <1>1, <1>2, <2>1 DEF IInv, Texts
<1>5. Loop'
  <2>1. CASE EomSkipSection(s)
    BY <1>1, <1>2, <2>1 DEF IInv, Loop, HasGood, TypeOK, MessageTypeOK, EomTypeOK
  <2>2. CASE EomReplaceBody(s)
    BY <1>1, <1>2, <2>2, NoSectionAssumption
    DEF IInv, Loop, TypeOK, EomTypeOK, update_milter_recipients
  <2>3. CASE EomWorkItem(s)
    BY <1>1, <1>2, <2>3 DEF IInv, Loop, TypeOK, EomTypeOK
  <2> QED
    BY <2>1, <2>2, <2>3
<1> QED
    BY <1>1, <1>2, <1>3, <1>4, <1>5, PastDataInv

\* What the MTA sends on is meant for its recipients.
LEMMA MilterCopyOwn ==
    ASSUME TypeOK, IInv, InEom, LoopEnded
    PROVE  \A m \in MilterCopy : /\ m.body \subseteq {txn}
                                /\ m.rcpts \subseteq accepted
                                /\ \A r \in m.rcpts : <<r, m.section>> \in owed
<1>1. PastData /\ InTransaction
    BY DEF InEom, PastData, InTransaction
<1>2. replaced_by \in Section
  <2>1. PICK s \in Section : Keyed(s) # {}
    BY <1>1 DEF IInv, SomeGood
  <2>2. HasGood(s)
    BY <1>1, <2>1 DEF IInv, Promises, HasGood
  <2>3. PICK r \in Rcpt : recipients[s][r] # "absent"
    BY <2>1 DEF Keyed
  <2>4. PICK k \in DOMAIN contexts_ : contexts_[k] = s
    BY <2>3 DEF IInv, SnapshotMatch, InContexts
  <2>5. k < pos
    BY <2>4 DEF LoopEnded, TypeOK, MessageTypeOK, EomTypeOK
  <2> QED
    BY <2>2, <2>4, <2>5 DEF IInv, Loop, TypeOK, EomTypeOK
<1>3. accepted \ deleted \subseteq Keyed(replaced_by)
    BY <1>1, <1>2, NoSectionAssumption DEF IInv, Loop, Promises
<1>4. \A r \in accepted \ deleted : <<r, replaced_by>> \in owed
    BY <1>1, <1>2, <1>3 DEF IInv, Promises, Keyed
<1> QED
    BY <1>2, <1>4, NoSectionAssumption DEF IInv, Texts, MilterCopy

LEMMA TransferInv ==
    ASSUME TypeOK, IInv, NEW s \in Section, TransferEnds(s)
    PROVE  IInv'
<1> USE DEF TransferEnds, msgVars, mtaVars
<1>1. /\ phase = "sending" /\ phase' = "sending"
      /\ PastData /\ PastData' /\ InEom /\ InEom' /\ InTransaction
    BY DEF PastData, InEom, InTransaction
<1>2. /\ UNCHANGED <<msg, config_, contexts_, recipients, good_recipients, recipients_all_, priv,
                     accepted, txn, owed, body_, written, pos, replaced_by, deleted>>
      /\ mails' \subseteq mails \cup {Copy(s)}
    OBVIOUS
<1>3. good_recipients[s] = Keyed(s)
    BY <1>1 DEF IInv, Promises
<1>4. \A r \in good_recipients[s] : <<r, s>> \in owed /\ r \in accepted
    BY <1>1, <1>3 DEF IInv, Promises, Keyed
<1>5. OwnCopiesOnly'
  <2> SUFFICES ASSUME NEW m \in mails'
               PROVE  /\ m.body \subseteq {txn}
                      /\ m.rcpts \subseteq accepted
                      /\ m.via # "unchanged" => \A r \in m.rcpts : <<r, m.section>> \in owed
    BY <1>2 DEF OwnCopiesOnly
  <2>1. CASE m \in mails
    BY <2>1 DEF IInv, OwnCopiesOnly
  <2>2. CASE m = Copy(s)
    BY <1>4, <2>2 DEF IInv, Texts, Copy
  <2> QED
    BY <1>2, <2>1, <2>2
<1>6. Texts' /\ NoCopyYet'
    BY <1>1, <1>2 DEF IInv, Texts, NoCopyYet
<1>7. Loop'
    BY <1>1, <1>2 DEF IInv, Loop, LoopEnded, HasGood
<1> QED
    BY <1>1, <1>2, <1>5, <1>6, <1>7, PastDataInv

LEMMA StepIInv == TypeOK /\ IInv /\ ~DumpMayFail /\ [Next]_vars => IInv'
<1> SUFFICES ASSUME TypeOK, IInv, ~DumpMayFail, [Next]_vars PROVE IInv'
    OBVIOUS
<1>1. CASE xxfi_connect
  <2>1. ~InTransaction /\ ~InEom /\ ~PastData /\ ~InTransaction' /\ ~InEom' /\ ~PastData'
    BY <1>1 DEF xxfi_connect, InTransaction, InEom, PastData
  <2>2. \A s \in Section : Keyed(s)' = Keyed(s)
    BY <1>1 DEF xxfi_connect, msgVars, Keyed
  <2> QED
    BY <1>1, <2>1, <2>2
    DEF xxfi_connect, IInv, Lifetime, SnapshotMatch, InContexts, Promises, Texts, SomeGood, Loop,
        NoCopyYet, OwnCopiesOnly, msgVars, eomVars, histVars
<1>2. CASE NoContext \/ set_config \/ UNCHANGED vars
    BY <1>2, QuietInv DEF NoContext, set_config, vars, msgVars, eomVars, mtaVars, histVars
<1>3. CASE xxfi_close
  <2>1. CASE priv
    BY <1>3, <2>1, ResetInv DEF xxfi_close, IInv, Loop, OwnCopiesOnly, eomVars
  <2>2. CASE ~priv
    <3>1. phase = "noctx" /\ phase' = "closed" /\ UNCHANGED <<msg, msgVars, eomVars>>
      BY <1>3, <2>2 DEF xxfi_close, IInv, Lifetime
    <3>2. ~InTransaction /\ ~InEom /\ ~PastData /\ ~InTransaction' /\ ~InEom' /\ ~PastData'
      BY <3>1 DEF InTransaction, InEom, PastData
    <3>3. \A s \in Section : Keyed(s)' = Keyed(s)
      BY <3>1 DEF msgVars, Keyed
    <3> QED
      BY <1>3, <3>1, <3>2, <3>3
      DEF xxfi_close, IInv, Lifetime, SnapshotMatch, InContexts, Promises, Texts, SomeGood, Loop,
          NoCopyYet, OwnCopiesOnly, msgVars, eomVars
  <2> QED
    BY <2>1, <2>2
<1>4. CASE xxfi_abort
    BY <1>4, ResetInv DEF xxfi_abort, IInv, Lifetime, Loop, InEom, OwnCopiesOnly, eomVars
<1>5. CASE xxfi_envfrom
    BY <1>5, EnvfromInv
<1>6. CASE xxfi_envrcpt
  <2>1. PICK r \in Rcpt :
            \/ RcptUnmatched(r)
            \/ \E s \in Section : \/ RcptKeyFound(r, s) \/ RcptDiscarded(r, s)
                                  \/ RcptRetrieved(r, s) \/ RcptRefused(r, s)
                                  \/ RcptThrows(r, s)
    BY <1>6 DEF xxfi_envrcpt
  <2>2. CASE RcptUnmatched(r)
    BY <2>2, QuietInv DEF RcptUnmatched, Refuse, RcptRest, eomVars, histVars
  <2>3. ASSUME NEW s \in Section, RcptKeyFound(r, s) \/ RcptDiscarded(r, s) \/ RcptRetrieved(r, s)
        PROVE  IInv'
    BY <2>3, AcceptInv DEF RcptKeyFound, RcptDiscarded, RcptRetrieved
  <2>4. ASSUME NEW s \in Section, RcptRefused(r, s) \/ RcptThrows(r, s)
        PROVE  IInv'
    BY <2>4, RefuseInv DEF RcptRefused, RcptThrows
  <2> QED
    BY <2>1, <2>2, <2>3, <2>4
<1>7. CASE xxfi_data
    BY <1>7, DataInv
<1>8. CASE xxfi_header \/ xxfi_eoh \/ xxfi_body \/ EomUnsigned
    BY <1>8, HeaderBodyInv
<1>9. CASE EomDumpThrows \/ EomCatchThrows
    BY <1>9 DEF EomDumpThrows, EomCatchThrows, DumpThrows
<1>10. ASSUME NEW answer, EomReturn(answer), phase \notin {"closed", "noctx"}, OwnCopiesOnly'
       PROVE  IInv'
    BY <1>10, ResetInv DEF EomReturn, NoEom, IInv, Lifetime, Promises
<1>11. CASE EomSignatureVerifies
  <2>1. OwnCopiesOnly'
    BY <1>11 DEF EomSignatureVerifies, EomReturn, OwnCopiesOnly
  <2> QED
    BY <1>10, <1>11, <2>1 DEF EomSignatureVerifies
<1>12. ASSUME NEW answer, EomReturn(answer), UNCHANGED mails, phase \notin {"closed", "noctx"}
       PROVE  IInv'
  <2>1. OwnCopiesOnly'
    BY <1>12 DEF EomReturn, OwnCopiesOnly, IInv
  <2> QED
    BY <1>10, <1>12, <2>1
<1>13. CASE EomSignatureRefused \/ EomCatch \/ PerformThrows
            \/ \E s \in Section : EomReplaceBodyFails(s)
    BY <1>12, <1>13
    DEF EomSignatureRefused, EomCatch, CanThrow, PerformThrows, EomReplaceBodyFails, AtSection
<1>14. CASE \E s \in Section : EomSkipSection(s) \/ EomReplaceBody(s) \/ EomWorkItem(s)
    BY <1>14, SectionInv
<1>15. ASSUME InEom, LoopEnded, EomReturn("continue"), mails' = mails \cup MilterCopy
       PROVE  IInv'
  <2>1. OwnCopiesOnly'
    <3>1. UNCHANGED <<txn, accepted, owed>>
      BY <1>15 DEF EomReturn
    <3> QED
      BY <1>15, <3>1, MilterCopyOwn DEF OwnCopiesOnly, IInv
  <2> QED
    BY <1>10, <1>15, <2>1 DEF InEom
<1>16. CASE EomNothingToSend
    BY <1>15, <1>16 DEF EomNothingToSend, InEom
<1>17. CASE EomSend
  <2>1. PastData /\ PastData' /\ InEom /\ InEom'
    BY <1>17 DEF EomSend, PastData, InEom
  <2>2. Texts' /\ NoCopyYet' /\ OwnCopiesOnly' /\ Loop'
    BY <1>17, <2>1 DEF EomSend, msgVars, histVars, IInv, Texts, NoCopyYet, OwnCopiesOnly, Loop,
                       LoopEnded, HasGood
  <2> QED
    BY <1>17, <2>1, <2>2, PastDataInv DEF EomSend, msgVars, histVars
<1>18. CASE \E s \in Section : TransferEnds(s)
    BY <1>18, TransferInv
<1>19. CASE PerformReturns
  <2>1. InEom /\ LoopEnded
    BY <1>19 DEF PerformReturns, InEom, IInv, Loop
  <2> QED
    BY <1>12, <1>15, <1>19, <2>1 DEF PerformReturns
<1> QED
    BY <1>1, <1>2, <1>3, <1>4, <1>5, <1>6, <1>7, <1>8, <1>9, <1>11, <1>13, <1>14, <1>16, <1>17,
       <1>18, <1>19
    DEF Next, xxfi_eom, EomSection

LEMMA Invariance == ~DumpMayFail => (Spec => [](TypeOK /\ IInv))
<1> SUFFICES ASSUME ~DumpMayFail PROVE Spec => [](TypeOK /\ IInv)
    OBVIOUS
<1>1. Init => TypeOK /\ IInv
    BY InitTypeOK, InitIInv
<1>2. TypeOK /\ IInv /\ [Next]_vars => TypeOK' /\ IInv'
    BY StepTypeOK, StepIInv
<1> QED
    BY <1>1, <1>2, PTL DEF Spec

\* Where dump_email cannot fail, every copy that leaves a connection holds one transaction's text
\* and reaches only recipients of that transaction who were accepted with a key of its section.
THEOREM OwnCopies == ~DumpMayFail => (Spec => []OwnCopiesOnly)
<1> SUFFICES ASSUME ~DumpMayFail PROVE Spec => []OwnCopiesOnly
    OBVIOUS
<1>1. IInv => OwnCopiesOnly
    BY DEF IInv
<1> QED
    BY <1>1, Invariance, PTL

\* A message object that outlives its transaction has neither recipients with keys nor text.
THEOREM StaleEmpty == ~DumpMayFail => (Spec => []StaleMessageEmpty)
<1> SUFFICES ASSUME ~DumpMayFail PROVE Spec => []StaleMessageEmpty
    OBVIOUS
<1>1. IInv => StaleMessageEmpty
  <2> SUFFICES ASSUME IInv, phase \in {"idle", "done", "refused"}
               PROVE  /\ body_ = {} /\ signature_header_ = NoSig
                      /\ \A s \in Section : ~HasGood(s) /\ Keyed(s) = {}
    BY DEF StaleMessageEmpty
  <2>1. ~InTransaction /\ ~PastData
    BY DEF InTransaction, PastData
  <2> QED
    BY <2>1 DEF IInv, Texts, Promises, HasGood, Nothing
<1> QED
    BY <1>1, Invariance, PTL

-----------------------------------------------------------------------------
(* What needs no assumption on dump_email: what the captured               *)
(* configuration, DATA and the loop over contexts_ guarantee even when a   *)
(* message outlives its transaction.                                       *)

\* on_data fills good_recipients for the sections of contexts_ only, and lets a message continue
\* only with one of them.
GoodInContexts == \A s \in Section : HasGood(s) => InContexts(s)
Continued == PastData => \E s \in Section : HasGood(s)

\* What is in the handlers' hands when the loop stands at pos.
Served(s) == s = replaced_by \/ s \in work_items
Sections ==
    /\ InEom => /\ pos >= 1
                /\ \A k \in DOMAIN contexts_ : k < pos /\ HasGood(contexts_[k]) => Served(contexts_[k])
                /\ replaced_by = NoSection => work_items = {}
    /\ phase = "sending" => LoopEnded
    /\ ~InEom => replaced_by = NoSection /\ work_items = {}

\* No mail that left while on_eom runs is in clear.
NoneClear == InEom => \A m \in mails : m.section # NoSection

LoopInv ==
    /\ SnapshotMatch /\ GoodInContexts /\ Continued /\ Sections
    /\ NoCopyYet /\ NoneClear /\ ClearOnlyIfSigned

\* When the loop is over every section with good recipients was served.
LEMMA AllServed ==
    ASSUME TypeOK, LoopInv, InEom, LoopEnded, NEW s \in Section, HasGood(s)
    PROVE  Served(s)
<1>1. PICK k \in DOMAIN contexts_ : contexts_[k] = s
    BY DEF LoopInv, GoodInContexts, InContexts
<1>2. k < pos
    BY <1>1 DEF LoopEnded, TypeOK, MessageTypeOK, EomTypeOK
<1> QED
    BY <1>1, <1>2 DEF LoopInv, Sections

\* ... and one of them replaced the milter's mail.
LEMMA SomeReplaced ==
    ASSUME TypeOK, LoopInv, InEom, LoopEnded
    PROVE  replaced_by # NoSection
<1>1. PICK s \in Section : HasGood(s)
    BY DEF LoopInv, Continued, PastData, InEom
<1>2. s = replaced_by \/ s \in work_items
    BY <1>1, AllServed DEF Served
<1> QED
    BY <1>2, NoSectionAssumption DEF LoopInv, Sections

\* A message without contexts keeps the invariant outside on_eom.
LEMMA FreshLoopInv ==
    ASSUME FreshFields, ~InEom', ~PastData', replaced_by' = NoSection, work_items' = {},
           NoCopyYet', ClearOnlyIfSigned'
    PROVE  LoopInv'
<1>1. /\ \A s \in Section, r \in Rcpt : recipients'[s][r] = "absent"
      /\ \A s \in Section : ~HasGood(s)'
    BY DEF FreshFields, NoRecipients, Nothing, HasGood
<1>2. SnapshotMatch' /\ GoodInContexts'
    BY <1>1 DEF SnapshotMatch, GoodInContexts
<1> QED
    BY <1>2 DEF LoopInv, Continued, Sections, NoneClear, InEom

\* What depends only on the contexts and their recipients survives when these do not move.
LEMMA SameContexts ==
    ASSUME LoopInv, UNCHANGED <<config_, contexts_, recipients, good_recipients>>
    PROVE  /\ SnapshotMatch' /\ GoodInContexts'
           /\ (PastData' => PastData) => Continued'
           /\ \A s \in Section : HasGood(s)' = HasGood(s)
<1>1. \A s \in Section : HasGood(s)' = HasGood(s) /\ InContexts(s)' = InContexts(s)
    BY DEF HasGood, InContexts
<1> QED
    BY <1>1 DEF LoopInv, SnapshotMatch, GoodInContexts, Continued

\* Between two callbacks, when neither contexts nor mails move.
LEMMA IdleLoopInv ==
    ASSUME LoopInv, ~InEom, ~InEom', PastData' => PastData,
           UNCHANGED <<config_, contexts_, recipients, good_recipients, replaced_by, work_items>>,
           mails' = mails \/ mails' = {},
           phase' \in {"mail", "data", "eoh", "sections"} => mails' = {}
    PROVE  LoopInv'
BY SameContexts DEF LoopInv, Sections, NoCopyYet, NoneClear, ClearOnlyIfSigned, InEom

\* A matched recipient, accepted or not, changes at most its own entry in its own section.
OthersKept(r, s) ==
    \A t \in Section, q \in Rcpt : t # s \/ q # r => recipients'[t][q] = recipients[t][q]

LEMMA RcptLoopInv ==
    ASSUME TypeOK, LoopInv, NEW r \in Rcpt, NEW s \in Section, RcptMatched(r, s), OthersKept(r, s)
    PROVE  LoopInv'
<1>1. /\ ~InEom /\ ~PastData /\ ~InEom' /\ ~PastData'
      /\ UNCHANGED <<config_, good_recipients, replaced_by, work_items, mails, phase>>
    BY DEF RcptMatched, RcptRest, eomVars, InEom, PastData
<1>2. \A t \in Section : InContexts(t) \/ t = s => InContexts(t)'
    BY GetContextHolds DEF RcptMatched
<1>3. SnapshotMatch'
    BY <1>1, <1>2 DEF LoopInv, SnapshotMatch, RcptMatched, SectionFor, OthersKept
<1>4. GoodInContexts'
    BY <1>1, <1>2 DEF LoopInv, GoodInContexts, HasGood
<1> QED
    BY <1>1, <1>3, <1>4
    DEF LoopInv, Continued, Sections, NoCopyYet, NoneClear, ClearOnlyIfSigned, InEom

LEMMA EnvrcptLoopInv == TypeOK /\ LoopInv /\ xxfi_envrcpt => LoopInv'
<1> SUFFICES ASSUME TypeOK, LoopInv, xxfi_envrcpt PROVE LoopInv'
    OBVIOUS
<1>1. PICK r \in Rcpt :
          \/ RcptUnmatched(r)
          \/ \E s \in Section : \/ RcptKeyFound(r, s) \/ RcptDiscarded(r, s)
                                \/ RcptRetrieved(r, s) \/ RcptRefused(r, s)
                                \/ RcptThrows(r, s)
    BY DEF xxfi_envrcpt
<1>2. CASE RcptUnmatched(r)
  <2>1. phase = "mail" /\ phase' = "mail"
    BY <1>2 DEF RcptUnmatched, RcptRest
  <2>2. ~InEom /\ ~InEom' /\ ~PastData' /\ mails = {}
    BY <2>1 DEF InEom, PastData, LoopInv, NoCopyYet
  <2> QED
    BY <1>2, <2>1, <2>2, IdleLoopInv DEF RcptUnmatched, Refuse, RcptRest, eomVars
<1>3. ASSUME NEW s \in Section, NEW presence \in {"key", "nokey"},
             RcptMatched(r, s), Accept(r, s, presence)
      PROVE  LoopInv'
  <2>1. OthersKept(r, s)
    BY <1>3 DEF OthersKept, Accept, TypeOK, MessageTypeOK
  <2> QED
    BY <1>3, <2>1, RcptLoopInv
<1>4. ASSUME NEW s \in Section, RcptMatched(r, s), UNCHANGED recipients
      PROVE  LoopInv'
  <2>1. OthersKept(r, s)
    BY <1>4 DEF OthersKept
  <2> QED
    BY <1>4, <2>1, RcptLoopInv
<1>5. ASSUME NEW s \in Section,
             RcptKeyFound(r, s) \/ RcptDiscarded(r, s) \/ RcptRetrieved(r, s)
      PROVE  LoopInv'
    BY <1>3, <1>5 DEF RcptKeyFound, RcptDiscarded, RcptRetrieved
<1>6. ASSUME NEW s \in Section, RcptRefused(r, s) \/ RcptThrows(r, s)
      PROVE  LoopInv'
    BY <1>4, <1>6 DEF RcptRefused, RcptThrows, Refuse
<1> QED
    BY <1>1, <1>2, <1>5, <1>6

LEMMA DataLoopInv == TypeOK /\ LoopInv /\ xxfi_data => LoopInv'
<1> SUFFICES ASSUME TypeOK, LoopInv, xxfi_data PROVE LoopInv'
    OBVIOUS
<1>1. /\ ~InEom /\ ~InEom' /\ mails = {}
      /\ UNCHANGED <<config_, contexts_, recipients, replaced_by, work_items, mails>>
    BY DEF xxfi_data, LoopInv, NoCopyYet, InEom, eomVars, histVars
<1>2. \A s \in Section : InContexts(s)' = InContexts(s)
    BY <1>1 DEF InContexts
<1>3. \A s \in Section :
          /\ InContexts(s) => good_recipients'[s] = good_recipients[s] \cup Keyed(s)
          /\ ~InContexts(s) => good_recipients'[s] = good_recipients[s]
    BY DEF xxfi_data
<1>4. SnapshotMatch' /\ GoodInContexts'
    BY <1>1, <1>2, <1>3 DEF LoopInv, SnapshotMatch, GoodInContexts, HasGood
<1>5. Continued'
  <2>1. CASE \A s \in Section : InContexts(s) => Keyed(s) = {}
    BY <2>1 DEF xxfi_data, Continued, PastData
  <2>2. CASE \E s \in Section : InContexts(s) /\ Keyed(s) # {}
    BY <1>3, <2>2 DEF Continued, HasGood
  <2> QED
    BY <2>1, <2>2
<1> QED
    BY <1>1, <1>4, <1>5 DEF LoopInv, Sections, NoCopyYet, NoneClear, ClearOnlyIfSigned, InEom

\* One section of the loop.
LEMMA SectionLoopInv ==
    ASSUME TypeOK, LoopInv, NEW s \in Section,
           EomSkipSection(s) \/ EomReplaceBody(s) \/ EomWorkItem(s)
    PROVE  LoopInv'
<1> USE DEF EomSkipSection, EomReplaceBody, EomWorkItem, AtSection, msgVars, mtaVars, histVars
<1>1. /\ phase = "sections" /\ phase' = "sections"
      /\ InEom /\ InEom' /\ PastData /\ PastData'
      /\ UNCHANGED <<config_, contexts_, recipients, good_recipients, mails>>
      /\ pos' = pos + 1 /\ s = contexts_[pos]
    BY DEF InEom, PastData
<1>2. /\ SnapshotMatch' /\ GoodInContexts' /\ Continued'
      /\ \A t \in Section : HasGood(t)' = HasGood(t)
    BY <1>1, SameContexts
<1>3. HasGood(s) => Served(s)'
    BY DEF Served
<1>4. \A t \in Section : Served(t) => Served(t)'
    BY NoSectionAssumption DEF Served
<1>5. ASSUME NEW k \in DOMAIN contexts_, k < pos', HasGood(contexts_[k])
      PROVE  Served(contexts_[k])'
  <2>1. contexts_[k] \in Section /\ contexts_'[k] = contexts_[k]
    BY <1>1 DEF TypeOK, MessageTypeOK
  <2>2. CASE k = pos
    BY <1>1, <1>3, <1>5, <2>1, <2>2 DEF Served
  <2>3. CASE k < pos
    BY <1>1, <1>4, <1>5, <2>1, <2>3 DEF LoopInv, Sections, Served
  <2> QED
    BY <1>1, <1>5, <2>2, <2>3 DEF TypeOK, MessageTypeOK, EomTypeOK
<1>6. replaced_by' = NoSection => work_items' = {}
    BY <1>1, NoSectionAssumption DEF LoopInv, Sections
<1>7. Sections'
  <2>1. \A k \in DOMAIN contexts_ : contexts_[k] \in Section
    BY DEF TypeOK, MessageTypeOK
  <2>2. \A k \in DOMAIN contexts_' :
            k < pos' /\ HasGood(contexts_[k])' => Served(contexts_[k])'
    BY <1>1, <1>2, <1>5, <2>1
  <2> QED
    BY <1>1, <1>6, <2>2 DEF LoopInv, Sections, TypeOK, EomTypeOK
<1> QED
    BY <1>1, <1>2, <1>7 DEF LoopInv, NoCopyYet, NoneClear, ClearOnlyIfSigned, InEom

\* on_eom returns, or an exception leaves it.
LEMMA EndLoopInv ==
    ASSUME LoopInv, ClearOnlyIfSigned', NoEom, phase' \in {"done", "refused"},
           FreshFields \/ UNCHANGED <<config_, contexts_, recipients, good_recipients>>
    PROVE  LoopInv'
<1>1. ~InEom' /\ ~PastData' /\ replaced_by' = NoSection /\ work_items' = {} /\ NoCopyYet'
    BY DEF InEom, PastData, NoEom, NoCopyYet
<1>2. CASE FreshFields
    BY <1>1, <1>2, FreshLoopInv
<1>3. CASE UNCHANGED <<config_, contexts_, recipients, good_recipients>>
    BY <1>1, <1>3, SameContexts DEF LoopInv, Sections, NoneClear
<1> QED
    BY <1>2, <1>3

LEMMA StepLoopInv == TypeOK /\ LoopInv /\ [Next]_vars => LoopInv'
<1> SUFFICES ASSUME TypeOK, LoopInv, [Next]_vars PROVE LoopInv'
    OBVIOUS
<1>1. CASE xxfi_connect
  <2>1. ~InEom /\ ~InEom' /\ ~PastData' /\ NoCopyYet'
    BY <1>1 DEF xxfi_connect, InEom, PastData, NoCopyYet
  <2> QED
    BY <1>1, <2>1, IdleLoopInv DEF xxfi_connect, msgVars, eomVars, histVars
<1>2. CASE NoContext \/ set_config \/ UNCHANGED vars
  <2>1. UNCHANGED <<config_, contexts_, recipients, good_recipients, replaced_by, work_items,
                    pos, phase, mails>>
    BY <1>2 DEF NoContext, set_config, vars, msgVars, eomVars, mtaVars, histVars
  <2>2. /\ SnapshotMatch' /\ GoodInContexts' /\ Continued'
        /\ \A s \in Section : HasGood(s)' = HasGood(s)
    BY <2>1, SameContexts DEF PastData
  <2>3. Sections'
    BY <2>1 DEF LoopInv, Sections, InEom, HasGood, Served, LoopEnded
  <2> QED
    BY <2>1, <2>2, <2>3 DEF LoopInv, NoCopyYet, NoneClear, ClearOnlyIfSigned, InEom
<1>3. CASE xxfi_close
  <2>1. /\ ~InEom /\ ~InEom' /\ ~PastData' /\ mails' = {} /\ NoCopyYet' /\ ClearOnlyIfSigned'
        /\ replaced_by' = NoSection /\ work_items' = {}
    BY <1>3 DEF xxfi_close, InEom, PastData, eomVars, LoopInv, Sections, NoCopyYet,
                ClearOnlyIfSigned
  <2>2. CASE priv
    BY <1>3, <2>1, <2>2, FreshLoopInv DEF xxfi_close, ResetMessage
  <2>3. CASE ~priv
    BY <1>3, <2>1, <2>3, IdleLoopInv DEF xxfi_close, msgVars, eomVars
  <2> QED
    BY <2>2, <2>3
<1>4. CASE xxfi_abort
  <2>1. /\ ~InEom /\ ~InEom' /\ ~PastData' /\ NoCopyYet' /\ ClearOnlyIfSigned'
        /\ replaced_by' = NoSection /\ work_items' = {}
    BY <1>4 DEF xxfi_abort, InEom, PastData, eomVars, LoopInv, Sections, NoCopyYet,
                ClearOnlyIfSigned
  <2> QED
    BY <1>4, <2>1, FreshLoopInv DEF xxfi_abort, ResetMessage
<1>5. CASE xxfi_envfrom
  <2>1. /\ ~InEom /\ ~InEom' /\ ~PastData' /\ mails' = {} /\ NoCopyYet' /\ ClearOnlyIfSigned'
        /\ UNCHANGED <<replaced_by, work_items>> /\ replaced_by = NoSection /\ work_items = {}
    BY <1>5 DEF xxfi_envfrom, InEom, PastData, eomVars, LoopInv, Sections, NoCopyYet,
                ClearOnlyIfSigned
  <2>2. CASE msg
    BY <1>5, <2>1, <2>2, IdleLoopInv DEF xxfi_envfrom, GetMessage, msgVars
  <2>3. CASE ~msg
    BY <1>5, <2>1, <2>3, FreshLoopInv DEF xxfi_envfrom, GetMessage
  <2> QED
    BY <2>2, <2>3
<1>6. CASE xxfi_envrcpt
    BY <1>6, EnvrcptLoopInv
<1>7. CASE xxfi_data
    BY <1>7, DataLoopInv
<1>8. CASE xxfi_header \/ xxfi_eoh \/ xxfi_body
  <2>1. ~InEom /\ ~InEom' /\ PastData /\ mails = {} /\ mails' = {}
    BY <1>8 DEF xxfi_header, xxfi_eoh, xxfi_body, InEom, PastData, LoopInv, NoCopyYet, histVars
  <2> QED
    BY <1>8, <2>1, IdleLoopInv DEF xxfi_header, xxfi_eoh, xxfi_body, msgVars, eomVars
<1>9. CASE EomDumpThrows \/ EomCatchThrows
  <2>1. /\ NoEom /\ phase' = "refused" /\ mails' = mails
        /\ UNCHANGED <<config_, contexts_, recipients, good_recipients>>
    BY <1>9 DEF EomDumpThrows, EomCatchThrows, EomEscape, histVars
  <2>2. ClearOnlyIfSigned'
    BY <2>1 DEF LoopInv, ClearOnlyIfSigned
  <2> QED
    BY <2>1, <2>2, EndLoopInv
<1>10. ASSUME NEW answer, EomReturn(answer), ClearOnlyIfSigned'
       PROVE  LoopInv'
  <2>1. NoEom /\ FreshFields /\ phase' \in {"done", "refused"}
    BY <1>10 DEF EomReturn, ResetMessage
  <2> QED
    BY <1>10, <2>1, EndLoopInv
<1>11. CASE EomSignatureVerifies
  <2>1. ClearOnlyIfSigned'
    BY <1>11 DEF EomSignatureVerifies, ClearOnlyIfSigned
  <2> QED
    BY <1>10, <1>11, <2>1 DEF EomSignatureVerifies
<1>12. ASSUME NEW answer, EomReturn(answer), UNCHANGED mails
       PROVE  LoopInv'
  <2>1. ClearOnlyIfSigned'
    BY <1>12 DEF LoopInv, ClearOnlyIfSigned
  <2> QED
    BY <1>10, <1>12, <2>1
<1>13. CASE EomSignatureRefused \/ EomCatch \/ PerformThrows
            \/ \E s \in Section : EomReplaceBodyFails(s)
    BY <1>12, <1>13 DEF EomSignatureRefused, EomCatch, PerformThrows, EomReplaceBodyFails
<1>14. CASE EomUnsigned
  <2>1. /\ phase = "eoh" /\ phase' = "sections" /\ pos' = 1 /\ mails' = {}
        /\ ~InEom /\ PastData
        /\ UNCHANGED <<config_, contexts_, recipients, good_recipients, replaced_by, work_items>>
    BY <1>14 DEF EomUnsigned, InEom, PastData, LoopInv, NoCopyYet, msgVars, histVars
  <2>2. SnapshotMatch' /\ GoodInContexts' /\ Continued'
    BY <2>1, SameContexts
  <2>3. Sections'
    BY <2>1 DEF LoopInv, Sections, TypeOK, MessageTypeOK
  <2> QED
    BY <2>1, <2>2, <2>3 DEF LoopInv, NoCopyYet, NoneClear, ClearOnlyIfSigned
<1>15. CASE \E s \in Section : EomSkipSection(s) \/ EomReplaceBody(s) \/ EomWorkItem(s)
    BY <1>15, SectionLoopInv
<1>16. ASSUME InEom, LoopEnded, EomReturn("continue"), mails' = mails \cup MilterCopy
       PROVE  LoopInv'
  <2>1. \A m \in mails' : m.section # NoSection
    BY <1>16, SomeReplaced DEF MilterCopy, LoopInv, NoneClear
  <2> QED
    BY <1>10, <1>16, <2>1 DEF ClearOnlyIfSigned
<1>17. CASE EomNothingToSend
    BY <1>16, <1>17 DEF EomNothingToSend, InEom
<1>18. CASE EomSend \/ \E s \in Section : TransferEnds(s)
  <2>1. /\ InEom /\ phase' = "sending" /\ InEom' /\ PastData /\ LoopEnded
        /\ UNCHANGED <<config_, contexts_, recipients, good_recipients, replaced_by, work_items, pos>>
    BY <1>18 DEF EomSend, TransferEnds, InEom, PastData, LoopInv, Sections, msgVars, mtaVars, histVars
  <2>2. \A m \in mails' : m \in mails \/ m.section \in Section
    BY <1>18 DEF EomSend, TransferEnds, Copy, histVars
  <2>3. \A m \in mails' : m.section # NoSection
    BY <2>1, <2>2, NoSectionAssumption DEF LoopInv, NoneClear
  <2>4. /\ SnapshotMatch' /\ GoodInContexts' /\ Continued'
        /\ \A s \in Section : HasGood(s)' = HasGood(s)
    BY <2>1, SameContexts
  <2>5. Sections'
    BY <2>1 DEF LoopInv, Sections, HasGood, Served, LoopEnded
  <2> QED
    BY <2>1, <2>3, <2>4, <2>5 DEF LoopInv, NoCopyYet, NoneClear, ClearOnlyIfSigned
<1>19. CASE PerformReturns
  <2>1. InEom /\ LoopEnded
    BY <1>19 DEF PerformReturns, InEom, LoopInv, Sections
  <2> QED
    BY <1>12, <1>16, <1>19, <2>1 DEF PerformReturns
<1> QED
    BY <1>1, <1>2, <1>3, <1>4, <1>5, <1>6, <1>7, <1>8, <1>9, <1>11, <1>13, <1>14, <1>15, <1>17,
       <1>18, <1>19
    DEF Next, xxfi_eom, EomSection

LEMMA InitLoopInv == Init => LoopInv
<1> SUFFICES ASSUME Init PROVE LoopInv
    OBVIOUS
<1>1. /\ \A s \in Section, r \in Rcpt : recipients[s][r] = "absent"
      /\ \A s \in Section : ~HasGood(s)
    BY DEF Init, NoRecipients, Nothing, HasGood
<1>2. SnapshotMatch /\ GoodInContexts
    BY <1>1 DEF SnapshotMatch, GoodInContexts
<1> QED
    BY <1>2 DEF Init, LoopInv, Continued, PastData, Sections, NoCopyYet, NoneClear,
                ClearOnlyIfSigned, InEom

LEMMA LoopInvariance == Spec => [](TypeOK /\ LoopInv)
<1>1. Init => TypeOK /\ LoopInv
    BY InitTypeOK, InitLoopInv
<1>2. TypeOK /\ LoopInv /\ [Next]_vars => TypeOK' /\ LoopInv'
    BY StepTypeOK, StepLoopInv
<1> QED
    BY <1>1, <1>2, PTL DEF Spec

\* A reload never moves a recipient to another section of a message under way: recipients are held
\* under the section find_match names in the captured configuration.
THEOREM Snapshot == Spec => []SnapshotMatch
<1>1. LoopInv => SnapshotMatch
    BY DEF LoopInv
<1> QED
    BY <1>1, LoopInvariance, PTL

\* Text that no section encrypted leaves only as a mail whose signature verified, and alone.
THEOREM NoClearText == Spec => []ClearOnlyIfSigned
<1>1. LoopInv => ClearOnlyIfSigned
    BY DEF LoopInv
<1> QED
    BY <1>1, LoopInvariance, PTL

\* No copy is re-injected before every section with good recipients was encrypted.
THEOREM EncryptFirst == Spec => []EncryptBeforeSend
<1>1. TypeOK /\ LoopInv => EncryptBeforeSend
  <2> SUFFICES ASSUME TypeOK, LoopInv, InEom, NEW m \in mails, NEW s \in Section, HasGood(s)
               PROVE  Served(s)
    BY DEF EncryptBeforeSend, Served
  <2>1. phase = "sending"
    BY DEF LoopInv, NoCopyYet, InEom
  <2> QED
    BY <2>1, AllServed DEF LoopInv, Sections
<1> QED
    BY <1>1, LoopInvariance, PTL

-----------------------------------------------------------------------------
(* MilterConnection implements MailPolicy for every value of its           *)
(* constants, where dump_email does not fail.                              *)

\* What the refinement needs beyond IInv and LoopInv.

\* get_context never makes a second context for a section.
Distinct == \A j, k \in DOMAIN contexts_ : contexts_[j] = contexts_[k] => j = k

\* The loop serves a section once, when it stands at it, and only with good recipients.
Visited ==
    InEom =>
        /\ replaced_by \notin work_items
        /\ \A s \in Section : Served(s) =>
              /\ HasGood(s)
              /\ \E k \in DOMAIN contexts_ : k < pos /\ contexts_[k] = s

\* The MTA's mail is cut down to the recipients of the section that replaced it.
Deleted ==
    deleted = IF InEom /\ replaced_by # NoSection
              THEN recipients_all_ \ good_recipients[replaced_by] ELSE {}

\* While on_eom runs, what left are copies of work items, and a transfer that ended without an
\* error left one.
Copies == InEom => \A m \in mails : m.section \in work_items /\ m = Copy(m.section)
Delivered ==
    phase = "sending" =>
        \A s \in work_items : s \in running \/ s \in failed \/ \E m \in mails : m.section = s

OnePerSection == \A m, n \in mails : m.section = n.section => m = n

PolicyInv == Distinct /\ Visited /\ Deleted /\ Copies /\ Delivered /\ OnePerSection

LEMMA InitPolicyInv == Init => PolicyInv
BY DEF Init, PolicyInv, Distinct, Visited, Deleted, Copies, Delivered, OnePerSection, InEom

\* Outside on_eom only the contexts, deleted and mails matter.
LEMMA QuietPolicyInv ==
    ASSUME ~InEom', Distinct', deleted' = {}, OnePerSection'
    PROVE  PolicyInv'
BY DEF PolicyInv, Visited, Deleted, Copies, Delivered, InEom

LEMMA EomReturnPolicyInv ==
    ASSUME NEW answer, EomReturn(answer), OnePerSection'
    PROVE  PolicyInv'
<1>1. ~InEom' /\ deleted' = {} /\ contexts_' = <<>>
    BY DEF EomReturn, InEom, ResetMessage, FreshFields
<1> QED
    BY <1>1, QuietPolicyInv DEF Distinct

LEMMA RcptPolicyInv ==
    ASSUME TypeOK, PolicyInv, NEW r \in Rcpt, NEW s \in Section, RcptMatched(r, s)
    PROVE  PolicyInv'
<1>1. ~InEom /\ ~InEom' /\ UNCHANGED <<deleted, mails>>
    BY DEF RcptMatched, RcptRest, InEom
<1>2. Distinct'
  <2>1. CASE InContexts(s)
    BY <2>1 DEF PolicyInv, Distinct, RcptMatched, get_context, InContexts
  <2>2. CASE ~InContexts(s)
    <3>1. contexts_' = Append(contexts_, s) /\ contexts_ \in Seq(Section)
      BY <2>2 DEF RcptMatched, get_context, InContexts, TypeOK, MessageTypeOK
    <3>2. \A k \in DOMAIN contexts_ : contexts_[k] # s
      BY <2>2 DEF InContexts
    <3> QED
      BY <3>1, <3>2 DEF PolicyInv, Distinct
  <2> QED
    BY <2>1, <2>2
<1>3. deleted' = {} /\ OnePerSection'
    BY <1>1 DEF PolicyInv, Deleted, OnePerSection
<1> QED
    BY <1>1, <1>2, <1>3, QuietPolicyInv

\* One section of the loop.
LEMMA SectionPolicyInv ==
    ASSUME TypeOK, LoopInv, PolicyInv, NEW s \in Section,
           EomSkipSection(s) \/ EomReplaceBody(s) \/ EomWorkItem(s)
    PROVE  PolicyInv'
<1> USE DEF EomSkipSection, EomReplaceBody, EomWorkItem, AtSection, msgVars, mtaVars, histVars
<1>1. /\ phase = "sections" /\ phase' = "sections" /\ InEom /\ InEom'
      /\ UNCHANGED <<contexts_, recipients_all_, good_recipients, mails>>
      /\ pos \in Nat /\ pos' = pos + 1 /\ s = contexts_[pos] /\ pos \in DOMAIN contexts_
      /\ mails = {}
  <2>1. pos >= 1 /\ mails = {}
    BY DEF LoopInv, Sections, NoCopyYet, InEom
  <2> QED
    BY <2>1 DEF InEom, LoopEnded, TypeOK, MessageTypeOK, EomTypeOK
<1>2. \A t \in Section : HasGood(t)' = HasGood(t)
    BY <1>1 DEF HasGood
<1>3. ~Served(s)
    BY <1>1 DEF PolicyInv, Visited, Distinct
<1>4. \A t \in Section : Served(t)' => Served(t) \/ (t = s /\ HasGood(s))
    BY DEF Served
<1>5. Visited'
  <2>1. replaced_by' \notin work_items'
    BY <1>1, <1>3, NoSectionAssumption DEF PolicyInv, Visited, Served, TypeOK, EomTypeOK
  <2>2. ASSUME NEW t \in Section, Served(t)'
        PROVE  HasGood(t)' /\ \E k \in DOMAIN contexts_' : k < pos' /\ contexts_'[k] = t
    <3>1. CASE Served(t)
      <4>1. HasGood(t) /\ \E k \in DOMAIN contexts_ : k < pos /\ contexts_[k] = t
        BY <1>1, <3>1 DEF PolicyInv, Visited
      <4> QED
        BY <1>1, <1>2, <4>1 DEF TypeOK, MessageTypeOK
    <3>2. CASE t = s /\ HasGood(s)
      BY <1>1, <1>2, <3>2
    <3> QED
      BY <1>4, <2>2, <3>1, <3>2
  <2> QED
    BY <2>1, <2>2 DEF Visited
<1>6. Deleted'
    BY <1>1, NoSectionAssumption DEF PolicyInv, Deleted, update_milter_recipients
<1> QED
    BY <1>1, <1>5, <1>6 DEF PolicyInv, Distinct, Copies, Delivered, OnePerSection

LEMMA TransferPolicyInv ==
    ASSUME TypeOK, PolicyInv, NEW s \in Section, TransferEnds(s)
    PROVE  PolicyInv'
<1> USE DEF TransferEnds, msgVars, mtaVars
<1>1. /\ phase = "sending" /\ InEom /\ InEom'
      /\ UNCHANGED <<phase, contexts_, recipients_all_, good_recipients, written, pos,
                     replaced_by, work_items, deleted>>
      /\ s \in work_items
    BY DEF InEom, TypeOK, EomTypeOK
<1>2. \A t \in Section : /\ HasGood(t)' = HasGood(t) /\ Served(t)' = Served(t)
                         /\ Copy(t)' = Copy(t)
    BY <1>1 DEF HasGood, Served, Copy
<1>3. Distinct' /\ Visited' /\ Deleted'
    BY <1>1, <1>2 DEF PolicyInv, Distinct, Visited, Deleted
<1>4. mails' \subseteq mails \cup {Copy(s)} /\ mails \subseteq mails'
    OBVIOUS
<1>5. Copies'
  <2>1. Copy(s).section = s
    BY DEF Copy
  <2>2. \A m \in mails' : m.section \in work_items /\ m = Copy(m.section)
    BY <1>1, <1>4, <2>1 DEF PolicyInv, Copies
  <2> QED
    BY <1>1, <1>2, <2>2 DEF Copies, TypeOK, EomTypeOK
<1>6. Delivered'
  <2>1. s \in failed' \/ Copy(s) \in mails'
    OBVIOUS
  <2>2. Copy(s).section = s
    BY DEF Copy
  <2>3. failed \subseteq failed'
    OBVIOUS
  <2> QED
    BY <1>1, <1>4, <2>1, <2>2, <2>3 DEF PolicyInv, Delivered
<1>7. OnePerSection'
    BY <1>1, <1>5 DEF Copies, OnePerSection
<1> QED
    BY <1>3, <1>5, <1>6, <1>7 DEF PolicyInv

\* The mail that continues unsigned is the work of the section that replaced its body, which has no
\* work item.
LEMMA MilterSection ==
    ASSUME TypeOK, LoopInv, PolicyInv, InEom, LoopEnded
    PROVE  /\ replaced_by \in Section /\ replaced_by \notin work_items
           /\ \A m \in MilterCopy : m.section = replaced_by /\ \A n \in MilterCopy : m = n
<1>1. replaced_by # NoSection /\ replaced_by \in Section
    BY SomeReplaced DEF TypeOK, EomTypeOK
<1>2. replaced_by \notin work_items
    BY <1>1 DEF PolicyInv, Visited
<1> QED
    BY <1>1, <1>2 DEF MilterCopy

\* Where every promise was kept, it goes to the recipients of that section.
LEMMA MilterCopyIs ==
    ASSUME TypeOK, IInv, LoopInv, PolicyInv, InEom, LoopEnded
    PROVE  /\ replaced_by \in Section /\ replaced_by \notin work_items
           /\ MilterCopy = {[via |-> "milter", section |-> replaced_by,
                             rcpts |-> good_recipients[replaced_by],
                             body |-> written[replaced_by]]}
<1>1. replaced_by # NoSection /\ replaced_by \in Section
    BY SomeReplaced DEF TypeOK, EomTypeOK
<1>2. HasGood(replaced_by) /\ replaced_by \notin work_items
    BY <1>1 DEF PolicyInv, Visited, Served
<1>3. good_recipients[replaced_by] \subseteq accepted
  <2>1. InTransaction /\ PastData
    BY DEF InEom, InTransaction, PastData
  <2>2. good_recipients[replaced_by] = Keyed(replaced_by)
    BY <1>1, <2>1 DEF IInv, Promises
  <2> QED
    BY <1>1, <2>1, <2>2 DEF IInv, Promises, Keyed
<1>4. accepted \subseteq recipients_all_
    BY DEF IInv, Promises, InEom, InTransaction
<1>5. deleted = recipients_all_ \ good_recipients[replaced_by]
    BY <1>1 DEF PolicyInv, Deleted
<1>6. accepted \ deleted = good_recipients[replaced_by]
    BY <1>3, <1>4, <1>5
<1> QED
    BY <1>1, <1>2, <1>6 DEF MilterCopy, HasGood

LEMMA StepPolicyInv ==
    ASSUME TypeOK, LoopInv, PolicyInv, [Next]_vars
    PROVE  PolicyInv'
<1>1. CASE xxfi_connect \/ xxfi_abort \/ xxfi_envfrom \/ xxfi_data \/ xxfi_header \/ xxfi_eoh
           \/ xxfi_body \/ xxfi_close
  <2>1. ~InEom /\ ~InEom' /\ deleted' = {}
    BY <1>1 DEF xxfi_connect, xxfi_abort, xxfi_envfrom, xxfi_data, xxfi_header, xxfi_eoh, xxfi_body,
                xxfi_close, InEom, PolicyInv, Deleted
  <2>2. mails' = mails \/ mails' = {}
    BY <1>1 DEF xxfi_connect, xxfi_abort, xxfi_envfrom, xxfi_data, xxfi_header, xxfi_eoh, xxfi_body,
                xxfi_close, histVars
  <2>3. contexts_' = contexts_ \/ contexts_' = <<>>
    BY <1>1 DEF xxfi_connect, xxfi_abort, xxfi_envfrom, xxfi_data, xxfi_header, xxfi_eoh, xxfi_body,
                xxfi_close, msgVars, GetMessage, ResetMessage, FreshFields
  <2>4. Distinct' /\ OnePerSection'
    BY <2>2, <2>3 DEF PolicyInv, Distinct, OnePerSection
  <2> QED
    BY <2>1, <2>4, QuietPolicyInv
<1>2. CASE NoContext \/ set_config \/ UNCHANGED vars
  <2>1. UNCHANGED <<msgVars, eomVars, deleted, phase, mails>>
    BY <1>2 DEF NoContext, set_config, vars, mtaVars, histVars
  <2> QED
    BY <2>1 DEF PolicyInv, Distinct, Visited, Deleted, Copies, Delivered, OnePerSection, Served,
                HasGood, Copy, InEom, msgVars, eomVars
<1>3. CASE xxfi_envrcpt
  <2>1. ASSUME NEW r \in Rcpt, RcptUnmatched(r)
        PROVE  PolicyInv'
    <3>1. ~InEom /\ ~InEom' /\ UNCHANGED <<contexts_, deleted, mails>>
      BY <2>1 DEF RcptUnmatched, RcptRest, InEom
    <3> QED
      BY <3>1, QuietPolicyInv DEF PolicyInv, Distinct, Deleted, OnePerSection
  <2>2. ASSUME NEW r \in Rcpt, NEW s \in Section, RcptMatched(r, s)
        PROVE  PolicyInv'
    BY <2>2, RcptPolicyInv
  <2> QED
    BY <1>3, <2>1, <2>2
    DEF xxfi_envrcpt, RcptKeyFound, RcptDiscarded, RcptRetrieved, RcptRefused, RcptThrows
<1>4. CASE EomDumpThrows \/ EomCatchThrows
  <2>1. ~InEom' /\ deleted' = {} /\ UNCHANGED <<contexts_, mails>>
    BY <1>4 DEF EomDumpThrows, EomCatchThrows, EomEscape, histVars, InEom
  <2> QED
    BY <2>1, QuietPolicyInv DEF PolicyInv, Distinct, OnePerSection
<1>5. CASE EomSignatureVerifies
    BY <1>5, EomReturnPolicyInv DEF EomSignatureVerifies, OnePerSection
<1>6. ASSUME NEW answer, EomReturn(answer), UNCHANGED mails
      PROVE  PolicyInv'
    BY <1>6, EomReturnPolicyInv DEF PolicyInv, OnePerSection
<1>7. CASE EomSignatureRefused \/ EomCatch \/ PerformThrows
           \/ \E s \in Section : EomReplaceBodyFails(s)
    BY <1>6, <1>7 DEF EomSignatureRefused, EomCatch, PerformThrows, EomReplaceBodyFails
<1>8. CASE EomUnsigned
  <2>1. /\ InEom' /\ ~InEom /\ phase' = "sections" /\ replaced_by = NoSection /\ work_items = {}
        /\ mails = {} /\ UNCHANGED <<contexts_, deleted, replaced_by, work_items, mails>>
    BY <1>8 DEF EomUnsigned, InEom, msgVars, histVars, LoopInv, Sections, NoCopyYet
  <2>2. \A s \in Section : ~Served(s)'
    BY <2>1, NoSectionAssumption DEF Served
  <2> QED
    BY <2>1, <2>2
    DEF PolicyInv, Distinct, Visited, Deleted, Copies, Delivered, OnePerSection
<1>9. CASE \E s \in Section : EomSkipSection(s) \/ EomReplaceBody(s) \/ EomWorkItem(s)
    BY <1>9, SectionPolicyInv
<1>10. ASSUME InEom, LoopEnded, EomReturn("continue"), mails' = mails \cup MilterCopy
       PROVE  PolicyInv'
  <2>1. OnePerSection'
    BY <1>10, MilterSection DEF PolicyInv, Copies, OnePerSection
  <2> QED
    BY <1>10, <2>1, EomReturnPolicyInv
<1>11. CASE EomNothingToSend
    BY <1>10, <1>11 DEF EomNothingToSend, InEom
<1>12. CASE EomSend
  <2>1. /\ InEom /\ InEom' /\ phase' = "sending" /\ running' = work_items
        /\ UNCHANGED <<contexts_, recipients_all_, good_recipients, written, pos, replaced_by,
                       work_items, deleted, mails>>
    BY <1>12 DEF EomSend, InEom, msgVars, histVars
  <2>2. \A s \in Section : /\ HasGood(s)' = HasGood(s) /\ Served(s)' = Served(s)
                           /\ Copy(s)' = Copy(s)
    BY <2>1 DEF HasGood, Served, Copy
  <2> QED
    BY <2>1, <2>2
    DEF PolicyInv, Distinct, Visited, Deleted, Copies, Delivered, OnePerSection, TypeOK, EomTypeOK
<1>13. CASE \E s \in Section : TransferEnds(s)
    BY <1>13, TransferPolicyInv
<1>14. CASE PerformReturns
  <2>1. InEom /\ LoopEnded
    BY <1>14 DEF PerformReturns, InEom, LoopInv, Sections
  <2> QED
    BY <1>6, <1>10, <1>14, <2>1 DEF PerformReturns
<1> QED
    BY <1>1, <1>2, <1>3, <1>4, <1>5, <1>7, <1>8, <1>9, <1>11, <1>12, <1>13, <1>14
    DEF Next, xxfi_eom, EomSection

\* The copies are as they should be whether dumps fail or not.
LEMMA CopiesInvariance == Spec => []PolicyInv
<1>1. TypeOK /\ LoopInv /\ PolicyInv /\ [Next]_vars => PolicyInv'
    BY StepPolicyInv
<1> QED
    BY <1>1, InitPolicyInv, LoopInvariance, PTL DEF Spec

-----------------------------------------------------------------------------
(* Nobody is lost, whatever an earlier transaction left in the message *)

\* Who was accepted with a key is held with it, and past DATA among the good recipients, next to
\* whomever a message that outlived its transaction still holds.
KeptOwed ==
    /\ InTransaction => \A p \in owed : p[1] \in Keyed(p[2]) /\ p[1] \in accepted
    /\ PastData => \A p \in owed : p[1] \in good_recipients[p[2]]

LostInv == KeptOwed /\ NoneLost

\* While nothing is accepted and nothing let through, only the good recipients may grow.
LEMMA QuietLostInv ==
    ASSUME LostInv, UNCHANGED <<recipients, owed, accepted>>, phase' # "done",
           InTransaction' => InTransaction, PastData' => PastData, UNCHANGED good_recipients
    PROVE  LostInv'
BY DEF LostInv, KeptOwed, NoneLost, Keyed

\* A transaction that is over without an answer to continue.
LEMMA OverLostInv ==
    ASSUME ~InTransaction', phase' # "done"
    PROVE  LostInv'
BY DEF LostInv, KeptOwed, NoneLost, InTransaction, PastData

LEMMA RcptLostInv == TypeOK /\ LostInv /\ xxfi_envrcpt => LostInv'
<1> SUFFICES ASSUME TypeOK, LostInv, xxfi_envrcpt PROVE LostInv'
    OBVIOUS
<1>1. /\ phase = "mail" /\ phase' = "mail"
      /\ InTransaction /\ ~PastData /\ InTransaction' /\ ~PastData' /\ UNCHANGED good_recipients
    BY DEF xxfi_envrcpt, RcptUnmatched, RcptKeyFound, RcptDiscarded, RcptRetrieved, RcptRefused,
           RcptThrows, RcptMatched, RcptRest, InTransaction, PastData
<1>2. CASE UNCHANGED <<recipients, owed, accepted>>
    BY <1>1, <1>2, QuietLostInv
<1>3. ASSUME NEW r \in Rcpt, NEW s \in Section, NEW presence, Accept(r, s, presence)
      PROVE  LostInv'
  <2>1. /\ \A t \in Section, q \in Rcpt : q # r => recipients'[t][q] = recipients[t][q]
        /\ recipients'[s][r] = presence
    BY <1>3 DEF Accept, TypeOK, MessageTypeOK
  <2>2. ASSUME NEW p \in owed'
        PROVE  p[1] \in Keyed(p[2])' /\ p[1] \in accepted'
    <3>1. CASE p \in owed /\ p[1] # r
      <4>1. p[1] \in Rcpt /\ p[2] \in Section /\ p[1] \in Keyed(p[2]) /\ p[1] \in accepted
        BY <1>1, <3>1 DEF LostInv, KeptOwed, TypeOK
      <4> QED
        BY <1>3, <2>1, <3>1, <4>1 DEF Keyed, Accept
    <3>2. CASE presence = "key" /\ p = <<r, s>>
      BY <1>3, <2>1, <3>2 DEF Keyed, Accept
    <3> QED
      BY <1>3, <2>2, <3>1, <3>2 DEF Accept
  <2> QED
    BY <1>1, <2>2 DEF LostInv, KeptOwed, NoneLost
<1>4. UNCHANGED <<recipients, owed, accepted>>
      \/ \E r \in Rcpt, s \in Section, presence \in {"key", "nokey"} : Accept(r, s, presence)
    BY DEF xxfi_envrcpt, RcptUnmatched, RcptKeyFound, RcptDiscarded, RcptRetrieved, RcptRefused,
           RcptThrows, Refuse
<1> QED
    BY <1>2, <1>3, <1>4

LEMMA DataLostInv == TypeOK /\ LoopInv /\ LostInv /\ xxfi_data => LostInv'
<1> SUFFICES ASSUME TypeOK, LoopInv, LostInv, xxfi_data PROVE LostInv'
    OBVIOUS
<1>1. /\ InTransaction /\ phase' \in {"data", "refused"}
      /\ UNCHANGED <<recipients, accepted, owed>>
    BY DEF xxfi_data, InTransaction, histVars
<1>2. ASSUME NEW p \in owed
      PROVE  p[1] \in Keyed(p[2])' /\ p[1] \in accepted' /\ p[1] \in good_recipients'[p[2]]
  <2>1. p[1] \in Rcpt /\ p[2] \in Section /\ p[1] \in Keyed(p[2]) /\ p[1] \in accepted
    BY <1>1 DEF LostInv, KeptOwed, TypeOK
  <2>2. InContexts(p[2])
    BY <2>1 DEF LoopInv, SnapshotMatch, Keyed
  <2>3. good_recipients'[p[2]] = good_recipients[p[2]] \cup Keyed(p[2])
    BY <2>1, <2>2 DEF xxfi_data
  <2> QED
    BY <1>1, <2>1, <2>3 DEF Keyed
<1> QED
    BY <1>1, <1>2 DEF LostInv, KeptOwed, NoneLost

\* A mail that continues unsigned has a copy of every section that somebody is owed by.
LEMMA ContinueLostInv ==
    ASSUME TypeOK, LoopInv, PolicyInv, LostInv, InEom, LoopEnded,
           \A s \in work_items : \E m \in mails : m.section = s,
           EomReturn("continue"), mails' = mails \cup MilterCopy
    PROVE  LostInv'
<1>1. InTransaction /\ PastData /\ ~InTransaction' /\ ~PastData' /\ owed' = owed
    BY DEF InEom, InTransaction, PastData, EomReturn
<1>2. ASSUME NEW p \in owed
      PROVE  \E m \in mails' : p[1] \in m.rcpts /\ p[2] = m.section
  <2> DEFINE r == p[1]
             s == p[2]
  <2>1. r \in Rcpt /\ s \in Section /\ r \in accepted /\ r \in good_recipients[s]
    BY <1>1 DEF LostInv, KeptOwed, TypeOK
  <2>2. s = replaced_by \/ s \in work_items
    BY <2>1, AllServed DEF HasGood, Served
  <2>3. CASE s \in work_items
    <3>1. PICK m \in mails : m.section = s
      BY <2>3
    <3>2. m = Copy(s)
      BY <3>1 DEF PolicyInv, Copies
    <3> QED
      BY <2>1, <3>1, <3>2 DEF Copy
  <2>4. CASE s = replaced_by
    <3>1. replaced_by # NoSection
      BY SomeReplaced
    <3>2. r \notin deleted
      BY <2>1, <2>4, <3>1 DEF PolicyInv, Deleted
    <3>3. \E m \in MilterCopy : r \in m.rcpts /\ m.section = s
      BY <2>1, <2>4, <3>2 DEF MilterCopy
    <3> QED
      BY <3>3
  <2> QED
    BY <2>2, <2>3, <2>4
<1>3. ASSUME NEW p \in owed
      PROVE  p \in UNION {m.rcpts \X {m.section} : m \in mails'}
  <2>1. p = <<p[1], p[2]>>
    BY DEF TypeOK
  <2>2. PICK m \in mails' : p[1] \in m.rcpts /\ p[2] = m.section
    BY <1>2
  <2>3. p \in m.rcpts \X {m.section}
    BY <2>1, <2>2
  <2> QED
    BY <2>2, <2>3
<1> QED
    BY <1>1, <1>3 DEF LostInv, KeptOwed, NoneLost

LEMMA StepLostInv ==
    ASSUME TypeOK, LoopInv, PolicyInv, LostInv, [Next]_vars
    PROVE  LostInv'
<1>1. CASE xxfi_connect \/ xxfi_close \/ xxfi_abort \/ EomDumpThrows \/ EomCatchThrows
    BY <1>1, OverLostInv DEF xxfi_connect, xxfi_close, xxfi_abort, EomDumpThrows, EomCatchThrows, EomEscape,
                             InTransaction
<1>2. CASE NoContext \/ set_config \/ UNCHANGED vars
    BY <1>2 DEF NoContext, set_config, vars, msgVars, mtaVars, histVars, LostInv, KeptOwed, NoneLost, Keyed,
                InTransaction, PastData
<1>3. CASE xxfi_envfrom
    BY <1>3 DEF xxfi_envfrom, LostInv, KeptOwed, NoneLost, PastData
<1>4. CASE xxfi_envrcpt
    BY <1>4, RcptLostInv
<1>5. CASE xxfi_data
    BY <1>5, DataLostInv
<1>6. CASE xxfi_header \/ xxfi_eoh \/ xxfi_body \/ EomUnsigned \/ EomSend
           \/ \E s \in Section : TransferEnds(s)
  <2>1. /\ UNCHANGED <<recipients, good_recipients, owed, accepted>> /\ phase' # "done"
        /\ InTransaction /\ PastData
    BY <1>6 DEF xxfi_header, xxfi_eoh, xxfi_body, EomUnsigned, EomSend, TransferEnds, msgVars, mtaVars,
                histVars, InTransaction, PastData
  <2> QED
    BY <2>1, QuietLostInv
<1>7. CASE \E s \in Section : EomSkipSection(s) \/ EomReplaceBody(s) \/ EomWorkItem(s)
  <2>1. /\ UNCHANGED <<recipients, good_recipients, owed, accepted>> /\ phase' # "done"
        /\ InTransaction /\ PastData
    BY <1>7 DEF EomSkipSection, EomReplaceBody, EomWorkItem, AtSection, msgVars, mtaVars, histVars,
                InTransaction, PastData
  <2> QED
    BY <2>1, QuietLostInv
<1>8. ASSUME NEW answer \in {"reject", "tempfail"}, EomReturn(answer)
      PROVE  LostInv'
    BY <1>8, OverLostInv DEF EomReturn, InTransaction
<1>9. CASE EomSignatureRefused \/ EomCatch \/ PerformThrows
           \/ \E s \in Section : EomReplaceBodyFails(s)
    BY <1>8, <1>9 DEF EomSignatureRefused, EomCatch, PerformThrows, EomReplaceBodyFails
<1>10. CASE EomSignatureVerifies
  <2>1. phase' = "done" /\ \E m \in mails' : m.via = "unchanged"
    BY <1>10 DEF EomSignatureVerifies, EomReturn
  <2> QED
    BY <2>1 DEF LostInv, KeptOwed, NoneLost, InTransaction, PastData
<1>11. CASE EomNothingToSend
    BY <1>11, ContinueLostInv DEF EomNothingToSend, InEom
<1>12. CASE PerformReturns
  <2>1. CASE failed = {}
    <3>1. \A s \in work_items : \E m \in mails : m.section = s
      BY <1>12, <2>1 DEF PerformReturns, PolicyInv, Delivered
    <3>2. InEom /\ LoopEnded
      BY <1>12 DEF PerformReturns, InEom, LoopInv, Sections
    <3> QED
      BY <1>12, <2>1, <3>1, <3>2, ContinueLostInv DEF PerformReturns
  <2>2. CASE failed # {}
    BY <1>8, <1>12, <2>2 DEF PerformReturns
  <2> QED
    BY <2>1, <2>2
<1> QED
    BY <1>1, <1>2, <1>3, <1>4, <1>5, <1>6, <1>7, <1>9, <1>10, <1>11, <1>12
    DEF Next, xxfi_eom, EomSection

\* A mail that continues unsigned leaves out nobody accepted with a key, whether dumps fail or not
\* and whatever the message brought along from an earlier transaction.
THEOREM NobodyLost == Spec => []NoneLost
<1>1. Init => LostInv
    BY DEF Init, LostInv, KeptOwed, NoneLost
<1>2. TypeOK /\ LoopInv /\ PolicyInv /\ LostInv /\ [Next]_vars => LostInv'
    BY StepLostInv
<1>3. LostInv => NoneLost
    BY DEF LostInv
<1> QED
    BY <1>1, <1>2, <1>3, LoopInvariance, CopiesInvariance, PTL DEF Spec

-----------------------------------------------------------------------------
(* Every step is a step of MailPolicy, or none *)

\* The stage each phase stands for.
LEMMA StageIs ==
    /\ phase \in {"closed", "noctx", "idle"} => PolicyStage = "none"
    /\ phase = "mail" => PolicyStage = "envelope"
    /\ phase \in {"data", "eoh", "sections", "sending"} => PolicyStage = "content"
    /\ phase = "refused" => PolicyStage = reply
    /\ phase = "done" /\ (\A m \in mails : m.via # "unchanged") => PolicyStage = "continue"
    /\ phase = "done" /\ (\E m \in mails : m.via = "unchanged") => PolicyStage = "passed"
BY DEF PolicyStage

\* What leaves serves the recipients it names with the section that encrypted it.
LEMMA ServedIs ==
    ASSUME NEW m, m.via # "unchanged", mails' = mails \cup {m}
    PROVE  PolicyServed' = PolicyServed \cup (m.rcpts \X {m.section})
BY DEF PolicyServed

LEMMA NothingServed == mails = {} => PolicyServed = {}
BY DEF PolicyServed

\* Past DATA, what a section owes is what its good recipients are owed.
LEMMA OwedIs ==
    ASSUME TypeOK, IInv, PastData, NEW s \in Section
    PROVE  MP!Of(s) = good_recipients[s] \X {s}
<1>1. good_recipients[s] = Keyed(s) /\ \A r \in Rcpt : r \in Keyed(s) <=> <<r, s>> \in owed
    BY DEF IInv, Promises, PastData, InTransaction
<1>2. ASSUME NEW p \in owed, p[2] = s
      PROVE  p \in good_recipients[s] \X {s}
    BY <1>1, <1>2 DEF TypeOK
<1>3. ASSUME NEW p \in good_recipients[s] \X {s}
      PROVE  p \in owed /\ p[2] = s
    BY <1>1, <1>3 DEF Keyed
<1> QED
    BY <1>2, <1>3 DEF MP!Of

\* While on_eom runs, a pair is served exactly when its section's copy left.
LEMMA ServedSoFar ==
    ASSUME TypeOK, PolicyInv, InEom, NEW r, NEW s
    PROVE  <<r, s>> \in PolicyServed <=>
              r \in good_recipients[s] /\ \E m \in mails : m.section = s
<1>1. ASSUME NEW m \in mails
      PROVE  m.via = "smtp" /\ m.rcpts = good_recipients[m.section]
    BY <1>1 DEF PolicyInv, Copies, Copy
<1> QED
    BY <1>1 DEF PolicyServed

\* The answer that lets an unsigned mail continue serves everyone still owed, by one section.
LEMMA ContinueStep ==
    ASSUME TypeOK, IInv, LoopInv, PolicyInv, InEom, LoopEnded,
           \A s \in work_items : \E m \in mails : m.section = s,
           EomReturn("continue"), mails' = mails \cup MilterCopy
    PROVE  MP!Continue
<1>1. /\ PastData /\ phase' = "done" /\ owed' = owed
      /\ PolicyStage = "content"
    BY StageIs DEF InEom, PastData, EomReturn
<1> DEFINE rb == replaced_by
           m0 == [via |-> "milter", section |-> rb, rcpts |-> good_recipients[rb],
                  body |-> written[rb]]
<1>2. rb \in Section /\ rb \notin work_items /\ mails' = mails \cup {m0}
    BY MilterCopyIs
<1>3. PolicyServed' = PolicyServed \cup (good_recipients[rb] \X {rb})
  <2>1. m0.via # "unchanged" /\ m0.rcpts = good_recipients[rb] /\ m0.section = rb
    OBVIOUS
  <2> HIDE DEF m0
  <2>2. PolicyServed' = PolicyServed \cup (m0.rcpts \X {m0.section})
    BY <1>2, <2>1, ServedIs
  <2> QED
    BY <2>1, <2>2
<1>4. \A m \in mails' : m.via # "unchanged"
    BY <1>2 DEF PolicyInv, Copies, Copy
<1>5. PolicyStage' = "continue"
    BY <1>1, <1>4 DEF PolicyStage
<1>6. \A s \in Section, r \in Rcpt :
          <<r, s>> \in owed <=> r \in good_recipients[s]
    BY <1>1, OwedIs DEF IInv, Promises, PastData, InTransaction, Keyed
<1>7. \A s \in Section, r \in Rcpt :
          <<r, s>> \in PolicyServed <=> r \in good_recipients[s] /\ s \in work_items
    BY ServedSoFar DEF PolicyInv, Copies
<1>8. \A s \in Section, r \in Rcpt :
          r \in good_recipients[s] => s \in work_items \/ s = rb
    BY AllServed DEF HasGood, Served
<1>9. PolicyServed \subseteq Rcpt \X Section
    BY DEF PolicyServed, PolicyInv, Copies, Copy, TypeOK, MessageTypeOK, EomTypeOK
<1>10. \A p \in owed \ PolicyServed : p \in MP!Of(rb)
  <2> SUFFICES ASSUME NEW p \in owed, p \notin PolicyServed
               PROVE  p \in MP!Of(rb)
    OBVIOUS
  <2>1. PICK r \in Rcpt, s \in Section : p = <<r, s>>
    BY DEF TypeOK
  <2>2. s = rb
    BY <1>6, <1>7, <1>8, <2>1
  <2> QED
    BY <2>1, <2>2 DEF MP!Of
<1>11. \A p \in MP!Of(rb) : p \in owed \ PolicyServed
  <2> SUFFICES ASSUME NEW p \in MP!Of(rb)
               PROVE  p \in owed /\ p \notin PolicyServed
    OBVIOUS
  <2>1. PICK r \in Rcpt, s \in Section : p = <<r, s>> /\ p \in owed /\ s = rb
    BY DEF MP!Of, TypeOK
  <2> QED
    BY <1>2, <1>7, <2>1
<1>12. owed \ PolicyServed = MP!Of(rb)
    BY <1>10, <1>11
<1>13. MP!Of(rb) = good_recipients[rb] \X {rb}
    BY <1>1, <1>2, OwedIs
<1>14. PolicyServed \subseteq owed
  <2> SUFFICES ASSUME NEW p \in PolicyServed
               PROVE  p \in owed
    OBVIOUS
  <2>1. PICK r \in Rcpt, s \in Section : p = <<r, s>>
    BY <1>9
  <2> QED
    BY <1>6, <1>7, <2>1
<1>15. PolicyServed' = owed
    BY <1>3, <1>12, <1>13, <1>14
<1> QED
    BY <1>1, <1>2, <1>5, <1>12, <1>15 DEF MP!Continue

LEMMA EomStep ==
    ASSUME TypeOK, IInv, LoopInv, PolicyInv, xxfi_eom, ~DumpMayFail
    PROVE  MP!Next \/ UNCHANGED MP!vars
<1>1. PastData /\ PolicyStage = "content"
    BY StageIs
    DEF PastData, xxfi_eom, EomDumpThrows, EomSignatureVerifies, EomSignatureRefused, EomUnsigned,
        EomSection, EomSkipSection, EomReplaceBody, EomReplaceBodyFails, EomWorkItem, AtSection,
        EomCatch, EomCatchThrows, CanThrow, EomNothingToSend, EomSend, TransferEnds, PerformThrows,
        PerformReturns
<1>2. ASSUME EomReturn("tempfail"), UNCHANGED mails
      PROVE  MP!Defer
  <2>1. /\ phase' = "refused" /\ reply' = "tempfail" /\ UNCHANGED owed
        /\ PolicyServed' = PolicyServed
    BY <1>2 DEF EomReturn, PolicyServed
  <2> QED
    BY <1>1, <2>1 DEF MP!Defer, PolicyStage
<1>3. CASE EomSignatureRefused
  <2>1. /\ phase' = "refused" /\ reply' = "reject" /\ UNCHANGED <<owed, mails>>
        /\ PolicyServed' = PolicyServed
    BY <1>3 DEF EomSignatureRefused, EomReturn, PolicyServed
  <2>2. PolicyServed = {}
    BY <1>3, NothingServed DEF EomSignatureRefused, LoopInv, NoCopyYet
  <2> QED
    BY <1>1, <2>1, <2>2 DEF MP!Next, MP!Reject, PolicyStage
<1>4. CASE EomSignatureVerifies
  <2>1. /\ phase' = "done" /\ UNCHANGED owed
        /\ mails' = {[via |-> "unchanged", section |-> NoSection, rcpts |-> accepted,
                      body |-> {txn}]}
    BY <1>4 DEF EomSignatureVerifies, EomReturn
  <2>2. PolicyServed = {} /\ PolicyServed' = {}
    BY <1>4, <2>1, NothingServed DEF EomSignatureVerifies, LoopInv, NoCopyYet, PolicyServed
  <2> QED
    BY <1>1, <2>1, <2>2 DEF MP!Next, MP!Pass, PolicyStage
<1>5. CASE EomUnsigned \/ EomSend
           \/ \E s \in Section : EomSkipSection(s) \/ EomReplaceBody(s) \/ EomWorkItem(s)
  <2>1. /\ phase' \in {"sections", "sending"} /\ UNCHANGED <<owed, mails>>
    BY <1>5 DEF EomUnsigned, EomSend, EomSkipSection, EomReplaceBody, EomWorkItem, AtSection,
                histVars, mtaVars
  <2>2. PolicyStage' = "content" /\ PolicyServed' = PolicyServed
    BY <2>1 DEF PolicyStage, PolicyServed
  <2> QED
    BY <1>1, <2>1, <2>2 DEF MP!vars
<1>6. CASE EomCatch \/ PerformThrows \/ \E s \in Section : EomReplaceBodyFails(s)
    BY <1>2, <1>6 DEF EomCatch, PerformThrows, EomReplaceBodyFails, MP!Next
<1>7. CASE EomDumpThrows \/ EomCatchThrows
    BY <1>7 DEF EomDumpThrows, EomCatchThrows, DumpThrows
<1>8. CASE EomNothingToSend
  <2>1. InEom /\ LoopEnded /\ \A s \in work_items : \E m \in mails : m.section = s
    BY <1>8 DEF EomNothingToSend, InEom
  <2> QED
    BY <1>8, <2>1, ContinueStep DEF EomNothingToSend, MP!Next
<1>9. CASE PerformReturns
  <2>1. InEom /\ LoopEnded
    BY <1>9 DEF PerformReturns, InEom, LoopInv, Sections
  <2>2. CASE failed = {}
    <3>1. \A s \in work_items : \E m \in mails : m.section = s
      BY <1>9, <2>2 DEF PerformReturns, PolicyInv, Delivered
    <3> QED
      BY <1>9, <2>1, <2>2, <3>1, ContinueStep DEF PerformReturns, MP!Next
  <2>3. CASE failed # {}
    BY <1>2, <1>9, <2>3 DEF PerformReturns, MP!Next
  <2> QED
    BY <2>2, <2>3
<1>10. ASSUME NEW s \in Section, TransferEnds(s)
       PROVE  MP!Serve(s) \/ UNCHANGED MP!vars
  <2>1. InEom /\ phase' = "sending" /\ UNCHANGED owed /\ LoopEnded /\ s \in work_items
    BY <1>10 DEF TransferEnds, mtaVars, InEom, LoopInv, Sections, TypeOK, EomTypeOK
  <2>2. PolicyStage' = "content"
    BY <2>1 DEF PolicyStage
  <2>3. CASE mails' = mails
    BY <1>1, <2>1, <2>2, <2>3 DEF MP!vars, PolicyServed
  <2>4. CASE mails' = mails \cup {Copy(s)}
    <3>1. PolicyServed' = PolicyServed \cup (good_recipients[s] \X {s})
      <4>1. /\ Copy(s).via # "unchanged" /\ Copy(s).section = s
            /\ Copy(s).rcpts = good_recipients[s]
        BY DEF Copy
      <4>2. PolicyServed' = PolicyServed \cup (Copy(s).rcpts \X {Copy(s).section})
        BY <2>4, <4>1, ServedIs
      <4> QED
        BY <4>1, <4>2
    <3>2. PolicyServed' = PolicyServed \cup MP!Of(s)
      BY <1>1, <3>1, OwedIs
    <3>3. PICK rb \in Section, r \in Rcpt :
              rb = replaced_by /\ rb \notin work_items /\ r \in good_recipients[rb]
      <4>1. replaced_by \in Section /\ replaced_by \notin work_items
        BY <2>1, MilterCopyIs
      <4>2. HasGood(replaced_by)
        BY <2>1, <4>1 DEF PolicyInv, Visited, Served
      <4> QED
        BY <4>1, <4>2 DEF HasGood, TypeOK, MessageTypeOK
    <3>4. <<r, rb>> \in owed
      BY <1>1, <3>3 DEF IInv, Promises, PastData, InTransaction, Keyed
    <3>5. <<r, rb>> \notin PolicyServed
      BY <2>1, <3>3, ServedSoFar DEF PolicyInv, Copies
    <3>6. <<r, rb>> \notin PolicyServed'
      BY <2>1, <3>1, <3>3, <3>5
    <3>7. PolicyServed' # owed'
      BY <2>1, <3>4, <3>6
    <3> QED
      BY <1>1, <2>1, <2>2, <3>2, <3>7 DEF MP!Serve
  <2> QED
    BY <1>10, <2>3, <2>4 DEF TransferEnds
<1> QED
  <2>1. ASSUME NEW s \in Section, MP!Serve(s)
        PROVE  MP!Next
    BY <2>1 DEF MP!Next
  <2> QED
    BY <1>3, <1>4, <1>5, <1>6, <1>7, <1>8, <1>9, <1>10, <2>1 DEF xxfi_eom, EomSection

LEMMA EnvrcptStep ==
    ASSUME TypeOK, IInv, LoopInv, xxfi_envrcpt
    PROVE  MP!Promise \/ UNCHANGED MP!vars
<1>1. /\ phase = "mail" /\ phase' = "mail" /\ mails' = mails
    BY DEF xxfi_envrcpt, RcptUnmatched, RcptKeyFound, RcptDiscarded, RcptRetrieved, RcptRefused,
           RcptThrows, RcptMatched, RcptRest
<1>2. /\ PolicyStage = "envelope" /\ PolicyStage' = "envelope" /\ PolicyServed' = PolicyServed
    BY <1>1 DEF PolicyStage, PolicyServed
<1>3. ASSUME NEW r \in Rcpt, NEW s \in Section, NEW presence \in {"key", "nokey"},
             Accept(r, s, presence)
      PROVE  MP!Promise
  <2>1. owed' \in {{p \in owed : p[1] # r}}
               \cup {{p \in owed : p[1] # r} \cup {<<r, t>>} : t \in Section}
    BY <1>3 DEF Accept
  <2> QED
    BY <1>2, <2>1 DEF MP!Promise
<1>4. ASSUME UNCHANGED owed
      PROVE  UNCHANGED MP!vars
    BY <1>2, <1>4 DEF MP!vars
<1> QED
    BY <1>3, <1>4 DEF xxfi_envrcpt, RcptUnmatched, RcptKeyFound, RcptDiscarded, RcptRetrieved,
                      RcptRefused, RcptThrows, Refuse

LEMMA PolicyStep ==
    ASSUME TypeOK, IInv, LoopInv, PolicyInv, [Next]_vars, ~DumpMayFail
    PROVE  [MP!Next]_(MP!vars)
<1>1. CASE xxfi_connect \/ NoContext \/ set_config \/ UNCHANGED vars
  <2>1. CASE UNCHANGED <<phase, reply, owed, mails>>
    BY <2>1 DEF MP!vars, PolicyStage, PolicyServed
  <2>2. CASE xxfi_connect \/ NoContext
    <3>1. phase \in {"closed", "noctx"} /\ phase' \in {"idle", "noctx"} /\ UNCHANGED <<owed, mails>>
      BY <2>2 DEF xxfi_connect, NoContext, histVars
    <3> QED
      BY <3>1 DEF MP!vars, PolicyStage, PolicyServed
  <2> QED
    BY <1>1, <2>1, <2>2 DEF set_config, vars, mtaVars, histVars
<1>2. CASE xxfi_close \/ xxfi_abort
  <2>1. phase' \in {"closed", "idle"} /\ owed' = {} /\ mails' = {}
    BY <1>2 DEF xxfi_close, xxfi_abort
  <2> QED
    BY <2>1 DEF MP!Next, MP!Abandon, PolicyStage, PolicyServed
<1>3. CASE xxfi_envfrom
  <2>1. phase \in {"idle", "done", "refused"} /\ phase' = "mail" /\ owed' = {} /\ mails' = {}
    BY <1>3 DEF xxfi_envfrom
  <2>2. PolicyStage \notin {"envelope", "content"}
    BY <2>1 DEF PolicyStage, TypeOK, MtaTypeOK
  <2>3. PolicyStage' = "envelope" /\ PolicyServed' = {}
    BY <2>1 DEF PolicyStage, PolicyServed
  <2> QED
    BY <2>1, <2>2, <2>3 DEF MP!Next, MP!Open
<1>4. CASE xxfi_envrcpt
    BY <1>4, EnvrcptStep DEF MP!Next
<1>5. CASE xxfi_data
  <2>1. /\ PolicyStage = "envelope" /\ mails = {} /\ UNCHANGED <<owed, mails>>
    BY <1>5 DEF xxfi_data, PolicyStage, LoopInv, NoCopyYet, histVars
  <2>2. PolicyServed = {} /\ PolicyServed' = PolicyServed
    BY <2>1 DEF PolicyServed
  <2>3. \A r \in Rcpt, s \in Section : <<r, s>> \in owed <=> r \in Keyed(s)
    BY <1>5 DEF xxfi_data, IInv, Promises, InTransaction
  <2>4. \A s \in Section : Keyed(s) # {} => InContexts(s)
    BY DEF IInv, SnapshotMatch, Keyed
  <2>5. CASE \A s \in Section : InContexts(s) => Keyed(s) = {}
    <3>1. owed = {}
      BY <2>3, <2>4, <2>5 DEF TypeOK
    <3>2. PolicyStage' = "reject"
      BY <1>5, <2>5 DEF xxfi_data, PolicyStage
    <3> QED
      BY <2>1, <2>2, <3>1, <3>2 DEF MP!Next, MP!Reject
  <2>6. CASE \E s \in Section : InContexts(s) /\ Keyed(s) # {}
    <3>1. owed # {}
      BY <2>3, <2>6 DEF Keyed
    <3>2. PolicyStage' = "content"
      BY <1>5, <2>6 DEF xxfi_data, PolicyStage
    <3> QED
      BY <2>1, <2>2, <3>1, <3>2 DEF MP!Next, MP!Content
  <2> QED
    BY <2>5, <2>6
<1>6. CASE xxfi_header \/ xxfi_eoh \/ xxfi_body
  <2>1. phase \in {"data", "eoh"} /\ phase' \in {"data", "eoh"} /\ UNCHANGED <<owed, mails>>
    BY <1>6 DEF xxfi_header, xxfi_eoh, xxfi_body, histVars
  <2> QED
    BY <2>1 DEF MP!vars, PolicyStage, PolicyServed
<1>7. CASE xxfi_eom
    BY <1>7, EomStep
<1> QED
    BY <1>1, <1>2, <1>3, <1>4, <1>5, <1>6, <1>7 DEF Next

\* Where dump_email cannot fail, the callbacks treat every mail as MailPolicy allows, whatever the
\* recipients, sections and configurations.
THEOREM PolicyImplemented == ~DumpMayFail => (Spec => ImplementsPolicy)
<1> SUFFICES ASSUME ~DumpMayFail PROVE Spec => MP!Spec
    BY DEF ImplementsPolicy
<1>1. Init => MP!Init
    BY DEF Init, MP!Init, PolicyStage, PolicyServed
<1>2. Spec => [](TypeOK /\ IInv)
    BY Invariance
<1>3. Spec => []PolicyInv
    BY CopiesInvariance
<1>4. TypeOK /\ IInv /\ LoopInv /\ PolicyInv /\ [Next]_vars => [MP!Next]_(MP!vars)
    BY PolicyStep
<1> QED
    BY <1>1, <1>2, <1>3, <1>4, LoopInvariance, PTL DEF Spec, MP!Spec

-----------------------------------------------------------------------------
(* What MailPolicy guarantees holds of the callbacks *)

\* Nobody is served before the content is there, and never everybody before the verdict.
PolicyIInv ==
    /\ MP!PolicyTypeOK
    /\ MP!Guarantee
    /\ PolicyStage \in {"none", "envelope"} => PolicyServed = {}
    /\ PolicyStage = "content" => PolicyServed # owed

LEMMA PolicyIInvStep ==
    ASSUME PolicyIInv, [MP!Next]_(MP!vars)
    PROVE  PolicyIInv'
<1> USE DEF PolicyIInv, MP!PolicyTypeOK, MP!Guarantee
<1>1. CASE MP!Open \/ MP!Abandon
    BY <1>1 DEF MP!Open, MP!Abandon
<1>2. CASE MP!Promise
  <2>1. PICK r \in Rcpt :
            owed' \in {{p \in owed : p[1] # r}}
                \cup {{p \in owed : p[1] # r} \cup {<<r, s>>} : s \in Section}
    BY <1>2 DEF MP!Promise
  <2>2. owed' \subseteq Rcpt \X Section /\ \A p, q \in owed' : p[1] = q[1] => p = q
    BY <2>1
  <2> QED
    BY <1>2, <2>2 DEF MP!Promise
<1>3. CASE MP!Content \/ MP!Reject \/ MP!Pass \/ MP!Defer
    BY <1>3 DEF MP!Content, MP!Reject, MP!Pass, MP!Defer
<1>4. ASSUME NEW s \in Section, MP!Serve(s)
      PROVE  PolicyIInv'
    BY <1>4 DEF MP!Serve, MP!Of
<1>5. CASE MP!Continue
    BY <1>5 DEF MP!Continue
<1>6. CASE UNCHANGED MP!vars
    BY <1>6 DEF MP!vars
<1> QED
    BY <1>1, <1>2, <1>3, <1>4, <1>5, <1>6 DEF MP!Next

LEMMA PolicyInvariance == ~DumpMayFail => (Spec => []PolicyIInv)
<1> SUFFICES ASSUME ~DumpMayFail PROVE Spec => []PolicyIInv
    OBVIOUS
<1>1. MP!Init => PolicyIInv
    BY DEF MP!Init, PolicyIInv, MP!PolicyTypeOK, MP!Guarantee
<1>2. PolicyIInv /\ [MP!Next]_(MP!vars) => PolicyIInv'
    BY PolicyIInvStep
<1>3. Spec => MP!Spec
    BY PolicyImplemented DEF ImplementsPolicy
<1> QED
    BY <1>1, <1>2, <1>3, PTL DEF MP!Spec

\* A recipient is promised to one section; a mail that continues has served everyone it was
\* promised to, a deferred one has not, and a refused or passed one has served nobody.
THEOREM GuaranteeKept == ~DumpMayFail => (Spec => []PolicyGuarantee)
<1> SUFFICES ASSUME ~DumpMayFail PROVE Spec => []PolicyGuarantee
    OBVIOUS
<1>1. PolicyIInv => PolicyGuarantee
    BY DEF PolicyIInv, PolicyGuarantee
<1> QED
    BY <1>1, PolicyInvariance, PTL

\* The pairs of a set of mails, none of which passed unchanged, are the pairs served.
LEMMA AllServedPairs ==
    ASSUME \A m \in mails : m.via # "unchanged"
    PROVE  PolicyServed = UNION {m.rcpts \X {m.section} : m \in mails}
BY DEF PolicyServed

LEMMA DoneServed ==
    ASSUME PolicyIInv, phase = "done", \A m \in mails : m.via # "unchanged"
    PROVE  owed = UNION {m.rcpts \X {m.section} : m \in mails}
<1>1. PolicyStage = "continue"
    BY DEF PolicyStage
<1> QED
    BY <1>1, AllServedPairs DEF PolicyIInv, MP!Guarantee

\* Every recipient of a mail that continues unsigned gets exactly one copy, of its own section.
THEOREM OneCopy == ~DumpMayFail => (Spec => []OneCopyEach)
<1> SUFFICES ASSUME ~DumpMayFail PROVE Spec => []OneCopyEach
    OBVIOUS
<1>1. Spec => []PolicyInv
    BY CopiesInvariance
<1>2. PolicyIInv /\ PolicyInv => OneCopyEach
  <2> SUFFICES ASSUME PolicyIInv, PolicyInv, phase = "done", \A m \in mails : m.via # "unchanged"
               PROVE  /\ owed = UNION {m.rcpts \X {m.section} : m \in mails}
                      /\ \A m, n \in mails : m # n => m.rcpts \cap n.rcpts = {}
    BY DEF OneCopyEach
  <2>1. owed = UNION {m.rcpts \X {m.section} : m \in mails}
    BY DoneServed
  <2>2. ASSUME NEW m \in mails, NEW n \in mails, NEW r \in m.rcpts, r \in n.rcpts
        PROVE  m = n
    <3>1. <<r, m.section>> \in owed /\ <<r, n.section>> \in owed
      BY <2>1, <2>2
    <3>2. m.section = n.section
      BY <3>1 DEF PolicyIInv, MP!Guarantee
    <3> QED
      BY <3>2 DEF PolicyInv, OnePerSection
  <2> QED
    BY <2>1, <2>2
<1> QED
    BY <1>1, <1>2, PolicyInvariance, PTL
=============================================================================
