-------------------------- MODULE MilterConnection --------------------------
(***************************************************************************)
(* One libmilter connection of gwmilter: the xxfi_* callbacks, the         *)
(* milter_connection they dispatch to and the milter_message that lives    *)
(* for one SMTP transaction, with the end-of-message work that encrypts    *)
(* the mail once per configuration section and re-injects the extra        *)
(* copies over SMTP.                                                       *)
(*                                                                         *)
(* The MTA, libmilter, the crypto library and libcurl are external: the    *)
(* MTA chooses the order of the callbacks, and what a library call answers *)
(* is chosen nondeterministically wherever the code looks at the answer.   *)
(*                                                                         *)
(* A text (the body, a handler's buffer, a re-injected copy) is abstracted *)
(* to the set of transactions whose body chunks it holds.                  *)
(***************************************************************************)
EXTENDS Integers, Sequences

CONSTANTS
    Rcpt,           \* the recipients the MTA may name
    Section,        \* the names of encryption sections
    NoSection,      \* find_match's nullptr
    Config,         \* the configurations that a (re)load may publish
    NoConfig,       \* the configuration of a message that does not exist
    Settings,       \* Settings[c] is the content of configuration c
    MaxTxn,         \* bound: transactions per behaviour
    DumpMayFail     \* can create_directories("dump") fail in this deployment?

Protocol == {"pgp", "smime", "pdf", "none"}
Policy == {"discard", "retrieve", "reject", "nullopt"}

ConfigType ==
    [sections : Seq(Section),
     matches : [Section -> SUBSET Rcpt],
     protocol : [Section -> Protocol],
     policy : [Section -> Policy],
     dump_email_on_panic : BOOLEAN]

ASSUME NoSectionAssumption == NoSection \notin Section
ASSUME NoConfigAssumption == NoConfig \notin Config
ASSUME SettingsAssumption == Settings \in [Config -> ConfigType]
ASSUME MaxTxnAssumption == MaxTxn \in Nat
ASSUME DumpAssumption == DumpMayFail \in BOOLEAN
\* What Config::validate and the sections' validate leave possible.
ASSUME PolicyAssumption ==
    \A c \in Config, s \in Section :
        /\ Settings[c].protocol[s] \in {"pgp", "smime"} <=> Settings[c].policy[s] # "nullopt"
        /\ Settings[c].policy[s] = "retrieve" => Settings[c].protocol[s] = "pgp"

Txn == 1 .. MaxTxn

\* signature_header_: empty, a value that verifies for no body, or (t) a value
\* that verifies for the body of transaction t.
NoSig == 0
BadSig == -1
Signature == {NoSig, BadSig} \cup Txn

VARIABLES
    \* the process
    g_config,               \* the published configuration
    priv,                   \* does the context hold a milter_connection?
    msg,                    \* milter_connection::msg_ is not null
    \* milter_message
    config_,                \* the configuration captured by the constructor
    contexts_,              \* section names, in the order of get_context
    recipients,             \* email_context::recipients, per section
    good_recipients,        \* email_context::good_recipients, per section
    written,                \* what the section's body handler has been given
    recipients_all_,
    signature_header_,
    body_,
    \* locals of on_eom
    pos,                    \* position of the loop over contexts_
    replaced_by,            \* the section behind milter_body_replaced
    work_items,             \* sections with a work item
    running,                \* work items whose transfer has not ended
    failed,                 \* work items that ended in an error
    \* the MTA's side of the connection
    phase,                  \* where the SMTP transaction stands
    txn,                    \* number of the transaction
    accepted,               \* recipients of this transaction it accepted
    deleted,                \* recipients removed with smfi_delrcpt
    reply,                  \* the last callback's answer
    \* history
    owed,                   \* <<r, s>>: r was accepted with a key of section s
    mails                   \* copies that left in this transaction

msgVars == <<config_, contexts_, recipients, good_recipients, written,
             recipients_all_, signature_header_, body_>>
eomVars == <<pos, replaced_by, work_items, running, failed>>
mtaVars == <<phase, txn, accepted, deleted, reply>>
histVars == <<owed, mails>>
vars == <<g_config, priv, msg, msgVars, eomVars, mtaVars, histVars>>

Presence == {"absent", "nokey", "key"}
Mail == [via : {"milter", "smtp", "unchanged"}, section : Section \cup {NoSection},
         rcpts : SUBSET Rcpt, body : SUBSET Txn]

InEom == phase \in {"sections", "sending"}

MessageTypeOK ==
    /\ contexts_ \in Seq(Section)
    /\ recipients \in [Section -> [Rcpt -> Presence]]
    /\ good_recipients \in [Section -> SUBSET Rcpt]
    /\ written \in [Section -> SUBSET Txn]
    /\ recipients_all_ \subseteq Rcpt
    /\ signature_header_ \in Signature
    /\ body_ \subseteq Txn

EomTypeOK ==
    /\ pos \in Nat
    /\ replaced_by \in Section \cup {NoSection}
    /\ work_items \subseteq Section
    /\ running \subseteq work_items
    /\ failed \subseteq work_items

MtaTypeOK ==
    /\ phase \in {"closed", "noctx", "idle", "mail", "data", "eoh",
                  "sections", "sending", "done", "refused"}
    /\ txn \in 0 .. MaxTxn
    /\ phase \notin {"closed", "noctx", "idle"} => txn \in Txn
    /\ accepted \subseteq Rcpt
    /\ deleted \subseteq Rcpt
    /\ reply \in {"none", "continue", "reject", "tempfail"}

TypeOK ==
    /\ g_config \in Config
    /\ priv \in BOOLEAN
    /\ msg \in BOOLEAN
    /\ config_ \in Config \cup {NoConfig}
    /\ msg => config_ \in Config
    /\ MessageTypeOK
    /\ EomTypeOK
    /\ MtaTypeOK
    /\ owed \subseteq Rcpt \X Section
    /\ mails \subseteq Mail

-----------------------------------------------------------------------------
(* Configuration lookups *)

\* Config::find_match: the first section in file order that matches.
Hits(c, r) == {k \in DOMAIN Settings[c].sections :
                  r \in Settings[c].matches[Settings[c].sections[k]]}
find_match(c, r) ==
    IF Hits(c, r) = {} THEN NoSection
    ELSE Settings[c].sections[CHOOSE k \in Hits(c, r) : \A j \in Hits(c, r) : k <= j]

\* has_public_key: the keyring decides for PGP and S/MIME, PDF and NONE say yes.
has_public_key(s) ==
    IF Settings[config_].protocol[s] \in {"pgp", "smime"} THEN BOOLEAN ELSE {TRUE}

\* get_context: the contexts after the section's context was looked up or made.
get_context(s) ==
    IF \E k \in DOMAIN contexts_ : contexts_[k] = s THEN contexts_ ELSE Append(contexts_, s)

-----------------------------------------------------------------------------
(* Construction and destruction of milter_message *)

NoRecipients == [s \in Section |-> [r \in Rcpt |-> "absent"]]
Nothing == [s \in Section |-> {}]

FreshFields ==
    /\ contexts_' = <<>>
    /\ recipients' = NoRecipients
    /\ good_recipients' = Nothing
    /\ written' = Nothing
    /\ recipients_all_' = {}
    /\ signature_header_' = NoSig
    /\ body_' = {}

\* msg_.reset()
ResetMessage ==
    /\ msg' = FALSE
    /\ config_' = NoConfig
    /\ FreshFields

\* get_message(): a null msg_ is replaced by a message on the published configuration.
GetMessage ==
    IF msg THEN UNCHANGED <<msg, msgVars>>
    ELSE /\ msg' = TRUE
         /\ config_' = g_config
         /\ FreshFields

NoEom ==
    /\ pos' = 0
    /\ replaced_by' = NoSection
    /\ work_items' = {}
    /\ running' = {}
    /\ failed' = {}

Init ==
    /\ g_config \in Config
    /\ priv = FALSE
    /\ msg = FALSE
    /\ config_ = NoConfig
    /\ contexts_ = <<>>
    /\ recipients = NoRecipients
    /\ good_recipients = Nothing
    /\ written = Nothing
    /\ recipients_all_ = {}
    /\ signature_header_ = NoSig
    /\ body_ = {}
    /\ pos = 0
    /\ replaced_by = NoSection
    /\ work_items = {}
    /\ running = {}
    /\ failed = {}
    /\ phase = "closed"
    /\ txn = 0
    /\ accepted = {}
    /\ deleted = {}
    /\ reply = "none"
    /\ owed = {}
    /\ mails = {}

-----------------------------------------------------------------------------
(* Connection callbacks *)

\* xxfi_connect. When it throws before smfi_setpriv the context stays empty.
xxfi_connect ==
    /\ phase = "closed"
    /\ \/ priv' = TRUE /\ phase' = "idle" /\ reply' = "continue"
       \/ priv' = FALSE /\ phase' = "noctx" /\ reply' = "tempfail"
    /\ UNCHANGED <<g_config, msg, msgVars, eomVars, txn, accepted, deleted, histVars>>

\* Every message callback on a context without a connection.
NoContext ==
    /\ phase = "noctx"
    /\ reply' = "tempfail"
    /\ UNCHANGED <<g_config, priv, msg, msgVars, eomVars, phase, txn, accepted, deleted, histVars>>

\* xxfi_close, between two callbacks: on_close resets the message, the connection is deleted.
xxfi_close ==
    /\ phase # "closed"
    /\ ~InEom
    /\ IF priv THEN ResetMessage ELSE UNCHANGED <<msg, msgVars>>
    /\ priv' = FALSE
    /\ phase' = "closed"
    /\ reply' = "continue"
    /\ accepted' = {} /\ deleted' = {} /\ owed' = {} /\ mails' = {}
    /\ UNCHANGED <<g_config, eomVars, txn>>

\* xxfi_abort: libmilter calls it for a transaction that ends outside the
\* filter's control, and may or may not after the filter refused it.
xxfi_abort ==
    /\ phase \in {"mail", "data", "eoh", "refused"}
    /\ ResetMessage
    /\ phase' = "idle"
    /\ reply' = "continue"
    /\ accepted' = {} /\ deleted' = {} /\ owed' = {} /\ mails' = {}
    /\ UNCHANGED <<g_config, priv, eomVars, txn>>

\* The signal thread publishes another configuration (callbacks::set_config).
set_config ==
    \E c \in Config :
        /\ c # g_config
        /\ g_config' = c
        /\ UNCHANGED <<priv, msg, msgVars, eomVars, mtaVars, histVars>>

-----------------------------------------------------------------------------
(* Envelope callbacks *)

xxfi_envfrom ==
    /\ phase \in {"idle", "done", "refused"}
    /\ txn < MaxTxn
    /\ GetMessage
    /\ phase' = "mail"
    /\ txn' = txn + 1
    /\ reply' = "continue"
    /\ accepted' = {} /\ deleted' = {} /\ owed' = {} /\ mails' = {}
    /\ UNCHANGED <<g_config, priv, eomVars>>

Accept(r, s, presence) ==
    /\ recipients' = [recipients EXCEPT ![s][r] = presence]
    /\ recipients_all_' = recipients_all_ \cup {r}
    /\ accepted' = accepted \cup {r}
    /\ owed' = {p \in owed : p[1] # r} \cup (IF presence = "key" THEN {<<r, s>>} ELSE {})
    /\ reply' = "continue"

Refuse(answer) ==
    /\ reply' = answer
    /\ UNCHANGED <<recipients, recipients_all_, accepted, owed>>

RcptRest == <<g_config, priv, msg, config_, good_recipients, written, signature_header_,
              body_, eomVars, phase, txn, deleted, mails>>

\* Mutant of SectionFor: get_config() at every callback instead of the captured configuration.
SectionForPublished(r) == find_match(g_config, r)

SectionFor(r) == find_match(config_, r)

\* on_envrcpt, no section: 550
RcptUnmatched(r) ==
    /\ phase = "mail"
    /\ SectionFor(r) = NoSection
    /\ Refuse("reject")
    /\ UNCHANGED <<contexts_, RcptRest>>

\* The context exists from here on, whatever becomes of the recipient.
RcptMatched(r, s) ==
    /\ phase = "mail"
    /\ s = SectionFor(r)
    /\ contexts_' = get_context(s)
    /\ UNCHANGED RcptRest

RcptKeyFound(r, s) ==
    /\ RcptMatched(r, s)
    /\ TRUE \in has_public_key(s)
    /\ Accept(r, s, "key")

RcptDiscarded(r, s) ==
    /\ RcptMatched(r, s)
    /\ FALSE \in has_public_key(s)
    /\ Settings[config_].policy[s] = "discard"
    /\ Accept(r, s, "nokey")

\* The key server may or may not have the key; either way the recipient is accepted.
RcptRetrieved(r, s) ==
    /\ RcptMatched(r, s)
    /\ FALSE \in has_public_key(s)
    /\ Settings[config_].policy[s] = "retrieve"
    /\ \E imported \in BOOLEAN : Accept(r, s, IF imported THEN "key" ELSE "nokey")

\* 550 under the reject policy, 451 without a policy
RcptRefused(r, s) ==
    /\ RcptMatched(r, s)
    /\ FALSE \in has_public_key(s)
    /\ Settings[config_].policy[s] \in {"reject", "nullopt"}
    /\ Refuse(IF Settings[config_].policy[s] = "reject" THEN "reject" ELSE "tempfail")

\* The crypto library throws; xxfi_envrcpt answers.
RcptThrows(r, s) ==
    /\ RcptMatched(r, s)
    /\ Settings[config_].protocol[s] \in {"pgp", "smime"}
    /\ Refuse("tempfail")

xxfi_envrcpt ==
    \E r \in Rcpt :
        \/ RcptUnmatched(r)
        \/ \E s \in Section :
              \/ RcptKeyFound(r, s)
              \/ RcptDiscarded(r, s)
              \/ RcptRetrieved(r, s)
              \/ RcptRefused(r, s)
              \/ RcptThrows(r, s)

-----------------------------------------------------------------------------
(* Message callbacks *)

Keyed(s) == {r \in Rcpt : recipients[s][r] = "key"}
InContexts(s) == \E k \in DOMAIN contexts_ : contexts_[k] = s

\* Mutant of xxfi_data: recipients are counted, not keys.
xxfi_dataNoCount ==
    /\ phase = "mail"
    /\ accepted # {}
    /\ good_recipients' = [s \in Section |->
            IF InContexts(s) THEN good_recipients[s] \cup Keyed(s) ELSE good_recipients[s]]
    /\ phase' = "data" /\ reply' = "continue"
    /\ UNCHANGED <<g_config, priv, msg, config_, contexts_, recipients, written, recipients_all_,
                   signature_header_, body_, eomVars, txn, accepted, deleted, histVars>>

\* The MTA sends DATA once it has accepted a recipient. A refusal leaves the message in place.
xxfi_data ==
    /\ phase = "mail"
    /\ accepted # {}
    /\ good_recipients' = [s \in Section |->
            IF InContexts(s) THEN good_recipients[s] \cup Keyed(s) ELSE good_recipients[s]]
    /\ IF \A s \in Section : InContexts(s) => Keyed(s) = {}
       THEN phase' = "refused" /\ reply' = "reject"
       ELSE phase' = "data" /\ reply' = "continue"
    /\ UNCHANGED <<g_config, priv, msg, config_, contexts_, recipients, written, recipients_all_,
                   signature_header_, body_, eomVars, txn, accepted, deleted, histVars>>

\* Only X-GWMilter-Signature changes what is modelled here; a later one replaces an earlier one.
xxfi_header ==
    /\ phase = "data"
    /\ signature_header_' \in {NoSig, BadSig, txn}
    /\ reply' = "continue"
    /\ UNCHANGED <<g_config, priv, msg, config_, contexts_, recipients, good_recipients, written,
                   recipients_all_, body_, eomVars, phase, txn, accepted, deleted, histVars>>

xxfi_eoh ==
    /\ phase = "data"
    /\ phase' = "eoh"
    /\ reply' = "continue"
    /\ UNCHANGED <<g_config, priv, msg, msgVars, eomVars, txn, accepted, deleted, histVars>>

xxfi_body ==
    /\ phase = "eoh"
    /\ body_' = body_ \cup {txn}
    /\ reply' = "continue"
    /\ UNCHANGED <<g_config, priv, msg, config_, contexts_, recipients, good_recipients, written,
                   recipients_all_, signature_header_, eomVars, phase, txn, accepted, deleted,
                   histVars>>

-----------------------------------------------------------------------------
(* xxfi_eom *)

\* milter_message::on_eom returns: milter_connection::on_eom drops the message.
EomReturn(answer) ==
    /\ reply' = answer
    /\ phase' = IF answer = "continue" THEN "done" ELSE "refused"
    /\ deleted' = {}
    /\ ResetMessage
    /\ NoEom
    /\ UNCHANGED <<g_config, priv, txn, accepted, owed>>

\* An exception leaves milter_message::on_eom: msg_.reset() is not reached.
EomEscape ==
    /\ reply' = "tempfail"
    /\ phase' = "refused"
    /\ deleted' = {}
    /\ NoEom
    /\ UNCHANGED <<g_config, priv, msg, config_, contexts_, recipients, good_recipients,
                   recipients_all_, signature_header_, body_, txn, accepted, histVars>>

DumpThrows == DumpMayFail /\ Settings[config_].dump_email_on_panic

\* The dump_email constructed before the first try block.
EomDumpThrows ==
    /\ phase = "eoh"
    /\ DumpThrows
    /\ EomEscape
    /\ UNCHANGED written

verify_signature ==
    IF signature_header_ \in Txn /\ body_ \subseteq {signature_header_} THEN BOOLEAN ELSE {FALSE}

\* A verified mail passes as the MTA has it.
EomSignatureVerifies ==
    /\ phase = "eoh"
    /\ signature_header_ # NoSig
    /\ TRUE \in verify_signature
    /\ EomReturn("continue")
    /\ mails' = {[via |-> "unchanged", section |-> NoSection, rcpts |-> accepted, body |-> {txn}]}

EomSignatureRefused ==
    /\ phase = "eoh"
    /\ signature_header_ # NoSig
    /\ FALSE \in verify_signature
    /\ EomReturn("reject")
    /\ UNCHANGED mails

EomUnsigned ==
    /\ phase = "eoh"
    /\ signature_header_ = NoSig
    /\ phase' = "sections"
    /\ pos' = 1
    /\ UNCHANGED <<g_config, priv, msg, msgVars, replaced_by, work_items, running, failed, txn,
                   accepted, deleted, reply, histVars>>

LoopEnded == pos > Len(contexts_)
HasGood(s) == good_recipients[s] # {}

\* The head of the loop: the section at pos, with or without good recipients.
AtSection(s) == phase = "sections" /\ ~LoopEnded /\ s = contexts_[pos]

\* Mutant of EomSkipSection: a section without good recipients is not left.
EomSkipSectionStays(s) ==
    /\ AtSection(s)
    /\ ~HasGood(s)
    /\ pos' = pos
    /\ UNCHANGED <<g_config, priv, msg, msgVars, replaced_by, work_items, running, failed, mtaVars,
                   histVars>>

EomSkipSection(s) ==
    /\ AtSection(s)
    /\ ~HasGood(s)
    /\ pos' = pos + 1
    /\ UNCHANGED <<g_config, priv, msg, msgVars, replaced_by, work_items, running, failed, mtaVars,
                   histVars>>

\* write() and encrypt(): the handler holds everything it was ever given.
Written(s) == [written EXCEPT ![s] = @ \cup body_]

\* Mutant of update_milter_recipients: smfi_delrcpt is not called.
update_milter_recipientsNone(s) == deleted' = deleted

\* update_milter_recipients
update_milter_recipients(s) == deleted' = deleted \cup (recipients_all_ \ good_recipients[s])

\* The first section with good recipients alters the mail the MTA holds.
EomReplaceBody(s) ==
    /\ AtSection(s)
    /\ HasGood(s)
    /\ replaced_by = NoSection
    /\ replaced_by' = s
    /\ written' = Written(s)
    /\ update_milter_recipients(s)
    /\ pos' = pos + 1
    /\ UNCHANGED <<g_config, priv, msg, config_, contexts_, recipients, good_recipients,
                   recipients_all_, signature_header_, body_, work_items, running, failed, phase,
                   txn, accepted, reply, histVars>>

\* smfi_replacebody answers MI_FAILURE.
EomReplaceBodyFails(s) ==
    /\ AtSection(s)
    /\ HasGood(s)
    /\ replaced_by = NoSection
    /\ EomReturn("tempfail")
    /\ UNCHANGED mails

Copy(s) == [via |-> "smtp", section |-> s, rcpts |-> good_recipients[s], body |-> written[s]]

\* Every later section becomes a signed copy to re-inject.
EomWorkItem(s) ==
    /\ AtSection(s)
    /\ HasGood(s)
    /\ replaced_by # NoSection
    /\ work_items' = work_items \cup {s}
    /\ written' = Written(s)
    /\ pos' = pos + 1
    /\ UNCHANGED <<g_config, priv, msg, config_, contexts_, recipients, good_recipients,
                   recipients_all_, signature_header_, body_, replaced_by, running, failed,
                   mtaVars, histVars>>

\* Encryption, header replacement, signing or curl_multi_add_handle throws.
CanThrow ==
    /\ phase = "sections"
    /\ IF LoopEnded THEN work_items # {} ELSE HasGood(contexts_[pos])

EomCatch ==
    /\ CanThrow
    /\ EomReturn("tempfail")
    /\ UNCHANGED mails

\* ... and so does the dump_email of the catch block.
EomCatchThrows ==
    /\ CanThrow
    /\ DumpThrows
    /\ EomEscape
    /\ \/ UNCHANGED written
       \/ ~LoopEnded /\ written' = Written(contexts_[pos])

\* What the MTA sends on when the filter lets the message continue.
MilterCopy ==
    IF accepted \ deleted = {} THEN {}
    ELSE {[via |-> "milter", section |-> replaced_by, rcpts |-> accepted \ deleted,
           body |-> IF replaced_by = NoSection THEN {txn} ELSE written[replaced_by]]}

EomNothingToSend ==
    /\ phase = "sections"
    /\ LoopEnded
    /\ work_items = {}
    /\ EomReturn("continue")
    /\ mails' = mails \cup MilterCopy

EomSend ==
    /\ phase = "sections"
    /\ LoopEnded
    /\ work_items # {}
    /\ phase' = "sending"
    /\ running' = work_items
    /\ UNCHANGED <<g_config, priv, msg, msgVars, pos, replaced_by, work_items, failed, txn,
                   accepted, deleted, reply, histVars>>

\* client_multi::perform: a transfer ends. One that fails may have been delivered
\* all the same, when the answer to its last command is what got lost.
TransferEnds(s) ==
    /\ phase = "sending"
    /\ s \in running
    /\ running' = running \ {s}
    /\ \/ failed' = failed /\ mails' = mails \cup {Copy(s)}
       \/ failed' = failed \cup {s} /\ mails' = mails \cup {Copy(s)}
       \/ failed' = failed \cup {s} /\ mails' = mails
    /\ UNCHANGED <<g_config, priv, msg, msgVars, pos, replaced_by, work_items, mtaVars, owed>>

\* perform() throws with transfers under way.
PerformThrows ==
    /\ phase = "sending"
    /\ running # {}
    /\ EomReturn("tempfail")
    /\ UNCHANGED mails

\* Mutant of PerformReturns: the status of the transfers is not looked at.
PerformReturnsNoStatus ==
    /\ phase = "sending"
    /\ running = {}
    /\ EomReturn("continue")
    /\ mails' = mails \cup MilterCopy

PerformReturns ==
    /\ phase = "sending"
    /\ running = {}
    /\ IF failed = {}
       THEN EomReturn("continue") /\ mails' = mails \cup MilterCopy
       ELSE EomReturn("tempfail") /\ UNCHANGED mails

EomSection(s) ==
    EomSkipSection(s) \/ EomReplaceBody(s) \/ EomReplaceBodyFails(s) \/ EomWorkItem(s)

xxfi_eom ==
    \/ EomDumpThrows
    \/ EomSignatureVerifies
    \/ EomSignatureRefused
    \/ EomUnsigned
    \/ \E s \in Section : EomSection(s)
    \/ EomCatch
    \/ EomCatchThrows
    \/ EomNothingToSend
    \/ EomSend
    \/ \E s \in Section : TransferEnds(s)
    \/ PerformThrows
    \/ PerformReturns

-----------------------------------------------------------------------------
Next ==
    \/ xxfi_connect \/ NoContext \/ xxfi_close \/ xxfi_abort \/ set_config
    \/ xxfi_envfrom \/ xxfi_envrcpt \/ xxfi_data \/ xxfi_header \/ xxfi_eoh \/ xxfi_body
    \/ xxfi_eom

Spec == Init /\ [][Next]_vars

\* The libmilter thread runs the handler it is in. Transfers end: the SMTP timeout
\* (CURLOPT_TIMEOUT) is configured.
Fairness == WF_vars(InEom /\ xxfi_eom)

FairSpec == Spec /\ Fairness

-----------------------------------------------------------------------------
(* Properties *)

\* on_eom, update_milter_recipients, set_recipients: a copy that leaves holds the body of this
\* transaction alone, and goes only to recipients this transaction named and, when it was
\* encrypted, to those accepted with a key of the very section that encrypted it.
OwnCopiesOnly ==
    \A m \in mails :
        /\ m.body \subseteq {txn}
        /\ m.rcpts \subseteq accepted
        /\ m.via # "unchanged" => \A r \in m.rcpts : <<r, m.section>> \in owed

\* on_data .. on_eom: when the filter lets an unsigned message continue, every recipient
\* accepted with a key gets exactly one copy, of its own section, and a discarded one gets none.
OneCopyEach ==
    (phase = "done" /\ \A m \in mails : m.via # "unchanged") =>
        /\ owed = UNION {m.rcpts \X {m.section} : m \in mails}
        /\ \A m1, m2 \in mails : m1 # m2 => m1.rcpts \cap m2.rcpts = {}

\* on_data, on_eom: whatever happened to earlier transactions of the connection, a mail that
\* continues unsigned leaves out no recipient that was accepted with a key.
NoneLost ==
    (phase = "done" /\ \A m \in mails : m.via # "unchanged") =>
        owed \subseteq UNION {m.rcpts \X {m.section} : m \in mails}

\* README on several matching sections: what leaves is a copy of the original email, so it
\* holds no text of another transaction.
CopyOfOriginal == \A m \in mails : m.body \subseteq {txn}

\* on_data's rcpt_count and on_eom's milter_body_replaced: text that no section encrypted
\* leaves only as a mail whose signature verified, never next to encrypted copies.
ClearOnlyIfSigned ==
    \A m \in mails : m.section = NoSection => m.via = "unchanged" /\ mails = {m}

\* on_eom: no copy is re-injected before every section with good recipients was encrypted, so
\* an encryption failure never leaves part of the recipients served.
EncryptBeforeSend ==
    (InEom /\ \E m \in mails : m.via = "smtp") =>
        \A s \in Section : HasGood(s) => s = replaced_by \/ s \in work_items

\* find_match on the captured configuration: whatever is published meanwhile, a recipient is
\* held under the first section that matches it in the message's own configuration.
SnapshotMatch ==
    \A s \in Section, r \in Rcpt :
        recipients[s][r] # "absent" => InContexts(s) /\ s = find_match(config_, r)

\* milter_connection::get_message: a message that outlives its transaction (DATA refused, no
\* abort) brings nothing into the next one that could put a recipient or text in a mail.
StaleMessageEmpty ==
    (msg /\ phase \in {"idle", "done", "refused"}) =>
        /\ body_ = {} /\ signature_header_ = NoSig
        /\ \A s \in Section : ~HasGood(s) /\ Keyed(s) = {}

\* config.ini on key_not_found_policy: under retrieve, a recipient whose key was not found is
\* not accepted.
RetrieveRejects ==
    phase = "mail" =>
        \A r \in accepted :
            LET s == find_match(config_, r) IN
            s \in Section /\ Settings[config_].policy[s] = "retrieve" => <<r, s>> \in owed

\* on_eom: the end-of-message callback is eventually answered.
EomAnswered == InEom ~> ~InEom

=============================================================================
