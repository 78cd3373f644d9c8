------------------------------ MODULE Gateway ------------------------------
(***************************************************************************)
(* The gateway as a whole: senders that hand mails to the MTA and retry,   *)
(* the MTA with a limited number of SMTP server processes, the milter that *)
(* the MTA asks about every mail, and the copies the milter re-injects     *)
(* into the same MTA while the mail they were made from waits, copies that *)
(* pass the milter again.                                                  *)
(*                                                                         *)
(* What one connection does in detail is the subject of MilterConnection;  *)
(* here its envelope is one step, taken against the configuration that is  *)
(* published at that moment, and its end of message is the steps between   *)
(* which other connections, timeouts, a reload or a crash can come. Header *)
(* and body of a mail are reduced to the sections that encrypted it, in    *)
(* their order: the empty sequence is clear text.                          *)
(***************************************************************************)
EXTENDS Integers, Sequences, FiniteSets

CONSTANTS
    Mail,           \* the mails the senders have
    Rcpt,           \* their recipients
    Section,        \* the names of encryption sections
    NoSection,      \* find_match's nullptr
    Config,         \* the configurations a (re)load may publish
    Settings,       \* Settings[c] is what configuration c says
    Wanted,         \* Wanted[m] are the recipients of mail m
    Timeout,        \* is smtp_server_timeout other than -1?
    MaxSlots,       \* the MTA's limit of SMTP server processes
    MaxAttempts,    \* bound: attempts per mail
    MaxCrashes,     \* bound: crashes of the milter process
    MaxReloads      \* bound: configurations published after the start

Policy == {"discard", "retrieve", "reject", "nullopt"}

ConfigType == [section : [Rcpt -> Section \cup {NoSection}], policy : [Section -> Policy]]

ASSUME NoSectionAssumption == NoSection \notin Section
ASSUME SettingsAssumption == Settings \in [Config -> ConfigType]
ASSUME WantedAssumption == Wanted \in [Mail -> SUBSET Rcpt]
ASSUME TimeoutAssumption == Timeout \in BOOLEAN
ASSUME BoundsAssumption ==
    /\ MaxSlots \in Nat /\ MaxAttempts \in Nat
    /\ MaxCrashes \in Nat /\ MaxReloads \in Nat

\* A transaction with the MTA: an attempt at a mail (the path is empty), or the copy that was
\* made from it for a section (the path is that section).
Id == [mail : Mail, attempt : 1 .. MaxAttempts, path : Seq(Section)]

Reply == {"none", "ok", "reject", "tempfail"}

Transaction ==
    [config : Config,                   \* milter_message::config_
     rcpts : SUBSET Rcpt,               \* the recipients the client names
     accepted : SUBSET Rcpt,            \* those the milter accepted
     owed : SUBSET (Rcpt \X Section),   \* those it has a key for, and their sections
     text : Seq(Section),               \* the mail as the MTA holds it
     conn : {"connecting", "open", "closed"},
     milter : {"idle", "eom", "sending"},
     reply : Reply,                     \* the MTA's answer
     seen : {"none", "ok", "fail"}]     \* what libcurl made of a copy

VARIABLES
    g_config,       \* the published configuration
    wanted,         \* the recipients a sender still has to serve
    session,        \* the transactions so far
    delivered,      \* the mails the MTA took responsibility for
    crashes,
    reloads

vars == <<g_config, wanted, session, delivered, crashes, reloads>>

TypeOK ==
    /\ g_config \in Config
    /\ wanted \in [Mail -> SUBSET Rcpt]
    /\ DOMAIN session \subseteq Id
    /\ \A x \in DOMAIN session : session[x] \in Transaction
    /\ delivered \subseteq [id : DOMAIN session, rcpts : SUBSET Rcpt, text : Seq(Section)]
    /\ crashes \in 0 .. MaxCrashes
    /\ reloads \in 0 .. MaxReloads

-----------------------------------------------------------------------------
AttemptId(m, n) == [mail |-> m, attempt |-> n, path |-> <<>>]
Original(x) == x.path = <<>>
Attempt(x) == [x EXCEPT !.path = <<>>]
CopyId(x, s) == [x EXCEPT !.path = Append(@, s)]
CopiesOf(x) == {y \in DOMAIN session : \E s \in Section : y = CopyId(x, s)}

Fresh(rcpts, text) ==
    [config |-> g_config, rcpts |-> rcpts, accepted |-> {}, owed |-> {}, text |-> text,
     conn |-> "connecting", milter |-> "idle", reply |-> "none", seen |-> "none"]

\* X-GWMilter-Signature is added to the copies only.
\* Mutant of Signed: the signature header is not looked at.
SignedNever(x) == FALSE

Signed(x) == ~Original(x)

Init ==
    /\ g_config \in Config
    /\ wanted = Wanted
    /\ session = <<>>
    /\ delivered = {}
    /\ crashes = 0
    /\ reloads = 0

-----------------------------------------------------------------------------
(* The sender *)

\* A mail with recipients left is tried again once the last attempt was answered.
Submit(m) ==
    LET earlier == {x \in DOMAIN session : x.mail = m /\ Original(x)}
        n == Cardinality(earlier) + 1 IN
    /\ wanted[m] # {}
    /\ n <= MaxAttempts
    /\ \A x \in earlier : session[x].conn = "closed"
    /\ session' = [x \in DOMAIN session \cup {AttemptId(m, n)} |->
           IF x = AttemptId(m, n) THEN Fresh(wanted[m], <<>>) ELSE session[x]]
    /\ UNCHANGED <<g_config, wanted, delivered, crashes, reloads>>

-----------------------------------------------------------------------------
(* MAIL, RCPT and DATA *)

\* on_envrcpt's answers to a recipient; the keyring and the key server decide between them.
Answers(c, r) ==
    LET s == Settings[c].section[r] IN
    IF s = NoSection THEN {"reject"}
    ELSE CASE Settings[c].policy[s] \in {"discard", "retrieve"} -> {"key", "nokey", "tempfail"}
           [] Settings[c].policy[s] = "reject" -> {"key", "reject", "tempfail"}
           [] Settings[c].policy[s] = "nullopt" -> {"key"}

\* A copy's client, libcurl, gives up unless every recipient is accepted.
Proceeds(x, accepted) == IF Original(x) THEN accepted # {} ELSE accepted = session[x].rcpts

\* The sender forgets the recipients it was given a final answer for.
Forget(x, rcpts) ==
    wanted' = IF Original(x) THEN [wanted EXCEPT ![x.mail] = @ \ rcpts] ELSE wanted

\* A server process takes the transaction up to its end of message, unless the milter refuses
\* every recipient, or DATA because it has a key for none.
Envelope(x) ==
    /\ session[x].conn = "connecting"
    /\ Cardinality({y \in DOMAIN session : session[y].conn = "open"}) < MaxSlots
    /\ \E answer \in [session[x].rcpts -> {"key", "nokey", "reject", "tempfail"}] :
          LET Given(kinds) == {r \in session[x].rcpts : answer[r] \in kinds}
              accepted == Given({"key", "nokey"})
              owed == {<<r, Settings[g_config].section[r]>> : r \in Given({"key"})}
              asked == [session[x] EXCEPT !.config = g_config, !.accepted = accepted, !.owed = owed]
          IN
          /\ \A r \in session[x].rcpts : answer[r] \in Answers(g_config, r)
          /\ \/ /\ ~Proceeds(x, accepted)
                /\ session' = [session EXCEPT ![x] = [asked EXCEPT
                       !.conn = "closed",
                       !.reply = IF Given({"tempfail"}) # {} THEN "tempfail" ELSE "reject"]]
                /\ Forget(x, Given({"reject"}))
             \/ /\ Proceeds(x, accepted)
                /\ owed = {}
                /\ session' = [session EXCEPT ![x] = [asked EXCEPT
                       !.conn = "closed", !.reply = "reject"]]
                /\ Forget(x, accepted \cup Given({"reject"}))
             \/ /\ Proceeds(x, accepted)
                /\ owed # {}
                /\ session' = [session EXCEPT ![x] = [asked EXCEPT
                       !.conn = "open", !.milter = "eom"]]
                /\ Forget(x, Given({"reject"}))
    /\ UNCHANGED <<g_config, delivered, crashes, reloads>>

-----------------------------------------------------------------------------
(* End of message *)

\* The milter answers about t, the transaction x as its callback left it, and the MTA answers its
\* client, unless it gave the milter up before.
Answer(x, t, reply, rcpts) ==
    /\ session' = [session EXCEPT ![x] =
           IF t.conn = "open" THEN [t EXCEPT !.milter = "idle", !.conn = "closed", !.reply = reply]
           ELSE [t EXCEPT !.milter = "idle"]]
    /\ IF t.conn = "open" /\ reply = "ok"
       THEN delivered' = delivered \cup {[id |-> x, rcpts |-> rcpts, text |-> t.text]}
       ELSE UNCHANGED delivered
    /\ IF t.conn = "open" /\ reply # "tempfail" THEN Forget(x, t.accepted) ELSE UNCHANGED wanted
    /\ UNCHANGED <<g_config, crashes, reloads>>

AtEom(x) == session[x].milter = "eom"

\* A signature that verifies lets the mail pass as it is ...
EomPass(x) ==
    /\ AtEom(x)
    /\ Signed(x)
    /\ Answer(x, session[x], "ok", session[x].accepted)

\* ... and one that does not, or cannot be checked, refuses it.
EomRefuse(x) ==
    /\ AtEom(x)
    /\ Signed(x)
    /\ Answer(x, session[x], "reject", {})

\* Encrypting or signing throws.
EomThrow(x) ==
    /\ AtEom(x)
    /\ ~Signed(x)
    /\ Answer(x, session[x], "tempfail", {})

Sections(x) == {p[2] : p \in session[x].owed}

\* Mutant of OwedTo: update_milter_recipients and set_recipients take every recipient.
OwedToAll(x, s) == session[x].accepted

OwedTo(x, s) == {r \in Rcpt : <<r, s>> \in session[x].owed}

Encrypted(x, s) == [session[x] EXCEPT !.text = Append(@, s)]

\* One section alone encrypts the MTA's own mail.
EomReplace(x, s) ==
    /\ AtEom(x)
    /\ ~Signed(x)
    /\ Sections(x) = {s}
    /\ Answer(x, Encrypted(x, s), "ok", OwedTo(x, s))

\* Several sections: the first encrypts the MTA's own mail, for each other one a signed copy of
\* its own starts on its way to smtp_server.
EomReinject(x, s) ==
    LET others == Sections(x) \ {s}
        copies == {CopyId(x, t) : t \in others} IN
    /\ AtEom(x)
    /\ ~Signed(x)
    /\ s \in Sections(x)
    /\ others # {}
    /\ session' = [y \in DOMAIN session \cup copies |->
           IF y \in copies
           THEN LET t == y.path[Len(y.path)] IN
                Fresh(OwedTo(x, t), Append(session[x].text, t))
           ELSE IF y = x THEN [Encrypted(x, s) EXCEPT !.milter = "sending"] ELSE session[y]]
    /\ UNCHANGED <<g_config, wanted, delivered, crashes, reloads>>

\* A transfer ends with the MTA's answer.
TransferEnds(x, y) ==
    /\ session[x].milter = "sending"
    /\ y \in CopiesOf(x)
    /\ session[y].seen = "none"
    /\ session[y].conn = "closed"
    /\ session' = [session EXCEPT ![y].seen = IF session[y].reply = "ok" THEN "ok" ELSE "fail"]
    /\ UNCHANGED <<g_config, wanted, delivered, crashes, reloads>>

\* A client that leaves: a copy that no server process took yet is not sent, the MTA keeps one
\* that it has.
Left(t) == [t EXCEPT !.seen = "fail", !.conn = IF @ = "connecting" THEN "closed" ELSE @]

\* A transfer breaks off before the answer, wherever the copy is.
TransferBreaks(x, y) ==
    /\ session[x].milter = "sending"
    /\ y \in CopiesOf(x)
    /\ session[y].seen = "none"
    /\ session' = [session EXCEPT ![y] = Left(@)]
    /\ UNCHANGED <<g_config, wanted, delivered, crashes, reloads>>

\* Mutant of TransferExpires: CURLOPT_TIMEOUT is not set.
TransferExpiresNever(x, y) == FALSE

\* CURLOPT_TIMEOUT breaks it off.
TransferExpires(x, y) == Timeout /\ TransferBreaks(x, y)

\* Mutant of SendingEnds: the status of the transfers is not looked at.
SendingEndsOk(x) ==
    /\ session[x].milter = "sending"
    /\ \A y \in CopiesOf(x) : session[y].seen # "none"
    /\ \E s \in Sections(x) :
          /\ session[x].text[Len(session[x].text)] = s
          /\ Answer(x, session[x], "ok", OwedTo(x, s))

\* perform() returns, and on_eom answers by the failed transfers.
SendingEnds(x) ==
    /\ session[x].milter = "sending"
    /\ \A y \in CopiesOf(x) : session[y].seen # "none"
    /\ \E s \in Sections(x) :
          /\ session[x].text[Len(session[x].text)] = s
          /\ IF \A y \in CopiesOf(x) : session[y].seen = "ok"
             THEN Answer(x, session[x], "ok", OwedTo(x, s))
             ELSE Answer(x, session[x], "tempfail", {})

-----------------------------------------------------------------------------
(* What comes in between *)

\* milter_content_timeout with milter_default_action = tempfail. The milter is not told.
MtaGivesUp(x) ==
    /\ session[x].conn = "open"
    /\ session' = [session EXCEPT ![x].conn = "closed", ![x].reply = "tempfail"]
    /\ UNCHANGED <<g_config, wanted, delivered, crashes, reloads>>

Reload ==
    /\ reloads < MaxReloads
    /\ \E c \in Config \ {g_config} : g_config' = c
    /\ reloads' = reloads + 1
    /\ UNCHANGED <<wanted, session, delivered, crashes>>

\* The milter process dies and is started again: every callback is gone, and with it the clients
\* of the copies. The MTA defers what it was asking about.
Crash ==
    /\ crashes < MaxCrashes
    /\ crashes' = crashes + 1
    /\ g_config' \in Config
    /\ session' = [x \in DOMAIN session |->
           LET t == session[x]
               cut == IF t.conn = "open" THEN [t EXCEPT !.conn = "closed", !.reply = "tempfail"]
                      ELSE t
           IN [(IF ~Original(x) /\ t.seen = "none" THEN Left(cut) ELSE cut)
                  EXCEPT !.milter = "idle"]]
    /\ UNCHANGED <<wanted, delivered, reloads>>

-----------------------------------------------------------------------------
MilterNext(x) ==
    \/ EomPass(x) \/ EomRefuse(x) \/ EomThrow(x)
    \/ \E s \in Section : EomReplace(x, s) \/ EomReinject(x, s)
    \/ \E y \in CopiesOf(x) : TransferEnds(x, y)
    \/ SendingEnds(x)

Next ==
    \/ \E m \in Mail : Submit(m)
    \/ \E x \in DOMAIN session :
          \/ Envelope(x)
          \/ MilterNext(x)
          \/ \E y \in CopiesOf(x) : TransferBreaks(x, y)
          \/ MtaGivesUp(x)
    \/ Reload
    \/ Crash

Spec == Init /\ [][Next]_vars

\* Free server processes take connections, callbacks run, and transfers end at their timeout.
\* Nothing is assumed of the MTA's own timeout.
FairSpec ==
    /\ Spec
    /\ WF_vars(\E x \in DOMAIN session : Envelope(x))
    /\ WF_vars(\E x \in DOMAIN session : MilterNext(x))
    /\ WF_vars(\E x \in DOMAIN session : \E y \in CopiesOf(x) : TransferExpires(x, y))

-----------------------------------------------------------------------------
(* Properties *)

Mine(x) == {d \in delivered : Attempt(d.id) = x}

\* find_match on the captured configuration, on_eom's signature check: whatever is republished
\* between an attempt and its copies, a mail leaves encrypted exactly once, by the section its
\* recipients had in the configuration their attempt was accepted under.
EncryptedOnce ==
    \A d \in delivered : \A r \in d.rcpts :
        d.text = <<Settings[session[Attempt(d.id)].config].section[r]>>

\* on_eom: an attempt, with all its copies, serves a recipient at most once, also when the MTA, the
\* milter and libcurl disagree about what became of it. Duplicates come from new attempts alone.
OncePerAttempt ==
    \A d, e \in delivered :
        Attempt(d.id) = Attempt(e.id) /\ d.rcpts \cap e.rcpts # {} => d = e

\* on_eom: once a sender was told that its mail is accepted, everyone the milter has a key for has
\* been served by that very attempt.
AcceptedIsServed ==
    \A x \in DOMAIN session :
        Original(x) /\ session[x].reply = "ok" =>
            {p[1] : p \in session[x].owed} = UNION {d.rcpts : d \in Mine(x)}

\* on_data, on_eom: an attempt that is refused for good has served nobody.
RefusedIsUnserved ==
    \A x \in DOMAIN session : Original(x) /\ session[x].reply = "reject" => Mine(x) = {}

\* perform(), CURLOPT_TIMEOUT: every attempt is answered, also when the mails that wait for their
\* copies hold all the server processes those copies need.
AttemptAnswered ==
    \A m \in Mail, n \in 1 .. MaxAttempts :
        LET x == AttemptId(m, n) IN
        x \in DOMAIN session ~> x \in DOMAIN session /\ session[x].conn = "closed"
=============================================================================
