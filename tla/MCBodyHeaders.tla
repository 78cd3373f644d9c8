---------------------------- MODULE MCBodyHeaders ----------------------------
(***************************************************************************)
(* Values for the constants of BodyHeaders: mails of up to three headers,  *)
(* well-formed ones, in which no Content-* header comes twice, and others. *)
(***************************************************************************)
EXTENDS BodyHeaders

MCLower ==
    [n \in {"content-type", "Content-Type"} |-> "content-type"]
    @@ [n \in {"Content-Transfer-Encoding"} |-> "content-transfer-encoding"]
    @@ [n \in {"Content-Disposition"} |-> "content-disposition"]
    @@ [n \in {"Content-Description"} |-> "content-description"]
    @@ [n \in {"DKIM-Signature", "dkim-signature"} |-> "dkim-signature"]
    @@ [n \in {"X-GWMilter-Signature", "x-gwmilter-signature"} |-> "x-gwmilter-signature"]
    @@ [n \in {"content-transfer-encoding", "content-disposition", "content-description",
               "Subject"} |-> n]
MCName == DOMAIN MCLower
MCContentNames ==
    {"content-type", "content-transfer-encoding", "content-disposition", "content-description"}

\* Headers as mails have them; the value tells two headers of one name apart.
MailHeader ==
    [name : {"content-type", "Content-Type", "Content-Transfer-Encoding", "Content-Description",
             "DKIM-Signature", "dkim-signature", "Subject"},
     value : {"a", "b"}]
    \cup [name : {"X-GWMilter-Signature", "x-gwmilter-signature"}, value : {"a"}]
AnyMails == SeqOf(MailHeader, 3)
WellFormedMails ==
    {m \in AnyMails : \A j, k \in DOMAIN m :
        j # k /\ MCLower[m[j].name] = MCLower[m[k].name] => MCLower[m[j].name] \notin MCContentNames}
MCStripHeaders == <<"DKIM-Signature">>
=============================================================================
