----------------------------- MODULE MailPolicy -----------------------------
(***************************************************************************)
(* What gwmilter promises about one mail, whatever happens inside it.      *)
(*                                                                         *)
(* During the envelope a recipient is promised to the one section that     *)
(* will encrypt for it, or to none. Once the content has arrived the       *)
(* sections are served one after the other, each for all its recipients or *)
(* for none; the last of them is served only by the answer that lets the   *)
(* mail continue. Until then the mail can be deferred at any point, but it *)
(* can be refused for good only while nobody has been served.              *)
(*                                                                         *)
(* Every stage of the policy is what milter_message.cpp does as a whole:   *)
(* MilterPolicy shows that the callbacks implement it.                     *)
(***************************************************************************)
CONSTANTS Rcpt, Section

VARIABLES
    stage,      \* where the mail stands, or the verdict on it
    promised,   \* <<r, s>>: recipient r is promised to section s
    served      \* <<r, s>>: r was sent a copy that s encrypted

vars == <<stage, promised, served>>

Of(s) == {p \in promised : p[2] = s}

Init ==
    /\ stage = "none"
    /\ promised = {}
    /\ served = {}

\* on_envfrom: nothing of an earlier mail is left.
Open ==
    /\ stage \notin {"envelope", "content"}
    /\ stage' = "envelope"
    /\ promised' = {}
    /\ served' = {}

\* on_envrcpt: the latest answer for a recipient counts.
Promise ==
    /\ stage = "envelope"
    /\ \E r \in Rcpt :
          LET others == {p \in promised : p[1] # r} IN
          promised' \in {others} \cup {others \cup {<<r, s>>} : s \in Section}
    /\ UNCHANGED <<stage, served>>

\* on_data, with somebody to encrypt for
Content ==
    /\ stage = "envelope"
    /\ promised # {}
    /\ stage' = "content"
    /\ UNCHANGED <<promised, served>>

\* on_data, with nobody to encrypt for; on_eom, a signature that does not verify
Reject ==
    /\ \/ stage = "envelope" /\ promised = {}
       \/ stage = "content"
    /\ served = {}
    /\ stage' = "reject"
    /\ UNCHANGED <<promised, served>>

\* on_eom, a signature that verifies: the mail is one this gateway encrypted before.
Pass ==
    /\ stage = "content"
    /\ served = {}
    /\ stage' = "passed"
    /\ UNCHANGED <<promised, served>>

\* A re-injected copy is accepted by the MTA. It is never the last one owed.
Serve(s) ==
    /\ stage = "content"
    /\ served' = served \cup Of(s)
    /\ served' # promised
    /\ UNCHANGED <<stage, promised>>

\* The MTA's own mail goes to the one section that is left.
Continue ==
    /\ stage = "content"
    /\ \E s \in Section : promised \ served = Of(s)
    /\ served' = promised
    /\ stage' = "continue"
    /\ UNCHANGED promised

Defer ==
    /\ stage = "content"
    /\ stage' = "tempfail"
    /\ UNCHANGED <<promised, served>>

\* xxfi_abort, xxfi_close
Abandon ==
    /\ stage' = "none"
    /\ promised' = {}
    /\ served' = {}

Next ==
    \/ Open \/ Promise \/ Content \/ Reject \/ Pass
    \/ (\E s \in Section : Serve(s))
    \/ Continue \/ Defer \/ Abandon

Spec == Init /\ [][Next]_vars

-----------------------------------------------------------------------------
(* What the policy guarantees. *)

PolicyTypeOK ==
    /\ stage \in {"none", "envelope", "content", "reject", "passed", "continue", "tempfail"}
    /\ promised \subseteq Rcpt \X Section
    /\ served \subseteq promised

\* milter_message as a whole: a recipient is promised to one section, a mail that continues
\* encrypted has served everyone it was promised to, one that is deferred has not, and one that
\* is refused for good, or passes because it was encrypted before, has served nobody.
Guarantee ==
    /\ \A p, q \in promised : p[1] = q[1] => p = q
    /\ stage = "continue" => served = promised
    /\ stage = "tempfail" => served # promised
    /\ stage \in {"reject", "passed"} => served = {}
=============================================================================
