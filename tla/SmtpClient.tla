----------------------------- MODULE SmtpClient -----------------------------
(***************************************************************************)
(* smtp::client_multi re-injects the copies of one message: add, perform   *)
(* and the destructor, with the read_callback of each work_item, as        *)
(* milter_message::on_eom uses them.                                       *)
(*                                                                         *)
(* libcurl and the SMTP server are external. libcurl moves the transfers   *)
(* only inside curl_multi_perform, several of them in any order; it asks   *)
(* for text with whatever room its buffer has (never none), takes 0 as the *)
(* end of the message, and closes the connection without ending the        *)
(* message when a transfer fails or is removed. The server accepts a       *)
(* message only after its end, whether the client still listens or not.    *)
(***************************************************************************)
EXTENDS Integers, FiniteSets, Sequences

CONSTANTS
    NumItems,       \* the number of work items, smtp_work_items.size()
    HeadersSize,    \* per item, the size of internals_type::headers
    BodySize,       \* per item, the size of internals_type::body
    Room,           \* bound: the sizes of buffer libcurl offers
    Timeout         \* general.smtp_server_timeout; curl takes 0 as none

Item == 1 .. NumItems
NoAnswer == -1
Exception == -2

ASSUME ItemsAssumption == NumItems \in Nat \ {0}
ASSUME SizeAssumption == HeadersSize \in [Item -> Nat \ {0}] /\ BodySize \in [Item -> Nat]
ASSUME RoomAssumption == Room \subseteq Nat \ {0}
ASSUME TimeoutAssumption == Timeout \in Nat \cup {-1}

Size(i) == HeadersSize[i] + BodySize[i]

\* Cells of text. The message of item i is its headers and then its body.
Header(k) == <<"headers", k>>
Body(k) == <<"body", k>>
Message(i) ==
    [k \in 1 .. Size(i) |-> IF k <= HeadersSize[i] THEN Header(k) ELSE Body(k - HeadersSize[i])]

VARIABLES
    pos,                \* per item, internals_type::pos
    sent,               \* per item, the text curl took from read_callback
    ended,              \* items whose end curl has signalled to the server
    accepted,           \* items the server accepted
    added,              \* curl_handles_.size(): items are added in order
    multi,              \* items in the multi handle whose transfer has not ended
    limited,            \* items with CURLOPT_TIMEOUT
    expired,            \* items whose time is over
    failed,             \* items whose transfer ended with an error
    messages,           \* ended transfers that curl_multi_info_read has not returned
    running_handles_,
    failed_count,
    phase,              \* where on_eom, add and perform stand
    result              \* NoAnswer, Exception, or what perform returned

serverVars == <<sent, ended, accepted>>
clientVars == <<added, limited, running_handles_, failed_count>>
curlVars == <<multi, failed, messages>>
vars == <<pos, serverVars, clientVars, curlVars, expired, phase, result>>

TextTypeOK ==
    /\ pos \in [Item -> Nat] /\ \A i \in Item : pos[i] <= Size(i)
    /\ sent \in [Item -> Seq({"headers", "body"} \X Nat)]
TypeOK ==
    /\ TextTypeOK
    /\ ended \subseteq Item /\ accepted \subseteq Item
    /\ added \in 0 .. NumItems
    /\ multi \subseteq Item /\ limited \subseteq Item /\ expired \subseteq limited
    /\ failed \subseteq Item /\ messages \subseteq Item
    /\ running_handles_ \in 0 .. NumItems
    /\ failed_count \in 0 .. NumItems
    /\ phase \in {"adding", "waiting", "driving", "counting", "over", "gone"}
    /\ result \in {NoAnswer, Exception} \cup 0 .. NumItems

Init ==
    /\ pos = [i \in Item |-> 0]
    /\ sent = [i \in Item |-> <<>>]
    /\ ended = {} /\ accepted = {}
    /\ added = 0 /\ limited = {} /\ running_handles_ = 0 /\ failed_count = 0
    /\ multi = {} /\ failed = {} /\ messages = {}
    /\ expired = {}
    /\ phase = "adding" /\ result = NoAnswer

-----------------------------------------------------------------------------
\* An exception leaves add or perform.
Throws == phase' = "over" /\ result' = Exception
Goes(p) == phase' = p /\ UNCHANGED result
Stays == UNCHANGED <<phase, result>>

\* Mutant of SetTimeout: the limit is not set.
SetTimeoutNot(i) == UNCHANGED limited

\* client_multi::add, for the next item; curl_multi_add_handle may fail after the handle was stored.
SetTimeout(i) == limited' = IF Timeout > 0 THEN limited \cup {i} ELSE limited

add ==
    /\ phase = "adding" /\ added < NumItems
    /\ added' = added + 1
    /\ SetTimeout(added + 1)
    /\ \/ /\ multi' = multi \cup {added + 1}
          /\ running_handles_' = running_handles_ + 1
          /\ Stays
       \/ /\ Throws
          /\ UNCHANGED <<multi, running_handles_>>
    /\ UNCHANGED <<pos, serverVars, failed, messages, failed_count, expired>>

EnterPerform ==
    /\ phase = "adding" /\ added = NumItems
    /\ Goes("waiting")
    /\ UNCHANGED <<pos, serverVars, clientVars, curlVars, expired>>

\* One round of the loop in perform: curl_multi_timeout, curl_multi_fdset and select, each of which
\* may fail, then curl_multi_perform.
Wait ==
    /\ phase = "waiting" /\ running_handles_ # 0
    /\ Goes("driving") \/ Throws
    /\ UNCHANGED <<pos, serverVars, clientVars, curlVars, expired>>

\* Mutant of CopySize: the end is compared with the size of the body alone.
CopySizeBodyOnly(i, room) ==
    LET left == IF pos[i] < HeadersSize[i] THEN HeadersSize[i] - pos[i]
                ELSE IF pos[i] < BodySize[i] THEN Size(i) - pos[i]
                ELSE 0
    IN  IF room < left THEN room ELSE left

\* work_item::read_callback: how much it copies when asked for room, and from where.
CopySize(i, room) ==
    LET left == IF pos[i] < HeadersSize[i] THEN HeadersSize[i] - pos[i]
                ELSE IF pos[i] < Size(i) THEN Size(i) - pos[i]
                ELSE 0
    IN  IF room < left THEN room ELSE left

Copied(i, size) ==
    [k \in 1 .. size |-> IF pos[i] < HeadersSize[i] THEN Header(pos[i] + k)
                         ELSE Body(pos[i] - HeadersSize[i] + k)]

\* curl asks for text of a transfer it has not ended; 0 bytes are the end.
read_callback(i, room) ==
    /\ phase = "driving" /\ i \in multi \ ended
    /\ LET size == CopySize(i, room)
       IN  /\ pos' = [pos EXCEPT ![i] = @ + size]
           /\ sent' = [sent EXCEPT ![i] = @ \o Copied(i, size)]
           /\ ended' = IF size = 0 THEN ended \cup {i} ELSE ended
    /\ UNCHANGED <<accepted, clientVars, curlVars, expired>>
    /\ Stays

\* The server may answer late, or to nobody.
ServerAccepts(i) ==
    /\ i \in ended \ accepted
    /\ accepted' = accepted \cup {i}
    /\ UNCHANGED <<pos, sent, ended, clientVars, curlVars, expired>>
    /\ Stays

\* The end of a transfer: with the answer of the server, or with an error, also when the server
\* has accepted and the answer is lost.
TransferEnds(i, withError) ==
    /\ phase = "driving" /\ i \in multi
    /\ withError \/ i \in accepted
    /\ multi' = multi \ {i}
    /\ messages' = messages \cup {i}
    /\ failed' = IF withError THEN failed \cup {i} ELSE failed
    /\ UNCHANGED <<pos, serverVars, clientVars, expired>>
    /\ Stays

\* Time passes for a transfer with a limit; curl_multi_perform does not return before it has ended
\* the transfers whose time is over.
Expire(i) ==
    /\ i \in limited \ expired
    /\ expired' = expired \cup {i}
    /\ UNCHANGED <<pos, serverVars, clientVars, curlVars>>
    /\ Stays

curl_multi_perform ==
    /\ phase = "driving"
    /\ \/ /\ multi \cap expired = {}
          /\ running_handles_' = Cardinality(multi)
          /\ Goes("waiting")
       \/ /\ Throws
          /\ UNCHANGED running_handles_
    /\ UNCHANGED <<pos, serverVars, added, limited, failed_count, curlVars, expired>>

LoopEnds ==
    /\ phase = "waiting" /\ running_handles_ = 0
    /\ Goes("counting")
    /\ UNCHANGED <<pos, serverVars, clientVars, curlVars, expired>>

\* Mutant of CountFailed: a failure is noted, not counted.
CountFailedOnce(i) == failed_count' = IF i \in failed THEN 1 ELSE failed_count

\* curl_multi_info_read returns the ended transfers one by one.
CountFailed(i) == failed_count' = IF i \in failed THEN failed_count + 1 ELSE failed_count

curl_multi_info_read(i) ==
    /\ phase = "counting" /\ i \in messages
    /\ messages' = messages \ {i}
    /\ CountFailed(i)
    /\ UNCHANGED <<pos, serverVars, added, limited, running_handles_, multi, failed, expired>>
    /\ Stays

Return ==
    /\ phase = "counting" /\ messages = {}
    /\ phase' = "over" /\ result' = failed_count
    /\ UNCHANGED <<pos, serverVars, clientVars, curlVars, expired>>

\* ~client_multi, on return or while the exception unwinds: every stored handle is removed, and
\* only then are the work items freed.
Removed == 1 .. added
Destroy ==
    /\ phase = "over"
    /\ multi' = multi \ Removed
    /\ messages' = messages \ Removed
    /\ Goes("gone")
    /\ UNCHANGED <<pos, serverVars, clientVars, failed, expired>>

Gone ==
    /\ phase = "gone"
    /\ UNCHANGED vars

Client ==
    \/ add \/ EnterPerform \/ Wait \/ LoopEnds \/ Return \/ Destroy
    \/ \E i \in Item : curl_multi_info_read(i)
Drive ==
    \/ curl_multi_perform
    \/ \E i \in Item : \/ \E room \in Room : read_callback(i, room)
                       \/ \E withError \in BOOLEAN : TransferEnds(i, withError)

Next ==
    \/ Client \/ Drive \/ Gone
    \/ \E i \in Item : ServerAccepts(i) \/ Expire(i)

Spec == Init /\ [][Next]_vars

\* Fairness: the thread in on_eom runs, and time passes. Nothing is assumed of the server.
FairSpec == Spec /\ WF_vars(Client \/ Drive) /\ \A i \in Item : WF_vars(Expire(i))

-----------------------------------------------------------------------------
(* Properties *)

\* read_callback hands out the headers and then the body, each cell once and in order, whatever
\* buffers it is offered and however the transfers interleave.
UploadInOrder == \A i \in Item : sent[i] = SubSeq(Message(i), 1, pos[i])

\* No server takes a part of a message for the message: a copy that was accepted, also one whose
\* transfer failed, timed out or was abandoned by an exception, is whole.
AcceptedWhole == \A i \in accepted : sent[i] = Message(i)

\* perform implements what on_eom relies on.
Delivery == INSTANCE SmtpDelivery WITH delivered <- {i \in accepted : sent[i] = Message(i)}
DeliveryImplemented == Delivery!DeliverySpec

\* With a time limit perform comes to an end, whatever the servers do.
PerformEnds == (phase = "waiting") ~> (result # NoAnswer)
=============================================================================
