----------------------------- MODULE BodyHeaders -----------------------------
(***************************************************************************)
(* The headers of one mail in one section: the list a body handler keeps,  *)
(* what goes from it into the encrypted part, and what the recipients get  *)
(* outside of it, in the mail the MTA holds (replace_headers) or in a      *)
(* re-injected copy (work_item::set_message).                              *)
(*                                                                         *)
(* The MTA is external. It has its own list of headers, and gwmilter can   *)
(* only name one by its name, in any case, and its position among the      *)
(* headers of that name that the mail has at that moment.                  *)
(***************************************************************************)
EXTENDS Integers, Sequences, SequencesExt

CONSTANTS
    Name,               \* names of headers, as they are spelled
    Lower,              \* a name in lower case
    ContentNames,       \* lower-case names that begin with "content-"
    Mails,              \* bound: the mails, sequences of headers
    StripHeaders,       \* general.strip_headers, in order
    OldValue, NewValue, Empty   \* values: what mails have, what handlers set, and none

ASSUME LowerAssumption == Lower \in [Name -> Name] /\ ContentNames \subseteq Name
ASSUME ValueAssumption == OldValue \cap {NewValue, Empty} = {} /\ NewValue # Empty
ASSUME MailsAssumption == Mails \subseteq Seq([name : Name, value : OldValue])
ASSUME StripAssumption == StripHeaders \in Seq(Name)
\* The names of the headers gwmilter sets.
ASSUME NamesAssumption ==
    /\ {"Content-Type", "Content-Transfer-Encoding", "Content-Disposition", "Content-Description",
        "X-GWMilter-Signature"} \subseteq Name
    /\ Lower["Content-Type"] = "content-type"
    /\ Lower["Content-Transfer-Encoding"] = "content-transfer-encoding"
    /\ Lower["Content-Disposition"] = "content-disposition"
    /\ Lower["Content-Description"] = "content-description"
    /\ {"content-type", "content-transfer-encoding", "content-disposition",
        "content-description"} \subseteq ContentNames
    /\ Lower["X-GWMilter-Signature"] \notin ContentNames

iequals(a, b) == Lower[a] = Lower[b]
IsContent(name) == Lower[name] \in ContentNames

Handler == {"pgp", "smime", "pdf", "noop"}
Value == OldValue \cup {NewValue, Empty}
Header == [name : Name, value : Value]
\* header_item
Item == [name : Name, value : Value, index : Nat \ {0}, modified : BOOLEAN]
Deleted == {h \in Item : h.modified /\ h.value = Empty}
ContentHeader == {h \in Header : IsContent(h.name)}
\* A re-injected mail is marked with a signature, which verify_signature asks for and no handler sees.
Unsigned == {h \in Header : h.name # "X-GWMilter-Signature"}

\* The elements of s that are in S, in order.
Those(s, S) ==
    LET some[n \in 0 .. Len(s)] ==
            IF n = 0 THEN <<>>
            ELSE IF s[n] \in S THEN Append(some[n - 1], s[n]) ELSE some[n - 1]
    IN  some[Len(s)]

Plain(items) == [k \in DOMAIN items |-> [name |-> items[k].name, value |-> items[k].value]]
Modified(name) == [name |-> name, value |-> NewValue, index |-> 1, modified |-> TRUE]

VARIABLES
    original,           \* the mail as it came
    handler,            \* the kind of body_handler
    replaced,           \* TRUE: this section alters the MTA's mail; FALSE: it makes a copy
    headers_,
    header_pos_,
    inner,              \* the headers written to the handler's buffer before the body
    mail,               \* the headers outside, of the MTA's mail or of the copy
    phase,
    next                \* the next header to hand over, to change or to strip

vars == <<original, handler, replaced, headers_, header_pos_, inner, mail, phase, next>>
inputs == <<original, handler, replaced>>

TypeOK ==
    /\ original \in Mails
    /\ handler \in Handler
    /\ replaced \in BOOLEAN
    /\ headers_ \in Seq(Item)
    /\ header_pos_ \in [Name -> Nat]
    /\ inner \in Seq(Header)
    /\ mail \in Seq(Header)
    /\ phase \in {"headers", "encrypt", "get", "out", "replace", "strip", "done", "failed"}
    /\ next \in Nat \ {0}

Init ==
    /\ original \in Mails /\ handler \in Handler /\ replaced \in BOOLEAN
    /\ headers_ = <<>>
    /\ header_pos_ = [n \in Name |-> 0]
    /\ inner = <<>>
    /\ mail = <<>>
    /\ phase = "headers"
    /\ next = 1

-----------------------------------------------------------------------------
\* Mutant of add_header: the position before the increment.
add_headerPostIncrement(h) ==
    /\ header_pos_' = [header_pos_ EXCEPT ![h.name] = @ + 1]
    /\ headers_' = Append(headers_, [name |-> h.name, value |-> h.value,
                                     index |-> header_pos_[h.name], modified |-> FALSE])

\* body_handler_base::add_header, for the next header of the mail.
add_header(h) ==
    /\ header_pos_' = [header_pos_ EXCEPT ![h.name] = @ + 1]
    /\ headers_' = Append(headers_, [name |-> h.name, value |-> h.value,
                                     index |-> header_pos_'[h.name], modified |-> FALSE])

on_header ==
    /\ phase = "headers" /\ next <= Len(original)
    /\ IF original[next] \in Unsigned THEN add_header(original[next])
       ELSE UNCHANGED <<headers_, header_pos_>>
    /\ next' = next + 1
    /\ UNCHANGED <<inputs, inner, mail, phase>>

\* Mutant of MarkDeleted: the value stays.
MarkDeletedKeepsValue(h) == [h EXCEPT !.modified = TRUE]

\* A header whose place is inside, marked as deleted.
MarkDeleted(h) == [h EXCEPT !.modified = TRUE, !.value = Empty]

\* The headers preprocess writes before the body, with their own values.
Extracted(items) == Those(Plain(items), ContentHeader)

\* Mutant of Marked: every header is marked.
MarkedAll(items) == [k \in DOMAIN items |-> MarkDeleted(items[k])]

Marked(items) ==
    [k \in DOMAIN items |-> IF IsContent(items[k].name) THEN MarkDeleted(items[k]) ELSE items[k]]

\* Mutant of Extract: the headers are copied after they were marked.
ExtractMarked ==
    /\ headers_' = Marked(headers_)
    /\ inner' = Extracted(headers_')

\* extract_content_headers, and the loops of preprocess that write what it returns.
Extract ==
    /\ headers_' = Marked(headers_)
    /\ inner' = Extracted(headers_)

\* write(body_) at end of message: the first write preprocesses, except in the noop handler.
write ==
    /\ phase = "headers" /\ next > Len(original)
    /\ IF handler = "noop" THEN UNCHANGED <<headers_, inner>> ELSE Extract
    /\ phase' = "encrypt"
    /\ next' = 1
    /\ UNCHANGED <<inputs, header_pos_, mail>>

\* encrypt leaves the headers alone; it may throw.
encrypt ==
    /\ phase = "encrypt"
    /\ phase' \in {"get", "failed"}
    /\ UNCHANGED <<inputs, headers_, header_pos_, inner, mail, next>>

\* get_headers: the handler's Content-Type takes the place of the first one, or comes last.
SetContentType(items, h) ==
    LET same == {k \in DOMAIN items : iequals(items[k].name, h.name)}
    IN  IF same # {} THEN [items EXCEPT ![Min(same)] = h] ELSE Append(items, h)

smimeHeaders ==
    <<Modified("Content-Transfer-Encoding"), Modified("Content-Disposition"),
      Modified("Content-Description")>>

pgpHeaders(items) == SetContentType(items, Modified("Content-Type"))
HandlerHeaders(items) ==
    CASE handler = "noop" -> items
      [] handler \in {"pgp", "pdf"} -> pgpHeaders(items)
      [] handler = "smime" -> pgpHeaders(items) \o smimeHeaders

get_headers ==
    /\ phase = "get"
    /\ headers_' = HandlerHeaders(headers_)
    /\ phase' = "out"
    /\ UNCHANGED <<inputs, header_pos_, inner, mail, next>>

-----------------------------------------------------------------------------
\* smfi_chgheader, as the MTA carries it out.
Occurrences(list, name) ==
    Those([k \in DOMAIN list |-> k], {k \in DOMAIN list : iequals(list[k].name, name)})
smfi_chgheader(list, name, index, value) ==
    LET found == Occurrences(list, name)
        h == [name |-> name, value |-> value]
    IN  IF index <= Len(found)
        THEN IF value = Empty THEN RemoveAt(list, found[index])
             ELSE [list EXCEPT ![found[index]] = h]
        ELSE IF value = Empty THEN list ELSE Append(list, h)

\* The first section: the MTA's mail, as it came, is changed header by header.
BeginReplace ==
    /\ phase = "out" /\ replaced
    /\ mail' = original
    /\ phase' = "replace"
    /\ UNCHANGED <<inputs, headers_, header_pos_, inner, next>>

\* replace_headers, one modified header; libmilter may refuse, and milter_exception leaves on_eom's
\* loop.
ReplaceHeader ==
    /\ phase = "replace" /\ next <= Len(headers_)
    /\ LET h == headers_[next]
       IN  IF h.modified
           THEN \/ /\ mail' = smfi_chgheader(mail, h.name, h.index, h.value)
                   /\ next' = next + 1
                   /\ UNCHANGED phase
                \/ /\ phase' = "failed"
                   /\ UNCHANGED <<mail, next>>
           ELSE next' = next + 1 /\ UNCHANGED <<mail, phase>>
    /\ UNCHANGED <<inputs, headers_, header_pos_, inner>>

BeginStrip ==
    /\ phase = "replace" /\ next > Len(headers_)
    /\ phase' = "strip"
    /\ next' = 1
    /\ UNCHANGED <<inputs, headers_, header_pos_, inner, mail>>

\* ... and one header of strip_headers, if the mail came with it.
StripHeader ==
    /\ phase = "strip" /\ next <= Len(StripHeaders)
    /\ LET name == StripHeaders[next]
       IN  IF \E k \in DOMAIN headers_ : iequals(headers_[k].name, name)
           THEN \/ /\ mail' = smfi_chgheader(mail, name, 1, Empty)
                   /\ next' = next + 1
                   /\ UNCHANGED phase
                \/ /\ phase' = "failed"
                   /\ UNCHANGED <<mail, next>>
           ELSE next' = next + 1 /\ UNCHANGED <<mail, phase>>
    /\ UNCHANGED <<inputs, headers_, header_pos_, inner>>

EndStrip ==
    /\ phase = "strip" /\ next > Len(StripHeaders)
    /\ phase' = "done"
    /\ UNCHANGED <<inputs, headers_, header_pos_, inner, mail, next>>

\* Mutant of Written: headers marked as deleted are written too.
WrittenAll(items) == Plain(items)

\* What set_message writes of a list of headers.
Written(items) == Plain(Those(items, Item \ Deleted))

\* A later section: a copy of its own, signed.
set_message ==
    /\ phase = "out" /\ ~replaced
    /\ mail' = Written(Append(headers_, Modified("X-GWMilter-Signature")))
    /\ phase' = "done"
    /\ UNCHANGED <<inputs, headers_, header_pos_, inner, next>>

Over == phase \in {"done", "failed"} /\ UNCHANGED vars

Next ==
    \/ on_header \/ write \/ encrypt \/ get_headers
    \/ BeginReplace \/ ReplaceHeader \/ BeginStrip \/ StripHeader \/ EndStrip
    \/ set_message \/ Over

Spec == Init /\ [][Next]_vars

-----------------------------------------------------------------------------
(* Properties *)

Outside == phase \in {"strip", "done"}
Stripped(name) == \E k \in DOMAIN StripHeaders : iequals(StripHeaders[k], name)
Untouched ==
    {h \in Header : /\ ~Stripped(h.name) /\ h.name # "X-GWMilter-Signature"
                    /\ handler = "noop" \/ ~IsContent(h.name)}

\* Whoever gets the mail, in whichever way, sees every header of the original that is neither
\* Content-* nor stripped nor a signature of the milter's, in order and unchanged.
OthersKept == Outside => Those(mail, Untouched) = Those(original, Untouched)

\* ... and of the Content-* headers only the handler's own, each once: none that describes the
\* clear text, and none that contradicts the new body.
OwnContentOnly ==
    Outside /\ handler # "noop" =>
        LET content == Those(mail, ContentHeader)
            own == {"content-type"} \cup
                IF handler = "smime"
                THEN {"content-transfer-encoding", "content-disposition", "content-description"}
                ELSE {}
        IN  /\ \A k \in DOMAIN content : content[k].value = NewValue
            /\ \A j, k \in DOMAIN content : iequals(content[j].name, content[k].name) => j = k
            /\ {Lower[content[k].name] : k \in DOMAIN content} = own

\* The two ways agree: changing the MTA's mail step by step gives the headers that a copy made from
\* the same handler has, but for signatures: the MTA's mail keeps one that did not verify.
ReplacedAsCopied == phase = "strip" /\ next = 1 => Those(mail, Unsigned) = Written(headers_)

\* The encrypted part keeps every Content-* header of the original, with its value and in order.
InnerKeepsContent ==
    phase \notin {"headers"} /\ handler # "noop" =>
        inner = Those(original, ContentHeader)

\* body_handler.cpp marks the Content-* headers as deleted: none of them stays outside.
DeletedAreGone ==
    Outside /\ handler # "noop" =>
        \A k \in DOMAIN mail : IsContent(mail[k].name) => mail[k].value = NewValue

\* config.ini: gwmilter removes the headers of strip_headers before it lets the mail pass.
StrippedFromMail == phase = "done" /\ replaced => \A k \in DOMAIN mail : ~Stripped(mail[k].name)
StrippedFromCopies == phase = "done" /\ ~replaced => \A k \in DOMAIN mail : ~Stripped(mail[k].name)
=============================================================================
