----------------------------- MODULE ConfigLoad -----------------------------
(***************************************************************************)
(* One load of the configuration file: parseIniFile builds the tree of     *)
(* ConfigNodes, deserialize<Config> turns it into a Config section by      *)
(* section, with the checks of each section and, last, those that cross    *)
(* sections. Whatever throws ends the load; the caller then keeps the      *)
(* configuration it has.                                                   *)
(*                                                                         *)
(* A file is a sequence of blocks, each a section header (Global stands    *)
(* for the lines before the first header) with its keys. SimpleIni is      *)
(* external: it compares names of sections and keys without regard to      *)
(* case, joins blocks of one section, and keeps the spelling that came     *)
(* first and the value that came last. A line that is neither a section    *)
(* header nor a key it drops without a word: blocks have no such lines.    *)
(***************************************************************************)
EXTENDS Integers, Sequences, SequencesExt

CONSTANTS
    Files,          \* the files to load
    Lower,          \* the texts the files hold, each with its lower-case form
    Number,         \* the texts that read as a number, with the number
    Tokens,         \* the lists: text between commas, trimmed, empty ones left out
    Regex,          \* the patterns that compile, each with the recipients it is found in
    SmtpUrl,        \* the texts that match ^smtps?://.+
    Rcpt            \* recipients

Global == ""

\* A file is a sequence of blocks.
ASSUME FilesAssumption ==
    \A f \in Files :
        /\ Len(f) \in Nat /\ DOMAIN f = 1 .. Len(f)
        /\ \A i \in DOMAIN f :
              /\ f[i].name \in DOMAIN Lower
              \* within a block a key comes once; a key that comes again is a further block
              /\ \A k1, k2 \in DOMAIN f[i].keys : Lower[k1] = Lower[k2] => k1 = k2

\* A text in lower case stays as it is, and only the empty text becomes empty.
ASSUME LowerAssumption ==
    /\ Lower["general"] = "general"
    /\ \A t \in DOMAIN Lower : t # Global => Lower[t] # Lower[Global]

VARIABLES
    file,                   \* the file being read
    root,                   \* the children of the root ConfigNode
    pos,                    \* position of the loop over them
    general,                \* config.general; <<>> until the section was found
    encryptionSections,
    phase                   \* load, read, sections, loaded, failed

vars == <<file, root, pos, general, encryptionSections, phase>>

Protocol == {"pgp", "smime", "pdf", "none"}
Policy == {"discard", "retrieve", "reject"}
NoPolicy == "nullopt"

-----------------------------------------------------------------------------
(* parseIniFile *)

\* Mutant of SameName: the case of letters counts.
SameSpelling(f, i, j) == f[i].name = f[j].name

SameName(f, i, j) == Lower[f[i].name] = Lower[f[j].name]

\* The blocks that open a section, and the sections they open, by loading order.
Openers(f) == {i \in DOMAIN f : f[i].name # Global /\ \A j \in 1 .. i - 1 : ~SameName(f, i, j)}
Joined(f, i) == {j \in DOMAIN f : SameName(f, i, j)}

\* Mutant of NextSection: the sections are not in the order of the file.
NextSectionBackwards(unread) == Max(unread)

\* The loop over the sections takes them in loading order.
NextSection(unread) == Min(unread)

HasKey(f, j, k) == \E k2 \in DOMAIN f[j].keys : Lower[k2] = Lower[k]
FirstWith(f, B, k) == CHOOSE j \in B : HasKey(f, j, k) /\ \A i \in B : HasKey(f, i, k) => j <= i
LastWith(f, B, k) == CHOOSE j \in B : HasKey(f, j, k) /\ \A i \in B : HasKey(f, i, k) => i <= j

\* The keys of the joined blocks B: the first spelling with the last value.
Children(f, B) ==
    LET spelled == {k \in UNION {DOMAIN f[j].keys : j \in B} :
                        k \in DOMAIN f[FirstWith(f, B, k)].keys}
        last(k) == f[LastWith(f, B, k)].keys
    IN [k \in spelled |-> last(k)[CHOOSE k2 \in DOMAIN last(k) : Lower[k2] = Lower[k]]]

\* Keys before the first section come first, as children that are no sections.
GlobalNode(f) ==
    IF \E i \in DOMAIN f : f[i].name = Global /\ DOMAIN f[i].keys # {}
    THEN <<[type |-> "VALUE", key |-> Global, children |-> <<>>]>>
    ELSE <<>>

SectionNode(f, i) == [type |-> "SECTION", key |-> f[i].name, children |-> Children(f, Joined(f, i))]

-----------------------------------------------------------------------------
(* Deserializer *)

\* The fields each kind of section registers, with their types ...
GeneralFields ==
    [milter_socket |-> "string", daemonize |-> "bool", user |-> "string", group |-> "string",
     log_type |-> "string", log_facility |-> "string", log_priority |-> "string",
     milter_timeout |-> "int", smtp_server |-> "string", smtp_server_timeout |-> "int",
     dump_email_on_panic |-> "bool", signing_key |-> "string", strip_headers |-> "list"]
NoneFields == [match |-> "list", encryption_protocol |-> "protocol"]
KeyFields == [match |-> "list", encryption_protocol |-> "protocol", key_not_found_policy |-> "policy"]
PdfFields ==
    [match |-> "list", encryption_protocol |-> "protocol", email_body_replacement |-> "string",
     pdf_main_page_if_missing |-> "string", pdf_attachment |-> "string", pdf_password |-> "string",
     pdf_font_path |-> "string", pdf_font_size |-> "float", pdf_margin |-> "float"]
Fields(p) ==
    CASE p \in {"pgp", "smime"} -> KeyFields
      [] p = "pdf" -> PdfFields
      [] p = "none" -> NoneFields

\* ... and what a field holds when its key is not there.
Default ==
    [milter_socket |-> "", daemonize |-> FALSE, user |-> "", group |-> "", log_type |-> "console",
     log_facility |-> "mail", log_priority |-> "info", milter_timeout |-> -1,
     smtp_server |-> "smtp://127.0.0.1", smtp_server_timeout |-> -1, dump_email_on_panic |-> FALSE,
     signing_key |-> "", strip_headers |-> <<>>, match |-> <<>>, key_not_found_policy |-> NoPolicy,
     email_body_replacement |-> "", pdf_main_page_if_missing |-> "", pdf_attachment |-> "email.pdf",
     pdf_password |-> "", pdf_font_path |-> "", pdf_font_size |-> 10, pdf_margin |-> 10]

TrueWords == {"true", "1", "yes", "on"}
FalseWords == {"false", "0", "no", "off"}

Converts(type, text) ==
    CASE type = "bool" -> Lower[text] \in TrueWords \cup FalseWords
      [] type \in {"int", "float"} -> text \in DOMAIN Number
      [] type = "protocol" -> Lower[text] \in Protocol
      [] type = "policy" -> Lower[text] \in Policy
      [] OTHER -> TRUE

fromString(type, text) ==
    CASE type = "bool" -> Lower[text] \in TrueWords
      [] type \in {"int", "float"} -> Number[text]
      [] type \in {"protocol", "policy"} -> Lower[text]
      [] type = "list" -> Tokens[text]
      [] OTHER -> text

\* No field of the node throws.
Readable(node, fields) ==
    \A k \in DOMAIN fields \cap DOMAIN node.children : Converts(fields[k], node.children[k])

\* findChild compares keys exactly; keys that no field names are left alone.
deserializeFields(node, fields) ==
    [k \in DOMAIN fields |->
        IF k \in DOMAIN node.children THEN fromString(fields[k], node.children[k]) ELSE Default[k]]

-----------------------------------------------------------------------------
(* validate() of the sections *)

GeneralValid(g) ==
    /\ g.milter_socket # ""
    /\ g.log_type \in {"console", "syslog"}
    /\ g.log_priority \in {"trace", "debug", "info", "warning", "error", "critical"}
    /\ g.log_facility \in {"user", "mail", "news", "uucp", "daemon", "auth", "cron", "lpr",
           "local0", "local1", "local2", "local3", "local4", "local5", "local6", "local7"}
    /\ g.milter_timeout >= -1
    /\ g.smtp_server_timeout >= -1
    /\ g.smtp_server # "" => g.smtp_server \in SmtpUrl

\* Mutant of EncryptionValid: retrieve is accepted for S/MIME.
EncryptionValidRetrieve(p, s) ==
    /\ s.match # <<>>
    /\ p \in {"pgp", "smime"} => s.key_not_found_policy # NoPolicy

EncryptionValid(p, s) ==
    /\ s.match # <<>>
    /\ p \in {"pgp", "smime"} => s.key_not_found_policy # NoPolicy
    /\ p = "smime" => s.key_not_found_policy # "retrieve"
    /\ p = "pdf" => s.pdf_font_size > 0 /\ s.pdf_margin >= 0 /\ s.pdf_attachment # ""

compileMatches(s) == \A k \in DOMAIN s.match : s.match[k] \in DOMAIN Regex

-----------------------------------------------------------------------------
Init ==
    /\ file \in Files
    /\ root = <<>>
    /\ pos = 1
    /\ general = <<>>
    /\ encryptionSections = <<>>
    /\ phase = "load"

\* parseIniFile: LoadFile, which may fail, and the global keys ...
LoadFile ==
    /\ phase = "load"
    /\ \/ root' = GlobalNode(file) /\ phase' = "read"
       \/ root' = root /\ phase' = "failed"
    /\ UNCHANGED <<file, pos, general, encryptionSections>>

\* ... and one section after the other.
Unread == {i \in Openers(file) : \A n \in DOMAIN root : root[n].key # file[i].name}

ReadSection ==
    /\ phase = "read"
    /\ Unread # {}
    /\ root' = Append(root, SectionNode(file, NextSection(Unread)))
    /\ UNCHANGED <<file, pos, general, encryptionSections, phase>>

EndOfFile ==
    /\ phase = "read"
    /\ Unread = {}
    /\ phase' = "sections"
    /\ UNCHANGED <<file, root, pos, general, encryptionSections>>

child == root[pos]
AtChild == phase = "sections" /\ pos <= Len(root)
IsStatic == child.type = "SECTION" /\ child.key = "general"
IsDynamic == child.type = "SECTION" /\ ~IsStatic /\ "encryption_protocol" \in DOMAIN child.children

Throw ==
    /\ phase' = "failed"
    /\ UNCHANGED <<file, root, pos, general, encryptionSections>>

\* Mutant of UnknownChild: it is passed over.
UnknownChildSkipped ==
    /\ AtChild
    /\ ~IsStatic
    /\ ~IsDynamic
    /\ pos' = pos + 1
    /\ UNCHANGED <<file, root, general, encryptionSections, phase>>

\* A global key, or a section that is neither static nor dynamic.
UnknownChild == AtChild /\ ~IsStatic /\ ~IsDynamic /\ Throw

StaticSection ==
    /\ AtChild
    /\ IsStatic
    /\ LET g == deserializeFields(child, GeneralFields) IN
       IF general = <<>> /\ Readable(child, GeneralFields) /\ GeneralValid(g)
       THEN /\ general' = g
            /\ pos' = pos + 1
            /\ UNCHANGED <<file, root, encryptionSections, phase>>
       ELSE Throw

\* DynamicSectionRegistry::create
Created(node, p) ==
    [name |-> node.key, type |-> p, settings |-> deserializeFields(node, Fields(p))]

\* Mutant of DynamicSection: to_lower is forgotten when the type is stored.
DynamicSectionRaw ==
    /\ AtChild
    /\ IsDynamic
    /\ LET p == Lower[child.children["encryption_protocol"]] IN
       /\ p \in Protocol
       /\ Readable(child, Fields(p))
       /\ encryptionSections' = Append(encryptionSections,
             [Created(child, p) EXCEPT !.type = child.children["encryption_protocol"]])
       /\ pos' = pos + 1
       /\ UNCHANGED <<file, root, general, phase>>

\* Mutant of DynamicSection: a field whose text does not convert keeps its default.
DynamicSectionLenient ==
    /\ AtChild
    /\ IsDynamic
    /\ LET p == Lower[child.children["encryption_protocol"]]
           readable == {k \in DOMAIN child.children :
                           k \in DOMAIN Fields(p) => Converts(Fields(p)[k], child.children[k])}
           s == Created([child EXCEPT !.children = [k \in readable |-> @[k]]], p)
       IN IF p \in Protocol /\ EncryptionValid(p, s.settings) /\ compileMatches(s.settings)
          THEN /\ encryptionSections' = Append(encryptionSections, s)
               /\ pos' = pos + 1
               /\ UNCHANGED <<file, root, general, phase>>
          ELSE Throw

DynamicSection ==
    /\ AtChild
    /\ IsDynamic
    /\ LET p == Lower[child.children["encryption_protocol"]] IN
       IF /\ p \in Protocol
          /\ Readable(child, Fields(p))
          /\ EncryptionValid(p, Created(child, p).settings)
          /\ compileMatches(Created(child, p).settings)
       THEN /\ encryptionSections' = Append(encryptionSections, Created(child, p))
            /\ pos' = pos + 1
            /\ UNCHANGED <<file, root, general, phase>>
       ELSE Throw

\* Mutant of CrossValid: one section too many goes unchecked.
CrossValidThree ==
    Len(encryptionSections) > 2 => general.signing_key # "" /\ general.smtp_server # ""

\* Config::validate
CrossValid ==
    Len(encryptionSections) > 1 => general.signing_key # "" /\ general.smtp_server # ""

\* The mandatory section, then the checks across sections.
Finish ==
    /\ phase = "sections"
    /\ pos > Len(root)
    /\ IF general # <<>> /\ CrossValid
       THEN phase' = "loaded" /\ UNCHANGED <<file, root, pos, general, encryptionSections>>
       ELSE Throw

\* The caller has its answer.
Answered == phase \in {"loaded", "failed"} /\ UNCHANGED vars

Next ==
    \/ LoadFile \/ ReadSection \/ EndOfFile
    \/ UnknownChild \/ StaticSection \/ DynamicSection \/ Finish \/ Answered

Spec == Init /\ [][Next]_vars

-----------------------------------------------------------------------------
(* Properties *)

Loaded == phase = "loaded"
Section == DOMAIN encryptionSections

\* matches and find_match, on the loaded configuration
matches(s, r) == \E k \in DOMAIN s.settings.match : r \in Regex[s.settings.match[k]]
find_match(r) ==
    LET hits == {k \in Section : matches(encryptionSections[k], r)} IN
    IF hits = {} THEN 0 ELSE CHOOSE k \in hits : \A j \in hits : k <= j

TypeOK ==
    /\ file \in Files
    /\ pos \in 1 .. Len(root) + 1
    /\ phase \in {"load", "read", "sections", "loaded", "failed"}
    /\ \A k \in Section :
          /\ encryptionSections[k].type \in Protocol
          /\ DOMAIN encryptionSections[k].settings = DOMAIN Fields(encryptionSections[k].type)

\* deserialize and validate(): a loaded configuration has what the message handling relies on:
\* a policy exactly where a section has keys, retrieve only for PGP, and patterns that are all
\* compiled, at least one per section.
UsableSections ==
    Loaded => \A k \in Section :
        LET s == encryptionSections[k] IN
        /\ s.type \in {"pgp", "smime"} =>
              /\ s.settings.key_not_found_policy \in Policy
              /\ s.settings.key_not_found_policy = "retrieve" => s.type = "pgp"
        /\ s.settings.encryption_protocol = s.type
        /\ s.settings.match # <<>>
        /\ \A m \in DOMAIN s.settings.match : s.settings.match[m] \in DOMAIN Regex

\* milter_message keys its contexts by section name: two sections of one configuration never
\* share a name, however often and in whatever case the file opens them.
NamesDistinct ==
    Loaded => \A i, j \in Section :
        i # j => Lower[encryptionSections[i].name] # Lower[encryptionSections[j].name]

\* README, "The first section to match a recipient dictates how the email will be processed":
\* the section of find_match is the one that opens first in the file among all whose patterns,
\* as the file last gives them, are found in the recipient.
Patterns(i) ==
    LET m == Children(file, Joined(file, i)) IN
    IF "match" \in DOMAIN m THEN {Tokens[m["match"]][k] : k \in DOMAIN Tokens[m["match"]]} ELSE {}

FirstInFile ==
    Loaded => \A r \in Rcpt :
        LET hits == {i \in Openers(file) : file[i].name # "general"
                                           /\ \E p \in Patterns(i) : r \in Regex[p]} IN
        IF hits = {} THEN find_match(r) = 0
        ELSE /\ find_match(r) # 0
             /\ encryptionSections[find_match(r)].name
                  = file[CHOOSE i \in hits : \A j \in hits : i <= j].name

\* on_eom re-injects a signed copy as soon as one mail has recipients of two sections: any
\* loaded configuration under which that can happen has a signing key and a server.
CopiesCanLeave ==
    Loaded => \A r1, r2 \in Rcpt :
        (find_match(r1) # find_match(r2) /\ 0 \notin {find_match(r1), find_match(r2)})
            => general.signing_key # "" /\ general.smtp_server \in SmtpUrl

\* deserialize<Config>: of the sections and keys SimpleIni finds in the file, a loaded configuration
\* has each section and no other, with the values the file gives it: every field of its kind that
\* the joined blocks have a key for converted and holds the result, the others hold their defaults;
\* and no key stood before the first section. (The lines SimpleIni drops are not spoken of, see
\* HandlesMalformedFileGracefully in ini_reader_tests.cpp; keys that no field names are left alone.)
SectionsAsGiven ==
    Loaded =>
        /\ \A k \in Section : \E i \in Openers(file) : encryptionSections[k].name = file[i].name
        /\ \A i \in DOMAIN file : file[i].name = Global => DOMAIN file[i].keys = {}
        /\ \A i \in Openers(file) :
              LET node == SectionNode(file, i) IN
              IF node.key = "general"
              THEN /\ Readable(node, GeneralFields)
                   /\ general = deserializeFields(node, GeneralFields)
              ELSE \E k \in Section :
                      LET s == encryptionSections[k] IN
                      s.name = node.key /\ Readable(node, Fields(s.type)) /\ s = Created(node, s.type)

\* config.ini marks email_body_replacement and pdf_main_page_if_missing "[mandatory]" for PDF.
PdfMandatoryGiven ==
    Loaded => \A k \in Section :
        encryptionSections[k].type = "pdf" =>
            /\ encryptionSections[k].settings.email_body_replacement # ""
            /\ encryptionSections[k].settings.pdf_main_page_if_missing # ""

=============================================================================
