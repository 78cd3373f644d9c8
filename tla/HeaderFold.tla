------------------------------ MODULE HeaderFold ------------------------------
(***************************************************************************)
(* The signature of a re-injected copy on its way: sign makes one line of  *)
(* the armour, pack_header_value folds it into lines of a header, the MTA  *)
(* hands the header to the milter again, and unpack_header_value joins the *)
(* lines before the signature is verified.                                 *)
(*                                                                         *)
(* The MTA is external: it ends lines with LF where SMTP has CRLF, and     *)
(* leaves the header alone otherwise.                                      *)
(***************************************************************************)
EXTENDS Integers, Sequences, FiniteSetsExt

CONSTANTS
    ArmourLine,         \* characters in a line of the armour
    SignatureSizes,     \* bound: the sizes of signatures, in characters
    NameSizes,          \* bound: the sizes of header names
    LineSizes           \* bound: the values of max_line_size

\* A first line with its name has room for text (or none to spare), a later line for more than
\* the tab. The code has 20 and RFC5322_MAX_LINE_SIZE.
ASSUME SizesAssumption ==
    /\ ArmourLine \in Nat \ {0} /\ SignatureSizes \subseteq Nat
    /\ NameSizes \subseteq Nat \ {0} /\ LineSizes \subseteq Nat
    /\ \A n \in NameSizes, m \in LineSizes : n + 2 <= m

\* A character of a text: a number for one of the signature, or white space.
CR == -1
LF == -2
TAB == -3
Break == <<CR, LF, TAB>>
InsertText(s, k, t) == SubSeq(s, 1, k) \o t \o SubSeq(s, k + 1, Len(s))
Without(s, chars) ==
    LET kept[n \in 0 .. Len(s)] ==
            IF n = 0 THEN <<>>
            ELSE IF s[n] \in chars THEN kept[n - 1] ELSE Append(kept[n - 1], s[n])
    IN  kept[Len(s)]
Smaller(a, b) == IF a < b THEN a ELSE b

VARIABLES
    signature,          \* the characters the crypto library made
    header_name_size,   \* the parameter, without the two characters after the name
    max_line_size,
    value,
    pos,
    line_len,
    phase

arguments == <<signature, header_name_size, max_line_size>>
vars == <<arguments, value, pos, line_len, phase>>

TypeOK ==
    /\ Len(signature) \in SignatureSizes
    /\ header_name_size \in NameSizes /\ max_line_size \in LineSizes
    /\ value \in Seq(Int) /\ pos \in Nat /\ (phase = "folding" => pos <= Len(value))
    /\ line_len \in 0 .. max_line_size
    /\ phase \in {"armour", "signed", "folding", "packed", "received", "unpacked"}

\* The armour between its first blank line and its last line: each line ends with LF.
Armour(s) ==
    LET text[n \in 0 .. Len(s)] ==
            IF n = 0 THEN <<>>
            ELSE text[n - 1] \o IF n % ArmourLine = 0 \/ n = Len(s) THEN <<s[n], LF>> ELSE <<s[n]>>
    IN  text[Len(s)]

Init ==
    /\ signature \in {[k \in 1 .. n |-> k] : n \in SignatureSizes}
    /\ header_name_size \in NameSizes /\ max_line_size \in LineSizes
    /\ value = Armour(signature)
    /\ pos = 0 /\ line_len = 0
    /\ phase = "armour"

-----------------------------------------------------------------------------
\* sign, after it has cut off the first and the last line.
sign ==
    /\ phase = "armour"
    /\ value' = Without(value, {LF})
    /\ phase' = "signed"
    /\ UNCHANGED <<arguments, pos, line_len>>

\* Mutant of FirstLine: the two characters after the name are forgotten.
FirstLineWithoutColon == max_line_size - header_name_size

\* The room for text in the first line.
FirstLine == max_line_size - (header_name_size + 2)

\* pack_header_value: what comes before the loop.
EnterPack ==
    /\ phase = "signed"
    /\ pos' = 0
    /\ line_len' = FirstLine
    /\ phase' = "folding"
    /\ UNCHANGED <<arguments, value>>

\* Mutant of More: a line that just fits is cut too.
MoreOrFits == pos + line_len <= Len(value)

\* Mutant of More: only a line that fits exactly is the last.
MoreNotExact == pos + line_len # Len(value)

\* The condition of the loop.
More == pos + line_len < Len(value)

\* Mutant of NextLine: the minimum is not taken.
NextLineRest(v, p) == Len(v) - p

NextLine(v, p) == Smaller(Len(v) - p, max_line_size)

\* One round: the line ends here, the next begins with its tab, which counts.
FoldLine ==
    /\ phase = "folding" /\ More
    /\ LET p == pos + Smaller(line_len, Len(value))
       IN  /\ value' = InsertText(value, p, Break)
           /\ pos' = p + 2
           /\ line_len' = NextLine(value', pos')
    /\ UNCHANGED <<arguments, phase>>

Packed ==
    /\ phase = "folding" /\ ~More
    /\ phase' = "packed"
    /\ UNCHANGED <<arguments, value, pos, line_len>>

\* Through SMTP and the MTA to xxfi_header of the next transaction.
MtaHandsOver ==
    /\ phase = "packed"
    /\ value' = Without(value, {CR})
    /\ phase' = "received"
    /\ UNCHANGED <<arguments, pos, line_len>>

\* Mutant of unpack_header_value: the tabs stay.
unpackLinesOnly ==
    /\ phase = "received"
    /\ value' = Without(value, {LF})
    /\ phase' = "unpacked"
    /\ UNCHANGED <<arguments, pos, line_len>>

unpack_header_value ==
    /\ phase = "received"
    /\ value' = Without(value, {LF, TAB})
    /\ phase' = "unpacked"
    /\ UNCHANGED <<arguments, pos, line_len>>

Over == phase = "unpacked" /\ UNCHANGED vars

Next == sign \/ EnterPack \/ FoldLine \/ Packed \/ MtaHandsOver \/ unpack_header_value \/ Over

Spec == Init /\ [][Next]_vars

-----------------------------------------------------------------------------
(* Properties *)

\* Where the lines of the header begin in value, and their sizes as the receiver of the header
\* counts them: with name, colon and blank in the first, with the tab in the others, without CRLF.
Starts == {1} \cup {k + 1 : k \in {j \in DOMAIN value : value[j] = LF}}
LineEnd(start) == Min({Len(value)} \cup {k - 2 : k \in {j \in DOMAIN value : j > start /\ value[j] = LF}})
LineSize(start) == LineEnd(start) - start + 1 + IF start = 1 THEN header_name_size + 2 ELSE 0

\* pack_header_value limits every line to max_line_size and wastes no line: all but the last are full.
LinesFull ==
    phase = "packed" =>
        \A s \in Starts : /\ LineSize(s) <= max_line_size
                          /\ LineEnd(s) # Len(value) => LineSize(s) = max_line_size

\* No folded line is white space only, which a receiver may take for the end of the header.
NoBlankLine == phase = "packed" => \A s \in Starts \ {1} : LineSize(s) > 1 /\ value[s] = TAB

\* What is verified is what was signed: nothing is lost or added between sign and verify_signature.
RoundTrip == phase = "unpacked" => value = signature

\* The loop makes value longer while it walks to its end, and yet comes there: each round but the
\* last leaves a character behind for good, so there are no more rounds than characters.
PackBounded == Len(value) <= 4 * Len(signature)
=============================================================================
