---------------------------- MODULE MCConfigLoad ----------------------------
(* The values TLC gives the constants of ConfigLoad. *)
EXTENDS ConfigLoad, TLC

Block(n, k) == [name |-> n, keys |-> k]
Enc(m, p) == "match" :> m @@ "encryption_protocol" :> p

Generals == {
    Block("general", "milter_socket" :> "inet" @@ "signing_key" :> "key"),
    Block("general", "milter_socket" :> "inet" @@ "smtp_server_timeout" :> "180"),
    Block("General", "signing_key" :> "key"),
    Block("general", "smtp_server" :> ""),
    Block("general", "Milter_Socket" :> "" @@ "milter_timeout" :> "12x"),
    Block("general", "smtp_server" :> "ftp" @@ "dump_email_on_panic" :> "YES")}

Encryptions == {
    Block("a", Enc("m12", "PGP") @@ "key_not_found_policy" :> "retrieve"),
    Block("b", Enc("m2", "smime") @@ "key_not_found_policy" :> "Reject"),
    Block("b", Enc("m23", "smime") @@ "key_not_found_policy" :> "retrieve"),
    Block("A", "Match" :> "m3" @@ "encryption_protocol" :> "none"),
    Block("A", Enc("m3", "none")),
    Block("a", Enc("m3", "pdf") @@ "pdf_margin" :> "-2"),
    Block("a", Enc("m3", "pdf") @@ "pdf_font_size" :> "12x"),
    Block("a", "match" :> "m3"),
    Block("c", Enc("mbad", "none")),
    Block("c", Enc("m123", "pdf") @@ "email_body_replacement" :> "text"),
    Block("c", Enc("blank", "none")),
    Block("c", Enc("m1", "rot13")),
    Block("b", "key_not_found_policy" :> "bounce"),
    Block(Global, "key" :> "text")}

Blocks == Generals \cup Encryptions

\* Up to three blocks in any order, and four that begin with a usable general section.
MCFiles ==
    UNION {[1 .. n -> Blocks] : n \in 0 .. 3}
    \cup {<<Block("general", "milter_socket" :> "inet" @@ "signing_key" :> "key")>> \o f :
              f \in [1 .. 3 -> Encryptions]}

\* A file with a PDF section and nothing more than the program asks for.
MCPdfFiles ==
    {<<g, e>> : g \in Generals, e \in {Block("c", Enc("m123", "pdf") @@ x) :
        x \in {<<>>, "pdf_attachment" :> "text", "email_body_replacement" :> "text"}}}

Texts == {Global, "general", "a", "b", "c", "key", "inet", "180", "ftp", "12x", "-2", "text",
          "milter_socket", "signing_key", "smtp_server", "smtp_server_timeout", "milter_timeout",
          "dump_email_on_panic", "match", "encryption_protocol", "key_not_found_policy",
          "pdf_margin", "pdf_font_size", "pdf_attachment", "email_body_replacement", "m1", "m2",
          "m3", "m12", "m23", "m123", "mbad", "blank", "pgp", "smime", "pdf", "none", "rot13",
          "retrieve", "reject", "bounce", "yes"}

MCLower ==
    ("General" :> "general" @@ "A" :> "a" @@ "Milter_Socket" :> "milter_socket" @@ "Match" :> "match"
     @@ "PGP" :> "pgp" @@ "Reject" :> "reject" @@ "YES" :> "yes") @@ [t \in Texts |-> t]

MCNumber == "180" :> 180 @@ "-2" :> -2
MCTokens ==
    "m1" :> <<"1">> @@ "m2" :> <<"2">> @@ "m3" :> <<"3">> @@ "m12" :> <<"1", "2">>
    @@ "m23" :> <<"2", "3">> @@ "m123" :> <<".">> @@ "mbad" :> <<"1", "(">> @@ "blank" :> <<>>
MCRegex == "1" :> {"r1"} @@ "2" :> {"r2"} @@ "3" :> {"r3"} @@ "." :> {"r1", "r2", "r3"}
=============================================================================
