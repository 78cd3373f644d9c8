------------------------ MODULE MCMilterConnection ------------------------
(* The values TLC gives the constants of MilterConnection. *)
EXTENDS MilterConnection, TLC

CONSTANTS r1, r2, r3, r4, s1, s2, s3, c1, c2

\* c1: three sections; s1 and s2 both match r2 and the file order decides for s1.
\* c2: s2 now comes first and takes r2, r1 matches nothing, and the policies differ.
MCSettings ==
    c1 :> [sections |-> <<s1, s2, s3>>,
           matches |-> (s1 :> {r1, r2} @@ s2 :> {r2, r3} @@ s3 :> {r4}),
           protocol |-> (s1 :> "pgp" @@ s2 :> "smime" @@ s3 :> "none"),
           policy |-> (s1 :> "retrieve" @@ s2 :> "reject" @@ s3 :> "nullopt"),
           dump_email_on_panic |-> TRUE]
    @@
    c2 :> [sections |-> <<s2, s1>>,
           matches |-> (s1 :> {r2, r3} @@ s2 :> {r2} @@ s3 :> {}),
           protocol |-> (s1 :> "pgp" @@ s2 :> "pdf" @@ s3 :> "none"),
           policy |-> (s1 :> "discard" @@ s2 :> "nullopt" @@ s3 :> "nullopt"),
           dump_email_on_panic |-> FALSE]

\* Two recipients and two sections, for the runs in which dump_email may fail.
MCSmallSettings ==
    c1 :> [sections |-> <<s1, s2>>,
           matches |-> (s1 :> {r1} @@ s2 :> {r2}),
           protocol |-> (s1 :> "pgp" @@ s2 :> "smime"),
           policy |-> (s1 :> "discard" @@ s2 :> "reject"),
           dump_email_on_panic |-> TRUE]
    @@
    c2 :> [sections |-> <<s1>>,
           matches |-> (s1 :> {r1, r2} @@ s2 :> {}),
           protocol |-> (s1 :> "pgp" @@ s2 :> "none"),
           policy |-> (s1 :> "retrieve" @@ s2 :> "nullopt"),
           dump_email_on_panic |-> FALSE]
=============================================================================
