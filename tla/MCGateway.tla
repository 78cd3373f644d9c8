----------------------------- MODULE MCGateway -----------------------------
(* The values TLC gives the constants of Gateway. *)
EXTENDS Gateway, TLC

CONSTANTS m1, m2, r1, r2, r3, s1, s2, c1, c2

\* c1: two recipients share a section. c2: the sections change places, one recipient matches
\* nothing any more, and the policies differ.
MCSettings ==
    c1 :> [section |-> (r1 :> s1 @@ r2 :> s1 @@ r3 :> s2),
           policy |-> (s1 :> "reject" @@ s2 :> "nullopt")]
    @@
    c2 :> [section |-> (r1 :> s2 @@ r2 :> NoSection @@ r3 :> s1),
           policy |-> (s1 :> "discard" @@ s2 :> "reject")]

\* Two mails with a section for each recipient.
MCSmallSettings ==
    c1 :> [section |-> (r1 :> s1 @@ r3 :> s2), policy |-> (s1 :> "discard" @@ s2 :> "reject")]

MCWanted == [m \in Mail |-> Rcpt]
=============================================================================
