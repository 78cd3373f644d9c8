---------------------------- MODULE SmtpDelivery ----------------------------
(***************************************************************************)
(* What milter_message::on_eom relies on when it re-injects copies: the    *)
(* number client_multi::perform returns counts at least the copies that    *)
(* the server does not have, so 0 means that it has all of them, each with *)
(* its whole text. Nothing is promised the other way: a copy counted as    *)
(* failed may have arrived, or arrive later, and after an exception any    *)
(* part of the copies may.                                                 *)
(***************************************************************************)
EXTENDS Integers, FiniteSets

CONSTANT NumItems       \* the number of copies, a positive number

Item == 1 .. NumItems
NoAnswer == -1
Exception == -2

VARIABLES
    delivered,          \* copies whose whole text the server accepted
    result              \* NoAnswer, Exception, or the number of failed copies

deliveryVars == <<delivered, result>>

DeliveryInit == delivered = {} /\ result = NoAnswer

Deliver ==
    /\ \E i \in Item \ delivered : delivered' = delivered \cup {i}
    /\ UNCHANGED result

Answer ==
    /\ result = NoAnswer
    /\ \E n \in 0 .. NumItems : result' = n /\ Cardinality(Item \ delivered) <= n
    /\ UNCHANGED delivered

Throw ==
    /\ result = NoAnswer
    /\ result' = Exception
    /\ UNCHANGED delivered

DeliveryNext == Deliver \/ Answer \/ Throw

DeliverySpec == DeliveryInit /\ [][DeliveryNext]_deliveryVars
=============================================================================
