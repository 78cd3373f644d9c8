-------------------------- MODULE SmtpClientProofs --------------------------
(***************************************************************************)
(* Theorems about SmtpClient: its type invariant, that uploads are in      *)
(* order and whole, and that it implements SmtpDelivery.                   *)
(***************************************************************************)
EXTENDS SmtpClient, FiniteSetTheorems, SequenceTheorems, TLAPS

\* What libcurl tells the server follows read_callback.
Ended == accepted \subseteq ended /\ \A i \in ended : pos[i] = Size(i)

\* Where each transfer is, in the phases between the first add and the last count.
Working == phase \in {"adding", "waiting", "driving", "counting"}
Transfers ==
    /\ multi \subseteq 1 .. added
    /\ failed \cap multi = {}
    /\ Working => /\ result = NoAnswer
                  /\ \A i \in 1 .. added : i \in multi \cup failed \cup accepted
                  /\ failed_count = Cardinality(failed \ messages)
    /\ Working /\ phase # "counting" => failed \subseteq messages
    /\ Working /\ phase # "adding" => added = NumItems
    /\ phase \in {"adding", "waiting"} => running_handles_ = Cardinality(multi)
    /\ phase = "adding" => multi = 1 .. added /\ messages = {}
    /\ phase = "counting" => multi = {}

IInv == TypeOK /\ UploadInOrder /\ Ended /\ Transfers

USE ItemsAssumption, SizeAssumption, RoomAssumption, TimeoutAssumption

LEMMA SizeIsNat == \A i \in Item : Size(i) \in Nat /\ HeadersSize[i] \in Nat /\ BodySize[i] \in Nat
BY DEF Size, Item

LEMMA ItemFinite == IsFiniteSet(Item) /\ Cardinality(Item) = NumItems
BY FS_Interval DEF Item

\* A set of items is finite and has at most NumItems members.
LEMMA ItemsCount ==
    ASSUME NEW S, S \subseteq Item
    PROVE  IsFiniteSet(S) /\ Cardinality(S) \in 0 .. NumItems
BY ItemFinite, FS_Subset, FS_CardinalityType

\* read_callback never goes past the message, and copies nothing only at its end.
LEMMA CopySizeBounded ==
    ASSUME TypeOK, NEW i \in Item, NEW room \in Room
    PROVE  /\ CopySize(i, room) \in Nat
           /\ pos[i] + CopySize(i, room) <= Size(i)
           /\ pos[i] < HeadersSize[i] => pos[i] + CopySize(i, room) <= HeadersSize[i]
           /\ CopySize(i, room) = 0 => pos[i] = Size(i)
BY SizeIsNat DEF CopySize, TypeOK, TextTypeOK, Size

\* What read_callback copies is what comes next in the message.
LEMMA CopiedIsNext ==
    ASSUME TypeOK, NEW i \in Item, NEW room \in Room
    PROVE  SubSeq(Message(i), 1, pos[i]) \o Copied(i, CopySize(i, room))
             = SubSeq(Message(i), 1, pos[i] + CopySize(i, room))
<1> DEFINE size == CopySize(i, room)
           before == SubSeq(Message(i), 1, pos[i])
           copied == Copied(i, size)
           after == SubSeq(Message(i), 1, pos[i] + size)
<1>1. /\ pos[i] \in Nat /\ size \in Nat /\ Size(i) \in Nat
      /\ HeadersSize[i] \in Nat /\ pos[i] + size <= Size(i)
      /\ pos[i] < HeadersSize[i] => pos[i] + size <= HeadersSize[i]
    BY CopySizeBounded, SizeIsNat DEF TypeOK, TextTypeOK
<1> DEFINE Cells == {"headers", "body"} \X Nat
<1> HIDE DEF size
<1>2. \A k \in 1 .. Size(i) : Message(i)[k] \in Cells
    BY <1>1 DEF Message, Header, Body
<1>3. copied \in Seq(Cells) /\ Len(copied) = size
    BY <1>1 DEF Copied, Header, Body
<1>4. /\ before \in Seq(Cells) /\ Len(before) = pos[i]
      /\ \A k \in 1 .. pos[i] : before[k] = Message(i)[k]
    BY <1>1, <1>2, SubSeqProperties
<1>5. /\ after \in Seq(Cells) /\ Len(after) = pos[i] + size
      /\ \A k \in 1 .. pos[i] + size : after[k] = Message(i)[k]
    BY <1>1, <1>2, SubSeqProperties
<1> HIDE DEF before, after
<1>6. ASSUME NEW k \in 1 .. size
      PROVE  copied[k] = Message(i)[pos[i] + k]
  <2>1. pos[i] + k \in 1 .. Size(i)
      BY <1>1
  <2>2. CASE pos[i] < HeadersSize[i]
    <3>1. pos[i] + k <= HeadersSize[i]
        BY <2>2, <1>1
    <3> QED
        BY <2>1, <2>2, <3>1 DEF Copied, Message
  <2>3. CASE ~(pos[i] < HeadersSize[i])
    <3>1. ~(pos[i] + k <= HeadersSize[i]) /\ pos[i] - HeadersSize[i] + k = pos[i] + k - HeadersSize[i]
        BY <2>3, <1>1
    <3>2. copied[k] = Body(pos[i] - HeadersSize[i] + k)
        BY <2>3 DEF Copied
    <3>3. ASSUME NEW c \in 1 .. Size(i), ~(c <= HeadersSize[i])
          PROVE  Message(i)[c] = Body(c - HeadersSize[i])
        BY <3>3 DEF Message
    <3>4. Message(i)[pos[i] + k] = Body(pos[i] + k - HeadersSize[i])
        BY <1>1, <2>1, <3>1, <3>3
    <3> QED
        BY <3>1, <3>2, <3>4
  <2> QED
      BY <2>2, <2>3
<1> HIDE DEF copied, Cells
<1>7. /\ before \o copied \in Seq(Cells) /\ Len(before \o copied) = pos[i] + size
      /\ \A k \in 1 .. pos[i] + size :
            (before \o copied)[k] = IF k <= pos[i] THEN before[k] ELSE copied[k - pos[i]]
  <2>1. /\ before \o copied \in Seq(Cells)
        /\ Len(before \o copied) = Len(before) + Len(copied)
        /\ \A k \in 1 .. Len(before) + Len(copied) : (before \o copied)[k] =
              IF k <= Len(before) THEN before[k] ELSE copied[k - Len(before)]
      BY <1>3, <1>4, ConcatProperties, Zenon
  <2> QED
      BY <2>1, <1>3, <1>4, Zenon
<1>8. ASSUME NEW k \in 1 .. pos[i] + size
      PROVE  (before \o copied)[k] = after[k]
  <2>1. CASE k <= pos[i]
      BY <2>1, <1>1, <1>4, <1>5, <1>7
  <2>2. CASE ~(k <= pos[i])
    <3>1. k - pos[i] \in 1 .. size /\ pos[i] + (k - pos[i]) = k
        BY <2>2, <1>1
    <3>2. copied[k - pos[i]] = Message(i)[k]
        BY <3>1, <1>6, Zenon
    <3> QED
        BY <2>2, <3>2, <1>5, <1>7, Zenon
  <2> QED
      BY <2>1, <2>2
<1> QED
    BY <1>1, <1>5, <1>7, <1>8, SeqEqual DEF size, before, after, copied

\* The text a transfer has sent is a sequence of cells.
LEMMA SentIsSeq ==
    ASSUME NEW i \in Item, NEW n \in Nat, n <= Size(i)
    PROVE  /\ SubSeq(Message(i), 1, n) \in Seq({"headers", "body"} \X Nat)
           /\ n = Size(i) => SubSeq(Message(i), 1, n) = Message(i)
<1>1. Size(i) \in Nat /\ HeadersSize[i] \in Nat
    BY SizeIsNat
<1>2. Message(i) \in Seq({"headers", "body"} \X Nat) /\ Len(Message(i)) = Size(i)
    BY <1>1 DEF Message, Header, Body
<1>3. \A k \in 1 .. n : Message(i)[k] \in {"headers", "body"} \X Nat
    BY <1>1, <1>2, ElementOfSeq
<1>4. SubSeq(Message(i), 1, n) \in Seq({"headers", "body"} \X Nat)
    BY <1>3, SubSeqProperties
<1> QED
    BY <1>2, <1>4, SubSeqFull

\* The uploads of a step that does not read.
LEMMA SameUploads ==
    ASSUME IInv, UNCHANGED <<pos, sent, ended>>, accepted' \subseteq ended
    PROVE  UploadInOrder' /\ Ended'
BY DEF IInv, UploadInOrder, Ended

LEMMA InitIInv == Init => IInv
<1> SUFFICES ASSUME Init PROVE IInv
    OBVIOUS
<1>1. Cardinality({}) = 0 /\ 1 .. 0 = {} /\ {} \ {} = {}
    BY FS_EmptySet
<1>2. \A i \in Item : /\ SubSeq(Message(i), 1, 0) = <<>>
                       /\ <<>> \in Seq({"headers", "body"} \X Nat)
    BY SubSeqEmpty
<1>3. TypeOK
    BY <1>2, SizeIsNat DEF Init, TypeOK, TextTypeOK
<1>4. UploadInOrder /\ Ended
    BY <1>2 DEF Init, UploadInOrder, Ended
<1>5. Transfers
    BY <1>1 DEF Init, Transfers, Working
<1> QED
    BY <1>3, <1>4, <1>5 DEF IInv

LEMMA SameTexts == TextTypeOK /\ UNCHANGED <<pos, sent>> => TextTypeOK'
BY DEF TextTypeOK

\* One more handle.
LEMMA OneMore ==
    ASSUME NEW n \in Nat
    PROVE  Cardinality(1 .. n) = n /\ Cardinality(1 .. n + 1) = n + 1
           /\ (1 .. n) \cup {n + 1} = 1 .. n + 1
<1>1. Cardinality(1 .. n) = n
    BY FS_Interval, 1 \in Int, n \in Int
<1>2. n + 1 \in Int /\ 1 <= n + 1 /\ (n + 1) - 1 + 1 = n + 1
    OBVIOUS
<1>3. Cardinality(1 .. n + 1) = n + 1
    BY <1>2, FS_Interval
<1> QED
    BY <1>1, <1>3

LEMMA AddIInv == IInv /\ add => IInv'
<1> SUFFICES ASSUME IInv, add PROVE IInv'
    OBVIOUS
<1> USE DEF add
<1>1. added + 1 \in Item /\ added \in Nat
    BY DEF IInv, TypeOK, Item
<1>2. limited \subseteq limited' /\ limited' \subseteq Item
    BY <1>1 DEF SetTimeout, IInv, TypeOK
<1>3. UploadInOrder' /\ Ended'
    BY SameUploads DEF serverVars, IInv, Ended
<1>4. CASE Throws
  <2>1. multi' = multi /\ running_handles_' = running_handles_ /\ phase' = "over" /\ result' = Exception
      BY <1>4 DEF Throws, Stays, IInv, TypeOK
  <2>2. TextTypeOK'
      BY SameTexts DEF IInv, TypeOK, serverVars
  <2>3. TypeOK'
      BY <1>1, <1>2, <2>1, <2>2 DEF IInv, TypeOK, serverVars, Item, Exception
  <2>4. Transfers'
      BY <1>1, <2>1 DEF IInv, Transfers, TypeOK, Working
  <2> QED
      BY <1>3, <2>3, <2>4 DEF IInv
<1>5. CASE Stays
  <2>1. multi = 1 .. added /\ messages = {} /\ running_handles_ = added
      BY <1>1, OneMore DEF IInv, Transfers
  <2>2. Cardinality(1 .. added + 1) = added + 1 /\ (1 .. added) \cup {added + 1} = 1 .. added + 1
      BY <1>1, OneMore
  <2>3. multi' = multi \cup {added + 1} /\ running_handles_' = running_handles_ + 1
      BY <1>5 DEF Throws, Stays
  <2>4. TypeOK'
      BY <1>1, <1>2, <1>5, <2>1, <2>3, SameTexts DEF IInv, TypeOK, serverVars, Stays, Item
  <2>5. failed = {}
      BY <1>1, <2>1 DEF IInv, Transfers, Working
  <2>6. Transfers'
      BY <1>1, <1>5, <2>1, <2>2, <2>3, <2>5 DEF IInv, Transfers, Working, Stays, serverVars
  <2> QED
      BY <1>3, <2>4, <2>6 DEF IInv
<1> QED
    BY <1>4, <1>5

LEMMA ReadIInv ==
    ASSUME IInv, NEW i \in Item, NEW room \in Room, read_callback(i, room)
    PROVE  IInv'
<1> DEFINE size == CopySize(i, room)
<1>1. /\ size \in Nat /\ pos[i] + size <= Size(i) /\ Size(i) \in Nat /\ pos[i] \in Nat
      /\ size = 0 => pos[i] = Size(i)
    BY CopySizeBounded, SizeIsNat DEF IInv, TypeOK, TextTypeOK
<1>2. SubSeq(Message(i), 1, pos[i]) \o Copied(i, size) = SubSeq(Message(i), 1, pos[i] + size)
    BY CopiedIsNext DEF IInv
<1>3. /\ pos' = [pos EXCEPT ![i] = pos[i] + size]
      /\ sent' = [sent EXCEPT ![i] = sent[i] \o Copied(i, size)]
      /\ ended' = IF size = 0 THEN ended \cup {i} ELSE ended
      /\ UNCHANGED <<accepted, clientVars, curlVars, expired, phase, result>>
      /\ i \notin ended
    BY DEF read_callback, Stays
<1> HIDE DEF size
<1>4. UploadInOrder'
  <2> SUFFICES ASSUME NEW j \in Item PROVE sent'[j] = SubSeq(Message(j), 1, pos'[j])
      BY DEF UploadInOrder
  <2> QED
      BY <1>2, <1>3 DEF IInv, TypeOK, TextTypeOK, UploadInOrder
<1>5. Ended'
    BY <1>1, <1>3 DEF IInv, TypeOK, TextTypeOK, Ended
<1>6. TypeOK'
  <2>1. pos' \in [Item -> Nat] /\ \A j \in Item : pos'[j] <= Size(j)
      BY <1>1, <1>3 DEF IInv, TypeOK, TextTypeOK
  <2>2. \A j \in Item : sent'[j] \in Seq({"headers", "body"} \X Nat)
      BY <1>4, <2>1, SentIsSeq DEF UploadInOrder
  <2>3. TextTypeOK'
      BY <1>3, <2>1, <2>2 DEF IInv, TypeOK, TextTypeOK
  <2> QED
      BY <1>3, <2>3 DEF IInv, TypeOK, clientVars, curlVars
<1>7. Transfers'
    BY <1>3 DEF IInv, Transfers, Working, clientVars, curlVars
<1> QED
    BY <1>4, <1>5, <1>6, <1>7 DEF IInv

\* A round of the loop, up to curl_multi_perform.
LEMMA WaitIInv == IInv /\ (EnterPerform \/ Wait) => IInv'
<1> SUFFICES ASSUME IInv, EnterPerform \/ Wait PROVE IInv'
    OBVIOUS
<1> USE DEF EnterPerform, Wait, Goes, Throws, serverVars, clientVars, curlVars
<1>1. UploadInOrder' /\ Ended'
    BY SameUploads DEF IInv, Ended
<1>2. TypeOK'
    BY SameTexts DEF IInv, TypeOK, Exception
<1>3. Transfers'
    BY DEF IInv, TypeOK, Transfers, Working
<1> QED
    BY <1>1, <1>2, <1>3 DEF IInv

\* What the server and the clock do.
LEMMA OutsideIInv ==
    ASSUME IInv, NEW i \in Item, ServerAccepts(i) \/ Expire(i)
    PROVE  IInv'
<1> USE DEF ServerAccepts, Expire, Stays, serverVars, clientVars, curlVars
<1>1. UploadInOrder' /\ Ended'
    BY SameUploads DEF IInv, TypeOK, Ended
<1>2. TypeOK'
    BY SameTexts DEF IInv, TypeOK
<1>3. Transfers'
    BY DEF IInv, TypeOK, Transfers, Working
<1> QED
    BY <1>1, <1>2, <1>3 DEF IInv

LEMMA TransferEndsIInv ==
    ASSUME IInv, NEW i \in Item, NEW withError \in BOOLEAN, TransferEnds(i, withError)
    PROVE  IInv'
<1> USE DEF TransferEnds, Stays, serverVars, clientVars
<1>1. UploadInOrder' /\ Ended'
    BY SameUploads DEF IInv, Ended
<1>2. TypeOK'
    BY SameTexts DEF IInv, TypeOK
<1>3. failed' \subseteq messages' /\ failed' \ messages' = failed \ messages
    BY DEF IInv, Transfers, Working
<1>4. \A k \in 1 .. added : k \in multi' \cup failed' \cup accepted'
    BY DEF IInv, Transfers, Working
<1>5. Transfers'
    BY <1>3, <1>4 DEF IInv, Transfers, Working
<1> QED
    BY <1>1, <1>2, <1>5 DEF IInv

LEMMA PerformIInv == IInv /\ (curl_multi_perform \/ LoopEnds) => IInv'
<1> SUFFICES ASSUME IInv, curl_multi_perform \/ LoopEnds PROVE IInv'
    OBVIOUS
<1> USE DEF curl_multi_perform, LoopEnds, Goes, Throws, serverVars, clientVars, curlVars
<1>1. UploadInOrder' /\ Ended'
    BY SameUploads DEF IInv, Ended
<1>2. IsFiniteSet(multi) /\ Cardinality(multi) \in 0 .. NumItems
    BY ItemsCount DEF IInv, TypeOK
<1>3. TypeOK'
    BY <1>2, SameTexts DEF IInv, TypeOK, Exception
<1>4. CASE curl_multi_perform
    BY <1>1, <1>3, <1>4 DEF IInv, Transfers, Working
<1>5. CASE LoopEnds
  <2>1. multi = {}
      BY <1>2, <1>5, FS_EmptySet DEF IInv, Transfers
  <2> QED
      BY <1>1, <1>3, <1>5, <2>1 DEF IInv, Transfers, Working
<1> QED
    BY <1>4, <1>5

LEMMA InfoReadIInv ==
    ASSUME IInv, NEW i \in Item, curl_multi_info_read(i)
    PROVE  IInv'
<1> USE DEF curl_multi_info_read, Stays, serverVars
<1>1. UploadInOrder' /\ Ended'
    BY SameUploads DEF IInv, Ended
<1>2. IsFiniteSet(failed \ messages) /\ i \notin failed \ messages
    BY ItemsCount DEF IInv, TypeOK
<1>3. failed' \ messages' = IF i \in failed THEN (failed \ messages) \cup {i} ELSE failed \ messages
    BY DEF IInv, TypeOK
<1>4. Cardinality(failed' \ messages')
        = IF i \in failed THEN Cardinality(failed \ messages) + 1 ELSE Cardinality(failed \ messages)
  <2>1. CASE i \in failed
      BY <2>1, <1>2, <1>3, FS_AddElement
  <2>2. CASE i \notin failed
      BY <2>2, <1>3
  <2> QED
      BY <2>1, <2>2
<1>5. failed_count' = Cardinality(failed' \ messages')
    BY <1>4 DEF IInv, Transfers, Working, CountFailed
<1>6. failed_count' \in 0 .. NumItems
    BY <1>5, ItemsCount DEF IInv, TypeOK
<1>7. TypeOK'
    BY <1>6, SameTexts DEF IInv, TypeOK
<1>8. Transfers'
    BY <1>5 DEF IInv, Transfers, Working
<1> QED
    BY <1>1, <1>7, <1>8 DEF IInv

LEMMA EndIInv == IInv /\ (Return \/ Destroy) => IInv'
<1> SUFFICES ASSUME IInv, Return \/ Destroy PROVE IInv'
    OBVIOUS
<1> USE DEF Return, Destroy, Goes, Removed, serverVars, clientVars, curlVars
<1>1. UploadInOrder' /\ Ended'
    BY SameUploads DEF IInv, Ended
<1>2. TypeOK'
    BY SameTexts DEF IInv, TypeOK
<1>3. Transfers'
    BY DEF IInv, Transfers, Working
<1> QED
    BY <1>1, <1>2, <1>3 DEF IInv

LEMMA NextIInv == IInv /\ [Next]_vars => IInv'
<1> SUFFICES ASSUME IInv, [Next]_vars PROVE IInv'
    OBVIOUS
<1>1. CASE Client
    BY <1>1, AddIInv, WaitIInv, PerformIInv, InfoReadIInv, EndIInv DEF Client
<1>2. CASE Drive
    BY <1>2, ReadIInv, TransferEndsIInv, PerformIInv DEF Drive
<1>3. CASE \E i \in Item : ServerAccepts(i) \/ Expire(i)
    BY <1>3, OutsideIInv
<1>4. CASE Gone \/ UNCHANGED vars
  <2> USE DEF Gone, vars, serverVars, clientVars, curlVars
  <2>1. UploadInOrder' /\ Ended' /\ TextTypeOK'
      BY <1>4, SameUploads, SameTexts DEF IInv, Ended, TypeOK
  <2> QED
      BY <1>4, <2>1 DEF IInv, TypeOK, Transfers, Working
<1> QED
    BY <1>1, <1>2, <1>3, <1>4 DEF Next

THEOREM Inductive == Spec => []IInv
BY InitIInv, NextIInv, PTL DEF Spec

\* Type correctness, for any items, sizes, buffers and time limit.
THEOREM TypeCorrect == Spec => []TypeOK
<1>1. IInv => TypeOK
    BY DEF IInv
<1> QED
    BY <1>1, Inductive, PTL

\* read_callback hands out headers and body, each cell once and in order.
THEOREM InOrder == Spec => []UploadInOrder
<1>1. IInv => UploadInOrder
    BY DEF IInv
<1> QED
    BY <1>1, Inductive, PTL

\* An accepted copy is whole.
LEMMA IInvWhole == IInv => AcceptedWhole
<1> SUFFICES ASSUME IInv, NEW i \in accepted PROVE sent[i] = Message(i)
    BY DEF AcceptedWhole
<1>1. i \in Item /\ pos[i] = Size(i) /\ sent[i] = SubSeq(Message(i), 1, pos[i]) /\ pos[i] \in Nat
    BY DEF IInv, Ended, UploadInOrder, TypeOK, TextTypeOK
<1> QED
    BY <1>1, SentIsSeq

\* What a server accepts is a whole message, whatever failed.
THEOREM Whole == Spec => []AcceptedWhole
BY Inductive, IInvWhole, PTL

-----------------------------------------------------------------------------
\* The refinement: a step of the client is one of SmtpDelivery's, or leaves delivered and result.
LEMMA RefineStep ==
    ASSUME IInv, IInv', [Next]_vars
    PROVE  [Delivery!DeliveryNext]_(Delivery!deliveryVars)
<1> DEFINE delivered == {i \in accepted : sent[i] = Message(i)}
<1>1. delivered = accepted /\ delivered' = accepted'
  <2>1. (IInv => AcceptedWhole)'
      BY IInvWhole, PTL
  <2> QED
      BY <2>1, IInvWhole DEF AcceptedWhole
<1> HIDE DEF delivered
<1>2. CASE UNCHANGED <<accepted, result>>
    BY <1>1, <1>2 DEF Delivery!deliveryVars, delivered
<1>3. CASE Throws /\ UNCHANGED accepted /\ Working
  <2>1. result = NoAnswer
      BY <1>3 DEF IInv, Transfers
  <2> QED
      BY <1>1, <1>3, <2>1
      DEF Throws, Delivery!DeliveryNext, Delivery!Throw, Delivery!NoAnswer, Delivery!Exception,
          NoAnswer, Exception, delivered
<1>4. CASE Return
  <2>1. Item \ accepted \subseteq failed /\ failed \ messages = failed /\ result = NoAnswer
        /\ result' = Cardinality(failed)
      BY <1>4 DEF Return, IInv, Transfers, Working, Item, clientVars
  <2>2. Cardinality(Item \ accepted) <= Cardinality(failed) /\ Cardinality(failed) \in 0 .. NumItems
      BY <2>1, ItemsCount, FS_Subset DEF IInv, TypeOK
  <2>3. Cardinality(Item \ delivered) <= result' /\ result' \in 0 .. NumItems /\ UNCHANGED delivered
      BY <1>1, <1>4, <2>1, <2>2 DEF Return, serverVars
  <2>4. \E n \in 0 .. NumItems : result' = n /\ Delivery!Cardinality(Delivery!Item \ delivered) <= n
      BY <2>3, Zenon DEF Delivery!Item, Item, Delivery!Cardinality, Cardinality
  <2>5. result = Delivery!NoAnswer
      BY <2>1 DEF NoAnswer, Delivery!NoAnswer
  <2>6. Delivery!Answer
      BY <2>3, <2>4, <2>5, Zenon DEF Delivery!Answer, delivered
  <2> QED
      BY <2>6 DEF Delivery!DeliveryNext
<1>5. ASSUME NEW i \in Item, ServerAccepts(i)
      PROVE  Delivery!DeliveryNext
  <2>1. Delivery!Deliver
      BY <1>1, <1>5 DEF ServerAccepts, Stays, Delivery!Deliver, Delivery!Item, Item, delivered
  <2> QED
      BY <2>1 DEF Delivery!DeliveryNext
<1>6. \/ UNCHANGED <<accepted, result>>
      \/ Throws /\ UNCHANGED accepted /\ Working
      \/ Return
      \/ \E i \in Item : ServerAccepts(i)
    BY DEF Next, vars, Client, Drive, Gone, add, EnterPerform, Wait, LoopEnds, Return, Destroy,
           curl_multi_info_read, curl_multi_perform, read_callback, TransferEnds, Expire,
           Goes, Stays, Working, serverVars, clientVars, curlVars
<1> QED
    BY <1>2, <1>3, <1>4, <1>5, <1>6

\* perform implements what on_eom relies on: the number it returns bounds the copies that did not
\* arrive whole.
THEOREM Implements == Spec => DeliveryImplemented
<1>1. Init => Delivery!DeliveryInit
    BY DEF Init, Delivery!DeliveryInit, Delivery!NoAnswer, NoAnswer
<1> QED
    BY <1>1, Inductive, RefineStep, PTL DEF Spec, DeliveryImplemented, Delivery!DeliverySpec
=============================================================================
