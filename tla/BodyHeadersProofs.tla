------------------------- MODULE BodyHeadersProofs -------------------------
(***************************************************************************)
(* Theorems about the headers of a mail: the properties of BodyHeaders for *)
(* mails with any number of headers, any names and any strip_headers.      *)
(*                                                                         *)
(* The invariant HeadInv ties headers_ to the mail as it came: the first   *)
(* items are those the handler was given (all but a re-injected mail's     *)
(* signature), in order, each as it was or marked, and only what the       *)
(* handler added follows. What leaves (mail), signatures left out, is what *)
(* set_message would write of the items handled so far, and the rest of    *)
(* what was given.                                                         *)
(***************************************************************************)
EXTENDS BodyHeaders, SequenceTheorems, WellFoundedInduction, TLAPS

\* The headers of the mail that the handler is given: all but the signature of a re-injected mail.
Given == Those(original, Unsigned)

\* The handler is given no two Content-* headers of one name, and none of them is in strip_headers.
NoContentTwice ==
    \A j, k \in DOMAIN Given :
        IsContent(Given[j].name) /\ iequals(Given[j].name, Given[k].name) => j = k
NoContentStripped == \A k \in DOMAIN StripHeaders : ~IsContent(StripHeaders[k])

(* Induction over 0 .. m and over texts, and what Those takes out of a text. *)

Below == {p \in Nat \X Nat : p[1] < p[2]}

LEMMA BelowWellFounded == IsWellFoundedOn(Below, Nat)
<1>1. ~ \E f \in [Nat -> Nat] : \A n \in Nat : f[n + 1] < f[n]
  BY NatLessThanWellFounded DEF IsWellFoundedOn, OpToRel
<1>. QED
  BY <1>1 DEF Below, IsWellFoundedOn

LEMMA MinIsLeast ==
    ASSUME NEW S \in SUBSET Nat, S # {}
    PROVE  Min(S) \in S /\ \A y \in S : Min(S) <= y
<1>1. PICK x \in S : \A y \in S : <<y, x>> \notin Below
  BY WFMin, BelowWellFounded
<1>2. \A y \in S : ~ (y < x)
  BY <1>1 DEF Below
<1>3. \A y \in S : x <= y
  BY <1>2
<1>. QED
  BY <1>3 DEF Min

LEMMA UpTo ==
    ASSUME NEW m \in Nat, NEW T, 0 \in T, \A n \in 0 .. m - 1 : n \in T => n + 1 \in T
    PROVE  \A n \in 0 .. m : n \in T
<1>. DEFINE B == (0 .. m) \ T
<1>. SUFFICES ASSUME B # {} PROVE FALSE
  OBVIOUS
<1>1. Min(B) \in B /\ \A y \in B : Min(B) <= y
  BY MinIsLeast
<1>. DEFINE x == Min(B)
<1>2. x \in 0 .. m /\ x # 0 /\ x - 1 \notin B
  BY <1>1
<1>. HIDE DEF x
<1>. QED
  BY <1>1, <1>2

\* f holds what is left of each prefix of s.
IsSome(f, s, S, m) ==
    f = [n \in 0 .. m |->
            IF n = 0 THEN <<>> ELSE IF s[n] \in S THEN Append(f[n - 1], s[n]) ELSE f[n - 1]]

LEMMA SomeExists ==
    ASSUME NEW A, NEW s \in Seq(A), NEW S
    PROVE  \E f : IsSome(f, s, S, Len(s))
<1>. DEFINE T == {m \in 0 .. Len(s) : \E f : IsSome(f, s, S, m)}
<1>1. 0 \in T
  <2>. DEFINE f == [n \in 0 .. 0 |-> <<>>]
  <2>1. IsSome(f, s, S, 0)
    BY DEF IsSome
  <2>. QED
    BY <2>1
<1>2. ASSUME NEW m \in 0 .. Len(s) - 1, m \in T
      PROVE  m + 1 \in T
  <2>1. PICK f : IsSome(f, s, S, m)
    BY <1>2
  <2>. DEFINE g == [n \in 0 .. m + 1 |-> IF n <= m THEN f[n] ELSE IF s[n] \in S THEN Append(f[m], s[n]) ELSE f[m]]
  <2>2. ASSUME NEW n \in 0 .. m + 1
        PROVE  g[n] = IF n = 0 THEN <<>> ELSE IF s[n] \in S THEN Append(g[n - 1], s[n]) ELSE g[n - 1]
    <3>1. CASE n = 0
      BY <2>1, <3>1 DEF IsSome
    <3>2. CASE n \in 1 .. m
      <4>1. n - 1 \in 0 .. m /\ n \in 0 .. m
        BY <3>2
      <4>2. g[n - 1] = f[n - 1] /\ g[n] = f[n]
        BY <3>2, <4>1
      <4>3. f[n] = IF n = 0 THEN <<>> ELSE IF s[n] \in S THEN Append(f[n - 1], s[n]) ELSE f[n - 1]
        BY <2>1, <4>1 DEF IsSome
      <4>. QED
        BY <4>2, <4>3
    <3>3. CASE n = m + 1
      <4>1. g[n - 1] = f[m] /\ n # 0 /\ ~ (n <= m)
        BY <3>3
      <4>. QED
        BY <3>3, <4>1
    <3>. QED
      BY <3>1, <3>2, <3>3
  <2>3. IsSome(g, s, S, m + 1)
    BY <2>2 DEF IsSome
  <2>. QED
    BY <2>3
<1>3. \A n \in 0 .. Len(s) : n \in T
  <2>. HIDE DEF T
  <2>1. \A n \in 0 .. Len(s) - 1 : n \in T => n + 1 \in T
    BY <1>2
  <2>2. Len(s) \in Nat
    OBVIOUS
  <2>. QED BY <1>1, <2>1, <2>2, UpTo
<1>. QED BY <1>3

LEMMA SomeIs ==
    ASSUME NEW A, NEW s \in Seq(A), NEW S
    PROVE  \E f : IsSome(f, s, S, Len(s)) /\ Those(s, S) = f[Len(s)]
<1>1. \E f : IsSome(f, s, S, Len(s))
  BY SomeExists
<1>. QED
  BY <1>1 DEF Those, IsSome

LEMMA SomeStep ==
    ASSUME NEW f, NEW s, NEW S, NEW m \in Nat, IsSome(f, s, S, m)
    PROVE  /\ f[0] = <<>>
           /\ \A n \in 0 .. m - 1 : f[n + 1] = IF s[n + 1] \in S THEN Append(f[n], s[n + 1]) ELSE f[n]
<1>1. f[0] = <<>>
  BY DEF IsSome
<1>2. ASSUME NEW n \in 0 .. m - 1
      PROVE  f[n + 1] = IF s[n + 1] \in S THEN Append(f[n], s[n + 1]) ELSE f[n]
  <2>1. n + 1 \in 0 .. m /\ n + 1 # 0 /\ (n + 1) - 1 = n
    OBVIOUS
  <2>. QED
    BY <2>1 DEF IsSome
<1>. QED
  BY <1>1, <1>2

\* Texts that begin alike.
LEMMA SomeAgree ==
    ASSUME NEW s, NEW t, Len(s) \in Nat, Len(t) \in Nat, NEW S, NEW f, NEW g, NEW m \in Nat, m <= Len(s), m <= Len(t),
           IsSome(f, s, S, Len(s)), IsSome(g, t, S, Len(t)), \A i \in 1 .. m : s[i] = t[i]
    PROVE  f[m] = g[m]
<1>. DEFINE T == {n \in 0 .. m : f[n] = g[n]}
<1>1. 0 \in T
  <2>1. f[0] = <<>> /\ g[0] = <<>>
    BY SomeStep
  <2>. QED
    BY <2>1
<1>2. ASSUME NEW n \in 0 .. m - 1, n \in T
      PROVE  n + 1 \in T
  <2>1. n \in 0 .. Len(s) - 1 /\ n \in 0 .. Len(t) - 1 /\ n + 1 \in 1 .. m /\ Len(s) \in Nat /\ Len(t) \in Nat
    OBVIOUS
  <2>2. f[n + 1] = IF s[n + 1] \in S THEN Append(f[n], s[n + 1]) ELSE f[n]
    BY <2>1, SomeStep
  <2>3. g[n + 1] = IF t[n + 1] \in S THEN Append(g[n], t[n + 1]) ELSE g[n]
    BY <2>1, SomeStep
  <2>. QED
    BY <1>2, <2>1, <2>2, <2>3
<1>3. \A n \in 0 .. m : n \in T
  <2>. HIDE DEF T
  <2>1. \A n \in 0 .. m - 1 : n \in T => n + 1 \in T
    BY <1>2
  <2>. QED
    BY <1>1, <2>1, UpTo
<1>. QED
  BY <1>3

LEMMA ThoseEmpty == ASSUME NEW S PROVE Those(<<>>, S) = <<>>
<1>. DEFINE e == <<>>
<1>1. e \in Seq({}) /\ Len(e) = 0
  OBVIOUS
<1>. HIDE DEF e
<1>2. PICK f : IsSome(f, e, S, Len(e)) /\ Those(e, S) = f[Len(e)]
  BY <1>1, SomeIs
<1>3. f[0] = <<>>
  BY <1>1, <1>2, SomeStep
<1>. QED
  BY <1>1, <1>2, <1>3 DEF e

LEMMA ThoseAppend ==
    ASSUME NEW A, NEW s \in Seq(A), NEW c \in A, NEW S
    PROVE  Those(Append(s, c), S) = IF c \in S THEN Append(Those(s, S), c) ELSE Those(s, S)
<1>. DEFINE t == Append(s, c)
            m == Len(s)
<1>1. t \in Seq(A) /\ Len(t) = m + 1 /\ t[m + 1] = c /\ \A i \in 1 .. m : s[i] = t[i]
  OBVIOUS
<1>2. m \in Nat /\ m <= Len(s)
  OBVIOUS
<1>3. PICK f : IsSome(f, s, S, Len(s)) /\ Those(s, S) = f[m]
  BY SomeIs
<1>. HIDE DEF t
<1>4. PICK g : IsSome(g, t, S, Len(t)) /\ Those(t, S) = g[Len(t)]
  BY <1>1, SomeIs
<1>5. m <= Len(t) /\ Len(t) \in Nat /\ m \in 0 .. Len(t) - 1
  <2>. HIDE DEF m
  <2>. QED
    BY <1>1, <1>2
<1>6. f[m] = g[m]
  <2>1. Len(s) \in Nat
    OBVIOUS
  <2>2. IsSome(f, s, S, Len(s)) /\ IsSome(g, t, S, Len(t))
    BY <1>3, <1>4
  <2>3. Len(t) \in Nat /\ m \in Nat /\ m <= Len(s) /\ m <= Len(t) /\ \A i \in 1 .. m : s[i] = t[i]
    BY <1>1, <1>2, <1>5
  <2>. HIDE DEF m
  <2>. QED
    BY ONLY <2>1, <2>2, <2>3, SomeAgree
<1>7. g[m + 1] = IF t[m + 1] \in S THEN Append(g[m], t[m + 1]) ELSE g[m]
  <2>. HIDE DEF m
  <2>. QED
    BY <1>4, <1>5, SomeStep
<1>8. Those(t, S) = IF c \in S THEN Append(Those(s, S), c) ELSE Those(s, S)
  <2>. HIDE DEF m
  <2>. QED
    BY <1>1, <1>3, <1>4, <1>6, <1>7
<1>. QED
  BY <1>8 DEF t

\* Induction over texts: a set with the empty one, closed under a character more, holds them all.
LEMMA EveryText ==
    ASSUME NEW A, NEW T, <<>> \in T, \A u \in Seq(A) : u \in T => \A c \in A : Append(u, c) \in T
    PROVE  Seq(A) \subseteq T
<1>. SUFFICES ASSUME NEW t \in Seq(A) PROVE t \in T
  OBVIOUS
<1>. DEFINE G == {n \in 0 .. Len(t) : SubSeq(t, 1, n) \in T}
<1>1. 0 \in G
  <2>1. SubSeq(t, 1, 0) = <<>> /\ 0 \in 0 .. Len(t)
    OBVIOUS
  <2>. QED
    BY <2>1
<1>2. ASSUME NEW n \in 0 .. Len(t) - 1, n \in G
      PROVE  n + 1 \in G
  <2>1. /\ SubSeq(t, 1, n) \in Seq(A) /\ t[n + 1] \in A /\ n + 1 \in 0 .. Len(t)
        /\ SubSeq(t, 1, n + 1) = Append(SubSeq(t, 1, n), t[n + 1])
    OBVIOUS
  <2>. QED
    BY <1>2, <2>1
<1>3. Len(t) \in Nat /\ Len(t) \in 0 .. Len(t) /\ SubSeq(t, 1, Len(t)) = t
  OBVIOUS
<1>4. \A n \in 0 .. Len(t) : n \in G
  <2>. HIDE DEF G
  <2>1. \A n \in 0 .. Len(t) - 1 : n \in G => n + 1 \in G
    BY <1>2
  <2>. QED
    BY <1>1, <1>3, <2>1, UpTo
<1>. QED
  BY <1>3, <1>4

\* What is taken is in the set and in the text.
LEMMA ThoseType ==
    ASSUME NEW A, NEW S, NEW t \in Seq(A)
    PROVE  Those(t, S) \in Seq(A \cap S) /\ Those(t, S) \in Seq(A)
<1>. DEFINE T == {u \in Seq(A) : Those(u, S) \in Seq(A \cap S)}
<1>1. <<>> \in T
  <2>1. Those(<<>>, S) = <<>> /\ <<>> \in Seq(A) /\ <<>> \in Seq(A \cap S)
    BY ThoseEmpty
  <2>. QED
    BY <2>1
<1>2. ASSUME NEW u \in Seq(A), u \in T, NEW c \in A
      PROVE  Append(u, c) \in T
  <2>1. Those(Append(u, c), S) = IF c \in S THEN Append(Those(u, S), c) ELSE Those(u, S)
    BY ThoseAppend
  <2>2. Those(u, S) \in Seq(A \cap S)
    BY <1>2
  <2>3. Those(Append(u, c), S) \in Seq(A \cap S)
    <3>1. CASE c \in S
      BY <2>1, <2>2, <3>1
    <3>2. CASE c \notin S
      BY <2>1, <2>2, <3>2
    <3>. QED
      BY <3>1, <3>2
  <2>4. Append(u, c) \in Seq(A)
    OBVIOUS
  <2>. QED
    BY <2>3, <2>4
<1>3. Seq(A) \subseteq T
  <2>. HIDE DEF T
  <2>1. \A u \in Seq(A) : u \in T => \A c \in A : Append(u, c) \in T
    BY <1>2
  <2>. QED
    BY <1>1, <2>1, EveryText
<1>4. Those(t, S) \in Seq(A \cap S)
  BY <1>3
<1>5. \A u \in Seq(A \cap S) : u \in Seq(A)
  OBVIOUS
<1>. QED
  BY <1>4, <1>5

\* Nothing is taken where nothing is in the set.
LEMMA NoneTaken ==
    ASSUME NEW A, NEW S, NEW t \in Seq(A), \A k \in DOMAIN t : t[k] \notin S
    PROVE  Those(t, S) = <<>>
<1>. DEFINE B == A \ S
<1>1. t \in Seq(B)
  OBVIOUS
<1>2. Those(t, S) \in Seq(B \cap S)
  BY <1>1, ThoseType
<1>3. B \cap S = {}
  OBVIOUS
<1>4. Those(t, S) \in Seq({})
  BY <1>2, <1>3, Zenon
<1>. QED
  BY <1>4

\* Texts one after the other.
LEMMA ThoseConcat ==
    ASSUME NEW A, NEW S, NEW s \in Seq(A), NEW t \in Seq(A)
    PROVE  Those(s \o t, S) = Those(s, S) \o Those(t, S)
<1>. DEFINE T == {u \in Seq(A) : Those(s \o u, S) = Those(s, S) \o Those(u, S)}
<1>1. <<>> \in T
  <2>1. Those(s, S) \in Seq(A)
    BY ThoseType
  <2>2. Those(s, S) \o <<>> = Those(s, S) /\ s \o <<>> = s
    BY <2>1
  <2>3. Those(<<>>, S) = <<>>
    BY ThoseEmpty
  <2>4. <<>> \in Seq(A)
    OBVIOUS
  <2>5. Those(s \o <<>>, S) = Those(s, S) \o Those(<<>>, S)
    BY <2>2, <2>3
  <2>. QED
    BY <2>4, <2>5
<1>2. ASSUME NEW u \in Seq(A), u \in T, NEW c \in A
      PROVE  Append(u, c) \in T
  <2>1. Those(Append(u, c), S) = IF c \in S THEN Append(Those(u, S), c) ELSE Those(u, S)
    BY ThoseAppend
  <2>2. s \o Append(u, c) = Append(s \o u, c) /\ s \o u \in Seq(A)
    OBVIOUS
  <2>3. Those(s \o Append(u, c), S) = IF c \in S THEN Append(Those(s \o u, S), c) ELSE Those(s \o u, S)
    <3>. DEFINE v == s \o u
    <3>. HIDE DEF v
    <3>1. Those(Append(v, c), S) = IF c \in S THEN Append(Those(v, S), c) ELSE Those(v, S)
      BY <2>2, ThoseAppend DEF v
    <3>. QED
      BY <2>2, <3>1 DEF v
  <2>4. Those(s, S) \in Seq(A) /\ Those(u, S) \in Seq(A)
    BY ThoseType
  <2>5. Those(s, S) \o Append(Those(u, S), c) = Append(Those(s, S) \o Those(u, S), c)
    BY <2>4
  <2>6. Those(s \o u, S) = Those(s, S) \o Those(u, S)
    BY <1>2
  <2>7. Those(s \o Append(u, c), S) = Those(s, S) \o Those(Append(u, c), S)
    BY <2>1, <2>3, <2>5, <2>6
  <2>8. Append(u, c) \in Seq(A)
    OBVIOUS
  <2>. QED
    BY <2>7, <2>8
<1>3. Seq(A) \subseteq T
  <2>. HIDE DEF T
  <2>1. \A u \in Seq(A) : u \in T => \A c \in A : Append(u, c) \in T
    BY <1>2
  <2>. QED
    BY <1>1, <2>1, EveryText
<1>. QED
  BY <1>3

\* What is taken in two turns is taken in one, if the first turn leaves nothing of the second behind.
LEMMA ThoseThose ==
    ASSUME NEW A, NEW R, NEW S \in SUBSET R, NEW s \in Seq(A)
    PROVE  Those(Those(s, R), S) = Those(s, S)
<1>. DEFINE T == {u \in Seq(A) : Those(Those(u, R), S) = Those(u, S)}
<1>1. <<>> \in T
  <2>1. Those(<<>>, R) = <<>> /\ Those(<<>>, S) = <<>>
    BY ThoseEmpty
  <2>2. <<>> \in Seq(A)
    OBVIOUS
  <2>. QED
    BY <2>1, <2>2
<1>2. ASSUME NEW u \in Seq(A), u \in T, NEW c \in A
      PROVE  Append(u, c) \in T
  <2>. DEFINE t == Those(u, R)
  <2>1. Those(Append(u, c), R) = IF c \in R THEN Append(t, c) ELSE t
    BY ThoseAppend
  <2>2. Those(Append(u, c), S) = IF c \in S THEN Append(Those(u, S), c) ELSE Those(u, S)
    BY ThoseAppend
  <2>3. t \in Seq(A)
    BY ThoseType
  <2>4. Those(t, S) = Those(u, S)
    BY <1>2
  <2>. HIDE DEF t
  <2>5. Those(Append(t, c), S) = IF c \in S THEN Append(Those(t, S), c) ELSE Those(t, S)
    BY <2>3, ThoseAppend
  <2>6. Those(Those(Append(u, c), R), S) = Those(Append(u, c), S)
    BY <2>1, <2>2, <2>4, <2>5
  <2>7. Append(u, c) \in Seq(A)
    OBVIOUS
  <2>. QED
    BY <2>6, <2>7
<1>3. Seq(A) \subseteq T
  <2>. HIDE DEF T
  <2>1. \A u \in Seq(A) : u \in T => \A c \in A : Append(u, c) \in T
    BY <1>2
  <2>. QED
    BY <1>1, <2>1, EveryText
<1>. QED
  BY <1>3

-----------------------------------------------------------------------------
(* One element of a text. *)

\* A text is what comes before an element, the element, and what comes after it.
LEMMA Parts ==
    ASSUME NEW A, NEW s \in Seq(A), NEW p \in 1 .. Len(s)
    PROVE  /\ SubSeq(s, 1, p - 1) \in Seq(A) /\ SubSeq(s, p + 1, Len(s)) \in Seq(A)
           /\ s = Append(SubSeq(s, 1, p - 1), s[p]) \o SubSeq(s, p + 1, Len(s))
<1>1. SubSeq(s, 1, p - 1) \in Seq(A) /\ SubSeq(s, p + 1, Len(s)) \in Seq(A)
  OBVIOUS
<1>2. s = Append(SubSeq(s, 1, p - 1), s[p]) \o SubSeq(s, p + 1, Len(s))
  <2>1. Append(SubSeq(s, 1, p - 1), s[p]) = SubSeq(s, 1, p)
    OBVIOUS
  <2>3. SubSeq(s, 1, p) \o SubSeq(s, p + 1, Len(s)) = SubSeq(s, 1, Len(s))
    BY ConcatAdjacentSubSeq
  <2>4. SubSeq(s, 1, Len(s)) = s
    BY SubSeqFull
  <2>. QED
    BY <2>1, <2>3, <2>4
<1>. QED
  BY <1>1, <1>2

LEMMA ThoseParts ==
    ASSUME NEW A, NEW S, NEW u \in Seq(A), NEW x \in A, NEW v \in Seq(A)
    PROVE  Those(Append(u, x) \o v, S)
             = IF x \in S THEN Append(Those(u, S), x) \o Those(v, S) ELSE Those(u, S) \o Those(v, S)
<1>1. Append(u, x) \in Seq(A)
  OBVIOUS
<1>2. Those(Append(u, x) \o v, S) = Those(Append(u, x), S) \o Those(v, S)
  BY <1>1, ThoseConcat
<1>3. Those(Append(u, x), S) = IF x \in S THEN Append(Those(u, S), x) ELSE Those(u, S)
  BY ThoseAppend
<1>. QED
  BY <1>2, <1>3

\* An element that is not in the set may go, or give way to another one that is not.
LEMMA OtherGone ==
    ASSUME NEW A, NEW S, NEW s \in Seq(A), NEW p \in 1 .. Len(s), s[p] \notin S
    PROVE  RemoveAt(s, p) \in Seq(A) /\ Those(RemoveAt(s, p), S) = Those(s, S)
<1>. DEFINE u == SubSeq(s, 1, p - 1)
            v == SubSeq(s, p + 1, Len(s))
<1>1. u \in Seq(A) /\ v \in Seq(A) /\ s = Append(u, s[p]) \o v /\ s[p] \in A
  <2>1. s[p] \in A
    OBVIOUS
  <2>2. u \in Seq(A) /\ v \in Seq(A)
    OBVIOUS
  <2>3. s = Append(u, s[p]) \o v
    BY Parts
  <2>. QED
    BY <2>1, <2>2, <2>3
<1>2. RemoveAt(s, p) = u \o v
  BY DEF RemoveAt
<1>. HIDE DEF u, v
<1>3. Those(u \o v, S) = Those(u, S) \o Those(v, S)
  BY <1>1, ThoseConcat
<1>4. Those(Append(u, s[p]) \o v, S) = Those(u, S) \o Those(v, S)
  BY <1>1, ThoseParts
<1>5. u \o v \in Seq(A)
  BY <1>1
<1>. QED
  BY <1>1, <1>2, <1>3, <1>4, <1>5

LEMMA OtherChanged ==
    ASSUME NEW A, NEW S, NEW s \in Seq(A), NEW p \in 1 .. Len(s), s[p] \notin S,
           NEW x \in A, x \notin S
    PROVE  [s EXCEPT ![p] = x] \in Seq(A) /\ Those([s EXCEPT ![p] = x], S) = Those(s, S)
<1>. DEFINE t == [s EXCEPT ![p] = x]
            u == SubSeq(s, 1, p - 1)
            v == SubSeq(s, p + 1, Len(s))
<1>1. u \in Seq(A) /\ v \in Seq(A) /\ s = Append(u, s[p]) \o v /\ s[p] \in A
  <2>1. s[p] \in A
    OBVIOUS
  <2>2. u \in Seq(A) /\ v \in Seq(A)
    OBVIOUS
  <2>3. s = Append(u, s[p]) \o v
    BY Parts
  <2>. QED
    BY <2>1, <2>2, <2>3
<1>2. t \in Seq(A) /\ Len(t) = Len(s) /\ t[p] = x
  OBVIOUS
<1>3. SubSeq(t, 1, p - 1) = u /\ SubSeq(t, p + 1, Len(t)) = v
  BY <1>2
<1>4. t = Append(u, x) \o v
  <2>. HIDE DEF u, v, t
  <2>1. t = Append(SubSeq(t, 1, p - 1), t[p]) \o SubSeq(t, p + 1, Len(t))
    BY <1>2, Parts
  <2>. QED
    BY <1>2, <1>3, <2>1
<1>. HIDE DEF u, v, t
<1>5. Those(Append(u, s[p]) \o v, S) = Those(u, S) \o Those(v, S)
  <2>. DEFINE y == s[p]
  <2>1. y \in A /\ y \notin S
    BY <1>1
  <2>. HIDE DEF y
  <2>2. Those(Append(u, y) \o v, S) = Those(u, S) \o Those(v, S)
    BY <1>1, <2>1, ThoseParts
  <2>. QED
    BY <2>2 DEF y
<1>6. Those(Append(u, x) \o v, S) = Those(u, S) \o Those(v, S)
  BY <1>1, ThoseParts
<1>. QED
  BY <1>1, <1>2, <1>4, <1>5, <1>6 DEF t

LEMMA OneTaken ==
    ASSUME NEW A, NEW S, NEW s \in Seq(A), NEW p \in 1 .. Len(s), s[p] \in S,
           \A k \in 1 .. Len(s) : s[k] \in S => k = p
    PROVE  Those(s, S) = <<s[p]>>
<1>. DEFINE u == SubSeq(s, 1, p - 1)
            v == SubSeq(s, p + 1, Len(s))
<1>1. u \in Seq(A) /\ v \in Seq(A) /\ s = Append(u, s[p]) \o v /\ s[p] \in A
  <2>1. s[p] \in A
    OBVIOUS
  <2>2. u \in Seq(A) /\ v \in Seq(A)
    OBVIOUS
  <2>3. s = Append(u, s[p]) \o v
    BY Parts
  <2>. QED
    BY <2>1, <2>2, <2>3
<1>2. \A k \in DOMAIN u : u[k] \notin S
  <2>1. ASSUME NEW k \in DOMAIN u PROVE u[k] \notin S
    <3>1. k \in 1 .. p - 1 /\ u[k] = s[k]
      OBVIOUS
    <3>. QED
      BY <3>1
  <2>. QED
    BY <2>1
<1>3. \A k \in DOMAIN v : v[k] \notin S
  <2>1. ASSUME NEW k \in DOMAIN v PROVE v[k] \notin S
    <3>1. k \in 1 .. Len(s) - p /\ v[k] = s[k + p]
      OBVIOUS
    <3>. QED
      BY <3>1
  <2>. QED
    BY <2>1
<1>. HIDE DEF u, v
<1>4. Those(u, S) = <<>> /\ Those(v, S) = <<>>
  BY <1>1, <1>2, <1>3, NoneTaken
<1>5. Those(Append(u, s[p]) \o v, S) = Append(Those(u, S), s[p]) \o Those(v, S)
  BY <1>1, ThoseParts
<1>6. Append(<<>>, s[p]) \o <<>> = <<s[p]>>
  OBVIOUS
<1>. QED
  BY <1>1, <1>4, <1>5, <1>6

-----------------------------------------------------------------------------
(* smfi_chgheader. *)

LEMMA OccurrencesAre ==
    ASSUME NEW A, NEW list \in Seq(A), NEW name
    PROVE  Occurrences(list, name) \in Seq({k \in 1 .. Len(list) : iequals(list[k].name, name)})
<1>. DEFINE P == {k \in DOMAIN list : iequals(list[k].name, name)}
            ks == [k \in DOMAIN list |-> k]
<1>1. ks \in Seq(DOMAIN list)
  OBVIOUS
<1>2. Those(ks, P) \in Seq(DOMAIN list \cap P)
  <2>. HIDE DEF ks, P
  <2>. QED
    BY <1>1, ThoseType
<1>3. DOMAIN list \cap P = P /\ P = {k \in 1 .. Len(list) : iequals(list[k].name, name)}
  OBVIOUS
<1>4. Occurrences(list, name) = Those(ks, P)
  BY DEF Occurrences
<1>. HIDE DEF ks, P
<1>. QED
  BY <1>2, <1>3, <1>4

\* What is set or deleted under a name leaves all headers of other names as they are.
LEMMA ChangeKeeps ==
    ASSUME NEW list \in Seq(Header), NEW name \in Name, NEW index \in Nat \ {0}, NEW value \in Value,
           NEW S, \A h \in Header : iequals(h.name, name) => h \notin S
    PROVE  /\ smfi_chgheader(list, name, index, value) \in Seq(Header)
           /\ Those(smfi_chgheader(list, name, index, value), S) = Those(list, S)
<1>. DEFINE found == Occurrences(list, name)
            h == [name |-> name, value |-> value]
            changed == smfi_chgheader(list, name, index, value)
<1>1. h \in Header /\ h \notin S
  BY DEF Header, iequals
<1>2. CASE index <= Len(found)
  <2>1. found \in Seq({k \in 1 .. Len(list) : iequals(list[k].name, name)})
    BY OccurrencesAre
  <2>2. found[index] \in {k \in 1 .. Len(list) : iequals(list[k].name, name)}
    <3>. HIDE DEF found
    <3>. QED
      BY <1>2, <2>1
  <2>. DEFINE k == found[index]
  <2>3. k \in 1 .. Len(list) /\ list[k] \notin S
    <3>. HIDE DEF found
    <3>. QED
      BY <2>2
  <2>4. changed = IF value = Empty THEN RemoveAt(list, k) ELSE [list EXCEPT ![k] = h]
    BY <1>2 DEF smfi_chgheader
  <2>. HIDE DEF found, k, h, changed
  <2>5. RemoveAt(list, k) \in Seq(Header) /\ Those(RemoveAt(list, k), S) = Those(list, S)
    BY <2>3, OtherGone
  <2>6. [list EXCEPT ![k] = h] \in Seq(Header) /\ Those([list EXCEPT ![k] = h], S) = Those(list, S)
    BY <1>1, <2>3, OtherChanged
  <2>. QED
    BY <2>4, <2>5, <2>6 DEF changed
<1>3. CASE ~ (index <= Len(found))
  <2>1. changed = IF value = Empty THEN list ELSE Append(list, h)
    BY <1>3 DEF smfi_chgheader
  <2>. HIDE DEF found, h, changed
  <2>2. Append(list, h) \in Seq(Header) /\ Those(Append(list, h), S) = Those(list, S)
    BY <1>1, ThoseAppend
  <2>. QED
    BY <2>1, <2>2 DEF changed
<1>. QED
  BY <1>2, <1>3

\* A name that no header has: nothing is deleted, a header that is set comes last.
LEMMA ChangeNone ==
    ASSUME NEW list \in Seq(Header), NEW name \in Name, NEW value,
           \A k \in 1 .. Len(list) : ~iequals(list[k].name, name)
    PROVE  smfi_chgheader(list, name, 1, value)
             = IF value = Empty THEN list ELSE Append(list, [name |-> name, value |-> value])
<1>. DEFINE found == Occurrences(list, name)
<1>1. found \in Seq({k \in 1 .. Len(list) : iequals(list[k].name, name)})
  BY OccurrencesAre
<1>2. {k \in 1 .. Len(list) : iequals(list[k].name, name)} = {}
  OBVIOUS
<1>3. Len(found) = 0
  <2>. HIDE DEF found
  <2>. QED
    BY <1>1, <1>2
<1>4. ~ (1 <= Len(found))
  <2>. HIDE DEF found
  <2>. QED
    BY <1>3
<1>. QED
  BY <1>4 DEF smfi_chgheader

NoneOf(list, name) == \A k \in 1 .. Len(list) : ~iequals(list[k].name, name)

\* A name that one header has: it is taken out, or gives way to what is set.
LEMMA ChangeOne ==
    ASSUME NEW u \in Seq(Header), NEW x \in Header, NEW v \in Seq(Header), NEW name \in Name, NEW value,
           iequals(x.name, name), NoneOf(u, name), NoneOf(v, name)
    PROVE  smfi_chgheader(Append(u, x) \o v, name, 1, value)
             = IF value = Empty THEN u \o v
               ELSE Append(u, [name |-> name, value |-> value]) \o v
<1>. USE DEF NoneOf
<1>. DEFINE list == Append(u, x) \o v
            p == Len(u) + 1
            P == {k \in DOMAIN list : iequals(list[k].name, name)}
            ks == [k \in DOMAIN list |-> k]
            h == [name |-> name, value |-> value]
<1>1. /\ list \in Seq(Header) /\ Len(list) = Len(u) + 1 + Len(v)
      /\ \A k \in 1 .. Len(u) : list[k] = u[k]
      /\ list[p] = x
      /\ \A k \in 1 .. Len(v) : list[k + p] = v[k]
  OBVIOUS
<1>2. p \in 1 .. Len(list) /\ p \in P
  BY <1>1
<1>3. ASSUME NEW k \in 1 .. Len(list), k \in P PROVE k = p
  <2>1. k \in 1 .. Len(u) \/ k = p \/ k - p \in 1 .. Len(v)
    BY <1>1
  <2>2. CASE k - p \in 1 .. Len(v)
    <3>1. list[(k - p) + p] = v[k - p] /\ (k - p) + p = k
      BY <1>1, <2>2
    <3>. QED
      BY <1>3, <2>2, <3>1
  <2>. QED
    BY <1>1, <1>3, <2>1, <2>2
<1>4. ks \in Seq(1 .. Len(list)) /\ Len(ks) = Len(list) /\ \A k \in 1 .. Len(list) : ks[k] = k
  <2>1. DOMAIN list = 1 .. Len(list) /\ Len(list) \in Nat
    BY <1>1
  <2>. HIDE DEF list
  <2>. QED
    BY <2>1
<1>5. Those(ks, P) = <<p>>
  <2>. HIDE DEF list, ks, P, p
  <2>1. p \in 1 .. Len(ks) /\ ks[p] \in P /\ ks[p] = p
    BY <1>2, <1>4
  <2>2. \A k \in 1 .. Len(ks) : ks[k] \in P => k = p
    BY <1>3, <1>4
  <2>. QED
    BY <1>4, <2>1, <2>2, OneTaken
<1>6. Occurrences(list, name) = <<p>>
  BY <1>5 DEF Occurrences
<1>7. smfi_chgheader(list, name, 1, value) = IF value = Empty THEN RemoveAt(list, p) ELSE [list EXCEPT ![p] = h]
  <2>. HIDE DEF list, p
  <2>1. Len(<<p>>) = 1 /\ <<p>>[1] = p /\ 1 <= 1
    OBVIOUS
  <2>. QED
    BY <1>6, <2>1 DEF smfi_chgheader
<1>8. RemoveAt(list, p) = u \o v
  <2>1. SubSeq(list, 1, p - 1) = u
    OBVIOUS
  <2>2. SubSeq(list, p + 1, Len(list)) = v
    OBVIOUS
  <2>. QED
    BY <2>1, <2>2 DEF RemoveAt
<1>9. [list EXCEPT ![p] = h] = Append(u, h) \o v
  <2>. DEFINE l == [list EXCEPT ![p] = h]
              m == Append(u, h) \o v
  <2>1. h \in [name : Name, value : {value}]
    OBVIOUS
  <2>. HIDE DEF h
  <2>2. l \in Seq(Header \cup {h}) /\ m \in Seq(Header \cup {h}) /\ Len(l) = Len(list) /\ Len(m) = Len(list)
    OBVIOUS
  <2>3. ASSUME NEW k \in 1 .. Len(list) PROVE l[k] = m[k]
    <3>1. /\ \A i \in 1 .. Len(u) : m[i] = u[i]
          /\ m[p] = h
          /\ \A i \in 1 .. Len(v) : m[i + p] = v[i]
      OBVIOUS
    <3>2. l[k] = IF k = p THEN h ELSE list[k]
      <4>. HIDE DEF list, p
      <4>. QED
        BY <1>1
    <3>3. k \in 1 .. Len(u) \/ k = p \/ k - p \in 1 .. Len(v)
      BY <1>1
    <3>4. CASE k - p \in 1 .. Len(v)
      <4>1. (k - p) + p = k /\ k # p
        BY <3>4
      <4>2. list[(k - p) + p] = v[k - p] /\ m[(k - p) + p] = v[k - p]
        BY <1>1, <3>1, <3>4
      <4>. QED
        BY <3>2, <4>1, <4>2
    <3>5. CASE k \in 1 .. Len(u)
      BY <1>1, <3>1, <3>2, <3>5
    <3>. QED
      BY <3>1, <3>2, <3>3, <3>4, <3>5
  <2>. HIDE DEF l, m
  <2>4. l = m
    BY <2>2, <2>3
  <2>. QED
    BY <2>4 DEF l, m
<1>. QED
  BY <1>7, <1>8, <1>9

\* An element of the set that is in a text is in what is taken out of it.
LEMMA TakenStays ==
    ASSUME NEW A, NEW S, NEW s \in Seq(A), NEW p \in 1 .. Len(s), s[p] \in S
    PROVE  \E k \in 1 .. Len(Those(s, S)) : Those(s, S)[k] = s[p]
<1>. DEFINE u == SubSeq(s, 1, p - 1)
            v == SubSeq(s, p + 1, Len(s))
            tu == Those(u, S)
            tv == Those(v, S)
<1>1. u \in Seq(A) /\ v \in Seq(A) /\ s[p] \in A
  OBVIOUS
<1>2. s = Append(u, s[p]) \o v
  BY Parts
<1>. DEFINE x == s[p]
<1>. HIDE DEF u, v, x
<1>3. Those(Append(u, x) \o v, S) = Append(tu, x) \o tv
  BY <1>1, ThoseParts DEF x
<1>4. tu \in Seq(A) /\ tv \in Seq(A) /\ x \in A
  BY <1>1, ThoseType DEF x
<1>. HIDE DEF tu, tv
<1>5. Len(tu) + 1 \in 1 .. Len(Append(tu, x) \o tv) /\ (Append(tu, x) \o tv)[Len(tu) + 1] = x
  BY <1>4
<1>. QED
  BY <1>2, <1>3, <1>5 DEF x

\* What smfi_chgheader does to the one header of a name, it does to the headers of a set that holds
\* all headers of the name.
LEMMA ChangeTaken ==
    ASSUME NEW list \in Seq(Header), NEW name \in Name, NEW value \in Value, NEW S,
           \A h \in Header : iequals(h.name, name) => h \in S,
           \A j, k \in 1 .. Len(Those(list, S)) :
               iequals(Those(list, S)[j].name, name) /\ iequals(Those(list, S)[k].name, name) => j = k
    PROVE  Those(smfi_chgheader(list, name, 1, value), S) = smfi_chgheader(Those(list, S), name, 1, value)
<1>. DEFINE h == [name |-> name, value |-> value]
            taken == Those(list, S)
<1>1. h \in Header /\ h \in S
  BY DEF Header, iequals
<1>2. taken \in Seq(Header)
  BY ThoseType
<1>3. CASE \A k \in 1 .. Len(list) : ~iequals(list[k].name, name)
  <2>. DEFINE B == {g \in Header : ~iequals(g.name, name)}
  <2>1. list \in Seq(B)
    BY <1>3
  <2>2. taken \in Seq(B)
    <3>. HIDE DEF B
    <3>. QED
      BY <2>1, ThoseType
  <2>. HIDE DEF taken, h
  <2>3. \A k \in 1 .. Len(taken) : ~iequals(taken[k].name, name)
    BY <2>2
  <2>4. smfi_chgheader(list, name, 1, value) = IF value = Empty THEN list ELSE Append(list, h)
    BY <1>3, ChangeNone DEF h
  <2>5. smfi_chgheader(taken, name, 1, value) = IF value = Empty THEN taken ELSE Append(taken, h)
    BY <1>2, <2>3, ChangeNone DEF h
  <2>6. Those(Append(list, h), S) = Append(Those(list, S), h)
    BY <1>1, ThoseAppend
  <2>. QED
    BY <2>4, <2>5, <2>6 DEF taken
<1>4. ASSUME NEW p \in 1 .. Len(list), iequals(list[p].name, name)
      PROVE  Those(smfi_chgheader(list, name, 1, value), S) = smfi_chgheader(taken, name, 1, value)
  <2>. DEFINE u == SubSeq(list, 1, p - 1)
              v == SubSeq(list, p + 1, Len(list))
              x == list[p]
              tu == Those(u, S)
              tv == Those(v, S)
  <2>1. u \in Seq(Header) /\ v \in Seq(Header) /\ x \in Header
    OBVIOUS
  <2>2. list = Append(u, x) \o v
    BY Parts
  <2>3. x \in S /\ iequals(x.name, name)
    BY <1>4, <2>1
  <2>. HIDE DEF u, v, x
  <2>4. taken = Append(tu, x) \o tv
    BY <2>1, <2>2, <2>3, ThoseParts
  <2>5. tu \in Seq(Header) /\ tv \in Seq(Header)
    BY <2>1, ThoseType
  <2>6. \A j, k \in 1 .. Len(taken) : iequals(taken[j].name, name) /\ iequals(taken[k].name, name) => j = k
    OBVIOUS
  <2>. HIDE DEF taken, tu, tv, h
  <2>7. /\ Len(taken) = Len(tu) + 1 + Len(tv) /\ taken[Len(tu) + 1] = x
        /\ \A k \in 1 .. Len(tu) : taken[k] = tu[k]
        /\ \A k \in 1 .. Len(tv) : taken[k + (Len(tu) + 1)] = tv[k]
    BY <2>1, <2>4, <2>5
  <2>8. Len(tu) + 1 \in 1 .. Len(taken) /\ iequals(taken[Len(tu) + 1].name, name)
    BY <2>3, <2>5, <2>7
  <2>9. ASSUME NEW k \in 1 .. Len(tu) PROVE ~iequals(tu[k].name, name)
    <3>1. k \in 1 .. Len(taken) /\ k # Len(tu) + 1 /\ taken[k] = tu[k]
      BY <2>5, <2>7
    <3>. QED
      BY <2>6, <2>8, <3>1
  <2>10. ASSUME NEW k \in 1 .. Len(tv) PROVE ~iequals(tv[k].name, name)
    <3>. DEFINE q == k + (Len(tu) + 1)
    <3>1. q \in 1 .. Len(taken) /\ q # Len(tu) + 1 /\ taken[q] = tv[k]
      BY <2>5, <2>7
    <3>. HIDE DEF q
    <3>. QED
      BY <2>6, <2>8, <3>1
  <2>11. ASSUME NEW k \in 1 .. Len(u) PROVE ~iequals(u[k].name, name)
    <3>. SUFFICES ASSUME iequals(u[k].name, name) PROVE FALSE
      OBVIOUS
    <3>1. u[k] \in Header /\ u[k] \in S
      BY <2>1
    <3>2. \E j \in 1 .. Len(tu) : tu[j] = u[k]
      BY <2>1, <3>1, TakenStays DEF tu
    <3>. QED
      BY <2>9, <3>2
  <2>12. ASSUME NEW k \in 1 .. Len(v) PROVE ~iequals(v[k].name, name)
    <3>. SUFFICES ASSUME iequals(v[k].name, name) PROVE FALSE
      OBVIOUS
    <3>1. v[k] \in Header /\ v[k] \in S
      BY <2>1
    <3>2. \E j \in 1 .. Len(tv) : tv[j] = v[k]
      BY <2>1, <3>1, TakenStays DEF tv
    <3>. QED
      BY <2>10, <3>2
  <2>13. smfi_chgheader(Append(u, x) \o v, name, 1, value)
           = IF value = Empty THEN u \o v ELSE Append(u, h) \o v
    <3>1. NoneOf(u, name) /\ NoneOf(v, name)
      BY <2>11, <2>12 DEF NoneOf
    <3>2. h = [name |-> name, value |-> value]
      BY DEF h
    <3>3. smfi_chgheader(Append(u, x) \o v, name, 1, value)
            = IF value = Empty THEN u \o v ELSE Append(u, [name |-> name, value |-> value]) \o v
      BY <2>1, <2>3, <3>1, ChangeOne, SMTT(60)
    <3>. QED
      BY <3>2, <3>3
  <2>14. smfi_chgheader(Append(tu, x) \o tv, name, 1, value)
           = IF value = Empty THEN tu \o tv ELSE Append(tu, h) \o tv
    <3>1. NoneOf(tu, name) /\ NoneOf(tv, name)
      BY <2>9, <2>10 DEF NoneOf
    <3>2. h = [name |-> name, value |-> value]
      BY DEF h
    <3>3. smfi_chgheader(Append(tu, x) \o tv, name, 1, value)
            = IF value = Empty THEN tu \o tv ELSE Append(tu, [name |-> name, value |-> value]) \o tv
      BY <2>1, <2>3, <2>5, <3>1, ChangeOne, SMTT(60)
    <3>. QED
      BY <3>2, <3>3
  <2>15. Those(u \o v, S) = tu \o tv
    BY <2>1, ThoseConcat DEF tu, tv
  <2>16. Those(Append(u, h) \o v, S) = Append(tu, h) \o tv
    BY <1>1, <2>1, ThoseParts DEF tu, tv
  <2>. QED
    BY <2>2, <2>4, <2>13, <2>14, <2>15, <2>16
<1>. QED
  BY <1>3, <1>4

-----------------------------------------------------------------------------
(* Plain and Written. *)

Shown(x) == [name |-> x.name, value |-> x.value]

LEMMA PlainIs ==
    ASSUME NEW B \in SUBSET Item, NEW s \in Seq(B)
    PROVE  /\ Plain(s) \in Seq({Shown(x) : x \in B}) /\ Plain(s) \in Seq(Header)
           /\ Len(Plain(s)) = Len(s) /\ \A k \in 1 .. Len(s) : Plain(s)[k] = Shown(s[k])
<1>. DEFINE ps == Plain(s)
            m == Len(s)
<1>1. m \in Nat /\ DOMAIN s = 1 .. m /\ \A k \in 1 .. m : s[k] \in B
  OBVIOUS
<1>2. ps = [k \in 1 .. m |-> Shown(s[k])]
  BY <1>1 DEF Plain, Shown
<1>3. \A k \in 1 .. m : Shown(s[k]) \in {Shown(x) : x \in B} /\ Shown(s[k]) \in Header
  BY <1>1 DEF Shown, Item, Header
<1>. HIDE DEF ps, m
<1>4. ps \in Seq({Shown(x) : x \in B}) /\ ps \in Seq(Header) /\ Len(ps) = m /\ \A k \in 1 .. m : ps[k] = Shown(s[k])
  BY <1>1, <1>2, <1>3
<1>. QED
  BY <1>4 DEF ps, m

LEMMA PlainAppend ==
    ASSUME NEW s \in Seq(Item), NEW x \in Item
    PROVE  Plain(Append(s, x)) = Append(Plain(s), Shown(x))
<1>. DEFINE t == Append(s, x)
            l == Plain(t)
            q == Plain(s)
            r == Append(q, Shown(x))
<1>1. t \in Seq(Item) /\ Len(t) = Len(s) + 1 /\ t[Len(s) + 1] = x /\ \A k \in 1 .. Len(s) : t[k] = s[k]
  OBVIOUS
<1>2. Shown(x) \in Header
  BY DEF Shown, Item, Header
<1>. HIDE DEF t
<1>3. l \in Seq(Header) /\ Len(l) = Len(t) /\ \A k \in 1 .. Len(t) : l[k] = Shown(t[k])
  BY <1>1, PlainIs
<1>4. q \in Seq(Header) /\ Len(q) = Len(s) /\ \A k \in 1 .. Len(s) : q[k] = Shown(s[k])
  BY PlainIs
<1>. HIDE DEF l, q
<1>5. r \in Seq(Header) /\ Len(r) = Len(s) + 1 /\ r[Len(s) + 1] = Shown(x) /\ \A k \in 1 .. Len(s) : r[k] = q[k]
  BY <1>2, <1>4
<1>. HIDE DEF r
<1>6. \A k \in 1 .. Len(s) + 1 : l[k] = r[k]
  BY <1>1, <1>3, <1>4, <1>5
<1>7. l = r
  BY <1>1, <1>3, <1>5, <1>6
<1>. QED
  BY <1>7 DEF l, r, t, q

\* What is written are the items that are not deleted, without position and mark.
LEMMA WrittenType ==
    ASSUME NEW B \in SUBSET Item, NEW s \in Seq(B)
    PROVE  Written(s) \in Seq({Shown(x) : x \in B \ Deleted}) /\ Written(s) \in Seq(Header)
<1>. DEFINE q == Those(s, Item \ Deleted)
<1>1. q \in Seq(B \cap (Item \ Deleted))
  BY ThoseType
<1>2. B \cap (Item \ Deleted) = B \ Deleted /\ B \ Deleted \in SUBSET Item
  OBVIOUS
<1>3. q \in Seq(B \ Deleted)
  BY <1>1, <1>2, Zenon
<1>. HIDE DEF q
<1>4. Plain(q) \in Seq({Shown(x) : x \in B \ Deleted}) /\ Plain(q) \in Seq(Header)
  BY <1>2, <1>3, PlainIs
<1>. QED
  BY <1>4 DEF Written, q

LEMMA WrittenEmpty == Written(<<>>) = <<>>
<1>1. Those(<<>>, Item \ Deleted) = <<>>
  BY ThoseEmpty
<1>2. Plain(<<>>) = <<>>
  BY DEF Plain
<1>. QED
  BY <1>1, <1>2 DEF Written

LEMMA WrittenAppend ==
    ASSUME NEW s \in Seq(Item), NEW x \in Item
    PROVE  Written(Append(s, x)) = IF x \in Deleted THEN Written(s) ELSE Append(Written(s), Shown(x))
<1>. DEFINE q == Those(s, Item \ Deleted)
<1>1. Those(Append(s, x), Item \ Deleted) = IF x \in Deleted THEN q ELSE Append(q, x)
  BY ThoseAppend
<1>2. q \in Seq(Item)
  BY ThoseType
<1>. HIDE DEF q
<1>3. Plain(Append(q, x)) = Append(Plain(q), Shown(x))
  BY <1>2, PlainAppend
<1>4. Written(s) = Plain(q)
  BY DEF Written, q
<1>. QED
  BY <1>1, <1>3, <1>4 DEF Written

LEMMA WrittenConcat ==
    ASSUME NEW s \in Seq(Item), NEW t \in Seq(Item)
    PROVE  Written(s \o t) = Written(s) \o Written(t)
<1>. DEFINE T == {u \in Seq(Item) : Written(s \o u) = Written(s) \o Written(u)}
<1>1. <<>> \in T
  <2>1. Written(s) \in Seq(Header)
    BY WrittenType
  <2>2. Written(s) \o <<>> = Written(s) /\ s \o <<>> = s /\ <<>> \in Seq(Item)
    BY <2>1
  <2>. QED
    BY <2>2, WrittenEmpty
<1>2. ASSUME NEW u \in Seq(Item), u \in T, NEW x \in Item
      PROVE  Append(u, x) \in T
  <2>1. Written(Append(u, x)) = IF x \in Deleted THEN Written(u) ELSE Append(Written(u), Shown(x))
    BY WrittenAppend
  <2>. DEFINE v == s \o u
  <2>2. s \o Append(u, x) = Append(v, x) /\ v \in Seq(Item) /\ Append(u, x) \in Seq(Item)
    OBVIOUS
  <2>3. Written(v) = Written(s) \o Written(u)
    BY <1>2
  <2>. HIDE DEF v
  <2>4. Written(Append(v, x)) = IF x \in Deleted THEN Written(v) ELSE Append(Written(v), Shown(x))
    BY <2>2, WrittenAppend
  <2>5. Written(s) \in Seq(Header) /\ Written(u) \in Seq(Header) /\ Shown(x) \in Header
    BY WrittenType DEF Shown, Item, Header
  <2>6. Written(s) \o Append(Written(u), Shown(x)) = Append(Written(s) \o Written(u), Shown(x))
    BY <2>5
  <2>. QED
    BY <2>1, <2>2, <2>3, <2>4, <2>6
<1>3. Seq(Item) \subseteq T
  <2>. HIDE DEF T
  <2>1. \A u \in Seq(Item) : u \in T => \A x \in Item : Append(u, x) \in T
    BY <1>2
  <2>. QED
    BY <1>1, <2>1, EveryText
<1>. QED
  BY <1>3

-----------------------------------------------------------------------------
(* The invariant. *)

Total == Len(Given)
Set(name) == [name |-> name, value |-> NewValue]
Own ==
    IF handler = "smime"
    THEN <<Set("Content-Type"), Set("Content-Transfer-Encoding"), Set("Content-Disposition"),
           Set("Content-Description")>>
    ELSE <<Set("Content-Type")>>

\* The mail and the types of what is made of it.
OldHeader == [name : Name, value : OldValue]
Typed ==
    /\ TypeOK
    /\ original \in Seq(OldHeader)

\* add_header, header by header.
Collecting ==
    phase = "headers" =>
        /\ next <= Len(original) + 1
        /\ Plain(headers_) = Those(SubSeq(original, 1, next - 1), Unsigned)
        /\ \A k \in DOMAIN headers_ : ~headers_[k].modified
        /\ \A m \in Name : header_pos_[m] > 0 => \E j \in DOMAIN headers_ : headers_[j].name = m

\* The items of the original.
HandedIn(items) ==
    \A k \in DOMAIN items : k <= Total =>
        /\ iequals(items[k].name, Given[k].name)
        /\ ~items[k].modified =>
              items[k].name = Given[k].name /\ items[k].value = Given[k].value
        /\ items[k].modified => IsContent(items[k].name) /\ handler # "noop"
Handed == HandedIn(headers_)

\* ... of which there is one for each header, with the Content-* headers deleted ...
Complete ==
    /\ phase # "headers" => Len(headers_) >= Total
    /\ phase \in {"encrypt", "get", "out"} => next = 1
    /\ phase \in {"replace", "strip"} => replaced
    /\ phase \in {"encrypt", "get"} =>
          /\ Len(headers_) = Total
          /\ handler # "noop" =>
                \A k \in DOMAIN headers_ : IsContent(headers_[k].name) => headers_[k] \in Deleted

\* ... and what the handler added.
AddedIn(items) ==
    \A k \in DOMAIN items : k > Total =>
        /\ handler # "noop" /\ IsContent(items[k].name)
        /\ items[k].modified /\ items[k].value = NewValue
        /\ \A j \in 1 .. k - 1 : iequals(items[j].name, items[k].name) => items[j] \in Deleted
Added == AddedIn(headers_)

\* The position replace_headers asks for.
FirstIn(items) ==
    NoContentTwice => \A k \in DOMAIN items : items[k].modified \/ IsContent(items[k].name)
                                                  => items[k].index = 1
FirstOfName == FirstIn(headers_)

OwnWritten ==
    phase \notin {"headers", "encrypt", "get", "failed"} /\ handler # "noop" =>
        Those(Written(headers_), ContentHeader) = Own

\* replace_headers, item by item.
Replacing ==
    phase = "replace" =>
        /\ next <= Len(headers_) + 1
        /\ Those(mail, Untouched) = Those(original, Untouched)
        /\ NoContentTwice =>
              Those(mail, Unsigned) = Written(SubSeq(headers_, 1, next - 1)) \o SubSeq(Given, next, Total)

OwnKept ==
    Outside /\ handler # "noop" /\ (replaced => NoContentTwice /\ NoContentStripped) =>
        Those(mail, ContentHeader) = Own

Agreed == NoContentTwice => ReplacedAsCopied

HeadInv ==
    /\ Typed /\ Collecting /\ Handed /\ Complete /\ Added /\ FirstOfName
    /\ OwnWritten /\ Replacing /\ OthersKept /\ OwnKept /\ Agreed /\ InnerKeepsContent

-----------------------------------------------------------------------------
(* What is written of the items. *)

LEMMA NamesAre ==
    /\ Modified("Content-Type") \in Item /\ Modified("Content-Transfer-Encoding") \in Item
    /\ Modified("Content-Disposition") \in Item /\ Modified("Content-Description") \in Item
    /\ Modified("X-GWMilter-Signature") \in Item
    /\ IsContent("Content-Type") /\ IsContent("Content-Transfer-Encoding")
    /\ IsContent("Content-Disposition") /\ IsContent("Content-Description")
    /\ ~IsContent("X-GWMilter-Signature")
BY NamesAssumption DEF Modified, Item, Value, IsContent

LEMMA ModifiedIs ==
    ASSUME NEW name
    PROVE  /\ Modified(name).name = name /\ Modified(name).value = NewValue
           /\ Modified(name).index = 1 /\ Modified(name).modified
           /\ Modified(name) \notin Deleted /\ Shown(Modified(name)) = Set(name)
BY ValueAssumption DEF Modified, Deleted, Shown, Set

\* The mail, and the part of it that the handler is given, which has all headers that are not a signature.
LEMMA OriginalType ==
    ASSUME Typed
    PROVE  /\ original \in Seq(OldHeader) /\ original \in Seq(Header) /\ headers_ \in Seq(Item)
           /\ Given \in Seq(OldHeader) /\ Given \in Seq(Header) /\ Total \in Nat
           /\ Those(Given, Untouched) = Those(original, Untouched)
           /\ Those(Given, ContentHeader) = Those(original, ContentHeader)
<1>1. headers_ \in Seq(Item) /\ original \in Seq(OldHeader)
  BY DEF Typed, TypeOK
<1>2. OldHeader \subseteq Header
  BY DEF OldHeader, Header, Value
<1>3. original \in Seq(Header)
  <2>1. \A k \in 1 .. Len(original) : original[k] \in Header
    BY <1>1, <1>2
  <2>. QED
    BY <1>1, <2>1
<1>4. Given \in Seq(OldHeader)
  BY <1>1, ThoseType DEF Given
<1>5. Given \in Seq(Header)
  <2>1. \A k \in 1 .. Len(Given) : Given[k] \in Header
    BY <1>2, <1>4
  <2>. QED
    BY <1>4, <2>1
<1>6. Untouched \subseteq Unsigned /\ ContentHeader \subseteq Unsigned
  BY NamesAssumption DEF Untouched, ContentHeader, Unsigned, IsContent
<1>7. /\ Those(Given, Untouched) = Those(original, Untouched)
      /\ Those(Given, ContentHeader) = Those(original, ContentHeader)
  BY <1>3, <1>6, ThoseThose DEF Given
<1>. QED
  BY <1>1, <1>3, <1>4, <1>5, <1>7 DEF Total

\* Headers whose name is not Content-* are written as the mail had them, and nothing else is.
LEMMA OthersWritten ==
    ASSUME Typed, Handed, Added, Len(headers_) >= Total
    PROVE  Those(Written(headers_), Untouched) = Those(original, Untouched)
<1>. DEFINE m == Len(headers_)
            W(k) == Written(SubSeq(headers_, 1, k))
            G == {k \in 0 .. Total : Those(W(k), Untouched) = Those(SubSeq(Given, 1, k), Untouched)}
<1>1. /\ headers_ \in Seq(Item) /\ Given \in Seq(OldHeader)
      /\ Given \in Seq(Header) /\ m \in Nat /\ Total \in Nat
      /\ Those(Given, Untouched) = Those(original, Untouched)
  BY OriginalType
<1>2. 0 \in G
  <2>1. SubSeq(headers_, 1, 0) = <<>> /\ SubSeq(Given, 1, 0) = <<>>
    BY <1>1
  <2>2. Those(W(0), Untouched) = Those(SubSeq(Given, 1, 0), Untouched)
    BY <2>1, WrittenEmpty
  <2>. QED
    BY <1>1, <2>2
<1>3. ASSUME NEW k \in 0 .. Total - 1, k \in G
      PROVE  k + 1 \in G
  <2>. DEFINE a == SubSeq(headers_, 1, k)
              b == SubSeq(Given, 1, k)
              x == headers_[k + 1]
              o == Given[k + 1]
  <2>1. /\ SubSeq(headers_, 1, k + 1) = Append(a, x) /\ a \in Seq(Item) /\ x \in Item
        /\ k + 1 \in DOMAIN headers_ /\ k + 1 <= Total
    BY <1>1
  <2>2. /\ SubSeq(Given, 1, k + 1) = Append(b, o) /\ b \in Seq(Header) /\ o \in Header
        /\ o \in OldHeader
    <3>1. k + 1 \in 1 .. Len(Given) /\ k \in Nat /\ k <= Len(Given)
      BY <1>1 DEF Total
    <3>2. o \in Header /\ o \in OldHeader
      BY <1>1, <3>1
    <3>3. SubSeq(Given, 1, k + 1) = Append(b, o) /\ b \in Seq(Header)
      BY <1>1, <3>1
    <3>. QED
      BY <3>2, <3>3
  <2>3. Those(Written(a), Untouched) = Those(b, Untouched)
    BY <1>3
  <2>4. /\ iequals(x.name, o.name)
        /\ ~x.modified => x.name = o.name /\ x.value = o.value
        /\ x.modified => IsContent(x.name) /\ handler # "noop"
    BY <2>1 DEF Handed, HandedIn
  <2>. HIDE DEF a, b, x, o
  <2>5. Written(Append(a, x)) = IF x \in Deleted THEN Written(a) ELSE Append(Written(a), Shown(x))
    BY <2>1, WrittenAppend
  <2>6. Those(Append(b, o), Untouched) = IF o \in Untouched THEN Append(Those(b, Untouched), o) ELSE Those(b, Untouched)
    BY <2>2, ThoseAppend
  <2>7. Written(a) \in Seq(Header) /\ Shown(x) \in Header
    BY <2>1, WrittenType DEF Shown, Item, Header
  <2>8. Those(Append(Written(a), Shown(x)), Untouched)
          = IF Shown(x) \in Untouched THEN Append(Those(Written(a), Untouched), Shown(x))
            ELSE Those(Written(a), Untouched)
    BY <2>7, ThoseAppend
  <2>9. Those(Written(Append(a, x)), Untouched) = Those(Append(b, o), Untouched)
    <3>1. CASE x.modified
      <4>1. o \notin Untouched /\ Shown(x) \notin Untouched
        BY <2>4, <3>1 DEF Untouched, Shown, IsContent, iequals
      <4>. QED
        BY <2>3, <2>5, <2>6, <2>8, <4>1
    <3>2. CASE ~x.modified
      <4>1. x \notin Deleted /\ Shown(x) = o
        BY <2>2, <2>4, <3>2 DEF Deleted, Shown, OldHeader
      <4>. QED
        BY <2>3, <2>5, <2>6, <2>8, <4>1
    <3>. QED
      BY <3>1, <3>2
  <2>10. Those(W(k + 1), Untouched) = Those(SubSeq(Given, 1, k + 1), Untouched)
    BY <2>1, <2>2, <2>9
  <2>. QED
    BY <1>1, <2>10
<1>4. Total \in G
  <2>1. \A k \in 0 .. Total - 1 : k \in G => k + 1 \in G
    BY <1>3
  <2>2. Total \in 0 .. Total
    BY <1>1
  <2>. HIDE DEF G
  <2>. QED
    BY <1>1, <1>2, <2>1, <2>2, UpTo
<1>. DEFINE a == SubSeq(headers_, 1, Total)
            r == SubSeq(headers_, Total + 1, m)
            B == {x \in Item : IsContent(x.name) /\ handler # "noop"}
<1>5. a \in Seq(Item) /\ r \in Seq(Item) /\ r \in Seq(B)
  <2>1. a \in Seq(Item) /\ r \in Seq(Item)
    BY <1>1
  <2>2. ASSUME NEW k \in DOMAIN r PROVE r[k] \in B
    <3>1. k + Total \in DOMAIN headers_ /\ k + Total > Total /\ r[k] = headers_[k + Total] /\ r[k] \in Item
      BY <1>1
    <3>. QED
      BY <3>1 DEF Added, AddedIn
  <2>. HIDE DEF r, B
  <2>. QED
    BY <2>1, <2>2
<1>6. headers_ = a \o r
  <2>1. SubSeq(headers_, 1, Total) \o SubSeq(headers_, Total + 1, m) = SubSeq(headers_, 1, m)
    <3>1. 1 \in 1 .. m + 1 /\ Total \in 1 - 1 .. m /\ m \in Total .. m
      BY <1>1
    <3>. QED
      BY <1>1, <3>1, ConcatAdjacentSubSeq
  <2>2. SubSeq(headers_, 1, m) = headers_
    BY <1>1, SubSeqFull
  <2>. QED
    BY <2>1, <2>2
<1>7. SubSeq(Given, 1, Total) = Given
  BY <1>1, SubSeqFull DEF Total
<1>8. Those(Written(a), Untouched) = Those(original, Untouched)
  BY <1>1, <1>4, <1>7
<1>. HIDE DEF a, r
<1>9. Written(a \o r) = Written(a) \o Written(r)
  BY <1>5, WrittenConcat
<1>10. Those(Written(r), Untouched) = <<>>
  <2>1. B \in SUBSET Item
    OBVIOUS
  <2>2. Written(r) \in Seq({Shown(x) : x \in B \ Deleted})
    <3>. HIDE DEF B
    <3>. QED
      BY <1>5, <2>1, WrittenType
  <2>3. \A h \in {Shown(x) : x \in B \ Deleted} : h \notin Untouched
    BY DEF Shown, Untouched
  <2>. DEFINE C == {Shown(x) : x \in B \ Deleted}
              w == Written(r)
  <2>4. w \in Seq(C) /\ \A k \in DOMAIN w : w[k] \notin Untouched
    <3>. HIDE DEF C, w
    <3>1. w \in Seq(C)
      BY <2>2 DEF C, w
    <3>. QED
      BY <2>3, <3>1 DEF C
  <2>. HIDE DEF C, w
  <2>5. Those(w, Untouched) = <<>>
    BY <2>4, NoneTaken
  <2>. QED
    BY <2>5 DEF w
<1>11. Written(a) \in Seq(Header) /\ Written(r) \in Seq(Header)
  BY <1>5, WrittenType
<1>12. Those(Written(a) \o Written(r), Untouched) = Those(Written(a), Untouched) \o Those(Written(r), Untouched)
  BY <1>11, ThoseConcat
<1>13. Those(Written(a), Untouched) \in Seq(Header)
  BY <1>11, ThoseType
<1>14. Those(Written(a), Untouched) \o <<>> = Those(Written(a), Untouched)
  BY <1>13
<1>. QED
  BY <1>6, <1>8, <1>9, <1>10, <1>12, <1>14

\* Of Content-* headers that are all deleted, none is written.
LEMMA HiddenContent ==
    ASSUME NEW u \in Seq(Item), \A k \in 1 .. Len(u) : IsContent(u[k].name) => u[k] \in Deleted
    PROVE  Those(Written(u), ContentHeader) = <<>>
<1>. DEFINE B == {x \in Item : IsContent(x.name) => x \in Deleted}
            C == {Shown(x) : x \in B \ Deleted}
            w == Written(u)
<1>1. u \in Seq(B) /\ B \in SUBSET Item
  OBVIOUS
<1>2. w \in Seq(C)
  <2>. HIDE DEF B
  <2>. QED
    BY <1>1, WrittenType
<1>3. \A h \in C : h \notin ContentHeader
  BY DEF Shown, ContentHeader
<1>. HIDE DEF C, w
<1>4. \A k \in DOMAIN w : w[k] \notin ContentHeader
  BY <1>2, <1>3
<1>5. Those(w, ContentHeader) = <<>>
  BY <1>2, <1>4, NoneTaken
<1>. QED
  BY <1>5 DEF w

\* The first header of the name gives way to h; without one, h comes last.
LEMMA SetContentTypeIs ==
    ASSUME NEW items \in Seq(Item), NEW h \in Item
    PROVE  \/ \E p \in 1 .. Len(items) :
                 iequals(items[p].name, h.name) /\ SetContentType(items, h) = [items EXCEPT ![p] = h]
           \/ /\ \A k \in 1 .. Len(items) : ~iequals(items[k].name, h.name)
              /\ SetContentType(items, h) = Append(items, h)
<1>. DEFINE same == {k \in DOMAIN items : iequals(items[k].name, h.name)}
<1>1. DOMAIN items = 1 .. Len(items) /\ same \in SUBSET Nat
  OBVIOUS
<1>2. CASE same # {}
  <2>1. Min(same) \in same
    <3>. HIDE DEF same
    <3>. QED
      BY <1>1, <1>2, MinIsLeast
  <2>2. SetContentType(items, h) = [items EXCEPT ![Min(same)] = h]
    BY <1>2 DEF SetContentType
  <2>. QED
    BY <1>1, <2>1, <2>2
<1>3. CASE same = {}
  <2>1. SetContentType(items, h) = Append(items, h)
    BY <1>3 DEF SetContentType
  <2>. QED
    BY <1>1, <1>3, <2>1
<1>. QED
  BY <1>2, <1>3

\* Of items whose Content-* headers are deleted, get_headers makes a list that shows only the
\* handler's own.
LEMMA OwnContentType ==
    ASSUME NEW items \in Seq(Item), \A k \in 1 .. Len(items) : IsContent(items[k].name) => items[k] \in Deleted
    PROVE  /\ pgpHeaders(items) \in Seq(Item)
           /\ Those(Written(pgpHeaders(items)), ContentHeader) = Append(<<>>, Set("Content-Type"))
<1>. DEFINE h == Modified("Content-Type")
            s == Set("Content-Type")
            C == ContentHeader
<1>1. /\ h \in Item /\ h \notin Deleted /\ Shown(h) = s /\ h.name = "Content-Type"
      /\ s \in Header /\ s \in C
  BY NamesAre, ModifiedIs, ValueAssumption, NamesAssumption DEF Set, Header, Value, ContentHeader
<1>2. pgpHeaders(items) = SetContentType(items, h)
  BY DEF pgpHeaders
<1>. HIDE DEF h, s, C
<1>3. CASE \E p \in 1 .. Len(items) :
              iequals(items[p].name, h.name) /\ SetContentType(items, h) = [items EXCEPT ![p] = h]
  <2>1. PICK p \in 1 .. Len(items) : SetContentType(items, h) = [items EXCEPT ![p] = h]
    BY <1>3
  <2>. DEFINE t == [items EXCEPT ![p] = h]
              u == SubSeq(items, 1, p - 1)
              v == SubSeq(items, p + 1, Len(items))
  <2>2. t \in Seq(Item) /\ Len(t) = Len(items) /\ t[p] = h
    BY <1>1
  <2>3. SubSeq(t, 1, p - 1) = u /\ SubSeq(t, p + 1, Len(t)) = v
    BY <2>2
  <2>4. t = Append(u, h) \o v
    <3>. HIDE DEF u, v, t
    <3>1. t = Append(SubSeq(t, 1, p - 1), t[p]) \o SubSeq(t, p + 1, Len(t))
      BY <2>2, Parts
    <3>. QED
      BY <2>2, <2>3, <3>1
  <2>5. /\ u \in Seq(Item) /\ \A k \in 1 .. Len(u) : IsContent(u[k].name) => u[k] \in Deleted
    <3>1. u \in Seq(Item)
      OBVIOUS
    <3>2. ASSUME NEW k \in 1 .. Len(u) PROVE k \in 1 .. Len(items) /\ u[k] = items[k]
      OBVIOUS
    <3>. QED
      BY <3>1, <3>2
  <2>6. /\ v \in Seq(Item) /\ \A k \in 1 .. Len(v) : IsContent(v[k].name) => v[k] \in Deleted
    <3>1. v \in Seq(Item)
      OBVIOUS
    <3>2. ASSUME NEW k \in 1 .. Len(v) PROVE k + p \in 1 .. Len(items) /\ v[k] = items[k + p]
      OBVIOUS
    <3>. QED
      BY <3>1, <3>2
  <2>. HIDE DEF u, v, t
  <2>7. Those(Written(u), C) = <<>> /\ Those(Written(v), C) = <<>>
    BY <2>5, <2>6, HiddenContent DEF C
  <2>8. Written(Append(u, h) \o v) = Append(Written(u), s) \o Written(v)
    <3>1. Append(u, h) \in Seq(Item)
      BY <1>1, <2>5
    <3>2. Written(Append(u, h) \o v) = Written(Append(u, h)) \o Written(v)
      BY <2>6, <3>1, WrittenConcat
    <3>3. Written(Append(u, h)) = Append(Written(u), s)
      BY <1>1, <2>5, WrittenAppend
    <3>. QED
      BY <3>2, <3>3
  <2>9. Written(u) \in Seq(Header) /\ Written(v) \in Seq(Header)
    BY <2>5, <2>6, WrittenType
  <2>10. Those(Append(Written(u), s) \o Written(v), C) = Append(Those(Written(u), C), s) \o Those(Written(v), C)
    BY <1>1, <2>9, ThoseParts
  <2>11. Append(<<>>, s) \o <<>> = Append(<<>>, s)
    OBVIOUS
  <2>12. Those(Written(t), C) = Append(<<>>, s)
    BY <2>4, <2>7, <2>8, <2>10, <2>11
  <2>. QED
    BY <1>2, <2>1, <2>2, <2>12 DEF t, s, C
<1>4. CASE SetContentType(items, h) = Append(items, h)
  <2>1. Append(items, h) \in Seq(Item) /\ Written(Append(items, h)) = Append(Written(items), s)
    BY <1>1, WrittenAppend
  <2>2. Written(items) \in Seq(Header)
    BY WrittenType
  <2>3. Those(Append(Written(items), s), C) = Append(Those(Written(items), C), s)
    BY <1>1, <2>2, ThoseAppend
  <2>4. Those(Written(items), C) = <<>>
    BY HiddenContent DEF C
  <2>. QED
    BY <1>2, <1>4, <2>1, <2>3, <2>4 DEF s, C
<1>. QED
  BY <1>1, <1>3, <1>4, SetContentTypeIs

-----------------------------------------------------------------------------
(* get_headers. *)

\* Every Content-* header is deleted, except those of the names.
DeletedBut(items, names) ==
    \A k \in 1 .. Len(items) : IsContent(items[k].name) /\ Lower[items[k].name] \notin names => items[k] \in Deleted

ItemsOK(items) ==
    items \in Seq(Item) /\ Len(items) >= Total /\ HandedIn(items) /\ AddedIn(items) /\ FirstIn(items)

\* A header the handler adds.
LEMMA AddOne ==
    ASSUME NEW items, ItemsOK(items), NEW names, DeletedBut(items, names), Total \in Nat,
           NEW name \in Name, Modified(name) \in Item, IsContent(name), Lower[name] \notin names,
           handler # "noop"
    PROVE  /\ ItemsOK(Append(items, Modified(name)))
           /\ DeletedBut(Append(items, Modified(name)), names \cup {Lower[name]})
<1>. DEFINE h == Modified(name)
            t == Append(items, h)
            m == Len(items)
<1>1. h \in Item /\ h.name = name /\ h.modified /\ h.value = NewValue /\ h.index = 1
  BY ModifiedIs
<1>2. items \in Seq(Item) /\ m \in Nat /\ m >= Total
  BY DEF ItemsOK
<1>. HIDE DEF h
<1>3. /\ t \in Seq(Item) /\ Len(t) = m + 1 /\ DOMAIN t = 1 .. m + 1 /\ DOMAIN items = 1 .. m
      /\ t[m + 1] = h /\ \A k \in 1 .. m : t[k] = items[k]
  BY <1>1, <1>2
<1>. HIDE DEF t, m
<1>4. \A k \in 1 .. m + 1 : k \in 1 .. m \/ k = m + 1
  BY <1>2
<1>5. HandedIn(t)
  <2>1. HandedIn(items) /\ ~ (m + 1 <= Total)
    BY <1>2 DEF ItemsOK
  <2>. QED
    BY <1>3, <1>4, <2>1 DEF HandedIn
<1>6. AddedIn(t)
  <2>. SUFFICES ASSUME NEW k \in 1 .. m + 1, k > Total
                PROVE  /\ handler # "noop" /\ IsContent(t[k].name)
                       /\ t[k].modified /\ t[k].value = NewValue
                       /\ \A j \in 1 .. k - 1 : iequals(t[j].name, t[k].name) => t[j] \in Deleted
    BY <1>3 DEF AddedIn
  <2>1. CASE k = m + 1
    <3>1. ASSUME NEW j \in 1 .. k - 1, iequals(t[j].name, t[k].name)
          PROVE  t[j] \in Deleted
      <4>1. j \in 1 .. m /\ t[j] = items[j] /\ t[k] = h
        BY <1>2, <1>3, <2>1
      <4>2. IsContent(items[j].name) /\ Lower[items[j].name] \notin names
        BY <1>1, <3>1, <4>1 DEF iequals, IsContent
      <4>. QED
        BY <4>1, <4>2 DEF DeletedBut, m
    <3>. QED
      BY <1>1, <1>3, <2>1, <3>1
  <2>2. CASE k \in 1 .. m
    <3>1. AddedIn(items) /\ t[k] = items[k] /\ \A j \in 1 .. k - 1 : j \in 1 .. m /\ t[j] = items[j]
      BY <1>2, <1>3, <2>2 DEF ItemsOK
    <3>. QED
      BY <1>3, <2>2, <3>1 DEF AddedIn
  <2>. QED
    BY <1>4, <2>1, <2>2
<1>7. FirstIn(t)
  <2>1. FirstIn(items)
    BY DEF ItemsOK
  <2>. QED
    BY <1>1, <1>3, <1>4, <2>1 DEF FirstIn
<1>8. DeletedBut(t, names \cup {Lower[name]})
  BY <1>1, <1>3, <1>4 DEF DeletedBut, m
<1>9. Len(t) >= Total
  BY <1>2, <1>3
<1>. QED
  BY <1>3, <1>5, <1>6, <1>7, <1>8, <1>9 DEF ItemsOK, t, h

\* The Content-Type the handler sets.
LEMMA pgpHeadersOK ==
    ASSUME NEW items, ItemsOK(items), Len(items) = Total, DeletedBut(items, {}), handler # "noop"
    PROVE  ItemsOK(pgpHeaders(items)) /\ DeletedBut(pgpHeaders(items), {"content-type"})
<1>. DEFINE h == Modified("Content-Type")
<1>1. /\ h \in Item /\ h.name = "Content-Type" /\ h.modified /\ h.value = NewValue /\ h.index = 1
      /\ IsContent("Content-Type") /\ "Content-Type" \in Name /\ Lower["Content-Type"] = "content-type"
  BY ModifiedIs, NamesAre, NamesAssumption
<1>2. pgpHeaders(items) = SetContentType(items, h)
  BY DEF pgpHeaders
<1>3. items \in Seq(Item) /\ Len(items) \in Nat /\ Total \in Nat
  BY DEF ItemsOK
<1>4. CASE SetContentType(items, h) = Append(items, h)
  <2>1. /\ ItemsOK(Append(items, h)) /\ DeletedBut(Append(items, h), {} \cup {Lower["Content-Type"]})
    BY <1>1, <1>3, AddOne
  <2>2. {} \cup {Lower["Content-Type"]} = {"content-type"}
    BY <1>1
  <2>. QED
    BY <1>2, <1>4, <2>1, <2>2
<1>. HIDE DEF h
<1>5. ASSUME NEW p \in 1 .. Len(items), iequals(items[p].name, h.name),
             SetContentType(items, h) = [items EXCEPT ![p] = h]
      PROVE  ItemsOK(pgpHeaders(items)) /\ DeletedBut(pgpHeaders(items), {"content-type"})
  <2>. DEFINE t == [items EXCEPT ![p] = h]
  <2>1. /\ t \in Seq(Item) /\ Len(t) = Len(items) /\ DOMAIN t = 1 .. Len(items) /\ t[p] = h
        /\ \A k \in 1 .. Len(items) : k # p => t[k] = items[k]
    BY <1>1, <1>3
  <2>. HIDE DEF t
  <2>2. DOMAIN items = 1 .. Len(items) /\ HandedIn(items) /\ FirstIn(items)
    BY <1>3 DEF ItemsOK
  <2>3. HandedIn(t)
    <3>1. iequals(h.name, Given[p].name)
      BY <1>3, <1>5, <2>2 DEF HandedIn, iequals
    <3>. QED
      BY <1>1, <2>1, <2>2, <3>1 DEF HandedIn
  <2>4. AddedIn(t)
    BY <1>3, <2>1 DEF AddedIn
  <2>5. FirstIn(t)
    BY <1>1, <2>1, <2>2 DEF FirstIn
  <2>6. DeletedBut(t, {"content-type"})
    BY <1>1, <2>1 DEF DeletedBut
  <2>. QED
    BY <1>2, <1>5, <2>1, <2>3, <2>4, <2>5, <2>6 DEF ItemsOK, t
<1>. QED
  BY <1>1, <1>3, <1>4, <1>5, SetContentTypeIs

LEMMA ThreeMore ==
    ASSUME NEW A, NEW s \in Seq(A), NEW a \in A, NEW b \in A, NEW c \in A
    PROVE  s \o <<a, b, c>> = Append(Append(Append(s, a), b), c)
OBVIOUS

LEMMA smimeHeadersOK ==
    ASSUME NEW items, ItemsOK(items), DeletedBut(items, {"content-type"}), handler # "noop"
    PROVE  ItemsOK(items \o smimeHeaders)
<1>1. items \in Seq(Item) /\ Total \in Nat
  BY DEF ItemsOK, Total
<1>. DEFINE t1 == Append(items, Modified("Content-Transfer-Encoding"))
            t2 == Append(t1, Modified("Content-Disposition"))
            t3 == Append(t2, Modified("Content-Description"))
<1>2. items \o smimeHeaders = t3
  BY <1>1, NamesAre, ThreeMore DEF smimeHeaders
<1>. HIDE DEF t3
<1>3. /\ {"Content-Transfer-Encoding", "Content-Disposition", "Content-Description"} \subseteq Name
      /\ Lower["Content-Transfer-Encoding"] = "content-transfer-encoding"
      /\ Lower["Content-Disposition"] = "content-disposition"
      /\ Lower["Content-Description"] = "content-description"
  BY NamesAssumption
<1>. DEFINE n1 == {"content-type"} \cup {Lower["Content-Transfer-Encoding"]}
            n2 == n1 \cup {Lower["Content-Disposition"]}
<1>4. ItemsOK(t1) /\ DeletedBut(t1, n1)
  <2>1. Lower["Content-Transfer-Encoding"] \notin {"content-type"}
    BY <1>3
  <2>. QED
    BY <1>1, <1>3, <2>1, NamesAre, AddOne
<1>. HIDE DEF t2
<1>5. ItemsOK(t2) /\ DeletedBut(t2, n2)
  <2>1. Lower["Content-Disposition"] \notin n1
    BY <1>3
  <2>. HIDE DEF t1, n1
  <2>. QED
    BY <1>1, <1>3, <1>4, <2>1, NamesAre, AddOne DEF t2
<1>6. ItemsOK(t3)
  <2>1. Lower["Content-Description"] \notin n2
    BY <1>3
  <2>. HIDE DEF n2
  <2>. QED
    BY <1>1, <1>3, <1>5, <2>1, NamesAre, AddOne DEF t3
<1>. QED
  BY <1>2, <1>6

LEMMA smimeHeadersShown ==
    /\ smimeHeaders \in Seq(Item)
    /\ Those(Written(smimeHeaders), ContentHeader)
         = <<Set("Content-Transfer-Encoding"), Set("Content-Disposition"), Set("Content-Description")>>
<1>. DEFINE a == Modified("Content-Transfer-Encoding")
            b == Modified("Content-Disposition")
            c == Modified("Content-Description")
            x == Set("Content-Transfer-Encoding")
            y == Set("Content-Disposition")
            z == Set("Content-Description")
            C == ContentHeader
<1>1. a \in Item /\ b \in Item /\ c \in Item
  BY NamesAre
<1>2. /\ a \notin Deleted /\ b \notin Deleted /\ c \notin Deleted
      /\ Shown(a) = x /\ Shown(b) = y /\ Shown(c) = z
  BY ModifiedIs
<1>3. x \in Header /\ y \in Header /\ z \in Header /\ x \in C /\ y \in C /\ z \in C
  BY NamesAre, NamesAssumption DEF Set, Header, Value, ContentHeader
<1>4. smimeHeaders = <<a, b, c>>
  BY DEF smimeHeaders
<1>. HIDE DEF a, b, c, x, y, z, C
<1>5. /\ <<>> \in Seq(Item) /\ Append(<<>>, a) \in Seq(Item) /\ Append(Append(<<>>, a), b) \in Seq(Item)
      /\ Append(Append(Append(<<>>, a), b), c) \in Seq(Item)
      /\ <<a, b, c>> = Append(Append(Append(<<>>, a), b), c)
  BY <1>1
<1>6. Written(Append(<<>>, a)) = Append(<<>>, x)
  BY <1>1, <1>2, <1>5, WrittenAppend, WrittenEmpty
<1>7. Written(Append(Append(<<>>, a), b)) = Append(Append(<<>>, x), y)
  BY <1>1, <1>2, <1>5, <1>6, WrittenAppend
<1>8. Written(Append(Append(Append(<<>>, a), b), c)) = Append(Append(Append(<<>>, x), y), z)
  BY <1>1, <1>2, <1>5, <1>7, WrittenAppend
<1>9. /\ <<>> \in Seq(Header) /\ Append(<<>>, x) \in Seq(Header) /\ Append(Append(<<>>, x), y) \in Seq(Header)
      /\ <<x, y, z>> = Append(Append(Append(<<>>, x), y), z)
  BY <1>3
<1>10. Those(Append(<<>>, x), C) = Append(<<>>, x)
  <2>. DEFINE e == <<>>
  <2>1. e \in Seq(Header) /\ Those(e, C) = e
    BY ThoseEmpty
  <2>. HIDE DEF e
  <2>2. Those(Append(e, x), C) = Append(e, x)
    BY <1>3, <2>1, ThoseAppend
  <2>. QED
    BY <2>2 DEF e
<1>11. Those(Append(Append(<<>>, x), y), C) = Append(Append(<<>>, x), y)
  BY <1>3, <1>9, <1>10, ThoseAppend
<1>12. Those(Append(Append(Append(<<>>, x), y), z), C) = Append(Append(Append(<<>>, x), y), z)
  BY <1>3, <1>9, <1>11, ThoseAppend
<1>. QED
  BY <1>4, <1>5, <1>8, <1>9, <1>12 DEF x, y, z, C

\* What the handlers add keeps the order of the items, and shows the handler's own headers.
LEMMA HandlerHeadersOK ==
    ASSUME handler \in Handler, handler # "noop",
           NEW items, ItemsOK(items), Len(items) = Total, DeletedBut(items, {})
    PROVE  /\ ItemsOK(HandlerHeaders(items))
           /\ Those(Written(HandlerHeaders(items)), ContentHeader) = Own
<1>. DEFINE pg == pgpHeaders(items)
<1>1. items \in Seq(Item) /\ \A k \in 1 .. Len(items) : IsContent(items[k].name) => items[k] \in Deleted
  BY DEF ItemsOK, DeletedBut
<1>2. pg \in Seq(Item) /\ Those(Written(pg), ContentHeader) = Append(<<>>, Set("Content-Type"))
  BY <1>1, OwnContentType
<1>3. ItemsOK(pg) /\ DeletedBut(pg, {"content-type"})
  BY pgpHeadersOK
<1>4. HandlerHeaders(items) = IF handler = "smime" THEN pg \o smimeHeaders ELSE pg
  BY DEF HandlerHeaders, Handler
<1>5. Append(<<>>, Set("Content-Type")) = <<Set("Content-Type")>>
  <2>. DEFINE s == Set("Content-Type")
  <2>. HIDE DEF s
  <2>1. Append(<<>>, s) = <<s>>
    OBVIOUS
  <2>. QED
    BY <2>1 DEF s
<1>. HIDE DEF pg
<1>6. CASE handler = "smime"
  <2>1. ItemsOK(pg \o smimeHeaders)
    BY <1>3, <1>6, smimeHeadersOK
  <2>2. Written(pg \o smimeHeaders) = Written(pg) \o Written(smimeHeaders)
    BY <1>2, smimeHeadersShown, WrittenConcat
  <2>3. Written(pg) \in Seq(Header) /\ Written(smimeHeaders) \in Seq(Header)
    BY <1>2, smimeHeadersShown, WrittenType
  <2>4. Those(Written(pg) \o Written(smimeHeaders), ContentHeader)
          = Those(Written(pg), ContentHeader) \o Those(Written(smimeHeaders), ContentHeader)
    BY <2>3, ThoseConcat
  <2>5. <<Set("Content-Type")>> \o
          <<Set("Content-Transfer-Encoding"), Set("Content-Disposition"), Set("Content-Description")>> = Own
    <3>. DEFINE s == Set("Content-Type")
                x == Set("Content-Transfer-Encoding")
                y == Set("Content-Disposition")
                z == Set("Content-Description")
    <3>. HIDE DEF s, x, y, z
    <3>. DEFINE A == {s, x, y, z}
                one == Append(<<>>, s)
    <3>1. one \in Seq(A) /\ <<s>> = one /\ x \in A /\ y \in A /\ z \in A
      OBVIOUS
    <3>2. <<s, x, y, z>> = Append(Append(Append(one, x), y), z)
      OBVIOUS
    <3>. HIDE DEF one, A
    <3>3. one \o <<x, y, z>> = Append(Append(Append(one, x), y), z)
      BY <3>1, ThreeMore
    <3>. QED
      BY <1>6, <3>1, <3>2, <3>3 DEF s, x, y, z, Own
  <2>. QED
    BY <1>2, <1>4, <1>5, <1>6, <2>1, <2>2, <2>4, <2>5, smimeHeadersShown
<1>7. CASE handler # "smime"
  BY <1>2, <1>3, <1>4, <1>5, <1>7 DEF Own
<1>. QED
  BY <1>6, <1>7

-----------------------------------------------------------------------------
(* Every step keeps HeadInv. *)

LEMMA InitHead == Init => HeadInv
<1>. SUFFICES ASSUME Init PROVE HeadInv
  OBVIOUS
<1>1. Typed
  <2>1. original \in Seq(OldHeader)
    BY MailsAssumption DEF Init, OldHeader
  <2>2. TypeOK
    BY DEF Init, TypeOK
  <2>. QED
    BY <2>1, <2>2 DEF Typed
<1>2. Collecting
  <2>1. headers_ = <<>> /\ next = 1 /\ original \in Seq(OldHeader) /\ header_pos_ = [n \in Name |-> 0]
    BY <1>1 DEF Init, Typed
  <2>2. SubSeq(original, 1, next - 1) = <<>> /\ next <= Len(original) + 1
    BY <2>1
  <2>3. Plain(headers_) = <<>> /\ DOMAIN headers_ = {}
    BY <2>1 DEF Plain
  <2>4. Those(<<>>, Unsigned) = <<>>
    BY ThoseEmpty
  <2>5. \A m \in Name : ~ (header_pos_[m] > 0)
    BY <2>1
  <2>. QED
    BY <2>2, <2>3, <2>4, <2>5 DEF Collecting
<1>3. DOMAIN headers_ = {} /\ phase = "headers"
  BY DEF Init
<1>. QED
  BY <1>1, <1>2, <1>3
  DEF HeadInv, Handed, HandedIn, Complete, Added, AddedIn, FirstOfName, FirstIn, OwnWritten, Replacing,
      OthersKept, OwnKept, Agreed, ReplacedAsCopied, InnerKeepsContent, Outside

\* Reading a header: it is the first of its name, unless an earlier one has the same name.
LEMMA HeadHeader == HeadInv /\ on_header => HeadInv'
<1>. SUFFICES ASSUME HeadInv, on_header PROVE HeadInv'
  OBVIOUS
<1>. DEFINE h == original[next]
            x == [name |-> h.name, value |-> h.value, index |-> header_pos_[h.name] + 1, modified |-> FALSE]
            m == Len(headers_)
            a == SubSeq(original, 1, next - 1)
            b == SubSeq(original, next + 1, Len(original))
<1>1. /\ original \in Seq(OldHeader) /\ original \in Seq(Header) /\ Given \in Seq(OldHeader)
      /\ Total \in Nat /\ headers_ \in Seq(Item) /\ header_pos_ \in [Name -> Nat]
      /\ next \in Nat \ {0} /\ next <= Len(original) /\ next' = next + 1
      /\ phase = "headers" /\ phase' = "headers"
  BY OriginalType DEF HeadInv, Typed, TypeOK, on_header
<1>2. UNCHANGED <<original, Given, handler, replaced, inner, mail>>
  BY DEF on_header, inputs, Given
<1>3. /\ Plain(headers_) = Those(a, Unsigned)
      /\ \A k \in DOMAIN headers_ : ~headers_[k].modified
      /\ \A n \in Name : header_pos_[n] > 0 => \E j \in DOMAIN headers_ : headers_[j].name = n
  BY <1>1 DEF HeadInv, Collecting
<1>4. /\ h \in OldHeader /\ h \in Header /\ a \in Seq(Header) /\ b \in Seq(Header)
      /\ SubSeq(original, 1, next' - 1) = Append(a, h)
  BY <1>1
<1>5. original = Append(a, h) \o b
  <2>1. next \in 1 .. Len(original)
    BY <1>1
  <2>. QED
    BY <1>1, <2>1, Parts
<1>6. Those(Append(a, h), Unsigned) = IF h \in Unsigned THEN Append(Those(a, Unsigned), h) ELSE Those(a, Unsigned)
  <2>. HIDE DEF a, h
  <2>. QED
    BY <1>4, ThoseAppend
<1>7. Plain(headers_) \in Seq(Header) /\ Len(Plain(headers_)) = m
  BY <1>1, PlainIs
<1>8. CASE h \notin Unsigned
  <2>1. UNCHANGED <<headers_, header_pos_>>
    BY <1>8 DEF on_header
  <2>2. Typed'
    BY <1>1, <1>2, <2>1 DEF HeadInv, Typed, TypeOK, OldHeader
  <2>3. Collecting'
    <3>1. Plain(headers_') = Those(SubSeq(original', 1, next' - 1), Unsigned)
      BY <1>2, <1>3, <1>4, <1>6, <1>8, <2>1
    <3>2. next' <= Len(original') + 1
      BY <1>1, <1>2
    <3>. HIDE DEF a, h
    <3>. QED
      BY <1>1, <1>3, <2>1, <3>1, <3>2 DEF Collecting
  <2>4. Handed' /\ Added' /\ FirstOfName'
    BY <1>2, <2>1 DEF HeadInv, Handed, HandedIn, Added, AddedIn, FirstOfName, FirstIn, NoContentTwice, Total
  <2>. QED
    BY <1>1, <1>2, <2>1, <2>2, <2>3, <2>4
    DEF HeadInv, Complete, OwnWritten, Replacing, OthersKept, OwnKept, Agreed, ReplacedAsCopied,
        InnerKeepsContent, Outside
<1>9. CASE h \in Unsigned
  <2>1. /\ h.name \in Name /\ h.value \in OldValue /\ x \in Item
    <3>1. h.name \in Name /\ h.value \in OldValue
      BY <1>4 DEF OldHeader
    <3>2. header_pos_[h.name] + 1 \in Nat \ {0}
      BY <1>1, <3>1
    <3>. HIDE DEF h
    <3>3. x \in Item
      BY <3>1, <3>2 DEF Item, Value
    <3>. QED
      BY <3>1, <3>3
  <2>2. /\ header_pos_' = [header_pos_ EXCEPT ![h.name] = @ + 1]
        /\ headers_' = Append(headers_, x)
    BY <1>1, <1>9, <2>1 DEF on_header, add_header
  <2>3. /\ x.name = h.name /\ x.value = h.value /\ x.index = header_pos_[h.name] + 1 /\ ~x.modified
        /\ Shown(x) = h
    BY <1>4 DEF Shown, OldHeader
  \* The next header that the handler is given.
  <2>4. m + 1 <= Total /\ Given[m + 1] = h
    <3>. DEFINE t == Plain(headers_)
                r == Those(b, Unsigned)
    <3>1. Given = Append(t, h) \o r
      <4>. HIDE DEF a, b, h
      <4>1. Those(Append(a, h) \o b, Unsigned) = Append(Those(a, Unsigned), h) \o Those(b, Unsigned)
        BY <1>4, <1>9, ThoseParts
      <4>. QED
        BY <1>3, <1>5, <4>1 DEF Given
    <3>2. r \in Seq(Header)
      BY <1>4, ThoseType
    <3>. HIDE DEF t, r, h
    <3>3. Len(Append(t, h) \o r) = Len(t) + 1 + Len(r) /\ (Append(t, h) \o r)[Len(t) + 1] = h
      BY <1>4, <1>7, <3>2 DEF t
    <3>. QED
      BY <1>1, <1>7, <3>1, <3>2, <3>3 DEF t, Total
  <2>5. m \in Nat
    BY <1>1
  <2>. HIDE DEF x, h
  <2>6. /\ headers_' \in Seq(Item) /\ Len(headers_') = m + 1 /\ DOMAIN headers_' = 1 .. m + 1
        /\ headers_'[m + 1] = x /\ \A k \in 1 .. m : headers_'[k] = headers_[k]
        /\ DOMAIN headers_ = 1 .. m /\ \A k \in 1 .. m + 1 : k \in 1 .. m \/ k = m + 1
    BY <1>1, <2>1, <2>2
  <2>. HIDE DEF m
  <2>7. Typed'
    <3>1. header_pos_' \in [Name -> Nat]
      BY <1>1, <2>1, <2>2
    <3>. QED
      BY <1>1, <1>2, <2>6, <3>1 DEF HeadInv, Typed, TypeOK, OldHeader
  <2>8. Collecting'
    <3>1. Plain(headers_') = Append(Plain(headers_), h)
      BY <1>1, <2>1, <2>2, <2>3, PlainAppend
    <3>2. Plain(headers_') = Those(SubSeq(original', 1, next' - 1), Unsigned)
      <4>. HIDE DEF a
      <4>. QED
        BY <1>2, <1>3, <1>4, <1>6, <1>9, <3>1
    <3>3. next' <= Len(original') + 1
      BY <1>1, <1>2
    <3>4. ASSUME NEW n \in Name, header_pos_'[n] > 0 PROVE \E j \in 1 .. m + 1 : headers_'[j].name = n
      <4>1. CASE n = h.name
        BY <2>3, <2>5, <2>6, <4>1
      <4>2. CASE n # h.name
        <5>1. header_pos_'[n] = header_pos_[n]
          BY <1>1, <2>2, <4>2
        <5>2. PICK j \in 1 .. m : headers_[j].name = n
          BY <1>3, <2>6, <3>4, <5>1
        <5>. QED
          BY <2>5, <2>6, <5>2
      <4>. QED
        BY <4>1, <4>2
    <3>5. \A k \in 1 .. m + 1 : ~headers_'[k].modified
      BY <1>3, <2>3, <2>6
    <3>. QED
      BY <2>6, <3>2, <3>3, <3>4, <3>5 DEF Collecting
  <2>9. Handed'
    <3>1. HandedIn(headers_)
      BY DEF HeadInv, Handed
    <3>2. HandedIn(headers_')
      BY <2>3, <2>4, <2>6, <3>1 DEF HandedIn, iequals
    <3>. QED
      BY <1>2, <3>2 DEF Handed, HandedIn, Total
  <2>10. Added'
    <3>1. \A k \in 1 .. m + 1 : ~ (k > Total)
      BY <1>1, <2>4, <2>5
    <3>2. Total' = Total
      BY <1>2 DEF Total
    <3>. QED
      BY <2>6, <3>1, <3>2 DEF Added, AddedIn
  <2>11. FirstOfName'
    <3>. SUFFICES ASSUME NoContentTwice, NEW k \in 1 .. m + 1, IsContent(headers_'[k].name)
                  PROVE  headers_'[k].index = 1
      <4>1. \A k \in 1 .. m + 1 : ~headers_'[k].modified
        BY <1>3, <2>3, <2>6
      <4>. QED
        BY <1>2, <2>6, <4>1 DEF NoContentTwice, FirstOfName, FirstIn
    <3>1. CASE k \in 1 .. m
      BY <2>6, <3>1 DEF HeadInv, FirstOfName, FirstIn
    <3>2. CASE k = m + 1
      <4>1. header_pos_[h.name] = 0
        <5>. SUFFICES ASSUME header_pos_[h.name] # 0 PROVE FALSE
          OBVIOUS
        <5>1. header_pos_[h.name] > 0
          BY <1>1, <2>1
        <5>2. PICK j \in 1 .. m : headers_[j].name = h.name
          BY <1>3, <2>1, <2>6, <5>1
        <5>3. j \in DOMAIN Given /\ m + 1 \in DOMAIN Given /\ j # m + 1 /\ j <= Total
          BY <1>1, <2>4, <2>5 DEF Total
        <5>4. Given[j].name = h.name
          BY <1>3, <2>6, <5>2, <5>3 DEF HeadInv, Handed, HandedIn
        <5>5. IsContent(Given[j].name) /\ iequals(Given[j].name, Given[m + 1].name)
          BY <2>3, <2>4, <2>6, <3>2, <5>4 DEF iequals
        <5>. QED
          BY <5>3, <5>5 DEF NoContentTwice
      <4>. QED
        BY <2>3, <2>6, <3>2, <4>1
    <3>. QED
      BY <2>6, <3>1, <3>2
  <2>. QED
    BY <1>1, <1>2, <2>7, <2>8, <2>9, <2>10, <2>11
    DEF HeadInv, Complete, OwnWritten, Replacing, OthersKept, OwnKept, Agreed, ReplacedAsCopied,
        InnerKeepsContent, Outside
<1>. QED
  BY <1>8, <1>9

\* The first write: what is inside is what the mail had, and outside its Content-* headers are deleted.
LEMMA HeadWrite == HeadInv /\ write => HeadInv'
<1>. SUFFICES ASSUME HeadInv, write PROVE HeadInv'
  OBVIOUS
<1>1. /\ Given \in Seq(OldHeader) /\ Given \in Seq(Header) /\ Total \in Nat /\ headers_ \in Seq(Item)
      /\ original \in Seq(OldHeader) /\ Those(Given, ContentHeader) = Those(original, ContentHeader)
      /\ phase = "headers" /\ next > Len(original) /\ next \in Nat /\ phase' = "encrypt" /\ next' = 1
      /\ handler \in Handler
  BY OriginalType DEF HeadInv, Typed, TypeOK, write
<1>11. UNCHANGED <<original, Given, handler, replaced, header_pos_, mail>>
  BY DEF write, inputs, Given
<1>12. Plain(headers_) = Given /\ \A k \in DOMAIN headers_ : ~headers_[k].modified
  <2>1. /\ next <= Len(original) + 1
        /\ Plain(headers_) = Those(SubSeq(original, 1, next - 1), Unsigned)
        /\ \A k \in DOMAIN headers_ : ~headers_[k].modified
    BY <1>1 DEF HeadInv, Collecting
  <2>2. next - 1 = Len(original)
    BY <1>1, <2>1
  <2>3. SubSeq(original, 1, Len(original)) = original
    BY <1>1, SubSeqFull
  <2>. QED
    BY <2>1, <2>2, <2>3 DEF Given
<1>2. Len(headers_) = Total /\ DOMAIN headers_ = 1 .. Total /\ \A k \in 1 .. Total : ~headers_[k].modified
  <2>1. Len(Plain(headers_)) = Len(headers_)
    BY <1>1, PlainIs
  <2>. QED
    BY <1>1, <1>12, <2>1 DEF Total
<1>3. ASSUME NEW k \in 1 .. Total
      PROVE  headers_[k].name = Given[k].name /\ headers_[k].value = Given[k].value
  BY <1>2, <1>3 DEF HeadInv, Handed, HandedIn
<1>4. CASE handler = "noop"
  <2>1. UNCHANGED <<headers_, inner>>
    BY <1>4 DEF write
  <2>2. Typed'
    BY <1>1, <1>11, <2>1 DEF HeadInv, Typed, TypeOK, OldHeader
  <2>. QED
    BY <1>1, <1>11, <1>2, <1>4, <2>1, <2>2
    DEF NoContentTwice, HeadInv, Collecting, Handed, HandedIn, Complete, Added, AddedIn, FirstOfName, FirstIn,
        OwnWritten, Replacing, OthersKept, OwnKept, Agreed, ReplacedAsCopied, InnerKeepsContent, Outside, Total
<1>5. CASE handler # "noop"
  <2>1. headers_' = Marked(headers_) /\ inner' = Those(Plain(headers_), ContentHeader)
    BY <1>5 DEF write, Extract, Extracted
  <2>3. inner' = Those(original, ContentHeader) /\ inner' \in Seq(Header)
    BY <1>1, <1>11, <1>12, <2>1, ThoseType
  <2>4. ContentHeader' = ContentHeader
    OBVIOUS
  <2>5. ASSUME NEW k \in 1 .. Total
        PROVE  /\ headers_'[k] \in Item /\ headers_'[k].name = headers_[k].name
               /\ headers_'[k].index = headers_[k].index
               /\ IsContent(headers_[k].name) => headers_'[k] \in Deleted
               /\ headers_'[k].modified => IsContent(headers_[k].name)
               /\ ~headers_'[k].modified => headers_'[k].value = headers_[k].value
    <3>1. headers_[k] \in Item /\ ~headers_[k].modified
      BY <1>1, <1>11, <1>2
    <3>2. headers_'[k] = IF IsContent(headers_[k].name) THEN MarkDeleted(headers_[k]) ELSE headers_[k]
      BY <1>2, <2>1 DEF Marked
    <3>. QED
      BY <3>1, <3>2 DEF MarkDeleted, Item, Deleted, Value
  <2>6. headers_' \in Seq(Item) /\ Len(headers_') = Total /\ DOMAIN headers_' = 1 .. Total
    <3>1. headers_' = [k \in 1 .. Total |-> headers_'[k]]
      BY <1>2, <2>1 DEF Marked
    <3>. QED
      BY <1>1, <1>11, <2>5, <3>1
  <2>7. Typed'
    BY <1>1, <1>11, <2>3, <2>6 DEF HeadInv, Typed, TypeOK, OldHeader
  <2>8. Handed'
    <3>. SUFFICES ASSUME NEW k \in 1 .. Total
                  PROVE  /\ iequals(headers_'[k].name, Given[k].name)
                         /\ ~headers_'[k].modified =>
                               headers_'[k].name = Given[k].name /\ headers_'[k].value = Given[k].value
                         /\ headers_'[k].modified => IsContent(headers_'[k].name) /\ handler # "noop"
      BY <1>1, <1>11, <2>6 DEF Handed, HandedIn, iequals
    <3>. QED
      BY <1>3, <1>5, <2>5 DEF iequals
  <2>9. Complete'
    BY <1>1, <1>11, <2>5, <2>6 DEF Complete, Total
  <2>10. Added'
    BY <1>1, <1>11, <2>6 DEF Added, AddedIn, Total
  <2>11. FirstOfName'
    <3>. SUFFICES ASSUME NoContentTwice, NEW k \in 1 .. Total,
                         headers_'[k].modified \/ IsContent(headers_'[k].name)
                  PROVE  headers_'[k].index = 1
      BY <1>1, <1>11, <2>6 DEF NoContentTwice, FirstOfName, FirstIn
    <3>. QED
      BY <1>2, <2>5 DEF HeadInv, FirstOfName, FirstIn
  <2>12. InnerKeepsContent'
    BY <1>1, <1>11, <2>3 DEF InnerKeepsContent
  <2>. QED
    BY <1>1, <1>11, <2>7, <2>8, <2>9, <2>10, <2>11, <2>12
    DEF HeadInv, Collecting, OwnWritten, Replacing, OthersKept, OwnKept, Agreed, ReplacedAsCopied, Outside
<1>. QED
  BY <1>4, <1>5

LEMMA HeadEncrypt == HeadInv /\ encrypt => HeadInv'
<1>. SUFFICES ASSUME HeadInv, encrypt PROVE HeadInv'
  OBVIOUS
<1>1. /\ phase = "encrypt" /\ phase' \in {"get", "failed"}
      /\ UNCHANGED <<original, Given, handler, replaced, headers_, header_pos_, inner, mail, next>>
  BY DEF encrypt, inputs, Given
<1>2. Typed'
  BY <1>1 DEF HeadInv, Typed, TypeOK, OldHeader
<1>3. Complete'
  BY <1>1 DEF HeadInv, Complete, Total
<1>. QED
  BY <1>1, <1>2, <1>3
  DEF NoContentTwice, HeadInv, Collecting, Handed, HandedIn, Added, AddedIn, FirstOfName, FirstIn, OwnWritten,
      Replacing, OthersKept, OwnKept, Agreed, ReplacedAsCopied, InnerKeepsContent, Outside, Total

LEMMA HeadGetHeaders == HeadInv /\ get_headers => HeadInv'
<1>. SUFFICES ASSUME HeadInv, get_headers PROVE HeadInv'
  OBVIOUS
<1>1. /\ phase = "get" /\ phase' = "out" /\ headers_' = HandlerHeaders(headers_)
      /\ UNCHANGED <<original, Given, handler, replaced, header_pos_, inner, mail, next>>
      /\ handler \in Handler
  BY DEF get_headers, inputs, HeadInv, Typed, TypeOK, Given
<1>2. /\ headers_ \in Seq(Item) /\ Len(headers_) = Total /\ next = 1
      /\ handler # "noop" => \A k \in DOMAIN headers_ : IsContent(headers_[k].name) => headers_[k] \in Deleted
  BY <1>1 DEF HeadInv, Complete, Typed, TypeOK
<1>3. Total \in Nat
  BY OriginalType DEF HeadInv
<1>4. ItemsOK(headers_)
  BY <1>2, <1>3 DEF HeadInv, ItemsOK, Handed, Added, FirstOfName
<1>5. CASE handler = "noop"
  <2>1. headers_' = headers_
    BY <1>1, <1>5 DEF HandlerHeaders
  <2>2. Typed'
    BY <1>1, <2>1 DEF HeadInv, Typed, TypeOK, OldHeader
  <2>. QED
    BY <1>1, <1>2, <1>3, <1>5, <2>1, <2>2
    DEF NoContentTwice, HeadInv, Collecting, Handed, HandedIn, Complete, Added, AddedIn, FirstOfName, FirstIn, OwnWritten,
        Replacing, OthersKept, OwnKept, Agreed, ReplacedAsCopied, InnerKeepsContent, Outside, Total
<1>6. CASE handler # "noop"
  <2>1. DeletedBut(headers_, {})
    BY <1>2, <1>6 DEF DeletedBut
  <2>. DEFINE items == HandlerHeaders(headers_)
  <2>2. ItemsOK(items) /\ Those(Written(items), ContentHeader) = Own
    BY <1>1, <1>2, <1>4, <1>6, <2>1, HandlerHeadersOK
  <2>3. headers_' = items
    BY <1>1
  <2>. HIDE DEF items
  <2>4. items \in Seq(Item) /\ Len(items) >= Total /\ HandedIn(items) /\ AddedIn(items) /\ FirstIn(items)
    BY <2>2 DEF ItemsOK
  <2>5. Typed'
    BY <1>1, <2>3, <2>4 DEF HeadInv, Typed, TypeOK, OldHeader
  <2>6. Handed' /\ Added' /\ FirstOfName'
    BY <1>1, <2>3, <2>4 DEF NoContentTwice, Handed, HandedIn, Added, AddedIn, FirstOfName, FirstIn, Total
  <2>7. Complete'
    BY <1>1, <1>2, <2>3, <2>4 DEF Complete, Total
  <2>8. OwnWritten'
    BY <1>1, <2>2, <2>3 DEF OwnWritten, Own
  <2>. QED
    BY <1>1, <2>5, <2>6, <2>7, <2>8
    DEF HeadInv, Collecting, Replacing, OthersKept, OwnKept, Agreed, ReplacedAsCopied, InnerKeepsContent, Outside
<1>. QED
  BY <1>5, <1>6

LEMMA HeadBeginReplace == HeadInv /\ BeginReplace => HeadInv'
<1>. SUFFICES ASSUME HeadInv, BeginReplace PROVE HeadInv'
  OBVIOUS
<1>1. /\ phase = "out" /\ phase' = "replace" /\ mail' = original /\ replaced
      /\ UNCHANGED <<original, Given, handler, replaced, headers_, header_pos_, inner, next>>
  BY DEF BeginReplace, inputs, Given
<1>2. next = 1 /\ Len(headers_) >= Total
  BY <1>1 DEF HeadInv, Complete
<1>3. /\ original \in Seq(OldHeader) /\ original \in Seq(Header) /\ Given \in Seq(Header)
      /\ headers_ \in Seq(Item) /\ Total \in Nat
  BY OriginalType DEF HeadInv
<1>4. Typed'
  BY <1>1, <1>3 DEF HeadInv, Typed, TypeOK, OldHeader
<1>5. Given = Written(SubSeq(headers_, 1, next - 1)) \o SubSeq(Given, next, Total)
  <2>1. SubSeq(headers_, 1, next - 1) = <<>> /\ <<>> \o Given = Given
    BY <1>2, <1>3
  <2>2. SubSeq(Given, next, Total) = Given
    BY <1>2, <1>3, SubSeqFull DEF Total
  <2>. QED
    BY <2>1, <2>2, WrittenEmpty
<1>6. Replacing'
  <2>1. next <= Len(headers_) + 1
    BY <1>2, <1>3
  <2>2. Those(mail', Untouched') = Those(original', Untouched')
    BY <1>1
  <2>3. Those(mail', Unsigned) = Given
    BY <1>1 DEF Given
  <2>4. Total' = Total
    BY <1>1 DEF Total
  <2>5. Those(mail', Unsigned) = Written(SubSeq(headers_', 1, next' - 1)) \o SubSeq(Given', next', Total')
    BY <1>1, <1>5, <2>3, <2>4
  <2>. QED
    BY <1>1, <2>1, <2>2, <2>5 DEF Replacing
<1>. QED
  BY <1>1, <1>2, <1>3, <1>4, <1>6
  DEF NoContentTwice, HeadInv, Collecting, Handed, HandedIn, Complete, Added, AddedIn, FirstOfName, FirstIn, OwnWritten, Own,
      OthersKept, OwnKept, Agreed, ReplacedAsCopied, InnerKeepsContent, Outside, Total

\* What set_message writes of the items up to the next one.
LEMMA WrittenNext ==
    ASSUME NEW s \in Seq(Item), NEW p \in 1 .. Len(s)
    PROVE  /\ s[p] \in Item /\ Written(SubSeq(s, 1, p - 1)) \in Seq(Header)
           /\ Written(SubSeq(s, 1, p))
                = IF s[p] \in Deleted THEN Written(SubSeq(s, 1, p - 1))
                  ELSE Append(Written(SubSeq(s, 1, p - 1)), Shown(s[p]))
<1>. DEFINE a == SubSeq(s, 1, p - 1)
            x == s[p]
<1>1. a \in Seq(Item) /\ x \in Item /\ SubSeq(s, 1, p) = Append(a, x)
  OBVIOUS
<1>. HIDE DEF a, x
<1>2. Written(Append(a, x)) = IF x \in Deleted THEN Written(a) ELSE Append(Written(a), Shown(x))
  BY <1>1, WrittenAppend
<1>3. Written(a) \in Seq(Header)
  BY <1>1, WrittenType
<1>. QED
  BY <1>1, <1>2, <1>3 DEF a, x

\* Items that come earlier and have another name, or are deleted: nothing of that name is written.
LEMMA NameNotWritten ==
    ASSUME NEW s \in Seq(Item), NEW name,
           \A k \in 1 .. Len(s) : iequals(s[k].name, name) => s[k] \in Deleted
    PROVE  \A k \in 1 .. Len(Written(s)) : ~iequals(Written(s)[k].name, name)
<1>. DEFINE B == {y \in Item : iequals(y.name, name) => y \in Deleted}
            C == {Shown(y) : y \in B \ Deleted}
            w == Written(s)
<1>1. s \in Seq(B) /\ B \in SUBSET Item
  OBVIOUS
<1>2. w \in Seq(C)
  <2>. HIDE DEF B
  <2>. QED
    BY <1>1, WrittenType
<1>3. \A h \in C : ~iequals(h.name, name)
  BY DEF Shown
<1>. HIDE DEF C, w
<1>4. \A k \in 1 .. Len(w) : ~iequals(w[k].name, name)
  BY <1>2, <1>3
<1>. QED
  BY <1>4 DEF w

\* One item more: the header of the mail that it names is changed as set_message would write it.
LEMMA Replaced ==
    ASSUME HeadInv, NoContentTwice, phase = "replace", NEW p \in 1 .. Len(headers_), p = next,
           headers_[p].modified
    PROVE  Those(smfi_chgheader(mail, headers_[p].name, headers_[p].index, headers_[p].value), Unsigned)
             = Written(SubSeq(headers_, 1, p)) \o SubSeq(Given, p + 1, Total)
<1>. DEFINE x == headers_[p]
            a == SubSeq(headers_, 1, p - 1)
            w == Written(a)
            v == SubSeq(Given, p + 1, Total)
            taken == Those(mail, Unsigned)
<1>1. Given \in Seq(OldHeader) /\ Given \in Seq(Header) /\ Total \in Nat /\ headers_ \in Seq(Item)
  BY OriginalType DEF HeadInv
<1>2. taken = w \o SubSeq(Given, p, Total)
  BY DEF HeadInv, Replacing
<1>3. /\ x \in Item /\ w \in Seq(Header)
      /\ Written(SubSeq(headers_, 1, p)) = IF x \in Deleted THEN w ELSE Append(w, Shown(x))
  BY <1>1, WrittenNext
<1>4. x.index = 1
  BY <1>1 DEF HeadInv, FirstOfName, FirstIn
<1>5. x.name \in Name /\ x.value \in Value /\ (x \in Deleted <=> x.value = Empty)
  BY <1>3 DEF Item, Deleted
<1>6. a \in Seq(Item) /\ Len(a) = p - 1 /\ \A k \in 1 .. p - 1 : a[k] = headers_[k]
  BY <1>1
<1>9. x.name \in Name /\ x.value \in Value /\ mail \in Seq(Header) /\ taken \in Seq(Header)
  BY <1>5, ThoseType DEF HeadInv, Typed, TypeOK
<1>10. IsContent(x.name)
  <2>1. CASE p <= Total
    BY <1>1, <2>1 DEF HeadInv, Handed, HandedIn
  <2>2. CASE ~ (p <= Total)
    BY <1>1, <2>2 DEF HeadInv, Added, AddedIn
  <2>. QED
    BY <2>1, <2>2
<1>11. \A g \in Header : iequals(g.name, x.name) => g \in Unsigned
  BY <1>10, NamesAssumption DEF Unsigned, IsContent, iequals
\* It is enough to look at what is left of the mail without signatures.
<1>12. ASSUME \A j, k \in 1 .. Len(taken) :
                  iequals(taken[j].name, x.name) /\ iequals(taken[k].name, x.name) => j = k
       PROVE  Those(smfi_chgheader(mail, x.name, x.index, x.value), Unsigned)
                = smfi_chgheader(taken, x.name, 1, x.value)
  <2>. HIDE DEF x
  <2>. QED
    BY <1>4, <1>9, <1>11, <1>12, ChangeTaken
<1>7. CASE p <= Total
  <2>. DEFINE o == Given[p]
  <2>1. o \in Header /\ v \in Seq(Header) /\ SubSeq(Given, p, Total) = <<o>> \o v
    BY <1>1, <1>7 DEF Total
  <2>2. iequals(x.name, o.name) /\ IsContent(x.name)
    BY <1>1, <1>7 DEF HeadInv, Handed, HandedIn
  <2>3. p \in DOMAIN Given /\ IsContent(o.name)
    BY <1>1, <1>7, <2>2 DEF Total, IsContent, iequals
  <2>4. ASSUME NEW k \in 1 .. Len(Given), iequals(Given[k].name, x.name)
        PROVE  k = p
    <3>1. iequals(Given[p].name, Given[k].name)
      BY <2>2, <2>4 DEF iequals
    <3>2. k \in DOMAIN Given
      BY <1>1
    <3>. QED
      BY <2>3, <3>1, <3>2 DEF NoContentTwice
  <2>5. \A k \in 1 .. Len(a) : ~iequals(a[k].name, x.name)
    <3>. SUFFICES ASSUME NEW k \in 1 .. p - 1, iequals(headers_[k].name, x.name) PROVE FALSE
      BY <1>6
    <3>1. k \in DOMAIN headers_ /\ k <= Total /\ k \in 1 .. Len(Given)
      BY <1>1, <1>7 DEF Total
    <3>2. iequals(headers_[k].name, Given[k].name)
      BY <3>1 DEF HeadInv, Handed, HandedIn
    <3>3. iequals(Given[k].name, x.name)
      BY <3>2 DEF iequals
    <3>. HIDE DEF x
    <3>4. k = p
      BY <2>4, <3>1, <3>3
    <3>. QED
      BY <3>4
  <2>6. \A k \in 1 .. Len(v) : ~iequals(v[k].name, x.name)
    <3>. SUFFICES ASSUME NEW k \in 1 .. Len(v), iequals(v[k].name, x.name) PROVE FALSE
      OBVIOUS
    <3>1. v[k] = Given[k + p] /\ k + p \in 1 .. Len(Given) /\ k + p # p
      BY <1>1, <1>7 DEF Total
    <3>. HIDE DEF v, x
    <3>. QED
      BY <2>4, <3>1
  <2>. HIDE DEF x, a, o, v
  <2>7. \A k \in 1 .. Len(w) : ~iequals(w[k].name, x.name)
    BY <1>6, <2>5, NameNotWritten
  <2>. HIDE DEF w
  <2>8. taken = Append(w, o) \o v
    <3>1. w \o (<<o>> \o v) = Append(w, o) \o v
      BY <1>3, <2>1
    <3>. QED
      BY <1>2, <2>1, <3>1 DEF v
  <2>9. iequals(o.name, x.name)
    BY <2>2 DEF iequals
  <2>10. smfi_chgheader(Append(w, o) \o v, x.name, 1, x.value)
           = IF x.value = Empty THEN w \o v ELSE Append(w, Shown(x)) \o v
    <3>. DEFINE name == x.name
                value == x.value
                r == smfi_chgheader(Append(w, o) \o v, name, 1, value)
    <3>1. /\ w \in Seq(Header) /\ o \in Header /\ v \in Seq(Header) /\ name \in Name
          /\ iequals(o.name, name)
          /\ NoneOf(w, name) /\ NoneOf(v, name)
      BY <1>3, <1>5, <2>1, <2>6, <2>7, <2>9 DEF NoneOf
    <3>2. Shown(x) = [name |-> name, value |-> value]
      BY DEF Shown
    <3>. HIDE DEF name, value
    <3>3. r = IF value = Empty THEN w \o v ELSE Append(w, [name |-> name, value |-> value]) \o v
      BY <3>1, ChangeOne, SMTT(60)
    <3>. QED
      BY <3>2, <3>3 DEF name, value
  <2>11. \A j, k \in 1 .. Len(taken) : iequals(taken[j].name, x.name) /\ iequals(taken[k].name, x.name) => j = k
    <3>1. /\ w \in Seq(Header) /\ o \in Header /\ v \in Seq(Header)
          /\ \A k \in 1 .. Len(w) : ~iequals(w[k].name, x.name)
          /\ \A k \in 1 .. Len(v) : ~iequals(v[k].name, x.name)
      BY <1>3, <2>1, <2>6, <2>7
    <3>. DEFINE q == Append(w, o) \o v
    <3>2. /\ Len(q) = Len(w) + 1 + Len(v)
          /\ \A k \in 1 .. Len(w) : q[k] = w[k]
          /\ \A k \in 1 .. Len(v) : q[k + (Len(w) + 1)] = v[k]
      BY <3>1
    <3>. HIDE DEF q
    <3>3. ASSUME NEW k \in 1 .. Len(q), iequals(q[k].name, x.name) PROVE k = Len(w) + 1
      <4>1. Len(w) \in Nat /\ Len(v) \in Nat
        BY <3>1
      <4>2. CASE k <= Len(w)
        BY <3>1, <3>2, <3>3, <4>1, <4>2
      <4>3. CASE k > Len(w) + 1
        <5>. DEFINE i == k - (Len(w) + 1)
        <5>1. i \in 1 .. Len(v) /\ i + (Len(w) + 1) = k
          BY <3>2, <4>1, <4>3
        <5>. HIDE DEF i
        <5>. QED
          BY <3>1, <3>2, <3>3, <5>1
      <4>. QED
        BY <4>1, <4>2, <4>3
    <3>. QED
      BY <2>8, <3>3 DEF q
  <2>. HIDE DEF taken
  <2>. QED
    BY <1>3, <1>5, <1>12, <2>8, <2>10, <2>11 DEF x, v
<1>8. CASE ~ (p <= Total)
  <2>1. SubSeq(Given, p, Total) = <<>> /\ v = <<>>
    BY <1>1, <1>8
  <2>2. /\ x.value = NewValue
        /\ \A j \in 1 .. p - 1 : iequals(headers_[j].name, x.name) => headers_[j] \in Deleted
    BY <1>1, <1>8 DEF HeadInv, Added, AddedIn
  <2>3. \A k \in 1 .. Len(a) : iequals(a[k].name, x.name) => a[k] \in Deleted
    BY <1>6, <2>2
  <2>. HIDE DEF x, a
  <2>4. \A k \in 1 .. Len(w) : ~iequals(w[k].name, x.name)
    BY <1>6, <2>3, NameNotWritten
  <2>. HIDE DEF w, v
  <2>5. taken = w
    BY <1>2, <1>3, <2>1
  <2>6. smfi_chgheader(w, x.name, 1, x.value) = Append(w, Shown(x))
    BY <1>3, <1>5, <2>2, <2>4, ChangeNone, ValueAssumption DEF Shown
  <2>7. Append(w, Shown(x)) \o <<>> = Append(w, Shown(x))
    <3>1. Shown(x) \in Header
      BY <1>3 DEF Shown, Item, Header
    <3>. QED
      BY <1>3, <3>1
  <2>8. x \notin Deleted
    BY <1>5, <2>2, ValueAssumption
  <2>9. \A j, k \in 1 .. Len(taken) : iequals(taken[j].name, x.name) /\ iequals(taken[k].name, x.name) => j = k
    BY <2>4, <2>5
  <2>. HIDE DEF taken
  <2>. QED
    BY <1>3, <1>12, <2>1, <2>5, <2>6, <2>7, <2>8, <2>9 DEF x, v
<1>. QED
  BY <1>7, <1>8

\* An item that is not modified: the mail has that header as it came.
LEMMA Passed ==
    ASSUME HeadInv, NoContentTwice, phase = "replace", NEW p \in 1 .. Len(headers_), p = next,
           ~headers_[p].modified
    PROVE  Those(mail, Unsigned) = Written(SubSeq(headers_, 1, p)) \o SubSeq(Given, p + 1, Total)
<1>. DEFINE x == headers_[p]
            w == Written(SubSeq(headers_, 1, p - 1))
            v == SubSeq(Given, p + 1, Total)
            o == Given[p]
<1>1. Given \in Seq(OldHeader) /\ Given \in Seq(Header) /\ Total \in Nat /\ headers_ \in Seq(Item)
  BY OriginalType DEF HeadInv
<1>2. Those(mail, Unsigned) = w \o SubSeq(Given, p, Total)
  BY DEF HeadInv, Replacing
<1>3. /\ x \in Item /\ w \in Seq(Header)
      /\ Written(SubSeq(headers_, 1, p)) = IF x \in Deleted THEN w ELSE Append(w, Shown(x))
  BY <1>1, WrittenNext
<1>4. p <= Total
  BY <1>1 DEF HeadInv, Added, AddedIn
<1>5. o \in OldHeader /\ o \in Header /\ v \in Seq(Header) /\ SubSeq(Given, p, Total) = <<o>> \o v
  BY <1>1, <1>4 DEF Total
<1>6. x.name = o.name /\ x.value = o.value
  BY <1>1, <1>4 DEF HeadInv, Handed, HandedIn
<1>7. Shown(x) = o /\ x \notin Deleted
  BY <1>5, <1>6 DEF Shown, OldHeader, Deleted
<1>. HIDE DEF x, w, v, o
<1>8. w \o (<<o>> \o v) = Append(w, o) \o v
  BY <1>3, <1>5
<1>. QED
  BY <1>2, <1>3, <1>5, <1>7, <1>8 DEF x, v

LEMMA HeadReplaceHeader == HeadInv /\ ReplaceHeader => HeadInv'
<1>. SUFFICES ASSUME HeadInv, ReplaceHeader PROVE HeadInv'
  OBVIOUS
<1>. DEFINE x == headers_[next]
<1>1. /\ phase = "replace" /\ next \in 1 .. Len(headers_) /\ mail \in Seq(Header)
      /\ UNCHANGED <<original, Given, handler, replaced, headers_, header_pos_, inner>>
      /\ original \in Seq(OldHeader) /\ headers_ \in Seq(Item) /\ Total \in Nat /\ DOMAIN headers_ = 1 .. Len(headers_)
  BY OriginalType DEF ReplaceHeader, inputs, HeadInv, Typed, TypeOK, Given
<1>2. x \in Item
  BY <1>1
<1>3. CASE phase' = "failed" /\ UNCHANGED <<mail, next>>
  <2>1. Typed'
    BY <1>1, <1>3 DEF HeadInv, Typed, TypeOK, OldHeader
  <2>. QED
    BY <1>1, <1>3, <2>1
    DEF NoContentTwice, HeadInv, Collecting, Handed, HandedIn, Complete, Added, AddedIn, FirstOfName, FirstIn, OwnWritten, Own,
        Replacing, OthersKept, OwnKept, Agreed, ReplacedAsCopied, InnerKeepsContent, Outside, Total
<1>4. CASE \/ x.modified /\ mail' = smfi_chgheader(mail, x.name, x.index, x.value)
                 /\ next' = next + 1 /\ phase' = phase
           \/ ~x.modified /\ next' = next + 1 /\ UNCHANGED <<mail, phase>>
  <2>1. next' = next + 1 /\ phase' = "replace"
    BY <1>1, <1>4
  <2>2. mail' \in Seq(Header) /\ Those(mail', Untouched) = Those(mail, Untouched)
    <3>1. CASE x.modified
      <4>1. IsContent(x.name) /\ handler # "noop"
        <5>1. CASE next <= Total
          BY <1>1, <3>1, <5>1 DEF HeadInv, Handed, HandedIn
        <5>2. CASE ~ (next <= Total)
          BY <1>1, <5>2 DEF HeadInv, Added, AddedIn
        <5>. QED
          BY <5>1, <5>2
      <4>2. x.name \in Name /\ x.value \in Value /\ x.index \in Nat \ {0}
        BY <1>2 DEF Item
      <4>3. mail' = smfi_chgheader(mail, x.name, x.index, x.value)
        BY <1>4, <3>1
      <4>4. \A h \in Header : iequals(h.name, x.name) => h \notin Untouched
        BY <4>1 DEF Untouched, IsContent, iequals
      <4>5. mail \in Seq(Header)
        BY <1>1
      <4>. HIDE DEF x
      <4>. QED
        BY <4>2, <4>3, <4>4, <4>5, ChangeKeeps
    <3>2. CASE ~x.modified
      BY <1>1, <1>4, <3>2
    <3>. QED
      BY <3>1, <3>2
  <2>3. ASSUME NoContentTwice
        PROVE  Those(mail', Unsigned) = Written(SubSeq(headers_, 1, next)) \o SubSeq(Given, next + 1, Total)
    <3>1. CASE x.modified
      BY <1>1, <1>4, <2>3, <3>1, Replaced
    <3>2. CASE ~x.modified
      BY <1>1, <1>4, <2>3, <3>2, Passed
    <3>. QED
      BY <3>1, <3>2
  <2>4. Typed'
    BY <1>1, <2>1, <2>2 DEF HeadInv, Typed, TypeOK, OldHeader
  <2>5. Replacing'
    <3>1. next' <= Len(headers_') + 1 /\ next' - 1 = next
      BY <1>1, <2>1
    <3>2. Those(mail', Untouched') = Those(original', Untouched')
      BY <1>1, <2>2 DEF HeadInv, Replacing, Untouched
    <3>3. NoContentTwice =>
            Those(mail', Unsigned) = Written(SubSeq(headers_', 1, next' - 1)) \o SubSeq(Given', next', Total')
      BY <1>1, <2>1, <2>3, <3>1 DEF Total
    <3>. QED
      BY <1>1, <3>1, <3>2, <3>3 DEF NoContentTwice, Replacing
  <2>. QED
    BY <1>1, <2>1, <2>4, <2>5
    DEF NoContentTwice, HeadInv, Collecting, Handed, HandedIn, Complete, Added, AddedIn, FirstOfName, FirstIn, OwnWritten, Own,
        OthersKept, OwnKept, Agreed, ReplacedAsCopied, InnerKeepsContent, Outside, Total
<1>. QED
  BY <1>3, <1>4 DEF ReplaceHeader

LEMMA HeadBeginStrip == HeadInv /\ BeginStrip => HeadInv'
<1>. SUFFICES ASSUME HeadInv, BeginStrip PROVE HeadInv'
  OBVIOUS
<1>1. /\ phase = "replace" /\ next > Len(headers_) /\ phase' = "strip" /\ next' = 1
      /\ UNCHANGED <<original, Given, handler, replaced, headers_, header_pos_, inner, mail>>
      /\ next \in Nat /\ Given \in Seq(OldHeader) /\ Given \in Seq(Header) /\ mail \in Seq(Header)
      /\ headers_ \in Seq(Item) /\ Total \in Nat
  BY OriginalType DEF BeginStrip, inputs, HeadInv, Typed, TypeOK, Given
<1>2. next = Len(headers_) + 1 /\ Len(headers_) >= Total /\ replaced
  BY <1>1 DEF HeadInv, Replacing, Complete
<1>3. ASSUME NoContentTwice PROVE Those(mail, Unsigned) = Written(headers_)
  <2>. DEFINE w == Written(headers_)
  <2>1. Those(mail, Unsigned) = Written(SubSeq(headers_, 1, next - 1)) \o SubSeq(Given, next, Total)
    BY <1>1, <1>3 DEF HeadInv, Replacing
  <2>2. SubSeq(headers_, 1, next - 1) = headers_
    <3>1. next - 1 = Len(headers_)
      BY <1>1, <1>2
    <3>. QED
      BY <1>1, <3>1, SubSeqFull
  <2>3. SubSeq(Given, next, Total) = <<>>
    BY <1>1, <1>2
  <2>4. w \in Seq(Header)
    BY <1>1, WrittenType
  <2>5. Those(mail, Unsigned) = w \o <<>>
    BY <2>1, <2>2, <2>3
  <2>. HIDE DEF w
  <2>6. Those(mail, Unsigned) = w
    BY <2>4, <2>5
  <2>. QED
    BY <2>6 DEF w
<1>4. Typed'
  BY <1>1 DEF HeadInv, Typed, TypeOK, OldHeader
<1>5. OthersKept'
  BY <1>1 DEF HeadInv, Replacing, OthersKept, Outside, Untouched
<1>8. Those(Those(mail, Unsigned), ContentHeader) = Those(mail, ContentHeader)
  <2>1. ContentHeader \subseteq Unsigned
    BY NamesAssumption DEF ContentHeader, Unsigned, IsContent
  <2>. QED
    BY <1>1, <2>1, ThoseThose
<1>6. OwnKept'
  BY <1>1, <1>2, <1>3, <1>8 DEF NoContentTwice, HeadInv, OwnWritten, OwnKept, Own
<1>7. Agreed'
  BY <1>1, <1>3 DEF NoContentTwice, Agreed, ReplacedAsCopied
<1>. QED
  BY <1>1, <1>2, <1>4, <1>5, <1>6, <1>7
  DEF NoContentTwice, HeadInv, Collecting, Handed, HandedIn, Complete, Added, AddedIn, FirstOfName, FirstIn, OwnWritten, Own,
      Replacing, InnerKeepsContent, Total

LEMMA HeadStripHeader == HeadInv /\ StripHeader => HeadInv'
<1>. SUFFICES ASSUME HeadInv, StripHeader PROVE HeadInv'
  OBVIOUS
<1>. DEFINE name == StripHeaders[next]
<1>1. /\ phase = "strip" /\ next \in 1 .. Len(StripHeaders) /\ mail \in Seq(Header)
      /\ UNCHANGED <<original, Given, handler, replaced, headers_, header_pos_, inner>>
  BY StripAssumption DEF StripHeader, inputs, HeadInv, Typed, TypeOK, Given
<1>2. name \in Name /\ Stripped(name) /\ replaced
  <2>1. name \in Name
    BY <1>1, StripAssumption
  <2>2. next \in DOMAIN StripHeaders /\ iequals(StripHeaders[next], name)
    BY <1>1, StripAssumption DEF iequals
  <2>. QED
    BY <1>1, <2>1, <2>2 DEF Stripped, HeadInv, Complete
<1>3. CASE phase' = "failed" /\ UNCHANGED <<mail, next>>
  <2>1. Typed'
    BY <1>1, <1>3 DEF HeadInv, Typed, TypeOK, OldHeader
  <2>. QED
    BY <1>1, <1>3, <2>1
    DEF NoContentTwice, HeadInv, Collecting, Handed, HandedIn, Complete, Added, AddedIn, FirstOfName, FirstIn, OwnWritten, Own,
        Replacing, OthersKept, OwnKept, Agreed, ReplacedAsCopied, InnerKeepsContent, Outside, Total
<1>4. CASE /\ next' = next + 1 /\ UNCHANGED phase
           /\ mail' = smfi_chgheader(mail, name, 1, Empty) \/ UNCHANGED mail
  <2>1. ASSUME NEW S, \A h \in Header : iequals(h.name, name) => h \notin S
        PROVE  mail' \in Seq(Header) /\ Those(mail', S) = Those(mail, S)
    <3>1. CASE mail' = smfi_chgheader(mail, name, 1, Empty)
      <4>1. Empty \in Value /\ 1 \in Nat \ {0}
        BY DEF Value
      <4>. HIDE DEF name
      <4>. QED
        BY <1>1, <1>2, <2>1, <3>1, <4>1, ChangeKeeps
    <3>2. CASE UNCHANGED mail
      BY <1>1, <3>2
    <3>. QED
      BY <1>4, <3>1, <3>2
  <2>2. mail' \in Seq(Header) /\ Those(mail', Untouched) = Those(mail, Untouched)
    <3>1. \A h \in Header : iequals(h.name, name) => h \notin Untouched
      BY <1>2 DEF Untouched, Stripped, iequals
    <3>. QED
      BY <2>1, <3>1
  <2>3. ASSUME NoContentStripped PROVE Those(mail', ContentHeader) = Those(mail, ContentHeader)
    <3>1. ~IsContent(name)
      BY <1>1, <2>3, StripAssumption DEF NoContentStripped
    <3>2. \A h \in Header : iequals(h.name, name) => h \notin ContentHeader
      BY <3>1 DEF ContentHeader, IsContent, iequals
    <3>. QED
      BY <2>1, <3>2
  <2>4. next' # 1 /\ next' \in Nat \ {0} /\ phase' = "strip"
    BY <1>1, <1>4
  <2>5. Typed'
    BY <1>1, <2>2, <2>4 DEF HeadInv, Typed, TypeOK, OldHeader
  <2>6. OthersKept'
    BY <1>1, <2>2 DEF HeadInv, OthersKept, Outside, Untouched
  <2>7. OwnKept'
    BY <1>1, <1>2, <2>3 DEF NoContentTwice, HeadInv, OwnKept, Own, Outside
  <2>. QED
    BY <1>1, <1>2, <2>4, <2>5, <2>6, <2>7
    DEF NoContentTwice, HeadInv, Collecting, Handed, HandedIn, Complete, Added, AddedIn, FirstOfName, FirstIn, OwnWritten, Own,
        Replacing, Agreed, ReplacedAsCopied, InnerKeepsContent, Total
<1>. QED
  BY <1>3, <1>4 DEF StripHeader

LEMMA HeadEndStrip == HeadInv /\ EndStrip => HeadInv'
<1>. SUFFICES ASSUME HeadInv, EndStrip PROVE HeadInv'
  OBVIOUS
<1>1. /\ phase = "strip" /\ phase' = "done"
      /\ UNCHANGED <<original, Given, handler, replaced, headers_, header_pos_, inner, mail, next>>
  BY DEF EndStrip, inputs, Given
<1>2. Typed'
  BY <1>1 DEF HeadInv, Typed, TypeOK, OldHeader
<1>. QED
  BY <1>1, <1>2
  DEF NoContentTwice, HeadInv, Collecting, Handed, HandedIn, Complete, Added, AddedIn, FirstOfName, FirstIn, OwnWritten, Own,
      Replacing, OthersKept, OwnKept, Agreed, ReplacedAsCopied, InnerKeepsContent, Outside, Untouched, Total

\* A copy: all that is written of the items, and the signature.
LEMMA HeadSetMessage == HeadInv /\ set_message => HeadInv'
<1>. SUFFICES ASSUME HeadInv, set_message PROVE HeadInv'
  OBVIOUS
<1>. DEFINE sig == Modified("X-GWMilter-Signature")
            s == Set("X-GWMilter-Signature")
            w == Written(headers_)
<1>1. /\ phase = "out" /\ phase' = "done" /\ ~replaced
      /\ mail' = Written(Append(headers_, sig))
      /\ UNCHANGED <<original, Given, handler, replaced, headers_, header_pos_, inner, next>>
      /\ headers_ \in Seq(Item)
  BY DEF set_message, inputs, HeadInv, Typed, TypeOK, Given
<1>2. Len(headers_) >= Total
  BY <1>1 DEF HeadInv, Complete
<1>3. sig \in Item /\ sig \notin Deleted /\ Shown(sig) = s /\ s.name = "X-GWMilter-Signature"
  BY NamesAre, ModifiedIs DEF Set
<1>4. s \in Header /\ s \notin Untouched /\ s \notin ContentHeader
  BY NamesAre, NamesAssumption DEF Set, Header, Value, Untouched, ContentHeader
<1>5. w \in Seq(Header)
  BY <1>1, WrittenType
<1>6. Those(w, Untouched) = Those(original, Untouched)
  BY <1>2, OthersWritten DEF HeadInv
<1>7. handler # "noop" => Those(w, ContentHeader) = Own
  BY <1>1 DEF HeadInv, OwnWritten
<1>. HIDE DEF sig, s
<1>8. mail' = Append(w, s)
  BY <1>1, <1>3, WrittenAppend
<1>. HIDE DEF w
<1>9. Append(w, s) \in Seq(Header)
  BY <1>4, <1>5
<1>10. Those(Append(w, s), Untouched) = Those(w, Untouched)
  BY <1>4, <1>5, ThoseAppend
<1>11. Those(Append(w, s), ContentHeader) = Those(w, ContentHeader)
  BY <1>4, <1>5, ThoseAppend
<1>12. Typed'
  BY <1>1, <1>8, <1>9 DEF HeadInv, Typed, TypeOK, OldHeader
<1>13. OthersKept'
  BY <1>1, <1>6, <1>8, <1>10 DEF OthersKept, Untouched
<1>14. OwnKept'
  BY <1>1, <1>7, <1>8, <1>11 DEF OwnKept, Own
<1>. QED
  BY <1>1, <1>12, <1>13, <1>14
  DEF NoContentTwice, HeadInv, Collecting, Handed, HandedIn, Complete, Added, AddedIn, FirstOfName, FirstIn, OwnWritten, Own,
      Replacing, Agreed, ReplacedAsCopied, InnerKeepsContent, Total

LEMMA HeadOver == HeadInv /\ UNCHANGED vars => HeadInv'
<1>. SUFFICES ASSUME HeadInv, UNCHANGED vars PROVE HeadInv'
  OBVIOUS
<1>1. UNCHANGED <<original, Given, handler, replaced, headers_, header_pos_, inner, mail, phase, next>>
  BY DEF vars, inputs, Given
<1>2. Typed'
  BY <1>1 DEF HeadInv, Typed, TypeOK, OldHeader
<1>. QED
  BY <1>1, <1>2
  DEF NoContentTwice, HeadInv, Collecting, Handed, HandedIn, Complete, Added, AddedIn, FirstOfName, FirstIn, OwnWritten, Own,
      Replacing, OthersKept, OwnKept, Agreed, ReplacedAsCopied, InnerKeepsContent, Outside, Untouched, Total

LEMMA HeadNext == HeadInv /\ [Next]_vars => HeadInv'
BY HeadHeader, HeadWrite, HeadEncrypt, HeadGetHeaders, HeadBeginReplace, HeadReplaceHeader,
   HeadBeginStrip, HeadStripHeader, HeadEndStrip, HeadSetMessage, HeadOver
DEF Next, Over

\* HeadInv holds in every state.
THEOREM Invariant == Spec => []HeadInv
BY InitHead, HeadNext, PTL DEF Spec

\* The variables of the handler and of the mail hold values of their types.
THEOREM TypeCorrect == Spec => []TypeOK
<1>1. HeadInv => TypeOK
  BY DEF HeadInv, Typed
<1>. QED
  BY <1>1, Invariant, PTL

\* replace_headers, strip_headers and set_message: a header that is neither Content-* nor stripped
\* leaves as it came and where it was among its like, whatever mail it was in.
THEOREM Others == Spec => []OthersKept
<1>1. HeadInv => OthersKept
  BY DEF HeadInv
<1>. QED
  BY <1>1, Invariant, PTL

\* preprocess: the encrypted part has all Content-* headers of the mail with their own values,
\* however many of a name there are.
THEOREM InnerContent == Spec => []InnerKeepsContent
<1>1. HeadInv => InnerKeepsContent
  BY DEF HeadInv
<1>. QED
  BY <1>1, Invariant, PTL

\* replace_headers makes of the MTA's mail, but for signatures, what set_message writes of the same
\* items, if no Content-* header comes twice: then the positions it names are those the headers have.
THEOREM Agree == Spec => [](NoContentTwice => ReplacedAsCopied)
<1>1. HeadInv => (NoContentTwice => ReplacedAsCopied)
  BY DEF HeadInv, Agreed
<1>. QED
  BY <1>1, Invariant, PTL

\* The handler's own headers are one of each name, and they are the names it should have.
LEMMA OwnIs ==
    ASSUME handler # "noop", Those(mail, ContentHeader) = Own
    PROVE  OwnContentOnly
<1>. DEFINE content == Those(mail, ContentHeader)
            own == {"content-type"} \cup
                IF handler = "smime"
                THEN {"content-transfer-encoding", "content-disposition", "content-description"}
                ELSE {}
<1>1. /\ Lower["Content-Type"] = "content-type"
      /\ Lower["Content-Transfer-Encoding"] = "content-transfer-encoding"
      /\ Lower["Content-Disposition"] = "content-disposition"
      /\ Lower["Content-Description"] = "content-description"
  BY NamesAssumption
<1>2. CASE handler = "smime"
  <2>1. /\ DOMAIN content = 1 .. 4
        /\ content[1] = Set("Content-Type") /\ content[2] = Set("Content-Transfer-Encoding")
        /\ content[3] = Set("Content-Disposition") /\ content[4] = Set("Content-Description")
    BY <1>2 DEF Own
  <2>. HIDE DEF content
  <2>2. \A k \in DOMAIN content : content[k].value = NewValue
    BY <2>1 DEF Set
  <2>3. /\ Lower[content[1].name] = "content-type"
        /\ Lower[content[2].name] = "content-transfer-encoding"
        /\ Lower[content[3].name] = "content-disposition"
        /\ Lower[content[4].name] = "content-description"
    BY <1>1, <2>1 DEF Set
  <2>4. \A j, k \in DOMAIN content : iequals(content[j].name, content[k].name) => j = k
    BY <2>1, <2>3 DEF iequals
  <2>5. {Lower[content[k].name] : k \in DOMAIN content} = own
    BY <1>2, <2>1, <2>3
  <2>. QED
    BY <2>2, <2>4, <2>5 DEF OwnContentOnly, content
<1>3. CASE handler # "smime"
  <2>1. DOMAIN content = 1 .. 1 /\ content[1] = Set("Content-Type")
    BY <1>3 DEF Own
  <2>. HIDE DEF content
  <2>2. content[1].value = NewValue /\ Lower[content[1].name] = "content-type"
    BY <1>1, <2>1 DEF Set
  <2>3. {Lower[content[k].name] : k \in DOMAIN content} = own
    BY <1>3, <2>1, <2>2
  <2>. QED
    BY <2>1, <2>2, <2>3 DEF OwnContentOnly, content
<1>. QED
  BY <1>2, <1>3

\* A copy has of the Content-* headers only the handler's own, whatever mail it is made of.
THEOREM OwnContentInCopies == Spec => [](~replaced => OwnContentOnly)
<1>1. HeadInv => (~replaced => OwnContentOnly)
  <2>. SUFFICES ASSUME HeadInv, ~replaced, Outside, handler # "noop" PROVE OwnContentOnly
    BY DEF OwnContentOnly
  <2>1. Those(mail, ContentHeader) = Own
    BY DEF HeadInv, OwnKept
  <2>. QED
    BY <2>1, OwnIs
<1>. QED
  BY <1>1, Invariant, PTL

\* ... and so has the MTA's mail, if none of its Content-* headers comes twice and strip_headers names
\* none of them: otherwise a repeated one may stay, or the handler's own be stripped again.
THEOREM OwnContent == NoContentStripped => (Spec => [](NoContentTwice => OwnContentOnly))
<1>. SUFFICES ASSUME NoContentStripped PROVE Spec => [](NoContentTwice => OwnContentOnly)
  OBVIOUS
<1>1. HeadInv => (NoContentTwice => OwnContentOnly)
  <2>. SUFFICES ASSUME HeadInv, NoContentTwice, Outside, handler # "noop"
                PROVE  OwnContentOnly
    BY DEF OwnContentOnly
  <2>1. Those(mail, ContentHeader) = Own
    BY DEF HeadInv, OwnKept
  <2>. QED
    BY <2>1, OwnIs
<1>. QED
  BY <1>1, Invariant, PTL
=============================================================================
