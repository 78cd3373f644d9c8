--------------------------- MODULE HeaderFoldProofs ---------------------------
(***************************************************************************)
(* The invariants of HeaderFold, for every size of the armour's lines, of  *)
(* a signature, of the name of the header and of max_line_size.            *)
(*                                                                         *)
(* What Without and Armour compute for every text is proved by induction   *)
(* over the beginnings of the text: a set of numbers that holds 0, and     *)
(* with n also n + 1, holds all of them, because one that is missing would *)
(* be the least one missing.                                               *)
(***************************************************************************)
EXTENDS HeaderFold, SequenceTheorems, WellFoundedInduction, TLAPS

-----------------------------------------------------------------------------
(* Induction over 0 .. m, and the least of a set of numbers. *)

Below == {p \in Nat \X Nat : p[1] < p[2]}

LEMMA BelowWellFounded == IsWellFoundedOn(Below, Nat)
<1>1. ~ \E f \in [Nat -> Nat] : \A n \in Nat : f[n + 1] < f[n]
  BY NatLessThanWellFounded DEF IsWellFoundedOn, OpToRel
<1>. QED
  BY <1>1 DEF Below, IsWellFoundedOn

LEMMA MinIsLeast ==
    ASSUME NEW S \in SUBSET Nat, S # {}
    PROVE  Min(S) \in S /\ \A y \in S : Min(S) <= y
<1>1. PICK x \in S : \A y \in S : <<y, x>> \notin Below
  BY WFMin, BelowWellFounded
<1>2. \A y \in S : ~ (y < x)
  BY <1>1 DEF Below
<1>3. \A y \in S : x <= y
  BY <1>2
<1>. QED
  BY <1>3 DEF Min

LEMMA UpTo ==
    ASSUME NEW m \in Nat, NEW T, 0 \in T, \A n \in 0 .. m - 1 : n \in T => n + 1 \in T
    PROVE  \A n \in 0 .. m : n \in T
<1>. DEFINE B == (0 .. m) \ T
<1>. SUFFICES ASSUME B # {} PROVE FALSE
  OBVIOUS
<1>1. Min(B) \in B /\ \A y \in B : Min(B) <= y
  BY MinIsLeast
<1>. DEFINE x == Min(B)
<1>2. x \in 0 .. m /\ x # 0 /\ x - 1 \notin B
  BY <1>1
<1>. HIDE DEF x
<1>. QED
  BY <1>1, <1>2

\* f holds what is left of each prefix of s.
IsKept(f, s, C, m) ==
    f = [n \in 0 .. m |->
            IF n = 0 THEN <<>> ELSE IF s[n] \in C THEN f[n - 1] ELSE Append(f[n - 1], s[n])]

LEMMA KeptExists ==
    ASSUME NEW s \in Seq(Int), NEW C
    PROVE  \E f : IsKept(f, s, C, Len(s))
<1>. DEFINE T == {m \in 0 .. Len(s) : \E f : IsKept(f, s, C, m)}
<1>1. 0 \in T
  <2>. DEFINE f == [n \in 0 .. 0 |-> <<>>]
  <2>1. IsKept(f, s, C, 0)
    BY DEF IsKept
  <2>. QED
    BY <2>1
<1>2. ASSUME NEW m \in 0 .. Len(s) - 1, m \in T
      PROVE  m + 1 \in T
  <2>1. PICK f : IsKept(f, s, C, m)
    BY <1>2
  <2>. DEFINE g == [n \in 0 .. m + 1 |-> IF n <= m THEN f[n] ELSE IF s[n] \in C THEN f[m] ELSE Append(f[m], s[n])]
  <2>2. ASSUME NEW n \in 0 .. m + 1
        PROVE  g[n] = IF n = 0 THEN <<>> ELSE IF s[n] \in C THEN g[n - 1] ELSE Append(g[n - 1], s[n])
    <3>1. CASE n = 0
      BY <2>1, <3>1 DEF IsKept
    <3>2. CASE n \in 1 .. m
      <4>1. n - 1 \in 0 .. m /\ n \in 0 .. m
        BY <3>2
      <4>2. g[n - 1] = f[n - 1] /\ g[n] = f[n]
        BY <3>2, <4>1
      <4>3. f[n] = IF n = 0 THEN <<>> ELSE IF s[n] \in C THEN f[n - 1] ELSE Append(f[n - 1], s[n])
        BY <2>1, <4>1 DEF IsKept
      <4>. QED
        BY <4>2, <4>3
    <3>3. CASE n = m + 1
      <4>1. g[n - 1] = f[m] /\ n # 0 /\ ~ (n <= m)
        BY <3>3
      <4>. QED
        BY <3>3, <4>1
    <3>. QED
      BY <3>1, <3>2, <3>3
  <2>3. IsKept(g, s, C, m + 1)
    BY <2>2 DEF IsKept
  <2>. QED
    BY <2>3
<1>3. \A n \in 0 .. Len(s) : n \in T
  <2>. HIDE DEF T
  <2>1. \A n \in 0 .. Len(s) - 1 : n \in T => n + 1 \in T
    BY <1>2
  <2>2. Len(s) \in Nat
    OBVIOUS
  <2>. QED BY <1>1, <2>1, <2>2, UpTo
<1>. QED BY <1>3

LEMMA KeptIs ==
    ASSUME NEW s \in Seq(Int), NEW C
    PROVE  \E f : IsKept(f, s, C, Len(s)) /\ Without(s, C) = f[Len(s)]
BY KeptExists DEF Without, IsKept

LEMMA KeptStep ==
    ASSUME NEW f, NEW s, NEW C, NEW m \in Nat, IsKept(f, s, C, m)
    PROVE  /\ f[0] = <<>>
           /\ \A n \in 0 .. m - 1 : f[n + 1] = IF s[n + 1] \in C THEN f[n] ELSE Append(f[n], s[n + 1])
<1>1. f[0] = <<>>
  BY DEF IsKept
<1>2. ASSUME NEW n \in 0 .. m - 1
      PROVE  f[n + 1] = IF s[n + 1] \in C THEN f[n] ELSE Append(f[n], s[n + 1])
  <2>1. n + 1 \in 0 .. m /\ n + 1 # 0 /\ (n + 1) - 1 = n
    OBVIOUS
  <2>. QED
    BY <2>1 DEF IsKept
<1>. QED
  BY <1>1, <1>2

\* Texts that begin alike.
LEMMA KeptAgree ==
    ASSUME NEW s \in Seq(Int), NEW t \in Seq(Int), NEW C, NEW f, NEW g, NEW m \in Nat, m <= Len(s), m <= Len(t),
           IsKept(f, s, C, Len(s)), IsKept(g, t, C, Len(t)), \A i \in 1 .. m : s[i] = t[i]
    PROVE  f[m] = g[m]
<1>. DEFINE T == {n \in 0 .. m : f[n] = g[n]}
<1>1. 0 \in T
  <2>1. f[0] = <<>> /\ g[0] = <<>>
    BY KeptStep
  <2>. QED
    BY <2>1
<1>2. ASSUME NEW n \in 0 .. m - 1, n \in T
      PROVE  n + 1 \in T
  <2>1. n \in 0 .. Len(s) - 1 /\ n \in 0 .. Len(t) - 1 /\ n + 1 \in 1 .. m /\ Len(s) \in Nat /\ Len(t) \in Nat
    OBVIOUS
  <2>2. f[n + 1] = IF s[n + 1] \in C THEN f[n] ELSE Append(f[n], s[n + 1])
    BY <2>1, KeptStep
  <2>3. g[n + 1] = IF t[n + 1] \in C THEN g[n] ELSE Append(g[n], t[n + 1])
    BY <2>1, KeptStep
  <2>. QED
    BY <1>2, <2>1, <2>2, <2>3
<1>3. \A n \in 0 .. m : n \in T
  <2>. HIDE DEF T
  <2>1. \A n \in 0 .. m - 1 : n \in T => n + 1 \in T
    BY <1>2
  <2>. QED
    BY <1>1, <2>1, UpTo
<1>. QED
  BY <1>3

LEMMA WithoutEmpty == ASSUME NEW C PROVE Without(<<>>, C) = <<>>
<1>. DEFINE e == <<>>
<1>1. e \in Seq(Int) /\ Len(e) = 0
  OBVIOUS
<1>. HIDE DEF e
<1>2. PICK f : IsKept(f, e, C, Len(e)) /\ Without(e, C) = f[Len(e)]
  BY <1>1, KeptIs
<1>3. f[0] = <<>>
  BY <1>1, <1>2, KeptStep
<1>. QED
  BY <1>1, <1>2, <1>3 DEF e

LEMMA WithoutAppend ==
    ASSUME NEW s \in Seq(Int), NEW c \in Int, NEW C
    PROVE  Without(Append(s, c), C) = IF c \in C THEN Without(s, C) ELSE Append(Without(s, C), c)
<1>. DEFINE t == Append(s, c)
            m == Len(s)
<1>1. t \in Seq(Int) /\ Len(t) = m + 1 /\ t[m + 1] = c /\ \A i \in 1 .. m : s[i] = t[i]
  OBVIOUS
<1>2. m \in Nat /\ m <= Len(s)
  OBVIOUS
<1>3. PICK f : IsKept(f, s, C, Len(s)) /\ Without(s, C) = f[m]
  BY KeptIs
<1>. HIDE DEF t
<1>4. PICK g : IsKept(g, t, C, Len(t)) /\ Without(t, C) = g[Len(t)]
  BY <1>1, KeptIs
<1>5. m <= Len(t) /\ Len(t) \in Nat /\ m \in 0 .. Len(t) - 1
  <2>. HIDE DEF m
  <2>. QED
    BY <1>1, <1>2
<1>6. f[m] = g[m]
  <2>. HIDE DEF m
  <2>. QED
    BY ONLY s \in Seq(Int), <1>1, <1>2, <1>3, <1>4, <1>5, KeptAgree
<1>7. g[m + 1] = IF t[m + 1] \in C THEN g[m] ELSE Append(g[m], t[m + 1])
  <2>. HIDE DEF m
  <2>. QED
    BY <1>4, <1>5, KeptStep
<1>8. Without(t, C) = IF c \in C THEN Without(s, C) ELSE Append(Without(s, C), c)
  <2>. HIDE DEF m
  <2>. QED
    BY <1>1, <1>3, <1>4, <1>6, <1>7
<1>. QED
  BY <1>8 DEF t

\* Induction over texts: a set with the empty one, closed under a character more, holds them all.
LEMMA EveryText ==
    ASSUME NEW A, NEW T, <<>> \in T, \A u \in Seq(A) : u \in T => \A c \in A : Append(u, c) \in T
    PROVE  Seq(A) \subseteq T
<1>. SUFFICES ASSUME NEW t \in Seq(A) PROVE t \in T
  OBVIOUS
<1>. DEFINE G == {n \in 0 .. Len(t) : SubSeq(t, 1, n) \in T}
<1>1. 0 \in G
  <2>1. SubSeq(t, 1, 0) = <<>> /\ 0 \in 0 .. Len(t)
    OBVIOUS
  <2>. QED
    BY <2>1
<1>2. ASSUME NEW n \in 0 .. Len(t) - 1, n \in G
      PROVE  n + 1 \in G
  <2>1. /\ SubSeq(t, 1, n) \in Seq(A) /\ t[n + 1] \in A /\ n + 1 \in 0 .. Len(t)
        /\ SubSeq(t, 1, n + 1) = Append(SubSeq(t, 1, n), t[n + 1])
    OBVIOUS
  <2>. QED
    BY <1>2, <2>1
<1>3. Len(t) \in Nat /\ Len(t) \in 0 .. Len(t) /\ SubSeq(t, 1, Len(t)) = t
  OBVIOUS
<1>4. \A n \in 0 .. Len(t) : n \in G
  <2>. HIDE DEF G
  <2>1. \A n \in 0 .. Len(t) - 1 : n \in G => n + 1 \in G
    BY <1>2
  <2>. QED
    BY <1>1, <1>3, <2>1, UpTo
<1>. QED
  BY <1>3, <1>4

\* What is left is a text, no longer than the whole, and the whole if nothing is to go.
LEMMA WithoutType ==
    ASSUME NEW C, NEW t \in Seq(Int)
    PROVE  /\ Without(t, C) \in Seq(Int) /\ Len(Without(t, C)) <= Len(t)
           /\ (\A i \in 1 .. Len(t) : t[i] \notin C) => Without(t, C) = t
<1>. DEFINE T == {u \in Seq(Int) : /\ Without(u, C) \in Seq(Int) /\ Len(Without(u, C)) <= Len(u)
                                   /\ (\A i \in 1 .. Len(u) : u[i] \notin C) => Without(u, C) = u}
<1>1. <<>> \in T
  <2>1. Without(<<>>, C) = <<>>
    BY WithoutEmpty
  <2>2. <<>> \in Seq(Int) /\ Len(<<>>) = 0 /\ 0 <= 0
    OBVIOUS
  <2>3. Len(Without(<<>>, C)) <= Len(<<>>)
    BY <2>1, <2>2, Zenon
  <2>. QED
    BY <2>1, <2>2, <2>3, Zenon
<1>2. ASSUME NEW u \in Seq(Int), u \in T, NEW c \in Int
      PROVE  Append(u, c) \in T
  <2>1. Without(Append(u, c), C) = IF c \in C THEN Without(u, C) ELSE Append(Without(u, C), c)
    BY WithoutAppend
  <2>2. Append(u, c) \in Seq(Int) /\ Len(Append(u, c)) = Len(u) + 1 /\ Append(u, c)[Len(u) + 1] = c
    OBVIOUS
  <2>3. \A i \in 1 .. Len(u) : i \in 1 .. Len(u) + 1 /\ Append(u, c)[i] = u[i]
    OBVIOUS
  <2>4. Len(u) + 1 \in 1 .. Len(u) + 1
    OBVIOUS
  <2>5. Without(Append(u, c), C) \in Seq(Int) /\ Len(Without(Append(u, c), C)) <= Len(u) + 1
    <3>1. Without(u, C) \in Seq(Int) /\ Len(Without(u, C)) <= Len(u)
      BY <1>2
    <3>2. CASE c \in C
      BY <2>1, <3>1, <3>2
    <3>3. CASE c \notin C
      BY <2>1, <3>1, <3>3
    <3>. QED
      BY <3>2, <3>3
  <2>6. ASSUME \A i \in 1 .. Len(u) + 1 : Append(u, c)[i] \notin C
        PROVE  Without(Append(u, c), C) = Append(u, c)
    <3>1. c \notin C /\ \A i \in 1 .. Len(u) : u[i] \notin C
      BY <2>2, <2>3, <2>4, <2>6
    <3>. QED
      BY <1>2, <2>1, <3>1
  <2>. QED
    BY <2>2, <2>5, <2>6
<1>3. Seq(Int) \subseteq T
  <2>. HIDE DEF T
  <2>1. \A u \in Seq(Int) : u \in T => \A c \in Int : Append(u, c) \in T
    BY <1>2
  <2>. QED
    BY <1>1, <2>1, EveryText
<1>. QED
  BY <1>3

\* Texts one after the other.
LEMMA WithoutConcat ==
    ASSUME NEW C, NEW s \in Seq(Int), NEW t \in Seq(Int)
    PROVE  Without(s \o t, C) = Without(s, C) \o Without(t, C)
<1>. DEFINE T == {u \in Seq(Int) : Without(s \o u, C) = Without(s, C) \o Without(u, C)}
<1>1. <<>> \in T
  <2>1. Without(s, C) \in Seq(Int)
    BY WithoutType
  <2>2. Without(s, C) \o <<>> = Without(s, C) /\ s \o <<>> = s
    BY <2>1
  <2>3. Without(<<>>, C) = <<>>
    BY WithoutEmpty
  <2>4. <<>> \in Seq(Int)
    OBVIOUS
  <2>5. Without(s \o <<>>, C) = Without(s, C) \o Without(<<>>, C)
    BY <2>2, <2>3
  <2>. QED
    BY <2>4, <2>5
<1>2. ASSUME NEW u \in Seq(Int), u \in T, NEW c \in Int
      PROVE  Append(u, c) \in T
  <2>1. Without(Append(u, c), C) = IF c \in C THEN Without(u, C) ELSE Append(Without(u, C), c)
    BY WithoutAppend
  <2>2. s \o Append(u, c) = Append(s \o u, c) /\ s \o u \in Seq(Int)
    OBVIOUS
  <2>3. Without(s \o Append(u, c), C) = IF c \in C THEN Without(s \o u, C) ELSE Append(Without(s \o u, C), c)
    <3>. DEFINE v == s \o u
    <3>. HIDE DEF v
    <3>1. Without(Append(v, c), C) = IF c \in C THEN Without(v, C) ELSE Append(Without(v, C), c)
      BY <2>2, WithoutAppend DEF v
    <3>. QED
      BY <2>2, <3>1 DEF v
  <2>4. Without(s, C) \in Seq(Int) /\ Without(u, C) \in Seq(Int)
    BY WithoutType
  <2>5. Without(s, C) \o Append(Without(u, C), c) = Append(Without(s, C) \o Without(u, C), c)
    BY <2>4
  <2>6. Without(s \o u, C) = Without(s, C) \o Without(u, C)
    BY <1>2
  <2>7. Without(s \o Append(u, c), C) = Without(s, C) \o Without(Append(u, c), C)
    BY <2>1, <2>3, <2>5, <2>6
  <2>8. Append(u, c) \in Seq(Int)
    OBVIOUS
  <2>. QED
    BY <2>7, <2>8
<1>3. Seq(Int) \subseteq T
  <2>. HIDE DEF T
  <2>1. \A u \in Seq(Int) : u \in T => \A c \in Int : Append(u, c) \in T
    BY <1>2
  <2>. QED
    BY <1>1, <2>1, EveryText
<1>. QED
  BY <1>3

\* Characters dropped in two passes.
LEMMA WithoutTwice ==
    ASSUME NEW C, NEW D, NEW t \in Seq(Int)
    PROVE  Without(Without(t, C), D) = Without(t, C \cup D)
<1>. DEFINE T == {u \in Seq(Int) : Without(Without(u, C), D) = Without(u, C \cup D)}
<1>1. <<>> \in T
  BY WithoutEmpty
<1>2. ASSUME NEW u \in Seq(Int), u \in T, NEW c \in Int
      PROVE  Append(u, c) \in T
  <2>1. Without(Append(u, c), C) = IF c \in C THEN Without(u, C) ELSE Append(Without(u, C), c)
    BY WithoutAppend
  <2>2. Without(Append(u, c), C \cup D) = IF c \in C \cup D THEN Without(u, C \cup D) ELSE Append(Without(u, C \cup D), c)
    BY WithoutAppend
  <2>3. Without(u, C) \in Seq(Int)
    BY WithoutType
  <2>4. Without(Append(Without(u, C), c), D)
          = IF c \in D THEN Without(Without(u, C), D) ELSE Append(Without(Without(u, C), D), c)
    BY <2>3, WithoutAppend
  <2>5. Without(Without(u, C), D) = Without(u, C \cup D)
    BY <1>2
  <2>6. Without(Without(Append(u, c), C), D) = Without(Append(u, c), C \cup D)
    BY <2>1, <2>2, <2>4, <2>5
  <2>7. Append(u, c) \in Seq(Int)
    OBVIOUS
  <2>. QED
    BY <2>6, <2>7
<1>3. Seq(Int) \subseteq T
  <2>. HIDE DEF T
  <2>1. \A u \in Seq(Int) : u \in T => \A c \in Int : Append(u, c) \in T
    BY <1>2
  <2>. QED
    BY <1>1, <2>1, EveryText
<1>. QED
  BY <1>3

-----------------------------------------------------------------------------
(* The armour. *)

\* f holds the armour of each beginning of s, up to the first m characters.
IsArmour(f, s, m) ==
    f = [n \in 0 .. m |->
            IF n = 0 THEN <<>>
            ELSE f[n - 1] \o IF n % ArmourLine = 0 \/ n = Len(s) THEN <<s[n], LF>> ELSE <<s[n]>>]

LEMMA ArmourExists ==
    ASSUME NEW s \in Seq(Int)
    PROVE  \E f : IsArmour(f, s, Len(s))
<1>. DEFINE end == [n \in 0 .. Len(s) |-> IF n % ArmourLine = 0 \/ n = Len(s) THEN <<s[n], LF>> ELSE <<s[n]>>]
            T == {m \in 0 .. Len(s) : \E f : IsArmour(f, s, m)}
<1>1. 0 \in T
  <2>. DEFINE f == [n \in 0 .. 0 |-> <<>>]
  <2>1. IsArmour(f, s, 0)
    BY DEF IsArmour
  <2>. QED
    BY <2>1
<1>2. ASSUME NEW m \in 0 .. Len(s) - 1, m \in T
      PROVE  m + 1 \in T
  <2>1. PICK f : IsArmour(f, s, m)
    BY <1>2
  <2>. DEFINE g == [n \in 0 .. m + 1 |-> IF n <= m THEN f[n] ELSE f[m] \o end[n]]
  <2>2. ASSUME NEW n \in 0 .. m + 1
        PROVE  g[n] = IF n = 0 THEN <<>> ELSE g[n - 1] \o end[n]
    <3>. HIDE DEF end
    <3>1. CASE n \in 0 .. m
      <4>1. g[n] = f[n]
        BY <3>1
      <4>2. f[n] = IF n = 0 THEN <<>> ELSE f[n - 1] \o end[n]
        <5>1. n \in 0 .. Len(s)
          BY <3>1
        <5>2. end[n] = IF n % ArmourLine = 0 \/ n = Len(s) THEN <<s[n], LF>> ELSE <<s[n]>>
          BY <5>1 DEF end
        <5>. QED
          BY <2>1, <3>1, <5>2 DEF IsArmour
      <4>3. CASE n = 0
        BY <4>1, <4>2, <4>3
      <4>4. CASE n # 0
        <5>1. n - 1 \in 0 .. m + 1 /\ n - 1 <= m
          BY <3>1, <4>4
        <5>2. g[n - 1] = f[n - 1]
          BY <5>1
        <5>. QED
          BY <4>1, <4>2, <4>4, <5>2
      <4>. QED
        BY <4>3, <4>4
    <3>2. CASE n = m + 1
      <4>1. g[n - 1] = f[m] /\ n # 0 /\ ~ (n <= m)
        BY <3>2
      <4>. QED
        BY <3>2, <4>1
    <3>. QED
      BY <3>1, <3>2
  <2>3. IsArmour(g, s, m + 1)
    <3>. HIDE DEF g
    <3>1. g = [n \in 0 .. m + 1 |-> g[n]]
      BY DEF g
    <3>2. \A n \in 0 .. m + 1 : n \in 0 .. Len(s)
      OBVIOUS
    <3>3. \A n \in 0 .. m + 1 : end[n] = IF n % ArmourLine = 0 \/ n = Len(s) THEN <<s[n], LF>> ELSE <<s[n]>>
      BY <3>2
    <3>. HIDE DEF end
    <3>. QED
      BY <2>2, <3>1, <3>3 DEF IsArmour
  <2>. QED
    BY <2>3
<1>3. \A n \in 0 .. Len(s) : n \in T
  <2>. HIDE DEF T
  <2>1. \A n \in 0 .. Len(s) - 1 : n \in T => n + 1 \in T
    BY <1>2
  <2>2. Len(s) \in Nat
    OBVIOUS
  <2>. QED
    BY <1>1, <2>1, <2>2, UpTo
<1>. QED
  BY <1>3

LEMMA ArmourIs ==
    ASSUME NEW s \in Seq(Int)
    PROVE  \E f : IsArmour(f, s, Len(s)) /\ Armour(s) = f[Len(s)]
BY ArmourExists DEF Armour, IsArmour

\* The armour is a text of at most twice the size, and without its line ends it is what was armoured.
LEMMA ArmourJoined ==
    ASSUME NEW s \in Seq(Nat)
    PROVE  /\ Armour(s) \in Seq(Int) /\ Len(Armour(s)) <= 2 * Len(s)
           /\ Without(Armour(s), {LF}) = s
<1>1. PICK f : IsArmour(f, s, Len(s)) /\ Armour(s) = f[Len(s)]
  <2>1. s \in Seq(Int)
    OBVIOUS
  <2>. QED
    BY <2>1, ArmourIs
<1>. DEFINE T == {n \in 0 .. Len(s) : /\ f[n] \in Seq(Int) /\ Len(f[n]) <= 2 * n
                                      /\ Without(f[n], {LF}) = SubSeq(s, 1, n)}
<1>2. 0 \in T
  <2>1. f[0] = <<>>
    BY <1>1 DEF IsArmour
  <2>2. SubSeq(s, 1, 0) = <<>> /\ <<>> \in Seq(Int) /\ Len(<<>>) = 0 /\ 0 <= 2 * 0 /\ 0 \in 0 .. Len(s)
    OBVIOUS
  <2>3. Without(<<>>, {LF}) = <<>>
    BY WithoutEmpty
  <2>. QED
    BY <2>1, <2>2, <2>3, Zenon
<1>3. ASSUME NEW n \in 0 .. Len(s) - 1, n \in T
      PROVE  n + 1 \in T
  <2>. DEFINE c == s[n + 1]
  <2>1. c \in Int /\ c # LF /\ LF \in Int /\ n + 1 \in 0 .. Len(s)
    BY DEF LF
  <2>2. f[n + 1] = f[n] \o <<c, LF>> \/ f[n + 1] = f[n] \o <<c>>
    <3>1. n + 1 \in 0 .. Len(s) /\ n + 1 # 0 /\ (n + 1) - 1 = n
      OBVIOUS
    <3>. QED
      BY <1>1, <3>1 DEF IsArmour
  <2>3. SubSeq(s, 1, n + 1) = Append(SubSeq(s, 1, n), c)
    OBVIOUS
  <2>. HIDE DEF c
  <2>. DEFINE h == f[n]
              p == SubSeq(s, 1, n)
              u == Append(h, c)
              v == Append(u, LF)
  <2>4. h \in Seq(Int) /\ Len(h) <= 2 * n /\ Without(h, {LF}) = p
    BY <1>3
  <2>5. f[n + 1] = h \o <<c, LF>> \/ f[n + 1] = h \o <<c>>
    BY <2>2
  <2>. HIDE DEF h, p
  <2>6. u \in Seq(Int) /\ Len(u) <= 2 * (n + 1) /\ v \in Seq(Int) /\ Len(v) <= 2 * (n + 1)
    BY <2>1, <2>4
  <2>7. f[n + 1] \in {u, v}
    <3>1. h \o <<c, LF>> = v /\ h \o <<c>> = u
      BY <2>1, <2>4
    <3>. QED
      BY <2>5, <3>1
  <2>8. Without(u, {LF}) = SubSeq(s, 1, n + 1)
    <3>1. Without(u, {LF}) = Append(Without(h, {LF}), c)
      BY <2>1, <2>4, WithoutAppend
    <3>. QED
      BY <2>3, <2>4, <3>1 DEF p
  <2>9. Without(v, {LF}) = Without(u, {LF})
    <3>. HIDE DEF u
    <3>. QED
      BY <2>1, <2>6, WithoutAppend
  <2>. QED
    <3>. HIDE DEF u, v
    <3>. QED
      BY <2>1, <2>6, <2>7, <2>8, <2>9
<1>4. Len(s) \in Nat /\ Len(s) \in 0 .. Len(s) /\ SubSeq(s, 1, Len(s)) = s
  OBVIOUS
<1>5. \A n \in 0 .. Len(s) : n \in T
  <2>. HIDE DEF T
  <2>1. \A n \in 0 .. Len(s) - 1 : n \in T => n + 1 \in T
    BY <1>3
  <2>. QED
    BY <1>2, <1>4, <2>1, UpTo
<1>. QED
  BY <1>1, <1>4, <1>5

-----------------------------------------------------------------------------
(* The inductive invariant. *)

White == {CR, LF, TAB}
Ends == {j \in 1 .. Len(value) : value[j] = LF}

\* What the text is in each phase: nothing of the signature is lost.
Content ==
    /\ phase = "armour" => Without(value, {LF}) = signature
    /\ phase \in {"signed", "unpacked"} => value = signature
    /\ phase \in {"folding", "packed"} => Without(value, White) = signature
    /\ phase = "received" => Without(value, {LF, TAB}) = signature

\* Before the first round, and after each: where the next line begins, and how long it may be.
AtLine ==
    \/ pos = 0 /\ line_len = FirstLine /\ value = signature
    \/ /\ pos > 0 /\ line_len = Smaller(Len(value) - pos, max_line_size)
       /\ pos + 2 <= Len(value) /\ value[pos] = LF /\ value[pos + 1] = TAB
       /\ FirstLine + 2 \in Ends /\ FirstLine + 2 <= pos

\* The lines so far: each is as long as it may be and the next begins with a tab.
LinesSoFar ==
    \A j \in Ends :
        /\ FirstLine + 2 <= j /\ j <= pos /\ value[j + 1] = TAB
        /\ j < pos => j + max_line_size + 2 \in Ends
        /\ \A k \in Ends : k > j => k >= j + max_line_size + 2

\* Each round moves pos on by five characters at least and makes three.
Progress ==
    pos > 0 => /\ Len(value) >= Len(signature) + 3
               /\ 3 * pos + 9 >= 5 * (Len(value) - Len(signature))

Lines == phase \in {"folding", "packed"} => AtLine /\ LinesSoFar /\ Progress

FoldInv ==
    /\ TypeOK /\ signature \in Seq(Nat)
    /\ Content
    /\ PackBounded
    /\ Lines
    /\ phase = "packed" => ~More

\* The sizes are numbers, and a line has room for its name or its tab and more.
LEMMA SizesAre ==
    ASSUME TypeOK
    PROVE  /\ header_name_size \in Nat /\ header_name_size >= 1
           /\ max_line_size \in Nat /\ max_line_size >= 3
           /\ FirstLine \in Nat /\ FirstLine <= max_line_size
           /\ Len(signature) \in Nat /\ line_len \in Nat
<1>1. /\ header_name_size \in Nat /\ header_name_size >= 1 /\ max_line_size \in Nat
      /\ header_name_size + 2 <= max_line_size /\ Len(signature) \in Nat
  BY SizesAssumption DEF TypeOK
<1>2. line_len \in 0 .. max_line_size
  BY DEF TypeOK
<1>. QED
  BY <1>1, <1>2 DEF FirstLine

\* A text with a line break put in.
LEMMA Inserted ==
    ASSUME NEW v \in Seq(Int), NEW p \in 0 .. Len(v)
    PROVE  LET w == InsertText(v, p, Break)
           IN  /\ w \in Seq(Int) /\ Len(w) = Len(v) + 3
               /\ w[p + 1] = CR /\ w[p + 2] = LF /\ w[p + 3] = TAB
               /\ \A i \in 1 .. p : w[i] = v[i]
               /\ \A i \in p + 4 .. Len(v) + 3 : w[i] = v[i - 3]
<1>. DEFINE a == SubSeq(v, 1, p)
            b == SubSeq(v, p + 1, Len(v))
            w == InsertText(v, p, Break)
<1>1. a \in Seq(Int) /\ Len(a) = p /\ \A i \in 1 .. p : a[i] = v[i]
  OBVIOUS
<1>2. b \in Seq(Int) /\ Len(b) = Len(v) - p /\ \A i \in 1 .. Len(v) - p : b[i] = v[p + i]
  OBVIOUS
<1>3. Len(v) \in Nat /\ p \in Nat /\ p <= Len(v)
  OBVIOUS
<1>4. Break \in Seq(Int) /\ Len(Break) = 3 /\ Break[1] = CR /\ Break[2] = LF /\ Break[3] = TAB
  BY DEF Break, CR, LF, TAB
<1>5. w = a \o Break \o b
  BY DEF InsertText
<1>. DEFINE e == Break
            c == a \o e
<1>. HIDE DEF a, b, e
<1>6. e \in Seq(Int) /\ Len(e) = 3 /\ e[1] = CR /\ e[2] = LF /\ e[3] = TAB
  BY <1>4 DEF e
<1>7. /\ c \in Seq(Int) /\ Len(c) = p + 3 /\ c[p + 1] = CR /\ c[p + 2] = LF /\ c[p + 3] = TAB
      /\ \A i \in 1 .. p : c[i] = v[i]
  <2>1. /\ c \in Seq(Int) /\ Len(c) = Len(a) + Len(e)
        /\ \A i \in 1 .. Len(a) + Len(e) : c[i] = IF i <= Len(a) THEN a[i] ELSE e[i - Len(a)]
    BY <1>1, <1>6, ConcatProperties
  <2>2. \A i \in 1 .. p + 3 : c[i] = IF i <= p THEN a[i] ELSE e[i - p]
    BY <1>1, <1>6, <2>1
  <2>. HIDE DEF c
  <2>3. c[p + 1] = e[(p + 1) - p] /\ c[p + 2] = e[(p + 2) - p] /\ c[p + 3] = e[(p + 3) - p]
    BY <1>3, <2>2
  <2>4. (p + 1) - p = 1 /\ (p + 2) - p = 2 /\ (p + 3) - p = 3
    BY <1>3
  <2>5. ASSUME NEW i \in 1 .. p PROVE c[i] = v[i]
    <3>1. i \in 1 .. p + 3 /\ i <= p
      BY <1>3
    <3>. QED
      BY <1>1, <2>2, <3>1
  <2>. QED
    BY <1>1, <1>6, <2>1, <2>3, <2>4, <2>5
<1>8. w = c \o b
  BY <1>5 DEF e
<1>. HIDE DEF c, w
<1>9. w \in Seq(Int) /\ Len(w) = Len(v) + 3
  <2>1. w \in Seq(Int) /\ Len(w) = Len(c) + Len(b)
    BY <1>2, <1>7, <1>8, ConcatProperties
  <2>. QED
    BY <1>2, <1>3, <1>7, <2>1
<1>10. \A i \in 1 .. Len(v) + 3 : w[i] = IF i <= p + 3 THEN c[i] ELSE b[i - (p + 3)]
  <2>1. \A i \in 1 .. Len(c) + Len(b) : w[i] = IF i <= Len(c) THEN c[i] ELSE b[i - Len(c)]
    BY <1>2, <1>7, <1>8, ConcatProperties
  <2>. QED
    BY <1>2, <1>3, <1>7, <2>1
<1>11. \A i \in 1 .. p + 3 : w[i] = c[i]
  BY <1>3, <1>10
<1>12. \A i \in p + 4 .. Len(v) + 3 : w[i] = v[i - 3]
  <2>. SUFFICES ASSUME NEW i \in p + 4 .. Len(v) + 3 PROVE w[i] = v[i - 3]
    OBVIOUS
  <2>1. i - (p + 3) \in 1 .. Len(v) - p /\ p + (i - (p + 3)) = i - 3 /\ i \in 1 .. Len(v) + 3 /\ ~ (i <= p + 3)
    BY <1>3
  <2>. QED
    BY <1>2, <1>10, <2>1
<1>13. \A i \in 1 .. p : w[i] = v[i]
  BY <1>3, <1>7, <1>11
<1>14. w[p + 1] = CR /\ w[p + 2] = LF /\ w[p + 3] = TAB
  BY <1>3, <1>7, <1>11
<1>. QED
  BY <1>9, <1>12, <1>13, <1>14 DEF w

\* White space put in goes with the white space.
LEMMA InsertedWithout ==
    ASSUME NEW v \in Seq(Int), NEW p \in 0 .. Len(v)
    PROVE  Without(InsertText(v, p, Break), White) = Without(v, White)
<1>. DEFINE a == SubSeq(v, 1, p)
            b == SubSeq(v, p + 1, Len(v))
<1>1. a \in Seq(Int) /\ b \in Seq(Int)
  OBVIOUS
<1>2. v = a \o b
  <2>1. 1 \in 1 .. Len(v) + 1 /\ p \in 1 - 1 .. Len(v) /\ Len(v) \in p .. Len(v)
    OBVIOUS
  <2>. QED
    BY <2>1, ConcatAdjacentSubSeq, SubSeqFull
<1>3. InsertText(v, p, Break) = Append(Append(Append(a, CR), LF), TAB) \o b
  <2>1. Append(Append(Append(a, CR), LF), TAB) = a \o Break
    <3>. HIDE DEF a
    <3>1. CR \in Int /\ LF \in Int /\ TAB \in Int
      BY DEF CR, LF, TAB
    <3>. QED
      BY <1>1, <3>1 DEF Break
  <2>. QED
    BY <2>1 DEF InsertText
<1>. HIDE DEF a, b
<1>. DEFINE a1 == Append(a, CR)
            a2 == Append(a1, LF)
            a3 == Append(a2, TAB)
<1>4. CR \in Int /\ LF \in Int /\ TAB \in Int /\ CR \in White /\ LF \in White /\ TAB \in White
  BY DEF CR, LF, TAB, White
<1>5. a1 \in Seq(Int) /\ a2 \in Seq(Int) /\ a3 \in Seq(Int)
  BY <1>1, <1>4
<1>6. Without(a1, White) = Without(a, White)
  BY <1>1, <1>4, WithoutAppend
<1>7. Without(a2, White) = Without(a1, White)
  <2>. HIDE DEF a1
  <2>. QED
    BY <1>4, <1>5, WithoutAppend
<1>8. Without(a3, White) = Without(a2, White)
  <2>. HIDE DEF a2
  <2>. QED
    BY <1>4, <1>5, WithoutAppend
<1>. HIDE DEF a3
<1>9. Without(a3 \o b, White) = Without(a3, White) \o Without(b, White)
  BY <1>1, <1>5, WithoutConcat
<1>10. Without(v, White) = Without(a, White) \o Without(b, White)
  BY <1>1, <1>2, WithoutConcat
<1>. QED
  BY <1>3, <1>6, <1>7, <1>8, <1>9, <1>10 DEF a3

LEMMA SignatureIsPlain ==
    ASSUME signature \in Seq(Nat), NEW C \in SUBSET White
    PROVE  Without(signature, C) = signature
<1>1. signature \in Seq(Int) /\ \A i \in 1 .. Len(signature) : signature[i] \in Nat
  OBVIOUS
<1>2. \A i \in 1 .. Len(signature) : signature[i] \notin C
  BY <1>1 DEF White, CR, LF, TAB
<1>. QED
  BY <1>1, <1>2, WithoutType

LEMMA FoldInit == Init => FoldInv
<1>. SUFFICES ASSUME Init PROVE FoldInv
  OBVIOUS
<1>1. PICK n \in SignatureSizes : signature = [k \in 1 .. n |-> k]
  BY DEF Init
<1>2. n \in Nat
  BY <1>1, SizesAssumption
<1>3. signature \in Seq(Nat) /\ Len(signature) = n
  BY <1>1, <1>2
<1>4. Armour(signature) \in Seq(Int) /\ Len(Armour(signature)) <= 2 * Len(signature) /\ Without(Armour(signature), {LF}) = signature
  BY <1>3, ArmourJoined
<1>5. TypeOK
  <2>1. header_name_size \in NameSizes /\ max_line_size \in LineSizes /\ pos = 0 /\ line_len = 0 /\ phase = "armour"
    BY DEF Init
  <2>2. max_line_size \in Nat
    BY <2>1, SizesAssumption
  <2>3. value \in Seq(Int)
    BY <1>4 DEF Init
  <2>4. Len(signature) \in SignatureSizes
    BY <1>1, <1>3
  <2>5. line_len \in 0 .. max_line_size /\ pos \in Nat /\ phase # "folding"
    BY <2>1, <2>2
  <2>. QED
    BY <2>1, <2>3, <2>4, <2>5 DEF TypeOK
<1>6. Content
  BY <1>4 DEF Init, Content
<1>7. PackBounded
  <2>1. Len(value) <= 2 * Len(signature) /\ Len(value) \in Nat
    BY <1>4 DEF Init
  <2>. QED
    BY <1>2, <1>3, <2>1 DEF PackBounded
<1>8. Lines /\ phase # "packed"
  BY DEF Init, Lines
<1>. QED
  BY <1>3, <1>5, <1>6, <1>7, <1>8 DEF FoldInv

LEMMA signKeeps == FoldInv /\ sign => FoldInv'
<1>. SUFFICES ASSUME FoldInv, sign PROVE FoldInv'
  OBVIOUS
<1>1. value' = signature /\ phase' = "signed" /\ UNCHANGED <<arguments, pos, line_len>>
  BY DEF sign, FoldInv, Content
<1>2. signature \in Seq(Nat) /\ Len(signature) \in Nat /\ signature \in Seq(Int)
  BY DEF FoldInv
<1>3. TypeOK'
  BY <1>1, <1>2 DEF FoldInv, TypeOK, arguments
<1>4. Content' /\ Lines' /\ PackBounded'
  BY <1>1, <1>2 DEF Content, Lines, PackBounded, arguments
<1>. QED
  BY <1>1, <1>2, <1>3, <1>4 DEF FoldInv, arguments

LEMMA EnterPackKeeps == FoldInv /\ EnterPack => FoldInv'
<1>. SUFFICES ASSUME FoldInv, EnterPack PROVE FoldInv'
  OBVIOUS
<1>1. value' = value /\ pos' = 0 /\ line_len' = FirstLine /\ phase' = "folding" /\ UNCHANGED arguments
  BY DEF EnterPack
<1>2. value = signature
  BY DEF EnterPack, FoldInv, Content
<1>3. signature \in Seq(Nat) /\ Len(signature) \in Nat /\ \A j \in 1 .. Len(value) : value[j] \in Nat
  BY <1>2 DEF FoldInv
<1>4. FirstLine' = FirstLine /\ FirstLine \in 0 .. max_line_size /\ Smaller(0, 0) = 0
  <2>1. FirstLine \in 0 .. max_line_size
    BY SizesAre DEF FoldInv
  <2>. QED
    BY <1>1, <2>1 DEF FirstLine, arguments, Smaller
<1>5. TypeOK'
  BY <1>1, <1>3, <1>4 DEF FoldInv, TypeOK, arguments
<1>6. Content'
  BY <1>1, <1>2, <1>3, SignatureIsPlain DEF Content, arguments
<1>7. Ends' = {}
  BY <1>1, <1>3 DEF Ends, LF
<1>8. Lines'
  BY <1>1, <1>2, <1>4, <1>7 DEF Lines, AtLine, LinesSoFar, Progress, arguments
<1>9. PackBounded'
  BY <1>1 DEF FoldInv, PackBounded, arguments
<1>. QED
  BY <1>1, <1>3, <1>5, <1>6, <1>8, <1>9 DEF FoldInv, arguments

LEMMA PackedKeeps == FoldInv /\ Packed => FoldInv'
<1>. SUFFICES ASSUME FoldInv, Packed PROVE FoldInv'
  OBVIOUS
<1>1. phase = "folding" /\ phase' = "packed" /\ UNCHANGED <<arguments, value, pos, line_len>> /\ ~More
  BY DEF Packed
<1>2. TypeOK'
  BY <1>1 DEF FoldInv, TypeOK, arguments
<1>3. Content'
  BY <1>1 DEF FoldInv, Content, arguments
<1>4. Ends' = Ends /\ FirstLine' = FirstLine
  BY <1>1 DEF Ends, FirstLine, arguments
<1>5. Lines'
  BY <1>1, <1>4 DEF FoldInv, Lines, AtLine, LinesSoFar, Progress, Smaller, arguments
<1>6. PackBounded' /\ ~More' /\ signature' \in Seq(Nat)
  BY <1>1 DEF FoldInv, PackBounded, More, arguments
<1>. QED
  BY <1>2, <1>3, <1>5, <1>6 DEF FoldInv

LEMMA MtaHandsOverKeeps == FoldInv /\ MtaHandsOver => FoldInv'
<1>. SUFFICES ASSUME FoldInv, MtaHandsOver PROVE FoldInv'
  OBVIOUS
<1>1. phase = "packed" /\ phase' = "received" /\ value' = Without(value, {CR}) /\ UNCHANGED <<arguments, pos, line_len>>
  BY DEF MtaHandsOver
<1>2. value \in Seq(Int) /\ signature \in Seq(Nat) /\ Len(signature) \in Nat /\ Len(value) <= 4 * Len(signature)
  BY DEF FoldInv, TypeOK, PackBounded
<1>3. value' \in Seq(Int) /\ Len(value') <= Len(value)
  BY <1>1, <1>2, WithoutType
<1>4. Without(value', {LF, TAB}) = signature
  <2>1. Without(value', {LF, TAB}) = Without(value, {CR} \cup {LF, TAB})
    BY <1>1, <1>2, WithoutTwice
  <2>2. {CR} \cup {LF, TAB} = White
    BY DEF White
  <2>. QED
    BY <1>1, <2>1, <2>2 DEF FoldInv, Content
<1>5. TypeOK'
  BY <1>1, <1>3 DEF FoldInv, TypeOK, arguments
<1>6. Content' /\ Lines' /\ PackBounded'
  <2>1. Len(value') <= 4 * Len(signature)
    BY <1>2, <1>3
  <2>. QED
    BY <1>1, <1>4, <2>1 DEF Content, Lines, PackBounded, arguments
<1>. QED
  BY <1>1, <1>2, <1>5, <1>6 DEF FoldInv, arguments

LEMMA UnpackKeeps == FoldInv /\ unpack_header_value => FoldInv'
<1>. SUFFICES ASSUME FoldInv, unpack_header_value PROVE FoldInv'
  OBVIOUS
<1>1. phase' = "unpacked" /\ value' = signature /\ UNCHANGED <<arguments, pos, line_len>>
  BY DEF unpack_header_value, FoldInv, Content
<1>2. signature \in Seq(Nat) /\ Len(signature) \in Nat /\ signature \in Seq(Int)
  BY DEF FoldInv
<1>3. TypeOK'
  BY <1>1, <1>2 DEF FoldInv, TypeOK, arguments
<1>4. Content' /\ Lines' /\ PackBounded'
  BY <1>1, <1>2 DEF Content, Lines, PackBounded, arguments
<1>. QED
  BY <1>1, <1>2, <1>3, <1>4 DEF FoldInv, arguments

\* One round puts one line end in, behind all the others.
LEMMA FoldLineKeeps == FoldInv /\ FoldLine => FoldInv'
<1>. SUFFICES ASSUME FoldInv, FoldLine PROVE FoldInv'
  OBVIOUS
<1>. DEFINE n == Len(value)
            p == pos + Smaller(line_len, n)
            max == max_line_size
<1>1. /\ phase = "folding" /\ phase' = "folding" /\ UNCHANGED arguments
      /\ value' = InsertText(value, p, Break) /\ pos' = p + 2
      /\ line_len' = Smaller(Len(value') - pos', max)
      /\ pos + line_len < n
  BY DEF FoldLine, More, NextLine
<1>2. /\ value \in Seq(Int) /\ n \in Nat /\ pos \in Nat /\ line_len \in Nat
      /\ max \in Nat /\ max >= 3 /\ FirstLine \in Nat /\ FirstLine <= max /\ FirstLine' = FirstLine
      /\ AtLine /\ LinesSoFar /\ Progress /\ signature \in Seq(Nat) /\ Len(signature) \in Nat
  <2>1. FirstLine' = FirstLine
    BY <1>1 DEF FirstLine, arguments
  <2>2. value \in Seq(Int) /\ pos \in Nat /\ signature \in Seq(Nat)
    BY DEF FoldInv, TypeOK
  <2>3. AtLine /\ LinesSoFar /\ Progress
    BY <1>1 DEF FoldInv, Lines
  <2>. QED
    BY <2>1, <2>2, <2>3, SizesAre DEF FoldInv
<1>3. p = pos + line_len /\ p \in 0 .. n - 1
  BY <1>1, <1>2 DEF Smaller
<1>4. \/ pos = 0 /\ p = FirstLine /\ n = Len(signature)
      \/ pos > 0 /\ p = pos + max /\ FirstLine + 2 \in Ends /\ pos \in Ends /\ FirstLine + 2 <= pos
  <2>1. CASE pos = 0
    BY <1>2, <1>3, <2>1 DEF AtLine
  <2>2. CASE pos > 0
    <3>1. /\ line_len = Smaller(n - pos, max) /\ pos + 2 <= n /\ value[pos] = LF
          /\ FirstLine + 2 \in Ends /\ FirstLine + 2 <= pos
      BY <1>2, <2>2 DEF AtLine
    <3>2. line_len = max
      BY <1>1, <1>2, <3>1 DEF Smaller
    <3>3. pos \in 1 .. n
      BY <1>2, <2>2, <3>1
    <3>. QED
      BY <1>3, <2>2, <3>1, <3>2, <3>3 DEF Ends
  <2>. QED
    BY <1>2, <2>1, <2>2
<1>5. /\ value' \in Seq(Int) /\ Len(value') = n + 3
      /\ value'[p + 1] = CR /\ value'[p + 2] = LF /\ value'[p + 3] = TAB
      /\ \A i \in 1 .. p : value'[i] = value[i]
      /\ \A i \in p + 4 .. n + 3 : value'[i] = value[i - 3]
  <2>1. p \in 0 .. Len(value)
    BY <1>2, <1>3
  <2>. QED
    BY <1>1, <1>2, <2>1, Inserted
<1>6. \A j \in Ends : j \in 1 .. n /\ FirstLine + 2 <= j /\ j <= pos /\ value[j + 1] = TAB
  BY <1>2 DEF LinesSoFar, Ends
<1>. HIDE DEF p, n
<1>7. Ends' = Ends \cup {p + 2}
  <2>1. ASSUME NEW i \in 1 .. n + 3
        PROVE  value'[i] = LF <=> i \in Ends \/ i = p + 2
    <3>1. CASE i \in 1 .. p
      <4>1. i \in 1 .. n /\ i # p + 2
        BY <1>2, <1>3, <3>1
      <4>. QED
        BY <1>5, <3>1, <4>1 DEF Ends, n
    <3>2. CASE i \in {p + 1, p + 2, p + 3}
      <4>1. i \notin Ends
        BY <1>2, <1>3, <1>6, <3>2
      <4>. QED
        BY <1>3, <1>5, <3>2, <4>1 DEF CR, LF, TAB
    <3>3. CASE i \in p + 4 .. n + 3
      <4>1. i \notin Ends /\ i - 3 \notin Ends /\ i # p + 2 /\ i - 3 \in 1 .. n
        BY <1>2, <1>3, <1>6, <3>3
      <4>2. value'[i] = value[i - 3]
        BY <1>5, <3>3
      <4>. QED
        BY <4>1, <4>2 DEF Ends, n
    <3>. QED
      BY <1>2, <1>3, <3>1, <3>2, <3>3
  <2>2. Ends' = {i \in 1 .. n + 3 : value'[i] = LF}
    BY <1>5 DEF Ends
  <2>3. \A i \in Ends \cup {p + 2} : i \in 1 .. n + 3
    BY <1>2, <1>3, <1>6
  <2>. QED
    BY <2>1, <2>2, <2>3
<1>8. AtLine'
  <2>1. pos' > 0 /\ line_len' = Smaller(Len(value') - pos', max_line_size')
    BY <1>1, <1>2, <1>3 DEF arguments
  <2>2. pos' + 2 <= Len(value')
    BY <1>1, <1>2, <1>3, <1>5
  <2>3. value'[pos'] = LF /\ value'[pos' + 1] = TAB
    <3>1. (p + 2) + 1 = p + 3
      BY <1>3
    <3>. QED
      BY <1>1, <1>5, <3>1
  <2>4. FirstLine + 2 \in Ends' /\ FirstLine + 2 <= pos'
    BY <1>1, <1>2, <1>3, <1>4, <1>7
  <2>. QED
    BY <1>2, <2>1, <2>2, <2>3, <2>4 DEF AtLine
<1>9. LinesSoFar'
  <2>. SUFFICES ASSUME NEW j \in Ends'
                PROVE  /\ FirstLine + 2 <= j /\ j <= pos' /\ value'[j + 1] = TAB
                       /\ j < pos' => j + max + 2 \in Ends'
                       /\ \A k \in Ends' : k > j => k >= j + max + 2
    BY <1>1, <1>2 DEF LinesSoFar, arguments
  <2>1. CASE j \in Ends
    <3>1. FirstLine + 2 <= j /\ j <= pos /\ value[j + 1] = TAB /\ j \in 1 .. n /\ pos > 0
      BY <1>2, <1>6, <2>1
    <3>2. p = pos + max /\ pos \in Ends
      BY <1>2, <1>4, <3>1
    <3>3. j + 1 \in 1 .. p /\ j <= pos'
      BY <1>1, <1>2, <1>3, <3>1, <3>2
    <3>4. j + max + 2 \in Ends'
      <4>1. CASE j = pos
        BY <1>2, <1>7, <3>1, <3>2, <4>1
      <4>2. CASE j < pos
        BY <1>2, <1>7, <2>1, <4>2 DEF LinesSoFar
      <4>. QED
        BY <1>2, <3>1, <4>1, <4>2
    <3>5. ASSUME NEW k \in Ends', k > j PROVE k >= j + max + 2
      <4>1. CASE k \in Ends
        BY <1>2, <2>1, <3>5, <4>1 DEF LinesSoFar
      <4>2. CASE k = p + 2
        BY <1>2, <3>1, <3>2, <4>2
      <4>. QED
        BY <1>7, <4>1, <4>2
    <3>. QED
      BY <1>5, <3>1, <3>3, <3>4, <3>5
  <2>2. CASE j = p + 2
    <3>1. FirstLine + 2 <= j /\ j = pos'
      BY <1>1, <1>2, <1>3, <1>4, <2>2
    <3>2. value'[j + 1] = TAB
      <4>1. (p + 2) + 1 = p + 3
        BY <1>3
      <4>. QED
        BY <1>5, <2>2, <4>1
    <3>3. \A k \in Ends' : ~ (k > j)
      BY <1>2, <1>3, <1>6, <1>7, <2>2
    <3>. QED
      BY <1>3, <2>2, <3>1, <3>2, <3>3
  <2>. QED
    BY <1>7, <2>1, <2>2
<1>10. Progress'
  <2>. DEFINE t == Len(signature)
  <2>1. Len(value') = n + 3 /\ pos' = p + 2 /\ signature' = signature
    BY <1>1, <1>5 DEF arguments
  <2>2. n + 3 >= t + 3 /\ 3 * (p + 2) + 9 >= 5 * ((n + 3) - t)
    <3>. HIDE DEF t
    <3>1. CASE pos = 0
      BY <1>2, <1>3, <1>4, <3>1 DEF t
    <3>2. CASE pos > 0
      <4>1. n >= t + 3 /\ 3 * pos + 9 >= 5 * (n - t) /\ t \in Nat /\ p = pos + max
        BY <1>2, <1>4, <3>2 DEF Progress, t, n
      <4>. QED
        BY <1>2, <4>1
    <3>. QED
      BY <1>2, <3>1, <3>2
  <2>. QED
    BY <2>1, <2>2 DEF Progress
<1>11. PackBounded'
  <2>. DEFINE t == Len(signature)
  <2>1. Len(value') = n + 3 /\ pos' = p + 2 /\ signature' = signature /\ pos' > 0
    BY <1>1, <1>2, <1>3, <1>5 DEF arguments
  <2>2. n + 3 >= t + 3 /\ 3 * (p + 2) + 9 >= 5 * ((n + 3) - t)
    BY <1>10, <2>1 DEF Progress
  <2>3. t \in Nat
    BY <1>2
  <2>. HIDE DEF t
  <2>4. n + 3 <= 4 * t
    BY <1>2, <1>3, <2>2, <2>3
  <2>. QED
    BY <2>1, <2>4 DEF PackBounded, t
<1>12. Content'
  <2>1. Without(value', White) = Without(value, White)
    BY <1>1, <1>2, <1>3, InsertedWithout DEF n
  <2>. QED
    BY <1>1, <2>1 DEF FoldInv, Content, arguments
<1>13. TypeOK'
  <2>1. line_len' \in 0 .. max_line_size'
    BY <1>1, <1>2, <1>3, <1>5 DEF Smaller, arguments
  <2>2. pos' \in Nat /\ pos' <= Len(value')
    BY <1>1, <1>2, <1>3, <1>5
  <2>. QED
    BY <1>1, <1>5, <2>1, <2>2 DEF FoldInv, TypeOK, arguments
<1>. QED
  BY <1>1, <1>2, <1>8, <1>9, <1>10, <1>11, <1>12, <1>13 DEF FoldInv, Lines, arguments

THEOREM Folding == Spec => []FoldInv
<1>1. FoldInv /\ [Next]_vars => FoldInv'
  <2>. SUFFICES ASSUME FoldInv, [Next]_vars PROVE FoldInv'
    OBVIOUS
  <2>1. CASE UNCHANGED vars
    BY <2>1 DEF FoldInv, TypeOK, Content, PackBounded, Lines, AtLine, LinesSoFar, Progress, Ends, FirstLine, More,
                vars, arguments
  <2>. QED
    BY <2>1, signKeeps, EnterPackKeeps, FoldLineKeeps, PackedKeeps, MtaHandsOverKeeps, UnpackKeeps DEF Next, Over
<1>. QED
  BY <1>1, FoldInit, PTL DEF Spec

-----------------------------------------------------------------------------
(* What a reader of the header relies on. *)

\* The least of a set that holds x and nothing below it.
LEMMA MinIs ==
    ASSUME NEW S \in SUBSET Nat, NEW x \in S, \A y \in S : x <= y
    PROVE  Min(S) = x
<1>1. Min(S) \in S /\ Min(S) <= x
  BY MinIsLeast
<1>2. Min(S) \in Nat /\ x \in Nat /\ x <= Min(S)
  BY <1>1
<1>. QED
  BY <1>1, <1>2

\* Where a line ends: at the next line end, or with the text.
LEMMA LineEndIs ==
    ASSUME FoldInv, phase = "packed", NEW s \in Starts
    PROVE  \/ /\ LineEnd(s) = Len(value) /\ LineSize(s) <= max_line_size
              /\ s # 1 => LineSize(s) > 1
           \/ LineSize(s) = max_line_size
<1>. DEFINE n == Len(value)
            S == {n} \cup {k - 2 : k \in {j \in DOMAIN value : j > s /\ value[j] = LF}}
<1>1. /\ value \in Seq(Int) /\ n \in Nat /\ pos \in Nat /\ line_len \in Nat
      /\ max_line_size \in Nat /\ max_line_size >= 3 /\ FirstLine \in Nat /\ FirstLine <= max_line_size
      /\ header_name_size \in Nat /\ FirstLine = max_line_size - (header_name_size + 2)
      /\ AtLine /\ LinesSoFar /\ n <= pos + line_len
  <2>1. FirstLine = max_line_size - (header_name_size + 2)
    BY DEF FirstLine
  <2>2. value \in Seq(Int) /\ pos \in Nat /\ n \in Nat
    BY DEF FoldInv, TypeOK
  <2>3. AtLine /\ LinesSoFar
    BY DEF FoldInv, Lines
  <2>4. /\ max_line_size \in Nat /\ max_line_size >= 3 /\ FirstLine \in Nat /\ FirstLine <= max_line_size
        /\ header_name_size \in Nat /\ line_len \in Nat
    BY SizesAre DEF FoldInv
  <2>5. n <= pos + line_len
    BY <2>2, <2>4 DEF FoldInv, More
  <2>. QED
    BY <2>1, <2>2, <2>3, <2>4, <2>5
<1>2. LineEnd(s) = Min(S) /\ S = {n} \cup {k - 2 : k \in {j \in Ends : j > s}}
  <2>1. DOMAIN value = 1 .. n
    BY <1>1
  <2>. QED
    BY <2>1 DEF LineEnd, Ends
<1>3. ASSUME NEW e \in Nat, LineEnd(s) = e, NEW x \in Nat, s = x
      PROVE  LineSize(s) = IF x = 1 THEN e + (header_name_size + 2) ELSE e - x + 1
  BY <1>1, <1>3 DEF LineSize
<1>4. s \in Nat /\ (s = 1 \/ s - 1 \in Ends)
  <2>1. DOMAIN value = 1 .. n
    BY <1>1
  <2>2. s = 1 \/ \E k \in Ends : s = k + 1
    BY <2>1 DEF Starts, Ends
  <2>3. CASE s # 1
    <3>1. PICK k \in Ends : s = k + 1
      BY <2>2, <2>3
    <3>2. k \in Nat
      BY DEF Ends
    <3>. QED
      BY <3>1, <3>2
  <2>. QED
    BY <2>3
<1>5. \A j \in Ends : j \in 1 .. n /\ FirstLine + 2 <= j /\ j <= pos /\ (j < pos => j + max_line_size + 2 \in Ends)
  BY <1>1 DEF LinesSoFar, Ends
<1>6. \A j, k \in Ends : k > j => k >= j + max_line_size + 2
  BY <1>1 DEF LinesSoFar
<1>. HIDE DEF S, n
<1>7. S \in SUBSET Nat
  <2>1. ASSUME NEW k \in Ends PROVE k - 2 \in Nat
    <3>1. k \in 1 .. n /\ FirstLine + 2 <= k
      BY <1>5
    <3>. QED
      BY <1>1, <3>1
  <2>. QED
    BY <1>1, <1>2, <2>1
<1>8. CASE s = 1 /\ pos = 0
  <2>1. Ends = {}
    BY <1>1, <1>5, <1>8
  <2>2. n \in S /\ \A y \in S : n <= y
    BY <1>1, <1>2, <2>1
  <2>3. Min(S) = n
    BY <1>7, <2>2, MinIs
  <2>4. line_len = FirstLine
    BY <1>1, <1>8 DEF AtLine
  <2>5. LineSize(s) = n + (header_name_size + 2)
    BY <1>1, <1>2, <1>3, <1>8, <2>3
  <2>6. LineSize(s) <= max_line_size
    BY <1>1, <1>8, <2>4, <2>5
  <2>. QED
    BY <1>2, <1>8, <2>3, <2>6 DEF n
<1>9. CASE s = 1 /\ pos > 0
  <2>1. FirstLine + 2 \in Ends /\ FirstLine + 2 <= n
    <3>1. FirstLine + 2 \in Ends
      BY <1>1, <1>9 DEF AtLine
    <3>. QED
      BY <1>5, <3>1
  <2>2. FirstLine \in S
    <3>1. FirstLine + 2 > s /\ (FirstLine + 2) - 2 = FirstLine
      BY <1>1, <1>9
    <3>. QED
      BY <1>2, <2>1, <3>1
  <2>3. \A y \in S : FirstLine <= y
    <3>1. ASSUME NEW k \in Ends PROVE FirstLine <= k - 2
      <4>1. k \in 1 .. n /\ FirstLine + 2 <= k
        BY <1>5
      <4>. QED
        BY <1>1, <4>1
    <3>2. FirstLine <= n
      BY <1>1, <2>1
    <3>. QED
      BY <1>2, <3>1, <3>2
  <2>4. Min(S) = FirstLine
    BY <1>7, <2>2, <2>3, MinIs
  <2>5. LineSize(s) = FirstLine + (header_name_size + 2)
    BY <1>1, <1>2, <1>3, <1>9, <2>4
  <2>. QED
    BY <1>1, <2>5
<1>10. CASE s # 1 /\ s - 1 < pos
  <2>. DEFINE j == s - 1
  <2>1. j \in Ends /\ j + max_line_size + 2 \in Ends /\ s = j + 1 /\ j \in Nat
    <3>1. j \in Ends /\ j < pos
      BY <1>4, <1>10
    <3>2. j \in 1 .. n
      BY <1>5, <3>1
    <3>3. j \in Nat /\ s = j + 1
      BY <1>4, <3>2
    <3>. QED
      BY <1>5, <3>1, <3>3
  <2>. HIDE DEF j
  <2>2. j + max_line_size \in S
    <3>1. j + max_line_size + 2 > s /\ (j + max_line_size + 2) - 2 = j + max_line_size
      BY <1>1, <2>1
    <3>. QED
      BY <1>2, <2>1, <3>1
  <2>3. ASSUME NEW y \in S PROVE j + max_line_size <= y
    <3>1. CASE y = n
      <4>1. j + max_line_size + 2 \in 1 .. n
        BY <1>5, <2>1
      <4>. QED
        BY <1>1, <2>1, <3>1, <4>1
    <3>2. CASE \E k \in Ends : k > s /\ y = k - 2
      <4>1. PICK k \in Ends : k > s /\ y = k - 2
        BY <3>2
      <4>2. k >= j + max_line_size + 2 /\ k \in Nat
        BY <1>5, <1>6, <2>1, <4>1
      <4>. QED
        BY <1>1, <2>1, <4>1, <4>2
    <3>. QED
      BY <1>2, <3>1, <3>2
  <2>4. Min(S) = j + max_line_size
    BY <1>7, <2>2, <2>3, MinIs
  <2>5. j + max_line_size \in Nat /\ j + 1 \in Nat /\ j + 1 # 1
    BY <1>1, <1>4, <1>10, <2>1
  <2>6. LineSize(s) = max_line_size
    <3>. DEFINE e == j + max_line_size
                x == j + 1
    <3>1. LineEnd(s) = e /\ e \in Nat /\ x \in Nat /\ s = x /\ x # 1
      BY <1>2, <2>1, <2>4, <2>5
    <3>2. e = j + max_line_size /\ x = j + 1
      OBVIOUS
    <3>. HIDE DEF e, x
    <3>3. LineSize(s) = e - x + 1
      BY <1>3, <3>1
    <3>. QED
      BY <1>1, <2>1, <3>1, <3>2, <3>3
  <2>. QED
    BY <1>1, <2>1, <2>6
<1>11. CASE s # 1 /\ s - 1 >= pos
  <2>1. s = pos + 1 /\ pos > 0
    <3>1. s - 1 \in Ends
      BY <1>4, <1>11
    <3>2. s - 1 <= pos /\ s - 1 >= 1
      BY <1>5, <3>1
    <3>. QED
      BY <1>1, <1>4, <1>11, <3>2
  <2>2. n \in S /\ \A y \in S : n <= y
    <3>1. \A k \in Ends : ~ (k > s)
      BY <1>1, <1>5, <2>1
    <3>. QED
      BY <1>1, <1>2, <3>1
  <2>3. Min(S) = n
    BY <1>7, <2>2, MinIs
  <2>4. line_len = Smaller(n - pos, max_line_size) /\ pos + 2 <= n
    BY <1>1, <2>1 DEF AtLine, n
  <2>5. n - pos <= max_line_size
    BY <1>1, <2>4 DEF Smaller
  <2>6. LineSize(s) = n - pos
    <3>1. pos + 1 \in Nat /\ pos + 1 # 1
      BY <1>1, <2>1
    <3>2. LineSize(s) = n - (pos + 1) + 1
      BY <1>1, <1>2, <1>3, <2>1, <2>3, <3>1
    <3>. QED
      BY <1>1, <3>2
  <2>. QED
    BY <1>1, <1>2, <2>3, <2>4, <2>5, <2>6 DEF n
<1>. QED
  BY <1>1, <1>4, <1>5, <1>8, <1>9, <1>10, <1>11

\* The fields keep their types, and what is taken from pos on is inside the text.
THEOREM TypeCorrect == Spec => []TypeOK
BY Folding, PTL DEF FoldInv

\* No line of a signed header is longer than max_line_size, and all but the last are that long.
THEOREM Full == Spec => []LinesFull
<1>1. FoldInv => LinesFull
  <2>. SUFFICES ASSUME FoldInv, phase = "packed", NEW s \in Starts
                PROVE  LineSize(s) <= max_line_size /\ (LineEnd(s) # Len(value) => LineSize(s) = max_line_size)
    BY DEF LinesFull
  <2>1. max_line_size \in Nat
    BY SizesAre DEF FoldInv
  <2>. QED
    BY <2>1, LineEndIs
<1>. QED
  BY <1>1, Folding, PTL

\* Every later line begins with its tab and holds more than that.
THEOREM NoneBlank == Spec => []NoBlankLine
<1>1. FoldInv => NoBlankLine
  <2>. SUFFICES ASSUME FoldInv, phase = "packed", NEW s \in Starts, s # 1
                PROVE  LineSize(s) > 1 /\ value[s] = TAB
    BY DEF NoBlankLine
  <2>1. max_line_size \in Nat /\ max_line_size >= 3
    BY SizesAre DEF FoldInv
  <2>2. LineSize(s) > 1
    BY <2>1, LineEndIs
  <2>3. PICK k \in Ends : s = k + 1
    <3>1. DOMAIN value = 1 .. Len(value)
      BY DEF FoldInv, TypeOK
    <3>. QED
      BY <3>1 DEF Starts, Ends
  <2>4. value[k + 1] = TAB
    BY DEF FoldInv, Lines, LinesSoFar
  <2>. QED
    BY <2>2, <2>3, <2>4
<1>. QED
  BY <1>1, Folding, PTL

\* The signature that is verified is the one that was made, through folding, the MTA and joining.
THEOREM Unchanged == Spec => []RoundTrip
<1>1. FoldInv => RoundTrip
  BY DEF FoldInv, Content, RoundTrip
<1>. QED
  BY <1>1, Folding, PTL

\* Folding comes to an end: what it adds is bounded by the signature.
THEOREM Bounded == Spec => []PackBounded
BY Folding, PTL DEF FoldInv
===============================================================================
