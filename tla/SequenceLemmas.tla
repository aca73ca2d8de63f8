--------------------------- MODULE SequenceLemmas ---------------------------
(***************************************************************************)
(* Lemmas on natural numbers, recursive functions, FlattenSeq and the      *)
(* beginnings of sequences, for proofs about sequences of any length.  A   *)
(* set of numbers with 0 and successors is all of them (Induction, from    *)
(* WFMin), so that a recursive function over 0..n has the values its step  *)
(* gives (Recursion), and FlattenSeq is what it stands for: one sequence   *)
(* after the other (Joins).                                                *)
(***************************************************************************)
EXTENDS Integers, SequencesExt, SequenceTheorems, WellFoundedInduction, TLAPS

-----------------------------------------------------------------------------
(* Induction over the natural numbers, and the recursive functions.          *)

LEMMA Least == ASSUME NEW T \in SUBSET Nat, T # {} PROVE \E x \in T : \A y \in T : x <= y
<1> DEFINE R == {ss \in Nat \X Nat : ss[1] < ss[2]}
<1>1. IsWellFoundedOn(R, Nat)
  <2>1. OpToRel(<, Nat) = R
    BY DEF OpToRel
  <2> QED BY <2>1, NatLessThanWellFounded
<1>2. PICK x \in T : \A y \in T : ~ (<<y, x>> \in R)
  <2> HIDE DEF R
  <2> QED BY <1>1, WFMin
<1>3. ASSUME NEW y \in T PROVE x <= y
  <2>1. <<y, x>> \in Nat \X Nat
    OBVIOUS
  <2>2. ~ (y < x)
    <3>1. ASSUME y < x PROVE <<y, x>> \in R
      BY <2>1, <3>1
    <3> QED BY <1>2, <3>1
  <2> QED BY <2>2
<1> QED BY <1>3

LEMMA Induction ==
  ASSUME NEW T \in SUBSET Nat, 0 \in T, \A n \in T : n + 1 \in T PROVE T = Nat
<1>1. SUFFICES ASSUME Nat \ T # {} PROVE FALSE
  OBVIOUS
<1>2. PICK x \in Nat \ T : \A y \in Nat \ T : x <= y
  BY <1>1, Least
<1>3. x # 0 /\ x - 1 \in Nat /\ x - 1 \in T
  BY <1>2
<1> QED BY <1>2, <1>3

(* f is the recursive function over 0..n with that base and step.            *)
IsStep(step, X, n) == step \in [X \X (1..n) -> X]
Iterates(f, X, n, base, step) ==
  /\ f \in [0..n -> X]
  /\ f[0] = base
  /\ \A i \in 1..n : f[i] = step[<<f[i - 1], i>>]

LEMMA Recursion ==
  ASSUME NEW X, NEW base \in X, NEW n \in Nat, NEW step, IsStep(step, X, n)
  PROVE  \E f : Iterates(f, X, n, base, step)
<1> USE DEF IsStep
<1> DEFINE Good(m, f) == /\ f \in [0..m -> X]
                         /\ f[0] = base
                         /\ \A i \in 1..m : f[i] = step[<<f[i - 1], i>>]
           T == {m \in Nat : m <= n => \E f : Good(m, f)}
<1>1. 0 \in T
  <2>1. Good(0, [i \in 0..0 |-> base])
    OBVIOUS
  <2> QED BY <2>1
<1>2. ASSUME NEW m \in T PROVE m + 1 \in T
  <2>1. CASE m + 1 <= n
    <3>1. m \in Nat /\ m <= n /\ m + 1 \in 1..n
      BY <2>1
    <3>2. PICK f : Good(m, f)
      <4> HIDE DEF Good
      <4> QED BY <3>1
    <3> DEFINE g == [i \in 0..(m + 1) |-> IF i <= m THEN f[i] ELSE step[<<f[m], m + 1>>]]
    <3>3. f[m] \in X /\ step[<<f[m], m + 1>>] \in X
      BY <3>1, <3>2
    <3>4. g \in [0..(m + 1) -> X]
      BY <3>1, <3>2, <3>3
    <3>5. g[0] = base
      BY <3>1, <3>2
    <3>6. ASSUME NEW i \in 1..(m + 1) PROVE g[i] = step[<<g[i - 1], i>>]
      <4>1. CASE i <= m
        BY <3>1, <3>2, <4>1
      <4>2. CASE i = m + 1
        BY <3>1, <3>2, <4>2
      <4> QED BY <3>1, <4>1, <4>2
    <3>7. Good(m + 1, g)
      BY <3>4, <3>5, <3>6
    <3> HIDE DEF g, Good
    <3> QED BY <3>1, <3>7
  <2>2. CASE ~ (m + 1 <= n)
    <3> HIDE DEF Good
    <3> QED BY <2>2
  <2> QED BY <2>1, <2>2
<1>3. T = Nat
  <2> HIDE DEF T
  <2>1. T \in SUBSET Nat
    BY DEF T
  <2> QED BY <1>1, <1>2, <2>1, Induction
<1>4. PICK f : Good(n, f)
  <2>1. n \in T
    BY <1>3
  <2> HIDE DEF Good
  <2> QED BY <2>1
<1> QED BY <1>4 DEF Iterates

(* f[i] is the first i sequences of s, one after the other. *)
Joins(S, s, f) ==
  /\ f \in [0..Len(s) -> Seq(S)]
  /\ f[0] = <<>>
  /\ \A i \in 1..Len(s) : f[i] = f[i - 1] \o s[i]

LEMMA JoinsExist ==
  ASSUME NEW S, NEW s \in Seq(Seq(S)) PROVE \E f : Joins(S, s, f)
<1> DEFINE X == Seq(S)
           none == <<>>
           n == Len(s)
           step == [a \in X \X (1..n) |-> a[1] \o s[a[2]]]
<1>1. step \in [X \X (1..n) -> X]
  <2>1. ASSUME NEW a \in Seq(S) \X (1..Len(s)) PROVE a[1] \o s[a[2]] \in Seq(S)
    OBVIOUS
  <2> QED BY <2>1
<1>2. \A a \in X, i \in 1..n : step[<<a, i>>] = a \o s[i]
  OBVIOUS
<1>3. none \in X /\ n \in Nat
  OBVIOUS
<1>4. PICK f : Iterates(f, X, n, none, step)
  <2>1. IsStep(step, X, n)
    BY <1>1 DEF IsStep
  <2> HIDE DEF step, X, none, n
  <2> QED BY <1>3, <2>1, Recursion
<1>5. f \in [0..n -> X] /\ f[0] = none /\ \A i \in 1..n : f[i] = step[<<f[i - 1], i>>]
  <2> HIDE DEF step, X, none, n
  <2> QED BY <1>4 DEF Iterates
<1>6. ASSUME NEW i \in 1..n PROVE f[i] = f[i - 1] \o s[i]
  <2>1. f[i - 1] \in X
    <3> HIDE DEF X, n, step
    <3> QED BY <1>3, <1>5
  <2> HIDE DEF step, X
  <2> QED BY <1>2, <1>5, <2>1
<1> HIDE DEF step
<1> QED BY <1>5, <1>6 DEF Joins

LEMMA JoinsEnd ==
  ASSUME NEW S, NEW s \in Seq(Seq(S)), NEW f, Joins(S, s, f)
  PROVE  FlattenSeq(s) = f[Len(s)] /\ f[Len(s)] \in Seq(S)
<1>0. f[Len(s)] \in Seq(S) /\ Len(s) \in Nat
  BY DEF Joins
<1>1. CASE Len(s) = 0
  <2>1. FlattenSeq(s) = <<>>
    BY <1>1 DEF FlattenSeq
  <2> QED BY <1>0, <1>1, <2>1 DEF Joins
<1>2. CASE Len(s) # 0
  <2> DEFINE Cat(a, i) == a \o s[i]
             Is(g) == g = [i \in 1..Len(s) |-> IF i = 1 THEN s[i] ELSE Cat(g[i-1], i)]
             F == [i \in 1..Len(s) |-> f[i]]
             G == CHOOSE g : Is(g)
  <2>1. FlattenSeq(s) = G[Len(s)]
    BY <1>2 DEF FlattenSeq
  <2>0. /\ f[1] = s[1]
        /\ \A i \in 1..Len(s) : f[i] = Cat(f[i - 1], i)
    <3>0. 1 \in 1..Len(s) /\ 1 - 1 = 0 /\ s[1] \in Seq(S)
      BY <1>0, <1>2
    <3>1. f[1] = <<>> \o s[1]
      BY <3>0 DEF Joins
    <3>2. f[1] = s[1]
      BY <3>0, <3>1
    <3> QED BY <3>2 DEF Joins
  <2> HIDE DEF Cat
  <2>2. Is(F)
    BY <1>0, <1>2, <2>0
  <2>3. Is(G)
    <3> HIDE DEF F, Is
    <3> QED BY <2>2
  <2> HIDE DEF G
  <2> DEFINE T == {n \in Nat : n + 1 <= Len(s) => G[n + 1] = f[n + 1]}
  <2>4. 0 \in T
    <3>1. G[1] = s[1]
      BY <1>0, <1>2, <2>3
    <3> QED BY <2>0, <3>1
  <2>5. ASSUME NEW n \in T PROVE n + 1 \in T
    <3>1. CASE n + 2 <= Len(s)
      <4>1. n \in Nat /\ n + 1 \in 1..Len(s) /\ n + 2 \in 1..Len(s)
            /\ (n + 1) + 1 = n + 2 /\ (n + 2) - 1 = n + 1 /\ n + 2 # 1
        BY <3>1
      <4>2. G[n + 1] = f[n + 1]
        BY <4>1
      <4>3. G[n + 2] = Cat(G[n + 1], n + 2)
        BY <2>3, <4>1
      <4>4. f[n + 2] = Cat(f[n + 1], n + 2)
        BY <2>0, <4>1
      <4>5. G[n + 2] = f[n + 2]
        BY <4>2, <4>3, <4>4
      <4> QED BY <4>1, <4>5
    <3>2. CASE ~ (n + 2 <= Len(s))
      BY <3>2
    <3> QED BY <3>1, <3>2
  <2>6. T = Nat
    <3> HIDE DEF T
    <3>1. T \in SUBSET Nat
      BY DEF T
    <3> QED BY <2>4, <2>5, <3>1, Induction
  <2>7. Len(s) - 1 \in T /\ (Len(s) - 1) + 1 = Len(s)
    <3> HIDE DEF T
    <3>1. Len(s) - 1 \in Nat
      BY <1>0, <1>2
    <3> QED BY <2>6, <3>1
  <2>8. G[Len(s)] = f[Len(s)]
    BY <2>7
  <2> QED BY <1>0, <2>1, <2>8
<1> QED BY <1>1, <1>2

LEMMA FlattenTyped == ASSUME NEW S, NEW s \in Seq(Seq(S)) PROVE FlattenSeq(s) \in Seq(S)
BY JoinsExist, JoinsEnd

-----------------------------------------------------------------------------
(* Sequences one after the other: FlattenSeq, which is recursive, as the     *)
(* concatenation it stands for.                                              *)

LEMMA CatFacts ==
  ASSUME NEW S, NEW a \in Seq(S), NEW b \in Seq(S)
  PROVE  /\ a \o b \in Seq(S) /\ Len(a \o b) = Len(a) + Len(b)
         /\ Len(a) \in Nat /\ Len(b) \in Nat
         /\ \A i \in 1..Len(a) : (a \o b)[i] = a[i]
         /\ \A i \in 1..Len(b) : (a \o b)[Len(a) + i] = b[i]
OBVIOUS

LEMMA SameSeq ==
  ASSUME NEW S, NEW a \in Seq(S), NEW b \in Seq(S), Len(a) = Len(b),
         \A i \in 1..Len(a) : a[i] = b[i]
  PROVE  a = b
OBVIOUS

LEMMA CatEmpty == ASSUME NEW S, NEW a \in Seq(S) PROVE a \o <<>> = a /\ <<>> \o a = a
OBVIOUS

LEMMA CatAssoc ==
  ASSUME NEW S, NEW a \in Seq(S), NEW b \in Seq(S), NEW c \in Seq(S)
  PROVE  (a \o b) \o c = a \o (b \o c)
BY ConcatAssociative

LEMMA FlattenCat ==
  ASSUME NEW S, NEW s \in Seq(Seq(S)), NEW t \in Seq(Seq(S))
  PROVE  FlattenSeq(s \o t) = FlattenSeq(s) \o FlattenSeq(t)
<1>1. PICK f : Joins(S, s, f)
  BY JoinsExist
<1>2. PICK g : Joins(S, t, g)
  BY JoinsExist
<1> DEFINE m == Len(s)
           n == Len(t)
           st == s \o t
           h == [i \in 0..Len(st) |-> IF i <= m THEN f[i] ELSE f[m] \o g[i - m]]
<1>3. st \in Seq(Seq(S)) /\ Len(st) = m + n /\ m \in Nat /\ n \in Nat
      /\ (\A i \in 1..m : st[i] = s[i]) /\ \A i \in 1..n : st[m + i] = t[i]
  BY CatFacts
<1>4. f[m] \in Seq(S) /\ (\A j \in 0..n : g[j] \in Seq(S)) /\ (\A j \in 0..m : f[j] \in Seq(S))
      /\ g[0] = <<>> /\ f[0] = <<>>
  <2>1. m \in 0..m
    BY <1>3
  <2>2. f \in [0..m -> Seq(S)] /\ f[0] = <<>>
    BY <1>1 DEF Joins
  <2>3. g \in [0..n -> Seq(S)] /\ g[0] = <<>>
    BY <1>2 DEF Joins
  <2> HIDE DEF m, n
  <2> QED BY <2>1, <2>2, <2>3
<1>5. \A j \in 0..n : h[m + j] = f[m] \o g[j]
  <2>1. ASSUME NEW j \in 0..n, j > 0 PROVE h[m + j] = f[m] \o g[j]
    <3>1. m + j \in 0..Len(st) /\ ~ (m + j <= m) /\ (m + j) - m = j
      BY <1>3, <2>1
    <3> HIDE DEF st, m
    <3> QED BY <3>1
  <2>2. h[m + 0] = f[m] \o g[0]
    <3>1. f[m] \o g[0] = f[m]
      BY <1>4, CatEmpty
    <3> QED BY <1>3, <3>1
  <2> HIDE DEF h, st, m, n
  <2>3. \A j \in 0..n : j > 0 \/ j = 0
    BY <1>3
  <2> QED BY <2>1, <2>2, <2>3
<1>6. \A j \in 0..m : h[j] = f[j]
  <2> HIDE DEF st
  <2> QED BY <1>3
<1>7. Joins(S, st, h)
  <2>1. h \in [0..Len(st) -> Seq(S)]
    <3>1. ASSUME NEW i \in 0..Len(st) PROVE h[i] \in Seq(S)
      <4>1. CASE i <= m
        BY <1>3, <1>4, <1>6, <4>1
      <4>2. CASE i > m
        <5> DEFINE j == i - m
        <5>1. j \in 0..n /\ i = m + j
          BY <1>3, <4>2
        <5> HIDE DEF h, st, m, n, j
        <5>2. f[m] \o g[j] \in Seq(S)
          BY <1>4, <5>1, CatFacts
        <5> QED BY <1>5, <5>1, <5>2
      <4> QED BY <1>3, <4>1, <4>2
    <3> QED BY <3>1
  <2>2. h[0] = <<>>
    <3> HIDE DEF h, st, m
    <3> QED BY <1>3, <1>4, <1>6
  <2>3. ASSUME NEW i \in 1..Len(st) PROVE h[i] = h[i - 1] \o st[i]
    <3>1. CASE i <= m
      <4>1. i \in 1..m /\ i \in 0..m /\ i - 1 \in 0..m
        BY <1>3, <3>1
      <4>2. f[i] = f[i - 1] \o s[i]
        BY <1>1, <4>1 DEF Joins
      <4>3. st[i] = s[i]
        BY <1>3, <4>1
      <4> HIDE DEF h, st, m
      <4> QED BY <1>6, <4>1, <4>2, <4>3
    <3>2. CASE i > m
      <4> DEFINE j == i - m
      <4>1. j \in 1..n /\ j \in 0..n /\ j - 1 \in 0..n /\ i = m + j /\ i - 1 = m + (j - 1)
        BY <1>3, <3>2
      <4>2. g[j] = g[j - 1] \o t[j]
        <5> HIDE DEF j
        <5> QED BY <1>2, <4>1 DEF Joins
      <4>3. st[i] = t[j]
        <5> HIDE DEF st, m
        <5> QED BY <1>3, <4>1
      <4> HIDE DEF h, st, m, n, j
      <4>4. h[i] = f[m] \o (g[j - 1] \o t[j]) /\ h[i - 1] = f[m] \o g[j - 1]
        BY <1>5, <4>1, <4>2
      <4>5. t[j] \in Seq(S)
        BY <4>1 DEF n
      <4>6. (f[m] \o g[j - 1]) \o t[j] = f[m] \o (g[j - 1] \o t[j])
        <5> DEFINE a == f[m]
                   b == g[j - 1]
                   c == t[j]
        <5>1. a \in Seq(S) /\ b \in Seq(S) /\ c \in Seq(S)
          BY <1>4, <4>1, <4>5
        <5> HIDE DEF a, b, c
        <5>2. (a \o b) \o c = a \o (b \o c)
          BY <5>1, CatAssoc, SMTT(30)
        <5> QED BY <5>2 DEF a, b, c
      <4> QED BY <4>3, <4>4, <4>6
    <3>3. i <= m \/ i > m
      <4> HIDE DEF h, st
      <4> QED BY <1>3
    <3> HIDE DEF h, st, m
    <3> QED BY <3>1, <3>2, <3>3
  <2> HIDE DEF h, st, m, n
  <2> QED BY <2>1, <2>2, <2>3 DEF Joins
<1>8. FlattenSeq(st) = h[Len(st)]
  <2> HIDE DEF h, st
  <2> QED BY <1>3, <1>7, JoinsEnd
<1>9. FlattenSeq(s) = f[m] /\ FlattenSeq(t) = g[n]
  BY <1>1, <1>2, JoinsEnd
<1>10. h[Len(st)] = f[m] \o g[n]
  <2>1. n \in 0..n
    BY <1>3
  <2> HIDE DEF h, st, m, n
  <2> QED BY <1>3, <1>5, <2>1
<1> HIDE DEF h
<1> QED BY <1>8, <1>9, <1>10

LEMMA FlattenNone == FlattenSeq(<<>>) = <<>>
<1>1. <<>> \in Seq(Seq({}))
  OBVIOUS
<1>2. PICK f : Joins({}, <<>>, f)
  BY <1>1, JoinsExist
<1>3. f[0] = <<>> /\ Len(<<>>) = 0
  BY <1>2 DEF Joins
<1> QED BY <1>1, <1>2, <1>3, JoinsEnd

LEMMA FlattenOne == ASSUME NEW S, NEW a \in Seq(S) PROVE FlattenSeq(<<a>>) = a
<1>1. <<a>> \in Seq(Seq(S)) /\ Len(<<a>>) = 1 /\ <<a>>[1] = a
  OBVIOUS
<1>2. PICK f : Joins(S, <<a>>, f)
  BY <1>1, JoinsExist
<1> DEFINE s == <<a>>
<1> HIDE DEF s
<1>3. f[0] = <<>> /\ f[1] = f[0] \o a
  <2>1. f[0] = <<>> /\ \A i \in 1..1 : f[i] = f[i - 1] \o s[i]
    BY <1>1, <1>2 DEF Joins, s
  <2>2. s[1] = a
    BY <1>1 DEF s
  <2>3. 1 \in 1..1 /\ 1 - 1 = 0
    OBVIOUS
  <2>4. f[1] = f[1 - 1] \o s[1]
    BY <2>1, <2>3
  <2> QED BY <2>1, <2>2, <2>3, <2>4
<1>4. f[1] = a
  BY <1>3, CatEmpty
<1> QED BY <1>1, <1>2, <1>4, JoinsEnd

LEMMA FlattenPieces ==
  ASSUME NEW S, NEW c \in Seq(S)
  PROVE  FlattenSeq([k \in DOMAIN c |-> <<c[k]>>]) = c
<1> DEFINE s == [k \in DOMAIN c |-> <<c[k]>>]
           f == [i \in 0..Len(c) |-> SubSeq(c, 1, i)]
<1>1. s \in Seq(Seq(S)) /\ Len(s) = Len(c) /\ Len(c) \in Nat /\ \A k \in 1..Len(c) : s[k] = <<c[k]>>
  <2>1. Len(c) \in Nat /\ DOMAIN c = 1..Len(c)
    OBVIOUS
  <2>2. ASSUME NEW k \in 1..Len(c) PROVE <<c[k]>> \in Seq(S)
    OBVIOUS
  <2>3. s = [k \in 1..Len(c) |-> <<c[k]>>]
    BY <2>1
  <2>4. s \in [1..Len(c) -> Seq(S)]
    <3> HIDE DEF s
    <3> QED BY <2>2, <2>3
  <2> HIDE DEF s
  <2>5. s \in Seq(Seq(S)) /\ Len(s) = Len(c)
    BY <2>1, <2>4
  <2> QED BY <2>1, <2>3, <2>5
<1>2. Joins(S, s, f)
  <2>1. f \in [0..Len(c) -> Seq(S)]
    OBVIOUS
  <2>2. f[0] = <<>>
    OBVIOUS
  <2>3. ASSUME NEW i \in 1..Len(c) PROVE f[i] = f[i - 1] \o s[i]
    <3>1. f[i] = SubSeq(c, 1, i) /\ f[i - 1] = SubSeq(c, 1, i - 1) /\ s[i] = <<c[i]>>
      OBVIOUS
    <3>2. SubSeq(c, 1, i) = SubSeq(c, 1, i - 1) \o <<c[i]>>
      OBVIOUS
    <3> HIDE DEF f, s
    <3> QED BY <3>1, <3>2
  <2> HIDE DEF f, s
  <2> QED BY <1>1, <2>1, <2>2, <2>3 DEF Joins
<1>3. FlattenSeq(s) = f[Len(c)]
  <2> HIDE DEF f, s
  <2> QED BY <1>1, <1>2, JoinsEnd
<1>4. f[Len(c)] = c
  OBVIOUS
<1> QED BY <1>3, <1>4

-----------------------------------------------------------------------------
(* The first elements of a sequence, and the one after them.                 *)

\* The length, the elements and the beginnings of a sequence.
LEMMA SeqFacts ==
  ASSUME NEW S, NEW p \in Seq(S)
  PROVE  /\ Len(p) \in Nat /\ DOMAIN p = 1..Len(p) /\ \A i \in 1..Len(p) : p[i] \in S
         /\ \A i \in 0..Len(p) :
               /\ SubSeq(p, 1, i) \in Seq(S) /\ Len(SubSeq(p, 1, i)) = i
               /\ \A j \in 1..i : SubSeq(p, 1, i)[j] = p[j]
         /\ SubSeq(p, 1, Len(p)) = p
OBVIOUS

\* A sequence with one element more.
LEMMA AppendFacts ==
  ASSUME NEW S, NEW p \in Seq(S), NEW n \in S
  PROVE  /\ Append(p, n) \in Seq(S) /\ Len(Append(p, n)) = Len(p) + 1
         /\ Append(p, n)[Len(p) + 1] = n /\ \A i \in 1..Len(p) : Append(p, n)[i] = p[i]
         /\ Append(p, n) # <<>> /\ Front(Append(p, n)) = p /\ Last(Append(p, n)) = n
<1>1. /\ Append(p, n) \in Seq(S) /\ Len(Append(p, n)) = Len(p) + 1
      /\ Append(p, n)[Len(p) + 1] = n /\ \A i \in 1..Len(p) : Append(p, n)[i] = p[i]
      /\ Append(p, n) # <<>> /\ Len(p) \in Nat
  OBVIOUS
<1>2. SubSeq(Append(p, n), 1, Len(p)) = p
  OBVIOUS
<1> QED BY <1>1, <1>2 DEF Front, Last

\* A path is its front and its last name.
LEMMA FrontLast ==
  ASSUME NEW S, NEW p \in Seq(S), p # <<>>
  PROVE  /\ Front(p) \in Seq(S) /\ Last(p) \in S /\ Len(Front(p)) = Len(p) - 1 /\ Len(p) \in Nat \ {0}
         /\ p = Append(Front(p), Last(p)) /\ \A i \in 1..Len(Front(p)) : Front(p)[i] = p[i]
<1>1. Len(p) \in Nat \ {0} /\ Last(p) \in S
  BY DEF Last
<1>2. /\ Front(p) \in Seq(S) /\ Len(Front(p)) = Len(p) - 1
      /\ \A i \in 1..Len(Front(p)) : Front(p)[i] = p[i]
  <2>1. Len(p) - 1 \in 0..Len(p)
    BY <1>1
  <2> QED BY <2>1, SeqFacts DEF Front
<1> DEFINE q == Append(Front(p), Last(p))
<1>3. q \in Seq(S) /\ Len(q) = Len(p) /\ q[Len(p)] = p[Len(p)] /\ \A i \in 1..(Len(p) - 1) : q[i] = p[i]
  BY <1>1, <1>2, AppendFacts DEF Last
<1> HIDE DEF q
<1>4. \A i \in 1..Len(p) : q[i] = p[i]
  BY <1>1, <1>3
<1>5. q = p
  BY <1>3, <1>4, SameSeq
<1> QED BY <1>1, <1>2, <1>5 DEF q

\* The first names of a path, and the next.
LEMMA OneMore ==
  ASSUME NEW S, NEW p \in Seq(S), NEW i \in 1..Len(p)
  PROVE  /\ SubSeq(p, 1, i) = Append(SubSeq(p, 1, i - 1), p[i])
         /\ p[i] \in S /\ SubSeq(p, 1, i - 1) \in Seq(S) /\ SubSeq(p, 1, i) \in Seq(S)
         /\ Front(SubSeq(p, 1, i)) = SubSeq(p, 1, i - 1)
<1>1. i \in 0..Len(p) /\ i - 1 \in 0..Len(p) /\ i \in Nat /\ i - 1 \in Nat
  BY SeqFacts
<1> DEFINE a == SubSeq(p, 1, i)
           b == SubSeq(p, 1, i - 1)
           c == Append(b, p[i])
<1>2. /\ a \in Seq(S) /\ Len(a) = i /\ \A j \in 1..i : a[j] = p[j]
      /\ b \in Seq(S) /\ Len(b) = i - 1 /\ \A j \in 1..(i - 1) : b[j] = p[j]
      /\ p[i] \in S
  BY <1>1, SeqFacts
<1> HIDE DEF a, b
<1>3. c \in Seq(S) /\ Len(c) = i /\ c[i] = p[i] /\ (\A j \in 1..(i - 1) : c[j] = b[j]) /\ Front(c) = b
  BY <1>1, <1>2, AppendFacts
<1> HIDE DEF c
<1>4. \A j \in 1..i : a[j] = c[j]
  BY <1>1, <1>2, <1>3
<1>5. a = c
  BY <1>2, <1>3, <1>4, SameSeq
<1> QED BY <1>2, <1>3, <1>5 DEF a, b, c

\* A piece of a sequence put behind another, element by element.
LEMMA CatMore ==
  ASSUME NEW S, NEW a \in Seq(S), NEW p \in Seq(S), NEW i \in 0..Len(p), NEW j \in (i + 1)..Len(p)
  PROVE  a \o SubSeq(p, i + 1, j) = Append(a \o SubSeq(p, i + 1, j - 1), p[j])
<1> DEFINE b == SubSeq(p, i + 1, j)
           c == SubSeq(p, i + 1, j - 1)
           x == a \o b
           y == Append(a \o c, p[j])
           m == j - i
           l == Len(a)
<1>1. m \in Nat \ {0} /\ l \in Nat /\ i \in Nat /\ j \in Nat /\ p[j] \in S /\ i + m = j
  OBVIOUS
<1>2. b \in Seq(S) /\ Len(b) = m /\ \A k \in 1..m : b[k] = p[i + k]
  OBVIOUS
<1>3. c \in Seq(S) /\ Len(c) = m - 1 /\ \A k \in 1..(m - 1) : c[k] = p[i + k]
  OBVIOUS
<1> HIDE DEF b, c, m, l
<1>4. /\ x \in Seq(S) /\ Len(x) = l + m /\ (\A k \in 1..l : x[k] = a[k])
      /\ \A k \in 1..m : x[l + k] = b[k]
  <2>1. /\ x \in Seq(S) /\ Len(x) = Len(a) + Len(b) /\ (\A k \in 1..Len(a) : x[k] = a[k])
        /\ \A k \in 1..Len(b) : x[Len(a) + k] = b[k]
    BY <1>2, CatFacts
  <2> QED BY <1>2, <2>1 DEF l
<1>5. /\ a \o c \in Seq(S) /\ Len(a \o c) = l + (m - 1) /\ (\A k \in 1..l : (a \o c)[k] = a[k])
      /\ \A k \in 1..(m - 1) : (a \o c)[l + k] = c[k]
  <2>1. /\ a \o c \in Seq(S) /\ Len(a \o c) = Len(a) + Len(c)
        /\ (\A k \in 1..Len(a) : (a \o c)[k] = a[k])
        /\ \A k \in 1..Len(c) : (a \o c)[Len(a) + k] = c[k]
    BY <1>3, CatFacts
  <2> QED BY <1>3, <2>1 DEF l
<1>6. /\ y \in Seq(S) /\ Len(y) = (l + (m - 1)) + 1 /\ y[(l + (m - 1)) + 1] = p[j]
      /\ \A k \in 1..(l + (m - 1)) : y[k] = (a \o c)[k]
  BY <1>1, <1>5, AppendFacts
<1> HIDE DEF x, y
<1>7. ASSUME NEW k \in 1..(l + m) PROVE x[k] = y[k]
  <2>1. CASE k <= l
    <3>1. k \in 1..l /\ k \in 1..(l + (m - 1))
      BY <1>1, <2>1
    <3> QED BY <1>4, <1>5, <1>6, <3>1
  <2>2. CASE k > l /\ k < l + m
    <3>1. k - l \in 1..m /\ k - l \in 1..(m - 1) /\ k = l + (k - l) /\ k \in 1..(l + (m - 1))
      BY <1>1, <2>2
    <3>2. x[l + (k - l)] = b[k - l] /\ (a \o c)[l + (k - l)] = c[k - l] /\ b[k - l] = c[k - l]
      BY <1>2, <1>3, <1>4, <1>5, <3>1
    <3> QED BY <1>6, <3>1, <3>2
  <2>3. CASE k = l + m
    <3>1. m \in 1..m /\ k = (l + (m - 1)) + 1
      BY <1>1, <2>3
    <3>2. x[l + m] = b[m] /\ b[m] = p[i + m]
      BY <1>2, <1>4, <3>1
    <3> QED BY <1>1, <1>6, <2>3, <3>1, <3>2
  <2> QED BY <1>1, <2>1, <2>2, <2>3
<1>8. Len(x) = Len(y) /\ \A k \in 1..Len(x) : x[k] = y[k]
  BY <1>1, <1>4, <1>6, <1>7
<1>9. x = y
  BY <1>4, <1>6, <1>8, SameSeq
<1> QED BY <1>9 DEF x, y, b, c

\* The beginnings of a sequence with one element more.
LEMMA BeginningsOfMore ==
  ASSUME NEW S, NEW a \in Seq(S), NEW n \in S
  PROVE  /\ \A k \in 0..Len(a) : SubSeq(Append(a, n), 1, k) = SubSeq(a, 1, k)
         /\ SubSeq(Append(a, n), 1, Len(a) + 1) = Append(a, n) /\ Len(a) \in Nat
<1> DEFINE q == Append(a, n)
<1>1. q \in Seq(S) /\ Len(q) = Len(a) + 1 /\ Len(a) \in Nat /\ \A i \in 1..Len(a) : q[i] = a[i]
  BY AppendFacts, SeqFacts
<1> HIDE DEF q
<1>2. ASSUME NEW k \in 0..Len(a) PROVE SubSeq(q, 1, k) = SubSeq(a, 1, k)
  <2> DEFINE x == SubSeq(q, 1, k)
             y == SubSeq(a, 1, k)
  <2>1. k \in 0..Len(q) /\ \A j \in 1..k : j \in 1..Len(a)
    BY <1>1
  <2>2. x \in Seq(S) /\ Len(x) = k /\ \A j \in 1..k : x[j] = q[j]
    BY <1>1, <2>1, SeqFacts
  <2>3. y \in Seq(S) /\ Len(y) = k /\ \A j \in 1..k : y[j] = a[j]
    BY <1>1, SeqFacts
  <2> HIDE DEF x, y
  <2>4. \A j \in 1..k : x[j] = y[j]
    BY <1>1, <2>1, <2>2, <2>3
  <2>5. x = y
    BY <2>2, <2>3, <2>4, SameSeq
  <2> QED BY <2>5 DEF x, y
<1>3. SubSeq(q, 1, Len(q)) = q
  BY <1>1, SeqFacts
<1> QED BY <1>1, <1>2, <1>3 DEF q

\* The beginnings of a sequence short of it, and their fronts.
LEMMA Fronts ==
  ASSUME NEW S, NEW f \in Seq(S), f # <<>>
  PROVE  /\ Len(f) \in Nat \ {0}
         /\ Front(f) = SubSeq(f, 1, Len(f) - 1) /\ Len(f) - 1 \in 0..(Len(f) - 1)
         /\ \A i \in 0..(Len(f) - 1) :
               /\ SubSeq(f, 1, i) \in Seq(S) /\ SubSeq(f, 1, i) # f
               /\ SubSeq(f, 1, i) # <<>> => i - 1 \in 0..(Len(f) - 1)
                                            /\ Front(SubSeq(f, 1, i)) = SubSeq(f, 1, i - 1)
<1>1. Len(f) \in Nat \ {0}
  OBVIOUS
<1>2. Front(f) = SubSeq(f, 1, Len(f) - 1) /\ Len(f) - 1 \in 0..(Len(f) - 1)
  BY <1>1 DEF Front
<1>3. ASSUME NEW i \in 0..(Len(f) - 1)
      PROVE  /\ SubSeq(f, 1, i) \in Seq(S) /\ SubSeq(f, 1, i) # f
             /\ SubSeq(f, 1, i) # <<>> => i - 1 \in 0..(Len(f) - 1)
                                            /\ Front(SubSeq(f, 1, i)) = SubSeq(f, 1, i - 1)
  <2>1. i \in 0..Len(f) /\ i < Len(f)
    BY <1>1
  <2>2. SubSeq(f, 1, i) \in Seq(S) /\ Len(SubSeq(f, 1, i)) = i
    BY <2>1, SeqFacts
  <2>3. SubSeq(f, 1, i) # f
    BY <2>1, <2>2
  <2>4. ASSUME SubSeq(f, 1, i) # <<>>
        PROVE  i - 1 \in 0..(Len(f) - 1) /\ Front(SubSeq(f, 1, i)) = SubSeq(f, 1, i - 1)
    <3>1. i # 0
      BY <2>4
    <3>2. i \in 1..Len(f) /\ i - 1 \in 0..(Len(f) - 1)
      BY <1>1, <2>1, <3>1
    <3> QED BY <3>2, OneMore
  <2> QED BY <2>2, <2>3, <2>4
<1> QED BY <1>1, <1>2, <1>3

\* A sequence is a beginning of it and the rest.
LEMMA PrefixAndRest ==
  ASSUME NEW S, NEW a \in Seq(S), NEW q \in Seq(S), IsPrefix(a, q)
  PROVE  /\ a \o SubSeq(q, Len(a) + 1, Len(q)) = q
         /\ SubSeq(q, Len(a) + 1, Len(q)) \in Seq(S)
         /\ SubSeq(q, Len(a) + 1, Len(q)) = <<>> => q = a
<1> DEFINE b == SubSeq(q, Len(a) + 1, Len(q))
           x == a \o b
<1>1. Len(a) \in Nat /\ Len(q) \in Nat /\ Len(a) <= Len(q) /\ SubSeq(a, 1, Len(a)) = SubSeq(q, 1, Len(a))
  BY SeqFacts DEF IsPrefix
<1>2. \A i \in 1..Len(a) : a[i] = q[i]
  <2>1. SubSeq(a, 1, Len(a)) = a
    BY SeqFacts
  <2>2. Len(a) \in 0..Len(q)
    BY <1>1
  <2>3. \A j \in 1..Len(a) : SubSeq(q, 1, Len(a))[j] = q[j]
    BY <2>2, SeqFacts
  <2> QED BY <1>1, <2>1, <2>3
<1>3. b \in Seq(S) /\ Len(b) = Len(q) - Len(a) /\ \A k \in 1..Len(b) : b[k] = q[Len(a) + k]
  BY <1>1
<1> HIDE DEF b
<1>4. /\ x \in Seq(S) /\ Len(x) = Len(a) + Len(b) /\ (\A k \in 1..Len(a) : x[k] = a[k])
      /\ \A k \in 1..Len(b) : x[Len(a) + k] = b[k]
  BY <1>3, CatFacts
<1> HIDE DEF x
<1>5. ASSUME NEW k \in 1..Len(q) PROVE x[k] = q[k]
  <2>1. CASE k <= Len(a)
    BY <1>1, <1>2, <1>4, <2>1
  <2>2. CASE k > Len(a)
    <3>1. k - Len(a) \in 1..Len(b) /\ k = Len(a) + (k - Len(a))
      BY <1>1, <1>3, <2>2
    <3>2. x[Len(a) + (k - Len(a))] = b[k - Len(a)] /\ b[k - Len(a)] = q[Len(a) + (k - Len(a))]
      BY <1>3, <1>4, <3>1
    <3> QED BY <3>1, <3>2
  <2> QED BY <1>1, <2>1, <2>2
<1>6. x = q
  <2>1. Len(x) = Len(q)
    BY <1>1, <1>3, <1>4
  <2> QED BY <1>4, <1>5, <2>1, SameSeq
<1>7. b = <<>> => q = a
  <2>1. a \o <<>> = a
    BY CatEmpty
  <2> QED BY <1>6, <2>1 DEF x
<1> QED BY <1>3, <1>6, <1>7 DEF b, x

\* Of numbers up to n, some of which are, one is the last.
LEMMA Latest ==
  ASSUME NEW n \in Nat, NEW S \in SUBSET (0..n), S # {}
  PROVE  Max(S) \in S /\ \A k \in S : k <= Max(S)
<1> DEFINE T == {k \in Nat : k <= n /\ n - k \in S}
<1>1. PICK j \in S : TRUE
  OBVIOUS
<1>2. n - j \in T
  BY <1>1
<1>3. PICK x \in T : \A y \in T : x <= y
  BY <1>2, Least
<1>4. \A k \in S : n - k \in T
  OBVIOUS
<1>5. n - x \in S /\ \A k \in S : n - x >= k
  BY <1>3, <1>4
<1>6. Max(S) \in S /\ \A k \in S : Max(S) >= k
  BY <1>5 DEF Max
<1> QED BY <1>6
=============================================================================
