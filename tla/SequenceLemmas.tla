--------------------------- MODULE SequenceLemmas ---------------------------
(***************************************************************************)
(* Induction over numbers, and what follows from it for the sequences that *)
(* specifications put together: FlattenSeq goes piece by piece, Pick one   *)
(* element after the other.                                                *)
(***************************************************************************)
EXTENDS Integers, Sequences, SequencesExt, Subsequences, SequenceTheorems,
        WellFoundedInduction, TLAPS

\* A set of numbers that has 0 and with every number the next one has all.
LEMMA SetInduction ==
    ASSUME NEW S, 0 \in S, \A n \in Nat : n \in S => n + 1 \in S
    PROVE  Nat \subseteq S
<1> DEFINE T == Nat \ S
           R == OpToRel(<, Nat)
<1>1. SUFFICES ASSUME T # {} PROVE FALSE
  OBVIOUS
<1>2. IsWellFoundedOn(R, Nat)
  BY NatLessThanWellFounded
<1>3. \A x, y \in Nat : x < y => <<x, y>> \in R
  BY DEF OpToRel
<1> HIDE DEF R
<1>4. PICK x \in T : \A y \in T : ~ (<<y, x>> \in R)
  BY <1>1, <1>2, WFMin, Zenon
<1>5. x # 0 /\ x - 1 \in Nat /\ x - 1 < x
  BY <1>4
<1>6. x - 1 \in S
  BY <1>3, <1>4, <1>5
<1>7. QED
  BY <1>4, <1>5, <1>6

\* The same up to a bound.
LEMMA UpTo ==
    ASSUME NEW n \in Nat, NEW S, 0 \in S,
           \A i \in 1..n : i - 1 \in S => i \in S
    PROVE  0..n \subseteq S
<1> DEFINE T == S \cup {i \in Nat : i > n}
<1>1. 0 \in T
  OBVIOUS
<1>2. \A i \in Nat : i \in T => i + 1 \in T
  <2>1. SUFFICES ASSUME NEW i \in Nat, i \in T PROVE i + 1 \in T
    OBVIOUS
  <2>2. CASE i >= n
    BY <2>2
  <2>3. CASE i < n
    <3>1. i + 1 \in 1..n /\ (i + 1) - 1 = i /\ i \in S
      BY <2>1, <2>3
    <3>2. QED
      BY <3>1
  <2>4. QED
    BY <2>2, <2>3
<1> HIDE DEF T
<1>3. Nat \subseteq T
  BY <1>1, <1>2, SetInduction
<1>4. QED
  BY <1>3 DEF T

\* A set of numbers below a bound has a least and a greatest member.
LEMMA MinOf ==
    ASSUME NEW S \in SUBSET Nat, S # {}
    PROVE  Min(S) \in S /\ \A y \in S : Min(S) <= y
<1> DEFINE R == OpToRel(<, Nat)
<1>1. IsWellFoundedOn(R, Nat)
  BY NatLessThanWellFounded
<1>2. \A x, y \in Nat : x < y => <<x, y>> \in R
  BY DEF OpToRel
<1> HIDE DEF R
<1>3. PICK x \in S : \A y \in S : ~ (<<y, x>> \in R)
  BY <1>1, WFMin, Zenon
<1>4. ASSUME NEW y \in S PROVE x =< y
  <2>1. x \in Nat /\ y \in Nat /\ ~ y < x
    BY <1>2, <1>3
  <2>2. QED
    BY <2>1
<1>5. QED
  BY <1>4 DEF Min

LEMMA MaxOf ==
    ASSUME NEW n \in Nat, NEW S \in SUBSET (0..n), S # {}
    PROVE  Max(S) \in S /\ \A y \in S : y <= Max(S)
<1> DEFINE T == {i \in 0..n : (\E y \in S : y <= i) =>
                    \E m \in S : m <= i /\ \A y \in S : y <= i => y <= m}
<1>1. 0 \in T
  OBVIOUS
<1>2. ASSUME NEW i \in 1..n, i - 1 \in T PROVE i \in T
  <2>1. CASE i \in S
    BY <2>1
  <2>2. CASE i \notin S
    <3>1. \A y \in S : y <= i <=> y <= i - 1
      BY <2>2
    <3>2. QED
      BY <3>1, <1>2
  <2>3. QED
    BY <2>1, <2>2
<1> HIDE DEF T
<1>3. n \in T
  <2>1. 0..n \subseteq T
    BY <1>1, <1>2, UpTo
  <2>2. QED
    BY <2>1
<1>4. PICK m \in S : \A y \in S : m >= y
  <2>1. \A y \in S : y \in Nat /\ y <= n
    OBVIOUS
  <2>2. (\E y \in S : y <= n) =>
            \E m \in S : m <= n /\ \A y \in S : y <= n => y <= m
    BY <1>3 DEF T
  <2>3. \E y \in S : y <= n
    BY <2>1
  <2>4. PICK m \in S : \A y \in S : y <= n => y <= m
    BY <2>2, <2>3
  <2>5. \A y \in S : m >= y
    BY <2>1, <2>4
  <2>6. QED
    BY <2>5
<1>5. Max(S) \in S /\ \A y \in S : Max(S) >= y
  BY <1>4 DEF Max
<1>6. QED
  BY <1>5

\* A piece of a sequence, from the place behind a to the place b.
LEMMA Cutout ==
    ASSUME NEW S, NEW s \in Seq(S), NEW a \in Nat, NEW b \in Nat, a <= b, b <= Len(s)
    PROVE  /\ SubSeq(s, a + 1, b) \in Seq(S)
           /\ Len(SubSeq(s, a + 1, b)) = b - a
           /\ \A i \in 1..(b - a) : SubSeq(s, a + 1, b)[i] = s[a + i]
<1> DEFINE t == [i \in 1..(b - a) |-> s[a + i]]
<1>1. SubSeq(s, a + 1, b) = [i \in 1..(b - (a + 1) + 1) |-> s[i + (a + 1) - 1]]
  OBVIOUS
<1>2. b - (a + 1) + 1 = b - a /\ \A i \in 1..(b - a) : i + (a + 1) - 1 = a + i
  OBVIOUS
<1>3. SubSeq(s, a + 1, b) = t
  BY <1>1, <1>2
<1>4. b - a \in Nat /\ \A i \in 1..(b - a) : s[a + i] \in S
  OBVIOUS
<1>5. t \in Seq(S) /\ Len(t) = b - a
  BY <1>4
<1>6. QED
  BY <1>3, <1>5

\* Sequences are the same that have the same elements.
LEMMA SameSequence ==
    ASSUME NEW S, NEW s \in Seq(S), NEW T, NEW t \in Seq(T), Len(s) = Len(t),
           \A i \in 1..Len(s) : s[i] = t[i]
    PROVE  s = t
OBVIOUS

\* u is s with t behind it, element by element.
IsJoined(u, s, t) ==
    /\ Len(u) = Len(s) + Len(t)
    /\ \A i \in 1..Len(s) : u[i] = s[i]
    /\ \A i \in 1..Len(t) : u[Len(s) + i] = t[i]

LEMMA Joined ==
    ASSUME NEW S, NEW s \in Seq(S), NEW t \in Seq(S)
    PROVE  s \o t \in Seq(S) /\ IsJoined(s \o t, s, t)
<1> DEFINE c == Len(s)
           d == Len(t)
           st == s \o t
<1>1. c \in Nat /\ d \in Nat /\ st \in Seq(S) /\ Len(st) = c + d
  OBVIOUS
<1>2. \A i \in 1..(c + d) : st[i] = IF i <= c THEN s[i] ELSE t[i - c]
  OBVIOUS
<1> HIDE DEF c, d, st
<1>3. ASSUME NEW i \in 1..c PROVE st[i] = s[i]
  BY <1>1, <1>2
<1>4. ASSUME NEW i \in 1..d PROVE st[c + i] = t[i]
  <2>1. c + i \in 1..(c + d) /\ ~ c + i <= c /\ (c + i) - c = i
    BY <1>1
  <2>2. QED
    BY <1>2, <2>1
<1>5. QED
  BY <1>1, <1>3, <1>4 DEF IsJoined, c, d, st

\* A sequence with one more element, whatever that is.
LEMMA Longer ==
    ASSUME NEW S, NEW s \in Seq(S), NEW e
    PROVE  Append(s, e) = [i \in 1..(Len(s) + 1) |-> IF i = Len(s) + 1 THEN e ELSE s[i]]
<1> DEFINE T == S \cup {e}
           c == Len(s)
           u == Append(s, e)
<1>1. s \in Seq(T) /\ e \in T
  OBVIOUS
<1> HIDE DEF T
<1>2. u \in Seq(T) /\ Len(u) = c + 1 /\ c \in Nat
  BY <1>1
<1>3. \A i \in 1..(c + 1) : u[i] = IF i = c + 1 THEN e ELSE s[i]
  BY <1>1
<1> HIDE DEF u, c
<1>4. u = [i \in 1..(c + 1) |-> u[i]]
  BY <1>2
<1>5. u = [i \in 1..(c + 1) |-> IF i = c + 1 THEN e ELSE s[i]]
  BY <1>3, <1>4
<1>6. QED
  BY <1>5 DEF u, c

\* What is picked of a sequence, from the first element on.
IsPicked(f, s, P, n) ==
    f = [i \in 0..n |-> IF i = 0 THEN <<>>
                        ELSE IF i \in P THEN Append(f[i - 1], s[i]) ELSE f[i - 1]]

\* The definition of Picked by recursion has a solution.
LEMMA PickedExists ==
    ASSUME NEW s, NEW P, NEW n \in Nat
    PROVE  \E f : IsPicked(f, s, P, n)
<1> DEFINE S == {k \in Nat : \E f : IsPicked(f, s, P, k)}
           Step(f, i) == IF i = 0 THEN <<>>
                         ELSE IF i \in P THEN Append(f[i - 1], s[i]) ELSE f[i - 1]
<1>1. 0 \in S
  <2> DEFINE f == [i \in 0..0 |-> <<>>]
  <2>1. f = [i \in 0..0 |-> Step(f, i)]
    <3>1. \A i \in 0..0 : i = 0
      OBVIOUS
    <3>2. QED
      BY <3>1
  <2> HIDE DEF f
  <2>2. IsPicked(f, s, P, 0)
    BY <2>1, Zenon DEF IsPicked
  <2>3. QED
    BY <2>2
<1>2. ASSUME NEW k \in Nat, k \in S PROVE k + 1 \in S
  <2>1. PICK f : IsPicked(f, s, P, k)
    BY <1>2
  <2> DEFINE g == [i \in 0..(k + 1) |-> Step(f, i)]
  <2>2. \A i \in 0..k : g[i] = f[i]
    <3>1. f = [i \in 0..k |-> Step(f, i)]
      BY <2>1, Zenon DEF IsPicked
    <3> HIDE DEF Step
    <3>2. \A i \in 0..k : f[i] = Step(f, i)
      BY <3>1, Zenon
    <3>3. \A i \in 0..k : i \in 0..(k + 1)
      OBVIOUS
    <3>4. QED
      BY ONLY <3>2, <3>3, Zenon
  <2>3. g = [i \in 0..(k + 1) |-> Step(g, i)]
    <3>1. \A i \in 0..(k + 1) : i # 0 => i - 1 \in 0..k
      OBVIOUS
    <3>2. \A i \in 0..(k + 1) : i # 0 => g[i - 1] = f[i - 1]
      BY <3>1, <2>2
    <3> HIDE <2>2
    <3>3. QED
      BY <3>2
  <2> HIDE DEF g
  <2>4. IsPicked(g, s, P, k + 1)
    BY <2>3, Zenon DEF IsPicked
  <2>5. QED
    BY <2>4
<1> HIDE DEF S
<1>3. n \in S
  BY <1>1, <1>2, SetInduction
<1>4. QED
  BY <1>3 DEF S

\* What it makes of a sequence, step by step.
GoesByPick(f, s, P, S) ==
    /\ f[0] = <<>>
    /\ \A i \in 1..Len(s) : f[i] = IF i \in P THEN Append(f[i - 1], s[i]) ELSE f[i - 1]
    /\ \A i \in 0..Len(s) : f[i] \in Seq(S)

\* Picked takes one element after the other.
LEMMA PickedSteps ==
    ASSUME NEW S, NEW s \in Seq(S), NEW P
    PROVE  GoesByPick(Picked(s, P), s, P, S)
<1> DEFINE n == Len(s)
           f == Picked(s, P)
           Step(i) == IF i = 0 THEN <<>>
                      ELSE IF i \in P THEN Append(f[i - 1], s[i]) ELSE f[i - 1]
<1>1. n \in Nat /\ \A i \in 1..n : s[i] \in S
  OBVIOUS
<1>2. IsPicked(f, s, P, n)
  <2>1. \E g : IsPicked(g, s, P, n)
    BY <1>1, PickedExists
  <2>2. f = CHOOSE g : IsPicked(g, s, P, n)
    BY DEF Picked, IsPicked
  <2> HIDE DEF f
  <2>3. QED
    BY <2>1, <2>2
<1> HIDE DEF f, n
<1>3. f = [i \in 0..n |-> Step(i)]
  BY <1>2, Zenon DEF IsPicked
<1> HIDE DEF Step
<1>4. \A i \in 0..n : f[i] = Step(i)
  BY <1>3, Zenon
<1>5. 0 \in 0..n /\ \A i \in 1..n : i \in 0..n /\ i # 0
  BY <1>1
<1>6. f[0] = <<>>
  BY <1>4, <1>5 DEF Step
<1>7. \A i \in 1..n : f[i] = IF i \in P THEN Append(f[i - 1], s[i]) ELSE f[i - 1]
  BY <1>4, <1>5 DEF Step
<1> DEFINE T == {i \in 0..n : f[i] \in Seq(S)}
<1>8. 0..n \subseteq T
  <2>1. 0 \in T
    BY <1>5, <1>6, EmptySeq
  <2>2. ASSUME NEW i \in 1..n, i - 1 \in T PROVE i \in T
    <3>1. f[i - 1] \in Seq(S) /\ s[i] \in S
      BY <1>1, <2>2
    <3>2. Append(f[i - 1], s[i]) \in Seq(S)
      BY <3>1
    <3>3. f[i] \in Seq(S)
      BY <1>7, <3>1, <3>2
    <3>4. QED
      BY <1>5, <3>3
  <2> HIDE DEF T
  <2>3. QED
    BY <1>1, <2>1, <2>2, UpTo
<1>9. QED
  BY <1>6, <1>7, <1>8 DEF f, n, GoesByPick

\* The places that are picked, one by one.
EachPlace(P, s, g, c) ==
    /\ g \in [1..c -> 1..Len(s)]
    /\ \A j, k \in 1..c : j < k => g[j] < g[k]
    /\ \A i \in 1..Len(s) : i \in P <=> \E k \in 1..c : i = g[k]

\* If they are known, so is what is there.
LEMMA PickEach ==
    ASSUME NEW S, NEW s \in Seq(S), NEW c \in Nat, NEW P, NEW g, EachPlace(P, s, g, c)
    PROVE  Pick(s, P) = [k \in 1..c |-> s[g[k]]]
<1> DEFINE n == Len(s)
           f == Picked(s, P)
           Upto(m) == [k \in 1..m |-> s[g[k]]]
           T == {i \in 0..n : \E m \in 0..c :
                    /\ f[i] = Upto(m)
                    /\ \A k \in 1..m : g[k] <= i
                    /\ \A k \in (m + 1)..c : g[k] > i}
<1> USE DEF EachPlace
<1>1. n \in Nat /\ \A i \in 1..n : s[i] \in S
  OBVIOUS
<1>2. /\ f[0] = <<>>
      /\ \A i \in 1..n : f[i] = IF i \in P THEN Append(f[i - 1], s[i]) ELSE f[i - 1]
  BY PickedSteps DEF GoesByPick
<1>3. \A k \in 1..c : g[k] \in 1..n /\ s[g[k]] \in S
  BY <1>1
<1> HIDE DEF f, n
<1>4. 0 \in T
  <2>1. f[0] = Upto(0)
    BY <1>2
  <2>2. \A k \in (0 + 1)..c : g[k] > 0
    BY <1>1, <1>3
  <2>3. \A k \in 1..0 : g[k] <= 0
    OBVIOUS
  <2>4. QED
    BY <1>1, <2>1, <2>2, <2>3
<1>5. ASSUME NEW i \in 1..n, i - 1 \in T PROVE i \in T
  <2>1. PICK m \in 0..c : /\ f[i - 1] = Upto(m)
                          /\ \A k \in 1..m : g[k] <= i - 1
                          /\ \A k \in (m + 1)..c : g[k] > i - 1
    BY <1>5
  <2>2. CASE i \in P
    <3>1. PICK k \in 1..c : i = g[k]
      BY <2>2 DEF n
    <3>2. k > m
      <4>1. SUFFICES ASSUME ~ k > m PROVE FALSE
        OBVIOUS
      <4>2. k \in 1..m
        BY <4>1
      <4>3. g[k] <= i - 1
        BY <2>1, <4>2
      <4>4. QED
        BY <3>1, <4>3
    <3>3. k = m + 1
      <4>1. SUFFICES ASSUME k > m + 1 PROVE FALSE
        BY <3>2
      <4>2. m + 1 \in 1..c /\ m + 1 \in (m + 1)..c
        BY <4>1
      <4>3. g[m + 1] > i - 1 /\ g[m + 1] < g[k] /\ g[m + 1] \in Nat
        BY <2>1, <4>1, <4>2, <1>1, <1>3
      <4>4. QED
        BY <3>1, <4>3
    <3>4. f[i] = Upto(m + 1)
      <4>1. f[i] = Append(Upto(m), s[g[m + 1]])
        BY <1>2, <2>1, <2>2, <3>1, <3>3
      <4>2. Upto(m) \in Seq(S) /\ Len(Upto(m)) = m
        BY <1>3
      <4>3. Upto(m + 1) \in Seq(S) /\ Len(Upto(m + 1)) = m + 1
        BY <1>3, <3>3
      <4>4. \A j \in 1..(m + 1) :
                Append(Upto(m), s[g[m + 1]])[j] = Upto(m + 1)[j]
        BY <4>2
      <4>5. s[g[m + 1]] \in S
        BY <1>3, <3>3
      <4> HIDE DEF Upto
      <4>6. Append(Upto(m), s[g[m + 1]]) \in Seq(S)
            /\ Len(Append(Upto(m), s[g[m + 1]])) = m + 1
        BY <4>2, <4>5
      <4>7. QED
        BY <4>1, <4>3, <4>4, <4>6, SameSequence
    <3>5. \A j \in 1..(m + 1) : g[j] <= i
      <4>1. \A j \in 1..m : g[j] <= i
        BY <2>1, <1>3, <1>1
      <4>2. QED
        BY <3>1, <3>3, <4>1, <1>1
    <3>6. \A j \in (m + 1 + 1)..c : g[j] > i
      BY <3>1, <3>3, <1>1, <1>3
    <3>7. m + 1 \in 0..c /\ i \in 0..n
      BY <3>3
    <3>8. QED
      BY <3>4, <3>5, <3>6, <3>7
  <2>3. CASE i \notin P
    <3>1. f[i] = Upto(m)
      BY <1>2, <2>1, <2>3
    <3>2. \A k \in 1..m : g[k] <= i
      BY <2>1, <1>1, <1>3
    <3>3. \A k \in (m + 1)..c : g[k] > i
      <4>1. SUFFICES ASSUME NEW k \in (m + 1)..c PROVE g[k] > i
        OBVIOUS
      <4>2. k \in 1..c /\ g[k] > i - 1 /\ g[k] \in Nat
        BY <2>1, <1>1, <1>3
      <4>3. g[k] # i
        BY <2>3, <4>2 DEF n
      <4>4. QED
        BY <4>2, <4>3
    <3>4. i \in 0..n
      OBVIOUS
    <3>5. QED
      BY <3>1, <3>2, <3>3, <3>4
  <2>4. QED
    BY <2>2, <2>3
<1> HIDE DEF T
<1>6. n \in T
  <2>1. 0..n \subseteq T
    BY <1>1, <1>4, <1>5, UpTo
  <2>2. QED
    BY <2>1, <1>1
<1>7. PICK m \in 0..c : f[n] = Upto(m) /\ \A k \in (m + 1)..c : g[k] > n
  BY <1>6 DEF T
<1>8. m = c
  <2>1. SUFFICES ASSUME m < c PROVE FALSE
    BY <1>7
  <2>2. c \in (m + 1)..c /\ c \in 1..c
    BY <2>1
  <2>3. g[c] > n /\ g[c] \in 1..n
    BY <2>2, <1>7, <1>3
  <2>4. QED
    BY <2>3, <1>1
<1>9. QED
  BY <1>7, <1>8 DEF Pick, f, n

\* The sequences that FlattenSeq puts together, from the first one on.
IsFlattening(f, seqs, n) ==
    f = [i \in 1..n |-> IF i = 1 THEN seqs[i] ELSE f[i - 1] \o seqs[i]]

\* The definition of FlattenSeq by recursion has a solution.
LEMMA FlatteningExists ==
    ASSUME NEW seqs, NEW n \in Nat
    PROVE  \E f : IsFlattening(f, seqs, n)
<1> DEFINE S == {k \in Nat : \E f : IsFlattening(f, seqs, k)}
<1>1. 0 \in S
  <2> DEFINE f == [i \in 1..0 |-> seqs[i]]
  <2>1. IsFlattening(f, seqs, 0)
    BY DEF IsFlattening
  <2> HIDE DEF f
  <2>2. QED
    BY <2>1
<1>2. ASSUME NEW k \in Nat, k \in S PROVE k + 1 \in S
  <2>1. PICK f : IsFlattening(f, seqs, k)
    BY <1>2
  <2> DEFINE g == [i \in 1..(k + 1) |->
                      IF i = 1 THEN seqs[i] ELSE f[i - 1] \o seqs[i]]
  <2>2. \A i \in 1..k : g[i] = f[i]
    <3>1. f = [i \in 1..k |-> IF i = 1 THEN seqs[i] ELSE f[i - 1] \o seqs[i]]
      BY <2>1, Zenon DEF IsFlattening
    <3>2. \A i \in 1..k : f[i] = IF i = 1 THEN seqs[i] ELSE f[i - 1] \o seqs[i]
      BY <3>1, Zenon
    <3>3. \A i \in 1..k : i \in 1..(k + 1)
      OBVIOUS
    <3>4. QED
      BY ONLY <3>2, <3>3, Zenon
  <2>3. g = [i \in 1..(k + 1) |-> IF i = 1 THEN seqs[i] ELSE g[i - 1] \o seqs[i]]
    <3>1. \A i \in 1..(k + 1) : i # 1 => i - 1 \in 1..k
      OBVIOUS
    <3>2. \A i \in 1..(k + 1) : i # 1 => g[i - 1] = f[i - 1]
      BY <3>1, <2>2
    <3> HIDE <2>2
    <3>3. QED
      BY <3>2
  <2> HIDE DEF g
  <2>4. IsFlattening(g, seqs, k + 1)
    BY <2>3 DEF IsFlattening
  <2>5. QED
    BY <2>4
<1> HIDE DEF S
<1>3. n \in S
  BY <1>1, <1>2, SetInduction
<1>4. QED
  BY <1>3 DEF S

\* FlattenSeq appends one sequence over S after the other.
GoesByPiece(seqs, n, S) ==
    \E f \in [0..n -> Seq(S)] :
        /\ f[0] = <<>> /\ f[n] = FlattenSeq(seqs)
        /\ \A i \in 1..n : f[i] = f[i - 1] \o seqs[i]

\* It does, for any sequence of sequences.
LEMMA FlattenUnrolled ==
    ASSUME NEW S, NEW n \in Nat, NEW seqs \in [1..n -> Seq(S)]
    PROVE  GoesByPiece(seqs, n, S)
<1> USE DEF GoesByPiece
<1>1. Len(seqs) = n
  OBVIOUS
<1>2. CASE n = 0
  <2>1. seqs = <<>> /\ FlattenSeq(seqs) = <<>>
    BY <1>1, <1>2 DEF FlattenSeq
  <2> DEFINE e == [i \in 0..n |-> <<>>]
  <2>2. e \in [0..n -> Seq(S)] /\ e[0] = <<>>
    BY EmptySeq
  <2>3. 1..n = {}
    BY <1>2
  <2> HIDE DEF e
  <2>4. QED
    BY <1>2, <2>1, <2>2, <2>3
<1>3. CASE n > 0
  <2> DEFINE g == CHOOSE f : IsFlattening(f, seqs, n)
             f == [i \in 0..n |-> IF i = 0 THEN <<>> ELSE g[i]]
  <2>1. FlattenSeq(seqs) = g[n]
    BY <1>1, <1>3 DEF FlattenSeq, IsFlattening
  <2>2. IsFlattening(g, seqs, n)
    BY FlatteningExists
  <2> HIDE DEF g
  <2>3. g = [i \in 1..n |-> IF i = 1 THEN seqs[i] ELSE g[i - 1] \o seqs[i]]
    BY <2>2, Zenon DEF IsFlattening
  <2>4. \A i \in 1..n : g[i] = IF i = 1 THEN seqs[i] ELSE g[i - 1] \o seqs[i]
    BY <2>3, Zenon
  <2>5. \A i \in 1..n : f[i] = f[i - 1] \o seqs[i]
    <3>1. SUFFICES ASSUME NEW i \in 1..n PROVE f[i] = f[i - 1] \o seqs[i]
      OBVIOUS
    <3>2. seqs[i] \in Seq(S) /\ <<>> \o seqs[i] = seqs[i]
      OBVIOUS
    <3>3. CASE i = 1
      BY <3>2, <3>3, <2>4
    <3>4. CASE i # 1
      <4>1. g[i] = g[i - 1] \o seqs[i]
        BY <3>4, <2>4
      <4>2. f[i] = g[i] /\ f[i - 1] = g[i - 1]
        BY <3>4
      <4>3. QED
        BY <4>1, <4>2
    <3>5. QED
      BY <3>3, <3>4
  <2>6. f[0] = <<>> /\ f[n] = g[n] /\ DOMAIN f = 0..n
    BY <1>3
  <2> DEFINE T == {i \in 0..n : f[i] \in Seq(S)}
  <2> HIDE DEF f
  <2>7. 0..n \subseteq T
    <3>1. 0 \in T
      <4>1. f[0] \in Seq(S)
        BY <2>6, EmptySeq
      <4>2. 0 \in 0..n
        OBVIOUS
      <4>3. QED
        BY ONLY <4>1, <4>2, Zenon
    <3>2. ASSUME NEW i \in 1..n, i - 1 \in T PROVE i \in T
      <4>1. f[i - 1] \in Seq(S) /\ seqs[i] \in Seq(S) /\ f[i] = f[i - 1] \o seqs[i]
        BY <3>2, <2>5
      <4>2. f[i] \in Seq(S)
        BY <4>1
      <4>3. i \in 0..n
        OBVIOUS
      <4>4. QED
        BY ONLY <4>2, <4>3, Zenon
    <3> HIDE DEF T
    <3>3. QED
      BY <3>1, <3>2, UpTo
  <2>8. f \in [0..n -> Seq(S)]
    BY <2>7 DEF f
  <2>9. QED
    BY <2>1, <2>5, <2>6, <2>8
<1>4. n = 0 \/ n > 0
  OBVIOUS
<1>5. QED
  BY <1>2, <1>3, <1>4, Zenon
=============================================================================
