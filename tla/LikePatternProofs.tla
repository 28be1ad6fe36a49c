------------------------- MODULE LikePatternProofs --------------------------
(***************************************************************************)
(* Proofs about LikePattern: where1::check_str accepts the well formed     *)
(* patterns and no others, and where1::like says what they mean, for       *)
(* patterns and texts of any length.                                       *)
(***************************************************************************)
EXTENDS LikePattern, SequenceLemmas, TLAPS

-----------------------------------------------------------------------------
(* Numbers *)

\* A property of places that holds of each if it holds of all behind it, holds.
LEMMA DownFrom ==
    ASSUME NEW n \in Nat, NEW Q,
           \A j \in 0..n : (\A k \in (j + 1)..n : k \in Q) => j \in Q
    PROVE  0..n \subseteq Q
<1> DEFINE T == {k \in Nat : \A i \in 0..n : i >= n - k => i \in Q}
<1>1. 0 \in T
  <2>1. \A k \in (n + 1)..n : k \in Q
    OBVIOUS
  <2>2. n \in Q
    BY <2>1
  <2>3. QED
    BY <2>2
<1>2. \A k \in 1..n : k - 1 \in T => k \in T
  <2>1. SUFFICES ASSUME NEW k \in 1..n, k - 1 \in T PROVE k \in T
    OBVIOUS
  <2>2. \A i \in 0..n : i >= n - k + 1 => i \in Q
    BY <2>1
  <2>3. n - k \in 0..n
    OBVIOUS
  <2>4. \A i \in ((n - k) + 1)..n : i \in Q
    BY <2>2
  <2>5. n - k \in Q
    BY <2>3, <2>4
  <2>6. QED
    BY <2>2, <2>5
<1> HIDE DEF T
<1>3. n \in T
  BY <1>1, <1>2, UpTo
<1>4. QED
  BY <1>3 DEF T

\* Among places with a property there is a first one.
LEMMA First ==
    ASSUME NEW T, NEW m \in Nat, NEW e \in T, e \in Nat, m <= e
    PROVE  \E i \in T : i \in m..e /\ \A k \in m..(i - 1) : k \notin T
<1>1. SUFFICES ASSUME \A i \in m..e : i \in T =>
                          \E k \in m..(i - 1) : k \in T
               PROVE  FALSE
  OBVIOUS
<1> DEFINE Q == {j \in Nat : \A i \in m..(m + j) : i <= e => i \notin T}
<1>2. 0 \in Q
  BY <1>1
<1>3. \A j \in Nat : j \in Q => j + 1 \in Q
  <2>1. SUFFICES ASSUME NEW j \in Nat, j \in Q PROVE j + 1 \in Q
    OBVIOUS
  <2>2. \A i \in m..(m + j) : i <= e => i \notin T
    BY <2>1
  <2>3. m + j + 1 <= e => m + j + 1 \notin T
    BY <1>1, <2>2
  <2>4. \A i \in m..(m + (j + 1)) : i \in m..(m + j) \/ i = m + j + 1
    OBVIOUS
  <2>5. QED
    BY <2>2, <2>3, <2>4
<1> HIDE DEF Q
<1>4. e - m \in Q
  BY <1>2, <1>3, SetInduction
<1>5. QED
  BY <1>4 DEF Q

\* And a last one.
LEMMA Latest ==
    ASSUME NEW T, NEW m \in Nat, NEW b \in T, b \in Nat, b <= m
    PROVE  \E i \in T : i \in b..m /\ \A k \in (i + 1)..m : k \notin T
<1> DEFINE R == {k \in Nat : m - k \in T}
<1>1. m - b \in R /\ m - b \in Nat
  BY m - (m - b) = b
<1> HIDE DEF R
<1>2. PICK i \in R : i \in 0..(m - b) /\ \A k \in 0..(i - 1) : k \notin R
  BY <1>1, First
<1>3. m - i \in T /\ m - i \in b..m
  BY <1>2 DEF R
<1>4. \A k \in ((m - i) + 1)..m : k \notin T
  <2>1. SUFFICES ASSUME NEW k \in ((m - i) + 1)..m, k \in T PROVE FALSE
    OBVIOUS
  <2>2. m - k \in 0..(i - 1)
    BY <1>2
  <2>3. m - (m - k) = k /\ m - k \in Nat
    BY <1>2
  <2>4. QED
    BY <1>2, <2>1, <2>2, <2>3 DEF R
<1>5. QED
  BY <1>3, <1>4

-----------------------------------------------------------------------------
(* Sets and items by their places in the pattern *)

Char == Int \ {Quote}

\* Where the members of a set begin whose [ is at place a + 1.
Body(p, a) == IF p[a + 2] = Caret THEN a + 3 ELSE a + 2

\* There is a set between a and b: a list of members, or a range.
ListAt(p, a, b) == \A i \in Body(p, a)..(b - 1) : InSet(p[i])
RangeAt(p, a, b) ==
    LET m == Body(p, a)
    IN  /\ b = m + 3 /\ p[m + 1] = Minus
        /\ InSet(p[m]) /\ InSet(p[m + 2]) /\ p[m] <= p[m + 2]
SetAt(p, a, b) ==
    /\ p[a + 1] = Open /\ p[b] = Close
    /\ Body(p, a) < b
    /\ ListAt(p, a, b) \/ RangeAt(p, a, b)

\* A part of a pattern has its characters, in their order.
LEMMA Part ==
    ASSUME NEW p \in Seq(Int), NEW a \in Nat, NEW b \in a..Len(p)
    PROVE  /\ SubSeq(p, a + 1, b) \in Seq(Int)
           /\ Len(SubSeq(p, a + 1, b)) = b - a
           /\ \A i \in 1..(b - a) : SubSeq(p, a + 1, b)[i] = p[a + i]
<1>1. \A i \in (a + 1)..b : p[i] \in Int
  OBVIOUS
<1>2. /\ SubSeq(p, a + 1, b) \in Seq(Int)
      /\ Len(SubSeq(p, a + 1, b)) = IF a + 1 <= b THEN b - (a + 1) + 1 ELSE 0
      /\ \A i \in 1..(b - (a + 1) + 1) : SubSeq(p, a + 1, b)[i] = p[(a + 1) + i - 1]
  BY <1>1, SubSeqProperties
<1>3. b - (a + 1) + 1 = b - a /\ \A i \in 1..(b - a) : (a + 1) + i - 1 = a + i
  OBVIOUS
<1>4. QED
  BY <1>2, <1>3

\* The members of a set are the characters from Body on.
LEMMA MembersPlaces ==
    ASSUME NEW p \in Seq(Int), NEW a \in Nat, NEW b \in (a + 3)..Len(p)
    PROVE  LET ms == Members(SubSeq(p, a + 1, b)) IN
           /\ ms \in Seq(Int) /\ Len(ms) = b - Body(p, a)
           /\ \A i \in 1..Len(ms) : ms[i] = p[Body(p, a) - 1 + i]
<1> DEFINE set == SubSeq(p, a + 1, b)
<1>0. b \in a..Len(p) /\ b \in Nat /\ b - a \in Nat /\ b - a >= 3
  OBVIOUS
<1>1. /\ set \in Seq(Int) /\ Len(set) = b - a
      /\ \A i \in 1..(b - a) : set[i] = p[a + i]
  BY <1>0, Part
<1> HIDE DEF set
<1>2. PICK d : d = Body(p, a) - (a + 1)
  OBVIOUS
<1>3. d \in 1..2 /\ Body(p, a) = a + 1 + d
  BY <1>2 DEF Body
<1>4. set[2] = p[a + 2]
  BY <1>1
<1>5. Members(set) = SubSeq(set, d + 1, Len(set) - 1)
  BY <1>2, <1>3, <1>4 DEF Members, Body
<1>6. Len(set) - 1 \in d..Len(set)
  BY ONLY <1>0, <1>1, <1>3
<1>7. /\ Members(set) \in Seq(Int) /\ Len(Members(set)) = Len(set) - 1 - d
      /\ \A i \in 1..(Len(set) - 1 - d) : Members(set)[i] = set[d + i]
  BY <1>1, <1>3, <1>5, <1>6, Part
<1>8. Len(Members(set)) = b - Body(p, a)
  BY <1>1, <1>3, <1>7
<1>9. ASSUME NEW i \in 1..Len(Members(set))
      PROVE  Members(set)[i] = p[Body(p, a) - 1 + i]
  <2>1. i \in 1..(Len(set) - 1 - d) /\ d + i \in 1..(b - a)
    BY <1>0, <1>1, <1>3, <1>7
  <2>2. a + (d + i) = Body(p, a) - 1 + i
    BY <1>3
  <2>3. QED
    BY <1>1, <1>7, <2>1, <2>2
<1>10. QED
  BY <1>7, <1>8, <1>9 DEF set

\* A part of a pattern is a set if it is one by its places.
LEMMA SetPlaces ==
    ASSUME NEW p \in Seq(Int), NEW a \in Nat, NEW b \in a..Len(p)
    PROVE  IsSet(SubSeq(p, a + 1, b)) <=> SetAt(p, a, b)
<1> DEFINE set == SubSeq(p, a + 1, b)
           ms  == Members(set)
           m   == Body(p, a)
<1>1. /\ Len(set) = b - a
      /\ \A i \in 1..(b - a) : set[i] = p[a + i]
  BY Part
<1>2. CASE b < a + 3
  <2>1. ~IsSet(set)
    <3> HIDE DEF set
    <3>1. QED
      BY <1>1, <1>2 DEF IsSet
  <2>2. ~SetAt(p, a, b)
    BY <1>2, SMT DEF SetAt, Body, Caret, Close
  <2>3. QED
    BY <2>1, <2>2
<1>3. CASE b >= a + 3
  <2>1. /\ ms \in Seq(Int) /\ Len(ms) = b - m
        /\ \A i \in 1..Len(ms) : ms[i] = p[m - 1 + i]
    <3>1. b \in (a + 3)..Len(p)
      BY <1>3
    <3>2. QED
      BY <3>1, MembersPlaces
  <2>2. m \in Nat
    BY DEF Body
  <2> HIDE DEF m, ms, set
  <2>3. /\ set[1] = p[a + 1] /\ set[Len(set)] = p[b] /\ Len(set) >= 3
    <3>1. a + (b - a) = b /\ b - a \in 1..(b - a) /\ 1 \in 1..(b - a)
      BY <1>3
    <3>2. QED
      BY <1>1, <1>3, <3>1
  <2>4. ms # <<>> <=> m < b
    BY <2>1, <2>2
  <2>5. (\A i \in 1..Len(ms) : InSet(ms[i])) <=> ListAt(p, a, b)
    <3>1. \A i \in m..(b - 1) : /\ i - m + 1 \in 1..Len(ms)
                                /\ m - 1 + (i - m + 1) = i
      BY <2>1, <2>2
    <3>2. \A i \in 1..Len(ms) : m - 1 + i \in m..(b - 1)
      BY <2>1, <2>2
    <3>3. (\A i \in 1..Len(ms) : InSet(ms[i])) <=> \A i \in m..(b - 1) : InSet(p[i])
      BY <2>1, <3>1, <3>2
    <3>4. QED
      BY <3>3 DEF ListAt, m
  <2>6. Len(ms) = 3 <=> b = m + 3
    BY <2>1, <2>2
  <2>7. Len(ms) = 3 => ms[1] = p[m] /\ ms[2] = p[m + 1] /\ ms[3] = p[m + 2]
    <3>1. m - 1 + 1 = m /\ m - 1 + 2 = m + 1 /\ m - 1 + 3 = m + 2
      BY <2>2
    <3>2. Len(ms) = 3 => 1 \in 1..Len(ms) /\ 2 \in 1..Len(ms) /\ 3 \in 1..Len(ms)
      OBVIOUS
    <3>3. Len(ms) = 3 => /\ ms[1] = p[m - 1 + 1] /\ ms[2] = p[m - 1 + 2]
                         /\ ms[3] = p[m - 1 + 3]
      BY <2>1, <3>2
    <3>4. QED
      BY <3>1, <3>3
  <2>8. (IsRange(ms) /\ InSet(ms[1]) /\ InSet(ms[3]) /\ ms[1] <= ms[3])
          <=> RangeAt(p, a, b)
    BY <2>6, <2>7 DEF IsRange, RangeAt, m
  <2>9. RangeAt(p, a, b) => m < b
    BY <2>2 DEF RangeAt, m
  <2>10. IsSet(set) <=>
           /\ set[1] = Open /\ set[Len(set)] = Close
           /\ \/ ms # <<>> /\ \A i \in 1..Len(ms) : InSet(ms[i])
              \/ IsRange(ms) /\ InSet(ms[1]) /\ InSet(ms[3]) /\ ms[1] <= ms[3]
    BY <2>3, Zenon DEF IsSet, ms
  <2>11. IsSet(set) <=> SetAt(p, a, b)
    BY <2>3, <2>4, <2>5, <2>8, <2>9, <2>10, Zenon DEF SetAt, m
  <2>12. QED
    BY <2>11 DEF set
<1>4. QED
  BY <1>2, <1>3

\* A set begins with its bracket and has a member.
LEMMA SetFacts ==
    ASSUME NEW p \in Seq(Int), NEW a \in Nat, NEW b \in a..Len(p), SetAt(p, a, b)
    PROVE  /\ p[a + 1] = Open /\ p[b] = Close /\ b >= a + 3
           /\ Body(p, a) \in (a + 2)..(b - 1)
           /\ \A i \in (a + 2)..(b - 1) : p[i] # Close
           /\ InSet(p[Body(p, a)])
           /\ p[Body(p, a) + 1] = Minus <=> RangeAt(p, a, b)
<1> DEFINE m == Body(p, a)
<1>1. m \in Nat /\ m \in {a + 2, a + 3} /\ (m = a + 3 => p[a + 2] = Caret)
  BY DEF Body
<1>2. p[a + 1] = Open /\ p[b] = Close /\ m < b
  BY DEF SetAt
<1>3. ListAt(p, a, b) \/ RangeAt(p, a, b)
  BY DEF SetAt
<1> HIDE DEF m
<1>4. CASE ListAt(p, a, b)
  <2>1. \A i \in m..(b - 1) : InSet(p[i])
    BY <1>4 DEF ListAt, m
  <2>2. \A i \in (a + 2)..(b - 1) : i \in m..(b - 1) \/ p[i] = Caret
    BY <1>1
  <2>3. \A i \in (a + 2)..(b - 1) : p[i] # Close
    BY <2>1, <2>2 DEF InSet, Caret, Close
  <2>4. m + 1 \in m..(b - 1) \/ m + 1 = b
    BY <1>1, <1>2
  <2>5. p[m + 1] # Minus
    BY <1>2, <2>1, <2>4 DEF InSet, Minus, Close
  <2>6. ~RangeAt(p, a, b)
    BY <2>5 DEF RangeAt, m
  <2>7. m \in m..(b - 1)
    BY <1>1, <1>2
  <2>8. InSet(p[m])
    BY <2>1, <2>7
  <2>9. QED
    BY <1>1, <1>2, <2>3, <2>5, <2>6, <2>8 DEF m
<1>5. CASE RangeAt(p, a, b)
  <2>1. b = m + 3 /\ p[m + 1] = Minus /\ InSet(p[m]) /\ InSet(p[m + 2])
    BY <1>5 DEF RangeAt, m
  <2>2. \A i \in (a + 2)..(b - 1) :
            i = m \/ i = m + 1 \/ i = m + 2 \/ p[i] = Caret
    BY <1>1, <2>1
  <2>3. \A i \in (a + 2)..(b - 1) : p[i] # Close
    BY <2>1, <2>2 DEF InSet, Caret, Close, Minus
  <2>4. m \in (a + 2)..(b - 1) /\ b >= a + 3
    BY <1>1, <2>1
  <2>5. QED
    BY <1>2, <1>5, <2>1, <2>3, <2>4, Zenon DEF m
<1>6. QED
  BY <1>3, <1>4, <1>5

\* The first ] is where SetEnd is.
LEMMA SetEndIs ==
    ASSUME NEW p, NEW j \in Nat, NEW b \in j..Len(p), p[b] = Close,
           \A k \in j..(b - 1) : p[k] # Close
    PROVE  SetEnd(p, j) = b
<1> DEFINE P(i) == p[i] = Close /\ \A k \in j..(i - 1) : p[k] # Close
<1>1. \A i \in j..Len(p) : P(i) => i = b
  <2>1. SUFFICES ASSUME NEW i \in j..Len(p), P(i) PROVE i = b
    OBVIOUS
  <2>2. CASE i < b
    <3>1. i \in j..(b - 1)
      BY <2>2
    <3>2. QED
      BY <2>1, <3>1
  <2>3. CASE b < i
    <3>1. b \in j..(i - 1)
      BY <2>3
    <3>2. QED
      BY <2>1, <3>1
  <2>4. QED
    BY <2>2, <2>3
<1>2. P(b)
  OBVIOUS
<1>3. SetEnd(p, j) = CHOOSE i \in j..Len(p) : P(i)
  BY DEF SetEnd
<1> HIDE DEF P
<1>4. QED
  BY <1>1, <1>2, <1>3

\* A pattern from a to b is an item only if b is where the matcher goes on.
LEMMA ItemPlaces ==
    ASSUME NEW p \in Seq(Int), NEW a \in Nat, NEW b \in (a + 1)..Len(p)
    PROVE  /\ IsItem(p, a, b) <=> (b = a + 1 /\ p[b] # Open) \/ SetAt(p, a, b)
           /\ IsItem(p, a, b) => b = Behind(p, a)
<1>0. b \in a..Len(p) /\ a + 2 \in Nat
  OBVIOUS
<1>1. IsItem(p, a, b) <=> (b = a + 1 /\ p[b] # Open) \/ SetAt(p, a, b)
  BY <1>0, SetPlaces, Zenon DEF IsItem
<1>2. CASE b = a + 1 /\ p[b] # Open
  BY <1>1, <1>2 DEF Behind
<1>3. CASE SetAt(p, a, b)
  <2>1. /\ p[a + 1] = Open /\ p[b] = Close /\ b >= a + 3
        /\ \A i \in (a + 2)..(b - 1) : p[i] # Close
    BY <1>0, <1>3, SetFacts
  <2>2. b \in (a + 2)..Len(p)
    BY <2>1
  <2>3. SetEnd(p, a + 2) = b
    BY <1>0, <2>1, <2>2, SetEndIs
  <2>4. QED
    BY <1>1, <2>1, <2>3 DEF Behind
<1>4. QED
  BY <1>1, <1>2, <1>3

\* It lets the same characters pass as the item admits.
LEMMA PassesIsAdmits ==
    ASSUME NEW p \in Seq(Int), NEW a \in Nat, NEW b \in (a + 1)..Len(p),
           IsItem(p, a, b), NEW c \in Int
    PROVE  Passes(p, a, c) <=> Admits(SubSeq(p, a + 1, b), c)
<1> DEFINE item == SubSeq(p, a + 1, b)
           ms   == Members(item)
           m    == Body(p, a)
<1>0. b \in a..Len(p) /\ b \in Nat
  OBVIOUS
<1>1. Len(item) = b - a /\ \A i \in 1..(b - a) : item[i] = p[a + i]
  BY <1>0, Part
<1> HIDE DEF item
<1>2. CASE b = a + 1 /\ p[b] # Open
  <2>1. Len(item) = 1 /\ item[1] = p[a + 1]
    BY <1>1, <1>2
  <2>2. Admits(item, c) <=> p[a + 1] = Under \/ p[a + 1] = c
    BY <2>1 DEF Admits
  <2>3. Passes(p, a, c) <=> p[a + 1] = Under \/ p[a + 1] = c
    BY <1>2 DEF Passes
  <2>4. QED
    BY <2>2, <2>3 DEF item
<1>3. CASE SetAt(p, a, b)
  <2>1. /\ p[a + 1] = Open /\ p[b] = Close /\ b >= a + 3
        /\ m \in (a + 2)..(b - 1)
        /\ \A i \in (a + 2)..(b - 1) : p[i] # Close
        /\ p[m + 1] = Minus <=> RangeAt(p, a, b)
    BY <1>0, <1>3, SetFacts
  <2>2. /\ Len(ms) = b - m
        /\ \A i \in 1..Len(ms) : ms[i] = p[m - 1 + i]
    <3>1. b \in (a + 3)..Len(p)
      BY <2>1
    <3>2. QED
      BY <3>1, MembersPlaces DEF item
  <2>3. Len(item) # 1 /\ item[2] = p[a + 2]
    BY <1>1, <2>1
  <2>4. m = IF p[a + 2] = Caret THEN (a + 2) + 1 ELSE a + 2
    BY DEF Body
  <2> DEFINE neg  == p[a + 2] = Caret
             hit  == IF p[m + 1] = Minus THEN p[m] <= c /\ c <= p[m + 2]
                     ELSE \E i \in m..(SetEnd(p, m) - 1) : p[i] = c
             hit2 == IF IsRange(ms) THEN ms[1] <= c /\ c <= ms[3]
                     ELSE \E i \in 1..Len(ms) : ms[i] = c
  <2>5. SetAdmits(p, a + 2, c) <=> hit # neg
    BY <2>4, Zenon DEF SetAdmits
  <2>6. Admits(item, c) <=> hit2 # neg
    BY <2>3, Zenon DEF Admits
  <2> HIDE DEF m, ms
  <2>12. Passes(p, a, c) <=> SetAdmits(p, a + 2, c)
    BY <2>1 DEF Passes, Under, Open
  <2>7. SetEnd(p, m) = b
    <3>1. b \in m..Len(p) /\ m \in Nat /\ \A i \in m..(b - 1) : p[i] # Close
      BY <2>1
    <3>2. QED
      BY <2>1, <3>1, SetEndIs
  <2>8. IsRange(ms) <=> p[m + 1] = Minus
    <3>1. RangeAt(p, a, b) => b = m + 3 /\ p[m + 1] = Minus
      BY DEF RangeAt, m
    <3>2. Len(ms) = 3 => ms[2] = p[m + 1]
      <4>1. m - 1 + 2 = m + 1
        BY <2>1
      <4>2. Len(ms) = 3 => ms[2] = p[m - 1 + 2]
        <5>1. Len(ms) = 3 => 2 \in 1..Len(ms)
          OBVIOUS
        <5>2. QED
          BY <2>2, <5>1
      <4>3. QED
        BY <4>1, <4>2
    <3>3. b = m + 3 <=> Len(ms) = 3
      <4>1. m \in Int /\ b \in Int
        BY <1>0, <2>1
      <4>2. Len(ms) = b - m
        BY <2>2
      <4>3. QED
        BY ONLY <4>1, <4>2
    <3>4. QED
      BY <2>1, <3>1, <3>2, <3>3 DEF IsRange
  <2>9. CASE IsRange(ms)
    <3>1. 1 \in 1..Len(ms) /\ 3 \in 1..Len(ms)
      BY <2>9 DEF IsRange
    <3>2. m - 1 + 1 = m /\ m - 1 + 3 = m + 2
      BY <2>1
    <3>3. ms[1] = p[m] /\ ms[3] = p[m + 2]
      BY <2>2, <3>1, <3>2
    <3>4. hit <=> hit2
      BY <2>8, <2>9, <3>3
    <3>5. QED
      BY <2>5, <2>6, <2>12, <3>4, Zenon DEF item
  <2>10. CASE ~IsRange(ms)
    <3>1. \A i \in m..(b - 1) : /\ i - m + 1 \in 1..Len(ms)
                                /\ m - 1 + (i - m + 1) = i
      BY ONLY <1>0, <2>1, <2>2
    <3>2. \A i \in 1..Len(ms) : m - 1 + i \in m..(b - 1)
      BY ONLY <1>0, <2>1, <2>2
    <3>3. (\E i \in m..(b - 1) : p[i] = c) <=> \E i \in 1..Len(ms) : ms[i] = c
      BY <2>2, <3>1, <3>2
    <3>4. hit <=> hit2
      BY <2>7, <2>8, <2>10, <3>3
    <3>5. QED
      BY <2>5, <2>6, <2>12, <3>4, Zenon DEF item
  <2>11. QED
    BY <2>9, <2>10
<1>4. QED
  BY <1>2, <1>3, ItemPlaces

-----------------------------------------------------------------------------
(* What is left of a pattern, and where in a text it can begin *)

\* The cuts of a pattern from place j on.
CutsFrom(p, j) ==
    {C \in SUBSET (j..Len(p)) :
        /\ {j, Len(p)} \subseteq C
        /\ \A a, b \in C : Adjacent(C, a, b) => IsItem(p, a, b)}

Along(t, p, C, at) ==
    \A a, b \in C : Adjacent(C, a, b) => Takes(t, p, a, b, at[a], at[b])

\* From the places Reach the rest of the text can be cut along with it.
Reach(t, p, j) ==
    {i \in 0..Len(t) :
        \E C \in CutsFrom(p, j) : \E at \in [C -> 0..Len(t)] :
            at[j] = i /\ at[Len(p)] = Len(t) /\ Along(t, p, C, at)}

\* A cut has a first item, and what is behind it is cut too.
LEMMA CutFirst ==
    ASSUME NEW p \in Seq(Int), NEW j \in 0..(Len(p) - 1), NEW C \in CutsFrom(p, j)
    PROVE  \E b \in (j + 1)..Len(p) :
              /\ Adjacent(C, j, b) /\ IsItem(p, j, b)
              /\ C \ {j} \in CutsFrom(p, b)
              /\ \A x, y \in C \ {j} : Adjacent(C \ {j}, x, y) => Adjacent(C, x, y)
<1>1. /\ C \subseteq j..Len(p) /\ j \in C /\ Len(p) \in C /\ Len(p) \in Nat
      /\ \A a, b \in C : Adjacent(C, a, b) => IsItem(p, a, b)
  BY DEF CutsFrom
<1>2. j + 1 \in Nat /\ j + 1 <= Len(p)
  BY <1>1
<1>3. PICK b \in C : /\ b \in (j + 1)..Len(p)
                     /\ \A k \in (j + 1)..(b - 1) : k \notin C
  BY <1>1, <1>2, First
<1> DEFINE E == C \ {j}
<1>4. \A x \in E : b <= x /\ x <= Len(p) /\ x \in Nat
  <2>1. SUFFICES ASSUME NEW x \in E PROVE b <= x /\ x <= Len(p) /\ x \in Nat
    OBVIOUS
  <2>2. x \in (j + 1)..Len(p)
    BY <1>1
  <2>3. x \notin (j + 1)..(b - 1)
    BY <1>3
  <2>4. QED
    BY <1>3, <2>2, <2>3
<1>5. Adjacent(C, j, b)
  <2>1. \A c \in C : c <= j \/ b <= c
    BY <1>4
  <2>2. QED
    BY <1>1, <1>3, <2>1 DEF Adjacent
<1>6. \A x, y \in E : Adjacent(E, x, y) => Adjacent(C, x, y)
  <2>1. SUFFICES ASSUME NEW x \in E, NEW y \in E, Adjacent(E, x, y)
                 PROVE  Adjacent(C, x, y)
    OBVIOUS
  <2>2. x < y /\ \A c \in E : c <= x \/ y <= c
    BY <2>1 DEF Adjacent
  <2>3. j <= x
    BY <1>3, <1>4
  <2>4. \A c \in C : c <= x \/ y <= c
    BY <2>2, <2>3
  <2>5. QED
    BY <2>2, <2>4 DEF Adjacent
<1>7. b \in E /\ Len(p) \in E /\ E \subseteq b..Len(p)
  BY <1>1, <1>3, <1>4
<1>8. \A x, y \in E : Adjacent(E, x, y) => IsItem(p, x, y)
  BY <1>1, <1>6
<1> HIDE DEF E
<1>9. E \in CutsFrom(p, b)
  BY <1>7, <1>8 DEF CutsFrom
<1>10. IsItem(p, j, b)
  BY <1>1, <1>5
<1>11. QED
  BY <1>3, <1>5, <1>6, <1>9, <1>10 DEF E

\* An item and a cut behind it make a cut.
LEMMA CutMore ==
    ASSUME NEW p \in Seq(Int), NEW j \in 0..(Len(p) - 1),
           NEW b \in (j + 1)..Len(p), IsItem(p, j, b), NEW E \in CutsFrom(p, b)
    PROVE  /\ E \cup {j} \in CutsFrom(p, j)
           /\ \A x, y \in E \cup {j} : Adjacent(E \cup {j}, x, y) =>
                 \/ x = j /\ y = b
                 \/ x \in E /\ y \in E /\ Adjacent(E, x, y)
<1> DEFINE C == E \cup {j}
<1>1. /\ E \subseteq b..Len(p) /\ b \in E /\ Len(p) \in E /\ Len(p) \in Nat
      /\ \A x, y \in E : Adjacent(E, x, y) => IsItem(p, x, y)
  BY DEF CutsFrom
<1>2. \A x \in E : x > j /\ b <= x /\ x <= Len(p) /\ x \in Nat
  BY <1>1
<1>3. ASSUME NEW x \in C, NEW y \in C, Adjacent(C, x, y)
      PROVE  \/ x = j /\ y = b
             \/ x \in E /\ y \in E /\ Adjacent(E, x, y)
  <2>1. x < y /\ \A c \in C : c <= x \/ y <= c
    BY <1>3 DEF Adjacent
  <2>2. y # j /\ y \in E
    BY <1>2, <2>1
  <2>3. CASE x = j
    <3>1. b <= j \/ y <= b
      BY <1>1, <2>1, <2>3
    <3>2. b <= y /\ y \in Nat
      BY <1>2, <2>2
    <3>3. QED
      BY <2>3, <3>1, <3>2
  <2>4. CASE x # j
    BY <2>1, <2>2, <2>4 DEF Adjacent
  <2>5. QED
    BY <2>3, <2>4
<1>4. \A x, y \in C : Adjacent(C, x, y) => IsItem(p, x, y)
  BY <1>1, <1>3
<1>5. C \subseteq j..Len(p) /\ j \in C /\ Len(p) \in C
  BY <1>1, <1>2
<1> HIDE DEF C
<1>6. C \in CutsFrom(p, j)
  BY <1>4, <1>5 DEF CutsFrom
<1>7. QED
  BY <1>3, <1>6 DEF C

\* Nothing is left of the pattern: nothing may be left of the text.
LEMMA ReachEnd ==
    ASSUME NEW p \in Seq(Int), NEW t \in Seq(Int)
    PROVE  Reach(t, p, Len(p)) = {Len(t)} /\ CutsFrom(p, Len(p)) # {}
<1>1. Len(p) \in Nat /\ Len(t) \in Nat
  OBVIOUS
<1>2. PICK n : n = Len(p)
  OBVIOUS
<1>3. \A a, b \in {n} : ~Adjacent({n}, a, b)
  BY <1>1, <1>2 DEF Adjacent
<1>4. {n} \in CutsFrom(p, n)
  BY <1>1, <1>2, <1>3 DEF CutsFrom
<1>5. Reach(t, p, n) \subseteq {Len(t)}
  BY <1>2 DEF Reach
<1>6. Len(t) \in Reach(t, p, n)
  <2> DEFINE at == [x \in {n} |-> Len(t)]
  <2>1. at \in [{n} -> 0..Len(t)] /\ at[n] = Len(t)
    BY <1>1
  <2> HIDE DEF at
  <2>2. Along(t, p, {n}, at)
    BY <1>3 DEF Along
  <2>3. QED
    BY <1>1, <1>2, <1>4, <2>1, <2>2 DEF Reach
<1>7. QED
  BY <1>2, <1>4, <1>5, <1>6

\* A text that is cut along with a pattern gives its first item its piece.
LEMMA ReachFirst ==
    ASSUME NEW p \in Seq(Int), NEW t \in Seq(Int), NEW j \in 0..(Len(p) - 1),
           NEW i \in Reach(t, p, j)
    PROVE  \E b \in (j + 1)..Len(p) : \E k \in Reach(t, p, b) :
              IsItem(p, j, b) /\ Takes(t, p, j, b, i, k)
<1>0. PICK C \in CutsFrom(p, j) : \E at \in [C -> 0..Len(t)] :
          at[j] = i /\ at[Len(p)] = Len(t) /\ Along(t, p, C, at)
  BY DEF Reach
<1>1. PICK at \in [C -> 0..Len(t)] :
          at[j] = i /\ at[Len(p)] = Len(t) /\ Along(t, p, C, at)
  BY <1>0
<1>2. PICK b \in (j + 1)..Len(p) :
          /\ Adjacent(C, j, b) /\ IsItem(p, j, b)
          /\ C \ {j} \in CutsFrom(p, b)
          /\ \A x, y \in C \ {j} : Adjacent(C \ {j}, x, y) => Adjacent(C, x, y)
  BY CutFirst
<1> DEFINE E == C \ {j}
<1>3. j \in C /\ b \in C /\ b # j
  BY <1>2 DEF Adjacent
<1>4. Takes(t, p, j, b, i, at[b])
  BY <1>1, <1>2, <1>3 DEF Along
<1>5. at[b] \in Reach(t, p, b)
  <2> DEFINE rest == [x \in E |-> at[x]]
  <2>1. rest \in [E -> 0..Len(t)] /\ \A x \in E : rest[x] = at[x]
    OBVIOUS
  <2>2. b \in E /\ Len(p) \in E
    BY <1>2, <1>3 DEF CutsFrom
  <2> HIDE DEF rest
  <2>3. Along(t, p, E, rest)
    <3>1. SUFFICES ASSUME NEW x \in E, NEW y \in E, Adjacent(E, x, y)
                   PROVE  Takes(t, p, x, y, rest[x], rest[y])
      BY DEF Along
    <3>2. Adjacent(C, x, y)
      BY <1>2, <3>1
    <3>3. Takes(t, p, x, y, at[x], at[y])
      BY <1>1, <3>2 DEF Along
    <3>4. QED
      BY <2>1, <3>3
  <2>4. rest[b] = at[b] /\ rest[Len(p)] = Len(t) /\ at[b] \in 0..Len(t)
    BY <1>1, <1>3, <2>1, <2>2
  <2>5. E \in CutsFrom(p, b)
    BY <1>2
  <2> HIDE DEF E
  <2>6. QED
    BY <2>1, <2>3, <2>4, <2>5 DEF Reach
<1>6. QED
  BY <1>2, <1>4, <1>5

\* A piece for an item in front of a text that is cut along with the rest.
LEMMA ReachMore ==
    ASSUME NEW p \in Seq(Int), NEW t \in Seq(Int), NEW j \in 0..(Len(p) - 1),
           NEW b \in (j + 1)..Len(p), IsItem(p, j, b), NEW k \in Reach(t, p, b),
           NEW i \in 0..Len(t), Takes(t, p, j, b, i, k)
    PROVE  i \in Reach(t, p, j)
<1>0. PICK E \in CutsFrom(p, b) : \E at \in [E -> 0..Len(t)] :
          at[b] = k /\ at[Len(p)] = Len(t) /\ Along(t, p, E, at)
  BY DEF Reach
<1>1. PICK at \in [E -> 0..Len(t)] :
          at[b] = k /\ at[Len(p)] = Len(t) /\ Along(t, p, E, at)
  BY <1>0
<1> DEFINE C   == E \cup {j}
           all == [x \in C |-> IF x = j THEN i ELSE at[x]]
<1>2. /\ C \in CutsFrom(p, j)
      /\ \A x, y \in C : Adjacent(C, x, y) =>
            \/ x = j /\ y = b
            \/ x \in E /\ y \in E /\ Adjacent(E, x, y)
  BY CutMore
<1>3. E \subseteq b..Len(p) /\ b \in E /\ Len(p) \in E
  BY DEF CutsFrom
<1>4. j \notin E
  BY <1>3
<1>5. /\ all \in [C -> 0..Len(t)] /\ all[j] = i
      /\ \A x \in E : all[x] = at[x]
  BY <1>4
<1> HIDE DEF all
<1>6. Along(t, p, C, all)
  <2>1. SUFFICES ASSUME NEW x \in C, NEW y \in C, Adjacent(C, x, y)
                 PROVE  Takes(t, p, x, y, all[x], all[y])
    BY DEF Along
  <2>2. CASE x = j /\ y = b
    BY <1>1, <1>3, <1>5, <2>2
  <2>3. CASE x \in E /\ y \in E /\ Adjacent(E, x, y)
    <3>1. Takes(t, p, x, y, at[x], at[y])
      BY <1>1, <2>3 DEF Along
    <3>2. QED
      BY <1>5, <2>3, <3>1
  <2>4. QED
    BY <1>2, <2>1, <2>2, <2>3
<1>7. all[Len(p)] = Len(t)
  BY <1>1, <1>3, <1>5
<1> HIDE DEF C
<1>8. QED
  BY <1>2, <1>5, <1>6, <1>7 DEF Reach

\* What an item takes, by what the matcher looks at.
LEMMA TakesPlaces ==
    ASSUME NEW p \in Seq(Int), NEW t \in Seq(Int), NEW a \in Nat,
           NEW b \in (a + 1)..Len(p), IsItem(p, a, b),
           NEW i \in 0..Len(t), NEW k \in 0..Len(t)
    PROVE  /\ p[a + 1] = Percent =>
                 (b = a + 1 /\ (Takes(t, p, a, b, i, k) <=> i <= k))
           /\ p[a + 1] # Percent => (Takes(t, p, a, b, i, k) <=>
                                        k = i + 1 /\ Passes(p, a, t[k]))
<1> DEFINE item == SubSeq(p, a + 1, b)
<1>0. b \in a..Len(p) /\ b \in Nat /\ b - a >= 1
  OBVIOUS
<1>1. /\ item \in Seq(Int) /\ Len(item) = b - a
      /\ \A m \in 1..(b - a) : item[m] = p[a + m]
  BY <1>0, Part
<1> HIDE DEF item
<1>2. CASE p[a + 1] = Percent
  <2>1. ~SetAt(p, a, b)
    BY <1>2 DEF SetAt, Open, Percent
  <2>2. b = a + 1
    BY <2>1, ItemPlaces
  <2>3. item = <<Percent>>
    BY <1>1, <1>2, <2>2
  <2>4. QED
    BY <1>2, <2>2, <2>3 DEF Takes, item
<1>3. CASE p[a + 1] # Percent
  <2>1. item[1] = p[a + 1]
    BY <1>0, <1>1
  <2>2. item # <<Percent>>
    BY <1>3, <2>1
  <2>3. Takes(t, p, a, b, i, k) <=> k = i + 1 /\ Admits(item, t[k])
    BY <2>2 DEF Takes, item
  <2>4. CASE k = i + 1
    <3>1. t[k] \in Int
      BY <2>4
    <3>2. Passes(p, a, t[k]) <=> Admits(item, t[k])
      BY <3>1, PassesIsAdmits DEF item
    <3>3. QED
      BY <1>3, <2>3, <3>2
  <2>5. QED
    BY <1>3, <2>3, <2>4
<1>4. QED
  BY <1>2, <1>3

\* If nothing may be left of the text for a rest of the pattern, then one
\* character may be: that rest begins with a %.
LEMMA LastToo ==
    ASSUME NEW p \in Seq(Int), NEW t \in Seq(Int), NEW j \in 0..(Len(p) - 1),
           Len(t) \in Reach(t, p, j), Len(t) > 0
    PROVE  Len(t) - 1 \in Reach(t, p, j)
<1>0. PICK b \in (j + 1)..Len(p) : \E k \in Reach(t, p, b) :
          IsItem(p, j, b) /\ Takes(t, p, j, b, Len(t), k)
  BY ReachFirst
<1>1. PICK k \in Reach(t, p, b) :
          IsItem(p, j, b) /\ Takes(t, p, j, b, Len(t), k)
  BY <1>0
<1>2. k \in 0..Len(t) /\ Len(t) \in 0..Len(t) /\ Len(t) - 1 \in 0..Len(t) /\ j \in Nat
  BY DEF Reach
<1>3. p[j + 1] = Percent
  <2>1. p[j + 1] # Percent => k = Len(t) + 1
    <3>1. p[j + 1] # Percent => (Takes(t, p, j, b, Len(t), k) <=>
                                    k = Len(t) + 1 /\ Passes(p, j, t[k]))
      BY <1>1, <1>2, TakesPlaces, Zenon
    <3>2. QED
      BY <1>1, <3>1
  <2>2. k <= Len(t) /\ Len(t) \in Int
    BY <1>2
  <2>3. QED
    BY <2>1, <2>2
<1>4. Takes(t, p, j, b, Len(t) - 1, k)
  <2>1. Len(t) <= k
    BY <1>1, <1>2, <1>3, TakesPlaces
  <2>2. Len(t) - 1 <= k
    BY <1>2, <2>1
  <2>3. QED
    BY <1>1, <1>2, <1>3, <2>2, TakesPlaces
<1>5. QED
  BY <1>1, <1>2, <1>4, ReachMore

\* The matcher goes from an item to the rest as the meaning does.
LEMMA StartsIsReach ==
    ASSUME NEW p \in Seq(Int), NEW t \in Seq(Int), NEW j \in 0..(Len(p) - 1),
           NEW b \in (j + 1)..Len(p), IsItem(p, j, b)
    PROVE  Starts(t, p, j, Reach(t, p, b)) = Reach(t, p, j)
<1>0. j \in Nat /\ Len(p) \in Nat /\ Len(t) \in Nat /\ b = Behind(p, j)
  BY ItemPlaces
<1>1. \A i \in 0..Len(t) : i \in Reach(t, p, j) <=>
          \E k \in Reach(t, p, b) : Takes(t, p, j, b, i, k)
  <2>1. SUFFICES ASSUME NEW i \in 0..Len(t)
                 PROVE  i \in Reach(t, p, j) <=>
                           \E k \in Reach(t, p, b) : Takes(t, p, j, b, i, k)
    OBVIOUS
  <2>2. ASSUME i \in Reach(t, p, j)
        PROVE  \E k \in Reach(t, p, b) : Takes(t, p, j, b, i, k)
    <3>1. PICK c \in (j + 1)..Len(p) : \E k \in Reach(t, p, c) :
              IsItem(p, j, c) /\ Takes(t, p, j, c, i, k)
      BY <2>2, ReachFirst, Zenon
    <3>2. c = b
      BY <1>0, <3>1, ItemPlaces
    <3>3. QED
      BY <3>1, <3>2
  <2>3. QED
    BY <2>2, ReachMore
<1>2. Reach(t, p, j) \subseteq 0..Len(t) /\ Reach(t, p, b) \subseteq 0..Len(t)
  BY DEF Reach
<1>3. CASE p[j + 1] # Percent
  <2>1. \A i \in 0..Len(t) : i \in Reach(t, p, j) <=>
            \E k \in Reach(t, p, b) : k = i + 1 /\ Passes(p, j, t[k])
    <3>1. \A i, k \in 0..Len(t) : Takes(t, p, j, b, i, k) <=>
                                      k = i + 1 /\ Passes(p, j, t[k])
      BY <1>0, <1>3, TakesPlaces
    <3>2. QED
      BY <1>1, <1>2, <3>1
  <2>2. \A i \in 0..Len(t) : i \in Reach(t, p, j) <=>
            i + 1 \in Reach(t, p, b) /\ Passes(p, j, t[i + 1])
    BY <2>1
  <2>3. \A i \in 0..Len(t) : i + 1 \in Reach(t, p, b) => i \in 0..(Len(t) - 1)
    BY <1>0, <1>2
  <2>4. Starts(t, p, j, Reach(t, p, b)) =
            {i \in 0..(Len(t) - 1) :
                Passes(p, j, t[i + 1]) /\ i + 1 \in Reach(t, p, b)}
    BY <1>3 DEF Starts
  <2>5. 0..(Len(t) - 1) \subseteq 0..Len(t)
    BY <1>0
  <2> DEFINE goes(i) == Passes(p, j, t[i + 1]) /\ i + 1 \in Reach(t, p, b)
  <2>6. \A i \in 0..Len(t) : i \in Reach(t, p, j) <=> goes(i)
    BY <2>2
  <2>7. \A i \in 0..Len(t) : goes(i) => i \in 0..(Len(t) - 1)
    BY <2>3
  <2>8. Starts(t, p, j, Reach(t, p, b)) = {i \in 0..(Len(t) - 1) : goes(i)}
    BY <2>4
  <2> HIDE DEF goes
  <2>9. QED
    BY <1>2, <2>5, <2>6, <2>7, <2>8
<1>4. CASE p[j + 1] = Percent
  <2>1. b = j + 1 /\ \A i, k \in 0..Len(t) : Takes(t, p, j, b, i, k) <=> i <= k
    <3>1. 0 \in 0..Len(t)
      BY <1>0
    <3>2. QED
      BY <1>0, <1>4, <3>1, TakesPlaces
  <2>2. \A i \in 0..Len(t) : i \in Reach(t, p, j) <=> \E k \in Reach(t, p, b) : i <= k
    BY <1>1, <1>2, <2>1
  <2> DEFINE goes(i) == IF i = Len(t) THEN i \in Reach(t, p, b)
                        ELSE \/ j + 1 = Len(p)
                             \/ \E k \in i..(Len(t) - 1) : k \in Reach(t, p, b)
  <2>3. ASSUME NEW i \in 0..Len(t)
        PROVE  goes(i) <=> \E k \in Reach(t, p, b) : i <= k
    <3>1. CASE i = Len(t)
      <4>1. \A k \in Reach(t, p, b) : i <= k => k = i
        BY <1>0, <1>2, <3>1
      <4>2. QED
        BY <1>0, <3>1, <4>1
    <3>2. CASE i # Len(t) /\ j + 1 = Len(p)
      <4>1. Len(t) \in Reach(t, p, b)
        BY <2>1, <3>2, ReachEnd
      <4>2. i <= Len(t)
        BY <1>0
      <4>3. QED
        BY <3>2, <4>1, <4>2
    <3>3. CASE i # Len(t) /\ j + 1 # Len(p)
      <4>1. goes(i) <=> \E k \in i..(Len(t) - 1) : k \in Reach(t, p, b)
        BY <3>3
      <4>2. \A k \in i..(Len(t) - 1) : i <= k
        BY <1>0
      <4>3. ASSUME NEW k \in Reach(t, p, b), i <= k
            PROVE  \E m \in i..(Len(t) - 1) : m \in Reach(t, p, b)
        <5>1. CASE k = Len(t)
          <6>1. b \in 0..(Len(p) - 1) /\ Len(t) > 0
            BY <1>0, <2>1, <3>3
          <6>2. Len(t) - 1 \in Reach(t, p, b)
            BY <5>1, <6>1, LastToo
          <6>3. Len(t) - 1 \in i..(Len(t) - 1)
            BY <1>0, <3>3
          <6>4. QED
            BY <6>2, <6>3
        <5>2. CASE k # Len(t)
          <6>1. k \in i..(Len(t) - 1)
            BY <1>0, <1>2, <4>3, <5>2
          <6>2. QED
            BY <6>1
        <5>3. QED
          BY <5>1, <5>2
      <4>4. QED
        BY <4>1, <4>2, <4>3
    <3>4. QED
      BY <3>1, <3>2, <3>3
  <2>4. Starts(t, p, j, Reach(t, p, b)) = {i \in 0..Len(t) : goes(i)}
    BY <1>4 DEF Starts
  <2> HIDE DEF goes
  <2>5. QED
    BY <1>2, <2>2, <2>3, <2>4
<1>5. QED
  BY <1>3, <1>4

-----------------------------------------------------------------------------
(* The matcher *)

\* In a pattern that can be cut every [ has a ] behind it, inside a set too.
LEMMA BehindIsBehind ==
    ASSUME NEW p \in Seq(Int), NEW C \in CutsFrom(p, 0), NEW j \in 0..(Len(p) - 1)
    PROVE  Behind(p, j) \in (j + 1)..Len(p)
<1>1. /\ C \subseteq 0..Len(p) /\ 0 \in C /\ Len(p) \in C /\ Len(p) \in Nat
      /\ \A x, y \in C : Adjacent(C, x, y) => IsItem(p, x, y)
  BY DEF CutsFrom
<1>2. CASE p[j + 1] # Open
  BY <1>1, <1>2 DEF Behind
<1>3. CASE p[j + 1] = Open
  <2>1. PICK b \in C : /\ b \in (j + 1)..Len(p)
                       /\ \A k \in (j + 1)..(b - 1) : k \notin C
    <3>1. PICK m \in Nat : m = j + 1
      BY <1>1
    <3>2. PICK e \in C : e \in Nat /\ m <= e /\ e = Len(p)
      BY <1>1, <3>1
    <3>3. \E b \in C : b \in m..e /\ \A k \in m..(b - 1) : k \notin C
      BY <3>2, First
    <3>4. QED
      BY <3>1, <3>2, <3>3
  <2>2. PICK a \in C : a \in 0..j /\ \A k \in (a + 1)..j : k \notin C
    <3>1. PICK z \in C : z = 0 /\ z \in Nat /\ j \in Nat /\ z <= j
      BY <1>1
    <3>2. QED
      BY <3>1, Latest
  <2>3. Adjacent(C, a, b)
    <3>1. ASSUME NEW c \in C PROVE c <= a \/ b <= c
      <4>1. c \in 0..Len(p)
        BY <1>1
      <4>2. c \notin (a + 1)..j /\ c \notin (j + 1)..(b - 1)
        BY <2>1, <2>2
      <4>3. QED
        BY <2>1, <2>2, <4>1, <4>2
    <3>2. a < b
      BY <2>1, <2>2
    <3>3. QED
      BY <3>1, <3>2 DEF Adjacent
  <2>4. IsItem(p, a, b)
    BY <1>1, <2>3
  <2>5. a \in Nat /\ b \in (a + 1)..Len(p) /\ b \in Nat
    BY <2>1, <2>2
  <2>6. SetAt(p, a, b)
    <3>1. b = a + 1 => b = j + 1
      BY <2>1, <2>2
    <3>2. QED
      BY <1>3, <2>4, <2>5, <3>1, ItemPlaces
  <2>7. p[b] = Close
    BY <2>6 DEF SetAt
  <2>8. b # j + 1
    BY <1>3, <2>7 DEF Open, Close
  <2> DEFINE T == {k \in Nat : p[k] = Close}
  <2>9. b \in T /\ j + 2 \in Nat /\ j + 2 <= b
    BY <2>1, <2>5, <2>7, <2>8
  <2>10. PICK e \in T : e \in (j + 2)..b /\ \A k \in (j + 2)..(e - 1) : k \notin T
    <3> HIDE DEF T
    <3>1. QED
      BY <2>5, <2>9, First
  <2>11. e \in (j + 2)..Len(p) /\ p[e] = Close
    BY <2>1, <2>10
  <2>12. \A k \in (j + 2)..(e - 1) : p[k] # Close
    BY <2>10
  <2>13. SetEnd(p, j + 2) = e
    BY <2>9, <2>11, <2>12, SetEndIs
  <2>14. QED
    BY <1>3, <2>11, <2>13 DEF Behind
<1>4. QED
  BY <1>2, <1>3

\* The function of LikeFrom, from place n on.
LikeAt(f, t, p, j) ==
    IF j = Len(p) THEN {Len(t)} ELSE Starts(t, p, j, f[Behind(p, j)])

IsLike(f, t, p, n) == f = [j \in n..Len(p) |-> LikeAt(f, t, p, j)]

\* The definition of LikeFrom by recursion has a solution.
LEMMA LikeExists ==
    ASSUME NEW p \in Seq(Int), NEW t,
           \A j \in 0..(Len(p) - 1) : Behind(p, j) \in (j + 1)..Len(p)
    PROVE  \E f : IsLike(f, t, p, 0)
<1>0. Len(p) \in Nat
  OBVIOUS
<1> DEFINE T == {n \in 0..Len(p) : \E f : IsLike(f, t, p, n)}
<1>1. ASSUME NEW n \in 0..Len(p), \A k \in (n + 1)..Len(p) : k \in T
      PROVE  n \in T
  <2>1. CASE n = Len(p)
    <3> DEFINE f == [j \in n..Len(p) |-> {Len(t)}]
    <3>1. \A j \in n..Len(p) : j = Len(p)
      BY <1>0, <2>1
    <3>2. \A h : \A j \in n..Len(p) : LikeAt(h, t, p, j) = {Len(t)}
      BY <3>1 DEF LikeAt
    <3>3. f = [j \in n..Len(p) |-> LikeAt(f, t, p, j)]
      BY <3>2
    <3> HIDE DEF f
    <3>4. IsLike(f, t, p, n)
      BY <3>3 DEF IsLike
    <3>5. QED
      BY <3>4
  <2>2. CASE n < Len(p)
    <3>1. n + 1 \in (n + 1)..Len(p)
      BY <1>0, <2>2
    <3>2. PICK f : IsLike(f, t, p, n + 1)
      BY <1>1, <3>1
    <3>3. \A j \in (n + 1)..Len(p) : f[j] = LikeAt(f, t, p, j)
      <4>1. f = [j \in (n + 1)..Len(p) |-> LikeAt(f, t, p, j)]
        BY <3>2, Zenon DEF IsLike
      <4>2. QED
        BY <4>1, Zenon
    <3> DEFINE g == [j \in n..Len(p) |-> LikeAt(f, t, p, j)]
    <3>4. \A j \in n..Len(p) : g[j] = LikeAt(f, t, p, j)
      OBVIOUS
    <3>5. \A j \in (n + 1)..Len(p) : j \in n..Len(p)
      BY <1>0
    <3>6. \A j \in (n + 1)..Len(p) : g[j] = f[j]
      <4> HIDE DEF g
      <4>1. QED
        BY <3>3, <3>4, <3>5
    <3>7. \A j \in n..Len(p) : LikeAt(f, t, p, j) = LikeAt(g, t, p, j)
      <4> HIDE DEF g
      <4>1. SUFFICES ASSUME NEW j \in n..Len(p), j # Len(p)
                     PROVE  f[Behind(p, j)] = g[Behind(p, j)]
        BY Zenon DEF LikeAt
      <4>2. j \in 0..(Len(p) - 1) /\ j >= n
        BY <1>0, <4>1
      <4>3. Behind(p, j) \in (n + 1)..Len(p)
        BY <1>0, <4>2
      <4>4. QED
        BY <3>6, <4>3
    <3>8. g = [j \in n..Len(p) |-> LikeAt(g, t, p, j)]
      BY <3>7
    <3> HIDE DEF g
    <3>9. IsLike(g, t, p, n)
      BY <3>8 DEF IsLike
    <3>10. QED
      BY <3>9
  <2>3. QED
    BY <1>0, <2>1, <2>2
<1> HIDE DEF T
<1>2. 0..Len(p) \subseteq T
  BY <1>0, <1>1, DownFrom
<1>3. 0 \in T
  BY <1>0, <1>2
<1>4. QED
  BY <1>3 DEF T

\* So LikeFrom is what its definition says.
LEMMA LikeUnrolled ==
    ASSUME NEW p \in Seq(Int), NEW t, NEW j \in 0..Len(p),
           \A k \in 0..(Len(p) - 1) : Behind(p, k) \in (k + 1)..Len(p)
    PROVE  LikeFrom(t, p)[j] =
              IF j = Len(p) THEN {Len(t)}
              ELSE Starts(t, p, j, LikeFrom(t, p)[Behind(p, j)])
<1> DEFINE like == CHOOSE f : IsLike(f, t, p, 0)
<1>1. LikeFrom(t, p) = like
  BY DEF LikeFrom, IsLike, LikeAt
<1>2. IsLike(like, t, p, 0)
  BY LikeExists
<1> HIDE DEF like
<1>3. like = [k \in 0..Len(p) |-> LikeAt(like, t, p, k)]
  BY <1>2, Zenon DEF IsLike
<1>4. like[j] = LikeAt(like, t, p, j)
  BY <1>3, Zenon
<1>5. QED
  BY <1>1, <1>4 DEF LikeAt

\* The matcher returns true from exactly the places from which the rest of the
\* text can be cut along with the rest of the pattern.
LEMMA LikeIsReach ==
    ASSUME NEW p \in Seq(Int), NEW t \in Seq(Int), NEW C \in CutsFrom(p, 0)
    PROVE  LikeFrom(t, p)[0] = Reach(t, p, 0)
<1>0. Len(p) \in Nat
  OBVIOUS
<1>1. \A j \in 0..(Len(p) - 1) : Behind(p, j) \in (j + 1)..Len(p)
  BY BehindIsBehind
<1> DEFINE T == {j \in 0..Len(p) :
                    CutsFrom(p, j) # {} => LikeFrom(t, p)[j] = Reach(t, p, j)}
<1>2. ASSUME NEW j \in 0..Len(p), \A k \in (j + 1)..Len(p) : k \in T
      PROVE  j \in T
  <2>1. CASE j = Len(p)
    <3>1. LikeFrom(t, p)[j] = {Len(t)}
      BY <1>1, <2>1, LikeUnrolled
    <3>2. QED
      BY <2>1, <3>1, ReachEnd
  <2>2. CASE j # Len(p)
    <3>1. SUFFICES ASSUME CutsFrom(p, j) # {}
                   PROVE  LikeFrom(t, p)[j] = Reach(t, p, j)
      OBVIOUS
    <3>2. j \in 0..(Len(p) - 1) /\ j \in Nat
      BY <1>0, <2>2
    <3>3. PICK b \in (j + 1)..Len(p) : IsItem(p, j, b) /\ CutsFrom(p, b) # {}
      <4>1. PICK E \in CutsFrom(p, j) : TRUE
        BY <3>1
      <4>2. QED
        BY <3>2, <4>1, CutFirst
    <3>4. b = Behind(p, j)
      BY <3>2, <3>3, ItemPlaces
    <3>5. LikeFrom(t, p)[b] = Reach(t, p, b)
      BY <1>2, <3>3
    <3>6. LikeFrom(t, p)[j] = Starts(t, p, j, LikeFrom(t, p)[Behind(p, j)])
      BY <1>1, <2>2, LikeUnrolled
    <3>7. QED
      BY <3>2, <3>3, <3>4, <3>5, <3>6, StartsIsReach
  <2>3. QED
    BY <2>1, <2>2
<1> HIDE DEF T
<1>3. 0 \in T
  <2>1. 0..Len(p) \subseteq T
    BY <1>0, <1>2, DownFrom
  <2>2. QED
    BY <1>0, <2>1
<1>4. QED
  BY <1>3 DEF T

\* like says what a well formed pattern means.
LEMMA LikeMatches ==
    ASSUME NEW p \in Seq(Int), NEW t \in Seq(Int), WellFormed(p)
    PROVE  Like(t, p) <=> Matches(t, p)
<1>1. CutsFrom(p, 0) = Cuts(p)
  BY DEF CutsFrom, Cuts
<1>2. Cuts(p) # {}
  BY DEF WellFormed
<1>3. LikeFrom(t, p)[0] = Reach(t, p, 0)
  BY <1>1, <1>2, LikeIsReach
<1>4. 0 \in 0..Len(t)
  OBVIOUS
<1>5. 0 \in Reach(t, p, 0) <=> Matches(t, p)
  BY <1>1, <1>4, Zenon DEF Reach, Matches, Along
<1>6. QED
  BY <1>3, <1>5 DEF Like

-----------------------------------------------------------------------------
(* The check of a pattern *)

\* What is read of a pattern when nothing was left unread.
Quoted(p) == p \o <<Quote>>

\* It is the pattern, which has no quote, and the quote.
LEMMA QuotedIs ==
    ASSUME NEW p \in Seq(Char)
    PROVE  /\ p \in Seq(Int) /\ Len(p) \in Nat
           /\ Quoted(p) \in Seq(Int) /\ Len(Quoted(p)) = Len(p) + 1
           /\ \A i \in 1..Len(p) : Quoted(p)[i] = p[i] /\ p[i] # Quote
           /\ Quoted(p)[Len(p) + 1] = Quote
<1>1. p \in Seq(Int)
  <2>1. Char \subseteq Int
    BY DEF Char
  <2>2. QED
    BY <2>1, SeqMonotonic
<1>2. \A i \in 1..Len(p) : p[i] # Quote
  BY DEF Char
<1>3. Quote \in Int
  BY DEF Quote
<1>4. QED
  BY <1>1, <1>2, <1>3 DEF Quoted

\* A list of members is read up to the first character that is none.
LEMMA MembersRead ==
    ASSUME NEW p \in Seq(Char), NEW j \in 1..(Len(p) + 1)
    PROVE  \E e \in j..(Len(p) + 1) :
              /\ D(Quoted(p), j) = Stops(Quoted(p)[e] = Close, e)
              /\ ~InSet(Quoted(p)[e])
              /\ \A k \in j..(e - 1) : InSet(Quoted(p)[k])
<1> DEFINE s == Quoted(p)
<1>1. Len(s) = Len(p) + 1 /\ s[Len(p) + 1] = Quote /\ Len(p) \in Nat
  BY QuotedIs
<1> HIDE DEF s
<1> DEFINE T == {i \in Nat : ~InSet(s[i])}
<1>2. PICK e \in T : e \in j..(Len(p) + 1) /\ \A k \in j..(e - 1) : k \notin T
  <2>1. PICK z \in T : z = Len(p) + 1 /\ z \in Nat /\ j \in Nat /\ j <= z
    BY <1>1 DEF InSet
  <2> HIDE DEF T
  <2>2. QED
    BY <2>1, First
<1> DEFINE P(i) == ~InSet(s[i]) /\ \A k \in j..(i - 1) : InSet(s[k])
           end  == CHOOSE i \in j..Len(s) : P(i)
<1>3. e \in j..Len(s) /\ P(e)
  <2>1. \A k \in j..(e - 1) : k \in Nat
    OBVIOUS
  <2>2. QED
    BY <1>1, <1>2, <2>1
<1>4. D(s, j) = Stops(s[end] = Close, end)
  BY DEF D
<1> HIDE DEF P
<1>5. end \in j..Len(s) /\ P(end)
  BY <1>3
<1> HIDE DEF end
<1>6. QED
  BY <1>1, <1>4, <1>5 DEF P, s

\* The check reads the sets of the pattern and no others.
LEMMA SetRead ==
    ASSUME NEW p \in Seq(Char), NEW a \in 0..(Len(p) - 1), p[a + 1] = Open
    PROVE  /\ A(Quoted(p), a + 2).ok =>
                /\ A(Quoted(p), a + 2).at \in (a + 1)..Len(p)
                /\ SetAt(p, a, A(Quoted(p), a + 2).at)
           /\ \A b \in a..Len(p) : SetAt(p, a, b) =>
                A(Quoted(p), a + 2) = Stops(TRUE, b)
<1> DEFINE s   == Quoted(p)
           set == A(s, a + 2)
           n   == Len(p)
           m   == Body(p, a)
<1>1. /\ p \in Seq(Int) /\ n \in Nat
      /\ \A i \in 1..n : s[i] = p[i] /\ p[i] # Quote
      /\ s[n + 1] = Quote
  BY QuotedIs
<1>2. a \in Nat /\ a + 1 <= n
  BY <1>1
<1>3. CASE a + 2 > n
  <2>1. a + 2 = n + 1 /\ s[a + 2] = Quote
    BY <1>1, <1>2, <1>3
  <2>2. set = Stops(FALSE, a + 2)
    <3>1. s[a + 2] # Caret /\ ~InSet(s[a + 2])
      BY <2>1 DEF InSet, Quote, Caret
    <3> HIDE DEF s
    <3>2. QED
      BY <3>1, Zenon DEF A
  <2>3. \A b \in a..n : ~SetAt(p, a, b)
    <3>1. \A b \in a..n : SetAt(p, a, b) => b >= a + 3
      BY <1>1, <1>2, SetFacts
    <3>2. QED
      BY <1>1, <1>2, <1>3, <3>1
  <2>4. QED
    BY <2>2, <2>3 DEF Stops
<1>4. CASE a + 2 <= n
  <2>1. s[a + 2] = p[a + 2]
    BY <1>1, <1>2, <1>4
  <2>2. m = IF s[a + 2] = Caret THEN (a + 2) + 1 ELSE a + 2
    BY <1>2, <2>1 DEF Body
  <2>3. m \in Nat /\ m >= a + 2 /\ m <= n + 1
    BY <1>1, <1>2, <1>4, <2>2
  <2>4. set = IF ~InSet(s[m]) THEN Stops(FALSE, m)
              ELSE IF s[m + 1] # Minus THEN D(s, m + 1)
              ELSE IF ~InSet(s[m + 2]) THEN Stops(FALSE, m + 2)
              ELSE Stops(s[m] <= s[m + 2] /\ s[m + 3] = Close, m + 3)
    BY <2>2, Zenon DEF A
  <2>5. ~InSet(Quote) /\ Quote # Minus /\ Quote # Close /\ ~InSet(Close)
    BY DEF InSet, Quote, Minus, Close
  <2>6. \A b \in a..n : SetAt(p, a, b) =>
            /\ p[b] = Close /\ m < b /\ InSet(p[m])
            /\ p[m + 1] = Minus <=> RangeAt(p, a, b)
            /\ ListAt(p, a, b) \/ RangeAt(p, a, b)
    <3>1. SUFFICES ASSUME NEW b \in a..n, SetAt(p, a, b)
                   PROVE  /\ p[b] = Close /\ m < b /\ InSet(p[m])
                          /\ p[m + 1] = Minus <=> RangeAt(p, a, b)
                          /\ ListAt(p, a, b) \/ RangeAt(p, a, b)
      OBVIOUS
    <3>2. p[b] = Close /\ InSet(p[m]) /\ (p[m + 1] = Minus <=> RangeAt(p, a, b))
      BY <1>1, <1>2, <3>1, SetFacts
    <3>3. QED
      BY <3>1, <3>2, Zenon DEF SetAt
  <2>7. \A b \in a..n : RangeAt(p, a, b) <=>
            /\ b = m + 3 /\ p[m + 1] = Minus
            /\ InSet(p[m]) /\ InSet(p[m + 2]) /\ p[m] <= p[m + 2]
    BY Zenon DEF RangeAt
  <2>8. \A b \in a..n : ListAt(p, a, b) <=> \A i \in m..(b - 1) : InSet(p[i])
    BY Zenon DEF ListAt
  <2>9. \A b \in a..n : p[b] = Close /\ m < b /\
            (ListAt(p, a, b) \/ RangeAt(p, a, b)) => SetAt(p, a, b)
    BY Zenon DEF SetAt
  <2> HIDE DEF set, m, s, n
  <2>10. CASE ~InSet(s[m])
    <3>1. \A b \in a..n : ~SetAt(p, a, b)
      <4>1. SUFFICES ASSUME NEW b \in a..n, SetAt(p, a, b) PROVE FALSE
        OBVIOUS
      <4>2. m \in 1..n /\ InSet(p[m])
        BY <1>1, <1>2, <2>3, <2>6, <4>1
      <4>3. QED
        BY <1>1, <2>10, <4>2
    <3>2. ~set.ok
      BY <2>4, <2>10 DEF Stops
    <3>3. QED
      BY <3>1, <3>2 DEF set, s, n
  <2>11. CASE InSet(s[m]) /\ s[m + 1] # Minus
    <3>1. m \in 1..n /\ s[m] = p[m]
      BY <1>1, <1>2, <2>3, <2>5, <2>11
    <3>2. PICK e \in (m + 1)..(n + 1) :
              /\ D(s, m + 1) = Stops(s[e] = Close, e)
              /\ ~InSet(s[e])
              /\ \A k \in (m + 1)..(e - 1) : InSet(s[k])
      <4>1. m + 1 \in 1..(n + 1)
        BY <1>1, <3>1
      <4>2. QED
        BY <4>1, MembersRead DEF s, n
    <3>3. set = Stops(s[e] = Close, e)
      BY <2>4, <2>11, <3>2
    <3>4. ASSUME set.ok PROVE e \in (a + 1)..n /\ SetAt(p, a, e)
      <4>1. s[e] = Close
        BY <3>3, <3>4 DEF Stops
      <4>2. e # n + 1
        BY <1>1, <2>5, <4>1
      <4>3. e \in (a + 1)..n /\ e \in a..n /\ e \in 1..n /\ m < e
        BY <1>1, <1>2, <2>3, <3>2, <4>2
      <4>4. \A i \in m..(e - 1) : InSet(p[i])
        <5>1. SUFFICES ASSUME NEW i \in m..(e - 1) PROVE InSet(p[i])
          OBVIOUS
        <5>2. i \in 1..n
          <6>1. m \in 1..n /\ e \in 1..n /\ n \in Nat
            BY <1>1, <3>1, <4>3
          <6>2. QED
            BY ONLY <6>1, i \in m..(e - 1)
        <5>3. InSet(s[i])
          BY <2>11, <3>1, <3>2
        <5>4. QED
          BY <1>1, <5>2, <5>3
      <4>5. p[e] = Close
        BY <1>1, <4>1, <4>3
      <4>6. QED
        BY <2>8, <2>9, <4>3, <4>4, <4>5
    <3>5. ASSUME NEW b \in a..n, SetAt(p, a, b) PROVE set = Stops(TRUE, b)
      <4>1. p[b] = Close /\ m < b /\ b \in 1..n /\ b \in Nat
        BY <1>1, <2>3, <2>6, <3>1, <3>5
      <4>2. ~RangeAt(p, a, b)
        <5>1. SUFFICES ASSUME RangeAt(p, a, b) PROVE FALSE
          OBVIOUS
        <5>2. b = m + 3 /\ p[m + 1] = Minus
          BY <2>7, <5>1
        <5>3. m + 1 \in 1..n
          BY <1>1, <3>1, <4>1, <5>2
        <5>4. QED
          BY <1>1, <2>11, <5>2, <5>3
      <4>3. \A i \in m..(b - 1) : InSet(p[i])
        BY <2>6, <2>8, <3>5, <4>2
      <4>4. ~ (e < b)
        <5>1. SUFFICES ASSUME e < b PROVE FALSE
          OBVIOUS
        <5>0. e \in Nat /\ m + 1 <= e /\ b <= n /\ m \in Nat /\ n \in Nat
          BY <1>1, <2>3, <4>1
        <5>2. e \in m..(b - 1) /\ e \in 1..n
          BY ONLY <5>0, <5>1, <4>1
        <5>3. QED
          BY <1>1, <3>2, <4>3, <5>2
      <4>5. ~ (b < e)
        <5>1. SUFFICES ASSUME b < e PROVE FALSE
          OBVIOUS
        <5>2. b \in (m + 1)..(e - 1)
          BY <3>1, <3>2, <4>1, <5>1
        <5>3. QED
          BY <1>1, <2>5, <3>2, <4>1, <5>2
      <4>6. e = b
        BY <3>1, <3>2, <4>1, <4>4, <4>5
      <4>7. s[e] = Close
        BY <1>1, <4>1, <4>6
      <4>8. QED
        BY <3>3, <4>6, <4>7
    <3>6. set.at = e
      BY <3>3 DEF Stops
    <3>7. QED
      BY <3>4, <3>5, <3>6 DEF set, s, n
  <2>12. CASE InSet(s[m]) /\ s[m + 1] = Minus /\ ~InSet(s[m + 2])
    <3>1. \A b \in a..n : ~SetAt(p, a, b)
      <4>1. SUFFICES ASSUME NEW b \in a..n, SetAt(p, a, b) PROVE FALSE
        OBVIOUS
      <4>2. m \in 1..n /\ m + 1 \in 1..(n + 1)
        BY <1>1, <1>2, <2>3, <2>6, <4>1
      <4>3. m + 1 \in 1..n
        BY <1>1, <2>5, <2>12, <4>2
      <4>4. RangeAt(p, a, b)
        BY <1>1, <2>6, <2>12, <4>1, <4>3
      <4>5. b = m + 3 /\ InSet(p[m + 2])
        BY <2>7, <4>4
      <4>6. m + 2 \in 1..n
        BY <1>1, <4>2, <4>5
      <4>7. QED
        BY <1>1, <2>12, <4>5, <4>6
    <3>2. ~set.ok
      BY <2>4, <2>12 DEF Stops
    <3>3. QED
      BY <3>1, <3>2 DEF set, s, n
  <2>13. CASE InSet(s[m]) /\ s[m + 1] = Minus /\ InSet(s[m + 2])
    <3>1. m \in 1..n
      BY <1>1, <1>2, <2>3, <2>5, <2>13
    <3>2. m + 1 \in 1..n
      BY <1>1, <2>5, <2>13, <3>1
    <3>3. m + 2 \in 1..n
      <4>1. m + 2 \in 1..(n + 1) /\ m + 2 # n + 1
        BY <1>1, <2>3, <2>5, <2>13, <3>2
      <4>2. QED
        BY ONLY <1>1, <2>3, <4>1
    <3>4. s[m] = p[m] /\ s[m + 1] = p[m + 1] /\ s[m + 2] = p[m + 2]
      BY <1>1, <3>1, <3>2, <3>3
    <3>5. set = Stops(s[m] <= s[m + 2] /\ s[m + 3] = Close, m + 3)
      BY <2>4, <2>13
    <3>6. ASSUME set.ok PROVE m + 3 \in (a + 1)..n /\ SetAt(p, a, m + 3)
      <4>1. s[m] <= s[m + 2] /\ s[m + 3] = Close
        BY <3>5, <3>6 DEF Stops
      <4>2. m + 3 # n + 1
        BY <1>1, <2>5, <4>1
      <4>3. m + 3 \in (a + 1)..n /\ m + 3 \in a..n /\ m + 3 \in 1..n /\ m < m + 3
        BY <1>1, <1>2, <2>3, <3>3, <4>2
      <4>4. p[m + 3] = Close
        BY <1>1, <4>1, <4>3
      <4>5. RangeAt(p, a, m + 3)
        BY <2>7, <2>13, <3>4, <4>1, <4>3
      <4>6. QED
        BY <2>9, <4>3, <4>4, <4>5
    <3>7. ASSUME NEW b \in a..n, SetAt(p, a, b) PROVE set = Stops(TRUE, b)
      <4>1. RangeAt(p, a, b)
        BY <2>6, <2>13, <3>4, <3>7
      <4>2. b = m + 3 /\ p[m] <= p[m + 2] /\ p[b] = Close /\ b \in 1..n
        BY <1>1, <2>6, <2>7, <3>1, <3>7, <4>1
      <4>3. s[m + 3] = Close
        BY <1>1, <4>2
      <4>4. QED
        BY <3>4, <3>5, <4>2, <4>3
    <3>8. set.at = m + 3
      BY <3>5 DEF Stops
    <3>9. QED
      BY <3>6, <3>7, <3>8 DEF set, s, n
  <2>14. QED
    BY <2>10, <2>11, <2>12, <2>13
<1>5. a + 2 > n \/ a + 2 <= n
  BY <1>1, <1>2
<1> HIDE DEF set, s, n
<1>6. QED
  BY <1>3, <1>4, <1>5 DEF set, s, n

\* The function of S1, from place n on.
S1At(f, s, j) ==
    IF s[j] = Quote THEN Accept(s, j)
    ELSE IF s[j] # Open THEN f[j + 1]
    ELSE IF A(s, j + 1).ok THEN f[A(s, j + 1).at + 1]
    ELSE Reject(s, A(s, j + 1).at)

IsS1(f, s, n) == f = [j \in n..Len(s) |-> S1At(f, s, j)]

\* Every place it goes on from is behind the one it is at.
GoesOn(s) ==
    \A j \in 1..Len(s) : s[j] # Quote =>
        /\ j + 1 \in (j + 1)..Len(s)
        /\ s[j] = Open /\ A(s, j + 1).ok => A(s, j + 1).at + 1 \in (j + 1)..Len(s)

\* Because of the quote at its end, it does in a pattern.
LEMMA QuotedGoesOn == ASSUME NEW p \in Seq(Char) PROVE GoesOn(Quoted(p))
<1> DEFINE s == Quoted(p)
<1>1. /\ Len(p) \in Nat /\ Len(s) = Len(p) + 1
      /\ \A i \in 1..Len(p) : s[i] = p[i]
      /\ s[Len(p) + 1] = Quote
  BY QuotedIs
<1>2. ASSUME NEW j \in 1..Len(s), s[j] # Quote
      PROVE  /\ j + 1 \in (j + 1)..Len(s)
             /\ s[j] = Open /\ A(s, j + 1).ok => A(s, j + 1).at + 1 \in (j + 1)..Len(s)
  <2> HIDE DEF s
  <2>1. j \in 1..Len(p)
    BY <1>1, <1>2
  <2>2. PICK a \in 0..(Len(p) - 1) : j = a + 1
    <3>1. j - 1 \in 0..(Len(p) - 1) /\ j = (j - 1) + 1
      BY <1>1, <2>1
    <3>2. QED
      BY <3>1
  <2>3. ASSUME s[j] = Open, A(s, j + 1).ok
        PROVE  A(s, j + 1).at + 1 \in (j + 1)..Len(s)
    <3>1. p[a + 1] = Open /\ j + 1 = a + 2
      BY <1>1, <2>1, <2>2, <2>3
    <3>2. A(s, a + 2).at \in (a + 1)..Len(p)
      BY <2>3, <3>1, SetRead DEF s
    <3>3. QED
      BY <1>1, <2>2, <3>1, <3>2
  <2>4. QED
    BY <1>1, <2>1, <2>3
<1>3. QED
  BY <1>2 DEF GoesOn

\* The definition of S1 by recursion has a solution.
LEMMA S1Exists ==
    ASSUME NEW s \in Seq(Int), s # <<>>, GoesOn(s)
    PROVE  \E f : IsS1(f, s, 1)
<1>0. Len(s) \in Nat \ {0}
  OBVIOUS
<1> DEFINE T == {n \in 0..Len(s) : n = 0 \/ \E f : IsS1(f, s, n)}
<1>1. ASSUME NEW n \in 0..Len(s), \A k \in (n + 1)..Len(s) : k \in T
      PROVE  n \in T
  <2>1. CASE n = 0
    BY <2>1
  <2>2. CASE n # 0
    <3>1. PICK f : \A j \in (n + 1)..Len(s) : f[j] = S1At(f, s, j)
      <4>1. CASE n = Len(s)
        <5>1. (n + 1)..Len(s) = {}
          BY <1>0, <4>1
        <5>2. QED
          BY <5>1
      <4>2. CASE n # Len(s)
        <5>1. n + 1 \in (n + 1)..Len(s) /\ n + 1 # 0
          BY <1>0, <4>2
        <5>2. PICK f : IsS1(f, s, n + 1)
          BY <1>1, <5>1
        <5>3. f = [j \in (n + 1)..Len(s) |-> S1At(f, s, j)]
          BY <5>2, Zenon DEF IsS1
        <5>4. \A j \in (n + 1)..Len(s) : f[j] = S1At(f, s, j)
          BY <5>3, Zenon
        <5>5. QED
          BY <5>4
      <4>3. QED
        BY <4>1, <4>2
    <3> DEFINE g == [j \in n..Len(s) |-> S1At(f, s, j)]
    <3>2. \A j \in n..Len(s) : g[j] = S1At(f, s, j)
      OBVIOUS
    <3>3. \A j \in (n + 1)..Len(s) : j \in n..Len(s)
      BY <1>0
    <3>4. \A j \in (n + 1)..Len(s) : g[j] = f[j]
      <4> HIDE DEF g
      <4>1. QED
        BY <3>1, <3>2, <3>3
    <3>5. \A j \in n..Len(s) : S1At(f, s, j) = S1At(g, s, j)
      <4> HIDE DEF g
      <4>1. SUFFICES ASSUME NEW j \in n..Len(s) PROVE S1At(f, s, j) = S1At(g, s, j)
        OBVIOUS
      <4>2. j \in 1..Len(s) /\ \A k \in (j + 1)..Len(s) : k \in (n + 1)..Len(s)
        BY <1>0, <2>2
      <4>3. s[j] # Quote => f[j + 1] = g[j + 1]
        BY <3>4, <4>2 DEF GoesOn
      <4>4. s[j] # Quote /\ s[j] = Open /\ A(s, j + 1).ok =>
                f[A(s, j + 1).at + 1] = g[A(s, j + 1).at + 1]
        BY <3>4, <4>2 DEF GoesOn
      <4>5. QED
        BY <4>3, <4>4, Zenon DEF S1At
    <3>6. g = [j \in n..Len(s) |-> S1At(g, s, j)]
      BY <3>5
    <3> HIDE DEF g
    <3>7. IsS1(g, s, n)
      BY <3>6 DEF IsS1
    <3>8. QED
      BY <3>7
  <2>3. QED
    BY <2>1, <2>2
<1> HIDE DEF T
<1>2. 0..Len(s) \subseteq T
  BY <1>0, <1>1, DownFrom
<1>3. 1 \in T
  BY <1>0, <1>2
<1>4. QED
  BY <1>3 DEF T

\* So S1 is what its definition says.
LEMMA S1Unrolled ==
    ASSUME NEW s \in Seq(Int), s # <<>>, GoesOn(s), NEW j \in 1..Len(s)
    PROVE  S1(s)[j] = S1At(S1(s), s, j)
<1> DEFINE s1 == CHOOSE f : IsS1(f, s, 1)
<1>1. S1(s) = s1
  BY DEF S1, IsS1, S1At
<1>2. IsS1(s1, s, 1)
  BY S1Exists
<1> HIDE DEF s1
<1>3. s1 = [k \in 1..Len(s) |-> S1At(s1, s, k)]
  BY <1>2, Zenon DEF IsS1
<1>4. s1[j] = S1At(s1, s, j)
  BY <1>3, Zenon
<1>5. QED
  BY <1>1, <1>4

\* Behind its first item a pattern can be cut just as from there on.
LEMMA CutsStep ==
    ASSUME NEW p \in Seq(Int), NEW j \in 0..(Len(p) - 1)
    PROVE  /\ \A b \in (j + 1)..Len(p) : IsItem(p, j, b) =>
                (CutsFrom(p, j) # {} <=> CutsFrom(p, b) # {})
           /\ CutsFrom(p, j) # {} => \E b \in (j + 1)..Len(p) : IsItem(p, j, b)
<1>0. j \in Nat
  OBVIOUS
<1>1. ASSUME CutsFrom(p, j) # {}
      PROVE  \E b \in (j + 1)..Len(p) : IsItem(p, j, b) /\ CutsFrom(p, b) # {}
  <2>1. PICK E \in CutsFrom(p, j) : TRUE
    BY <1>1
  <2>2. QED
    BY <2>1, CutFirst
<1>2. ASSUME NEW b \in (j + 1)..Len(p), IsItem(p, j, b), CutsFrom(p, b) # {}
      PROVE  CutsFrom(p, j) # {}
  BY <1>2, CutMore
<1>3. ASSUME NEW b \in (j + 1)..Len(p), NEW c \in (j + 1)..Len(p),
             IsItem(p, j, b), IsItem(p, j, c)
      PROVE  b = c
  BY <1>0, <1>3, ItemPlaces
<1>4. QED
  BY <1>1, <1>2, <1>3

\* The check accepts what can be cut, and then has read it all.
LEMMA S1IsCuts ==
    ASSUME NEW p \in Seq(Char)
    PROVE  LET c == S1(Quoted(p))[1] IN
           /\ c.ok <=> CutsFrom(p, 0) # {}
           /\ c.ok => c.unread = <<>>
<1> DEFINE s == Quoted(p)
           c(j) == S1(s)[j + 1]
           Right(j) == /\ c(j).ok <=> CutsFrom(p, j) # {}
                       /\ c(j).ok => c(j).unread = <<>>
           T == {j \in 0..Len(p) : Right(j)}
<1>1. /\ p \in Seq(Int) /\ Len(p) \in Nat
      /\ s \in Seq(Int) /\ Len(s) = Len(p) + 1
      /\ \A i \in 1..Len(p) : s[i] = p[i] /\ p[i] # Quote
      /\ s[Len(p) + 1] = Quote
  BY QuotedIs
<1>2. \A j \in 0..Len(p) : c(j) = S1At(S1(s), s, j + 1)
  <2>1. GoesOn(s)
    BY QuotedGoesOn
  <2>2. s # <<>>
    BY <1>1
  <2>3. \A j \in 0..Len(p) : j + 1 \in 1..Len(s)
    BY <1>1
  <2> HIDE DEF s
  <2>4. QED
    BY <1>1, <2>1, <2>2, <2>3, S1Unrolled
<1>3. ASSUME NEW j \in 0..Len(p), \A k \in (j + 1)..Len(p) : Right(k)
      PROVE  Right(j)
  <2>1. CASE j = Len(p)
    <3>1. c(j) = Accept(s, j + 1)
      BY <1>1, <1>2, <2>1 DEF S1At
    <3>2. Drop(s, j + 1) = <<>>
      <4>1. Drop(s, j + 1) = SubSeq(s, (j + 1) + 1, j + 1)
        BY <1>1, <2>1 DEF Drop
      <4>2. QED
        BY <1>1, <2>1, <4>1, SubSeqEmpty
    <3>3. CutsFrom(p, j) # {}
      <4>1. <<>> \in Seq(Int)
        OBVIOUS
      <4>2. QED
        BY <1>1, <2>1, <4>1, ReachEnd
    <3> HIDE DEF c, s
    <3>4. c(j).ok = TRUE /\ c(j).unread = <<>>
      BY <3>1, <3>2 DEF Accept
    <3>5. QED
      BY <3>3, <3>4
  <2>2. CASE j # Len(p)
    <3>1. j \in 0..(Len(p) - 1) /\ j + 1 \in 1..Len(p) /\ j + 1 \in (j + 1)..Len(p)
      BY <1>1, <2>2
    <3>2. s[j + 1] = p[j + 1] /\ p[j + 1] # Quote
      BY <1>1, <3>1
    <3>3. CASE p[j + 1] # Open
      <4>1. c(j) = c(j + 1)
        BY <1>2, <3>2, <3>3 DEF S1At
      <4>2. IsItem(p, j, j + 1)
        BY <3>3 DEF IsItem
      <4>3. CutsFrom(p, j) # {} <=> CutsFrom(p, j + 1) # {}
        BY <1>1, <3>1, <4>2, CutsStep
      <4>4. Right(j + 1)
        BY <1>3, <3>1
      <4> HIDE DEF c
      <4>5. QED
        BY <4>1, <4>3, <4>4
    <3>4. CASE p[j + 1] = Open
      <4> DEFINE set == A(s, j + 2)
      <4>1. (j + 1) + 1 = j + 2 /\ j \in Nat
        OBVIOUS
      <4>2. c(j) = IF set.ok THEN c(set.at) ELSE Reject(s, set.at)
        BY <1>2, <3>2, <3>4, <4>1 DEF S1At, Open, Quote
      <4>3. /\ set.ok => set.at \in (j + 1)..Len(p) /\ SetAt(p, j, set.at)
            /\ \A b \in j..Len(p) : SetAt(p, j, b) => set = Stops(TRUE, b)
        BY <3>1, <3>4, SetRead
      <4> HIDE DEF c, s, set
      <4>4. CASE set.ok
        <5>1. IsItem(p, j, set.at)
          BY <1>1, <4>1, <4>3, <4>4, ItemPlaces
        <5>2. CutsFrom(p, j) # {} <=> CutsFrom(p, set.at) # {}
          BY <1>1, <3>1, <4>3, <4>4, <5>1, CutsStep
        <5>3. Right(set.at)
          BY <1>3, <4>3, <4>4
        <5>4. QED
          BY <4>2, <4>4, <5>2, <5>3
      <4>5. CASE ~set.ok
        <5>1. ~c(j).ok
          BY <4>2, <4>5 DEF Reject
        <5>2. \A b \in (j + 1)..Len(p) : ~IsItem(p, j, b)
          <6>1. SUFFICES ASSUME NEW b \in (j + 1)..Len(p), IsItem(p, j, b)
                         PROVE  FALSE
            OBVIOUS
          <6>2. b = j + 1 => p[b] = Open
            BY <3>4
          <6>3. SetAt(p, j, b)
            BY <1>1, <4>1, <6>1, <6>2, ItemPlaces
          <6>4. set = Stops(TRUE, b)
            <7>1. b \in j..Len(p)
              BY <1>1, <4>1
            <7>2. QED
              BY <4>3, <6>3, <7>1
          <6>5. QED
            BY <4>5, <6>4 DEF Stops
        <5>3. CutsFrom(p, j) = {}
          BY <1>1, <3>1, <5>2, CutsStep
        <5>4. QED
          BY <5>1, <5>3
      <4>6. QED
        BY <4>4, <4>5
    <3>5. QED
      BY <3>3, <3>4
  <2>3. QED
    BY <2>1, <2>2
<1>4. 0 \in T
  <2>1. \A j \in 0..Len(p) : (\A k \in (j + 1)..Len(p) : k \in T) => j \in T
    <3> HIDE DEF Right
    <3>1. QED
      BY <1>1, <1>3
  <2> HIDE DEF T
  <2>2. 0..Len(p) \subseteq T
    BY <1>1, <2>1, DownFrom
  <2>3. QED
    BY <1>1, <2>2
<1>5. 0 + 1 = 1
  OBVIOUS
<1>6. QED
  BY <1>4, <1>5

\* A check that finds nothing unread accepts the well formed patterns, reads
\* them to their end, and accepts no others.
LEMMA CheckIsRight ==
    ASSUME NEW p \in Seq(Char), ss = <<>>
    PROVE  /\ Check(p).ok <=> WellFormed(p)
           /\ Check(p).ok => Check(p).unread = <<>>
<1>1. /\ p \in Seq(Int) /\ Len(p) \in Nat /\ Len(Quoted(p)) = Len(p) + 1
      /\ \A i \in 1..Len(p) : Quoted(p)[i] = p[i] /\ p[i] # Quote
      /\ Quoted(p)[Len(p) + 1] = Quote
  BY QuotedIs
<1>2. Tail(ss \o <<Quote>> \o p \o <<Quote>>) = Quoted(p)
  <2>1. Quote \in Int
    BY DEF Quote
  <2>2. QED
    BY <1>1, <2>1 DEF Quoted
<1>3. Check(p) = S(Quoted(p))
  BY <1>2 DEF Check
<1>4. Quoted(p)[1] = Quote <=> p = <<>>
  BY <1>1
<1>5. CASE p = <<>>
  <2>1. Check(p) = Reject(Quoted(p), 1)
    BY <1>3, <1>4, <1>5 DEF S
  <2>2. ~Check(p).ok
    BY <2>1 DEF Reject
  <2>3. QED
    BY <1>5, <2>2 DEF WellFormed
<1>6. CASE p # <<>>
  <2>1. Check(p) = S1(Quoted(p))[1]
    BY <1>3, <1>4, <1>6 DEF S
  <2>2. CutsFrom(p, 0) = Cuts(p)
    BY DEF CutsFrom, Cuts
  <2>3. QED
    BY <1>6, <2>1, <2>2, S1IsCuts DEF WellFormed
<1>7. QED
  BY <1>5, <1>6

-----------------------------------------------------------------------------
(* The theorems *)

\* An accepted pattern came from a client, and a result is that of like for it:
\* no check comes between the check of a statement and its matches.
LikeInv ==
    /\ verdict = "accepted" => pattern \in Pattern
    /\ result # "none" => /\ verdict = "accepted" /\ text \in Text
                          /\ WellFormed(pattern)
                          /\ result = IF Like(text, pattern) THEN "match" ELSE "differ"

\* So it always is.
LEMMA LikeInvariant == Spec => []LikeInv
<1>1. Init => LikeInv
  BY DEF Init, LikeInv
<1>2. LikeInv /\ [Next]_vars => LikeInv'
  <2> SUFFICES ASSUME LikeInv, [Next]_vars PROVE LikeInv'
    OBVIOUS
  <2>1. ASSUME NEW p \in Pattern, CheckStr(p) PROVE LikeInv'
    <3>1. result' = "none"
      BY <2>1 DEF LikeInv, CheckStr
    <3>2. QED
      BY <2>1, <3>1 DEF LikeInv, CheckStr
  <2>2. ASSUME NEW t \in Text, Match(t) PROVE LikeInv'
    BY <2>2 DEF LikeInv, Match
  <2>3. CASE Clear
    BY <2>3 DEF LikeInv, Clear
  <2>4. CASE Reconnect
    BY <2>4 DEF LikeInv, Reconnect
  <2>5. CASE UNCHANGED vars
    BY <2>5 DEF LikeInv, vars
  <2>6. QED
    BY <2>1, <2>2, <2>3, <2>4, <2>5 DEF Next
<1>3. QED
  BY <1>1, <1>2, PTL DEF Spec

\* like returns true for exactly the texts that the pattern means, whatever the
\* texts and the patterns.
THEOREM LikeRight == Spec => []LikeIsRight
<1>1. LikeInv => LikeIsRight
  <2> SUFFICES ASSUME LikeInv, result # "none"
               PROVE  result = "match" <=> Matches(text, pattern)
    BY DEF LikeIsRight
  <2>1. /\ pattern \in Pattern /\ text \in Text /\ WellFormed(pattern)
        /\ result = IF Like(text, pattern) THEN "match" ELSE "differ"
    BY DEF LikeInv
  <2>2. pattern \in Seq(Int) /\ text \in Seq(Int)
    <3>1. pattern \in Seq(Char) /\ text \in Seq(Int)
      BY <2>1, PatternAssumption, TextAssumption DEF Char
    <3>2. QED
      BY <3>1, QuotedIs
  <2>3. Like(text, pattern) <=> Matches(text, pattern)
    BY <2>1, <2>2, LikeMatches
  <2>4. QED
    BY <2>1, <2>3
<1>2. QED
  BY <1>1, LikeInvariant, PTL

\* A check with nothing unread accepts the well formed patterns and no others,
\* and leaves nothing unread of those.
THEOREM FreshCheckRight == Spec => FreshCheckIsRight
<1> DEFINE Fresh == verdict = "none" /\ verdict' # "none" /\ ss = <<>> =>
                        /\ verdict' = "accepted" <=> WellFormed(pattern')
                        /\ verdict' = "accepted" => ss' = <<>>
<1>1. [Next]_vars => [Fresh]_vars
  <2> SUFFICES ASSUME Next, verdict = "none", verdict' # "none", ss = <<>>
               PROVE  /\ verdict' = "accepted" <=> WellFormed(pattern')
                      /\ verdict' = "accepted" => ss' = <<>>
    OBVIOUS
  <2>1. PICK p \in Pattern : CheckStr(p)
    BY DEF Next, Match, Clear, Reconnect
  <2>2. p \in Seq(Char)
    BY PatternAssumption DEF Char
  <2>3. /\ Check(p).ok <=> WellFormed(p)
        /\ Check(p).ok => Check(p).unread = <<>>
    BY <2>2, CheckIsRight
  <2>4. /\ ss' = Check(p).unread /\ pattern' = p
        /\ verdict' = IF Check(p).ok THEN "accepted" ELSE "rejected"
    BY <2>1 DEF CheckStr
  <2>5. QED
    BY <2>3, <2>4
<1>2. QED
  BY <1>1, PTL DEF Spec, FreshCheckIsRight

=============================================================================
