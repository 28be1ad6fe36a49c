--------------------------- MODULE TableFileProofs --------------------------
(***************************************************************************)
(* Proofs about TableFile, for any widths and any statements: the file     *)
(* stays made of records of one length, an UPDATE writes nowhere but in    *)
(* the field it sets, and the statements have the effects and the answers  *)
(* that TableRows gives them.                                              *)
(***************************************************************************)
EXTENDS TableFile, SequenceLemmas, TLAPS

-----------------------------------------------------------------------------
(* Remainders *)

\* A number below the divisor is its own remainder, after any multiple.
LEMMA ModOf ==
    ASSUME NEW n \in Nat \ {0}, NEW k \in Nat, NEW b \in 0..(n - 1)
    PROVE  (k * n + b) % n = b /\ (k * n) % n = 0
<1>1. (k * n + b) % n = b
  OBVIOUS
<1>2. (k * n + 0) % n = 0
  OBVIOUS
<1>3. k * n + 0 = k * n
  OBVIOUS
<1>4. QED
  BY <1>1, <1>2, <1>3

\* What leaves no remainder is a multiple.
LEMMA Multiple ==
    ASSUME NEW n \in Nat \ {0}, NEW a \in Nat, a % n = 0
    PROVE  \E k \in Nat : a = k * n
OBVIOUS

\* A multiple before a number does not change its remainder.
LEMMA ModAfter ==
    ASSUME NEW n \in Nat \ {0}, NEW a \in Nat, a % n = 0, NEW b \in Nat
    PROVE  (a + b) % n = b % n
<1>1. PICK k \in Nat : a = k * n
  BY Multiple
<1>2. PICK q \in Nat, r \in 0..(n - 1) : b = q * n + r
  <2>1. b = n * (b \div n) + (b % n) /\ b % n \in 0..(n - 1) /\ b \div n \in Nat
    OBVIOUS
  <2>2. n * (b \div n) = (b \div n) * n
    BY <2>1
  <2>3. QED
    BY <2>1, <2>2
<1>3. a + b = (k + q) * n + r
  BY <1>1, <1>2
<1>4. k + q \in Nat
  OBVIOUS
<1>5. ((k + q) * n + r) % n = r
  BY <1>4, ModOf
<1>6. (q * n + r) % n = r
  BY ModOf
<1>7. QED
  BY <1>2, <1>3, <1>5, <1>6

\* Between a multiple and the next there is none.
LEMMA NextMultiple ==
    ASSUME NEW n \in Nat \ {0}, NEW a \in Nat, a % n = 0, NEW b \in Nat, b > a,
           b % n = 0
    PROVE  b >= a + n
<1>1. (a + (b - a)) % n = (b - a) % n
  <2>1. b - a \in Nat
    OBVIOUS
  <2>2. QED
    BY <2>1, ModAfter
<1>2. (b - a) % n = 0
  <2>1. a + (b - a) = b
    OBVIOUS
  <2>2. QED
    BY <1>1, <2>1
<1>3. PICK k \in Nat : b - a = k * n
  BY <1>2, Multiple
<1>4. k # 0
  BY <1>3
<1>5. k * n >= n
  BY <1>4
<1>6. QED
  BY <1>3, <1>5

\* A multiple below another is a multiple by less.
LEMMA FewerRecords ==
    ASSUME NEW n \in Nat \ {0}, NEW j \in Nat, NEW c \in Nat
    PROVE  /\ j * n < c * n => j < c
           /\ j * n = c * n => j = c
<1>1. ASSUME j >= c PROVE j * n >= c * n
  <2>1. PICK d \in Nat : j = c + d
    <3>1. j - c \in Nat /\ j = c + (j - c)
      BY <1>1
    <3>2. QED
      BY <3>1
  <2>2. (c + d) * n = c * n + d * n /\ d * n \in Nat /\ c * n \in Nat
    OBVIOUS
  <2>3. QED
    BY <2>1, <2>2
<1>2. ASSUME j > c PROVE j * n > c * n
  <2>1. PICK d \in Nat : j = c + (d + 1)
    <3>1. j - c - 1 \in Nat /\ j = c + ((j - c - 1) + 1)
      BY <1>2
    <3>2. QED
      BY <3>1
  <2>2. (c + (d + 1)) * n = c * n + (d * n + n) /\ d * n \in Nat /\ c * n \in Nat
    OBVIOUS
  <2>3. QED
    BY <2>1, <2>2
<1>3. ASSUME j < c PROVE j * n < c * n
  <2>1. PICK d \in Nat : c = j + (d + 1)
    <3>1. c - j - 1 \in Nat /\ c = j + ((c - j - 1) + 1)
      BY <1>3
    <3>2. QED
      BY <3>1
  <2>2. (j + (d + 1)) * n = j * n + (d * n + n) /\ d * n \in Nat /\ j * n \in Nat
    OBVIOUS
  <2>3. QED
    BY <2>1, <2>2
<1> DEFINE a == j * n
           b == c * n
<1>4. a \in Nat /\ b \in Nat
  OBVIOUS
<1>5. (j >= c => a >= b) /\ (j > c => a > b) /\ (j < c => a < b)
  BY <1>1, <1>2, <1>3
<1> HIDE DEF a, b
<1>6. (a < b => j < c) /\ (a = b => j = c)
  BY <1>4, <1>5
<1>7. QED
  BY <1>6 DEF a, b

-----------------------------------------------------------------------------
(* Lengths *)

\* A field has a width, if only for a number.
LEMMA SizeType == ASSUME NEW f \in Fields PROVE Size(f) \in Nat \ {0}
<1>1. Width[f] \in Int /\ (Width[f] = -1 \/ Width[f] > 0)
  BY WidthAssumption DEF Fields
<1>2. QED
  BY <1>1, NumWidthAssumption DEF Size, IsNum

\* The lengths of the fields before each, from the first one on.
IsBefore(before, n) ==
    before = [f \in 1..n |->
                 IF f = 1 THEN 0 ELSE before[f - 1] + Size(f - 1) + 1]

\* The definition of Before by recursion has a solution.
LEMMA BeforeExists == ASSUME NEW n \in Nat PROVE \E before : IsBefore(before, n)
<1> DEFINE S == {k \in Nat : \E f : IsBefore(f, k)}
<1>1. 0 \in S
  <2> DEFINE f == [i \in 1..0 |-> 0]
  <2>1. IsBefore(f, 0)
    BY DEF IsBefore
  <2> HIDE DEF f
  <2>2. QED
    BY <2>1
<1>2. ASSUME NEW k \in Nat, k \in S PROVE k + 1 \in S
  <2>1. PICK f : IsBefore(f, k)
    BY <1>2
  <2> DEFINE g == [i \in 1..(k + 1) |->
                      IF i = 1 THEN 0 ELSE f[i - 1] + Size(i - 1) + 1]
  <2>2. \A i \in 1..k : g[i] = f[i]
    <3>1. f = [i \in 1..k |-> IF i = 1 THEN 0 ELSE f[i - 1] + Size(i - 1) + 1]
      BY <2>1, Zenon DEF IsBefore
    <3>2. \A i \in 1..k : f[i] = IF i = 1 THEN 0 ELSE f[i - 1] + Size(i - 1) + 1
      BY <3>1, Zenon
    <3>3. \A i \in 1..k : i \in 1..(k + 1)
      OBVIOUS
    <3>4. QED
      BY ONLY <3>2, <3>3, Zenon
  <2>3. g = [i \in 1..(k + 1) |->
                IF i = 1 THEN 0 ELSE g[i - 1] + Size(i - 1) + 1]
    <3>1. \A i \in 1..(k + 1) : i # 1 => i - 1 \in 1..k
      OBVIOUS
    <3>2. \A i \in 1..(k + 1) : i # 1 => g[i - 1] = f[i - 1]
      BY <3>1, <2>2
    <3> HIDE <2>2
    <3>3. QED
      BY <3>2
  <2> HIDE DEF g
  <2>4. IsBefore(g, k + 1)
    BY <2>3 DEF IsBefore
  <2>5. QED
    BY <2>4
<1> HIDE DEF S
<1>3. n \in S
  BY <1>1, <1>2, SetInduction
<1>4. QED
  BY <1>3 DEF S

\* Every field adds its size and the character behind it.
LEMMA BeforeSteps ==
    /\ Len(Width) \in Nat \ {0}
    /\ Before[1] = 0
    /\ \A f \in Fields : Before[f + 1] = Before[f] + Size(f) + 1
<1> DEFINE n == Len(Width) + 1
<1>1. Len(Width) \in Nat \ {0}
  BY WidthAssumption
<1>2. IsBefore(Before, n)
  <2>1. n \in Nat
    BY <1>1
  <2>2. \E before : IsBefore(before, n)
    BY <2>1, BeforeExists
  <2>3. QED
    BY <2>2 DEF Before, IsBefore
<1>3. \A f \in 1..n : Before[f] = IF f = 1 THEN 0 ELSE Before[f - 1] + Size(f - 1) + 1
  <2>1. Before = [f \in 1..n |-> IF f = 1 THEN 0 ELSE Before[f - 1] + Size(f - 1) + 1]
    BY <1>2, Zenon DEF IsBefore
  <2>2. QED
    BY <2>1, Zenon
<1>4. \A f \in Fields : f + 1 \in 1..n /\ f + 1 # 1 /\ (f + 1) - 1 = f
  BY <1>1 DEF Fields
<1>5. 1 \in 1..n
  BY <1>1
<1> HIDE DEF n
<1>6. Before[1] = 0
  BY <1>3, <1>5
<1>7. \A f \in Fields : Before[f + 1] = Before[f] + Size(f) + 1
  BY <1>3, <1>4
<1>8. QED
  BY <1>1, <1>6, <1>7

\* A field, and the character behind it, lies in the record.
LEMMA FieldsFit ==
    /\ RecordLength \in Nat \ {0}
    /\ \A f \in Fields : /\ Before[f] \in Nat
                         /\ Before[f] + Size(f) + 1 <= RecordLength
<1> DEFINE n == Len(Width)
           T == {i \in 0..n : /\ Before[i + 1] \in Nat
                              /\ \A f \in 1..i :
                                    /\ Before[f] \in Nat
                                    /\ Before[f] + Size(f) + 1 <= Before[i + 1]}
<1>1. n \in Nat \ {0}
  BY BeforeSteps
<1>2. 0 \in T
  <2>1. Before[0 + 1] = 0 /\ 1..0 = {} /\ 0 \in 0..n
    BY <1>1, BeforeSteps
  <2>2. QED
    BY <2>1
<1>3. ASSUME NEW i \in 1..n, i - 1 \in T PROVE i \in T
  <2>1. /\ Before[i] \in Nat
        /\ \A f \in 1..(i - 1) : /\ Before[f] \in Nat
                                 /\ Before[f] + Size(f) + 1 <= Before[i]
    <3>1. (i - 1) + 1 = i
      OBVIOUS
    <3>2. QED
      BY <1>3, <3>1
  <2>2. i \in Fields /\ Size(i) \in Nat /\ \A f \in 1..i : Size(f) \in Nat
    BY SizeType DEF Fields
  <2>3. Before[i + 1] = Before[i] + Size(i) + 1
    BY <2>2, BeforeSteps
  <2>4. Before[i + 1] \in Nat
    BY <2>1, <2>2, <2>3
  <2>5. ASSUME NEW f \in 1..i
        PROVE  Before[f] \in Nat /\ Before[f] + Size(f) + 1 <= Before[i + 1]
    <3>1. CASE f = i
      BY <3>1, <2>1, <2>2, <2>3
    <3>2. CASE f # i
      <4>1. f \in 1..(i - 1) /\ Size(f) \in Nat
        BY <3>2, <2>2
      <4>2. QED
        BY <4>1, <2>1, <2>2, <2>3
    <3>3. QED
      BY <3>1, <3>2
  <2>6. i \in 0..n
    OBVIOUS
  <2>7. QED
    BY <2>4, <2>5, <2>6
<1> HIDE DEF T
<1>4. n \in T
  <2>1. 0..n \subseteq T
    BY <1>1, <1>2, <1>3, UpTo
  <2>2. QED
    BY <1>1, <2>1
<1>5. /\ Before[n + 1] \in Nat
      /\ \A f \in 1..n : /\ Before[f] \in Nat
                         /\ Before[f] + Size(f) + 1 <= Before[n + 1]
  BY <1>4 DEF T
<1>6. Before[n + 1] # 0
  <2>1. 1 \in Fields /\ Size(1) \in Nat
    BY <1>1, SizeType DEF Fields
  <2>2. QED
    BY <1>5, <2>1 DEF Fields
<1>7. QED
  BY <1>5, <1>6 DEF RecordLength, Fields

\* Fields that differ have no place in common.
LEMMA FieldsApart ==
    ASSUME NEW f \in Fields, NEW g \in Fields, f < g
    PROVE  Before[f] + Size(f) + 1 <= Before[g]
<1> DEFINE n == Len(Width)
           T == {i \in 0..n : f < i => Before[f] + Size(f) + 1 <= Before[i]}
<1>1. n \in Nat \ {0} /\ Fields = 1..n
  BY BeforeSteps DEF Fields
<1>2. 0 \in T
  BY <1>1
<1>3. ASSUME NEW i \in 1..n, i - 1 \in T PROVE i \in T
  <2>1. CASE f = i - 1
    <3>1. Before[f + 1] = Before[f] + Size(f) + 1 /\ f + 1 = i
      BY <2>1, BeforeSteps
    <3>2. Before[f] \in Nat /\ Size(f) \in Nat
      BY FieldsFit, SizeType
    <3>3. QED
      BY <3>1, <3>2
  <2>2. CASE f < i - 1
    <3>1. i - 1 \in Fields /\ (i - 1) + 1 = i
      BY <2>2, <1>1
    <3>2. Before[(i - 1) + 1] = Before[i - 1] + Size(i - 1) + 1
      BY <3>1, BeforeSteps
    <3>3. /\ Before[f] \in Nat /\ Size(f) \in Nat /\ Size(i - 1) \in Nat
          /\ Before[i - 1] \in Nat
      BY <3>1, FieldsFit, SizeType
    <3>4. QED
      BY <2>2, <3>1, <3>2, <3>3, <1>3
  <2>3. CASE ~ (f < i)
    BY <2>3
  <2>4. QED
    BY <2>1, <2>2, <2>3, <1>1
<1> HIDE DEF T
<1>4. g \in T
  <2>1. 0..n \subseteq T
    BY <1>1, <1>2, <1>3, UpTo
  <2>2. QED
    BY <2>1, <1>1
<1>5. QED
  BY <1>4 DEF T

-----------------------------------------------------------------------------
(* Records *)

\* What a file is written with.
Symbol == Character \cup {NewLine}

\* Only the end of a record is a newline.
LEMMA SymbolTypes ==
    /\ Blank \in Character /\ "0" \in Character /\ NewLine \in Symbol
    /\ NewLine \notin Character /\ Character = Symbol \ {NewLine}
<1>1. NewLine \notin Digits /\ NewLine # Blank
  BY DEF NewLine, Digits, Blank
<1>2. NewLine \notin Character
  BY <1>1, LettersAssumption DEF Character
<1>3. "0" \in Character
  BY DEF Character, Digits
<1>4. QED
  BY <1>2, <1>3 DEF Character, Symbol

\* What values are written with.
Printed == Letters \cup Digits

\* Digits are no signs, and none of them is a blank.
LEMMA DigitTypes ==
    /\ Printed \subseteq Character /\ Printed = Character \ {Blank}
    /\ "0" \in Digits /\ "+" \notin Digits /\ "-" \notin Digits /\ Blank \notin Digits
<1>1. Blank \notin Digits /\ "0" \in Digits /\ "+" \notin Digits /\ "-" \notin Digits
  BY DEF Blank, Digits
<1>2. QED
  BY <1>1, LettersAssumption DEF Printed, Character

\* A text that is not too long is filled up to the size of its field.
LEMMA PaddedType ==
    ASSUME NEW f \in Fields, NEW word \in Seq(Character), Len(word) <= Size(f)
    PROVE  /\ Padded(word, f) \in Seq(Character) /\ Len(Padded(word, f)) = Size(f)
           /\ \A i \in 1..Size(f) :
                 Padded(word, f)[i] = IF i <= Len(word) THEN word[i] ELSE Blank
<1> DEFINE n == Size(f) - Len(word)
           blanks == [i \in 1..n |-> Blank]
           field == Padded(word, f)
<1>1. Size(f) \in Nat /\ n \in Nat /\ Len(word) \in Nat
  BY SizeType
<1>2. Blank \in Character
  BY SymbolTypes
<1>3. blanks \in Seq(Character) /\ Len(blanks) = n /\ \A i \in 1..n : blanks[i] = Blank
  BY <1>1, <1>2
<1>4. field = word \o blanks
  BY DEF Padded
<1> HIDE DEF blanks, field
<1>5. field \in Seq(Character) /\ Len(field) = Len(word) + n
  BY <1>3, <1>4
<1>6. \A i \in 1..Size(f) : field[i] = IF i <= Len(word) THEN word[i] ELSE Blank
  BY <1>1, <1>3, <1>4
<1>7. QED
  BY <1>1, <1>5, <1>6 DEF field

\* Pieces as long as the fields, one behind the other, are where the fields are.
LEMMA LineIs ==
    ASSUME NEW seqs \in [Fields -> Seq(Character)],
           \A f \in Fields : Len(seqs[f]) = Size(f) + 1
    PROVE  /\ FlattenSeq(seqs) \in Seq(Character)
           /\ Len(FlattenSeq(seqs)) = RecordLength
           /\ \A f \in Fields : \A i \in 1..(Size(f) + 1) :
                 FlattenSeq(seqs)[Before[f] + i] = seqs[f][i]
<1> DEFINE n == Len(Width)
           line == FlattenSeq(seqs)
<1>1. n \in Nat \ {0} /\ Fields = 1..n
  BY BeforeSteps DEF Fields
<1>2. GoesByPiece(seqs, n, Character)
  BY <1>1, FlattenUnrolled
<1> HIDE DEF n, line
<1>3. PICK g \in [0..n -> Seq(Character)] :
          /\ g[0] = <<>> /\ g[n] = line
          /\ \A i \in 1..n : g[i] = g[i - 1] \o seqs[i]
  BY <1>2 DEF GoesByPiece, line
<1> DEFINE T == {i \in 0..n :
                    /\ Len(g[i]) = Before[i + 1]
                    /\ \A f \in 1..i : \A j \in 1..(Size(f) + 1) :
                          g[i][Before[f] + j] = seqs[f][j]}
<1>4. 0 \in T
  <2>1. Len(g[0]) = 0 /\ Before[0 + 1] = 0 /\ 0 \in 0..n /\ 1..0 = {}
    BY <1>1, <1>3, BeforeSteps
  <2>2. QED
    BY <2>1
<1>5. ASSUME NEW i \in 1..n, i - 1 \in T PROVE i \in T
  <2>1. /\ Len(g[i - 1]) = Before[i]
        /\ \A f \in 1..(i - 1) : \A j \in 1..(Size(f) + 1) :
              g[i - 1][Before[f] + j] = seqs[f][j]
    <3>1. (i - 1) + 1 = i
      OBVIOUS
    <3>2. QED
      BY <1>5, <3>1
  <2>2. i \in Fields /\ i \in 0..n /\ i - 1 \in 0..n
    BY <1>1
  <2>3. /\ g[i - 1] \in Seq(Character) /\ seqs[i] \in Seq(Character)
        /\ g[i] = g[i - 1] \o seqs[i] /\ g[i] \in Seq(Character)
    BY <2>2, <1>3
  <2>4. /\ Len(g[i]) = Len(g[i - 1]) + Len(seqs[i])
        /\ \A p \in 1..Len(g[i - 1]) : g[i][p] = g[i - 1][p]
        /\ \A p \in 1..Len(seqs[i]) : g[i][Len(g[i - 1]) + p] = seqs[i][p]
    <3>1. IsJoined(g[i - 1] \o seqs[i], g[i - 1], seqs[i])
      BY <2>3, Joined, Zenon
    <3>2. IsJoined(g[i], g[i - 1], seqs[i])
      BY <2>3, <3>1, Zenon
    <3>3. QED
      BY <3>2, Zenon DEF IsJoined
  <2>5. /\ Before[i + 1] = Before[i] + Size(i) + 1 /\ Len(seqs[i]) = Size(i) + 1
        /\ Before[i] \in Nat /\ Size(i) \in Nat
    BY <2>2, BeforeSteps, FieldsFit, SizeType
  <2>6. Len(g[i]) = Before[i + 1]
    <3>1. \A a, b \in Nat : a + (b + 1) = a + b + 1
      OBVIOUS
    <3>2. QED
      BY <3>1, <2>1, <2>4, <2>5, Zenon
  <2>7. ASSUME NEW f \in 1..i, NEW j \in 1..(Size(f) + 1)
        PROVE  g[i][Before[f] + j] = seqs[f][j]
    <3>1. CASE f = i
      BY <3>1, <2>1, <2>4, <2>5
    <3>2. CASE f # i
      <4>1. f \in 1..(i - 1) /\ f \in Fields /\ f < i
        BY <3>2, <2>2, <1>1
      <4>2. Before[f] + Size(f) + 1 <= Before[i]
        BY <4>1, <2>2, FieldsApart
      <4>3. Before[f] \in Nat /\ Size(f) \in Nat
        BY <4>1, FieldsFit, SizeType
      <4>4. Before[f] + j \in 1..Len(g[i - 1])
        <5>1. \A a, b, c \in Nat : \A d \in 1..(b + 1) :
                  a + b + 1 <= c => a + d \in 1..c
          OBVIOUS
        <5>2. Before[f] + j \in 1..Before[i]
          BY <5>1, <4>2, <4>3, <2>5, Zenon
        <5>3. QED
          BY <5>2, <2>1, Zenon
      <4>5. QED
        BY <4>1, <4>4, <2>1, <2>4
    <3>3. QED
      BY <3>1, <3>2
  <2>8. QED
    BY <2>2, <2>6, <2>7
<1> HIDE DEF T
<1>6. n \in T
  <2>1. 0..n \subseteq T
    BY <1>1, <1>4, <1>5, UpTo
  <2>2. QED
    BY <1>1, <2>1
<1>7. /\ Len(g[n]) = Before[n + 1] /\ g[n] \in Seq(Character)
      /\ \A f \in 1..n : \A j \in 1..(Size(f) + 1) : g[n][Before[f] + j] = seqs[f][j]
  <2>1. n \in 0..n
    BY <1>1
  <2>2. QED
    BY <2>1, <1>3, <1>6 DEF T
<1>8. QED
  BY <1>1, <1>3, <1>7 DEF line, n, RecordLength

\* A record of values that fit is as long as every other, and ends with its only
\* newline.
LEMMA RecordType ==
    ASSUME NEW values \in Seq(Literal), Len(values) = Len(Width),
           \A f \in Fields : Len(values[f].word) <= Size(f)
    PROVE  /\ Record(values) \in Seq(Symbol)
           /\ Len(Record(values)) = RecordLength
           /\ \A i \in 1..RecordLength :
                 Record(values)[i] = NewLine <=> i = RecordLength
<1> DEFINE seqs == [f \in Fields |-> Append(Padded(values[f].word, f), Blank)]
           line == FlattenSeq(seqs)
<1>1. ASSUME NEW f \in Fields
      PROVE  seqs[f] \in Seq(Character) /\ Len(seqs[f]) = Size(f) + 1
  <2>1. values[f] \in Literal
    BY BeforeSteps DEF Fields
  <2>2. values[f].word \in Seq(Character)
    BY <2>1, DigitTypes DEF Literal, Printed
  <2>3. Padded(values[f].word, f) \in Seq(Character)
        /\ Len(Padded(values[f].word, f)) = Size(f)
    BY <2>2, PaddedType
  <2>4. QED
    BY <2>3, SymbolTypes
<1>2. seqs \in [Fields -> Seq(Character)] /\ \A f \in Fields : Len(seqs[f]) = Size(f) + 1
  BY <1>1
<1>3. Record(values) = [line EXCEPT ![Len(line)] = NewLine]
  BY DEF Record
<1> HIDE DEF seqs
<1>4. line \in Seq(Character) /\ Len(line) = RecordLength
  BY <1>2, LineIs
<1> HIDE DEF line
<1>5. /\ RecordLength \in 1..RecordLength
       /\ \A i \in 1..RecordLength : line[i] \in Symbol /\ line[i] # NewLine
  <2>1. RecordLength \in Nat \ {0}
    BY FieldsFit
  <2>2. \A i \in 1..RecordLength : line[i] \in Character
    BY <1>4, ElementOfSeq
  <2>3. QED
    BY <2>1, <2>2, SymbolTypes
<1>6. NewLine \in Symbol
  BY SymbolTypes
<1> DEFINE record == [line EXCEPT ![Len(line)] = NewLine]
<1>7. record = [i \in 1..RecordLength |->
                    IF i = RecordLength THEN NewLine ELSE line[i]]
  <2>1. DOMAIN line = 1..RecordLength
    BY <1>4
  <2>2. QED
    BY <1>4, <2>1
<1> HIDE DEF record
<1>8. record \in [1..RecordLength -> Symbol]
  BY <1>5, <1>6, <1>7
<1>9. record \in Seq(Symbol) /\ Len(record) = RecordLength
  BY <1>8, FieldsFit
<1>10. \A i \in 1..RecordLength : record[i] = NewLine <=> i = RecordLength
  BY <1>5, <1>7
<1>11. QED
  BY <1>3, <1>9, <1>10 DEF record

\* One record is records.
LEMMA OneIsRecords ==
    ASSUME NEW text \in Seq(Symbol), Len(text) = RecordLength,
           \A i \in 1..RecordLength : text[i] = NewLine <=> i = RecordLength
    PROVE  Records(text)
<1> DEFINE n == RecordLength
<1>1. n \in Nat \ {0}
  BY FieldsFit
<1> HIDE DEF n
<1>2. n % n = 0
  BY <1>1
<1>3. \A i \in 1..n : i % n = 0 <=> i = n
  <2>1. \A i \in 1..(n - 1) : i % n = i
    BY <1>1
  <2>2. QED
    BY <1>1, <1>2, <2>1
<1>4. DOMAIN text = 1..n
  BY DEF n
<1>5. QED
  BY <1>2, <1>3, <1>4 DEF Records, n

\* Records after records are records.
LEMMA RecordsAfterRecords ==
    ASSUME NEW s \in Seq(Symbol), NEW t \in Seq(Symbol), Records(s), Records(t)
    PROVE  s \o t \in Seq(Symbol) /\ Records(s \o t)
<1> DEFINE n == RecordLength
           st == s \o t
<1>1. n \in Nat \ {0}
  BY FieldsFit
<1>2. /\ st \in Seq(Symbol) /\ Len(st) = Len(s) + Len(t)
      /\ Len(s) \in Nat /\ Len(t) \in Nat
      /\ \A i \in 1..Len(s) : st[i] = s[i]
      /\ \A i \in (Len(s) + 1)..Len(st) : st[i] = t[i - Len(s)]
  BY ConcatProperties
<1>3. /\ Len(s) % n = 0 /\ Len(t) % n = 0
      /\ \A i \in 1..Len(s) : s[i] = NewLine <=> i % n = 0
      /\ \A i \in 1..Len(t) : t[i] = NewLine <=> i % n = 0
  BY DEF Records
<1>4. DOMAIN st = 1..Len(st)
  BY <1>2
<1> HIDE DEF n, st
<1>5. Len(st) % n = 0
  <2>1. (Len(s) + Len(t)) % n = Len(t) % n
    BY <1>1, <1>2, <1>3, ModAfter
  <2>2. QED
    BY <2>1, <1>2, <1>3
<1>6. ASSUME NEW i \in 1..Len(st) PROVE st[i] = NewLine <=> i % n = 0
  <2>1. CASE i <= Len(s)
    BY <2>1, <1>2, <1>3
  <2>2. CASE i > Len(s)
    <3> DEFINE j == i - Len(s)
    <3>1. j \in 1..Len(t) /\ j \in Nat /\ i = Len(s) + j /\ st[i] = t[j]
      BY <2>2, <1>2
    <3> HIDE DEF j
    <3>2. (Len(s) + j) % n = j % n
      <4>1. Len(s) \in Nat /\ Len(s) % n = 0
        BY <1>2, <1>3
      <4>2. QED
        BY <4>1, <3>1, <1>1, ModAfter
    <3>3. QED
      BY <3>1, <3>2, <1>3
  <2>3. QED
    BY <2>1, <2>2, <1>2
<1>7. QED
  BY <1>2, <1>4, <1>5, <1>6 DEF Records, n, st

-----------------------------------------------------------------------------
(* Reading a line *)

\* From the beginning of a record, a line ends with the record.
LEMMA LineIsRecord ==
    ASSUME NEW text \in Seq(Symbol), Records(text),
           NEW at \in Nat, at % RecordLength = 0, at < Len(text)
    PROVE  /\ LineEnd(text, at) = at + RecordLength
           /\ at + RecordLength <= Len(text)
           /\ (at + RecordLength) % RecordLength = 0
           /\ \A i \in (at + 1)..(at + RecordLength) :
                 text[i] = NewLine <=> i = at + RecordLength
<1> DEFINE n == RecordLength
           e == at + n
<1>1. n \in Nat \ {0}
  BY FieldsFit
<1>2. /\ Len(text) \in Nat /\ Len(text) % n = 0
      /\ \A i \in 1..Len(text) : text[i] = NewLine <=> i % n = 0
  BY DEF Records
<1> HIDE DEF n
<1>3. at % n = 0
  BY DEF n
<1>4. e <= Len(text)
  BY <1>1, <1>2, <1>3, NextMultiple
<1>5. e % n = 0
  <2>1. n % n = 0
    BY <1>1
  <2>2. QED
    BY <2>1, <1>1, <1>3, ModAfter
<1>6. \A i \in (at + 1)..(e - 1) : i % n # 0
  <2>1. SUFFICES ASSUME NEW i \in (at + 1)..(e - 1), i % n = 0 PROVE FALSE
    OBVIOUS
  <2>2. i \in Nat /\ i > at
    BY <1>1
  <2>3. i >= at + n
    BY <2>1, <2>2, <1>1, <1>3, NextMultiple
  <2>4. QED
    BY <2>3, <1>1
<1>7. e \in Nat /\ e >= at + 1
  BY <1>1
<1> HIDE DEF e
<1>8. text[e] = NewLine /\ \A i \in (at + 1)..(e - 1) : text[i] # NewLine
  <2>1. e \in 1..Len(text) /\ \A i \in (at + 1)..(e - 1) : i \in 1..Len(text)
    BY <1>2, <1>4, <1>7
  <2>2. QED
    BY <2>1, <1>2, <1>5, <1>6
<1> DEFINE Ends(i) == text[i] = NewLine /\ \A j \in (at + 1)..(i - 1) : text[j] # NewLine
<1>9. e \in (at + 1)..Len(text) /\ Ends(e)
  BY <1>2, <1>4, <1>7, <1>8
<1>10. ASSUME NEW i \in (at + 1)..Len(text), Ends(i) PROVE i = e
  <2>1. ~ i < e
    BY <1>8, <1>10, <1>7
  <2>2. ~ e < i
    BY <1>8, <1>9, <1>10
  <2>3. QED
    BY <2>1, <2>2, <1>7, <1>2
<1>11. LineEnd(text, at) = e
  <2>1. LineEnd(text, at) = CHOOSE i \in (at + 1)..Len(text) : Ends(i)
    BY DEF LineEnd
  <2> HIDE DEF Ends
  <2>2. QED
    BY <2>1, <1>9, <1>10
<1>12. \A i \in (at + 1)..e : text[i] = NewLine <=> i = e
  BY <1>7, <1>8
<1>13. QED
  BY <1>4, <1>5, <1>11, <1>12 DEF e, n

\* What DELETE copies is one record.
LEMMA RecordIsCopied ==
    ASSUME NEW text \in Seq(Symbol), Records(text),
           NEW at \in Nat, at % RecordLength = 0, at < Len(text)
    PROVE  LET s == SubSeq(text, at + 1, at + RecordLength)
           IN  s \in Seq(Symbol) /\ Records(s)
<1> DEFINE n == RecordLength
           s == SubSeq(text, at + 1, at + n)
<1>1. n \in Nat \ {0}
  BY FieldsFit
<1>2. /\ at + n <= Len(text)
      /\ \A i \in (at + 1)..(at + n) : text[i] = NewLine <=> i = at + n
  BY LineIsRecord
<1> HIDE DEF n
<1>3. s = [i \in 1..n |-> text[at + i]]
  <2>1. (at + n) - (at + 1) + 1 = n
    BY <1>1
  <2>2. s = [i \in 1..((at + n) - (at + 1) + 1) |-> text[i + (at + 1) - 1]]
    BY <1>1
  <2>3. \A i \in 1..n : i + (at + 1) - 1 = at + i
    BY <1>1
  <2>4. QED
    BY <2>1, <2>2, <2>3
<1> HIDE DEF s
<1>4. \A i \in 1..n : at + i \in 1..Len(text) /\ text[at + i] \in Symbol
  BY <1>1, <1>2
<1>5. s \in [1..n -> Symbol]
  BY <1>3, <1>4
<1>6. s \in Seq(Symbol) /\ Len(s) = n
  BY <1>1, <1>5
<1>7. ASSUME NEW i \in 1..n PROVE s[i] = NewLine <=> i = n
  <2>1. at + i \in (at + 1)..(at + n) /\ s[i] = text[at + i]
    BY <1>1, <1>3
  <2>2. at + i = at + n <=> i = n
    BY <1>1
  <2>3. QED
    BY <2>1, <2>2, <1>2
<1>8. Records(s)
  BY <1>6, <1>7, OneIsRecords DEF n
<1>9. QED
  BY <1>6, <1>8 DEF s, n

\* What is read of a record has no newline.
LEMMA LineType ==
    ASSUME NEW text \in Seq(Symbol), Records(text),
           NEW at \in Nat, at % RecordLength = 0, at < Len(text)
    PROVE  Line(text, at) \in Seq(Character)
<1> DEFINE n == RecordLength - 1
           s == Line(text, at)
<1>1. RecordLength \in Nat \ {0} /\ n \in Nat
  BY FieldsFit
<1>2. /\ LineEnd(text, at) = at + RecordLength /\ at + RecordLength <= Len(text)
      /\ \A i \in (at + 1)..(at + RecordLength) :
            text[i] = NewLine <=> i = at + RecordLength
  BY LineIsRecord
<1>3. LineEnd(text, at) - 1 = at + n
  BY <1>1, <1>2
<1>4. s = SubSeq(text, at + 1, at + n)
  BY <1>3 DEF Line
<1>5. \A i \in 1..n : text[at + i] \in Character
  <2>1. SUFFICES ASSUME NEW i \in 1..n PROVE text[at + i] \in Character
    OBVIOUS
  <2>2. at + i \in (at + 1)..(at + RecordLength) /\ at + i # at + RecordLength
    BY <1>1
  <2>3. at + i \in 1..Len(text)
    BY <1>1, <1>2
  <2>4. text[at + i] # NewLine /\ text[at + i] \in Symbol
    BY <2>2, <2>3, <1>2
  <2>5. QED
    BY <2>4, SymbolTypes
<1> HIDE DEF n, s
<1>6. s = [i \in 1..n |-> text[at + i]]
  <2>1. (at + n) - (at + 1) + 1 = n
    BY <1>1
  <2>2. s = [i \in 1..((at + n) - (at + 1) + 1) |-> text[i + (at + 1) - 1]]
    BY <1>1, <1>4
  <2>3. \A i \in 1..n : i + (at + 1) - 1 = at + i
    BY <1>1
  <2>4. QED
    BY <2>1, <2>2, <2>3
<1>7. s \in [1..n -> Character]
  BY <1>5, <1>6
<1>8. s \in Seq(Character)
  BY <1>1, <1>7
<1>9. QED
  BY <1>8 DEF s

-----------------------------------------------------------------------------
(* Words *)

\* One more character of a line, and the cuts of a line up to each of them.
CutAfter(sofar, c) ==
    IF c # Blank THEN [sofar EXCEPT !.word = Append(@, c)]
    ELSE IF sofar.word = <<>> THEN sofar
    ELSE [words |-> Append(sofar.words, sofar.word), word |-> <<>>]

NoCut == [words |-> <<>>, word |-> <<>>]

IsCut(cut, line, n) ==
    cut = [i \in 0..n |-> IF i = 0 THEN NoCut ELSE CutAfter(cut[i - 1], line[i])]

\* The definition of Cut by recursion has a solution.
LEMMA CutExists == ASSUME NEW line, NEW n \in Nat PROVE \E cut : IsCut(cut, line, n)
<1> DEFINE S == {k \in Nat : \E f : IsCut(f, line, k)}
<1>1. 0 \in S
  <2> DEFINE f == [i \in 0..0 |-> NoCut]
  <2>1. f = [i \in 0..0 |-> IF i = 0 THEN NoCut ELSE CutAfter(f[i - 1], line[i])]
    <3>1. \A i \in 0..0 : i = 0
      OBVIOUS
    <3>2. QED
      BY <3>1
  <2> HIDE DEF f
  <2>2. IsCut(f, line, 0)
    BY <2>1, Zenon DEF IsCut
  <2>3. QED
    BY <2>2
<1>2. ASSUME NEW k \in Nat, k \in S PROVE k + 1 \in S
  <2>1. PICK f : IsCut(f, line, k)
    BY <1>2
  <2> DEFINE g == [i \in 0..(k + 1) |->
                      IF i = 0 THEN NoCut ELSE CutAfter(f[i - 1], line[i])]
  <2>2. \A i \in 0..k : g[i] = f[i]
    <3>1. f = [i \in 0..k |-> IF i = 0 THEN NoCut ELSE CutAfter(f[i - 1], line[i])]
      BY <2>1, Zenon DEF IsCut
    <3>2. \A i \in 0..k : f[i] = IF i = 0 THEN NoCut ELSE CutAfter(f[i - 1], line[i])
      BY <3>1, Zenon
    <3>3. \A i \in 0..k : i \in 0..(k + 1)
      OBVIOUS
    <3>4. QED
      BY ONLY <3>2, <3>3, Zenon
  <2>3. g = [i \in 0..(k + 1) |->
                IF i = 0 THEN NoCut ELSE CutAfter(g[i - 1], line[i])]
    <3>1. \A i \in 0..(k + 1) : i # 0 => i - 1 \in 0..k
      OBVIOUS
    <3>2. \A i \in 0..(k + 1) : i # 0 => g[i - 1] = f[i - 1]
      BY <3>1, <2>2
    <3> HIDE <2>2
    <3>3. QED
      BY <3>2
  <2> HIDE DEF g
  <2>4. IsCut(g, line, k + 1)
    BY <2>3, Zenon DEF IsCut
  <2>5. QED
    BY <2>4
<1> HIDE DEF S
<1>3. n \in S
  BY <1>1, <1>2, SetInduction
<1>4. QED
  BY <1>3 DEF S

\* Cut takes one character after the other.
LEMMA CutSteps ==
    ASSUME NEW line \in Seq(Character)
    PROVE  /\ Cut(line)[0] = NoCut
           /\ \A i \in 1..Len(line) : Cut(line)[i] = CutAfter(Cut(line)[i - 1], line[i])
<1> DEFINE n == Len(line)
           cut == Cut(line)
<1>1. n \in Nat
  OBVIOUS
<1>2. IsCut(cut, line, n)
  <2>1. \E f : IsCut(f, line, n)
    BY <1>1, CutExists
  <2>2. cut = CHOOSE f : IsCut(f, line, n)
    BY DEF Cut, IsCut, CutAfter, NoCut
  <2> HIDE DEF cut
  <2>3. QED
    BY <2>1, <2>2
<1> HIDE DEF cut, n
<1>3. cut = [i \in 0..n |-> IF i = 0 THEN NoCut ELSE CutAfter(cut[i - 1], line[i])]
  BY <1>2, Zenon DEF IsCut
<1>4. \A i \in 0..n : cut[i] = IF i = 0 THEN NoCut ELSE CutAfter(cut[i - 1], line[i])
  BY <1>3, Zenon
<1>5. 0 \in 0..n /\ \A i \in 1..n : i \in 0..n /\ i # 0
  BY <1>1
<1>6. cut[0] = NoCut /\ \A i \in 1..n : cut[i] = CutAfter(cut[i - 1], line[i])
  BY <1>4, <1>5
<1>7. QED
  BY <1>6 DEF cut, n

\* There is only a blank in the line.
Blanks(line) == \A i \in 1..Len(line) : line[i] = Blank

\* The words of a line have no blanks, and there is none only if the line has
\* nothing else.
LEMMA WordsType ==
    ASSUME NEW line \in Seq(Character)
    PROVE  /\ Words(line) \in Seq(Seq(Printed))
           /\ Words(line) = <<>> => Blanks(line)
<1> DEFINE Cuts == [words : Seq(Seq(Printed)), word : Seq(Printed)]
           all == Append(line, Blank)
           n == Len(all)
           cut == Cut(all)
           T == {i \in 0..n : /\ cut[i] \in Cuts
                              /\ cut[i] = NoCut => \A j \in 1..i : all[j] = Blank}
<1>1. /\ all \in Seq(Character) /\ n \in Nat \ {0} /\ all[n] = Blank
      /\ n = Len(line) + 1 /\ \A i \in 1..Len(line) : all[i] = line[i]
  BY SymbolTypes
<1>2. Words(line) = cut[n].words
  BY DEF Words
<1> HIDE DEF all
<1>3. /\ cut[0] = NoCut
      /\ \A i \in 1..n : cut[i] = CutAfter(cut[i - 1], all[i])
  BY <1>1, CutSteps
<1>4. \A i \in 1..n : all[i] \in Character
  BY <1>1
<1> HIDE DEF cut, n
<1>5. 0 \in T
  <2>1. NoCut \in Cuts
    BY EmptySeq DEF NoCut
  <2>2. 0 \in 0..n /\ 1..0 = {}
    BY <1>1
  <2>3. QED
    BY <2>1, <2>2, <1>3
<1>6. ASSUME NEW i \in 1..n, i - 1 \in T PROVE i \in T
  <2> DEFINE sofar == cut[i - 1]
             c == all[i]
  <2>1. sofar \in Cuts /\ c \in Character
    BY <1>4, <1>6
  <2>2. sofar = NoCut => \A j \in 1..(i - 1) : all[j] = Blank
    BY <1>6
  <2>3. cut[i] = CutAfter(sofar, c)
    BY <1>3
  <2> HIDE DEF sofar, c
  <2>4. /\ sofar = [words |-> sofar.words, word |-> sofar.word]
        /\ sofar.words \in Seq(Seq(Printed)) /\ sofar.word \in Seq(Printed)
    BY <2>1
  <2>5. CASE c # Blank
    <3>1. c \in Printed
      BY <2>1, <2>5, DigitTypes
    <3>2. Append(sofar.word, c) \in Seq(Printed) /\ Append(sofar.word, c) # <<>>
      BY <2>4, <3>1
    <3>3. cut[i] = [sofar EXCEPT !.word = Append(sofar.word, c)]
      BY <2>3, <2>5 DEF CutAfter
    <3>4. cut[i] \in Cuts /\ cut[i].word = Append(sofar.word, c)
      BY <2>1, <3>2, <3>3
    <3>5. cut[i] # NoCut
      BY <3>2, <3>4 DEF NoCut
    <3>6. QED
      BY <3>4, <3>5, <1>1
  <2>6. CASE c = Blank /\ sofar.word = <<>>
    <3>1. cut[i] = sofar
      BY <2>3, <2>6 DEF CutAfter
    <3>2. ASSUME sofar = NoCut, NEW j \in 1..i PROVE all[j] = Blank
      <4>1. j = i \/ j \in 1..(i - 1)
        BY <1>1
      <4>2. QED
        BY <4>1, <3>2, <2>2, <2>6 DEF c
    <3>3. QED
      BY <2>1, <3>1, <3>2, <1>1
  <2>7. CASE c = Blank /\ sofar.word # <<>>
    <3>1. /\ Append(sofar.words, sofar.word) \in Seq(Seq(Printed))
          /\ Append(sofar.words, sofar.word) # <<>>
      BY <2>4
    <3>2. <<>> \in Seq(Printed)
      BY EmptySeq
    <3>3. cut[i] = [words |-> Append(sofar.words, sofar.word), word |-> <<>>]
      BY <2>3, <2>7 DEF CutAfter
    <3>4. cut[i] \in Cuts /\ cut[i].words = Append(sofar.words, sofar.word)
      BY <3>1, <3>2, <3>3
    <3>5. cut[i] # NoCut
      BY <3>1, <3>4 DEF NoCut
    <3>6. QED
      BY <3>4, <3>5, <1>1
  <2>8. QED
    BY <2>5, <2>6, <2>7
<1> HIDE DEF T
<1>7. 0..n \subseteq T
  BY <1>1, <1>5, <1>6, UpTo
<1>8. n \in T
  BY <1>1, <1>7
<1>9. Words(line) \in Seq(Seq(Printed))
  BY <1>2, <1>8 DEF T
<1>10. ASSUME Words(line) = <<>> PROVE Blanks(line)
  <2>1. cut[n] = CutAfter(cut[n - 1], Blank) /\ n - 1 \in 0..n
    <3>1. n \in 1..n /\ n - 1 \in 0..n
      BY <1>1
    <3>2. QED
      BY <3>1, <1>1, <1>3
  <2>2. cut[n - 1] \in Cuts /\ cut[n] \in Cuts
    BY <2>1, <1>7, <1>8 DEF T
  <2>3. cut[n].word = <<>>
    BY <2>1, <2>2 DEF CutAfter
  <2>4. cut[n] = NoCut
    BY <2>2, <2>3, <1>2, <1>10 DEF NoCut
  <2>5. \A j \in 1..n : all[j] = Blank
    BY <2>4, <1>8 DEF T
  <2>6. \A j \in 1..Len(line) : j \in 1..n
    BY <1>1
  <2>7. QED
    BY <2>5, <2>6, <1>1 DEF Blanks
<1>11. QED
  BY <1>9, <1>10

\* What is read for a field, right or wrong, has no blanks either, or else is a
\* line that has nothing else.
LEMMA RowType ==
    ASSUME NEW line \in Seq(Character), NEW f \in Fields
    PROVE  /\ Row(line)[f] \in Seq(Character)
           /\ Row(line)[f] \in Seq(Printed) \/ Blanks(Row(line)[f])
<1> DEFINE words == Words(line)
<1>1. words = <<>> => Blanks(line)
  BY WordsType
<1>2. words \in Seq(Seq(Printed))
  BY WordsType
<1>3. \A w \in Seq(Printed) : w \in Seq(Character)
  BY DigitTypes
<1>4. Row(line)[f] = IF f <= Len(words) THEN words[f]
                     ELSE IF words = <<>> THEN line ELSE Last(words)
  BY DEF Row
<1> HIDE DEF words
<1>5. f \in Nat /\ f >= 1
  BY BeforeSteps DEF Fields
<1>6. CASE f <= Len(words)
  <2>1. f \in 1..Len(words)
    BY <1>1, <1>5, <1>6
  <2>2. words[f] \in Seq(Printed)
    BY <2>1, <1>2
  <2>3. QED
    BY <2>2, <1>4, <1>6, <1>3
<1>7. CASE ~(f <= Len(words)) /\ words = <<>>
  BY <1>1, <1>4, <1>7
<1>8. CASE ~(f <= Len(words)) /\ words # <<>>
  <2>1. Len(words) \in 1..Len(words)
    BY <1>8, <1>2
  <2>2. Last(words) \in Seq(Printed)
    BY <2>1, <1>2 DEF Last
  <2>3. QED
    BY <2>2, <1>4, <1>8, <1>3
<1>9. QED
  BY <1>6, <1>7, <1>8

-----------------------------------------------------------------------------
(* Numbers *)

\* The longest beginning of a word that is a number: the first digit, and those
\* that count.
First(word) == IF word[1] \in {"+", "-"} THEN 2 ELSE 1
Counting(word) ==
    {i \in First(word)..Len(word) :
        /\ \A j \in First(word)..i : word[j] \in Digits
        /\ \E j \in First(word)..i : word[j] # "0"}

\* What a number looks like from the place first on.
Numerals(word, first) ==
    /\ first \in {1, 2} /\ first <= Len(word)
    /\ IF first = 2 THEN word[1] = "-" ELSE word[1] \in Digits
    /\ word[first] # "0"
    /\ \A i \in first..Len(word) : word[i] \in Digits

\* A number that is read is 0 or has its digits from one place to another.
LEMMA NumeralIs ==
    ASSUME NEW word
    PROVE  Numeral(word) =
             IF Counting(word) = {} THEN <<"0">>
             ELSE (IF word[1] = "-" THEN <<"-">> ELSE <<>>)
                  \o SubSeq(word, Min(Counting(word)), Max(Counting(word)))
<1>1. Counting(word) =
        {i \in {i \in First(word)..Len(word) : \A j \in First(word)..i : word[j] \in Digits} :
            \E j \in First(word)..i : word[j] # "0"}
  BY DEF Counting
<1>2. QED
  BY <1>1 DEF Numeral, First

\* What is read of a word, and made of it, is a number with nothing behind it.
LEMMA NumeralForm ==
    ASSUME NEW word \in Seq(Character)
    PROVE  /\ Numeral(word) \in Seq(Printed)
           /\ Numeral(word) # <<>>
           /\ Numeral(word) = <<"0">> \/ \E first : Numerals(Numeral(word), first)
<1>1. CASE Counting(word) = {}
  <2>1. Numeral(word) = <<"0">>
    BY <1>1, NumeralIs
  <2>2. <<"0">> \in Seq(Printed) /\ <<"0">> # <<>>
    BY DigitTypes DEF Printed
  <2>3. QED
    BY <2>1, <2>2
<1>2. CASE Counting(word) # {}
  <2> DEFINE C == Counting(word)
             f == First(word)
             a == Min(C)
             b == Max(C)
             s == SubSeq(word, a, b)
             sign == IF word[1] = "-" THEN <<"-">> ELSE <<>>
  <2>1. f \in {1, 2} /\ Len(word) \in Nat
    BY DEF First
  <2>2. C \in SUBSET Nat /\ C \in SUBSET (0..Len(word))
    BY <2>1 DEF Counting
  <2>3. a \in C /\ \A y \in C : a <= y
    <3> HIDE DEF C
    <3>1. QED
      BY <1>2, <2>2, MinOf DEF C
  <2>4. b \in C /\ \A y \in C : y <= b
    <3> HIDE DEF C
    <3>1. QED
      BY <1>2, <2>1, <2>2, MaxOf DEF C
  <2>5. /\ a \in f..Len(word) /\ b \in f..Len(word) /\ a <= b
        /\ \A j \in f..b : word[j] \in Digits
    BY <2>3, <2>4 DEF Counting
  <2>6. word[a] # "0"
    <3>1. SUFFICES ASSUME word[a] = "0" PROVE FALSE
      OBVIOUS
    <3>2. PICK j \in f..a : word[j] # "0"
      BY <2>3 DEF Counting
    <3>3. j <= a - 1 /\ a - 1 \in f..Len(word)
      BY <3>1, <3>2, <2>1, <2>5
    <3>4. a - 1 \in C
      <4>1. \A i \in f..(a - 1) : word[i] \in Digits
        BY <2>1, <2>5
      <4>2. j \in f..(a - 1)
        BY <3>2, <3>3, <2>1
      <4>3. QED
        BY <4>1, <4>2, <3>2, <3>3 DEF Counting
    <3> HIDE DEF C, f, a, b
    <3>5. a <= a - 1
      BY <3>4, <2>3
    <3>6. a \in Int
      BY <2>1, <2>5
    <3>7. QED
      BY <3>5, <3>6
  <2>7. Numeral(word) = sign \o s
    BY <1>2, NumeralIs
  <2> HIDE DEF C, f, a, b
  <2> DEFINE p == a - 1
  <2>8. p \in Nat /\ b \in Nat /\ p <= b /\ b <= Len(word) /\ s = SubSeq(word, p + 1, b)
    BY <2>1, <2>5
  <2> HIDE DEF s, p
  <2>9. /\ s \in Seq(Character) /\ Len(s) = b - p
        /\ \A i \in 1..(b - p) : s[i] = word[p + i]
    BY <2>8, Cutout
  <2>10. b - p \in Nat \ {0} /\ s[1] = word[a]
         /\ \A i \in 1..(b - p) : s[i] \in Digits
    <3>1. b - p \in Nat \ {0} /\ p + 1 = a
      BY <2>1, <2>5 DEF p
    <3>2. \A i \in 1..(b - p) : p + i \in f..b
      BY <2>1, <2>5 DEF p
    <3>3. QED
      BY <3>1, <3>2, <2>5, <2>9
  <2>11. s \in Seq(Digits)
    BY <2>9, <2>10
  <2>12. CASE word[1] = "-"
    <3>1. sign \o s = <<"-">> \o s
      BY <2>12
    <3> DEFINE v == <<"-">> \o s
    <3>2. "-" \in Printed
      <4>1. f = 2 /\ 1 \in 1..Len(word)
        BY <2>12, <2>1, <2>5 DEF f, First
      <4>2. word[1] \in Character
        BY <4>1
      <4>3. "-" # Blank
        BY DEF Blank
      <4>4. QED
        BY <2>12, <4>2, <4>3, DigitTypes
    <3>3. v \in Seq(Printed) /\ Len(v) = Len(s) + 1 /\ v[1] = "-"
          /\ \A i \in 2..Len(v) : v[i] = s[i - 1]
      <4>1. s \in Seq(Printed) /\ <<"-">> \in Seq(Printed)
        BY <2>11, <3>2 DEF Printed
      <4>2. QED
        BY <4>1
    <3> HIDE DEF v
    <3>4. Numerals(v, 2)
      <4>1. \A i \in 2..Len(v) : v[i] \in Digits
        BY <3>3, <2>9, <2>10
      <4>2. v[2] = s[1] /\ 2 <= Len(v)
        BY <3>3, <2>9, <2>10
      <4>3. QED
        BY <3>3, <4>1, <4>2, <2>6, <2>10 DEF Numerals
    <3>5. v # <<>>
      BY <3>3
    <3>6. QED
      BY <3>1, <3>3, <3>4, <3>5, <2>7 DEF v
  <2>13. CASE word[1] # "-"
    <3>1. sign \o s = s
      BY <2>13, <2>11
    <3>2. Numerals(s, 1)
      BY <2>6, <2>9, <2>10 DEF Numerals
    <3>3. s \in Seq(Printed) /\ s # <<>>
      BY <2>9, <2>10, <2>11 DEF Printed
    <3>4. QED
      BY <3>1, <3>2, <3>3, <2>7
  <2>14. QED
    BY <2>12, <2>13
<1>3. QED
  BY <1>1, <1>2

\* A number is read as it is.
LEMMA NumeralRead ==
    ASSUME NEW word \in Seq(Character),
           word = <<"0">> \/ \E first : Numerals(word, first)
    PROVE  Numeral(word) = word
<1>1. CASE word = <<"0">>
  <2>1. Len(word) = 1 /\ word[1] = "0"
    BY <1>1
  <2>2. First(word) = 1
    BY <2>1 DEF First
  <2>3. Counting(word) = {}
    BY <2>1, <2>2 DEF Counting
  <2>4. QED
    BY <1>1, <2>3, NumeralIs
<1>2. ASSUME NEW first, Numerals(word, first) PROVE Numeral(word) = word
  <2> DEFINE n == Len(word)
  <2>1. /\ first \in {1, 2} /\ first <= n /\ n \in Nat
        /\ IF first = 2 THEN word[1] = "-" ELSE word[1] \in Digits
        /\ word[first] # "0"
        /\ \A i \in first..n : word[i] \in Digits
    BY <1>2 DEF Numerals
  <2>2. First(word) = first
    BY <2>1, DigitTypes DEF First
  <2>3. Counting(word) = first..n
    <3>1. \A i \in first..n : first \in first..i /\ \A j \in first..i : j \in first..n
      BY <2>1
    <3>2. QED
      BY <2>1, <2>2, <3>1 DEF Counting
  <2>4. first..n # {} /\ first \in first..n /\ n \in first..n
    BY <2>1
  <2> HIDE DEF n
  <2> DEFINE S == first..n
  <2>5. S \in SUBSET Nat /\ S \in SUBSET (0..n) /\ S # {}
    BY <2>1
  <2>6. Min(S) = first /\ Max(S) = n
    <3>1. Min(S) \in S /\ \A y \in S : Min(S) <= y
      BY <2>5, MinOf
    <3>2. Max(S) \in S /\ \A y \in S : y <= Max(S)
      BY <2>1, <2>5, MaxOf
    <3>3. QED
      BY <3>1, <3>2, <2>1, <2>4
  <2>7. Numeral(word) = (IF word[1] = "-" THEN <<"-">> ELSE <<>>) \o SubSeq(word, first, n)
    BY <2>3, <2>5, <2>6, NumeralIs
  <2>8. CASE first = 1
    <3>1. word[1] # "-"
      BY <2>8, <2>1, DigitTypes
    <3>2. SubSeq(word, 1, n) = word
      BY <2>1 DEF n
    <3>3. QED
      BY <2>7, <2>8, <3>1, <3>2
  <2>9. CASE first = 2
    <3> DEFINE s == SubSeq(word, 1 + 1, n)
    <3>1. /\ s \in Seq(Character) /\ Len(s) = n - 1
          /\ \A i \in 1..(n - 1) : s[i] = word[1 + i]
      <4>1. 1 <= n /\ n <= Len(word)
        BY <2>1, <2>9 DEF n
      <4>2. QED
        BY <4>1, <2>1, Cutout
    <3> HIDE DEF s
    <3>2. "-" \in Character
      BY <2>1, <2>9 DEF n
    <3> DEFINE v == <<"-">> \o s
    <3>3. v \in Seq(Character) /\ Len(v) = n /\ v[1] = "-"
          /\ \A i \in 2..n : v[i] = s[i - 1]
      BY <3>1, <3>2, <2>1
    <3>4. Numeral(word) = v
      BY <2>1, <2>7, <2>9 DEF s
    <3> HIDE DEF v
    <3>5. \A i \in 1..n : v[i] = word[i]
      <4>1. \A i \in 2..n : v[i] = word[i]
        <5>1. SUFFICES ASSUME NEW i \in 2..n PROVE v[i] = word[i]
          OBVIOUS
        <5>2. i - 1 \in 1..(n - 1) /\ 1 + (i - 1) = i
          BY <2>1
        <5>3. QED
          BY <3>1, <3>3, <5>2
      <4>2. QED
        BY <4>1, <3>3, <2>1, <2>9
    <3>6. QED
      BY <3>3, <3>4, <3>5, SameSequence DEF n
  <2>10. QED
    BY <2>1, <2>8, <2>9
<1>3. QED
  BY <1>1, <1>2

\* No number is beyond itself.
LEMMA NotBeyond == ASSUME NEW number \in Seq(Printed) PROVE ~Beyond(number, number)
<1>1. ASSUME NEW c PROVE ~Greater(c, c)
  BY DEF Greater
<1>2. QED
  BY <1>1 DEF Beyond

\* The greatest and the least number are read as they are.
LEMMA LongRead ==
    ASSUME NEW long \in {MaxLong, MinLong}
    PROVE  /\ long \in Seq(Printed) /\ long # <<>>
           /\ Number(long) = long
           /\ Len(long) \in Nat /\ Len(long) <= NumWidth
<1>1. /\ long \in Seq(Printed) /\ long # <<>> /\ long = Numeral(long)
      /\ Len(long) <= NumWidth
      /\ long = IF long[1] = "-" THEN MinLong ELSE MaxLong
  BY LongAssumption DEF Printed
<1>2. Number(long) = long
  BY <1>1 DEF Number, TooBig, Long
<1>3. QED
  BY <1>1, <1>2

\* So what is read and written again is what to_string makes, and put_num has room
\* for it.
LEMMA NumberAgain ==
    ASSUME NEW word \in Seq(Character)
    PROVE  /\ Number(word) \in Seq(Printed) /\ Number(word) \in Seq(Character)
           /\ IsNumeral(Number(word))
           /\ Len(Number(word)) \in Nat /\ Len(Number(word)) <= NumWidth
<1> DEFINE number == Numeral(word)
           long == Long(number)
<1>1. Number(word) = IF Beyond(number, long) THEN long ELSE number
  BY DEF Number, TooBig
<1>2. /\ number \in Seq(Printed) /\ number \in Seq(Character) /\ number # <<>>
      /\ number = <<"0">> \/ \E first : Numerals(number, first)
  BY NumeralForm, DigitTypes
<1>3. Numeral(number) = number
  BY <1>2, NumeralRead
<1>4. long \in {MaxLong, MinLong}
  BY DEF Long
<1> HIDE DEF number
<1>5. CASE Beyond(number, long)
  <2>1. Number(word) = long
    BY <1>1, <1>5
  <2> HIDE DEF long
  <2>2. long \in Seq(Printed) /\ long # <<>> /\ Number(long) = long
        /\ Len(long) \in Nat /\ Len(long) <= NumWidth
    BY <1>4, LongRead
  <2>3. long \in Seq(Character)
    BY <2>2, DigitTypes
  <2>4. QED
    BY <2>1, <2>2, <2>3 DEF IsNumeral
<1>6. CASE ~Beyond(number, long)
  <2>1. Number(word) = number
    BY <1>1, <1>6
  <2>2. Number(number) = IF Beyond(number, long) THEN long ELSE number
    BY <1>3 DEF Number, TooBig
  <2> HIDE DEF long
  <2>3. Number(number) = number
    BY <2>2, <1>6
  <2>4. ~(Len(number) > Len(long))
    BY <1>6 DEF Beyond
  <2>5. Len(long) \in Nat /\ Len(long) <= NumWidth
    BY <1>4, LongRead
  <2>6. Len(number) \in Nat /\ Len(number) <= NumWidth
    BY <1>2, <2>4, <2>5, NumWidthAssumption
  <2>7. QED
    BY <1>2, <2>1, <2>3, <2>6 DEF IsNumeral
<1>7. QED
  BY <1>5, <1>6

\* A number that to_string has made is not too big.
LEMMA NotTooBig ==
    ASSUME NEW word, IsNumeral(word)
    PROVE  ~TooBig(word)
<1>1. SUFFICES ASSUME TooBig(word) PROVE FALSE
  OBVIOUS
<1>2. word = Long(Numeral(word)) /\ Beyond(Numeral(word), Long(Numeral(word)))
  BY <1>1 DEF IsNumeral, Number, TooBig
<1>3. word \in {MaxLong, MinLong}
  BY <1>2 DEF Long
<1>4. word = Numeral(word) /\ word \in Seq(Printed)
  BY <1>3, LongAssumption DEF Printed
<1>5. ~Beyond(word, word)
  BY <1>4, NotBeyond
<1>6. QED
  BY <1>2, <1>4, <1>5

\* A number fits every field for one.
LEMMA NumeralFits ==
    ASSUME NEW word \in Seq(Character), IsNumeral(word)
    PROVE  Len(word) <= NumWidth
BY NumberAgain DEF IsNumeral

\* So do the numbers that arrive.
LEMMA LiteralFits ==
    ASSUME NEW v \in Literal
    PROVE  /\ v.word \in Seq(Printed) /\ v.word \in Seq(Character)
           /\ v.num => Len(v.word) <= NumWidth
<1>1. v.word \in Seq(Printed) /\ (v.num => IsNumeral(v.word))
  BY DEF Literal, Printed
<1>2. v.word \in Seq(Character)
  BY <1>1, DigitTypes
<1>3. QED
  BY <1>1, <1>2, NumeralFits

-----------------------------------------------------------------------------
(* Writing into a field *)

\* A field that is written into a record of the file leaves every newline where
\* it is, and everything else that is not of the field.
LEMMA FieldOverwritten ==
    ASSUME NEW f \in Fields, NEW s \in Seq(Character), Len(s) = Size(f),
           file \in Seq(Symbol), Records(file),
           fin \in Nat, fin % RecordLength = 0, fin < Len(file)
    PROVE  LET new == Overwritten(fin + Before[f], s)
           IN  /\ new \in Seq(Symbol) /\ Len(new) = Len(file) /\ Records(new)
               /\ \A i \in DOMAIN file :
                     new[i] # file[i] => /\ Before[f] <= (i - 1) % RecordLength
                                         /\ (i - 1) % RecordLength < Before[f] + Size(f)
<1> DEFINE at == fin + Before[f]
           new == Overwritten(at, s)
           n == RecordLength
<1>1. /\ n \in Nat \ {0} /\ Before[f] \in Nat /\ Size(f) \in Nat
      /\ Before[f] + Size(f) + 1 <= n
  BY FieldsFit, SizeType
<1>2. /\ Len(file) \in Nat /\ DOMAIN file = 1..Len(file)
      /\ \A i \in 1..Len(file) : file[i] \in Symbol
  OBVIOUS
<1>3. new = [i \in 1..Len(file) |->
                IF at < i /\ i <= at + Len(s) THEN s[i - at] ELSE file[i]]
  BY <1>2 DEF Overwritten
<1>4. /\ Len(file) % n = 0
      /\ \A i \in 1..Len(file) : file[i] = NewLine <=> i % n = 0
  BY <1>2 DEF Records
<1>5. \A i \in (fin + 1)..(fin + n) : file[i] = NewLine <=> i = fin + n
  BY LineIsRecord
<1> HIDE DEF n, new
<1>6. at \in Nat
  BY <1>1
<1>7. ASSUME NEW i \in 1..Len(file), at < i, i <= at + Len(s)
      PROVE  /\ new[i] \in Character
             /\ file[i] # NewLine
             /\ i - 1 = fin + (i - 1 - fin)
             /\ i - 1 - fin \in 0..(n - 1)
             /\ Before[f] <= i - 1 - fin /\ i - 1 - fin < Before[f] + Size(f)
  <2>1. i - at \in 1..Len(s)
    BY <1>1, <1>6, <1>7
  <2>2. new[i] = s[i - at]
    BY <1>3, <1>7
  <2>3. new[i] \in Character
    BY <2>1, <2>2
  <2>4. i \in (fin + 1)..(fin + n) /\ i # fin + n
    BY <1>1, <1>7
  <2>5. QED
    BY <2>3, <2>4, <1>1, <1>5, <1>7
<1> HIDE DEF at
<1>8. ASSUME NEW i \in 1..Len(file), ~(at < i /\ i <= at + Len(s))
      PROVE  new[i] = file[i]
  BY <1>3, <1>8
<1>9. new \in [1..Len(file) -> Symbol]
  <2>1. ASSUME NEW i \in 1..Len(file) PROVE new[i] \in Symbol
    BY <1>2, <1>7, <1>8 DEF Symbol
  <2>2. QED
    BY <2>1, <1>3
<1>10. new \in Seq(Symbol) /\ Len(new) = Len(file) /\ DOMAIN new = 1..Len(file)
  BY <1>2, <1>9
<1>11. \A i \in 1..Len(file) : new[i] = NewLine <=> i % n = 0
  BY <1>4, <1>7, <1>8, SymbolTypes
<1>12. Records(new)
  BY <1>4, <1>10, <1>11 DEF Records, n
<1>13. ASSUME NEW i \in 1..Len(file), new[i] # file[i]
       PROVE  Before[f] <= (i - 1) % n /\ (i - 1) % n < Before[f] + Size(f)
  <2> DEFINE p == i - 1 - fin
  <2>1. i - 1 = fin + p /\ p \in 0..(n - 1) /\ Before[f] <= p /\ p < Before[f] + Size(f)
    BY <1>7, <1>8, <1>13
  <2> HIDE DEF p
  <2>2. (fin + p) % n = p % n /\ p % n = p
    <3>1. p \in Nat /\ p % n = p
      BY <2>1, <1>1
    <3>2. fin % n = 0
      BY DEF n
    <3>3. QED
      BY <3>1, <3>2, <1>1, ModAfter
  <2>3. QED
    BY <2>1, <2>2
<1>14. QED
  BY <1>2, <1>10, <1>12, <1>13 DEF new, n, at

-----------------------------------------------------------------------------
(* Rows in a file *)

\* What the records before one have together.
LEMMA RecordPlaces ==
    ASSUME NEW c \in Nat, NEW k \in 1..c
    PROVE  /\ (k - 1) * RecordLength \in Nat
           /\ (k - 1) * RecordLength + RecordLength = k * RecordLength
           /\ k * RecordLength <= c * RecordLength
           /\ k * RecordLength \in Nat /\ c * RecordLength \in Nat
           /\ \A j \in 1..c : j < k => j * RecordLength <= (k - 1) * RecordLength
<1> DEFINE n == RecordLength
<1>1. n \in Nat \ {0}
  BY FieldsFit
<1> HIDE DEF n
<1>2. \A a, b \in Nat : a * n \in Nat /\ (a <= b => a * n <= b * n)
  <2>1. SUFFICES ASSUME NEW a \in Nat, NEW b \in Nat, a <= b PROVE a * n <= b * n
    BY <1>1
  <2>2. PICK d \in Nat : b = a + d
    BY <2>1
  <2>3. b * n = a * n + d * n /\ d * n \in Nat /\ a * n \in Nat
    BY <2>2, <1>1
  <2>4. QED
    BY <2>3
<1>3. (k - 1) * n + n = k * n
  BY <1>1
<1>4. k - 1 \in Nat /\ k \in Nat /\ k <= c /\ \A j \in 1..c : j < k => j <= k - 1 /\ j \in Nat
  OBVIOUS
<1>5. QED
  BY <1>2, <1>3, <1>4 DEF n

\* The i-th character of a field, or the one behind it, in the k-th record.
Place(k, f, i) == (k - 1) * RecordLength + Before[f] + i

LEMMA PlaceIn ==
    ASSUME NEW c \in Nat, NEW k \in 1..c, NEW f \in Fields, NEW i \in 1..(Size(f) + 1)
    PROVE  /\ Place(k, f, i) \in Nat
           /\ (k - 1) * RecordLength < Place(k, f, i)
           /\ Place(k, f, i) <= k * RecordLength
           /\ Place(k, f, i) \in 1..(c * RecordLength)
<1> DEFINE n == RecordLength
           a == (k - 1) * n
<1>1. /\ n \in Nat /\ Before[f] \in Nat /\ Size(f) \in Nat
      /\ Before[f] + Size(f) + 1 <= n
  BY FieldsFit, SizeType
<1>2. a \in Nat /\ a + n = k * n /\ k * n <= c * n /\ c * n \in Nat
  BY RecordPlaces
<1>3. Place(k, f, i) = a + Before[f] + i
  BY DEF Place
<1> HIDE DEF n, a
<1>4. QED
  BY <1>1, <1>2, <1>3 DEF n, a

\* No two of them are the same.
LEMMA PlaceApart ==
    ASSUME NEW c \in Nat, NEW k \in 1..c, NEW f \in Fields, NEW i \in 1..(Size(f) + 1),
           NEW l \in 1..c, NEW g \in Fields, NEW j \in 1..(Size(g) + 1),
           Place(k, f, i) = Place(l, g, j)
    PROVE  k = l /\ f = g /\ i = j
<1> DEFINE n == RecordLength
<1>1. /\ Before[f] \in Nat /\ Size(f) \in Nat /\ Before[f] + Size(f) + 1 <= n
      /\ Before[g] \in Nat /\ Size(g) \in Nat /\ Before[g] + Size(g) + 1 <= n
      /\ n \in Nat
  BY FieldsFit, SizeType
<1>2. /\ (k - 1) * n \in Nat /\ (l - 1) * n \in Nat /\ k * n \in Nat /\ l * n \in Nat
      /\ (k < l => k * n <= (l - 1) * n)
      /\ (l < k => l * n <= (k - 1) * n)
  BY RecordPlaces
<1>3. /\ (k - 1) * n < Place(k, f, i) /\ Place(k, f, i) <= k * n
      /\ (l - 1) * n < Place(l, g, j) /\ Place(l, g, j) <= l * n
      /\ Place(k, f, i) \in Nat /\ Place(l, g, j) \in Nat
  BY PlaceIn
<1>4. k = l
  <2>1. ~ k < l
    BY <1>2, <1>3
  <2>2. ~ l < k
    BY <1>2, <1>3
  <2>3. QED
    BY <2>1, <2>2
<1>5. Before[f] + i = Before[g] + j
  <2>1. (k - 1) * n + Before[f] + i = (k - 1) * n + Before[g] + j
    BY <1>4 DEF Place
  <2> HIDE DEF n
  <2>2. QED
    BY <2>1, <1>1, <1>2
<1>6. f = g
  <2>1. f \in Nat /\ g \in Nat
    BY DEF Fields
  <2>2. ~ f < g
    BY <1>1, <1>5, FieldsApart
  <2>3. ~ g < f
    BY <1>1, <1>5, FieldsApart
  <2>4. QED
    BY <2>1, <2>2, <2>3
<1>7. QED
  BY <1>1, <1>4, <1>5, <1>6

\* Words that fit the fields, numerals where there are numbers.
AnyRow == {r \in [Fields -> Seq(Printed)] :
              \A f \in Fields : /\ Len(r[f]) <= Size(f)
                                /\ IsNum(f) => IsNumeral(r[f])}

\* What stands at the i-th place of a field that holds a word, or behind it.
Cell(word, f, i) == IF i <= Len(word) THEN word[i]
                    ELSE IF f = Len(Width) /\ i = Size(f) + 1 THEN NewLine
                    ELSE Blank

\* The file has the rows rs, each field filled up with blanks.
Holds(text, rs) ==
    /\ text \in Seq(Symbol) /\ rs \in Seq(AnyRow)
    /\ Len(text) = Len(rs) * RecordLength
    /\ \A k \in 1..Len(rs), f \in Fields : \A i \in 1..(Size(f) + 1) :
          text[Place(k, f, i)] = Cell(rs[k][f], f, i)

LEMMA AnyRowType ==
    ASSUME NEW r \in AnyRow, NEW f \in Fields
    PROVE  /\ r[f] \in Seq(Printed) /\ r[f] \in Seq(Character)
           /\ Len(r[f]) \in Nat /\ Len(r[f]) <= Size(f) /\ Size(f) \in Nat \ {0}
           /\ \A i \in 1..Len(r[f]) : r[f][i] # Blank /\ r[f][i] # NewLine
<1>1. r[f] \in Seq(Printed) /\ Len(r[f]) <= Size(f)
  BY DEF AnyRow
<1>2. Printed \subseteq Character /\ Printed = Character \ {Blank}
  BY DigitTypes
<1>3. r[f] \in Seq(Character)
  BY <1>1, <1>2
<1>4. \A i \in 1..Len(r[f]) : r[f][i] \in Printed
  BY <1>1
<1>5. QED
  BY <1>1, <1>2, <1>3, <1>4, SizeType, SymbolTypes

\* What is left of a field that holds a word, without the blanks, is the word.
LEMMA HeldIs ==
    ASSUME NEW field \in Seq(Symbol), NEW word \in Seq(Printed),
           Len(word) <= Len(field),
           \A i \in 1..Len(field) :
              field[i] = IF i <= Len(word) THEN word[i] ELSE Blank
    PROVE  Held(field) = word
<1> DEFINE m == Len(word)
           S == {0} \cup {i \in DOMAIN field : field[i] # Blank}
<1>1. m \in Nat /\ DOMAIN field = 1..Len(field) /\ Len(field) \in Nat
  OBVIOUS
<1>2. \A i \in 1..m : word[i] # Blank
  <2>1. \A i \in 1..m : word[i] \in Printed
    OBVIOUS
  <2>2. QED
    BY <2>1, DigitTypes
<1>3. S = 0..m
  BY <1>1, <1>2
<1> HIDE DEF S
<1>4. Max(S) = m
  <2>1. S \in SUBSET (0..m) /\ S # {}
    BY <1>1, <1>3
  <2>2. Max(S) \in S /\ \A y \in S : y <= Max(S)
    BY <1>1, <2>1, MaxOf
  <2>3. m \in S
    BY <1>1, <1>3
  <2>4. QED
    BY <1>1, <1>3, <2>2, <2>3
<1>5. Held(field) = SubSeq(field, 0 + 1, m)
  <2>1. Held(field) = SubSeq(field, 1, Max(S))
    BY Zenon DEF Held, S
  <2>2. 0 + 1 = 1
    OBVIOUS
  <2>3. QED
    BY <1>4, <2>1, <2>2, Zenon
<1>6. /\ SubSeq(field, 0 + 1, m) \in Seq(Symbol) /\ Len(SubSeq(field, 0 + 1, m)) = m - 0
      /\ \A i \in 1..(m - 0) : SubSeq(field, 0 + 1, m)[i] = field[0 + i]
  BY <1>1, Cutout
<1> DEFINE s == SubSeq(field, 0 + 1, m)
<1> HIDE DEF s
<1>7. \A i \in 1..m : s[i] = word[i]
  BY <1>1, <1>6 DEF s
<1>8. s = word
  BY <1>6, <1>7, SameSequence DEF s
<1>9. QED
  BY <1>5, <1>8 DEF s

\* What is stored in a file are the rows that it has.
LEMMA StoredIs == ASSUME NEW text, NEW rs, Holds(text, rs) PROVE Stored(text) = rs
<1> DEFINE n == RecordLength
           c == Len(rs)
<1>1. /\ text \in Seq(Symbol) /\ rs \in Seq(AnyRow) /\ Len(text) = c * n
      /\ \A k \in 1..c, f \in Fields : \A i \in 1..(Size(f) + 1) :
            text[Place(k, f, i)] = Cell(rs[k][f], f, i)
  BY DEF Holds
<1>2. n \in Nat \ {0} /\ c \in Nat
  BY <1>1, FieldsFit
<1>3. Len(text) \div n = c
  <2> HIDE DEF n, c
  <2>1. QED
    BY <1>1, <1>2
<1>4. ASSUME NEW k \in 1..c, NEW f \in Fields
      PROVE  LET from == (k - 1) * RecordLength + Before[f]
             IN  Held(SubSeq(text, from + 1, from + Size(f))) = rs[k][f]
  <2> DEFINE from == (k - 1) * n + Before[f]
             s == SubSeq(text, from + 1, from + Size(f))
             w == rs[k][f]
  <2>1. /\ w \in Seq(Printed) /\ Len(w) <= Size(f) /\ Size(f) \in Nat \ {0} /\ Len(w) \in Nat
    BY <1>1, AnyRowType
  <2>2. /\ from \in Nat /\ from + Size(f) <= Len(text)
    <3>1. Place(k, f, Size(f)) \in 1..(c * n)
      <4>1. Size(f) \in 1..(Size(f) + 1)
        BY <2>1
      <4>2. QED
        BY <4>1, <1>2, PlaceIn
    <3>2. Place(k, f, Size(f)) = from + Size(f)
      BY DEF Place
    <3>3. Before[f] \in Nat /\ (k - 1) * n \in Nat
      BY <1>2, FieldsFit, RecordPlaces
    <3>4. QED
      BY <3>1, <3>2, <3>3, <1>1
  <2>3. \A i \in 1..Size(f) : text[from + i] = IF i <= Len(w) THEN w[i] ELSE Blank
    <3>1. SUFFICES ASSUME NEW i \in 1..Size(f)
                   PROVE  text[from + i] = IF i <= Len(w) THEN w[i] ELSE Blank
      OBVIOUS
    <3>2. i \in 1..(Size(f) + 1) /\ i # Size(f) + 1
      BY <2>1
    <3>3. from + i = Place(k, f, i)
      BY DEF Place
    <3>4. QED
      BY <3>2, <3>3, <1>1 DEF Cell
  <2> HIDE DEF from
  <2>4. /\ s \in Seq(Symbol) /\ Len(s) = Size(f)
        /\ \A i \in 1..Size(f) : s[i] = text[from + i]
    <3> DEFINE b == from + Size(f)
    <3>1. b - from = Size(f) /\ b \in Nat /\ from <= b /\ b <= Len(text)
      BY <2>1, <2>2
    <3> HIDE DEF b
    <3>2. /\ SubSeq(text, from + 1, b) \in Seq(Symbol)
          /\ Len(SubSeq(text, from + 1, b)) = b - from
          /\ \A i \in 1..(b - from) : SubSeq(text, from + 1, b)[i] = text[from + i]
      BY <3>1, <2>2, <1>1, Cutout
    <3>3. QED
      BY <3>1, <3>2 DEF b
  <2> HIDE DEF s, w
  <2>5. Held(s) = w
    BY <2>1, <2>3, <2>4, HeldIs
  <2>6. QED
    BY <2>5 DEF s, w, from
<1>5. Stored(text) = [k \in 1..c |-> [f \in Fields |-> rs[k][f]]]
  BY <1>3, <1>4 DEF Stored
<1>6. \A k \in 1..c : rs[k] = [f \in Fields |-> rs[k][f]]
  BY <1>1 DEF AnyRow
<1>7. rs = [k \in 1..c |-> rs[k]]
  BY <1>1
<1>8. QED
  BY <1>5, <1>6, <1>7

-----------------------------------------------------------------------------
(* Reading rows *)

\* A character is added to the word that has not ended.
LEMMA CutLonger ==
    ASSUME NEW words, NEW word, NEW c, c # Blank
    PROVE  CutAfter([words |-> words, word |-> word], c)
              = [words |-> words, word |-> Append(word, c)]
BY DEF CutAfter

\* From p on, the next q characters are a word and blanks.
Stands(all, p, q, word) ==
    \A i \in 1..q : all[p + i] = IF i <= Len(word) THEN word[i] ELSE Blank

\* A line cut between two words.
Ended(words) == [words |-> words, word |-> <<>>]

\* Where a word and the blanks behind it stand, the word is the next one of the
\* line.
LEMMA FieldCut ==
    ASSUME NEW all \in Seq(Character), NEW p \in Nat, NEW q \in Nat, p + q <= Len(all),
           NEW word \in Seq(Printed), word # <<>>, Len(word) < q,
           Stands(all, p, q, word), NEW words, Cut(all)[p] = Ended(words)
    PROVE  Cut(all)[p + q] = Ended(Append(words, word))
<1> USE DEF Ended
<1> DEFINE m == Len(word)
           cut == Cut(all)
           T == {i \in 0..m : cut[p + i] = [words |-> words, word |-> SubSeq(word, 1, i)]}
           d == q - (m + 1)
           U == {j \in 0..d :
                   cut[p + (m + 1 + j)] = [words |-> Append(words, word), word |-> <<>>]}
<1>1. m \in Nat \ {0} /\ d \in Nat /\ \A i \in 1..m : word[i] \in Printed
  BY EmptySeq
<1>2. \A i \in 1..q : cut[p + i] = CutAfter(cut[p + (i - 1)], all[p + i])
  <2>1. SUFFICES ASSUME NEW i \in 1..q
                 PROVE  cut[p + i] = CutAfter(cut[p + (i - 1)], all[p + i])
    OBVIOUS
  <2>2. p + i \in 1..Len(all) /\ (p + i) - 1 = p + (i - 1)
    OBVIOUS
  <2>3. QED
    BY <2>2, CutSteps
<1>3. \A i \in 1..m : i \in 1..q /\ all[p + i] = word[i] /\ word[i] # Blank
  BY <1>1, DigitTypes DEF Stands
<1>4. \A i \in (m + 1)..q : i \in 1..q /\ all[p + i] = Blank
  BY <1>1 DEF Stands
<1> HIDE DEF cut
<1>5. cut[p + 0] = [words |-> words, word |-> <<>>]
  BY DEF cut
<1>6. 0 \in T
  <2>1. SubSeq(word, 1, 0) = <<>>
    OBVIOUS
  <2>2. QED
    BY <1>1, <1>5, <2>1
<1>7. ASSUME NEW i \in 1..m, i - 1 \in T PROVE i \in T
  <2>1. cut[p + (i - 1)] = [words |-> words, word |-> SubSeq(word, 1, i - 1)]
    BY <1>7
  <2>2. cut[p + i] = CutAfter(cut[p + (i - 1)], word[i]) /\ word[i] # Blank
    BY <1>2, <1>3
  <2>3. cut[p + i] = [words |-> words, word |-> Append(SubSeq(word, 1, i - 1), word[i])]
    BY <2>1, <2>2, CutLonger
  <2>4. Append(SubSeq(word, 1, i - 1), word[i]) = SubSeq(word, 1, i)
    <3> DEFINE s == SubSeq(word, 0 + 1, i - 1)
               t == SubSeq(word, 0 + 1, i)
    <3>1. /\ s \in Seq(Printed) /\ Len(s) = i - 1
          /\ \A j \in 1..(i - 1) : s[j] = word[j]
      <4>1. i - 1 \in Nat /\ i - 1 <= Len(word) /\ 0 <= i - 1 /\ (i - 1) - 0 = i - 1
        BY <1>1
      <4>2. \A j \in 1..(i - 1) : 0 + j = j
        OBVIOUS
      <4> HIDE DEF s
      <4>3. s \in Seq(Printed) /\ Len(s) = (i - 1) - 0 /\ \A j \in 1..((i - 1) - 0) : s[j] = word[0 + j]
        BY <4>1, Cutout DEF s
      <4>4. QED
        BY <4>1, <4>2, <4>3
    <3>2. /\ t \in Seq(Printed) /\ Len(t) = i
          /\ \A j \in 1..i : t[j] = word[j]
      <4>1. i \in Nat /\ i <= Len(word) /\ 0 <= i /\ i - 0 = i
        BY <1>1
      <4>2. \A j \in 1..i : 0 + j = j
        OBVIOUS
      <4> HIDE DEF t
      <4>3. t \in Seq(Printed) /\ Len(t) = i - 0 /\ \A j \in 1..(i - 0) : t[j] = word[0 + j]
        BY <4>1, Cutout DEF t
      <4>4. QED
        BY <4>1, <4>2, <4>3
    <3>3. s = SubSeq(word, 1, i - 1) /\ t = SubSeq(word, 1, i)
      OBVIOUS
    <3> HIDE DEF s, t
    <3>4. Append(s, word[i]) \in Seq(Printed) /\ Len(Append(s, word[i])) = i
          /\ \A j \in 1..i : Append(s, word[i])[j] = word[j]
      <4>1. word[i] \in Printed /\ i \in Nat
        BY <1>1
      <4>2. QED
        BY <4>1, <3>1
    <3>5. Append(s, word[i]) = t
      BY <3>2, <3>4, SameSequence
    <3>6. QED
      BY <3>3, <3>5
  <2>5. i \in 0..m
    BY <1>1
  <2>6. QED
    BY <2>3, <2>4, <2>5
<1>8. m \in T
  <2> HIDE DEF T
  <2>1. 0..m \subseteq T
    BY <1>1, <1>6, <1>7, UpTo
  <2>2. QED
    BY <1>1, <2>1
<1>9. cut[p + m] = [words |-> words, word |-> word]
  <2>1. SubSeq(word, 1, m) = word
    OBVIOUS
  <2>2. QED
    BY <1>8, <2>1
<1>10. 0 \in U
  <2>1. m + 1 \in (m + 1)..q /\ (m + 1) - 1 = m /\ m + 1 + 0 = m + 1
    BY <1>1
  <2>2. cut[p + (m + 1)] = CutAfter(cut[p + m], Blank)
    BY <1>2, <1>4, <2>1
  <2>3. QED
    BY <1>1, <1>9, <2>1, <2>2 DEF CutAfter
<1>11. ASSUME NEW j \in 1..d, j - 1 \in U PROVE j \in U
  <2> DEFINE i == m + 1 + j
  <2>1. i \in (m + 1)..q /\ i - 1 = m + 1 + (j - 1) /\ j \in 0..d
    BY <1>1
  <2>2. cut[p + i] = CutAfter(cut[p + (i - 1)], Blank)
    BY <1>2, <1>4, <2>1
  <2>3. cut[p + (i - 1)] = [words |-> Append(words, word), word |-> <<>>]
    BY <1>11, <2>1
  <2>4. cut[p + i] = [words |-> Append(words, word), word |-> <<>>]
    BY <2>2, <2>3 DEF CutAfter
  <2>5. QED
    BY <2>1, <2>4
<1> HIDE DEF U
<1>12. d \in U
  <2>1. 0..d \subseteq U
    BY <1>1, <1>10, <1>11, UpTo
  <2>2. QED
    BY <1>1, <2>1
<1>13. m + 1 + d = q
  BY <1>1
<1>14. QED
  BY <1>12, <1>13 DEF U, cut

\* If every field has a word, the words of a line are the fields.
LEMMA WordsAre ==
    ASSUME NEW line \in Seq(Character), NEW r \in AnyRow,
           \A f \in Fields : r[f] # <<>>,
           Len(line) = RecordLength - 1,
           \A f \in Fields : Stands(Append(line, Blank), Before[f], Size(f) + 1, r[f])
    PROVE  Words(line) = r /\ Row(line) = r
<1> DEFINE n == Len(Width)
           all == Append(line, Blank)
           cut == Cut(all)
           Fst(f) == [g \in 1..f |-> r[g]]
           T == {f \in 0..n : cut[Before[f + 1]] = [words |-> Fst(f), word |-> <<>>]}
<1>1. n \in Nat \ {0} /\ Fields = 1..n /\ RecordLength \in Nat \ {0}
  BY BeforeSteps, FieldsFit DEF Fields
<1>2. all \in Seq(Character) /\ Len(all) = RecordLength
  BY <1>1, SymbolTypes
<1>3. \A f \in Fields : /\ r[f] \in Seq(Printed) /\ Len(r[f]) \in Nat
                        /\ Len(r[f]) <= Size(f) /\ Size(f) \in Nat
  BY AnyRowType
<1>4. \A f \in Fields : Stands(all, Before[f], Size(f) + 1, r[f])
  OBVIOUS
<1>5. cut[0] = NoCut
  BY <1>2, CutSteps
<1>6. cut[Before[n + 1]].words = Words(line)
  BY <1>2 DEF Words, RecordLength
<1> HIDE DEF all, cut, n
<1>7. 0 \in T
  <2>1. Before[0 + 1] = 0 /\ Fst(0) = <<>>
    BY BeforeSteps
  <2> HIDE DEF Fst
  <2>2. QED
    BY <1>1, <1>5, <2>1 DEF NoCut
<1>8. ASSUME NEW f \in 1..n, f - 1 \in T PROVE f \in T
  <2>1. f \in Fields /\ (f - 1) + 1 = f /\ f \in 0..n
    BY <1>1
  <2>2. cut[Before[f]] = [words |-> Fst(f - 1), word |-> <<>>]
    BY <1>8, <2>1
  <2> DEFINE p == Before[f]
             q == Size(f) + 1
             w == r[f]
  <2>3. /\ p \in Nat /\ q \in Nat /\ p + q <= Len(all) /\ Len(w) < q
        /\ w \in Seq(Printed) /\ w # <<>> /\ Before[f + 1] = p + q
    <3>1. /\ Before[f] \in Nat /\ Before[f] + Size(f) + 1 <= RecordLength
          /\ Before[f + 1] = Before[f] + Size(f) + 1
      BY <2>1, FieldsFit, BeforeSteps
    <3>2. r[f] \in Seq(Printed) /\ Len(r[f]) \in Nat
          /\ Len(r[f]) <= Size(f) /\ Size(f) \in Nat
      BY <2>1, <1>3
    <3>3. r[f] # <<>>
      BY <2>1
    <3>4. Before[f] + (Size(f) + 1) = Before[f] + Size(f) + 1
      BY <3>1, <3>2
    <3>5. Before[f] + (Size(f) + 1) <= Len(all)
      BY <3>1, <3>4, <1>2
    <3>6. Size(f) + 1 \in Nat /\ Len(r[f]) < Size(f) + 1
      BY <3>2
    <3>7. QED
      BY <3>1, <3>2, <3>3, <3>4, <3>5, <3>6
  <2>4. Stands(all, p, q, w)
    BY <2>1, <1>4
  <2>5. cut[p] = [words |-> Fst(f - 1), word |-> <<>>]
    BY <2>2
  <2> HIDE DEF p, q, w, Fst
  <2>6. cut[p + q] = [words |-> Append(Fst(f - 1), w), word |-> <<>>]
    <3> DEFINE W == Fst(f - 1)
    <3>1. Cut(all)[p] = Ended(W)
      BY <2>5 DEF cut, Ended
    <3> HIDE DEF W
    <3>2. Cut(all)[p + q] = Ended(Append(W, w))
      BY <1>2, <2>3, <2>4, <3>1, FieldCut
    <3>3. QED
      BY <3>2 DEF cut, W, Ended
  <2>7. Append(Fst(f - 1), w) = Fst(f)
    <3> DEFINE s == Fst(f - 1)
               t == Fst(f)
               S == Seq(Printed)
    <3>1. /\ s \in Seq(S) /\ Len(s) = f - 1 /\ t \in Seq(S) /\ Len(t) = f
          /\ \A g \in 1..(f - 1) : s[g] = r[g]
          /\ \A g \in 1..f : t[g] = r[g]
      <4>1. \A g \in 1..f : r[g] \in S
        BY <1>1, <1>3
      <4>2. \A g \in 1..(f - 1) : r[g] \in S
        BY <4>1
      <4>3. f - 1 \in Nat /\ f \in Nat
        BY <1>1
      <4> HIDE DEF S
      <4>4. QED
        BY <4>1, <4>2, <4>3 DEF Fst
    <3> HIDE DEF s, t, S
    <3>2. w \in S
      BY <2>3 DEF S
    <3>3. Append(s, w) \in Seq(S) /\ Len(Append(s, w)) = f
          /\ \A g \in 1..f : Append(s, w)[g] = t[g]
      BY <3>1, <3>2, <1>1 DEF w
    <3>4. Append(s, w) = t
      BY <3>1, <3>3, SameSequence
    <3>5. QED
      BY <3>4 DEF s, t
  <2>8. QED
    BY <2>1, <2>3, <2>6, <2>7
<1> HIDE DEF T
<1>9. n \in T
  <2>1. 0..n \subseteq T
    BY <1>1, <1>7, <1>8, UpTo
  <2>2. QED
    BY <1>1, <2>1
<1>10. r = Fst(n)
  BY <1>1 DEF AnyRow
<1>11. Words(line) = r
  <2> HIDE DEF Fst
  <2>1. cut[Before[n + 1]] = [words |-> Fst(n), word |-> <<>>]
    BY <1>9 DEF T
  <2>2. QED
    BY <1>6, <1>10, <2>1
<1>12. Len(r) = n
  BY <1>1, <1>10
<1>13. Row(line) = [f \in Fields |-> r[f]]
  <2>1. \A f \in Fields : f <= n
    BY <1>1
  <2>2. QED
    BY <1>11, <1>12, <2>1 DEF Row
<1>14. QED
  BY <1>11, <1>13 DEF AnyRow

\* A row is read as it is, if none of its fields is empty.
LEMMA RowRead ==
    ASSUME NEW text, NEW rs, Holds(text, rs), Records(text),
           NEW k \in 1..Len(rs), \A f \in Fields : rs[k][f] # <<>>
    PROVE  Row(Line(text, (k - 1) * RecordLength)) = rs[k]
<1> DEFINE n == RecordLength
           c == Len(rs)
           at == (k - 1) * n
           line == Line(text, at)
           r == rs[k]
<1>1. /\ text \in Seq(Symbol) /\ rs \in Seq(AnyRow) /\ Len(text) = c * n
      /\ \A l \in 1..c, f \in Fields : \A i \in 1..(Size(f) + 1) :
            text[Place(l, f, i)] = Cell(rs[l][f], f, i)
  BY DEF Holds
<1>2. c \in Nat /\ n \in Nat \ {0} /\ k - 1 \in Nat
  BY <1>1, FieldsFit
<1>3. /\ at \in Nat /\ at + n <= c * n
  BY <1>2, RecordPlaces
<1>4. at % n = 0
  <2>1. 0 \in 0..(n - 1)
    BY <1>2
  <2> HIDE DEF n
  <2>2. QED
    BY <2>1, <1>2, ModOf
<1>5. /\ LineEnd(text, at) = at + n
      /\ at < Len(text)
  <2>1. at < Len(text)
    BY <1>1, <1>2, <1>3
  <2>2. QED
    BY <1>1, <1>3, <1>4, <2>1, LineIsRecord
<1>6. line \in Seq(Character)
  BY <1>1, <1>3, <1>4, <1>5, LineType
<1>7. Len(line) = n - 1 /\ \A i \in 1..(n - 1) : line[i] = text[at + i]
  <2>1. at + n - 1 \in Nat /\ at <= at + n - 1 /\ at + n - 1 <= Len(text)
        /\ (at + n - 1) - at = n - 1
    BY <1>1, <1>2, <1>3
  <2>2. line = SubSeq(text, at + 1, at + n - 1)
    <3>1. line = SubSeq(text, at + 1, LineEnd(text, at) - 1)
      BY Zenon DEF Line
    <3>2. LineEnd(text, at) - 1 = at + n - 1
      <4>1. LineEnd(text, at) = at + n /\ at \in Nat /\ n \in Nat
        BY <1>2, <1>3, <1>5
      <4> HIDE DEF at, n
      <4>2. QED
        BY <4>1
    <3>3. QED
      BY <3>1, <3>2, Zenon
  <2> HIDE DEF line, at, n
  <2>3. /\ Len(SubSeq(text, at + 1, at + n - 1)) = (at + n - 1) - at
        /\ \A i \in 1..((at + n - 1) - at) : SubSeq(text, at + 1, at + n - 1)[i] = text[at + i]
    <3> DEFINE b == at + n - 1
    <3>1. b \in Nat /\ at <= b /\ b <= Len(text) /\ at \in Nat
      BY <2>1, <1>3
    <3> HIDE DEF b
    <3>2. /\ Len(SubSeq(text, at + 1, b)) = b - at
          /\ \A i \in 1..(b - at) : SubSeq(text, at + 1, b)[i] = text[at + i]
      BY <3>1, <1>1, <1>3, Cutout
    <3>3. QED
      BY <3>2 DEF b
  <2>4. QED
    BY <2>1, <2>2, <2>3
<1>8. r \in AnyRow /\ \A f \in Fields : r[f] # <<>>
  BY <1>1
<1>9. ASSUME NEW f \in Fields, NEW i \in 1..(Size(f) + 1)
      PROVE  Append(line, Blank)[Before[f] + i] = IF i <= Len(r[f]) THEN r[f][i] ELSE Blank
  <2>1. /\ Before[f] \in Nat /\ Size(f) \in Nat \ {0} /\ Before[f] + Size(f) + 1 <= n
        /\ Len(r[f]) \in Nat /\ Len(r[f]) <= Size(f)
    BY <1>8, FieldsFit, AnyRowType
  <2>2. text[at + (Before[f] + i)] = Cell(r[f], f, i)
    <3>1. Place(k, f, i) = at + (Before[f] + i)
      <4>1. Place(k, f, i) = at + Before[f] + i
        BY DEF Place
      <4> HIDE DEF at
      <4>2. QED
        BY <4>1, <1>3, <2>1
    <3>2. QED
      BY <3>1, <1>1
  <2>3. \A g \in Fields : g # Len(Width) => Before[g] + Size(g) + 1 <= n - 1
    <3>1. SUFFICES ASSUME NEW g \in Fields, g # Len(Width)
                   PROVE  Before[g] + Size(g) + 1 <= n - 1
      OBVIOUS
    <3>2. Len(Width) \in Fields /\ g < Len(Width)
      BY <3>1, BeforeSteps DEF Fields
    <3>3. Before[g] + Size(g) + 1 <= Before[Len(Width)]
      BY <3>2, FieldsApart
    <3>4. Before[Len(Width)] + Size(Len(Width)) + 1 <= n /\ Size(Len(Width)) \in Nat
          /\ Before[Len(Width)] \in Nat /\ Before[g] \in Nat /\ Size(g) \in Nat
      BY <3>2, FieldsFit, SizeType
    <3>5. QED
      BY <3>3, <3>4, <1>2
  <2>4. CASE Before[f] + i = n
    <3>1. f = Len(Width) /\ i = Size(f) + 1
      <4>1. f = Len(Width)
        BY <2>1, <2>3, <2>4, <1>2
      <4>2. QED
        BY <4>1, <2>1, <2>4
    <3>2. ~ i <= Len(r[f])
      BY <3>1, <2>1
    <3>3. Append(line, Blank)[n] = Blank
      <4> HIDE DEF line, n
      <4>1. QED
        BY <1>2, <1>6, <1>7
    <3>4. QED
      BY <3>2, <3>3, <2>4
  <2>5. CASE Before[f] + i # n
    <3>1. Before[f] + i \in 1..(n - 1)
      BY <2>1, <2>5, <1>2
    <3>2. Append(line, Blank)[Before[f] + i] = text[at + (Before[f] + i)]
      <4> HIDE DEF line, n, at
      <4>1. QED
        BY <3>1, <1>6, <1>7
    <3>3. ~ (f = Len(Width) /\ i = Size(f) + 1)
      <4>1. Before[Len(Width) + 1] = Before[Len(Width)] + Size(Len(Width)) + 1
        BY BeforeSteps DEF Fields
      <4>2. SUFFICES ASSUME f = Len(Width), i = Size(f) + 1 PROVE FALSE
        OBVIOUS
      <4>3. Before[f] + i = n
        BY <4>1, <4>2, <2>1 DEF RecordLength
      <4>4. QED
        BY <4>3, <2>5
    <3>4. QED
      BY <3>2, <3>3, <2>2 DEF Cell
  <2>6. QED
    BY <2>4, <2>5
<1> HIDE DEF line, r
<1>10. Row(line) = r
  <2>1. \A f \in Fields : Stands(Append(line, Blank), Before[f], Size(f) + 1, r[f])
    BY <1>9 DEF Stands
  <2>2. Len(line) = RecordLength - 1
    BY <1>7
  <2>3. QED
    BY <1>6, <1>8, <2>1, <2>2, WordsAre
<1>11. QED
  BY <1>10 DEF line, r, at, n

\* No field is empty.
NoneEmpty(rs) == \A k \in 1..Len(rs) : \A f \in Fields : rs[k][f] # <<>>

\* What is read of a file are the rows that it has.
LEMMA AllRowsAre ==
    ASSUME NEW text, NEW rs, Holds(text, rs), Records(text), NoneEmpty(rs)
    PROVE  AllRows(text) = rs
<1> DEFINE n == RecordLength
           c == Len(rs)
           N == Len(text)
           s == [i \in DOMAIN text |-> i - 1]
           P == {i \in DOMAIN text : i = 1 \/ text[i - 1] = NewLine}
           g == [k \in 1..c |-> (k - 1) * n + 1]
<1>1. /\ text \in Seq(Symbol) /\ rs \in Seq(AnyRow) /\ N = c * n
  BY DEF Holds
<1>2. c \in Nat /\ n \in Nat \ {0} /\ N \in Nat /\ DOMAIN text = 1..N
  BY <1>1, FieldsFit
<1>3. s \in Seq(Nat) /\ Len(s) = N /\ \A i \in 1..N : s[i] = i - 1
  <2> HIDE DEF N
  <2>1. s \in [1..N -> Nat]
    BY <1>2
  <2>2. QED
    BY <1>2, <2>1
<1>4. \A k \in 1..c : /\ (k - 1) * n \in Nat /\ (k - 1) * n + n = k * n
                      /\ k * n <= N
                      /\ \A j \in 1..c : j < k => j * n <= (k - 1) * n
                      /\ k * n \in Nat
  BY <1>1, <1>2, RecordPlaces
<1> HIDE DEF n, c, N
<1>5. g \in [1..c -> 1..N] /\ \A j, k \in 1..c : j < k => g[j] < g[k]
  <2>1. \A k \in 1..c : (k - 1) * n + 1 \in 1..N
    BY <1>2, <1>4
  <2>2. \A j, k \in 1..c : j < k => (j - 1) * n + 1 < (k - 1) * n + 1
    BY <1>2, <1>4
  <2>3. QED
    BY <2>1, <2>2
<1>6. ASSUME NEW i \in 1..N PROVE i \in P <=> \E k \in 1..c : i = g[k]
  <2>1. i \in P <=> (i - 1) % n = 0
    <3>1. CASE i = 1
      <4>1. 0 % n = 0
        BY <1>2
      <4>2. QED
        BY <3>1, <4>1, <1>2
    <3>2. CASE i # 1
      <4>1. i - 1 \in 1..N
        BY <3>2, <1>2
      <4>2. text[i - 1] = NewLine <=> (i - 1) % n = 0
        BY <4>1, <1>2 DEF Records, n
      <4>3. QED
        BY <3>2, <4>2, <1>2
    <3>3. QED
      BY <3>1, <3>2
  <2>2. ASSUME NEW k \in 1..c, i = g[k] PROVE (i - 1) % n = 0
    <3>1. i - 1 = (k - 1) * n /\ k - 1 \in Nat /\ 0 \in 0..(n - 1)
      BY <2>2, <1>2, <1>4
    <3>2. QED
      BY <3>1, <1>2, ModOf
  <2>3. ASSUME (i - 1) % n = 0 PROVE \E k \in 1..c : i = g[k]
    <3>1. i - 1 \in Nat
      BY <1>2
    <3>2. PICK q \in Nat : i - 1 = q * n
      BY <2>3, <3>1, <1>2, Multiple
    <3>3. q < c
      <4>1. SUFFICES ASSUME q >= c PROVE FALSE
        BY <1>2
      <4>2. PICK d \in Nat : q = c + d
        BY <4>1, <1>2
      <4>3. q * n = c * n + d * n /\ d * n \in Nat /\ c * n \in Nat
        BY <4>2, <1>2
      <4>4. QED
        BY <4>3, <3>2, <1>1, <1>2 DEF n, c, N
    <3>4. q + 1 \in 1..c /\ (q + 1) - 1 = q
      BY <3>3, <1>2
    <3>5. i = g[q + 1]
      BY <3>1, <3>2, <3>4, <1>2
    <3>6. QED
      BY <3>4, <3>5
  <2>4. QED
    BY <2>1, <2>2, <2>3
<1> HIDE DEF s, P, g
<1>7. Pick(s, P) = [k \in 1..c |-> s[g[k]]]
  <2>1. g \in [1..c -> 1..Len(s)]
    BY <1>3, <1>5
  <2>2. \A i \in 1..Len(s) : i \in P <=> \E k \in 1..c : i = g[k]
    BY <1>3, <1>6
  <2>3. s \in Seq(Nat) /\ c \in Nat /\ \A j, k \in 1..c : j < k => g[j] < g[k]
    BY <1>2, <1>3, <1>5
  <2>4. EachPlace(P, s, g, c)
    BY <2>1, <2>2, <2>3 DEF EachPlace
  <2>5. QED
    BY <1>2, <2>3, <2>4, PickEach
<1>8. \A k \in 1..c : s[g[k]] = (k - 1) * n
  <2>1. SUFFICES ASSUME NEW k \in 1..c PROVE s[g[k]] = (k - 1) * n
    OBVIOUS
  <2>2. g[k] \in 1..N /\ g[k] = (k - 1) * n + 1 /\ (k - 1) * n \in Nat
    BY <1>4, <1>5 DEF g
  <2>3. QED
    BY <2>2, <1>3
<1>9. LineStarts(text) = [k \in 1..c |-> (k - 1) * n]
  <2>1. LineStarts(text) = Pick(s, P)
    BY DEF LineStarts, s, P
  <2>2. QED
    BY <2>1, <1>7, <1>8
<1>10. AllRows(text) = [k \in 1..c |-> Row(Line(text, (k - 1) * n))]
  BY <1>9 DEF AllRows
<1>11. \A k \in 1..c : Row(Line(text, (k - 1) * n)) = rs[k]
  BY RowRead DEF c, n, NoneEmpty
<1>12. rs = [k \in 1..c |-> rs[k]]
  BY <1>1 DEF c
<1>13. QED
  BY <1>10, <1>11, <1>12

-----------------------------------------------------------------------------
(* Writing rows *)

\* The row of a list of values.
RowOf(values) == [f \in Fields |-> values[f].word]

\* What can be inserted.
Insertable(values) ==
    /\ values \in Seq(Literal) /\ Len(values) = Len(Width)
    /\ \A f \in Fields : /\ Len(values[f].word) <= Size(f)
                         /\ IsNum(f) => values[f].num

\* Every field of a record has the value it was made of.
LEMMA RecordHolds ==
    ASSUME NEW values, Insertable(values)
    PROVE  Holds(Record(values), <<RowOf(values)>>)
<1> DEFINE seqs == [f \in Fields |-> Append(Padded(values[f].word, f), Blank)]
           line == FlattenSeq(seqs)
           n == RecordLength
           r == RowOf(values)
           record == Record(values)
<1>1. /\ values \in Seq(Literal) /\ Len(values) = Len(Width)
      /\ \A f \in Fields : Len(values[f].word) <= Size(f)
      /\ \A f \in Fields : IsNum(f) => values[f].num
  BY DEF Insertable
<1>2. /\ record \in Seq(Symbol) /\ Len(record) = n /\ n \in Nat \ {0}
  BY <1>1, RecordType, FieldsFit
<1>3. \A f \in Fields : values[f] \in Literal
  BY <1>1, BeforeSteps DEF Fields
<1>4. r \in AnyRow
  <2>1. \A f \in Fields : values[f].word \in Seq(Printed)
    BY <1>3 DEF Literal, Printed
  <2>2. \A f \in Fields : IsNum(f) => IsNumeral(values[f].word)
    BY <1>1, <1>3 DEF Literal
  <2>3. QED
    BY <1>1, <2>1, <2>2 DEF AnyRow, RowOf
<1>5. ASSUME NEW f \in Fields
      PROVE  /\ seqs[f] \in Seq(Character) /\ Len(seqs[f]) = Size(f) + 1
             /\ \A i \in 1..(Size(f) + 1) :
                   seqs[f][i] = IF i <= Len(r[f]) THEN r[f][i] ELSE Blank
  <2> DEFINE w == r[f]
             field == Padded(w, f)
  <2>1. /\ w \in Seq(Character) /\ Len(w) \in Nat /\ Len(w) <= Size(f) /\ Size(f) \in Nat
    BY <1>4, AnyRowType
  <2>2. /\ field \in Seq(Character) /\ Len(field) = Size(f)
        /\ \A i \in 1..Size(f) : field[i] = IF i <= Len(w) THEN w[i] ELSE Blank
    BY <2>1, PaddedType
  <2>3. seqs[f] = Append(field, Blank)
    BY DEF RowOf
  <2> HIDE DEF w, field
  <2>4. Append(field, Blank) \in Seq(Character) /\ Len(Append(field, Blank)) = Size(f) + 1
        /\ \A i \in 1..Size(f) : Append(field, Blank)[i] = field[i]
        /\ Append(field, Blank)[Size(f) + 1] = Blank
    BY <2>1, <2>2, SymbolTypes
  <2>5. \A i \in 1..(Size(f) + 1) :
            Append(field, Blank)[i] = IF i <= Len(w) THEN w[i] ELSE Blank
    BY <2>1, <2>2, <2>4
  <2>6. QED
    BY <2>3, <2>4, <2>5 DEF w
<1>6. /\ line \in Seq(Character) /\ Len(line) = n
      /\ \A f \in Fields : \A i \in 1..(Size(f) + 1) : line[Before[f] + i] = seqs[f][i]
  <2>1. seqs \in [Fields -> Seq(Character)]
    BY <1>5
  <2>2. \A f \in Fields : Len(seqs[f]) = Size(f) + 1
    BY <1>5
  <2> HIDE DEF seqs
  <2>3. QED
    BY <2>1, <2>2, LineIs
<1>7. record = [line EXCEPT ![Len(line)] = NewLine]
  BY DEF Record
<1> HIDE DEF line, seqs, record, r
<1>8. record[n] = NewLine /\ \A p \in 1..(n - 1) : record[p] = line[p]
  BY <1>2, <1>6, <1>7
<1>9. ASSUME NEW f \in Fields, NEW i \in 1..(Size(f) + 1)
      PROVE  record[Place(1, f, i)] = Cell(r[f], f, i)
  <2>1. /\ Before[f] \in Nat /\ Size(f) \in Nat \ {0} /\ Before[f] + Size(f) + 1 <= n
        /\ Len(r[f]) \in Nat /\ Len(r[f]) <= Size(f)
    BY <1>4, FieldsFit, AnyRowType
  <2>2. Place(1, f, i) = Before[f] + i
    <3>1. (1 - 1) * n = 0
      BY <1>2
    <3>2. QED
      BY <3>1, <2>1 DEF Place
  <2>3. Before[f] + i = n <=> (f = Len(Width) /\ i = Size(f) + 1)
    <3>1. ASSUME f = Len(Width), i = Size(f) + 1 PROVE Before[f] + i = n
      <4>1. Before[Len(Width) + 1] = Before[Len(Width)] + Size(Len(Width)) + 1
        BY BeforeSteps DEF Fields
      <4>2. QED
        BY <3>1, <4>1, <2>1 DEF RecordLength
    <3>2. ASSUME Before[f] + i = n PROVE f = Len(Width) /\ i = Size(f) + 1
      <4>1. i = Size(f) + 1
        BY <3>2, <2>1, <1>2
      <4>2. f = Len(Width)
        <5>1. SUFFICES ASSUME f # Len(Width) PROVE FALSE
          OBVIOUS
        <5>2. Len(Width) \in Fields /\ f < Len(Width)
          BY <5>1, BeforeSteps DEF Fields
        <5>3. Before[f] + Size(f) + 1 <= Before[Len(Width)]
          BY <5>2, FieldsApart
        <5>4. Before[Len(Width)] + Size(Len(Width)) + 1 <= n
              /\ Size(Len(Width)) \in Nat /\ Before[Len(Width)] \in Nat
          BY <5>2, FieldsFit, SizeType
        <5>5. QED
          BY <5>3, <5>4, <3>2, <2>1, <1>2
      <4>3. QED
        BY <4>1, <4>2
    <3>3. QED
      BY <3>1, <3>2
  <2>4. CASE Before[f] + i = n
    <3>1. ~ i <= Len(r[f])
      BY <2>1, <2>3, <2>4
    <3>2. QED
      BY <3>1, <2>2, <2>3, <2>4, <1>8 DEF Cell
  <2>5. CASE Before[f] + i # n
    <3>1. Before[f] + i \in 1..(n - 1)
      BY <2>1, <2>5, <1>2
    <3>2. record[Before[f] + i] = seqs[f][i]
      BY <3>1, <1>6, <1>8
    <3>3. seqs[f][i] = IF i <= Len(r[f]) THEN r[f][i] ELSE Blank
      BY <1>5
    <3>4. QED
      BY <3>2, <3>3, <2>2, <2>3, <2>5 DEF Cell
  <2>6. QED
    BY <2>4, <2>5
<1> DEFINE rs == <<r>>
<1>10. rs \in Seq(AnyRow) /\ Len(rs) = 1 /\ rs[1] = r
  BY <1>4
<1> HIDE DEF rs
<1>11. Len(record) = Len(rs) * n
  BY <1>2, <1>10
<1>12. \A k \in 1..Len(rs) : k = 1
  BY <1>10
<1>13. Holds(record, rs)
  BY <1>2, <1>9, <1>10, <1>11, <1>12 DEF Holds, n
<1>14. QED
  BY <1>13 DEF rs, record, r

\* An empty file has no rows.
LEMMA EmptyHolds == Holds(<<>>, <<>>)
<1>1. RecordLength \in Nat
  BY FieldsFit
<1>2. Len(<<>>) = 0 /\ 0 * RecordLength = 0 /\ 1..0 = {}
  BY <1>1
<1>3. QED
  BY <1>2, EmptySeq DEF Holds

\* Rows behind rows.
LEMMA HoldsConcat ==
    ASSUME NEW s, NEW rs, NEW t, NEW ss, Holds(s, rs), Holds(t, ss)
    PROVE  Holds(s \o t, rs \o ss)
<1> DEFINE n == RecordLength
           c == Len(rs)
           d == Len(ss)
           st == s \o t
           rss == rs \o ss
<1>1. /\ s \in Seq(Symbol) /\ rs \in Seq(AnyRow) /\ Len(s) = c * n
      /\ t \in Seq(Symbol) /\ ss \in Seq(AnyRow) /\ Len(t) = d * n
      /\ \A k \in 1..c, f \in Fields : \A i \in 1..(Size(f) + 1) :
            s[Place(k, f, i)] = Cell(rs[k][f], f, i)
      /\ \A k \in 1..d, f \in Fields : \A i \in 1..(Size(f) + 1) :
            t[Place(k, f, i)] = Cell(ss[k][f], f, i)
  BY DEF Holds
<1>2. n \in Nat /\ c \in Nat /\ d \in Nat
  BY <1>1, FieldsFit
<1>3. /\ st \in Seq(Symbol) /\ Len(st) = Len(s) + Len(t)
      /\ \A i \in 1..Len(s) : st[i] = s[i]
      /\ \A i \in 1..Len(t) : st[Len(s) + i] = t[i]
  <2>1. st \in Seq(Symbol) /\ IsJoined(st, s, t)
    BY <1>1, Joined, Zenon
  <2>2. QED
    BY <2>1, Zenon DEF IsJoined
<1>4. /\ rss \in Seq(AnyRow) /\ Len(rss) = c + d
      /\ \A k \in 1..c : rss[k] = rs[k]
      /\ \A k \in 1..d : rss[c + k] = ss[k]
  BY <1>1
<1> HIDE DEF n, c, d, st, rss
<1>5. Len(st) = Len(rss) * n
  <2>1. (c + d) * n = c * n + d * n
    BY <1>2
  <2>2. QED
    BY <2>1, <1>1, <1>3, <1>4
<1>6. ASSUME NEW k \in 1..(c + d), NEW f \in Fields, NEW i \in 1..(Size(f) + 1)
      PROVE  st[Place(k, f, i)] = Cell(rss[k][f], f, i)
  <2>1. CASE k <= c
    <3>1. k \in 1..c
      BY <2>1, <1>2
    <3>2. Place(k, f, i) \in 1..Len(s)
      BY <3>1, <1>1, <1>2, PlaceIn DEF n
    <3>3. QED
      BY <3>1, <3>2, <1>1, <1>3, <1>4
  <2>2. CASE k > c
    <3> DEFINE l == k - c
    <3>1. l \in 1..d /\ k = c + l
      BY <2>2, <1>2
    <3> HIDE DEF l
    <3>2. Place(l, f, i) \in 1..Len(t)
      BY <3>1, <1>1, <1>2, PlaceIn DEF n
    <3>3. Place(k, f, i) = Len(s) + Place(l, f, i)
      <4>1. (k - 1) * n = c * n + (l - 1) * n /\ c * n \in Nat /\ (l - 1) * n \in Int
        BY <3>1, <1>2
      <4>2. Before[f] \in Nat
        BY FieldsFit
      <4>3. QED
        BY <4>1, <4>2, <1>1 DEF Place, n
    <3>4. st[Place(k, f, i)] = t[Place(l, f, i)]
      BY <3>2, <3>3, <1>3
    <3>5. rss[k] = ss[l]
      BY <3>1, <1>4
    <3>6. t[Place(l, f, i)] = Cell(ss[l][f], f, i)
      BY <3>1, <1>1
    <3>7. QED
      BY <3>4, <3>5, <3>6
  <2>3. QED
    BY <2>1, <2>2, <1>2
<1>7. Holds(st, rss)
  BY <1>3, <1>4, <1>5, <1>6 DEF Holds, n
<1>8. QED
  BY <1>7 DEF st, rss

\* The record of a row.
LEMMA HoldsRow ==
    ASSUME NEW text, NEW rs, Holds(text, rs), NEW k \in 1..Len(rs), NEW at,
           at = (k - 1) * RecordLength
    PROVE  Holds(SubSeq(text, at + 1, at + RecordLength), <<rs[k]>>)
<1> DEFINE n == RecordLength
           c == Len(rs)
           b == at + n
           s == SubSeq(text, at + 1, b)
           ss == <<rs[k]>>
<1>1. /\ text \in Seq(Symbol) /\ rs \in Seq(AnyRow) /\ Len(text) = c * n
      /\ \A l \in 1..c, f \in Fields : \A i \in 1..(Size(f) + 1) :
            text[Place(l, f, i)] = Cell(rs[l][f], f, i)
  BY DEF Holds
<1>2. n \in Nat \ {0} /\ c \in Nat
  BY <1>1, FieldsFit
<1>3. at \in Nat /\ b \in Nat /\ at <= b /\ b <= Len(text) /\ b - at = n
  BY <1>1, <1>2, RecordPlaces
<1> HIDE DEF b, n, c
<1>4. /\ s \in Seq(Symbol) /\ Len(s) = n
      /\ \A p \in 1..n : s[p] = text[at + p]
  BY <1>1, <1>3, Cutout
<1>5. ss \in Seq(AnyRow) /\ Len(ss) = 1 /\ ss[1] = rs[k]
  BY <1>1 DEF c
<1> HIDE DEF s, ss
<1>6. ASSUME NEW f \in Fields, NEW i \in 1..(Size(f) + 1)
      PROVE  s[Place(1, f, i)] = Cell(rs[k][f], f, i)
  <2>1. Before[f] \in Nat /\ Size(f) \in Nat /\ Before[f] + Size(f) + 1 <= n
    BY FieldsFit, SizeType DEF n
  <2>2. (1 - 1) * n = 0
    BY <1>2
  <2>3. Place(1, f, i) = Before[f] + i
    BY <2>1, <2>2 DEF Place, n
  <2>7. Place(1, f, i) \in 1..n
    BY <2>1, <2>3, <1>2
  <2>4. Place(k, f, i) = at + (Before[f] + i)
    <3>1. Place(k, f, i) = at + Before[f] + i
      BY DEF Place
    <3>2. QED
      BY <3>1, <2>1, <1>3
  <2>5. text[Place(k, f, i)] = Cell(rs[k][f], f, i)
    BY <1>1 DEF c
  <2>6. QED
    BY <2>3, <2>4, <2>5, <2>7, <1>4
<1>7. Len(s) = Len(ss) * n /\ \A l \in 1..Len(ss) : l = 1
  BY <1>2, <1>4, <1>5
<1>8. Holds(s, ss)
  BY <1>4, <1>5, <1>6, <1>7 DEF Holds, n
<1>9. QED
  BY <1>8 DEF s, ss, b, n

\* A word that fits is written over a field, and nothing else changes.
LEMMA HoldsOverwritten ==
    ASSUME NEW rs, NEW ss, Holds(file, rs), Records(file), NEW k \in 1..Len(rs),
           NEW f \in Fields, NEW w \in Seq(Printed), Len(w) <= Size(f),
           ss \in Seq(AnyRow), Len(ss) = Len(rs), ss[k] = [rs[k] EXCEPT ![f] = w],
           \A l \in 1..Len(rs) : l # k => ss[l] = rs[l],
           NEW at, at = (k - 1) * RecordLength
    PROVE  Holds(Overwritten(at + Before[f], Padded(w, f)), ss)
<1> DEFINE n == RecordLength
           c == Len(rs)
           s == Padded(w, f)
           from == at + Before[f]
           new == Overwritten(from, s)
<1>1. /\ file \in Seq(Symbol) /\ rs \in Seq(AnyRow) /\ Len(file) = c * n
      /\ \A l \in 1..c, g \in Fields : \A i \in 1..(Size(g) + 1) :
            file[Place(l, g, i)] = Cell(rs[l][g], g, i)
  BY DEF Holds
<1>2. n \in Nat \ {0} /\ c \in Nat /\ k - 1 \in Nat
  BY <1>1, FieldsFit
<1>3. at \in Nat /\ at < Len(file)
  BY <1>1, <1>2, RecordPlaces
<1>4. at % n = 0
  <2>1. 0 \in 0..(n - 1)
    BY <1>2
  <2> HIDE DEF n
  <2>2. QED
    BY <2>1, <1>2, ModOf DEF n
<1>5. /\ w \in Seq(Character) /\ Len(w) \in Nat /\ Size(f) \in Nat \ {0} /\ Before[f] \in Nat
  BY DigitTypes, SizeType, FieldsFit
<1>6. s \in Seq(Character) /\ Len(s) = Size(f)
  BY <1>5, PaddedType
<1>7. \A i \in 1..Size(f) : s[i] = IF i <= Len(w) THEN w[i] ELSE Blank
  BY <1>5, PaddedType
<1>8. /\ DOMAIN file = 1..(c * n) /\ Len(file) \in Nat /\ c * n \in Nat
  BY <1>1
<1>9. new = [i \in 1..(c * n) |->
                IF from < i /\ i <= from + Size(f) THEN s[i - from] ELSE file[i]]
  BY <1>6, <1>8 DEF Overwritten
<1>10. \A i \in 1..(c * n) : file[i] \in Symbol
  BY <1>1, <1>8
<1> HIDE DEF n, c, s
<1>11. new \in Seq(Symbol) /\ Len(new) = c * n
  <2>1. from \in Nat
    BY <1>3, <1>5
  <2> HIDE DEF from, new
  <2>2. ASSUME NEW i \in 1..(c * n) PROVE new[i] \in Symbol
    <3>1. CASE from < i /\ i <= from + Size(f)
      <4>1. i - from \in 1..Len(s)
        BY <3>1, <2>1, <1>5, <1>6
      <4>2. s[i - from] \in Character
        BY <4>1, <1>6, ElementOfSeq
      <4>3. new[i] = s[i - from]
        BY <3>1, <1>9
      <4>4. QED
        BY <4>2, <4>3 DEF Symbol
    <3>2. CASE ~ (from < i /\ i <= from + Size(f))
      BY <3>2, <1>9, <1>10
    <3>3. QED
      BY <3>1, <3>2
  <2>3. new \in [1..(c * n) -> Symbol]
    BY <1>9, <2>2
  <2>4. QED
    BY <1>8, <2>3
<1>12. \A i \in 1..(Size(f) + 1) : Place(k, f, i) = from + i
  BY DEF Place
<1> HIDE DEF from
<1>13. from \in Nat
  BY <1>3, <1>5 DEF from
<1> HIDE DEF new
<1>14. ASSUME NEW l \in 1..c, NEW g \in Fields, NEW i \in 1..(Size(g) + 1)
       PROVE  new[Place(l, g, i)] = Cell(ss[l][g], g, i)
  <2> DEFINE p == Place(l, g, i)
  <2>1. p \in 1..(c * n) /\ p \in Nat
    BY <1>2, PlaceIn DEF n
  <2>2. file[p] = Cell(rs[l][g], g, i)
    BY <1>1 DEF c
  <2>3. rs[l] \in AnyRow /\ rs[k] \in AnyRow /\ l \in 1..Len(rs)
    BY <1>1 DEF c
  <2>4. CASE l = k /\ g = f /\ i <= Size(f)
    <3>1. p = from + i /\ i \in 1..Size(f)
      BY <2>4, <1>5, <1>12
    <3>2. new[p] = s[i]
      BY <3>1, <2>1, <1>5, <1>9, <1>13
    <3>3. ss[l][g] = w
      BY <2>3, <2>4 DEF AnyRow
    <3>4. i # Size(f) + 1
      BY <3>1, <1>5
    <3>5. Cell(w, f, i) = s[i]
      BY <3>1, <3>4, <1>7 DEF Cell
    <3>6. QED
      BY <3>2, <3>3, <3>5, <2>4
  <2>5. CASE ~ (l = k /\ g = f /\ i <= Size(f))
    <3>1. ~ (from < p /\ p <= from + Size(f))
      <4>1. SUFFICES ASSUME from < p, p <= from + Size(f) PROVE FALSE
        OBVIOUS
      <4> DEFINE j == p - from
      <4>2. j \in 1..Size(f) /\ j \in 1..(Size(f) + 1) /\ p = from + j
        BY <4>1, <2>1, <1>5, <1>13
      <4> HIDE DEF j
      <4>3. Place(l, g, i) = Place(k, f, j)
        BY <4>2, <1>12
      <4>4. l = k /\ g = f /\ i = j
        <5>1. k \in 1..c
          BY DEF c
        <5> HIDE DEF p
        <5>2. QED
          BY ONLY <5>1, <4>2, <4>3, <1>2, l \in 1..c, g \in Fields, f \in Fields,
                  i \in 1..(Size(g) + 1), PlaceApart
      <4>5. QED
        BY <4>2, <4>4, <2>5
    <3>2. new[p] = file[p]
      BY <3>1, <2>1, <1>9
    <3>3. Cell(ss[l][g], g, i) = Cell(rs[l][g], g, i)
      <4>1. CASE l # k
        BY <4>1, <2>3
      <4>2. CASE l = k /\ g # f
        <5>1. ss[l][g] = rs[l][g]
          BY <4>2, <2>3 DEF AnyRow
        <5>2. QED
          BY <5>1
      <4>3. CASE l = k /\ g = f /\ ~ i <= Size(f)
        <5>1. ss[l][g] = w
          BY <4>3, <2>3 DEF AnyRow
        <5>2. ~ i <= Len(w) /\ ~ i <= Len(rs[l][g])
          <6>1. Len(rs[l][g]) \in Nat /\ Len(rs[l][g]) <= Size(f)
            BY <2>3, <4>3, AnyRowType
          <6>2. QED
            BY <6>1, <4>3, <1>5
        <5>3. QED
          BY <5>1, <5>2 DEF Cell
      <4>4. QED
        BY <4>1, <4>2, <4>3, <2>5
    <3>4. QED
      BY <3>2, <3>3, <2>2
  <2>6. QED
    BY <2>4, <2>5
<1>15. Len(new) = Len(ss) * n
  BY <1>11 DEF c
<1>16. Holds(new, ss)
  BY <1>11, <1>14, <1>15 DEF Holds, n, c
<1>17. QED
  BY <1>16 DEF new, from, s

-----------------------------------------------------------------------------
(* The statements *)

\* A scan stands between two records, and works on a statement that passed the
\* checks before it.
FileInv ==
    /\ file \in Seq(Symbol) /\ Records(file)
    /\ pc \in {"idle", "scan"}
    /\ pc = "scan" =>
          /\ stmt \in Statement
          /\ fin \in Nat /\ fin <= Len(file) /\ fin % RecordLength = 0
          /\ stmt.op = "update" => UpdateLegal(stmt)
          /\ stmt.op = "delete" => kept \in Seq(Symbol) /\ Records(kept)

\* An empty file is one of no records.
LEMMA NoRecords == <<>> \in Seq(Symbol) /\ Records(<<>>) /\ 0 % RecordLength = 0
<1>1. RecordLength \in Nat \ {0}
  BY FieldsFit
<1>2. 0 % RecordLength = 0
  BY <1>1
<1>3. Len(<<>>) = 0 /\ DOMAIN <<>> = {}
  OBVIOUS
<1>4. QED
  BY <1>2, <1>3, EmptySeq DEF Records

\* The table is created empty.
LEMMA InitFile == Init => FileInv
BY NoRecords DEF Init, FileInv

\* In the loop, seek_back_in goes to where the record began, and the record ends
\* where the next begins.
LEMMA ScanStands ==
    ASSUME FileInv, pc = "scan", fin < Len(file)
    PROVE  /\ next = fin + RecordLength /\ back = fin
           /\ LineEnd(file, back) = fin + RecordLength
           /\ next \in Nat /\ next <= Len(file) /\ next % RecordLength = 0
<1>1. RecordLength \in Nat /\ fin \in Nat
  BY FieldsFit DEF FileInv
<1>2. /\ next = fin + RecordLength /\ next <= Len(file)
      /\ next % RecordLength = 0
  BY LineIsRecord DEF FileInv, next
<1>3. back = fin
  BY <1>1, <1>2 DEF back
<1>4. QED
  BY <1>1, <1>2, <1>3 DEF next

\* INSERT writes one record, at the end.
LEMMA InsertFile == ASSUME FileInv, NEW st \in Statement, Insert(st) PROVE FileInv'
<1>1. st.op = "insert" /\ st.values \in Seq(Literal) /\ pc' = "idle"
  BY StatementAssumption DEF Insert, End
<1>2. CASE InsertLegal(st)
  <2>1. file' = file \o Record(st.values)
    BY <1>2 DEF Insert
  <2>2. Len(st.values) = Len(Width) /\ Len(Width) \in Nat
    BY <1>2, BeforeSteps DEF InsertLegal
  <2>3. ASSUME NEW f \in Fields PROVE Len(st.values[f].word) <= Size(f)
    <3>1. st.values[f] \in Literal
      BY <1>1, <2>2 DEF Fields
    <3>2. /\ st.values[f].num <=> IsNum(f)
          /\ st.values[f].num \/ Len(st.values[f].word) <= Width[f]
      BY <1>2 DEF InsertLegal, Fits
    <3>3. st.values[f].num => Len(st.values[f].word) <= NumWidth
      BY <3>1, LiteralFits
    <3>4. QED
      BY <3>2, <3>3 DEF Size
  <2>4. /\ Record(st.values) \in Seq(Symbol)
        /\ Len(Record(st.values)) = RecordLength
        /\ \A i \in 1..RecordLength :
              Record(st.values)[i] = NewLine <=> i = RecordLength
    BY <1>1, <2>2, <2>3, RecordType
  <2>5. Records(Record(st.values))
    BY <2>4, OneIsRecords
  <2>6. file' \in Seq(Symbol) /\ Records(file')
    BY <2>1, <2>4, <2>5, RecordsAfterRecords DEF FileInv
  <2>7. QED
    BY <1>1, <2>6 DEF FileInv
<1>3. CASE ~InsertLegal(st)
  BY <1>1, <1>3 DEF Insert, FileInv
<1>4. QED
  BY <1>2, <1>3

\* A scan starts at the first record.
LEMMA StartFile == ASSUME FileInv, NEW st \in Statement, Start(st) PROVE FileInv'
<1>1. file' = file /\ st.op # "insert"
  BY DEF Start
<1>2. CASE pc' = "idle"
  BY <1>1, <1>2 DEF FileInv
<1>3. CASE pc' # "idle"
  <2>1. /\ pc' = "scan" /\ stmt' = st /\ fin' = 0 /\ kept' = <<>>
        /\ st.op = "update" => UpdateLegal(st)
    BY <1>3 DEF Start, End
  <2>2. 0 <= Len(file)
    BY DEF FileInv
  <2>3. QED
    BY <1>1, <2>1, <2>2, NoRecords DEF FileInv
<1>4. QED
  BY <1>2, <1>3

\* The word that UPDATE writes.
Written == IF stmt.from = 0 THEN stmt.value.word ELSE Value(stmt.from)

\* What is written is made of the characters of a file.
LEMMA WrittenType ==
    ASSUME FileInv, pc = "scan", stmt.op = "update", fin < Len(file)
    PROVE  Written \in Seq(Character) /\ Len(Written) \in Nat
<1>1. stmt.from = 0 => stmt.value.word \in Seq(Printed)
  BY StatementAssumption DEF FileInv, Literal, Printed
<1>2. ASSUME stmt.from # 0 PROVE Value(stmt.from) \in Seq(Character)
  <2>1. stmt.from \in Fields
    BY <1>2 DEF FileInv, UpdateLegal
  <2>2. Line(file, fin) \in Seq(Character)
    BY LineType DEF FileInv
  <2>3. row[stmt.from] \in Seq(Character)
    BY <2>1, <2>2, RowType DEF row
  <2>4. Number(row[stmt.from]) \in Seq(Character)
    BY <2>3, NumberAgain
  <2>5. QED
    BY <2>3, <2>4 DEF Value
<1>3. Written \in Seq(Character)
  BY <1>1, <1>2, DigitTypes DEF Written
<1>4. QED
  BY <1>3

\* What UPDATE writes of a record that is chosen, and where.
LEMMA UpdateWrites ==
    ASSUME FileInv, UpdateRow
    PROVE  /\ UNCHANGED file /\ pc' = "idle"
           \/ /\ UNCHANGED <<pc, stmt, kept>> /\ fin' = fin + RecordLength
              /\ pc = "scan" /\ fin < Len(file)
              /\ file' \in Seq(Symbol) /\ Len(file') = Len(file) /\ Records(file')
              /\ \A i \in DOMAIN file :
                    file'[i] # file[i] =>
                        /\ Before[stmt.field] <= (i - 1) % RecordLength
                        /\ (i - 1) % RecordLength < Before[stmt.field] + Size(stmt.field)
<1> DEFINE word == Written
           f == stmt.field
<1>1. /\ pc = "scan" /\ stmt.op = "update" /\ fin < Len(file)
      /\ IF Len(word) > Size(f)
         THEN UNCHANGED file /\ End(Error(stmt))
         ELSE /\ file' = Overwritten(back + Before[f], Padded(word, f))
              /\ fin' = LineEnd(file, back)
              /\ UNCHANGED <<pc, stmt, kept, answer, table>>
  BY DEF UpdateRow, Scanning, Written
<1>2. /\ stmt \in Statement /\ UpdateLegal(stmt) /\ stmt.value \in Literal
      /\ fin \in Nat /\ fin % RecordLength = 0
      /\ file \in Seq(Symbol) /\ Records(file)
  BY <1>1, StatementAssumption DEF FileInv
<1>3. f \in Fields /\ (stmt.from # 0 => stmt.from \in Fields)
  BY <1>2 DEF UpdateLegal
<1>4. word \in Seq(Character)
  BY <1>1, <1>2, WrittenType DEF FileInv
<1> HIDE DEF word
<1>5. CASE Len(word) > Size(f)
  BY <1>1, <1>5 DEF End
<1>6. CASE ~(Len(word) > Size(f))
  <2>1. back = fin /\ LineEnd(file, back) = fin + RecordLength
    BY <1>1, ScanStands
  <2>2. Len(word) <= Size(f)
    BY <1>3, <1>4, <1>6, SizeType
  <2>3. Padded(word, f) \in Seq(Character) /\ Len(Padded(word, f)) = Size(f)
    BY <1>3, <1>4, <2>2, PaddedType
  <2>4. file' = Overwritten(fin + Before[f], Padded(word, f))
    BY <1>1, <1>6, <2>1
  <2>5. /\ file' \in Seq(Symbol) /\ Len(file') = Len(file) /\ Records(file')
        /\ \A i \in DOMAIN file :
              file'[i] # file[i] => /\ Before[f] <= (i - 1) % RecordLength
                                    /\ (i - 1) % RecordLength < Before[f] + Size(f)
    BY <1>1, <1>2, <1>3, <2>3, <2>4, FieldOverwritten
  <2>6. fin' = fin + RecordLength /\ UNCHANGED <<pc, stmt, kept>>
    BY <1>1, <1>6, <2>1
  <2>7. QED
    BY <1>1, <2>5, <2>6
<1>7. QED
  BY <1>5, <1>6

\* UPDATE leaves the records what they are.
LEMMA UpdateRowFile == ASSUME FileInv, UpdateRow PROVE FileInv'
<1>1. CASE UNCHANGED file /\ pc' = "idle"
  BY <1>1 DEF FileInv
<1>2. CASE /\ UNCHANGED <<pc, stmt, kept>> /\ fin' = fin + RecordLength
           /\ pc = "scan" /\ fin < Len(file)
           /\ file' \in Seq(Symbol) /\ Len(file') = Len(file) /\ Records(file')
  <2>1. fin' \in Nat /\ fin' <= Len(file') /\ fin' % RecordLength = 0
    BY <1>2, ScanStands
  <2>2. QED
    BY <1>2, <2>1 DEF FileInv
<1>3. QED
  BY <1>1, <1>2, UpdateWrites

\* DELETE keeps whole records.
LEMMA DeleteRowFile == ASSUME FileInv, DeleteRow PROVE FileInv'
<1>1. /\ pc = "scan" /\ stmt.op = "delete" /\ fin < Len(file)
      /\ UNCHANGED <<file, pc, stmt>>
      /\ kept' = IF Chosen THEN kept
                 ELSE kept \o SubSeq(file, back + 1, LineEnd(file, back))
      /\ fin' = IF Chosen THEN next ELSE LineEnd(file, back)
  BY DEF DeleteRow, Scanning
<1>2. /\ next = fin + RecordLength /\ back = fin
      /\ LineEnd(file, back) = fin + RecordLength
      /\ next \in Nat /\ next <= Len(file) /\ next % RecordLength = 0
  BY <1>1, ScanStands
<1>3. /\ file \in Seq(Symbol) /\ Records(file) /\ fin \in Nat
      /\ fin % RecordLength = 0 /\ kept \in Seq(Symbol) /\ Records(kept)
  BY <1>1 DEF FileInv
<1> DEFINE s == SubSeq(file, fin + 1, fin + RecordLength)
<1>4. s \in Seq(Symbol) /\ Records(s)
  BY <1>1, <1>3, RecordIsCopied
<1> HIDE DEF s
<1>5. kept \o s \in Seq(Symbol) /\ Records(kept \o s)
  BY <1>3, <1>4, RecordsAfterRecords
<1>6. kept' \in Seq(Symbol) /\ Records(kept')
  BY <1>1, <1>2, <1>3, <1>5 DEF s
<1>7. fin' = next
  BY <1>1, <1>2
<1>8. QED
  BY <1>1, <1>2, <1>3, <1>6, <1>7 DEF FileInv

\* The other steps of the loop, and its end.
LEMMA LoopFile ==
    ASSUME FileInv,
           Send \/ Elsewhere \/ Throw \/ RefuseSet \/ Skip \/ SelectRow \/ Finish
    PROVE  FileInv'
<1>1. CASE Send \/ Elsewhere
  BY <1>1 DEF Send, Elsewhere, FileInv
<1>2. CASE Throw \/ RefuseSet
  BY <1>2 DEF Throw, RefuseSet, End, FileInv
<1>3. CASE Skip
  <2>1. /\ pc = "scan" /\ fin < Len(file) /\ fin' = next
        /\ UNCHANGED <<file, pc, stmt, kept>>
    BY <1>3 DEF Skip, Scanning
  <2>2. next \in Nat /\ next <= Len(file) /\ next % RecordLength = 0
    BY <2>1, ScanStands
  <2>3. QED
    BY <2>1, <2>2 DEF FileInv
<1>4. CASE SelectRow
  <2>1. /\ pc = "scan" /\ fin < Len(file) /\ fin' = next /\ stmt.op = "select"
        /\ UNCHANGED <<file, pc, stmt>>
    BY <1>4 DEF SelectRow, Scanning
  <2>2. next \in Nat /\ next <= Len(file) /\ next % RecordLength = 0
    BY <2>1, ScanStands
  <2>3. QED
    BY <2>1, <2>2 DEF FileInv
<1>5. CASE Finish
  <2>1. /\ pc = "scan" /\ pc' = "idle"
        /\ file' = IF stmt.op = "delete" THEN kept ELSE file
    BY <1>5 DEF Finish, End
  <2>2. QED
    BY <2>1 DEF FileInv
<1>6. QED
  BY <1>1, <1>2, <1>3, <1>4, <1>5

\* Every step keeps the file made of records.
LEMMA NextFile == FileInv /\ [Next]_vars => FileInv'
<1> SUFFICES ASSUME FileInv, [Next]_vars PROVE FileInv'
  OBVIOUS
<1>1. CASE UNCHANGED vars
  BY <1>1 DEF vars, FileInv
<1>2. CASE \E st \in Statement : Insert(st) \/ Start(st)
  BY <1>2, InsertFile, StartFile
<1>3. CASE Send \/ Elsewhere \/ Throw \/ RefuseSet \/ Skip \/ SelectRow \/ Finish
  BY <1>3, LoopFile
<1>4. CASE UpdateRow \/ DeleteRow
  BY <1>4, UpdateRowFile, DeleteRowFile
<1>5. QED
  BY <1>1, <1>2, <1>3, <1>4 DEF Next

\* So it always is.
LEMMA FileInvariant == Spec => []FileInv
BY InitFile, NextFile, PTL DEF Spec

\* Whatever the statements, the file and what DELETE keeps are made of whole
\* records, and a scan never stands inside one: for any widths and any rows.
THEOREM StaysAligned == Spec => []Aligned
<1>1. FileInv => Aligned
  BY DEF FileInv, Aligned
<1>2. QED
  BY <1>1, FileInvariant, PTL

\* An UPDATE writes nothing but the field it sets, in any record.
THEOREM OnlyTheField == Spec => WritesInField
<1> DEFINE OfTheField ==
        file' # file /\ pc = "scan" /\ stmt.op = "update" =>
            /\ Len(file') = Len(file)
            /\ \A i \in DOMAIN file :
                  file'[i] # file[i] =>
                      LET p == (i - 1) % RecordLength
                      IN  /\ Before[stmt.field] <= p
                          /\ p < Before[stmt.field] + Size(stmt.field)
<1>1. FileInv /\ [Next]_vars => [OfTheField]_vars
  <2> SUFFICES ASSUME FileInv, Next, file' # file, pc = "scan", stmt.op = "update"
               PROVE  OfTheField
    BY DEF vars
  <2>1. UpdateRow
    BY DEF Next, Insert, Start, Ready, Send, Elsewhere, Throw, RefuseSet, Skip,
           SelectRow, DeleteRow, Finish, Scanning
  <2>2. QED
    BY <2>1, UpdateWrites
<1>2. QED
  BY <1>1, FileInvariant, PTL DEF Spec, WritesInField

-----------------------------------------------------------------------------
(* The table in the file *)

\* The rows that meet a condition.
MetIn(rs, cond) == {k \in DOMAIN rs : Rows!Meets(rs[k], cond)}

\* What a SELECT answers with for rows.
Projections(rs, fields) == [k \in DOMAIN rs |-> Rows!Projected(rs[k], fields)]

\* The table when an UPDATE has done the first k rows.
UpdatedTo(rs, st, k) ==
    [i \in DOMAIN rs |-> IF i <= k THEN Rows!Updated(rs[i], st) ELSE rs[i]]

\* A scan has done the first k rows of the table.
Scanned(k) ==
    /\ fin = k * RecordLength
    /\ stmt.op = "select" =>
          /\ Stored(file) = table
          /\ NamesOnce(stmt) =>
                kept = Projections(Picked(table, MetIn(table, stmt.cond))[k], stmt.fields)
    /\ stmt.op = "update" => Stored(file) = UpdatedTo(table, stmt, k)
    /\ stmt.op = "delete" =>
          /\ Stored(file) = table
          /\ Stored(kept) = Picked(table, DOMAIN table \ MetIn(table, stmt.cond))[k]

\* The statement compares a field with a number.
Compares == stmt.cond.field # 0 /\ stmt.cond.value.num

\* A number in the statement is refused for errno before anything has been changed:
\* one to compare with at the first record, where rows are read right; one to set
\* at the first record that is chosen.
ErangeInv ==
    /\ erange /\ fin # 0 /\ NoneEmpty(table) => ~Compares
    /\ stmt.op = "update" /\ SetRefused => Stored(file) = table

\* The file has rows, whatever was read of it; a scan that does not misread has
\* done of the table what it has read.
TableInv ==
    /\ FileInv
    /\ Holds(file, Stored(file))
    /\ pc = "idle" => table = Stored(file)
    /\ pc = "scan" =>
          /\ answer = NoAnswer
          /\ stmt.op \in {"select", "update", "delete"}
          /\ stmt.op = "select" => SelectLegal(stmt)
          /\ fin = 0 => Stored(file) = table /\ kept = <<>>
          /\ fin # 0 => ~CondWrong
          /\ ErangeInv
          /\ stmt.op = "delete" => Holds(kept, Stored(kept))
          /\ table \in Seq(AnyRow)
          /\ NoneEmpty(table) => \E k \in 0..Len(table) : Scanned(k)

\* Rows that a file has.
LEMMA HoldsStored ==
    ASSUME NEW text, NEW rs, Holds(text, rs)
    PROVE  Stored(text) = rs /\ Holds(text, Stored(text))
<1>1. Stored(text) = rs
  BY StoredIs
<1>2. QED
  BY <1>1

\* A scan that is not over stands before a row.
LEMMA ScanRow ==
    ASSUME TableInv, pc = "scan", fin < Len(file)
    PROVE  /\ Stored(file) \in Seq(AnyRow)
           /\ \E k \in 1..Len(Stored(file)) : fin = (k - 1) * RecordLength
<1> DEFINE n == RecordLength
           c == Len(Stored(file))
<1>1. /\ Stored(file) \in Seq(AnyRow) /\ Len(file) = c * n
      /\ fin \in Nat /\ fin % n = 0
  BY DEF TableInv, FileInv, Holds
<1>2. n \in Nat \ {0} /\ c \in Nat
  BY <1>1, FieldsFit
<1> HIDE DEF n, c
<1>3. PICK j \in Nat : fin = j * n
  BY <1>1, <1>2, Multiple
<1>4. j < c
  BY <1>1, <1>2, <1>3, FewerRecords
<1>5. j + 1 \in 1..c /\ (j + 1) - 1 = j
  BY <1>2, <1>4
<1>6. QED
  BY <1>1, <1>3, <1>5 DEF n, c

\* Where it does not misread, it reads the row and its values.
LEMMA ScanReads ==
    ASSUME TableInv, pc = "scan", NEW k \in 1..Len(Stored(file)),
           fin = (k - 1) * RecordLength,
           \A f \in Fields : Stored(file)[k][f] # <<>>
    PROVE  /\ row = Stored(file)[k]
           /\ \A f \in Fields : Value(f) = Stored(file)[k][f]
           /\ \A f \in Fields : IsNum(f) => ~TooBig(row[f])
           /\ ~CondThrows => (Chosen <=> Rows!Meets(Stored(file)[k], stmt.cond))
<1> DEFINE r == Stored(file)[k]
<1>1. Holds(file, Stored(file)) /\ Records(file) /\ Stored(file) \in Seq(AnyRow)
  BY DEF TableInv, FileInv, Holds
<1>2. row = r
  BY <1>1, RowRead DEF row
<1>3. r \in AnyRow
  BY <1>1
<1> HIDE DEF r
<1>4. ASSUME NEW f \in Fields PROVE Value(f) = r[f]
  <2>1. IsNum(f) => Number(r[f]) = r[f]
    BY <1>3 DEF AnyRow, IsNumeral
  <2>2. QED
    BY <2>1, <1>2 DEF Value
<1>5. ASSUME ~CondThrows PROVE Chosen <=> Rows!Meets(r, stmt.cond)
  <2>1. stmt.cond.field = 0 \/ stmt.cond.field \in Fields
    BY <1>5 DEF CondThrows, CondWrong
  <2>2. QED
    BY <2>1, <1>4 DEF Chosen, Rows!Meets
<1>6. ASSUME NEW f \in Fields, IsNum(f) PROVE ~TooBig(row[f])
  BY <1>2, <1>3, <1>6, NotTooBig DEF AnyRow
<1>7. QED
  BY <1>2, <1>4, <1>5, <1>6 DEF r

\* Rows of a table without empty texts.
LEMMA NoneEmptyIs ==
    ASSUME NEW rs \in Seq(AnyRow), NoTextIsEmpty(rs)
    PROVE  NoneEmpty(rs)
<1>1. SUFFICES ASSUME NEW k \in 1..Len(rs), NEW f \in Fields, rs[k][f] = <<>> PROVE FALSE
  BY DEF NoneEmpty
<1>2. k \in DOMAIN rs /\ f \in DOMAIN rs[k]
  <2>1. rs[k] \in AnyRow
    OBVIOUS
  <2>2. QED
    BY <2>1 DEF AnyRow
<1>3. rs[k][f] \in Range(rs[k])
  BY <1>2 DEF Range
<1>4. QED
  BY <1>1, <1>2, <1>3 DEF NoTextIsEmpty

-----------------------------------------------------------------------------
(* The steps of a scan *)

\* A table that is created has no rows.
LEMMA InitTable == Init => TableInv
<1> SUFFICES ASSUME Init PROVE TableInv
  OBVIOUS
<1>1. FileInv /\ file = <<>> /\ pc = "idle" /\ table = <<>>
  BY InitFile DEF Init
<1>2. Stored(<<>>) = <<>> /\ Holds(<<>>, Stored(<<>>))
  BY EmptyHolds, HoldsStored
<1>3. QED
  BY <1>1, <1>2 DEF TableInv

\* A statement that ends leaves the table that it leaves in the file.
LEMMA EndTable ==
    ASSUME FileInv', Holds(file', Stored(file')), NEW a, End(a)
    PROVE  TableInv' /\ table' = Stored(file') /\ answer' = a
<1>1. pc' = "idle" /\ table' = Stored(file') /\ answer' = a
  BY DEF End
<1>2. QED
  BY <1>1 DEF TableInv

\* What INSERT checks is what makes it legal.
LEMMA InsertIsLegal ==
    ASSUME NEW st \in Statement, st.op = "insert"
    PROVE  InsertLegal(st) <=> Rows!Legal(st)
BY DEF InsertLegal, Fits, Fields, IsNum, Rows!Legal, Rows!Suits, Rows!Fields, Rows!IsNum

\* So INSERT puts the values behind the rows that there are.
LEMMA InsertHolds ==
    ASSUME TableInv, NEW st \in Statement, Insert(st), InsertLegal(st)
    PROVE  /\ Holds(file', Stored(file'))
           /\ Stored(file') = Append(table, RowOf(st.values))
<1>1. st.values \in Seq(Literal) /\ file' = file \o Record(st.values)
  BY StatementAssumption DEF Insert
<1>2. Len(st.values) = Len(Width) /\ Fields = 1..Len(st.values)
  BY DEF InsertLegal, Fields
<1>3. ASSUME NEW f \in Fields
      PROVE  Len(st.values[f].word) <= Size(f) /\ (IsNum(f) => st.values[f].num)
  <2>1. st.values[f] \in Literal
    BY <1>1, <1>2
  <2>2. /\ st.values[f].num <=> IsNum(f)
        /\ st.values[f].num \/ Len(st.values[f].word) <= Width[f]
    BY DEF InsertLegal, Fits
  <2>3. st.values[f].num => Len(st.values[f].word) <= NumWidth
    BY <2>1, LiteralFits
  <2>4. QED
    BY <2>2, <2>3 DEF Size
<1>4. Insertable(st.values)
  BY <1>1, <1>2, <1>3 DEF Insertable
<1>5. Holds(file, table) /\ table \in Seq(AnyRow)
  BY DEF TableInv, Insert, Ready, Holds
<1> DEFINE r == RowOf(st.values)
<1>6. Holds(file', table \o <<r>>)
  BY <1>1, <1>4, <1>5, RecordHolds, HoldsConcat
<1>7. r \in AnyRow
  <2>1. <<r>> \in Seq(AnyRow)
    BY <1>4, RecordHolds DEF Holds
  <2> HIDE DEF r
  <2>2. QED
    BY <2>1
<1> HIDE DEF r
<1>8. table \o <<r>> = Append(table, r)
  BY <1>5, <1>7
<1>9. QED
  BY <1>6, <1>8, HoldsStored DEF r

LEMMA InsertTable == ASSUME TableInv, NEW st \in Statement, Insert(st) PROVE TableInv'
<1>1. FileInv'
  BY InsertFile DEF TableInv
<1>2. CASE InsertLegal(st)
  <2>1. Holds(file', Stored(file')) /\ End(Answer(st, AllRows(file')))
    BY <1>2, InsertHolds DEF Insert
  <2>2. QED
    BY <1>1, <2>1, EndTable
<1>3. CASE ~InsertLegal(st)
  <2>1. file' = file /\ End(Error(st))
    BY <1>3 DEF Insert
  <2>2. Holds(file', Stored(file'))
    BY <2>1 DEF TableInv
  <2>3. QED
    BY <1>1, <2>1, <2>2, EndTable
<1>4. QED
  BY <1>2, <1>3

\* Nothing is picked of no rows, and nothing is updated up to the first.
LEMMA ScanBegins ==
    ASSUME NEW rs \in Seq(AnyRow), NEW P, NEW st
    PROVE  /\ Picked(rs, P)[0] = <<>>
           /\ \A fields : Projections(<<>>, fields) = <<>>
           /\ UpdatedTo(rs, st, 0) = rs
<1>1. Picked(rs, P)[0] = <<>>
  BY PickedSteps DEF GoesByPick
<1>2. ASSUME NEW fields PROVE Projections(<<>>, fields) = <<>>
  <2>1. DOMAIN <<>> = {}
    OBVIOUS
  <2>2. QED
    BY <2>1 DEF Projections
<1>3. UpdatedTo(rs, st, 0) = rs
  <2>1. \A i \in DOMAIN rs : ~ i <= 0
    OBVIOUS
  <2>2. rs = [i \in DOMAIN rs |-> rs[i]]
    OBVIOUS
  <2>3. QED
    BY <2>1, <2>2 DEF UpdatedTo
<1>4. QED
  BY <1>1, <1>2, <1>3

LEMMA StartTable == ASSUME TableInv, NEW st \in Statement, Start(st) PROVE TableInv'
<1>1. FileInv' /\ file' = file /\ pc = "idle" /\ answer = NoAnswer /\ st.op # "insert"
  BY StartFile DEF TableInv, Start, Ready
<1>2. Holds(file, Stored(file)) /\ Stored(file) = table /\ table \in Seq(AnyRow)
  BY <1>1 DEF TableInv, Holds
<1>3. CASE End(Error(st))
  BY <1>1, <1>2, <1>3, EndTable
<1>4. CASE ~End(Error(st))
  <2>1. /\ pc' = "scan" /\ stmt' = st /\ fin' = 0 /\ kept' = <<>>
        /\ UNCHANGED <<answer, table>>
        /\ st.op = "select" => SelectLegal(st)
    BY <1>4 DEF Start
  <2>2. st.op \in {"select", "update", "delete"}
    BY <1>1, StatementAssumption
  <2>3. Stored(<<>>) = <<>> /\ Holds(<<>>, Stored(<<>>))
    BY EmptyHolds, HoldsStored
  <2>4. 0 \in 0..Len(table) /\ 0 * RecordLength = 0
    BY <1>2, FieldsFit
  <2>5. Scanned(0)'
    BY <1>1, <1>2, <2>1, <2>3, <2>4, ScanBegins DEF Scanned
  <2>6. \E k \in 0..Len(table') : Scanned(k)'
    BY <2>1, <2>4, <2>5
  <2>7. ErangeInv'
    BY <1>1, <1>2, <2>1 DEF ErangeInv
  <2>8. QED
    BY <1>1, <1>2, <2>1, <2>2, <2>3, <2>6, <2>7 DEF TableInv
<1>5. QED
  BY <1>3, <1>4

LEMMA SendTable == ASSUME TableInv, Send PROVE TableInv'
<1>1. UNCHANGED <<file, pc, stmt, fin, kept, erange, table>> /\ answer' = NoAnswer /\ FileInv'
  BY LoopFile DEF Send, TableInv
<1>2. \A k \in 0..Len(table) : Scanned(k) => Scanned(k)'
  BY <1>1 DEF Scanned
<1>3. (CondWrong <=> CondWrong') /\ (ErangeInv <=> ErangeInv')
  BY <1>1 DEF CondWrong, ErangeInv, SetRefused, Compares
<1>4. QED
  BY <1>1, <1>2, <1>3 DEF TableInv

\* Between statements errno does not touch the table.
LEMMA ElsewhereTable == ASSUME TableInv, Elsewhere PROVE TableInv' /\ UNCHANGED <<table, answer>>
<1>1. /\ UNCHANGED <<file, pc, stmt, fin, kept, answer, table>> /\ FileInv'
      /\ pc = "idle" /\ Stored(file) = table /\ Holds(file, Stored(file))
  BY LoopFile DEF Elsewhere, Ready, TableInv
<1>2. QED
  BY <1>1 DEF TableInv

\* A statement that throws leaves the file what it was before.
LEMMA ThrowTable ==
    ASSUME TableInv, Throw \/ RefuseSet
    PROVE  /\ TableInv' /\ table' = Stored(file) /\ answer' = Error(stmt)
<1>1. file' = file /\ End(Error(stmt))
  BY DEF Throw, RefuseSet
<1>2. FileInv' /\ Holds(file, Stored(file))
  BY LoopFile DEF TableInv
<1>3. QED
  BY <1>1, <1>2, EndTable

\* A scan that has not misread reads the k-th row of the table next.
AtRow(k) ==
    /\ Scanned(k - 1)
    /\ Len(Stored(file)) = Len(table)
    /\ Stored(file)[k] = table[k] /\ row = table[k] /\ table[k] \in AnyRow
    /\ \A f \in Fields : Value(f) = table[k][f]
    /\ \A f \in Fields : IsNum(f) => ~TooBig(row[f])
    /\ ~CondThrows => (Chosen <=> Rows!Meets(table[k], stmt.cond))

LEMMA ScanAt ==
    ASSUME TableInv, pc = "scan", fin < Len(file), NoneEmpty(table)
    PROVE  \E k \in 1..Len(table) : AtRow(k)
<1> DEFINE n == RecordLength
           c == Len(table)
           rs == Stored(file)
<1>1. n \in Nat \ {0} /\ table \in Seq(AnyRow) /\ c \in Nat
  BY FieldsFit DEF TableInv
<1>2. PICK j \in 0..Len(table) : Scanned(j)
  BY DEF TableInv
<1>3. PICK k \in 1..Len(rs) : fin = (k - 1) * n
  BY ScanRow
<1>4. rs \in Seq(AnyRow) /\ stmt.op \in {"select", "update", "delete"}
  BY ScanRow DEF TableInv
<1> HIDE DEF rs
<1>5. j = k - 1
  <2>1. j * n = (k - 1) * n /\ j \in Nat /\ k - 1 \in Nat
    BY <1>2, <1>3 DEF Scanned
  <2> HIDE DEF n
  <2>2. QED
    BY <1>1, <2>1, FewerRecords
<1>6. Len(rs) = c /\ (k \in 1..c => rs[k] = table[k])
  <2>1. CASE stmt.op = "update"
    <3>1. rs = UpdatedTo(table, stmt, k - 1)
      BY <2>1, <1>2, <1>5 DEF Scanned, rs
    <3>2. DOMAIN rs = DOMAIN table
      BY <3>1 DEF UpdatedTo
    <3>3. Len(rs) = c
      BY <3>2, <1>1, <1>4
    <3>4. k \in 1..c => rs[k] = table[k]
      <4>1. ASSUME k \in 1..c PROVE k \in DOMAIN table /\ ~ k <= k - 1
        BY <4>1, <1>1
      <4>2. QED
        BY <4>1, <3>1 DEF UpdatedTo
    <3>5. QED
      BY <3>3, <3>4
  <2>2. CASE stmt.op # "update"
    BY <2>2, <1>2, <1>4 DEF Scanned, rs
  <2>3. QED
    BY <2>1, <2>2
<1>7. k \in 1..c /\ rs[k] = table[k] /\ table[k] \in AnyRow
  BY <1>1, <1>6
<1>8. \A f \in Fields : rs[k][f] # <<>>
  BY <1>7 DEF NoneEmpty
<1>9. /\ row = rs[k]
      /\ \A f \in Fields : Value(f) = rs[k][f]
      /\ \A f \in Fields : IsNum(f) => ~TooBig(row[f])
      /\ ~CondThrows => (Chosen <=> Rows!Meets(rs[k], stmt.cond))
  BY <1>3, <1>8, ScanReads DEF rs
<1>10. AtRow(k)
  BY <1>2, <1>5, <1>6, <1>7, <1>9 DEF AtRow, rs
<1>11. QED
  BY <1>7, <1>10

\* One more row is picked, or not.
LEMMA PickedNext ==
    ASSUME NEW rs \in Seq(AnyRow), NEW P, NEW k \in 1..Len(rs)
    PROVE  /\ Picked(rs, P)[k - 1] \in Seq(AnyRow)
           /\ k \in P => Picked(rs, P)[k] = Append(Picked(rs, P)[k - 1], rs[k])
           /\ k \notin P => Picked(rs, P)[k] = Picked(rs, P)[k - 1]
<1>1. k - 1 \in 0..Len(rs)
  OBVIOUS
<1>2. GoesByPick(Picked(rs, P), rs, P, AnyRow)
  BY PickedSteps, Zenon
<1>3. QED
  BY <1>1, <1>2, Zenon DEF GoesByPick

\* One more row is updated, or not.
LEMMA UpdatedNext ==
    ASSUME NEW rs \in Seq(AnyRow), NEW st, NEW k \in 1..Len(rs)
    PROVE  /\ \A i \in 1..Len(rs) : UpdatedTo(rs, st, k)[i] =
                 IF i = k THEN Rows!Updated(rs[k], st) ELSE UpdatedTo(rs, st, k - 1)[i]
           /\ DOMAIN UpdatedTo(rs, st, k) = 1..Len(rs)
           /\ ~Rows!Meets(rs[k], st.cond) => UpdatedTo(rs, st, k) = UpdatedTo(rs, st, k - 1)
<1>1. DOMAIN rs = 1..Len(rs)
  OBVIOUS
<1>2. \A i \in 1..Len(rs) : i <= k <=> i = k \/ i <= k - 1
  OBVIOUS
<1>3. DOMAIN UpdatedTo(rs, st, k) = 1..Len(rs)
  BY <1>1 DEF UpdatedTo
<1>4. ASSUME NEW i \in 1..Len(rs)
      PROVE  UpdatedTo(rs, st, k)[i] =
                IF i = k THEN Rows!Updated(rs[k], st) ELSE UpdatedTo(rs, st, k - 1)[i]
  BY <1>1, <1>2 DEF UpdatedTo
<1>5. ASSUME ~Rows!Meets(rs[k], st.cond)
      PROVE  UpdatedTo(rs, st, k) = UpdatedTo(rs, st, k - 1)
  <2>1. Rows!Updated(rs[k], st) = rs[k]
    BY <1>5 DEF Rows!Updated
  <2>2. ASSUME NEW i \in DOMAIN rs
        PROVE  (IF i <= k THEN Rows!Updated(rs[i], st) ELSE rs[i])
               = (IF i <= k - 1 THEN Rows!Updated(rs[i], st) ELSE rs[i])
    BY <1>1, <1>2, <2>1
  <2>3. QED
    BY <2>2, Zenon DEF UpdatedTo
<1>6. QED
  BY <1>3, <1>4, <1>5

\* One more row is answered with.
LEMMA ProjectionsNext ==
    ASSUME NEW rs \in Seq(AnyRow), NEW r, NEW fields
    PROVE  Projections(Append(rs, r), fields)
              = Append(Projections(rs, fields), Rows!Projected(r, fields))
<1> DEFINE c == Len(rs)
           more == Append(rs, r)
           ps == Projections(rs, fields)
<1>1. c \in Nat /\ DOMAIN rs = 1..c
  OBVIOUS
<1>2. more = [i \in 1..(c + 1) |-> IF i = c + 1 THEN r ELSE rs[i]]
  BY Longer, Zenon
<1>3. ps = [i \in 1..c |-> Rows!Projected(rs[i], fields)]
  BY <1>1 DEF Projections
<1> HIDE DEF c, more, ps
<1> DEFINE S == {ps[i] : i \in 1..c}
<1>4. ps \in Seq(S) /\ Len(ps) = c
  <2>1. ps \in [1..c -> S]
    BY <1>3
  <2>2. QED
    BY <1>1, <2>1
<1> HIDE DEF S
<1>5. Append(ps, Rows!Projected(r, fields))
        = [i \in 1..(c + 1) |-> IF i = c + 1 THEN Rows!Projected(r, fields) ELSE ps[i]]
  <2>1. Append(ps, Rows!Projected(r, fields))
          = [i \in 1..(Len(ps) + 1) |->
                IF i = Len(ps) + 1 THEN Rows!Projected(r, fields) ELSE ps[i]]
    BY <1>4, Longer, Zenon
  <2>2. QED
    BY <1>4, <2>1, Zenon
<1>6. Projections(more, fields) = [i \in 1..(c + 1) |-> Rows!Projected(more[i], fields)]
  BY <1>2 DEF Projections
<1>7. \A i \in 1..(c + 1) : Rows!Projected(more[i], fields) =
          IF i = c + 1 THEN Rows!Projected(r, fields) ELSE ps[i]
  <2>1. \A i \in 1..(c + 1) : i # c + 1 => i \in 1..c
    BY <1>1
  <2>2. QED
    BY <2>1, <1>2, <1>3
<1>8. QED
  BY <1>5, <1>6, <1>7 DEF more, ps

\* Where the scan stands after k rows.
LEMMA ScanMoves ==
    ASSUME NEW k \in 1..Len(table), table \in Seq(AnyRow), Scanned(k - 1)
    PROVE  /\ k \in 0..Len(table)
           /\ fin + RecordLength = k * RecordLength
<1>1. k \in 0..Len(table) /\ Len(table) \in Nat
  OBVIOUS
<1>2. (k - 1) * RecordLength + RecordLength = k * RecordLength
  BY <1>1, RecordPlaces
<1>3. QED
  BY <1>1, <1>2 DEF Scanned

\* A row that meets the condition, and one that does not.
LEMMA MetNext ==
    ASSUME NEW k \in 1..Len(table), table \in Seq(AnyRow), NEW cond
    PROVE  /\ k \in MetIn(table, cond) <=> Rows!Meets(table[k], cond)
           /\ k \in DOMAIN table \ MetIn(table, cond) <=> ~Rows!Meets(table[k], cond)
BY DEF MetIn

\* A record whose number has been compared shows that errno was not ERANGE.
LEMMA ErangeKept ==
    ASSUME TableInv, pc = "scan", ~CondThrows, UNCHANGED <<file, stmt, erange, table>>
    PROVE  ErangeInv'
<1>1. ~(erange /\ Compares)
  BY DEF CondThrows, CondRefused, AfterField, Compares
<1>2. stmt.op = "update" /\ SetRefused => Stored(file) = table
  BY DEF TableInv, ErangeInv
<1>3. QED
  BY <1>1, <1>2 DEF ErangeInv, Compares, SetRefused

LEMMA SkipTable == ASSUME TableInv, Skip PROVE TableInv'
<1>1. /\ pc = "scan" /\ stmt.op \in {"select", "update"} /\ fin < Len(file)
      /\ ~CondThrows /\ ~Chosen /\ fin' = next
      /\ UNCHANGED <<file, pc, stmt, kept, erange, answer, table>>
  BY DEF Skip, Scanning
<1>2. FileInv /\ FileInv'
  BY LoopFile DEF TableInv
<1>3. fin' = fin + RecordLength /\ fin' # 0 /\ table \in Seq(AnyRow)
  BY <1>1, <1>2, ScanStands, FieldsFit DEF FileInv, TableInv
<1>4. ~CondWrong' /\ ErangeInv'
  <2>1. ~CondWrong
    BY <1>1 DEF CondThrows
  <2>2. QED
    BY <1>1, <2>1, ErangeKept DEF CondWrong
<1>5. ASSUME NoneEmpty(table) PROVE \E k \in 0..Len(table) : Scanned(k)'
  <2>1. PICK k \in 1..Len(table) : AtRow(k)
    BY <1>1, <1>5, ScanAt
  <2>2. Scanned(k - 1) /\ ~Rows!Meets(table[k], stmt.cond)
    BY <1>1, <2>1 DEF AtRow
  <2>3. k \in 0..Len(table) /\ fin' = k * RecordLength
    BY <1>3, <2>2, ScanMoves
  <2>4. Picked(table, MetIn(table, stmt.cond))[k] = Picked(table, MetIn(table, stmt.cond))[k - 1]
    BY <1>3, <2>2, MetNext, PickedNext
  <2>5. UpdatedTo(table, stmt, k) = UpdatedTo(table, stmt, k - 1)
    BY <1>3, <2>2, UpdatedNext
  <2>6. Scanned(k)'
    BY <1>1, <2>2, <2>3, <2>4, <2>5 DEF Scanned
  <2>7. QED
    BY <2>3, <2>6
<1>6. QED
  BY <1>1, <1>2, <1>3, <1>4, <1>5 DEF TableInv

\* A row that is picked out field by field, none of them named twice.
LEMMA PickedOut ==
    ASSUME SelectLegal(stmt), stmt.fields \in Seq(Nat), IsInjective(stmt.fields)
    PROVE  [i \in DOMAIN stmt.fields |->
               IF \E j \in 1..(i - 1) : stmt.fields[j] = stmt.fields[i]
               THEN <<>> ELSE row[stmt.fields[i]]]
           = [i \in DOMAIN stmt.fields |-> row[stmt.fields[i]]]
<1> DEFINE fs == stmt.fields
<1>1. ASSUME NEW i \in DOMAIN fs, NEW j \in 1..(i - 1), fs[j] = fs[i] PROVE FALSE
  <2>1. DOMAIN fs = 1..Len(fs) /\ Len(fs) \in Nat
    OBVIOUS
  <2>2. j \in DOMAIN fs /\ j # i
    BY <2>1
  <2>3. QED
    BY <1>1, <2>2 DEF IsInjective
<1> HIDE DEF fs
<1>2. QED
  BY <1>1 DEF fs

LEMMA SelectRowTable == ASSUME TableInv, SelectRow PROVE TableInv'
<1> DEFINE fs == stmt.fields
           picked == [i \in DOMAIN fs |->
                         IF \E j \in 1..(i - 1) : fs[j] = fs[i]
                         THEN <<>> ELSE row[fs[i]]]
<1>1. /\ pc = "scan" /\ stmt.op = "select" /\ fin < Len(file)
      /\ ~CondThrows /\ Chosen /\ fin' = next
      /\ kept' = Append(kept, IF fs = <<>> THEN row ELSE picked)
      /\ UNCHANGED <<file, pc, stmt, erange, answer, table>>
  BY DEF SelectRow, Scanning
<1> HIDE DEF picked, fs
<1>2. FileInv /\ FileInv'
  BY LoopFile DEF TableInv
<1>3. fin' = fin + RecordLength /\ fin' # 0 /\ table \in Seq(AnyRow)
  BY <1>1, <1>2, ScanStands, FieldsFit DEF FileInv, TableInv
<1>4. ~CondWrong' /\ ErangeInv'
  <2>1. ~CondWrong
    BY <1>1 DEF CondThrows
  <2>2. QED
    BY <1>1, <2>1, ErangeKept DEF CondWrong
<1>5. ASSUME NoneEmpty(table) PROVE \E k \in 0..Len(table) : Scanned(k)'
  <2>1. PICK k \in 1..Len(table) : AtRow(k)
    BY <1>1, <1>5, ScanAt
  <2>2. Scanned(k - 1) /\ Rows!Meets(table[k], stmt.cond) /\ row = table[k]
    BY <1>1, <2>1 DEF AtRow
  <2>3. k \in 0..Len(table) /\ fin' = k * RecordLength
    BY <1>3, <2>2, ScanMoves
  <2> DEFINE P == MetIn(table, stmt.cond)
             met == Picked(table, P)[k - 1]
  <2>4. Picked(table, P)[k] = Append(met, table[k]) /\ met \in Seq(AnyRow)
    BY <1>3, <2>2, MetNext, PickedNext
  <2>5. ASSUME NamesOnce(stmt)
        PROVE  kept' = Projections(Picked(table, P)[k], fs)
    <3>1. kept = Projections(met, fs)
      BY <1>1, <2>2, <2>5 DEF Scanned, fs
    <3>2. (IF fs = <<>> THEN row ELSE picked) = Rows!Projected(table[k], fs)
      <4>1. SelectLegal(stmt) /\ fs \in Seq(Nat) /\ IsInjective(fs)
        BY <1>1, <1>2, <2>5, StatementAssumption DEF TableInv, FileInv, NamesOnce, fs
      <4>2. picked = [i \in DOMAIN fs |-> row[fs[i]]]
        BY <4>1, PickedOut DEF picked, fs
      <4>3. QED
        BY <4>2, <2>2 DEF Rows!Projected
    <3> HIDE DEF P, met
    <3>3. Projections(Append(met, table[k]), fs)
             = Append(Projections(met, fs), Rows!Projected(table[k], fs))
      BY <2>4, ProjectionsNext
    <3>4. QED
      BY <1>1, <2>4, <3>1, <3>2, <3>3
  <2>6. Scanned(k)'
    BY <1>1, <2>2, <2>3, <2>5 DEF Scanned, NamesOnce, fs
  <2>7. QED
    BY <2>3, <2>6
<1>6. QED
  BY <1>1, <1>2, <1>3, <1>4, <1>5 DEF TableInv

\* What UPDATE writes is, when padded, a word without blanks, a numeral where there
\* are numbers: itself, unless a blank line was misread.
LEMMA WrittenWord ==
    ASSUME FileInv, pc = "scan", stmt.op = "update", fin < Len(file),
           Len(Written) <= Size(stmt.field)
    PROVE  \E w \in Seq(Printed) :
              /\ Len(w) <= Size(stmt.field)
              /\ IsNum(stmt.field) => IsNumeral(w)
              /\ Padded(Written, stmt.field) = Padded(w, stmt.field)
              /\ Written \in Seq(Printed) => w = Written
<1> DEFINE f == stmt.field
           g == stmt.from
           word == Written
<1>1. /\ stmt \in Statement /\ UpdateLegal(stmt) /\ stmt.value \in Literal
      /\ fin \in Nat /\ fin % RecordLength = 0
      /\ file \in Seq(Symbol) /\ Records(file)
  BY StatementAssumption DEF FileInv
<1>2. f \in Fields
  BY <1>1 DEF UpdateLegal
<1>3. ASSUME word \in Seq(Printed), IsNum(f) => IsNumeral(word) PROVE
      \E w \in Seq(Printed) :
              /\ Len(w) <= Size(f)
              /\ IsNum(f) => IsNumeral(w)
              /\ Padded(word, f) = Padded(w, f)
              /\ word \in Seq(Printed) => w = word
  <2> HIDE DEF word, f
  <2>1. Len(word) <= Size(f)
    BY DEF word, f
  <2>2. QED
    BY <1>3, <2>1
<1>4. CASE g = 0
  <2>1. word = stmt.value.word /\ (IsNum(f) => stmt.value.num)
    BY <1>1, <1>4 DEF Written, UpdateLegal, Fits
  <2>2. word \in Seq(Printed) /\ (IsNum(f) => IsNumeral(word))
    BY <1>1, <2>1 DEF Literal, Printed
  <2>3. QED
    BY <1>3, <2>2
<1>5. ASSUME g # 0
      PROVE  /\ g \in Fields /\ (IsNum(f) <=> IsNum(g))
             /\ word = IF IsNum(g) THEN Number(row[g]) ELSE row[g]
             /\ row[g] \in Seq(Character)
             /\ row[g] \in Seq(Printed) \/ Blanks(row[g])
  <2>1. g \in Fields /\ (IsNum(f) <=> IsNum(g))
    BY <1>1, <1>5 DEF UpdateLegal
  <2>2. Line(file, fin) \in Seq(Character)
    BY <1>1, LineType
  <2>3. /\ row[g] \in Seq(Character)
        /\ row[g] \in Seq(Printed) \/ Blanks(row[g])
    BY <2>1, <2>2, RowType DEF row
  <2>4. QED
    BY <1>5, <2>1, <2>3 DEF Written, Value
<1>6. CASE g # 0 /\ IsNum(f)
  <2>1. word = Number(row[g]) /\ row[g] \in Seq(Character)
    BY <1>5, <1>6
  <2>2. word \in Seq(Printed) /\ IsNumeral(word)
    BY <2>1, NumberAgain
  <2>3. QED
    BY <1>3, <2>2
<1>7. CASE g # 0 /\ ~IsNum(f) /\ word \in Seq(Printed)
  BY <1>3, <1>7
<1>8. CASE g # 0 /\ ~IsNum(f) /\ word \notin Seq(Printed)
  <2>1. word \in Seq(Character) /\ Blanks(word)
    BY <1>5, <1>8
  <2>2. Len(word) <= Size(f) /\ Size(f) \in Nat
    BY <1>2, SizeType
  <2> HIDE DEF word, f
  <2>3. <<>> \in Seq(Printed) /\ <<>> \in Seq(Character) /\ Len(<<>>) = 0
    BY EmptySeq
  <2>4. /\ Padded(<<>>, f) \in Seq(Character) /\ Len(Padded(<<>>, f)) = Size(f)
        /\ \A i \in 1..Size(f) : Padded(<<>>, f)[i] = Blank
    <3>1. Len(<<>>) <= Size(f)
      BY <2>2, <2>3
    <3>2. \A i \in 1..Size(f) : ~ i <= Len(<<>>)
      BY <2>3
    <3>3. QED
      BY <1>2, <2>3, <3>1, <3>2, PaddedType
  <2>5. /\ Padded(word, f) \in Seq(Character) /\ Len(Padded(word, f)) = Size(f)
        /\ \A i \in 1..Size(f) : Padded(word, f)[i] = Blank
    <3>1. \A i \in 1..Size(f) : i <= Len(word) => word[i] = Blank
      BY <2>1 DEF Blanks
    <3>2. QED
      BY <1>2, <2>1, <2>2, <3>1, PaddedType
  <2>6. Padded(word, f) = Padded(<<>>, f)
    <3> DEFINE a == Padded(word, f)
               b == Padded(<<>>, f)
    <3>1. a \in Seq(Character) /\ b \in Seq(Character) /\ Len(a) = Len(b)
          /\ \A i \in 1..Len(a) : a[i] = b[i]
      BY <2>4, <2>5
    <3> HIDE DEF a, b
    <3>2. a = b
      BY <3>1, SameSequence
    <3>3. QED
      BY <3>2 DEF a, b
  <2>7. /\ Len(<<>>) <= Size(f) /\ (IsNum(f) => IsNumeral(<<>>))
        /\ word \in Seq(Printed) => <<>> = word
    <3>1. ~IsNum(f) /\ word \notin Seq(Printed)
      BY <1>8
    <3>2. QED
      BY <3>1, <2>2, <2>3
  <2>8. QED
    BY <2>3, <2>6, <2>7, Zenon DEF f, word
<1>9. QED
  BY <1>4, <1>6, <1>7, <1>8

\* A row that is read right can be written where it is copied to.
LEMMA WrittenFits ==
    ASSUME TableInv, pc = "scan", stmt.op = "update", fin < Len(file), NoneEmpty(table),
           NEW k \in 1..Len(table), AtRow(k)
    PROVE  /\ Len(Written) <= Size(stmt.field) /\ Written \in Seq(Printed)
           /\ Written = IF stmt.from = 0 THEN stmt.value.word ELSE table[k][stmt.from]
<1> DEFINE f == stmt.field
           g == stmt.from
<1>1. /\ stmt \in Statement /\ UpdateLegal(stmt) /\ stmt.value \in Literal
  BY StatementAssumption DEF FileInv, TableInv
<1>2. f \in Fields
  BY <1>1 DEF UpdateLegal
<1>3. CASE g = 0
  <2>1. /\ Written = stmt.value.word /\ (stmt.value.num <=> IsNum(f))
        /\ IsNum(f) \/ Len(stmt.value.word) <= Width[f]
    BY <1>1, <1>3 DEF Written, UpdateLegal, Fits
  <2>2. Written \in Seq(Printed) /\ (IsNum(f) => Len(Written) <= NumWidth)
    BY <1>1, <2>1, LiteralFits
  <2>3. QED
    BY <1>3, <2>1, <2>2 DEF Size
<1>4. CASE g # 0
  <2>1. g \in Fields /\ (IsNum(f) <=> IsNum(g)) /\ (IsNum(f) \/ Width[f] >= Width[g])
    BY <1>1, <1>4 DEF UpdateLegal
  <2>2. Written = table[k][g] /\ table[k] \in AnyRow
    BY <1>4, <2>1 DEF AtRow, Written
  <2>3. table[k][g] \in Seq(Printed) /\ Len(table[k][g]) <= Size(g) /\ Len(table[k][g]) \in Nat
    BY <2>1, <2>2, AnyRowType
  <2>4. Size(g) <= Size(f) /\ Size(g) \in Nat /\ Size(f) \in Nat
    BY <1>2, <2>1, SizeType DEF Size
  <2>5. QED
    BY <1>4, <2>2, <2>3, <2>4
<1>5. QED
  BY <1>3, <1>4

\* A row with a word that fits is a row.
LEMMA RowWritten ==
    ASSUME NEW r \in AnyRow, NEW f \in Fields, NEW w \in Seq(Printed),
           Len(w) <= Size(f), IsNum(f) => IsNumeral(w)
    PROVE  [r EXCEPT ![f] = w] \in AnyRow
BY DEF AnyRow

\* What UPDATE makes of the rows.
LEMMA UpdateRowRows ==
    ASSUME TableInv, UpdateRow, Len(Written) <= Size(stmt.field),
           NEW k \in 1..Len(Stored(file)), fin = (k - 1) * RecordLength
    PROVE  \E w \in Seq(Printed) :
              /\ Written \in Seq(Printed) => w = Written
              /\ Holds(file', Stored(file'))
              /\ Stored(file') = [Stored(file) EXCEPT ![k] = [@ EXCEPT ![stmt.field] = w]]
<1> DEFINE f == stmt.field
           rs == Stored(file)
<1>1. /\ pc = "scan" /\ stmt.op = "update" /\ fin < Len(file) /\ FileInv
      /\ Holds(file, rs) /\ Records(file) /\ rs \in Seq(AnyRow)
  BY DEF UpdateRow, Scanning, TableInv, FileInv, Holds
<1>2. f \in Fields
  BY <1>1 DEF FileInv, UpdateLegal
<1>3. PICK w \in Seq(Printed) :
         /\ Len(w) <= Size(f) /\ (IsNum(f) => IsNumeral(w))
         /\ Padded(Written, f) = Padded(w, f)
         /\ Written \in Seq(Printed) => w = Written
  BY <1>1, WrittenWord
<1>4. file' = Overwritten(fin + Before[f], Padded(w, f))
  <2>1. ~ Len(Written) > Size(f)
    <3>1. Size(f) \in Nat /\ Len(Written) <= Size(f)
      BY <1>2, SizeType
    <3>2. Len(Written) \in Nat
      BY <1>1, WrittenType
    <3>3. QED
      BY <3>1, <3>2
  <2>2. file' = Overwritten(back + Before[f], Padded(Written, f))
    BY <2>1 DEF UpdateRow, Written
  <2>3. back = fin
    BY <1>1, ScanStands
  <2>4. QED
    BY <2>2, <2>3, <1>3
<1> DEFINE r == [rs[k] EXCEPT ![f] = w]
           ss == [rs EXCEPT ![k] = r]
<1> HIDE DEF rs, f
<1>5. k \in 1..Len(rs)
  BY DEF rs
<1>6. r \in AnyRow
  BY <1>1, <1>2, <1>3, <1>5, RowWritten
<1> HIDE DEF r
<1>7. /\ ss \in Seq(AnyRow) /\ Len(ss) = Len(rs) /\ ss[k] = r
      /\ \A l \in 1..Len(rs) : l # k => ss[l] = rs[l]
  BY <1>1, <1>5, <1>6
<1> HIDE DEF ss
<1>8. Holds(file', ss)
  BY <1>1, <1>2, <1>3, <1>4, <1>5, <1>7, HoldsOverwritten DEF r
<1>9. Holds(file', Stored(file')) /\ Stored(file') = ss
  BY <1>8, HoldsStored
<1>10. ss = [rs EXCEPT ![k] = [@ EXCEPT ![f] = w]]
  BY DEF ss, r
<1>11. QED
  BY <1>3, <1>9, <1>10 DEF rs, f

LEMMA UpdateRowTable ==
    ASSUME TableInv, UpdateRow
    PROVE  /\ TableInv'
           /\ \/ UNCHANGED <<table, answer>>
              \/ answer' = Error(stmt) /\ ~NoneEmpty(table)
<1>1. /\ pc = "scan" /\ stmt.op = "update" /\ fin < Len(file)
      /\ ~CondThrows /\ Chosen /\ ~SetRefused /\ erange' = AfterSet
      /\ FileInv /\ FileInv'
  BY UpdateRowFile DEF UpdateRow, Scanning, TableInv
<1>2. CASE Len(Written) > Size(stmt.field)
  <2>1. file' = file /\ End(Error(stmt))
    BY <1>2 DEF UpdateRow, Written
  <2>2. Holds(file', Stored(file'))
    BY <2>1 DEF TableInv
  <2>3. TableInv' /\ answer' = Error(stmt)
    BY <1>1, <2>1, <2>2, EndTable
  <2>4. ASSUME NoneEmpty(table) PROVE FALSE
    <3>1. PICK k \in 1..Len(table) : AtRow(k)
      BY <1>1, <2>4, ScanAt
    <3>2. Len(Written) <= Size(stmt.field) /\ Written \in Seq(Printed)
      BY <1>1, <2>4, <3>1, WrittenFits
    <3>3. Size(stmt.field) \in Nat
      BY <1>1, SizeType DEF FileInv, UpdateLegal
    <3>4. QED
      BY <1>2, <3>2, <3>3
  <2>5. QED
    BY <2>3, <2>4
<1>3. CASE ~(Len(Written) > Size(stmt.field))
  <2>1. /\ fin' = LineEnd(file, back) /\ UNCHANGED <<pc, stmt, kept, answer, table>>
    BY <1>3 DEF UpdateRow, Written
  <2>2. Len(Written) <= Size(stmt.field)
    <3>1. Size(stmt.field) \in Nat
      BY <1>1, SizeType DEF FileInv, UpdateLegal
    <3>2. Len(Written) \in Nat
      BY <1>1, WrittenType
    <3>3. QED
      BY <1>3, <3>1, <3>2
  <2>3. fin' = fin + RecordLength /\ fin' # 0 /\ table \in Seq(AnyRow)
    BY <1>1, <2>1, ScanStands, FieldsFit DEF FileInv, TableInv
  <2>4. ~CondWrong' /\ ErangeInv'
    <3>1. ~CondWrong /\ ~(erange /\ Compares)
      BY <1>1 DEF CondThrows, CondRefused, AfterField, Compares
    <3>2. ~SetRefused'
      BY <1>1, <2>1 DEF SetRefused, AfterSet
    <3>3. ASSUME NoneEmpty(table), erange' PROVE erange
      <4>1. PICK k \in 1..Len(table) : AtRow(k)
        BY <1>1, <3>3, ScanAt
      <4>2. stmt.from # 0 /\ IsNum(stmt.field) => stmt.from \in Fields /\ IsNum(stmt.from)
        BY <1>1 DEF FileInv, UpdateLegal
      <4>3. QED
        BY <1>1, <3>3, <4>1, <4>2 DEF AfterSet, AtRow
    <3>4. QED
      BY <2>1, <3>1, <3>2, <3>3 DEF CondWrong, ErangeInv, Compares
  <2>5. Holds(file', Stored(file'))
    BY <1>1, <2>2, ScanRow, UpdateRowRows
  <2>6. ASSUME NoneEmpty(table) PROVE \E k \in 0..Len(table) : Scanned(k)'
    <3>1. PICK k \in 1..Len(table) : AtRow(k)
      BY <1>1, <2>6, ScanAt
    <3>2. /\ Scanned(k - 1) /\ Rows!Meets(table[k], stmt.cond)
          /\ Len(Stored(file)) = Len(table) /\ Stored(file)[k] = table[k]
          /\ fin = (k - 1) * RecordLength
      BY <1>1, <3>1 DEF AtRow, Scanned
    <3>3. k \in 0..Len(table) /\ fin' = k * RecordLength
      BY <2>3, <3>2, ScanMoves
    <3> DEFINE w == Written
    <3>4. /\ w \in Seq(Printed)
          /\ w = IF stmt.from = 0 THEN stmt.value.word ELSE table[k][stmt.from]
      BY <1>1, <2>6, <3>1, WrittenFits
    <3>5. k \in 1..Len(Stored(file))
      BY <3>2
    <3>6. Stored(file') = [Stored(file) EXCEPT ![k] = [@ EXCEPT ![stmt.field] = w]]
      BY <2>2, <3>2, <3>4, <3>5, UpdateRowRows
    <3>7. [table[k] EXCEPT ![stmt.field] = w] = Rows!Updated(table[k], stmt)
      BY <3>2, <3>4 DEF Rows!Updated
    <3> HIDE DEF w
    <3>8. Stored(file) = UpdatedTo(table, stmt, k - 1)
      BY <1>1, <3>2 DEF Scanned
    <3>9. Stored(file') = UpdatedTo(table, stmt, k)
      <4> DEFINE a == Stored(file)
                 b == UpdatedTo(table, stmt, k)
                 v == Rows!Updated(table[k], stmt)
      <4>1. /\ \A i \in 1..Len(table) : b[i] = IF i = k THEN v ELSE a[i]
            /\ DOMAIN b = 1..Len(table)
        BY <2>3, <3>8, UpdatedNext
      <4>2. Stored(file') = [a EXCEPT ![k] = v] /\ a \in Seq(AnyRow) /\ Len(a) = Len(table)
        BY <1>1, <3>2, <3>6, <3>7, ScanRow
      <4>3. b = [i \in 1..Len(table) |-> b[i]]
        BY <4>1 DEF UpdatedTo
      <4> HIDE DEF a, b, v
      <4>4. [a EXCEPT ![k] = v] = [i \in 1..Len(table) |-> IF i = k THEN v ELSE a[i]]
        <5>1. DOMAIN a = 1..Len(table)
          BY <4>2
        <5>2. QED
          BY <5>1
      <4>5. [i \in 1..Len(table) |-> IF i = k THEN v ELSE a[i]] = b
        BY <4>1, <4>3
      <4>6. QED
        BY <4>2, <4>4, <4>5 DEF b
    <3>10. Scanned(k)'
      BY <1>1, <2>1, <3>3, <3>9 DEF Scanned
    <3>11. QED
      BY <3>3, <3>10
  <2>7. QED
    BY <1>1, <2>1, <2>3, <2>4, <2>5, <2>6 DEF TableInv
<1>4. QED
  BY <1>2, <1>3

LEMMA DeleteRowTable == ASSUME TableInv, DeleteRow PROVE TableInv'
<1> DEFINE n == RecordLength
           s == SubSeq(file, fin + 1, fin + n)
           rs == Stored(file)
           cond == stmt.cond
<1>1. /\ pc = "scan" /\ stmt.op = "delete" /\ fin < Len(file) /\ ~CondThrows
      /\ FileInv /\ FileInv'
      /\ UNCHANGED <<file, pc, stmt, erange, answer, table>>
  BY DeleteRowFile DEF DeleteRow, Scanning, TableInv
<1>2. kept' = (IF Chosen THEN kept ELSE kept \o s) /\ fin' = fin + n
  <2>1. /\ next = fin + RecordLength /\ back = fin
        /\ LineEnd(file, back) = fin + RecordLength
    BY <1>1, ScanStands
  <2>2. QED
    BY <2>1 DEF DeleteRow
<1>3. fin' # 0 /\ table \in Seq(AnyRow)
  BY <1>1, <1>2, FieldsFit DEF FileInv, TableInv
<1>4. ~CondWrong' /\ ErangeInv'
  <2>1. ~CondWrong
    BY <1>1 DEF CondThrows
  <2>2. QED
    BY <1>1, <2>1, ErangeKept DEF CondWrong
<1>5. Holds(file, rs) /\ Holds(kept, Stored(kept)) /\ Stored(kept) \in Seq(AnyRow)
  BY <1>1 DEF TableInv, Holds
<1>6. ASSUME NEW k \in 1..Len(rs), fin = (k - 1) * n, ~Chosen
      PROVE  /\ Holds(kept', Stored(kept'))
             /\ Stored(kept') = Append(Stored(kept), rs[k])
  <2>1. Holds(s, <<rs[k]>>)
    BY <1>5, <1>6, HoldsRow
  <2>2. Holds(kept \o s, Stored(kept) \o <<rs[k]>>)
    BY <1>5, <2>1, HoldsConcat
  <2>3. rs[k] \in AnyRow
    BY <1>1, ScanRow
  <2>4. Stored(kept) \o <<rs[k]>> = Append(Stored(kept), rs[k])
    <3> HIDE DEF rs
    <3>1. QED
      BY <1>5, <2>3
  <2>5. kept' = kept \o s
    BY <1>2, <1>6
  <2>6. QED
    BY <2>2, <2>4, <2>5, HoldsStored
<1>7. Holds(kept', Stored(kept'))
  BY <1>1, <1>2, <1>5, <1>6, ScanRow
<1>8. ASSUME NoneEmpty(table) PROVE \E k \in 0..Len(table) : Scanned(k)'
  <2>1. PICK k \in 1..Len(table) : AtRow(k)
    BY <1>1, <1>8, ScanAt
  <2>2. /\ Scanned(k - 1) /\ (Chosen <=> Rows!Meets(table[k], cond))
        /\ k \in 1..Len(rs) /\ rs[k] = table[k] /\ fin = (k - 1) * n
    BY <1>1, <2>1 DEF AtRow, Scanned
  <2>3. k \in 0..Len(table) /\ fin' = k * RecordLength
    BY <1>2, <1>3, <2>2, ScanMoves
  <2> DEFINE P == DOMAIN table \ MetIn(table, cond)
  <2>4. Stored(file) = table /\ Stored(kept) = Picked(table, P)[k - 1]
    BY <1>1, <2>2 DEF Scanned
  <2>5. k \in P <=> ~Chosen
    BY <1>3, <2>2, MetNext
  <2> HIDE DEF P
  <2>6. /\ k \in P => Picked(table, P)[k] = Append(Picked(table, P)[k - 1], table[k])
        /\ k \notin P => Picked(table, P)[k] = Picked(table, P)[k - 1]
    BY <1>3, PickedNext
  <2>7. Stored(kept') = Picked(table, P)[k]
    <3>1. CASE Chosen
      BY <3>1, <1>2, <2>4, <2>5, <2>6
    <3>2. CASE ~Chosen
      <4>1. Stored(kept') = Append(Stored(kept), rs[k])
        BY <3>2, <1>6, <2>2
      <4>2. QED
        BY <3>2, <4>1, <2>2, <2>4, <2>5, <2>6
    <3>3. QED
      BY <3>1, <3>2
  <2>8. Scanned(k)'
    BY <1>1, <2>3, <2>4, <2>7 DEF Scanned, P
  <2>9. QED
    BY <2>3, <2>8
<1>9. QED
  BY <1>1, <1>3, <1>4, <1>7, <1>8 DEF TableInv

\* What a scan leaves in the file when it is over.
LEMMA FinishTable ==
    ASSUME TableInv, Finish
    PROVE  /\ TableInv' /\ table' = Stored(file') /\ Records(file')
           /\ answer' = Answer(stmt, IF stmt.op = "select" THEN kept ELSE AllRows(file'))
<1>1. /\ pc = "scan" /\ FileInv'
      /\ file' = IF stmt.op = "delete" THEN kept ELSE file
      /\ End(Answer(stmt, IF stmt.op = "select" THEN kept ELSE AllRows(file')))
  BY LoopFile DEF Finish, TableInv
<1>2. Holds(file', Stored(file'))
  BY <1>1 DEF TableInv
<1>3. QED
  BY <1>1, <1>2, EndTable DEF FileInv

LEMMA NextTable == TableInv /\ [Next]_vars => TableInv'
<1> SUFFICES ASSUME TableInv, [Next]_vars PROVE TableInv'
  OBVIOUS
<1>1. CASE UNCHANGED vars
  <2>1. UNCHANGED <<file, pc, stmt, fin, kept, erange, answer, table>>
    BY <1>1 DEF vars
  <2>2. \A k \in 0..Len(table) : Scanned(k) => Scanned(k)'
    BY <2>1 DEF Scanned
  <2>3. (CondWrong <=> CondWrong') /\ (ErangeInv <=> ErangeInv')
    BY <2>1 DEF CondWrong, ErangeInv, SetRefused, Compares
  <2>4. FileInv'
    BY <1>1, NextFile DEF TableInv
  <2>5. QED
    BY <2>1, <2>2, <2>3, <2>4 DEF TableInv
<1>2. CASE \E st \in Statement : Insert(st) \/ Start(st)
  BY <1>2, InsertTable, StartTable
<1>3. CASE Send \/ Elsewhere \/ Throw \/ RefuseSet \/ Skip \/ SelectRow \/ Finish
  BY <1>3, SendTable, ElsewhereTable, ThrowTable, SkipTable, SelectRowTable, FinishTable
<1>4. CASE UpdateRow \/ DeleteRow
  BY <1>4, UpdateRowTable, DeleteRowTable
<1>5. QED
  BY <1>1, <1>2, <1>3, <1>4 DEF Next

LEMMA TableInvariant == Spec => []TableInv
BY InitTable, NextTable, PTL DEF Spec

-----------------------------------------------------------------------------
(* The table of rows *)

\* A statement that is served, or rejected, is a step of the table.
LEMMA Served ==
    ASSUME answer = NoAnswer, NEW st \in Statement, Rows!Legal(st), Rows!Serve(st),
           NEW rs, answer' = Answer(st, rs)
    PROVE  Rows!Next
<1>1. answer = Rows!NoAnswer /\ answer' # Rows!NoAnswer
  BY DEF NoAnswer, Answer, Rows!NoAnswer
<1>2. QED
  BY <1>1, Zenon DEF Rows!Next

LEMMA Rejected ==
    ASSUME answer = NoAnswer, NEW st \in Statement, ~Rows!Legal(st),
           answer' = Error(st), table' = table
    PROVE  Rows!Next
<1>1. answer = Rows!NoAnswer /\ answer' # Rows!NoAnswer
  BY DEF NoAnswer, Error, Rows!NoAnswer
<1>2. Rows!Reject(st)
  BY DEF Error, Rows!Reject, Rows!Error
<1>3. QED
  BY <1>1, <1>2, Zenon DEF Rows!Next

\* What is legal for the statements that scan, before and after they begin.
LEMMA ScanIsLegal ==
    ASSUME NEW st \in Statement, st.op # "insert"
    PROVE  /\ st.op = "select" => (Rows!Legal(st) <=> SelectLegal(st) /\ Rows!CondLegal(st.cond))
           /\ st.op = "update" => (Rows!Legal(st) <=> UpdateLegal(st) /\ Rows!CondLegal(st.cond))
           /\ st.op = "delete" => (Rows!Legal(st) <=> Rows!CondLegal(st.cond))
<1>1. ASSUME st.op = "select"
      PROVE  Rows!Legal(st) <=> SelectLegal(st) /\ Rows!CondLegal(st.cond)
  <2>1. Rows!Range(st.fields) \subseteq Rows!Fields <=> SelectLegal(st)
    BY DEF Rows!Range, Rows!Fields, SelectLegal, Fields
  <2>2. Rows!Legal(st) <=> Rows!Range(st.fields) \subseteq Rows!Fields /\ Rows!CondLegal(st.cond)
    BY <1>1 DEF Rows!Legal
  <2>3. QED
    BY <2>1, <2>2
<1>2. ASSUME st.op = "update"
      PROVE  Rows!Legal(st) <=> UpdateLegal(st) /\ Rows!CondLegal(st.cond)
  BY <1>2, WidthAssumption
     DEF Rows!Legal, UpdateLegal, Fits, Rows!Suits, Rows!Fields, Fields, Rows!IsNum, IsNum
<1>3. ASSUME st.op = "delete" PROVE Rows!Legal(st) <=> Rows!CondLegal(st.cond)
  BY <1>3 DEF Rows!Legal
<1>4. QED
  BY <1>1, <1>2, <1>3

\* A condition that is found wrong is one that the rows cannot be asked for.
LEMMA CondIsLegal ==
    ASSUME TableInv, pc = "scan"
    PROVE  /\ CondWrong /\ fin < Len(file) => ~Rows!CondLegal(stmt.cond)
           /\ fin = Len(file) => Rows!CondLegal(stmt.cond)
<1>1. CondWrong <=> ~ \/ stmt.cond.field = 0
                       \/ /\ stmt.cond.field \in Fields
                          /\ stmt.cond.value.num <=> IsNum(stmt.cond.field)
  BY DEF CondWrong, Fits
<1>2. Rows!CondLegal(stmt.cond) <=> table = <<>> \/ ~CondWrong
  BY <1>1 DEF Rows!CondLegal, Rows!Fields, Fields, Rows!IsNum, IsNum
<1>3. ASSUME CondWrong, fin < Len(file) PROVE table # <<>>
  <2>1. fin = 0 /\ table = Stored(file)
    BY <1>3 DEF TableInv
  <2>2. \E k \in 1..Len(Stored(file)) : TRUE
    BY <1>3, ScanRow
  <2>3. QED
    BY <2>1, <2>2
<1>4. ASSUME fin = Len(file), CondWrong PROVE table = <<>>
  <2>1. fin = 0 /\ table = Stored(file) /\ Holds(file, table) /\ table \in Seq(AnyRow)
    BY <1>4 DEF TableInv
  <2>2. Len(table) = 0
    <3> DEFINE c == Len(table)
               n == RecordLength
    <3>1. n \in Nat \ {0} /\ c \in Nat
      BY <2>1, FieldsFit
    <3>2. c * n = 0
      <4>1. Len(file) = c * n
        BY <2>1, Zenon DEF Holds
      <4>2. QED
        BY <1>4, <2>1, <4>1
    <3> HIDE DEF c, n
    <3>3. 0 * n = 0
      BY <3>1
    <3>4. c = 0
      BY <3>1, <3>2, <3>3, FewerRecords
    <3>5. QED
      BY <3>4 DEF c
  <2>3. QED
    BY <2>1, <2>2
<1>5. QED
  BY <1>2, <1>3, <1>4

\* What is inserted, and the answer to it.
LEMMA InsertServes ==
    ASSUME TableInv, NEW st \in Statement, Insert(st), NoTextIsEmpty(table')
    PROVE  Rows!Next
<1>1. answer = NoAnswer /\ st.op = "insert" /\ pc = "idle" /\ TableInv'
  BY InsertTable DEF Insert, Ready
<1>2. CASE InsertLegal(st)
  <2>1. /\ Holds(file', Stored(file')) /\ Stored(file') = Append(table, RowOf(st.values))
        /\ FileInv'
    BY <1>2, InsertHolds, InsertFile DEF TableInv
  <2>2. answer' = Answer(st, AllRows(file')) /\ table' = Stored(file')
    BY <1>2 DEF Insert, End
  <2>3. AllRows(file') = table'
    BY <2>1, <2>2, AllRowsAre, NoneEmptyIs DEF Holds, FileInv
  <2>4. Rows!Serve(st)
    <3>1. table' = Append(table, [f \in Rows!Fields |-> st.values[f].word])
      BY <2>1, <2>2 DEF RowOf, Rows!Fields, Fields
    <3>2. answer' = Rows!Answer(st, table')
      BY <2>2, <2>3 DEF Answer, Rows!Answer
    <3>3. QED
      BY <1>1, <3>1, <3>2 DEF Rows!Serve
  <2>5. Rows!Legal(st)
    BY <1>1, <1>2, InsertIsLegal
  <2>6. QED
    BY <1>1, <2>2, <2>4, <2>5, Served
<1>3. CASE ~InsertLegal(st)
  <2>1. answer' = Error(st) /\ table' = Stored(file') /\ file' = file
    BY <1>3 DEF Insert, End
  <2>2. table' = table
    BY <1>1, <2>1 DEF TableInv
  <2>3. ~Rows!Legal(st)
    BY <1>1, <1>3, InsertIsLegal
  <2>4. QED
    BY <1>1, <2>1, <2>2, <2>3, Rejected
<1>4. QED
  BY <1>2, <1>3

\* A statement that is wrong is rejected before it scans.
LEMMA StartServes ==
    ASSUME TableInv, NEW st \in Statement, Start(st)
    PROVE  Rows!Next \/ UNCHANGED <<table, answer>>
<1>1. answer = NoAnswer /\ st.op # "insert" /\ pc = "idle" /\ file' = file
  BY DEF Start, Ready
<1>2. CASE (st.op = "update" /\ ~UpdateLegal(st)) \/ (st.op = "select" /\ ~SelectLegal(st))
  <2>1. answer' = Error(st) /\ table' = Stored(file')
    BY <1>2 DEF Start, End
  <2>2. table' = table
    BY <1>1, <2>1 DEF TableInv
  <2>3. ~Rows!Legal(st)
    BY <1>1, <1>2, ScanIsLegal
  <2>4. QED
    BY <1>1, <2>1, <2>2, <2>3, Rejected
<1>3. CASE ~((st.op = "update" /\ ~UpdateLegal(st)) \/ (st.op = "select" /\ ~SelectLegal(st)))
  BY <1>3 DEF Start
<1>4. QED
  BY <1>2, <1>3

\* A condition that is wrong is found so on the first row, before anything has
\* been changed; a number is refused when errno was there before the statement.
LEMMA ThrowServes ==
    ASSUME TableInv, Throw, NoneEmpty(table)
    PROVE  Rows!Next \/ Refused
<1>1. /\ pc = "scan" /\ fin < Len(file) /\ CondThrows /\ stmt \in Statement
      /\ answer = NoAnswer /\ stmt.op \in {"select", "update", "delete"}
      /\ fin = 0 => Stored(file) = table
  BY DEF Throw, TableInv, FileInv
<1>2. answer' = Error(stmt) /\ table' = Stored(file)
  BY ThrowTable
<1>3. CASE CondWrong
  <2>1. table' = table
    BY <1>1, <1>2, <1>3 DEF TableInv
  <2>2. ~Rows!Legal(stmt)
    BY <1>1, <1>3, ScanIsLegal, CondIsLegal
  <2>3. QED
    BY <1>1, <1>2, <2>1, <2>2, Rejected
<1>4. CASE ~CondWrong
  <2>1. Compares /\ AfterField
    BY <1>1, <1>4 DEF CondThrows, CondRefused, Compares
  <2>2. erange
    <3>1. PICK k \in 1..Len(table) : AtRow(k)
      BY <1>1, ScanAt
    <3>2. QED
      BY <2>1, <3>1 DEF AfterField, AtRow
  <2>3. fin = 0
    BY <1>1, <2>1, <2>2 DEF TableInv, ErangeInv
  <2>4. HasNumber(stmt)
    BY <1>1, <2>1 DEF HasNumber, Compares
  <2>5. QED
    BY <1>1, <1>2, <2>2, <2>3, <2>4 DEF Refused
<1>5. QED
  BY <1>3, <1>4

\* A statement whose rows are read right does not set errno.
LEMMA ScanKeepsErange ==
    ASSUME TableInv, Next, NoTextIsEmpty(table), pc = "scan", erange'
    PROVE  erange
<1>1. NoneEmpty(table)
  <2>1. table \in Seq(AnyRow)
    BY DEF TableInv
  <2>2. QED
    BY <2>1, NoneEmptyIs
<1>2. CASE Throw
  <2>1. AfterField /\ fin < Len(file)
    BY <1>2 DEF Throw
  <2>2. PICK k \in 1..Len(table) : AtRow(k)
    BY <1>1, <2>1, ScanAt
  <2>3. QED
    BY <2>1, <2>2 DEF AfterField, AtRow
<1>3. CASE UpdateRow
  <2>1. AfterSet /\ fin < Len(file) /\ UpdateLegal(stmt)
    BY <1>3 DEF UpdateRow, Scanning, TableInv, FileInv
  <2>2. PICK k \in 1..Len(table) : AtRow(k)
    BY <1>1, <2>1, ScanAt
  <2>3. stmt.from # 0 /\ IsNum(stmt.field) => stmt.from \in Fields /\ IsNum(stmt.from)
    BY <2>1 DEF UpdateLegal
  <2>4. QED
    BY <2>1, <2>2, <2>3 DEF AfterSet, AtRow
<1>4. CASE RefuseSet
  BY <1>4 DEF RefuseSet
<1>5. CASE Send \/ Skip \/ SelectRow \/ DeleteRow \/ Finish
  BY <1>5 DEF Send, Skip, SelectRow, DeleteRow, Finish
<1>6. ~Elsewhere /\ \A st \in Statement : ~Insert(st) /\ ~Start(st)
  BY DEF Elsewhere, Insert, Start, Ready
<1>7. QED
  BY <1>2, <1>3, <1>4, <1>5, <1>6 DEF Next

\* So is a number to set.
LEMMA RefuseSetServes == ASSUME TableInv, RefuseSet PROVE Refused
<1>1. /\ pc = "scan" /\ stmt.op = "update" /\ SetRefused /\ stmt \in Statement
      /\ answer = NoAnswer /\ UpdateLegal(stmt) /\ Stored(file) = table
  BY DEF RefuseSet, Scanning, TableInv, FileInv, ErangeInv
<1>2. answer' = Error(stmt) /\ table' = table
  BY <1>1, ThrowTable
<1>3. HasNumber(stmt)
  BY <1>1 DEF HasNumber, SetRefused, UpdateLegal, Fits
<1>4. QED
  BY <1>1, <1>2, <1>3 DEF Refused, SetRefused

\* When a scan is over, it has done the whole table.
LEMMA ScanIsOver ==
    ASSUME TableInv, Finish, NoneEmpty(table)
    PROVE  Scanned(Len(table))
<1> DEFINE n == RecordLength
           c == Len(table)
           rs == Stored(file)
<1>1. /\ pc = "scan" /\ fin = Len(file) /\ rs \in Seq(AnyRow) /\ Len(file) = Len(rs) * n
      /\ n \in Nat \ {0} /\ table \in Seq(AnyRow) /\ c \in Nat
      /\ stmt.op \in {"select", "update", "delete"}
  BY FieldsFit DEF Finish, TableInv, Holds
<1>2. PICK k \in 0..c : Scanned(k)
  BY <1>1 DEF TableInv
<1>3. Len(rs) = c
  <2>1. CASE stmt.op = "update"
    <3>1. DOMAIN rs = DOMAIN table
      BY <2>1, <1>2 DEF Scanned, UpdatedTo
    <3>2. QED
      BY <3>1, <1>1
  <2>2. CASE stmt.op # "update"
    BY <2>2, <1>1, <1>2 DEF Scanned
  <2>3. QED
    BY <2>1, <2>2
<1>4. k * n = c * n
  BY <1>1, <1>2, <1>3 DEF Scanned
<1> HIDE DEF n, c
<1>5. k = c
  BY <1>1, <1>2, <1>4, FewerRecords
<1>6. QED
  BY <1>2, <1>5 DEF c

\* The answer of a scan that is over is that of the table.
LEMMA FinishServes ==
    ASSUME TableInv, Finish, NoTextIsEmpty(table), NoTextIsEmpty(table'),
           NamesOnce(answer'.to)
    PROVE  Rows!Next
<1> DEFINE c == Len(table)
           P == MetIn(table, stmt.cond)
<1>1. /\ pc = "scan" /\ fin = Len(file) /\ stmt \in Statement /\ table \in Seq(AnyRow)
      /\ answer = NoAnswer /\ stmt.op \in {"select", "update", "delete"}
      /\ stmt.op = "select" => SelectLegal(stmt)
      /\ stmt.op = "update" => UpdateLegal(stmt)
      /\ file' = IF stmt.op = "delete" THEN kept ELSE file
  BY DEF Finish, TableInv, FileInv
<1>2. /\ answer' = Answer(stmt, IF stmt.op = "select" THEN kept ELSE AllRows(file'))
      /\ table' = Stored(file') /\ Records(file') /\ Holds(file', Stored(file'))
  BY FinishTable DEF TableInv
<1>3. NoneEmpty(table) /\ NoneEmpty(table')
  BY <1>1, <1>2, NoneEmptyIs DEF Holds
<1>4. Scanned(c)
  BY <1>3, ScanIsOver
<1>5. AllRows(file') = table'
  BY <1>2, <1>3, AllRowsAre
<1>6. /\ P = Rows!Met(stmt.cond)
      /\ \A Q : Picked(table, Q)[c] = Rows!Pick(table, Q)
  BY DEF MetIn, Rows!Met, Rows!Pick, Rows!Picked, Picked
<1>7. stmt.op # "insert" /\ Rows!CondLegal(stmt.cond)
  BY <1>1, CondIsLegal
<1>8. Rows!Legal(stmt)
  BY <1>1, <1>7, ScanIsLegal
<1>9. Rows!Serve(stmt)
  <2>1. CASE stmt.op = "select"
    <3>1. NamesOnce(stmt)
      BY <1>2 DEF Answer
    <3>2. kept = Projections(Rows!Pick(table, Rows!Met(stmt.cond)), stmt.fields)
          /\ table' = table
      BY <1>1, <1>2, <1>4, <1>6, <2>1, <3>1 DEF Scanned
    <3>3. answer' = Answer(stmt, kept)
      BY <1>2, <2>1
    <3>4. QED
      BY <2>1, <3>2, <3>3 DEF Rows!Serve, Projections, Answer, Rows!Answer
  <2>2. CASE stmt.op = "update"
    <3>1. table' = UpdatedTo(table, stmt, c)
      BY <1>1, <1>2, <1>4, <2>2 DEF Scanned
    <3>2. UpdatedTo(table, stmt, c) = [k \in DOMAIN table |-> Rows!Updated(table[k], stmt)]
      <4>1. \A k \in DOMAIN table : k <= c
        BY <1>1
      <4>2. QED
        BY <4>1 DEF UpdatedTo
    <3>3. answer' = Answer(stmt, table')
      BY <1>2, <1>5, <2>2
    <3>4. QED
      BY <2>2, <3>1, <3>2, <3>3 DEF Rows!Serve, Answer, Rows!Answer
  <2>3. CASE stmt.op = "delete"
    <3>1. table' = Rows!Pick(table, DOMAIN table \ Rows!Met(stmt.cond))
      BY <1>1, <1>2, <1>4, <1>6, <2>3 DEF Scanned
    <3>2. answer' = Answer(stmt, table')
      BY <1>2, <1>5, <2>3
    <3>3. QED
      BY <2>3, <3>1, <3>2 DEF Rows!Serve, Answer, Rows!Answer
  <2>4. QED
    BY <1>1, <2>1, <2>2, <2>3
<1>10. QED
  BY <1>1, <1>2, <1>8, <1>9, Served

\* Every step is one of the table of rows, or none, or a refusal.
LEMMA NextServes ==
    ASSUME TableInv, Next, NoTextIsEmpty(table), NoTextIsEmpty(table'),
           NamesOnce(answer'.to)
    PROVE  Refused \/ Rows!Next \/ UNCHANGED <<table, answer>>
<1>1. CASE \E st \in Statement : Insert(st) \/ Start(st)
  BY <1>1, InsertServes, StartServes
<1>2. CASE Send
  <2>1. answer # Rows!NoAnswer /\ answer' = Rows!NoAnswer /\ table' = table
    BY <1>2 DEF Send, NoAnswer, Rows!NoAnswer
  <2>2. QED
    BY <2>1 DEF Rows!Next
<1>3. CASE Throw \/ RefuseSet
  <2>1. CASE Throw
    <3>1. table \in Seq(AnyRow)
      BY <2>1 DEF Throw, TableInv
    <3>2. QED
      BY <2>1, <3>1, ThrowServes, NoneEmptyIs
  <2>2. QED
    BY <1>3, <2>1, RefuseSetServes
<1>4. CASE Elsewhere \/ Skip \/ SelectRow \/ DeleteRow
  BY <1>4 DEF Elsewhere, Skip, SelectRow, DeleteRow
<1>5. CASE UpdateRow
  <2>1. table \in Seq(AnyRow)
    BY <1>5 DEF UpdateRow, Scanning, TableInv
  <2>2. QED
    BY <1>5, <2>1, UpdateRowTable, NoneEmptyIs
<1>6. CASE Finish
  BY <1>6, FinishServes
<1>7. QED
  BY <1>1, <1>2, <1>3, <1>4, <1>5, <1>6 DEF Next

\* In every state each field of the file, filled up with blanks, holds a word that
\* has none and fits it, and a numeral where there are numbers: also when rows have
\* been misread and what was read is written back (server.cpp:106-162, 528-567).
THEOREM FieldsHoldWords == Spec => []Holds(file, Stored(file))
<1>1. TableInv => Holds(file, Stored(file))
  BY DEF TableInv
<1>2. QED
  BY <1>1, TableInvariant, PTL

\* The statements on the file are those on a table of rows: each has the effect, and
\* gets the answer, that TableRows gives it, for any widths and any statements,
\* where no text is empty and no field is named twice. Only an errno that the worker
\* has come with can make it refuse a number instead, and that changes nothing; the
\* reading of its rows does not set it (server.cpp:222-659).
THEOREM ImplementsTable == Spec => Relational
<1> DEFINE RowStep ==
        /\ NoTextIsEmpty(table) /\ NoTextIsEmpty(table')
        /\ NamesOnce(answer'.to)
        => /\ Refused \/ [Rows!Next]_<<table, answer>>
           /\ pc = "scan" /\ erange' => erange
<1>1. Init => Rows!Init
  BY DEF Init, Rows!Init, NoAnswer, Rows!NoAnswer
<1>2. TableInv /\ [Next]_vars => [RowStep]_vars
  BY NextServes, ScanKeepsErange DEF vars
<1>3. QED
  BY <1>1, <1>2, TableInvariant, PTL DEF Spec, Relational

=============================================================================
