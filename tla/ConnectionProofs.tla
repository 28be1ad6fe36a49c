--------------------------- MODULE ConnectionProofs --------------------------
(***************************************************************************)
(* Proofs about Connection. What is under way on a connection is bounded,  *)
(* and the client and its worker never disagree on where in the stream     *)
(* they are, whatever the lengths of lists, and whoever ends at what       *)
(* moment.                                                                 *)
(*                                                                         *)
(* The second is proved from what a reader wants and what is sent: first   *)
(* that every statement and every answer is consumed by the wants of its   *)
(* reader, then that the rest of a statement, and what is to come of an    *)
(* answer, stays so in every step.                                         *)
(***************************************************************************)
EXTENDS Connection, SequenceLemmas, TLAPS

\* A finite sequence, of pieces of whatever sort.
IsSequence(s) == s \in Seq({s[i] : i \in 1..Len(s)})

\* A sequence over a set is a sequence.
LEMMA SequenceOf == ASSUME NEW S, NEW s \in Seq(S) PROVE IsSequence(s)
BY DEF IsSequence

\* The sequences that the actions make, and their lengths.
LEMMA EmptyIsSequence == IsSequence(<<>>) /\ Len(<<>>) = 0
BY DEF IsSequence

\* Append makes a sequence that is one longer.
LEMMA AppendIsSequence ==
    ASSUME NEW s, IsSequence(s), NEW e
    PROVE  IsSequence(Append(s, e)) /\ Len(Append(s, e)) = Len(s) + 1
<1> DEFINE S == {s[i] : i \in 1..Len(s)} \cup {e}
<1>1. s \in Seq(S)
  BY DEF IsSequence
<1>2. Append(s, e) \in Seq(S) /\ Len(Append(s, e)) = Len(s) + 1
  BY <1>1
<1>3. QED
  BY <1>2, SequenceOf

\* Tail makes one that is one shorter.
LEMMA TailIsSequence ==
    ASSUME NEW s, IsSequence(s), s # <<>>
    PROVE  IsSequence(Tail(s)) /\ Len(Tail(s)) = Len(s) - 1
<1> DEFINE S == {s[i] : i \in 1..Len(s)}
<1>1. s \in Seq(S)
  BY DEF IsSequence
<1>2. Tail(s) \in Seq(S) /\ Len(Tail(s)) = Len(s) - 1
  BY <1>1
<1>3. QED
  BY <1>2, SequenceOf

-----------------------------------------------------------------------------
(* Type correctness *)

\* A worker has read none of the two words of a header before and after its life,
\* at most the first at the top of its loop.
HeaderOK ==
    /\ worker = "top" => Len(header) <= 1
    /\ worker \in {"none", "gone"} => header = <<>>

SequencesOK == IsSequence(up) /\ IsSequence(down) /\ IsSequence(header)

IInv == TypeOK /\ HeaderOK /\ SequencesOK

USE DEF IInv, TypeOK, HeaderOK, SequencesOK, clientVars, workerVars, serverVars

\* At the start nothing is under way.
LEMMA InitIInv == Init => IInv
<1>1. SUFFICES ASSUME Init PROVE IInv
  OBVIOUS
<1>2. up = <<>> /\ down = <<>> /\ header = <<>>
  BY <1>1 DEF Init
<1>3. SequencesOK /\ Len(up) = 0 /\ Len(down) = 0 /\ Len(header) = 0
  <2>1. IsSequence(up) /\ IsSequence(down) /\ IsSequence(header)
    BY ONLY <1>2, EmptyIsSequence, Zenon
  <2>2. Len(up) = 0 /\ Len(down) = 0 /\ Len(header) = 0
    BY ONLY <1>2, EmptyIsSequence
  <2>3. QED
    BY <2>1, <2>2
<1>4. client = "start" /\ worker = "none" /\ copies = {"main"} /\ ctrlC = FALSE
  BY <1>1 DEF Init
<1>5. TypeOK
  <2>1. copies \subseteq {"main", "later"} /\ ctrlC \in BOOLEAN
    BY <1>4
  <2>2. Len(up) <= Capacity /\ Len(down) <= Capacity /\ Len(header) <= 2
    BY <1>3, CapacityAssumption
  <2>3. QED
    BY <1>4, <2>1, <2>2
<1>6. HeaderOK
  BY <1>2, <1>4
<1>7. QED
  BY <1>3, <1>5, <1>6

\* The client puts a piece on its way only where the network has room.
LEMMA ClientStepIInv == ASSUME IInv, ClientStep PROVE IInv'
<1> USE DEF ClientLeaves
<1>1. CASE ClientSend
  BY <1>1, AppendIsSequence, CapacityAssumption DEF ClientSend
<1>2. CASE ClientRecv
  BY <1>2, TailIsSequence, CapacityAssumption DEF ClientRecv
<1>3. CASE ClientSent \/ TooLong \/ ClientSendFails \/ ClientRead \/ ClientTold
  BY <1>3 DEF ClientSent, TooLong, ClientSendFails, ClientRead, ClientTold
<1>4. QED
  BY <1>1, <1>2, <1>3 DEF ClientStep

\* The worker keeps no word of the last header when it reads the next.
LEMMA WorkerStepIInv == ASSUME IInv, WorkerStep PROVE IInv'
<1> USE DEF WorkerEnds
<1>1. CASE RecvHeader
  <2>1. /\ worker = "top" /\ up # <<>> /\ up' = Tail(up)
        /\ header' = Append(header, Head(up).val)
        /\ IF header = <<>> THEN worker' = worker ELSE worker' = "reading"
        /\ UNCHANGED <<client, down, copies, ctrlC>>
    BY <1>1 DEF RecvHeader
  <2>2. IsSequence(up') /\ Len(up') = Len(up) - 1
    BY <2>1, TailIsSequence
  <2>3. IsSequence(header') /\ Len(header') = Len(header) + 1
    BY <2>1, AppendIsSequence
  <2>4. header = <<>> => Len(header) = 0
    BY EmptyIsSequence
  <2>5. Len(up) \in Nat /\ Len(header) \in Nat
    BY DEF IsSequence
  <2>6. QED
    BY <2>1, <2>2, <2>3, <2>4, <2>5, CapacityAssumption
<1>2. CASE Recv
  BY <1>2, TailIsSequence, CapacityAssumption DEF Recv
<1>3. CASE RecvFails
  BY <1>3, EmptyIsSequence DEF RecvFails
<1>4. CASE Complete \/ Execute
  BY <1>4 DEF Complete, Execute
<1>5. CASE Fail
  BY <1>5, EmptyIsSequence DEF Fail
<1>6. CASE WorkerSend
  BY <1>6, AppendIsSequence, CapacityAssumption DEF WorkerSend
<1>7. CASE WorkerSent
  BY <1>7, EmptyIsSequence DEF WorkerSent
<1>8. CASE WorkerSendFails
  BY <1>8, EmptyIsSequence DEF WorkerSendFails
<1>9. QED
  BY <1>1, <1>2, <1>3, <1>4, <1>5, <1>6, <1>7, <1>8 DEF WorkerStep

\* The user and the other processes of the server put nothing on its way.
LEMMA OtherStepsIInv ==
    ASSUME IInv,
           \/ \E st \in Statements : Enter(st)
           \/ Connect \/ Quit \/ Closed
           \/ Accept \/ ForkLater \/ LaterEnds \/ MainEnds \/ KillMain
           \/ CtrlC \/ Interrupted
    PROVE  IInv'
<1> USE DEF ClientLeaves, WithoutMain
<1>1. CASE \E st \in Statements : Enter(st)
  BY <1>1 DEF Enter
<1>2. CASE Connect \/ Quit \/ Closed
  BY <1>2 DEF Connect, Quit, Closed
<1>3. CASE Accept
  BY <1>3, EmptyIsSequence DEF Accept
<1>4. CASE ForkLater \/ LaterEnds \/ MainEnds \/ KillMain \/ CtrlC
  BY <1>4 DEF ForkLater, LaterEnds, MainEnds, KillMain, CtrlC
<1>5. CASE Interrupted
  <2>1. CASE WorkerEnds /\ UNCHANGED <<client, up, down, copies, ctrlC>>
    BY <2>1, EmptyIsSequence DEF WorkerEnds
  <2>2. CASE /\ copies' \in {WithoutMain, copies \ {"later"}}
             /\ UNCHANGED <<client, worker, header, up, down, ctrlC>>
    BY <2>2
  <2>3. QED
    BY <1>5, <2>1, <2>2 DEF Interrupted
<1>6. QED
  BY <1>1, <1>2, <1>3, <1>4, <1>5

\* Every step keeps it.
LEMMA NextIInv == IInv /\ [Next]_vars => IInv'
<1>1. ASSUME IInv, UNCHANGED vars PROVE IInv'
  BY <1>1 DEF vars
<1>2. QED
  BY <1>1, ClientStepIInv, WorkerStepIInv, OtherStepsIInv DEF Next

\* Neither direction ever holds more than the network can, and a worker never
\* has more than the two words of one header: for any lists and any faults.
THEOREM TypeCorrect == Spec => []TypeOK
<1>1. IInv => TypeOK
  OBVIOUS
<1>2. QED
  BY <1>1, InitIInv, NextIInv, PTL DEF Spec

HIDE DEF IInv, TypeOK, HeaderOK, SequencesOK, clientVars, workerVars, serverVars

-----------------------------------------------------------------------------
(* Pieces and wants, and when one is the other's *)

Piece == [sort : {"int", "num", "bool", "bytes"}, val : Int]

\* Wants without lists, with lists of them, and with lists of these.
Simple == [want : {"string", "num", "bool", "int"}]
             \cup [want : {"bytes"}, len : Int]
Nested == Simple \cup [want : {"list"}, of : Seq(Simple)]
Wants  == Simple \cup [want : {"list"}, of : Seq(Nested)]

\* A reader that wants ws reads s and then wants nothing: r is what it wants
\* after each piece.
Reads(r, s, ws) ==
    /\ r[0] = ws /\ r[Len(s)] = <<>>
    /\ \A i \in 1..Len(s) : /\ r[i - 1] # <<>>
                            /\ Fits(s[i], r[i - 1])
                            /\ r[i] = After(s[i], r[i - 1])

Consumed(s, ws) ==
    /\ s \in Seq(Piece)
    /\ \E r \in [0..Len(s) -> Seq(Wants)] : Reads(r, s, ws)

\* What is wanted inside a list is wanted.
LEMMA WantsNest ==
    /\ Simple \subseteq Nested /\ Simple \subseteq Wants /\ Nested \subseteq Wants
    /\ Seq(Simple) \subseteq Seq(Nested) /\ Seq(Nested) \subseteq Seq(Wants)
<1>1. Simple \subseteq Nested /\ Simple \subseteq Wants
  BY DEF Nested, Wants
<1>2. Seq(Simple) \subseteq Seq(Nested)
  BY <1>1, SeqMonotonic
<1>3. [want : {"list"}, of : Seq(Simple)] \subseteq [want : {"list"}, of : Seq(Nested)]
  BY <1>2
<1>4. Nested \subseteq Wants
  BY <1>3 DEF Nested, Wants
<1>5. QED
  BY <1>1, <1>2, <1>4, SeqMonotonic

\* A sequence over and over is a sequence.
LEMMA RepeatUnrolled ==
    ASSUME NEW S, NEW s \in Seq(S), NEW n \in Nat
    PROVE  \E f \in [0..n -> Seq(S)] :
              /\ f[0] = <<>> /\ f[n] = Repeat(s, n)
              /\ \A i \in 1..n : f[i] = f[i - 1] \o s
<1> DEFINE seqs == [i \in 1..n |-> s]
<1>1. seqs \in [1..n -> Seq(S)] /\ \A i \in 1..n : seqs[i] = s
  OBVIOUS
<1>2. Repeat(s, n) = FlattenSeq(seqs)
  BY DEF Repeat
<1> HIDE DEF seqs
<1>3. GoesByPiece(seqs, n, S)
  BY <1>1, FlattenUnrolled
<1>4. PICK f \in [0..n -> Seq(S)] :
              /\ f[0] = <<>> /\ f[n] = FlattenSeq(seqs)
              /\ \A i \in 1..n : f[i] = f[i - 1] \o seqs[i]
  BY <1>3 DEF GoesByPiece
<1>5. QED
  BY <1>1, <1>2, <1>4

\* It is over the same set, whatever the number that came in.
LEMMA RepeatType ==
    ASSUME NEW S, NEW s \in Seq(S), NEW n \in Int
    PROVE  Repeat(s, n) \in Seq(S)
<1>1. ASSUME NEW m \in Nat PROVE Repeat(s, m) \in Seq(S)
  <2>1. PICK f \in [0..m -> Seq(S)] : f[m] = Repeat(s, m)
    BY RepeatUnrolled, Zenon
  <2>2. QED
    BY <2>1
<1>2. CASE n \notin Nat
  <2>1. 1..n = 1..0
    BY <1>2
  <2>2. Repeat(s, n) = Repeat(s, 0)
    BY <2>1 DEF Repeat
  <2>3. Repeat(s, 0) \in Seq(S)
    BY <1>1
  <2>4. QED
    BY <2>2, <2>3
<1>3. QED
  BY <1>1, <1>2

\* After a piece, wants are left.
LEMMA AfterType ==
    ASSUME NEW ws \in Seq(Wants), ws # <<>>, NEW p \in Piece
    PROVE  After(p, ws) \in Seq(Wants)
<1> DEFINE h == Head(ws)
           t == Tail(ws)
<1>1. h \in Wants /\ t \in Seq(Wants)
  OBVIOUS
<1>2. p.val \in Int
  BY DEF Piece
<1>3. WantBytes(p.val) \in Seq(Wants)
  <2>1. [want |-> "bytes", len |-> p.val] \in Wants
    BY <1>2 DEF Wants, Simple
  <2>2. QED
    BY <2>1 DEF WantBytes
<1>4. ASSUME h.want = "list" PROVE h.of \in Seq(Wants)
  <2>1. h \in [want : {"list"}, of : Seq(Nested)]
    BY <1>1, <1>4 DEF Wants, Simple
  <2>2. QED
    BY <2>1, WantsNest
<1>5. CASE h.want = "string"
  BY <1>1, <1>3, <1>5 DEF After
<1>6. CASE h.want = "list"
  <2>1. Repeat(h.of, p.val) \in Seq(Wants)
    BY <1>2, <1>4, <1>6, RepeatType
  <2>2. QED
    BY <1>1, <1>6, <2>1 DEF After
<1>7. CASE h.want \notin {"string", "list"}
  BY <1>1, <1>7 DEF After
<1>8. QED
  BY <1>5, <1>6, <1>7

\* What comes after the first want does not change how a piece is read.
LEMMA FirstWantOnly ==
    ASSUME NEW ws \in Seq(Wants), ws # <<>>, NEW vs \in Seq(Wants), NEW p \in Piece
    PROVE  /\ ws \o vs # <<>>
           /\ Fits(p, ws \o vs) <=> Fits(p, ws)
           /\ After(p, ws \o vs) = After(p, ws) \o vs
<1> DEFINE h == Head(ws)
           t == Tail(ws)
<1>1. h \in Wants /\ t \in Seq(Wants)
  OBVIOUS
<1>2. ws \o vs # <<>> /\ Head(ws \o vs) = h /\ Tail(ws \o vs) = t \o vs
  OBVIOUS
<1>3. p.val \in Int
  BY DEF Piece
<1>4. WantBytes(p.val) \in Seq(Wants)
  <2>1. [want |-> "bytes", len |-> p.val] \in Wants
    BY <1>3 DEF Wants, Simple
  <2>2. QED
    BY <2>1 DEF WantBytes
<1>5. ASSUME h.want = "list" PROVE Repeat(h.of, p.val) \in Seq(Wants)
  <2>1. h \in [want : {"list"}, of : Seq(Nested)]
    BY <1>1, <1>5 DEF Wants, Simple
  <2>2. QED
    BY <2>1, <1>3, WantsNest, RepeatType
<1>6. After(p, ws \o vs) = After(p, ws) \o vs
  <2>1. CASE h.want = "string"
    <3>1. /\ After(p, ws \o vs) = WantBytes(p.val) \o (t \o vs)
          /\ After(p, ws) = WantBytes(p.val) \o t
      BY <1>2, <2>1 DEF After
    <3>2. QED
      BY <3>1, <1>1, <1>4, ConcatAssociative
  <2>2. CASE h.want = "list"
    <3>1. /\ After(p, ws \o vs) = Repeat(h.of, p.val) \o (t \o vs)
          /\ After(p, ws) = Repeat(h.of, p.val) \o t
      BY <1>2, <2>2 DEF After
    <3>2. QED
      BY <3>1, <2>2, <1>1, <1>5, ConcatAssociative
  <2>3. CASE h.want \notin {"string", "list"}
    BY <1>2, <2>3 DEF After
  <2>4. QED
    BY <2>1, <2>2, <2>3
<1>7. Fits(p, ws \o vs) <=> Fits(p, ws)
  BY <1>2 DEF Fits
<1>8. QED
  BY <1>2, <1>6, <1>7

\* It is about pieces and wants.
LEMMA ConsumedTypes ==
    ASSUME NEW s, NEW ws, Consumed(s, ws)
    PROVE  s \in Seq(Piece) /\ ws \in Seq(Wants)
<1>1. s \in Seq(Piece)
  BY DEF Consumed
<1>2. PICK r \in [0..Len(s) -> Seq(Wants)] : r[0] = ws
  BY DEF Consumed, Reads
<1>3. 0 \in 0..Len(s)
  BY <1>1
<1>4. QED
  BY <1>1, <1>2, <1>3

\* Nothing is read for no want.
LEMMA ConsumedNothing ==
    /\ Consumed(<<>>, <<>>)
    /\ \A s : Consumed(s, <<>>) => s = <<>>
<1>1. Consumed(<<>>, <<>>)
  <2> DEFINE r == [i \in 0..0 |-> <<>>]
  <2>1. r \in [0..0 -> Seq(Wants)] /\ r[0] = <<>>
    BY EmptySeq
  <2>2. Len(<<>>) = 0 /\ 1..0 = {}
    OBVIOUS
  <2> HIDE DEF r
  <2>3. Reads(r, <<>>, <<>>)
    BY <2>1, <2>2 DEF Reads
  <2>4. QED
    BY <2>1, <2>2, <2>3, EmptySeq DEF Consumed
<1>2. ASSUME NEW s, Consumed(s, <<>>) PROVE s = <<>>
  <2>1. s \in Seq(Piece)
    BY <1>2 DEF Consumed
  <2>2. PICK r \in [0..Len(s) -> Seq(Wants)] : Reads(r, s, <<>>)
    BY <1>2 DEF Consumed
  <2>3. s # <<>> => 1 \in 1..Len(s) /\ r[1 - 1] = <<>>
    BY <2>1, <2>2 DEF Reads
  <2>4. QED
    BY <2>2, <2>3 DEF Reads
<1>3. QED
  BY <1>1, <1>2

\* The first piece is for the first want, and the rest for what is wanted then.
LEMMA ConsumedStep ==
    ASSUME NEW s, NEW ws, Consumed(s, ws), s # <<>>
    PROVE  /\ ws \in Seq(Wants) /\ ws # <<>>
           /\ Head(s) \in Piece /\ Fits(Head(s), ws)
           /\ Consumed(Tail(s), After(Head(s), ws))
<1>1. s \in Seq(Piece)
  BY DEF Consumed
<1>2. PICK r \in [0..Len(s) -> Seq(Wants)] : Reads(r, s, ws)
  BY DEF Consumed
<1> DEFINE n == Len(Tail(s))
           q == [i \in 0..n |-> r[i + 1]]
<1>3. /\ n \in Nat /\ n = Len(s) - 1 /\ Head(s) = s[1] /\ Head(s) \in Piece
      /\ Tail(s) \in Seq(Piece) /\ \A i \in 1..n : Tail(s)[i] = s[i + 1]
  BY <1>1
<1>4. \A i \in 1..Len(s) : /\ r[i - 1] # <<>>
                           /\ Fits(s[i], r[i - 1])
                           /\ r[i] = After(s[i], r[i - 1])
  BY <1>2 DEF Reads
<1>5. r[0] = ws /\ r[Len(s)] = <<>> /\ ws \in Seq(Wants)
  BY <1>2, <1>3 DEF Reads
<1>6. 1 \in 1..Len(s) /\ 1 - 1 = 0
  BY <1>3
<1>7. ws # <<>> /\ Fits(Head(s), ws) /\ r[1] = After(Head(s), ws)
  BY <1>3, <1>4, <1>5, <1>6
<1> HIDE DEF n
<1>8. q \in [0..n -> Seq(Wants)]
  BY <1>3
<1>9. q[0] = After(Head(s), ws) /\ q[n] = <<>>
  BY <1>3, <1>5, <1>7
<1>10. ASSUME NEW i \in 1..n
       PROVE  /\ q[i - 1] # <<>>
              /\ Fits(Tail(s)[i], q[i - 1])
              /\ q[i] = After(Tail(s)[i], q[i - 1])
  <2>1. i + 1 \in 1..Len(s) /\ (i + 1) - 1 = i
    BY <1>3
  <2>2. q[i - 1] = r[i] /\ q[i] = r[i + 1] /\ Tail(s)[i] = s[i + 1]
    BY <1>3
  <2>3. QED
    BY <1>4, <2>1, <2>2
<1> HIDE DEF q
<1>11. Reads(q, Tail(s), After(Head(s), ws))
  BY <1>9, <1>10 DEF Reads, n
<1>12. Consumed(Tail(s), After(Head(s), ws))
  BY <1>3, <1>8, <1>11 DEF Consumed, n
<1>13. QED
  BY <1>3, <1>5, <1>7, <1>12

\* A piece for the first want, before what is for the wants after it.
LEMMA ConsumedPiece ==
    ASSUME NEW ws \in Seq(Wants), ws # <<>>, NEW p \in Piece, Fits(p, ws),
           NEW t, Consumed(t, After(p, ws))
    PROVE  Consumed(<<p>> \o t, ws)
<1> DEFINE s == <<p>> \o t
           vs == After(p, ws)
<1>1. t \in Seq(Piece)
  BY DEF Consumed
<1>2. PICK r \in [0..Len(t) -> Seq(Wants)] : Reads(r, t, vs)
  BY DEF Consumed
<1>3. /\ s \in Seq(Piece) /\ Len(t) \in Nat /\ Len(s) = Len(t) + 1 /\ s[1] = p
      /\ \A i \in 2..Len(s) : s[i] = t[i - 1]
  BY <1>1
<1> HIDE DEF s, vs
<1> DEFINE n == Len(s)
           q == [i \in 0..n |-> IF i = 0 THEN ws ELSE r[i - 1]]
<1>4. q \in [0..n -> Seq(Wants)]
  BY <1>3
<1>5. r[0] = vs /\ r[Len(t)] = <<>>
  BY <1>2 DEF Reads
<1>6. \A i \in 1..Len(t) : /\ r[i - 1] # <<>>
                           /\ Fits(t[i], r[i - 1])
                           /\ r[i] = After(t[i], r[i - 1])
  BY <1>2 DEF Reads
<1>7. q[0] = ws /\ q[n] = <<>>
  BY <1>3, <1>5
<1>8. ASSUME NEW i \in 1..n
      PROVE  /\ q[i - 1] # <<>>
             /\ Fits(s[i], q[i - 1])
             /\ q[i] = After(s[i], q[i - 1])
  <2>1. CASE i = 1
    <3>1. q[i - 1] = ws /\ q[i] = vs /\ s[i] = p
      BY <2>1, <1>3, <1>5
    <3>2. QED
      BY <3>1 DEF vs
  <2>2. CASE i # 1
    <3>1. /\ q[i - 1] = r[(i - 1) - 1] /\ q[i] = r[i - 1] /\ s[i] = t[i - 1]
          /\ i - 1 \in 1..Len(t)
      BY <2>2, <1>3
    <3>2. QED
      BY <3>1, <1>6
  <2>3. QED
    BY <2>1, <2>2
<1> HIDE DEF q
<1>9. Reads(q, s, ws)
  BY <1>7, <1>8 DEF Reads
<1>10. Consumed(s, ws)
  BY <1>3, <1>4, <1>9 DEF Consumed
<1>11. QED
  BY <1>10 DEF s

\* Read one sequence after the other, for what is wanted one after the other.
LEMMA ConsumedConcat ==
    ASSUME NEW s, NEW ws, Consumed(s, ws), NEW t, NEW vs, Consumed(t, vs)
    PROVE  Consumed(s \o t, ws \o vs)
<1>1. s \in Seq(Piece) /\ t \in Seq(Piece)
  BY DEF Consumed
<1>2. PICK r \in [0..Len(s) -> Seq(Wants)] : Reads(r, s, ws)
  BY DEF Consumed
<1>3. PICK q \in [0..Len(t) -> Seq(Wants)] : Reads(q, t, vs)
  BY DEF Consumed
<1> DEFINE st == s \o t
           k == Len(s)
           m == Len(t)
           n == Len(st)
<1>4. /\ st \in Seq(Piece) /\ k \in Nat /\ m \in Nat /\ n = k + m
      /\ \A i \in 1..k : st[i] = s[i] /\ s[i] \in Piece
      /\ \A i \in (k + 1)..n : st[i] = t[i - k]
  BY <1>1
<1> HIDE DEF st
<1>5. /\ r[0] = ws /\ r[k] = <<>> /\ q[0] = vs /\ q[m] = <<>>
      /\ vs \in Seq(Wants) /\ ws \in Seq(Wants)
      /\ \A i \in 1..k : /\ r[i - 1] # <<>>
                         /\ Fits(s[i], r[i - 1])
                         /\ r[i] = After(s[i], r[i - 1])
      /\ \A i \in 1..m : /\ q[i - 1] # <<>>
                         /\ Fits(t[i], q[i - 1])
                         /\ q[i] = After(t[i], q[i - 1])
  BY <1>2, <1>3, <1>4 DEF Reads
<1> DEFINE f == [i \in 0..n |-> IF i <= k THEN r[i] \o vs ELSE q[i - k]]
<1> HIDE DEF k, m, n
<1>6. \A i \in 0..k : r[i] \in Seq(Wants)
  BY <1>2 DEF k
<1>7. \A i \in 0..m : q[i] \in Seq(Wants)
  BY <1>3 DEF m
<1>8. /\ f \in [0..n -> Seq(Wants)]
      /\ \A i \in 0..n : i <= k => f[i] = r[i] \o vs
      /\ \A i \in 0..n : i > k => f[i] = q[i - k]
  <2>1. ASSUME NEW i \in 0..n, i <= k PROVE r[i] \o vs \in Seq(Wants)
    <3>1. r[i] \in Seq(Wants)
      BY <2>1, <1>4, <1>6
    <3>2. QED
      BY <3>1, <1>5
  <2>2. ASSUME NEW i \in 0..n, i > k PROVE q[i - k] \in Seq(Wants)
    BY <2>2, <1>4, <1>7
  <2>3. QED
    BY <2>1, <2>2, <1>4
<1> HIDE DEF f
<1>9. f[0] = ws \o vs
  <2>1. 0 \in 0..n /\ 0 <= k
    BY <1>4
  <2>2. QED
    BY <2>1, <1>5, <1>8
<1>10. f[k] = vs /\ f[n] = <<>>
  <2>1. f[k] = r[k] \o vs
    <3>1. k \in 0..n /\ k <= k
      BY <1>4
    <3>2. QED
      BY <3>1, <1>8
  <2>2. f[k] = vs
    BY <2>1, <1>5
  <2>3. CASE m = 0
    BY <2>2, <2>3, <1>4, <1>5
  <2>4. CASE m # 0
    <3>1. n > k /\ n - k = m /\ n \in 0..n
      BY <2>4, <1>4
    <3>2. QED
      BY <2>2, <3>1, <1>4, <1>5, <1>8
  <2>5. QED
    BY <2>3, <2>4
<1>11. ASSUME NEW i \in 1..n
       PROVE  /\ f[i - 1] # <<>>
              /\ Fits(st[i], f[i - 1])
              /\ f[i] = After(st[i], f[i - 1])
  <2>1. CASE i <= k
    <3>1. i \in 1..k /\ i - 1 \in 0..k /\ f[i - 1] = r[i - 1] \o vs /\ f[i] = r[i] \o vs
      <4>1. i \in 1..k /\ i - 1 \in 0..k /\ i \in 0..n /\ i - 1 \in 0..n
        BY <2>1, <1>4
      <4>2. QED
        BY <4>1, <1>8, <2>1
    <3>2. /\ r[i - 1] \in Seq(Wants) /\ r[i - 1] # <<>> /\ st[i] \in Piece
          /\ Fits(st[i], r[i - 1]) /\ r[i] = After(st[i], r[i - 1])
      BY <3>1, <1>4, <1>5, <1>6
    <3>3. /\ r[i - 1] \o vs # <<>>
          /\ Fits(st[i], r[i - 1] \o vs) <=> Fits(st[i], r[i - 1])
          /\ After(st[i], r[i - 1] \o vs) = After(st[i], r[i - 1]) \o vs
      BY <3>2, <1>5, FirstWantOnly
    <3>4. QED
      BY <3>1, <3>2, <3>3
  <2>2. CASE i > k
    <3>1. i - k \in 1..m /\ (i - k) - 1 \in 0..m /\ i \in (k + 1)..n
      BY <2>2, <1>4
    <3>2. f[i] = q[i - k] /\ st[i] = t[i - k]
      BY <2>2, <3>1, <1>4, <1>8
    <3>3. f[i - 1] = q[(i - k) - 1]
      <4>1. CASE i = k + 1
        <5>1. i - 1 = k /\ (i - k) - 1 = 0
          BY <4>1, <1>4
        <5>2. QED
          BY <5>1, <1>5, <1>10
      <4>2. CASE i # k + 1
        <5>1. i - 1 > k /\ i - 1 \in 0..n /\ (i - 1) - k = (i - k) - 1
          BY <4>2, <2>2, <1>4
        <5>2. f[i - 1] = q[(i - 1) - k]
          BY <5>1, <1>4, <1>8
        <5>3. QED
          BY <5>1, <5>2
      <4>3. QED
        BY <4>1, <4>2
    <3>4. QED
      BY <3>1, <3>2, <3>3, <1>5
  <2>3. QED
    BY <2>1, <2>2, <1>4
<1>12. Reads(f, st, ws \o vs)
  BY <1>9, <1>10, <1>11 DEF Reads, n
<1>13. Consumed(st, ws \o vs)
  BY <1>4, <1>8, <1>12 DEF Consumed, n
<1>14. QED
  BY <1>13 DEF st

\* The same over and over.
LEMMA ConsumedRepeat ==
    ASSUME NEW s, NEW ws, Consumed(s, ws), NEW n \in Nat
    PROVE  Consumed(Repeat(s, n), Repeat(ws, n))
<1>1. s \in Seq(Piece) /\ ws \in Seq(Wants)
  BY ConsumedTypes
<1>2. PICK f \in [0..n -> Seq(Piece)] :
              /\ f[0] = <<>> /\ f[n] = Repeat(s, n)
              /\ \A i \in 1..n : f[i] = f[i - 1] \o s
  BY <1>1, RepeatUnrolled
<1>3. PICK g \in [0..n -> Seq(Wants)] :
              /\ g[0] = <<>> /\ g[n] = Repeat(ws, n)
              /\ \A i \in 1..n : g[i] = g[i - 1] \o ws
  BY <1>1, RepeatUnrolled
<1> DEFINE T == {i \in 0..n : Consumed(f[i], g[i])}
<1>4. 0 \in T
  <2>1. Consumed(f[0], g[0])
    BY <1>2, <1>3, ConsumedNothing
  <2>2. QED
    BY <2>1
<1>5. ASSUME NEW i \in 1..n, i - 1 \in T PROVE i \in T
  <2>1. Consumed(f[i - 1], g[i - 1])
    BY <1>5
  <2>2. Consumed(f[i - 1] \o s, g[i - 1] \o ws)
    BY <2>1, ConsumedConcat
  <2>3. Consumed(f[i], g[i])
    BY <2>2, <1>2, <1>3
  <2>4. i \in 0..n
    OBVIOUS
  <2>5. QED
    BY <2>3, <2>4
<1> HIDE DEF T
<1>6. 0..n \subseteq T
  BY <1>4, <1>5, UpTo
<1>7. n \in T
  BY <1>6
<1>8. QED
  BY <1>2, <1>3, <1>7 DEF T

-----------------------------------------------------------------------------
(* What is sent is what is read *)

\* A piece that is read for a want of its sort.
LEMMA ConsumedOne ==
    ASSUME NEW p \in Piece, NEW w \in Simple, w.want = p.sort, w.want # "bytes"
    PROVE  Consumed(<<p>>, <<w>>)
<1>1. <<w>> \in Seq(Wants) /\ <<w>> # <<>> /\ Head(<<w>>) = w /\ Tail(<<w>>) = <<>>
  BY WantsNest
<1>2. w.want # "string" /\ w.want # "list"
  BY DEF Piece
<1>3. Fits(p, <<w>>) /\ After(p, <<w>>) = <<>>
  BY <1>1, <1>2 DEF Fits, After
<1>4. Consumed(<<p>> \o <<>>, <<w>>)
  BY <1>1, <1>3, ConsumedNothing, ConsumedPiece
<1>5. <<p>> \o <<>> = <<p>>
  OBVIOUS
<1>6. QED
  BY <1>4, <1>5

\* The pieces that are always one send.
LEMMA ConsumedWords ==
    /\ \A v \in Int : Consumed(Word(v), Want("int"))
    /\ Consumed(Num, Want("num"))
    /\ Consumed(Bool, Want("bool"))
<1>1. ASSUME NEW v \in Int PROVE Consumed(Word(v), Want("int"))
  <2>1. [sort |-> "int", val |-> v] \in Piece /\ [want |-> "int"] \in Simple
    BY DEF Piece, Simple
  <2>2. QED
    BY <2>1, ConsumedOne DEF Word, Want
<1>2. Consumed(Num, Want("num"))
  <2>1. [sort |-> "num", val |-> 0] \in Piece /\ [want |-> "num"] \in Simple
    BY DEF Piece, Simple
  <2>2. QED
    BY <2>1, ConsumedOne DEF Num, Want
<1>3. Consumed(Bool, Want("bool"))
  <2>1. [sort |-> "bool", val |-> 0] \in Piece /\ [want |-> "bool"] \in Simple
    BY DEF Piece, Simple
  <2>2. QED
    BY <2>1, ConsumedOne DEF Bool, Want
<1>4. QED
  BY <1>1, <1>2, <1>3

\* A string is read for a string, the empty one, which sends no bytes, too.
LEMMA ConsumedStr == ASSUME NEW n \in Nat PROVE Consumed(Str(n), WantStr)
<1> DEFINE p == [sort |-> "int", val |-> n]
           w == [want |-> "string"]
<1>1. p \in Piece /\ w \in Wants /\ p.val = n /\ p.sort = "int" /\ w.want = "string"
  BY DEF Piece, Wants, Simple
<1>2. WantStr = <<w>> /\ Word(n) = <<p>>
  BY DEF WantStr, Want, Word
<1> HIDE DEF p, w
<1>3. <<w>> \in Seq(Wants) /\ <<w>> # <<>> /\ Head(<<w>>) = w /\ Tail(<<w>>) = <<>>
  BY <1>1
<1>4. Consumed(Bytes(n), WantBytes(n))
  <2>1. CASE n = 0
    BY <2>1, ConsumedNothing DEF Bytes, WantBytes
  <2>2. CASE n # 0
    <3> DEFINE b == [sort |-> "bytes", val |-> n]
               u == [want |-> "bytes", len |-> n]
    <3>1. /\ b \in Piece /\ u \in Wants /\ b.sort = "bytes" /\ b.val = n
          /\ u.want = "bytes" /\ u.len = n
      BY DEF Piece, Wants, Simple
    <3>2. Bytes(n) = <<b>> /\ WantBytes(n) = <<u>>
      BY <2>2 DEF Bytes, WantBytes
    <3> HIDE DEF b, u
    <3>3. <<u>> \in Seq(Wants) /\ <<u>> # <<>> /\ Head(<<u>>) = u /\ Tail(<<u>>) = <<>>
      BY <3>1
    <3>4. Fits(b, <<u>>) /\ After(b, <<u>>) = <<>>
      BY <3>1, <3>3 DEF Fits, After
    <3>5. Consumed(<<b>> \o <<>>, <<u>>)
      BY <3>1, <3>3, <3>4, ConsumedNothing, ConsumedPiece
    <3>6. <<b>> \o <<>> = <<b>>
      OBVIOUS
    <3>7. QED
      BY <3>2, <3>5, <3>6
  <2>3. QED
    BY <2>1, <2>2
<1>5. Fits(p, <<w>>)
  BY <1>1, <1>3 DEF Fits
<1>6. After(p, <<w>>) = WantBytes(n)
  <2>1. After(p, <<w>>) = WantBytes(n) \o <<>>
    BY <1>1, <1>3 DEF After
  <2>2. WantBytes(n) \in Seq(Wants)
    BY <1>4, ConsumedTypes
  <2>3. QED
    BY <2>1, <2>2
<1>7. Consumed(<<p>> \o Bytes(n), <<w>>)
  BY <1>1, <1>3, <1>4, <1>5, <1>6, ConsumedPiece
<1>8. QED
  BY <1>2, <1>7 DEF Str

\* A list is read for a list of what its items are read for.
LEMMA ConsumedListed ==
    ASSUME NEW item, NEW of \in Seq(Nested), Consumed(item, of), NEW n \in Nat
    PROVE  Consumed(Listed(n, item), WantList(of))
<1> DEFINE p == [sort |-> "int", val |-> n]
           w == [want |-> "list", of |-> of]
<1>1. /\ p \in Piece /\ w \in Wants /\ p.val = n /\ p.sort = "int"
      /\ w.want = "list" /\ w.of = of
  BY DEF Piece, Wants
<1>2. WantList(of) = <<w>> /\ Word(n) = <<p>>
  BY DEF WantList, Word
<1> HIDE DEF p, w
<1>3. <<w>> \in Seq(Wants) /\ <<w>> # <<>> /\ Head(<<w>>) = w /\ Tail(<<w>>) = <<>>
  BY <1>1
<1>4. Consumed(Repeat(item, n), Repeat(of, n))
  BY ConsumedRepeat
<1>5. Fits(p, <<w>>)
  BY <1>1, <1>3 DEF Fits
<1>6. After(p, <<w>>) = Repeat(of, n)
  <2>1. After(p, <<w>>) = Repeat(of, n) \o <<>>
    BY <1>1, <1>3 DEF After
  <2>2. Repeat(of, n) \in Seq(Wants)
    BY <1>4, ConsumedTypes
  <2>3. QED
    BY <2>1, <2>2
<1>7. Consumed(<<p>> \o Repeat(item, n), <<w>>)
  BY <1>1, <1>3, <1>4, <1>5, <1>6, ConsumedPiece
<1>8. QED
  BY <1>2, <1>7 DEF Listed

\* What can be wanted in a list: strings, and what is wanted of a column.
LEMMA WantTypes ==
    /\ WantStr \in Seq(Simple) /\ Want("num") \in Seq(Simple)
    /\ Want("int") \in Seq(Simple) /\ WantStr \o Want("num") \in Seq(Simple)
    /\ WantList(WantStr) \in Seq(Nested)
<1>1. /\ WantStr \in Seq(Simple) /\ Want("num") \in Seq(Simple)
      /\ Want("int") \in Seq(Simple)
  BY DEF WantStr, Want, Simple
<1>2. [want |-> "list", of |-> WantStr] \in Nested
  BY <1>1 DEF Nested
<1>3. QED
  BY <1>1, <1>2 DEF WantList

\* The lists of statements and answers.
LEMMA ConsumedLists ==
    ASSUME NEW n \in Nat
    PROVE  /\ Consumed(Listed(n, Name), WantList(WantStr))
           /\ Consumed(Listed(n, Num), WantList(Want("num")))
           /\ Consumed(Listed(n, Word(1)), WantList(Want("int")))
           /\ Consumed(Listed(n, Name \o Num), WantList(WantStr \o Want("num")))
<1>1. Consumed(Name, WantStr)
  BY ConsumedStr DEF Name
<1>2. Consumed(Name \o Num, WantStr \o Want("num"))
  BY <1>1, ConsumedWords, ConsumedConcat
<1>3. /\ WantStr \in Seq(Nested) /\ Want("num") \in Seq(Nested)
      /\ Want("int") \in Seq(Nested) /\ WantStr \o Want("num") \in Seq(Nested)
  BY WantTypes, WantsNest
<1>4. Consumed(Listed(n, Name), WantList(WantStr))
  BY <1>1, <1>3, ConsumedListed
<1>5. Consumed(Listed(n, Num), WantList(Want("num")))
  BY <1>3, ConsumedWords, ConsumedListed
<1>6. Consumed(Listed(n, Word(1)), WantList(Want("int")))
  BY <1>3, ConsumedWords, ConsumedListed
<1>7. Consumed(Listed(n, Name \o Num), WantList(WantStr \o Want("num")))
  BY <1>2, <1>3, ConsumedListed
<1>8. QED
  BY <1>4, <1>5, <1>6, <1>7

\* The worker wants of a statement what the client sends of it.
LEMMA PayloadConsumed ==
    ASSUME NEW st \in Statements
    PROVE  Consumed(PayloadOf(st), PayloadWanted(st.type))
<1>1. st.type \in 1..6 /\ st.a \in Nat /\ st.b \in Nat /\ st.a + st.b \in Nat
  BY MaxListAssumption DEF Statements
<1>2. Consumed(Name, WantStr)
  BY ConsumedStr DEF Name
<1>3. Consumed(Name \o Listed(st.a, Name), WantStr \o WantList(WantStr))
  BY <1>1, <1>2, ConsumedLists, ConsumedConcat
<1>4. CASE st.type = 1
  BY <1>3, <1>4 DEF PayloadOf, PayloadWanted
<1>5. CASE st.type = 2
  <2>1. Consumed(Name \o Listed(st.a, Name) \o Listed(st.b, Num),
                 WantStr \o WantList(WantStr) \o WantList(Want("num")))
    BY <1>1, <1>3, ConsumedLists, ConsumedConcat
  <2>2. Consumed(Name \o Listed(st.a, Name) \o Listed(st.b, Num)
                      \o Listed(st.a + st.b, Word(1)),
                 WantStr \o WantList(WantStr) \o WantList(Want("num"))
                         \o WantList(Want("int")))
    BY <1>1, <2>1, ConsumedLists, ConsumedConcat
  <2>3. QED
    BY <2>2, <1>5 DEF PayloadOf, PayloadWanted
<1>6. CASE st.type = 3
  <2>1. Consumed(Name \o Name, WantStr \o WantStr)
    BY <1>2, ConsumedConcat
  <2>2. Consumed(Name \o Name \o Listed(st.a, Name),
                 WantStr \o WantStr \o WantList(WantStr))
    BY <1>1, <2>1, ConsumedLists, ConsumedConcat
  <2>3. QED
    BY <2>2, <1>6 DEF PayloadOf, PayloadWanted
<1>7. CASE st.type \in {4, 6}
  BY <1>2, <1>7 DEF PayloadOf, PayloadWanted
<1>8. CASE st.type = 5
  <2>1. Consumed(Name \o Listed(st.a, Name \o Num),
                 WantStr \o WantList(WantStr \o Want("num")))
    BY <1>1, <1>2, ConsumedLists, ConsumedConcat
  <2>2. QED
    BY <2>1, <1>8 DEF PayloadOf, PayloadWanted
<1>9. QED
  BY <1>1, <1>4, <1>5, <1>6, <1>7, <1>8

\* The same of its condition.
LEMMA ConditionConsumed ==
    ASSUME NEW st \in Statements
    PROVE  Consumed(ConditionOf(st), ConditionWanted(st.where))
<1>1. st.where \in 0..4 /\ st.e \in Nat /\ st.f \in Nat /\ st.g \in Nat
  BY MaxListAssumption DEF Statements
<1>2. Consumed(Name, WantStr)
  BY ConsumedStr DEF Name
<1>3. CASE st.where = 1
  <2>1. Consumed(Name \o Bool, WantStr \o Want("bool"))
    BY <1>2, ConsumedWords, ConsumedConcat
  <2>2. Consumed(Name \o Bool \o Name, WantStr \o Want("bool") \o WantStr)
    BY <1>2, <2>1, ConsumedConcat
  <2>3. QED
    BY <2>2, <1>3 DEF ConditionOf, ConditionWanted
<1>4. CASE st.where = 2
  <2>1. Consumed(Listed(st.e, Name) \o Bool, WantList(WantStr) \o Want("bool"))
    BY <1>1, ConsumedLists, ConsumedWords, ConsumedConcat
  <2>2. Consumed(Listed(st.e, Name) \o Bool \o Listed(st.f, Name),
                 WantList(WantStr) \o Want("bool") \o WantList(WantStr))
    BY <1>1, <2>1, ConsumedLists, ConsumedConcat
  <2>3. Consumed(Listed(st.e, Name) \o Bool \o Listed(st.f, Name)
                                            \o Listed(st.g, Num),
                 WantList(WantStr) \o Want("bool") \o WantList(WantStr)
                                   \o WantList(Want("num")))
    BY <1>1, <2>2, ConsumedLists, ConsumedConcat
  <2>4. QED
    BY <2>3, <1>4 DEF ConditionOf, ConditionWanted
<1>5. CASE st.where = 3
  BY <1>1, <1>5, ConsumedLists DEF ConditionOf, ConditionWanted
<1>6. CASE st.where \in {0, 4}
  BY <1>6, ConsumedNothing DEF ConditionOf, ConditionWanted
<1>7. QED
  BY <1>1, <1>3, <1>4, <1>5, <1>6

\* An answer to a statement: an error code, and what the client wants after it.
IsAnswer(s, type) ==
    \E c \in {-1, 0}, t \in Seq(Piece) :
        s = Word(c) \o t /\ Consumed(t, AnswerWanted(c, type))

\* What the worker sends is one, whatever the table holds.
LEMMA AnswersAreRead ==
    ASSUME NEW type \in 1..6, NEW s \in Answers(type) \cup {ErrorAnswer}
    PROVE  IsAnswer(s, type)
<1>1. \A l \in Nat : Consumed(Str(l), WantStr)
  BY ConsumedStr
<1>2. CASE s = ErrorAnswer
  <2>1. Consumed(Message, AnswerWanted(-1, type))
    BY <1>1 DEF Message, AnswerWanted
  <2>2. QED
    BY <2>1, <1>2 DEF ErrorAnswer, IsAnswer, Consumed
<1>3. CASE s # ErrorAnswer /\ type \in {5, 6}
  <2>1. s = Word(0)
    BY <1>3 DEF Answers
  <2>2. Consumed(<<>>, AnswerWanted(0, type))
    BY <1>3, ConsumedNothing DEF AnswerWanted
  <2>3. Word(0) = Word(0) \o <<>>
    BY DEF Word
  <2>4. QED
    BY <2>1, <2>2, <2>3, EmptySeq DEF IsAnswer
<1>4. CASE s # ErrorAnswer /\ type \notin {5, 6}
  <2>1. PICK n \in 1..MaxList, m \in 1..MaxList, l \in CellSizes :
            s = Word(0) \o Listed(n, Num) \o Listed(m, Listed(n, Str(l)))
    BY <1>4 DEF Answers
  <2>2. n \in Nat /\ m \in Nat /\ l \in Nat
    BY MaxListAssumption DEF CellSizes
  <2> DEFINE sizes == Listed(n, Num)
             rows == Listed(m, Listed(n, Str(l)))
  <2>3. Consumed(sizes, WantList(Want("num")))
    BY <2>2, ConsumedLists
  <2>4. Consumed(Listed(n, Str(l)), WantList(WantStr))
    BY <1>1, <2>2, WantTypes, WantsNest, ConsumedListed
  <2>5. Consumed(rows, WantList(WantList(WantStr)))
    BY <2>2, <2>4, WantTypes, ConsumedListed
  <2>6. Consumed(sizes \o rows, WantList(Want("num")) \o WantList(WantList(WantStr)))
    BY <2>3, <2>5, ConsumedConcat
  <2>7. Consumed(sizes \o rows, AnswerWanted(0, type))
    BY <2>6, <1>4 DEF AnswerWanted
  <2>8. /\ sizes \in Seq(Piece) /\ rows \in Seq(Piece) /\ sizes \o rows \in Seq(Piece)
        /\ Word(0) \in Seq(Piece)
    BY <2>3, <2>5, <2>6 DEF Consumed, Word, Piece
  <2> HIDE DEF sizes, rows
  <2>9. (Word(0) \o sizes) \o rows = Word(0) \o (sizes \o rows)
    BY <2>8, ConcatAssociative
  <2>10. s = Word(0) \o (sizes \o rows)
    BY <2>1, <2>9 DEF sizes, rows
  <2>11. QED
    BY <2>7, <2>8, <2>10 DEF IsAnswer
<1>5. QED
  BY <1>2, <1>3, <1>4

-----------------------------------------------------------------------------
(* The stream *)

\* What the worker has not read yet of what the client sends.
Rest == up \o toSend

\* What the client sends of a statement, and what is left of it after its type.
Whole(st)     == Word(st.type) \o Word(st.where) \o PayloadOf(st) \o ConditionOf(st)
Untyped(st) == Word(st.where) \o (PayloadOf(st) \o ConditionOf(st))

\* The worker has not begun with a statement, or has read only its type.
Idle     == \/ worker \in {"none", "top"} /\ header = <<>>
            \/ worker = "answering" /\ answer = <<>>
HalfRead == worker = "top" /\ header # <<>>

\* There is a statement, and nothing of its answer has been sent.
Unanswered ==
    /\ down = <<>> /\ answer = <<>>
    /\ statement \in Statements
    /\ client \in {"sending", "waiting", "gone"}
    /\ client = "waiting" => awaited = Want("code")

\* s is what the client still has to read of the answer.
Coming(s) ==
    IF client = "sending" \/ awaited = Want("code")
    THEN IsAnswer(s, statement.type)
    ELSE Consumed(s, awaited)

StreamTypes ==
    /\ client \in {"start", "prompt", "sending", "waiting", "gone"}
    /\ worker \in {"none", "top", "reading", "execute", "answering", "gone"}
    /\ toSend \in Seq(Piece) /\ up \in Seq(Piece)
    /\ down \in Seq(Piece) /\ answer \in Seq(Piece)
    /\ wanted \in Seq(Wants) /\ header \in Seq(Int)
    /\ awaited \in Seq(Wants) \cup {Want("code")}
    /\ client \in {"sending", "waiting"} => statement \in Statements
    /\ client = "waiting" => toSend = <<>>
    /\ worker \in {"none", "gone"} => header = <<>> /\ answer = <<>>

\* Before a statement, nothing is under way.
AtRest ==
    client \in {"start", "prompt"} =>
        /\ Rest = <<>> /\ down = <<>> /\ answer = <<>> /\ awaited = <<>>
        /\ worker = "gone" \/ Idle
        /\ client = "start" => worker = "none"

\* At every point of its loop, what the worker will get is what it wants.
WorkerInStep ==
    /\ Idle => Rest = <<>> \/ (Unanswered /\ Rest = Whole(statement))
    /\ HalfRead => /\ Unanswered /\ header = <<statement.type>>
                   /\ Rest = Untyped(statement)
    /\ worker = "reading" => /\ Unanswered
                             /\ header = <<statement.type, statement.where>>
                             /\ Consumed(Rest, wanted)
    /\ worker = "execute" => /\ Unanswered
                             /\ header = <<statement.type, statement.where>>
                             /\ Rest = <<>>
    /\ worker = "answering" /\ answer # <<>> => Rest = <<>>

\* The worker is not done with the statement, or has ended before it answered.
Pending ==
    /\ Unanswered
    /\ \/ worker \in {"reading", "execute", "gone"}
       \/ HalfRead
       \/ Idle /\ Rest # <<>>

\* The worker has answered. What it has not sent is lost when it ends.
Replied ==
    /\ Rest = <<>>
    /\ worker \in {"top", "answering", "gone"}
    /\ worker = "top" => header = <<>>
    /\ \E x \in Seq(Piece) : /\ worker # "gone" => x = answer
                             /\ Coming(down \o x)

ClientInStep == client \in {"sending", "waiting"} => Pending \/ Replied

StreamInv ==
    StreamTypes /\ AtRest /\ WorkerInStep /\ ClientInStep /\ ~garbled

-----------------------------------------------------------------------------
\* A piece that goes from one end of a sequence to the next.
LEMMA Moves ==
    ASSUME NEW u \in Seq(Piece), NEW t \in Seq(Piece)
    PROVE  /\ u \o t \in Seq(Piece)
           /\ u \o t = <<>> <=> u = <<>> /\ t = <<>>
           /\ t # <<>> => /\ Append(u, Head(t)) \in Seq(Piece)
                          /\ Tail(t) \in Seq(Piece)
                          /\ Append(u, Head(t)) \o Tail(t) = u \o t
           /\ u # <<>> => /\ Head(u) \in Piece /\ Tail(u) \in Seq(Piece)
                          /\ u \o t # <<>> /\ Head(u \o t) = Head(u)
                          /\ Tail(u \o t) = Tail(u) \o t
<1>1. u \o t \in Seq(Piece) /\ (u \o t = <<>> <=> u = <<>> /\ t = <<>>)
  BY ConcatProperties
<1>2. ASSUME t # <<>>
      PROVE  /\ Append(u, Head(t)) \in Seq(Piece) /\ Tail(t) \in Seq(Piece)
             /\ Append(u, Head(t)) \o Tail(t) = u \o t
  <2>1. /\ Head(t) \in Piece /\ Tail(t) \in Seq(Piece) /\ <<Head(t)>> \in Seq(Piece)
        /\ t = <<Head(t)>> \o Tail(t) /\ Append(u, Head(t)) = u \o <<Head(t)>>
    BY <1>2
  <2>2. (u \o <<Head(t)>>) \o Tail(t) = u \o (<<Head(t)>> \o Tail(t))
    BY <2>1, ConcatAssociative
  <2>3. QED
    BY <2>1, <2>2
<1>3. ASSUME u # <<>>
      PROVE  /\ Head(u) \in Piece /\ Tail(u) \in Seq(Piece)
             /\ u \o t # <<>> /\ Head(u \o t) = Head(u)
             /\ Tail(u \o t) = Tail(u) \o t
  BY <1>3, HeadTailProperties, ConcatProperties
<1>4. QED
  BY <1>1, <1>2, <1>3

\* A statement begins with its two words.
LEMMA WholeBegins ==
    ASSUME NEW st \in Statements
    PROVE  /\ st.type \in 1..6 /\ st.where \in 0..4
           /\ Whole(st) \in Seq(Piece) /\ Whole(st) # <<>>
           /\ Head(Whole(st)) = [sort |-> "int", val |-> st.type]
           /\ Tail(Whole(st)) = Untyped(st)
           /\ Untyped(st) \in Seq(Piece) /\ Untyped(st) # <<>>
           /\ Head(Untyped(st)) = [sort |-> "int", val |-> st.where]
           /\ Tail(Untyped(st)) = PayloadOf(st) \o ConditionOf(st)
           /\ Consumed(PayloadOf(st) \o ConditionOf(st),
                       PayloadWanted(st.type) \o ConditionWanted(st.where))
<1> DEFINE t == [sort |-> "int", val |-> st.type]
           w == [sort |-> "int", val |-> st.where]
           p == PayloadOf(st)
           c == ConditionOf(st)
<1>1. st.type \in 1..6 /\ st.where \in 0..4
  BY DEF Statements
<1>2. t \in Piece /\ w \in Piece
  BY <1>1 DEF Piece
<1>3. p \in Seq(Piece) /\ c \in Seq(Piece)
  BY PayloadConsumed, ConditionConsumed, ConsumedTypes
<1>4. Consumed(p \o c, PayloadWanted(st.type) \o ConditionWanted(st.where))
  BY PayloadConsumed, ConditionConsumed, ConsumedConcat
<1>5. Whole(st) = <<t>> \o <<w>> \o p \o c /\ Untyped(st) = <<w>> \o (p \o c)
  BY DEF Whole, Untyped, Word
<1> HIDE DEF t, w, p, c
<1>6. /\ <<w>> \o (p \o c) \in Seq(Piece) /\ <<w>> \o (p \o c) # <<>>
      /\ Head(<<w>> \o (p \o c)) = w /\ Tail(<<w>> \o (p \o c)) = p \o c
  <2>1. p \o c \in Seq(Piece)
    BY <1>3
  <2>2. QED
    BY <2>1, <1>2
<1>7. <<t>> \o <<w>> \o p \o c = <<t>> \o (<<w>> \o (p \o c))
  <2>1. <<t>> \in Seq(Piece) /\ <<w>> \in Seq(Piece) /\ <<t>> \o <<w>> \in Seq(Piece)
    BY <1>2
  <2>2. (<<t>> \o <<w>>) \o p \o c = (<<t>> \o <<w>>) \o (p \o c)
    BY <2>1, <1>3, ConcatAssociative
  <2>3. (<<t>> \o <<w>>) \o (p \o c) = <<t>> \o (<<w>> \o (p \o c))
    BY <2>1, <1>3, ConcatAssociative
  <2>4. QED
    BY <2>2, <2>3
<1>8. /\ Whole(st) \in Seq(Piece) /\ Whole(st) # <<>>
      /\ Head(Whole(st)) = t /\ Tail(Whole(st)) = <<w>> \o (p \o c)
  <2> DEFINE r == <<w>> \o (p \o c)
  <2>1. Whole(st) = <<t>> \o r /\ r \in Seq(Piece)
    BY <1>5, <1>6, <1>7
  <2> HIDE DEF r
  <2>2. /\ Whole(st) \in Seq(Piece) /\ Whole(st) # <<>>
        /\ Head(Whole(st)) = t /\ Tail(Whole(st)) = r
    BY <2>1, <1>2
  <2>3. QED
    BY <2>2 DEF r
<1>9. QED
  BY <1>1, <1>4, <1>5, <1>6, <1>8 DEF t, w, p, c

\* What the client reads after an error code is not one.
LEMMA CodeIsNoWant == Want("code") \notin Seq(Wants)
<1>1. [want |-> "code"] \notin Wants
  BY DEF Wants, Simple
<1>2. QED
  BY <1>1 DEF Want

-----------------------------------------------------------------------------
\* At the start.
LEMMA InitStream == Init => StreamInv
<1>1. SUFFICES ASSUME Init PROVE StreamInv
  OBVIOUS
<1>2. /\ client = "start" /\ toSend = <<>> /\ awaited = <<>>
      /\ worker = "none" /\ header = <<>> /\ wanted = <<>> /\ answer = <<>>
      /\ up = <<>> /\ down = <<>> /\ garbled = FALSE
  BY <1>1 DEF Init
<1>3. \A S : <<>> \in Seq(S)
  BY EmptySeq
<1>4. StreamTypes
  BY <1>2, <1>3 DEF StreamTypes
<1>5. Rest = <<>>
  BY <1>2, <1>3, Moves DEF Rest
<1>6. Idle /\ ~HalfRead
  BY <1>2 DEF Idle, HalfRead
<1>7. QED
  BY <1>2, <1>4, <1>5, <1>6 DEF StreamInv, AtRest, WorkerInStep, ClientInStep

\* A worker that ends leaves the client with what is under way.
LEMMA EndsStream ==
    ASSUME StreamInv, WorkerEnds, worker # "none",
           UNCHANGED <<client, statement, toSend, awaited, up, down, garbled>>
    PROVE  StreamInv'
<1> USE DEF WorkerEnds
<1>1. Rest' = Rest
  BY DEF Rest
<1>2. ~Idle' /\ ~HalfRead' /\ worker' = "gone"
  BY DEF Idle, HalfRead
<1>3. StreamTypes'
  BY EmptySeq DEF StreamTypes, StreamInv
<1>4. AtRest'
  BY <1>1, <1>2 DEF AtRest, StreamInv
<1>5. WorkerInStep'
  BY <1>2 DEF WorkerInStep
<1>6. ClientInStep'
  <2>1. ASSUME Pending PROVE Pending'
    BY <2>1, <1>2 DEF Pending, Unanswered
  <2>2. ASSUME Replied PROVE Replied'
    <3>1. PICK x \in Seq(Piece) : Coming(down \o x)
      BY <2>2 DEF Replied
    <3>2. Coming(down \o x)'
      BY <3>1 DEF Coming
    <3>3. QED
      BY <2>2, <3>2, <1>1, <1>2 DEF Replied
  <2>3. QED
    BY <2>1, <2>2 DEF ClientInStep, StreamInv
<1>7. QED
  BY <1>3, <1>4, <1>5, <1>6 DEF StreamInv

\* A client that leaves leaves the worker with what it has sent.
LEMMA LeavesStream ==
    ASSUME StreamInv, ClientLeaves,
           UNCHANGED <<workerVars, up, down, garbled>>
    PROVE  StreamInv'
<1> USE DEF ClientLeaves, workerVars
<1>1. Rest' = Rest /\ Idle' = Idle /\ HalfRead' = HalfRead
  BY DEF Rest, Idle, HalfRead
<1>2. StreamTypes'
  BY EmptySeq DEF StreamTypes, StreamInv
<1>3. Unanswered => Unanswered'
  BY DEF Unanswered
<1>4. WorkerInStep'
  BY <1>1, <1>3 DEF WorkerInStep, StreamInv
<1>5. AtRest' /\ ClientInStep'
  BY DEF AtRest, ClientInStep
<1>6. QED
  BY <1>2, <1>4, <1>5 DEF StreamInv

\* Steps of other processes of the server do not touch the stream.
LEMMA StutterStream ==
    ASSUME StreamInv, UNCHANGED <<clientVars, workerVars, up, down, garbled>>
    PROVE  StreamInv'
<1> USE DEF clientVars, workerVars
<1>1. Rest' = Rest /\ Idle' = Idle /\ HalfRead' = HalfRead
  BY DEF Rest, Idle, HalfRead
<1>2. StreamTypes' /\ AtRest'
  BY <1>1 DEF StreamTypes, AtRest, StreamInv
<1>3. Unanswered' = Unanswered
  BY DEF Unanswered
<1>4. WorkerInStep'
  BY <1>1, <1>3 DEF WorkerInStep, StreamInv
<1>5. ClientInStep'
  <2>1. ASSUME Replied PROVE Replied'
    <3>1. PICK x \in Seq(Piece) : (worker # "gone" => x = answer) /\ Coming(down \o x)
      BY <2>1 DEF Replied
    <3>2. Coming(down \o x)'
      BY <3>1 DEF Coming
    <3>3. QED
      BY <2>1, <3>1, <3>2, <1>1 DEF Replied
  <2>2. Pending' = Pending
    BY <1>1, <1>3 DEF Pending
  <2>3. QED
    BY <2>1, <2>2 DEF ClientInStep, StreamInv
<1>6. QED
  BY <1>2, <1>4, <1>5 DEF StreamInv

-----------------------------------------------------------------------------
\* The client connects to a server that has no worker for it yet.
LEMMA ConnectStream == ASSUME StreamInv, Connect PROVE StreamInv'
<1>1. CASE copies # {}
  <2>1. /\ client = "start" /\ client' = "prompt"
        /\ UNCHANGED <<statement, toSend, awaited, worker, header, wanted, answer,
                       up, down, garbled>>
    BY <1>1 DEF Connect, workerVars
  <2>2. Rest' = Rest /\ Idle' = Idle /\ HalfRead' = HalfRead
    BY <2>1 DEF Rest, Idle, HalfRead
  <2>3. StreamTypes' /\ AtRest'
    BY <2>1, <2>2 DEF StreamTypes, AtRest, StreamInv
  <2>4. Rest = <<>> /\ worker = "none" /\ header = <<>>
    BY <2>1 DEF StreamInv, AtRest, StreamTypes
  <2>5. WorkerInStep'
    BY <2>1, <2>2, <2>4 DEF WorkerInStep, HalfRead
  <2>6. QED
    BY <2>1, <2>3, <2>5 DEF StreamInv, ClientInStep
<1>2. CASE copies = {}
  BY <1>2, LeavesStream DEF Connect
<1>3. QED
  BY <1>1, <1>2

\* A new statement meets a worker that is idle, or gone.
LEMMA EnterStream ==
    ASSUME StreamInv, NEW st \in Statements, Enter(st) PROVE StreamInv'
<1>1. /\ client = "prompt" /\ client' = "sending" /\ statement' = st
      /\ toSend' = Whole(st)
      /\ UNCHANGED <<awaited, worker, header, wanted, answer, up, down, garbled>>
  BY DEF Enter, Whole, workerVars
<1>2. /\ Rest = <<>> /\ down = <<>> /\ answer = <<>> /\ awaited = <<>>
      /\ worker = "gone" \/ Idle
      /\ up \in Seq(Piece) /\ toSend \in Seq(Piece) /\ ~garbled
  BY <1>1 DEF StreamInv, AtRest, StreamTypes
<1>3. Rest' = Whole(st) /\ Rest' # <<>>
  <2>1. up = <<>>
    BY <1>2, Moves DEF Rest
  <2>2. Whole(st) \in Seq(Piece) /\ Whole(st) # <<>>
    BY WholeBegins
  <2>3. Rest' = <<>> \o Whole(st)
    BY <1>1, <2>1 DEF Rest
  <2>4. QED
    BY <2>2, <2>3
<1>4. Idle' = Idle /\ ~HalfRead' /\ ~(worker \in {"reading", "execute"})
  BY <1>1, <1>2 DEF Idle, HalfRead
<1>5. StreamTypes'
  BY <1>1, <1>2, WholeBegins DEF StreamTypes, StreamInv
<1>6. Unanswered'
  BY <1>1, <1>2 DEF Unanswered
<1>7. WorkerInStep'
  BY <1>1, <1>2, <1>3, <1>4, <1>6 DEF WorkerInStep
<1>8. ClientInStep'
  BY <1>1, <1>2, <1>3, <1>4, <1>6 DEF ClientInStep, Pending
<1>9. QED
  BY <1>1, <1>2, <1>5, <1>7, <1>8 DEF StreamInv, AtRest

\* What is sent is still to be read.
LEMMA ClientSendStream == ASSUME StreamInv, ClientSend PROVE StreamInv'
<1>1. /\ client = "sending" /\ toSend # <<>>
      /\ up' = Append(up, Head(toSend)) /\ toSend' = Tail(toSend)
      /\ UNCHANGED <<client, statement, awaited, worker, header, wanted, answer,
                     down, garbled>>
  BY DEF ClientSend, workerVars
<1>2. up \in Seq(Piece) /\ toSend \in Seq(Piece)
  BY DEF StreamInv, StreamTypes
<1>3. Rest' = Rest /\ up' \in Seq(Piece) /\ toSend' \in Seq(Piece)
  BY <1>1, <1>2, Moves DEF Rest
<1>4. Idle' = Idle /\ HalfRead' = HalfRead /\ Unanswered' = Unanswered
  BY <1>1 DEF Idle, HalfRead, Unanswered
<1>5. StreamTypes' /\ AtRest'
  BY <1>1, <1>3 DEF StreamTypes, StreamInv, AtRest
<1>6. WorkerInStep'
  BY <1>1, <1>3, <1>4 DEF WorkerInStep, StreamInv
<1>7. ClientInStep'
  <2>1. ASSUME Replied PROVE Replied'
    <3>1. PICK x \in Seq(Piece) : (worker # "gone" => x = answer) /\ Coming(down \o x)
      BY <2>1 DEF Replied
    <3>2. Coming(down \o x)'
      BY <3>1, <1>1 DEF Coming
    <3>3. QED
      BY <2>1, <3>1, <3>2, <1>1, <1>3 DEF Replied
  <2>2. Pending' = Pending
    BY <1>1, <1>3, <1>4 DEF Pending
  <2>3. QED
    BY <1>1, <2>1, <2>2 DEF ClientInStep, StreamInv
<1>8. QED
  BY <1>1, <1>5, <1>6, <1>7 DEF StreamInv

\* The client begins to wait, for an error code.
LEMMA ClientSentStream == ASSUME StreamInv, ClientSent PROVE StreamInv'
<1>1. /\ client = "sending" /\ toSend = <<>> /\ client' = "waiting"
      /\ awaited' = Want("code")
      /\ UNCHANGED <<statement, toSend, worker, header, wanted, answer, up, down,
                     garbled>>
  BY DEF ClientSent, workerVars
<1>2. Rest' = Rest /\ Idle' = Idle /\ HalfRead' = HalfRead
  BY <1>1 DEF Rest, Idle, HalfRead
<1>3. Unanswered => Unanswered'
  BY <1>1 DEF Unanswered
<1>4. StreamTypes' /\ AtRest'
  BY <1>1 DEF StreamTypes, StreamInv, AtRest
<1>5. WorkerInStep'
  BY <1>1, <1>2, <1>3 DEF WorkerInStep, StreamInv
<1>6. ClientInStep'
  <2>1. ASSUME Replied PROVE Replied'
    <3>1. PICK x \in Seq(Piece) : (worker # "gone" => x = answer) /\ Coming(down \o x)
      BY <2>1 DEF Replied
    <3>2. Coming(down \o x)'
      BY <3>1, <1>1 DEF Coming
    <3>3. QED
      BY <2>1, <3>1, <3>2, <1>1, <1>2 DEF Replied
  <2>2. Pending => Pending'
    BY <1>1, <1>2, <1>3 DEF Pending
  <2>3. QED
    BY <1>1, <2>1, <2>2 DEF ClientInStep, StreamInv
<1>7. QED
  BY <1>1, <1>4, <1>5, <1>6 DEF StreamInv

\* An error code that comes is one, and what follows is for what it announces.
LEMMA CodeComes ==
    ASSUME NEW type, NEW s, IsAnswer(s, type), s # <<>>
    PROVE  /\ Head(s).sort = "int" /\ Head(s).val \in {-1, 0}
           /\ Consumed(Tail(s), AnswerWanted(Head(s).val, type))
<1>1. PICK c \in {-1, 0}, t \in Seq(Piece) :
          s = Word(c) \o t /\ Consumed(t, AnswerWanted(c, type))
  BY DEF IsAnswer
<1> DEFINE p == [sort |-> "int", val |-> c]
<1>2. p \in Piece /\ p.sort = "int" /\ p.val = c
  BY DEF Piece
<1>3. s = <<p>> \o t
  BY <1>1 DEF Word
<1> HIDE DEF p
<1>4. Head(s) = p /\ Tail(s) = t
  BY <1>2, <1>3
<1>5. QED
  BY <1>1, <1>2, <1>4

\* What the client receives is what it waits for.
LEMMA ClientRecvStream == ASSUME StreamInv, ClientRecv PROVE StreamInv'
<1>1. /\ client = "waiting" /\ awaited # <<>> /\ down # <<>> /\ down' = Tail(down)
      /\ UNCHANGED <<client, statement, toSend, worker, header, wanted, answer, up>>
  BY DEF ClientRecv, workerVars
<1>2. /\ down \in Seq(Piece) /\ answer \in Seq(Piece) /\ ~garbled
      /\ awaited \in Seq(Wants) \cup {Want("code")} /\ statement \in Statements
  BY <1>1 DEF StreamInv, StreamTypes
<1>3. ~Unanswered /\ ~Unanswered'
  <2>1. Unanswered' => awaited' = Want("code")
    BY <1>1 DEF Unanswered
  <2>2. ~Unanswered
    BY <1>1 DEF Unanswered
  <2>3. awaited' # Want("code")
    <3>1. CASE Head(awaited).want = "code"
      <4>1. awaited' = AnswerWanted(Head(down).val, statement.type)
        BY <3>1 DEF ClientRecv
      <4>2. AnswerWanted(Head(down).val, statement.type) \in Seq(Wants)
        <5>1. /\ WantStr \in Seq(Wants) /\ WantList(Want("num")) \in Seq(Wants)
              /\ WantList(WantList(WantStr)) \in Seq(Wants)
          BY WantTypes, WantsNest DEF WantList, Wants
        <5>2. QED
          BY <5>1, EmptySeq DEF AnswerWanted
      <4>3. QED
        BY <4>1, <4>2, CodeIsNoWant
    <3>2. CASE Head(awaited).want # "code"
      <4>1. awaited \in Seq(Wants)
        BY <3>2, <1>2 DEF Want
      <4>2. awaited' = IF Fits(Head(down), awaited) THEN After(Head(down), awaited)
                       ELSE <<>>
        BY <3>2 DEF ClientRecv
      <4>3. awaited' \in Seq(Wants)
        BY <4>1, <4>2, <1>1, <1>2, AfterType, EmptySeq
      <4>4. QED
        BY <4>3, CodeIsNoWant
    <3>3. QED
      BY <3>1, <3>2
  <2>4. QED
    BY <2>1, <2>2, <2>3
<1>4. Replied
  BY <1>1, <1>3 DEF StreamInv, ClientInStep, Pending
<1>5. PICK x \in Seq(Piece) : (worker # "gone" => x = answer) /\ Coming(down \o x)
  BY <1>4 DEF Replied
<1> DEFINE s == down \o x
<1>6. /\ s # <<>> /\ Head(s) = Head(down) /\ Tail(s) = Tail(down) \o x
      /\ Tail(down) \in Seq(Piece)
  BY <1>1, <1>2, Moves
<1> HIDE DEF s
<1>7. ~garbled' /\ Consumed(Tail(s), awaited') /\ awaited' \in Seq(Wants)
  <2>1. CASE awaited = Want("code")
    <3>1. Head(awaited).want = "code"
      BY <2>1 DEF Want
    <3>2. /\ awaited' = AnswerWanted(Head(down).val, statement.type)
          /\ garbled' = (garbled \/ Head(down).sort # "int" \/ Head(down).val \notin {-1, 0})
      BY <3>1 DEF ClientRecv
    <3>3. IsAnswer(s, statement.type)
      BY <1>5, <2>1 DEF Coming, s
    <3>4. /\ Head(s).sort = "int" /\ Head(s).val \in {-1, 0}
          /\ Consumed(Tail(s), AnswerWanted(Head(s).val, statement.type))
      BY <3>3, <1>6, CodeComes
    <3>5. ~garbled' /\ Consumed(Tail(s), awaited')
      BY <3>2, <3>4, <1>2, <1>6
    <3>6. QED
      BY <3>5, ConsumedTypes
  <2>2. CASE awaited # Want("code")
    <3>1. awaited \in Seq(Wants) /\ Head(awaited) \in Wants
      BY <2>2, <1>1, <1>2
    <3>2. Head(awaited).want # "code"
      BY <3>1 DEF Wants, Simple
    <3>3. /\ awaited' = IF Fits(Head(down), awaited) THEN After(Head(down), awaited)
                        ELSE <<>>
          /\ garbled' = (garbled \/ ~Fits(Head(down), awaited))
      BY <3>2 DEF ClientRecv
    <3>4. Consumed(s, awaited)
      BY <1>1, <1>5, <2>2 DEF Coming, s
    <3>5. Fits(Head(s), awaited) /\ Consumed(Tail(s), After(Head(s), awaited))
      BY <3>4, <1>6, ConsumedStep
    <3>6. ~garbled' /\ Consumed(Tail(s), awaited')
      BY <3>3, <3>5, <1>2, <1>6
    <3>7. QED
      BY <3>6, ConsumedTypes
  <2>3. QED
    BY <2>1, <2>2
<1>8. Rest' = Rest /\ Idle' = Idle /\ HalfRead' = HalfRead
  BY <1>1 DEF Rest, Idle, HalfRead
<1>9. StreamTypes' /\ AtRest'
  BY <1>1, <1>6, <1>7 DEF StreamTypes, StreamInv, AtRest
<1>10. WorkerInStep'
  BY <1>1, <1>3, <1>8 DEF WorkerInStep, StreamInv
<1>11. Replied'
  <2>1. Coming(down \o x)'
    BY <1>1, <1>6, <1>7, CodeIsNoWant DEF Coming
  <2>2. QED
    BY <2>1, <1>1, <1>4, <1>5, <1>8 DEF Replied
<1>12. QED
  BY <1>7, <1>9, <1>10, <1>11 DEF StreamInv, ClientInStep

\* A client that has its answer has all of it.
LEMMA ClientReadStream == ASSUME StreamInv, ClientRead PROVE StreamInv'
<1>1. /\ client = "waiting" /\ awaited = <<>> /\ client' = "prompt" /\ statement' = <<>>
      /\ UNCHANGED <<toSend, awaited, worker, header, wanted, answer, up, down,
                     garbled>>
  BY DEF ClientRead, workerVars
<1>2. awaited # Want("code")
  BY <1>1 DEF Want
<1>3. Replied
  BY <1>1, <1>2 DEF StreamInv, ClientInStep, Pending, Unanswered
<1>4. PICK x \in Seq(Piece) : (worker # "gone" => x = answer) /\ Coming(down \o x)
  BY <1>3 DEF Replied
<1>5. down \in Seq(Piece) /\ down \o x = <<>>
  BY <1>1, <1>2, <1>4, ConsumedNothing DEF Coming, StreamInv, StreamTypes
<1>6. down = <<>> /\ x = <<>>
  BY <1>5, Moves
<1>7. answer = <<>> /\ Rest = <<>> /\ (worker = "gone" \/ Idle)
  BY <1>3, <1>4, <1>6 DEF StreamInv, StreamTypes, Replied, Idle
<1>8. Rest' = Rest /\ Idle' = Idle /\ HalfRead' = HalfRead
  BY <1>1 DEF Rest, Idle, HalfRead
<1>9. StreamTypes' /\ AtRest'
  BY <1>1, <1>6, <1>7, <1>8 DEF StreamTypes, StreamInv, AtRest
<1>10. WorkerInStep'
  <2>1. ~HalfRead /\ worker \notin {"reading", "execute"}
    BY <1>7 DEF HalfRead, Idle
  <2>2. QED
    BY <2>1, <1>1, <1>7, <1>8 DEF WorkerInStep
<1>11. QED
  BY <1>1, <1>9, <1>10 DEF StreamInv, ClientInStep

\* Two words appended.
LEMMA TwoWords == ASSUME NEW v, NEW w PROVE Append(<<v>>, w) = <<v, w>>
<1> DEFINE S == {v, w}
<1>1. <<v>> \in Seq(S) /\ <<v, w>> \in Seq(S)
  OBVIOUS
<1>2. /\ Append(<<v>>, w) \in Seq(S) /\ Len(Append(<<v>>, w)) = 2
      /\ Append(<<v>>, w)[1] = v /\ Append(<<v>>, w)[2] = w
  BY <1>1, AppendProperties
<1>3. \A i \in 1..2 : Append(<<v>>, w)[i] = <<v, w>>[i]
  BY <1>2
<1>4. QED
  BY <1>1, <1>2, <1>3, SeqEqual

\* The two words of a header are the type and the type_where of a statement.
LEMMA RecvHeaderStream == ASSUME StreamInv, RecvHeader PROVE StreamInv'
<1> DEFINE p == Head(up)
<1>1. /\ worker = "top" /\ up # <<>> /\ up' = Tail(up)
      /\ header' = Append(header, p.val)
      /\ garbled' = (garbled \/ p.sort # "int")
      /\ UNCHANGED <<client, statement, toSend, awaited, answer, down>>
  BY DEF RecvHeader, clientVars
<1>2. /\ up \in Seq(Piece) /\ toSend \in Seq(Piece) /\ ~garbled /\ header \in Seq(Int)
      /\ wanted \in Seq(Wants)
  BY DEF StreamInv, StreamTypes
<1>3. /\ Rest \in Seq(Piece) /\ Rest # <<>> /\ Head(Rest) = p /\ Rest' = Tail(Rest)
      /\ up' \in Seq(Piece) /\ p \in Piece /\ p.val \in Int
  BY <1>1, <1>2, Moves DEF Rest, Piece
<1>4. header' \in Seq(Int) /\ header' # <<>>
  <2>1. \A v \in Int : Append(header, v) \in Seq(Int) /\ Append(header, v) # <<>>
    BY <1>2, AppendProperties
  <2>2. QED
    BY <2>1, <1>1, <1>3
<1>5. Unanswered
  BY <1>1, <1>3 DEF StreamInv, WorkerInStep, Idle, HalfRead
<1>6. Unanswered' /\ statement \in Statements
  BY <1>1, <1>5 DEF Unanswered
<1>7. client \notin {"start", "prompt"}
  BY <1>5 DEF Unanswered
<1>8. CASE header = <<>>
  <2>1. worker' = "top" /\ wanted' = wanted
    BY <1>1, <1>8 DEF RecvHeader
  <2>2. Idle /\ ~Idle' /\ HalfRead'
    BY <1>1, <1>4, <1>8, <2>1 DEF Idle, HalfRead
  <2>3. Rest = Whole(statement)
    BY <1>3, <2>2 DEF StreamInv, WorkerInStep
  <2>4. p.sort = "int" /\ p.val = statement.type /\ Rest' = Untyped(statement)
    BY <1>3, <1>6, <2>3, WholeBegins
  <2>5. header' = <<statement.type>>
    BY <1>1, <1>8, <2>4
  <2>6. StreamTypes'
    BY <1>1, <1>2, <1>3, <1>4, <2>1 DEF StreamTypes, StreamInv
  <2>7. WorkerInStep'
    BY <1>1, <1>6, <2>1, <2>2, <2>4, <2>5 DEF WorkerInStep
  <2>8. QED
    BY <1>1, <1>2, <1>6, <1>7, <2>2, <2>4, <2>6, <2>7
    DEF StreamInv, AtRest, ClientInStep, Pending
<1>9. CASE header # <<>>
  <2>1. /\ worker' = "reading"
        /\ wanted' = PayloadWanted(header[1]) \o ConditionWanted(p.val)
    BY <1>1, <1>9 DEF RecvHeader
  <2>2. HalfRead /\ ~Idle' /\ ~HalfRead'
    BY <1>1, <1>9, <2>1 DEF Idle, HalfRead
  <2>3. header = <<statement.type>> /\ Rest = Untyped(statement)
    BY <2>2 DEF StreamInv, WorkerInStep
  <2>4. /\ p.sort = "int" /\ p.val = statement.where
        /\ Rest' = PayloadOf(statement) \o ConditionOf(statement)
    BY <1>3, <1>6, <2>3, WholeBegins
  <2>5. header' = <<statement.type, statement.where>> /\ header[1] = statement.type
    <3>1. Append(<<statement.type>>, statement.where)
             = <<statement.type, statement.where>>
      BY TwoWords
    <3>2. header[1] = statement.type
      BY <2>3
    <3>3. QED
      BY <1>1, <2>3, <2>4, <3>1, <3>2, Zenon
  <2>6. Consumed(Rest', wanted')
    BY <1>6, <2>1, <2>4, <2>5, WholeBegins
  <2>7. StreamTypes'
    <3>1. wanted' \in Seq(Wants)
      BY <2>6, ConsumedTypes
    <3>2. QED
      BY <3>1, <1>1, <1>2, <1>3, <1>4, <2>1 DEF StreamTypes, StreamInv
  <2>8. WorkerInStep'
    BY <1>1, <1>6, <2>1, <2>2, <2>5, <2>6 DEF WorkerInStep
  <2>9. QED
    BY <1>1, <1>2, <1>6, <1>7, <2>1, <2>2, <2>4, <2>7, <2>8
    DEF StreamInv, AtRest, ClientInStep, Pending
<1>10. QED
  BY <1>8, <1>9

\* What the worker receives is what it is about to read.
LEMMA RecvStream == ASSUME StreamInv, Recv PROVE StreamInv'
<1> DEFINE p == Head(up)
<1>1. /\ worker = "reading" /\ up # <<>> /\ up' = Tail(up)
      /\ wanted' = IF Fits(p, wanted) THEN After(p, wanted) ELSE <<>>
      /\ garbled' = (garbled \/ ~Fits(p, wanted))
      /\ UNCHANGED <<client, statement, toSend, awaited, worker, header, answer, down>>
  BY DEF Recv, clientVars
<1>2. up \in Seq(Piece) /\ toSend \in Seq(Piece) /\ ~garbled
  BY DEF StreamInv, StreamTypes
<1>3. Rest # <<>> /\ Head(Rest) = p /\ Rest' = Tail(Rest) /\ up' \in Seq(Piece)
  BY <1>1, <1>2, Moves DEF Rest
<1>4. /\ Unanswered /\ header = <<statement.type, statement.where>>
      /\ Consumed(Rest, wanted)
  BY <1>1 DEF StreamInv, WorkerInStep
<1>5. Fits(p, wanted) /\ Consumed(Tail(Rest), After(p, wanted))
  BY <1>3, <1>4, ConsumedStep
<1>6. ~garbled' /\ Consumed(Rest', wanted')
  BY <1>1, <1>2, <1>3, <1>5
<1>7. wanted' \in Seq(Wants)
  BY <1>6, ConsumedTypes
<1>8. Unanswered' /\ ~Idle' /\ ~HalfRead' /\ client \notin {"start", "prompt"}
  BY <1>1, <1>4 DEF Unanswered, Idle, HalfRead
<1>9. StreamTypes'
  BY <1>1, <1>3, <1>7 DEF StreamTypes, StreamInv
<1>10. WorkerInStep'
  BY <1>1, <1>4, <1>6, <1>8 DEF WorkerInStep
<1>11. QED
  BY <1>1, <1>6, <1>8, <1>9, <1>10 DEF StreamInv, AtRest, ClientInStep, Pending

\* An answer to the statement that was read is an answer to the client's.
LEMMA AnsweringStream ==
    ASSUME StreamInv, Unanswered, Rest = <<>>, worker' = "answering",
           answer' \in Answers(statement.type) \cup {ErrorAnswer},
           UNCHANGED <<client, statement, toSend, awaited, header, wanted, up, down,
                       garbled>>
    PROVE  StreamInv'
<1>1. /\ down = <<>> /\ statement \in Statements /\ client \in {"sending", "waiting", "gone"}
      /\ client = "waiting" => awaited = Want("code")
  BY DEF Unanswered
<1>2. IsAnswer(answer', statement.type)
  BY <1>1, WholeBegins, AnswersAreRead
<1>3. answer' \in Seq(Piece) /\ answer' # <<>>
  <2>1. PICK c \in {-1, 0}, t \in Seq(Piece) : answer' = Word(c) \o t
    BY <1>2 DEF IsAnswer
  <2>2. Word(c) \in Seq(Piece) /\ Word(c) # <<>>
    BY DEF Word, Piece
  <2>3. QED
    BY <2>1, <2>2, Moves
<1>4. Rest' = <<>> /\ ~Idle' /\ ~HalfRead'
  BY <1>3 DEF Rest, Idle, HalfRead
<1>5. StreamTypes'
  BY <1>3 DEF StreamTypes, StreamInv
<1>6. WorkerInStep'
  BY <1>4 DEF WorkerInStep
<1>7. ClientInStep'
  <2>1. ASSUME client \in {"sending", "waiting"} PROVE Replied'
    <3>1. down' \o answer' = answer'
      BY <1>1, <1>3
    <3>2. IsAnswer(down' \o answer', statement')
          <=> IsAnswer(answer', statement')
      BY <3>1
    <3>3. Coming(down \o answer)'
      BY <1>1, <1>2, <2>1, <3>1 DEF Coming
    <3>4. QED
      BY <3>3, <1>3, <1>4 DEF Replied
  <2>2. QED
    BY <2>1 DEF ClientInStep
<1>8. QED
  BY <1>1, <1>5, <1>6, <1>7 DEF StreamInv, AtRest

\* The statement is executed when nothing of it is left.
LEMMA CompleteStream == ASSUME StreamInv, Complete PROVE StreamInv'
<1>1. /\ worker = "reading" /\ wanted = <<>>
      /\ UNCHANGED <<client, statement, toSend, awaited, header, wanted, up, down,
                     garbled>>
  BY DEF Complete, clientVars
<1>2. /\ Unanswered /\ header = <<statement.type, statement.where>>
      /\ Rest = <<>>
  BY <1>1, ConsumedNothing DEF StreamInv, WorkerInStep
<1>3. CASE worker' = "answering" /\ answer' = ErrorAnswer
  BY <1>1, <1>2, <1>3, AnsweringStream
<1>4. CASE worker' = "execute" /\ answer' = answer
  <2>1. Rest' = Rest /\ Unanswered' /\ ~Idle' /\ ~HalfRead'
    BY <1>1, <1>2, <1>4 DEF Rest, Unanswered, Idle, HalfRead
  <2>2. StreamTypes' /\ AtRest'
    BY <1>1, <1>2, <1>4 DEF StreamTypes, StreamInv, AtRest, Unanswered
  <2>3. WorkerInStep'
    BY <1>1, <1>2, <1>4, <2>1 DEF WorkerInStep
  <2>4. QED
    BY <1>1, <1>4, <2>1, <2>2, <2>3 DEF StreamInv, ClientInStep, Pending
<1>5. QED
  BY <1>3, <1>4 DEF Complete

\* A statement is answered for the type that the worker has read.
LEMMA ExecuteStream == ASSUME StreamInv, Execute PROVE StreamInv'
<1>1. /\ worker = "execute" /\ worker' = "answering"
      /\ answer' \in Answers(header[1]) \cup {ErrorAnswer}
      /\ UNCHANGED <<client, statement, toSend, awaited, header, wanted, up, down,
                     garbled>>
  BY DEF Execute, clientVars
<1>2. Unanswered /\ header = <<statement.type, statement.where>> /\ Rest = <<>>
  BY <1>1 DEF StreamInv, WorkerInStep
<1>3. header[1] = statement.type
  BY <1>2
<1>4. QED
  BY <1>1, <1>2, <1>3, AnsweringStream

\* What is sent of an answer is still to come.
LEMMA WorkerSendStream == ASSUME StreamInv, WorkerSend PROVE StreamInv'
<1>1. /\ worker = "answering" /\ answer # <<>> /\ client # "gone"
      /\ down' = Append(down, Head(answer)) /\ answer' = Tail(answer)
      /\ UNCHANGED <<client, statement, toSend, awaited, worker, header, wanted, up,
                     garbled>>
  BY DEF WorkerSend, clientVars
<1>2. down \in Seq(Piece) /\ answer \in Seq(Piece)
  BY DEF StreamInv, StreamTypes
<1>3. /\ down' \in Seq(Piece) /\ answer' \in Seq(Piece)
      /\ down' \o answer' = down \o answer
  BY <1>1, <1>2, Moves
<1>4. Rest' = Rest /\ Rest = <<>> /\ ~HalfRead'
  BY <1>1 DEF Rest, HalfRead, StreamInv, WorkerInStep
<1>5. client \in {"sending", "waiting"}
  BY <1>1 DEF StreamInv, StreamTypes, AtRest
<1>6. Replied
  BY <1>1, <1>5 DEF StreamInv, ClientInStep, Pending, Unanswered
<1>7. Coming(down \o answer)
  BY <1>1, <1>6 DEF Replied
<1>8. Coming(down' \o answer')
  BY <1>3, <1>7
<1>9. Coming(down \o answer)'
  BY <1>1, <1>8 DEF Coming
<1>10. Replied'
  BY <1>1, <1>3, <1>4, <1>9 DEF Replied
<1>11. StreamTypes'
  BY <1>1, <1>3 DEF StreamTypes, StreamInv
<1>12. WorkerInStep'
  BY <1>1, <1>4 DEF WorkerInStep
<1>13. QED
  BY <1>1, <1>5, <1>10, <1>11, <1>12 DEF StreamInv, AtRest, ClientInStep

\* A worker that has sent its answer, and one that is forked, is idle.
LEMMA TopStream ==
    ASSUME StreamInv, client # "start",
           worker = "none" \/ (worker = "answering" /\ answer = <<>>),
           worker' = "top", header' = <<>>,
           UNCHANGED <<clientVars, wanted, answer, up, down, garbled>>
    PROVE  StreamInv'
<1> USE DEF clientVars
<1>1. Rest' = Rest /\ Idle /\ Idle' /\ ~HalfRead'
  BY DEF Rest, Idle, HalfRead, StreamInv, StreamTypes
<1>2. Unanswered' = Unanswered
  BY DEF Unanswered
<1>3. StreamTypes'
  BY EmptySeq DEF StreamTypes, StreamInv
<1>4. AtRest'
  BY <1>1 DEF AtRest, StreamInv
<1>5. WorkerInStep'
  BY <1>1, <1>2 DEF WorkerInStep, StreamInv
<1>6. ClientInStep'
  <2>1. ASSUME Replied PROVE Replied'
    <3>1. PICK x \in Seq(Piece) : (worker # "gone" => x = answer) /\ Coming(down \o x)
      BY <2>1 DEF Replied
    <3>2. Coming(down \o x)'
      BY <3>1 DEF Coming
    <3>3. QED
      BY <2>1, <3>1, <3>2, <1>1 DEF Replied
  <2>2. ASSUME Pending PROVE Pending'
    BY <2>2, <1>1, <1>2 DEF Pending, HalfRead
  <2>3. QED
    BY <2>1, <2>2 DEF ClientInStep, StreamInv
<1>7. QED
  BY <1>3, <1>4, <1>5, <1>6 DEF StreamInv

-----------------------------------------------------------------------------
\* Every step keeps the two programs in step.
LEMMA NextStream == StreamInv /\ [Next]_vars => StreamInv'
<1> SUFFICES ASSUME StreamInv, [Next]_vars PROVE StreamInv'
  OBVIOUS
<1>1. CASE UNCHANGED vars
  BY <1>1, StutterStream DEF vars
<1>2. CASE \E st \in Statements : Enter(st)
  BY <1>2, EnterStream
<1>3. CASE Connect \/ ClientSend \/ ClientSent \/ ClientRecv \/ ClientRead
  BY <1>3, ConnectStream, ClientSendStream, ClientSentStream, ClientRecvStream,
     ClientReadStream
<1>4. CASE Quit \/ Closed \/ TooLong \/ ClientSendFails \/ ClientTold
  BY <1>4, LeavesStream DEF Quit, Closed, TooLong, ClientSendFails, ClientTold
<1>5. CASE RecvHeader \/ Recv \/ Complete \/ Execute \/ WorkerSend
  BY <1>5, RecvHeaderStream, RecvStream, CompleteStream, ExecuteStream,
     WorkerSendStream
<1>6. CASE RecvFails \/ Fail \/ WorkerSendFails
  BY <1>6, EndsStream DEF RecvFails, Fail, WorkerSendFails, clientVars
<1>7. CASE WorkerSent
  BY <1>7, TopStream DEF WorkerSent, StreamInv, AtRest
<1>8. CASE Accept
  BY <1>8, TopStream DEF Accept, StreamInv, StreamTypes
<1>9. CASE ForkLater \/ LaterEnds \/ MainEnds \/ KillMain \/ CtrlC
  BY <1>9, StutterStream DEF ForkLater, LaterEnds, MainEnds, KillMain, CtrlC
<1>10. CASE Interrupted
  BY <1>10, StutterStream, EndsStream DEF Interrupted, clientVars
<1>11. QED
  BY <1>1, <1>2, <1>3, <1>4, <1>5, <1>6, <1>7, <1>8, <1>9, <1>10
  DEF Next, ClientStep, WorkerStep

\* So they stay in step.
LEMMA StreamInvariant == Spec => []StreamInv
BY InitStream, NextStream, PTL DEF Spec

\* No recv on either side ever gets another piece than the one it is for, with
\* statements and answers of any length, and whoever ends at what moment.
THEOREM StaysInStep == Spec => []InStep
<1>1. StreamInv => InStep
  BY DEF StreamInv, InStep
<1>2. QED
  BY <1>1, StreamInvariant, PTL

\* A worker executes no statement of which a part is missing.
THEOREM WholeIsExecuted == Spec => []ExecutesWhole
<1>1. StreamInv => ExecutesWhole
  <2>1. SUFFICES ASSUME StreamInv, worker = "execute"
                 PROVE  /\ up = <<>> /\ toSend = <<>>
                        /\ header = <<statement.type, statement.where>>
    BY DEF ExecutesWhole
  <2>2. Rest = <<>> /\ up \in Seq(Piece) /\ toSend \in Seq(Piece)
    BY <2>1 DEF StreamInv, StreamTypes, WorkerInStep
  <2>3. QED
    BY <2>1, <2>2, Moves DEF StreamInv, WorkerInStep, Rest
<1>2. QED
  BY <1>1, StreamInvariant, PTL

\* No answer, and no part of a statement, is left for the next statement.
THEOREM PromptsClean == Spec => []PromptIsClean
<1>1. StreamInv => PromptIsClean
  <2>1. SUFFICES ASSUME StreamInv, client = "prompt"
                 PROVE  /\ up = <<>> /\ down = <<>>
                        /\ answer = <<>> /\ worker \in {"none", "top", "answering", "gone"}
    BY DEF PromptIsClean
  <2>2. Rest = <<>> /\ up \in Seq(Piece) /\ toSend \in Seq(Piece)
    BY <2>1 DEF StreamInv, StreamTypes, AtRest
  <2>3. QED
    BY <2>1, <2>2, Moves DEF StreamInv, AtRest, Rest, Idle
<1>2. QED
  BY <1>1, StreamInvariant, PTL

=============================================================================
