----------------------------- MODULE TableRows -----------------------------
(***************************************************************************)
(* What a statement means for a table, seen as a sequence of rows: the     *)
(* promise of the table engine, without its file.                          *)
(*                                                                         *)
(* A field is a position in Width, which has the width of a TEXT field and *)
(* -1 for LONG. A word is a sequence of characters; a value is a word that *)
(* is a number or a text. A condition compares a field with a value, or is *)
(* met by every row (its field is 0).                                      *)
(***************************************************************************)
EXTENDS Integers, Sequences, SequencesExt, Subsequences

CONSTANTS Width, Statement

VARIABLES rows, answer

Fields == 1..Len(Width)

IsNum(f) == Width[f] < 0

\* The value can be stored in the field.
Suits(value, f) ==
    /\ value.num <=> IsNum(f)
    /\ value.num \/ Len(value.word) <= Width[f]

\* A condition is evaluated row by row: on an empty table it cannot fail.
CondLegal(cond) ==
    \/ rows = <<>>
    \/ cond.field = 0
    \/ cond.field \in Fields /\ (cond.value.num <=> IsNum(cond.field))

Legal(st) ==
    CASE st.op = "insert" ->
            /\ Len(st.values) = Len(Width)
            /\ \A f \in Fields : Suits(st.values[f], f)
      [] st.op = "update" ->
            /\ st.field \in Fields
            /\ IF st.from = 0
               THEN Suits(st.value, st.field)
               ELSE /\ st.from \in Fields
                    /\ IsNum(st.from) <=> IsNum(st.field)
                    /\ Width[st.from] <= Width[st.field]
            /\ CondLegal(st.cond)
      [] st.op = "delete" -> CondLegal(st.cond)
      [] st.op = "select" -> Range(st.fields) \subseteq Fields /\ CondLegal(st.cond)

Meets(row, cond) == cond.field = 0 \/ row[cond.field] = cond.value.word

\* The positions of the rows that meet a condition.
Met(cond) == {k \in DOMAIN rows : Meets(rows[k], cond)}

Updated(row, st) ==
    IF Meets(row, st.cond)
    THEN [row EXCEPT ![st.field] =
             IF st.from = 0 THEN st.value.word ELSE row[st.from]]
    ELSE row

Projected(row, fields) ==
    IF fields = <<>> THEN row ELSE [i \in DOMAIN fields |-> row[fields[i]]]

\* An answer, with the statement it is for.
NoAnswer       == [to |-> [op |-> "none"], kind |-> "none", rows |-> <<>>]
Error(st)      == [to |-> st, kind |-> "error", rows |-> <<>>]
Answer(st, rs) == [to |-> st, kind |-> "rows", rows |-> rs]

Serve(st) ==
    CASE st.op = "insert" ->
            /\ rows' = Append(rows, [f \in Fields |-> st.values[f].word])
            /\ answer' = Answer(st, rows')
      [] st.op = "update" ->
            /\ rows' = [k \in DOMAIN rows |-> Updated(rows[k], st)]
            /\ answer' = Answer(st, rows')
      [] st.op = "delete" ->
            /\ rows' = Pick(rows, DOMAIN rows \ Met(st.cond))
            /\ answer' = Answer(st, rows')
      [] st.op = "select" ->
            LET met == Pick(rows, Met(st.cond)) IN
            /\ answer' = Answer(st, [k \in DOMAIN met |->
                                        Projected(met[k], st.fields)])
            /\ UNCHANGED rows

Reject(st) == answer' = Error(st) /\ UNCHANGED rows

Init == rows = <<>> /\ answer = NoAnswer

\* A statement is answered; the answer is sent.
Next ==
    \/ /\ answer = NoAnswer
       /\ answer' # NoAnswer
       /\ \E st \in Statement : IF Legal(st) THEN Serve(st) ELSE Reject(st)
    \/ /\ answer # NoAnswer
       /\ answer' = NoAnswer
       /\ UNCHANGED rows

Spec == Init /\ [][Next]_<<rows, answer>>

=============================================================================
