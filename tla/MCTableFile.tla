---------------------------- MODULE MCTableFile ----------------------------
(* Small instances of TableFile for TLC: tables of a TEXT(1), a LONG and a    *)
(* TEXT(2), and the statements on them.                                      *)
EXTENDS TableFile

CONSTANTS
    Texts, Numbers, \* what the statements store and compare with
    Repeats         \* SELECT a, a or not

ThreeFields == <<1, -1, 2>>

\* A text can be digits, which a LONG is then set to when a row is misread.
SomeTextsEmpty == {<<>>, <<"9">>, <<"a", "b">>}

Seven      == <<"7">>
MinusEight == <<"-", "8">>
TwoNumbers == {Seven, MinusEight}

Num(n)  == [num |-> TRUE, word |-> n]
Text(t) == [num |-> FALSE, word |-> t]
NoValue == Num(<<"0">>)

Nums   == {Num(n) : n \in Numbers}
Values == Nums \cup {Text(t) : t \in Texts}

\* Known fields, and one that the table does not have.
Names == 1..(Len(Width) + 1)

\* Every row, rows with a value that suits the field, a condition on an
\* unknown field and one of the wrong type.
Conds == {[field |-> 0, value |-> NoValue],
          [field |-> Len(Width) + 1, value |-> NoValue],
          [field |-> 1, value |-> Num(Seven)]}
         \cup {c \in [field : Fields, value : Values \ {Num(MinusEight)}] :
                  Fits(c.value, c.field) /\ Len(c.value.word) <= Size(c.field)}

Sound(cond) == cond.field = 0 \/ (cond.field \in Fields /\ Fits(cond.value, cond.field))

\* A statement that is rejected for its values is tried with one condition, and
\* conditions that are wrong with one field to set; a field is copied into another
\* for the conditions on the first two.
Updates ==
    {st \in {[op |-> "update", field |-> f, from |-> g, value |-> v, cond |-> c] :
                f \in Names, g \in Names \cup {0}, v \in Values, c \in Conds} :
        /\ st.from # 0 => st.value = Num(Seven) /\ st.cond.field # 3
        /\ UpdateLegal(st) \/ st.cond.field = 0
        /\ Sound(st.cond) \/ (st.field = 1 /\ st.from = 0)}

Selections ==
    {fs \in {<<>>} \cup [1..1 -> Names] \cup [1..2 -> Fields] :
        Repeats \/ IsInjective(fs)}

Inserts ==
    {st \in {[op |-> "insert", values |-> <<u, n, v>>] :
                u \in Values, n \in Values, v \in Values} :
        InsertLegal(st) \/ st.values[2] = st.values[3]}
    \cup {[op |-> "insert", values |-> <<Num(Seven)>>]}

Statements ==
    Inserts \cup Updates
    \cup {[op |-> "delete", cond |-> c] : c \in Conds}
    \cup {st \in [op : {"select"}, fields : Selections, cond : Conds] :
            Len(st.fields) = 2 => st.cond.field = 0}

=============================================================================
