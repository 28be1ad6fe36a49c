------------------------------ MODULE Meaning ------------------------------
(***************************************************************************)
(* What a typed expression or condition means, said without a parser: a    *)
(* list of lexemes is split at its loosest operator outside parentheses,   *)
(* the last one of its kind. From loose to tight: OR, AND, NOT in front,   *)
(* comparisons and IN, + and -, then *, / and %, signs of numbers.         *)
(*                                                                         *)
(* The meaning is a number, a text or a truth value for a row, Trap when a *)
(* division in it traps, Ill when it has no meaning: an unknown name, a    *)
(* number out of range, types that do not go together, wrong syntax.       *)
(***************************************************************************)
EXTENDS WhereValue, FiniteSetsExt

Ill     == [k |-> "ill"]
Trap    == [k |-> "trap"]
Truth(b) == [k |-> "truth", n |-> Bit(b)]
Whole(n) == IF FitsLong(n) THEN [k |-> "number", n |-> n] ELSE Ill
Words(s) == [k |-> "text", s |-> s]

Count(e, class, i) == Cardinality({j \in 1..(i - 1) : e[j].t = class})

\* The places of these classes outside all parentheses.
Outside(e, classes) ==
    {i \in DOMAIN e : e[i].t \in classes /\ Count(e, "(", i) = Count(e, ")", i)}

Balanced(e) ==
    /\ \A i \in DOMAIN e : Count(e, "(", i) >= Count(e, ")", i)
    /\ Count(e, "(", Len(e) + 1) = Count(e, ")", Len(e) + 1)

\* As above, with an operand to the left: no sign of a number.
Between(e, classes) ==
    {i \in Outside(e, classes) : i > 1 /\ (IsOperand(e[i - 1]) \/ e[i - 1].t = ")")}

\* The parenthesis that closes the one at i.
Closing(e, i) ==
    CHOOSE j \in i..Len(e) :
        /\ e[j].t = ")" /\ Count(e, "(", j) = Count(e, ")", j) + Count(e, "(", i)
                                                - Count(e, ")", i) + 1
        /\ \A k \in (i + 1)..(j - 1) :
              Count(e, "(", k) - Count(e, ")", k) > Count(e, "(", i) - Count(e, ")", i)

Literal(e) ==
    CASE Len(e) = 1 /\ e[1].t = "LONG_NUM" -> Whole(e[1].n)
      [] Len(e) = 1 /\ e[1].t = "STR"      -> Words(e[1].s)
      [] Len(e) = 2 /\ e[1].t = "+" /\ e[2].t = "LONG_NUM" -> Whole(e[2].n)
      [] Len(e) = 2 /\ e[1].t = "-" /\ e[2].t = "LONG_NUM" -> Whole(-e[2].n)
      [] OTHER -> Ill

Atom(e, row) ==
    IF Len(e) = 1 /\ e[1].t = "ID" /\ e[1].name \in DOMAIN row
    THEN Literal(<<row[e[1].name]>>)
    ELSE Literal(e)

Both(x, y, kind, v) ==
    IF x.k \notin {kind, "trap"} \/ y.k \notin {kind, "trap"} THEN Ill
    ELSE IF Trap \in {x, y} THEN Trap
    ELSE v

Calculated(op, x, y) ==
    Both(x, y, "number", IF Traps(op, x.n, y.n) THEN Trap ELSE Whole(Arith(op, x.n, y.n)))

Joined(op, x, y) ==
    Both(x, y, "truth", Truth(IF op = "AND" THEN x.n = 1 /\ y.n = 1 ELSE x.n = 1 \/ y.n = 1))

ComparedAs(op, x, y) ==
    IF x.k = "text"
    THEN Both(x, y, "text", Truth(Holds(op, x.s = y.s, TextLess(x.s, y.s))))
    ELSE Both(x, y, "number", Truth(Holds(op, x.n = y.n, x.n < y.n)))

\* The constants between the commas of a list, without its parentheses.
Literals(list) ==
    LET commas == SetToSortSeq(Outside(list, {","}), <)
        ends == <<0>> \o commas \o <<Len(list) + 1>>
    IN  [i \in 1..(Len(ends) - 1) |-> Literal(SubSeq(list, ends[i] + 1, ends[i + 1] - 1))]

Member(x, list, neg) ==
    LET cs == IF Len(list) < 3 \/ list[1].t # "(" THEN {Ill}
              ELSE Range(Literals(Tail(Front(list))))
    IN
    IF Ill \in cs \cup {x} \/ \E c \in cs : c.k # x.k /\ x # Trap THEN Ill
    ELSE IF x = Trap THEN Trap
    ELSE Truth(neg # (x \in cs))

RECURSIVE Meaning(_, _)
Meaning(e, row) ==
    LET Left(i)  == Meaning(SubSeq(e, 1, i - 1), row)
        Right(i) == Meaning(SubSeq(e, i + 1, Len(e)), row)
        ors   == Outside(e, {"OR"})
        ands  == Outside(e, {"AND"})
        cmps  == Outside(e, CompareOps)
        ins   == Outside(e, {"IN"})
        sums  == Between(e, {"+", "-"})
        prods == Between(e, {"*", "/", "%"})
    IN
    IF e = <<>> \/ ~Balanced(e) THEN Ill
    ELSE IF ors # {}  THEN Joined("OR", Left(Max(ors)), Right(Max(ors)))
    ELSE IF ands # {} THEN Joined("AND", Left(Max(ands)), Right(Max(ands)))
    ELSE IF e[1].t = "NOT"
    THEN LET x == Meaning(Tail(e), row) IN Both(x, x, "truth", Truth(x.n = 0))
    ELSE IF cmps # {}
    THEN ComparedAs(e[Max(cmps)].t, Left(Max(cmps)), Right(Max(cmps)))
    ELSE IF ins # {}
    THEN LET i   == Max(ins)
             neg == i > 1 /\ e[i - 1].t = "NOT"
         IN  Member(IF neg THEN Left(i - 1) ELSE Left(i), SubSeq(e, i + 1, Len(e)), neg)
    ELSE IF sums # {}  THEN Calculated(e[Max(sums)].t, Left(Max(sums)), Right(Max(sums)))
    ELSE IF prods # {} THEN Calculated(e[Max(prods)].t, Left(Max(prods)), Right(Max(prods)))
    ELSE IF e[1].t = "(" /\ Closing(e, 1) = Len(e) THEN Meaning(Tail(Front(e)), row)
    ELSE Atom(e, row)

-----------------------------------------------------------------------------
(* Shapes of conditions *)

\* Between the parenthesis at i and the one that closes it.
Inside(e, i) == SubSeq(e, i + 1, Closing(e, i) - 1)

\* The parenthesis is around whole comparisons.
IsGroup(e, i) ==
    /\ e[i].t = "("
    /\ \E x \in Range(Inside(e, i)) : x.t \in CompareOps
    /\ Outside(Inside(e, i), CompareOps) = {}

\* A group begins the condition, or is NOT ( NOT ... ).
GroupsFirst(e) ==
    \A i \in DOMAIN e : IsGroup(e, i) =>
        \/ \A j \in 1..(i - 1) : e[j].t = "("
        \/ e[i - 1].t = "NOT" /\ Inside(e, i)[1].t = "NOT"

\* Every comparison has parentheses of its own.
OwnParentheses(e) ==
    \A i \in DOMAIN e : e[i].t \in CompareOps =>
        \E j \in 1..(i - 1) : /\ e[j].t = "(" /\ i < Closing(e, j)
                              /\ Outside(Inside(e, j), {"AND", "OR"}) = {}

\* IN, if there is any, is the whole condition.
InAlone(e) ==
    Outside(e, {"IN"}) # {} => Outside(e, {"AND", "OR"}) = {}

=============================================================================
