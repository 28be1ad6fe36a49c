------------------------------ MODULE Request ------------------------------
(***************************************************************************)
(* Statements in the client's parser (Client/analysis.cpp, S to F) and     *)
(* what the client sends for one that is accepted.                         *)
(***************************************************************************)
EXTENDS Condition

\* INTO, FROM, TABLE and the name of the table.
TableName(p, class) ==
    LET q == Want(p, class) IN Want([q EXCEPT !.name = Cur(q)], "ID")

WIf(p) == IF p.failed THEN p ELSE W(p)
Where(p) == WIf(Want(p, "WHERE"))

RECURSIVE Names(_), Values(_), FieldDefs(_)

Names(p) ==
    LET q == Want([p EXCEPT !.fields = Append(@, Cur(p))], "ID")
    IN  IF At(q, {","}) THEN Names(Next1(q)) ELSE q

\* A1
A1(p) == IF At(p, {"*"}) THEN Next1(p) ELSE Names(p)

\* A: SELECT
A(p) == Where(TableName(A1(p), "FROM"))

\* B1
B1(p) == IF At(p, {"STR"}) THEN Next1([p EXCEPT !.items = Append(@, Cur(p))])
         ELSE ListNumber(p, "items")

Values(p) == LET q == B1(p) IN IF At(q, {","}) THEN Values(Next1(q)) ELSE q

\* B: INSERT
B(p) == Want(Values(Want(TableName(p, "INTO"), "(")), ")")

\* C: UPDATE
C(p) ==
    LET q == Want(Want([p EXCEPT !.name = Cur(p)], "ID"), "SET")
        r == Want(Want([q EXCEPT !.fields = <<Cur(q)>>], "ID"), "=")
    IN  Where(W1_C(r))

\* D: DELETE
D(p) == Where(TableName(p, "FROM"))

\* E3: the width of a TEXT, -1 for LONG.
FieldType(p) ==
    LET q == Want(Next1(p), "(") IN
    IF At(p, {"LONG"}) THEN Next1([p EXCEPT !.items = Append(@, Number(-1))])
    ELSE IF ~At(p, {"TEXT"}) THEN Fail(p)
    ELSE IF ~At(q, {"LONG_NUM"}) THEN Fail(q)
    ELSE IF ~InRange(Cur(q).n) THEN Fail(q)
    ELSE Want(Next1([q EXCEPT !.items = Append(@, Cur(q))]), ")")

\* E1, E2
FieldDefs(p) ==
    LET q == FieldType(Want([p EXCEPT !.fields = Append(@, Cur(p))], "ID"))
    IN  IF At(q, {","}) THEN FieldDefs(Next1(q)) ELSE q

\* E: CREATE
E(p) == Want(FieldDefs(Want(TableName(p, "TABLE"), "(")), ")")

\* F: DROP
F(p) == TableName(p, "TABLE")

S(p) ==
    LET Body(n) == Next1([p EXCEPT !.type = n]) IN
    CASE At(p, {"SELECT"}) -> A(Body(1))
      [] At(p, {"INSERT"}) -> B(Body(2))
      [] At(p, {"UPDATE"}) -> C(Body(3))
      [] At(p, {"DELETE"}) -> D(Body(4))
      [] At(p, {"CREATE"}) -> E(Body(5))
      [] At(p, {"DROP"})   -> F(Body(6))
      [] OTHER             -> Fail(p)

\* last_check. That the three lexemes read ahead have all been used follows.
LastCheck(p) == IF Cur(p) = END THEN p ELSE Fail(p)

Parse(lexemes) == LastCheck(S(Start(lexemes)))

\* What main sends: the globals that belong to the type and the condition.
Statement(p) ==
    [type |-> p.type, where |-> p.where, name |-> p.name, fields |-> p.fields,
     items |-> p.items, set |-> p.set,
     cond |-> CASE p.where = 1 -> [field |-> p.field, neg |-> p.neg,
                                   pattern |-> p.pattern]
                [] p.where = 2 -> [expr |-> p.expr, neg |-> p.neg, list |-> p.list]
                [] p.where = 3 -> [logic |-> p.logic]
                [] OTHER       -> <<>>]

=============================================================================
