----------------------------- MODULE Condition -----------------------------
(***************************************************************************)
(* The WHERE clause in the client's parser (Client/analysis.cpp), a        *)
(* recursive descent that keeps its place in global variables.             *)
(*                                                                         *)
(* A production takes the state p of the parser and returns the next one.  *)
(* An exception sets p.failed; a failed parser sees no lexeme any more, so *)
(* that every production it returns through does nothing of consequence.   *)
(*                                                                         *)
(* Expressions have one grammar, which the code has four times. The copies *)
(* differ in where they put their postfix and in whether they take the     *)
(* closing of a parenthesis that somebody else has opened:                 *)
(*    "first"  W5-W9     to wh2.expr, takes it                             *)
(*    "left"   W18-W22   to wh3.logic_expr, takes it                       *)
(*    "right"  W12-W16   to wh3.logic_expr                                 *)
(*    "set"    W4_C-     to upd.expr, the SET of an UPDATE                 *)
(***************************************************************************)
EXTENDS Lexer

Copies == {"first", "left", "right", "set"}

\* parser::init, and lexer::init up to the first lexeme.
Start(lexemes) ==
    [lexemes |-> lexemes, at |-> 1,
     failed |-> lexemes # <<>> /\ lexemes[1] = BAD,
     par |-> 0,                                 \* par_counter
     inner |-> [c \in Copies |-> 0],            \* w7_counter, w20_counter
     resumed |-> [c \in Copies |-> FALSE],      \* deep_flag, deep_flag2
     nots |-> 0, logicResumed |-> FALSE,        \* w3_counter, deep_flag3
     first |-> TRUE, underNot |-> FALSE,        \* flag_first, not_flag
     type |-> 0, where |-> 0,                   \* type, type_where
     name |-> <<>>, fields |-> <<>>, items |-> <<>>,  \* sel ... dro
     expr |-> <<>>, neg |-> FALSE, list |-> <<>>,     \* wh2 (and wh1.neg)
     logic |-> <<>>, set |-> <<>>,                    \* wh3, upd.expr
     field |-> <<>>, pattern |-> <<>>]                \* wh1

\* cur_lex_type and cur_lex_text.
Cur(p) == IF p.failed THEN BAD
          ELSE IF p.at <= Len(p.lexemes) THEN p.lexemes[p.at] ELSE END

At(p, classes) == Cur(p).t \in classes

\* lexer::next: the look-ahead of W has read up to three lexemes of the clause
\* already, but hands them out as if it had not.
Next1(p) == LET q == [p EXCEPT !.at = @ + 1]
            IN  IF p.failed THEN p ELSE [q EXCEPT !.failed = Cur(q) = BAD]

Fail(p) == [p EXCEPT !.failed = TRUE]

\* "Incorrect syntax", unless the lexeme is of the class.
Want(p, class) == IF At(p, {class}) THEN Next1(p) ELSE Fail(p)

OutOf == [first |-> "expr", left |-> "logic", right |-> "logic", set |-> "set"]
Emit(p, c, item) == [p EXCEPT ![OutOf[c]] = Append(@, item)]

TakesClosing(c) == c \in {"first", "left"}

-----------------------------------------------------------------------------
(* Expressions *)

\* W9: an unsigned number, or one with a sign, which becomes part of its text.
Constant(p, c) ==
    LET q == IF At(p, {"+", "-"}) THEN Next1(p) ELSE p IN
    IF ~At(q, {"LONG_NUM"}) THEN Fail(q)
    ELSE Next1(Emit(q, c, Number(IF At(p, {"-"}) THEN -Cur(q).n ELSE Cur(q).n)))

\* W8
Operand(p, c) == IF At(p, {"ID"}) THEN Next1(Emit(p, c, Cur(p))) ELSE Constant(p, c)

RECURSIVE W5(_, _), SumTail(_, _), ProductTail(_, _)

\* W7: right after a closing parenthesis was taken, the operand is what is there.
Factor(p, c) ==
    IF p.resumed[c] THEN [p EXCEPT !.resumed[c] = FALSE]
    ELSE IF At(p, {"("})
    THEN LET q == W5(Next1([p EXCEPT !.inner[c] = @ + 1]), c)
         IN  Want([q EXCEPT !.inner[c] = @ - 1], ")")
    ELSE Operand(p, c)

\* W6
Product(p, c) == ProductTail(Factor(p, c), c)

ProductTail(p, c) ==
    IF At(p, {"*", "/", "%"})
    THEN ProductTail(Emit(Factor(Next1(p), c), c, Cur(p)), c)
    ELSE p

SumTail(p, c) ==
    IF At(p, {"+", "-"})
    THEN SumTail(Emit(Product(Next1(p), c), c, Cur(p)), c)
    ELSE p

\* L1: a closing parenthesis that was opened before the expression began ends
\* the operand read so far (goto L1).
ClosedSum(p, c) ==
    IF ~(TakesClosing(c) /\ p.inner[c] = 0 /\ At(p, {")"})) THEN p
    ELSE IF p.par = 0 THEN Fail(p)
    ELSE W5(Next1([p EXCEPT !.par = @ - 1, !.resumed[c] = TRUE]), c)

W5(p, c) == ClosedSum(SumTail(Product(p, c), c), c)

\* W4, W11, W17, W1_C: a side of a comparison is a string or an expression.
StringOr(p, c) ==
    IF At(p, {"STR"}) THEN Next1(Emit(p, c, Cur(p))) ELSE W5(p, c)

W4(p)   == StringOr(p, "first")
W17(p)  == StringOr(p, "left")
W11(p)  == StringOr(p, "right")
W1_C(p) == StringOr(p, "set")

-----------------------------------------------------------------------------
(* Lists *)

\* A constant that is made a long long at once: strtoll and ERANGE.
InRange(n) == -(MaxLong + 1) <= n /\ n <= MaxLong

\* Mutant of ListNumber: LLONG_MIN is not told apart.
ListNumberSymmetric(p, to) ==
    LET q == IF At(p, {"+", "-"}) THEN Next1(p) ELSE p
        n == IF At(p, {"-"}) THEN -Cur(q).n ELSE Cur(q).n
    IN
    IF ~At(q, {"LONG_NUM"}) THEN Fail(q)
    ELSE IF ~InRange(n) THEN Fail(q)
    ELSE Next1([q EXCEPT ![to] = Append(@, Number(IF n < -MaxLong THEN -MaxLong ELSE n))])

\* WE25 and, for INSERT, W11_B1
ListNumber(p, to) ==
    LET q == IF At(p, {"+", "-"}) THEN Next1(p) ELSE p
        n == IF At(p, {"-"}) THEN -Cur(q).n ELSE Cur(q).n
    IN
    IF ~At(q, {"LONG_NUM"}) THEN Fail(q)
    ELSE IF ~InRange(n) THEN Fail(q)
    ELSE Next1([q EXCEPT ![to] = Append(@, Number(n))])

RECURSIVE WE22(_), WE24(_)

WE22(p) ==
    IF ~At(p, {"STR"}) THEN Fail(p)
    ELSE LET q == Next1([p EXCEPT !.list = Append(@, Cur(p))])
         IN  IF At(q, {","}) THEN WE22(Next1(q)) ELSE q

WE24(p) == LET q == ListNumber(p, "list")
           IN  IF At(q, {","}) THEN WE24(Next1(q)) ELSE q

\* WE21: the first constant decides the type of the others.
WE21(p) == IF At(p, {"STR"}) THEN WE22(p) ELSE WE24(p)

Negated(p) == IF At(p, {"NOT"}) THEN Next1([p EXCEPT !.neg = TRUE]) ELSE p

\* [NOT] IN ( list ), after the expression.
WE2(p) == Want(WE21(Want(Want(Negated(p), "IN"), "(")), ")")

\* field [NOT] LIKE string
WE1(p) ==
    LET q == Want(Negated(Want([p EXCEPT !.field = Cur(p)], "ID")), "LIKE")
    IN  Want([q EXCEPT !.pattern = Cur(q)], "STR")

-----------------------------------------------------------------------------
(* Logic *)

RECURSIVE W1(_), OrTail(_), AndTail(_), SkipNots(_, _), SkipOpens(_)

SkipOpens(p) ==
    IF At(p, {"("}) THEN SkipOpens(Next1([p EXCEPT !.par = @ + 1])) ELSE p

\* The parenthesis a comparison ends with.
Closed(p, closes) ==
    IF ~closes THEN p
    ELSE IF p.par = 0 THEN Fail(p)
    ELSE Want([p EXCEPT !.par = @ - 1], ")")

\* W10 and the right side.
Compared(p, closes) ==
    IF ~At(p, {"=", ">", "<", ">=", "<=", "!="}) THEN Fail(p)
    ELSE Closed(Emit(W11(Next1(p)), "right", Cur(p)), closes)

\* Behind the first side: only here can it be known whether it is compared.
InOrCompared(p, closes) ==
    IF p.par = 0 /\ p.where = 0 THEN WE2([p EXCEPT !.where = 2])
    ELSE Compared([p EXCEPT !.where = 3, !.logic = p.expr, !.expr = <<>>], closes)

\* The side, "left" or "first", that a comparison starts with, and the rest.
Comparison(p, closes) ==
    IF p.first THEN InOrCompared(W4([p EXCEPT !.first = FALSE]), closes)
    ELSE Compared(W17(p), closes)

\* W3: an even number of NOTs cancels out.
SkipNots(p, odd) ==
    IF At(p, {"NOT"}) THEN SkipNots(Next1(p), ~odd) ELSE [p |-> p, odd |-> odd]

Negation(p, odd) ==
    LET q == Want([p EXCEPT !.where = 3, !.underNot = TRUE, !.nots = @ + 1], "(")
        e == [Want(W1(q), ")") EXCEPT !.nots = @ - 1]
    IN  IF odd THEN Emit(e, "right", Sym("NOT")) ELSE e

W3Not(p) == LET s == SkipNots(p, FALSE) IN Negation(s.p, s.odd)

\* WE23: a comparison brings its own parentheses, unless it is the first thing
\* under a NOT, which has them. Parentheses around more are only counted.
WE23(p) ==
    LET q == SkipOpens([p EXCEPT !.underNot = FALSE])
    IN  IF At(q, {"NOT"}) THEN W3Not(q) ELSE Comparison(q, ~p.underNot)

\* W3
W3(p) ==
    IF p.logicResumed THEN [p EXCEPT !.logicResumed = FALSE]
    ELSE IF At(p, {"NOT"}) THEN W3Not(p)
    ELSE WE23(p)

\* W2
W2(p) == AndTail(W3(p))

\* Mutant of AndTail: the operator goes before its right operand.
AndTailEager(p) ==
    IF At(p, {"AND"}) THEN AndTail(W3(Emit(Next1(p), "right", Sym("AND")))) ELSE p

AndTail(p) ==
    IF At(p, {"AND"}) THEN AndTail(Emit(W3(Next1(p)), "right", Sym("AND"))) ELSE p

OrTail(p) ==
    IF At(p, {"OR"}) THEN OrTail(Emit(W2(Next1(p)), "right", Sym("OR"))) ELSE p

\* L3: a closing parenthesis ends the group read so far (goto L3).
ClosedLogic(p) ==
    IF p.nots # 0 \/ ~At(p, {")"}) THEN p
    ELSE IF p.par = 0 THEN Fail(p)
    ELSE W1(Next1([p EXCEPT !.par = @ - 1, !.logicResumed = TRUE]))

W1(p) == ClosedLogic(OrTail(W2(p)))

AllClosed(p) == IF p.par # 0 THEN Fail(p) ELSE p

\* W: LIKE as the second or third lexeme of the clause is looked for before
\* anything is parsed; reading ahead fails where a lexeme is BAD.
W(p) ==
    LET Ahead(k) == Cur([p EXCEPT !.at = @ + k]) IN
    IF At(p, {"ALL"}) THEN Next1([p EXCEPT !.where = 4])
    ELSE IF \E k \in 0..2 : Ahead(k) = BAD THEN Fail(p)
    ELSE IF \E k \in 1..2 : Ahead(k) = Sym("LIKE") THEN WE1([p EXCEPT !.where = 1])
    ELSE AllClosed(W1(p))

=============================================================================
