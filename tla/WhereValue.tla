----------------------------- MODULE WhereValue -----------------------------
(***************************************************************************)
(* What a worker makes of a condition and of the expression of an UPDATE   *)
(* for one record: where2::choose, where3::choose (header_structures.cpp)  *)
(* and the loop of make_update (server.cpp), over postfix with stacks.     *)
(*                                                                         *)
(* A row gives the names of fields their values, lexemes LONG_NUM or STR.  *)
(* The outcome is a value, logic_error ("error"), SIGFPE ("killed"), or    *)
(* the top of an empty stack, which is undefined behaviour ("underflow").  *)
(***************************************************************************)
EXTENDS Lexer

CONSTANT TextOrder  \* the marks of texts, numbered as they compare

\* long long, as the processor computes it.
Wrap(n) == ((n + MaxLong + 1) % (2 * MaxLong + 2)) - (MaxLong + 1)
FitsLong(n) == Wrap(n) = n

\* C++ division goes towards zero.
Magnitude(n)   == IF n < 0 THEN -n ELSE n
Quotient(x, y) == IF x < 0 <=> y < 0 THEN Magnitude(x) \div Magnitude(y)
                  ELSE -(Magnitude(x) \div Magnitude(y))

\* Division traps for zero, and for a quotient that does not fit.
Traps(op, x, y) ==
    op \in {"/", "%"} /\ (y = 0 \/ ~FitsLong(Quotient(x, y)))

Arith(op, x, y) ==
    CASE op = "+" -> Wrap(x + y)
      [] op = "-" -> Wrap(x - y)
      [] op = "*" -> Wrap(x * y)
      [] op = "/" -> Quotient(x, y)
      [] op = "%" -> x - y * Quotient(x, y)
      [] op = "AND" -> IF x # 0 /\ y # 0 THEN 1 ELSE 0
      [] op = "OR"  -> IF x # 0 \/ y # 0 THEN 1 ELSE 0

TextLess(s, t) ==
    \E i \in 1..Len(t) :
        /\ i - 1 <= Len(s) /\ SubSeq(s, 1, i - 1) = SubSeq(t, 1, i - 1)
        /\ i > Len(s) \/ TextOrder[s[i]] < TextOrder[t[i]]

\* A comparison, given whether the sides are equal and whether the first is less.
Holds(op, same, less) ==
    CASE op = "="  -> same
      [] op = "!=" -> ~same
      [] op = "<"  -> less
      [] op = "<=" -> less \/ same
      [] op = ">"  -> ~less /\ ~same
      [] op = ">=" -> ~less

Bit(b) == IF b THEN 1 ELSE 0

ArithOps   == {"+", "-", "*", "/", "%"}
CompareOps == {"=", "!=", "<", "<=", ">", ">="}

-----------------------------------------------------------------------------
(* One item of postfix *)

NewStacks == [num |-> <<>>, str |-> <<>>, out |-> "", isFirst |-> TRUE, isNum |-> TRUE]

Pop2(stack) == SubSeq(stack, 1, Len(stack) - 2)
Op1(stack)  == stack[Len(stack) - 1]
Op2(stack)  == Last(stack)

Stop(st, out) == [st EXCEPT !.out = out]

PushNum(st, n) == IF FitsLong(n) THEN [st EXCEPT !.num = Append(@, n)]
                  ELSE Stop(st, "error")
PushStr(st, s) == [st EXCEPT !.str = Append(@, s)]

OnTwoNumbers(st, op) ==
    IF Len(st.num) < 2 THEN Stop(st, "underflow")
    ELSE LET x == Op1(st.num)  y == Op2(st.num) IN
         IF Traps(op, x, y) THEN Stop(st, "killed")
         ELSE [st EXCEPT !.num =
                 Append(Pop2(@), IF op \in CompareOps
                                 THEN Bit(Holds(op, x = y, x < y))
                                 ELSE Arith(op, x, y))]

\* A constant or the field it names; no such field is an error.
Known(item, row) == item.t = "ID" => item.name \in DOMAIN row
ValueOf(item, row) == IF item.t = "ID" THEN row[item.name] ELSE item

Push(st, v) == IF v.t = "LONG_NUM" THEN PushNum(st, v.n) ELSE PushStr(st, v.s)

IsOperand(item) == item.t \in {"ID", "LONG_NUM", "STR"}

\* where3: the first operand of a comparison decides its type (flag, type). An
\* operator in its place would be taken for a string.
FirstOperand(st, v) ==
    Push([st EXCEPT !.isFirst = FALSE, !.isNum = v.t = "LONG_NUM"], v)

LaterOperand(st, v) ==
    IF st.isNum <=> v.t = "LONG_NUM" THEN Push(st, v) ELSE Stop(st, "error")

\* Mutant of Comparing: the next operand is not the first of a comparison.
ComparingSameType(st, op) ==
    IF Len(st.str) = 2
    THEN [st EXCEPT !.str = <<>>,
                    !.num = Append(@, Bit(Holds(op, Op1(st.str) = Op2(st.str),
                                                TextLess(Op1(st.str), Op2(st.str)))))]
    ELSE IF st.str # <<>> THEN Stop(st, "error")
    ELSE OnTwoNumbers(st, op)

Comparing(st, op) ==
    LET next == [st EXCEPT !.isFirst = TRUE] IN
    IF Len(st.str) = 2
    THEN [next EXCEPT !.str = <<>>,
                      !.num = Append(@, Bit(Holds(op, Op1(st.str) = Op2(st.str),
                                                  TextLess(Op1(st.str), Op2(st.str)))))]
    ELSE IF st.str # <<>> THEN Stop(st, "error")
    ELSE OnTwoNumbers(next, op)

Negating(st) ==
    IF st.num = <<>> THEN Stop(st, "underflow")
    ELSE [st EXCEPT !.num = Append(Front(@), Bit(Last(@) = 0))]

LogicItem(st, item, row) ==
    IF st.out # "" THEN st
    ELSE IF IsOperand(item) /\ ~Known(item, row) THEN Stop(st, "error")
    ELSE IF st.isFirst /\ item.t \notin {"AND", "OR", "NOT"}
    THEN FirstOperand(st, IF IsOperand(item) THEN ValueOf(item, row) ELSE Text(<<item.t>>))
    ELSE IF Len(st.str) > 2 THEN Stop(st, "error")
    ELSE IF IsOperand(item) THEN LaterOperand(st, ValueOf(item, row))
    ELSE IF item.t \in CompareOps THEN Comparing(st, item.t)
    ELSE IF st.str # <<>> THEN Stop(st, "error")
    ELSE IF item.t = "NOT" THEN Negating(st)
    ELSE OnTwoNumbers(st, item.t)

\* where2 and the loop of make_update: numbers only.
NumberItem(st, item, row) ==
    IF st.out # "" THEN st
    ELSE IF ~IsOperand(item) THEN OnTwoNumbers(st, item.t)
    ELSE IF ~Known(item, row) THEN Stop(st, "error")
    ELSE IF ValueOf(item, row).t = "STR" THEN Stop(st, "error")
    ELSE Push(st, ValueOf(item, row))

-----------------------------------------------------------------------------
(* The whole *)

\* A number, or how the worker ended without one.
Result(st) ==
    IF st.out # "" THEN [out |-> st.out]
    ELSE IF st.num = <<>> THEN [out |-> "underflow"]
    ELSE [out |-> "value", n |-> Last(st.num)]

Computed(expr, row) ==
    Result(FoldLeft(LAMBDA st, item : NumberItem(st, item, row), NewStacks, expr))

Verdict(b) == [out |-> "value", n |-> Bit(b)]

\* where2::choose
ChooseIn(cond, row) ==
    LET texts  == cond.list[1].t = "STR"
        single == cond.expr[1]
        value  == Computed(cond.expr, row)
    IN
    IF texts
    THEN IF \/ Len(cond.expr) > 1 \/ ~Known(single, row)
            \/ ValueOf(single, row).t # "STR"
         THEN [out |-> "error"]
         ELSE Verdict(cond.neg # (ValueOf(single, row) \in Range(cond.list)))
    ELSE IF value.out # "value" THEN value
    ELSE Verdict(cond.neg # (Number(value.n) \in Range(cond.list)))

\* where3::choose
ChooseLogic(cond, row) ==
    LET st == FoldLeft(LAMBDA s, item : LogicItem(s, item, row), NewStacks, cond.logic)
    IN  IF st.out = "" /\ (Len(st.num) # 1 \/ st.str # <<>>)
        THEN [out |-> "misshapen"]
        ELSE Result(st)

\* IN, a logic expression, or ALL.
Choose(where, cond, row) ==
    CASE where = 2 -> ChooseIn(cond, row)
      [] where = 3 -> ChooseLogic(cond, row)
      [] where = 4 -> Verdict(TRUE)

=============================================================================
