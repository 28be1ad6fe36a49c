----------------------------- MODULE ClientLine -----------------------------
(***************************************************************************)
(* The client from the line its user types to the rows the worker chooses: *)
(* the loop of Client/main.cpp around the lexer and the parser, and what   *)
(* the worker computes from what is sent.                                  *)
(*                                                                         *)
(* Connection says how a statement travels and what becomes of the         *)
(* connection; here it arrives.                                            *)
(***************************************************************************)
EXTENDS Request, Meaning

CONSTANTS
    Topics,     \* what the user is about to type: how every line starts, the
                \* phrases to go on with, whether without an obvious mistake, and
                \* bounds: how often a mark is in a line at most, and lines:
                \* [start, phrases, careful, most, lines]
    Rows        \* the records a condition is evaluated for

VARIABLES
    topic,      \* the topic of the lines
    pc,         \* "type", "read", "sent" or "exited"
    line,       \* what has been typed of the current line
    input,      \* marks in std::cin up to the newline
    atEnd,      \* lexer::cur_lex_type is END
    sent,       \* the statement under way, and the marks it was read from
    typed,      \* history: the last line that was entered
    lines       \* lines entered

vars == <<topic, pc, line, input, atEnd, sent, typed, lines>>

None == [from |-> <<>>, stmt |-> <<>>]

Init ==
    /\ topic \in Topics
    /\ pc = "type" /\ line = topic.start /\ input = <<>>
    /\ atEnd = FALSE        \* a global that is zero: SELECT
    /\ sent = None /\ typed = <<>> /\ lines = 0

\* The parser has not found fault with a line but that it ends.
Unfaulted(p)     == p.failed => p.at > Len(p.lexemes)
Continues(marks) == Unfaulted(Parse(Lex(marks).lexemes))

Within(marks) ==
    \A m \in DOMAIN topic.most :
        Len(SelectSeq(marks, LAMBDA x : x = m)) <= topic.most[m]

Type(phrase) ==
    /\ pc = "type" /\ lines < topic.lines
    /\ Within(line \o phrase)
    /\ topic.careful => Continues(line \o phrase)
    /\ line' = line \o phrase
    /\ UNCHANGED <<topic, pc, input, atEnd, sent, typed, lines>>

Enter ==
    /\ pc = "type" /\ lines < topic.lines
    /\ pc' = "read" /\ input' = line /\ typed' = line /\ line' = topic.start
    /\ lines' = lines + 1
    /\ UNCHANGED <<topic, atEnd, sent>>

-----------------------------------------------------------------------------
(* One turn of the loop of main() *)

Quit ==
    /\ pc = "read" /\ input = <<"exit">>
    /\ pc' = "exited" /\ input' = <<>>
    /\ UNCHANGED <<topic, line, atEnd, sent, typed, lines>>

Help ==
    /\ pc = "read" /\ input = <<"help">>
    /\ pc' = "type" /\ input' = <<>>
    /\ UNCHANGED <<topic, line, atEnd, sent, typed, lines>>

IsRequest == pc = "read" /\ input \notin {<<"exit">>, <<"help">>}

\* What lexer and parser, one the coroutine of the other, make of the line.
Parsed == Parse(Lex(input).lexemes)

Accept ==
    /\ IsRequest
    /\ \E p \in {Parsed} : ~p.failed /\ sent' = [from |-> input, stmt |-> Statement(p)]
    /\ pc' = "sent" /\ input' = <<>> /\ atEnd' = TRUE
    /\ UNCHANGED <<topic, line, typed, lines>>

\* cur_lex_type after a rejection. An exception before the first lexeme is known
\* leaves it as the request before has left it.
EndsAtEnd(p) ==
    IF p.lexemes = <<>> \/ p.lexemes[1] = BAD THEN atEnd
    ELSE p.at > Len(p.lexemes)

\* Mutant of RestIgnored: the line is not emptied.
RestRead == FALSE

\* The rest of a rejected line is ignored, unless it seems to be read already.
RestIgnored == ~atEnd'

Reject ==
    /\ IsRequest
    /\ \E p \in {Parsed} : p.failed /\ atEnd' = EndsAtEnd(p)
    /\ \E scan \in {Lex(input)} :
          IF ~RestIgnored /\ scan.newline
          THEN input' = scan.rest /\ UNCHANGED pc
          ELSE input' = <<>> /\ pc' = "type"
    /\ UNCHANGED <<topic, line, sent, typed, lines>>

\* The worker has answered.
Answered ==
    /\ pc = "sent"
    /\ pc' = "type" /\ sent' = None
    /\ UNCHANGED <<topic, line, input, atEnd, typed, lines>>

Next ==
    \/ \E phrase \in topic.phrases : Type(phrase)
    \/ Enter
    \/ Quit \/ Help \/ Accept \/ Reject
    \/ Answered

Spec == Init /\ [][Next]_vars

-----------------------------------------------------------------------------
(* Properties *)

stmt == sent.stmt

\* The lexemes of ls behind the first of class t, up to that of u.
PartOf(ls, t, u) ==
    LET i  == CHOOSE k \in DOMAIN ls : ls[k].t = t /\ \A j \in 1..(k - 1) : ls[j].t # t
        after == {k \in (i + 1)..Len(ls) : ls[k].t = u}
    IN  SubSeq(ls, i + 1, IF after = {} THEN Len(ls) ELSE Min(after) - 1)

\* The same of the line that was typed.
Part(t, u) == PartOf(Lex(typed).lexemes, t, u)

Clause == Part("WHERE", "END")

\* What the worker is to find where the typed text means m: that, for a meaning of
\* kind k; an error for another one; and it must be killed for no other than Trap.
AsMeant(m, k, outcome) ==
    IF m.k = k THEN outcome = [out |-> "value", n |-> m.n]
    ELSE outcome.out \in {"error"} \cup (IF m = Trap THEN {"killed"} ELSE {})

ChosenAsMeant ==
    \A row \in Rows :
        AsMeant(Meaning(Clause, row), "truth", Choose(stmt.where, stmt.cond, row))

IsTyped == pc = "sent" /\ sent.from = typed

HasLogic == IsTyped /\ stmt.where \in {2, 3}

\* A condition chooses exactly the rows it says, and an ill typed one is refused
\* for every row: through the look-ahead, five counters and flags, postfix, and
\* the two stacks of the worker. Left out are the shapes that are known not to
\* survive the parser (analysis.cpp:2129-2880, header_structures.cpp:577-1064).
ChoosesAsWritten ==
    /\ HasLogic
    /\ OwnParentheses(Clause) /\ GroupsFirst(Clause) /\ InAlone(Clause)
    => ChosenAsMeant

\* The manual offers "WHERE <logic expression>" (Client/main.cpp:32), and the
\* parser takes parentheses around parts of one: it means what it says. It does
\* not: parentheses around more than a comparison group from the left.
MeansWhatItSays == HasLogic /\ OwnParentheses(Clause) => ChosenAsMeant

\* The postfix that the client makes of a condition, well typed or not, well
\* grouped or not, never takes the worker to the top of an empty stack, nor
\* leaves anything but the one result (header_structures.cpp:647-721, 756-1064).
PostfixIsWhole ==
    HasLogic /\ InAlone(Clause) =>
        \A row \in Rows :
            Choose(stmt.where, stmt.cond, row).out \notin {"underflow", "misshapen"}

\* UPDATE gives a LONG field the number its expression means, INSERT stores the
\* constants it lists, to the very last number that a long long holds; another
\* number is never stored in their place (analysis.cpp:1727-2125,
\* server.cpp:462).
StoresAsWritten ==
    IsTyped =>
        /\ stmt.type = 3 /\ stmt.set[1].t # "STR" =>
              \A row \in Rows :
                  AsMeant(Meaning(Part("=", "WHERE"), row), "number",
                          Computed(stmt.set, row))
        /\ stmt.type = 2 =>
              Literals(Part("(", ")"))
                  = [i \in DOMAIN stmt.items |-> Literal(<<stmt.items[i]>>)]

\* A line is executed as a whole or not at all: nothing is executed that is only
\* the rest of a line that was refused, unless that one begins with what begins
\* no lexeme (Client/main.cpp:92-109).
NoRestExecuted ==
    pc = "sent" /\ sent.from # typed => Lex(typed).lexemes[1] = BAD

=============================================================================
