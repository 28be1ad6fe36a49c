---------------------------- MODULE MCClientLine ----------------------------
(* Small instances of ClientLine for TLC: what is typed, and the records.    *)
EXTENDS ClientLine

Order == [x |-> 1, y |-> 2]

SomeRows ==
    {(<<"a">> :> Number(i)) @@ (<<"b">> :> Number(j)) @@ (<<"s">> :> Text(t)) :
        i \in {1, 2}, j \in {1, 2}, t \in {<<"x">>, <<>>}}

Delete == <<"DELETE", " ", "FROM", " ", "t", " ", "WHERE", " ">>

Blanked(words) == {<<" ", w, " ">> : w \in words}
Spaced(words)  == {<<w, " ">> : w \in words}
Marks(ms)      == {<<m>> : m \in ms}

Paren(ms) == <<"(">> \o ms \o <<")">>

Limit(parens, comparisons, nots) ==
    ("(" :> parens) @@ ("=" :> comparisons) @@ ("NOT" :> nots)

\* Whole comparisons joined and grouped.
Logic(most) ==
    [start |-> Delete, careful |-> TRUE, lines |-> 1, most |-> most,
     phrases |-> {<<"(">>, <<")">>, Paren(<<"a", "=", "1">>), Paren(<<"b", "=", "1">>),
                  <<"AND", " ">>, <<"OR", " ">>, <<"NOT", " ">>}]

\* Arithmetic on either side of a comparison, the first or a later one, before
\* IN, or for UPDATE.
Arithmetic(start, numbers, ends, most) ==
    [start |-> start, careful |-> TRUE, lines |-> 1,
     most |-> most @@ ("-" :> 1) @@ ("/" :> 1) @@ ("*" :> 1) @@ ("=" :> 1)
              @@ ("a" :> 1) @@ ("1" :> 1) @@ ("2" :> 2) @@ ("8" :> 1) @@ ("IN" :> 1),
     phrases |-> Marks({"(", ")", "-", "*", "/"}) \cup Spaced({"a"} \cup numbers)
                 \cup ends]

\* Texts, numbers and an unknown name together.
Types(start, names) ==
    [start |-> start, careful |-> TRUE, lines |-> 1,
     most |-> ("(" :> 2) @@ ("<" :> 2) @@ ("+" :> 1) @@ ("a" :> 2) @@ ("s" :> 1)
              @@ ("c" :> 1) @@ ("1" :> 1) @@ ("'" :> 2),
     phrases |-> Marks({"(", ")", "<", "+", "="}) \cup Spaced(names)
                 \cup {<<"'", "x", "'">>}]

\* IN with lists of texts and numbers, at the ends of long long.
Lists ==
    [start |-> Delete, careful |-> TRUE, lines |-> 1,
     most |-> ("(" :> 2) @@ ("a" :> 1) @@ ("," :> 1) @@ ("NOT" :> 1) @@ ("-" :> 2)
              @@ ("s" :> 1) @@ ("1" :> 2) @@ ("8" :> 1) @@ ("'" :> 4) @@ ("IN" :> 1),
     phrases |-> Marks({"(", ")", ",", "-"}) \cup Spaced({"a", "s", "1", "8", "IN", "NOT"})
                 \cup {<<"'", "x", "'">>}]

\* INSERT: numbers around the ends of long long, and a text.
Insert ==
    [start |-> <<"INSERT", " ", "INTO", " ", "t", "(">>, careful |-> TRUE, lines |-> 1,
     most |-> ("," :> 2) @@ ("-" :> 2) @@ ("'" :> 2),
     phrases |-> Marks({",", ")", "-", "+"}) \cup Spaced({"7", "8", "9"})
                 \cup {<<"'", "x", "'">>}]

\* Two lines of whole statements and of what is none.
Session ==
    [start |-> <<>>, careful |-> FALSE, lines |-> 2,
     most |-> ("#" :> 1) @@ ("t" :> 1) @@ ("'" :> 1) @@ ("exit" :> 1) @@ ("help" :> 1),
     phrases |-> Marks({"#", "exit", "help", "'"})
                 \cup {<<"DROP", " ", "TABLE", " ", "t">>,
                       <<"CREATE", " ", "TABLE", " ", "t", "(", "a", " ", "LONG", ",",
                         "s", " ", "TEXT", "(", "1", ")", ")">>}]

\* What is looked ahead at in a condition, LIKE or no lexeme at all among it, and
\* a rest of the line that is a statement.
LookedAhead ==
    [start |-> <<"SELECT", " ", "s", " ", "FROM", " ", "t", " ", "WHERE", " ">>,
     careful |-> FALSE, lines |-> 1,
     most |-> ("#" :> 1) @@ ("(" :> 1) @@ ("s" :> 2) @@ ("NOT" :> 1) @@ ("LIKE" :> 1)
              @@ ("'" :> 2) @@ ("DROP" :> 1),
     phrases |-> Marks({"#", "("}) \cup Spaced({"s", "NOT", "LIKE"})
                 \cup {<<"'", "x", "'">>, <<"DROP", " ", "TABLE", " ", "t">>}]

FirstSide == Delete
LaterSide == Delete \o Paren(<<"b", "=", "1">>) \o <<"AND", " ">>
AfterText == Delete \o <<"(", "s", "<", "'", "x", "'", ")", "AND", " ">>
SetSide   == <<"UPDATE", " ", "t", " ", "SET", " ", "a", "=">>

Ends == {<<"=">>, <<"IN", "(", "2", ")">>}
WhereAll == <<"WHERE", " ", "ALL">>

Logics == {Logic(Limit(5, 3, 0)), Logic(Limit(4, 3, 1)), Logic(Limit(4, 2, 2))}

Calculations ==
    {Arithmetic(FirstSide, {"2"}, Ends, ("(" :> 3)),
     Arithmetic(LaterSide, {"2"}, {<<"=">>}, ("(" :> 3)),
     Arithmetic(SetSide, {"1", "2", "8"}, {WhereAll},
                ("(" :> 1) @@ ("-" :> 2) @@ ("2" :> 1))}

AllTopics  == Logics \cup Calculations
              \cup {Types(FirstSide, {"s", "c", "1", "AND"}), Types(AfterText, {"a", "s"})}
              \cup {Lists, Insert, Session, LookedAhead}
Groups     == {Logic(Limit(4, 3, 0))}
=============================================================================
