------------------------------- MODULE Lexer -------------------------------
(***************************************************************************)
(* The lexer of the client (namespace lexer in Client/analysis.cpp).       *)
(*                                                                         *)
(* A typed line is a sequence of marks. A mark is one character, except    *)
(* that letters which always stand together are one mark: a keyword, or    *)
(* (part of) a name. Names may go on with keywords and digits, as in the   *)
(* code: INTO1 is a name.                                                  *)
(*                                                                         *)
(* A lexeme is a record. Its class t is one of lex_type_t; keywords and    *)
(* punctuation are their own class. The text of a name or a string is a    *)
(* sequence of marks, that of a number is its value.                       *)
(***************************************************************************)
EXTENDS Integers, Sequences, SequencesExt

CONSTANT MaxLong    \* the greatest long long

ASSUME MaxLongAssumption == MaxLong \in Nat \ {0}

Keywords == {"SELECT", "INSERT", "UPDATE", "DELETE", "CREATE", "DROP", "FROM",
             "INTO", "SET", "TABLE", "TEXT", "LONG", "WHERE", "NOT", "LIKE", "IN",
             "ALL", "OR", "AND"}
Digits   == {"0", "1", "2", "3", "4", "5", "6", "7", "8", "9"}
Single   == {",", "*", "(", ")", "=", "+", "-", "/", "%", ">", "<"}
Double   == {">=", "<=", "!="}
Blank    == " "
Quote    == "'"
Others   == {Blank, Quote, "!", "#"}    \* "#" stands for what begins no lexeme

Sym(t)    == [t |-> t]
Name(w)   == [t |-> "ID", name |-> w]
Number(n) == [t |-> "LONG_NUM", n |-> n]
Text(s)   == [t |-> "STR", s |-> s]

\* What next() returns at the end of a line, again and again: '\n' is not read.
\* A lexeme that is none: the exception of next().
END == Sym("END")
BAD == Sym("BAD")

DigitValue(d) == CHOOSE n \in 0..9 : ToString(n) = d

-----------------------------------------------------------------------------
(* next(): one lexeme from position i of line, and where reading goes on *)

\* The last position of the run that begins at i, ends the positions of the marks
\* that are not in such a run.
RunEnd(line, i, ends) ==
    LET after == {k \in ends : k > i}
    IN  IF after = {} THEN Len(line) ELSE Min(after) - 1

\* IS ... ICREATE, IDENT: the trie of keywords; anything longer is a name.
Word(line, i) ==
    LET j == RunEnd(line, i, {k \in DOMAIN line : line[k] \in Single \cup Others})
        w == SubSeq(line, i, j)
    IN  [lex |-> IF Len(w) = 1 /\ w[1] \in Keywords THEN Sym(w[1]) ELSE Name(w),
         to  |-> j + 1]

\* LN
Num(line, i) ==
    LET j == RunEnd(line, i, {k \in DOMAIN line : line[k] \notin Digits})
        Add(n, d) == 10 * n + DigitValue(d)
    IN  [lex |-> Number(FoldLeft(Add, 0, SubSeq(line, i, j))), to |-> j + 1]

\* STR, STR_MAY_END, STR_END. The first character must not be the quote, but a
\* blank is never put in cur_lex_text, so that the text may yet be empty.
Str(line, i) ==
    LET ends == {k \in (i + 1)..Len(line) : line[k] = Quote} IN
    IF ends = {} THEN [lex |-> BAD, to |-> Len(line) + 2]
    ELSE LET j == Min(ends) IN
         IF j = i + 1 THEN [lex |-> BAD, to |-> j + 1]
         ELSE [lex |-> Text(SelectSeq(SubSeq(line, i + 1, j - 1),
                                      LAMBDA m : m # Blank)),
               to  |-> j + 1]

\* G_GE, L_LE, NE: a comparison of two characters. The character after a lone
\* '!' is read before the exception.
Comparator(line, i) ==
    IF i < Len(line) /\ line[i + 1] = "="
    THEN [lex |-> Sym(CASE line[i] = ">" -> ">=" [] line[i] = "<" -> "<="
                        [] OTHER -> "!="),
          to  |-> i + 2]
    ELSE IF line[i] = "!" THEN [lex |-> BAD, to |-> i + 2]
    ELSE [lex |-> Sym(line[i]), to |-> i + 1]

\* H: the first character that is not a blank decides.
Lexeme(line, i) ==
    CASE line[i] \in Digits           -> Num(line, i)
      [] line[i] = Quote              -> Str(line, i)
      [] line[i] \in {">", "<", "!"}  -> Comparator(line, i)
      [] line[i] \in Single \ {">", "<"} -> [lex |-> Sym(line[i]), to |-> i + 1]
      [] line[i] = "#"                -> [lex |-> BAD, to |-> i + 1]
      [] OTHER                        -> Word(line, i)

\* The lexemes of a line up to its end or the first BAD, what is behind that one,
\* and whether the newline is: with its last character missing, a lexeme is only
\* known to be BAD at the newline.
RECURSIVE LexFrom(_, _, _)
LexFrom(line, i, lexemes) ==
    IF i > Len(line) THEN [lexemes |-> lexemes, rest |-> <<>>, newline |-> FALSE]
    ELSE IF line[i] = Blank THEN LexFrom(line, i + 1, lexemes)
    ELSE LET one == Lexeme(line, i) IN
         IF one.lex # BAD THEN LexFrom(line, one.to, Append(lexemes, one.lex))
         ELSE [lexemes |-> Append(lexemes, BAD),
               rest    |-> SubSeq(line, one.to, Len(line)),
               newline |-> one.to <= Len(line) + 1]

Lex(line) == LexFrom(line, 1, <<>>)

=============================================================================
