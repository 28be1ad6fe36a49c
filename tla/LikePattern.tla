---------------------------- MODULE LikePattern ----------------------------
(***************************************************************************)
(* The LIKE condition of a worker (where1 in Server/header_structures.cpp):*)
(* check_str, which reads a pattern through the string stream ss and       *)
(* accepts or rejects it, and like, which matches a text with an accepted  *)
(* pattern.                                                                *)
(*                                                                         *)
(* A worker has one where1 for the whole connection. where1::clear resets  *)
(* the field, the negation and the pattern, and not ss: what a rejected    *)
(* pattern leaves unread is read first by the next check.                  *)
(***************************************************************************)
EXTENDS Integers, Sequences

CONSTANTS
    Pattern,    \* patterns the client sends, without their quotes
    Text,       \* values the column has
    MaxUnread   \* bound: a check starts with at most this much unread

\* Characters are their codes. A string of the client ends at the first quote in
\* it (Client/analysis.cpp:481-501).
Percent == 37
Quote   == 39
Minus   == 45
Open    == 91
Close   == 93
Caret   == 94
Under   == 95

ASSUME PatternAssumption == Pattern \subseteq Seq(Int \ {Quote})
ASSUME TextAssumption    == Text \subseteq Seq(Int)

VARIABLES
    ss,         \* what is unread in the stream
    pattern,    \* the pattern of the last check
    verdict,    \* "none", "accepted" or "rejected"
    text,       \* the last text matched with it
    result      \* the result of like, or "none"

vars == <<ss, pattern, verdict, text, result>>

Drop(s, n) == SubSeq(s, n + 1, Len(s))

-----------------------------------------------------------------------------
(* check_str: a recursive descent over the characters s, with a procedure    *)
(* for each nonterminal; s[j] is the current lexeme.                         *)

Accept(s, j) == [ok |-> TRUE, unread |-> Drop(s, j)]

\* The exception is thrown with one character after the current lexeme read
\* ahead, except after the closing quote.
Reject(s, j) ==
    [ok |-> FALSE, unread |-> Drop(s, IF s[j] = Quote THEN j ELSE j + 1)]

\* What may stand in a set: B, B1 and B2.
InSet(c) == c \notin {Close, Caret, Minus, Quote}

\* Where the reading of a set stops, and whether that is at its end.
Stops(ok, j) == [ok |-> ok, at |-> j]

\* D: members up to the first character that is none.
D(s, j) ==
    LET end == CHOOSE i \in j..Len(s) :
                   ~InSet(s[i]) /\ \A k \in j..(i - 1) : InSet(s[k])
    IN  Stops(s[end] = Close, end)

\* Mutant of A: the bounds of a range are not compared.
AUnordered(s, j) ==
    LET m == IF s[j] = Caret THEN j + 1 ELSE j IN
    IF ~InSet(s[m]) THEN Stops(FALSE, m)
    ELSE IF s[m + 1] # Minus THEN D(s, m + 1)
    ELSE IF ~InSet(s[m + 2]) THEN Stops(FALSE, m + 2)
    ELSE Stops(s[m + 3] = Close, m + 3)

\* A and C: [^] member - member, or a list of members.
A(s, j) ==
    LET m == IF s[j] = Caret THEN j + 1 ELSE j IN
    IF ~InSet(s[m]) THEN Stops(FALSE, m)
    ELSE IF s[m + 1] # Minus THEN D(s, m + 1)
    ELSE IF ~InSet(s[m + 2]) THEN Stops(FALSE, m + 2)
    ELSE Stops(s[m] <= s[m + 2] /\ s[m + 3] = Close, m + 3)

S1(s) ==
    LET s1[j \in 1..Len(s)] ==
            IF s[j] = Quote THEN Accept(s, j)
            ELSE IF s[j] # Open THEN s1[j + 1]
            ELSE LET set == A(s, j + 1)
                 IN  IF set.ok THEN s1[set.at + 1] ELSE Reject(s, set.at)
    IN  s1

S(s) == IF s[1] = Quote THEN Reject(s, 1) ELSE S1(s)[1]

\* lexer_init puts the pattern behind what is unread and drops one character,
\* meant to be the opening quote.
Check(p) == S(Tail(ss \o <<Quote>> \o p \o <<Quote>>))

-----------------------------------------------------------------------------
(* like: a text and a pattern. Only for patterns that are well formed:       *)
(* otherwise it reads past the end of the pattern.                           *)

\* The place of the first ] from place j on.
SetEnd(p, j) == CHOOSE i \in j..Len(p) :
                    p[i] = Close /\ \A k \in j..(i - 1) : p[k] # Close

\* Mutant of SetAdmits: the end of a range is left out.
SetAdmitsHalfOpen(p, j, c) ==
    LET neg == p[j] = Caret
        m   == IF neg THEN j + 1 ELSE j
        hit == IF p[m + 1] = Minus THEN p[m] <= c /\ c < p[m + 2]
               ELSE \E i \in m..(SetEnd(p, m) - 1) : p[i] = c
    IN  hit # neg

\* The set whose [ is before place j lets the character c pass.
SetAdmits(p, j, c) ==
    LET neg == p[j] = Caret
        m   == IF neg THEN j + 1 ELSE j
        hit == IF p[m + 1] = Minus THEN p[m] <= c /\ c <= p[m + 2]
               ELSE \E i \in m..(SetEnd(p, m) - 1) : p[i] = c
    IN  hit # neg

\* Where iter2 stands after the character or set that begins after place j.
Behind(p, j) == IF p[j + 1] = Open THEN SetEnd(p, j + 2) ELSE j + 1

\* That character or set lets c pass.
Passes(p, j, c) ==
    \/ p[j + 1] = Under
    \/ p[j + 1] = Open /\ SetAdmits(p, j + 2, c)
    \/ p[j + 1] \notin {Under, Open} /\ p[j + 1] = c

\* The i for which like returns true when i characters of the text and j of the
\* pattern are behind its iterators; rest are those for the pattern behind the
\* next character or set.
Starts(t, p, j, rest) ==
    IF p[j + 1] # Percent
    THEN {i \in 0..(Len(t) - 1) : Passes(p, j, t[i + 1]) /\ i + 1 \in rest}
    ELSE {i \in 0..Len(t) :
             IF i = Len(t) THEN i \in rest
             ELSE j + 1 = Len(p) \/ \E k \in i..(Len(t) - 1) : k \in rest}

LikeFrom(t, p) ==
    LET like[j \in 0..Len(p)] ==
            IF j = Len(p) THEN {Len(t)} ELSE Starts(t, p, j, like[Behind(p, j)])
    IN  like

Like(t, p) == 0 \in LikeFrom(t, p)[0]

-----------------------------------------------------------------------------
Init ==
    /\ ss = <<>>
    /\ pattern = <<>> /\ verdict = "none"
    /\ text = <<>> /\ result = "none"

\* A statement with a LIKE arrives.
CheckStr(p) ==
    /\ verdict = "none"
    /\ Len(ss) <= MaxUnread
    /\ ss' = Check(p).unread
    /\ pattern' = p
    /\ verdict' = IF Check(p).ok THEN "accepted" ELSE "rejected"
    /\ UNCHANGED <<text, result>>

-----------------------------------------------------------------------------
(* What a pattern means *)

\* What stands between the brackets of a set, without a ^.
Members(set) == SubSeq(set, IF set[2] = Caret THEN 3 ELSE 2, Len(set) - 1)

IsRange(members) == Len(members) = 3 /\ members[2] = Minus

\* p is one set: [ ], with or without ^, around members or around a range.
IsSet(p) ==
    /\ Len(p) >= 3 /\ p[1] = Open /\ p[Len(p)] = Close
    /\ LET ms == Members(p)
       IN  \/ ms # <<>> /\ \A i \in 1..Len(ms) : InSet(ms[i])
           \/ IsRange(ms) /\ InSet(ms[1]) /\ InSet(ms[3]) /\ ms[1] <= ms[3]

\* What stands between places a and b of p is one character or one set.
IsItem(p, a, b) ==
    \/ b = a + 1 /\ p[b] # Open
    \/ IsSet(SubSeq(p, a + 1, b))

\* a and b are in the set C of places, with none between them.
Adjacent(C, a, b) == a \in C /\ b \in C /\ a < b /\ \A c \in C : c <= a \/ b <= c

\* The places where p can be cut into single characters and sets.
Cuts(p) ==
    {C \in SUBSET (0..Len(p)) :
        /\ {0, Len(p)} \subseteq C
        /\ \A a, b \in C : Adjacent(C, a, b) => IsItem(p, a, b)}

WellFormed(p) == p # <<>> /\ Cuts(p) # {}

Admits(item, c) ==
    IF Len(item) = 1 THEN item[1] = Under \/ item[1] = c
    ELSE LET ms  == Members(item)
             hit == IF IsRange(ms) THEN ms[1] <= c /\ c <= ms[3]
                    ELSE \E i \in 1..Len(ms) : ms[i] = c
         IN  hit # (item[2] = Caret)

\* The item between a and b takes the characters from i up to k of the text:
\* one character that it admits, or any number of them for a %.
Takes(t, p, a, b, i, k) ==
    IF SubSeq(p, a + 1, b) = <<Percent>> THEN i <= k
    ELSE k = i + 1 /\ Admits(SubSeq(p, a + 1, b), t[k])

\* The text can be cut along with the pattern: at[a] is where the item that
\* begins at a begins in the text.
Matches(t, p) ==
    \E C \in Cuts(p) : \E at \in [C -> 0..Len(t)] :
        /\ at[0] = 0 /\ at[Len(p)] = Len(t)
        /\ \A a, b \in C : Adjacent(C, a, b) => Takes(t, p, a, b, at[a], at[b])

-----------------------------------------------------------------------------
\* A record is matched with the pattern of the statement.
Match(t) ==
    /\ verdict = "accepted" /\ WellFormed(pattern)
    /\ text' = t
    /\ result' = IF Like(t, pattern) THEN "match" ELSE "differ"
    /\ UNCHANGED <<ss, pattern, verdict>>

\* The statement is answered: where1::clear forgets all of it but ss.
Clear ==
    /\ verdict # "none"
    /\ pattern' = <<>> /\ verdict' = "none" /\ text' = <<>> /\ result' = "none"
    /\ UNCHANGED ss

\* The client starts again: the new worker has a new where1.
Reconnect ==
    /\ verdict = "none" /\ ss # <<>>
    /\ ss' = <<>>
    /\ UNCHANGED <<pattern, verdict, text, result>>

Next ==
    \/ \E p \in Pattern : CheckStr(p)
    \/ \E t \in Text : Match(t)
    \/ Clear
    \/ Reconnect

Spec == Init /\ [][Next]_vars

-----------------------------------------------------------------------------
(* Properties *)

\* like says what the pattern means, for every text (where1::like, 451-567).
LikeIsRight ==
    result # "none" => (result = "match" <=> Matches(text, pattern))

\* A check that starts with nothing unread accepts the well formed patterns
\* and no others, and an accepted pattern is read to its end, so that the next
\* check starts afresh too (where1::check_str, 101-109).
FreshCheckIsRight ==
    [][verdict = "none" /\ verdict' # "none" /\ ss = <<>> =>
          /\ verdict' = "accepted" <=> WellFormed(pattern')
          /\ verdict' = "accepted" => ss' = <<>>]_vars

\* Whether a pattern is rejected as incorrect depends on the pattern alone
\* ("Incorrect syntax of string in LIKE clause", header_structures.cpp:107).
VerdictIsOfPattern ==
    verdict # "none" => (verdict = "accepted" <=> WellFormed(pattern))

=============================================================================
