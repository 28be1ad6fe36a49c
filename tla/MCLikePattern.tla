--------------------------- MODULE MCLikePattern ---------------------------
(* Small instances of LikePattern for TLC. *)
EXTENDS LikePattern

CONSTANTS Letters, PatternLength, TextLength

SeqsUpTo(chars, n) == UNION {[1..k -> chars] : k \in 0..n}

\* All short patterns, and longer ones with a range.
Ranges ==
    {before \o <<Open>> \o not \o <<from, Minus, to, Close>> \o after :
        before \in SeqsUpTo({Percent, Under}, 1), not \in SeqsUpTo({Caret}, 1),
        from \in Letters, to \in Letters,
        after \in SeqsUpTo({Percent, Close}, 1)}

SomePatterns ==
    SeqsUpTo(Letters \cup {Percent, Minus, Open, Close, Caret, Under},
              PatternLength) \cup Ranges

SomeTexts == SeqsUpTo(Letters, TextLength)

=============================================================================
