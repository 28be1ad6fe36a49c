----------------------------- MODULE MCWorkers -----------------------------
(* Small instances of Workers for TLC. *)
EXTENDS WorkersLocks, TLC

CONSTANTS i1, i2    \* two inode numbers

\* Keys are named after inode numbers. OneToOne is ftok on numbers below 2^16;
\* Colliding gives i1 and i2 one key, as numbers that differ by 2^16 have.
OneToOne  == [i \in Inode |-> i]
Colliding == [i \in Inode |-> IF i = i2 THEN i1 ELSE i]

Interchangeable ==
    Permutations(Worker) \cup Permutations(Table) \cup Permutations(SemId)

\* With OneToOne, inode numbers are interchangeable too.
InterchangeableAll == Interchangeable \cup Permutations(Inode)

=============================================================================
