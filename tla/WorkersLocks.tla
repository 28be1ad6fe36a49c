---------------------------- MODULE WorkersLocks ----------------------------
(***************************************************************************)
(* The processes of Workers keep the promise of TableLocks, when ftok is   *)
(* one to one and a number is not reused while somebody remembers it.      *)
(***************************************************************************)
EXTENDS Workers

ASSUME WorkerAssumption == Worker \cap {"absent", "free", "dead"} = {}

\* The semaphore a client reaches through the name of a table.
SemOfTable(t) == IF inode[t] = None THEN None ELSE semOf[KeyOf[inode[t]]]

\* The worker that has a table: it took the semaphore, or has made it and not
\* yet set it to one.
Has(w, t) == pc[w] \in HoldsTable \cup {"setVal"} /\ tab(w) = t

Owner ==
    [t \in Table |->
        IF \E w \in Worker : Has(w, t) THEN CHOOSE w \in Worker : Has(w, t)
        ELSE IF SemOfTable(t) = None   THEN "absent"
        ELSE IF semVal[SemOfTable(t)] = 0 THEN "dead"
        ELSE "free"]

Locks == INSTANCE TableLocks WITH owner <- Owner

\* The promise of TableLocks, as a property of the processes: one owner per
\* table, one table per owner, no use of a table whose owner died
\* (main.cpp:364-396, 585-667).
TableLocksKept == Locks!Spec

=============================================================================
