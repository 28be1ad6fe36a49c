----------------------------- MODULE TableLocks -----------------------------
(***************************************************************************)
(* What the processes of the server promise about tables, without the      *)
(* semaphores, keys and files they do it with: a table that exists has at  *)
(* most one owner, which alone may use it, and a table whose owner died is *)
(* never used again.                                                       *)
(***************************************************************************)
CONSTANTS Worker, Table

VARIABLE owner      \* the worker that has a table, or one of "absent", "free", "dead"

Init == owner = [t \in Table |-> "absent"]

\* A worker never waits for a table while it has another.
HasNone(w) == \A t \in Table : owner[t] # w

\* The table appears, in the hands of its creator.
Make(w, t) ==
    /\ owner[t] = "absent"
    /\ HasNone(w)
    /\ owner' = [owner EXCEPT ![t] = w]

Acquire(w, t) ==
    /\ owner[t] = "free"
    /\ HasNone(w)
    /\ owner' = [owner EXCEPT ![t] = w]

Release(w, t) ==
    /\ owner[t] = w
    /\ owner' = [owner EXCEPT ![t] = "free"]

Remove(w, t) ==
    /\ owner[t] = w
    /\ owner' = [owner EXCEPT ![t] = "absent"]

\* The owner dies.
Abandon(w, t) ==
    /\ owner[t] = w
    /\ owner' = [owner EXCEPT ![t] = "dead"]

Next ==
    \E w \in Worker, t \in Table :
        \/ Make(w, t) \/ Acquire(w, t) \/ Release(w, t)
        \/ Remove(w, t) \/ Abandon(w, t)

Spec == Init /\ [][Next]_owner

=============================================================================
