-------------------------- MODULE WorkersLocksProofs ------------------------
(***************************************************************************)
(* The proof that the processes of Workers keep the promise of TableLocks: *)
(* every step of theirs is a step of TableLocks, or changes no owner.      *)
(***************************************************************************)
EXTENDS WorkersLocks, WorkersCatalogProofs

USE DEF Gone, HoldsTable, CatalogSection, PC, KnowsSem

\* What the mapping gives for a table: the worker that has it, if there is one.
OwnersKnown ==
    /\ Owner = [t \in Table |-> Owner[t]]
    /\ \A t \in Table :
          /\ \A w \in Worker : Owner[t] = w <=> Has(w, t)
          /\ (\A w \in Worker : ~Has(w, t)) =>
                /\ SemOfTable(t) = None => Owner[t] = "absent"
                /\ SemOfTable(t) # None =>
                      Owner[t] = IF semVal[SemOfTable(t)] = 0 THEN "dead" ELSE "free"

\* Two workers do not have one table.
LEMMA OneHas ==
    ASSUME CInv, NEW t \in Table, NEW v \in Worker, NEW w \in Worker,
           Has(v, t), Has(w, t)
    PROVE  v = w
<1>1. CASE pc[v] \in HoldsTable /\ pc[w] \in HoldsTable
  BY <1>1, HoldersOfOneTable DEF Has
<1>2. CASE pc[v] = "setVal" /\ pc[w] = "setVal"
  BY <1>2 DEF CInv, IInv, SemaphoresHeldOnce, InCatalog
<1>3. CASE pc[v] = "setVal" /\ pc[w] \in HoldsTable
  BY <1>3, HeldIsNotNew DEF Has
<1>4. CASE pc[w] = "setVal" /\ pc[v] \in HoldsTable
  BY <1>4, HeldIsNotNew DEF Has
<1> QED
  BY <1>1, <1>2, <1>3, <1>4 DEF Has

\* The mapping is as described whenever the semaphores are in order.
LEMMA OwnersAreKnown == CInv => OwnersKnown
<1>1. SUFFICES ASSUME CInv PROVE OwnersKnown
  OBVIOUS
<1>2. Owner = [t \in Table |-> Owner[t]]
  BY DEF Owner
<1>3. ASSUME NEW t \in Table, NEW w \in Worker, Has(w, t)
      PROVE  Owner[t] = w
  <2>1. Owner[t] = CHOOSE v \in Worker : Has(v, t)
    BY <1>3 DEF Owner
  <2>2. PICK v \in Worker : Owner[t] = v /\ Has(v, t)
    BY <1>3, <2>1
  <2>3. QED
    BY <1>1, <1>3, <2>2, OneHas
<1>4. ASSUME NEW t \in Table, \A w \in Worker : ~Has(w, t)
      PROVE  /\ SemOfTable(t) = None => Owner[t] = "absent"
             /\ SemOfTable(t) # None =>
                   Owner[t] = IF semVal[SemOfTable(t)] = 0 THEN "dead" ELSE "free"
  BY <1>4 DEF Owner
<1>5. ASSUME NEW t \in Table, NEW w \in Worker, Owner[t] = w
      PROVE  Has(w, t)
  <2>1. CASE \E v \in Worker : Has(v, t)
    BY <1>3, <1>5, <2>1
  <2>2. CASE \A v \in Worker : ~Has(v, t)
    <3>1. Owner[t] \in {"absent", "free", "dead"}
      BY <1>4, <2>2
    <3>2. QED
      BY <1>5, <3>1, WorkerAssumption
  <2>3. QED
    BY <2>1, <2>2
<1> QED
  BY <1>2, <1>3, <1>4, <1>5 DEF OwnersKnown

\* A table whose worker and semaphore stay has the owner it had.
LEMMA SameOwner ==
    ASSUME OwnersKnown, OwnersKnown', NEW t \in Table,
           \A v \in Worker : Has(v, t)' <=> Has(v, t),
           SemOfTable(t)' = SemOfTable(t),
           SemOfTable(t) # None =>
              semVal'[SemOfTable(t)] = semVal[SemOfTable(t)]
    PROVE  Owner'[t] = Owner[t]
<1>1. CASE \E v \in Worker : Has(v, t)
  BY <1>1 DEF OwnersKnown
<1>2. CASE \A v \in Worker : ~Has(v, t)
  BY <1>2 DEF OwnersKnown
<1> QED
  BY <1>1, <1>2

\* A step that changes the owner of one table.
LEMMA OneChange ==
    ASSUME OwnersKnown, OwnersKnown', NEW u \in Table, NEW o,
           Owner'[u] = o, \A t \in Table : t # u => Owner'[t] = Owner[t]
    PROVE  Owner' = [Owner EXCEPT ![u] = o]
BY DEF OwnersKnown

\* A step that changes no owner.
LEMMA NoChange ==
    ASSUME OwnersKnown, OwnersKnown', \A t \in Table : Owner'[t] = Owner[t]
    PROVE  Owner' = Owner
BY DEF OwnersKnown

\* A step that moves no worker to or from a table and touches no semaphore.
LEMMA QuietStepLocks ==
    ASSUME OwnersKnown, OwnersKnown', UNCHANGED <<inode, semOf, semVal>>,
           \A v \in Worker :
              \/ pc'[v] = pc[v] /\ stmt'[v] = stmt[v]
              \/ /\ pc[v] \in HoldsTable <=> pc'[v] \in HoldsTable
                 /\ pc[v] # "setVal" /\ pc'[v] # "setVal"
                 /\ pc[v] \in HoldsTable => stmt'[v] = stmt[v]
    PROVE  Owner' = Owner
<1>1. \A t \in Table, v \in Worker : Has(v, t)' <=> Has(v, t)
  BY DEF Has, tab
<1>2. \A t \in Table : SemOfTable(t)' = SemOfTable(t)
  BY DEF SemOfTable
<1>3. \A t \in Table : Owner'[t] = Owner[t]
  BY <1>1, <1>2, SameOwner
<1> QED
  BY <1>3, NoChange

-----------------------------------------------------------------------------
(* What each step does to the owners. OInv gathers what a step may assume.   *)

OInv == KInv /\ OwnersKnown

\* Who takes a semaphore acquires the table, which was free.
LEMMA TakeLocks ==
    ASSUME OInv, OInv', KeysDiffer, NEW w \in Worker, Down(w) \/ DropDown(w)
    PROVE  Locks!Next
<1> USE DEF OInv, KInv, FInv, CInv, IInv, TypeOK, Goto, kernel, disk, locals
<1>1. /\ pc[w] \in {"down", "dropDown"}
      /\ semVal[sem[w]] = 1
      /\ semVal' = [semVal EXCEPT ![sem[w]] = 0]
      /\ \E l \in {"open", "unlink"} : pc' = [pc EXCEPT ![w] = l]
      /\ UNCHANGED <<semOf, disk, stmt, sem>>
      /\ sem[w] \in SemId /\ tab(w) \in Table
  BY DEF Down, DropDown, LocalsOK, Statement, tab
<1>2. inode[tab(w)] # None /\ semOf[TableKey(tab(w))] = sem[w]
  BY <1>1 DEF SemsCurrent, TableKey
<1>3. \A v \in Worker : ~Has(v, tab(w))
  <2>1. ASSUME NEW v \in Worker, Has(v, tab(w))
        PROVE  FALSE
    BY <1>1, <1>2, <2>1, HeldSemaphore DEF Has
  <2>2. QED
    BY <2>1
<1>4. Owner[tab(w)] = "free"
  BY <1>1, <1>2, <1>3, NoneAssumption DEF OwnersKnown, SemOfTable, TableKey
<1>5. \A t \in Table : Owner[t] # w
  BY <1>1 DEF OwnersKnown, Has
<1>6. Owner'[tab(w)] = w
  BY <1>1 DEF OwnersKnown, Has, tab
<1>7. ASSUME NEW t \in Table, t # tab(w)
      PROVE  Owner'[t] = Owner[t]
  <2>1. \A v \in Worker : Has(v, t)' <=> Has(v, t)
    BY <1>1, <1>7 DEF Has, tab
  <2>2. SemOfTable(t)' = SemOfTable(t)
    BY <1>1 DEF SemOfTable
  <2>3. SemOfTable(t) # None => SemOfTable(t) \in SemId /\ SemOfTable(t) # sem[w]
    BY <1>1, <1>2, <1>7, SemaphoreOfOneTable, KeyAssumption, NoneAssumption
       DEF SemOfTable, TableKey
  <2>4. QED
    BY <1>1, <2>1, <2>2, <2>3, SameOwner
<1>8. Owner' = [Owner EXCEPT ![tab(w)] = w]
  BY <1>1, <1>6, <1>7, OneChange
<1>9. Locks!Acquire(w, tab(w))
  BY <1>4, <1>5, <1>8 DEF Locks!Acquire, Locks!HasNone
<1> QED
  BY <1>1, <1>9 DEF Locks!Next

\* Who gives its semaphore back, or sets a new one to one, releases the table.
LEMMA GiveLocks ==
    ASSUME OInv, OInv', KeysDiffer, NEW w \in Worker, Up(w) \/ SetVal(w)
    PROVE  Locks!Next
<1> USE DEF OInv, KInv, FInv, CInv, IInv, TypeOK, Goto, kernel, disk, locals
<1>1. /\ pc[w] \in {"up", "setVal"}
      /\ \E l \in {"reply", "unlock"} : pc' = [pc EXCEPT ![w] = l]
      /\ UNCHANGED <<semOf, disk, stmt, sem>>
  BY DEF Up, SetVal
<1>2. /\ tab(w) \in Table
      /\ inode[tab(w)] # None
      /\ semOf[TableKey(tab(w))] = sem[w]
      /\ sem[w] \in SemId
      /\ semVal[sem[w]] = 0
  BY <1>1, HeldSemaphore
<1>3. semVal' = [semVal EXCEPT ![sem[w]] = 1]
  BY <1>2 DEF Up, SetVal
<1>4. Owner[tab(w)] = w
  BY <1>1, <1>2 DEF OwnersKnown, Has
<1>5. \A v \in Worker : ~Has(v, tab(w))'
  <2>1. ASSUME NEW v \in Worker, Has(v, tab(w))'
        PROVE  FALSE
    <3>1. v # w /\ Has(v, tab(w))
      BY <1>1, <2>1 DEF Has, tab
    <3>2. QED
      BY <1>2, <1>4, <3>1 DEF OwnersKnown
  <2>2. QED
    BY <2>1
<1>6. Owner'[tab(w)] = "free"
  <2>1. SemOfTable(tab(w))' = sem[w]
    BY <1>1, <1>2 DEF SemOfTable, TableKey, tab
  <2>2. tab(w)' = tab(w)
    BY <1>1 DEF tab
  <2>3. QED
    BY <1>2, <1>3, <1>5, <2>1, <2>2, NoneAssumption DEF OwnersKnown
<1>7. ASSUME NEW t \in Table, t # tab(w)
      PROVE  Owner'[t] = Owner[t]
  <2>1. \A v \in Worker : Has(v, t)' <=> Has(v, t)
    BY <1>1, <1>7 DEF Has, tab
  <2>2. SemOfTable(t)' = SemOfTable(t)
    BY <1>1 DEF SemOfTable
  <2>3. SemOfTable(t) # None => SemOfTable(t) \in SemId /\ SemOfTable(t) # sem[w]
    BY <1>1, <1>2, <1>7, SemaphoreOfOneTable, KeyAssumption, NoneAssumption
       DEF SemOfTable, TableKey
  <2>4. QED
    BY <1>3, <2>1, <2>2, <2>3, SameOwner
<1>8. Owner' = [Owner EXCEPT ![tab(w)] = "free"]
  BY <1>2, <1>6, <1>7, OneChange
<1>9. Locks!Release(w, tab(w))
  BY <1>4, <1>8 DEF Locks!Release
<1> QED
  BY <1>2, <1>9 DEF Locks!Next

\* A worker that dies with a table leaves it dead; other workers take nothing
\* with them.
LEMMA DieLocks ==
    ASSUME OInv, OInv', NEW w \in Worker, Exit(w), UNCHANGED <<kernel, disk>>
    PROVE  [Locks!Next]_Owner
<1> USE DEF OInv, KInv, FInv, CInv, IInv, TypeOK, Exit, Leave, Goto, kernel, disk
<1>1. CASE pc[w] \notin HoldsTable \cup {"setVal"}
  BY <1>1, QuietStepLocks
<1>2. CASE pc[w] \in HoldsTable \cup {"setVal"}
  <2>1. /\ tab(w) \in Table
        /\ inode[tab(w)] # None
        /\ semOf[TableKey(tab(w))] = sem[w]
        /\ sem[w] \in SemId
        /\ semVal[sem[w]] = 0
    BY <1>2, HeldSemaphore
  <2>2. Owner[tab(w)] = w
    BY <1>2, <2>1 DEF OwnersKnown, Has
  <2>3. \A t \in Table, v \in Worker : Has(v, t)' <=> Has(v, t) /\ v # w
    BY DEF Has, tab
  <2>4. \A t \in Table : SemOfTable(t)' = SemOfTable(t)
    BY DEF SemOfTable
  <2>5. ASSUME NEW u \in Table, u = tab(w)
        PROVE  Owner'[u] = "dead"
    <3>1. SemOfTable(u)' = sem[w]
      BY <2>1, <2>4, <2>5 DEF SemOfTable, TableKey
    <3>2. \A v \in Worker : ~Has(v, u)'
      BY <2>2, <2>3, <2>5 DEF OwnersKnown
    <3>3. QED
      BY <2>1, <3>1, <3>2, NoneAssumption DEF OwnersKnown
  <2>6. ASSUME NEW t \in Table, t # tab(w)
        PROVE  Owner'[t] = Owner[t]
    <3>1. ~Has(w, t)
      BY <2>6 DEF Has
    <3>2. \A v \in Worker : Has(v, t)' <=> Has(v, t)
      BY <2>3, <3>1
    <3>3. QED
      BY <2>4, <3>2, SameOwner
  <2>7. Owner' = [Owner EXCEPT ![tab(w)] = "dead"]
    BY <2>1, <2>5, <2>6, OneChange
  <2>8. Locks!Abandon(w, tab(w))
    BY <2>2, <2>7 DEF Locks!Abandon
  <2>9. QED
    BY <2>1, <2>8 DEF Locks!Next
<1> QED
  BY <1>1, <1>2

\* While a statement uses its table, the table stays its worker's.
LEMMA TableStepLocks ==
    ASSUME OInv, OInv', KeysDiffer, NEW w \in Worker, TableStep(w)
    PROVE  [Locks!Next]_Owner
<1> USE DEF OInv, KInv, FInv, CInv, IInv, TypeOK, Goto, kernel, disk, locals
<1>1. CASE Down(w) \/ Up(w)
  BY <1>1, TakeLocks, GiveLocks
<1>2. CASE Ftok(w)
  BY <1>2, QuietStepLocks DEF Ftok
<1>3. CASE Semget(w)
  BY <1>3, QuietStepLocks DEF Semget
<1>4. CASE DownFails(w) \/ Open(w) \/ Examine(w) \/ BeginWrite(w) \/ EndWrite(w)
  BY <1>4, QuietStepLocks DEF DownFails, Open, Examine, BeginWrite, EndWrite
<1> QED
  BY <1>1, <1>2, <1>3, <1>4 DEF TableStep

\* CREATE makes the table with its semaphore, and DROP removes it with it; the
\* entries in OR/ alone make and remove no table.
LEMMA CatalogStepLocks ==
    ASSUME OInv, OInv', KeysDiffer, NEW w \in Worker, CatalogStep(w)
    PROVE  [Locks!Next]_Owner
<1> USE DEF OInv, KInv, FInv, CInv, IInv, TypeOK, Goto, kernel, disk, locals, Exit, Leave
<1>1. CASE DropDown(w) \/ SetVal(w)
  BY <1>1, TakeLocks, GiveLocks
<1>2. CASE LockMain(w)
  BY <1>2, QuietStepLocks DEF LockMain
<1>3. CASE MainGone(w) \/ MakeCreate(w) \/ Unlink(w) \/ UnlockMain(w)
  BY <1>3, QuietStepLocks DEF MainGone, MakeCreate, Unlink, UnlockMain
<1>4. CASE DropLookup(w)
  BY <1>4, QuietStepLocks DEF DropLookup
<1>5. CASE Enter(w)
  <2>1. CASE inode[tab(w)] # None
    BY <1>5, <2>1, QuietStepLocks DEF Enter
  <2>2. CASE inode[tab(w)] = None
    <3>1. PICK i \in Inode : /\ FreshInode(i)
                             /\ inode' = [inode EXCEPT ![tab(w)] = i]
      BY <1>5, <2>2 DEF Enter
    <3>2. /\ pc[w] = "enter" /\ pc' = [pc EXCEPT ![w] = "newSem"]
          /\ UNCHANGED <<kernel, locals>>
      BY <1>5, <2>2 DEF Enter
    <3>3. semOf[KeyOf[i]] = None
      <4>1. \A t \in Table : inode[t] # None => TableKey(t) # KeyOf[i]
        BY <3>1 DEF FreshInode, KeysDiffer, TableKey
      <4>2. KeyOf[i] \in Key
        BY KeyAssumption
      <4>3. QED
        BY <4>1, <4>2 DEF SemaphoresOfTables
    <3>4. \A t \in Table : SemOfTable(t)' = SemOfTable(t)
      BY <2>2, <3>1, <3>2, <3>3 DEF SemOfTable
    <3>5. \A t \in Table, v \in Worker : Has(v, t)' <=> Has(v, t)
      BY <3>2 DEF Has, tab
    <3>6. \A t \in Table : Owner'[t] = Owner[t]
      BY <3>2, <3>4, <3>5, SameOwner
    <3>7. QED
      BY <3>6, NoChange
  <2>3. QED
    BY <2>1, <2>2
<1>6. CASE NewSem(w)
  <2>1. CASE semOf[KeyOf[inode[tab(w)]]] # None
    BY <1>6, <2>1, QuietStepLocks DEF NewSem
  <2>2. CASE semOf[KeyOf[inode[tab(w)]]] = None
    <3>1. PICK s \in SemId : /\ FreshSem(s)
                             /\ semOf' = [semOf EXCEPT ![TableKey(tab(w))] = s]
                             /\ semVal' = [semVal EXCEPT ![s] = 0]
      BY <1>6, <2>2 DEF NewSem, TableKey
    <3>2. /\ pc[w] = "newSem" /\ pc' = [pc EXCEPT ![w] = "setVal"]
          /\ UNCHANGED <<stmt, disk>>
      BY <1>6, <2>2 DEF NewSem
    <3>3. tab(w) \in Table /\ inode[tab(w)] \in Inode
      BY <3>2 DEF LocalsOK, Statement, tab
    <3>4. SemOfTable(tab(w)) = None
      BY <2>2 DEF SemOfTable
    <3>5. \A v \in Worker : ~Has(v, tab(w))
      <4>1. ASSUME NEW v \in Worker, Has(v, tab(w))
            PROVE  FALSE
        BY <3>3, <3>4, <4>1, HeldSemaphore, NoneAssumption DEF Has, SemOfTable, TableKey
      <4>2. QED
        BY <4>1
    <3>6. Owner[tab(w)] = "absent"
      BY <3>3, <3>4, <3>5 DEF OwnersKnown
    <3>7. \A t \in Table : Owner[t] # w
      BY <3>2 DEF OwnersKnown, Has
    <3>8. Owner'[tab(w)] = w
      BY <3>2, <3>3 DEF OwnersKnown, Has, tab
    <3>9. ASSUME NEW t \in Table, t # tab(w)
          PROVE  Owner'[t] = Owner[t]
      <4>1. \A v \in Worker : Has(v, t)' <=> Has(v, t)
        BY <3>2, <3>9 DEF Has, tab
      <4>2. SemOfTable(t)' = SemOfTable(t)
        <5>1. inode[t] # None => inode[t] # inode[tab(w)] /\ inode[t] \in Inode
          BY <3>3, <3>9 DEF InodesDiffer
        <5>2. inode[t] # None => KeyOf[inode[t]] # TableKey(tab(w))
          BY <3>3, <5>1 DEF KeysDiffer, TableKey
        <5>3. inode[t] # None => KeyOf[inode[t]] \in Key
          BY <5>1, KeyAssumption
        <5>4. QED
          BY <3>1, <3>2, <5>2, <5>3 DEF SemOfTable
      <4>3. SemOfTable(t) # None => semVal'[SemOfTable(t)] = semVal[SemOfTable(t)]
        <5>1. SemOfTable(t) # None => /\ SemOfTable(t) \in SemId
                                      /\ semVal[SemOfTable(t)] # Gone
          BY KeyAssumption DEF SemOfTable, SemaphoresOfTables
        <5>2. QED
          BY <3>1, <5>1 DEF FreshSem
      <4>4. QED
        BY <4>1, <4>2, <4>3, SameOwner
    <3>10. Owner' = [Owner EXCEPT ![tab(w)] = w]
      BY <3>3, <3>8, <3>9, OneChange
    <3>11. Locks!Make(w, tab(w))
      BY <3>6, <3>7, <3>10 DEF Locks!Make, Locks!HasNone
    <3>12. QED
      BY <3>3, <3>11 DEF Locks!Next
  <2>3. QED
    BY <2>1, <2>2
<1>7. CASE RemoveSem(w)
  <2>1. /\ pc[w] = "remove" /\ pc' = [pc EXCEPT ![w] = "uncatalog"]
        /\ semVal' = [semVal EXCEPT ![sem[w]] = Gone]
        /\ semOf' = [k \in Key |-> IF semOf[k] = sem[w] THEN None ELSE semOf[k]]
        /\ UNCHANGED <<disk, stmt>>
    BY <1>7 DEF RemoveSem
  <2>2. /\ tab(w) \in Table
        /\ inode[tab(w)] # None
        /\ semOf[TableKey(tab(w))] = sem[w]
        /\ sem[w] \in SemId
    BY <2>1, HeldSemaphore
  <2>3. Owner[tab(w)] = w
    BY <2>1, <2>2 DEF OwnersKnown, Has
  <2>4. \A t \in Table, v \in Worker : Has(v, t)' <=> Has(v, t) /\ v # w
    BY <2>1 DEF Has, tab
  <2>5. \A t \in Table : inode[t] # None => TableKey(t) \in Key
    BY KeyAssumption DEF TableKey
  <2>6. ASSUME NEW u \in Table, u = tab(w)
        PROVE  Owner'[u] = "absent"
    <3>1. SemOfTable(u)' = None
      BY <2>1, <2>2, <2>5, <2>6 DEF SemOfTable, TableKey
    <3>2. \A v \in Worker : ~Has(v, u)'
      BY <2>3, <2>4, <2>6 DEF OwnersKnown
    <3>3. QED
      BY <3>1, <3>2 DEF OwnersKnown
  <2>7. ASSUME NEW t \in Table, t # tab(w)
        PROVE  Owner'[t] = Owner[t]
    <3>1. \A v \in Worker : Has(v, t)' <=> Has(v, t)
      BY <2>4, <2>7 DEF Has
    <3>2. SemOfTable(t) # None => SemOfTable(t) \in SemId /\ SemOfTable(t) # sem[w]
      BY <2>2, <2>5, <2>7, SemaphoreOfOneTable, NoneAssumption DEF SemOfTable, TableKey
    <3>3. SemOfTable(t)' = SemOfTable(t)
      BY <2>1, <2>5, <3>2 DEF SemOfTable, TableKey
    <3>4. QED
      BY <2>1, <3>1, <3>2, <3>3, SameOwner
  <2>8. Owner' = [Owner EXCEPT ![tab(w)] = "absent"]
    BY <2>2, <2>6, <2>7, OneChange
  <2>9. Locks!Remove(w, tab(w))
    BY <2>3, <2>8 DEF Locks!Remove
  <2>10. QED
    BY <2>2, <2>9 DEF Locks!Next
<1>8. CASE Uncatalog(w)
  <2>1. /\ pc[w] = "uncatalog" /\ pc' = [pc EXCEPT ![w] = "unlock"]
        /\ inode' = [inode EXCEPT ![tab(w)] = None]
        /\ UNCHANGED <<kernel, locals>>
    BY <1>8 DEF Uncatalog
  <2>2. \A t \in Table : SemOfTable(t)' = SemOfTable(t)
    BY <2>1 DEF SemOfTable, SemRemovedFirst
  <2>3. \A t \in Table, v \in Worker : Has(v, t)' <=> Has(v, t)
    BY <2>1 DEF Has, tab
  <2>4. \A t \in Table : Owner'[t] = Owner[t]
    BY <2>1, <2>2, <2>3, SameOwner
  <2>5. QED
    BY <2>4, NoChange
<1> QED
  BY <1>1, <1>2, <1>3, <1>4, <1>5, <1>6, <1>7, <1>8 DEF CatalogStep

\* The other steps abandon a table, or change no owner.
LEMMA OtherStepsLocks ==
    ASSUME OInv, OInv',
           \/ \E w \in Worker :
                 \/ Fork(w) \/ Hangup(w) \/ Reply(w) \/ Interrupted(w)
                 \/ DivideByZero(w) \/ \E st \in Statement : Request(w, st)
           \/ \E how \in Fault : Stop(how)
           \/ KillMain
           \/ Restart
           \/ UNCHANGED vars
    PROVE  [Locks!Next]_Owner
<1> USE DEF OInv, KInv, FInv, CInv, IInv, TypeOK, Goto, kernel, disk, locals
<1>1. ASSUME NEW w \in Worker, Fork(w) PROVE Owner' = Owner
  BY <1>1, QuietStepLocks DEF Fork
<1>2. ASSUME NEW w \in Worker, Hangup(w) \/ Interrupted(w) \/ DivideByZero(w)
      PROVE  [Locks!Next]_Owner
  BY <1>2, DieLocks DEF Hangup, Interrupted, DivideByZero
<1>3. ASSUME NEW w \in Worker, Reply(w) PROVE Owner' = Owner
  BY <1>3, QuietStepLocks DEF Reply, Leave
<1>4. ASSUME NEW w \in Worker, NEW st \in Statement, Request(w, st)
      PROVE  Owner' = Owner
  BY <1>4, QuietStepLocks DEF Request
<1>5. ASSUME NEW how \in Fault, Stop(how) PROVE Owner' = Owner
  BY <1>5, QuietStepLocks DEF Stop
<1>6. CASE KillMain \/ Restart
  BY <1>6, QuietStepLocks DEF KillMain, Restart
<1>7. CASE UNCHANGED vars
  BY <1>7, QuietStepLocks DEF vars
<1> QED
  BY <1>1, <1>2, <1>3, <1>4, <1>5, <1>6, <1>7

\* At the start no table exists.
LEMMA InitLocks == Init => Locks!Init
<1>1. SUFFICES ASSUME Init PROVE Owner = [t \in Table |-> "absent"]
  BY DEF Locks!Init
<1>2. \A t \in Table, w \in Worker : ~Has(w, t)
  BY <1>1 DEF Init, Has
<1>3. \A t \in Table : SemOfTable(t) = None
  BY <1>1 DEF Init, SemOfTable
<1> QED
  BY <1>2, <1>3 DEF Owner

\* When inode numbers are not reused while somebody remembers them and ftok gives
\* every table its own key, the processes keep the promise of TableLocks: a table
\* has one owner at a time, a worker one table, and a table whose owner died is
\* never used again.
THEOREM LocksKept == ~Recycle /\ KeysDiffer => (Spec => TableLocksKept)
<1>1. SUFFICES ASSUME ~Recycle, KeysDiffer
               PROVE  Spec => Locks!Spec
  BY DEF TableLocksKept
<1>2. KInv /\ [Next]_vars => KInv'
  BY <1>1, NextKInv
<1>3. KInv => OInv
  BY OwnersAreKnown DEF OInv, KInv, FInv
<1>4. OInv /\ OInv' /\ [Next]_vars => [Locks!Next]_Owner
  BY <1>1, TableStepLocks, CatalogStepLocks, OtherStepsLocks DEF Next, Step
<1> QED
  BY <1>2, <1>3, <1>4, InitKInv, InitLocks, PTL DEF Spec, Locks!Spec

=============================================================================
