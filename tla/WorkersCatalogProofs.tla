------------------------ MODULE WorkersCatalogProofs ------------------------
(***************************************************************************)
(* Proofs about Workers: what a worker finds in a table, and that a table  *)
(* is all there or not at all. Both need ftok to give every file in OR/ a  *)
(* key of its own.                                                         *)
(***************************************************************************)
EXTENDS WorkersFilesProofs

\* ftok on inode numbers below 2^16.
KeysDiffer == \A i, j \in Inode : KeyOf[i] = KeyOf[j] => i = j

TableKey(t) == KeyOf[inode[t]]

\* Two files in OR/ have two numbers.
InodesDiffer ==
    \A t, u \in Table : inode[t] # None /\ inode[t] = inode[u] => t = u

\* A key leads to a semaphore that exists and to which no other key leads, and
\* is that of a file in OR/: no semaphore outlives the file it belongs to.
SemaphoresOfTables ==
    \A k \in Key : semOf[k] # None =>
        /\ semVal[semOf[k]] # Gone
        /\ \A l \in Key : semOf[l] = semOf[k] => l = k
        /\ \E t \in Table : inode[t] # None /\ TableKey(t) = k

KInv == FInv /\ InodesDiffer /\ SemaphoresOfTables

USE DEF Gone, HoldsTable, CatalogSection, PC, KnowsSem

\* At the start there is no file in OR/ and no semaphore of a table.
LEMMA InitKInv == Init => KInv
BY InitFInv, NoneAssumption, KeyAssumption
   DEF Init, KInv, InodesDiffer, SemaphoresOfTables, TableKey

\* A step that makes and removes no file in OR/ and no semaphore.
LEMMA QuietStepKInv ==
    ASSUME KInv, FInv', UNCHANGED <<inode, semOf>>,
           \A s \in SemId : semVal'[s] = Gone => semVal[s] = Gone
    PROVE  KInv'
BY DEF KInv, FInv, CInv, IInv, TypeOK, InodesDiffer, SemaphoresOfTables, TableKey

\* A new file has a new number, and a new semaphore is that of a file; DROP
\* removes the semaphore first.
LEMMA CatalogStepKInv ==
    ASSUME KInv, FInv', KeysDiffer, NEW w \in Worker, CatalogStep(w)
    PROVE  KInv'
<1> USE DEF KInv, FInv, CInv, IInv, TypeOK, Goto, kernel, disk, locals, Exit, Leave
<1>1. CASE LockMain(w)
  BY <1>1, QuietStepKInv DEF LockMain
<1>2. CASE MainGone(w)
  BY <1>2, QuietStepKInv DEF MainGone
<1>3. CASE MakeCreate(w)
  BY <1>3, QuietStepKInv DEF MakeCreate
<1>4. CASE Enter(w)
  <2>1. CASE inode[tab(w)] # None
    BY <1>4, <2>1, QuietStepKInv DEF Enter
  <2>2. CASE inode[tab(w)] = None
    <3>1. PICK i \in Inode : /\ FreshInode(i)
                             /\ inode' = [inode EXCEPT ![tab(w)] = i]
      BY <1>4, <2>2 DEF Enter
    <3>2. UNCHANGED kernel
      BY <1>4, <2>2 DEF Enter
    <3>3. InodesDiffer'
      BY <3>1 DEF FreshInode, InodesDiffer
    <3>4. SemaphoresOfTables'
      BY <3>1, <3>2, <2>2 DEF SemaphoresOfTables, TableKey
    <3>5. QED
      BY <3>3, <3>4
  <2>3. QED
    BY <2>1, <2>2
<1>5. CASE NewSem(w)
  <2>1. CASE semOf[KeyOf[inode[tab(w)]]] # None
    BY <1>5, <2>1, QuietStepKInv DEF NewSem
  <2>2. CASE semOf[KeyOf[inode[tab(w)]]] = None
    <3> DEFINE k == TableKey(tab(w))
    <3>1. PICK s \in SemId : /\ FreshSem(s)
                             /\ semOf' = [semOf EXCEPT ![k] = s]
                             /\ semVal' = [semVal EXCEPT ![s] = 0]
      BY <1>5, <2>2 DEF NewSem, TableKey
    <3>2. pc[w] = "newSem" /\ inode' = inode
      BY <1>5 DEF NewSem
    <3>3. /\ tab(w) \in Table
          /\ inode[tab(w)] # None
          /\ k \in Key
      BY <3>2, KeyAssumption, NoneAssumption DEF LocalsOK, Statement, tab, TableKey
    <3>4. \A l \in Key : semOf[l] # s
      BY <3>1, NoneAssumption DEF FreshSem, SemaphoresOfTables
    <3>5. SemaphoresOfTables'
      <4>1. SUFFICES ASSUME NEW l \in Key, semOf'[l] # None
                     PROVE  /\ semVal'[semOf'[l]] # Gone
                            /\ \A m \in Key : semOf'[m] = semOf'[l] => m = l
                            /\ \E t \in Table : inode'[t] # None /\ TableKey(t)' = l
        BY DEF SemaphoresOfTables
      <4>2. \A t : TableKey(t)' = TableKey(t)
        BY <3>2 DEF TableKey
      <4>3. CASE l = k
        BY <3>1, <3>2, <3>3, <3>4, <4>2, <4>3
      <4>4. CASE l # k
        BY <3>1, <3>2, <3>3, <3>4, <4>1, <4>2, <4>4 DEF SemaphoresOfTables
      <4>5. QED
        BY <4>3, <4>4
    <3>6. QED
      BY <3>2, <3>5 DEF InodesDiffer
  <2>3. QED
    BY <2>1, <2>2
<1>6. CASE SetVal(w)
  BY <1>6, QuietStepKInv DEF SetVal
<1>7. CASE DropLookup(w)
  BY <1>7, QuietStepKInv DEF DropLookup
<1>8. CASE DropDown(w)
  BY <1>8, QuietStepKInv DEF DropDown
<1>9. CASE Unlink(w)
  BY <1>9, QuietStepKInv DEF Unlink
<1>10. CASE RemoveSem(w)
  BY <1>10 DEF RemoveSem, InodesDiffer, SemaphoresOfTables, TableKey, LocalsOK
<1>11. CASE Uncatalog(w)
  <2>1. \A t \in Table : t # tab(w) => inode'[t] = inode[t]
    BY <1>11 DEF Uncatalog
  <2>2. inode[tab(w)] # None => semOf[TableKey(tab(w))] = None
    BY <1>11 DEF Uncatalog, SemRemovedFirst, TableKey
  <2>3. UNCHANGED kernel
    BY <1>11 DEF Uncatalog
  <2>4. SemaphoresOfTables'
    BY <2>1, <2>2, <2>3 DEF SemaphoresOfTables, TableKey
  <2>5. InodesDiffer'
    BY <1>11 DEF Uncatalog, InodesDiffer
  <2>6. QED
    BY <2>4, <2>5
<1>12. CASE UnlockMain(w)
  BY <1>12, QuietStepKInv DEF UnlockMain
<1> QED
  BY <1>1, <1>2, <1>3, <1>4, <1>5, <1>6, <1>7, <1>8, <1>9, <1>10, <1>11, <1>12
     DEF CatalogStep

\* No other step makes or removes a file in OR/ or a semaphore: a worker that
\* dies leaves them to the next.
LEMMA OtherStepsKInv ==
    ASSUME KInv, FInv',
           \/ \E w \in Worker :
                 \/ Fork(w) \/ Hangup(w) \/ Reply(w) \/ Interrupted(w)
                 \/ DivideByZero(w) \/ TableStep(w)
                 \/ \E st \in Statement : Request(w, st)
           \/ \E how \in Fault : Stop(how)
           \/ KillMain
           \/ Restart
           \/ UNCHANGED vars
    PROVE  KInv'
<1> USE DEF KInv, FInv, CInv, IInv, TypeOK, kernel, disk, locals
<1>1. UNCHANGED <<inode, semOf>>
  BY DEF TableStep, Ftok, Semget, Down, DownFails, Open, Examine, BeginWrite,
         EndWrite, Up, Fork, Hangup, Reply, Interrupted, DivideByZero, Request,
         Stop, KillMain, Restart, vars
<1>2. \A s \in SemId : semVal'[s] = Gone => semVal[s] = Gone
  <2>1. ASSUME NEW w \in Worker, Down(w) \/ Up(w)
        PROVE  \A s \in SemId : semVal'[s] = Gone => semVal[s] = Gone
    BY <2>1 DEF Down, Up
  <2>2. CASE \A w \in Worker : ~Down(w) /\ ~Up(w)
    <3>1. semVal' = semVal
      BY <2>2 DEF TableStep, Ftok, Semget, DownFails, Open, Examine, BeginWrite,
           EndWrite, Fork, Hangup, Reply, Interrupted, DivideByZero, Request,
           Stop, KillMain, Restart, vars
    <3>2. QED
      BY <3>1
  <2>3. QED
    BY <2>1, <2>2
<1>3. QED
  BY <1>1, <1>2, QuietStepKInv

\* The invariant is inductive when numbers are not reused and keys differ.
LEMMA NextKInv == ~Recycle /\ KeysDiffer /\ KInv /\ [Next]_vars => KInv'
<1>1. ~Recycle /\ KInv /\ [Next]_vars => FInv'
  BY NextFInv DEF KInv
<1> QED
  BY <1>1, CatalogStepKInv, OtherStepsKInv DEF Next, Step

-----------------------------------------------------------------------------
(* Who holds the semaphore of a table finds its file, and finds it whole.    *)

\* A worker that holds the semaphore, and has not begun to write, has a whole
\* file.
HeldIsWhole ==
    \A w \in Worker :
        pc[w] \in {"open", "work", "up", "unlink"} => file[tab(w)] = "whole"

\* A semaphore is free only if the file of its table is whole.
FreeIsWhole ==
    \A t \in Table :
        inode[t] # None /\ semOf[TableKey(t)] # None /\ semVal[semOf[TableKey(t)]] = 1
            => file[t] = "whole"

\* CREATE has made a whole file before it makes the semaphore, and nobody
\* writes to the file in between.
NewIsWhole ==
    \A w \in Worker :
        \/ pc[w] = "enter" /\ inode[tab(w)] = None
        \/ pc[w] = "newSem" /\ semOf[TableKey(tab(w))] = None
        \/ pc[w] = "setVal"
        => file[tab(w)] = "whole"

WInv == KInv /\ HeldIsWhole /\ FreeIsWhole /\ NewIsWhole

\* At the start there is no worker and no file in OR/.
LEMMA InitWInv == Init => WInv
BY InitKInv, NoneAssumption
   DEF Init, WInv, HeldIsWhole, FreeIsWhole, NewIsWhole, TableKey

\* Who holds a semaphore holds the one of its table, and it is taken.
LEMMA HeldSemaphore ==
    ASSUME CInv, NEW w \in Worker, pc[w] \in HoldsTable \cup {"setVal"}
    PROVE  /\ tab(w) \in Table
           /\ inode[tab(w)] # None
           /\ semOf[TableKey(tab(w))] = sem[w]
           /\ sem[w] \in SemId
           /\ semVal[sem[w]] = 0
BY DEF CInv, IInv, TypeOK, LocalsOK, SemaphoresHeldOnce, UnsetSemaphoreUnused,
       SemsCurrent, Holds, Statement, tab, TableKey

\* Two tables do not share a semaphore.
LEMMA SemaphoreOfOneTable ==
    ASSUME KInv, KeysDiffer, NEW t \in Table, NEW u \in Table,
           inode[t] # None, inode[u] # None,
           semOf[TableKey(t)] # None, semOf[TableKey(t)] = semOf[TableKey(u)]
    PROVE  t = u
<1>1. inode[t] \in Inode /\ inode[u] \in Inode
  BY DEF KInv, FInv, CInv, IInv, TypeOK
<1>2. TableKey(t) \in Key /\ TableKey(u) \in Key
  BY <1>1, KeyAssumption DEF TableKey
<1>3. TableKey(t) = TableKey(u)
  BY <1>2 DEF KInv, SemaphoresOfTables
<1>4. inode[t] = inode[u]
  BY <1>1, <1>3 DEF KeysDiffer, TableKey
<1> QED
  BY <1>4 DEF KInv, InodesDiffer

\* Nobody makes a table while another worker holds its semaphore.
LEMMA HeldIsNotNew ==
    ASSUME CInv, NEW v \in Worker, NEW w \in Worker, v # w,
           pc[w] \in HoldsTable, tab(v) = tab(w),
           \/ pc[v] = "enter" /\ inode[tab(v)] = None
           \/ pc[v] = "newSem" /\ semOf[TableKey(tab(v))] = None
           \/ pc[v] = "setVal"
    PROVE  FALSE
<1>1. /\ inode[tab(w)] # None
      /\ semOf[TableKey(tab(w))] = sem[w]
      /\ sem[w] \in SemId
  BY HeldSemaphore
<1>2. pc[v] = "setVal"
  BY <1>1, NoneAssumption
<1>3. semOf[TableKey(tab(v))] = sem[v]
  BY <1>2, HeldSemaphore
<1> QED
  BY <1>1, <1>2, <1>3 DEF CInv, IInv, UnsetSemaphoreUnused, Holds

\* A step that changes no file and no entry in OR/, makes and frees no
\* semaphore, and after which no more workers hold or make a table.
LEMMA QuietStepWInv ==
    ASSUME WInv, KInv', file' = file, inode' = inode,
           \A k \in Key : semOf'[k] # None => semOf'[k] = semOf[k],
           \A k \in Key : semOf'[k] = None => semOf[k] = None
                              \/ \A v \in Worker : pc'[v] # "newSem",
           \A s \in SemId : semVal'[s] = 1 => semVal[s] = 1,
           \A v \in Worker :
              /\ pc'[v] \in {"open", "work", "up", "unlink"} =>
                    /\ pc[v] \in {"open", "work", "up", "unlink"}
                    /\ stmt'[v] = stmt[v]
              /\ pc'[v] \in {"enter", "newSem", "setVal"} =>
                    pc'[v] = pc[v] /\ stmt'[v] = stmt[v]
    PROVE  WInv'
<1> USE DEF WInv, KInv, FInv, CInv, IInv, TypeOK, tab
<1>1. HeldIsWhole'
  BY DEF HeldIsWhole
<1>2. FreeIsWhole'
  BY KeyAssumption DEF FreeIsWhole, TableKey
<1>3. NewIsWhole'
  BY KeyAssumption DEF NewIsWhole, TableKey, LocalsOK
<1> QED
  BY <1>1, <1>2, <1>3

\* Who takes a free semaphore takes that of a whole file.
LEMMA TakeWInv ==
    ASSUME WInv, KInv', NEW w \in Worker, Down(w) \/ DropDown(w)
    PROVE  WInv'
<1> USE DEF WInv, KInv, FInv, CInv, IInv, TypeOK, Goto, kernel, disk, locals
<1>1. /\ pc[w] \in {"down", "dropDown"}
      /\ semVal[sem[w]] = 1
      /\ semVal' = [semVal EXCEPT ![sem[w]] = 0]
      /\ UNCHANGED <<semOf, disk, stmt, sem>>
      /\ sem[w] \in SemId /\ tab(w) \in Table
  BY DEF Down, DropDown, LocalsOK, Statement, tab
<1>2. file[tab(w)] = "whole"
  <2>1. inode[tab(w)] # None /\ semOf[TableKey(tab(w))] = sem[w]
    BY <1>1 DEF SemsCurrent, TableKey
  <2>2. QED
    BY <1>1, <2>1, NoneAssumption DEF FreeIsWhole
<1>3. HeldIsWhole'
  BY <1>1, <1>2 DEF HeldIsWhole, Down, DropDown, tab
<1>4. FreeIsWhole'
  BY <1>1 DEF FreeIsWhole, TableKey
<1>5. NewIsWhole'
  BY <1>1 DEF NewIsWhole, TableKey, Down, DropDown, tab
<1> QED
  BY <1>3, <1>4, <1>5

\* Who writes has the semaphore, so that the file concerns nobody else, and
\* gives the semaphore back when the file is whole.
LEMMA TableStepWInv ==
    ASSUME WInv, KInv', KeysDiffer, NEW w \in Worker, TableStep(w)
    PROVE  WInv'
<1> USE DEF WInv, KInv, FInv, CInv, IInv, TypeOK, Goto, kernel, disk, locals
<1>1. CASE Ftok(w)
  BY <1>1, QuietStepWInv DEF Ftok
<1>2. CASE Semget(w)
  BY <1>2, QuietStepWInv DEF Semget
<1>3. CASE Down(w)
  BY <1>3, TakeWInv
<1>4. CASE DownFails(w)
  BY <1>4, QuietStepWInv DEF DownFails
<1>5. CASE Open(w)
  BY <1>5, QuietStepWInv DEF Open
<1>6. CASE Examine(w)
  BY <1>6, QuietStepWInv DEF Examine
<1>7. CASE BeginWrite(w)
  <2>1. /\ pc[w] = "work" /\ pc' = [pc EXCEPT ![w] = "write"]
        /\ file' = [file EXCEPT ![tab(w)] = "torn"]
        /\ UNCHANGED <<server, kernel, inode, stmt, key, sem>>
    BY <1>7 DEF BeginWrite, OpenFileStays
  <2>2. /\ tab(w) \in Table
        /\ inode[tab(w)] # None
        /\ semOf[TableKey(tab(w))] = sem[w]
        /\ sem[w] \in SemId
        /\ semVal[sem[w]] = 0
    BY <2>1, HeldSemaphore
  <2>3. ASSUME NEW v \in Worker, pc'[v] \in {"open", "work", "up", "unlink"}
        PROVE  file'[tab(v)'] = "whole"
    <3>1. v # w /\ pc[v] = pc'[v] /\ tab(v)' = tab(v)
      BY <2>1, <2>3 DEF tab
    <3>2. tab(v) # tab(w)
      BY <2>1, <2>3, <3>1, HoldersOfOneTable
    <3>3. QED
      BY <2>1, <2>3, <3>1, <3>2 DEF HeldIsWhole
  <2>4. FreeIsWhole'
    <3>1. SUFFICES ASSUME NEW t \in Table, inode[t] # None, semOf[TableKey(t)] # None,
                          semVal[semOf[TableKey(t)]] = 1
                   PROVE  file'[t] = "whole"
      BY <2>1 DEF FreeIsWhole, TableKey
    <3>2. t # tab(w)
      BY <2>2, <3>1
    <3>3. QED
      BY <2>1, <3>1, <3>2 DEF FreeIsWhole
  <2>5. NewIsWhole'
    <3>1. SUFFICES ASSUME NEW v \in Worker,
                          \/ pc[v] = "enter" /\ inode[tab(v)] = None
                          \/ pc[v] = "newSem" /\ semOf[TableKey(tab(v))] = None
                          \/ pc[v] = "setVal"
                   PROVE  file'[tab(v)] = "whole"
      BY <2>1 DEF NewIsWhole, TableKey, tab
    <3>2. tab(v) # tab(w)
      BY <2>1, <3>1, HeldIsNotNew
    <3>3. QED
      BY <2>1, <3>1, <3>2 DEF NewIsWhole
  <2>6. QED
    BY <2>3, <2>4, <2>5 DEF HeldIsWhole
<1>8. CASE EndWrite(w)
  <2>1. /\ pc[w] = "write" /\ pc' = [pc EXCEPT ![w] = "up"]
        /\ file' = [file EXCEPT ![tab(w)] = "whole"]
        /\ UNCHANGED <<server, kernel, inode, stmt, key, sem>>
    BY <1>8 DEF EndWrite, OpenFileStays
  <2>2. tab(w) \in Table
    BY <2>1 DEF LocalsOK, Statement, tab
  <2>3. \A t : file[t] = "whole" => file'[t] = "whole"
    BY <2>1
  <2>4. HeldIsWhole'
    BY <2>1, <2>2, <2>3 DEF HeldIsWhole, tab
  <2>5. FreeIsWhole'
    BY <2>1, <2>3 DEF FreeIsWhole, TableKey
  <2>6. NewIsWhole'
    BY <2>1, <2>3 DEF NewIsWhole, TableKey, tab
  <2>7. QED
    BY <2>4, <2>5, <2>6
<1>9. CASE Up(w)
  <2>1. /\ pc[w] = "up" /\ pc' = [pc EXCEPT ![w] = "reply"]
        /\ UNCHANGED <<server, mainVal, semOf, disk, locals>>
    BY <1>9 DEF Up
  <2>2. /\ tab(w) \in Table
        /\ inode[tab(w)] # None
        /\ semOf[TableKey(tab(w))] = sem[w]
        /\ sem[w] \in SemId
    BY <2>1, HeldSemaphore
  <2>3. \A s \in SemId : s # sem[w] => semVal'[s] = semVal[s]
    BY <1>9 DEF Up
  <2>4. HeldIsWhole'
    BY <2>1 DEF HeldIsWhole, tab
  <2>5. FreeIsWhole'
    <3>1. SUFFICES ASSUME NEW t \in Table, inode[t] # None, semOf[TableKey(t)] # None,
                          semVal'[semOf[TableKey(t)]] = 1
                   PROVE  file[t] = "whole"
      BY <2>1 DEF FreeIsWhole, TableKey
    <3>2. CASE t = tab(w)
      BY <2>1, <3>2 DEF HeldIsWhole
    <3>3. CASE t # tab(w)
      <4>1. semOf[TableKey(t)] # sem[w]
        BY <2>2, <3>1, <3>3, SemaphoreOfOneTable
      <4>2. semOf[TableKey(t)] \in SemId
        BY <3>1, KeyAssumption DEF TableKey
      <4>3. QED
        BY <2>3, <3>1, <4>1, <4>2 DEF FreeIsWhole
    <3>4. QED
      BY <3>2, <3>3
  <2>6. NewIsWhole'
    BY <2>1 DEF NewIsWhole, TableKey, tab
  <2>7. QED
    BY <2>4, <2>5, <2>6
<1> QED
  BY <1>1, <1>2, <1>3, <1>4, <1>5, <1>6, <1>7, <1>8, <1>9 DEF TableStep

\* CREATE makes the file before the entry in OR/, that before the semaphore, and
\* frees the semaphore last; DROP takes the semaphore before it removes any of
\* them.
LEMMA CatalogStepWInv ==
    ASSUME WInv, KInv', KeysDiffer, NEW w \in Worker, CatalogStep(w)
    PROVE  WInv'
<1> USE DEF WInv, KInv, FInv, CInv, IInv, TypeOK, Goto, kernel, disk, locals, Exit, Leave
<1>1. CASE LockMain(w)
  BY <1>1, QuietStepWInv DEF LockMain
<1>2. CASE MainGone(w)
  BY <1>2, QuietStepWInv DEF MainGone
<1>3. CASE MakeCreate(w)
  <2>1. \A t \in Table : file[t] = "whole" => file'[t] = "whole"
    BY <1>3 DEF MakeCreate
  <2>2. pc'[w] = "enter" => file'[tab(w)] = "whole"
    BY <1>3 DEF MakeCreate, LocalsOK, Statement, tab
  <2>3. /\ UNCHANGED <<kernel, inode, stmt>>
        /\ pc'[w] \in {"unlock", "enter"}
        /\ \A v \in Worker : v # w => pc'[v] = pc[v]
    BY <1>3 DEF MakeCreate
  <2>4. HeldIsWhole'
    BY <2>1, <2>3 DEF HeldIsWhole, LocalsOK, Statement, tab
  <2>5. FreeIsWhole'
    BY <2>1, <2>3 DEF FreeIsWhole, TableKey
  <2>6. NewIsWhole'
    BY <2>1, <2>2, <2>3 DEF NewIsWhole, TableKey, LocalsOK, Statement, tab
  <2>7. QED
    BY <2>4, <2>5, <2>6
<1>4. CASE Enter(w)
  <2>1. CASE inode[tab(w)] # None
    BY <1>4, <2>1, QuietStepWInv DEF Enter
  <2>2. CASE inode[tab(w)] = None
    <3>1. PICK i \in Inode : inode' = [inode EXCEPT ![tab(w)] = i]
      BY <1>4, <2>2 DEF Enter
    <3>2. /\ pc[w] = "enter" /\ pc' = [pc EXCEPT ![w] = "newSem"]
          /\ UNCHANGED <<kernel, file, locals>>
      BY <1>4, <2>2 DEF Enter
    <3>3. file[tab(w)] = "whole"
      BY <2>2, <3>2 DEF NewIsWhole
    <3>4. \A v \in Worker : v # w => ~InCatalog(v)
      BY <3>2 DEF SemaphoresHeldOnce, InCatalog
    <3>5. HeldIsWhole'
      BY <3>2 DEF HeldIsWhole, tab
    <3>6. FreeIsWhole'
      BY <3>1, <3>2, <3>3 DEF FreeIsWhole, TableKey
    <3>7. NewIsWhole'
      BY <3>2, <3>3, <3>4 DEF NewIsWhole, InCatalog, tab
    <3>8. QED
      BY <3>5, <3>6, <3>7
  <2>3. QED
    BY <2>1, <2>2
<1>5. CASE NewSem(w)
  <2>1. CASE semOf[KeyOf[inode[tab(w)]]] # None
    BY <1>5, <2>1, QuietStepWInv DEF NewSem
  <2>2. CASE semOf[KeyOf[inode[tab(w)]]] = None
    <3>1. PICK s \in SemId : /\ FreshSem(s)
                             /\ semOf' = [semOf EXCEPT ![TableKey(tab(w))] = s]
                             /\ semVal' = [semVal EXCEPT ![s] = 0]
      BY <1>5, <2>2 DEF NewSem, TableKey
    <3>2. /\ pc[w] = "newSem" /\ pc' = [pc EXCEPT ![w] = "setVal"]
          /\ UNCHANGED <<stmt, disk>>
      BY <1>5, <2>2 DEF NewSem
    <3>3. file[tab(w)] = "whole"
      BY <2>2, <3>2 DEF NewIsWhole, TableKey
    <3>4. \A v \in Worker : v # w => ~InCatalog(v)
      BY <3>2 DEF SemaphoresHeldOnce, InCatalog
    <3>5. HeldIsWhole'
      BY <3>2 DEF HeldIsWhole, tab
    <3>6. FreeIsWhole'
      BY <3>1, <3>2, KeyAssumption DEF FreeIsWhole, TableKey
    <3>7. NewIsWhole'
      BY <3>2, <3>3, <3>4 DEF NewIsWhole, InCatalog, tab
    <3>8. QED
      BY <3>5, <3>6, <3>7
  <2>3. QED
    BY <2>1, <2>2
<1>6. CASE SetVal(w)
  <2>1. /\ pc[w] = "setVal" /\ pc' = [pc EXCEPT ![w] = "unlock"]
        /\ semVal' = [semVal EXCEPT ![sem[w]] = 1]
        /\ UNCHANGED <<semOf, disk, locals>>
    BY <1>6 DEF SetVal
  <2>2. /\ inode[tab(w)] # None
        /\ semOf[TableKey(tab(w))] = sem[w]
        /\ tab(w) \in Table
        /\ sem[w] \in SemId
    BY <2>1, HeldSemaphore
  <2>3. HeldIsWhole'
    BY <2>1 DEF HeldIsWhole, tab
  <2>4. FreeIsWhole'
    <3>1. SUFFICES ASSUME NEW t \in Table, inode[t] # None, semOf[TableKey(t)] # None,
                          semVal'[semOf[TableKey(t)]] = 1
                   PROVE  file[t] = "whole"
      BY <2>1 DEF FreeIsWhole, TableKey
    <3>2. CASE t = tab(w)
      BY <2>1, <3>2 DEF NewIsWhole
    <3>3. CASE t # tab(w)
      <4>1. semOf[TableKey(t)] # sem[w]
        BY <2>2, <3>1, <3>3, SemaphoreOfOneTable
      <4>2. QED
        BY <2>1, <3>1, <4>1 DEF FreeIsWhole
    <3>4. QED
      BY <3>2, <3>3
  <2>5. NewIsWhole'
    BY <2>1 DEF NewIsWhole, TableKey, tab
  <2>6. QED
    BY <2>3, <2>4, <2>5
<1>7. CASE DropLookup(w)
  BY <1>7, QuietStepWInv DEF DropLookup
<1>8. CASE DropDown(w)
  BY <1>8, TakeWInv
<1>9. CASE Unlink(w)
  <2>1. /\ pc[w] = "unlink" /\ pc' = [pc EXCEPT ![w] = "remove"]
        /\ file' = [file EXCEPT ![tab(w)] = "absent"]
        /\ UNCHANGED <<server, kernel, inode, stmt, key, sem>>
    BY <1>9 DEF Unlink
  <2>2. /\ inode[tab(w)] # None
        /\ semOf[TableKey(tab(w))] = sem[w]
        /\ semVal[sem[w]] = 0
    BY <2>1, HeldSemaphore
  <2>3. ASSUME NEW v \in Worker, pc'[v] \in {"open", "work", "up", "unlink"}
        PROVE  file'[tab(v)'] = "whole"
    <3>1. v # w /\ pc[v] = pc'[v] /\ tab(v)' = tab(v)
      BY <2>1, <2>3 DEF tab
    <3>2. tab(v) # tab(w)
      BY <2>1, <2>3, <3>1, HoldersOfOneTable
    <3>3. QED
      BY <2>1, <2>3, <3>1, <3>2 DEF HeldIsWhole
  <2>4. FreeIsWhole'
    BY <2>1, <2>2 DEF FreeIsWhole, TableKey
  <2>5. \A v \in Worker : v # w => ~InCatalog(v)
    BY <2>1 DEF SemaphoresHeldOnce, InCatalog
  <2>6. NewIsWhole'
    BY <2>1, <2>5 DEF NewIsWhole, InCatalog
  <2>7. QED
    BY <2>3, <2>4, <2>6 DEF HeldIsWhole
<1>10. CASE RemoveSem(w)
  <2>1. \A v \in Worker : v # w => ~InCatalog(v)
    BY <1>10 DEF RemoveSem, SemaphoresHeldOnce, InCatalog
  <2>2. \A v \in Worker : pc'[v] \notin {"enter", "newSem", "setVal"}
    BY <1>10, <2>1 DEF RemoveSem, InCatalog
  <2>3. QED
    BY <1>10, <2>2, QuietStepWInv DEF RemoveSem, LocalsOK
<1>11. CASE Uncatalog(w)
  <2>1. \A v \in Worker : v # w => ~InCatalog(v)
    BY <1>11 DEF Uncatalog, SemaphoresHeldOnce, InCatalog
  <2>2. HeldIsWhole'
    BY <1>11 DEF Uncatalog, HeldIsWhole, tab
  <2>3. FreeIsWhole'
    BY <1>11 DEF Uncatalog, FreeIsWhole, TableKey
  <2>4. NewIsWhole'
    BY <1>11, <2>1 DEF Uncatalog, NewIsWhole, InCatalog
  <2>5. QED
    BY <2>2, <2>3, <2>4
<1>12. CASE UnlockMain(w)
  BY <1>12, QuietStepWInv DEF UnlockMain
<1> QED
  BY <1>1, <1>2, <1>3, <1>4, <1>5, <1>6, <1>7, <1>8, <1>9, <1>10, <1>11, <1>12
     DEF CatalogStep

\* A worker that dies while it writes leaves a torn file and a semaphore that
\* stays taken.
LEMMA OtherStepsWInv ==
    ASSUME WInv, KInv',
           \/ \E w \in Worker :
                 \/ Fork(w) \/ Hangup(w) \/ Reply(w) \/ Interrupted(w)
                 \/ DivideByZero(w) \/ \E st \in Statement : Request(w, st)
           \/ \E how \in Fault : Stop(how)
           \/ KillMain
           \/ Restart
           \/ UNCHANGED vars
    PROVE  WInv'
<1> USE DEF WInv, KInv, FInv, CInv, IInv, TypeOK, Goto, kernel, disk, locals, Exit, Leave
<1>1. ASSUME NEW w \in Worker, Fork(w) PROVE WInv'
  BY <1>1, QuietStepWInv DEF Fork
<1>2. ASSUME NEW w \in Worker, Hangup(w) PROVE WInv'
  BY <1>2, QuietStepWInv DEF Hangup
<1>3. ASSUME NEW w \in Worker, Reply(w) PROVE WInv'
  BY <1>3, QuietStepWInv DEF Reply
<1>4. ASSUME NEW w \in Worker, Interrupted(w) PROVE WInv'
  BY <1>4, QuietStepWInv DEF Interrupted
<1>5. ASSUME NEW w \in Worker, DivideByZero(w) PROVE WInv'
  BY <1>5, QuietStepWInv DEF DivideByZero
<1>6. ASSUME NEW w \in Worker, NEW st \in Statement, Request(w, st)
      PROVE  WInv'
  BY <1>6, QuietStepWInv DEF Request
<1>7. ASSUME NEW how \in Fault, Stop(how) PROVE WInv'
  BY <1>7, QuietStepWInv DEF Stop
<1>8. CASE KillMain
  BY <1>8, QuietStepWInv DEF KillMain
<1>9. CASE Restart
  BY <1>9, QuietStepWInv DEF Restart
<1>10. CASE UNCHANGED vars
  BY <1>10, QuietStepWInv DEF vars
<1> QED
  BY <1>1, <1>2, <1>3, <1>4, <1>5, <1>6, <1>7, <1>8, <1>9, <1>10

\* The invariant is inductive when numbers are not reused and keys differ.
LEMMA NextWInv == ~Recycle /\ KeysDiffer /\ WInv /\ [Next]_vars => WInv'
<1>1. ~Recycle /\ KeysDiffer /\ WInv /\ [Next]_vars => KInv'
  BY NextKInv DEF WInv
<1> QED
  BY <1>1, TableStepWInv, CatalogStepWInv, OtherStepsWInv DEF Next, Step

\* When inode numbers are not reused while somebody remembers them and ftok gives
\* every table its own key, a worker that got past its down finds the file of its
\* table, and no interrupted change in it: whoever died before, in this life of
\* the server or in an earlier one.
THEOREM WholeFiles == ~Recycle /\ KeysDiffer => (Spec => []HolderFindsWholeFile)
<1>1. SUFFICES ASSUME ~Recycle, KeysDiffer
               PROVE  Spec => []HolderFindsWholeFile
  OBVIOUS
<1>2. WInv /\ [Next]_vars => WInv'
  BY <1>1, NextWInv
<1>3. WInv => HolderFindsWholeFile
  BY DEF WInv, HeldIsWhole, HolderFindsWholeFile
<1> QED
  BY <1>2, <1>3, InitWInv, PTL DEF Spec

-----------------------------------------------------------------------------
(* A table is all there or not at all.                                       *)

\* Where a CREATE or DROP is between its first and its last change.
Parting == {"enter", "newSem", "remove", "uncatalog"}

USE DEF Parting

Agrees(t) ==
    \/ file[t] = "absent" /\ inode[t] = None
    \/ /\ file[t] # "absent"
       /\ inode[t] # None
       /\ semOf[TableKey(t)] # None

\* A table agrees unless a CREATE or DROP is between its first and last change.
AgreesOutside ==
    \A t \in Table :
        (\A w \in Worker : pc[w] \in Parting => tab(w) # t) => Agrees(t)

\* How far a CREATE or DROP has come.
AgreesInside ==
    \A w \in Worker :
        /\ pc[w] = "enter" => file[tab(w)] # "absent" /\ inode[tab(w)] = None
        /\ pc[w] = "newSem" => /\ file[tab(w)] # "absent"
                               /\ semOf[TableKey(tab(w))] = None
        /\ pc[w] \in {"remove", "uncatalog"} => file[tab(w)] = "absent"

AInv == KInv /\ AgreesOutside /\ AgreesInside /\ server # "ctrlc"

\* At the start there is no table.
LEMMA InitAInv == Init => AInv
BY InitKInv DEF Init, AInv, AgreesOutside, AgreesInside, Agrees

\* A step that leaves alone which tables have a file, an entry in OR/ and a
\* semaphore, and whose worker is in no stage that parts them.
LEMMA QuietStepAInv ==
    ASSUME AInv, KInv', UNCHANGED <<inode, semOf>>, server' # "ctrlc",
           \A t \in Table : file'[t] = "absent" <=> file[t] = "absent",
           \A v \in Worker :
              \/ pc'[v] = pc[v] /\ stmt'[v] = stmt[v]
              \/ pc[v] \notin Parting /\ pc'[v] \notin Parting
    PROVE  AInv'
<1> USE DEF AInv, KInv, FInv, CInv, IInv, TypeOK, LocalsOK, Statement, tab
<1>1. AgreesOutside'
  <2>1. \A t \in Table : Agrees(t) => Agrees(t)'
    BY DEF Agrees, TableKey
  <2>2. QED
    BY <2>1 DEF AgreesOutside
<1>2. AgreesInside'
  <2>1. SUFFICES ASSUME NEW v \in Worker, pc'[v] \in Parting
                 PROVE  /\ pc[v] = pc'[v] /\ stmt'[v] = stmt[v]
                        /\ stmt[v].table \in Table
    BY DEF AgreesInside, TableKey
  <2>2. pc[v] = pc'[v] /\ stmt'[v] = stmt[v]
    BY <2>1
  <2>3. QED
    BY <2>1, <2>2
<1> QED
  BY <1>1, <1>2

\* A statement on a table writes to a file that is there.
LEMMA TableStepAInv ==
    ASSUME AInv, KInv', NEW w \in Worker, TableStep(w)
    PROVE  AInv'
<1> USE DEF AInv, KInv, FInv, CInv, IInv, TypeOK, Goto, kernel, disk, locals
<1>1. CASE BeginWrite(w)
  <2>1. file[tab(w)] # "absent"
    BY <1>1 DEF BeginWrite, OpenFileStays
  <2>2. QED
    BY <1>1, <2>1, QuietStepAInv DEF BeginWrite
<1>2. CASE EndWrite(w)
  <2>1. file[tab(w)] # "absent"
    BY <1>2 DEF EndWrite, OpenFileStays
  <2>2. QED
    BY <1>2, <2>1, QuietStepAInv DEF EndWrite
<1>3. CASE Ftok(w)
  BY <1>3, QuietStepAInv DEF Ftok
<1>4. CASE Semget(w)
  BY <1>4, QuietStepAInv DEF Semget
<1>5. CASE Down(w) \/ DownFails(w) \/ Open(w) \/ Examine(w) \/ Up(w)
  BY <1>5, QuietStepAInv DEF Down, DownFails, Open, Examine, Up
<1> QED
  BY <1>1, <1>2, <1>3, <1>4, <1>5 DEF TableStep

\* CREATE and DROP take a table from one side to the other, and neither of their
\* exits is ever taken on the way.
LEMMA CatalogStepAInv ==
    ASSUME AInv, KInv', KeysDiffer, NEW w \in Worker, CatalogStep(w)
    PROVE  AInv'
<1> USE DEF AInv, KInv, FInv, CInv, IInv, TypeOK, Goto, kernel, disk, locals, Exit, Leave
<1>0. InCatalog(w) => \A v \in Worker : v # w => ~InCatalog(v)
  BY DEF SemaphoresHeldOnce
<1>1. CASE LockMain(w)
  BY <1>1, QuietStepAInv DEF LockMain
<1>9. CASE MainGone(w) \/ SetVal(w) \/ DropDown(w) \/ UnlockMain(w)
  BY <1>9, QuietStepAInv DEF MainGone, SetVal, DropDown, UnlockMain
<1>2. CASE DropLookup(w)
  BY <1>2, QuietStepAInv DEF DropLookup
<1>3. CASE MakeCreate(w)
  <2>1. CASE file' = file /\ pc' = [pc EXCEPT ![w] = "unlock"]
    BY <1>3, <2>1, QuietStepAInv DEF MakeCreate
  <2>2. CASE /\ file[tab(w)] = "absent"
             /\ file' = [file EXCEPT ![tab(w)] = "whole"]
             /\ pc' = [pc EXCEPT ![w] = "enter"]
    <3>1. /\ pc[w] = "make" /\ tab(w) \in Table
          /\ UNCHANGED <<server, kernel, inode, locals>>
      BY <1>3 DEF MakeCreate, LocalsOK, Statement, tab
    <3>2. \A v \in Worker : pc[v] \notin Parting
      BY <1>0, <3>1 DEF InCatalog
    <3>3. inode[tab(w)] = None
      BY <2>2, <3>1, <3>2 DEF AgreesOutside, Agrees
    <3>4. AgreesOutside'
      BY <2>2, <3>1, <3>2 DEF AgreesOutside, Agrees, TableKey, tab
    <3>5. AgreesInside'
      BY <2>2, <3>1, <3>2, <3>3 DEF AgreesInside, tab
    <3>6. QED
      BY <3>1, <3>4, <3>5
  <2>3. QED
    BY <1>3, <2>1, <2>2 DEF MakeCreate
<1>4. CASE Enter(w)
  <2>1. pc[w] = "enter" /\ file[tab(w)] # "absent" /\ inode[tab(w)] = None
    BY <1>4 DEF Enter, AgreesInside
  <2>2. PICK i \in Inode : /\ FreshInode(i)
                           /\ inode' = [inode EXCEPT ![tab(w)] = i]
    BY <1>4, <2>1 DEF Enter
  <2>3. /\ pc' = [pc EXCEPT ![w] = "newSem"]
        /\ UNCHANGED <<server, kernel, file, locals>>
    BY <1>4, <2>1 DEF Enter
  <2>4. tab(w) \in Table
    BY <2>1 DEF LocalsOK, Statement, tab
  <2>5. semOf[KeyOf[i]] = None
    <3>1. \A t \in Table : inode[t] # None => TableKey(t) # KeyOf[i]
      BY <2>2 DEF FreshInode, KeysDiffer, TableKey
    <3>2. KeyOf[i] \in Key
      BY KeyAssumption
    <3>3. QED
      BY <3>1, <3>2 DEF SemaphoresOfTables
  <2>6. \A v \in Worker : v # w => pc[v] \notin Parting
    BY <1>0, <2>1 DEF InCatalog
  <2>7. AgreesOutside'
    BY <2>1, <2>2, <2>3, <2>4, <2>6 DEF AgreesOutside, Agrees, TableKey, tab
  <2>8. AgreesInside'
    BY <2>1, <2>2, <2>3, <2>4, <2>5, <2>6 DEF AgreesInside, TableKey, tab
  <2>9. QED
    BY <2>3, <2>7, <2>8
<1>5. CASE NewSem(w)
  <2>1. /\ pc[w] = "newSem" /\ file[tab(w)] # "absent"
        /\ semOf[TableKey(tab(w))] = None
    BY <1>5 DEF NewSem, AgreesInside
  <2>2. PICK s \in SemId : semOf' = [semOf EXCEPT ![TableKey(tab(w))] = s]
    BY <1>5, <2>1 DEF NewSem, TableKey
  <2>3. /\ pc' = [pc EXCEPT ![w] = "setVal"]
        /\ UNCHANGED <<server, stmt, disk>>
    BY <1>5, <2>1 DEF NewSem, TableKey
  <2>4. /\ tab(w) \in Table
        /\ inode[tab(w)] # None
        /\ TableKey(tab(w)) \in Key
    BY <2>1, KeyAssumption, NoneAssumption DEF LocalsOK, Statement, tab, TableKey
  <2>5. \A v \in Worker : v # w => pc[v] \notin Parting
    BY <1>0, <2>1 DEF InCatalog
  <2>6. AgreesOutside'
    <3>1. SUFFICES ASSUME NEW t \in Table
                   PROVE  Agrees(t)'
      BY DEF AgreesOutside
    <3>2. CASE t = tab(w)
      BY <2>1, <2>2, <2>3, <2>4, <3>2, NoneAssumption DEF Agrees, TableKey
    <3>3. CASE t # tab(w)
      <4>1. Agrees(t)
        BY <2>5, <3>3 DEF AgreesOutside
      <4>2. inode[t] # None => TableKey(t) \in Key
        BY KeyAssumption DEF TableKey
      <4>3. QED
        BY <2>2, <2>3, <4>1, <4>2, NoneAssumption DEF Agrees, TableKey
    <3>4. QED
      BY <3>2, <3>3
  <2>7. AgreesInside'
    BY <2>3, <2>5 DEF AgreesInside
  <2>8. QED
    BY <2>3, <2>6, <2>7
<1>6. CASE Unlink(w)
  <2>1. /\ pc[w] = "unlink" /\ pc' = [pc EXCEPT ![w] = "remove"]
        /\ file' = [file EXCEPT ![tab(w)] = "absent"]
        /\ UNCHANGED <<server, kernel, inode, stmt, key, sem>>
    BY <1>6 DEF Unlink
  <2>2. \A v \in Worker : v # w => pc[v] \notin Parting
    BY <1>0, <2>1 DEF InCatalog
  <2>3. tab(w) \in Table
    BY <2>1 DEF LocalsOK, Statement, tab
  <2>4. AgreesOutside'
    BY <2>1, <2>2, <2>3 DEF AgreesOutside, Agrees, TableKey, tab
  <2>5. AgreesInside'
    BY <2>1, <2>2, <2>3 DEF AgreesInside, tab
  <2>6. QED
    BY <2>1, <2>4, <2>5
<1>7. CASE RemoveSem(w)
  <2>1. /\ pc[w] = "remove" /\ pc' = [pc EXCEPT ![w] = "uncatalog"]
        /\ semOf' = [k \in Key |-> IF semOf[k] = sem[w] THEN None ELSE semOf[k]]
        /\ UNCHANGED <<server, disk, stmt>>
    BY <1>7 DEF RemoveSem
  <2>2. /\ inode[tab(w)] # None
        /\ semOf[TableKey(tab(w))] = sem[w]
        /\ sem[w] \in SemId
        /\ tab(w) \in Table
    BY <2>1, HeldSemaphore
  <2>3. \A v \in Worker : v # w => pc[v] \notin Parting
    BY <1>0, <2>1 DEF InCatalog
  <2>4. AgreesOutside'
    <3>1. SUFFICES ASSUME NEW t \in Table, t # tab(w)
                   PROVE  Agrees(t)'
      BY <2>1 DEF AgreesOutside, tab
    <3>2. Agrees(t)
      BY <2>3, <3>1 DEF AgreesOutside
    <3>3. inode[t] # None => TableKey(t) \in Key
      BY KeyAssumption DEF TableKey
    <3>4. inode[t] # None => semOf[TableKey(t)] # sem[w]
      BY <2>2, <3>1, NoneAssumption, SemaphoreOfOneTable
    <3>5. QED
      BY <2>1, <3>2, <3>3, <3>4 DEF Agrees, TableKey
  <2>5. AgreesInside'
    BY <2>1, <2>3 DEF AgreesInside, tab
  <2>6. QED
    BY <2>1, <2>4, <2>5
<1>8. CASE Uncatalog(w)
  <2>1. /\ pc[w] = "uncatalog" /\ pc' = [pc EXCEPT ![w] = "unlock"]
        /\ inode' = [inode EXCEPT ![tab(w)] = None]
        /\ UNCHANGED <<server, kernel, file, locals>>
    BY <1>8 DEF Uncatalog
  <2>2. file[tab(w)] = "absent" /\ tab(w) \in Table
    BY <2>1 DEF AgreesInside, LocalsOK, Statement, tab
  <2>3. \A v \in Worker : v # w => pc[v] \notin Parting
    BY <1>0, <2>1 DEF InCatalog
  <2>4. AgreesOutside'
    BY <2>1, <2>2, <2>3 DEF AgreesOutside, Agrees, TableKey, tab
  <2>5. AgreesInside'
    BY <2>1, <2>3 DEF AgreesInside
  <2>6. QED
    BY <2>1, <2>4, <2>5
<1> QED
  BY <1>1, <1>2, <1>3, <1>4, <1>5, <1>6, <1>7, <1>8, <1>9 DEF CatalogStep

\* No worker ends between the changes of a CREATE or DROP, unless Ctrl+C ends it.
LEMMA OtherStepsAInv ==
    ASSUME AInv, KInv', "ctrlc" \notin Faults,
           \/ \E w \in Worker :
                 \/ Fork(w) \/ Hangup(w) \/ Reply(w) \/ Interrupted(w)
                 \/ DivideByZero(w) \/ \E st \in Statement : Request(w, st)
           \/ \E how \in Fault : Stop(how)
           \/ KillMain
           \/ Restart
           \/ UNCHANGED vars
    PROVE  AInv'
<1> USE DEF AInv, KInv, FInv, CInv, IInv, TypeOK, Goto, kernel, disk, locals, Exit, Leave
<1>1. ASSUME NEW w \in Worker, Fork(w) PROVE AInv'
  BY <1>1, QuietStepAInv DEF Fork
<1>2. ASSUME NEW w \in Worker, Hangup(w) PROVE AInv'
  BY <1>2, QuietStepAInv DEF Hangup
<1>3. ASSUME NEW w \in Worker, Reply(w) PROVE AInv'
  BY <1>3, QuietStepAInv DEF Reply
<1>4. ASSUME NEW w \in Worker, Interrupted(w) PROVE AInv'
  BY <1>4 DEF Interrupted
<1>5. ASSUME NEW w \in Worker, DivideByZero(w) PROVE AInv'
  BY <1>5, QuietStepAInv DEF DivideByZero
<1>6. ASSUME NEW w \in Worker, NEW st \in Statement, Request(w, st)
      PROVE  AInv'
  BY <1>6, QuietStepAInv DEF Request
<1>7. ASSUME NEW how \in Fault, Stop(how) PROVE AInv'
  BY <1>7, QuietStepAInv DEF Stop
<1>8. CASE KillMain
  BY <1>8, QuietStepAInv DEF KillMain
<1>9. CASE Restart
  BY <1>9, QuietStepAInv DEF Restart
<1>10. CASE UNCHANGED vars
  BY <1>10, QuietStepAInv DEF vars
<1> QED
  BY <1>1, <1>2, <1>3, <1>4, <1>5, <1>6, <1>7, <1>8, <1>9, <1>10

\* The invariant is inductive when numbers are not reused, keys differ, and
\* nobody presses Ctrl+C.
LEMMA NextAInv ==
    ~Recycle /\ KeysDiffer /\ "ctrlc" \notin Faults /\ AInv /\ [Next]_vars => AInv'
<1>1. ~Recycle /\ KeysDiffer /\ AInv /\ [Next]_vars => KInv'
  BY NextKInv DEF AInv
<1> QED
  BY <1>1, TableStepAInv, CatalogStepAInv, OtherStepsAInv DEF Next, Step

\* Under the same conditions, and without Ctrl+C, a table is all there or not at
\* all whenever no CREATE or DROP is under way: also after divisions by zero, and
\* after the main process was stopped or killed and started again.
THEOREM CatalogWhole ==
    ~Recycle /\ KeysDiffer /\ "ctrlc" \notin Faults => (Spec => []CatalogAgrees)
<1>1. SUFFICES ASSUME ~Recycle, KeysDiffer, "ctrlc" \notin Faults
               PROVE  Spec => []CatalogAgrees
  OBVIOUS
<1>2. AInv /\ [Next]_vars => AInv'
  BY <1>1, NextAInv
<1>3. AInv => CatalogAgrees
  BY DEF AInv, AgreesOutside, Agrees, CatalogAgrees, InCatalog, TableKey
<1> QED
  BY <1>2, <1>3, InitAInv, PTL DEF Spec

=============================================================================
