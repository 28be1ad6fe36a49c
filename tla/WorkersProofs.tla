---------------------------- MODULE WorkersProofs ---------------------------
(***************************************************************************)
(* Proofs about Workers, for every set of workers, tables, inode numbers,  *)
(* keys and semaphores, and every choice of faults.                        *)
(***************************************************************************)
EXTENDS Workers, TLAPS

\* Where the local variable semid holds a semaphore id.
KnowsSem == HoldsTable \cup {"down", "dropDown", "setVal"}

\* What a worker's local variables hold at each place it can be at.
LocalsOK ==
    \A w \in Worker :
        /\ pc[w] \notin {"none", "idle"} => stmt[w] \in Statement
        /\ pc[w] = "semget" => key[w] \in Key
        /\ pc[w] \in KnowsSem => sem[w] \in SemId
        /\ pc[w] = "newSem" => inode[tab(w)] \in Inode

\* A semaphore that has been made but not yet set is nobody's.
UnsetSemaphoreUnused ==
    \A w \in Worker :
        pc[w] = "setVal" => /\ semVal[sem[w]] = 0
                            /\ \A v \in Worker : ~Holds(v, sem[w])

IInv == TypeOK /\ LocalsOK /\ SemaphoresHeldOnce /\ UnsetSemaphoreUnused

-----------------------------------------------------------------------------
USE DEF Gone, HoldsTable, CatalogSection, PC, KnowsSem

\* The server starts with no semaphore but the main one, and no worker.
LEMMA InitIInv == Init => IInv
BY NoneAssumption
   DEF Init, IInv, TypeOK, LocalsOK, SemaphoresHeldOnce, UnsetSemaphoreUnused,
       Holds, InCatalog

\* A statement on a table keeps the invariant: only Down and Up touch a
\* semaphore, and Up gives back what its worker alone holds.
LEMMA TableStepIInv ==
    ASSUME IInv, NEW w \in Worker, TableStep(w)
    PROVE  IInv'
<1> USE KeyAssumption, NoneAssumption
    DEF IInv, TypeOK, LocalsOK, SemaphoresHeldOnce, UnsetSemaphoreUnused,
        Holds, InCatalog, tab, Statement, Goto, kernel, disk, locals
<1>1. CASE Ftok(w)
  BY <1>1 DEF Ftok
<1>2. CASE Semget(w)
  BY <1>2 DEF Semget
<1>3. CASE Down(w)
  BY <1>3 DEF Down
<1>4. CASE DownFails(w)
  BY <1>4 DEF DownFails
<1>5. CASE Open(w)
  BY <1>5 DEF Open
<1>6. CASE Examine(w)
  BY <1>6 DEF Examine
<1>7. CASE BeginWrite(w)
  BY <1>7 DEF BeginWrite
<1>8. CASE EndWrite(w)
  BY <1>8 DEF EndWrite
<1>9. CASE Up(w)
  BY <1>9 DEF Up
<1> QED
  BY <1>1, <1>2, <1>3, <1>4, <1>5, <1>6, <1>7, <1>8, <1>9 DEF TableStep

\* exit(1) inside the catalog section, after the up of the main semaphore.
LEMMA GiveUpIInv ==
    ASSUME IInv, NEW w \in Worker, InCatalog(w), UpMain, Exit(w),
           UNCHANGED <<server, semOf, semVal, disk>>
    PROVE  IInv'
<1> USE DEF IInv, TypeOK, Exit, Leave, Goto, disk
<1>1. mainVal \in {Gone, 0} /\ mainVal' \in {Gone, 1}
  BY DEF UpMain, SemaphoresHeldOnce
<1>2. \A v \in Worker : v # w => ~InCatalog(v)
  BY DEF SemaphoresHeldOnce
<1>3. pc'[w] = "none" /\ \A v \in Worker : v # w =>
         pc'[v] = pc[v] /\ stmt'[v] = stmt[v] /\ key'[v] = key[v] /\ sem'[v] = sem[v]
  OBVIOUS
<1>4. TypeOK'
  BY <1>1
<1>5. LocalsOK'
  BY <1>3 DEF LocalsOK, tab
<1>6. SemaphoresHeldOnce'
  BY <1>2, <1>3 DEF SemaphoresHeldOnce, InCatalog, Holds
<1>7. UnsetSemaphoreUnused'
  BY <1>3 DEF UnsetSemaphoreUnused, Holds
<1> QED
  BY <1>4, <1>5, <1>6, <1>7

\* CREATE and DROP keep the invariant: the main semaphore keeps other workers
\* out of the section, and a semaphore is new to everybody when it is made.
LEMMA CatalogStepIInv ==
    ASSUME IInv, NEW w \in Worker, CatalogStep(w)
    PROVE  IInv'
<1> USE KeyAssumption, NoneAssumption
    DEF IInv, TypeOK, LocalsOK, SemaphoresHeldOnce, UnsetSemaphoreUnused,
        Holds, InCatalog, tab, Statement, Goto, kernel, disk, locals,
        UpMain
<1>1. CASE LockMain(w)
  BY <1>1 DEF LockMain
<1>2. CASE MainGone(w)
  BY <1>2 DEF MainGone
<1>3. CASE MakeCreate(w)
  BY <1>3 DEF MakeCreate
<1>4. CASE Enter(w)
  <2>1. CASE inode[tab(w)] # None
    BY <1>4, <2>1, GiveUpIInv DEF Enter
  <2>2. CASE inode[tab(w)] = None
    <3>1. PICK i \in Inode : inode' = [inode EXCEPT ![tab(w)] = i]
      BY <1>4, <2>2 DEF Enter
    <3>2. /\ pc[w] = "enter" /\ pc' = [pc EXCEPT ![w] = "newSem"]
          /\ UNCHANGED <<server, mainVal, semOf, semVal, file, locals>>
      BY <1>4, <2>2 DEF Enter
    <3>3. TypeOK' /\ LocalsOK'
      BY <3>1, <3>2
    <3>4. SemaphoresHeldOnce' /\ UnsetSemaphoreUnused'
      BY <3>2
    <3>5. QED
      BY <3>3, <3>4
  <2>3. QED
    BY <2>1, <2>2
<1>5. CASE NewSem(w)
  <2>1. CASE semOf[KeyOf[inode[tab(w)]]] # None
    BY <1>5, <2>1, GiveUpIInv DEF NewSem
  <2>2. CASE semOf[KeyOf[inode[tab(w)]]] = None
    <3>1. PICK s \in SemId :
             /\ FreshSem(s)
             /\ semOf' = [semOf EXCEPT ![KeyOf[inode[tab(w)]]] = s]
             /\ semVal' = [semVal EXCEPT ![s] = 0]
             /\ sem' = [sem EXCEPT ![w] = s]
      BY <1>5, <2>2 DEF NewSem
    <3>2. /\ pc[w] = "newSem" /\ pc' = [pc EXCEPT ![w] = "setVal"]
          /\ UNCHANGED <<mainVal, stmt, key, unlinked, server, disk>>
      BY <1>5, <2>2 DEF NewSem
    <3>3. \A v \in Worker : sem[v] # s
      BY <3>1 DEF FreshSem
    <3>4. QED
      BY <3>1, <3>2, <3>3
  <2>3. QED
    BY <2>1, <2>2
<1>6. CASE SetVal(w)
  BY <1>6 DEF SetVal
<1>7. CASE DropLookup(w)
  <2>1. CASE inode[tab(w)] # None /\ semOf[KeyOf[inode[tab(w)]]] = None
    BY <1>7, <2>1, GiveUpIInv DEF DropLookup
  <2>2. CASE inode[tab(w)] = None \/ semOf[KeyOf[inode[tab(w)]]] # None
    BY <1>7, <2>2 DEF DropLookup
  <2>3. QED
    BY <2>1, <2>2
<1>8. CASE DropDown(w)
  BY <1>8 DEF DropDown
<1>9. CASE Unlink(w)
  BY <1>9 DEF Unlink
<1>10. CASE RemoveSem(w)
  BY <1>10 DEF RemoveSem
<1>11. CASE Uncatalog(w)
  BY <1>11 DEF Uncatalog
<1>12. CASE UnlockMain(w)
  BY <1>12 DEF UnlockMain
<1> QED
  BY <1>1, <1>2, <1>3, <1>4, <1>5, <1>6, <1>7, <1>8, <1>9, <1>10, <1>11, <1>12
     DEF CatalogStep

\* A worker that leaves takes nothing with it: its semaphores stay taken, and
\* that breaks no part of the invariant.
LEMMA OtherStepsIInv ==
    ASSUME IInv,
           \/ \E w \in Worker :
                 \/ Fork(w) \/ Hangup(w) \/ Reply(w) \/ Interrupted(w)
                 \/ DivideByZero(w) \/ \E st \in Statement : Request(w, st)
           \/ \E how \in Fault : Stop(how)
           \/ KillMain
           \/ Restart
           \/ UNCHANGED vars
    PROVE  IInv'
<1> USE KeyAssumption, NoneAssumption
    DEF IInv, TypeOK, LocalsOK, SemaphoresHeldOnce, UnsetSemaphoreUnused,
        Holds, InCatalog, tab, Statement, Goto, kernel, disk, locals,
        Exit, Leave
<1>1. ASSUME NEW w \in Worker, Fork(w) PROVE IInv'
  BY <1>1 DEF Fork
<1>2. ASSUME NEW w \in Worker, Hangup(w) PROVE IInv'
  BY <1>2 DEF Hangup
<1>3. ASSUME NEW w \in Worker, Reply(w) PROVE IInv'
  BY <1>3 DEF Reply
<1>4. ASSUME NEW w \in Worker, Interrupted(w) PROVE IInv'
  BY <1>4 DEF Interrupted
<1>5. ASSUME NEW w \in Worker, DivideByZero(w) PROVE IInv'
  BY <1>5 DEF DivideByZero
<1>6. ASSUME NEW w \in Worker, NEW st \in Statement, Request(w, st)
      PROVE  IInv'
  BY <1>6 DEF Request
<1>7. ASSUME NEW how \in Fault, Stop(how) PROVE IInv'
  BY <1>7 DEF Stop, Fault
<1>8. CASE KillMain
  BY <1>8 DEF KillMain
<1>9. CASE Restart
  BY <1>9 DEF Restart
<1>10. CASE UNCHANGED vars
  BY <1>10 DEF vars
<1> QED
  BY <1>1, <1>2, <1>3, <1>4, <1>5, <1>6, <1>7, <1>8, <1>9, <1>10

\* The invariant is inductive.
LEMMA NextIInv == IInv /\ [Next]_vars => IInv'
BY TableStepIInv, CatalogStepIInv, OtherStepsIInv DEF Next, Step

\* Hence it holds in every state the server can reach.
LEMMA Invariance == Spec => []IInv
BY InitIInv, NextIInv, PTL DEF Spec

\* Every variable stays in its range, under all faults.
THEOREM TypeCorrect == Spec => []TypeOK
BY Invariance, PTL DEF IInv

\* No semaphore is ever held by two workers, nor the catalog section entered
\* by two, under all faults and whatever keys ftok makes.
THEOREM HeldOnce == Spec => []SemaphoresHeldOnce
BY Invariance, PTL DEF IInv

-----------------------------------------------------------------------------
(* File exclusion: a worker that holds a semaphore holds the one its table   *)
(* has now, although it looked the key and the semaphore up before it waited *)
(* and the table may have been dropped and created since.                    *)

\* The key a worker remembers is that of its table as it is now.
Current(w) == inode[tab(w)] # None /\ KeyOf[inode[tab(w)]] = key[w]

\* A remembered key that leads to a semaphore is current: a table that was
\* dropped since took its semaphore along, and no new file gets that key.
KeysCurrent ==
    \A w \in Worker :
        pc[w] = "semget" /\ semOf[key[w]] # None => Current(w)

\* The same of a key that is about to lead to a semaphore.
NewKeysCurrent ==
    \A v, w \in Worker :
        /\ pc[v] = "newSem" /\ pc[w] = "semget"
        /\ key[w] = KeyOf[inode[tab(v)]]
        => Current(w)

\* A remembered semaphore that still exists is that of the table.
SemsCurrent ==
    \A w \in Worker :
        pc[w] \in KnowsSem /\ semVal[sem[w]] # Gone =>
            inode[tab(w)] # None /\ semOf[KeyOf[inode[tab(w)]]] = sem[w]

\* DROP removes the semaphore before the file that leads to it.
SemRemovedFirst ==
    \A w \in Worker :
        pc[w] = "uncatalog" /\ inode[tab(w)] # None =>
            semOf[KeyOf[inode[tab(w)]]] = None

CInv == IInv /\ KeysCurrent /\ NewKeysCurrent /\ SemsCurrent /\ SemRemovedFirst

\* At the start no worker remembers a key or a semaphore.
LEMMA InitCInv == Init => CInv
BY InitIInv
   DEF Init, CInv, KeysCurrent, NewKeysCurrent, SemsCurrent, SemRemovedFirst

\* A step that changes neither the catalog nor the set of semaphores, and
\* after which no worker remembers more than before.
LEMMA QuietStepCInv ==
    ASSUME CInv, IInv', UNCHANGED <<inode, semOf>>,
           \A s \in SemId : semVal'[s] # Gone => semVal[s] # Gone,
           \A v \in Worker :
              /\ pc'[v] \in {"semget", "newSem", "uncatalog"}
                    => pc'[v] = pc[v] /\ key'[v] = key[v] /\ stmt'[v] = stmt[v]
              /\ pc'[v] \in KnowsSem
                    => pc[v] \in KnowsSem /\ sem'[v] = sem[v] /\ stmt'[v] = stmt[v]
    PROVE  CInv'
<1> USE DEF CInv, tab
<1>1. KeysCurrent'
  BY DEF KeysCurrent, Current
<1>2. NewKeysCurrent'
  BY DEF NewKeysCurrent, Current
<1>3. SemsCurrent'
  BY DEF SemsCurrent, IInv, LocalsOK
<1>4. SemRemovedFirst'
  BY DEF SemRemovedFirst
<1> QED
  BY <1>1, <1>2, <1>3, <1>4

\* A statement on a table looks up what is current, and changes no key.
LEMMA TableStepCInv ==
    ASSUME CInv, IInv', NEW w \in Worker, TableStep(w)
    PROVE  CInv'
<1> USE DEF CInv, Goto, kernel, disk, locals, IInv, TypeOK
<1>1. CASE Ftok(w)
  BY <1>1 DEF Ftok, KeysCurrent, NewKeysCurrent, SemsCurrent,
              SemRemovedFirst, Current, tab
<1>2. CASE Semget(w)
  BY <1>2 DEF Semget, KeysCurrent, NewKeysCurrent, SemsCurrent,
              SemRemovedFirst, Current, tab
<1>3. CASE Down(w)
  BY <1>3, QuietStepCInv DEF Down
<1>4. CASE DownFails(w)
  BY <1>4, QuietStepCInv DEF DownFails
<1>5. CASE Open(w)
  BY <1>5, QuietStepCInv DEF Open
<1>6. CASE Examine(w)
  BY <1>6, QuietStepCInv DEF Examine
<1>7. CASE BeginWrite(w)
  BY <1>7, QuietStepCInv DEF BeginWrite
<1>8. CASE EndWrite(w)
  BY <1>8, QuietStepCInv DEF EndWrite
<1>9. CASE Up(w)
  BY <1>9, QuietStepCInv DEF Up
<1> QED
  BY <1>1, <1>2, <1>3, <1>4, <1>5, <1>6, <1>7, <1>8, <1>9 DEF TableStep

\* CREATE gives no table a key that somebody remembers, and DROP removes the
\* semaphore before the file that leads to it: what is remembered stays
\* current or leads nowhere.
LEMMA CatalogStepCInv ==
    ASSUME ~Recycle, CInv, IInv', NEW w \in Worker, CatalogStep(w)
    PROVE  CInv'
<1> USE KeyAssumption, NoneAssumption
    DEF CInv, Goto, kernel, disk, locals, IInv, TypeOK, Exit, Leave
<1>1. CASE LockMain(w)
  BY <1>1, QuietStepCInv DEF LockMain
<1>2. CASE MainGone(w)
  BY <1>2, QuietStepCInv DEF MainGone
<1>3. CASE MakeCreate(w)
  BY <1>3, QuietStepCInv DEF MakeCreate
<1>4. CASE Enter(w)
  <2>1. CASE inode[tab(w)] # None
    BY <1>4, <2>1, QuietStepCInv DEF Enter
  <2>2. CASE inode[tab(w)] = None
    <3>1. PICK i \in Inode : /\ FreshInode(i)
                             /\ inode' = [inode EXCEPT ![tab(w)] = i]
      BY <1>4, <2>2 DEF Enter
    <3>2. /\ pc[w] = "enter" /\ pc' = [pc EXCEPT ![w] = "newSem"]
          /\ UNCHANGED <<kernel, locals>>
      BY <1>4, <2>2 DEF Enter
    <3>3. \A v \in Worker : key[v] # KeyOf[i]
      BY <3>1 DEF FreshInode
    <3>4. \A v \in Worker : v # w => ~InCatalog(v)
      BY <3>2 DEF SemaphoresHeldOnce, InCatalog
    <3>5. KeysCurrent'
      BY <3>1, <3>2, <2>2 DEF KeysCurrent, Current, tab, LocalsOK, Statement
    <3>6. NewKeysCurrent'
      BY <3>1, <3>2, <3>3, <3>4 DEF NewKeysCurrent, tab, LocalsOK, Statement, InCatalog
    <3>7. SemsCurrent'
      <4>1. SUFFICES ASSUME NEW v \in Worker, pc'[v] \in KnowsSem,
                            semVal'[sem'[v]] # Gone
                     PROVE  /\ inode'[tab(v)'] # None
                            /\ semOf'[KeyOf[inode'[tab(v)']]] = sem'[v]
        BY DEF SemsCurrent
      <4>2. pc[v] \in KnowsSem /\ sem'[v] = sem[v] /\ tab(v)' = tab(v)
        BY <3>2, <4>1 DEF tab
      <4>3. inode[tab(v)] # None /\ semOf[KeyOf[inode[tab(v)]]] = sem[v]
        BY <3>2, <4>1, <4>2 DEF SemsCurrent
      <4>4. tab(v) # tab(w)
        BY <4>3, <2>2
      <4>5. inode'[tab(v)] = inode[tab(v)]
        BY <3>1, <4>4
      <4>6. QED
        BY <3>2, <4>2, <4>3, <4>5
    <3>8. SemRemovedFirst'
      BY <3>2, <3>4 DEF SemRemovedFirst, InCatalog
    <3>9. QED
      BY <3>5, <3>6, <3>7, <3>8
  <2>3. QED
    BY <2>1, <2>2
<1>5. CASE NewSem(w)
  <2>1. CASE semOf[KeyOf[inode[tab(w)]]] # None
    BY <1>5, <2>1, QuietStepCInv DEF NewSem
  <2>2. CASE semOf[KeyOf[inode[tab(w)]]] = None
    <3>1. PICK s \in SemId :
             /\ FreshSem(s)
             /\ semOf' = [semOf EXCEPT ![KeyOf[inode[tab(w)]]] = s]
             /\ semVal' = [semVal EXCEPT ![s] = 0]
             /\ sem' = [sem EXCEPT ![w] = s]
      BY <1>5, <2>2 DEF NewSem
    <3>2. /\ pc[w] = "newSem" /\ pc' = [pc EXCEPT ![w] = "setVal"]
          /\ UNCHANGED <<mainVal, stmt, key, unlinked, server, disk>>
      BY <1>5, <2>2 DEF NewSem
    <3>3. \A v \in Worker : sem[v] # s
      BY <3>1 DEF FreshSem
    <3>4. \A v \in Worker : v # w => ~InCatalog(v)
      BY <3>2 DEF SemaphoresHeldOnce, InCatalog
    <3>5. KeysCurrent'
      BY <3>1, <3>2 DEF KeysCurrent, NewKeysCurrent, Current, tab, LocalsOK
    <3>6. NewKeysCurrent'
      BY <3>2, <3>4 DEF NewKeysCurrent, InCatalog
    <3>7. SemsCurrent'
      BY <3>1, <3>2, <3>3, <2>2 DEF SemsCurrent, tab, LocalsOK
    <3>8. SemRemovedFirst'
      BY <3>2, <3>4 DEF SemRemovedFirst, InCatalog
    <3>9. QED
      BY <3>5, <3>6, <3>7, <3>8
  <2>3. QED
    BY <2>1, <2>2
<1>6. CASE SetVal(w)
  BY <1>6, QuietStepCInv DEF SetVal, UnsetSemaphoreUnused
<1>7. CASE DropLookup(w)
  BY <1>7 DEF DropLookup, KeysCurrent, NewKeysCurrent, SemsCurrent,
              SemRemovedFirst, Current, tab
<1>8. CASE DropDown(w)
  BY <1>8, QuietStepCInv DEF DropDown
<1>9. CASE Unlink(w)
  BY <1>9, QuietStepCInv DEF Unlink
<1>10. CASE RemoveSem(w)
  <2>1. inode[tab(w)] # None => semOf'[KeyOf[inode[tab(w)]]] = None
    BY <1>10 DEF RemoveSem, SemsCurrent, SemaphoresHeldOnce, Holds, LocalsOK,
                 Statement, tab
  <2>2. \A v \in Worker : v # w => ~InCatalog(v)
    BY <1>10 DEF RemoveSem, SemaphoresHeldOnce, InCatalog
  <2>3. KeysCurrent'
    BY <1>10 DEF RemoveSem, KeysCurrent, Current, tab, LocalsOK
  <2>4. NewKeysCurrent'
    BY <1>10, <2>2 DEF RemoveSem, NewKeysCurrent, InCatalog
  <2>5. SemsCurrent'
    BY <1>10 DEF RemoveSem, SemsCurrent, tab, LocalsOK, Statement
  <2>6. SemRemovedFirst'
    BY <1>10, <2>1, <2>2 DEF RemoveSem, SemRemovedFirst, InCatalog, tab
  <2>7. QED
    BY <2>3, <2>4, <2>5, <2>6
<1>11. CASE Uncatalog(w)
  <2>1. \A v \in Worker : v # w => ~InCatalog(v)
    BY <1>11 DEF Uncatalog, SemaphoresHeldOnce, InCatalog
  <2>2. KeysCurrent'
    BY <1>11 DEF Uncatalog, KeysCurrent, SemRemovedFirst, Current, tab, LocalsOK, Statement
  <2>3. NewKeysCurrent'
    BY <1>11, <2>1 DEF Uncatalog, NewKeysCurrent, InCatalog
  <2>4. SemsCurrent'
    <3>1. SUFFICES ASSUME NEW v \in Worker, pc'[v] \in KnowsSem,
                          semVal'[sem'[v]] # Gone
                   PROVE  /\ inode'[tab(v)'] # None
                          /\ semOf'[KeyOf[inode'[tab(v)']]] = sem'[v]
      BY DEF SemsCurrent
    <3>2. pc[v] \in KnowsSem /\ sem'[v] = sem[v] /\ tab(v)' = tab(v)
      BY <1>11, <3>1 DEF Uncatalog, tab
    <3>3. inode[tab(v)] # None /\ semOf[KeyOf[inode[tab(v)]]] = sem[v]
      BY <1>11, <3>1, <3>2 DEF Uncatalog, SemsCurrent
    <3>4. tab(v) # tab(w)
      BY <1>11, <3>2, <3>3 DEF Uncatalog, SemRemovedFirst, LocalsOK
    <3>5. inode'[tab(v)] = inode[tab(v)]
      BY <1>11, <3>4 DEF Uncatalog
    <3>6. QED
      BY <1>11, <3>2, <3>3, <3>5 DEF Uncatalog
  <2>5. SemRemovedFirst'
    BY <1>11, <2>1 DEF Uncatalog, SemRemovedFirst, InCatalog
  <2>6. QED
    BY <2>2, <2>3, <2>4, <2>5
<1>12. CASE UnlockMain(w)
  BY <1>12, QuietStepCInv DEF UnlockMain
<1> QED
  BY <1>1, <1>2, <1>3, <1>4, <1>5, <1>6, <1>7, <1>8, <1>9, <1>10, <1>11, <1>12
     DEF CatalogStep

\* A worker that leaves, and a main process that ends, change neither keys nor
\* semaphores of tables.
LEMMA OtherStepsCInv ==
    ASSUME CInv, IInv',
           \/ \E w \in Worker :
                 \/ Fork(w) \/ Hangup(w) \/ Reply(w) \/ Interrupted(w)
                 \/ DivideByZero(w) \/ \E st \in Statement : Request(w, st)
           \/ \E how \in Fault : Stop(how)
           \/ KillMain
           \/ Restart
           \/ UNCHANGED vars
    PROVE  CInv'
<1> USE DEF CInv, Goto, kernel, disk, locals, IInv, TypeOK, Exit, Leave
<1>1. ASSUME NEW w \in Worker, Fork(w) PROVE CInv'
  BY <1>1, QuietStepCInv DEF Fork
<1>2. ASSUME NEW w \in Worker, Hangup(w) PROVE CInv'
  BY <1>2, QuietStepCInv DEF Hangup
<1>3. ASSUME NEW w \in Worker, Reply(w) PROVE CInv'
  BY <1>3, QuietStepCInv DEF Reply
<1>4. ASSUME NEW w \in Worker, Interrupted(w) PROVE CInv'
  BY <1>4, QuietStepCInv DEF Interrupted
<1>5. ASSUME NEW w \in Worker, DivideByZero(w) PROVE CInv'
  BY <1>5, QuietStepCInv DEF DivideByZero
<1>6. ASSUME NEW w \in Worker, NEW st \in Statement, Request(w, st)
      PROVE  CInv'
  BY <1>6, QuietStepCInv DEF Request
<1>7. ASSUME NEW how \in Fault, Stop(how) PROVE CInv'
  BY <1>7, QuietStepCInv DEF Stop
<1>8. CASE KillMain
  BY <1>8, QuietStepCInv DEF KillMain
<1>9. CASE Restart
  BY <1>9, QuietStepCInv DEF Restart
<1>10. CASE UNCHANGED vars
  BY <1>10, QuietStepCInv DEF vars
<1> QED
  BY <1>1, <1>2, <1>3, <1>4, <1>5, <1>6, <1>7, <1>8, <1>9, <1>10

\* The strengthened invariant is inductive when numbers are not reused.
LEMMA NextCInv == ~Recycle /\ CInv /\ [Next]_vars => CInv'
<1>1. CInv /\ [Next]_vars => IInv'
  BY NextIInv DEF CInv
<1> QED
  BY <1>1, TableStepCInv, CatalogStepCInv, OtherStepsCInv DEF Next, Step

\* Two workers at work on one table would hold one semaphore.
LEMMA ExclusionFromCInv == CInv => FileExclusion
BY DEF CInv, IInv, TypeOK, LocalsOK, SemaphoresHeldOnce, SemsCurrent,
       FileExclusion, Using, Holds

\* As long as inode numbers are not reused while somebody remembers them, no
\* two workers are ever at work on one file: under all faults, and also when
\* ftok gives two tables one key.
THEOREM Exclusion == ~Recycle => (Spec => []FileExclusion)
<1>1. SUFFICES ASSUME ~Recycle
               PROVE  Spec => []FileExclusion
  OBVIOUS
<1>2. CInv /\ [Next]_vars => CInv'
  BY <1>1, NextCInv
<1> QED
  BY <1>2, InitCInv, ExclusionFromCInv, PTL DEF Spec

=============================================================================
