------------------------- MODULE WorkersFilesProofs -------------------------
(***************************************************************************)
(* Proofs about Workers: what becomes of the files of tables and of the    *)
(* semaphores, on top of the exclusion that WorkersProofs shows.           *)
(***************************************************************************)
EXTENDS WorkersProofs

-----------------------------------------------------------------------------
(* The set of tables is frozen once the main semaphore is gone.              *)

\* Who has opened the file of a table still finds it there by its name: DROP
\* takes the semaphore first. So no open file is ever unlinked.
OpenFileStays ==
    /\ unlinked = {}
    /\ \A w \in Worker : pc[w] \in {"work", "write"} => file[tab(w)] # "absent"

FInv == CInv /\ OpenFileStays

USE DEF Gone, HoldsTable, CatalogSection, PC, KnowsSem

\* At the start no file is open.
LEMMA InitFInv == Init => FInv
BY InitCInv DEF Init, FInv, OpenFileStays

\* Two workers that hold semaphores of one table are one.
LEMMA HoldersOfOneTable ==
    ASSUME CInv, NEW v \in Worker, NEW w \in Worker,
           pc[v] \in HoldsTable, pc[w] \in HoldsTable, tab(v) = tab(w)
    PROVE  v = w
BY DEF CInv, IInv, TypeOK, LocalsOK, SemaphoresHeldOnce, SemsCurrent, Holds

\* A step that changes no file, and after which no more files are open.
LEMMA QuietStepFInv ==
    ASSUME FInv, CInv', file' = file, unlinked' \subseteq unlinked,
           \A v \in Worker :
              pc'[v] \in {"work", "write"} =>
                 pc[v] \in {"work", "write"} /\ stmt'[v] = stmt[v]
    PROVE  FInv'
BY DEF FInv, OpenFileStays, tab

\* A statement opens the file only if it is there, and never removes it.
LEMMA TableStepFInv ==
    ASSUME FInv, CInv', NEW w \in Worker, TableStep(w)
    PROVE  FInv'
<1> USE DEF FInv, CInv, IInv, TypeOK, Goto, kernel, disk, locals
<1>1. CASE Ftok(w)
  BY <1>1, QuietStepFInv DEF Ftok
<1>2. CASE Semget(w)
  BY <1>2, QuietStepFInv DEF Semget
<1>3. CASE Down(w)
  BY <1>3, QuietStepFInv DEF Down
<1>4. CASE DownFails(w)
  BY <1>4, QuietStepFInv DEF DownFails
<1>5. CASE Open(w)
  BY <1>5 DEF Open, OpenFileStays, tab
<1>6. CASE Examine(w)
  BY <1>6, QuietStepFInv DEF Examine
<1>7. CASE BeginWrite(w)
  BY <1>7 DEF BeginWrite, OpenFileStays, tab, LocalsOK, Statement
<1>8. CASE EndWrite(w)
  BY <1>8 DEF EndWrite, OpenFileStays, tab, LocalsOK, Statement
<1>9. CASE Up(w)
  BY <1>9, QuietStepFInv DEF Up
<1> QED
  BY <1>1, <1>2, <1>3, <1>4, <1>5, <1>6, <1>7, <1>8, <1>9 DEF TableStep

\* DROP removes a file while it holds the semaphore of the table.
LEMMA CatalogStepFInv ==
    ASSUME FInv, CInv', NEW w \in Worker, CatalogStep(w)
    PROVE  FInv'
<1> USE DEF FInv, CInv, IInv, TypeOK, Goto, kernel, disk, locals, Exit, Leave
<1>1. CASE LockMain(w)
  BY <1>1, QuietStepFInv DEF LockMain
<1>2. CASE MainGone(w)
  BY <1>2, QuietStepFInv DEF MainGone
<1>3. CASE MakeCreate(w)
  BY <1>3 DEF MakeCreate, OpenFileStays, tab, LocalsOK, Statement
<1>4. CASE Enter(w)
  BY <1>4, QuietStepFInv DEF Enter
<1>5. CASE NewSem(w)
  BY <1>5, QuietStepFInv DEF NewSem
<1>6. CASE SetVal(w)
  BY <1>6, QuietStepFInv DEF SetVal
<1>7. CASE DropLookup(w)
  BY <1>7, QuietStepFInv DEF DropLookup
<1>8. CASE DropDown(w)
  BY <1>8, QuietStepFInv DEF DropDown
<1>9. CASE Unlink(w)
  <2>1. pc[w] = "unlink" /\ pc' = [pc EXCEPT ![w] = "remove"] /\ stmt' = stmt
    BY <1>9 DEF Unlink
  <2>2. \A v \in Worker : pc[v] \in {"work", "write"} => tab(v) # tab(w)
    BY <2>1, HoldersOfOneTable
  <2>3. unlinked' = {}
    BY <1>9, <2>2 DEF Unlink, OpenFileStays
  <2>4. ASSUME NEW v \in Worker, pc'[v] \in {"work", "write"}
        PROVE  file'[tab(v)'] # "absent"
    <3>1. pc[v] \in {"work", "write"} /\ tab(v)' = tab(v)
      BY <2>1, <2>4 DEF tab
    <3>2. file'[tab(v)] = file[tab(v)]
      BY <1>9, <2>2, <3>1 DEF Unlink, LocalsOK, Statement, tab
    <3>3. QED
      BY <3>1, <3>2 DEF OpenFileStays
  <2>5. QED
    BY <2>3, <2>4 DEF OpenFileStays
<1>10. CASE RemoveSem(w)
  BY <1>10, QuietStepFInv DEF RemoveSem
<1>11. CASE Uncatalog(w)
  BY <1>11, QuietStepFInv DEF Uncatalog
<1>12. CASE UnlockMain(w)
  BY <1>12, QuietStepFInv DEF UnlockMain
<1> QED
  BY <1>1, <1>2, <1>3, <1>4, <1>5, <1>6, <1>7, <1>8, <1>9, <1>10, <1>11, <1>12
     DEF CatalogStep

\* Who leaves has no file open any more.
LEMMA OtherStepsFInv ==
    ASSUME FInv, CInv',
           \/ \E w \in Worker :
                 \/ Fork(w) \/ Hangup(w) \/ Reply(w) \/ Interrupted(w)
                 \/ DivideByZero(w) \/ \E st \in Statement : Request(w, st)
           \/ \E how \in Fault : Stop(how)
           \/ KillMain
           \/ Restart
           \/ UNCHANGED vars
    PROVE  FInv'
<1> USE DEF FInv, CInv, IInv, TypeOK, Goto, kernel, disk, locals, Exit, Leave
<1>1. ASSUME NEW w \in Worker, Fork(w) PROVE FInv'
  BY <1>1, QuietStepFInv DEF Fork
<1>2. ASSUME NEW w \in Worker, Hangup(w) PROVE FInv'
  BY <1>2, QuietStepFInv DEF Hangup
<1>3. ASSUME NEW w \in Worker, Reply(w) PROVE FInv'
  BY <1>3, QuietStepFInv DEF Reply
<1>4. ASSUME NEW w \in Worker, Interrupted(w) PROVE FInv'
  BY <1>4, QuietStepFInv DEF Interrupted
<1>5. ASSUME NEW w \in Worker, DivideByZero(w) PROVE FInv'
  BY <1>5, QuietStepFInv DEF DivideByZero
<1>6. ASSUME NEW w \in Worker, NEW st \in Statement, Request(w, st)
      PROVE  FInv'
  BY <1>6, QuietStepFInv DEF Request
<1>7. ASSUME NEW how \in Fault, Stop(how) PROVE FInv'
  BY <1>7, QuietStepFInv DEF Stop
<1>8. CASE KillMain
  BY <1>8, QuietStepFInv DEF KillMain
<1>9. CASE Restart
  BY <1>9, QuietStepFInv DEF Restart
<1>10. CASE UNCHANGED vars
  BY <1>10, QuietStepFInv DEF vars
<1> QED
  BY <1>1, <1>2, <1>3, <1>4, <1>5, <1>6, <1>7, <1>8, <1>9, <1>10

\* The invariant is inductive when numbers are not reused.
LEMMA NextFInv == ~Recycle /\ FInv /\ [Next]_vars => FInv'
<1>1. ~Recycle /\ FInv /\ [Next]_vars => CInv'
  BY NextCInv DEF FInv
<1> QED
  BY <1>1, TableStepFInv, CatalogStepFInv, OtherStepsFInv DEF Next, Step

\* What FrozenAfterStop says of one step.
Frozen ==
    (mainVal = Gone /\ \A w \in Worker : ~InCatalog(w)) =>
        /\ UNCHANGED <<{t \in Table : file[t] = "absent"}, inode, semOf>>
        /\ \A w \in Worker : ~InCatalog(w)'

\* A statement on a table writes to a file that is there, and enters no catalog
\* section.
LEMMA TableStepFrozen ==
    ASSUME FInv, NEW w \in Worker, TableStep(w)
    PROVE  Frozen
<1> USE DEF FInv, CInv, IInv, TypeOK, Goto, kernel, disk, locals, Frozen, InCatalog
<1>1. CASE BeginWrite(w)
  <2>1. file[tab(w)] # "absent" /\ tab(w) \in Table
    BY <1>1 DEF BeginWrite, OpenFileStays, LocalsOK, Statement, tab
  <2>2. {t \in Table : file'[t] = "absent"} = {t \in Table : file[t] = "absent"}
    BY <1>1, <2>1 DEF BeginWrite
  <2>3. QED
    BY <1>1, <2>2 DEF BeginWrite
<1>2. CASE EndWrite(w)
  <2>1. file[tab(w)] # "absent" /\ tab(w) \in Table
    BY <1>2 DEF EndWrite, OpenFileStays, LocalsOK, Statement, tab
  <2>2. {t \in Table : file'[t] = "absent"} = {t \in Table : file[t] = "absent"}
    BY <1>2, <2>1 DEF EndWrite
  <2>3. QED
    BY <1>2, <2>2 DEF EndWrite
<1>3. CASE \/ Ftok(w) \/ Semget(w) \/ Down(w) \/ DownFails(w) \/ Open(w)
          \/ Examine(w) \/ Up(w)
  BY <1>3 DEF Ftok, Semget, Down, DownFails, Open, Examine, Up
<1> QED
  BY <1>1, <1>2, <1>3 DEF TableStep

\* Without the main semaphore nobody gets past its down.
LEMMA CatalogStepFrozen ==
    ASSUME FInv, NEW w \in Worker, CatalogStep(w)
    PROVE  Frozen
<1>1. SUFFICES ASSUME mainVal = Gone, ~InCatalog(w)
               PROVE  Frozen
  BY DEF Frozen
<1>2. MainGone(w)
  BY <1>1 DEF CatalogStep, InCatalog, LockMain, MakeCreate, Enter, NewSem, SetVal,
              DropLookup, DropDown, Unlink, RemoveSem, Uncatalog, UnlockMain
<1> QED
  BY <1>2 DEF MainGone, Frozen, InCatalog, FInv, CInv, IInv, TypeOK, Goto,
              kernel, disk, locals

\* No other step touches a file or the catalog.
LEMMA OtherStepsFrozen ==
    ASSUME FInv,
           \/ \E w \in Worker :
                 \/ Fork(w) \/ Hangup(w) \/ Reply(w) \/ Interrupted(w)
                 \/ DivideByZero(w) \/ \E st \in Statement : Request(w, st)
           \/ \E how \in Fault : Stop(how)
           \/ KillMain
           \/ Restart
    PROVE  Frozen
BY DEF FInv, CInv, IInv, TypeOK, Goto, kernel, disk, locals, Exit, Leave, Frozen,
       InCatalog, Fork, Hangup, Reply, Interrupted, DivideByZero, Request, Stop,
       KillMain, Restart

\* As long as inode numbers are not reused while somebody remembers them, the set
\* of tables is frozen from the stop of the server to its next start: whatever
\* keys ftok makes and whoever dies.
THEOREM TablesFrozen == ~Recycle => (Spec => FrozenAfterStop)
<1>1. SUFFICES ASSUME ~Recycle
               PROVE  Spec => FrozenAfterStop
  OBVIOUS
<1>2. FInv /\ [Next]_vars => FInv'
  BY <1>1, NextFInv
<1>3. FInv /\ [Next]_vars => [Frozen]_vars
  BY TableStepFrozen, CatalogStepFrozen, OtherStepsFrozen DEF Next, Step
<1> QED
  BY <1>2, <1>3, InitFInv, PTL DEF Spec, FrozenAfterStop, Frozen

-----------------------------------------------------------------------------
(* Nothing stays taken, unless a worker dies inside a critical section.      *)

\* The faults that end a worker wherever it is.
Deadly == {"fpe", "ctrlc"}

LInv == IInv /\ NothingLost /\ server # "ctrlc"

\* At the start nobody holds anything and the main semaphore is free.
LEMMA InitLInv == Init => LInv
BY InitIInv DEF Init, LInv, NothingLost

\* A worker that takes the semaphore of its table keeps it as far as its up.
LEMMA TableStepLInv ==
    ASSUME LInv, IInv', NEW w \in Worker, TableStep(w)
    PROVE  LInv'
<1> USE DEF LInv, IInv, TypeOK, LocalsOK, NothingLost, Holds, InCatalog,
            Goto, kernel, disk, locals
<1>1. CASE Ftok(w)
  BY <1>1 DEF Ftok
<1>2. CASE Semget(w)
  BY <1>2 DEF Semget
<1>3. CASE Down(w)
  BY <1>3 DEF Down
<1>4. CASE DownFails(w)
  BY <1>4 DEF DownFails
<1>5. CASE Open(w)
  BY <1>5 DEF Open
<1>6. CASE Examine(w)
  BY <1>6 DEF Examine
<1>7. CASE BeginWrite(w)
  BY <1>7 DEF BeginWrite
<1>8. CASE EndWrite(w)
  BY <1>8 DEF EndWrite
<1>9. CASE Up(w)
  BY <1>9 DEF Up, SemaphoresHeldOnce
<1> QED
  BY <1>1, <1>2, <1>3, <1>4, <1>5, <1>6, <1>7, <1>8, <1>9 DEF TableStep

\* Every way out of the catalog section passes an up of the main semaphore, and
\* DROP removes the semaphore that it took.
LEMMA CatalogStepLInv ==
    ASSUME LInv, IInv', NEW w \in Worker, CatalogStep(w)
    PROVE  LInv'
<1> USE DEF LInv, IInv, TypeOK, LocalsOK, NothingLost, Holds, InCatalog,
            Goto, kernel, disk, locals, UpMain, Exit, Leave
<1>1. CASE LockMain(w)
  BY <1>1 DEF LockMain
<1>2. CASE MainGone(w)
  BY <1>2 DEF MainGone
<1>3. CASE MakeCreate(w)
  BY <1>3 DEF MakeCreate
<1>4. CASE Enter(w)
  BY <1>4 DEF Enter
<1>5. CASE NewSem(w)
  BY <1>5 DEF NewSem
<1>6. CASE SetVal(w)
  BY <1>6 DEF SetVal
<1>7. CASE DropLookup(w)
  BY <1>7 DEF DropLookup
<1>8. CASE DropDown(w)
  BY <1>8 DEF DropDown
<1>9. CASE Unlink(w)
  BY <1>9 DEF Unlink
<1>10. CASE RemoveSem(w)
  BY <1>10 DEF RemoveSem
<1>11. CASE Uncatalog(w)
  BY <1>11 DEF Uncatalog
<1>12. CASE UnlockMain(w)
  BY <1>12 DEF UnlockMain
<1> QED
  BY <1>1, <1>2, <1>3, <1>4, <1>5, <1>6, <1>7, <1>8, <1>9, <1>10, <1>11, <1>12
     DEF CatalogStep

\* A worker ends where it holds nothing.
LEMMA OtherStepsLInv ==
    ASSUME LInv, IInv', Faults \cap Deadly = {},
           \/ \E w \in Worker :
                 \/ Fork(w) \/ Hangup(w) \/ Reply(w) \/ Interrupted(w)
                 \/ DivideByZero(w) \/ \E st \in Statement : Request(w, st)
           \/ \E how \in Fault : Stop(how)
           \/ KillMain
           \/ Restart
           \/ UNCHANGED vars
    PROVE  LInv'
<1> USE DEF LInv, IInv, TypeOK, NothingLost, Holds, InCatalog,
            Goto, kernel, disk, locals, Exit, Leave
<1>1. ASSUME NEW w \in Worker, Fork(w) PROVE LInv'
  BY <1>1 DEF Fork
<1>2. ASSUME NEW w \in Worker, Hangup(w) PROVE LInv'
  BY <1>2 DEF Hangup
<1>3. ASSUME NEW w \in Worker, Reply(w) PROVE LInv'
  BY <1>3 DEF Reply
<1>4. ASSUME NEW w \in Worker, Interrupted(w) PROVE LInv'
  BY <1>4 DEF Interrupted
<1>5. ASSUME NEW w \in Worker, DivideByZero(w) PROVE LInv'
  BY <1>5 DEF DivideByZero, Deadly
<1>6. ASSUME NEW w \in Worker, NEW st \in Statement, Request(w, st)
      PROVE  LInv'
  BY <1>6 DEF Request
<1>7. ASSUME NEW how \in Fault, Stop(how) PROVE LInv'
  BY <1>7 DEF Stop, Deadly, Fault
<1>8. CASE KillMain
  BY <1>8 DEF KillMain
<1>9. CASE Restart
  BY <1>9 DEF Restart
<1>10. CASE UNCHANGED vars
  BY <1>10 DEF vars
<1> QED
  BY <1>1, <1>2, <1>3, <1>4, <1>5, <1>6, <1>7, <1>8, <1>9, <1>10

\* The invariant is inductive as long as no worker dies where it stands.
LEMMA NextLInv == Faults \cap Deadly = {} /\ LInv /\ [Next]_vars => LInv'
<1>1. LInv /\ [Next]_vars => IInv'
  BY NextIInv DEF LInv
<1> QED
  BY <1>1, TableStepLInv, CatalogStepLInv, OtherStepsLInv DEF Next, Step

\* Without divisions by zero and Ctrl+C, a semaphore that nobody holds is free:
\* also when the main process is stopped or killed, when inode numbers are reused
\* and when ftok gives two tables one key.
THEOREM Lossless == Faults \cap Deadly = {} => (Spec => []NothingLost)
<1>1. SUFFICES ASSUME Faults \cap Deadly = {}
               PROVE  Spec => []NothingLost
  OBVIOUS
<1>2. LInv /\ [Next]_vars => LInv'
  BY <1>1, NextLInv
<1>3. LInv => NothingLost
  BY DEF LInv
<1> QED
  BY <1>2, <1>3, InitLInv, PTL DEF Spec

=============================================================================
