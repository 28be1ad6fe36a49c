------------------------------ MODULE Workers ------------------------------
(***************************************************************************)
(* The processes of the SQL server (Server/main.cpp) and the System V      *)
(* semaphores that keep them apart.                                        *)
(*                                                                         *)
(* The main process accepts connections and forks one worker per client.   *)
(* A worker serves the statements of its client one after the other:       *)
(*                                                                         *)
(*  - SELECT, INSERT, UPDATE and DELETE find the semaphore of their table  *)
(*    through the inode number of the file OR/<table> (ftok, semget), take *)
(*    it, open and use the file <table>, and give it back;                 *)
(*  - CREATE and DROP take the main semaphore, then make or remove the     *)
(*    file <table>, the file OR/<table> and the semaphore of the table.    *)
(*                                                                         *)
(* No semaphore operation of the code asks for SEM_UNDO: what a process    *)
(* holds when it dies stays taken.                                         *)
(***************************************************************************)
EXTENDS Integers, FiniteSets

CONSTANTS
    Worker,     \* slots for worker processes
    Table,      \* table names the clients use
    Inode,      \* inode numbers the file system gives to the files in OR/
    Key,        \* keys ftok returns
    KeyOf,      \* ftok: the key made of the low bits of an inode number
    SemId,      \* ids the kernel gives to the semaphores of tables
    TableOp,    \* the table statements that clients send
    Recycle,    \* may the file system reuse a number while a worker still
                \* remembers the key made from it?
    Faults,     \* what the environment may do: see Fault
    None        \* no table, key, inode, semaphore or statement

TableStatement == {"select", "insert", "update", "delete"}

Fault == {"fpe",    \* a division by zero in a WHERE or SET expression
          "stop",   \* kill -INT of the main process only
          "ctrlc",  \* Ctrl+C: SIGINT to the main process and the workers
          "kill"}   \* SIGKILL of the main process

ASSUME KeyAssumption     == KeyOf \in [Inode -> Key]
ASSUME NoneAssumption    == None \notin Table \cup Key \cup Inode \cup SemId
ASSUME TableOpAssumption == TableOp \subseteq TableStatement
ASSUME RecycleAssumption == Recycle \in BOOLEAN
ASSUME FaultsAssumption  == Faults \subseteq Fault

VARIABLES
    server,     \* the main process: "up", or how it was stopped
    mainVal,    \* value of the main semaphore, Gone once removed
    file,       \* state of the file <table>
    inode,      \* inode number of OR/<table>, None when there is no such file
    semOf,      \* the semaphore a key leads to, None when there is none
    semVal,     \* value of a semaphore, Gone when there is no such semaphore
    pc,         \* where a worker is
    stmt,       \* the statement it serves
    key,        \* its local variable key
    sem,        \* its local variable semid
    unlinked    \* the workers whose open file has lost its name since

kernel == <<mainVal, semOf, semVal>>
disk   == <<file, inode>>
locals == <<stmt, key, sem, unlinked>>
vars   == <<server, kernel, disk, pc, locals>>

-----------------------------------------------------------------------------
Gone == -1

Statement == [op : TableOp \cup {"create", "drop"}, table : Table]

\* Where a worker is while it holds the semaphore of its table.
HoldsTable == {"open", "work", "write", "up", "unlink", "remove"}

\* Where a worker is between the down and the up of the main semaphore.
CatalogSection == {"make", "enter", "newSem", "setVal", "lookup", "dropDown",
                   "unlink", "remove", "uncatalog", "unlock"}

PC == {"none", "idle", "ftok", "semget", "down", "open", "work", "write",
       "up", "lockMain", "reply"} \cup CatalogSection

tab(w) == stmt[w].table

Holds(w, s)  == pc[w] \in HoldsTable /\ sem[w] = s
InCatalog(w) == pc[w] \in CatalogSection
Using(w, t)  == pc[w] \in {"work", "write", "unlink"} /\ tab(w) = t

-----------------------------------------------------------------------------
Init ==
    /\ server = "up"
    /\ mainVal = 1
    /\ file = [t \in Table |-> "absent"]
    /\ inode = [t \in Table |-> None]
    /\ semOf = [k \in Key |-> None]
    /\ semVal = [s \in SemId |-> Gone]
    /\ pc = [w \in Worker |-> "none"]
    /\ stmt = [w \in Worker |-> None]
    /\ key = [w \in Worker |-> None]
    /\ sem = [w \in Worker |-> None]
    /\ unlinked = {}

Goto(w, l) == pc' = [pc EXCEPT ![w] = l]

\* The worker is through with its statement: the locals are dead.
Leave(w, l) ==
    /\ Goto(w, l)
    /\ stmt' = [stmt EXCEPT ![w] = None]
    /\ key' = [key EXCEPT ![w] = None]
    /\ sem' = [sem EXCEPT ![w] = None]
    /\ unlinked' = unlinked \ {w}

Exit(w) == Leave(w, "none")

\* accept and fork give the connection to a new worker.
Fork(w) ==
    /\ server = "up"
    /\ pc[w] = "none"
    /\ Goto(w, "idle")
    /\ UNCHANGED <<server, kernel, disk, locals>>

\* recv finds the connection closed: exit(0).
Hangup(w) ==
    /\ pc[w] = "idle"
    /\ Exit(w)
    /\ UNCHANGED <<server, kernel, disk>>

\* A statement arrives.
Request(w, st) ==
    /\ pc[w] = "idle"
    /\ stmt' = [stmt EXCEPT ![w] = st]
    /\ Goto(w, IF st.op \in {"create", "drop"} THEN "lockMain" ELSE "ftok")
    /\ UNCHANGED <<server, kernel, disk, key, sem, unlinked>>

\* The answer is sent: a client that has gone away costs the worker its life
\* (SIGPIPE, or system_error and exit(3)).
Reply(w) ==
    /\ pc[w] = "reply"
    /\ \E l \in {"idle", "none"} : Leave(w, l)
    /\ UNCHANGED <<server, kernel, disk>>

-----------------------------------------------------------------------------
(* SELECT, INSERT, UPDATE, DELETE *)

\* key_t key = ftok("OR/" + name, 'a'): -1 when the file does not exist.
Ftok(w) ==
    /\ pc[w] = "ftok"
    /\ \/ /\ inode[tab(w)] = None
          /\ Goto(w, "reply")
          /\ UNCHANGED key
       \/ /\ inode[tab(w)] # None
          /\ key' = [key EXCEPT ![w] = KeyOf[inode[tab(w)]]]
          /\ Goto(w, "semget")
    /\ UNCHANGED <<server, kernel, disk, stmt, sem, unlinked>>

\* int semid = semget(key, 0, 0): -1 when the key leads to no semaphore.
Semget(w) ==
    /\ pc[w] = "semget"
    /\ \/ /\ semOf[key[w]] = None
          /\ Goto(w, "reply")
          /\ UNCHANGED sem
       \/ /\ semOf[key[w]] # None
          /\ sem' = [sem EXCEPT ![w] = semOf[key[w]]]
          /\ Goto(w, "down")
    /\ key' = [key EXCEPT ![w] = None]
    /\ UNCHANGED <<server, kernel, disk, stmt, unlinked>>

\* semop(semid, &semop_down, 1) waits for a positive value; it fails when the
\* semaphore has been removed, before the call (EINVAL) or while it waits
\* (EIDRM).
Down(w) ==
    /\ pc[w] = "down"
    /\ semVal[sem[w]] > 0
    /\ semVal' = [semVal EXCEPT ![sem[w]] = @ - 1]
    /\ Goto(w, "open")
    /\ UNCHANGED <<server, mainVal, semOf, disk, locals>>

\* Mutants of DownFails: the result of semop is ignored; it is tried again.
DownFailsIgnored(w) ==
    /\ pc[w] = "down"
    /\ semVal[sem[w]] = Gone
    /\ Goto(w, "open")
    /\ UNCHANGED <<server, kernel, disk, locals>>

DownFailsRetried(w) ==
    /\ pc[w] = "down"
    /\ semVal[sem[w]] = Gone
    /\ UNCHANGED vars

DownFails(w) ==
    /\ pc[w] = "down"
    /\ semVal[sem[w]] = Gone
    /\ Goto(w, "reply")
    /\ UNCHANGED <<server, kernel, disk, locals>>

\* The constructor of Table opens the file, or throws ios_base::failure.
Open(w) ==
    /\ pc[w] = "open"
    /\ Goto(w, IF file[tab(w)] = "absent" THEN "up" ELSE "work")
    /\ UNCHANGED <<server, kernel, disk, locals>>

\* Mutant of Examine: a rejected statement goes straight to its answer.
ExamineNoUp(w) ==
    /\ pc[w] = "work"
    /\ Goto(w, "reply")
    /\ unlinked' = unlinked \ {w}
    /\ UNCHANGED <<server, kernel, disk, stmt, key, sem>>

\* make_select, make_insert, make_update, make_delete: the statement is
\* rejected (logic_error) or has nothing to write ...
Examine(w) ==
    /\ pc[w] = "work"
    /\ Goto(w, "up")
    /\ unlinked' = unlinked \ {w}
    /\ UNCHANGED <<server, kernel, disk, stmt, key, sem>>

\* ... or starts to change the file: INSERT appends a record and UPDATE
\* overwrites fields in place, in the file that is open; DELETE truncates the
\* file of that name, or creates it, and writes back the header and the records
\* that stay.
BeginWrite(w) ==
    /\ pc[w] = "work"
    /\ stmt[w].op # "select"
    /\ IF w \in unlinked /\ stmt[w].op # "delete"
          THEN UNCHANGED <<file, unlinked>>
          ELSE /\ file' = [file EXCEPT ![tab(w)] = "torn"]
               /\ unlinked' = unlinked \ {w}
    /\ Goto(w, "write")
    /\ UNCHANGED <<server, kernel, inode, stmt, key, sem>>

EndWrite(w) ==
    /\ pc[w] = "write"
    /\ file' = IF w \in unlinked THEN file
                                 ELSE [file EXCEPT ![tab(w)] = "whole"]
    /\ unlinked' = unlinked \ {w}
    /\ Goto(w, "up")
    /\ UNCHANGED <<server, kernel, inode, stmt, key, sem>>

\* semop(semid, &semop_up, 1), whose result the code ignores.
Up(w) ==
    /\ pc[w] = "up"
    /\ semVal' = [semVal EXCEPT ![sem[w]] = IF @ = Gone THEN Gone ELSE @ + 1]
    /\ Goto(w, "reply")
    /\ UNCHANGED <<server, mainVal, semOf, disk, locals>>

-----------------------------------------------------------------------------
(* CREATE and DROP *)

LockMain(w) ==
    /\ pc[w] = "lockMain"
    /\ mainVal > 0
    /\ mainVal' = mainVal - 1
    /\ Goto(w, IF stmt[w].op = "create" THEN "make" ELSE "lookup")
    /\ UNCHANGED <<server, semOf, semVal, disk, locals>>

\* Mutant of MainGone: the result of semop is ignored.
MainGoneIgnored(w) ==
    /\ pc[w] = "lockMain"
    /\ mainVal = Gone
    /\ Goto(w, IF stmt[w].op = "create" THEN "make" ELSE "lookup")
    /\ UNCHANGED <<server, kernel, disk, locals>>

\* The main process has removed the semaphore: the answer is "Server was
\* stopped". The worker is meant to exit(2) then, but it compares that text
\* with what(), to which the library has added ": iostream error": it goes on.
MainGone(w) ==
    /\ pc[w] = "lockMain"
    /\ mainVal = Gone
    /\ Goto(w, "reply")
    /\ UNCHANGED <<server, kernel, disk, locals>>

\* semop(main_semid, &semop_up, 1), whose result the code ignores.
UpMain == mainVal' = IF mainVal = Gone THEN Gone ELSE mainVal + 1

\* Create::make_create: the table exists or its definition is bad
\* (logic_error), or the file is written.
MakeCreate(w) ==
    /\ pc[w] = "make"
    /\ \/ /\ Goto(w, "unlock")
          /\ UNCHANGED file
       \/ /\ file[tab(w)] = "absent"
          /\ file' = [file EXCEPT ![tab(w)] = "whole"]
          /\ Goto(w, "enter")
    /\ UNCHANGED <<server, kernel, inode, locals>>

\* The number of a new file in OR/ belongs to no other file there.
FreshInode(i) ==
    /\ \A t \in Table : inode[t] # i
    /\ Recycle \/ \A w \in Worker : key[w] # KeyOf[i]

\* Mutant of Enter: the exit after the up is missing, and the up at the end of
\* the section is done too.
EnterUpTwice(w) ==
    /\ pc[w] = "enter"
    /\ \/ /\ inode[tab(w)] # None
          /\ UpMain
          /\ Goto(w, "unlock")
          /\ UNCHANGED inode
       \/ /\ inode[tab(w)] = None
          /\ \E i \in Inode : /\ FreshInode(i)
                              /\ inode' = [inode EXCEPT ![tab(w)] = i]
          /\ Goto(w, "newSem")
          /\ UNCHANGED mainVal
    /\ UNCHANGED <<server, semOf, semVal, file, locals>>

\* open(OR/<table>, O_CREAT | O_EXCL): exit(1) when the file exists.
Enter(w) ==
    /\ pc[w] = "enter"
    /\ \/ /\ inode[tab(w)] # None
          /\ UpMain
          /\ Exit(w)
          /\ UNCHANGED inode
       \/ /\ inode[tab(w)] = None
          /\ \E i \in Inode : /\ FreshInode(i)
                              /\ inode' = [inode EXCEPT ![tab(w)] = i]
          /\ Goto(w, "newSem")
          /\ UNCHANGED <<mainVal, locals>>
    /\ UNCHANGED <<server, semOf, semVal, file>>

\* The kernel does not hand out an id that a process still remembers: ids
\* carry a sequence number.
FreshSem(s) == semVal[s] = Gone /\ \A w \in Worker : sem[w] # s

\* Mutants of NewSem: the semaphore is free before SETVAL; one that exists is
\* used (no IPC_EXCL).
NewSemFree(w) ==
    LET k == KeyOf[inode[tab(w)]] IN
    /\ pc[w] = "newSem"
    /\ semOf[k] = None
    /\ \E s \in SemId :
          /\ FreshSem(s)
          /\ semOf' = [semOf EXCEPT ![k] = s]
          /\ semVal' = [semVal EXCEPT ![s] = 1]
          /\ sem' = [sem EXCEPT ![w] = s]
    /\ Goto(w, "setVal")
    /\ UNCHANGED <<server, mainVal, disk, stmt, key, unlinked>>

NewSemShared(w) ==
    LET k == KeyOf[inode[tab(w)]] IN
    /\ pc[w] = "newSem"
    /\ \/ /\ semOf[k] # None
          /\ sem' = [sem EXCEPT ![w] = semOf[k]]
          /\ UNCHANGED <<semOf, semVal>>
       \/ /\ semOf[k] = None
          /\ \E s \in SemId :
                /\ FreshSem(s)
                /\ semOf' = [semOf EXCEPT ![k] = s]
                /\ semVal' = [semVal EXCEPT ![s] = 0]
                /\ sem' = [sem EXCEPT ![w] = s]
    /\ Goto(w, "setVal")
    /\ UNCHANGED <<server, mainVal, disk, stmt, key, unlinked>>

\* semget(ftok(OR/<table>), 1, IPC_CREAT | IPC_EXCL): exit(1) when the key has
\* a semaphore, otherwise one is made, with value 0.
NewSem(w) ==
    LET k == KeyOf[inode[tab(w)]] IN
    /\ pc[w] = "newSem"
    /\ \/ /\ semOf[k] # None
          /\ UpMain
          /\ Exit(w)
          /\ UNCHANGED <<semOf, semVal>>
       \/ /\ semOf[k] = None
          /\ \E s \in SemId :
                /\ FreshSem(s)
                /\ semOf' = [semOf EXCEPT ![k] = s]
                /\ semVal' = [semVal EXCEPT ![s] = 0]
                /\ sem' = [sem EXCEPT ![w] = s]
          /\ Goto(w, "setVal")
          /\ UNCHANGED <<mainVal, stmt, key, unlinked>>
    /\ UNCHANGED <<server, disk>>

\* semctl(semid, 0, SETVAL, 1): from here on others get past their down.
SetVal(w) ==
    /\ pc[w] = "setVal"
    /\ semVal' = [semVal EXCEPT ![sem[w]] = 1]
    /\ Goto(w, "unlock")
    /\ UNCHANGED <<server, mainVal, semOf, disk, locals>>

\* ftok and semget of DROP: what they read changes only inside the catalog
\* section, so they are one step. No OR/ file: an error for the client. No
\* semaphore: exit(1).
DropLookup(w) ==
    LET i == inode[tab(w)] IN
    /\ pc[w] = "lookup"
    /\ \/ /\ i = None
          /\ Goto(w, "unlock")
          /\ UNCHANGED <<mainVal, locals>>
       \/ /\ i # None
          /\ semOf[KeyOf[i]] = None
          /\ UpMain
          /\ Exit(w)
       \/ /\ i # None
          /\ semOf[KeyOf[i]] # None
          /\ sem' = [sem EXCEPT ![w] = semOf[KeyOf[i]]]
          /\ Goto(w, "dropDown")
          /\ UNCHANGED <<mainVal, stmt, key, unlinked>>
    /\ UNCHANGED <<server, semOf, semVal, disk>>

\* DROP waits for the users of the table with the main semaphore in hand. The
\* semaphore is removed by DROP only, so this semop cannot fail as Down can.
DropDown(w) ==
    /\ pc[w] = "dropDown"
    /\ semVal[sem[w]] > 0
    /\ semVal' = [semVal EXCEPT ![sem[w]] = @ - 1]
    /\ Goto(w, "unlink")
    /\ UNCHANGED <<server, mainVal, semOf, disk, locals>>

\* unlink(<table>): who has the file open keeps a file without a name.
Unlink(w) ==
    /\ pc[w] = "unlink"
    /\ file' = [file EXCEPT ![tab(w)] = "absent"]
    /\ unlinked' = unlinked \cup {v \in Worker : pc[v] \in {"work", "write"}
                                              /\ tab(v) = tab(w)}
    /\ Goto(w, "remove")
    /\ UNCHANGED <<server, kernel, inode, stmt, key, sem>>

\* Mutant of RemoveSem: the semaphore is given back, not removed.
RemoveSemUp(w) ==
    /\ pc[w] = "remove"
    /\ semVal' = [semVal EXCEPT ![sem[w]] = @ + 1]
    /\ sem' = [sem EXCEPT ![w] = None]
    /\ Goto(w, "uncatalog")
    /\ UNCHANGED <<server, mainVal, semOf, disk, stmt, key, unlinked>>

\* semctl(semid, 0, IPC_RMID): whoever waits on it is told it is gone.
RemoveSem(w) ==
    /\ pc[w] = "remove"
    /\ semVal' = [semVal EXCEPT ![sem[w]] = Gone]
    /\ semOf' = [k \in Key |-> IF semOf[k] = sem[w] THEN None ELSE semOf[k]]
    /\ sem' = [sem EXCEPT ![w] = None]
    /\ Goto(w, "uncatalog")
    /\ UNCHANGED <<server, mainVal, disk, stmt, key, unlinked>>

\* Mutant of Uncatalog: the file in OR/ stays.
UncatalogNot(w) ==
    /\ pc[w] = "uncatalog"
    /\ Goto(w, "unlock")
    /\ UNCHANGED <<server, kernel, disk, locals>>

Uncatalog(w) ==
    /\ pc[w] = "uncatalog"
    /\ inode' = [inode EXCEPT ![tab(w)] = None]
    /\ Goto(w, "unlock")
    /\ UNCHANGED <<server, kernel, file, locals>>

UnlockMain(w) ==
    /\ pc[w] = "unlock"
    /\ UpMain
    /\ Goto(w, "reply")
    /\ UNCHANGED <<server, semOf, semVal, disk, locals>>

-----------------------------------------------------------------------------
(* What happens to the processes *)

\* SIGFPE ends a worker that divides by zero: in the WHERE condition of a
\* SELECT, UPDATE or DELETE before anything is written, or in the SET
\* expression of an UPDATE when earlier records have been overwritten.
DivideByZero(w) ==
    /\ "fpe" \in Faults
    /\ \/ pc[w] = "work"  /\ stmt[w].op \in {"select", "update", "delete"}
       \/ pc[w] = "write" /\ stmt[w].op = "update"
    /\ Exit(w)
    /\ UNCHANGED <<server, kernel, disk>>

\* handler() in the main process removes the main semaphore and closes the
\* listening socket; Ctrl+C reaches the workers too.
Stop(how) ==
    /\ how \in Faults \cap {"stop", "ctrlc"}
    /\ server = "up"
    /\ server' = how
    /\ mainVal' = Gone
    /\ UNCHANGED <<semOf, semVal, disk, pc, locals>>

\* Mutant of Interrupted: what the worker holds is given back (SEM_UNDO).
InterruptedUndo(w) ==
    /\ server = "ctrlc"
    /\ pc[w] # "none"
    /\ semVal' = [s \in SemId |-> IF Holds(w, s) /\ semVal[s] = 0
                                     THEN 1 ELSE semVal[s]]
    /\ Exit(w)
    /\ UNCHANGED <<server, mainVal, semOf, disk>>

\* handler() in a worker: exit(0), wherever it is.
Interrupted(w) ==
    /\ server = "ctrlc"
    /\ pc[w] # "none"
    /\ Exit(w)
    /\ UNCHANGED <<server, kernel, disk>>

\* SIGKILL cannot be handled: the main semaphore stays.
KillMain ==
    /\ "kill" \in Faults
    /\ server = "up"
    /\ server' = "kill"
    /\ UNCHANGED <<kernel, disk, pc, locals>>

\* A new main process makes a new main semaphore. The workers of the old one
\* share its port: bind succeeds only when they are gone. Files and table
\* semaphores are as the old processes left them.
Restart ==
    /\ server # "up"
    /\ \A w \in Worker : pc[w] = "none"
    /\ server' = "up"
    /\ mainVal' = 1
    /\ UNCHANGED <<semOf, semVal, disk, pc, locals>>

-----------------------------------------------------------------------------
TableStep(w) ==
    \/ Ftok(w) \/ Semget(w) \/ Down(w) \/ DownFails(w) \/ Open(w)
    \/ Examine(w) \/ BeginWrite(w) \/ EndWrite(w) \/ Up(w)

CatalogStep(w) ==
    \/ LockMain(w) \/ MainGone(w) \/ MakeCreate(w) \/ Enter(w) \/ NewSem(w)
    \/ SetVal(w) \/ DropLookup(w) \/ DropDown(w) \/ Unlink(w)
    \/ RemoveSem(w) \/ Uncatalog(w) \/ UnlockMain(w)

\* What a worker does without being asked again.
Step(w) == TableStep(w) \/ CatalogStep(w) \/ Reply(w) \/ Interrupted(w)

Next ==
    \/ \E w \in Worker :
          \/ Fork(w) \/ Hangup(w) \/ Step(w) \/ DivideByZero(w)
          \/ \E st \in Statement : Request(w, st)
    \/ \E how \in Fault : Stop(how)
    \/ KillMain
    \/ Restart

Spec == Init /\ [][Next]_vars

\* The scheduler runs every worker that can run, and the kernel serves the
\* waiters of a semaphore in their order: one that can go on again and again
\* will. Clients, signals and divisions by zero need not happen.
Fairness ==
    \A w \in Worker :
        /\ WF_vars(Step(w))
        /\ SF_vars(Down(w)) /\ SF_vars(DropDown(w)) /\ SF_vars(LockMain(w))

FairSpec == Spec /\ Fairness

-----------------------------------------------------------------------------
(* Properties *)

\* Every variable stays in its range; a semaphore never counts past one.
TypeOK ==
    /\ server \in {"up", "stop", "ctrlc", "kill"}
    /\ mainVal \in {Gone, 0, 1}
    /\ file \in [Table -> {"absent", "whole", "torn"}]
    /\ inode \in [Table -> Inode \cup {None}]
    /\ semOf \in [Key -> SemId \cup {None}]
    /\ semVal \in [SemId -> {Gone, 0, 1}]
    /\ pc \in [Worker -> PC]
    /\ stmt \in [Worker -> Statement \cup {None}]
    /\ key \in [Worker -> Key \cup {None}]
    /\ sem \in [Worker -> SemId \cup {None}]
    /\ unlinked \subseteq Worker

\* Two workers never hold one semaphore, and nobody holds one that is free:
\* the down and up calls of every path of the request loop match
\* (main.cpp:374-396, 586-667).
SemaphoresHeldOnce ==
    /\ \A s \in SemId, v, w \in Worker :
          Holds(v, s) /\ Holds(w, s) => v = w /\ semVal[s] = 0
    /\ \A v, w \in Worker :
          InCatalog(v) /\ InCatalog(w) => v = w /\ mainVal # 1

\* No two workers are at work on the file of one table, through the whole
\* life of the table: found by its key, dropped, created again
\* (README.md:5).
FileExclusion ==
    \A t \in Table, v, w \in Worker : Using(v, t) /\ Using(w, t) => v = w

\* A worker that got past its down finds the file of its table, and finds it
\* as the last finished statement left it (main.cpp:382, server.cpp:35): an
\* interrupted change is never read, in this life of the server or the next.
HolderFindsWholeFile ==
    \A w \in Worker : pc[w] \in {"open", "work"} => file[tab(w)] = "whole"

\* While nobody is in the catalog section, a table is all there or not at
\* all: its file, its entry in OR/ and its semaphore (main.cpp:585-667).
CatalogAgrees ==
    (\A w \in Worker : ~InCatalog(w)) =>
        \A t \in Table :
            \/ file[t] = "absent" /\ inode[t] = None
            \/ /\ file[t] # "absent"
               /\ inode[t] # None
               /\ semOf[KeyOf[inode[t]]] # None

\* A semaphore that no worker holds is free: every path out of a critical
\* section gives back what it took, also when the main process has gone.
NothingLost ==
    /\ \A s \in SemId :
          semVal[s] = 0 =>
              \E w \in Worker : \/ Holds(w, s)
                                \/ pc[w] = "setVal" /\ sem[w] = s
    /\ mainVal = 0 => \E w \in Worker : InCatalog(w)

\* Once the server has been stopped and the last CREATE or DROP under way has
\* ended, no other begins and the set of tables stays as it is, until the
\* server is started again (README.md:9, main.cpp:588-591).
FrozenAfterStop ==
    [][(mainVal = Gone /\ \A w \in Worker : ~InCatalog(w)) =>
          /\ UNCHANGED <<{t \in Table : file[t] = "absent"}, inode, semOf>>
          /\ \A w \in Worker : ~InCatalog(w)']_vars

\* A statement that a worker has read is answered, or its worker ends.
Answered ==
    \A w \in Worker : pc[w] \notin {"none", "idle"} ~> pc[w] \in {"none", "idle"}

=============================================================================
