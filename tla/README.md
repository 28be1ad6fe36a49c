# A TLA+ model of SQL_server

The repository is a small SQL server: a Linux server that keeps tables in text
files and forks one process per client, and a Windows client that parses the
statements its user types and sends them over TCP. This directory holds a formal
model of it: TLA+ modules, TLC configurations that check them on small instances,
and proofs checked by TLAPS. `PROJECT.json` lists the runs, the lines of source
every definition stands for, the hazards the properties are aimed at, and the
disagreements found.

Paths below are relative to `src/`.

## 1. The system

### Processes and what they share

    client --- TCP --- worker (forked per connection) ---+--- file <table>
                          |                              +--- file OR/<table>
                       main process                      +--- semaphore of <table>
                       (accept, fork, signals)           +--- main semaphore

The processes of the server share no memory. They share three things, none of
which survives or dies together with another:

* **files**: `<table>` holds the header and the records; `OR/<table>` is an empty
  file whose inode number `ftok` turns into the key of the table's semaphore;
* **System V semaphores**: one per table, found by key, and the main semaphore,
  inherited by id, which guards CREATE and DROP. No call uses `SEM_UNDO`;
* **descriptors**: the main process never closes a connection it accepted, and
  every worker forked later inherits all of them.

### Inventory

| Part | Source | State | Operations | What makes it correct |
|---|---|---|---|---|
| Main process | `Server/main.cpp` 36-150 | main semaphore, listening socket | start, accept + fork, SIGINT, Ctrl+C, SIGKILL | a stop freezes the set of tables; what workers wait for is released |
| Worker loop | `Server/main.cpp` 150-697 | statement structures, `key`, `semid` | receive, lock, execute, unlock, answer; ways out by `exit`, signal, exception | one worker per table at a time, every lock given back on every path, every statement answered |
| Catalog | `Server/main.cpp` 585-670, `server.cpp` 300-330 | `OR/`, semaphores | CREATE, DROP in 5-6 system calls each | a table is there with file, entry and semaphore, or not at all |
| Table engine | `Server/server.cpp` | the record file, `head_map`, two file positions | insert, select, update, delete, record by record | the file is what the rows are; writes stay inside their field |
| LIKE (`where1`) | `Server/header_structures.cpp` 74-570 | pattern, a string stream kept for the connection | check a pattern, match a text, clear | accepts exactly the well formed patterns, matches as they mean |
| IN, logic (`where2`, `where3`) | `header_structures.cpp` 577-1064 | postfix text, stacks | evaluate for a record | value of the expression; malformed postfix rejected |
| Wire protocol | both `main.cpp`, both `socket.cpp` | two byte streams | send and receive pieces | both ends always agree on what comes next |
| Client loop | `Client/main.cpp` | connection, statement | send, wait, print, reconnect | the user gets an answer or is told that there is none |
| Lexer, parser | `Client/analysis.cpp` | current lexeme, look-ahead, three counters and six flags, `type_where`, the statement | recursive descent | accepts the language, and what it sends means what was typed |

### What is hard here

* **Interleaving.** A statement finds its semaphore with three calls (`ftok`,
  `semget`, `semop`); DROP and CREATE by other workers fit between any two.
* **Identity.** Keys are made of inode numbers: two numbers can give one key, and
  a number is free for another file once its own is gone.
* **Death.** A worker can die anywhere: division by zero (SIGFPE), Ctrl+C. What it
  holds stays taken, what it has half written stays half written, and the server
  can be started again on it.
* **Untagged protocol.** An `int` says how long the next string or list is; one
  piece too many or too few and every later one is misread.
* **Leftovers.** Objects of a worker live as long as the connection and are
  emptied by hand after each statement.
* **Offsets and words.** Records are written by offset and read by words.
* **`errno`.** It is looked at after a number of the statement is converted, never
  cleared before, and the conversion of a field sets it too.
* **One look-ahead too few.** After `(` the parser cannot know whether it stands
  before a comparison, an expression or several comparisons. It keeps counters and
  flags, and jumps back when a `)` shows what it was.
* **Two ends of a condition.** The client flattens a condition into postfix without
  types; the worker evaluates it per record with two stacks and finds out the types.

The places where this bites are the `hazards` of `PROJECT.json`, each
with the properties that would notice.

## 2. Modules

| Module | Stands for |
|---|---|
| `Workers` | main process, workers, semaphores, `OR/`, and table files as far as they are absent, whole or torn |
| `TableLocks` | abstract: a table that exists has at most one owner; one whose owner died is never used again |
| `WorkersLocks` | refinement mapping from `Workers` to `TableLocks` |
| `WorkersProofs`, `WorkersFilesProofs`, `WorkersCatalogProofs` | proofs about `Workers`, each on the invariant of the one before |
| `WorkersLocksProofs` | the proof of the refinement |
| `Connection` | one connection: client, worker, two streams, and who else has the descriptor |
| `LikePattern` | `where1`: the check of a pattern, the match, and the stream between statements |
| `TableFile` | the record file, character by character, and the statements on it |
| `TableRows` | abstract: what the statements mean for a sequence of rows |
| `Subsequences` | what is left of a sequence when some positions are kept, for both of them |
| `Lexer` | the client's lexer: a typed line to lexemes |
| `Condition` | the WHERE clause in the client's parser, with its counters and flags |
| `Request` | the statements in the client's parser, and what is sent of one |
| `WhereValue` | the worker's side: postfix, two stacks, `long long`, for a record |
| `Meaning` | reference: what a typed expression or condition means, without a parser |
| `ClientLine` | the client's loop around lexer and parser, and the statement at the worker |
| `ConnectionProofs`, `LikePatternProofs` | proofs about `Connection` and `LikePattern` |
| `TableFileProofs` | proofs about `TableFile`, and that it implements `TableRows` |
| `SequenceLemmas` | induction on numbers, and what follows for sequences that are put together |
| `MCWorkers`, `MCLikePattern`, `MCTableFile`, `MCClientLine` | small instances for TLC |

The pieces compose by abstraction: the body of a critical section is `Examine`,
`BeginWrite`, `EndWrite` in `Workers` and the whole of `TableFile`, which is
entitled to be sequential because `Workers` shows `FileExclusion`. What `Workers`
calls `Request` and `Reply` is the whole of `Connection`; the outcome of the
statement in `Connection` (`Execute`, `Fail`) is any of those `Workers` allows.

### Workers

| State | In the code |
|---|---|
| `pc`, `stmt`, `key`, `sem` | where the worker is in its loop, the statement, its locals `key` and `semid` |
| `semOf`, `semVal`, `mainVal` | the kernel's table of keys, and values; `Gone` after `IPC_RMID` |
| `inode`, `file` | `OR/<table>` and `<table>` |
| `unlinked` | the workers that have open a file without a name |
| `server` | how the main process ended, if it did |

One action is one system call or one stretch of code between two of them; the
whole of CREATE is `LockMain MakeCreate Enter NewSem SetVal UnlockMain`, of DROP
`LockMain DropLookup DropDown Unlink RemoveSem Uncatalog UnlockMain`, with every
error branch: back to the client through `UnlockMain`, or the up of the main
semaphore and `exit(1)`. `ftok` and `semget` of DROP are one step, because what
they read changes only inside the section that the main semaphore guards. The
return value of `semop` is used where the code uses it (`DownFails`, `MainGone`)
and not where it does not (`Up`, `UpMain`).

A worker that is refused because the server was stopped is meant to `exit(2)`
(`Server/main.cpp` 686-690). It compares `e.what()` with `"Server was stopped"`,
but `what()` of an `ios_base::failure` ends in `": iostream error"` with the
library of the documented compiler, so the branch is dead and the worker answers
and goes on; `MainGone` does that. `README.md:9` promises otherwise ("If client
try to create or drop table his program will be shutdowned"). The property that
matters is checked instead: the worker that goes on cannot change the catalog
(`FrozenAfterStop`).

Assumptions about the environment, all of them visible as operators: `FreshInode`
(a new file in `OR/` gets a number that no file there has and, unless `Recycle`,
whose key no worker remembers), `FreshSem` (ids carry sequence numbers and are not
given out again while somebody remembers one), `Restart` (the new main process
cannot bind its port before the old workers are gone).

### Connection

`statement` is what the parser accepts: its type, its condition and the lengths of
its lists (`Statements`). `PayloadOf` and `ConditionOf` are what the client sends;
`PayloadWanted` and `ConditionWanted` are what the worker reads, `AnswerWanted`
what the client reads. They are translated from two programs and compared only by
running them against each other. A piece is one `send`; strings are lengths,
chosen different for names, cells and messages so that a shifted reader notices.
A reader that meets the wrong piece sets `garbled`. `copies` are the other
processes that have the descriptor open.

The client that leaves after a lost connection or a too long string may connect
again; the new connection is another instance of the module.

The connection begins with `Connect`, which the kernel completes as long as any
process has the listening socket open, and `Accept`, which only the main process
can do. `copies` says who has the listening socket until `Accept`, and who else has
the connection after it. SIGINT shuts the listening socket down for everybody
(`WithoutMain`); SIGKILL does not (`KillMain`), and leaves connections in the queue
that nobody will accept as long as a worker lives.

### LikePattern

`Check` follows the recursive descent of `where1::check_str` procedure by procedure
over the characters, and returns what is left in the stream; `A` and `D` read a set
and say where they stop. `LikeFrom` is the matcher: for every place in the pattern,
the places in the text from which `like` returns true. `Cuts`, `WellFormed` and
`Matches` say independently what a pattern is, one that can be cut into single
characters and sets, and what it means: the text can be cut along with it. A pattern
has no quote in it, because the client's lexer ends a string at the first one.

### TableFile

`file` is what follows the header. Writing (`Record`, `Overwritten`, `back`,
`Before`) goes by offsets, reading (`Row`) by words, as in the code, blank fields
included: a line with an empty text has a word too few, and later fields move up.
A value is made of `Letters` and digits. There is no white space in it: the client
reads a statement with one `getline` (`Client/main.cpp:76`) and drops every blank of
a string (`Client/analysis.cpp:1526`). A number is a word that `to_string` can give
(`Literal`). `Number` is what `strtoll` reads in any word, and `to_string` makes of it,
with the bounds of `long long` as words (`MaxLong`, `MinLong`): an UPDATE that sets a
LONG to a LONG goes through both, also when the row was misread and the word is no
number at all, or digits of a text that are too many for one.

`erange` is the worker's `errno` as far as it matters: whether it is `ERANGE`. The
conversion of a field that is `TooBig` sets it (`AfterField`, `AfterSet`) and looks
no further; after a number of the statement it is looked at, and if it is set, the
statement ends with "Too big number" and it is reset (`CondRefused` in `Throw`,
`SetRefused` in `RefuseSet`). A condition is the field first and then the constant,
so that a row can refuse the number it is compared with; a wrong condition is found
before its constant is converted (`CondWrong`). INSERT gets its numbers in binary.
`Elsewhere` is what may be between two statements on the table: another worker with
its own `errno`, or other tables and failed calls of this one: every value of `errno`
is possible when a statement begins.

Lines and chosen rows are picked by a set of positions (`Pick` of `Subsequences`), as
`SelectSeq` takes an operator, which no prover can be told about.
`table` is a history variable, the rows the last statement left, and an answer
names its statement: with them `Relational` compares every statement with what
`TableRows` says of that very statement. A step may also be `Refused`: a statement
with a number in it is answered with an error for an errno that was there before it
began, and the table is as it was; no step of a scan sets `errno`. `Relational` makes
no claim where a text is empty, because those rows are misread, nor for a SELECT that
names a field twice.
The loops of `make_select`, `make_update` and `make_delete` are one action per
record. Expressions in SET are a constant or another field; conditions are ALL or
a comparison of a field with a constant: what longer ones come to for a record is
`WhereValue`.

### Lexer, Condition, Request, WhereValue, ClientLine

A line is a sequence of marks: a character each, but for letters that always stand
together (a keyword, a name). `Lex` cuts it into lexemes as `lexer::next` does.

A production of the parser is an operator with the name it has in the code, from
the state of the parser to the next. The state is a record with the globals of
`namespace parser`: `par` is `par_counter`, `inner` are `w7_counter` and
`w20_counter`, `resumed` are `deep_flag` and `deep_flag2`, `logicResumed` is
`deep_flag3`. `goto L1`, `L2` and `L3` are calls of the operator itself. Expressions
have one grammar that the code has four times (`W5`-`W9`, `W18`-`W22`, `W12`-`W16`,
`W4_C`-`W11_C`); the model has it once, with the copy as a parameter, as they differ
only in where the postfix goes and whether they take a `)` of somebody else's.

`WhereValue` computes for a row what `where2::choose`, `where3::choose` and the loop
of `make_update` compute; its outcomes are a value, an exception, SIGFPE, and
`"underflow"`, the top of an empty stack. `MaxLong` is the greatest `long long`, 7 in
the runs, so that both ends of the range can be typed with one digit. Its rows are
read right and have no number out of range, and whoever refuses a constant resets
`errno`; so a constant is refused exactly if it is too big, and `errno` is left to
`TableFile`.

`ClientLine` puts them together: the user types phrases (`Type`) and ends the line
(`Enter`); the loop of `main` takes `exit`, `help` or a request (`Accept`, `Reject`).
A refused line may leave a rest in `input`, which is read as the next line, if
`cur_lex_type` says so, and that can be a left-over too (`EndsAtEnd`). The properties
compare what the worker will compute from the statement with `Meaning` of the line.

`Meaning` splits a list of lexemes at its loosest operator outside parentheses; it
shares the arithmetic of `WhereValue` (`Arith`, `Traps`, `Holds`) but nothing of
the parser. The model of the parser was also compared with the compiled
`analysis.cpp` on the 109,330 lines that the topics of `MCClientLine` can type: both
accept the same 9,765 of them, with the same postfix, type and negation, and agree
on the class of the last lexeme of those they refuse.

## 3. What the runs check

| Run | Instance | Shows |
|---|---|---|
| `workers_stop` | 3 workers, 2 tables, 3 inode numbers two of which share a key, 4 semaphores; SIGINT and SIGKILL of the main process, restarts | `FileExclusion`, `NothingLost`, `FrozenAfterStop`, no deadlock |
| `workers_faults` | 2 workers, 2 tables, 4 inode numbers and semaphores; every fault, restarts | `TypeOK`, `SemaphoresHeldOnce`, `FileExclusion`, `HolderFindsWholeFile`, and `TableLocksKept`: the processes implement `TableLocks` |
| `workers_live` | 2 workers, 1 table; SIGINT of the main process | `Answered`, `CatalogAgrees` |
| `connection_sync` | lists of 0 to 2, 2 pieces under way each way; connecting, closing, deaths, SIGKILL, SIGINT, Ctrl+C | `InStep`, `ExecutesWhole`, `PromptIsClean`, `TypeOK`; `EndsOrOrphaned`, `WorkerFollowsClient` |
| `like_like` | all patterns of up to 4 of 8 characters and longer ones with a range; texts of up to 3 | `LikeIsRight`, `FreshCheckIsRight` |
| `file_all` | TEXT(1), LONG, TEXT(2); up to 2 rows; empty texts, digits, SELECT a, a; `long long` from -8 to 7; `errno` from this table and from elsewhere | `Aligned`, `WritesInField`; `Relational`: the file implements `TableRows`, but for numbers refused because of an older `errno` |
| `client_lines` | twelve topics of lines: three of logic, three of arithmetic, two of types, lists, INSERT, sessions of two lines, what is looked ahead at, no lexeme and a statement in the rest of the line among it; 8 rows | `ChoosesAsWritten`, `PostfixIsWhole`, `StoresAsWritten`, `NoRestExecuted` |
| `workers_divide` | violation of `Answered` | see below |
| `workers_reuse` | violation of `FileExclusion` | see below |
| `connection_die` | violation of `AnsweredOrTold` | see below |
| `like_leftover` | violation of `VerdictIsOfPattern` | see below |
| `client_grouping` | violation of `MeansWhatItSays` | see below |

**Why these bounds.** Two workers are what every lock needs; the third in
`workers_stop` allows one inside, one waiting with a semaphore and one with a
stale key or at the main semaphore, and more workers only repeat those roles. Two
tables let one be dropped while the other takes its key. Inode numbers and
semaphores exceed what tables and memories of workers can occupy, so that CREATE
never waits for one (with fewer, TLC reports it). `workers_live` has one table,
because of the size of the liveness graph: locks of different tables meet only at
the main semaphore, which the deadlock check of `workers_stop` covers with two.
In `Connection` two elements are the fewest that tell a list from its element,
and one piece of capacity is the fewest that lets the sender be ahead; two let a
piece of the next phase arrive early. Texts and patterns: four characters are a
set with one member and `^`, or a set and a `%`; a range needs five or six and is
added by `Ranges`. Records: the TEXT of width 1 and the trailing TEXT of width 2
reach the offsets at both ends, and the LONG is between them; of two rows one is
first and one last, and what is done to one shows in the other. Lines: a topic
bounds how often each mark is typed. Three comparisons with three parentheses
beyond their own are the fewest in which a group can begin at, before and after
another comparison; two NOTs are one that cancels and one under another; one
operator of each level on a side shows precedence and grouping. Every topic is
explored through all its prefixes (`careful`: those the parser has not refused
yet), so that every accepted line within the bounds occurs, and every line that
goes wrong at its last phrase. `MaxLong` = 7 makes 7, 8 and 9 the greatest number,
the least without its sign, and one beyond.

**Symmetry** is used only in safety runs, over sets of model values that the
module treats alike (`Inode` is left out when two numbers share a key). In
`workers_stop` the property `FrozenAfterStop`, and in `workers_faults`
`TableLocksKept`, are safety properties without fairness.

**Deadlock** is checked in `workers_stop`, `workers_live`, `workers_reuse` and for
the patterns and files. It is off where the system really may stop: dead workers
leave semaphores taken (`workers_faults`, `workers_divide`), a connection that
both sides have left does nothing more, and the user of `ClientLine` stops typing.

**Fairness.** `Workers`: every worker that can run is run (`WF_vars(Step(w))`),
and a waiter of a semaphore that becomes positive again and again gets it
(`SF` on the three downs), because the kernel serves waiters in their order.
Hangups, faults, requests and forks are not fair. `Connection`: both programs run
on, the main process calls `accept` again and again, as its loop does, and a signal
sent is delivered; nobody has to type a statement, connect, or stop the server.
That a worker runs on includes that a statement it executes comes to an end.
`EndsOrOrphaned` and `WorkerFollowsClient` hold as long as it does; `workers_divide`
shows how a worker comes to wait for a semaphore for ever, and then its client waits
with it, and it does not notice that the client leaves. `Answered` of `workers_live`
says when that cannot happen.

**Every property is shown to have teeth** by a mutant of the code it watches
(`mutants` in `PROJECT.json`), kept next to the original in the module: a missing
up, an ignored result, a semaphore that starts free, a width that is not compared.

### Disagreements found

* `workers_divide`: `Server/server.cpp:517`. A division by zero in an UPDATE or a
  WHERE kills the worker with the semaphore in hand. Everybody else on that table
  waits for ever; a DROP of it waits with the main semaphore, and then nobody can
  create or drop anything.
* `workers_reuse`: `Server/main.cpp:369`. A worker keeps the key across a DROP of
  its table; the number goes to the file of another new table and its own table is
  created again under another number. It then takes the wrong semaphore and works
  on its table beside the worker that holds the right one.
* `connection_die`: `Server/main.cpp:133`. A worker that dies inside a statement
  does not close the connection, because the main process still has it open: the
  client's message for this case (`Client/socket.cpp:192`) is never printed.
* `client_grouping`: `Client/analysis.cpp:2581`. Parentheses around several
  comparisons are accepted and misunderstood: when one closes, all that was read so
  far is taken for the group. `(a=1) AND ((b=1) OR (b=2))` is computed as
  `((a=1) AND (b=1)) OR (b=2)`, and `NOT ((a=1) AND (b=1))` as
  `(NOT (a=1)) AND (b=1)`. `ChoosesAsWritten` holds where groups come first
  (`GroupsFirst`).
* `like_leftover`: `Server/header_structures.cpp:113`. A rejected pattern leaves
  characters in the stream of `where1`, which is never emptied: the next pattern
  of the connection is judged with them in front.

More were seen with variations of these runs and are recorded in the model rather
than by a run of their own:

* two files in `OR/` whose inode numbers agree in 16 bits make CREATE fail half way
  and share a semaphore (`NewSem`; that nobody gets hurt is `FileExclusion` of
  `workers_stop`);
* a table with an empty text is misread, and an UPDATE or a condition that reads a LONG
  finds digits that are too many, for which nobody looks. `errno` stays `ERANGE`
  (`Server/server.cpp:476`, `Server/header_structures.cpp:660`, `738`, `784`), and the
  next number of a statement is answered with "Too big number", small as it is
  (`Server/server.cpp:481`, `Server/header_structures.cpp:635`, `644`, `752`, `804`):
  after `INSERT ('', 7, '9')`, `UPDATE` of the number to itself and of the text to `'9'`,
  setting the number to 7 is refused, though all rows are now read right. `Relational`
  allows for it (`Refused`) and shows that it then changes nothing, also when `errno`
  comes from another table;
* DELETE truncates the file before it writes back what stays (`Server/server.cpp:631`).
  `Workers` does not tell DELETE from UPDATE: the file is torn from `BeginWrite` to
  `EndWrite`, and `HolderFindsWholeFile` says that nobody reads it if its worker dies
  between them; in `TableFile` nobody dies;
* Ctrl+C inside CREATE or DROP leaves half a table, so `CatalogAgrees` is not checked
  under that fault;
* the dead `exit(2)` above;
* a connection that is in the queue when the main process is killed, or whose worker
  dies, is left hanging while another worker lives (`Orphaned`): `EndsOrOrphaned`
  shows that these are the only two ways;
* a line that begins with what begins no lexeme, after a line that was read to its
  end, is refused and its rest executed (`EndsAtEnd`; `NoRestExecuted` shows that
  this is the only way);
* `a IN (1) AND (b=1)` is accepted, and the part behind IN lost; IN behind a
  comparison is refused (`InAlone`);
* the check that a string "should have at least one character" (`Client/analysis.cpp`
  481) counts blanks, which are then dropped (1526): `' '` is stored as an empty
  text, and rows with one are misread (`Row`); `'a b'` is stored as `ab`.

## 4. What is proved

Every safety property of `Workers` that the runs check, and the refinement, are
proved for any sets of workers, tables, inode numbers, keys and semaphores, any
`KeyOf` and any set of faults, from the `ASSUME`s of `Workers` (`KeyOf` is a
function to keys, `None` is none of them) and the conditions written in the
theorem. A condition is there because the property fails without it:

| Theorem | Property | Conditions |
|---|---|---|
| `TypeCorrect` | `TypeOK`: no semaphore counts past one | |
| `HeldOnce` | `SemaphoresHeldOnce` | |
| `Exclusion` | `FileExclusion` | `~Recycle` |
| `TablesFrozen` | `FrozenAfterStop` | `~Recycle` |
| `Lossless` | `NothingLost` | no fault kills inside a section: `Faults \cap Deadly = {}` |
| `WholeFiles` | `HolderFindsWholeFile` | `~Recycle`, `KeysDiffer` |
| `CatalogWhole` | `CatalogAgrees` | `~Recycle`, `KeysDiffer`, no Ctrl+C |
| `LocksKept` | `TableLocksKept`: `Workers` implements `TableLocks` | `~Recycle`, `KeysDiffer` |

`~Recycle` says that an inode number is not given out again while a worker
remembers its key; `KeysDiffer`, that `ftok` is one to one on the numbers in `OR/`,
which it is below 2^16. `workers_reuse` and the remarks above show what happens
otherwise.

The invariants build on each other; each lemma about a step has one case per action.

* **`IInv`** (`WorkersProofs`) adds to `TypeOK` and `SemaphoresHeldOnce`: `LocalsOK`
  (what `key`, `semid` and the statement hold at each place) and
  `UnsetSemaphoreUnused`: between `semget` and `SETVAL` the semaphore of a new table
  is 0 and held by nobody. Without it the induction fails at `SetVal`, which would
  free a semaphore in use, and at `NewSem`, which would give out an id somebody
  holds. Deaths are harmless here: a dead worker holds nothing and its semaphore
  stays taken.
* **`CInv`** is for exclusion. Holding a semaphore once is not enough: two workers at
  one table must hold the *same* one, though each found its own through a key it read
  earlier. `KeysCurrent`: a remembered key that leads to a semaphore is the key of
  the table as it is now. `NewKeysCurrent`: so is one for which a semaphore is about
  to be made. `SemsCurrent`: a remembered semaphore that still exists is that of the
  table. `SemRemovedFirst`: DROP removes the semaphore before the entry in `OR/`; were
  it the other way round, CREATE could give the name a new semaphore while the old one
  can still be taken. `Recycle` enters only in `Enter`, at the choice of the number.
* **`FInv`** (`WorkersFilesProofs`) adds `OpenFileStays`: nobody unlinks a file under a
  worker that has it open. A statement that writes back then changes what is in a
  file but not which files there are, and `FrozenAfterStop` follows step by step.
* **`LInv`** is `NothingLost` itself with `IInv`: the up of every branch is needed for
  exactly the semaphore its down took, which `SemaphoresHeldOnce` gives.
* **`KInv`** (`WorkersCatalogProofs`) adds `InodesDiffer` and `SemaphoresOfTables`: a
  semaphore with a key is that of exactly one file in `OR/`. **`WInv`** and **`AInv`**
  on top of it follow a torn file and a half made table: whoever tore it died with its
  semaphore, which stays at 0, so that nobody gets past the down; and every way out of
  CREATE and DROP either undoes what it did or has finished.
* **`OInv`** (`WorkersLocksProofs`) is what the refinement mapping needs. `Owner` is
  defined with a CHOOSE; `OwnersKnown` says that it is the one worker that has the
  table, if any. Taking, giving back and dying are then a lemma each (`TakeLocks`,
  `GiveLocks`, `DieLocks`), used by all actions that do one of them.

### Connection

For any capacity, any statements with lists of any length and any faults, from
`CapacityAssumption` and `MaxListAssumption` (a network holds at least one piece, a
bound on lists is a number):

| Theorem | Property |
|---|---|
| `TypeCorrect` | `TypeOK`: bounds of both directions and of the header |
| `StaysInStep` | `InStep`: every `recv` gets the piece it is for |
| `WholeIsExecuted` | `ExecutesWhole`: no statement is executed in part |
| `PromptsClean` | `PromptIsClean`: nothing is left over at the prompt |

`TypeCorrect` needs `HeaderOK`: at the top of the loop at most one word is read.

The other three follow from **`StreamInv`**, which says at each point of both
programs what the whole stream still to come has to be. What the worker will get,
`Rest`, is what has arrived, then what is under way, then what the client has still
to send; where it stands decides what `Rest` is: the whole statement, the statement
without its type, or something that `wanted` reads to its end (`WorkerInStep`). The
same for the answer and the client (`ClientInStep`); and at rest there is nothing
(`AtRest`). `InStep` is not inductive without it: that the next piece is right does
not follow from the last one having been right.

"Reads to its end" is `Consumed(pieces, wants)`: there is a reading, which says what is
still wanted before each piece; the piece fits the first of it, and a count replaces
the want of a list by as many wants as it says. That what the client writes is
consumed by what the worker wants is then shown once per part of a statement
(`PayloadConsumed`, `ConditionConsumed`, `AnswersAreRead`), from lemmas on putting
readings together (`ConsumedConcat`, `ConsumedRepeat`). A death, a cut connection or
a string that is too long ends the reading, and never goes on with another one.

### TableFile

For any widths, letters and statements, from `WidthAssumption` (a field is a number
or has a width), `NumWidthAssumption`, `LettersAssumption`, `LongAssumption` (`put_num`
has room for every `long long`) and `StatementAssumption` (no white space in a value,
numbers as `to_string` writes them):

| Theorem | Property |
|---|---|
| `StaysAligned` | `Aligned`: the file and what DELETE keeps are whole records |
| `OnlyTheField` | `WritesInField`: UPDATE writes inside its field |
| `FieldsHoldWords` | each field of the file holds one word, filled up with blanks |
| `ImplementsTable` | `Relational`: a step that ends a statement is its whole effect and answer in `TableRows`, or a refusal of a number because of an older `errno`, which changes nothing |

**`FileInv`** adds to `Aligned` that a scan is inside the file and that a scanning
UPDATE has passed its checks. The proof is about offsets. `FieldsFit`: the fields lie
one behind the other in a record, none over another. `LineIsRecord`: in a file of
records the line behind a multiple of the length ends with the record; this needs
that the newline is where the record ends and nowhere else, which is why an UPDATE
that touched a newline would break everything after it. `RowType`: a word read from
a field is never longer than the line and has neither newline nor blank, unless the
whole line is blank, also when empty texts have moved the words. `FieldOverwritten`
puts a padded value at `back + Before[f]`: if the value is longer than the field,
`put_str` throws, and nothing is written.

**`TableInv`** is what the refinement needs besides. The code writes by offsets and
reads by words, and the two agree only if every field holds exactly one word:

* `Holds(file, rs)` says that the file has the rows `rs`: at every place of a field
  (`Place`) stands the character of its word or, behind it, a blank or the newline.
  `StoredIs` and `RowRead`: then the fields cut out at their offsets are `rs`, and so
  are the words of the lines, *if no word is empty* (`WordsAre`). `PlaceApart` (no two
  places are the same character) is what makes `HoldsOverwritten` true: a field that
  is written changes one word of one row.
* That the file holds rows is part of the invariant in every state, also where
  `Relational` claims nothing. A table with an empty text is misread, and an UPDATE
  then writes a word of another field, or a whole blank line; the rows must be sound
  again when the empty text is gone. `WrittenWord` shows they are: a blank line that
  fits a field leaves it empty, and a misread word becomes a numeral where there are
  numbers, which has room in the field (`NumberAgain`): `20 - str.size()` in `put_num`
  never wraps.
* `Scanned(k)`: after k records a scan has done what the statement means for the first
  k rows of `table`, and nothing to the others. It is claimed if no text of `table` is
  empty, and for SELECT if no field is named twice. That reading a numeral gives it
  back (`NumberAgain` too) is what makes the copy of a LONG the identity.
* `ErangeInv`: a number that is compared with is not refused behind the first record,
  and a number to set not after anything was changed. The first holds only where rows
  are read right: then every field of a LONG holds a numeral in range (`NotTooBig`),
  so that the scan itself never sets `errno` (`ScanKeepsErange`), and what it came with was looked at with
  the first record. The second holds for any rows: the first chosen record ends the
  UPDATE if `errno` is set, and a field that sets it later is one of the condition,
  whose number is then refused at once.

`ImplementsTable` follows: each action that ends a statement is its whole effect in
`TableRows` (`InsertServes`, `StartServes`, `ThrowServes`, `FinishServes`) or refuses
it with nothing changed (`ThrowServes`, `RefuseSetServes`), `Send` sends, and the
others stutter. `UpdateRow` needs an argument: `put_str` could throw
after earlier records were changed, and a statement that fails would have changed the
table. `WrittenFits` shows that it does not when no row is misread, from the widths
`UpdateLegal` compares. The theorem also covers empty tables, where a wrong condition
is not noticed, by the code and by `TableRows` alike. `TableInv` was checked with TLC
on the instance of `file_all` before it was proved.

### LikePattern

For patterns and texts of any length, from `PatternAssumption` (no quote inside, as
above) and `TextAssumption`:

| Theorem | Property |
|---|---|
| `LikeRight` | `LikeIsRight`: `like` says what the pattern means |
| `FreshCheckRight` | `FreshCheckIsRight`: the check accepts what is well formed, if nothing was unread |

Here the invariant (`LikeInv`: a result is that of `like` for an accepted, well formed
pattern) is the small part, and the algorithm the large one. Both sides are compared
from every place in the pattern, from its end to its beginning (`DownFrom`).

* `SetPlaces`, `MembersPlaces` and `PassesIsAdmits` bring sets and items, which
  `Matches` cuts out of the pattern, down to places, where the code looks. An item that
  begins at a place ends where `like` goes on behind it (`ItemPlaces`), so that there
  is at most one way to cut a pattern.
* `Reach` are the places in the text from which the rest can be cut along with the rest
  of the pattern; `CutFirst`, `CutMore`, `ReachFirst` and `ReachMore` take an item off
  and put it on. `StartsIsReach` compares one step of `like` with that. The case that
  needs an argument is `%`: the code never tries to give it the whole rest of the text
  unless the pattern ends there. `LastToo` shows that nothing is missed: if the rest of
  the pattern is content with nothing, it is with one character too.
* `SetRead` shows that the descent reads a set exactly where there is one, and
  `S1IsCuts` that it gets to the end exactly if the pattern can be cut.

### Induction over numbers

The proofs about lists and widths of any length need induction, and the library's
induction rules take a predicate as a parameter. `SequenceLemmas` gets it from
`WFMin` instead, which speaks of sets: `SetInduction` (a set with 0 and with the
successor of each of its numbers contains all numbers) and `UpTo`. With it a
recursive function is shown to have a solution (`BeforeExists`, `CutExists`,
`PickedExists`, `FlatteningExists`, `LikeExists`, `S1Exists`), and then to satisfy its
equation (`FlattenUnrolled`, `BeforeSteps`, `CutSteps`, `PickedSteps`,
`LikeUnrolled`, `S1Unrolled`). Nothing is assumed about them.

### Only model-checked

* Liveness: `Answered`, `AnsweredOrTold`, `EndsOrOrphaned`, `WorkerFollowsClient`.
  The prover has no rules for fairness.
* `Lexer`, `Condition`, `Request`, `WhereValue` and `ClientLine`:
  their operators are `RECURSIVE` like the descent they model, and no solver accepts
  a module with one.

## 5. What is not modelled, and why

* **Header of a table file**: written by CREATE, never changed, and read as it was
  written; `TableFile` starts behind it.
* **Failing system calls at start-up**: the process ends before anybody connects.
  Full disks and I/O errors inside statements are not modelled.
* **Number of descriptors**: they leak in the main process until `accept` fails; a
  model would restate that `close` is missing.
* **The server's `clear` functions** other than `where1::clear`: they empty a structure
  just before a statement is read into it; contents of strings on the wire are
  abstracted, so that `Connection` could not tell. `ClientLine` takes it that they work.
* **Byte order, padding and sizes of types** on the wire, printing, prompts and
  text of messages.

## 6. What could follow

1. `TableFile` with three rows and with expressions of `WhereValue` in SET, which
   needs a smaller set of statements than `file_all` has.
2. `WhereValue` with recursive functions, as the first step to a proof of
   `ChoosesAsWritten`.
