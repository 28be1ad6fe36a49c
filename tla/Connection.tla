----------------------------- MODULE Connection -----------------------------
(***************************************************************************)
(* One connection of a client (Client/main.cpp) to its worker              *)
(* (Server/main.cpp): what each sends, what the other expects, and who     *)
(* keeps the connection open.                                              *)
(*                                                                         *)
(* Nothing on the wire is tagged: an int announces the length of a string  *)
(* or of a list, and the reader knows from what it has read what comes     *)
(* next. One missing or surplus piece shifts everything that follows. A    *)
(* piece is what one send sends; strings are abstracted to their length.   *)
(*                                                                         *)
(* The kernel completes a connection as long as any process has the         *)
(* listening socket open: the main process, and every worker, which        *)
(* inherits it; but only the main process accepts it. It then has the      *)
(* descriptor of the connection open until it ends, and so has every       *)
(* worker forked later.                                                    *)
(***************************************************************************)
EXTENDS Integers, Sequences, SequencesExt

CONSTANTS
    Capacity,   \* pieces the network holds in each direction
    MaxList,    \* longest list in a statement or an answer
    Faults      \* what may happen: see below

ASSUME CapacityAssumption == Capacity \in Nat \ {0}
ASSUME MaxListAssumption  == MaxList \in Nat \ {0}
ASSUME FaultsAssumption   ==
    Faults \subseteq {"close",  \* the user closes the client at any moment
                      "die",    \* the worker ends while it executes
                      "stop",   \* the main process ends, workers go on
                      "kill",   \* the same, but it is killed
                      "ctrlc"}  \* every process of the server is told to end

VARIABLES
    client,     \* "start", "prompt", "sending", "waiting" for the answer, or "gone"
    statement,  \* parser::type, type_where and the lengths of its lists
    toSend,     \* pieces of the statement the client has not sent
    awaited,    \* what the client still has to read of the answer
    worker,     \* "none" yet, "top" of its loop, "reading", "execute", "answering", "gone"
    header,     \* type and type_where as the worker has read them
    wanted,     \* what the worker still has to read of the statement
    answer,     \* pieces of the answer the worker has not sent
    up, down,   \* pieces on their way to the worker, to the client
    copies,     \* other processes that have the connection open or, before it
                \* is accepted, the listening socket: "main" and other workers
                \* ("later")
    ctrlC,      \* Ctrl+C was pressed
    garbled     \* a recv found something else than it was for

clientVars == <<client, statement, toSend, awaited>>
workerVars == <<worker, header, wanted, answer>>
serverVars == <<copies, ctrlC>>
vars == <<clientVars, workerVars, up, down, serverVars, garbled>>

-----------------------------------------------------------------------------
(* Pieces, and what is expected of them *)

Word(v)  == <<[sort |-> "int", val |-> v]>>
Num      == <<[sort |-> "num", val |-> 0]>>
Bool     == <<[sort |-> "bool", val |-> 0]>>
Bytes(n) == IF n = 0 THEN <<>> ELSE <<[sort |-> "bytes", val |-> n]>>

Repeat(s, n)    == FlattenSeq([i \in 1..n |-> s])
Str(n)          == Word(n) \o Bytes(n)
Listed(n, item) == Word(n) \o Repeat(item, n)

\* Lengths of a name, of a cell of the answer and of an error message; a cell
\* can be empty. They differ from the lengths of lists.
Name      == Str(20)
CellSizes == {0, 21}
Message   == Str(22)

\* What a reader wants next: one piece of a sort, a string, the bytes that
\* remain of one, or a list of wants.
Want(sort)   == <<[want |-> sort]>>
WantStr      == Want("string")
WantBytes(n) == IF n = 0 THEN <<>> ELSE <<[want |-> "bytes", len |-> n]>>
WantList(of) == <<[want |-> "list", of |-> of]>>

\* What is wanted after piece p was read for the first want of ws.
After(p, ws) ==
    CASE Head(ws).want = "string" -> WantBytes(p.val) \o Tail(ws)
      [] Head(ws).want = "list"   -> Repeat(Head(ws).of, p.val) \o Tail(ws)
      [] OTHER                    -> Tail(ws)

\* Piece p is what a recv for the first want of ws is for.
Fits(p, ws) ==
    CASE Head(ws).want \in {"string", "list"} -> p.sort = "int"
      [] Head(ws).want = "bytes" -> p.sort = "bytes" /\ p.val = Head(ws).len
      [] OTHER                   -> p.sort = Head(ws).want

-----------------------------------------------------------------------------
(* Statements *)

\* type: 1 SELECT, 2 INSERT, 3 UPDATE, 4 DELETE, 5 CREATE, 6 DROP.
\* where: 1 LIKE, 2 IN, 3 a logic expression, 4 ALL, 0 when there is none.
\* a, b: lengths of the lists of the statement; e, f, g: of its condition.
Statements ==
    {st \in [type : 1..6, where : 0..4, a : 0..MaxList, b : 0..MaxList,
             e : 0..MaxList, f : 0..MaxList, g : 0..MaxList] :
        /\ st.where = 0 <=> st.type \in {2, 5, 6}
        /\ st.type \in {4, 6} => st.a = 0
        /\ st.type = 3 => st.a > 0
        /\ st.type = 5 => st.a > 0
        /\ st.b > 0 => st.type = 2
        /\ st.type = 2 => st.a + st.b > 0
        /\ st.where \in {2, 3} <=> st.e > 0
        /\ st.where = 2 <=> st.f + st.g > 0
        /\ st.f = 0 \/ st.g = 0}

\* What the client sends of a statement after its type and type_where.
PayloadOf(st) ==
    CASE st.type = 1 -> Name \o Listed(st.a, Name)
      [] st.type = 2 -> Name \o Listed(st.a, Name) \o Listed(st.b, Num)
                             \o Listed(st.a + st.b, Word(1))
      [] st.type = 3 -> Name \o Name \o Listed(st.a, Name)
      [] st.type = 4 -> Name
      [] st.type = 5 -> Name \o Listed(st.a, Name \o Num)
      [] st.type = 6 -> Name

ConditionOf(st) ==
    CASE st.where = 1 -> Name \o Bool \o Name
      [] st.where = 2 -> Listed(st.e, Name) \o Bool \o Listed(st.f, Name)
                                            \o Listed(st.g, Num)
      [] st.where = 3 -> Listed(st.e, Name)
      [] OTHER        -> <<>>

\* Mutant of PayloadWanted: the numbers of an INSERT are not read.
PayloadWantedNoNumbers(type) ==
    CASE type = 1 -> WantStr \o WantList(WantStr)
      [] type = 2 -> WantStr \o WantList(WantStr) \o WantList(Want("int"))
      [] type = 3 -> WantStr \o WantStr \o WantList(WantStr)
      [] type = 4 -> WantStr
      [] type = 5 -> WantStr \o WantList(WantStr \o Want("num"))
      [] OTHER    -> WantStr

\* What the worker reads for a type and a type_where.
PayloadWanted(type) ==
    CASE type = 1 -> WantStr \o WantList(WantStr)
      [] type = 2 -> WantStr \o WantList(WantStr) \o WantList(Want("num"))
                             \o WantList(Want("int"))
      [] type = 3 -> WantStr \o WantStr \o WantList(WantStr)
      [] type = 4 -> WantStr
      [] type = 5 -> WantStr \o WantList(WantStr \o Want("num"))
      [] OTHER    -> WantStr

ConditionWanted(where) ==
    CASE where = 1 -> WantStr \o Want("bool") \o WantStr
      [] where = 2 -> WantList(WantStr) \o Want("bool") \o WantList(WantStr)
                                        \o WantList(Want("num"))
      [] where = 3 -> WantList(WantStr)
      [] OTHER     -> <<>>

\* The answer: an error, or what the statement yields: nothing for CREATE and
\* DROP, otherwise the sizes of the columns and the rows, the first of which
\* has the names of the columns.
ErrorAnswer == Word(-1) \o Message

Answers(type) ==
    IF type \in {5, 6} THEN {Word(0)}
    ELSE {Word(0) \o Listed(n, Num) \o Listed(m, Listed(n, Str(l))) :
              n \in 1..MaxList, m \in 1..MaxList, l \in CellSizes}

\* Mutant of AnswerWanted: the rows are not read.
AnswerWantedNoRows(err, type) ==
    IF err = -1 THEN WantStr
    ELSE IF type \in {5, 6} THEN <<>>
    ELSE WantList(Want("num"))

\* What the client reads after the error code, by the type of its statement.
AnswerWanted(err, type) ==
    IF err = -1 THEN WantStr
    ELSE IF type \in {5, 6} THEN <<>>
    ELSE WantList(Want("num")) \o WantList(WantList(WantStr))

-----------------------------------------------------------------------------
(* The connection *)

Init ==
    /\ client = "start" /\ statement = <<>> /\ toSend = <<>> /\ awaited = <<>>
    /\ worker = "none" /\ header = <<>> /\ wanted = <<>> /\ answer = <<>>
    /\ up = <<>> /\ down = <<>>
    /\ copies = {"main"} /\ ctrlC = FALSE
    /\ garbled = FALSE

\* The last descriptor of the server's end is closed, or that of the socket in
\* whose queue the connection is: the client sees it.
ServerClosed == worker \in {"none", "gone"} /\ copies = {}

\* exit, or soc.reset() and the destructor of the socket: the client leaves
\* this connection. What it has sent still arrives; statement and toSend keep
\* what it meant to send and what it did not.
ClientLeaves ==
    /\ client' = "gone"
    /\ awaited' = <<>>
    /\ UNCHANGED <<statement, toSend>>

\* exit and signals alike: the destructor of the socket is not run.
WorkerEnds ==
    /\ worker' = "gone"
    /\ header' = <<>> /\ wanted' = <<>> /\ answer' = <<>>

-----------------------------------------------------------------------------
(* The client *)

\* The kernel completes the connection while anybody has the listening socket
\* open, and refuses it otherwise; then the client exits.
Connect ==
    /\ client = "start"
    /\ IF copies # {}
       THEN client' = "prompt" /\ UNCHANGED <<statement, toSend, awaited>>
       ELSE ClientLeaves
    /\ UNCHANGED <<workerVars, up, down, serverVars, garbled>>

\* The parser accepts a statement.
Enter(st) ==
    /\ client = "prompt"
    /\ client' = "sending"
    /\ statement' = st
    /\ toSend' = Word(st.type) \o Word(st.where) \o PayloadOf(st) \o ConditionOf(st)
    /\ UNCHANGED <<awaited, workerVars, up, down, serverVars, garbled>>

\* "exit", or the end of the input.
Quit ==
    /\ client = "prompt"
    /\ ClientLeaves
    /\ UNCHANGED <<workerVars, up, down, serverVars, garbled>>

\* The user closes the client in the middle of a statement.
Closed ==
    /\ "close" \in Faults
    /\ client \in {"sending", "waiting"}
    /\ ClientLeaves
    /\ UNCHANGED <<workerVars, up, down, serverVars, garbled>>

ClientSend ==
    /\ client = "sending"
    /\ toSend # <<>>
    /\ ~ServerClosed
    /\ Len(up) < Capacity
    /\ up' = Append(up, Head(toSend))
    /\ toSend' = Tail(toSend)
    /\ UNCHANGED <<client, statement, awaited, workerVars, down, serverVars,
                   garbled>>

\* The statement is sent; the answer starts with an error code.
ClientSent ==
    /\ client = "sending"
    /\ toSend = <<>>
    /\ client' = "waiting"
    /\ awaited' = Want("code")
    /\ UNCHANGED <<statement, toSend, workerVars, up, down, serverVars, garbled>>

\* A string is longer than a million characters: the client gives up before
\* it sends its length, and starts again with a new connection.
TooLong ==
    /\ client = "sending"
    /\ Len(toSend) > 1
    /\ toSend[2].sort = "bytes"
    /\ ClientLeaves
    /\ UNCHANGED <<workerVars, up, down, serverVars, garbled>>

\* send fails.
ClientSendFails ==
    /\ client = "sending"
    /\ toSend # <<>>
    /\ ServerClosed
    /\ ClientLeaves
    /\ UNCHANGED <<workerVars, up, down, serverVars, garbled>>

ClientRecv ==
    /\ client = "waiting"
    /\ awaited # <<>>
    /\ down # <<>>
    /\ LET p == Head(down) IN
       IF Head(awaited).want = "code"
       THEN /\ awaited' = AnswerWanted(p.val, statement.type)
            /\ garbled' = (garbled \/ p.sort # "int" \/ p.val \notin {-1, 0})
       ELSE /\ awaited' = IF Fits(p, awaited) THEN After(p, awaited) ELSE <<>>
            /\ garbled' = (garbled \/ ~Fits(p, awaited))
    /\ down' = Tail(down)
    /\ UNCHANGED <<client, statement, toSend, workerVars, up, serverVars>>

\* The answer is read: back to the prompt.
ClientRead ==
    /\ client = "waiting"
    /\ awaited = <<>>
    /\ client' = "prompt"
    /\ statement' = <<>>
    /\ UNCHANGED <<toSend, awaited, workerVars, up, down, serverVars, garbled>>

\* recv gets less than it asked for: "Error on server occurred. Try to repeat
\* your request later". The client exits, or starts again with a new
\* connection.
ClientTold ==
    /\ client = "waiting"
    /\ awaited # <<>>
    /\ down = <<>>
    /\ ServerClosed
    /\ ClientLeaves
    /\ UNCHANGED <<workerVars, up, down, serverVars, garbled>>

-----------------------------------------------------------------------------
(* The worker *)

\* The type, then type_where; a recv that gets less than it asked for ends the
\* worker (RecvFails).
RecvHeader ==
    /\ worker = "top"
    /\ up # <<>>
    /\ header' = Append(header, Head(up).val)
    /\ garbled' = (garbled \/ Head(up).sort # "int")
    /\ up' = Tail(up)
    /\ IF header = <<>>
          THEN UNCHANGED <<worker, wanted>>
          ELSE /\ worker' = "reading"
               /\ wanted' = PayloadWanted(header[1]) \o ConditionWanted(Head(up).val)
    /\ UNCHANGED <<clientVars, answer, down, serverVars>>

Recv ==
    /\ worker = "reading"
    /\ wanted # <<>>
    /\ up # <<>>
    /\ LET p == Head(up) IN
       /\ wanted' = IF Fits(p, wanted) THEN After(p, wanted) ELSE <<>>
       /\ garbled' = (garbled \/ ~Fits(p, wanted))
    /\ up' = Tail(up)
    /\ UNCHANGED <<clientVars, worker, header, answer, down, serverVars>>

\* Mutants of RecvFails: what was read is taken for the whole statement; the
\* result of recv is looked at only at the top of the loop.
RecvFailsExecuted ==
    /\ worker = "reading" /\ wanted # <<>>
    /\ up = <<>>
    /\ client = "gone"
    /\ worker' = "execute"
    /\ wanted' = <<>>
    /\ UNCHANGED <<clientVars, header, answer, up, down, serverVars, garbled>>

RecvFailsTopOnly ==
    /\ worker = "top"
    /\ up = <<>>
    /\ client = "gone"
    /\ WorkerEnds
    /\ UNCHANGED <<clientVars, up, down, serverVars, garbled>>

\* exit(0) at the top of the loop, exit(4) inside a statement.
RecvFails ==
    /\ worker = "top" \/ (worker = "reading" /\ wanted # <<>>)
    /\ up = <<>>
    /\ client = "gone"
    /\ WorkerEnds
    /\ UNCHANGED <<clientVars, up, down, serverVars, garbled>>

\* Mutant of Complete: a rejected pattern is not answered.
CompleteSilent ==
    /\ worker = "reading"
    /\ wanted = <<>>
    /\ \/ /\ worker' = "execute"
          /\ UNCHANGED header
       \/ /\ header[2] = 1
          /\ worker' = "top"
          /\ header' = <<>>
    /\ UNCHANGED <<clientVars, wanted, answer, up, down, serverVars, garbled>>

\* The statement is read; check_str may reject the pattern of a LIKE.
Complete ==
    /\ worker = "reading"
    /\ wanted = <<>>
    /\ \/ /\ worker' = "execute"
          /\ UNCHANGED answer
       \/ /\ header[2] = 1
          /\ worker' = "answering"
          /\ answer' = ErrorAnswer
    /\ UNCHANGED <<clientVars, header, wanted, up, down, serverVars, garbled>>

\* The statement is executed: see Workers.
Execute ==
    /\ worker = "execute"
    /\ answer' \in Answers(header[1]) \cup {ErrorAnswer}
    /\ worker' = "answering"
    /\ UNCHANGED <<clientVars, header, wanted, up, down, serverVars, garbled>>

\* exit(1) or SIGFPE in the middle of a statement.
Fail ==
    /\ "die" \in Faults
    /\ worker = "execute"
    /\ WorkerEnds
    /\ UNCHANGED <<clientVars, up, down, serverVars, garbled>>

WorkerSend ==
    /\ worker = "answering"
    /\ answer # <<>>
    /\ client # "gone"
    /\ Len(down) < Capacity
    /\ down' = Append(down, Head(answer))
    /\ answer' = Tail(answer)
    /\ UNCHANGED <<clientVars, worker, header, wanted, up, serverVars, garbled>>

\* Mutant of WorkerSent: the header of the last statement stays.
WorkerSentKeepsHeader ==
    /\ worker = "answering"
    /\ answer = <<>>
    /\ worker' = "top"
    /\ UNCHANGED <<clientVars, header, wanted, answer, up, down, serverVars,
                   garbled>>

\* Back to the top of the loop.
WorkerSent ==
    /\ worker = "answering"
    /\ answer = <<>>
    /\ worker' = "top"
    /\ header' = <<>>
    /\ UNCHANGED <<clientVars, wanted, answer, up, down, serverVars, garbled>>

\* SIGPIPE, or system_error: there is nobody to answer.
WorkerSendFails ==
    /\ worker = "answering"
    /\ answer # <<>>
    /\ client = "gone"
    /\ WorkerEnds
    /\ UNCHANGED <<clientVars, up, down, serverVars, garbled>>

-----------------------------------------------------------------------------
(* The other processes of the server *)

\* accept and fork: this connection gets its worker. A worker forked before has
\* the listening socket, but not the connection.
Accept ==
    /\ worker = "none" /\ client # "start"
    /\ "main" \in copies /\ ~ctrlC
    /\ worker' = "top"
    /\ copies' = {"main"}
    /\ UNCHANGED <<clientVars, header, wanted, answer, up, down, ctrlC, garbled>>

\* The same for another connection: the new worker inherits every open
\* descriptor.
ForkLater ==
    /\ "main" \in copies /\ ~ctrlC
    /\ copies' = copies \cup {"later"}
    /\ UNCHANGED <<clientVars, workerVars, up, down, ctrlC, garbled>>

LaterEnds ==
    /\ "later" \in copies
    /\ copies' = copies \ {"later"}
    /\ UNCHANGED <<clientVars, workerVars, up, down, ctrlC, garbled>>

\* The handler in the main process: shutdown closes the listening socket for all
\* who have it, and with it the connections that are not accepted.
WithoutMain == IF worker = "none" THEN {} ELSE copies \ {"main"}

\* SIGINT for the main process alone.
MainEnds ==
    /\ "stop" \in Faults
    /\ "main" \in copies
    /\ copies' = WithoutMain
    /\ UNCHANGED <<clientVars, workerVars, up, down, ctrlC, garbled>>

\* SIGKILL for the main process.
KillMain ==
    /\ "kill" \in Faults
    /\ "main" \in copies
    /\ copies' = copies \ {"main"}
    /\ UNCHANGED <<clientVars, workerVars, up, down, ctrlC, garbled>>

CtrlC ==
    /\ "ctrlc" \in Faults
    /\ ~ctrlC
    /\ ctrlC' = TRUE
    /\ UNCHANGED <<clientVars, workerVars, up, down, copies, garbled>>

\* The handler ends a process.
Interrupted ==
    /\ ctrlC
    /\ \/ /\ worker \notin {"none", "gone"}
          /\ WorkerEnds
          /\ UNCHANGED copies
       \/ /\ \/ "main" \in copies /\ copies' = WithoutMain
             \/ "later" \in copies /\ copies' = copies \ {"later"}
          /\ UNCHANGED workerVars
    /\ UNCHANGED <<clientVars, up, down, ctrlC, garbled>>

-----------------------------------------------------------------------------
ClientStep ==
    \/ ClientSend \/ ClientSent \/ TooLong \/ ClientSendFails
    \/ ClientRecv \/ ClientRead \/ ClientTold

WorkerStep ==
    \/ RecvHeader \/ Recv \/ RecvFails \/ Complete \/ Execute \/ Fail
    \/ WorkerSend \/ WorkerSent \/ WorkerSendFails

Next ==
    \/ \E st \in Statements : Enter(st)
    \/ Connect \/ Quit \/ Closed
    \/ ClientStep \/ WorkerStep
    \/ Accept \/ ForkLater \/ LaterEnds \/ MainEnds \/ KillMain \/ CtrlC \/ Interrupted

Spec == Init /\ [][Next]_vars

\* All programs run on, and a signal that was sent is delivered. Nobody has to
\* type a statement, to stop the server or to connect. That a worker runs on
\* takes it that the statement it executes ends, which Workers is about: a worker
\* that waits for a semaphore nobody gives back never comes so far.
FairSpec ==
    /\ Spec
    /\ WF_vars(ClientStep) /\ WF_vars(WorkerStep) /\ WF_vars(Accept)
    /\ WF_vars(Interrupted)

-----------------------------------------------------------------------------
(* Properties *)

\* Every variable stays in its range; the network holds no more than it can.
TypeOK ==
    /\ client \in {"start", "prompt", "sending", "waiting", "gone"}
    /\ worker \in {"none", "top", "reading", "execute", "answering", "gone"}
    /\ Len(up) <= Capacity /\ Len(down) <= Capacity
    /\ Len(header) <= 2
    /\ copies \subseteq {"main", "later"}
    /\ ctrlC \in BOOLEAN

\* Every recv gets the piece it is for, on both sides: the programs never
\* disagree on where in the stream they are (Client/main.cpp:116-417,
\* Server/main.cpp:154-344, 397-415).
InStep == ~garbled

\* A worker executes a statement only when it has all of it, and it is the
\* statement the client sent: a statement cut off by a string that is too long
\* is never executed (Client/main.cpp:340-347, Server/main.cpp:346-350).
ExecutesWhole ==
    worker = "execute" =>
        /\ up = <<>> /\ toSend = <<>>
        /\ header = <<statement.type, statement.where>>

\* When the client prompts for the next statement, nothing of the last one is
\* left under way: no answer is taken for another's.
PromptIsClean ==
    client = "prompt" =>
        /\ up = <<>> /\ down = <<>>
        /\ answer = <<>> /\ worker \in {"none", "top", "answering", "gone"}

\* A client that waits for an answer gets one, or is told that there will be
\* none (Client/socket.cpp:190-193, Client/main.cpp:421-428).
AnsweredOrTold == client = "waiting" ~> client # "waiting"

\* Nobody will ever read what the client sends, nor close its connection: the
\* worker has ended, or there is nobody to accept, and other processes live on.
Orphaned ==
    /\ copies # {}
    /\ \/ worker = "gone"
       \/ worker = "none" /\ "main" \notin copies

\* Whatever ends on the server's side, a statement comes to its end: answered, or
\* the user told; as long as workers do not wait for a semaphore for ever, only
\* an orphaned client hangs (Server/main.cpp:122-161,
\* Client/main.cpp:332-428).
EndsOrOrphaned ==
    client \in {"sending", "waiting"} ~> client \in {"prompt", "gone"} \/ Orphaned

\* A worker does not outlive its client, unless nobody accepts the client, as
\* long as it does not wait for a semaphore for ever (Server/main.cpp:157-161, 346-350).
WorkerFollowsClient ==
    client = "gone" ~> worker = "gone" \/ (worker = "none" /\ "main" \notin copies)

=============================================================================
