----------------------------- MODULE TableFile -----------------------------
(***************************************************************************)
(* The file of a table and the statements on it (Server/server.cpp), for   *)
(* the worker that holds the semaphore of the table.                       *)
(*                                                                         *)
(* After a header, which never changes, the file has one line per row.     *)
(* Every field is padded with blanks to its width and followed by one more *)
(* character, a blank or the newline. The code writes by offsets: it seeks *)
(* back by the length of a record and forward over the fields before the   *)
(* one to write. It reads by words: a line is split at its blanks.         *)
(*                                                                         *)
(* Numbers are read with strtoll, which notes in errno that one was too    *)
(* big. Only after a number of the statement itself is errno looked at, so *)
(* what a field has left there refuses a later number.                     *)
(*                                                                         *)
(* The file here is what follows the header.                               *)
(* Statements, values and conditions are those of TableRows.               *)
(***************************************************************************)
EXTENDS Integers, Sequences, SequencesExt, Subsequences

CONSTANTS
    Width,      \* head_map: the width of a TEXT field, -1 for a LONG
    NumWidth,   \* characters a number is padded to
    MaxLong,    \* the greatest long long, and the least, as to_string writes them
    MinLong,
    Statement,  \* the statements that arrive
    Letters,    \* the characters of texts, other than digits
    MaxRows     \* bound: rows that INSERT fills the table up to

ASSUME WidthAssumption ==
    /\ Width \in Seq(Int) /\ Width # <<>>
    /\ \A f \in DOMAIN Width : Width[f] = -1 \/ Width[f] > 0
ASSUME NumWidthAssumption == NumWidth \in Nat \ {0}
ASSUME MaxRowsAssumption  == MaxRows \in Nat

VARIABLES
    file,       \* the lines of the file
    pc,         \* "idle", or "scan" inside the loop over the records
    stmt,       \* the statement that is scanning
    fin,        \* where it reads: the number of characters before
    kept,       \* DELETE: tmp_file; SELECT: the rows it has so far
    erange,     \* errno of the worker is ERANGE
    answer,     \* the answer to the last statement, until it is sent
    table       \* history: the rows the last statement left, by their offsets

vars == <<file, pc, stmt, fin, kept, erange, answer, table>>

Blank   == " "
NewLine == "\n"
Digits  == {"0", "1", "2", "3", "4", "5", "6", "7", "8", "9"}

Character == Letters \cup Digits \cup {Blank}

ASSUME LettersAssumption == Blank \notin Letters /\ NewLine \notin Letters

\* The number a word begins with, as to_string writes it, however great it is: a
\* sign may come first, what follows the digits is ignored, and a word that does
\* not begin as a number is 0.
Numeral(word) ==
    LET first  == IF word[1] \in {"+", "-"} THEN 2 ELSE 1
        digits == {i \in first..Len(word) : \A j \in first..i : word[j] \in Digits}
        value  == {i \in digits : \E j \in first..i : word[j] # "0"}
        sign   == IF word[1] = "-" THEN <<"-">> ELSE <<>>
    IN  IF value = {} THEN <<"0">>
        ELSE sign \o SubSeq(word, Min(value), Max(value))

\* The order of two digits, and of two numerals with the same sign.
Greater(c, d) ==
    LET order == <<"0", "1", "2", "3", "4", "5", "6", "7", "8", "9">>
    IN  \E i, j \in DOMAIN order : i < j /\ order[i] = d /\ order[j] = c

Beyond(number, long) ==
    \/ Len(number) > Len(long)
    \/ /\ Len(number) = Len(long)
       /\ \E i \in DOMAIN long : /\ Greater(number[i], long[i])
                                /\ \A j \in 1..(i - 1) : number[j] = long[j]

\* The long long that is furthest on the side of a number.
Long(number) == IF number[1] = "-" THEN MinLong ELSE MaxLong

\* strtoll sets errno to ERANGE, which no later call that succeeds takes back.
TooBig(word) == Beyond(Numeral(word), Long(Numeral(word)))

\* What strtoll reads in a word and to_string makes of it: numbers that are too
\* big become the greatest or the least.
Number(word) == IF TooBig(word) THEN Long(Numeral(word)) ELSE Numeral(word)

IsNumeral(word) == word # <<>> /\ word = Number(word)

\* put_num has room for every long long.
ASSUME LongAssumption ==
    \A long \in {MaxLong, MinLong} :
        /\ long \in Seq(Letters \cup Digits) /\ long # <<>>
        /\ long = Numeral(long)
        /\ Len(long) <= NumWidth
        /\ long[1] = "-" <=> long = MinLong

\* A value has no white space in it: the client leaves it out when it reads the
\* line. A number is what to_string makes of a long long.
Literal == {v \in [num : BOOLEAN, word : Seq(Letters \cup Digits)] :
               v.num => IsNumeral(v.word)}

ASSUME StatementAssumption ==
    \A st \in Statement :
        /\ st.op \in {"insert", "select", "update", "delete"}
        /\ st.op = "insert" => st.values \in Seq(Literal)
        /\ st.op = "update" => st.value \in Literal
        /\ st.op = "select" => st.fields \in Seq(Nat)

Fields == 1..Len(Width)

IsNum(f) == Width[f] < 0

-----------------------------------------------------------------------------
(* Writing *)

Size(f) == IF IsNum(f) THEN NumWidth ELSE Width[f]

\* The length of the fields before field f; of a whole record.
Before[f \in 1..(Len(Width) + 1)] ==
    IF f = 1 THEN 0 ELSE Before[f - 1] + Size(f - 1) + 1

RecordLength == Before[Len(Width) + 1]

\* Mutant of Padded: a short text is not filled up.
PaddedNumsOnly(word, f) ==
    IF IsNum(f) THEN word \o [i \in 1..(Size(f) - Len(word)) |-> Blank] ELSE word

\* put_num and put_str.
Padded(word, f) == word \o [i \in 1..(Size(f) - Len(word)) |-> Blank]

\* The fields with a blank behind each, the last of which becomes a newline.
Record(values) ==
    LET line == FlattenSeq([f \in Fields |-> Append(Padded(values[f].word, f), Blank)])
    IN  [line EXCEPT ![Len(line)] = NewLine]

\* s put in the file after the first at characters.
Overwritten(at, s) ==
    [i \in DOMAIN file |->
        IF at < i /\ i <= at + Len(s) THEN s[i - at] ELSE file[i]]

-----------------------------------------------------------------------------
(* Reading *)

\* What getline reads when n characters are before it, and where it stops.
LineEnd(text, n) == CHOOSE i \in (n + 1)..Len(text) :
    text[i] = NewLine /\ \A j \in (n + 1)..(i - 1) : text[j] # NewLine

Line(text, n) == SubSeq(text, n + 1, LineEnd(text, n) - 1)

\* A line cut at its blanks, up to each of its characters: the words that have
\* ended, and the one that has not.
Cut(line) ==
    LET cut[i \in 0..Len(line)] ==
            IF i = 0 THEN [words |-> <<>>, word |-> <<>>]
            ELSE LET sofar == cut[i - 1]
                 IN  IF line[i] # Blank
                     THEN [sofar EXCEPT !.word = Append(@, line[i])]
                     ELSE IF sofar.word = <<>> THEN sofar
                     ELSE [words |-> Append(sofar.words, sofar.word), word |-> <<>>]
    IN  cut

Words(line) ==
    LET all == Append(line, Blank)
    IN  Cut(all)[Len(all)].words

\* read_next_map, read_next_vector: one word for each field. A blank field has
\* no word: what follows moves up, and the last fields get the last word again
\* (ss >> str leaves str alone), or the line itself when it is all blank.
Row(line) ==
    LET words == Words(line) IN
    [f \in Fields |-> IF f <= Len(words)  THEN words[f]
                      ELSE IF words = <<>> THEN line
                      ELSE Last(words)]

\* The number of characters before each line.
LineStarts(text) ==
    Pick([i \in DOMAIN text |-> i - 1],
         {i \in DOMAIN text : i = 1 \/ text[i - 1] = NewLine})

AllRows(text) ==
    [k \in DOMAIN LineStarts(text) |-> Row(Line(text, LineStarts(text)[k]))]

\* A field without the blanks that fill it up.
Held(field) == SubSeq(field, 1, Max({0} \cup {i \in DOMAIN field : field[i] # Blank}))

\* What the fields hold, whether it is read or not.
Stored(text) ==
    [k \in 1..(Len(text) \div RecordLength) |->
        [f \in Fields |->
            LET from == (k - 1) * RecordLength + Before[f]
            IN  Held(SubSeq(text, from + 1, from + Size(f)))]]

-----------------------------------------------------------------------------
(* Statements *)

\* An answer, with the statement it is for (history).
NoAnswer         == [to |-> [op |-> "none"], kind |-> "none", rows |-> <<>>]
Error(st)        == [to |-> st, kind |-> "error", rows |-> <<>>]
Answer(st, rows) == [to |-> st, kind |-> "rows", rows |-> rows]

Init ==
    /\ file = <<>> /\ pc = "idle" /\ stmt = <<>> /\ fin = 0 /\ kept = <<>>
    /\ erange = FALSE /\ answer = NoAnswer /\ table = <<>>

\* A statement ends, with an answer or with logic_error (also length_error).
End(a) ==
    /\ pc' = "idle" /\ answer' = a
    /\ stmt' = <<>> /\ fin' = 0 /\ kept' = <<>>
    /\ table' = Stored(file')

Fits(value, f) == value.num <=> IsNum(f)

\* The checks make_insert makes before it writes.
InsertLegal(st) ==
    /\ Len(Width) = Len(st.values)
    /\ \A f \in Fields : /\ Fits(st.values[f], f)
                         /\ st.values[f].num \/ Len(st.values[f].word) <= Width[f]

\* Mutant of UpdateLegal: the widths of two TEXT fields are not compared.
UpdateLegalAnyWidth(st) ==
    /\ st.field \in Fields
    /\ IF st.from # 0
       THEN st.from \in Fields /\ (IsNum(st.field) <=> IsNum(st.from))
       ELSE /\ Fits(st.value, st.field)
            /\ IsNum(st.field) \/ Len(st.value.word) <= Width[st.field]

\* The checks make_update and make_select make before they read.
UpdateLegal(st) ==
    /\ st.field \in Fields
    /\ IF st.from # 0
       THEN /\ st.from \in Fields
            /\ IsNum(st.field) <=> IsNum(st.from)
            /\ IsNum(st.field) \/ Width[st.field] >= Width[st.from]
       ELSE /\ Fits(st.value, st.field)
            /\ IsNum(st.field) \/ Len(st.value.word) <= Width[st.field]

SelectLegal(st) == \A i \in DOMAIN st.fields : st.fields[i] \in Fields

Ready == pc = "idle" /\ answer = NoAnswer

\* make_insert: append the record and read the table back.
Insert(st) ==
    /\ Ready /\ st.op = "insert"
    /\ UNCHANGED erange
    /\ IF InsertLegal(st)
       THEN /\ Len(AllRows(file)) < MaxRows
            /\ file' = file \o Record(st.values)
            /\ End(Answer(st, AllRows(file')))
       ELSE UNCHANGED file /\ End(Error(st))

\* make_select, make_update, make_delete up to their loop.
Start(st) ==
    /\ Ready /\ st.op # "insert"
    /\ UNCHANGED <<file, erange>>
    /\ IF \/ st.op = "update" /\ ~UpdateLegal(st)
          \/ st.op = "select" /\ ~SelectLegal(st)
       THEN End(Error(st))
       ELSE /\ pc' = "scan" /\ stmt' = st /\ fin' = 0 /\ kept' = <<>>
            /\ UNCHANGED <<answer, table>>

\* The worker sends the answer and clears it before the next statement.
Send ==
    /\ answer # NoAnswer
    /\ answer' = NoAnswer
    /\ UNCHANGED <<file, pc, stmt, fin, kept, erange, table>>

\* The next statement is for a worker with an errno of its own, or this worker
\* has worked on another table or had a call that failed.
Elsewhere ==
    /\ Ready
    /\ erange' = ~erange
    /\ UNCHANGED <<file, pc, stmt, fin, kept, answer, table>>

-----------------------------------------------------------------------------
(* The loop: while (!eof_in()) *)

row  == Row(Line(file, fin))
next == LineEnd(file, fin)

\* seek_back_in: by the length of a record from where the line ended.
back == next - RecordLength

\* The value of a field: a word, or the number it is read as.
Value(f) == IF IsNum(f) THEN Number(row[f]) ELSE row[f]

Scanning(op) == pc = "scan" /\ stmt.op = op /\ fin < Len(file)

\* choose of the condition: an unknown field and a wrong type are logic_error.
CondWrong == ~ \/ stmt.cond.field = 0
               \/ /\ stmt.cond.field \in Fields
                  /\ Fits(stmt.cond.value, stmt.cond.field)

\* errno once the field of the condition has been read.
AfterField ==
    \/ erange
    \/ /\ stmt.cond.field \in Fields /\ IsNum(stmt.cond.field)
       /\ TooBig(row[stmt.cond.field])

\* "Too big number", whether the number is or not.
CondRefused == stmt.cond.field # 0 /\ stmt.cond.value.num /\ AfterField

CondThrows == CondWrong \/ CondRefused

Chosen == stmt.cond.field # 0 => Value(stmt.cond.field) = stmt.cond.value.word

\* The first record shows that the condition is wrong; its number is refused at
\* the first or, when a field has been too big, at a later record. Whoever says
\* "Too big number" resets errno.
Throw ==
    /\ pc = "scan" /\ fin < Len(file)
    /\ CondThrows
    /\ UNCHANGED file
    /\ erange' = (CondWrong /\ AfterField)
    /\ End(Error(stmt))

\* The record is not chosen: SELECT and UPDATE pass over it.
Skip ==
    /\ Scanning("select") \/ Scanning("update")
    /\ ~CondThrows /\ ~Chosen
    /\ fin' = next
    /\ UNCHANGED <<file, pc, stmt, kept, erange, answer, table>>

\* Fields are moved out of the map: named again, they are empty.
SelectRow ==
    /\ Scanning("select")
    /\ ~CondThrows /\ Chosen
    /\ LET fs == stmt.fields
           picked == [i \in DOMAIN fs |->
                         IF \E j \in 1..(i - 1) : fs[j] = fs[i]
                         THEN <<>> ELSE row[fs[i]]]
       IN  kept' = Append(kept, IF fs = <<>> THEN row ELSE picked)
    /\ fin' = next
    /\ UNCHANGED <<file, pc, stmt, erange, answer, table>>

\* The number to set is refused for what errno holds.
SetRefused == erange /\ stmt.from = 0 /\ IsNum(stmt.field)

RefuseSet ==
    /\ Scanning("update")
    /\ ~CondThrows /\ Chosen
    /\ SetRefused
    /\ UNCHANGED file
    /\ erange' = FALSE
    /\ End(Error(stmt))

\* errno once the value to set is known.
AfterSet ==
    erange \/ (stmt.from # 0 /\ IsNum(stmt.field) /\ TooBig(row[stmt.from]))

\* Mutant of UpdateRow: set_on_field_out is left out.
UpdateRowFirstField ==
    LET word == IF stmt.from = 0 THEN stmt.value.word ELSE Value(stmt.from)
        f    == stmt.field
    IN
    /\ Scanning("update")
    /\ ~CondThrows /\ Chosen /\ ~SetRefused
    /\ erange' = AfterSet
    /\ IF Len(word) > Size(f)
       THEN UNCHANGED file /\ End(Error(stmt))
       ELSE /\ file' = Overwritten(back, Padded(word, f))
            /\ fin' = LineEnd(file, back)
            /\ UNCHANGED <<pc, stmt, kept, answer, table>>

\* The word to write, at the place of the field in the record that was read. A
\* word that is longer than the field is length_error, after earlier records
\* have been changed.
UpdateRow ==
    LET word == IF stmt.from = 0 THEN stmt.value.word ELSE Value(stmt.from)
        f    == stmt.field
    IN
    /\ Scanning("update")
    /\ ~CondThrows /\ Chosen /\ ~SetRefused
    /\ erange' = AfterSet
    /\ IF Len(word) > Size(f)
       THEN UNCHANGED file /\ End(Error(stmt))
       ELSE /\ file' = Overwritten(back + Before[f], Padded(word, f))
            /\ fin' = LineEnd(file, back)
            /\ UNCHANGED <<pc, stmt, kept, answer, table>>

\* DELETE copies the records that are not chosen to a temporary file.
DeleteRow ==
    /\ Scanning("delete")
    /\ ~CondThrows
    /\ kept' = IF Chosen THEN kept
               ELSE kept \o SubSeq(file, back + 1, LineEnd(file, back))
    /\ fin' = IF Chosen THEN next ELSE LineEnd(file, back)
    /\ UNCHANGED <<file, pc, stmt, erange, answer, table>>

\* The loop is over. DELETE truncates the file and copies the records back.
Finish ==
    /\ pc = "scan" /\ fin = Len(file)
    /\ file' = IF stmt.op = "delete" THEN kept ELSE file
    /\ UNCHANGED erange
    /\ End(Answer(stmt, IF stmt.op = "select" THEN kept ELSE AllRows(file')))

Next ==
    \/ \E st \in Statement : Insert(st) \/ Start(st)
    \/ Send \/ Elsewhere
    \/ Throw \/ Skip \/ SelectRow \/ RefuseSet \/ UpdateRow \/ DeleteRow \/ Finish

Spec == Init /\ [][Next]_vars

-----------------------------------------------------------------------------
(* Properties *)

\* Records of one length, each ended by the only newline in it.
Records(text) ==
    /\ Len(text) % RecordLength = 0
    /\ \A i \in DOMAIN text : text[i] = NewLine <=> i % RecordLength = 0

\* The file is made of records of one length, each ended by the only newline
\* in it; so is what DELETE keeps, and a scan stands between two records
\* (server.cpp:164-212).
Aligned ==
    /\ Records(file)
    /\ pc = "scan" => /\ fin % RecordLength = 0
                      /\ stmt.op = "delete" => Records(kept)

\* An UPDATE never touches a byte outside the field it sets, whatever the
\* fields hold (server.cpp:192-207, 528-567).
WritesInField ==
    [][file' # file /\ pc = "scan" /\ stmt.op = "update" =>
          /\ Len(file') = Len(file)
          /\ \A i \in DOMAIN file :
                file'[i] # file[i] =>
                    LET p == (i - 1) % RecordLength
                    IN  /\ Before[stmt.field] <= p
                        /\ p < Before[stmt.field] + Size(stmt.field)]_vars

\* The file and the answers are those of a table of rows: every statement has
\* the effect, and gets the answer, that TableRows gives it. The table takes the
\* effect as a whole, and a statement that fails has changed nothing. One that
\* has a number in it can be refused for the errno the worker has come with; it
\* too has changed nothing, and its own reading never sets errno. Left out are statements on or for a table with an empty text, whose rows are
\* misread, and a SELECT that names a field twice (server.cpp:106-162, 222-659).
Rows == INSTANCE TableRows WITH rows <- table

NoTextIsEmpty(rows) == \A k \in DOMAIN rows : <<>> \notin Range(rows[k])
NamesOnce(st) == st.op = "select" => IsInjective(st.fields)

\* The statement has a number that the worker converts.
HasNumber(st) ==
    \/ st.op # "insert" /\ st.cond.field # 0 /\ st.cond.value.num
    \/ st.op = "update" /\ st.from = 0 /\ st.value.num

\* A refusal for errno.
Refused ==
    /\ erange /\ answer = NoAnswer
    /\ \E st \in Statement : HasNumber(st) /\ answer' = Error(st)
    /\ UNCHANGED table

Relational ==
    /\ Rows!Init
    /\ [][/\ NoTextIsEmpty(table) /\ NoTextIsEmpty(table')
          /\ NamesOnce(answer'.to)
          => /\ Refused \/ [Rows!Next]_<<table, answer>>
             /\ pc = "scan" /\ erange' => erange]_vars

=============================================================================
