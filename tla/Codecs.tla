------------------------------- MODULE Codecs -------------------------------
(***************************************************************************)
(* What one side writes the other reads: the conversions of Values, Dsn    *)
(* and Framing put end to end.  A task is some input; its step runs it     *)
(* through the writer and the reader, and the properties compare the two   *)
(* ends.                                                                   *)
(***************************************************************************)
EXTENDS Values, Dsn, Framing

CONSTANTS
  Char,          \* the characters of the datagrams
  Letter,        \* the characters of the queries
  TextRows,      \* rows of the text protocol
  BinaryRows,    \* rows of the binary protocol, with their columns
  Executions,    \* arguments of prepared statements, and maxAllowedPacket
  Queries,       \* arguments of queries with two ?, the escape mode, maxAllowedPacket
  DateColumns,   \* dates, and the length of their column
  TimeColumns,   \* TIME values, and the length of their column
  Configs,       \* configurations
  Chats          \* a room, an id, a name and a text

Texts == [kind : {"bytes"}, is : {b \in Seq(0..255) : Len(b) <= 2147483647}]
Columns == [type : {"bytes", "tiny", "short"}, unsigned : BOOLEAN]

\* A number that a column holds up to `half', or up to its double without a sign.
Fits(v, unsigned, half) ==
  /\ v \in [kind : {"num"}, is : Int]
  /\ IF unsigned THEN 0 <= v.is /\ v.is < 2 * half ELSE -half <= v.is /\ v.is < half

\* What a column can hold.
Holds(col, v) ==
  \/ v = Null
  \/ col.type = "bytes" /\ v \in Texts
  \/ col.type = "tiny" /\ Fits(v, col.unsigned, 128)
  \/ col.type = "short" /\ Fits(v, col.unsigned, 32768)

\* The arguments of prepared statements, and those of interpolated queries.
Counts == [kind : {"num"}, is : {n \in Nat : n <= 2147483647}]
Args == {Null} \cup Texts \cup Counts
Strs == [kind : {"bytes"}, is : Seq(Letter)]

ASSUME CodecsAssumption ==
  /\ {"/", "0", "1", "3"} \subseteq Char
  /\ {"'", "\\", "0", "n", "r", "Z", "x", "y", "NULL", "end"} \subseteq Letter
  /\ TextRows \subseteq Seq({Null} \cup Texts)
  /\ \A r \in BinaryRows :
       /\ r.cols \in Seq(Columns)
       /\ r.row \in Seq({Null} \cup Texts \cup [kind : {"num"}, is : Int])
       /\ Len(r.row) = Len(r.cols)
       /\ \A i \in 1..Len(r.cols) : Holds(r.cols[i], r.row[i])
  /\ \A e \in Executions :
       /\ e.args \in Seq(Args)
       /\ e.max \in Nat /\ Offset + 1 < e.max
  /\ \A q \in Queries :
       /\ q.args \in Seq({Null} \cup Strs) /\ Len(q.args) = 2
       /\ q.nb \in BOOLEAN /\ q.max \in Nat
  /\ Chats \subseteq [room : Seq(Char), id : Seq(Char), name : Seq(Char), text : Seq(Char)]

VARIABLES task, done, result

vars == <<task, done, result>>

-----------------------------------------------------------------------------
(* The conversions, one after the other.                                   *)

Task(kind, in) == task = [kind |-> kind, in |-> in]

Init ==
  /\ done = FALSE
  /\ result = <<>>
  /\ \/ \E r \in TextRows : Task("text", r)
     \/ \E r \in BinaryRows : Task("binary", r)
     \/ \E e \in Executions : Task("execute", e)
     \/ \E q \in Queries : Task("query", q)
     \/ \E c \in DateColumns : Task("date", c)
     \/ \E c \in TimeColumns : Task("time", c)
     \/ \E c \in Configs : Task("dsn", c)
     \/ \E c \in Chats : Task("chat", c)

\* The step of a task of this kind.
Do(kind, out) ==
  /\ task.kind = kind
  /\ ~done
  /\ done' = TRUE
  /\ result' = out
  /\ UNCHANGED task

ReadText == Do("text", ReadTextRow(TextRow(task.in), Len(task.in)))

ReadBinary == Do("binary", ReadBinaryRow(BinaryRow(task.in.cols, task.in.row), task.in.cols))

Execute ==
  LET packet == ExecutePacket(task.in.args, task.in.max, 4)
      length == PacketLength(packet)
  IN  Do("execute", [args |-> IF length > task.in.max THEN <<>> ELSE Executed(packet),
                     length |-> length, long |-> packet.long])

Query ==
  LET query == Interpolate(<<"x", "?", "y", "?">>, task.in.args, task.in.nb, task.in.max) IN
  Do("query", IF query = Error THEN <<>> ELSE Lex(query.is, task.in.nb))

\* What a program gets from a column, from either protocol.
DateColumn ==
  LET src == Packed(task.in.f, {0, 3, 6, 7}) IN
  Do("date", [text   |-> ParseDateTime(FormatDateTime(src, task.in.length).is),
              binary |-> ParseBinaryDateTime(src)])

TimeColumn == Do("time", FormatTime(Packed(task.in.f, {0, 5, 6}), task.in.length).is)

Configure == Do("dsn", ParseDSN(FormatDSN(task.in)))

Talk ==
  LET c == task.in
      answer == ChatAnswer(ChatRequest(c.room, c.id, c.text), c.name)
  IN  Do("chat", [shown |-> ReadMsg(answer.bytes),
                  join  |-> Two(JoinRequest(c.room, c.id)),
                  quit  |-> Two(QuitRequest(c.id, c.room)),
                  login |-> Three(LoginRequest(c.id, c.name, c.text)),
                  again |-> Three(LoginRequest(c.id, c.room, c.text))])

Next == ReadText \/ ReadBinary \/ Execute \/ Query \/ DateColumn \/ TimeColumn \/ Configure \/ Talk

Spec == Init /\ [][Next]_vars

-----------------------------------------------------------------------------
(* Properties.                                                             *)

Done(kind) == done /\ task.kind = kind

\* A row is read as it was written.  In the text protocol: at every length at
\* which the length takes another form, with NULL apart from a string of 251
\* bytes (readLengthEncodedString, textRows.readRow).  In the binary one: the
\* bitmap of the NULLs starts two bits in, unlike that of an execute packet, and
\* the sign of a number depends on the column (binaryRows.readRow).
RowsIntact ==
  /\ Done("text") => result = task.in
  /\ Done("binary") => result = task.in.row

\* The length of a literal with every character escaped.
Longest(arg) == IF arg = Null THEN 1 ELSE 2 * Len(arg.is) + 2

\* The server gets the arguments of a statement.  A prepared one: however many
\* packets of long data an argument takes, none of them longer than
\* maxAllowedPacket allows, unless the execute packet itself is longer and is
\* refused (writeExecutePacket, writeCommandLongData, writePacket).  An
\* interpolated one: in the escape mode of the server no argument ends its
\* literal early or is taken for a placeholder, unless the query might get too
\* long and is left to a prepared statement (interpolateParams,
\* escapeBytesBackslash, escapeBytesQuotes).
ArgumentsArrive ==
  /\ Done("execute") =>
       /\ IF result.length > task.in.max THEN result.args = <<>> ELSE result.args = task.in.args
       /\ \A i \in DOMAIN result.long : \A k \in DOMAIN result.long[i] :
            Offset + Len(result.long[i][k]) < task.in.max
  /\ Done("query") =>
       \/ result = task.in.args
       \/ result = <<>> /\ 2 + Longest(task.in.args[1]) + Longest(task.in.args[2]) + 4 > task.in.max

\* A program gets the same date from both protocols.  Where month or day is
\* zero the text protocol fails; the other makes another date of it
\* (parseDateTime, parseBinaryDateTime).
DatesAgree ==
  LET f == task.in.f IN
  Done("date") =>
    IF f[1] # 0 /\ 0 \in {f[2], f[3]} THEN result.text = Error
    ELSE result.text = result.binary /\ (f[1] # 0 => result.text = Time(f))

\* TIME values, negative and of more than a day, are written with all their
\* hours, and with the decimals of their column (formatBinaryTime).
TimesIntact ==
  Done("time") =>
    LET f == task.in.f
        s == IF f[1] = 1 THEN From(result, 2) ELSE result
        k == Len(s) - (IF task.in.length = 8 THEN 6 ELSE task.in.length - 2)
        number(t) == FoldLeft(LAMBDA acc, d : 10 * acc + d, 0, t)
    IN  /\ f[1] = 1 => result[1] = Minus
        /\ number(SubSeq(s, 1, k)) = 24 * f[2] + f[3]
        /\ number(SubSeq(s, k + 2, k + 3)) = f[4] /\ number(SubSeq(s, k + 5, k + 6)) = f[5]
        /\ task.in.length = 15 => number(SubSeq(s, k + 8, k + 13)) = f[6]

\* Dates and times reach the program (formatBinaryDateTime, formatBinaryTime).
TemporalsIntact == DatesAgree /\ TimesIntact

\* What is written of an address with '@': ParseDSN looks for the last '@' before
\* the last '/', and takes the first part of the address for the password.
Misread(c) == c.net # <<>> /\ At(c.addr, "@") # {}

\* A configuration survives the data source name, whatever is in its password;
\* of the incomplete ones only what the name cannot say is lost: a password
\* without a user, an address without a network (FormatDSN, ParseDSN).  An
\* address with '@' does not survive, but is refused; only when a '(' comes
\* behind the '@', what follows it is taken for the address.  To normalise the
\* result once more changes nothing: a connector made from it dials the same
\* address (normalize, ensureHavePort).
DsnRoundTrip ==
  LET c == task.in IN
  Done("dsn") =>
    /\ ~Misread(c) => result = Normalize([c EXCEPT !.passwd = IF c.user = <<>> THEN <<>> ELSE @,
                                                   !.addr = IF c.net = <<>> THEN <<>> ELSE @])
    /\ Misread(c) => \/ result = Invalid
                     \/ At(After(c.addr, LastAt(c.addr, "@")), "(") # {}
    /\ result # Invalid => Normalize(result) = result

\* No '/' in any of the texts: each is a field of its own.
SlashFree == \A s \in {task.in.room, task.in.id, task.in.name, task.in.text} : Slashes(s) = {}

\* Where no text has a '/', the others are shown the message, its author and the
\* room as typed, but for white space (GET_MSG_CODE, read_msg).  With one the
\* fields are cut elsewhere, or there are too many of them.
ChatIntact ==
  SlashFree =>
    result.shown = [id |-> CompressStr(task.in.id), msg |-> CompressStr(task.in.text),
                    name |-> task.in.name, room |-> CompressStr(task.in.room)]

\* A user leaves the room he joined, where neither text has a '/': the two
\* requests carry room and user in opposite orders (GET_INTO_ROM, QUIT_THE_ROOM).
QuitsWhatWasJoined ==
  SlashFree => result.join.first = result.quit.last /\ result.join.last = result.quit.first

\* A login finds the id and the password that the sign-up stored, whatever
\* '/' is in the password and in either name (SIGNIN_CODE, LOGIN_CODE).
SameCredentials ==
  Slashes(task.in.id) = {} =>
    result.login.first = result.again.first /\ result.login.last = result.again.last

\* Client and server cut the same fields out of a datagram: of a message and of
\* the joining and leaving of a room when no text has a '/', of sign-up and
\* login whatever '/' the password and the names have.
FieldsIntact ==
  Done("chat") => ChatIntact /\ QuitsWhatWasJoined /\ SameCredentials

=============================================================================
