------------------------------- MODULE Values -------------------------------
(***************************************************************************)
(* How the MySQL driver writes and reads values (utils.go, packets.go,     *)
(* connection.go): length-encoded integers and strings, rows of the text   *)
(* and of the binary protocol, the execute packet with its long data,      *)
(* literals in a query, dates and times.  A byte is a number below 256 and *)
(* a byte slice a sequence.  What the server does with them (external)     *)
(* stands beside what it answers to.                                       *)
(***************************************************************************)
EXTENDS Integers, Sequences, FiniteSets, SequencesExt

Null == [kind |-> "null"]
Error == [kind |-> "error"]
Bytes(b) == [kind |-> "bytes", is |-> b]
Num(n) == [kind |-> "num", is |-> n]

Lesser(a, b) == IF a < b THEN a ELSE b
From(s, i) == SubSeq(s, i, Len(s))

\* Little-endian numbers below 2^31, in a field of w bytes.
ToBytes(n, w) == [i \in 1..w |-> IF i > 4 THEN 0 ELSE (n \div 256^(i - 1)) % 256]
Number(b) ==
  LET num[i \in 0..Len(b)] == IF i = 0 THEN 0 ELSE b[Len(b) + 1 - i] + 256 * num[i - 1]
  IN  num[Len(b)]

-----------------------------------------------------------------------------
(* Length-encoded integers and strings.                                    *)

\* appendLengthEncodedInteger: one, two, three or eight bytes.
AppendLength(n) ==
  IF n <= 250 THEN <<n>>
  ELSE IF n <= 65535 THEN <<252>> \o ToBytes(n, 2)
  ELSE IF n <= 16777215 THEN <<253>> \o ToBytes(n, 3)
  ELSE <<254>> \o ToBytes(n, 8)

\* The number of bytes that follow the first one.
Follow(first) == CASE first = 252 -> 2 [] first = 253 -> 3 [] first = 254 -> 8 [] OTHER -> 0

ReadLength(b) ==
  IF b = <<>> \/ b[1] = 251 THEN [num |-> 0, null |-> TRUE, n |-> 1]
  ELSE LET w == Follow(b[1]) IN
       [num |-> IF w = 0 THEN b[1] ELSE Number(SubSeq(b, 2, w + 1)), null |-> FALSE, n |-> w + 1]

AppendString(b) == AppendLength(Len(b)) \o b

\* An error when the slice is too short.
ReadString(b) ==
  LET l == ReadLength(b)
      n == l.n + l.num
  IN  [n |-> n, value |-> IF l.null THEN Null
                          ELSE IF Len(b) >= n THEN Bytes(SubSeq(b, l.n + 1, n)) ELSE Error]

\* A row of the text protocol as the server writes it.
TextRow(values) ==
  FlattenSeq([i \in DOMAIN values |-> IF values[i] = Null THEN <<251>> ELSE AppendString(values[i].is)])

\* One column more, unless there was an error.
NextText(data, row) ==
  LET s == ReadString(From(data, row.pos)) IN
  IF row.dest # <<>> /\ Last(row.dest) = Error THEN row
  ELSE [pos |-> row.pos + s.n, dest |-> Append(row.dest, s.value)]

ReadTextRow(data, columns) ==
  LET row[i \in 0..columns] == IF i = 0 THEN [pos |-> 1, dest |-> <<>>] ELSE NextText(data, row[i - 1])
  IN  row[columns].dest

-----------------------------------------------------------------------------
(* Binary rows.  A column is tiny or short, signed or not, or bytes.       *)

Bit(mask, k) == (mask[k \div 8 + 1] \div 2^(k % 8)) % 2 = 1

\* A bitmap of so many bytes with these bits set.
Bitmap(bits, bytes) ==
  [i \in 1..bytes |->
     LET F(k) == IF 8 * (i - 1) + k \in bits THEN 2^k ELSE 0
     IN  F(0) + F(1) + F(2) + F(3) + F(4) + F(5) + F(6) + F(7)]

\* The wider integers are read in the same way.
Width(type) == CASE type = "tiny" -> 1 [] type = "short" -> 2

\* Two's complement.
Signed(n, w) == IF n >= 2^(8 * w - 1) THEN n - 2^(8 * w) ELSE n
Unsigned(n, w) == IF n < 0 THEN n + 2^(8 * w) ELSE n

Nulls(values) == {i \in DOMAIN values : values[i] = Null}

\* As the server writes it; the first two bits are not used.
BinaryRow(cols, values) ==
  <<0>> \o Bitmap({i + 1 : i \in Nulls(values)}, (Len(cols) + 9) \div 8)
    \o FlattenSeq([i \in DOMAIN values |->
         CASE values[i] = Null -> <<>>
           [] values[i] # Null /\ cols[i].type = "bytes" -> AppendString(values[i].is)
           [] OTHER -> LET w == Width(cols[i].type) IN ToBytes(Unsigned(values[i].is, w), w)])

\* Mutant: the bitmap of a row read like that of an execute packet.
RowNullAt0(mask, i) == Bit(mask, i - 1)

RowNull(mask, i) == Bit(mask, i + 1)

ReadBinaryValue(col, b) ==
  IF col.type = "bytes" THEN ReadString(b)
  ELSE LET w == Width(col.type)
           n == Number(SubSeq(b, 1, w))
       IN  [value |-> Num(IF col.unsigned THEN n ELSE Signed(n, w)), n |-> w]

NextBinary(data, cols, mask, i, row) ==
  LET s == IF RowNull(mask, i) THEN [value |-> Null, n |-> 0]
           ELSE ReadBinaryValue(cols[i], From(data, row.pos))
  IN  [pos |-> row.pos + s.n, dest |-> Append(row.dest, s.value)]

ReadBinaryRow(data, cols) ==
  LET bytes == (Len(cols) + 9) \div 8
      mask  == SubSeq(data, 2, 1 + bytes)
      row[i \in 0..Len(cols)] == IF i = 0 THEN [pos |-> 2 + bytes, dest |-> <<>>]
                                 ELSE NextBinary(data, cols, mask, i, row[i - 1])
  IN  row[Len(cols)].dest

-----------------------------------------------------------------------------
(* Executing a statement.  Long strings go ahead of it in packets of at    *)
(* most maxAllowedPacket - 1 bytes.                                        *)

Offset == 7       \* the bytes before the data: command, statement, parameter

\* Mutant: as if the packet were all data.
NextPartByPacket(pktLen) == pktLen

\* By how much writeCommandLongData moves on in the argument.
NextPart(pktLen) == pktLen - Offset

\* The data of its packets, if maxAllowedPacket leaves room for any.
LongData(arg, maxAllowed) ==
  LET step == NextPart(maxAllowed - 1) IN
  [k \in 1..(Len(arg) + step - 1) \div step |->
     SubSeq(arg, (k - 1) * step + 1, Lesser(Len(arg), (k - 1) * step + maxAllowed - 1 - Offset))]

\* `least' is 64 in the code.
LongDataSize(count, maxAllowed, least) ==
  IF maxAllowed \div (count + 1) < least THEN least ELSE maxAllowed \div (count + 1)

\* What writeExecutePacket sends: packets of long data, then the execute packet.
ExecutePacket(args, maxAllowed, least) ==
  LET size == LongDataSize(Len(args), maxAllowed, least)
      long == {i \in DOMAIN args : args[i].kind = "bytes" /\ Len(args[i].is) >= size}
  IN  [long   |-> [i \in long |-> LongData(args[i].is, maxAllowed)],
       mask   |-> Bitmap({i - 1 : i \in Nulls(args)}, (Len(args) + 7) \div 8),
       types  |-> [i \in DOMAIN args |-> args[i].kind],
       values |-> FlattenSeq([i \in DOMAIN args |->
                    CASE i \in long \/ args[i] = Null -> <<>>
                      [] i \notin long /\ args[i].kind = "bytes" -> AppendString(args[i].is)
                      [] args[i].kind = "num" -> ToBytes(args[i].is, 8)])]

\* The length of the execute packet: command, statement, flags and count, then
\* the bitmap, a flag, the types and the values.  writePacket refuses it when it
\* is longer than maxAllowedPacket; the long data are sent by then.
PacketLength(packet) ==
  10 + Len(packet.values)
     + (IF packet.types = <<>> THEN 0 ELSE Len(packet.mask) + 1 + 2 * Len(packet.types))

\* The i-th argument that the server takes from them.
NextArgument(packet, i, row) ==
  LET b == From(packet.values, row.pos)
      s == IF Bit(packet.mask, i - 1) THEN [value |-> Null, n |-> 0]
           ELSE IF i \in DOMAIN packet.long THEN [value |-> Bytes(FlattenSeq(packet.long[i])), n |-> 0]
           ELSE IF packet.types[i] = "bytes" THEN ReadString(b)
           ELSE [value |-> Num(Number(SubSeq(b, 1, 8))), n |-> 8]
  IN  [pos |-> row.pos + s.n, dest |-> Append(row.dest, s.value)]

Executed(packet) ==
  LET row[i \in 0..Len(packet.types)] == IF i = 0 THEN [pos |-> 1, dest |-> <<>>]
                                         ELSE NextArgument(packet, i, row[i - 1])
  IN  row[Len(packet.types)].dest

-----------------------------------------------------------------------------
(* Literals.  Characters are strings of one character; "0", "n", "r" and   *)
(* "Z" stand after a backslash for the special ones.                       *)

Specials == [nul |-> "0", newline |-> "n", return |-> "r", sub |-> "Z"]
Quoted == {"'", "\"", "\\"}

\* What a character becomes in a literal, with backslashes and without.
EscapeBackslash(c) ==
  CASE c \in DOMAIN Specials -> <<"\\", Specials[c]>>
    [] c \in Quoted -> <<"\\", c>>
    [] OTHER -> <<c>>

EscapeQuotes(c) == IF c = "'" THEN <<"'", "'">> ELSE <<c>>

\* A literal, in the mode that the server's status flag says.
Literal(text, noBackslash) ==
  <<"'">> \o FlattenSeq([i \in DOMAIN text |->
               IF noBackslash THEN EscapeQuotes(text[i]) ELSE EscapeBackslash(text[i])]) \o <<"'">>

\* interpolateParams: one argument for each ?, whatever is in the arguments.
\* A query that grows past maxAllowedPacket is left to a prepared statement.
Interpolate(query, args, noBackslash, maxAllowed) ==
  LET marks(i) == Cardinality({k \in 1..i : query[k] = "?"})
      piece(i) == IF query[i] # "?" THEN <<query[i]>>
                  ELSE IF args[marks(i)] = Null THEN <<"NULL">>
                  ELSE Literal(args[marks(i)].is, noBackslash)
      upTo(n)  == FlattenSeq([i \in 1..n |-> piece(i)])
  IN  IF \/ marks(Len(query)) # Len(args)
         \/ \E i \in DOMAIN query :
              query[i] = "?" /\ args[marks(i)] # Null /\ Len(upTo(i)) + 4 > maxAllowed
      THEN Error ELSE Bytes(upTo(Len(query)))

\* How the server reads the literals of a query: a state machine over its
\* characters (external).
LexStep(s, c, noBackslash) ==
  CASE s.in = "query" /\ c = "'" -> [s EXCEPT !.in = "text", !.text = <<>>]
    [] s.in = "query" /\ c # "'" -> [s EXCEPT !.found = IF c = "NULL" THEN Append(@, Null) ELSE @]
    [] s.in = "text" /\ c = "\\" /\ ~noBackslash -> [s EXCEPT !.in = "escape"]
    [] s.in = "text" /\ c = "'" -> [s EXCEPT !.in = "quote"]
    [] s.in = "text" /\ c # "'" /\ (c # "\\" \/ noBackslash) -> [s EXCEPT !.text = Append(@, c)]
    [] s.in = "escape" ->
         [s EXCEPT !.in = "text",
                   !.text = Append(@, IF \E x \in DOMAIN Specials : Specials[x] = c
                                      THEN CHOOSE x \in DOMAIN Specials : Specials[x] = c ELSE c)]
    [] s.in = "quote" /\ c = "'" -> [s EXCEPT !.in = "text", !.text = Append(@, c)]
    [] s.in = "quote" /\ c # "'" ->
         [in |-> "query", text |-> <<>>,
          found |-> IF c = "NULL" THEN s.found \o <<Bytes(s.text), Null>>
                    ELSE Append(s.found, Bytes(s.text))]

\* Its state behind these characters.
LexFrom(s, chars, noBackslash) ==
  LET run[i \in 0..Len(chars)] == IF i = 0 THEN s ELSE LexStep(run[i - 1], chars[i], noBackslash)
  IN  run[Len(chars)]

Lex(query, noBackslash) ==
  LexFrom([in |-> "query", text |-> <<>>, found |-> <<>>], query \o <<"end">>, noBackslash).found

-----------------------------------------------------------------------------
(* Dates and times.  A packet has the fields year, month, day, then        *)
(* perhaps hour, minute, second, then perhaps microseconds.  A character   *)
(* is a digit or one of the separators.                                    *)

Dash == 10
Colon == 11
Space == 12
Point == 13

Lengths == {10, 19} \cup 21..26

Pair(n) == <<n \div 10, n % 10>>

\* Mutant: the last digits of the microseconds are those of the middle.
MicrosRepeated(us, decimals) ==
  IF decimals <= 0 THEN <<>>
  ELSE SubSeq(<<Point>> \o Pair(us \div 10000) \o Pair(us \div 100 % 100) \o Pair(us \div 100 % 100),
              1, decimals + 1)

Micros(us, decimals) ==
  IF decimals <= 0 THEN <<>>
  ELSE SubSeq(<<Point>> \o Pair(us \div 10000) \o Pair(us \div 100 % 100) \o Pair(us % 100), 1, decimals + 1)

Filled(src, n) == src \o [i \in 1..n - Len(src) |-> 0]

FormatDateTime(src, length) ==
  LET f == Filled(src, 7) IN
  IF src # <<>> /\ length \notin Lengths THEN Error
  ELSE Bytes(SubSeq(Pair(f[1] \div 100) \o Pair(f[1] % 100) \o <<Dash>> \o Pair(f[2]) \o <<Dash>> \o Pair(f[3])
                      \o <<Space>> \o Pair(f[4]) \o <<Colon>> \o Pair(f[5]) \o <<Colon>> \o Pair(f[6])
                      \o Micros(f[7], length - 20),
                    1, length))

Days(y, m) ==
  IF m = 2 THEN IF (y % 4 = 0 /\ y % 100 # 0) \/ y % 400 = 0 THEN 29 ELSE 28
  ELSE IF m \in {4, 6, 9, 11} THEN 30 ELSE 31

\* A date that time.Parse accepts; month and day are not zero.
IsDate(f) ==
  f[2] \in 1..12 /\ f[3] \in 1..Days(f[1], f[2]) /\ f[4] < 24 /\ f[5] < 60 /\ f[6] < 60

Zero == [kind |-> "zero"]
Time(f) == [kind |-> "time", is |-> f]

ParseDateTime(str) ==
  LET two(i) == IF i < Len(str) THEN 10 * str[i] + str[i + 1]
                ELSE IF i = Len(str) THEN 10 * str[i] ELSE 0
      f == <<100 * two(1) + two(3), two(6), two(9), two(12), two(15), two(18),
             10000 * two(21) + 100 * two(23) + two(25)>>
  IN  CASE Len(str) \notin Lengths -> Error
        [] Len(str) \in Lengths /\ f = Filled(<<>>, 7) -> Zero
        [] Len(str) \in Lengths /\ f # Filled(<<>>, 7) /\ ~IsDate(f) -> Error
        [] OTHER -> Time(f)

\* time.Date: month 0 is December of the year before, day 0 the last day of
\* the month before.
Normal(f) ==
  LET y == IF f[2] = 0 THEN f[1] - 1 ELSE f[1]
      m == IF f[2] = 0 THEN 12 ELSE f[2]
  IN  IF f[3] # 0 THEN <<y, m>> \o From(f, 3)
      ELSE IF m = 1 THEN <<y - 1, 12, 31>> \o From(f, 4)
      ELSE <<y, m - 1, Days(y, m - 1)>> \o From(f, 4)

ParseBinaryDateTime(src) ==
  CASE src = <<>> -> Zero
    [] Len(src) \in {3, 6, 7} -> Time(Normal(Filled(src, 7)))
    [] OTHER -> Error

\* strconv.AppendInt of 0 <= n < 10^6.
Digits(n) ==
  LET k == CHOOSE k \in 1..6 : n < 10^k /\ (k = 1 \/ n >= 10^(k - 1))
  IN  [i \in 1..k |-> (n \div 10^(k - i)) % 10]

Minus == 14

\* formatBinaryTime: the days count as hours.
FormatTime(src, length) ==
  LET f     == Filled(src, 6)
      hours == 24 * f[2] + f[3]
  IN  IF src # <<>> /\ length \notin {8} \cup 10..15 THEN Error
      ELSE Bytes((IF f[1] = 1 THEN <<Minus>> ELSE <<>>)
                   \o (IF hours >= 100 THEN Digits(hours) ELSE Pair(hours))
                   \o <<Colon>> \o Pair(f[4]) \o <<Colon>> \o Pair(f[5]) \o Micros(f[6], length - 9))

\* Which of its forms a column has in a packet: its trailing zeros are left
\* out (external).
Packed(f, sizes) ==
  LET fits == {n \in sizes : \A i \in n + 1..Len(f) : f[i] = 0}
  IN  SubSeq(f, 1, CHOOSE n \in fits : \A k \in fits : n <= k)

=============================================================================
