------------------------------ MODULE PacketIO ------------------------------
(***************************************************************************)
(* Packets of the MySQL driver: the two-slice buffer of buffer.go, and     *)
(* readPacket and writePacket, which split payloads of MaxPacket bytes or  *)
(* more.  Slices of the buffer are given away without a copy, so arrays    *)
(* have an identity and `mem' holds their content.  A cell is one byte of  *)
(* a payload, or a whole header (four bytes in the code, one cell here).   *)
(* The caller reads the rows of an answer one by one, keeping the last row *)
(* that it got, may close them early, and then sends the next command.     *)
(***************************************************************************)
EXTENDS Naturals, Sequences, FiniteSets, SequencesExt

CONSTANTS
  MaxPacket,        \* payload limit of one packet (2^24 - 1)
  DefaultSize,      \* defaultBufSize (4096)
  MaxCached,        \* maxCachedBufSize (256 KiB)
  Answers,          \* the answers: sequences of row lengths
  Commands,         \* the lengths of commands
  MaxAnswers        \* bound: answers in a behaviour

ASSUME PacketIOAssumption ==
  /\ MaxPacket \in Nat \ {0} /\ DefaultSize \in Nat \ {0} /\ MaxCached \in Nat
  /\ Answers \subseteq Seq(Nat) /\ Commands \subseteq Nat /\ MaxAnswers \in Nat \ {0}

VARIABLES
  mem,        \* content of the arrays allocated so far, by identity
  buffer,     \* mc.buf: arr (b.buf), idx, length, dbuf, flip (flipcnt & 1)
  wire,       \* cells sent by the server and not read from the socket
  answer,     \* the row lengths of the current answer
  first,      \* the sequence number of its first packet
  answers,    \* number of answers
  reader,     \* the goroutine that reads: what it does, and prevData
  sequence,   \* mc.sequence
  held,       \* the row that the caller looks at
  writer,     \* the command being written
  got         \* cells the server has received of it

vars == <<mem, buffer, wire, answer, first, answers, reader, sequence, held, writer, got>>

-----------------------------------------------------------------------------
(* The wire format.                                                        *)

Header(len, seq) == [len |-> len, seq |-> seq]
Part(msg, from, n) == [i \in 1..n |-> [msg |-> msg, at |-> from + i]]
Payload(msg, n) == Part(msg, 0, n)
Unset == [msg |-> 0, at |-> 0]
Array(n) == [i \in 1..n |-> Unset]
Lesser(a, b) == IF a < b THEN a ELSE b

\* The packets of a payload, from its byte from + 1 on: behind one of MaxPacket
\* bytes comes another, maybe empty, and behind the last one comes the rest.
Packets(msg, len, rest) ==
  LET packets[from \in 0..len] ==
        [seq \in Nat |->
          LET size == Lesser(MaxPacket, len - from)
          IN  <<Header(size, seq)>> \o Part(msg, from, size)
                \o (IF size = MaxPacket THEN packets[from + size][seq + 1] ELSE rest[seq + 1])]
  IN  packets

\* The rows of an answer from the k-th on, whose sequence numbers go on.
Rows(lens) ==
  LET rows[k \in 1..Len(lens) + 1] ==
        [seq \in Nat |-> IF k > Len(lens) THEN <<>> ELSE Packets(k, lens[k], rows[k + 1])[0][seq]]
  IN  rows

AllRows(lens, seq) == Rows(lens)[1][seq]
NoMore == [seq \in Nat |-> <<>>]
AsFramed(len) == Packets(0, len, NoMore)[0][0]

-----------------------------------------------------------------------------
(* buffer.go.                                                              *)

\* The size of a new array: the next multiple of the default that is larger.
RoundUp(need) == (need \div DefaultSize + 1) * DefaultSize

\* copy(dest[:n], b.buf[b.idx:])
Move(from, dest) == [i \in DOMAIN dest |-> IF i <= Len(from) THEN from[i] ELSE dest[i]]

\* fill: any number of bytes may come, as long as `need' are there in the end.
Fill(need) ==
  LET b      == buffer
      old    == b.dbuf[b.flip + 1]
      size   == IF old = 0 THEN 0 ELSE Len(mem[old])
      grow   == need > size
      arr    == IF grow THEN Len(mem) + 1 ELSE old
      dest   == IF grow THEN Array(RoundUp(need)) ELSE mem[old]
      moved  == Move(SubSeq(mem[b.arr], b.idx + 1, b.idx + b.length), dest)
      Data(n) == [i \in DOMAIN moved |-> IF i \in b.length + 1..n THEN wire[i - b.length] ELSE moved[i]]
  IN  {[mem  |-> IF grow THEN Append(mem, Data(n)) ELSE [mem EXCEPT ![arr] = Data(n)],
        buf  |-> [b EXCEPT !.arr = arr, !.idx = 0, !.length = n,
                           !.dbuf[b.flip + 1] = IF grow /\ Len(dest) <= MaxCached THEN arr ELSE old],
        wire |-> SubSeq(wire, n - b.length + 1, Len(wire))]
         : n \in need..Lesser(Len(dest), b.length + Len(wire))}

\* Mutant: what came with the bytes that were needed is dropped.
ReadNextAlone(need) ==
  {[mem |-> s.mem, wire |-> s.wire,
    buf |-> [s.buf EXCEPT !.idx = @ + need, !.length = 0],
    slice |-> [arr |-> s.buf.arr, from |-> s.buf.idx, len |-> need]]
     : s \in IF buffer.length >= need THEN {[mem |-> mem, buf |-> buffer, wire |-> wire]}
             ELSE Fill(need)}

\* readNext: what it may leave, with the slice that it returns.
ReadNext(need) ==
  {[mem |-> s.mem, wire |-> s.wire,
    buf |-> [s.buf EXCEPT !.idx = @ + need, !.length = @ - need],
    slice |-> [arr |-> s.buf.arr, from |-> s.buf.idx, len |-> need]]
     : s \in IF buffer.length >= need THEN {[mem |-> mem, buf |-> buffer, wire |-> wire]}
             ELSE Fill(need)}

Took(s) == mem' = s.mem /\ buffer' = s.buf /\ wire' = s.wire
Read(s) == SubSeq(s.mem[s.slice.arr], s.slice.from + 1, s.slice.from + s.slice.len)

-----------------------------------------------------------------------------
Nothing == [msg |-> 0, arr |-> 0, from |-> 0, len |-> 0, copy |-> <<>>]
NoWrite == [at |-> "none", arr |-> 0, off |-> 0, len |-> 0, left |-> 0]

\* newBuffer; the server has the first answer on its way.
Init ==
  /\ mem = <<Array(DefaultSize)>>
  /\ buffer = [arr |-> 1, idx |-> 0, length |-> 0, dbuf |-> <<1, 0>>, flip |-> 0]
  /\ answer \in Answers /\ answers = 1
  /\ first = 1 /\ wire = AllRows(answer, first)
  /\ reader = [does |-> "idle", msg |-> 0, need |-> 0, prev |-> <<>>]
  /\ sequence = 1
  /\ held = Nothing /\ writer = NoWrite /\ got = <<>>

Idle == reader.does = "idle" /\ writer.at = "none"

\* Rows.Next: what the caller had is given up.
RowsNext ==
  /\ Idle /\ reader.msg < Len(answer)
  /\ reader' = [reader EXCEPT !.does = "next"]
  /\ held' = Nothing
  /\ UNCHANGED <<mem, buffer, wire, answer, first, answers, sequence, writer, got>>

\* Mutants: Close does not flip; the counter is not taken modulo 2.
FlipNever(b) == b
FlipOn(b) == [b EXCEPT !.flip = @ + 1]

Flip(b) == [b EXCEPT !.flip = 1 - @]

\* Rows.Close with unread rows; the caller may still look at the last one.
CloseRows ==
  /\ Idle /\ reader.msg < Len(answer)
  /\ buffer' = Flip(buffer)
  /\ reader' = [reader EXCEPT !.does = "skip"]
  /\ UNCHANGED <<mem, wire, answer, first, answers, sequence, held, writer, got>>

\* A packet is read: to the caller, or dropped on the way to the last one.
Return(row) ==
  /\ reader' = [does |-> IF reader.does = "skip" /\ reader.msg + 1 < Len(answer) THEN "skip" ELSE "idle",
                msg |-> reader.msg + 1, need |-> 0, prev |-> <<>>]
  /\ held' = IF reader.does = "next" THEN row ELSE held

\* append(prevData, data...)
Join(prev, part) == prev \o part

Row(slice, copy) ==
  [msg |-> reader.msg + 1, arr |-> slice.arr, from |-> slice.from, len |-> slice.len, copy |-> copy]

\* readPacket, the header.
ReadHeader ==
  /\ reader.does \in {"next", "skip"} /\ reader.need = 0
  /\ \E s \in ReadNext(1) :
       LET header == Read(s)[1] IN
       /\ Took(s)
       /\ header.seq = sequence /\ sequence' = sequence + 1
       /\ IF header.len = 0
          THEN reader.prev # <<>> /\ Return([Row(s.slice, reader.prev) EXCEPT !.arr = 0])
          ELSE reader' = [reader EXCEPT !.need = header.len] /\ UNCHANGED held
  /\ UNCHANGED <<answer, first, answers, writer, got>>

\* readPacket, the body.
ReadBody ==
  /\ reader.need > 0
  /\ \E s \in ReadNext(reader.need) :
       /\ Took(s)
       /\ IF reader.need < MaxPacket
          THEN Return(IF reader.prev = <<>> THEN Row(s.slice, <<>>)
                      ELSE [Row(s.slice, Join(reader.prev, Read(s))) EXCEPT !.arr = 0])
          ELSE /\ reader' = [reader EXCEPT !.need = 0, !.prev = Join(@, Read(s))]
               /\ UNCHANGED held
  /\ UNCHANGED <<answer, first, answers, sequence, writer, got>>

-----------------------------------------------------------------------------
(* Commands.                                                               *)

\* takeBuffer, takeSmallBuffer (length at most DefaultSize), and
\* takeCompleteBuffer with store when the data have outgrown it.  Each gives an
\* array, and the buffer and the memory after it.
TakeBuffer(length) ==
  IF length <= Len(mem[buffer.arr]) THEN [arr |-> buffer.arr, keep |-> TRUE, new |-> FALSE]
  ELSE [arr |-> Len(mem) + 1, keep |-> length < MaxPacket, new |-> TRUE]

StoreBuffer(length) ==
  IF length <= Len(mem[buffer.arr]) THEN [arr |-> buffer.arr, keep |-> TRUE, new |-> FALSE]
  ELSE [arr |-> Len(mem) + 1, keep |-> length <= MaxPacket, new |-> TRUE]

\* The payload is put behind room for the header.
Put(array, n) == [i \in DOMAIN array |-> IF i \in 2..n + 1 THEN [msg |-> 0, at |-> i - 1] ELSE array[i]]

\* writeCommandPacket... and writeExecutePacket when all rows are read.
Command(n) ==
  /\ Idle /\ reader.msg = Len(answer)
  /\ buffer.length = 0
  /\ \E t \in {TakeBuffer(n + 1), StoreBuffer(n + 1)}
              \cup (IF n < DefaultSize THEN {[arr |-> buffer.arr, keep |-> TRUE, new |-> FALSE]} ELSE {}) :
       LET array == Put(IF t.new THEN Array(n + 1) ELSE mem[t.arr], n) IN
       /\ mem' = IF t.new THEN Append(mem, array) ELSE [mem EXCEPT ![t.arr] = array]
       /\ buffer' = IF t.keep THEN [buffer EXCEPT !.arr = t.arr] ELSE buffer
       /\ writer' = [at |-> "write", arr |-> t.arr, off |-> 0, len |-> n, left |-> n]
  /\ sequence' = 0
  /\ got' = <<>> /\ held' = Nothing
  /\ UNCHANGED <<wire, answer, first, answers, reader>>

\* Mutant: the loop ends when nothing is left.
MoreIfLeft(size) == writer.left > size

\* The packet was full, so another one follows.
More(size) == size = MaxPacket

\* The other condition, pktLen == len(data)-4, is meant for the first packet and
\* holds for each.
NothingWritten(n) == n = 0

\* One round of the loop in writePacket.
WritePacket ==
  /\ writer.at = "write"
  /\ LET size  == Lesser(writer.left, MaxPacket)
         array == [mem[writer.arr] EXCEPT ![writer.off + 1] = Header(size, sequence)]
         cells == SubSeq(array, writer.off + 1, writer.off + 1 + size)
     IN
     /\ mem' = [mem EXCEPT ![writer.arr] = array]
     /\ \/ /\ got' = got \o cells
           /\ sequence' = sequence + 1
           /\ writer' = IF More(size)
                        THEN [writer EXCEPT !.off = @ + size, !.left = @ - size]
                        ELSE [writer EXCEPT !.at = "ok", !.left = 0]
        \/ \E n \in 0..size + 1 :      \* an error, after n cells
             /\ got' = got \o SubSeq(cells, 1, n)
             /\ writer' = [writer EXCEPT !.at = IF NothingWritten(n) THEN "noWrite" ELSE "invalid"]
             /\ UNCHANGED sequence
  /\ UNCHANGED <<buffer, wire, answer, first, answers, reader, held>>

\* The server has the command and answers; its packets are numbered on from
\* those of the command.
Answer ==
  /\ writer.at = "ok" /\ answers < MaxAnswers
  /\ answer' \in Answers /\ answers' = answers + 1
  /\ first' = sequence /\ wire' = AllRows(answer', first')
  /\ reader' = [reader EXCEPT !.msg = 0]
  /\ writer' = NoWrite /\ got' = <<>>
  /\ UNCHANGED <<mem, buffer, sequence, held>>

Next ==
  \/ RowsNext \/ CloseRows \/ ReadHeader \/ ReadBody \/ WritePacket \/ Answer
  \/ \E n \in Commands : Command(n)

Spec == Init /\ [][Next]_vars

-----------------------------------------------------------------------------
(* Properties.                                                             *)

Unread == SubSeq(mem[buffer.arr], buffer.idx + 1, buffer.idx + buffer.length) \o wire

\* takeSmallBuffer takes its bytes without looking: the buffer never gets smaller
\* than it was made, and what it holds is inside it.
TypeOK ==
  /\ Len(mem[buffer.arr]) >= DefaultSize
  /\ buffer.arr \in DOMAIN mem /\ buffer.flip \in 0..1
  /\ buffer.idx + buffer.length <= Len(mem[buffer.arr])
  /\ buffer.dbuf \in Seq(0..Len(mem)) /\ Len(buffer.dbuf) = 2
  /\ answer \in Answers /\ answers \in 1..MaxAnswers
  /\ reader.does \in {"idle", "next", "skip"} /\ reader.msg \in 0..Len(answer)
  /\ reader.need \in 0..MaxPacket /\ sequence \in Nat /\ first \in Nat
  /\ writer.at \in {"none", "write", "ok", "noWrite", "invalid"}

\* The row that the caller looks at is what the server sent, from Next until the
\* Next after it, and until Close has read all the rest: the slice is not
\* overwritten, however the bytes arrive (rows.go:114, "flip the buffer for this
\* connection if we need to drain it").
RowIntact ==
  held.msg # 0 =>
    (IF held.arr = 0 THEN held.copy ELSE SubSeq(mem[held.arr], held.from + 1, held.from + held.len))
      = Payload(held.msg, answer[held.msg])

\* No byte is lost, repeated or moved between the socket and the reader: what is
\* in the buffer and on the wire is the rest of the answer, and it starts with
\* the header that the reader expects.
InStep ==
  writer.at = "none" =>
    /\ LET all == AllRows(answer, first) IN
       Unread = SubSeq(all, Len(all) - Len(Unread) + 1, Len(all))
    /\ reader.does # "idle" =>
         /\ Unread # <<>>
         /\ reader.need = 0 => \E n \in 0..MaxPacket : Unread[1] = Header(n, sequence)

\* A command that was written has reached the server as the protocol frames it:
\* also at multiples of MaxPacket, and though each header overwrites the end of
\* the part sent before it.  One reported as not written, and so tried again on
\* another connection, is never one that the server has completely.
WrittenAsFramed ==
  /\ writer.at = "ok" => got = AsFramed(writer.len)
  /\ writer.at = "noWrite" => got # AsFramed(writer.len)

=============================================================================
