--------------------------- MODULE PacketIOProofs ---------------------------
(***************************************************************************)
(* The packets of the driver arrive, for every packet limit, buffer size,  *)
(* answer and command.  First the lemmas on the wire format: the recursive *)
(* functions of PacketIO exist, unfold and have the right type, each by a  *)
(* smallest counterexample.  Then those on sequences and on the buffer:    *)
(* fill and readNext keep what is still to be read, and leave the array    *)
(* alone that is not flipped to.  Then the invariant, one lemma for each   *)
(* action, and the theorems.                                               *)
(***************************************************************************)
EXTENDS PacketIO, TLAPS, SequenceTheorems, WellFoundedInduction

\* What an array is made of, and what can be sent from each sequence number on.
Cell == [len : Nat, seq : Nat] \cup [msg : Nat, at : Nat]
Sent == [Nat -> Seq(Cell)]

Packet(msg, len, rest, packets, from) ==
  [seq \in Nat |->
    LET size == Lesser(MaxPacket, len - from)
    IN  <<Header(size, seq)>> \o Part(msg, from, size)
          \o (IF size = MaxPacket THEN packets[from + size][seq + 1] ELSE rest[seq + 1])]

\* f holds the packets behind each byte from the one after lo on.
From(f, lo, msg, len, rest) == f = [from \in lo..len |-> Packet(msg, len, rest, f, from)]

LEMMA PacketLocal ==
  ASSUME NEW msg, NEW len \in Nat, NEW rest, NEW f, NEW g, NEW from \in 0..len,
         \A i \in from + 1..len : f[i] = g[i]
  PROVE  Packet(msg, len, rest, f, from) = Packet(msg, len, rest, g, from)
<1>1. Lesser(MaxPacket, len - from) = MaxPacket => from + Lesser(MaxPacket, len - from) \in from + 1..len
  BY PacketIOAssumption DEF Lesser
<1>. QED
  BY <1>1 DEF Packet

LEMMA PacketsExist ==
  ASSUME NEW msg, NEW len \in Nat, NEW rest, NEW m \in Nat, m <= len
  PROVE  \E g : From(g, len - m, msg, len, rest)
<1>. DEFINE Good(n) == n <= len => \E g : From(g, len - n, msg, len, rest)
            Bad == {n \in Nat : ~Good(n)}
<1>1. Good(0)
  <2>. DEFINE g == [from \in (len - 0)..len |-> Packet(msg, len, rest, <<>>, from)]
  <2>1. \A from \in (len - 0)..len : Packet(msg, len, rest, <<>>, from) = Packet(msg, len, rest, g, from)
    <3>1. TAKE from \in (len - 0)..len
    <3>2. from \in 0..len /\ \A i \in from + 1..len : <<>>[i] = g[i]
      BY <3>1
    <3>. QED
      BY <3>2, PacketLocal
  <2>2. g = [from \in (len - 0)..len |-> Packet(msg, len, rest, g, from)]
    BY <2>1
  <2>. QED
    BY <2>2 DEF From
<1>2. ASSUME NEW n \in Nat, Good(n)
      PROVE  Good(n + 1)
  <2>1. SUFFICES ASSUME n + 1 <= len
                 PROVE  \E g : From(g, len - (n + 1), msg, len, rest)
    OBVIOUS
  <2>2. PICK f : f = [from \in (len - n)..len |-> Packet(msg, len, rest, f, from)]
    BY <2>1, <1>2 DEF From
  <2>. DEFINE g == [from \in (len - (n + 1))..len |-> Packet(msg, len, rest, f, from)]
  <2>3. \A from \in (len - n)..len : g[from] = f[from]
    BY <2>2
  <2>4. \A from \in (len - (n + 1))..len : Packet(msg, len, rest, f, from) = Packet(msg, len, rest, g, from)
    <3>1. TAKE from \in (len - (n + 1))..len
    <3>2. from \in 0..len /\ \A i \in from + 1..len : i \in (len - n)..len
      BY <2>1
    <3>3. \A i \in from + 1..len : f[i] = g[i]
      BY <3>2, <2>3
    <3>. HIDE DEF g
    <3>. QED
      BY <3>2, <3>3, PacketLocal
  <2>5. g = [from \in (len - (n + 1))..len |-> Packet(msg, len, rest, g, from)]
    BY <2>4
  <2>. QED
    BY <2>5 DEF From
<1>3. Bad = {}
  <2>1. SUFFICES ASSUME Bad # {} PROVE FALSE
    OBVIOUS
  <2>2. PICK n \in Bad : \A k \in Bad : ~(<<k, n>> \in OpToRel(<, Nat))
    BY <2>1, NatLessThanWellFounded, WFMin, Zenon
  <2>3. n \in Nat /\ ~Good(n)
    BY <2>2
  <2>. HIDE DEF Good
  <2>4. n # 0
    BY <2>3, <1>1
  <2>5. n - 1 \in Nat /\ n - 1 < n /\ (n - 1) + 1 = n
    BY <2>3, <2>4
  <2>6. Good(n - 1)
    BY <2>2, <2>3, <2>5 DEF OpToRel
  <2>. QED
    BY <2>3, <2>5, <2>6, <1>2
<1>. QED
  BY <1>3

LEMMA PacketsUnfold ==
  ASSUME NEW msg, NEW len \in Nat, NEW rest
  PROVE  Packets(msg, len, rest) =
           [from \in 0..len |-> Packet(msg, len, rest, Packets(msg, len, rest), from)]
<1>1. Packets(msg, len, rest) = CHOOSE f : From(f, 0, msg, len, rest)
  BY DEF Packets, Packet, From
<1>2. PICK f : From(f, len - len, msg, len, rest)
  <2>1. len <= len
    OBVIOUS
  <2>2. \A m \in Nat : m <= len => \E g : From(g, len - m, msg, len, rest)
    BY PacketsExist
  <2>. QED
    BY <2>1, <2>2, Zenon
<1>3. len - len = 0
  OBVIOUS
<1>4. From(Packets(msg, len, rest), 0, msg, len, rest)
  BY <1>1, <1>2, <1>3
<1>. QED
  BY <1>4 DEF From

LEMMA CellsTyped ==
  /\ \A size, seq \in Nat : Header(size, seq) \in Cell /\ <<Header(size, seq)>> \in Seq(Cell)
  /\ \A msg, from, n \in Nat : Part(msg, from, n) \in Seq(Cell) /\ Len(Part(msg, from, n)) = n
  /\ Unset \in Cell /\ \A n \in Nat : Array(n) \in Seq(Cell) /\ Len(Array(n)) = n
  /\ NoMore \in Sent
<1>1. \A size, seq \in Nat : Header(size, seq) \in Cell
  BY DEF Header, Cell
<1>2. \A size, seq \in Nat : <<Header(size, seq)>> \in Seq(Cell)
  BY <1>1
<1>3. \A msg, from, n \in Nat : Part(msg, from, n) \in [1..n -> Cell]
  BY DEF Part, Cell
<1>4. \A msg, from, n \in Nat : Part(msg, from, n) \in Seq(Cell) /\ Len(Part(msg, from, n)) = n
  BY <1>3, SeqDef, LenProperties
<1>5. Unset \in Cell
  BY DEF Unset, Cell
<1>6. \A n \in Nat : Array(n) \in [1..n -> Cell]
  BY <1>5 DEF Array
<1>7. \A n \in Nat : Array(n) \in Seq(Cell) /\ Len(Array(n)) = n
  BY <1>6, SeqDef, LenProperties
<1>8. NoMore \in Sent
  BY DEF NoMore, Sent
<1>. QED
  BY <1>1, <1>2, <1>4, <1>5, <1>7, <1>8

\* What is sent from a byte on is a packet of that size and what follows it.
Unfolds(msg, len, rest, from, seq, size) ==
  Packets(msg, len, rest)[from][seq] =
    <<Header(size, seq)>> \o Part(msg, from, size)
      \o (IF size = MaxPacket THEN Packets(msg, len, rest)[from + size][seq + 1] ELSE rest[seq + 1])

LEMMA PacketsAt ==
  ASSUME NEW msg, NEW len \in Nat, NEW rest, NEW from \in 0..len, NEW seq \in Nat
  PROVE  Unfolds(msg, len, rest, from, seq, Lesser(MaxPacket, len - from))
<1>1. Packets(msg, len, rest)[from] = Packet(msg, len, rest, Packets(msg, len, rest), from)
  BY PacketsUnfold
<1>. QED
  BY <1>1 DEF Packet, Unfolds

LEMMA PacketSize ==
  ASSUME NEW len \in Nat, NEW from \in 0..len
  PROVE  /\ Lesser(MaxPacket, len - from) \in 0..MaxPacket
         /\ Lesser(MaxPacket, len - from) \in Nat
         /\ from + Lesser(MaxPacket, len - from) \in 0..len
         /\ Lesser(MaxPacket, len - from) = MaxPacket => from + Lesser(MaxPacket, len - from) > from
         /\ Lesser(MaxPacket, len - from) # MaxPacket => from + Lesser(MaxPacket, len - from) = len
         /\ Lesser(MaxPacket, len - from) = 0 <=> from = len
  BY PacketIOAssumption DEF Lesser

LEMMA PacketsTyped ==
  ASSUME NEW msg \in Nat, NEW len \in Nat, NEW rest \in Sent
  PROVE  \A from \in 0..len : Packets(msg, len, rest)[from] \in Sent
<1>. DEFINE packets == Packets(msg, len, rest)
            Bad == {n \in Nat : n <= len /\ packets[len - n] \notin Sent}
<1>1. SUFFICES ASSUME Bad # {} PROVE FALSE
  <2>1. SUFFICES ASSUME NEW from \in 0..len, packets[from] \notin Sent PROVE Bad # {}
    OBVIOUS
  <2>2. len - from \in Nat /\ len - from <= len /\ len - (len - from) = from
    OBVIOUS
  <2>. HIDE DEF packets
  <2>3. len - from \in Bad
    BY <2>1, <2>2
  <2>. QED
    BY <2>3
<1>2. PICK n \in Bad : \A k \in Bad : ~(<<k, n>> \in OpToRel(<, Nat))
  BY <1>1, NatLessThanWellFounded, WFMin, Zenon
<1>. DEFINE from == len - n
            size == Lesser(MaxPacket, len - from)
<1>. HIDE DEF packets
<1>3. n \in Nat /\ n <= len /\ packets[from] \notin Sent /\ from \in 0..len
  <2>1. n \in Nat /\ n <= len /\ packets[len - n] \notin Sent
    BY <1>2
  <2>2. len - n \in 0..len
    BY <2>1
  <2>. QED
    BY <2>1, <2>2
<1>. HIDE DEF from, size
<1>4. size \in Nat /\ from + size \in 0..len /\ (size = MaxPacket => from + size > from)
  BY <1>3, PacketSize DEF size
<1>5. size = MaxPacket => packets[from + size] \in Sent
  <2>1. SUFFICES ASSUME size = MaxPacket, packets[from + size] \notin Sent PROVE FALSE
    OBVIOUS
  <2>2. len - (from + size) \in Nat /\ len - (from + size) <= len /\ len - (from + size) < n
        /\ len - (len - (from + size)) = from + size
    BY <1>3, <1>4, <2>1 DEF from
  <2>3. len - (from + size) \in Bad
    BY <2>1, <2>2
  <2>. QED
    BY <1>2, <1>3, <2>2, <2>3 DEF OpToRel
<1>6. ASSUME NEW seq \in Nat
      PROVE  <<Header(size, seq)>> \o Part(msg, from, size)
               \o (IF size = MaxPacket THEN packets[from + size][seq + 1] ELSE rest[seq + 1]) \in Seq(Cell)
  <2>1. <<Header(size, seq)>> \in Seq(Cell) /\ Part(msg, from, size) \in Seq(Cell)
    BY <1>3, <1>4, CellsTyped
  <2>2. (IF size = MaxPacket THEN packets[from + size][seq + 1] ELSE rest[seq + 1]) \in Seq(Cell)
    <3>1. seq + 1 \in Nat
      OBVIOUS
    <3>2. rest[seq + 1] \in Seq(Cell)
      BY <3>1 DEF Sent
    <3>3. size = MaxPacket => packets[from + size][seq + 1] \in Seq(Cell)
      BY <1>5, <3>1 DEF Sent
    <3>. QED
      BY <3>2, <3>3
  <2>. QED
    BY <2>1, <2>2, ConcatProperties
<1>7. packets[from] = Packet(msg, len, rest, packets, from)
  BY <1>3, PacketsUnfold DEF packets
<1>8. packets[from] \in Sent
  BY <1>6, <1>7 DEF Packet, Sent, size
<1>. QED
  BY <1>3, <1>8

-----------------------------------------------------------------------------
RowOf(lens, rows, k) ==
  [seq \in Nat |-> IF k > Len(lens) THEN <<>> ELSE Packets(k, lens[k], rows[k + 1])[0][seq]]

\* f holds the rows of an answer from the lo-th on.
FromRow(f, lo, lens) == f = [k \in lo..Len(lens) + 1 |-> RowOf(lens, f, k)]

LEMMA RowLocal ==
  ASSUME NEW lens, Len(lens) \in Nat, NEW f, NEW g, NEW k \in 1..Len(lens) + 1,
         \A i \in k + 1..Len(lens) + 1 : f[i] = g[i]
  PROVE  RowOf(lens, f, k) = RowOf(lens, g, k)
<1>1. k <= Len(lens) => k + 1 \in k + 1..Len(lens) + 1
  OBVIOUS
<1>2. CASE k > Len(lens)
  BY <1>2 DEF RowOf
<1>3. CASE ~(k > Len(lens))
  <2>1. f[k + 1] = g[k + 1]
    BY <1>1, <1>3
  <2>. QED
    BY <2>1 DEF RowOf
<1>. QED
  BY <1>2, <1>3

LEMMA RowsExist ==
  ASSUME NEW lens, Len(lens) \in Nat, NEW m \in Nat, m <= Len(lens)
  PROVE  \E g : FromRow(g, Len(lens) + 1 - m, lens)
<1>. DEFINE last == Len(lens) + 1
            Good(n) == n <= Len(lens) => \E g : FromRow(g, last - n, lens)
            Bad == {n \in Nat : ~Good(n)}
<1>1. Good(0)
  <2>. DEFINE g == [k \in (last - 0)..last |-> RowOf(lens, <<>>, k)]
  <2>1. \A k \in (last - 0)..last : RowOf(lens, <<>>, k) = RowOf(lens, g, k)
    <3>1. TAKE k \in (last - 0)..last
    <3>2. k \in 1..last /\ \A i \in k + 1..last : <<>>[i] = g[i]
      BY <3>1
    <3>. HIDE DEF g
    <3>. QED
      BY <3>2, RowLocal
  <2>2. g = [k \in (last - 0)..last |-> RowOf(lens, g, k)]
    BY <2>1
  <2>. QED
    BY <2>2 DEF FromRow
<1>2. ASSUME NEW n \in Nat, Good(n)
      PROVE  Good(n + 1)
  <2>1. SUFFICES ASSUME n + 1 <= Len(lens)
                 PROVE  \E g : FromRow(g, last - (n + 1), lens)
    OBVIOUS
  <2>2. PICK f : f = [k \in (last - n)..last |-> RowOf(lens, f, k)]
    BY <2>1, <1>2 DEF FromRow
  <2>. DEFINE g == [k \in (last - (n + 1))..last |-> RowOf(lens, f, k)]
  <2>3. \A k \in (last - n)..last : g[k] = f[k]
    BY <2>2
  <2>4. \A k \in (last - (n + 1))..last : RowOf(lens, f, k) = RowOf(lens, g, k)
    <3>1. TAKE k \in (last - (n + 1))..last
    <3>2. k \in 1..last /\ \A i \in k + 1..last : i \in (last - n)..last
      BY <2>1
    <3>3. \A i \in k + 1..last : f[i] = g[i]
      BY <3>2, <2>3
    <3>. HIDE DEF g
    <3>. QED
      BY <3>2, <3>3, RowLocal
  <2>5. g = [k \in (last - (n + 1))..last |-> RowOf(lens, g, k)]
    BY <2>4
  <2>. QED
    BY <2>5 DEF FromRow
<1>3. Bad = {}
  <2>1. SUFFICES ASSUME Bad # {} PROVE FALSE
    OBVIOUS
  <2>2. PICK n \in Bad : \A k \in Bad : ~(<<k, n>> \in OpToRel(<, Nat))
    BY <2>1, NatLessThanWellFounded, WFMin, Zenon
  <2>3. n \in Nat /\ ~Good(n)
    BY <2>2
  <2>. HIDE DEF Good
  <2>4. n # 0
    BY <2>3, <1>1
  <2>5. n - 1 \in Nat /\ n - 1 < n /\ (n - 1) + 1 = n
    BY <2>3, <2>4
  <2>6. Good(n - 1)
    BY <2>2, <2>3, <2>5 DEF OpToRel
  <2>. QED
    BY <2>3, <2>5, <2>6, <1>2
<1>. QED
  BY <1>3

LEMMA RowsUnfold ==
  ASSUME NEW lens, Len(lens) \in Nat
  PROVE  Rows(lens) = [k \in 1..Len(lens) + 1 |-> RowOf(lens, Rows(lens), k)]
<1>1. Rows(lens) = CHOOSE f : FromRow(f, 1, lens)
  BY DEF Rows, RowOf, FromRow
<1>2. PICK f : FromRow(f, Len(lens) + 1 - Len(lens), lens)
  <2>1. Len(lens) <= Len(lens)
    OBVIOUS
  <2>2. \A m \in Nat : m <= Len(lens) => \E g : FromRow(g, Len(lens) + 1 - m, lens)
    BY RowsExist
  <2>. QED
    BY <2>1, <2>2, Zenon
<1>3. Len(lens) + 1 - Len(lens) = 1
  OBVIOUS
<1>4. FromRow(Rows(lens), 1, lens)
  BY <1>1, <1>2, <1>3
<1>. QED
  BY <1>4 DEF FromRow

LEMMA RowsAt ==
  ASSUME NEW lens \in Seq(Nat), NEW k \in 1..Len(lens)
  PROVE  /\ lens[k] \in Nat
         /\ Rows(lens)[k] = Packets(k, lens[k], Rows(lens)[k + 1])[0]
<1>1. k \in 1..Len(lens) + 1 /\ Len(lens) \in Nat /\ lens[k] \in Nat
  OBVIOUS
<1>2. Rows(lens)[k] = RowOf(lens, Rows(lens), k)
  BY <1>1, RowsUnfold
<1>. DEFINE packets == Packets(k, lens[k], Rows(lens)[k + 1])
<1>3. packets[0] = Packet(k, lens[k], Rows(lens)[k + 1], packets, 0)
  <2>1. 0 \in 0..lens[k]
    BY <1>1
  <2>. QED
    BY <1>1, <2>1, PacketsUnfold
<1>4. packets[0] = [seq \in Nat |-> packets[0][seq]]
  BY <1>3 DEF Packet
<1>. HIDE DEF packets
<1>5. ~(k > Len(lens))
  BY <1>1
<1>6. RowOf(lens, Rows(lens), k) = [seq \in Nat |-> packets[0][seq]]
  BY <1>5 DEF RowOf, packets
<1>. QED
  BY <1>1, <1>2, <1>4, <1>6 DEF packets

LEMMA RowsEnd ==
  ASSUME NEW lens \in Seq(Nat)
  PROVE  Rows(lens)[Len(lens) + 1] = NoMore
<1>1. Len(lens) \in Nat /\ Len(lens) + 1 \in 1..Len(lens) + 1 /\ Len(lens) + 1 > Len(lens)
  OBVIOUS
<1>2. Rows(lens)[Len(lens) + 1] = RowOf(lens, Rows(lens), Len(lens) + 1)
  BY <1>1, RowsUnfold
<1>. QED
  BY <1>1, <1>2 DEF RowOf, NoMore

LEMMA RowsTyped ==
  ASSUME NEW lens \in Seq(Nat)
  PROVE  \A k \in 1..Len(lens) + 1 : Rows(lens)[k] \in Sent
<1>. DEFINE rows == Rows(lens)
            last == Len(lens) + 1
            Bad == {n \in Nat : n < last /\ rows[last - n] \notin Sent}
<1>0. Len(lens) \in Nat /\ last \in Nat
  OBVIOUS
<1>1. SUFFICES ASSUME Bad # {} PROVE FALSE
  <2>1. SUFFICES ASSUME NEW k \in 1..last, rows[k] \notin Sent PROVE Bad # {}
    OBVIOUS
  <2>. HIDE DEF rows, last
  <2>2. last - k \in Nat /\ last - k < last /\ last - (last - k) = k
    BY <1>0
  <2>3. last - k \in Bad
    BY <2>1, <2>2
  <2>. QED
    BY <2>3
<1>2. PICK n \in Bad : \A k \in Bad : ~(<<k, n>> \in OpToRel(<, Nat))
  BY <1>1, NatLessThanWellFounded, WFMin, Zenon
<1>. HIDE DEF rows
<1>3. n \in Nat /\ n < last /\ rows[last - n] \notin Sent
  BY <1>2
<1>4. n # 0
  <2>1. rows[last - 0] = NoMore
    BY <1>0, RowsEnd DEF rows
  <2>. QED
    BY <1>3, <2>1, CellsTyped
<1>5. n - 1 \in Nat /\ n - 1 < n /\ n - 1 < last /\ last - (n - 1) = (last - n) + 1 /\ last - n \in 1..Len(lens)
  BY <1>0, <1>3, <1>4
<1>6. rows[(last - n) + 1] \in Sent
  <2>1. SUFFICES ASSUME rows[last - (n - 1)] \notin Sent PROVE FALSE
    BY <1>5
  <2>2. n - 1 \in Bad
    BY <2>1, <1>5
  <2>. QED
    BY <1>2, <1>3, <1>5, <2>2 DEF OpToRel
<1>7. rows[last - n] = Packets(last - n, lens[last - n], rows[(last - n) + 1])[0] /\ lens[last - n] \in Nat
  BY <1>5, RowsAt DEF rows
<1>8. last - n \in Nat /\ 0 \in 0..lens[last - n]
  BY <1>5, <1>7
<1>. QED
  BY <1>3, <1>6, <1>7, <1>8, PacketsTyped

-----------------------------------------------------------------------------
\* s is the end of t.
Ends(s, t) == \E x \in Seq(Cell) : x \o s = t

LEMMA EndsSubSeq ==
  ASSUME NEW s \in Seq(Cell), NEW t \in Seq(Cell), Ends(s, t)
  PROVE  s = SubSeq(t, Len(t) - Len(s) + 1, Len(t))
<1>1. PICK x \in Seq(Cell) : x \o s = t
  BY DEF Ends
<1>2. Len(x) \in Nat /\ Len(s) \in Nat
  BY LenProperties
<1>3. Len(t) = Len(x) + Len(s)
  BY <1>1, ConcatProperties
<1>4. CASE s = <<>>
  <2>1. Len(s) = 0 /\ Len(t) < Len(t) - Len(s) + 1 /\ Len(t) \in Int /\ Len(t) - Len(s) + 1 \in Int
    BY <1>2, <1>3, <1>4
  <2>. QED
    BY <1>4, <2>1, SubSeqEmpty
<1>5. CASE s # <<>>
  <2>1. Len(s) > 0
    BY <1>5, EmptySeq
  <2>2. Len(x) + 1 \in Len(x) + 1..Len(x) + Len(s) /\ Len(t) \in Len(x) + 1..Len(x) + Len(s)
        /\ Len(x) + 1 - Len(x) = 1 /\ Len(t) - Len(x) = Len(s) /\ Len(t) - Len(s) + 1 = Len(x) + 1
    BY <1>2, <1>3, <2>1
  <2>3. SubSeq(x \o s, Len(x) + 1, Len(t)) = SubSeq(s, Len(x) + 1 - Len(x), Len(t) - Len(x))
    BY <2>2, SubSeqOfConcat2
  <2>. QED
    BY <1>1, <2>2, <2>3, SubSeqFull
<1>. QED
  BY <1>4, <1>5

LEMMA EndsTail ==
  ASSUME NEW x \in Seq(Cell), NEW s \in Seq(Cell), NEW t, Ends(x \o s, t)
  PROVE  Ends(s, t)
<1>1. PICK y \in Seq(Cell) : y \o (x \o s) = t
  BY DEF Ends
<1>2. (y \o x) \o s = y \o (x \o s)
  BY ConcatAssociative
<1>3. y \o x \in Seq(Cell)
  BY ConcatProperties
<1>. QED
  BY <1>1, <1>2, <1>3 DEF Ends

\* What starts with sequences of the same length starts with the same.
LEMMA SameStart ==
  ASSUME NEW S, NEW s \in Seq(S), NEW t \in Seq(S), NEW u \in Seq(S), NEW v \in Seq(S),
         Len(s) = Len(u), s \o t = u \o v
  PROVE  s = u /\ t = v
<1>1. /\ Len(s) \in Nat /\ Len(t) \in Nat
      /\ \A i \in 1..Len(s) + Len(t) : (s \o t)[i] = IF i <= Len(s) THEN s[i] ELSE t[i - Len(s)]
      /\ \A i \in 1..Len(u) + Len(v) : (u \o v)[i] = IF i <= Len(u) THEN u[i] ELSE v[i - Len(u)]
      /\ Len(s) + Len(t) = Len(u) + Len(v)
  <2>1. Len(s) \in Nat /\ Len(t) \in Nat
    BY LenProperties
  <2>2. /\ Len(s \o t) = Len(s) + Len(t)
        /\ \A i \in 1..Len(s) + Len(t) : (s \o t)[i] = IF i <= Len(s) THEN s[i] ELSE t[i - Len(s)]
    BY ConcatProperties, Zenon
  <2>3. /\ Len(u \o v) = Len(u) + Len(v)
        /\ \A i \in 1..Len(u) + Len(v) : (u \o v)[i] = IF i <= Len(u) THEN u[i] ELSE v[i - Len(u)]
    BY ConcatProperties, Zenon
  <2>. QED
    BY <2>1, <2>2, <2>3
<1>2. \A i \in 1..Len(s) : s[i] = u[i]
  BY <1>1
<1>3. s = u
  BY <1>2, SeqEqual
<1>. QED
  BY <1>3, ConcatSimplifications

LEMMA PartsJoin ==
  ASSUME NEW msg \in Nat, NEW from \in Nat, NEW n \in Nat
  PROVE  Payload(msg, from) \o Part(msg, from, n) = Payload(msg, from + n)
<1>. DEFINE s == Part(msg, 0, from)
            t == Part(msg, from, n)
            u == Part(msg, 0, from + n)
<1>1. /\ s \in Seq(Cell) /\ Len(s) = from
      /\ t \in Seq(Cell) /\ Len(t) = n
      /\ u \in Seq(Cell) /\ Len(u) = from + n
  <2>1. 0 \in Nat /\ from + n \in Nat
    OBVIOUS
  <2>. QED
    BY <2>1, CellsTyped, Zenon
<1>2. /\ \A i \in 1..from : s[i] = [msg |-> msg, at |-> 0 + i]
      /\ \A i \in 1..n : t[i] = [msg |-> msg, at |-> from + i]
      /\ \A i \in 1..from + n : u[i] = [msg |-> msg, at |-> 0 + i]
  BY DEF Part
<1>. HIDE DEF s, t, u
<1>3. /\ s \o t \in Seq(Cell) /\ Len(s \o t) = from + n
      /\ \A i \in 1..from + n : (s \o t)[i] = IF i <= from THEN s[i] ELSE t[i - from]
  BY <1>1, ConcatProperties
<1>4. \A i \in 1..from + n : (s \o t)[i] = u[i]
  <2>1. TAKE i \in 1..from + n
  <2>2. CASE i <= from
    <3>1. i \in 1..from
      BY <2>2
    <3>. QED
      BY <1>2, <1>3, <2>2, <3>1, Zenon
  <2>3. CASE ~(i <= from)
    <3>1. i - from \in 1..n /\ from + (i - from) = 0 + i
      BY <2>3
    <3>2. t[i - from] = [msg |-> msg, at |-> from + (i - from)]
      BY <1>2, <3>1, Zenon
    <3>. QED
      BY <1>2, <1>3, <2>3, <3>1, <3>2, Zenon
  <2>. QED
    BY <2>2, <2>3
<1>5. s \o t = u
  BY <1>1, <1>3, <1>4, SeqEqual
<1>. QED
  BY <1>5 DEF s, t, u, Payload

LEMMA PayloadEmpty ==
  ASSUME NEW k \in Nat
  PROVE  Payload(k, 0) = <<>> /\ Len(<<>>) = 0
<1>. DEFINE p == Part(k, 0, 0)
<1>1. 0 \in Nat
  OBVIOUS
<1>2. p \in Seq(Cell) /\ Len(p) = 0
  BY <1>1, CellsTyped, Zenon
<1>3. p = <<>>
  BY <1>2, EmptySeq
<1>. QED
  BY <1>3 DEF Payload

-----------------------------------------------------------------------------
\* The arrays m, the buffer b and the wire w fit together.
Fit(m, b, w) ==
  /\ m \in Seq(Seq(Cell)) /\ w \in Seq(Cell)
  /\ \A i \in 1..Len(m) : Len(m[i]) >= DefaultSize
  /\ b \in [arr : 1..Len(m), idx : Nat, length : Nat, dbuf : [1..2 -> 0..Len(m)], flip : 0..1]
  /\ b.idx + b.length <= Len(m[b.arr])
  /\ b.dbuf[1] # b.dbuf[2]

\* What is read next, and the array of the buffer that is not flipped to.
Left(m, b, w) == SubSeq(m[b.arr], b.idx + 1, b.idx + b.length) \o w
Away(b) == b.dbuf[2 - b.flip]

LEMMA RoundUpLarge ==
  ASSUME NEW need \in Nat
  PROVE  RoundUp(need) \in Nat /\ RoundUp(need) >= DefaultSize
<1>1. need \div DefaultSize \in Nat
  BY PacketIOAssumption
<1>. DEFINE q == need \div DefaultSize
<1>. HIDE DEF q
<1>2. q \in Nat
  BY <1>1 DEF q
<1>3. DefaultSize \in Nat => (q + 1) * DefaultSize \in Nat /\ (q + 1) * DefaultSize >= DefaultSize
  BY <1>2
<1>. QED
  BY <1>3, PacketIOAssumption DEF RoundUp, q

\* A part of a sequence.
LEMMA PartOf ==
  ASSUME NEW S, NEW s \in Seq(S), NEW i \in Nat, NEW n \in Nat, i + n <= Len(s)
  PROVE  /\ SubSeq(s, i + 1, i + n) \in Seq(S)
         /\ Len(SubSeq(s, i + 1, i + n)) = n
         /\ \A j \in 1..n : SubSeq(s, i + 1, i + n)[j] = s[i + j]
<1>1. \A j \in i + 1..i + n : s[j] \in S
  <2>1. \A j \in i + 1..i + n : j \in 1..Len(s)
    BY LenProperties
  <2>. QED
    BY <2>1, ElementOfSeq
<1>2. i + 1 \in Int /\ i + n \in Int
  OBVIOUS
<1>. DEFINE begin == i + 1
            last == i + n
            u == SubSeq(s, begin, last)
<1>3. /\ u \in Seq(S)
      /\ Len(u) = IF begin <= last THEN last - begin + 1 ELSE 0
      /\ \A j \in 1..last - begin + 1 : u[j] = s[begin + j - 1]
  <2>1. begin \in Int /\ last \in Int /\ \A j \in begin..last : s[j] \in S
    BY <1>1, <1>2
  <2>. HIDE DEF begin, last
  <2>. QED
    BY <2>1, SubSeqProperties
<1>. HIDE DEF u
<1>4. Len(u) = n /\ \A j \in 1..n : j \in 1..last - begin + 1 /\ begin + j - 1 = i + j
  BY <1>3
<1>. HIDE DEF begin, last
<1>5. \A j \in 1..n : u[j] = s[i + j]
  BY <1>3, <1>4, Zenon
<1>. QED
  BY <1>3, <1>4, <1>5 DEF u, begin, last

\* What is moved to the front of an array, with what comes behind it.
Filled(from, dest, w, n) ==
  [i \in DOMAIN Move(from, dest) |->
    IF i \in Len(from) + 1..n THEN w[i - Len(from)] ELSE Move(from, dest)[i]]

LEMMA FilledArray ==
  ASSUME NEW from \in Seq(Cell), NEW dest \in Seq(Cell), NEW w \in Seq(Cell), NEW n \in Nat,
         n >= Len(from), n <= Len(dest), n <= Len(from) + Len(w)
  PROVE  /\ Filled(from, dest, w, n) \in Seq(Cell) /\ Len(Filled(from, dest, w, n)) = Len(dest)
         /\ SubSeq(w, n - Len(from) + 1, Len(w)) \in Seq(Cell)
         /\ SubSeq(Filled(from, dest, w, n), 1, n) \o SubSeq(w, n - Len(from) + 1, Len(w)) = from \o w
<1>. DEFINE data == Filled(from, dest, w, n)
<1>1. /\ Len(from) \in Nat /\ Len(dest) \in Nat /\ Len(w) \in Nat /\ DOMAIN dest = 1..Len(dest)
  BY LenProperties
<1>2. DOMAIN Move(from, dest) = 1..Len(dest)
      /\ \A i \in 1..Len(dest) : Move(from, dest)[i] = IF i <= Len(from) THEN from[i] ELSE dest[i]
  BY <1>1 DEF Move
<1>3. \A i \in 1..Len(dest) :
        data[i] = IF i \in Len(from) + 1..n THEN w[i - Len(from)]
                  ELSE IF i <= Len(from) THEN from[i] ELSE dest[i]
  BY <1>2 DEF Filled
<1>4. \A i \in 1..Len(dest) : data[i] \in Cell
  <2>1. TAKE i \in 1..Len(dest)
  <2>2. CASE i \in Len(from) + 1..n
    <3>1. i - Len(from) \in 1..Len(w)
      BY <1>1, <2>2
    <3>. QED
      BY <1>3, <2>2, <3>1, ElementOfSeq
  <2>3. CASE i \notin Len(from) + 1..n /\ i <= Len(from)
    <3>1. i \in 1..Len(from)
      BY <1>1, <2>3
    <3>. QED
      BY <1>3, <2>3, <3>1, ElementOfSeq
  <2>4. CASE i \notin Len(from) + 1..n /\ ~(i <= Len(from))
    BY <1>3, <2>4, ElementOfSeq
  <2>. QED
    BY <2>2, <2>3, <2>4
<1>5. DOMAIN data = 1..Len(dest) /\ data = [i \in 1..Len(dest) |-> data[i]]
  BY <1>2 DEF Filled
<1>6. data \in [1..Len(dest) -> Cell]
  BY <1>4, <1>5
<1>. HIDE DEF data
<1>7. data \in Seq(Cell) /\ Len(data) = Len(dest)
  BY <1>1, <1>6, SeqDef, LenProperties
<1>. DEFINE k == n - Len(from)
            a == SubSeq(data, 0 + 1, 0 + n)
            b == SubSeq(w, k + 1, k + (Len(w) - k))
<1>8. k \in Nat /\ Len(w) - k \in Nat /\ k + (Len(w) - k) = Len(w) /\ 0 + n <= Len(data)
  BY <1>1, <1>7
<1>9. a \in Seq(Cell) /\ Len(a) = n /\ \A j \in 1..n : a[j] = data[0 + j]
  BY <1>7, <1>8, PartOf
<1>. HIDE DEF k
<1>10. b \in Seq(Cell) /\ Len(b) = Len(w) - k /\ \A j \in 1..Len(w) - k : b[j] = w[k + j]
  <2>1. k + (Len(w) - k) <= Len(w)
    BY <1>8, <1>1
  <2>. QED
    BY <1>8, <2>1, PartOf
<1>. HIDE DEF a, b
<1>11. /\ a \o b \in Seq(Cell) /\ Len(a \o b) = n + (Len(w) - k)
       /\ \A i \in 1..n + (Len(w) - k) : (a \o b)[i] = IF i <= n THEN a[i] ELSE b[i - n]
  <2>1. /\ a \o b \in Seq(Cell) /\ Len(a \o b) = Len(a) + Len(b)
        /\ \A i \in 1..Len(a) + Len(b) : (a \o b)[i] = IF i <= Len(a) THEN a[i] ELSE b[i - Len(a)]
    <3>1. a \in Seq(Cell) /\ b \in Seq(Cell)
      BY <1>9, <1>10
    <3>. QED
      BY <3>1, ConcatProperties, Zenon
  <2>2. Len(a) = n /\ Len(b) = Len(w) - k
    BY <1>9, <1>10
  <2>. QED
    BY <2>1, <2>2
<1>12. /\ from \o w \in Seq(Cell) /\ Len(from \o w) = Len(from) + Len(w)
       /\ \A i \in 1..Len(from) + Len(w) : (from \o w)[i] = IF i <= Len(from) THEN from[i] ELSE w[i - Len(from)]
  BY ConcatProperties
<1>13. n + (Len(w) - k) = Len(from) + Len(w)
  BY <1>1, <1>8 DEF k
<1>14. \A i \in 1..Len(from) + Len(w) : (a \o b)[i] = (from \o w)[i]
  <2>1. TAKE i \in 1..Len(from) + Len(w)
  <2>2. CASE i <= Len(from)
    <3>1. i \in 1..n /\ i <= n /\ 0 + i = i /\ i \in 1..Len(dest) /\ i \notin Len(from) + 1..n
      BY <1>1, <2>2
    <3>. QED
      BY <1>3, <1>9, <1>11, <1>12, <1>13, <2>2, <3>1, Zenon
  <2>3. CASE ~(i <= Len(from)) /\ i <= n
    <3>1. i \in 1..n /\ 0 + i = i /\ i \in 1..Len(dest) /\ i \in Len(from) + 1..n
      BY <1>1, <2>3
    <3>. QED
      BY <1>3, <1>9, <1>11, <1>12, <1>13, <2>3, <3>1, Zenon
  <2>4. CASE ~(i <= Len(from)) /\ ~(i <= n)
    <3>1. i - n \in 1..Len(w) - k /\ k + (i - n) = i - Len(from)
      BY <1>1, <1>8, <1>13, <2>4 DEF k
    <3>. QED
      BY <1>10, <1>11, <1>12, <1>13, <2>4, <3>1, Zenon
  <2>. QED
    BY <2>2, <2>3, <2>4
<1>15. a \o b = from \o w
  BY <1>11, <1>12, <1>13, <1>14, SeqEqual
<1>16. a = SubSeq(data, 1, n) /\ b = SubSeq(w, n - Len(from) + 1, Len(w))
  <2>1. 0 + 1 = 1 /\ 0 + n = n
    OBVIOUS
  <2>. QED
    BY <1>8, <2>1 DEF a, b, k
<1>. QED
  BY <1>7, <1>10, <1>15, <1>16 DEF data

LEMMA FilledRest ==
  ASSUME NEW from \in Seq(Cell), NEW dest \in Seq(Cell), NEW w \in Seq(Cell), NEW n \in Nat,
         n >= Len(from), n <= Len(dest), n <= Len(from) + Len(w)
  PROVE  SubSeq(Filled(from, dest, w, n), 1, n) \o SubSeq(w, n - Len(from) + 1, Len(w)) = from \o w
  BY FilledArray, Zenon

\* One of the two slices is replaced.
LEMMA SliceReplaced ==
  ASSUME NEW S, NEW T, S \subseteq T, NEW f \in [1..2 -> S], NEW i \in 1..2, NEW j \in 1..2, i # j, NEW e \in T
  PROVE  /\ [f EXCEPT ![i] = e] \in [1..2 -> T]
         /\ [f EXCEPT ![i] = e][i] = e /\ [f EXCEPT ![i] = e][j] = f[j]
  OBVIOUS

LEMMA BufferFilled ==
  ASSUME NEW A, NEW B, NEW D, NEW E, NEW arr \in B, NEW n \in Nat, NEW d \in E,
         NEW b \in [arr : A, idx : Nat, length : Nat, dbuf : D, flip : 0..1]
  PROVE  LET c == [b EXCEPT !.arr = arr, !.idx = 0, !.length = n, !.dbuf = d] IN
         /\ c \in [arr : B, idx : Nat, length : Nat, dbuf : E, flip : 0..1]
         /\ c.arr = arr /\ c.idx = 0 /\ c.length = n /\ c.flip = b.flip /\ c.dbuf = d
  OBVIOUS

LEMMA FillKeeps ==
  ASSUME Fit(mem, buffer, wire), NEW need \in Nat, buffer.length < need, NEW s \in Fill(need)
  PROVE  /\ Fit(s.mem, s.buf, s.wire)
         /\ Left(s.mem, s.buf, s.wire) = Left(mem, buffer, wire)
         /\ s.buf.length >= need
         /\ s.buf.flip = buffer.flip /\ Away(s.buf) = Away(buffer)
         /\ s.buf.arr # Away(buffer)
         /\ \A i \in 1..Len(mem) : i # buffer.dbuf[buffer.flip + 1] =>
              i \in 1..Len(s.mem) /\ s.mem[i] = mem[i] /\ i # s.buf.dbuf[buffer.flip + 1]
<1>. DEFINE b == buffer
            old == b.dbuf[b.flip + 1]
            size == IF old = 0 THEN 0 ELSE Len(mem[old])
            grow == need > size
            arr == IF grow THEN Len(mem) + 1 ELSE old
            dest == IF grow THEN Array(RoundUp(need)) ELSE mem[old]
            from == SubSeq(mem[b.arr], b.idx + 1, b.idx + b.length)
            moved == Move(from, dest)
            Data(n) == [i \in DOMAIN moved |-> IF i \in b.length + 1..n THEN wire[i - b.length] ELSE moved[i]]
            now == IF grow /\ Len(dest) <= MaxCached THEN arr ELSE old
            Mem(n) == IF grow THEN Append(mem, Data(n)) ELSE [mem EXCEPT ![arr] = Data(n)]
            Buf(n) == [b EXCEPT !.arr = arr, !.idx = 0, !.length = n, !.dbuf[b.flip + 1] = now]
            Wire(n) == SubSeq(wire, n - b.length + 1, Len(wire))
<1>1. PICK n \in need..Lesser(Len(dest), b.length + Len(wire)) :
        s = [mem |-> Mem(n), buf |-> Buf(n), wire |-> Wire(n)]
  BY DEF Fill
<1>. DEFINE data == Data(n)
<1>2. s.mem = Mem(n) /\ s.buf = Buf(n) /\ s.wire = Wire(n)
  <2>. HIDE DEF Mem, Buf, Wire
  <2>. QED
    BY <1>1
<1>3. /\ mem \in Seq(Seq(Cell)) /\ wire \in Seq(Cell) /\ Len(mem) \in Nat
      /\ \A i \in 1..Len(mem) : mem[i] \in Seq(Cell)
      /\ \A i \in 1..Len(mem) : Len(mem[i]) >= DefaultSize
      /\ \A i \in 1..Len(mem) : Len(mem[i]) \in Nat
      /\ b.arr \in 1..Len(mem) /\ b.idx \in Nat /\ b.length \in Nat /\ b.flip \in 0..1
      /\ b.dbuf \in [1..2 -> 0..Len(mem)]
      /\ b.idx + b.length <= Len(mem[b.arr])
  <2>1. mem \in Seq(Seq(Cell)) /\ wire \in Seq(Cell) /\ Len(mem) \in Nat
        /\ \A i \in 1..Len(mem) : Len(mem[i]) >= DefaultSize
    BY LenProperties DEF Fit
  <2>2. b.arr \in 1..Len(mem) /\ b.idx \in Nat /\ b.length \in Nat /\ b.flip \in 0..1
        /\ b.dbuf \in [1..2 -> 0..Len(mem)]
        /\ b.idx + b.length <= Len(mem[b.arr])
    BY DEF Fit
  <2>3. \A i \in 1..Len(mem) : mem[i] \in Seq(Cell)
    BY <2>1, ElementOfSeq
  <2>4. \A i \in 1..Len(mem) : Len(mem[i]) \in Nat
    BY <2>3, LenProperties
  <2>. QED
    BY <2>1, <2>2, <2>3, <2>4
<1>4. /\ b.flip + 1 \in 1..2 /\ 2 - b.flip \in 1..2 /\ b.flip + 1 # 2 - b.flip
      /\ old \in 0..Len(mem) /\ Away(b) \in 0..Len(mem) /\ old # Away(b)
  BY DEF Fit, Away
<1>5. ~grow => old \in 1..Len(mem)
  BY <1>3, <1>4
<1>6. dest \in Seq(Cell) /\ Len(dest) >= DefaultSize /\ Len(dest) \in Nat
  <2>1. CASE grow
    <3>1. dest \in Seq(Cell) /\ Len(dest) = RoundUp(need)
      BY <2>1, RoundUpLarge, CellsTyped
    <3>. QED
      BY <3>1, RoundUpLarge
  <2>2. CASE ~grow
    BY <1>3, <1>5, <2>2
  <2>. QED
    BY <2>1, <2>2
<1>7. from \in Seq(Cell) /\ Len(from) = b.length
  <2>1. mem[b.arr] \in Seq(Cell)
    BY <1>3
  <2>. QED
    <3>. DEFINE array == mem[b.arr]
                i == b.idx
                k == b.length
    <3>1. array \in Seq(Cell) /\ i \in Nat /\ k \in Nat /\ i + k <= Len(array)
      BY <1>3, <2>1
    <3>. HIDE DEF array, i, k
    <3>2. SubSeq(array, i + 1, i + k) \in Seq(Cell) /\ Len(SubSeq(array, i + 1, i + k)) = k
      BY <3>1, PartOf
    <3>. QED
      BY <3>2 DEF array, i, k
<1>8. n \in Nat /\ n >= need /\ n > b.length /\ n <= Len(dest) /\ n <= b.length + Len(wire)
  <2>1. Len(wire) \in Nat /\ b.length \in Nat /\ b.length < need
    BY <1>3, LenProperties
  <2>. HIDE DEF dest, b
  <2>2. n \in need..Lesser(Len(dest), b.length + Len(wire))
    BY <1>1
  <2>. QED
    BY <1>6, <2>1, <2>2 DEF Lesser
<1>9. /\ data \in Seq(Cell) /\ Len(data) = Len(dest)
      /\ s.wire \in Seq(Cell)
      /\ SubSeq(data, 1, n) \o s.wire = from \o wire
  <2>. HIDE DEF from, dest, Mem, Buf
  <2>1. data = Filled(from, dest, wire, n)
    BY <1>7 DEF Filled
  <2>2. n >= Len(from) /\ n <= Len(from) + Len(wire)
    BY <1>3, <1>7, <1>8
  <2>3. n - b.length = n - Len(from) /\ n <= Len(dest) /\ n \in Nat /\ from \in Seq(Cell)
        /\ dest \in Seq(Cell) /\ wire \in Seq(Cell)
    BY <1>3, <1>6, <1>7, <1>8
  <2>. HIDE DEF data
  <2>4. /\ data \in Seq(Cell) /\ Len(data) = Len(dest)
        /\ SubSeq(wire, n - Len(from) + 1, Len(wire)) \in Seq(Cell)
        /\ SubSeq(data, 1, n) \o SubSeq(wire, n - Len(from) + 1, Len(wire)) = from \o wire
    <3>1. from \in Seq(Cell) /\ dest \in Seq(Cell) /\ wire \in Seq(Cell) /\ n \in Nat
          /\ n >= Len(from) /\ n <= Len(dest) /\ n <= Len(from) + Len(wire)
      BY <2>2, <2>3
    <3>2. Filled(from, dest, wire, n) \in Seq(Cell)
      BY <3>1, FilledArray
    <3>3. Len(Filled(from, dest, wire, n)) = Len(dest)
      BY <3>1, FilledArray
    <3>4. SubSeq(wire, n - Len(from) + 1, Len(wire)) \in Seq(Cell)
      BY <3>1, FilledArray
    <3>5. SubSeq(Filled(from, dest, wire, n), 1, n) \o SubSeq(wire, n - Len(from) + 1, Len(wire)) = from \o wire
      BY <3>1, FilledRest
    <3>. QED
      BY <2>1, <3>2, <3>3, <3>4, <3>5
  <2>5. s.wire = SubSeq(wire, n - Len(from) + 1, Len(wire))
    BY <1>2, <2>3
  <2>. QED
    BY <2>4, <2>5
<1>10. now \in 0..Len(mem) + 1 /\ arr \in 1..Len(mem) + 1 /\ now # Away(b) /\ arr # Away(b)
       /\ (~grow => now \in 0..Len(mem) /\ arr \in 1..Len(mem) /\ arr = old)
       /\ (grow => arr = Len(mem) + 1)
  <2>1. Away(b) \in 0..Len(mem) /\ old \in 0..Len(mem) /\ old # Away(b) /\ Len(mem) \in Nat
    BY <1>3, <1>4
  <2>. HIDE DEF dest, grow, old, b
  <2>. QED
    BY <1>5, <2>1
<1>. HIDE DEF data, dest, from
<1>11. /\ s.mem \in Seq(Seq(Cell)) /\ s.mem[arr] = data
       /\ Len(s.mem) = IF grow THEN Len(mem) + 1 ELSE Len(mem)
       /\ \A i \in 1..Len(mem) : i # arr => s.mem[i] = mem[i]
  <2>1. CASE grow
    <3>. HIDE DEF arr, grow
    <3>1. s.mem = Append(mem, data) /\ arr = Len(mem) + 1
      BY <1>2, <1>10, <2>1 DEF Mem, data
    <3>. QED
      BY <1>3, <1>9, <2>1, <3>1, AppendProperties
  <2>2. CASE ~grow
    <3>. HIDE DEF arr, grow
    <3>1. s.mem = [mem EXCEPT ![arr] = data]
      BY <1>2, <2>2 DEF Mem, data
    <3>2. arr \in 1..Len(mem)
      BY <1>10, <2>2
    <3>3. /\ [mem EXCEPT ![arr] = data] \in Seq(Seq(Cell))
          /\ Len([mem EXCEPT ![arr] = data]) = Len(mem)
          /\ \A j \in 1..Len(mem) : [mem EXCEPT ![arr] = data][j] = IF j = arr THEN data ELSE mem[j]
      <4>1. mem \in Seq(Seq(Cell)) /\ data \in Seq(Cell)
        BY <1>3, <1>9
      <4>. DEFINE S == Seq(Cell)
      <4>2. mem \in Seq(S) /\ data \in S
        BY <4>1
      <4>. HIDE DEF S
      <4>3. /\ [mem EXCEPT ![arr] = data] \in Seq(S)
            /\ Len([mem EXCEPT ![arr] = data]) = Len(mem)
            /\ \A j \in 1..Len(mem) : [mem EXCEPT ![arr] = data][j] = IF j = arr THEN data ELSE mem[j]
        BY <3>2, <4>2, ExceptSeq
      <4>. QED
        BY <4>3 DEF S
    <3>. QED
      BY <2>2, <3>1, <3>2, <3>3, Zenon
  <2>. QED
    BY <2>1, <2>2
<1>. HIDE DEF arr, now
<1>12. /\ s.buf \in [arr : 1..Len(mem) + 1, idx : Nat, length : Nat, dbuf : [1..2 -> 0..Len(mem) + 1], flip : 0..1]
       /\ s.buf.arr = arr /\ s.buf.idx = 0 /\ s.buf.length = n /\ s.buf.flip = b.flip
       /\ s.buf.dbuf = [b.dbuf EXCEPT ![b.flip + 1] = now]
       /\ s.buf.dbuf[b.flip + 1] = now /\ s.buf.dbuf[2 - b.flip] = b.dbuf[2 - b.flip]
  <2>1. b \in [arr : 1..Len(mem), idx : Nat, length : Nat, dbuf : [1..2 -> 0..Len(mem)], flip : 0..1]
    BY DEF Fit
  <2>2. /\ [b.dbuf EXCEPT ![b.flip + 1] = now] \in [1..2 -> 0..Len(mem) + 1]
        /\ [b.dbuf EXCEPT ![b.flip + 1] = now][b.flip + 1] = now
        /\ [b.dbuf EXCEPT ![b.flip + 1] = now][2 - b.flip] = b.dbuf[2 - b.flip]
    <3>1. now \in 0..Len(mem) + 1 /\ 0..Len(mem) \subseteq 0..Len(mem) + 1
      BY <1>3, <1>10
    <3>2. b.flip + 1 \in 1..2 /\ 2 - b.flip \in 1..2 /\ b.flip + 1 # 2 - b.flip /\ b.dbuf \in [1..2 -> 0..Len(mem)]
      BY <1>3, <1>4
    <3>. QED
      BY <3>1, <3>2, SliceReplaced, Zenon
  <2>3. s.buf = [b EXCEPT !.arr = arr, !.idx = 0, !.length = n, !.dbuf = [b.dbuf EXCEPT ![b.flip + 1] = now]]
    BY <1>2
  <2>. DEFINE dbuf == [b.dbuf EXCEPT ![b.flip + 1] = now]
  <2>. HIDE DEF dbuf
  <2>4. s.buf = [b EXCEPT !.arr = arr, !.idx = 0, !.length = n, !.dbuf = dbuf]
        /\ dbuf \in [1..2 -> 0..Len(mem) + 1]
    BY <2>2, <2>3 DEF dbuf
  <2>5. /\ s.buf \in [arr : 1..Len(mem) + 1, idx : Nat, length : Nat, dbuf : [1..2 -> 0..Len(mem) + 1], flip : 0..1]
        /\ s.buf.arr = arr /\ s.buf.idx = 0 /\ s.buf.length = n /\ s.buf.flip = b.flip
        /\ s.buf.dbuf = dbuf
    <3>1. n \in Nat /\ arr \in 1..Len(mem) + 1
      BY <1>8, <1>10
    <3>. HIDE DEF b
    <3>. DEFINE B == 1..Len(mem) + 1
                E == [1..2 -> 0..Len(mem) + 1]
    <3>2. arr \in B /\ dbuf \in E
      BY <2>4, <3>1
    <3>. HIDE DEF B, E
    <3>3. [b EXCEPT !.arr = arr, !.idx = 0, !.length = n, !.dbuf = dbuf]
            \in [arr : B, idx : Nat, length : Nat, dbuf : E, flip : 0..1]
      BY <2>1, <3>1, <3>2, BufferFilled
    <3>4. /\ s.buf.arr = arr /\ s.buf.idx = 0 /\ s.buf.length = n
          /\ s.buf.flip = b.flip /\ s.buf.dbuf = dbuf
      BY <2>1, <2>4
    <3>. QED
      BY <2>4, <3>3, <3>4 DEF B, E
  <2>. QED
    BY <2>2, <2>5 DEF dbuf
<1>13. /\ s.buf.arr \in 1..Len(s.mem) /\ s.buf.dbuf \in [1..2 -> 0..Len(s.mem)]
  <2>1. CASE grow
    BY <1>3, <1>10, <1>11, <1>12, <2>1
  <2>2. CASE ~grow
    <3>1. s.buf.arr \in 1..Len(mem) /\ Len(s.mem) = Len(mem) /\ now \in 0..Len(mem)
      BY <1>10, <1>11, <1>12, <2>2
    <3>2. b.dbuf \in [1..2 -> 0..Len(mem)]
      BY DEF Fit
    <3>3. [b.dbuf EXCEPT ![b.flip + 1] = now] \in [1..2 -> 0..Len(mem)]
      BY <1>4, <3>1, <3>2, SliceReplaced
    <3>. QED
      BY <1>12, <3>1, <3>3
  <2>. QED
    BY <2>1, <2>2
<1>14. Fit(s.mem, s.buf, s.wire)
  <2>1. \A i \in 1..Len(s.mem) : Len(s.mem[i]) >= DefaultSize
    <3>1. TAKE i \in 1..Len(s.mem)
    <3>2. i = arr \/ i \in 1..Len(mem)
      BY <1>3, <1>10, <1>11
    <3>. QED
      BY <1>3, <1>6, <1>9, <1>11, <3>2
  <2>2. s.buf.idx + s.buf.length <= Len(s.mem[s.buf.arr])
    BY <1>6, <1>8, <1>9, <1>11, <1>12
  <2>3. s.buf.dbuf[1] # s.buf.dbuf[2]
    <3>1. s.buf.dbuf[b.flip + 1] # s.buf.dbuf[2 - b.flip]
      BY <1>10, <1>12 DEF Away
    <3>. QED
      BY <1>3, <3>1
  <2>4. s.buf \in [arr : 1..Len(s.mem), idx : Nat, length : Nat, dbuf : [1..2 -> 0..Len(s.mem)], flip : 0..1]
    BY <1>12, <1>13
  <2>. QED
    BY <1>9, <1>11, <2>1, <2>2, <2>3, <2>4 DEF Fit
<1>15. Left(s.mem, s.buf, s.wire) = Left(mem, buffer, wire)
  <2>1. SubSeq(s.mem[s.buf.arr], s.buf.idx + 1, s.buf.idx + s.buf.length) = SubSeq(data, 1, n)
    <3>1. s.buf.idx + 1 = 1 /\ s.buf.idx + s.buf.length = n
      BY <1>8, <1>12
    <3>. QED
      BY <1>11, <1>12, <3>1
  <2>. QED
    BY <1>9, <2>1 DEF Left, from
<1>16. Away(s.buf) = Away(buffer) /\ s.buf.arr # Away(buffer)
  BY <1>10, <1>12 DEF Away
<1>17. ASSUME NEW i \in 1..Len(mem), i # buffer.dbuf[buffer.flip + 1]
       PROVE  i \in 1..Len(s.mem) /\ s.mem[i] = mem[i] /\ i # s.buf.dbuf[buffer.flip + 1]
  <2>1. i # arr
    BY <1>3, <1>10, <1>17
  <2>0. i # s.buf.dbuf[buffer.flip + 1]
    BY <1>3, <1>10, <1>12, <1>17 DEF now
  <2>2. i \in 1..Len(s.mem)
    BY <1>3, <1>11
  <2>. QED
    BY <1>11, <2>0, <2>1, <2>2
<1>. QED
  BY <1>8, <1>12, <1>14, <1>15, <1>16, <1>17

\* n cells of a from the i-th on, and the first of them.
Cut(a, i, n) == SubSeq(a, i + 1, i + n)
Splits(a, w, i, n, need) == Cut(a, i, n) \o w = Cut(a, i, need) \o (Cut(a, i + need, n - need) \o w)

LEMMA LeftSplit ==
  ASSUME NEW a \in Seq(Cell), NEW w \in Seq(Cell), NEW i \in Nat, NEW n \in Nat, NEW need \in Nat,
         need <= n, i + n <= Len(a)
  PROVE  Splits(a, w, i, n, need)
<1>1. Len(a) \in Nat
  BY LenProperties
<1>2. i + 1 \in 1..Len(a) + 1 /\ i + need \in i + 1 - 1..Len(a) /\ i + n \in i + need..Len(a)
      /\ i + need + (n - need) = i + n
  BY <1>1
<1>. DEFINE begin == i + 1
            middle == i + need
            last == i + n
<1>3. begin \in 1..Len(a) + 1 /\ middle \in begin - 1..Len(a) /\ last \in middle..Len(a)
  BY <1>2
<1>. HIDE DEF begin, middle, last
<1>4. SubSeq(a, begin, middle) \o SubSeq(a, middle + 1, last) = SubSeq(a, begin, last)
  BY <1>3, ConcatAdjacentSubSeq
<1>5. SubSeq(a, begin, middle) \in Seq(Cell)
  BY <1>2, PartOf DEF begin, middle
<1>6. SubSeq(a, middle + 1, last) \in Seq(Cell)
  <2>1. middle \in Nat /\ n - need \in Nat /\ middle + (n - need) <= Len(a)
    BY <1>1 DEF middle
  <2>2. SubSeq(a, middle + 1, middle + (n - need)) \in Seq(Cell)
    BY <2>1, PartOf
  <2>. QED
    BY <1>2, <2>2 DEF middle, last
<1>. DEFINE s == SubSeq(a, begin, middle)
            t == SubSeq(a, middle + 1, last)
<1>. HIDE DEF s, t
<1>7. (s \o t) \o w = s \o (t \o w)
  <2>1. s \in Seq(Cell) /\ t \in Seq(Cell)
    BY <1>5, <1>6 DEF s, t
  <2>. QED
    BY <2>1, ConcatAssociative
<1>8. s = Cut(a, i, need) /\ t = Cut(a, i + need, n - need) /\ s \o t = Cut(a, i, n)
  BY <1>2, <1>4 DEF Cut, begin, middle, last, s, t
<1>. QED
  BY <1>7, <1>8 DEF Splits

\* readNext returns the first `need' cells of what is left, in the array that
\* the buffer has then, and leaves the rest.
LEMMA ReadKeeps ==
  ASSUME Fit(mem, buffer, wire), NEW need \in Nat, need > 0, NEW s \in ReadNext(need)
  PROVE  /\ Fit(s.mem, s.buf, s.wire)
         /\ Read(s) \in Seq(Cell) /\ Len(Read(s)) = need
         /\ Left(mem, buffer, wire) = Read(s) \o Left(s.mem, s.buf, s.wire)
         /\ s.slice.arr \in 1..Len(s.mem) /\ s.slice.arr = s.buf.arr
         /\ s.slice.from \in Nat /\ s.slice.len = need
         /\ s.slice.from + need <= Len(s.mem[s.slice.arr])
         /\ s.buf.flip = buffer.flip /\ Away(s.buf) = Away(buffer)
         /\ buffer.length = 0 \/ buffer.arr # Away(buffer) => s.buf.arr # Away(buffer)
         /\ \A i \in 1..Len(mem) : i # buffer.dbuf[buffer.flip + 1] =>
              i \in 1..Len(s.mem) /\ s.mem[i] = mem[i] /\ i # s.buf.dbuf[buffer.flip + 1]
<1>1. PICK t \in IF buffer.length >= need THEN {[mem |-> mem, buf |-> buffer, wire |-> wire]} ELSE Fill(need) :
        s = [mem |-> t.mem, wire |-> t.wire,
             buf |-> [t.buf EXCEPT !.idx = @ + need, !.length = @ - need],
             slice |-> [arr |-> t.buf.arr, from |-> t.buf.idx, len |-> need]]
  BY DEF ReadNext
<1>2. /\ Fit(t.mem, t.buf, t.wire)
      /\ Left(t.mem, t.buf, t.wire) = Left(mem, buffer, wire)
      /\ t.buf.length >= need
      /\ t.buf.flip = buffer.flip /\ Away(t.buf) = Away(buffer)
      /\ buffer.length = 0 \/ buffer.arr # Away(buffer) => t.buf.arr # Away(buffer)
      /\ \A i \in 1..Len(mem) : i # buffer.dbuf[buffer.flip + 1] =>
           i \in 1..Len(t.mem) /\ t.mem[i] = mem[i] /\ i # t.buf.dbuf[buffer.flip + 1]
  <2>1. CASE buffer.length >= need
    <3>1. t = [mem |-> mem, buf |-> buffer, wire |-> wire]
      BY <1>1, <2>1
    <3>2. t.mem = mem /\ t.buf = buffer /\ t.wire = wire
      BY <3>1
    <3>3. buffer.length # 0
      BY <2>1
    <3>. QED
      BY <2>1, <3>2, <3>3
  <2>2. CASE ~(buffer.length >= need)
    <3>1. buffer.length < need
      BY <2>2 DEF Fit
    <3>2. t \in Fill(need)
      BY <1>1, <2>2
    <3>. QED
      BY <3>1, <3>2, FillKeeps
  <2>. QED
    BY <2>1, <2>2
<1>3. /\ s.mem = t.mem /\ s.wire = t.wire
      /\ s.buf = [t.buf EXCEPT !.idx = @ + need, !.length = @ - need]
      /\ s.slice.arr = t.buf.arr /\ s.slice.from = t.buf.idx /\ s.slice.len = need
  BY <1>1
<1>4. /\ t.mem \in Seq(Seq(Cell)) /\ t.wire \in Seq(Cell)
      /\ t.buf \in [arr : 1..Len(t.mem), idx : Nat, length : Nat, dbuf : [1..2 -> 0..Len(t.mem)], flip : 0..1]
      /\ t.buf.idx + t.buf.length <= Len(t.mem[t.buf.arr])
  BY <1>2 DEF Fit
<1>5. t.mem[t.buf.arr] \in Seq(Cell) /\ Len(t.mem[t.buf.arr]) \in Nat
  <2>1. t.mem[t.buf.arr] \in Seq(Cell)
    BY <1>4, ElementOfSeq
  <2>. QED
    BY <2>1, LenProperties
<1>6. /\ s.buf \in [arr : 1..Len(t.mem), idx : Nat, length : Nat, dbuf : [1..2 -> 0..Len(t.mem)], flip : 0..1]
      /\ s.buf.arr = t.buf.arr /\ s.buf.idx = t.buf.idx + need /\ s.buf.length = t.buf.length - need
      /\ s.buf.dbuf = t.buf.dbuf /\ s.buf.flip = t.buf.flip
  <2>1. t.buf.idx + need \in Nat /\ t.buf.length - need \in Nat
    BY <1>2, <1>4
  <2>. QED
    BY <1>3, <1>4, <2>1
<1>7. Fit(s.mem, s.buf, s.wire)
  <2>1. s.buf.idx + s.buf.length <= Len(s.mem[s.buf.arr])
    BY <1>3, <1>4, <1>5, <1>6
  <2>2. /\ \A i \in 1..Len(s.mem) : Len(s.mem[i]) >= DefaultSize
        /\ s.buf.dbuf[1] # s.buf.dbuf[2]
    BY <1>2, <1>3, <1>6 DEF Fit
  <2>. QED
    BY <1>3, <1>4, <1>6, <2>1, <2>2 DEF Fit
<1>. DEFINE a == t.mem[t.buf.arr]
            i == t.buf.idx
            n == t.buf.length
<1>8. a \in Seq(Cell) /\ i \in Nat /\ n \in Nat /\ need <= n /\ i + n <= Len(a) /\ i + need <= Len(a)
      /\ t.wire \in Seq(Cell)
  BY <1>2, <1>4, <1>5
<1>9. Read(s) = Cut(a, i, need)
  BY <1>3 DEF Read, Cut
<1>10. /\ Left(t.mem, t.buf, t.wire) = Cut(a, i, n) \o t.wire
       /\ Left(s.mem, s.buf, s.wire) = Cut(a, i + need, n - need) \o t.wire
  BY <1>3, <1>6 DEF Left, Cut
<1>. HIDE DEF a, i, n
<1>11. Read(s) \in Seq(Cell) /\ Len(Read(s)) = need
  BY <1>8, <1>9, PartOf DEF Cut
<1>12. Left(mem, buffer, wire) = Read(s) \o Left(s.mem, s.buf, s.wire)
  <2>1. Cut(a, i, n) \o t.wire = Cut(a, i, need) \o (Cut(a, i + need, n - need) \o t.wire)
    <3>. DEFINE w == t.wire
    <3>1. a \in Seq(Cell) /\ w \in Seq(Cell) /\ i \in Nat /\ n \in Nat /\ need \in Nat
          /\ need <= n /\ i + n <= Len(a)
      BY <1>8
    <3>. HIDE DEF w
    <3>2. Splits(a, w, i, n, need)
      BY <3>1, LeftSplit
    <3>. QED
      BY <3>2 DEF w, Splits
  <2>. QED
    BY <1>2, <1>9, <1>10, <2>1
<1>13. s.slice.arr \in 1..Len(s.mem) /\ s.slice.arr = s.buf.arr
       /\ s.slice.from \in Nat /\ s.slice.len = need
       /\ s.slice.from + need <= Len(s.mem[s.slice.arr])
  BY <1>3, <1>4, <1>6, <1>8 DEF a, i
<1>14. Away(s.buf) = Away(t.buf)
  BY <1>6 DEF Away
<1>. QED
  BY <1>2, <1>3, <1>6, <1>7, <1>11, <1>12, <1>13, <1>14

-----------------------------------------------------------------------------
(* The inductive invariant.                                                *)

Arrays == Fit(mem, buffer, wire)

Control ==
  /\ answer \in Answers /\ answers \in 1..MaxAnswers /\ first \in Nat
  /\ reader \in [does : {"idle", "next", "skip"}, msg : 0..Len(answer), need : 0..MaxPacket, prev : Seq(Cell)]
  /\ sequence \in Nat
  /\ held \in [msg : 0..Len(answer), arr : Nat, from : Nat, len : Nat, copy : Seq(Cell)]
  /\ writer \in [at : {"none", "write", "ok", "noWrite", "invalid"}, arr : Nat, off : Nat, len : Nat, left : Nat]
  /\ got \in Seq(Cell)

\* What follows byte `from' of the k-th row, and what follows a packet of it.
RowFrom(k, from, seq) == Packets(k, answer[k], Rows(answer)[k + 1])[from][seq]
Behind(k, from, size, seq) ==
  IF size = MaxPacket THEN RowFrom(k, from + size, seq) ELSE Rows(answer)[k + 1][seq]

\* Between two rows, in front of a header, and in front of a body.
Between ==
  /\ reader.need = 0 /\ reader.prev = <<>>
  /\ Unread = Rows(answer)[reader.msg + 1][sequence]

Within ==
  LET k == reader.msg + 1
      from == Len(reader.prev)
  IN  /\ reader.msg < Len(answer) /\ from <= answer[k] /\ reader.prev = Payload(k, from)
      /\ reader.need = 0 => Unread = RowFrom(k, from, sequence)
      /\ reader.need > 0 =>
           /\ reader.need = Lesser(MaxPacket, answer[k] - from)
           /\ Unread = Part(k, from, reader.need) \o Behind(k, from, reader.need, sequence)

\* What the reader knows of the rest of the answer.
Reading ==
  writer.at = "none" =>
    /\ Ends(Unread, AllRows(answer, first))
    /\ IF reader.does = "idle" THEN Between ELSE Within

\* Nothing of the answer was read yet.
Untouched == buffer.length = 0 /\ reader.msg = 0 /\ reader.need = 0 /\ reader.prev = <<>>

\* Where the buffer is, and where the row that the caller looks at.
BufferApart ==
  writer.at = "none" /\ reader.does # "skip" /\ reader.msg < Len(answer) =>
    Untouched \/ buffer.arr # Away(buffer)

RowApart ==
  held.msg # 0 =>
    /\ writer.at = "none" /\ reader.does # "next"
    /\ held.arr # 0 =>
         /\ held.arr \in 1..Len(mem) /\ held.from + held.len <= Len(mem[held.arr])
         /\ reader.does = "skip" => held.arr # buffer.dbuf[buffer.flip + 1]
         /\ reader.does = "idle" /\ reader.msg < Len(answer) => held.arr # Away(buffer)

\* How far the command has got.
Quiet ==
  writer.at # "none" =>
    /\ reader.does = "idle" /\ reader.need = 0 /\ reader.prev = <<>>
    /\ buffer.length = 0

Writing ==
  writer.at = "write" =>
    /\ writer.arr \in 1..Len(mem) /\ writer.len + 1 <= Len(mem[writer.arr])
    /\ writer.off + writer.left = writer.len
    /\ \A i \in writer.off + 2..writer.len + 1 : mem[writer.arr][i] = [msg |-> 0, at |-> i - 1]
    /\ got \o Packets(0, writer.len, NoMore)[writer.off][sequence] = AsFramed(writer.len)

IInv ==
  /\ Arrays /\ Control /\ Reading /\ BufferApart /\ RowApart /\ RowIntact
  /\ Quiet /\ Writing /\ WrittenAsFramed

-----------------------------------------------------------------------------
\* What is on the wire in front of a packet and behind it.
LEMMA RowFacts ==
  ASSUME answer \in Answers, NEW k \in 1..Len(answer), NEW from \in 0..answer[k], NEW seq \in Nat
  PROVE  LET size == Lesser(MaxPacket, answer[k] - from) IN
         /\ answer[k] \in Nat /\ size \in 0..MaxPacket
         /\ RowFrom(k, from, seq) = <<Header(size, seq)>> \o (Part(k, from, size) \o Behind(k, from, size, seq + 1))
         /\ <<Header(size, seq)>> \in Seq(Cell) /\ Part(k, from, size) \in Seq(Cell)
         /\ Behind(k, from, size, seq) \in Seq(Cell)
         /\ RowFrom(k, from, seq) \in Seq(Cell)
         /\ Rows(answer)[k][seq] = RowFrom(k, 0, seq)
         /\ Rows(answer)[k + 1][seq] \in Seq(Cell)
<1>. DEFINE size == Lesser(MaxPacket, answer[k] - from)
            rest == Rows(answer)[k + 1]
            packets == Packets(k, answer[k], rest)
<1>1. answer \in Seq(Nat) /\ Len(answer) \in Nat /\ answer[k] \in Nat /\ k \in Nat /\ from \in Nat
  <2>1. answer \in Seq(Nat)
    BY PacketIOAssumption
  <2>. QED
    BY <2>1, ElementOfSeq, LenProperties
<1>2. rest \in Sent
  <2>1. k + 1 \in 1..Len(answer) + 1
    BY <1>1
  <2>. QED
    BY <1>1, <2>1, RowsTyped
<1>3. \A f \in 0..answer[k] : packets[f] \in Sent
  <2>. HIDE DEF rest
  <2>. QED
    BY <1>1, <1>2, PacketsTyped
<1>4. size \in 0..MaxPacket /\ size \in Nat /\ from + size \in 0..answer[k]
  BY <1>1, PacketSize
<1>5. seq + 1 \in Nat
  OBVIOUS
<1>6. \A f, q : RowFrom(k, f, q) = packets[f][q]
  BY DEF RowFrom
<1>. HIDE DEF packets
<1>7. /\ Behind(k, from, size, seq) = IF size = MaxPacket THEN packets[from + size][seq] ELSE rest[seq]
      /\ Behind(k, from, size, seq + 1) = IF size = MaxPacket THEN packets[from + size][seq + 1] ELSE rest[seq + 1]
      /\ packets[from][seq] = <<Header(size, seq)>> \o Part(k, from, size)
           \o (IF size = MaxPacket THEN packets[from + size][seq + 1] ELSE rest[seq + 1])
  <2>. DEFINE len == answer[k]
              z == Lesser(MaxPacket, len - from)
  <2>1. from \in 0..len /\ len \in Nat /\ size = z
    BY <1>1
  <2>. HIDE DEF size, rest, z
  <2>2. /\ Behind(k, from, size, seq) = IF size = MaxPacket THEN packets[from + size][seq] ELSE rest[seq]
        /\ Behind(k, from, size, seq + 1) = IF size = MaxPacket THEN packets[from + size][seq + 1] ELSE rest[seq + 1]
    BY <1>6 DEF Behind, rest
  <2>. HIDE DEF len
  <2>3. packets[from][seq] = <<Header(z, seq)>> \o Part(k, from, z)
           \o (IF z = MaxPacket THEN packets[from + z][seq + 1] ELSE rest[seq + 1])
    <3>1. Unfolds(k, len, rest, from, seq, z)
      BY <2>1, PacketsAt DEF z
    <3>. QED
      BY <3>1 DEF Unfolds, packets, len
  <2>. QED
    BY <2>1, <2>2, <2>3
<1>. HIDE DEF rest, size
<1>8. <<Header(size, seq)>> \in Seq(Cell) /\ Part(k, from, size) \in Seq(Cell)
  BY <1>1, <1>4, CellsTyped
<1>9. /\ rest[seq] \in Seq(Cell) /\ rest[seq + 1] \in Seq(Cell)
      /\ packets[from][seq] \in Seq(Cell)
      /\ packets[from + size][seq] \in Seq(Cell) /\ packets[from + size][seq + 1] \in Seq(Cell)
  BY <1>2, <1>3, <1>4, <1>5 DEF Sent
<1>10. Behind(k, from, size, seq + 1) \in Seq(Cell) /\ Behind(k, from, size, seq) \in Seq(Cell)
  <2>1. CASE size = MaxPacket
    BY <1>7, <1>9, <2>1
  <2>2. CASE size # MaxPacket
    BY <1>7, <1>9, <2>2
  <2>. QED
    BY <2>1, <2>2
<1>11. RowFrom(k, from, seq) = <<Header(size, seq)>> \o (Part(k, from, size) \o Behind(k, from, size, seq + 1))
  <2>1. RowFrom(k, from, seq) = (<<Header(size, seq)>> \o Part(k, from, size)) \o Behind(k, from, size, seq + 1)
    <3>1. RowFrom(k, from, seq) = packets[from][seq]
      BY <1>6
    <3>. QED
      BY <1>7, <3>1
  <2>. DEFINE h == <<Header(size, seq)>>
              p == Part(k, from, size)
              e == Behind(k, from, size, seq + 1)
  <2>2. h \in Seq(Cell) /\ p \in Seq(Cell) /\ e \in Seq(Cell)
    BY <1>8, <1>10
  <2>. HIDE DEF h, p, e
  <2>3. (h \o p) \o e = h \o (p \o e)
    BY <2>2, ConcatAssociative
  <2>. QED
    BY <2>1, <2>3 DEF h, p, e
<1>12. Rows(answer)[k][seq] = RowFrom(k, 0, seq)
  BY <1>1, RowsAt DEF RowFrom
<1>. QED
  BY <1>1, <1>4, <1>6, <1>8, <1>9, <1>10, <1>11, <1>12 DEF size, rest

-----------------------------------------------------------------------------
\* What readNext does to the state.
LEMMA TookKeeps ==
  ASSUME Arrays, NEW need \in Nat, need > 0, NEW s \in ReadNext(need), Took(s)
  PROVE  /\ Arrays'
         /\ Read(s) \in Seq(Cell) /\ Len(Read(s)) = need
         /\ Unread = Read(s) \o Unread' /\ Unread' \in Seq(Cell)
         /\ s.slice.arr \in 1..Len(mem') /\ s.slice.arr = buffer'.arr
         /\ s.slice.from \in Nat /\ s.slice.len = need
         /\ s.slice.from + need <= Len(mem'[s.slice.arr])
         /\ Read(s) = SubSeq(mem'[s.slice.arr], s.slice.from + 1, s.slice.from + s.slice.len)
         /\ Away(buffer') = Away(buffer)
         /\ buffer.length = 0 \/ buffer.arr # Away(buffer) => buffer'.arr # Away(buffer')
         /\ \A i \in 1..Len(mem) : i # buffer.dbuf[buffer.flip + 1] =>
              i \in 1..Len(mem') /\ mem'[i] = mem[i] /\ i # buffer'.dbuf[buffer'.flip + 1]
<1>1. mem' = s.mem /\ buffer' = s.buf /\ wire' = s.wire
  BY DEF Took
<1>2. Fit(mem, buffer, wire)
  BY DEF Arrays
<1>3. /\ Fit(s.mem, s.buf, s.wire)
      /\ Left(mem, buffer, wire) = Read(s) \o Left(s.mem, s.buf, s.wire)
      /\ s.buf.flip = buffer.flip /\ Away(s.buf) = Away(buffer)
  BY <1>2, ReadKeeps
<1>4. /\ Read(s) \in Seq(Cell) /\ Len(Read(s)) = need
      /\ s.slice.arr \in 1..Len(s.mem) /\ s.slice.arr = s.buf.arr
      /\ s.slice.from \in Nat /\ s.slice.len = need
      /\ s.slice.from + need <= Len(s.mem[s.slice.arr])
  BY <1>2, ReadKeeps
<1>5. /\ buffer.length = 0 \/ buffer.arr # Away(buffer) => s.buf.arr # Away(buffer)
      /\ \A i \in 1..Len(mem) : i # buffer.dbuf[buffer.flip + 1] =>
           i \in 1..Len(s.mem) /\ s.mem[i] = mem[i] /\ i # s.buf.dbuf[buffer.flip + 1]
  BY <1>2, ReadKeeps
<1>6. Arrays'
  BY <1>1, <1>3 DEF Arrays
<1>7. Unread = Left(mem, buffer, wire) /\ Unread' = Left(s.mem, s.buf, s.wire)
  BY <1>1 DEF Unread, Left
<1>8. Unread' \in Seq(Cell)
  <2>. DEFINE a == s.mem[s.buf.arr]
              i == s.buf.idx
              n == s.buf.length
              w == s.wire
  <2>1. /\ s.mem \in Seq(Seq(Cell)) /\ s.buf.arr \in 1..Len(s.mem)
        /\ i \in Nat /\ n \in Nat /\ i + n <= Len(a) /\ w \in Seq(Cell)
    BY <1>3 DEF Fit
  <2>2. a \in Seq(Cell)
    BY <2>1, ElementOfSeq
  <2>3. Unread' = SubSeq(a, i + 1, i + n) \o w
    BY <1>7 DEF Left
  <2>. HIDE DEF a, i, n, w
  <2>4. SubSeq(a, i + 1, i + n) \in Seq(Cell)
    BY <2>1, <2>2, PartOf
  <2>. QED
    BY <2>1, <2>3, <2>4, ConcatProperties
<1>9. Read(s) = SubSeq(mem'[s.slice.arr], s.slice.from + 1, s.slice.from + s.slice.len)
  BY <1>1 DEF Read
<1>. QED
  BY <1>1, <1>3, <1>4, <1>5, <1>6, <1>7, <1>8, <1>9

\* The invariant while a packet is read: nothing is written.
LEMMA ReadingQuiet ==
  ASSUME Quiet, Reading, Control, reader.does \in {"next", "skip"}
  PROVE  writer.at = "none" /\ Within /\ Ends(Unread, AllRows(answer, first))
<1>1. writer.at = "none"
  BY DEF Quiet
<1>. QED
  BY <1>1 DEF Reading

\* The row that the caller looks at while the rest is dropped.
LEMMA RowKept ==
  ASSUME Arrays, Control, RowApart, RowIntact,
         NEW need \in Nat, need > 0, NEW s \in ReadNext(need), Took(s),
         UNCHANGED <<answer, writer, held>>,
         reader.does = "skip" \/ held.msg = 0,
         held.msg # 0 => reader'.does = "skip" \/ (reader'.does = "idle" /\ reader'.msg = Len(answer))
  PROVE  RowApart' /\ RowIntact'
<1>1. CASE held.msg = 0
  BY <1>1 DEF RowApart, RowIntact
<1>2. CASE held.msg # 0 /\ held.arr = 0
  <2>1. writer.at = "none"
    BY <1>2 DEF RowApart
  <2>2. RowApart'
    BY <1>2, <2>1 DEF RowApart
  <2>3. RowIntact'
    BY <1>2 DEF RowIntact
  <2>. QED
    BY <2>2, <2>3
<1>3. CASE held.msg # 0 /\ held.arr # 0
  <2>1. /\ writer.at = "none" /\ held.arr \in 1..Len(mem) /\ held.from + held.len <= Len(mem[held.arr])
        /\ held.arr # buffer.dbuf[buffer.flip + 1]
    BY <1>3 DEF RowApart
  <2>2. held.arr \in 1..Len(mem') /\ mem'[held.arr] = mem[held.arr] /\ held.arr # buffer'.dbuf[buffer'.flip + 1]
    BY <2>1, TookKeeps
  <2>3. Len(answer) \in Nat
    BY PacketIOAssumption, LenProperties DEF Control
  <2>4. ~(reader'.does = "idle" /\ reader'.msg < Len(answer))
    BY <1>3, <2>3
  <2>5. RowApart'
    BY <1>3, <2>1, <2>2, <2>4 DEF RowApart
  <2>6. RowIntact'
    BY <1>3, <2>2 DEF RowIntact
  <2>. QED
    BY <2>5, <2>6
<1>. QED
  BY <1>1, <1>2, <1>3

ReaderType == [does : {"idle", "next", "skip"}, msg : 0..Len(answer), need : 0..MaxPacket, prev : Seq(Cell)]
HeldType == [msg : 0..Len(answer), arr : Nat, from : Nat, len : Nat, copy : Seq(Cell)]

\* A part of a packet is read, and the reader goes on with it.
LEMMA Continued ==
  ASSUME IInv, reader.does \in {"next", "skip"},
         NEW need \in Nat, need > 0, NEW s \in ReadNext(need), Took(s),
         UNCHANGED <<answer, first, answers, writer, got, held>>,
         reader' \in ReaderType, reader'.does = reader.does, reader'.msg = reader.msg, sequence' \in Nat,
         Within', Ends(Unread', AllRows(answer, first))
  PROVE  IInv'
<1>1. writer.at = "none"
  BY ReadingQuiet DEF IInv
<1>2. Arrays'
  BY TookKeeps DEF IInv
<1>3. Control'
  BY DEF IInv, Control, ReaderType
<1>4. Reading'
  BY <1>1 DEF Reading
<1>5. BufferApart'
  <2>1. SUFFICES ASSUME reader.does # "skip", reader.msg < Len(answer)
                 PROVE  buffer'.arr # Away(buffer')
    BY DEF BufferApart
  <2>2. buffer.length = 0 \/ buffer.arr # Away(buffer)
    BY <1>1, <2>1 DEF IInv, BufferApart, Untouched
  <2>. QED
    BY <2>2, TookKeeps DEF IInv
<1>6. RowApart' /\ RowIntact'
  <2>1. reader.does = "skip" \/ held.msg = 0
    BY DEF IInv, RowApart
  <2>2. held.msg # 0 => reader'.does = "skip"
    BY <2>1
  <2>. QED
    BY <2>1, <2>2, RowKept DEF IInv
<1>7. Quiet' /\ Writing' /\ WrittenAsFramed'
  BY <1>1 DEF Quiet, Writing, WrittenAsFramed
<1>. QED
  BY <1>2, <1>3, <1>4, <1>5, <1>6, <1>7 DEF IInv

\* The last part of a packet is read, and the row is whole.
LEMMA Returned ==
  ASSUME IInv, reader.does \in {"next", "skip"}, reader.msg < Len(answer),
         NEW need \in Nat, need > 0, NEW s \in ReadNext(need), Took(s),
         UNCHANGED <<answer, first, answers, writer, got>>, sequence' \in Nat,
         NEW row \in HeldType, Return(row), row.msg # 0,
         Unread' = Rows(answer)[reader.msg + 2][sequence'], Ends(Unread', AllRows(answer, first)),
         row.arr = 0 => row.copy = Payload(row.msg, answer[row.msg]),
         row.arr # 0 =>
           /\ row.arr = s.slice.arr /\ row.from = s.slice.from /\ row.len = s.slice.len
           /\ Read(s) = Payload(row.msg, answer[row.msg])
  PROVE  IInv'
<1>1. writer.at = "none"
  BY ReadingQuiet DEF IInv
<1>2. answer \in Answers /\ answer \in Seq(Nat) /\ Len(answer) \in Nat /\ reader.msg \in Nat /\ reader.msg + 1 \in 1..Len(answer)
  <2>1. answer \in Answers /\ answer \in Seq(Nat) /\ reader.msg \in 0..Len(answer)
    BY PacketIOAssumption DEF IInv, Control
  <2>2. Len(answer) \in Nat
    BY <2>1, LenProperties
  <2>. QED
    BY <2>1, <2>2
<1>3. Arrays'
  BY TookKeeps DEF IInv
<1>4. /\ reader' \in ReaderType /\ reader'.msg = reader.msg + 1 /\ reader'.need = 0 /\ reader'.prev = <<>>
      /\ reader'.does = IF reader.does = "skip" /\ reader.msg + 1 < Len(answer) THEN "skip" ELSE "idle"
  <2>1. 0 \in 0..MaxPacket /\ <<>> \in Seq(Cell)
    BY PacketIOAssumption
  <2>. QED
    BY <1>2, <2>1 DEF Return, ReaderType
<1>5. Control'
  <2>1. held' \in HeldType
    BY DEF Return, IInv, Control, HeldType
  <2>. QED
    BY <1>4, <2>1 DEF IInv, Control, ReaderType, HeldType
<1>6. Reading'
  <2>1. CASE reader'.does = "idle"
    <3>1. reader.msg + 2 = reader'.msg + 1
      BY <1>2, <1>4
    <3>2. Between'
      BY <1>4, <3>1 DEF Between
    <3>. QED
      BY <1>1, <2>1, <3>2 DEF Reading
  <2>2. CASE reader'.does # "idle"
    <3>. DEFINE k == reader.msg + 2
    <3>1. reader'.msg < Len(answer) /\ k \in 1..Len(answer) /\ reader'.msg + 1 = k /\ 0 \in 0..answer[k]
      <4>1. reader.msg + 1 < Len(answer) /\ k \in 1..Len(answer)
        BY <1>2, <1>4, <2>2
      <4>2. answer[k] \in Nat
        BY <1>2, <4>1, ElementOfSeq
      <4>. QED
        BY <1>2, <1>4, <4>1, <4>2
    <3>. HIDE DEF k
    <3>2. Rows(answer)[k][sequence'] = RowFrom(k, 0, sequence')
      BY <1>2, <3>1, RowFacts
    <3>3. Unread' = Packets(k, answer[k], Rows(answer)[k + 1])[0][sequence']
      BY <3>2 DEF RowFrom, k
    <3>4. Payload(k, 0) = <<>> /\ Len(<<>>) = 0
      BY <1>2, <3>1, PayloadEmpty
    <3>5. Within'
      <4>1. /\ reader'.need = 0 /\ Len(reader'.prev) = 0 /\ reader'.prev = Payload(k, 0)
            /\ 0 <= answer[k] /\ ~(reader'.need > 0)
        BY <1>4, <3>1, <3>4
      <4>. QED
        BY <3>1, <3>3, <4>1 DEF Within, RowFrom
    <3>. QED
      BY <1>1, <2>2, <3>5 DEF Reading
  <2>. QED
    BY <2>1, <2>2
<1>7. BufferApart' /\ (reader.does = "next" /\ reader.msg + 1 < Len(answer) => buffer'.arr # Away(buffer'))
  <2>1. ASSUME reader.does = "next" PROVE buffer'.arr # Away(buffer')
    <3>1. buffer.length = 0 \/ buffer.arr # Away(buffer)
      BY <1>1, <2>1 DEF IInv, BufferApart, Untouched
    <3>. QED
      BY <3>1, TookKeeps DEF IInv
  <2>2. reader'.does # "skip" /\ reader'.msg < Len(answer) => reader.does = "next"
    BY <1>2, <1>4
  <2>. QED
    BY <2>1, <2>2 DEF BufferApart
<1>8. RowApart' /\ RowIntact'
  <2>1. CASE reader.does = "skip"
    <3>1. held' = held
      BY <2>1 DEF Return
    <3>2. held.msg # 0 => reader'.does = "skip" \/ (reader'.does = "idle" /\ reader'.msg = Len(answer))
      BY <1>2, <1>4, <2>1
    <3>. QED
      BY <2>1, <3>1, <3>2, RowKept DEF IInv
  <2>2. CASE reader.does = "next"
    <3>1. held' = row /\ reader'.does = "idle"
      BY <1>4, <2>2 DEF Return
    <3>2. RowApart'
      <4>1. SUFFICES ASSUME row.arr # 0
                     PROVE  /\ row.arr \in 1..Len(mem') /\ row.from + row.len <= Len(mem'[row.arr])
                            /\ reader'.msg < Len(answer) => row.arr # Away(buffer')
        BY <1>1, <3>1 DEF RowApart
      <4>2. /\ s.slice.arr \in 1..Len(mem') /\ s.slice.arr = buffer'.arr /\ s.slice.len = need
            /\ s.slice.from + need <= Len(mem'[s.slice.arr])
        BY TookKeeps DEF IInv
      <4>. QED
        BY <1>4, <1>7, <2>2, <4>1, <4>2
    <3>3. RowIntact'
      <4>1. Read(s) = SubSeq(mem'[s.slice.arr], s.slice.from + 1, s.slice.from + s.slice.len)
        BY TookKeeps DEF IInv
      <4>. QED
        BY <3>1, <4>1 DEF RowIntact
    <3>. QED
      BY <3>2, <3>3
  <2>. QED
    BY <2>1, <2>2
<1>9. Quiet' /\ Writing' /\ WrittenAsFramed'
  BY <1>1 DEF Quiet, Writing, WrittenAsFramed
<1>. QED
  BY <1>3, <1>5, <1>6, <1>7, <1>8, <1>9 DEF IInv

\* Where the reader is in the answer.
LEMMA ReaderPlace ==
  ASSUME IInv, reader.does \in {"next", "skip"}
  PROVE  /\ answer \in Answers /\ reader.msg \in Nat /\ sequence \in Nat
         /\ reader.msg + 1 \in 1..Len(answer) /\ reader.msg < Len(answer) /\ reader.msg + 1 \in 0..Len(answer)
         /\ answer[reader.msg + 1] \in Nat /\ Len(reader.prev) \in 0..answer[reader.msg + 1]
         /\ reader.prev \in Seq(Cell) /\ reader.prev = Payload(reader.msg + 1, Len(reader.prev))
         /\ Within /\ Ends(Unread, AllRows(answer, first))
<1>1. Within /\ Ends(Unread, AllRows(answer, first))
  BY ReadingQuiet DEF IInv
<1>2. /\ answer \in Answers /\ answer \in Seq(Nat) /\ reader.msg \in 0..Len(answer) /\ sequence \in Nat
      /\ reader.prev \in Seq(Cell)
  BY PacketIOAssumption DEF IInv, Control
<1>3. Len(answer) \in Nat /\ Len(reader.prev) \in Nat
  BY <1>2, LenProperties
<1>4. reader.msg + 1 \in 1..Len(answer)
  BY <1>1, <1>2, <1>3 DEF Within
<1>5. answer[reader.msg + 1] \in Nat
  BY <1>2, <1>4, ElementOfSeq
<1>. QED
  BY <1>1, <1>2, <1>3, <1>4, <1>5 DEF Within

LEMMA ReadHeaderKeeps ==
  ASSUME IInv, ReadHeader
  PROVE  IInv'
<1>0. reader.does \in {"next", "skip"} /\ reader.need = 0
  BY DEF ReadHeader
<1>. DEFINE k == reader.msg + 1
            from == Len(reader.prev)
            size == Lesser(MaxPacket, answer[k] - from)
            h == <<Header(size, sequence)>>
            e == Part(k, from, size) \o Behind(k, from, size, sequence + 1)
<1>1. PICK s \in ReadNext(1) :
        /\ Took(s) /\ sequence' = sequence + 1
        /\ IF Read(s)[1].len = 0
           THEN Return([Row(s.slice, reader.prev) EXCEPT !.arr = 0])
           ELSE reader' = [reader EXCEPT !.need = Read(s)[1].len] /\ UNCHANGED held
  BY DEF ReadHeader
<1>2. UNCHANGED <<answer, first, answers, writer, got>>
  BY DEF ReadHeader
<1>3. /\ answer \in Answers /\ reader.msg \in Nat /\ sequence \in Nat /\ k \in 1..Len(answer)
      /\ reader.msg < Len(answer) /\ k \in 0..Len(answer)
      /\ answer[k] \in Nat /\ from \in 0..answer[k] /\ reader.prev \in Seq(Cell) /\ reader.prev = Payload(k, from)
      /\ Within /\ Ends(Unread, AllRows(answer, first))
  BY <1>0, ReaderPlace
<1>4. /\ size \in 0..MaxPacket /\ size \in Nat /\ (size = 0 <=> from = answer[k])
  BY <1>3, PacketSize
<1>5. Unread = RowFrom(k, from, sequence)
  BY <1>0, <1>3 DEF Within
<1>6. /\ RowFrom(k, from, sequence) = h \o e /\ h \in Seq(Cell)
      /\ Part(k, from, size) \in Seq(Cell)
  <2>. HIDE DEF k, from
  <2>. QED
    BY <1>3, RowFacts
<1>7. Behind(k, from, size, sequence + 1) \in Seq(Cell) /\ Rows(answer)[k + 1][sequence + 1] \in Seq(Cell)
  <2>1. sequence + 1 \in Nat
    BY <1>3
  <2>. HIDE DEF k, from
  <2>. QED
    BY <1>3, <2>1, RowFacts
<1>. HIDE DEF k, from, size
<1>8. e \in Seq(Cell)
  BY <1>6, <1>7, ConcatProperties
<1>. HIDE DEF e
<1>9. Read(s) = h /\ Unread' = e
  <2>1. /\ Read(s) \in Seq(Cell) /\ Len(Read(s)) = 1
        /\ Unread = Read(s) \o Unread' /\ Unread' \in Seq(Cell)
    <3>1. 1 \in Nat /\ 1 > 0 /\ Arrays /\ Took(s)
      BY <1>1 DEF IInv
    <3>2. Read(s) \in Seq(Cell) /\ Len(Read(s)) = 1
      BY <3>1, TookKeeps
    <3>3. Unread = Read(s) \o Unread'
      BY <3>1, TookKeeps
    <3>4. Unread' \in Seq(Cell)
      BY <3>1, TookKeeps
    <3>. QED
      BY <3>2, <3>3, <3>4
  <2>2. Len(h) = 1
    OBVIOUS
  <2>. DEFINE u == Unread'
              r == Read(s)
  <2>. HIDE DEF h, u, r
  <2>3. r \o u = h \o e /\ r \in Seq(Cell) /\ u \in Seq(Cell) /\ h \in Seq(Cell) /\ e \in Seq(Cell) /\ Len(r) = Len(h)
    BY <1>5, <1>6, <1>8, <2>1, <2>2 DEF u, r
  <2>4. r = h /\ u = e
    BY <2>3, SameStart
  <2>. QED
    BY <2>4 DEF u, r
<1>10. Read(s)[1].len = size
  BY <1>9 DEF Header
<1>11. Ends(Unread', AllRows(answer, first))
  <2>. DEFINE u == Unread
  <2>1. u = h \o e /\ Ends(u, AllRows(answer, first))
    BY <1>3, <1>5, <1>6
  <2>. HIDE DEF h, u
  <2>2. Ends(e, AllRows(answer, first))
    BY <1>6, <1>8, <2>1, EndsTail
  <2>. QED
    BY <1>9, <2>2
<1>12. sequence' \in Nat
  BY <1>1, <1>3
<1>13. CASE size = 0
  <2>. DEFINE row == [Row(s.slice, reader.prev) EXCEPT !.arr = 0]
  <2>1. Return(row)
    BY <1>1, <1>10, <1>13
  <2>2. s.slice.from \in Nat /\ s.slice.len = 1
    BY <1>1, TookKeeps DEF IInv
  <2>3. row.msg = k /\ row.arr = 0 /\ row.copy = reader.prev
    BY DEF Row, k
  <2>4. row \in HeldType
    BY <1>3, <2>2 DEF Row, k, HeldType
  <2>5. row.copy = Payload(row.msg, answer[row.msg]) /\ row.msg # 0
    BY <1>3, <1>4, <1>13, <2>3
  <2>6. Unread' = Rows(answer)[reader.msg + 2][sequence']
    <3>1. Part(k, from, size) = <<>>
      <4>1. k \in Nat /\ from \in Nat
        BY <1>3
      <4>2. Part(k, from, size) \in Seq(Cell) /\ Len(Part(k, from, size)) = 0
        BY <1>4, <1>13, <4>1, CellsTyped
      <4>. QED
        BY <4>2, EmptySeq
    <3>2. Behind(k, from, size, sequence + 1) = Rows(answer)[k + 1][sequence + 1]
      BY <1>13, PacketIOAssumption DEF Behind
    <3>3. e = Rows(answer)[k + 1][sequence + 1]
      BY <1>7, <3>1, <3>2, ConcatEmptySeq DEF e
    <3>4. k + 1 = reader.msg + 2
      BY <1>3 DEF k
    <3>. QED
      BY <1>1, <1>9, <3>3, <3>4
  <2>. HIDE DEF row
  <2>. QED
    BY <1>0, <1>1, <1>2, <1>3, <1>11, <1>12, <2>1, <2>3, <2>4, <2>5, <2>6, Returned
<1>14. CASE size # 0
  <2>1. reader' = [reader EXCEPT !.need = size] /\ UNCHANGED held
    BY <1>1, <1>10, <1>14
  <2>2. reader \in ReaderType
    BY DEF IInv, Control, ReaderType
  <2>3. /\ reader' \in ReaderType /\ reader'.does = reader.does /\ reader'.msg = reader.msg
        /\ reader'.need = size /\ reader'.prev = reader.prev
    BY <1>4, <2>1, <2>2 DEF ReaderType
  <2>4. Within'
    <3>1. /\ reader'.msg + 1 = k /\ Len(reader'.prev) = from /\ answer' = answer
          /\ reader'.msg < Len(answer) /\ from <= answer[k] /\ reader'.prev = Payload(k, from)
          /\ ~(reader'.need = 0) /\ reader'.need = Lesser(MaxPacket, answer[k] - from)
      BY <1>2, <1>3, <1>4, <1>14, <2>3 DEF k, from, size
    <3>2. Unread' = Part(k, from, size) \o Behind(k, from, size, sequence')
      BY <1>1, <1>9 DEF e
    <3>3. Unread' = Part(k, from, reader'.need) \o
            (IF reader'.need = MaxPacket
             THEN Packets(k, answer[k], Rows(answer)[k + 1])[from + reader'.need][sequence']
             ELSE Rows(answer)[k + 1][sequence'])
      BY <2>3, <3>2 DEF Behind, RowFrom
    <3>. QED
      BY <3>1, <3>3 DEF Within, Behind, RowFrom
  <2>. QED
    BY <1>0, <1>1, <1>2, <1>11, <1>12, <2>1, <2>3, <2>4, Continued
<1>. QED
  BY <1>13, <1>14

LEMMA ReadBodyKeeps ==
  ASSUME IInv, ReadBody
  PROVE  IInv'
<1>0. reader.need > 0 /\ reader.does \in {"next", "skip"} /\ reader.need \in Nat /\ MaxPacket \in Nat
  <2>1. reader.need > 0 /\ reader.need \in 0..MaxPacket /\ MaxPacket \in Nat
    BY PacketIOAssumption DEF ReadBody, IInv, Control
  <2>2. CASE writer.at # "none"
    BY <2>1, <2>2 DEF IInv, Quiet
  <2>3. CASE writer.at = "none"
    <3>1. reader.does = "idle" => reader.need = 0
      BY <2>3 DEF IInv, Reading, Between
    <3>. QED
      BY <2>1, <3>1 DEF IInv, Control
  <2>. QED
    BY <2>1, <2>2, <2>3
<1>. DEFINE k == reader.msg + 1
            from == Len(reader.prev)
            need == reader.need
            p == Part(k, from, need)
            e == Behind(k, from, need, sequence)
<1>1. PICK s \in ReadNext(need) :
        /\ Took(s)
        /\ IF need < MaxPacket
           THEN Return(IF reader.prev = <<>> THEN Row(s.slice, <<>>)
                       ELSE [Row(s.slice, Join(reader.prev, Read(s))) EXCEPT !.arr = 0])
           ELSE reader' = [reader EXCEPT !.need = 0, !.prev = Join(@, Read(s))] /\ UNCHANGED held
  BY DEF ReadBody
<1>2. UNCHANGED <<answer, first, answers, sequence, writer, got>>
  BY DEF ReadBody
<1>3. /\ answer \in Answers /\ reader.msg \in Nat /\ sequence \in Nat /\ k \in 1..Len(answer)
      /\ reader.msg < Len(answer) /\ k \in 0..Len(answer)
      /\ answer[k] \in Nat /\ from \in 0..answer[k] /\ reader.prev \in Seq(Cell) /\ reader.prev = Payload(k, from)
      /\ Within /\ Ends(Unread, AllRows(answer, first))
  BY <1>0, ReaderPlace
<1>4. /\ need = Lesser(MaxPacket, answer[k] - from) /\ need \in 0..MaxPacket
      /\ from + need \in 0..answer[k] /\ (need # MaxPacket => from + need = answer[k])
  <2>1. need = Lesser(MaxPacket, answer[k] - from)
    BY <1>0, <1>3 DEF Within
  <2>. HIDE DEF need, k, from
  <2>. QED
    BY <1>3, <2>1, PacketSize
<1>5. Unread = p \o e
  BY <1>0, <1>3 DEF Within
<1>6. p \in Seq(Cell) /\ Len(p) = need /\ k \in Nat /\ from \in Nat
  <2>1. k \in Nat /\ from \in Nat /\ need \in Nat
    BY <1>0, <1>3
  <2>. HIDE DEF k, from, need
  <2>. QED
    BY <2>1, CellsTyped
<1>7. e \in Seq(Cell)
  <2>. HIDE DEF k, from, need
  <2>1. Behind(k, from, Lesser(MaxPacket, answer[k] - from), sequence) \in Seq(Cell)
    BY <1>3, RowFacts
  <2>. QED
    BY <1>4, <2>1
<1>. HIDE DEF k, from, need, p, e
<1>8. Read(s) = p /\ Unread' = e
  <2>1. /\ Read(s) \in Seq(Cell) /\ Len(Read(s)) = need
        /\ Unread = Read(s) \o Unread' /\ Unread' \in Seq(Cell)
    <3>1. need \in Nat /\ need > 0 /\ Arrays /\ Took(s)
      BY <1>0, <1>1 DEF IInv, need
    <3>2. Read(s) \in Seq(Cell) /\ Len(Read(s)) = need
      BY <3>1, TookKeeps
    <3>3. Unread = Read(s) \o Unread'
      BY <3>1, TookKeeps
    <3>4. Unread' \in Seq(Cell)
      BY <3>1, TookKeeps
    <3>. QED
      BY <3>2, <3>3, <3>4
  <2>. DEFINE u == Unread'
              r == Read(s)
  <2>. HIDE DEF u, r
  <2>3. r \o u = p \o e /\ r \in Seq(Cell) /\ u \in Seq(Cell) /\ Len(r) = Len(p)
    BY <1>5, <1>6, <2>1 DEF u, r
  <2>4. r = p /\ u = e
    BY <1>6, <1>7, <2>3, SameStart
  <2>. QED
    BY <2>4 DEF u, r
<1>9. Ends(Unread', AllRows(answer, first))
  <2>. DEFINE u == Unread
  <2>1. u = p \o e /\ Ends(u, AllRows(answer, first))
    BY <1>3, <1>5
  <2>. HIDE DEF u
  <2>2. Ends(e, AllRows(answer, first))
    BY <1>6, <1>7, <2>1, EndsTail
  <2>. QED
    BY <1>8, <2>2
<1>10. Join(reader.prev, Read(s)) = Payload(k, from + need) /\ Len(Payload(k, from + need)) = from + need
       /\ Payload(k, from + need) \in Seq(Cell)
  <2>1. Join(reader.prev, Read(s)) = Payload(k, from) \o Part(k, from, need)
    BY <1>3, <1>8 DEF Join, p
  <2>2. from + need \in Nat /\ need \in Nat /\ 0 \in Nat
    BY <1>4, <1>6
  <2>3. Payload(k, from) \o Part(k, from, need) = Payload(k, from + need)
    BY <1>6, <2>2, PartsJoin
  <2>4. Part(k, 0, from + need) \in Seq(Cell) /\ Len(Part(k, 0, from + need)) = from + need
    BY <1>6, <2>2, CellsTyped
  <2>. QED
    BY <2>1, <2>3, <2>4 DEF Payload
<1>11. sequence' \in Nat /\ sequence' = sequence
  BY <1>2, <1>3
<1>12. CASE need < MaxPacket
  <2>. DEFINE row == IF reader.prev = <<>> THEN Row(s.slice, <<>>)
                     ELSE [Row(s.slice, Join(reader.prev, Read(s))) EXCEPT !.arr = 0]
  <2>1. Return(row)
    BY <1>1, <1>12
  <2>2. s.slice.from \in Nat /\ s.slice.len = need /\ s.slice.arr \in Nat /\ need \in Nat /\ s.slice.arr # 0
    <3>1. need \in Nat /\ need > 0 /\ Arrays /\ Took(s)
      BY <1>0, <1>1 DEF IInv, need
    <3>2. s.slice.from \in Nat /\ s.slice.len = need
      BY <3>1, TookKeeps
    <3>3. s.slice.arr \in 1..Len(mem')
      BY <3>1, TookKeeps
    <3>. QED
      BY <3>1, <3>2, <3>3
  <2>3. need # MaxPacket /\ from + need = answer[k]
    BY <1>4, <1>12, PacketIOAssumption
  <2>4. Unread' = Rows(answer)[reader.msg + 2][sequence']
    <3>1. k + 1 = reader.msg + 2
      BY <1>3 DEF k
    <3>. QED
      BY <1>8, <1>11, <2>3, <3>1 DEF e, Behind
  <2>5. row \in HeldType /\ row.msg = k /\ k # 0
    <3>1. \A copy \in Seq(Cell) : Row(s.slice, copy) \in HeldType /\ Row(s.slice, copy).msg = k
      BY <1>3, <2>2 DEF Row, HeldType, k
    <3>2. \A r \in HeldType : [r EXCEPT !.arr = 0] \in HeldType /\ [r EXCEPT !.arr = 0].msg = r.msg
      BY DEF HeldType
    <3>3. CASE reader.prev = <<>>
      <4>1. row = Row(s.slice, <<>>) /\ <<>> \in Seq(Cell) /\ k # 0
        BY <1>3, <3>3
      <4>. HIDE DEF row
      <4>. QED
        BY <3>1, <4>1
    <3>4. CASE reader.prev # <<>>
      <4>1. Join(reader.prev, Read(s)) \in Seq(Cell)
        BY <1>10
      <4>. DEFINE r == Row(s.slice, Join(reader.prev, Read(s)))
      <4>2. r \in HeldType /\ r.msg = k
        BY <3>1, <4>1
      <4>. HIDE DEF r
      <4>3. [r EXCEPT !.arr = 0] \in HeldType /\ [r EXCEPT !.arr = 0].msg = k
        BY <3>2, <4>2
      <4>4. row = [r EXCEPT !.arr = 0]
        BY <3>4 DEF r
      <4>. HIDE DEF row
      <4>. QED
        BY <1>3, <4>3, <4>4
    <3>. QED
      BY <3>3, <3>4
  <2>6. row.arr = 0 => row.copy = Payload(row.msg, answer[row.msg])
    <3>1. SUFFICES ASSUME reader.prev # <<>>
                   PROVE  row.copy = Payload(row.msg, answer[row.msg])
      BY <2>2 DEF Row
    <3>2. row.copy = Join(reader.prev, Read(s))
      BY <3>1 DEF Row
    <3>. HIDE DEF row
    <3>. QED
      BY <1>10, <2>3, <2>5, <3>2
  <2>7. row.arr # 0 => /\ row.arr = s.slice.arr /\ row.from = s.slice.from /\ row.len = s.slice.len
                       /\ Read(s) = Payload(row.msg, answer[row.msg])
    <3>1. SUFFICES ASSUME reader.prev = <<>>
                   PROVE  /\ row.arr = s.slice.arr /\ row.from = s.slice.from /\ row.len = s.slice.len
                          /\ Read(s) = Payload(row.msg, answer[row.msg])
      BY DEF Row
    <3>2. row.arr = s.slice.arr /\ row.from = s.slice.from /\ row.len = s.slice.len
      BY <3>1 DEF Row
    <3>. HIDE DEF row
    <3>3. from = 0
      BY <3>1 DEF from
    <3>4. Read(s) = Part(k, 0, need) /\ need = answer[k]
      BY <1>3, <1>4, <1>8, <2>3, <3>3 DEF p
    <3>. QED
      BY <2>5, <3>2, <3>4 DEF Payload
  <2>. HIDE DEF row
  <2>8. need \in Nat /\ need > 0 /\ Took(s)
    BY <1>0, <1>1 DEF need
  <2>9. row.msg # 0
    BY <2>5
  <2>. QED
    BY <1>0, <1>1, <1>2, <1>3, <1>9, <1>11, <2>1, <2>4, <2>5, <2>6, <2>7, <2>8, <2>9, Returned
<1>13. CASE ~(need < MaxPacket)
  <2>0. need = MaxPacket
    BY <1>0, <1>4, <1>13
  <2>1. reader' = [reader EXCEPT !.need = 0, !.prev = Payload(k, from + need)] /\ UNCHANGED held
    BY <1>1, <1>10, <1>13
  <2>2. reader \in ReaderType
    BY DEF IInv, Control, ReaderType
  <2>3. /\ reader' \in ReaderType /\ reader'.does = reader.does /\ reader'.msg = reader.msg
        /\ reader'.need = 0 /\ reader'.prev = Payload(k, from + need)
    <3>1. 0 \in 0..MaxPacket /\ Payload(k, from + need) \in Seq(Cell)
      BY <1>0, <1>10
    <3>. DEFINE prev == Payload(k, from + need)
    <3>. HIDE DEF prev
    <3>2. prev \in Seq(Cell) /\ reader' = [reader EXCEPT !.need = 0, !.prev = prev]
      BY <2>1, <3>1 DEF prev
    <3>3. /\ reader' \in ReaderType /\ reader'.does = reader.does /\ reader'.msg = reader.msg
          /\ reader'.need = 0 /\ reader'.prev = prev
      BY <2>2, <3>1, <3>2 DEF ReaderType
    <3>. QED
      BY <3>3 DEF prev
  <2>4. Within'
    <3>1. /\ reader'.msg + 1 = k /\ Len(reader'.prev) = from + need /\ answer' = answer
          /\ reader'.msg < Len(answer) /\ from + need <= answer[k] /\ ~(reader'.need > 0)
      BY <1>2, <1>3, <1>4, <1>10, <2>3 DEF k
    <3>2. Unread' = Packets(k, answer[k], Rows(answer)[k + 1])[from + need][sequence']
      BY <1>8, <1>11, <2>0 DEF e, Behind, RowFrom
    <3>. QED
      BY <2>3, <3>1, <3>2 DEF Within, RowFrom
  <2>5. need \in Nat /\ need > 0 /\ Took(s)
    BY <1>0, <1>1 DEF need
  <2>. QED
    BY <1>0, <1>1, <1>2, <1>9, <1>11, <2>1, <2>3, <2>4, <2>5, Continued
<1>. QED
  BY <1>12, <1>13

\* The reader starts with a row.
LEMMA RowStarts ==
  ASSUME IInv, reader.does = "idle", writer.at = "none", reader.msg < Len(answer),
         UNCHANGED <<answer, first, sequence, writer>>, Unread' = Unread,
         reader'.msg = reader.msg, reader'.does # "idle",
         reader'.need = reader.need, reader'.prev = reader.prev
  PROVE  Reading'
<1>. DEFINE k == reader.msg + 1
<1>1. Ends(Unread, AllRows(answer, first)) /\ Between
  BY DEF IInv, Reading
<1>2. answer \in Answers /\ answer \in Seq(Nat) /\ sequence \in Nat /\ reader.msg \in 0..Len(answer)
  BY PacketIOAssumption DEF IInv, Control
<1>3. Len(answer) \in Nat
  BY <1>2, LenProperties
<1>4. k \in 1..Len(answer) /\ k \in Nat
  BY <1>2, <1>3
<1>5. answer[k] \in Nat /\ 0 \in 0..answer[k]
  <2>1. answer[k] \in Nat
    BY <1>2, <1>4, ElementOfSeq
  <2>. QED
    BY <2>1
<1>6. Unread = Rows(answer)[k][sequence]
  BY <1>1 DEF Between
<1>. HIDE DEF k
<1>7. Rows(answer)[k][sequence] = RowFrom(k, 0, sequence)
  BY <1>2, <1>4, <1>5, RowFacts
<1>8. reader'.prev = <<>> /\ reader'.need = 0
  BY <1>1 DEF Between
<1>9. /\ reader'.msg + 1 = k /\ reader'.msg < Len(answer') /\ Len(reader'.prev) = 0 /\ answer' = answer
      /\ 0 <= answer[k] /\ reader'.prev = Payload(k, 0) /\ ~(reader'.need > 0) /\ sequence' = sequence
  BY <1>4, <1>5, <1>8, PayloadEmpty DEF k
<1>10. Unread' = Packets(k, answer[k], Rows(answer)[k + 1])[0][sequence]
  BY <1>6, <1>7 DEF RowFrom
<1>11. Within'
  BY <1>9, <1>10 DEF Within, RowFrom
<1>. QED
  BY <1>1, <1>11 DEF Reading

LEMMA RowsNextKeeps ==
  ASSUME IInv, RowsNext
  PROVE  IInv'
<1>1. /\ reader.does = "idle" /\ writer.at = "none" /\ reader.msg < Len(answer)
      /\ reader' = [reader EXCEPT !.does = "next"] /\ held' = Nothing
      /\ UNCHANGED <<mem, buffer, wire, answer, first, answers, sequence, writer, got>>
  BY DEF RowsNext, Idle
<1>2. Arrays'
  BY <1>1 DEF IInv, Arrays
<1>3. /\ reader' \in ReaderType /\ reader'.msg = reader.msg /\ reader'.does = "next"
      /\ reader'.need = reader.need /\ reader'.prev = reader.prev
  <2>1. reader \in ReaderType
    BY DEF IInv, Control, ReaderType
  <2>. QED
    BY <1>1, <2>1 DEF ReaderType
<1>5. Control'
  <2>1. Nothing \in HeldType
    <3>1. Len(answer) \in Nat /\ <<>> \in Seq(Cell)
      BY PacketIOAssumption, LenProperties DEF IInv, Control
    <3>. QED
      BY <3>1 DEF Nothing, HeldType
  <2>. QED
    BY <1>1, <1>3, <2>1 DEF IInv, Control, ReaderType, HeldType
<1>6. Reading'
  <2>1. Unread' = Unread
    BY <1>1 DEF Unread
  <2>. QED
    BY <1>1, <1>3, <2>1, RowStarts
<1>7. BufferApart' /\ RowApart' /\ RowIntact'
  <2>1. Untouched' <=> Untouched
    BY <1>1, <1>3 DEF Untouched
  <2>2. BufferApart'
    BY <1>1, <1>3, <2>1 DEF IInv, BufferApart
  <2>3. held'.msg = 0
    BY <1>1 DEF Nothing
  <2>. QED
    BY <2>2, <2>3 DEF RowApart, RowIntact
<1>8. Quiet' /\ Writing' /\ WrittenAsFramed'
  BY <1>1 DEF Quiet, Writing, WrittenAsFramed
<1>. QED
  BY <1>2, <1>5, <1>6, <1>7, <1>8 DEF IInv

LEMMA CloseRowsKeeps ==
  ASSUME IInv, CloseRows
  PROVE  IInv'
<1>1. /\ reader.does = "idle" /\ writer.at = "none" /\ reader.msg < Len(answer)
      /\ reader' = [reader EXCEPT !.does = "skip"] /\ buffer' = [buffer EXCEPT !.flip = 1 - @]
      /\ UNCHANGED <<mem, wire, answer, first, answers, sequence, held, writer, got>>
  BY DEF CloseRows, Idle, Flip
<1>2. /\ Arrays'
      /\ buffer'.arr = buffer.arr /\ buffer'.idx = buffer.idx /\ buffer'.length = buffer.length
      /\ buffer'.dbuf = buffer.dbuf /\ buffer'.flip = 1 - buffer.flip /\ buffer.flip \in 0..1
  <2>1. buffer \in [arr : 1..Len(mem), idx : Nat, length : Nat, dbuf : [1..2 -> 0..Len(mem)], flip : 0..1]
    BY DEF IInv, Arrays, Fit
  <2>2. 1 - buffer.flip \in 0..1
    BY <2>1
  <2>3. /\ buffer' \in [arr : 1..Len(mem), idx : Nat, length : Nat, dbuf : [1..2 -> 0..Len(mem)], flip : 0..1]
        /\ buffer'.arr = buffer.arr /\ buffer'.idx = buffer.idx /\ buffer'.length = buffer.length
        /\ buffer'.dbuf = buffer.dbuf /\ buffer'.flip = 1 - buffer.flip /\ buffer.flip \in 0..1
    BY <1>1, <2>1, <2>2
  <2>4. Fit(mem, buffer', wire)
    BY <2>3 DEF IInv, Arrays, Fit
  <2>. QED
    BY <1>1, <2>3, <2>4 DEF Arrays
<1>3. /\ reader' \in ReaderType /\ reader'.msg = reader.msg /\ reader'.does = "skip"
      /\ reader'.need = reader.need /\ reader'.prev = reader.prev
  <2>1. reader \in ReaderType
    BY DEF IInv, Control, ReaderType
  <2>. QED
    BY <1>1, <2>1 DEF ReaderType
<1>5. Control'
  BY <1>1, <1>3 DEF IInv, Control, ReaderType
<1>6. Reading'
  <2>1. Unread' = Unread
    BY <1>1, <1>2 DEF Unread
  <2>. QED
    BY <1>1, <1>3, <2>1, RowStarts
<1>7. BufferApart'
  BY <1>3 DEF BufferApart
<1>8. RowApart'
  <2>1. Away(buffer) = buffer'.dbuf[buffer'.flip + 1]
    <3>1. 2 - buffer.flip = (1 - buffer.flip) + 1
      BY <1>2
    <3>. QED
      BY <1>2, <3>1 DEF Away
  <2>. QED
    BY <1>1, <1>3, <2>1 DEF IInv, RowApart
<1>9. RowIntact'
  BY <1>1 DEF IInv, RowIntact
<1>10. Quiet' /\ Writing' /\ WrittenAsFramed'
  BY <1>1 DEF Quiet, Writing, WrittenAsFramed
<1>. QED
  BY <1>2, <1>5, <1>6, <1>7, <1>8, <1>9, <1>10 DEF IInv

-----------------------------------------------------------------------------
\* An array is replaced by one of the same size, or a new one is made.
LEMMA MemReplaced ==
  ASSUME Fit(mem, buffer, wire), NEW i \in 1..Len(mem), NEW a \in Seq(Cell), Len(a) = Len(mem[i])
  PROVE  /\ Fit([mem EXCEPT ![i] = a], buffer, wire)
         /\ Len([mem EXCEPT ![i] = a]) = Len(mem)
         /\ [mem EXCEPT ![i] = a][i] = a
<1>. DEFINE S == Seq(Cell)
            m == [mem EXCEPT ![i] = a]
<1>1. mem \in Seq(S) /\ a \in S
  BY DEF Fit
<1>2. /\ m \in Seq(S) /\ Len(m) = Len(mem)
      /\ \A j \in 1..Len(mem) : m[j] = IF j = i THEN a ELSE mem[j]
  <2>. HIDE DEF S
  <2>. QED
    BY <1>1, ExceptSeq
<1>. HIDE DEF m
<1>3. \A j \in 1..Len(m) : Len(m[j]) = Len(mem[j])
  BY <1>2
<1>4. Fit(m, buffer, wire)
  <2>1. buffer.arr \in 1..Len(mem)
    BY DEF Fit
  <2>2. /\ \A j \in 1..Len(m) : Len(m[j]) >= DefaultSize
        /\ buffer.idx + buffer.length <= Len(m[buffer.arr])
    BY <1>2, <1>3, <2>1 DEF Fit
  <2>. QED
    BY <1>2, <2>2 DEF Fit
<1>. QED
  BY <1>2, <1>4 DEF m

LEMMA MemExtended ==
  ASSUME Fit(mem, buffer, wire), NEW a \in Seq(Cell), Len(a) >= DefaultSize
  PROVE  /\ Fit(Append(mem, a), buffer, wire)
         /\ Len(Append(mem, a)) = Len(mem) + 1 /\ Append(mem, a)[Len(mem) + 1] = a
         /\ buffer.length = 0 /\ buffer.idx <= Len(a) =>
              Fit(Append(mem, a), [buffer EXCEPT !.arr = Len(mem) + 1], wire)
<1>. DEFINE S == Seq(Cell)
            m == Append(mem, a)
<1>1. mem \in Seq(S) /\ a \in S
  BY DEF Fit
<1>2. /\ m \in Seq(S) /\ Len(m) = Len(mem) + 1 /\ m[Len(mem) + 1] = a
      /\ \A j \in 1..Len(mem) : m[j] = mem[j]
  <2>. HIDE DEF S
  <2>. QED
    BY <1>1, AppendProperties
<1>3. Len(mem) \in Nat
  BY <1>1, LenProperties
<1>. HIDE DEF m
<1>4. \A j \in 1..Len(m) : Len(m[j]) >= DefaultSize
  <2>1. TAKE j \in 1..Len(m)
  <2>2. j \in 1..Len(mem) \/ j = Len(mem) + 1
    BY <1>2, <1>3
  <2>. QED
    BY <1>2, <2>2 DEF Fit
<1>5. /\ buffer \in [arr : 1..Len(mem), idx : Nat, length : Nat, dbuf : [1..2 -> 0..Len(mem)], flip : 0..1]
      /\ buffer.idx + buffer.length <= Len(mem[buffer.arr])
      /\ buffer.dbuf[1] # buffer.dbuf[2]
  BY DEF Fit
<1>6. buffer.dbuf \in [1..2 -> 0..Len(m)]
  <2>1. 0..Len(mem) \subseteq 0..Len(m)
    BY <1>2, <1>3
  <2>. QED
    BY <1>5, <2>1
<1>7. Fit(m, buffer, wire)
  <2>1. buffer.arr \in 1..Len(m) /\ m[buffer.arr] = mem[buffer.arr]
    BY <1>2, <1>3, <1>5
  <2>2. buffer \in [arr : 1..Len(m), idx : Nat, length : Nat, dbuf : [1..2 -> 0..Len(m)], flip : 0..1]
    BY <1>5, <1>6, <2>1
  <2>. QED
    BY <1>2, <1>4, <1>5, <2>1, <2>2 DEF Fit
<1>8. ASSUME buffer.length = 0, buffer.idx <= Len(a)
      PROVE  Fit(m, [buffer EXCEPT !.arr = Len(mem) + 1], wire)
  <2>. DEFINE b == [buffer EXCEPT !.arr = Len(mem) + 1]
  <2>1. Len(mem) + 1 \in 1..Len(m)
    BY <1>2, <1>3
  <2>2. /\ b \in [arr : 1..Len(m), idx : Nat, length : Nat, dbuf : [1..2 -> 0..Len(m)], flip : 0..1]
        /\ b.arr = Len(mem) + 1 /\ b.idx = buffer.idx /\ b.length = buffer.length /\ b.dbuf = buffer.dbuf
    BY <1>5, <1>6, <2>1
  <2>. HIDE DEF b
  <2>3. b.idx + b.length <= Len(m[b.arr])
    BY <1>2, <1>5, <1>8, <2>2
  <2>4. Fit(m, b, wire)
    BY <1>2, <1>4, <1>5, <2>2, <2>3 DEF Fit
  <2>. QED
    BY <2>4 DEF b
<1>. QED
  BY <1>2, <1>7, <1>8 DEF m

LEMMA PutFits ==
  ASSUME NEW n \in Nat, NEW a \in Seq(Cell)
  PROVE  /\ Put(a, n) \in Seq(Cell) /\ Len(Put(a, n)) = Len(a)
         /\ n + 1 <= Len(a) => \A i \in 2..n + 1 : Put(a, n)[i] = [msg |-> 0, at |-> i - 1]
<1>1. DOMAIN a = 1..Len(a) /\ Len(a) \in Nat /\ a \in [1..Len(a) -> Cell]
  BY LenProperties
<1>2. \A i \in 2..n + 1 : [msg |-> 0, at |-> i - 1] \in Cell
  BY DEF Cell
<1>3. Put(a, n) \in [1..Len(a) -> Cell]
  BY <1>1, <1>2 DEF Put
<1>4. Put(a, n) \in Seq(Cell) /\ Len(Put(a, n)) = Len(a)
  <2>. HIDE DEF Put
  <2>. QED
    BY <1>1, <1>3, SeqDef, LenProperties
<1>5. n + 1 <= Len(a) => \A i \in 2..n + 1 : Put(a, n)[i] = [msg |-> 0, at |-> i - 1]
  BY <1>1 DEF Put
<1>. QED
  BY <1>4, <1>5

LEMMA Framed ==
  ASSUME NEW len \in Nat
  PROVE  /\ Packets(0, len, NoMore)[0][0] = AsFramed(len)
         /\ \A from \in 0..len, seq \in Nat : Packets(0, len, NoMore)[from][seq] \in Seq(Cell)
<1>1. \A from \in 0..len : Packets(0, len, NoMore)[from] \in Sent
  BY CellsTyped, PacketsTyped
<1>. QED
  BY <1>1 DEF AsFramed, Sent

LEMMA CommandKeeps ==
  ASSUME IInv, NEW n \in Commands, Command(n)
  PROVE  IInv'
<1>. DEFINE old == [arr |-> buffer.arr, keep |-> TRUE, new |-> FALSE]
            Array0(t) == IF t.new THEN Array(n + 1) ELSE mem[t.arr]
<1>1. PICK t \in {TakeBuffer(n + 1), StoreBuffer(n + 1)} \cup (IF n < DefaultSize THEN {old} ELSE {}) :
        /\ mem' = IF t.new THEN Append(mem, Put(Array0(t), n)) ELSE [mem EXCEPT ![t.arr] = Put(Array0(t), n)]
        /\ buffer' = IF t.keep THEN [buffer EXCEPT !.arr = t.arr] ELSE buffer
        /\ writer' = [at |-> "write", arr |-> t.arr, off |-> 0, len |-> n, left |-> n]
  BY DEF Command
<1>2. /\ reader.does = "idle" /\ writer.at = "none" /\ reader.msg = Len(answer) /\ buffer.length = 0
      /\ sequence' = 0 /\ got' = <<>> /\ held' = Nothing
      /\ UNCHANGED <<wire, answer, first, answers, reader>>
  BY DEF Command, Idle
<1>3. /\ n \in Nat /\ n + 1 \in Nat /\ DefaultSize \in Nat /\ Fit(mem, buffer, wire)
      /\ buffer.arr \in 1..Len(mem) /\ buffer.idx \in Nat /\ Len(mem) \in Nat
      /\ mem[buffer.arr] \in Seq(Cell) /\ Len(mem[buffer.arr]) \in Nat
      /\ Len(mem[buffer.arr]) >= DefaultSize /\ buffer.idx <= Len(mem[buffer.arr])
  <2>1. n \in Nat /\ DefaultSize \in Nat
    BY PacketIOAssumption
  <2>2. Fit(mem, buffer, wire)
    BY DEF IInv, Arrays
  <2>3. mem \in Seq(Seq(Cell)) /\ buffer.arr \in 1..Len(mem) /\ buffer.idx \in Nat
        /\ Len(mem[buffer.arr]) >= DefaultSize /\ buffer.idx + buffer.length <= Len(mem[buffer.arr])
    BY <2>2 DEF Fit
  <2>4. mem[buffer.arr] \in Seq(Cell) /\ Len(mem) \in Nat
    BY <2>3, ElementOfSeq, LenProperties
  <2>5. Len(mem[buffer.arr]) \in Nat
    BY <2>4, LenProperties
  <2>. QED
    BY <1>2, <2>1, <2>2, <2>3, <2>4, <2>5
<1>4. \/ t.new = FALSE /\ t.keep = TRUE /\ t.arr = buffer.arr /\ n + 1 <= Len(mem[buffer.arr])
      \/ t.new = TRUE /\ t.arr = Len(mem) + 1 /\ n + 1 > Len(mem[buffer.arr])
  <2>0. n + 1 <= Len(mem[buffer.arr]) \/ (n + 1 > Len(mem[buffer.arr]) /\ ~(n + 1 <= Len(mem[buffer.arr])))
    BY <1>3
  <2>1. CASE t = TakeBuffer(n + 1)
    <3>1. CASE n + 1 <= Len(mem[buffer.arr])
      BY <2>1, <3>1 DEF TakeBuffer
    <3>2. CASE ~(n + 1 <= Len(mem[buffer.arr]))
      <4>1. t = [arr |-> Len(mem) + 1, keep |-> n + 1 < MaxPacket, new |-> TRUE]
        BY <2>1, <3>2, Zenon DEF TakeBuffer
      <4>2. t.arr = Len(mem) + 1 /\ t.new = TRUE
        BY <4>1, Zenon
      <4>. QED
        BY <2>0, <3>2, <4>2
    <3>. QED
      BY <3>1, <3>2
  <2>2. CASE t = StoreBuffer(n + 1)
    <3>1. CASE n + 1 <= Len(mem[buffer.arr])
      BY <2>2, <3>1 DEF StoreBuffer
    <3>2. CASE ~(n + 1 <= Len(mem[buffer.arr]))
      <4>1. t = [arr |-> Len(mem) + 1, keep |-> n + 1 <= MaxPacket, new |-> TRUE]
        BY <2>2, <3>2, Zenon DEF StoreBuffer
      <4>2. t.arr = Len(mem) + 1 /\ t.new = TRUE
        BY <4>1, Zenon
      <4>. QED
        BY <2>0, <3>2, <4>2
    <3>. QED
      BY <3>1, <3>2
  <2>3. CASE n < DefaultSize /\ t = old
    BY <1>3, <2>3
  <2>. QED
    BY <1>1, <2>1, <2>2, <2>3
<1>. DEFINE a == Put(Array0(t), n)
<1>5. /\ a \in Seq(Cell) /\ n + 1 <= Len(a)
      /\ \A i \in 2..n + 1 : a[i] = [msg |-> 0, at |-> i - 1]
      /\ t.new = FALSE => Len(a) = Len(mem[buffer.arr])
      /\ t.new = TRUE => Len(a) = n + 1
  <2>1. /\ Array0(t) \in Seq(Cell) /\ n + 1 <= Len(Array0(t))
        /\ t.new = FALSE => Len(Array0(t)) = Len(mem[buffer.arr])
        /\ t.new = TRUE => Len(Array0(t)) = n + 1
    <3>1. CASE t.new = TRUE
      <4>1. Array(n + 1) \in Seq(Cell) /\ Len(Array(n + 1)) = n + 1
        BY <1>3, CellsTyped
      <4>. QED
        BY <1>3, <3>1, <4>1
    <3>2. CASE t.new = FALSE
      BY <1>3, <1>4, <3>2
    <3>. QED
      BY <1>4, <3>1, <3>2
  <2>. HIDE DEF Array0
  <2>2. Put(Array0(t), n) \in Seq(Cell) /\ Len(Put(Array0(t), n)) = Len(Array0(t))
    BY <1>3, <2>1, PutFits
  <2>3. \A i \in 2..n + 1 : Put(Array0(t), n)[i] = [msg |-> 0, at |-> i - 1]
    BY <1>3, <2>1, PutFits
  <2>. QED
    BY <2>1, <2>2, <2>3
<1>6. mem' = IF t.new THEN Append(mem, a) ELSE [mem EXCEPT ![t.arr] = a]
  BY <1>1
<1>. HIDE DEF a
<1>7. Arrays' /\ t.arr \in 1..Len(mem') /\ mem'[t.arr] = a
  <2>1. CASE t.new = FALSE
    <3>1. mem' = [mem EXCEPT ![buffer.arr] = a] /\ t.arr = buffer.arr
      BY <1>4, <1>6, <2>1
    <3>2. buffer' = buffer
      <4>1. buffer \in [arr : 1..Len(mem), idx : Nat, length : Nat, dbuf : [1..2 -> 0..Len(mem)], flip : 0..1]
        BY <1>3 DEF Fit
      <4>. QED
        BY <1>1, <1>4, <2>1, <4>1
    <3>3. Len(a) = Len(mem[buffer.arr])
      BY <1>5, <2>1
    <3>4. /\ Fit([mem EXCEPT ![buffer.arr] = a], buffer, wire)
          /\ Len([mem EXCEPT ![buffer.arr] = a]) = Len(mem)
          /\ [mem EXCEPT ![buffer.arr] = a][buffer.arr] = a
      BY <1>3, <1>5, <3>3, MemReplaced
    <3>. QED
      BY <1>2, <1>3, <3>1, <3>2, <3>4 DEF Arrays
  <2>2. CASE t.new = TRUE
    <3>1. mem' = Append(mem, a) /\ t.arr = Len(mem) + 1
          /\ Len(a) >= DefaultSize /\ buffer.idx <= Len(a)
      BY <1>3, <1>4, <1>5, <1>6, <2>2
    <3>2. /\ Fit(Append(mem, a), buffer, wire)
          /\ Len(Append(mem, a)) = Len(mem) + 1 /\ Append(mem, a)[Len(mem) + 1] = a
      BY <1>3, <1>5, <3>1, MemExtended
    <3>3. Fit(Append(mem, a), [buffer EXCEPT !.arr = Len(mem) + 1], wire)
      BY <1>2, <1>3, <1>5, <3>1, MemExtended
    <3>4. buffer' = buffer \/ buffer' = [buffer EXCEPT !.arr = Len(mem) + 1]
      BY <1>1, <3>1
    <3>5. Fit(mem', buffer', wire')
      BY <1>2, <3>1, <3>2, <3>3, <3>4
    <3>. QED
      BY <1>3, <3>1, <3>2, <3>5 DEF Arrays
  <2>. QED
    BY <1>4, <2>1, <2>2
<1>8. reader \in ReaderType /\ reader.need = 0 /\ reader.prev = <<>> /\ Len(answer) \in Nat
  <2>1. Between
    BY <1>2 DEF IInv, Reading
  <2>2. Len(answer) \in Nat
    BY PacketIOAssumption, LenProperties DEF IInv, Control
  <2>. QED
    BY <2>1, <2>2 DEF Between, IInv, Control, ReaderType
<1>9. /\ writer'.at = "write" /\ writer'.arr = t.arr /\ writer'.off = 0 /\ writer'.len = n /\ writer'.left = n
      /\ writer' \in [at : {"none", "write", "ok", "noWrite", "invalid"}, arr : Nat, off : Nat, len : Nat, left : Nat]
  <2>1. t.arr \in Nat
    BY <1>3, <1>4
  <2>. QED
    BY <1>1, <1>3, <2>1
<1>10. Control'
  <2>1. Nothing \in HeldType
    BY <1>8 DEF Nothing, HeldType
  <2>. QED
    BY <1>2, <1>8, <1>9, <2>1 DEF IInv, Control, ReaderType, HeldType
<1>11. Reading' /\ BufferApart'
  BY <1>9 DEF Reading, BufferApart
<1>12. RowApart' /\ RowIntact'
  <2>1. held'.msg = 0
    BY <1>2 DEF Nothing
  <2>. QED
    BY <2>1 DEF RowApart, RowIntact
<1>13. Quiet'
  <2>1. buffer'.length = 0
    <3>1. buffer \in [arr : 1..Len(mem), idx : Nat, length : Nat, dbuf : [1..2 -> 0..Len(mem)], flip : 0..1]
      BY <1>3 DEF Fit
    <3>. QED
      BY <1>1, <1>2, <3>1
  <2>. QED
    BY <1>2, <1>8, <2>1 DEF Quiet
<1>14. Writing'
  <2>1. got' \o Packets(0, n, NoMore)[0][0] = AsFramed(n)
    <3>1. Packets(0, n, NoMore)[0][0] = AsFramed(n) /\ 0 \in 0..n /\ 0 \in Nat
      BY <1>3, Framed
    <3>2. Packets(0, n, NoMore)[0][0] \in Seq(Cell)
      BY <1>3, <3>1, Framed
    <3>. QED
      BY <1>2, <3>1, <3>2, ConcatEmptySeq
  <2>2. \A i \in 0 + 2..n + 1 : mem'[t.arr][i] = [msg |-> 0, at |-> i - 1]
    <3>1. 0 + 2 = 2
      OBVIOUS
    <3>. QED
      BY <1>5, <1>7, <3>1, Zenon
  <2>3. t.arr \in 1..Len(mem') /\ n + 1 <= Len(mem'[t.arr]) /\ 0 + n = n
    BY <1>3, <1>5, <1>7
  <2>. QED
    BY <1>2, <1>9, <2>1, <2>2, <2>3 DEF Writing
<1>15. WrittenAsFramed'
  BY <1>9 DEF WrittenAsFramed
<1>. QED
  BY <1>7, <1>10, <1>11, <1>12, <1>13, <1>14, <1>15 DEF IInv

\* A round of the loop: what it sends, what the command still has, and the array
\* of which it sends a part.
Round(size, array, cells, rest) ==
  /\ array \in Seq(Cell) /\ Len(array) = Len(mem[writer.arr])
  /\ \A i \in writer.off + size + 2..writer.len + 1 : array[i] = [msg |-> 0, at |-> i - 1]
  /\ size \in Nat /\ writer.off + size <= writer.len
  /\ size # MaxPacket => writer.off + size = writer.len
  /\ cells \in Seq(Cell) /\ Len(cells) = size + 1
  /\ rest \in Seq(Cell)
  /\ Packets(0, writer.len, NoMore)[writer.off][sequence] = cells \o rest
  /\ (got \o cells) \o rest = AsFramed(writer.len)

\* The header is put in front of the part, and both are one packet of the command.
LEMMA PacketWritten ==
  ASSUME IInv, writer.at = "write", NEW size, size = Lesser(writer.left, MaxPacket),
         NEW array, array = [mem[writer.arr] EXCEPT ![writer.off + 1] = Header(size, sequence)]
  PROVE  Round(size, array, SubSeq(array, writer.off + 1, writer.off + 1 + size),
           IF size = MaxPacket THEN Packets(0, writer.len, NoMore)[writer.off + size][sequence + 1] ELSE <<>>)
<1>. DEFINE len == writer.len
            off == writer.off
            a == mem[writer.arr]
            h == Header(size, sequence)
            cells == SubSeq(array, off + 1, off + 1 + size)
            rest == IF size = MaxPacket THEN Packets(0, len, NoMore)[off + size][sequence + 1] ELSE <<>>
<1>1. /\ writer.arr \in 1..Len(mem) /\ len + 1 <= Len(a)
      /\ off + writer.left = len
      /\ \A i \in off + 2..len + 1 : a[i] = [msg |-> 0, at |-> i - 1]
      /\ got \o Packets(0, len, NoMore)[off][sequence] = AsFramed(len)
  BY DEF IInv, Writing
<1>2. off \in Nat /\ len \in Nat /\ writer.left \in Nat /\ sequence \in Nat /\ got \in Seq(Cell)
      /\ MaxPacket \in Nat /\ MaxPacket > 0
  BY PacketIOAssumption DEF IInv, Control
<1>3. a \in Seq(Cell) /\ Len(a) \in Nat
  <2>1. mem \in Seq(Seq(Cell))
    BY DEF IInv, Arrays, Fit
  <2>2. a \in Seq(Cell)
    BY <1>1, <2>1, ElementOfSeq
  <2>. QED
    BY <2>2, LenProperties
<1>. HIDE DEF a, off, len
<1>4. /\ off \in 0..len /\ size = Lesser(MaxPacket, len - off)
      /\ size \in Nat /\ off + size <= len /\ (size # MaxPacket => off + size = len)
  <2>1. writer.left = len - off
    BY <1>1, <1>2
  <2>. QED
    BY <1>1, <1>2, <2>1 DEF Lesser
<1>5. h \in Cell
  BY <1>2, <1>4, CellsTyped
<1>6. off + 1 \in 1..Len(a)
  BY <1>1, <1>2, <1>3, <1>4
<1>7. /\ array \in Seq(Cell) /\ Len(array) = Len(a)
      /\ \A i \in 1..Len(a) : array[i] = IF i = off + 1 THEN h ELSE a[i]
  <2>1. array = [a EXCEPT ![off + 1] = h]
    BY DEF a, off
  <2>. DEFINE j == off + 1
  <2>. HIDE DEF h, j
  <2>2. /\ [a EXCEPT ![j] = h] \in Seq(Cell) /\ Len([a EXCEPT ![j] = h]) = Len(a)
        /\ \A i \in 1..Len(a) : [a EXCEPT ![j] = h][i] = IF i = j THEN h ELSE a[i]
    <3>1. j \in 1..Len(a)
      BY <1>6 DEF j
    <3>. QED
      BY <1>3, <1>5, <3>1, ExceptSeq
  <2>. QED
    BY <2>1, <2>2 DEF j
<1>8. \A i \in off + 2..len + 1 : array[i] = [msg |-> 0, at |-> i - 1]
  <2>1. \A i \in off + 2..len + 1 : i \in 1..Len(a) /\ i # off + 1
    BY <1>1, <1>2, <1>3
  <2>. QED
    BY <1>1, <1>7, <2>1
<1>9. cells \in Seq(Cell) /\ Len(cells) = size + 1 /\ \A j \in 1..size + 1 : cells[j] = array[off + j]
  <2>. DEFINE n == size + 1
              last == off + n
  <2>1. n \in Nat /\ off + n <= Len(array) /\ off + 1 + size = last
    <3>1. off + (size + 1) <= Len(a)
      BY <1>1, <1>2, <1>3, <1>4
    <3>. HIDE DEF cells, rest, h
    <3>. QED
      BY <1>2, <1>4, <1>7, <3>1
  <2>. HIDE DEF n, last
  <2>2. /\ SubSeq(array, off + 1, off + n) \in Seq(Cell) /\ Len(SubSeq(array, off + 1, off + n)) = n
        /\ \A j \in 1..n : SubSeq(array, off + 1, off + n)[j] = array[off + j]
    <3>1. array \in Seq(Cell) /\ off \in Nat /\ n \in Nat /\ off + n <= Len(array)
      BY <1>2, <1>7, <2>1
    <3>. QED
      BY <3>1, PartOf
  <2>3. cells = SubSeq(array, off + 1, off + n)
    BY <2>1 DEF last
  <2>. HIDE DEF cells
  <2>. QED
    BY <2>2, <2>3 DEF n
<1>. HIDE DEF cells
<1>10. cells = <<h>> \o Part(0, off, size)
  <2>. DEFINE p == Part(0, off, size)
  <2>1. <<h>> \in Seq(Cell) /\ Len(<<h>>) = 1 /\ <<h>>[1] = h
    BY <1>5
  <2>2. p \in Seq(Cell) /\ Len(p) = size
    <3>1. 0 \in Nat
      OBVIOUS
    <3>. QED
      BY <1>2, <1>4, <3>1, CellsTyped
  <2>3. \A i \in 1..size : p[i] = [msg |-> 0, at |-> off + i]
    BY DEF Part
  <2>. DEFINE hs == <<h>>
  <2>. HIDE DEF p, hs
  <2>4. /\ hs \o p \in Seq(Cell) /\ Len(hs \o p) = Len(hs) + Len(p)
        /\ \A i \in 1..Len(hs) + Len(p) : (hs \o p)[i] = IF i <= Len(hs) THEN hs[i] ELSE p[i - Len(hs)]
    <3>1. hs \in Seq(Cell) /\ p \in Seq(Cell)
      BY <2>1, <2>2 DEF hs
    <3>. QED
      BY <3>1, ConcatProperties, Zenon
  <2>5. Len(hs) = 1 /\ hs[1] = h
    BY <2>1 DEF hs
  <2>. HIDE DEF h
  <2>6. ASSUME NEW i \in 1..size + 1
        PROVE  cells[i] = (hs \o p)[i]
    <3>1. i \in 1..Len(hs) + Len(p)
      BY <1>4, <2>2, <2>5
    <3>2. CASE i = 1
      <4>1. cells[i] = array[off + 1] /\ array[off + 1] = h
        BY <1>6, <1>7, <1>9, <3>2
      <4>2. (hs \o p)[i] = hs[i]
        BY <2>4, <2>5, <3>1, <3>2
      <4>. QED
        BY <2>5, <3>2, <4>1, <4>2
    <3>3. CASE i # 1
      <4>1. off + i \in off + 2..len + 1 /\ i - 1 \in 1..size /\ off + i - 1 = off + (i - 1) /\ ~(i <= 1)
        BY <1>2, <1>4, <3>3
      <4>2. cells[i] = array[off + i]
        BY <1>9
      <4>3. array[off + i] = [msg |-> 0, at |-> off + i - 1]
        <5>1. PICK j \in off + 2..len + 1 : j = off + i
          BY <4>1
        <5>2. array[j] = [msg |-> 0, at |-> j - 1]
          BY <1>8
        <5>. QED
          BY <1>2, <5>1, <5>2
      <4>4. (hs \o p)[i] = p[i - 1]
        BY <2>4, <2>5, <3>1, <4>1
      <4>5. p[i - 1] = [msg |-> 0, at |-> off + (i - 1)]
        BY <2>3, <4>1
      <4>. QED
        BY <4>1, <4>2, <4>3, <4>4, <4>5
    <3>. QED
      BY <3>2, <3>3
  <2>7. Len(hs \o p) = Len(cells)
    BY <1>4, <1>9, <2>2, <2>4, <2>5
  <2>8. cells = hs \o p
    BY <1>9, <2>4, <2>6, <2>7, SeqEqual
  <2>. QED
    BY <2>8 DEF hs, p
<1>11. rest \in Seq(Cell)
  <2>1. CASE size = MaxPacket
    <3>1. off + size \in 0..len /\ sequence + 1 \in Nat
      BY <1>2, <1>4
    <3>2. Packets(0, len, NoMore)[off + size][sequence + 1] \in Seq(Cell)
      BY <1>2, <3>1, Framed
    <3>. QED
      BY <2>1, <3>2
  <2>2. CASE size # MaxPacket
    BY <2>2, EmptySeq
  <2>. QED
    BY <2>1, <2>2
<1>12. Packets(0, len, NoMore)[off][sequence] = cells \o rest
  <2>1. Unfolds(0, len, NoMore, off, sequence, size)
    BY <1>2, <1>4, PacketsAt
  <2>2. Packets(0, len, NoMore)[off][sequence] = cells
          \o (IF size = MaxPacket THEN Packets(0, len, NoMore)[off + size][sequence + 1] ELSE NoMore[sequence + 1])
    BY <1>10, <2>1 DEF Unfolds
  <2>3. NoMore[sequence + 1] = <<>>
    BY <1>2 DEF NoMore
  <2>. QED
    BY <2>2, <2>3
<1>. HIDE DEF rest
<1>13. (got \o cells) \o rest = AsFramed(len)
  <2>1. (got \o cells) \o rest = got \o (cells \o rest)
    BY <1>2, <1>9, <1>11, ConcatAssociative
  <2>. QED
    BY <1>1, <1>12, <2>1
<1>14. \A i \in off + size + 2..len + 1 : array[i] = [msg |-> 0, at |-> i - 1]
  <2>1. \A i \in off + size + 2..len + 1 : i \in off + 2..len + 1
    BY <1>2, <1>4
  <2>. QED
    BY <1>8, <2>1
<1>. QED
  BY <1>4, <1>7, <1>9, <1>11, <1>12, <1>13, <1>14 DEF a, off, len, cells, rest, Round

\* A round of the loop, or an error in it, after some of the cells.
LEMMA WritePacketKeeps ==
  ASSUME IInv, WritePacket
  PROVE  IInv'
<1>1. PICK size, array :
        /\ size = Lesser(writer.left, MaxPacket)
        /\ array = [mem[writer.arr] EXCEPT ![writer.off + 1] = Header(size, sequence)]
  OBVIOUS
<1>. DEFINE cells == SubSeq(array, writer.off + 1, writer.off + 1 + size)
            rest == IF size = MaxPacket THEN Packets(0, writer.len, NoMore)[writer.off + size][sequence + 1] ELSE <<>>
<1>2. writer.at = "write" /\ UNCHANGED <<buffer, wire, answer, first, answers, reader, held>>
  BY DEF WritePacket
<1>3. mem' = [mem EXCEPT ![writer.arr] = array]
  BY <1>1 DEF WritePacket
<1>4. \/ /\ got' = got \o cells
         /\ sequence' = sequence + 1
         /\ writer' = IF More(size)
                      THEN [writer EXCEPT !.off = @ + size, !.left = @ - size]
                      ELSE [writer EXCEPT !.at = "ok", !.left = 0]
      \/ \E n \in 0..size + 1 :
           /\ got' = got \o SubSeq(cells, 1, n)
           /\ writer' = [writer EXCEPT !.at = IF NothingWritten(n) THEN "noWrite" ELSE "invalid"]
           /\ UNCHANGED sequence
  BY <1>1 DEF WritePacket
<1>0. Round(size, array, cells, rest)
  BY <1>1, <1>2, PacketWritten
<1>6. /\ writer \in [at : {"none", "write", "ok", "noWrite", "invalid"}, arr : Nat, off : Nat, len : Nat, left : Nat]
      /\ sequence \in Nat /\ got \in Seq(Cell) /\ writer.off + writer.left = writer.len
      /\ writer.arr \in 1..Len(mem) /\ writer.len + 1 <= Len(mem[writer.arr])
      /\ got \o Packets(0, writer.len, NoMore)[writer.off][sequence] = AsFramed(writer.len)
  BY <1>2 DEF IInv, Control, Writing
<1>7. size = MaxPacket => rest = Packets(0, writer.len, NoMore)[writer.off + size][sequence + 1]
  OBVIOUS
<1>8. size # MaxPacket => rest = <<>>
  OBVIOUS
<1>. HIDE DEF cells, rest
<1>5. /\ array \in Seq(Cell) /\ Len(array) = Len(mem[writer.arr])
      /\ \A i \in writer.off + size + 2..writer.len + 1 : array[i] = [msg |-> 0, at |-> i - 1]
      /\ size \in Nat /\ writer.off + size <= writer.len
      /\ (size # MaxPacket => writer.off + size = writer.len)
      /\ cells \in Seq(Cell) /\ Len(cells) = size + 1
      /\ rest \in Seq(Cell)
      /\ Packets(0, writer.len, NoMore)[writer.off][sequence] = cells \o rest
      /\ (got \o cells) \o rest = AsFramed(writer.len)
  BY <1>0 DEF Round
<1>9. Arrays' /\ mem'[writer.arr] = array /\ Len(mem') = Len(mem)
  <2>1. Fit(mem, buffer, wire)
    BY DEF IInv, Arrays
  <2>2. /\ Fit([mem EXCEPT ![writer.arr] = array], buffer, wire)
        /\ Len([mem EXCEPT ![writer.arr] = array]) = Len(mem)
        /\ [mem EXCEPT ![writer.arr] = array][writer.arr] = array
    BY <1>5, <1>6, <2>1, MemReplaced
  <2>. QED
    BY <1>2, <1>3, <2>2 DEF Arrays
<1>10. held.msg = 0
  BY <1>2 DEF IInv, RowApart
<1>11. RowApart' /\ RowIntact'
  BY <1>2, <1>10 DEF RowApart, RowIntact
<1>12. ASSUME writer'.at # "none", got' \in Seq(Cell), sequence' \in Nat,
              writer' \in [at : {"none", "write", "ok", "noWrite", "invalid"}, arr : Nat, off : Nat, len : Nat, left : Nat],
              Writing', WrittenAsFramed'
       PROVE  IInv'
  <2>1. Control'
    BY <1>2, <1>12 DEF IInv, Control
  <2>2. Reading' /\ BufferApart'
    BY <1>12 DEF Reading, BufferApart
  <2>3. Quiet'
    BY <1>2 DEF IInv, Quiet
  <2>. QED
    BY <1>9, <1>11, <1>12, <2>1, <2>2, <2>3 DEF IInv
<1>13. got \o cells \in Seq(Cell)
  BY <1>5, <1>6, ConcatProperties
<1>14. CASE got' = got \o cells /\ sequence' = sequence + 1
            /\ size = MaxPacket /\ writer' = [writer EXCEPT !.off = @ + size, !.left = @ - size]
  <2>1. writer.left - size \in Nat /\ writer.off + size \in Nat
    BY <1>5, <1>6
  <2>2. /\ writer' \in [at : {"none", "write", "ok", "noWrite", "invalid"}, arr : Nat, off : Nat, len : Nat, left : Nat]
        /\ writer'.at = "write" /\ writer'.arr = writer.arr /\ writer'.len = writer.len
        /\ writer'.off = writer.off + size /\ writer'.left = writer.left - size
    BY <1>2, <1>6, <1>14, <2>1
  <2>3. Writing'
    <3>1. writer'.off + writer'.left = writer'.len /\ writer'.len + 1 <= Len(mem'[writer'.arr])
          /\ writer'.arr \in 1..Len(mem')
      <4>1. (writer.off + size) + (writer.left - size) = writer.len
        BY <1>5, <1>6
      <4>2. writer.len + 1 <= Len(mem'[writer.arr]) /\ writer.arr \in 1..Len(mem')
        BY <1>5, <1>6, <1>9
      <4>. QED
        BY <2>2, <4>1, <4>2
    <3>2. \A i \in writer'.off + 2..writer'.len + 1 : mem'[writer'.arr][i] = [msg |-> 0, at |-> i - 1]
      BY <1>5, <1>9, <2>2
    <3>3. got' \o Packets(0, writer'.len, NoMore)[writer'.off][sequence'] = AsFramed(writer'.len)
      BY <1>5, <1>7, <1>14, <2>2
    <3>. QED
      BY <3>1, <3>2, <3>3 DEF Writing
  <2>4. WrittenAsFramed'
    BY <2>2 DEF WrittenAsFramed
  <2>. QED
    BY <1>6, <1>12, <1>13, <1>14, <2>2, <2>3, <2>4
<1>15. CASE got' = got \o cells /\ sequence' = sequence + 1
            /\ size # MaxPacket /\ writer' = [writer EXCEPT !.at = "ok", !.left = 0]
  <2>1. /\ writer' \in [at : {"none", "write", "ok", "noWrite", "invalid"}, arr : Nat, off : Nat, len : Nat, left : Nat]
        /\ writer'.at = "ok" /\ writer'.len = writer.len
    BY <1>6, <1>15
  <2>2. got' = AsFramed(writer.len)
    <3>1. (got \o cells) \o <<>> = got \o cells
      BY <1>13, ConcatEmptySeq
    <3>. QED
      BY <1>5, <1>8, <1>15, <3>1
  <2>3. Writing' /\ WrittenAsFramed'
    BY <2>1, <2>2 DEF Writing, WrittenAsFramed
  <2>. QED
    BY <1>6, <1>12, <1>13, <1>15, <2>1, <2>3
<1>16. ASSUME NEW n \in 0..size + 1, got' = got \o SubSeq(cells, 1, n),
              writer' = [writer EXCEPT !.at = IF NothingWritten(n) THEN "noWrite" ELSE "invalid"],
              UNCHANGED sequence
       PROVE  IInv'
  <2>1. SubSeq(cells, 1, n) \in Seq(Cell) /\ Len(SubSeq(cells, 1, n)) = n
    <3>1. 0 \in Nat /\ n \in Nat /\ 0 + n <= Len(cells) /\ 0 + 1 = 1 /\ 0 + n = n
      BY <1>5
    <3>2. SubSeq(cells, 0 + 1, 0 + n) \in Seq(Cell) /\ Len(SubSeq(cells, 0 + 1, 0 + n)) = n
      BY <1>5, <3>1, PartOf
    <3>. QED
      BY <3>1, <3>2
  <2>2. got' \in Seq(Cell)
    BY <1>6, <1>16, <2>1, ConcatProperties
  <2>3. /\ writer' \in [at : {"none", "write", "ok", "noWrite", "invalid"}, arr : Nat, off : Nat, len : Nat, left : Nat]
        /\ writer'.at = (IF n = 0 THEN "noWrite" ELSE "invalid") /\ writer'.len = writer.len
    BY <1>6, <1>16 DEF NothingWritten
  <2>4. n = 0 => got' # AsFramed(writer.len)
    <3>1. SUFFICES ASSUME n = 0 PROVE Len(got') # Len(AsFramed(writer.len))
      OBVIOUS
    <3>2. Len(got) \in Nat /\ Len(rest) \in Nat
      BY <1>5, <1>6, LenProperties
    <3>3. Len(got') = Len(got) + 0
      BY <1>6, <1>16, <2>1, <3>1, ConcatProperties
    <3>4. Len(got \o cells) = Len(got) + (size + 1)
      <4>1. got \in Seq(Cell) /\ cells \in Seq(Cell)
        BY <1>5, <1>6
      <4>2. Len(got \o cells) = Len(got) + Len(cells)
        BY <4>1, ConcatProperties, Zenon
      <4>. QED
        BY <1>5, <4>2
    <3>5. Len(AsFramed(writer.len)) = (Len(got) + (size + 1)) + Len(rest)
      BY <1>5, <1>13, <3>4, ConcatProperties
    <3>. QED
      BY <1>5, <3>2, <3>3, <3>5
  <2>5. Writing' /\ WrittenAsFramed'
    BY <2>3, <2>4 DEF Writing, WrittenAsFramed
  <2>. QED
    BY <1>6, <1>12, <1>16, <2>2, <2>3, <2>5
<1>17. size = MaxPacket <=> More(size)
  BY DEF More
<1>. QED
  BY <1>4, <1>14, <1>15, <1>16, <1>17

\* The command is answered, and the reader is in front of the new answer.
LEMMA AnswerKeeps ==
  ASSUME IInv, Answer
  PROVE  IInv'
<1>1. /\ writer.at = "ok" /\ answers < MaxAnswers
      /\ answer' \in Answers /\ answers' = answers + 1
      /\ first' = sequence /\ sequence' = sequence /\ sequence \in Nat /\ wire' = AllRows(answer', first')
      /\ reader' = [reader EXCEPT !.msg = 0] /\ writer' = NoWrite /\ got' = <<>>
      /\ UNCHANGED <<mem, buffer, held>>
  BY DEF Answer, IInv, Control
<1>2. /\ reader.does = "idle" /\ reader.need = 0 /\ reader.prev = <<>> /\ buffer.length = 0
      /\ held.msg = 0
  BY <1>1 DEF IInv, Quiet, RowApart
<1>3. answer' \in Seq(Nat) /\ Len(answer') \in Nat
  BY <1>1, PacketIOAssumption, LenProperties
<1>4. wire' \in Seq(Cell)
  <2>1. 1 \in 1..Len(answer') + 1 /\ first' \in Nat
    BY <1>1, <1>3
  <2>2. Rows(answer')[1] \in Sent
    BY <1>3, <2>1, RowsTyped
  <2>. QED
    BY <1>1, <2>2 DEF AllRows, Sent
<1>5. Arrays'
  BY <1>1, <1>4 DEF IInv, Arrays, Fit
<1>6. /\ reader' \in [does : {"idle", "next", "skip"}, msg : 0..Len(answer'), need : 0..MaxPacket, prev : Seq(Cell)]
      /\ reader'.does = "idle" /\ reader'.msg = 0 /\ reader'.need = 0 /\ reader'.prev = <<>>
  <2>1. reader \in [does : {"idle", "next", "skip"}, msg : 0..Len(answer), need : 0..MaxPacket, prev : Seq(Cell)]
    BY DEF IInv, Control
  <2>2. 0 \in 0..Len(answer')
    BY <1>3
  <2>. QED
    BY <1>1, <1>2, <2>1, <2>2
<1>7. held' \in [msg : 0..Len(answer'), arr : Nat, from : Nat, len : Nat, copy : Seq(Cell)]
  BY <1>1, <1>2, <1>3 DEF IInv, Control
<1>8. Control'
  <2>1. writer' \in [at : {"none", "write", "ok", "noWrite", "invalid"}, arr : Nat, off : Nat, len : Nat, left : Nat]
    BY <1>1 DEF NoWrite
  <2>2. answers' \in 1..MaxAnswers
    <3>1. answers \in 1..MaxAnswers
      BY DEF IInv, Control
    <3>. QED
      BY <1>1, <3>1, PacketIOAssumption
  <2>. QED
    BY <1>1, <1>6, <1>7, <2>1, <2>2 DEF Control
<1>9. Unread' = wire'
  <2>1. Unread' = SubSeq(mem[buffer.arr], buffer.idx + 1, buffer.idx + 0) \o wire'
    BY <1>1, <1>2 DEF Unread
  <2>2. mem[buffer.arr] \in Seq(Cell) /\ buffer.idx \in Nat /\ buffer.idx + 0 <= Len(mem[buffer.arr])
    <3>1. mem \in Seq(Seq(Cell)) /\ buffer.arr \in 1..Len(mem) /\ buffer.idx \in Nat
          /\ buffer.idx + buffer.length <= Len(mem[buffer.arr])
      BY DEF IInv, Arrays, Fit
    <3>. QED
      BY <1>2, <3>1, ElementOfSeq
  <2>3. /\ SubSeq(mem[buffer.arr], buffer.idx + 1, buffer.idx + 0) \in Seq(Cell)
        /\ Len(SubSeq(mem[buffer.arr], buffer.idx + 1, buffer.idx + 0)) = 0
    BY <2>2, PartOf
  <2>4. SubSeq(mem[buffer.arr], buffer.idx + 1, buffer.idx + 0) = <<>>
    BY <2>3, EmptySeq
  <2>. QED
    BY <1>4, <2>1, <2>4, ConcatEmptySeq
<1>10. Reading'
  <2>1. Ends(Unread', AllRows(answer', first'))
    <3>1. <<>> \in Seq(Cell) /\ <<>> \o wire' = wire'
      BY <1>4, ConcatEmptySeq, EmptySeq
    <3>. QED
      BY <1>1, <1>9, <3>1 DEF Ends
  <2>2. Between'
    <3>1. Unread' = Rows(answer')[0 + 1][sequence']
      BY <1>1, <1>9 DEF AllRows
    <3>. QED
      BY <1>6, <3>1 DEF Between
  <2>. QED
    BY <1>6, <2>1, <2>2 DEF Reading
<1>11. BufferApart'
  BY <1>1, <1>2, <1>6 DEF BufferApart, Untouched
<1>12. RowApart' /\ RowIntact'
  BY <1>1, <1>2 DEF RowApart, RowIntact
<1>13. Quiet' /\ Writing' /\ WrittenAsFramed'
  BY <1>1 DEF NoWrite, Quiet, Writing, WrittenAsFramed
<1>. QED
  BY <1>5, <1>8, <1>10, <1>11, <1>12, <1>13 DEF IInv

LEMMA InitHolds == Init => IInv
<1>. SUFFICES ASSUME Init PROVE IInv
  OBVIOUS
<1>1. answer \in Answers /\ answer \in Seq(Nat) /\ Len(answer) \in Nat
  BY PacketIOAssumption, LenProperties DEF Init
<1>2. wire \in Seq(Cell)
  <2>1. 1 \in 1..Len(answer) + 1 /\ 1 \in Nat
    BY <1>1
  <2>2. Rows(answer)[1] \in Sent
    BY <1>1, <2>1, RowsTyped
  <2>. QED
    BY <2>2 DEF Init, AllRows, Sent
<1>3. /\ mem \in Seq(Seq(Cell)) /\ Len(mem) = 1 /\ mem[1] = Array(DefaultSize)
      /\ Array(DefaultSize) \in Seq(Cell) /\ Len(Array(DefaultSize)) = DefaultSize /\ DefaultSize \in Nat
  <2>1. DefaultSize \in Nat
    BY PacketIOAssumption
  <2>2. Array(DefaultSize) \in Seq(Cell) /\ Len(Array(DefaultSize)) = DefaultSize
    BY <2>1, CellsTyped
  <2>. HIDE DEF Array
  <2>3. mem = <<Array(DefaultSize)>>
    BY DEF Init
  <2>. QED
    BY <2>1, <2>2, <2>3
<1>4. Arrays
  <2>1. /\ buffer \in [arr : 1..Len(mem), idx : Nat, length : Nat, dbuf : [1..2 -> 0..Len(mem)], flip : 0..1]
        /\ buffer.arr = 1 /\ buffer.idx = 0 /\ buffer.length = 0 /\ buffer.dbuf[1] # buffer.dbuf[2]
    BY <1>3 DEF Init
  <2>2. \A i \in 1..Len(mem) : Len(mem[i]) >= DefaultSize
    BY <1>3
  <2>3. buffer.idx + buffer.length <= Len(mem[buffer.arr])
    BY <1>3, <2>1
  <2>. QED
    BY <1>2, <1>3, <2>1, <2>2, <2>3 DEF Arrays, Fit
<1>5. Control
  <2>1. reader \in [does : {"idle", "next", "skip"}, msg : 0..Len(answer), need : 0..MaxPacket, prev : Seq(Cell)]
    BY <1>1, PacketIOAssumption DEF Init
  <2>2. held \in [msg : 0..Len(answer), arr : Nat, from : Nat, len : Nat, copy : Seq(Cell)]
    BY <1>1 DEF Init, Nothing
  <2>3. writer \in [at : {"none", "write", "ok", "noWrite", "invalid"}, arr : Nat, off : Nat, len : Nat, left : Nat]
    BY DEF Init, NoWrite
  <2>4. answers \in 1..MaxAnswers /\ first \in Nat /\ sequence \in Nat /\ got \in Seq(Cell)
    BY PacketIOAssumption DEF Init
  <2>. QED
    BY <1>1, <2>1, <2>2, <2>3, <2>4 DEF Control
<1>6. Unread = wire
  <2>. DEFINE a == mem[buffer.arr]
  <2>1. a \in Seq(Cell) /\ 0 <= Len(a) /\ 0 + 0 <= Len(a) /\ 0 \in Nat
    BY <1>3 DEF Init
  <2>2. Unread = SubSeq(a, 0 + 1, 0 + 0) \o wire
    BY DEF Init, Unread
  <2>. HIDE DEF a
  <2>3. SubSeq(a, 0 + 1, 0 + 0) \in Seq(Cell) /\ Len(SubSeq(a, 0 + 1, 0 + 0)) = 0
    BY <2>1, PartOf
  <2>4. SubSeq(a, 0 + 1, 0 + 0) = <<>>
    BY <2>3, EmptySeq
  <2>. QED
    BY <1>2, <2>2, <2>4, ConcatEmptySeq
<1>7. Reading
  <2>1. Ends(Unread, AllRows(answer, first))
    <3>1. <<>> \in Seq(Cell) /\ <<>> \o wire = wire
      BY <1>2, ConcatEmptySeq, EmptySeq
    <3>. QED
      BY <1>6, <3>1 DEF Ends, Init
  <2>2. Between
    <3>1. Unread = Rows(answer)[0 + 1][sequence]
      BY <1>6 DEF AllRows, Init
    <3>. QED
      BY <3>1 DEF Between, Init
  <2>. QED
    BY <2>1, <2>2 DEF Reading, Init
<1>8. BufferApart
  BY DEF BufferApart, Untouched, Init
<1>9. RowApart /\ RowIntact
  BY DEF RowApart, RowIntact, Init, Nothing
<1>10. Quiet /\ Writing /\ WrittenAsFramed
  BY DEF Quiet, Writing, WrittenAsFramed, Init, NoWrite
<1>. QED
  BY <1>4, <1>5, <1>7, <1>8, <1>9, <1>10 DEF IInv

LEMMA StepKeeps == IInv /\ [Next]_vars => IInv'
<1>. SUFFICES ASSUME IInv, [Next]_vars PROVE IInv'
  OBVIOUS
<1>1. CASE RowsNext
  BY <1>1, RowsNextKeeps
<1>2. CASE CloseRows
  BY <1>2, CloseRowsKeeps
<1>3. CASE ReadHeader
  BY <1>3, ReadHeaderKeeps
<1>4. CASE ReadBody
  BY <1>4, ReadBodyKeeps
<1>5. CASE WritePacket
  BY <1>5, WritePacketKeeps
<1>6. CASE Answer
  BY <1>6, AnswerKeeps
<1>7. ASSUME NEW n \in Commands, Command(n) PROVE IInv'
  BY <1>7, CommandKeeps
<1>8. CASE UNCHANGED vars
  BY <1>8 DEF vars, IInv, Arrays, Control, Reading, Between, Within, RowFrom, Behind, BufferApart, Untouched,
              Away, RowApart, RowIntact, Quiet, Writing, WrittenAsFramed, Unread
<1>. QED
  BY <1>1, <1>2, <1>3, <1>4, <1>5, <1>6, <1>7, <1>8 DEF Next

-----------------------------------------------------------------------------
(* The theorems.                                                           *)

\* The invariant holds of every answer, every buffer size and every packet limit.
THEOREM PacketInvariance == Spec => []IInv
<1>. QED
  BY InitHolds, StepKeeps, PTL DEF Spec

LEMMA TypesFollow == IInv => TypeOK
<1>. SUFFICES ASSUME IInv PROVE TypeOK
  OBVIOUS
<1>1. /\ mem \in Seq(Seq(Cell)) /\ \A i \in 1..Len(mem) : Len(mem[i]) >= DefaultSize
      /\ buffer \in [arr : 1..Len(mem), idx : Nat, length : Nat, dbuf : [1..2 -> 0..Len(mem)], flip : 0..1]
      /\ buffer.idx + buffer.length <= Len(mem[buffer.arr])
  BY DEF IInv, Arrays, Fit
<1>2. buffer.arr \in DOMAIN mem
  BY <1>1, LenProperties
<1>3. buffer.dbuf \in Seq(0..Len(mem)) /\ Len(buffer.dbuf) = 2
  <2>. DEFINE S == 0..Len(mem)
              d == buffer.dbuf
  <2>1. d \in [1..2 -> S] /\ 2 \in Nat
    BY <1>1
  <2>. HIDE DEF S, d
  <2>2. d \in Seq(S)
    BY <2>1, SeqDef
  <2>3. Len(d) = 2
    BY <2>1, <2>2, LenProperties
  <2>. QED
    BY <2>2, <2>3 DEF S, d
<1>4. /\ answer \in Answers /\ answers \in 1..MaxAnswers /\ first \in Nat
      /\ reader.does \in {"idle", "next", "skip"} /\ reader.msg \in 0..Len(answer)
      /\ reader.need \in 0..MaxPacket /\ sequence \in Nat
      /\ writer.at \in {"none", "write", "ok", "noWrite", "invalid"}
  BY DEF IInv, Control
<1>. QED
  BY <1>1, <1>2, <1>3, <1>4 DEF TypeOK

\* The buffer never gets smaller than it was made and what it holds is inside it
\* (buffer.go:153, takeSmallBuffer), whatever was read, grown, flipped or taken.
THEOREM PacketTypes == Spec => []TypeOK
<1>. QED
  BY PacketInvariance, TypesFollow, PTL

\* The row that the caller looks at is never overwritten, however the bytes arrive
\* and whether or not Close reads the rest (rows.go:114).
THEOREM RowsStay == Spec => []RowIntact
<1>1. IInv => RowIntact
  BY DEF IInv
<1>. QED
  BY <1>1, PacketInvariance, PTL

LEMMA StepFollows == IInv => InStep
<1>. SUFFICES ASSUME IInv, writer.at = "none" PROVE InStep
  BY DEF InStep
<1>1. Ends(Unread, AllRows(answer, first))
  BY DEF IInv, Reading
<1>2. answer \in Seq(Nat) /\ Len(answer) \in Nat
  BY PacketIOAssumption, LenProperties DEF IInv, Control
<1>3. AllRows(answer, first) \in Seq(Cell)
  <2>1. 1 \in 1..Len(answer) + 1 /\ first \in Nat
    BY <1>2 DEF IInv, Control
  <2>2. Rows(answer)[1] \in Sent
    BY <1>2, <2>1, RowsTyped
  <2>. QED
    BY <2>1, <2>2 DEF AllRows, Sent
<1>4. Unread \in Seq(Cell)
  <2>1. mem \in Seq(Seq(Cell)) /\ buffer.arr \in 1..Len(mem) /\ buffer.idx \in Nat /\ buffer.length \in Nat
        /\ buffer.idx + buffer.length <= Len(mem[buffer.arr]) /\ wire \in Seq(Cell)
    BY DEF IInv, Arrays, Fit
  <2>. DEFINE a == mem[buffer.arr]
              u == SubSeq(a, buffer.idx + 1, buffer.idx + buffer.length)
  <2>2. a \in Seq(Cell)
    BY <2>1, ElementOfSeq
  <2>. HIDE DEF a
  <2>3. u \in Seq(Cell)
    <3>1. buffer.idx + buffer.length <= Len(a)
      BY <2>1 DEF a
    <3>. QED
      BY <2>1, <2>2, <3>1, PartOf
  <2>. HIDE DEF u
  <2>4. u \o wire \in Seq(Cell)
    BY <2>1, <2>3, ConcatProperties
  <2>. QED
    BY <2>4 DEF Unread, u, a
<1>5. LET all == AllRows(answer, first) IN Unread = SubSeq(all, Len(all) - Len(Unread) + 1, Len(all))
  <2>. DEFINE all == AllRows(answer, first)
              u == Unread
  <2>1. u \in Seq(Cell) /\ all \in Seq(Cell) /\ Ends(u, all)
    BY <1>1, <1>3, <1>4
  <2>. HIDE DEF all, u
  <2>2. u = SubSeq(all, Len(all) - Len(u) + 1, Len(all))
    BY <2>1, EndsSubSeq
  <2>. QED
    BY <2>2 DEF all, u
<1>6. ASSUME reader.does # "idle"
      PROVE  Unread # <<>> /\ (reader.need = 0 => \E n \in 0..MaxPacket : Unread[1] = Header(n, sequence))
  <2>0. reader.does \in {"next", "skip"}
    BY <1>6 DEF IInv, Control
  <2>. DEFINE k == reader.msg + 1
              from == Len(reader.prev)
              size == Lesser(MaxPacket, answer[k] - from)
  <2>1. /\ answer \in Answers /\ k \in 1..Len(answer) /\ from \in 0..answer[k] /\ sequence \in Nat /\ Within
    BY <2>0, ReaderPlace
  <2>2. /\ answer[k] \in Nat /\ size \in 0..MaxPacket
        /\ RowFrom(k, from, sequence) = <<Header(size, sequence)>> \o (Part(k, from, size) \o Behind(k, from, size, sequence + 1))
        /\ Part(k, from, size) \in Seq(Cell)
        /\ \A seq \in Nat : Behind(k, from, size, seq) \in Seq(Cell)
    BY <2>1, RowFacts
  <2>3. reader.need \in Nat /\ reader.need \in 0..MaxPacket
    BY PacketIOAssumption DEF IInv, Control
  <2>4. CASE reader.need = 0
    <3>1. Unread = RowFrom(k, from, sequence)
      BY <2>1, <2>4 DEF Within
    <3>. DEFINE h == Header(size, sequence)
                tail == Part(k, from, size) \o Behind(k, from, size, sequence + 1)
    <3>2. h \in Cell /\ sequence + 1 \in Nat
      BY <2>1, <2>2, CellsTyped
    <3>3. tail \in Seq(Cell)
      BY <2>1, <2>2, ConcatProperties
    <3>4. Unread = <<h>> \o tail
      BY <2>2, <3>1
    <3>. HIDE DEF h, tail
    <3>5. Unread # <<>> /\ Unread[1] = h
      <4>. DEFINE hs == <<h>>
      <4>1. hs \in Seq(Cell) /\ Len(hs) = 1 /\ hs[1] = h
        BY <3>2
      <4>. HIDE DEF hs
      <4>2. /\ Len(hs \o tail) = Len(hs) + Len(tail)
            /\ \A i \in 1..Len(hs) + Len(tail) : (hs \o tail)[i] = IF i <= Len(hs) THEN hs[i] ELSE tail[i - Len(hs)]
        BY <3>3, <4>1, ConcatProperties, Zenon
      <4>3. Len(tail) \in Nat
        BY <3>3, LenProperties
      <4>4. Len(hs \o tail) # 0 /\ (hs \o tail)[1] = h
        BY <4>1, <4>2, <4>3
      <4>5. hs \o tail # <<>>
        BY <4>4, EmptySeq
      <4>. QED
        BY <3>4, <4>4, <4>5 DEF hs
    <3>. QED
      BY <2>2, <3>5 DEF h
  <2>5. CASE reader.need > 0
    <3>. DEFINE p == Part(k, from, reader.need)
                tail == Behind(k, from, reader.need, sequence)
    <3>1. reader.need = size /\ Unread = p \o tail
      BY <2>1, <2>5 DEF Within
    <3>2. tail \in Seq(Cell)
      BY <2>1, <2>2, <3>1
    <3>3. k \in Nat /\ from \in Nat
      <4>1. reader.msg \in Nat /\ reader.prev \in Seq(Cell)
        BY <2>0, ReaderPlace
      <4>. QED
        BY <4>1, LenProperties
    <3>4. p \in Seq(Cell) /\ Len(p) = reader.need
      BY <2>3, <3>3, CellsTyped
    <3>. HIDE DEF p, tail
    <3>5. Len(p \o tail) = Len(p) + Len(tail) /\ Len(tail) \in Nat
      BY <3>2, <3>4, ConcatProperties, LenProperties
    <3>6. Len(Unread) # 0
      BY <2>3, <2>5, <3>1, <3>4, <3>5
    <3>. QED
      BY <2>5, <3>6, EmptySeq
  <2>. QED
    BY <2>3, <2>4, <2>5
<1>. QED
  BY <1>5, <1>6 DEF InStep

\* No byte of an answer is lost, repeated or moved between the socket and the
\* reader, and the next packet has the sequence number that readPacket expects.
THEOREM NothingLost == Spec => []InStep
<1>. QED
  BY PacketInvariance, StepFollows, PTL

\* A command of any length, also a multiple of the packet limit, reaches the server
\* as the protocol frames it, and one reported as not written has not reached it.
THEOREM CommandsFramed == Spec => []WrittenAsFramed
<1>1. IInv => WrittenAsFramed
  BY DEF IInv
<1>. QED
  BY <1>1, PacketInvariance, PTL

=============================================================================
