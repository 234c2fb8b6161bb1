---------------------------- MODULE ClockInProofs ----------------------------
(***************************************************************************)
(* Proofs about ClockIn, for any number of goroutines, datagrams,          *)
(* connections and days: a clock-in stands in the row of the day on which  *)
(* it was sent, and an announced champion stays the champion, unless the   *)
(* clock catches a handler between its readings.                           *)
(*                                                                         *)
(* A handler that was not caught still runs on the day of its datagram, so *)
(* that it writes to the row of today; an answer is about a day before     *)
(* today, and days only go forward.                                        *)
(*                                                                         *)
(* The last part is about the champion: what a clock-in needs to get       *)
(* through to the row of its day, and why nobody takes that row from it.   *)
(***************************************************************************)
EXTENDS ClockIn, TLAPS, FiniteSetTheorems, WellFoundedInduction

Setting == {"hour", "date", "count", "insertTime", "insert", "updateUser", "updateTime", "update", "updateSygj"}
Dated == Setting \ {"hour", "date"}

Slot(n) == clockIns[n].slot

\* A SET_SHOWYEAR that was not caught runs on its day.
Setter(g) ==
  pc[g] \in Setting =>
    /\ num[g] \in 1..Len(clockIns)
    /\ num[g] \notin late =>
         /\ DayOf(now) = DayOf(Slot(num[g]))
         /\ pc[g] = "date" => night[g] = IsNight(now)
         /\ pc[g] \in Dated => dat[g] = DayOf(Slot(num[g]))
    /\ late = {} /\ pc[g] \in {"insert", "update"} => DayOf(stamp[g]) = dat[g]

\* A GET_SHOWYEAR asks for a day that is over.
Getter(g) ==
  /\ pc[g] = "getRow" => RowsOf(dat[g]) # {}
  /\ late = {} =>
       /\ pc[g] = "getDate" => night[g] \/ ~IsNight(now)
       /\ pc[g] \in {"getCount", "getRow"} => dat[g] < DayOf(now)

Written == \A k \in DOMAIN sygj : {sygj[k].userId, sygj[k].sygj} \subseteq 1..Len(clockIns)

Past == late = {} => \A i \in DOMAIN announced : announced[i].date < DayOf(now)

IInv ==
  /\ TypeOK
  /\ \A g \in Handler : Setter(g) /\ Getter(g)
  /\ Written /\ FieldsOfTheDay
  /\ Past /\ AnnouncedIsFinal

-----------------------------------------------------------------------------
(* The calendar, and the table.                                            *)

LEMMA Calendar ==
  ASSUME NEW n \in Nat
  PROVE  /\ DayOf(n) \in Int /\ Date(n) \in Int /\ IsNight(n) \in BOOLEAN
         /\ IsNight(n + 1) => DayOf(n + 1) = DayOf(n) /\ ~IsNight(n)
         /\ ~IsNight(n + 1) => DayOf(n + 1) = DayOf(n) + 1
         /\ Date(n) - (IF IsNight(n) THEN 1 ELSE 0) = DayOf(n)
         /\ Date(n) <= DayOf(n) + 1
BY DEF DayOf, Date, IsNight

\* An UPDATE keeps all rows and their dates, and touches the rows of one date.
LEMMA Update ==
  ASSUME sygj \in Seq(Row), NEW date \in Int, NEW column \in {"userId", "sygj", "time"}, NEW value \in Nat,
         UpdateRows(date, column, value)
  PROVE  /\ sygj' \in Seq(Row) /\ DOMAIN sygj' = DOMAIN sygj
         /\ \A i \in DOMAIN sygj :
              /\ sygj'[i].date = sygj[i].date
              /\ sygj[i].date # date => sygj'[i] = sygj[i]
              /\ sygj[i].date = date => sygj'[i] = [sygj[i] EXCEPT ![column] = value]
         /\ \A d : RowsOf(d)' = RowsOf(d)
<1>1. DOMAIN sygj = 1..Len(sygj) /\ Len(sygj) \in Nat /\ \A i \in DOMAIN sygj : sygj[i] \in Row
  OBVIOUS
<1>2. \A i \in DOMAIN sygj : /\ [sygj[i] EXCEPT ![column] = value] \in Row
                           /\ [sygj[i] EXCEPT ![column] = value].date = sygj[i].date
  BY <1>1 DEF Row
<1>3. /\ DOMAIN sygj' = DOMAIN sygj
      /\ \A i \in DOMAIN sygj :
           sygj'[i] = IF sygj[i].date = date THEN [sygj[i] EXCEPT ![column] = value] ELSE sygj[i]
  BY DEF UpdateRows
<1>4. sygj' \in [1..Len(sygj) -> Row]
  <2>1. sygj' = [i \in 1..Len(sygj) |-> sygj'[i]]
    BY <1>1, <1>3 DEF UpdateRows
  <2> QED
    BY <1>1, <1>2, <1>3, <2>1
<1>5. sygj' \in Seq(Row)
  BY <1>1, <1>4
<1>6. \A i \in DOMAIN sygj : sygj'[i].date = sygj[i].date
  BY <1>2, <1>3
<1>7. \A d : RowsOf(d)' = RowsOf(d)
  BY <1>3, <1>6 DEF RowsOf
<1> QED
  BY <1>3, <1>5, <1>6, <1>7

LEMMA AnnouncedType ==
  ASSUME TypeOK
  PROVE  \A i \in DOMAIN announced : announced[i].date \in Int
<1> DEFINE R == [date : Int, row : Row \cup {Nobody, Blank}]
<1>1. announced \in Seq(R)
  BY DEF TypeOK
<1>2. \A r \in R : r.date \in Int
  OBVIOUS
<1> HIDE DEF R
<1> QED
  BY <1>1, <1>2

-----------------------------------------------------------------------------
(* Steps that leave the table, the clock and the history alone.            *)

\* The other goroutines are where they were.
LEMMA Local ==
  ASSUME IInv, NEW g \in Handler, UNCHANGED <<now, late, sygj, clockIns, announced>>,
         TypeOK', Setter(g)', Getter(g)',
         \A h \in Handler \ {g} : /\ pc'[h] = pc[h] /\ num'[h] = num[h] /\ night'[h] = night[h]
                                  /\ dat'[h] = dat[h] /\ stamp'[h] = stamp[h]
  PROVE  IInv'
<1>1. \A h \in Handler \ {g} : Setter(h)' /\ Getter(h)'
  BY DEF IInv, Setter, Getter, Slot, RowsOf
<1>2. \A h \in Handler : Setter(h)' /\ Getter(h)'
  BY <1>1
<1>3. Written' /\ Past'
  BY DEF IInv, Written, Past
<1>4. FieldsOfTheDay'
  BY DEF IInv, FieldsOfTheDay
<1>5. AnnouncedIsFinal'
  BY DEF IInv, AnnouncedIsFinal, RowsOf
<1> QED
  BY <1>2, <1>3, <1>4, <1>5 DEF IInv

LEMMA ReadHourStep == ASSUME IInv, NEW g \in Handler, ReadHour(g) PROVE IInv'
<1>1. TypeOK /\ Setter(g) /\ now \in Nat /\ IsNight(now) \in BOOLEAN
  BY Calendar DEF IInv, TypeOK
<1>2. PICK l \in {"date", "getDate"} :
        pc' = [pc EXCEPT ![g] = l] /\ (l = "date" => pc[g] = "hour") /\ (l = "getDate" => pc[g] = "getHour")
  BY DEF ReadHour, Goto
<1>3. TypeOK'
  BY <1>1, <1>2 DEF TypeOK, ReadHour, Label
<1>4. pc'[g] = l /\ night'[g] = IsNight(now) /\ UNCHANGED <<now, late, num, clockIns>>
  BY <1>1, <1>2 DEF TypeOK, ReadHour
<1>5. Setter(g)'
  BY <1>1, <1>2, <1>4 DEF Setter, Setting, Dated, Slot
<1>6. Getter(g)'
  BY <1>2, <1>4 DEF Getter
<1> QED
  BY <1>1, <1>2, <1>3, <1>5, <1>6, Local DEF ReadHour, TypeOK

LEMMA ReadDateStep == ASSUME IInv, NEW g \in Handler, ReadDate(g) PROVE IInv'
<1>1. TypeOK /\ Setter(g) /\ Getter(g) /\ now \in Nat
  BY DEF IInv, TypeOK
<1>2. UNCHANGED <<now, late, sygj, num, night, stamp, received, leaked, clockIns, announced>>
  BY DEF ReadDate
<1>3. PICK l \in {"count", "getCount"} :
        /\ pc' = [pc EXCEPT ![g] = l]
        /\ l = "count" => pc[g] = "date" /\ dat' = [dat EXCEPT ![g] = Date(now) - IF night[g] THEN 1 ELSE 0]
        /\ l = "getCount" =>
             pc[g] = "getDate" /\ dat' = [dat EXCEPT ![g] = Date(now) - IF night[g] THEN 2 ELSE 1]
  BY DEF ReadDate, Goto
<1>4. PICK d \in Int :
        /\ dat' = [dat EXCEPT ![g] = d]
        /\ l = "count" => d = Date(now) - IF night[g] THEN 1 ELSE 0
        /\ l = "getCount" => d = Date(now) - IF night[g] THEN 2 ELSE 1
  BY <1>1, <1>3, Calendar
<1>5. TypeOK' /\ pc'[g] = l /\ dat'[g] = d
  BY <1>1, <1>2, <1>3, <1>4 DEF TypeOK, Label
<1>6. Setter(g)'
  <2> SUFFICES ASSUME l = "count" PROVE Setter(g)'
    BY <1>5 DEF Setter, Setting
  <2>1. num[g] \notin late => night[g] = IsNight(now) /\ DayOf(now) = DayOf(Slot(num[g]))
    BY <1>1, <1>3 DEF Setter, Setting
  <2>2. num[g] \notin late => d = DayOf(now)
    BY <1>1, <1>4, <2>1, Calendar
  <2> QED
    BY <1>1, <1>2, <1>3, <1>5, <2>1, <2>2 DEF Setter, Setting, Slot
<1>7. Getter(g)'
  <2> SUFFICES ASSUME l = "getCount", late = {} PROVE d < DayOf(now)
    BY <1>2, <1>5 DEF Getter
  <2>1. night[g] \/ ~IsNight(now)
    BY <1>1, <1>3 DEF Getter
  <2>2. CASE night[g]
    BY <1>1, <1>4, <2>2, Calendar
  <2>3. CASE ~night[g] /\ ~IsNight(now)
    BY <1>1, <1>4, <2>3, Calendar
  <2> QED
    BY <2>1, <2>2, <2>3
<1> QED
  BY <1>1, <1>2, <1>3, <1>4, <1>5, <1>6, <1>7, Local DEF TypeOK

LEMMA ReadTimeStep == ASSUME IInv, NEW g \in Handler, ReadTime(g) PROVE IInv'
<1>1. TypeOK /\ Setter(g) /\ now \in Nat
  BY DEF IInv, TypeOK
<1>2. UNCHANGED <<now, late, sygj, num, night, dat, received, leaked, clockIns, announced>>
      /\ stamp' = [stamp EXCEPT ![g] = now]
  BY DEF ReadTime
<1>3. PICK l \in {"insert", "update"} : pc' = [pc EXCEPT ![g] = l] /\ pc[g] \in {"insertTime", "updateTime"}
  BY DEF ReadTime, Goto
<1>4. TypeOK' /\ pc'[g] = l /\ stamp'[g] = now
  BY <1>1, <1>2, <1>3 DEF TypeOK, Label
<1>5. Setter(g)'
  <2>1. num[g] \notin late => DayOf(now) = DayOf(Slot(num[g])) /\ dat[g] = DayOf(Slot(num[g]))
    BY <1>1, <1>3 DEF Setter, Setting, Dated
  <2> QED
    BY <1>1, <1>2, <1>3, <1>4, <2>1 DEF Setter, Setting, Dated, Slot
<1>6. Getter(g)'
  BY <1>3, <1>4 DEF Getter
<1> QED
  BY <1>1, <1>2, <1>3, <1>4, <1>5, <1>6, Local DEF TypeOK

LEMMA ReceiveStep == ASSUME IInv, NEW g \in Handler, Receive(g) PROVE IInv'
<1>1. TypeOK /\ now \in Nat /\ DayOf(now) \in Int
      /\ UNCHANGED <<now, late, sygj, night, dat, stamp, leaked, announced>> /\ received' \in Nat
  <2>1. TypeOK /\ now \in Nat /\ received' \in Nat
    BY DEF IInv, TypeOK, Receive
  <2> QED
    BY <2>1, Calendar DEF Receive, clockVars
<1>2. CASE Goto(g, "getHour") /\ UNCHANGED <<num, clockIns>>
  <2>1. TypeOK' /\ pc'[g] = "getHour"
    BY <1>1, <1>2 DEF TypeOK, Goto, Label
  <2>2. Setter(g)' /\ Getter(g)'
    BY <2>1 DEF Setter, Getter, Setting
  <2> QED
    BY <1>1, <1>2, <2>1, <2>2, Local DEF Goto, TypeOK
<1>3. CASE /\ clockIns' = Append(clockIns, [slot |-> now, undisturbed |-> Undisturbed])
           /\ num' = [num EXCEPT ![g] = Len(clockIns) + 1] /\ Goto(g, "hour")
  <2> DEFINE n == Len(clockIns) + 1
             arrival == [slot |-> now, undisturbed |-> Undisturbed]
  <2>1. /\ clockIns \in Seq([slot : Nat, undisturbed : BOOLEAN]) /\ arrival \in [slot : Nat, undisturbed : BOOLEAN]
        /\ arrival.slot = now
    BY <1>1 DEF TypeOK, Undisturbed
  <2> HIDE DEF arrival
  <2>2. /\ clockIns' \in Seq([slot : Nat, undisturbed : BOOLEAN]) /\ Len(clockIns') = n /\ n \in Nat
        /\ \A i \in 1..Len(clockIns) : clockIns'[i] = clockIns[i]
        /\ clockIns'[n] = arrival
    BY <1>3, <2>1 DEF arrival
  <2>3. pc'[g] = "hour" /\ num'[g] = n
        /\ \A h \in Handler \ {g} : pc'[h] = pc[h] /\ num'[h] = num[h]
    BY <1>1, <1>3 DEF TypeOK, Goto
  <2>4. TypeOK'
    BY <1>1, <1>3, <2>2 DEF TypeOK, Goto, Label
  <2>5. \A h \in Handler \ {g} : Setter(h)' /\ Getter(h)'
    <3> SUFFICES ASSUME NEW h \in Handler \ {g} PROVE Setter(h)' /\ Getter(h)'
      OBVIOUS
    <3>1. Setter(h) /\ Getter(h)
      BY DEF IInv
    <3>2. pc[h] \in Setting => num[h] \in 1..n /\ clockIns'[num[h]] = clockIns[num[h]]
      BY <2>2, <3>1 DEF Setter
    <3> QED
      BY <1>1, <2>2, <2>3, <3>1, <3>2 DEF Setter, Getter, Slot, RowsOf
  <2>6. Setter(g)' /\ Getter(g)'
    BY <1>1, <2>1, <2>2, <2>3 DEF Setter, Getter, Setting, Dated, Slot
  <2>7. \A k \in DOMAIN sygj : /\ sygj[k].userId \in 1..Len(clockIns) /\ sygj[k].sygj \in 1..Len(clockIns)
    BY DEF IInv, Written
  <2>8. Written' /\ FieldsOfTheDay'
    <3>1. Written /\ FieldsOfTheDay
      BY DEF IInv
    <3>2. \A k \in DOMAIN sygj : /\ clockIns'[sygj[k].userId] = clockIns[sygj[k].userId]
                                 /\ clockIns'[sygj[k].sygj] = clockIns[sygj[k].sygj]
      BY <2>2, <2>7
    <3>3. 1..Len(clockIns) \subseteq 1..Len(clockIns')
      BY <1>1, <2>2 DEF TypeOK
    <3>4. Written'
      BY <1>1, <3>1, <3>3 DEF Written
    <3>5. FieldsOfTheDay'
      BY <1>1, <3>1, <3>2 DEF FieldsOfTheDay
    <3> QED
      BY <3>4, <3>5
  <2>9. Past' /\ AnnouncedIsFinal'
    BY <1>1 DEF IInv, Past, AnnouncedIsFinal, RowsOf
  <2> QED
    BY <2>4, <2>5, <2>6, <2>8, <2>9 DEF IInv
<1> QED
  BY <1>2, <1>3 DEF Receive

-----------------------------------------------------------------------------
(* Answers.                                                                *)

\* What is announced is true now, of a day that is over.
LEMMA Announce ==
  ASSUME IInv, NEW g \in Handler, pc[g] \in {"getCount", "getRow"},
         UNCHANGED <<now, late, sygj, num, night, dat, stamp, received, leaked, clockIns>>,
         pc' = [pc EXCEPT ![g] = "idle"],
         NEW row \in Row \cup {Nobody, Blank}, announced' = Append(announced, [date |-> dat[g], row |-> row]),
         row = Nobody => RowsOf(dat[g]) = {},
         row # Nobody => RowsOf(dat[g]) # {},
         row \in Row => \E k \in RowsOf(dat[g]) : sygj[k] = row
  PROVE  IInv'
<1> DEFINE a == [date |-> dat[g], row |-> row]
           n == Len(announced) + 1
<1>1. /\ announced \in Seq([date : Int, row : Row \cup {Nobody, Blank}])
      /\ a \in [date : Int, row : Row \cup {Nobody, Blank}] /\ a.date = dat[g] /\ a.row = row
  BY DEF IInv, TypeOK
<1> HIDE DEF a
<1>2. /\ announced' \in Seq([date : Int, row : Row \cup {Nobody, Blank}])
      /\ DOMAIN announced' = DOMAIN announced \cup {n} /\ announced'[n] = a
      /\ \A i \in DOMAIN announced : announced'[i] = announced[i]
      /\ DOMAIN announced = 1..Len(announced)
  BY <1>1 DEF a
<1>3. TypeOK'
  BY <1>2 DEF IInv, TypeOK, Label
<1>4. pc'[g] = "idle" /\ \A h \in Handler \ {g} : pc'[h] = pc[h]
  BY DEF IInv, TypeOK
<1>5. \A h \in Handler : Setter(h)' /\ Getter(h)'
  BY <1>4 DEF IInv, Setter, Getter, Setting, Slot, RowsOf
<1>6. Written' /\ FieldsOfTheDay'
  BY DEF IInv, Written, FieldsOfTheDay
<1>7. late = {} => dat[g] < DayOf(now)
  BY DEF IInv, Getter
<1>8. Past'
  BY <1>1, <1>2, <1>7 DEF IInv, Past
<1>9. AnnouncedIsFinal'
  <2> SUFFICES ASSUME late = {}, NEW i \in DOMAIN announced'
               PROVE  CASE announced'[i].row = Nobody -> RowsOf(announced'[i].date) = {}
                        [] announced'[i].row = Blank  -> RowsOf(announced'[i].date) # {}
                        [] OTHER -> \E k \in RowsOf(announced'[i].date) : sygj[k] = announced'[i].row
    BY DEF AnnouncedIsFinal, RowsOf
  <2>1. CASE i \in DOMAIN announced
    BY <1>2, <2>1 DEF IInv, AnnouncedIsFinal
  <2>2. CASE i = n
    BY <1>1, <1>2, <2>2, ClockInAssumption
  <2> QED
    BY <1>2, <2>1, <2>2
<1> QED
  BY <1>3, <1>5, <1>6, <1>8, <1>9 DEF IInv

LEMMA CountStep == ASSUME IInv, NEW g \in Handler, Count(g) PROVE IInv'
<1>1. TypeOK /\ Setter(g) /\ Getter(g)
      /\ UNCHANGED <<now, late, received, sygj, num, night, dat, stamp, leaked, clockIns>>
  BY DEF IInv, Count, clockVars
<1>2. ASSUME UNCHANGED announced, NEW l \in Label, pc' = [pc EXCEPT ![g] = l],
             \/ l = "idle"
             \/ l \in {"insertTime", "updateUser"} /\ pc[g] = "count"
             \/ l = "getRow" /\ pc[g] = "getCount" /\ RowsOf(dat[g]) # {}
      PROVE  IInv'
  <2>1. TypeOK' /\ pc'[g] = l /\ \A h \in Handler \ {g} : pc'[h] = pc[h]
    BY <1>1, <1>2 DEF TypeOK
  <2>2. Setter(g)'
    BY <1>1, <1>2, <2>1 DEF Setter, Setting, Dated, Slot
  <2>3. Getter(g)'
    BY <1>1, <1>2, <2>1 DEF Getter, RowsOf
  <2> QED
    BY <1>1, <1>2, <2>1, <2>2, <2>3, Local
<1>3. ASSUME pc[g] = "getCount", RowsOf(dat[g]) = {}, pc' = [pc EXCEPT ![g] = "idle"],
             announced' = Append(announced, [date |-> dat[g], row |-> Nobody])
      PROVE  IInv'
  BY <1>1, <1>3, Announce, ClockInAssumption
<1>4. \/ /\ UNCHANGED announced
         /\ \E l \in Label : /\ pc' = [pc EXCEPT ![g] = l]
                             /\ \/ l = "idle"
                                \/ l \in {"insertTime", "updateUser"} /\ pc[g] = "count"
                                \/ l = "getRow" /\ pc[g] = "getCount" /\ RowsOf(dat[g]) # {}
      \/ /\ pc[g] = "getCount" /\ RowsOf(dat[g]) = {} /\ pc' = [pc EXCEPT ![g] = "idle"]
         /\ announced' = Append(announced, [date |-> dat[g], row |-> Nobody])
  BY DEF Count, Goto, Label
<1> QED
  BY <1>2, <1>3, <1>4

LEMMA GetRowStep == ASSUME IInv, NEW g \in Handler, GetRow(g) PROVE IInv'
<1>1. TypeOK /\ Getter(g) /\ pc[g] = "getRow" /\ pc' = [pc EXCEPT ![g] = "idle"]
      /\ UNCHANGED <<now, late, received, sygj, num, night, dat, stamp, leaked, clockIns>>
      /\ RowsOf(dat[g]) # {}
  BY DEF IInv, GetRow, clockVars, Goto, Getter
<1>2. CASE announced' = Append(announced, [date |-> dat[g], row |-> Blank])
  BY <1>1, <1>2, Announce, ClockInAssumption
<1>3. CASE \E i \in RowsOf(dat[g]) : announced' = Append(announced, [date |-> dat[g], row |-> sygj[i]])
  <2>1. PICK i \in RowsOf(dat[g]) : announced' = Append(announced, [date |-> dat[g], row |-> sygj[i]])
    BY <1>3
  <2>2. sygj[i] \in Row
    BY <1>1 DEF TypeOK, RowsOf
  <2>3. sygj[i] # Nobody
    BY <2>2, ClockInAssumption
  <2> QED
    BY <1>1, <2>1, <2>2, <2>3, Announce
<1> QED
  BY <1>2, <1>3 DEF GetRow

-----------------------------------------------------------------------------
(* The writes of SET_SHOWYEAR.                                             *)

\* Whatever is written to rows of the handler's date, no announced row changes.
LEMMA WriteToday ==
  ASSUME IInv, NEW g \in Handler, pc[g] \in Dated, NEW l \in {"idle", "updateTime", "updateSygj"},
         pc' = [pc EXCEPT ![g] = l], leaked' \in 0..MaxConns, sygj' \in Seq(Row),
         UNCHANGED <<now, late, received, num, night, dat, stamp, clockIns, announced>>,
         \A d \in Int : RowsOf(d) \subseteq RowsOf(d)' /\ (d # dat[g] => RowsOf(d)' = RowsOf(d)),
         \A k \in DOMAIN sygj : sygj[k].date # dat[g] => sygj'[k] = sygj[k],
         Written', FieldsOfTheDay'
  PROVE  IInv'
<1>1. TypeOK /\ Setter(g) /\ dat \in [Handler -> Int] /\ now \in Nat
      /\ announced \in Seq([date : Int, row : Row \cup {Nobody, Blank}])
  BY DEF IInv, TypeOK
<1>2. TypeOK' /\ pc'[g] = l /\ \A h \in Handler \ {g} : pc'[h] = pc[h]
  BY <1>1 DEF TypeOK, Label
<1>3. Setter(g)'
  BY <1>1, <1>2 DEF Setter, Setting, Dated, Slot
<1>4. Getter(g)'
  BY <1>2 DEF Getter
<1>5. \A h \in Handler \ {g} : Setter(h)' /\ Getter(h)'
  <2> SUFFICES ASSUME NEW h \in Handler \ {g} PROVE Setter(h)' /\ Getter(h)'
    OBVIOUS
  <2>1. Setter(h) /\ Getter(h) /\ dat[h] \in Int
    BY <1>1 DEF IInv
  <2>2. Setter(h)'
    BY <1>2, <2>1 DEF Setter, Slot
  <2>3. RowsOf(dat[h]) # {} => RowsOf(dat[h])' # {}
    BY <2>1
  <2>4. Getter(h)'
    BY <1>2, <2>1, <2>3 DEF Getter, RowsOf
  <2> QED
    BY <2>2, <2>4
<1>6. Past'
  BY DEF IInv, Past
<1>7. AnnouncedIsFinal'
  <2> SUFFICES ASSUME late = {}, NEW i \in DOMAIN announced
               PROVE  CASE announced[i].row = Nobody -> RowsOf(announced[i].date)' = {}
                        [] announced[i].row = Blank  -> RowsOf(announced[i].date)' # {}
                        [] OTHER -> \E k \in RowsOf(announced[i].date)' : sygj'[k] = announced[i].row
    BY DEF AnnouncedIsFinal, RowsOf
  <2>1. announced[i].date < DayOf(now) /\ announced[i].date \in Int /\ DayOf(now) \in Int
    BY <1>1, AnnouncedType, Calendar DEF IInv, Past
  <2>2. dat[g] = DayOf(now)
    BY <1>1 DEF Setter, Dated
  <2>3. RowsOf(announced[i].date)' = RowsOf(announced[i].date)
    BY <2>1, <2>2
  <2>4. \A k \in RowsOf(announced[i].date) : sygj'[k] = sygj[k]
    BY <2>1, <2>2 DEF RowsOf
  <2>5. (CASE announced[i].row = Nobody -> RowsOf(announced[i].date) = {}
           [] announced[i].row = Blank  -> RowsOf(announced[i].date) # {}
           [] OTHER -> \E k \in RowsOf(announced[i].date) : sygj[k] = announced[i].row)
    BY DEF IInv, AnnouncedIsFinal
  <2> QED
    BY <2>3, <2>4, <2>5
<1> QED
  BY <1>2, <1>3, <1>4, <1>5, <1>6, <1>7 DEF IInv

LEMMA InsertStep == ASSUME IInv, NEW g \in Handler, Insert(g) PROVE IInv'
<1> DEFINE row == [date |-> dat[g], userId |-> num[g], sygj |-> num[g], time |-> stamp[g]]
<1>1. TypeOK /\ Setter(g) /\ pc[g] = "insert" /\ "insert" \in Dated /\ pc[g] \in Setting
      /\ pc' = [pc EXCEPT ![g] = "idle"]
      /\ UNCHANGED <<now, late, received, num, night, dat, stamp, clockIns, announced>>
  BY DEF IInv, Insert, QueryRow, Goto, clockVars, Dated, Setting
<1>2. leaked' \in 0..MaxConns
  BY <1>1, ClockInAssumption DEF TypeOK, Insert, QueryRow, ConnectionFree
<1>3. sygj \in Seq(Row) /\ row \in Row /\ row.date = dat[g] /\ row.userId = num[g] /\ row.sygj = num[g]
      /\ row.time = stamp[g]
  BY <1>1 DEF TypeOK, Row
<1> HIDE DEF row
<1>4. CASE UNCHANGED sygj
  BY <1>1, <1>2, <1>3, <1>4, WriteToday DEF IInv, Written, FieldsOfTheDay, RowsOf
<1>5. CASE sygj' = Append(sygj, row)
  <2> DEFINE n == Len(sygj) + 1
  <2>1. /\ sygj' \in Seq(Row) /\ DOMAIN sygj' = DOMAIN sygj \cup {n} /\ sygj'[n] = row
        /\ \A k \in DOMAIN sygj : sygj'[k] = sygj[k]
    BY <1>3, <1>5
  <2>2. \A d \in Int : RowsOf(d) \subseteq RowsOf(d)' /\ (d # dat[g] => RowsOf(d)' = RowsOf(d))
    BY <1>3, <2>1 DEF RowsOf
  <2>3. Written'
    BY <1>1, <1>3, <2>1 DEF IInv, Written, Setter
  <2>4. FieldsOfTheDay'
    BY <1>1, <1>3, <2>1 DEF IInv, FieldsOfTheDay, Setter, Slot
  <2> QED
    BY <1>1, <1>2, <2>1, <2>2, <2>3, <2>4, WriteToday
<1> QED
  BY <1>4, <1>5 DEF Insert, QueryRow, row

LEMMA UpdateStep ==
  ASSUME IInv, NEW g \in Handler, UpdateUser(g) \/ UpdateTime(g) \/ UpdateSygj(g)
  PROVE  IInv'
<1>1. TypeOK /\ Setter(g) /\ pc[g] \in Dated /\ pc[g] \in Setting
      /\ UNCHANGED <<now, late, received, num, night, dat, stamp, clockIns, announced>>
  BY DEF IInv, UpdateUser, UpdateTime, UpdateSygj, QueryRow, clockVars, Dated, Setting
<1>2. PICK l \in {"idle", "updateTime", "updateSygj"} : pc' = [pc EXCEPT ![g] = l]
  BY DEF UpdateUser, UpdateTime, UpdateSygj, QueryRow, Goto
<1>3. leaked' \in 0..MaxConns
  BY <1>1, ClockInAssumption DEF TypeOK, UpdateUser, UpdateTime, UpdateSygj, QueryRow, ConnectionFree
<1>4. sygj \in Seq(Row) /\ dat[g] \in Int /\ num[g] \in Nat /\ stamp[g] \in Nat
      /\ num[g] \in 1..Len(clockIns) /\ \A k \in DOMAIN sygj : sygj[k] \in Row
  BY <1>1 DEF TypeOK, Setter
<1>5. CASE UNCHANGED sygj
  BY <1>1, <1>2, <1>3, <1>4, <1>5, WriteToday DEF IInv, Written, FieldsOfTheDay, RowsOf
<1>6. ASSUME NEW column \in {"userId", "sygj", "time"}, NEW value \in Nat, UpdateRows(dat[g], column, value),
             column # "time" => value = num[g],
             column = "time" => value = stamp[g] /\ pc[g] = "update"
      PROVE  IInv'
  <2>1. /\ sygj' \in Seq(Row) /\ DOMAIN sygj' = DOMAIN sygj
        /\ \A i \in DOMAIN sygj :
             /\ sygj'[i].date = sygj[i].date
             /\ sygj[i].date # dat[g] => sygj'[i] = sygj[i]
             /\ sygj[i].date = dat[g] => sygj'[i] = [sygj[i] EXCEPT ![column] = value]
        /\ \A d : RowsOf(d)' = RowsOf(d)
    BY <1>4, <1>6, Update
  <2>2. \A i \in DOMAIN sygj :
          /\ sygj'[i].userId \in {sygj[i].userId, num[g]} /\ sygj'[i].sygj \in {sygj[i].sygj, num[g]}
          /\ sygj'[i].userId # sygj[i].userId => sygj'[i].date = dat[g] /\ sygj'[i].userId = num[g]
          /\ sygj'[i].sygj # sygj[i].sygj => sygj'[i].date = dat[g] /\ sygj'[i].sygj = num[g]
          /\ sygj'[i].time # sygj[i].time =>
               sygj'[i].date = dat[g] /\ sygj'[i].time = stamp[g] /\ pc[g] = "update"
    <3> SUFFICES ASSUME NEW i \in DOMAIN sygj
                 PROVE  /\ \/ sygj'[i].userId = sygj[i].userId
                           \/ sygj'[i].date = dat[g] /\ sygj'[i].userId = num[g]
                        /\ \/ sygj'[i].sygj = sygj[i].sygj
                           \/ sygj'[i].date = dat[g] /\ sygj'[i].sygj = num[g]
                        /\ \/ sygj'[i].time = sygj[i].time
                           \/ sygj'[i].date = dat[g] /\ sygj'[i].time = stamp[g] /\ pc[g] = "update"
      OBVIOUS
    <3>1. CASE sygj[i].date # dat[g]
      BY <2>1, <3>1
    <3>2. CASE sygj[i].date = dat[g] /\ column = "userId"
      BY <1>4, <1>6, <2>1, <3>2 DEF Row
    <3>3. CASE sygj[i].date = dat[g] /\ column = "sygj"
      BY <1>4, <1>6, <2>1, <3>3 DEF Row
    <3>4. CASE sygj[i].date = dat[g] /\ column = "time"
      BY <1>4, <1>6, <2>1, <3>4 DEF Row
    <3> QED
      BY <3>1, <3>2, <3>3, <3>4
  <2>3. Written'
    <3>1. \A i \in DOMAIN sygj : sygj[i].userId \in 1..Len(clockIns) /\ sygj[i].sygj \in 1..Len(clockIns)
      BY DEF IInv, Written
    <3> QED
      BY <1>1, <1>4, <2>1, <2>2, <3>1 DEF Written
  <2>4. /\ num[g] \notin late => dat[g] = DayOf(Slot(num[g]))
        /\ late = {} /\ pc[g] = "update" => DayOf(stamp[g]) = dat[g]
    BY <1>1 DEF Setter
  <2>5. FieldsOfTheDay'
    <3> SUFFICES ASSUME NEW k \in DOMAIN sygj
                 PROVE  /\ sygj'[k].userId \notin late =>
                             DayOf(clockIns[sygj'[k].userId].slot) = sygj'[k].date
                        /\ sygj'[k].sygj \notin late =>
                             DayOf(clockIns[sygj'[k].sygj].slot) = sygj'[k].date
                        /\ late = {} => DayOf(sygj'[k].time) = sygj'[k].date
      BY <1>1, <2>1 DEF FieldsOfTheDay
    <3>1. /\ sygj[k].userId \notin late => DayOf(clockIns[sygj[k].userId].slot) = sygj[k].date
          /\ sygj[k].sygj \notin late => DayOf(clockIns[sygj[k].sygj].slot) = sygj[k].date
          /\ late = {} => DayOf(sygj[k].time) = sygj[k].date
      BY DEF IInv, FieldsOfTheDay
    <3> QED
      BY <2>1, <2>2, <2>4, <3>1 DEF Slot
  <2> QED
    BY <1>1, <1>2, <1>3, <2>1, <2>3, <2>5, WriteToday
<1>7. \/ UNCHANGED sygj
      \/ UpdateRows(dat[g], "userId", num[g])
      \/ UpdateRows(dat[g], "time", stamp[g]) /\ pc[g] = "update"
      \/ UpdateRows(dat[g], "sygj", num[g])
  BY DEF UpdateUser, UpdateTime, UpdateSygj, QueryRow
<1> QED
  BY <1>4, <1>5, <1>6, <1>7

-----------------------------------------------------------------------------
(* The clock.                                                              *)

\* Days go forward, and who does not go with them is caught.
LEMMA TickStep == ASSUME IInv, Tick PROVE IInv'
<1>1. TypeOK /\ now \in Nat /\ now' = now + 1 /\ late' = late \cup Caught(now + 1)
      /\ UNCHANGED <<received, sygj, pc, num, night, dat, stamp, leaked, clockIns, announced>>
  BY DEF IInv, TypeOK, Tick, clockVars
<1>2. DayOf(now) \in Int /\ DayOf(now') \in Int /\ DayOf(now') >= DayOf(now)
      /\ (IsNight(now') => DayOf(now') = DayOf(now) /\ ~IsNight(now))
  BY <1>1, Calendar
<1>3. Caught(now + 1) \subseteq 0..Len(clockIns)
  <2>1. \A g \in Handler : pc[g] \in Setting => num[g] \in 1..Len(clockIns)
    BY DEF IInv, Setter
  <2>2. \A g \in Handler : pc[g] \notin {"idle", "getHour", "getDate", "getCount", "getRow"} => pc[g] \in Setting
    BY <1>1 DEF TypeOK, Label, Setting
  <2>3. Len(clockIns) \in Nat
    BY <1>1 DEF TypeOK
  <2>4. CASE IsNight(now + 1)
    BY <2>1, <2>3, <2>4 DEF Caught, Setting
  <2>5. CASE ~IsNight(now + 1)
    BY <2>1, <2>2, <2>3, <2>5 DEF Caught
  <2> QED
    BY <2>4, <2>5
<1>4. TypeOK'
  <2>1. late \subseteq 0..Len(clockIns)
    BY <1>1 DEF TypeOK
  <2>2. late' \subseteq 0..Len(clockIns)
    BY <1>1, <1>3, <2>1
  <2>3. now' \in Nat
    BY <1>1
  <2> QED
    BY <1>1, <2>2, <2>3 DEF TypeOK
<1>5. \A g \in Handler : Setter(g)'
  <2> SUFFICES ASSUME NEW g \in Handler PROVE Setter(g)'
    OBVIOUS
  <2>1. Setter(g)
    BY DEF IInv
  <2>2. CASE IsNight(now + 1)
    <3>1. pc[g] = "date" => num[g] \in late'
      BY <1>1, <2>2 DEF Caught
    <3> QED
      BY <1>1, <1>2, <2>1, <2>2, <3>1 DEF Setter, Slot
  <2>3. CASE ~IsNight(now + 1)
    <3>1. pc[g] \in Setting => num[g] \in late'
      BY <1>1, <2>3 DEF Caught, Setting
    <3> QED
      BY <1>1, <2>1, <3>1 DEF Setter
  <2> QED
    BY <2>2, <2>3
<1>6. \A g \in Handler : Getter(g)'
  <2> SUFFICES ASSUME NEW g \in Handler PROVE Getter(g)'
    OBVIOUS
  <2>1. Getter(g) /\ dat[g] \in Int
    BY <1>1 DEF IInv, TypeOK
  <2>2. pc[g] = "getDate" /\ IsNight(now') => 0 \in late'
    BY <1>1 DEF Caught
  <2>3. RowsOf(dat[g])' = RowsOf(dat[g])
    BY <1>1 DEF RowsOf
  <2> QED
    BY <1>1, <1>2, <2>1, <2>2, <2>3 DEF Getter
<1>7. Written' /\ FieldsOfTheDay'
  BY <1>1 DEF IInv, Written, FieldsOfTheDay
<1>8. Past'
  <2>1. \A i \in DOMAIN announced : announced[i].date \in Int
    BY <1>1, AnnouncedType
  <2> QED
    BY <1>1, <1>2, <2>1 DEF IInv, Past
<1>9. AnnouncedIsFinal'
  BY <1>1 DEF IInv, AnnouncedIsFinal, RowsOf
<1> QED
  BY <1>4, <1>5, <1>6, <1>7, <1>8, <1>9 DEF IInv

LEMMA CloseStep == ASSUME IInv, CloseConnection PROVE IInv'
<1>1. leaked' \in 0..MaxConns
      /\ UNCHANGED <<now, late, received, sygj, pc, num, night, dat, stamp, clockIns, announced>>
  BY ClockInAssumption DEF IInv, TypeOK, CloseConnection, clockVars
<1> QED
  BY <1>1 DEF IInv, TypeOK, Setter, Getter, Slot, RowsOf, Written, FieldsOfTheDay, Past, AnnouncedIsFinal

-----------------------------------------------------------------------------
(* The theorems.                                                           *)

LEMMA InitEstablishes == Init => IInv
BY ClockInAssumption DEF Init, IInv, TypeOK, Label, Setter, Getter, Setting, Dated, Written, FieldsOfTheDay,
   Past, AnnouncedIsFinal

LEMMA NextPreserves == IInv /\ [Next]_vars => IInv'
<1> SUFFICES ASSUME IInv, [Next]_vars PROVE IInv'
  OBVIOUS
<1>1. ASSUME NEW g \in Handler, Receive(g) \/ HandleMsg(g) PROVE IInv'
  BY <1>1, ReceiveStep, ReadHourStep, ReadDateStep, CountStep, ReadTimeStep, InsertStep, UpdateStep, GetRowStep
     DEF HandleMsg
<1>2. CASE Tick
  BY <1>2, TickStep
<1>3. CASE CloseConnection
  BY <1>3, CloseStep
<1>4. CASE UNCHANGED vars
  BY <1>4 DEF vars, clockVars, IInv, TypeOK, Setter, Getter, Slot, RowsOf, Written, FieldsOfTheDay, Past,
     AnnouncedIsFinal
<1> QED
  BY <1>1, <1>2, <1>3, <1>4 DEF Next

\* Where handlers are, what they know and what was announced agree with the clock
\* and the table.
THEOREM ClockInvariance == Spec => []IInv
BY InitEstablishes, NextPreserves, PTL DEF Spec

\* Every variable keeps its type; no more connections leak than MySQL grants.
THEOREM TypeCorrect == Spec => []TypeOK
<1>1. IInv => TypeOK
  BY DEF IInv
<1> QED
  BY <1>1, ClockInvariance, PTL

\* What SygjQuery writes stands in the row of the day on which it was sent, unless
\* the clock caught the handler.
THEOREM DaysDoNotMix == Spec => []FieldsOfTheDay
<1>1. IInv => FieldsOfTheDay
  BY DEF IInv
<1> QED
  BY <1>1, ClockInvariance, PTL

\* What GetSygjQuery announces is about a day that is over: no SygjQuery changes
\* it, unless the clock caught one of them.
THEOREM Finality == Spec => []AnnouncedIsFinal
<1>1. IInv => AnnouncedIsFinal
  BY DEF IInv
<1> QED
  BY <1>1, ClockInvariance, PTL

-----------------------------------------------------------------------------
(* The champion.  A clock-in that found nobody under way and three         *)
(* connections free, and that the end of its day has not caught, was alone *)
(* with the row of its day: whoever came after it on the same day would    *)
(* have been its successor, and whoever comes on a later day computes a    *)
(* later date, caught by midnight or not (Queued).                         *)

Busy(g) == pc[g] \in Setting

Queued ==
  /\ \A i \in DOMAIN clockIns : Slot(i) <= now
  /\ \A i, j \in DOMAIN clockIns : i <= j => Slot(i) <= Slot(j)
  /\ \A g, h \in Handler : Busy(g) /\ Busy(h) /\ num[g] = num[h] => g = h
  /\ \A g \in Handler, n \in DOMAIN clockIns : Busy(g) /\ clockIns[n].undisturbed => n <= num[g]
  /\ \A g \in Handler :
       /\ pc[g] = "date" => DayOf(Slot(num[g])) <= Date(now) - IF night[g] THEN 1 ELSE 0
       /\ pc[g] \in Dated => DayOf(Slot(num[g])) <= dat[g]

\* The clock-ins that ChampionIsLatest is about.
Counts(n) ==
  /\ \A j \in DOMAIN clockIns : DayOf(Slot(j)) = DayOf(Slot(n)) => j <= n
  /\ clockIns[n].undisturbed
  /\ n \notin late

\* The row of its day is the clock-in's.
Stands(n) ==
  /\ RowsOf(DayOf(Slot(n))) # {}
  /\ \A k \in RowsOf(DayOf(Slot(n))) :
       sygj[k].userId = n /\ sygj[k].sygj = n /\ sygj[k].time >= Slot(n)

\* The connections that are there although the other handlers hold one each.
Spare == MaxConns - (Cardinality(Handler) - 1)

LEMMA SpareType == Spare \in Int /\ MaxConns \in Nat /\ Cardinality(Handler) \in Nat
BY ClockInAssumption, FS_CardinalityType DEF Spare

\* A query that finds one of these connections goes through.
LEMMA NotRefused ==
  ASSUME TypeOK, NEW g \in Handler
  PROVE  Spare \in Int /\ (leaked + 1 <= Spare => ConnectionFree /\ ~MayBeRefused(g))
<1> DEFINE Others == Handler \ {g}
           Holders == {h \in Others : pc[h] \in Querying}
<1>1. IsFiniteSet(Handler) /\ MaxConns \in Nat /\ leaked \in Nat
  BY ClockInAssumption DEF TypeOK
<1>2. IsFiniteSet(Others) /\ Cardinality(Others) = Cardinality(Handler) - 1
  BY <1>1, FS_RemoveElement
<1>3. Cardinality(Handler) \in Nat /\ Cardinality(Others) \in Nat
  BY <1>1, <1>2, FS_CardinalityType
<1>4. IsFiniteSet(Holders) /\ Cardinality(Holders) <= Cardinality(Others)
  BY <1>2, FS_Subset
<1>5. Cardinality(Holders) \in Nat
  BY <1>4, FS_CardinalityType
<1>6. MayBeRefused(g) <=> leaked + Cardinality(Holders) >= MaxConns
  BY DEF MayBeRefused
<1> HIDE DEF Others, Holders
<1> QED
  BY <1>1, <1>2, <1>3, <1>4, <1>5, <1>6 DEF Spare, ConnectionFree

\* How far a clock-in under way has come, and the connections it can count on.
OnItsWay(g) ==
  /\ pc[g] \in {"hour", "date", "count", "updateUser"} => leaked + 3 <= Spare
  /\ pc[g] \in {"updateTime", "update"} => leaked + 2 <= Spare
  /\ pc[g] \in {"insertTime", "insert", "updateSygj"} => leaked + 1 <= Spare
  /\ pc[g] \in {"insertTime", "insert"} => RowsOf(dat[g]) = {}
  /\ pc[g] \in {"updateUser", "updateTime", "update", "updateSygj"} => RowsOf(dat[g]) # {}
  /\ pc[g] \in {"updateTime", "update", "updateSygj"} =>
       \A k \in RowsOf(dat[g]) : sygj[k].userId = num[g]
  /\ pc[g] \in {"insert", "update"} => stamp[g] >= Slot(num[g])
  /\ pc[g] = "updateSygj" => \A k \in RowsOf(dat[g]) : sygj[k].time >= Slot(num[g])

Champions ==
  \A n \in DOMAIN clockIns : Counts(n) =>
    /\ \A g \in Handler : Busy(g) /\ num[g] = n => OnItsWay(g)
    /\ (\A g \in Handler : ~(Busy(g) /\ num[g] = n)) => Stands(n)

CInv == IInv /\ Queued /\ Champions

\* Days do not go backward.
LEMMA Later ==
  ASSUME NEW m \in Nat, NEW n \in Nat, m <= n
  PROVE  /\ DayOf(m) <= DayOf(n) /\ DayOf(m) \in Int /\ DayOf(n) \in Int
         /\ Date(m) <= Date(n) /\ Date(m) \in Int /\ Date(n) \in Int
BY DEF DayOf, Date, IsNight

LEMMA SlotType ==
  ASSUME TypeOK, NEW n \in DOMAIN clockIns
  PROVE  Slot(n) \in Nat /\ n \in Nat /\ clockIns[n].undisturbed \in BOOLEAN
<1> DEFINE Arrival == [slot : Nat, undisturbed : BOOLEAN]
<1>1. clockIns \in Seq(Arrival) /\ n \in Nat
  BY DEF TypeOK
<1>2. \A a \in Arrival : a.slot \in Nat /\ a.undisturbed \in BOOLEAN
  OBVIOUS
<1> HIDE DEF Arrival
<1>3. clockIns[n] \in Arrival
  BY <1>1
<1> QED
  BY <1>1, <1>2, <1>3 DEF Slot

\* A clock-in that counts is alone as long as it is under way.
LEMMA Alone ==
  ASSUME CInv, NEW g \in Handler, Busy(g), Counts(num[g]), NEW h \in Handler, Busy(h)
  PROVE  h = g
<1> SUFFICES ASSUME h # g PROVE FALSE
  OBVIOUS
<1> DEFINE n == num[g]
           m == num[h]
<1>1. TypeOK /\ now \in Nat /\ Len(clockIns) \in Nat /\ DOMAIN clockIns = 1..Len(clockIns)
  BY DEF CInv, IInv, TypeOK
<1>2. n \in 1..Len(clockIns) /\ m \in 1..Len(clockIns) /\ DayOf(now) = DayOf(Slot(n))
  BY DEF CInv, IInv, Setter, Busy, Counts
<1>3. n <= m /\ n # m
  BY <1>1, <1>2 DEF CInv, Queued, Counts
<1>4. Slot(n) <= Slot(m) /\ Slot(m) <= now /\ Slot(n) \in Nat /\ Slot(m) \in Nat
  BY <1>1, <1>2, <1>3, SlotType DEF CInv, Queued
<1>5. DayOf(Slot(m)) = DayOf(Slot(n))
  BY <1>1, <1>2, <1>4, Later
<1>6. m <= n
  BY <1>1, <1>2, <1>5 DEF Counts
<1> QED
  BY <1>2, <1>3, <1>6

\* Nobody else writes to the row of a clock-in that counts.
LEMMA Elsewhere ==
  ASSUME CInv, NEW n \in DOMAIN clockIns, Counts(n),
         NEW h \in Handler, pc[h] \in Dated, num[h] # n
  PROVE  dat[h] # DayOf(Slot(n))
<1> DEFINE m == num[h]
<1>1. TypeOK /\ Busy(h) /\ Len(clockIns) \in Nat /\ DOMAIN clockIns = 1..Len(clockIns) /\ dat[h] \in Int
  BY DEF CInv, IInv, TypeOK, Busy, Dated
<1>2. m \in DOMAIN clockIns
  BY <1>1 DEF CInv, IInv, Setter, Busy
<1>3. n <= m /\ n # m
  BY <1>1 DEF CInv, Queued, Counts
<1>4. Slot(n) <= Slot(m) /\ Slot(n) \in Nat /\ Slot(m) \in Nat /\ m \in Nat /\ n \in Nat
  BY <1>1, <1>2, <1>3, SlotType DEF CInv, Queued
<1>5. DayOf(Slot(m)) # DayOf(Slot(n))
  BY <1>1, <1>2, <1>3, <1>4 DEF Counts
<1>6. DayOf(Slot(n)) <= DayOf(Slot(m)) /\ DayOf(Slot(n)) \in Int /\ DayOf(Slot(m)) \in Int
  BY <1>4, Later
<1>7. DayOf(Slot(m)) <= dat[h]
  BY DEF CInv, Queued
<1> HIDE DEF m
<1> QED
  BY <1>1, <1>5, <1>6, <1>7

\* The others stay where they are.
OthersStay(g) ==
  \A h \in Handler \ {g} : /\ pc'[h] = pc[h] /\ num'[h] = num[h] /\ night'[h] = night[h]
                           /\ dat'[h] = dat[h] /\ stamp'[h] = stamp[h]

\* A step of a handler on the rows of its own date, or on none.
LEMMA HandlerStep ==
  ASSUME CInv, IInv', NEW g \in Handler,
         UNCHANGED <<now, late, clockIns>>, OthersStay(g), num'[g] = num[g],
         Busy(g)' => Busy(g),
         pc'[g] = "date" => DayOf(Slot(num[g])) <= Date(now) - IF night'[g] THEN 1 ELSE 0,
         pc'[g] \in Dated => DayOf(Slot(num[g])) <= dat'[g],
         Busy(g) /\ Counts(num[g]) => IF Busy(g)' THEN OnItsWay(g)' ELSE Stands(num[g])',
         UNCHANGED <<sygj, leaked>> \/ pc[g] \in Dated,
         \A d \in Int : d # dat[g] => RowsOf(d)' = RowsOf(d),
         \A k \in DOMAIN sygj : sygj[k].date # dat[g] => sygj'[k] = sygj[k]
  PROVE  CInv'
<1>1. \A h \in Handler : num'[h] = num[h] /\ (Busy(h)' => Busy(h))
  BY DEF OthersStay, Busy
<1>2. \A n : Slot(n)' = Slot(n) /\ (Counts(n)' <=> Counts(n))
  BY DEF Slot, Counts
<1>3. Queued'
  BY <1>1, <1>2 DEF CInv, Queued, OthersStay
<1>4. Champions'
  <2> SUFFICES ASSUME NEW n \in DOMAIN clockIns, Counts(n)
               PROVE  /\ \A h \in Handler : Busy(h)' /\ num[h] = n => OnItsWay(h)'
                      /\ (\A h \in Handler : ~(Busy(h)' /\ num[h] = n)) => Stands(n)'
    BY <1>1, <1>2 DEF Champions
  <2>1. CASE Busy(g) /\ num[g] = n
    <3>1. \A h \in Handler \ {g} : ~(Busy(h)' /\ num[h] = n)
      BY <1>1, <2>1 DEF CInv, Queued
    <3> QED
      BY <2>1, <3>1
  <2>2. CASE ~(Busy(g) /\ num[g] = n) /\ \E h \in Handler : Busy(h) /\ num[h] = n
    <3>1. PICK h \in Handler : Busy(h) /\ num[h] = n
      BY <2>2
    <3>2. h # g /\ ~Busy(g)
      BY <2>2, <3>1, Alone
    <3>3. UNCHANGED <<sygj, leaked>>
      BY <3>2 DEF Busy, Dated
    <3>4. OnItsWay(h)
      BY <3>1 DEF CInv, Champions
    <3>5. /\ pc'[h] = pc[h] /\ num'[h] = num[h] /\ dat'[h] = dat[h] /\ stamp'[h] = stamp[h]
          /\ RowsOf(dat[h])' = RowsOf(dat[h])
      BY <3>2, <3>3 DEF OthersStay, RowsOf
    <3>6. OnItsWay(h)'
      BY <1>2, <3>3, <3>4, <3>5 DEF OnItsWay, RowsOf
    <3>7. Busy(h)'
      BY <3>1, <3>5 DEF Busy
    <3>8. \A f \in Handler : Busy(f)' /\ num[f] = n => f = h
      BY <1>1, <3>1 DEF CInv, Queued
    <3> QED
      BY <3>1, <3>6, <3>7, <3>8
  <2>3. CASE \A h \in Handler : ~(Busy(h) /\ num[h] = n)
    <3>1. Stands(n)
      BY <2>3 DEF CInv, Champions
    <3>2. DayOf(Slot(n)) \in Int
      BY SlotType, Calendar DEF CInv, IInv
    <3>3. UNCHANGED sygj \/ dat[g] # DayOf(Slot(n))
      BY <2>3, Elsewhere DEF Busy, Dated
    <3>4. RowsOf(DayOf(Slot(n)))' = RowsOf(DayOf(Slot(n)))
      BY <1>2, <3>2, <3>3 DEF RowsOf
    <3>5. \A k \in RowsOf(DayOf(Slot(n))) : sygj'[k] = sygj[k]
      BY <3>3 DEF RowsOf
    <3>6. Stands(n)'
      BY <1>2, <3>1, <3>4, <3>5 DEF Stands
    <3> QED
      BY <1>1, <2>3, <3>6
  <2> QED
    BY <2>1, <2>2, <2>3
<1> QED
  BY <1>3, <1>4 DEF CInv

-----------------------------------------------------------------------------
(* The steps of the handlers.                                              *)

\* What a clock-in under way can rely on.
LEMMA OnTheWay ==
  ASSUME CInv, NEW g \in Handler, Busy(g)
  PROVE  /\ num[g] \in DOMAIN clockIns /\ Slot(num[g]) \in Nat /\ Slot(num[g]) <= now
         /\ Counts(num[g]) =>
              /\ OnItsWay(g)
              /\ pc[g] \in Dated => dat[g] = DayOf(Slot(num[g]))
<1>1. TypeOK /\ Setter(g)
  BY DEF CInv, IInv
<1>2. num[g] \in DOMAIN clockIns
  BY <1>1 DEF Setter, Busy, TypeOK
<1>3. Slot(num[g]) \in Nat /\ Slot(num[g]) <= now
  BY <1>1, <1>2, SlotType DEF CInv, Queued
<1>4. Counts(num[g]) => OnItsWay(g)
  BY <1>2 DEF CInv, Champions
<1> QED
  BY <1>1, <1>2, <1>3, <1>4 DEF Setter, Busy, Counts

\* A step that writes nothing.
LEMMA ReadingStep ==
  ASSUME CInv, IInv', NEW g \in Handler,
         UNCHANGED <<now, late, clockIns, sygj, leaked>>, OthersStay(g), num'[g] = num[g],
         Busy(g)' => Busy(g),
         pc'[g] = "date" => DayOf(Slot(num[g])) <= Date(now) - IF night'[g] THEN 1 ELSE 0,
         pc'[g] \in Dated => DayOf(Slot(num[g])) <= dat'[g],
         Busy(g) /\ Counts(num[g]) => Busy(g)' /\ OnItsWay(g)'
  PROVE  CInv'
<1>1. \A d \in Int : d # dat[g] => RowsOf(d)' = RowsOf(d)
  BY DEF RowsOf
<1> QED
  BY <1>1, HandlerStep

LEMMA ReadHourC == ASSUME CInv, NEW g \in Handler, ReadHour(g) PROVE CInv'
<1>1. TypeOK /\ now \in Nat /\ IInv'
  BY ReadHourStep DEF CInv, IInv, TypeOK
<1>2. UNCHANGED <<now, late, clockIns, sygj, leaked, num, dat, stamp>> /\ night' = [night EXCEPT ![g] = IsNight(now)]
  BY DEF ReadHour
<1>3. PICK l \in {"date", "getDate"} :
        pc' = [pc EXCEPT ![g] = l] /\ (l = "date" => pc[g] = "hour") /\ (l = "getDate" => pc[g] = "getHour")
  BY DEF ReadHour, Goto
<1>4. pc'[g] = l /\ night'[g] = IsNight(now) /\ OthersStay(g)
  BY <1>1, <1>2, <1>3 DEF TypeOK, OthersStay
<1>5. CASE l = "getDate"
  BY <1>1, <1>2, <1>3, <1>4, <1>5, ReadingStep DEF Busy, Setting, Dated
<1>6. CASE l = "date"
  <2>1. Busy(g) /\ Busy(g)'
    BY <1>3, <1>4, <1>6 DEF Busy, Setting
  <2>2. Slot(num[g]) \in Nat /\ Slot(num[g]) <= now
    BY <2>1, OnTheWay
  <2>3. DayOf(Slot(num[g])) <= DayOf(now) /\ Date(now) - (IF IsNight(now) THEN 1 ELSE 0) = DayOf(now)
    BY <1>1, <2>2, Later, Calendar
  <2>4. Counts(num[g]) => OnItsWay(g)'
    BY <1>2, <1>3, <1>4, <1>6, <2>1, OnTheWay DEF OnItsWay
  <2> QED
    BY <1>1, <1>2, <1>4, <1>6, <2>1, <2>3, <2>4, ReadingStep DEF Dated, Setting
<1> QED
  BY <1>5, <1>6

LEMMA ReadDateC == ASSUME CInv, NEW g \in Handler, ReadDate(g) PROVE CInv'
<1>1. TypeOK /\ IInv'
  BY ReadDateStep DEF CInv, IInv
<1>2. UNCHANGED <<now, late, clockIns, sygj, leaked, num, night, stamp>>
  BY DEF ReadDate
<1>3. PICK l \in {"count", "getCount"}, d \in {Date(now) - IF night[g] THEN 1 ELSE 0, Date(now) - IF night[g] THEN 2 ELSE 1} :
        /\ pc' = [pc EXCEPT ![g] = l] /\ dat' = [dat EXCEPT ![g] = d]
        /\ l = "count" => pc[g] = "date" /\ d = Date(now) - IF night[g] THEN 1 ELSE 0
        /\ l = "getCount" => pc[g] = "getDate"
  BY DEF ReadDate, Goto
<1>4. pc'[g] = l /\ dat'[g] = d /\ OthersStay(g)
  BY <1>1, <1>2, <1>3 DEF TypeOK, OthersStay
<1>5. CASE l = "getCount"
  BY <1>1, <1>2, <1>3, <1>4, <1>5, ReadingStep DEF Busy, Setting, Dated
<1>6. CASE l = "count"
  <2>1. Busy(g) /\ Busy(g)'
    BY <1>3, <1>4, <1>6 DEF Busy, Setting
  <2>2. DayOf(Slot(num[g])) <= d
    BY <1>3, <1>6 DEF CInv, Queued
  <2>3. Counts(num[g]) => OnItsWay(g)'
    BY <1>2, <1>3, <1>4, <1>6, <2>1, OnTheWay DEF OnItsWay
  <2> QED
    BY <1>1, <1>2, <1>4, <1>6, <2>1, <2>2, <2>3, ReadingStep
<1> QED
  BY <1>5, <1>6

LEMMA CountC == ASSUME CInv, NEW g \in Handler, Count(g) PROVE CInv'
<1>1. TypeOK /\ leaked \in Nat /\ IInv'
  <2>1. TypeOK /\ IInv'
    BY CountStep DEF CInv, IInv
  <2>2. leaked \in Nat
    BY <2>1, ClockInAssumption DEF TypeOK
  <2> QED
    BY <2>1, <2>2
<1>2. UNCHANGED <<now, late, clockIns, sygj, leaked, num, night, dat, stamp>>
  BY DEF Count, clockVars
<1>3. CASE pc[g] = "getCount"
  <2>1. PICK l \in {"getRow", "idle"} : pc' = [pc EXCEPT ![g] = l]
    BY <1>3 DEF Count, Goto
  <2>2. pc'[g] = l /\ OthersStay(g)
    BY <1>1, <1>2, <2>1 DEF TypeOK, OthersStay
  <2> QED
    BY <1>1, <1>2, <1>3, <2>2, ReadingStep DEF Busy, Setting, Dated
<1>4. CASE pc[g] = "count"
  <2>1. PICK l \in {"idle", "insertTime", "updateUser"} :
          /\ pc' = [pc EXCEPT ![g] = l]
          /\ \/ l = IF RowsOf(dat[g]) = {} THEN "insertTime" ELSE "updateUser"
             \/ MayBeRefused(g)
    BY <1>4 DEF Count, Goto
  <2>2. pc'[g] = l /\ OthersStay(g) /\ RowsOf(dat[g])' = RowsOf(dat[g])
    BY <1>1, <1>2, <2>1 DEF TypeOK, OthersStay, RowsOf
  <2>3. Busy(g) /\ pc[g] \in Dated
    BY <1>4 DEF Busy, Setting, Dated
  <2>4. DayOf(Slot(num[g])) <= dat[g]
    BY <2>3 DEF CInv, Queued
  <2>5. Counts(num[g]) => Busy(g)' /\ OnItsWay(g)'
    <3> SUFFICES ASSUME Counts(num[g]) PROVE Busy(g)' /\ OnItsWay(g)'
      OBVIOUS
    <3>1. leaked + 3 <= Spare
      BY <1>4, <2>3, OnTheWay DEF OnItsWay
    <3>2. ~MayBeRefused(g)
      BY <1>1, <3>1, NotRefused
    <3>3. l \in {"insertTime", "updateUser"} /\ (l = "insertTime" <=> RowsOf(dat[g]) = {})
      BY <2>1, <3>2
    <3> QED
      BY <1>1, <1>2, <2>2, <3>1, <3>3, NotRefused DEF OnItsWay, Busy, Setting, Spare
  <2> QED
    BY <1>1, <1>2, <2>2, <2>3, <2>4, <2>5, ReadingStep DEF Dated, Setting
<1> QED
  BY <1>3, <1>4 DEF Count

LEMMA ReadTimeC == ASSUME CInv, NEW g \in Handler, ReadTime(g) PROVE CInv'
<1>1. TypeOK /\ IInv'
  BY ReadTimeStep DEF CInv, IInv
<1>2. UNCHANGED <<now, late, clockIns, sygj, leaked, num, night, dat>> /\ stamp' = [stamp EXCEPT ![g] = now]
  BY DEF ReadTime
<1>3. PICK l \in {"insert", "update"} :
        /\ pc' = [pc EXCEPT ![g] = l]
        /\ l = "insert" => pc[g] = "insertTime"
        /\ l = "update" => pc[g] = "updateTime"
  BY DEF ReadTime, Goto
<1>4. pc'[g] = l /\ stamp'[g] = now /\ OthersStay(g) /\ RowsOf(dat[g])' = RowsOf(dat[g])
  BY <1>1, <1>2, <1>3 DEF TypeOK, OthersStay, RowsOf
<1>5. Busy(g) /\ Busy(g)' /\ pc[g] \in Dated
  BY <1>3, <1>4 DEF Busy, Setting, Dated
<1>6. DayOf(Slot(num[g])) <= dat[g]
  BY <1>5 DEF CInv, Queued
<1>7. Counts(num[g]) => OnItsWay(g)'
  BY <1>2, <1>3, <1>4, <1>5, OnTheWay DEF OnItsWay, Slot
<1> QED
  BY <1>1, <1>2, <1>3, <1>4, <1>5, <1>6, <1>7, ReadingStep

LEMMA GetRowC == ASSUME CInv, NEW g \in Handler, GetRow(g) PROVE CInv'
<1>1. TypeOK /\ IInv'
  BY GetRowStep DEF CInv, IInv
<1>2. UNCHANGED <<now, late, clockIns, sygj, leaked, num, night, dat, stamp>> /\ pc' = [pc EXCEPT ![g] = "idle"]
      /\ pc[g] = "getRow"
  BY DEF GetRow, Goto, clockVars
<1>3. pc'[g] = "idle" /\ OthersStay(g)
  BY <1>1, <1>2 DEF TypeOK, OthersStay
<1> QED
  BY <1>1, <1>2, <1>3, ReadingStep DEF Busy, Setting, Dated

LEMMA AskC == ASSUME CInv, NEW g \in Handler, Receive(g), UNCHANGED clockIns PROVE CInv'
<1>1. TypeOK /\ IInv' /\ pc[g] = "idle"
  BY ReceiveStep DEF CInv, IInv, Receive
<1>2. UNCHANGED <<now, late, sygj, leaked, num, night, dat, stamp>> /\ pc' = [pc EXCEPT ![g] = "getHour"]
  <2>1. clockIns # Append(clockIns, [slot |-> now, undisturbed |-> Undisturbed])
    <3> DEFINE Arrival == [slot : Nat, undisturbed : BOOLEAN]
               a == [slot |-> now, undisturbed |-> Undisturbed]
    <3>1. clockIns \in Seq(Arrival) /\ a \in Arrival
      BY <1>1 DEF TypeOK, Undisturbed
    <3> HIDE DEF Arrival, a
    <3>2. Len(Append(clockIns, a)) # Len(clockIns)
      BY <3>1
    <3> QED
      BY <3>2 DEF a
  <2> QED
    BY <2>1 DEF Receive, Goto, clockVars
<1>3. pc'[g] = "getHour" /\ OthersStay(g)
  BY <1>1, <1>2 DEF TypeOK, OthersStay
<1> QED
  BY <1>1, <1>2, <1>3, ReadingStep DEF Busy, Setting, Dated

-----------------------------------------------------------------------------
(* The writes.                                                             *)

LEMMA InsertC == ASSUME CInv, NEW g \in Handler, Insert(g) PROVE CInv'
<1> DEFINE row == [date |-> dat[g], userId |-> num[g], sygj |-> num[g], time |-> stamp[g]]
<1>1. TypeOK /\ IInv' /\ dat[g] \in Int
  BY InsertStep DEF CInv, IInv, TypeOK
<1>2. /\ UNCHANGED <<now, late, clockIns, num, night, dat, stamp>>
      /\ pc[g] = "insert" /\ pc' = [pc EXCEPT ![g] = "idle"]
      /\ \/ ConnectionFree /\ sygj' = Append(sygj, row)
         \/ MayBeRefused(g) /\ UNCHANGED sygj
  BY DEF Insert, QueryRow, Goto, clockVars
<1>3. sygj \in Seq(Row) /\ row.date = dat[g] /\ row.userId = num[g] /\ row.sygj = num[g] /\ row.time = stamp[g]
  BY <1>1 DEF TypeOK
<1> HIDE DEF row
<1>4. pc'[g] = "idle" /\ OthersStay(g) /\ pc[g] \in Dated /\ Busy(g) /\ ~Busy(g)'
  BY <1>1, <1>2 DEF TypeOK, OthersStay, Dated, Setting, Busy
<1>5. ASSUME sygj' = Append(sygj, row)
      PROVE  /\ DOMAIN sygj' = DOMAIN sygj \cup {Len(sygj) + 1} /\ sygj'[Len(sygj) + 1] = row
             /\ \A k \in DOMAIN sygj : sygj'[k] = sygj[k]
  BY <1>3, <1>5
<1>6. \A d \in Int : d # dat[g] => RowsOf(d)' = RowsOf(d)
  BY <1>2, <1>3, <1>5 DEF RowsOf
<1>7. \A k \in DOMAIN sygj : sygj'[k] = sygj[k]
  BY <1>2, <1>5
<1>8. ASSUME Counts(num[g]) PROVE Stands(num[g])'
  <2>1. OnItsWay(g) /\ dat[g] = DayOf(Slot(num[g]))
    BY <1>4, <1>8, OnTheWay
  <2>2. leaked + 1 <= Spare /\ RowsOf(dat[g]) = {} /\ stamp[g] >= Slot(num[g])
    BY <1>2, <2>1 DEF OnItsWay
  <2>3. ~MayBeRefused(g)
    BY <1>1, <2>2, NotRefused
  <2>4. RowsOf(dat[g])' = {Len(sygj) + 1}
    BY <1>2, <1>3, <1>5, <2>2, <2>3 DEF RowsOf
  <2>5. Slot(num[g])' = Slot(num[g])
    BY <1>2 DEF Slot
  <2>6. sygj'[Len(sygj) + 1] = row
    BY <1>2, <1>5, <2>3
  <2> QED
    BY <1>2, <1>3, <2>1, <2>2, <2>4, <2>5, <2>6 DEF Stands, RowsOf
<1> QED
  BY <1>1, <1>2, <1>4, <1>6, <1>7, <1>8, HandlerStep DEF Dated, Setting

\* An UPDATE of a clock-in on its way.
LEMMA UpdateC ==
  ASSUME CInv, NEW g \in Handler, UpdateUser(g) \/ UpdateTime(g) \/ UpdateSygj(g)
  PROVE  CInv'
<1>1. TypeOK /\ IInv'
  BY UpdateStep DEF CInv, IInv
<1>2. dat[g] \in Int /\ num[g] \in Nat /\ stamp[g] \in Nat /\ sygj \in Seq(Row)
      /\ \A k \in DOMAIN sygj : sygj[k] \in Row
  BY <1>1 DEF TypeOK
<1>3. leaked \in 0..MaxConns /\ MaxConns \in Nat /\ Spare \in Int
  BY <1>1, ClockInAssumption, NotRefused DEF TypeOK
<1>4. UNCHANGED <<now, late, clockIns, num, night, dat, stamp>>
  BY DEF UpdateUser, UpdateTime, UpdateSygj, QueryRow, clockVars
<1>5. PICK l \in {"updateTime", "updateSygj", "idle"}, column \in {"userId", "time", "sygj"}, value \in Nat :
        /\ pc' = [pc EXCEPT ![g] = l]
        /\ l = "updateTime" => pc[g] = "updateUser" /\ column = "userId" /\ value = num[g]
        /\ l = "updateSygj" => pc[g] = "update" /\ column = "time" /\ value = stamp[g]
        /\ l = "idle" => pc[g] = "updateSygj" /\ column = "sygj" /\ value = num[g]
        /\ \/ ConnectionFree /\ leaked' = leaked + 1 /\ UpdateRows(dat[g], column, value)
           \/ MayBeRefused(g) /\ UNCHANGED <<sygj, leaked>>
  BY <1>2 DEF UpdateUser, UpdateTime, UpdateSygj, QueryRow, Goto
<1>6. pc'[g] = l /\ OthersStay(g)
  BY <1>1, <1>4, <1>5 DEF TypeOK, OthersStay
<1>7. pc[g] \in Dated /\ Busy(g) /\ (Busy(g)' <=> l # "idle") /\ pc'[g] # "date"
  BY <1>5, <1>6 DEF Busy, Dated, Setting
<1>8. ASSUME UpdateRows(dat[g], column, value)
      PROVE  /\ DOMAIN sygj' = DOMAIN sygj /\ \A d : RowsOf(d)' = RowsOf(d)
             /\ \A k \in DOMAIN sygj :
                  /\ sygj[k].date # dat[g] => sygj'[k] = sygj[k]
                  /\ sygj[k].date = dat[g] => sygj'[k] = [sygj[k] EXCEPT ![column] = value]
  BY <1>2, <1>5, <1>8, Update
<1>9. /\ \A d \in Int : d # dat[g] => RowsOf(d)' = RowsOf(d)
      /\ \A k \in DOMAIN sygj : sygj[k].date # dat[g] => sygj'[k] = sygj[k]
  BY <1>5, <1>8 DEF RowsOf
<1>10. DayOf(Slot(num[g])) <= dat[g]
  BY <1>7 DEF CInv, Queued
<1>11. ASSUME Counts(num[g])
       PROVE  IF Busy(g)' THEN OnItsWay(g)' ELSE Stands(num[g])'
  <2>1. OnItsWay(g) /\ dat[g] = DayOf(Slot(num[g])) /\ Slot(num[g]) \in Nat
    BY <1>7, <1>11, OnTheWay
  <2>2. /\ leaked + 1 <= Spare
        /\ l = "updateTime" => leaked + 3 <= Spare
        /\ l = "updateSygj" => leaked + 2 <= Spare
    BY <1>3, <1>5, <2>1 DEF OnItsWay
  <2>3. leaked' = leaked + 1 /\ UpdateRows(dat[g], column, value)
    BY <1>1, <1>5, <2>2, NotRefused
  <2>4. RowsOf(dat[g])' = RowsOf(dat[g]) /\ RowsOf(dat[g]) # {} /\ Slot(num[g])' = Slot(num[g])
    BY <1>4, <1>5, <1>8, <2>1, <2>3 DEF OnItsWay, Slot
  <2>5. \A k \in RowsOf(dat[g]) : sygj[k] \in Row /\ sygj'[k] = [sygj[k] EXCEPT ![column] = value]
    BY <1>2, <1>8, <2>3 DEF RowsOf
  <2>6. CASE l = "updateTime"
    <3>1. \A k \in RowsOf(dat[g]) : sygj'[k].userId = num[g]
      BY <1>5, <2>5, <2>6 DEF Row
    <3>2. OnItsWay(g)'
      BY <1>3, <1>4, <1>6, <2>2, <2>3, <2>4, <2>6, <3>1 DEF OnItsWay, RowsOf
    <3> QED
      BY <1>7, <2>6, <3>2
  <2>7. CASE l = "updateSygj"
    <3>1. \A k \in RowsOf(dat[g]) : sygj[k].userId = num[g] /\ stamp[g] >= Slot(num[g])
      BY <1>5, <2>1, <2>7 DEF OnItsWay
    <3>2. \A k \in RowsOf(dat[g]) : sygj'[k].userId = num[g] /\ sygj'[k].time >= Slot(num[g])
      BY <1>5, <2>5, <2>7, <3>1 DEF Row
    <3>3. OnItsWay(g)'
      BY <1>3, <1>4, <1>6, <2>2, <2>3, <2>4, <2>7, <3>2 DEF OnItsWay, RowsOf
    <3> QED
      BY <1>7, <2>7, <3>3
  <2>8. CASE l = "idle"
    <3>1. \A k \in RowsOf(dat[g]) : sygj[k].userId = num[g] /\ sygj[k].time >= Slot(num[g])
      BY <1>5, <2>1, <2>8 DEF OnItsWay
    <3>2. \A k \in RowsOf(dat[g]) :
            sygj'[k].userId = num[g] /\ sygj'[k].sygj = num[g] /\ sygj'[k].time >= Slot(num[g])
      BY <1>5, <2>5, <2>8, <3>1 DEF Row
    <3>3. Stands(num[g])'
      BY <1>4, <2>1, <2>4, <3>2 DEF Stands, RowsOf
    <3> QED
      BY <1>7, <2>8, <3>3
  <2> QED
    BY <2>6, <2>7, <2>8
<1> QED
  BY <1>1, <1>4, <1>6, <1>7, <1>9, <1>10, <1>11, HandlerStep

-----------------------------------------------------------------------------
(* Arrivals, the clock, and the theorem.                                   *)

\* An arrival takes the place of the last clock-in of its day.
LEMMA ArriveC ==
  ASSUME CInv, NEW g \in Handler, Receive(g),
         clockIns' = Append(clockIns, [slot |-> now, undisturbed |-> Undisturbed]),
         num' = [num EXCEPT ![g] = Len(clockIns) + 1], Goto(g, "hour")
  PROVE  CInv'
<1> DEFINE arrival == [slot |-> now, undisturbed |-> Undisturbed]
           Arrival == [slot : Nat, undisturbed : BOOLEAN]
<1>1. TypeOK /\ IInv' /\ now \in Nat /\ pc[g] = "idle"
  BY ReceiveStep DEF CInv, IInv, TypeOK, Receive
<1>0. PICK n : n = Len(clockIns) + 1
  OBVIOUS
<1>2. UNCHANGED <<now, late, sygj, leaked, night, dat, stamp>>
  BY DEF Receive, clockVars
<1>3. clockIns \in Seq(Arrival) /\ arrival \in Arrival /\ arrival.slot = now /\ arrival.undisturbed = Undisturbed
  BY <1>1 DEF TypeOK, Undisturbed
<1> HIDE DEF arrival, Arrival
<1>4. /\ DOMAIN clockIns = 1..Len(clockIns) /\ Len(clockIns) \in Nat /\ n \notin DOMAIN clockIns
      /\ DOMAIN clockIns' = DOMAIN clockIns \cup {n} /\ clockIns'[n] = arrival
      /\ \A i \in DOMAIN clockIns : clockIns'[i] = clockIns[i] /\ i <= n
  BY <1>0, <1>3 DEF arrival
<1>5. /\ Slot(n)' = now
      /\ \A i \in DOMAIN clockIns : Slot(i)' = Slot(i) /\ Slot(i) \in Nat /\ i \in Nat
  BY <1>1, <1>3, <1>4, SlotType DEF Slot
<1>6. /\ pc'[g] = "hour" /\ num'[g] = n /\ Busy(g)' /\ ~Busy(g)
      /\ \A h \in Handler \ {g} : pc'[h] = pc[h] /\ num'[h] = num[h] /\ (Busy(h)' <=> Busy(h))
  BY <1>0, <1>1 DEF TypeOK, Goto, Busy, Setting
<1>7. \A h \in Handler : Busy(h) => num[h] \in DOMAIN clockIns
  BY OnTheWay
<1>8. Queued'
  <2>1. \A i \in DOMAIN clockIns' : Slot(i)' <= now'
    BY <1>1, <1>2, <1>4, <1>5 DEF CInv, Queued
  <2>2. ASSUME NEW i \in DOMAIN clockIns', NEW j \in DOMAIN clockIns', i <= j PROVE Slot(i)' <= Slot(j)'
    <3>1. CASE j = n
      BY <1>2, <2>1, <3>1, <1>5
    <3>2. CASE i = n /\ j \in DOMAIN clockIns
      BY <1>4, <2>2, <3>2
    <3>3. CASE i \in DOMAIN clockIns /\ j \in DOMAIN clockIns
      BY <1>5, <2>2, <3>3 DEF CInv, Queued
    <3> QED
      BY <1>4, <3>1, <3>2, <3>3
  <2>3. ASSUME NEW h \in Handler, NEW f \in Handler, Busy(h)', Busy(f)', num'[h] = num'[f] PROVE h = f
    BY <1>4, <1>6, <1>7, <2>3 DEF CInv, Queued
  <2>4. ASSUME NEW h \in Handler, NEW i \in DOMAIN clockIns', Busy(h)', clockIns'[i].undisturbed
        PROVE  i <= num'[h]
    <3>1. CASE h = g
      BY <1>4, <1>6, <3>1
    <3>2. CASE h # g /\ i = n
      <4>1. Undisturbed /\ Busy(h)
        BY <1>3, <1>4, <1>6, <2>4, <3>2
      <4> QED
        BY <4>1 DEF Undisturbed, Busy, Setting
    <3>3. CASE h # g /\ i \in DOMAIN clockIns
      BY <1>4, <1>6, <2>4, <3>3 DEF CInv, Queued
    <3> QED
      BY <1>4, <3>1, <3>2, <3>3
  <2>5. ASSUME NEW h \in Handler
        PROVE  /\ pc'[h] = "date" => DayOf(Slot(num[h])') <= Date(now)' - IF night'[h] THEN 1 ELSE 0
               /\ pc'[h] \in Dated => DayOf(Slot(num[h])') <= dat'[h]
    BY <1>2, <1>5, <1>6, <1>7 DEF CInv, Queued, Busy, Dated, Setting
  <2>6. \A h \in Handler : pc'[h] = "date" \/ pc'[h] \in Dated => num'[h] = num[h]
    BY <1>6 DEF Dated, Setting
  <2>7. \A h \in Handler :
          /\ pc'[h] = "date" => DayOf(Slot(num[h]))' <= Date(now)' - IF night'[h] THEN 1 ELSE 0
          /\ pc'[h] \in Dated => DayOf(Slot(num[h]))' <= dat'[h]
    BY <2>5, <2>6 DEF Slot
  <2> QED
    BY <2>1, <2>2, <2>3, <2>4, <2>7 DEF Queued
<1>9. Champions'
  <2> SUFFICES ASSUME NEW i \in DOMAIN clockIns', Counts(i)'
               PROVE  /\ \A h \in Handler : Busy(h)' /\ num'[h] = i => OnItsWay(h)'
                      /\ (\A h \in Handler : ~(Busy(h)' /\ num'[h] = i)) => Stands(i)'
    BY DEF Champions
  <2>1. CASE i = n
    <3>1. leaked' + 3 <= Spare
      <4>1. leaked' = leaked /\ leaked \in Nat
        BY <1>1, <1>2, ClockInAssumption DEF TypeOK
      <4>2. Undisturbed
        BY <1>3, <1>4, <2>1 DEF Counts
      <4>3. leaked + 3 + (Cardinality(Handler) - 1) <= MaxConns
        BY <4>2 DEF Undisturbed
      <4> QED
        BY <4>1, <4>3, SpareType DEF Spare
    <3>2. \A h \in Handler : Busy(h)' /\ num'[h] = i => h = g
      BY <1>4, <1>6, <1>7, <2>1
    <3>3. OnItsWay(g)'
      BY <1>6, <3>1 DEF OnItsWay
    <3> QED
      BY <1>6, <2>1, <3>2, <3>3
  <2>2. CASE i \in DOMAIN clockIns
    <3>1. Counts(i)
      BY <1>2, <1>4, <1>5, <2>2 DEF Counts
    <3>2. \A h \in Handler : Busy(h)' /\ num'[h] = i <=> Busy(h) /\ num[h] = i
      BY <1>4, <1>6, <2>2
    <3>3. ASSUME NEW h \in Handler, Busy(h), num[h] = i PROVE OnItsWay(h)'
      <4>1. OnItsWay(h) /\ h # g
        BY <1>6, <2>2, <3>1, <3>3 DEF CInv, Champions
      <4>2. Slot(num[h])' = Slot(num[h])
        BY <1>5, <1>6, <2>2, <3>3, <4>1 DEF Slot
      <4> QED
        BY <1>2, <1>6, <4>1, <4>2 DEF OnItsWay, RowsOf
    <3>4. Stands(i) => Stands(i)'
      BY <1>2, <1>5, <2>2 DEF Stands, RowsOf
    <3> QED
      BY <2>2, <3>1, <3>2, <3>3, <3>4 DEF CInv, Champions
  <2> QED
    BY <1>4, <2>1, <2>2
<1> QED
  BY <1>1, <1>8, <1>9 DEF CInv

LEMMA TickC == ASSUME CInv, Tick PROVE CInv'
<1>1. TypeOK /\ now \in Nat /\ IInv'
  BY TickStep DEF CInv, IInv, TypeOK
<1>2. now' = now + 1 /\ late \subseteq late'
      /\ UNCHANGED <<sygj, pc, num, night, dat, stamp, leaked, clockIns>>
  BY DEF Tick, clockVars
<1>3. Date(now) <= Date(now') /\ Date(now) \in Int /\ Date(now') \in Int
  BY <1>1, <1>2, Later
<1>4. \A i \in DOMAIN clockIns : Slot(i)' = Slot(i) /\ Slot(i) \in Nat /\ DayOf(Slot(i)) \in Int
  BY <1>1, <1>2, SlotType, Calendar DEF Slot
<1>5. \A g \in Handler : Busy(g)' = Busy(g)
  BY <1>2 DEF Busy
<1>6. Queued'
  <2>1. \A i \in DOMAIN clockIns : Slot(i)' <= now'
    BY <1>1, <1>2, <1>4 DEF CInv, Queued
  <2>2. ASSUME NEW g \in Handler
        PROVE  /\ pc[g] = "date" => DayOf(Slot(num[g])) <= Date(now') - IF night[g] THEN 1 ELSE 0
               /\ pc[g] \in Dated => DayOf(Slot(num[g])) <= dat[g]
    <3>1. pc[g] = "date" => DayOf(Slot(num[g])) \in Int
      BY <1>4, OnTheWay DEF Busy, Setting
    <3> QED
      BY <1>3, <3>1 DEF CInv, Queued
  <2>3. \A g \in Handler : Slot(num[g])' = Slot(num[g])
    BY <1>2 DEF Slot
  <2> QED
    BY <1>2, <1>4, <1>5, <2>1, <2>2, <2>3 DEF CInv, Queued
<1>7. \A n \in DOMAIN clockIns : Counts(n)' => Counts(n)
  BY <1>2, <1>4 DEF Counts
<1>8. /\ \A n \in DOMAIN clockIns : Stands(n)' = Stands(n)
      /\ \A g \in Handler : OnItsWay(g)' = OnItsWay(g)
  BY <1>2 DEF Stands, OnItsWay, RowsOf, Slot
<1>9. Champions'
  BY <1>2, <1>5, <1>7, <1>8 DEF CInv, Champions
<1> QED
  BY <1>1, <1>6, <1>9 DEF CInv

LEMMA CloseC == ASSUME CInv, CloseConnection PROVE CInv'
<1>1. TypeOK /\ IInv'
  BY CloseStep DEF CInv, IInv
<1>2. leaked' = leaked - 1 /\ leaked \in Nat /\ MaxConns \in Nat
  BY <1>1, ClockInAssumption DEF TypeOK, CloseConnection
<1>3. UNCHANGED <<now, late, sygj, pc, num, night, dat, stamp, clockIns>>
  BY DEF CloseConnection, clockVars
<1>4. Queued'
  BY <1>3 DEF CInv, Queued, Busy, Slot
<1>5. \A g \in Handler : OnItsWay(g) => OnItsWay(g)'
  BY <1>2, <1>3, SpareType DEF OnItsWay, RowsOf, Slot
<1>6. \A n \in DOMAIN clockIns : Counts(n)' = Counts(n) /\ Stands(n)' = Stands(n)
  BY <1>3 DEF Counts, Stands, RowsOf, Slot
<1>7. Champions'
  BY <1>3, <1>5, <1>6 DEF CInv, Champions, Busy
<1> QED
  BY <1>1, <1>4, <1>7 DEF CInv

LEMMA InitC == Init => CInv
<1> SUFFICES ASSUME Init PROVE CInv
  OBVIOUS
<1>1. DOMAIN clockIns = {} /\ \A g \in Handler : pc[g] = "idle"
  BY DEF Init
<1>2. \A g \in Handler : ~Busy(g) /\ pc[g] # "date" /\ pc[g] \notin Dated
  BY <1>1 DEF Busy, Setting, Dated
<1> QED
  BY <1>1, <1>2, InitEstablishes DEF CInv, Queued, Champions

LEMMA NextC == CInv /\ [Next]_vars => CInv'
<1> SUFFICES ASSUME CInv, [Next]_vars PROVE CInv'
  OBVIOUS
<1>1. ASSUME NEW g \in Handler, Receive(g) PROVE CInv'
  BY <1>1, ArriveC, AskC DEF Receive
<1>2. ASSUME NEW g \in Handler, HandleMsg(g) PROVE CInv'
  BY <1>2, ReadHourC, ReadDateC, CountC, ReadTimeC, InsertC, UpdateC, GetRowC DEF HandleMsg
<1>3. CASE Tick
  BY <1>3, TickC
<1>4. CASE CloseConnection
  BY <1>4, CloseC
<1>5. CASE UNCHANGED vars
  <2>1. IInv'
    BY <1>5, NextPreserves DEF CInv
  <2>2. Queued' /\ Champions'
    BY <1>5 DEF vars, clockVars, CInv, Queued, Champions, Busy, Counts, Stands, OnItsWay, RowsOf, Slot
  <2> QED
    BY <2>1, <2>2 DEF CInv
<1> QED
  BY <1>1, <1>2, <1>3, <1>4, <1>5 DEF Next

\* A clock-in that found nobody under way and three connections free gets through,
\* alone, to the row of its day, and stays there until somebody comes after it.
THEOREM ChampionInvariance == Spec => []CInv
BY InitC, NextC, PTL DEF Spec

\* Every day with a clock-in has a last one.
LEMMA LastOfDay ==
  ASSUME TypeOK, NEW day, NEW n \in DOMAIN clockIns, DayOf(Slot(n)) = day
  PROVE  \E i \in DOMAIN clockIns :
           /\ DayOf(Slot(i)) = day
           /\ \A j \in DOMAIN clockIns : DayOf(Slot(j)) = day => j <= i
<1>1. DOMAIN clockIns = 1..Len(clockIns) /\ Len(clockIns) \in Nat
  BY DEF TypeOK
<1> DEFINE Behind == {Len(clockIns) - i : i \in {i \in DOMAIN clockIns : DayOf(Slot(i)) = day}}
<1>2. Behind \subseteq Nat /\ Behind # {}
  BY <1>1
<1>3. PICK b \in Behind : \A c \in Behind : <<c, b>> \notin OpToRel(<, Nat)
  BY <1>2, NatLessThanWellFounded, WFMin
<1>4. \A c \in Behind : ~(c < b)
  BY <1>2, <1>3 DEF OpToRel
<1>5. PICK i \in DOMAIN clockIns : DayOf(Slot(i)) = day /\ b = Len(clockIns) - i
  BY <1>3
<1>6. ASSUME NEW j \in DOMAIN clockIns, DayOf(Slot(j)) = day PROVE j <= i
  <2>1. Len(clockIns) - j \in Behind
    BY <1>6
  <2>2. ~(Len(clockIns) - j < Len(clockIns) - i)
    BY <1>4, <1>5, <2>1
  <2> QED
    BY <1>1, <2>2
<1> QED
  BY <1>5, <1>6

\* Once everybody is done, the row of a day is its last clock-in, if that found the
\* server undisturbed and was done before the day was (SygjQuery).
THEOREM LastOneStands == Spec => []ChampionIsLatest
<1>1. CInv => ChampionIsLatest
  <2> SUFFICES ASSUME CInv, AllIdle, NEW day \in {DayOf(clockIns[i].slot) : i \in DOMAIN clockIns}
               PROVE  LET last == CHOOSE i \in DOMAIN clockIns :
                                    /\ DayOf(clockIns[i].slot) = day
                                    /\ \A j \in DOMAIN clockIns : DayOf(clockIns[j].slot) = day => j <= i
                      IN clockIns[last].undisturbed /\ last \notin late =>
                           /\ RowsOf(day) # {}
                           /\ \A k \in RowsOf(day) :
                                /\ sygj[k].userId = last /\ sygj[k].sygj = last
                                /\ sygj[k].time >= clockIns[last].slot
    BY DEF ChampionIsLatest
  <2>0. PICK n \in DOMAIN clockIns : DayOf(Slot(n)) = day
    BY DEF Slot
  <2> DEFINE Latest(i) == /\ DayOf(clockIns[i].slot) = day
                        /\ \A j \in DOMAIN clockIns : DayOf(clockIns[j].slot) = day => j <= i
             last == CHOOSE i \in DOMAIN clockIns : Latest(i)
  <2>1. \E i \in DOMAIN clockIns : Latest(i)
    BY <2>0, LastOfDay DEF CInv, IInv, Slot
  <2> HIDE DEF Latest
  <2>2. last \in DOMAIN clockIns /\ Latest(last)
    BY <2>1
  <2> HIDE DEF last
  <2> SUFFICES ASSUME clockIns[last].undisturbed, last \notin late
               PROVE  /\ RowsOf(day) # {}
                      /\ \A k \in RowsOf(day) :
                           /\ sygj[k].userId = last /\ sygj[k].sygj = last
                           /\ sygj[k].time >= clockIns[last].slot
    BY DEF last, Latest
  <2>3. DayOf(Slot(last)) = day /\ Counts(last)
    BY <2>2 DEF Latest, Counts, Slot
  <2>4. \A g \in Handler : ~Busy(g)
    BY DEF AllIdle, Busy, Setting
  <2>5. Stands(last)
    BY <2>2, <2>3, <2>4 DEF CInv, Champions
  <2> QED
    BY <2>3, <2>5 DEF Stands, Slot
<1> QED
  BY <1>1, ChampionInvariance, PTL
=============================================================================
