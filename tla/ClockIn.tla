------------------------------- MODULE ClockIn -------------------------------
(***************************************************************************)
(* Clocking in, and asking for the champion of yesterday: SET_SHOWYEAR and *)
(* GET_SHOWYEAR in Server/dataHandle/handler.go.                           *)
(*                                                                         *)
(* The champion of a day is who clocked in last.  A day lasts from 6:00 to *)
(* 6:00.  Every handler reads the clock again for each thing that it wants *)
(* to know: the hour, the date and the time that it stores.  The table     *)
(* sygj has one row per day, written by one INSERT or three UPDATEs.  The  *)
(* writes go through QueryRow without Scan, which never gives the          *)
(* connection back: MySQL has so many connections, and once they are gone  *)
(* queries fail.                                                           *)
(*                                                                         *)
(* Moments are counted in slots, two a day: the night (0:00 to 6:00) and   *)
(* the rest.  A clock-in is known by the number of its datagram, which     *)
(* stands for its user and its text.                                       *)
(***************************************************************************)
EXTENDS Integers, FiniteSets, SequencesExt

CONSTANTS
  Handler,     \* goroutine slots
  Nobody,      \* what is announced for a day without a row
  Blank,       \* what is announced when the row cannot be read
  MaxConns,    \* how many connections MySQL grants
  MaxRequests, \* bound: how many datagrams the server reads in a behaviour
  MaxNow       \* bound: the last slot

Row == [date : Int, userId : Nat, sygj : Nat, time : Nat]

ASSUME ClockInAssumption ==
  /\ IsFiniteSet(Handler)
  /\ MaxConns \in Nat
  /\ MaxRequests \in Nat
  /\ MaxNow \in Nat
  /\ Nobody # Blank /\ {Nobody, Blank} \cap Row = {}

VARIABLES
  now,       \* the current slot
  sygj,      \* the rows of the table, in the order of their insertion
  pc,        \* where each goroutine is
  num,       \* the datagram it handles
  night,     \* whether the hour that it read is before 6
  dat,       \* the date that it computed
  stamp,     \* the time that it read last
  received,  \* how many datagrams were read
  leaked,    \* connections that are never given back
  clockIns,  \* the slot in which each clock-in arrived, and whether it found
             \* the server undisturbed (history)
  announced, \* what the clients were told, and of which day (history)
  late       \* clock-ins that the end of a day has caught, and 0 for an
             \* announcement that midnight has split (history)

vars == <<now, late, sygj, pc, num, night, dat, stamp, received, leaked, clockIns, announced>>

clockVars == <<night, dat, stamp>>

-----------------------------------------------------------------------------
(* The clock.                                                              *)

Date(slot) == slot \div 2

IsNight(slot) == slot % 2 = 0

\* The day, from 6:00 to 6:00, to which a slot belongs.
DayOf(slot) == IF IsNight(slot) THEN Date(slot) - 1 ELSE Date(slot)

\* Midnight between the readings of hour and date splits them; 6:00 ends the
\* day of a clock-in under way.
Caught(slot) ==
  IF IsNight(slot)
  THEN {num[g] : g \in {g \in Handler : pc[g] = "date"}}
         \cup {0 : g \in {g \in Handler : pc[g] = "getDate"}}
  ELSE {num[g] : g \in {g \in Handler : pc[g] \notin {"idle", "getHour", "getDate", "getCount", "getRow"}}}

Tick ==
  /\ now < MaxNow
  /\ now' = now + 1
  /\ late' = late \cup Caught(now + 1)
  /\ UNCHANGED <<received, sygj, pc, num, clockVars, leaked, clockIns, announced>>

-----------------------------------------------------------------------------
(* Helpers.                                                                *)

Goto(g, label) == pc' = [pc EXCEPT ![g] = label]

Querying == {"count", "insert", "updateUser", "update", "updateSygj", "getCount", "getRow"}

\* MySQL accepts one more connection.
ConnectionFree == leaked < MaxConns

\* The other handlers may hold a connection each, while a query of theirs runs.
MayBeRefused(g) ==
  leaked + Cardinality({h \in Handler \ {g} : pc[h] \in Querying}) >= MaxConns

\* No clock-in is under way, and there are connections for one.
Undisturbed ==
  /\ \A g \in Handler : pc[g] \in {"idle", "getHour", "getDate", "getCount", "getRow"}
  /\ leaked + 3 + (Cardinality(Handler) - 1) <= MaxConns

RowsOf(date) == {i \in DOMAIN sygj : sygj[i].date = date}

UpdateRows(date, column, value) ==
  sygj' = [i \in DOMAIN sygj |->
             IF sygj[i].date = date THEN [sygj[i] EXCEPT ![column] = value] ELSE sygj[i]]

\* Mutant: connections are there for the asking.
QueryRowAlways(g, from, to, Write) ==
  /\ pc[g] = from
  /\ leaked' = leaked + 1
  /\ Write
  /\ Goto(g, to)
  /\ UNCHANGED <<now, late, received, num, clockVars, clockIns, announced>>

\* A QueryRow that writes, does as Write says and is never scanned; its
\* error is dropped, too.
QueryRow(g, from, to, Write) ==
  /\ pc[g] = from
  /\ \/ /\ ConnectionFree
        /\ leaked' = leaked + 1
        /\ Write
     \/ /\ MayBeRefused(g)
        /\ UNCHANGED <<leaked, sygj>>
  /\ Goto(g, to)
  /\ UNCHANGED <<now, late, received, num, clockVars, clockIns, announced>>

-----------------------------------------------------------------------------
(* Both requests first read the hour, and the date afterwards.             *)

Receive(g) ==
  /\ pc[g] = "idle"
  /\ received < MaxRequests
  /\ received' = received + 1
  /\ \/ /\ clockIns' = Append(clockIns, [slot |-> now, undisturbed |-> Undisturbed])
        /\ num' = [num EXCEPT ![g] = Len(clockIns) + 1]
        /\ Goto(g, "hour")
     \/ /\ Goto(g, "getHour")
        /\ UNCHANGED <<num, clockIns>>
  /\ UNCHANGED <<now, late, sygj, clockVars, leaked, announced>>

ReadHour(g) ==
  /\ \/ pc[g] = "hour" /\ Goto(g, "date")
     \/ pc[g] = "getHour" /\ Goto(g, "getDate")
  /\ night' = [night EXCEPT ![g] = IsNight(now)]
  /\ UNCHANGED <<now, late, received, sygj, num, dat, stamp, leaked, clockIns, announced>>

\* Mutant: the night belongs to the day that begins.
ReadDateToday(g) ==
  /\ \/ /\ pc[g] = "date"
        /\ dat' = [dat EXCEPT ![g] = Date(now)]
        /\ Goto(g, "count")
     \/ /\ pc[g] = "getDate"
        /\ dat' = [dat EXCEPT ![g] = Date(now) - IF night[g] THEN 2 ELSE 1]
        /\ Goto(g, "getCount")
  /\ UNCHANGED <<now, late, received, sygj, num, night, stamp, leaked, clockIns, announced>>

\* Mutant: yesterday is the day before today, at night as well.
ReadDateYesterday(g) ==
  /\ \/ /\ pc[g] = "date"
        /\ dat' = [dat EXCEPT ![g] = Date(now) - IF night[g] THEN 1 ELSE 0]
        /\ Goto(g, "count")
     \/ /\ pc[g] = "getDate"
        /\ dat' = [dat EXCEPT ![g] = Date(now) - 1]
        /\ Goto(g, "getCount")
  /\ UNCHANGED <<now, late, received, sygj, num, night, stamp, leaked, clockIns, announced>>

ReadDate(g) ==
  /\ \/ /\ pc[g] = "date"
        /\ dat' = [dat EXCEPT ![g] = Date(now) - IF night[g] THEN 1 ELSE 0]
        /\ Goto(g, "count")
     \/ /\ pc[g] = "getDate"
        /\ dat' = [dat EXCEPT ![g] = Date(now) - IF night[g] THEN 2 ELSE 1]
        /\ Goto(g, "getCount")
  /\ UNCHANGED <<now, late, received, sygj, num, night, stamp, leaked, clockIns, announced>>

\* SELECT COUNT, of both: checkErr panics when the query fails.
Count(g) ==
  /\ \/ /\ pc[g] = "count"
        /\ \/ ConnectionFree /\ Goto(g, IF RowsOf(dat[g]) = {} THEN "insertTime" ELSE "updateUser")
           \/ MayBeRefused(g) /\ Goto(g, "idle")
        /\ UNCHANGED announced
     \/ /\ pc[g] = "getCount"
        /\ \/ ConnectionFree /\ RowsOf(dat[g]) # {} /\ Goto(g, "getRow")
           \/ MayBeRefused(g) /\ Goto(g, "idle")
        /\ UNCHANGED announced
     \/ /\ pc[g] = "getCount"
        /\ ConnectionFree /\ RowsOf(dat[g]) = {}
        /\ announced' = Append(announced, [date |-> dat[g], row |-> Nobody])
        /\ Goto(g, "idle")
  /\ UNCHANGED <<now, late, received, sygj, num, clockVars, leaked, clockIns>>

-----------------------------------------------------------------------------
(* The writes of SET_SHOWYEAR.                                             *)

\* GetCurTime, evaluated before the statement that stores it.
ReadTime(g) ==
  /\ \/ pc[g] = "insertTime" /\ Goto(g, "insert")
     \/ pc[g] = "updateTime" /\ Goto(g, "update")
  /\ stamp' = [stamp EXCEPT ![g] = now]
  /\ UNCHANGED <<now, late, received, sygj, num, night, dat, leaked, clockIns, announced>>

Insert(g) ==
  QueryRow(g, "insert", "idle",
    sygj' = Append(sygj, [date |-> dat[g], userId |-> num[g],
                          sygj |-> num[g], time |-> stamp[g]]))

UpdateUser(g) ==
  QueryRow(g, "updateUser", "updateTime",
    UpdateRows(dat[g], "userId", num[g]))

UpdateTime(g) ==
  QueryRow(g, "update", "updateSygj",
    UpdateRows(dat[g], "time", stamp[g]))

\* Mutant: the text of the day before stays.
UpdateSygjNever(g) == QueryRow(g, "updateSygj", "idle", UNCHANGED sygj)

UpdateSygj(g) ==
  QueryRow(g, "updateSygj", "idle",
    UpdateRows(dat[g], "sygj", num[g]))

-----------------------------------------------------------------------------
(* GET_SHOWYEAR.                                                           *)

\* SELECT userId, sygj, time: one of the rows.  Its error is dropped.
GetRow(g) ==
  /\ pc[g] = "getRow"
  /\ \/ /\ ConnectionFree
        /\ \E i \in RowsOf(dat[g]) :
             announced' = Append(announced, [date |-> dat[g], row |-> sygj[i]])
     \/ /\ MayBeRefused(g)
        /\ announced' = Append(announced, [date |-> dat[g], row |-> Blank])
  /\ Goto(g, "idle")
  /\ UNCHANGED <<now, late, received, sygj, num, clockVars, leaked, clockIns>>

\* MySQL closes a connection that was idle for wait_timeout.
CloseConnection ==
  /\ leaked > 0
  /\ leaked' = leaked - 1
  /\ UNCHANGED <<now, late, received, sygj, pc, num, clockVars, clockIns, announced>>

-----------------------------------------------------------------------------

HandleMsg(g) ==
  \/ ReadHour(g) \/ ReadDate(g) \/ Count(g)
  \/ ReadTime(g) \/ Insert(g) \/ UpdateUser(g) \/ UpdateTime(g) \/ UpdateSygj(g)
  \/ GetRow(g)

Init ==
  /\ now \in 2..3
  /\ sygj = <<>>
  /\ pc = [g \in Handler |-> "idle"]
  /\ num = [g \in Handler |-> 0]
  /\ night = [g \in Handler |-> FALSE]
  /\ dat = [g \in Handler |-> 0]
  /\ stamp = [g \in Handler |-> 0]
  /\ received = 0
  /\ leaked = 0
  /\ clockIns = <<>>
  /\ announced = <<>>
  /\ late = {}

Next ==
  \/ \E g \in Handler : Receive(g) \/ HandleMsg(g)
  \/ Tick
  \/ CloseConnection

Spec == Init /\ [][Next]_vars

-----------------------------------------------------------------------------
(* Properties that hold.                                                   *)

AllIdle == \A g \in Handler : pc[g] = "idle"

Label == {"idle", "hour", "date", "count", "insertTime", "insert", "updateUser",
          "updateTime", "update", "updateSygj", "getHour", "getDate", "getCount", "getRow"}

\* Every variable keeps its type.
TypeOK ==
  /\ now \in Nat
  /\ sygj \in Seq(Row)
  /\ pc \in [Handler -> Label]
  /\ num \in [Handler -> Nat]
  /\ night \in [Handler -> BOOLEAN]
  /\ dat \in [Handler -> Int]
  /\ stamp \in [Handler -> Nat]
  /\ received \in Nat
  /\ leaked \in 0..MaxConns
  /\ clockIns \in Seq([slot : Nat, undisturbed : BOOLEAN])
  /\ late \subseteq 0..Len(clockIns)
  /\ announced \in Seq([date : Int, row : Row \cup {Nobody, Blank}])

\* The row of a day (or both, if two were inserted) is its last clock-in, if
\* that clock-in found no other one under way and three connections free beside
\* one for each other handler, and was done before the day was, whatever
\* happened before it (SygjQuery; "the user who clocked in last that day",
\* handler.go:351).
ChampionIsLatest ==
  AllIdle => \A day \in {DayOf(clockIns[i].slot) : i \in DOMAIN clockIns} :
    LET last == CHOOSE i \in DOMAIN clockIns :
                  /\ DayOf(clockIns[i].slot) = day
                  /\ \A j \in DOMAIN clockIns : DayOf(clockIns[j].slot) = day => j <= i
    IN clockIns[last].undisturbed /\ last \notin late =>
         /\ RowsOf(day) # {}
         /\ \A k \in RowsOf(day) :
              /\ sygj[k].userId = last /\ sygj[k].sygj = last
              /\ sygj[k].time >= clockIns[last].slot

\* Whichever way handlers interleave and the clock runs, a user and a text
\* that the clock did not catch stand in the row of the day on which they were
\* sent: the dates that the night and the rest of the day are credited to
\* agree.  The time does so if no clock-in was caught.
FieldsOfTheDay ==
  \A k \in DOMAIN sygj :
    /\ sygj[k].userId \notin late => DayOf(clockIns[sygj[k].userId].slot) = sygj[k].date
    /\ sygj[k].sygj \notin late => DayOf(clockIns[sygj[k].sygj].slot) = sygj[k].date
    /\ late = {} => DayOf(sygj[k].time) = sygj[k].date

\* Nobody can become champion of a day that is over: GET_SHOWYEAR announces a
\* row that no SET_SHOWYEAR will change, unless the clock caught one of them
\* (the date minus two at night and minus one otherwise, handler.go:355-361,
\* against SygjQuery's minus one at night, handler.go:493-498).
AnnouncedIsFinal ==
  late = {} => \A i \in DOMAIN announced :
    LET a == announced[i]
    IN CASE a.row = Nobody -> RowsOf(a.date) = {}
         [] a.row = Blank  -> RowsOf(a.date) # {}
         [] OTHER          -> \E k \in RowsOf(a.date) : sygj[k] = a.row

=============================================================================
