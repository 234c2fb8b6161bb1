------------------------------- MODULE Framing ------------------------------
(***************************************************************************)
(* The datagrams of PostinTo: four digits and fields separated by '/'.     *)
(* handler.go takes requests apart at the first and the last '/', after    *)
(* CompressStr has removed white space; Backend::read_msg takes answers    *)
(* apart at every '/'.  A string is a sequence of characters; the four     *)
(* digits are four of them.                                                *)
(***************************************************************************)
EXTENDS Integers, Sequences

White == {" ", "\t", "\n", "\r", "\f"}

\* The answer for a slice bound that panics, and for one field too many in arr[3].
Panics == [error |-> "slice bounds out of range"]
Overflows == [error |-> "arr[3]"]

Slashes(s) == {i \in DOMAIN s : s[i] = "/"}

\* strings.Index and strings.LastIndex, from 0; -1 if there is none (external).
Index(s) == IF Slashes(s) = {} THEN -1 ELSE (CHOOSE i \in Slashes(s) : \A j \in Slashes(s) : i <= j) - 1
LastIndex(s) == IF Slashes(s) = {} THEN -1 ELSE (CHOOSE i \in Slashes(s) : \A j \in Slashes(s) : i >= j) - 1

\* s[a:b]
Slice(s, a, b) == SubSeq(s, a + 1, b)

CompressStr(s) ==
  LET left[i \in 0..Len(s)] ==
        IF i = 0 THEN <<>> ELSE IF s[i] \in White THEN left[i - 1] ELSE Append(left[i - 1], s[i])
  IN  left[Len(s)]

\* data[:first '/'], data[first+1:last '/'], data[last+1:] (handler.go:131-137).
Three(data) ==
  LET s == CompressStr(data)
      left == Index(s)
      right == LastIndex(s)
  IN  IF left = -1 \/ left = right THEN Panics
      ELSE [first |-> Slice(s, 0, left), middle |-> Slice(s, left + 1, right),
            last |-> Slice(s, right + 1, Len(s))]

\* The fields of GET_INTO_ROM, CREATE_ROOM, QUIT_THE_ROOM and SET_SHOWYEAR.
Two(data) ==
  LET s == CompressStr(data)
      pos == Index(s)
  IN  IF pos = -1 THEN Panics ELSE [first |-> Slice(s, 0, pos), last |-> Slice(s, pos + 1, Len(s))]

\* What MainPage and ChatPage send.
JoinRequest(room, id) == room \o <<"/">> \o id

\* Mutant: in the order of the other requests.
QuitRequestRoomFirst(id, room) == room \o <<"/">> \o id

QuitRequest(id, room) == id \o <<"/">> \o room
ChatRequest(room, id, text) == room \o <<"/">> \o id \o <<"/">> \o text
LoginRequest(id, name, psw) == id \o <<"/">> \o name \o <<"/">> \o psw

\* GET_MSG_CODE: what each of the others gets; `name' is what users holds for
\* the id.
ChatAnswer(data, name) ==
  LET t == Three(data) IN
  IF t = Panics THEN Panics
  ELSE [bytes |-> <<"1", "0", "0", "3">> \o t.middle \o <<"/">> \o t.last \o <<"/">> \o name
                    \o <<"/">> \o t.first]

\* QString::mid: to the end if n is negative (external).
Mid(s, pos, n) == SubSeq(s, pos + 1, IF n < 0 THEN Len(s) ELSE pos + n)

\* The place of the first '/' behind the i-th character; 0 if there is none.
NextSlash(s, i) ==
  LET behind == {j \in Slashes(s) : j > i}
  IN  IF behind = {} THEN 0 ELSE (CHOOSE j \in behind : \A k \in behind : j <= k) - 1

\* arr[3] gets the places of the '/' behind the code; the fields lie between.
ReadMsg(data) ==
  LET Place(i) == IF i = 0 THEN 0 ELSE NextSlash(data, i)
      arr1 == Place(4)
      arr2 == Place(IF arr1 = 0 THEN 0 ELSE arr1 + 1)
      arr3 == Place(IF arr2 = 0 THEN 0 ELSE arr2 + 1)
  IN  IF arr3 # 0 /\ NextSlash(data, arr3 + 1) # 0 THEN Overflows
      ELSE [id   |-> Mid(data, 4, arr1 - 4),
            msg  |-> Mid(data, arr1 + 1, arr2 - arr1 - 1),
            name |-> Mid(data, arr2 + 1, arr3 - arr2 - 1),
            room |-> Mid(data, arr3 + 1, -1)]

=============================================================================
