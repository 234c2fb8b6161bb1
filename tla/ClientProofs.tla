---------------------------- MODULE ClientProofs ----------------------------
(***************************************************************************)
(* Proofs about Client, for any rooms and any number of taps, datagrams    *)
(* and moves: the user is a member where his chat page is, and the list    *)
(* that was asked for once shows the rooms of one instant.                 *)
(*                                                                         *)
(* For the members the requests under way count as if they were handled,   *)
(* in whatever order (Due): the account is balanced with the page and with *)
(* what was lost or came too early, which is kept in adrift.  For the      *)
(* list, what it shows and what is under way make up the answer.           *)
(***************************************************************************)
EXTENDS Client, TLAPS, SequenceTheorems, FiniteSetTheorems, WellFoundedInduction

Codes == Rooms \cup {NoRoom}
Requests == [op : {"join", "create", "quit", "chat"}, room : Codes, user : {Me}] \cup {RoomInfo}
Answers == [op : {"room"}, room : Rooms] \cup {[op |-> "finish"]}
ChatPage == [page : {"chat"}, room : Codes, left : BOOLEAN]

\* The datagrams have the fields they have, and the pages nest.
Typed ==
  /\ \/ stack = <<Main>>
     \/ \E c \in ChatPage : stack = <<Main, c>> \/ stack = <<Main, c, Members>>
  /\ list \in Seq(Rooms) /\ Len(list) <= MaxList
  /\ up \in Seq(Requests) /\ down \in Seq(Answers)
  /\ {flash, quitting, closed, wedged, disturbed, stray, overlap} \subseteq BOOLEAN
  /\ adrift \in [Rooms -> Int]
  /\ members \in [Rooms -> Seq({Me, Other})] /\ answered \subseteq Rooms

\* How many of the first k - 1 elements of s are in S.
Before(s, S, k) == Cardinality({i \in DOMAIN s : i < k /\ s[i] \in S})

Ins(r) == [op : {"join", "create"}, room : {r}, user : {Me}]
Outs(r) == [op : {"quit"}, room : {r}, user : {Me}]

\* How often the user is in the room, and will be once the requests are handled.
Mine(r) == Before(members[r], {Me}, Len(members[r]) + 1)
Due(r) == Mine(r) + Before(up, Ins(r), Len(up) + 1) - Before(up, Outs(r), Len(up) + 1)

\* How many open chats of the room there are.
Open(r) == IF Len(stack) > 1 /\ stack[2].room = r /\ ~stack[2].left THEN 1 ELSE 0

Memberships == ~stray /\ ~wedged => \A r \in Rooms : Due(r) = Open(r) + adrift[r]

\* The list is empty and was asked for once.
Asked ==
  /\ list = <<>> /\ down = <<>>
  /\ \E k \in DOMAIN up : /\ up[k] = RoomInfo
                          /\ \A j \in DOMAIN up : j # k => ~Adds(up[j])

\* The rest of the answer is under way.
Answering ==
  /\ \A j \in DOMAIN up : ~Adds(up[j])
  /\ \A i \in DOMAIN down : down[i].op = "finish" <=> i = Len(down)
  /\ \A i, j \in DOMAIN list : list[i] = list[j] => i = j
  /\ \A i, j \in 1..(Len(down) - 1) : down[i].room = down[j].room => i = j
  /\ \A i \in DOMAIN list, j \in 1..(Len(down) - 1) : list[i] # down[j].room
  /\ answered = Range(list) \cup {down[j].room : j \in 1..(Len(down) - 1)}

Listing == ~disturbed /\ ~overlap /\ ~closed /\ ~wedged /\ stack = <<Main>> => Asked \/ Answering

-----------------------------------------------------------------------------
(* Sequences, and how many of their elements are in a set.                 *)

LEMMA Elements ==
  ASSUME NEW A, NEW s \in Seq(A)
  PROVE  /\ Len(s) \in Nat /\ DOMAIN s = 1..Len(s) /\ IsFiniteSet(DOMAIN s)
         /\ \A i \in DOMAIN s : s[i] \in A /\ i \in Nat
BY FS_Interval

LEMMA RemoveAtProperties ==
  ASSUME NEW A, NEW s \in Seq(A), NEW j \in 1..Len(s)
  PROVE  /\ RemoveAt(s, j) \in Seq(A) /\ Len(RemoveAt(s, j)) = Len(s) - 1
         /\ \A i \in 1..(Len(s) - 1) : RemoveAt(s, j)[i] = IF i < j THEN s[i] ELSE s[i + 1]
<1> DEFINE left == SubSeq(s, 1, j - 1)
           right == SubSeq(s, j + 1, Len(s))
<1>0. Len(s) \in Nat
  BY LenProperties
<1>1. left \in Seq(A) /\ Len(left) = j - 1 /\ \A i \in 1..(j - 1) : left[i] = s[i]
  BY <1>0, SubSeqProperties
<1>2. right \in Seq(A) /\ Len(right) = Len(s) - j /\ \A i \in 1..(Len(s) - j) : right[i] = s[i + j]
  BY <1>0, SubSeqProperties
<1> HIDE DEF left, right
<1>3. /\ left \o right \in Seq(A) /\ Len(left \o right) = Len(left) + Len(right)
      /\ \A i \in 1..(Len(left) + Len(right)) :
           (left \o right)[i] = IF i <= Len(left) THEN left[i] ELSE right[i - Len(left)]
  BY <1>1, <1>2, ConcatProperties
<1>4. Len(left) + Len(right) = Len(s) - 1
  BY <1>0, <1>1, <1>2
<1>5. ASSUME NEW i \in 1..(Len(s) - 1)
      PROVE  (left \o right)[i] = IF i < j THEN s[i] ELSE s[i + 1]
  <2>1. CASE i < j
    BY <1>0, <1>1, <1>3, <1>4, <2>1
  <2>2. CASE ~(i < j)
    <3>1. (left \o right)[i] = right[i - (j - 1)]
      BY <1>0, <1>1, <1>3, <1>4, <2>2
    <3>2. i - (j - 1) \in 1..(Len(s) - j) /\ (i - (j - 1)) + j = i + 1
      BY <1>0, <2>2
    <3> QED
      BY <1>2, <2>2, <3>1, <3>2
  <2> QED
    BY <2>1, <2>2
<1> QED
  BY <1>3, <1>4, <1>5 DEF RemoveAt, left, right

LEMMA BeforeType ==
  ASSUME NEW A, NEW s \in Seq(A), NEW S, NEW k
  PROVE  Before(s, S, k) \in Nat /\ IsFiniteSet({i \in DOMAIN s : i < k /\ s[i] \in S})
BY Elements, FS_Subset, FS_CardinalityType DEF Before

LEMMA BeforeFirst ==
  ASSUME NEW A, NEW s \in Seq(A), NEW S
  PROVE  Before(s, S, 1) = 0
<1>1. {i \in DOMAIN s : i < 1 /\ s[i] \in S} = {}
  BY Elements
<1> QED
  BY <1>1, FS_EmptySet DEF Before

LEMMA BeforeAppend ==
  ASSUME NEW A, NEW s \in Seq(A), NEW x \in A, NEW S
  PROVE  /\ \A k \in 1..(Len(s) + 1) : Before(Append(s, x), S, k) = Before(s, S, k)
         /\ Before(Append(s, x), S, Len(s) + 2) =
              Before(s, S, Len(s) + 1) + IF x \in S THEN 1 ELSE 0
<1> DEFINE t == Append(s, x)
           n == Len(s) + 1
           old == {i \in DOMAIN s : i < n /\ s[i] \in S}
<1>1. /\ Len(s) \in Nat /\ DOMAIN s = 1..Len(s) /\ DOMAIN t = 1..n /\ t[n] = x
      /\ \A i \in 1..Len(s) : t[i] = s[i]
  BY AppendProperties, Elements
<1> HIDE DEF t
<1>2. ASSUME NEW k \in 1..n PROVE Before(t, S, k) = Before(s, S, k)
  <2>1. {i \in DOMAIN t : i < k /\ t[i] \in S} = {i \in DOMAIN s : i < k /\ s[i] \in S}
    BY <1>1
  <2> QED
    BY <2>1 DEF Before
<1>3. /\ x \in S => {i \in DOMAIN t : i < n + 1 /\ t[i] \in S} = old \cup {n}
      /\ x \notin S => {i \in DOMAIN t : i < n + 1 /\ t[i] \in S} = old
  BY <1>1
<1>4. IsFiniteSet(old) /\ n \notin old /\ Cardinality(old) \in Nat
  <2>1. IsFiniteSet(old)
    BY BeforeType
  <2>2. n \notin old
    BY <1>1
  <2> QED
    BY <2>1, <2>2, FS_CardinalityType
<1>5. Cardinality(old \cup {n}) = Cardinality(old) + 1
  BY <1>4, FS_AddElement
<1>6. n + 1 = Len(s) + 2
  BY <1>1
<1>7. Before(t, S, n + 1) = Before(s, S, n) + IF x \in S THEN 1 ELSE 0
  <2>1. Before(t, S, n + 1) = Cardinality({i \in DOMAIN t : i < n + 1 /\ t[i] \in S})
    BY DEF Before
  <2>2. Before(s, S, n) = Cardinality(old)
    BY DEF Before
  <2>3. CASE x \in S
    BY <1>3, <1>5, <2>1, <2>2, <2>3
  <2>4. CASE x \notin S
    BY <1>3, <1>4, <2>1, <2>2, <2>4
  <2> QED
    BY <2>3, <2>4
<1> QED
  BY <1>2, <1>6, <1>7 DEF t

LEMMA BeforeRemove ==
  ASSUME NEW A, NEW s \in Seq(A), NEW S, NEW j \in 1..Len(s), NEW k \in (j + 1)..(Len(s) + 1)
  PROVE  Before(RemoveAt(s, j), S, k - 1) = Before(s, S, k) - IF s[j] \in S THEN 1 ELSE 0
<1> DEFINE t == RemoveAt(s, j)
           new == {i \in DOMAIN t : i < k - 1 /\ t[i] \in S}
           old == {i \in DOMAIN s : i < k /\ s[i] \in S}
           rest == old \ {j}
           shift == [i \in new |-> IF i < j THEN i ELSE i + 1]
<1>1. /\ Len(s) \in Nat /\ DOMAIN s = 1..Len(s) /\ DOMAIN t = 1..(Len(s) - 1) /\ t \in Seq(A)
      /\ \A i \in 1..(Len(s) - 1) : t[i] = IF i < j THEN s[i] ELSE s[i + 1]
  BY RemoveAtProperties, Elements
<1> HIDE DEF t
<1>2. IsFiniteSet(new) /\ IsFiniteSet(old) /\ new \subseteq Nat
  <2>1. IsFiniteSet(new)
    BY <1>1, BeforeType
  <2>2. IsFiniteSet(old)
    BY BeforeType
  <2> QED
    BY <1>1, <2>1, <2>2
<1>3. \A i \in new : (IF i < j THEN i ELSE i + 1) \in rest
  BY <1>1
<1>4. \A i \in rest : IF i < j THEN i \in new ELSE i - 1 \in new /\ (i - 1) + 1 = i /\ ~(i - 1 < j)
  BY <1>1
<1>5. j \in old <=> s[j] \in S
  BY <1>1
<1> HIDE DEF new, old
<1>6. shift \in Bijection(new, rest)
  <2>1. shift \in [new -> rest]
    BY <1>3
  <2>2. \A i, l \in new : shift[i] = shift[l] => i = l
    BY <1>2
  <2>3. \A i \in rest : \E l \in new : shift[l] = i
    BY <1>4
  <2> QED
    BY <2>1, <2>2, <2>3 DEF Bijection, Injection, Surjection, IsInjective
<1>7. Cardinality(rest) = Cardinality(new)
  BY <1>2, <1>6, FS_Bijection DEF ExistsBijection
<1>8. Cardinality(rest) = IF j \in old THEN Cardinality(old) - 1 ELSE Cardinality(old)
  BY <1>2, FS_RemoveElement
<1>9. Cardinality(old) \in Nat
  BY <1>2, FS_CardinalityType
<1> QED
  BY <1>5, <1>7, <1>8, <1>9 DEF Before, new, old, t

-----------------------------------------------------------------------------
(* The members.                                                            *)

LEMMA Constants ==
  /\ Me # Other /\ MaxUp \in Nat /\ MaxDown \in Nat /\ MaxList \in Nat /\ IsFiniteSet(Rooms)
  /\ RoomInfo \in Requests /\ RoomInfo.op = "rooms"
BY ClientAssumption DEF Requests, RoomInfo

LEMMA Kinds ==
  ASSUME NEW x \in Requests, NEW r \in Rooms
  PROVE  /\ x \in Ins(r) <=> x.op \in {"join", "create"} /\ x.room = r
         /\ x \in Outs(r) <=> x.op = "quit" /\ x.room = r
         /\ RoomInfo \notin Ins(r) \cup Outs(r)
         /\ x.op # "rooms" => x.room \in Codes /\ x.user = Me /\ x # RoomInfo
         /\ x.op = "rooms" => x = RoomInfo
BY DEF Requests, Ins, Outs, RoomInfo

LEMMA Changes ==
  ASSUME NEW x \in Requests, NEW r \in Rooms
  PROVE  /\ Change(x, r) = (IF x \in Ins(r) THEN 1 ELSE 0) - IF x \in Outs(r) THEN 1 ELSE 0
         /\ Change(x, r) \in Int /\ Change(RoomInfo, r) = 0
BY Kinds DEF Change, RoomInfo

\* Being in a room, and being there so often.
LEMMA MineMeans ==
  ASSUME Typed, NEW r \in Rooms
  PROVE  Mine(r) \in Nat /\ (Mine(r) <= 0 <=> Me \notin Range(members[r]))
<1> DEFINE s == members[r]
           own == {i \in DOMAIN s : i < Len(s) + 1 /\ s[i] \in {Me}}
<1>1. s \in Seq({Me, Other})
  BY DEF Typed
<1>2. DOMAIN s = 1..Len(s) /\ Len(s) \in Nat
  BY <1>1
<1> HIDE DEF s
<1>3. IsFiniteSet(own) /\ Mine(r) = Cardinality(own) /\ Mine(r) \in Nat
  BY <1>1, BeforeType DEF Mine, Before, s
<1>4. own = {} <=> Me \notin Range(s)
  BY <1>2 DEF Range
<1>5. Cardinality(own) = 0 <=> own = {}
  BY <1>3, FS_EmptySet
<1> HIDE DEF own
<1> QED
  BY <1>3, <1>4, <1>5 DEF s

LEMMA Joining ==
  ASSUME Typed, NEW r \in Rooms, NEW u \in {Me, Other}, members' = [members EXCEPT ![r] = Append(@, u)]
  PROVE  /\ members' \in [Rooms -> Seq({Me, Other})]
         /\ Mine(r)' = Mine(r) + IF u = Me THEN 1 ELSE 0
         /\ \A q \in Rooms \ {r} : Mine(q)' = Mine(q)
<1>1. members \in [Rooms -> Seq({Me, Other})] /\ members[r] \in Seq({Me, Other})
  BY DEF Typed
<1>2. members'[r] = Append(members[r], u) /\ \A q \in Rooms \ {r} : members'[q] = members[q]
  BY <1>1
<1>3. Len(members'[r]) + 1 = Len(members[r]) + 2
  BY <1>1, <1>2
<1>4. Mine(r)' = Mine(r) + IF u = Me THEN 1 ELSE 0
  <2>1. Before(Append(members[r], u), {Me}, Len(members[r]) + 2) =
          Before(members[r], {Me}, Len(members[r]) + 1) + IF u \in {Me} THEN 1 ELSE 0
    <3> DEFINE M == {Me, Other}
               mine == {Me}
    <3>1. members[r] \in Seq(M) /\ u \in M
      BY <1>1
    <3> HIDE DEF M, mine
    <3>2. Before(Append(members[r], u), mine, Len(members[r]) + 2) =
            Before(members[r], mine, Len(members[r]) + 1) + IF u \in mine THEN 1 ELSE 0
      BY <3>1, BeforeAppend
    <3> QED
      BY <3>2 DEF mine
  <2>2. Mine(r)' = Before(members'[r], {Me}, Len(members'[r]) + 1)
    BY DEF Mine
  <2> QED
    BY <1>2, <1>3, <2>1, <2>2 DEF Mine
<1>5. \A q \in Rooms \ {r} : Mine(q)' = Mine(q)
  BY <1>2 DEF Mine
<1> QED
  BY <1>1, <1>4, <1>5

\* QUIT removes the one of that id, if there is one.
LEMMA Leaving ==
  ASSUME Typed, NEW r \in Rooms, NEW u \in {Me, Other}, members' = RemoveMember(r, u)
  PROVE  /\ members' \in [Rooms -> Seq({Me, Other})]
         /\ u \in Range(members[r]) => Mine(r)' = Mine(r) - IF u = Me THEN 1 ELSE 0
         /\ (u = Me /\ u \notin Range(members[r])) => Mine(r)' = Mine(r)
         /\ \A q \in Rooms \ {r} : Mine(q)' = Mine(q)
<1> DEFINE own == {i \in DOMAIN members[r] : members[r][i] = u}
           first == CHOOSE i \in own : \A j \in own : i <= j
           index == IF own = {} THEN Len(members[r]) ELSE first
<1>1. members \in [Rooms -> Seq({Me, Other})] /\ members[r] \in Seq({Me, Other})
  BY DEF Typed
<1>2. DOMAIN members[r] = 1..Len(members[r]) /\ Len(members[r]) \in Nat
  BY <1>1
<1>3. own # {} <=> u \in Range(members[r])
  BY DEF Range
<1>4. own # {} => first \in own
  <2> SUFFICES ASSUME own # {} PROVE \E i \in own : \A j \in own : i <= j
    OBVIOUS
  <2>1. own \subseteq Nat
    BY <1>2
  <2>2. PICK i \in own : \A j \in own : <<j, i>> \notin OpToRel(<, Nat)
    BY <2>1, NatLessThanWellFounded, WFMin
  <2>3. \A j \in own : ~(j < i)
    BY <2>1, <2>2 DEF OpToRel
  <2> QED
    BY <2>1, <2>3
<1>5. CASE members[r] = <<>>
  <2>1. members' = members /\ u \notin Range(members[r])
    BY <1>5 DEF RemoveMember, Range
  <2> QED
    BY <1>1, <2>1 DEF Mine
<1>6. CASE members[r] # <<>>
  <2>1. members' = [members EXCEPT ![r] = RemoveAt(members[r], index)]
    BY <1>6 DEF RemoveMember
  <2>2. Len(members[r]) # 0
    BY <1>1, <1>6
  <2>3. index \in 1..Len(members[r]) /\ (own # {} => members[r][index] = u)
    BY <1>2, <1>4, <2>2
  <2> HIDE DEF index
  <2>4. /\ RemoveAt(members[r], index) \in Seq({Me, Other})
        /\ Len(RemoveAt(members[r], index)) = Len(members[r]) - 1
    BY <1>1, <2>3, RemoveAtProperties
  <2>5. members'[r] = RemoveAt(members[r], index) /\ \A q \in Rooms \ {r} : members'[q] = members[q]
    BY <1>1, <2>1
  <2>6. Len(members'[r]) + 1 = (Len(members[r]) + 1) - 1
    BY <1>2, <2>4, <2>5
  <2>7. Mine(r)' = Mine(r) - IF members[r][index] \in {Me} THEN 1 ELSE 0
    <3>1. Len(members[r]) + 1 \in (index + 1)..(Len(members[r]) + 1)
      BY <1>2, <2>3
    <3>2. Before(RemoveAt(members[r], index), {Me}, (Len(members[r]) + 1) - 1) =
            Before(members[r], {Me}, Len(members[r]) + 1) - IF members[r][index] \in {Me} THEN 1 ELSE 0
      <4> DEFINE M == {Me, Other}
                 mine == {Me}
      <4>1. members[r] \in Seq(M)
        BY <1>1
      <4> HIDE DEF M, mine
      <4>2. Before(RemoveAt(members[r], index), mine, (Len(members[r]) + 1) - 1) =
              Before(members[r], mine, Len(members[r]) + 1) - IF members[r][index] \in mine THEN 1 ELSE 0
        BY <2>3, <3>1, <4>1, BeforeRemove
      <4> QED
        BY <4>2 DEF mine
    <3>3. Mine(r)' = Before(members'[r], {Me}, Len(members'[r]) + 1)
      BY DEF Mine
    <3> QED
      BY <2>5, <2>6, <3>2, <3>3 DEF Mine
  <2>8. \A q \in Rooms \ {r} : Mine(q)' = Mine(q)
    BY <2>5 DEF Mine
  <2>9. members' \in [Rooms -> Seq({Me, Other})]
    BY <1>1, <2>1, <2>4
  <2>10. ASSUME u = Me, u \notin Range(members[r]) PROVE Mine(r)' = Mine(r)
    <3>1. members[r][index] # Me
      BY <1>2, <2>3, <2>10 DEF Range
    <3>2. Mine(r) \in Nat
      BY MineMeans
    <3> QED
      BY <2>7, <3>1, <3>2
  <2> QED
    BY <1>3, <2>3, <2>7, <2>8, <2>9, <2>10
<1> QED
  BY <1>5, <1>6

-----------------------------------------------------------------------------
(* Memberships.                                                            *)

LEMMA DueType ==
  ASSUME Typed, NEW r \in Rooms
  PROVE  /\ Due(r) \in Int /\ Mine(r) \in Nat /\ Open(r) \in {0, 1} /\ adrift[r] \in Int
         /\ \A k : Before(up, Ins(r), k) \in Nat /\ Before(up, Outs(r), k) \in Nat
<1>1. Mine(r) \in Nat /\ Open(r) \in {0, 1} /\ adrift[r] \in Int
  BY MineMeans DEF Open, Typed
<1>2. up \in Seq(Requests)
  BY DEF Typed
<1>3. \A k : Before(up, Ins(r), k) \in Nat /\ Before(up, Outs(r), k) \in Nat
  BY <1>2, BeforeType
<1> QED
  BY <1>1, <1>3 DEF Due

\* Nothing happens to the members and the requests.
LEMMA NobodyMoves ==
  ASSUME Memberships, UNCHANGED <<members, up, adrift, stray, wedged>>,
         \A r \in Rooms : Open(r)' = Open(r)
  PROVE  Memberships'
BY DEF Memberships, Due, Mine, Ins, Outs

\* The client sends a request, and may ask for the rooms as well.
LEMMA Posted ==
  ASSUME Typed, Memberships, UNCHANGED <<members, adrift, wedged>>, stray => stray', NEW x \in Requests,
         up' = Append(up, x) \/ up' = Append(Append(up, x), RoomInfo),
         \A r \in Rooms : stray' \/ Open(r)' = Open(r) + Change(x, r)
  PROVE  Memberships'
<1>1. up \in Seq(Requests) /\ Len(up) \in Nat
  BY DEF Typed
<1>2. PICK n : n = Len(up)
  OBVIOUS
<1>3. ASSUME NEW S, RoomInfo \notin S
      PROVE  Before(up', S, Len(up') + 1) = Before(up, S, n + 1) + IF x \in S THEN 1 ELSE 0
  <2> DEFINE t == Append(up, x)
  <2>1. Before(t, S, n + 2) = Before(up, S, n + 1) + IF x \in S THEN 1 ELSE 0
    BY <1>1, <1>2, BeforeAppend
  <2>2. t \in Seq(Requests) /\ Len(t) = n + 1
    BY <1>1, <1>2
  <2>3. CASE up' = t
    <3>1. Len(up') + 1 = n + 2
      BY <1>1, <1>2, <2>2, <2>3
    <3> QED
      BY <2>1, <2>3, <3>1
  <2>4. CASE up' = Append(t, RoomInfo)
    <3> HIDE DEF t
    <3>1. Before(up', S, Len(t) + 2) = Before(t, S, Len(t) + 1) + IF RoomInfo \in S THEN 1 ELSE 0
      BY <2>2, <2>4, Constants, BeforeAppend
    <3>2. Len(up') + 1 = Len(t) + 2 /\ Len(t) + 1 = n + 2
      BY <1>1, <1>2, <2>2, <2>4
    <3>3. Before(t, S, n + 2) \in Nat
      BY <2>2, BeforeType
    <3> QED
      BY <1>3, <2>1, <3>1, <3>2, <3>3
  <2> QED
    BY <2>3, <2>4
<1> SUFFICES ASSUME ~stray', ~wedged', NEW r \in Rooms PROVE Due(r)' = Open(r)' + adrift'[r]
  BY DEF Memberships
<1>4. Due(r) = Open(r) + adrift[r] /\ Open(r)' = Open(r) + Change(x, r)
  BY DEF Memberships
<1>5. Due(r)' = Due(r) + Change(x, r)
  <2>1. RoomInfo \notin Ins(r) /\ RoomInfo \notin Outs(r)
    BY Constants, Kinds
  <2>2. Before(up', Ins(r), Len(up') + 1) = Before(up, Ins(r), n + 1) + IF x \in Ins(r) THEN 1 ELSE 0
    BY <1>3, <2>1
  <2>3. Before(up', Outs(r), Len(up') + 1) = Before(up, Outs(r), n + 1) + IF x \in Outs(r) THEN 1 ELSE 0
    BY <1>3, <2>1
  <2>4. Mine(r) \in Nat /\ Before(up, Ins(r), n + 1) \in Nat /\ Before(up, Outs(r), n + 1) \in Nat
    BY DueType
  <2>5. Due(r)' = Mine(r) + Before(up', Ins(r), Len(up') + 1) - Before(up', Outs(r), Len(up') + 1)
    BY DEF Due, Mine, Ins, Outs
  <2>6. Due(r) = Mine(r) + Before(up, Ins(r), n + 1) - Before(up, Outs(r), n + 1)
    BY <1>2 DEF Due
  <2>7. Change(x, r) = (IF x \in Ins(r) THEN 1 ELSE 0) - IF x \in Outs(r) THEN 1 ELSE 0
    BY Changes
  <2> QED
    BY <2>2, <2>3, <2>4, <2>5, <2>6, <2>7
<1>6. Open(r) \in Int /\ adrift[r] \in Int /\ Change(x, r) \in Int /\ adrift'[r] = adrift[r]
  BY DueType, Changes
<1> QED
  BY <1>4, <1>5, <1>6

\* A request leaves the queue, at whatever place: it is handled, or lost.
LEMMA Handled ==
  ASSUME Typed, Memberships, NEW i \in DOMAIN up, up' = RemoveAt(up, i),
         stray => stray', wedged => wedged', stack' = stack, adrift' \in [Rooms -> Int],
         \A r \in Rooms : wedged' \/ (Mine(r)' - adrift'[r] = Mine(r) - adrift[r] + Change(up[i], r)
                                     /\ Mine(r)' \in Nat)
  PROVE  Memberships'
<1>1. up \in Seq(Requests) /\ Len(up) \in Nat /\ i \in 1..Len(up) /\ up[i] \in Requests
  BY DEF Typed
<1> SUFFICES ASSUME ~stray', ~wedged', NEW r \in Rooms PROVE Due(r)' = Open(r)' + adrift'[r]
  BY DEF Memberships
<1>2. Due(r) = Open(r) + adrift[r] /\ Mine(r)' - adrift'[r] = Mine(r) - adrift[r] + Change(up[i], r)
      /\ Mine(r)' \in Nat
  BY DEF Memberships
<1>3. Len(up') = Len(up) - 1
  BY <1>1, RemoveAtProperties
<1>4. Len(up) + 1 \in (i + 1)..(Len(up) + 1) /\ (Len(up) + 1) - 1 = Len(up') + 1
  BY <1>1, <1>3
<1>5. ASSUME NEW S
      PROVE  Before(up', S, Len(up') + 1) = Before(up, S, Len(up) + 1) - IF up[i] \in S THEN 1 ELSE 0
  <2>1. Before(RemoveAt(up, i), S, (Len(up) + 1) - 1) =
          Before(up, S, Len(up) + 1) - IF up[i] \in S THEN 1 ELSE 0
    BY <1>1, <1>4, BeforeRemove
  <2> QED
    BY <1>4, <2>1
<1>6. Change(up[i], r) = (IF up[i] \in Ins(r) THEN 1 ELSE 0) - IF up[i] \in Outs(r) THEN 1 ELSE 0
  BY <1>1, Changes
<1>7. /\ Due(r)' = Mine(r)' + Before(up', Ins(r), Len(up') + 1) - Before(up', Outs(r), Len(up') + 1)
      /\ Due(r) = Mine(r) + Before(up, Ins(r), Len(up) + 1) - Before(up, Outs(r), Len(up) + 1)
  BY DEF Due, Ins, Outs
<1>8. /\ Mine(r) \in Nat /\ adrift[r] \in Int /\ adrift'[r] \in Int /\ Open(r) \in Int
      /\ Before(up, Ins(r), Len(up) + 1) \in Nat /\ Before(up, Outs(r), Len(up) + 1) \in Nat
  BY DueType
<1>9. Open(r)' = Open(r)
  BY DEF Open
<1> DEFINE in == IF up[i] \in Ins(r) THEN 1 ELSE 0
           out == IF up[i] \in Outs(r) THEN 1 ELSE 0
<1>10. /\ Before(up', Ins(r), Len(up') + 1) = Before(up, Ins(r), Len(up) + 1) - in
       /\ Before(up', Outs(r), Len(up') + 1) = Before(up, Outs(r), Len(up) + 1) - out
  BY <1>5
<1>11. Change(up[i], r) = in - out /\ in \in Int /\ out \in Int
  BY <1>6
<1> HIDE DEF in, out
<1> QED
  <2>1. Due(r)' = Mine(r)' + (Before(up, Ins(r), Len(up) + 1) - in) - (Before(up, Outs(r), Len(up) + 1) - out)
    BY ONLY <1>7, <1>10
  <2>2. Due(r)' = Due(r) + Mine(r)' - Mine(r) - (in - out)
    BY ONLY <1>2, <1>7, <1>8, <1>11, <2>1
  <2>3. Mine(r)' - Mine(r) = adrift'[r] - adrift[r] + (in - out)
    <3>1. Mine(r)' - adrift'[r] = Mine(r) - adrift[r] + (in - out)
      BY ONLY <1>2, <1>11
    <3>2. /\ Mine(r)' \in Int /\ Mine(r) \in Int /\ adrift'[r] \in Int /\ adrift[r] \in Int
          /\ in \in Int /\ out \in Int
      BY ONLY <1>2, <1>8, <1>11
    <3> QED
      BY ONLY <3>1, <3>2
  <2>4. Due(r)' = Open(r) + adrift'[r]
    <3>1. Mine(r)' - Mine(r) \in Int /\ Due(r)' = Due(r) + (Mine(r)' - Mine(r)) - (in - out)
      BY ONLY <1>2, <1>8, <1>11, <2>2
    <3>2. Due(r) = Open(r) + adrift[r]
      BY ONLY <1>2
    <3> QED
      BY ONLY <1>8, <1>11, <2>3, <3>1, <3>2
  <2> QED
    BY <1>9, <2>4

-----------------------------------------------------------------------------
(* Types.                                                                  *)

\* What is on the stack.
LEMMA Pages ==
  ASSUME Typed
  PROVE  /\ Top = Main <=> stack = <<Main>>
         /\ Top.page = "main" <=> stack = <<Main>>
         /\ Top.page = "chat" => \E c \in ChatPage : stack = <<Main, c>> /\ Top = c
         /\ Top.page = "members" => \E c \in ChatPage : stack = <<Main, c, Members>>
<1>1. CASE stack = <<Main>>
  BY <1>1 DEF Top, Last, Main
<1>2. CASE \E c \in ChatPage : stack = <<Main, c>>
  BY <1>2 DEF Top, Last, Main, ChatPage
<1>3. CASE \E c \in ChatPage : stack = <<Main, c, Members>>
  BY <1>3 DEF Top, Last, Main, Members
<1> QED
  BY <1>1, <1>2, <1>3 DEF Typed

Page == ChatPage \cup {Main, Members}

LEMMA Stacks ==
  ASSUME NEW a \in Page, NEW b \in Page, NEW c \in Page
  PROVE  /\ Append(<<a>>, b) = <<a, b>> /\ Append(<<a, b>>, c) = <<a, b, c>>
         /\ Front(<<a, b, c>>) = <<a, b>> /\ Front(<<a, b>>) = <<a>>
         /\ \A d \in Page : d = [b EXCEPT !.left = TRUE] => [<<a, b>> EXCEPT ![2].left = TRUE] = <<a, d>>
<1> DEFINE one == <<a>>
           two == <<a, b>>
           three == <<a, b, c>>
<1>1. /\ one \in Seq(Page) /\ Len(one) = 1 /\ one[1] = a
      /\ two \in Seq(Page) /\ Len(two) = 2 /\ two[1] = a /\ two[2] = b
      /\ three \in Seq(Page) /\ Len(three) = 3 /\ three[1] = a /\ three[2] = b /\ three[3] = c
  OBVIOUS
<1>2. \A d \in Page : /\ <<a, d>> \in Seq(Page) /\ Len(<<a, d>>) = 2
                      /\ <<a, d>>[1] = a /\ <<a, d>>[2] = d
  OBVIOUS
<1> HIDE DEF one, two, three, Page
<1>3. Append(one, b) = two /\ Append(two, c) = three
  <2>1. /\ Append(one, b) \in Seq(Page) /\ Len(Append(one, b)) = 2
        /\ Append(one, b)[1] = a /\ Append(one, b)[2] = b
    <3>1. /\ Append(one, b) \in Seq(Page) /\ Len(Append(one, b)) = Len(one) + 1
          /\ \A i \in 1..Len(one) : Append(one, b)[i] = one[i]
          /\ Append(one, b)[Len(one) + 1] = b
      BY <1>1, AppendProperties
    <3> QED
      BY <1>1, <3>1
  <2>2. /\ Append(two, c) \in Seq(Page) /\ Len(Append(two, c)) = 3
        /\ Append(two, c)[1] = a /\ Append(two, c)[2] = b /\ Append(two, c)[3] = c
    <3>1. /\ Append(two, c) \in Seq(Page) /\ Len(Append(two, c)) = Len(two) + 1
          /\ \A i \in 1..Len(two) : Append(two, c)[i] = two[i]
          /\ Append(two, c)[Len(two) + 1] = c
      <4>1. two \in Seq(Page)
        BY <1>1
      <4> QED
        BY <4>1, AppendProperties
    <3> QED
      BY <1>1, <3>1
  <2>3. \A i \in 1..2 : Append(one, b)[i] = two[i]
    BY <1>1, <2>1
  <2>4. \A i \in 1..3 : Append(two, c)[i] = three[i]
    BY <1>1, <2>2
  <2> QED
    BY <1>1, <2>1, <2>2, <2>3, <2>4, SeqEqual
<1>4. Front(three) = two /\ Front(two) = one
  <2>1. /\ Front(three) \in Seq(Page) /\ Len(Front(three)) = 2
        /\ Front(three)[1] = a /\ Front(three)[2] = b
    BY <1>1 DEF Front
  <2>2. Front(two) \in Seq(Page) /\ Len(Front(two)) = 1 /\ Front(two)[1] = a
    BY <1>1 DEF Front
  <2>3. \A i \in 1..2 : Front(three)[i] = two[i]
    BY <1>1, <2>1
  <2>4. \A i \in 1..1 : Front(two)[i] = one[i]
    BY <1>1, <2>2
  <2> QED
    BY <1>1, <2>1, <2>2, <2>3, <2>4, SeqEqual
<1>5. ASSUME NEW d \in Page, d = [b EXCEPT !.left = TRUE]
      PROVE  [two EXCEPT ![2].left = TRUE] = <<a, d>>
  <2>1. [two EXCEPT ![2].left = TRUE] = [two EXCEPT ![2] = d]
    BY <1>1, <1>5
  <2>2. [two EXCEPT ![2] = d] \in Seq(Page) /\ Len([two EXCEPT ![2] = d]) = 2
        /\ [two EXCEPT ![2] = d][1] = a /\ [two EXCEPT ![2] = d][2] = d
    <3>1. 2 \in 1..Len(two) /\ two \in Seq(Page) /\ d \in Page
      BY <1>1
    <3>2. /\ [two EXCEPT ![2] = d] \in Seq(Page) /\ Len([two EXCEPT ![2] = d]) = Len(two)
          /\ \A j \in 1..Len(two) : [two EXCEPT ![2] = d][j] = IF j = 2 THEN d ELSE two[j]
      BY <3>1, ExceptSeq
    <3> QED
      BY <1>1, <3>2
  <2>3. \A i \in 1..2 : [two EXCEPT ![2] = d][i] = <<a, d>>[i]
    BY <1>2, <2>2
  <2> DEFINE new == <<a, d>>
  <2>4. new \in Seq(Page) /\ Len(new) = 2 /\ \A i \in 1..2 : [two EXCEPT ![2] = d][i] = new[i]
    BY <1>2, <2>3
  <2> HIDE DEF new
  <2>5. [two EXCEPT ![2] = d] = new
    BY <2>2, <2>4, SeqEqual
  <2> QED
    BY <2>1, <2>5 DEF new
<1> QED
  BY <1>3, <1>4, <1>5 DEF one, two, three

\* The same, for a chat page and its members.
LEMMA Nesting ==
  ASSUME NEW c \in ChatPage
  PROVE  /\ Append(<<Main>>, c) = <<Main, c>> /\ Append(<<Main, c>>, Members) = <<Main, c, Members>>
         /\ Front(<<Main, c, Members>>) = <<Main, c>> /\ Front(<<Main, c>>) = <<Main>>
         /\ [c EXCEPT !.left = TRUE] \in ChatPage
         /\ [<<Main, c>> EXCEPT ![2].left = TRUE] = <<Main, [c EXCEPT !.left = TRUE]>>
<1>1. [c EXCEPT !.left = TRUE] \in ChatPage
  BY DEF ChatPage
<1>2. Main \in Page /\ Members \in Page /\ ChatPage \subseteq Page
  BY DEF Page
<1> QED
  BY <1>1, <1>2, Stacks

LEMMA Opening ==
  ASSUME stack = <<Main>>, NEW r \in Codes
  PROVE  /\ Append(stack, Chat(r)) = <<Main, Chat(r)>> /\ Chat(r) \in ChatPage
         /\ Chat(r).room = r /\ Chat(r).left = FALSE
<1>1. Chat(r) \in ChatPage /\ Chat(r).room = r /\ Chat(r).left = FALSE
  BY DEF Chat, ChatPage
<1> QED
  BY <1>1, Nesting

LEMMA Requesting ==
  ASSUME NEW op \in {"join", "create", "quit", "chat"}, NEW r \in Codes
  PROVE  /\ Request(op, r) \in Requests /\ Request(op, r).op = op /\ Request(op, r).room = r
BY DEF Request, Requests

\* One or two requests are appended.
LEMMA Sending ==
  ASSUME Typed, NEW x \in Requests
  PROVE  /\ up \o <<x>> = Append(up, x) /\ Append(up, x) \in Seq(Requests)
         /\ up \o <<x, RoomInfo>> = Append(Append(up, x), RoomInfo)
         /\ Append(Append(up, x), RoomInfo) \in Seq(Requests)
         /\ up # Append(up, x) /\ Len(Append(up, x)) = Len(up) + 1
<1>1. up \in Seq(Requests) /\ RoomInfo \in Requests
  BY Constants DEF Typed
<1> QED
  BY <1>1

\* The steps of the user, and of the timers.
LEMMA ClientTypes ==
  ASSUME Typed, User \/ Timer \/ QuitTimer
  PROVE  Typed'
<1>0. RoomInfo \in Requests /\ list \in Seq(Rooms) /\ MaxList \in Nat
  BY Constants DEF Typed
<1>1. ASSUME UNCHANGED <<down, members, answered, wedged, adrift>>,
             {flash', quitting', closed', disturbed', stray', overlap'} \subseteq BOOLEAN,
             list' \in {list, <<>>}, up' \in Seq(Requests),
             \/ stack' = <<Main>>
             \/ \E c \in ChatPage : stack' = <<Main, c>> \/ stack' = <<Main, c, Members>>
      PROVE  Typed'
  <2>1. list' \in Seq(Rooms) /\ Len(list') <= MaxList
    <3>1. Len(<<>>) = 0 /\ <<>> \in Seq(Rooms) /\ 0 <= MaxList
      BY <1>0
    <3>2. Len(list) <= MaxList
      BY DEF Typed
    <3> QED
      BY <1>0, <1>1, <3>1, <3>2
  <2> QED
    BY <1>1, <2>1 DEF Typed, ChatPage, Codes, Requests, Answers, Main, Members, RoomInfo
<1>2. AnswerDue \in BOOLEAN
  BY DEF AnswerDue
<1>3. CASE Refresh
  BY <1>0, <1>1, <1>2, <1>3, Sending DEF Refresh, Tap, Send, Typed, server
<1>4. ASSUME NEW op \in {"join", "create"}, NEW r \in Codes, Tap("main"),
             stack' = Append(stack, Chat(r)), Send(<<Request(op, r)>>)
      PROVE  /\ up' \in Seq(Requests)
             /\ \E c \in ChatPage : stack' = <<Main, c>> \/ stack' = <<Main, c, Members>>
  <2>1. stack' = <<Main, Chat(r)>> /\ Chat(r) \in ChatPage
    BY <1>4, Pages, Opening DEF Tap
  <2>2. up' \in Seq(Requests)
    <3>1. Request(op, r) \in Requests
      BY Requesting
    <3>2. up' = up \o <<Request(op, r)>>
      BY <1>4 DEF Send
    <3> QED
      BY <3>1, <3>2, Sending
  <2> QED
    BY <2>1, <2>2
<1>5. CASE GetIntoRoom
  <2>1. PICK r \in Range(list) : stack' = Append(stack, Chat(r)) /\ Send(<<Request("join", r)>>)
    BY <1>5 DEF GetIntoRoom
  <2>2. r \in Codes
    BY <1>0 DEF Range, Codes
  <2>3. /\ up' \in Seq(Requests)
        /\ \E c \in ChatPage : stack' = <<Main, c>> \/ stack' = <<Main, c, Members>>
    BY <1>4, <1>5, <2>1, <2>2 DEF GetIntoRoom
  <2> QED
    BY <1>1, <1>5, <2>3 DEF GetIntoRoom, Tap, Typed, server
<1>6. CASE Go
  <2>1. PICK r \in Codes : stack' = Append(stack, Chat(r)) /\ Send(<<Request("create", r)>>)
    BY <1>6 DEF Go, Codes
  <2>2. /\ up' \in Seq(Requests)
        /\ \E c \in ChatPage : stack' = <<Main, c>> \/ stack' = <<Main, c, Members>>
    BY <1>4, <1>6, <2>1 DEF Go
  <2> QED
    BY <1>1, <1>6, <2>2 DEF Go, Tap, Typed, server
<1>7. CASE OpenMembers
  <2>1. PICK c \in ChatPage : stack = <<Main, c>>
    BY <1>7, Pages DEF OpenMembers, Tap
  <2>2. stack' = <<Main, c, Members>>
    BY <1>7, <2>1, Nesting DEF OpenMembers
  <2> QED
    BY <1>1, <1>7, <2>2 DEF OpenMembers, Tap, Typed, server
<1>8. CASE CloseMembers
  <2>1. PICK c \in ChatPage : stack = <<Main, c, Members>>
    BY <1>8, Pages DEF CloseMembers, Tap
  <2>2. stack' = <<Main, c>>
    BY <1>8, <2>1, Nesting DEF CloseMembers
  <2> QED
    BY <1>1, <1>8, <2>2 DEF CloseMembers, Tap, Typed, server
<1>9. CASE Say
  <2>1. PICK c \in ChatPage : stack = <<Main, c>> /\ Top = c
    BY <1>9, Pages DEF Say, Tap
  <2>2. Top.room \in Codes
    BY <2>1 DEF ChatPage
  <2>3. up' \in Seq(Requests)
    <3>1. Request("chat", Top.room) \in Requests
      BY <2>2, Requesting
    <3>2. up' = up \o <<Request("chat", Top.room)>>
      BY <1>9 DEF Say, Send
    <3> QED
      BY <3>1, <3>2, Sending
  <2> QED
    BY <1>1, <1>9, <2>1, <2>3 DEF Say, Tap, Typed, server
<1>10. CASE LeaveRoom
  <2>1. PICK c \in ChatPage : stack = <<Main, c>> /\ Top = c
    BY <1>10, Pages DEF LeaveRoom, Tap
  <2>2. stack' = <<Main>>
    BY <1>10, <2>1, Nesting DEF LeaveRoom
  <2>3. Top.room \in Codes
    BY <2>1 DEF ChatPage
  <2>4. up' \in Seq(Requests)
    <3>1. Request("quit", Top.room) \in Requests
      BY <2>3, Requesting
    <3>2. up' = up \o <<Request("quit", Top.room), RoomInfo>>
      BY <1>10 DEF LeaveRoom, Send
    <3> QED
      BY <3>1, <3>2, Sending
  <2> QED
    BY <1>1, <1>2, <1>10, <2>2, <2>4 DEF LeaveRoom, Tap, Typed, server
<1>11. CASE BackFromMembers
  <2>1. PICK c \in ChatPage : stack = <<Main, c, Members>>
    BY <1>11, Pages DEF BackFromMembers, Tap
  <2>2. stack' = <<Main, [c EXCEPT !.left = TRUE]>> /\ [c EXCEPT !.left = TRUE] \in ChatPage
    BY <1>11, <2>1, Nesting DEF BackFromMembers
  <2>3. stack[2].room \in Codes
    BY <2>1 DEF ChatPage
  <2>4. up' \in Seq(Requests)
    <3>1. Request("quit", stack[2].room) \in Requests
      BY <2>3, Requesting
    <3>2. up' = up \o <<Request("quit", stack[2].room)>>
      BY <1>11 DEF BackFromMembers, Send
    <3> QED
      BY <3>1, <3>2, Sending
  <2> QED
    BY <1>1, <1>11, <2>2, <2>4 DEF BackFromMembers, Tap, Typed, server
<1>12. CASE BackFromMain
  BY <1>1, <1>12 DEF BackFromMain, Typed, server
<1>13. CASE Timer
  BY <1>0, <1>1, <1>13, Sending DEF Timer, client, Send, Typed, server
<1>14. CASE QuitTimer
  BY <1>1, <1>14 DEF QuitTimer, Typed, server
<1> QED
  BY <1>3, <1>5, <1>6, <1>7, <1>8, <1>9, <1>10, <1>11, <1>12, <1>13, <1>14 DEF User

\* The steps at the other end, and of the network.
LEMMA OtherTypes ==
  ASSUME Typed, UNCHANGED stack,
         {flash', quitting', closed', wedged', disturbed', stray', overlap'} \subseteq BOOLEAN,
         adrift' \in [Rooms -> Int],
         list' \in Seq(Rooms), Len(list') <= MaxList, up' \in Seq(Requests), down' \in Seq(Answers),
         members' \in [Rooms -> Seq({Me, Other})], answered' \subseteq Rooms
  PROVE  Typed'
BY DEF Typed, ChatPage, Codes, Requests, Answers, Main, Members, RoomInfo

-----------------------------------------------------------------------------
(* The steps, and the members.                                             *)

LEMMA OpenMeans ==
  ASSUME NEW r \in Rooms
  PROVE  /\ stack = <<Main>> => Open(r) = 0
         /\ stack' = <<Main>> => Open(r)' = 0
         /\ \A c \in ChatPage :
              /\ stack \in {<<Main, c>>, <<Main, c, Members>>} =>
                   Open(r) = IF c.room = r /\ ~c.left THEN 1 ELSE 0
              /\ stack' \in {<<Main, c>>, <<Main, c, Members>>} =>
                   Open(r)' = IF c.room = r /\ ~c.left THEN 1 ELSE 0
<1>1. /\ stack = <<Main>> => Open(r) = 0
      /\ stack' = <<Main>> => Open(r)' = 0
  BY DEF Open
<1>2. ASSUME NEW c \in ChatPage
      PROVE  /\ stack \in {<<Main, c>>, <<Main, c, Members>>} =>
                  Open(r) = IF c.room = r /\ ~c.left THEN 1 ELSE 0
             /\ stack' \in {<<Main, c>>, <<Main, c, Members>>} =>
                  Open(r)' = IF c.room = r /\ ~c.left THEN 1 ELSE 0
  BY DEF Open
<1> QED
  BY <1>1, <1>2

LEMMA ClientMembers ==
  ASSUME Typed, Memberships, User \/ Timer \/ QuitTimer
  PROVE  Memberships'
<1>0. RoomInfo \in Requests /\ list \in Seq(Rooms)
  BY Constants DEF Typed
<1>1. ASSUME UNCHANGED <<members, adrift, wedged, stray, stack>>, NEW x \in Requests, up' = Append(up, x),
             \A r \in Rooms : Change(x, r) = 0
      PROVE  Memberships'
  <2>1. \A r \in Rooms : Open(r)' = Open(r) + Change(x, r)
    BY <1>1 DEF Open
  <2> QED
    BY <1>1, <2>1, Posted
<1>2. CASE Refresh
  BY <1>0, <1>1, <1>2, Sending, Changes DEF Refresh, Tap, Send, server
<1>3. CASE Timer
  BY <1>0, <1>1, <1>3, Sending, Changes DEF Timer, client, Send, server
<1>4. CASE Say
  <2>1. PICK c \in ChatPage : stack = <<Main, c>> /\ Top = c
    BY <1>4, Pages DEF Say, Tap
  <2>2. Top.room \in Codes
    BY <2>1 DEF ChatPage
  <2>3. Request("chat", Top.room) \in Requests /\ \A r \in Rooms : Change(Request("chat", Top.room), r) = 0
    BY <2>2, Requesting DEF Change
  <2> QED
    BY <1>1, <1>4, <2>3, Sending DEF Say, Tap, Send, server
<1>5. ASSUME NEW op \in {"join", "create"}, NEW q \in Codes, Tap("main"), stack' = Append(stack, Chat(q)),
             Send(<<Request(op, q)>>), UNCHANGED stray
      PROVE  Memberships'
  <2> DEFINE x == Request(op, q)
  <2>1. x \in Requests /\ x.op = op /\ x.room = q
    BY Requesting
  <2>2. up' = Append(up, x) /\ UNCHANGED <<members, adrift, wedged>>
    BY <1>5, <2>1, Sending DEF Send, Tap, server
  <2> HIDE DEF x
  <2>3. stack = <<Main>> /\ stack' = <<Main, Chat(q)>>
    BY <1>5, Pages, Opening DEF Tap
  <2>4. ASSUME NEW r \in Rooms PROVE Open(r)' = Open(r) + Change(x, r)
    <3>1. Chat(q) \in ChatPage /\ Chat(q).room = q /\ Chat(q).left = FALSE
      BY <2>3, Opening
    <3>2. Open(r) = 0 /\ Open(r)' = IF q = r THEN 1 ELSE 0
      BY <2>3, <3>1, OpenMeans
    <3> QED
      BY <2>1, <3>2 DEF Change
  <2> QED
    BY <1>5, <2>1, <2>2, <2>4, Posted
<1>6. CASE GetIntoRoom
  <2>1. PICK r \in Range(list) : stack' = Append(stack, Chat(r)) /\ Send(<<Request("join", r)>>)
    BY <1>6 DEF GetIntoRoom
  <2>2. r \in Codes
    BY <1>0 DEF Range, Codes
  <2> QED
    BY <1>5, <1>6, <2>1, <2>2 DEF GetIntoRoom
<1>7. CASE Go
  <2>1. PICK r \in Codes : stack' = Append(stack, Chat(r)) /\ Send(<<Request("create", r)>>)
    BY <1>7 DEF Go, Codes
  <2> QED
    BY <1>5, <1>7, <2>1 DEF Go
<1>8. ASSUME NEW c \in ChatPage,
             {stack, stack'} \subseteq {<<Main, c>>, <<Main, c, Members>>},
             UNCHANGED <<members, adrift, wedged, stray, up>>
      PROVE  Memberships'
  <2>1. \A r \in Rooms : Open(r)' = Open(r)
    BY <1>8, OpenMeans
  <2> QED
    BY <1>8, <2>1, NobodyMoves
<1>9. CASE OpenMembers
  <2>1. PICK c \in ChatPage : stack = <<Main, c>>
    BY <1>9, Pages DEF OpenMembers, Tap
  <2>2. stack' = <<Main, c, Members>>
    BY <1>9, <2>1, Nesting DEF OpenMembers
  <2> QED
    BY <1>8, <1>9, <2>1, <2>2 DEF OpenMembers, Tap, server
<1>10. CASE CloseMembers
  <2>1. PICK c \in ChatPage : stack = <<Main, c, Members>>
    BY <1>10, Pages DEF CloseMembers, Tap
  <2>2. stack' = <<Main, c>>
    BY <1>10, <2>1, Nesting DEF CloseMembers
  <2> QED
    BY <1>8, <1>10, <2>1, <2>2 DEF CloseMembers, Tap, server
<1>11. ASSUME NEW c \in ChatPage, stack \in {<<Main, c>>, <<Main, c, Members>>},
              stack' \in {<<Main>>, <<Main, [c EXCEPT !.left = TRUE]>>},
              up' \in {up \o <<Request("quit", c.room)>>, up \o <<Request("quit", c.room), RoomInfo>>},
              stray' = (stray \/ c.left), UNCHANGED <<members, adrift, wedged>>
       PROVE  Memberships'
  <2> DEFINE x == Request("quit", c.room)
             d == [c EXCEPT !.left = TRUE]
  <2>1. c.room \in Codes /\ c.left \in BOOLEAN
    BY DEF ChatPage
  <2>2. x \in Requests /\ x.op = "quit" /\ x.room = c.room
    BY <2>1, Requesting
  <2>3. up' = Append(up, x) \/ up' = Append(Append(up, x), RoomInfo)
    BY <1>11, <2>2, Sending
  <2>4. d \in ChatPage /\ d.left
    BY Nesting DEF ChatPage
  <2> HIDE DEF x, d
  <2>5. ASSUME NEW r \in Rooms PROVE stray' \/ Open(r)' = Open(r) + Change(x, r)
    <3>1. Open(r)' = 0
      BY <1>11, <2>4, OpenMeans DEF d
    <3>2. Open(r) = IF c.room = r /\ ~c.left THEN 1 ELSE 0
      BY <1>11, OpenMeans
    <3>3. Change(x, r) = IF c.room = r THEN -1 ELSE 0
      BY <2>2 DEF Change
    <3>4. CASE c.left
      BY <1>11, <3>4
    <3>5. CASE ~c.left
      BY <3>1, <3>2, <3>3, <3>5
    <3> QED
      BY <3>4, <3>5
  <2>6. stray => stray'
    BY <1>11
  <2> QED
    BY <1>11, <2>2, <2>3, <2>5, <2>6, Posted
<1>12. CASE LeaveRoom
  <2>1. PICK c \in ChatPage : stack = <<Main, c>> /\ Top = c
    BY <1>12, Pages DEF LeaveRoom, Tap
  <2>2. stack' = <<Main>>
    BY <1>12, <2>1, Nesting DEF LeaveRoom
  <2> QED
    BY <1>11, <1>12, <2>1, <2>2 DEF LeaveRoom, Tap, Send, server
<1>13. CASE BackFromMembers
  <2>1. PICK c \in ChatPage : stack = <<Main, c, Members>>
    BY <1>13, Pages DEF BackFromMembers, Tap
  <2>2. stack' = <<Main, [c EXCEPT !.left = TRUE]>>
    BY <1>13, <2>1, Nesting DEF BackFromMembers
  <2>3. stack[2] = c
    BY <2>1
  <2> QED
    BY <1>11, <1>13, <2>1, <2>2, <2>3 DEF BackFromMembers, Tap, Send, server
<1>14. CASE BackFromMain \/ QuitTimer
  BY <1>14, NobodyMoves DEF BackFromMain, QuitTimer, Open, server
<1> QED
  BY <1>2, <1>3, <1>4, <1>6, <1>7, <1>9, <1>10, <1>12, <1>13, <1>14 DEF User

\* The server.
LEMMA Taking ==
  ASSUME Typed, NEW i, NEW ops, Take(i, ops)
  PROVE  /\ i \in DOMAIN up /\ up[i] \in Requests /\ up[i].op \in ops
         /\ up' = RemoveAt(up, i) /\ up' \in Seq(Requests) /\ Len(up') = Len(up) - 1
         /\ \A j \in 1..(Len(up) - 1) : up'[j] = IF j < i THEN up[j] ELSE up[j + 1]
         /\ disturbed' = (disturbed \/ i # 1) /\ UNCHANGED <<client, stray>>
         /\ {flash', quitting', closed', disturbed', stray', overlap'} \subseteq BOOLEAN
         /\ list' \in Seq(Rooms) /\ Len(list') <= MaxList
<1>1. up \in Seq(Requests) /\ i \in DOMAIN up /\ up' = RemoveAt(up, i)
  BY DEF Typed, Take
<1>2. i \in 1..Len(up) /\ up[i] \in Requests
  BY <1>1
<1>3. /\ up' \in Seq(Requests) /\ Len(up') = Len(up) - 1
      /\ \A j \in 1..(Len(up) - 1) : up'[j] = IF j < i THEN up[j] ELSE up[j + 1]
  BY <1>1, <1>2, RemoveAtProperties
<1>4. (i # 1) \in BOOLEAN
  OBVIOUS
<1> QED
  BY <1>1, <1>2, <1>3, <1>4 DEF Typed, Take, client

LEMMA Putting ==
  ASSUME Typed, NEW answers \in Seq(Answers), Put(answers)
  PROVE  down' = down \o answers /\ down' \in Seq(Answers)
BY DEF Put, Typed

LEMMA ServerTypes ==
  ASSUME Typed, NEW i, ServeAt(i)
  PROVE  Typed'
<1>0. \A r \in Rooms : members[r] \in Seq({Me, Other})
  BY DEF Typed
<1>1. CASE Enter(i)
  <2>1. /\ up[i] \in Requests /\ up[i].op \in {"join", "create"} /\ i \in DOMAIN up
        /\ up[i].room # NoRoom
        /\ members' = [members EXCEPT ![up[i].room] = Append(@, up[i].user)]
        /\ UNCHANGED <<wedged, answered, adrift>>
    BY <1>1, Taking DEF Enter
  <2>2. up[i].room \in Rooms /\ up[i].user \in {Me, Other}
    BY <2>1 DEF Requests, RoomInfo, Codes
  <2>3. members' \in [Rooms -> Seq({Me, Other})]
    BY <2>1, <2>2, Joining
  <2>4. NewRoom(up[i].room) \in Answers
    BY <2>2 DEF NewRoom, Answers
  <2>5. (IF up[i].op = "create" THEN <<NewRoom(up[i].room)>> ELSE <<>>) \in Seq(Answers)
    BY <2>4
  <2>6. down' \in Seq(Answers)
    BY <1>1, <2>5, Putting DEF Enter
  <2> QED
    BY <1>1, <2>1, <2>3, <2>6, Taking, OtherTypes DEF Enter, client, Typed
<1>2. CASE Quit(i)
  <2>1. /\ up[i] \in Requests /\ up[i].op = "quit" /\ up[i].room # NoRoom
        /\ members' = RemoveMember(up[i].room, up[i].user) /\ UNCHANGED <<down, wedged, answered>>
        /\ adrift' \in {adrift, [adrift EXCEPT ![up[i].room] = @ + 1]}
    BY <1>2, Taking DEF Quit
  <2>2. up[i].room \in Rooms /\ up[i].user \in {Me, Other}
    BY <2>1 DEF Requests, RoomInfo, Codes
  <2>3. members' \in [Rooms -> Seq({Me, Other})]
    BY <2>1, <2>2, Leaving
  <2>4. adrift' \in [Rooms -> Int]
    BY <2>1, <2>2 DEF Typed
  <2> QED
    BY <1>2, <2>1, <2>3, <2>4, Taking, OtherTypes DEF Quit, client, Typed
<1>3. CASE RoomList(i)
  <2>1. PICK order \in SetToSeqs(Existing) :
          Put([k \in DOMAIN order |-> NewRoom(order[k])] \o <<[op |-> "finish"]>>)
    BY <1>3 DEF RoomList
  <2>2. order \in Seq(Rooms)
    <3>1. IsFiniteSet(Existing) /\ Existing \subseteq Rooms
      BY Constants, FS_Subset DEF Existing
    <3>2. Cardinality(Existing) \in Nat
      BY <3>1, FS_CardinalityType
    <3>3. order \in [1..Cardinality(Existing) -> Existing]
      BY DEF SetToSeqs
    <3> QED
      BY <3>1, <3>2, <3>3
  <2>3. \A k \in 1..Len(order) : NewRoom(order[k]) \in Answers
    BY <2>2 DEF NewRoom, Answers
  <2>4. [k \in DOMAIN order |-> NewRoom(order[k])] \in Seq(Answers)
    <3>1. DOMAIN order = 1..Len(order) /\ Len(order) \in Nat
      BY <2>2
    <3> QED
      BY <2>3, <3>1, IsASeq
  <2>5. <<[op |-> "finish"]>> \in Seq(Answers)
    BY DEF Answers
  <2>6. down' \in Seq(Answers)
    BY <2>1, <2>4, <2>5, ConcatProperties, Putting
  <2>7. answered' \subseteq Rooms /\ UNCHANGED <<members, wedged, adrift>>
    BY <1>3 DEF RoomList, Existing
  <2> QED
    BY <1>3, <2>6, <2>7, Taking, OtherTypes DEF RoomList, client, Typed
<1>4. CASE Tell(i)
  <2>1. wedged' \in BOOLEAN /\ UNCHANGED <<down, members, answered, adrift>>
    BY <1>4 DEF Tell
  <2> QED
    BY <1>4, <2>1, Taking, OtherTypes DEF Tell, client, Typed
<1>5. CASE Ignore(i)
  <2>1. UNCHANGED <<down, members, wedged, answered, adrift>>
    BY <1>5 DEF Ignore, server
  <2> QED
    BY <1>5, <2>1, Taking, OtherTypes DEF Ignore, client, Typed
<1> QED
  BY <1>1, <1>2, <1>3, <1>4, <1>5 DEF ServeAt

LEMMA ServerMembers ==
  ASSUME Typed, Memberships, NEW i, ServeAt(i)
  PROVE  Memberships'
<1>1. ASSUME NEW ops, Take(i, ops), wedged => wedged', adrift' \in [Rooms -> Int],
             \A r \in Rooms :
               wedged' \/ (Mine(r)' - adrift'[r] = Mine(r) - adrift[r] + Change(up[i], r) /\ Mine(r)' \in Nat)
      PROVE  Memberships'
  <2>1. i \in DOMAIN up /\ up' = RemoveAt(up, i) /\ UNCHANGED <<client, stray>>
    BY <1>1, Taking
  <2> QED
    BY <1>1, <2>1, Handled DEF client
<1>2. adrift \in [Rooms -> Int] /\ \A r \in Rooms : Mine(r) \in Nat /\ adrift[r] \in Int
  BY DueType DEF Typed
\* The members stay.
<1>3. ASSUME NEW ops, Take(i, ops), wedged => wedged', UNCHANGED <<members, adrift>>,
             \A r \in Rooms : wedged' \/ Change(up[i], r) = 0
      PROVE  Memberships'
  <2>1. \A r \in Rooms : Mine(r)' = Mine(r)
    BY <1>3 DEF Mine
  <2> QED
    BY <1>1, <1>2, <1>3, <2>1
<1>4. CASE Enter(i)
  <2>1. /\ up[i] \in Requests /\ up[i].op \in {"join", "create"} /\ up[i].room # NoRoom
        /\ members' = [members EXCEPT ![up[i].room] = Append(@, up[i].user)]
        /\ UNCHANGED <<wedged, adrift>>
    BY <1>4, Taking DEF Enter
  <2>2. PICK q \in Rooms : up[i].room = q /\ up[i].user = Me
    BY <2>1 DEF Requests, RoomInfo, Codes
  <2>3. members' = [members EXCEPT ![q] = Append(@, Me)]
    BY <2>1, <2>2
  <2>4. Mine(q)' = Mine(q) + 1 /\ \A r \in Rooms \ {q} : Mine(r)' = Mine(r)
    BY <2>3, Joining
  <2>5. \A r \in Rooms : Change(up[i], r) = IF r = q THEN 1 ELSE 0
    BY <2>1, <2>2 DEF Change
  <2>6. \A r \in Rooms : Mine(r)' - adrift'[r] = Mine(r) - adrift[r] + Change(up[i], r) /\ Mine(r)' \in Nat
    BY <1>2, <2>1, <2>4, <2>5
  <2> QED
    BY <1>1, <1>2, <1>4, <2>1, <2>6 DEF Enter
<1>5. CASE Quit(i)
  <2>1. /\ up[i] \in Requests /\ up[i].op = "quit" /\ up[i].room # NoRoom /\ UNCHANGED wedged
        /\ members' = RemoveMember(up[i].room, up[i].user)
        /\ adrift' = IF up[i].user \in Range(members[up[i].room]) THEN adrift
                      ELSE [adrift EXCEPT ![up[i].room] = @ + 1]
    BY <1>5, Taking DEF Quit
  <2>2. PICK q \in Rooms : up[i].room = q /\ up[i].user = Me
    BY <2>1 DEF Requests, RoomInfo, Codes
  <2>3. /\ members' = RemoveMember(q, Me)
        /\ adrift' = IF Me \in Range(members[q]) THEN adrift ELSE [adrift EXCEPT ![q] = @ + 1]
    BY <2>1, <2>2
  <2>4. /\ Me \in Range(members[q]) => Mine(q)' = Mine(q) - 1
        /\ Me \notin Range(members[q]) => Mine(q)' = Mine(q)
        /\ \A r \in Rooms \ {q} : Mine(r)' = Mine(r)
    BY <2>3, Leaving
  <2>5. Mine(q) <= 0 <=> Me \notin Range(members[q])
    BY MineMeans
  <2>6. \A r \in Rooms : Change(up[i], r) = IF r = q THEN -1 ELSE 0
    BY <2>1, <2>2 DEF Change
  <2>7. adrift' \in [Rooms -> Int] /\ \A r \in Rooms \ {q} : adrift'[r] = adrift[r]
    BY <1>2, <2>3
  <2>8. Mine(q)' - adrift'[q] = Mine(q) - adrift[q] - 1 /\ Mine(q)' \in Nat
    <3>1. CASE Me \in Range(members[q])
      BY <1>2, <2>3, <2>4, <2>5, <3>1
    <3>2. CASE Me \notin Range(members[q])
      <4>1. adrift'[q] = adrift[q] + 1 /\ Mine(q)' = Mine(q)
        BY <1>2, <2>3, <2>4, <3>2
      <4> QED
        BY <1>2, <4>1
    <3> QED
      BY <3>1, <3>2
  <2>9. \A r \in Rooms : Mine(r)' - adrift'[r] = Mine(r) - adrift[r] + Change(up[i], r) /\ Mine(r)' \in Nat
    BY <1>2, <2>4, <2>6, <2>7, <2>8
  <2> QED
    BY <1>1, <1>5, <2>1, <2>7, <2>9 DEF Quit
<1>6. CASE RoomList(i)
  <2>1. up[i] = RoomInfo /\ Take(i, {"rooms"}) /\ UNCHANGED <<members, wedged, adrift>>
    BY <1>6, Taking DEF RoomList, Requests, RoomInfo
  <2>2. \A r \in Rooms : Change(up[i], r) = 0
    BY <2>1 DEF Change, RoomInfo
  <2> QED
    BY <1>3, <2>1, <2>2
<1>7. CASE Tell(i)
  <2>1. Take(i, {"chat"}) /\ up[i].op = "chat" /\ ~wedged /\ UNCHANGED <<members, adrift>>
    BY <1>7, Taking DEF Tell
  <2>2. \A r \in Rooms : Change(up[i], r) = 0
    BY <2>1 DEF Change
  <2> QED
    BY <1>3, <2>1, <2>2
<1>8. CASE Ignore(i)
  <2>1. /\ Take(i, {"join", "create", "quit", "rooms", "chat"}) /\ UNCHANGED <<members, wedged, adrift>>
        /\ wedged \/ up[i].room = NoRoom
    BY <1>8 DEF Ignore, server
  <2>2. \A r \in Rooms : wedged' \/ Change(up[i], r) = 0
    BY <2>1, ClientAssumption DEF Change
  <2> QED
    BY <1>3, <2>1, <2>2
<1> QED
  BY <1>4, <1>5, <1>6, <1>7, <1>8 DEF ServeAt

\* The answers, the other user and the network.
LEMMA Showing ==
  ASSUME Typed, NEW i, ReceiveAt(i)
  PROVE  /\ i \in 1..Len(down) /\ down[i] \in Answers
         /\ list' \in Seq(Rooms) /\ Len(list') <= MaxList /\ down' \in Seq(Answers)
         /\ Len(down') = Len(down) - 1
         /\ \A j \in 1..(Len(down) - 1) : down'[j] = IF j < i THEN down[j] ELSE down[j + 1]
         /\ flash' \in BOOLEAN /\ disturbed' \in BOOLEAN
<1>1. down \in Seq(Answers) /\ i \in 1..Len(down) /\ down' = RemoveAt(down, i)
  BY DEF Typed, ReceiveAt
<1>2. /\ down' \in Seq(Answers) /\ Len(down') = Len(down) - 1
      /\ \A j \in 1..(Len(down) - 1) : down'[j] = IF j < i THEN down[j] ELSE down[j + 1]
  BY <1>1, RemoveAtProperties
<1>3. down[i] \in Answers
  BY <1>1
<1>4. list' \in {list, Append(list, down[i].room)}
      /\ (list' # list => down[i].op = "room" /\ Len(list) < MaxList)
  BY DEF ReceiveAt, Show
<1>5. down[i].op = "room" => down[i].room \in Rooms
  BY <1>3 DEF Answers
<1>6. list' \in Seq(Rooms) /\ Len(list') <= MaxList
  <2>1. list \in Seq(Rooms) /\ Len(list) <= MaxList /\ Len(list) \in Nat /\ MaxList \in Nat
    BY Constants DEF Typed
  <2> QED
    BY <1>4, <1>5, <2>1
<1>7. flash' \in BOOLEAN /\ disturbed' \in BOOLEAN
  BY DEF ReceiveAt, Show, Typed
<1> QED
  BY <1>1, <1>2, <1>3, <1>6, <1>7

LEMMA OutsideTypes ==
  ASSUME Typed, (\E i : ReceiveAt(i)) \/ OtherMoves \/ Lose
  PROVE  Typed'
<1>1. ASSUME NEW i, ReceiveAt(i) PROVE Typed'
  <2>1. UNCHANGED <<stack, quitting, closed, up, members, wedged, answered, adrift, stray, overlap>>
    BY <1>1 DEF ReceiveAt, server
  <2> QED
    BY <1>1, <2>1, Showing, OtherTypes DEF Typed
<1>2. CASE OtherMoves
  <2>1. PICK r \in Rooms : \/ members' = [members EXCEPT ![r] = Append(@, Other)]
                           \/ members' = RemoveMember(r, Other)
                           \/ members' = members
    BY <1>2 DEF OtherMoves
  <2>2. members' \in [Rooms -> Seq({Me, Other})]
    BY <2>1, Joining, Leaving DEF Typed
  <2>3. wedged' \in BOOLEAN /\ stray' \in BOOLEAN
    BY <1>2 DEF OtherMoves, Typed
  <2> QED
    BY <1>2, <2>2, <2>3, OtherTypes DEF OtherMoves, client, Typed
<1>3. CASE Lose
  <2>1. ASSUME NEW i, LoseRequest(i) PROVE up' \in Seq(Requests) /\ UNCHANGED down
    <3>1. up \in Seq(Requests) /\ i \in 1..Len(up)
      BY <2>1 DEF Typed, LoseRequest
    <3> QED
      BY <2>1, <3>1, RemoveAtProperties DEF LoseRequest
  <2>2. ASSUME NEW i, LoseAnswer(i) PROVE down' \in Seq(Answers) /\ UNCHANGED up
    <3>1. down \in Seq(Answers) /\ i \in 1..Len(down)
      BY <2>2 DEF Typed, LoseAnswer
    <3> QED
      BY <2>2, <3>1, RemoveAtProperties DEF LoseAnswer
  <2>3. up' \in Seq(Requests) /\ down' \in Seq(Answers)
    BY <1>3, <2>1, <2>2 DEF Lose, Typed
  <2>4. adrift' \in [Rooms -> Int]
    <3>1. ASSUME NEW i, LoseRequest(i) PROVE adrift' \in [Rooms -> Int]
      <4>1. up[i] \in Requests
        BY <3>1 DEF Typed, LoseRequest
      <4>2. \A r \in Rooms : adrift[r] - Change(up[i], r) \in Int
        BY <4>1, Changes, DueType
      <4> QED
        BY <3>1, <4>2 DEF LoseRequest
    <3>2. ASSUME NEW i, LoseAnswer(i) PROVE adrift' \in [Rooms -> Int]
      BY <3>2 DEF LoseAnswer, Typed
    <3> QED
      BY <1>3, <3>1, <3>2 DEF Lose
  <2>5. UNCHANGED <<client, server, stray, overlap>> /\ disturbed' = TRUE
    BY <1>3 DEF Lose
  <2> QED
    BY <2>3, <2>4, <2>5, OtherTypes DEF client, server, Typed
<1> QED
  BY <1>1, <1>2, <1>3

LEMMA OutsideMembers ==
  ASSUME Typed, Memberships, (\E i : ReceiveAt(i)) \/ OtherMoves \/ Lose
  PROVE  Memberships'
<1>1. CASE \E i : ReceiveAt(i)
  BY <1>1, NobodyMoves DEF ReceiveAt, Open, server
<1>2. CASE OtherMoves
  <2> SUFFICES ASSUME ~stray', ~wedged', NEW q \in Rooms PROVE Due(q)' = Open(q)' + adrift'[q]
    BY DEF Memberships
  <2>1. PICK r \in Rooms :
          \/ members' = [members EXCEPT ![r] = Append(@, Other)] /\ UNCHANGED stray
          \/ Other \in Range(members[r]) /\ members' = RemoveMember(r, Other) /\ (stray => stray')
    BY <1>2 DEF OtherMoves
  <2>2. Mine(r)' = Mine(r) /\ \A p \in Rooms \ {r} : Mine(p)' = Mine(p)
    <3>1. Other # Me /\ Mine(r) \in Nat
      BY Constants, MineMeans
    <3> QED
      BY <2>1, <3>1, Joining, Leaving
  <2>3. Mine(q)' = Mine(q) /\ UNCHANGED <<up, stack, adrift>>
    BY <1>2, <2>2 DEF OtherMoves, client
  <2>4. ~stray /\ ~wedged
    BY <1>2, <2>1 DEF OtherMoves
  <2> QED
    BY <2>3, <2>4 DEF Memberships, Due, Open, Ins, Outs
<1>3. CASE Lose
  <2>1. UNCHANGED <<client, server, stray>>
    BY <1>3 DEF Lose
  <2>2. ASSUME NEW i, LoseAnswer(i) PROVE Memberships'
    BY <2>1, <2>2, NobodyMoves DEF LoseAnswer, client, server, Open
  <2>3. ASSUME NEW i, LoseRequest(i) PROVE Memberships'
    <3>1. i \in DOMAIN up /\ up' = RemoveAt(up, i) /\ adrift' = [r \in Rooms |-> adrift[r] - Change(up[i], r)]
      BY <2>3 DEF LoseRequest
    <3>2. up[i] \in Requests
      BY <3>1 DEF Typed
    <3>3. ASSUME NEW r \in Rooms
          PROVE  adrift'[r] \in Int /\ Mine(r)' - adrift'[r] = Mine(r) - adrift[r] + Change(up[i], r)
                 /\ Mine(r)' \in Nat
      <4>1. Mine(r)' = Mine(r) /\ adrift'[r] = adrift[r] - Change(up[i], r)
        BY <2>1, <3>1 DEF server, Mine
      <4>2. Mine(r) \in Nat /\ adrift[r] \in Int /\ Change(up[i], r) \in Int
        BY <3>2, Changes, DueType
      <4> QED
        BY <4>1, <4>2
    <3>4. adrift' \in [Rooms -> Int]
      BY <3>1, <3>3
    <3> QED
      BY <2>1, <3>1, <3>3, <3>4, Handled DEF client, server
  <2> QED
    BY <1>3, <2>2, <2>3 DEF Lose
<1> QED
  BY <1>1, <1>2, <1>3

-----------------------------------------------------------------------------
(* The theorems about the members.                                         *)

IInv == Typed /\ Memberships

LEMMA InitMembers == Init => IInv
<1> SUFFICES ASSUME Init PROVE IInv
  OBVIOUS
<1>1. up = <<RoomInfo>> /\ RoomInfo \in Requests /\ up \in Seq(Requests) /\ Len(up) = 1 /\ up[1] = RoomInfo
  BY Constants DEF Init
<1>2. Typed
  <2>1. /\ list = <<>> /\ down = <<>> /\ Len(list) <= MaxList
        /\ \A r \in Rooms : members[r] \in Seq({Me, Other})
    BY Constants DEF Init
  <2>2. members \in [Rooms -> Seq({Me, Other})]
    BY DEF Init
  <2>3. list \in Seq(Rooms) /\ down \in Seq(Answers)
    BY <2>1
  <2>4. /\ {flash, quitting, closed, wedged, disturbed, stray, overlap} \subseteq BOOLEAN
        /\ adrift \in [Rooms -> Int] /\ answered \subseteq Rooms
    <3>1. adrift = [r \in Rooms |-> 0] /\ answered = {}
      BY DEF Init
    <3>2. {flash, quitting, closed, wedged, disturbed, stray, overlap} \subseteq BOOLEAN
      BY DEF Init
    <3> QED
      BY <3>1, <3>2
  <2>5. stack = <<Main>>
    BY DEF Init
  <2> QED
    BY <1>1, <2>1, <2>2, <2>3, <2>4, <2>5 DEF Typed
<1>3. ASSUME NEW r \in Rooms PROVE Due(r) = Open(r) + adrift[r]
  <2>1. Open(r) = 0
    BY OpenMeans DEF Init
  <2>2. Mine(r) = 0
    <3>1. Range(members[r]) = {}
      BY <1>3 DEF Init, Range
    <3> QED
      BY <1>2, <3>1, MineMeans
  <2>3. ASSUME NEW S, RoomInfo \notin S PROVE Before(up, S, 2) = 0
    <3>1. {i \in DOMAIN up : i < 2 /\ up[i] \in S} = {}
      BY <1>1, <2>3
    <3> QED
      BY <3>1, FS_EmptySet DEF Before
  <2>4. Before(up, Ins(r), 2) = 0 /\ Before(up, Outs(r), 2) = 0
    BY <2>3, Constants, Kinds
  <2> QED
    BY <1>1, <1>3, <2>1, <2>2, <2>4 DEF Due, Init
<1> QED
  BY <1>2, <1>3 DEF IInv, Memberships

LEMMA NextMembers == IInv /\ [Next]_vars => IInv'
<1> SUFFICES ASSUME Typed, Memberships, [Next]_vars PROVE Typed' /\ Memberships'
  BY DEF IInv
<1>1. CASE User \/ Timer \/ QuitTimer
  BY <1>1, ClientTypes, ClientMembers
<1>2. CASE Serve
  BY <1>2, ServerTypes, ServerMembers DEF Serve
<1>3. CASE Receive \/ OtherMoves \/ Lose
  BY <1>3, OutsideTypes, OutsideMembers DEF Receive
<1>4. CASE UNCHANGED vars
  <2>1. Typed'
    BY <1>4, OtherTypes DEF vars, client, server, Typed
  <2>2. Memberships'
    BY <1>4, NobodyMoves DEF vars, client, server, Open
  <2> QED
    BY <2>1, <2>2
<1> QED
  BY <1>1, <1>2, <1>3, <1>4 DEF Next

\* Whatever is tapped, lost, overtaken and answered late, the user's memberships and
\* what is under way add up to the page that he sees and to what the lost requests,
\* and the QUITs that came too early, have left: until a page sends a second QUIT,
\* the QUIT of another takes a membership that is not his, or the server is stuck.
THEOREM ClientInvariance == Spec => []IInv
BY InitMembers, NextMembers, PTL DEF Spec

\* The pages nest, and every variable keeps its type.
THEOREM ClientTypesHold == Spec => []TypeOK
<1>1. IInv => TypeOK
  <2> SUFFICES ASSUME Typed PROVE TypeOK
    BY DEF IInv
  <2>1. Range(list) \subseteq Rooms
    BY DEF Typed, Range
  <2>2. /\ Len(stack) \in 1..3 /\ stack[1] = Main
        /\ Len(stack) >= 2 => stack[2].page = "chat"
        /\ Len(stack) = 3 => stack[3] = Members
    <3>1. CASE stack = <<Main>>
      BY <3>1
    <3>2. ASSUME NEW c \in ChatPage, stack \in {<<Main, c>>, <<Main, c, Members>>}
          PROVE  /\ Len(stack) \in 1..3 /\ stack[1] = Main
                 /\ Len(stack) >= 2 => stack[2].page = "chat"
                 /\ Len(stack) = 3 => stack[3] = Members
      BY <3>2 DEF ChatPage
    <3> QED
      BY <3>1, <3>2 DEF Typed
  <2> QED
    BY <2>1, <2>2 DEF TypeOK, Typed
<1> QED
  BY <1>1, ClientInvariance, PTL

\* When all is quiet the user is a member of the room of his chat page, once, and of
\* no other, but for what lost requests and early QUITs have left; a page opened with
\* an empty room code is in no room, nor is one that has sent its QUIT from under the
\* member list.  A second QUIT, one of another who is no member, and a server that is
\* stuck are exempt (LeaveRoom, BackFromMembers, CREATE_ROOM, QUIT_THE_ROOM).
THEOREM MemberOfTheOpenChat == Spec => []MemberWhereChatIsOpen
<1>1. IInv => MemberWhereChatIsOpen
  <2> SUFFICES ASSUME Typed, Memberships, Quiet, ~stray, ~wedged, NEW r \in Rooms
               PROVE  Cardinality({i \in DOMAIN members[r] : members[r][i] = Me})
                        = Cardinality({k \in DOMAIN stack : /\ stack[k].page = "chat" /\ stack[k].room = r
                                                            /\ ~stack[k].left})
                          + adrift[r]
    BY DEF IInv, MemberWhereChatIsOpen
  <2>1. up = <<>> /\ Len(up) = 0 /\ DOMAIN up = {} /\ up \in Seq(Requests)
    BY DEF Quiet, Typed
  <2>2. Mine(r) = Open(r) + adrift[r]
    <3>1. Due(r) = Open(r) + adrift[r]
      BY DEF Memberships
    <3>2. Before(up, Ins(r), 1) = 0 /\ Before(up, Outs(r), 1) = 0
      BY <2>1, BeforeFirst
    <3>3. Due(r) = Mine(r)
      BY <2>1, <3>2, MineMeans DEF Due
    <3> QED
      BY <3>1, <3>3
  <2>3. Mine(r) = Cardinality({i \in DOMAIN members[r] : members[r][i] = Me})
    <3>1. DOMAIN members[r] = 1..Len(members[r]) /\ Len(members[r]) \in Nat
      BY DEF Typed
    <3>2. {i \in DOMAIN members[r] : i < Len(members[r]) + 1 /\ members[r][i] \in {Me}}
            = {i \in DOMAIN members[r] : members[r][i] = Me}
      BY <3>1
    <3> QED
      BY <3>2 DEF Mine, Before
  <2> DEFINE chats == {k \in DOMAIN stack : stack[k].page = "chat" /\ stack[k].room = r /\ ~stack[k].left}
  <2>4. Open(r) = Cardinality(chats)
    <3>1. CASE stack = <<Main>>
      <4>1. chats = {}
        BY <3>1 DEF Main
      <4> QED
        BY <3>1, <4>1, OpenMeans, FS_EmptySet
    <3>2. ASSUME NEW c \in ChatPage, stack \in {<<Main, c>>, <<Main, c, Members>>}
          PROVE  Open(r) = Cardinality(chats)
      <4>1. chats = IF c.room = r /\ ~c.left THEN {2} ELSE {}
        BY <3>2 DEF Main, Members, ChatPage
      <4>2. Open(r) = IF c.room = r /\ ~c.left THEN 1 ELSE 0
        BY <3>2, OpenMeans
      <4> HIDE DEF chats
      <4> QED
        BY <4>1, <4>2, FS_EmptySet, FS_Singleton
    <3> QED
      BY <3>1, <3>2 DEF Typed
  <2> QED
    BY <2>2, <2>3, <2>4
<1> QED
  BY <1>1, ClientInvariance, PTL

-----------------------------------------------------------------------------
(* The list.                                                               *)

LEMMA Numbers ==
  ASSUME Typed
  PROVE  /\ Len(list) \in Nat /\ DOMAIN list = 1..Len(list) /\ \A i \in DOMAIN list : list[i] \in Rooms
         /\ Len(up) \in Nat /\ DOMAIN up = 1..Len(up) /\ \A i \in DOMAIN up : up[i] \in Requests
         /\ Len(down) \in Nat /\ DOMAIN down = 1..Len(down) /\ \A i \in DOMAIN down : down[i] \in Answers
         /\ Len(up) = 0 => up = <<>>
         /\ Len(down) = 0 => down = <<>>
BY DEF Typed

\* A list without repetitions has a row for each of its rooms.
LEMMA Rows ==
  ASSUME Typed, \A i, j \in DOMAIN list : list[i] = list[j] => i = j
  PROVE  /\ Cardinality(Range(list)) = Len(list)
         /\ \A x \in Rooms \ Range(list) : Len(list) < MaxList
<1>1. /\ Len(list) \in Nat /\ DOMAIN list = 1..Len(list) /\ Range(list) \subseteq Rooms
      /\ list \in [1..Len(list) -> Range(list)]
  BY Numbers DEF Range, Typed
<1>2. list \in Injection(1..Len(list), Range(list)) /\ list \in Surjection(1..Len(list), Range(list))
  BY <1>1 DEF Injection, IsInjective, Surjection, Range
<1>3. IsFiniteSet(1..Len(list)) /\ Cardinality(1..Len(list)) = Len(list)
  BY <1>1, FS_Interval
<1>4. IsFiniteSet(Range(list)) /\ Cardinality(Range(list)) = Len(list)
  BY <1>2, <1>3, FS_Surjection
<1>5. ASSUME NEW x \in Rooms \ Range(list) PROVE Len(list) < MaxList
  <2>1. /\ IsFiniteSet(Range(list) \cup {x})
        /\ Cardinality(Range(list) \cup {x}) = Len(list) + 1
    BY <1>4, FS_AddElement
  <2>2. Cardinality(Range(list) \cup {x}) <= Cardinality(Rooms) /\ Cardinality(Rooms) \in Nat
    BY <1>1, Constants, FS_Subset, FS_CardinalityType
  <2> QED
    BY <1>1, <2>1, <2>2, Constants, ListAssumption
<1> QED
  BY <1>4, <1>5

\* The list is cleared and asked for while no answer is due.
LEMMA Asking ==
  ASSUME Typed, ~AnswerDue, list' = <<>>, UNCHANGED down,
         \/ up' = Append(up, RoomInfo)
         \/ \E x \in Requests : x.op = "quit" /\ up' = Append(Append(up, x), RoomInfo)
  PROVE  Asked'
<1>1. down = <<>>
  <2>1. \A i \in DOMAIN down : FALSE
    BY Numbers DEF AnswerDue, Answers
  <2> QED
    BY <2>1, Numbers
<1>2. \A j \in DOMAIN up : ~Adds(up[j])
  BY DEF AnswerDue
<1>3. up \in Seq(Requests) /\ RoomInfo \in Requests /\ Len(up) \in Nat
  BY Constants DEF Typed
<1>4. CASE up' = Append(up, RoomInfo)
  <2>1. /\ DOMAIN up' = 1..(Len(up) + 1) /\ up'[Len(up) + 1] = RoomInfo
        /\ \A j \in 1..Len(up) : up'[j] = up[j]
    BY <1>3, <1>4
  <2>2. \A j \in DOMAIN up' : j # Len(up) + 1 => ~Adds(up'[j])
    BY <1>2, <1>3, <2>1
  <2> QED
    BY <1>1, <1>3, <2>1, <2>2 DEF Asked
<1>5. ASSUME NEW x \in Requests, x.op = "quit", up' = Append(Append(up, x), RoomInfo) PROVE Asked'
  <2>1. /\ DOMAIN up' = 1..(Len(up) + 2) /\ up'[Len(up) + 2] = RoomInfo /\ up'[Len(up) + 1] = x
        /\ \A j \in 1..Len(up) : up'[j] = up[j]
    BY <1>3, <1>5
  <2>2. \A j \in DOMAIN up' : j # Len(up) + 2 => ~Adds(up'[j])
    <3> SUFFICES ASSUME NEW j \in 1..(Len(up) + 2), j # Len(up) + 2 PROVE ~Adds(up'[j])
      BY <2>1
    <3>1. CASE j = Len(up) + 1
      BY <1>5, <2>1, <3>1 DEF Adds
    <3>2. CASE j \in 1..Len(up)
      BY <1>2, <1>3, <2>1, <3>2
    <3> QED
      BY <1>3, <3>1, <3>2
  <2> QED
    BY <1>1, <1>3, <2>1, <2>2 DEF Asked
<1> QED
  BY <1>4, <1>5

\* Nothing happens to the list and its answer.
LEMMA SameList ==
  ASSUME Asked \/ Answering, UNCHANGED <<list, down, up, answered>>
  PROVE  (Asked \/ Answering)'
BY DEF Asked, Answering, Range

\* A request that adds nothing to the list is handled.
LEMMA OtherRequest ==
  ASSUME Typed, Asked \/ Answering, UNCHANGED <<list, down, answered>>,
         NEW i, NEW ops, Take(i, ops), ~Adds(up[i])
  PROVE  (Asked \/ Answering)'
<1>1. /\ i \in 1..Len(up) /\ Len(up) \in Nat /\ up \in Seq(Requests) /\ DOMAIN up = 1..Len(up)
      /\ DOMAIN up' = 1..(Len(up) - 1)
      /\ \A j \in 1..(Len(up) - 1) : up'[j] = IF j < i THEN up[j] ELSE up[j + 1]
  <2>1. /\ i \in DOMAIN up /\ up' \in Seq(Requests) /\ Len(up') = Len(up) - 1
        /\ \A j \in 1..(Len(up) - 1) : up'[j] = IF j < i THEN up[j] ELSE up[j + 1]
    BY Taking
  <2>2. Len(up) \in Nat /\ DOMAIN up = 1..Len(up) /\ up \in Seq(Requests)
    BY Numbers DEF Typed
  <2>3. DOMAIN up' = 1..Len(up')
    BY <2>1
  <2> QED
    BY <2>1, <2>2, <2>3
<1>2. CASE Answering
  <2>1. \A j \in DOMAIN up' : ~Adds(up'[j])
    BY <1>1, <1>2 DEF Answering
  <2> QED
    BY <1>2, <2>1 DEF Answering, Range
<1>3. CASE Asked
  <2>1. PICK k \in DOMAIN up : /\ up[k] = RoomInfo
                               /\ \A j \in DOMAIN up : j # k => ~Adds(up[j])
    BY <1>3 DEF Asked
  <2>2. k # i
    BY <2>1 DEF RoomInfo, Adds
  <2> DEFINE n == IF k < i THEN k ELSE k - 1
  <2>3. n \in 1..(Len(up) - 1) /\ up'[n] = RoomInfo
    BY <1>1, <2>1, <2>2
  <2>4. ASSUME NEW j \in 1..(Len(up) - 1), j # n PROVE ~Adds(up'[j])
    <3>1. PICK m \in 1..Len(up) : m # k /\ up'[j] = up[m]
      BY <1>1, <2>1, <2>2, <2>4
    <3> QED
      BY <1>1, <2>1, <3>1
  <2> HIDE DEF n
  <2> QED
    BY <1>1, <1>3, <2>3, <2>4 DEF Asked
<1> QED
  BY <1>2, <1>3

\* The rooms are listed: each of them once.
LEMMA Answered ==
  ASSUME Typed, Asked \/ Answering, NEW i, RoomList(i)
  PROVE  Answering'
<1>1. /\ i \in 1..Len(up) /\ up[i].op = "rooms" /\ Len(up) \in Nat /\ UNCHANGED list
      /\ up' \in Seq(Requests) /\ Len(up') = Len(up) - 1
      /\ \A j \in 1..(Len(up) - 1) : up'[j] = IF j < i THEN up[j] ELSE up[j + 1]
  <2>1. Take(i, {"rooms"})
    BY DEF RoomList
  <2>2. i \in DOMAIN up /\ up[i].op = "rooms" /\ UNCHANGED list
    BY <2>1, Taking DEF client
  <2>3. /\ up' \in Seq(Requests) /\ Len(up') = Len(up) - 1
        /\ \A j \in 1..(Len(up) - 1) : up'[j] = IF j < i THEN up[j] ELSE up[j + 1]
    BY <2>1, Taking
  <2>4. DOMAIN up = 1..Len(up) /\ Len(up) \in Nat
    BY Numbers
  <2> QED
    BY <2>2, <2>3, <2>4
<1>2. Asked
  BY <1>1, Numbers DEF Answering, Adds
<1>3. PICK k \in DOMAIN up : /\ up[k] = RoomInfo
                             /\ \A j \in DOMAIN up : j # k => ~Adds(up[j])
  BY <1>2 DEF Asked
<1>4. k = i
  BY <1>1, <1>3, Numbers DEF Adds
<1>5. \A j \in DOMAIN up' : ~Adds(up'[j])
  <2>1. DOMAIN up' = 1..(Len(up) - 1) /\ DOMAIN up = 1..Len(up)
    BY <1>1, Numbers
  <2> QED
    BY <1>1, <1>3, <1>4, <2>1
<1>6. list = <<>> /\ down = <<>> /\ list' = <<>> /\ Range(list') = {} /\ DOMAIN list' = {}
  BY <1>1, <1>2 DEF Asked, Range
<1>7. PICK order \in SetToSeqs(Existing) :
        Put([k_1 \in DOMAIN order |-> NewRoom(order[k_1])] \o <<[op |-> "finish"]>>)
  BY DEF RoomList
<1>8. IsFiniteSet(Existing) /\ Cardinality(Existing) \in Nat
  BY Constants, FS_Subset, FS_CardinalityType DEF Existing
<1>9. PICK n \in Nat : n = Cardinality(Existing)
  BY <1>8
<1>10. order \in [1..n -> Existing] /\ \A a, b \in 1..n : order[a] = order[b] => a = b
  BY <1>9 DEF SetToSeqs
<1>11. Range(order) = Existing
  <2>1. order \in Injection(1..n, Existing)
    BY <1>10 DEF Injection, IsInjective
  <2>2. IsFiniteSet(1..n) /\ Cardinality(1..n) = n
    BY FS_Interval
  <2>3. order \in Surjection(1..n, Existing)
    BY <1>8, <1>9, <2>1, <2>2, FS_Injection
  <2> QED
    BY <1>10, <2>3 DEF Surjection, Range
<1> DEFINE rows == [k_1 \in DOMAIN order |-> NewRoom(order[k_1])]
           end == <<[op |-> "finish"]>>
<1>12. /\ rows \in Seq(Answers) /\ Len(rows) = n
       /\ \A a \in 1..n : rows[a].room = order[a] /\ rows[a].op = "room"
  <2>1. DOMAIN order = 1..n /\ \A a \in 1..n : order[a] \in Rooms
    BY <1>10 DEF Existing
  <2>2. \A a \in 1..n : NewRoom(order[a]) \in Answers
    BY <2>1 DEF NewRoom, Answers
  <2>3. rows \in [1..n -> Answers]
    BY <2>1, <2>2
  <2>4. rows \in Seq(Answers) /\ Len(rows) = n
    BY <2>3
  <2> QED
    BY <2>1, <2>4 DEF NewRoom
<1>13. end \in Seq(Answers) /\ Len(end) = 1 /\ end[1].op = "finish"
  BY DEF Answers
<1>14. down' = rows \o end
  <2>1. down' = down \o (rows \o end)
    BY <1>7 DEF Put
  <2> HIDE DEF rows, end
  <2>2. rows \o end \in Seq(Answers)
    BY <1>12, <1>13
  <2> QED
    BY <1>6, <2>1, <2>2
<1> HIDE DEF rows, end
<1>15. /\ Len(down') = n + 1 /\ DOMAIN down' = 1..(n + 1) /\ down'[n + 1].op = "finish"
       /\ \A a \in 1..n : down'[a].room = order[a] /\ down'[a].op = "room"
  <2>1. /\ Len(rows \o end) = n + 1 /\ DOMAIN (rows \o end) = 1..(n + 1)
        /\ (rows \o end)[n + 1] = end[1]
        /\ \A a \in 1..n : (rows \o end)[a] = rows[a]
    <3>1. /\ rows \o end \in Seq(Answers) /\ Len(rows \o end) = Len(rows) + Len(end)
          /\ \A a \in 1..(Len(rows) + Len(end)) :
               (rows \o end)[a] = IF a <= Len(rows) THEN rows[a] ELSE end[a - Len(rows)]
      <4>1. rows \in Seq(Answers) /\ end \in Seq(Answers)
        BY <1>12, <1>13
      <4> QED
        BY <4>1, ConcatProperties
    <3>2. DOMAIN (rows \o end) = 1..Len(rows \o end)
      BY <3>1
    <3>3. Len(rows) = n /\ Len(end) = 1
      BY <1>12, <1>13
    <3>4. (rows \o end)[n + 1] = end[1]
      BY <3>1, <3>3
    <3> QED
      BY <3>1, <3>2, <3>3, <3>4
  <2> QED
    BY <1>12, <1>13, <1>14, <2>1
<1>16. answered' = {down'[j].room : j \in 1..(Len(down') - 1)}
  <2>1. answered' = Existing
    BY DEF RoomList
  <2>2. Existing = {order[a] : a \in 1..n}
    BY <1>10, <1>11 DEF Range
  <2>3. Len(down') - 1 = n
    BY <1>15
  <2> QED
    BY <1>15, <2>1, <2>2, <2>3
<1>17. \A a \in DOMAIN down' : down'[a].op = "finish" <=> a = Len(down')
  BY <1>15
<1>18. \A a, b \in 1..(Len(down') - 1) : down'[a].room = down'[b].room => a = b
  BY <1>10, <1>15
<1> QED
  BY <1>5, <1>6, <1>16, <1>17, <1>18 DEF Answering

\* The next answer is shown.
LEMMA Shown ==
  ASSUME Typed, Asked \/ Answering, ReceiveAt(1), ~closed
  PROVE  Answering'
<1>1. /\ 1 \in 1..Len(down) /\ down[1] \in Answers /\ Len(down') = Len(down) - 1 /\ down' \in Seq(Answers)
      /\ \A j \in 1..(Len(down) - 1) : down'[j] = IF j < 1 THEN down[j] ELSE down[j + 1]
      /\ Show(down[1]) /\ UNCHANGED <<up, answered>>
  BY Showing DEF ReceiveAt, server
<1>2. PICK n \in Nat : n = Len(down) - 1
  BY <1>1, Numbers
<1>3. /\ Len(down) = n + 1 /\ DOMAIN down = 1..(n + 1) /\ Len(down') = n /\ DOMAIN down' = 1..n
      /\ \A j \in 1..n : down'[j] = down[j + 1]
  <2>1. DOMAIN down' = 1..Len(down')
    BY <1>1
  <2>2. \A j \in 1..n : down'[j] = IF j < 1 THEN down[j] ELSE down[j + 1]
    BY <1>1, <1>2
  <2> QED
    BY <1>1, <1>2, <2>1, <2>2, Numbers
<1>4. Answering
  BY <1>1, Numbers DEF Asked
<1>5. \A j \in DOMAIN up' : ~Adds(up'[j])
  BY <1>1, <1>4 DEF Answering
<1>6. \A j \in 1..n : down'[j].op = "finish" <=> j = n
  BY <1>3, <1>4 DEF Answering
<1>7. \A a, b \in 1..(n - 1) : down'[a].room = down'[b].room => a = b
  <2> SUFFICES ASSUME NEW a \in 1..(n - 1), NEW b \in 1..(n - 1), down'[a].room = down'[b].room
               PROVE  a = b
    OBVIOUS
  <2>1. a + 1 \in 1..n /\ b + 1 \in 1..n /\ down[a + 1].room = down[b + 1].room
    BY <1>3
  <2>2. a + 1 = b + 1
    BY <1>3, <1>4, <2>1 DEF Answering
  <2> QED
    BY <2>2
<1>8. CASE n = 0
  <2>1. down[1].op = "finish"
    BY <1>3, <1>4, <1>8 DEF Answering
  <2>2. list' = list
    BY <1>1, <2>1 DEF Show
  <2>3. 1..(Len(down) - 1) = {} /\ 1..(Len(down') - 1) = {} /\ DOMAIN down' = {}
    BY <1>3, <1>8
  <2> QED
    BY <1>1, <1>4, <1>5, <2>2, <2>3 DEF Answering, Range
<1>9. CASE n > 0
  <2>1. down[1].op = "room" /\ down[1].room \in Rooms
    BY <1>1, <1>3, <1>4, <1>9 DEF Answering, Answers
  <2>2. PICK x \in Rooms : x = down[1].room
    BY <2>1
  <2>3. \A i, j \in DOMAIN list : list[i] = list[j] => i = j
    BY <1>4 DEF Answering
  <2>4. x \notin Range(list)
    BY <1>3, <1>4, <1>9, <2>2 DEF Answering, Range
  <2>5. list' = Append(list, x)
    BY <1>1, <2>1, <2>2, <2>3, <2>4, Rows DEF Show
  <2>6. PICK m \in Nat : m = Len(list)
    BY Numbers
  <2>7. /\ DOMAIN list = 1..m /\ DOMAIN list' = 1..(m + 1) /\ list'[m + 1] = x
        /\ \A i \in 1..m : list'[i] = list[i]
    <3>1. list \in Seq(Rooms) /\ Len(list) = m
      BY <2>6 DEF Typed
    <3> QED
      BY <2>5, <3>1
  <2>8. \A i, j \in DOMAIN list' : list'[i] = list'[j] => i = j
    BY <2>3, <2>4, <2>7 DEF Range
  <2>9. Range(list') = Range(list) \cup {x}
    BY <2>7 DEF Range
  <2>10. ASSUME NEW i \in DOMAIN list', NEW j \in 1..(n - 1) PROVE list'[i] # down'[j].room
    <3>1. j + 1 \in 1..n /\ down'[j].room = down[j + 1].room
      BY <1>3
    <3>2. CASE i = m + 1
      <4>1. down[1].room # down[j + 1].room
        BY <1>3, <1>4, <1>9, <3>1 DEF Answering
      <4> QED
        BY <2>2, <2>7, <3>1, <3>2, <4>1
    <3>3. CASE i \in 1..m
      <4>1. list[i] # down[j + 1].room
        BY <1>3, <1>4, <2>7, <3>1, <3>3 DEF Answering
      <4> QED
        BY <2>7, <3>1, <3>3, <4>1
    <3> QED
      BY <2>7, <3>2, <3>3
  <2>11. {down[j].room : j \in 1..n} = {x} \cup {down'[j].room : j \in 1..(n - 1)}
    <3>1. ASSUME NEW j \in 1..n PROVE down[j].room \in {x} \cup {down'[k].room : k \in 1..(n - 1)}
      <4>1. CASE j = 1
        BY <2>2, <4>1
      <4>2. CASE j # 1
        <5>1. j - 1 \in 1..(n - 1) /\ down'[j - 1] = down[j]
          BY <1>3, <4>2
        <5> QED
          BY <5>1
      <4> QED
        BY <4>1, <4>2
    <3>2. \A j \in 1..(n - 1) : j + 1 \in 1..n /\ down'[j].room = down[j + 1].room
      BY <1>3
    <3> QED
      BY <1>9, <2>2, <3>1, <3>2
  <2>12. answered' = Range(list') \cup {down'[j].room : j \in 1..(n - 1)}
    <3>1. answered = Range(list) \cup {down[j].room : j \in 1..n}
      <4>1. Len(down) - 1 = n
        BY <1>3
      <4> QED
        BY <1>4, <4>1 DEF Answering
    <3> QED
      BY <1>1, <2>9, <2>11, <3>1
  <2> QED
    BY <1>3, <1>5, <1>6, <1>7, <2>8, <2>10, <2>12 DEF Answering
<1> QED
  BY <1>8, <1>9

-----------------------------------------------------------------------------
(* The theorems about the list.                                            *)

LInv == Typed /\ Listing

LEMMA ClientList ==
  ASSUME Typed, Listing, User \/ Timer \/ QuitTimer
  PROVE  Listing'
<1> SUFFICES ASSUME ~disturbed', ~overlap', ~closed', ~wedged', stack' = <<Main>>
             PROVE  (Asked \/ Answering)'
  BY DEF Listing
<1>0. RoomInfo \in Requests /\ list \in Seq(Rooms)
  BY Constants DEF Typed
<1>1. CASE Refresh
  <2>1. ~AnswerDue /\ list' = <<>> /\ UNCHANGED down /\ up' = Append(up, RoomInfo)
    BY <1>0, <1>1, Sending DEF Refresh, Tap, Send
  <2> QED
    BY <2>1, Asking
<1>2. CASE Timer
  BY <1>2 DEF Timer
<1>3. ASSUME NEW r \in Codes, stack' = Append(stack, Chat(r)), stack = <<Main>> PROVE FALSE
  <2>1. stack' = <<Main, Chat(r)>>
    BY <1>3, Opening
  <2> QED
    BY <2>1
<1>4. CASE GetIntoRoom \/ Go
  <2>1. \E r \in Codes : stack' = Append(stack, Chat(r))
    <3>1. Range(list) \subseteq Codes
      BY <1>0 DEF Range, Codes
    <3> QED
      BY <1>4, <3>1 DEF GetIntoRoom, Go, Codes
  <2> QED
    BY <1>3, <1>4, <2>1, Pages DEF GetIntoRoom, Go, Tap
<1>5. CASE OpenMembers
  <2>1. PICK c \in ChatPage : stack = <<Main, c>>
    BY <1>5, Pages DEF OpenMembers, Tap
  <2>2. stack' = <<Main, c, Members>>
    BY <1>5, <2>1, Nesting DEF OpenMembers
  <2> QED
    BY <2>2
<1>6. CASE CloseMembers
  <2>1. PICK c \in ChatPage : stack = <<Main, c, Members>>
    BY <1>6, Pages DEF CloseMembers, Tap
  <2>2. stack' = <<Main, c>>
    BY <1>6, <2>1, Nesting DEF CloseMembers
  <2> QED
    BY <2>2
<1>7. CASE LeaveRoom
  <2>1. PICK c \in ChatPage : stack = <<Main, c>> /\ Top = c
    BY <1>7, Pages DEF LeaveRoom, Tap
  <2>2. Request("quit", c.room) \in Requests /\ Request("quit", c.room).op = "quit"
    BY Requesting DEF ChatPage
  <2>3. up' = Append(Append(up, Request("quit", c.room)), RoomInfo)
    BY <1>7, <2>1, <2>2, Sending DEF LeaveRoom, Send
  <2>4. ~AnswerDue /\ list' = <<>> /\ UNCHANGED down
    BY <1>7 DEF LeaveRoom, Tap
  <2> QED
    BY <2>2, <2>3, <2>4, Asking
<1>8. CASE Say
  <2>1. PICK c \in ChatPage : stack = <<Main, c>>
    BY <1>8, Pages DEF Say, Tap
  <2> QED
    BY <1>8, <2>1 DEF Say
<1>9. CASE BackFromMembers
  <2>1. PICK c \in ChatPage : stack = <<Main, c, Members>>
    BY <1>9, Pages DEF BackFromMembers, Tap
  <2>2. stack' = <<Main, [c EXCEPT !.left = TRUE]>>
    BY <1>9, <2>1, Nesting DEF BackFromMembers
  <2> QED
    BY <2>2
<1>10. CASE BackFromMain \/ QuitTimer
  <2>1. UNCHANGED <<stack, list, up, down, wedged, disturbed, overlap, answered>> /\ ~closed
    BY <1>10 DEF BackFromMain, QuitTimer, server
  <2> QED
    BY <2>1, SameList DEF Listing
<1> QED
  BY <1>1, <1>2, <1>4, <1>5, <1>6, <1>7, <1>8, <1>9, <1>10 DEF User

LEMMA ServerList ==
  ASSUME Typed, Listing, NEW i, ServeAt(i)
  PROVE  Listing'
<1> SUFFICES ASSUME ~disturbed', ~overlap', ~closed', ~wedged', stack' = <<Main>>
             PROVE  (Asked \/ Answering)'
  BY DEF Listing
<1>1. PICK ops : Take(i, ops)
  BY DEF ServeAt, Enter, Quit, RoomList, Tell, Ignore
<1>2. /\ i \in DOMAIN up /\ up[i] \in Requests /\ UNCHANGED list
      /\ ~disturbed /\ ~overlap /\ ~closed /\ stack = <<Main>>
  BY <1>1, Taking DEF Take, client
<1>3. ~wedged
  BY DEF ServeAt, Enter, Quit, RoomList, Tell, Ignore, server
<1>4. Asked \/ Answering
  BY <1>2, <1>3 DEF Listing
<1>5. CASE Enter(i)
  <2>1. up[i].op # "create"
    <3> SUFFICES ASSUME up[i].op = "create" PROVE FALSE
      OBVIOUS
    <3>1. up[i].room # NoRoom
      BY <1>5 DEF Enter
    <3>2. Adds(up[i]) /\ up[i] # RoomInfo
      BY <3>1 DEF Adds, RoomInfo
    <3> QED
      BY <1>2, <1>4, <3>2 DEF Asked, Answering
  <2>2. ~Adds(up[i]) /\ Put(<<>>) /\ UNCHANGED answered
    BY <1>5, <2>1 DEF Enter, Take, Adds
  <2>3. down' = down
    BY <2>2 DEF Put, Typed
  <2> QED
    BY <1>1, <1>2, <1>4, <2>2, <2>3, OtherRequest
<1>6. CASE Quit(i) \/ Tell(i)
  <2>1. ~Adds(up[i]) /\ UNCHANGED <<down, answered>>
    BY <1>6 DEF Quit, Tell, Take, Adds
  <2> QED
    BY <1>1, <1>2, <1>4, <2>1, OtherRequest
<1>7. CASE RoomList(i)
  BY <1>4, <1>7, Answered
<1>8. CASE Ignore(i)
  <2>1. up[i].op \in {"join", "create", "quit"} /\ up[i].room = NoRoom /\ UNCHANGED <<down, answered>>
    BY <1>3, <1>8 DEF Ignore, server
  <2>2. ~Adds(up[i])
    BY <2>1 DEF Adds
  <2> QED
    BY <1>1, <1>2, <1>4, <2>1, <2>2, OtherRequest
<1> QED
  BY <1>5, <1>6, <1>7, <1>8 DEF ServeAt

LEMMA OutsideList ==
  ASSUME Typed, Listing, (\E i : ReceiveAt(i)) \/ OtherMoves \/ Lose
  PROVE  Listing'
<1>1. ASSUME NEW i, ReceiveAt(i) PROVE Listing'
  <2> SUFFICES ASSUME ~disturbed', ~overlap', ~closed', ~wedged', stack' = <<Main>>
               PROVE  (Asked \/ Answering)'
    BY DEF Listing
  <2>1. i = 1 /\ ~disturbed /\ ~overlap /\ ~closed /\ ~wedged /\ stack = <<Main>>
    BY <1>1 DEF ReceiveAt, server
  <2> QED
    BY <1>1, <2>1, Shown DEF Listing
<1>2. CASE OtherMoves
  <2> SUFFICES ASSUME ~disturbed', ~overlap', ~closed', ~wedged', stack' = <<Main>>
               PROVE  (Asked \/ Answering)'
    BY DEF Listing
  <2>1. UNCHANGED <<client, up, down, disturbed, overlap, answered>> /\ ~wedged
    BY <1>2 DEF OtherMoves
  <2> QED
    BY <2>1, SameList DEF client, Listing
<1>3. CASE Lose
  BY <1>3 DEF Lose, Listing
<1> QED
  BY <1>1, <1>2, <1>3

LEMMA InitList == Init => LInv
<1> SUFFICES ASSUME Init PROVE Asked
  BY InitMembers DEF IInv, LInv, Listing
<1>1. up = <<RoomInfo>> /\ list = <<>> /\ down = <<>>
  BY DEF Init
<1>2. DOMAIN up = {1} /\ up[1] = RoomInfo
  BY <1>1
<1> QED
  BY <1>1, <1>2 DEF Asked

LEMMA NextList == LInv /\ [Next]_vars => LInv'
<1> SUFFICES ASSUME Typed, Listing, [Next]_vars PROVE Typed' /\ Listing'
  BY DEF LInv
<1>1. CASE User \/ Timer \/ QuitTimer
  BY <1>1, ClientTypes, ClientList
<1>2. CASE Serve
  BY <1>2, ServerTypes, ServerList DEF Serve
<1>3. CASE Receive \/ OtherMoves \/ Lose
  BY <1>3, OutsideTypes, OutsideList DEF Receive
<1>4. CASE UNCHANGED vars
  <2>1. Typed'
    BY <1>4, OtherTypes DEF vars, client, server, Typed
  <2>2. Listing'
    BY <1>4, SameList DEF vars, client, server, Listing
  <2> QED
    BY <2>1, <2>2
<1> QED
  BY <1>1, <1>2, <1>3, <1>4 DEF Next

\* While the list has been asked for once and nothing was lost or overtaken, what
\* MainPage shows and what is under way make up the rooms of one instant.
THEOREM ListInvariance == Spec => []LInv
BY InitList, NextList, PTL DEF Spec

\* A list that was asked for once, of a server that answers, shows the rooms of one
\* instant, each once, however often the user has come and gone before (onBackPress, onGetNewRoom).
THEOREM RoomsOfOneInstant == Spec => []ListOfOneInstant
<1>1. LInv => ListOfOneInstant
  <2> SUFFICES ASSUME Typed, Listing, Top = Main, Quiet, ~disturbed, ~overlap, ~closed, ~wedged
               PROVE  Range(list) = answered /\ Len(list) = Cardinality(answered)
    BY DEF LInv, ListOfOneInstant
  <2>1. stack = <<Main>> /\ DOMAIN up = {} /\ Len(down) = 0
    BY Pages DEF Quiet
  <2>2. Answering
    BY <2>1 DEF Listing, Asked
  <2>3. 1..(Len(down) - 1) = {}
    BY <2>1
  <2>4. answered = Range(list)
    BY <2>2, <2>3 DEF Answering
  <2> QED
    BY <2>2, <2>4, Rows DEF Answering
<1> QED
  BY <1>1, ListInvariance, PTL
=============================================================================
