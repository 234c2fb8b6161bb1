# PostinTo, modelled

PostinTo is a chat application: a server in Go (`src/Server`) that keeps chat
rooms in memory and users in MySQL, a copy of the Go MySQL driver that the server
is built with (`src/Server/mysql`), and a Qt/QML client (`src/Client/PostinTo`)
that talks to the server in single UDP datagrams. This directory holds TLA+
models of all three, the TLC configurations that check them, and TLAPS proofs.
Every definition is written from the code; `PROJECT.json` gives the lines each one
stands for.

    tlc -workers 2 -config rooms_safety.cfg MCRooms     # a run
    tlapm ConnProofs.tla                                # proofs, some minutes a module

## 1. Inventory

### Components, state and operations

| Component | Code | State | Operations | Modules |
|---|---|---|---|---|
| datagram reader | `Server/main/main.go` | the socket | read a datagram, start a goroutine with `HandleMsg` | RoomServer |
| room service | `Server/dataHandle/handler.go` 156-340, 363-398 | map `rooms`, `roomMutex` | create, enter, quit, chat, list members, list rooms, `PrintStatus` | RoomServer, RoomTable |
| accounts | `handler.go` 101-153, 410-477 | table `users`, `userMutex` | `LoginQuery`, `SignInQuery` | Accounts, AccountBook |
| clock-in | `handler.go` 342-361, 488-524; `config.go` 58-68 | table `sygj`, the connections, the wall clock | `SygjQuery`, `GetSygjQuery` | ClockIn |
| message framing | `handler.go` (each case), `config.go` 39-48, `backend.cpp` | none | cut a datagram at `/`, drop white space | Framing |
| client pages and backend | `qml/Main.qml`, `MainPage`, `ChatPage`, `MemberList`, `KeyFilter`, `c++/backend.cpp` | page stack, room list, refresh timer, back key | refresh, create or join, chat, back, list members | Client |
| driver: login | `auth.go`, `connector.go`, `packets.go` | challenge, plugin, TLS | handshake, switch, fast and full authentication | Auth, Driver |
| driver: commands | `connection.go`, `statement.go`, `transaction.go`, `rows.go`, `packets.go`, `infile.go` | what is left to read, sequence number, open `Rows` | Exec, Query, Prepare, Ping, Next, NextResultSet, Close | Session, Driver |
| driver: contexts and pool | `connection.go` 26-147, 442-649; `connector.go`; `conncheck.go`; `utils.go` | `closed`, `canceled`, `closech`, `watcher`, the pool of `database/sql` | watch, finish, cancel, cleanup, retry, ResetSession | Conn |
| driver: packets and buffer | `buffer.go`, `packets.go` 23-178 | two arrays, indices, sequence number | fill, readNext, take, store, readPacket, writePacket | PacketIO |
| driver: values | `utils.go`, `packets.go`, `connection.go` 183-306, `statement.go` | none | lengths, rows, arguments, literals, dates and times | Values |
| driver: data source names | `dsn.go` | none | FormatDSN, ParseDSN, normalize | Dsn |
| driver: registries, collations, metadata; UI components; logo | `collations.go`, `const.go`, `fields.go`, ... | tables | look up, draw, print | none |

### How they interact

A client sends one datagram per user action and keeps no record of it: nothing
is acknowledged and nothing is repeated, apart from the room list, which a timer
asks for again every 500 ms. The reader starts one goroutine per datagram, so two
datagrams of one client may be handled in either order and at the same time.
Goroutines meet in `rooms` (meant to be protected by `roomMutex`), in the
database (one query at a time is atomic, sequences of queries are not) and in the
connections to it. `HandleMsg` recovers from every panic and returns; the client
then gets no answer, and a lock that was held stays held.

Below the queries, `database/sql` hands each call a connection of its pool, alone.
On a connection, the goroutine of the caller writes commands and reads answers
through one buffer whose slices it gives away without a copy; a watcher goroutine
closes the connection when the context of the call is done. The caller and the
watcher share `closed`, `canceled`, `closech` and the network connection.

### What is hard

* **Interleaving.** A look-up under `RLock` followed by an action under a later
  `Lock`; `SELECT COUNT` followed by `INSERT`; three `UPDATE`s of one row;
  `PrintStatus` iterating over `rooms` without the lock; a cancellation that comes
  when the call it was meant for has just returned.
* **Failure inside.** A panic under `roomMutex.Lock` orphans the lock; a query that
  fails ends a handler in the middle; the later statement of a query of several
  fails after the first has returned its result; a time limit passes, or a packet is
  malformed, on a connection whose server is there.
* **Crash and restart.** The runtime ends the process when it sees the map
  written during an iteration; rooms are then gone, and clients do not know.
* **Time.** Hour, date and time of a clock-in are separate readings of the clock.
* **Delivery.** UDP loses and reorders joins and quits; requests that are repeated
  get answers twice; a statement that may have been executed must not be retried.
* **Protocol.** A connection must be in step before it is used again; a challenge
  may be replaced; a slice of the buffer is overwritten by the next read.
* **Boundaries.** Packets of 2^24 - 1 bytes, lengths of 250 and 251, NULL bitmaps
  shifted by two, dates with zeros, separators in a password.

### What makes each component correct

* *Room service.* The lock excludes; `memCnt` is the number of members and empty
  rooms are gone; joining and leaving look like single steps; a loop serves the
  state of one instant; members see messages in one order; every handler ends.
* *Accounts.* Only a sign-up that has found its id free stores a row; who was told
  `SIGNIN_SUCCESS` can log in, unless a rival had found the id free too; verdicts are
  true and stay true.
* *Clock-in.* The row of a day is the last clock-in of that day; days do not mix;
  a champion that was announced does not change.
* *Framing.* What one side writes the other side reads.
* *Client.* The room list shows what exists, once; the user is a member of the room
  that he sees, once, and a request that is lost or overtaken costs one membership and
  no more; the refresh ends as long as the server serves.
* *Driver.* Who has the right password gets in and it never goes out in clear text
  unasked; an answer belongs to its command; results are complete; no call waits
  for what will not come; a cancelled call returns, its error says so, and no other
  call suffers; a statement runs at most once; bytes and values arrive as sent.

`PROJECT.json` lists the hazards line by line, with the properties that cover them.

## 2. Plan

| Step | State |
|---|---|
| **RoomServer** refining **RoomTable**, **Accounts** refining **AccountBook**, **ClockIn** | done |
| **RoomServerProofs**, **AccountsProofs** | done |
| **Framing**; **Client** with a server that answers late over a lossy network | done |
| The driver: **Auth** and **Session**, composed in **Driver**; **Conn**; **PacketIO**; **Values** and **Dsn**, put end to end with Framing in **Codecs** | done |
| **ConnProofs**, **ClockInProofs** | done |
| Order of the chat messages and loops of the room service, the champion of the day, the refinement of AccountBook, true errors of a call | done |
| **DriverProofs**, **ClientProofs** | done |
| **PacketIOProofs**, **CodecsProofs** | done |
| Models that would add most: Conn under Session (a cancellation in the middle of a result set) as one composition; two clients over RoomServer's own steps instead of Client's atomic server | left |

A new run is to replace a narrower one that asks the same question of a smaller
system, so that all of them stay a matter of minutes.

## 3. The models

### RoomServer

| Variable | Code |
|---|---|
| `rooms` | the Go map; its `DOMAIN` is the set of keys, a value is `memCnt` and `clients` |
| `writer`, `readers` | `roomMutex`; `writer = Gone` when the goroutine that locked it has ended without unlocking |
| `pc`, `req`, `todo` | per goroutine: where in `HandleMsg`, its datagram as parsed, what its range loop has left (Go fixes the range of a slice when the loop starts) |
| `up` | whether the process runs |
| `received`, `num`, `sent` | history: datagrams read, their numbers, what was written to which address |

One action per step between which another goroutine can be seen to run: taking and
giving back the lock, the statements under it one by one where a panic or an
observer could tell (`Join` and `JoinCount`, `Quit` and `QuitCount`), one
datagram per iteration of a loop, and `PrintStatus` from its beginning to its end.
`CREATE_ROOM` and `GET_INTO_ROM` share their actions, as their code is the same up
to the answer (`Answer`). The `PrintStatus` of `QUIT_THE_ROOM` and
`REQ_ROOM_INFO` runs under the write lock and is invisible there. The other one
takes no lock: a map iteration that meets a map write is a data race, of which
`MapRace` is the outcome in which the runtime notices and ends the process, and the
ordinary actions are the one in which it does not. `Restart` is `main` again. A
login takes part as far as its `PrintStatus` does.

`RoomTable` is the promise: while the process runs, one room changes by one client
at a time; everything vanishes with the process, and nothing ever changes again once
the lock is orphaned. A room maps to the sequence of its clients, a missing room to
the empty one. `CREATE_ROOM` and `GET_INTO_ROM` look under `RLock` and create under a
later `Lock` (handler.go:195-211): who has joined in between is lost. `RoomTable` keeps
that as narrow as the code does: a room is made (`Create`) only by a handler that has
found it missing (`Find`), once. `Leave` removes *some* member: the code does
not promise more (see `rooms_quit_other`). So the refinement says that no interleaving
produces a half-done change, or loses a member in any other way; it does not say that the change
is the one that was asked for.

### Accounts

`users` is the table as a sequence of rows; every query is one action, which may fail
(`FailedQuery`): then `checkErr`, `panic(err)` or the nil statement ends the handler,
except that the error of the nickname's `UPDATE` is dropped and `LOGIN_SUCCESS` returned.
An `INSERT` may also fail after the row is stored. A login with an id that nobody has gets
no answer at all: `Scan` fails and `checkErr` panics. The repository has no `CREATE TABLE`
and its only picture of the table shows no key, so the model has none: two sign-ups that
both find an id free (`Finders`) both store a row and are both told `SIGNIN_SUCCESS`, and
a login reads any row of its id. The history `raced` names the ids for which that
happened, and `SignedUpCanLogIn` exempts them and no others. A table with a key is covered
as well: there the second `INSERT` is one that fails. `userMutex` is read-locked by each
successful login and never unlocked; nobody ever locks it for writing.

`AccountBook` is the promise: an account is opened only by who has found the id free
(`Find`, then `Open` or `GiveUp`), a password that is stored stays, and a client is
told at most once, of the account that its own handler has opened (`Grant`). It
promises neither an answer nor that an id has one owner.

### ClockIn

Time is counted in slots, two a day: the night (0:00 to 6:00), which belongs to
the day before, and the rest. The clock runs freely between any two steps. Each
reading of the clock is a step of its own, as is each query. A clock-in is known by
its number, which stands for its user and its text. `leaked` counts connections
that `QueryRow` without `Scan` keeps; MySQL closes idle ones after a while
(`CloseConnection`). A query may be refused as soon as the leaked connections and those
that other handlers may hold for a query of theirs reach the limit (`MayBeRefused`).

Two things go wrong in this code by themselves, and the properties are about
everything else. Midnight between the readings of hour and date (or 6:00 before
the last write) credits the wrong day: the history `late` names exactly those
handlers that the clock caught there (`Caught`), and each property exempts them and
no others. And two clock-ins under way at once may leave the user of one with the
text of the other, as their `UPDATE`s interleave: `ChampionIsLatest` is about a
last clock-in that found no other one under way and connections for its writes
(`undisturbed`), whatever the ones before it did to the row.

### Auth and Session, composed in Driver

`Auth` is one login: the configuration, the account, the packet in flight (this
phase is strictly alternating) and the plugin of each side. A challenge has a
number; a response is known by its form, its password and the challenge it was
computed for, as if hashes and RSA were perfect. The server judges it as MySQL's
protocol documentation has it. A seed that lies in the read buffer is overwritten
by the next packet unless it was copied (`auth.go:313`).

A request to switch the plugin carries 21 bytes, the challenge and a NUL, and `auth` is
given all of them (`packets.go:513`): `nul` marks a response computed from those. The old
and the native plugin cut the challenge. The scramble of `caching_sha2_password` is then
another hash, so that the fast path fails and the full authentication, which works on the
copied 20 bytes, decides. `sha256_password` with a configured key encrypts with a wrong
challenge from the 21st byte of the password on: with a password of 20 bytes or more (its
NUL counts) such a login fails. And `scrambleOldPassword` is wrong for some passwords, as
the "wontfix" of `auth.go:250-252` says (`edge`). `Unprovable` names these two cases, and
`LoginCompletes` exempts them.

`Session` is what follows on the connection. A call is the sequence `todo` of the
routines (`readResultSetHeaderPacket`, `readColumns`, `readUntilEOF`, ...) that
still have to read; each step consumes one packet, of which only the kind matters.
`stream` is what the server has sent, `buffered` how much of it has arrived in the
buffer, which decides between `ErrBusyBuffer`, the check of pooled connections and
the sequence number as the one to notice leftovers. Errors, `LOAD DATA`, several
statements, read-only rejection, rows wider than a skipped packet's first byte can
tell, and the loss of the connection at any packet are among the inputs. The
caller is `database/sql`: one call at a time, `Close` as soon as a `Rows` has failed.

Two accidents leave an answer unread, and the model has both. `readUntilEOF` takes a row
that begins with 0xfe for the end (`wide`). And `binaryRows.Next` does not ask whether the
set has ended, as `textRows.Next` does: behind a set with more results it reads the header
of the next one as a row, fails, and drops the connection from the `Rows`, so that `Close`
skips nothing (`overrun`). What is left then meets the next command. It may have arrived
in part: after `ErrPktSync` the header is gone, and the body is in the buffer, which makes
it busy, or still to come, which does not (`OutOfSync`); what is read after that, or after
a leftover that was accepted (`TakeForeign`), is garbled, and the call may return anything
(`ReadGarbled`).

`Driver` runs one after the other on one connection.

### Conn

Each connection has a watcher goroutine; one caller goroutine takes connections from the
pool or dials, retries on `driver.ErrBadConn`, and gives back or drops what it used. A
call is the sequence `todo` of steps left; the steps of `Exec`, `Query`, `Prepare` and
`Connect` are `Steps` and `Connecting`, and a failing step replaces the rest (`Fail`).
Besides a server that vanishes there are faults with the server in place (`Faulty`):
`readTimeout` or `writeTimeout` passes, or a packet is empty where none may be
(`ReadFaulty`, `HandshakeFaulty`, `WriteError`); the server refuses a statement as
read-only and `RejectReadOnly` turns that into `driver.ErrBadConn`; a packet of a `LOAD
DATA` file is not written and reads as if nothing had been (`SendFileFails`). The last two
make `database/sql` try a statement again that the server may have acted on; `again`
counts those tries, for `AtMostOnce`. `mysqlConn` has per connection `closed`, `canceled`,
`watching`, the contents of the channel `watcher` (`chan`), how often `closech` was
closed, the socket on both sides, and where the pool has it. A step is what happens
between two points where the other goroutine can come in: `cancel` and the three parts of
`cleanup` are separate steps of caller and watcher alike. Contexts are done at any moment,
and the server may vanish at any moment.

A `select` of the watcher with several channels ready is a choice (`Watcher...`
actions). `TellWatcher` is the check of the context in `watchCancel`, followed by the
unbuffered send, which `WatcherReceives` completes. A context that is done between
dial and handshake makes `Connect` return without closing what it dialled: the
connection is `leaked`.

### PacketIO

The double buffer with array identities: `mem` is what each array holds, and a
slice that the caller was given is an array, an offset and a length. So a row that
is overwritten later shows. Cells stand for bytes of a known row at a known place;
a header is one cell. Rows arrive in pieces of any size; writes may be cut short. The
answer to a command is numbered on from the command's packets (`first`), of which a
long command has several.

### Values, Dsn, Framing, and Codecs

Pure operators: `Values` for the formats of MySQL (on sequences of numbers below
256), `Dsn` and `Framing` on sequences of characters. What the MySQL server does with
its side stands beside the driver's and is external. `Codecs` puts writer and reader
end to end: a state is a task and its result, a step runs one, and the invariants
compare the ends. The inputs are constants of it; `MCCodecs` gives them small sets
around the boundaries of each format.

Three things do not arrive, and the properties say which. An execute packet longer than
`maxAllowedPacket` is refused (`packets.go:95`), after its long data has been sent. An
address with '@' is not read back: `ParseDSN` looks for the last '@' before the last '/',
finds it in the address, and refuses the name, or takes what follows a later '(' for the
address (`Misread`). And a '/' in a room, an id, a nickname or a message makes a chat or
quit datagram fall into other fields: the properties of `FieldsIntact` about these are
about texts without one, those about logins only need an id without one.

### Client

One client whole, as a stack of pages, against a room table whose handlers are single
steps (RoomServer has their inner steps), with a second user who comes and goes. Any
datagram under way may be handled next, and any may be lost. The back key on the member
list makes the chat page below send its QUIT, and `KeyFilter` is what the pages share:
both are in the actions. The button Go sends an empty room code too, and opens a chat page
that no room belongs to (`NoRoom`): the server returns without a word. A message to a room
that is gone, which a lost `CREATE_ROOM`, a QUIT from under the member list, or such a
page is enough for, orphans `roomMutex`: from then on the server is `wedged` and answers
nothing.

Five history variables let the properties say what went wrong. `adrift` counts, room by
room, the memberships too many: one for a QUIT that was lost or came before its JOIN,
minus one for a JOIN or CREATE that was lost. `stray`: a page has sent a second QUIT, or
the other user one that took a membership that is not his. `disturbed`: a datagram was
lost or overtaken; `overlap`: the list was asked for while an answer was due; `answered`:
the rooms of the last answer. The server does not restart here; that is RoomServer's.

## 4. The runs

`MCRooms`, `MCAccounts`, `MCClockIn`, `MCPacketIO` and `MCCodecs` give the sets of requests, the
symmetry and the lengths that the configurations use; the other modules are run as
they are.

Passing runs:

| Run | Instance | Shows |
|---|---|---|
| `rooms_safety` | 3 goroutines, 1 room, 3 users, 4 datagrams; create, enter, quit, chat, both lists | `RoomsConsistent`; `LoopsCurrent` (a loop neither misses nor repeats anybody); `ChatOrder` (no two members see two messages in different orders); refinement of `RoomTable` (`TableSpec`) |
| `rooms_live` | 2 goroutines, every operation, 3 datagrams, fairness | `HandledOrWedged`: every handler ends, unless a panic has orphaned `roomMutex` |
| `accounts` | 3 goroutines, 2 ids, 2 passwords, 4 datagrams, 1 failure, no key | `SignedUpCanLogIn`, `VerdictsAreTrue`, refinement of `AccountBook` (`BookSpec`) |
| `clockin_days` | 2 goroutines, 4 datagrams, slots 2 to 4, 4 connections | `TypeOK`, `FieldsOfTheDay`, `AnnouncedIsFinal`, `ChampionIsLatest` under every interleaving and a free clock |
| `driver` | every account and configuration; up to 3 commands, result sets of up to 2 rows, sequence numbers modulo 5 | `TypeOK`, `ClearOnlyWhenAllowed`, `LoginCompletes`, `AnswersMatch`, `InSync`, `WaitsForSomething`, `ResultsAreTrue` |
| `connection` | 2 connections, 2 calls, of which the first can meet a fault, 1 retry, fairness | `ConnTypeOK`, `CancelsOwnCall`, `ClosedOnce`, `AtMostOnce`, `TellsCancellation`, `CancelledReturns`, `WatchersEnd` |
| `packets` | packets of 3, buffer of 2 cells; 5 answers, commands of 1 to 6 cells, 2 answers | `TypeOK`, `RowIntact`, `InStep`, `WrittenAsFramed` |
| `codecs` | inputs at the boundaries of each format | `RowsIntact`, `ArgumentsArrive`, `TemporalsIntact`, `DsnRoundTrip`, `FieldsIntact` |
| `client` | 2 rooms and the empty code, 4 taps, 1 move of the other user, 2 requests and 3 answers under way, fairness | `TypeOK`, `MemberWhereChatIsOpen`, `ListOfOneInstant`, `RefreshEnds` |

Runs that find the code at odds with what the repository says of it:

| Run | Property | Claim | What happens |
|---|---|---|---|
| `rooms_wedge` | `EveryMessageHandled` | main.go:53, messages are handled concurrently | a message to a room that does not exist panics under `roomMutex`; every later handler that needs the lock waits forever |
| `rooms_quit_other` | `QuitRemovesTheQuitter` | handler.go:228, the user leaves the room | a quit by somebody who is not in the room removes its last member |
| `driver_close_hangs` | `CloseReturns` | rows.go:121, unread packets are removed; README.md:254 of the driver, other results are silently discarded | after a `NextResultSet` that failed, `Close` reads until an EOF that the server has no reason to send, and nobody watches it any more |

Each property of a passing run has a mutant: the same definition with a
plausible mistake (`Mutant:` in the comment), under which the run fails.

### Bounds

Every unbounded thing is bounded in a guard by a named constant.

* *Server.* `MaxRequests` (datagrams in a behaviour), `MaxFailures`, `MaxNow`; `MaxConns`
  is a limit of the real system, made small. Interference is between goroutines around one
  room, one id or one day, so one of each is enough for the races, and the second id shows
  that accounts do not disturb each other. Three goroutines are the fewest in which one is
  inside, one waits with a stale look-up and a third changes what was looked up; the
  theorems hold for any number. Four datagrams suffice for: create, create, quit and a
  fourth that meets the result; two joins and two messages of a third user, who need not
  be a member to send them (the shortest way to break `ChatOrder`: two members get both);
  sign-up, rival sign-up and a login with each password; two racing clock-ins, a third on
  top of them, and the question who won. Slots 2 to 4 contain a midnight and a 6:00 after
  either start. Four connections are what a clock-in may need, three that it never gives
  back and one that the other handler holds: one gets through, and starves the next.
* *driver.* Three commands after the login: one that leaves something unread, one that
  meets it, and one after that. Two rows tell a row that is read from one that is
  skipped. The sequence number counts modulo 5 instead of 256 (`SeqMod`), so that it comes
  round in the middle of an answer, and a leftover can have the number of a fresh packet:
  `AnswersMatch` says that it takes an answer of more than `SeqMod` packets for that.
* *connection.* Two calls: one that leaves its watcher at work and the next, which
  could suffer. Two connections: the one in question and the one tried instead. One
  retry of the two that `database/sql` makes: each is the same step. Time limits, malformed
  packets, read-only rejections and files that fail come in the first call (`FaultyCalls`), so
  that the second meets what they leave behind; the theorems have them in any call.
* *packets.* Rows below, at and beyond one and two packets and one and two buffers,
  arrays that are cached and arrays that are too large for it.
* *codecs.* Lengths 0, 250, 251, 65535 and so on are the boundaries of the formats;
  `maxAllowedPacket` lies below, at and above the execute packets; passwords and
  addresses contain each separator.
* *client.* Four taps: create or join, back, and once more, while answers to the first are
  still under way; or create, say, members, back; lists of more than three rows are cut
  (`MaxList`).

Goroutine slots are interchangeable, hence the symmetry sets, used in safety runs
only. `CHECK_DEADLOCK FALSE` is set because the bounded behaviours end: all
datagrams are handled, all commands sent, or the lock is orphaned. That handlers do
not block each other is what `rooms_live` checks, that no call waits in vain is
`WaitsForSomething`.

### Fairness

* `RoomServer!FairSpec`: weak fairness for the next step of each goroutine (the Go
  scheduler runs every goroutine that can run) and strong fairness for taking
  `roomMutex`, whose availability comes and goes: `sync.RWMutex` blocks new readers
  once a writer waits, and `sync.Mutex` below it hands over to a waiter after a
  millisecond. Clients and the network owe nothing: `Receive`, `MapRace` and
  `Restart` have no fairness.
* `Conn!ConnSpec`: weak fairness for the caller and for each watcher, goroutines both.
  None for the server, which may never answer, for a time limit, which need not be set, nor for
  contexts to be done.
* `Session!FairSession`: weak fairness for the goroutine of the call and for the
  server, which answers what it was asked; the connection need not break.
* `Client!FairSpec`: weak fairness for the timers, the server and the receiver, and
  strong fairness for a room request being handled and a `ROOM_FINISH` being received:
  the network loses any finite number of them, not all that are ever sent. A server that
  is wedged handles none, and fairness does not ask it to: `RefreshEnds` speaks of a server
  that is not.

## 5. The proofs

None of them assumes more than the `ASSUME` of its module, and each holds for every
value of the constants: any number of goroutines, rooms, users, connections, calls,
commands, bytes and retries. Every invariant below was checked by TLC too.

### The room service (`RoomServerProofs`)

From `ConstantAssumption` (finitely many room codes, the empty code and the null
values are distinct from the real ones, requests have the fields they have):

| Theorem | Statement |
|---|---|
| `Invariance` | `Spec => []IInv` |
| `TypeCorrect`, `Exclusion`, `Phases`, `Consistency` | `Spec => []TypeOK`, `[]MutexInv`, `[]PhaseInv`, `[]RoomsConsistent` |
| `MemListIsSafe` | `REQ_MEM_LIST` never reads `clients[0]` of a room without clients, the "will be ok" of handler.go:378 |
| `HistoryInvariance` | `Spec => []HInv` |
| `LoopsServeNow`, `SameOrder` | `Spec => []LoopsCurrent`, `[]ChatOrder` |
| `Quietness` | no goroutine is active in a process that does not run |
| `Refinement` | `Spec => TableSpec` |

`IInv` is the conjunction of the four invariants, and they need each other. That
`memCnt` counts the clients is only true up to the goroutine between the two
assignments (`CountLag`), of which there is one because of `MutexInv`; that this
goroutine can do its second assignment needs the room to be there still
(`PhaseInv`), which holds because nobody else is inside; that no room is empty
needs `memCnt = 1` before the decrement to mean one client. Each action has a step
lemma with one step per conjunct that it can disturb. A crash is one lemma
(`FreshProcess`): what is left is what a start finds. Removing a position
(`RemoveAtType`) and the search loop of `QUIT_THE_ROOM` (`QuitIndexInRange`: it stops
inside the sequence, so the slice expression at handler.go:266 cannot panic) are
lemmas of their own.

`HInv` is about what was written, and rests on `IInv`. A chat message is numbered
when its goroutine is started, and no two goroutines handle the same one
(`Numbered`); a goroutine writes nothing before its loop, and chat messages only for
a chat (`Kinds`). Since `WRITE` keeps the map locked during its loop, nobody joins or
quits meanwhile, so what was written and what is left of the loop make up the members
of this moment (`LoopsCurrent`); and no other chat message comes after those of the
loop at any address (`OneRun`). So each loop puts its messages in one place of the
order, the same for every member, although the goroutines run in any order. The
lists of rooms and members are written by loops too, and `LoopsCurrent` says the same
of them; that others may come between two of their answers is why `OneRun` is about
chats only.

The refinement maps a look-up that finds no room to `Find` (`Seeks` are the goroutines
that are about to create what they have missed), a step that changes a room's clients to
`Create`, `Enter` or `Leave`, a panic to `Freeze`, the end of the process to `Vanish`, and
everything else to a stutter. The interesting stutter is `QuitCount`: the room that it
deletes must have no clients left, which is `RoomsConsistent`. That a room changes only
while the table is neither frozen nor stopped is mutual exclusion together with
`Quietness`.

### The accounts (`AccountsProofs`)

From `AccountsAssumption`, for a table without a key: `TypeCorrect` (`[]TypeOK`), `Truth`
(`[]VerdictsAreTrue`), `SignUpsHold` (`[]SignedUpCanLogIn`) and `Refinement` (`Spec =>
BookSpec`). No step changes the id or the password of a row, or removes one (`Extends`).
So what a goroutine has found out about the table stays true until it tells it
(`Pending`), and what a client was told stays true for good. For `SignedUpCanLogIn` a
second row has to be excluded: of an id that is not `raced` there is one row at most, or
one sign-up between `SELECT COUNT` and `INSERT`, and never both (`Alone`).

In the refinement, finding an id free, giving up and storing a row are `Find`, `GiveUp` and
`Open`; telling `SIGNIN_SUCCESS` is `Grant`, and everything else is a stutter. That an
account is opened only by a finder of a free id, and that only its own handler tells of it,
is what a reader of the table could not see from its rows.

### The clock-in (`ClockInProofs`)

From `ClockInAssumption`: `ClockInvariance`, `TypeCorrect` (`[]TypeOK`),
`DaysDoNotMix` (`[]FieldsOfTheDay`) and `Finality` (`[]AnnouncedIsFinal`).
A clock-in that was not caught still runs on the day of its datagram (`Setter`): the
date that it computes from two readings is that day. A question is about a day before
today (`Getter`), and stays so, as days only go forward (`Calendar` is the arithmetic:
a tick into the night stays in the day, and the date minus one at night is the day). A
write therefore touches rows of today and an announcement speaks of rows of the past
(`Past`), which gives both properties; that `UPDATE` keeps dates and other days' rows
is the lemma `Update`.

`ChampionInvariance` and `LastOneStands` (`[]ChampionIsLatest`) add two invariants.
`Queued`: the clock-ins are in the order of their slots, and while an undisturbed one
exists nobody with a later number is at work before it ends, nor anybody who will
write to its day, as whoever comes on a later day computes a later date.
`Champions`: of an undisturbed clock-in that no other follows on its day, a goroutine
is either still on its way, with the connections it needs and with the part of the
row that it has written (`OnItsWay`), or the row is its own (`Stands`). Nobody else
writes to that row: those before it were done when it came, or it would be disturbed.

### Contexts and the pool (`ConnProofs`)

From `ConnAssumption`: `ConnInvariance`, `ConnTypes` (`[]ConnTypeOK`), `NoDoubleClose`
(`[]ClosedOnce`), `NoDoubleExecution` (`[]AtMostOnce`) and `NoStrayCancel`
(`[]CancelsOwnCall`). None of the three properties is inductive: each depends on what
the call still has to do. `Plan` says that of `caller.todo`: the three steps of a
cleanup stay together, no step up to a write comes after a write, and whatever tells
the watcher of a context has `finish` before any step in which no watcher may be at
work. On this rest

* `Closing`: of caller and watcher at most one is about to close the channel, the one
  whose `TrySet` succeeded, and until then it is open;
* `Executing`: before the write the server has acted only on tries that were counted as made
  `again`, and so it is when `database/sql` is to try once more (`badConn`); after the write
  it has acted once more at most;
* `Watched`: as long as a connection is open, its watcher knows of no context but that
  of the call that uses it, and that call has not finished.

`ErrorsAreTrue` (`[]TellsCancellation`) needs to know why a connection was closed.
`Telling` keeps the reason: a watcher notes its context before it closes anything
(`Canceling`), and the connection of a call has noted no context but the call's
(`OwnContext`, by `Watched`); the socket goes after `closed` is set (`Sockets`). So a call
that still has to talk and finds its connection closed (`Hurt`) has a context that is
done, or has lost the server or met a fault (`ClosedForAReason`, `Lost`), and the error
names which (`Reasoned`). `ClosedOnce` is about the channel; how often the network
connection is closed is not counted.

### The login (`DriverProofs`)

`LoginInvariance` (`Spec => []AuthInv`), `LoginTypes`, `NothingInTheClear`
(`[]ClearOnlyWhenAllowed`) and `RightPasswordLogsIn` (`[]LoginCompletes`), for every
configuration and account. Driver and server alternate, so that where the driver is,
what the server waits for and which packet is under way are one of eight situations
(`Phase`). What carries the proof is `Agreed`: from the moment the server has judged a
response, both sides mean the same plugin and the same challenge, also when a
switch came with a new challenge or, for an old server, with none at all. The verdict
is then that of the password (`Judged`), and a login that fails with the right one
has been refused by the configuration or had a password that the driver cannot prove
(`Reason`, with `Unprovable`).

### The commands (`DriverProofs`)

From `SessionAssumption`, for any number of commands, rows and result sets and any
modulus of the sequence numbers: `SessionTypes`, `TypesHold` (`[]TypeOK` of Driver),
`SessionInvariance` (`Spec => []SessionInv`), `NothingLeft` (`[]InSync`), `NobodyWaits`
(`[]WaitsForSomething`), `OwnAnswers` (`[]AnswersMatch`) and `TrueResults`
(`ResultsAreTrue` until one of the two accidents).

The answers of the server are the runs of a small automaton: `Step` says which packet
leads from which stage of an answer to which, `Run` that a sequence of packets does.
The stages are also what the routines of the driver expect: `Expects` reads
off `op`, `todo` and the open `Rows` at which stage the driver believes the answer to be.
The invariant is that what is on its way (in the stream, and still to be sent by the
server) runs from that stage to the end of the answer (`Ahead`); each routine takes one
packet and moves both to the next stage. A call that has returned expects the end, so
nothing is left; a call that still reads does not, so something comes; and of what it
reads all belongs to its command (`Own`).

The two accidents of section 3, a wide row that was skipped and a row asked for too many,
end this (`Spoilt`): driver and server disagree from then on, and `InSync`,
`WaitsForSomething` and the second half of `ResultsAreTrue` exempt the connection.
`AnswersMatch` does not, and has an invariant of its own, `Leftovers`. While the first
packet of an answer is awaited (`Virgin`), the driver expects the number 1, and what is
left of earlier answers has a place of 2 or more, as an answer is left unread only behind
its first packet; once the first packet was taken in step (`Begun`), nothing of an earlier
answer is left in front, for the server sends in order. So a leftover is accepted only if
its place agrees with 1 modulo `SeqMod`, which is behind the first `SeqMod` packets of its
answer (`ComesRound`); otherwise it is `ErrPktSync`, and whatever the call returns then is
not a packet of an earlier command taken for an answer.

### The client (`ClientProofs`)

From `ClientAssumption` and `ListAssumption` (the bound `MaxList` leaves room for each room
once): `ClientInvariance` (`Spec => []IInv`), `ClientTypesHold` (`[]TypeOK`),
`MemberOfTheOpenChat` (`[]MemberWhereChatIsOpen`), `ListInvariance` (`Spec => []LInv`) and
`RoomsOfOneInstant` (`[]ListOfOneInstant`).

*Members.* The property speaks of the moments when all is quiet; in between, the requests
under way count as if they were handled. `Due(r)` is how often the user will be in room
`r` once all of them are: his memberships, and the JOINs and CREATEs less the QUITs under
way, in whatever order they will be handled. The invariant `Memberships` is `Due(r) =
Open(r) + adrift[r]`, where `Open` is 1 for the chat page that he sees: what a tap sends
changes both sides alike (`Posted`), a request that leaves the queue at any place is
either handled, which moves it from one part of `Due` to another, or lost, which `adrift`
counts (`Handled`). A QUIT that finds no membership removes somebody else or nobody: that
is counted too.

*List.* Until the list was asked for twice, either it is empty and one request that
will fill it is under way (`Asked`), or what it shows and the answers under way are
disjoint, without repetition, and together the rooms of the instant of the answer
(`Answering`). That `CREATE_ROOM` answers with a room too is why `AnswerDue`, and with
it `overlap`, has to look for it.

### The packets (`PacketIOProofs`)

From `PacketIOAssumption`, for every packet limit, size of the buffer, answer and command:
`PacketInvariance` (`Spec => []IInv`), `PacketTypes` (`[]TypeOK`), `RowsStay`
(`[]RowIntact`), `NothingLost` (`[]InStep`) and `CommandsFramed` (`[]WrittenAsFramed`).

*What is on the wire.* The packets of a payload and the rows of an answer are recursive
functions (`Packets`, `Rows`), from the last byte and the last row backwards. That such a
function exists, unfolds once (`PacketsAt`, `RowsAt`) and yields sequences of cells
(`PacketsTyped`, `RowsTyped`) is proved with a smallest counterexample: a set of numbers
that is not empty has a least one, which the library has as `WFMin`.

*Reading.* Where the reader is in the answer follows from `reader.msg` and the length
of `prevData`. `Reading` says that what is in the buffer and on the wire is exactly what
the wire format has from there on (`Between` two rows, or `Within` one), and an end of
the whole answer. `FillKeeps` shows that `fill` keeps it, however many bytes come,
whether the array grows, and also where source and destination of its copy are the
same array; `ReadKeeps` cuts off what `readNext` returns. One packet is then one
unfolding of the recursion (`RowFacts`).

*Rows that stay.* `fill` writes to the array of `dbuf` that `flip` selects, or to a new
one. While `Close` drops packets, the row of the caller lies in neither; after
`Next` it may lie in the selected one, but then it is not in the other one, to which
`Close` flips (`RowApart`). This needs that the buffer has left that other array once a
packet was read (`BufferApart`), except in front of the first packet of an answer, when
the caller has no row yet (`Untouched`). That the two entries of `dbuf` differ, as an
array too large to be kept is not entered, is part of `Fit`.

*Commands.* What the server has got, followed by the packets of the rest, is the framed
command (`Writing`), and behind the place of the next header the array still holds what
was put there: each header overwrites the last byte of the part before it, which is sent
by then. So the loop ends with the framed command, also when its last packet is
empty, and a round that fails before its first byte has left something out.

### The codecs (`CodecsProofs`)

From `CodecsAssumption`, which says of the inputs only what the formats can carry (a byte is
below 256, a text has at most 2^31 - 1 of them, a number fits its column, a number among
the arguments is below 2^31, as the numbers of `Values` are, and `maxAllowedPacket` is above
8, or no part of a long argument would have room): `FieldsCut` (`[]FieldsIntact`), `RowsBack`
(`[]RowsIntact`) and `ArgumentsBack` (`[]ArgumentsArrive`). That the result of a task is its
conversion (`CodecsInvariance`) is by the one action; what the conversions do to each other is
the content of these three.

What the conversions compute is recursive in the length of their input. The library's
induction theorems take an operator, which no prover here instantiates, so induction is done
on sets of positions (`Induction`, `UpTo`), a recursive function is built from a table of its
steps (`Recursion`), and two of them are equal when they start alike and take the same steps
(`SameChain`).

*Rows.* What the writer produces is `FlattenSeq` of one part for each column. Where a part
begins is `Located`; `TextPartBack` and `BinaryPartBack` say that the reader, at that place,
takes exactly this part, whatever follows it. Below them are the lengths of one, two,
three and eight bytes (`LengthBack`, on `NumbersBack`), two's complement (`SignsBack`) and the
bitmap of the NULLs (`BitBack`).

*Arguments.* An execute packet is such parts again (`ArgumentPartBack`), and what is too long
for it goes ahead in pieces that put together are the argument, each shorter than
`maxAllowedPacket` (`LongBack`): `ExecuteBack`. The literals of an interpolated query are read
by the server's automaton, `LexFrom`: behind each character of a literal it has one character
more of the text, in either escape mode (`CharacterBack`), behind the closing quote the text
(`LiteralBack`), and what follows a literal ends it (`PieceBack`). `QueryBack` puts two pieces
together, and shows that a query is given up only when it might not fit `maxAllowedPacket`
with every character escaped.

*Fields.* `CompressStr` of texts put together is the texts, compressed, put together
(`CompressedParts`), and the first and the last '/' of what `Joined` makes of fields without one
are where the fields end (`FirstField`, `LastField`). A login is cut right also with '/' in the
name and the password, as only its first and its last field matter (`LoginFields`).

### Model-checked only

* Liveness, as fairness is out of the prover's reach: `HandledOrWedged`,
  `CancelledReturns`, `WatchersEnd`, `RefreshEnds`.
* The first half of `ResultsAreTrue` (`Next` reports the end behind exactly the rows of the
  set) on a connection that has met one of the two accidents.
* `TemporalsIntact` and `DsnRoundTrip` of Codecs, at the boundaries of their formats.

## 6. Observed in the code, not among the runs

What one reads here follows from the code at once and no property is spent on it.

* `PrintStatus` iterates over `rooms` without `roomMutex` after a login, a join and a
  creation (handler.go:128, 226, 340); after a quit and before a listing the lock is held.
* A login with an unknown id is not answered (handler.go:421), nor is anybody whose query
  fails, though handler.go:410-413 and 439-443 say that the status of failure is returned.
* Two sign-ups with one id both succeed when they come at the same time, unless the table
  has a key that the repository does not show (handler.go:446-458), against the comment at
  handler.go:439-443; the one that a login then reads is up to the database.
* One client alone can stop the room service: Go with an empty code opens a chat page, and
  a message sent there asks for a room that no one can create (MainPage.qml:245-276,
  handler.go:169).
* A packet of a `LOAD DATA` file that is not written makes `database/sql` send the
  statement again (infile.go:157-172), and so does the read-only rejection of the second
  statement of a query (packets.go:574-588) after the first was executed. errors.go:33-37
  reserves the error behind the first of these for connections where nothing was sent.
* A refused execute packet leaves the long data that was sent ahead of it with the statement.
* All connections share the `cfg` of their connector: a `preferred` TLS that one login
  gives up is given up for all later ones (packets.go:227).
* `getSystemVar` returns a slice of the read buffer that the following
  `readUntilEOF` may overwrite (connection.go:434).
* Interpolating a time later than the year 9999 indexes past the tables of digits
  (connection.go:242).
* A `maxAllowedPacket` of 8 or less leaves no room for data in the packets of long data
  (packets.go:856).

## 7. What is not modelled

* *Server.* Datagrams that cannot be parsed in the concurrent models (Framing gives
  them a result of their own, `Panics`); `lastTime`, `userLastLtime`, `userCnt`,
  `roomCnt`, `userCon`, which are written, or printed, and never used; the exact time
  of a clock-in within a slot; the look-up of the champion's name; memory, the size of
  datagrams, socket errors (logged and ignored).
* *MySQL.* Collations (which ids are equal), character sets, transactions: each query is
  atomic, as with autocommit. Its side of the protocol is external.
* *Client.* The login page beyond its requests, the texts of the chat, the rows of the
  member list (an answer does not say which room it is about, so that there is no
  right place to compare with), dialogs, layout and animation.
* *Driver.* Hashes, RSA and TLS themselves; the registries of callbacks, dials, keys and
  TLS configurations behind their locks; collations and column metadata (tables); a change
  of the escape mode between two statements; floats and 64-bit integers, conversion of Go
  values (`converter.ConvertValue`, `NullTime.Scan`); deprecated entry points that only
  forward.
* *UI components, logo.* No state that another part reads.
