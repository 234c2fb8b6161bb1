--------------------------------- MODULE Dsn --------------------------------
(***************************************************************************)
(* The data source name of the MySQL driver (dsn.go): how a configuration  *)
(* is written as one string, and how that string is taken apart again.     *)
(* A string is a sequence of characters; a name or a value in which no     *)
(* character matters stands as one of them.                                *)
(***************************************************************************)
EXTENDS Integers, Sequences, FiniteSets, SequencesExt

Invalid == [user |-> <<"invalid">>]

Bools == {"allowAllFiles", "allowCleartextPasswords", "allowNativePasswords", "allowOldPasswords",
          "clientFoundRows", "columnsWithAlias", "interpolateParams", "multiStatements", "parseTime",
          "rejectReadOnly"}
Durations == {"readTimeout", "timeout", "writeTimeout"}

\* The options, in the order in which FormatDSN writes them.
Options == <<"allowAllFiles", "allowCleartextPasswords", "allowNativePasswords", "allowOldPasswords",
  "clientFoundRows", "collation", "columnsWithAlias", "interpolateParams", "loc", "multiStatements",
  "parseTime", "readTimeout", "rejectReadOnly", "serverPubKey", "timeout", "tls", "writeTimeout",
  "maxAllowedPacket">>

\* NewConfig.
Default ==
  [o \in Range(Options) |->
     CASE o \in Bools \ {"allowNativePasswords"} -> <<"false">>
       [] o = "allowNativePasswords" -> <<"true">>
       [] o \in Durations -> <<"0s">>
       [] o = "collation" -> <<"utf8mb4_general_ci">>
       [] o = "loc" -> <<"UTC">>
       [] o = "maxAllowedPacket" -> <<"4194304">>
       [] OTHER -> <<>>]

NewConfig == [user |-> <<>>, passwd |-> <<>>, net |-> <<>>, addr |-> <<>>, db |-> <<>>,
              opts |-> Default, params |-> <<>>]

\* What url.QueryEscape makes of the characters that mean something here.
Escapes == [x \in {"/", "@", ":", "(", ")", "?", "&", "="} |-> "%" \o x]

QueryEscape(s) == [i \in DOMAIN s |-> IF s[i] \in DOMAIN Escapes THEN Escapes[s[i]] ELSE s[i]]

QueryUnescape(s) ==
  [i \in DOMAIN s |-> IF \E x \in DOMAIN Escapes : Escapes[x] = s[i]
                      THEN CHOOSE x \in DOMAIN Escapes : Escapes[x] = s[i] ELSE s[i]]

Escaped == {"loc", "serverPubKey", "tls"}

-----------------------------------------------------------------------------
(* Writing.                                                                *)

Upto(s, i) == SubSeq(s, 1, i)
After(s, i) == SubSeq(s, i + 1, Len(s))

FormatAddress(cfg) ==
  (IF cfg.user = <<>> THEN <<>>
   ELSE cfg.user \o (IF cfg.passwd = <<>> THEN <<>> ELSE <<":">> \o cfg.passwd) \o <<"@">>)
  \o (IF cfg.net = <<>> THEN <<>>
      ELSE cfg.net \o (IF cfg.addr = <<>> THEN <<>> ELSE <<"(">> \o cfg.addr \o <<")">>))

\* The options that differ from their defaults.
FormatOptions(cfg) ==
  LET said == SelectSeq(Options, LAMBDA o : cfg.opts[o] # Default[o] /\ cfg.opts[o] # <<>>)
  IN  [i \in DOMAIN said |->
         <<said[i], "=">> \o IF said[i] \in Escaped THEN QueryEscape(cfg.opts[said[i]]) ELSE cfg.opts[said[i]]]

\* The other parameters: pairs of a name and a value, sorted by name.
FormatParams(cfg) ==
  [i \in DOMAIN cfg.params |-> <<cfg.params[i][1], "=">> \o QueryEscape(cfg.params[i][2])]

FormatDSN(cfg) ==
  LET all == FormatOptions(cfg) \o FormatParams(cfg)
  IN  FormatAddress(cfg) \o <<"/">> \o cfg.db
        \o FlattenSeq([i \in DOMAIN all |-> <<IF i = 1 THEN "?" ELSE "&">> \o all[i]])

-----------------------------------------------------------------------------
(* Reading.                                                                *)

At(s, c) == {i \in DOMAIN s : s[i] = c}
First(s, c) == IF At(s, c) = {} THEN Len(s) + 1 ELSE CHOOSE i \in At(s, c) : \A j \in At(s, c) : i <= j
LastAt(s, c) == IF At(s, c) = {} THEN 0 ELSE CHOOSE i \in At(s, c) : \A j \in At(s, c) : i >= j

\* Mutant: the first '@' ends the password.
ParseUserFirst(left) ==
  LET j == First(left, "@") % (Len(left) + 1)
      u == Upto(left, j - 1)
  IN  [user |-> Upto(u, First(u, ":") - 1), passwd |-> After(u, First(u, ":")), n |-> j]

\* username[:password]@ up to the last '@'.
ParseUser(left) ==
  LET j == LastAt(left, "@")
      u == Upto(left, j - 1)
  IN  [user |-> Upto(u, First(u, ":") - 1), passwd |-> After(u, First(u, ":")), n |-> j]

\* protocol[(address)]
ParseProtocol(s) ==
  LET k == First(s, "(") IN
  [net |-> Upto(s, k - 1), addr |-> SubSeq(s, k + 1, Len(s) - 1), ok |-> k > Len(s) \/ Last(s) = ")"]

Split(s, c) ==
  LET ends == {0, Len(s) + 1} \cup At(s, c)
      next(i) == CHOOSE j \in ends : j > i /\ \A x \in ends : x > i => j <= x
      starts == SetToSortSeq(ends \ {Len(s) + 1}, LAMBDA a, b : a < b)
  IN  [i \in DOMAIN starts |-> SubSeq(s, starts[i] + 1, next(starts[i]) - 1)]

ReadBool(v) ==
  CASE v \in {<<"1">>, <<"true">>, <<"TRUE">>, <<"True">>} -> <<"true">>
    [] v \in {<<"0">>, <<"false">>, <<"FALSE">>, <<"False">>} -> <<"false">>
    [] OTHER -> <<>>

\* The cases of parseDSNParams for one name and value; numbers, durations and
\* locations are ones that Go's parsers accept.
ParseParam(cfg, name, v) ==
  CASE cfg = Invalid \/ name \in {"compress", "strict"} -> Invalid
    [] cfg # Invalid /\ name \in Bools ->
         IF ReadBool(v) = <<>> THEN Invalid ELSE [cfg EXCEPT !.opts[name] = ReadBool(v)]
    [] cfg # Invalid /\ name = "tls" ->
         [cfg EXCEPT !.opts[name] = IF ReadBool(v) # <<>> THEN ReadBool(v) ELSE QueryUnescape(v)]
    [] cfg # Invalid /\ name \in {"loc", "serverPubKey"} -> [cfg EXCEPT !.opts[name] = QueryUnescape(v)]
    [] cfg # Invalid /\ name \in Durations \cup {"collation", "maxAllowedPacket"} ->
         [cfg EXCEPT !.opts[name] = v]
    [] OTHER ->
         LET same == SelectSeq(cfg.params, LAMBDA p : p[1] # name)
         IN  [cfg EXCEPT !.params = Append(same, <<name, QueryUnescape(v)>>)]

ParseParams(cfg, s) ==
  FoldLeft(LAMBDA c, p : IF First(p, "=") > Len(p) THEN c
                         ELSE ParseParam(c, Upto(p, First(p, "=") - 1)[1], After(p, First(p, "="))),
           cfg, Split(s, "&"))

\* net.SplitHostPort: host:port, [host]:port or an error (external).
HasPort(addr) ==
  \/ First(addr, ":") = LastAt(addr, ":") /\ At(addr, "[") \cup At(addr, "]") = {}
  \/ /\ addr # <<>> /\ addr[1] = "["
     /\ At(addr, "[") = {1}
     /\ Cardinality(At(addr, "]")) = 1
     /\ LastAt(addr, ":") = LastAt(addr, "]") + 1

\* ensureHavePort.
EnsureHavePort(addr) ==
  IF HasPort(addr) THEN addr
  ELSE IF At(addr, ":") = {} THEN addr \o <<":", "3306">>
  ELSE <<"[">> \o addr \o <<"]", ":", "3306">>

UnsafeCollations == {<<"big5_chinese_ci">>, <<"gbk_chinese_ci">>}
KnownTLS == {<<>>, <<"false">>, <<"true">>, <<"skip-verify">>, <<"preferred">>, <<"cus", "/", "tom">>}
KnownKeys == {<<>>, <<"key">>}

Normalize(cfg) ==
  LET net  == IF cfg.net = <<>> THEN <<"tcp">> ELSE cfg.net
      addr == CASE cfg.addr = <<>> /\ net = <<"tcp">> -> <<"127.0.0.1", ":", "3306">>
                [] cfg.addr = <<>> /\ net = <<"unix">> -> <<"/", "tmp">>
                [] cfg.addr # <<>> /\ net = <<"tcp">> -> EnsureHavePort(cfg.addr)
                [] OTHER -> cfg.addr
  IN  IF \/ cfg.opts["interpolateParams"] = <<"true">> /\ cfg.opts["collation"] \in UnsafeCollations
         \/ addr = <<>>
         \/ cfg.opts["tls"] \notin KnownTLS
         \/ cfg.opts["serverPubKey"] \notin KnownKeys
      THEN Invalid ELSE [cfg EXCEPT !.net = net, !.addr = addr]

ParseDSN(dsn) ==
  LET i     == LastAt(dsn, "/")
      user  == ParseUser(Upto(dsn, i - 1))
      proto == ParseProtocol(SubSeq(dsn, user.n + 1, i - 1))
      right == After(dsn, i)
      q     == First(right, "?")
      cfg   == [NewConfig EXCEPT !.user = user.user, !.passwd = user.passwd,
                                 !.net = proto.net, !.addr = proto.addr, !.db = Upto(right, q - 1)]
      all   == IF q > Len(right) THEN cfg ELSE ParseParams(cfg, After(right, q))
  IN  CASE dsn = <<>> -> Normalize(NewConfig)
        [] dsn # <<>> /\ (i = 0 \/ ~proto.ok) -> Invalid
        [] OTHER -> IF all = Invalid THEN Invalid ELSE Normalize(all)

=============================================================================
