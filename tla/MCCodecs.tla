------------------------------ MODULE MCCodecs ------------------------------
(***************************************************************************)
(* Inputs of Codecs around the boundaries of each format.                  *)
(***************************************************************************)
EXTENDS Codecs

SmallChar == {"a", "b", "i", "n", " ", "\t", "\n", "/", "0", "1", "3"}

SmallLetter == {"a", "'", "\"", "\\", "nul", "newline", "?", "0", "n", "r", "Z", "x", "y", "NULL", "end"}

Text(n) == [i \in 1..n |-> (7 * i) % 256]

Strings == {Null} \cup {Bytes(Text(n)) : n \in {0, 250, 251, 252, 65535, 65536}}

SmallTextRows == {<<v, w, Bytes(<<1>>)>> : v, w \in Strings}

SmallColumns == {[type |-> "bytes", unsigned |-> FALSE]}
                  \cup [type : {"tiny", "short"}, unsigned : BOOLEAN]

ValuesOf(col) ==
  {Null} \cup
    IF col.type = "bytes" THEN {Bytes(<<>>), Bytes(<<1, 2>>)}
    ELSE LET top == 2^(8 * Width(col.type)) IN
         {Num(n) : n \in IF col.unsigned THEN {0, top - 1} ELSE {-(top \div 2), -1, top \div 2 - 1}}

\* With eight columns the bitmap has a second byte.
SmallBinaryRows ==
  UNION {{[cols |-> [i \in 1..8 |-> col], row |-> [i \in 1..8 |-> IF i \in nulls THEN Null ELSE v]] :
            v \in ValuesOf(col), nulls \in {{}, {1}, {6}, {7}, {8}, {6, 7}}} : col \in SmallColumns}

Arguments == {Null, Num(0), Num(70000), Bytes(<<>>), Bytes(Text(5)), Bytes(Text(6)), Bytes(Text(20))}

Characters == {"a", "'", "\"", "\\", "nul", "newline", "?"}

Literals == {Null} \cup {Bytes(s) : s \in UNION {[1..n -> Characters] : n \in 0..2}}

\* Two arguments take 16 bytes without their values, two numbers 32.
SmallExecutions == {[args |-> <<a, b>>, max |-> m] : a, b \in Arguments, m \in {12, 16, 24, 31, 32, 64}}

SmallQueries ==
  {[args |-> <<a, b>>, nb |-> nb, max |-> m] : a, b \in Literals, nb \in BOOLEAN, m \in {10, 64}}

Dates == {<<0, 0, 0, 0, 0, 0, 0>>, <<2019, 0, 1, 0, 0, 0, 0>>, <<2019, 5, 0, 0, 0, 0, 0>>}
           \cup {<<2019, m, 31, h, 59, 9, us>> : m \in {1, 12}, h \in {0, 23}, us \in {0, 500000, 123456}}
           \cup {<<2020, 2, 29, 0, 0, 0, us>> : us \in {0, 900000}}

Times == {<<neg, d, h, 0, s, us>> :
            neg \in {0, 1}, d \in {0, 3, 4, 34}, h \in {0, 3, 4, 22}, s \in {0, 59}, us \in {0, 120000}}

\* A column of this length holds the date: no more decimals than it has.
FitsDate(f, length) ==
  CASE length = 10 -> \A i \in 4..7 : f[i] = 0
    [] length = 19 -> f[7] = 0
    [] OTHER -> f[7] % 10^(26 - length) = 0

FitsTime(f, length) ==
  /\ length = 8 => f[6] = 0
  /\ length > 8 => f[6] % 10^(15 - length) = 0
  /\ f[1] = 1 => f # <<1, 0, 0, 0, 0, 0>>

SmallDateColumns == {c \in [f : Dates, length : Lengths] : FitsDate(c.f, c.length)}
SmallTimeColumns == {c \in [f : Times, length : {8, 11, 15}] : FitsTime(c.f, c.length)}

Users == {<<>>, <<"u">>, <<"u", "@">>, <<"/", "u">>}
Passwords == {<<>>, <<"p">>, <<"p", ":", "@", "/">>, <<"@", "p", "(">>}
Networks == {[net |-> <<>>, addr |-> <<>>], [net |-> <<"tcp">>, addr |-> <<"host">>],
             [net |-> <<"tcp">>, addr |-> <<"[", ":", ":", "1", "]", ":", "80">>],
             [net |-> <<"tcp">>, addr |-> <<":", ":", "1">>], [net |-> <<"unix">>, addr |-> <<>>],
             [net |-> <<"unix">>, addr |-> <<"/", "tmp", "(", ")", ":">>],
             [net |-> <<"unix">>, addr |-> <<"@", "mysql">>],
             [net |-> <<"unix">>, addr |-> <<"/", "tmp", "@", "own", "(", "x">>],
             [net |-> <<"own">>, addr |-> <<>>]}
OptionSets == {Default,
  [Default EXCEPT !["tls"] = <<"cus", "/", "tom">>, !["loc"] = <<"Asia", "/", "Shanghai">>,
                  !["allowNativePasswords"] = <<"false">>],
  [Default EXCEPT !["tls"] = <<"true">>, !["timeout"] = <<"5s">>, !["parseTime"] = <<"true">>,
                  !["maxAllowedPacket"] = <<"0">>],
  [Default EXCEPT !["collation"] = <<"gbk_chinese_ci">>],
  [Default EXCEPT !["collation"] = <<"gbk_chinese_ci">>, !["interpolateParams"] = <<"true">>],
  [Default EXCEPT !["serverPubKey"] = <<"lost">>]}

SmallConfigs ==
  {[user |-> u, passwd |-> p, net |-> n.net, addr |-> n.addr, db |-> <<"db">>, opts |-> o, params |-> q] :
     u \in Users, p \in Passwords, n \in Networks, o \in OptionSets,
     q \in {<<>>, << <<"charset", <<"utf8">>>>, <<"x", <<"a", "&", "=", "/">>>> >>}}

Words == {<<"a">>, <<"a", " ", "b">>, <<"a", "/", "b">>, <<"\n">>}

SmallChats == [room : Words, id : {<<"i">>, <<"i", "\t">>}, name : {<<"n">>, <<"n", "/">>}, text : Words]

=============================================================================
