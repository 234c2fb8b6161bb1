-------------------------------- MODULE Auth --------------------------------
(***************************************************************************)
(* How the MySQL driver logs in: connector.go Connect up to                *)
(* handleAuthResult, auth.go, and the packets of the connection phase.     *)
(* A seed is the number of the challenge it comes from (1: the handshake,  *)
(* 2: a request to switch the plugin); hashes and RSA are perfect, so a    *)
(* response is known by its form, its password and its challenge.  A       *)
(* password is empty, short ("p", "q") or of 20 bytes or more ("long").    *)
(* The server is the environment: MySQL as its protocol documentation has  *)
(* it.                                                                     *)
(***************************************************************************)
EXTENDS Naturals, Sequences

Caching == "caching_sha2_password"
Old     == "mysql_old_password"
Clear   == "mysql_clear_password"
Native  == "mysql_native_password"
Sha256  == "sha256_password"
Dialog  == "dialog"                      \* any plugin the driver does not know
Plugin  == {Caching, Old, Clear, Native, Sha256, Dialog}

VARIABLES
  cfg,      \* Config: tls, unix, allowed plugins, pubKey, passwd
  account,  \* what the server knows: ssl, announced plugin, plugin, passwd, cached
  auth,     \* the driver: pc, plugin, seed (oldAuthData), tls (the channel is TLS)
  server,   \* the server: pc, seed
  packet,   \* the packet in flight (the phase is strictly alternating), or None
  sent      \* history: the secrets the driver has written, and how

authVars == <<cfg, account, auth, server, packet, sent>>

None == [type |-> "None"]

Config ==
  [tls : {"off", "on", "preferred"}, unix : BOOLEAN, old : BOOLEAN, clear : BOOLEAN,
   native : BOOLEAN, pubKey : BOOLEAN, passwd : {"p", "q", "long", ""}]

\* edge: one of the old passwords for which scrambleOldPassword does not compute
\* what the server does (the "wontfix" cases of auth()).
Account ==
  {a \in [ssl : BOOLEAN, announced : Plugin \cup {""}, plugin : Plugin \ {Dialog},
          passwd : {"p", "long", ""}, cached : BOOLEAN, edge : BOOLEAN] :
     a.edge => a.plugin = Old}

FromServer(type, plugin, seed) == [type |-> type, plugin |-> plugin, seed |-> seed]

NewAuth   == [pc |-> "handshake", plugin |-> "", seed |-> 1, tls |-> FALSE]
NewServer == [pc |-> "response", seed |-> 1]

AuthInit ==
  /\ cfg \in Config
  /\ account \in Account
  /\ auth = NewAuth
  /\ server = NewServer
  /\ packet = FromServer("Handshake", account.announced, 1)
  /\ sent = {}

-----------------------------------------------------------------------------
(* The responses of auth.go.                                               *)

\* The plugins for which auth() returns an error.
Refused(plugin) ==
  \/ plugin = Old /\ ~cfg.old
  \/ plugin = Clear /\ ~cfg.clear
  \/ plugin = Native /\ ~cfg.native
  \/ plugin = Dialog

\* Mutant: the mode "preferred" is taken for TLS when the server has none.
TrustedByConfig(tls) == cfg.tls # "off" \/ cfg.unix

\* cfg.tls # nil after the handshake, or a unix socket.
Trusted(tls) == tls \/ cfg.unix

\* A response to a challenge: nul says that the challenge was used with the NUL
\* byte that ends it in a request to switch the plugin.
Response(form, plugin, seed, nul) ==
  [type |-> "Response", form |-> form, plugin |-> plugin, passwd |-> cfg.passwd,
   seed |-> seed, nul |-> nul]

\* The scrambles return nil for an empty password.
Scramble(plugin, seed, nul) ==
  Response(IF cfg.passwd = "" THEN "empty" ELSE "scramble", plugin, seed, nul)

Sha256Response(seed, nul, tls) ==
  Response(CASE cfg.passwd = ""              -> "empty"
             [] cfg.passwd # "" /\ Trusted(tls) -> "clear"
             [] OTHER -> IF cfg.pubKey THEN "encrypted" ELSE "askKey", Sha256, seed, nul)

\* auth(): the response to a challenge for a plugin that is not refused.  The
\* old and the native plugin cut the challenge to its 8 or 20 bytes.
AuthResponse(plugin, seed, nul, tls) ==
  CASE plugin = Caching         -> Scramble(plugin, seed, nul)
    [] plugin \in {Old, Native} -> Scramble(plugin, seed, FALSE)
    [] plugin = Clear           -> Response("clear", Clear, seed, nul)
    [] plugin = Sha256          -> Sha256Response(seed, nul, tls)

Write(response, tls) ==
  /\ packet' = response
  /\ sent' = sent \cup {[form |-> response.form, plugin |-> response.plugin,
                         secure |-> tls \/ cfg.unix]}

\* Connect returns an error; the connection is closed without COM_QUIT.
Fail ==
  /\ auth' = [auth EXCEPT !.pc = "failed"]
  /\ packet' = None
  /\ UNCHANGED sent

Succeed ==
  /\ auth' = [auth EXCEPT !.pc = "authenticated"]
  /\ packet' = None
  /\ UNCHANGED sent

-----------------------------------------------------------------------------
(* The driver.                                                             *)

Gets(pc, types) == auth.pc = pc /\ packet.type \in types

\* readHandshakePacket, auth and its second try with the default plugin,
\* writeHandshakeResponsePacket with the switch to TLS.
Handshake ==
  /\ Gets("handshake", {"Handshake"})
  /\ LET asked == IF packet.plugin = "" THEN Native ELSE packet.plugin
         plugin == IF Refused(asked) THEN Native ELSE asked
         tls == cfg.tls # "off" /\ account.ssl
     IN IF Refused(plugin) \/ (cfg.tls = "on" /\ ~account.ssl)
        THEN Fail
        ELSE /\ Write(AuthResponse(plugin, 1, FALSE, tls), tls)
             /\ auth' = [auth EXCEPT !.pc = "result", !.plugin = plugin, !.tls = tls]
  /\ UNCHANGED <<cfg, account, server>>

\* The reaction of handleAuthResult to a packet that is not a switch.
Conclude ==
  CASE packet.type = "ERR" -> Fail
    [] packet.type = "OK" -> Succeed
    [] packet.type = "FastOK" /\ auth.plugin = Caching ->
         /\ auth' = [auth EXCEPT !.pc = "ok"]
         /\ packet' = None
         /\ UNCHANGED sent
    [] packet.type = "FullAuth" /\ auth.plugin = Caching ->
         IF Trusted(auth.tls)
         THEN /\ Write(Response("clear", Caching, auth.seed, FALSE), auth.tls)
              /\ auth' = [auth EXCEPT !.pc = "ok"]
         ELSE IF cfg.pubKey
         THEN /\ Write(Response("encrypted", Caching, auth.seed, FALSE), auth.tls)
              /\ auth' = [auth EXCEPT !.pc = "ok"]
         ELSE /\ Write(Response("askKey", Caching, auth.seed, FALSE), auth.tls)
              /\ auth' = [auth EXCEPT !.pc = "key"]
    [] packet.type = "Key" /\ auth.plugin = Sha256 ->
         /\ Write(Response("encrypted", Sha256, auth.seed, FALSE), auth.tls)
         /\ auth' = [auth EXCEPT !.pc = "ok"]
    [] packet.type \in {"FastOK", "FullAuth", "Key"} /\ auth.plugin \notin {Caching, Sha256} ->
         Succeed
    [] OTHER -> Fail

\* readAuthResult for the first time, without a switch.
AuthResult ==
  /\ Gets("result", {"OK", "ERR", "FastOK", "FullAuth", "Key"})
  /\ Conclude
  /\ UNCHANGED <<cfg, account, server>>

\* Mutant: the new challenge stays in the read buffer only.
StaleSeed(p) == auth.seed

\* A switch of the plugin: the 20 bytes of the new challenge are copied into
\* oldAuthData, or the old one serves again when none is sent.
CopiedSeed(p) == IF p.seed = 0 THEN auth.seed ELSE p.seed

\* auth() is given the new challenge as it came, with the NUL behind it.
AuthSwitch ==
  /\ Gets("result", {"Switch"})
  /\ LET seed == CopiedSeed(packet)
         given == IF packet.seed = 0 THEN auth.seed ELSE packet.seed
     IN IF Refused(packet.plugin)
        THEN Fail
        ELSE /\ Write(AuthResponse(packet.plugin, given, packet.seed # 0, auth.tls), auth.tls)
             /\ auth' = [auth EXCEPT !.pc = "switched", !.plugin = packet.plugin,
                                     !.seed = seed]
  /\ UNCHANGED <<cfg, account, server>>

\* readAuthResult after a switch; a second switch is refused (ErrMalformPkt).
SwitchResult ==
  /\ Gets("switched", {"OK", "ERR", "FastOK", "FullAuth", "Key", "Switch"})
  /\ Conclude
  /\ UNCHANGED <<cfg, account, server>>

\* The key that was asked for, and the password encrypted with it.
PublicKey ==
  /\ Gets("key", {"Key"})
  /\ Write(Response("encrypted", Caching, auth.seed, FALSE), auth.tls)
  /\ auth' = [auth EXCEPT !.pc = "ok"]
  /\ UNCHANGED <<cfg, account, server>>

\* readResultOK.
FinalOK ==
  /\ Gets("ok", {"OK", "ERR"})
  /\ IF packet.type = "OK" THEN Succeed ELSE Fail
  /\ UNCHANGED <<cfg, account, server>>

AuthDriver ==
  Handshake \/ AuthResult \/ AuthSwitch \/ SwitchResult \/ PublicKey \/ FinalOK

-----------------------------------------------------------------------------
(* The server.                                                             *)

Reply(type, pc) ==
  /\ packet' = FromServer(type, account.plugin, server.seed)
  /\ server' = [server EXCEPT !.pc = pc]

Verdict(good) == IF good THEN Reply("OK", "done") ELSE Reply("ERR", "done")

\* A proof of the password for the current challenge.  A hash of the challenge
\* and its NUL is another hash; in the exclusive or of password and challenge the
\* NUL shows from the 21st byte on; the old scramble is wrong for some passwords.
Proves(r) ==
  /\ r.plugin = account.plugin
  /\ r.passwd = account.passwd
  /\ r.form \in {"scramble", "encrypted"} => r.seed = server.seed
  /\ r.form = "scramble" => ~account.edge /\ (r.plugin = Caching => ~r.nul)
  /\ r.form = "encrypted" => ~(r.nul /\ r.passwd = "long")

Judge(r) ==
  CASE r.form = "askKey" -> Reply("Key", "encrypted")
    [] account.plugin = Caching /\ r.form = "scramble" ->
         IF account.cached /\ Proves(r)
         THEN Reply("FastOK", "confirm")
         ELSE Reply("FullAuth", "full")
    [] OTHER -> Verdict(Proves(r))

\* The response to the handshake: judged, or the account needs another plugin.
\* A switch to the old plugin may come without a new challenge.
ServerResponse ==
  /\ server.pc = "response" /\ packet.type = "Response"
  /\ IF packet.plugin = account.plugin
     THEN Judge(packet)
     ELSE \E seed \in {2} \cup (IF account.plugin = Old THEN {0} ELSE {}) :
            /\ packet' = FromServer("Switch", account.plugin, seed)
            /\ server' = [pc |-> "switched", seed |-> IF seed = 0 THEN 1 ELSE seed]
  /\ UNCHANGED <<cfg, account, auth, sent>>

\* Later responses; the second OK of a fast authentication follows by itself.
ServerContinue ==
  /\ \/ /\ server.pc \in {"switched", "full"} /\ packet.type = "Response"
        /\ IF server.pc = "full" /\ packet.form # "askKey"
           THEN Verdict(Proves(packet))
           ELSE Judge(packet)
     \/ server.pc = "encrypted" /\ packet.type = "Response" /\ Verdict(Proves(packet))
     \/ server.pc = "confirm" /\ packet = None /\ Reply("OK", "done")
  /\ UNCHANGED <<cfg, account, auth, sent>>

AuthNext == AuthDriver \/ ServerResponse \/ ServerContinue

-----------------------------------------------------------------------------
(* Properties.                                                             *)

Message ==
  {m \in [type : {"Handshake", "Switch", "OK", "ERR", "FastOK", "FullAuth", "Key"},
          plugin : Plugin \cup {""}, seed : 0..2] : m.type = "Switch" => m.plugin # ""}

Form == {"empty", "scramble", "clear", "encrypted", "askKey"}

Answer ==
  [type : {"Response"}, form : Form, plugin : Plugin, passwd : {"p", "q", "long", ""},
   seed : 1..2, nul : BOOLEAN]

Secret == [form : Form, plugin : Plugin, secure : BOOLEAN]

Forgotten ==
  /\ auth = [NewAuth EXCEPT !.pc = "over"] /\ server = NewServer
  /\ cfg = None /\ account = None /\ packet = None /\ sent = {}

\* The login's part of the driver's type; nothing is left of it afterwards.
AuthTypeOK ==
  /\ auth.pc = "over" => Forgotten
  /\ auth.pc # "over" =>
     /\ cfg \in Config
     /\ account \in Account
     /\ auth \in [pc : {"handshake", "result", "switched", "key", "ok", "authenticated",
                       "failed"},
                 plugin : Plugin \cup {""}, seed : 1..2, tls : BOOLEAN]
     /\ server \in [pc : {"response", "switched", "full", "encrypted", "confirm", "done"},
                   seed : 1..2]
     /\ packet \in Message \cup Answer \cup {None}
     /\ sent \subseteq Secret

\* The password goes out as it is only where the configuration says so: over
\* TLS or a unix socket, or for the clear text plugin when that is allowed
\* (auth.go, the guards of "sha256_password", of the full authentication of
\* "caching_sha2_password" and of "mysql_clear_password"), on every path of
\* fall-backs and switches.
ClearOnlyWhenAllowed ==
  \A s \in sent :
    s.form = "clear" => s.secure \/ (s.plugin = Clear /\ cfg.clear)

\* The two passwords the driver cannot prove: an old one of the "wontfix" cases
\* (auth.go:250-252), and one of 20 bytes or more that is to be encrypted with the
\* configured key after a switch to sha256_password (packets.go:513).
Unprovable ==
  \/ account.edge
  \/ /\ account.plugin = Sha256 /\ account.announced # Sha256
     /\ account.passwd = "long" /\ cfg.pubKey /\ ~Trusted(cfg.tls # "off" /\ account.ssl)

\* Who has the right password gets in, with whatever plugin the account has and
\* whatever the handshake announced, unless the driver cannot prove that password
\* or the configuration refuses: the plugin of the account, the default plugin
\* and the announced one, or a connection without TLS.  And nobody else gets in.
LoginCompletes ==
  /\ auth.pc = "authenticated" => cfg.passwd = account.passwd
  /\ auth.pc = "failed" /\ cfg.passwd = account.passwd =>
       \/ Refused(account.plugin)
       \/ Refused(Native) /\ (account.announced = "" \/ Refused(account.announced))
       \/ cfg.tls = "on" /\ ~account.ssl
       \/ Unprovable

=============================================================================
