---------------------------- MODULE DriverProofs ----------------------------
(***************************************************************************)
(* Proofs about Driver, for every configuration and every account, for any *)
(* bounds and any modulus of the sequence number.                          *)
(*                                                                         *)
(* The login (module Auth): the password leaves in the clear only where    *)
(* that is allowed, and who has it gets in unless the configuration        *)
(* refuses.  Driver and server alternate, so that the pair of their states *)
(* and the packet in flight is one of a few (Phase).  What matters is that *)
(* they agree on the plugin and the challenge from the moment the server   *)
(* has judged a response (Agreed), also after a switch without a           *)
(* challenge, and that only a switch hands over a challenge with its NUL.  *)
(*                                                                         *)
(* The commands (module Session): the variables keep their types, and as   *)
(* long as no wide row was skipped, the driver and the server agree on     *)
(* where they are in an answer.  The answers of the server are the runs of *)
(* a small automaton (Step); its stages are also what a routine of the     *)
(* driver expects (Expects).  The invariant says that what is on its way   *)
(* to the driver runs from the stage that the driver expects to the end of *)
(* the answer (Ahead).                                                     *)
(***************************************************************************)
EXTENDS Driver, TLAPS, SequenceTheorems

-----------------------------------------------------------------------------
(* The login.                                                              *)

Right == cfg.passwd = account.passwd

Agreed == auth.plugin = account.plugin /\ auth.seed = server.seed

AuthType ==
  /\ cfg \in Config /\ account \in Account
  /\ auth \in [pc : {"handshake", "result", "switched", "key", "ok", "authenticated", "failed"},
               plugin : Plugin \cup {""}, seed : 1..2, tls : BOOLEAN]
  /\ server \in [pc : {"response", "switched", "full", "encrypted", "confirm", "done"}, seed : 1..2]

\* Why a login with the right password fails.
Reason ==
  \/ Refused(account.plugin)
  \/ Refused(Native) /\ (account.announced = "" \/ Refused(account.announced))
  \/ cfg.tls = "on" /\ ~account.ssl
  \/ Unprovable

\* The last word of the server.
Verdicts ==
  /\ server.pc = "done"
  /\ \/ packet.type = "OK" /\ Right
     \/ packet.type = "ERR" /\ (Right => Reason)

\* What may follow a response for the plugin and the challenge of the server.
Judged ==
  \/ Verdicts
  \/ auth.plugin = Caching /\ packet.type = "FastOK" /\ server.pc = "confirm" /\ Right
  \/ auth.plugin = Caching /\ packet.type = "FullAuth" /\ server.pc = "full"
  \/ auth.plugin = Sha256 /\ packet.type = "Key" /\ server.pc = "encrypted"

\* After the handshake the channel is what was asked for.
Channel == auth.tls = (cfg.tls # "off" /\ account.ssl)

\* A switch to sha256_password is asked for only if it was not announced.
Unannounced == account.announced = Sha256 => account.plugin # Sha256

Greeted ==
  /\ auth.pc = "handshake" /\ server = NewServer /\ auth.seed = 1
  /\ packet = FromServer("Handshake", account.announced, 1)

Responded ==
  /\ auth.pc = "result" /\ server = NewServer /\ auth.seed = 1 /\ auth.plugin \in Plugin \ {Dialog}
  /\ packet = AuthResponse(auth.plugin, 1, FALSE, auth.tls)
  /\ Channel /\ (account.announced = Sha256 => auth.plugin = Sha256)

ToSwitch ==
  /\ auth.pc = "result" /\ auth.seed = 1 /\ server.pc = "switched" /\ Channel /\ Unannounced
  /\ \E seed \in {0, 2} : /\ packet = FromServer("Switch", account.plugin, seed)
                          /\ server.seed = IF seed = 0 THEN 1 ELSE seed

Switched ==
  /\ auth.pc = "switched" /\ Agreed /\ server.pc = "switched" /\ Channel /\ Unannounced
  /\ \E nul \in BOOLEAN : packet = AuthResponse(auth.plugin, auth.seed, nul, auth.tls)

Answered == auth.pc \in {"result", "switched"} /\ Agreed /\ Judged

AsksKey ==
  /\ auth.pc = "key" /\ Agreed /\ auth.plugin = Caching
  /\ \/ packet = Response("askKey", Caching, auth.seed, FALSE) /\ server.pc = "full"
     \/ packet.type = "Key" /\ server.pc = "encrypted"

Concluding ==
  /\ auth.pc = "ok" /\ Agreed
  /\ \/ packet = None /\ server.pc = "confirm" /\ Right
     \/ packet = Response("clear", auth.plugin, auth.seed, FALSE) /\ server.pc = "full"
     \/ packet = Response("encrypted", auth.plugin, auth.seed, FALSE) /\ server.pc \in {"full", "encrypted"}
     \/ Verdicts

Over ==
  \/ auth.pc = "authenticated" /\ Right
  \/ auth.pc = "failed" /\ (Right => Reason)

Phase ==
  \/ Greeted \/ Responded \/ ToSwitch \/ Switched \/ Answered \/ AsksKey \/ Concluding \/ Over

AuthInv == ClearOnlyWhenAllowed /\ (Forgotten \/ (AuthType /\ Phase))
-----------------------------------------------------------------------------
(* Responses.                                                              *)

\* The fields of a response, and what its form depends on.
LEMMA ResponseFields ==
  ASSUME NEW plugin \in Plugin \ {Dialog}, NEW seed, NEW nul, NEW tls, NEW r,
         r = AuthResponse(plugin, seed, nul, tls)
  PROVE  /\ r.type = "Response" /\ r.plugin = plugin /\ r.passwd = cfg.passwd /\ r.seed = seed
         /\ r.form = "askKey" => plugin = Sha256
         /\ r.form = "clear" => plugin = Clear \/ Trusted(tls)
         /\ r.form = "encrypted" => plugin = Sha256 /\ cfg.pubKey /\ ~Trusted(tls) /\ r.nul = nul
<1>1. CASE plugin \in {Caching, Old, Native}
  <2>1. PICK cut \in {nul, FALSE} : r = Scramble(plugin, seed, cut)
    BY <1>1 DEF AuthResponse, Caching, Old, Native, Clear, Sha256
  <2>2. PICK form \in {"empty", "scramble"} : r = Response(form, plugin, seed, cut)
    BY <2>1 DEF Scramble
  <2> QED
    BY <2>2 DEF Response
<1>2. CASE plugin = Clear
  <2>1. r = Response("clear", Clear, seed, nul)
    BY <1>2 DEF AuthResponse, Caching, Old, Native, Clear, Sha256
  <2> QED
    BY <1>2, <2>1 DEF Response
<1>3. CASE plugin = Sha256
  <2>1. r = Sha256Response(seed, nul, tls)
    BY <1>3 DEF AuthResponse, Caching, Old, Native, Clear, Sha256
  <2> DEFINE form == CASE cfg.passwd = "" -> "empty"
                       [] cfg.passwd # "" /\ Trusted(tls) -> "clear"
                       [] OTHER -> IF cfg.pubKey THEN "encrypted" ELSE "askKey"
  <2>2. r = Response(form, Sha256, seed, nul)
    BY <2>1 DEF Sha256Response
  <2>3. (form = "clear" => Trusted(tls)) /\ (form = "encrypted" => cfg.pubKey /\ ~Trusted(tls))
    OBVIOUS
  <2> HIDE DEF form
  <2> QED
    BY <1>3, <2>2, <2>3 DEF Response
<1> QED
  BY <1>1, <1>2, <1>3 DEF Plugin

\* A response in the phases of the login in which there is one.
LEMMA ResponseInFlight ==
  /\ Responded => packet.type = "Response" /\ packet.plugin = auth.plugin
  /\ AuthType /\ Switched => packet.type = "Response"
<1>1. ASSUME Responded PROVE packet.type = "Response" /\ packet.plugin = auth.plugin
  <2>1. PICK nul : packet = AuthResponse(auth.plugin, 1, nul, auth.tls)
    BY <1>1 DEF Responded
  <2>2. auth.plugin \in Plugin \ {Dialog}
    BY <1>1 DEF Responded
  <2> QED
    BY <2>1, <2>2, ResponseFields
<1>2. ASSUME AuthType, Switched PROVE packet.type = "Response"
  <2>1. PICK nul \in BOOLEAN : packet = AuthResponse(auth.plugin, auth.seed, nul, auth.tls)
    BY <1>2 DEF Switched
  <2>2. auth.plugin \in Plugin \ {Dialog}
    BY <1>2 DEF Switched, Agreed, AuthType, Account
  <2> QED
    BY <2>1, <2>2, ResponseFields
<1> QED
  BY <1>1, <1>2

\* A response of auth() for a plugin that is allowed keeps the password.
LEMMA WriteKeeps ==
  ASSUME ClearOnlyWhenAllowed, NEW r, NEW tls, Write(r, tls), cfg' = cfg,
         r.form = "clear" => Trusted(tls) \/ (r.plugin = Clear /\ cfg.clear)
  PROVE  ClearOnlyWhenAllowed'
<1> SUFFICES ASSUME NEW s \in sent', s.form = "clear"
             PROVE  s.secure \/ (s.plugin = Clear /\ cfg.clear)
  BY DEF ClearOnlyWhenAllowed
<1>1. CASE s \in sent
  BY <1>1 DEF ClearOnlyWhenAllowed
<1>2. CASE s = [form |-> r.form, plugin |-> r.plugin, secure |-> tls \/ cfg.unix]
  <2>1. s.form = r.form /\ s.plugin = r.plugin /\ s.secure = (tls \/ cfg.unix)
    BY <1>2
  <2> QED
    BY <2>1 DEF Trusted
<1> QED
  BY <1>1, <1>2 DEF Write

LEMMA Kept == ASSUME ClearOnlyWhenAllowed, UNCHANGED <<cfg, sent>> PROVE ClearOnlyWhenAllowed'
BY DEF ClearOnlyWhenAllowed

-----------------------------------------------------------------------------
(* The server.                                                             *)

\* Where the driver judges as the server does, a proof for the server's challenge
\* is right or wrong with the password only.
LEMMA ProvesRight ==
  ASSUME AuthType, NEW r, r.plugin = account.plugin, r.passwd = cfg.passwd, r.seed = server.seed,
         r.form = "scramble" => account.plugin # Caching,
         r.form = "encrypted" /\ r.nul /\ Right /\ r.passwd = "long" => Unprovable
  PROVE  (Proves(r) => Right) /\ (Right => Proves(r) \/ Reason)
BY DEF Proves, Right, Reason, Unprovable

LEMMA VerdictGiven ==
  ASSUME AuthType, NEW r, Proves(r) => Right, Right => Proves(r) \/ Reason, Verdict(Proves(r)),
         UNCHANGED <<cfg, account>>
  PROVE  Verdicts' /\ server'.seed = server.seed /\ server' \in [pc : {"done"}, seed : 1..2]
<1>1. (Right' <=> Right) /\ (Reason' <=> Reason)
  BY DEF Right, Reason, Refused, Unprovable, Trusted
<1>2. PICK type : /\ packet' = FromServer(type, account.plugin, server.seed)
                  /\ server' = [server EXCEPT !.pc = "done"]
                  /\ type = (IF Proves(r) THEN "OK" ELSE "ERR")
  BY DEF Verdict, Reply
<1>3. packet'.type = type /\ server'.pc = "done" /\ server'.seed = server.seed
  BY <1>2 DEF FromServer, AuthType
<1>4. Verdicts'
  BY <1>1, <1>2, <1>3 DEF Verdicts
<1> QED
  BY <1>2, <1>3, <1>4 DEF AuthType

LEMMA JudgeTypes == ASSUME AuthType, NEW r, Judge(r), UNCHANGED <<cfg, account, auth>> PROVE AuthType'
<1>1. \E type, pc \in {"OK", "ERR", "Key", "FastOK", "FullAuth", "done", "encrypted", "confirm", "full"} :
        Reply(type, pc) /\ pc \in {"done", "encrypted", "confirm", "full"}
  BY DEF Judge, Verdict
<1> QED
  BY <1>1 DEF Reply, AuthType

LEMMA JudgeAnswers ==
  ASSUME AuthType, account.plugin = auth.plugin, NEW nul \in BOOLEAN, Channel, nul => Unannounced,
         packet = AuthResponse(account.plugin, server.seed, nul, auth.tls),
         Judge(packet), UNCHANGED <<cfg, account, auth>>
  PROVE  Judged' /\ server'.seed = server.seed /\ AuthType'
<1>1. account.plugin \in Plugin \ {Dialog}
  BY DEF AuthType, Account
<1>2. /\ packet.type = "Response" /\ packet.plugin = account.plugin /\ packet.passwd = cfg.passwd
      /\ packet.seed = server.seed
      /\ packet.form = "askKey" => account.plugin = Sha256
      /\ packet.form = "encrypted" =>
           account.plugin = Sha256 /\ cfg.pubKey /\ ~Trusted(auth.tls) /\ packet.nul = nul
  BY <1>1, ResponseFields
<1>3. packet.form = "encrypted" /\ packet.nul /\ Right /\ packet.passwd = "long" => Unprovable
  BY <1>2 DEF Unprovable, Unannounced, Channel, Right
<1>4. ASSUME NEW type, NEW pc \in {"encrypted", "confirm", "full"}, Reply(type, pc)
      PROVE  packet'.type = type /\ server'.pc = pc /\ server'.seed = server.seed /\ AuthType'
  BY <1>4 DEF Reply, FromServer, AuthType
<1>5. CASE packet.form = "askKey"
  <2>1. Reply("Key", "encrypted") /\ auth'.plugin = Sha256
    BY <1>2, <1>5 DEF Judge
  <2> QED
    BY <1>4, <2>1 DEF Judged
<1>6. CASE packet.form # "askKey" /\ account.plugin = Caching /\ packet.form = "scramble"
  <2>1. \/ Reply("FastOK", "confirm") /\ Right
        \/ Reply("FullAuth", "full")
    BY <1>2, <1>6 DEF Judge, Proves, Right
  <2>2. Right' <=> Right
    BY DEF Right
  <2> QED
    BY <1>4, <1>6, <2>1, <2>2 DEF Judged
<1>7. CASE packet.form # "askKey" /\ ~(account.plugin = Caching /\ packet.form = "scramble")
  <2>1. Verdict(Proves(packet))
    BY <1>7 DEF Judge
  <2>2. (Proves(packet) => Right) /\ (Right => Proves(packet) \/ Reason)
    BY <1>2, <1>3, <1>7, ProvesRight
  <2> QED
    BY <2>1, <2>2, VerdictGiven DEF Judged, AuthType
<1> QED
  BY <1>5, <1>6, <1>7

LEMMA ResponseStep ==
  ASSUME AuthType, Phase, ClearOnlyWhenAllowed, ServerResponse
  PROVE  AuthInv'
<1>1. /\ UNCHANGED <<cfg, account, auth, sent>> /\ ClearOnlyWhenAllowed'
      /\ server.pc = "response" /\ packet.type = "Response"
  BY Kept DEF ServerResponse
<1>2. Responded \/ Over
  BY <1>1 DEF Phase, Greeted, ToSwitch, Switched, Answered, Judged, Verdicts, AsksKey,
     Concluding, FromServer, None
<1>3. CASE Over
  <2>1. Over'
    BY <1>1, <1>3 DEF Over, Reason, Refused, Right, Unprovable, Trusted
  <2>2. AuthType'
    <3>1. CASE packet.plugin = account.plugin
      BY <1>1, <3>1, JudgeTypes DEF ServerResponse
    <3>2. CASE packet.plugin # account.plugin
      <4>1. PICK seed \in {0, 2} : server' = [pc |-> "switched", seed |-> IF seed = 0 THEN 1 ELSE seed]
        BY <3>2 DEF ServerResponse
      <4>2. server' \in [pc : {"switched"}, seed : 1..2]
        BY <4>1
      <4> QED
        BY <1>1, <4>2 DEF AuthType
    <3> QED
      BY <3>1, <3>2
  <2> QED
    BY <1>1, <2>1, <2>2 DEF AuthInv, Phase
<1>4. CASE Responded /\ packet.plugin # account.plugin
  <2>1. PICK seed \in {0, 2} :
          /\ packet' = FromServer("Switch", account.plugin, seed)
          /\ server' = [pc |-> "switched", seed |-> IF seed = 0 THEN 1 ELSE seed]
    BY <1>4 DEF ServerResponse
  <2>2. server'.pc = "switched" /\ server'.seed = (IF seed = 0 THEN 1 ELSE seed)
        /\ server' \in [pc : {"switched"}, seed : 1..2]
    BY <2>1
  <2>3. AuthType'
    BY <1>1, <2>2 DEF AuthType
  <2>5. packet.plugin = auth.plugin
    BY <1>4, ResponseInFlight
  <2>6. ToSwitch'
    BY <1>1, <1>4, <2>1, <2>2, <2>5 DEF Responded, ToSwitch, FromServer, Channel, Unannounced
  <2> QED
    BY <1>1, <2>3, <2>6 DEF AuthInv, Phase
<1>5. CASE Responded /\ packet.plugin = account.plugin
  <2>1. auth.plugin \in Plugin \ {Dialog} /\ packet = AuthResponse(auth.plugin, 1, FALSE, auth.tls)
        /\ server.seed = 1 /\ auth.seed = 1 /\ auth.pc = "result" /\ Channel
    BY <1>5 DEF Responded, NewServer
  <2>2. packet.plugin = auth.plugin
    BY <1>5, ResponseInFlight
  <2>3. Judge(packet)
    BY <1>5 DEF ServerResponse
  <2>4. Judged' /\ server'.seed = server.seed /\ AuthType'
    BY <1>1, <1>5, <2>1, <2>2, <2>3, JudgeAnswers
  <2>5. Answered'
    BY <1>1, <1>5, <2>1, <2>2, <2>4 DEF Answered, Agreed
  <2> QED
    BY <1>1, <2>4, <2>5 DEF AuthInv, Phase
<1> QED
  BY <1>2, <1>3, <1>4, <1>5

LEMMA ContinueStep ==
  ASSUME AuthType, Phase, ClearOnlyWhenAllowed, ServerContinue
  PROVE  AuthInv'
<1>1. UNCHANGED <<cfg, account, auth, sent>> /\ ClearOnlyWhenAllowed' /\ (Right' <=> Right)
  BY Kept DEF ServerContinue, Right
<1>2. \/ Over
      \/ Switched \/ AsksKey
      \/ Concluding
  <2>3. server.pc # "response" /\ packet.type # "Switch"
    BY DEF ServerContinue, None
  <2>4. ~Greeted /\ ~Responded
    <3>1. server # NewServer
      BY <2>3 DEF NewServer
    <3> QED
      BY <3>1 DEF Greeted, Responded
  <2>1. ~Greeted /\ ~Responded /\ ~ToSwitch
    BY <2>3, <2>4 DEF ToSwitch, FromServer
  <2>2. ~Answered
    BY DEF ServerContinue, Answered, Judged, Verdicts, None
  <2> QED
    BY <2>1, <2>2 DEF Phase
<1>3. CASE Over
  <2>1. Over'
    BY <1>1, <1>3 DEF Over, Reason, Refused, Unprovable, Trusted
  <2>2. AuthType'
    <3>1. Judge(packet) \/ \E type, pc \in {"OK", "ERR", "done"} : Reply(type, pc) /\ pc = "done"
      BY DEF ServerContinue, Verdict
    <3> QED
      BY <1>1, <3>1, JudgeTypes DEF AuthType, Reply
  <2> QED
    BY <1>1, <2>1, <2>2 DEF AuthInv, Phase
<1>4. CASE Switched
  <2>1. PICK nul \in BOOLEAN :
          /\ auth.plugin = account.plugin /\ auth.seed = server.seed /\ server.pc = "switched"
          /\ packet = AuthResponse(auth.plugin, auth.seed, nul, auth.tls) /\ auth.pc = "switched"
          /\ Channel /\ Unannounced
    BY <1>4 DEF Switched, Agreed
  <2>2. account.plugin \in Plugin \ {Dialog}
    BY DEF AuthType, Account
  <2>3. Judge(packet)
    <3>1. packet.type = "Response"
      BY <1>4, ResponseInFlight
    <3> QED
      BY <2>1, <3>1 DEF ServerContinue, None
  <2>4. Judged' /\ server'.seed = server.seed /\ AuthType'
    BY <1>1, <2>1, <2>3, JudgeAnswers
  <2> QED
    BY <1>1, <2>1, <2>4 DEF AuthInv, Phase, Answered, Agreed
<1>5. CASE AsksKey
  <2>1. packet = Response("askKey", Caching, auth.seed, FALSE) /\ server.pc = "full" /\ auth.pc = "key"
        /\ auth.plugin = account.plugin /\ auth.seed = server.seed /\ auth.plugin = Caching
    BY <1>5 DEF AsksKey, ServerContinue, Agreed, None
  <2>2. packet.form = "askKey"
    BY <2>1 DEF Response
  <2>3. Reply("Key", "encrypted")
    BY <2>1, <2>2 DEF ServerContinue, Judge, None, Response
  <2>4. packet'.type = "Key" /\ server'.pc = "encrypted" /\ server'.seed = server.seed /\ AuthType'
    BY <1>1, <2>3 DEF Reply, FromServer, AuthType
  <2> QED
    BY <1>1, <2>1, <2>4 DEF AuthInv, Phase, AsksKey, Agreed
<1>6. CASE Concluding
  <2>1. auth.plugin = account.plugin /\ auth.seed = server.seed /\ auth.pc = "ok"
    BY <1>6 DEF Concluding, Agreed
  <2>2. CASE packet = None
    <3>1. Right /\ Reply("OK", "done")
      BY <1>6, <2>2 DEF Concluding, ServerContinue, Verdicts, Response, None
    <3>2. packet'.type = "OK" /\ server'.pc = "done" /\ server'.seed = server.seed /\ AuthType'
      BY <1>1, <3>1 DEF Reply, FromServer, AuthType
    <3> QED
      BY <1>1, <2>1, <3>1, <3>2 DEF AuthInv, Phase, Concluding, Agreed, Verdicts
  <2>3. CASE packet # None
    <3>1. PICK form \in {"clear", "encrypted"} :
            packet = Response(form, auth.plugin, auth.seed, FALSE)
            /\ (server.pc = "full" \/ server.pc = "encrypted")
      BY <1>6, <2>3 DEF Concluding, ServerContinue, Verdicts
    <3>2. packet.form = form /\ packet.plugin = account.plugin /\ packet.passwd = cfg.passwd
          /\ packet.seed = server.seed /\ packet.nul = FALSE
      BY <2>1, <3>1 DEF Response
    <3>3. (Proves(packet) => Right) /\ (Right => Proves(packet) \/ Reason)
      BY <3>2, ProvesRight
    <3>4. Verdict(Proves(packet))
      BY <2>3, <3>1, <3>2 DEF ServerContinue
    <3>5. Verdicts' /\ server'.seed = server.seed /\ AuthType'
      BY <1>1, <3>3, <3>4, VerdictGiven DEF AuthType
    <3> QED
      BY <1>1, <2>1, <3>5 DEF AuthInv, Phase, Concluding, Agreed
  <2> QED
    BY <2>2, <2>3
<1> QED
  BY <1>2, <1>3, <1>4, <1>5, <1>6

-----------------------------------------------------------------------------
(* The driver.                                                             *)

LEMMA FailStep ==
  ASSUME AuthType, ClearOnlyWhenAllowed, Fail, UNCHANGED <<cfg, account, server>>, Right => Reason
  PROVE  AuthInv'
<1>1. auth'.pc = "failed" /\ AuthType' /\ (Right' <=> Right) /\ (Reason' <=> Reason)
  BY DEF Fail, AuthType, Right, Reason, Refused, Unprovable, Trusted
<1>2. ClearOnlyWhenAllowed'
  BY Kept DEF Fail
<1> QED
  BY <1>1, <1>2 DEF AuthInv, Phase, Over

LEMMA SucceedStep ==
  ASSUME AuthType, ClearOnlyWhenAllowed, Succeed, UNCHANGED <<cfg, account, server>>, Right
  PROVE  AuthInv'
<1>1. auth'.pc = "authenticated" /\ AuthType' /\ Right'
  BY DEF Succeed, AuthType, Right
<1>2. ClearOnlyWhenAllowed'
  BY Kept DEF Succeed
<1> QED
  BY <1>1, <1>2 DEF AuthInv, Phase, Over

\* The clear text plugin answers only where it is allowed.
LEMMA AllowedResponse ==
  ASSUME ClearOnlyWhenAllowed, NEW plugin \in Plugin, ~Refused(plugin), NEW seed, NEW nul, NEW tls,
         Write(AuthResponse(plugin, seed, nul, tls), tls), cfg' = cfg
  PROVE  ClearOnlyWhenAllowed' /\ plugin # Dialog /\ packet' = AuthResponse(plugin, seed, nul, tls)
<1>1. plugin # Dialog /\ (plugin = Clear => cfg.clear)
  BY DEF Refused
<1> DEFINE r == AuthResponse(plugin, seed, nul, tls)
<1>2. r.plugin = plugin
  BY <1>1, ResponseFields
<1>3. r.form = "clear" => plugin = Clear \/ Trusted(tls)
  BY <1>1, ResponseFields
<1>4. packet' = r
  BY DEF Write
<1>5. Write(r, tls)
  OBVIOUS
<1> HIDE DEF r
<1>6. ClearOnlyWhenAllowed'
  BY <1>1, <1>2, <1>3, <1>5, WriteKeeps
<1> QED
  BY <1>1, <1>4, <1>6 DEF r

LEMMA SameResponse ==
  ASSUME NEW plugin, NEW seed, NEW nul, NEW tls, cfg' = cfg,
         packet' = AuthResponse(plugin, seed, nul, tls), auth'.plugin = plugin, auth'.tls = tls
  PROVE  packet' = AuthResponse(auth.plugin, seed, nul, auth.tls)'
BY DEF AuthResponse, Scramble, Sha256Response, Response, Trusted

LEMMA HandshakeStep == ASSUME AuthType, Phase, ClearOnlyWhenAllowed, Handshake PROVE AuthInv'
<1> DEFINE asked == IF packet.plugin = "" THEN Native ELSE packet.plugin
           plugin == IF Refused(asked) THEN Native ELSE asked
           tls == cfg.tls # "off" /\ account.ssl
<1>1. auth.pc = "handshake" /\ packet.type = "Handshake" /\ UNCHANGED <<cfg, account, server>>
  BY DEF Handshake, Gets
<1>2. Greeted
  BY <1>1 DEF Phase, Responded, ToSwitch, Switched, Answered, AsksKey, Concluding, Over
<1>3. packet.plugin = account.announced /\ account.announced \in Plugin \cup {""} /\ server = NewServer
      /\ auth.seed = 1
  BY <1>2 DEF Greeted, FromServer, AuthType, Account
<1>4. asked \in Plugin /\ plugin \in Plugin
  BY <1>3 DEF Plugin
<1>5. CASE Refused(plugin) \/ (cfg.tls = "on" /\ ~account.ssl)
  <2>1. Fail
    BY <1>5 DEF Handshake
  <2>2. Reason
    BY <1>3, <1>5 DEF Reason
  <2> QED
    BY <1>1, <2>1, <2>2, FailStep
<1>6. CASE ~Refused(plugin) /\ ~(cfg.tls = "on" /\ ~account.ssl)
  <2>1. /\ Write(AuthResponse(plugin, 1, FALSE, tls), tls)
        /\ auth' = [auth EXCEPT !.pc = "result", !.plugin = plugin, !.tls = tls]
    BY <1>6 DEF Handshake
  <2>2. PICK p \in Plugin, t \in BOOLEAN :
          p = plugin /\ t = tls /\ (account.announced = Sha256 => p = Sha256)
    <3>1. account.announced = Sha256 => plugin = Sha256
      BY <1>3 DEF Refused, Sha256, Old, Clear, Native, Dialog
    <3> QED
      BY <1>4, <3>1
  <2>3. /\ Write(AuthResponse(p, 1, FALSE, t), t) /\ ~Refused(p)
        /\ auth' = [auth EXCEPT !.pc = "result", !.plugin = p, !.tls = t]
    BY <1>6, <2>1, <2>2
  <2>7. t = (cfg.tls # "off" /\ account.ssl)
    BY <2>2
  <2> HIDE DEF asked, plugin, tls
  <2>4. auth'.pc = "result" /\ auth'.plugin = p /\ auth'.tls = t /\ auth'.seed = 1 /\ AuthType'
    BY <1>1, <1>3, <2>3 DEF AuthType
  <2>5. ClearOnlyWhenAllowed' /\ p # Dialog /\ packet' = AuthResponse(p, 1, FALSE, t)
    BY <1>1, <2>3, AllowedResponse
  <2>8. packet' = AuthResponse(auth.plugin, 1, FALSE, auth.tls)'
    BY <1>1, <2>4, <2>5, SameResponse
  <2>6. Responded'
    BY <1>1, <1>3, <2>2, <2>4, <2>5, <2>7, <2>8 DEF Responded, Channel
  <2> QED
    BY <2>4, <2>5, <2>6 DEF AuthInv, Phase
<1> QED
  BY <1>5, <1>6

\* A switch: the response is for the challenge that is kept.
LEMMA SwitchStep == ASSUME AuthType, Phase, ClearOnlyWhenAllowed, AuthSwitch PROVE AuthInv'
<1>1. auth.pc = "result" /\ packet.type = "Switch" /\ UNCHANGED <<cfg, account, server>>
  BY DEF AuthSwitch, Gets
<1>2. ~Responded
  BY <1>1, ResponseInFlight
<1>3. ToSwitch
  BY <1>1, <1>2 DEF Phase, Greeted, Switched, Answered, Judged, Verdicts, AsksKey, Concluding, Over
<1>4. PICK seed \in {0, 2} : /\ packet = FromServer("Switch", account.plugin, seed)
                             /\ server.seed = IF seed = 0 THEN 1 ELSE seed
  BY <1>3 DEF ToSwitch
<1>5. packet.plugin = account.plugin /\ packet.seed = seed /\ auth.seed = 1 /\ server.pc = "switched"
      /\ account.plugin \in Plugin
  BY <1>3, <1>4 DEF ToSwitch, FromServer, AuthType, Account
<1>6. CASE Refused(account.plugin)
  <2>1. Fail
    BY <1>5, <1>6 DEF AuthSwitch
  <2> QED
    BY <1>1, <1>6, <2>1, FailStep DEF Reason
<1>7. CASE ~Refused(account.plugin)
  <2>1. PICK p \in Plugin, s \in 1..2, t \in BOOLEAN, nul \in BOOLEAN :
           p = account.plugin /\ s = server.seed /\ t = auth.tls /\ nul = (packet.seed # 0)
    BY <1>5 DEF AuthType
  <2>2. /\ Write(AuthResponse(p, s, nul, t), t) /\ ~Refused(p)
        /\ auth' = [auth EXCEPT !.pc = "switched", !.plugin = p, !.seed = s]
    <3>1. CopiedSeed(packet) = s /\ (IF packet.seed = 0 THEN auth.seed ELSE packet.seed) = s
      BY <1>4, <1>5, <2>1 DEF CopiedSeed
    <3> QED
      BY <1>5, <1>7, <2>1, <3>1 DEF AuthSwitch
  <2>3. auth'.pc = "switched" /\ auth'.plugin = p /\ auth'.tls = t /\ auth'.seed = s /\ AuthType'
    BY <1>1, <2>1, <2>2 DEF AuthType
  <2>4. ClearOnlyWhenAllowed' /\ packet' = AuthResponse(p, s, nul, t)
    BY <1>1, <2>2, AllowedResponse
  <2>5. packet' = AuthResponse(auth.plugin, s, nul, auth.tls)'
    BY <1>1, <2>3, <2>4, SameResponse
  <2>6. Switched'
    BY <1>1, <1>3, <1>5, <2>1, <2>3, <2>5 DEF Switched, Agreed, ToSwitch, Channel, Unannounced
  <2> QED
    BY <2>3, <2>4, <2>6 DEF AuthInv, Phase
<1> QED
  BY <1>6, <1>7

\* The end of the login, and what comes before it.
LEMMA WritesSecret ==
  ASSUME AuthType, ClearOnlyWhenAllowed, UNCHANGED <<cfg, account, server>>,
         NEW form \in {"clear", "encrypted", "askKey"}, NEW pc \in {"ok", "key"},
         Write(Response(form, auth.plugin, auth.seed, FALSE), auth.tls),
         auth' = [auth EXCEPT !.pc = pc], form = "clear" => Trusted(auth.tls)
  PROVE  /\ ClearOnlyWhenAllowed' /\ AuthType' /\ auth'.pc = pc
         /\ auth'.plugin = auth.plugin /\ auth'.seed = auth.seed
         /\ packet' = Response(form, auth.plugin, auth.seed, FALSE)'
<1> DEFINE r == Response(form, auth.plugin, auth.seed, FALSE)
<1>1. r.form = form /\ Write(r, auth.tls)
  BY DEF Response
<1>2. AuthType' /\ auth'.pc = pc /\ auth'.plugin = auth.plugin /\ auth'.seed = auth.seed
  BY DEF AuthType
<1>3. packet' = Response(form, auth.plugin, auth.seed, FALSE)'
  BY <1>2 DEF Write, Response
<1>4. ClearOnlyWhenAllowed'
  <2>1. PICK q, t : q = r /\ t = auth.tls
    OBVIOUS
  <2> HIDE DEF r
  <2> QED
    BY <1>1, <2>1, WriteKeeps
<1> QED
  BY <1>2, <1>3, <1>4

LEMMA ConcludeStep ==
  ASSUME AuthType, Answered, ClearOnlyWhenAllowed, Conclude, UNCHANGED <<cfg, account, server>>
  PROVE  AuthInv'
<1>1. Agreed /\ Judged /\ (Agreed /\ auth'.plugin = auth.plugin /\ auth'.seed = auth.seed => Agreed')
      /\ (Right' <=> Right)
  BY DEF Answered, Agreed, Right
<1>2. CASE packet.type = "OK" /\ Right
  <2>2. Succeed
    BY <1>2 DEF Conclude
  <2> QED
    BY <1>2, <2>2, SucceedStep
<1>3. CASE packet.type = "ERR" /\ (Right => Reason)
  <2>2. Fail
    BY <1>3 DEF Conclude
  <2> QED
    BY <1>3, <2>2, FailStep
<1>4. CASE auth.plugin = Caching /\ packet.type = "FastOK" /\ server.pc = "confirm" /\ Right
  <2>1. auth' = [auth EXCEPT !.pc = "ok"] /\ packet' = None /\ UNCHANGED sent
    BY <1>4 DEF Conclude, Caching, Sha256
  <2>2. auth'.pc = "ok" /\ auth'.plugin = auth.plugin /\ auth'.seed = auth.seed /\ AuthType'
    BY <2>1 DEF AuthType
  <2>3. ClearOnlyWhenAllowed'
    BY <2>1, Kept
  <2>4. Concluding'
    BY <1>1, <1>4, <2>1, <2>2 DEF Concluding, None
  <2> QED
    BY <2>2, <2>3, <2>4 DEF AuthInv, Phase
<1>5. CASE auth.plugin = Caching /\ packet.type = "FullAuth" /\ server.pc = "full"
  <2>1. PICK form \in {"clear", "encrypted", "askKey"}, pc \in {"ok", "key"} :
          /\ Write(Response(form, auth.plugin, auth.seed, FALSE), auth.tls)
          /\ auth' = [auth EXCEPT !.pc = pc]
          /\ form = "clear" => Trusted(auth.tls)
          /\ pc = (IF form = "askKey" THEN "key" ELSE "ok")
    BY <1>5 DEF Conclude, Caching, Sha256
  <2>2. /\ ClearOnlyWhenAllowed' /\ AuthType' /\ auth'.pc = pc
        /\ auth'.plugin = auth.plugin /\ auth'.seed = auth.seed
        /\ packet' = Response(form, auth.plugin, auth.seed, FALSE)'
    BY <2>1, WritesSecret
  <2>3. Concluding' \/ AsksKey'
    BY <1>1, <1>5, <2>1, <2>2 DEF Concluding, AsksKey
  <2> QED
    BY <2>2, <2>3 DEF AuthInv, Phase
<1>6. CASE auth.plugin = Sha256 /\ packet.type = "Key" /\ server.pc = "encrypted"
  <2>1. /\ Write(Response("encrypted", auth.plugin, auth.seed, FALSE), auth.tls)
        /\ auth' = [auth EXCEPT !.pc = "ok"]
    BY <1>6 DEF Conclude, Caching, Sha256
  <2>2. /\ ClearOnlyWhenAllowed' /\ AuthType' /\ auth'.pc = "ok"
        /\ auth'.plugin = auth.plugin /\ auth'.seed = auth.seed
        /\ packet' = Response("encrypted", auth.plugin, auth.seed, FALSE)'
    BY <2>1, WritesSecret
  <2>3. Concluding'
    BY <1>1, <1>6, <2>2 DEF Concluding
  <2> QED
    BY <2>2, <2>3 DEF AuthInv, Phase
<1> QED
  BY <1>1, <1>2, <1>3, <1>4, <1>5, <1>6 DEF Judged, Verdicts

LEMMA ResultStep ==
  ASSUME AuthType, Phase, ClearOnlyWhenAllowed, AuthResult \/ SwitchResult
  PROVE  AuthInv'
<1>1. auth.pc \in {"result", "switched"} /\ Conclude /\ UNCHANGED <<cfg, account, server>>
      /\ packet.type # "Response" /\ (packet.type = "Switch" => auth.pc = "switched")
  BY DEF AuthResult, SwitchResult, Gets
<1>2. ASSUME Responded \/ Switched PROVE packet.type = "Response"
  BY <1>2, ResponseInFlight
<1>3. ~ToSwitch
  BY <1>1 DEF ToSwitch, FromServer
<1>4. Answered
  BY <1>1, <1>2, <1>3 DEF Phase, Greeted, AsksKey, Concluding, Over
<1> QED
  BY <1>1, <1>4, ConcludeStep

LEMMA KeyStep == ASSUME AuthType, Phase, ClearOnlyWhenAllowed, PublicKey PROVE AuthInv'
<1>1. /\ auth.pc = "key" /\ packet.type = "Key" /\ UNCHANGED <<cfg, account, server>>
      /\ Write(Response("encrypted", Caching, auth.seed, FALSE), auth.tls)
      /\ auth' = [auth EXCEPT !.pc = "ok"]
  BY DEF PublicKey, Gets
<1>2. AsksKey /\ packet # Response("askKey", Caching, auth.seed, FALSE)
  BY <1>1 DEF Phase, Greeted, Responded, ToSwitch, Switched, Answered, Concluding, Over, Response
<1>3. Agreed /\ auth.plugin = Caching /\ server.pc = "encrypted"
  BY <1>2 DEF AsksKey
<1>4. /\ ClearOnlyWhenAllowed' /\ AuthType' /\ auth'.pc = "ok"
      /\ auth'.plugin = auth.plugin /\ auth'.seed = auth.seed
      /\ packet' = Response("encrypted", auth.plugin, auth.seed, FALSE)'
  BY <1>1, <1>3, WritesSecret
<1>5. Concluding'
  BY <1>1, <1>3, <1>4 DEF Concluding, Agreed
<1> QED
  BY <1>4, <1>5 DEF AuthInv, Phase

LEMMA FinalStep == ASSUME AuthType, Phase, ClearOnlyWhenAllowed, FinalOK PROVE AuthInv'
<1>1. auth.pc = "ok" /\ packet.type \in {"OK", "ERR"} /\ UNCHANGED <<cfg, account, server>>
      /\ IF packet.type = "OK" THEN Succeed ELSE Fail
  BY DEF FinalOK, Gets
<1>2. Verdicts
  BY <1>1 DEF Phase, Greeted, Responded, ToSwitch, Switched, Answered, AsksKey, Concluding, Over,
     Response, None
<1>3. (packet.type = "OK" => Right) /\ (packet.type = "ERR" /\ Right => Reason)
  BY <1>2 DEF Verdicts
<1> QED
  BY <1>1, <1>3, FailStep, SucceedStep

-----------------------------------------------------------------------------
(* The theorems.                                                           *)

LEMMA InitLogsIn == Init => AuthInv
<1> SUFFICES ASSUME Init PROVE AuthInv
  OBVIOUS
<1>1. AuthType
  <2>1. cfg \in Config /\ account \in Account
    BY DEF Init, AuthInit
  <2>2. auth = [pc |-> "handshake", plugin |-> "", seed |-> 1, tls |-> FALSE]
    BY DEF Init, AuthInit, NewAuth
  <2>3. server = [pc |-> "response", seed |-> 1]
    BY DEF Init, AuthInit, NewServer
  <2>4. auth \in [pc : {"handshake", "result", "switched", "key", "ok", "authenticated", "failed"},
                  plugin : Plugin \cup {""}, seed : 1..2, tls : BOOLEAN]
    <3>1. /\ auth.pc = "handshake" /\ auth.plugin = "" /\ auth.seed = 1 /\ auth.tls = FALSE
          /\ auth = [pc |-> auth.pc, plugin |-> auth.plugin, seed |-> auth.seed, tls |-> auth.tls]
      BY <2>2
    <3>2. 1 \in 1..2
      OBVIOUS
    <3> QED
      BY <3>1, <3>2, Zenon
  <2>5. server \in [pc : {"response", "switched", "full", "encrypted", "confirm", "done"}, seed : 1..2]
    BY <2>3
  <2> QED
    BY <2>1, <2>4, <2>5 DEF AuthType
<1>2. Greeted
  BY DEF Init, AuthInit, NewAuth, Greeted
<1>3. ClearOnlyWhenAllowed
  BY DEF Init, AuthInit, ClearOnlyWhenAllowed
<1> QED
  BY <1>1, <1>3, <1>2 DEF AuthInv, Phase

LEMMA NextLogsIn == AuthInv /\ [Next]_vars => AuthInv'
<1> SUFFICES ASSUME AuthInv, [Next]_vars PROVE AuthInv'
  OBVIOUS
<1>1. CASE auth.pc # "over" /\ AuthNext
  <2>1. AuthType /\ Phase /\ ClearOnlyWhenAllowed
    BY <1>1 DEF AuthInv, Forgotten, NewAuth
  <2> QED
    BY <1>1, <2>1, HandshakeStep, SwitchStep, ResultStep, KeyStep, FinalStep, ResponseStep, ContinueStep
       DEF AuthNext, AuthDriver
<1>2. CASE Established
  <2>1. auth'.pc = "over" /\ Forgotten' /\ ClearOnlyWhenAllowed'
    BY <1>2 DEF Established, NewAuth, NewServer, Forgotten, ClearOnlyWhenAllowed
  <2> QED
    BY <2>1 DEF AuthInv
<1>3. CASE UNCHANGED authVars
  <2>1. AuthType <=> AuthType'
    BY <1>3 DEF authVars, AuthType
  <2>2. Phase <=> Phase'
    BY <1>3 DEF authVars, Phase, Greeted, Responded, ToSwitch, Switched, Answered, Judged, Verdicts, AsksKey,
       Concluding, Over, Agreed, Right, Reason, Refused, AuthResponse, Scramble, Sha256Response, Response,
       Trusted, Unprovable, Channel, Unannounced
  <2>3. ClearOnlyWhenAllowed' /\ (Forgotten <=> Forgotten')
    BY <1>3, Kept DEF authVars, AuthInv, Forgotten, NewAuth, NewServer
  <2> QED
    BY <2>1, <2>2, <2>3 DEF AuthInv
<1> QED
  BY <1>1, <1>2, <1>3 DEF Next, vars

\* Driver and server keep step through the whole login.
THEOREM LoginInvariance == Spec => []AuthInv
BY InitLogsIn, NextLogsIn, PTL DEF Spec

\* auth() and handleAuthResult: the password is written as it is only over TLS or
\* a unix socket, or for the clear text plugin when the configuration allows it.
THEOREM NothingInTheClear == Spec => []ClearOnlyWhenAllowed
<1>1. AuthInv => ClearOnlyWhenAllowed
  BY DEF AuthInv
<1> QED
  BY <1>1, LoginInvariance, PTL

InFlight == packet \in Message \cup Answer \cup {None} /\ sent \subseteq Secret

LEMMA ResponseTyped ==
  ASSUME cfg \in Config, NEW form \in Form, NEW plugin \in Plugin, NEW seed \in 1..2, NEW nul \in BOOLEAN
  PROVE  Response(form, plugin, seed, nul) \in Answer
<1>1. cfg.passwd \in {"p", "q", "long", ""}
  BY DEF Config
<1> QED
  BY <1>1 DEF Response, Answer

LEMMA AuthResponseTyped ==
  ASSUME cfg \in Config, NEW plugin \in Plugin \ {Dialog}, NEW seed \in 1..2, NEW nul \in BOOLEAN,
         NEW tls
  PROVE  AuthResponse(plugin, seed, nul, tls) \in Answer
<1> DEFINE r == AuthResponse(plugin, seed, nul, tls)
<1>1. CASE plugin \in {Caching, Old, Native}
  <2>1. PICK form \in Form, cut \in BOOLEAN : r = Response(form, plugin, seed, cut)
    BY <1>1 DEF AuthResponse, Scramble, Form, Caching, Old, Native, Clear, Sha256
  <2> QED
    BY <2>1, ResponseTyped
<1>2. CASE plugin = Clear
  <2>1. r = Response("clear", Clear, seed, nul) /\ "clear" \in Form
    BY <1>2 DEF AuthResponse, Form, Caching, Old, Native, Clear, Sha256
  <2> QED
    BY <1>2, <2>1, ResponseTyped
<1>3. CASE plugin = Sha256
  <2>1. PICK form \in Form : r = Response(form, Sha256, seed, nul)
    <3>1. r = Sha256Response(seed, nul, tls)
      BY <1>3 DEF AuthResponse, Caching, Old, Native, Clear, Sha256
    <3> QED
      BY <3>1 DEF Sha256Response, Form
  <2> QED
    BY <1>3, <2>1, ResponseTyped
<1> QED
  BY <1>1, <1>2, <1>3 DEF Plugin

LEMMA WriteTyped ==
  ASSUME InFlight, cfg \in Config, NEW r \in Answer, NEW tls \in BOOLEAN, Write(r, tls)
  PROVE  InFlight'
<1>1. [form |-> r.form, plugin |-> r.plugin, secure |-> tls \/ cfg.unix] \in Secret
  BY DEF Answer, Secret, Config
<1> QED
  BY <1>1 DEF InFlight, Write

LEMMA MessageTyped ==
  ASSUME NEW type \in {"Handshake", "Switch", "OK", "ERR", "FastOK", "FullAuth", "Key"},
         NEW plugin \in Plugin \cup {""}, NEW seed \in 0..2, type = "Switch" => plugin # ""
  PROVE  FromServer(type, plugin, seed) \in Message
BY DEF FromServer, Message

LEMMA ReplyTyped ==
  ASSUME InFlight, AuthType, NEW type \in {"OK", "ERR", "FastOK", "FullAuth", "Key"}, NEW pc,
         Reply(type, pc), UNCHANGED sent
  PROVE  InFlight'
<1>1. account.plugin \in Plugin /\ server.seed \in 0..2
  <2>1. account.plugin \in Plugin /\ server.seed \in 1..2
    BY DEF AuthType, Account
  <2> QED
    BY <2>1
<1>2. FromServer(type, account.plugin, server.seed) \in Message
  BY <1>1, MessageTyped
<1> QED
  BY <1>2 DEF InFlight, Reply

LEMMA ServerTyped ==
  ASSUME InFlight, AuthType, ServerResponse \/ ServerContinue
  PROVE  InFlight'
<1>1. UNCHANGED sent
  BY DEF ServerResponse, ServerContinue
<1>2. CASE \E type \in {"OK", "ERR", "FastOK", "FullAuth", "Key"} : \E pc : Reply(type, pc)
  BY <1>1, <1>2, ReplyTyped
<1>3. CASE \E seed \in {0, 2} : packet' = FromServer("Switch", account.plugin, seed)
  <2>1. account.plugin \in Plugin /\ account.plugin # ""
    BY DEF AuthType, Account, Plugin, Caching, Old, Clear, Native, Sha256, Dialog
  <2>2. PICK seed \in 0..2 : packet' = FromServer("Switch", account.plugin, seed)
    BY <1>3
  <2>3. packet' \in Message
    BY <2>1, <2>2, MessageTyped
  <2> QED
    BY <1>1, <2>3 DEF InFlight
<1>4. ASSUME Judge(packet) \/ Verdict(Proves(packet))
      PROVE  \E type \in {"OK", "ERR", "FastOK", "FullAuth", "Key"} : \E pc : Reply(type, pc)
  BY <1>4 DEF Judge, Verdict
<1>5. CASE ServerResponse
  BY <1>2, <1>3, <1>4, <1>5 DEF ServerResponse
<1>6. CASE ServerContinue
  BY <1>2, <1>4, <1>6 DEF ServerContinue
<1> QED
  BY <1>5, <1>6

LEMMA DriverTyped == ASSUME InFlight, AuthType, AuthDriver PROVE InFlight'
<1>1. cfg \in Config /\ account \in Account /\ auth.tls \in BOOLEAN /\ auth.seed \in 1..2
  BY DEF AuthType
<1>2. ASSUME Fail \/ Succeed PROVE InFlight'
  BY <1>2 DEF Fail, Succeed, InFlight
<1>3. ASSUME NEW form \in Form, NEW plugin \in Plugin,
             Write(Response(form, plugin, auth.seed, FALSE), auth.tls)
      PROVE  InFlight'
  <2>1. PICK r \in Answer : r = Response(form, plugin, auth.seed, FALSE)
    <3>1. PICK nul \in BOOLEAN : nul = FALSE
      OBVIOUS
    <3>2. Response(form, plugin, auth.seed, nul) \in Answer
      BY <1>1, ResponseTyped
    <3> QED
      BY <3>1, <3>2
  <2> QED
    BY <1>1, <1>3, <2>1, WriteTyped
<1>4. ASSUME NEW plugin \in Plugin, ~Refused(plugin), NEW seed \in 1..2, NEW nul \in BOOLEAN,
             NEW tls \in BOOLEAN, Write(AuthResponse(plugin, seed, nul, tls), tls)
      PROVE  InFlight'
  <2>1. plugin # Dialog
    BY <1>4 DEF Refused
  <2>2. AuthResponse(plugin, seed, nul, tls) \in Answer
    BY <1>1, <2>1, AuthResponseTyped
  <2> QED
    BY <1>1, <1>4, <2>2, WriteTyped
<1>5. "clear" \in Form /\ "encrypted" \in Form /\ "askKey" \in Form /\ Caching \in Plugin /\ Sha256 \in Plugin
      /\ Native \in Plugin
  BY DEF Form, Plugin
<1>11. ASSUME packet.type \notin {"Response", "None"} PROVE packet \in Message
  <2>1. (\A a \in Answer : a.type = "Response") /\ None.type = "None"
    BY DEF Answer, None
  <2> QED
    BY <1>11, <2>1 DEF InFlight
<1>6. CASE Handshake
  <2> DEFINE asked == IF packet.plugin = "" THEN Native ELSE packet.plugin
             chosen == IF Refused(asked) THEN Native ELSE asked
             channel == cfg.tls # "off" /\ account.ssl
  <2>1. packet \in Message
    BY <1>6, <1>11 DEF Handshake, Gets
  <2>2. asked \in Plugin /\ chosen \in Plugin
    BY <1>5, <2>1 DEF Message
  <2>3. CASE Refused(chosen) \/ (cfg.tls = "on" /\ ~account.ssl)
    BY <1>2, <1>6, <2>3 DEF Handshake
  <2>4. CASE ~Refused(chosen) /\ ~(cfg.tls = "on" /\ ~account.ssl)
    <3>1. Write(AuthResponse(chosen, 1, FALSE, channel), channel)
      BY <1>6, <2>4 DEF Handshake
    <3>2. PICK p \in Plugin, t \in BOOLEAN : p = chosen /\ t = channel
      BY <2>2
    <3>4. PICK nul \in BOOLEAN : nul = FALSE
      OBVIOUS
    <3>5. PICK one \in 1..2 : one = 1
      OBVIOUS
    <3>3. Write(AuthResponse(p, one, nul, t), t) /\ ~Refused(p)
      BY <2>4, <3>1, <3>2, <3>4, <3>5
    <3> QED
      BY <1>4, <3>3
  <2> QED
    BY <2>3, <2>4
<1>7. CASE AuthSwitch
  <2>1. packet \in Message /\ packet.type = "Switch"
    BY <1>7, <1>11 DEF AuthSwitch, Gets
  <2>2. packet.plugin \in Plugin /\ packet.seed \in 0..2
    BY <2>1 DEF Message
  <2>3. CASE Refused(packet.plugin)
    BY <1>2, <1>7, <2>3 DEF AuthSwitch
  <2>4. CASE ~Refused(packet.plugin)
    <3> DEFINE given == IF packet.seed = 0 THEN auth.seed ELSE packet.seed
    <3>1. Write(AuthResponse(packet.plugin, given, packet.seed # 0, auth.tls), auth.tls)
      BY <1>7, <2>4 DEF AuthSwitch
    <3>2. PICK p \in Plugin, s \in 1..2 : p = packet.plugin /\ s = given
      BY <1>1, <2>2
    <3>4. PICK nul \in BOOLEAN : nul = (packet.seed # 0)
      OBVIOUS
    <3>3. Write(AuthResponse(p, s, nul, auth.tls), auth.tls) /\ ~Refused(p)
      BY <2>4, <3>1, <3>2, <3>4
    <3> QED
      BY <1>1, <1>4, <3>3
  <2> QED
    BY <2>3, <2>4
<1>8. CASE AuthResult \/ SwitchResult
  <2>1. Conclude
    BY <1>8 DEF AuthResult, SwitchResult
  <2>2. \/ Fail \/ Succeed
        \/ packet' = None /\ UNCHANGED sent
        \/ \E form \in Form, plugin \in Plugin : Write(Response(form, plugin, auth.seed, FALSE), auth.tls)
    BY <1>5, <2>1 DEF Conclude
  <2> QED
    BY <1>2, <1>3, <2>2 DEF InFlight
<1>9. CASE PublicKey
  BY <1>3, <1>5, <1>9 DEF PublicKey
<1>10. CASE FinalOK
  BY <1>2, <1>10 DEF FinalOK
<1> QED
  BY <1>6, <1>7, <1>8, <1>9, <1>10 DEF AuthDriver

LoginTyped == AuthInv /\ (auth.pc # "over" => InFlight)

\* The variables of the login keep their types, and so do the packet in flight
\* and what was written.
THEOREM LoginTypes == Spec => []AuthTypeOK
<1>1. Init => LoginTyped
  <2> SUFFICES ASSUME Init PROVE InFlight
    BY InitLogsIn DEF LoginTyped
  <2>1. account.announced \in Plugin \cup {""} /\ packet = FromServer("Handshake", account.announced, 1)
    BY DEF Init, AuthInit, Account
  <2>2. packet \in Message
    <3>1. PICK one \in 0..2 : one = 1
      OBVIOUS
    <3> QED
      BY <2>1, <3>1, MessageTyped
  <2> QED
    BY <2>2 DEF Init, AuthInit, InFlight
<1>2. LoginTyped /\ [Next]_vars => LoginTyped'
  <2> SUFFICES ASSUME AuthInv, auth.pc # "over" => InFlight, [Next]_vars, auth'.pc # "over" PROVE InFlight'
    BY NextLogsIn DEF LoginTyped
  <2>1. CASE auth.pc # "over" /\ AuthNext
    <3>1. AuthType
      BY <2>1 DEF AuthInv, Forgotten, NewAuth
    <3> QED
      BY <2>1, <3>1, ServerTyped, DriverTyped DEF AuthNext
  <2>2. CASE Established
    BY <2>2 DEF Established, NewAuth
  <2>3. CASE UNCHANGED authVars
    BY <2>3 DEF authVars, InFlight
  <2> QED
    BY <2>1, <2>2, <2>3 DEF Next, vars
<1>3. LoginTyped => AuthTypeOK
  <2> SUFFICES ASSUME AuthInv, auth.pc # "over" => InFlight PROVE AuthTypeOK
    BY DEF LoginTyped
  <2>1. CASE Forgotten
    <3>1. auth.pc = "over"
      BY <2>1 DEF Forgotten, NewAuth
    <3> QED
      BY <2>1, <3>1 DEF AuthTypeOK
  <2>2. CASE AuthType /\ ~Forgotten
    <3>1. auth.pc # "over"
      BY <2>2 DEF AuthType
    <3> QED
      BY <2>2, <3>1 DEF AuthTypeOK, AuthType, InFlight
  <2> QED
    BY <2>1, <2>2 DEF AuthInv
<1> QED
  BY <1>1, <1>2, <1>3, PTL DEF Spec

\* The login ends well with the right password and with no other, whatever the
\* announced plugin, the fall-back and the switch, unless the configuration
\* refuses a plugin it came to or has no TLS to speak, or the password is one of
\* the two that the driver cannot prove.
THEOREM RightPasswordLogsIn == Spec => []LoginCompletes
<1>1. AuthInv => LoginCompletes
  <2> SUFFICES ASSUME AuthInv PROVE LoginCompletes
    OBVIOUS
  <2>1. auth.pc \in {"authenticated", "failed"} => Over
    BY DEF AuthInv, Forgotten, NewAuth, Phase, Greeted, Responded, ToSwitch, Switched, Answered, AsksKey,
       Concluding
  <2> QED
    BY <2>1 DEF LoginCompletes, Over, Right, Reason
<1> QED
  BY <1>1, LoginInvariance, PTL

-----------------------------------------------------------------------------
(* The commands.                                                           *)

Stage ==
  [at : {"start", "stmt", "head", "defs", "rows", "sys", "sysDefs", "sysRow", "sysEnd", "prep", "blocks",
         "answer", "file", "done", "failed"}, n : Nat]

At(x) == [at |-> x, n |-> 0]
RowsAt(n) == [at |-> "rows", n |-> n]
Blocks(n) == IF n = 0 THEN At("done") ELSE [at |-> "blocks", n |-> n]
Following(flag) == IF flag THEN At("head") ELSE At("done")

\* The packet p leads from stage a of an answer to stage b.
Step(a, p, b) ==
  \/ /\ p.type \in {"ERR", "ReadOnly"} /\ b = At("failed")
     /\ a.at \in {"start", "stmt", "head", "rows", "sys", "prep", "answer"}
  \/ /\ p.type = "OK" /\ b = Following(p.more)
     /\ a.at \in {"start", "head"} \/ (a.at \in {"stmt", "answer"} /\ ~p.more)
  \/ p.type = "Cols" /\ a.at \in {"start", "stmt", "head"} /\ b = At("defs")
  \/ p.type = "Cols" /\ a.at = "sys" /\ b = At("sysDefs")
  \/ p.type = "InFile" /\ a.at = "start" /\ b = At("file")
  \/ p.type = "Def" /\ a.at \in {"defs", "sysDefs", "blocks"} /\ b = a
  \/ p.type = "EOF" /\ a.at = "defs" /\ b = RowsAt(0)
  \/ p.type = "EOF" /\ a.at = "sysDefs" /\ b = At("sysRow")
  \/ p.type = "EOF" /\ a.at = "sysEnd" /\ b = At("done")
  \/ p.type = "EOF" /\ a.at = "blocks" /\ a.n > 0 /\ b = Blocks(a.n - 1)
  \/ p.type = "EOF" /\ a.at = "rows" /\ p.n = a.n /\ b = Following(p.more)
  \/ p.type \in {"Row", "Wide"} /\ a.at = "rows" /\ b = RowsAt(a.n + 1)
  \/ p.type = "Row" /\ a.at = "sysRow" /\ b = At("sysEnd")
  \/ p.type = "Prep" /\ a.at = "prep" /\ b = Blocks(p.params + p.cols)

\* The packets of s lead from stage a to stage b.
Run(s, a, b) ==
  \E k \in [1..Len(s) + 1 -> Stage] :
    k[1] = a /\ k[Len(s) + 1] = b /\ \A i \in 1..Len(s) : Step(k[i], s[i], k[i + 1])

Begin(o) ==
  CASE o \in {"exec", "query"}         -> At("start")
    [] o \in {"stmtExec", "stmtQuery"} -> At("stmt")
    [] o = "prepare"                   -> At("prep")
    [] o \in {"ping", "file"}          -> At("answer")
    [] o = "sysVar"                    -> At("sys")

Final == {At("done"), At("failed"), At("file")}

\* The server is about to answer.
Pending(from) ==
  /\ peer.does # "wait" /\ from = Begin(peer.does) /\ ~peer.bad
  /\ stream = <<>> /\ sequence = (peer.last + 1) % SeqMod

\* What the server has sent and the driver has not read leads from one stage to
\* another; when the connection is broken, some of it is missing.
Sent(from, to) ==
  \E s \in Seq(ServerPacket) :
    /\ Run(s, from, to)
    /\ Len(stream) <= Len(s) /\ Len(s) <= peer.last /\ (~lost => Len(stream) = Len(s))
    /\ \A i \in 1..Len(stream) :
         stream[i].packet = s[i] /\ stream[i].pos = peer.last - Len(s) + i
    /\ from.at \notin {"done", "failed"} => sequence = (peer.last - Len(s) + 1) % SeqMod

\* What is ahead of the driver begins at the stage from.
Ahead(from) ==
  \/ Pending(from)
  \/ peer.does = "wait" /\ \E to \in Final : Sent(from, to) /\ (peer.bad <=> to = At("failed"))

\* Where the driver is between two calls.
AtRest(from) ==
  /\ ~(rows.held /\ rows.mc) => from.at \in {"done", "failed"}
  /\ rows.held /\ rows.mc /\ rows.failed = "set" => ~rows.done /\ from.at = "failed"
  /\ rows.held /\ rows.mc /\ rows.failed # "set" =>
       IF rows.done THEN more /\ from = At("head") ELSE from = RowsAt(history.got)
  /\ op \in {"exec", "stmtExec"} /\ result = "ok" => from.at = "done"

\* In Exec and its relatives, and in Close.
Discarding(from) ==
  /\ ~rows.held
  /\ \/ todo = <<"header", "discard">> /\ from.at \in {"start", "stmt", "head"}
     \/ todo = <<"untilEOF", "untilEOF", "discard">> /\ from.at = "defs"
     \/ todo = <<"untilEOF", "discard">> /\ from.at = "rows"
     \/ todo = <<"untilEOF", "discard">> /\ from.at = "failed" /\ rows.failed = "set"
     \/ todo = <<"discard">> /\ from = Following(more)
     \/ todo = <<"sendFile", "discard">> /\ from.at = "file"
     \/ todo \in {<<"ok", "discard">>, <<"refusedFile", "discard">>} /\ from.at = "answer"

\* In Query and in NextResultSet.
Fetching(from) ==
  /\ rows.held <=> op = "nextSet"
  /\ rows.failed = "none"
  /\ op = "nextSet" => rows.mc
  /\ op = "stmtQuery" => ~rows.mc
  /\ \/ /\ todo = <<"queryHeader">>
        /\ op = "query" => from.at \in {"start", "head"}
        /\ op = "stmtQuery" => from.at = "stmt"
        /\ op = "nextSet" => from.at = "head" /\ ~rows.done
     \/ todo = <<"columns">> /\ from.at = "defs" /\ (op = "nextSet" => ~rows.done)
     \/ todo = <<"nextSet">> /\ from = Following(rows.mc /\ more)
     \/ todo = <<"skipRows", "nextSet">> /\ from.at = "rows" /\ rows.mc
     \/ todo = <<"sendFile", "nextSet">> /\ from.at = "file" /\ op = "query"
     \/ todo \in {<<"ok", "nextSet">>, <<"refusedFile", "nextSet">>} /\ from.at = "answer" /\ op = "query"

\* In getSystemVar, Prepare and Ping.
Asking(from) ==
  /\ ~rows.held
  /\ \/ op = "sysVar" /\ \/ todo = <<"header", "sysRow", "untilEOF">> /\ from.at = "sys"
                         \/ todo = <<"untilEOF", "sysRow", "untilEOF">> /\ from.at = "sysDefs"
                         \/ todo = <<"sysRow", "untilEOF">> /\ from.at = "sysRow"
                         \/ todo = <<"untilEOF">> /\ from.at = "sysEnd"
     \/ op = "prepare" /\ \/ todo = <<"prepare">> /\ from.at = "prep"
                          \/ todo = <<"untilEOF">> /\ from = Blocks(1)
                          \/ todo = <<"untilEOF", "untilEOF">> /\ from = Blocks(2)
     \/ op = "ping" /\ todo = <<"ok">> /\ from.at = "answer"

\* In Next.
Iterating(from) ==
  /\ todo = <<"row">> /\ rows.held /\ rows.mc /\ ~rows.done /\ rows.failed = "none"
  /\ from = RowsAt(history.got)

\* The stage that the driver expects.
Expects(from) ==
  \/ Idle /\ AtRest(from)
  \/ op \in {"exec", "stmtExec", "close"} /\ Discarding(from)
  \/ op \in {"query", "stmtQuery", "nextSet"} /\ Fetching(from)
  \/ op \in {"sysVar", "prepare", "ping"} /\ Asking(from)
  \/ op = "next" /\ Iterating(from)

Own ==
  /\ \A i \in DOMAIN stream : stream[i].of = command
  /\ ~history.garbled /\ history.foreign = 0 /\ history.exact

\* The connection is closed, or was given up.
Ended ==
  /\ Idle /\ (op \in {"exec", "stmtExec"} => result # "ok")
  /\ closed \/ (result = "badConn" /\ ~rows.held)

Talking ==
  /\ ~closed /\ (~Idle => result = "none")
  /\ \E from \in Stage : Ahead(from) /\ Expects(from)

\* A wide row was skipped, or a row was asked for behind the end of its set.
Spoilt == history.wide \/ history.overrun

SessionInv == Spoilt \/ (Own /\ (Ended \/ Talking))
-----------------------------------------------------------------------------
(* Sequence numbers, modulo SeqMod.                                        *)

LEMMA Remainder ==
  ASSUME NEW M \in Nat \ {0}, NEW a \in Nat, NEW q \in Nat, NEW r \in 0..M - 1, a = M * q + r
  PROVE  a % M = r
OBVIOUS

LEMMA ModuloAdds ==
  ASSUME NEW M \in Nat \ {0}, NEW a \in Nat, NEW b \in Nat
  PROVE  ((a % M) + b) % M = (a + b) % M /\ a % M \in 0..M - 1
<1> DEFINE r == a % M
           s == (r + b) % M
           p == a \div M
           q == (r + b) \div M
<1>1. r \in 0..M - 1 /\ p \in Nat /\ a = M * p + r
  OBVIOUS
<1>2. s \in 0..M - 1 /\ q \in Nat /\ r + b = M * q + s
  BY <1>1
<1>3. a + b = M * (p + q) + s /\ p + q \in Nat
  BY <1>1, <1>2
<1>4. (a + b) % M = s
  <2> HIDE DEF r, s, p, q
  <2>1. a + b \in Nat /\ s \in 0..M - 1 /\ p + q \in Nat /\ a + b = M * (p + q) + s
    BY <1>2, <1>3
  <2> DEFINE c == a + b
             d == p + q
  <2>2. c \in Nat /\ d \in Nat /\ c = M * d + s
    BY <2>1
  <2> HIDE DEF c, d
  <2>3. c % M = s
    BY <2>1, <2>2, Remainder
  <2> QED
    BY <2>3 DEF c
<1> QED
  BY <1>1, <1>4

-----------------------------------------------------------------------------
(* Runs.                                                                   *)

LEMMA StageTypes ==
  /\ \A x \in {"start", "stmt", "head", "defs", "sys", "sysDefs", "sysRow", "sysEnd", "prep",
               "answer", "file", "done", "failed"} : At(x) \in Stage
  /\ \A n \in Nat : RowsAt(n) \in Stage /\ Blocks(n) \in Stage
  /\ \A flag \in BOOLEAN : Following(flag) \in Stage
BY DEF At, RowsAt, Blocks, Following, Stage

\* An answer that has ended has no further packet.
LEMMA FinalStops ==
  /\ \A a, p, b : a.at \in {"done", "failed", "file"} => ~Step(a, p, b)
  /\ \A a \in Final : a.at \in {"done", "failed", "file"}
BY DEF Final, At, Step

LEMMA EmptyRun == ASSUME NEW a \in Stage, NEW b \in Stage PROVE Run(<<>>, a, b) <=> a = b
<1>1. ASSUME a = b PROVE Run(<<>>, a, b)
  <2> DEFINE k == [i \in 1..1 |-> a]
  <2>1. k \in [1..Len(<<>>) + 1 -> Stage] /\ k[1] = a /\ k[Len(<<>>) + 1] = b
    BY <1>1
  <2>2. \A i \in 1..Len(<<>>) : Step(k[i], <<>>[i], k[i + 1])
    OBVIOUS
  <2> QED
    BY <2>1, <2>2 DEF Run
<1>2. ASSUME Run(<<>>, a, b) PROVE a = b
  BY <1>2 DEF Run
<1> QED
  BY <1>1, <1>2

LEMMA SingleRun ==
  ASSUME NEW p \in ServerPacket, NEW a \in Stage, NEW b \in Stage, Step(a, p, b)
  PROVE  <<p>> \in Seq(ServerPacket) /\ Run(<<p>>, a, b)
<1> DEFINE k == [i \in 1..2 |-> IF i = 1 THEN a ELSE b]
<1>1. Len(<<p>>) = 1 /\ <<p>>[1] = p /\ <<p>> \in Seq(ServerPacket)
  OBVIOUS
<1>2. k \in [1..Len(<<p>>) + 1 -> Stage] /\ k[1] = a /\ k[Len(<<p>>) + 1] = b
  BY <1>1
<1>3. \A i \in 1..Len(<<p>>) : Step(k[i], <<p>>[i], k[i + 1])
  <2> SUFFICES Step(k[1], <<p>>[1], k[2])
    BY <1>1
  <2>1. k[1] = a /\ k[2] = b
    OBVIOUS
  <2> QED
    BY <1>1, <2>1
<1> QED
  BY <1>1, <1>2, <1>3 DEF Run

LEMMA JoinRun ==
  ASSUME NEW s \in Seq(ServerPacket), NEW t \in Seq(ServerPacket), NEW a, NEW b, NEW c,
         Run(s, a, b), Run(t, b, c)
  PROVE  s \o t \in Seq(ServerPacket) /\ Run(s \o t, a, c)
<1> DEFINE m == Len(s)
           n == Len(t)
<1>1. /\ m \in Nat /\ n \in Nat /\ s \o t \in Seq(ServerPacket) /\ Len(s \o t) = m + n
      /\ \A i \in 1..m + n : (s \o t)[i] = IF i <= m THEN s[i] ELSE t[i - m]
  BY ConcatProperties, LenProperties
<1>2. PICK k \in [1..m + 1 -> Stage] :
        k[1] = a /\ k[m + 1] = b /\ \A i \in 1..m : Step(k[i], s[i], k[i + 1])
  BY DEF Run
<1>3. PICK l \in [1..n + 1 -> Stage] :
        l[1] = b /\ l[n + 1] = c /\ \A i \in 1..n : Step(l[i], t[i], l[i + 1])
  BY DEF Run
<1> DEFINE j == [i \in 1..m + n + 1 |-> IF i <= m THEN k[i] ELSE l[i - m]]
<1> HIDE DEF m, n
<1>4. j \in [1..m + n + 1 -> Stage] /\ j[1] = a /\ j[m + n + 1] = c
  BY <1>1, <1>2, <1>3
<1>5. ASSUME NEW i \in 1..m + n PROVE Step(j[i], (s \o t)[i], j[i + 1])
  <2>1. CASE i < m
    <3>1. j[i] = k[i] /\ j[i + 1] = k[i + 1] /\ (s \o t)[i] = s[i]
      BY <1>1, <2>1
    <3> QED
      BY <1>1, <1>2, <2>1, <3>1
  <2>2. CASE i = m
    <3>1. j[i] = k[i] /\ j[i + 1] = l[1] /\ (s \o t)[i] = s[i]
      BY <1>1, <2>2
    <3> QED
      BY <1>1, <1>2, <1>3, <2>2, <3>1
  <2>3. CASE i > m
    <3>1. j[i] = l[i - m] /\ (s \o t)[i] = t[i - m] /\ i - m \in 1..n
      BY <1>1, <2>3
    <3>2. j[i + 1] = l[(i + 1) - m] /\ (i + 1) - m = (i - m) + 1
      BY <1>1, <2>3
    <3> QED
      BY <1>3, <3>1, <3>2
  <2> QED
    BY <1>1, <2>1, <2>2, <2>3
<1> QED
  BY <1>1, <1>4, <1>5 DEF Run

\* The first packet of a run, and the run of the others.
LEMMA TailRun ==
  ASSUME NEW s \in Seq(ServerPacket), s # <<>>, NEW a, NEW c, Run(s, a, c)
  PROVE  \E b \in Stage : Step(a, s[1], b) /\ Run(Tail(s), b, c)
<1> DEFINE n == Len(s)
<1>1. /\ n \in Nat \ {0} /\ Len(Tail(s)) = n - 1
      /\ \A i \in 1..n - 1 : Tail(s)[i] = s[i + 1]
  BY EmptySeq, HeadTailProperties
<1>2. PICK k \in [1..n + 1 -> Stage] :
        k[1] = a /\ k[n + 1] = c /\ \A i \in 1..n : Step(k[i], s[i], k[i + 1])
  BY DEF Run
<1> DEFINE l == [i \in 1..n |-> k[i + 1]]
<1> HIDE DEF n
<1>3. l \in [1..(n - 1) + 1 -> Stage] /\ l[1] = k[2] /\ l[(n - 1) + 1] = c
  BY <1>1, <1>2
<1>4. \A i \in 1..n - 1 : Step(l[i], Tail(s)[i], l[i + 1])
  <2> TAKE i \in 1..n - 1
  <2>1. l[i] = k[i + 1] /\ l[i + 1] = k[(i + 1) + 1] /\ Tail(s)[i] = s[i + 1] /\ i + 1 \in 1..n
    BY <1>1
  <2> QED
    BY <1>2, <2>1
<1>5. Run(Tail(s), k[2], c)
  BY <1>1, <1>3, <1>4 DEF Run
<1>6. k[2] \in Stage /\ Step(a, s[1], k[2])
  BY <1>1, <1>2
<1> QED
  BY <1>5, <1>6

-----------------------------------------------------------------------------
(* The answers of the server.                                              *)

LEMMA PacketTypes ==
  /\ \A type \in {"OK", "ERR", "ReadOnly", "EOF", "Cols", "Def", "Row", "Wide", "InFile"} :
       \A flag \in BOOLEAN : \A n \in Nat :
         /\ P(type, flag, n) \in ServerPacket
         /\ P(type, flag, n).type = type /\ P(type, flag, n).more = flag /\ P(type, flag, n).n = n
BY DEF P, ServerPacket

LEMMA FixedPackets ==
  /\ \A flag \in BOOLEAN : P("EOF", flag, 0) \in ServerPacket
  /\ P("Cols", FALSE, 0) \in ServerPacket /\ P("Def", FALSE, 0) \in ServerPacket
  /\ P("Row", FALSE, 0) \in ServerPacket /\ P("Wide", FALSE, 0) \in ServerPacket
  /\ \A n \in Nat : P("EOF", FALSE, n) \in ServerPacket
<1>1. \A flag \in BOOLEAN : P("EOF", flag, 0) \in ServerPacket
  BY PacketTypes
<1>2. P("Cols", FALSE, 0) \in ServerPacket
  BY DEF P, ServerPacket
<1>3. P("Def", FALSE, 0) \in ServerPacket
  BY DEF P, ServerPacket
<1>4. P("Row", FALSE, 0) \in ServerPacket
  BY DEF P, ServerPacket
<1>5. P("Wide", FALSE, 0) \in ServerPacket
  BY DEF P, ServerPacket
<1>6. \A n \in Nat : P("EOF", FALSE, n) \in ServerPacket
  BY DEF P, ServerPacket
<1> QED
  BY <1>1, <1>2, <1>3, <1>4, <1>5, <1>6

LEMMA IsFunction ==
  ASSUME NEW D, NEW S, NEW f, f = [x \in D |-> f[x]], \A x \in D : f[x] \in S PROVE f \in [D -> S]
OBVIOUS

LEMMA RowsRun ==
  ASSUME NEW list \in Seq({"Row", "Wide"}),
         NEW r, r = [i \in 1..Len(list) |-> P(list[i], FALSE, 0)]
  PROVE  r \in Seq(ServerPacket) /\ Run(r, RowsAt(0), RowsAt(Len(list)))
<1> DEFINE n == Len(list)
<1>1. n \in Nat /\ \A i \in 1..n : list[i] \in {"Row", "Wide"}
  BY ElementOfSeq, LenProperties
<1>2. ASSUME NEW i \in 1..n PROVE r[i] \in ServerPacket /\ r[i].type \in {"Row", "Wide"}
  <2>1. r[i] = P(list[i], FALSE, 0) /\ list[i] \in {"Row", "Wide"}
    BY <1>1
  <2> DEFINE type == list[i]
  <2>2. P(type, FALSE, 0) \in ServerPacket /\ P(type, FALSE, 0).type = type
    <3>1. type \in {"Row", "Wide"}
      BY <2>1
    <3> HIDE DEF type
    <3>2. P(type, FALSE, 0).type = type
      BY DEF P
    <3> QED
      BY <3>1, <3>2, FixedPackets
  <2> QED
    BY <2>1, <2>2
<1>3. r \in Seq(ServerPacket) /\ Len(r) = n
  <2> HIDE DEF n
  <2>1. r = [i \in 1..n |-> r[i]]
    BY DEF n
  <2>2. r \in [1..n -> ServerPacket] /\ DOMAIN r = 1..n
    <3>1. \A i \in 1..n : r[i] \in ServerPacket
      BY <1>2
    <3> HIDE DEF ServerPacket
    <3>2. DOMAIN r = 1..n
      BY <2>1, Zenon
    <3> QED
      BY <2>1, <3>1, <3>2, IsFunction
  <2>3. r \in Seq(ServerPacket)
    <3> DEFINE All == {[1..m -> ServerPacket] : m \in Nat}
    <3>1. [1..n -> ServerPacket] \in All
      BY <1>1
    <3>2. Seq(ServerPacket) = UNION All
      BY SeqDef
    <3> HIDE DEF All
    <3> QED
      BY <2>2, <3>1, <3>2
  <2>4. Len(r) \in Nat /\ 1..Len(r) = 1..n
    BY <2>2, <2>3, LenProperties
  <2>5. ~(Len(r) < n) /\ ~(n < Len(r))
    BY <1>1, <2>4
  <2>6. Len(r) = n
    BY <1>1, <2>4, <2>5
  <2> QED
    BY <2>3, <2>6
<1> DEFINE k == [i \in 1..n + 1 |-> RowsAt(i - 1)]
<1>4. k \in [1..n + 1 -> Stage] /\ k[1] = RowsAt(0) /\ k[n + 1] = RowsAt(n)
  BY <1>1, StageTypes
<1>5. \A i \in 1..n : Step(k[i], r[i], k[i + 1])
  <2> TAKE i \in 1..n
  <2>1. k[i] = RowsAt(i - 1) /\ k[i + 1] = RowsAt((i - 1) + 1)
    BY <1>1
  <2> HIDE DEF k
  <2>2. k[i].at = "rows" /\ k[i + 1] = RowsAt(k[i].n + 1)
    BY <2>1 DEF RowsAt
  <2> QED
    BY <1>2, <2>2 DEF Step
<1> QED
  BY <1>3, <1>4, <1>5 DEF Run

LEMMA HeaderRun ==
  ASSUME NEW p \in ServerPacket, NEW q \in ServerPacket, NEW r \in ServerPacket,
         NEW a \in Stage, NEW b \in Stage, NEW c \in Stage, NEW d \in Stage,
         Step(a, p, b), Step(b, q, c), Step(c, r, d)
  PROVE  <<p, q, r>> \in Seq(ServerPacket) /\ Run(<<p, q, r>>, a, d)
<1> DEFINE s == <<p, q, r>>
           k == <<a, b, c, d>>
<1>1. s \in Seq(ServerPacket) /\ Len(s) = 3 /\ s[1] = p /\ s[2] = q /\ s[3] = r
  OBVIOUS
<1>2. k \in [1..3 + 1 -> Stage] /\ k[1] = a /\ k[2] = b /\ k[3] = c /\ k[3 + 1] = d
  OBVIOUS
<1> HIDE DEF s, k
<1>3. \A i \in 1..3 : Step(k[i], s[i], k[i + 1])
  <2>1. Step(k[1], s[1], k[2]) /\ Step(k[2], s[2], k[3]) /\ Step(k[3], s[3], k[3 + 1])
    BY <1>1, <1>2
  <2> QED
    BY <2>1
<1>4. s \in Seq(ServerPacket) /\ Run(s, a, d)
  BY <1>1, <1>2, <1>3 DEF Run
<1> QED
  BY <1>4 DEF s

LEMMA ResultSetRun ==
  ASSUME NEW list \in Seq({"Row", "Wide"}), NEW flag \in BOOLEAN, NEW end \in {"EOF", "ERR"},
         NEW from \in {At("start"), At("stmt"), At("head")}
  PROVE  /\ ResultSet(list, flag, end) \in Seq(ServerPacket)
         /\ Run(ResultSet(list, flag, end), from, IF end = "EOF" THEN Following(flag) ELSE At("failed"))
<1> DEFINE n == Len(list)
           r == [i \in 1..n |-> P(list[i], FALSE, 0)]
           cols == P("Cols", FALSE, 0)
           def == P("Def", FALSE, 0)
           eof == P("EOF", flag, 0)
           last == P(end, flag, n)
           to == IF end = "EOF" THEN Following(flag) ELSE At("failed")
<1>1. n \in Nat /\ from \in Stage /\ At("defs") \in Stage /\ RowsAt(0) \in Stage /\ RowsAt(n) \in Stage
      /\ to \in Stage
  BY LenProperties, StageTypes
<1>2. cols \in ServerPacket /\ def \in ServerPacket /\ eof \in ServerPacket /\ last \in ServerPacket
  <2>1. last \in ServerPacket
    BY <1>1, PacketTypes
  <2> QED
    BY <2>1, FixedPackets
<1>3. Step(from, cols, At("defs")) /\ Step(At("defs"), def, At("defs"))
  BY DEF Step, At, P
<1>4. Step(At("defs"), eof, RowsAt(0))
  BY DEF Step, At, P
<1>5. Step(RowsAt(n), last, to)
  BY DEF Step, RowsAt, P
<1>6. r \in Seq(ServerPacket) /\ Run(r, RowsAt(0), RowsAt(n))
  BY RowsRun
<1> HIDE DEF n, r, cols, def, eof, last, to
<1>7. <<cols, def, eof>> \in Seq(ServerPacket) /\ Run(<<cols, def, eof>>, from, RowsAt(0))
  BY <1>1, <1>2, <1>3, <1>4, HeaderRun
<1>8. <<last>> \in Seq(ServerPacket) /\ Run(<<last>>, RowsAt(n), to)
  BY <1>1, <1>2, <1>5, SingleRun
<1>9. <<cols, def, eof>> \o r \in Seq(ServerPacket) /\ Run(<<cols, def, eof>> \o r, from, RowsAt(n))
  BY <1>6, <1>7, JoinRun
<1>10. /\ (<<cols, def, eof>> \o r) \o <<last>> \in Seq(ServerPacket)
       /\ Run((<<cols, def, eof>> \o r) \o <<last>>, from, to)
  BY <1>8, <1>9, JoinRun
<1>11. ResultSet(list, flag, end) = (<<cols, def, eof>> \o r) \o <<last>>
  <2>1. ResultSet(list, flag, end) = <<cols, def, eof>> \o r \o <<last>>
    BY DEF ResultSet, n, r, cols, def, eof, last
  <2> QED
    BY <2>1
<1> QED
  BY <1>10, <1>11 DEF to

\* A response is well formed as a run from where its command begins.
WellFormed(response, from) ==
  response \in Seq(ServerPacket) /\ \E to \in Final : Run(response, from, to)

LEMMA OnePacket ==
  ASSUME NEW p \in ServerPacket, NEW a \in Stage, NEW b \in Final, Step(a, p, b)
  PROVE  WellFormed(<<p>>, a)
BY SingleRun, StageTypes DEF WellFormed, Final

LEMMA SuccessRun ==
  ASSUME NEW flag \in BOOLEAN, NEW s \in Success(flag),
         NEW from \in {At("start"), At("head"), At("stmt")}, from = At("stmt") => ~flag
  PROVE  s \in Seq(ServerPacket) /\ Run(s, from, Following(flag))
<1>1. CASE s = <<P("OK", flag, 0)>>
  <2>1. P("OK", flag, 0) \in ServerPacket /\ Step(from, P("OK", flag, 0), Following(flag))
    BY PacketTypes DEF Step, At, P
  <2> QED
    BY <1>1, <2>1, SingleRun, StageTypes
<1>2. CASE \E l \in RowLists : s = ResultSet(l, flag, "EOF")
  <2>1. PICK l \in RowLists : s = ResultSet(l, flag, "EOF")
    BY <1>2
  <2>2. l \in Seq({"Row", "Wide"})
    BY SessionAssumption DEF RowLists
  <2> QED
    BY <2>1, <2>2, ResultSetRun
<1> QED
  BY <1>1, <1>2 DEF Success

LEMMA FailureRun ==
  ASSUME NEW s \in Failure, NEW from \in {At("start"), At("head"), At("stmt")}
  PROVE  s \in Seq(ServerPacket) /\ Run(s, from, At("failed"))
<1>1. CASE s \in {<<P("ERR", FALSE, 0)>>, <<P("ReadOnly", FALSE, 0)>>}
  <2>1. PICK p \in {P("ERR", FALSE, 0), P("ReadOnly", FALSE, 0)} : s = <<p>>
    BY <1>1
  <2>2. p \in ServerPacket /\ Step(from, p, At("failed"))
    <3>1. P("ERR", FALSE, 0) \in ServerPacket /\ P("ReadOnly", FALSE, 0) \in ServerPacket
      BY PacketTypes
    <3>2. p.type \in {"ERR", "ReadOnly"} /\ from.at \in {"start", "head", "stmt"}
      BY DEF P, At
    <3> QED
      BY <3>1, <3>2 DEF Step
  <2> QED
    BY <2>1, <2>2, SingleRun, StageTypes
<1>2. CASE s = ResultSet(<<"Row">>, FALSE, "ERR")
  <2>1. <<"Row">> \in Seq({"Row", "Wide"})
    OBVIOUS
  <2>2. /\ ResultSet(<<"Row">>, FALSE, "ERR") \in Seq(ServerPacket)
        /\ Run(ResultSet(<<"Row">>, FALSE, "ERR"), from, IF "ERR" = "EOF" THEN Following(FALSE) ELSE At("failed"))
    BY <2>1, ResultSetRun
  <2> QED
    BY <1>2, <2>2
<1> QED
  BY <1>1, <1>2 DEF Failure

\* The response to SELECT @@max_allowed_packet.
LEMMA VariableRun == WellFormed(ResultSet(<<"Row">>, FALSE, "EOF"), At("sys"))
<1> DEFINE list == <<"Row">>
           cols == P("Cols", FALSE, 0)
           def == P("Def", FALSE, 0)
           eof == P("EOF", FALSE, 0)
           row == P("Row", FALSE, 0)
           r == [i \in 1..Len(list) |-> P(list[i], FALSE, 0)]
           last == P("EOF", FALSE, 1)
<1>1. Len(list) = 1 /\ list[1] = "Row"
  OBVIOUS
<1>2. r = <<row>>
  <2>1. r = [i \in 1..1 |-> row]
    <3> HIDE DEF list
    <3>1. \A i \in 1..1 : list[i] = "Row"
      BY <1>1
    <3> QED
      BY <1>1, <3>1
  <2>2. <<row>> \in Seq({row}) /\ Len(<<row>>) = 1 /\ <<row>>[1] = row
    OBVIOUS
  <2> HIDE DEF r, row
  <2>3. r \in Seq({row}) /\ Len(r) = 1 /\ r[1] = row
    BY <2>1
  <2> QED
    BY <2>2, <2>3, SeqEqual
<1>3. ResultSet(list, FALSE, "EOF") = (<<cols, def, eof>> \o <<row>>) \o <<last>>
  <2>1. ResultSet(list, FALSE, "EOF") = <<cols, def, eof>> \o r \o <<P("EOF", FALSE, Len(list))>>
    BY DEF ResultSet
  <2> HIDE DEF list, r
  <2> QED
    BY <1>1, <1>2, <2>1
<1>4. /\ cols \in ServerPacket /\ def \in ServerPacket /\ eof \in ServerPacket /\ row \in ServerPacket /\ last \in ServerPacket
      /\ At("sys") \in Stage /\ At("sysDefs") \in Stage /\ At("sysRow") \in Stage
      /\ At("sysEnd") \in Stage /\ At("done") \in Stage
  <2>1. cols \in ServerPacket /\ def \in ServerPacket /\ eof \in ServerPacket /\ row \in ServerPacket
    BY FixedPackets
  <2>2. last \in ServerPacket
    BY FixedPackets
  <2> QED
    BY <2>1, <2>2, StageTypes
<1>5. Step(At("sys"), cols, At("sysDefs")) /\ Step(At("sysDefs"), def, At("sysDefs"))
  BY DEF Step, At, P
<1>6. Step(At("sysDefs"), eof, At("sysRow")) /\ Step(At("sysRow"), row, At("sysEnd"))
  BY DEF Step, At, P
<1>7. Step(At("sysEnd"), last, At("done"))
  BY DEF Step, At, P
<1> HIDE DEF list, cols, def, eof, row, last
<1>8. <<cols, def, eof>> \in Seq(ServerPacket) /\ Run(<<cols, def, eof>>, At("sys"), At("sysRow"))
  BY <1>4, <1>5, <1>6, HeaderRun
<1>9. /\ <<row>> \in Seq(ServerPacket) /\ Run(<<row>>, At("sysRow"), At("sysEnd"))
      /\ <<last>> \in Seq(ServerPacket) /\ Run(<<last>>, At("sysEnd"), At("done"))
  BY <1>4, <1>6, <1>7, SingleRun
<1>10. <<cols, def, eof>> \o <<row>> \in Seq(ServerPacket) /\ Run(<<cols, def, eof>> \o <<row>>, At("sys"), At("sysEnd"))
  BY <1>8, <1>9, JoinRun
<1>11. /\ (<<cols, def, eof>> \o <<row>>) \o <<last>> \in Seq(ServerPacket)
       /\ Run((<<cols, def, eof>> \o <<row>>) \o <<last>>, At("sys"), At("done"))
  BY <1>9, <1>10, JoinRun
<1> QED
  BY <1>3, <1>11 DEF WellFormed, Final, list

LEMMA JoinedRun ==
  ASSUME NEW s \in Seq(ServerPacket), NEW t \in Seq(ServerPacket),
         NEW from, NEW b, NEW to \in Final, Run(s, from, b), Run(t, b, to)
  PROVE  WellFormed(s \o t, from)
BY JoinRun DEF WellFormed

LEMMA JoinedParts ==
  ASSUME NEW A, NEW B, NEW s \in Joined(A, B) PROVE \E a \in A, b \in B : s = a \o b
BY SMT DEF Joined

LEMMA FollowingFinal == Following(FALSE) = At("done") /\ At("done") \in Final /\ At("failed") \in Final
                        /\ At("file") \in Final /\ Following(TRUE) = At("head")
BY DEF Following, Final

\* What follows the first statement of a query, or the only one.
LEMMA LastRun ==
  ASSUME NEW t \in Success(FALSE) \cup Failure, NEW from \in {At("start"), At("head"), At("stmt")}
  PROVE  t \in Seq(ServerPacket) /\ \E to \in Final : Run(t, from, to)
BY SuccessRun, FailureRun, FollowingFinal

LEMMA TextResponse ==
  ASSUME NEW o \in {"exec", "query"}, NEW s \in Responses(o) PROVE WellFormed(s, At("start"))
<1> DEFINE last == Success(FALSE) \cup Failure
<1>1. s \in last \cup File \cup Joined(Success(TRUE), last)
  <2>1. s \in TextResponses
    BY DEF Responses
  <2> QED
    BY <2>1 DEF TextResponses
<1>2. CASE s \in last
  BY <1>2, LastRun DEF WellFormed
<1>3. CASE s \in File
  <2>1. P("InFile", FALSE, 0) \in ServerPacket
    BY PacketTypes
  <2>2. Step(At("start"), P("InFile", FALSE, 0), At("file"))
    BY DEF Step, At, P
  <2> QED
    BY <1>3, <2>1, <2>2, OnePacket, StageTypes, FollowingFinal DEF File
<1>4. CASE s \in Joined(Success(TRUE), last)
  <2> DEFINE first == Success(TRUE)
  <2>4. s \in Joined(first, last)
    BY <1>4
  <2> HIDE DEF last, first
  <2>1. PICK a \in first, b \in last : s = a \o b
    BY <2>4, JoinedParts
  <2>2. a \in Seq(ServerPacket) /\ Run(a, At("start"), At("head"))
    <3>1. At("start") # At("stmt")
      BY DEF At
    <3> QED
      BY <3>1, <2>1, SuccessRun, FollowingFinal DEF first
  <2>3. PICK to \in Final : b \in Seq(ServerPacket) /\ Run(b, At("head"), to)
    BY <2>1, LastRun DEF last
  <2> QED
    BY <2>1, <2>2, <2>3, JoinedRun
<1> QED
  BY <1>1, <1>2, <1>3, <1>4

LEMMA StmtLists ==
  ASSUME NEW l \in UNION {[1..k -> {"Row"}] : k \in 0..MaxRows} PROVE l \in Seq({"Row", "Wide"})
<1>1. PICK k \in 0..MaxRows : l \in [1..k -> {"Row"}]
  OBVIOUS
<1>2. k \in Nat
  BY SessionAssumption
<1>3. l \in Seq({"Row"})
  BY <1>1, <1>2
<1> QED
  BY <1>3

LEMMA StmtResponse ==
  ASSUME NEW o \in {"stmtExec", "stmtQuery"}, NEW s \in Responses(o) PROVE WellFormed(s, At("stmt"))
<1> DEFINE lists == UNION {[1..k -> {"Row"}] : k \in 0..MaxRows}
           sets == {ResultSet(l, TRUE, "EOF") : l \in lists}
           lasts == {ResultSet(l, FALSE, "EOF") : l \in lists}
           ok == {<<P("OK", FALSE, 0)>>}
           two == Joined(sets, ok)
<1>1. s \in ok \cup lasts \cup Failure \cup two \cup Joined(sets, two)
  <2>1. s \in StmtResponses
    BY DEF Responses
  <2> QED
    BY <2>1 DEF StmtResponses
<1>2. ASSUME NEW a \in sets, NEW from \in {At("stmt"), At("head")}
      PROVE  a \in Seq(ServerPacket) /\ Run(a, from, At("head"))
  <2>1. PICK l \in lists : a = ResultSet(l, TRUE, "EOF")
    OBVIOUS
  <2>2. l \in Seq({"Row", "Wide"})
    BY <2>1, StmtLists
  <2> QED
    BY <2>1, <2>2, ResultSetRun, FollowingFinal
<1>3. ASSUME NEW a \in ok, NEW from \in {At("stmt"), At("head")}
      PROVE  a \in Seq(ServerPacket) /\ Run(a, from, At("done"))
  <2>1. a \in Success(FALSE)
    BY DEF Success
  <2> QED
    BY <2>1, SuccessRun, FollowingFinal
<1>4. ASSUME NEW a \in lasts PROVE WellFormed(a, At("stmt"))
  <2>1. PICK l \in lists : a = ResultSet(l, FALSE, "EOF")
    OBVIOUS
  <2>2. l \in Seq({"Row", "Wide"})
    BY <2>1, StmtLists
  <2>3. a \in Seq(ServerPacket) /\ Run(a, At("stmt"), At("done"))
    BY <2>1, <2>2, ResultSetRun, FollowingFinal
  <2> QED
    BY <2>3, FollowingFinal DEF WellFormed
<1>5. s \in Failure => WellFormed(s, At("stmt"))
  BY FailureRun, FollowingFinal DEF WellFormed
<1>6. s \in ok => WellFormed(s, At("stmt"))
  BY <1>3, FollowingFinal DEF WellFormed
<1>7. ASSUME NEW t \in two, NEW from \in {At("stmt"), At("head")}
      PROVE  t \in Seq(ServerPacket) /\ Run(t, from, At("done"))
  <2> HIDE DEF sets, ok
  <2>1. PICK a \in sets, b \in ok : t = a \o b
    BY JoinedParts
  <2>2. a \in Seq(ServerPacket) /\ Run(a, from, At("head"))
    BY <1>2, <2>1
  <2>3. b \in Seq(ServerPacket) /\ Run(b, At("head"), At("done"))
    BY <1>3, <2>1
  <2> QED
    BY <2>1, <2>2, <2>3, JoinRun
<1>8. s \in two => WellFormed(s, At("stmt"))
  BY <1>7, FollowingFinal DEF WellFormed
<1>9. ASSUME s \in Joined(sets, two) PROVE WellFormed(s, At("stmt"))
  <2> HIDE DEF sets, two
  <2>1. PICK a \in sets, b \in two : s = a \o b
    BY <1>9, JoinedParts
  <2>2. a \in Seq(ServerPacket) /\ Run(a, At("stmt"), At("head"))
    BY <1>2, <2>1
  <2>3. b \in Seq(ServerPacket) /\ Run(b, At("head"), At("done"))
    BY <1>7, <2>1
  <2> QED
    BY <2>1, <2>2, <2>3, JoinedRun, FollowingFinal
<1> HIDE DEF lists, sets, lasts, ok, two
<1> QED
  BY <1>1, <1>4, <1>5, <1>6, <1>8, <1>9

\* The definitions of the parameters, or of the columns, of a prepared statement.
LEMMA DefinitionsRun ==
  ASSUME NEW n \in 0..1, NEW m \in 0..1
  PROVE  Definitions(n) \in Seq(ServerPacket) /\ Run(Definitions(n), Blocks(n + m), Blocks(m))
<1>1. Blocks(m) \in Stage /\ Blocks(n + m) \in Stage
  BY StageTypes
<1>2. CASE n = 0
  BY <1>1, <1>2, EmptyRun DEF Definitions
<1>3. CASE n = 1
  <2> DEFINE p == P("Def", FALSE, 0)
             q == P("EOF", FALSE, 0)
             s == <<p>> \o <<q>>
  <2>1. p \in ServerPacket /\ q \in ServerPacket
    BY PacketTypes
  <2>2. p.type = "Def" /\ q.type = "EOF"
    BY DEF P
  <2> HIDE DEF p, q
  <2>6. Blocks(n + m) = [at |-> "blocks", n |-> m + 1]
    BY <1>3 DEF Blocks
  <2>7. Step(Blocks(n + m), p, Blocks(n + m))
    BY <2>2, <2>6 DEF Step
  <2>8. Step(Blocks(n + m), q, Blocks(m))
    <3>1. (m + 1) - 1 = m /\ m + 1 > 0
      OBVIOUS
    <3> QED
      BY <2>2, <2>6, <3>1 DEF Step
  <2>3. s \in Seq(ServerPacket) /\ Run(s, Blocks(n + m), Blocks(m))
    BY <1>1, <2>1, <2>7, <2>8, SingleRun, JoinRun
  <2>4. s = <<p, q>>
    <3>1. s \in Seq({p, q}) /\ Len(s) = 2 /\ s[1] = p /\ s[2] = q
      OBVIOUS
    <3>2. <<p, q>> \in Seq({p, q}) /\ Len(<<p, q>>) = 2 /\ <<p, q>>[1] = p /\ <<p, q>>[2] = q
      OBVIOUS
    <3>3. \A i \in 1..2 : s[i] = <<p, q>>[i]
      BY <3>1, <3>2
    <3> HIDE DEF s
    <3> QED
      BY <3>1, <3>2, <3>3, SeqEqual
  <2>5. Definitions(n) = <<p, q>>
    BY <1>3 DEF Definitions, p, q
  <2> QED
    BY <2>3, <2>4, <2>5
<1> QED
  BY <1>2, <1>3

LEMMA PrepareResponse == ASSUME NEW s \in Responses("prepare") PROVE WellFormed(s, At("prep"))
<1>1. s = <<P("ERR", FALSE, 0)>> \/ \E p, c \in 0..1 : s = Statement(p, c)
  <2>1. s = <<P("ERR", FALSE, 0)>> \/ s \in Statements
    BY DEF Responses
  <2>2. s \in Statements => \E p, c \in 0..1 : s = Statement(p, c)
    BY DEF Statements
  <2> QED
    BY <2>1, <2>2
<1>2. CASE s = <<P("ERR", FALSE, 0)>>
  <2>1. P("ERR", FALSE, 0) \in ServerPacket
    BY PacketTypes
  <2>2. Step(At("prep"), P("ERR", FALSE, 0), At("failed"))
    BY DEF Step, At, P
  <2> QED
    BY <1>2, <2>1, <2>2, OnePacket, StageTypes, FollowingFinal
<1>3. ASSUME NEW p \in 0..1, NEW c \in 0..1, s = Statement(p, c)
      PROVE  WellFormed(s, At("prep"))
  <2> DEFINE prep == [type |-> "Prep", more |-> FALSE, n |-> 0, params |-> p, cols |-> c]
  <2>1. prep \in ServerPacket /\ Step(At("prep"), prep, Blocks(p + c))
    BY DEF ServerPacket, Step, At
  <2>7. s = (<<prep>> \o Definitions(p)) \o Definitions(c)
    <3>1. s = <<prep>> \o Definitions(p) \o Definitions(c)
      BY <1>3 DEF Statement
    <3> QED
      BY <3>1
  <2> HIDE DEF prep
  <2>2. At("prep") \in Stage /\ Blocks(p + c) \in Stage
    BY StageTypes
  <2>3. <<prep>> \in Seq(ServerPacket) /\ Run(<<prep>>, At("prep"), Blocks(p + c))
    BY <2>1, <2>2, SingleRun
  <2>4. Definitions(p) \in Seq(ServerPacket) /\ Run(Definitions(p), Blocks(p + c), Blocks(c))
    BY DefinitionsRun
  <2>5. /\ <<prep>> \o Definitions(p) \in Seq(ServerPacket)
        /\ Run(<<prep>> \o Definitions(p), At("prep"), Blocks(c))
    BY <2>3, <2>4, JoinRun
  <2>6. Definitions(c) \in Seq(ServerPacket) /\ Run(Definitions(c), Blocks(c), At("done"))
    <3>1. Blocks(c + 0) = Blocks(c) /\ Blocks(0) = At("done")
      BY DEF Blocks
    <3> QED
      BY <3>1, DefinitionsRun
  <2> QED
    BY <2>7, <2>5, <2>6, JoinedRun, FollowingFinal
<1> QED
  BY <1>1, <1>2, <1>3

\* Every answer of the server is a run from where its command begins.
LEMMA ResponsesRun ==
  ASSUME NEW o \in Command \cup {"file"}, NEW s \in Responses(o)
  PROVE  WellFormed(s, Begin(o))
<1>1. CASE o \in {"exec", "query"}
  BY <1>1, TextResponse DEF Begin
<1>2. CASE o \in {"stmtExec", "stmtQuery"}
  BY <1>2, StmtResponse DEF Begin
<1>3. CASE o = "prepare"
  BY <1>3, PrepareResponse DEF Begin
<1>4. CASE o \in {"ping", "file"}
  <2>1. PICK type \in {"OK", "ERR"} : s = <<P(type, FALSE, 0)>>
    BY <1>4 DEF Responses
  <2> DEFINE p == P(type, FALSE, 0)
  <2>2. p \in ServerPacket
    BY DEF P, ServerPacket
  <2>3. Step(At("answer"), p, At("done")) \/ Step(At("answer"), p, At("failed"))
    BY DEF Step, At, P, Following
  <2> QED
    BY <1>4, <2>1, <2>2, <2>3, OnePacket, StageTypes, FollowingFinal DEF Begin
<1>5. CASE o = "sysVar"
  <2>1. s = ResultSet(<<"Row">>, FALSE, "EOF") \/ s = <<P("ERR", FALSE, 0)>>
    <3>1. s \in VariableResponses
      BY <1>5 DEF Responses
    <3> QED
      BY <3>1 DEF VariableResponses
  <2>2. CASE s = <<P("ERR", FALSE, 0)>>
    <3>1. P("ERR", FALSE, 0) \in ServerPacket
      BY PacketTypes
    <3>2. Step(At("sys"), P("ERR", FALSE, 0), At("failed"))
      BY DEF Step, At, P
    <3> QED
      BY <1>5, <2>2, <3>1, <3>2, OnePacket, StageTypes, FollowingFinal DEF Begin
  <2> QED
    BY <1>5, <2>1, <2>2, VariableRun DEF Begin
<1> QED
  BY <1>1, <1>2, <1>3, <1>4, <1>5 DEF Command

\* An answer ends in failure when there is an error in it, and only then.
LEMMA BadRun ==
  ASSUME NEW s \in Seq(ServerPacket), NEW from \in Stage, from # At("failed"), NEW to \in Final, Run(s, from, to)
  PROVE  Bad(s) <=> to = At("failed")
<1> DEFINE n == Len(s)
<1>1. n \in Nat /\ DOMAIN s = 1..n
  BY LenProperties
<1>2. PICK k \in [1..n + 1 -> Stage] :
        k[1] = from /\ k[n + 1] = to /\ \A i \in 1..n : Step(k[i], s[i], k[i + 1])
  BY DEF Run
<1> HIDE DEF n
<1>3. ASSUME NEW i \in 1..n, s[i].type \in {"ERR", "ReadOnly"} PROVE to = At("failed")
  <2>1. Step(k[i], s[i], k[i + 1])
    BY <1>2
  <2>2. k[i + 1] = At("failed")
    BY <1>3, <2>1 DEF Step
  <2>3. CASE i = n
    BY <1>2, <2>2, <2>3
  <2>4. CASE i # n
    <3>1. i + 1 \in 1..n
      BY <1>1, <2>4
    <3>2. Step(At("failed"), s[i + 1], k[(i + 1) + 1])
      BY <1>2, <2>2, <3>1
    <3> QED
      BY <3>2, FinalStops, FollowingFinal
  <2> QED
    BY <2>3, <2>4
<1>4. ASSUME to = At("failed") PROVE \E i \in 1..n : s[i].type \in {"ERR", "ReadOnly"}
  <2>1. n # 0
    BY <1>2, <1>4
  <2>2. n \in 1..n
    BY <1>1, <2>1
  <2>3. Step(k[n], s[n], At("failed"))
    BY <1>2, <1>4, <2>2
  <2>4. s[n].type \in {"ERR", "ReadOnly"}
    BY <2>3 DEF Step, At, RowsAt, Blocks, Following
  <2> QED
    BY <2>2, <2>4
<1> QED
  BY <1>1, <1>3, <1>4 DEF Bad

-----------------------------------------------------------------------------
(* Types.                                                                  *)

Outcome == {"ok", "err", "eof", "badConn", "invalid", "none"}

PeerType == [does : Command \cup {"wait", "file"}, last : Nat, bad : BOOLEAN]

\* The connection and the server.
WireType ==
  /\ sequence \in 0..SeqMod - 1 /\ lost \in BOOLEAN /\ command \in 0..MaxCommands
  /\ stream \in Seq(Item) /\ buffered \in 0..Len(stream)
  /\ peer \in PeerType

\* The driver and its caller.
CallType ==
  /\ op \in Command \cup {"none", "stmtClose", "next", "nextSet", "close"}
  /\ todo \in Seq(Routine) /\ result \in Outcome
  /\ more \in BOOLEAN /\ closed \in BOOLEAN /\ prepared \in BOOLEAN
  /\ rows \in [held : BOOLEAN, binary : BOOLEAN, mc : BOOLEAN, done : BOOLEAN,
              failed : {"none", "row", "set"}]
  /\ history \in [foreign : Nat, garbled : BOOLEAN, wide : BOOLEAN, overrun : BOOLEAN,
                 got : Nat, exact : BOOLEAN]

LEMMA PeerMoves ==
  ASSUME NEW p \in PeerType, NEW does \in {"wait", "file"}, NEW bad \in BOOLEAN, NEW n \in Nat
  PROVE  [p EXCEPT !.does = does, !.bad = bad, !.last = @ + n] \in PeerType
<1> DEFINE last == p.last + n
<1>1. last \in Nat /\ does \in Command \cup {"wait", "file"}
  BY DEF PeerType
<1> HIDE DEF last
<1>2. [p EXCEPT !.does = does, !.bad = bad, !.last = last] \in PeerType
  BY <1>1 DEF PeerType
<1> QED
  BY <1>2 DEF last

LEMMA StampTypes ==
  ASSUME WireType, NEW s \in Seq(ServerPacket)
  PROVE  /\ Stamp(s, peer.last) \in Seq(Item) /\ Len(Stamp(s, peer.last)) = Len(s)
         /\ \A i \in 1..Len(s) : Stamp(s, peer.last)[i] =
              [packet |-> s[i], of |-> command, pos |-> peer.last + i]
<1> DEFINE n == Len(s)
           t == Stamp(s, peer.last)
<1>1. n \in Nat /\ DOMAIN s = 1..n /\ \A i \in 1..n : s[i] \in ServerPacket
  BY LenProperties, ElementOfSeq
<1>2. t = [i \in 1..n |-> [packet |-> s[i], of |-> command, pos |-> peer.last + i]]
  BY <1>1 DEF Stamp
<1>3. ASSUME NEW i \in 1..n
      PROVE  [packet |-> s[i], of |-> command, pos |-> peer.last + i] \in Item
  <2>1. peer.last + i \in Nat \ {0}
    <3>1. peer.last \in Nat /\ i \in Nat /\ i >= 1
      BY <1>1 DEF WireType, PeerType
    <3> QED
      BY <3>1
  <2>2. s[i] \in ServerPacket /\ command \in 0..MaxCommands
    BY <1>1 DEF WireType
  <2> QED
    BY <2>1, <2>2 DEF Item
<1> HIDE DEF n, t
<1>4. t \in [1..n -> Item]
  BY <1>2, <1>3
<1>5. t \in Seq(Item) /\ DOMAIN t = 1..n
  BY <1>1, <1>4, SeqDef
<1>6. Len(t) \in Nat /\ 1..Len(t) = 1..n
  BY <1>5, LenProperties
<1>7. ~(Len(t) < n) /\ ~(n < Len(t))
  BY <1>1, <1>6
<1>8. Len(t) = n
  BY <1>1, <1>6, <1>7
<1> QED
  BY <1>2, <1>5, <1>8 DEF n, t

LEMMA TakeTypes ==
  ASSUME WireType, Take, stream # <<>>
  PROVE  /\ stream \in Seq(Item) /\ stream[1] \in Item
         /\ stream' = Tail(stream) /\ stream' \in Seq(Item) /\ Len(stream') = Len(stream) - 1
         /\ sequence' \in 0..SeqMod - 1 /\ buffered' \in 0..Len(stream')
<1>1. stream \in Seq(Item) /\ Len(stream) \in Nat \ {0}
  BY EmptySeq DEF WireType
<1>2. stream[1] \in Item
  BY <1>1, ElementOfSeq
<1>3. stream' = Tail(stream) /\ stream' \in Seq(Item) /\ Len(stream') = Len(stream) - 1
  BY <1>1, HeadTailProperties DEF Take
<1>4. sequence' \in 0..SeqMod - 1
  BY SessionAssumption, ModuloAdds DEF WireType, Take
<1>5. buffered' \in 0..Len(stream) - 1
  BY <1>1 DEF WireType, Take
<1> QED
  BY <1>1, <1>2, <1>3, <1>4, <1>5

LEMMA ConsumeTypes ==
  ASSUME WireType, Consume
  PROVE  /\ stream \in Seq(Item) /\ stream # <<>> /\ stream[1] \in Item /\ Packet \in ServerPacket
         /\ stream' = Tail(stream) /\ stream' \in Seq(Item) /\ Len(stream') = Len(stream) - 1
         /\ sequence' \in 0..SeqMod - 1 /\ buffered' \in 0..Len(stream')
<1>1. stream # <<>> /\ Take
  BY DEF Consume
<1>2. stream[1] \in Item
  BY <1>1, TakeTypes
<1>3. Packet \in ServerPacket
  BY <1>2 DEF Item, Packet
<1> QED
  BY <1>1, <1>3, TakeTypes

LEMMA ReadingTypes == ASSUME WireType, Consume, Quiet PROVE WireType'
BY ConsumeTypes DEF WireType, Quiet

LEMMA StreamLength == ASSUME WireType PROVE Len(stream) \in Nat /\ (stream # <<>> => Len(stream) > 0)
BY EmptySeq, LenProperties DEF WireType

LEMMA OneModulo == 1 % SeqMod \in 0..SeqMod - 1
BY SessionAssumption, ModuloAdds

\* What reads a packet.
Read ==
  \/ Header \/ QueryHeader \/ ResultOK \/ RefusedFile \/ UntilEOF \/ SkipRows
  \/ Columns \/ Row \/ SysRow \/ Prepared

LEMMA ReadConsumes == ASSUME Read PROVE Consume /\ Quiet
BY DEF Read, Header, QueryHeader, ResultOK, RefusedFile, UntilEOF, SkipRows, Skip, Columns, Row, SysRow, Prepared

LEMMA WireTypes == ASSUME WireType, [SessionNext]_sessionVars PROVE WireType'
<1>1. CASE Read
  BY <1>1, ReadConsumes, ReadingTypes
<1>2. CASE Respond
  <2>1. PICK s \in Responses(peer.does) :
          /\ stream' = stream \o Stamp(s, peer.last)
          /\ peer' = [peer EXCEPT !.does = "wait", !.bad = @ \/ Bad(s), !.last = @ + Len(s)]
    BY <1>2 DEF Respond
  <2>2. s \in Seq(ServerPacket)
    BY <1>2, <2>1, ResponsesRun DEF WellFormed, Respond, WireType, PeerType
  <2>3. stream' \in Seq(Item) /\ Len(stream') >= Len(stream)
    BY <2>1, <2>2, StampTypes, ConcatProperties, LenProperties DEF WireType
  <2>4. Bad(s) \in BOOLEAN /\ Len(s) \in Nat
    BY <2>2, LenProperties DEF Bad
  <2>5. peer' \in PeerType
    BY <2>1, <2>4, PeerMoves DEF WireType
  <2>6. UNCHANGED <<sequence, lost, command, buffered>>
    BY <1>2 DEF Respond, driverVars
  <2> QED
    BY <2>3, <2>5, <2>6 DEF WireType
<1>3. CASE Lose
  <2>1. PICK k \in buffered..Len(stream) : stream' = SubSeq(stream, 1, k)
    BY <1>3 DEF Lose
  <2>2. stream' \in Seq(Item) /\ Len(stream') = k
    BY <2>1, SubSeqProperties, LenProperties DEF WireType
  <2> QED
    BY <1>3, <2>1, <2>2 DEF Lose, WireType, driverVars
<1>4. CASE \E o \in Command : Call(o)
  <2>1. PICK o \in Command : Call(o)
    BY <1>4
  <2>2. CASE Refuse
    BY <2>1, <2>2 DEF Call, Refuse, WireType
  <2>3. CASE Send(o)
    <3>1. peer' \in PeerType
      BY <2>1, <2>3 DEF Send, PeerType
    <3>2. command' \in 0..MaxCommands
      BY <2>1, <2>3, SessionAssumption DEF Call, Send, WireType
    <3>3. sequence' \in 0..SeqMod - 1
      BY <2>3, OneModulo DEF Send
    <3>4. UNCHANGED <<stream, buffered, lost>>
      BY <2>1 DEF Call
    <3> QED
      BY <3>1, <3>2, <3>3, <3>4 DEF WireType
  <2> QED
    BY <2>1, <2>2, <2>3 DEF Call
<1>5. CASE StmtClose
  BY <1>5 DEF StmtClose, Refuse, WireType
<1>6. CASE RowsNext \/ NextResultSet \/ Close
  BY <1>6 DEF RowsNext, NextResultSet, Close, RowsCall, WireType
<1>7. CASE SendFile
  <2>1. CASE UNCHANGED <<sequence, peer>>
    BY <1>7, <2>1 DEF SendFile, WireType
  <2>2. CASE \E written \in 1..2 :
               /\ sequence' = (sequence + written) % SeqMod
               /\ peer' = [peer EXCEPT !.does = "file", !.last = @ + written]
    <3>1. PICK written \in 1..2 :
            /\ sequence' = (sequence + written) % SeqMod
            /\ peer' = [peer EXCEPT !.does = "file", !.last = @ + written]
      BY <2>2
    <3>2. sequence' \in 0..SeqMod - 1
      BY <3>1, SessionAssumption, ModuloAdds DEF WireType
    <3>3. peer' \in PeerType
      <4>1. peer' = [peer EXCEPT !.does = "file", !.bad = peer.bad, !.last = @ + written]
        BY <3>1 DEF WireType, PeerType
      <4>2. peer \in PeerType /\ peer.bad \in BOOLEAN /\ written \in Nat /\ "file" \in {"wait", "file"}
        BY DEF WireType, PeerType
      <4> QED
        BY <4>1, <4>2, PeerMoves
    <3> QED
      BY <1>7, <3>2, <3>3 DEF SendFile, WireType
  <2> QED
    BY <1>7, <2>1, <2>2 DEF SendFile
<1>8. CASE NextSet \/ DiscardResults \/ ReadFails
  BY <1>8 DEF NextSet, DiscardResults, ReadFails, WireType
<1>9. CASE OutOfSync \/ ReadGarbled
  <2>1. buffered' \in 0..Len(stream)
    BY <1>9, StreamLength DEF OutOfSync, ReadGarbled, WireType
  <2>2. UNCHANGED <<sequence, stream, peer, lost, command>>
    BY <1>9 DEF OutOfSync, ReadGarbled
  <2> QED
    BY <2>1, <2>2 DEF WireType
<1>10. CASE TakeForeign
  <2>1. Take /\ stream # <<>> /\ UNCHANGED <<peer, lost, command>>
    BY <1>10 DEF TakeForeign
  <2> QED
    BY <2>1, TakeTypes DEF WireType
<1>11. CASE UNCHANGED sessionVars
  BY <1>11 DEF sessionVars, WireType
<1> QED
  BY <1>1, <1>2, <1>3, <1>4, <1>5, <1>6, <1>7, <1>8, <1>9, <1>10, <1>11 DEF SessionNext, Caller, Work, Read

LEMMA ReturnTypes == ASSUME NEW r \in Outcome, Return(r) PROVE todo' \in Seq(Routine) /\ result' \in Outcome
BY DEF Return

LEMMA GotoTypes ==
  ASSUME NEW s \in Seq(Routine), Goto(s) PROVE todo' \in Seq(Routine) /\ result' \in Outcome
BY DEF Goto, Outcome

LEMMA TodoTypes ==
  ASSUME todo \in Seq(Routine), ~Idle
  PROVE  /\ todo[1] \in Routine /\ Rest \in Seq(Routine)
         /\ \A r \in Routine : <<r>> \o Rest \in Seq(Routine) /\ <<r>> \o todo \in Seq(Routine)
         /\ \A r, q \in Routine : <<r, q>> \o Rest \in Seq(Routine)
<1>1. todo[1] \in Routine /\ Rest \in Seq(Routine)
  BY EmptySeq, ElementOfSeq, HeadTailProperties DEF Idle, Rest
<1>2. ASSUME NEW r \in Routine, NEW t \in Seq(Routine) PROVE <<r>> \o t \in Seq(Routine)
  <2>1. <<r>> \in Seq(Routine)
    OBVIOUS
  <2> QED
    BY <2>1, ConcatProperties
<1>3. ASSUME NEW r \in Routine, NEW q \in Routine PROVE <<r, q>> \o Rest \in Seq(Routine)
  <2>1. <<r, q>> \in Seq(Routine)
    OBVIOUS
  <2> QED
    BY <1>1, <2>1, ConcatProperties
<1> QED
  BY <1>1, <1>2, <1>3

\* What of the driver a call, a routine or an error changes.
FlagTypes == more \in BOOLEAN /\ closed \in BOOLEAN /\ prepared \in BOOLEAN
RowsType == [held : BOOLEAN, binary : BOOLEAN, mc : BOOLEAN, done : BOOLEAN,
             failed : {"none", "row", "set"}]
HistoryType == [foreign : Nat, garbled : BOOLEAN, wide : BOOLEAN, overrun : BOOLEAN,
                got : Nat, exact : BOOLEAN]
OpType == Command \cup {"none", "stmtClose", "next", "nextSet", "close"}
Running == todo \in Seq(Routine) /\ result \in Outcome

LEMMA CallParts ==
  /\ CallType <=> Running /\ FlagTypes /\ rows \in RowsType /\ history \in HistoryType /\ op \in OpType
  /\ CallType' <=> Running' /\ FlagTypes' /\ rows' \in RowsType /\ history' \in HistoryType /\ op' \in OpType
BY DEF CallType, Running, FlagTypes, RowsType, HistoryType, OpType

LEMMA HistoryTypes ==
  ASSUME history \in HistoryType
  PROVE  /\ history.got \in Nat /\ history.exact \in BOOLEAN
         /\ history.wide \in BOOLEAN /\ history.overrun \in BOOLEAN
         /\ \A wide \in BOOLEAN : [history EXCEPT !.wide = wide] \in HistoryType
         /\ \A overrun \in BOOLEAN : [history EXCEPT !.overrun = overrun] \in HistoryType
         /\ \A n \in Nat : [history EXCEPT !.got = n] \in HistoryType
         /\ \A n \in Nat, exact \in BOOLEAN : [history EXCEPT !.got = n, !.exact = exact] \in HistoryType
         /\ [history EXCEPT !.garbled = TRUE] \in HistoryType
         /\ \A n \in Nat : [history EXCEPT !.foreign = n, !.garbled = TRUE] \in HistoryType
BY DEF HistoryType

LEMMA ErrorTypes ==
  ASSUME ErrorPacket, FlagTypes PROVE Running' /\ FlagTypes'
<1>1. closed' \in BOOLEAN /\ UNCHANGED <<more, prepared>>
  BY DEF ErrorPacket, FlagTypes
<1>2. Return("err") \/ Return("badConn")
  BY DEF ErrorPacket
<1>3. Running'
  BY <1>2, ReturnTypes DEF Running, Outcome
<1> QED
  BY <1>1, <1>3 DEF FlagTypes

LEMMA PacketFields ==
  ASSUME NEW p \in ServerPacket
  PROVE  p.more \in BOOLEAN /\ p.n \in Nat /\ (p.type = "Prep" => p.params \in 0..1 /\ p.cols \in 0..1)
<1>1. CASE p \in [type : {"Cols", "Def", "EOF", "Row", "Wide", "OK", "ERR", "ReadOnly", "InFile"}, more : BOOLEAN, n : Nat]
  BY <1>1
<1>2. CASE p \in [type : {"Prep"}, more : {FALSE}, n : {0}, params : 0..1, cols : 0..1]
  <2>1. p.more \in {FALSE} /\ p.n \in {0} /\ p.params \in 0..1 /\ p.cols \in 0..1
    BY <1>2
  <2>2. p.n \in Nat
    BY <2>1
  <2>3. p.more \in BOOLEAN
    BY <2>1
  <2> QED
    BY <2>1, <2>2, <2>3
<1> QED
  BY <1>1, <1>2 DEF ServerPacket

LEMMA ReadTypes == ASSUME WireType, CallType, Read PROVE CallType'
<1>1. Consume /\ Quiet /\ Packet \in ServerPacket /\ Packet.more \in BOOLEAN
  BY ReadConsumes, ConsumeTypes, PacketFields
<1>2. Running /\ FlagTypes /\ rows \in RowsType /\ history \in HistoryType /\ op \in OpType /\ op' = op
  BY <1>1, CallParts DEF Quiet
<1>3. Accept => history' \in HistoryType
  BY <1>2 DEF Accept
<1>4. Same => FlagTypes' /\ rows' \in RowsType
  BY <1>2 DEF Same, FlagTypes
<1>5. /\ \A s \in Seq(Routine) : Goto(s) => Running'
      /\ \A r \in Outcome : Return(r) => Running'
  BY GotoTypes, ReturnTypes DEF Running
<1>6. ErrorPacket => Running' /\ FlagTypes'
  BY <1>2, ErrorTypes
<1>7. ASSUME NEW f \in {"row", "set"} PROVE [rows EXCEPT !.failed = f] \in RowsType
  BY <1>2 DEF RowsType
<1>8. ~Idle => /\ Rest \in Seq(Routine) /\ <<"untilEOF">> \o Rest \in Seq(Routine)
               /\ <<"untilEOF", "untilEOF">> \o Rest \in Seq(Routine) /\ <<"sendFile">> \o Rest \in Seq(Routine)
  BY <1>2, TodoTypes DEF Running, Routine
<1>9. "err" \in Outcome /\ "ok" \in Outcome /\ "eof" \in Outcome
  BY DEF Outcome
<1>10. CASE Header
  <2>1. ~Idle /\ Accept
    BY <1>10 DEF Header, Top
  <2>2. CASE ErrorPacket /\ UNCHANGED rows
    BY <1>2, <1>3, <1>6, <2>1, <2>2, CallParts
  <2>3. CASE Is({"OK"}) /\ Goto(Rest) /\ more' = Packet.more /\ UNCHANGED <<closed, rows, prepared>>
    BY <1>1, <1>2, <1>3, <1>5, <1>8, <2>1, <2>3, CallParts DEF FlagTypes
  <2>4. CASE Same /\ Goto(IF op = "sysVar" THEN <<"untilEOF">> \o Rest
                          ELSE <<"untilEOF", "untilEOF">> \o Rest)
    BY <1>2, <1>3, <1>4, <1>5, <1>8, <2>1, <2>4, CallParts
  <2>5. CASE Same /\ Goto(<<"sendFile">> \o Rest)
    BY <1>2, <1>3, <1>4, <1>5, <1>8, <2>1, <2>5, CallParts
  <2>6. CASE Malformed /\ Same
    BY <1>2, <1>3, <1>4, <1>5, <1>9, <2>1, <2>6, CallParts DEF Malformed
  <2> QED
    BY <1>10, <2>2, <2>3, <2>4, <2>5, <2>6 DEF Header
<1>11. CASE QueryHeader
  <2>1. Accept
    BY <1>11 DEF QueryHeader
  <2>2. /\ <<"nextSet">> \in Seq(Routine) /\ <<"columns">> \in Seq(Routine)
        /\ <<"sendFile", "nextSet">> \in Seq(Routine)
    BY DEF Routine
  <2>3. CASE ErrorPacket /\ rows' = [rows EXCEPT !.failed = "set"]
    BY <1>2, <1>3, <1>6, <1>7, <2>1, <2>3, CallParts
  <2>4. CASE rows' = [rows EXCEPT !.mc = @ \/ op = "query", !.done = TRUE]
    <3>1. rows' \in RowsType
      <4>1. (rows.mc \/ op = "query") \in BOOLEAN
        OBVIOUS
      <4> QED
        BY <1>2, <2>4, <4>1 DEF RowsType
    <3>2. (Goto(<<"nextSet">>) \/ Goto(<<"sendFile", "nextSet">>)) => Running'
      BY <1>5, <2>2
    <3>3. CASE Goto(<<"nextSet">>) /\ more' = Packet.more /\ UNCHANGED <<closed, prepared>>
      BY <1>1, <1>2, <1>3, <2>1, <3>1, <3>2, <3>3, CallParts DEF FlagTypes
    <3>4. CASE Goto(<<"sendFile", "nextSet">>) /\ UNCHANGED <<more, closed, prepared>>
      BY <1>1, <1>2, <1>3, <2>1, <3>1, <3>2, <3>4, CallParts DEF FlagTypes
    <3>5. CASE ErrorPacket
      BY <1>2, <1>3, <1>6, <2>1, <3>1, <3>5, CallParts
    <3>6. CASE Malformed /\ UNCHANGED <<more, closed, prepared>>
      BY <1>2, <1>3, <1>5, <1>9, <2>1, <3>1, <3>6, CallParts DEF FlagTypes, Malformed
    <3>7. CASE Goto(<<"columns">>) /\ Same
      BY <1>2, <1>3, <1>4, <1>5, <2>1, <2>2, <3>7, CallParts
    <3> QED
      BY <1>11, <3>3, <3>4, <3>5, <3>6, <3>7 DEF QueryHeader
  <2>5. CASE Goto(<<"columns">>) /\ Same
    BY <1>2, <1>3, <1>4, <1>5, <2>1, <2>2, <2>5, CallParts
  <2>6. CASE Malformed /\ rows' = [rows EXCEPT !.failed = "set"] /\ UNCHANGED <<more, closed, prepared>>
    BY <1>2, <1>3, <1>5, <1>7, <1>9, <2>1, <2>6, CallParts DEF FlagTypes, Malformed
  <2> QED
    BY <1>11, <2>3, <2>4, <2>5, <2>6 DEF QueryHeader
<1>12. CASE ResultOK
  <2>1. CASE ErrorPacket
    BY <1>2, <1>3, <1>6, <1>12, <2>1, CallParts DEF ResultOK
  <2>2. CASE Is({"OK"}) /\ Goto(Rest) /\ more' = Packet.more /\ UNCHANGED <<closed, prepared>>
    BY <1>1, <1>2, <1>3, <1>5, <1>8, <1>12, <2>2, CallParts DEF FlagTypes, ResultOK, Top
  <2> QED
    BY <1>12, <2>1, <2>2 DEF ResultOK
<1>13. CASE RefusedFile
  BY <1>2, <1>3, <1>4, <1>5, <1>9, <1>13, CallParts DEF RefusedFile
<1>14. CASE SysRow
  BY <1>2, <1>3, <1>4, <1>5, <1>8, <1>14, CallParts DEF SysRow, Top
<1>15. ASSUME NEW routine, Skip(routine) PROVE Running' /\ FlagTypes' /\ history' \in HistoryType
  <2>1. ~Idle
    BY <1>15 DEF Skip, Top
  <2>2. history' \in HistoryType
    <3> DEFINE wide == history.wide \/ (EndsSkip /\ ~EndsRows)
    <3>1. wide \in BOOLEAN /\ history' = [history EXCEPT !.wide = wide]
      BY <1>2, <1>15 DEF Skip, HistoryType, EndsSkip, EndsRows, Is
    <3> HIDE DEF wide
    <3> QED
      BY <1>2, <3>1, HistoryTypes
  <2>3. CASE ErrorPacket
    BY <1>6, <2>2, <2>3
  <2>4. CASE Goto(Rest) /\ UNCHANGED <<closed, prepared>> /\ more' = IF EndsRows THEN Packet.more ELSE more
    BY <1>1, <1>2, <1>5, <1>8, <2>1, <2>2, <2>4 DEF FlagTypes
  <2>5. CASE UNCHANGED <<todo, result, more, closed, prepared>>
    BY <1>2, <2>2, <2>5 DEF FlagTypes, Running
  <2> QED
    BY <1>15, <2>3, <2>4, <2>5 DEF Skip
<1>16. CASE UntilEOF
  BY <1>2, <1>15, <1>16, CallParts DEF UntilEOF
<1>17. CASE SkipRows
  <2>1. rows' = [rows EXCEPT !.done = EndsSkip, !.failed = IF Is({"ERR", "ReadOnly"}) THEN "set" ELSE @]
    BY <1>17 DEF SkipRows
  <2>2. EndsSkip \in BOOLEAN /\ (IF Is({"ERR", "ReadOnly"}) THEN "set" ELSE rows.failed) \in {"none", "row", "set"}
    BY <1>2 DEF EndsSkip, Is, RowsType
  <2>3. rows' \in RowsType
    BY <1>2, <2>1, <2>2 DEF RowsType
  <2> QED
    BY <1>2, <1>15, <1>17, <2>3, CallParts DEF SkipRows
<1>18. CASE Columns
  <2>1. history' \in HistoryType
    BY <1>2, <1>18, HistoryTypes DEF Columns
  <2>2. UNCHANGED <<more, closed, prepared>>
    BY <1>18 DEF Columns
  <2>3. Running' /\ rows' \in RowsType
    <3>1. CASE Is({"EOF"})
      <4>1. Return("ok") /\ rows' = [rows EXCEPT !.held = TRUE, !.mc = TRUE, !.done = FALSE]
        BY <1>18, <3>1 DEF Columns
      <4> QED
        BY <1>2, <1>5, <1>9, <4>1 DEF RowsType
    <3>2. CASE ~Is({"EOF"})
      BY <1>2, <1>18, <3>2 DEF Columns, Running
    <3> QED
      BY <3>1, <3>2
  <2> QED
    BY <1>2, <2>1, <2>2, <2>3, CallParts DEF FlagTypes
<1>19. CASE Row
  <2>1. history' \in HistoryType
    <3> DEFINE exact == history.exact /\ (EndsRows => Packet.n = history.got)
    <3>1. /\ history.got + 1 \in Nat
          /\ exact \in BOOLEAN
          /\ history' = [history EXCEPT !.got = history.got + 1, !.exact = exact]
      BY <1>2, <1>19 DEF Row, HistoryType
    <3> HIDE DEF exact
    <3> QED
      BY <1>2, <3>1, HistoryTypes
  <2>2. CASE ErrorPacket /\ rows' = [rows EXCEPT !.mc = FALSE, !.failed = "row"]
    <3>1. rows' \in RowsType
      BY <1>2, <2>2 DEF RowsType
    <3> QED
      BY <1>2, <1>6, <2>1, <2>2, <3>1, CallParts
  <2>3. CASE /\ Return("eof") /\ more' = Packet.more /\ UNCHANGED <<closed, prepared>>
             /\ rows' = [rows EXCEPT !.done = TRUE, !.mc = Packet.more]
    <3>1. rows' \in RowsType
      BY <1>1, <1>2, <2>3 DEF RowsType
    <3> QED
      BY <1>1, <1>2, <1>5, <1>9, <2>1, <2>3, <3>1, CallParts DEF FlagTypes
  <2>4. ASSUME NEW r \in {"ok", "err", "eof"}, Return(r), UNCHANGED <<more, closed, prepared>>,
               rows' = [rows EXCEPT !.failed = IF r = "err" THEN "row" ELSE @]
        PROVE  CallType'
    <3>1. rows' \in RowsType
      BY <1>2, <2>4 DEF RowsType
    <3> QED
      BY <1>2, <1>5, <1>9, <2>1, <2>4, <3>1, CallParts DEF FlagTypes
  <2>5. CASE /\ Return("err") /\ rows' = [rows EXCEPT !.mc = FALSE, !.failed = "row"]
             /\ UNCHANGED <<more, closed, prepared>>
    <3>1. rows' \in RowsType
      BY <1>2, <2>5 DEF RowsType
    <3> QED
      BY <1>2, <1>5, <1>9, <2>1, <2>5, <3>1, CallParts DEF FlagTypes
  <2> QED
    BY <1>19, <2>2, <2>3, <2>4, <2>5 DEF Row
<1>20. CASE Prepared
  <2>1. CASE ErrorPacket
    BY <1>2, <1>3, <1>6, <1>20, <2>1, CallParts DEF Prepared
  <2>2. CASE /\ Is({"Prep"}) /\ Goto([i \in 1..(Packet.params + Packet.cols) |-> "untilEOF"])
             /\ prepared' = TRUE /\ UNCHANGED <<more, closed>>
    <3>1. Packet.params + Packet.cols \in Nat
      BY <1>1, <2>2, PacketFields DEF Is
    <3> DEFINE n == Packet.params + Packet.cols
    <3>2. [i \in 1..n |-> "untilEOF"] \in Seq(Routine)
      <4> HIDE DEF n
      <4>1. [i \in 1..n |-> "untilEOF"] \in [1..n -> Routine]
        BY DEF Routine
      <4> QED
        BY <3>1, <4>1, SeqDef DEF n
    <3> QED
      BY <1>2, <1>3, <1>5, <1>20, <2>2, <3>2, CallParts DEF Prepared, FlagTypes
  <2> QED
    BY <1>20, <2>1, <2>2 DEF Prepared
<1> QED
  BY <1>10, <1>11, <1>12, <1>13, <1>14, <1>16, <1>17, <1>18, <1>19, <1>20 DEF Read

\* What a routine sends, or decides without a packet.
LEMMA WorkTypes ==
  ASSUME WireType, CallType,
         SendFile \/ NextSet \/ DiscardResults \/ ReadFails \/ OutOfSync \/ TakeForeign \/ ReadGarbled
  PROVE  CallType'
<1>1. Running /\ FlagTypes /\ rows \in RowsType /\ history \in HistoryType /\ op \in OpType
  BY CallParts
<1>2. /\ \A s \in Seq(Routine) : Goto(s) => Running'
      /\ \A r \in Outcome : Return(r) => Running'
  BY GotoTypes, ReturnTypes DEF Running
<1>3. ~Idle => /\ Rest \in Seq(Routine)
               /\ \A r \in Routine : <<r>> \o Rest \in Seq(Routine) /\ <<r>> \o todo \in Seq(Routine)
  BY <1>1, TodoTypes DEF Running
<1>4. CASE SendFile
  <2>1. ~Idle /\ UNCHANGED <<op, more, rows, prepared, history>>
    BY <1>4 DEF SendFile, Top
  <2>2. closed' \in BOOLEAN
    BY <1>1, <1>4 DEF SendFile, FlagTypes
  <2>3. Running'
    <3>1. CASE \E wanted \in {"ok", "refusedFile"} : Goto(<<wanted>> \o Rest)
      BY <1>2, <1>3, <2>1, <3>1 DEF Routine
    <3>2. CASE Return("badConn") \/ Return("invalid")
      BY <1>2, <3>2 DEF Outcome
    <3> QED
      BY <1>4, <3>1, <3>2 DEF SendFile
  <2> QED
    BY <1>1, <2>1, <2>2, <2>3, CallParts DEF FlagTypes
<1>5. CASE NextSet
  <2>1. UNCHANGED <<op, more, closed, prepared>> /\ history' = [history EXCEPT !.got = 0]
    BY <1>5 DEF NextSet
  <2>2. history' \in HistoryType
    BY <1>1, <2>1, HistoryTypes
  <2>3. Running' /\ rows' \in RowsType
    <3>1. CASE Goto(<<"queryHeader">>) /\ rows' = [rows EXCEPT !.done = FALSE]
      <4>1. <<"queryHeader">> \in Seq(Routine)
        BY DEF Routine
      <4> QED
        BY <1>1, <1>2, <3>1, <4>1 DEF RowsType
    <3>2. CASE /\ Return(IF op = "nextSet" THEN "eof" ELSE "ok")
               /\ rows' = [rows EXCEPT !.mc = FALSE, !.held = TRUE]
      <4>1. rows' \in RowsType
        BY <1>1, <3>2 DEF RowsType
      <4> QED
        BY <1>2, <3>2, <4>1 DEF Outcome
    <3> QED
      BY <1>5, <3>1, <3>2 DEF NextSet
  <2> QED
    BY <1>1, <2>1, <2>2, <2>3, CallParts DEF FlagTypes
<1>6. CASE DiscardResults
  <2>1. ~Idle /\ UNCHANGED <<op, more, closed, rows, prepared, history>>
        /\ Goto(IF more THEN <<"header">> \o todo ELSE Rest)
    BY <1>6 DEF DiscardResults, Top
  <2>2. Running'
    BY <1>2, <1>3, <2>1 DEF Routine
  <2> QED
    BY <1>1, <2>1, <2>2, CallParts DEF FlagTypes
<1>7. CASE ReadFails
  <2>1. Running'
    BY <1>2, <1>7 DEF ReadFails, Outcome
  <2>2. rows' \in RowsType
    BY <1>1, <1>7 DEF ReadFails, RowsType
  <2> QED
    BY <1>1, <1>7, <2>1, <2>2, CallParts DEF ReadFails, FlagTypes
<1>8. CASE OutOfSync \/ TakeForeign \/ ReadGarbled
  <2>1. Running'
    <3>1. \E r \in {"ok", "err", "eof"} : Return(r)
      BY <1>8 DEF OutOfSync, TakeForeign, ReadGarbled
    <3> QED
      BY <1>2, <3>1 DEF Outcome
  <2>2. history' \in HistoryType
    <3>1. CASE OutOfSync
      BY <1>1, <3>1, HistoryTypes DEF OutOfSync
    <3>2. CASE TakeForeign
      <4>1. stream[1].pos \in Nat
        BY <3>2, TakeTypes DEF TakeForeign, Item
      <4>2. history' = [history EXCEPT !.foreign = stream[1].pos, !.garbled = TRUE]
        BY <3>2 DEF TakeForeign
      <4> QED
        BY <1>1, <4>1, <4>2, HistoryTypes
    <3>3. CASE ReadGarbled
      BY <1>1, <3>3 DEF ReadGarbled
    <3> QED
      BY <1>8, <3>1, <3>2, <3>3
  <2>3. UNCHANGED <<op, more, closed, rows, prepared>>
    BY <1>8 DEF OutOfSync, TakeForeign, ReadGarbled
  <2> QED
    BY <1>1, <2>1, <2>2, <2>3, CallParts DEF FlagTypes
<1> QED
  BY <1>4, <1>5, <1>6, <1>7, <1>8

LEMMA CallerTypes == ASSUME WireType, CallType, Caller PROVE CallType'
<1>1. Running /\ FlagTypes /\ rows \in RowsType /\ history \in HistoryType /\ op \in OpType
  BY CallParts
<1>2. /\ \A s \in Seq(Routine) : Goto(s) => Running'
      /\ \A r \in Outcome : Return(r) => Running'
  BY GotoTypes, ReturnTypes DEF Running
<1>3. "err" \in Outcome /\ "ok" \in Outcome /\ "eof" \in Outcome /\ "invalid" \in Outcome /\ "badConn" \in Outcome
  BY DEF Outcome
<1>4. \A b \in BOOLEAN : [NoRows EXCEPT !.binary = b] \in RowsType
  BY DEF NoRows, RowsType
<1>5. Refuse => Running' /\ closed' \in BOOLEAN /\ history' = history
  BY <1>1, <1>2, <1>3 DEF Refuse, FlagTypes
<1>6. /\ <<"row">> \in Seq(Routine) /\ <<"nextSet">> \in Seq(Routine) /\ <<"skipRows", "nextSet">> \in Seq(Routine)
      /\ <<"untilEOF">> \o <<"discard">> \in Seq(Routine) /\ <<>> \o <<"discard">> \in Seq(Routine)
  BY DEF Routine
<1>7. ASSUME NEW o \in Command, Call(o) PROVE CallType'
  <2>1. op' = o /\ rows' \in RowsType /\ UNCHANGED <<more, prepared>>
    <3> DEFINE b == o = "stmtQuery"
    <3>1. op' = o /\ rows' = [NoRows EXCEPT !.binary = b] /\ UNCHANGED <<more, prepared>> /\ b \in BOOLEAN
      BY <1>7 DEF Call
    <3> HIDE DEF b
    <3> QED
      BY <1>4, <3>1
  <2>2. CASE Refuse
    BY <1>1, <1>4, <1>5, <2>1, <2>2, CallParts DEF FlagTypes, OpType
  <2>3. CASE Send(o)
    <3>1. history' = [history EXCEPT !.got = 0] /\ Goto(Routines(o)) /\ closed' = closed
      BY <2>3 DEF Send
    <3>2. history' \in HistoryType
      BY <1>1, <3>1, HistoryTypes
    <3>3. Routines(o) \in Seq(Routine)
      <4>1. Routines(o) \in {<<"header", "sysRow", "untilEOF">>, <<"header", "discard">>, <<"queryHeader">>,
                             <<"prepare">>, <<"ok">>}
        BY DEF Command, Routines
      <4>2. /\ <<"header", "sysRow", "untilEOF">> \in Seq(Routine) /\ <<"header", "discard">> \in Seq(Routine)
            /\ <<"queryHeader">> \in Seq(Routine) /\ <<"prepare">> \in Seq(Routine) /\ <<"ok">> \in Seq(Routine)
        BY DEF Routine
      <4> QED
        BY <4>1, <4>2
    <3> QED
      BY <1>1, <1>2, <1>4, <2>1, <3>1, <3>2, <3>3, CallParts DEF FlagTypes, OpType
  <2> QED
    BY <1>7, <2>2, <2>3 DEF Call
<1>8. CASE StmtClose
  <2>1. op' = "stmtClose" /\ prepared' = FALSE /\ UNCHANGED <<more, rows>>
    BY <1>8 DEF StmtClose
  <2>2. Running' /\ closed' \in BOOLEAN /\ history' = history
    BY <1>1, <1>2, <1>3, <1>5, <1>8 DEF StmtClose, FlagTypes
  <2> QED
    BY <1>1, <2>1, <2>2, CallParts DEF FlagTypes, OpType
<1>9. ASSUME NEW o, RowsCall(o) PROVE op' = o /\ UNCHANGED <<more, closed, prepared>>
  BY <1>9 DEF RowsCall
<1>10. CASE RowsNext
  <2>1. op' = "next" /\ UNCHANGED <<more, closed, prepared>>
    BY <1>9, <1>10 DEF RowsNext
  <2>4. history' \in HistoryType
    <3> DEFINE overrun == history.overrun \/ (rows.mc /\ ~closed /\ rows.done /\ rows.binary)
    <3>1. history' = [history EXCEPT !.overrun = overrun] /\ overrun \in BOOLEAN
      BY <1>1, <1>10, HistoryTypes DEF RowsNext
    <3> HIDE DEF overrun
    <3> QED
      BY <1>1, <3>1, HistoryTypes
  <2>2. Running'
    BY <1>2, <1>3, <1>6, <1>10 DEF RowsNext
  <2>3. rows' \in RowsType
    BY <1>1, <1>10 DEF RowsNext, RowsType
  <2> QED
    BY <1>1, <2>1, <2>2, <2>3, <2>4, CallParts DEF FlagTypes, OpType
<1>11. CASE NextResultSet
  <2>1. op' = "nextSet" /\ UNCHANGED <<more, closed, prepared, history>>
    BY <1>9, <1>11 DEF NextResultSet
  <2>2. Running'
    BY <1>2, <1>3, <1>6, <1>11 DEF NextResultSet
  <2>3. rows' \in RowsType
    BY <1>1, <1>11 DEF NextResultSet, RowsType
  <2> QED
    BY <1>1, <2>1, <2>2, <2>3, CallParts DEF FlagTypes, OpType
<1>12. CASE Close
  <2>1. op' = "close" /\ UNCHANGED <<more, closed, prepared, history>>
    BY <1>9, <1>12 DEF Close
  <2>2. Running'
    BY <1>2, <1>3, <1>6, <1>12 DEF Close
  <2>3. rows' \in RowsType
    BY <1>1, <1>12 DEF Close, RowsType
  <2> QED
    BY <1>1, <2>1, <2>2, <2>3, CallParts DEF FlagTypes, OpType
<1> QED
  BY <1>7, <1>8, <1>10, <1>11, <1>12 DEF Caller

LEMMA CallTypes == ASSUME WireType, CallType, [SessionNext]_sessionVars PROVE CallType'
<1>1. CASE Caller
  BY <1>1, CallerTypes
<1>2. CASE Work
  BY <1>2, WorkTypes, ReadTypes DEF Work, Read
<1>3. CASE Respond \/ Lose
  BY <1>3 DEF Respond, Lose, driverVars, CallType
<1>4. CASE UNCHANGED sessionVars
  BY <1>4 DEF sessionVars, CallType
<1> QED
  BY <1>1, <1>2, <1>3, <1>4 DEF SessionNext

Typed == WireType /\ CallType

LEMMA InitTypes == SessionInit => Typed
<1> SUFFICES ASSUME SessionInit PROVE Typed
  OBVIOUS
<1>1. stream = <<>> /\ stream \in Seq(Item) /\ Len(stream) = 0
  BY EmptySeq DEF SessionInit
<1>2. WireType
  <2>1. peer \in PeerType
    BY DEF SessionInit, PeerType
  <2>2. 0 \in 0..SeqMod - 1 /\ 0 \in 0..Len(stream) /\ 0 \in 0..MaxCommands
    BY <1>1, SessionAssumption
  <2>3. sequence = 0 /\ buffered = 0 /\ command = 0
    BY DEF SessionInit
  <2>4. lost \in BOOLEAN
    BY DEF SessionInit
  <2> QED
    BY <1>1, <2>1, <2>2, <2>3, <2>4 DEF WireType
<1>3. CallType
  <2>1. NoRows \in RowsType
    BY DEF NoRows, RowsType
  <2>2. history \in HistoryType
    BY DEF SessionInit, HistoryType
  <2>3. FlagTypes
    BY DEF SessionInit, FlagTypes
  <2>4. todo = <<>> /\ result = "ok" /\ op = "none"
    BY DEF SessionInit
  <2>5. Running /\ op \in OpType
    BY <2>4, EmptySeq DEF Running, OpType, Outcome
  <2> QED
    BY <2>1, <2>2, <2>3, <2>5, CallParts DEF SessionInit
<1> QED
  BY <1>2, <1>3 DEF Typed

\* A step of the login, or of a command, is a step of the session.
LEMMA SessionSteps == [Next]_vars => [SessionNext]_sessionVars
BY DEF Next, vars, Established

THEOREM SessionTypes == Spec => []Typed
<1>1. Init => Typed
  BY InitTypes DEF Init
<1>2. Typed /\ [Next]_vars => Typed'
  BY SessionSteps, WireTypes, CallTypes DEF Typed
<1> QED
  BY <1>1, <1>2, PTL DEF Spec

\* connection.go, packets.go, rows.go, auth.go: the variables of the login and of the
\* commands keep their types; in particular the buffer never holds more than what
\* the server has sent.
THEOREM TypesHold == Spec => []TypeOK
<1>1. Typed => SessionTypeOK
  BY DEF Typed, WireType, CallType, SessionTypeOK, Outcome, PeerType
<1> QED
  BY <1>1, SessionTypes, LoginTypes, PTL DEF TypeOK

-----------------------------------------------------------------------------
(* What is ahead of the driver.                                            *)

LEMMA BeginStage ==
  ASSUME NEW o \in Command \cup {"file"}
  PROVE  Begin(o) \in Stage /\ Begin(o).at \in {"start", "stmt", "prep", "answer", "sys"}
<1>1. CASE o \in {"exec", "query"}
  BY <1>1 DEF Begin, At, Stage
<1>2. CASE o \in {"stmtExec", "stmtQuery"}
  BY <1>2 DEF Begin, At, Stage
<1>3. CASE o = "prepare"
  BY <1>3 DEF Begin, At, Stage
<1>4. CASE o \in {"ping", "file"}
  BY <1>4 DEF Begin, At, Stage
<1>5. CASE o = "sysVar"
  BY <1>5 DEF Begin, At, Stage
<1> QED
  BY <1>1, <1>2, <1>3, <1>4, <1>5 DEF Command

LEMMA FinalStages == Final \subseteq Stage
BY StageTypes DEF Final

\* Packets are numbered as they are expected.
LEMMA NumbersAgree ==
  ASSUME WireType, NEW from \in Stage, Ahead(from), stream # <<>> PROVE InSequence(stream[1])
<1>1. PICK to \in Final : Sent(from, to)
  BY DEF Ahead, Pending
<1>2. PICK s \in Seq(ServerPacket) :
        /\ Run(s, from, to) /\ Len(stream) <= Len(s)
        /\ \A i \in 1..Len(stream) :
             stream[i].packet = s[i] /\ stream[i].pos = peer.last - Len(s) + i
        /\ from.at \notin {"done", "failed"} => sequence = (peer.last - Len(s) + 1) % SeqMod
  BY <1>1 DEF Sent
<1>3. Len(stream) \in Nat \ {0} /\ s # <<>>
  BY <1>2, EmptySeq, LenProperties DEF WireType
<1>4. from.at \notin {"done", "failed"}
  BY <1>2, <1>3, TailRun, FinalStops
<1>5. 1 \in 1..Len(stream)
  BY <1>3
<1>6. stream[1].pos = peer.last - Len(s) + 1
  BY <1>2, <1>5
<1> QED
  BY <1>2, <1>4, <1>6 DEF InSequence

\* An answer that has ended leaves nothing.
LEMMA AtTheEnd ==
  ASSUME WireType, NEW from \in Stage, Ahead(from), from.at \in {"done", "failed", "file"}
  PROVE  /\ stream = <<>> /\ peer.does = "wait" /\ (peer.bad <=> from.at = "failed")
         /\ from.at = "file" => sequence = (peer.last + 1) % SeqMod
<1>1. ~Pending(from)
  BY BeginStage DEF Pending, WireType, PeerType
<1>2. peer.does = "wait"
  BY <1>1 DEF Ahead
<1>3. PICK to \in Final : Sent(from, to) /\ (peer.bad <=> to = At("failed"))
  BY <1>1 DEF Ahead
<1>4. PICK s \in Seq(ServerPacket) :
        /\ Run(s, from, to) /\ Len(stream) <= Len(s)
        /\ from.at \notin {"done", "failed"} => sequence = (peer.last - Len(s) + 1) % SeqMod
  BY <1>3 DEF Sent
<1>5. s = <<>>
  BY <1>4, TailRun, FinalStops
<1>6. from = to
  BY <1>4, <1>5, EmptyRun, FinalStages
<1>7. stream = <<>>
  BY <1>4, <1>5, EmptySeq, LenProperties DEF WireType
<1>8. from.at = "failed" <=> to = At("failed")
  BY <1>3, <1>6 DEF Final, At
<1>9. from.at = "file" => sequence = (peer.last + 1) % SeqMod
  <2>1. Len(s) = 0 /\ peer.last \in Nat
    BY <1>5 DEF WireType, PeerType
  <2>2. peer.last - Len(s) + 1 = peer.last + 1
    BY <2>1
  <2> QED
    BY <1>4, <2>2
<1> QED
  BY <1>2, <1>3, <1>7, <1>8, <1>9

\* A driver in the middle of an answer does not wait in vain.
LEMMA SomethingComes ==
  ASSUME WireType, NEW from \in Stage, Ahead(from), from.at \notin {"done", "failed", "file"},
         ~lost, stream = <<>>
  PROVE  peer.does # "wait"
<1> SUFFICES ASSUME peer.does = "wait" PROVE FALSE
  OBVIOUS
<1>1. PICK to \in Final : Sent(from, to)
  BY DEF Ahead, Pending
<1>2. PICK s \in Seq(ServerPacket) : Run(s, from, to) /\ Len(stream) = Len(s)
  BY <1>1 DEF Sent
<1>3. s = <<>>
  BY <1>2, EmptySeq, LenProperties
<1>4. from = to
  BY <1>2, <1>3, EmptyRun, FinalStages
<1> QED
  BY <1>4, FinalStops

\* Reading a packet goes one stage further.
LEMMA ConsumeAhead ==
  ASSUME WireType, NEW from \in Stage, Ahead(from), Consume, UNCHANGED <<peer, lost, command>>
  PROVE  \E mid \in Stage : Step(from, Packet, mid) /\ Ahead(mid)'
<1>1. ~Pending(from)
  BY ConsumeTypes DEF Pending
<1>2. PICK to \in Final : Sent(from, to) /\ (peer.bad <=> to = At("failed"))
  BY <1>1 DEF Ahead
<1>3. PICK s \in Seq(ServerPacket) :
        /\ Run(s, from, to)
        /\ Len(stream) <= Len(s) /\ Len(s) <= peer.last /\ (~lost => Len(stream) = Len(s))
        /\ \A i \in 1..Len(stream) :
             stream[i].packet = s[i] /\ stream[i].pos = peer.last - Len(s) + i
        /\ from.at \notin {"done", "failed"} => sequence = (peer.last - Len(s) + 1) % SeqMod
  BY <1>2 DEF Sent
<1>4. /\ Len(stream) \in Nat \ {0} /\ stream' = Tail(stream) /\ Len(stream') = Len(stream) - 1
      /\ \A i \in 1..Len(stream) - 1 : stream'[i] = stream[i + 1]
  BY ConsumeTypes, EmptySeq, HeadTailProperties
<1>5. /\ s # <<>> /\ Len(s) \in Nat /\ Tail(s) \in Seq(ServerPacket) /\ Len(Tail(s)) = Len(s) - 1
      /\ \A i \in 1..Len(s) - 1 : Tail(s)[i] = s[i + 1]
  BY <1>3, <1>4, EmptySeq, LenProperties, HeadTailProperties
<1>6. PICK mid \in Stage : Step(from, s[1], mid) /\ Run(Tail(s), mid, to)
  BY <1>3, <1>5, TailRun
<1>7. Packet = s[1]
  BY <1>3, <1>4 DEF Packet
<1>8. peer.last \in Nat /\ peer' = peer /\ lost' = lost
  BY DEF WireType, PeerType
<1>9. Len(stream) <= Len(s) /\ Len(s) <= peer.last /\ (~lost => Len(stream) = Len(s))
  BY <1>3
<1>10. sequence' = (peer.last - Len(Tail(s)) + 1) % SeqMod
  <2> DEFINE a == peer.last - Len(s) + 1
  <2>1. a \in Nat /\ a + 1 = peer.last - Len(Tail(s)) + 1
    BY <1>3, <1>5, <1>8
  <2>2. sequence = a % SeqMod
    BY <1>3, <1>6, FinalStops
  <2>3. sequence' = (sequence + 1) % SeqMod
    BY DEF Consume, Take
  <2> HIDE DEF a
  <2>4. ((a % SeqMod) + 1) % SeqMod = (a + 1) % SeqMod
    BY <2>1, SessionAssumption, ModuloAdds
  <2> QED
    BY <2>1, <2>2, <2>3, <2>4
<1>11. ASSUME NEW i \in 1..Len(stream')
       PROVE  /\ stream'[i].packet = Tail(s)[i]
              /\ stream'[i].pos = peer.last - Len(Tail(s)) + i
  <2>1. i + 1 \in 1..Len(stream) /\ i \in 1..Len(s) - 1 /\ i \in 1..Len(stream) - 1
    <3> DEFINE m == Len(stream)
               n == Len(s)
               l == Len(stream')
    <3>1. m \in Nat \ {0} /\ n \in Nat /\ m <= n /\ l = m - 1 /\ i \in 1..l
      BY <1>4, <1>5, <1>9
    <3> HIDE DEF m, n, l
    <3>2. i + 1 \in 1..m /\ i \in 1..n - 1 /\ i \in 1..m - 1
      BY <3>1
    <3> QED
      BY <3>2 DEF m, n
  <2>2. stream'[i] = stream[i + 1] /\ Tail(s)[i] = s[i + 1]
    BY <1>4, <1>5, <2>1
  <2>3. peer.last - Len(Tail(s)) + i = peer.last - Len(s) + (i + 1)
    BY <1>5, <1>8
  <2> QED
    BY <1>3, <2>1, <2>2, <2>3
<1>12. Sent(mid, to)'
  <2>1. Len(stream') <= Len(Tail(s)) /\ Len(Tail(s)) <= peer.last /\ (~lost => Len(stream') = Len(Tail(s)))
    <3> DEFINE m == Len(stream)
               n == Len(s)
               l == Len(stream')
               k == Len(Tail(s))
    <3>1. /\ m \in Nat \ {0} /\ n \in Nat /\ m <= n /\ l = m - 1 /\ k = n - 1 /\ n <= peer.last
          /\ ~lost => m = n
      BY <1>4, <1>5, <1>9
    <3> HIDE DEF m, n, l, k
    <3>2. l <= k /\ k <= peer.last /\ (~lost => l = k)
      BY <1>8, <3>1
    <3> QED
      BY <3>2 DEF l, k
  <2> DEFINE t == Tail(s)
  <2>2. t \in Seq(ServerPacket) /\ Run(t, mid, to)
    BY <1>5, <1>6
  <2>3. Len(stream') <= Len(t) /\ Len(t) <= peer'.last /\ (~lost' => Len(stream') = Len(t))
    BY <1>8, <2>1
  <2>4. sequence' = (peer'.last - Len(t) + 1) % SeqMod
    BY <1>8, <1>10
  <2>5. \A i \in 1..Len(stream') :
          stream'[i].packet = t[i] /\ stream'[i].pos = peer'.last - Len(t) + i
    BY <1>8, <1>11
  <2> HIDE DEF t
  <2> QED
    BY <2>2, <2>3, <2>4, <2>5 DEF Sent
<1>13. peer.does = "wait"
  BY <1>1 DEF Ahead
<1> QED
  BY <1>2, <1>6, <1>7, <1>8, <1>12, <1>13 DEF Ahead

LEMMA SameAhead ==
  ASSUME NEW from, Ahead(from), UNCHANGED <<peer, lost, sequence, stream>> PROVE Ahead(from)'
BY DEF Ahead, Pending, Sent

LEMMA LoseAhead ==
  ASSUME WireType, NEW from \in Stage, Ahead(from), Lose PROVE Ahead(from)'
<1>1. PICK k \in buffered..Len(stream) : stream' = SubSeq(stream, 1, k)
  BY DEF Lose
<1>2. /\ Len(stream) \in Nat /\ k \in 0..Len(stream) /\ Len(stream') = k
      /\ \A i \in 1..k : stream'[i] = stream[i]
  BY <1>1, SubSeqProperties, LenProperties DEF WireType
<1>3. peer' = peer /\ sequence' = sequence /\ lost' = TRUE
  BY DEF Lose, driverVars
<1>4. CASE Pending(from)
  <2>1. stream' = <<>>
    <3>1. stream' \in Seq(Item) /\ Len(stream') = 0
      <4>1. Len(stream) = 0
        BY <1>4 DEF Pending
      <4> QED
        BY <1>1, <1>2, <4>1, SubSeqProperties DEF WireType
    <3> QED
      BY <3>1, EmptySeq
  <2> QED
    BY <1>3, <1>4, <2>1 DEF Ahead, Pending
<1>5. CASE ~Pending(from)
  <2>1. PICK to \in Final : Sent(from, to) /\ (peer.bad <=> to = At("failed"))
    BY <1>5 DEF Ahead
  <2>2. PICK s \in Seq(ServerPacket) :
          /\ Run(s, from, to)
          /\ Len(stream) <= Len(s) /\ Len(s) <= peer.last /\ (~lost => Len(stream) = Len(s))
          /\ \A i \in 1..Len(stream) :
               stream[i].packet = s[i] /\ stream[i].pos = peer.last - Len(s) + i
          /\ from.at \notin {"done", "failed"} => sequence = (peer.last - Len(s) + 1) % SeqMod
    BY <2>1 DEF Sent
  <2>3. Len(s) \in Nat
    BY LenProperties
  <2>4. Len(stream') <= Len(s) /\ \A i \in 1..Len(stream') : i \in 1..Len(stream) /\ stream'[i] = stream[i]
    BY <1>2, <2>2, <2>3
  <2>5. Sent(from, to)'
    BY <1>3, <2>2, <2>4 DEF Sent
  <2> QED
    BY <1>3, <1>5, <2>1, <2>5 DEF Ahead
<1> QED
  BY <1>4, <1>5

LEMMA RespondAhead ==
  ASSUME WireType, NEW from \in Stage, Ahead(from), Respond PROVE Ahead(from)'
<1>1. peer.does # "wait" /\ ~lost /\ UNCHANGED <<sequence, lost>>
  BY DEF Respond, driverVars
<1>2. Pending(from) /\ peer.does \in Command \cup {"file"} /\ peer.last \in Nat
  BY <1>1 DEF Ahead, WireType, PeerType
<1>3. PICK s \in Responses(peer.does) :
        /\ stream' = stream \o Stamp(s, peer.last)
        /\ peer' = [peer EXCEPT !.does = "wait", !.bad = @ \/ Bad(s), !.last = @ + Len(s)]
  BY DEF Respond
<1>4. PICK to \in Final : Run(s, from, to)
  BY <1>2, ResponsesRun DEF WellFormed, Pending
<1>5. s \in Seq(ServerPacket) /\ Len(s) \in Nat
  BY <1>2, ResponsesRun, LenProperties DEF WellFormed
<1>6. /\ Len(stream') = Len(s)
      /\ \A i \in 1..Len(s) : stream'[i] = [packet |-> s[i], of |-> command, pos |-> peer.last + i]
  <2>1. stream' = Stamp(s, peer.last)
    BY <1>2, <1>3, <1>5, StampTypes, ConcatEmptySeq DEF Pending
  <2> QED
    BY <1>5, <2>1, StampTypes
<1>7. peer'.does = "wait" /\ peer'.last = peer.last + Len(s) /\ (peer'.bad <=> Bad(s))
  <2>1. ~peer.bad
    BY <1>2 DEF Pending
  <2> QED
    BY <1>3, <2>1 DEF WireType, PeerType
<1>8. Bad(s) <=> to = At("failed")
  <2>1. from # At("failed")
    BY <1>2, BeginStage DEF Pending, At
  <2> QED
    BY <1>4, <1>5, <2>1, BadRun
<1>9. Sent(from, to)'
  <2>1. /\ Len(stream') <= Len(s) /\ Len(s) <= peer'.last /\ Len(stream') = Len(s)
        /\ peer'.last - Len(s) = peer.last
    BY <1>2, <1>5, <1>6, <1>7
  <2>2. \A i \in 1..Len(stream') :
          stream'[i].packet = s[i] /\ stream'[i].pos = peer'.last - Len(s) + i
    <3> TAKE i \in 1..Len(stream')
    <3>1. stream'[i] = [packet |-> s[i], of |-> command, pos |-> peer.last + i]
      BY <1>6, <2>1
    <3> QED
      BY <2>1, <3>1
  <2>3. sequence' = (peer'.last - Len(s) + 1) % SeqMod
    BY <1>1, <1>2, <2>1 DEF Pending
  <2> QED
    BY <1>4, <1>5, <2>1, <2>2, <2>3 DEF Sent
<1> QED
  BY <1>7, <1>8, <1>9 DEF Ahead

\* A command, or a file, is on its way to the server.
LEMMA SendAhead ==
  ASSUME stream = <<>>, NEW o \in Command, Send(o), UNCHANGED stream
  PROVE  Begin(o) \in Stage /\ Ahead(Begin(o))'
<1>1. o # "wait"
  BY DEF Command
<1>2. peer' = [does |-> o, last |-> 0, bad |-> FALSE] /\ sequence' = 1 % SeqMod
  BY DEF Send
<1>3. Pending(Begin(o))'
  BY <1>1, <1>2 DEF Pending
<1> QED
  BY <1>3, BeginStage DEF Ahead

LEMMA FileAhead ==
  ASSUME WireType, NEW from \in Stage, Ahead(from), from.at = "file", UNCHANGED stream,
         NEW written \in 1..2, sequence' = (sequence + written) % SeqMod,
         peer' = [peer EXCEPT !.does = "file", !.last = @ + written]
  PROVE  At("answer") \in Stage /\ Ahead(At("answer"))'
<1>1. stream = <<>> /\ ~peer.bad /\ sequence = (peer.last + 1) % SeqMod /\ peer.last \in Nat
  BY AtTheEnd DEF WireType, PeerType
<1>2. peer'.does = "file" /\ peer'.last = peer.last + written /\ peer'.bad = peer.bad
  BY DEF WireType, PeerType
<1>3. sequence' = (peer'.last + 1) % SeqMod
  <2> DEFINE a == peer.last + 1
  <2>1. a \in Nat /\ written \in Nat /\ a + written = peer'.last + 1 /\ sequence = a % SeqMod
    BY <1>1, <1>2
  <2> HIDE DEF a
  <2>2. ((a % SeqMod) + written) % SeqMod = (a + written) % SeqMod
    BY <2>1, SessionAssumption, ModuloAdds
  <2> QED
    BY <2>1, <2>2
<1>4. Pending(At("answer"))'
  BY <1>1, <1>2, <1>3 DEF Pending, Begin, At
<1> QED
  BY <1>4, StageTypes DEF Ahead

-----------------------------------------------------------------------------
(* Steps.                                                                  *)

LEMMA Tuples ==
  ASSUME NEW a, NEW b, NEW c
  PROVE  /\ Tail(<<a>>) = <<>> /\ Tail(<<a, b>>) = <<b>> /\ Tail(<<a, b, c>>) = <<b, c>>
         /\ <<>> \o <<a>> = <<a>> /\ <<a>> \o <<b>> = <<a, b>>
<1> DEFINE S == {a, b, c}
<1>1. /\ <<>> \in Seq(S) /\ <<a>> \in Seq(S) /\ <<b>> \in Seq(S) /\ <<c>> \in Seq(S)
      /\ <<a, b>> \in Seq(S) /\ <<b, c>> \in Seq(S) /\ <<a, b, c>> \in Seq(S)
      /\ Len(<<>>) = 0 /\ Len(<<a>>) = 1 /\ Len(<<b>>) = 1 /\ Len(<<c>>) = 1
      /\ Len(<<a, b>>) = 2 /\ Len(<<b, c>>) = 2 /\ Len(<<a, b, c>>) = 3
      /\ <<a>> # <<>> /\ <<a, b>> # <<>> /\ <<a, b, c>> # <<>>
  OBVIOUS
<1>2. /\ <<a>>[1] = a /\ <<b>>[1] = b /\ <<c>>[1] = c /\ <<a, b>>[1] = a /\ <<a, b>>[2] = b
      /\ <<b, c>>[1] = b /\ <<b, c>>[2] = c
      /\ <<a, b, c>>[1] = a /\ <<a, b, c>>[2] = b /\ <<a, b, c>>[3] = c
  OBVIOUS
<1>3. Tail(<<a>>) = <<>>
  <2>1. Tail(<<a>>) \in Seq(S) /\ Len(Tail(<<a>>)) = 0
    BY <1>1, HeadTailProperties
  <2> QED
    BY <2>1, EmptySeq
<1>4. Tail(<<a, b>>) = <<b>>
  <2> DEFINE t == Tail(<<a, b>>)
  <2>1. t \in Seq(S) /\ Len(t) = 1 /\ t[1] = b
    BY <1>1, <1>2, HeadTailProperties
  <2> HIDE DEF t
  <2>2. \A i \in 1..1 : t[i] = <<b>>[i]
    BY <1>2, <2>1
  <2>3. t = <<b>>
    BY <1>1, <2>1, <2>2, SeqEqual
  <2> QED
    BY <2>3 DEF t
<1>5. Tail(<<a, b, c>>) = <<b, c>>
  <2> DEFINE t == Tail(<<a, b, c>>)
  <2>1. t \in Seq(S) /\ Len(t) = 2 /\ t[1] = b /\ t[2] = c
    BY <1>1, <1>2, HeadTailProperties
  <2> HIDE DEF t
  <2>2. \A i \in 1..2 : t[i] = <<b, c>>[i]
    BY <1>2, <2>1
  <2>3. t = <<b, c>>
    BY <1>1, <2>1, <2>2, SeqEqual
  <2> QED
    BY <2>3 DEF t
<1>6. <<>> \o <<a>> = <<a>>
  BY <1>1, ConcatEmptySeq
<1>7. <<a>> \o <<b>> = <<a, b>>
  <2> DEFINE t == <<a>> \o <<b>>
  <2>1. t \in Seq(S) /\ Len(t) = 2 /\ t[1] = a /\ t[2] = b
    BY <1>1, <1>2, ConcatProperties
  <2> HIDE DEF t
  <2>2. \A i \in 1..2 : t[i] = <<a, b>>[i]
    BY <1>2, <2>1
  <2>3. t = <<a, b>>
    BY <1>1, <2>1, <2>2, SeqEqual
  <2> QED
    BY <2>3 DEF t
<1> QED
  BY <1>3, <1>4, <1>5, <1>6, <1>7

LEMMA Triples ==
  ASSUME NEW a, NEW b, NEW c
  PROVE  <<a>> \o <<b, c>> = <<a, b, c>> /\ <<a, b>> \o <<c>> = <<a, b, c>>
<1> DEFINE S == {a, b, c}
<1>1. /\ <<a>> \in Seq(S) /\ <<c>> \in Seq(S) /\ <<a, b>> \in Seq(S) /\ <<b, c>> \in Seq(S)
      /\ <<a, b, c>> \in Seq(S) /\ Len(<<a>>) = 1 /\ Len(<<c>>) = 1
      /\ Len(<<a, b>>) = 2 /\ Len(<<b, c>>) = 2 /\ Len(<<a, b, c>>) = 3
  OBVIOUS
<1>2. /\ <<a>>[1] = a /\ <<c>>[1] = c /\ <<a, b>>[1] = a /\ <<a, b>>[2] = b
      /\ <<b, c>>[1] = b /\ <<b, c>>[2] = c
      /\ <<a, b, c>>[1] = a /\ <<a, b, c>>[2] = b /\ <<a, b, c>>[3] = c
  OBVIOUS
<1>3. <<a>> \o <<b, c>> = <<a, b, c>>
  <2> DEFINE t == <<a>> \o <<b, c>>
  <2>1. t \in Seq(S) /\ Len(t) = 3 /\ t[1] = a /\ t[2] = b /\ t[3] = c
    BY <1>1, <1>2, ConcatProperties
  <2> HIDE DEF t
  <2>2. \A i \in 1..3 : t[i] = <<a, b, c>>[i]
    BY <1>2, <2>1
  <2>3. t = <<a, b, c>>
    BY <1>1, <2>1, <2>2, SeqEqual
  <2> QED
    BY <2>3 DEF t
<1>4. <<a, b>> \o <<c>> = <<a, b, c>>
  <2> DEFINE t == <<a, b>> \o <<c>>
  <2>1. t \in Seq(S) /\ Len(t) = 3 /\ t[1] = a /\ t[2] = b /\ t[3] = c
    BY <1>1, <1>2, ConcatProperties
  <2> HIDE DEF t
  <2>2. \A i \in 1..3 : t[i] = <<a, b, c>>[i]
    BY <1>2, <2>1
  <2>3. t = <<a, b, c>>
    BY <1>1, <2>1, <2>2, SeqEqual
  <2> QED
    BY <2>3 DEF t
<1> QED
  BY <1>3, <1>4

\* What the first routine of a call tells of the stage, and what the others are.
LEMMA AtHeader ==
  ASSUME NEW from, Expects(from), Top("header")
  PROVE  ~rows.held /\ \/ /\ op \in {"exec", "stmtExec", "close"} /\ from.at \in {"start", "stmt", "head"}
                          /\ todo = <<"header", "discard">>
                       \/ op = "sysVar" /\ from.at = "sys" /\ todo = <<"header", "sysRow", "untilEOF">>
BY DEF Expects, Top, Idle, Discarding, Fetching, Asking, Iterating

LEMMA AtQueryHeader ==
  ASSUME NEW from, Expects(from), Top("queryHeader")
  PROVE  /\ op \in {"query", "stmtQuery", "nextSet"} /\ Fetching(from) /\ todo = <<"queryHeader">>
BY DEF Expects, Top, Idle, Discarding, Fetching, Asking, Iterating

LEMMA AtFile ==
  ASSUME NEW from, Expects(from), Top("sendFile")
  PROVE  /\ ~rows.held /\ from.at = "file"
         /\ \/ op \in {"exec", "stmtExec", "close"} /\ Discarding(from) /\ todo = <<"sendFile", "discard">>
            \/ op = "query" /\ Fetching(from) /\ todo = <<"sendFile", "nextSet">>
BY DEF Expects, Top, Idle, Discarding, Fetching, Asking, Iterating

LEMMA AtAnswer ==
  ASSUME NEW from, Expects(from), NEW r \in {"ok", "refusedFile"}, Top(r)
  PROVE  /\ ~rows.held /\ from.at = "answer"
         /\ \/ op \in {"exec", "stmtExec", "close"} /\ Discarding(from) /\ todo = <<r, "discard">>
            \/ op = "query" /\ Fetching(from) /\ todo = <<r, "nextSet">>
            \/ op = "ping" /\ todo = <<"ok">>
BY DEF Expects, Top, Idle, Discarding, Fetching, Asking, Iterating

LEMMA AtSkip ==
  ASSUME NEW from, Expects(from), Top("untilEOF"), from.at # "failed"
  PROVE  /\ ~rows.held
         /\ \/ /\ op \in {"exec", "stmtExec", "close"} /\ from.at = "defs"
               /\ todo = <<"untilEOF", "untilEOF", "discard">>
            \/ op \in {"exec", "stmtExec", "close"} /\ from.at = "rows" /\ todo = <<"untilEOF", "discard">>
            \/ op = "sysVar" /\ from.at = "sysDefs" /\ todo = <<"untilEOF", "sysRow", "untilEOF">>
            \/ op = "sysVar" /\ from.at = "sysEnd" /\ todo = <<"untilEOF">>
            \/ op = "prepare" /\ from = Blocks(1) /\ todo = <<"untilEOF">>
            \/ op = "prepare" /\ from = Blocks(2) /\ todo = <<"untilEOF", "untilEOF">>
BY DEF Expects, Top, Idle, Discarding, Fetching, Asking, Iterating

LEMMA AtSkipRows ==
  ASSUME NEW from, Expects(from), Top("skipRows")
  PROVE  /\ op \in {"query", "stmtQuery", "nextSet"} /\ Fetching(from) /\ todo = <<"skipRows", "nextSet">>
         /\ from.at = "rows" /\ rows.mc
BY DEF Expects, Top, Idle, Discarding, Fetching, Asking, Iterating

LEMMA AtNextSet ==
  ASSUME NEW from, Expects(from), Top("nextSet")
  PROVE  /\ op \in {"query", "stmtQuery", "nextSet"} /\ Fetching(from) /\ todo = <<"nextSet">>
         /\ from = Following(rows.mc /\ more)
BY DEF Expects, Top, Idle, Discarding, Fetching, Asking, Iterating

LEMMA AtColumns ==
  ASSUME NEW from, Expects(from), Top("columns")
  PROVE  op \in {"query", "stmtQuery", "nextSet"} /\ Fetching(from) /\ todo = <<"columns">> /\ from.at = "defs"
BY DEF Expects, Top, Idle, Discarding, Fetching, Asking, Iterating

LEMMA AtOthers ==
  ASSUME NEW from, Expects(from)
  PROVE  /\ Top("row") => op = "next" /\ Iterating(from)
         /\ Top("sysRow") => /\ op = "sysVar" /\ ~rows.held
                             /\ todo = <<"sysRow", "untilEOF">> /\ from.at = "sysRow"
         /\ Top("prepare") => op = "prepare" /\ ~rows.held /\ from.at = "prep"
         /\ Top("discard") => /\ op \in {"exec", "stmtExec", "close"} /\ ~rows.held
                              /\ todo = <<"discard">> /\ from = Following(more)
         /\ Idle => AtRest(from)
BY DEF Expects, Top, Idle, Discarding, Fetching, Asking, Iterating

LEMMA HistoryKept ==
  ASSUME history \in HistoryType
  PROVE  /\ \A n \in Nat : /\ [history EXCEPT !.got = n].wide = history.wide
                           /\ [history EXCEPT !.got = n].overrun = history.overrun
                           /\ [history EXCEPT !.got = n].garbled = history.garbled
                           /\ [history EXCEPT !.got = n].foreign = history.foreign
                           /\ [history EXCEPT !.got = n].exact = history.exact
                           /\ [history EXCEPT !.got = n].got = n
         /\ \A wide \in BOOLEAN : /\ [history EXCEPT !.wide = wide].wide = wide
                                   /\ [history EXCEPT !.wide = wide].overrun = history.overrun
                                   /\ [history EXCEPT !.wide = wide].garbled = history.garbled
                                   /\ [history EXCEPT !.wide = wide].foreign = history.foreign
                                   /\ [history EXCEPT !.wide = wide].exact = history.exact
                                   /\ [history EXCEPT !.wide = wide].got = history.got
BY DEF HistoryType

\* A wide row that was skipped, or a row asked for behind the end, stays so.
LEMMA SpoiltStays == ASSUME Typed, [SessionNext]_sessionVars, Spoilt PROVE Spoilt'
<1>1. history \in HistoryType
  BY CallParts DEF Typed
<1> SUFFICES (history.wide => history'.wide) /\ (history.overrun => history'.overrun)
  BY DEF Spoilt
<1>2. CASE Work
  <2>1. CASE Header \/ QueryHeader \/ ResultOK \/ RefusedFile \/ SysRow \/ Prepared
    <3>1. Accept
      BY <2>1 DEF Header, QueryHeader, ResultOK, RefusedFile, SysRow, Prepared
    <3> QED
      BY <1>1, <3>1 DEF Accept
  <2>2. CASE UntilEOF \/ SkipRows
    BY <1>1, <2>2 DEF UntilEOF, SkipRows, Skip, HistoryType
  <2>3. CASE Columns \/ Row
    BY <1>1, <2>3 DEF Columns, Row, HistoryType
  <2>4. CASE SendFile \/ NextSet \/ DiscardResults \/ ReadFails
    BY <1>1, <2>4 DEF SendFile, NextSet, DiscardResults, ReadFails, HistoryType
  <2>5. CASE OutOfSync \/ TakeForeign \/ ReadGarbled
    BY <1>1, <2>5 DEF OutOfSync, TakeForeign, ReadGarbled, HistoryType
  <2> QED
    BY <1>2, <2>1, <2>2, <2>3, <2>4, <2>5 DEF Work
<1>3. CASE Caller
  <2>1. CASE \E o \in Command : Call(o)
    BY <1>1, <2>1 DEF Call, Refuse, Send, HistoryType
  <2>2. CASE StmtClose
    BY <2>2 DEF StmtClose, Refuse
  <2>3. CASE RowsNext
    BY <1>1, <2>3 DEF RowsNext, HistoryType
  <2>4. CASE NextResultSet \/ Close
    BY <2>4 DEF NextResultSet, Close
  <2> QED
    BY <1>3, <2>1, <2>2, <2>3, <2>4 DEF Caller
<1>4. CASE Respond \/ Lose
  BY <1>4 DEF Respond, Lose
<1>5. CASE UNCHANGED sessionVars
  BY <1>5 DEF sessionVars
<1> QED
  BY <1>2, <1>3, <1>4, <1>5 DEF SessionNext

\* An accepted packet answers the command that waits for it.
LEMMA OwnRead ==
  ASSUME Typed, Own, Consume, Quiet, history'.garbled = history.garbled,
         history'.foreign = history.foreign, history'.exact
  PROVE  Own'
<1>1. /\ stream \in Seq(Item) /\ stream # <<>> /\ Len(stream) \in Nat \ {0} /\ DOMAIN stream = 1..Len(stream)
      /\ stream' = Tail(stream) /\ DOMAIN stream' = 1..Len(stream) - 1
      /\ \A i \in 1..Len(stream) - 1 : stream'[i] = stream[i + 1]
  BY ConsumeTypes, EmptySeq, LenProperties, HeadTailProperties DEF Typed
<1>2. command' = command /\ \A i \in 1..Len(stream) : stream[i].of = command
  BY <1>1 DEF Quiet, Own
<1>3. ASSUME NEW i \in DOMAIN stream' PROVE stream'[i].of = command'
  <2>1. i \in 1..Len(stream) - 1 /\ i + 1 \in 1..Len(stream)
    BY <1>1
  <2> QED
    BY <1>1, <1>2, <2>1
<1>4. ~history'.garbled /\ history'.foreign = 0
  BY DEF Own
<1> QED
  BY <1>3, <1>4 DEF Own

LEMMA OwnSame ==
  ASSUME Own, UNCHANGED <<stream, command>>, history'.garbled = history.garbled,
         history'.foreign = history.foreign, history'.exact = history.exact
  PROVE  Own'
BY DEF Own

LEMMA OwnRespond == ASSUME Typed, Own, Respond PROVE Own'
<1>1. PICK s \in Responses(peer.does) : stream' = stream \o Stamp(s, peer.last)
  BY DEF Respond
<1>2. s \in Seq(ServerPacket) /\ Len(s) \in Nat
  BY <1>1, ResponsesRun, LenProperties DEF Respond, WellFormed, Typed, WireType, PeerType
<1> DEFINE t == Stamp(s, peer.last)
<1>3. t \in Seq(Item) /\ Len(t) = Len(s) /\ \A i \in 1..Len(s) : t[i].of = command
  <2>1. /\ t \in Seq(Item) /\ Len(t) = Len(s)
        /\ \A i \in 1..Len(s) : t[i] = [packet |-> s[i], of |-> command, pos |-> peer.last + i]
    BY <1>2, StampTypes DEF Typed
  <2> HIDE DEF t
  <2>2. ASSUME NEW i \in 1..Len(s) PROVE t[i].of = command
    <3>1. t[i] = [packet |-> s[i], of |-> command, pos |-> peer.last + i]
      BY <2>1
    <3> QED
      BY <3>1
  <2> QED
    BY <2>1, <2>2
<1>4. stream \in Seq(Item) /\ Len(stream) \in Nat /\ \A i \in 1..Len(stream) : stream[i].of = command
  BY LenProperties DEF Typed, WireType, Own
<1>5. /\ stream' \in Seq(Item) /\ DOMAIN stream' = 1..Len(stream) + Len(s)
      /\ \A i \in 1..Len(stream) + Len(s) : stream'[i] = IF i <= Len(stream) THEN stream[i] ELSE t[i - Len(stream)]
  <2> HIDE DEF t
  <2>1. stream' = stream \o t
    BY <1>1 DEF t
  <2>2. /\ stream' \in Seq(Item) /\ Len(stream') = Len(stream) + Len(s)
        /\ \A i \in 1..Len(stream) + Len(t) :
             stream'[i] = IF i <= Len(stream) THEN stream[i] ELSE t[i - Len(stream)]
    <3>1. stream \in Seq(Item) /\ t \in Seq(Item) /\ Len(t) = Len(s)
      BY <1>3, <1>4
    <3> HIDE DEF Item
    <3>2. /\ stream \o t \in Seq(Item) /\ Len(stream \o t) = Len(stream) + Len(t)
          /\ \A i \in 1..Len(stream) + Len(t) :
               (stream \o t)[i] = IF i <= Len(stream) THEN stream[i] ELSE t[i - Len(stream)]
      BY <3>1, ConcatProperties
    <3> QED
      BY <2>1, <3>1, <3>2
  <2>3. DOMAIN stream' = 1..Len(stream')
    BY <2>2, LenProperties
  <2> QED
    BY <1>3, <2>2, <2>3
<1> HIDE DEF t
<1>6. ASSUME NEW i \in DOMAIN stream' PROVE stream'[i].of = command
  <2>1. CASE i <= Len(stream)
    BY <1>4, <1>5, <2>1
  <2>2. CASE ~(i <= Len(stream))
    <3>1. i - Len(stream) \in 1..Len(s)
      BY <1>2, <1>4, <1>5, <2>2
    <3> QED
      BY <1>3, <1>5, <2>2, <3>1
  <2> QED
    BY <2>1, <2>2
<1>7. UNCHANGED <<command, history>>
  BY DEF Respond
<1> QED
  BY <1>6, <1>7 DEF Own

LEMMA OwnLose == ASSUME Typed, Own, Lose PROVE Own'
<1>1. PICK k \in buffered..Len(stream) : stream' = SubSeq(stream, 1, k)
  BY DEF Lose
<1>2. /\ Len(stream) \in Nat /\ k \in 0..Len(stream) /\ DOMAIN stream' = 1..k /\ DOMAIN stream = 1..Len(stream)
      /\ \A i \in 1..k : stream'[i] = stream[i]
  BY <1>1, SubSeqProperties, LenProperties DEF Typed, WireType
<1>3. \A i \in 1..k : i \in 1..Len(stream)
  BY <1>2
<1>4. UNCHANGED <<command, history>>
  BY DEF Lose
<1> QED
  BY <1>2, <1>3, <1>4 DEF Own

\* What has ended does not come back.
LEMMA EndedStays == ASSUME Typed, Own, Ended, [SessionNext]_sessionVars PROVE Own' /\ Ended'
<1>1. Idle /\ ~MayCall
  BY DEF Ended, MayCall
<1>2. ~Work
  BY <1>1 DEF Work, Top, Reading, Header, QueryHeader, SendFile, ResultOK, RefusedFile, UntilEOF, SkipRows, Skip,
              NextSet, Columns, Row, SysRow, Prepared, DiscardResults, ReadFails, OutOfSync, TakeForeign, ReadGarbled
<1>3. ~StmtClose /\ \A o \in Command : ~Call(o)
  BY <1>1 DEF StmtClose, Call
<1>4. CASE Respond
  BY <1>4, OwnRespond DEF Respond, driverVars, Ended, Idle
<1>5. CASE Lose
  BY <1>5, OwnLose DEF Lose, driverVars, Ended, Idle
<1>6. CASE RowsNext \/ NextResultSet \/ Close
  <2>3. closed /\ closed' = closed /\ UNCHANGED <<stream, command>>
        /\ op' \in {"next", "nextSet", "close"}
    BY <1>6 DEF RowsNext, NextResultSet, Close, RowsCall, Ended
  <2>4. history' = history
    <3>1. CASE RowsNext
      <4>1. history' = [history EXCEPT !.overrun = history.overrun \/ FALSE]
        BY <2>3, <3>1 DEF RowsNext
      <4>2. history \in HistoryType
        BY CallParts DEF Typed
      <4> QED
        BY <4>1, <4>2 DEF HistoryType
    <3> QED
      BY <1>6, <3>1 DEF NextResultSet, Close
  <2>1. closed /\ closed' = closed /\ UNCHANGED <<stream, command, history>>
        /\ op' \in {"next", "nextSet", "close"}
    BY <2>3, <2>4
  <2>2. Idle'
    BY <1>6, <2>1 DEF RowsNext, NextResultSet, Close, Return, Idle
  <2> QED
    BY <2>1, <2>2, OwnSame DEF Ended
<1>7. CASE UNCHANGED sessionVars
  BY <1>7, OwnSame DEF sessionVars, Ended, Idle
<1> QED
  BY <1>2, <1>3, <1>4, <1>5, <1>6, <1>7 DEF SessionNext, Caller

\* The ways in which a routine ends: it goes on, succeeds, fails, or gives the
\* connection up.
LEMMA GoesOn ==
  ASSUME NEW mid \in Stage, Ahead(mid)', NEW s, s # <<>>, Goto(s), ~closed', Expects(mid)'
  PROVE  Talking'
BY DEF Goto, Talking

LEMMA Rests ==
  ASSUME NEW mid \in Stage, Ahead(mid)', todo' = <<>>, ~closed', AtRest(mid)'
  PROVE  Talking'
BY DEF Talking, Expects, Idle

LEMMA Fails ==
  ASSUME Typed, ErrorPacket, NEW from \in Stage, NEW mid \in Stage, Step(from, Packet, mid), Ahead(mid)', ~closed,
         rows'.held /\ rows'.mc => rows'.failed = "set" /\ ~rows'.done
  PROVE  Ended' \/ Talking'
<1>1. mid.at = "failed"
  BY DEF ErrorPacket, Is, Step, At
<1>2. todo' = <<>> /\ result' \in {"err", "badConn"} /\ (result' = "err" \/ closed')
  BY DEF ErrorPacket, Return
<1>3. CASE closed'
  BY <1>2, <1>3 DEF Ended, Idle
<1>4. CASE ~closed'
  <2>1. AtRest(mid)'
    BY <1>1, <1>2 DEF AtRest
  <2> QED
    BY <1>2, <1>4, <2>1, Rests
<1> QED
  BY <1>3, <1>4

LEMMA HeaderStep ==
  ASSUME Typed, NEW from \in Stage, Ahead(from), Expects(from), ~closed, Header PROVE Ended' \/ Talking'
<1>1. Consume /\ Accept /\ UNCHANGED <<op, peer, lost, command>> /\ Top("header")
  BY DEF Header, Quiet
<1>2. PICK mid \in Stage : Step(from, Packet, mid) /\ Ahead(mid)'
  BY <1>1, ConsumeAhead DEF Typed
<1>3. CASE ErrorPacket /\ UNCHANGED rows
  BY <1>1, <1>2, <1>3, AtHeader, Fails
<1>4. CASE /\ op \in {"exec", "stmtExec", "close"} /\ from.at \in {"start", "stmt", "head"}
           /\ todo = <<"header", "discard">> /\ ~rows.held
  <2>1. Rest = <<"discard">>
    BY <1>4, Tuples DEF Rest
  <2>2. CASE Is({"OK"}) /\ Goto(Rest) /\ more' = Packet.more /\ UNCHANGED <<closed, rows, prepared>>
    <3>1. mid = Following(more')
      BY <1>2, <1>4, <2>2 DEF Is, Step
    <3>2. todo' = <<"discard">>
      BY <2>1, <2>2 DEF Goto
    <3>3. Expects(mid)'
      BY <1>1, <1>4, <2>2, <3>1, <3>2 DEF Expects, Discarding
    <3> QED
      BY <1>2, <2>1, <2>2, <3>3, GoesOn
  <2>3. CASE /\ Is({"Cols"}) /\ Same
             /\ Goto(IF op = "sysVar" THEN <<"untilEOF">> \o Rest ELSE <<"untilEOF", "untilEOF">> \o Rest)
    <3>1. mid.at = "defs"
      BY <1>2, <1>4, <2>3 DEF Is, Step, At
    <3>2. Goto(<<"untilEOF", "untilEOF", "discard">>)
      <4>1. <<"untilEOF", "untilEOF">> \o Rest = <<"untilEOF", "untilEOF", "discard">>
        BY <2>1, Triples
      <4>2. op # "sysVar"
        BY <1>4
      <4> QED
        BY <2>3, <4>1, <4>2
    <3>3. Expects(mid)'
      BY <1>1, <1>4, <2>3, <3>1, <3>2 DEF Expects, Discarding, Goto, Same
    <3> QED
      BY <1>2, <2>3, <3>2, <3>3, GoesOn DEF Same
  <2>4. CASE Is({"InFile"}) /\ Goto(<<"sendFile">> \o Rest) /\ Same
    <3>1. mid.at = "file"
      BY <1>2, <1>4, <2>4 DEF Is, Step, At
    <3>2. Goto(<<"sendFile", "discard">>)
      BY <2>1, <2>4, Tuples
    <3>3. Expects(mid)'
      BY <1>1, <1>4, <2>4, <3>1, <3>2 DEF Expects, Discarding, Goto, Same
    <3> QED
      BY <1>2, <2>4, <3>2, <3>3, GoesOn DEF Same
  <2>5. ~Malformed
    BY <1>2, <1>4 DEF Malformed, Is, Step
  <2> QED
    BY <1>3, <2>2, <2>3, <2>4, <2>5 DEF Header
<1>5. CASE op = "sysVar" /\ from.at = "sys" /\ todo = <<"header", "sysRow", "untilEOF">> /\ ~rows.held
  <2>1. Rest = <<"sysRow", "untilEOF">>
    BY <1>5, Tuples DEF Rest
  <2>2. CASE Is({"Cols"}) /\ Same /\ Goto(<<"untilEOF">> \o Rest)
    <3>1. mid.at = "sysDefs"
      BY <1>2, <1>5, <2>2 DEF Is, Step, At
    <3>2. Goto(<<"untilEOF", "sysRow", "untilEOF">>)
      <4>1. <<"untilEOF">> \o Rest = <<"untilEOF", "sysRow", "untilEOF">>
        BY <2>1, Triples
      <4> QED
        BY <2>2, <4>1
    <3>3. Expects(mid)'
      BY <1>1, <1>5, <2>2, <3>1, <3>2 DEF Expects, Asking, Goto, Same
    <3> QED
      BY <1>2, <2>2, <3>2, <3>3, GoesOn DEF Same
  <2>3. ~Malformed /\ ~Is({"OK"}) /\ ~Is({"InFile"})
    BY <1>2, <1>5 DEF Malformed, Is, Step
  <2> QED
    BY <1>3, <1>5, <2>2, <2>3 DEF Header
<1> QED
  BY <1>1, <1>4, <1>5, AtHeader

LEMMA QueryHeaderStep ==
  ASSUME Typed, NEW from \in Stage, Ahead(from), Expects(from), ~closed, QueryHeader PROVE Ended' \/ Talking'
<1>1. Consume /\ UNCHANGED <<op, peer, lost, command>> /\ Top("queryHeader")
  BY DEF QueryHeader, Quiet
<1>2. PICK mid \in Stage : Step(from, Packet, mid) /\ Ahead(mid)'
  BY <1>1, ConsumeAhead DEF Typed
<1>3. op \in {"query", "stmtQuery", "nextSet"} /\ Fetching(from) /\ todo = <<"queryHeader">>
  BY <1>1, AtQueryHeader
<1>4. /\ op = "query" => from.at \in {"start", "head"}
      /\ op = "stmtQuery" => from.at = "stmt" /\ ~rows.mc
      /\ op = "nextSet" => from.at = "head" /\ ~rows.done /\ rows.mc
      /\ rows.held <=> op = "nextSet"
  BY <1>3 DEF Fetching
<1>5. rows \in RowsType
  BY CallParts DEF Typed
<1>6. CASE ErrorPacket /\ rows' = [rows EXCEPT !.failed = "set"]
  <2>1. rows'.held /\ rows'.mc => rows'.failed = "set" /\ ~rows'.done
    BY <1>4, <1>5, <1>6 DEF RowsType
  <2> QED
    BY <1>2, <1>6, <2>1, Fails
<1>7. CASE /\ Is({"OK"}) /\ Goto(<<"nextSet">>) /\ more' = Packet.more
           /\ rows' = [rows EXCEPT !.mc = @ \/ op = "query", !.done = TRUE] /\ UNCHANGED <<closed, prepared>>
  <2>1. (rows'.mc <=> rows.mc \/ op = "query") /\ rows'.held = rows.held
    BY <1>5, <1>7 DEF RowsType
  <2>2. mid = Following(more') /\ (op = "stmtQuery" => mid = Following(FALSE))
    BY <1>2, <1>3, <1>4, <1>7 DEF Is, Step, Following
  <2>3. mid = Following(rows'.mc /\ more')
    BY <1>3, <1>4, <2>1, <2>2 DEF Following
  <2>4. Expects(mid)'
    BY <1>1, <1>3, <1>4, <1>7, <2>1, <2>3 DEF Expects, Fetching, Goto
  <2> QED
    BY <1>2, <1>7, <2>4, GoesOn
<1>8. CASE Is({"Cols"}) /\ Goto(<<"columns">>) /\ Same
  <2>1. mid.at = "defs"
    BY <1>2, <1>3, <1>4, <1>8 DEF Is, Step, At
  <2>2. Expects(mid)'
    BY <1>1, <1>3, <1>4, <1>8, <2>1 DEF Expects, Fetching, Goto, Same
  <2> QED
    BY <1>2, <1>8, <2>2, GoesOn DEF Same
<1>9. CASE /\ Is({"InFile"}) /\ Goto(<<"sendFile", "nextSet">>) /\ UNCHANGED <<more, closed, prepared>>
           /\ rows' = [rows EXCEPT !.mc = @ \/ op = "query", !.done = TRUE]
  <2>1. mid.at = "file" /\ op = "query"
    BY <1>2, <1>3, <1>4, <1>9 DEF Is, Step, At
  <2>2. rows'.held = rows.held
    BY <1>5, <1>9 DEF RowsType
  <2>3. Expects(mid)'
    BY <1>1, <1>3, <1>4, <1>9, <2>1, <2>2 DEF Expects, Fetching, Goto
  <2> QED
    BY <1>2, <1>9, <2>3, GoesOn
<1>10. ~Malformed
  BY <1>2, <1>3, <1>4 DEF Malformed, Is, Step
<1> QED
  BY <1>6, <1>7, <1>8, <1>9, <1>10 DEF QueryHeader

LEMMA SendFileStep ==
  ASSUME Typed, NEW from \in Stage, Ahead(from), Expects(from), ~closed, SendFile PROVE Ended' \/ Talking'
<1>1. Top("sendFile") /\ UNCHANGED <<op, more, rows, stream, lost>>
  BY DEF SendFile
<1>2. /\ ~rows.held /\ from.at = "file"
      /\ \/ op \in {"exec", "stmtExec", "close"} /\ Discarding(from) /\ todo = <<"sendFile", "discard">>
         \/ op = "query" /\ Fetching(from) /\ todo = <<"sendFile", "nextSet">>
  BY <1>1, AtFile
<1>3. CASE Return("badConn") \/ (Return("invalid") /\ closed' = TRUE)
  BY <1>1, <1>2, <1>3 DEF Return, Ended, Idle
<1>4. ASSUME NEW written \in 1..2, NEW wanted \in {"ok", "refusedFile"}, Goto(<<wanted>> \o Rest),
             sequence' = (sequence + written) % SeqMod,
             peer' = [peer EXCEPT !.does = "file", !.last = @ + written], UNCHANGED closed
      PROVE  Talking'
  <2>1. At("answer") \in Stage /\ Ahead(At("answer"))'
    BY <1>1, <1>2, <1>4, FileAhead DEF Typed
  <2>2. CASE op \in {"exec", "stmtExec", "close"} /\ todo = <<"sendFile", "discard">>
    <3>1. Goto(<<wanted, "discard">>)
      <4>1. Rest = <<"discard">>
        BY <2>2, Tuples DEF Rest
      <4>2. <<wanted>> \o Rest = <<wanted, "discard">>
        BY <4>1, Tuples
      <4> QED
        BY <1>4, <4>2
    <3>2. Expects(At("answer"))'
      BY <1>1, <1>2, <2>2, <3>1 DEF Expects, Discarding, Goto, At
    <3> QED
      BY <1>4, <2>1, <3>1, <3>2, GoesOn
  <2>3. CASE op = "query" /\ Fetching(from) /\ todo = <<"sendFile", "nextSet">>
    <3>1. Goto(<<wanted, "nextSet">>)
      <4>1. Rest = <<"nextSet">>
        BY <2>3, Tuples DEF Rest
      <4>2. <<wanted>> \o Rest = <<wanted, "nextSet">>
        BY <4>1, Tuples
      <4> QED
        BY <1>4, <4>2
    <3>2. Expects(At("answer"))'
      BY <1>1, <1>2, <2>3, <3>1 DEF Expects, Fetching, Goto, At
    <3> QED
      BY <1>4, <2>1, <3>1, <3>2, GoesOn
  <2> QED
    BY <1>2, <2>2, <2>3
<1> QED
  BY <1>3, <1>4 DEF SendFile

LEMMA ResultOKStep ==
  ASSUME Typed, NEW from \in Stage, Ahead(from), Expects(from), ~closed, ResultOK PROVE Ended' \/ Talking'
<1>1. Consume /\ UNCHANGED <<op, peer, lost, command, rows>> /\ Top("ok")
  BY DEF ResultOK, Quiet
<1>2. PICK mid \in Stage : Step(from, Packet, mid) /\ Ahead(mid)'
  BY <1>1, ConsumeAhead DEF Typed
<1>3. /\ ~rows.held /\ from.at = "answer"
      /\ \/ op \in {"exec", "stmtExec", "close"} /\ Discarding(from) /\ todo = <<"ok", "discard">>
         \/ op = "query" /\ Fetching(from) /\ todo = <<"ok", "nextSet">>
         \/ op = "ping" /\ todo = <<"ok">>
  BY <1>1, AtAnswer
<1>4. CASE ErrorPacket
  BY <1>1, <1>2, <1>3, <1>4, Fails
<1>5. CASE Is({"OK"}) /\ Goto(Rest) /\ more' = Packet.more /\ UNCHANGED <<closed, prepared>>
  <2>1. ~more' /\ mid = Following(FALSE) /\ mid.at = "done"
    BY <1>2, <1>3, <1>5 DEF Is, Step, Following, At
  <2>2. CASE op \in {"exec", "stmtExec", "close"} /\ todo = <<"ok", "discard">>
    <3>1. Goto(<<"discard">>)
      BY <1>5, <2>2, Tuples DEF Rest
    <3>2. mid = Following(more')
      BY <2>1 DEF Following
    <3>3. Expects(mid)'
      BY <1>1, <1>3, <2>2, <3>1, <3>2 DEF Expects, Discarding, Goto
    <3> QED
      BY <1>2, <1>5, <3>1, <3>3, GoesOn
  <2>3. CASE op = "query" /\ Fetching(from) /\ todo = <<"ok", "nextSet">>
    <3>1. Goto(<<"nextSet">>)
      BY <1>5, <2>3, Tuples DEF Rest
    <3>2. mid = Following(rows'.mc /\ more')
      BY <2>1 DEF Following
    <3>3. Expects(mid)'
      BY <1>1, <1>3, <2>3, <3>1, <3>2 DEF Expects, Fetching, Goto
    <3> QED
      BY <1>2, <1>5, <3>1, <3>3, GoesOn
  <2>4. CASE op = "ping" /\ todo = <<"ok">>
    <3>1. todo' = <<>>
      BY <1>5, <2>4, Tuples DEF Rest, Goto
    <3>2. AtRest(mid)'
      BY <1>1, <1>3, <2>1, <2>4 DEF AtRest
    <3> QED
      BY <1>2, <1>5, <3>1, <3>2, Rests
  <2> QED
    BY <1>3, <2>2, <2>3, <2>4
<1> QED
  BY <1>4, <1>5 DEF ResultOK

LEMMA RefusedFileStep ==
  ASSUME Typed, NEW from \in Stage, Ahead(from), Expects(from), ~closed, RefusedFile PROVE Talking'
<1>1. Consume /\ UNCHANGED <<op, peer, lost, command, rows, closed>> /\ Top("refusedFile") /\ Return("err")
  BY DEF RefusedFile, Quiet, Same
<1>2. PICK mid \in Stage : Step(from, Packet, mid) /\ Ahead(mid)'
  BY <1>1, ConsumeAhead DEF Typed
<1>3. ~rows.held /\ from.at = "answer"
  BY <1>1, AtAnswer
<1>4. mid.at \in {"done", "failed"}
  BY <1>2, <1>3 DEF Step, Following, At
<1>5. todo' = <<>> /\ AtRest(mid)'
  BY <1>1, <1>3, <1>4 DEF AtRest, Return
<1> QED
  BY <1>1, <1>2, <1>5, Rests

\* Skipping, as long as no wide row is taken for the end.
LEMMA Skips ==
  ASSUME Typed, NEW routine, Skip(routine), ~history'.wide
  PROVE  /\ Consume /\ UNCHANGED <<op, peer, lost, command>> /\ Top(routine)
         /\ \/ ErrorPacket
            \/ Packet.type = "EOF" /\ Goto(Rest) /\ more' = Packet.more /\ UNCHANGED <<closed, prepared>>
            \/ /\ Packet.type \notin {"EOF", "Wide", "ERR", "ReadOnly"}
               /\ UNCHANGED <<todo, result, more, closed, prepared>>
<1>1. history \in HistoryType
  BY CallParts DEF Typed
<1>2. EndsSkip => EndsRows
  BY <1>1 DEF Skip, HistoryType
<1> QED
  BY <1>2 DEF Skip, Quiet, EndsSkip, EndsRows, Is

LEMMA Stays ==
  ASSUME NEW mid \in Stage, Ahead(mid)', todo # <<>>, UNCHANGED <<todo, result>>, result = "none", ~closed', Expects(mid)'
  PROVE  Talking'
BY DEF Talking

LEMMA UntilEOFStep ==
  ASSUME Typed, NEW from \in Stage, Ahead(from), Expects(from), ~closed, result = "none", UntilEOF, ~history'.wide
  PROVE  Ended' \/ Talking'
<1>1. /\ Consume /\ UNCHANGED <<op, peer, lost, command, rows>> /\ Top("untilEOF")
      /\ \/ ErrorPacket
         \/ Packet.type = "EOF" /\ Goto(Rest) /\ more' = Packet.more /\ UNCHANGED <<closed, prepared>>
         \/ /\ Packet.type \notin {"EOF", "Wide", "ERR", "ReadOnly"}
            /\ UNCHANGED <<todo, result, more, closed, prepared>>
  BY Skips DEF UntilEOF
<1>2. PICK mid \in Stage : Step(from, Packet, mid) /\ Ahead(mid)'
  BY <1>1, ConsumeAhead DEF Typed
<1>3. from.at # "failed"
  BY <1>2, FinalStops
<1>4. /\ ~rows.held
      /\ \/ /\ op \in {"exec", "stmtExec", "close"} /\ from.at = "defs"
            /\ todo = <<"untilEOF", "untilEOF", "discard">>
         \/ op \in {"exec", "stmtExec", "close"} /\ from.at = "rows" /\ todo = <<"untilEOF", "discard">>
         \/ op = "sysVar" /\ from.at = "sysDefs" /\ todo = <<"untilEOF", "sysRow", "untilEOF">>
         \/ op = "sysVar" /\ from.at = "sysEnd" /\ todo = <<"untilEOF">>
         \/ op = "prepare" /\ from = Blocks(1) /\ todo = <<"untilEOF">>
         \/ op = "prepare" /\ from = Blocks(2) /\ todo = <<"untilEOF", "untilEOF">>
  BY <1>1, <1>3, AtSkip
<1>5. CASE ErrorPacket
  BY <1>1, <1>2, <1>4, <1>5, Fails
<1>6. CASE Packet.type \notin {"EOF", "Wide", "ERR", "ReadOnly"} /\ UNCHANGED <<todo, result, more, closed, prepared>>
  <2>1. CASE from.at = "rows" /\ op \in {"exec", "stmtExec", "close"} /\ todo = <<"untilEOF", "discard">>
    <3>1. mid.at = "rows"
      BY <1>2, <1>6, <2>1 DEF Step, RowsAt
    <3>2. Discarding(mid)'
      BY <1>1, <1>4, <1>6, <2>1, <3>1 DEF Discarding
    <3>3. Expects(mid)'
      BY <1>1, <2>1, <3>2 DEF Expects
    <3> QED
      BY <1>2, <1>6, <2>1, <3>3, Stays
  <2>2. CASE from.at # "rows"
    <3>1. from.at \in {"defs", "sysDefs", "sysEnd", "blocks"}
      BY <1>4, <2>2 DEF Blocks
    <3>2. mid = from
      BY <1>2, <1>6, <3>1 DEF Step
    <3>3. Expects(mid)'
      BY <1>1, <1>4, <1>6, <2>2, <3>2 DEF Expects, Discarding, Asking
    <3>4. todo # <<>>
      BY <1>4
    <3> QED
      BY <1>2, <1>6, <3>3, <3>4, Stays
  <2> QED
    BY <1>4, <2>1, <2>2 DEF Blocks
<1>7. CASE Packet.type = "EOF" /\ Goto(Rest) /\ more' = Packet.more /\ UNCHANGED <<closed, prepared>>
  <2>1. CASE /\ op \in {"exec", "stmtExec", "close"} /\ from.at = "defs"
             /\ todo = <<"untilEOF", "untilEOF", "discard">>
    <3>1. mid.at = "rows"
      BY <1>2, <1>7, <2>1 DEF Step, RowsAt
    <3>2. Goto(<<"untilEOF", "discard">>)
      BY <1>7, <2>1, Tuples DEF Rest
    <3>3. Discarding(mid)'
      BY <1>1, <1>4, <3>1, <3>2 DEF Discarding, Goto
    <3>4. Expects(mid)'
      BY <1>1, <2>1, <3>3 DEF Expects
    <3> QED
      BY <1>2, <1>7, <3>2, <3>4, GoesOn
  <2>2. CASE op \in {"exec", "stmtExec", "close"} /\ from.at = "rows" /\ todo = <<"untilEOF", "discard">>
    <3>1. mid = Following(more')
      BY <1>2, <1>7, <2>2 DEF Step
    <3>2. Goto(<<"discard">>)
      BY <1>7, <2>2, Tuples DEF Rest
    <3>3. Discarding(mid)'
      BY <1>1, <1>4, <3>1, <3>2 DEF Discarding, Goto
    <3>4. Expects(mid)'
      BY <1>1, <2>2, <3>3 DEF Expects
    <3> QED
      BY <1>2, <1>7, <3>2, <3>4, GoesOn
  <2>3. CASE op = "sysVar" /\ from.at = "sysDefs" /\ todo = <<"untilEOF", "sysRow", "untilEOF">>
    <3>1. mid.at = "sysRow"
      BY <1>2, <1>7, <2>3 DEF Step, At
    <3>2. Goto(<<"sysRow", "untilEOF">>)
      BY <1>7, <2>3, Tuples DEF Rest
    <3>3. Asking(mid)'
      BY <1>1, <1>4, <2>3, <3>1, <3>2 DEF Asking, Goto
    <3>4. Expects(mid)'
      BY <1>1, <2>3, <3>3 DEF Expects
    <3> QED
      BY <1>2, <1>7, <3>2, <3>4, GoesOn
  <2>4. CASE op = "prepare" /\ from = Blocks(2) /\ todo = <<"untilEOF", "untilEOF">>
    <3>1. mid = Blocks(1)
      BY <1>2, <1>7, <2>4 DEF Step, Blocks
    <3>2. Goto(<<"untilEOF">>)
      BY <1>7, <2>4, Tuples DEF Rest
    <3>3. Asking(mid)'
      BY <1>1, <1>4, <2>4, <3>1, <3>2 DEF Asking, Goto
    <3>4. Expects(mid)'
      BY <1>1, <2>4, <3>3 DEF Expects
    <3> QED
      BY <1>2, <1>7, <3>2, <3>4, GoesOn
  <2>5. CASE op \in {"sysVar", "prepare"} /\ (from.at = "sysEnd" \/ from = Blocks(1)) /\ todo = <<"untilEOF">>
    <3>1. mid.at = "done"
      BY <1>2, <1>7, <2>5 DEF Step, Blocks, At
    <3>2. todo' = <<>>
      BY <1>7, <2>5, Tuples DEF Rest, Goto
    <3>3. AtRest(mid)'
      BY <1>1, <1>4, <2>5, <3>1 DEF AtRest
    <3> QED
      BY <1>2, <1>7, <3>2, <3>3, Rests
  <2> QED
    BY <1>4, <2>1, <2>2, <2>3, <2>4, <2>5
<1> QED
  BY <1>1, <1>5, <1>6, <1>7

LEMMA SkipRowsStep ==
  ASSUME Typed, NEW from \in Stage, Ahead(from), Expects(from), ~closed, result = "none", SkipRows, ~history'.wide
  PROVE  Ended' \/ Talking'
<1>1. /\ Consume /\ UNCHANGED <<op, peer, lost, command>> /\ Top("skipRows")
      /\ \/ ErrorPacket
         \/ Packet.type = "EOF" /\ Goto(Rest) /\ more' = Packet.more /\ UNCHANGED <<closed, prepared>>
         \/ /\ Packet.type \notin {"EOF", "Wide", "ERR", "ReadOnly"}
            /\ UNCHANGED <<todo, result, more, closed, prepared>>
  BY Skips DEF SkipRows
<1>2. PICK mid \in Stage : Step(from, Packet, mid) /\ Ahead(mid)'
  BY <1>1, ConsumeAhead DEF Typed
<1>3. /\ op \in {"query", "stmtQuery", "nextSet"} /\ Fetching(from) /\ todo = <<"skipRows", "nextSet">>
      /\ from.at = "rows" /\ rows.mc
  BY <1>1, AtSkipRows
<1>4. /\ rows.held <=> op = "nextSet"
      /\ op # "stmtQuery" /\ rows.failed = "none"
  BY <1>3 DEF Fetching
<1>5. /\ rows'.held = rows.held /\ rows'.mc = rows.mc /\ (rows'.done <=> Packet.type \in {"EOF", "Wide"})
      /\ Packet.type \in {"ERR", "ReadOnly"} => rows'.failed = "set"
      /\ Packet.type \notin {"ERR", "ReadOnly"} => rows'.failed = rows.failed
  <2>1. rows \in RowsType
    BY CallParts DEF Typed
  <2> QED
    BY <2>1 DEF SkipRows, RowsType, EndsSkip, Is
<1>6. CASE ErrorPacket
  <2>1. rows'.failed = "set" /\ ~rows'.done
    BY <1>5, <1>6 DEF ErrorPacket, Is
  <2> QED
    BY <1>2, <1>6, <2>1, Fails
<1>7. CASE Packet.type \notin {"EOF", "Wide", "ERR", "ReadOnly"} /\ UNCHANGED <<todo, result, more, closed, prepared>>
  <2>1. mid.at = "rows"
    BY <1>2, <1>3, <1>7 DEF Step, RowsAt
  <2>2. Fetching(mid)'
    BY <1>1, <1>3, <1>4, <1>5, <1>7, <2>1 DEF Fetching
  <2>3. Expects(mid)'
    BY <1>1, <1>3, <2>2 DEF Expects
  <2>4. todo # <<>>
    BY <1>3
  <2> QED
    BY <1>2, <1>7, <2>3, <2>4, Stays
<1>8. CASE Packet.type = "EOF" /\ Goto(Rest) /\ more' = Packet.more /\ UNCHANGED <<closed, prepared>>
  <2>1. mid = Following(rows'.mc /\ more')
    <3>1. mid = Following(Packet.more)
      BY <1>2, <1>3, <1>8 DEF Step
    <3> QED
      BY <1>3, <1>5, <1>8, <3>1 DEF Following
  <2>2. Goto(<<"nextSet">>)
    BY <1>3, <1>8, Tuples DEF Rest
  <2>5. rows'.failed = "none"
    BY <1>4, <1>5, <1>8
  <2>6. rows'.held <=> op = "nextSet"
    BY <1>4, <1>5
  <2>7. rows'.mc /\ op' = op
    BY <1>1, <1>3, <1>5
  <2>8. todo' = <<"nextSet">>
    BY <2>2 DEF Goto
  <2>3. Fetching(mid)'
    BY <1>4, <2>1, <2>5, <2>6, <2>7, <2>8 DEF Fetching
  <2>4. Expects(mid)'
    BY <1>1, <1>3, <2>3 DEF Expects
  <2> QED
    BY <1>2, <1>8, <2>2, <2>4, GoesOn
<1> QED
  BY <1>1, <1>6, <1>7, <1>8

LEMMA NextSetStep ==
  ASSUME Typed, NEW from \in Stage, Ahead(from), Expects(from), ~closed, NextSet PROVE Talking'
<1>1. Top("nextSet") /\ UNCHANGED <<op, more, closed, sequence, stream, peer, lost>>
  BY DEF NextSet
<1>2. Ahead(from)'
  BY <1>1, SameAhead
<1>3. op \in {"query", "stmtQuery", "nextSet"} /\ Fetching(from) /\ from = Following(rows.mc /\ more)
  BY <1>1, AtNextSet
<1>4. (rows.held <=> op = "nextSet") /\ (op = "stmtQuery" => ~rows.mc)
  BY <1>3 DEF Fetching
<1>5. rows \in RowsType
  BY CallParts DEF Typed
<1>6. CASE rows.mc /\ more
  <2>1. Goto(<<"queryHeader">>) /\ rows' = [rows EXCEPT !.done = FALSE]
    BY <1>6 DEF NextSet
  <2>2. ~rows'.done /\ rows'.held = rows.held /\ rows'.mc = rows.mc
    BY <1>5, <2>1 DEF RowsType
  <2>3. from.at = "head"
    BY <1>3, <1>6 DEF Following, At
  <2>4. Fetching(from)'
    BY <1>1, <1>3, <1>4, <1>6, <2>1, <2>2, <2>3 DEF Fetching, Goto
  <2>5. Expects(from)'
    BY <1>1, <1>3, <2>4 DEF Expects
  <2> QED
    BY <1>1, <1>2, <2>1, <2>5, GoesOn
<1>7. CASE ~(rows.mc /\ more)
  <2>1. Return(IF op = "nextSet" THEN "eof" ELSE "ok") /\ rows' = [rows EXCEPT !.mc = FALSE, !.held = TRUE]
    BY <1>7 DEF NextSet
  <2>2. ~rows'.mc
    BY <1>5, <2>1 DEF RowsType
  <2>3. from.at = "done"
    BY <1>3, <1>7 DEF Following, At
  <2>4. todo' = <<>> /\ AtRest(from)'
    BY <1>1, <1>3, <2>1, <2>2, <2>3 DEF AtRest, Return
  <2> QED
    BY <1>1, <1>2, <2>4, Rests
<1> QED
  BY <1>6, <1>7

LEMMA ColumnsStep ==
  ASSUME Typed, NEW from \in Stage, Ahead(from), Expects(from), ~closed, result = "none", Columns PROVE Talking'
<1>1. Consume /\ UNCHANGED <<op, peer, lost, command, more, closed>> /\ Top("columns")
  BY DEF Columns, Quiet
<1>2. PICK mid \in Stage : Step(from, Packet, mid) /\ Ahead(mid)'
  BY <1>1, ConsumeAhead DEF Typed
<1>3. op \in {"query", "stmtQuery", "nextSet"} /\ Fetching(from) /\ todo = <<"columns">> /\ from.at = "defs"
  BY <1>1, AtColumns
<1>4. history'.got = 0
  <2>1. history \in HistoryType
    BY CallParts DEF Typed
  <2> QED
    BY <2>1 DEF Columns, HistoryType
<1>5. CASE Is({"EOF"})
  <2>1. mid = RowsAt(0)
    BY <1>2, <1>3, <1>5 DEF Step, Is
  <2>2. Return("ok") /\ rows' = [rows EXCEPT !.held = TRUE, !.mc = TRUE, !.done = FALSE]
    BY <1>5 DEF Columns
  <2>3. rows'.held /\ rows'.mc /\ ~rows'.done /\ rows'.failed = "none"
    <3>1. rows \in RowsType /\ rows.failed = "none"
      BY <1>3, CallParts DEF Typed, Fetching
    <3> QED
      BY <2>2, <3>1 DEF RowsType
  <2>4. todo' = <<>> /\ AtRest(mid)'
    BY <1>1, <1>3, <1>4, <2>1, <2>2, <2>3 DEF AtRest, Return
  <2> QED
    BY <1>1, <1>2, <2>4, Rests
<1>6. CASE ~Is({"EOF"})
  <2>1. mid = from
    BY <1>2, <1>3, <1>6 DEF Step, Is
  <2>2. UNCHANGED <<todo, result, rows>>
    BY <1>6 DEF Columns
  <2>3. Fetching(mid)'
    BY <1>1, <1>3, <2>1, <2>2 DEF Fetching
  <2>4. Expects(mid)'
    BY <1>1, <1>3, <2>3 DEF Expects
  <2>5. todo # <<>>
    BY <1>3
  <2> QED
    BY <1>1, <1>2, <2>2, <2>4, <2>5, Stays
<1> QED
  BY <1>5, <1>6

\* Next: the count of an EOF is that of the rows delivered.
LEMMA RowStep ==
  ASSUME Typed, NEW from \in Stage, Ahead(from), Expects(from), ~closed, Row
  PROVE  (Ended' \/ Talking') /\ (EndsRows => Packet.n = history.got)
<1>1. Consume /\ UNCHANGED <<op, peer, lost, command>> /\ Top("row")
  BY DEF Row, Quiet
<1>2. PICK mid \in Stage : Step(from, Packet, mid) /\ Ahead(mid)'
  BY <1>1, ConsumeAhead DEF Typed
<1>3. /\ op = "next" /\ rows.held /\ rows.mc /\ ~rows.done /\ rows.failed = "none"
      /\ from = RowsAt(history.got)
  BY <1>1, AtOthers DEF Iterating
<1>4. rows \in RowsType /\ history \in HistoryType
  BY CallParts DEF Typed
<1>5. history'.got = history.got + 1
  BY <1>4 DEF Row, HistoryType
<1>6. from.at = "rows" /\ from.n = history.got
  BY <1>3 DEF RowsAt
<1>7. EndsRows => Packet.n = history.got
  BY <1>2, <1>6 DEF EndsRows, Is, Step
<1>8. CASE ErrorPacket /\ rows' = [rows EXCEPT !.mc = FALSE, !.failed = "row"]
  <2>1. ~rows'.mc
    BY <1>4, <1>8 DEF RowsType
  <2> QED
    BY <1>2, <1>7, <1>8, <2>1, Fails
<1>9. CASE /\ EndsRows /\ Return("eof") /\ more' = Packet.more
           /\ rows' = [rows EXCEPT !.done = TRUE, !.mc = Packet.more] /\ UNCHANGED <<closed, prepared>>
  <2>1. mid = Following(more')
    BY <1>2, <1>6, <1>9 DEF Step, EndsRows, Is
  <2>2. rows'.done /\ rows'.mc = more' /\ rows'.failed = "none"
    BY <1>3, <1>4, <1>9 DEF RowsType
  <2>3. mid.at \in {"done", "failed"} \/ (more' /\ mid = At("head"))
    BY <2>1 DEF Following, At
  <2>4. more' => mid = At("head")
    BY <2>1 DEF Following
  <2>5. ~(rows'.held /\ rows'.mc) => mid.at \in {"done", "failed"}
    <3>1. rows'.held
      BY <1>3, <1>4, <1>9 DEF RowsType
    <3> QED
      BY <2>2, <2>3, <3>1, <2>1 DEF Following, At
  <2>6. AtRest(mid)'
    BY <1>1, <1>3, <2>2, <2>4, <2>5 DEF AtRest
  <2>7. todo' = <<>>
    BY <1>9 DEF Return
  <2> QED
    BY <1>2, <1>7, <1>9, <2>6, <2>7, Rests
<1>11. ~Is({"OK", "Cols"})
  BY <1>2, <1>6 DEF Step, Is
<1>10. ASSUME ~EndsRows, Is({"Row", "Wide"}), UNCHANGED <<more, closed, prepared>>, NEW r \in {"ok", "err"}, Return(r),
              rows' = [rows EXCEPT !.failed = IF r = "err" THEN "row" ELSE @]
       PROVE  Talking'
  <2>1. mid = RowsAt(history'.got)
    BY <1>2, <1>5, <1>6, <1>10 DEF Step, Is
  <2>2. ~rows'.done /\ rows'.failed # "set"
    BY <1>3, <1>4, <1>10 DEF RowsType
  <2>3. rows'.held /\ rows'.mc
    BY <1>3, <1>4, <1>10 DEF RowsType
  <2>4. AtRest(mid)'
    BY <1>1, <1>3, <2>1, <2>2, <2>3 DEF AtRest
  <2>5. todo' = <<>>
    BY <1>10 DEF Return
  <2> QED
    BY <1>2, <1>10, <2>4, <2>5, Rests
<1> QED
  <2>1. Is({"OK"}) \/ Is({"Cols"}) => Is({"OK", "Cols"})
    BY DEF Is
  <2>2. ~Is({"OK"}) /\ ~Is({"Cols"})
    BY <1>11, <2>1
  <2>3. Is({"Row", "Wide", "OK"}) => Is({"Row", "Wide"})
    BY <2>2 DEF Is
  <2> QED
    BY <1>7, <1>8, <1>9, <1>10, <2>2, <2>3 DEF Row

LEMMA SysRowStep ==
  ASSUME Typed, NEW from \in Stage, Ahead(from), Expects(from), ~closed, SysRow PROVE Talking'
<1>1. Consume /\ UNCHANGED <<op, peer, lost, command, more, closed, rows>> /\ Top("sysRow") /\ Goto(Rest)
  BY DEF SysRow, Quiet, Same
<1>2. PICK mid \in Stage : Step(from, Packet, mid) /\ Ahead(mid)'
  BY <1>1, ConsumeAhead DEF Typed
<1>3. op = "sysVar" /\ ~rows.held /\ todo = <<"sysRow", "untilEOF">> /\ from.at = "sysRow"
  BY <1>1, AtOthers
<1>4. mid.at = "sysEnd"
  BY <1>2, <1>3 DEF Step, At
<1>5. Goto(<<"untilEOF">>)
  BY <1>1, <1>3, Tuples DEF Rest
<1>6. Asking(mid)'
  BY <1>1, <1>3, <1>4, <1>5 DEF Asking, Goto
<1>7. Expects(mid)'
  BY <1>1, <1>3, <1>6 DEF Expects
<1> QED
  BY <1>1, <1>2, <1>5, <1>7, GoesOn

LEMMA PreparedStep ==
  ASSUME Typed, NEW from \in Stage, Ahead(from), Expects(from), ~closed, Prepared PROVE Ended' \/ Talking'
<1>1. Consume /\ UNCHANGED <<op, peer, lost, command, rows>> /\ Top("prepare")
  BY DEF Prepared, Quiet
<1>2. PICK mid \in Stage : Step(from, Packet, mid) /\ Ahead(mid)'
  BY <1>1, ConsumeAhead DEF Typed
<1>3. op = "prepare" /\ ~rows.held /\ from.at = "prep"
  BY <1>1, AtOthers
<1>4. CASE ErrorPacket
  BY <1>1, <1>2, <1>3, <1>4, Fails
<1>5. CASE /\ Is({"Prep"}) /\ Goto([i \in 1..(Packet.params + Packet.cols) |-> "untilEOF"])
           /\ UNCHANGED <<more, closed>>
  <2>1. Packet.params + Packet.cols \in 0..2
    <3>1. Packet.params \in 0..1 /\ Packet.cols \in 0..1
      BY <1>1, <1>5, ConsumeTypes, PacketFields DEF Typed, Item, Is, Packet
    <3> QED
      BY <3>1
  <2>2. mid = Blocks(Packet.params + Packet.cols)
    BY <1>2, <1>3, <1>5 DEF Step, Is
  <2> DEFINE n == Packet.params + Packet.cols
             t == [i \in 1..n |-> "untilEOF"]
  <2>3. t \in Seq(Routine) /\ Len(t) = n /\ \A i \in 1..n : t[i] = "untilEOF"
    BY <2>1 DEF Routine
  <2>4. n \in 0..2 /\ mid = Blocks(n) /\ Goto(t)
    BY <1>5, <2>1, <2>2
  <2> HIDE DEF n, t
  <2>5. CASE n = 0
    <3>1. todo' = <<>>
      BY <2>3, <2>4, <2>5, EmptySeq DEF Goto
    <3>2. mid.at = "done"
      BY <2>4, <2>5 DEF Blocks, At
    <3>3. AtRest(mid)'
      BY <1>1, <1>3, <3>2 DEF AtRest
    <3> QED
      BY <1>2, <1>5, <3>1, <3>3, Rests
  <2>6. CASE n \in 1..2
    <3>1. t = IF n = 1 THEN <<"untilEOF">> ELSE <<"untilEOF", "untilEOF">>
      <4>1. CASE n = 1
        <5>1. t \in Seq(Routine) /\ <<"untilEOF">> \in Seq(Routine) /\ Len(t) = Len(<<"untilEOF">>)
          BY <2>3, <4>1 DEF Routine
        <5>2. \A i \in 1..Len(t) : t[i] = <<"untilEOF">>[i]
          BY <2>3, <4>1
        <5> QED
          BY <4>1, <5>1, <5>2, SeqEqual
      <4>2. CASE n = 2
        <5>1. /\ t \in Seq(Routine) /\ <<"untilEOF", "untilEOF">> \in Seq(Routine)
              /\ Len(t) = Len(<<"untilEOF", "untilEOF">>)
          BY <2>3, <4>2 DEF Routine
        <5>2. \A i \in 1..Len(t) : t[i] = <<"untilEOF", "untilEOF">>[i]
          BY <2>3, <4>2
        <5>3. t = <<"untilEOF", "untilEOF">>
          BY <5>1, <5>2, SeqEqual
        <5> QED
          BY <4>2, <5>3
      <4> QED
        BY <2>6, <4>1, <4>2
    <3>2. Goto(IF n = 1 THEN <<"untilEOF">> ELSE <<"untilEOF", "untilEOF">>)
      BY <2>4, <3>1
    <3>3. Asking(mid)'
      BY <1>1, <1>3, <2>4, <2>6, <3>2 DEF Asking, Goto
    <3>4. Expects(mid)'
      BY <1>1, <1>3, <3>3 DEF Expects
    <3>5. (IF n = 1 THEN <<"untilEOF">> ELSE <<"untilEOF", "untilEOF">>) # <<>>
      OBVIOUS
    <3> QED
      BY <1>2, <1>5, <3>2, <3>4, <3>5, GoesOn
  <2> QED
    BY <2>4, <2>5, <2>6
<1> QED
  BY <1>4, <1>5 DEF Prepared

LEMMA DiscardStep ==
  ASSUME Typed, NEW from \in Stage, Ahead(from), Expects(from), ~closed, DiscardResults PROVE Talking'
<1>1. /\ Top("discard") /\ Goto(IF more THEN <<"header">> \o todo ELSE Rest)
      /\ UNCHANGED <<op, more, closed, rows, sequence, stream, peer, lost, history>>
  BY DEF DiscardResults
<1>2. Ahead(from)'
  BY <1>1, SameAhead
<1>3. op \in {"exec", "stmtExec", "close"} /\ ~rows.held /\ todo = <<"discard">> /\ from = Following(more)
  BY <1>1, AtOthers
<1>4. CASE more
  <2>1. Goto(<<"header", "discard">>)
    BY <1>1, <1>3, <1>4, Tuples
  <2>2. Discarding(from)'
    BY <1>1, <1>3, <1>4, <2>1 DEF Discarding, Goto, Following, At
  <2>3. Expects(from)'
    BY <1>1, <1>3, <2>2 DEF Expects
  <2> QED
    BY <1>1, <1>2, <2>1, <2>3, GoesOn
<1>5. CASE ~more
  <2>1. todo' = <<>>
    BY <1>1, <1>3, <1>5, Tuples DEF Rest, Goto
  <2>2. AtRest(from)'
    BY <1>1, <1>3, <1>5 DEF AtRest, Following, At
  <2> QED
    BY <1>1, <1>2, <2>1, <2>2, Rests
<1> QED
  BY <1>4, <1>5

LEMMA ReadFailsStep == ASSUME ReadFails PROVE Ended'
BY DEF ReadFails, Return, Ended, Idle

LEMMA NeverOutOfSync ==
  ASSUME Typed, NEW from \in Stage, Ahead(from) PROVE ~OutOfSync \/ history.garbled
BY NumbersAgree DEF OutOfSync, Typed

LEMMA NeverGarbled ==
  ASSUME Typed, Own, NEW from \in Stage, Ahead(from) PROVE ~OutOfSync /\ ~TakeForeign /\ ~ReadGarbled
<1>1. ~history.garbled
  BY DEF Own
<1>2. ASSUME stream # <<>> PROVE stream[1].of = command
  <2>1. 1 \in DOMAIN stream
    BY <1>2, StreamLength, LenProperties DEF Typed, WireType
  <2> QED
    BY <2>1 DEF Own
<1> QED
  BY <1>1, <1>2, NeverOutOfSync DEF OutOfSync, TakeForeign, ReadGarbled

-----------------------------------------------------------------------------
(* The caller, the server and the network.                                 *)

LEMMA CallStep ==
  ASSUME Typed, Own, NEW from \in Stage, Ahead(from), Expects(from), ~closed, NEW o \in Command, Call(o)
  PROVE  Own' /\ (Ended' \/ Talking')
<1>1. /\ Idle /\ ~rows.held /\ op' = o /\ rows' = [NoRows EXCEPT !.binary = o = "stmtQuery"]
      /\ UNCHANGED <<stream, buffered, lost>>
      /\ Refuse \/ Send(o)
  BY DEF Call, MayCall
<1>2. ~rows'.held /\ ~rows'.mc /\ rows'.failed = "none"
  BY <1>1 DEF NoRows
<1>3. CASE Refuse
  <2>1. todo' = <<>> /\ result' = "badConn" /\ UNCHANGED <<command, history>>
    BY <1>3 DEF Refuse, Return
  <2>2. Own'
    BY <1>1, <2>1, OwnSame
  <2> QED
    BY <1>2, <2>1, <2>2 DEF Ended, Idle
<1>4. CASE Send(o)
  <2>1. stream = <<>>
    BY <1>1, AtOthers, AtTheEnd DEF AtRest, Typed
  <2>2. Begin(o) \in Stage /\ Ahead(Begin(o))'
    BY <1>1, <1>4, <2>1, SendAhead
  <2>3. Goto(Routines(o)) /\ closed' = closed /\ history' = [history EXCEPT !.got = 0]
    BY <1>4 DEF Send
  <2>4. Own'
    <3>1. history \in HistoryType
      BY CallParts DEF Typed
    <3>2. /\ history'.garbled = history.garbled /\ history'.foreign = history.foreign
          /\ history'.exact = history.exact
      BY <2>3, <3>1, HistoryKept
    <3>3. stream' = <<>>
      BY <1>1, <2>1
    <3> QED
      BY <3>2, <3>3 DEF Own
  <2>5. CASE o \in {"exec", "stmtExec"}
    <3>1. Goto(<<"header", "discard">>) /\ Begin(o).at \in {"start", "stmt"}
      BY <2>3, <2>5 DEF Routines, Begin, At
    <3>2. Discarding(Begin(o))'
      BY <1>2, <3>1 DEF Discarding, Goto
    <3>3. Expects(Begin(o))'
      BY <1>1, <2>5, <3>2 DEF Expects
    <3> QED
      BY <2>2, <2>3, <2>4, <3>1, <3>3, GoesOn
  <2>6. CASE o \in {"query", "stmtQuery"}
    <3>1. /\ Goto(<<"queryHeader">>)
          /\ o = "query" => Begin(o).at = "start"
          /\ o = "stmtQuery" => Begin(o).at = "stmt"
      BY <2>3, <2>6 DEF Routines, Begin, At
    <3>2. Fetching(Begin(o))'
      BY <1>1, <1>2, <2>6, <3>1 DEF Fetching, Goto
    <3>3. Expects(Begin(o))'
      BY <1>1, <2>6, <3>2 DEF Expects
    <3> QED
      BY <2>2, <2>3, <2>4, <3>1, <3>3, GoesOn
  <2>7. CASE o \in {"sysVar", "prepare", "ping"}
    <3>1. /\ o = "sysVar" => Goto(<<"header", "sysRow", "untilEOF">>) /\ Begin(o).at = "sys"
          /\ o = "prepare" => Goto(<<"prepare">>) /\ Begin(o).at = "prep"
          /\ o = "ping" => Goto(<<"ok">>) /\ Begin(o).at = "answer"
      BY <2>3, <2>7 DEF Routines, Begin, At
    <3>2. Asking(Begin(o))'
      BY <1>1, <1>2, <2>7, <3>1 DEF Asking, Goto
    <3>3. Expects(Begin(o))'
      BY <1>1, <2>7, <3>2 DEF Expects
    <3> QED
      BY <2>2, <2>3, <2>4, <2>7, <3>1, <3>3, GoesOn
  <2> QED
    BY <2>5, <2>6, <2>7 DEF Command
<1> QED
  BY <1>1, <1>3, <1>4

LEMMA StmtCloseStep ==
  ASSUME Typed, Own, NEW from \in Stage, Ahead(from), Expects(from), ~closed, StmtClose
  PROVE  Own' /\ (Ended' \/ Talking')
<1>1. /\ Idle /\ ~rows.held /\ op' = "stmtClose" /\ UNCHANGED <<rows, stream, lost, sequence, peer, command, history>>
      /\ Refuse \/ (Return("ok") /\ closed' = closed)
  BY DEF StmtClose, MayCall, Refuse
<1>2. Own'
  BY <1>1, OwnSame
<1>3. CASE Refuse
  BY <1>1, <1>2, <1>3 DEF Refuse, Return, Ended, Idle
<1>4. CASE Return("ok") /\ closed' = closed
  <2>1. from.at \in {"done", "failed"}
    BY <1>1, AtOthers DEF AtRest
  <2>2. AtRest(from)' /\ Ahead(from)'
    BY <1>1, <2>1, SameAhead DEF AtRest
  <2> QED
    BY <1>2, <1>4, <2>2, Rests DEF Return
<1> QED
  BY <1>1, <1>3, <1>4

LEMMA RowsStep ==
  ASSUME Typed, Own, NEW from \in Stage, Ahead(from), Expects(from), ~closed, RowsNext \/ NextResultSet \/ Close,
         ~history'.overrun
  PROVE  Own' /\ Talking'
<1>7. /\ Idle /\ rows.held /\ UNCHANGED <<more, closed, sequence, stream, peer, lost, command>>
      /\ ~RowsNext => history' = history
  BY DEF RowsNext, NextResultSet, Close, RowsCall
<1>8. RowsNext => history' = history /\ ~(rows.mc /\ rows.done /\ rows.binary)
  <2> SUFFICES ASSUME RowsNext PROVE history' = history /\ ~(rows.mc /\ rows.done /\ rows.binary)
    OBVIOUS
  <2>1. history \in HistoryType /\ rows \in RowsType
    BY CallParts DEF Typed
  <2> DEFINE overrun == history.overrun \/ (rows.mc /\ ~closed /\ rows.done /\ rows.binary)
  <2>2. history' = [history EXCEPT !.overrun = overrun] /\ overrun \in BOOLEAN /\ history.overrun \in BOOLEAN
    BY <2>1, HistoryTypes DEF RowsNext
  <2>3. history'.overrun = overrun
    <3> HIDE DEF overrun
    <3> QED
      BY <2>1, <2>2 DEF HistoryType
  <2>4. overrun = FALSE /\ history.overrun = FALSE
    BY <2>2, <2>3
  <2> HIDE DEF overrun
  <2>5. history' = history
    BY <2>1, <2>2, <2>4 DEF HistoryType
  <2>6. ~(rows.mc /\ rows.done /\ rows.binary)
    BY <2>4 DEF overrun
  <2> QED
    BY <2>5, <2>6
<1>1. Idle /\ rows.held /\ UNCHANGED <<more, closed, sequence, stream, peer, lost, command, history>>
  BY <1>7, <1>8
<1>2. Own' /\ Ahead(from)' /\ AtRest(from) /\ rows \in RowsType
  BY <1>1, OwnSame, SameAhead, AtOthers, CallParts DEF Typed
<1>3. ~rows.mc => from.at \in {"done", "failed"}
  BY <1>2 DEF AtRest
<1>4. CASE RowsNext
  <2>1. op' = "next" /\ rows.failed = "none" /\ rows' = rows
    BY <1>2, <1>4 DEF RowsNext, RowsCall, RowsType
  <2>2. CASE ~rows.mc
    <3>1. todo' = <<>>
      BY <1>4, <2>2 DEF RowsNext, Return
    <3>2. AtRest(from)'
      BY <1>3, <2>1, <2>2 DEF AtRest
    <3> QED
      BY <1>1, <1>2, <3>1, <3>2, Rests
  <2>4. CASE rows.mc /\ rows.done
    <3>1. todo' = <<>>
      BY <1>4, <1>8, <2>4 DEF RowsNext, Return
    <3>2. AtRest(from)'
      BY <1>1, <1>2, <2>1, <2>4 DEF AtRest
    <3> QED
      BY <1>1, <1>2, <3>1, <3>2, Rests
  <2>3. CASE rows.mc /\ ~rows.done
    <3>1. Goto(<<"row">>)
      BY <1>4, <2>3 DEF RowsNext
    <3>2. from = RowsAt(history.got)
      BY <1>1, <1>2, <2>1, <2>3 DEF AtRest
    <3>3. Iterating(from)'
      BY <1>1, <2>1, <2>3, <3>1, <3>2 DEF Iterating, Goto
    <3>4. Expects(from)'
      BY <2>1, <3>3 DEF Expects
    <3> QED
      BY <1>1, <1>2, <3>1, <3>4, GoesOn
  <2> QED
    BY <2>2, <2>3, <2>4
<1>5. CASE NextResultSet
  <2>1. op' = "nextSet" /\ rows.failed = "none" /\ rows' = rows
    BY <1>2, <1>5 DEF NextResultSet, RowsCall, RowsType
  <2>2. CASE ~rows.mc
    <3>1. todo' = <<>>
      BY <1>5, <2>2 DEF NextResultSet, Return
    <3>2. AtRest(from)'
      BY <1>3, <2>1, <2>2 DEF AtRest
    <3> QED
      BY <1>1, <1>2, <3>1, <3>2, Rests
  <2>3. CASE rows.mc /\ rows.done
    <3>1. Goto(<<"nextSet">>)
      BY <1>5, <2>3 DEF NextResultSet
    <3>2. more /\ from = At("head")
      BY <1>1, <1>2, <2>1, <2>3 DEF AtRest
    <3>3. from = Following(rows'.mc /\ more')
      BY <1>1, <2>1, <2>3, <3>2 DEF Following
    <3>4. Fetching(from)'
      BY <1>1, <2>1, <2>3, <3>1, <3>3 DEF Fetching, Goto
    <3>5. Expects(from)'
      BY <2>1, <3>4 DEF Expects
    <3> QED
      BY <1>1, <1>2, <3>1, <3>5, GoesOn
  <2>4. CASE rows.mc /\ ~rows.done
    <3>1. Goto(<<"skipRows", "nextSet">>)
      BY <1>5, <2>4 DEF NextResultSet
    <3>2. from.at = "rows"
      BY <1>1, <1>2, <2>1, <2>4 DEF AtRest, RowsAt
    <3>3. Fetching(from)'
      BY <1>1, <2>1, <2>4, <3>1, <3>2 DEF Fetching, Goto
    <3>4. Expects(from)'
      BY <2>1, <3>3 DEF Expects
    <3> QED
      BY <1>1, <1>2, <3>1, <3>4, GoesOn
  <2> QED
    BY <2>2, <2>3, <2>4
<1>6. CASE Close
  <2>1. op' = "close" /\ ~rows'.held /\ rows'.failed = rows.failed
    BY <1>2, <1>6 DEF Close, RowsCall, RowsType
  <2>2. CASE ~rows.mc
    <3>1. todo' = <<>>
      BY <1>6, <2>2 DEF Close, Return
    <3>2. AtRest(from)'
      BY <1>3, <2>1, <2>2 DEF AtRest
    <3> QED
      BY <1>1, <1>2, <3>1, <3>2, Rests
  <2>3. CASE rows.mc /\ rows.done
    <3>1. Goto(<<"discard">>)
      BY <1>6, <2>3, Tuples DEF Close
    <3>2. from = Following(more)
      BY <1>1, <1>2, <2>3 DEF AtRest, Following
    <3>3. Discarding(from)'
      BY <1>1, <2>1, <3>1, <3>2 DEF Discarding, Goto
    <3>4. Expects(from)'
      BY <2>1, <3>3 DEF Expects
    <3> QED
      BY <1>1, <1>2, <3>1, <3>4, GoesOn
  <2>4. CASE rows.mc /\ ~rows.done
    <3>1. Goto(<<"untilEOF", "discard">>)
      BY <1>6, <2>4, Tuples DEF Close
    <3>2. from.at = "rows" \/ (from.at = "failed" /\ rows.failed = "set")
      BY <1>1, <1>2, <2>4 DEF AtRest, RowsAt
    <3>3. Discarding(from)'
      BY <1>1, <2>1, <3>1, <3>2 DEF Discarding, Goto
    <3>4. Expects(from)'
      BY <2>1, <3>3 DEF Expects
    <3> QED
      BY <1>1, <1>2, <3>1, <3>4, GoesOn
  <2> QED
    BY <2>2, <2>3, <2>4
<1> QED
  BY <1>4, <1>5, <1>6

LEMMA SameExpected ==
  ASSUME NEW from, Expects(from), UNCHANGED <<op, todo, result, more, rows, history>> PROVE Expects(from)'
BY DEF Expects, Idle, AtRest, Discarding, Fetching, Asking, Iterating

LEMMA OutsideStep ==
  ASSUME Typed, NEW from \in Stage, Ahead(from), Expects(from), ~closed, ~Idle => result = "none",
         Respond \/ Lose \/ UNCHANGED sessionVars
  PROVE  Talking'
<1>1. UNCHANGED <<op, todo, result, more, closed, rows, history>>
  BY DEF Respond, Lose, driverVars, sessionVars
<1>2. Ahead(from)'
  <2>1. CASE UNCHANGED sessionVars
    BY <2>1, SameAhead DEF sessionVars
  <2> QED
    BY <2>1, RespondAhead, LoseAhead DEF Typed
<1>3. Expects(from)'
  BY <1>1, SameExpected
<1> QED
  BY <1>1, <1>2, <1>3 DEF Talking, Idle

LEMMA WorkStep ==
  ASSUME Typed, Own, NEW from \in Stage, Ahead(from), Expects(from), ~closed, ~Idle => result = "none",
         Work, ~history'.wide
  PROVE  Own' /\ (Ended' \/ Talking')
<1>1. history \in HistoryType /\ history.exact
  BY CallParts DEF Typed, Own
<1>2. CASE Header \/ QueryHeader \/ ResultOK \/ RefusedFile \/ SysRow \/ Prepared
  <2>1. Consume /\ Accept /\ Quiet
    BY <1>2 DEF Header, QueryHeader, ResultOK, RefusedFile, SysRow, Prepared
  <2>2. history'.garbled = history.garbled /\ history'.foreign = history.foreign /\ history'.exact
    BY <1>1, <2>1 DEF Accept
  <2> QED
    BY <1>2, <2>1, <2>2, OwnRead, HeaderStep, QueryHeaderStep, ResultOKStep, RefusedFileStep, SysRowStep, PreparedStep
<1>3. CASE UntilEOF \/ SkipRows
  <2>1. Consume /\ Quiet /\ history'.garbled = history.garbled /\ history'.foreign = history.foreign /\ history'.exact
    BY <1>1, <1>3 DEF UntilEOF, SkipRows, Skip, HistoryType
  <2>2. result = "none"
    BY <1>3 DEF UntilEOF, SkipRows, Skip, Top
  <2> QED
    BY <1>3, <2>1, <2>2, OwnRead, UntilEOFStep, SkipRowsStep
<1>4. CASE Columns
  <2>1. Consume /\ Quiet /\ history'.garbled = history.garbled /\ history'.foreign = history.foreign /\ history'.exact
    BY <1>1, <1>4 DEF Columns, HistoryType
  <2>2. result = "none"
    BY <1>4 DEF Columns, Top
  <2> QED
    BY <1>4, <2>1, <2>2, OwnRead, ColumnsStep
<1>5. CASE Row
  <2>1. (Ended' \/ Talking') /\ (EndsRows => Packet.n = history.got)
    BY <1>5, RowStep
  <2>2. Consume /\ Quiet /\ history'.garbled = history.garbled /\ history'.foreign = history.foreign /\ history'.exact
    BY <1>1, <1>5, <2>1 DEF Row, HistoryType
  <2> QED
    BY <2>1, <2>2, OwnRead
<1>6. CASE SendFile \/ NextSet \/ DiscardResults \/ ReadFails
  <2>1. /\ UNCHANGED <<stream, command>> /\ history'.garbled = history.garbled
        /\ history'.foreign = history.foreign /\ history'.exact = history.exact
    BY <1>1, <1>6 DEF SendFile, NextSet, DiscardResults, ReadFails, HistoryType
  <2> QED
    BY <1>6, <2>1, OwnSame, SendFileStep, NextSetStep, DiscardStep, ReadFailsStep
<1>7. ~OutOfSync /\ ~TakeForeign /\ ~ReadGarbled
  BY NeverGarbled
<1> QED
  BY <1>2, <1>3, <1>4, <1>5, <1>6, <1>7 DEF Work

LEMMA InvStep == ASSUME Typed, SessionInv, [SessionNext]_sessionVars PROVE SessionInv'
<1>1. CASE Spoilt'
  BY <1>1 DEF SessionInv
<1>2. CASE ~Spoilt'
  <2>4. ~history'.wide /\ ~history'.overrun
    BY <1>2 DEF Spoilt
  <2>1. Own /\ (Ended \/ Talking)
    BY <1>2, SpoiltStays DEF SessionInv
  <2>2. CASE Ended
    BY <2>1, <2>2, EndedStays DEF SessionInv
  <2>3. CASE Talking
    <3>1. PICK from \in Stage : Ahead(from) /\ Expects(from)
      BY <2>3 DEF Talking
    <3>2. ~closed /\ (~Idle => result = "none")
      BY <2>3 DEF Talking
    <3>3. CASE Work
      BY <2>4, <2>1, <3>1, <3>2, <3>3, WorkStep DEF SessionInv
    <3>4. CASE \E o \in Command : Call(o)
      BY <2>1, <3>1, <3>2, <3>4, CallStep DEF SessionInv
    <3>5. CASE StmtClose \/ RowsNext \/ NextResultSet \/ Close
      BY <2>4, <2>1, <3>1, <3>2, <3>5, StmtCloseStep, RowsStep DEF SessionInv
    <3>6. CASE Respond \/ Lose \/ UNCHANGED sessionVars
      <4>1. Own'
        BY <2>1, <3>6, OwnRespond, OwnLose, OwnSame DEF sessionVars
      <4> QED
        BY <3>1, <3>2, <3>6, <4>1, OutsideStep DEF SessionInv
    <3> QED
      BY <3>3, <3>4, <3>5, <3>6 DEF SessionNext, Caller
  <2> QED
    BY <2>1, <2>2, <2>3
<1> QED
  BY <1>1, <1>2

LEMMA InvStarts == SessionInit => SessionInv
<1> SUFFICES ASSUME SessionInit PROVE SessionInv
  OBVIOUS
<1>1. stream = <<>> /\ peer = [does |-> "wait", last |-> 0, bad |-> FALSE] /\ sequence = 0 /\ ~lost
  BY DEF SessionInit
<1>2. At("done") \in Stage /\ At("done") \in Final /\ At("done") # At("failed") /\ At("done").at = "done"
  BY StageTypes DEF Final, At
<1>3. Sent(At("done"), At("done"))
  <2>1. <<>> \in Seq(ServerPacket) /\ Len(<<>>) = 0 /\ Run(<<>>, At("done"), At("done"))
    BY <1>2, EmptyRun
  <2>2. Len(stream) = 0 /\ peer.last = 0
    BY <1>1
  <2>3. /\ Len(stream) <= Len(<<>>) /\ Len(<<>>) <= peer.last /\ Len(stream) = Len(<<>>)
        /\ \A i \in 1..Len(stream) :
             stream[i].packet = <<>>[i] /\ stream[i].pos = peer.last - Len(<<>>) + i
    BY <2>1, <2>2
  <2>4. At("done").at \in {"done", "failed"}
    BY <1>2
  <2> QED
    BY <2>1, <2>3, <2>4, Zenon DEF Sent
<1>4. Ahead(At("done"))
  BY <1>1, <1>2, <1>3 DEF Ahead
<1>5. todo = <<>> /\ ~rows.held /\ op = "none" /\ result = "ok" /\ ~closed
  BY DEF SessionInit, NoRows
<1>6. Expects(At("done"))
  BY <1>2, <1>5 DEF Expects, Idle, AtRest
<1>7. Own
  <2>1. ~history.garbled /\ history.foreign = 0 /\ history.exact
    BY DEF SessionInit
  <2> QED
    BY <1>1, <2>1 DEF Own
<1> QED
  BY <1>2, <1>4, <1>5, <1>6, <1>7 DEF SessionInv, Talking, Idle

-----------------------------------------------------------------------------
(* Leftovers: what an earlier command has left unread.                     *)

\* Nothing of the answer has been read; what is left of an earlier answer lies
\* before it, and lacks its first packet.
Virgin ==
  /\ ~Idle /\ todo[1] \in {"header", "queryHeader", "prepare", "ok"}
  /\ sequence = 1 % SeqMod /\ peer.does \in Command \cup {"wait"}
  /\ \A i \in 1..Len(stream) : stream[i].of # command => stream[i].pos >= 2
  /\ \A i, j \in 1..Len(stream) :
       i < j /\ stream[i].of = command => stream[j].of = command /\ stream[j].pos >= 2
  /\ peer.does # "wait" => peer.last = 0 /\ \A i \in 1..Len(stream) : stream[i].of # command

\* The first packet of the answer has been read, and nothing is left of the others.
Begun ==
  /\ \A i \in 1..Len(stream) : stream[i].of = command /\ stream[i].pos >= 2
  /\ peer.does \in {"wait", "file"} /\ (peer.does = "file" => peer.last >= 1)

Dead == closed /\ Idle

Leftovers == history.garbled \/ Dead \/ Virgin \/ Begun

\* A packet behind the first of its answer has the number of the first only when
\* the numbers have come round.
LEMMA ComesRound ==
  ASSUME NEW n \in Nat, n >= 2, n % SeqMod = 1 % SeqMod PROVE n > SeqMod
<1> SUFFICES ASSUME n <= SeqMod PROVE FALSE
  BY SessionAssumption
<1>1. SeqMod \in Nat \ {0} /\ 1 \in 0..SeqMod - 1
  BY SessionAssumption
<1>2. 1 % SeqMod = 1
  <2>1. 1 = SeqMod * 0 + 1
    BY <1>1
  <2> QED
    BY <1>1, <2>1, Remainder
<1>3. CASE n = SeqMod
  <2>1. n = SeqMod * 1 + 0 /\ 0 \in 0..SeqMod - 1
    BY <1>1, <1>3
  <2>2. n % SeqMod = 0
    BY <1>1, <2>1, Remainder
  <2> QED
    BY <1>2, <2>2
<1>4. CASE n < SeqMod
  <2>1. n = SeqMod * 0 + n /\ n \in 0..SeqMod - 1
    BY <1>1, <1>4
  <2>2. n % SeqMod = n
    BY <1>1, <2>1, Remainder
  <2> QED
    BY <1>2, <2>2
<1> QED
  BY <1>1, <1>3, <1>4

LEMMA ReadLeftovers == ASSUME Typed, Leftovers, Read PROVE Leftovers'
<1>1. Consume /\ Quiet /\ ~Idle /\ ~history.garbled
  BY ReadConsumes DEF Read, Header, QueryHeader, ResultOK, RefusedFile, UntilEOF, SkipRows, Skip,
                      Columns, Row, SysRow, Prepared, Top, Consume
<1>2. /\ Len(stream) \in Nat \ {0} /\ stream' = Tail(stream) /\ Len(stream') = Len(stream) - 1
      /\ \A i \in 1..Len(stream) - 1 : stream'[i] = stream[i + 1]
  BY <1>1, ConsumeTypes, EmptySeq, LenProperties, HeadTailProperties DEF Typed
<1>3. stream[1].of = command /\ UNCHANGED <<peer, command>>
  BY <1>1 DEF Consume, Quiet
<1>4. Virgin \/ Begun
  BY <1>1 DEF Leftovers, Dead
<1>5. ASSUME NEW i \in 1..Len(stream') PROVE stream'[i].of = command /\ stream'[i].pos >= 2
  <2>1. i + 1 \in 1..Len(stream) /\ 1 \in 1..Len(stream) /\ 1 < i + 1 /\ stream'[i] = stream[i + 1]
    BY <1>2
  <2>2. CASE Virgin
    BY <1>3, <2>1, <2>2 DEF Virgin
  <2>3. CASE Begun
    BY <2>1, <2>3 DEF Begun
  <2> QED
    BY <1>4, <2>2, <2>3
<1>6. peer.does \in {"wait", "file"} /\ (peer.does = "file" => peer.last >= 1)
  <2>1. CASE Virgin
    <3>1. 1 \in 1..Len(stream)
      BY <1>2
    <3>2. peer.does = "wait"
      BY <1>3, <2>1, <3>1 DEF Virgin
    <3> QED
      BY <3>2
  <2> QED
    BY <1>4, <2>1 DEF Begun
<1> QED
  BY <1>3, <1>5, <1>6 DEF Leftovers, Begun

LEMMA OtherLeftovers ==
  ASSUME Typed, Leftovers,
         SendFile \/ NextSet \/ DiscardResults \/ ReadFails \/ OutOfSync \/ TakeForeign \/ ReadGarbled
  PROVE  Leftovers'
<1>1. history \in HistoryType /\ ~Idle
  BY CallParts DEF Typed, SendFile, NextSet, DiscardResults, ReadFails, OutOfSync, TakeForeign, ReadGarbled,
                   Reading, Top
<1>2. CASE OutOfSync \/ TakeForeign \/ ReadGarbled
  BY <1>1, <1>2 DEF OutOfSync, TakeForeign, ReadGarbled, HistoryType, Leftovers
<1>3. CASE ReadFails
  BY <1>3 DEF ReadFails, Return, Leftovers, Dead, Idle
<1>4. CASE SendFile \/ NextSet \/ DiscardResults
  <2>1. ~Virgin /\ history'.garbled = history.garbled /\ UNCHANGED <<stream, command>>
    <3>1. todo[1] \in {"sendFile", "nextSet", "discard"}
      BY <1>4 DEF SendFile, NextSet, DiscardResults, Top
    <3>2. ~Virgin
      BY <3>1 DEF Virgin
    <3>3. UNCHANGED <<stream, command>>
      BY <1>4 DEF SendFile, NextSet, DiscardResults
    <3>4. history'.garbled = history.garbled
      <4>1. CASE SendFile
        BY <4>1 DEF SendFile
      <4>2. CASE NextSet
        <5>1. history' = [history EXCEPT !.got = 0]
          BY <4>2 DEF NextSet
        <5> QED
          BY <1>1, <5>1, HistoryKept
      <4>3. CASE DiscardResults
        BY <4>3 DEF DiscardResults
      <4> QED
        BY <1>4, <4>1, <4>2, <4>3
    <3> QED
      BY <3>2, <3>3, <3>4
  <2>2. CASE history.garbled
    BY <2>1, <2>2 DEF Leftovers
  <2>3. CASE Begun
    <3>1. peer'.does \in {"wait", "file"} /\ (peer'.does = "file" => peer'.last >= 1)
      <4>1. CASE peer' = peer
        BY <2>3, <4>1 DEF Begun
      <4>2. CASE \E written \in 1..2 : peer' = [peer EXCEPT !.does = "file", !.last = @ + written]
        <5>1. PICK written \in 1..2 : peer' = [peer EXCEPT !.does = "file", !.last = @ + written]
          BY <4>2
        <5>2. peer'.does = "file" /\ peer'.last = peer.last + written /\ peer.last \in Nat
          BY <5>1 DEF Typed, WireType, PeerType
        <5> QED
          BY <5>2
      <4> QED
        BY <1>4, <4>1, <4>2 DEF SendFile, NextSet, DiscardResults
    <3> QED
      BY <2>1, <2>3, <3>1 DEF Leftovers, Begun
  <2> QED
    BY <1>1, <2>1, <2>2, <2>3 DEF Leftovers, Dead
<1> QED
  BY <1>2, <1>3, <1>4

LEMMA CallerLeftovers == ASSUME Typed, Leftovers, Caller PROVE Leftovers'
<1>1. Idle /\ ~Virgin /\ history \in HistoryType
  BY CallParts DEF Typed, Caller, Call, StmtClose, MayCall, RowsNext, NextResultSet, Close, RowsCall, Virgin
<1>2. history'.garbled = history.garbled
  <2>1. ASSUME NEW o \in Command, Call(o) PROVE history'.garbled = history.garbled
    BY <1>1, <2>1, HistoryKept DEF Call, Refuse, Send
  <2>2. CASE RowsNext
    BY <1>1, <2>2 DEF RowsNext, HistoryType
  <2> QED
    BY <2>1, <2>2 DEF Caller, StmtClose, Refuse, NextResultSet, Close
<1>3. CASE history.garbled
  BY <1>2, <1>3 DEF Leftovers
<1>4. CASE Dead
  <2>1. closed /\ ~MayCall
    BY <1>4 DEF Dead, MayCall
  <2>2. RowsNext \/ NextResultSet \/ Close
    BY <2>1 DEF Caller, Call, StmtClose
  <2>3. closed' = closed /\ Idle'
    BY <2>1, <2>2 DEF RowsNext, NextResultSet, Close, RowsCall, Return, Idle
  <2> QED
    BY <2>1, <2>3 DEF Leftovers, Dead
<1>5. CASE Begun
  <2>1. CASE UNCHANGED <<stream, peer, command>>
    BY <1>5, <2>1 DEF Begun, Leftovers
  <2>2. ASSUME NEW o \in Command, Call(o), Send(o) PROVE Virgin'
    <3>1. /\ sequence' = 1 % SeqMod /\ peer' = [does |-> o, last |-> 0, bad |-> FALSE]
          /\ command' = command + 1 /\ Goto(Routines(o)) /\ stream' = stream
      BY <2>2 DEF Call, Send
    <3>2. ~Idle' /\ todo'[1] \in {"header", "queryHeader", "prepare", "ok"}
      BY <3>1 DEF Goto, Routines, Command, Idle
    <3>3. ASSUME NEW i \in 1..Len(stream) PROVE stream[i].of # command' /\ stream[i].pos >= 2
      <4>1. stream[i].of = command /\ stream[i].pos >= 2
        BY <1>5 DEF Begun
      <4>2. command + 1 # command
        BY DEF Typed, WireType
      <4> QED
        BY <3>1, <4>1, <4>2
    <3>4. peer'.does \in Command \cup {"wait"} /\ peer'.last = 0
      BY <3>1
    <3> QED
      BY <3>1, <3>2, <3>3, <3>4 DEF Virgin
  <2>3. CASE StmtClose \/ RowsNext \/ NextResultSet \/ Close
    BY <2>1, <2>3 DEF StmtClose, Refuse, RowsNext, NextResultSet, Close, RowsCall
  <2>4. ASSUME NEW o \in Command, Call(o) PROVE Leftovers'
    BY <2>1, <2>2, <2>4 DEF Call, Refuse, Leftovers
  <2> QED
    BY <2>3, <2>4 DEF Caller
<1> QED
  BY <1>1, <1>3, <1>4, <1>5 DEF Leftovers

LEMMA RespondLeftovers == ASSUME Typed, Leftovers, Respond PROVE Leftovers'
<1>1. UNCHANGED <<todo, closed, sequence, command, history>> /\ peer.does # "wait"
  BY DEF Respond, driverVars
<1>2. CASE history.garbled \/ Dead
  BY <1>1, <1>2 DEF Leftovers, Dead, Idle
<1>3. PICK s \in Responses(peer.does) :
        /\ stream' = stream \o Stamp(s, peer.last)
        /\ peer' = [peer EXCEPT !.does = "wait", !.bad = @ \/ Bad(s), !.last = @ + Len(s)]
  BY DEF Respond
<1>4. s \in Seq(ServerPacket) /\ Len(s) \in Nat
  BY <1>1, <1>3, ResponsesRun, LenProperties DEF WellFormed, Typed, WireType, PeerType
<1> DEFINE t == Stamp(s, peer.last)
           m == Len(stream)
           n == Len(s)
<1>5. t \in Seq(Item) /\ Len(t) = n /\ \A i \in 1..n : t[i].of = command /\ t[i].pos = peer.last + i
  <2>1. /\ t \in Seq(Item) /\ Len(t) = n
        /\ \A i \in 1..n : t[i] = [packet |-> s[i], of |-> command, pos |-> peer.last + i]
    BY <1>4, StampTypes DEF Typed
  <2> HIDE DEF t, n
  <2>2. ASSUME NEW i \in 1..n PROVE t[i].of = command /\ t[i].pos = peer.last + i
    <3>1. t[i] = [packet |-> s[i], of |-> command, pos |-> peer.last + i]
      BY <2>1
    <3> QED
      BY <3>1
  <2> QED
    BY <2>1, <2>2
<1>6. stream \in Seq(Item) /\ m \in Nat /\ n \in Nat /\ peer.last \in Nat
  BY <1>4, LenProperties DEF Typed, WireType, PeerType
<1>7. /\ Len(stream') = m + n
      /\ \A i \in 1..m : stream'[i] = stream[i]
      /\ \A i \in 1..m + n : i > m =>
           i - m \in 1..n /\ stream'[i].of = command /\ stream'[i].pos = peer.last + (i - m)
  <2>1. stream' = stream \o t
    BY <1>3
  <2> HIDE DEF t, m, n, Item
  <2>2. /\ Len(stream \o t) = Len(stream) + Len(t)
        /\ \A i \in 1..Len(stream) + Len(t) :
             (stream \o t)[i] = IF i <= Len(stream) THEN stream[i] ELSE t[i - Len(stream)]
    BY <1>5, <1>6, ConcatProperties
  <2>3. Len(stream') = m + n /\ \A i \in 1..m + n : stream'[i] = IF i <= m THEN stream[i] ELSE t[i - m]
    BY <1>5, <2>1, <2>2 DEF m
  <2>4. ASSUME NEW i \in 1..m + n, i > m
        PROVE  i - m \in 1..n /\ stream'[i].of = command /\ stream'[i].pos = peer.last + (i - m)
    <3>1. i - m \in 1..n /\ ~(i <= m)
      BY <1>6, <2>4
    <3>2. stream'[i] = t[i - m]
      BY <2>3, <3>1
    <3> QED
      BY <1>5, <3>1, <3>2
  <2>5. ASSUME NEW i \in 1..m PROVE stream'[i] = stream[i]
    <3>1. i \in 1..m + n /\ i <= m
      BY <1>6
    <3> QED
      BY <2>3, <3>1
  <2> QED
    BY <2>3, <2>4, <2>5
<1>8. peer'.does = "wait"
  BY <1>3 DEF Typed, WireType, PeerType
<1> HIDE DEF t, m, n
<1>9. CASE Virgin
  <2>1. peer.last = 0 /\ \A i \in 1..m : stream[i].of # command /\ stream[i].pos >= 2
    BY <1>1, <1>9 DEF Virgin, m
  <2>2. ASSUME NEW i \in 1..m + n, stream'[i].of # command PROVE stream'[i].pos >= 2
    <3>1. i \in 1..m
      BY <1>6, <1>7, <2>2
    <3> QED
      BY <1>7, <2>1, <3>1
  <2>3. ASSUME NEW i \in 1..m + n, NEW j \in 1..m + n, i < j, stream'[i].of = command
        PROVE  stream'[j].of = command /\ stream'[j].pos >= 2
    <3>1. i > m
      <4> SUFFICES ASSUME i \in 1..m PROVE FALSE
        BY <1>6
      <4> QED
        BY <1>7, <2>1, <2>3
    <3>2. j > m /\ j - m >= 2
      BY <1>6, <2>3, <3>1
    <3>3. stream'[j].of = command /\ stream'[j].pos = 0 + (j - m)
      BY <1>7, <2>1, <3>2
    <3> QED
      BY <1>6, <3>2, <3>3
  <2>4. ~Idle' /\ todo'[1] \in {"header", "queryHeader", "prepare", "ok"} /\ sequence' = 1 % SeqMod
    BY <1>1, <1>9 DEF Virgin, Idle
  <2>5. Virgin'
    BY <1>1, <1>7, <1>8, <2>2, <2>3, <2>4 DEF Virgin
  <2> QED
    BY <2>5 DEF Leftovers
<1>10. CASE Begun
  <2>1. peer.last >= 1 /\ \A i \in 1..m : stream[i].of = command /\ stream[i].pos >= 2
    BY <1>1, <1>10 DEF Begun, m
  <2>2. ASSUME NEW i \in 1..m + n PROVE stream'[i].of = command /\ stream'[i].pos >= 2
    <3>1. CASE i > m
      <4>1. stream'[i].of = command /\ stream'[i].pos = peer.last + (i - m) /\ i - m \in 1..n
        BY <1>7, <3>1
      <4> QED
        BY <1>6, <2>1, <4>1
    <3>2. CASE i \in 1..m
      BY <1>7, <2>1, <3>2
    <3> QED
      BY <1>6, <3>1, <3>2
  <2> QED
    BY <1>1, <1>7, <1>8, <2>2 DEF Begun, Leftovers
<1> QED
  BY <1>2, <1>9, <1>10 DEF Leftovers

LEMMA LoseLeftovers == ASSUME Typed, Leftovers, Lose PROVE Leftovers'
<1>1. PICK k \in buffered..Len(stream) : stream' = SubSeq(stream, 1, k)
  BY DEF Lose
<1>2. /\ Len(stream) \in Nat /\ k \in 0..Len(stream) /\ Len(stream') = k
      /\ \A i \in 1..k : stream'[i] = stream[i] /\ i \in 1..Len(stream)
  BY <1>1, SubSeqProperties, LenProperties DEF Typed, WireType
<1>3. UNCHANGED <<todo, closed, sequence, command, history, peer>>
  BY DEF Lose, driverVars
<1>4. CASE Virgin
  <2>1. ~Idle' /\ todo'[1] \in {"header", "queryHeader", "prepare", "ok"} /\ sequence' = 1 % SeqMod
        /\ peer'.does \in Command \cup {"wait"} /\ (peer'.does # "wait" => peer'.last = 0)
    BY <1>3, <1>4 DEF Virgin, Idle
  <2>2. \A i \in 1..Len(stream') : stream'[i].of # command' => stream'[i].pos >= 2
    BY <1>2, <1>3, <1>4 DEF Virgin
  <2>3. \A i, j \in 1..Len(stream') :
          i < j /\ stream'[i].of = command' => stream'[j].of = command' /\ stream'[j].pos >= 2
    BY <1>2, <1>3, <1>4 DEF Virgin
  <2>4. peer'.does # "wait" => \A i \in 1..Len(stream') : stream'[i].of # command'
    BY <1>2, <1>3, <1>4 DEF Virgin
  <2>5. Virgin'
    BY <2>1, <2>2, <2>3, <2>4 DEF Virgin
  <2> QED
    BY <2>5 DEF Leftovers
<1>5. CASE Begun
  <2>1. Begun'
    BY <1>2, <1>3, <1>5 DEF Begun
  <2> QED
    BY <2>1 DEF Leftovers
<1>6. CASE history.garbled \/ Dead
  BY <1>3, <1>6 DEF Leftovers, Dead, Idle
<1> QED
  BY <1>4, <1>5, <1>6 DEF Leftovers

LEMMA LeftoversStep == ASSUME Typed, Leftovers, [SessionNext]_sessionVars PROVE Leftovers'
<1>1. CASE UNCHANGED sessionVars
  BY <1>1 DEF sessionVars, Leftovers, Dead, Idle, Virgin, Begun
<1>2. CASE Work
  BY <1>2, ReadLeftovers, OtherLeftovers DEF Work, Read
<1> QED
  BY <1>1, <1>2, CallerLeftovers, RespondLeftovers, LoseLeftovers DEF SessionNext

LEMMA MatchStep == ASSUME Typed, Leftovers, AnswersMatch, [SessionNext]_sessionVars PROVE AnswersMatch'
<1>1. history \in HistoryType
  BY CallParts DEF Typed
<1>2. CASE TakeForeign
  <2>1. Reading /\ stream # <<>> /\ ~history.garbled /\ InSequence(stream[1]) /\ stream[1].of # command
        /\ history' = [history EXCEPT !.foreign = stream[1].pos, !.garbled = TRUE]
    BY <1>2 DEF TakeForeign
  <2>2. 1 \in 1..Len(stream) /\ stream[1].pos \in Nat
    BY <2>1, <1>2, StreamLength, TakeTypes DEF TakeForeign, Typed, Item
  <2>3. ~Begun /\ ~Dead
    BY <2>1, <2>2 DEF Begun, Dead, Reading
  <2>4. stream[1].pos >= 2 /\ sequence = 1 % SeqMod
    BY <2>1, <2>2, <2>3 DEF Leftovers, Virgin
  <2>5. stream[1].pos > SeqMod
    BY <2>1, <2>2, <2>4, ComesRound DEF InSequence
  <2>6. history'.foreign = stream[1].pos
    BY <1>1, <2>1 DEF HistoryType
  <2> QED
    BY <2>5, <2>6 DEF AnswersMatch
<1>3. CASE ~TakeForeign
  <2>1. history'.foreign = history.foreign
    <3>1. CASE Read
      <4>1. CASE Header \/ QueryHeader \/ ResultOK \/ RefusedFile \/ SysRow \/ Prepared
        BY <4>1 DEF Header, QueryHeader, ResultOK, RefusedFile, SysRow, Prepared, Accept
      <4>2. CASE UntilEOF \/ SkipRows \/ Columns \/ Row
        BY <1>1, <4>2 DEF UntilEOF, SkipRows, Skip, Columns, Row, HistoryType
      <4> QED
        BY <3>1, <4>1, <4>2 DEF Read
    <3>2. CASE SendFile \/ DiscardResults \/ ReadFails \/ ReadGarbled
      BY <3>2 DEF SendFile, DiscardResults, ReadFails, ReadGarbled
    <3>7. CASE NextSet
      <4>1. history' = [history EXCEPT !.got = 0]
        BY <3>7 DEF NextSet
      <4> QED
        BY <1>1, <4>1, HistoryKept
    <3>8. CASE OutOfSync
      <4>1. history' = [history EXCEPT !.garbled = TRUE]
        BY <3>8 DEF OutOfSync
      <4> QED
        BY ONLY <1>1, <4>1 DEF HistoryType
    <3>3. CASE \E o \in Command : Call(o)
      <4>1. history' = history \/ history' = [history EXCEPT !.got = 0]
        BY <3>3 DEF Call, Refuse, Send
      <4>2. [history EXCEPT !.got = 0].foreign = history.foreign
        BY ONLY <1>1, HistoryKept
      <4> QED
        BY ONLY <4>1, <4>2
    <3>4. CASE StmtClose \/ NextResultSet \/ Close
      BY <3>4 DEF StmtClose, Refuse, NextResultSet, Close
    <3>5. CASE RowsNext
      <4>1. \E overrun : history' = [history EXCEPT !.overrun = overrun]
        BY <3>5 DEF RowsNext
      <4>2. PICK overrun : history' = [history EXCEPT !.overrun = overrun]
        BY <4>1
      <4> QED
        BY ONLY <1>1, <4>2 DEF HistoryType
    <3>6. CASE Respond \/ Lose \/ UNCHANGED sessionVars
      BY <3>6 DEF Respond, Lose, sessionVars
    <3> QED
      BY <1>3, <3>1, <3>2, <3>3, <3>4, <3>5, <3>6, <3>7, <3>8 DEF SessionNext, Caller, Work, Read
  <2>2. SeqMod' = SeqMod
    OBVIOUS
  <2> QED
    BY <2>1 DEF AnswersMatch
<1> QED
  BY <1>2, <1>3

LEMMA LeftoversStart == SessionInit => Leftovers /\ AnswersMatch
<1> SUFFICES ASSUME SessionInit PROVE Leftovers /\ AnswersMatch
  OBVIOUS
<1>1. stream = <<>> /\ Len(stream) = 0 /\ peer.does = "wait" /\ history.foreign = 0
  BY DEF SessionInit
<1>2. Begun
  BY <1>1 DEF Begun
<1> QED
  BY <1>1, <1>2 DEF Leftovers, AnswersMatch

-----------------------------------------------------------------------------
(* Theorems.                                                               *)

THEOREM SessionInvariance == Spec => []SessionInv
<1>1. Init => SessionInv
  BY InvStarts DEF Init
<1>2. Typed /\ SessionInv /\ [Next]_vars => SessionInv'
  BY SessionSteps, InvStep
<1> QED
  BY <1>1, <1>2, SessionTypes, PTL DEF Spec

\* connection.go, statement.go, transaction.go, rows.go: a call that has returned
\* has read its whole answer, whatever the server answered and in whatever state
\* the caller closed its rows, so the connection can take the next command; the
\* exceptions are a wide row that readUntilEOF took for the end (packets.go:684), and
\* a row asked for behind the end of a binary set with more results (rows.go:191).
THEOREM NothingLeft == Spec => []InSync
<1>1. Typed /\ SessionInv => InSync
  <2> SUFFICES ASSUME Typed, SessionInv, MayCall, ~rows.held, ~lost, ~Spoilt
               PROVE  stream = <<>> /\ peer.does = "wait"
    BY DEF InSync, Spoilt
  <2>1. Talking /\ Idle
    BY DEF SessionInv, MayCall, Ended
  <2>2. PICK from \in Stage : Ahead(from) /\ Expects(from)
    BY <2>1 DEF Talking
  <2>3. from.at \in {"done", "failed"}
    BY <2>1, <2>2, AtOthers DEF AtRest
  <2> QED
    BY <2>2, <2>3, AtTheEnd DEF Typed
<1> QED
  BY <1>1, SessionTypes, SessionInvariance, PTL

\* packets.go (readPacket and its callers): a call reads only what is to come, so
\* it never waits for a packet that the server has no reason to send; the exception
\* is Close after a NextResultSet that failed (rows.go:121), or after a wide row or a
\* row too many.
THEOREM NobodyWaits == Spec => []WaitsForSomething
<1>1. Typed /\ SessionInv => WaitsForSomething
  <2> SUFFICES ASSUME Typed, SessionInv, Reading, stream = <<>>, ~lost, rows.failed # "set", ~Spoilt
               PROVE  peer.does # "wait"
    BY DEF WaitsForSomething, Spoilt
  <2>1. Talking /\ ~Idle
    BY DEF SessionInv, Ended, Reading
  <2>2. PICK from \in Stage : Ahead(from) /\ Expects(from)
    BY <2>1 DEF Talking
  <2>3. from.at \notin {"done", "failed", "file"}
    <3>1. todo[1] \notin {"sendFile", "nextSet", "discard"}
      BY DEF Reading
    <3>2. CASE Discarding(from)
      BY <3>1, <3>2 DEF Discarding
    <3>3. CASE op \in {"query", "stmtQuery", "nextSet"} /\ Fetching(from)
      BY <3>1, <3>3 DEF Fetching
    <3>4. CASE Asking(from)
      BY <3>1, <3>4 DEF Asking, Blocks
    <3>5. CASE Iterating(from)
      BY <3>5 DEF Iterating, RowsAt
    <3> QED
      BY <2>1, <2>2, <3>2, <3>3, <3>4, <3>5 DEF Expects
  <2> QED
    BY <2>2, <2>3, SomethingComes DEF Typed
<1> QED
  BY <1>1, SessionTypes, SessionInvariance, PTL

\* packets.go:45-50 (readPacket): a call takes a packet of an earlier command for an
\* answer only where the sequence number has come round, whatever was left unread and
\* whatever of it had arrived, for every modulus of the sequence numbers: what is left
\* of an answer lacks its first packet, and a new answer begins with number 1.
THEOREM OwnAnswers == Spec => []AnswersMatch
<1>1. Init => Leftovers /\ AnswersMatch
  BY LeftoversStart DEF Init
<1>2. Typed /\ (Leftovers /\ AnswersMatch) /\ [Next]_vars => (Leftovers /\ AnswersMatch)'
  BY SessionSteps, LeftoversStep, MatchStep
<1> QED
  BY <1>1, <1>2, SessionTypes, PTL DEF Spec

\* rows.go (readRow), connection.go (exec): Next reports the end behind exactly the
\* rows of the result set, and Exec succeeds only if every statement of the command
\* did, as long as no wide row was skipped and no row too many asked for.
THEOREM TrueResults == Spec => [](~history.wide /\ ~history.overrun => ResultsAreTrue)
<1>1. Typed /\ SessionInv => (~history.wide /\ ~history.overrun => ResultsAreTrue)
  <2> SUFFICES ASSUME Typed, SessionInv, ~Spoilt PROVE ResultsAreTrue
    BY DEF Spoilt
  <2>1. Own /\ (Ended \/ Talking)
    BY DEF SessionInv
  <2>2. ASSUME op \in {"exec", "stmtExec"}, result = "ok" PROVE ~peer.bad
    <3>1. Talking /\ Idle
      BY <2>1, <2>2 DEF Ended, Talking
    <3>2. PICK from \in Stage : Ahead(from) /\ Expects(from)
      BY <3>1 DEF Talking
    <3>3. from.at = "done"
      BY <2>2, <3>1, <3>2, AtOthers DEF AtRest
    <3> QED
      BY <3>2, <3>3, AtTheEnd DEF Typed
  <2> QED
    BY <2>1, <2>2 DEF ResultsAreTrue, Own
<1> QED
  BY <1>1, SessionTypes, SessionInvariance, PTL

=============================================================================
