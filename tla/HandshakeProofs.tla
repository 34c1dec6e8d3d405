-------------------------- MODULE HandshakeProofs --------------------------
(***************************************************************************)
(* Logins, for any passwords and any databases not named like a plugin:    *)
(* whoever is let in has the user's password, and who has it is let in     *)
(* wherever the method can work.                                           *)
(*                                                                         *)
(* Client and server take turns: one of them has a packet to read, or both *)
(* are done.  Where they are together says which packets are on their way  *)
(* and what was agreed on: the invariant is one phase for each of these.   *)
(***************************************************************************)
EXTENDS Handshake, TLAPS

\* The types of the two sides.
ClientTypes ==
    [pc : {"greeting", "result", "switched", "key", "ok", "ready", "closed"},
     plugin : isAuthMethodSupported, salt : {0, 1, 2}]

ServerTypes ==
    [pc : {"response", "auth", "encrypted", "ready", "closed"},
     plugin : isAuthMethodSupported \cup Databases \cup {NoString},
     salt : {1, 2}, full : BOOLEAN, db : Databases \cup {NoString, None},
     why : {"none", "auth", "handler"}]

HandshakeTypes ==
    /\ conf \in [server : NewServer, user : Credential] /\ acc \in Account
    /\ cl \in ClientTypes /\ sv \in ServerTypes

\* A cached password is one of the user's.
CacheRight ==
    cache # None =>
        conf.user # None /\ conf.user.plugin = CachingSha2 /\ cache \in conf.user.passwords

\* The client knows the user's password.
Right == conf.user # None /\ acc.password \in conf.user.passwords

\* The server has not asked for full authentication, nor refused.
Alert == sv.full = FALSE /\ sv.why = "none"

\* Both sides have come to the user's plugin, with the same salt.
Agreed(plugin) ==
    /\ conf.user # None /\ conf.user.plugin = plugin /\ sv.why = "none"
    /\ sv.plugin = plugin /\ cl.plugin = plugin /\ cl.salt = sv.salt

\* The client waits in handleAuthResult.
InAuthResult == cl.pc \in {"result", "switched"}

\* The greeting is on its way; the client gave up without TLS; its response.
Greets ==
    /\ cl.pc = "greeting" /\ sv.pc = "response" /\ sv.salt = 1 /\ Alert
    /\ up = <<>>
    /\ down = <<[k |-> "greeting", plugin |-> conf.server.method, salt |-> 1, ssl |-> conf.server.tls]>>

Leaves ==
    /\ cl.pc = "closed" /\ sv.pc = "response" /\ Alert /\ up = <<>> /\ down = <<>>
    /\ ~Workable

Responds ==
    /\ cl.pc = "result" /\ cl.plugin = conf.server.method /\ cl.salt = 1
    /\ sv.pc = "response" /\ sv.salt = 1 /\ Alert
    /\ up = <<HandshakeResponse(conf.server.method, 1)>> /\ down = <<>>

\* The switch to the user's plugin, and its answer.
ServerSwitches ==
    /\ cl.pc = "result" /\ sv.pc = "auth" /\ sv.salt = 2 /\ Alert
    /\ conf.user # None /\ sv.plugin = conf.user.plugin
    /\ up = <<>> /\ down = <<[k |-> "switch", plugin |-> conf.user.plugin, salt |-> 2]>>

ClientSwitches ==
    /\ cl.pc = "switched" /\ sv.pc = "auth" /\ Alert /\ Agreed(conf.user.plugin) /\ sv.salt = 2
    /\ up = <<[k |-> "auth", auth |-> genAuthResponse(conf.user.plugin, 2, TRUE).auth]>> /\ down = <<>>

\* Full authentication of caching_sha2_password.
FullAsked ==
    /\ InAuthResult /\ sv.pc = "auth" /\ sv.full = TRUE /\ Agreed(CachingSha2)
    /\ acc.password # Empty /\ up = <<>> /\ down = <<[k |-> "full"]>>

FullAnswered ==
    /\ sv.pc = "auth" /\ sv.full = TRUE /\ Agreed(CachingSha2)
    /\ acc.password # Empty /\ down = <<>>
    /\ \/ cl.pc = "ok" /\ Trusted /\ up = <<ClearText>>
       \/ cl.pc = "key" /\ ~Trusted /\ up = <<KeyRequest>>

FullKey ==
    /\ cl.pc = "key" /\ ~Trusted /\ sv.pc = "encrypted" /\ sv.full = TRUE /\ Agreed(CachingSha2)
    /\ conf.server.rsa /\ up = <<>> /\ down = <<[k |-> "key"]>>

FullEncrypted ==
    /\ cl.pc = "ok" /\ ~Trusted /\ sv.pc = "encrypted" /\ sv.full = TRUE /\ Agreed(CachingSha2)
    /\ conf.server.rsa /\ up = <<Encrypted(sv.salt)>> /\ down = <<>>

\* sha256_password with the server's key.
KeySent ==
    /\ InAuthResult /\ ~Trusted /\ sv.pc = "auth" /\ Alert /\ Agreed(Sha256)
    /\ conf.server.rsa /\ up = <<>> /\ down = <<[k |-> "key"]>>

KeyUsed ==
    /\ cl.pc = "ok" /\ ~Trusted /\ sv.pc = "auth" /\ Alert /\ Agreed(Sha256)
    /\ conf.server.rsa /\ up = <<Encrypted(sv.salt)>> /\ down = <<>>

\* The last packets of the server.
LastPackets(p) ==
    \/ InAuthResult /\ cl.plugin = CachingSha2 /\ down = <<[k |-> "fast"], [k |-> p]>>
    \/ cl.pc \in {"result", "switched", "key", "ok"} /\ down = <<[k |-> p]>>

\* The server is done: it let the client in, or refused it, for a reason if the
\* login could have worked.
Accepted ==
    /\ sv.pc = "ready" /\ sv.why = "none" /\ Right /\ up = <<>>
    /\ \/ LastPackets("ok") /\ cl.pc # "key"
       \/ cl.pc = "ready" /\ down = <<>>

Refused ==
    /\ sv.pc = "closed" /\ up = <<>> /\ (Workable => sv.why = "handler")
    /\ \/ LastPackets("err")
       \/ cl.pc \in {"result", "switched", "key", "ok", "closed"} /\ down = <<>>

\* The inductive invariant: types, the cache, and one of the phases.
Phase ==
    \/ Greets \/ Leaves \/ Responds \/ ServerSwitches \/ ClientSwitches
    \/ FullAsked \/ FullAnswered \/ FullKey \/ FullEncrypted \/ KeySent \/ KeyUsed
    \/ Accepted \/ Refused

HandshakeInv == HandshakeTypes /\ CacheRight /\ Phase

\* The plugins are different from each other, from the empty string and from
\* every database.
LEMMA Plugins ==
  /\ Native # CachingSha2 /\ Native # Sha256 /\ Native # Clear
  /\ CachingSha2 # Sha256 /\ CachingSha2 # Clear /\ Sha256 # Clear
  /\ \A d \in Databases \cup {NoString} : d \notin isAuthMethodSupported
<1>1. NoString \notin isAuthMethodSupported
  BY DEF Native, CachingSha2, Sha256, Clear, isAuthMethodSupported, NoString
<1>2. \A d \in Databases : d \notin isAuthMethodSupported
  BY HandshakeAssumption, Zenon
<1>3. /\ Native # CachingSha2 /\ Native # Sha256 /\ Native # Clear
      /\ CachingSha2 # Sha256 /\ CachingSha2 # Clear /\ Sha256 # Clear
  BY DEF Native, CachingSha2, Sha256, Clear
<1> QED
  BY <1>1, <1>2, <1>3, Zenon

\* Two packets behind an empty queue.
LEMMA QueueTwo ==
  ASSUME NEW x, NEW y
  PROVE  <<>> \o Append(<<x>>, y) = <<x, y>>
<1> DEFINE S == {x, y}
           c == Append(<<x>>, y)
<1>1. <<x>> \in Seq(S) /\ <<x, y>> \in Seq(S) /\ y \in S
  OBVIOUS
<1> HIDE DEF S
<1>2. c \in Seq(S) /\ Len(c) = 2 /\ c[1] = x /\ c[2] = y
  BY <1>1
<1> HIDE DEF c
<1>3. c = <<x, y>>
  BY <1>1, <1>2
<1>4. <<>> \o c = c
  BY <1>2
<1> QED
  BY <1>3, <1>4, Zenon DEF c

\* One packet behind an empty queue, and the packet that is read.
LEMMA Queue ==
  ASSUME NEW x, NEW y
  PROVE  /\ <<>> \o <<x>> = <<x>> /\ <<>> \o Append(<<>>, x) = <<x>>
         /\ Append(<<>>, x) = <<x>> /\ <<>> \o <<>> = <<>>
         /\ Head(<<x>>) = x /\ Tail(<<x>>) = <<>>
         /\ Head(<<x, y>>) = x /\ Tail(<<x, y>>) = <<y>>
         /\ <<x>> # <<>> /\ <<x, y>> # <<>>
<1> DEFINE S == {x}
           b == Append(<<>>, x)
<1>1. <<x>> \in Seq(S) /\ <<>> \in Seq(S) /\ x \in S
  OBVIOUS
<1> HIDE DEF S
<1>2. b \in Seq(S) /\ Len(b) = 1 /\ b[1] = x
  BY <1>1
<1> HIDE DEF b
<1>3. b = <<x>>
  BY <1>1, <1>2
<1>4. <<>> \o <<x>> = <<x>> /\ <<>> \o <<>> = <<>>
  BY <1>1
<1>5. /\ Head(<<x>>) = x /\ Tail(<<x>>) = <<>>
      /\ Head(<<x, y>>) = x /\ Tail(<<x, y>>) = <<y>>
      /\ <<x>> # <<>> /\ <<x, y>> # <<>>
  OBVIOUS
<1> QED
  BY <1>3, <1>4, <1>5, Zenon DEF b

\* What the settings are.
LEMMA Settings ==
  ASSUME HandshakeTypes
  PROVE  /\ conf.server.method \in {Native, CachingSha2, Sha256}
         /\ conf.server.tls \in BOOLEAN /\ conf.server.rsa \in BOOLEAN
         /\ conf.user # None =>
               /\ conf.user.plugin \in isAuthMethodSupported
               /\ \E p \in Passwords : conf.user.passwords = {p}
         /\ acc.password \in Passwords /\ acc.tls \in BOOLEAN /\ acc.unix \in BOOLEAN
         /\ acc.db \in Databases \cup {None}
<1>1. conf.server \in NewServer /\ conf.user \in Credential /\ acc \in Account
  BY DEF HandshakeTypes
<1>2. /\ conf.server.method \in isAuthMethodSupported \ {Clear}
      /\ conf.server.tls \in BOOLEAN /\ conf.server.rsa \in BOOLEAN
  BY <1>1 DEF NewServer
<1>3. conf.user # None =>
        conf.user.plugin \in isAuthMethodSupported /\ \E p \in Passwords : conf.user.passwords = {p}
  BY <1>1 DEF Credential
<1>4. /\ acc.password \in Passwords /\ acc.tls \in BOOLEAN /\ acc.unix \in BOOLEAN
      /\ acc.db \in Databases \cup {None}
  BY <1>1 DEF Account
<1>5. conf.server.method \in {Native, CachingSha2, Sha256}
  BY <1>2 DEF isAuthMethodSupported
<1> QED
  BY <1>2, <1>3, <1>4, <1>5, Zenon

\* The user has the empty password exactly when it is the right one.
LEMMA EmptyPassword ==
  ASSUME HandshakeTypes, conf.user # None
  PROVE  /\ acc.password = Empty => (hasEmptyPassword <=> Right)
         /\ acc.password # Empty => ~ (hasEmptyPassword /\ Right)
<1>1. PICK p \in Passwords : conf.user.passwords = {p}
  BY Settings
<1> QED
  BY <1>1 DEF hasEmptyPassword, Right

\* OnAuthSuccess and the server's last packets.
LEMMA AcceptNext ==
  ASSUME HandshakeTypes, CacheRight', Right, NEW s \in ServerTypes, s.why = "none",
         NEW first, Accept(s, first),
         down = <<>>, up' = <<>>, UNCHANGED <<conf, acc, cl>>,
         \/ first = <<>> /\ cl.pc \in {"result", "switched", "ok"}
         \/ first = <<[k |-> "fast"]>> /\ InAuthResult /\ cl.plugin = CachingSha2
  PROVE  HandshakeInv'
<1> USE DEF InAuthResult
<1>1. ASSUME NEW p, down' = down \o Append(first, [k |-> p])
      PROVE  LastPackets(p)' /\ cl'.pc # "key"
  <2>1. CASE first = <<>> /\ cl.pc \in {"result", "switched", "ok"}
    <3>1. down' = <<[k |-> p]>>
      BY <1>1, <2>1, Queue
    <3> QED
      BY <2>1, <3>1 DEF LastPackets
  <2>2. CASE first = <<[k |-> "fast"]>> /\ InAuthResult /\ cl.plugin = CachingSha2
    <3>1. down' = <<[k |-> "fast"], [k |-> p]>>
      <4> DEFINE x == [k |-> "fast"]
                 y == [k |-> p]
      <4>1. down' = <<>> \o Append(<<x>>, y)
        BY <1>1, <2>2, Zenon
      <4> HIDE DEF x, y
      <4>2. <<>> \o Append(<<x>>, y) = <<x, y>>
        BY QueueTwo, Zenon
      <4>3. down' = <<x, y>>
        BY <4>1, <4>2, Zenon
      <4> QED
        BY <4>3, Zenon DEF x, y
    <3> QED
      BY <2>2, <3>1 DEF LastPackets
  <2> QED
    BY <2>1, <2>2
<1>2. CASE Say([s EXCEPT !.pc = "ready"], Append(first, [k |-> "ok"]))
  <2>1. sv' \in ServerTypes /\ sv'.pc = "ready" /\ sv'.why = "none"
    BY <1>2 DEF Say, ServerTypes
  <2>2. LastPackets("ok")' /\ cl'.pc # "key"
    BY <1>1, <1>2 DEF Say
  <2> QED
    BY <2>1, <2>2 DEF HandshakeInv, HandshakeTypes, Phase, Accepted, Right
<1>3. CASE Object(s, first)
  <2>1. sv' \in ServerTypes /\ sv'.pc = "closed" /\ sv'.why = "handler"
    BY <1>3, Zenon DEF Object, Say, ServerTypes
  <2>2. LastPackets("err")'
    BY <1>1, <1>3 DEF Object, Say
  <2> QED
    BY <2>1, <2>2 DEF HandshakeInv, HandshakeTypes, Phase, Refused
<1> QED
  BY <1>2, <1>3 DEF Accept

\* A refusal of who may be refused.
LEMMA RefuseNext ==
  ASSUME HandshakeTypes, CacheRight', ~Workable, NEW s \in ServerTypes, Refuse(s),
         down = <<>>, up' = <<>>, UNCHANGED <<conf, acc, cl>>, cl.pc \in {"result", "switched", "key", "ok"}
  PROVE  HandshakeInv'
<1>1. sv' \in ServerTypes /\ sv'.pc = "closed"
  BY Zenon DEF Refuse, Say, ServerTypes
<1>2. down' = <<[k |-> "err"]>>
  BY Queue DEF Refuse, Say
<1>3. ~Workable'
  BY DEF Workable
<1> QED
  BY <1>1, <1>2, <1>3 DEF HandshakeInv, HandshakeTypes, Phase, Refused, LastPackets

\* A password compared with those of the user.
LEMMA CheckPasswordNext ==
  ASSUME HandshakeTypes, CacheRight', conf.user # None, NEW s \in ServerTypes, s.why = "none",
         NEW a, a.password = acc.password, CheckPassword(s, a),
         down = <<>>, up' = <<>>, UNCHANGED <<conf, acc, cl>>, cl.pc \in {"result", "switched", "ok"}
  PROVE  HandshakeInv'
<1>1. CASE Right
  <2>1. Accept(s, <<>>)
    BY <1>1 DEF CheckPassword, Right
  <2> QED
    BY <1>1, <2>1, AcceptNext
<1>2. CASE ~Right
  <2>1. Refuse(s) /\ ~Workable
    BY <1>2 DEF CheckPassword, Right, Workable
  <2> QED
    BY <2>1, RefuseNext
<1> QED
  BY <1>1, <1>2

\* No password.
LEMMA CheckEmptyNext ==
  ASSUME HandshakeTypes, CacheRight', conf.user # None, NEW s \in ServerTypes, s.why = "none",
         acc.password = Empty, CheckEmpty(s),
         down = <<>>, up' = <<>>, UNCHANGED <<conf, acc, cl>>, cl.pc \in {"result", "switched", "ok"}
  PROVE  HandshakeInv'
<1>1. CASE Right
  <2>1. Accept(s, <<>>)
    BY <1>1, EmptyPassword DEF CheckEmpty
  <2> QED
    BY <1>1, <2>1, AcceptNext
<1>2. CASE ~Right
  <2>1. Refuse(s)
    BY <1>2, EmptyPassword DEF CheckEmpty
  <2>2. ~Workable
    BY <1>2 DEF Right, Workable
  <2> QED
    BY <2>1, <2>2, RefuseNext
<1> QED
  BY <1>1, <1>2

\* The client's first response, plugin by plugin.
LEMMA Generated ==
  ASSUME NEW salt, NEW nul
  PROVE  /\ acc.password = Empty =>
              /\ genAuthResponse(Native, salt, nul).auth = Nothing
              /\ genAuthResponse(CachingSha2, salt, nul).auth = Nothing
              /\ genAuthResponse(Sha256, salt, nul).auth = Nothing
         /\ acc.password # Empty =>
              /\ genAuthResponse(Native, salt, nul).auth = Scramble(Native, salt, FALSE)
              /\ genAuthResponse(CachingSha2, salt, nul).auth = Scramble(CachingSha2, salt, nul)
              /\ Trusted => genAuthResponse(Sha256, salt, nul).auth = ClearText
              /\ ~Trusted => genAuthResponse(Sha256, salt, nul).auth = KeyRequest
         /\ genAuthResponse(Native, salt, nul).addNull \in BOOLEAN
         /\ genAuthResponse(CachingSha2, salt, nul).addNull \in BOOLEAN
         /\ genAuthResponse(Sha256, salt, nul).addNull \in BOOLEAN
BY Plugins, Zenon DEF genAuthResponse

\* The password is kept or replaced by another of the user's.
LEMMA CacheKept ==
  ASSUME CacheRight, UNCHANGED <<conf, cache>>
  PROVE  CacheRight'
BY DEF CacheRight

\* The server authenticates with the plugin that both sides have come to.
LEMMA NativeNext ==
  ASSUME HandshakeTypes, CacheRight, conf.user # None, NEW s \in ServerTypes, s.why = "none",
         InAuthResult, NEW nul, conf.user.plugin = Native,
         compareNative(s, genAuthResponse(Native, s.salt, nul).auth),
         down = <<>>, up' = <<>>, UNCHANGED <<conf, acc, cl>>
  PROVE  HandshakeInv'
<1> DEFINE a == genAuthResponse(Native, s.salt, nul).auth
<1>1. CacheRight'
  BY CacheKept DEF compareNative
<1>2. CASE acc.password = Empty
  <2>1. a = Nothing
    BY <1>2, Generated, Zenon
  <2>2. CheckEmpty(s)
    BY <2>1 DEF compareNative, Nothing
  <2> QED
    BY <1>1, <1>2, <2>2, CheckEmptyNext DEF InAuthResult
<1>3. CASE acc.password # Empty
  <2>1. a = Scramble(Native, s.salt, FALSE)
    BY <1>3, Generated, Zenon
  <2>2. a.k = "scramble" /\ a.plugin = Native /\ a.salt = s.salt /\ a.password = acc.password
    BY <2>1 DEF Scramble
  <2>3. CASE hasEmptyPassword
    <3>1. ~Workable'
      BY <1>3, <2>3, EmptyPassword DEF Right, Workable
    <3>2. sv' = [s EXCEPT !.pc = "closed"] /\ down' = <<>> \o <<>>
      BY <2>2, <2>3 DEF compareNative, Say
    <3>3. sv' \in ServerTypes /\ sv'.pc = "closed"
      BY <3>2 DEF ServerTypes
    <3>4. down' = <<>>
      BY <3>2, Queue
    <3> QED
      BY <1>1, <3>1, <3>3, <3>4 DEF HandshakeInv, HandshakeTypes, Phase, Refused, InAuthResult
  <2>4. CASE ~hasEmptyPassword
    <3>1. CheckPassword(s, a)
      BY <2>2, <2>4 DEF compareNative
    <3> QED
      BY <1>1, <2>2, <3>1, CheckPasswordNext DEF InAuthResult
  <2> QED
    BY <2>3, <2>4
<1> QED
  BY <1>2, <1>3

\* caching_sha2_password against the cached password: it is accepted at once, or
\* full authentication is asked for.
LEMMA CachingSha2Next ==
  ASSUME HandshakeTypes, CacheRight, conf.user # None, NEW s \in ServerTypes, s.why = "none",
         InAuthResult, NEW nul, conf.user.plugin = CachingSha2,
         s.plugin = CachingSha2, cl.plugin = CachingSha2, cl.salt = s.salt,
         compareCachingSha2(s, genAuthResponse(CachingSha2, s.salt, nul).auth),
         down = <<>>, up' = <<>>, UNCHANGED <<conf, acc, cl>>
  PROVE  HandshakeInv'
<1> DEFINE a == genAuthResponse(CachingSha2, s.salt, nul).auth
<1>1. CacheRight'
  BY CacheKept DEF compareCachingSha2
<1>2. CASE acc.password = Empty
  <2>1. a = Nothing
    BY <1>2, Generated, Zenon
  <2>2. CheckEmpty(s)
    BY <2>1 DEF compareCachingSha2, Nothing
  <2> QED
    BY <1>1, <1>2, <2>2, CheckEmptyNext DEF InAuthResult
<1>3. CASE acc.password # Empty
  <2>1. a = Scramble(CachingSha2, s.salt, nul)
    BY <1>3, Generated, Zenon
  <2>2. a.k = "scramble" /\ a.password = acc.password
    BY <2>1 DEF Scramble
  <2>3. CASE scrambleValidation(s, a)
    <3>1. Accept(s, <<[k |-> "fast"]>>)
      BY <2>2, <2>3 DEF compareCachingSha2
    <3>2. Right
      BY <2>2, <2>3 DEF scrambleValidation, CacheRight, Right
    <3> QED
      BY <1>1, <3>1, <3>2, AcceptNext
  <2>4. CASE ~scrambleValidation(s, a)
    <3>1. sv' = [s EXCEPT !.full = TRUE, !.pc = "auth"] /\ down' = <<>> \o <<[k |-> "full"]>>
      BY <2>2, <2>4 DEF compareCachingSha2, Say
    <3>2. /\ sv' \in ServerTypes /\ sv'.pc = "auth" /\ sv'.full = TRUE /\ sv'.why = "none"
          /\ sv'.plugin = CachingSha2 /\ sv'.salt = s.salt
      BY <3>1, Zenon DEF ServerTypes
    <3>3. down' = <<[k |-> "full"]>>
      BY <3>1, Queue
    <3>4. FullAsked'
      BY <1>3, <3>2, <3>3 DEF FullAsked, Agreed, InAuthResult
    <3> QED
      BY <1>1, <3>2, <3>4 DEF HandshakeInv, HandshakeTypes, Phase
  <2> QED
    BY <2>3, <2>4
<1> QED
  BY <1>2, <1>3

\* sha256_password: the password in clear, or a request of the key.
LEMMA Sha256Next ==
  ASSUME HandshakeTypes, CacheRight, conf.user # None, NEW s \in ServerTypes, s.why = "none",
         s.full = FALSE, InAuthResult, NEW nul, conf.user.plugin = Sha256,
         s.plugin = Sha256, cl.plugin = Sha256, cl.salt = s.salt,
         compareSha256(s, genAuthResponse(Sha256, s.salt, nul).auth),
         down = <<>>, up' = <<>>, UNCHANGED <<conf, acc, cl>>
  PROVE  HandshakeInv'
<1> DEFINE a == genAuthResponse(Sha256, s.salt, nul).auth
<1>1. CacheRight'
  BY CacheKept DEF compareSha256
<1>2. CASE acc.password = Empty
  <2>1. a = Nothing
    BY <1>2, Generated, Zenon
  <2>2. CheckEmpty(s)
    BY <2>1 DEF compareSha256, Nothing
  <2> QED
    BY <1>1, <1>2, <2>2, CheckEmptyNext DEF InAuthResult
<1>3. CASE acc.password # Empty /\ Trusted
  <2>1. a = ClearText
    BY <1>3, Generated, Zenon
  <2>2. a.k = "clear" /\ a.password = acc.password
    BY <2>1 DEF ClearText
  <2>3. CASE acc.tls
    <3>1. CheckPassword(s, a)
      BY <2>2, <2>3 DEF compareSha256, Decrypted
    <3> QED
      BY <1>1, <2>2, <3>1, CheckPasswordNext DEF InAuthResult
  <2>4. CASE ~acc.tls
    <3>1. Refuse(s)
      BY <2>2, <2>4 DEF compareSha256, Decrypted
    <3>2. ~Workable
      BY <1>3, <2>4 DEF Workable, Trusted
    <3> QED
      BY <1>1, <3>1, <3>2, RefuseNext DEF InAuthResult
  <2> QED
    BY <2>3, <2>4
<1>4. CASE acc.password # Empty /\ ~Trusted
  <2>1. a = KeyRequest
    BY <1>4, Generated, Zenon
  <2>2. a.k = "keyrequest"
    BY <2>1 DEF KeyRequest
  <2>3. CASE conf.server.tls /\ conf.server.rsa
    <3>1. sv' = [s EXCEPT !.pc = "auth"] /\ down' = <<>> \o <<[k |-> "key"]>>
      BY <2>2, <2>3 DEF compareSha256, SendKey, Say
    <3>2. /\ sv' \in ServerTypes /\ sv'.pc = "auth" /\ sv'.full = FALSE /\ sv'.why = "none"
          /\ sv'.plugin = Sha256 /\ sv'.salt = s.salt
      BY <3>1, Zenon DEF ServerTypes
    <3>3. down' = <<[k |-> "key"]>>
      BY <3>1, Queue, Zenon
    <3>4. KeySent'
      BY <1>4, <2>3, <3>2, <3>3 DEF KeySent, Agreed, Alert, InAuthResult, Trusted
    <3> QED
      BY <1>1, <3>2, <3>4 DEF HandshakeInv, HandshakeTypes, Phase
  <2>4. CASE ~(conf.server.tls /\ conf.server.rsa)
    <3>1. Refuse(s)
      BY <2>2, <2>4 DEF compareSha256, SendKey
    <3>2. ~Workable
      BY <1>4, <2>4 DEF Workable, Trusted
    <3> QED
      BY <1>1, <3>1, <3>2, RefuseNext DEF InAuthResult
  <2> QED
    BY <2>3, <2>4
<1> QED
  BY <1>2, <1>3, <1>4

\* The server authenticates with the plugin that both sides have come to.
LEMMA AuthenticateNext ==
  ASSUME HandshakeTypes, CacheRight, conf.user # None, NEW s \in ServerTypes, s.why = "none",
         s.full = FALSE, InAuthResult, NEW nul, s.plugin = conf.user.plugin,
         cl.plugin = s.plugin, cl.salt = s.salt,
         Authenticate(s, genAuthResponse(s.plugin, s.salt, nul).auth),
         down = <<>>, up' = <<>>, UNCHANGED <<conf, acc, cl>>
  PROVE  HandshakeInv'
<1>1. s.plugin \in {Native, CachingSha2, Sha256, Clear}
  BY Settings DEF isAuthMethodSupported
<1> DEFINE a == genAuthResponse(s.plugin, s.salt, nul).auth
<1> HIDE DEF a
<1>2. Authenticate(s, a)
  BY DEF a
<1>3. CASE s.plugin = Native
  <2>1. compareNative(s, a)
    BY <1>2, <1>3, Plugins DEF Authenticate
  <2> QED
    BY <1>3, <2>1, NativeNext DEF a
<1>4. CASE s.plugin = CachingSha2
  <2>1. compareCachingSha2(s, a)
    <3>1. IF s.full THEN FullAuth(s, a) ELSE compareCachingSha2(s, a)
      BY <1>2, <1>4, Plugins DEF Authenticate
    <3> QED
      BY <3>1, Zenon
  <2> QED
    BY <1>4, <2>1, CachingSha2Next DEF a
<1>5. CASE s.plugin = Sha256
  <2>1. compareSha256(s, a)
    BY <1>2, <1>5, Plugins DEF Authenticate
  <2> QED
    BY <1>5, <2>1, Sha256Next, Zenon DEF a
<1>6. CASE s.plugin = Clear
  <2>1. Refuse(s) /\ UNCHANGED cache
    BY <1>2, <1>6, Plugins DEF Authenticate
  <2>2. ~Workable
    BY <1>6 DEF Workable
  <2> QED
    BY <2>1, <2>2, CacheKept, RefuseNext DEF InAuthResult
<1> QED
  BY <1>1, <1>3, <1>4, <1>5, <1>6

\* The server asks for full authentication, and compares the password itself.
LEMMA FullAuthNext ==
  ASSUME HandshakeTypes, CacheRight, FullAnswered, NEW a, up = <<a>>, FullAuth(sv, a), up' = <<>>,
         UNCHANGED <<conf, acc, cl>>
  PROVE  HandshakeInv'
<1>1. /\ sv \in ServerTypes /\ sv.why = "none" /\ sv.full = TRUE /\ sv.plugin = CachingSha2
      /\ cl.plugin = CachingSha2 /\ cl.salt = sv.salt /\ down = <<>> /\ acc.password # Empty
      /\ conf.user # None /\ conf.user.plugin = CachingSha2
  BY DEF HandshakeTypes, FullAnswered, Agreed
<1>2. CASE cl.pc = "ok" /\ Trusted /\ up = <<ClearText>>
  <2>1. a = ClearText
    BY <1>2
  <2>2. a.k = "clear" /\ a.password = acc.password
    BY <2>1 DEF ClearText
  <2>3. CASE acc.tls /\ Right
    <3>1. Accept(sv, <<>>) /\ cache' = acc.password
      BY <2>2, <2>3 DEF FullAuth, Decrypted, Right
    <3>2. CacheRight'
      BY <1>1, <2>3, <3>1 DEF CacheRight, Right
    <3> QED
      BY <1>1, <1>2, <2>3, <3>1, <3>2, AcceptNext
  <2>4. CASE ~(acc.tls /\ Right)
    <3>1. Refuse(sv) /\ UNCHANGED cache
      BY <1>1, <2>2, <2>4 DEF FullAuth, Decrypted, Right
    <3>2. ~Workable
      BY <1>1, <1>2, <2>4 DEF Workable, Trusted, Right
    <3> QED
      BY <1>1, <1>2, <3>1, <3>2, CacheKept, RefuseNext
  <2> QED
    BY <2>3, <2>4
<1>3. CASE cl.pc = "key" /\ ~Trusted /\ up = <<KeyRequest>>
  <2>1. a = KeyRequest
    BY <1>3
  <2>2. a.k = "keyrequest" /\ ~acc.tls
    BY <1>3, <2>1 DEF KeyRequest, Trusted
  <2>3. SendKey(sv, "encrypted") /\ UNCHANGED cache
    BY <2>2 DEF FullAuth
  <2>4. CacheRight'
    BY <2>3, CacheKept
  <2>5. CASE conf.server.rsa
    <3>1. sv' = [sv EXCEPT !.pc = "encrypted"] /\ down' = <<>> \o <<[k |-> "key"]>>
      BY <1>1, <2>3, <2>5 DEF SendKey, Say
    <3>2. /\ sv' \in ServerTypes /\ sv'.pc = "encrypted" /\ sv'.full = TRUE /\ sv'.why = "none"
          /\ sv'.plugin = CachingSha2 /\ sv'.salt = sv.salt
      BY <1>1, <3>1, Zenon DEF ServerTypes
    <3>3. down' = <<[k |-> "key"]>>
      BY <3>1, Queue, Zenon
    <3>4. FullKey'
      BY <1>1, <1>3, <2>5, <3>2, <3>3 DEF FullKey, Agreed, Trusted
    <3> QED
      BY <2>4, <3>2, <3>4 DEF HandshakeInv, HandshakeTypes, Phase
  <2>6. CASE ~conf.server.rsa
    <3>1. Refuse(sv)
      BY <2>3, <2>6 DEF SendKey
    <3>2. ~Workable
      BY <1>1, <2>2, <2>6 DEF Workable
    <3> QED
      BY <1>1, <1>3, <2>4, <3>1, <3>2, RefuseNext
  <2> QED
    BY <2>5, <2>6
<1> QED
  BY <1>2, <1>3 DEF FullAnswered

\* The encrypted password of full authentication.
LEMMA FullAuthEncrypted ==
  ASSUME HandshakeTypes, CacheRight, FullEncrypted, FullAuth(sv, Encrypted(sv.salt)), up' = <<>>,
         UNCHANGED <<conf, acc, cl>>
  PROVE  HandshakeInv'
<1> DEFINE a == Encrypted(sv.salt)
<1>1. /\ sv \in ServerTypes /\ sv.why = "none" /\ cl.pc = "ok" /\ down = <<>>
      /\ conf.user # None /\ conf.user.plugin = CachingSha2 /\ ~acc.tls /\ conf.server.rsa
  BY DEF HandshakeTypes, FullEncrypted, Agreed, Trusted
<1>2. a.k = "rsa" /\ a.password = acc.password /\ a.salt = sv.salt
  BY DEF Encrypted
<1> HIDE DEF a
<1>3. FullAuth(sv, a)
  BY DEF a
<1>4. Decrypted(sv, a)
  BY <1>1, <1>2 DEF Decrypted
<1>5. CASE Right
  <2>1. Accept(sv, <<>>) /\ cache' = acc.password
    BY <1>2, <1>3, <1>4, <1>5 DEF FullAuth, Right
  <2>2. CacheRight'
    BY <1>1, <1>5, <2>1 DEF CacheRight, Right
  <2> QED
    BY <1>1, <1>5, <2>1, <2>2, AcceptNext
<1>6. CASE ~Right
  <2>1. Refuse(sv) /\ UNCHANGED cache
    BY <1>1, <1>2, <1>3, <1>6 DEF FullAuth, Right
  <2>2. ~Workable
    BY <1>6 DEF Workable, Right
  <2> QED
    BY <1>1, <2>1, <2>2, CacheKept, RefuseNext
<1> QED
  BY <1>5, <1>6

\* The encrypted password of sha256_password.
LEMMA Sha256Encrypted ==
  ASSUME HandshakeTypes, CacheRight, KeyUsed, compareSha256(sv, Encrypted(sv.salt)), up' = <<>>,
         UNCHANGED <<conf, acc, cl>>
  PROVE  HandshakeInv'
<1> DEFINE a == Encrypted(sv.salt)
<1>1. /\ sv \in ServerTypes /\ sv.why = "none" /\ cl.pc = "ok" /\ down = <<>>
      /\ conf.user # None /\ ~acc.tls /\ conf.server.rsa
  BY DEF HandshakeTypes, KeyUsed, Agreed, Trusted
<1>2. a.k = "rsa" /\ a.password = acc.password /\ a.salt = sv.salt
  BY DEF Encrypted
<1> HIDE DEF a
<1>3. compareSha256(sv, a)
  BY DEF a
<1>4. CheckPassword(sv, a) /\ UNCHANGED cache
  BY <1>1, <1>2, <1>3 DEF compareSha256, Decrypted
<1> QED
  BY <1>1, <1>2, <1>4, CacheKept, CheckPasswordNext

\* The strings of a handshake response, as they are read: behind a NUL, the
\* database is taken for the plugin.
LEMMA ResponseFields ==
  ASSUME HandshakeTypes, NEW m \in {Native, CachingSha2, Sha256}, NEW r, r = HandshakeResponse(m, 1)
  PROVE  /\ r.auth = genAuthResponse(m, 1, FALSE).auth
         /\ r.strings[IF r.withDB THEN 2 ELSE 1] \in {m} \cup Databases \cup {NoString}
         /\ (IF r.withDB THEN r.strings[1] ELSE None) \in Databases \cup {NoString, None}
<1> DEFINE g == genAuthResponse(m, 1, FALSE)
<1>1. g.addNull \in BOOLEAN
  <2>1. /\ genAuthResponse(Native, 1, FALSE).addNull \in BOOLEAN
        /\ genAuthResponse(CachingSha2, 1, FALSE).addNull \in BOOLEAN
        /\ genAuthResponse(Sha256, 1, FALSE).addNull \in BOOLEAN
    BY Generated, Zenon
  <2> QED
    BY <2>1, Zenon
<1> HIDE DEF g
<1>2. /\ r.auth = g.auth /\ r.withDB = (acc.db # None)
      /\ r.strings = (IF g.addNull THEN <<NoString>> ELSE <<>>)
                       \o (IF acc.db # None THEN <<acc.db>> ELSE <<>>) \o <<m>>
  BY Zenon DEF HandshakeResponse, g
<1>3. acc.db # None => acc.db \in Databases
  BY Settings
<1>4. CASE g.addNull = TRUE /\ acc.db # None
  <2>1. r.strings = <<NoString>> \o <<acc.db>> \o <<m>>
    BY <1>2, <1>4
  <2>2. r.strings[1] = NoString /\ r.strings[2] = acc.db
    BY <2>1
  <2> QED
    BY <1>2, <1>3, <1>4, <2>2, Zenon DEF g
<1>5. CASE g.addNull = TRUE /\ acc.db = None
  <2>1. r.strings = <<NoString>> \o <<>> \o <<m>>
    BY <1>2, <1>5
  <2>2. r.strings[1] = NoString
    BY <2>1
  <2> QED
    BY <1>2, <1>5, <2>2, Zenon DEF g
<1>6. CASE g.addNull = FALSE /\ acc.db # None
  <2>1. r.strings = <<>> \o <<acc.db>> \o <<m>>
    BY <1>2, <1>6
  <2>2. r.strings[1] = acc.db /\ r.strings[2] = m
    BY <2>1
  <2> QED
    BY <1>2, <1>3, <1>6, <2>2, Zenon DEF g
<1>7. CASE g.addNull = FALSE /\ acc.db = None
  <2>1. r.strings = <<>> \o <<>> \o <<m>>
    BY <1>2, <1>7
  <2>2. r.strings[1] = m
    BY <2>1
  <2> QED
    BY <1>2, <1>7, <2>2, Zenon DEF g
<1> QED
  BY <1>1, <1>4, <1>5, <1>6, <1>7, Zenon

\* The server reads the handshake response.
LEMMA ResponseStep ==
  ASSUME HandshakeInv, readHandshakeResponse
  PROVE  HandshakeInv'
<1>1. Responds
  BY DEF HandshakeInv, Phase, readHandshakeResponse, Greets, Leaves, Responds, ServerSwitches,
         ClientSwitches, FullAsked, FullAnswered, FullKey, FullEncrypted, KeySent, KeyUsed,
         Accepted, Refused
<1> DEFINE m == conf.server.method
           r == Head(up)
           s == [sv EXCEPT !.db = IF r.withDB THEN r.strings[1] ELSE None,
                           !.plugin = r.strings[IF r.withDB THEN 2 ELSE 1]]
<1>2. /\ HandshakeTypes /\ CacheRight /\ cl.pc = "result" /\ cl.plugin = m /\ cl.salt = 1
      /\ sv.salt = 1 /\ sv.full = FALSE /\ sv.why = "none" /\ down = <<>>
      /\ up = <<HandshakeResponse(m, 1)>> /\ m \in {Native, CachingSha2, Sha256}
  BY <1>1, Settings DEF HandshakeInv, Responds, Alert
<1>3. r = HandshakeResponse(m, 1) /\ Tail(up) = <<>>
  BY <1>2, Queue
<1>4. /\ \/ Object(s, <<>>) /\ UNCHANGED cache
         \/ IF conf.user = None THEN Refuse(s) /\ UNCHANGED cache ELSE compareAuthData(s, r.auth)
      /\ up' = <<>> /\ UNCHANGED <<conf, acc, cl>>
  BY <1>3 DEF readHandshakeResponse
<1> HIDE DEF r
<1>5. /\ r.auth = genAuthResponse(m, 1, FALSE).auth
      /\ r.strings[IF r.withDB THEN 2 ELSE 1] \in {m} \cup Databases \cup {NoString}
      /\ (IF r.withDB THEN r.strings[1] ELSE None) \in Databases \cup {NoString, None}
  BY <1>2, <1>3, ResponseFields, Zenon
<1>6. /\ s \in ServerTypes /\ s.salt = 1 /\ s.full = FALSE /\ s.why = "none"
      /\ s.plugin \in {m} \cup Databases \cup {NoString}
  <2>1. m \in isAuthMethodSupported
    BY <1>2 DEF isAuthMethodSupported
  <2> QED
    BY <1>2, <1>5, <2>1, Zenon DEF HandshakeTypes, ServerTypes
<1> HIDE DEF s
<1>7. CASE Object(s, <<>>) /\ UNCHANGED cache
  <2>1. sv' \in ServerTypes /\ sv'.pc = "closed" /\ sv'.why = "handler"
    BY <1>6, <1>7, Zenon DEF Object, Say, ServerTypes
  <2>2. down' = <<[k |-> "err"]>>
    BY <1>2, <1>7, Queue, Zenon DEF Object, Say
  <2>3. Refused'
    BY <1>2, <1>4, <2>1, <2>2 DEF Refused, LastPackets
  <2> QED
    BY <1>2, <1>4, <1>7, <2>1, <2>3, CacheKept DEF HandshakeInv, HandshakeTypes, Phase
<1>8. CASE conf.user = None /\ Refuse(s) /\ UNCHANGED cache
  <2>1. ~Workable
    BY <1>8 DEF Workable
  <2> QED
    BY <1>2, <1>4, <1>6, <1>8, <2>1, CacheKept, RefuseNext
<1>9. CASE conf.user # None /\ compareAuthData(s, r.auth)
  <2>1. CASE s.plugin # conf.user.plugin
    <3>1. /\ sv' = [s EXCEPT !.plugin = conf.user.plugin, !.salt = 2, !.pc = "auth"]
          /\ down' = <<>> \o <<[k |-> "switch", plugin |-> conf.user.plugin, salt |-> 2]>>
          /\ UNCHANGED cache
      BY <1>2, <1>9, <2>1 DEF compareAuthData, Say
    <3>2. conf.user.plugin \in isAuthMethodSupported
      BY <1>2, <1>9, Settings
    <3>3. /\ sv' \in ServerTypes /\ sv'.pc = "auth" /\ sv'.salt = 2 /\ sv'.full = FALSE
          /\ sv'.why = "none" /\ sv'.plugin = conf.user.plugin
      BY <1>6, <3>1, <3>2, Zenon DEF ServerTypes
    <3>4. down' = <<[k |-> "switch", plugin |-> conf.user.plugin, salt |-> 2]>>
      BY <3>1, Queue, Zenon
    <3>5. ServerSwitches'
      BY <1>2, <1>4, <1>9, <3>3, <3>4 DEF ServerSwitches, Alert
    <3> QED
      BY <1>2, <1>4, <3>1, <3>3, <3>5, CacheKept DEF HandshakeInv, HandshakeTypes, Phase
  <2>2. CASE s.plugin = conf.user.plugin
    <3>1. s.plugin = m
      BY <1>2, <1>6, <1>9, <2>2, Settings, Plugins
    <3>2. Authenticate(s, genAuthResponse(s.plugin, s.salt, FALSE).auth)
      BY <1>5, <1>6, <1>9, <2>2, <3>1, Zenon DEF compareAuthData
    <3> QED
      BY <1>2, <1>4, <1>6, <1>9, <2>2, <3>1, <3>2, AuthenticateNext, Zenon DEF InAuthResult
  <2> QED
    BY <2>1, <2>2
<1> QED
  BY <1>4, <1>7, <1>8, <1>9

\* The server reads what answers a switch of the plugin, or its request of full
\* authentication or its key.
LEMMA SwitchResponseStep ==
  ASSUME HandshakeInv, handleAuthSwitchResponse
  PROVE  HandshakeInv'
<1> DEFINE a == Received(Head(up))
<1>1. HandshakeTypes /\ CacheRight
  BY DEF HandshakeInv
<1>2. ClientSwitches \/ FullAnswered \/ KeyUsed
  BY DEF HandshakeInv, Phase, handleAuthSwitchResponse, Greets, Leaves, Responds, ServerSwitches,
         FullAsked, FullKey, FullEncrypted, KeySent, Accepted, Refused
<1>3. /\ sv.plugin = conf.user.plugin /\ conf.user # None /\ sv \in ServerTypes
      /\ cl.plugin = sv.plugin /\ cl.salt = sv.salt /\ sv.why = "none" /\ down = <<>>
  BY <1>1, <1>2, Zenon DEF ClientSwitches, FullAnswered, KeyUsed, Agreed, HandshakeTypes
<1>4. Authenticate(sv, a) /\ UNCHANGED <<conf, acc, cl>> /\ up' = Tail(up)
  BY <1>3 DEF handleAuthSwitchResponse, compareAuthData
<1>5. CASE ClientSwitches
  <2> DEFINE g == genAuthResponse(conf.user.plugin, 2, TRUE).auth
  <2> HIDE DEF g
  <2>1. /\ up = <<[k |-> "auth", auth |-> g]>> /\ cl.pc = "switched" /\ sv.salt = 2
        /\ sv.full = FALSE
    BY <1>5 DEF ClientSwitches, Alert, g
  <2>2. Head(up) = [k |-> "auth", auth |-> g] /\ Tail(up) = <<>>
    BY <2>1, Queue, Zenon
  <2>3. a = g
    BY <2>2 DEF Received
  <2>4. Authenticate(sv, genAuthResponse(sv.plugin, sv.salt, TRUE).auth)
    BY <1>3, <1>4, <2>1, <2>3, Zenon DEF g
  <2> QED
    BY <1>1, <1>3, <1>4, <2>1, <2>2, <2>4, AuthenticateNext, Zenon DEF InAuthResult
<1>6. CASE FullAnswered
  <2>1. sv.plugin = CachingSha2 /\ sv.full = TRUE
    BY <1>6 DEF FullAnswered, Agreed
  <2>2. PICK b \in {ClearText, KeyRequest} : up = <<b>>
    BY <1>6 DEF FullAnswered
  <2>3. Head(up) = b /\ Tail(up) = <<>> /\ b.k # "auth"
    BY <2>2, Queue DEF ClearText, KeyRequest
  <2>4. a = b
    BY <2>3 DEF Received
  <2>5. FullAuth(sv, b)
    <3>1. IF sv.full THEN FullAuth(sv, b) ELSE compareCachingSha2(sv, b)
      BY <1>4, <2>1, <2>4, Plugins DEF Authenticate
    <3> QED
      BY <2>1, <3>1, Zenon
  <2> QED
    BY <1>1, <1>4, <1>6, <2>2, <2>3, <2>5, FullAuthNext
<1>7. CASE KeyUsed
  <2>1. sv.plugin = Sha256 /\ up = <<Encrypted(sv.salt)>>
    BY <1>7 DEF KeyUsed, Agreed
  <2>2. Head(up) = Encrypted(sv.salt) /\ Tail(up) = <<>>
    BY <2>1, Queue, Zenon
  <2>3. a = Encrypted(sv.salt)
    BY <2>2 DEF Received, Encrypted
  <2>4. compareSha256(sv, Encrypted(sv.salt))
    BY <1>4, <2>1, <2>3, Plugins DEF Authenticate
  <2> QED
    BY <1>1, <1>4, <1>7, <2>2, <2>4, Sha256Encrypted
<1> QED
  BY <1>2, <1>5, <1>6, <1>7

\* The server reads the encrypted password of full authentication.
LEMMA EncryptedStep ==
  ASSUME HandshakeInv, EncryptedPassword
  PROVE  HandshakeInv'
<1>1. HandshakeTypes /\ CacheRight
  BY DEF HandshakeInv
<1>2. FullEncrypted
  BY DEF HandshakeInv, Phase, EncryptedPassword, Greets, Leaves, Responds, ServerSwitches,
         ClientSwitches, FullAsked, FullAnswered, FullKey, KeySent, KeyUsed, Accepted, Refused
<1>3. up = <<Encrypted(sv.salt)>>
  BY <1>2 DEF FullEncrypted
<1>4. Head(up) = Encrypted(sv.salt) /\ Tail(up) = <<>>
  BY <1>3, Queue, Zenon
<1>5. Received(Head(up)) = Encrypted(sv.salt)
  BY <1>4 DEF Received, Encrypted
<1>6. FullAuth(sv, Encrypted(sv.salt)) /\ up' = <<>> /\ UNCHANGED <<conf, acc, cl>>
  BY <1>4, <1>5, Zenon DEF EncryptedPassword
<1> QED
  BY <1>1, <1>2, <1>6, FullAuthEncrypted

\* The client reads the greeting, and responds or finds no TLS.
LEMMA GreetingStep ==
  ASSUME HandshakeInv, Greeting
  PROVE  HandshakeInv'
<1> DEFINE m == conf.server.method
           g == [k |-> "greeting", plugin |-> m, salt |-> 1, ssl |-> conf.server.tls]
<1>1. Greets
  BY DEF HandshakeInv, Phase, Greeting, Greets, Leaves, Responds, ServerSwitches, ClientSwitches,
         FullAsked, FullAnswered, FullKey, FullEncrypted, KeySent, KeyUsed, Accepted, Refused,
         LastPackets, InAuthResult
<1>2. /\ HandshakeTypes /\ CacheRight /\ cl \in ClientTypes
      /\ sv.pc = "response" /\ sv.salt = 1 /\ Alert /\ up = <<>> /\ down = <<g>>
      /\ m \in {Native, CachingSha2, Sha256}
  BY <1>1, Settings, Zenon DEF HandshakeInv, HandshakeTypes, Greets
<1>3. g.plugin = m /\ g.salt = 1 /\ g.ssl = conf.server.tls
  OBVIOUS
<1> HIDE DEF g
<1>4. Head(down) = g /\ Tail(down) = <<>>
  BY <1>2, Queue, Zenon
<1>5. UNCHANGED <<conf, cache, acc, sv>> /\ down' = <<>>
  BY <1>4 DEF Greeting, Take
<1>6. CASE acc.tls /\ ~conf.server.tls
  <2>1. cl' = [cl EXCEPT !.pc = "closed"] /\ up' = <<>>
    BY <1>2, <1>3, <1>4, <1>6 DEF Greeting, ClientFails
  <2>2. cl' \in ClientTypes /\ cl'.pc = "closed"
    BY <1>2, <2>1 DEF ClientTypes
  <2>3. ~Workable'
    BY <1>5, <1>6 DEF Workable
  <2>4. Leaves'
    BY <1>2, <1>5, <2>1, <2>2, <2>3 DEF Leaves, Alert
  <2> QED
    BY <1>2, <1>5, <2>2, <2>4, CacheKept DEF HandshakeInv, HandshakeTypes, Phase
<1>7. CASE ~(acc.tls /\ ~conf.server.tls)
  <2>1. m \in supportedAuthPlugins /\ m \in isAuthMethodSupported
    BY <1>2 DEF supportedAuthPlugins, isAuthMethodSupported
  <2>2. /\ up' = Append(<<>>, HandshakeResponse(m, 1))
        /\ cl' = [pc |-> "result", plugin |-> m, salt |-> 1]
    BY <1>2, <1>3, <1>4, <1>7, <2>1, Zenon DEF Greeting
  <2>3. up' = <<HandshakeResponse(m, 1)>>
    BY <2>2, Queue, Zenon
  <2>4. HandshakeResponse(m, 1)' = HandshakeResponse(m, 1) /\ m' = m
    BY <1>5, Zenon DEF HandshakeResponse, genAuthResponse, Scramble, ClearText, Trusted
  <2>5. cl' \in ClientTypes /\ cl'.pc = "result" /\ cl'.plugin = m /\ cl'.salt = 1
    BY <2>1, <2>2 DEF ClientTypes
  <2>6. Responds'
    BY <1>2, <1>5, <2>3, <2>4, <2>5, Zenon DEF Responds, Alert
  <2> QED
    BY <1>2, <1>5, <2>5, <2>6, CacheKept DEF HandshakeInv, HandshakeTypes, Phase
<1> QED
  BY <1>6, <1>7

\* The client goes on after a switch or the first response.
LEMMA ContinueNext ==
  ASSUME HandshakeInv, InAuthResult, down # <<>>, ~ServerSwitches,
         Continue(Head(down), cl.plugin), Take, UNCHANGED <<conf, cache, acc, sv>>
  PROVE  HandshakeInv'
<1>1. /\ HandshakeTypes /\ CacheRight' /\ cl \in ClientTypes
      /\ conf' \in [server : NewServer, user : Credential] /\ acc' \in Account /\ sv' \in ServerTypes
  BY CacheKept DEF HandshakeInv, HandshakeTypes
<1>2. \/ FullAsked \/ KeySent
      \/ Accepted /\ LastPackets("ok")
      \/ Refused /\ LastPackets("err")
  <2>1. ~Greets /\ ~Leaves /\ ~FullKey /\ ~FullEncrypted /\ ~KeyUsed
    BY DEF InAuthResult, Greets, Leaves, FullKey, FullEncrypted, KeyUsed
  <2>2. ~Responds /\ ~ClientSwitches /\ ~FullAnswered
    BY Zenon DEF Responds, ClientSwitches, FullAnswered
  <2>3. (Accepted => LastPackets("ok")) /\ (Refused => LastPackets("err"))
    BY DEF Accepted, Refused
  <2> QED
    BY <2>1, <2>2, <2>3, Zenon DEF HandshakeInv, Phase
<1>3. ASSUME NEW pc \in {"ok", "key", "ready", "closed"}, cl' = [cl EXCEPT !.pc = pc]
      PROVE  cl' \in ClientTypes /\ cl'.pc = pc /\ cl'.plugin = cl.plugin /\ cl'.salt = cl.salt
  BY <1>1, <1>3 DEF ClientTypes
<1> DEFINE p == Head(down)
<1> SUFFICES cl' \in ClientTypes /\ Phase'
  BY <1>1 DEF HandshakeInv, HandshakeTypes
<1>4. CASE FullAsked
  <2>1. up = <<>> /\ down = <<[k |-> "full"]>> /\ cl.plugin = CachingSha2 /\ acc.password # Empty
    BY <1>4 DEF FullAsked, Agreed
  <2>2. p = [k |-> "full"] /\ down' = <<>>
    BY <2>1, Queue, Zenon DEF Take
  <2>3. p.k = "full"
    BY <2>2
  <2>4. IF Trusted THEN ClientSends(ClearText, "ok") ELSE ClientSends(KeyRequest, "key")
    BY <2>1, <2>3, Plugins DEF Continue
  <2>5. CASE Trusted
    <3>1. up' = <<ClearText>> /\ cl' = [cl EXCEPT !.pc = "ok"]
      BY <2>1, <2>4, <2>5, Queue, Zenon DEF ClientSends
    <3>2. FullAnswered'
      BY <1>3, <1>4, <2>2, <2>5, <3>1 DEF FullAsked, FullAnswered, Agreed, Trusted, ClearText
    <3> QED
      BY <1>3, <3>1, <3>2 DEF Phase
  <2>6. CASE ~Trusted
    <3>1. up' = <<KeyRequest>> /\ cl' = [cl EXCEPT !.pc = "key"]
      BY <2>1, <2>4, <2>6, Queue, Zenon DEF ClientSends
    <3>2. FullAnswered'
      BY <1>3, <1>4, <2>2, <2>6, <3>1 DEF FullAsked, FullAnswered, Agreed, Trusted, KeyRequest
    <3> QED
      BY <1>3, <3>1, <3>2 DEF Phase
  <2> QED
    BY <2>5, <2>6
<1>5. CASE KeySent
  <2>1. up = <<>> /\ down = <<[k |-> "key"]>> /\ cl.plugin = Sha256 /\ cl.salt = sv.salt
    BY <1>5 DEF KeySent, Agreed
  <2>2. p = [k |-> "key"] /\ down' = <<>>
    BY <2>1, Queue, Zenon DEF Take
  <2>3. p.k = "key"
    BY <2>2
  <2>4. ClientSends(Encrypted(cl.salt), "ok")
    BY <2>1, <2>3, Plugins DEF Continue
  <2>5. up' = <<Encrypted(sv.salt)>> /\ cl' = [cl EXCEPT !.pc = "ok"]
    BY <2>1, <2>4, Queue, Zenon DEF ClientSends
  <2>6. KeyUsed'
    BY <1>3, <1>5, <2>2, <2>5 DEF KeySent, KeyUsed, Agreed, Alert, Trusted, Encrypted
  <2> QED
    BY <1>3, <2>5, <2>6 DEF Phase
<1>6. ASSUME NEW q \in {"ok", "err"}, LastPackets(q), up = <<>>
      PROVE  /\ up' = <<>> /\ cl' \in ClientTypes
             /\ \/ LastPackets(q)' /\ cl'.pc = "ok"
                \/ q = "ok" /\ down' = <<>> /\ cl'.pc = "ready"
                \/ q = "err" /\ down' = <<>> /\ cl'.pc = "closed"
  <2>1. CASE cl.plugin = CachingSha2 /\ down = <<[k |-> "fast"], [k |-> q]>>
    <3>1. p = [k |-> "fast"] /\ down' = <<[k |-> q]>>
      BY <2>1, Queue, Zenon DEF Take
    <3>2. p.k = "fast"
      BY <3>1
    <3>3. cl' = [cl EXCEPT !.pc = "ok"] /\ up' = <<>>
      BY <1>6, <2>1, <3>2, Plugins DEF Continue
    <3> QED
      BY <1>3, <3>1, <3>3 DEF LastPackets
  <2>2. CASE down = <<[k |-> q]>>
    <3>1. p = [k |-> q] /\ down' = <<>>
      BY <2>2, Queue, Zenon DEF Take
    <3>2. p.k = q
      BY <3>1
    <3>3. CASE q = "ok"
      <4>1. cl' = [cl EXCEPT !.pc = "ready"] /\ up' = <<>>
        BY <1>6, <3>2, <3>3 DEF Continue
      <4> QED
        BY <1>3, <3>1, <3>3, <4>1
    <3>4. CASE q = "err"
      <4>1. cl' = [cl EXCEPT !.pc = "closed"] /\ up' = <<>>
        BY <1>6, <3>2, <3>4 DEF Continue, ClientFails
      <4> QED
        BY <1>3, <3>1, <3>4, <4>1
    <3> QED
      BY <1>6, <3>3, <3>4
  <2> QED
    BY <1>6, <2>1, <2>2 DEF LastPackets
<1>7. CASE Accepted /\ LastPackets("ok")
  <2>1. /\ up' = <<>> /\ cl' \in ClientTypes
        /\ \/ LastPackets("ok")' /\ cl'.pc = "ok"
           \/ down' = <<>> /\ cl'.pc = "ready"
    <3>1. "ok" \in {"ok", "err"} /\ "ok" # "err" /\ LastPackets("ok") /\ up = <<>>
      BY <1>7 DEF Accepted
    <3> QED
      BY <1>6, <3>1, Zenon
  <2>2. Accepted'
    BY <1>7, <2>1 DEF Accepted, Right
  <2> QED
    BY <2>1, <2>2 DEF Phase
<1>8. CASE Refused /\ LastPackets("err")
  <2>1. /\ up' = <<>> /\ cl' \in ClientTypes
        /\ \/ LastPackets("err")' /\ cl'.pc = "ok"
           \/ down' = <<>> /\ cl'.pc = "closed"
    <3>1. "err" \in {"ok", "err"} /\ "ok" # "err" /\ LastPackets("err") /\ up = <<>>
      BY <1>8 DEF Refused
    <3> QED
      BY <1>6, <3>1, Zenon
  <2>2. Refused'
    BY <1>8, <2>1 DEF Refused, Workable
  <2> QED
    BY <2>1, <2>2 DEF Phase
<1> QED
  BY <1>2, <1>4, <1>5, <1>7, <1>8

\* The client reads what answers its response.
LEMMA ResultStep ==
  ASSUME HandshakeInv, AuthResult \/ AuthResultSwitched
  PROVE  HandshakeInv'
<1>1. InAuthResult /\ down # <<>> /\ Take /\ UNCHANGED <<conf, cache, acc, sv>>
  BY DEF AuthResult, AuthResultSwitched, InAuthResult
<1>2. CASE ServerSwitches
  <2> DEFINE q == conf.user.plugin
             p == [k |-> "switch", plugin |-> q, salt |-> 2]
             g == genAuthResponse(q, 2, TRUE).auth
  <2>1. p.k = "switch" /\ p.plugin = q /\ p.salt = 2
    OBVIOUS
  <2> HIDE DEF p
  <2>2. /\ AuthResult /\ sv.pc = "auth" /\ sv.salt = 2 /\ Alert /\ conf.user # None
        /\ sv.plugin = q /\ up = <<>> /\ down = <<p>>
    BY <1>2 DEF ServerSwitches, AuthResultSwitched, p
  <2>3. Head(down) = p /\ down' = <<>>
    BY <1>1, <2>2, Queue, Zenon DEF Take
  <2>4. SwitchPlugin(p)
    BY <2>1, <2>2, <2>3 DEF AuthResult
  <2>5. /\ cl' = [pc |-> "switched", plugin |-> q, salt |-> 2]
        /\ up' = Append(<<>>, [k |-> "auth", auth |-> g])
    BY <2>1, <2>2, <2>4, Zenon DEF SwitchPlugin
  <2>6. up' = <<[k |-> "auth", auth |-> g]>>
    BY <2>5, Queue, Zenon
  <2>7. g' = g
    BY <1>1, Zenon DEF genAuthResponse, Scramble, ClearText, Trusted
  <2>8. q \in isAuthMethodSupported
    BY <2>2, Settings DEF HandshakeInv
  <2>9. cl' \in ClientTypes /\ cl'.pc = "switched" /\ cl'.plugin = q /\ cl'.salt = 2
    BY <2>5, <2>8 DEF ClientTypes
  <2> HIDE DEF g
  <2>10. Agreed(conf.user.plugin)' /\ Alert'
    BY <1>1, <2>2, <2>9 DEF Agreed, Alert
  <2>11. ClientSwitches'
    BY <1>1, <2>2, <2>3, <2>6, <2>7, <2>9, <2>10, Zenon DEF ClientSwitches, g
  <2> QED
    BY <1>1, <2>9, <2>11, CacheKept DEF HandshakeInv, HandshakeTypes, Phase
<1>3. CASE ~ServerSwitches
  <2>1. Continue(Head(down), cl.plugin)
    <3>1. CASE AuthResultSwitched
      BY <3>1, Zenon DEF AuthResultSwitched
    <3>2. CASE AuthResult
      <4>1. Head(down).k # "switch"
        <5>1. /\ \A x : Head(<<x>>) = x
              /\ \A x, y : Head(<<x, y>>) = x
          BY Queue, Zenon
        <5>2. \/ down = <<[k |-> "full"]>> \/ down = <<[k |-> "key"]>>
              \/ \E p \in {"ok", "err"} : down = <<[k |-> p]>> \/ down = <<[k |-> "fast"], [k |-> p]>>
          BY <1>1, <1>3, Zenon DEF HandshakeInv, Phase, InAuthResult, Greets, Leaves, Responds,
             ClientSwitches, FullAsked, FullAnswered, FullKey, FullEncrypted, KeySent, KeyUsed,
             Accepted, Refused, LastPackets
        <5>3. \E k \in {"full", "key", "ok", "err", "fast"} : Head(down) = [k |-> k]
          BY <5>1, <5>2
        <5> QED
          BY <5>3
      <4> QED
        BY <3>2, <4>1, Zenon DEF AuthResult
    <3> QED
      BY <3>1, <3>2
  <2> QED
    BY <1>1, <1>3, <2>1, ContinueNext
<1> QED
  BY <1>2, <1>3

\* The client's last read, of OK or an error.
LEMMA readOKStep ==
  ASSUME HandshakeInv, readOK
  PROVE  HandshakeInv'
<1>1. /\ cl.pc = "ok" /\ down # <<>> /\ down' = Tail(down) /\ UNCHANGED <<conf, cache, acc, sv>>
      /\ cl \in ClientTypes /\ CacheRight'
  BY CacheKept DEF readOK, Take, HandshakeInv, HandshakeTypes
<1>2. \/ Accepted /\ down = <<[k |-> "ok"]>>
      \/ Refused /\ down = <<[k |-> "err"]>>
  <2>1. ~Greets /\ ~Leaves /\ ~Responds /\ ~ServerSwitches /\ ~ClientSwitches /\ ~FullAsked /\ ~FullKey
        /\ ~KeySent
    BY <1>1 DEF InAuthResult, Greets, Leaves, Responds, ServerSwitches, ClientSwitches, FullAsked,
                FullKey, KeySent
  <2>2. ~FullAnswered /\ ~FullEncrypted /\ ~KeyUsed
    BY <1>1, Zenon DEF FullAnswered, FullEncrypted, KeyUsed
  <2>3. /\ Accepted => down = <<[k |-> "ok"]>>
        /\ Refused => down = <<[k |-> "err"]>>
    BY <1>1 DEF Accepted, Refused, LastPackets, InAuthResult
  <2> QED
    BY <2>1, <2>2, <2>3, Zenon DEF HandshakeInv, Phase
<1>3. CASE Accepted /\ down = <<[k |-> "ok"]>>
  <2>1. Head(down) = [k |-> "ok"] /\ down' = <<>>
    BY <1>1, <1>3, Queue, Zenon
  <2>2. cl' = [cl EXCEPT !.pc = "ready"] /\ up' = up
    BY <2>1 DEF readOK
  <2>3. cl' \in ClientTypes /\ cl'.pc = "ready"
    BY <1>1, <2>2 DEF ClientTypes
  <2>4. Accepted'
    BY <1>1, <1>3, <2>1, <2>2, <2>3 DEF Accepted, Right
  <2> QED
    BY <1>1, <2>3, <2>4 DEF HandshakeInv, HandshakeTypes, Phase
<1>4. CASE Refused /\ down = <<[k |-> "err"]>>
  <2>1. Head(down) = [k |-> "err"] /\ down' = <<>>
    BY <1>1, <1>4, Queue, Zenon
  <2>2. cl' = [cl EXCEPT !.pc = "closed"] /\ up' = up
    BY <2>1 DEF readOK, ClientFails
  <2>3. cl' \in ClientTypes /\ cl'.pc = "closed"
    BY <1>1, <2>2 DEF ClientTypes
  <2>4. Refused'
    BY <1>1, <1>4, <2>1, <2>2, <2>3 DEF Refused, Workable
  <2> QED
    BY <1>1, <2>3, <2>4 DEF HandshakeInv, HandshakeTypes, Phase
<1> QED
  BY <1>2, <1>3, <1>4

\* The client waits for the server's key.
LEMMA PublicKeyStep ==
  ASSUME HandshakeInv, PublicKey
  PROVE  HandshakeInv'
<1>1. /\ cl.pc = "key" /\ down # <<>> /\ down' = Tail(down) /\ UNCHANGED <<conf, cache, acc, sv>>
      /\ cl \in ClientTypes /\ CacheRight'
  BY CacheKept DEF PublicKey, Take, HandshakeInv, HandshakeTypes
<1>2. \/ FullKey
      \/ Refused /\ down = <<[k |-> "err"]>>
  <2>1. /\ ~Greets /\ ~Leaves /\ ~Responds /\ ~ServerSwitches /\ ~ClientSwitches /\ ~FullAsked
        /\ ~FullEncrypted /\ ~KeySent /\ ~KeyUsed
    BY <1>1 DEF InAuthResult, Greets, Leaves, Responds, ServerSwitches, ClientSwitches, FullAsked,
                FullEncrypted, KeySent, KeyUsed
  <2>2. ~FullAnswered
    BY <1>1, Zenon DEF FullAnswered
  <2>3. /\ ~Accepted
        /\ Refused => down = <<[k |-> "err"]>>
    BY <1>1 DEF Accepted, Refused, LastPackets, InAuthResult
  <2> QED
    BY <2>1, <2>2, <2>3, Zenon DEF HandshakeInv, Phase
<1>3. CASE FullKey
  <2>1. down = <<[k |-> "key"]>> /\ up = <<>> /\ cl.salt = sv.salt
    BY <1>3 DEF FullKey, Agreed
  <2>2. Head(down) = [k |-> "key"] /\ down' = <<>>
    BY <1>1, <2>1, Queue, Zenon
  <2>3. ClientSends(Encrypted(cl.salt), "ok")
    BY <2>2 DEF PublicKey
  <2>4. up' = <<Encrypted(sv.salt)>> /\ cl' = [cl EXCEPT !.pc = "ok"]
    BY <2>1, <2>3, Queue, Zenon DEF ClientSends
  <2>5. cl' \in ClientTypes /\ cl'.pc = "ok" /\ cl'.plugin = cl.plugin /\ cl'.salt = cl.salt
    BY <1>1, <2>4 DEF ClientTypes
  <2>6. FullEncrypted'
    BY <1>1, <1>3, <2>2, <2>4, <2>5 DEF FullKey, FullEncrypted, Agreed, Trusted, Encrypted
  <2> QED
    BY <1>1, <2>5, <2>6 DEF HandshakeInv, HandshakeTypes, Phase
<1>4. CASE Refused /\ down = <<[k |-> "err"]>>
  <2>1. Head(down) = [k |-> "err"] /\ down' = <<>>
    BY <1>1, <1>4, Queue, Zenon
  <2>2. cl' = [cl EXCEPT !.pc = "closed"] /\ up' = up
    BY <2>1 DEF PublicKey, ClientFails
  <2>3. cl' \in ClientTypes /\ cl'.pc = "closed"
    BY <1>1, <2>2 DEF ClientTypes
  <2>4. Refused'
    BY <1>1, <1>4, <2>1, <2>2, <2>3 DEF Refused, Workable
  <2> QED
    BY <1>1, <2>3, <2>4 DEF HandshakeInv, HandshakeTypes, Phase
<1> QED
  BY <1>2, <1>3, <1>4

\* A side that reads from a closed connection closes its own.
LEMMA ReadFailsStep ==
  ASSUME HandshakeInv, ClientReadFails \/ ServerReadFails
  PROVE  HandshakeInv'
<1>1. CASE ClientReadFails
  <2>1. /\ sv.pc = "closed" /\ down' = <<>> /\ cl' = [cl EXCEPT !.pc = "closed"]
        /\ UNCHANGED <<conf, cache, acc, sv, up>> /\ cl \in ClientTypes
    BY <1>1 DEF ClientReadFails, ClientFails, HandshakeInv, HandshakeTypes
  <2>2. Refused
    BY <2>1 DEF HandshakeInv, Phase, Greets, Leaves, Responds, ServerSwitches, ClientSwitches,
                FullAsked, FullAnswered, FullKey, FullEncrypted, KeySent, KeyUsed, Accepted
  <2>3. cl' \in ClientTypes /\ cl'.pc = "closed"
    BY <2>1 DEF ClientTypes
  <2>4. Refused'
    BY <2>1, <2>2, <2>3 DEF Refused, Workable
  <2> QED
    BY <2>1, <2>3, <2>4, CacheKept DEF HandshakeInv, HandshakeTypes, Phase
<1>2. CASE ServerReadFails
  <2>1. /\ sv.pc # "closed" /\ sv.pc # "ready" /\ cl.pc = "closed" /\ sv' = [sv EXCEPT !.pc = "closed"]
        /\ UNCHANGED <<conf, cache, acc, cl, up, down>> /\ sv \in ServerTypes
    BY <1>2 DEF ServerReadFails, HandshakeInv, HandshakeTypes
  <2>2. Leaves
    BY <2>1 DEF HandshakeInv, Phase, Greets, Responds, ServerSwitches, ClientSwitches, InAuthResult,
                FullAsked, FullAnswered, FullKey, FullEncrypted, KeySent, KeyUsed, Accepted, Refused
  <2>3. sv' \in ServerTypes /\ sv'.pc = "closed"
    BY <2>1, Zenon DEF ServerTypes
  <2>4. Refused'
    BY <2>1, <2>2, <2>3 DEF Refused, Leaves, Workable
  <2> QED
    BY <2>1, <2>3, <2>4, CacheKept DEF HandshakeInv, HandshakeTypes, Phase
<1> QED
  BY <1>1, <1>2

\* What does not change but the cache.
LEMMA PhaseKept ==
  ASSUME HandshakeInv, UNCHANGED <<conf, acc, cl, sv, up, down>>
  PROVE  HandshakeTypes' /\ Phase'
<1>1. HandshakeTypes'
  BY DEF HandshakeInv, HandshakeTypes
<1>2. UNCHANGED <<Greets, Leaves, ServerSwitches>>
  BY Zenon DEF Greets, Leaves, ServerSwitches, Alert, Workable
<1>3. UNCHANGED <<Responds, ClientSwitches>>
  BY Zenon DEF Responds, ClientSwitches, Alert, Agreed, HandshakeResponse, genAuthResponse,
     Scramble, ClearText, Trusted
<1>4. UNCHANGED <<FullAsked, FullAnswered, FullKey, FullEncrypted>>
  BY Zenon DEF FullAsked, FullAnswered, FullKey, FullEncrypted, Agreed, InAuthResult, Trusted,
     ClearText, Encrypted
<1>5. UNCHANGED <<KeySent, KeyUsed>>
  BY Zenon DEF KeySent, KeyUsed, Agreed, Alert, InAuthResult, Trusted, Encrypted
<1>6. UNCHANGED <<Accepted, Refused>>
  BY Zenon DEF Accepted, Refused, LastPackets, InAuthResult, Right, Workable
<1> QED
  BY <1>1, <1>2, <1>3, <1>4, <1>5, <1>6, Zenon DEF HandshakeInv, Phase

\* Other connections, and no step.
LEMMA CacheStep ==
  ASSUME HandshakeInv, InvalidateCache \/ OtherConnection \/ UNCHANGED hsVars
  PROVE  HandshakeInv'
<1>1. UNCHANGED <<conf, acc, cl, sv, up, down>>
  BY DEF InvalidateCache, OtherConnection, hsVars
<1>2. CacheRight'
  BY <1>1 DEF HandshakeInv, CacheRight, InvalidateCache, OtherConnection, hsVars
<1> QED
  BY <1>1, <1>2, PhaseKept DEF HandshakeInv

\* The first connection, before anything was read.
LEMMA HandshakeInvInit ==
  HandshakeInit => HandshakeInv
<1> SUFFICES ASSUME HandshakeInit
             PROVE  HandshakeInv
  OBVIOUS
<1>1. cl \in ClientTypes /\ sv \in ServerTypes
  BY DEF HandshakeInit, ClientTypes, ServerTypes, isAuthMethodSupported
<1>2. Greets /\ CacheRight
  BY Zenon DEF HandshakeInit, Greets, Alert, CacheRight
<1> QED
  BY <1>1, <1>2, Zenon DEF HandshakeInit, HandshakeInv, HandshakeTypes, Phase

\* Every step keeps the invariant.
LEMMA HandshakeInvNext ==
  HandshakeInv /\ [HandshakeNext]_hsVars => HandshakeInv'
BY GreetingStep, ResultStep, PublicKeyStep, readOKStep, ReadFailsStep, ResponseStep,
   SwitchResponseStep, EncryptedStep, CacheStep, Zenon DEF HandshakeNext

\* In every phase, who is let in may be, and somebody has a packet to read.
LEMMA InvLogin ==
  HandshakeInv => LoginExact /\ NeverBothWait
<1> SUFFICES ASSUME HandshakeInv
             PROVE  LoginExact /\ NeverBothWait
  OBVIOUS
<1> USE DEF LoginExact, LoginAgreed, LoginWorks, NeverBothWait
<1>1. CASE Greets \/ Responds \/ ServerSwitches \/ ClientSwitches
  <2>1. /\ sv.pc \in {"response", "auth"} /\ cl.pc \in {"greeting", "result", "switched"}
        /\ sv.why = "none"
    BY <1>1, Zenon DEF Greets, Responds, ServerSwitches, ClientSwitches, Alert
  <2>2. up # <<>> \/ down # <<>>
    BY <1>1, Queue, Zenon DEF Greets, Responds, ServerSwitches, ClientSwitches
  <2> QED
    BY <2>1, <2>2
<1>2. CASE FullAsked \/ FullAnswered \/ FullKey \/ FullEncrypted \/ KeySent \/ KeyUsed
  <2>1. /\ sv.pc \in {"auth", "encrypted"} /\ cl.pc \in {"result", "switched", "ok", "key"}
        /\ sv.why = "none"
    BY <1>2 DEF FullAsked, FullAnswered, FullKey, FullEncrypted, KeySent, KeyUsed, Agreed, InAuthResult
  <2>2. up # <<>> \/ down # <<>>
    BY <1>2, Queue, Zenon DEF FullAsked, FullAnswered, FullKey, FullEncrypted, KeySent, KeyUsed
  <2> QED
    BY <2>1, <2>2
<1>3. CASE Leaves
  BY <1>3 DEF Leaves, Alert
<1>4. CASE Accepted
  BY <1>4 DEF Accepted, LastPackets, InAuthResult, Right
<1>5. CASE Refused
  BY <1>5 DEF Refused, LastPackets, InAuthResult
<1> QED
  BY <1>1, <1>2, <1>3, <1>4, <1>5, Zenon DEF HandshakeInv, Phase

\* LoginExact for any passwords, and any databases that are not named like a plugin
\* (HandshakeAssumption; with such a name LoginWorks fails): whoever is let in has a
\* password of the user, on both sides; who may be is turned away only by the handler.
THEOREM LoginIsExact ==
  HandshakeSpec => []LoginExact
<1>1. HandshakeInv => LoginExact
  BY InvLogin
<1> QED
  BY <1>1, HandshakeInvInit, HandshakeInvNext, PTL DEF HandshakeSpec

\* Client and server never both wait for a packet.
THEOREM HandshakeNeverStalls ==
  HandshakeSpec => []NeverBothWait
<1>1. HandshakeInv => NeverBothWait
  BY InvLogin
<1> QED
  BY <1>1, HandshakeInvInit, HandshakeInvNext, PTL DEF HandshakeSpec
=============================================================================
