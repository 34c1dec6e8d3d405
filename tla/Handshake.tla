----------------------------- MODULE Handshake -----------------------------
(***************************************************************************)
(* The connection phase of a session: src/client/auth.go and the           *)
(* authentication part of src/client/resp.go against src/server/conn.go,   *)
(* handshake_resp.go, auth.go and auth_switch_response.go.                 *)
(*                                                                         *)
(* One connection after another is made to one server, which caches        *)
(* passwords for caching_sha2_password.  A salt is a number, what a plugin *)
(* computes from a password and a salt is a record of the two, and a       *)
(* handshake response is the sequence of fields that the server reads.     *)
(***************************************************************************)
EXTENDS Integers, Sequences

CONSTANTS Passwords,  \* what a client may log in with
          Empty,      \* the empty password, one of them
          Databases,  \* names of databases
          None        \* no database, no cached password, no such user

Native == "mysql_native_password"
CachingSha2 == "caching_sha2_password"
Sha256 == "sha256_password"
Clear == "mysql_clear_password"

\* client_ed25519 is left out: no server method of this repository uses it.
supportedAuthPlugins == {Native, Sha256, CachingSha2}
isAuthMethodSupported == {Native, CachingSha2, Sha256, Clear}

\* What a lone NUL reads as.
NoString == ""

\* A database has a name.  It is not that of a plugin: readPluginName would take it
\* for one after the NUL that follows a clear-text password.
ASSUME HandshakeAssumption ==
  /\ Empty \in Passwords /\ None \notin Databases \cup Passwords
  /\ Databases \cap (isAuthMethodSupported \cup {NoString}) = {}

VARIABLES conf,   \* the server and the user it knows, which do not change
          cache,  \* cacheShaPassword: the cached password, or None
          acc,    \* what the client connects with
          cl,     \* the client: where it is, its plugin and its salt
          sv,     \* the server: the same, cachingSha2FullAuth, database, why it refused
          up,     \* packets to the server
          down    \* packets to the client

hsVars == <<conf, cache, acc, cl, sv, up, down>>

\* NewServer refuses the two RSA methods without a key and without TLS; a TLS
\* certificate need not have an RSA key.
NewServer ==
  {s \in [method : isAuthMethodSupported \ {Clear}, tls : BOOLEAN, rsa : BOOLEAN] :
     s.method = Native \/ s.rsa \/ s.tls}

Credential ==
  {None} \cup [plugin : isAuthMethodSupported, passwords : {{p} : p \in Passwords}]

Account == [password : Passwords, tls : BOOLEAN, unix : BOOLEAN, db : Databases \cup {None}]

HandshakeInit ==
  /\ conf \in [server : NewServer, user : Credential]
  /\ cache = None
  /\ acc \in Account
  /\ cl = [pc |-> "greeting", plugin |-> Native, salt |-> 0]
  /\ sv = [pc |-> "response", plugin |-> NoString, salt |-> 1, full |-> FALSE, db |-> None,
           why |-> "none"]
  /\ up = <<>>
  /\ down = <<[k |-> "greeting", plugin |-> conf.server.method, salt |-> 1,
               ssl |-> conf.server.tls]>>

(***************************************************************************)
(* The client                                                              *)
(***************************************************************************)
\* What goes into a packet.  An auth switch request carries the salt and a NUL,
\* which caching_sha2_password hashes along with it.
Nothing == [k |-> "empty"]
Scramble(plugin, salt, nul) ==
  [k |-> "scramble", plugin |-> plugin, password |-> acc.password, salt |-> salt, nul |-> nul]
ClearText == [k |-> "clear", password |-> acc.password]
KeyRequest == [k |-> "keyrequest"]
Encrypted(salt) == [k |-> "rsa", password |-> acc.password, salt |-> salt]

\* Where the client trusts the connection with the password itself.
Trusted == acc.tls \/ acc.unix

\* The packet, and whether a NUL is to follow it.
genAuthResponse(plugin, salt, nul) ==
  CASE plugin = Native ->
         [auth |-> IF acc.password = Empty THEN Nothing ELSE Scramble(Native, salt, FALSE),
          addNull |-> FALSE]
    [] plugin = CachingSha2 ->
         [auth |-> IF acc.password = Empty THEN Nothing ELSE Scramble(CachingSha2, salt, nul),
          addNull |-> FALSE]
    [] plugin = Clear -> [auth |-> ClearText, addNull |-> TRUE]
    [] plugin = Sha256 ->
         IF acc.password = Empty THEN [auth |-> Nothing, addNull |-> TRUE]
         ELSE IF Trusted THEN [auth |-> ClearText, addNull |-> TRUE]
         ELSE [auth |-> KeyRequest, addNull |-> FALSE]

ClientFails == cl' = [cl EXCEPT !.pc = "closed"] /\ UNCHANGED up
ClientSends(p, pc) == up' = Append(up, p) /\ cl' = [cl EXCEPT !.pc = pc]
Take == down' = Tail(down)

\* writeAuthHandshake: the strings after the response are written one after
\* another.  A NUL that is not counted in the length of the response comes first
\* and reads as an empty string.
HandshakeResponse(plugin, salt) ==
  LET r == genAuthResponse(plugin, salt, FALSE)
  IN  [k |-> "response", auth |-> r.auth, withDB |-> acc.db # None,
       strings |-> (IF r.addNull THEN <<NoString>> ELSE <<>>)
                     \o (IF acc.db # None THEN <<acc.db>> ELSE <<>>) \o <<plugin>>]

\* handshake: readInitialHandshake and writeAuthHandshake.
Greeting ==
  /\ cl.pc = "greeting" /\ down # <<>>
  /\ LET g == Head(down)
     IN  IF (acc.tls /\ ~ g.ssl) \/ g.plugin \notin supportedAuthPlugins THEN ClientFails
         ELSE /\ up' = Append(up, HandshakeResponse(g.plugin, g.salt))
              /\ cl' = [pc |-> "result", plugin |-> g.plugin, salt |-> g.salt]
  /\ Take /\ UNCHANGED <<conf, cache, acc, sv>>

\* handleAuthResult after readAuthResult, which hands back what follows the
\* header of an AuthMoreData packet, or nothing after OK.
Continue(p, plugin) ==
  CASE p.k = "ok" -> cl' = [cl EXCEPT !.pc = "ready"] /\ UNCHANGED up
    [] p.k = "fast" /\ plugin = CachingSha2 -> cl' = [cl EXCEPT !.pc = "ok"] /\ UNCHANGED up
    [] p.k = "full" /\ plugin = CachingSha2 ->
         IF Trusted THEN ClientSends(ClearText, "ok") ELSE ClientSends(KeyRequest, "key")
    [] p.k = "key" /\ plugin = Sha256 -> ClientSends(Encrypted(cl.salt), "ok")
    [] p.k \in {"fast", "full", "key"} /\ plugin \notin {CachingSha2, Sha256} ->
         cl' = [cl EXCEPT !.pc = "ready"] /\ UNCHANGED up
    [] OTHER -> ClientFails

SwitchPluginOldSalt(p) ==
  /\ cl' = [pc |-> "switched", plugin |-> p.plugin, salt |-> cl.salt]
  /\ up' = Append(up, [k |-> "auth", auth |-> genAuthResponse(p.plugin, p.salt, TRUE).auth])

\* The client answers with the new salt, and keeps it for an encrypted password.
SwitchPlugin(p) ==
  /\ cl' = [pc |-> "switched", plugin |-> p.plugin, salt |-> p.salt]
  /\ up' = Append(up, [k |-> "auth", auth |-> genAuthResponse(p.plugin, p.salt, TRUE).auth])

AuthResult ==
  /\ cl.pc = "result" /\ down # <<>>
  /\ IF Head(down).k = "switch" THEN SwitchPlugin(Head(down)) ELSE Continue(Head(down), cl.plugin)
  /\ Take /\ UNCHANGED <<conf, cache, acc, sv>>

\* The plugin may be switched once.
AuthResultSwitched ==
  /\ cl.pc = "switched" /\ down # <<>>
  /\ Continue(Head(down), cl.plugin)
  /\ Take /\ UNCHANGED <<conf, cache, acc, sv>>

\* WritePublicKeyAuthPacket: what comes is taken for the key; anything else
\* has none in it.
PublicKey ==
  /\ cl.pc = "key" /\ down # <<>>
  /\ IF Head(down).k = "key" THEN ClientSends(Encrypted(cl.salt), "ok") ELSE ClientFails
  /\ Take /\ UNCHANGED <<conf, cache, acc, sv>>

readOK ==
  /\ cl.pc = "ok" /\ down # <<>>
  /\ IF Head(down).k = "ok" THEN cl' = [cl EXCEPT !.pc = "ready"] /\ UNCHANGED up ELSE ClientFails
  /\ Take /\ UNCHANGED <<conf, cache, acc, sv>>

\* A read fails once the server has closed the connection.
ClientReadFails ==
  /\ cl.pc \notin {"ready", "closed"} /\ down = <<>> /\ sv.pc = "closed"
  /\ ClientFails /\ UNCHANGED <<conf, cache, acc, sv, down>>

(***************************************************************************)
(* The server                                                              *)
(***************************************************************************)
hasEmptyPassword == Empty \in conf.user.passwords

Say(s, packets) == sv' = s /\ down' = down \o packets

\* handshake: an error packet and Close, or OnAuthSuccess, which may object,
\* and OK.
Refuse(s) == Say([s EXCEPT !.pc = "closed", !.why = "auth"], <<[k |-> "err"]>>)
Object(s, first) ==
  Say([s EXCEPT !.pc = "closed", !.why = "handler"], Append(first, [k |-> "err"]))
Accept(s, first) ==
  \/ Say([s EXCEPT !.pc = "ready"], Append(first, [k |-> "ok"]))
  \/ Object(s, first)

CheckPassword(s, a) == IF a.password \in conf.user.passwords THEN Accept(s, <<>>) ELSE Refuse(s)

CheckEmpty(s) == IF hasEmptyPassword THEN Accept(s, <<>>) ELSE Refuse(s)

\* compareNativePasswordAuthData.  The stored hash of an empty password cannot
\* be decoded: the program stops.
compareNative(s, a) ==
  /\ UNCHANGED cache
  /\ IF a.k = "empty" THEN CheckEmpty(s)
     ELSE IF hasEmptyPassword THEN Say([s EXCEPT !.pc = "closed"], <<>>)
     ELSE IF a.k = "scramble" /\ a.plugin = Native /\ a.salt = s.salt THEN CheckPassword(s, a)
     ELSE Refuse(s)

\* Both RSA methods: in clear under TLS, else encrypted with the salt, if there
\* is a key.  The empty string is what a lone NUL is read as.
Decrypted(s, a) ==
  \/ acc.tls /\ a.k = "clear"
  \/ ~ acc.tls /\ conf.server.rsa /\ a.k = "rsa" /\ a.salt = s.salt

\* writeAuthMoreDataPubkey, and the read of the answer.
SendKey(s, pc) ==
  IF conf.server.rsa THEN Say([s EXCEPT !.pc = pc], <<[k |-> "key"]>>) ELSE Refuse(s)

\* compareSha256PasswordAuthData behind handlePublicKeyRetrieval.
compareSha256(s, a) ==
  /\ UNCHANGED cache
  /\ IF a.k = "keyrequest"
     THEN IF conf.server.tls THEN SendKey(s, "auth") ELSE Refuse(s)
     ELSE IF a.k = "empty" THEN CheckEmpty(s)
     ELSE IF Decrypted(s, a) THEN CheckPassword(s, a)
     ELSE Refuse(s)

\* handleCachingSha2PasswordFullAuth: a password that is right is cached.
FullAuth(s, a) ==
  IF a.k = "keyrequest" /\ ~ acc.tls THEN SendKey(s, "encrypted") /\ UNCHANGED cache
  ELSE IF ~ Decrypted(s, a) \/ a.password \notin conf.user.passwords THEN Refuse(s) /\ UNCHANGED cache
  ELSE Accept(s, <<>>) /\ cache' = a.password

scrambleValidationAny(s, a) == cache # None

\* scrambleValidation against the cached password.
scrambleValidation(s, a) ==
  /\ cache # None
  /\ a.k = "scramble" /\ a.plugin = CachingSha2
  /\ a.password = cache /\ a.salt = s.salt /\ ~ a.nul

compareCachingSha2Waits(s, a) ==
  /\ UNCHANGED cache
  /\ IF scrambleValidation(s, a) THEN Say([s EXCEPT !.pc = "auth"], <<[k |-> "fast"]>>)
     ELSE Say([s EXCEPT !.full = TRUE, !.pc = "auth"], <<[k |-> "full"]>>)

compareCachingSha2(s, a) ==
  IF a.k = "empty" THEN CheckEmpty(s) /\ UNCHANGED cache
  ELSE IF scrambleValidation(s, a) THEN Accept(s, <<[k |-> "fast"]>>) /\ UNCHANGED cache
  ELSE /\ Say([s EXCEPT !.full = TRUE, !.pc = "auth"], <<[k |-> "full"]>>)
       /\ UNCHANGED cache

\* DefaultAuthenticationProvider.Authenticate
Authenticate(s, a) ==
  CASE s.plugin = Native -> compareNative(s, a)
    [] s.plugin = CachingSha2 -> IF s.full THEN FullAuth(s, a) ELSE compareCachingSha2(s, a)
    [] s.plugin = Sha256 -> compareSha256(s, a)
    [] OTHER -> Refuse(s) /\ UNCHANGED cache

\* compareAuthData and writeAuthSwitchRequest
compareAuthData(s, a) ==
  IF s.plugin # conf.user.plugin
  THEN /\ Say([s EXCEPT !.plugin = conf.user.plugin, !.salt = 2, !.pc = "auth"],
              <<[k |-> "switch", plugin |-> conf.user.plugin, salt |-> 2]>>)
       /\ UNCHANGED cache
  ELSE Authenticate(s, a)

\* readHandshakeResponse: the strings are read one after another.  The handler
\* may object to the database.
readHandshakeResponse ==
  /\ sv.pc = "response" /\ up # <<>>
  /\ LET r == Head(up)
         plugin == r.strings[IF r.withDB THEN 2 ELSE 1]
         s == [sv EXCEPT !.db = IF r.withDB THEN r.strings[1] ELSE None, !.plugin = plugin]
     IN  \/ r.withDB /\ Object(s, <<>>) /\ UNCHANGED cache
         \/ IF conf.user = None THEN Refuse(s) /\ UNCHANGED cache ELSE compareAuthData(s, r.auth)
  /\ up' = Tail(up)
  /\ UNCHANGED <<conf, acc, cl>>

Received(p) == IF p.k = "auth" THEN p.auth ELSE p

handleAuthSwitchResponse ==
  /\ sv.pc = "auth" /\ up # <<>>
  /\ compareAuthData(sv, Received(Head(up)))
  /\ up' = Tail(up)
  /\ UNCHANGED <<conf, acc, cl>>

\* The read in the middle of handleCachingSha2PasswordFullAuth.
EncryptedPassword ==
  /\ sv.pc = "encrypted" /\ up # <<>>
  /\ FullAuth(sv, Received(Head(up)))
  /\ up' = Tail(up)
  /\ UNCHANGED <<conf, acc, cl>>

ServerReadFails ==
  /\ sv.pc \notin {"ready", "closed"} /\ up = <<>> /\ cl.pc = "closed"
  /\ sv' = [sv EXCEPT !.pc = "closed"]
  /\ UNCHANGED <<conf, cache, acc, cl, up, down>>

(***************************************************************************)
(* Other connections of the same server store or invalidate the cached     *)
(* password while this one is being made.                                  *)
(***************************************************************************)
InvalidateCache == cache' = None /\ UNCHANGED <<conf, acc, cl, sv, up, down>>

OtherConnection ==
  /\ conf.user # None /\ conf.user.plugin = CachingSha2
  /\ \E p \in conf.user.passwords \ {Empty} : cache' = p
  /\ UNCHANGED <<conf, acc, cl, sv, up, down>>

Done == cl.pc \in {"ready", "closed"} /\ sv.pc \in {"ready", "closed"}

HandshakeNext ==
  \/ Greeting \/ AuthResult \/ AuthResultSwitched \/ PublicKey \/ readOK \/ ClientReadFails
  \/ readHandshakeResponse \/ handleAuthSwitchResponse \/ EncryptedPassword \/ ServerReadFails
  \/ InvalidateCache \/ OtherConnection
  \/ Done /\ UNCHANGED hsVars

HandshakeSpec == HandshakeInit /\ [][HandshakeNext]_hsVars

(***************************************************************************)
(* Properties                                                              *)
(***************************************************************************)
\* A client that believes it is connected has logged in with a password of the
\* user, and the server believes so too: no order of switches, cached and full
\* authentication ends otherwise.
LoginAgreed ==
  /\ sv.pc = "ready" => conf.user # None /\ acc.password \in conf.user.passwords
  /\ cl.pc = "ready" => sv.pc = "ready"

\* With a password of the user, in a configuration where the method can work
\* (over TLS, or with the server's RSA key; sha256_password hands out its key
\* only where TLS is enabled; a Unix socket is plain text to the server), the
\* client is turned away only by the handler: LoginWorks.
Workable ==
  /\ conf.user # None /\ acc.password \in conf.user.passwords
  /\ acc.tls => conf.server.tls
  /\ conf.user.plugin # Clear
  /\ conf.user.plugin = CachingSha2 =>
       acc.password = Empty \/ acc.tls \/ (conf.server.rsa /\ ~ acc.unix)
  /\ conf.user.plugin = Sha256 =>
       acc.password = Empty \/ acc.tls \/ (conf.server.rsa /\ conf.server.tls /\ ~ acc.unix)

LoginWorks ==
  Workable => /\ sv.why # "auth"
              /\ cl.pc = "closed" => sv.why = "handler"

\* Both directions of a login: who is let in may be (LoginAgreed), and who may
\* be is let in (LoginWorks).
LoginExact == LoginAgreed /\ LoginWorks

\* The two sides never wait for each other: each read of handleAuthResult and
\* of the server's exchange has a write on the other side.
NeverBothWait ==
  ~ /\ up = <<>> /\ down = <<>>
    /\ cl.pc \notin {"ready", "closed"} /\ sv.pc \notin {"ready", "closed"}
=============================================================================
