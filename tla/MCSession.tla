----------------------------- MODULE MCSession -----------------------------
(***************************************************************************)
(* A session, in its two parts: the connection phase of Handshake and the  *)
(* command phase of Session.  `part` says which of them a behaviour is     *)
(* about; the variables of the other one keep one initial value.           *)
(***************************************************************************)
EXTENDS Handshake, Session

VARIABLE part

MCWidth == [t \in {"TINY", "SHORT", "LONG", "LONGLONG"} |->
              CASE t = "TINY" -> 2 [] t = "SHORT" -> 3 [] t = "LONG" -> 4 [] OTHER -> 5]
MCArguments == {[go |-> "uint8", v |-> 3]}

HandshakeIdle == acc.db = None /\ acc.password = Empty /\ conf.user = None
                   /\ conf.server = [method |-> Native, tls |-> FALSE, rsa |-> FALSE]
                   /\ ~ acc.tls /\ ~ acc.unix

MCInit ==
  /\ part \in {"handshake", "commands"}
  /\ HandshakeInit /\ SessionInit
  /\ part = "commands" => HandshakeIdle
  /\ part = "handshake" => ~ dep

MCNext ==
  \/ part = "handshake" /\ HandshakeNext /\ UNCHANGED ssVars /\ UNCHANGED part
  \/ part = "commands" /\ SessionNext /\ UNCHANGED hsVars /\ UNCHANGED part

MCSpec == MCInit /\ [][MCNext]_<<hsVars, ssVars, part>>

\* Client and server never wait for each other, neither while they authenticate
\* (NeverBothWait) nor in a call (NoHang): every read has its write.
NobodyWaits == NeverBothWait /\ NoHang
=============================================================================
