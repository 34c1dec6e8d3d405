---------------------------- MODULE PacketChannel ----------------------------
(***************************************************************************)
(* What packet.Conn promises to a client and a server: in each direction   *)
(* payloads of any size arrive whole, once and in the order written.       *)
(***************************************************************************)
EXTENDS Naturals, Sequences

CONSTANT Ends        \* the two ends of a connection

VARIABLES pending,   \* pending[e]: payloads e has written that were not read
          got        \* got[e]: the payload last read of those e has written

ChannelInit ==
  /\ pending = [e \in Ends |-> <<>>]
  /\ got = [e \in Ends |-> <<>>]

Send(e) ==
  /\ Len(pending'[e]) > Len(pending[e])
  /\ SubSeq(pending'[e], 1, Len(pending[e])) = pending[e]
  /\ pending' = [pending EXCEPT ![e] = pending'[e]]
  /\ UNCHANGED got

Receive(e) ==
  /\ pending[e] # <<>>
  /\ got' = [got EXCEPT ![e] = Head(pending[e])]
  /\ pending' = [pending EXCEPT ![e] = Tail(@)]

ChannelSpec ==
  ChannelInit /\ [][\E e \in Ends : Send(e) \/ Receive(e)]_<<pending, got>>

=============================================================================
