------------------------------- MODULE Packet -------------------------------
(***************************************************************************)
(* Packets: src/packet/conn.go, with the client and the server taking      *)
(* turns as src/client/req.go and src/server/command.go do.                *)
(*                                                                         *)
(* The wire carries units.  A packet is a header of two units (length,     *)
(* sequence number) and its payload; a compressed frame a header of three  *)
(* (length, sequence number, uncompressed length) and its body.  Lengths   *)
(* and sequence numbers wrap as their 3 byte and 1 byte fields do.  Only   *)
(* the client uses compression: the server is then a MySQL server, which   *)
(* frames its answer as it likes.                                          *)
(***************************************************************************)
EXTENDS Integers, Sequences, FiniteSets, SequencesExt

CONSTANTS MaxPayloadLen,        \* largest payload of one packet
          SeqModulus,               \* sequence numbers wrap here (256)
          BufSize,              \* capacity of copyNBuf
          MinCompressionLength, \* data no longer than this is not compressed
          Lengths,              \* payload lengths, by compression
          MaxAnswer,            \* packets of an answer
          MaxFrames,            \* frames of a compressed answer
          RawAnywhere           \* the server may leave any frame uncompressed

ASSUME PacketAssumption ==
  /\ MaxPayloadLen \in Nat \ {0} /\ SeqModulus \in Nat \ {0} /\ BufSize \in Nat \ {0}
  /\ MinCompressionLength \in Nat
  /\ RawAnywhere \in BOOLEAN

Ends == {"client", "server"}
Peer(e) == IF e = "client" THEN "server" ELSE "client"

HeaderLen == 2
FrameHeaderLen == 3
LenMod == MaxPayloadLen + 1

VARIABLES compression,  \* TRUE when the connection is compressed
          wire,         \* wire[e]: units written by e and not yet read
          seq,          \* Sequence of each end
          cseq,         \* CompressedSequence of the client
          active,       \* compressedReaderActive
          reader,       \* compressedReader: what it has left, or Raw for nil
          rd,           \* progress of the ReadPacket of each end
          turn,         \* the end that writes
          broken,       \* the network has cut the connection
          failed,       \* the ends whose ReadPacket failed
          pending,      \* pending[e]: payloads written by e and not read
          got           \* got[e]: the last payload read of those

vars == <<compression, wire, seq, cseq, active, reader, rd, turn, broken, failed, pending, got>>

\* A reader without compressed data: units come straight from the wire.
Raw == <<-1>>

Idle == [pc |-> "idle", part |-> "header", need |-> 0, len |-> 0, buf |-> <<>>, acc |-> <<>>]

Init ==
  /\ compression \in BOOLEAN
  /\ wire = [e \in Ends |-> <<>>]
  /\ seq = [e \in Ends |-> 0]
  /\ cseq = 0 /\ active = FALSE /\ reader = Raw
  /\ rd = [e \in Ends |-> Idle]
  /\ turn = "client"
  /\ broken = FALSE /\ failed = {}
  /\ pending = [e \in Ends |-> <<>>]
  /\ got = [e \in Ends |-> <<>>]

(***************************************************************************)
(* Writing                                                                 *)
(***************************************************************************)
\* The k-th payload of a turn, of n units that no other one has.
Payload(k, n) == [i \in 1 .. n |-> 10 * k + i]

Parts(p) == Len(p) \div MaxPayloadLen + 1

\* The packets of a payload: as many full ones as fit, then the rest, which may
\* be empty.
PartUnits(p, s, j) ==
  LET part == SubSeq(p, (j - 1) * MaxPayloadLen + 1,
                     IF j < Parts(p) THEN j * MaxPayloadLen ELSE Len(p))
  IN  <<Len(part), (s + j - 1) % SeqModulus>> \o part

FullParts(p, s) == FlattenSeq([j \in 1 .. Parts(p) - 1 |-> PartUnits(p, s, j)])

\* An empty packet after every split payload, even one that ends short.
LastPartExtra(p, s) ==
  PartUnits(p, s, Parts(p))
    \o (IF Len(p) > MaxPayloadLen THEN <<0, (s + Parts(p)) % SeqModulus>> ELSE <<>>)

LastPart(p, s) == PartUnits(p, s, Parts(p))

\* zlib or zstd: invertible, and another length.
Deflate(data) == <<-1>> \o [i \in DOMAIN data |-> -1 - data[i]]
Inflate(body) == [i \in 1 .. Len(body) - 1 |-> -1 - body[i + 1]]

Frame(data, n, zip) ==
  LET body == IF zip THEN Deflate(data) ELSE data
  IN  <<Len(body) % LenMod, n % SeqModulus, IF zip THEN Len(data) % LenMod ELSE 0>> \o body

writeCompressed(data) == Frame(data, 0, Len(data) > MinCompressionLength)

\* What one WritePacket puts on the wire: only the last part is compressed.
PacketUnits(p, s, zipped) ==
  FullParts(p, s) \o (IF zipped THEN writeCompressed(LastPart(p, s)) ELSE LastPart(p, s))

\* writeCommand: ResetSequence and WritePacket.  The client drops the reader of
\* the last answer.
ClientWrite(n) ==
  LET p == Payload(0, n)
  IN  /\ turn = "client" /\ pending["server"] = <<>> /\ ~ broken
      /\ rd["client"] = Idle
      /\ wire' = [wire EXCEPT !["client"] = @ \o PacketUnits(p, 0, compression)]
      /\ seq' = [seq EXCEPT !["client"] = Parts(p) % SeqModulus]
      /\ IF compression THEN cseq' = 1 /\ active' = FALSE /\ reader' = Raw
         ELSE UNCHANGED <<cseq, active, reader>>
      /\ pending' = [pending EXCEPT !["client"] = Append(@, p)]
      /\ turn' = "server"
      /\ UNCHANGED <<compression, rd, broken, failed, got>>

\* The server answers with n packets of the given lengths and then resets its
\* sequence number (HandleCommand).
Answer(lens) == [k \in DOMAIN lens |-> Payload(k, lens[k])]

RECURSIVE AnswerUnits(_, _)
AnswerUnits(ps, s) ==
  IF ps = <<>> THEN <<>>
  ELSE PacketUnits(Head(ps), s, FALSE) \o AnswerUnits(Tail(ps), s + Parts(Head(ps)))

\* A MySQL server cuts the units of its answer into frames, numbered on from
\* the request's, each compressed or not.
Framed(units, cuts, zips) ==
  LET ends == SetToSortSeq(cuts \cup {Len(units)}, <)
      from(k) == IF k = 1 THEN 1 ELSE ends[k - 1] + 1
  IN  [k \in DOMAIN ends |-> Frame(SubSeq(units, from(k), ends[k]), k, k \in zips)]

ServerWrite(lens) ==
  LET ps == Answer(lens)
      units == AnswerUnits(ps, seq["server"])
  IN  /\ turn = "server" /\ rd["server"] = Idle /\ ~ broken
      /\ pending["client"] = <<>>
      /\ IF compression
         THEN \E cuts \in UNION {kSubset(k, 1 .. Len(units) - 1) : k \in 0 .. MaxFrames - 1} :
              \E zips \in SUBSET (1 .. Cardinality(cuts) + 1) :
                /\ RawAnywhere \/ 1 .. Cardinality(cuts) \subseteq zips
                /\ \A k \in DOMAIN Framed(units, cuts, zips) :
                     Len(Framed(units, cuts, zips)[k]) < FrameHeaderLen + LenMod
                /\ wire' = [wire EXCEPT !["server"] = @ \o FlattenSeq(Framed(units, cuts, zips))]
         ELSE wire' = [wire EXCEPT !["server"] = @ \o units]
      /\ seq' = [seq EXCEPT !["server"] = 0]
      /\ pending' = [pending EXCEPT !["server"] = @ \o ps]
      /\ turn' = "client"
      /\ UNCHANGED <<compression, cseq, active, reader, rd, broken, failed, got>>

(***************************************************************************)
(* Reading: ReadPacketReuseMem, ReadPacketTo and copyN                     *)
(***************************************************************************)
Fail(e) ==
  /\ failed' = failed \cup {e}
  /\ UNCHANGED <<compression, wire, seq, cseq, active, reader, rd, turn, broken, pending, got>>

\* The units of the other end, which e reads.
In(e) == wire[Peer(e)]

\* The protocol says when another packet comes.
Wants(e) == turn = e /\ pending[Peer(e)] # <<>>

ReadPacket(e) ==
  /\ rd[e].pc = "idle" /\ Wants(e) /\ e \notin failed
  /\ e = "server" => ~ compression
  /\ rd' = [rd EXCEPT ![e] = [Idle EXCEPT !.pc = IF compression /\ ~ active THEN "frame" ELSE "copy",
                                          !.need = HeaderLen]]
  /\ UNCHANGED <<compression, wire, seq, cseq, active, reader, turn, broken, failed, pending, got>>

newCompressedPacketReader ==
  LET in == In("client")
  IN  /\ rd["client"].pc = "frame" /\ "client" \notin failed
      /\ Len(in) >= FrameHeaderLen
      /\ in[3] > 0 => Len(in) >= FrameHeaderLen + in[1]
      /\ IF in[2] # cseq THEN Fail("client")
         ELSE
            /\ active' = TRUE
            /\ IF in[3] > 0
               THEN /\ reader' = Inflate(SubSeq(in, FrameHeaderLen + 1, FrameHeaderLen + in[1]))
                    /\ wire' = [wire EXCEPT !["server"] = SubSeq(@, FrameHeaderLen + in[1] + 1, Len(@))]
               ELSE /\ reader' = Raw
                    /\ wire' = [wire EXCEPT !["server"] = SubSeq(@, FrameHeaderLen + 1, Len(@))]
            /\ rd' = [rd EXCEPT !["client"].pc = "copy"]
            /\ UNCHANGED <<compression, seq, cseq, turn, broken, failed, pending, got>>

\* The next frame is expected with the sequence number of the last one.
SameSequence(n) == n

\* The sequence number of the next frame.
NextSequence(n) == (n + 1) % SeqModulus

\* A read waits until the whole buffer can be filled.
BufferReady(e, chunk) == Len(In(e)) >= BufSize

\* io.ReadAtLeast has what it was asked for.
ChunkReady(e, chunk) == Len(In(e)) >= chunk

\* One turn of the loop of copyN.  A compressed reader that ends early makes
\* way for the next frame.
copyN(e) ==
  LET chunk == IF rd[e].need < BufSize THEN rd[e].need ELSE BufSize
      zip == compression /\ reader # Raw
      n == IF zip /\ Len(reader) < chunk THEN Len(reader) ELSE chunk
      units == SubSeq(IF zip THEN reader ELSE In(e), 1, n)
      short == n < chunk
  IN  /\ rd[e].pc = "copy" /\ rd[e].need > 0 /\ e \notin failed
      /\ zip \/ ChunkReady(e, chunk)
      /\ rd' = [rd EXCEPT ![e].need = @ - n,
                          ![e].pc = IF short THEN "frame" ELSE @,
                          ![e].buf = IF rd[e].part = "header" THEN @ \o units ELSE @,
                          ![e].acc = IF rd[e].part = "header" THEN @ ELSE @ \o units]
      /\ cseq' = IF short THEN NextSequence(cseq) ELSE cseq
      /\ IF zip
         THEN reader' = SubSeq(reader, n + 1, Len(reader)) /\ UNCHANGED wire
         ELSE wire' = [wire EXCEPT ![Peer(e)] = SubSeq(@, n + 1, Len(@))] /\ UNCHANGED reader
      /\ UNCHANGED <<compression, seq, active, turn, broken, failed, pending, got>>

\* ReadPacketTo once the header is there.
HeaderRead(e) ==
  /\ rd[e].pc = "copy" /\ rd[e].part = "header" /\ rd[e].need = 0 /\ e \notin failed
  /\ IF rd[e].buf[2] # seq[e] THEN Fail(e)
     ELSE
        /\ seq' = [seq EXCEPT ![e] = (@ + 1) % SeqModulus]
        /\ rd' = [rd EXCEPT ![e].part = "body", ![e].need = rd[e].buf[1], ![e].len = rd[e].buf[1]]
        /\ UNCHANGED <<compression, wire, cseq, active, reader, turn, broken, failed, pending, got>>

\* A full packet is taken for the last one.
BodyReadNoMore(e) ==
  /\ rd[e].pc = "copy" /\ rd[e].part = "body" /\ rd[e].need = 0 /\ e \notin failed
  /\ got' = [got EXCEPT ![Peer(e)] = rd[e].acc]
  /\ pending' = [pending EXCEPT ![Peer(e)] = Tail(@)]
  /\ rd' = [rd EXCEPT ![e] = Idle]
  /\ UNCHANGED <<compression, wire, seq, cseq, active, reader, turn, broken, failed>>

\* ReadPacketTo once the body is there: a full packet is followed by another.
BodyRead(e) ==
  /\ rd[e].pc = "copy" /\ rd[e].part = "body" /\ rd[e].need = 0 /\ e \notin failed
  /\ IF rd[e].len < MaxPayloadLen
     THEN /\ got' = [got EXCEPT ![Peer(e)] = rd[e].acc]
          /\ pending' = [pending EXCEPT ![Peer(e)] = Tail(@)]
          /\ rd' = [rd EXCEPT ![e] = Idle]
     ELSE /\ rd' = [rd EXCEPT ![e].part = "header", ![e].need = HeaderLen, ![e].buf = <<>>]
          /\ UNCHANGED <<got, pending>>
  /\ UNCHANGED <<compression, wire, seq, cseq, active, reader, turn, broken, failed>>

\* A MySQL server reads the frame of a request.
ServerReadFrame ==
  LET in == In("server")
      body == SubSeq(in, FrameHeaderLen + 1, FrameHeaderLen + in[1])
      data == IF in[3] > 0 THEN Inflate(body) ELSE body
  IN  /\ compression /\ turn = "server" /\ "server" \notin failed
      /\ pending["client"] # <<>>
      /\ IF /\ Len(in) >= FrameHeaderLen
            /\ Len(in) = FrameHeaderLen + in[1]
            /\ in[2] = 0 /\ data[2] = 0
         THEN /\ got' = [got EXCEPT !["client"] = SubSeq(data, HeaderLen + 1, Len(data))]
              /\ pending' = [pending EXCEPT !["client"] = Tail(@)]
              /\ wire' = [wire EXCEPT !["client"] = <<>>]
              /\ seq' = [seq EXCEPT !["server"] = 1]
              /\ UNCHANGED <<compression, cseq, active, reader, rd, turn, broken, failed>>
         ELSE Fail("server")

\* The connection breaks and what is on its way is cut anywhere.
Break ==
  /\ ~ broken /\ broken' = TRUE
  /\ \E e \in Ends : \E n \in 0 .. Len(wire[e]) :
       wire' = [wire EXCEPT ![e] = SubSeq(@, 1, n)]
  /\ UNCHANGED <<compression, seq, cseq, active, reader, rd, turn, failed, pending, got>>

\* A read that waits for more than is left ends with ErrBadConn.
ReadBroken(e) ==
  LET in == In(e)
      chunk == IF rd[e].need < BufSize THEN rd[e].need ELSE BufSize
  IN  /\ broken /\ e \notin failed
      /\ \/ /\ rd[e].pc = "frame"
            /\ IF Len(in) < FrameHeaderLen THEN TRUE
               ELSE in[3] > 0 /\ Len(in) < FrameHeaderLen + in[1]
         \/ /\ rd[e].pc = "copy" /\ rd[e].need > 0
            /\ ~ (compression /\ reader # Raw)
            /\ ~ ChunkReady(e, chunk)
      /\ Fail(e)

Read(e) == ReadBroken(e) \/ ReadPacket(e) \/ copyN(e) \/ HeaderRead(e) \/ BodyRead(e)

Next ==
  \/ \E n \in Lengths[compression] : ClientWrite(n)
  \/ \E k \in 1 .. MaxAnswer : \E lens \in [1 .. k -> Lengths[compression]] : ServerWrite(lens)
  \/ \E e \in Ends : Read(e)
  \/ newCompressedPacketReader
  \/ ServerReadFrame
  \/ Break

\* A ReadPacket that has its bytes goes on.
Fairness ==
  /\ \A e \in Ends : WF_vars(Read(e))
  /\ WF_vars(newCompressedPacketReader)
  /\ WF_vars(ServerReadFrame)

Spec == Init /\ [][Next]_vars /\ Fairness

(***************************************************************************)
(* Properties                                                              *)
(***************************************************************************)
\* The two ends agree on sequence numbers: no ReadPacket reports an invalid
\* sequence, whatever the sizes of the packets and the framing of the answer,
\* and a read fails only once the connection is broken.
NoReadFails == failed # {} => broken

\* When the client has read its answer nothing of it is left, neither on the
\* wire nor in the compressed reader: WritePacket may drop the reader.
AnswerConsumed ==
  turn = "client" /\ pending["server"] = <<>> /\ rd["client"] = Idle =>
    wire["server"] = <<>> /\ reader \in {Raw, <<>>}

\* The two ends stay in step, within an answer (NoReadFails) and between
\* requests (AnswerConsumed).
InStep == NoReadFails /\ AnswerConsumed

Channel == INSTANCE PacketChannel

\* Payloads arrive whole, once and in order in both directions, and never in
\* part when the connection breaks, although they are split at MaxPayloadLen,
\* cut into frames and read through copyNBuf.
ChannelSpec == Channel!ChannelSpec

\* Every written payload is read: a reader never waits for a packet that does
\* not come, at a payload of exactly MaxPayloadLen for instance.
AllReceived == \A e \in Ends : pending[e] # <<>> ~> pending[e] = <<>> \/ broken

=============================================================================
