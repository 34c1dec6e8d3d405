------------------------------ MODULE MCPacket ------------------------------
(***************************************************************************)
(* Payloads of up to two and a half packets, sequence numbers that wrap    *)
(* within one answer, a copy buffer smaller than a packet.                 *)
(***************************************************************************)
EXTENDS Packet

\* Compressed requests and answers stay below MaxPayloadLen less the header:
\* longer ones leave WritePacket uncompressed or with a wrapped length.
MCLengths == [c \in BOOLEAN |-> IF c THEN {0, 3} ELSE {0, 7, 15}]

=============================================================================
