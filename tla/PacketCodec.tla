----------------------------- MODULE PacketCodec -----------------------------
(***************************************************************************)
(* The framing of the multiplexer's packets: encode_packet and             *)
(* decode_all_packet of lib/kpacket.cpp.                                   *)
(*                                                                         *)
(* A packet is its opcode, its id, one byte of length and, when that byte  *)
(* is one of the two largest, a length of 2 or 4 bytes in network order;   *)
(* then the body.  The program has Base = 256: 0xFE and 0xFF announce the  *)
(* extensions and 1 << 16 is Base * Base.  A smaller Base keeps the three  *)
(* forms with short bodies.                                                *)
(***************************************************************************)
EXTENDS Naturals, Sequences

CONSTANT Base  \* the number of values of a byte

ASSUME BaseAssumption == Base \in Nat /\ Base > 2

Byte == 0 .. Base - 1
FE == Base - 2
FF == Base - 1
Wide == Base * Base  \* the lengths from here on need 4 bytes

Packets == [op : Byte, id : Byte, body : Seq(Byte)]

HeaderOfLength(len) ==
    IF len < FE THEN <<len>>
    ELSE IF len < Wide THEN <<FE, len \div Base, len % Base>>
    ELSE <<FF, len \div (Wide * Base), (len \div Wide) % Base,
               (len \div Base) % Base, len % Base>>

Encode(p) == <<p.op, p.id>> \o HeaderOfLength(Len(p.body)) \o p.body

-----------------------------------------------------------------------------
(* What decode_packet makes of the bytes held and received, buf.  The length   *)
(* of the header is known from its third byte on.                              *)

HeaderSize(buf) == CASE buf[3] = FE -> 5 [] buf[3] = FF -> 7 [] OTHER -> 3

BodySize(buf) ==
    CASE buf[3] = FE -> buf[4] * Base + buf[5]
      [] buf[3] = FF -> ((buf[4] * Base + buf[5]) * Base + buf[6]) * Base + buf[7]
      [] OTHER -> buf[3]

HasHeader(buf) == Len(buf) >= 3 /\ Len(buf) >= HeaderSize(buf)

\* An extension that the encoder would not have chosen is an error.
BadHeader(buf) ==
    /\ HasHeader(buf)
    /\ \/ buf[3] = FE /\ BodySize(buf) < FE
       \/ buf[3] = FF /\ BodySize(buf) < Wide

PacketSize(buf) == HeaderSize(buf) + BodySize(buf)

Finished(buf) == HasHeader(buf) /\ ~ BadHeader(buf) /\ Len(buf) >= PacketSize(buf)

From(buf, k) == SubSeq(buf, k + 1, Len(buf))

FirstPacket(buf) ==
    [op |-> buf[1], id |-> buf[2], body |-> SubSeq(buf, HeaderSize(buf) + 1, PacketSize(buf))]

\* Variant for the property tests: what follows the whole packets is dropped.
DecodeWhole(buf) ==
    LET tail[k \in 0 .. Len(buf)] ==
            LET rest == From(buf, k)
                next == tail[k + PacketSize(rest)]
            IN  IF Finished(rest)
                THEN [next EXCEPT !.packets = <<FirstPacket(rest)>> \o @]
                ELSE [noerror |-> ~ BadHeader(rest), packets |-> <<>>, remain |-> <<>>]
    IN  tail[0]

\* decode_all_packet: the packets that are whole, what remains, and whether a header is
\* bad.  On an error the caller drops the packets that came before it.
DecodeAll(buf) ==
    LET tail[k \in 0 .. Len(buf)] ==
            LET rest == From(buf, k)
                next == tail[k + PacketSize(rest)]
            IN  IF Finished(rest)
                THEN [next EXCEPT !.packets = <<FirstPacket(rest)>> \o @]
                ELSE [noerror |-> ~ BadHeader(rest), packets |-> <<>>, remain |-> rest]
    IN  tail[0]
=============================================================================
