-------------------------------- MODULE Frames --------------------------------
(***************************************************************************)
(* The way of a received frame through net/ethernet.c, net/ipv4.c and      *)
(* net/udp.c to the DHCP client or the terminal, the frames udp_send_      *)
(* packet builds, and the search for an option in a DHCP packet.  Lengths  *)
(* and offsets are in bytes, as in the code; of the contents of a frame    *)
(* only the fields are kept that decide where it goes and how long it is.  *)
(*                                                                         *)
(* A frame is [ethertype, version, ihl, total_len, protocol, src_port,     *)
(* dst_port, udp_len]: ihl is the header length field in 32-bit words.     *)
(***************************************************************************)
EXTENDS Integers, Sequences

ETHERNET_HEADER == 14
UDP_HEADER == 8
MAX_PAYLOAD == 1472

Smaller(a, b) == IF a < b THEN a ELSE b
Word16(n) == n % 65536
IsWord16(n) == n \in Nat /\ n < 65536

\* A frame with any values in its length fields.
AnyLengths(f) == f.ihl \in 0 .. 15 /\ IsWord16(f.total_len) /\ IsWord16(f.udp_len)

\* A payload is the bytes from `from` of the frame on, len of them.
Ignored == [to |-> "nobody", from |-> 0, len |-> 0]
Payload(to, from, len) == [to |-> to, from |-> from, len |-> len]

-----------------------------------------------------------------------------
(* Receiving; start is the offset of the packet in the frame, len its length *)

\* Slip: the length field believed.
UdpLength_trusting(f, len) == f.udp_len

\* A length field that is too small or too large is not believed.
UdpLength(f, len) == IF f.udp_len < UDP_HEADER \/ f.udp_len > len THEN Word16(len) ELSE f.udp_len

udp_receive_packet(f, start, len) ==
    IF len < UDP_HEADER THEN Ignored
    ELSE IF f.src_port = "67" /\ f.dst_port = "68"
         THEN Payload("dhcp", start + UDP_HEADER, UdpLength(f, len) - UDP_HEADER)
    ELSE IF f.dst_port = "text"
         THEN Payload("terminal", start + UDP_HEADER, UdpLength(f, len) - UDP_HEADER)
    ELSE Ignored

IpLength(f, len) == IF f.total_len > len THEN Word16(len) ELSE f.total_len

ipv4_receive_packet(f, start, len) ==
    LET ihl == f.ihl * 4
    IN  IF \/ len < 20 \/ f.version # 4
           \/ ihl < 20 \/ len < ihl
           \/ f.total_len < ihl
           \/ f.protocol # 17 \/ IpLength(f, len) < ihl + UDP_HEADER
        THEN Ignored
        ELSE udp_receive_packet(f, start + ihl, IpLength(f, len) - ihl)

ethernet_receive_frame(f, len) ==
    IF len < ETHERNET_HEADER \/ f.ethertype # 2048 THEN Ignored
    ELSE ipv4_receive_packet(f, ETHERNET_HEADER, len - ETHERNET_HEADER)

-----------------------------------------------------------------------------
(* Sending *)

Sendable(len) == len <= MAX_PAYLOAD

\* The frame around a payload of len bytes, and its length.
udp_send_packet(src_port, dst_port, len) ==
    [ethertype |-> 2048, version |-> 4, ihl |-> 5, total_len |-> Word16(20 + UDP_HEADER + len),
     protocol |-> 17, src_port |-> src_port, dst_port |-> dst_port,
     udp_len |-> Word16(UDP_HEADER + len)]
SentLength(len) == ETHERNET_HEADER + Word16(20 + UDP_HEADER + len)

-----------------------------------------------------------------------------
(* DHCP options: a sequence of bytes; an option is a code, a length, and as *)
(* many bytes; code 0 stands alone and code 255 ends them.                  *)

None == [at |-> 0, len |-> 0]

\* Slip: a padding byte taken for an option with a length.
dhcp_find_option_unpadded(options, code) ==
    LET find[offset \in 1 .. Len(options) + 256] ==
            IF offset > Len(options) \/ options[offset] = 255 THEN None
            ELSE IF offset + 1 > Len(options) THEN None
            ELSE IF offset + 1 + options[offset + 1] > Len(options) THEN None
            ELSE IF options[offset] = code THEN [at |-> offset + 2, len |-> options[offset + 1]]
            ELSE find[offset + 2 + options[offset + 1]]
    IN  find[1]

\* The option with that code: where its bytes begin and how many they are.
dhcp_find_option(options, code) ==
    LET find[offset \in 1 .. Len(options) + 256] ==
            IF offset > Len(options) \/ options[offset] = 255 THEN None
            ELSE IF options[offset] = 0 THEN find[offset + 1]
            ELSE IF offset + 1 > Len(options) THEN None
            ELSE IF offset + 1 + options[offset + 1] > Len(options) THEN None
            ELSE IF options[offset] = code THEN [at |-> offset + 2, len |-> options[offset + 1]]
            ELSE find[offset + 2 + options[offset + 1]]
    IN  find[1]
=============================================================================
