---------------------------- MODULE Rtl8139Proofs -----------------------------
(***************************************************************************)
(* Theorems about Frames and Rtl8139, for rings, frames, transmit slots    *)
(* and senders of any size and number: what is handed on lies in its       *)
(* frame, the receive ring is a queue of frames, frames go out whole, and  *)
(* a DHCP option that is found is the first there is.                      *)
(***************************************************************************)
EXTENDS Rtl8139, Induction

-----------------------------------------------------------------------------
(* What Frames promises for frames of every length and every length field. *)

LEMMA Word16Keeps ==
  ASSUME NEW n \in Nat, n < 65536
  PROVE  Word16(n) = n
BY DEF Word16

(* A UDP payload lies in its packet.                                           *)
LEMMA UdpWithin ==
  ASSUME NEW f, AnyLengths(f), NEW start \in Nat, NEW len \in Nat, len < 65536,
         udp_receive_packet(f, start, len) # Ignored
  PROVE  /\ udp_receive_packet(f, start, len).from = start + 8
         /\ udp_receive_packet(f, start, len).len \in Nat
         /\ udp_receive_packet(f, start, len).len + 8 <= len
<1>1. len >= 8
  BY DEF udp_receive_packet, UDP_HEADER
<1>2. UdpLength(f, len) \in 8 .. len
  BY <1>1, Word16Keeps DEF UdpLength, UDP_HEADER, AnyLengths, IsWord16
<1>3. \E to \in {"dhcp", "terminal"} :
          udp_receive_packet(f, start, len) = Payload(to, start + 8, UdpLength(f, len) - 8)
  BY <1>1 DEF udp_receive_packet, UDP_HEADER
<1> QED
  BY <1>2, <1>3 DEF Payload

(* An IPv4 payload lies in its packet.                                         *)
LEMMA IpWithin ==
  ASSUME NEW f, AnyLengths(f), NEW start \in Nat, NEW len \in Nat, len < 65536,
         ipv4_receive_packet(f, start, len) # Ignored
  PROVE  /\ ipv4_receive_packet(f, start, len).from \in Nat
         /\ ipv4_receive_packet(f, start, len).len \in Nat
         /\ ipv4_receive_packet(f, start, len).from + ipv4_receive_packet(f, start, len).len
                <= start + len
<1> DEFINE ihl == f.ihl * 4
           rest == IpLength(f, len) - ihl
<1>1. IpLength(f, len) \in 0 .. len
  BY Word16Keeps DEF IpLength, AnyLengths, IsWord16
<1>2. ihl \in Nat
  BY DEF AnyLengths
<1>3. /\ ipv4_receive_packet(f, start, len) = udp_receive_packet(f, start + ihl, rest)
      /\ ~(IpLength(f, len) < ihl + 8)
  BY DEF ipv4_receive_packet, UDP_HEADER
<1>4. rest \in Nat /\ rest < 65536 /\ start + ihl \in Nat /\ ihl + rest <= len
  BY <1>1, <1>2, <1>3
<1> HIDE DEF ihl, rest
<1>5. /\ udp_receive_packet(f, start + ihl, rest).from = (start + ihl) + 8
      /\ udp_receive_packet(f, start + ihl, rest).len \in Nat
      /\ udp_receive_packet(f, start + ihl, rest).len + 8 <= rest
  BY <1>3, <1>4, UdpWithin
<1> QED
  BY <1>2, <1>3, <1>4, <1>5

(* Whatever its length fields say, the payload of a frame lies in the frame    *)
(* that was received: no byte behind it is handed on (ethernet.c lines 8-21,   *)
(* ipv4.c lines 31-58, udp.c lines 82-115).                                    *)
THEOREM PayloadLiesInFrame ==
  ASSUME NEW f, AnyLengths(f), NEW len \in Nat, len < 65536,
         ethernet_receive_frame(f, len) # Ignored
  PROVE  /\ ethernet_receive_frame(f, len).from \in Nat
         /\ ethernet_receive_frame(f, len).len \in Nat
         /\ ethernet_receive_frame(f, len).from + ethernet_receive_frame(f, len).len <= len
<1>1. /\ len - 14 \in Nat
      /\ ethernet_receive_frame(f, len) = ipv4_receive_packet(f, 14, len - 14)
  BY DEF ethernet_receive_frame, ETHERNET_HEADER
<1> DEFINE rest == len - 14
<1>2. rest + 14 = len
  OBVIOUS
<1> HIDE DEF rest
<1> QED
  BY <1>1, <1>2, IpWithin DEF rest

(* A text that udp_send_packet sends is received as it was sent, its length    *)
(* unspoilt by the 16-bit fields it went through and by what the network pads  *)
(* a short frame with (udp.c lines 38-80 and 82-115).                          *)
THEOREM TextArrives ==
  ASSUME NEW port, NEW len \in Nat, Sendable(len), NEW padding \in Nat
  PROVE  ethernet_receive_frame(udp_send_packet(port, "text", len), SentLength(len) + padding)
             = Payload("terminal", 42, len)
<1> DEFINE f == udp_send_packet(port, "text", len)
           total == 28 + len
<1>1. len <= 1472
  BY DEF Sendable, MAX_PAYLOAD
<1>2. total \in Nat /\ total >= 28 /\ total < 1501 /\ Word16(total) = total /\ Word16(8 + len) = 8 + len
  BY <1>1, Word16Keeps
<1>3. SentLength(len) = 14 + total
  BY <1>2 DEF SentLength, UDP_HEADER, ETHERNET_HEADER
<1>4. f = [ethertype |-> 2048, version |-> 4, ihl |-> 5, total_len |-> total, protocol |-> 17,
           src_port |-> port, dst_port |-> "text", udp_len |-> 8 + len]
  BY <1>2 DEF udp_send_packet, UDP_HEADER
<1>5. f.ethertype = 2048 /\ f.version = 4 /\ f.ihl = 5 /\ f.total_len = total /\ f.protocol = 17
      /\ f.src_port = port /\ f.dst_port = "text" /\ f.udp_len = 8 + len
  BY <1>4
<1> HIDE DEF f
<1>6. udp_receive_packet(f, 34, 8 + len) = Payload("terminal", 42, len)
  <2>1. UdpLength(f, 8 + len) = 8 + len
    BY <1>5 DEF UdpLength, UDP_HEADER
  <2> QED
    BY <1>5, <2>1 DEF udp_receive_packet, UDP_HEADER
<1>7. ipv4_receive_packet(f, 14, total + padding) = udp_receive_packet(f, 34, 8 + len)
  <2>1. IpLength(f, total + padding) = total
    BY <1>2, <1>5 DEF IpLength
  <2> QED
    BY <1>2, <1>5, <2>1 DEF ipv4_receive_packet, UDP_HEADER
<1>8. ethernet_receive_frame(f, 14 + total + padding) = ipv4_receive_packet(f, 14, total + padding)
  <2>1. (14 + total + padding) - 14 = total + padding /\ ~(14 + total + padding < 14)
    BY <1>2
  <2> QED
    BY <1>5, <2>1 DEF ethernet_receive_frame, ETHERNET_HEADER
<1> QED
  BY <1>3, <1>6, <1>7, <1>8 DEF f

-----------------------------------------------------------------------------
(* The receive ring is a queue of frames.                                  *)

USE DEF boot, flags, receiving, handling, buffers, sender, transmitting

(* The room a frame takes in the ring.                                         *)
Size(len) == Aligned(len + 4)

(* A frame that was handed on but lies in the ring still.                      *)
InPlace ==
    \/ pc \in {"reply", "advance"}
    \/ back = "advance" /\ pc \in {"take_slot", "copy_first", "copy_second", "start"}

(* How many frames are out of the ring.                                        *)
Taken == IF InPlace THEN Len(delivered) - 1 ELSE Len(delivered)

(* The place d bytes behind the card's cursor w.                               *)
Behind(w, d) == IF d <= w THEN w - d ELSE w - d + RING

(* b[k] is how far behind the card's cursor frame k begins, and b[n + 1] = 0.  *)
(* The frames not yet taken fill less than the ring, the driver is at the      *)
(* first of them, and their headers are whole.                                 *)
Laid(b) ==
    /\ b \in [1 .. Len(accepted) + 1 -> Nat]
    /\ b[Len(accepted) + 1] = 0
    /\ \A k \in 1 .. Len(accepted) : b[k] = b[k + 1] + Size(accepted[k].len)
    /\ \A j, k \in 1 .. Len(accepted) + 1 : j < k => b[j] >= b[k] + 4
    /\ b[Taken + 1] < RING
    /\ rx_cur = Behind(write_at, b[Taken + 1])
    /\ \A k \in Taken + 1 .. Len(accepted) :
           [at |-> Behind(write_at, b[k]), frame |-> accepted[k]] \in headers

Layout ==
    /\ read_at = rx_cur
    /\ write_at % 4 = 0 /\ rx_cur % 4 = 0
    /\ pc = "scan" => rx_cur = 0
    /\ \A g, h \in headers : g.at = h.at => g = h
    /\ \E b : Laid(b)

Progress ==
    /\ Len(delivered) <= Len(accepted)
    /\ \A i \in 1 .. Len(delivered) : delivered[i] = accepted[i]
    /\ pc = "handle" => /\ Len(delivered) < Len(accepted)
                        /\ packet = accepted[Len(delivered) + 1]
                        /\ Acceptable(packet)
    /\ InPlace => Len(delivered) > 0 /\ packet = accepted[Len(delivered)]
    /\ payload # Ignored => pc \in {"reply", "advance"}

IInv == TypeOK /\ Progress /\ Layout /\ PayloadWithinFrame

-----------------------------------------------------------------------------
(* Arithmetic of the ring *)

LEMMA RemainderIn ==
  ASSUME NEW n \in Int, NEW m \in Nat \ {0}
  PROVE  n % m \in 0 .. m - 1
OBVIOUS

LEMMA OnceAround ==
  ASSUME NEW n \in Nat, n < 2 * RING
  PROVE  n % RING = IF n < RING THEN n ELSE n - RING
BY RingAssumption

(* A frame is stored and read with its header, and rounded up to four bytes.   *)
LEMMA SizeIs ==
  ASSUME NEW len \in Nat
  PROVE  /\ Size(len) \in Nat /\ Size(len) % 4 = 0
         /\ Size(len) >= len + 4 /\ Size(len) <= len + 7
         /\ \A w \in Nat : w % 4 = 0 => /\ Aligned(w + 4 + len) = w + Size(len)
                                        /\ Aligned(w + len + 4) = w + Size(len)
BY DEF Size, Aligned

LEMMA SizeFits ==
  ASSUME NEW len \in PacketLengths
  PROVE  Size(len) \in Nat /\ Size(len) < RING
<1>1. len \in Nat /\ RING \in Nat /\ len + 8 <= RING
  BY RingAssumption
<1>2. Size(len) \in Nat /\ Size(len) <= len + 7
  BY <1>1, SizeIs
<1> QED
  BY <1>1, <1>2

(* The driver's cursor survives being written to CAPR, 16 too low in 16 bits.  *)
LEMMA CaprKeeps ==
  ASSUME NEW place \in Nat, place < RING
  PROVE  ReadFrom(Capr(place)) = place
<1>1. RING \in Nat \ {0} /\ RING <= 65536
  BY RingAssumption
<1>2. Capr(place) = IF place < 16 THEN place + 65520 ELSE place - 16
  BY <1>1 DEF Capr, Word16
<1>3. Word16(Capr(place) + 16) = place
  BY <1>1, <1>2 DEF Word16
<1> QED
  BY <1>1, <1>3, OnceAround DEF ReadFrom

(* A place s bytes on is that much less behind the card's cursor.              *)
LEMMA BehindAdvances ==
  ASSUME NEW w \in Nat, w < RING, NEW d \in Nat, d < RING, NEW s \in Nat, s <= d
  PROVE  (Behind(w, d) + s) % RING = Behind(w, d - s)
<1>1. RING \in Nat \ {0}
  BY RingAssumption
<1>2. Behind(w, d) \in Nat /\ Behind(w, d) < RING
  BY <1>1 DEF Behind
<1>3. (Behind(w, d) + s) % RING = IF Behind(w, d) + s < RING THEN Behind(w, d) + s
                                  ELSE Behind(w, d) + s - RING
  BY <1>1, <1>2, OnceAround
<1> QED
  BY <1>1, <1>3 DEF Behind

(* When the card's cursor moves s bytes on, a place is that much more behind.  *)
LEMMA BehindKeeps ==
  ASSUME NEW w \in Nat, w < RING, NEW d \in Nat, NEW s \in Nat, d + s < RING
  PROVE  Behind((w + s) % RING, d + s) = Behind(w, d)
<1>1. RING \in Nat \ {0}
  BY RingAssumption
<1>2. (w + s) % RING = IF w + s < RING THEN w + s ELSE w + s - RING
  BY <1>1, OnceAround
<1> QED
  BY <1>1, <1>2 DEF Behind

-----------------------------------------------------------------------------
(* The frame at the head of the ring *)

LEMMA FrameFields ==
  ASSUME NEW frame \in FramesIn
  PROVE  frame.len \in PacketLengths /\ frame.len \in Nat
<1>1. frame.len \in PacketLengths
  BY DEF FramesIn
<1>2. \A len \in PacketLengths : len \in Nat
  BY RingAssumption
<1> QED
  BY <1>1, <1>2

LEMMA RingTypes ==
  ASSUME TypeOK
  PROVE  /\ RING \in Nat \ {0}
         /\ write_at \in Nat /\ write_at < RING
         /\ read_at \in Nat /\ read_at < RING
         /\ rx_cur \in Nat /\ rx_cur < RING
         /\ accepted \in Seq(FramesIn) /\ Len(accepted) \in Nat
         /\ delivered \in Seq(FramesIn) /\ Len(delivered) \in Nat
<1>1. RING \in Nat \ {0}
  BY RingAssumption
<1>2. write_at \in 0 .. RING - 1 /\ read_at \in 0 .. RING - 1 /\ rx_cur \in 0 .. RING - 1
  BY DEF TypeOK
<1>3. accepted \in Seq(FramesIn) /\ delivered \in Seq(FramesIn)
  BY DEF TypeOK
<1> QED
  BY <1>1, <1>2, <1>3

LEMMA TakenIs ==
  ASSUME TypeOK, Progress
  PROVE  Taken \in Nat /\ Taken <= Len(accepted)
BY RingTypes DEF Progress, Taken

(* Where the driver reads is the header of the first frame not taken.          *)
LEMMA HeadOfRing ==
  ASSUME IInv, Taken < Len(accepted)
  PROVE  FrameAt(rx_cur % RING) = accepted[Taken + 1]
<1>1. PICK b : Laid(b)
  BY DEF IInv, Layout
<1> DEFINE head == [at |-> Behind(write_at, b[Taken + 1]), frame |-> accepted[Taken + 1]]
<1>2. TypeOK /\ Progress /\ Layout
  BY DEF IInv
<1>3. Taken + 1 \in Taken + 1 .. Len(accepted)
  BY <1>2, TakenIs, RingTypes
<1>4. head \in headers /\ head.at = rx_cur /\ head.frame = accepted[Taken + 1]
  BY <1>1, <1>3 DEF Laid
<1>5. rx_cur % RING = rx_cur
  <2>1. rx_cur \in Nat /\ RING \in Nat \ {0} /\ rx_cur < RING
    BY <1>2, RingTypes
  <2>2. rx_cur < 2 * RING
    BY <2>1
  <2>3. rx_cur % RING = IF rx_cur < RING THEN rx_cur ELSE rx_cur - RING
    BY <2>1, <2>2, OnceAround
  <2> QED
    BY <2>1, <2>3
<1> HIDE DEF head
<1>6. \A h \in headers : h.at = rx_cur => h = head
  BY <1>2, <1>4 DEF Layout
<1> QED
  BY <1>4, <1>5, <1>6 DEF FrameAt

(* A ring that is not empty holds a frame.                                     *)
LEMMA NotEmpty ==
  ASSUME IInv, ~Empty
  PROVE  Taken < Len(accepted)
<1>1. PICK b : Laid(b)
  BY DEF IInv, Layout
<1>2. b[Taken + 1] # 0
  BY <1>1, RingTypes DEF IInv, Layout, Laid, Empty, Behind
<1> QED
  BY <1>1, <1>2, TakenIs, RingTypes DEF IInv, Laid

-----------------------------------------------------------------------------
(* The layout of the ring is kept *)

LEMMA LaidQuiet ==
  ASSUME Layout, Taken' = Taken, UNCHANGED <<headers, write_at, read_at, accepted, rx_cur>>,
         pc' = "scan" => pc = "scan"
  PROVE  Layout'
<1>1. \A b : Laid(b) => Laid(b)'
  BY DEF Laid
<1> QED
  BY <1>1 DEF Layout

(* What is free in front of the driver's cursor, d bytes behind the card's.    *)
LEMMA FreeIs ==
  ASSUME NEW w \in Nat, w < RING, NEW d \in Nat, d < RING, d # 0
  PROVE  (RING + Behind(w, d) - w) % RING = RING - d
<1>1. RING \in Nat \ {0}
  BY RingAssumption
<1> DEFINE gap == RING + Behind(w, d) - w
<1>2. gap = IF d <= w THEN RING - d ELSE 2 * RING - d
  BY <1>1 DEF Behind
<1> HIDE DEF gap
<1>3. gap % RING = IF gap < RING THEN gap ELSE gap - RING
  BY <1>1, <1>2, OnceAround
<1> QED
  BY <1>1, <1>2, <1>3 DEF gap

(* The places once a frame of s bytes is stored: s further behind.             *)
LEMMA Shifted ==
  ASSUME NEW n \in Nat, NEW s \in Nat, s >= 4,
         NEW b \in [1 .. n + 1 -> Nat], b[n + 1] = 0,
         \A j, k \in 1 .. n + 1 : j < k => b[j] >= b[k] + 4,
         NEW c, c = [k \in 1 .. n + 2 |-> IF k <= n + 1 THEN b[k] + s ELSE 0]
  PROVE  /\ c \in [1 .. n + 2 -> Nat] /\ c[n + 2] = 0 /\ c[n + 1] = s
         /\ \A k \in 1 .. n + 1 : c[k] = b[k] + s
         /\ \A j, k \in 1 .. n + 2 : j < k => c[j] >= c[k] + 4
<1>1. \A k \in 1 .. n + 1 : b[k] \in Nat /\ c[k] = b[k] + s
  OBVIOUS
<1>2. c[n + 2] = 0 /\ c[n + 1] = s
  OBVIOUS
<1>3. c \in [1 .. n + 2 -> Nat]
  OBVIOUS
<1>4. ASSUME NEW j \in 1 .. n + 2, NEW k \in 1 .. n + 2, j < k
      PROVE  c[j] >= c[k] + 4
  <2>1. j \in 1 .. n + 1
    BY <1>4
  <2>2. CASE k = n + 2
    BY <1>1, <1>2, <2>1, <2>2
  <2>3. CASE k # n + 2
    <3>1. k \in 1 .. n + 1 /\ b[j] >= b[k] + 4
      BY <1>4, <2>1, <2>3
    <3> QED
      BY <1>1, <2>1, <3>1
  <2> QED
    BY <2>2, <2>3
<1> QED
  BY <1>1, <1>2, <1>3, <1>4

LEMMA LaidStore ==
  ASSUME IInv, NEW len \in PacketLengths, CardStores(len)
  PROVE  Layout'
<1>1. PICK b : Laid(b)
  BY DEF IInv, Layout
<1>2. TypeOK /\ Progress /\ Layout
  BY DEF IInv
<1> DEFINE n == Len(accepted)
           t == Taken
           frame == [id |-> n + 1, len |-> len]
           s == Size(len)
           w == (write_at + s) % RING
           kept == {h \in headers : ~Overwrites(len, h)}
           new == [at |-> write_at, frame |-> frame]
<1>3. n \in Nat /\ t \in Nat /\ t <= n
  BY <1>2, TakenIs, RingTypes
<1>4. write_at \in Nat /\ write_at < RING /\ RING \in Nat \ {0}
  BY <1>2, RingTypes
<1>5. len \in Nat /\ s \in Nat /\ s >= len + 4 /\ s < RING /\ s % 4 = 0
  <2>1. len \in Nat
    BY RingAssumption
  <2> QED
    BY <2>1, SizeIs, SizeFits
<1>6. Taken' = t /\ read_at' = read_at /\ rx_cur' = rx_cur /\ pc' = pc
  BY DEF CardStores, Taken, InPlace
<1>7. accepted' = Append(accepted, frame) /\ headers' = kept \cup {new}
  BY DEF CardStores
<1>8. write_at' = w
  <2>1. Aligned(write_at + 4 + len) = write_at + s
    BY <1>2, <1>4, <1>5, SizeIs DEF Layout
  <2> QED
    BY <2>1 DEF CardStores
<1>9. Len(accepted') = n + 1 /\ accepted'[n + 1] = frame /\ \A k \in 1 .. n : accepted'[k] = accepted[k]
  BY <1>2, <1>7, RingTypes
<1>10. \A k \in 1 .. n : accepted[k].len \in Nat
  BY <1>2, RingTypes, FrameFields
<1>11. frame.len = len
  OBVIOUS
<1>12. s = Size(len)
  OBVIOUS
<1>13. /\ b \in [1 .. n + 1 -> Nat] /\ b[n + 1] = 0
       /\ \A k \in 1 .. n : b[k] = b[k + 1] + Size(accepted[k].len)
       /\ \A j, k \in 1 .. n + 1 : j < k => b[j] >= b[k] + 4
       /\ b[t + 1] < RING
       /\ rx_cur = Behind(write_at, b[t + 1])
       /\ \A k \in t + 1 .. n : [at |-> Behind(write_at, b[k]), frame |-> accepted[k]] \in headers
  BY <1>1 DEF Laid
<1>14. (Empty \/ s < Free) /\ read_at = rx_cur
  BY <1>2 DEF CardStores, Size, Layout
<1> HIDE DEF n, t, frame, s
<1>15. b[t + 1] + s < RING
  <2>1. b[t + 1] \in Nat
    BY <1>3, <1>13
  <2>2. CASE b[t + 1] = 0
    BY <1>5, <2>2
  <2>3. CASE b[t + 1] # 0
    <3>1. ~Empty
      BY <1>4, <1>13, <1>14, <2>1, <2>3 DEF Empty, Behind
    <3>2. Free = RING - b[t + 1]
      <4>1. (RING + Behind(write_at, b[t + 1]) - write_at) % RING = RING - b[t + 1]
        BY <1>4, <1>13, <2>1, <2>3, FreeIs
      <4>2. read_at = Behind(write_at, b[t + 1])
        BY <1>13, <1>14
      <4> QED
        BY <4>1, <4>2 DEF Free
    <3>3. s < RING - b[t + 1]
      BY <1>14, <3>1, <3>2
    <3> QED
      BY <1>4, <1>5, <2>1, <3>3
  <2> QED
    BY <2>2, <2>3
<1>16. \A k \in t + 1 .. n + 1 : k \in 1 .. n + 1 /\ b[k] \in Nat /\ b[k] + s < RING
  <2> SUFFICES ASSUME NEW k \in t + 1 .. n + 1
               PROVE  k \in 1 .. n + 1 /\ b[k] \in Nat /\ b[k] + s < RING
    OBVIOUS
  <2>1. k \in 1 .. n + 1 /\ t + 1 \in 1 .. n + 1 /\ (k = t + 1 \/ t + 1 < k)
    BY <1>3
  <2>2. b[k] \in Nat /\ b[t + 1] \in Nat /\ b[k] <= b[t + 1]
    BY <1>13, <2>1
  <2> QED
    BY <1>4, <1>5, <1>15, <2>1, <2>2
<1>a. PICK c : c = [k \in 1 .. n + 2 |-> IF k <= n + 1 THEN b[k] + s ELSE 0]
  OBVIOUS
<1>17. /\ c \in [1 .. n + 2 -> Nat] /\ c[n + 2] = 0 /\ c[n + 1] = s
       /\ \A k \in 1 .. n + 1 : c[k] = b[k] + s
       /\ \A j, k \in 1 .. n + 2 : j < k => c[j] >= c[k] + 4
  <2>1. n \in Nat /\ s \in Nat /\ s >= 4
    BY <1>3, <1>5
  <2>2. b \in [1 .. n + 1 -> Nat] /\ b[n + 1] = 0
    BY <1>13
  <2>3. \A j, k \in 1 .. n + 1 : j < k => b[j] >= b[k] + 4
    BY <1>13
  <2> HIDE DEF w, kept
  <2> QED
    BY <1>a, <2>1, <2>2, <2>3, Shifted
<1>18. ASSUME NEW k \in t + 1 .. n + 1
       PROVE  Behind(w, c[k]) = Behind(write_at, b[k])
  <2>1. b[k] \in Nat /\ b[k] + s < RING /\ c[k] = b[k] + s
    BY <1>16, <1>17
  <2>2. Behind((write_at + s) % RING, b[k] + s) = Behind(write_at, b[k])
    BY <1>4, <1>5, <2>1, BehindKeeps
  <2> QED
    BY <2>1, <2>2
<1> HIDE DEF w
<1>19. \A k \in t + 1 .. n : [at |-> Behind(write_at, b[k]), frame |-> accepted[k]] \in kept
  <2> SUFFICES ASSUME NEW k \in t + 1 .. n
               PROVE  ~Overwrites(len, [at |-> Behind(write_at, b[k]), frame |-> accepted[k]])
    BY <1>13
  <2>1. k \in t + 1 .. n + 1 /\ k \in 1 .. n + 1 /\ n + 1 \in 1 .. n + 1 /\ k < n + 1
    BY <1>3
  <2>2. b[k] \in Nat /\ b[k] >= 4 /\ b[k] + s < RING
    BY <1>13, <1>16, <2>1
  <2> QED
    BY <1>4, <1>5, <2>2 DEF Overwrites, Behind
<1>20. \A h \in kept : h \in headers /\ h.at # write_at
  <2> SUFFICES ASSUME NEW h \in kept, h.at = write_at PROVE FALSE
    OBVIOUS
  <2> QED
    BY <1>4, <1>5 DEF Overwrites
<1> HIDE DEF kept
<1>21. Laid(c)'
  <2>1. Len(accepted') + 1 = n + 2
    BY <1>3, <1>9
  <2>2. \A k \in 1 .. n + 1 : c[k] = c[k + 1] + Size(accepted'[k].len)
    <3>1. ASSUME NEW k \in 1 .. n
          PROVE  c[k] = c[k + 1] + Size(accepted'[k].len)
      <4>1. k \in 1 .. n + 1 /\ k + 1 \in 1 .. n + 1
        BY <1>3
      <4>2. b[k] = b[k + 1] + Size(accepted[k].len) /\ b[k + 1] \in Nat
        BY <1>13, <4>1
      <4>3. Size(accepted[k].len) \in Nat
        BY <1>10, SizeIs
      <4>4. c[k] = b[k] + s /\ c[k + 1] = b[k + 1] + s /\ accepted'[k] = accepted[k]
        BY <1>9, <1>17, <4>1
      <4> QED
        BY <1>5, <4>2, <4>3, <4>4
    <3>2. c[n + 1] = c[n + 2] + Size(accepted'[n + 1].len)
      BY <1>5, <1>9, <1>11, <1>12, <1>17
    <3>3. n + 2 = (n + 1) + 1
      BY <1>3
    <3> QED
      BY <1>3, <3>1, <3>2, <3>3
  <2>3. c[t + 1] < RING /\ rx_cur' = Behind(w, c[t + 1])
    <3>1. t + 1 \in t + 1 .. n + 1 /\ t + 1 \in 1 .. n + 1
      BY <1>3
    <3> QED
      BY <1>6, <1>13, <1>15, <1>17, <1>18, <3>1
  <2>4. \A k \in t + 1 .. n + 1 : [at |-> Behind(w, c[k]), frame |-> accepted'[k]] \in headers'
    <3>1. ASSUME NEW k \in t + 1 .. n
          PROVE  [at |-> Behind(w, c[k]), frame |-> accepted'[k]] \in headers'
      <4>1. k \in t + 1 .. n + 1 /\ k \in 1 .. n
        BY <1>3
      <4> QED
        BY <1>7, <1>9, <1>18, <1>19, <4>1
    <3>2. [at |-> Behind(w, c[n + 1]), frame |-> accepted'[n + 1]] \in headers'
      <4>1. n + 1 \in t + 1 .. n + 1
        BY <1>3
      <4>2. Behind(w, c[n + 1]) = write_at
        BY <1>4, <1>13, <1>18, <4>1 DEF Behind
      <4> QED
        BY <1>7, <1>9, <4>2
    <3> QED
      BY <1>3, <3>1, <3>2
  <2> QED
    BY <1>6, <1>8, <1>9, <1>17, <2>1, <2>2, <2>3, <2>4 DEF Laid
<1>22. \A g, h \in headers' : g.at = h.at => g = h
  BY <1>2, <1>7, <1>20 DEF Layout
<1>23. write_at' % 4 = 0
  <2>1. write_at % 4 = 0
    BY <1>2 DEF Layout
  <2>2. w = IF write_at + s < RING THEN write_at + s ELSE write_at + s - RING
    BY <1>4, <1>5, OnceAround DEF w
  <2>3. RING % 4 = 0
    BY RingAssumption
  <2> QED
    BY <1>4, <1>5, <1>8, <2>1, <2>2, <2>3
<1> QED
  BY <1>2, <1>6, <1>21, <1>22, <1>23 DEF Layout

LEMMA LaidAdvance ==
  ASSUME IInv, ReceiveAdvance
  PROVE  Layout' /\ rx_cur' \in Nat /\ rx_cur' < RING
<1>1. PICK b : Laid(b)
  BY DEF IInv, Layout
<1>2. TypeOK /\ Progress /\ Layout
  BY DEF IInv
<1> DEFINE n == Len(accepted)
           t == Taken
           s == Size(packet.len)
<1>3. n \in Nat /\ t \in Nat /\ t + 1 = Len(delivered) /\ t + 1 <= n /\ InPlace
  <2>1. InPlace
    BY DEF ReceiveAdvance, InPlace
  <2> QED
    BY <1>2, <2>1, RingTypes DEF Progress, Taken
<1>4. write_at \in Nat /\ write_at < RING /\ RING \in Nat \ {0} /\ rx_cur \in Nat
  BY <1>2, RingTypes
<1>5. packet = accepted[t + 1] /\ packet.len \in Nat
  <2>1. packet = accepted[t + 1]
    BY <1>2, <1>3 DEF Progress
  <2> QED
    BY <1>2, <1>3, <2>1, RingTypes, FrameFields
<1>6. s \in Nat
  BY <1>5, SizeIs
<1>7. /\ Taken' = t + 1 /\ pc' # "scan"
      /\ headers' = headers /\ write_at' = write_at /\ accepted' = accepted
  <2>1. pc' = "receive" /\ delivered' = delivered
    BY DEF ReceiveAdvance
  <2>2. ~InPlace'
    BY <2>1 DEF InPlace
  <2>3. Taken' = Len(delivered)
    BY <2>1, <2>2 DEF Taken
  <2> QED
    BY <1>3, <2>1, <2>3 DEF ReceiveAdvance
<1>8. rx_cur' = (rx_cur + s) % RING
  <2>1. Aligned(rx_cur + packet.len + 4) = rx_cur + s
    BY <1>2, <1>4, <1>5, SizeIs DEF Layout
  <2> QED
    BY <2>1 DEF ReceiveAdvance, NextPlace
<1>9. rx_cur' \in Nat /\ rx_cur' < RING
  <2>1. rx_cur + s \in Int
    BY <1>4, <1>6
  <2>2. (rx_cur + s) % RING \in 0 .. RING - 1
    BY <1>4, <2>1, RemainderIn
  <2> HIDE DEF s
  <2> QED
    BY <1>4, <1>8, <2>2
<1>10. read_at' = rx_cur'
  BY <1>9, CaprKeeps DEF ReceiveAdvance
<1>11. /\ b \in [1 .. n + 1 -> Nat] /\ b[n + 1] = 0
       /\ \A k \in 1 .. n : b[k] = b[k + 1] + Size(accepted[k].len)
       /\ \A j, k \in 1 .. n + 1 : j < k => b[j] >= b[k] + 4
       /\ b[t + 1] < RING
       /\ rx_cur = Behind(write_at, b[t + 1])
       /\ \A k \in t + 1 .. n : [at |-> Behind(write_at, b[k]), frame |-> accepted[k]] \in headers
  BY <1>1 DEF Laid
<1>12. s = Size(accepted[t + 1].len)
  BY <1>5
<1> HIDE DEF n, t, s
<1>13. /\ b[t + 1] \in Nat /\ b[t + 1 + 1] \in Nat
       /\ b[t + 1] = b[t + 1 + 1] + s
  BY <1>3, <1>11, <1>12
<1>14. rx_cur' = Behind(write_at, b[t + 1 + 1])
  <2>1. (Behind(write_at, b[t + 1]) + s) % RING = Behind(write_at, b[t + 1] - s)
    BY <1>4, <1>6, <1>11, <1>13, BehindAdvances
  <2>2. b[t + 1] - s = b[t + 1 + 1]
    BY <1>6, <1>13
  <2> QED
    BY <1>8, <1>11, <2>1, <2>2
<1>15. Laid(b)'
  <2>1. Len(accepted') = n
    BY <1>7 DEF n
  <2>2. b[t + 1 + 1] < RING
    BY <1>4, <1>6, <1>11, <1>13
  <2>3. \A k \in t + 1 + 1 .. n : k \in t + 1 .. n
    BY <1>3
  <2>4. \A k \in t + 1 + 1 .. n : [at |-> Behind(write_at, b[k]), frame |-> accepted[k]] \in headers
    BY <1>11, <2>3
  <2> QED
    BY <1>7, <1>11, <1>14, <2>1, <2>2, <2>4 DEF Laid
<1>16. rx_cur' % 4 = 0
  <2>1. rx_cur % 4 = 0
    BY <1>2 DEF Layout
  <2>2. s % 4 = 0
    BY <1>5, SizeIs DEF s
  <2>3. s <= b[t + 1] /\ rx_cur < RING /\ s < RING
    BY <1>2, <1>6, <1>11, <1>13, RingTypes
  <2>4. rx_cur' = IF rx_cur + s < RING THEN rx_cur + s ELSE rx_cur + s - RING
    BY <1>4, <1>6, <1>8, <2>3, OnceAround
  <2>5. RING % 4 = 0
    BY RingAssumption
  <2> QED
    BY <1>4, <1>6, <2>1, <2>2, <2>4, <2>5
<1> QED
  BY <1>2, <1>7, <1>9, <1>10, <1>15, <1>16 DEF Layout

-----------------------------------------------------------------------------
(* The steps *)

LEMMA HeaderRead ==
  ASSUME IInv, ReceiveHeader
  PROVE  /\ Len(delivered) < Len(accepted)
         /\ packet' = accepted[Len(delivered) + 1]
         /\ packet' \in FramesIn
<1>1. TypeOK /\ Progress
  BY DEF IInv
<1>2. Taken < Len(accepted)
  BY NotEmpty DEF ReceiveHeader
<1>3. Taken = Len(delivered)
  BY <1>1 DEF ReceiveHeader, Taken, InPlace, Progress
<1>4. packet' = accepted[Len(delivered) + 1]
  BY <1>2, <1>3, HeadOfRing DEF ReceiveHeader
<1> QED
  BY <1>1, <1>2, <1>3, <1>4, RingTypes

LEMMA FrameRead ==
  ASSUME IInv, ReceiveFrame
  PROVE  /\ Len(delivered) < Len(accepted)
         /\ packet = accepted[Len(delivered) + 1] /\ Acceptable(packet)
         /\ packet \in FramesIn
         /\ delivered' = Append(delivered, packet)
<1>1. TypeOK /\ Progress
  BY DEF IInv
<1>2. /\ Len(delivered) < Len(accepted)
      /\ packet = accepted[Len(delivered) + 1] /\ Acceptable(packet)
  BY <1>1 DEF ReceiveFrame, Progress
<1>3. Taken = Len(delivered)
  BY <1>1 DEF ReceiveFrame, Taken, InPlace, Progress
<1>4. delivered' = Append(delivered, packet)
  BY <1>2, <1>3, HeadOfRing DEF ReceiveFrame
<1> QED
  BY <1>1, <1>2, <1>4, RingTypes

LEMMA SizesAre ==
  SLOTS \in Nat \ {0} /\ BUSES \in Nat \ {0} /\ MAX_FRAMES \in Nat /\ RING \in Nat \ {0}
BY RingAssumption, SizesAssumption

LEMMA Halves ==
  ASSUME NEW whole \in Nat \X Nat, NEW half \in {1, 2}, NEW n \in Nat
  PROVE  [whole EXCEPT ![half] = n] \in Nat \X Nat
OBVIOUS

(* The type invariant, one part for each group of variables.                   *)
BootTypes == bus \in 0 .. BUSES - 1 /\ card_bus \in CardBuses /\ rtl_ready \in BOOLEAN
FlagTypes == isr \subseteq {"rx", "tx", "overflow"} /\ net_packet_received \in BOOLEAN
StoreTypes ==
    /\ \A h \in headers : h.at \in 0 .. RING - 1 /\ h.frame \in FramesIn
    /\ write_at \in 0 .. RING - 1 /\ read_at \in 0 .. RING - 1
    /\ accepted \in Seq(FramesIn)
HandleTypes ==
    delivered \in Seq(FramesIn) /\ rx_cur \in 0 .. RING - 1 /\ packet \in FramesIn \cup {Nothing}
BufferTypes ==
    /\ tx_slot \in Slots /\ given \in Nat /\ clean \in BOOLEAN
    /\ tx_buffers \in [Slots -> Nat \X Nat] /\ started \in [Slots -> BOOLEAN]
SenderTypes == slot \in Slots /\ sending \in Nat /\ back \in {"poll", "advance"}
TransmitTypes == next_descriptor \in Slots /\ wire \in Seq(Nat \X Nat)
PlaceTypes == pc \in MainStatements

LEMMA TypeParts ==
  TypeOK <=> /\ BootTypes /\ FlagTypes /\ StoreTypes /\ HandleTypes
             /\ BufferTypes /\ SenderTypes /\ TransmitTypes /\ PlaceTypes
BY Zenon DEF TypeOK, BootTypes, FlagTypes, StoreTypes, HandleTypes, BufferTypes, SenderTypes,
   TransmitTypes, PlaceTypes

(* A step may leave a group alone or keep its types.                           *)
LEMMA TypeFromParts ==
  ASSUME TypeOK,
         UNCHANGED boot \/ BootTypes', UNCHANGED flags \/ FlagTypes',
         UNCHANGED receiving \/ StoreTypes',
         UNCHANGED <<delivered, rx_cur, packet>> \/ HandleTypes',
         UNCHANGED buffers \/ BufferTypes', UNCHANGED sender \/ SenderTypes',
         UNCHANGED transmitting \/ TransmitTypes', UNCHANGED pc \/ PlaceTypes'
  PROVE  TypeOK'
<1>1. BootTypes' /\ FlagTypes'
  BY TypeParts DEF BootTypes, FlagTypes
<1>2. StoreTypes'
  BY TypeParts DEF StoreTypes
<1>3. HandleTypes'
  BY TypeParts DEF HandleTypes
<1>4. BufferTypes'
  BY TypeParts DEF BufferTypes
<1>5. SenderTypes' /\ TransmitTypes' /\ PlaceTypes'
  BY TypeParts DEF SenderTypes, TransmitTypes, PlaceTypes
<1>6. TypeOK' <=> /\ BootTypes' /\ FlagTypes' /\ StoreTypes' /\ HandleTypes'
                  /\ BufferTypes' /\ SenderTypes' /\ TransmitTypes' /\ PlaceTypes'
  BY Zenon DEF TypeOK, BootTypes, FlagTypes, StoreTypes, HandleTypes, BufferTypes, SenderTypes,
     TransmitTypes, PlaceTypes
<1> QED
  BY <1>1, <1>2, <1>3, <1>4, <1>5, <1>6

LEMMA TypeStep ==
  ASSUME IInv, [Next]_vars
  PROVE  TypeOK'
<1>1. /\ TypeOK /\ BootTypes /\ FlagTypes /\ StoreTypes /\ HandleTypes
      /\ BufferTypes /\ SenderTypes /\ TransmitTypes /\ PlaceTypes
  BY TypeParts DEF IInv
<1>2. CASE UNCHANGED vars
  BY <1>1, <1>2, TypeFromParts DEF vars
<1>3. CASE pci_find_device
  <2>1. bus' \in 0 .. BUSES - 1
    BY <1>1, <1>3, SizesAre, RemainderIn DEF BootTypes, pci_find_device
  <2>2. BootTypes'
    BY <1>1, <1>3, <2>1 DEF BootTypes, pci_find_device
  <2> QED
    BY <1>1, <1>3, <2>2, TypeFromParts DEF pci_find_device
<1>4. CASE rtl8139_init
  <2>1. read_at' = 0 /\ 0 \in 0 .. RING - 1
    BY <1>4, SizesAre DEF rtl8139_init, ReadFrom, Word16
  <2>2. BootTypes' /\ FlagTypes'
    BY <1>1, <1>4 DEF BootTypes, FlagTypes, rtl8139_init
  <2>3. StoreTypes' /\ HandleTypes'
    BY <1>1, <1>4, <2>1 DEF StoreTypes, HandleTypes, rtl8139_init
  <2>4. BufferTypes' /\ SenderTypes' /\ TransmitTypes' /\ PlaceTypes'
    BY <1>1, <1>4 DEF BufferTypes, SenderTypes, TransmitTypes, PlaceTypes, rtl8139_init,
                      MainStatements
  <2> QED
    BY <1>1, <2>2, <2>3, <2>4, TypeFromParts
<1>5. CASE rtl8139_poll
  <2>1. FlagTypes' /\ PlaceTypes'
    BY <1>1, <1>5 DEF FlagTypes, PlaceTypes, rtl8139_poll, MainStatements
  <2> QED
    BY <1>1, <1>5, <2>1, TypeFromParts DEF rtl8139_poll
<1>6. CASE ReceiveHeader
  <2>1. packet' \in FramesIn
    BY <1>6, HeaderRead
  <2>2. HandleTypes'
    BY <1>1, <1>6, <2>1 DEF HandleTypes, ReceiveHeader
  <2>3. PlaceTypes'
    BY <1>6 DEF PlaceTypes, ReceiveHeader, MainStatements
  <2>4. FlagTypes'
    BY <1>1, <1>6 DEF FlagTypes, ReceiveHeader
  <2> QED
    BY <1>1, <1>6, <2>2, <2>3, <2>4, TypeFromParts DEF ReceiveHeader
<1>7. CASE ReceiveFrame
  <2>1. delivered' \in Seq(FramesIn)
    <3>1. packet \in FramesIn /\ delivered' = Append(delivered, packet)
      BY <1>7, FrameRead
    <3>2. delivered \in Seq(FramesIn)
      BY <1>1 DEF HandleTypes
    <3> QED
      BY <3>1, <3>2
  <2>2. HandleTypes'
    BY <1>1, <1>7, <2>1 DEF HandleTypes, ReceiveFrame
  <2>3. PlaceTypes'
    BY <1>7 DEF PlaceTypes, ReceiveFrame, MainStatements
  <2> QED
    BY <1>1, <1>7, <2>2, <2>3, TypeFromParts DEF ReceiveFrame
<1>8. CASE ReceiveAdvance
  <2>1. rx_cur' \in Nat /\ rx_cur' < RING /\ read_at' = rx_cur'
    BY <1>8, LaidAdvance, CaprKeeps DEF ReceiveAdvance
  <2>2. rx_cur' \in 0 .. RING - 1 /\ read_at' \in 0 .. RING - 1
    BY <2>1, SizesAre
  <2>3. StoreTypes'
    BY <1>1, <1>8, <2>2 DEF StoreTypes, ReceiveAdvance
  <2>4. HandleTypes' /\ PlaceTypes'
    BY <1>1, <1>8, <2>2 DEF HandleTypes, PlaceTypes, ReceiveAdvance, MainStatements
  <2> QED
    BY <1>1, <1>8, <2>3, <2>4, TypeFromParts DEF ReceiveAdvance
<1>9. CASE ReceiveNothing \/ net_periodic_idle \/ ReplyNothing
  <2>1. PlaceTypes'
    BY <1>9 DEF PlaceTypes, ReceiveNothing, net_periodic_idle, ReplyNothing, MainStatements
  <2> QED
    BY <1>1, <1>9, <2>1, TypeFromParts DEF ReceiveNothing, net_periodic_idle, ReplyNothing
<1>10. CASE ReceiveEnds
  <2>1. FlagTypes' /\ PlaceTypes'
    BY <1>1, <1>10 DEF FlagTypes, PlaceTypes, ReceiveEnds, MainStatements
  <2>2. HandleTypes'
    BY <1>1, <1>10 DEF HandleTypes, ReceiveEnds
  <2> QED
    BY <1>1, <1>10, <2>1, <2>2, TypeFromParts DEF ReceiveEnds
<1>12. CASE SendBegins
  <2>1. BufferTypes'
    BY <1>1, <1>12 DEF BufferTypes, SendBegins
  <2>2. SenderTypes' /\ PlaceTypes'
    BY <1>1, <1>12 DEF BufferTypes, SenderTypes, PlaceTypes, SendBegins, MainStatements
  <2> QED
    BY <1>1, <1>12, <2>1, <2>2, TypeFromParts DEF SendBegins
<1>14. CASE SendTakesSlot
  <2>1. \A s \in Slots : (s + 1) % SLOTS \in Slots
    BY SizesAre, RemainderIn DEF Slots
  <2>2. tx_slot' \in Slots
    BY <1>1, <1>14, <2>1 DEF BufferTypes, SenderTypes, SendTakesSlot
  <2>3. BufferTypes' /\ PlaceTypes'
    BY <1>1, <1>14, <2>2 DEF BufferTypes, PlaceTypes, SendTakesSlot, MainStatements
  <2> QED
    BY <1>1, <1>14, <2>3, TypeFromParts DEF SendTakesSlot
<1>15. ASSUME NEW half \in {1, 2}, SendCopies(half), PlaceTypes'
       PROVE  TypeOK'
  <2>1. tx_buffers' \in [Slots -> Nat \X Nat]
    BY <1>1, <1>15, Halves DEF BufferTypes, SenderTypes, SendCopies
  <2>2. BufferTypes'
    BY <1>1, <1>15, <2>1 DEF BufferTypes, SendCopies
  <2> QED
    BY <1>1, <1>15, <2>2, TypeFromParts DEF SendCopies
<1>16. CASE SendCopiesFirst \/ SendCopiesSecond
  BY <1>15, <1>16 DEF SendCopiesFirst, SendCopiesSecond, PlaceTypes, MainStatements
<1>17. CASE SendStarts
  <2>1. BufferTypes'
    BY <1>1, <1>17 DEF BufferTypes, SendStarts
  <2>2. SenderTypes' /\ PlaceTypes'
    BY <1>1, <1>17 DEF SenderTypes, PlaceTypes, SendStarts, MainStatements
  <2> QED
    BY <1>1, <1>17, <2>1, <2>2, TypeFromParts DEF SendStarts
<1>18. CASE rtl8139_handle_irq
  <2>1. FlagTypes'
    BY <1>1, <1>18 DEF FlagTypes, rtl8139_handle_irq
  <2> QED
    BY <1>1, <1>18, <2>1, TypeFromParts DEF rtl8139_handle_irq
<1>19. CASE ShellSends
  <2>1. tx_slot' \in Slots
    <3>1. \A s \in Slots : (s + 1) % SLOTS \in Slots
      BY SizesAre, RemainderIn DEF Slots
    <3> QED
      BY <1>1, <1>19, <3>1 DEF BufferTypes, ShellSends
  <2>2. tx_buffers' \in [Slots -> Nat \X Nat]
    BY <1>1, <1>19 DEF BufferTypes, ShellSends
  <2>3. BufferTypes'
    BY <1>1, <1>19, <2>1, <2>2 DEF BufferTypes, ShellSends
  <2> QED
    BY <1>1, <1>19, <2>3, TypeFromParts DEF ShellSends
<1>20. ASSUME NEW len \in PacketLengths, CardStores(len)
       PROVE  TypeOK'
  <2> DEFINE frame == [id |-> Len(accepted) + 1, len |-> len]
  <2>1. frame \in FramesIn
    BY <1>1, <1>20, SizesAre, RingTypes DEF CardStores, CanStore, FramesIn
  <2>2. accepted' \in Seq(FramesIn)
    <3>1. accepted' = Append(accepted, frame) /\ accepted \in Seq(FramesIn)
      BY <1>1, <1>20 DEF StoreTypes, CardStores
    <3> HIDE DEF frame
    <3> QED
      BY <2>1, <3>1
  <2>3. write_at' \in 0 .. RING - 1
    <3>1. len \in Nat /\ write_at \in Nat
      BY <1>1, RingAssumption, RingTypes
    <3>2. Aligned(write_at + 4 + len) \in Int
      BY <3>1 DEF Aligned
    <3> QED
      BY <1>20, <3>2, SizesAre, RemainderIn DEF CardStores
  <2>4. \A h \in headers' : h.at \in 0 .. RING - 1 /\ h.frame \in FramesIn
    BY <1>1, <1>20, <2>1 DEF StoreTypes, CardStores
  <2>5. StoreTypes'
    BY <1>1, <1>20, <2>2, <2>3, <2>4 DEF StoreTypes, CardStores
  <2>6. FlagTypes'
    BY <1>1, <1>20 DEF FlagTypes, CardStores
  <2> QED
    BY <1>1, <1>20, <2>5, <2>6, TypeFromParts DEF CardStores
<1>21. CASE \E len \in PacketLengths : CardDrops(len)
  <2>1. FlagTypes'
    BY <1>1, <1>21 DEF FlagTypes, CardDrops
  <2> QED
    BY <1>1, <1>21, <2>1, TypeFromParts DEF CardDrops
<1>22. CASE CardTransmits
  <2>1. TransmitTypes'
    <3>1. \A s \in Slots : (s + 1) % SLOTS \in Slots
      BY SizesAre, RemainderIn DEF Slots
    <3>2. next_descriptor' \in Slots
      BY <1>1, <1>22, <3>1 DEF TransmitTypes, CardTransmits
    <3>3. tx_buffers[next_descriptor] \in Nat \X Nat
      BY <1>1 DEF BufferTypes, TransmitTypes
    <3>4. wire' = Append(wire, tx_buffers[next_descriptor]) /\ wire \in Seq(Nat \X Nat)
      BY <1>1, <1>22 DEF TransmitTypes, CardTransmits
    <3> QED
      BY <3>2, <3>3, <3>4 DEF TransmitTypes
  <2>2. BufferTypes' /\ FlagTypes'
    BY <1>1, <1>22 DEF BufferTypes, FlagTypes, CardTransmits
  <2> QED
    BY <1>1, <1>22, <2>1, <2>2, TypeFromParts DEF CardTransmits
<1> QED
  BY <1>2, <1>3, <1>4, <1>5, <1>6, <1>7, <1>8, <1>9, <1>10, <1>12, <1>14, <1>16,
     <1>17, <1>18, <1>19, <1>20, <1>21, <1>22
  DEF Next, MainLoop, Receive, Send, Card

(* The steps that touch neither the ring nor what was handled.                 *)
Elsewhere ==
    \/ UNCHANGED vars
    \/ pci_find_device \/ rtl8139_poll \/ ReceiveHeader \/ ReceiveNothing \/ ReceiveEnds
    \/ net_periodic_idle \/ SendBegins \/ ReplyNothing \/ SendTakesSlot
    \/ SendCopiesFirst \/ SendCopiesSecond \/ SendStarts
    \/ rtl8139_handle_irq \/ ShellSends \/ CardTransmits
    \/ \E len \in PacketLengths : CardDrops(len)

LEMMA StepKinds ==
  ASSUME [Next]_vars
  PROVE  \/ Elsewhere \/ rtl8139_init \/ ReceiveFrame \/ ReceiveAdvance
         \/ \E len \in PacketLengths : CardStores(len)
BY DEF Next, MainLoop, Receive, Send, Card, Elsewhere

LEMMA ElsewhereKeeps ==
  ASSUME TypeOK, Elsewhere
  PROVE  /\ UNCHANGED <<accepted, delivered, headers, write_at, read_at, rx_cur>>
         /\ InPlace' <=> InPlace
         /\ pc' = "scan" => pc = "scan"
         /\ payload' = payload \/ payload' = Ignored
         /\ packet' = packet \/ pc \in {"receive", "received"}
<1>1. CASE UNCHANGED vars
  BY <1>1 DEF vars, InPlace
<1>2. CASE pci_find_device \/ rtl8139_poll \/ ReceiveHeader \/ ReceiveNothing \/ ReceiveEnds
  BY <1>2 DEF pci_find_device, rtl8139_poll, ReceiveHeader, ReceiveNothing, ReceiveEnds, InPlace
<1>3. CASE net_periodic_idle \/ SendBegins \/ ReplyNothing \/ SendTakesSlot
  BY <1>3 DEF net_periodic_idle, SendBegins, ReplyNothing, SendTakesSlot, InPlace
<1>4. CASE SendCopiesFirst \/ SendCopiesSecond \/ SendStarts
  BY <1>4 DEF TypeOK, SendCopiesFirst, SendCopiesSecond, SendCopies, SendStarts, InPlace
<1>5. CASE rtl8139_handle_irq \/ ShellSends \/ CardTransmits
  BY <1>5 DEF rtl8139_handle_irq, ShellSends, CardTransmits, InPlace
<1>6. CASE \E len \in PacketLengths : CardDrops(len)
  BY <1>6 DEF CardDrops, InPlace
<1> QED
  BY <1>1, <1>2, <1>3, <1>4, <1>5, <1>6 DEF Elsewhere

LEMMA LayoutStep ==
  ASSUME IInv, [Next]_vars
  PROVE  Layout'
<1>1. TypeOK /\ Progress /\ Layout
  BY DEF IInv
<1>2. CASE Elsewhere
  <2>1. Taken' = Taken
    BY <1>1, <1>2, ElsewhereKeeps DEF Taken
  <2> QED
    BY <1>1, <1>2, <2>1, ElsewhereKeeps, LaidQuiet
<1>3. CASE rtl8139_init
  <2>1. rx_cur' = 0 /\ read_at' = 0 /\ rx_cur = 0 /\ read_at = 0
    BY <1>1, <1>3, SizesAre DEF rtl8139_init, ReadFrom, Word16, Layout
  <2>2. Taken' = Taken
    BY <1>3 DEF rtl8139_init, Taken, InPlace
  <2> QED
    BY <1>1, <1>3, <2>1, <2>2, LaidQuiet DEF rtl8139_init
<1>4. CASE ReceiveFrame
  <2>1. Len(delivered') = Len(delivered) + 1 /\ Len(delivered) \in Nat
    BY <1>1, <1>4, FrameRead, RingTypes
  <2>2. InPlace' /\ ~InPlace
    BY <1>4 DEF ReceiveFrame, InPlace
  <2>3. Taken' = Taken
    BY <2>1, <2>2 DEF Taken
  <2> QED
    BY <1>1, <1>4, <2>3, LaidQuiet DEF ReceiveFrame
<1> QED
  BY <1>2, <1>3, <1>4, StepKinds, LaidAdvance, LaidStore

(* Progress after a step that hands on and stores nothing.                     *)
LEMMA ProgressQuiet ==
  ASSUME Progress, UNCHANGED <<accepted, delivered>>,
         pc' = "handle" => /\ Len(delivered) < Len(accepted)
                           /\ packet' = accepted[Len(delivered) + 1]
                           /\ Acceptable(packet'),
         InPlace' => InPlace /\ packet' = packet,
         payload' # Ignored => pc' \in {"reply", "advance"}
  PROVE  Progress'
BY DEF Progress, Acceptable

LEMMA ProgressStep ==
  ASSUME IInv, [Next]_vars
  PROVE  Progress'
<1>1. TypeOK /\ Progress
  BY DEF IInv
<1>2. CASE UNCHANGED vars
  BY <1>1, <1>2, ProgressQuiet DEF vars, InPlace, Progress
<1>3. CASE pci_find_device \/ rtl8139_init \/ rtl8139_poll
  BY <1>1, <1>3, ProgressQuiet DEF pci_find_device, rtl8139_init, rtl8139_poll, InPlace, Progress
<1>4. CASE ReceiveHeader
  <2>1. pc' = "handle" => Acceptable(packet')
    BY <1>4 DEF ReceiveHeader
  <2> QED
    BY <1>1, <1>4, <2>1, HeaderRead, ProgressQuiet DEF ReceiveHeader, InPlace, Progress
<1>5. CASE ReceiveFrame
  <2>1. /\ Len(delivered) < Len(accepted)
        /\ packet = accepted[Len(delivered) + 1]
        /\ delivered' = Append(delivered, packet) /\ delivered \in Seq(FramesIn)
        /\ accepted' = accepted /\ accepted \in Seq(FramesIn) /\ packet' = packet
        /\ pc' \in {"reply", "advance"}
    BY <1>1, <1>5, FrameRead, RingTypes DEF ReceiveFrame
  <2>2. /\ Len(delivered') = Len(delivered) + 1 /\ delivered'[Len(delivered) + 1] = packet
        /\ \A i \in 1 .. Len(delivered) : delivered'[i] = delivered[i]
    BY <2>1
  <2>3. Len(delivered) \in Nat /\ Len(accepted) \in Nat
    BY <2>1
  <2>4. \A i \in 1 .. Len(delivered) : delivered[i] = accepted[i]
    BY <1>1 DEF Progress
  <2>5. \A i \in 1 .. Len(delivered) + 1 : delivered'[i] = accepted'[i]
    BY <2>1, <2>2, <2>3, <2>4
  <2> QED
    BY <2>1, <2>2, <2>3, <2>5 DEF Progress
<1>6. CASE ReceiveAdvance
  BY <1>1, <1>6, ProgressQuiet DEF ReceiveAdvance, InPlace, Progress
<1>7. CASE ReceiveNothing \/ ReceiveEnds \/ net_periodic_idle
  BY <1>1, <1>7, ProgressQuiet DEF ReceiveNothing, ReceiveEnds, net_periodic_idle, InPlace, Progress
<1>8. CASE SendBegins \/ ReplyNothing \/ SendTakesSlot
  BY <1>1, <1>8, ProgressQuiet DEF SendBegins, ReplyNothing, SendTakesSlot, InPlace, Progress
<1>9. CASE SendCopiesFirst \/ SendCopiesSecond \/ SendStarts
  BY <1>1, <1>9, ProgressQuiet
  DEF SendCopiesFirst, SendCopiesSecond, SendCopies, SendStarts, InPlace, Progress, TypeOK
<1>10. CASE rtl8139_handle_irq \/ ShellSends \/ CardTransmits
  BY <1>1, <1>10, ProgressQuiet DEF rtl8139_handle_irq, ShellSends, CardTransmits, InPlace, Progress
<1>11. CASE \E len \in PacketLengths : CardDrops(len)
  BY <1>1, <1>11, ProgressQuiet DEF CardDrops, InPlace, Progress
<1>12. ASSUME NEW len \in PacketLengths, CardStores(len)
       PROVE  Progress'
  <2>1. /\ accepted \in Seq(FramesIn) /\ Len(accepted) \in Nat /\ Len(delivered) \in Nat
        /\ UNCHANGED <<delivered, packet, payload, pc, back>>
    BY <1>1, <1>12, RingTypes DEF CardStores
  <2>2. /\ Len(accepted') = Len(accepted) + 1
        /\ \A i \in 1 .. Len(accepted) : accepted'[i] = accepted[i]
    BY <1>12, <2>1 DEF CardStores
  <2>3. InPlace' <=> InPlace
    BY <2>1 DEF InPlace
  <2> QED
    BY <1>1, <2>1, <2>2, <2>3 DEF Progress
<1> QED
  BY <1>2, <1>3, <1>4, <1>5, <1>6, <1>7, <1>8, <1>9, <1>10, <1>11, <1>12
  DEF Next, MainLoop, Receive, Send, Card

(* A frame is handled with the length its header says, less the checksum.      *)
LEMMA PayloadStep ==
  ASSUME IInv, [Next]_vars
  PROVE  PayloadWithinFrame'
<1>1. TypeOK /\ Progress /\ PayloadWithinFrame
  BY DEF IInv
<1>2. CASE ReceiveFrame
  <2>1. packet \in FramesIn /\ Acceptable(packet) /\ packet' = packet
    BY <1>2, FrameRead DEF ReceiveFrame
  <2>2. IsWord16(packet.len - 4)
    BY <2>1, FrameFields, SizesAssumption DEF Acceptable, IsWord16
  <2>3. PICK f \in Contents : payload' = ethernet_receive_frame(f, packet.len - 4)
    BY <1>2 DEF ReceiveFrame
  <2>4. AnyLengths(f) /\ packet.len - 4 \in Nat /\ packet.len - 4 < 65536
    BY <2>2, ContentsAssumption DEF IsWord16
  <2>5. CASE payload' = Ignored
    BY <2>5 DEF PayloadWithinFrame
  <2>6. CASE payload' # Ignored
    <3>1. payload'.from + payload'.len <= packet.len - 4 /\ payload'.len \in Nat
      BY <2>3, <2>4, <2>6, PayloadLiesInFrame
    <3> QED
      BY <2>1, <3>1 DEF PayloadWithinFrame
  <2> QED
    BY <2>5, <2>6
<1>3. CASE ~ReceiveFrame
  <2>1. payload' = Ignored \/ (payload' = payload /\ (packet' = packet \/ payload = Ignored))
    <3>1. CASE Elsewhere
      BY <1>1, <3>1, ElsewhereKeeps DEF Progress
    <3>2. CASE rtl8139_init \/ ReceiveAdvance
      BY <3>2 DEF rtl8139_init, ReceiveAdvance
    <3>3. CASE \E len \in PacketLengths : CardStores(len)
      BY <3>3 DEF CardStores
    <3> QED
      BY <1>3, <3>1, <3>2, <3>3, StepKinds
  <2> QED
    BY <1>1, <2>1 DEF PayloadWithinFrame
<1> QED
  BY <1>2, <1>3

LEMMA Start ==
  ASSUME Init
  PROVE  IInv
<1>1. TypeOK
  <2>1. 0 \in 0 .. BUSES - 1 /\ 0 \in 0 .. RING - 1 /\ 0 \in Slots
    BY SizesAre DEF Slots
  <2>2. /\ bus \in 0 .. BUSES - 1 /\ card_bus \in CardBuses
        /\ write_at \in 0 .. RING - 1 /\ read_at \in 0 .. RING - 1 /\ rx_cur \in 0 .. RING - 1
        /\ tx_slot \in Slots /\ slot \in Slots /\ next_descriptor \in Slots
    BY <2>1 DEF Init
  <2>3. /\ tx_buffers \in [Slots -> Nat \X Nat] /\ started \in [Slots -> BOOLEAN]
        /\ pc \in MainStatements
    BY DEF Init, MainStatements
  <2> QED
    BY <2>2, <2>3 DEF Init, TypeOK
<1>2. Progress
  BY DEF Init, Progress, InPlace
<1>3. Layout
  <2> DEFINE b == [k \in 1 .. 1 |-> 0]
  <2>1. Taken = 0 /\ Len(accepted) = 0
    BY DEF Init, Taken, InPlace
  <2>2. Behind(0, 0) = 0
    BY DEF Behind
  <2>3. Laid(b)
    BY <2>1, <2>2, SizesAre DEF Init, Laid
  <2>4. 0 % 4 = 0
    OBVIOUS
  <2> QED
    BY <2>3, <2>4 DEF Init, Layout
<1>4. PayloadWithinFrame
  BY DEF Init, PayloadWithinFrame
<1> QED
  BY <1>1, <1>2, <1>3, <1>4 DEF IInv

LEMMA Invariance == FairSpec => []IInv
<1>1. IInv /\ [Next]_vars => IInv'
  BY TypeStep, ProgressStep, LayoutStep, PayloadStep DEF IInv
<1> QED
  BY Start, <1>1, PTL DEF FairSpec

-----------------------------------------------------------------------------
(* The results *)

(* The cursors stay in the ring, aligned or not, and every other variable of   *)
(* the driver keeps its type (rtl8139.c lines 46-55).                          *)
THEOREM TypeCorrect == FairSpec => []TypeOK
<1>1. IInv => TypeOK
  BY DEF IInv
<1> QED
  BY Invariance, <1>1, PTL

(* Whatever IPv4 and UDP lengths a frame says it has, and wherever in the ring *)
(* it lies, the bytes handed to the DHCP client or the terminal are bytes of   *)
(* that frame (rtl8139.c line 191, ipv4.c lines 44-57, udp.c lines 94-113).    *)
THEOREM PayloadsStayInFrame == FairSpec => []PayloadWithinFrame
<1>1. IInv => PayloadWithinFrame
  BY DEF IInv
<1> QED
  BY Invariance, <1>1, PTL

LEMMA QueueStart == Init => Queue!Init
BY DEF Init, Queue!Init

LEMMA QueueStep ==
  ASSUME IInv, [Next]_vars
  PROVE  [Queue!Next]_<<accepted, delivered>>
<1>1. TypeOK
  BY DEF IInv
<1>2. CASE Elsewhere
  BY <1>1, <1>2, ElsewhereKeeps
<1>3. CASE rtl8139_init \/ ReceiveAdvance
  BY <1>3 DEF rtl8139_init, ReceiveAdvance
<1>4. CASE ReceiveFrame
  <2>1. accepted' = accepted
    BY <1>4 DEF ReceiveFrame
  <2> QED
    BY <1>4, <2>1, FrameRead DEF Queue!Next, Queue!Deliver
<1>5. ASSUME NEW len \in PacketLengths, CardStores(len)
      PROVE  Queue!Next
  <2> DEFINE frame == [id |-> Len(accepted) + 1, len |-> len]
  <2>1. frame \in FramesIn
    BY <1>1, <1>5, SizesAre, RingTypes DEF CardStores, CanStore, FramesIn
  <2>2. Queue!Accept(frame)
    BY <1>5 DEF CardStores, Queue!Accept
  <2> QED
    BY <2>1, <2>2 DEF Queue!Next
<1> QED
  BY <1>2, <1>3, <1>4, <1>5, StepKinds

(* The driver's walk through the ring, past its end and in whatever order the  *)
(* card, its interrupt, the shell and the main loop take their steps, hands on *)
(* the frames the card stored in their order, each once and with its length    *)
(* (rtl8139.c lines 176-202): the safety part of ImplementsQueue.              *)
THEOREM RingIsQueue == FairSpec => Queue!Spec
<1>1. Init => Queue!Init
  BY QueueStart
<1>2. IInv /\ [Next]_vars => [Queue!Next]_<<accepted, delivered>>
  BY QueueStep
<1> QED
  BY Invariance, <1>1, <1>2, PTL DEF FairSpec, Queue!Spec

-----------------------------------------------------------------------------
(* What the card transmits.                                                *)
(* The slot x turns after p.                                                   *)
Turn(p, x) == IF p + x < SLOTS THEN p + x
              ELSE IF p + x < 2 * SLOTS THEN p + x - SLOTS
              ELSE p + x - 2 * SLOTS

(* The main loop is between taking a slot and telling the card.                *)
Filling == {"take_slot", "copy_first", "copy_second", "start"}

(* The frames given and not yet on the wire, how many, and where each one is.  *)
Waiting == given - Len(wire)
Queued == Len(wire) + 1 .. given
PlaceOf(g) == Turn(next_descriptor, g - Len(wire) - 1)

(* They lie in the slots in the order they were given, from the card's turn    *)
(* on, whole and started but for the one the main loop is filling, and nothing *)
(* else is started.  One frame too many may have a slot as long as none of it  *)
(* has been copied.                                                            *)
InLine ==
    /\ Len(wire) <= given
    /\ \/ Waiting <= SLOTS
       \/ Waiting = SLOTS + 1 /\ pc \in {"take_slot", "copy_first"} /\ sending = given
    /\ tx_slot = IF pc = "take_slot" THEN slot ELSE Turn(next_descriptor, Waiting)
    /\ sending # 0 => sending \in Queued /\ slot = PlaceOf(sending)
    /\ pc = "take_slot" => sending = given
    /\ pc \in {"copy_second", "start"} => ~started[slot] /\ tx_buffers[slot][1] = sending
    /\ pc = "start" => tx_buffers[slot][2] = sending
    /\ \A g \in Queued : g # sending => started[PlaceOf(g)] /\ tx_buffers[PlaceOf(g)] = <<g, g>>
    /\ \A s \in Slots : started[s] => \E g \in Queued : g # sending /\ s = PlaceOf(g)
    /\ \A i \in DOMAIN wire : wire[i] = <<i, i>>

SendInv ==
    /\ sending # 0 <=> pc \in Filling
    /\ clean => InLine

-----------------------------------------------------------------------------
(* Arithmetic of the slots *)

LEMMA SlotsAre == SLOTS \in Nat \ {0}
BY SizesAssumption

LEMMA AfterIs ==
  ASSUME NEW p \in Slots
  PROVE  (p + 1) % SLOTS = IF p + 1 = SLOTS THEN 0 ELSE p + 1
BY SlotsAre DEF Slots

LEMMA OneMore ==
  ASSUME NEW n \in Nat
  PROVE  \A i \in 1 .. n + 1 : i \in 1 .. n \/ i = n + 1
OBVIOUS

LEMMA TurnIn ==
  ASSUME NEW p \in Slots, NEW x \in Nat, x <= SLOTS + 1
  PROVE  Turn(p, x) \in Slots
BY SlotsAre DEF Slots, Turn

LEMMA TurnZero ==
  ASSUME NEW p \in Slots
  PROVE  Turn(p, 0) = p
BY SlotsAre DEF Slots, Turn

LEMMA TurnNext ==
  ASSUME NEW p \in Slots, NEW x \in Nat, x <= SLOTS
  PROVE  (Turn(p, x) + 1) % SLOTS = Turn(p, x + 1)
<1>1. Turn(p, x) \in Slots
  BY SlotsAre, TurnIn
<1>2. (Turn(p, x) + 1) % SLOTS = IF Turn(p, x) + 1 = SLOTS THEN 0 ELSE Turn(p, x) + 1
  BY <1>1, AfterIs
<1> QED
  BY <1>2, SlotsAre DEF Slots, Turn

LEMMA TurnOn ==
  ASSUME NEW p \in Slots, NEW x \in Nat, x <= SLOTS
  PROVE  Turn((p + 1) % SLOTS, x) = Turn(p, x + 1)
<1> DEFINE q == (p + 1) % SLOTS
<1>1. q = IF p + 1 = SLOTS THEN 0 ELSE p + 1
  BY AfterIs
<1> HIDE DEF q
<1>2. CASE p + 1 = SLOTS
  BY <1>1, <1>2, SlotsAre DEF Slots, Turn
<1>3. CASE p + 1 # SLOTS
  BY <1>1, <1>3, SlotsAre DEF Slots, Turn
<1> QED
  BY <1>2, <1>3 DEF q

LEMMA TurnApart ==
  ASSUME NEW p \in Slots, NEW x \in Nat, NEW y \in Nat, x < y, y < x + SLOTS, y <= SLOTS + 1
  PROVE  Turn(p, x) # Turn(p, y)
BY SlotsAre DEF Slots, Turn

LEMMA TurnRound ==
  ASSUME NEW p \in Slots, NEW x \in {0, 1}
  PROVE  Turn(p, x + SLOTS) = Turn(p, x)
BY SlotsAre DEF Slots, Turn

-----------------------------------------------------------------------------
(* The steps *)

LEMMA SendTypes ==
  ASSUME TypeOK
  PROVE  /\ SLOTS \in Nat \ {0} /\ given \in Nat /\ sending \in Nat
         /\ wire \in Seq(Nat \X Nat) /\ Len(wire) \in Nat
         /\ next_descriptor \in Slots /\ tx_slot \in Slots /\ slot \in Slots
         /\ tx_buffers \in [Slots -> Nat \X Nat] /\ started \in [Slots -> BOOLEAN]
BY SlotsAre DEF TypeOK

(* What the queued frames are to each other.                                   *)
LEMMA QueuedAre ==
  ASSUME TypeOK, InLine, NEW g \in Queued
  PROVE  /\ g \in Nat /\ g - Len(wire) - 1 \in Nat /\ g - Len(wire) - 1 < Waiting
         /\ Waiting \in Nat /\ Waiting <= SLOTS + 1
         /\ g - Len(wire) - 1 <= SLOTS
         /\ PlaceOf(g) \in Slots
<1>1. /\ SLOTS \in Nat /\ given \in Nat /\ Len(wire) \in Nat /\ next_descriptor \in Slots
      /\ Waiting <= SLOTS + 1 /\ Len(wire) <= given
  BY SendTypes DEF InLine, Waiting
<1>2. g \in Nat /\ Len(wire) + 1 <= g /\ g <= given
  BY <1>1 DEF Queued
<1>3. /\ g - Len(wire) - 1 \in Nat /\ g - Len(wire) - 1 < Waiting /\ Waiting \in Nat
      /\ g - Len(wire) - 1 <= SLOTS
  BY <1>1, <1>2 DEF Waiting
<1> QED
  BY <1>1, <1>2, <1>3, TurnIn DEF PlaceOf

LEMMA Apart ==
  ASSUME TypeOK, InLine, Waiting <= SLOTS, NEW g \in Queued, NEW h \in Queued, g # h
  PROVE  PlaceOf(g) # PlaceOf(h)
<1> DEFINE x == g - Len(wire) - 1
           y == h - Len(wire) - 1
<1>1. /\ x \in Nat /\ y \in Nat /\ x < SLOTS /\ y < SLOTS /\ x # y
      /\ SLOTS \in Nat /\ next_descriptor \in Slots
  <2>1. SLOTS \in Nat /\ next_descriptor \in Slots /\ Len(wire) \in Nat
    BY SendTypes
  <2>2. g \in Nat /\ x \in Nat /\ x < Waiting /\ Waiting \in Nat
    BY QueuedAre
  <2>3. h \in Nat /\ y \in Nat /\ y < Waiting
    BY QueuedAre
  <2> QED
    BY <2>1, <2>2, <2>3
<1> HIDE DEF x, y
<1>2. Turn(next_descriptor, x) # Turn(next_descriptor, y)
  <2>1. CASE x < y
    BY <1>1, <2>1, TurnApart
  <2>2. CASE y < x
    BY <1>1, <2>2, TurnApart
  <2> QED
    BY <1>1, <2>1, <2>2
<1> QED
  BY <1>2 DEF PlaceOf, x, y

(* Where the next slot to take is taken already, it is the main loop's or      *)
(* started.                                                                    *)
LEMMA FullIsSeen ==
  ASSUME TypeOK, InLine, Waiting >= SLOTS, pc # "take_slot"
  PROVE  started[tx_slot] \/ (sending # 0 /\ slot = tx_slot)
<1>1. /\ SLOTS \in Nat \ {0} /\ given \in Nat /\ Len(wire) \in Nat /\ next_descriptor \in Slots
      /\ Len(wire) <= given
      /\ Waiting = SLOTS \/ Waiting = SLOTS + 1
      /\ tx_slot = Turn(next_descriptor, Waiting)
      /\ sending # 0 => slot = PlaceOf(sending)
      /\ \A g \in Queued : g # sending => started[PlaceOf(g)]
  BY SendTypes DEF InLine, Waiting
<1>2. PICK x \in {0, 1} : Waiting = x + SLOTS
  BY <1>1
<1> DEFINE g == Len(wire) + 1 + x
<1>3. g \in Queued /\ g # 0 /\ g - Len(wire) - 1 = x
  BY <1>1, <1>2 DEF Waiting, Queued
<1>4. PlaceOf(g) = tx_slot
  BY <1>1, <1>2, <1>3, TurnRound DEF PlaceOf
<1> QED
  BY <1>1, <1>3, <1>4

(* Steps that send nothing.                                                    *)
LEMMA NotSending ==
  ASSUME SendInv, pc \notin Filling, pc' \notin Filling,
         UNCHANGED <<tx_slot, tx_buffers, started, clean, given, slot, sending, next_descriptor, wire>>
  PROVE  SendInv'
BY DEF SendInv, InLine, Filling, Waiting, Queued, PlaceOf

LEMMA SameSending ==
  ASSUME SendInv, pc' = pc,
         UNCHANGED <<tx_slot, tx_buffers, started, clean, given, slot, sending, next_descriptor, wire>>
  PROVE  SendInv'
BY DEF SendInv, InLine, Filling, Waiting, Queued, PlaceOf

LEMMA BeginStep ==
  ASSUME TypeOK, SendInv, SendBegins
  PROVE  SendInv'
<1>1. /\ sending' # 0 /\ sending' = given + 1 /\ given' = given + 1 /\ given \in Nat
      /\ Len(wire) \in Nat /\ SLOTS \in Nat /\ sending = 0
      /\ pc' = "take_slot" /\ pc \notin Filling /\ slot' = tx_slot
      /\ UNCHANGED <<tx_slot, tx_buffers, started, clean, next_descriptor, wire>>
  BY SendTypes DEF SendBegins, SendInv, Filling
<1>2. ASSUME clean PROVE InLine'
  <2>1. InLine
    BY <1>2 DEF SendInv
  <2>2. /\ Len(wire) <= given /\ Waiting \in Nat /\ Waiting <= SLOTS
        /\ tx_slot = Turn(next_descriptor, Waiting)
    BY <1>1, <2>1 DEF InLine, Filling, Waiting
  <2>3. Waiting' = Waiting + 1 /\ Queued' = Queued \cup {given + 1}
    BY <1>1, <2>2 DEF Waiting, Queued
  <2>4. \A g : PlaceOf(g)' = PlaceOf(g)
    BY <1>1 DEF PlaceOf
  <2>5. PlaceOf(given + 1) = tx_slot
    <3>1. (given + 1) - Len(wire) - 1 = Waiting
      BY <1>1 DEF Waiting
    <3> QED
      BY <2>2, <3>1 DEF PlaceOf
  <2>6. \A g \in Queued : g # sending /\ g # given + 1
    BY <1>1 DEF Queued
  <2>7. Waiting' <= SLOTS \/ (Waiting' = SLOTS + 1 /\ sending' = given')
    BY <1>1, <2>2, <2>3
  <2>8. Len(wire') <= given'
    BY <1>1, <2>2
  <2>9. \A g \in Queued' : g # sending' =>
            started'[PlaceOf(g)'] /\ tx_buffers'[PlaceOf(g)'] = <<g, g>>
    BY <1>1, <2>1, <2>3, <2>4, <2>6 DEF InLine
  <2>10. \A s \in Slots : started'[s] => \E g \in Queued' : g # sending' /\ s = PlaceOf(g)'
    BY <1>1, <2>1, <2>3, <2>4, <2>6 DEF InLine
  <2>11. \A i \in DOMAIN wire' : wire'[i] = <<i, i>>
    BY <1>1, <2>1 DEF InLine
  <2> QED
    BY <1>1, <2>3, <2>4, <2>5, <2>7, <2>8, <2>9, <2>10, <2>11 DEF InLine
<1> QED
  BY <1>1, <1>2 DEF SendInv, Filling

LEMMA TakeStep ==
  ASSUME TypeOK, SendInv, SendTakesSlot
  PROVE  SendInv'
<1>1. /\ pc = "take_slot" /\ pc' = "copy_first" /\ sending # 0
      /\ tx_slot' = (slot + 1) % SLOTS \/ tx_slot' = (tx_slot + 1) % SLOTS
      /\ UNCHANGED <<tx_buffers, started, clean, given, slot, sending, next_descriptor, wire>>
  BY DEF SendTakesSlot, SendInv, Filling
<1>2. ASSUME clean PROVE InLine'
  <2>1. InLine
    BY <1>2 DEF SendInv
  <2>2. sending = given /\ sending \in Queued /\ slot = PlaceOf(sending) /\ tx_slot = slot
    BY <1>1, <2>1 DEF InLine
  <2>3. tx_slot' = Turn(next_descriptor, Waiting)
    <3> DEFINE x == sending - Len(wire) - 1
    <3>1. x \in Nat /\ x <= SLOTS /\ x + 1 = Waiting /\ next_descriptor \in Slots
      BY <2>1, <2>2, QueuedAre, SendTypes DEF Waiting
    <3>2. slot = Turn(next_descriptor, x)
      BY <2>2 DEF PlaceOf
    <3> HIDE DEF x
    <3> QED
      BY <1>1, <2>2, <3>1, <3>2, TurnNext
  <2> QED
    BY <1>1, <2>1, <2>2, <2>3 DEF InLine, Waiting, Queued, PlaceOf
<1> QED
  BY <1>1, <1>2 DEF SendInv, Filling

(* A slot that is filled while nobody else has it.                             *)
LEMMA CopyStep ==
  ASSUME TypeOK, SendInv, NEW half \in {1, 2}, SendCopies(half),
         \/ half = 1 /\ pc = "copy_first" /\ pc' = "copy_second"
         \/ half = 2 /\ pc = "copy_second" /\ pc' = "start"
  PROVE  SendInv'
<1>1. /\ sending # 0 /\ pc \in {"copy_first", "copy_second"} /\ pc' \in {"copy_second", "start"}
      /\ tx_buffers' = [tx_buffers EXCEPT ![slot][half] = sending]
      /\ clean' = (clean /\ ~started[slot])
      /\ UNCHANGED <<tx_slot, started, given, slot, sending, next_descriptor, wire>>
  BY DEF SendCopies, SendInv, Filling
<1>2. ASSUME clean' PROVE InLine'
  <2>1. InLine /\ ~started[slot]
    BY <1>1, <1>2 DEF SendInv
  <2>2. sending \in Queued /\ slot = PlaceOf(sending)
    BY <1>1, <2>1 DEF InLine
  <2>3. Waiting <= SLOTS
    <3> SUFFICES ASSUME ~(Waiting <= SLOTS) PROVE FALSE
      OBVIOUS
    <3>1. Waiting = SLOTS + 1 /\ sending = given
      BY <2>1 DEF InLine
    <3>2. /\ SLOTS \in Nat \ {0} /\ given \in Nat /\ Len(wire) \in Nat /\ next_descriptor \in Slots
      BY SendTypes
    <3> DEFINE g == Len(wire) + 1
    <3>3. g \in Queued /\ g # sending /\ g - Len(wire) - 1 = 0 /\ sending - Len(wire) - 1 = 0 + SLOTS
      BY <3>1, <3>2 DEF Waiting, Queued
    <3>4. PlaceOf(g) = slot
      BY <2>2, <3>2, <3>3, TurnRound DEF PlaceOf
    <3> QED
      BY <2>1, <3>3, <3>4 DEF InLine
  <2>4. slot \in Slots /\ tx_buffers \in [Slots -> Nat \X Nat]
    BY SendTypes
  <2>5. \A s \in Slots : s # slot => tx_buffers'[s] = tx_buffers[s]
    BY <1>1, <2>4
  <2>6. \A g \in Queued : g # sending => PlaceOf(g) \in Slots /\ PlaceOf(g) # slot
    BY <2>1, <2>2, <2>3, Apart, QueuedAre
  <2>7. tx_buffers'[slot][half] = sending /\ (half = 2 => tx_buffers'[slot][1] = tx_buffers[slot][1])
    <3>1. tx_buffers[slot] \in Nat \X Nat
      BY <2>4
    <3>2. tx_buffers'[slot] = [tx_buffers[slot] EXCEPT ![half] = sending]
      BY <1>1, <2>4
    <3> QED
      BY <3>1, <3>2
  <2>8. \A g \in Queued : g # sending =>
            started'[PlaceOf(g)] /\ tx_buffers'[PlaceOf(g)] = <<g, g>>
    BY <1>1, <2>1, <2>5, <2>6 DEF InLine
  <2>9. Waiting' = Waiting /\ Queued' = Queued /\ \A g : PlaceOf(g)' = PlaceOf(g)
    BY <1>1 DEF Waiting, Queued, PlaceOf
  <2>10. pc' = "start" => half = 2 /\ tx_buffers[slot][1] = sending
    BY <2>1 DEF InLine
  <2>11. /\ pc' \in {"copy_second", "start"} => ~started'[slot'] /\ tx_buffers'[slot'][1] = sending'
         /\ pc' = "start" => tx_buffers'[slot'][2] = sending'
    BY <1>1, <2>1, <2>7, <2>10
  <2>12. /\ Len(wire') <= given' /\ Waiting' <= SLOTS
         /\ pc' # "take_slot" /\ tx_slot' = Turn(next_descriptor', Waiting')
    BY <1>1, <2>1, <2>3, <2>9 DEF InLine
  <2>13. \A s \in Slots : started'[s] => \E g \in Queued' : g # sending' /\ s = PlaceOf(g)'
    BY <1>1, <2>1, <2>9 DEF InLine
  <2>14. \A i \in DOMAIN wire' : wire'[i] = <<i, i>>
    BY <1>1, <2>1 DEF InLine
  <2> QED
    BY <1>1, <2>2, <2>8, <2>9, <2>11, <2>12, <2>13, <2>14 DEF InLine
<1> QED
  BY <1>1, <1>2 DEF SendInv, Filling

LEMMA StartStep ==
  ASSUME TypeOK, SendInv, SendStarts
  PROVE  SendInv'
<1>1. /\ pc = "start" /\ pc' \notin Filling /\ sending # 0 /\ sending' = 0
      /\ started' = [started EXCEPT ![slot] = TRUE]
      /\ UNCHANGED <<tx_slot, tx_buffers, clean, given, slot, next_descriptor, wire>>
  BY DEF SendStarts, SendInv, Filling, TypeOK
<1>2. ASSUME clean PROVE InLine'
  <2>1. InLine
    BY <1>2 DEF SendInv
  <2>2. /\ sending \in Queued /\ slot = PlaceOf(sending) /\ Waiting <= SLOTS
        /\ tx_buffers[slot][1] = sending /\ tx_buffers[slot][2] = sending
    BY <1>1, <2>1 DEF InLine
  <2>3. slot \in Slots /\ started \in [Slots -> BOOLEAN] /\ tx_buffers[slot] \in Nat \X Nat
    BY SendTypes
  <2>4. tx_buffers[slot] = <<sending, sending>>
    BY <2>2, <2>3
  <2>5. /\ started'[slot]
        /\ \A s \in Slots : started[s] => started'[s]
        /\ \A s \in Slots : started'[s] => started[s] \/ s = slot
    BY <1>1, <2>3
  <2>6. Waiting' = Waiting /\ Queued' = Queued /\ \A g : PlaceOf(g)' = PlaceOf(g)
    BY <1>1 DEF Waiting, Queued, PlaceOf
  <2>7. \A g \in Queued : started'[PlaceOf(g)] /\ tx_buffers[PlaceOf(g)] = <<g, g>>
    <3> SUFFICES ASSUME NEW g \in Queued
                 PROVE  started'[PlaceOf(g)] /\ tx_buffers[PlaceOf(g)] = <<g, g>>
      OBVIOUS
    <3>1. PlaceOf(g) \in Slots
      BY <2>1, QueuedAre
    <3>2. g # sending => started[PlaceOf(g)] /\ tx_buffers[PlaceOf(g)] = <<g, g>>
      BY <2>1 DEF InLine
    <3> QED
      BY <2>2, <2>4, <2>5, <3>1, <3>2
  <2>8. \A s \in Slots : started'[s] => \E g \in Queued : g # 0 /\ s = PlaceOf(g)
    <3>1. \A g \in Queued : g # 0
      BY SendTypes DEF Queued
    <3>2. \A s \in Slots : started[s] => \E g \in Queued : s = PlaceOf(g)
      BY <2>1 DEF InLine
    <3> QED
      BY <2>2, <2>5, <3>1, <3>2
  <2>9. /\ Len(wire') <= given' /\ Waiting' <= SLOTS
        /\ pc' \notin Filling /\ tx_slot' = Turn(next_descriptor', Waiting')
    BY <1>1, <2>1, <2>2, <2>6 DEF InLine
  <2>10. \A i \in DOMAIN wire' : wire'[i] = <<i, i>>
    BY <1>1, <2>1 DEF InLine
  <2> QED
    BY <1>1, <2>6, <2>7, <2>8, <2>9, <2>10 DEF InLine, Filling
<1> QED
  BY <1>1, <1>2 DEF SendInv

LEMMA ShellStep ==
  ASSUME TypeOK, SendInv, ShellSends
  PROVE  SendInv'
<1>1. /\ given' = given + 1
      /\ tx_buffers' = [tx_buffers EXCEPT ![tx_slot] = <<given + 1, given + 1>>]
      /\ started' = [started EXCEPT ![tx_slot] = TRUE]
      /\ clean' = (clean /\ ~started[tx_slot] /\ ~(sending # 0 /\ slot = tx_slot))
      /\ tx_slot' = (tx_slot + 1) % SLOTS
      /\ UNCHANGED <<slot, sending, next_descriptor, wire, pc>>
  BY DEF ShellSends
<1>2. ASSUME clean' PROVE InLine'
  <2>1. InLine /\ ~started[tx_slot] /\ ~(sending # 0 /\ slot = tx_slot)
    BY <1>1, <1>2 DEF SendInv
  <2>2. pc # "take_slot"
    BY <2>1 DEF InLine, SendInv, Filling
  <2>3. /\ SLOTS \in Nat \ {0} /\ given \in Nat /\ sending \in Nat /\ Len(wire) \in Nat
        /\ next_descriptor \in Slots /\ tx_slot \in Slots /\ slot \in Slots
        /\ tx_buffers \in [Slots -> Nat \X Nat] /\ started \in [Slots -> BOOLEAN]
    BY SendTypes
  <2>4. Len(wire) <= given /\ Waiting \in Nat /\ Waiting < SLOTS
    <3>1. Len(wire) <= given /\ Waiting \in Nat
      BY <2>1, <2>3 DEF InLine, Waiting
    <3> QED
      BY <2>1, <2>2, <2>3, <3>1, FullIsSeen
  <2>5. Waiting' = Waiting + 1 /\ Queued' = Queued \cup {given + 1}
    BY <1>1, <2>3, <2>4 DEF Waiting, Queued
  <2>6. \A g : PlaceOf(g)' = PlaceOf(g)
    BY <1>1 DEF PlaceOf
  <2>7. tx_slot = Turn(next_descriptor, Waiting) /\ PlaceOf(given + 1) = tx_slot
    <3>1. (given + 1) - Len(wire) - 1 = Waiting
      BY <2>3 DEF Waiting
    <3> QED
      BY <2>1, <2>2, <3>1 DEF InLine, PlaceOf
  <2>8. tx_slot' = Turn(next_descriptor, Waiting + 1)
    BY <1>1, <2>3, <2>4, <2>7, TurnNext
  <2>9. \A g \in Queued : PlaceOf(g) \in Slots /\ PlaceOf(g) # tx_slot
    <3> SUFFICES ASSUME NEW g \in Queued
                 PROVE  PlaceOf(g) \in Slots /\ PlaceOf(g) # tx_slot
      OBVIOUS
    <3> DEFINE x == g - Len(wire) - 1
    <3>1. x \in Nat /\ x < Waiting /\ PlaceOf(g) \in Slots
      BY <2>1, QueuedAre
    <3>2. PlaceOf(g) = Turn(next_descriptor, x)
      BY DEF PlaceOf
    <3> HIDE DEF x
    <3>3. Waiting < x + SLOTS /\ Waiting <= SLOTS + 1
      BY <2>3, <2>4, <3>1
    <3> QED
      BY <2>3, <2>4, <2>7, <3>1, <3>2, <3>3, TurnApart
  <2>10. /\ started'[tx_slot] /\ tx_buffers'[tx_slot] = <<given + 1, given + 1>>
         /\ \A s \in Slots : s # tx_slot => started'[s] = started[s] /\ tx_buffers'[s] = tx_buffers[s]
    BY <1>1, <2>3
  <2>11. \A g \in Queued' : g # sending' =>
             started'[PlaceOf(g)'] /\ tx_buffers'[PlaceOf(g)'] = <<g, g>>
    <3>1. \A g \in Queued : g # sending => started[PlaceOf(g)] /\ tx_buffers[PlaceOf(g)] = <<g, g>>
      BY <2>1 DEF InLine
    <3>2. \A g \in Queued : g # sending => started'[PlaceOf(g)] /\ tx_buffers'[PlaceOf(g)] = <<g, g>>
      BY <2>9, <2>10, <3>1
    <3> QED
      BY <1>1, <2>5, <2>6, <2>7, <2>10, <3>2
  <2>12. sending # given + 1 /\ (sending # 0 => sending \in Queued /\ slot = PlaceOf(sending))
    BY <2>1, <2>3 DEF InLine, Queued, SendInv
  <2>13. \A s \in Slots : started'[s] => \E g \in Queued' : g # sending' /\ s = PlaceOf(g)'
    <3>1. \A s \in Slots : started[s] => \E g \in Queued : g # sending /\ s = PlaceOf(g)
      BY <2>1 DEF InLine
    <3> QED
      BY <1>1, <2>5, <2>6, <2>7, <2>10, <2>12, <3>1
  <2>14. sending # 0 <=> pc \in Filling
    BY DEF SendInv
  <2>15. /\ pc \in {"copy_second", "start"} => ~started'[slot] /\ tx_buffers'[slot][1] = sending
         /\ pc = "start" => tx_buffers'[slot][2] = sending
    BY <2>1, <2>3, <2>10, <2>14 DEF InLine, Filling
  <2>16. Len(wire') <= given' /\ Waiting' <= SLOTS
    BY <1>1, <2>3, <2>4, <2>5
  <2>17. \A i \in DOMAIN wire' : wire'[i] = <<i, i>>
    BY <1>1, <2>1 DEF InLine
  <2>18. sending' # 0 => sending' \in Queued' /\ slot' = PlaceOf(sending)'
    BY <1>1, <2>5, <2>6, <2>12
  <2> QED
    BY <1>1, <2>2, <2>5, <2>8, <2>11, <2>13, <2>15, <2>16, <2>17, <2>18 DEF InLine
<1> QED
  BY <1>1, <1>2 DEF SendInv

LEMMA TransmitStep ==
  ASSUME TypeOK, SendInv, CardTransmits
  PROVE  SendInv'
<1>1. /\ started[next_descriptor]
      /\ wire' = Append(wire, tx_buffers[next_descriptor])
      /\ started' = [started EXCEPT ![next_descriptor] = FALSE]
      /\ next_descriptor' = (next_descriptor + 1) % SLOTS
      /\ UNCHANGED <<tx_slot, tx_buffers, clean, given, slot, sending, pc>>
  BY DEF CardTransmits
<1>2. ASSUME clean PROVE InLine'
  <2> DEFINE w == Len(wire)
             first == w + 1
  <2>1. InLine
    BY <1>2 DEF SendInv
  <2>2. /\ SLOTS \in Nat \ {0} /\ given \in Nat /\ sending \in Nat /\ w \in Nat
        /\ next_descriptor \in Slots /\ slot \in Slots /\ wire \in Seq(Nat \X Nat)
        /\ tx_buffers \in [Slots -> Nat \X Nat] /\ started \in [Slots -> BOOLEAN]
    BY SendTypes
  <2>3. Len(wire') = w + 1 /\ wire'[w + 1] = tx_buffers[next_descriptor]
        /\ \A i \in 1 .. w : wire'[i] = wire[i]
    BY <1>1, <2>2
  \* A queued frame with the card's slot is the first, or one still to be copied.
  <2>4. ASSUME NEW g \in Queued, g # sending, PlaceOf(g) = next_descriptor
        PROVE  g = first
    <3> DEFINE x == g - Len(wire) - 1
    <3>1. x \in Nat /\ x < Waiting /\ Waiting \in Nat /\ g \in Nat /\ Turn(next_descriptor, x) = next_descriptor
      BY <2>1, <2>4, QueuedAre DEF PlaceOf
    <3>2. x < SLOTS
      <4>1. CASE Waiting <= SLOTS
        BY <2>2, <3>1, <4>1
      <4>2. CASE Waiting = SLOTS + 1 /\ sending = given
        <5>1. x # SLOTS
          BY <2>2, <2>4, <3>1, <4>2 DEF Waiting
        <5> HIDE DEF x
        <5> QED
          BY <2>2, <3>1, <4>2, <5>1
      <4> QED
        BY <2>1, <4>1, <4>2 DEF InLine
    <3>3. x = 0
      <4> HIDE DEF x
      <4>1. ASSUME 0 < x PROVE FALSE
        <5>1. x < 0 + SLOTS /\ x <= SLOTS + 1
          BY <2>2, <3>1, <3>2
        <5>2. Turn(next_descriptor, 0) # Turn(next_descriptor, x)
          BY <2>2, <3>1, <4>1, <5>1, TurnApart
        <5> QED
          BY <2>2, <3>1, <5>2, TurnZero
      <4> QED
        BY <3>1, <4>1
    <3> QED
      BY <2>2, <3>1, <3>3
  <2>5. /\ first \in Queued /\ first # sending
        /\ tx_buffers[next_descriptor] = <<first, first>>
    <3>1. PICK g \in Queued : g # sending /\ next_descriptor = PlaceOf(g)
      BY <1>1, <2>1, <2>2 DEF InLine
    <3>2. g = first
      BY <2>4, <3>1
    <3> QED
      BY <2>1, <3>1, <3>2 DEF InLine
  <2>6. given >= w + 1 /\ Queued' = w + 2 .. given /\ Waiting' = Waiting - 1
        /\ Waiting \in Nat /\ Waiting <= SLOTS + 1 /\ Waiting >= 1
    <3>1. given >= w + 1
      BY <2>2, <2>5 DEF Queued
    <3>2. Waiting \in Nat /\ Waiting <= SLOTS + 1
      BY <2>1, <2>5, QueuedAre
    <3> QED
      BY <1>1, <2>2, <2>3, <3>1, <3>2 DEF Queued, Waiting
  <2>a. Queued = w + 1 .. given
    BY DEF Queued
  <2>7. \A g \in Queued' : g \in Queued /\ g # first
    <3>1. \A g \in w + 2 .. given : g \in w + 1 .. given /\ g # w + 1
      BY <2>2
    <3> QED
      BY <2>6, <2>a, <3>1
  <2>8. \A g \in Queued : g # first => g \in Queued'
    <3>1. \A g \in w + 1 .. given : g # w + 1 => g \in w + 2 .. given
      BY <2>2
    <3> QED
      BY <2>6, <2>a, <3>1
  <2>9. \A g \in Queued' : PlaceOf(g)' = PlaceOf(g)
    <3> SUFFICES ASSUME NEW g \in Queued' PROVE PlaceOf(g)' = PlaceOf(g)
      OBVIOUS
    <3>1. PICK y : y = g - w - 2
      OBVIOUS
    <3>2. g \in Queued /\ g - w - 1 <= SLOTS /\ g \in Nat
      BY <2>1, <2>7, QueuedAre
    <3>3. y \in Nat /\ y <= SLOTS /\ g - w - 1 = y + 1
      BY <2>2, <2>6, <3>1, <3>2
    <3>4. g - (w + 1) - 1 = y
      BY <2>2, <3>1, <3>2
    <3>5. Turn((next_descriptor + 1) % SLOTS, y) = Turn(next_descriptor, y + 1)
      BY <2>2, <3>3, TurnOn
    <3> QED
      BY <1>1, <2>3, <3>3, <3>4, <3>5 DEF PlaceOf
  <2>10. /\ ~started'[next_descriptor]
         /\ \A s \in Slots : s # next_descriptor => started'[s] = started[s]
    BY <1>1, <2>2
  <2>11. \A g \in Queued' : g # sending' =>
             started'[PlaceOf(g)'] /\ tx_buffers'[PlaceOf(g)'] = <<g, g>>
    <3> SUFFICES ASSUME NEW g \in Queued', g # sending
                 PROVE  started'[PlaceOf(g)] /\ tx_buffers[PlaceOf(g)] = <<g, g>>
      BY <1>1, <2>9
    <3>1. g \in Queued /\ g # first
      BY <2>7
    <3>2. PlaceOf(g) # next_descriptor /\ PlaceOf(g) \in Slots
      BY <2>1, <2>4, <3>1, QueuedAre
    <3> QED
      BY <2>1, <2>10, <3>1, <3>2 DEF InLine
  <2>12. \A s \in Slots : started'[s] => \E g \in Queued' : g # sending' /\ s = PlaceOf(g)'
    <3> SUFFICES ASSUME NEW s \in Slots, started'[s]
                 PROVE  \E g \in Queued' : g # sending /\ s = PlaceOf(g)'
      BY <1>1
    <3>1. s # next_descriptor /\ started[s]
      BY <2>10
    <3>2. PICK g \in Queued : g # sending /\ s = PlaceOf(g)
      BY <2>1, <3>1 DEF InLine
    <3>3. g # first
      <4>1. first - Len(wire) - 1 = 0
        BY <2>2
      <4>2. PlaceOf(first) = next_descriptor
        BY <2>2, <4>1, TurnZero DEF PlaceOf
      <4> QED
        BY <3>1, <3>2, <4>2
    <3> QED
      BY <2>8, <2>9, <3>2, <3>3
  <2>13. sending' # 0 => sending' \in Queued' /\ slot' = PlaceOf(sending)'
    <3>1. sending # 0 => sending \in Queued /\ sending # first /\ slot = PlaceOf(sending)
      BY <2>1, <2>5 DEF InLine
    <3> QED
      BY <1>1, <2>8, <2>9, <3>1
  <2>14. tx_slot' = IF pc' = "take_slot" THEN slot' ELSE Turn(next_descriptor', Waiting')
    <3>1. PICK y : y = Waiting - 1
      OBVIOUS
    <3>2. y \in Nat /\ y <= SLOTS /\ Waiting = y + 1 /\ Waiting' = y
      BY <2>2, <2>6, <3>1
    <3>3. Turn((next_descriptor + 1) % SLOTS, y) = Turn(next_descriptor, y + 1)
      BY <2>2, <3>2, TurnOn
    <3> QED
      BY <1>1, <2>1, <3>2, <3>3 DEF InLine
  <2>15. Len(wire') <= given' /\ Waiting' <= SLOTS
    BY <1>1, <2>2, <2>3, <2>6
  <2>16. \A i \in DOMAIN wire' : wire'[i] = <<i, i>>
    <3>1. \A i \in 1 .. w : wire[i] = <<i, i>>
      BY <2>1, <2>2 DEF InLine
    <3>2. \A i \in 1 .. w + 1 : wire'[i] = <<i, i>>
      <4>1. wire'[w + 1] = <<w + 1, w + 1>>
        BY <2>3, <2>5
      <4>2. \A i \in 1 .. w + 1 : i \in 1 .. w \/ i = w + 1
        BY <2>2, OneMore
      <4> QED
        BY <2>3, <3>1, <4>1, <4>2
    <3>3. DOMAIN wire' = 1 .. w + 1
      BY <1>1, <2>2, <2>3
    <3> QED
      BY <3>2, <3>3
  <2>17. /\ pc' = "take_slot" => sending' = given'
         /\ pc' \in {"copy_second", "start"} => ~started'[slot'] /\ tx_buffers'[slot'][1] = sending'
         /\ pc' = "start" => tx_buffers'[slot'][2] = sending'
    BY <1>1, <2>1, <2>2, <2>10 DEF InLine
  <2> HIDE DEF w, first
  <2> QED
    BY <2>11, <2>12, <2>13, <2>14, <2>15, <2>16, <2>17 DEF InLine
<1> QED
  BY <1>1, <1>2 DEF SendInv

LEMMA SendStep ==
  ASSUME TypeOK, SendInv, [Next]_vars
  PROVE  SendInv'
<1>1. CASE UNCHANGED vars
  BY <1>1, SameSending DEF vars
<1>2. CASE pci_find_device \/ rtl8139_init \/ rtl8139_poll \/ net_periodic_idle \/ ReplyNothing
  BY <1>2, NotSending DEF pci_find_device, rtl8139_init, rtl8139_poll, net_periodic_idle,
     ReplyNothing, Filling
<1>3. CASE Receive
  BY <1>3, NotSending DEF Receive, ReceiveHeader, ReceiveFrame, ReceiveAdvance, ReceiveNothing,
     ReceiveEnds, Filling
<1>4. CASE SendCopiesFirst \/ SendCopiesSecond
  BY <1>4, CopyStep DEF SendCopiesFirst, SendCopiesSecond
<1>5. CASE rtl8139_handle_irq
  BY <1>5, SameSending DEF rtl8139_handle_irq
<1>6. CASE \E len \in PacketLengths : CardStores(len) \/ CardDrops(len)
  BY <1>6, SameSending DEF CardStores, CardDrops
<1> QED
  BY <1>1, <1>2, <1>3, <1>4, <1>5, <1>6, BeginStep, TakeStep, StartStep, ShellStep, TransmitStep
  DEF Next, MainLoop, Send, Card

LEMMA SendStart ==
  ASSUME Init
  PROVE  SendInv
<1>1. 0 \in Slots /\ 1 .. 0 = {}
  BY SlotsAre DEF Slots
<1>2. Len(wire) = 0 /\ given = 0 /\ Waiting = 0 /\ Queued = {} /\ DOMAIN wire = {}
  <2>1. wire = <<>> /\ given = 0
    BY DEF Init
  <2>2. Len(wire) = 0 /\ DOMAIN wire = {}
    BY <2>1
  <2>3. Waiting = 0
    <3>1. given - Len(wire) = 0
      <4>1. given = 0 /\ Len(wire) = 0
        BY <2>1, <2>2
      <4> QED
        BY <4>1
    <3> QED
      BY <3>1 DEF Waiting
  <2>4. \A g : g \notin Queued
    <3>1. \A g \in Queued : 1 <= g /\ g <= 0
      BY <2>1, <2>2 DEF Queued
    <3> QED
      BY <3>1 DEF Queued
  <2> QED
    BY <2>1, <2>2, <2>3, <2>4
<1>3. tx_slot = Turn(next_descriptor, Waiting)
  BY <1>1, <1>2, TurnZero DEF Init
<1> QED
  BY <1>2, <1>3, SlotsAre DEF Init, SendInv, InLine, Filling

-----------------------------------------------------------------------------
(* The result *)

(* As long as no slot was shared by the main loop and the shell or filled      *)
(* before the card was done with it, the frames on the wire are those given,   *)
(* whole, once each and in order, for any number of slots and of frames, though *)
(* the shell may send in the middle of a send of the main loop (rtl8139.c lines *)
(* 161-174).                                                                   *)
THEOREM FramesAreSentWhole == FairSpec => []SentWhole
<1>1. TypeOK /\ SendInv /\ [Next]_vars => SendInv'
  BY SendStep
<1>2. SendInv => SentWhole
  BY DEF SendInv, InLine, SentWhole
<1> QED
  BY TypeCorrect, SendStart, <1>1, <1>2, PTL DEF FairSpec

-----------------------------------------------------------------------------
(* An option that is found.                                                *)

(* Where the search goes on from place i, if it does.                      *)
Goes(options, i) ==
    /\ i \in DOMAIN options /\ options[i] # 255
    /\ options[i] = 0 \/ i < Len(options)
After(options, i) == IF options[i] = 0 THEN i + 1 ELSE i + 2 + options[i + 1]
Onward(options, A) ==
    A \cup UNION {IF options[i] = 255 THEN {}
                  ELSE IF options[i] = 0 THEN {i + 1}
                  ELSE IF i = Len(options) THEN {}
                  ELSE {i + 2 + options[i + 1]} : i \in A \cap DOMAIN options}

LEMMA AfterIsLater ==
    ASSUME NEW options \in Seq(Nat), NEW i \in Nat, Goes(options, i)
    PROVE  After(options, i) \in Nat /\ After(options, i) > i
<1>1. i \in DOMAIN options /\ options[i] \in Nat
  BY DEF Goes
<1>2. CASE options[i] = 0
  BY <1>2 DEF After
<1>3. CASE options[i] # 0
  <2>1. i + 1 \in DOMAIN options /\ options[i + 1] \in Nat
    BY <1>1, <1>3 DEF Goes
  <2> QED
    BY <1>3, <2>1 DEF After
<1> QED
  BY <1>2, <1>3

LEMMA OnwardHas ==
    ASSUME NEW options \in Seq(Nat), NEW A \in SUBSET (Nat \ {0})
    PROVE  /\ A \subseteq Onward(options, A)
           /\ \A i \in A : Goes(options, i) => After(options, i) \in Onward(options, A)
           /\ \A j \in Onward(options, A) :
                 j \in A \/ \E i \in A : Goes(options, i) /\ j = After(options, i)
<1> DEFINE step(i) == IF options[i] = 255 THEN {}
                      ELSE IF options[i] = 0 THEN {i + 1}
                      ELSE IF i = Len(options) THEN {}
                      ELSE {i + 2 + options[i + 1]}
<1>1. Onward(options, A) = A \cup UNION {step(i) : i \in A \cap DOMAIN options}
  BY Zenon DEF Onward
<1>2. ASSUME NEW i \in A \cap DOMAIN options
      PROVE  step(i) = IF Goes(options, i) THEN {After(options, i)} ELSE {}
  <2>1. i \in Nat /\ i <= Len(options) /\ Len(options) \in Nat /\ i \in DOMAIN options
    OBVIOUS
  <2>2. Goes(options, i) <=> options[i] # 255 /\ (options[i] = 0 \/ i # Len(options))
    BY <2>1 DEF Goes
  <2>3. CASE options[i] = 255 \/ (options[i] # 0 /\ i = Len(options))
    BY <2>2, <2>3
  <2>4. CASE options[i] = 0
    BY <2>2, <2>4 DEF After
  <2>5. CASE options[i] # 255 /\ options[i] # 0 /\ i # Len(options)
    BY <2>2, <2>5 DEF After
  <2> HIDE DEF step
  <2> QED
    BY <2>3, <2>4, <2>5
<1>3. \A i \in A : Goes(options, i) => i \in A \cap DOMAIN options
  BY DEF Goes
<1> HIDE DEF step
<1> QED
  BY <1>1, <1>2, <1>3

(* The places where options begin are a chain from the first.              *)
LEMMA StartsChain ==
    ASSUME NEW options \in Seq(Nat)
    PROVE  /\ Starts(options) \in SUBSET (Nat \ {0})
           /\ 1 \in Starts(options)
           /\ \A i \in Starts(options) : Goes(options, i) => After(options, i) \in Starts(options)
           /\ \A i, o \in Starts(options) :
                  o < i => Goes(options, o) /\ After(options, o) <= i
<1> DEFINE N == Len(options)
           T == SUBSET (Nat \ {0})
           step == [n \in Nat |-> [A \in T |-> Onward(options, A)]]
           f[n \in 0 .. N] == IF n = 0 THEN {1} ELSE Onward(options, f[n - 1])
<1>1. N \in Nat
  OBVIOUS
<1>2. f[N] = Starts(options)
  BY Zenon DEF Starts, Onward
<1>3. \A A \in T : Onward(options, A) \in T
  <2> SUFFICES ASSUME NEW A \in T, NEW j \in Onward(options, A)
               PROVE  j \in Nat \ {0}
    OBVIOUS
  <2>1. CASE j \in A
    BY <2>1
  <2>2. CASE j \notin A
    <3>1. PICK i \in A : Goes(options, i) /\ j = After(options, i)
      BY <2>2, OnwardHas
    <3>2. i \in Nat
      OBVIOUS
    <3> QED
      BY <3>1, <3>2, AfterIsLater
  <2> QED
    BY <2>1, <2>2
<1>4. {1} \in T
  OBVIOUS
<1>5. step \in [Nat -> [T -> T]] /\ \A n \in Nat : \A A \in T : step[n][A] = Onward(options, A)
  BY <1>3
<1> HIDE DEF step, N, T
<1>6. PICK g \in [0 .. N -> T] : Follows(g, N, {1}, step)
  BY <1>1, <1>4, <1>5, RecursionExists
<1>7. g = [n \in 0 .. N |-> IF n = 0 THEN {1} ELSE Onward(options, g[n - 1])]
  <2>1. ASSUME NEW n \in 0 .. N, n # 0
        PROVE  step[n][g[n - 1]] = Onward(options, g[n - 1])
    <3>1. n \in Nat /\ n - 1 \in 0 .. N
      BY <2>1, <1>1
    <3>2. g[n - 1] \in T
      BY <1>6, <3>1
    <3> QED
      BY <1>5, <3>1, <3>2
  <2> QED
    BY <1>6, <2>1, Zenon DEF Follows
<1>8. f = [n \in 0 .. N |-> IF n = 0 THEN {1} ELSE Onward(options, f[n - 1])]
  BY <1>7, Zenon
<1> HIDE DEF f
<1>9. \A n \in 0 .. N : f[n] = IF n = 0 THEN {1} ELSE Onward(options, f[n - 1])
  BY <1>8, Zenon
<1>10. f[0] = {1} /\ \A n \in 0 .. N - 1 : f[n + 1] = Onward(options, f[n])
  <2>1. \A n \in 0 .. N - 1 : n + 1 \in 0 .. N /\ n + 1 # 0 /\ (n + 1) - 1 = n
    BY <1>1
  <2>2. 0 \in 0 .. N
    BY <1>1
  <2> QED
    BY <1>9, <2>1, <2>2
(* Every set has the ones before, and is a set of places after 0.          *)
<1> DEFINE Low(n) == \A m \in 0 .. n : \A i \in f[n] : i <= m + 1 => i \in f[m]
           From(n) == \A i \in f[n] : i = 1 \/ \E p \in f[n] : Goes(options, p) /\ i = After(options, p)
           S == {n \in 0 .. N : f[n] \in T /\ 1 \in f[n] /\ From(n)}
           R == {n \in 0 .. N : Low(n)}
<1>11. 0 .. N \subseteq S
  <2>1. 0 \in S
    <3>1. 0 \in 0 .. N
      BY <1>1
    <3>2. f[0] \in T /\ 1 \in f[0] /\ \A i \in f[0] : i = 1
      BY <1>4, <1>10
    <3> QED
      BY <3>1, <3>2
  <2>2. ASSUME NEW n \in 0 .. N - 1, n \in S
        PROVE  n + 1 \in S
    <3>1. f[n] \in T /\ 1 \in f[n] /\ From(n) /\ f[n + 1] = Onward(options, f[n])
      BY <1>10, <2>2
    <3>2. f[n + 1] \in T
      BY <1>3, <3>1
    <3>3. /\ f[n] \subseteq f[n + 1]
          /\ \A j \in f[n + 1] : j \in f[n] \/ \E i \in f[n] : Goes(options, i) /\ j = After(options, i)
      BY <3>1, OnwardHas DEF T
    <3>4. From(n + 1)
      BY <3>1, <3>3
    <3> QED
      BY <1>1, <3>1, <3>2, <3>3, <3>4
  <2> HIDE DEF S
  <2> QED
    BY <1>1, <2>1, <2>2, InductionUpTo
<1>a. /\ \A n \in 0 .. N : f[n] \in SUBSET (Nat \ {0}) /\ 1 \in f[n] /\ From(n)
      /\ \A n \in 0 .. N : n # 0 => n - 1 \in 0 .. N /\ f[n] = Onward(options, f[n - 1])
      /\ \A n \in 0 .. N - 1 : n \in 0 .. N
  <2>1. \A n \in 0 .. N : f[n] \in SUBSET (Nat \ {0}) /\ 1 \in f[n] /\ From(n)
    BY <1>11 DEF T
  <2> QED
    BY <1>1, <1>9, <2>1
<1>12. 0 .. N \subseteq R
  <2>1. 0 \in R
    BY <1>1
  <2>2. ASSUME NEW n \in 0 .. N - 1, n \in R
        PROVE  n + 1 \in R
    <3>1. f[n + 1] = Onward(options, f[n]) /\ f[n] \in SUBSET (Nat \ {0}) /\ Low(n)
      BY <1>10, <1>a, <2>2
    <3>2. ASSUME NEW m \in 0 .. n + 1, NEW i \in f[n + 1], i <= m + 1
          PROVE  i \in f[m]
      <4>1. CASE m = n + 1
        BY <4>1
      <4>2. CASE m # n + 1 /\ i \in f[n]
        <5>1. m \in 0 .. n
          BY <4>2
        <5> QED
          BY <3>1, <3>2, <4>2, <5>1
      <4>3. CASE m # n + 1 /\ i \notin f[n]
        <5>1. PICK p \in f[n] : Goes(options, p) /\ i = After(options, p)
          BY <3>1, <4>3, OnwardHas
        <5>2. p \in Nat /\ p # 0 /\ i \in Nat /\ p < i
          BY <3>1, <5>1, AfterIsLater
        <5>3. m - 1 \in 0 .. n /\ p <= (m - 1) + 1 /\ m \in 0 .. N /\ m # 0
          BY <1>1, <3>2, <4>3, <5>2
        <5>4. p \in f[m - 1]
          BY <3>1, <5>3
        <5>5. f[m] = Onward(options, f[m - 1]) /\ f[m - 1] \in SUBSET (Nat \ {0})
          BY <1>a, <5>3
        <5> QED
          BY <5>1, <5>4, <5>5, OnwardHas
      <4> QED
        BY <4>1, <4>2, <4>3
    <3>3. n + 1 \in 0 .. N
      BY <1>1
    <3> QED
      BY <3>2, <3>3
  <2> HIDE DEF R
  <2> QED
    BY <1>1, <2>1, <2>2, InductionUpTo
<1>13. f[N] \in SUBSET (Nat \ {0}) /\ 1 \in f[N] /\ From(N) /\ Low(N)
  <2>1. N \in 0 .. N
    BY <1>1
  <2>2. N \in R
    BY <2>1, <1>12
  <2> QED
    BY <1>a, <2>1, <2>2
<1>14. ASSUME NEW i \in f[N], Goes(options, i)
       PROVE  After(options, i) \in f[N]
  <2>1. i \in 1 .. N
    BY <1>14 DEF Goes, N
  <2>2. i \in 0 .. N /\ i # 0 /\ i - 1 \in 0 .. N /\ i <= (i - 1) + 1
    BY <2>1, <1>1
  <2>3. i \in f[i - 1]
    BY <1>13, <2>2
  <2>4. f[i] = Onward(options, f[i - 1]) /\ f[i - 1] \in SUBSET (Nat \ {0})
    BY <1>a, <2>2
  <2>5. After(options, i) \in f[i]
    BY <1>14, <2>3, <2>4, OnwardHas
  <2>6. \A n \in 0 .. N : n >= i => f[i] \subseteq f[n]
    <3> DEFINE U == {n \in 0 .. N : n >= i => f[i] \subseteq f[n]}
    <3>1. 0 \in U
      BY <1>1, <2>1
    <3>2. ASSUME NEW n \in 0 .. N - 1, n \in U
          PROVE  n + 1 \in U
      <4>1. f[n + 1] = Onward(options, f[n]) /\ f[n] \in SUBSET (Nat \ {0})
        BY <1>10, <1>a
      <4>2. f[n] \subseteq f[n + 1]
        BY <4>1, OnwardHas
      <4>3. CASE n >= i
        BY <1>1, <3>2, <4>2, <4>3
      <4>4. CASE ~(n >= i)
        <5>1. n + 1 >= i => n + 1 = i
          BY <1>1, <2>1, <4>4
        <5> QED
          BY <1>1, <5>1
      <4> QED
        BY <4>3, <4>4
    <3> HIDE DEF U
    <3>3. 0 .. N \subseteq U
      BY <1>1, <3>1, <3>2, InductionUpTo
    <3> QED
      BY <3>3 DEF U
  <2>7. N \in 0 .. N /\ N >= i
    BY <1>1, <2>1
  <2> QED
    BY <2>5, <2>6, <2>7
<1>15. ASSUME NEW i \in f[N], NEW o \in f[N], o < i
       PROVE  Goes(options, o) /\ After(options, o) <= i
  <2> DEFINE Broken == {k \in f[N] : \E q \in f[N] :
                           q < k /\ ~(Goes(options, q) /\ After(options, q) <= k)}
  <2> SUFFICES ASSUME Broken # {} PROVE FALSE
    BY <1>15
  <2>1. Broken \in SUBSET Nat
    BY <1>13
  <2>2. PICK k \in Broken : \A j \in Broken : k <= j
    <3> HIDE DEF Broken
    <3> QED
      BY <2>1, LeastElement
  <2>3. PICK q \in f[N] : q < k /\ ~(Goes(options, q) /\ After(options, q) <= k)
    BY <2>2
  <2>4. k \in Nat /\ q \in Nat /\ q # 0 /\ k # 1
    BY <1>13, <2>2, <2>3
  <2>5. PICK p \in f[N] : Goes(options, p) /\ k = After(options, p)
    BY <1>13, <2>2, <2>4
  <2>6. p \in Nat /\ p < k
    BY <1>13, <2>5, AfterIsLater
  <2>7. p \notin Broken
    BY <2>2, <2>4, <2>6
  <2>8. CASE q < p
    <3>1. Goes(options, q) /\ After(options, q) <= p
      BY <2>7, <2>8
    <3>2. After(options, q) \in Nat
      BY <2>4, <3>1, AfterIsLater
    <3> QED
      BY <2>3, <2>4, <2>6, <3>1, <3>2
  <2>9. CASE q = p
    BY <2>3, <2>4, <2>5, <2>9
  <2>10. CASE p < q
    <3>1. q \notin Broken
      BY <2>2, <2>3, <2>4
    <3>2. After(options, p) <= q
      BY <2>10, <3>1
    <3> QED
      BY <2>3, <2>4, <2>5, <3>2
  <2> QED
    BY <2>4, <2>6, <2>8, <2>9, <2>10
<1> QED
  BY <1>2, <1>13, <1>14, <1>15

Results == [at : Nat, len : Nat]

(* The search from offset goes by its first step.                          *)
Searched(options, code, find) ==
    \A offset \in 1 .. Len(options) + 256 :
        find[offset] =
            IF offset > Len(options) \/ options[offset] = 255 THEN None
            ELSE IF options[offset] = 0 THEN find[offset + 1]
            ELSE IF offset + 1 > Len(options) THEN None
            ELSE IF offset + 1 + options[offset + 1] > Len(options) THEN None
            ELSE IF options[offset] = code THEN [at |-> offset + 2, len |-> options[offset + 1]]
            ELSE find[offset + 2 + options[offset + 1]]

(* dhcp_find_option is such a search.                                      *)
LEMMA FindSearches ==
    ASSUME NEW options \in Seq(Nat), NEW code
    PROVE  \E find : Searched(options, code, find) /\ dhcp_find_option(options, code) = find[1]
<1> DEFINE N == Len(options)
           M == N + 256
           body(offset, f) ==
               IF offset > Len(options) \/ options[offset] = 255 THEN None
               ELSE IF options[offset] = 0 THEN f[offset + 1]
               ELSE IF offset + 1 > Len(options) THEN None
               ELSE IF offset + 1 + options[offset + 1] > Len(options) THEN None
               ELSE IF options[offset] = code THEN [at |-> offset + 2, len |-> options[offset + 1]]
               ELSE f[offset + 2 + options[offset + 1]]
           step == [offset \in 1 .. M |-> [f \in [1 .. M -> Results] |-> body(offset, f)]]
           find[offset \in 1 .. Len(options) + 256] == body(offset, find)
<1>1. dhcp_find_option(options, code) = find[1]
  BY Zenon DEF dhcp_find_option
<1>2. N \in Nat /\ M \in Nat /\ M = N + 256 /\ M = Len(options) + 256 /\ N = Len(options)
  OBVIOUS
<1>3. None \in Results
  BY DEF None, Results
<1>4. \A offset \in 1 .. N : options[offset] \in Nat
  OBVIOUS
<1> HIDE DEF N, M
<1>5. ASSUME NEW offset \in 1 .. M, NEW f \in [1 .. M -> Results]
      PROVE  body(offset, f) \in Results
  <2>1. CASE offset > N
    BY <1>2, <1>3, <2>1
  <2>2. CASE offset <= N /\ (options[offset] = 255 \/ (options[offset] # 0 /\ offset + 1 > N))
    BY <1>2, <1>3, <2>2
  <2>3. CASE offset <= N /\ options[offset] # 255 /\ options[offset] = 0
    <3>1. offset + 1 \in 1 .. M
      BY <1>2, <2>3
    <3> QED
      BY <1>2, <2>3, <3>1
  <2>4. CASE offset + 1 <= N /\ options[offset] # 255 /\ options[offset] # 0
    <3>1. offset + 1 \in 1 .. N
      BY <1>2, <2>4
    <3>2. options[offset + 1] \in Nat
      BY <1>4, <3>1
    <3>3. CASE offset + 1 + options[offset + 1] > N
      BY <1>2, <1>3, <2>4, <3>3
    <3>4. CASE offset + 1 + options[offset + 1] <= N
      <4>1. offset + 2 + options[offset + 1] \in 1 .. M
        BY <1>2, <3>2, <3>4
      <4>2. f[offset + 2 + options[offset + 1]] \in Results
        BY <4>1
      <4>3. [at |-> offset + 2, len |-> options[offset + 1]] \in Results
        BY <3>2 DEF Results
      <4> QED
        BY <1>2, <2>4, <3>2, <3>4, <4>2, <4>3
    <3> QED
      BY <1>2, <3>2, <3>3, <3>4
  <2> QED
    BY <1>2, <2>1, <2>2, <2>3, <2>4
<1>6. ASSUME NEW offset \in 1 .. M, NEW f \in [1 .. M -> Results], NEW g \in [1 .. M -> Results],
             \A p \in offset + 1 .. M : f[p] = g[p]
      PROVE  body(offset, f) = body(offset, g)
  <2>1. CASE offset > N \/ options[offset] = 255 \/ (options[offset] # 0 /\ offset + 1 > N)
    BY <1>2, <2>1
  <2>2. CASE offset <= N /\ options[offset] # 255 /\ options[offset] = 0
    <3>1. offset + 1 \in offset + 1 .. M
      BY <1>2, <2>2
    <3>2. f[offset + 1] = g[offset + 1]
      BY <1>6, <3>1
    <3> QED
      BY <2>2, <3>2, Zenon
  <2>3. CASE offset + 1 <= N /\ options[offset] # 255 /\ options[offset] # 0
    <3>1. offset + 1 \in 1 .. N
      BY <1>2, <2>3
    <3>2. options[offset + 1] \in Nat
      BY <1>4, <3>1
    <3>3. CASE offset + 1 + options[offset + 1] > N
      BY <1>2, <2>3, <3>3
    <3>4. CASE offset + 1 + options[offset + 1] <= N
      <4>1. offset + 2 + options[offset + 1] \in offset + 1 .. M
        BY <1>2, <3>2, <3>4
      <4>2. f[offset + 2 + options[offset + 1]] = g[offset + 2 + options[offset + 1]]
        BY <1>6, <4>1
      <4> QED
        BY <1>2, <2>3, <3>2, <3>4, <4>2
    <3> QED
      BY <1>2, <3>2, <3>3, <3>4
  <2> QED
    BY <1>2, <2>1, <2>2, <2>3
<1>7. /\ step \in [1 .. M -> [[1 .. M -> Results] -> Results]]
      /\ \A offset \in 1 .. M : \A f \in [1 .. M -> Results] : step[offset][f] = body(offset, f)
  <2> HIDE DEF body
  <2> QED
    BY <1>5
<1> HIDE DEF step
<1>8. \A offset \in 1 .. M : \A f, g \in [1 .. M -> Results] :
         (\A p \in offset + 1 .. M : f[p] = g[p]) => step[offset][f] = step[offset][g]
  <2> HIDE DEF body
  <2> SUFFICES ASSUME NEW offset \in 1 .. M,
                      NEW f \in [1 .. M -> Results], NEW g \in [1 .. M -> Results],
                      \A p \in offset + 1 .. M : f[p] = g[p]
               PROVE  step[offset][f] = step[offset][g]
    OBVIOUS
  <2>1. body(offset, f) = body(offset, g)
    BY <1>6
  <2> QED
    BY <1>7, <2>1
<1>9. PICK f \in [1 .. M -> Results] : Downward(f, M, step)
  <2> HIDE DEF body
  <2> QED
    BY <1>2, <1>3, <1>7, <1>8, DownwardExists
<1>10. \A offset \in 1 .. M : f[offset] = body(offset, f)
  <2> HIDE DEF body
  <2> QED
    BY <1>7, <1>9 DEF Downward
<1>11. f = [offset \in 1 .. M |-> body(offset, f)]
  <2> HIDE DEF body
  <2> QED
    BY <1>9, <1>10
<1>12. find = [offset \in 1 .. Len(options) + 256 |-> body(offset, find)]
  <2>1. f = [offset \in 1 .. Len(options) + 256 |-> body(offset, f)]
    BY <1>2, <1>11, Zenon
  <2> HIDE DEF body
  <2> QED
    BY <2>1, Zenon
<1> HIDE DEF find
<1>13. \A offset \in 1 .. Len(options) + 256 : find[offset] = body(offset, find)
  <2> HIDE DEF body
  <2> QED
    BY <1>12
<1>14. Searched(options, code, find)
  BY <1>13, Zenon DEF Searched
<1> QED
  BY <1>1, <1>14, Zenon

(* What the option found is.                                               *)
IsThere(options, code, found) ==
    LET whole == {i \in Starts(options) :
                      /\ i < Len(options) /\ options[i] = code
                      /\ i + 1 + options[i + 1] <= Len(options)}
    IN  IF found # None
        THEN /\ found.at - 2 \in whole
             /\ \A i \in whole : i >= found.at - 2
             /\ found.len = options[found.at - 1]
        ELSE whole = {}

LEMMA FoundIsThere ==
    ASSUME NEW options \in Seq(Nat), NEW code \in Nat, code # 0, code # 255
    PROVE  IsThere(options, code, dhcp_find_option(options, code))
<1> DEFINE N == Len(options)
           M == N + 256
           whole == {i \in Starts(options) :
                      /\ i < Len(options) /\ options[i] = code
                      /\ i + 1 + options[i + 1] <= Len(options)}
           found == dhcp_find_option(options, code)
<1>1. PICK find : Searched(options, code, find) /\ found = find[1]
  BY FindSearches
<1>2. /\ Starts(options) \in SUBSET (Nat \ {0})
      /\ 1 \in Starts(options)
      /\ \A i \in Starts(options) : Goes(options, i) => After(options, i) \in Starts(options)
      /\ \A i, o \in Starts(options) : o < i => Goes(options, o) /\ After(options, o) <= i
  BY StartsChain
<1>3. N \in Nat /\ M \in Nat /\ N = Len(options) /\ M = N + 256
  OBVIOUS
<1>4. \A i \in 1 .. N : i \in DOMAIN options /\ options[i] \in Nat
  OBVIOUS
<1>5. \A i \in whole : /\ i \in Starts(options) /\ i \in Nat /\ i # 0 /\ i < N
                       /\ options[i] = code /\ i + 1 + options[i + 1] <= N
  BY <1>2
<1> HIDE DEF N, M, whole, found
(* The places the search comes by are the starts before the first such     *)
(* option; take the last of them.                                          *)
<1> DEFINE Passed(o) == find[o] = found /\ \A i \in whole : i >= o
           Left == {n \in Nat : n < M /\ M - n \in Starts(options) /\ Passed(M - n)}
<1>6. M - 1 \in Left
  <2>1. M - 1 \in Nat /\ M - 1 < M /\ M - (M - 1) = 1
    BY <1>3
  <2>2. Passed(1)
    BY <1>1, <1>5
  <2> HIDE DEF Passed
  <2> QED
    BY <1>2, <2>1, <2>2
<1>7. PICK n \in Left : \A k \in Left : n <= k
  <2> HIDE DEF Left
  <2>1. Left \in SUBSET Nat
    BY DEF Left
  <2> QED
    BY <1>6, <2>1, LeastElement
<1> DEFINE o == M - n
<1>8. o \in 1 .. M /\ o \in Nat /\ o \in Starts(options) /\ Passed(o)
  BY <1>3, <1>7
<1>9. ASSUME NEW p \in Starts(options), p > o, p <= M
      PROVE  ~Passed(p)
  <2>1. M - p \in Nat /\ M - p < M /\ M - (M - p) = p /\ M - p < n
    BY <1>2, <1>3, <1>7, <1>9
  <2>2. M - p \notin Left
    BY <1>7, <2>1
  <2> HIDE DEF Passed
  <2> QED
    BY <2>1, <2>2
<1> HIDE DEF o, Left
<1>10. find[o] =
            IF o > N \/ options[o] = 255 THEN None
            ELSE IF options[o] = 0 THEN find[o + 1]
            ELSE IF o + 1 > N THEN None
            ELSE IF o + 1 + options[o + 1] > N THEN None
            ELSE IF options[o] = code THEN [at |-> o + 2, len |-> options[o + 1]]
            ELSE find[o + 2 + options[o + 1]]
  BY <1>1, <1>8, Zenon DEF Searched, N, M
<1>11. ASSUME NEW i \in whole
       PROVE  i = o \/ (i > o /\ Goes(options, o) /\ After(options, o) <= i)
  BY <1>2, <1>5, <1>8
<1> DEFINE Right == IF found # None
                    THEN /\ found.at - 2 \in whole
                         /\ \A i \in whole : i >= found.at - 2
                         /\ found.len = options[found.at - 1]
                    ELSE whole = {}
<1>a. Right => IsThere(options, code, found)
  BY Zenon DEF IsThere, whole
<1>12. find[o] = None /\ whole = {} => Right
  BY <1>8
<1> SUFFICES Right
  BY <1>a DEF found
<1> HIDE DEF Right
<1>13. CASE o > N
  <2>1. whole = {}
    BY <1>3, <1>5, <1>8, <1>13
  <2>2. find[o] = None
    BY <1>10, <1>13
  <2> QED
    BY <1>12, <2>1, <2>2
<1>14. CASE o <= N /\ options[o] = 255
  <2>1. whole = {}
    BY <1>5, <1>11, <1>14 DEF Goes
  <2>2. find[o] = None
    BY <1>10, <1>14
  <2> QED
    BY <1>12, <2>1, <2>2
<1>15. CASE o <= N /\ options[o] = 0
  <2>1. Goes(options, o) /\ After(options, o) = o + 1
    BY <1>4, <1>8, <1>15 DEF Goes, After
  <2>2. o + 1 \in Starts(options) /\ o + 1 > o /\ o + 1 <= M
    BY <1>2, <1>3, <1>8, <1>15, <2>1
  <2>3. find[o + 1] = found
    BY <1>3, <1>8, <1>10, <1>15
  <2>4. \A i \in whole : i >= o + 1
    BY <1>5, <1>11, <1>15, <2>1
  <2>5. Passed(o + 1)
    BY <2>3, <2>4
  <2> QED
    BY <1>9, <2>2, <2>5
<1>16. CASE o = N /\ options[o] # 0
  <2>1. whole = {}
    BY <1>3, <1>5, <1>11, <1>16
  <2>2. find[o] = None
    BY <1>3, <1>8, <1>10, <1>16
  <2> QED
    BY <1>12, <2>1, <2>2
<1>17. CASE o < N /\ options[o] # 0 /\ options[o] # 255
  <2>1. o + 1 \in 1 .. N /\ options[o + 1] \in Nat /\ o + 1 <= N
    BY <1>3, <1>4, <1>8, <1>17
  <2> DEFINE next == o + 2 + options[o + 1]
  <2>2. Goes(options, o) /\ After(options, o) = next
    BY <1>3, <1>4, <1>8, <1>17 DEF Goes, After
  <2>3. CASE o + 1 + options[o + 1] > N
    <3>1. whole = {}
      <4> SUFFICES ASSUME NEW i \in whole PROVE FALSE
        OBVIOUS
      <4>1. i # o
        BY <1>3, <1>5, <1>8, <2>1, <2>3
      <4>2. After(options, o) <= i
        BY <1>11, <4>1
      <4>3. next > N /\ next \in Nat
        BY <1>3, <1>8, <2>1, <2>3
      <4> HIDE DEF next
      <4> QED
        BY <1>3, <1>5, <2>2, <4>2, <4>3
    <3>2. find[o] = None
      BY <1>3, <1>8, <1>10, <1>17, <2>1, <2>3
    <3> QED
      BY <1>12, <3>1, <3>2
  <2>4. CASE o + 1 + options[o + 1] <= N /\ options[o] = code
    <3>1. found = [at |-> o + 2, len |-> options[o + 1]]
      BY <1>3, <1>8, <1>10, <1>17, <2>1, <2>4
    <3>2. o \in whole
      BY <1>3, <1>8, <1>17, <2>4 DEF whole
    <3>3. found.at = o + 2 /\ found.len = options[o + 1]
      BY <3>1
    <3>4. found.at - 2 = o /\ found.at - 1 = o + 1 /\ found # None
      BY <1>8, <3>3 DEF None
    <3>5. \A i \in whole : i >= o
      BY <1>8
    <3> QED
      BY <3>2, <3>3, <3>4, <3>5, Zenon DEF Right
  <2>5. CASE o + 1 + options[o + 1] <= N /\ options[o] # code
    <3>1. find[next] = found
      BY <1>3, <1>8, <1>10, <1>17, <2>1, <2>5
    <3>2. next \in Starts(options) /\ next > o /\ next <= M
      BY <1>2, <1>3, <1>8, <2>1, <2>2, <2>5
    <3>3. \A i \in whole : i >= next
      BY <1>5, <1>11, <2>2, <2>5
    <3>4. Passed(next)
      BY <3>1, <3>3
    <3> QED
      BY <1>9, <3>2, <3>4
  <2> QED
    BY <1>3, <1>8, <2>1, <2>3, <2>4, <2>5
<1> QED
  BY <1>3, <1>8, <1>13, <1>14, <1>15, <1>16, <1>17

LEMMA OptionStart == Init => OptionIsThere
<1> SUFFICES ASSUME Init PROVE OptionIsThere
  OBVIOUS
<1>1. search.options = <<>> /\ search.found = None
  BY DEF Init, NoSearch
<1>2. {i \in Starts(search.options) :
          /\ i < Len(search.options) /\ search.options[i] = search.code
          /\ i + 1 + search.options[i + 1] <= Len(search.options)} = {}
  <2>1. Len(search.options) = 0 /\ search.options \in Seq(Nat)
    BY <1>1
  <2>2. \A i \in Starts(search.options) : i \in Nat
    BY <2>1, StartsChain
  <2> QED
    BY <2>1, <2>2
<1> QED
  BY <1>1, <1>2, Zenon DEF OptionIsThere

LEMMA OptionStep == OptionIsThere /\ [Next]_vars => OptionIsThere'
<1> SUFFICES ASSUME OptionIsThere, [Next]_vars PROVE OptionIsThere'
  OBVIOUS
<1>1. CASE search' = search
  BY <1>1 DEF OptionIsThere
<1>2. CASE search' = NoSearch
  <2>1. search'.options = <<>> /\ search'.found = None
    BY <1>2 DEF NoSearch
  <2>2. {i \in Starts(search'.options) :
            /\ i < Len(search'.options) /\ search'.options[i] = search'.code
            /\ i + 1 + search'.options[i + 1] <= Len(search'.options)} = {}
    <3>1. Len(search'.options) = 0 /\ search'.options \in Seq(Nat)
      BY <2>1
    <3>2. \A i \in Starts(search'.options) : i \in Nat
      BY <3>1, StartsChain
    <3> QED
      BY <3>1, <3>2
  <2> QED
    BY <2>1, <2>2, Zenon DEF OptionIsThere
<1>3. CASE \E options \in OptionLists, code \in Codes :
              search' = [options |-> options, code |-> code,
                         found |-> dhcp_find_option(options, code)]
  <2>1. PICK options \in OptionLists, code \in Codes :
              search' = [options |-> options, code |-> code,
                         found |-> dhcp_find_option(options, code)]
    BY <1>3
  <2>2. options \in Seq(Nat) /\ code \in Nat /\ code # 0 /\ code # 255
    <3> DEFINE Byte == 0 .. 255
               Code == 1 .. 254
    <3>1. Byte \subseteq Nat /\ \A c \in Code : c \in Nat /\ c # 0 /\ c # 255
      OBVIOUS
    <3>2. options \in Seq(Byte) /\ code \in Code
      BY OptionsAssumption
    <3> HIDE DEF Byte, Code
    <3>3. options \in Seq(Nat)
      <4>1. options \in [1 .. Len(options) -> Byte] /\ Len(options) \in Nat
        BY <3>2
      <4>2. options \in [1 .. Len(options) -> Nat]
        BY <3>1, <4>1
      <4> QED
        BY <4>1, <4>2
    <3> QED
      BY <3>1, <3>2, <3>3
  <2>3. IsThere(options, code, dhcp_find_option(options, code))
    BY <2>2, FoundIsThere
  <2>4. /\ search'.options = options /\ search'.code = code
        /\ search'.found = dhcp_find_option(options, code)
    BY <2>1
  <2> QED
    BY <2>3, <2>4, Zenon DEF OptionIsThere, IsThere
<1>4. \/ search' = search \/ search' = NoSearch
      \/ \E options \in OptionLists, code \in Codes :
              search' = [options |-> options, code |-> code,
                         found |-> dhcp_find_option(options, code)]
  <2>1. CASE Receive
    BY <2>1 DEF Receive, ReceiveHeader, ReceiveFrame, ReceiveAdvance, ReceiveNothing, ReceiveEnds, handling
  <2>2. CASE Send
    BY <2>2 DEF Send, SendBegins, ReplyNothing, SendTakesSlot, SendCopiesFirst, SendCopiesSecond,
       SendCopies, SendStarts, handling
  <2>3. CASE pci_find_device \/ rtl8139_init \/ rtl8139_poll \/ net_periodic_idle
    BY <2>3 DEF pci_find_device, rtl8139_init, rtl8139_poll, net_periodic_idle, handling
  <2>4. CASE rtl8139_handle_irq \/ ShellSends \/ Card
    BY <2>4 DEF rtl8139_handle_irq, ShellSends, Card, CardStores, CardDrops, CardTransmits, handling
  <2>5. CASE UNCHANGED vars
    BY <2>5 DEF vars, handling
  <2> QED
    BY <2>1, <2>2, <2>3, <2>4, <2>5 DEF Next, MainLoop
<1> QED
  BY <1>1, <1>2, <1>3, <1>4

(* Wherever in a list of options the code looked for occurs as a byte, among   *)
(* padding, in another option's bytes or in an option that runs past the end,  *)
(* dhcp_find_option finds the first option of that code and its own bytes, and *)
(* finds nothing only when there is none (dhcp.c lines 51-83).                 *)
THEOREM FoundOptionsAreThere == FairSpec => []OptionIsThere
BY OptionStart, OptionStep, PTL DEF FairSpec

==============================================================================
