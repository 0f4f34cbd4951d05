------------------------------- MODULE Rtl8139 -------------------------------
(***************************************************************************)
(* The network card driver, drivers/rtl8139/rtl8139.c, as the main loop of *)
(* kernel/kernel.c, the card's interrupt and the shell use it.             *)
(*                                                                         *)
(* The main loop polls, takes every frame out of the receive ring in place,*)
(* and then may send (net_periodic); handling a frame may send as well.    *)
(* The shell sends from the keyboard interrupt, between any two statements *)
(* of the main loop, and the card's interrupt comes there too; neither is  *)
(* interrupted itself.  The card stores frames and transmits at any time.  *)
(*                                                                         *)
(* The card is external: it stores a frame behind the last one, in one     *)
(* piece even past the end of the ring (RTL_RCR_WRAP), drops what does not *)
(* fit in front of the driver's CAPR, and transmits the descriptors in     *)
(* turn.  Positions and lengths are in bytes; a header in memory is the    *)
(* place it begins at and the frame it announces.                          *)
(***************************************************************************)
EXTENDS Frames, FiniteSets

CONSTANTS
    BUSES,              \* the values of the scan's eight-bit bus counter: 256
    CardBuses,          \* where the card may be, BUSES for nowhere
    RING,               \* RTL_RX_BUFFER_SIZE
    PacketLengths,      \* lengths the card reports, its checksum of 4 included
    MAX_PACKET,         \* the longest the driver accepts: 1518 + 4
    SLOTS,              \* RTL_TX_BUFFER_COUNT
    Contents,           \* header fields of the frames that come in
    OptionLists, Codes, \* DHCP options, and the codes looked for
    MAX_FRAMES,         \* bound: frames stored
    MAX_SENDS,          \* bound: frames sent
    MAX_WORK            \* bound: frames stored or sent

ASSUME RingAssumption ==
    /\ RING \in Nat \ {0} /\ RING % 4 = 0 /\ RING <= 65536
    /\ PacketLengths \subseteq Nat
    /\ \A len \in PacketLengths : len + 8 <= RING
ASSUME SizesAssumption ==
    /\ IsWord16(MAX_PACKET)
    /\ SLOTS \in Nat \ {0} /\ BUSES \in Nat \ {0} /\ CardBuses \subseteq Nat
    /\ MAX_FRAMES \in Nat
ASSUME ContentsAssumption == \A f \in Contents : AnyLengths(f)
\* Options are bytes; the client looks for the codes 1, 3, 53 and 54 (dhcp.c lines 173-209).
ASSUME OptionsAssumption == OptionLists \subseteq Seq(0 .. 255) /\ Codes \subseteq 1 .. 254

VARIABLES
    bus, card_bus,      \* the scan's counter, where the card is
    rtl_ready,
    isr,                \* the interrupt status register
    net_packet_received,
    headers,            \* receive memory: the headers still whole in it
    write_at, read_at,  \* the card's cursors: behind the last frame, CAPR + 16
    accepted,           \* history: the frames stored
    delivered,          \* history: the frames handled
    rx_cur,
    packet,             \* the header handle_receive reads
    payload,            \* what the last frame came to, until the next step
    search,             \* an option looked for in it
    tx_slot, slot,      \* the next transmit buffer, the one the main loop fills
    tx_buffers,         \* slot -> the frames its two halves come from
    started,            \* slot -> the card is to transmit it
    next_descriptor,    \* the card's turn
    given,              \* how many frames were given to rtl8139_send_packet
    sending,            \* the one the main loop is sending
    wire,               \* what the card transmitted
    clean,              \* no slot was shared by two senders or filled too early
    pc, back            \* the main loop's next statement, and the one after a send

Slots == 0 .. SLOTS - 1
receiving == <<headers, write_at, read_at, accepted>>
handling == <<delivered, rx_cur, packet, payload, search>>
buffers == <<tx_slot, tx_buffers, started, clean, given>>
sender == <<slot, sending, back>>
transmitting == <<next_descriptor, wire>>
flags == <<isr, net_packet_received>>
boot == <<bus, card_bus, rtl_ready>>
vars == <<boot, flags, receiving, handling, buffers, sender, transmitting, pc>>

-----------------------------------------------------------------------------
(* The card (external) *)

ReceiveBits == {"rx", "overflow"}
Aligned(n) == ((n + 3) \div 4) * 4

Empty == write_at = read_at
Free == (RING + read_at - write_at) % RING

\* A header survives until the card stores over one of its four bytes.
Overwrites(len, h) == h.at + 4 > write_at /\ h.at < write_at + 4 + len

CanStore == rtl_ready /\ Len(accepted) < MAX_FRAMES /\ Len(accepted) + given < MAX_WORK

CardStores(len) ==
    LET frame == [id |-> Len(accepted) + 1, len |-> len]
    IN  /\ CanStore
        /\ Empty \/ Aligned(len + 4) < Free
        /\ headers' = {h \in headers : ~Overwrites(len, h)} \cup {[at |-> write_at, frame |-> frame]}
        /\ write_at' = Aligned(write_at + 4 + len) % RING
        /\ accepted' = Append(accepted, frame)
        /\ isr' = isr \cup {"rx"}
        /\ UNCHANGED <<boot, net_packet_received, read_at, handling, buffers, sender, transmitting, pc>>

CardDrops(len) ==
    /\ CanStore /\ ~Empty /\ Aligned(len + 4) >= Free
    /\ isr' = isr \cup {"overflow"}
    /\ UNCHANGED <<boot, net_packet_received, receiving, handling, buffers, sender, transmitting, pc>>

CardTransmits ==
    /\ started[next_descriptor]
    /\ wire' = Append(wire, tx_buffers[next_descriptor])
    /\ started' = [started EXCEPT ![next_descriptor] = FALSE]
    /\ next_descriptor' = (next_descriptor + 1) % SLOTS
    /\ isr' = isr \cup {"tx"}
    /\ UNCHANGED <<boot, net_packet_received, receiving, handling, tx_slot, tx_buffers, clean,
                   given, sender, pc>>

-----------------------------------------------------------------------------
(* Start *)

Nothing == [id |-> 0, len |-> 0]
NoSearch == [options |-> <<>>, code |-> 0, found |-> None]

Init ==
    /\ bus = 0 /\ card_bus \in CardBuses /\ rtl_ready = FALSE
    /\ isr = {} /\ net_packet_received = FALSE
    /\ headers = {} /\ write_at = 0 /\ read_at = 0 /\ accepted = <<>> /\ delivered = <<>>
    /\ rx_cur = 0 /\ packet = Nothing /\ payload = Ignored /\ search = NoSearch
    /\ tx_slot = 0 /\ slot = 0 /\ tx_buffers = [s \in Slots |-> <<0, 0>>]
    /\ started = [s \in Slots |-> FALSE] /\ next_descriptor = 0
    /\ given = 0 /\ sending = 0 /\ wire = <<>> /\ clean = TRUE
    /\ pc = "scan" /\ back = "poll"

\* bus < 256 holds of every eight-bit bus: without a card the scan starts over.
pci_find_device ==
    /\ pc = "scan" /\ bus # card_bus
    /\ bus' = (bus + 1) % BUSES
    /\ UNCHANGED <<card_bus, rtl_ready, flags, receiving, handling, buffers, sender, transmitting, pc>>

\* CAPR is the place to read from, less 16.
Capr(place) == Word16(place - 16)
ReadFrom(capr) == Word16(capr + 16) % RING

rtl8139_init ==
    /\ pc = "scan" /\ bus = card_bus
    /\ rtl_ready' = TRUE
    /\ rx_cur' = 0 /\ read_at' = ReadFrom(65520)
    /\ isr' = {}
    /\ pc' = "poll"
    /\ UNCHANGED <<bus, card_bus, net_packet_received, headers, write_at, accepted,
                   delivered, packet, payload, search, buffers, sender, transmitting>>

-----------------------------------------------------------------------------
(* Receiving *)

rtl8139_poll ==
    /\ pc = "poll"
    /\ isr' = isr \ {"tx"}
    /\ net_packet_received' = (net_packet_received \/ isr \cap ReceiveBits # {} \/ ~Empty)
    /\ pc' = "receive"
    /\ UNCHANGED <<boot, receiving, handling, buffers, sender, transmitting>>

\* The interrupt mask leaves out the overflow; the handler acknowledges all it sees.
rtl8139_handle_irq ==
    /\ rtl_ready /\ isr \cap {"rx", "tx"} # {}
    /\ net_packet_received' = (net_packet_received \/ isr \cap ReceiveBits # {})
    /\ isr' = {}
    /\ UNCHANGED <<boot, receiving, handling, buffers, sender, transmitting, pc>>

\* What the bytes at a place say: memory that holds no header announces nothing.
FrameAt(place) ==
    IF \E h \in headers : h.at = place
    THEN (CHOOSE h \in headers : h.at = place).frame
    ELSE Nothing
Acceptable(frame) == frame.len >= 4 /\ frame.len <= MAX_PACKET

ReceiveHeader ==
    /\ pc = "receive" /\ ~Empty
    /\ LET frame == FrameAt(rx_cur % RING)
       IN  /\ packet' = frame
           /\ \/ Acceptable(frame) /\ pc' = "handle" /\ UNCHANGED isr
              \/ ~Acceptable(frame) /\ pc' = "received" /\ isr' = isr \ {"overflow"}
    /\ UNCHANGED <<boot, net_packet_received, receiving, delivered, rx_cur, payload, search,
                   buffers, sender, transmitting>>

\* The frame is handled where it lies; a DHCP message may be answered at once.
\* Bound: options are only looked for in the first frame.
ReceiveFrame ==
    /\ pc = "handle"
    /\ delivered' = Append(delivered, FrameAt(rx_cur % RING))
    /\ \E f \in Contents : payload' = ethernet_receive_frame(f, packet.len - 4)
    /\ \/ search' = NoSearch
       \/ /\ payload'.to = "dhcp" /\ delivered = <<>>
          /\ \E options \in OptionLists, code \in Codes :
                search' = [options |-> options, code |-> code,
                           found |-> dhcp_find_option(options, code)]
    /\ \/ pc' = "advance"
       \/ payload'.to = "dhcp" /\ pc' = "reply"
    /\ UNCHANGED <<boot, flags, receiving, rx_cur, packet, buffers, sender, transmitting>>

\* Slips: the remainder forgotten; the rounding forgotten.
NextPlace_unwrapped(len) == Aligned(rx_cur + len + 4)
NextPlace_unaligned(len) == (rx_cur + len + 4) % RING
NextPlace(len) == Aligned(rx_cur + len + 4) % RING

ReceiveAdvance ==
    /\ pc = "advance"
    /\ rx_cur' = NextPlace(packet.len)
    /\ read_at' = ReadFrom(Capr(rx_cur'))
    /\ packet' = Nothing /\ payload' = Ignored /\ search' = NoSearch
    /\ pc' = "receive"
    /\ UNCHANGED <<boot, flags, headers, write_at, accepted, delivered, buffers, sender, transmitting>>

ReceiveNothing ==
    /\ pc = "receive" /\ Empty
    /\ pc' = "received"
    /\ UNCHANGED <<boot, flags, receiving, handling, buffers, sender, transmitting>>

\* Slip: only the receive bit acknowledged.
ReceiveEnds_keeping_overflow ==
    /\ pc = "received"
    /\ isr' = isr \ {"rx"}
    /\ net_packet_received' = FALSE
    /\ packet' = Nothing
    /\ pc' = "periodic"
    /\ UNCHANGED <<boot, receiving, delivered, rx_cur, payload, search, buffers, sender, transmitting>>

\* The end of rtl8139_handle_receive, also after a frame it does not accept.
ReceiveEnds ==
    /\ pc = "received"
    /\ isr' = isr \ ReceiveBits
    /\ net_packet_received' = FALSE
    /\ packet' = Nothing
    /\ pc' = "periodic"
    /\ UNCHANGED <<boot, receiving, delivered, rx_cur, payload, search, buffers, sender, transmitting>>

-----------------------------------------------------------------------------
(* Sending: rtl8139_send_packet, from the main loop and from the shell *)

CanSend == given < MAX_SENDS /\ Len(accepted) + given < MAX_WORK

net_periodic_idle ==
    /\ pc = "periodic"
    /\ pc' = "poll"
    /\ UNCHANGED <<boot, flags, receiving, handling, buffers, sender, transmitting>>

\* A DHCPDISCOVER of net_periodic, or the answer to a DHCP message.
SendBegins ==
    /\ pc \in {"periodic", "reply"} /\ CanSend
    /\ back' = IF pc = "periodic" THEN "poll" ELSE "advance"
    /\ given' = given + 1 /\ sending' = given + 1
    /\ slot' = tx_slot
    /\ payload' = Ignored /\ search' = NoSearch
    /\ pc' = "take_slot"
    /\ UNCHANGED <<boot, flags, receiving, delivered, rx_cur, packet, tx_slot, tx_buffers,
                   started, clean, transmitting>>

\* The answer the bound has no room for.
ReplyNothing ==
    /\ pc = "reply" /\ ~CanSend
    /\ pc' = "advance"
    /\ UNCHANGED <<boot, flags, receiving, handling, buffers, sender, transmitting>>

\* Slips: the slot told to the card before it is filled; the slot not advanced.
SendTakesSlot_starting ==
    /\ pc = "take_slot"
    /\ \E taken \in {slot, tx_slot} : tx_slot' = (taken + 1) % SLOTS
    /\ started' = [started EXCEPT ![slot] = TRUE]
    /\ pc' = "copy_first"
    /\ UNCHANGED <<boot, flags, receiving, handling, tx_buffers, clean, given, sender, transmitting>>
SendTakesSlot_keeping ==
    /\ pc = "take_slot"
    /\ pc' = "copy_first"
    /\ UNCHANGED <<boot, flags, receiving, handling, buffers, sender, transmitting>>

\* The compiler may keep tx_slot in a register or read it again.
SendTakesSlot ==
    /\ pc = "take_slot"
    /\ \E taken \in {slot, tx_slot} : tx_slot' = (taken + 1) % SLOTS
    /\ pc' = "copy_first"
    /\ UNCHANGED <<boot, flags, receiving, handling, tx_buffers, started, clean, given, sender, transmitting>>

\* Nothing asks whether the card has transmitted what the slot holds.
SendCopies(half) ==
    /\ tx_buffers' = [tx_buffers EXCEPT ![slot][half] = sending]
    /\ clean' = (clean /\ ~started[slot])
    /\ UNCHANGED <<boot, flags, receiving, handling, tx_slot, started, given, sender, transmitting>>

SendCopiesFirst == pc = "copy_first" /\ SendCopies(1) /\ pc' = "copy_second"
SendCopiesSecond == pc = "copy_second" /\ SendCopies(2) /\ pc' = "start"

SendStarts ==
    /\ pc = "start"
    /\ started' = [started EXCEPT ![slot] = TRUE]
    /\ sending' = 0
    /\ pc' = back
    /\ UNCHANGED <<boot, flags, receiving, handling, tx_slot, tx_buffers, clean, given,
                   slot, back, transmitting>>

\* `netmsg` and `dhcp`, in the keyboard interrupt.
ShellSends ==
    /\ rtl_ready /\ CanSend
    /\ given' = given + 1
    /\ tx_buffers' = [tx_buffers EXCEPT ![tx_slot] = <<given + 1, given + 1>>]
    /\ started' = [started EXCEPT ![tx_slot] = TRUE]
    /\ clean' = (clean /\ ~started[tx_slot] /\ ~(sending # 0 /\ slot = tx_slot))
    /\ tx_slot' = (tx_slot + 1) % SLOTS
    /\ UNCHANGED <<boot, flags, receiving, handling, sender, transmitting, pc>>

-----------------------------------------------------------------------------

Receive == ReceiveHeader \/ ReceiveFrame \/ ReceiveAdvance \/ ReceiveNothing \/ ReceiveEnds
Send == \/ SendBegins \/ ReplyNothing \/ SendTakesSlot
        \/ SendCopiesFirst \/ SendCopiesSecond \/ SendStarts
MainLoop == \/ pci_find_device \/ rtl8139_init \/ rtl8139_poll
            \/ Receive \/ net_periodic_idle \/ Send
Card == (\E len \in PacketLengths : CardStores(len) \/ CardDrops(len)) \/ CardTransmits

Next == MainLoop \/ rtl8139_handle_irq \/ ShellSends \/ Card

\* The main loop runs for ever and the card transmits what it is told to.
FairSpec == Init /\ [][Next]_vars /\ WF_vars(MainLoop) /\ WF_vars(CardTransmits)

-----------------------------------------------------------------------------
(* Properties *)

FramesIn == [id : 1 .. MAX_FRAMES, len : PacketLengths]
MainStatements == {"scan", "poll", "receive", "handle", "reply", "advance", "received", "periodic",
                   "take_slot", "copy_first", "copy_second", "start"}

\* Every variable keeps its type (rtl8139.c lines 46-55).
TypeOK ==
    /\ bus \in 0 .. BUSES - 1 /\ card_bus \in CardBuses /\ rtl_ready \in BOOLEAN
    /\ isr \subseteq {"rx", "tx", "overflow"} /\ net_packet_received \in BOOLEAN
    /\ \A h \in headers : h.at \in 0 .. RING - 1 /\ h.frame \in FramesIn
    /\ write_at \in 0 .. RING - 1 /\ read_at \in 0 .. RING - 1 /\ rx_cur \in 0 .. RING - 1
    /\ accepted \in Seq(FramesIn) /\ delivered \in Seq(FramesIn)
    /\ packet \in FramesIn \cup {Nothing}
    /\ tx_slot \in Slots /\ slot \in Slots /\ next_descriptor \in Slots
    /\ tx_buffers \in [Slots -> Nat \X Nat] /\ started \in [Slots -> BOOLEAN]
    /\ given \in Nat /\ sending \in Nat /\ wire \in Seq(Nat \X Nat) /\ clean \in BOOLEAN
    /\ pc \in MainStatements /\ back \in {"poll", "advance"}

\* What the DHCP client or the terminal is given lies inside the frame that was
\* received, whatever the length fields of IPv4 and UDP say (ipv4.c lines
\* 44-57, udp.c lines 94-113).
PayloadWithinFrame ==
    payload # Ignored =>
        /\ payload.len >= 0
        /\ payload.from + payload.len <= packet.len - 4

\* An option that is found lies inside the options, is announced right before
\* its bytes by the code looked for and its length, and no such option comes
\* before it (dhcp.c lines 51-83); Starts are the places where options begin.
Starts(options) ==
    LET f[n \in 0 .. Len(options)] ==
            IF n = 0 THEN {1}
            ELSE f[n - 1] \cup UNION {IF options[i] = 255 THEN {}
                                      ELSE IF options[i] = 0 THEN {i + 1}
                                      ELSE IF i = Len(options) THEN {}
                                      ELSE {i + 2 + options[i + 1]} : i \in f[n - 1] \cap DOMAIN options}
    IN  f[Len(options)]
OptionIsThere ==
    LET whole == {i \in Starts(search.options) :
                      /\ i < Len(search.options) /\ search.options[i] = search.code
                      /\ i + 1 + search.options[i + 1] <= Len(search.options)}
    IN  IF search.found # None
        THEN /\ search.found.at - 2 \in whole
             /\ \A i \in whole : i >= search.found.at - 2
             /\ search.found.len = search.options[search.found.at - 1]
        ELSE whole = {}

\* The ring is a queue: frames are handled in the order the card stored them,
\* each once and with its own length, and each in the end unless one the driver
\* does not accept is in front of it (rtl8139.c lines 176-202).
Queue == INSTANCE FrameQueue WITH Frames <- FramesIn
ImplementsQueue == Queue!FairSpec

\* An overflow the card reports is acknowledged in the end, though no interrupt
\* asks for it (rtl8139.c lines 143 and 200).
OverflowAcknowledged == ("overflow" \in isr) ~> ("overflow" \notin isr)

\* As long as no two senders shared a slot and none filled one the card was still
\* to transmit, frames go out whole, once, and in the order they were given
\* (rtl8139.c lines 161-174).
SentWhole == clean => \A i \in DOMAIN wire : wire[i] = <<i, i>>

\* And all of them go out.
AllSent == []<>(clean => Len(wire) = given)
=============================================================================
