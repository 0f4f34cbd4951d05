--------------------------------- MODULE Dhcp ---------------------------------
(***************************************************************************)
(* The network client of net/net.c, net/dhcp.c and net/udp.c, in the main  *)
(* loop of kernel/kernel.c.                                                *)
(*                                                                         *)
(* The main loop takes frames from the card and calls net_periodic; the    *)
(* shell's `dhcp` command runs in the keyboard interrupt, which may come   *)
(* between any two statements of the main loop.  The handling of a DHCPACK *)
(* is the one stretch of the main loop whose statements the command can be *)
(* told between, so it is one step per statement; every other handler is   *)
(* one step.  A four-byte copy is taken to be one statement.               *)
(*                                                                         *)
(* The card, the wire and the DHCP servers are external: a message sent    *)
(* may be delivered any number of times, late, in any order, or never; a   *)
(* server that answers late and one whose answer comes late look the same  *)
(* to the client, so only the last message sent to the servers is kept.    *)
(* Every message carries the same transaction id (dhcp.c line 14), so a    *)
(* message is told from another by its contents alone.  The subnet and the *)
(* gateway are copied but never used, and are left out.                    *)
(***************************************************************************)
EXTENDS Integers

CONSTANTS
    Servers,            \* DHCP servers on the network
    Addrs,              \* addresses they lease
    NoAddr,             \* 0.0.0.0
    Pool,               \* server -> the addresses it may lease to this machine
    Terse,              \* the servers whose DHCPACK carries no server identifier
    RETRY_TICKS,        \* NET_DHCP_RETRY_TICKS
    MAX_COMMANDS        \* bound: `dhcp` commands typed

ASSUME AddrsAssumption == NoAddr \notin Addrs /\ NoAddr \notin Servers
ASSUME PoolAssumption == Pool \in [Servers -> SUBSET Addrs] /\ Terse \subseteq Servers
ASSUME NumbersAssumption ==
    /\ RETRY_TICKS \in Nat \ {0}
    /\ MAX_COMMANDS \in Nat

VARIABLES
    naw_ip_address,
    info_ip,            \* net_info.ip
    dhcp_server,        \* net_info.dhcp_server
    configured,         \* net_info.configured
    dhcp_bound,
    offered_ip, server_id,
    dhcp_retry_ticks,
    pc,                 \* the next statement of the main loop
    packet,             \* the DHCPACK being handled
    sent,               \* the last message sent to the servers
    wire,               \* messages on their way to this machine
    granted,            \* the addresses some server has leased to this machine
    commands,           \* how many times `dhcp` was typed
    interrupted         \* did `dhcp` come in the middle of the last DHCPACK

lease == <<naw_ip_address, info_ip, dhcp_server, configured, dhcp_bound>>
offer == <<offered_ip, server_id>>
network == <<sent, wire, granted>>
typed == <<commands, interrupted>>
vars == <<lease, offer, dhcp_retry_ticks, pc, packet, network, typed>>

-----------------------------------------------------------------------------
(* Messages.  The server field is what option 54 says, NoAddr without it.  *)

Nothing == [kind |-> "nothing", addr |-> NoAddr, server |-> NoAddr]
Discover == [kind |-> "discover", addr |-> NoAddr, server |-> NoAddr]
Request(a, s) == [kind |-> "request", addr |-> a, server |-> s]
Offer(a, s) == [kind |-> "offer", addr |-> a, server |-> s]
Ack(a, s) == [kind |-> "ack", addr |-> a, server |-> s]
Nak == [kind |-> "nak", addr |-> NoAddr, server |-> NoAddr]

ToServers == {Nothing, Discover} \cup [kind : {"request"}, addr : Addrs, server : Servers]
ToClient == {Nak}
            \cup [kind : {"offer"}, addr : Addrs, server : Servers]
            \cup [kind : {"ack"}, addr : Addrs, server : Servers \cup {NoAddr}]

-----------------------------------------------------------------------------

Init ==
    /\ naw_ip_address = NoAddr /\ info_ip = NoAddr /\ dhcp_server = NoAddr
    /\ configured = FALSE /\ dhcp_bound = FALSE
    /\ offered_ip = NoAddr /\ server_id = NoAddr
    /\ dhcp_retry_ticks = 0
    /\ pc = "net_init"
    /\ packet = Nak
    /\ sent = Nothing /\ wire = {} /\ granted = {}
    /\ commands = 0 /\ interrupted = FALSE

dhcp_send_discover ==
    /\ dhcp_bound' = FALSE
    /\ sent' = Discover

ClearLease ==
    /\ naw_ip_address' = NoAddr
    /\ info_ip' = NoAddr
    /\ dhcp_server' = NoAddr
    /\ configured' = FALSE

net_request_dhcp_keeping_configured ==
    /\ naw_ip_address' = NoAddr /\ info_ip' = NoAddr /\ dhcp_server' = NoAddr
    /\ UNCHANGED configured
    /\ dhcp_send_discover
    /\ dhcp_retry_ticks' = RETRY_TICKS
net_request_dhcp ==
    /\ ClearLease
    /\ dhcp_send_discover
    /\ dhcp_retry_ticks' = RETRY_TICKS

net_init ==
    /\ pc = "net_init"
    /\ offered_ip' = NoAddr
    /\ server_id' = NoAddr
    /\ net_request_dhcp
    /\ pc' = "loop"
    /\ UNCHANGED <<packet, wire, granted, typed>>

\* The shell's `dhcp`: interrupts are on from before net_init.
DhcpCommand ==
    /\ commands < MAX_COMMANDS
    /\ commands' = commands + 1
    /\ net_request_dhcp
    /\ interrupted' = (interrupted \/ pc \notin {"net_init", "loop"})
    /\ UNCHANGED <<offer, pc, packet, wire, granted>>

\* net_periodic, once the card's buffer is empty.
net_periodic_unguarded ==
    /\ pc = "loop"
    /\ ~configured
    /\ dhcp_send_discover
    /\ dhcp_retry_ticks' = dhcp_retry_ticks - 1
    /\ UNCHANGED <<naw_ip_address, info_ip, dhcp_server, configured,
                   offer, pc, packet, wire, granted, typed>>
net_periodic_sending_once ==
    /\ pc = "loop"
    /\ ~configured
    /\ dhcp_retry_ticks > 0
    /\ dhcp_retry_ticks' = dhcp_retry_ticks - 1
    /\ UNCHANGED <<lease, offer, pc, packet, network, typed>>
net_periodic ==
    /\ pc = "loop"
    /\ ~configured
    /\ \/ /\ dhcp_retry_ticks > 0
          /\ dhcp_retry_ticks' = dhcp_retry_ticks - 1
          /\ UNCHANGED <<dhcp_bound, sent>>
       \/ /\ dhcp_retry_ticks = 0
          /\ dhcp_send_discover
          /\ dhcp_retry_ticks' = RETRY_TICKS
    /\ UNCHANGED <<naw_ip_address, info_ip, dhcp_server, configured,
                   offer, pc, packet, wire, granted, typed>>

-----------------------------------------------------------------------------
(* dhcp_handle_udp_packet.                                                 *)

Take(kind, m) == pc = "loop" /\ m \in wire /\ m.kind = kind

\* The offer is kept and asked for at once, whichever server made it.
dhcp_offer(m) ==
    /\ Take("offer", m)
    /\ offered_ip' = m.addr
    /\ server_id' = m.server
    /\ sent' = Request(m.addr, m.server)
    /\ UNCHANGED <<lease, dhcp_retry_ticks, pc, packet, wire, granted, typed>>

dhcp_nak(m) ==
    /\ Take("nak", m)
    /\ dhcp_bound' = FALSE
    /\ configured' = FALSE
    /\ UNCHANGED <<naw_ip_address, info_ip, dhcp_server,
                   offer, dhcp_retry_ticks, pc, packet, network, typed>>

\* A DHCPACK is taken whether or not one is awaited, and from any server.
AckAddress(m) ==
    /\ Take("ack", m)
    /\ naw_ip_address' = m.addr
    /\ packet' = m
    /\ interrupted' = FALSE
    /\ pc' = "ack_info"
    /\ UNCHANGED <<info_ip, dhcp_server, configured, dhcp_bound,
                   offer, dhcp_retry_ticks, network, commands>>

AckInfo ==
    /\ pc = "ack_info"
    /\ info_ip' = packet.addr
    /\ pc' = "ack_server"
    /\ UNCHANGED <<naw_ip_address, dhcp_server, configured, dhcp_bound,
                   offer, dhcp_retry_ticks, packet, network, typed>>

AckServer_without_fallback ==
    /\ pc = "ack_server"
    /\ dhcp_server' = packet.server
    /\ pc' = "ack_configured"
    /\ UNCHANGED <<naw_ip_address, info_ip, configured, dhcp_bound,
                   offer, dhcp_retry_ticks, packet, network, typed>>
AckServer ==
    /\ pc = "ack_server"
    /\ dhcp_server' = IF packet.server # NoAddr THEN packet.server ELSE server_id
    /\ pc' = "ack_configured"
    /\ UNCHANGED <<naw_ip_address, info_ip, configured, dhcp_bound,
                   offer, dhcp_retry_ticks, packet, network, typed>>

AckConfigured ==
    /\ pc = "ack_configured"
    /\ configured' = TRUE
    /\ pc' = "ack_bound"
    /\ UNCHANGED <<naw_ip_address, info_ip, dhcp_server, dhcp_bound,
                   offer, dhcp_retry_ticks, packet, network, typed>>

AckBound ==
    /\ pc = "ack_bound"
    /\ dhcp_bound' = TRUE
    /\ pc' = "loop"
    /\ packet' = Nak
    /\ UNCHANGED <<naw_ip_address, info_ip, dhcp_server, configured,
                   offer, dhcp_retry_ticks, network, typed>>

FinishAck == AckInfo \/ AckServer \/ AckConfigured \/ AckBound

-----------------------------------------------------------------------------
(* The network.                                                            *)

client == <<lease, offer, dhcp_retry_ticks, pc, packet, typed>>

ServerOffers(s) ==
    /\ sent = Discover
    /\ \E a \in Pool[s] : wire' = wire \cup {Offer(a, s)}
    /\ UNCHANGED <<client, sent, granted>>

ServerAcks(s) ==
    /\ \E a \in Pool[s] :
          /\ sent = Request(a, s)
          /\ wire' = wire \cup {Ack(a, IF s \in Terse THEN NoAddr ELSE s)}
          /\ granted' = granted \cup {a}
    /\ UNCHANGED <<client, sent>>

ServerRefuses(s) ==
    /\ \E a \in Pool[s] : sent = Request(a, s)
    /\ wire' = wire \cup {Nak}
    /\ UNCHANGED <<client, sent, granted>>

Lose ==
    /\ \/ sent' = Nothing /\ UNCHANGED wire
       \/ \E m \in wire : wire' = wire \ {m} /\ UNCHANGED sent
    /\ UNCHANGED <<client, granted>>

-----------------------------------------------------------------------------

dhcp_handle_udp_packet(m) == dhcp_offer(m) \/ dhcp_nak(m) \/ AckAddress(m)

Kernel ==
    \/ net_init
    \/ net_periodic
    \/ \E m \in wire : dhcp_handle_udp_packet(m)
    \/ FinishAck

Network ==
    \/ \E s \in Servers : ServerOffers(s) \/ ServerAcks(s) \/ ServerRefuses(s)
    \/ Lose

Next == Kernel \/ DhcpCommand \/ Network

Spec == Init /\ [][Next]_vars

\* The main loop never stops, and its buffer runs empty again and again.  A server
\* that is asked again and again answers, and what is sent to this machine again and
\* again arrives.
FairSpec ==
    /\ Spec
    /\ WF_vars(net_init \/ FinishAck)
    /\ SF_vars(net_periodic)
    /\ SF_vars(\E s \in Servers : ServerOffers(s))
    /\ SF_vars(\E s \in Servers : ServerAcks(s))
    /\ SF_vars(\E m \in wire : dhcp_offer(m))
    /\ SF_vars(\E m \in wire : AckAddress(m))

-----------------------------------------------------------------------------
(* Properties.                                                             *)

PCs == {"net_init", "loop", "ack_info", "ack_server", "ack_configured", "ack_bound"}

(* Every variable keeps its type; in particular the retry counter, which a *)
(* `dhcp` command may set under net_periodic, never leaves its range.      *)
TypeOK ==
    /\ naw_ip_address \in Addrs \cup {NoAddr}
    /\ info_ip \in Addrs \cup {NoAddr}
    /\ dhcp_server \in Servers \cup {NoAddr}
    /\ configured \in BOOLEAN
    /\ dhcp_bound \in BOOLEAN
    /\ offered_ip \in Addrs \cup {NoAddr}
    /\ server_id \in Servers \cup {NoAddr}
    /\ dhcp_retry_ticks \in 0 .. RETRY_TICKS
    /\ pc \in PCs
    /\ packet \in ToClient
    /\ sent \in ToServers
    /\ wire \subseteq ToClient
    /\ granted \subseteq Addrs
    /\ commands \in 0 .. MAX_COMMANDS
    /\ interrupted \in BOOLEAN

\* net_send_text_broadcast: the source address of the text, if one is sent.
net_send_text_broadcast == IF configured THEN {naw_ip_address} ELSE {}

(* The comment in net_send_text_broadcast ("no IP address yet") says that  *)
(* without an address nothing is sent: a text leaves from an address a     *)
(* server has leased to this machine, never from 0.0.0.0.                  *)
SourceIsLeased == net_send_text_broadcast \subseteq granted

(* The same, short of a `dhcp` command typed in the middle of a DHCPACK:   *)
(* duplicated and late answers, refusals, repeated requests and a second   *)
(* server never make the client use an address nobody leased to it.        *)
SourceIsLeasedUndisturbed == ~interrupted => SourceIsLeased

(* Between frames a configured client is whole: what ipconfig shows is the *)
(* address in use, it names a server, even one whose DHCPACK did not say   *)
(* who it is, and the two configured flags agree; again short of a command *)
(* in the middle of a DHCPACK (dhcp_handle_udp_packet, net_request_dhcp).  *)
LeaseIsWhole ==
    (pc = "loop" /\ ~interrupted) =>
        /\ configured <=> dhcp_bound
        /\ configured => info_ip = naw_ip_address /\ dhcp_server \in Servers

(* A client without a lease gets one, whatever is lost or refused on the   *)
(* way, as long as servers go on answering (the retries of net_periodic).  *)
GetsConfigured == ~configured ~> configured
=============================================================================
