------------------------------- MODULE DhcpProofs -------------------------------
(* The safety properties of Dhcp, for any servers, addresses and bounds.        *)
EXTENDS Dhcp, TLAPS

Handling == {"ack_info", "ack_server", "ack_configured", "ack_bound"}

\* An address is only ever acknowledged after it was granted.
AcksAreGranted ==
    /\ \A m \in wire : m.kind = "ack" => m.addr \in granted
    /\ pc \in Handling => packet.kind = "ack" /\ packet.addr \in granted

\* Only a client that took an offer has asked, so can be answered.
AskedSomeone ==
    /\ sent.kind = "request" => server_id \in Servers
    /\ \A m \in wire : m.kind = "ack" => server_id \in Servers
    /\ pc \in Handling => server_id \in Servers

\* Before net_init the client knows nothing: it may have broadcast, no more.
Fresh ==
    pc = "net_init" =>
        /\ sent.kind # "request"
        /\ \A m \in wire : m.kind # "ack"
        /\ ~configured
        /\ ~dhcp_bound

\* What the handler of a DHCPACK has done so far, unless `dhcp` undid it.
HandledSoFar ==
    ~interrupted =>
        /\ pc \in Handling => naw_ip_address = packet.addr
        /\ pc \in Handling \ {"ack_info"} => info_ip = packet.addr
        /\ pc \in {"ack_configured", "ack_bound"} => dhcp_server \in Servers
        /\ pc = "ack_bound" => configured

ConfiguredIsLeased == ~interrupted /\ configured => naw_ip_address \in granted

IInv ==
    /\ TypeOK
    /\ AcksAreGranted
    /\ AskedSomeone
    /\ Fresh
    /\ HandledSoFar
    /\ ConfiguredIsLeased
    /\ LeaseIsWhole

USE DEF lease, offer, network, typed, client

(* What the messages that are used hold.                                       *)
LEMMA OfferHolds ==
  ASSUME NEW m \in ToClient, m.kind = "offer"
  PROVE  m.addr \in Addrs /\ m.server \in Servers
BY DEF ToClient, Nak

LEMMA AckHolds ==
  ASSUME NEW m \in ToClient, m.kind = "ack"
  PROVE  m.addr \in Addrs /\ m.server \in Servers \cup {NoAddr}
BY DEF ToClient, Nak

(* Every step keeps the types. *)
LEMMA TypeStep ==
  ASSUME TypeOK, [Next]_vars
  PROVE  TypeOK'
<1>1. ASSUME net_init PROVE TypeOK'
  <2>1. sent' \in ToServers
    BY <1>1 DEF net_init, net_request_dhcp, dhcp_send_discover, ToServers
  <2>2. dhcp_retry_ticks' \in 0 .. RETRY_TICKS
    BY <1>1, NumbersAssumption DEF net_init, net_request_dhcp
  <2>3. configured' \in BOOLEAN /\ dhcp_bound' \in BOOLEAN /\ UNCHANGED interrupted
    BY <1>1 DEF net_init, net_request_dhcp, ClearLease, dhcp_send_discover
  <2>. QED
    BY <1>1, <2>1, <2>2, <2>3 DEF net_init, net_request_dhcp, ClearLease, TypeOK, PCs
<1>2. ASSUME net_periodic PROVE TypeOK'
  <2>1. sent' \in ToServers /\ dhcp_bound' \in BOOLEAN
    BY <1>2 DEF net_periodic, dhcp_send_discover, ToServers, TypeOK
  <2>2. dhcp_retry_ticks' \in 0 .. RETRY_TICKS
    <3>. DEFINE ticks == dhcp_retry_ticks'
    <3>1. ticks = RETRY_TICKS \/ (dhcp_retry_ticks > 0 /\ ticks = dhcp_retry_ticks - 1)
      BY <1>2 DEF net_periodic
    <3>2. dhcp_retry_ticks \in 0 .. RETRY_TICKS
      BY DEF TypeOK
    <3>. HIDE DEF ticks
    <3>3. ticks \in 0 .. RETRY_TICKS
      BY <3>1, <3>2, NumbersAssumption
    <3>. QED
      BY <3>3 DEF ticks
  <2>. QED
    BY <1>2, <2>1, <2>2 DEF net_periodic, TypeOK
<1>3. ASSUME NEW m \in wire, dhcp_offer(m) PROVE TypeOK'
  BY <1>3 DEF dhcp_offer, Take, Request, TypeOK, ToServers, ToClient, Nak
<1>4. ASSUME NEW m \in wire, dhcp_nak(m) PROVE TypeOK'
  BY <1>4 DEF dhcp_nak, TypeOK
<1>5. ASSUME NEW m \in wire, AckAddress(m) PROVE TypeOK'
  BY <1>5, AckHolds DEF AckAddress, Take, TypeOK, PCs
<1>6. ASSUME AckInfo PROVE TypeOK'
  BY <1>6 DEF AckInfo, TypeOK, PCs, ToClient, Nak
<1>7. ASSUME AckServer PROVE TypeOK'
  BY <1>7 DEF AckServer, TypeOK, PCs, ToClient, Nak
<1>8. ASSUME AckConfigured PROVE TypeOK'
  BY <1>8 DEF AckConfigured, TypeOK, PCs
<1>9. ASSUME AckBound PROVE TypeOK'
  BY <1>9 DEF AckBound, TypeOK, PCs, ToClient
<1>10. ASSUME DhcpCommand PROVE TypeOK'
  <2>1. sent' \in ToServers
    BY <1>10 DEF DhcpCommand, net_request_dhcp, dhcp_send_discover, ToServers
  <2>2. dhcp_retry_ticks' \in 0 .. RETRY_TICKS
    BY <1>10, NumbersAssumption DEF DhcpCommand, net_request_dhcp
  <2>3. commands' \in 0 .. MAX_COMMANDS
    BY <1>10, NumbersAssumption DEF DhcpCommand, TypeOK
  <2>4. configured' \in BOOLEAN /\ dhcp_bound' \in BOOLEAN /\ interrupted' \in BOOLEAN
    BY <1>10 DEF DhcpCommand, net_request_dhcp, ClearLease, dhcp_send_discover, TypeOK
  <2>. QED
    BY <1>10, <2>1, <2>2, <2>3, <2>4
    DEF DhcpCommand, net_request_dhcp, ClearLease, TypeOK
<1>11. ASSUME NEW s \in Servers, ServerOffers(s) PROVE TypeOK'
  BY <1>11, PoolAssumption DEF ServerOffers, Offer, TypeOK, ToClient
<1>12. ASSUME NEW s \in Servers, ServerAcks(s) PROVE TypeOK'
  BY <1>12, PoolAssumption DEF ServerAcks, Ack, TypeOK, ToClient
<1>13. ASSUME NEW s \in Servers, ServerRefuses(s) PROVE TypeOK'
  BY <1>13 DEF ServerRefuses, TypeOK, ToClient
<1>14. ASSUME Lose PROVE TypeOK'
  BY <1>14 DEF Lose, TypeOK, ToServers
<1>15. ASSUME UNCHANGED vars PROVE TypeOK'
  BY <1>15 DEF vars, TypeOK
<1>. QED
  BY <1>1, <1>2, <1>3, <1>4, <1>5, <1>6, <1>7, <1>8, <1>9, <1>10, <1>11, <1>12, <1>13,
     <1>14, <1>15 DEF Next, Kernel, Network, FinishAck, dhcp_handle_udp_packet

(* What is acknowledged stays granted. *)
LEMMA AcksStep ==
  ASSUME TypeOK, AcksAreGranted, [Next]_vars
  PROVE  AcksAreGranted'
<1>1. ASSUME net_init PROVE AcksAreGranted'
  BY <1>1 DEF net_init, AcksAreGranted, Handling
<1>2. ASSUME net_periodic PROVE AcksAreGranted'
  BY <1>2 DEF net_periodic, AcksAreGranted
<1>3. ASSUME NEW m \in wire, dhcp_offer(m) PROVE AcksAreGranted'
  BY <1>3 DEF dhcp_offer, AcksAreGranted
<1>4. ASSUME NEW m \in wire, dhcp_nak(m) PROVE AcksAreGranted'
  BY <1>4 DEF dhcp_nak, AcksAreGranted
<1>5. ASSUME NEW m \in wire, AckAddress(m) PROVE AcksAreGranted'
  BY <1>5 DEF AckAddress, Take, AcksAreGranted
<1>6. ASSUME AckInfo PROVE AcksAreGranted'
  BY <1>6 DEF AckInfo, AcksAreGranted, Handling
<1>7. ASSUME AckServer PROVE AcksAreGranted'
  BY <1>7 DEF AckServer, AcksAreGranted, Handling
<1>8. ASSUME AckConfigured PROVE AcksAreGranted'
  BY <1>8 DEF AckConfigured, AcksAreGranted, Handling
<1>9. ASSUME AckBound PROVE AcksAreGranted'
  BY <1>9 DEF AckBound, AcksAreGranted, Handling
<1>10. ASSUME DhcpCommand PROVE AcksAreGranted'
  BY <1>10 DEF DhcpCommand, AcksAreGranted
<1>11. ASSUME NEW s \in Servers, ServerOffers(s) PROVE AcksAreGranted'
  BY <1>11 DEF ServerOffers, Offer, AcksAreGranted
<1>12. ASSUME NEW s \in Servers, ServerAcks(s) PROVE AcksAreGranted'
  BY <1>12 DEF ServerAcks, Ack, AcksAreGranted
<1>13. ASSUME NEW s \in Servers, ServerRefuses(s) PROVE AcksAreGranted'
  BY <1>13 DEF ServerRefuses, Nak, AcksAreGranted
<1>14. ASSUME Lose PROVE AcksAreGranted'
  BY <1>14 DEF Lose, AcksAreGranted
<1>15. ASSUME UNCHANGED vars PROVE AcksAreGranted'
  BY <1>15 DEF vars, AcksAreGranted
<1>. QED
  BY <1>1, <1>2, <1>3, <1>4, <1>5, <1>6, <1>7, <1>8, <1>9, <1>10, <1>11, <1>12, <1>13,
     <1>14, <1>15 DEF Next, Kernel, Network, FinishAck, dhcp_handle_udp_packet

(* An answer presupposes a server taken up. *)
LEMMA AskedStep ==
  ASSUME TypeOK, AskedSomeone, Fresh, [Next]_vars
  PROVE  AskedSomeone'
<1>1. ASSUME net_init PROVE AskedSomeone'
  BY <1>1 DEF net_init, net_request_dhcp, dhcp_send_discover, Discover, AskedSomeone,
     Fresh, Handling
<1>2. ASSUME net_periodic PROVE AskedSomeone'
  BY <1>2 DEF net_periodic, dhcp_send_discover, Discover, AskedSomeone
<1>3. ASSUME NEW m \in wire, dhcp_offer(m) PROVE AskedSomeone'
  <2>1. server_id' \in Servers
    BY <1>3, OfferHolds DEF dhcp_offer, Take, TypeOK
  <2>. QED
    BY <1>3, <2>1 DEF dhcp_offer, AskedSomeone
<1>4. ASSUME NEW m \in wire, dhcp_nak(m) PROVE AskedSomeone'
  BY <1>4 DEF dhcp_nak, AskedSomeone
<1>5. ASSUME NEW m \in wire, AckAddress(m) PROVE AskedSomeone'
  BY <1>5 DEF AckAddress, Take, AskedSomeone
<1>6. ASSUME AckInfo PROVE AskedSomeone'
  BY <1>6 DEF AckInfo, AskedSomeone, Handling
<1>7. ASSUME AckServer PROVE AskedSomeone'
  BY <1>7 DEF AckServer, AskedSomeone, Handling
<1>8. ASSUME AckConfigured PROVE AskedSomeone'
  BY <1>8 DEF AckConfigured, AskedSomeone, Handling
<1>9. ASSUME AckBound PROVE AskedSomeone'
  BY <1>9 DEF AckBound, AskedSomeone, Handling
<1>10. ASSUME DhcpCommand PROVE AskedSomeone'
  BY <1>10 DEF DhcpCommand, net_request_dhcp, dhcp_send_discover, Discover, AskedSomeone
<1>11. ASSUME NEW s \in Servers, ServerOffers(s) PROVE AskedSomeone'
  BY <1>11 DEF ServerOffers, Offer, AskedSomeone
<1>12. ASSUME NEW s \in Servers, ServerAcks(s) PROVE AskedSomeone'
  BY <1>12 DEF ServerAcks, Request, AskedSomeone
<1>13. ASSUME NEW s \in Servers, ServerRefuses(s) PROVE AskedSomeone'
  BY <1>13 DEF ServerRefuses, Nak, AskedSomeone
<1>14. ASSUME Lose PROVE AskedSomeone'
  BY <1>14 DEF Lose, Nothing, AskedSomeone
<1>15. ASSUME UNCHANGED vars PROVE AskedSomeone'
  BY <1>15 DEF vars, AskedSomeone
<1>. QED
  BY <1>1, <1>2, <1>3, <1>4, <1>5, <1>6, <1>7, <1>8, <1>9, <1>10, <1>11, <1>12, <1>13,
     <1>14, <1>15 DEF Next, Kernel, Network, FinishAck, dhcp_handle_udp_packet

(* Nothing is learnt before net_init. *)
LEMMA FreshStep ==
  ASSUME TypeOK, Fresh, [Next]_vars
  PROVE  Fresh'
<1>1. ASSUME net_init PROVE Fresh'
  BY <1>1 DEF net_init, Fresh
<1>2. ASSUME net_periodic PROVE Fresh'
  BY <1>2 DEF net_periodic, Fresh
<1>3. ASSUME NEW m \in wire, dhcp_offer(m) PROVE Fresh'
  BY <1>3 DEF dhcp_offer, Take, Fresh
<1>4. ASSUME NEW m \in wire, dhcp_nak(m) PROVE Fresh'
  BY <1>4 DEF dhcp_nak, Fresh
<1>5. ASSUME NEW m \in wire, AckAddress(m) PROVE Fresh'
  BY <1>5 DEF AckAddress, Fresh
<1>6. ASSUME AckInfo PROVE Fresh'
  BY <1>6 DEF AckInfo, Fresh
<1>7. ASSUME AckServer PROVE Fresh'
  BY <1>7 DEF AckServer, Fresh
<1>8. ASSUME AckConfigured PROVE Fresh'
  BY <1>8 DEF AckConfigured, Fresh
<1>9. ASSUME AckBound PROVE Fresh'
  BY <1>9 DEF AckBound, Fresh
<1>10. ASSUME DhcpCommand PROVE Fresh'
  BY <1>10 DEF DhcpCommand, net_request_dhcp, ClearLease, dhcp_send_discover, Discover,
     Fresh
<1>11. ASSUME NEW s \in Servers, ServerOffers(s) PROVE Fresh'
  BY <1>11 DEF ServerOffers, Offer, Fresh
<1>12. ASSUME NEW s \in Servers, ServerAcks(s) PROVE Fresh'
  BY <1>12 DEF ServerAcks, Request, Fresh
<1>13. ASSUME NEW s \in Servers, ServerRefuses(s) PROVE Fresh'
  BY <1>13 DEF ServerRefuses, Nak, Fresh
<1>14. ASSUME Lose PROVE Fresh'
  BY <1>14 DEF Lose, Nothing, Fresh
<1>15. ASSUME UNCHANGED vars PROVE Fresh'
  BY <1>15 DEF vars, Fresh
<1>. QED
  BY <1>1, <1>2, <1>3, <1>4, <1>5, <1>6, <1>7, <1>8, <1>9, <1>10, <1>11, <1>12, <1>13,
     <1>14, <1>15 DEF Next, Kernel, Network, FinishAck, dhcp_handle_udp_packet

(* The handler of a DHCPACK builds the lease up. *)
LEMMA HandledStep ==
  ASSUME TypeOK, AskedSomeone, HandledSoFar, AcksAreGranted, [Next]_vars
  PROVE  HandledSoFar'
<1>1. ASSUME net_init PROVE HandledSoFar'
  BY <1>1 DEF net_init, HandledSoFar, Handling
<1>2. ASSUME net_periodic PROVE HandledSoFar'
  BY <1>2 DEF net_periodic, HandledSoFar
<1>3. ASSUME NEW m \in wire, dhcp_offer(m) PROVE HandledSoFar'
  BY <1>3 DEF dhcp_offer, HandledSoFar
<1>4. ASSUME NEW m \in wire, dhcp_nak(m) PROVE HandledSoFar'
  BY <1>4 DEF dhcp_nak, Take, HandledSoFar
<1>5. ASSUME NEW m \in wire, AckAddress(m) PROVE HandledSoFar'
  BY <1>5 DEF AckAddress, HandledSoFar
<1>6. ASSUME AckInfo PROVE HandledSoFar'
  BY <1>6 DEF AckInfo, HandledSoFar, Handling
<1>7. ASSUME AckServer PROVE HandledSoFar'
  <2>1. CASE interrupted
    BY <1>7, <2>1 DEF AckServer, HandledSoFar
  <2>2. CASE ~interrupted
    <3>1. packet.server \in Servers \cup {NoAddr} /\ server_id \in Servers
      BY <1>7, AckHolds DEF AckServer, AcksAreGranted, AskedSomeone, Handling, TypeOK
    <3>2. dhcp_server' \in Servers
      BY <1>7, <3>1 DEF AckServer
    <3>. QED
      BY <1>7, <2>2, <3>2 DEF AckServer, HandledSoFar, Handling
  <2>. QED
    BY <2>1, <2>2
<1>8. ASSUME AckConfigured PROVE HandledSoFar'
  BY <1>8 DEF AckConfigured, HandledSoFar, Handling
<1>9. ASSUME AckBound PROVE HandledSoFar'
  BY <1>9 DEF AckBound, HandledSoFar, Handling
<1>10. ASSUME DhcpCommand PROVE HandledSoFar'
  BY <1>10 DEF DhcpCommand, HandledSoFar, Handling
<1>11. ASSUME NEW s \in Servers, ServerOffers(s) PROVE HandledSoFar'
  BY <1>11 DEF ServerOffers, HandledSoFar
<1>12. ASSUME NEW s \in Servers, ServerAcks(s) PROVE HandledSoFar'
  BY <1>12 DEF ServerAcks, HandledSoFar
<1>13. ASSUME NEW s \in Servers, ServerRefuses(s) PROVE HandledSoFar'
  BY <1>13 DEF ServerRefuses, HandledSoFar
<1>14. ASSUME Lose PROVE HandledSoFar'
  BY <1>14 DEF Lose, HandledSoFar
<1>15. ASSUME UNCHANGED vars PROVE HandledSoFar'
  BY <1>15 DEF vars, HandledSoFar
<1>. QED
  BY <1>1, <1>2, <1>3, <1>4, <1>5, <1>6, <1>7, <1>8, <1>9, <1>10, <1>11, <1>12, <1>13,
     <1>14, <1>15 DEF Next, Kernel, Network, FinishAck, dhcp_handle_udp_packet

(* A configured client has a granted address. *)
LEMMA LeasedStep ==
  ASSUME TypeOK, AcksAreGranted, HandledSoFar, ConfiguredIsLeased, [Next]_vars
  PROVE  ConfiguredIsLeased'
<1>1. ASSUME net_init PROVE ConfiguredIsLeased'
  BY <1>1 DEF net_init, net_request_dhcp, ClearLease, ConfiguredIsLeased
<1>2. ASSUME net_periodic PROVE ConfiguredIsLeased'
  BY <1>2 DEF net_periodic, ConfiguredIsLeased
<1>3. ASSUME NEW m \in wire, dhcp_offer(m) PROVE ConfiguredIsLeased'
  BY <1>3 DEF dhcp_offer, ConfiguredIsLeased
<1>4. ASSUME NEW m \in wire, dhcp_nak(m) PROVE ConfiguredIsLeased'
  BY <1>4 DEF dhcp_nak, ConfiguredIsLeased
<1>5. ASSUME NEW m \in wire, AckAddress(m) PROVE ConfiguredIsLeased'
  BY <1>5 DEF AckAddress, Take, AcksAreGranted, ConfiguredIsLeased
<1>6. ASSUME AckInfo PROVE ConfiguredIsLeased'
  BY <1>6 DEF AckInfo, ConfiguredIsLeased
<1>7. ASSUME AckServer PROVE ConfiguredIsLeased'
  BY <1>7 DEF AckServer, ConfiguredIsLeased
<1>8. ASSUME AckConfigured PROVE ConfiguredIsLeased'
  BY <1>8 DEF AckConfigured, AcksAreGranted, HandledSoFar, ConfiguredIsLeased, Handling
<1>9. ASSUME AckBound PROVE ConfiguredIsLeased'
  BY <1>9 DEF AckBound, ConfiguredIsLeased
<1>10. ASSUME DhcpCommand PROVE ConfiguredIsLeased'
  BY <1>10 DEF DhcpCommand, net_request_dhcp, ClearLease, ConfiguredIsLeased
<1>11. ASSUME NEW s \in Servers, ServerOffers(s) PROVE ConfiguredIsLeased'
  BY <1>11 DEF ServerOffers, ConfiguredIsLeased
<1>12. ASSUME NEW s \in Servers, ServerAcks(s) PROVE ConfiguredIsLeased'
  BY <1>12 DEF ServerAcks, ConfiguredIsLeased
<1>13. ASSUME NEW s \in Servers, ServerRefuses(s) PROVE ConfiguredIsLeased'
  BY <1>13 DEF ServerRefuses, ConfiguredIsLeased
<1>14. ASSUME Lose PROVE ConfiguredIsLeased'
  BY <1>14 DEF Lose, ConfiguredIsLeased
<1>15. ASSUME UNCHANGED vars PROVE ConfiguredIsLeased'
  BY <1>15 DEF vars, ConfiguredIsLeased
<1>. QED
  BY <1>1, <1>2, <1>3, <1>4, <1>5, <1>6, <1>7, <1>8, <1>9, <1>10, <1>11, <1>12, <1>13,
     <1>14, <1>15 DEF Next, Kernel, Network, FinishAck, dhcp_handle_udp_packet

(* The lease is whole again when the handler ends. *)
LEMMA WholeStep ==
  ASSUME TypeOK, Fresh, HandledSoFar, LeaseIsWhole, [Next]_vars
  PROVE  LeaseIsWhole'
<1>1. ASSUME net_init PROVE LeaseIsWhole'
  BY <1>1 DEF net_init, net_request_dhcp, ClearLease, dhcp_send_discover, LeaseIsWhole
<1>2. ASSUME net_periodic PROVE LeaseIsWhole'
  BY <1>2 DEF net_periodic, dhcp_send_discover, LeaseIsWhole
<1>3. ASSUME NEW m \in wire, dhcp_offer(m) PROVE LeaseIsWhole'
  BY <1>3 DEF dhcp_offer, LeaseIsWhole
<1>4. ASSUME NEW m \in wire, dhcp_nak(m) PROVE LeaseIsWhole'
  BY <1>4 DEF dhcp_nak, LeaseIsWhole
<1>5. ASSUME NEW m \in wire, AckAddress(m) PROVE LeaseIsWhole'
  BY <1>5 DEF AckAddress, LeaseIsWhole
<1>6. ASSUME AckInfo PROVE LeaseIsWhole'
  BY <1>6 DEF AckInfo, LeaseIsWhole
<1>7. ASSUME AckServer PROVE LeaseIsWhole'
  BY <1>7 DEF AckServer, LeaseIsWhole
<1>8. ASSUME AckConfigured PROVE LeaseIsWhole'
  BY <1>8 DEF AckConfigured, LeaseIsWhole
<1>9. ASSUME AckBound PROVE LeaseIsWhole'
  BY <1>9 DEF AckBound, HandledSoFar, LeaseIsWhole, Handling
<1>10. ASSUME DhcpCommand PROVE LeaseIsWhole'
  BY <1>10 DEF DhcpCommand, net_request_dhcp, ClearLease, dhcp_send_discover, LeaseIsWhole
<1>11. ASSUME NEW s \in Servers, ServerOffers(s) PROVE LeaseIsWhole'
  BY <1>11 DEF ServerOffers, LeaseIsWhole
<1>12. ASSUME NEW s \in Servers, ServerAcks(s) PROVE LeaseIsWhole'
  BY <1>12 DEF ServerAcks, LeaseIsWhole
<1>13. ASSUME NEW s \in Servers, ServerRefuses(s) PROVE LeaseIsWhole'
  BY <1>13 DEF ServerRefuses, LeaseIsWhole
<1>14. ASSUME Lose PROVE LeaseIsWhole'
  BY <1>14 DEF Lose, LeaseIsWhole
<1>15. ASSUME UNCHANGED vars PROVE LeaseIsWhole'
  BY <1>15 DEF vars, LeaseIsWhole
<1>. QED
  BY <1>1, <1>2, <1>3, <1>4, <1>5, <1>6, <1>7, <1>8, <1>9, <1>10, <1>11, <1>12, <1>13,
     <1>14, <1>15 DEF Next, Kernel, Network, FinishAck, dhcp_handle_udp_packet

(* IInv holds at first and is kept, hence always holds.                       *)
LEMMA InvInit == Init => IInv
<1>. SUFFICES ASSUME Init PROVE IInv
  OBVIOUS
<1>1. TypeOK
  <2>1. sent \in ToServers /\ packet \in ToClient
    BY DEF Init, ToServers, ToClient
  <2>2. dhcp_retry_ticks \in 0 .. RETRY_TICKS /\ commands \in 0 .. MAX_COMMANDS
    BY NumbersAssumption DEF Init
  <2>3. wire = {} /\ granted = {} /\ pc \in PCs
    BY DEF Init, PCs
  <2>. QED
    BY <2>1, <2>2, <2>3 DEF Init, TypeOK
<1>2. AcksAreGranted /\ AskedSomeone /\ Fresh
  BY DEF Init, AcksAreGranted, AskedSomeone, Fresh, Handling, Nothing
<1>3. HandledSoFar /\ ConfiguredIsLeased /\ LeaseIsWhole
  BY DEF Init, HandledSoFar, ConfiguredIsLeased, LeaseIsWhole, Handling
<1>. QED
  BY <1>1, <1>2, <1>3 DEF IInv

LEMMA InvStep == IInv /\ [Next]_vars => IInv'
  BY TypeStep, AcksStep, AskedStep, FreshStep, HandledStep, LeasedStep, WholeStep DEF IInv

LEMMA InvAlways == Spec => []IInv
  BY InvInit, InvStep, PTL DEF Spec

(* Dhcp keeps its types whatever the servers answer; above all the retry      *)
(* counter, decremented by net_periodic, never passes below zero.             *)
THEOREM TypeCorrect == Spec => []TypeOK
<1>1. IInv => TypeOK
  BY DEF IInv
<1>. QED
  BY <1>1, InvAlways, PTL

(* However many servers there are and however often `dhcp` is typed, the      *)
(* source of a text is an address some server leased to this machine, unless  *)
(* the command came in the middle of the last DHCPACK.                        *)
THEOREM TextsComeFromALease == Spec => []SourceIsLeasedUndisturbed
<1>1. IInv => SourceIsLeasedUndisturbed
  BY DEF IInv, ConfiguredIsLeased, SourceIsLeasedUndisturbed, SourceIsLeased, net_send_text_broadcast
<1>. QED
  BY <1>1, InvAlways, PTL

(* Between frames the two flags agree, and the lease of a configured client   *)
(* is the same in both of its copies and names a server.                      *)
THEOREM LeasesAreWhole == Spec => []LeaseIsWhole
<1>1. IInv => LeaseIsWhole
  BY DEF IInv
<1>. QED
  BY <1>1, InvAlways, PTL
=============================================================================
