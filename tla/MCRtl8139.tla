------------------------------ MODULE MCRtl8139 ------------------------------
(* Rtl8139 on a ring of 256 bytes that three or four frames fill.          *)
EXTENDS Rtl8139

Ip(ihl, total, to, udp) ==
    [ethertype |-> 2048, version |-> 4, ihl |-> ihl, total_len |-> total, protocol |-> 17,
     src_port |-> "67", dst_port |-> to, udp_len |-> udp]

\* Honest and dishonest lengths; a frame here carries 60 bytes or 93.
MCContents ==
    {Ip(5, 46, "68", 26), Ip(6, 65535, "text", 65535), Ip(5, 28, "text", 0), Ip(5, 60, "68", 200),
     Ip(15, 68, "text", 8), Ip(4, 46, "68", 26)}

MCOptionLists == {<<53, 1, 5, 255>>, <<0, 53, 1, 5>>, <<54, 2, 53, 1, 53, 1, 2>>, <<54, 3, 53, 1>>,
                  <<255, 53, 1, 5>>, <<53>>, <<54, 0, 53, 0>>}
=============================================================================
