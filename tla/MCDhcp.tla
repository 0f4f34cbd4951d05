-------------------------------- MODULE MCDhcp --------------------------------
(* Dhcp with two servers of one address each: see README.md for the bounds. *)
EXTENDS Dhcp, TLC

CONSTANTS s1, s2, a1, a2

MCServers == {s1, s2}
MCAddrs == {a1, a2}
MCPool == s1 :> {a1} @@ s2 :> {a2}
MCTerse == {s2}
=============================================================================
