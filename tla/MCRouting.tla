----------------------------- MODULE MCRouting -----------------------------
(* Routing for three peers and one id that nobody has. *)
EXTENDS Routing

CONSTANTS alice, bob, carol, ghost, none

MCPeerOrder == <<alice, bob, carol>>
MCStrangers == {ghost}
=============================================================================
