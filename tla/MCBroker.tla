------------------------------ MODULE MCBroker ------------------------------
(* Conversations of two peers with two replies. *)
EXTENDS Broker

CONSTANTS a, b, ghost, none

TwoPeers    == <<a, b>>
MCStrangers == {ghost}

\* Silent about the next speaker, and a trailer to b with the sentinel.
TwoReplies == { <<Text>>, <<Trailer(b), End>> }
=============================================================================
