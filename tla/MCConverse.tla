----------------------------- MODULE MCConverse -----------------------------
(* The converse command with three peers that address each other. *)
EXTENDS Converse

CONSTANTS a, b, c, ghost, none

ThreePeers  == <<a, b, c>>
MCStrangers == {ghost}

\* The sentinel with talk after it, and a trailer to the last peer, which the
\* last peer may not follow.
MCReplies == { <<Text, Blank, End, Text>>, <<Trailer(c)>> }
=============================================================================
