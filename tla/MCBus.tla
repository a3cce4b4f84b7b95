-------------------------------- MODULE MCBus --------------------------------
(* Two publishers, two possible subscriptions, buffers of one message. *)
EXTENDS Bus

CONSTANTS p1, p2, s1, s2

MCPublishers == {p1, p2}
MCSubs == {s1, s2}
=============================================================================
