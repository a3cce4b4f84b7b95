---------------------------- MODULE Subscription ----------------------------
(***************************************************************************)
(* One subscription of the in-process bus (internal/bus/inproc/inproc.go): *)
(* a buffered Go channel with a closed flag, both under the subscription's *)
(* own mutex, so that deliver and close are single steps.                  *)
(***************************************************************************)
EXTENDS Integers, Sequences

CONSTANT BufferSize       \* Bus.bufferSize: 64 unless WithBufferSize says otherwise

\* WithBufferSize ignores sizes below one.
ASSUME BufferAssumption == BufferSize \in Nat \ {0}

SubscriptionOf(Msg) == [state : {"none", "open", "closed"}, queue : Seq(Msg)]

NoSubscription  == [state |-> "none", queue |-> <<>>]
NewSubscription == [state |-> "open", queue |-> <<>>]

Full(sub) == Len(sub.queue) >= BufferSize

\* deliver: nothing on a closed subscription, and a slow consumer loses the
\* message: the publisher never blocks.
Deliver(sub, msg) ==
  IF sub.state = "open" /\ ~Full(sub)
  THEN [sub EXCEPT !.queue = Append(@, msg)]
  ELSE sub

\* close: what is buffered can still be received.
CloseSubscription(sub) ==
  IF sub.state = "open" THEN [sub EXCEPT !.state = "closed"] ELSE sub

\* A receive from the channel, when it has something.
CanReceive(sub) == sub.queue # <<>>
Received(sub)   == [sub EXCEPT !.queue = Tail(@)]
=============================================================================
