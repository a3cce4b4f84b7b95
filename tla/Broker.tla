------------------------------- MODULE Broker -------------------------------
(***************************************************************************)
(* One conversation: Broker.Run (internal/conversation/broker.go), the     *)
(* sentinel terminator's goroutine (internal/terminator/sentinel.go), the  *)
(* two bus subscriptions between them, the peers' transports as the broker *)
(* uses them (internal/peer) and the conversation's record in the store.   *)
(*                                                                         *)
(* A step of Run ends where another goroutine, or the end of the context,  *)
(* can come between: at a call of the store, of the bus or of a transport, *)
(* and at every receive.  A Publish is one step here; module Bus shows why *)
(* each subscriber sees it so.                                             *)
(***************************************************************************)
EXTENDS TurnPolicy, Subscription

CONSTANTS
  Replies,          \* the replies a peer may give
  Opener,           \* Conversation.OpenerID
  MaxTurns,         \* Conversation.MaxTurns
  Faults,           \* the calls that may fail
  OtherControl,     \* control messages other publishers may send
  MaxOther          \* bound on how many of them

Calls == {"create", "start", "terminator", "subscribe", "deliver", "append",
          "publish", "update"}

ASSUME BrokerAssumption ==
  /\ Replies \subseteq Reply
  /\ Opener \in Peers
  /\ MaxTurns \in Nat \ {0}
  /\ Faults \subseteq Calls
  /\ OtherControl \subseteq {"continue", "peer_crashed", "peer_blocked"}
  /\ MaxOther \in Nat

N == Len(PeerOrder)

VARIABLES
  pc,           \* where Run is
  ctx,          \* the run context: live, canceled or past its deadline
  peers,        \* each transport: "new", "up" or "stopped"
  k,            \* the index of the loops over PeerOrder
  active,       \* whose turn it is
  envelope,     \* the envelope being delivered
  cur,          \* the turn just captured, not yet in turns
  turns,        \* Run's turn log
  turnSub,      \* the sentinel's subscription to the turn topic
  ctlSub,       \* Run's subscription to the control topic
  drained,      \* the control messages drained after the current turn
  outcome,      \* the status Run has decided on, "running" until then
  note,         \* FinalResult.TerminatorNote
  warnings,     \* what FinalResult.Warnings complains of
  disk,         \* the conversation's record in the store
  sentinel,     \* the sentinel's goroutine: "off", "select", "publish", "done"
  stopSentinel, \* Sentinel.Stop has cancelled the goroutine's context
  other,        \* control messages sent by other publishers
  history,      \* the envelopes handed to transports, in order, and to whom
  turnsAtDone   \* how many turns there were when the context ended

floorVars == <<active, envelope>>
turnVars  == <<cur, turns, drained>>
endVars   == <<outcome, note>>
runVars   == <<pc, k, floorVars, turnVars, endVars, warnings>>
busVars   == <<turnSub, ctlSub>>
sentVars  == <<sentinel, stopSentinel>>
ctxVars   == <<ctx, turnsAtDone>>
outside   == <<busVars, sentVars, ctxVars, peers, disk, other, history>>
vars == <<runVars, outside>>

----------------------------------------------------------------------------
\* Data.

Reasons  == {"", "opener", "addressed", "fallback_roundrobin"}
Statuses == {"running", "completed_sentinel", "max_turns_hit", "interrupted",
             "error", "peer_crashed", "peer_blocked"}
Notes    == {"", "start", "subscribe", "context", "exited", "failed", "max_turns",
             "sentinel", "peer"}
Control  == {"terminate", "continue", "peer_crashed", "peer_blocked"}

Turn == [index : Nat, from : Peers, reply : Reply, to : Peers \cup {NoPeer},
         reason : Reasons, parsed : Peers \cup Strangers \cup {NoPeer}, fallback : BOOLEAN]

Envelope == [index : Nat, from : Peers \cup {NoPeer}, body : Reply, briefing : BOOLEAN]

\* BuildEnvelopeTurn1 and BuildEnvelopeTurnN: only the first one carries the
\* briefing; its sender is the seed.  The seed is shown as an empty body.
EnvelopeTurn1 ==
  [index |-> 1, from |-> NoPeer, body |-> <<>>, briefing |-> TRUE]

EnvelopeTurnN(index, from, previousResponse) ==
  [index |-> index, from |-> from, body |-> previousResponse, briefing |-> FALSE]

\* What Deliver's answer becomes before it is stored: FromID, and the reason
\* of the very first turn.  The policy has not run yet.
CapturedTurn(env, from, reply, first) ==
  [index |-> env.index, from |-> from, reply |-> reply, to |-> NoPeer,
   reason |-> IF first THEN "opener" ELSE "", parsed |-> NoPeer, fallback |-> FALSE]

\* Slip: the addressee is what was parsed, known or not.
RoutedToParsed(turn, decision) == [turn EXCEPT !.to = decision.parsed]

\* The turn record after the policy's decision.
RoutedTurn(turn, decision) ==
  [turn EXCEPT !.to = decision.next,
               !.reason = CASE @ = "opener" -> @
                            [] @ # "opener" /\ decision.fallback -> "fallback_roundrobin"
                            [] OTHER -> "addressed",
               !.parsed = decision.parsed,
               !.fallback = decision.fallback]

\* Slip: only a cancellation counts, not an expired deadline.
CtxCanceled == ctx = "canceled"

CtxDone == ctx # "live"

\* Run decides how the conversation ends and goes on to finalize.
Decide(status, why) ==
  /\ outcome' = status
  /\ note' = why
  /\ pc' = "finalize"

MayFail(call) == {FALSE} \cup (IF call \in Faults THEN {TRUE} ELSE {})

Warn(failed, what) == warnings' = IF failed THEN warnings \cup {what} ELSE warnings

----------------------------------------------------------------------------
Init ==
  /\ pc = "create"
  /\ ctx = "live"
  /\ peers = [p \in Peers |-> "new"]
  /\ k = 1
  /\ active = Opener
  /\ envelope = EnvelopeTurn1
  /\ cur = CapturedTurn(EnvelopeTurn1, Opener, <<>>, TRUE)
  /\ turns = <<>>
  /\ turnSub = NoSubscription
  /\ ctlSub = NoSubscription
  /\ drained = <<>>
  /\ outcome = "running"
  /\ note = ""
  /\ warnings = {}
  /\ disk = [status |-> "none", consumed |-> 0, turns |-> <<>>]
  /\ sentinel = "off"
  /\ stopSentinel = FALSE
  /\ other = 0
  /\ history = <<>>
  /\ turnsAtDone = 0

----------------------------------------------------------------------------
\* Run, up to the loop.

CreateConversation ==
  /\ pc = "create"
  /\ \E failed \in MayFail("create") :
       /\ disk' = IF failed THEN disk ELSE [disk EXCEPT !.status = "running"]
       /\ Warn(failed, "create")
  /\ pc' = "start"
  /\ UNCHANGED <<k, floorVars, turnVars, endVars,
                 busVars, sentVars, ctxVars, peers, other, history>>

\* startAllPeers, one peer at a time.
StartPeer ==
  /\ pc = "start"
  /\ k <= N
  /\ peers' = [peers EXCEPT ![PeerOrder[k]] = "up"]
  /\ k' = k + 1
  /\ UNCHANGED <<pc, floorVars, turnVars, endVars, warnings,
                 busVars, sentVars, ctxVars, disk, other, history>>

\* Slip: a peer that does not start is passed over.
StartPeerIgnored ==
  /\ pc = "start"
  /\ "start" \in Faults
  /\ k <= N
  /\ k' = k + 1
  /\ UNCHANGED <<pc, floorVars, turnVars, endVars, warnings, outside>>

StartPeerFails ==
  /\ pc = "start"
  /\ "start" \in Faults
  /\ k <= N
  /\ pc' = "rollback"
  /\ k' = 1
  /\ UNCHANGED <<floorVars, turnVars, endVars, warnings, outside>>

\* Slip: the error is returned without stopping what was started.
NoRollback ==
  /\ pc = "rollback"
  /\ Decide("error", "start")
  /\ UNCHANGED <<k, floorVars, turnVars, warnings, outside>>

\* stopPeerIDs(started): those before the one that failed, in order.
StopStarted ==
  /\ pc = "rollback"
  /\ IF k <= N /\ peers[PeerOrder[k]] = "up"
     THEN /\ peers' = [peers EXCEPT ![PeerOrder[k]] = "stopped"]
          /\ k' = k + 1
          /\ UNCHANGED <<pc, endVars>>
     ELSE /\ Decide("error", "start")
          /\ UNCHANGED <<peers, k>>
  /\ UNCHANGED <<floorVars, turnVars, warnings,
                 busVars, sentVars, ctxVars, disk, other, history>>

\* Sentinel.Start: subscribes and starts the goroutine, or fails and leaves a
\* warning and no terminator.
StartTerminator ==
  /\ pc = "start"
  /\ k > N
  /\ \E failed \in MayFail("terminator") :
       /\ Warn(failed, "terminator")
       /\ turnSub' = IF failed THEN turnSub ELSE NewSubscription
       /\ sentinel' = IF failed THEN "off" ELSE "select"
  /\ pc' = "subscribe"
  /\ UNCHANGED <<k, floorVars, turnVars, endVars, ctlSub,
                 stopSentinel, ctxVars, peers, disk, other, history>>

SubscribeControl ==
  /\ pc = "subscribe"
  /\ ctlSub' = NewSubscription
  /\ active' = Opener
  /\ envelope' = EnvelopeTurn1
  /\ pc' = "head"
  /\ UNCHANGED <<k, turnVars, endVars, warnings, turnSub,
                 sentVars, ctxVars, peers, disk, other, history>>

SubscribeControlFails ==
  /\ pc = "subscribe"
  /\ "subscribe" \in Faults
  /\ Decide("error", "subscribe")
  /\ UNCHANGED <<k, floorVars, turnVars, warnings, outside>>

----------------------------------------------------------------------------
\* The loop of Run.

\* The context check at the head of the loop.
LoopHead ==
  /\ pc = "head"
  /\ IF CtxDone
     THEN Decide("interrupted", "context")
     ELSE pc' = "deliver" /\ UNCHANGED endVars
  /\ UNCHANGED <<k, floorVars, turnVars, warnings, outside>>

\* Deliver hands the envelope to the active peer's transport ...
CallDeliver ==
  /\ pc = "deliver"
  /\ history' = Append(history, [to |-> active, env |-> envelope])
  /\ pc' = "await"
  /\ UNCHANGED <<k, floorVars, turnVars, endVars, warnings,
                 busVars, sentVars, ctxVars, peers, disk, other>>

\* ... which answers with a turn, even when the context has ended meanwhile:
\* ConverseTurn looks for the marker before it looks at the context.
DeliverReturns(reply) ==
  /\ pc = "await"
  /\ cur' = CapturedTurn(envelope, active, reply, turns = <<>>)
  /\ pc' = "persist"
  /\ UNCHANGED <<k, floorVars, turns, drained, endVars, warnings, outside>>

\* ... or with the context's error ...
DeliverInterrupted ==
  /\ pc = "await"
  /\ CtxDone
  /\ Decide("interrupted", "context")
  /\ UNCHANGED <<k, floorVars, turnVars, warnings, outside>>

\* ... or with any other: the process exited, or the turn timed out, its
\* buffer overflowed, the write failed.
DeliverFails(why) ==
  /\ pc = "await"
  /\ "deliver" \in Faults
  /\ Decide("error", why)
  /\ UNCHANGED <<k, floorVars, turnVars, warnings, outside>>

\* Slip: the store's error is dropped.
AppendQuietly ==
  /\ pc = "persist"
  /\ \E failed \in MayFail("append") :
       disk' = IF failed THEN disk ELSE [disk EXCEPT !.turns = Append(@, cur)]
  /\ pc' = "publish"
  /\ UNCHANGED <<k, floorVars, turnVars, endVars, warnings,
                 busVars, sentVars, ctxVars, peers, other, history>>

\* Slip: the stored turn is already routed, the published one is not.
AppendRouted ==
  /\ pc = "persist"
  /\ disk' = [disk EXCEPT !.turns = Append(@, RoutedTurn(cur, Route(active, cur.reply)))]
  /\ pc' = "publish"
  /\ UNCHANGED <<k, floorVars, turnVars, endVars, warnings,
                 busVars, sentVars, ctxVars, peers, other, history>>

AppendConversationTurn ==
  /\ pc = "persist"
  /\ \E failed \in MayFail("append") :
       /\ disk' = IF failed THEN disk ELSE [disk EXCEPT !.turns = Append(@, cur)]
       /\ Warn(failed, "append")
  /\ pc' = "publish"
  /\ UNCHANGED <<k, floorVars, turnVars, endVars,
                 busVars, sentVars, ctxVars, peers, other, history>>

\* publishTurn; the sentinel is the turn topic's subscriber here.
PublishTurn ==
  /\ pc = "publish"
  /\ \E failed \in MayFail("publish") :
       /\ turnSub' = IF failed THEN turnSub ELSE Deliver(turnSub, cur.reply)
       /\ Warn(failed, "publish")
  /\ pc' = "route"
  /\ UNCHANGED <<k, floorVars, turnVars, endVars, ctlSub,
                 sentVars, ctxVars, peers, disk, other, history>>

\* The turn joins the log and the policy completes its record there ...
RouteTurn ==
  /\ pc = "route"
  /\ turns' = Append(turns, RoutedTurn(cur, Route(active, cur.reply)))
  /\ pc' = "limits"
  /\ UNCHANGED <<k, floorVars, cur, drained, endVars, warnings, outside>>

\* Slip: the cap is off by one.
CheckLimitsLate ==
  /\ pc = "limits"
  /\ IF Len(turns) > MaxTurns
     THEN Decide("max_turns_hit", "max_turns")
     ELSE IF CtxDone
     THEN Decide("interrupted", "context")
     ELSE pc' = "drain" /\ UNCHANGED endVars
  /\ drained' = <<>>
  /\ UNCHANGED <<k, floorVars, cur, turns, warnings, outside>>

\* ... then the hard cap and the second look at the context, in this order.
CheckLimits ==
  /\ pc = "limits"
  /\ IF Len(turns) >= MaxTurns
     THEN Decide("max_turns_hit", "max_turns")
     ELSE IF CtxDone
     THEN Decide("interrupted", "context")
     ELSE pc' = "drain" /\ UNCHANGED endVars
  /\ drained' = <<>>
  /\ UNCHANGED <<k, floorVars, cur, turns, warnings, outside>>

\* drainControlTimed: wait for a first message ...
DrainReceive ==
  /\ pc \in {"drain", "drain_more"}
  /\ CanReceive(ctlSub)
  /\ drained' = Append(drained, Head(ctlSub.queue))
  /\ ctlSub' = Received(ctlSub)
  /\ pc' = "drain_more"
  /\ UNCHANGED <<k, floorVars, cur, turns, endVars, warnings, turnSub,
                 sentVars, ctxVars, peers, disk, other, history>>

\* ... no longer than the drain window ...
DrainTimeout ==
  /\ pc = "drain"
  /\ pc' = "judge"
  /\ UNCHANGED <<k, floorVars, turnVars, endVars, warnings, outside>>

\* ... then take what else is there.
DrainEmpty ==
  /\ pc = "drain_more"
  /\ ~CanReceive(ctlSub)
  /\ pc' = "judge"
  /\ UNCHANGED <<k, floorVars, turnVars, endVars, warnings, outside>>

\* The first drained message that ends a conversation, 0 if there is none.
Verdict == SelectInSeq(drained, LAMBDA m : m # "continue")

\* That message decides; without one the floor passes to the peer the policy
\* chose, with an envelope of the given sender and body.
JudgeWith(sender, body) ==
  /\ pc = "judge"
  /\ IF Verdict # 0
     THEN /\ IF drained[Verdict] = "terminate"
             THEN Decide("completed_sentinel", "sentinel")
             ELSE Decide(drained[Verdict], "peer")
          /\ UNCHANGED floorVars
     ELSE /\ active' = turns[Len(turns)].to
          /\ envelope' = EnvelopeTurnN(Len(turns) + 1, sender, body)
          /\ pc' = "head"
          /\ UNCHANGED endVars
  /\ UNCHANGED <<k, turnVars, warnings, outside>>

\* Slip: the floor passes before the envelope is made.
JudgeFloorFirst == pc = "judge" /\ JudgeWith(turns[Len(turns)].to, StripSentinel(cur.reply))

\* The envelope is the speaker's, and it stops at the sentinel.
Judge == JudgeWith(active, StripSentinel(cur.reply))

----------------------------------------------------------------------------
\* finalize, then the deferred calls, last one first.

\* UpdateConversation can only succeed on a record that was created.
Finalize ==
  /\ pc = "finalize"
  /\ \E failed \in IF disk.status = "none" THEN {TRUE} ELSE MayFail("update") :
       /\ disk' = IF failed THEN disk ELSE [disk EXCEPT !.status = outcome, !.consumed = Len(turns)]
       /\ Warn(failed, "update")
  /\ pc' = CASE note = "start"     -> "returned"
             [] note = "subscribe" -> "stop_terminator"
             [] OTHER              -> "cancel_control"
  /\ UNCHANGED <<k, floorVars, turnVars, endVars,
                 busVars, sentVars, ctxVars, peers, other, history>>

\* ctlCancel: what is buffered stays readable, nobody reads it.
CancelControl ==
  /\ pc = "cancel_control"
  /\ ctlSub' = CloseSubscription(ctlSub)
  /\ pc' = "stop_terminator"
  /\ UNCHANGED <<k, floorVars, turnVars, endVars, warnings, turnSub,
                 sentVars, ctxVars, peers, disk, other, history>>

\* Slip: Stop waits for the goroutine without telling it.
StopWithoutCancel ==
  /\ pc = "stop_terminator"
  /\ pc' = "join_terminator"
  /\ UNCHANGED <<k, floorVars, turnVars, endVars, warnings, outside>>

\* Sentinel.Stop: cancel the goroutine and its subscription ...
StopTerminator ==
  /\ pc = "stop_terminator"
  /\ stopSentinel' = (sentinel # "off")
  /\ turnSub' = CloseSubscription(turnSub)
  /\ pc' = "join_terminator"
  /\ UNCHANGED <<k, floorVars, turnVars, endVars, warnings, ctlSub,
                 sentinel, ctxVars, peers, disk, other, history>>

\* ... and wait for it.
JoinTerminator ==
  /\ pc = "join_terminator"
  /\ sentinel \in {"off", "done"}
  /\ pc' = "stop_peers"
  /\ k' = 1
  /\ UNCHANGED <<floorVars, turnVars, endVars, warnings, outside>>

\* stopAllPeers.
StopPeer ==
  /\ pc = "stop_peers"
  /\ IF k <= N
     THEN /\ peers' = [peers EXCEPT ![PeerOrder[k]] = "stopped"]
          /\ k' = k + 1
          /\ UNCHANGED pc
     ELSE /\ pc' = "returned"
          /\ UNCHANGED <<peers, k>>
  /\ UNCHANGED <<floorVars, turnVars, endVars, warnings,
                 busVars, sentVars, ctxVars, disk, other, history>>

----------------------------------------------------------------------------
\* The sentinel's goroutine.

\* select takes any ready case: a turn may be read after the context ended.
SentinelReceive ==
  /\ sentinel = "select"
  /\ CanReceive(turnSub)
  /\ turnSub' = Received(turnSub)
  /\ sentinel' = IF ContainsOnOwnLine(Head(turnSub.queue)) THEN "publish" ELSE "select"
  /\ UNCHANGED <<runVars, ctlSub, stopSentinel, ctxVars, peers, disk, other, history>>

SentinelPublish ==
  /\ sentinel = "publish"
  /\ ctlSub' = Deliver(ctlSub, "terminate")
  /\ sentinel' = "select"
  /\ UNCHANGED <<runVars, turnSub, stopSentinel, ctxVars, peers, disk, other, history>>

SentinelExit ==
  /\ sentinel = "select"
  /\ \/ CtxDone \/ stopSentinel
     \/ turnSub.state = "closed" /\ ~CanReceive(turnSub)
  /\ sentinel' = "done"
  /\ UNCHANGED <<runVars, busVars, stopSentinel, ctxVars, peers, disk, other, history>>

----------------------------------------------------------------------------
\* The surroundings.

\* Ctrl-C, or the overall timeout of the command line.
ContextEnds(how) ==
  /\ ctx = "live"
  /\ pc # "returned"
  /\ ctx' = how
  /\ turnsAtDone' = Len(turns)
  /\ UNCHANGED <<runVars, busVars, sentVars, peers, disk, other, history>>

\* Some other publisher on the control topic.
PublishOther(msg) ==
  /\ other < MaxOther
  /\ pc # "returned"
  /\ other' = other + 1
  /\ ctlSub' = Deliver(ctlSub, msg)
  /\ UNCHANGED <<runVars, turnSub, sentVars, ctxVars, peers, disk, history>>

----------------------------------------------------------------------------
DeliverAnswers ==
  \/ \E reply \in Replies : DeliverReturns(reply)
  \/ DeliverInterrupted
  \/ \E why \in {"exited", "failed"} : DeliverFails(why)

RunNext ==
  \/ CreateConversation \/ StartPeer \/ StartPeerFails \/ StopStarted
  \/ StartTerminator \/ SubscribeControl \/ SubscribeControlFails
  \/ LoopHead \/ CallDeliver \/ DeliverAnswers
  \/ AppendConversationTurn \/ PublishTurn \/ RouteTurn \/ CheckLimits
  \/ DrainReceive \/ DrainTimeout \/ DrainEmpty \/ Judge
  \/ Finalize \/ CancelControl \/ StopTerminator \/ JoinTerminator \/ StopPeer

SentinelNext == SentinelReceive \/ SentinelPublish \/ SentinelExit

Environment ==
  \/ \E how \in {"canceled", "deadline"} : ContextEnds(how)
  \/ \E msg \in OtherControl : PublishOther(msg)

\* Run has returned and nothing of it is left running.
Returned == pc = "returned" /\ UNCHANGED vars

Next == RunNext \/ SentinelNext \/ Environment \/ Returned

Spec == Init /\ [][Next]_vars

\* Goroutines are scheduled, the drain timer fires, and every Deliver answers
\* because ConverseTurn has a per-turn timeout (PersistentProcess shows this,
\* and that it needs a terminal that takes the envelope).  Nothing is assumed
\* of the context or of other publishers.
FairSpec == Spec /\ WF_vars(RunNext) /\ WF_vars(SentinelNext)

----------------------------------------------------------------------------
\* Properties.

Recorded == [status : Statuses \cup {"none"}, consumed : Nat, turns : Seq(Turn)]

TypeOK ==
  /\ pc \in {"create", "start", "rollback", "subscribe", "head", "deliver", "await",
             "persist", "publish", "route", "limits", "drain", "drain_more", "judge", "finalize",
             "cancel_control", "stop_terminator", "join_terminator", "stop_peers", "returned"}
  /\ ctx \in {"live", "canceled", "deadline"}
  /\ peers \in [Peers -> {"new", "up", "stopped"}]
  /\ k \in 1..N+1
  /\ active \in Peers
  /\ envelope \in Envelope
  /\ cur \in Turn
  /\ turns \in Seq(Turn)
  /\ turnSub \in SubscriptionOf(Reply) /\ ctlSub \in SubscriptionOf(Control)
  /\ drained \in Seq(Control)
  /\ outcome \in Statuses
  /\ note \in Notes
  /\ warnings \subseteq Calls
  /\ disk \in Recorded
  /\ sentinel \in {"off", "select", "publish", "done"}
  /\ stopSentinel \in BOOLEAN
  /\ other \in 0..MaxOther
  /\ history \in Seq([to : Peers, env : Envelope])
  /\ turnsAtDone \in Nat

\* The turns Run has captured, the one on its way into the log included.
Captured == IF pc \in {"publish", "route"} THEN Append(turns, cur) ELSE turns

Said(s) == [i \in DOMAIN s |-> <<s[i].index, s[i].from, s[i].reply>>]

\* The exchange is one chain: the i-th envelope carries number i and goes to
\* the peer the previous turn was routed to, its body is that turn's reply
\* up to the sentinel, and the i-th turn is the answer of that same peer
\* (BuildEnvelopeTurnN, Deliver and Run's active/next).
EnvelopeChain ==
  /\ Len(history) \in {Len(turns), Len(turns) + 1}
  /\ \A i \in DOMAIN history :
       /\ history[i].env.index = i
       /\ ~ContainsOnOwnLine(history[i].env.body)
       /\ i = 1 => history[i].to = Opener
       /\ i > 1 => /\ history[i].to = turns[i-1].to
                  /\ history[i].env.from = turns[i-1].from
                  /\ history[i].env.body = StripSentinel(turns[i-1].reply)
  /\ \A i \in DOMAIN turns :
       /\ turns[i].index = i
       /\ turns[i].from = history[i].to

\* The store and the result tell the same story unless a warning says
\* otherwise: without an append warning the stored turns are the captured
\* ones, with one they are some of them in the same order; the final status
\* and count are stored or an update warning is returned (the best-effort
\* store calls of Run and finalize).
NoSilentLoss ==
  /\ "append" \notin warnings => Said(disk.turns) = Said(Captured)
  /\ \A i, j \in DOMAIN disk.turns : i < j => disk.turns[i].index < disk.turns[j].index
  /\ \A i \in DOMAIN disk.turns :
       \E j \in DOMAIN Captured : Said(disk.turns)[i] = Said(Captured)[j]
  /\ pc = "returned" /\ "update" \notin warnings =>
       disk.status = outcome /\ disk.consumed = Len(turns)

\* Deliver is only called on a peer that was started and not yet stopped: the
\* lifecycle peer.PeerTransport asks of the broker.
DeliverOnlyToLivePeers == pc = "await" => peers[active] = "up"

\* Run leaves nothing behind, whichever way it ends: no peer still up, no
\* sentinel goroutine, no open subscription (the deferred calls of Run and
\* the rollback of startAllPeers).
CleanShutdown ==
  pc = "returned" =>
    /\ \A p \in Peers : peers[p] # "up"
    /\ sentinel \in {"off", "done"}
    /\ turnSub.state # "open" /\ ctlSub.state # "open"

\* Once the context has ended, at most one more turn is added: the one that
\* was already being delivered, or whose delivery began between the check at
\* the head of the loop and the end of the context.
AtMostOneLateTurn == ctx # "live" => Len(turns) <= turnsAtDone + 1

\* Run returns: the cap bounds the turns, Deliver answers, the drain window
\* closes, and Sentinel.Stop does not wait for ever on the goroutine.
RunReturns == <>(pc = "returned")

\* The broker implements the abstract conversation.  The floor passes when
\* the turn enters the log; Run moves `active' only after the drain.
Abstract == INSTANCE Conversation WITH
  log       <- [i \in DOMAIN turns |-> [from |-> turns[i].from, reply |-> turns[i].reply]],
  floor     <- IF turns = <<>> THEN Opener ELSE turns[Len(turns)].to,
  status    <- outcome,
  cancelled <- CtxDone

ImplementsConversation == Abstract!Spec
=============================================================================
