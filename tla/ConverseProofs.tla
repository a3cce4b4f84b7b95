--------------------------- MODULE ConverseProofs ---------------------------
(***************************************************************************)
(* Theorems about Broker and about Converse, the command around it, for    *)
(* every list of peers, every set of replies, every cap, every buffer size *)
(* and every combination of failing calls, and about PeerFlags, which makes*)
(* the conversation, for every command line.                               *)
(***************************************************************************)
EXTENDS Converse, PeerFlags, TurnPolicyProofs, SequenceTheorems

\* Where Run is: before its loop, between the loop's head and the log, after
\* the turn is logged, and after the outcome is decided.
Opening  == {"create", "start", "rollback", "subscribe"}
Speaking == {"deliver", "await", "persist", "publish", "route"}
Drawing  == {"limits", "drain", "drain_more", "judge"}
Over     == {"finalize", "cancel_control", "stop_terminator", "join_terminator",
             "stop_peers", "returned"}

\* Every logged turn has been routed, and the steps that look at the last
\* turn find one.
LogRouted ==
  /\ \A i \in DOMAIN turns : turns[i].to \in Peers
  /\ pc \in Drawing => turns # <<>>

TypeInv == TypeOK /\ LogRouted

----------------------------------------------------------------------------
\* The helpers keep the types.
LEMMA DeliverType ==
  ASSUME NEW Msg, NEW sub \in SubscriptionOf(Msg), NEW m \in Msg
  PROVE  /\ Deliver(sub, m) \in SubscriptionOf(Msg)
         /\ Deliver(sub, m).state = sub.state
         /\ \A i \in DOMAIN Deliver(sub, m).queue :
              Deliver(sub, m).queue[i] = m
              \/ \E j \in DOMAIN sub.queue : Deliver(sub, m).queue[i] = sub.queue[j]
BY DEF Deliver, SubscriptionOf, Full

LEMMA ReceivedType ==
  ASSUME NEW Msg, NEW sub \in SubscriptionOf(Msg), CanReceive(sub)
  PROVE  /\ Received(sub) \in SubscriptionOf(Msg)
         /\ Received(sub).state = sub.state
         /\ Head(sub.queue) \in Msg
         /\ \E j \in DOMAIN sub.queue : Head(sub.queue) = sub.queue[j]
         /\ \A i \in DOMAIN Received(sub).queue :
              \E j \in DOMAIN sub.queue : Received(sub).queue[i] = sub.queue[j]
<1>1. sub.queue \in Seq(Msg) /\ sub.queue # <<>>
  BY DEF SubscriptionOf, CanReceive
<1>2. /\ Head(sub.queue) = sub.queue[1] /\ 1 \in DOMAIN sub.queue
      /\ Tail(sub.queue) \in Seq(Msg)
      /\ \A i \in DOMAIN Tail(sub.queue) :
           i + 1 \in DOMAIN sub.queue /\ Tail(sub.queue)[i] = sub.queue[i + 1]
  BY <1>1
<1>3. /\ Received(sub) \in SubscriptionOf(Msg)
      /\ Received(sub).state = sub.state
      /\ Received(sub).queue = Tail(sub.queue)
  BY <1>2 DEF Received, SubscriptionOf
<1>4. sub.queue[1] \in Msg
  BY <1>1, <1>2
<1>5. \A i \in DOMAIN Received(sub).queue :
        \E j \in DOMAIN sub.queue : Received(sub).queue[i] = sub.queue[j]
  BY <1>2, <1>3
<1> QED BY <1>2, <1>3, <1>4, <1>5

LEMMA CloseType ==
  ASSUME NEW Msg, NEW sub \in SubscriptionOf(Msg)
  PROVE  /\ CloseSubscription(sub) \in SubscriptionOf(Msg)
         /\ CloseSubscription(sub).state # "open"
         /\ CloseSubscription(sub).queue = sub.queue
BY DEF CloseSubscription, SubscriptionOf

LEMMA FreshType ==
  ASSUME NEW Msg
  PROVE  NoSubscription \in SubscriptionOf(Msg) /\ NewSubscription \in SubscriptionOf(Msg)
BY DEF NoSubscription, NewSubscription, SubscriptionOf

LEMMA CapturedType ==
  ASSUME NEW e \in Envelope, NEW p \in Peers, NEW r \in Reply, NEW first \in BOOLEAN
  PROVE  CapturedTurn(e, p, r, first) \in Turn
BY DEF CapturedTurn, Envelope, Turn, Reasons

LEMMA RoutedType ==
  ASSUME NEW t \in Turn, NEW p \in Peers
  PROVE  /\ RoutedTurn(t, Route(p, t.reply)) \in Turn
         /\ RoutedTurn(t, Route(p, t.reply)).to = Route(p, t.reply).next
         /\ RoutedTurn(t, Route(p, t.reply)).to \in Peers
         /\ RoutedTurn(t, Route(p, t.reply)).from = t.from
         /\ RoutedTurn(t, Route(p, t.reply)).reply = t.reply
         /\ RoutedTurn(t, Route(p, t.reply)).index = t.index
<1>1. t.reply \in Reply
  BY DEF Turn
<1>2. /\ Route(p, t.reply).next \in Peers
      /\ Route(p, t.reply).parsed \in Peers \cup Strangers \cup {NoPeer}
      /\ Route(p, t.reply).fallback \in BOOLEAN
  BY <1>1, RouteLeavesTheFloor
<1> DEFINE d == Route(p, t.reply)
<1> HIDE DEF d
<1> QED BY <1>2 DEF RoutedTurn, Turn, Reasons, d

LEMMA EmptyLog ==
  ASSUME NEW S
  PROVE  <<>> \in Seq(S) /\ Len(<<>>) = 0 /\ DOMAIN <<>> = {}
OBVIOUS

LEMMA AppendLog ==
  ASSUME NEW s \in Seq(Turn), NEW t \in Turn
  PROVE  /\ Append(s, t) \in Seq(Turn)
         /\ Append(s, t) # <<>>
         /\ Len(Append(s, t)) = Len(s) + 1
         /\ DOMAIN Append(s, t) = 1..Len(s) + 1
         /\ Append(s, t)[Len(s) + 1] = t
         /\ \A i \in DOMAIN s : i \in 1..Len(s) /\ Append(s, t)[i] = s[i]
OBVIOUS

LEMMA EnvelopeType ==
  /\ EnvelopeTurn1 \in Envelope
  /\ \A n \in Nat, p \in Peers, r \in Reply : EnvelopeTurnN(n, p, r) \in Envelope
<1>1. <<>> \in Reply
  BY DEF Reply
<1> QED BY <1>1 DEF EnvelopeTurn1, EnvelopeTurnN, Envelope

LEMMA PeerAt ==
  ASSUME NEW i \in 1..N
  PROVE  PeerOrder[i] \in Peers
BY PeersAssumption DEF N, Peers

LEMMA NNat == N \in Nat
BY PeersAssumption DEF N

\* The message that Judge acts on, if there is one.
LEMMA VerdictIndex ==
  ASSUME drained \in Seq(Control), Verdict # 0
  PROVE  Verdict \in DOMAIN drained /\ drained[Verdict] \in Control \ {"continue"}
<1> DEFINE I == { i \in 1..Len(drained) : drained[i] # "continue" }
<1>1. Verdict = IF I # {} THEN Min(I) ELSE 0
  BY Zenon DEF Verdict, SelectInSeq
<1>2. I # {} /\ I \in SUBSET Nat
  BY <1>1
<1>3. Verdict \in I
  BY <1>1, <1>2, MinNat
<1> QED BY <1>3

----------------------------------------------------------------------------
\* Type correctness.
LEMMA TypeInit == Init => TypeInv
<1> SUFFICES ASSUME Init PROVE TypeInv
  OBVIOUS
<1>1. cur \in Turn
  <2>1. <<>> \in Reply /\ Opener \in Peers
    BY BrokerAssumption DEF Reply
  <2> QED BY <2>1, EnvelopeType, CapturedType DEF Init
<1>2. 1 \in 1..N+1
  BY NNat
<1>3. disk \in Recorded
  <2>1. disk = [status |-> "none", consumed |-> 0, turns |-> <<>>]
    BY DEF Init
  <2>2. <<>> \in Seq(Turn)
    BY EmptyLog
  <2> QED BY <2>1, <2>2 DEF Recorded
<1>4. /\ turnSub \in SubscriptionOf(Reply) /\ ctlSub \in SubscriptionOf(Control)
      /\ envelope \in Envelope /\ active \in Peers /\ other \in 0..MaxOther
  <2>1. turnSub \in SubscriptionOf(Reply) /\ ctlSub \in SubscriptionOf(Control)
    BY FreshType DEF Init
  <2>2. envelope \in Envelope
    BY EnvelopeType DEF Init
  <2>3. active \in Peers /\ other \in 0..MaxOther
    <3>1. active = Opener /\ other = 0
      BY DEF Init
    <3>2. Opener \in Peers /\ MaxOther \in Nat
      BY BrokerAssumption
    <3> QED BY <3>1, <3>2
  <2> QED BY <2>1, <2>2, <2>3
<1>5. /\ turns \in Seq(Turn) /\ drained \in Seq(Control)
      /\ history \in Seq([to : Peers, env : Envelope])
      /\ outcome \in Statuses /\ note \in Notes
      /\ warnings \subseteq Calls /\ peers \in [Peers -> {"new", "up", "stopped"}]
  <2>1. turns = <<>> /\ drained = <<>> /\ history = <<>>
    BY DEF Init
  <2>2. outcome \in Statuses /\ note \in Notes /\ warnings \subseteq Calls
    BY DEF Init, Statuses, Notes
  <2>3. peers \in [Peers -> {"new", "up", "stopped"}]
    BY DEF Init
  <2> QED BY <2>1, <2>2, <2>3, EmptyLog
<1>6. TypeOK
  BY <1>1, <1>2, <1>3, <1>4, <1>5 DEF Init, TypeOK
<1>7. LogRouted
  <2>1. turns = <<>> /\ pc = "create"
    BY DEF Init
  <2> QED BY <2>1, EmptyLog DEF LogRouted, Drawing
<1> QED BY <1>6, <1>7 DEF TypeInv

LEMMA TypeNext == TypeInv /\ [Next]_vars => TypeInv'
<1> SUFFICES ASSUME TypeInv, [Next]_vars PROVE TypeInv'
  OBVIOUS
<1> USE NNat DEF TypeInv, TypeOK, LogRouted, Drawing, floorVars, turnVars, endVars, busVars,
             sentVars, ctxVars, outside
<1>1. CASE CreateConversation
  <2>1. disk' \in Recorded
    BY <1>1 DEF CreateConversation, Recorded, Statuses
  <2>2. warnings' \subseteq Calls
    BY <1>1 DEF CreateConversation, Warn, Calls
  <2> QED BY <1>1, <2>1, <2>2 DEF CreateConversation
<1>2. CASE StartPeer
  BY <1>2, PeerAt DEF StartPeer
<1>3. CASE StartPeerFails
  BY <1>3 DEF StartPeerFails
<1>4. CASE StopStarted
  <2>1. CASE k <= N /\ peers[PeerOrder[k]] = "up"
    BY <1>4, <2>1, PeerAt DEF StopStarted
  <2>2. CASE ~(k <= N /\ peers[PeerOrder[k]] = "up")
    BY <1>4, <2>2 DEF StopStarted, Decide, Statuses, Notes
  <2> QED BY <2>1, <2>2
<1>5. CASE StartTerminator
  BY <1>5, FreshType DEF StartTerminator, Warn, Calls, MayFail
<1>6. CASE SubscribeControl
  BY <1>6, FreshType, EnvelopeType, BrokerAssumption DEF SubscribeControl
<1>7. CASE SubscribeControlFails
  BY <1>7 DEF SubscribeControlFails, Decide, Statuses, Notes
<1>8. CASE LoopHead
  <2>1. CASE CtxDone
    BY <1>8, <2>1 DEF LoopHead, Decide, Statuses, Notes
  <2>2. CASE ~CtxDone
    BY <1>8, <2>2 DEF LoopHead
  <2> QED BY <2>1, <2>2
<1>9. CASE CallDeliver
  BY <1>9 DEF CallDeliver
<1>10. CASE DeliverAnswers
  <2>1. ASSUME NEW reply \in Replies, DeliverReturns(reply) PROVE TypeInv'
    <3>1. reply \in Reply /\ (turns = <<>>) \in BOOLEAN
      BY BrokerAssumption
    <3>2. cur' \in Turn
      BY <2>1, <3>1, CapturedType DEF DeliverReturns
    <3> QED BY <2>1, <3>2 DEF DeliverReturns
  <2>2. CASE DeliverInterrupted
    BY <2>2 DEF DeliverInterrupted, Decide, Statuses, Notes
  <2>3. ASSUME NEW why \in {"exited", "failed"}, DeliverFails(why) PROVE TypeInv'
    BY <2>3 DEF DeliverFails, Decide, Statuses, Notes
  <2> QED BY <1>10, <2>1, <2>2, <2>3 DEF DeliverAnswers
<1>11. CASE AppendConversationTurn
  <2>1. disk' \in Recorded
    <3>1. disk' = disk \/ disk' = [disk EXCEPT !.turns = Append(disk.turns, cur)]
      BY <1>11 DEF AppendConversationTurn
    <3>2. disk.turns \in Seq(Turn)
      BY DEF Recorded
    <3>3. Append(disk.turns, cur) \in Seq(Turn)
      BY <3>2
    <3> QED BY <3>1, <3>3 DEF Recorded
  <2>2. warnings' \subseteq Calls
    BY <1>11 DEF AppendConversationTurn, Warn, Calls
  <2> QED BY <1>11, <2>1, <2>2 DEF AppendConversationTurn
<1>12. CASE PublishTurn
  BY <1>12, DeliverType DEF PublishTurn, Warn, Calls, MayFail, Turn
<1>13. CASE RouteTurn
  <2> DEFINE t == RoutedTurn(cur, Route(active, cur.reply))
  <2>1. t \in Turn /\ t.to \in Peers
    BY RoutedType
  <2>2. turns' = Append(turns, t)
    BY <1>13 DEF RouteTurn
  <2> HIDE DEF t
  <2>3. turns \in Seq(Turn) /\ \A i \in DOMAIN turns : turns[i].to \in Peers
    OBVIOUS
  <2>4. /\ turns' \in Seq(Turn) /\ turns' # <<>>
        /\ DOMAIN turns' = 1..Len(turns) + 1 /\ turns'[Len(turns) + 1] = t
        /\ \A i \in DOMAIN turns : turns'[i] = turns[i]
    BY ONLY <2>1, <2>2, <2>3, AppendLog
  <2>5. DOMAIN turns = 1..Len(turns) /\ Len(turns) \in Nat
    BY ONLY <2>3
  <2>6. ASSUME NEW i \in DOMAIN turns' PROVE turns'[i].to \in Peers
    <3>1. CASE i = Len(turns) + 1
      BY ONLY <3>1, <2>1, <2>4
    <3>2. CASE i # Len(turns) + 1
      <4>1. i \in DOMAIN turns
        BY ONLY <3>2, <2>4, <2>5, <2>6
      <4> QED BY ONLY <4>1, <2>3, <2>4
    <3> QED BY ONLY <3>1, <3>2
  <2> QED BY <1>13, <2>4, <2>6 DEF RouteTurn
<1>14. CASE CheckLimits
  <2>1. CASE Len(turns) >= MaxTurns
    BY <1>14, <2>1, EmptyLog DEF CheckLimits, Decide, Statuses, Notes
  <2>2. CASE ~(Len(turns) >= MaxTurns) /\ CtxDone
    BY <1>14, <2>2, EmptyLog DEF CheckLimits, Decide, Statuses, Notes
  <2>3. CASE ~(Len(turns) >= MaxTurns) /\ ~CtxDone
    BY <1>14, <2>3 DEF CheckLimits
  <2> QED BY <2>1, <2>2, <2>3
<1>15. CASE DrainReceive
  BY <1>15, ReceivedType DEF DrainReceive
<1>16. CASE DrainTimeout
  BY <1>16 DEF DrainTimeout
<1>17. CASE DrainEmpty
  BY <1>17 DEF DrainEmpty
<1>18. CASE Judge
  <2>1. CASE Verdict # 0
    BY <1>18, <2>1, VerdictIndex DEF Judge, JudgeWith, Decide, Statuses, Notes, Control
  <2>2. CASE Verdict = 0
    <3>1. active' \in Peers
      BY <1>18, <2>2 DEF Judge, JudgeWith
    <3>2. StripSentinel(cur.reply) \in Reply /\ Len(turns) + 1 \in Nat
      BY StripSentinelClean DEF Turn
    <3>3. envelope' \in Envelope
      BY <1>18, <2>2, <3>2, EnvelopeType DEF Judge, JudgeWith
    <3> QED BY <1>18, <2>2, <3>1, <3>3 DEF Judge, JudgeWith
  <2> QED BY <2>1, <2>2
<1>19. CASE Finalize
  <2>1. disk' \in Recorded
    <3>1. \/ disk' = disk
          \/ disk' = [disk EXCEPT !.status = outcome, !.consumed = Len(turns)]
      BY <1>19 DEF Finalize
    <3>2. Len(turns) \in Nat
      OBVIOUS
    <3> QED BY <3>1, <3>2 DEF Recorded
  <2>2. warnings' \subseteq Calls
    BY <1>19 DEF Finalize, Warn, Calls
  <2>3. pc' \in Over
    BY <1>19 DEF Finalize, Over
  <2> QED BY <1>19, <2>1, <2>2, <2>3 DEF Finalize, Over
<1>20. CASE CancelControl
  BY <1>20, CloseType DEF CancelControl
<1>21. CASE StopTerminator
  BY <1>21, CloseType DEF StopTerminator
<1>22. CASE JoinTerminator
  BY <1>22 DEF JoinTerminator
<1>23. CASE StopPeer
  BY <1>23, PeerAt DEF StopPeer
<1>24. CASE SentinelReceive
  BY <1>24, ReceivedType DEF SentinelReceive, runVars
<1>25. CASE SentinelPublish
  BY <1>25, DeliverType DEF SentinelPublish, Control, runVars
<1>26. CASE SentinelExit
  BY <1>26 DEF SentinelExit, runVars
<1>27. ASSUME NEW how \in {"canceled", "deadline"}, ContextEnds(how) PROVE TypeInv'
  BY <1>27 DEF ContextEnds, runVars
<1>28. ASSUME NEW msg \in OtherControl, PublishOther(msg) PROVE TypeInv'
  <2>1. msg \in Control
    BY BrokerAssumption DEF Control
  <2>2. ctlSub' \in SubscriptionOf(Control)
    BY <1>28, <2>1, DeliverType DEF PublishOther
  <2>3. other' \in 0..MaxOther
    BY <1>28, BrokerAssumption DEF PublishOther
  <2> QED BY <1>28, <2>2, <2>3 DEF PublishOther, runVars
<1>29. CASE UNCHANGED vars
  BY <1>29 DEF vars, runVars
<1> QED
  BY <1>1, <1>2, <1>3, <1>4, <1>5, <1>6, <1>7, <1>8, <1>9, <1>10, <1>11, <1>12, <1>13, <1>14, <1>15, <1>16, <1>17, <1>18, <1>19, <1>20, <1>21, <1>22, <1>23, <1>24, <1>25, <1>26, <1>27, <1>28, <1>29
     DEF Next, RunNext, SentinelNext, Environment, Returned

\* Every state of every run of the broker is well formed.
THEOREM BrokerTypeOK == Spec => []TypeOK
<1>1. TypeInv => TypeOK
  BY DEF TypeInv
<1> QED BY <1>1, TypeInit, TypeNext, PTL DEF Spec

----------------------------------------------------------------------------
\* The inductive invariant behind the refinement.

Floor == IF turns = <<>> THEN Opener ELSE turns[Len(turns)].to

\* Where Run is says how much it has done: the outcome is open exactly until
\* finalize, the cap has not been reached before the turn is logged, and up
\* to the log `active' holds the floor and the captured turn is its own.
Phase ==
  /\ outcome = "running" <=> pc \notin Over
  /\ pc \in Opening => turns = <<>>
  /\ pc \in Opening \cup {"head"} \cup Speaking => active = Floor
  /\ pc \notin Over \cup {"limits"} => Len(turns) < MaxTurns
  /\ pc = "limits" => Len(turns) <= MaxTurns
  /\ pc \in {"persist", "publish", "route"} => cur.from = active /\ cur.reply \in Replies

\* A peer has said the sentinel in a turn that is logged, or published and
\* about to be.
EndSaid ==
  \/ \E i \in DOMAIN turns : ContainsOnOwnLine(turns[i].reply)
  \/ pc = "route" /\ ContainsOnOwnLine(cur.reply)

\* Nothing on the way from the turn topic to Run's verdict is made up.
Evidence ==
  /\ \A i \in DOMAIN turnSub.queue : ContainsOnOwnLine(turnSub.queue[i]) => EndSaid
  /\ sentinel = "publish" => EndSaid
  /\ \A i \in DOMAIN ctlSub.queue : ctlSub.queue[i] = "terminate" => EndSaid
  /\ \A i \in DOMAIN drained : drained[i] = "terminate" => EndSaid

\* Once the context has ended no further delivery is begun.
Late ==
  /\ CtxDone => Len(turns) <= turnsAtDone + 1
  /\ CtxDone /\ pc \in Speaking => Len(turns) <= turnsAtDone

\* Who is up: those started so far, then all, then none, in declared order.
Lifecycle ==
  /\ pc = "create" => k = 1
  /\ pc \in {"create", "start"} => \A i \in 1..N : peers[PeerOrder[i]] = "up" <=> i < k
  /\ pc = "rollback" =>
       /\ \A i \in 1..N : i < k => peers[PeerOrder[i]] # "up"
       /\ \A i, j \in 1..N :
            k <= i /\ i <= j /\ peers[PeerOrder[j]] = "up" => peers[PeerOrder[i]] = "up"
  /\ pc \in {"subscribe", "head"} \cup Speaking \cup Drawing =>
       \A i \in 1..N : peers[PeerOrder[i]] = "up"
  /\ pc = "finalize" /\ note = "start" => \A i \in 1..N : peers[PeerOrder[i]] # "up"
  /\ pc = "stop_peers" => \A i \in 1..N : i < k => peers[PeerOrder[i]] # "up"
  /\ pc = "returned" => \A i \in 1..N : peers[PeerOrder[i]] # "up"

\* What is left of the sentinel and the two subscriptions on the way out.
Teardown ==
  /\ pc \in {"create", "start", "rollback"} \/ (pc = "finalize" /\ note = "start") =>
       sentinel = "off" /\ turnSub.state = "none" /\ ctlSub.state = "none"
  /\ pc = "subscribe" \/ (pc = "finalize" /\ note = "subscribe") => ctlSub.state = "none"
  /\ pc \in {"stop_terminator", "join_terminator", "stop_peers", "returned"} =>
       ctlSub.state # "open"
  /\ pc \in {"join_terminator", "stop_peers", "returned"} => turnSub.state # "open"
  /\ pc \in {"stop_peers", "returned"} => sentinel \in {"off", "done"}

----------------------------------------------------------------------------
LEMMA CapturedFields ==
  ASSUME NEW e, NEW p, NEW r, NEW first
  PROVE  /\ CapturedTurn(e, p, r, first).from = p
         /\ CapturedTurn(e, p, r, first).reply = r
         /\ CapturedTurn(e, p, r, first).index = e.index
BY DEF CapturedTurn

\* What RouteTurn adds to the log.
LEMMA RouteTurnLog ==
  ASSUME TypeInv, RouteTurn
  PROVE  \E t \in Turn : /\ turns' = Append(turns, t)
                        /\ t.to = Route(active, cur.reply).next
                        /\ t.from = cur.from /\ t.reply = cur.reply /\ t.index = cur.index
<1>1. active \in Peers /\ cur \in Turn
  BY DEF TypeInv, TypeOK
<1>2. turns' = Append(turns, RoutedTurn(cur, Route(active, cur.reply)))
  BY DEF RouteTurn
<1> QED BY <1>1, <1>2, RoutedType

----------------------------------------------------------------------------
LEMMA PhaseInit == Init => Phase
<1> SUFFICES ASSUME Init PROVE Phase
  OBVIOUS
<1>1. turns = <<>> /\ pc = "create" /\ outcome = "running" /\ active = Opener
  BY DEF Init
<1>2. Len(turns) = 0 /\ MaxTurns \in Nat \ {0}
  BY <1>1, EmptyLog, BrokerAssumption
<1> QED BY <1>1, <1>2 DEF Phase, Opening, Speaking, Over, Floor

LEMMA PhaseNext == TypeInv /\ TypeInv' /\ Phase /\ [Next]_vars => Phase'
<1> SUFFICES ASSUME TypeInv, TypeInv', Phase, [Next]_vars PROVE Phase'
  OBVIOUS
<1> USE DEF Phase, Opening, Speaking, Over, Floor,
             floorVars, turnVars, endVars, busVars, sentVars, ctxVars, outside
<1>1. CASE CreateConversation
  BY <1>1 DEF CreateConversation
<1>2. CASE StartPeer
  BY <1>2 DEF StartPeer
<1>3. CASE StartPeerFails
  BY <1>3 DEF StartPeerFails
<1>4. CASE StopStarted
  BY <1>4 DEF StopStarted, Decide
<1>5. CASE StartTerminator
  BY <1>5 DEF StartTerminator
<1>6. CASE SubscribeControl
  BY <1>6 DEF SubscribeControl
<1>7. CASE SubscribeControlFails
  BY <1>7 DEF SubscribeControlFails, Decide
<1>8. CASE LoopHead
  BY <1>8 DEF LoopHead, Decide
<1>9. CASE CallDeliver
  BY <1>9 DEF CallDeliver
<1>10. CASE DeliverAnswers
  <2>1. ASSUME NEW reply \in Replies, DeliverReturns(reply) PROVE Phase'
    <3>1. cur'.from = active /\ cur'.reply = reply
      BY <2>1, CapturedFields DEF DeliverReturns
    <3> QED BY <2>1, <3>1 DEF DeliverReturns
  <2>2. CASE DeliverInterrupted
    BY <2>2 DEF DeliverInterrupted, Decide
  <2>3. ASSUME NEW why \in {"exited", "failed"}, DeliverFails(why) PROVE Phase'
    BY <2>3 DEF DeliverFails, Decide
  <2> QED BY <1>10, <2>1, <2>2, <2>3 DEF DeliverAnswers
<1>11. CASE AppendConversationTurn
  BY <1>11 DEF AppendConversationTurn
<1>12. CASE PublishTurn
  BY <1>12 DEF PublishTurn
<1>13. CASE RouteTurn
  <2>1. turns \in Seq(Turn) /\ Len(turns) < MaxTurns /\ MaxTurns \in Nat
    BY <1>13, BrokerAssumption DEF RouteTurn, TypeInv, TypeOK
  <2>2. Len(turns') = Len(turns) + 1
    BY <1>13, <2>1, RouteTurnLog, AppendLog
  <2>3. Len(turns') <= MaxTurns
    BY <2>1, <2>2
  <2> QED BY <1>13, <2>3 DEF RouteTurn
<1>14. CASE CheckLimits
  <2>1. Len(turns) \in Nat /\ MaxTurns \in Nat
    BY BrokerAssumption DEF TypeInv, TypeOK
  <2>2. CASE Len(turns) >= MaxTurns
    BY <1>14, <2>2 DEF CheckLimits, Decide
  <2>3. CASE Len(turns) < MaxTurns /\ CtxDone
    BY <1>14, <2>1, <2>3 DEF CheckLimits, Decide
  <2>4. CASE Len(turns) < MaxTurns /\ ~CtxDone
    BY <1>14, <2>1, <2>4 DEF CheckLimits
  <2> QED BY <2>1, <2>2, <2>3, <2>4
<1>15. CASE DrainReceive
  BY <1>15 DEF DrainReceive
<1>16. CASE DrainTimeout
  BY <1>16 DEF DrainTimeout
<1>17. CASE DrainEmpty
  BY <1>17 DEF DrainEmpty
<1>18. CASE Judge
  <2>1. CASE Verdict # 0
    <3>1. drained[Verdict] \in Control \ {"continue"}
      BY <2>1, VerdictIndex DEF TypeInv, TypeOK
    <3> QED BY <1>18, <2>1, <3>1 DEF Judge, JudgeWith, Decide, Control
  <2>2. CASE Verdict = 0
    <3>1. turns # <<>>
      BY <1>18 DEF Judge, JudgeWith, TypeInv, LogRouted, Drawing
    <3> QED BY <1>18, <2>2, <3>1 DEF Judge, JudgeWith
  <2> QED BY <2>1, <2>2
<1>19. CASE Finalize
  BY <1>19 DEF Finalize
<1>20. CASE CancelControl
  BY <1>20 DEF CancelControl
<1>21. CASE StopTerminator
  BY <1>21 DEF StopTerminator
<1>22. CASE JoinTerminator
  BY <1>22 DEF JoinTerminator
<1>23. CASE StopPeer
  BY <1>23 DEF StopPeer
<1>24. CASE SentinelReceive
  BY <1>24 DEF SentinelReceive, runVars
<1>25. CASE SentinelPublish
  BY <1>25 DEF SentinelPublish, runVars
<1>26. CASE SentinelExit
  BY <1>26 DEF SentinelExit, runVars
<1>27. ASSUME NEW how \in {"canceled", "deadline"}, ContextEnds(how) PROVE Phase'
  BY <1>27 DEF ContextEnds, runVars
<1>28. ASSUME NEW msg \in OtherControl, PublishOther(msg) PROVE Phase'
  BY <1>28 DEF PublishOther, runVars
<1>29. CASE UNCHANGED vars
  BY <1>29 DEF vars, runVars
<1> QED
  BY <1>1, <1>2, <1>3, <1>4, <1>5, <1>6, <1>7, <1>8, <1>9, <1>10, <1>11, <1>12, <1>13, <1>14, <1>15,
     <1>16, <1>17, <1>18, <1>19, <1>20, <1>21, <1>22, <1>23, <1>24, <1>25, <1>26, <1>27, <1>28, <1>29
     DEF Next, RunNext, SentinelNext, Environment, Returned

LEMMA LateInit == Init => Late
BY EmptyLog DEF Init, Late, CtxDone, Speaking

LEMMA LateNext == TypeInv /\ TypeInv' /\ Late /\ [Next]_vars => Late'
<1> SUFFICES ASSUME TypeInv, TypeInv', Late, [Next]_vars PROVE Late'
  OBVIOUS
<1> USE DEF Late, CtxDone, Speaking,
             floorVars, turnVars, endVars, busVars, sentVars, ctxVars, outside
<1>1. CASE CreateConversation
  BY <1>1 DEF CreateConversation
<1>2. CASE StartPeer
  BY <1>2 DEF StartPeer
<1>3. CASE StartPeerFails
  BY <1>3 DEF StartPeerFails
<1>4. CASE StopStarted
  BY <1>4 DEF StopStarted, Decide
<1>5. CASE StartTerminator
  BY <1>5 DEF StartTerminator
<1>6. CASE SubscribeControl
  BY <1>6 DEF SubscribeControl
<1>7. CASE SubscribeControlFails
  BY <1>7 DEF SubscribeControlFails, Decide
<1>8. CASE LoopHead
  BY <1>8 DEF LoopHead, Decide
<1>9. CASE CallDeliver
  BY <1>9 DEF CallDeliver
<1>10. CASE DeliverAnswers
  BY <1>10 DEF DeliverAnswers, DeliverReturns, DeliverInterrupted, DeliverFails, Decide
<1>11. CASE AppendConversationTurn
  BY <1>11 DEF AppendConversationTurn
<1>12. CASE PublishTurn
  BY <1>12 DEF PublishTurn
<1>13. CASE RouteTurn
  <2>1. turns \in Seq(Turn) /\ Len(turns) \in Nat /\ turnsAtDone \in Nat
    BY DEF TypeInv, TypeOK
  <2>2. Len(turns') = Len(turns) + 1
    BY <1>13, <2>1, RouteTurnLog, AppendLog
  <2> QED BY <1>13, <2>1, <2>2 DEF RouteTurn
<1>14. CASE CheckLimits
  BY <1>14 DEF CheckLimits, Decide
<1>15. CASE DrainReceive
  BY <1>15 DEF DrainReceive
<1>16. CASE DrainTimeout
  BY <1>16 DEF DrainTimeout
<1>17. CASE DrainEmpty
  BY <1>17 DEF DrainEmpty
<1>18. CASE Judge
  BY <1>18 DEF Judge, JudgeWith, Decide
<1>19. CASE Finalize
  BY <1>19 DEF Finalize
<1>20. CASE CancelControl
  BY <1>20 DEF CancelControl
<1>21. CASE StopTerminator
  BY <1>21 DEF StopTerminator
<1>22. CASE JoinTerminator
  BY <1>22 DEF JoinTerminator
<1>23. CASE StopPeer
  BY <1>23 DEF StopPeer
<1>24. CASE SentinelReceive
  BY <1>24 DEF SentinelReceive, runVars
<1>25. CASE SentinelPublish
  BY <1>25 DEF SentinelPublish, runVars
<1>26. CASE SentinelExit
  BY <1>26 DEF SentinelExit, runVars
<1>27. ASSUME NEW how \in {"canceled", "deadline"}, ContextEnds(how) PROVE Late'
  BY <1>27 DEF ContextEnds, runVars
<1>28. ASSUME NEW msg \in OtherControl, PublishOther(msg) PROVE Late'
  BY <1>28 DEF PublishOther, runVars
<1>29. CASE UNCHANGED vars
  BY <1>29 DEF vars, runVars
<1> QED
  BY <1>1, <1>2, <1>3, <1>4, <1>5, <1>6, <1>7, <1>8, <1>9, <1>10, <1>11, <1>12, <1>13, <1>14, <1>15,
     <1>16, <1>17, <1>18, <1>19, <1>20, <1>21, <1>22, <1>23, <1>24, <1>25, <1>26, <1>27, <1>28, <1>29
     DEF Next, RunNext, SentinelNext, Environment, Returned

LEMMA LifecycleInit == Init => Lifecycle
<1> SUFFICES ASSUME Init PROVE Lifecycle
  OBVIOUS
<1>1. pc = "create" /\ k = 1
  BY DEF Init
<1>2. \A i \in 1..N : peers[PeerOrder[i]] = "new"
  BY PeerAt DEF Init
<1> QED BY <1>1, <1>2, NNat DEF Lifecycle, Speaking, Drawing

\* A peer stands at one place of the declared order only.
LEMMA PeerDistinct ==
  ASSUME NEW j \in 1..N
  PROVE  \A i \in 1..N : PeerOrder[i] \in Peers /\ (PeerOrder[i] = PeerOrder[j] <=> i = j)
<1>1. \A i \in 1..N : PeerOrder[i] = PeerOrder[j] <=> i = j
  BY PeersAssumption DEF N
<1> QED BY <1>1, PeerAt

LEMMA LifecycleNext == TypeInv /\ TypeInv' /\ Lifecycle /\ [Next]_vars => Lifecycle'
<1> SUFFICES ASSUME TypeInv, TypeInv', Lifecycle, [Next]_vars PROVE Lifecycle'
  OBVIOUS
<1> USE NNat DEF Lifecycle, Speaking, Drawing,
             floorVars, turnVars, endVars, busVars, sentVars, ctxVars, outside
<1>1. CASE CreateConversation
  BY <1>1 DEF CreateConversation
<1>2. CASE StartPeer
  <2>1. k \in 1..N /\ peers \in [Peers -> {"new", "up", "stopped"}]
    BY <1>2 DEF StartPeer, TypeInv, TypeOK
  <2>2. \A i \in 1..N : peers'[PeerOrder[i]] = IF i = k THEN "up" ELSE peers[PeerOrder[i]]
    <3>1. peers' = [peers EXCEPT ![PeerOrder[k]] = "up"]
      BY <1>2 DEF StartPeer
    <3>2. \A i \in 1..N : PeerOrder[i] \in Peers /\ (PeerOrder[i] = PeerOrder[k] <=> i = k)
      BY <2>1, PeerDistinct
    <3> QED BY <2>1, <3>1, <3>2
  <2> QED BY <1>2, <2>1, <2>2 DEF StartPeer
<1>3. CASE StartPeerFails
  <2>1. k \in 1..N
    BY <1>3 DEF StartPeerFails, TypeInv, TypeOK
  <2>2. \A i \in 1..N : peers[PeerOrder[i]] = "up" <=> i < k
    BY <1>3 DEF StartPeerFails
  <2> QED BY <1>3, <2>1, <2>2 DEF StartPeerFails
<1>4. CASE StopStarted
  <2>1. k \in 1..N+1 /\ peers \in [Peers -> {"new", "up", "stopped"}]
    BY DEF TypeInv, TypeOK
  <2>2. /\ \A i \in 1..N : i < k => peers[PeerOrder[i]] # "up"
        /\ \A i, j \in 1..N :
             k <= i /\ i <= j /\ peers[PeerOrder[j]] = "up" => peers[PeerOrder[i]] = "up"
    BY <1>4 DEF StopStarted
  <2>3. CASE k <= N /\ peers[PeerOrder[k]] = "up"
    <3>1. \A i \in 1..N :
            peers'[PeerOrder[i]] = IF i = k THEN "stopped" ELSE peers[PeerOrder[i]]
      <4>1. k \in 1..N /\ peers' = [peers EXCEPT ![PeerOrder[k]] = "stopped"]
        BY <1>4, <2>1, <2>3 DEF StopStarted
      <4>2. \A i \in 1..N : PeerOrder[i] \in Peers /\ (PeerOrder[i] = PeerOrder[k] <=> i = k)
        BY <4>1, PeerDistinct
      <4> QED BY <2>1, <4>1, <4>2
    <3> QED BY <1>4, <2>1, <2>2, <2>3, <3>1 DEF StopStarted
  <2>4. CASE ~(k <= N /\ peers[PeerOrder[k]] = "up")
    <3>1. \A i \in 1..N : peers[PeerOrder[i]] # "up"
      BY <2>1, <2>2, <2>4
    <3> QED BY <1>4, <2>4, <3>1 DEF StopStarted, Decide
  <2> QED BY <2>3, <2>4
<1>5. CASE StartTerminator
  <2>1. k \in 1..N+1 /\ k > N
    BY <1>5 DEF StartTerminator, TypeInv, TypeOK
  <2>2. \A i \in 1..N : peers[PeerOrder[i]] = "up"
    BY <1>5, <2>1 DEF StartTerminator
  <2> QED BY <1>5, <2>2 DEF StartTerminator
<1>6. CASE SubscribeControl
  BY <1>6 DEF SubscribeControl
<1>7. CASE SubscribeControlFails
  BY <1>7 DEF SubscribeControlFails, Decide
<1>8. CASE LoopHead
  BY <1>8 DEF LoopHead, Decide
<1>9. CASE CallDeliver
  BY <1>9 DEF CallDeliver
<1>10. CASE DeliverAnswers
  BY <1>10 DEF DeliverAnswers, DeliverReturns, DeliverInterrupted, DeliverFails, Decide
<1>11. CASE AppendConversationTurn
  BY <1>11 DEF AppendConversationTurn
<1>12. CASE PublishTurn
  BY <1>12 DEF PublishTurn
<1>13. CASE RouteTurn
  BY <1>13 DEF RouteTurn
<1>14. CASE CheckLimits
  BY <1>14 DEF CheckLimits, Decide
<1>15. CASE DrainReceive
  BY <1>15 DEF DrainReceive
<1>16. CASE DrainTimeout
  BY <1>16 DEF DrainTimeout
<1>17. CASE DrainEmpty
  BY <1>17 DEF DrainEmpty
<1>18. CASE Judge
  BY <1>18 DEF Judge, JudgeWith, Decide
<1>19. CASE Finalize
  BY <1>19 DEF Finalize
<1>20. CASE CancelControl
  BY <1>20 DEF CancelControl
<1>21. CASE StopTerminator
  BY <1>21 DEF StopTerminator
<1>22. CASE JoinTerminator
  BY <1>22 DEF JoinTerminator
<1>23. CASE StopPeer
  <2>1. k \in 1..N+1 /\ peers \in [Peers -> {"new", "up", "stopped"}]
    BY DEF TypeInv, TypeOK
  <2>2. CASE k <= N
    <3>1. \A i \in 1..N :
            peers'[PeerOrder[i]] = IF i = k THEN "stopped" ELSE peers[PeerOrder[i]]
      <4>1. k \in 1..N /\ peers' = [peers EXCEPT ![PeerOrder[k]] = "stopped"]
        BY <1>23, <2>1, <2>2 DEF StopPeer
      <4>2. \A i \in 1..N : PeerOrder[i] \in Peers /\ (PeerOrder[i] = PeerOrder[k] <=> i = k)
        BY <4>1, PeerDistinct
      <4> QED BY <2>1, <4>1, <4>2
    <3> QED BY <1>23, <2>1, <2>2, <3>1 DEF StopPeer
  <2>3. CASE ~(k <= N)
    BY <1>23, <2>1, <2>3 DEF StopPeer
  <2> QED BY <2>2, <2>3
<1>24. CASE SentinelReceive
  BY <1>24 DEF SentinelReceive, runVars
<1>25. CASE SentinelPublish
  BY <1>25 DEF SentinelPublish, runVars
<1>26. CASE SentinelExit
  BY <1>26 DEF SentinelExit, runVars
<1>27. ASSUME NEW how \in {"canceled", "deadline"}, ContextEnds(how) PROVE Lifecycle'
  BY <1>27 DEF ContextEnds, runVars
<1>28. ASSUME NEW msg \in OtherControl, PublishOther(msg) PROVE Lifecycle'
  BY <1>28 DEF PublishOther, runVars
<1>29. CASE UNCHANGED vars
  BY <1>29 DEF vars, runVars
<1> QED
  BY <1>1, <1>2, <1>3, <1>4, <1>5, <1>6, <1>7, <1>8, <1>9, <1>10, <1>11, <1>12, <1>13, <1>14, <1>15,
     <1>16, <1>17, <1>18, <1>19, <1>20, <1>21, <1>22, <1>23, <1>24, <1>25, <1>26, <1>27, <1>28, <1>29
     DEF Next, RunNext, SentinelNext, Environment, Returned

LEMMA TeardownInit == Init => Teardown
<1> SUFFICES ASSUME Init PROVE Teardown
  OBVIOUS
<1>1. turnSub.state = "none" /\ ctlSub.state = "none"
  BY DEF Init, NoSubscription
<1> QED BY <1>1 DEF Init, Teardown

LEMMA TeardownNext == TypeInv /\ TypeInv' /\ Teardown /\ [Next]_vars => Teardown'
<1> SUFFICES ASSUME TypeInv, TypeInv', Teardown, [Next]_vars PROVE Teardown'
  OBVIOUS
<1> USE DEF Teardown,
             floorVars, turnVars, endVars, busVars, sentVars, ctxVars, outside
<1>1. CASE CreateConversation
  BY <1>1 DEF CreateConversation
<1>2. CASE StartPeer
  BY <1>2 DEF StartPeer
<1>3. CASE StartPeerFails
  BY <1>3 DEF StartPeerFails
<1>4. CASE StopStarted
  BY <1>4 DEF StopStarted, Decide
<1>5. CASE StartTerminator
  BY <1>5 DEF StartTerminator
<1>6. CASE SubscribeControl
  BY <1>6 DEF SubscribeControl
<1>7. CASE SubscribeControlFails
  BY <1>7 DEF SubscribeControlFails, Decide
<1>8. CASE LoopHead
  BY <1>8 DEF LoopHead, Decide
<1>9. CASE CallDeliver
  BY <1>9 DEF CallDeliver
<1>10. CASE DeliverAnswers
  BY <1>10 DEF DeliverAnswers, DeliverReturns, DeliverInterrupted, DeliverFails, Decide
<1>11. CASE AppendConversationTurn
  BY <1>11 DEF AppendConversationTurn
<1>12. CASE PublishTurn
  BY <1>12 DEF PublishTurn
<1>13. CASE RouteTurn
  BY <1>13 DEF RouteTurn
<1>14. CASE CheckLimits
  BY <1>14 DEF CheckLimits, Decide
<1>15. CASE DrainReceive
  BY <1>15 DEF DrainReceive
<1>16. CASE DrainTimeout
  BY <1>16 DEF DrainTimeout
<1>17. CASE DrainEmpty
  BY <1>17 DEF DrainEmpty
<1>18. CASE Judge
  BY <1>18 DEF Judge, JudgeWith, Decide
<1>19. CASE Finalize
  BY <1>19 DEF Finalize
<1>20. CASE CancelControl
  <2>1. turnSub \in SubscriptionOf(Reply) /\ ctlSub \in SubscriptionOf(Control)
    BY DEF TypeInv, TypeOK
  <2>2. ctlSub'.state # "open"
    BY <1>20, <2>1, CloseType DEF CancelControl
  <2> QED BY <1>20, <2>2 DEF CancelControl
<1>21. CASE StopTerminator
  <2>1. turnSub \in SubscriptionOf(Reply) /\ ctlSub \in SubscriptionOf(Control)
    BY DEF TypeInv, TypeOK
  <2>2. turnSub'.state # "open"
    BY <1>21, <2>1, CloseType DEF StopTerminator
  <2> QED BY <1>21, <2>2 DEF StopTerminator
<1>22. CASE JoinTerminator
  BY <1>22 DEF JoinTerminator
<1>23. CASE StopPeer
  BY <1>23 DEF StopPeer
<1>24. CASE SentinelReceive
  <2>1. turnSub \in SubscriptionOf(Reply) /\ ctlSub \in SubscriptionOf(Control)
    BY DEF TypeInv, TypeOK
  <2>2. turnSub'.state = turnSub.state
    BY <1>24, <2>1, ReceivedType DEF SentinelReceive
  <2> QED BY <1>24, <2>2 DEF SentinelReceive, runVars
<1>25. CASE SentinelPublish
  <2>1. turnSub \in SubscriptionOf(Reply) /\ ctlSub \in SubscriptionOf(Control)
    BY DEF TypeInv, TypeOK
  <2>2. ctlSub'.state = ctlSub.state
    BY <1>25, <2>1, DeliverType DEF SentinelPublish, Control
  <2> QED BY <1>25, <2>2 DEF SentinelPublish, runVars
<1>26. CASE SentinelExit
  BY <1>26 DEF SentinelExit, runVars
<1>27. ASSUME NEW how \in {"canceled", "deadline"}, ContextEnds(how) PROVE Teardown'
  BY <1>27 DEF ContextEnds, runVars
<1>28. ASSUME NEW msg \in OtherControl, PublishOther(msg) PROVE Teardown'
  <2>1. turnSub \in SubscriptionOf(Reply) /\ ctlSub \in SubscriptionOf(Control)
    BY DEF TypeInv, TypeOK
  <2>2. msg \in Control
    BY BrokerAssumption DEF Control
  <2>3. ctlSub'.state = ctlSub.state
    BY <1>28, <2>1, <2>2, DeliverType DEF PublishOther
  <2> QED BY <1>28, <2>3 DEF PublishOther, runVars
<1>29. CASE UNCHANGED vars
  BY <1>29 DEF vars, runVars
<1> QED
  BY <1>1, <1>2, <1>3, <1>4, <1>5, <1>6, <1>7, <1>8, <1>9, <1>10, <1>11, <1>12, <1>13, <1>14, <1>15,
     <1>16, <1>17, <1>18, <1>19, <1>20, <1>21, <1>22, <1>23, <1>24, <1>25, <1>26, <1>27, <1>28, <1>29
     DEF Next, RunNext, SentinelNext, Environment, Returned

LEMMA EvidenceInit == Init => Evidence
<1> SUFFICES ASSUME Init PROVE Evidence
  OBVIOUS
<1>1. turnSub.queue = <<>> /\ ctlSub.queue = <<>> /\ drained = <<>> /\ sentinel = "off"
  BY DEF Init, NoSubscription
<1> QED BY <1>1, EmptyLog DEF Evidence

LEMMA EvidenceNext == TypeInv /\ TypeInv' /\ Evidence /\ [Next]_vars => Evidence'
<1> SUFFICES ASSUME TypeInv, TypeInv', Evidence, [Next]_vars PROVE Evidence'
  OBVIOUS
<1> USE DEF Evidence, EndSaid,
             floorVars, turnVars, endVars, busVars, sentVars, ctxVars, outside
<1>1. CASE CreateConversation
  BY <1>1 DEF CreateConversation
<1>2. CASE StartPeer
  BY <1>2 DEF StartPeer
<1>3. CASE StartPeerFails
  BY <1>3 DEF StartPeerFails
<1>4. CASE StopStarted
  BY <1>4 DEF StopStarted, Decide
<1>5. CASE StartTerminator
  <2>1. \A i \in DOMAIN turnSub'.queue : i \in DOMAIN turnSub.queue /\ turnSub' = turnSub
    BY <1>5, EmptyLog DEF StartTerminator, NewSubscription
  <2> QED BY <1>5, <2>1 DEF StartTerminator
<1>6. CASE SubscribeControl
  <2>1. DOMAIN ctlSub'.queue = {}
    BY <1>6, EmptyLog DEF SubscribeControl, NewSubscription
  <2> QED BY <1>6, <2>1 DEF SubscribeControl
<1>7. CASE SubscribeControlFails
  BY <1>7 DEF SubscribeControlFails, Decide
<1>8. CASE LoopHead
  BY <1>8 DEF LoopHead, Decide
<1>9. CASE CallDeliver
  BY <1>9 DEF CallDeliver
<1>10. CASE DeliverAnswers
  BY <1>10 DEF DeliverAnswers, DeliverReturns, DeliverInterrupted, DeliverFails, Decide
<1>11. CASE AppendConversationTurn
  BY <1>11 DEF AppendConversationTurn
<1>12. CASE PublishTurn
  <2>1. turnSub \in SubscriptionOf(Reply) /\ ctlSub \in SubscriptionOf(Control)
    BY DEF TypeInv, TypeOK
  <2>2. cur.reply \in Reply
    BY DEF TypeInv, TypeOK, Turn
  <2>3. \A i \in DOMAIN turnSub'.queue :
          \/ turnSub'.queue[i] = cur.reply
          \/ \E j \in DOMAIN turnSub.queue : turnSub'.queue[i] = turnSub.queue[j]
    BY <1>12, <2>1, <2>2, DeliverType DEF PublishTurn
  <2> QED BY <1>12, <2>3 DEF PublishTurn
<1>13. CASE RouteTurn
  <2>1. turns \in Seq(Turn)
    BY DEF TypeInv, TypeOK
  <2>2. PICK t \in Turn : turns' = Append(turns, t) /\ t.reply = cur.reply
    BY <1>13, RouteTurnLog
  <2>3. EndSaid => EndSaid'
    BY <1>13, <2>1, <2>2, AppendLog DEF RouteTurn
  <2> QED BY <1>13, <2>3 DEF RouteTurn
<1>14. CASE CheckLimits
  BY <1>14 DEF CheckLimits, Decide
<1>15. CASE DrainReceive
  <2>1. turnSub \in SubscriptionOf(Reply) /\ ctlSub \in SubscriptionOf(Control)
    BY DEF TypeInv, TypeOK
  <2>2. drained \in Seq(Control) /\ CanReceive(ctlSub)
    BY <1>15 DEF DrainReceive, TypeInv, TypeOK
  <2>3. \A i \in DOMAIN ctlSub'.queue :
          \E j \in DOMAIN ctlSub.queue : ctlSub'.queue[i] = ctlSub.queue[j]
    BY <1>15, <2>1, <2>2, ReceivedType DEF DrainReceive
  <2>4. /\ Head(ctlSub.queue) \in Control
        /\ \E j \in DOMAIN ctlSub.queue : Head(ctlSub.queue) = ctlSub.queue[j]
    BY <2>1, <2>2, ReceivedType
  <2>5. \A i \in DOMAIN drained' :
          drained'[i] = Head(ctlSub.queue)
          \/ (i \in DOMAIN drained /\ drained'[i] = drained[i])
    BY <1>15, <2>2, <2>4 DEF DrainReceive
  <2> QED BY <1>15, <2>3, <2>4, <2>5 DEF DrainReceive
<1>16. CASE DrainTimeout
  BY <1>16 DEF DrainTimeout
<1>17. CASE DrainEmpty
  BY <1>17 DEF DrainEmpty
<1>18. CASE Judge
  BY <1>18 DEF Judge, JudgeWith, Decide
<1>19. CASE Finalize
  BY <1>19 DEF Finalize
<1>20. CASE CancelControl
  <2>1. turnSub \in SubscriptionOf(Reply) /\ ctlSub \in SubscriptionOf(Control)
    BY DEF TypeInv, TypeOK
  <2>2. ctlSub'.queue = ctlSub.queue
    BY <1>20, <2>1, CloseType DEF CancelControl
  <2> QED BY <1>20, <2>2 DEF CancelControl
<1>21. CASE StopTerminator
  <2>1. turnSub \in SubscriptionOf(Reply) /\ ctlSub \in SubscriptionOf(Control)
    BY DEF TypeInv, TypeOK
  <2>2. turnSub'.queue = turnSub.queue
    BY <1>21, <2>1, CloseType DEF StopTerminator
  <2> QED BY <1>21, <2>2 DEF StopTerminator
<1>22. CASE JoinTerminator
  BY <1>22 DEF JoinTerminator
<1>23. CASE StopPeer
  BY <1>23 DEF StopPeer
<1>24. CASE SentinelReceive
  <2>1. turnSub \in SubscriptionOf(Reply) /\ ctlSub \in SubscriptionOf(Control)
    BY DEF TypeInv, TypeOK
  <2>2. /\ \E j \in DOMAIN turnSub.queue : Head(turnSub.queue) = turnSub.queue[j]
        /\ \A i \in DOMAIN turnSub'.queue :
             \E j \in DOMAIN turnSub.queue : turnSub'.queue[i] = turnSub.queue[j]
    BY <1>24, <2>1, ReceivedType DEF SentinelReceive
  <2> QED BY <1>24, <2>2 DEF SentinelReceive, runVars
<1>25. CASE SentinelPublish
  <2>1. turnSub \in SubscriptionOf(Reply) /\ ctlSub \in SubscriptionOf(Control)
    BY DEF TypeInv, TypeOK
  <2>2. \A i \in DOMAIN ctlSub'.queue :
          \/ ctlSub'.queue[i] = "terminate"
          \/ \E j \in DOMAIN ctlSub.queue : ctlSub'.queue[i] = ctlSub.queue[j]
    BY <1>25, <2>1, DeliverType DEF SentinelPublish, Control
  <2> QED BY <1>25, <2>2 DEF SentinelPublish, runVars
<1>26. CASE SentinelExit
  BY <1>26 DEF SentinelExit, runVars
<1>27. ASSUME NEW how \in {"canceled", "deadline"}, ContextEnds(how) PROVE Evidence'
  BY <1>27 DEF ContextEnds, runVars
<1>28. ASSUME NEW msg \in OtherControl, PublishOther(msg) PROVE Evidence'
  <2>1. turnSub \in SubscriptionOf(Reply) /\ ctlSub \in SubscriptionOf(Control)
    BY DEF TypeInv, TypeOK
  <2>2. msg \in Control /\ msg # "terminate"
    BY BrokerAssumption DEF Control
  <2>3. \A i \in DOMAIN ctlSub'.queue :
          \/ ctlSub'.queue[i] = msg
          \/ \E j \in DOMAIN ctlSub.queue : ctlSub'.queue[i] = ctlSub.queue[j]
    BY <1>28, <2>1, <2>2, DeliverType DEF PublishOther
  <2> QED BY <1>28, <2>2, <2>3 DEF PublishOther, runVars
<1>29. CASE UNCHANGED vars
  BY <1>29 DEF vars, runVars
<1> QED
  BY <1>1, <1>2, <1>3, <1>4, <1>5, <1>6, <1>7, <1>8, <1>9, <1>10, <1>11, <1>12, <1>13, <1>14, <1>15,
     <1>16, <1>17, <1>18, <1>19, <1>20, <1>21, <1>22, <1>23, <1>24, <1>25, <1>26, <1>27, <1>28, <1>29
     DEF Next, RunNext, SentinelNext, Environment, Returned

----------------------------------------------------------------------------
\* All parts together.
IndInv == TypeInv /\ Phase /\ Late /\ Lifecycle /\ Teardown /\ Evidence

LEMMA IndInvInit == Init => IndInv
BY TypeInit, PhaseInit, LateInit, LifecycleInit, TeardownInit, EvidenceInit DEF IndInv

LEMMA IndInvNext == IndInv /\ [Next]_vars => IndInv'
BY TypeNext, PhaseNext, LateNext, LifecycleNext, TeardownNext, EvidenceNext DEF IndInv

THEOREM BrokerIndInv == Spec => []IndInv
BY IndInvInit, IndInvNext, PTL DEF Spec

\* Every peer has a place in the declared order.
LEMMA PeerHasPlace ==
  ASSUME NEW p \in Peers
  PROVE  \E i \in 1..N : PeerOrder[i] = p
BY PeersAssumption DEF Peers, N

\* However Run ends, and whichever of its calls fail, when it has returned no
\* peer is up, the sentinel's goroutine is gone and no subscription is open.
THEOREM BrokerCleanShutdown == Spec => []CleanShutdown
<1>1. IndInv => CleanShutdown
  BY PeerHasPlace DEF IndInv, Lifecycle, Teardown, CleanShutdown
<1> QED BY <1>1, BrokerIndInv, PTL

\* Run only calls Deliver on a peer it has started and not yet stopped.
THEOREM BrokerDeliverOnlyToLivePeers == Spec => []DeliverOnlyToLivePeers
<1>1. IndInv => DeliverOnlyToLivePeers
  BY PeerHasPlace DEF IndInv, TypeInv, TypeOK, Lifecycle, Speaking, DeliverOnlyToLivePeers
<1> QED BY <1>1, BrokerIndInv, PTL

\* After the end of the context the log grows by one turn at most.
THEOREM BrokerAtMostOneLateTurn == Spec => []AtMostOneLateTurn
<1>1. IndInv => AtMostOneLateTurn
  BY DEF IndInv, Late, AtMostOneLateTurn, CtxDone
<1> QED BY <1>1, BrokerIndInv, PTL

----------------------------------------------------------------------------
\* The refinement.  The abstract variables depend on the log, the outcome and
\* the context only.
Entry == [from : Peers, reply : Reply]

LogOf(s) == [i \in DOMAIN s |-> [from |-> s[i].from, reply |-> s[i].reply]]

LEMMA LogOfAppend ==
  ASSUME NEW s \in Seq(Turn), NEW t \in Turn
  PROVE  /\ LogOf(s) \in Seq(Entry) /\ Len(LogOf(s)) = Len(s)
         /\ LogOf(Append(s, t)) = Append(LogOf(s), [from |-> t.from, reply |-> t.reply])
<1> DEFINE e == [from |-> t.from, reply |-> t.reply]
<1>1. \A x \in Turn : [from |-> x.from, reply |-> x.reply] \in Entry
  BY DEF Turn, Entry
<1>2. \A q \in Seq(Turn) : LogOf(q) \in Seq(Entry) /\ Len(LogOf(q)) = Len(q)
  BY <1>1 DEF LogOf
<1>3. \A q \in Seq(Turn) : \A i \in 1..Len(q) : LogOf(q)[i] = [from |-> q[i].from, reply |-> q[i].reply]
  BY DEF LogOf
<1>4. e \in Entry
  BY <1>1
<1> HIDE DEF e
<1> DEFINE u == Append(s, t)
           v == Append(LogOf(s), e)
<1>5. /\ u \in Seq(Turn) /\ Len(u) = Len(s) + 1 /\ Len(s) \in Nat
      /\ u[Len(s) + 1] = t /\ \A i \in 1..Len(s) : u[i] = s[i]
  BY AppendLog
<1>6. /\ v \in Seq(Entry) /\ Len(v) = Len(s) + 1
      /\ v[Len(s) + 1] = e /\ \A i \in 1..Len(s) : v[i] = LogOf(s)[i]
  BY <1>2, <1>4
<1> HIDE DEF u, v
<1>7. LogOf(u) \in Seq(Entry) /\ Len(LogOf(u)) = Len(v)
  BY <1>2, <1>5, <1>6
<1>8. \A i \in 1..Len(LogOf(u)) : LogOf(u)[i] = v[i]
  <2> TAKE i \in 1..Len(LogOf(u))
  <2>1. CASE i = Len(s) + 1
    BY <1>3, <1>5, <1>6, <2>1 DEF e
  <2>2. CASE i \in 1..Len(s)
    <3>1. i \in 1..Len(u) /\ u[i] = s[i] /\ v[i] = LogOf(s)[i]
      BY <1>5, <1>6, <2>2
    <3>2. LogOf(u)[i] = [from |-> u[i].from, reply |-> u[i].reply]
      BY <1>3, <1>5, <3>1
    <3>3. LogOf(s)[i] = [from |-> s[i].from, reply |-> s[i].reply]
      BY <1>3, <2>2
    <3> QED BY <3>1, <3>2, <3>3
  <2> QED BY <1>5, <1>6, <1>7, <2>1, <2>2
<1>9. LogOf(u) = v
  BY <1>6, <1>7, <1>8, SeqEqual, Zenon
<1> QED BY <1>2, <1>9 DEF e, u, v

\* The abstract module's copies of the text rules are the broker's.
LEMMA SameRules ==
  /\ \A p, r : Abstract!Route(p, r) = Route(p, r)
  /\ \A r : Abstract!ContainsOnOwnLine(r) = ContainsOnOwnLine(r)
<1>1. \A r : Abstract!ContainsOnOwnLine(r) = ContainsOnOwnLine(r)
  BY Zenon DEF Abstract!ContainsOnOwnLine, ContainsOnOwnLine
<1>2. \A r : Abstract!TrimRight(r) = TrimRight(r)
  BY Zenon DEF Abstract!TrimRight, TrimRight, Abstract!SelectLastInSeq, SelectLastInSeq,
     Abstract!Max, Max
<1>3. \A r : Abstract!StripSentinel(r) = StripSentinel(r)
  <2> TAKE r
  <2> DEFINE at == SelectInSeq(r, LAMBDA l : l.kind = "end")
             there == Abstract!SelectInSeq(r, LAMBDA l : l.kind = "end")
  <2>1. there = at
    BY Zenon DEF Abstract!SelectInSeq, SelectInSeq, Abstract!Min, Min
  <2>2. StripSentinel(r) = IF ContainsOnOwnLine(r) THEN TrimRight(SubSeq(r, 1, at - 1)) ELSE r
    BY Zenon DEF StripSentinel
  <2>3. Abstract!StripSentinel(r) =
          IF Abstract!ContainsOnOwnLine(r) THEN Abstract!TrimRight(SubSeq(r, 1, there - 1)) ELSE r
    BY Zenon DEF Abstract!StripSentinel
  <2> HIDE DEF at, there
  <2> QED BY <1>1, <1>2, <2>1, <2>2, <2>3, Zenon
<1>4. \A r : Abstract!ParseNextTrailer(r) = ParseNextTrailer(r)
  BY Zenon DEF Abstract!ParseNextTrailer, ParseNextTrailer, Abstract!SelectLastInSeq,
     SelectLastInSeq, Abstract!Max, Max
<1>5. \A p, q : Abstract!RoundRobinAfter(p, q) = RoundRobinAfter(p, q)
  BY Zenon DEF Abstract!RoundRobinAfter, RoundRobinAfter, Abstract!SelectInSeq,
     SelectInSeq, Abstract!Min, Min
<1>6. \A p, r : Abstract!Route(p, r) = Route(p, r)
  BY <1>3, <1>4, <1>5, Zenon DEF Abstract!Route, Route, Abstract!PolicyNext, PolicyNext
<1> QED BY <1>1, <1>6

\* What a step does to them: nothing, the end of the context, or the one
\* decision of the outcome, on evidence.  Only RouteTurn moves the log.
Quiet   == turns' = turns /\ outcome' = outcome /\ ctx' = ctx
Cancels == turns' = turns /\ outcome' = outcome /\ ctx = "live" /\ ctx' # "live"
Ends ==
  /\ pc \notin Over /\ turns' = turns /\ ctx' = ctx
  /\ outcome' \in Statuses \ {"running"}
  /\ outcome' = "max_turns_hit" <=> Len(turns) = MaxTurns
  /\ outcome' = "completed_sentinel" =>
       \E i \in DOMAIN turns : ContainsOnOwnLine(turns[i].reply)
  /\ outcome' = "interrupted" => CtxDone

LEMMA QuietStep == ASSUME Quiet PROVE UNCHANGED Abstract!vars
BY DEF Quiet, Abstract!vars, CtxDone

LEMMA CancelStep == ASSUME Cancels PROVE Abstract!Next
<1>1. Abstract!Cancel
  BY DEF Cancels, Abstract!Cancel, CtxDone
<1> QED BY <1>1 DEF Abstract!Next

\* Run decides the outcome once, on evidence.
LEMMA EndStep ==
  ASSUME TypeInv, Phase, Ends
  PROVE  Abstract!Next
<1> USE DEF Ends
<1>1. turns \in Seq(Turn) /\ Len(LogOf(turns)) = Len(turns)
  <2>1. turns \in Seq(Turn) /\ cur \in Turn
    BY DEF TypeInv, TypeOK
  <2> QED BY <2>1, LogOfAppend
<1>2. outcome = "running"
  BY DEF Phase
<1>3. outcome' \in Abstract!Final
  BY DEF Abstract!Final, Statuses
<1>4. (\E i \in DOMAIN turns : ContainsOnOwnLine(turns[i].reply)) => Abstract!SaidEnd
  BY SameRules DEF Abstract!SaidEnd
<1>5. outcome' \in {"interrupted", "timeout"} => CtxDone
  BY DEF Statuses
<1>6. Abstract!EndWith(outcome')
  BY <1>1, <1>2, <1>4, <1>5 DEF Abstract!EndWith, LogOf, CtxDone
<1> QED BY <1>3, <1>6 DEF Abstract!Next

\* RouteTurn is where the holder of the floor speaks.
LEMMA SpeakStep ==
  ASSUME TypeInv, Phase, RouteTurn
  PROVE  Abstract!Next
<1>1. /\ turns \in Seq(Turn) /\ cur.reply \in Replies /\ cur.from = active /\ active = Floor
      /\ outcome = "running" /\ Len(turns) < MaxTurns
  BY DEF TypeInv, TypeOK, Phase, RouteTurn, Over, Speaking, Drawing
<1>2. PICK t \in Turn : /\ turns' = Append(turns, t)
                        /\ t.to = Route(active, cur.reply).next
                        /\ t.from = cur.from /\ t.reply = cur.reply
  BY RouteTurnLog
<1>3. LogOf(turns)' = Append(LogOf(turns), [from |-> Floor, reply |-> cur.reply])
  BY <1>1, <1>2, LogOfAppend
<1>4. Len(LogOf(turns)) < MaxTurns
  BY <1>1, <1>2, LogOfAppend
<1>5. Floor' = Abstract!Route(Floor, cur.reply).next
  BY <1>1, <1>2, AppendLog, SameRules DEF Floor
<1>6. outcome' = outcome /\ ctx' = ctx
  BY DEF RouteTurn, outside, ctxVars, endVars
<1>7. PICK r \in Replies : r = cur.reply
  BY <1>1
<1>8. Abstract!Speak(r)
  BY <1>1, <1>3, <1>4, <1>5, <1>6, <1>7 DEF Abstract!Speak, LogOf, Floor, CtxDone
<1> QED BY <1>8, Zenon DEF Abstract!Next

LEMMA StepKinds == IndInv /\ [Next]_vars => Quiet \/ Ends \/ RouteTurn \/ Cancels
<1> SUFFICES ASSUME IndInv, [Next]_vars PROVE Quiet \/ Ends \/ RouteTurn \/ Cancels
  OBVIOUS
<1> USE DEF floorVars, turnVars, endVars, busVars, sentVars, ctxVars, outside
<1>0. /\ Len(turns) \in Nat /\ MaxTurns \in Nat
      /\ pc \notin Over \cup {"limits"} => Len(turns) < MaxTurns
      /\ pc = "limits" => Len(turns) <= MaxTurns
  BY BrokerAssumption DEF IndInv, TypeInv, TypeOK, Phase
<1>1. CASE CreateConversation \/ StartPeer \/ StartPeerFails \/ StartTerminator
           \/ SubscribeControl \/ CallDeliver \/ AppendConversationTurn \/ PublishTurn
  BY <1>1 DEF Quiet, CreateConversation, StartPeer, StartPeerFails, StartTerminator,
     SubscribeControl, CallDeliver, AppendConversationTurn, PublishTurn
<1>2. CASE DrainReceive \/ DrainTimeout \/ DrainEmpty
  BY <1>2 DEF Quiet, DrainReceive, DrainTimeout, DrainEmpty
<1>3. CASE Finalize \/ CancelControl \/ StopTerminator \/ JoinTerminator \/ StopPeer
  BY <1>3 DEF Quiet, Finalize, CancelControl, StopTerminator, JoinTerminator, StopPeer
<1>4. CASE StopStarted
  BY <1>0, <1>4 DEF Quiet, Ends, StopStarted, Decide, Statuses, Over
<1>5. CASE SubscribeControlFails
  BY <1>0, <1>5 DEF Ends, SubscribeControlFails, Decide, Statuses, Over
<1>6. CASE LoopHead
  BY <1>0, <1>6 DEF Quiet, Ends, LoopHead, Decide, Statuses, Over
<1>7. CASE DeliverAnswers
  <2>1. ASSUME NEW reply \in Replies, DeliverReturns(reply) PROVE Quiet
    BY <2>1 DEF Quiet, DeliverReturns
  <2>2. CASE DeliverInterrupted
    BY <1>0, <2>2 DEF Ends, DeliverInterrupted, Decide, Statuses, Over
  <2>3. ASSUME NEW why \in {"exited", "failed"}, DeliverFails(why) PROVE Ends
    BY <1>0, <2>3 DEF Ends, DeliverFails, Decide, Statuses, Over
  <2> QED BY <1>7, <2>1, <2>2, <2>3 DEF DeliverAnswers
<1>8. CASE CheckLimits
  <2>1. CASE Len(turns) >= MaxTurns
    BY <1>0, <1>8, <2>1 DEF Ends, CheckLimits, Decide, Statuses, Over
  <2>2. CASE Len(turns) < MaxTurns
    BY <1>0, <1>8, <2>2 DEF Quiet, Ends, CheckLimits, Decide, Statuses, Over
  <2> QED BY <1>0, <2>1, <2>2
<1>9. CASE Judge
  <2>1. CASE Verdict # 0
    <3>1. Verdict \in DOMAIN drained /\ drained[Verdict] \in Control \ {"continue"}
      BY <2>1, VerdictIndex DEF IndInv, TypeInv, TypeOK
    <3>2. drained[Verdict] = "terminate" =>
            \E i \in DOMAIN turns : ContainsOnOwnLine(turns[i].reply)
      BY <1>9, <3>1 DEF IndInv, Evidence, EndSaid, Judge, JudgeWith
    <3>3. CASE drained[Verdict] = "terminate"
      BY <1>0, <1>9, <2>1, <3>2, <3>3 DEF Ends, Judge, JudgeWith, Decide, Statuses, Over
    <3>4. CASE drained[Verdict] # "terminate"
      BY <1>0, <1>9, <2>1, <3>1, <3>4 DEF Ends, Judge, JudgeWith, Decide, Statuses, Over, Control
    <3> QED BY <3>3, <3>4
  <2>2. CASE Verdict = 0
    BY <1>9, <2>2 DEF Quiet, Judge, JudgeWith
  <2> QED BY <2>1, <2>2
<1>10. CASE SentinelNext
  BY <1>10 DEF Quiet, SentinelNext, SentinelReceive, SentinelPublish, SentinelExit, runVars
<1>11. ASSUME NEW how \in {"canceled", "deadline"}, ContextEnds(how) PROVE Cancels
  BY <1>11 DEF Cancels, ContextEnds, runVars
<1>12. ASSUME NEW msg \in OtherControl, PublishOther(msg) PROVE Quiet
  BY <1>12 DEF Quiet, PublishOther, runVars
<1>13. CASE UNCHANGED vars
  BY <1>13 DEF Quiet, vars, runVars
<1> QED
  BY <1>1, <1>2, <1>3, <1>4, <1>5, <1>6, <1>7, <1>8, <1>9, <1>10, <1>11, <1>12, <1>13
     DEF Next, RunNext, Environment, Returned

\* Broker.Run, with its terminator, its failures and its cancellations,
\* implements the abstract conversation: every reply enters the log once, in
\* the name of the peer that held the floor, the floor goes where the reply
\* sends it, and the one outcome Run decides on is backed by the log.
THEOREM BrokerImplementsConversation == Spec => ImplementsConversation
<1>1. Init => Abstract!Init
  <2> SUFFICES ASSUME Init PROVE Abstract!Init
    OBVIOUS
  <2>1. turns = <<>> /\ outcome = "running" /\ ctx = "live"
    BY DEF Init
  <2> QED BY <2>1 DEF Abstract!Init, CtxDone
<1>2. IndInv /\ [Next]_vars => [Abstract!Next]_(Abstract!vars)
  <2> SUFFICES ASSUME IndInv, [Next]_vars PROVE Abstract!Next \/ UNCHANGED Abstract!vars
    OBVIOUS
  <2>1. TypeInv /\ Phase
    BY DEF IndInv
  <2> QED BY <2>1, StepKinds, QuietStep, CancelStep, EndStep, SpeakStep
<1> QED BY <1>1, <1>2, BrokerIndInv, PTL DEF Spec, ImplementsConversation, Abstract!Spec

----------------------------------------------------------------------------
\* The chain of envelopes and turns.

\* Run has handed over an envelope whose turn is not in the log yet.
Delivered == {"await", "persist", "publish", "route"}

\* An envelope for turn n, made from a log of n - 1 turns.
MadeFor(env, n) ==
  /\ env.index = n
  /\ ~ContainsOnOwnLine(env.body)
  /\ n > 1 => /\ env.from = turns[n - 1].from
              /\ env.body = StripSentinel(turns[n - 1].reply)

\* Every envelope in the history was made for its place and went to the peer
\* that had the floor.
Chained ==
  \A i \in DOMAIN history :
    /\ MadeFor(history[i].env, i)
    /\ i = 1 => history[i].to = Opener
    /\ i > 1 => history[i].to = turns[i - 1].to

\* Every turn in the log answers the envelope of its place.
Answered ==
  \A i \in DOMAIN turns : turns[i].index = i /\ turns[i].from = history[i].to

\* How much longer the history is than the log, place by place, and what the
\* variables of the turn in progress hold.
InStep ==
  /\ pc \in Opening => history = <<>>
  /\ pc \in Opening \cup {"head", "deliver"} \cup Drawing => Len(history) = Len(turns)
  /\ pc \in Delivered =>
       /\ Len(history) = Len(turns) + 1
       /\ history[Len(turns) + 1].to = active
       /\ envelope.index = Len(turns) + 1
  /\ pc \in Over => Len(history) \in {Len(turns), Len(turns) + 1}
  /\ pc \in {"head", "deliver"} => MadeFor(envelope, Len(turns) + 1)
  /\ pc \in {"persist", "publish", "route"} => cur.index = Len(turns) + 1
  /\ pc \in Drawing =>
       turns[Len(turns)].from = active /\ turns[Len(turns)].reply = cur.reply

ChainInv == Chained /\ Answered /\ InStep

----------------------------------------------------------------------------
\* The steps that leave the exchange alone, and where they may go.
Aside ==
  /\ UNCHANGED <<history, turns, envelope, active, cur>>
  /\ \/ pc' = pc
     \/ pc' \in Over
     \/ pc \in Opening /\ pc' \in Opening
     \/ pc = "head" /\ pc' = "deliver"
     \/ pc = "persist" /\ pc' = "publish"
     \/ pc = "publish" /\ pc' = "route"
     \/ pc \in Drawing /\ pc' \in Drawing

\* Judge without a verdict.
PassFloor == Judge /\ Verdict = 0

LEMMA AsideOrExchange ==
  [Next]_vars => \/ Aside \/ SubscribeControl \/ CallDeliver \/ RouteTurn \/ PassFloor
                 \/ \E reply \in Replies : DeliverReturns(reply)
<1> SUFFICES ASSUME [Next]_vars, ~SubscribeControl, ~CallDeliver, ~RouteTurn, ~PassFloor,
                    ~\E reply \in Replies : DeliverReturns(reply)
             PROVE  Aside
  OBVIOUS
<1> USE DEF Aside, Opening, Drawing, Over, floorVars, turnVars, outside
<1>1. CASE CreateConversation \/ StartPeer \/ StartPeerFails \/ StartTerminator
  BY <1>1 DEF CreateConversation, StartPeer, StartPeerFails, StartTerminator
<1>2. CASE StopStarted \/ SubscribeControlFails
  BY <1>2 DEF StopStarted, SubscribeControlFails, Decide
<1>3. CASE LoopHead
  BY <1>3 DEF LoopHead, Decide
<1>4. CASE DeliverAnswers
  BY <1>4 DEF DeliverAnswers, DeliverInterrupted, DeliverFails, Decide
<1>5. CASE AppendConversationTurn \/ PublishTurn
  BY <1>5 DEF AppendConversationTurn, PublishTurn
<1>6. CASE CheckLimits
  BY <1>6 DEF CheckLimits, Decide
<1>7. CASE DrainReceive \/ DrainTimeout \/ DrainEmpty
  BY <1>7 DEF DrainReceive, DrainTimeout, DrainEmpty
<1>8. CASE Judge
  <2>1. Verdict # 0
    BY <1>8 DEF PassFloor
  <2>2. QED
    BY <1>8, <2>1 DEF Judge, JudgeWith, Decide
<1>9. CASE Finalize
  BY <1>9 DEF Finalize
<1>10. CASE CancelControl \/ StopTerminator \/ JoinTerminator \/ StopPeer
  BY <1>10 DEF CancelControl, StopTerminator, JoinTerminator, StopPeer
<1>11. CASE SentinelNext
  BY <1>11 DEF SentinelNext, SentinelReceive, SentinelPublish, SentinelExit, runVars
<1>12. CASE Environment
  BY <1>12 DEF Environment, ContextEnds, PublishOther, runVars
<1>13. CASE Returned \/ UNCHANGED vars
  BY <1>13 DEF Returned, vars, runVars
<1>14. QED
  BY <1>1, <1>2, <1>3, <1>4, <1>5, <1>6, <1>7, <1>8, <1>9, <1>10, <1>11, <1>12, <1>13
     DEF Next, RunNext

LEMMA ChainInit == Init => ChainInv
<1> SUFFICES ASSUME Init PROVE ChainInv
  OBVIOUS
<1>1. history = <<>> /\ turns = <<>> /\ pc = "create"
  BY DEF Init
<1>2. QED
  BY <1>1, EmptyLog DEF ChainInv, Chained, Answered, InStep, Opening, Delivered, Drawing, Over

LEMMA AsideKeepsChain ==
  ASSUME TypeInv, ChainInv, Aside PROVE ChainInv'
<1> USE DEF Aside
<1>1. Chained' /\ Answered'
  BY DEF ChainInv, Chained, Answered, MadeFor
<1>2. pc \in Opening \cup {"head", "deliver"} \cup Drawing \cup Delivered \cup Over
  BY DEF TypeInv, TypeOK, Opening, Drawing, Delivered, Over
<1>3. Len(history) \in {Len(turns), Len(turns) + 1}
  BY <1>2 DEF ChainInv, InStep
<1>4. MadeFor(envelope, Len(turns) + 1)' <=> MadeFor(envelope, Len(turns) + 1)
  BY DEF MadeFor
<1>5. InStep'
  <2>1. CASE pc' \in Over
    BY <1>3, <2>1 DEF InStep, Opening, Drawing, Delivered, Over
  <2>2. CASE pc' \notin Over
    BY <1>4, <2>2 DEF ChainInv, InStep, Opening, Drawing, Delivered, Over
  <2>3. QED
    BY <2>1, <2>2
<1>6. QED
  BY <1>1, <1>5 DEF ChainInv

LEMMA SubscribeKeepsChain ==
  ASSUME TypeInv, Phase, ChainInv, SubscribeControl PROVE ChainInv'
<1>1. /\ history = <<>> /\ turns = <<>> /\ UNCHANGED <<history, turns, cur>>
      /\ envelope' = EnvelopeTurn1 /\ pc' = "head"
  BY DEF SubscribeControl, Phase, ChainInv, InStep, Opening, turnVars
<1>2. <<>> \in Reply /\ ~ContainsOnOwnLine(<<>>)
  BY EmptyLog DEF Reply, ContainsOnOwnLine
<1>3. MadeFor(envelope, Len(turns) + 1)'
  <2>1. Len(turns') + 1 = 1
    BY <1>1, EmptyLog
  <2>2. envelope'.index = 1 /\ envelope'.body = <<>>
    BY <1>1 DEF EnvelopeTurn1
  <2>3. QED
    BY <2>1, <2>2, <1>2 DEF MadeFor
<1>4. Chained' /\ Answered'
  BY <1>1, EmptyLog DEF Chained, Answered
<1>5. QED
  BY <1>1, <1>3, <1>4 DEF ChainInv, InStep, Opening, Drawing, Delivered, Over

LEMMA DeliverKeepsChain ==
  ASSUME TypeInv, Phase, ChainInv, CallDeliver PROVE ChainInv'
<1> DEFINE item == [to |-> active, env |-> envelope]
           n == Len(turns) + 1
<1>1. /\ history' = Append(history, item) /\ pc' = "await" /\ pc = "deliver"
      /\ UNCHANGED <<turns, active, envelope, cur>>
  BY DEF CallDeliver, floorVars, turnVars
<1>2. history \in Seq([to : Peers, env : Envelope]) /\ item \in [to : Peers, env : Envelope]
  BY DEF TypeInv, TypeOK
<1>3. Len(turns) \in Nat /\ DOMAIN turns = 1..Len(turns) /\ Len(history) = Len(turns)
  BY <1>1 DEF TypeInv, TypeOK, ChainInv, InStep
<1> HIDE DEF item
<1>4. /\ DOMAIN history = 1..Len(turns) /\ DOMAIN history' = 1..n /\ Len(history') = n
      /\ history'[n] = item /\ \A i \in 1..Len(turns) : history'[i] = history[i]
  BY <1>1, <1>2, <1>3
<1>5. MadeFor(envelope, n) /\ active = Floor
  BY <1>1 DEF ChainInv, InStep, Phase, Speaking
<1>6. Chained'
  <2> SUFFICES ASSUME NEW i \in DOMAIN history'
               PROVE  /\ MadeFor(history[i].env, i)'
                      /\ i = 1 => history'[i].to = Opener
                      /\ i > 1 => history'[i].to = turns'[i - 1].to
    BY DEF Chained
  <2>1. CASE i = n
    <3>1. history'[i].to = active /\ history'[i].env = envelope
      BY <2>1, <1>4 DEF item
    <3>2. MadeFor(history[i].env, i)'
      BY <3>1, <2>1, <1>1, <1>5 DEF MadeFor
    <3>3. i = 1 => active = Opener
      BY <2>1, <1>3, <1>5 DEF Floor, TypeInv, TypeOK
    <3>4. i > 1 => active = turns[i - 1].to
      BY <2>1, <1>3, <1>5 DEF Floor
    <3>5. QED
      BY <3>1, <3>2, <3>3, <3>4, <1>1
  <2>2. CASE i # n
    <3>1. i \in DOMAIN history /\ history'[i] = history[i]
      BY <2>2, <1>3, <1>4
    <3>2. QED
      BY <3>1, <1>1 DEF ChainInv, Chained, MadeFor
  <2>3. QED
    BY <2>1, <2>2
<1>7. Answered'
  BY <1>1, <1>3, <1>4 DEF ChainInv, Answered
<1>8. InStep'
  BY <1>1, <1>4, <1>5 DEF InStep, MadeFor, item, Opening, Drawing, Delivered, Over
<1>9. QED
  BY <1>6, <1>7, <1>8 DEF ChainInv

LEMMA AnswerKeepsChain ==
  ASSUME TypeInv, ChainInv, NEW reply \in Replies, DeliverReturns(reply) PROVE ChainInv'
<1>1. /\ pc = "await" /\ pc' = "persist" /\ UNCHANGED <<history, turns, envelope, active>>
      /\ cur' = CapturedTurn(envelope, active, reply, turns = <<>>)
  BY DEF DeliverReturns, floorVars, outside
<1>2. cur'.index = envelope.index
  BY <1>1, CapturedFields
<1>3. Chained' /\ Answered'
  BY <1>1 DEF ChainInv, Chained, Answered, MadeFor
<1>4. InStep'
  BY <1>1, <1>2 DEF ChainInv, InStep, Opening, Drawing, Delivered, Over
<1>5. QED
  BY <1>3, <1>4 DEF ChainInv

LEMMA RouteKeepsChain ==
  ASSUME TypeInv, Phase, ChainInv, RouteTurn PROVE ChainInv'
<1> DEFINE n == Len(turns) + 1
<1>1. PICK t \in Turn : /\ turns' = Append(turns, t)
                        /\ t.from = cur.from /\ t.reply = cur.reply /\ t.index = cur.index
  BY RouteTurnLog
<1>2. /\ pc = "route" /\ pc' = "limits" /\ UNCHANGED <<history, envelope, active, cur>>
  BY DEF RouteTurn, floorVars, outside
<1>3. turns \in Seq(Turn) /\ Len(turns) \in Nat /\ DOMAIN turns = 1..Len(turns)
  BY DEF TypeInv, TypeOK
<1>4. /\ Len(turns') = n /\ DOMAIN turns' = 1..n /\ turns'[n] = t
      /\ \A i \in 1..Len(turns) : turns'[i] = turns[i]
  BY <1>1, <1>3, AppendLog
<1>5. /\ Len(history) = n /\ history[n].to = active /\ cur.index = n /\ cur.from = active
  BY <1>2 DEF ChainInv, InStep, Delivered, Phase
<1>6. DOMAIN history = 1..n
  BY <1>5 DEF TypeInv, TypeOK
<1>7. Chained'
  <2> SUFFICES ASSUME NEW i \in DOMAIN history
               PROVE  /\ MadeFor(history[i].env, i)'
                      /\ i = 1 => history[i].to = Opener
                      /\ i > 1 => history[i].to = turns'[i - 1].to
    BY <1>2 DEF Chained
  <2>1. i > 1 => turns'[i - 1] = turns[i - 1]
    BY <1>3, <1>4, <1>6
  <2>2. QED
    BY <1>2, <2>1 DEF ChainInv, Chained, MadeFor
<1>8. Answered'
  <2> SUFFICES ASSUME NEW i \in 1..n PROVE turns'[i].index = i /\ turns'[i].from = history[i].to
    BY <1>2, <1>4 DEF Answered
  <2>1. CASE i = n
    BY <2>1, <1>1, <1>4, <1>5
  <2>2. CASE i # n
    <3>1. i \in DOMAIN turns /\ turns'[i] = turns[i]
      BY <2>2, <1>3, <1>4
    <3>2. QED
      BY <3>1 DEF ChainInv, Answered
  <2>3. QED
    BY <2>1, <2>2
<1>9. InStep'
  BY <1>1, <1>2, <1>4, <1>5 DEF InStep, Opening, Drawing, Delivered, Over
<1>10. QED
  BY <1>7, <1>8, <1>9 DEF ChainInv

LEMMA PassFloorKeepsChain ==
  ASSUME TypeInv, ChainInv, PassFloor PROVE ChainInv'
<1>1. /\ pc = "judge" /\ pc' = "head" /\ UNCHANGED <<history, turns, cur>>
      /\ envelope' = EnvelopeTurnN(Len(turns) + 1, active, StripSentinel(cur.reply))
  BY DEF PassFloor, Judge, JudgeWith, turnVars, outside
<1>2. Len(turns) \in Nat /\ Len(turns) > 0 /\ cur.reply \in Reply
  BY <1>1 DEF TypeInv, TypeOK, LogRouted, Drawing, Turn
<1>3. turns[Len(turns)].from = active /\ turns[Len(turns)].reply = cur.reply
  BY <1>1 DEF ChainInv, InStep, Drawing
<1>4. ~ContainsOnOwnLine(StripSentinel(cur.reply))
  BY <1>2, StripSentinelClean
<1>5. MadeFor(envelope, Len(turns) + 1)'
  <2> DEFINE n == Len(turns) + 1
  <2>1. /\ envelope'.index = n /\ envelope'.from = active
        /\ envelope'.body = StripSentinel(cur.reply)
    BY <1>1 DEF EnvelopeTurnN
  <2>2. n # 1 /\ n - 1 = Len(turns) /\ Len(turns') + 1 = n
    BY <1>1, <1>2
  <2> HIDE DEF n
  <2>3. QED
    BY <1>1, <1>3, <1>4, <2>1, <2>2 DEF MadeFor
<1>6. Chained' /\ Answered'
  BY <1>1 DEF ChainInv, Chained, Answered, MadeFor
<1>7. InStep'
  BY <1>1, <1>5 DEF ChainInv, InStep, Opening, Drawing, Delivered, Over
<1>8. QED
  BY <1>6, <1>7 DEF ChainInv

LEMMA ChainNext == IndInv /\ ChainInv /\ [Next]_vars => ChainInv'
  BY AsideOrExchange, AsideKeepsChain, SubscribeKeepsChain, DeliverKeepsChain, AnswerKeepsChain,
     RouteKeepsChain, PassFloorKeepsChain
     DEF IndInv

\* For every list of peers and every reply, envelopes and turns alternate in
\* one chain: each envelope carries the previous turn up to its sentinel to
\* the peer that turn was routed to, and that peer's answer is the next turn
\* (Run's active and next, BuildEnvelopeTurnN, Deliver).
THEOREM BrokerEnvelopeChain == Spec => []EnvelopeChain
<1>1. TypeInv /\ ChainInv => EnvelopeChain
  <2> SUFFICES ASSUME TypeInv, ChainInv PROVE EnvelopeChain
    OBVIOUS
  <2>1. pc \in Opening \cup {"head", "deliver"} \cup Drawing \cup Delivered \cup Over
    BY DEF TypeInv, TypeOK, Opening, Drawing, Delivered, Over
  <2>2. Len(history) \in {Len(turns), Len(turns) + 1}
    BY <2>1 DEF ChainInv, InStep
  <2>3. QED
    BY <2>2 DEF EnvelopeChain, ChainInv, Chained, Answered, MadeFor
<1>2. IndInv => TypeInv
  BY DEF IndInv
<1>3. QED
  BY <1>1, <1>2, ChainInit, ChainNext, BrokerIndInv, PTL DEF Spec

----------------------------------------------------------------------------
\* The record in the store.

\* The turn on its way into the log is captured and not yet routed.
InHand == {"persist", "publish", "route"}

\* A turn as Deliver's answer was captured, before the policy has run.
Unrouted(t) ==
  /\ t.to = NoPeer /\ t.parsed = NoPeer /\ t.fallback = FALSE
  /\ t.reason = IF t.index = 1 THEN "opener" ELSE ""

\* What turn t says is what the log has under t's number.
Told(log, t) ==
  /\ t.index \in 1..Len(log)
  /\ t.from = log[t.index].from
  /\ t.reply = log[t.index].reply

\* The store follows the log: it holds turns as they were captured, in order,
\* all of them until an append fails; once finalize is past, also how it ended.
StoreFollows ==
  /\ pc \in InHand => Unrouted(cur)
  /\ \A i \in DOMAIN disk.turns : Unrouted(disk.turns[i]) /\ Told(Captured, disk.turns[i])
  /\ \A i, j \in DOMAIN disk.turns : i < j => disk.turns[i].index < disk.turns[j].index
  /\ "append" \notin warnings =>
       /\ Len(disk.turns) = Len(Captured)
       /\ \A i \in DOMAIN disk.turns : disk.turns[i].index = i
  /\ pc \in Over \ {"finalize"} /\ "update" \notin warnings =>
       disk.status = outcome /\ disk.consumed = Len(turns)

\* The steps that leave the record and what was captured alone.
StoreAside ==
  /\ turns' = turns
  /\ disk'.turns = disk.turns
  /\ "append" \in warnings' <=> "append" \in warnings
  /\ \/ pc' = pc /\ cur' = cur
     \/ pc = "publish" /\ pc' = "route" /\ cur' = cur
     \/ pc \notin {"publish", "route"} /\ pc' \notin InHand
  /\ pc' \in Over \ {"finalize"} =>
       /\ pc \in Over \ {"finalize"}
       /\ UNCHANGED <<disk, outcome, warnings>>

LEMMA StoreStepKinds ==
  TypeInv /\ [Next]_vars =>
    \/ StoreAside \/ AppendConversationTurn \/ RouteTurn \/ Finalize
    \/ \E reply \in Replies : DeliverReturns(reply)
<1> SUFFICES ASSUME TypeInv, [Next]_vars, ~AppendConversationTurn, ~RouteTurn, ~Finalize,
                    ~\E reply \in Replies : DeliverReturns(reply)
             PROVE  StoreAside
  OBVIOUS
<1> USE DEF StoreAside, InHand, Over, floorVars, turnVars, endVars, outside
<1>1. CASE CreateConversation
  <2>1. disk'.turns = disk.turns
    BY <1>1 DEF CreateConversation, TypeInv, TypeOK, Recorded
  <2>2. "append" \in warnings' <=> "append" \in warnings
    BY <1>1 DEF CreateConversation, Warn
  <2>3. QED
    BY <1>1, <2>1, <2>2 DEF CreateConversation
<1>2. CASE StartPeer \/ StartPeerFails
  BY <1>2 DEF StartPeer, StartPeerFails
<1>3. CASE StartTerminator
  <2>1. "append" \in warnings' <=> "append" \in warnings
    BY <1>3 DEF StartTerminator, Warn
  <2>2. QED
    BY <1>3, <2>1 DEF StartTerminator
<1>4. CASE StopStarted
  BY <1>4 DEF StopStarted, Decide
<1>5. CASE SubscribeControl \/ SubscribeControlFails
  BY <1>5 DEF SubscribeControl, SubscribeControlFails, Decide
<1>6. CASE LoopHead \/ CallDeliver
  BY <1>6 DEF LoopHead, CallDeliver, Decide
<1>7. CASE DeliverAnswers
  BY <1>7 DEF DeliverAnswers, DeliverInterrupted, DeliverFails, Decide
<1>8. CASE PublishTurn
  <2>1. "append" \in warnings' <=> "append" \in warnings
    BY <1>8 DEF PublishTurn, Warn
  <2>2. QED
    BY <1>8, <2>1 DEF PublishTurn
<1>9. CASE CheckLimits
  BY <1>9 DEF CheckLimits, Decide
<1>10. CASE DrainReceive \/ DrainTimeout \/ DrainEmpty
  BY <1>10 DEF DrainReceive, DrainTimeout, DrainEmpty
<1>11. CASE Judge
  BY <1>11 DEF Judge, JudgeWith, Decide
<1>12. CASE CancelControl \/ StopTerminator \/ JoinTerminator \/ StopPeer
  BY <1>12 DEF CancelControl, StopTerminator, JoinTerminator, StopPeer
<1>13. CASE SentinelNext
  BY <1>13 DEF SentinelNext, SentinelReceive, SentinelPublish, SentinelExit, runVars
<1>14. CASE Environment
  BY <1>14 DEF Environment, ContextEnds, PublishOther, runVars
<1>15. CASE Returned \/ UNCHANGED vars
  BY <1>15 DEF Returned, vars, runVars
<1>16. QED
  BY <1>1, <1>2, <1>3, <1>4, <1>5, <1>6, <1>7, <1>8, <1>9, <1>10, <1>11, <1>12, <1>13, <1>14, <1>15
     DEF Next, RunNext

LEMMA StoreInit == Init => StoreFollows
<1> SUFFICES ASSUME Init PROVE StoreFollows
  OBVIOUS
<1>1. disk.turns = <<>> /\ turns = <<>> /\ pc = "create"
  BY DEF Init
<1>2. QED
  BY <1>1, EmptyLog DEF StoreFollows, Captured, InHand, Over

LEMMA StoreAsideKeeps ==
  ASSUME StoreFollows, StoreAside PROVE StoreFollows'
<1>1. Captured' = Captured
  BY DEF StoreAside, Captured, InHand
<1>2. (pc \in InHand => Unrouted(cur))'
  BY DEF StoreAside, StoreFollows, InHand, Unrouted
<1>3. (\A i \in DOMAIN disk.turns : Unrouted(disk.turns[i]) /\ Told(Captured, disk.turns[i]))'
  BY <1>1 DEF StoreAside, StoreFollows
<1>4. ("append" \notin warnings =>
         /\ Len(disk.turns) = Len(Captured)
         /\ \A i \in DOMAIN disk.turns : disk.turns[i].index = i)'
  BY <1>1 DEF StoreAside, StoreFollows
<1>5. QED
  BY <1>2, <1>3, <1>4 DEF StoreAside, StoreFollows

\* A longer log still tells what it told.
LEMMA ToldStill ==
  ASSUME NEW s \in Seq(Turn), NEW x \in Turn, NEW t \in Turn
  PROVE  /\ Told(s, t) => Told(Append(s, x), t)
         /\ t.index = Len(s) + 1 /\ t.from = x.from /\ t.reply = x.reply => Told(Append(s, x), t)
<1> DEFINE r == Append(s, x)
<1>1. Len(s) \in Nat /\ DOMAIN s = 1..Len(s)
  OBVIOUS
<1>2. /\ Len(r) = Len(s) + 1 /\ r[Len(s) + 1] = x
      /\ \A i \in DOMAIN s : r[i] = s[i]
  BY AppendLog
<1>3. QED
  BY <1>1, <1>2 DEF Told

LEMMA CaptureKeepsStore ==
  ASSUME TypeInv, ChainInv, StoreFollows, NEW reply \in Replies, DeliverReturns(reply)
  PROVE  StoreFollows'
<1>1. /\ pc = "await" /\ pc' = "persist" /\ UNCHANGED <<turns, disk, warnings, outcome>>
      /\ cur' = CapturedTurn(envelope, active, reply, turns = <<>>)
  BY DEF DeliverReturns, outside, endVars
<1>2. envelope.index = Len(turns) + 1 /\ turns \in Seq(Turn)
  BY <1>1 DEF ChainInv, InStep, Delivered, TypeInv, TypeOK
<1>3. envelope.index = 1 <=> turns = <<>>
  BY <1>2, EmptyLog
<1>4. Unrouted(cur')
  BY <1>1, <1>3 DEF CapturedTurn, Unrouted
<1>5. Captured' = Captured
  BY <1>1 DEF Captured
<1>6. QED
  BY <1>1, <1>4, <1>5 DEF StoreFollows, InHand, Over, Unrouted, Told

LEMMA RouteKeepsStore ==
  ASSUME TypeInv, ChainInv, StoreFollows, RouteTurn
  PROVE  StoreFollows'
<1>1. PICK t \in Turn : /\ turns' = Append(turns, t)
                        /\ t.from = cur.from /\ t.reply = cur.reply /\ t.index = cur.index
  BY RouteTurnLog
<1>2. /\ pc = "route" /\ pc' = "limits" /\ UNCHANGED <<disk, warnings>>
  BY DEF RouteTurn, outside
<1>3. turns \in Seq(Turn) /\ cur \in Turn /\ disk.turns \in Seq(Turn)
  BY DEF TypeInv, TypeOK, Recorded
<1>4. Captured = Append(turns, cur) /\ Captured' = Append(turns, t)
  BY <1>1, <1>2 DEF Captured
<1>5. /\ Len(Captured) = Len(turns) + 1 /\ Len(Captured') = Len(turns) + 1
      /\ \A i \in 1..Len(turns) + 1 : /\ Captured[i].from = Captured'[i].from
                                      /\ Captured[i].reply = Captured'[i].reply
  BY <1>1, <1>3, <1>4, AppendLog
<1>6. ASSUME NEW x \in Turn, Told(Captured, x) PROVE Told(Captured', x)
  BY <1>5, <1>6 DEF Told
<1>7. \A i \in DOMAIN disk.turns : disk.turns[i] \in Turn
  BY <1>3
<1>8. (\A i \in DOMAIN disk.turns : Unrouted(disk.turns[i]) /\ Told(Captured, disk.turns[i]))'
  BY <1>2, <1>6, <1>7 DEF StoreFollows, Unrouted
<1>9. QED
  BY <1>2, <1>5, <1>8 DEF StoreFollows, InHand, Over

LEMMA AppendKeepsStore ==
  ASSUME TypeInv, ChainInv, StoreFollows, AppendConversationTurn
  PROVE  StoreFollows'
<1> DEFINE d == disk.turns
           n == Len(d) + 1
<1>1. pc = "persist" /\ pc' = "publish" /\ UNCHANGED <<turns, cur>>
  BY DEF AppendConversationTurn, turnVars
<1>2. turns \in Seq(Turn) /\ cur \in Turn /\ d \in Seq(Turn) /\ disk \in Recorded
  BY DEF TypeInv, TypeOK, Recorded
<1>3. Captured = turns /\ Captured' = Append(turns, cur) /\ Len(Captured') = Len(turns) + 1
  BY <1>1, <1>2, AppendLog DEF Captured
<1>4. Unrouted(cur) /\ cur.index = Len(turns) + 1
  BY <1>1 DEF StoreFollows, InHand, ChainInv, InStep
<1>5. \A i \in DOMAIN d : d[i] \in Turn /\ Unrouted(d[i]) /\ Told(Append(turns, cur), d[i])
  BY <1>2, <1>3, ToldStill DEF StoreFollows
<1>6. Told(Append(turns, cur), cur)
  BY <1>2, <1>4, ToldStill
<1>7. CASE disk' = disk /\ "append" \in warnings'
  BY <1>1, <1>3, <1>4, <1>5, <1>7 DEF StoreFollows, InHand, Over, Unrouted
<1>8. CASE disk' = [disk EXCEPT !.turns = Append(d, cur)] /\ warnings' = warnings
  <2>1. disk'.turns = Append(d, cur)
    BY <1>2, <1>8 DEF Recorded
  <2> DEFINE e == disk'.turns
  <2>2. /\ Len(d) \in Nat /\ DOMAIN d = 1..Len(d) /\ Len(e) = n /\ DOMAIN e = 1..n /\ e[n] = cur
        /\ \A i \in 1..Len(d) : e[i] = d[i]
    BY <1>2, <2>1, AppendLog
  <2>3. \A i \in DOMAIN d : d[i].index \in 1..Len(turns)
    BY <1>3 DEF StoreFollows, Told
  <2>4. Len(turns) \in Nat
    BY <1>2
  <2> HIDE DEF d, e
  <2>5. \A i \in DOMAIN e : Unrouted(e[i]) /\ Told(Append(turns, cur), e[i])
    BY <1>4, <1>5, <1>6, <2>2
  <2>6. \A i, j \in DOMAIN e : i < j => e[i].index < e[j].index
    <3> SUFFICES ASSUME NEW i \in 1..n, NEW j \in 1..n, i < j PROVE e[i].index < e[j].index
      BY <2>2
    <3>1. i \in 1..Len(d) /\ e[i] = d[i]
      BY <2>2
    <3>2. CASE j = n
      BY <3>1, <3>2, <2>2, <2>3, <2>4, <1>4
    <3>3. CASE j # n
      <4>1. j \in 1..Len(d) /\ e[j] = d[j]
        BY <3>3, <2>2
      <4>2. QED
        BY <3>1, <4>1, <2>2 DEF StoreFollows, d
    <3>4. QED
      BY <3>2, <3>3
  <2>7. "append" \notin warnings => Len(e) = Len(Captured') /\ \A i \in DOMAIN e : e[i].index = i
    <3> SUFFICES ASSUME "append" \notin warnings
                 PROVE  Len(e) = Len(Captured') /\ \A i \in 1..n : e[i].index = i
      BY <2>2
    <3>1. Len(d) = Len(turns) /\ \A i \in 1..Len(d) : d[i].index = i
      BY <1>3, <2>2 DEF StoreFollows, d
    <3>2. QED
      BY <3>1, <1>3, <1>4, <2>2
  <2>8. QED
    BY <1>1, <1>3, <1>4, <1>8, <2>5, <2>6, <2>7 DEF StoreFollows, InHand, Over, Unrouted, e
<1>9. QED
  BY <1>7, <1>8 DEF AppendConversationTurn, Warn

LEMMA FinalizeKeepsStore ==
  ASSUME TypeInv, StoreFollows, Finalize
  PROVE  StoreFollows'
<1>1. pc = "finalize" /\ pc' \notin InHand /\ UNCHANGED <<turns, cur, outcome>>
  BY DEF Finalize, turnVars, endVars, InHand
<1>2. Captured' = Captured
  BY <1>1 DEF Captured, InHand
<1>3. "append" \in warnings' <=> "append" \in warnings
  BY DEF Finalize, Warn
<1>4. \/ disk' = disk /\ "update" \in warnings'
      \/ disk' = [disk EXCEPT !.status = outcome, !.consumed = Len(turns)]
  BY DEF Finalize, Warn
<1>5. disk'.turns = disk.turns
  BY <1>4 DEF TypeInv, TypeOK, Recorded
<1>6. "update" \notin warnings' => disk'.status = outcome /\ disk'.consumed = Len(turns)
  BY <1>4 DEF TypeInv, TypeOK, Recorded
<1>7. (\A i \in DOMAIN disk.turns : Unrouted(disk.turns[i]) /\ Told(Captured, disk.turns[i]))'
  BY <1>2, <1>5 DEF StoreFollows
<1>8. ("append" \notin warnings =>
         /\ Len(disk.turns) = Len(Captured)
         /\ \A i \in DOMAIN disk.turns : disk.turns[i].index = i)'
  BY <1>2, <1>3, <1>5 DEF StoreFollows
<1>9. QED
  BY <1>1, <1>5, <1>6, <1>7, <1>8 DEF StoreFollows

LEMMA StoreNext == IndInv /\ ChainInv /\ StoreFollows /\ [Next]_vars => StoreFollows'
  BY StoreStepKinds, StoreAsideKeeps, CaptureKeepsStore, RouteKeepsStore, AppendKeepsStore,
     FinalizeKeepsStore
     DEF IndInv

\* At every moment what is stored is what has been said, in order, and a turn
\* that could not be stored has been told of (Broker.Run's AppendTurn and
\* FinalizeConversation); NoSilentLoss follows from it.
THEOREM BrokerStoreFollows == Spec => [](IndInv /\ ChainInv /\ StoreFollows)
  BY ChainInit, ChainNext, StoreInit, StoreNext, IndInvInit, IndInvNext, PTL DEF Spec

\* Every captured turn has its own number in the captured log.
LEMMA CapturedNumbers ==
  ASSUME TypeInv, ChainInv
  PROVE  Captured \in Seq(Turn) /\ \A j \in DOMAIN Captured : Captured[j].index = j
<1>1. turns \in Seq(Turn) /\ cur \in Turn /\ DOMAIN turns = 1..Len(turns) /\ Len(turns) \in Nat
  BY DEF TypeInv, TypeOK
<1>2. \A j \in DOMAIN turns : turns[j].index = j
  BY DEF ChainInv, Answered
<1>3. CASE pc \in {"publish", "route"}
  <2>1. cur.index = Len(turns) + 1 /\ Captured = Append(turns, cur)
    BY <1>3 DEF ChainInv, InStep, Captured
  <2>2. QED
    BY <1>1, <1>2, <2>1, AppendLog
<1>4. QED
  BY <1>1, <1>2, <1>3 DEF Captured

\* Whatever fails, nothing is lost silently, for every list of peers, reply
\* and cap: the stored turns are the captured ones unless a warning says that
\* an append failed, and then they are some of them in order; the outcome is
\* stored unless a warning says otherwise (the store calls of Run, finalize).
THEOREM BrokerNoSilentLoss == Spec => []NoSilentLoss
<1>1. IndInv /\ ChainInv /\ StoreFollows => NoSilentLoss
  <2> SUFFICES ASSUME TypeInv, ChainInv, StoreFollows PROVE NoSilentLoss
    BY DEF IndInv
  <2> DEFINE d == disk.turns
             c == Captured
  <2>1. d \in Seq(Turn) /\ DOMAIN d = 1..Len(d)
    BY DEF TypeInv, TypeOK, Recorded
  <2>2. c \in Seq(Turn) /\ DOMAIN c = 1..Len(c) /\ \A j \in DOMAIN c : c[j].index = j
    BY CapturedNumbers
  <2>3. \A i \in DOMAIN d : Told(c, d[i])
    BY DEF StoreFollows
  <2>4. \A i \in DOMAIN d :
          /\ d[i].index \in DOMAIN c
          /\ d[i].index = c[d[i].index].index
          /\ d[i].from = c[d[i].index].from
          /\ d[i].reply = c[d[i].index].reply
    BY <2>2, <2>3 DEF Told
  <2>5. "append" \notin warnings => Len(d) = Len(c) /\ \A i \in DOMAIN d : d[i].index = i
    BY DEF StoreFollows
  <2>6. /\ \A i, j \in DOMAIN d : i < j => d[i].index < d[j].index
        /\ pc = "returned" /\ "update" \notin warnings =>
             disk.status = outcome /\ disk.consumed = Len(turns)
    BY DEF StoreFollows, Over
  <2> HIDE DEF d, c
  <2>7. ASSUME "append" \notin warnings PROVE Said(d) = Said(c)
    <3>1. DOMAIN d = DOMAIN c
      BY <2>1, <2>2, <2>5, <2>7
    <3>2. \A i \in DOMAIN d :
            <<d[i].index, d[i].from, d[i].reply>> = <<c[i].index, c[i].from, c[i].reply>>
      BY <2>4, <2>5, <2>7
    <3>3. QED
      BY <3>1, <3>2, Zenon DEF Said
  <2>8. \A i \in DOMAIN d : \E j \in DOMAIN c : Said(d)[i] = Said(c)[j]
    <3> TAKE i \in DOMAIN d
    <3>1. Said(d)[i] = Said(c)[d[i].index]
      BY <2>4 DEF Said
    <3>2. QED
      BY <2>4, <3>1
  <2>9. QED
    BY <2>6, <2>7, <2>8 DEF NoSilentLoss, c, d
<1>2. QED
  BY <1>1, BrokerStoreFollows, PTL

----------------------------------------------------------------------------
\* The converse command around the broker.

\* The stream's goroutine and its subscription, stage by stage of the command:
\* the bus is open until Run is back, so the stream cannot have ended before,
\* and what it has not written by the time it ends was never in its channel.
StreamInv ==
  /\ cmd \in {"store", "run", "join", "print", "exit"}
  /\ streamer \in {"off", "spawned", "range", "done"}
  /\ streamSub = [state |-> streamSub.state, queue |-> streamSub.queue]
  /\ streamer \in {"off", "spawned"} => streamSub = NoSubscription
  /\ streamer = "done" => cmd \in {"join", "print", "exit"} /\ streamSub.queue = <<>>
  /\ cmd = "store" => streamer = "off"
  /\ cmd \in {"store", "run"} => streamSub.state # "closed"
  /\ cmd \in {"print", "exit"} => streamer \in {"off", "done"}

LEMMA StreamInit == ConverseInit => StreamInv
  BY DEF ConverseInit, StreamInv, NoSubscription

LEMMA StreamStep == StreamInv /\ [ConverseNext]_allVars => StreamInv'
<1> SUFFICES ASSUME StreamInv, [ConverseNext]_allVars PROVE StreamInv'
  OBVIOUS
<1> USE DEF StreamInv, NoSubscription
<1>1. CASE OpenStore
  BY <1>1 DEF OpenStore
<1>2. CASE BrokerRuns
  <2>1. cmd = "run" /\ UNCHANGED <<cmd, streamer>>
    BY <1>2 DEF BrokerRuns, cmdVars
  <2>2. streamSub' = streamSub \/ streamSub' = Deliver(streamSub, cur)
    BY <1>2 DEF BrokerRuns
  <2>3. streamSub.state # "open" => streamSub' = streamSub
    BY <2>2 DEF Deliver
  <2>4. /\ streamSub'.state # "closed"
        /\ streamSub' = [state |-> streamSub'.state, queue |-> streamSub'.queue]
    BY <2>1, <2>2 DEF Deliver
  <2>5. QED
    BY <2>1, <2>3, <2>4
<1>3. CASE SentinelRuns \/ Interrupted
  BY <1>3 DEF SentinelRuns, Interrupted, cmdVars, streamVars
<1>4. CASE CloseBus
  BY <1>4 DEF CloseBus, CloseSubscription
<1>5. CASE WaitForStream
  BY <1>5 DEF WaitForStream, streamVars
<1>6. CASE PrintResult
  BY <1>6 DEF PrintResult, streamVars
<1>7. CASE StreamSubscribes
  BY <1>7 DEF StreamSubscribes, BusClosed, NewSubscription, cmdVars
<1>8. CASE StreamWrites
  BY <1>8 DEF StreamWrites, Received, cmdVars
<1>9. CASE StreamEnds
  BY <1>9 DEF StreamEnds, CanReceive, cmdVars
<1>10. CASE Exited \/ UNCHANGED allVars
  BY <1>10 DEF Exited, allVars, cmdVars, streamVars
<1>11. QED
  BY <1>1, <1>2, <1>3, <1>4, <1>5, <1>6, <1>7, <1>8, <1>9, <1>10
     DEF ConverseNext, CommandNext, StreamNext

\* For every number of peers, replies, turns and buffer size, the result is
\* printed after the stream has written everything it was given, and nothing
\* is streamed after it (Close, then Wait, then Encode in ConverseCommand and
\* runNPeerConverse).
THEOREM ConverseResultComesLast == ConverseSpec => []ResultComesLast
<1>1. StreamInv => ResultComesLast
  BY DEF StreamInv, ResultComesLast, NoSubscription
<1>2. QED
  BY <1>1, StreamInit, StreamStep, PTL DEF ConverseSpec

-----------------------------------------------------------------------------

LEMMA CommandStepIsBrokerStep == [ConverseNext]_allVars => [Next]_vars
<1> SUFFICES ASSUME [ConverseNext]_allVars PROVE [Next]_vars
  OBVIOUS
<1>1. CASE BrokerRuns \/ SentinelRuns \/ Interrupted
  BY <1>1 DEF BrokerRuns, SentinelRuns, Interrupted, Next
<1>2. CASE OpenStore \/ CloseBus \/ WaitForStream \/ PrintResult
  BY <1>2 DEF OpenStore, CloseBus, WaitForStream, PrintResult
<1>3. CASE StreamNext
  BY <1>3 DEF StreamNext, StreamSubscribes, StreamWrites, StreamEnds
<1>4. CASE Exited \/ UNCHANGED allVars
  BY <1>4 DEF Exited, allVars
<1>5. QED
  BY <1>1, <1>2, <1>3, <1>4 DEF ConverseNext, CommandNext

\* The command adds nothing to the broker's behaviour: whatever the stream and
\* the command do, the broker inside them runs as module Broker says.
THEOREM ConverseImplementsBroker == ConverseSpec => Spec
  BY CommandStepIsBrokerStep, PTL DEF ConverseSpec, ConverseInit, Spec

\* Hence, in the command, a Run that is back has stopped every peer it started
\* (ConverseCommand's br.Run).
THEOREM ConverseCleanShutdown == ConverseSpec => []CleanShutdown
  BY ConverseImplementsBroker, BrokerCleanShutdown, PTL

\* Each envelope the command's peers are sent continues the turn before it
\* (BuildEnvelopeTurn1 and BuildEnvelopeTurnN under ConverseCommand).
THEOREM ConverseEnvelopeChain == ConverseSpec => []EnvelopeChain
  BY ConverseImplementsBroker, BrokerEnvelopeChain, PTL

\* And the conversation the command runs is one of module Conversation's.
THEOREM ConverseImplementsConversation == ConverseSpec => ImplementsConversation
  BY ConverseImplementsBroker, BrokerImplementsConversation, PTL

\* What the command's store holds is what its peers said, or a warning of the
\* result says what is missing (filestore under ConverseCommand's br.Run).
THEOREM ConverseNoSilentLoss == ConverseSpec => []NoSilentLoss
  BY ConverseImplementsBroker, BrokerNoSilentLoss, PTL

-----------------------------------------------------------------------------
\* What the exit code rests on.

\* In this process only the sentinel publishes control messages.
OnlyTerminate ==
  /\ \A i \in DOMAIN ctlSub.queue : ctlSub.queue[i] = "terminate"
  /\ \A i \in DOMAIN drained : drained[i] = "terminate"

\* The peers after the one that is being started have not been touched, and
\* the one that failed to start stays as it was.
Untouched ==
  /\ pc \in {"create", "start"} => \A i \in 1..N : k <= i => peers[PeerOrder[i]] = "new"
  /\ pc = "rollback" => \E p \in Peers : peers[p] = "new"

NeverStarted == note = "start" /\ \E p \in Peers : peers[p] = "new"

\* Each outcome Run decides on has its ground, and keeps it.
Grounds ==
  /\ outcome = "completed_sentinel" => \E i \in DOMAIN turns : ContainsOnOwnLine(turns[i].reply)
  /\ outcome = "max_turns_hit" => Len(turns) = MaxTurns
  /\ outcome = "interrupted" => CtxDone
  /\ outcome = "error" => \/ pc \in {"finalize", "returned"} /\ NeverStarted
                          \/ Len(history) = Len(turns) + 1
  /\ outcome \notin {"peer_crashed", "peer_blocked"}

GroundInv == OnlyTerminate /\ Untouched /\ Grounds

LEMMA NoOthers ==
  /\ ~SubscribeControlFails
  /\ ~\E msg \in OtherControl : PublishOther(msg)
<1>1. Faults \cap {"subscribe"} = {} /\ OtherControl = {}
  BY ConverseAssumption
<1>2. QED
  BY <1>1 DEF SubscribeControlFails

LEMMA GroundInit == Init => GroundInv
<1> SUFFICES ASSUME Init PROVE GroundInv
  OBVIOUS
<1>1. /\ ctlSub.queue = <<>> /\ drained = <<>> /\ outcome = "running" /\ pc = "create"
      /\ peers = [p \in Peers |-> "new"]
  BY DEF Init, NoSubscription
<1>2. OnlyTerminate
  BY <1>1, EmptyLog DEF OnlyTerminate
<1>3. Untouched
  BY <1>1, PeerAt DEF Untouched
<1>4. QED
  BY <1>1, <1>2, <1>3 DEF GroundInv, Grounds

LEMMA OnlyTerminateNext ==
  ASSUME TypeInv, OnlyTerminate, [Next]_vars PROVE OnlyTerminate'
<1> USE DEF OnlyTerminate
<1>1. ctlSub \in SubscriptionOf(Control) /\ drained \in Seq(Control)
  BY DEF TypeInv, TypeOK
<1>2. CASE UNCHANGED <<ctlSub, drained>>
  BY <1>2
<1>3. CASE SubscribeControl
  <2>1. DOMAIN ctlSub'.queue = {} /\ drained' = drained
    BY <1>3, EmptyLog DEF SubscribeControl, NewSubscription, turnVars
  <2>2. QED
    BY <2>1
<1>4. CASE CheckLimits
  <2>1. DOMAIN drained' = {} /\ ctlSub' = ctlSub
    BY <1>4, EmptyLog DEF CheckLimits, outside, busVars
  <2>2. QED
    BY <2>1
<1>5. CASE DrainReceive
  <2>1. CanReceive(ctlSub) /\ ctlSub' = Received(ctlSub)
        /\ drained' = Append(drained, Head(ctlSub.queue))
    BY <1>5 DEF DrainReceive
  <2>2. /\ Head(ctlSub.queue) \in Control
        /\ \E j \in DOMAIN ctlSub.queue : Head(ctlSub.queue) = ctlSub.queue[j]
        /\ \A i \in DOMAIN ctlSub'.queue :
             \E j \in DOMAIN ctlSub.queue : ctlSub'.queue[i] = ctlSub.queue[j]
    BY <1>1, <2>1, ReceivedType
  <2>3. Head(ctlSub.queue) = "terminate"
    BY <2>2
  <2>4. \A i \in DOMAIN drained' : drained'[i] = "terminate"
    BY <1>1, <2>1, <2>2, <2>3
  <2>5. QED
    BY <2>2, <2>4
<1>6. CASE CancelControl
  <2>1. ctlSub'.queue = ctlSub.queue /\ drained' = drained
    BY <1>1, <1>6, CloseType DEF CancelControl, turnVars
  <2>2. QED
    BY <2>1
<1>7. CASE SentinelPublish
  <2>1. ctlSub' = Deliver(ctlSub, "terminate") /\ drained' = drained /\ "terminate" \in Control
    BY <1>7 DEF SentinelPublish, runVars, turnVars, Control
  <2>2. \A i \in DOMAIN ctlSub'.queue :
          \/ ctlSub'.queue[i] = "terminate"
          \/ \E j \in DOMAIN ctlSub.queue : ctlSub'.queue[i] = ctlSub.queue[j]
    BY <1>1, <2>1, DeliverType
  <2>3. QED
    BY <2>1, <2>2
<1>8. ASSUME ~SubscribeControl, ~CheckLimits, ~DrainReceive, ~CancelControl, ~SentinelPublish
      PROVE  UNCHANGED <<ctlSub, drained>>
  <2> USE DEF outside, busVars, turnVars
  <2>1. CASE CreateConversation \/ StartPeer \/ StartPeerFails \/ StopStarted \/ StartTerminator
    BY <2>1 DEF CreateConversation, StartPeer, StartPeerFails, StopStarted, StartTerminator
  <2>2. CASE LoopHead \/ CallDeliver \/ DeliverAnswers
    BY <2>2 DEF LoopHead, CallDeliver, DeliverAnswers, DeliverReturns, DeliverInterrupted,
                DeliverFails
  <2>3. CASE AppendConversationTurn \/ PublishTurn \/ RouteTurn
    BY <2>3 DEF AppendConversationTurn, PublishTurn, RouteTurn
  <2>4. CASE DrainTimeout \/ DrainEmpty \/ Judge
    BY <2>4 DEF DrainTimeout, DrainEmpty, Judge, JudgeWith
  <2>5. CASE Finalize \/ StopTerminator \/ JoinTerminator \/ StopPeer
    BY <2>5 DEF Finalize, StopTerminator, JoinTerminator, StopPeer
  <2>6. CASE SentinelReceive \/ SentinelExit
    BY <2>6 DEF SentinelReceive, SentinelExit, runVars
  <2>7. CASE Environment
    BY <2>7, NoOthers DEF Environment, ContextEnds, runVars
  <2>8. CASE Returned \/ UNCHANGED vars
    BY <2>8 DEF Returned, vars, runVars
  <2>9. QED
    BY <1>8, <2>1, <2>2, <2>3, <2>4, <2>5, <2>6, <2>7, <2>8, NoOthers
       DEF Next, RunNext, SentinelNext
<1>9. QED
  BY <1>2, <1>3, <1>4, <1>5, <1>6, <1>7, <1>8

LEMMA UntouchedNext ==
  ASSUME TypeInv, Untouched, [Next]_vars PROVE Untouched'
<1> USE DEF Untouched
<1>1. peers \in [Peers -> {"new", "up", "stopped"}] /\ k \in 1..N + 1 /\ N \in Nat
  BY NNat DEF TypeInv, TypeOK
<1>2. CASE CreateConversation
  BY <1>2 DEF CreateConversation
<1>3. CASE StartPeer
  <2>1. /\ pc = "start" /\ pc' = "start" /\ k <= N /\ k' = k + 1
        /\ peers' = [peers EXCEPT ![PeerOrder[k]] = "up"]
    BY <1>3 DEF StartPeer
  <2>2. ASSUME NEW i \in 1..N, k + 1 <= i PROVE peers'[PeerOrder[i]] = "new"
    <3>1. k \in 1..N /\ i # k /\ k <= i
      BY <1>1, <2>1, <2>2
    <3>2. PeerOrder[i] # PeerOrder[k] /\ PeerOrder[i] \in Peers
      BY <3>1, PeerDistinct, PeerAt
    <3>3. peers[PeerOrder[i]] = "new"
      BY <2>1, <3>1
    <3>4. QED
      BY <1>1, <2>1, <3>2, <3>3
  <2>3. QED
    BY <2>1, <2>2
<1>4. CASE StartPeerFails
  <2>1. pc = "start" /\ k \in 1..N /\ pc' = "rollback" /\ peers' = peers
    BY <1>1, <1>4 DEF StartPeerFails, outside
  <2>2. PeerOrder[k] \in Peers /\ peers[PeerOrder[k]] = "new"
    BY <1>1, <2>1, PeerAt
  <2>3. QED
    BY <2>1, <2>2
<1>5. CASE StopStarted
  <2>1. pc = "rollback" /\ pc' \notin {"create", "start"}
    BY <1>5 DEF StopStarted, Decide
  <2>2. PICK p \in Peers : peers[p] = "new"
    BY <2>1
  <2>3. peers'[p] = "new"
    BY <1>1, <1>5, <2>2 DEF StopStarted
  <2>4. QED
    BY <2>1, <2>3
<1>6. CASE pc' \notin {"create", "start", "rollback"}
  BY <1>6
<1>7. CASE pc' = pc /\ UNCHANGED <<peers, k>>
  BY <1>7
<1>8. ASSUME ~CreateConversation, ~StartPeer, ~StartPeerFails, ~StopStarted
      PROVE  \/ pc' \notin {"create", "start", "rollback"}
             \/ pc' = pc /\ UNCHANGED <<peers, k>>
  <2>1. CASE StartTerminator \/ SubscribeControl
    BY <2>1 DEF StartTerminator, SubscribeControl
  <2>2. CASE LoopHead \/ CallDeliver \/ DeliverAnswers
    BY <2>2 DEF LoopHead, CallDeliver, DeliverAnswers, DeliverReturns, DeliverInterrupted,
                DeliverFails, Decide
  <2>3. CASE AppendConversationTurn \/ PublishTurn \/ RouteTurn \/ CheckLimits
    BY <2>3 DEF AppendConversationTurn, PublishTurn, RouteTurn, CheckLimits, Decide
  <2>4. CASE DrainReceive \/ DrainTimeout \/ DrainEmpty \/ Judge
    BY <2>4 DEF DrainReceive, DrainTimeout, DrainEmpty, Judge, JudgeWith, Decide
  <2>5. CASE Finalize \/ CancelControl \/ StopTerminator \/ JoinTerminator \/ StopPeer
    BY <2>5 DEF Finalize, CancelControl, StopTerminator, JoinTerminator, StopPeer
  <2>6. CASE SentinelNext
    BY <2>6 DEF SentinelNext, SentinelReceive, SentinelPublish, SentinelExit, runVars
  <2>7. CASE Environment
    BY <2>7 DEF Environment, ContextEnds, PublishOther, runVars
  <2>8. CASE Returned \/ UNCHANGED vars
    BY <2>8 DEF Returned, vars, runVars, outside
  <2>9. QED
    BY <1>8, <2>1, <2>2, <2>3, <2>4, <2>5, <2>6, <2>7, <2>8, NoOthers DEF Next, RunNext
<1>9. QED
  BY <1>2, <1>3, <1>4, <1>5, <1>6, <1>7, <1>8

\* On the way out nothing a decided outcome rests on changes any more.
LEMMA OutcomeStays ==
  ASSUME pc \in Over, [Next]_vars
  PROVE  /\ UNCHANGED <<turns, history, outcome, note>>
         /\ CtxDone => CtxDone'
         /\ pc' \in Over
         /\ pc \in {"finalize", "returned"} => peers' = peers
         /\ pc \in {"finalize", "returned"} /\ note = "start" => pc' \in {"finalize", "returned"}
<1> USE DEF Over, CtxDone, turnVars, endVars, ctxVars, outside
<1>1. CASE Finalize
  BY <1>1 DEF Finalize
<1>2. CASE CancelControl \/ StopTerminator \/ JoinTerminator
  BY <1>2 DEF CancelControl, StopTerminator, JoinTerminator
<1>3. CASE StopPeer
  BY <1>3 DEF StopPeer
<1>4. CASE SentinelNext
  BY <1>4 DEF SentinelNext, SentinelReceive, SentinelPublish, SentinelExit, runVars
<1>5. CASE Environment
  BY <1>5 DEF Environment, ContextEnds, PublishOther, runVars
<1>6. CASE Returned \/ UNCHANGED vars
  BY <1>6 DEF Returned, vars, runVars
<1>7. ~CreateConversation /\ ~StartPeer /\ ~StartPeerFails /\ ~StopStarted /\ ~StartTerminator
  BY DEF CreateConversation, StartPeer, StartPeerFails, StopStarted, StartTerminator
<1>8. ~SubscribeControl /\ ~SubscribeControlFails /\ ~LoopHead /\ ~CallDeliver /\ ~DeliverAnswers
  BY DEF SubscribeControl, SubscribeControlFails, LoopHead, CallDeliver, DeliverAnswers,
         DeliverReturns, DeliverInterrupted, DeliverFails
<1>9. ~AppendConversationTurn /\ ~PublishTurn /\ ~RouteTurn /\ ~CheckLimits
  BY DEF AppendConversationTurn, PublishTurn, RouteTurn, CheckLimits
<1>10. ~DrainReceive /\ ~DrainTimeout /\ ~DrainEmpty /\ ~Judge
  BY DEF DrainReceive, DrainTimeout, DrainEmpty, Judge, JudgeWith
<1>11. QED
  BY <1>1, <1>2, <1>3, <1>4, <1>5, <1>6, <1>7, <1>8, <1>9, <1>10 DEF Next, RunNext

\* The steps that decide.
LEMMA WhoDecides ==
  ASSUME pc \notin Over, [Next]_vars, outcome' # outcome
  PROVE  StopStarted \/ LoopHead \/ DeliverAnswers \/ CheckLimits \/ Judge
<1> USE DEF endVars, outside
<1>1. ~CreateConversation /\ ~StartPeer /\ ~StartPeerFails /\ ~StartTerminator
  BY DEF CreateConversation, StartPeer, StartPeerFails, StartTerminator
<1>2. ~SubscribeControl /\ ~CallDeliver
  BY DEF SubscribeControl, CallDeliver
<1>3. ~AppendConversationTurn /\ ~PublishTurn /\ ~RouteTurn
  BY DEF AppendConversationTurn, PublishTurn, RouteTurn
<1>4. ~DrainReceive /\ ~DrainTimeout /\ ~DrainEmpty
  BY DEF DrainReceive, DrainTimeout, DrainEmpty
<1>5. ~Finalize /\ ~CancelControl /\ ~StopTerminator /\ ~JoinTerminator /\ ~StopPeer
  BY DEF Finalize, CancelControl, StopTerminator, JoinTerminator, StopPeer
<1>6. ~SentinelNext /\ ~Environment
  BY DEF SentinelNext, SentinelReceive, SentinelPublish, SentinelExit, Environment, ContextEnds,
         PublishOther, runVars
<1>7. ~Returned /\ ~UNCHANGED vars
  BY DEF Returned, vars, runVars
<1>8. QED
  BY <1>1, <1>2, <1>3, <1>4, <1>5, <1>6, <1>7, NoOthers DEF Next, RunNext

LEMMA GroundsNext ==
  ASSUME IndInv, ChainInv, GroundInv, [Next]_vars PROVE Grounds'
<1> USE DEF Grounds
<1>1. CASE pc \in Over
  <2>1. /\ UNCHANGED <<turns, history, outcome, note>> /\ (CtxDone => CtxDone')
        /\ pc \in {"finalize", "returned"} => peers' = peers
        /\ pc \in {"finalize", "returned"} /\ note = "start" => pc' \in {"finalize", "returned"}
    BY <1>1, OutcomeStays
  <2>2. Grounds
    BY DEF GroundInv
  <2>3. pc \in {"finalize", "returned"} /\ NeverStarted =>
          pc' \in {"finalize", "returned"} /\ NeverStarted'
    BY <2>1 DEF NeverStarted
  <2>4. QED
    BY <2>1, <2>2, <2>3
<1>2. CASE pc \notin Over /\ outcome' = outcome
  <2>1. outcome = "running"
    BY <1>2 DEF IndInv, Phase
  <2>2. QED
    BY <1>2, <2>1
<1>3. CASE pc \notin Over /\ outcome' # outcome
  <2> USE DEF Decide, endVars, turnVars, outside
  <2>1. CASE StopStarted
    <3>1. /\ pc = "rollback" /\ outcome' = "error" /\ note' = "start" /\ pc' = "finalize"
          /\ peers' = peers
      BY <1>3, <2>1 DEF StopStarted
    <3>2. NeverStarted'
      BY <3>1 DEF GroundInv, Untouched, NeverStarted
    <3>3. QED
      BY <3>1, <3>2
  <2>2. CASE LoopHead
    <3>1. CtxDone /\ outcome' = "interrupted" /\ ctx' = ctx
      BY <1>3, <2>2 DEF LoopHead, ctxVars
    <3>2. QED
      BY <3>1 DEF CtxDone
  <2>3. CASE DeliverAnswers
    <3>1. CASE DeliverInterrupted
      <4>1. CtxDone /\ outcome' = "interrupted" /\ ctx' = ctx
        BY <3>1 DEF DeliverInterrupted, ctxVars
      <4>2. QED
        BY <4>1 DEF CtxDone
    <3>2. ASSUME NEW why \in {"exited", "failed"}, DeliverFails(why) PROVE Grounds'
      <4>1. pc = "await" /\ outcome' = "error" /\ UNCHANGED <<turns, history>>
        BY <3>2 DEF DeliverFails
      <4>2. Len(history) = Len(turns) + 1
        BY <4>1 DEF ChainInv, InStep, Delivered
      <4>3. QED
        BY <4>1, <4>2
    <3>3. ASSUME NEW reply \in Replies, DeliverReturns(reply) PROVE outcome' = outcome
      BY <3>3 DEF DeliverReturns
    <3>4. QED
      BY <1>3, <2>3, <3>1, <3>2, <3>3 DEF DeliverAnswers
  <2>4. CASE CheckLimits
    <3>1. pc = "limits" /\ UNCHANGED <<turns, ctx>>
      BY <2>4 DEF CheckLimits, ctxVars
    <3>2. Len(turns) <= MaxTurns /\ Len(turns) \in Nat /\ MaxTurns \in Nat
      BY <3>1, BrokerAssumption DEF IndInv, Phase, TypeInv, TypeOK
    <3>3. CASE outcome' = "max_turns_hit" /\ Len(turns) >= MaxTurns
      BY <3>1, <3>2, <3>3
    <3>4. CASE outcome' = "interrupted" /\ CtxDone
      BY <3>1, <3>4 DEF CtxDone
    <3>5. QED
      BY <1>3, <2>4, <3>3, <3>4 DEF CheckLimits
  <2>5. CASE Judge
    <3>1. /\ pc = "judge" /\ turns' = turns /\ Verdict # 0
          /\ drained[Verdict] = "terminate" => outcome' = "completed_sentinel"
      BY <1>3, <2>5 DEF Judge, JudgeWith
    <3>2. Verdict \in DOMAIN drained
      BY <3>1, VerdictIndex DEF IndInv, TypeInv, TypeOK
    <3>3. drained[Verdict] = "terminate"
      BY <3>2 DEF GroundInv, OnlyTerminate
    <3>4. \E i \in DOMAIN turns : ContainsOnOwnLine(turns[i].reply)
      BY <3>1, <3>2, <3>3 DEF IndInv, Evidence, EndSaid
    <3>5. QED
      BY <3>1, <3>3, <3>4
  <2>6. QED
    BY <1>3, <2>1, <2>2, <2>3, <2>4, <2>5, WhoDecides
<1>4. QED
  BY <1>1, <1>2, <1>3

\* How far the command is, what Run has done by then, and the code it exits
\* with.
ExitInv ==
  /\ cmd = "store" => pc = "create"
  /\ cmd \in {"join", "print"} => pc = "returned"
  /\ cmd # "exit" => code = -1
  /\ cmd = "exit" =>
       \/ pc = "create" /\ code = 1
       \/ pc = "returned" /\ result = "failed" /\ code = 1
       \/ pc = "returned" /\ result = "printed" /\ code = ExitCode(outcome)

LEMMA ExitInit == ConverseInit => ExitInv
  BY DEF ConverseInit, Init, ExitInv

LEMMA ExitStep == StreamInv /\ ExitInv /\ [ConverseNext]_allVars => ExitInv'
<1> SUFFICES ASSUME StreamInv, ExitInv, [ConverseNext]_allVars PROVE ExitInv'
  OBVIOUS
<1> USE DEF ExitInv, StreamInv
<1>1. CASE OpenStore
  BY <1>1 DEF OpenStore, vars, runVars
<1>2. CASE BrokerRuns \/ SentinelRuns \/ Interrupted
  BY <1>2 DEF BrokerRuns, SentinelRuns, Interrupted, cmdVars
<1>3. CASE CloseBus \/ WaitForStream
  BY <1>3 DEF CloseBus, WaitForStream, vars, runVars
<1>4. CASE PrintResult
  <2>1. cmd = "print" /\ cmd' = "exit" /\ pc' = pc /\ outcome' = outcome
    BY <1>4 DEF PrintResult, vars, runVars, endVars
  <2>2. \/ result' = "failed" /\ code' = 1
        \/ result' = "printed" /\ code' = ExitCode(outcome)
    BY <1>4 DEF PrintResult
  <2>3. QED
    BY <2>1, <2>2 DEF ExitCode
<1>5. CASE StreamNext
  BY <1>5 DEF StreamNext, StreamSubscribes, StreamWrites, StreamEnds, vars, runVars, endVars,
              cmdVars, ExitCode
<1>6. CASE Exited \/ UNCHANGED allVars
  BY <1>6 DEF Exited, allVars, vars, runVars, endVars, cmdVars, ExitCode
<1>7. QED
  BY <1>1, <1>2, <1>3, <1>4, <1>5, <1>6 DEF ConverseNext, CommandNext

LEMMA GroundNext == IndInv /\ ChainInv /\ GroundInv /\ [Next]_vars => GroundInv'
  BY OnlyTerminateNext, UntouchedNext, GroundsNext DEF IndInv, GroundInv

\* In the command, whoever the peers are and whatever fails, an exit code of 0
\* means that the sentinel was said, the cap reached or the run interrupted
\* and the result printed, and 1 that something failed (the switch on
\* result.Conversation.Status at the end of ConverseCommand).
THEOREM ConverseExitCodeIsTrue == ConverseSpec => []ExitCodeIsTrue
<1>1. IndInv /\ GroundInv /\ ExitInv => ExitCodeIsTrue
  <2> SUFFICES ASSUME IndInv, GroundInv, ExitInv PROVE ExitCodeIsTrue
    OBVIOUS
  <2>1. Grounds
    BY DEF GroundInv
  <2>2. pc = "returned" => outcome \in Statuses \ {"running", "peer_crashed", "peer_blocked"}
    BY <2>1 DEF IndInv, TypeInv, TypeOK, Phase, Over, Grounds
  <2>3. code \in {0, 1} => cmd = "exit"
    BY DEF ExitInv
  <2>4. ASSUME code = 0
        PROVE  /\ result = "printed"
               /\ outcome \in {"completed_sentinel", "max_turns_hit", "interrupted"}
    BY <2>3, <2>4 DEF ExitInv, ExitCode
  <2>5. ASSUME code = 1
        PROVE  pc = "create" \/ result = "failed" \/ outcome = "error"
    BY <2>2, <2>3, <2>5 DEF ExitInv, ExitCode, Statuses
  <2>6. QED
    BY <2>1, <2>4, <2>5 DEF ExitCodeIsTrue, Grounds, NeverStarted
<1>2. ConverseInit => Init
  BY DEF ConverseInit
<1>3. QED
  BY <1>1, <1>2, StreamInit, StreamStep, ExitInit, ExitStep, GroundInit, GroundNext,
     ConverseImplementsBroker, BrokerStoreFollows, CommandStepIsBrokerStep, PTL DEF ConverseSpec

-----------------------------------------------------------------------------
\* The stream and the store.

\* The indices of the turns in a sequence.
Numbers(s) == { s[i].index : i \in DOMAIN s }

Ascending(s) == \A i, j \in DOMAIN s : i < j => s[i].index < s[j].index

\* Sequence r is f without its n-th element.
Lacks(r, f, n) ==
  /\ n \in DOMAIN f
  /\ Len(f) = Len(r) + 1
  /\ \A i \in 1..Len(r) : r[i] = f[IF i < n THEN i ELSE i + 1]

\* Removing one place of a sequence in ascending order takes its number, and
\* only that one, away.
LEMMA WithoutOne ==
  ASSUME NEW f \in Seq(Turn), NEW r \in Seq(Turn), NEW n, Lacks(r, f, n), Ascending(f)
  PROVE  Ascending(r) /\ Numbers(r) = Numbers(f) \ {f[n].index}
<1>1. /\ Len(r) \in Nat /\ DOMAIN r = 1..Len(r) /\ DOMAIN f = 1..Len(r) + 1 /\ n \in DOMAIN f
      /\ \A i \in DOMAIN f : f[i].index \in Nat
  <2>1. \A i \in DOMAIN f : f[i] \in Turn
    OBVIOUS
  <2>2. \A i \in DOMAIN f : f[i].index \in Nat
    BY ONLY <2>1 DEF Turn
  <2>3. QED
    BY <2>2 DEF Lacks
<1> DEFINE at(i) == IF i < n THEN i ELSE i + 1
<1>2. \A i \in DOMAIN r : at(i) \in DOMAIN f /\ at(i) # n /\ r[i] = f[at(i)]
  BY <1>1 DEF Lacks
<1>3. \A i, j \in DOMAIN r : i < j => at(i) < at(j)
  BY <1>1
<1>4. \A m \in DOMAIN f : m # n => \E i \in DOMAIN r : at(i) = m
  <2> SUFFICES ASSUME NEW m \in DOMAIN f, m # n PROVE \E i \in DOMAIN r : at(i) = m
    OBVIOUS
  <2>1. CASE m < n
    BY <1>1, <2>1
  <2>2. CASE m > n
    <3>1. m - 1 \in DOMAIN r /\ at(m - 1) = m
      BY <1>1, <2>2
    <3>2. QED
      BY <3>1
  <2>3. QED
    BY <1>1, <2>1, <2>2
<1> HIDE DEF at
<1>5. Ascending(r)
  BY <1>2, <1>3 DEF Ascending
<1>6. \A m \in DOMAIN f : m # n => f[m].index # f[n].index
  BY <1>1 DEF Ascending
<1>7. Numbers(r) = Numbers(f) \ {f[n].index}
  <2>1. ASSUME NEW x \in Numbers(r) PROVE x \in Numbers(f) \ {f[n].index}
    <3>1. PICK i \in DOMAIN r : x = r[i].index
      BY DEF Numbers
    <3>2. QED
      BY <1>2, <1>6, <3>1 DEF Numbers
  <2>2. ASSUME NEW x \in Numbers(f), x # f[n].index PROVE x \in Numbers(r)
    <3>1. PICK m \in DOMAIN f : x = f[m].index
      BY DEF Numbers
    <3>2. PICK i \in DOMAIN r : at(i) = m
      BY <1>4, <2>2, <3>1
    <3>3. QED
      BY <1>2, <3>1, <3>2 DEF Numbers
  <2>3. QED
    BY <2>1, <2>2
<1>8. QED
  BY <1>5, <1>7

\* Writing the head of the queue moves it, failing to write it removes it.
LEMMA WriteMoves ==
  ASSUME NEW o \in Seq(Turn), NEW q \in Seq(Turn), q # <<>>
  PROVE  /\ o \o q \in Seq(Turn) /\ o \o Tail(q) \in Seq(Turn)
         /\ Append(o, Head(q)) \o Tail(q) = o \o q
         /\ (o \o q)[Len(o) + 1] = Head(q)
         /\ Lacks(o \o Tail(q), o \o q, Len(o) + 1)
<1>1. Len(o) \in Nat /\ Len(q) \in Nat \ {0} /\ Tail(q) \in Seq(Turn) /\ Head(q) = q[1]
  OBVIOUS
<1>2. Len(Tail(q)) = Len(q) - 1 /\ \A i \in 1..Len(q) - 1 : Tail(q)[i] = q[i + 1]
  OBVIOUS
<1>3. /\ o \o q \in Seq(Turn) /\ Len(o \o q) = Len(o) + Len(q)
      /\ \A i \in 1..Len(o) + Len(q) : (o \o q)[i] = IF i <= Len(o) THEN o[i] ELSE q[i - Len(o)]
  OBVIOUS
<1>4. /\ o \o Tail(q) \in Seq(Turn) /\ Len(o \o Tail(q)) = Len(o) + Len(q) - 1
      /\ \A i \in 1..Len(o) + Len(q) - 1 :
           (o \o Tail(q))[i] = IF i <= Len(o) THEN o[i] ELSE Tail(q)[i - Len(o)]
  BY <1>1, <1>2
<1>5. Append(o, Head(q)) \o Tail(q) = o \o q
  <2> DEFINE p == Append(o, Head(q))
  <2>1. p \in Seq(Turn) /\ Len(p) = Len(o) + 1 /\ p[Len(o) + 1] = q[1]
        /\ \A i \in 1..Len(o) : p[i] = o[i]
    BY <1>1
  <2> HIDE DEF p
  <2>2. /\ p \o Tail(q) \in Seq(Turn) /\ Len(p \o Tail(q)) = Len(o) + Len(q)
        /\ \A i \in 1..Len(o) + Len(q) :
             (p \o Tail(q))[i] = IF i <= Len(p) THEN p[i] ELSE Tail(q)[i - Len(p)]
    <3>1. Len(p) + Len(Tail(q)) = Len(o) + Len(q)
      BY <1>1, <1>2, <2>1
    <3>2. p \in Seq(Turn) /\ Tail(q) \in Seq(Turn)
      BY <1>1, <2>1
    <3>3. /\ p \o Tail(q) \in Seq(Turn) /\ Len(p \o Tail(q)) = Len(p) + Len(Tail(q))
          /\ \A i \in 1..Len(p) + Len(Tail(q)) :
               (p \o Tail(q))[i] = IF i <= Len(p) THEN p[i] ELSE Tail(q)[i - Len(p)]
      BY ONLY <3>2, ConcatProperties, Zenon
    <3>4. QED
      BY ONLY <3>1, <3>3
  <2>3. ASSUME NEW i \in 1..Len(o) + Len(q) PROVE (p \o Tail(q))[i] = (o \o q)[i]
    <3>1. CASE i <= Len(o)
      BY <3>1, <1>1, <1>3, <2>1, <2>2
    <3>2. CASE i = Len(o) + 1
      BY <3>2, <1>1, <1>3, <2>1, <2>2
    <3>3. CASE i > Len(o) + 1
      <4>1. i - Len(p) \in 1..Len(q) - 1 /\ i - Len(p) + 1 = i - Len(o)
        BY <3>3, <1>1, <2>1
      <4>2. QED
        BY <3>3, <4>1, <1>1, <1>2, <1>3, <2>1, <2>2
    <3>4. i <= Len(o) \/ i = Len(o) + 1 \/ i > Len(o) + 1
      BY <1>1
    <3>5. QED
      BY ONLY <3>1, <3>2, <3>3, <3>4, Zenon
  <2>4. p \o Tail(q) = o \o q
    BY <1>3, <2>2, <2>3, SeqEqual
  <2>5. QED
    BY <2>4 DEF p
<1>6. Len(o) + 1 \in DOMAIN (o \o q) /\ (o \o q)[Len(o) + 1] = Head(q)
  BY <1>1, <1>3
<1>7. ASSUME NEW i \in 1..Len(o \o Tail(q))
      PROVE  (o \o Tail(q))[i] = (o \o q)[IF i < Len(o) + 1 THEN i ELSE i + 1]
  <2>1. CASE i <= Len(o)
    BY <2>1, <1>1, <1>3, <1>4
  <2>2. CASE i > Len(o)
    <3>1. i - Len(o) \in 1..Len(q) - 1 /\ (i - Len(o)) + 1 = (i + 1) - Len(o)
      BY <2>2, <1>1, <1>4
    <3>2. i + 1 \in 1..Len(o) + Len(q)
      BY <2>2, <1>1, <1>4
    <3>3. QED
      BY <2>2, <3>1, <3>2, <1>1, <1>2, <1>3, <1>4
  <2>3. QED
    BY <1>1, <1>4, <2>1, <2>2
<1>8. Len(o \o q) = Len(o \o Tail(q)) + 1
  BY <1>1, <1>3, <1>4
<1>9. Lacks(o \o Tail(q), o \o q, Len(o) + 1)
  BY <1>6, <1>7, <1>8 DEF Lacks
<1>10. QED
  BY <1>3, <1>4, <1>5, <1>6, <1>9

\* The stream and its losses account for every turn published since it
\* subscribed, and what it carries is what was captured.
FlowInv ==
  /\ streamSub \in SubscriptionOf(Turn) /\ stdout \in Seq(Turn)
  /\ since \in 0..Len(Published)
  /\ dropped \subseteq 1..Len(Published)
  /\ streamSub.state = "none" => streamSub.queue = <<>> /\ stdout = <<>>
  /\ streamSub.state # "none" => Numbers(Flow) = (since + 1 .. Len(Published)) \ dropped
  /\ Ascending(Flow)
  /\ \A i \in DOMAIN Flow : Unrouted(Flow[i]) /\ Told(Published, Flow[i])

\* The log of published turns only grows where Run publishes.
LEMMA PublishedStays ==
  ASSUME TypeInv, [Next]_vars, ~PublishTurn
  PROVE  /\ Len(Published') = Len(Published)
         /\ \A x \in Turn : Told(Published, x) => Told(Published', x)
<1>1. turns \in Seq(Turn) /\ cur \in Turn
  BY DEF TypeInv, TypeOK
<1>2. CASE RouteTurn
  <2>1. PICK t \in Turn : turns' = Append(turns, t) /\ t.from = cur.from /\ t.reply = cur.reply
    BY <1>2, RouteTurnLog
  <2>2. Published = Append(turns, cur) /\ Published' = Append(turns, t)
    BY <1>2, <2>1 DEF Published, RouteTurn
  <2>3. /\ Len(Published) = Len(turns) + 1 /\ Len(Published') = Len(turns) + 1
        /\ \A i \in 1..Len(turns) + 1 : /\ Published[i].from = Published'[i].from
                                        /\ Published[i].reply = Published'[i].reply
    BY <1>1, <2>1, <2>2, AppendLog
  <2>4. QED
    BY <2>3 DEF Told
<1>3. CASE ~RouteTurn
  <2>1. turns' = turns /\ (pc = "route" <=> pc' = "route") /\ (pc = "route" => cur' = cur)
    <3> USE DEF turnVars, outside
    <3>1. CASE CreateConversation \/ StartPeer \/ StartPeerFails \/ StopStarted \/ StartTerminator
      BY <3>1 DEF CreateConversation, StartPeer, StartPeerFails, StopStarted, StartTerminator, Decide
    <3>2. CASE SubscribeControl \/ LoopHead \/ CallDeliver \/ DeliverAnswers
      BY <3>2 DEF SubscribeControl, LoopHead, CallDeliver, DeliverAnswers, DeliverReturns,
                  DeliverInterrupted, DeliverFails, Decide
    <3>3. CASE AppendConversationTurn \/ CheckLimits
      BY <3>3 DEF AppendConversationTurn, CheckLimits, Decide
    <3>4. CASE DrainReceive \/ DrainTimeout \/ DrainEmpty \/ Judge
      BY <3>4 DEF DrainReceive, DrainTimeout, DrainEmpty, Judge, JudgeWith, Decide
    <3>5. CASE Finalize \/ CancelControl \/ StopTerminator \/ JoinTerminator \/ StopPeer
      BY <3>5 DEF Finalize, CancelControl, StopTerminator, JoinTerminator, StopPeer
    <3>6. CASE SentinelNext
      BY <3>6 DEF SentinelNext, SentinelReceive, SentinelPublish, SentinelExit, runVars
    <3>7. CASE Environment
      BY <3>7 DEF Environment, ContextEnds, PublishOther, runVars
    <3>8. CASE Returned \/ UNCHANGED vars
      BY <3>8 DEF Returned, vars, runVars
    <3>9. QED
      BY <1>3, <3>1, <3>2, <3>3, <3>4, <3>5, <3>6, <3>7, <3>8, NoOthers DEF Next, RunNext
  <2>2. Published' = Published
    BY <2>1 DEF Published
  <2>3. QED
    BY <2>2
<1>4. QED
  BY <1>2, <1>3

\* Steps that leave the stream alone.
LEMMA FlowAside ==
  ASSUME FlowInv, UNCHANGED <<since, dropped, stdout>>, streamSub'.queue = streamSub.queue,
         streamSub' \in SubscriptionOf(Turn),
         streamSub'.state = "none" <=> streamSub.state = "none",
         Len(Published') = Len(Published),
         \A x \in Turn : Told(Published, x) => Told(Published', x)
  PROVE  FlowInv'
<1>1. Flow' = Flow
  BY DEF Flow
<1>2. Flow \in Seq(Turn)
  BY DEF Flow, FlowInv, SubscriptionOf
<1>3. \A i \in DOMAIN Flow : Flow[i] \in Turn
  BY <1>2
<1>4. (\A i \in DOMAIN Flow : Unrouted(Flow[i]) /\ Told(Published, Flow[i]))'
  BY <1>1, <1>3 DEF FlowInv, Unrouted
<1>5. Ascending(Flow)' /\ Numbers(Flow)' = Numbers(Flow)
  BY <1>1 DEF FlowInv, Ascending, Numbers
<1>6. QED
  BY <1>4, <1>5 DEF FlowInv

\* A longer sequence in ascending order.
LEMMA WithOneMore ==
  ASSUME NEW f \in Seq(Turn), NEW t \in Turn, Ascending(f),
         \A i \in DOMAIN f : f[i].index < t.index
  PROVE  Ascending(Append(f, t)) /\ Numbers(Append(f, t)) = Numbers(f) \cup {t.index}
<1> DEFINE g == Append(f, t)
<1>1. /\ Len(f) \in Nat /\ DOMAIN f = 1..Len(f) /\ DOMAIN g = 1..Len(f) + 1 /\ g[Len(f) + 1] = t
      /\ \A i \in DOMAIN f : g[i] = f[i]
  BY AppendLog
<1> HIDE DEF g
<1>2. \A i \in DOMAIN g : i \in DOMAIN f \/ i = Len(f) + 1
  BY <1>1
<1>3. Ascending(g)
  <2> SUFFICES ASSUME NEW i \in DOMAIN g, NEW j \in DOMAIN g, i < j PROVE g[i].index < g[j].index
    BY DEF Ascending
  <2>1. i \in DOMAIN f
    BY <1>1
  <2>2. CASE j \in DOMAIN f
    BY <1>1, <2>1, <2>2 DEF Ascending
  <2>3. CASE j = Len(f) + 1
    BY <1>1, <2>1, <2>3
  <2>4. QED
    BY <1>2, <2>2, <2>3
<1>4. Numbers(g) = Numbers(f) \cup {t.index}
  <2>1. ASSUME NEW x \in Numbers(g) PROVE x \in Numbers(f) \cup {t.index}
    BY <1>1, <1>2 DEF Numbers
  <2>2. ASSUME NEW x \in Numbers(f) PROVE x \in Numbers(g)
    <3>1. PICK i \in DOMAIN f : x = f[i].index
      BY DEF Numbers
    <3>2. i \in DOMAIN g /\ g[i] = f[i]
      BY <1>1
    <3>3. QED
      BY <3>1, <3>2 DEF Numbers
  <2>3. t.index \in Numbers(g)
    <3>1. Len(f) + 1 \in DOMAIN g
      BY <1>1
    <3>2. QED
      BY <1>1, <3>1 DEF Numbers
  <2>4. QED
    BY <2>1, <2>2, <2>3
<1>5. QED
  BY <1>3, <1>4 DEF g

LEMMA PublishKeepsFlow ==
  ASSUME TypeInv, ChainInv, StoreFollows, StreamInv, FlowInv, BrokerRuns, PublishTurn
  PROVE  FlowInv'
<1> DEFINE n == Len(turns)
<1>1. /\ pc = "publish" /\ pc' = "route" /\ UNCHANGED <<turns, cur, since, stdout>>
      /\ streamSub' = Deliver(streamSub, cur)
      /\ dropped' = IF streamSub.state = "open" /\ Full(streamSub)
                    THEN dropped \cup {cur.index} ELSE dropped
  BY DEF PublishTurn, BrokerRuns, turnVars
<1>2. /\ turns \in Seq(Turn) /\ cur \in Turn /\ n \in Nat
      /\ cur.index = n + 1 /\ Unrouted(cur)
  BY <1>1 DEF TypeInv, TypeOK, ChainInv, InStep, StoreFollows, InHand
<1>3. Published = turns /\ Published' = Append(turns, cur) /\ Len(Published') = n + 1
  BY <1>1, <1>2, AppendLog DEF Published
<1>4. /\ streamSub \in SubscriptionOf(Turn) /\ streamSub.queue \in Seq(Turn) /\ stdout \in Seq(Turn)
      /\ Flow \in Seq(Turn)
  BY DEF FlowInv, SubscriptionOf, Flow
<1>5. /\ since \in 0..n /\ dropped \subseteq 1..n /\ Ascending(Flow)
      /\ streamSub.state # "none" => Numbers(Flow) = (since + 1 .. n) \ dropped
  BY <1>3 DEF FlowInv
<1>6. \A i \in DOMAIN Flow :
        /\ Unrouted(Flow[i]) /\ Told(Append(turns, cur), Flow[i])
        /\ Flow[i].index < cur.index
  <2>1. \A i \in DOMAIN Flow : Flow[i] \in Turn /\ Unrouted(Flow[i]) /\ Told(turns, Flow[i])
    BY <1>3, <1>4 DEF FlowInv
  <2>2. \A i \in DOMAIN Flow : Flow[i].index \in 1..n
    BY <2>1 DEF Told
  <2>3. \A i \in DOMAIN Flow : Told(Append(turns, cur), Flow[i])
    BY <1>2, <2>1, ToldStill
  <2>4. QED
    BY <1>2, <2>1, <2>2, <2>3
<1>7. streamSub' \in SubscriptionOf(Turn) /\ streamSub'.state = streamSub.state
  BY <1>1, <1>2, <1>4, DeliverType
<1>8. since' \in 0..n + 1
  BY <1>1, <1>2, <1>5
<1>9. CASE streamSub.state = "open" /\ ~Full(streamSub)
  <2>1. streamSub'.queue = Append(streamSub.queue, cur) /\ dropped' = dropped
    BY <1>1, <1>4, <1>9 DEF Deliver, SubscriptionOf
  <2>2. Flow' = Append(Flow, cur)
    <3>1. stdout \o Append(streamSub.queue, cur) = Append(stdout \o streamSub.queue, cur)
      BY <1>2, <1>4
    <3>2. QED
      BY <1>1, <2>1, <3>1 DEF Flow
  <2>3. Ascending(Flow') /\ Numbers(Flow') = Numbers(Flow) \cup {n + 1}
    BY <1>2, <1>4, <1>5, <1>6, <2>2, WithOneMore
  <2>4. \A i \in DOMAIN Flow' : Unrouted(Flow'[i]) /\ Told(Append(turns, cur), Flow'[i])
    <3>1. Told(Append(turns, cur), cur)
      BY <1>2, ToldStill
    <3>2. \A i \in DOMAIN Flow' : Flow'[i] = cur \/ (i \in DOMAIN Flow /\ Flow'[i] = Flow[i])
      BY <1>2, <1>4, <2>2
    <3>3. QED
      BY <1>2, <1>6, <3>1, <3>2
  <2>5. Numbers(Flow') = (since + 1 .. n + 1) \ dropped
    BY <1>2, <1>5, <1>9, <2>3
  <2>6. dropped' \subseteq 1..n + 1
    BY <1>2, <1>5, <2>1
  <2>7. QED
    BY <1>1, <1>3, <1>4, <1>7, <1>8, <1>9, <2>1, <2>3, <2>4, <2>5, <2>6
       DEF FlowInv, Ascending, Numbers, Unrouted
<1>10. CASE ~(streamSub.state = "open" /\ ~Full(streamSub))
  <2>1. streamSub' = streamSub /\ Flow' = Flow
    BY <1>1, <1>10 DEF Deliver, Flow
  <2>2. dropped' \subseteq 1..n + 1
    <3>1. n + 1 \in 1..n + 1 /\ \A x \in 1..n : x \in 1..n + 1
      BY <1>2
    <3>2. dropped' \subseteq dropped \cup {n + 1}
      BY <1>1, <1>2
    <3>3. QED
      BY <1>5, <3>1, <3>2
  <2>3. streamSub.state # "none" => streamSub.state = "open"
    BY <1>4 DEF BrokerRuns, StreamInv, SubscriptionOf
  <2>4. streamSub.state # "none" => Numbers(Flow) = (since + 1 .. n + 1) \ dropped'
    BY <1>1, <1>2, <1>5, <1>10, <2>3
  <2>5. (\A i \in DOMAIN Flow : Unrouted(Flow[i]) /\ Told(Published, Flow[i]))'
    BY <1>3, <1>6, <2>1 DEF Unrouted
  <2>6. Ascending(Flow)' /\ Numbers(Flow)' = Numbers(Flow)
    BY <1>5, <2>1 DEF Ascending, Numbers
  <2>7. (streamSub.state = "none" => streamSub.queue = <<>> /\ stdout = <<>>)'
    BY <1>1, <2>1 DEF FlowInv
  <2>8. (streamSub.state # "none" => Numbers(Flow) = (since + 1 .. Len(Published)) \ dropped)'
    BY <1>1, <1>3, <2>1, <2>4, <2>6
  <2>9. streamSub' \in SubscriptionOf(Turn) /\ stdout' \in Seq(Turn)
    BY <1>1, <1>4, <1>7
  <2>10. (since \in 0..Len(Published) /\ dropped \subseteq 1..Len(Published))'
    BY <1>3, <1>8, <2>2
  <2>11. QED
    BY <2>5, <2>6, <2>7, <2>8, <2>9, <2>10 DEF FlowInv
<1>11. QED
  BY <1>9, <1>10

LEMMA WriteKeepsFlow ==
  ASSUME FlowInv, StreamWrites, TypeInv PROVE FlowInv'
<1> DEFINE q == streamSub.queue
           o == stdout
<1>1. /\ q # <<>> /\ streamSub' = Received(streamSub) /\ UNCHANGED <<since, pc, turns, cur>>
      /\ \/ dropped' = dropped \cup {Head(q).index} /\ stdout' = o
         \/ stdout' = Append(o, Head(q)) /\ dropped' = dropped
  BY DEF StreamWrites, CanReceive, vars, runVars, turnVars
<1>2. q \in Seq(Turn) /\ o \in Seq(Turn) /\ Head(q) \in Turn /\ streamSub \in SubscriptionOf(Turn)
  BY <1>1 DEF FlowInv, SubscriptionOf
<1>3. /\ streamSub' \in SubscriptionOf(Turn) /\ streamSub'.state = streamSub.state
      /\ streamSub'.queue = Tail(q)
  BY <1>1, <1>2, ReceivedType DEF Received, CanReceive, SubscriptionOf
<1>4. Published' = Published
  BY <1>1 DEF Published
<1>5. streamSub.state # "none"
  BY <1>1 DEF FlowInv
<1>6. Flow = o \o q
  BY DEF Flow
<1> HIDE DEF q, o
<1>7. CASE stdout' = Append(o, Head(q)) /\ dropped' = dropped
  <2>1. Append(o, Head(q)) \o Tail(q) = o \o q
    BY ONLY <1>1, <1>2, WriteMoves
  <2>2. Flow' = Flow
    BY <1>3, <1>6, <1>7, <2>1 DEF Flow
  <2>3. stdout' \in Seq(Turn)
    BY <1>2, <1>7
  <2>4. QED
    BY <1>1, <1>3, <1>4, <1>5, <1>7, <2>2, <2>3 DEF FlowInv, Ascending, Numbers, Unrouted, Told
<1>8. CASE dropped' = dropped \cup {Head(q).index} /\ stdout' = o
  <2> DEFINE r == o \o Tail(q)
             f == o \o q
             m == Len(o) + 1
  <2>1. r \in Seq(Turn) /\ f \in Seq(Turn) /\ f[m] = Head(q) /\ Lacks(r, f, m)
    BY ONLY <1>1, <1>2, WriteMoves
  <2>2. Flow' = r /\ Flow = f
    BY <1>3, <1>6, <1>8 DEF Flow
  <2> HIDE DEF r, f, m
  <2>3. Ascending(f) /\ \A i \in DOMAIN f : Unrouted(f[i]) /\ Told(Published, f[i])
    BY <2>2 DEF FlowInv
  <2>4. Ascending(r) /\ Numbers(r) = Numbers(f) \ {Head(q).index}
    <3>1. Ascending(r) /\ Numbers(r) = Numbers(f) \ {f[m].index}
      BY ONLY <2>1, <2>3, WithoutOne
    <3>2. QED
      BY ONLY <2>1, <3>1
  <2>5. \A i \in DOMAIN r : \E j \in DOMAIN f : r[i] = f[j]
    <3>1. DOMAIN r = 1..Len(r) /\ DOMAIN f = 1..Len(f) /\ Len(r) \in Nat
      BY ONLY <2>1
    <3>2. QED
      BY ONLY <2>1, <3>1 DEF Lacks
  <2>6. \A i \in DOMAIN r : Unrouted(r[i]) /\ Told(Published, r[i])
    BY <2>3, <2>5
  <2>7. Head(q).index \in 1..Len(Published)
    BY <2>1, <2>3 DEF Lacks, Told
  <2>8. Numbers(r) = (since + 1 .. Len(Published)) \ dropped'
    BY <1>5, <1>8, <2>2, <2>4 DEF FlowInv
  <2>9. dropped' \subseteq 1..Len(Published)
    BY <1>8, <2>7 DEF FlowInv
  <2>10. (\A i \in DOMAIN Flow : Unrouted(Flow[i]) /\ Told(Published, Flow[i]))'
    BY <1>4, <2>2, <2>6 DEF Unrouted
  <2>11. Ascending(Flow)' /\ Numbers(Flow)' = Numbers(r)
    BY <2>2, <2>4 DEF Ascending, Numbers
  <2>12. /\ streamSub' \in SubscriptionOf(Turn) /\ stdout' \in Seq(Turn)
         /\ since' \in 0..Len(Published)
    BY <1>1, <1>2, <1>3, <1>8 DEF FlowInv
  <2>13. QED
    BY <1>1, <1>3, <1>4, <1>5, <2>8, <2>9, <2>10, <2>11, <2>12 DEF FlowInv
<1>9. QED
  BY <1>1, <1>7, <1>8 DEF q, o

LEMMA FlowInit == ConverseInit => FlowInv
<1> SUFFICES ASSUME ConverseInit PROVE FlowInv
  OBVIOUS
<1>1. /\ streamSub = NoSubscription /\ since = 0 /\ dropped = {} /\ stdout = <<>>
      /\ turns = <<>> /\ pc = "create"
  BY DEF ConverseInit, Init
<1>2. streamSub.queue = <<>> /\ streamSub.state = "none"
  BY <1>1 DEF NoSubscription
<1>3. Flow = <<>> /\ DOMAIN Flow = {}
  <2>1. <<>> \o <<>> = <<>>
    BY EmptyLog
  <2>2. QED
    BY <1>1, <1>2, <2>1, EmptyLog DEF Flow
<1>4. Len(Published) = 0
  BY <1>1, EmptyLog DEF Published
<1>5. stdout \in Seq(Turn) /\ streamSub \in SubscriptionOf(Turn)
  BY <1>1, EmptyLog, FreshType
<1>6. QED
  BY <1>1, <1>2, <1>3, <1>4, <1>5 DEF FlowInv, Ascending

LEMMA SubscribeKeepsFlow ==
  ASSUME TypeInv, StreamInv, FlowInv, StreamSubscribes PROVE FlowInv'
<1>1. UNCHANGED <<dropped, stdout, pc, turns, cur>>
  BY DEF StreamSubscribes, vars, runVars, turnVars
<1>2. Published' = Published
  BY <1>1 DEF Published
<1>3. CASE UNCHANGED <<streamSub, since>>
  BY <1>1, <1>2, <1>3, FlowAside DEF FlowInv
<1>4. CASE streamSub' = NewSubscription /\ since' = Len(Published)
  <2>1. streamSub.state = "none" /\ stdout = <<>>
    BY DEF StreamSubscribes, StreamInv, FlowInv, NoSubscription
  <2>2. streamSub'.queue = <<>> /\ streamSub'.state = "open" /\ stdout' = <<>>
    BY <1>1, <1>4, <2>1 DEF NewSubscription
  <2>3. Flow' = <<>> /\ DOMAIN Flow' = {}
    <3>1. <<>> \o <<>> = <<>>
      BY EmptyLog
    <3>2. QED
      BY <2>2, <3>1, EmptyLog DEF Flow
  <2>4. Len(Published) \in Nat
    BY DEF Published, TypeInv, TypeOK
  <2>5. Numbers(Flow') = {} /\ Ascending(Flow')
    BY <2>3 DEF Numbers, Ascending
  <2>6. Len(Published) + 1 .. Len(Published) = {}
    BY <2>4
  <2>7. streamSub' \in SubscriptionOf(Turn) /\ stdout' \in Seq(Turn)
    BY <1>1, <1>4, FreshType DEF FlowInv
  <2>8. (since \in 0..Len(Published) /\ dropped \subseteq 1..Len(Published))'
    BY <1>1, <1>2, <1>4, <2>4 DEF FlowInv
  <2>9. (Numbers(Flow) = (since + 1 .. Len(Published)) \ dropped)'
    BY <1>2, <1>4, <2>5, <2>6 DEF Numbers
  <2>10. QED
    BY <2>2, <2>3, <2>5, <2>7, <2>8, <2>9 DEF FlowInv, Ascending
<1>5. QED
  BY <1>3, <1>4 DEF StreamSubscribes

LEMMA FlowStep ==
  IndInv /\ ChainInv /\ StoreFollows /\ StreamInv /\ FlowInv /\ [ConverseNext]_allVars => FlowInv'
<1> SUFFICES ASSUME IndInv, ChainInv, StoreFollows, StreamInv, FlowInv, [ConverseNext]_allVars
             PROVE  FlowInv'
  OBVIOUS
<1>1. TypeInv /\ streamSub \in SubscriptionOf(Turn)
  BY DEF IndInv, FlowInv
<1>2. ASSUME ~PublishTurn, UNCHANGED <<since, dropped, stdout>>,
             streamSub' = streamSub \/ streamSub' = CloseSubscription(streamSub)
      PROVE  FlowInv'
  <2>1. [Next]_vars
    BY CommandStepIsBrokerStep
  <2>2. /\ Len(Published') = Len(Published)
        /\ \A x \in Turn : Told(Published, x) => Told(Published', x)
    BY <1>1, <1>2, <2>1, PublishedStays
  <2>3. /\ streamSub' \in SubscriptionOf(Turn) /\ streamSub'.queue = streamSub.queue
        /\ streamSub'.state = "none" <=> streamSub.state = "none"
    BY <1>1, <1>2, CloseType DEF CloseSubscription, SubscriptionOf
  <2>4. QED
    BY <1>2, <2>2, <2>3, FlowAside
<1>3. UNCHANGED vars => ~PublishTurn
  BY DEF vars, runVars, PublishTurn
<1>4. CASE BrokerRuns
  <2>1. CASE PublishTurn
    BY <1>1, <1>4, <2>1, PublishKeepsFlow
  <2>2. CASE ~PublishTurn
    <3>1. pc # "publish"
      <4> SUFFICES ASSUME pc = "publish" PROVE FALSE
        OBVIOUS
      <4>1. RunNext
        BY <1>4 DEF BrokerRuns
      <4>2. ~CreateConversation /\ ~StartPeer /\ ~StartPeerFails /\ ~StopStarted
            /\ ~StartTerminator /\ ~SubscribeControl /\ ~SubscribeControlFails
        BY DEF CreateConversation, StartPeer, StartPeerFails, StopStarted, StartTerminator,
               SubscribeControl, SubscribeControlFails
      <4>3. ~LoopHead /\ ~CallDeliver /\ ~DeliverAnswers /\ ~AppendConversationTurn /\ ~RouteTurn
            /\ ~CheckLimits
        BY DEF LoopHead, CallDeliver, DeliverAnswers, DeliverReturns, DeliverInterrupted,
               DeliverFails, AppendConversationTurn, RouteTurn, CheckLimits
      <4>4. ~DrainReceive /\ ~DrainTimeout /\ ~DrainEmpty /\ ~Judge /\ ~Finalize /\ ~CancelControl
            /\ ~StopTerminator /\ ~JoinTerminator /\ ~StopPeer
        BY DEF DrainReceive, DrainTimeout, DrainEmpty, Judge, JudgeWith, Finalize, CancelControl,
               StopTerminator, JoinTerminator, StopPeer
      <4>5. QED
        BY <2>2, <4>1, <4>2, <4>3, <4>4 DEF RunNext
    <3>2. QED
      BY <1>2, <1>4, <2>2, <3>1 DEF BrokerRuns
  <2>3. QED
    BY <2>1, <2>2
<1>5. CASE SentinelRuns
  <2>1. ~PublishTurn
    BY <1>5 DEF SentinelRuns, SentinelNext, SentinelReceive, SentinelPublish, SentinelExit,
                runVars, PublishTurn
  <2>2. QED
    BY <1>2, <1>5, <2>1 DEF SentinelRuns, streamVars
<1>6. CASE Interrupted
  <2>1. ~PublishTurn
    BY <1>6 DEF Interrupted, Environment, ContextEnds, PublishOther, runVars, PublishTurn
  <2>2. QED
    BY <1>2, <1>6, <2>1 DEF Interrupted, streamVars
<1>7. CASE OpenStore \/ CloseBus \/ WaitForStream \/ PrintResult
  BY <1>2, <1>3, <1>7 DEF OpenStore, CloseBus, WaitForStream, PrintResult, streamVars
<1>8. CASE StreamSubscribes
  BY <1>1, <1>8, SubscribeKeepsFlow
<1>9. CASE StreamWrites
  BY <1>1, <1>9, WriteKeepsFlow
<1>10. CASE StreamEnds
  BY <1>2, <1>3, <1>10 DEF StreamEnds
<1>11. CASE Exited \/ UNCHANGED allVars
  BY <1>2, <1>3, <1>11 DEF Exited, allVars, streamVars
<1>12. QED
  BY <1>4, <1>5, <1>6, <1>7, <1>8, <1>9, <1>10, <1>11 DEF ConverseNext, CommandNext, StreamNext

\* Two unrouted turns of one number that tell what one log tells are the same.
LEMMA SameTurn ==
  ASSUME NEW log, NEW s \in Turn, NEW t \in Turn, Unrouted(s), Unrouted(t),
         Told(log, s), Told(log, t), s.index = t.index
  PROVE  s = t
<1>1. /\ s.from = t.from /\ s.reply = t.reply /\ s.to = t.to /\ s.parsed = t.parsed
      /\ s.fallback = t.fallback /\ s.reason = t.reason
  BY DEF Unrouted, Told
<1>2. QED
  BY <1>1 DEF Turn

\* What is published is captured.
LEMMA PublishedIsCaptured ==
  ASSUME TypeInv, NEW t \in Turn, Told(Published, t) PROVE Told(Captured, t)
<1>1. turns \in Seq(Turn) /\ cur \in Turn
  BY DEF TypeInv, TypeOK
<1>2. Captured = Published \/ (Published = turns /\ Captured = Append(turns, cur))
  BY DEF Captured, Published
<1>3. Told(turns, t) => Told(Append(turns, cur), t)
  BY <1>1, ToldStill
<1>4. QED
  BY <1>2, <1>3

\* For every number of peers, replies, turns and every buffer size, the stream
\* carries each turn published since it subscribed exactly once, in order, but
\* for the ones counted as lost, and no turn on it differs from the stored one
\* (streamTurnsTo, publishTurn, AppendConversationTurn).
THEOREM ConverseStreamAgreesWithStore == ConverseSpec => []StreamAgreesWithStore
<1>1. IndInv /\ StoreFollows /\ FlowInv => StreamAgreesWithStore
  <2> SUFFICES ASSUME TypeInv, StoreFollows, FlowInv PROVE StreamAgreesWithStore
    BY DEF IndInv
  <2>1. Flow \in Seq(Turn) /\ disk.turns \in Seq(Turn)
    BY DEF Flow, FlowInv, SubscriptionOf, TypeInv, TypeOK, Recorded
  <2>2. ASSUME NEW i \in DOMAIN Flow, NEW j \in DOMAIN disk.turns,
               Flow[i].index = disk.turns[j].index
        PROVE  Flow[i] = disk.turns[j]
    <3>1. Flow[i] \in Turn /\ disk.turns[j] \in Turn
      BY <2>1
    <3>2. Unrouted(Flow[i]) /\ Told(Captured, Flow[i])
      BY <3>1, PublishedIsCaptured DEF FlowInv
    <3>3. Unrouted(disk.turns[j]) /\ Told(Captured, disk.turns[j])
      BY DEF StoreFollows
    <3>4. QED
      BY ONLY <2>2, <3>1, <3>2, <3>3, SameTurn
  <2>3. QED
    BY <2>2 DEF StreamAgreesWithStore, FlowInv, Ascending, Numbers
<1>2. QED
  BY <1>1, FlowInit, FlowStep, StreamInit, StreamStep, ConverseImplementsBroker,
     BrokerStoreFollows, PTL DEF ConverseSpec

----------------------------------------------------------------------------
(* The command line and the conversation built from it (module PeerFlags).  *)
(* The conversation is never touched after Submit, so the inductive         *)
(* invariant says what it is, from the command line, and which part of it   *)
(* has been started.                                                        *)

AfterSubmit == {"accepted", "failed", "open"}

\* The configuration of the N-peer path.
ConfigOf(line) == parseNPeerSpecs(line.flags, line.seed, line.opener)

\* The conversation Submit makes of a command line it accepts.
BuiltFrom(line, c) ==
  IF line.flags = <<>>
  THEN LegacyValid(line) /\ c = LegacyConversation(line)
  ELSE NPeerValid(line, ConfigOf(line)) /\ c = NPeerConversation(line, ConfigOf(line))

\* The peers have been started in their order, each from its own entry.
StartedFrom(entries, started) ==
  \E n \in 0..Len(entries) : started = [i \in 1..n |-> buildPersistentSpawnSpec(entries[i])]

FlagsInv ==
  /\ Parsed(args)
  /\ stage \in {"typing", "refused"} \cup AfterSubmit
  /\ stage \notin AfterSubmit => spawned = <<>>
  /\ stage \in AfterSubmit => BuiltFrom(args, conv) /\ StartedFrom(conv.peers, spawned)

\* A command line the command accepts has room for a turn, and time.
LEMMA KnobsGiveTime ==
  ASSUME NEW line, Parsed(line), KnobsValid(line)
  PROVE  line.maxTurns >= 1 /\ (line.overall >= 0 => Budget(line) > 0)
<1>1. /\ line.maxTurns \in Int /\ line.maxTurns >= 1
      /\ line.perTurn \in Int /\ line.perTurn >= 1
      /\ line.overall \in Int
  BY DEF Parsed, KnobsValid
<1>2. line.maxTurns * line.perTurn > 0
  <2>1. ASSUME NEW x \in Int, NEW y \in Int, x >= 1, y >= 1 PROVE x * y > 0
    BY <2>1
  <2>2. \A x, y \in Int : x >= 1 /\ y >= 1 => x * y > 0
    BY <2>1
  <2> QED BY ONLY <1>1, <2>2, Zenon
<1>3. Budget(line) = line.maxTurns * line.perTurn
      \/ (Budget(line) = line.overall /\ line.overall # 0)
  BY Zenon DEF Budget
<1> QED BY <1>1, <1>2, <1>3

\* The declarations are as many as the flags.
LEMMA DeclaredAre ==
  ASSUME NEW line, Parsed(line)
  PROVE  LET decls == ConfigOf(line).peers
         IN  /\ DOMAIN decls = 1..Len(line.flags)
             /\ Len(decls) = Len(line.flags)
             /\ Len(line.flags) \in Nat
             /\ \A i \in 1..Len(line.flags) :
                  /\ decls[i].ok => /\ ValidID(decls[i].id)
                                    /\ decls[i].provider # Empty
                  /\ decls[i].id = Value(parseKeyValueList(line.flags[i]).pairs, "id")
                  /\ decls[i].options =
                       [key \in OptionKeys |-> Value(parseKeyValueList(line.flags[i]).pairs, key)]
<1> DEFINE n == Len(line.flags)
           f(i) == [parsePeerSpec(line.flags[i]) EXCEPT !.seed = FirstNonEmpty(@, line.seed)]
<1>1. n \in Nat /\ DOMAIN line.flags = 1..n
  BY DEF Parsed
<1>2. ConfigOf(line).peers = [i \in 1..n |-> f(i)]
  BY <1>1 DEF ConfigOf, parseNPeerSpecs, NPeerConfig, Declared
<1> HIDE DEF f
<1>3. /\ Len([i \in 1..n |-> f(i)]) = n
      /\ DOMAIN [i \in 1..n |-> f(i)] = 1..n
  BY <1>1
<1> USE DEF f
<1>4. ASSUME NEW i \in 1..n
      PROVE  /\ f(i).ok => ValidID(f(i).id) /\ f(i).provider # Empty
             /\ f(i).id = Value(parseKeyValueList(line.flags[i]).pairs, "id")
             /\ f(i).options =
                  [key \in OptionKeys |-> Value(parseKeyValueList(line.flags[i]).pairs, key)]
  BY DEF parsePeerSpec, Declaration
<1> HIDE DEF f
<1> QED BY <1>1, <1>2, <1>3, <1>4

\* What a conversation built from a command line is.
LEMMA BuiltMeetsBroker ==
  ASSUME NEW line, Parsed(line), NEW c, BuiltFrom(line, c)
  PROVE  /\ Len(c.peers) \in 2..MaxNPeers
         /\ DOMAIN c.peers = 1..Len(c.peers)
         /\ \A i, j \in DOMAIN c.peers : c.peers[i].id = c.peers[j].id => i = j
         /\ \A i \in DOMAIN c.peers :
              /\ ValidID(c.peers[i].id)
              /\ c.peers[i].provider # Empty
              /\ c.seeds[c.peers[i].id] # Empty
         /\ c.opener \in { c.peers[i].id : i \in DOMAIN c.peers }
         /\ line.maxTurns >= 1
         /\ line.overall >= 0 => c.budget > 0
<1>1. CASE line.flags = <<>>
  <2>1. LegacyValid(line) /\ c = LegacyConversation(line)
    BY <1>1 DEF BuiltFrom
  <2>2. line.maxTurns >= 1 /\ (line.overall >= 0 => c.budget > 0)
    BY <2>1, KnobsGiveTime DEF LegacyValid, LegacyConversation
  <2>3. /\ Len(c.peers) = 2 /\ DOMAIN c.peers = 1..2
        /\ c.peers[1].id = <<"a">> /\ c.peers[2].id = <<"b">>
        /\ c.peers[1].provider = line.peerA /\ c.peers[2].provider = line.peerB
    BY <2>1 DEF LegacyConversation, Participant
  <2>4. <<"a">> # <<"b">>
    OBVIOUS
  <2>5. ValidID(<<"a">>) /\ ValidID(<<"b">>)
    BY DEF ValidID, Lowercase, Empty
  <2>6. c.seeds[<<"a">>] # Empty /\ c.seeds[<<"b">>] # Empty
    BY <2>1, <2>4 DEF LegacyConversation, LegacyValid, FirstNonEmpty
  <2>7. c.opener \in {<<"a">>, <<"b">>}
    BY <2>1 DEF LegacyConversation, LegacyValid
  <2>8. Len(c.peers) \in 2..MaxNPeers
    BY <2>3, FlagsAssumption
  <2>9. line.peerA # Empty /\ line.peerB # Empty
    BY <2>1 DEF LegacyValid
  <2>10. \A i \in DOMAIN c.peers : i = 1 \/ i = 2
    BY <2>3
  <2>11. 1 \in DOMAIN c.peers /\ 2 \in DOMAIN c.peers
    BY <2>3
  <2>12. \A i, j \in DOMAIN c.peers : c.peers[i].id = c.peers[j].id => i = j
    BY <2>3, <2>4, <2>10
  <2>13. \A i \in DOMAIN c.peers : /\ ValidID(c.peers[i].id)
                                   /\ c.peers[i].provider # Empty
                                   /\ c.seeds[c.peers[i].id] # Empty
    BY <2>3, <2>5, <2>6, <2>9, <2>10
  <2>14. c.opener \in { c.peers[i].id : i \in DOMAIN c.peers }
    BY <2>3, <2>7, <2>11
  <2> QED BY <2>2, <2>3, <2>8, <2>12, <2>13, <2>14
<1>2. CASE line.flags # <<>>
  <2> DEFINE decls == ConfigOf(line).peers
             n == Len(line.flags)
  <2>1. NPeerValid(line, ConfigOf(line)) /\ c = NPeerConversation(line, ConfigOf(line))
    BY <1>2 DEF BuiltFrom
  <2>2. line.maxTurns >= 1 /\ (line.overall >= 0 => c.budget > 0)
    BY <2>1, KnobsGiveTime DEF NPeerValid, NPeerConversation
  <2>3. /\ DOMAIN decls = 1..n /\ Len(decls) = n /\ n \in Nat
        /\ \A i \in 1..n : decls[i].ok => ValidID(decls[i].id) /\ decls[i].provider # Empty
    BY DeclaredAre
  <2>4. /\ Len(decls) \in 2..MaxNPeers
        /\ \A i \in DOMAIN decls : decls[i].ok /\ decls[i].seed # Empty
        /\ \A i, j \in DOMAIN decls : decls[i].id = decls[j].id => i = j
        /\ line.opener \in NoOpener \/ line.opener \in Ids(decls)
        /\ c.opener = IF line.opener \in NoOpener /\ decls # <<>> THEN decls[1].id ELSE line.opener
    BY <2>1 DEF NPeerValid, NPeerConversation, ConfigOf, parseNPeerSpecs, NPeerConfig,
                Complete, DistinctIds
  <2>5. c.peers = [i \in DOMAIN decls |->
                     Participant(decls[i].id, decls[i].provider, decls[i].options, line)]
    BY <2>1 DEF NPeerConversation
  <2>6. c.seeds = [id \in Ids(decls) |-> decls[CHOOSE i \in DOMAIN decls : decls[i].id = id].seed]
    BY <2>1 DEF NPeerConversation
  <2> HIDE DEF decls
  <2>7. /\ DOMAIN c.peers = 1..n /\ Len(c.peers) = n
        /\ \A i \in 1..n : c.peers[i].id = decls[i].id /\ c.peers[i].provider = decls[i].provider
    <3> DEFINE f(i) == Participant(decls[i].id, decls[i].provider, decls[i].options, line)
    <3>1. \A i \in 1..n : f(i).id = decls[i].id /\ f(i).provider = decls[i].provider
      BY DEF Participant
    <3>2. c.peers = [i \in 1..n |-> f(i)]
      BY <2>3, <2>5
    <3> HIDE DEF f
    <3> QED BY <3>1, <3>2, <2>3
  <2>8. ASSUME NEW i \in 1..n PROVE c.seeds[decls[i].id] # Empty
    <3>1. PICK j \in DOMAIN decls : j = CHOOSE m \in DOMAIN decls : decls[m].id = decls[i].id
      BY <2>3
    <3>2. decls[i].id \in Ids(decls)
      BY <2>3 DEF Ids
    <3>3. c.seeds[decls[i].id] = decls[j].seed
      BY <2>6, <3>1, <3>2
    <3> QED BY <3>3, <2>4
  <2>9. decls # <<>> /\ 1 \in DOMAIN decls
    BY <2>3, <2>4
  <2>10. c.opener \in Ids(decls)
    BY <2>4, <2>9 DEF Ids
  <2>11. Ids(decls) = { c.peers[i].id : i \in DOMAIN c.peers }
    BY <2>3, <2>7 DEF Ids
  <2>12. \A i, j \in DOMAIN c.peers : c.peers[i].id = c.peers[j].id => i = j
    BY <2>3, <2>4, <2>7
  <2>13. \A i \in DOMAIN c.peers : /\ ValidID(c.peers[i].id)
                                   /\ c.peers[i].provider # Empty
                                   /\ c.seeds[c.peers[i].id] # Empty
    BY <2>3, <2>4, <2>7, <2>8
  <2> QED BY <2>2, <2>3, <2>4, <2>7, <2>10, <2>11, <2>12, <2>13
<1> QED BY <1>1, <1>2

\* Typing changes the last flag only.
LEMMA TypeKeepsParsed ==
  ASSUME NEW line, Parsed(line), NEW t \in STRING
  PROVE  Parsed([line EXCEPT !.flags[Len(line.flags)] = Append(@, t)])
<1> DEFINE next == [line EXCEPT !.flags[Len(line.flags)] = Append(@, t)]
           flags == [line.flags EXCEPT ![Len(line.flags)] = Append(@, t)]
<1>1. flags \in Seq(Tokens)
  <2>1. line.flags \in Seq(Tokens)
    BY DEF Parsed
  <2>2. CASE Len(line.flags) = 0
    <3>1. line.flags \in [{} -> Tokens] /\ 0 \notin {}
      BY <2>1, <2>2
    <3>2. flags = line.flags
      BY <3>1, <2>2
    <3> QED BY <2>1, <3>2
  <2>3. CASE Len(line.flags) # 0
    <3>1. Len(line.flags) \in 1..Len(line.flags)
      BY <2>1, <2>3
    <3>2. Append(line.flags[Len(line.flags)], t) \in Tokens
      BY <2>1, <3>1 DEF Tokens
    <3> QED BY <2>1, <3>1, <3>2, ExceptSeq
  <2> QED BY <2>2, <2>3
<1>2. /\ DOMAIN next = DOMAIN line /\ next.flags = flags
      /\ next.optionsA = line.optionsA /\ next.optionsB = line.optionsB
      /\ next.maxTurns = line.maxTurns /\ next.perTurn = line.perTurn
      /\ next.overall = line.overall
  BY DEF Parsed
<1> QED BY ONLY <1>1, <1>2, Parsed(line) DEF Parsed

\* One more peer started.
LEMMA StartedOneMore ==
  ASSUME NEW entries, Len(entries) \in Nat, NEW started, StartedFrom(entries, started)
  PROVE  /\ Len(started) \in 0..Len(entries)
         /\ Len(started) < Len(entries) =>
              StartedFrom(entries, Append(started, buildPersistentSpawnSpec(entries[Len(started) + 1])))
<1> DEFINE f(i) == buildPersistentSpawnSpec(entries[i])
<1>1. PICK n \in 0..Len(entries) : started = [i \in 1..n |-> f(i)]
  BY DEF StartedFrom
<1> HIDE DEF f
<1>2. Len(started) = n /\ started \in Seq({f(i) : i \in 1..n})
  BY <1>1
<1>3. Append(started, f(n + 1)) = [i \in 1..(n + 1) |-> f(i)]
  BY <1>1, <1>2
<1>4. ASSUME n < Len(entries) PROVE StartedFrom(entries, Append(started, f(n + 1)))
  <2>1. n + 1 \in 0..Len(entries)
    BY <1>4
  <2> QED BY <2>1, <1>3 DEF StartedFrom, f
<1> QED BY <1>2, <1>4 DEF f

\* The invariant holds when the command line is given, and every step keeps it.
LEMMA FlagsInvHolds == FlagsSpec => []FlagsInv
<1>1. FlagsInit => FlagsInv
  BY FlagsAssumption DEF FlagsInit, FlagsInv, AfterSubmit
<1>2. FlagsInv /\ [FlagsNext]_flagVars => FlagsInv'
  <2> SUFFICES ASSUME FlagsInv, [FlagsNext]_flagVars PROVE FlagsInv'
    OBVIOUS
  <2>1. ASSUME NEW t \in Typed, Type(t) PROVE FlagsInv'
    <3>1. Parsed(args')
      BY <2>1, TypeKeepsParsed, FlagsAssumption DEF Type, FlagsInv
    <3> QED BY <3>1, <2>1 DEF Type, FlagsInv, AfterSubmit
  <2>2. CASE Submit
    <3>1. args' = args /\ spawned' = spawned /\ spawned = <<>> /\ Parsed(args)
      BY <2>2 DEF Submit, FlagsInv, AfterSubmit
    <3>2. \/ stage' = "refused"
          \/ stage' = "accepted" /\ BuiltFrom(args, conv')
      BY <2>2 DEF Submit, BuiltFrom, ConfigOf
    <3>3. ASSUME stage' = "accepted", BuiltFrom(args, conv') PROVE StartedFrom(conv'.peers, <<>>)
      <4> DEFINE f(i) == buildPersistentSpawnSpec(conv'.peers[i])
      <4>1. Len(conv'.peers) \in 2..MaxNPeers
        BY <3>1, <3>3, BuiltMeetsBroker
      <4>2. 0 \in 0..Len(conv'.peers)
        BY <4>1, FlagsAssumption
      <4> HIDE DEF f
      <4>3. <<>> = [i \in 1..0 |-> f(i)]
        OBVIOUS
      <4> QED BY <4>2, <4>3 DEF StartedFrom, f
    <3> QED BY <3>1, <3>2, <3>3 DEF FlagsInv, AfterSubmit
  <2>3. CASE SpawnPeer
    <3>1. /\ stage = "accepted" /\ args' = args /\ conv' = conv
          /\ Parsed(args) /\ BuiltFrom(args, conv) /\ StartedFrom(conv.peers, spawned)
      BY <2>3 DEF SpawnPeer, FlagsInv, AfterSubmit
    <3>2. \/ /\ stage' = "accepted"
             /\ spawned' = Append(spawned, buildPersistentSpawnSpec(conv.peers[Len(spawned) + 1]))
          \/ stage' = "failed" /\ spawned' = spawned
      BY <2>3 DEF SpawnPeer
    <3>3. Len(spawned) < Len(conv.peers)
      BY <2>3 DEF SpawnPeer
    <3>4. Len(conv.peers) \in Nat
      BY <3>1, BuiltMeetsBroker, FlagsAssumption
    <3>5. StartedFrom(conv.peers, spawned')
      BY <3>1, <3>2, <3>3, <3>4, StartedOneMore
    <3> QED BY <3>1, <3>2, <3>5 DEF FlagsInv, AfterSubmit
  <2>4. CASE OpenConversation
    BY <2>4 DEF OpenConversation, FlagsInv, AfterSubmit
  <2>5. CASE UNCHANGED flagVars
    BY <2>5 DEF flagVars, FlagsInv
  <2> QED BY <2>1, <2>2, <2>3, <2>4, <2>5 DEF FlagsNext
<1> QED BY <1>1, <1>2, PTL DEF FlagsSpec

\* Whatever the command line, the command starts a conversation that module
\* Broker's assumptions hold of, or none (ConverseCommand, parseNPeerSpecs).
THEOREM FlagsAcceptedMeetsBroker == FlagsSpec => []AcceptedMeetsBroker
<1>1. FlagsInv => AcceptedMeetsBroker
  BY BuiltMeetsBroker DEF FlagsInv, AcceptedMeetsBroker, AfterSubmit
<1> QED BY <1>1, FlagsInvHolds, PTL

\* The process made from an entry with these options.
LEMMA SpecOfOptions ==
  ASSUME NEW id, NEW provider, NEW options, OptionKeys \subseteq DOMAIN options
  PROVE  SpawnedAs(buildPersistentSpawnSpec(Participant(id, provider, options, args)), id, options)
<1> DEFINE peer == Participant(id, provider, options, args)
           given == buildPersistentSpawnSpec(peer)
<1>1. /\ peer.id = id
      /\ peer.options["cwd"] = FirstNonEmpty(options["cwd"], args.workingDir)
      /\ peer.options["model"] = options["model"]
  BY DEF Participant, InjectCwd, OptionKeys
<1>2. /\ given.id = peer.id
      /\ given.cwd = FirstNonEmpty(peer.options["cwd"], OsCwd)
      /\ given.env = buildPeerEnv(peer.options)
  BY DEF buildPersistentSpawnSpec
<1> HIDE DEF peer, given
<1>3. /\ DOMAIN given.env \subseteq AllowedEnv \cup {"VITIS_MODEL", "VITIS_REASONING_EFFORT"}
      /\ ("VITIS_MODEL" \in DOMAIN given.env) = (peer.options["model"] # Empty)
      /\ "VITIS_MODEL" \in DOMAIN given.env => given.env["VITIS_MODEL"] = peer.options["model"]
  BY <1>2 DEF buildPeerEnv, AllowedEnv
<1> QED BY <1>1, <1>2, <1>3 DEF SpawnedAs, FirstNonEmpty, peer, given

\* Every process of every command line has the directory, the model and the
\* variables of its own peer's flag (toV2Conversation, mergeOptions,
\* buildPersistentSpawnSpec, buildPeerEnv).
THEOREM FlagsPeerGetsItsOwn == FlagsSpec => []PeerGetsItsOwn
<1>1. FlagsInv => PeerGetsItsOwn
  <2> SUFFICES ASSUME FlagsInv, NEW i \in DOMAIN spawned
               PROVE  IF args.flags = <<>>
                      THEN SpawnedAs(spawned[i], <<IF i = 1 THEN "a" ELSE "b">>,
                                     IF i = 1 THEN args.optionsA ELSE args.optionsB)
                      ELSE \E own \in {parseKeyValueList(args.flags[i]).pairs} :
                             SpawnedAs(spawned[i], Value(own, "id"),
                                       [key \in OptionKeys |-> Value(own, key)])
    BY DEF PeerGetsItsOwn
  <2>1. stage \in AfterSubmit
    BY DEF FlagsInv
  <2>2. Parsed(args) /\ BuiltFrom(args, conv) /\ StartedFrom(conv.peers, spawned)
    BY <2>1 DEF FlagsInv
  <2>3. i \in 1..Len(conv.peers) /\ spawned[i] = buildPersistentSpawnSpec(conv.peers[i])
    <3> DEFINE f(j) == buildPersistentSpawnSpec(conv.peers[j])
    <3>1. PICK n \in 0..Len(conv.peers) : spawned = [j \in 1..n |-> f(j)]
      BY <2>2 DEF StartedFrom
    <3>2. Len(conv.peers) \in Nat
      BY <2>2, BuiltMeetsBroker, FlagsAssumption
    <3> HIDE DEF f
    <3>3. i \in 1..n /\ spawned[i] = f(i)
      BY <3>1
    <3> QED BY <3>2, <3>3 DEF f
  <2>4. CASE args.flags = <<>>
    <3>1. conv = LegacyConversation(args)
      BY <2>2, <2>4 DEF BuiltFrom
    <3>2. /\ Len(conv.peers) = 2
          /\ conv.peers[1] = Participant(<<"a">>, args.peerA, args.optionsA, args)
          /\ conv.peers[2] = Participant(<<"b">>, args.peerB, args.optionsB, args)
      BY <3>1 DEF LegacyConversation
    <3>3. i = 1 \/ i = 2
      BY <2>3, <3>2
    <3>4. /\ SpawnedAs(buildPersistentSpawnSpec(conv.peers[1]), <<"a">>, args.optionsA)
          /\ SpawnedAs(buildPersistentSpawnSpec(conv.peers[2]), <<"b">>, args.optionsB)
      BY <2>2, <3>2, SpecOfOptions DEF Parsed
    <3> QED BY <2>3, <2>4, <3>3, <3>4
  <2>5. CASE args.flags # <<>>
    <3> DEFINE decl == ConfigOf(args).peers[i]
               own == parseKeyValueList(args.flags[i]).pairs
               asked == [key \in OptionKeys |-> Value(own, key)]
    <3>1. conv = NPeerConversation(args, ConfigOf(args))
      BY <2>2, <2>5 DEF BuiltFrom
    <3>2. i \in DOMAIN conv.peers
      BY <2>2, <2>3, BuiltMeetsBroker
    <3>3. /\ i \in DOMAIN ConfigOf(args).peers
          /\ conv.peers[i] = Participant(decl.id, decl.provider, decl.options, args)
      BY <3>1, <3>2 DEF NPeerConversation
    <3>4. decl.id = Value(own, "id") /\ decl.options = asked
      BY <2>2, <3>3, DeclaredAre
    <3>5. OptionKeys \subseteq DOMAIN asked
      OBVIOUS
    <3> HIDE DEF decl, own, asked
    <3>6. SpawnedAs(spawned[i], Value(own, "id"), asked)
      BY <2>3, <3>3, <3>4, <3>5, SpecOfOptions
    <3> QED BY <2>5, <3>6 DEF own, asked
  <2> QED BY <2>4, <2>5
<1> QED BY <1>1, FlagsInvHolds, PTL
=============================================================================
