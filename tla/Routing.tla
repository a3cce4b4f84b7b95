------------------------------ MODULE Routing ------------------------------
(***************************************************************************)
(* The turn policy at work on every reply up to a length: the peer that    *)
(* holds the floor writes its reply line by line, submits it, and the      *)
(* policy passes the floor.  This is the routing half of Broker.Run        *)
(* (internal/conversation/broker.go) with nothing else around it.          *)
(***************************************************************************)
EXTENDS TurnPolicy

CONSTANT MaxLines          \* bound on the lines of a reply

ASSUME MaxLinesAssumption == MaxLines \in Nat

VARIABLES
  floor,    \* the peer whose turn it is (Run's `active')
  draft,    \* the lines it has written so far
  streak    \* the speakers since the last reply that addressed somebody

vars == <<floor, draft, streak>>

Init ==
  /\ floor \in Peers
  /\ draft = <<>>
  /\ streak = <<>>

Write ==
  /\ Len(draft) < MaxLines
  /\ \E l \in Line : draft' = Append(draft, l)
  /\ UNCHANGED <<floor, streak>>

\* Longer streaks than a round tell nothing new: only the last round is kept.
LastRound(s) == SubSeq(s, Max({1, Len(s) - Len(PeerOrder) + 1}), Len(s))

Submit ==
  LET decision == Route(floor, draft)
  IN  /\ floor' = decision.next
      /\ streak' = IF decision.fallback THEN LastRound(Append(streak, floor)) ELSE <<>>
      /\ draft' = <<>>

Next == Write \/ Submit

Spec == Init /\ [][Next]_vars

----------------------------------------------------------------------------
TypeOK ==
  /\ floor \in Peers
  /\ draft \in Reply
  /\ Len(draft) <= MaxLines
  /\ streak \in Seq(Peers)

\* Nothing a peer writes lets it keep the floor or hand it outside the
\* conversation: broker.go takes decision.Next as the next transport without
\* a check of its own (Broker.Run, AddressedPolicy.Next).
FloorPasses == [][draft # <<>> /\ draft' = <<>> => floor' \in Peers \ {floor}]_vars

\* Round robin starves nobody: when nobody has been addressed for as many
\* turns as there are peers, each of them has spoken exactly once
\* (roundRobinAfter).
FallbackVisitsEveryone ==
  Len(streak) = Len(PeerOrder) => { streak[i] : i \in DOMAIN streak } = Peers

\* What the next peer is shown stops at the first sentinel line: no line of
\* it is the sentinel, it is what the reply began with, and only blank lines
\* before the sentinel are missing (StripSentinel).
StripKeepsWhatWasSaid ==
  LET shown == StripSentinel(draft)
      cut   == { i \in DOMAIN draft : draft[i].kind = "end" }
  IN  /\ ~ContainsOnOwnLine(shown)
      /\ IsPrefix(shown, draft)
      /\ \A i \in Len(shown) + 1 .. Len(draft) :
            draft[i].kind = "blank" \/ \E j \in cut : j <= i

\* In a reply without a sentinel line, a trailer is honoured exactly when a
\* reader of the conversation would say that the speaker addressed a peer: the
\* last thing said names another declared peer (parseNextTrailer,
\* AddressedPolicy.Next).  A trailer above a sentinel is left out: by
\* addressed.go:16-18 it does not count, and Run follows it.
AddressedIsHonoured ==
  LET said     == { i \in DOMAIN draft : draft[i].kind # "blank" }
      named    == { draft[i].id : i \in { k \in said : /\ draft[k].kind = "next"
                                                       /\ \A j \in said : j <= k } }
      decision == Route(floor, draft)
  IN  ~ContainsOnOwnLine(draft) =>
        IF \E p \in named : p \in Peers \ {floor}
        THEN ~decision.fallback /\ decision.next \in named
        ELSE decision.fallback
=============================================================================
