----------------------------- MODULE TurnPolicy -----------------------------
(***************************************************************************)
(* The pure text rules of a conversation: what the broker reads out of a   *)
(* peer's reply.  They come from the sentinel terminator                   *)
(* (internal/terminator/sentinel.go) and from the turn policy              *)
(* (internal/conversation/policy).                                         *)
(*                                                                         *)
(* A reply is a sequence of lines, and a line is what those functions can  *)
(* tell apart after trimming: blank, the sentinel token alone on its line, *)
(* a `<<NEXT: id>>' trailer, or any other text.  A line `<<END>>' that is  *)
(* not the configured sentinel is text: endTrailerRegex makes              *)
(* parseNextTrailer return nil on it, which it also does on text.          *)
(***************************************************************************)
EXTENDS Integers, SequencesExt

CONSTANTS
  PeerOrder,    \* BrokerDeps.PeerOrder: the declared peer ids (<<a, b>> in legacy mode)
  Strangers,    \* well-formed ids no peer has, which a trailer may still name
  NoPeer        \* a nil *model.PeerID, or an id field that is still empty

Peers == { PeerOrder[i] : i \in DOMAIN PeerOrder }

\* parseNPeerSpecs refuses duplicate ids and fewer than two peers.
ASSUME PeersAssumption ==
  /\ PeerOrder \in Seq(Peers)
  /\ Len(PeerOrder) >= 2
  /\ \A i, j \in 1..Len(PeerOrder) : PeerOrder[i] = PeerOrder[j] => i = j
  /\ Strangers \cap Peers = {}
  /\ NoPeer \notin Peers \cup Strangers

Line == [kind : {"text", "blank", "end"}, id : {NoPeer}]
        \cup [kind : {"next"}, id : Peers \cup Strangers]

Text   == [kind |-> "text",  id |-> NoPeer]
Blank  == [kind |-> "blank", id |-> NoPeer]
End    == [kind |-> "end",   id |-> NoPeer]
Trailer(p) == [kind |-> "next", id |-> p]

Reply == Seq(Line)

----------------------------------------------------------------------------
\* The sentinel.

ContainsOnOwnLine(reply) == \E i \in DOMAIN reply : reply[i].kind = "end"

\* strings.TrimRight(s, " \t\r\n"): what is left ends in a line with content.
TrimRight(reply) ==
  SubSeq(reply, 1, SelectLastInSeq(reply, LAMBDA l : l.kind # "blank"))

\* Slip: only the sentinel line goes.
StripOnlyTheLine(reply) == SelectSeq(reply, LAMBDA l : l.kind # "end")

\* The sentinel line goes, and everything after it.
StripSentinel(reply) ==
  IF ContainsOnOwnLine(reply)
  THEN TrimRight(SubSeq(reply, 1, SelectInSeq(reply, LAMBDA l : l.kind = "end") - 1))
  ELSE reply

----------------------------------------------------------------------------
\* The addressed policy.

\* Slip: the last trailer counts wherever it stands.
TrailerAnywhere(reply) ==
  LET last == SelectLastInSeq(reply, LAMBDA l : l.kind = "next")
  IN  IF last # 0 THEN reply[last].id ELSE NoPeer

\* The id named by a trailer on the last non-empty line, known or not.
ParseNextTrailer(reply) ==
  LET last == SelectLastInSeq(reply, LAMBDA l : l.kind # "blank")
  IN  IF last # 0 /\ reply[last].kind = "next" THEN reply[last].id ELSE NoPeer

\* Slip: the first declared peer that is not current.
FirstOther(current, peers) == peers[IF peers[1] = current THEN 2 ELSE 1]

\* The peer after current in declared order, wrapping round; the first one
\* when current is not declared.
RoundRobinAfter(current, peers) ==
  LET i == SelectInSeq(peers, LAMBDA p : p = current)
  IN  peers[IF i = Len(peers) THEN 1 ELSE i + 1]

\* Slip: the named peer may be the speaker itself.
NextMayBeSelf(current, reply, peers) ==
  LET parsed    == ParseNextTrailer(reply)
      addressed == \E i \in DOMAIN peers : peers[i] = parsed
  IN  [next     |-> IF addressed THEN parsed ELSE RoundRobinAfter(current, peers),
       parsed   |-> parsed,
       fallback |-> ~addressed]

\* AddressedPolicy.Next: the Decision it returns.
PolicyNext(current, reply, peers) ==
  LET parsed    == ParseNextTrailer(reply)
      addressed == parsed # current /\ \E i \in DOMAIN peers : peers[i] = parsed
  IN  [next     |-> IF addressed THEN parsed ELSE RoundRobinAfter(current, peers),
       parsed   |-> parsed,
       fallback |-> ~addressed]

\* What the broker does with a reply: strip the sentinel, then ask the policy.
Route(current, reply) == PolicyNext(current, StripSentinel(reply), PeerOrder)
=============================================================================
