-------------------------- MODULE TurnPolicyProofs --------------------------
(***************************************************************************)
(* What the text rules and the turn policy guarantee for every list of     *)
(* peers and every reply.                                                  *)
(***************************************************************************)
EXTENDS TurnPolicy, TLAPS

W == INSTANCE WellFoundedInduction

\* Every non-empty set of natural numbers has a least element.
LEMMA MinNat ==
  ASSUME NEW S \in SUBSET Nat, S # {}
  PROVE  /\ Min(S) \in S
         /\ \A y \in S : Min(S) <= y
<1> DEFINE R == { ss \in Nat \X Nat : ss[1] < ss[2] }
<1>1. W!IsWellFoundedOn(R, Nat)
  BY W!NatLessThanWellFounded DEF W!OpToRel
<1>2. \E x \in S : \A y \in S : ~(<<y, x>> \in R)
  <2> HIDE DEF R
  <2> QED BY <1>1, W!WFMin, Zenon
<1>3. PICK x \in S : \A y \in S : ~(<<y, x>> \in R)
  BY <1>2
<1>4. \A y \in S : x <= y
  <2> TAKE y \in S
  <2>1. ~(<<y, x>> \in R)
    BY <1>3
  <2> QED BY <2>1
<1> QED BY <1>4 DEF Min

\* Every non-empty set of numbers up to a bound has a greatest element.
LEMMA MaxNat ==
  ASSUME NEW n \in Nat, NEW S \in SUBSET (1..n), S # {}
  PROVE  /\ Max(S) \in S
         /\ \A y \in S : y <= Max(S)
<1> DEFINE T == { n - i : i \in S }
<1>1. T \in SUBSET Nat /\ T # {}
  <2>1. \A i \in S : i \in 1..n /\ n - i \in Nat
    OBVIOUS
  <2> QED BY <2>1
<1>2. PICK i \in S : Min(T) = n - i
  BY <1>1, MinNat
<1>3. \A y \in S : y <= i
  <2> TAKE y \in S
  <2>1. n - y \in T
    OBVIOUS
  <2>2. Min(T) <= n - y
    BY <1>1, <2>1, MinNat
  <2> QED BY <1>2, <2>2
<1> QED BY <1>3 DEF Max

----------------------------------------------------------------------------
\* TrimRight keeps a beginning of the reply.
LEMMA TrimRightPrefix ==
  ASSUME NEW r \in Reply
  PROVE  \E n \in 0..Len(r) : TrimRight(r) = SubSeq(r, 1, n)
<1> DEFINE I == { i \in 1..Len(r) : r[i].kind # "blank" }
           n == IF I # {} THEN Max(I) ELSE 0
<1>1. TrimRight(r) = SubSeq(r, 1, n)
  BY Zenon DEF TrimRight, SelectLastInSeq
<1>2. Len(r) \in Nat
  BY DEF Reply
<1>3. n \in 0..Len(r)
  <2>1. CASE I = {}
    BY <1>2, <2>1
  <2>2. CASE I # {}
    <3>1. I \in SUBSET (1..Len(r))
      OBVIOUS
    <3>2. Max(I) \in I
      BY <1>2, <2>2, <3>1, MaxNat
    <3> QED BY <1>2, <2>2, <3>2
  <2> QED BY <2>1, <2>2
<1> QED BY <1>1, <1>3

\* A beginning of a reply is a reply with the same lines.
LEMMA SubSeqReply ==
  ASSUME NEW r \in Reply, NEW n \in 0..Len(r)
  PROVE  /\ SubSeq(r, 1, n) \in Reply
         /\ Len(SubSeq(r, 1, n)) = n
         /\ \A i \in 1..n : SubSeq(r, 1, n)[i] = r[i]
BY DEF Reply

\* StripSentinel returns a beginning of the reply in which no line is the
\* sentinel: what the next peer is shown never carries it.
THEOREM StripSentinelClean ==
  ASSUME NEW r \in Reply
  PROVE  /\ StripSentinel(r) \in Reply
         /\ ~ContainsOnOwnLine(StripSentinel(r))
         /\ Len(StripSentinel(r)) <= Len(r)
         /\ \A i \in 1..Len(StripSentinel(r)) : StripSentinel(r)[i] = r[i]
<1> DEFINE I == { i \in 1..Len(r) : r[i].kind = "end" }
           m == IF I # {} THEN Min(I) ELSE 0
           s == SubSeq(r, 1, m - 1)
<1>0. Len(r) \in Nat /\ DOMAIN r = 1..Len(r)
  BY DEF Reply
<1>1. CASE ~ContainsOnOwnLine(r)
  BY <1>0, <1>1 DEF StripSentinel
<1>2. CASE ContainsOnOwnLine(r)
  <2>1. StripSentinel(r) = TrimRight(s)
    BY <1>2, Zenon DEF StripSentinel, SelectInSeq
  <2>2. I # {} /\ I \in SUBSET Nat
    BY <1>0, <1>2 DEF ContainsOnOwnLine
  <2>3. m \in I /\ \A y \in I : m <= y
    BY <2>2, MinNat
  <2>4. m - 1 \in 0..Len(r)
    BY <1>0, <2>3
  <2>5. \A i \in 1..(m - 1) : r[i].kind # "end"
    BY <1>0, <2>3
  <2>6. s \in Reply /\ Len(s) = m - 1 /\ \A i \in 1..(m - 1) : s[i] = r[i]
    BY <2>4, SubSeqReply
  <2> HIDE DEF s
  <2>7. PICK n \in 0..Len(s) : TrimRight(s) = SubSeq(s, 1, n)
    BY <2>6, TrimRightPrefix
  <2>8. /\ TrimRight(s) \in Reply
        /\ Len(TrimRight(s)) = n
        /\ \A i \in 1..n : TrimRight(s)[i] = s[i]
    BY <2>6, <2>7, SubSeqReply
  <2>9. DOMAIN TrimRight(s) = 1..n
    BY <2>8 DEF Reply
  <2>10. \A i \in 1..n : TrimRight(s)[i].kind # "end"
    BY <2>4, <2>5, <2>6, <2>7, <2>8
  <2>11. n <= Len(r) /\ \A i \in 1..n : TrimRight(s)[i] = r[i]
    BY <1>0, <2>4, <2>6, <2>7, <2>8
  <2> QED BY <2>1, <2>8, <2>9, <2>10, <2>11 DEF ContainsOnOwnLine
<1> QED BY <1>1, <1>2

----------------------------------------------------------------------------
\* A parsed trailer names a well-formed id, declared or not.
LEMMA ParseNextTrailerType ==
  ASSUME NEW r \in Reply
  PROVE  ParseNextTrailer(r) \in Peers \cup Strangers \cup {NoPeer}
<1> DEFINE I == { i \in 1..Len(r) : r[i].kind # "blank" }
           last == IF I # {} THEN Max(I) ELSE 0
<1>1. ParseNextTrailer(r) =
        IF last # 0 /\ r[last].kind = "next" THEN r[last].id ELSE NoPeer
  BY Zenon DEF ParseNextTrailer, SelectLastInSeq
<1>2. Len(r) \in Nat /\ \A i \in 1..Len(r) : r[i] \in Line
  BY DEF Reply
<1>3. ASSUME last # 0 PROVE last \in 1..Len(r)
  <2>1. I # {} /\ I \in SUBSET (1..Len(r))
    BY <1>3
  <2> QED BY <1>2, <2>1, MaxNat
<1> HIDE DEF last
<1>4. ASSUME last # 0, r[last].kind = "next"
      PROVE  r[last].id \in Peers \cup Strangers
  BY <1>2, <1>3, <1>4 DEF Line
<1> QED BY <1>1, <1>4

\* Round robin hands the floor to another declared peer.
LEMMA RoundRobinMoves ==
  ASSUME NEW p \in Peers
  PROVE  RoundRobinAfter(p, PeerOrder) \in Peers \ {p}
<1> DEFINE I == { i \in 1..Len(PeerOrder) : PeerOrder[i] = p }
           i0 == IF I # {} THEN Min(I) ELSE 0
           j == IF i0 = Len(PeerOrder) THEN 1 ELSE i0 + 1
<1>1. RoundRobinAfter(p, PeerOrder) = PeerOrder[j]
  BY Zenon DEF RoundRobinAfter, SelectInSeq
<1>2. /\ Len(PeerOrder) \in Nat /\ Len(PeerOrder) >= 2
      /\ DOMAIN PeerOrder = 1..Len(PeerOrder)
  BY PeersAssumption
<1>3. I # {} /\ I \in SUBSET Nat
  BY <1>2 DEF Peers
<1>4. i0 \in 1..Len(PeerOrder) /\ PeerOrder[i0] = p
  BY <1>3, MinNat
<1> HIDE DEF i0
<1>5. j \in 1..Len(PeerOrder) /\ j # i0
  <2>1. i0 \in 1..Len(PeerOrder) /\ Len(PeerOrder) \in Nat /\ Len(PeerOrder) >= 2
    BY <1>2, <1>4
  <2>2. CASE i0 = Len(PeerOrder)
    BY <2>1, <2>2
  <2>3. CASE i0 # Len(PeerOrder)
    BY <2>1, <2>3
  <2> QED BY <2>2, <2>3
<1> HIDE DEF j
<1>6. PeerOrder[j] \in Peers
  BY <1>2, <1>5 DEF Peers
<1>7. PeerOrder[j] # p
  BY <1>2, <1>4, <1>5, PeersAssumption
<1> QED BY <1>1, <1>6, <1>7

\* The policy never lets a speaker keep the floor and never hands it to
\* anyone but a declared peer, whatever the reply says (AddressedPolicy.Next
\* after StripSentinel, which Broker.Run follows without a check).
THEOREM RouteLeavesTheFloor ==
  ASSUME NEW p \in Peers, NEW r \in Reply
  PROVE  /\ Route(p, r).next \in Peers \ {p}
         /\ Route(p, r).parsed \in Peers \cup Strangers \cup {NoPeer}
         /\ Route(p, r).fallback \in BOOLEAN
<1> DEFINE s == StripSentinel(r)
<1>1. s \in Reply
  BY StripSentinelClean
<1>2. ParseNextTrailer(s) \in Peers \cup Strangers \cup {NoPeer}
  BY <1>1, ParseNextTrailerType
<1>3. RoundRobinAfter(p, PeerOrder) \in Peers \ {p}
  BY RoundRobinMoves
<1>4. \A q : (\E i \in DOMAIN PeerOrder : PeerOrder[i] = q) => q \in Peers
  BY DEF Peers
<1> QED BY <1>2, <1>3, <1>4 DEF Route, PolicyNext
=============================================================================
