---------------------------- MODULE RoutingProofs ----------------------------
(***************************************************************************)
(* What the turn policy does with every reply, for every list of peers and *)
(* replies of any length: the floor passes, what is shown and who is       *)
(* addressed follow what was said, and round robin reaches everybody.      *)
(***************************************************************************)
EXTENDS Routing, TurnPolicyProofs

\* Who holds the floor and what it may have written.
FloorInv == floor \in Peers /\ draft \in Reply

LEMMA FloorInvHolds == Spec => []FloorInv
<1>1. Init => FloorInv
  BY DEF Init, FloorInv, Reply
<1>2. FloorInv /\ [Next]_vars => FloorInv'
  <2> SUFFICES ASSUME FloorInv, [Next]_vars PROVE FloorInv'
    OBVIOUS
  <2>1. CASE Write
    BY <2>1 DEF Write, FloorInv, Reply
  <2>2. CASE Submit
    <3>1. floor' = Route(floor, draft).next /\ draft' = <<>>
      BY <2>2 DEF Submit
    <3>2. Route(floor, draft).next \in Peers
      BY RouteLeavesTheFloor DEF FloorInv
    <3> QED BY <3>1, <3>2 DEF FloorInv, Reply
  <2>3. CASE UNCHANGED vars
    BY <2>3 DEF vars, FloorInv
  <2> QED BY <2>1, <2>2, <2>3 DEF Next
<1> QED BY <1>1, <1>2, PTL DEF Spec

\* Whatever a peer writes, submitting it gives the floor to another declared
\* peer (Broker.Run follows AddressedPolicy.Next without a check).
THEOREM RoutingFloorPasses == Spec => FloorPasses
<1>1. FloorInv /\ [Next]_vars =>
        [draft # <<>> /\ draft' = <<>> => floor' \in Peers \ {floor}]_vars
  <2> SUFFICES ASSUME FloorInv, Next, draft # <<>>, draft' = <<>>
               PROVE  floor' \in Peers \ {floor}
    OBVIOUS
  <2>1. CASE Write
    BY <2>1 DEF Write, FloorInv, Reply
  <2>2. CASE Submit
    <3>1. floor' = Route(floor, draft).next
      BY <2>2 DEF Submit
    <3> QED BY <3>1, RouteLeavesTheFloor DEF FloorInv
  <2> QED BY <2>1, <2>2 DEF Next
<1> QED BY <1>1, FloorInvHolds, PTL DEF Spec, FloorPasses

----------------------------------------------------------------------------
\* What is read out of a reply.

\* n is the last line of r that is not blank, 0 if there is none.
LastSaid(r, n) ==
  /\ n \in 0..Len(r)
  /\ n # 0 => r[n].kind # "blank"
  /\ \A i \in n + 1 .. Len(r) : r[i].kind = "blank"

LEMMA LastSaidUnique ==
  ASSUME NEW r \in Reply, NEW m, NEW n, LastSaid(r, m), LastSaid(r, n)
  PROVE  m = n
<1>1. m \in 0..Len(r) /\ n \in 0..Len(r) /\ Len(r) \in Nat
  BY DEF LastSaid, Reply
<1>2. ~(m < n) /\ ~(n < m)
  BY <1>1 DEF LastSaid
<1>3. QED
  BY <1>1, <1>2

\* TrimRight and ParseNextTrailer look at that line.
LEMMA LastLine ==
  ASSUME NEW r \in Reply
  PROVE  \E n : /\ LastSaid(r, n)
                /\ TrimRight(r) = SubSeq(r, 1, n)
                /\ ParseNextTrailer(r) =
                     IF n # 0 /\ r[n].kind = "next" THEN r[n].id ELSE NoPeer
<1> DEFINE I == { i \in 1..Len(r) : r[i].kind # "blank" }
           n == IF I # {} THEN Max(I) ELSE 0
<1>1. TrimRight(r) = SubSeq(r, 1, n)
  BY Zenon DEF TrimRight, SelectLastInSeq
<1>2. ParseNextTrailer(r) = IF n # 0 /\ r[n].kind = "next" THEN r[n].id ELSE NoPeer
  BY Zenon DEF ParseNextTrailer, SelectLastInSeq
<1>3. Len(r) \in Nat
  BY DEF Reply
<1>4. LastSaid(r, n)
  <2>1. CASE I = {}
    <3>1. n = 0 /\ \A i \in 1..Len(r) : r[i].kind = "blank"
      BY <2>1
    <3>2. QED
      BY <1>3, <3>1 DEF LastSaid
  <2>2. CASE I # {}
    <3>1. I \in SUBSET (1..Len(r)) /\ n = Max(I)
      BY <2>2
    <3>2. n \in I /\ \A y \in I : y <= n
      BY <1>3, <2>2, <3>1, MaxNat
    <3> HIDE DEF n
    <3>3. n \in 1..Len(r) /\ r[n].kind # "blank"
      BY <3>2
    <3>4. \A i \in n + 1 .. Len(r) : r[i].kind = "blank"
      BY <1>3, <3>2, <3>3
    <3>5. QED
      BY <1>3, <3>3, <3>4 DEF LastSaid
  <2>3. QED
    BY <2>1, <2>2
<1>5. QED
  BY <1>1, <1>2, <1>4

\* c lines of r come before its first sentinel line, all of them if it has none.
BeforeEnd(r, c) ==
  /\ c \in 0..Len(r)
  /\ \A i \in 1..c : r[i].kind # "end"
  /\ c < Len(r) => r[c + 1].kind = "end"

LEMMA SentinelCut ==
  ASSUME NEW r \in Reply
  PROVE  \E c : /\ BeforeEnd(r, c)
                /\ c = Len(r) => StripSentinel(r) = r
                /\ c # Len(r) => StripSentinel(r) = TrimRight(SubSeq(r, 1, c))
<1> DEFINE I == { i \in 1..Len(r) : r[i].kind = "end" }
           m == IF I # {} THEN Min(I) ELSE 0
<1>1. Len(r) \in Nat /\ DOMAIN r = 1..Len(r)
  BY DEF Reply
<1>2. CASE ~ContainsOnOwnLine(r)
  <2>1. StripSentinel(r) = r /\ BeforeEnd(r, Len(r))
    BY <1>1, <1>2 DEF StripSentinel, BeforeEnd, ContainsOnOwnLine
  <2>2. QED
    BY <2>1
<1>3. CASE ContainsOnOwnLine(r)
  <2>1. StripSentinel(r) = TrimRight(SubSeq(r, 1, m - 1))
    BY <1>3, Zenon DEF StripSentinel, SelectInSeq
  <2>2. I # {} /\ I \in SUBSET Nat
    BY <1>1, <1>3 DEF ContainsOnOwnLine
  <2>3. m \in I /\ \A y \in I : m <= y
    BY <2>2, MinNat
  <2> HIDE DEF m
  <2>4. m \in 1..Len(r) /\ r[m].kind = "end" /\ m - 1 # Len(r)
    BY <1>1, <2>3
  <2>5. \A i \in 1..m - 1 : r[i].kind # "end"
    BY <1>1, <2>3, <2>4
  <2>6. BeforeEnd(r, m - 1)
    BY <1>1, <2>4, <2>5 DEF BeforeEnd
  <2>7. QED
    BY <2>1, <2>4, <2>6
<1>4. QED
  BY <1>2, <1>3

\* What StripSentinel shows and what the policy then parses, in the reply's
\* own lines: c of them come before the sentinel, the n-th is the last of
\* these that says something.
LEMMA WhatIsRead ==
  ASSUME NEW r \in Reply
  PROVE  \E c, n : /\ BeforeEnd(r, c)
                   /\ n \in 0..c
                   /\ n # 0 => r[n].kind # "blank"
                   /\ \A i \in n + 1 .. c : r[i].kind = "blank"
                   /\ c = Len(r) => StripSentinel(r) = r
                   /\ c # Len(r) => StripSentinel(r) = SubSeq(r, 1, n)
                   /\ ParseNextTrailer(StripSentinel(r)) =
                        IF n # 0 /\ r[n].kind = "next" THEN r[n].id ELSE NoPeer
<1>1. PICK c : /\ BeforeEnd(r, c)
               /\ c = Len(r) => StripSentinel(r) = r
               /\ c # Len(r) => StripSentinel(r) = TrimRight(SubSeq(r, 1, c))
  BY SentinelCut
<1>2. Len(r) \in Nat /\ c \in 0..Len(r)
  BY <1>1 DEF Reply, BeforeEnd
<1>3. CASE c = Len(r)
  <2>1. PICK n : /\ LastSaid(r, n)
                 /\ ParseNextTrailer(r) =
                      IF n # 0 /\ r[n].kind = "next" THEN r[n].id ELSE NoPeer
    BY LastLine
  <2>2. QED
    BY <1>1, <1>3, <2>1 DEF LastSaid
<1>4. CASE c # Len(r)
  <2> DEFINE s == SubSeq(r, 1, c)
  <2>1. s \in Reply /\ Len(s) = c /\ \A i \in 1..c : s[i] = r[i]
    BY <1>2, SubSeqReply
  <2>2. StripSentinel(r) = TrimRight(s)
    BY <1>1, <1>4
  <2> HIDE DEF s
  <2>3. PICK n : LastSaid(s, n) /\ TrimRight(s) = SubSeq(s, 1, n)
    BY <2>1, LastLine
  <2>4. n \in 0..c /\ (n # 0 => s[n].kind # "blank") /\ \A i \in n + 1 .. c : s[i].kind = "blank"
    BY <2>1, <2>3 DEF LastSaid
  <2>5. (n # 0 => n \in 1..c /\ s[n] = r[n]) /\ \A i \in n + 1 .. c : s[i] = r[i]
    BY <1>2, <2>1, <2>4
  <2> DEFINE t == SubSeq(s, 1, n)
  <2>6. t \in Reply /\ Len(t) = n /\ \A i \in 1..n : t[i] = s[i]
    BY <2>1, <2>4, SubSeqReply
  <2>7. t = SubSeq(r, 1, n)
    <3>1. n \in 0..Len(r)
      BY <1>2, <2>4
    <3>2. /\ SubSeq(r, 1, n) \in Reply /\ Len(SubSeq(r, 1, n)) = n
          /\ \A i \in 1..n : SubSeq(r, 1, n)[i] = r[i]
      BY <3>1, SubSeqReply
    <3> HIDE DEF t
    <3>3. \A i \in 1..n : t[i] = SubSeq(r, 1, n)[i]
      BY <1>2, <2>1, <2>4, <2>6, <3>2
    <3>4. QED
      BY <2>6, <3>2, <3>3 DEF Reply
  <2> HIDE DEF t
  <2>8. PICK m : /\ LastSaid(t, m)
                 /\ ParseNextTrailer(t) =
                      IF m # 0 /\ t[m].kind = "next" THEN t[m].id ELSE NoPeer
    BY <2>6, LastLine
  <2>9. LastSaid(t, n)
    BY <1>2, <2>4, <2>6 DEF LastSaid
  <2>10. m = n
    BY <2>6, <2>8, <2>9, LastSaidUnique
  <2>11. n # 0 => t[n] = r[n]
    BY <1>2, <2>4, <2>5, <2>6
  <2>12. ParseNextTrailer(t) = IF n # 0 /\ r[n].kind = "next" THEN r[n].id ELSE NoPeer
    BY <2>8, <2>10, <2>11
  <2>13. StripSentinel(r) = t
    BY <2>2, <2>3 DEF t
  <2>14. QED
    BY <1>1, <1>4, <2>4, <2>5, <2>7, <2>12, <2>13
<1>5. QED
  BY <1>3, <1>4

\* For every reply: what the next peer is shown is what the reply began with,
\* short only of the sentinel, what follows it and the blank lines before it
\* (StripSentinel).
THEOREM RoutingStripKeepsWhatWasSaid == Spec => []StripKeepsWhatWasSaid
<1>1. FloorInv => StripKeepsWhatWasSaid
  <2> SUFFICES ASSUME draft \in Reply PROVE StripKeepsWhatWasSaid
    BY DEF FloorInv
  <2> DEFINE shown == StripSentinel(draft)
             cut   == { i \in DOMAIN draft : draft[i].kind = "end" }
  <2>1. PICK c, n : /\ BeforeEnd(draft, c) /\ n \in 0..c
                    /\ \A i \in n + 1 .. c : draft[i].kind = "blank"
                    /\ c = Len(draft) => shown = draft
                    /\ c # Len(draft) => shown = SubSeq(draft, 1, n)
    BY WhatIsRead
  <2>2. /\ c \in 0..Len(draft) /\ Len(draft) \in Nat /\ DOMAIN draft = 1..Len(draft)
        /\ c < Len(draft) => draft[c + 1].kind = "end"
    BY <2>1 DEF BeforeEnd, Reply
  <2>3. shown \in Reply /\ ~ContainsOnOwnLine(shown) /\ Len(shown) <= Len(draft)
        /\ \A i \in 1..Len(shown) : shown[i] = draft[i]
    BY StripSentinelClean
  <2> HIDE DEF shown
  <2>4. IsPrefix(shown, draft)
    <3>1. SubSeq(shown, 1, Len(shown)) = SubSeq(draft, 1, Len(shown))
      BY <2>2, <2>3 DEF Reply
    <3>2. QED
      BY <2>3, <3>1 DEF IsPrefix
  <2>5. \A i \in Len(shown) + 1 .. Len(draft) :
          draft[i].kind = "blank" \/ \E j \in cut : j <= i
    <3>1. CASE c = Len(draft)
      BY <2>1, <2>2, <3>1
    <3>2. CASE c # Len(draft)
      <4>1. n \in 0..Len(draft) /\ shown = SubSeq(draft, 1, n)
        <5>1. n \in 0..c /\ c \in 0..Len(draft)
          BY ONLY <2>1, <2>2, Zenon
        <5>2. shown = SubSeq(draft, 1, n)
          BY ONLY <2>1, <3>2, Zenon
        <5>3. QED
          BY ONLY <2>2, <5>1, <5>2
      <4>2. Len(shown) = n
        BY <4>1, SubSeqReply
      <4>3. c + 1 \in cut
        <5>1. c \in 0..Len(draft) /\ Len(draft) \in Nat
          BY ONLY <2>2, Zenon
        <5>2. c < Len(draft) /\ c + 1 \in 1..Len(draft)
          BY ONLY <3>2, <5>1
        <5>3. QED
          BY ONLY <2>2, <5>2, Zenon
      <4>4. ASSUME NEW i \in n + 1 .. Len(draft)
            PROVE  draft[i].kind = "blank" \/ \E j \in cut : j <= i
        <5>1. CASE i <= c
          <6>1. i \in n + 1 .. c
            BY ONLY <2>2, <4>1, <4>4, <5>1
          <6>2. QED
            BY ONLY <2>1, <6>1, Zenon
        <5>2. CASE ~(i <= c)
          <6>1. c + 1 <= i
            BY <2>2, <4>1, <5>2
          <6>2. QED
            BY <4>3, <6>1
        <5>3. QED
          BY <5>1, <5>2
      <4>5. QED
        BY <4>2, <4>4
    <3>3. QED
      BY <3>1, <3>2
  <2>6. QED
    BY <2>3, <2>4, <2>5 DEF StripKeepsWhatWasSaid, shown
<1>2. QED
  BY <1>1, FloorInvHolds, PTL

\* For every list of peers and every reply without a sentinel line, the policy
\* follows the trailer exactly when the last thing said names another declared
\* peer (parseNextTrailer, AddressedPolicy.Next).
THEOREM RoutingAddressedIsHonoured == Spec => []AddressedIsHonoured
<1>1. FloorInv => AddressedIsHonoured
  <2> DEFINE said     == { i \in DOMAIN draft : draft[i].kind # "blank" }
             named    == { draft[i].id : i \in { k \in said : /\ draft[k].kind = "next"
                                                              /\ \A j \in said : j <= k } }
             decision == Route(floor, draft)
             parsed   == ParseNextTrailer(draft)
  <2> SUFFICES ASSUME draft \in Reply, floor \in Peers, ~ContainsOnOwnLine(draft)
               PROVE  IF \E p \in named : p \in Peers \ {floor}
                      THEN ~decision.fallback /\ decision.next \in named
                      ELSE decision.fallback
    BY Zenon DEF FloorInv, AddressedIsHonoured
  <2>1. PICK n : /\ LastSaid(draft, n)
                 /\ parsed = IF n # 0 /\ draft[n].kind = "next" THEN draft[n].id ELSE NoPeer
    BY LastLine
  <2>2. Len(draft) \in Nat /\ DOMAIN draft = 1..Len(draft)
    BY DEF Reply
  <2>3. StripSentinel(draft) = draft
    BY DEF StripSentinel
  <2>4. \A k \in said : k <= n
    BY <2>1, <2>2 DEF LastSaid
  <2>5. n # 0 => n \in said
    BY <2>1, <2>2 DEF LastSaid
  <2>6. n \in Nat /\ 0 \notin said /\ said \subseteq Nat
    BY <2>1, <2>2 DEF LastSaid
  <2> HIDE DEF said
  <2>7. \A k : (k \in said /\ \A j \in said : j <= k) <=> (n # 0 /\ k = n)
    <3>1. ASSUME NEW k, k \in said, \A j \in said : j <= k PROVE n # 0 /\ k = n
      <4>1. k \in Nat /\ k # 0 /\ k <= n
        BY <2>4, <2>6, <3>1
      <4>2. n <= k
        BY <2>5, <2>6, <3>1, <4>1
      <4>3. QED
        BY <2>6, <4>1, <4>2
    <3>2. QED
      BY <2>4, <2>5, <3>1
  <2>8. IF n # 0 /\ draft[n].kind = "next" THEN named = {draft[n].id} ELSE named = {}
    <3>1. named = { draft[i].id : i \in { k \in {n} : n # 0 /\ draft[k].kind = "next" } }
      BY <2>5, <2>7
    <3>2. QED
      BY <3>1
  <2> HIDE DEF named
  <2>9. NoPeer \notin Peers
    BY PeersAssumption
  <2>10. (\E p \in named : p \in Peers \ {floor}) <=> parsed \in Peers \ {floor}
    BY <2>1, <2>8, <2>9
  <2>11. parsed \in Peers \ {floor} => parsed \in named
    BY <2>1, <2>8, <2>9
  <2> HIDE DEF parsed
  <2>12. (\E i \in DOMAIN PeerOrder : PeerOrder[i] = parsed) <=> parsed \in Peers
    BY DEF Peers
  <2>13. /\ decision.fallback <=> parsed \notin Peers \ {floor}
         /\ parsed \in Peers \ {floor} => decision.next = parsed
    BY <2>3, <2>12 DEF Route, PolicyNext, parsed
  <2>14. QED
    BY <2>10, <2>11, <2>13
<1>2. QED
  BY <1>1, FloorInvHolds, PTL
----------------------------------------------------------------------------
\* Round robin.

Count == Len(PeerOrder)

\* The place n of the declared order, wrapping round once.
Place(n) == IF n <= Count THEN n ELSE n - Count

\* The speakers of a streak stand one after the other in the declared order,
\* and the floor is the next place.
StreakFrom(a) ==
  /\ \A i \in 1..Len(streak) : streak[i] = PeerOrder[Place(a + i - 1)]
  /\ floor = PeerOrder[Place(a + Len(streak))]

StreakInv ==
  /\ streak \in Seq(Peers) /\ Len(streak) <= Count
  /\ streak # <<>> => \E a \in 1..Count : StreakFrom(a)

LEMMA CountNat ==
  Count \in Nat /\ Count >= 2 /\ DOMAIN PeerOrder = 1..Count
BY PeersAssumption DEF Count

\* RoundRobinAfter takes the next place.
LEMMA NextPlace ==
  ASSUME NEW b \in 1..Count
  PROVE  RoundRobinAfter(PeerOrder[b], PeerOrder) = PeerOrder[Place(b + 1)]
<1> DEFINE p == PeerOrder[b]
           I == { i \in 1..Len(PeerOrder) : PeerOrder[i] = p }
           i0 == IF I # {} THEN Min(I) ELSE 0
<1>1. RoundRobinAfter(p, PeerOrder) = PeerOrder[IF i0 = Len(PeerOrder) THEN 1 ELSE i0 + 1]
  BY Zenon DEF RoundRobinAfter, SelectInSeq
<1>2. I = {b}
  BY PeersAssumption DEF Count
<1>3. I # {} /\ I \in SUBSET Nat
  BY <1>2, CountNat
<1>4. i0 = b
  BY <1>2, <1>3, MinNat
<1> HIDE DEF i0
<1>5. (IF i0 = Len(PeerOrder) THEN 1 ELSE i0 + 1) = Place(b + 1)
  <2>1. Len(PeerOrder) = Count
    BY DEF Count
  <2>2. CASE b = Count
    <3>1. Place(b + 1) = 1
      BY <2>2, CountNat DEF Place
    <3>2. QED
      BY <1>4, <2>1, <2>2, <3>1
  <2>3. CASE b # Count
    <3>1. Place(b + 1) = b + 1
      BY <2>3, CountNat DEF Place
    <3>2. QED
      BY <1>4, <2>1, <2>3, <3>1
  <2>4. QED
    BY <2>2, <2>3
<1>6. QED
  BY <1>1, <1>5

\* What LastRound keeps of a streak with one more speaker.
LEMMA LastRoundKeeps ==
  ASSUME NEW s \in Seq(Peers), s # <<>>, Len(s) <= Count + 1
  PROVE  /\ LastRound(s) \in Seq(Peers)
         /\ Len(s) <= Count => LastRound(s) = s
         /\ Len(s) = Count + 1 =>
              /\ Len(LastRound(s)) = Count
              /\ \A i \in 1..Count : LastRound(s)[i] = s[i + 1]
<1> DEFINE x == Len(s) - Len(PeerOrder) + 1
           m == Max({1, x})
<1>1. Len(s) \in Nat \ {0} /\ x \in Int /\ x <= 2 /\ x = Len(s) - Count + 1
  BY CountNat DEF Count
<1> HIDE DEF x
<1>2. m = IF x = 2 THEN 2 ELSE 1
  <2>1. \E y \in {1, x} : \A z \in {1, x} : y >= z
    BY <1>1
  <2>2. m \in {1, x} /\ \A z \in {1, x} : m >= z
    BY <2>1 DEF Max
  <2>3. QED
    BY <1>1, <2>2
<1>3. LastRound(s) = SubSeq(s, m, Len(s))
  BY DEF LastRound, x
<1> HIDE DEF m
<1>4. CASE Len(s) <= Count
  <2>1. m = 1
    BY <1>1, <1>2, <1>4, CountNat
  <2>2. SubSeq(s, 1, Len(s)) = s
    OBVIOUS
  <2>3. LastRound(s) = s
    BY <1>3, <2>1, <2>2
  <2>4. Len(s) # Count + 1
    BY <1>1, <1>4, CountNat
  <2>5. QED
    BY <2>3, <2>4, Zenon
<1>5. CASE Len(s) = Count + 1
  <2>1. m = 2
    BY <1>1, <1>2, <1>5, CountNat
  <2>2. /\ SubSeq(s, 2, Len(s)) \in Seq(Peers) /\ Len(SubSeq(s, 2, Len(s))) = Len(s) - 1
        /\ \A i \in 1..Len(s) - 1 : SubSeq(s, 2, Len(s))[i] = s[i + 1]
    <3>1. 2 \in 1..Len(s) + 1 /\ Len(s) \in Int /\ Len(s) - 1 \in Nat
      BY <1>1, <1>5, CountNat
    <3>2. SubSeq(s, 2, Len(s)) = [i \in 1..Len(s) - 1 |-> s[i + 1]]
      BY <1>1, <1>5, CountNat
    <3>3. \A i \in 1..Len(s) - 1 : s[i + 1] \in Peers
      BY <1>1
    <3> DEFINE n == Len(s) - 1
               t == [i \in 1..n |-> s[i + 1]]
    <3>4. t \in [1..n -> Peers]
      BY <3>3
    <3>5. DOMAIN t = 1..n /\ \A i \in 1..n : t[i] = s[i + 1]
      OBVIOUS
    <3> HIDE DEF t
    <3>6. n \in Nat
      BY <3>1
    <3> HIDE DEF n
    <3>7. t \in Seq(Peers)
      BY <3>4, <3>6
    <3>8. Len(t) = n
      BY <3>5, <3>6, <3>7
    <3>9. SubSeq(s, 2, Len(s)) = t
      BY <3>2 DEF t, n
    <3>10. QED
      BY <3>5, <3>7, <3>8, <3>9, Zenon DEF n
  <2>3. /\ Len(s) - 1 = Count /\ ~(Len(s) <= Count)
    BY <1>1, <1>5, CountNat
  <2>4. LastRound(s) = SubSeq(s, 2, Len(s))
    BY <1>3, <2>1
  <2>5. QED
    BY <2>2, <2>3, <2>4, Zenon
<1>6. QED
  BY <1>1, <1>4, <1>5, CountNat

LEMMA StreakGrows ==
  ASSUME FloorInv, StreakInv, floor' = RoundRobinAfter(floor, PeerOrder),
         streak' = LastRound(Append(streak, floor))
  PROVE  StreakInv'
<1> DEFINE s == Append(streak, floor)
           L == Len(streak)
<1>1. /\ streak \in Seq(Peers) /\ L \in Nat /\ L <= Count /\ floor \in Peers
  BY DEF StreakInv, FloorInv
<1>2. /\ s \in Seq(Peers) /\ s # <<>> /\ Len(s) = L + 1 /\ s[L + 1] = floor
      /\ \A i \in 1..L : s[i] = streak[i]
  BY <1>1
<1>3. PICK a \in 1..Count :
        /\ \A i \in 1..L + 1 : s[i] = PeerOrder[Place(a + i - 1)]
  <2>1. CASE L = 0
    <3>1. PICK b \in 1..Count : floor = PeerOrder[b]
      BY <1>1, CountNat DEF Peers
    <3>2. Place(b + 1 - 1) = b
      BY CountNat DEF Place
    <3>3. \A i \in 1..L + 1 : s[i] = PeerOrder[Place(b + i - 1)]
      BY <1>2, <2>1, <3>1, <3>2
    <3>4. QED
      BY <3>3
  <2>2. CASE L # 0
    <3>1. streak # <<>>
      BY <1>1, <2>2
    <3>2. PICK b \in 1..Count : StreakFrom(b)
      BY <3>1 DEF StreakInv
    <3>3. ASSUME NEW i \in 1..L + 1 PROVE s[i] = PeerOrder[Place(b + i - 1)]
      <4>1. CASE i = L + 1
        <5>1. b + i - 1 = b + L
          BY <1>1, <4>1, CountNat
        <5>2. QED
          BY <1>2, <3>2, <4>1, <5>1 DEF StreakFrom
      <4>2. CASE i # L + 1
        <5>1. i \in 1..L
          BY <1>1, <3>3, <4>2
        <5>2. QED
          BY <1>2, <3>2, <5>1 DEF StreakFrom
      <4>3. QED
        BY <4>1, <4>2
    <3>4. QED
      BY <3>3
  <2>3. QED
    BY <2>1, <2>2
<1> DEFINE b == Place(a + L)
<1>4. b \in 1..Count /\ floor = PeerOrder[b]
  <2>1. a + (L + 1) - 1 = a + L /\ L + 1 \in 1..L + 1
    BY <1>1, CountNat
  <2>2. floor = PeerOrder[b]
    BY <1>2, <1>3, <2>1
  <2>3. b \in 1..Count
    BY <1>1, CountNat DEF Place
  <2>4. QED
    BY <2>2, <2>3
<1>5. floor' = PeerOrder[Place(b + 1)]
  BY <1>4, NextPlace
<1> HIDE DEF s, b
<1>6. /\ Len(s) <= Count + 1 /\ Len(s) \in Nat
  BY <1>1, <1>2, CountNat
<1>7. /\ streak' \in Seq(Peers)
      /\ Len(s) <= Count => streak' = s
      /\ Len(s) = Count + 1 =>
           /\ Len(streak') = Count
           /\ \A i \in 1..Count : streak'[i] = s[i + 1]
  <2>1. streak' = LastRound(s)
    BY DEF s
  <2>2. /\ LastRound(s) \in Seq(Peers)
        /\ Len(s) <= Count => LastRound(s) = s
        /\ Len(s) = Count + 1 =>
              /\ Len(LastRound(s)) = Count
              /\ \A i \in 1..Count : LastRound(s)[i] = s[i + 1]
    BY ONLY <1>2, <1>6, LastRoundKeeps, Zenon
  <2>3. QED
    BY ONLY <2>1, <2>2, Zenon
<1>8. CASE L + 1 <= Count
  <2>1. streak' = s
    BY <1>2, <1>8, <1>7
  <2>2. Place(b + 1) = Place(a + (L + 1))
    BY <1>1, <1>8, CountNat DEF Place, b
  <2>3. StreakFrom(a)'
    BY <1>2, <1>3, <1>5, <2>1, <2>2 DEF StreakFrom
  <2>4. QED
    BY <1>2, <1>3, <1>8, <2>1, <2>3 DEF StreakInv
<1>9. CASE L = Count
  <2>1. /\ streak' \in Seq(Peers) /\ Len(streak') = Count
        /\ \A i \in 1..Count : streak'[i] = s[i + 1]
    BY <1>2, <1>9, <1>7
  <2> DEFINE c == Place(a + 1)
  <2>2. c \in 1..Count /\ b = a /\ Place(c + Count) = c
    BY <1>3, <1>9, CountNat DEF Place, b
  <2>3. ASSUME NEW i \in 1..Count PROVE streak'[i] = PeerOrder[Place(c + i - 1)]
    <3>1. i + 1 \in 1..L + 1
      BY <1>9, CountNat
    <3>2. s[i + 1] = PeerOrder[Place(a + (i + 1) - 1)]
      BY <1>3, <3>1
    <3>3. Place(a + (i + 1) - 1) = Place(c + i - 1)
      BY <1>3, CountNat DEF Place
    <3>4. QED
      BY <2>1, <3>2, <3>3
  <2> HIDE DEF c
  <2>4. floor' = PeerOrder[Place(c + Len(streak'))]
    BY <1>5, <2>1, <2>2 DEF c
  <2>5. StreakFrom(c)'
    BY <2>1, <2>3, <2>4 DEF StreakFrom
  <2>6. QED
    BY <2>1, <2>2, <2>5, CountNat DEF StreakInv
<1>10. QED
  BY <1>1, <1>8, <1>9, CountNat

LEMMA StreakInvHolds == Spec => []StreakInv
<1>1. Init => StreakInv
  BY CountNat DEF Init, StreakInv
<1>2. FloorInv /\ StreakInv /\ [Next]_vars => StreakInv'
  <2> SUFFICES ASSUME FloorInv, StreakInv, [Next]_vars PROVE StreakInv'
    OBVIOUS
  <2>1. CASE Write \/ UNCHANGED vars
    <3>1. floor' = floor /\ streak' = streak
      BY <2>1 DEF Write, vars
    <3>2. QED
      BY <3>1 DEF StreakInv, StreakFrom
  <2>2. CASE Submit
    <3> DEFINE d == Route(floor, draft)
    <3>1. /\ floor' = d.next
          /\ streak' = IF d.fallback THEN LastRound(Append(streak, floor)) ELSE <<>>
      BY <2>2 DEF Submit
    <3>2. d.fallback => d.next = RoundRobinAfter(floor, PeerOrder)
      BY DEF Route, PolicyNext
    <3> HIDE DEF d
    <3>3. CASE d.fallback
      BY <3>1, <3>2, <3>3, StreakGrows
    <3>4. CASE ~d.fallback
      BY <3>1, <3>4, CountNat DEF StreakInv
    <3>5. QED
      BY <3>3, <3>4
  <2>3. QED
    BY <2>1, <2>2 DEF Next
<1>3. QED
  BY <1>1, <1>2, FloorInvHolds, PTL DEF Spec

\* For every number of peers: when nobody has been addressed for a whole
\* round, every peer has spoken in it (roundRobinAfter).
THEOREM RoutingFallbackVisitsEveryone == Spec => []FallbackVisitsEveryone
<1>1. StreakInv => FallbackVisitsEveryone
  <2> SUFFICES ASSUME StreakInv, Len(streak) = Count
               PROVE  { streak[i] : i \in DOMAIN streak } = Peers
    BY DEF FallbackVisitsEveryone, Count
  <2>1. streak \in Seq(Peers) /\ streak # <<>> /\ DOMAIN streak = 1..Count
    BY CountNat DEF StreakInv
  <2>2. PICK a \in 1..Count : \A i \in 1..Count : streak[i] = PeerOrder[Place(a + i - 1)]
    BY <2>1 DEF StreakInv, StreakFrom
  <2>3. \A i \in 1..Count : streak[i] \in Peers
    BY <2>1
  <2>4. ASSUME NEW j \in 1..Count PROVE \E i \in 1..Count : streak[i] = PeerOrder[j]
    <3>1. CASE a <= j
      <4>1. j - a + 1 \in 1..Count /\ Place(a + (j - a + 1) - 1) = j
        BY <3>1, CountNat DEF Place
      <4>2. QED
        BY <2>2, <4>1
    <3>2. CASE a > j
      <4>1. j + Count - a + 1 \in 1..Count /\ Place(a + (j + Count - a + 1) - 1) = j
        BY <3>2, CountNat DEF Place
      <4>2. QED
        BY <2>2, <4>1
    <3>3. QED
      BY <3>1, <3>2, CountNat
  <2>5. Peers = { PeerOrder[j] : j \in 1..Count }
    BY CountNat DEF Peers
  <2>6. ASSUME NEW p \in Peers PROVE \E i \in DOMAIN streak : p = streak[i]
    <3>1. PICK j \in 1..Count : p = PeerOrder[j]
      BY <2>5, <2>6, Zenon
    <3>2. PICK i \in 1..Count : streak[i] = PeerOrder[j]
      BY <2>4, Zenon
    <3>3. QED
      BY <2>1, <3>1, <3>2, Zenon
  <2>7. ASSUME NEW i \in DOMAIN streak PROVE streak[i] \in Peers
    BY <2>1, <2>3, <2>7
  <2>8. QED
    BY <2>6, <2>7
<1>2. QED
  BY <1>1, StreakInvHolds, PTL
=============================================================================
