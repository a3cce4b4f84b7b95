------------------------------ MODULE BusProofs ------------------------------
(* Proofs about module Bus, for every number of publishers, topics,        *)
(* subscriptions, messages and every buffer size.                          *)
EXTENDS Bus, FiniteSetTheorems, SequenceTheorems, TLAPS

Msg == Publishers \X Nat

Types ==
  /\ closed \in BOOLEAN
  /\ slice \in [Topics -> [array : Seq(Subs), len : Nat]]
  /\ \A t \in Topics : slice[t].len <= Len(slice[t].array)
  /\ sub \in [Subs -> SubscriptionOf(Msg)]
  /\ topicOf \in [Subs -> Topics]
  /\ walk = [p \in Publishers |-> walk[p]]
  /\ sent \in [Publishers -> Nat]
  /\ got \in [Subs -> Seq(Msg)]

\* No element twice: cancel removes the one place where its own stands.
Distinct ==
  \A t \in Topics : \A i, j \in 1..slice[t].len :
    slice[t].array[i] = slice[t].array[j] => i = j

\* The slices and the open flags of the subscriptions agree.
Agree ==
  \A t \in Topics : \A s \in Subs :
    (\E i \in 1..slice[t].len : slice[t].array[i] = s)
      <=> topicOf[s] = t /\ sub[s].state = "open"

\* Close waited for every publisher, and none begins after it.
NoneInside == closed => Readers = {}

BusInv == Types /\ Distinct /\ Agree /\ NoneInside

----------------------------------------------------------------------------
LEMMA BusInit == Init => BusInv
<1> SUFFICES ASSUME Init PROVE BusInv
  OBVIOUS
<1>1. \A t \in Topics : slice[t] = [array |-> <<>>, len |-> 0]
  BY DEF Init
<1>2. Types
  <2>1. NoSubscription \in SubscriptionOf(Msg) /\ <<>> \in Seq(Msg) /\ <<>> \in Seq(Subs)
    BY DEF NoSubscription, SubscriptionOf
  <2>2. slice \in [Topics -> [array : Seq(Subs), len : Nat]]
    BY <2>1 DEF Init
  <2>3. \A t \in Topics : slice[t].len <= Len(slice[t].array)
    BY <1>1
  <2>4. sub \in [Subs -> SubscriptionOf(Msg)] /\ got \in [Subs -> Seq(Msg)]
    BY <2>1 DEF Init
  <2>5. QED
    BY <2>2, <2>3, <2>4 DEF Init, Types
<1>3. Distinct /\ Agree
  BY <1>1 DEF Init, Distinct, Agree, NoSubscription
<1>4. NoneInside
  BY DEF Init, NoneInside
<1>5. QED
  BY <1>2, <1>3, <1>4 DEF BusInv

\* The steps of a publisher and of a subscriber leave every slice and every
\* open flag alone.
LEMMA SlicesKept ==
  ASSUME BusInv, UNCHANGED <<slice, topicOf>>,
         \A s \in Subs : sub'[s].state = "open" <=> sub[s].state = "open"
  PROVE  Distinct' /\ Agree'
<1>1. Distinct'
  BY DEF BusInv, Distinct
<1>2. Agree'
  BY DEF BusInv, Agree
<1>3. QED
  BY <1>1, <1>2

LEMMA PublishKeeps ==
  ASSUME BusInv, NEW p \in Publishers, PublishDeliver(p)
  PROVE  /\ sub' \in [Subs -> SubscriptionOf(Msg)]
         /\ \A s \in Subs : sub'[s].state = sub[s].state
<1>1. PICK d : sub' = [sub EXCEPT ![d] = Deliver(sub[d], Current(p))]
  BY DEF PublishDeliver
<1>2. Current(p) \in Msg
  BY DEF BusInv, Types, Current, Msg
<1>3. ASSUME NEW s \in Subs
      PROVE  /\ Deliver(sub[s], Current(p)) \in SubscriptionOf(Msg)
             /\ Deliver(sub[s], Current(p)).state = sub[s].state
  <2>1. sub[s] \in SubscriptionOf(Msg)
    BY DEF BusInv, Types
  <2>2. QED
    BY <1>2, <2>1 DEF Deliver, SubscriptionOf
<1>4. QED
  BY <1>1, <1>3 DEF BusInv, Types

LEMMA ReceiveKeeps ==
  ASSUME BusInv, NEW s \in Subs, Receive(s)
  PROVE  /\ sub' \in [Subs -> SubscriptionOf(Msg)] /\ got' \in [Subs -> Seq(Msg)]
         /\ \A r \in Subs : sub'[r].state = sub[r].state
<1>1. /\ sub[s] \in SubscriptionOf(Msg) /\ sub[s].queue # <<>> /\ got[s] \in Seq(Msg)
      /\ sub' = [sub EXCEPT ![s] = Received(sub[s])]
      /\ got' = [got EXCEPT ![s] = Append(got[s], Head(sub[s].queue))]
  BY DEF BusInv, Types, Receive, CanReceive
<1>2. sub[s].queue \in Seq(Msg)
  BY <1>1 DEF SubscriptionOf
<1>3. Head(sub[s].queue) \in Msg /\ Tail(sub[s].queue) \in Seq(Msg)
  BY <1>1, <1>2, HeadTailProperties
<1>4. Received(sub[s]) \in SubscriptionOf(Msg) /\ Received(sub[s]).state = sub[s].state
  BY <1>1, <1>3 DEF Received, SubscriptionOf
<1>5. Append(got[s], Head(sub[s].queue)) \in Seq(Msg)
  BY <1>1, <1>3, AppendProperties
<1>6. QED
  BY <1>1, <1>4, <1>5 DEF BusInv, Types

\* A topic's slice is replaced by one that agrees with the subscriptions.
LEMMA SliceReplaced ==
  ASSUME BusInv, NEW t \in Topics, NEW new \in [array : Seq(Subs), len : Nat],
         new.len <= Len(new.array),
         \A i, j \in 1..new.len : new.array[i] = new.array[j] => i = j,
         slice' = [slice EXCEPT ![t] = new], UNCHANGED topicOf,
         \A r \in Subs : (\E i \in 1..new.len : new.array[i] = r)
                            <=> topicOf[r] = t /\ sub'[r].state = "open",
         \A r \in Subs : topicOf[r] # t => sub'[r].state = sub[r].state
  PROVE  /\ slice' \in [Topics -> [array : Seq(Subs), len : Nat]]
         /\ \A u \in Topics : slice'[u].len <= Len(slice'[u].array)
         /\ Distinct' /\ Agree'
<1>1. slice'[t] = new /\ \A u \in Topics : u # t => slice'[u] = slice[u]
  BY DEF BusInv, Types
<1>2. slice' \in [Topics -> [array : Seq(Subs), len : Nat]]
  BY DEF BusInv, Types
<1>3. ASSUME NEW u \in Topics
      PROVE  /\ slice'[u].len <= Len(slice'[u].array)
             /\ \A i, j \in 1..slice'[u].len : slice'[u].array[i] = slice'[u].array[j] => i = j
             /\ \A r \in Subs : (\E i \in 1..slice'[u].len : slice'[u].array[i] = r)
                                <=> topicOf[r] = u /\ sub'[r].state = "open"
  <2>1. CASE u = t
    BY <2>1, <1>1
  <2>2. CASE u # t
    <3>1. slice'[u] = slice[u] /\ slice[u].len <= Len(slice[u].array)
      BY <2>2, <1>1 DEF BusInv, Types
    <3>2. \A i, j \in 1..slice[u].len : slice[u].array[i] = slice[u].array[j] => i = j
      BY DEF BusInv, Distinct
    <3>3. \A r \in Subs : (\E i \in 1..slice[u].len : slice[u].array[i] = r)
                           <=> topicOf[r] = u /\ sub[r].state = "open"
      BY DEF BusInv, Agree
    <3>4. \A r \in Subs : topicOf[r] = u => sub'[r].state = sub[r].state
      BY <2>2
    <3>5. QED
      BY <3>1, <3>2, <3>3, <3>4
  <2>3. QED
    BY <2>1, <2>2
<1>4. Distinct' /\ Agree'
  BY <1>3 DEF Distinct, Agree
<1>5. QED
  BY <1>2, <1>3, <1>4

\* What Subscribe makes of a slice: everything that was in it and one more.
LEMMA WithOne ==
  ASSUME NEW sl \in [array : Seq(Subs), len : Nat], sl.len <= Len(sl.array),
         \A i, j \in 1..sl.len : sl.array[i] = sl.array[j] => i = j,
         NEW s \in Subs, \A i \in 1..sl.len : sl.array[i] # s,
         NEW new, new = [array |-> Append(SubSeq(sl.array, 1, sl.len), s), len |-> sl.len + 1]
  PROVE  /\ new \in [array : Seq(Subs), len : Nat]
         /\ new.len <= Len(new.array)
         /\ \A i, j \in 1..new.len : new.array[i] = new.array[j] => i = j
         /\ \A r \in Subs : (\E i \in 1..new.len : new.array[i] = r)
                              <=> r = s \/ \E i \in 1..sl.len : sl.array[i] = r
<1> DEFINE front == SubSeq(sl.array, 1, sl.len)
           a == Append(front, s)
           n == sl.len
<1>1. sl.array \in Seq(Subs) /\ n \in Nat /\ n <= Len(sl.array)
  OBVIOUS
<1>2. front \in Seq(Subs) /\ Len(front) = n /\ \A i \in 1..n : front[i] = sl.array[i]
  BY <1>1, SubSeqProperties
<1> HIDE DEF front
<1>3. /\ a \in Seq(Subs) /\ Len(a) = n + 1 /\ a[n + 1] = s
      /\ \A i \in 1..n : a[i] = sl.array[i]
  BY <1>2, AppendProperties
<1>4. new = [array |-> a, len |-> n + 1]
  BY DEF front
<1> HIDE DEF a, n
<1>5. \A i \in 1..n + 1 : i \in 1..n \/ i = n + 1
  BY <1>1
<1>6. \A i \in 1..n : sl.array[i] # s
  BY DEF n
<1>7. \A i, j \in 1..n + 1 : a[i] = a[j] => i = j
  <2> SUFFICES ASSUME NEW i \in 1..n + 1, NEW j \in 1..n + 1, a[i] = a[j] PROVE i = j
    OBVIOUS
  <2>1. CASE i \in 1..n /\ j \in 1..n
    BY <2>1, <1>3 DEF n
  <2>2. CASE i = n + 1 \/ j = n + 1
    BY <2>2, <1>3, <1>5, <1>6
  <2>3. QED
    BY <1>5, <2>1, <2>2
<1>8. ASSUME NEW r \in Subs
      PROVE  (\E i \in 1..n + 1 : a[i] = r) <=> r = s \/ \E i \in 1..n : sl.array[i] = r
  <2>1. n + 1 \in 1..n + 1 /\ \A i \in 1..n : i \in 1..n + 1
    BY <1>1
  <2>2. QED
    BY <1>3, <1>5, <2>1
<1>9. n + 1 \in Nat /\ n + 1 <= Len(a)
  BY <1>1, <1>3
<1>10. QED
  BY <1>3, <1>4, <1>7, <1>8, <1>9 DEF n

\* What removal in place leaves in the slice: everything but one element.
LEMMA WithoutOne ==
  ASSUME NEW sl \in [array : Seq(Subs), len : Nat], sl.len <= Len(sl.array),
         \A i, j \in 1..sl.len : sl.array[i] = sl.array[j] => i = j,
         NEW m \in 1..sl.len
  PROVE  /\ Without(sl, m) \in [array : Seq(Subs), len : Nat]
         /\ Without(sl, m).len <= Len(Without(sl, m).array)
         /\ \A i, j \in 1..Without(sl, m).len :
              Without(sl, m).array[i] = Without(sl, m).array[j] => i = j
         /\ \A r \in Subs : (\E i \in 1..Without(sl, m).len : Without(sl, m).array[i] = r)
                              <=> r # sl.array[m] /\ \E i \in 1..sl.len : sl.array[i] = r
<1> DEFINE a == [j \in DOMAIN sl.array |->
                   IF m <= j /\ j < sl.len THEN sl.array[j + 1] ELSE sl.array[j]]
<1>1. Without(sl, m) = [array |-> a, len |-> sl.len - 1]
  BY DEF Without
<1>2. sl.array \in Seq(Subs) /\ sl.len \in Nat /\ DOMAIN sl.array = 1..Len(sl.array)
  OBVIOUS
<1>3. a \in Seq(Subs) /\ Len(a) = Len(sl.array)
  <2>1. \A j \in 1..Len(sl.array) : a[j] \in Subs
    BY <1>2
  <2>2. a \in [1..Len(sl.array) -> Subs]
    BY <1>2, <2>1
  <2>3. QED
    BY <1>2, <2>2
<1>4. \A j \in 1..sl.len - 1 : a[j] = IF m <= j THEN sl.array[j + 1] ELSE sl.array[j]
  BY <1>2
<1> HIDE DEF a
<1>5. \A i, j \in 1..sl.len - 1 : a[i] = a[j] => i = j
  BY <1>2, <1>4
<1>6. ASSUME NEW r \in Subs, NEW i \in 1..sl.len, sl.array[i] = r, r # sl.array[m]
      PROVE  \E j \in 1..sl.len - 1 : a[j] = r
  <2>1. CASE i < m
    <3>1. i \in 1..sl.len - 1 /\ a[i] = r
      BY <1>2, <1>4, <1>6, <2>1
    <3>2. QED
      BY <3>1
  <2>2. CASE i > m
    <3>1. i - 1 \in 1..sl.len - 1 /\ a[i - 1] = r
      BY <1>2, <1>4, <1>6, <2>2
    <3>2. QED
      BY <3>1
  <2>3. QED
    BY <1>6, <2>1, <2>2
<1>7. ASSUME NEW j \in 1..sl.len - 1
      PROVE  a[j] # sl.array[m] /\ \E i \in 1..sl.len : sl.array[i] = a[j]
  <2>1. CASE m <= j
    <3>1. j + 1 \in 1..sl.len /\ j + 1 # m /\ a[j] = sl.array[j + 1]
      BY <1>2, <1>4, <2>1
    <3>2. QED
      BY <3>1
  <2>2. CASE ~(m <= j)
    <3>1. j \in 1..sl.len /\ j # m /\ a[j] = sl.array[j]
      BY <1>2, <1>4, <2>2
    <3>2. QED
      BY <3>1
  <2>3. QED
    BY <2>1, <2>2
<1>8. QED
  BY <1>1, <1>2, <1>3, <1>5, <1>6, <1>7

----------------------------------------------------------------------------
\* What is known of the slice a subscription belongs to.
LEMMA SliceOfOne ==
  ASSUME BusInv, NEW s \in Subs
  PROVE  /\ topicOf[s] \in Topics /\ slice[topicOf[s]] \in [array : Seq(Subs), len : Nat]
         /\ slice[topicOf[s]].len <= Len(slice[topicOf[s]].array)
         /\ \A i, j \in 1..slice[topicOf[s]].len :
              slice[topicOf[s]].array[i] = slice[topicOf[s]].array[j] => i = j
         /\ \A r \in Subs : (\E i \in 1..slice[topicOf[s]].len : slice[topicOf[s]].array[i] = r)
                            <=> topicOf[r] = topicOf[s] /\ sub[r].state = "open"
<1> DEFINE t == topicOf[s]
<1>1. t \in Topics /\ slice[t] \in [array : Seq(Subs), len : Nat]
  BY DEF BusInv, Types
<1>2. slice[t].len <= Len(slice[t].array)
  BY <1>1 DEF BusInv, Types
<1> HIDE DEF t
<1>3. \A i, j \in 1..slice[t].len : slice[t].array[i] = slice[t].array[j] => i = j
  BY <1>1 DEF BusInv, Distinct
<1>4. \A r \in Subs : (\E i \in 1..slice[t].len : slice[t].array[i] = r)
                      <=> topicOf[r] = t /\ sub[r].state = "open"
  BY <1>1 DEF BusInv, Agree
<1>5. QED
  BY <1>1, <1>2, <1>3, <1>4 DEF t

LEMMA SubscribeKeeps ==
  ASSUME BusInv, NEW s \in Subs, Subscribe(s)
  PROVE  BusInv'
<1> DEFINE t == topicOf[s]
           new == [array |-> Append(SubSeq(slice[t].array, 1, slice[t].len), s),
                   len   |-> slice[t].len + 1]
<1>1. /\ slice' = [slice EXCEPT ![t] = new] /\ sub' = [sub EXCEPT ![s] = NewSubscription]
      /\ sub[s].state = "none" /\ UNCHANGED <<closed, topicOf, walk, sent, got>>
  BY DEF Subscribe
<1>2. /\ t \in Topics /\ slice[t] \in [array : Seq(Subs), len : Nat]
      /\ slice[t].len <= Len(slice[t].array)
      /\ \A i, j \in 1..slice[t].len : slice[t].array[i] = slice[t].array[j] => i = j
      /\ \A r \in Subs : (\E i \in 1..slice[t].len : slice[t].array[i] = r)
                         <=> topicOf[r] = t /\ sub[r].state = "open"
  BY SliceOfOne
<1>3. \A i \in 1..slice[t].len : slice[t].array[i] # s
  BY <1>1, <1>2
<1>4. /\ new \in [array : Seq(Subs), len : Nat]
      /\ new.len <= Len(new.array)
      /\ \A i, j \in 1..new.len : new.array[i] = new.array[j] => i = j
      /\ \A r \in Subs : (\E i \in 1..new.len : new.array[i] = r)
                         <=> r = s \/ \E i \in 1..slice[t].len : slice[t].array[i] = r
  <2> HIDE DEF t
  <2> SUFFICES ASSUME NEW x, x = new
               PROVE  /\ x \in [array : Seq(Subs), len : Nat]
                      /\ x.len <= Len(x.array)
                      /\ \A i, j \in 1..x.len : x.array[i] = x.array[j] => i = j
                      /\ \A r \in Subs : (\E i \in 1..x.len : x.array[i] = r)
                           <=> r = s \/ \E i \in 1..slice[t].len : slice[t].array[i] = r
    OBVIOUS
  <2>1. QED
    BY <1>2, <1>3, WithOne
<1> HIDE DEF new
<1>5. sub'[s].state = "open" /\ \A r \in Subs : r # s => sub'[r] = sub[r]
  BY <1>1 DEF BusInv, Types, NewSubscription
<1>6. \A r \in Subs : (\E i \in 1..new.len : new.array[i] = r)
                      <=> topicOf[r] = t /\ sub'[r].state = "open"
  BY <1>2, <1>4, <1>5
<1>7. \A r \in Subs : topicOf[r] # t => sub'[r].state = sub[r].state
  BY <1>5
<1>8. /\ slice' \in [Topics -> [array : Seq(Subs), len : Nat]]
      /\ \A u \in Topics : slice'[u].len <= Len(slice'[u].array)
      /\ Distinct' /\ Agree'
  BY <1>1, <1>2, <1>4, <1>6, <1>7, SliceReplaced
<1>9. Types'
  <2>1. NewSubscription \in SubscriptionOf(Msg)
    BY DEF NewSubscription, SubscriptionOf
  <2>2. QED
    BY <1>1, <1>8, <2>1 DEF BusInv, Types
<1>10. NoneInside'
  BY <1>1 DEF BusInv, NoneInside, Readers
<1>11. QED
  BY <1>8, <1>9, <1>10 DEF BusInv

\* A closed subscription keeps what it has buffered.
LEMMA ClosedType ==
  ASSUME NEW x \in SubscriptionOf(Msg)
  PROVE  /\ CloseSubscription(x) \in SubscriptionOf(Msg)
         /\ CloseSubscription(x).state # "open"
         /\ CloseSubscription(x).queue = x.queue
  BY DEF CloseSubscription, SubscriptionOf

LEMMA CancelKeeps ==
  ASSUME BusInv, NEW s \in Subs, CancelSub(s)
  PROVE  BusInv'
<1> DEFINE t == topicOf[s]
           at == { i \in 1..slice[t].len : slice[t].array[i] = s }
           m == CHOOSE i \in at : \A j \in at : i <= j
<1>1. /\ slice' = IF at = {} THEN slice ELSE [slice EXCEPT ![t] = Without(slice[t], m)]
      /\ sub' = [sub EXCEPT ![s] = CloseSubscription(sub[s])]
      /\ UNCHANGED <<closed, topicOf, walk, sent, got>>
  BY DEF CancelSub
<1>2. /\ t \in Topics /\ slice[t] \in [array : Seq(Subs), len : Nat]
      /\ slice[t].len <= Len(slice[t].array)
      /\ \A i, j \in 1..slice[t].len : slice[t].array[i] = slice[t].array[j] => i = j
      /\ \A r \in Subs : (\E i \in 1..slice[t].len : slice[t].array[i] = r)
                         <=> topicOf[r] = t /\ sub[r].state = "open"
  BY SliceOfOne
<1>3. sub[s] \in SubscriptionOf(Msg)
  BY DEF BusInv, Types
<1>4. /\ sub'[s].state # "open" /\ \A r \in Subs : r # s => sub'[r] = sub[r]
      /\ sub' \in [Subs -> SubscriptionOf(Msg)]
  BY <1>1, <1>3, ClosedType DEF BusInv, Types
<1>5. NoneInside'
  BY <1>1 DEF BusInv, NoneInside, Readers
<1>6. CASE at = {}
  <2>1. sub[s].state # "open" /\ UNCHANGED <<slice, topicOf>>
    BY <1>1, <1>2, <1>6
  <2>2. \A r \in Subs : sub'[r].state = "open" <=> sub[r].state = "open"
    BY <1>4, <2>1
  <2>3. Distinct' /\ Agree'
    BY <2>1, <2>2, SlicesKept
  <2>4. Types'
    BY <1>1, <1>4, <2>1 DEF BusInv, Types
  <2>5. QED
    BY <1>5, <2>3, <2>4 DEF BusInv
<1>7. CASE at # {}
  <2>1. m \in 1..slice[t].len /\ slice[t].array[m] = s
    <3>1. PICK i \in at : TRUE
      BY <1>7
    <3>2. \A j \in at : i <= j
      BY <1>2, <3>1
    <3>3. m \in at
      BY <3>1, <3>2
    <3>4. QED
      BY <3>3
  <2> HIDE DEF m
  <2> DEFINE new == Without(slice[t], m)
  <2>2. /\ new \in [array : Seq(Subs), len : Nat]
        /\ new.len <= Len(new.array)
        /\ \A i, j \in 1..new.len : new.array[i] = new.array[j] => i = j
        /\ \A r \in Subs : (\E i \in 1..new.len : new.array[i] = r)
                           <=> r # slice[t].array[m] /\ \E i \in 1..slice[t].len : slice[t].array[i] = r
    BY <1>2, <2>1, WithoutOne
  <2>3. slice' = [slice EXCEPT ![t] = new]
    BY <1>1, <1>7
  <2> HIDE DEF new
  <2>4. \A r \in Subs : (\E i \in 1..new.len : new.array[i] = r)
                        <=> topicOf[r] = t /\ sub'[r].state = "open"
    BY <1>2, <1>4, <2>1, <2>2
  <2>5. \A r \in Subs : topicOf[r] # t => sub'[r].state = sub[r].state
    BY <1>4
  <2>6. /\ slice' \in [Topics -> [array : Seq(Subs), len : Nat]]
        /\ \A u \in Topics : slice'[u].len <= Len(slice'[u].array)
        /\ Distinct' /\ Agree'
    BY <1>1, <1>2, <2>2, <2>3, <2>4, <2>5, SliceReplaced
  <2>7. Types'
    BY <1>1, <1>4, <2>6 DEF BusInv, Types
  <2>8. QED
    BY <1>5, <2>6, <2>7 DEF BusInv
<1>8. QED
  BY <1>6, <1>7

LEMMA CloseKeeps ==
  ASSUME BusInv, Close
  PROVE  BusInv'
<1>1. /\ closed' = TRUE /\ slice' = [t \in Topics |-> [array |-> <<>>, len |-> 0]]
      /\ sub' = [s \in Subs |->
                   IF s \in Listed(topicOf[s]) THEN CloseSubscription(sub[s]) ELSE sub[s]]
      /\ Readers = {} /\ UNCHANGED <<topicOf, walk, sent, got>>
  BY DEF Close, WriteLock
<1>2. ASSUME NEW s \in Subs
      PROVE  sub'[s] \in SubscriptionOf(Msg) /\ sub'[s].state # "open"
  <2>1. sub[s] \in SubscriptionOf(Msg) /\ topicOf[s] \in Topics
    BY DEF BusInv, Types
  <2>2. CASE s \in Listed(topicOf[s])
    BY <1>1, <2>1, <2>2, ClosedType
  <2>3. CASE s \notin Listed(topicOf[s])
    BY <1>1, <2>1, <2>3 DEF BusInv, Agree, Listed
  <2>4. QED
    BY <2>2, <2>3
<1>3. \A t \in Topics : slice'[t] = [array |-> <<>>, len |-> 0]
  BY <1>1
<1>4. Types'
  <2>1. <<>> \in Seq(Subs)
    OBVIOUS
  <2>2. slice' \in [Topics -> [array : Seq(Subs), len : Nat]]
    BY <1>1, <2>1
  <2>3. \A t \in Topics : slice'[t].len <= Len(slice'[t].array)
    BY <1>3
  <2>4. sub' \in [Subs -> SubscriptionOf(Msg)]
    BY <1>1, <1>2
  <2>5. QED
    BY <1>1, <2>2, <2>3, <2>4 DEF BusInv, Types
<1>5. Distinct' /\ Agree'
  BY <1>2, <1>3 DEF Distinct, Agree
<1>6. NoneInside'
  BY <1>1 DEF NoneInside, Readers
<1>7. QED
  BY <1>4, <1>5, <1>6 DEF BusInv

LEMMA BusStep == BusInv /\ [Next]_vars => BusInv'
<1> SUFFICES ASSUME BusInv, [Next]_vars PROVE BusInv'
  OBVIOUS
<1>1. ASSUME NEW p \in Publishers, NEW t \in Topics, PublishBegin(p, t) PROVE BusInv'
  <2>1. /\ closed = FALSE /\ UNCHANGED <<closed, slice, sub, topicOf, got>>
        /\ sent' = [sent EXCEPT ![p] = sent[p] + 1]
        /\ walk' = [walk EXCEPT ![p] = [at |-> 1, len |-> slice[t].len, topic |-> t]]
    BY <1>1 DEF PublishBegin, BusInv, Types
  <2>2. walk' = [q \in Publishers |-> walk'[q]] /\ sent' \in [Publishers -> Nat]
    <3>1. walk = [q \in Publishers |-> walk[q]] /\ sent \in [Publishers -> Nat]
      BY DEF BusInv, Types
    <3>2. walk' = [q \in Publishers |-> walk'[q]]
      BY <2>1, <3>1
    <3>3. sent' \in [Publishers -> Nat]
      BY <2>1, <3>1
    <3>4. QED
      BY <3>2, <3>3
  <2>3. Types'
    BY <2>1, <2>2 DEF BusInv, Types
  <2>4. Distinct' /\ Agree'
    BY <2>1, SlicesKept
  <2>5. QED
    BY <2>1, <2>3, <2>4 DEF BusInv, NoneInside
<1>2. ASSUME NEW p \in Publishers, PublishDeliver(p) PROVE BusInv'
  <2>1. /\ walk[p].at # 0 /\ UNCHANGED <<closed, slice, topicOf, sent, got>>
        /\ walk' = [walk EXCEPT ![p].at = walk[p].at + 1]
    <3>1. walk[p].at \in 1..walk[p].len
      BY <1>2 DEF PublishDeliver
    <3>2. walk[p].at # 0
      BY <3>1
    <3>3. /\ UNCHANGED <<closed, slice, topicOf, sent, got>>
          /\ walk' = [walk EXCEPT ![p].at = walk[p].at + 1]
      BY <1>2 DEF PublishDeliver
    <3>4. QED
      BY <3>2, <3>3
  <2>2. closed = FALSE
    BY <2>1 DEF BusInv, Types, NoneInside, Readers
  <2>3. walk' = [q \in Publishers |-> walk'[q]]
    BY <2>1 DEF BusInv, Types
  <2>4. Types'
    BY <1>2, <2>1, <2>3, PublishKeeps DEF BusInv, Types
  <2>5. Distinct' /\ Agree'
    BY <1>2, <2>1, PublishKeeps, SlicesKept
  <2>6. QED
    BY <2>1, <2>2, <2>4, <2>5 DEF BusInv, NoneInside
<1>3. ASSUME NEW p \in Publishers, PublishEnd(p) PROVE BusInv'
  <2>1. UNCHANGED <<closed, slice, sub, topicOf, sent, got>> /\ walk' = [walk EXCEPT ![p] = Idle]
    BY <1>3 DEF PublishEnd
  <2>2. walk' = [q \in Publishers |-> walk'[q]] /\ Readers' \subseteq Readers
    BY <2>1 DEF BusInv, Types, Readers, Idle
  <2>3. Types' /\ NoneInside'
    BY <2>1, <2>2 DEF BusInv, Types, NoneInside
  <2>4. Distinct' /\ Agree'
    BY <2>1, SlicesKept
  <2>5. QED
    BY <2>3, <2>4 DEF BusInv
<1>4. ASSUME NEW s \in Subs, Receive(s) PROVE BusInv'
  <2>1. UNCHANGED <<closed, slice, topicOf, walk, sent>>
    BY <1>4 DEF Receive
  <2>2. Types' /\ NoneInside'
    BY <1>4, <2>1, ReceiveKeeps DEF BusInv, Types, NoneInside, Readers
  <2>3. Distinct' /\ Agree'
    BY <1>4, <2>1, ReceiveKeeps, SlicesKept
  <2>4. QED
    BY <2>2, <2>3 DEF BusInv
<1>5. CASE UNCHANGED vars
  <2>1. UNCHANGED <<closed, slice, sub, topicOf, walk, sent, got>>
    BY <1>5 DEF vars
  <2>2. Types'
    BY <2>1 DEF BusInv, Types
  <2>3. Distinct' /\ Agree'
    BY <2>1, SlicesKept
  <2>4. NoneInside'
    BY <2>1 DEF BusInv, NoneInside, Readers
  <2>5. QED
    BY <2>2, <2>3, <2>4 DEF BusInv
<1>6. QED
  BY <1>1, <1>2, <1>3, <1>4, <1>5, SubscribeKeeps, CancelKeeps, CloseKeeps DEF Next, Walk

----------------------------------------------------------------------------
\* A slice without repetitions has as many elements as its length says.
LEMMA ListedCount ==
  ASSUME Types, Distinct, NEW t \in Topics
  PROVE  Cardinality(Listed(t)) = slice[t].len
<1> DEFINE n == slice[t].len
           f == [i \in 1..n |-> slice[t].array[i]]
<1>1. n \in Nat
  BY DEF Types
<1>2. f \in [1..n -> Listed(t)]
  BY DEF Listed
<1>3. \A i, j \in 1..n : f[i] = f[j] => i = j
  BY DEF Distinct
<1>4. \A x \in Listed(t) : \E i \in 1..n : f[i] = x
  BY DEF Listed
<1>5. f \in Bijection(1..n, Listed(t))
  BY <1>2, <1>3, <1>4 DEF Bijection, Injection, Surjection, IsInjective
<1>6. ExistsBijection(1..n, Listed(t))
  BY <1>5 DEF ExistsBijection
<1>7. QED
  BY <1>1, <1>6, FS_CountingElements

\* For any number of publishers, topics and subscriptions, a slice holds
\* exactly the open subscriptions of its topic, each once, although cancel
\* removes in place (Subscribe, cancel, Close).
THEOREM BusListedIffOpen == Spec => []ListedIffOpen
<1>1. ASSUME BusInv PROVE ListedIffOpen
  <2> SUFFICES ASSUME NEW t \in Topics
               PROVE  /\ Listed(t) = { s \in Subs : topicOf[s] = t /\ sub[s].state = "open" }
                      /\ Cardinality(Listed(t)) = slice[t].len
    BY DEF ListedIffOpen
  <2>1. \A i \in 1..slice[t].len : slice[t].array[i] \in Subs
    BY <1>1 DEF BusInv, Types
  <2>2. Listed(t) = { s \in Subs : topicOf[s] = t /\ sub[s].state = "open" }
    BY <1>1, <2>1 DEF BusInv, Agree, Listed
  <2>3. QED
    BY <1>1, <2>2, ListedCount DEF BusInv
<1>2. QED
  BY <1>1, BusInit, BusStep, PTL DEF Spec

\* Receiving moves a message from the channel to the subscriber: the stream of
\* the two together stays the same.
LEMMA ReceiveMoves ==
  ASSUME NEW g \in Seq(Msg), NEW q \in Seq(Msg), q # <<>>
  PROVE  Append(g, Head(q)) \o Tail(q) = g \o q
<1>1. Head(q) \in Msg /\ Tail(q) \in Seq(Msg)
  BY HeadTailProperties
<1>2. Append(g, Head(q)) = g \o <<Head(q)>> /\ <<Head(q)>> \in Seq(Msg)
  BY <1>1, AppendIsConcat
<1>3. q = <<Head(q)>> \o Tail(q)
  BY <1>1
<1>4. QED
  BY <1>1, <1>2, <1>3, ConcatAssociative

\* A closed bus stays closed, and nobody's stream grows after it, whatever the
\* publishers were doing (Close takes the write lock, Publish checks closed).
THEOREM BusSilentAfterClose == Spec => SilentAfterClose
<1> DEFINE Silent == closed => closed' /\ \A s \in Subs : Stream(s)' = Stream(s)
<1>1. ASSUME BusInv, [Next]_vars PROVE [Silent]_vars
  <2> SUFFICES ASSUME closed, Next PROVE closed' /\ \A s \in Subs : Stream(s)' = Stream(s)
    BY <1>1 DEF vars, Stream
  <2>1. ASSUME NEW p \in Publishers, Walk(p) PROVE UNCHANGED <<closed, sub, got>>
    <3>1. walk[p].at = 0
      BY <1>1 DEF BusInv, NoneInside, Readers
    <3>2. ~(walk[p].at \in 1..walk[p].len)
      BY <3>1
    <3>3. ~PublishDeliver(p)
      BY <3>2 DEF PublishDeliver
    <3>4. QED
      BY <2>1, <3>3 DEF Walk, PublishEnd
  <2>2. ASSUME NEW s \in Subs, CancelSub(s)
        PROVE  closed' /\ \A r \in Subs : Stream(r)' = Stream(r)
    <3>1. sub' = [sub EXCEPT ![s] = CloseSubscription(sub[s])] /\ UNCHANGED <<closed, got>>
      BY <2>2 DEF CancelSub
    <3>2. \A r \in Subs : sub'[r].queue = sub[r].queue
      BY <1>1, <3>1, ClosedType DEF BusInv, Types
    <3>3. QED
      BY <3>1, <3>2 DEF Stream
  <2>3. ASSUME NEW s \in Subs, Receive(s)
        PROVE  closed' /\ \A r \in Subs : Stream(r)' = Stream(r)
    <3>1. /\ sub[s] \in SubscriptionOf(Msg) /\ sub[s].queue # <<>> /\ got[s] \in Seq(Msg)
          /\ sub' = [sub EXCEPT ![s] = Received(sub[s])] /\ UNCHANGED closed
          /\ got' = [got EXCEPT ![s] = Append(got[s], Head(sub[s].queue))]
      BY <1>1, <2>3 DEF BusInv, Types, Receive, CanReceive
    <3>2. sub[s].queue \in Seq(Msg) /\ Received(sub[s]).queue = Tail(sub[s].queue)
      BY <3>1 DEF SubscriptionOf, Received
    <3>3. /\ sub'[s].queue = Tail(sub[s].queue) /\ got'[s] = Append(got[s], Head(sub[s].queue))
          /\ \A r \in Subs : r # s => sub'[r] = sub[r] /\ got'[r] = got[r]
      BY <1>1, <3>1, <3>2 DEF BusInv, Types
    <3>4. Stream(s)' = Stream(s)
      BY <3>1, <3>2, <3>3, ReceiveMoves DEF Stream
    <3>5. QED
      BY <3>1, <3>3, <3>4 DEF Stream
  <2>4. ASSUME NEW s \in Subs PROVE ~Subscribe(s)
    BY DEF Subscribe
  <2>5. ASSUME NEW p \in Publishers, NEW t \in Topics PROVE ~PublishBegin(p, t)
    BY DEF PublishBegin
  <2>6. ~Close
    BY DEF Close
  <2>7. QED
    BY <2>1, <2>2, <2>3, <2>4, <2>5, <2>6 DEF Next, Stream
<1>2. QED
  BY <1>1, BusInit, BusStep, PTL DEF Spec, SilentAfterClose
----------------------------------------------------------------------------
\* Every message once.

\* What a subscriber is owed is in its stream f, lost to a full buffer or on
\* its way, in exactly one of the three, and the stream keeps each publisher's
\* order.
Settled(f, lost, coming, owed) ==
  /\ f \in Seq(Msg) /\ lost \subseteq owed /\ coming \subseteq owed
  /\ \A m \in lost : m \notin coming
  /\ \A i \in 1..Len(f) : f[i] \in owed /\ f[i] \notin lost /\ f[i] \notin coming
  /\ \A m \in owed : m \in lost \/ m \in coming \/ \E i \in 1..Len(f) : f[i] = m
  /\ \A i, j \in 1..Len(f) : i < j /\ f[i][1] = f[j][1] => f[i][2] < f[j][2]

\* A publisher inside Publish walks the slice as it is: nobody changes it
\* meanwhile.
WalkInv ==
  /\ walk \in [Publishers -> [at : Nat, len : Nat, topic : Topics \cup {Idle.topic}]]
  /\ \A p \in Publishers : walk[p].at # 0 =>
       walk[p].topic \in Topics /\ walk[p].len = slice[walk[p].topic].len

\* A publisher's messages are numbered by what it has published.
Numbered ==
  /\ due \in [Subs -> SUBSET Msg] /\ dropped \in [Subs -> SUBSET Msg]
  /\ \A s \in Subs : \A m \in due[s] : m[2] <= sent[m[1]]

\* A subscription that has not been made holds nothing.
Unmade == \A s \in Subs : sub[s].state = "none" => sub[s].queue = <<>>

AllSettled == \A s \in Subs : Settled(Stream(s), dropped[s], Pending(s), due[s])

OnceInv == WalkInv /\ Numbered /\ Unmade /\ AllSettled

\* A message is published: it is on its way.
LEMMA SettledBegins ==
  ASSUME NEW f, NEW lost, NEW coming, NEW owed, Settled(f, lost, coming, owed),
         NEW m, m \notin owed
  PROVE  Settled(f, lost, coming \cup {m}, owed \cup {m})
<1>1. \A n \in lost : n # m
  BY DEF Settled
<1>2. \A i \in 1..Len(f) : f[i] # m
  BY DEF Settled
<1>3. QED
  BY <1>1, <1>2 DEF Settled

\* It finds the buffer full.
LEMMA SettledLoses ==
  ASSUME NEW f, NEW lost, NEW coming, NEW owed, Settled(f, lost, coming, owed),
         NEW m \in coming
  PROVE  Settled(f, lost \cup {m}, coming \ {m}, owed)
<1>1. \A i \in 1..Len(f) : f[i] # m
  BY DEF Settled
<1>2. QED
  BY <1>1 DEF Settled

\* It arrives, after all that its publisher published before.
LEMMA SettledArrives ==
  ASSUME NEW f, NEW lost, NEW coming, NEW owed, Settled(f, lost, coming, owed),
         NEW m \in coming, owed \subseteq Msg,
         \A n \in owed : n[1] = m[1] => n[2] <= m[2]
  PROVE  Settled(Append(f, m), lost, coming \ {m}, owed)
<1> DEFINE g == Append(f, m)
           k == Len(f)
<1>1. /\ f \in Seq(Msg) /\ k \in Nat /\ m \in owed /\ m \in Msg /\ m \notin lost
      /\ \A i \in 1..k : f[i] # m
  BY DEF Settled
<1>2. /\ g \in Seq(Msg) /\ Len(g) = k + 1 /\ g[k + 1] = m /\ \A i \in 1..k : g[i] = f[i]
  BY <1>1
<1> HIDE DEF g
<1>3. /\ \A i \in 1..k + 1 : i = k + 1 \/ i \in 1..k
      /\ 1..k \subseteq 1..k + 1 /\ k + 1 \in 1..k + 1
  BY <1>1
<1>4. \A i \in 1..k : f[i] \in owed /\ f[i] \notin lost /\ f[i] \notin coming
  BY DEF Settled
<1>5. \A i \in 1..k + 1 : g[i] \in owed /\ g[i] \notin lost /\ g[i] \notin coming \ {m}
  BY <1>1, <1>2, <1>3, <1>4, Zenon
<1>6. \A n \in owed : n \in lost \/ n \in coming \ {m} \/ \E i \in 1..k + 1 : g[i] = n
  <2> TAKE n \in owed
  <2>1. n \in lost \/ n \in coming \/ \E i \in 1..k : f[i] = n
    BY DEF Settled
  <2>2. QED
    BY <1>2, <1>3, <2>1, Zenon
<1>7. ASSUME NEW i \in 1..k + 1, NEW j \in 1..k + 1, i < j, g[i][1] = g[j][1]
      PROVE  g[i][2] < g[j][2]
  <2>1. i \in 1..k /\ g[i] = f[i]
    BY <1>1, <1>2, <1>7
  <2>2. CASE j = k + 1
    <3>1. f[i] \in owed /\ f[i] # m /\ f[i][1] = m[1]
      BY <1>1, <1>2, <1>4, <1>7, <2>1, <2>2
    <3>2. f[i] \in Publishers \X Nat /\ m \in Publishers \X Nat
      BY <1>1, <3>1 DEF Msg
    <3>3. f[i][2] \in Nat /\ m[2] \in Nat /\ f[i][2] # m[2]
      BY <3>1, <3>2
    <3>4. f[i][2] <= m[2]
      BY <3>1
    <3>5. f[i][2] < m[2]
      BY ONLY <3>3, <3>4
    <3>6. QED
      BY <1>2, <2>1, <2>2, <3>5
  <2>3. CASE j \in 1..k
    <3>1. g[j] = f[j]
      BY <1>2, <2>3
    <3>2. f[i][2] < f[j][2]
      BY <1>7, <2>1, <2>3, <3>1 DEF Settled
    <3>3. QED
      BY <2>1, <3>1, <3>2
  <2>4. QED
    BY <1>3, <2>2, <2>3
<1>8. lost \subseteq owed /\ coming \ {m} \subseteq owed /\ \A n \in lost : n \notin coming \ {m}
  BY DEF Settled
<1>9. Settled(g, lost, coming \ {m}, owed)
  BY <1>2, <1>5, <1>6, <1>7, <1>8 DEF Settled
<1>10. QED
  BY <1>9 DEF g

\* A delivery goes to the end of the stream.
LEMMA PutsLast ==
  ASSUME NEW g \in Seq(Msg), NEW q \in Seq(Msg), NEW m \in Msg
  PROVE  g \o Append(q, m) = Append(g \o q, m)
OBVIOUS

----------------------------------------------------------------------------
\* What is on its way to a subscriber.

\* p has still to come to s.
Ahead(p, s) ==
  /\ walk[p].at # 0
  /\ \E i \in walk[p].at .. walk[p].len : slice[walk[p].topic].array[i] = s

LEMMA PendingIs ==
  ASSUME NEW s
  PROVE  Pending(s) = { Current(p) : p \in { q \in Publishers : Ahead(q, s) } }
BY DEF Pending, Readers, Ahead

\* Nobody walks: nothing is on its way.
LEMMA PendingNone ==
  ASSUME WriteLock, UNCHANGED walk, NEW s
  PROVE  Pending(s) = {} /\ Pending(s)' = {}
BY DEF WriteLock, Readers, Pending

LEMMA PendingSame ==
  ASSUME UNCHANGED <<walk, slice, sent>>, NEW s
  PROVE  Pending(s)' = Pending(s)
BY DEF Pending, Readers, Current

LEMMA PendingBegins ==
  ASSUME BusInv, WalkInv, NEW p \in Publishers, NEW t \in Topics, PublishBegin(p, t), NEW s \in Subs
  PROVE  Pending(s)' = IF s \in Listed(t) THEN Pending(s) \cup {<<p, sent[p] + 1>>} ELSE Pending(s)
<1>1. /\ walk[p].at = 0 /\ sent' = [sent EXCEPT ![p] = sent[p] + 1] /\ slice' = slice
      /\ walk' = [walk EXCEPT ![p] = [at |-> 1, len |-> slice[t].len, topic |-> t]]
      /\ sent \in [Publishers -> Nat]
  BY DEF PublishBegin, BusInv, Types
<1>2. /\ walk'[p] = [at |-> 1, len |-> slice[t].len, topic |-> t]
      /\ \A q \in Publishers : q # p => walk'[q] = walk[q]
  BY <1>1 DEF WalkInv
<1>3. Current(p)' = <<p, sent[p] + 1>> /\ \A q \in Publishers : q # p => Current(q)' = Current(q)
  BY <1>1 DEF Current
<1>4. ~Ahead(p, s) /\ (Ahead(p, s)' <=> s \in Listed(t))
  <2>1. ~Ahead(p, s)
    BY <1>1 DEF Ahead
  <2>2. Ahead(p, s)' <=> \E i \in 1..slice[t].len : slice[t].array[i] = s
    BY <1>1, <1>2 DEF Ahead
  <2>3. QED
    BY <2>1, <2>2 DEF Listed
<1>5. \A q \in Publishers : q # p => (Ahead(q, s)' <=> Ahead(q, s))
  BY <1>1, <1>2 DEF Ahead
<1>6. Pending(s)' = { Current(q)' : q \in { r \in Publishers : Ahead(r, s)' } }
  BY DEF Pending, Readers, Ahead
<1>7. QED
  BY <1>3, <1>4, <1>5, <1>6, PendingIs

LEMMA PendingEnds ==
  ASSUME WalkInv, NEW p \in Publishers, PublishEnd(p), NEW s \in Subs
  PROVE  Pending(s)' = Pending(s)
<1>1. /\ walk[p].at > walk[p].len /\ sent' = sent /\ slice' = slice
      /\ walk' = [walk EXCEPT ![p] = Idle] /\ walk[p].at \in Nat /\ walk[p].len \in Nat
  BY DEF PublishEnd, WalkInv
<1>2. walk'[p] = Idle /\ \A q \in Publishers : q # p => walk'[q] = walk[q]
  BY <1>1 DEF WalkInv
<1>3. ~Ahead(p, s) /\ ~Ahead(p, s)'
  <2>1. walk[p].at .. walk[p].len = {}
    BY <1>1
  <2>2. walk'[p].at = 0
    BY <1>2 DEF Idle
  <2>3. QED
    BY <2>1, <2>2 DEF Ahead
<1>4. \A q \in Publishers : q # p => (Ahead(q, s)' <=> Ahead(q, s))
  BY <1>1, <1>2 DEF Ahead
<1>5. \A q \in Publishers : Current(q)' = Current(q)
  BY <1>1 DEF Current
<1>6. Pending(s)' = { Current(q)' : q \in { r \in Publishers : Ahead(r, s)' } }
  BY DEF Pending, Readers, Ahead
<1>7. QED
  BY <1>3, <1>4, <1>5, <1>6, PendingIs

\* A delivery is made to one subscription, which stands in the slice once.
LEMMA PendingDelivers ==
  ASSUME BusInv, WalkInv, NEW p \in Publishers, PublishDeliver(p), NEW d,
         d = slice[walk[p].topic].array[walk[p].at]
  PROVE  /\ d \in Subs /\ sub[d].state = "open"
         /\ Current(p) \in Pending(d) /\ Pending(d)' = Pending(d) \ {Current(p)}
         /\ \A s \in Subs : s # d => Pending(s)' = Pending(s)
<1> DEFINE a == walk[p].at
           n == walk[p].len
           arr == slice[walk[p].topic].array
<1>1. /\ a \in 1..n /\ a \in Nat /\ n \in Nat /\ sent' = sent /\ slice' = slice
      /\ walk' = [walk EXCEPT ![p].at = a + 1]
  BY DEF PublishDeliver, WalkInv
<1>2. /\ walk'[p].at = a + 1 /\ walk'[p].len = n /\ walk'[p].topic = walk[p].topic
      /\ \A q \in Publishers : q # p => walk'[q] = walk[q]
  BY <1>1 DEF WalkInv
<1>3. walk[p].topic \in Topics /\ n = slice[walk[p].topic].len /\ a # 0
  BY <1>1 DEF WalkInv
<1>4. \A i, j \in 1..n : arr[i] = arr[j] => i = j
  BY <1>3 DEF BusInv, Distinct
<1>5. /\ arr \in Seq(Subs) /\ n <= Len(arr) /\ Len(arr) \in Nat
  BY <1>3 DEF BusInv, Types
<1>6. d \in Subs
  BY <1>1, <1>5
<1>7. sub[d].state = "open"
  BY <1>1, <1>3, <1>6 DEF BusInv, Agree
<1> HIDE DEF a, n, arr
<1>8. Ahead(p, d) /\ ~Ahead(p, d)'
  <2>1. a \in a..n /\ arr[a] = d
    BY <1>1 DEF a, arr
  <2>2. Ahead(p, d)
    BY <1>3, <2>1 DEF Ahead, a, n, arr
  <2>3. ASSUME NEW i \in a + 1 .. n, arr[i] = d PROVE FALSE
    <3>1. i \in 1..n /\ i # a
      BY <1>1, <2>3
    <3>2. QED
      BY <1>1, <1>4, <2>1, <2>3, <3>1
  <2>4. ~Ahead(p, d)'
    BY <1>1, <1>2, <2>3 DEF Ahead, arr
  <2>5. QED
    BY <2>2, <2>4
<1>9. ASSUME NEW s \in Subs, s # d PROVE Ahead(p, s)' <=> Ahead(p, s)
  <2>1. arr[a] # s /\ a + 1 # 0
    BY <1>1, <1>9 DEF a, arr
  <2>2. \A i \in a..n : i = a \/ i \in a + 1 .. n
    BY <1>1
  <2>3. a + 1 .. n \subseteq a..n
    BY <1>1
  <2>4. (\E i \in a + 1 .. n : arr[i] = s) <=> (\E i \in a..n : arr[i] = s)
    BY <2>1, <2>2, <2>3
  <2>5. Ahead(p, s) <=> \E i \in a..n : arr[i] = s
    BY <1>3 DEF Ahead, a, n, arr
  <2>6. Ahead(p, s)' <=> \E i \in a + 1 .. n : arr[i] = s
    BY <1>1, <1>2, <2>1 DEF Ahead, arr
  <2>7. QED
    BY <2>4, <2>5, <2>6
<1>10. \A s \in Subs : \A q \in Publishers : q # p => (Ahead(q, s)' <=> Ahead(q, s))
  BY <1>1, <1>2 DEF Ahead
<1>11. \A q \in Publishers : Current(q)' = Current(q) /\ (Current(q) = Current(p) => q = p)
  BY <1>1 DEF Current
<1>12. \A s \in Subs : Pending(s)' = { Current(q)' : q \in { r \in Publishers : Ahead(r, s)' } }
  BY DEF Pending, Readers, Ahead
<1>13. Current(p) \in Pending(d)
  BY <1>8, PendingIs
<1>14. Pending(d)' = Pending(d) \ {Current(p)}
  BY <1>6, <1>8, <1>10, <1>11, <1>12, PendingIs
<1>15. ASSUME NEW s \in Subs, s # d PROVE Pending(s)' = Pending(s)
  BY <1>9, <1>10, <1>11, <1>12, <1>15, PendingIs
<1>16. QED
  BY <1>6, <1>7, <1>13, <1>14, <1>15

----------------------------------------------------------------------------
LEMMA OnceInit == Init => OnceInv
<1> SUFFICES ASSUME Init PROVE OnceInv
  OBVIOUS
<1>1. WalkInv
  <2>1. walk = [p \in Publishers |-> Idle] /\ Idle.at = 0
    BY DEF Init, Idle
  <2>2. Idle \in [at : Nat, len : Nat, topic : Topics \cup {Idle.topic}]
    BY DEF Idle
  <2>3. QED
    BY <2>1, <2>2 DEF WalkInv
<1>2. Numbered
  BY DEF Init, Numbered
<1>3. Unmade
  BY DEF Init, Unmade, NoSubscription
<1>4. ASSUME NEW s \in Subs PROVE Settled(Stream(s), dropped[s], Pending(s), due[s])
  <2>1. Stream(s) = <<>> /\ dropped[s] = {} /\ due[s] = {}
    BY DEF Init, Stream, NoSubscription
  <2>2. Pending(s) = {}
    BY DEF Init, Pending, Readers, Idle
  <2>3. Settled(<<>>, {}, {}, {})
    BY DEF Settled
  <2>4. QED
    BY <2>1, <2>2, <2>3
<1>5. QED
  BY <1>1, <1>2, <1>3, <1>4 DEF OnceInv, AllSettled

LEMMA BeginKeepsOnce ==
  ASSUME BusInv, OnceInv, NEW p \in Publishers, NEW t \in Topics, PublishBegin(p, t)
  PROVE  OnceInv'
<1> DEFINE m == <<p, sent[p] + 1>>
<1>1. /\ sent' = [sent EXCEPT ![p] = sent[p] + 1]
      /\ walk' = [walk EXCEPT ![p] = [at |-> 1, len |-> slice[t].len, topic |-> t]]
      /\ due' = [s \in Subs |-> IF s \in Listed(t) THEN due[s] \cup {<<p, sent'[p]>>} ELSE due[s]]
      /\ UNCHANGED <<slice, sub, got, dropped>>
  BY DEF PublishBegin
<1>2. /\ sent \in [Publishers -> Nat] /\ sent'[p] = sent[p] + 1 /\ slice[t].len \in Nat
      /\ sent[p] \in Nat /\ sent' \in [Publishers -> Nat]
  BY <1>1 DEF BusInv, Types
<1>3. WalkInv'
  <2>1. [at |-> 1, len |-> slice[t].len, topic |-> t]
          \in [at : Nat, len : Nat, topic : Topics \cup {Idle.topic}]
    BY <1>2
  <2>2. /\ walk \in [Publishers -> [at : Nat, len : Nat, topic : Topics \cup {Idle.topic}]]
        /\ \A q \in Publishers : walk[q].at # 0 =>
             walk[q].topic \in Topics /\ walk[q].len = slice[walk[q].topic].len
    BY DEF OnceInv, WalkInv
  <2>3. /\ walk' \in [Publishers -> [at : Nat, len : Nat, topic : Topics \cup {Idle.topic}]]
        /\ walk'[p] = [at |-> 1, len |-> slice[t].len, topic |-> t]
        /\ \A q \in Publishers : q # p => walk'[q] = walk[q]
    BY <1>1, <2>1, <2>2
  <2>4. \A q \in Publishers : walk'[q].at # 0 =>
             walk'[q].topic \in Topics /\ walk'[q].len = slice'[walk'[q].topic].len
    BY <1>1, <2>2, <2>3
  <2>5. QED
    BY <2>3, <2>4 DEF WalkInv, Idle
<1>4. m \in Msg /\ m[1] = p /\ m[2] = sent[p] + 1
  BY <1>2 DEF Msg
<1>5. /\ due \in [Subs -> SUBSET Msg] /\ dropped \in [Subs -> SUBSET Msg]
      /\ \A s \in Subs : \A x \in due[s] : x[2] <= sent[x[1]]
  BY DEF OnceInv, Numbered
<1>6. ASSUME NEW s \in Subs PROVE m \notin due[s]
  <2>1. ~(sent[p] + 1 <= sent[p])
    BY ONLY <1>2
  <2>2. QED
    BY <1>4, <1>5, <2>1
<1>7. \A s \in Subs : due'[s] = IF s \in Listed(t) THEN due[s] \cup {m} ELSE due[s]
  BY <1>1, <1>2
<1> HIDE DEF m
<1>8. Numbered'
  <2>1. due' \in [Subs -> SUBSET Msg]
    BY <1>1, <1>2, <1>4, <1>5 DEF m
  <2>2. ASSUME NEW s \in Subs, NEW x \in due'[s] PROVE x[2] <= sent'[x[1]]
    <3>1. CASE x = m
      <4>1. sent[p] + 1 <= sent[p] + 1
        BY ONLY <1>2
      <4>2. QED
        BY <1>2, <1>4, <3>1, <4>1
    <3>2. CASE x # m
      <4>1. x \in due[s] /\ x \in Msg
        BY <1>5, <1>7, <2>2, <3>2
      <4>2. x[2] <= sent[x[1]] /\ x[1] \in Publishers /\ x[2] \in Nat
        BY <1>5, <4>1 DEF Msg
      <4>3. sent'[x[1]] = sent[x[1]] \/ sent'[x[1]] = sent[x[1]] + 1
        BY <1>1, <1>2, <4>2
      <4>4. sent[x[1]] \in Nat
        BY <1>2, <4>2
      <4>5. QED
        BY ONLY <4>2, <4>3, <4>4
    <3>3. QED
      BY <3>1, <3>2
  <2>3. QED
    BY <1>1, <1>5, <2>1, <2>2 DEF Numbered
<1>9. Unmade'
  BY <1>1 DEF OnceInv, Unmade
<1>10. ASSUME NEW s \in Subs PROVE Settled(Stream(s), dropped[s], Pending(s), due[s])'
  <2>1. Settled(Stream(s), dropped[s], Pending(s), due[s])
    BY DEF OnceInv, AllSettled
  <2>2. Stream(s)' = Stream(s) /\ dropped'[s] = dropped[s]
    BY <1>1 DEF Stream
  <2>3. Pending(s)' = IF s \in Listed(t) THEN Pending(s) \cup {m} ELSE Pending(s)
    BY PendingBegins DEF OnceInv, m
  <2>4. CASE s \in Listed(t)
    <3>1. Settled(Stream(s), dropped[s], Pending(s) \cup {m}, due[s] \cup {m})
      BY ONLY <1>6, <2>1, SettledBegins, Zenon
    <3>2. QED
      BY <1>7, <2>2, <2>3, <2>4, <3>1
  <2>5. CASE s \notin Listed(t)
    BY <1>7, <2>1, <2>2, <2>3, <2>5
  <2>6. QED
    BY <2>4, <2>5
<1>11. QED
  BY <1>3, <1>8, <1>9, <1>10 DEF OnceInv, AllSettled

LEMMA DeliverKeepsOnce ==
  ASSUME BusInv, OnceInv, NEW p \in Publishers, PublishDeliver(p)
  PROVE  OnceInv'
<1>1. PICK d : d = slice[walk[p].topic].array[walk[p].at]
  OBVIOUS
<1> DEFINE m == Current(p)
<1>2. /\ sub' = [sub EXCEPT ![d] = Deliver(sub[d], m)]
      /\ dropped' = IF sub[d].state = "open" /\ Full(sub[d])
                    THEN [dropped EXCEPT ![d] = dropped[d] \cup {m}] ELSE dropped
      /\ walk' = [walk EXCEPT ![p].at = walk[p].at + 1]
      /\ UNCHANGED <<slice, sent, got, due>>
  BY <1>1 DEF PublishDeliver
<1>3. /\ d \in Subs /\ sub[d].state = "open"
      /\ m \in Pending(d) /\ Pending(d)' = Pending(d) \ {m}
      /\ \A s \in Subs : s # d => Pending(s)' = Pending(s)
  BY <1>1, PendingDelivers DEF OnceInv
<1>4. sent \in [Publishers -> Nat] /\ m = <<p, sent[p]>> /\ m \in Msg /\ m[1] = p /\ m[2] = sent[p]
  BY DEF BusInv, Types, Current, Msg
<1> HIDE DEF m
<1>5. sub \in [Subs -> SubscriptionOf(Msg)] /\ got[d] \in Seq(Msg) /\ sub[d] \in SubscriptionOf(Msg)
  BY <1>3 DEF BusInv, Types
<1>6. /\ due \in [Subs -> SUBSET Msg] /\ dropped \in [Subs -> SUBSET Msg]
      /\ \A s \in Subs : \A x \in due[s] : x[2] <= sent[x[1]]
  BY DEF OnceInv, Numbered
<1>7. WalkInv'
  <2>1. /\ walk \in [Publishers -> [at : Nat, len : Nat, topic : Topics \cup {Idle.topic}]]
        /\ \A q \in Publishers : walk[q].at # 0 =>
             walk[q].topic \in Topics /\ walk[q].len = slice[walk[q].topic].len
    BY DEF OnceInv, WalkInv
  <2>2. /\ walk' \in [Publishers -> [at : Nat, len : Nat, topic : Topics \cup {Idle.topic}]]
        /\ \A q \in Publishers : walk'[q].topic = walk[q].topic /\ walk'[q].len = walk[q].len
        /\ \A q \in Publishers : q # p => walk'[q].at = walk[q].at
    BY <1>2, <2>1
  <2>3. walk[p].at \in 1..walk[p].len
    BY DEF PublishDeliver
  <2>4. walk[p].at # 0
    BY <2>3
  <2>5. \A q \in Publishers : walk'[q].at # 0 =>
             walk'[q].topic \in Topics /\ walk'[q].len = slice'[walk'[q].topic].len
    BY <1>2, <2>1, <2>2, <2>4
  <2>6. QED
    BY <2>2, <2>5 DEF WalkInv, Idle
<1>8. /\ sub'[d] = Deliver(sub[d], m) /\ \A s \in Subs : s # d => sub'[s] = sub[s]
  BY <1>2, <1>3, <1>5
<1>9. Numbered'
  <2>1. dropped' \in [Subs -> SUBSET Msg]
    BY <1>2, <1>3, <1>4, <1>6
  <2>2. QED
    BY <1>2, <1>6, <2>1 DEF Numbered
<1>10. Unmade'
  <2>1. sub'[d].state = "open"
    BY <1>3, <1>5, <1>8 DEF Deliver, SubscriptionOf
  <2>2. QED
    BY <1>8, <2>1 DEF OnceInv, Unmade
<1>11. Settled(Stream(d), dropped[d], Pending(d), due[d])'
  <2>1. Settled(Stream(d), dropped[d], Pending(d), due[d])
    BY <1>3 DEF OnceInv, AllSettled
  <2>2. CASE Full(sub[d])
    <3>1. sub'[d] = sub[d]
      BY <1>8, <2>2 DEF Deliver
    <3>2. dropped'[d] = dropped[d] \cup {m}
      BY <1>2, <1>3, <1>6, <2>2
    <3>3. Settled(Stream(d), dropped[d] \cup {m}, Pending(d) \ {m}, due[d])
      BY ONLY <1>3, <2>1, SettledLoses, Zenon
    <3>4. Stream(d)' = Stream(d)
      BY <1>2, <3>1 DEF Stream
    <3>5. QED
      BY <1>2, <1>3, <3>2, <3>3, <3>4
  <2>3. CASE ~Full(sub[d])
    <3>1. sub'[d].queue = Append(sub[d].queue, m) /\ sub[d].queue \in Seq(Msg)
      BY <1>3, <1>5, <1>8, <2>3 DEF Deliver, SubscriptionOf
    <3>2. got[d] \o Append(sub[d].queue, m) = Append(got[d] \o sub[d].queue, m)
      <4>1. sub[d].queue \in Seq(Msg)
        BY <3>1
      <4>2. QED
        BY ONLY <1>4, <1>5, <4>1, PutsLast, Zenon
    <3>3. Stream(d)' = Append(Stream(d), m)
      BY <1>2, <3>1, <3>2 DEF Stream
    <3>4. dropped'[d] = dropped[d]
      BY <1>2, <2>3
    <3>5. due[d] \subseteq Msg /\ \A x \in due[d] : x[1] = m[1] => x[2] <= m[2]
      BY <1>3, <1>4, <1>6
    <3>6. Settled(Append(Stream(d), m), dropped[d], Pending(d) \ {m}, due[d])
      BY ONLY <1>3, <2>1, <3>5, SettledArrives, Zenon
    <3>7. QED
      BY <1>2, <1>3, <3>3, <3>4, <3>6
  <2>4. QED
    BY <2>2, <2>3
<1>12. ASSUME NEW s \in Subs, s # d PROVE Settled(Stream(s), dropped[s], Pending(s), due[s])'
  <2>1. Settled(Stream(s), dropped[s], Pending(s), due[s])
    BY DEF OnceInv, AllSettled
  <2>2. Stream(s)' = Stream(s)
    BY <1>2, <1>8, <1>12 DEF Stream
  <2>3. dropped'[s] = dropped[s]
    BY <1>2, <1>3, <1>6, <1>12
  <2>4. QED
    BY <1>2, <1>3, <1>12, <2>1, <2>2, <2>3
<1>13. QED
  BY <1>7, <1>9, <1>10, <1>11, <1>12 DEF OnceInv, AllSettled

\* Steps that leave the streams and what is on its way alone.
LEMMA AsideKeepsOnce ==
  ASSUME OnceInv, WalkInv', Unmade', UNCHANGED <<sent, due, dropped>>,
         \A s \in Subs : Stream(s)' = Stream(s) /\ Pending(s)' = Pending(s)
  PROVE  OnceInv'
<1>1. Numbered'
  BY DEF OnceInv, Numbered
<1>2. ASSUME NEW s \in Subs PROVE Settled(Stream(s), dropped[s], Pending(s), due[s])'
  BY DEF OnceInv, AllSettled
<1>3. QED
  BY <1>1, <1>2 DEF OnceInv, AllSettled

LEMMA EndKeepsOnce ==
  ASSUME OnceInv, NEW p \in Publishers, PublishEnd(p)
  PROVE  OnceInv'
<1>1. /\ walk' = [walk EXCEPT ![p] = Idle]
      /\ UNCHANGED <<slice, sub, sent, got, due, dropped>>
  BY DEF PublishEnd
<1>2. WalkInv'
  <2>1. Idle \in [at : Nat, len : Nat, topic : Topics \cup {Idle.topic}] /\ Idle.at = 0
    BY DEF Idle
  <2>2. /\ walk \in [Publishers -> [at : Nat, len : Nat, topic : Topics \cup {Idle.topic}]]
        /\ \A q \in Publishers : walk[q].at # 0 =>
             walk[q].topic \in Topics /\ walk[q].len = slice[walk[q].topic].len
    BY DEF OnceInv, WalkInv
  <2>3. /\ walk' \in [Publishers -> [at : Nat, len : Nat, topic : Topics \cup {Idle.topic}]]
        /\ walk'[p] = Idle
        /\ \A q \in Publishers : q # p => walk'[q] = walk[q]
    BY <1>1, <2>1, <2>2
  <2>4. \A q \in Publishers : walk'[q].at # 0 =>
             walk'[q].topic \in Topics /\ walk'[q].len = slice'[walk'[q].topic].len
    BY <1>1, <2>1, <2>2, <2>3
  <2>5. QED
    BY <2>3, <2>4 DEF WalkInv, Idle
<1>3. Unmade'
  BY <1>1 DEF OnceInv, Unmade
<1>4. \A s \in Subs : Stream(s)' = Stream(s)
  BY <1>1 DEF Stream
<1>5. \A s \in Subs : Pending(s)' = Pending(s)
  BY PendingEnds DEF OnceInv
<1>6. QED
  BY <1>1, <1>2, <1>3, <1>4, <1>5, AsideKeepsOnce

LEMMA ReceiveKeepsOnce ==
  ASSUME BusInv, OnceInv, NEW s \in Subs, Receive(s)
  PROVE  OnceInv'
<1>1. /\ sub[s] \in SubscriptionOf(Msg) /\ sub[s].queue # <<>> /\ got[s] \in Seq(Msg)
      /\ sub' = [sub EXCEPT ![s] = Received(sub[s])]
      /\ got' = [got EXCEPT ![s] = Append(got[s], Head(sub[s].queue))]
      /\ UNCHANGED <<slice, walk, sent, due, dropped>>
  BY DEF BusInv, Types, Receive, CanReceive
<1>2. /\ sub[s].queue \in Seq(Msg) /\ Received(sub[s]).queue = Tail(sub[s].queue)
      /\ Received(sub[s]).state = sub[s].state
  BY <1>1 DEF SubscriptionOf, Received
<1>3. /\ sub'[s].queue = Tail(sub[s].queue) /\ got'[s] = Append(got[s], Head(sub[s].queue))
      /\ sub'[s].state = sub[s].state
      /\ \A r \in Subs : r # s => sub'[r] = sub[r] /\ got'[r] = got[r]
  BY <1>1, <1>2 DEF BusInv, Types
<1>4. Stream(s)' = Stream(s)
  BY <1>1, <1>2, <1>3, ReceiveMoves DEF Stream
<1>5. \A r \in Subs : Stream(r)' = Stream(r) /\ Pending(r)' = Pending(r)
  <2>1. \A r \in Subs : Pending(r)' = Pending(r)
    BY <1>1, PendingSame
  <2>2. \A r \in Subs : r # s => Stream(r)' = Stream(r)
    BY <1>3 DEF Stream
  <2>3. QED
    BY <1>4, <2>1, <2>2
<1>6. Unmade'
  <2>1. sub[s].state # "none"
    BY <1>1 DEF OnceInv, Unmade
  <2>2. QED
    BY <1>3, <2>1 DEF OnceInv, Unmade
<1>7. WalkInv'
  BY <1>1 DEF OnceInv, WalkInv, Idle
<1>8. QED
  BY <1>1, <1>5, <1>6, <1>7, AsideKeepsOnce

\* Under the write lock nothing is on its way, and no queue is touched.
LEMMA LockedKeepsOnce ==
  ASSUME OnceInv, WriteLock, UNCHANGED <<walk, sent, got, due, dropped>>,
         \A s \in Subs : sub'[s].queue = sub[s].queue,
         \A s \in Subs : sub'[s].state = "none" => sub[s].state = "none"
  PROVE  OnceInv'
<1>1. WalkInv'
  <2>1. \A p \in Publishers : walk[p].at = 0
    BY DEF WriteLock, Readers
  <2>2. QED
    BY <2>1 DEF OnceInv, WalkInv, Idle
<1>2. Unmade'
  BY DEF OnceInv, Unmade
<1>3. \A s \in Subs : Stream(s)' = Stream(s)
  BY DEF Stream
<1>4. \A s \in Subs : Pending(s)' = Pending(s)
  <2> TAKE s \in Subs
  <2>1. Pending(s) = {} /\ Pending(s)' = {}
    BY PendingNone
  <2>2. QED
    BY <2>1
<1>5. QED
  BY <1>1, <1>2, <1>3, <1>4, AsideKeepsOnce

LEMMA OnceStep == BusInv /\ OnceInv /\ [Next]_vars => OnceInv'
<1> SUFFICES ASSUME BusInv, OnceInv, [Next]_vars PROVE OnceInv'
  OBVIOUS
<1>1. sub \in [Subs -> SubscriptionOf(Msg)]
  BY DEF BusInv, Types
<1>2. ASSUME NEW s \in Subs, Subscribe(s) PROVE OnceInv'
  <2>1. /\ WriteLock /\ sub[s].state = "none" /\ sub' = [sub EXCEPT ![s] = NewSubscription]
        /\ UNCHANGED <<walk, sent, got, due, dropped>>
    BY <1>2 DEF Subscribe
  <2>2. sub[s].queue = <<>>
    BY <2>1 DEF OnceInv, Unmade
  <2>3. \A r \in Subs : sub'[r].queue = sub[r].queue
    BY <1>1, <2>1, <2>2 DEF NewSubscription
  <2>4. \A r \in Subs : sub'[r].state = "none" => sub[r].state = "none"
    BY <1>1, <2>1 DEF NewSubscription
  <2>5. QED
    BY <2>1, <2>3, <2>4, LockedKeepsOnce
<1>3. \A r \in Subs : /\ CloseSubscription(sub[r]).queue = sub[r].queue
                      /\ CloseSubscription(sub[r]).state = "none" => sub[r].state = "none"
  BY <1>1 DEF CloseSubscription, SubscriptionOf
<1>4. ASSUME NEW s \in Subs, CancelSub(s) PROVE OnceInv'
  <2>1. /\ WriteLock /\ sub' = [sub EXCEPT ![s] = CloseSubscription(sub[s])]
        /\ UNCHANGED <<walk, sent, got, due, dropped>>
    BY <1>4 DEF CancelSub
  <2>2. \A r \in Subs : /\ sub'[r].queue = sub[r].queue
                        /\ sub'[r].state = "none" => sub[r].state = "none"
    BY <1>1, <1>3, <2>1
  <2>3. QED
    BY <2>1, <2>2, LockedKeepsOnce
<1>5. CASE Close
  <2>1. /\ WriteLock
        /\ sub' = [s \in Subs |->
                    IF s \in Listed(topicOf[s]) THEN CloseSubscription(sub[s]) ELSE sub[s]]
        /\ UNCHANGED <<walk, sent, got, due, dropped>>
    BY <1>5 DEF Close
  <2>2. \A r \in Subs : /\ sub'[r].queue = sub[r].queue
                        /\ sub'[r].state = "none" => sub[r].state = "none"
    BY <1>3, <2>1
  <2>3. QED
    BY <2>1, <2>2, LockedKeepsOnce
<1>6. CASE UNCHANGED vars
  <2>1. UNCHANGED <<slice, sub, walk, sent, got, due, dropped>>
    BY <1>6 DEF vars
  <2>2. \A s \in Subs : Stream(s)' = Stream(s) /\ Pending(s)' = Pending(s)
    BY <2>1, PendingSame DEF Stream
  <2>3. WalkInv' /\ Unmade'
    BY <2>1 DEF OnceInv, WalkInv, Unmade, Idle
  <2>4. QED
    BY <2>1, <2>2, <2>3, AsideKeepsOnce
<1>7. QED
  BY <1>2, <1>4, <1>5, <1>6, BeginKeepsOnce, DeliverKeepsOnce, EndKeepsOnce, ReceiveKeepsOnce
     DEF Next, Walk

\* For any number of publishers, topics, subscriptions and messages and every
\* buffer size: a subscriber gets every message published while it is
\* subscribed once and in its publisher's order, short of those that found its
\* buffer full (Publish, deliver).
THEOREM BusExactlyOnceUnlessFull == Spec => []ExactlyOnceUnlessFull
<1>1. OnceInv => ExactlyOnceUnlessFull
  <2> SUFFICES ASSUME OnceInv, NEW s \in Subs
               PROVE  LET seen == { Stream(s)[i] : i \in DOMAIN Stream(s) }
                      IN  /\ seen \cup dropped[s] \cup Pending(s) = due[s]
                          /\ seen \cap dropped[s] = {} /\ seen \cap Pending(s) = {}
                          /\ dropped[s] \cap Pending(s) = {}
                          /\ \A i, j \in DOMAIN Stream(s) :
                               i < j /\ Stream(s)[i][1] = Stream(s)[j][1]
                                 => Stream(s)[i][2] < Stream(s)[j][2]
    BY DEF ExactlyOnceUnlessFull
  <2> DEFINE f == Stream(s)
             lost == dropped[s]
             coming == Pending(s)
             owed == due[s]
  <2>1. Settled(f, lost, coming, owed)
    BY DEF OnceInv, AllSettled
  <2> HIDE DEF f, lost, coming, owed
  <2>2. DOMAIN f = 1..Len(f)
    BY <2>1 DEF Settled
  <2> DEFINE seen == { f[i] : i \in DOMAIN f }
  <2>3. seen \cup lost \cup coming = owed
    BY <2>1, <2>2 DEF Settled
  <2>4. seen \cap lost = {} /\ seen \cap coming = {} /\ lost \cap coming = {}
    BY <2>1, <2>2 DEF Settled
  <2>5. \A i, j \in DOMAIN f : i < j /\ f[i][1] = f[j][1] => f[i][2] < f[j][2]
    BY <2>1, <2>2 DEF Settled
  <2>6. QED
    BY <2>3, <2>4, <2>5 DEF f, lost, coming, owed
<1>2. QED
  BY <1>1, BusInit, BusStep, OnceInit, OnceStep, PTL DEF Spec
=============================================================================
