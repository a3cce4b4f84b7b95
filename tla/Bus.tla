--------------------------------- MODULE Bus ---------------------------------
(***************************************************************************)
(* The in-process bus (internal/bus/inproc/inproc.go) with concurrent      *)
(* publishers, subscribers that come, go and read when they like, and a    *)
(* Close at any time.                                                      *)
(*                                                                         *)
(* Publish holds the read lock while it walks the topic's slice and visits *)
(* one subscription per step, so publishers interleave.  Subscribe, cancel *)
(* and Close hold the write lock and are one step each, possible only when *)
(* nobody walks.  A topic's slice is kept as Go keeps it: the array behind *)
(* it and a length, because cancel removes an element in place and leaves  *)
(* the last one behind the new end.                                        *)
(***************************************************************************)
EXTENDS Subscription, FiniteSets

CONSTANTS
  Topics,
  Publishers,
  Subs,           \* the subscriptions that may be made
  MaxPublish      \* bound on the messages of one publisher

ASSUME MaxPublishAssumption == MaxPublish \in Nat

VARIABLES
  closed,     \* Bus.closed
  slice,      \* Bus.subs: for each topic the array and the length of its slice
  sub,        \* the subscriptions
  topicOf,    \* the topic each was made on
  walk,       \* where each publisher is in Publish
  sent,       \* how many messages each publisher has published
  got,        \* what each subscriber has received
  due,        \* the messages published while it was subscribed
  dropped     \* those it lost because its buffer was full

vars == <<closed, slice, sub, topicOf, walk, sent, got, due, dropped>>

Message == Publishers \X (1..MaxPublish)

Idle == [at |-> 0, len |-> 0, topic |-> CHOOSE t \in Topics : TRUE]

Readers == { p \in Publishers : walk[p].at # 0 }
Listed(t) == { slice[t].array[i] : i \in 1..slice[t].len }
Current(p) == <<p, sent[p]>>

Init ==
  /\ closed = FALSE
  /\ slice = [t \in Topics |-> [array |-> <<>>, len |-> 0]]
  /\ sub = [s \in Subs |-> NoSubscription]
  /\ topicOf \in [Subs -> Topics]
  /\ walk = [p \in Publishers |-> Idle]
  /\ sent = [p \in Publishers |-> 0]
  /\ got = [s \in Subs |-> <<>>]
  /\ due = [s \in Subs |-> {}]
  /\ dropped = [s \in Subs |-> {}]

----------------------------------------------------------------------------
\* Under the read lock.

\* Publish takes the lock and the slice; on a closed bus it only fails.
PublishBegin(p, t) ==
  /\ walk[p].at = 0
  /\ sent[p] < MaxPublish
  /\ ~closed
  /\ sent' = [sent EXCEPT ![p] = @ + 1]
  /\ walk' = [walk EXCEPT ![p] = [at |-> 1, len |-> slice[t].len, topic |-> t]]
  /\ due' = [s \in Subs |-> IF s \in Listed(t) THEN due[s] \cup {<<p, sent'[p]>>} ELSE due[s]]
  /\ UNCHANGED <<closed, slice, sub, topicOf, got, dropped>>

\* Slip: deliver without the default branch waits for room.
PublishDeliverBlocking(p) ==
  /\ walk[p].at \in 1..walk[p].len
  /\ LET s == slice[walk[p].topic].array[walk[p].at]
     IN  /\ ~(sub[s].state = "open" /\ Full(sub[s]))
         /\ sub' = [sub EXCEPT ![s] = Deliver(@, Current(p))]
  /\ walk' = [walk EXCEPT ![p].at = @ + 1]
  /\ UNCHANGED <<closed, slice, topicOf, sent, got, due, dropped>>

\* The next subscription of the slice as it was.
PublishDeliver(p) ==
  /\ walk[p].at \in 1..walk[p].len
  /\ LET s == slice[walk[p].topic].array[walk[p].at]
     IN  /\ sub' = [sub EXCEPT ![s] = Deliver(@, Current(p))]
         /\ dropped' = IF sub[s].state = "open" /\ Full(sub[s])
                       THEN [dropped EXCEPT ![s] = @ \cup {Current(p)}]
                       ELSE dropped
  /\ walk' = [walk EXCEPT ![p].at = @ + 1]
  /\ UNCHANGED <<closed, slice, topicOf, sent, got, due>>

PublishEnd(p) ==
  /\ walk[p].at > walk[p].len
  /\ walk' = [walk EXCEPT ![p] = Idle]
  /\ UNCHANGED <<closed, slice, sub, topicOf, sent, got, due, dropped>>

----------------------------------------------------------------------------
\* Under the write lock.

WriteLock == Readers = {}

Subscribe(s) ==
  /\ WriteLock
  /\ ~closed
  /\ sub[s].state = "none"
  /\ sub' = [sub EXCEPT ![s] = NewSubscription]
  /\ slice' = [slice EXCEPT ![topicOf[s]] =
                 [array |-> Append(SubSeq(@.array, 1, @.len), s), len |-> @.len + 1]]
  /\ UNCHANGED <<closed, topicOf, walk, sent, got, due, dropped>>

\* append(list[:i], list[i+1:]...): in place, the last element stays behind.
Without(sl, i) ==
  [array |-> [j \in DOMAIN sl.array |->
                IF i <= j /\ j < sl.len THEN sl.array[j + 1] ELSE sl.array[j]],
   len   |-> sl.len - 1]

\* Slips: cancel leaves its own element in the slice, or edits the slice under
\* publishers' feet.
CancelOnlyCloses(s) ==
  /\ WriteLock
  /\ sub[s].state # "none"
  /\ sub' = [sub EXCEPT ![s] = CloseSubscription(@)]
  /\ UNCHANGED <<closed, slice, topicOf, walk, sent, got, due, dropped>>

CancelUnlocked(s) ==
  /\ sub[s].state = "open"
  /\ LET t == topicOf[s]
     IN  slice' = [slice EXCEPT ![t] = Without(@, CHOOSE i \in 1..@.len : @.array[i] = s)]
  /\ sub' = [sub EXCEPT ![s] = CloseSubscription(@)]
  /\ UNCHANGED <<closed, topicOf, walk, sent, got, due, dropped>>

\* The cancel function; it may be called again, and after Close.
CancelSub(s) ==
  /\ WriteLock
  /\ sub[s].state # "none"
  /\ LET t == topicOf[s]
         at == { i \in 1..slice[t].len : slice[t].array[i] = s }
     IN  slice' = IF at = {} THEN slice
                  ELSE [slice EXCEPT ![t] = Without(@, CHOOSE i \in at : \A j \in at : i <= j)]
  /\ sub' = [sub EXCEPT ![s] = CloseSubscription(@)]
  /\ UNCHANGED <<closed, topicOf, walk, sent, got, due, dropped>>

\* Slip: Close only raises the flag and waits for nobody.
CloseFlagOnly ==
  /\ ~closed
  /\ closed' = TRUE
  /\ UNCHANGED <<slice, sub, topicOf, walk, sent, got, due, dropped>>

Close ==
  /\ WriteLock
  /\ ~closed
  /\ closed' = TRUE
  /\ sub' = [s \in Subs |->
               IF s \in Listed(topicOf[s]) THEN CloseSubscription(sub[s]) ELSE sub[s]]
  /\ slice' = [t \in Topics |-> [array |-> <<>>, len |-> 0]]
  /\ UNCHANGED <<topicOf, walk, sent, got, due, dropped>>

----------------------------------------------------------------------------
\* A subscriber reads from its channel.
Receive(s) ==
  /\ CanReceive(sub[s])
  /\ got' = [got EXCEPT ![s] = Append(@, Head(sub[s].queue))]
  /\ sub' = [sub EXCEPT ![s] = Received(@)]
  /\ UNCHANGED <<closed, slice, topicOf, walk, sent, due, dropped>>

Walk(p) == PublishDeliver(p) \/ PublishEnd(p)

Next ==
  \/ \E p \in Publishers : Walk(p) \/ \E t \in Topics : PublishBegin(p, t)
  \/ \E s \in Subs : Subscribe(s) \/ CancelSub(s) \/ Receive(s)
  \/ Close

\* A publisher that has begun keeps running.  Nobody has to read.
Fairness == \A p \in Publishers : WF_vars(Walk(p))

Spec == Init /\ [][Next]_vars
FairSpec == Spec /\ Fairness

----------------------------------------------------------------------------
TypeOK ==
  /\ closed \in BOOLEAN
  /\ \A t \in Topics : /\ slice[t].array \in Seq(Subs)
                       /\ slice[t].len \in 0..Len(slice[t].array)
  /\ sub \in [Subs -> SubscriptionOf(Message)]
  /\ topicOf \in [Subs -> Topics]
  /\ walk \in [Publishers -> [at : Nat, len : Nat, topic : Topics]]
  /\ sent \in [Publishers -> 0..MaxPublish]
  /\ got \in [Subs -> Seq(Message)]
  /\ due \in [Subs -> SUBSET Message]
  /\ dropped \in [Subs -> SUBSET Message]

\* What a topic's slice holds is exactly its open subscriptions, each once:
\* no leak after cancel or Close, and a publisher that walks a slice never
\* meets a closed channel (Subscribe, cancel, Close).
ListedIffOpen ==
  \A t \in Topics :
    /\ Listed(t) = { s \in Subs : topicOf[s] = t /\ sub[s].state = "open" }
    /\ Cardinality(Listed(t)) = slice[t].len

Stream(s) == got[s] \o sub[s].queue

\* The messages p's walk has not brought to s yet.
Pending(s) ==
  { Current(p) : p \in { q \in Readers :
      \E i \in walk[q].at .. walk[q].len : slice[walk[q].topic].array[i] = s } }

\* A subscriber gets every message published while it is subscribed, exactly
\* once and in its publisher's order, except the ones that found its buffer
\* full, whatever other publishers, cancels and Close do meanwhile
\* (Publish, deliver).
ExactlyOnceUnlessFull ==
  \A s \in Subs :
    LET seen == { Stream(s)[i] : i \in DOMAIN Stream(s) }
    IN  /\ seen \cup dropped[s] \cup Pending(s) = due[s]
        /\ seen \cap dropped[s] = {} /\ seen \cap Pending(s) = {}
        /\ dropped[s] \cap Pending(s) = {}
        /\ \A i, j \in DOMAIN Stream(s) :
             i < j /\ Stream(s)[i][1] = Stream(s)[j][1] => Stream(s)[i][2] < Stream(s)[j][2]

\* A publisher is never held up: Publish returns although no subscriber reads
\* (the default branch of deliver's select).
PublishReturns == \A p \in Publishers : walk[p].at # 0 ~> walk[p].at = 0

\* A closed bus stays closed and silent: nobody's stream grows any more, only
\* what is buffered can still be read (Close).
SilentAfterClose ==
  [][closed => closed' /\ \A s \in Subs : Stream(s)' = Stream(s)]_vars
=============================================================================
