---------------------------- MODULE EventsProofs ----------------------------
(***************************************************************************)
(* Proofs about module Events, for every number of connections, every      *)
(* limit and every capacity: the slots of the event streams are counted    *)
(* right, and a stream shows what changed, once and in order.              *)
(***************************************************************************)
EXTENDS Events, FiniteSetTheorems, TLAPS

USE EventsAssumption DEF Goes

\* What keeps the counter right: a handler about to swap has seen a count below
\* the limit, so a swap that succeeds stays within it.
SlotInv ==
  /\ conn \in [Conns -> {"new", "load", "swap", "refused", "slot", "watch", "select",
                         "close", "release", "done"}]
  /\ loaded \in [Conns -> Nat]
  /\ sseCount \in Nat
  /\ \A c \in Conns : conn[c] = "swap" => loaded[c] < MaxStreams
  /\ SlotsAreStreams

\* The states in which a connection holds a slot (handlers_sse.go, between
\* acquireSSESlot and the deferred Add).
Holding == {"slot", "watch", "select", "close", "release"}

LEMMA StreamsFinite == IsFiniteSet(Streams)
  BY FS_Subset DEF Streams

\* A connection that goes from one state to another of the same kind, holding
\* a slot or not, leaves the set of streams as it is.
LEMMA SameStreams ==
  ASSUME NEW c \in Conns, NEW to, SlotInv, Goes(c, to),
         conn[c] \in Holding <=> to \in Holding
  PROVE  Streams' = Streams
  BY DEF SlotInv, Streams, Holding

\* One that takes a slot joins it.
LEMMA StreamJoins ==
  ASSUME NEW c \in Conns, SlotInv, conn[c] = "swap", Goes(c, "slot")
  PROVE  Cardinality(Streams') = Cardinality(Streams) + 1
<1>1. Streams' = Streams \cup {c} /\ c \notin Streams
  BY DEF SlotInv, Streams
<1>2. QED
  BY <1>1, StreamsFinite, FS_AddElement

\* One that gives its slot back leaves it.
LEMMA StreamLeaves ==
  ASSUME NEW c \in Conns, SlotInv, conn[c] = "release", Goes(c, "done")
  PROVE  Cardinality(Streams') = Cardinality(Streams) - 1
<1>1. Streams' = Streams \ {c} /\ c \in Streams
  BY DEF SlotInv, Streams
<1>2. QED
  BY <1>1, StreamsFinite, FS_RemoveElement

\* A step of a handler that does not touch the counter keeps the invariant.
LEMMA QuietStep ==
  ASSUME NEW c \in Conns, SlotInv,
         NEW to \in {"new", "load", "refused", "slot", "watch", "select", "close", "release", "done"},
         conn[c] \in Holding <=> to \in Holding,
         Goes(c, to), UNCHANGED sseCount,
         loaded' = loaded \/ \E n \in Nat : loaded' = [loaded EXCEPT ![c] = n]
  PROVE  SlotInv'
<1>1. Streams' = Streams
  BY SameStreams
<1>2. SlotsAreStreams'
  BY <1>1 DEF SlotInv, SlotsAreStreams
<1>3. /\ conn' \in [Conns -> {"new", "load", "swap", "refused", "slot", "watch", "select",
                             "close", "release", "done"}]
      /\ loaded' \in [Conns -> Nat]
  BY DEF SlotInv
<1>4. ASSUME NEW d \in Conns, conn'[d] = "swap" PROVE loaded'[d] < MaxStreams
  BY <1>4 DEF SlotInv
<1>5. QED
  BY <1>2, <1>3, <1>4 DEF SlotInv

LEMMA SlotInit == Init => SlotInv
<1> SUFFICES ASSUME Init PROVE SlotInv
  OBVIOUS
<1>1. Streams = {}
  BY DEF Init, Streams
<1>2. Cardinality(Streams) = 0
  BY <1>1, FS_EmptySet
<1>3. QED
  BY <1>2 DEF Init, SlotInv, SlotsAreStreams

LEMMA SlotStep == SlotInv /\ [Next]_vars => SlotInv'
<1> SUFFICES ASSUME SlotInv, [Next]_vars PROVE SlotInv'
  OBVIOUS
<1> USE DEF Holding
<1>idle. ASSUME UNCHANGED <<sseCount, conn, loaded>> PROVE SlotInv'
  BY <1>idle DEF SlotInv, SlotsAreStreams, Streams
<1>1. ASSUME NEW c \in Conns, Request(c) PROVE SlotInv'
  <2>1. CASE Goes(c, "load")
    BY <1>1, <2>1, QuietStep DEF Request, srvVars
  <2>2. CASE Goes(c, "refused")
    BY <1>1, <2>2, QuietStep DEF Request, srvVars
  <2>3. QED
    BY <1>1, <2>1, <2>2 DEF Request
<1>2. ASSUME NEW c \in Conns, LoadCount(c) PROVE SlotInv'
  <2>1. CASE sseCount >= MaxStreams
    <3>1. Goes(c, "refused") /\ loaded' = [loaded EXCEPT ![c] = sseCount] /\ UNCHANGED sseCount
      BY <1>2, <2>1 DEF LoadCount, srvVars
    <3>2. conn[c] = "load" /\ sseCount \in Nat
      BY <1>2 DEF LoadCount, SlotInv
    <3>3. QED
      BY <3>1, <3>2, QuietStep
  <2>2. CASE ~(sseCount >= MaxStreams)
    <3>1. Goes(c, "swap") /\ conn[c] = "load" /\ UNCHANGED sseCount
      BY <1>2, <2>2 DEF LoadCount, srvVars
    <3>2. Streams' = Streams
      BY <3>1, SameStreams
    <3>3. SlotsAreStreams'
      BY <3>1, <3>2 DEF SlotInv, SlotsAreStreams
    <3>4. conn' \in [Conns -> {"new", "load", "swap", "refused", "slot", "watch", "select",
                               "close", "release", "done"}]
      BY <3>1 DEF SlotInv
    <3>5. loaded' = [loaded EXCEPT ![c] = sseCount] /\ sseCount \in Nat /\ sseCount < MaxStreams
      BY <1>2, <2>2 DEF LoadCount, SlotInv
    <3>6. \A d \in Conns : conn'[d] = "swap" => loaded'[d] < MaxStreams
      BY <3>1, <3>5 DEF SlotInv
    <3>7. QED
      BY <3>1, <3>3, <3>4, <3>5, <3>6 DEF SlotInv
  <2>3. QED
    BY <2>1, <2>2
<1>3. ASSUME NEW c \in Conns, CompareAndSwap(c) PROVE SlotInv'
  <2>1. CASE sseCount = loaded[c]
    <3>1. conn[c] = "swap" /\ Goes(c, "slot") /\ sseCount' = sseCount + 1
      BY <1>3, <2>1 DEF CompareAndSwap
    <3>2. Cardinality(Streams') = Cardinality(Streams) + 1
      BY <3>1, StreamJoins
    <3>3. sseCount < MaxStreams
      BY <2>1, <3>1 DEF SlotInv
    <3>4. SlotsAreStreams'
      BY <3>1, <3>2, <3>3 DEF SlotInv, SlotsAreStreams
    <3>5. loaded' = [loaded EXCEPT ![c] = 0]
      BY <1>3 DEF CompareAndSwap
    <3>6. QED
      BY <3>1, <3>4, <3>5 DEF SlotInv
  <2>2. CASE sseCount # loaded[c]
    <3>1. /\ conn[c] = "swap" /\ Goes(c, "load") /\ UNCHANGED sseCount
          /\ loaded' = [loaded EXCEPT ![c] = 0]
      BY <1>3, <2>2 DEF CompareAndSwap
    <3>2. QED
      BY <3>1, QuietStep
  <2>3. QED
    BY <2>1, <2>2
<1>4. ASSUME NEW c \in Conns, Connected(c) PROVE SlotInv'
  <2>1. PICK to \in {"watch", "select", "release"} : Goes(c, to)
    BY <1>4 DEF Connected
  <2>2. QED
    BY <1>4, <2>1, QuietStep DEF Connected, srvVars
<1>5. ASSUME NEW c \in Conns, OpenWatcher(c) \/ OpenWatcherFails(c) PROVE SlotInv'
  BY <1>5, QuietStep DEF OpenWatcher, OpenWatcherFails, srvVars
<1>6. ASSUME NEW c \in Conns, StreamEnds(c) PROVE SlotInv'
  BY <1>6, QuietStep DEF StreamEnds, srvVars
<1>7. ASSUME NEW c \in Conns, CloseWatcher(c) PROVE SlotInv'
  BY <1>7, QuietStep DEF CloseWatcher, srvVars
<1>8. ASSUME NEW c \in Conns, ReleaseSlot(c) PROVE SlotInv'
  <2>1. /\ conn[c] = "release" /\ Goes(c, "done") /\ sseCount' = sseCount - 1
        /\ UNCHANGED loaded
    BY <1>8 DEF ReleaseSlot
  <2>2. Cardinality(Streams') = Cardinality(Streams) - 1
    BY <2>1, StreamLeaves
  <2>3. Cardinality(Streams') \in Nat
    <3>1. IsFiniteSet(Streams')
      BY FS_Subset DEF Streams
    <3>2. QED
      BY <3>1, FS_CardinalityType
  <2>4. sseCount' \in Nat /\ SlotsAreStreams'
    BY <2>1, <2>2, <2>3 DEF SlotInv, SlotsAreStreams
  <2>5. QED
    BY <2>1, <2>4 DEF SlotInv
<1>9. ASSUME NEW c \in Conns, SendEvent(c) \/ Loop(c) \/ NotifyStops(c) \/ ClientLeaves(c)
      PROVE  SlotInv'
  BY <1>9, <1>idle DEF SendEvent, Loop, LoopTakes, LoopEnds, NotifyStops, ClientLeaves, srvVars, connVars
<1>10. ASSUME NEW change \in Changes, FileChanges(change) PROVE SlotInv'
  BY <1>10, <1>idle DEF FileChanges, srvVars, connVars
<1>11. CASE ShutdownBegins \/ ServeFails \/ ShutdownReturns
  BY <1>11, <1>idle DEF ShutdownBegins, ServeFails, ShutdownReturns, connVars
<1>12. CASE UNCHANGED vars
  BY <1>12, <1>idle DEF vars, srvVars, connVars
<1>13. QED
  BY <1>1, <1>2, <1>3, <1>4, <1>5, <1>6, <1>7, <1>8, <1>9, <1>10, <1>11, <1>12 DEF Next, Handler

\* For every set of connections and every limit, the counter is the number of
\* streams that hold a slot and never exceeds the limit (acquireSSESlot's
\* Load and CompareAndSwap, the handlers' deferred Add).
THEOREM EventsSlotsAreStreams == Spec => []SlotsAreStreams
<1>1. SlotInv => SlotsAreStreams
  BY DEF SlotInv
<1>2. QED
  BY <1>1, SlotInit, SlotStep, PTL DEF Spec
----------------------------------------------------------------------------
\* What a stream shows.

\* The places of f that hold something older than the change n.
Older(f, n) == { i \in DOMAIN f : f[i] < n }

\* The flow f stands for the changes lo+1..hi of the files, short of d: each
\* change that a stream is for once, in order, and what is missing was lost
\* behind a full channel.
Kept(l, f, lo, hi, d) ==
  /\ f \in Seq(Nat) /\ lo \in Nat /\ hi \in Nat /\ lo <= hi /\ hi <= Len(l)
  /\ d \subseteq lo + 1 .. hi
  /\ \A i \in 1..Len(f) : f[i] \in lo + 1 .. hi /\ l[f[i]] \in Shown /\ f[i] \notin d
  /\ \A n \in lo + 1 .. hi : l[n] \in Shown => n \in d \/ \E i \in 1..Len(f) : f[i] = n
  /\ \A i, j \in 1..Len(f) : i < j => f[i] < f[j]
  /\ \A n \in d : Cardinality(Older(f, n)) >= EventBuffer

\* A handler that has no watcher yet.
Early == {"new", "load", "swap", "refused", "slot", "watch"}

\* A stream that has no watcher has shown nothing; one that has shows what its
\* watcher has been handed.
StreamInv(c) ==
  /\ conn[c] \in Early => /\ loop[c] = "off" /\ sent[c] = <<>> /\ eventCh[c] = <<>>
                          /\ dropped[c] = {}
  /\ Kept(log, sent[c] \o eventCh[c], start[c], pos[c], dropped[c])
  /\ Len(eventCh[c]) <= EventBuffer

StreamTypes ==
  /\ conn \in [Conns -> {"new", "load", "swap", "refused", "slot", "watch", "select",
                         "close", "release", "done"}]
  /\ log \in Seq(Change)
  /\ start \in [Conns -> Nat] /\ pos \in [Conns -> Nat]
  /\ loop \in [Conns -> {"off", "select", "done"}]
  /\ eventCh \in [Conns -> Seq(Nat)] /\ sent \in [Conns -> Seq(Nat)]
  /\ dropped \in [Conns -> SUBSET Nat]

StreamsInv == StreamTypes /\ \A c \in Conns : StreamInv(c)

\* What the loop calls relevant is what a stream is for.
LEMMA RelevantShown ==
  ASSUME NEW change \in Change PROVE Relevant(change) <=> change \in Shown
BY DEF Change, Shown, Relevant

\* A stream that begins after n changes has shown all since then.
LEMMA KeptNothing ==
  ASSUME NEW l \in Seq(Change), NEW n \in Nat, n <= Len(l)
  PROVE  Kept(l, <<>>, n, n, {})
BY DEF Kept

\* A change of the files is none the watcher has been handed.
LEMMA KeptGrows ==
  ASSUME NEW l \in Seq(Change), NEW change \in Change,
         NEW f, NEW lo, NEW hi, NEW d, Kept(l, f, lo, hi, d)
  PROVE  Kept(Append(l, change), f, lo, hi, d)
<1> DEFINE m == Append(l, change)
<1>1. Len(m) = Len(l) + 1 /\ \A n \in 1..Len(l) : m[n] = l[n]
  OBVIOUS
<1>2. lo \in Nat /\ hi \in Nat /\ hi <= Len(l) /\ Len(l) \in Nat
  BY DEF Kept
<1>3. \A n \in lo + 1 .. hi : m[n] = l[n]
  BY <1>1, <1>2
<1> HIDE DEF m
<1>4. hi <= Len(m)
  BY <1>1, <1>2
<1>5. \A i \in 1..Len(f) : f[i] \in lo + 1 .. hi /\ m[f[i]] \in Shown /\ f[i] \notin d
  <2>1. \A i \in 1..Len(f) : f[i] \in lo + 1 .. hi /\ l[f[i]] \in Shown /\ f[i] \notin d
    BY DEF Kept
  <2>2. QED
    BY <1>3, <2>1, Zenon
<1>6. \A n \in lo + 1 .. hi : m[n] \in Shown => n \in d \/ \E i \in 1..Len(f) : f[i] = n
  <2>1. \A n \in lo + 1 .. hi : l[n] \in Shown => n \in d \/ \E i \in 1..Len(f) : f[i] = n
    BY DEF Kept
  <2>2. QED
    BY <1>3, <2>1, Zenon
<1>7. Kept(m, f, lo, hi, d)
  BY <1>4, <1>5, <1>6, Zenon DEF Kept
<1>8. QED
  BY <1>7 DEF m

\* The loop skips a change that no stream is for.
LEMMA KeptSkips ==
  ASSUME NEW l \in Seq(Change), NEW f, NEW lo, NEW hi, NEW d, Kept(l, f, lo, hi, d),
         hi < Len(l), l[hi + 1] \notin Shown
  PROVE  Kept(l, f, lo, hi + 1, d)
<1>1. lo \in Nat /\ hi \in Nat /\ lo <= hi /\ Len(l) \in Nat
  BY DEF Kept
<1>2. /\ hi + 1 \in Nat /\ lo <= hi + 1 /\ hi + 1 <= Len(l)
      /\ lo + 1 .. hi \subseteq lo + 1 .. hi + 1
      /\ \A n \in lo + 1 .. hi + 1 : n = hi + 1 \/ n \in lo + 1 .. hi
  BY <1>1
<1>3. QED
  BY <1>2 DEF Kept

\* It passes a change on that a stream is for ...
LEMMA KeptPasses ==
  ASSUME NEW l \in Seq(Change), NEW f, NEW lo, NEW hi, NEW d, Kept(l, f, lo, hi, d),
         hi < Len(l), l[hi + 1] \in Shown
  PROVE  Kept(l, Append(f, hi + 1), lo, hi + 1, d)
<1> DEFINE g == Append(f, hi + 1)
           k == Len(f)
<1>1. lo \in Nat /\ hi \in Nat /\ lo <= hi /\ Len(l) \in Nat /\ f \in Seq(Nat) /\ k \in Nat
  BY DEF Kept
<1>2. /\ hi + 1 \in Nat /\ lo <= hi + 1 /\ hi + 1 <= Len(l) /\ hi + 1 \in lo + 1 .. hi + 1
      /\ lo + 1 .. hi \subseteq lo + 1 .. hi + 1 /\ hi + 1 \notin lo + 1 .. hi
      /\ \A n \in lo + 1 .. hi + 1 : n = hi + 1 \/ n \in lo + 1 .. hi
      /\ \A n \in lo + 1 .. hi : n < hi + 1
  BY <1>1
<1>3. /\ g \in Seq(Nat) /\ Len(g) = k + 1 /\ g[k + 1] = hi + 1
      /\ \A i \in 1..k : g[i] = f[i]
      /\ DOMAIN g = 1..k + 1 /\ DOMAIN f = 1..k
  BY <1>1, <1>2
<1> HIDE DEF g
<1>4. /\ \A i \in 1..k + 1 : i = k + 1 \/ i \in 1..k
      /\ 1..k \subseteq 1..k + 1 /\ k + 1 \in 1..k + 1
  BY <1>1
<1>5. \A i \in 1..k : f[i] \in lo + 1 .. hi /\ l[f[i]] \in Shown /\ f[i] \notin d
  BY DEF Kept
<1>6. d \subseteq lo + 1 .. hi
  BY DEF Kept
<1>7. \A i \in 1..k + 1 : g[i] \in lo + 1 .. hi + 1 /\ l[g[i]] \in Shown /\ g[i] \notin d
  <2> TAKE i \in 1..k + 1
  <2>1. CASE i = k + 1
    BY <1>2, <1>3, <1>6, <2>1
  <2>2. CASE i \in 1..k
    BY <1>2, <1>3, <1>5, <2>2
  <2>3. QED
    BY <1>4, <2>1, <2>2
<1>8. \A n \in lo + 1 .. hi + 1 : l[n] \in Shown => n \in d \/ \E i \in 1..k + 1 : g[i] = n
  <2> TAKE n \in lo + 1 .. hi + 1
  <2>1. CASE n = hi + 1
    BY <1>3, <1>4, <2>1
  <2>2. CASE n \in lo + 1 .. hi
    <3>1. l[n] \in Shown => n \in d \/ \E i \in 1..k : f[i] = n
      BY <2>2 DEF Kept
    <3>2. QED
      BY <1>3, <1>4, <3>1
  <2>3. QED
    BY <1>2, <2>1, <2>2
<1>9. \A i, j \in 1..k + 1 : i < j => g[i] < g[j]
  <2> SUFFICES ASSUME NEW i \in 1..k + 1, NEW j \in 1..k + 1, i < j PROVE g[i] < g[j]
    OBVIOUS
  <2>1. i \in 1..k /\ g[i] = f[i]
    BY <1>1, <1>3
  <2>2. CASE j = k + 1
    BY <1>2, <1>3, <1>5, <2>1, <2>2
  <2>3. CASE j \in 1..k
    <3>1. f[i] < f[j]
      BY <2>1, <2>3 DEF Kept
    <3>2. QED
      BY <1>3, <2>1, <2>3, <3>1
  <2>4. QED
    BY <1>4, <2>2, <2>3
<1>10. ASSUME NEW n \in d PROVE Cardinality(Older(g, n)) >= EventBuffer
  <2>1. n \in Nat /\ n < hi + 1
    BY <1>1, <1>2, <1>6
  <2>2. ~(g[k + 1] < n)
    BY <1>1, <1>3, <2>1
  <2>3. Older(g, n) = Older(f, n)
    BY <1>3, <1>4, <2>2 DEF Older
  <2>4. QED
    BY <2>3 DEF Kept
<1>11. d \subseteq lo + 1 .. hi + 1
  BY <1>2, <1>6
<1>12. Kept(l, g, lo, hi + 1, d)
  BY <1>1, <1>2, <1>3, <1>7, <1>8, <1>9, <1>10, <1>11 DEF Kept
<1>13. QED
  BY <1>12 DEF g

\* ... and drops it behind a full channel.
LEMMA KeptDrops ==
  ASSUME NEW l \in Seq(Change), NEW f, NEW lo, NEW hi, NEW d, Kept(l, f, lo, hi, d),
         hi < Len(l), Len(f) >= EventBuffer
  PROVE  Kept(l, f, lo, hi + 1, d \cup {hi + 1})
<1> DEFINE e == d \cup {hi + 1}
<1>1. lo \in Nat /\ hi \in Nat /\ lo <= hi /\ Len(l) \in Nat /\ f \in Seq(Nat) /\ Len(f) \in Nat
  BY DEF Kept
<1>2. /\ hi + 1 \in Nat /\ lo <= hi + 1 /\ hi + 1 <= Len(l) /\ hi + 1 \in lo + 1 .. hi + 1
      /\ lo + 1 .. hi \subseteq lo + 1 .. hi + 1 /\ hi + 1 \notin lo + 1 .. hi
      /\ \A n \in lo + 1 .. hi + 1 : n = hi + 1 \/ n \in lo + 1 .. hi
      /\ \A n \in lo + 1 .. hi : n < hi + 1
  BY <1>1
<1>3. \A i \in 1..Len(f) : f[i] \in lo + 1 .. hi /\ l[f[i]] \in Shown /\ f[i] \notin d
  BY DEF Kept
<1>4. d \subseteq lo + 1 .. hi
  BY DEF Kept
<1>5. e \subseteq lo + 1 .. hi + 1
  BY <1>2, <1>4
<1>6. \A i \in 1..Len(f) : f[i] \in lo + 1 .. hi + 1 /\ l[f[i]] \in Shown /\ f[i] \notin e
  BY <1>2, <1>3
<1>7. \A n \in lo + 1 .. hi + 1 : l[n] \in Shown => n \in e \/ \E i \in 1..Len(f) : f[i] = n
  <2> TAKE n \in lo + 1 .. hi + 1
  <2>1. CASE n = hi + 1
    BY <2>1
  <2>2. CASE n \in lo + 1 .. hi
    BY <2>2 DEF Kept
  <2>3. QED
    BY <1>2, <2>1, <2>2
<1>8. Cardinality(Older(f, hi + 1)) >= EventBuffer
  <2>1. DOMAIN f = 1..Len(f)
    BY <1>1
  <2>2. Older(f, hi + 1) = 1..Len(f)
    BY <1>2, <1>3, <2>1 DEF Older
  <2>3. Cardinality(1..Len(f)) = IF 1 > Len(f) THEN 0 ELSE Len(f) - 1 + 1
    BY <1>1, FS_Interval
  <2>4. QED
    BY <1>1, <2>2, <2>3
<1>9. \A n \in e : Cardinality(Older(f, n)) >= EventBuffer
  BY <1>8 DEF Kept
<1>10. \A i, j \in 1..Len(f) : i < j => f[i] < f[j]
  BY DEF Kept
<1> HIDE DEF e
<1>11. Kept(l, f, lo, hi + 1, e)
  BY <1>1, <1>2, <1>5, <1>6, <1>7, <1>9, <1>10 DEF Kept
<1>12. QED
  BY <1>11 DEF e

\* The handler takes the oldest event from the channel to the wire.
LEMMA SendMoves ==
  ASSUME NEW s \in Seq(Nat), NEW q \in Seq(Nat), q # <<>>
  PROVE  /\ Append(s, Head(q)) \in Seq(Nat) /\ Tail(q) \in Seq(Nat)
         /\ Len(Tail(q)) = Len(q) - 1
         /\ Append(s, Head(q)) \o Tail(q) = s \o q
<1>1. /\ Head(q) \in Nat /\ Tail(q) \in Seq(Nat) /\ Len(Tail(q)) = Len(q) - 1 /\ Len(q) \in Nat
      /\ Len(q) # 0 /\ Head(q) = q[1] /\ \A i \in 1..Len(q) - 1 : Tail(q)[i] = q[i + 1]
  OBVIOUS
<1>2. Append(s, Head(q)) \in Seq(Nat)
  BY <1>1
<1>3. Append(s, Head(q)) \o Tail(q) = s \o q
  BY <1>1
<1>4. QED
  BY <1>1, <1>2, <1>3

\* The loop puts an event at the end.
LEMMA PassAppends ==
  ASSUME NEW s \in Seq(Nat), NEW q \in Seq(Nat), NEW n \in Nat
  PROVE  s \o Append(q, n) = Append(s \o q, n)
OBVIOUS

LEMMA FlowIsLonger ==
  ASSUME NEW s \in Seq(Nat), NEW q \in Seq(Nat), Len(q) >= EventBuffer
  PROVE  Len(s \o q) >= EventBuffer
<1>1. Len(s \o q) = Len(s) + Len(q) /\ Len(s) \in Nat /\ Len(q) \in Nat
  OBVIOUS
<1>2. QED
  BY <1>1

LEMMA StreamsInit == Init => StreamsInv
<1> SUFFICES ASSUME Init PROVE StreamsInv
  OBVIOUS
<1>1. StreamTypes
  BY DEF Init, StreamTypes
<1>2. ASSUME NEW c \in Conns PROVE StreamInv(c)
  <2>1. /\ loop[c] = "off" /\ sent[c] = <<>> /\ eventCh[c] = <<>> /\ dropped[c] = {}
        /\ start[c] = 0 /\ pos[c] = 0 /\ log = <<>>
    BY DEF Init
  <2>2. Kept(<<>>, <<>>, 0, 0, {})
    <3>1. <<>> \in Seq(Change) /\ 0 \in Nat /\ 0 <= Len(<<>>)
      OBVIOUS
    <3>2. QED
      BY ONLY <3>1, KeptNothing, Zenon
  <2>3. <<>> \o <<>> = <<>> /\ Len(<<>>) <= EventBuffer
    OBVIOUS
  <2>4. QED
    BY <2>1, <2>2, <2>3 DEF StreamInv
<1>3. QED
  BY <1>1, <1>2 DEF StreamsInv

\* A step that leaves a stream's files and events alone, and takes no handler
\* back to where it has no watcher.
LEMMA StreamAside ==
  ASSUME NEW c \in Conns, StreamInv(c), log' = log,
         start'[c] = start[c], pos'[c] = pos[c], eventCh'[c] = eventCh[c],
         sent'[c] = sent[c], dropped'[c] = dropped[c],
         conn'[c] \in Early => conn[c] \in Early /\ loop'[c] = loop[c]
  PROVE  StreamInv(c)'
<1>1. Kept(log, sent[c] \o eventCh[c], start[c], pos[c], dropped[c])'
  BY DEF StreamInv
<1>2. conn'[c] \in Early => /\ loop'[c] = "off" /\ sent'[c] = <<>> /\ eventCh'[c] = <<>>
                            /\ dropped'[c] = {}
  BY DEF StreamInv
<1>3. Len(eventCh'[c]) <= EventBuffer
  BY DEF StreamInv
<1>4. QED
  BY <1>1, <1>2, <1>3 DEF StreamInv

\* The same of every stream.
LEMMA AllAside ==
  ASSUME StreamsInv, UNCHANGED <<log, start, pos, eventCh, sent, dropped>>,
         conn' \in [Conns -> {"new", "load", "swap", "refused", "slot", "watch", "select",
                         "close", "release", "done"}],
         loop' \in [Conns -> {"off", "select", "done"}],
         \A c \in Conns : conn'[c] \in Early => conn[c] \in Early /\ loop'[c] = loop[c]
  PROVE  StreamsInv'
<1>1. StreamTypes'
  BY DEF StreamsInv, StreamTypes
<1>2. ASSUME NEW c \in Conns PROVE StreamInv(c)'
  <2>1. StreamInv(c)
    BY DEF StreamsInv
  <2>2. QED
    BY <2>1, StreamAside
<1>3. QED
  BY <1>1, <1>2 DEF StreamsInv

LEMMA OpenKeepsStreams ==
  ASSUME StreamsInv, NEW c \in Conns, OpenWatcher(c)
  PROVE  StreamsInv'
<1>1. /\ conn[c] = "watch" /\ conn' = [conn EXCEPT ![c] = "select"]
      /\ loop' = [loop EXCEPT ![c] = "select"]
      /\ start' = [start EXCEPT ![c] = Len(log)] /\ pos' = [pos EXCEPT ![c] = Len(log)]
      /\ log' = log /\ eventCh' = eventCh /\ sent' = sent /\ dropped' = dropped
  BY DEF OpenWatcher, fileVars
<1>2. StreamTypes /\ Len(log) \in Nat
  BY DEF StreamsInv, StreamTypes
<1>3. StreamTypes'
  BY <1>1, <1>2 DEF StreamTypes
<1>4. StreamInv(c)'
  <2>1. sent[c] = <<>> /\ eventCh[c] = <<>> /\ dropped[c] = {}
    BY <1>1 DEF StreamsInv, StreamInv, Early
  <2>2. Kept(log, <<>>, Len(log), Len(log), {})
    BY <1>2, KeptNothing DEF StreamTypes
  <2>3. <<>> \o <<>> = <<>> /\ Len(<<>>) <= EventBuffer
    OBVIOUS
  <2>4. start'[c] = Len(log) /\ pos'[c] = Len(log) /\ conn'[c] = "select"
    BY <1>1, <1>2 DEF StreamTypes
  <2>5. QED
    BY <1>1, <2>1, <2>2, <2>3, <2>4 DEF StreamInv, Early
<1>5. ASSUME NEW d \in Conns, d # c PROVE StreamInv(d)'
  <2>1. StreamInv(d)
    BY DEF StreamsInv
  <2>2. start'[d] = start[d] /\ pos'[d] = pos[d] /\ conn'[d] = conn[d] /\ loop'[d] = loop[d]
    BY <1>1, <1>2, <1>5 DEF StreamTypes
  <2>3. QED
    BY <1>1, <2>1, <2>2, StreamAside
<1>6. QED
  BY <1>3, <1>4, <1>5 DEF StreamsInv

LEMMA SendKeepsStreams ==
  ASSUME StreamsInv, NEW c \in Conns, SendEvent(c)
  PROVE  StreamsInv'
<1>1. /\ conn[c] = "select" /\ eventCh[c] # <<>>
      /\ sent' = [sent EXCEPT ![c] = Append(sent[c], Head(eventCh[c]))]
      /\ eventCh' = [eventCh EXCEPT ![c] = Tail(eventCh[c])]
      /\ conn' = conn /\ log' = log /\ start' = start /\ pos' = pos /\ loop' = loop
      /\ dropped' = dropped
  BY DEF SendEvent, connVars, fileVars
<1>2. StreamTypes
  BY DEF StreamsInv
<1>3. sent[c] \in Seq(Nat) /\ eventCh[c] \in Seq(Nat)
  BY <1>2 DEF StreamTypes
<1>4. /\ Append(sent[c], Head(eventCh[c])) \in Seq(Nat) /\ Tail(eventCh[c]) \in Seq(Nat)
      /\ Len(Tail(eventCh[c])) = Len(eventCh[c]) - 1
      /\ Append(sent[c], Head(eventCh[c])) \o Tail(eventCh[c]) = sent[c] \o eventCh[c]
  BY <1>1, <1>3, SendMoves
<1>5. StreamTypes'
  BY <1>1, <1>2, <1>4 DEF StreamTypes
<1>6. StreamInv(c)'
  <2>1. sent'[c] = Append(sent[c], Head(eventCh[c])) /\ eventCh'[c] = Tail(eventCh[c])
    BY <1>1, <1>2 DEF StreamTypes
  <2>2. sent'[c] \o eventCh'[c] = sent[c] \o eventCh[c]
    BY <1>4, <2>1
  <2>3. Kept(log, sent[c] \o eventCh[c], start[c], pos[c], dropped[c])'
    BY <1>1, <2>2 DEF StreamsInv, StreamInv
  <2>4. Len(eventCh'[c]) <= EventBuffer
    <3>1. Len(eventCh[c]) <= EventBuffer /\ Len(eventCh[c]) \in Nat
      BY <1>3 DEF StreamsInv, StreamInv
    <3>2. Len(eventCh'[c]) = Len(eventCh[c]) - 1
      BY <1>4, <2>1
    <3>3. QED
      BY <3>1, <3>2
  <2>5. QED
    BY <1>1, <2>3, <2>4 DEF StreamInv, Early
<1>7. ASSUME NEW d \in Conns, d # c PROVE StreamInv(d)'
  <2>1. StreamInv(d)
    BY DEF StreamsInv
  <2>2. sent'[d] = sent[d] /\ eventCh'[d] = eventCh[d]
    BY <1>1, <1>2, <1>7 DEF StreamTypes
  <2>3. QED
    BY <1>1, <2>1, <2>2, StreamAside
<1>8. QED
  BY <1>5, <1>6, <1>7 DEF StreamsInv

LEMMA TakeKeepsStreams ==
  ASSUME StreamsInv, NEW c \in Conns, LoopTakes(c)
  PROVE  StreamsInv'
<1> DEFINE i == pos[c] + 1
           full == Len(eventCh[c]) >= EventBuffer
           q == IF Relevant(log[i]) /\ ~full THEN Append(eventCh[c], i) ELSE eventCh[c]
           lost == IF Relevant(log[i]) /\ full THEN dropped[c] \cup {i} ELSE dropped[c]
<1>1. /\ loop[c] = "select" /\ pos[c] < Len(log)
      /\ pos' = [pos EXCEPT ![c] = i]
      /\ eventCh' = [eventCh EXCEPT ![c] = q]
      /\ dropped' = [dropped EXCEPT ![c] = lost]
      /\ conn' = conn /\ log' = log /\ start' = start /\ loop' = loop /\ sent' = sent
  BY DEF LoopTakes, connVars, fileVars
<1>2. StreamTypes
  BY DEF StreamsInv
<1>3. /\ sent[c] \in Seq(Nat) /\ eventCh[c] \in Seq(Nat) /\ pos[c] \in Nat /\ i \in Nat
      /\ dropped[c] \in SUBSET Nat /\ log \in Seq(Change) /\ Len(log) \in Nat
      /\ Len(eventCh[c]) \in Nat
  BY <1>2 DEF StreamTypes
<1>4. q \in Seq(Nat) /\ lost \in SUBSET Nat
  BY <1>3
<1>5. log[i] \in Change
  BY <1>1, <1>3
<1>6. Relevant(log[i]) <=> log[i] \in Shown
  BY <1>5, RelevantShown
<1>7. /\ Kept(log, sent[c] \o eventCh[c], start[c], pos[c], dropped[c])
      /\ Len(eventCh[c]) <= EventBuffer
  BY DEF StreamsInv, StreamInv
<1> HIDE DEF i, q, lost
<1>8. Kept(log, sent[c] \o q, start[c], i, lost) /\ Len(q) <= EventBuffer
  <2>1. CASE ~Relevant(log[i])
    <3>1. q = eventCh[c] /\ lost = dropped[c]
      BY <2>1 DEF q, lost
    <3>2. Kept(log, sent[c] \o eventCh[c], start[c], i, dropped[c])
      BY <1>1, <1>3, <1>6, <1>7, <2>1, KeptSkips DEF i
    <3>3. QED
      BY <1>7, <3>1, <3>2
  <2>2. CASE Relevant(log[i]) /\ ~full
    <3>1. q = Append(eventCh[c], i) /\ lost = dropped[c]
      BY <2>2 DEF q, lost
    <3>2. Kept(log, Append(sent[c] \o eventCh[c], i), start[c], i, dropped[c])
      BY <1>1, <1>3, <1>6, <1>7, <2>2, KeptPasses DEF i
    <3>3. sent[c] \o q = Append(sent[c] \o eventCh[c], i)
      BY ONLY <1>3, <3>1, PassAppends, Zenon
    <3>4. Len(q) <= EventBuffer
      <4>1. Len(q) = Len(eventCh[c]) + 1
        BY <1>3, <3>1
      <4>2. QED
        BY ONLY <1>3, <2>2, <4>1, EventsAssumption
    <3>5. QED
      BY <3>1, <3>2, <3>3, <3>4
  <2>3. CASE Relevant(log[i]) /\ full
    <3>1. q = eventCh[c] /\ lost = dropped[c] \cup {i}
      BY <2>3 DEF q, lost
    <3>2. Len(sent[c] \o eventCh[c]) >= EventBuffer
      BY ONLY <1>3, <2>3, FlowIsLonger, Zenon
    <3>3. Kept(log, sent[c] \o eventCh[c], start[c], i, dropped[c] \cup {i})
      BY <1>1, <1>3, <1>7, <3>2, KeptDrops DEF i
    <3>4. QED
      BY <1>7, <3>1, <3>3
  <2>4. QED
    BY <2>1, <2>2, <2>3
<1>9. StreamTypes'
  BY <1>1, <1>2, <1>3, <1>4 DEF StreamTypes
<1>10. StreamInv(c)'
  <2>1. pos'[c] = i /\ eventCh'[c] = q /\ dropped'[c] = lost
    BY <1>1, <1>2 DEF StreamTypes
  <2>2. conn[c] \notin Early
    BY <1>1 DEF StreamsInv, StreamInv
  <2>3. QED
    BY <1>1, <1>8, <2>1, <2>2 DEF StreamInv
<1>11. ASSUME NEW d \in Conns, d # c PROVE StreamInv(d)'
  <2>1. StreamInv(d)
    BY DEF StreamsInv
  <2>2. pos'[d] = pos[d] /\ eventCh'[d] = eventCh[d] /\ dropped'[d] = dropped[d]
    BY <1>1, <1>2, <1>11 DEF StreamTypes
  <2>3. QED
    BY <1>1, <2>1, <2>2, StreamAside
<1>12. QED
  BY <1>9, <1>10, <1>11 DEF StreamsInv

LEMMA ChangeKeepsStreams ==
  ASSUME StreamsInv, NEW change \in Changes, FileChanges(change)
  PROVE  StreamsInv'
<1>1. /\ log' = Append(log, change) /\ change \in Change
      /\ UNCHANGED <<conn, start, pos, loop, eventCh, sent, dropped>>
  BY DEF FileChanges, connVars, watchVars
<1>2. StreamTypes
  BY DEF StreamsInv
<1>3. StreamTypes'
  BY <1>1, <1>2 DEF StreamTypes
<1>4. ASSUME NEW c \in Conns PROVE StreamInv(c)'
  <2>1. StreamInv(c) /\ log \in Seq(Change)
    BY <1>2 DEF StreamsInv, StreamTypes
  <2>2. Kept(log', sent[c] \o eventCh[c], start[c], pos[c], dropped[c])
    BY <1>1, <2>1, KeptGrows DEF StreamInv
  <2>3. QED
    BY <1>1, <2>1, <2>2 DEF StreamInv
<1>5. QED
  BY <1>3, <1>4 DEF StreamsInv

LEMMA StreamsStep == StreamsInv /\ [Next]_vars => StreamsInv'
<1> SUFFICES ASSUME StreamsInv, [Next]_vars PROVE StreamsInv'
  OBVIOUS
<1>t. StreamTypes
  BY DEF StreamsInv
<1>1. ASSUME NEW c \in Conns, NEW to \in {"load", "swap", "refused", "slot", "watch", "select",
                                          "close", "release", "done"},
             Goes(c, to), UNCHANGED <<log, start, pos, loop, eventCh, sent, dropped>>,
             to \in Early => conn[c] \in Early
      PROVE  StreamsInv'
  <2>1. /\ conn' \in [Conns -> {"new", "load", "swap", "refused", "slot", "watch", "select",
                                "close", "release", "done"}]
        /\ loop' \in [Conns -> {"off", "select", "done"}]
    BY <1>t, <1>1 DEF StreamTypes
  <2>2. \A d \in Conns : conn'[d] \in Early => conn[d] \in Early /\ loop'[d] = loop[d]
    BY <1>t, <1>1 DEF StreamTypes
  <2>3. QED
    BY <1>1, <2>1, <2>2, AllAside
<1>2. ASSUME UNCHANGED <<conn, log, start, pos, loop, eventCh, sent, dropped>> PROVE StreamsInv'
  BY <1>t, <1>2, AllAside DEF StreamTypes
<1>3. ASSUME NEW c \in Conns, Request(c) \/ LoadCount(c) \/ CompareAndSwap(c) PROVE StreamsInv'
  <2>1. /\ conn[c] \in Early
        /\ Goes(c, "load") \/ Goes(c, "refused") \/ Goes(c, "swap") \/ Goes(c, "slot")
        /\ UNCHANGED <<log, start, pos, loop, eventCh, sent, dropped>>
    BY <1>3 DEF Request, LoadCount, CompareAndSwap, fileVars, watchVars, Early
  <2>2. QED
    BY <1>1, <2>1 DEF Early
<1>4. ASSUME NEW c \in Conns, Connected(c) \/ OpenWatcherFails(c) PROVE StreamsInv'
  <2>1. /\ conn[c] \in Early
        /\ Goes(c, "watch") \/ Goes(c, "select") \/ Goes(c, "release")
        /\ UNCHANGED <<log, start, pos, loop, eventCh, sent, dropped>>
    BY <1>4 DEF Connected, OpenWatcherFails, fileVars, watchVars, Early
  <2>2. QED
    BY <1>1, <2>1 DEF Early
<1>5. ASSUME NEW c \in Conns, StreamEnds(c) \/ CloseWatcher(c) \/ ReleaseSlot(c) PROVE StreamsInv'
  <2>1. /\ Goes(c, "close") \/ Goes(c, "release") \/ Goes(c, "done")
        /\ UNCHANGED <<log, start, pos, loop, eventCh, sent, dropped>>
    BY <1>5 DEF StreamEnds, CloseWatcher, ReleaseSlot, fileVars, watchVars
  <2>2. QED
    BY <1>1, <2>1 DEF Early
<1>6. ASSUME NEW c \in Conns, LoopEnds(c) PROVE StreamsInv'
  <2>1. /\ loop[c] = "select" /\ loop' = [loop EXCEPT ![c] = "done"]
        /\ UNCHANGED <<conn, log, start, pos, eventCh, sent, dropped>>
    BY <1>6 DEF LoopEnds, connVars, fileVars
  <2>2. conn[c] \notin Early
    BY <2>1 DEF StreamsInv, StreamInv
  <2>3. /\ conn' \in [Conns -> {"new", "load", "swap", "refused", "slot", "watch", "select",
                                "close", "release", "done"}]
        /\ loop' \in [Conns -> {"off", "select", "done"}]
    BY <1>t, <2>1 DEF StreamTypes
  <2>4. \A d \in Conns : conn'[d] \in Early => conn[d] \in Early /\ loop'[d] = loop[d]
    BY <1>t, <2>1, <2>2 DEF StreamTypes
  <2>5. QED
    BY <2>1, <2>3, <2>4, AllAside
<1>7. ASSUME NEW c \in Conns, NotifyStops(c) \/ ClientLeaves(c) PROVE StreamsInv'
  BY <1>2, <1>7 DEF NotifyStops, ClientLeaves, connVars, fileVars, watchVars
<1>8. CASE ShutdownBegins \/ ServeFails \/ ShutdownReturns
  BY <1>2, <1>8 DEF ShutdownBegins, ServeFails, ShutdownReturns, connVars, fileVars, watchVars
<1>9. CASE UNCHANGED vars
  BY <1>2, <1>9 DEF vars, connVars, fileVars, watchVars
<1>10. QED
  BY <1>3, <1>4, <1>5, <1>6, <1>7, <1>8, <1>9, OpenKeepsStreams, SendKeepsStreams,
     TakeKeepsStreams, ChangeKeepsStreams DEF Next, Handler, Loop

\* For every set of connections, every capacity and any number of changes: a
\* stream shows each change of the two files once and in order from the moment
\* its directory is added, and loses one only behind a full channel
\* (Watcher.loop, the handler's select).
THEOREM EventsExactUnlessFull == Spec => []ExactUnlessFull
<1>1. StreamsInv => ExactUnlessFull
  <2> SUFFICES ASSUME StreamsInv, NEW c \in Conns
               PROVE  LET flow == sent[c] \o eventCh[c]
                      IN  /\ { flow[i] : i \in DOMAIN flow } =
                               { i \in start[c] + 1 .. pos[c] : log[i] \in Shown } \ dropped[c]
                          /\ \A i, j \in DOMAIN flow : i < j => flow[i] < flow[j]
                          /\ \A d \in dropped[c] :
                               Cardinality({ i \in DOMAIN flow : flow[i] < d }) >= EventBuffer
                          /\ Len(eventCh[c]) <= EventBuffer
    BY DEF ExactUnlessFull
  <2> DEFINE flow == sent[c] \o eventCh[c]
             from == start[c] + 1 .. pos[c]
  <2>1. Kept(log, flow, start[c], pos[c], dropped[c]) /\ Len(eventCh[c]) <= EventBuffer
    BY DEF StreamsInv, StreamInv
  <2> HIDE DEF flow, from
  <2>2. DOMAIN flow = 1..Len(flow)
    BY <2>1 DEF Kept
  <2>3. \A i \in DOMAIN flow : flow[i] \in from /\ log[flow[i]] \in Shown /\ flow[i] \notin dropped[c]
    BY <2>1, <2>2 DEF Kept, from
  <2>4. \A n \in from : log[n] \in Shown => n \in dropped[c] \/ \E i \in DOMAIN flow : flow[i] = n
    BY <2>1, <2>2 DEF Kept, from
  <2>5. { flow[i] : i \in DOMAIN flow } = { i \in from : log[i] \in Shown } \ dropped[c]
    BY <2>3, <2>4
  <2>6. \A i, j \in DOMAIN flow : i < j => flow[i] < flow[j]
    BY <2>1, <2>2 DEF Kept
  <2>7. \A d \in dropped[c] : Cardinality({ i \in DOMAIN flow : flow[i] < d }) >= EventBuffer
    BY <2>1 DEF Kept, Older
  <2>8. QED
    BY <2>1, <2>5, <2>6, <2>7 DEF flow, from
<1>2. QED
  BY <1>1, StreamsInit, StreamsStep, PTL DEF Spec
=============================================================================
