------------------------------- MODULE Events -------------------------------
(***************************************************************************)
(* The event streams of `vitis serve' (internal/api): the handlers of      *)
(* handlers_sse.go with their slot counter, one Watcher (watcher.go) with  *)
(* its goroutine per conversation stream, and the server's shutdown        *)
(* (server.go).  A connection is one request for a stream; its handler, its*)
(* watcher's goroutine, the writers of the store and the client are        *)
(* separate processes.                                                     *)
(***************************************************************************)
EXTENDS Integers, Sequences, FiniteSets

CONSTANTS
  Conns,          \* the connections
  MaxStreams,     \* maxSSEConnections
  EventBuffer,    \* the capacity of Watcher.eventCh
  Layouts,        \* "flat": the store's <id>.json and <id>.jsonl, as FileStore writes them;
                  \* "nested": a directory <id> with conversation.json and turns.jsonl
  Faults,         \* what may fail: "flusher", "watcher", "notify"
  Changes,        \* what a writer may do to the conversation's files
  MaxChanges      \* bound on the changes of the watched conversation's files

\* A file of the directory, and what fsnotify says of it: a rename into place
\* is a create.
Change == [file : {"conversation.json", "turns.jsonl", "other"}, op : {"write", "create", "other"}]

ASSUME EventsAssumption ==
  /\ IsFiniteSet(Conns)
  /\ MaxStreams \in Nat \ {0}
  /\ EventBuffer \in Nat \ {0}
  /\ Layouts \subseteq {"flat", "nested"}
  /\ Faults \subseteq {"flusher", "watcher", "notify"}
  /\ Changes \subseteq Change
  /\ MaxChanges \in Nat

VARIABLES
  server,     \* ListenAndServe: "serving", "shutdown" or "returned"
  sseCount,   \* Server.sseCount
  conn,       \* each connection's handler
  kind,       \* which stream it asked for: "conversation" or "lifecycle"
  loaded,     \* the count acquireSSESlot has loaded
  gone,       \* the request's context is done
  layout,     \* how the conversation's files lie
  log,        \* the changes to them, in order
  fsw,        \* the fsnotify watcher: "none", "open" or "closed"
  added,      \* its directory has been added
  start,      \* how many changes there were then
  pos,        \* how many the loop has been handed
  loop,       \* Watcher.loop: "off", "select" or "done"
  eventCh,    \* the events it has passed on: positions in log
  sent,       \* the events on the wire
  dropped     \* the events lost to a full eventCh

srvVars   == <<server, sseCount>>
connVars  == <<conn, kind, loaded, gone>>
fileVars  == <<layout, log>>
watchVars == <<fsw, added, start, pos, loop, eventCh, sent, dropped>>
vars == <<srvVars, connVars, fileVars, watchVars>>

Init ==
  /\ server = "serving"
  /\ sseCount = 0
  /\ conn = [c \in Conns |-> "new"]
  /\ kind \in [Conns -> {"conversation", "lifecycle"}]
  /\ loaded = [c \in Conns |-> 0]
  /\ gone = [c \in Conns |-> FALSE]
  /\ layout \in Layouts
  /\ log = <<>>
  /\ fsw = [c \in Conns |-> "none"]
  /\ added = [c \in Conns |-> FALSE]
  /\ start = [c \in Conns |-> 0]
  /\ pos = [c \in Conns |-> 0]
  /\ loop = [c \in Conns |-> "off"]
  /\ eventCh = [c \in Conns |-> <<>>]
  /\ sent = [c \in Conns |-> <<>>]
  /\ dropped = [c \in Conns |-> {}]

\* The process still runs.
Up == server # "returned"

Goes(c, to) == conn' = [conn EXCEPT ![c] = to]

----------------------------------------------------------------------------
\* acquireSSESlot.

\* A request; an id outside the allowed pattern is refused with 400.
Request(c) ==
  /\ server = "serving"
  /\ conn[c] = "new"
  /\ \/ Goes(c, "load")
     \/ kind[c] = "conversation" /\ Goes(c, "refused")
  /\ UNCHANGED <<srvVars, kind, loaded, gone, fileVars, watchVars>>

\* Load, and 503 at the limit.
LoadCount(c) ==
  /\ Up
  /\ conn[c] = "load"
  /\ loaded' = [loaded EXCEPT ![c] = sseCount]
  /\ Goes(c, IF sseCount >= MaxStreams THEN "refused" ELSE "swap")
  /\ UNCHANGED <<srvVars, kind, gone, fileVars, watchVars>>

\* Slip: the counter is added to without a comparison.
AddUnchecked(c) ==
  /\ Up
  /\ conn[c] = "swap"
  /\ sseCount' = sseCount + 1
  /\ Goes(c, "slot")
  /\ UNCHANGED <<server, kind, loaded, gone, fileVars, watchVars>>

\* CompareAndSwap, or round again.
CompareAndSwap(c) ==
  /\ Up
  /\ conn[c] = "swap"
  /\ IF sseCount = loaded[c]
     THEN sseCount' = sseCount + 1 /\ Goes(c, "slot")
     ELSE Goes(c, "load") /\ UNCHANGED sseCount
  /\ loaded' = [loaded EXCEPT ![c] = 0]
  /\ UNCHANGED <<server, kind, gone, fileVars, watchVars>>

----------------------------------------------------------------------------
\* The handlers.

\* Headers, then the connected event; a writer that cannot flush gets 500.
\* The lifecycle stream has no watcher.
Connected(c) ==
  /\ Up
  /\ conn[c] = "slot"
  /\ \/ Goes(c, IF kind[c] = "conversation" THEN "watch" ELSE "select")
     \/ "flusher" \in Faults /\ Goes(c, "release")
  /\ UNCHANGED <<srvVars, kind, loaded, gone, fileVars, watchVars>>

\* NewWatcher starts the loop, WatchConversation adds the directory if there
\* is one; its error is ignored.
OpenWatcher(c) ==
  /\ Up
  /\ conn[c] = "watch"
  /\ Goes(c, "select")
  /\ fsw' = [fsw EXCEPT ![c] = "open"]
  /\ loop' = [loop EXCEPT ![c] = "select"]
  /\ added' = [added EXCEPT ![c] = (layout = "nested")]
  /\ start' = [start EXCEPT ![c] = Len(log)]
  /\ pos' = [pos EXCEPT ![c] = Len(log)]
  /\ UNCHANGED <<srvVars, kind, loaded, gone, fileVars, eventCh, sent, dropped>>

\* No watcher: the channel stays nil and only heartbeats flow.
OpenWatcherFails(c) ==
  /\ Up
  /\ conn[c] = "watch"
  /\ "watcher" \in Faults
  /\ Goes(c, "select")
  /\ UNCHANGED <<srvVars, kind, loaded, gone, fileVars, watchVars>>

\* The handler's select.  A heartbeat writes a comment and changes nothing
\* else: it is a stuttering step.
SendEvent(c) ==
  /\ Up
  /\ conn[c] = "select"
  /\ eventCh[c] # <<>>
  /\ sent' = [sent EXCEPT ![c] = Append(@, Head(eventCh[c]))]
  /\ eventCh' = [eventCh EXCEPT ![c] = Tail(@)]
  /\ UNCHANGED <<srvVars, connVars, fileVars, fsw, added, start, pos, loop, dropped>>

\* The client is gone, or the events' channel is closed and empty.
StreamEnds(c) ==
  /\ Up
  /\ conn[c] = "select"
  /\ gone[c] \/ (loop[c] = "done" /\ eventCh[c] = <<>>)
  /\ Goes(c, "close")
  /\ UNCHANGED <<srvVars, kind, loaded, gone, fileVars, watchVars>>

\* Slip: the watcher is not closed.
NoClose(c) ==
  /\ Up
  /\ conn[c] = "close"
  /\ Goes(c, "release")
  /\ UNCHANGED <<srvVars, kind, loaded, gone, fileVars, watchVars>>

\* The deferred calls: Watcher.Close ...
CloseWatcher(c) ==
  /\ Up
  /\ conn[c] = "close"
  /\ fsw' = [fsw EXCEPT ![c] = IF @ = "open" THEN "closed" ELSE @]
  /\ Goes(c, "release")
  /\ UNCHANGED <<srvVars, kind, loaded, gone, fileVars, added, start, pos, loop, eventCh, sent, dropped>>

\* ... and the slot.
ReleaseSlot(c) ==
  /\ Up
  /\ conn[c] = "release"
  /\ sseCount' = sseCount - 1
  /\ Goes(c, "done")
  /\ UNCHANGED <<server, kind, loaded, gone, fileVars, watchVars>>

----------------------------------------------------------------------------
\* Watcher.loop.

\* Slip: only writes count.
RelevantWrites(change) ==
  change.op = "write" /\ change.file \in {"conversation.json", "turns.jsonl"}

Relevant(change) ==
  change.op \in {"write", "create"} /\ change.file \in {"conversation.json", "turns.jsonl"}

\* The next change from fsnotify: passed on, skipped, or dropped when the
\* channel is full.
LoopTakes(c) ==
  /\ Up
  /\ loop[c] = "select" /\ fsw[c] = "open" /\ added[c]
  /\ pos[c] < Len(log)
  /\ LET i == pos[c] + 1
         full == Len(eventCh[c]) >= EventBuffer
     IN  /\ pos' = [pos EXCEPT ![c] = i]
         /\ eventCh' = [eventCh EXCEPT ![c] = IF Relevant(log[i]) /\ ~full THEN Append(@, i) ELSE @]
         /\ dropped' = [dropped EXCEPT ![c] = IF Relevant(log[i]) /\ full THEN @ \cup {i} ELSE @]
  /\ UNCHANGED <<srvVars, connVars, fileVars, fsw, added, start, loop, sent>>

\* fsnotify has closed its channels: the loop closes eventCh.
LoopEnds(c) ==
  /\ Up
  /\ loop[c] = "select"
  /\ fsw[c] = "closed"
  /\ loop' = [loop EXCEPT ![c] = "done"]
  /\ UNCHANGED <<srvVars, connVars, fileVars, fsw, added, start, pos, eventCh, sent, dropped>>

\* fsnotify gives up by itself.
NotifyStops(c) ==
  /\ Up
  /\ "notify" \in Faults
  /\ fsw[c] = "open"
  /\ fsw' = [fsw EXCEPT ![c] = "closed"]
  /\ UNCHANGED <<srvVars, connVars, fileVars, added, start, pos, loop, eventCh, sent, dropped>>

----------------------------------------------------------------------------
\* The surroundings.

\* A writer of the conversation's files, in another process.
FileChanges(change) ==
  /\ Up
  /\ Len(log) < MaxChanges
  /\ log' = Append(log, change)
  /\ UNCHANGED <<srvVars, connVars, layout, watchVars>>

\* The client closes the connection.
ClientLeaves(c) ==
  /\ Up
  /\ ~gone[c]
  /\ conn[c] # "new"
  /\ gone' = [gone EXCEPT ![c] = TRUE]
  /\ UNCHANGED <<srvVars, conn, kind, loaded, fileVars, watchVars>>

\* The command's context ends: Shutdown, which takes no new request and does
\* not end the requests it has.
ShutdownBegins ==
  /\ server = "serving"
  /\ server' = "shutdown"
  /\ UNCHANGED <<sseCount, connVars, fileVars, watchVars>>

\* srv.Serve fails, and ListenAndServe returns its error at once.
ServeFails ==
  /\ server = "serving"
  /\ server' = "returned"
  /\ UNCHANGED <<sseCount, connVars, fileVars, watchVars>>

Idle(c) == conn[c] \in {"new", "refused", "done"}

\* Shutdown returns when every connection is idle, or when its five seconds
\* are over; then the process ends.
ShutdownReturns ==
  /\ server = "shutdown"
  /\ server' = "returned"
  /\ UNCHANGED <<sseCount, connVars, fileVars, watchVars>>

----------------------------------------------------------------------------
Handler(c) ==
  \/ LoadCount(c) \/ CompareAndSwap(c) \/ Connected(c)
  \/ OpenWatcher(c) \/ OpenWatcherFails(c)
  \/ StreamEnds(c) \/ CloseWatcher(c) \/ ReleaseSlot(c)

Loop(c) == LoopTakes(c) \/ LoopEnds(c)

Next ==
  \/ \E c \in Conns : \/ Request(c) \/ Handler(c) \/ SendEvent(c)
                      \/ Loop(c) \/ NotifyStops(c) \/ ClientLeaves(c)
  \/ \E change \in Changes : FileChanges(change)
  \/ ShutdownBegins \/ ServeFails \/ ShutdownReturns
  \/ server = "returned" /\ UNCHANGED vars

Spec == Init /\ [][Next]_vars

\* Every goroutine is scheduled, the select takes a case that stays ready,
\* and the shutdown's timer fires.
FairSpec ==
  /\ Spec
  /\ \A c \in Conns : WF_vars(Handler(c)) /\ WF_vars(Loop(c))
  /\ WF_vars(ShutdownReturns)

----------------------------------------------------------------------------
\* Properties.

TypeOK ==
  /\ server \in {"serving", "shutdown", "returned"}
  /\ sseCount \in Nat
  /\ conn \in [Conns -> {"new", "load", "swap", "refused", "slot", "watch", "select",
                         "close", "release", "done"}]
  /\ kind \in [Conns -> {"conversation", "lifecycle"}]
  /\ loaded \in [Conns -> Nat]
  /\ gone \in [Conns -> BOOLEAN]
  /\ layout \in Layouts
  /\ log \in Seq(Change)
  /\ fsw \in [Conns -> {"none", "open", "closed"}]
  /\ added \in [Conns -> BOOLEAN]
  /\ start \in [Conns -> Nat] /\ pos \in [Conns -> Nat]
  /\ loop \in [Conns -> {"off", "select", "done"}]
  /\ eventCh \in [Conns -> Seq(Nat)] /\ sent \in [Conns -> Seq(Nat)]
  /\ dropped \in [Conns -> SUBSET Nat]

\* What a stream is for: the two files appearing or being written.
Shown == [file : {"conversation.json", "turns.jsonl"}, op : {"write", "create"}]

\* The connections that hold a slot.
Streams == { c \in Conns : conn[c] \in {"slot", "watch", "select", "close", "release"} }

\* The counter is the number of streams, whatever the interleaving of loads,
\* swaps and deferred releases, and never above the limit (acquireSSESlot and
\* the deferred Add).
SlotsAreStreams == sseCount = Cardinality(Streams) /\ sseCount <= MaxStreams

\* A stream shows each change of the two files once and in order, from the
\* moment its directory is added; only a full channel costs it an event, and
\* what a full channel still holds is older (Watcher.loop, the handler).
ExactUnlessFull ==
  \A c \in Conns :
    LET flow == sent[c] \o eventCh[c]
    IN  /\ { flow[i] : i \in DOMAIN flow } =
             { i \in start[c] + 1 .. pos[c] : log[i] \in Shown } \ dropped[c]
        /\ \A i, j \in DOMAIN flow : i < j => flow[i] < flow[j]
        /\ \A d \in dropped[c] :
             Cardinality({ i \in DOMAIN flow : flow[i] < d }) >= EventBuffer
        /\ Len(eventCh[c]) <= EventBuffer

\* A client that leaves leaves nothing behind: its slot is given back and its
\* watcher's goroutine ends, unless the process ends first (the deferred
\* calls of the handlers).
LeavesNothing ==
  \A c \in Conns :
    gone[c] ~> (server = "returned" \/ (Idle(c) /\ loop[c] # "select"))
=============================================================================
