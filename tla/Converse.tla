------------------------------ MODULE Converse ------------------------------
(***************************************************************************)
(* The converse command from its store on (ConverseCommand and             *)
(* runNPeerConverse in internal/cli): it runs the broker of module Broker  *)
(* on its own in-process bus while streamTurnsTo, in a goroutine, copies   *)
(* the turn topic to stdout; then it closes the bus, waits for the stream, *)
(* prints the result and picks the exit code.  Both paths of the command   *)
(* share these lines; module PeerFlags models what comes before them.      *)
(***************************************************************************)
EXTENDS Broker

CONSTANT CommandFaults    \* what else may fail: opening the store, writing stdout

\* In this process Publish and Subscribe fail on a closed bus only, and the
\* command closes it after Run; nobody else publishes control messages.
ASSUME ConverseAssumption ==
  /\ CommandFaults \subseteq {"store", "stdout"}
  /\ Faults \cap {"terminator", "subscribe", "publish"} = {}
  /\ OtherControl = {}

VARIABLES
  cmd,        \* where the command is: "store", "run", "join", "print" or "exit"
  code,       \* its exit code, -1 before it exits
  streaming,  \* --stream-turns
  streamer,   \* streamTurnsTo's goroutine: "off", "spawned", "range" or "done"
  streamSub,  \* its subscription to the turn topic
  since,      \* how many turns had been published when it subscribed
  dropped,    \* the turns its full buffer, or a failed write, has lost
  stdout,     \* the turns on stdout, in order
  result      \* the final result on stdout: "none", "printed" or "failed"

streamVars == <<streamer, streamSub, since, dropped, stdout>>
cmdVars    == <<cmd, code, streaming, result>>
allVars    == <<vars, cmdVars, streamVars>>

ConverseInit ==
  /\ Init
  /\ cmd = "store"
  /\ code = -1
  /\ streaming \in BOOLEAN
  /\ streamer = "off"
  /\ streamSub = NoSubscription
  /\ since = 0
  /\ dropped = {}
  /\ stdout = <<>>
  /\ result = "none"

MayFailHere(what) == {FALSE} \cup (IF what \in CommandFaults THEN {TRUE} ELSE {})

----------------------------------------------------------------------------
\* The command's own goroutine.

\* filestore.New; then the stream's goroutine is started, before Run.
OpenStore ==
  /\ cmd = "store"
  /\ \E failed \in MayFailHere("store") :
       IF failed
       THEN cmd' = "exit" /\ code' = 1 /\ UNCHANGED streamer
       ELSE /\ cmd' = "run"
            /\ streamer' = IF streaming THEN "spawned" ELSE "off"
            /\ UNCHANGED code
  /\ UNCHANGED <<vars, streaming, result, streamSub, since, dropped, stdout>>

\* Run.  A turn it publishes goes to the stream's subscription as well.
BrokerRuns ==
  /\ cmd = "run"
  /\ RunNext
  /\ IF pc = "publish"
     THEN /\ streamSub' = Deliver(streamSub, cur)
          /\ dropped' = IF streamSub.state = "open" /\ Full(streamSub)
                        THEN dropped \cup {cur.index} ELSE dropped
     ELSE UNCHANGED <<streamSub, dropped>>
  /\ UNCHANGED <<cmdVars, streamer, since, stdout>>

SentinelRuns == cmd = "run" /\ SentinelNext /\ UNCHANGED <<cmdVars, streamVars>>

Interrupted == cmd = "run" /\ Environment /\ UNCHANGED <<cmdVars, streamVars>>

\* Slip: the bus is left to the deferred Close.
CloseLater ==
  /\ cmd = "run"
  /\ pc = "returned"
  /\ cmd' = "join"
  /\ UNCHANGED <<vars, code, streaming, result, streamVars>>

\* b.Close once Run is back: what the stream has buffered stays readable.
CloseBus ==
  /\ cmd = "run"
  /\ pc = "returned"
  /\ cmd' = "join"
  /\ streamSub' = CloseSubscription(streamSub)
  /\ UNCHANGED <<vars, code, streaming, result, streamer, since, dropped, stdout>>

BusClosed == cmd \in {"join", "print", "exit"}

\* Slip: the result does not wait for the stream.
NoWait ==
  /\ cmd = "join"
  /\ cmd' = "print"
  /\ UNCHANGED <<vars, code, streaming, result, streamVars>>

\* streamWg.Wait.
WaitForStream ==
  /\ cmd = "join"
  /\ streamer \in {"off", "done"}
  /\ cmd' = "print"
  /\ UNCHANGED <<vars, code, streaming, result, streamVars>>

\* Slip: an interrupted conversation is an error.
ExitCodeStrict(status) == IF status \in {"completed_sentinel", "max_turns_hit"} THEN 0 ELSE 1

ExitCode(status) ==
  IF status \in {"completed_sentinel", "max_turns_hit", "interrupted"} THEN 0 ELSE 1

\* The result, then the exit code: a result that cannot be written is 1.
PrintResult ==
  /\ cmd = "print"
  /\ \E failed \in MayFailHere("stdout") :
       /\ result' = IF failed THEN "failed" ELSE "printed"
       /\ code' = IF failed THEN 1 ELSE ExitCode(outcome)
  /\ cmd' = "exit"
  /\ UNCHANGED <<vars, streaming, streamVars>>

----------------------------------------------------------------------------
\* streamTurnsTo.

\* The turns published so far.
Published == IF pc = "route" THEN Append(turns, cur) ELSE turns

\* Subscribe, whenever the goroutine gets to run: turns published before are
\* not seen, and on a closed bus it returns.
StreamSubscribes ==
  /\ streamer = "spawned"
  /\ IF BusClosed
     THEN streamer' = "done" /\ UNCHANGED <<streamSub, since>>
     ELSE /\ streamer' = "range"
          /\ streamSub' = NewSubscription
          /\ since' = Len(Published)
  /\ UNCHANGED <<vars, cmdVars, dropped, stdout>>

\* One turn to stdout; the encoder's error is not looked at.
StreamWrites ==
  /\ streamer = "range"
  /\ CanReceive(streamSub)
  /\ streamSub' = Received(streamSub)
  /\ \E failed \in MayFailHere("stdout") :
       IF failed
       THEN dropped' = dropped \cup {Head(streamSub.queue).index} /\ UNCHANGED stdout
       ELSE stdout' = Append(stdout, Head(streamSub.queue)) /\ UNCHANGED dropped
  /\ UNCHANGED <<vars, cmdVars, streamer, since>>

\* The range ends when the channel is closed and empty, never on the context.
StreamEnds ==
  /\ streamer = "range"
  /\ streamSub.state = "closed"
  /\ ~CanReceive(streamSub)
  /\ streamer' = "done"
  /\ UNCHANGED <<vars, cmdVars, streamSub, since, dropped, stdout>>

----------------------------------------------------------------------------
CommandNext == OpenStore \/ BrokerRuns \/ CloseBus \/ WaitForStream \/ PrintResult

StreamNext == StreamSubscribes \/ StreamWrites \/ StreamEnds

Exited == cmd = "exit" /\ UNCHANGED allVars

ConverseNext == CommandNext \/ SentinelRuns \/ StreamNext \/ Interrupted \/ Exited

ConverseSpec == ConverseInit /\ [][ConverseNext]_allVars

\* Each goroutine is scheduled, and Deliver answers (see Broker).
FairConverseSpec ==
  /\ ConverseSpec
  /\ WF_allVars(CommandNext) /\ WF_allVars(SentinelRuns) /\ WF_allVars(StreamNext)

----------------------------------------------------------------------------
\* Properties.

\* What the stream has written and still has buffered.
Flow == stdout \o streamSub.queue

\* The stream shows the conversation as it is recorded: from the turn after
\* its subscription on, every published turn exactly once and in order but
\* for those lost to a full buffer or a failed write, and each one equal to
\* the stored turn of the same number (streamTurnsTo's late Subscribe, the
\* bus's drops, and AppendConversationTurn and publishTurn before routing).
StreamAgreesWithStore ==
  /\ streamSub.state # "none" =>
       { Flow[i].index : i \in DOMAIN Flow } = (since + 1 .. Len(Published)) \ dropped
  /\ \A i, j \in DOMAIN Flow : i < j => Flow[i].index < Flow[j].index
  /\ \A i \in DOMAIN Flow : \A j \in DOMAIN disk.turns :
       Flow[i].index = disk.turns[j].index => Flow[i] = disk.turns[j]

\* Stdout is one document: the result comes after every turn the stream
\* accepted, and nothing follows it (Close, then Wait, then Encode).
ResultComesLast ==
  cmd \in {"print", "exit"} => streamer \in {"off", "done"} /\ streamSub.queue = <<>>

\* The exit code tells what happened: 0 only when the sentinel was said, the
\* cap was reached or the run was interrupted, and the result is on stdout;
\* 1 only when something failed.
ExitCodeIsTrue ==
  /\ code = 0 =>
       /\ result = "printed"
       /\ \/ \E i \in DOMAIN turns : ContainsOnOwnLine(turns[i].reply)
          \/ Len(turns) = MaxTurns
          \/ CtxDone
  /\ code = 1 =>
       \/ pc = "create"                        \* the store did not open
       \/ result = "failed"
       \/ \E p \in Peers : peers[p] = "new"    \* a peer did not start
       \/ Len(history) = Len(turns) + 1        \* an envelope was not answered

\* The command exits, however slow its stream and whichever calls fail, given
\* that every Deliver answers (an agent that takes its envelope, see
\* PersistentProcess) and that a write to stdout returns or fails: the order
\* Close, Wait, print of runConverse leaves nobody waiting for a stream that
\* cannot end.
CommandReturns == <>(cmd = "exit")
=============================================================================
