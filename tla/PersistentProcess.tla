-------------------------- MODULE PersistentProcess --------------------------
(***************************************************************************)
(* A peer behind a pseudo-terminal: the goroutines readOutput and wait of  *)
(* a terminal process (internal/terminal/process.go), the pump, the turn   *)
(* and its watcher in PersistentProcess (internal/peer/provider/           *)
(* persistent.go), and Transport.Deliver and Stop on top of them           *)
(* (provider.go).  The agent program and the kernel's terminal are outside *)
(* the repository; they are modelled by what the code relies on.           *)
(*                                                                         *)
(* Output is a sequence of items: the echo of an envelope, a line of the   *)
(* reply to it, the marker alone on its line, or chatter after a marker.   *)
(* What happens under PersistentProcess.mu is one step, and cond.Wait      *)
(* gives the mutex up in the step that begins to wait.                     *)
(***************************************************************************)
EXTENDS Integers, SequencesExt

CONSTANTS
  Turns,          \* bound on the envelopes delivered to this peer
  Scenes,         \* the kinds of agent and surroundings to look at
  OutputCap,      \* capacity of process.outputCh (128)
  BufferCap       \* maxBufferBytes, in items

ASSUME ProcessAssumption ==
  /\ Turns \in Nat \ {0}
  /\ \A s \in Scenes : /\ s.text \in Nat /\ s.long \in BOOLEAN
                       /\ s.trouble \subseteq {"chatter", "detach", "exit", "context", "deadline"}
  /\ OutputCap \in Nat \ {0} /\ BufferCap \in Nat \ {0}

VARIABLES
  scene,        \* fixed: text bounds the lines of one reply, long says that an
                \* envelope is more than the terminal takes unread, trouble what
                \* may happen besides
  \* the agent and its terminal
  proc,         \* "running", "detached" (it lives on without a terminal) or "exited"
  killed,       \* SIGKILL has been sent
  echo,         \* does the terminal echo its input?
  input,        \* the envelope the agent has not read yet, 0 if none
  agent,        \* the envelope it answers (0 if none), lines said, chatter left
  tty,          \* output the terminal holds
  stream,       \* all the terminal has put out, ever
  \* process
  reader,       \* readOutput: "read", "send" or "done"
  chunk,        \* what readOutput is about to send
  outputCh,     \* process.outputCh
  waiter,       \* wait: "wait", "result" or "done"; it closes ptmx in between
  doneCh,       \* process.doneCh: "empty", "result" or "closed"
  \* PersistentProcess
  pump,         \* "select", "store", "mark" or "done"
  taken,        \* what the pump is about to store
  buffer,       \* PersistentProcess.buffer (its cursor is always 0)
  exited,       \* PersistentProcess.exited
  conv,         \* ConverseTurn: "idle", "write", "check", "wait" or "failed"
  turn,         \* the number of the envelope being answered, or answered last
  why,          \* how the last turn ended
  answers,      \* what ConverseTurn has returned, turn by turn
  watcher,      \* each turn's watcher: "off", "armed" or "fired"
  late,         \* the turns whose deadline has passed
  closer,       \* Close: "open", "signal", "grace", "join" or "closed"
  ctx           \* has the run context ended?

agentVars == <<scene, proc, killed, echo, input, agent, tty, stream>>
procVars  == <<reader, chunk, outputCh, waiter, doneCh>>
pumpVars  == <<pump, taken, buffer, exited>>
turnVars  == <<conv, turn, why, answers>>
vars == <<agentVars, procVars, pumpVars, turnVars, watcher, late, closer, ctx>>

EchoOf(n)    == [kind |-> "echo",    turn |-> n]
TextOf(n)    == [kind |-> "text",    turn |-> n]
MarkerOf(n)  == [kind |-> "marker",  turn |-> n]
ChatterOf(n) == [kind |-> "chatter", turn |-> n]
Item == [kind : {"echo", "text", "marker", "chatter"}, turn : 1..Turns]

Init ==
  /\ scene \in Scenes
  /\ proc = "running" /\ killed = FALSE /\ echo \in BOOLEAN
  /\ input = 0 /\ agent = [on |-> 0, said |-> 0, chatter |-> 0]
  /\ tty = <<>> /\ stream = <<>>
  /\ reader = "read" /\ chunk = <<>> /\ outputCh = <<>>
  /\ waiter = "wait" /\ doneCh = "empty"
  /\ pump = "select" /\ taken = <<>> /\ buffer = <<>> /\ exited = FALSE
  /\ conv = "idle" /\ turn = 0 /\ why = "none" /\ answers = <<>>
  /\ watcher = [n \in 1..Turns |-> "off"]
  /\ late = {}
  /\ closer = "open"
  /\ ctx = FALSE

----------------------------------------------------------------------------
\* The agent and the terminal.

PutOut(item) ==
  /\ tty' = Append(tty, item)
  /\ stream' = Append(stream, item)

AgentReads ==
  /\ proc = "running" /\ input # 0 /\ agent.on = 0
  /\ agent' = [agent EXCEPT !.on = input, !.said = 0]
  /\ input' = 0
  /\ UNCHANGED <<scene, proc, killed, echo, tty, stream, procVars, pumpVars, turnVars, watcher, late, closer, ctx>>

AgentSays ==
  /\ proc = "running" /\ agent.on # 0
  /\ \/ agent.said < scene.text /\ PutOut(TextOf(agent.on)) /\ agent' = [agent EXCEPT !.said = @ + 1]
     \/ PutOut(MarkerOf(agent.on)) /\ agent' = [agent EXCEPT !.on = 0, !.chatter = agent.on]
  /\ UNCHANGED <<scene, proc, killed, echo, input, procVars, pumpVars, turnVars, watcher, late, closer, ctx>>

\* A prompt or a status line, at any time after a reply.
AgentChats ==
  /\ "chatter" \in scene.trouble
  /\ proc = "running" /\ agent.chatter # 0
  /\ PutOut(ChatterOf(agent.chatter))
  /\ agent' = [agent EXCEPT !.chatter = 0]
  /\ UNCHANGED <<scene, proc, killed, echo, input, procVars, pumpVars, turnVars, watcher, late, closer, ctx>>

\* It closes its terminal, and lives on: reading ptmx fails with EIO.
AgentDetaches ==
  /\ proc = "running" /\ "detach" \in scene.trouble
  /\ proc' = "detached"
  /\ UNCHANGED <<scene, killed, echo, input, agent, tty, stream, procVars, pumpVars, turnVars, watcher, late,
                 closer, ctx>>

AgentExits ==
  /\ proc # "exited"
  /\ "exit" \in scene.trouble \/ closer # "open"
  /\ proc' = "exited"
  /\ UNCHANGED <<scene, killed, echo, input, agent, tty, stream, procVars, pumpVars, turnVars, watcher, late,
                 closer, ctx>>

----------------------------------------------------------------------------
\* process: the reader and the waiter.

PtmxClosed == waiter # "wait"

\* readOutput takes what there is, at most a buffer's worth ...
ReaderReads ==
  /\ reader = "read" /\ ~PtmxClosed /\ tty # <<>>
  /\ \E n \in 1..Len(tty) :
       /\ chunk' = SubSeq(tty, 1, n)
       /\ tty' = SubSeq(tty, n + 1, Len(tty))
  /\ reader' = "send"
  /\ UNCHANGED <<scene, proc, killed, echo, input, agent, stream, outputCh, waiter, doneCh, pumpVars, turnVars,
                 watcher, late, closer, ctx>>

\* ... sends it, waiting for room ...
ReaderSends ==
  /\ reader = "send" /\ Len(outputCh) < OutputCap
  /\ outputCh' = Append(outputCh, chunk)
  /\ chunk' = <<>>
  /\ reader' = "read"
  /\ UNCHANGED <<agentVars, waiter, doneCh, pumpVars, turnVars, watcher, late, closer, ctx>>

\* ... until a read fails, and closes its channel: ptmx is closed, or nobody
\* has the other end of the terminal open any more.
ReaderEnds ==
  /\ reader = "read"
  /\ PtmxClosed \/ (proc # "running" /\ tty = <<>>)
  /\ reader' = "done"
  /\ UNCHANGED <<agentVars, chunk, outputCh, waiter, doneCh, pumpVars, turnVars, watcher, late,
                 closer, ctx>>

\* wait closes the terminal as soon as the agent is gone, read or not ...
WaiterCloses ==
  /\ waiter = "wait" /\ proc = "exited"
  /\ waiter' = "result"
  /\ UNCHANGED <<agentVars, reader, chunk, outputCh, doneCh, pumpVars, turnVars, watcher, late,
                 closer, ctx>>

\* ... then leaves the result in doneCh and closes that too.
WaiterReports ==
  /\ waiter = "result"
  /\ waiter' = "done"
  /\ doneCh' = "result"
  /\ UNCHANGED <<agentVars, reader, chunk, outputCh, pumpVars, turnVars, watcher, late, closer, ctx>>

----------------------------------------------------------------------------
\* PersistentProcess: the pump.

Woken == IF conv = "wait" THEN "check" ELSE conv

\* select takes either channel when both are ready.
PumpTakes ==
  /\ pump = "select" /\ outputCh # <<>>
  /\ taken' = Head(outputCh)
  /\ outputCh' = Tail(outputCh)
  /\ pump' = "store"
  /\ UNCHANGED <<agentVars, reader, chunk, waiter, doneCh, buffer, exited, turnVars, watcher, late,
                 closer, ctx>>

PumpStores ==
  /\ pump = "store"
  /\ buffer' = buffer \o taken
  /\ taken' = <<>>
  /\ conv' = Woken
  /\ pump' = "select"
  /\ UNCHANGED <<agentVars, procVars, exited, turn, why, answers, watcher, late, closer, ctx>>

\* Slip: an empty channel is taken for a closed one.
PumpSeesEmpty ==
  /\ pump = "select" /\ outputCh = <<>>
  /\ pump' = "mark"
  /\ UNCHANGED <<agentVars, procVars, taken, buffer, exited, turnVars, watcher, late, closer, ctx>>

PumpSeesEnd ==
  /\ pump = "select"
  /\ \/ outputCh = <<>> /\ reader = "done" /\ UNCHANGED doneCh
     \/ doneCh # "empty" /\ doneCh' = "closed"
  /\ pump' = "mark"
  /\ UNCHANGED <<agentVars, reader, chunk, outputCh, waiter, taken, buffer, exited, turnVars,
                 watcher, late, closer, ctx>>

PumpMarks ==
  /\ pump = "mark"
  /\ exited' = TRUE
  /\ conv' = Woken
  /\ pump' = "done"
  /\ UNCHANGED <<agentVars, procVars, taken, buffer, turn, why, answers, watcher, late, closer, ctx>>

----------------------------------------------------------------------------
\* ConverseTurn, called by Transport.Deliver.

\* The envelope goes to the terminal, which echoes it; the write fails when
\* nobody has the other end (after an exit a child may still have it).
TurnBegins ==
  /\ conv = "idle" /\ closer = "open" /\ turn < Turns
  /\ turn' = turn + 1
  /\ \/ /\ PtmxClosed \/ proc # "running"
        /\ conv' = "failed" /\ why' = "write"
        /\ UNCHANGED <<input, tty, stream>>
     \/ /\ ~PtmxClosed /\ proc # "detached"
        /\ conv' = "write" /\ why' = "none"
        /\ input' = turn + 1
        /\ IF echo THEN PutOut(EchoOf(turn + 1)) ELSE UNCHANGED <<tty, stream>>
  /\ UNCHANGED <<scene, proc, killed, echo, agent, procVars, pumpVars, answers, watcher, late, closer, ctx>>

\* Write returns when the terminal has taken all of it: at once, or when the
\* agent reads.  Then the deadline is set and the watcher armed.
WriteReturns ==
  /\ conv = "write"
  /\ ~scene.long \/ input = 0
  /\ conv' = "check"
  /\ watcher' = [watcher EXCEPT ![turn] = "armed"]
  /\ UNCHANGED <<agentVars, procVars, pumpVars, turn, why, answers, late, closer, ctx>>

WriteFails ==
  /\ conv = "write" /\ (PtmxClosed \/ proc # "running")
  /\ conv' = "failed" /\ why' = "write"
  /\ UNCHANGED <<agentVars, procVars, pumpVars, turn, answers, watcher, late, closer, ctx>>

\* Slip: any occurrence of the token counts, the echoed instruction's too.
TokenAt(buf, n) == SelectInSeq(buf, LAMBDA x : x \in {MarkerOf(n), EchoOf(n)})

\* findLineAnchoredMarker: the first marker alone on its line; the one inside
\* the echoed instruction does not count.
MarkerAt(buf, n) == SelectInSeq(buf, LAMBDA x : x = MarkerOf(n))

\* stripEnvelopeEcho: what follows the echo, everything when there is none.
StripEnvelopeEcho(captured, n) ==
  LET at == SelectInSeq(captured, LAMBDA x : x = EchoOf(n))
  IN  SubSeq(captured, at + 1, Len(captured))

\* What the loop of ConverseTurn finds, in the order in which it looks.
Finding ==
  CASE MarkerAt(buffer, turn) # 0 -> "reply"
    [] MarkerAt(buffer, turn) = 0 /\ Len(buffer) > BufferCap -> "overflow"
    [] MarkerAt(buffer, turn) = 0 /\ Len(buffer) <= BufferCap ->
         IF exited THEN "exited" ELSE IF ctx THEN "context"
         ELSE IF turn \in late THEN "timeout" ELSE "nothing"

\* Slip: the buffer is not reset.
TurnAnsweredKeepingBuffer ==
  /\ conv = "check" /\ Finding = "reply"
  /\ answers' = Append(answers,
       StripEnvelopeEcho(SubSeq(buffer, 1, MarkerAt(buffer, turn) - 1), turn))
  /\ conv' = "idle" /\ why' = "reply"
  /\ UNCHANGED <<agentVars, procVars, pumpVars, turn, watcher, late, closer, ctx>>

TurnAnswered ==
  /\ conv = "check" /\ Finding = "reply"
  /\ answers' = Append(answers,
       StripEnvelopeEcho(SubSeq(buffer, 1, MarkerAt(buffer, turn) - 1), turn))
  /\ buffer' = <<>>
  /\ conv' = "idle" /\ why' = "reply"
  /\ UNCHANGED <<agentVars, procVars, pump, taken, exited, turn, watcher, late, closer, ctx>>

TurnFails ==
  /\ conv = "check" /\ Finding \notin {"reply", "nothing"}
  /\ conv' = "failed" /\ why' = Finding
  /\ UNCHANGED <<agentVars, procVars, pumpVars, turn, answers, watcher, late, closer, ctx>>

TurnWaits ==
  /\ conv = "check" /\ Finding = "nothing"
  /\ conv' = "wait"
  /\ UNCHANGED <<agentVars, procVars, pumpVars, turn, why, answers, watcher, late, closer, ctx>>

\* The watcher of turn n: it stops when the turn has returned, or fires ...
Over(n) == n < turn \/ conv \in {"idle", "failed"}

WatcherStops(n) ==
  /\ watcher[n] = "armed" /\ Over(n)
  /\ watcher' = [watcher EXCEPT ![n] = "off"]
  /\ UNCHANGED <<agentVars, procVars, pumpVars, turnVars, late, closer, ctx>>

WatcherFires(n) ==
  /\ watcher[n] = "armed" /\ (ctx \/ n \in late)
  /\ watcher' = [watcher EXCEPT ![n] = "fired"]
  /\ UNCHANGED <<agentVars, procVars, pumpVars, turnVars, late, closer, ctx>>

\* Slip: the watcher does not wake the turn.
WatcherForgets(n) ==
  /\ watcher[n] = "fired"
  /\ watcher' = [watcher EXCEPT ![n] = "off"]
  /\ UNCHANGED <<agentVars, procVars, pumpVars, turnVars, late, closer, ctx>>

\* ... and then wakes whoever waits.
WatcherBroadcasts(n) ==
  /\ watcher[n] = "fired"
  /\ watcher' = [watcher EXCEPT ![n] = "off"]
  /\ conv' = Woken
  /\ UNCHANGED <<agentVars, procVars, pumpVars, turn, why, answers, late, closer, ctx>>

DeadlinePasses(n) ==
  /\ "deadline" \in scene.trouble
  /\ watcher[n] = "armed" /\ ~Over(n) /\ n \notin late
  /\ late' = late \cup {n}
  /\ UNCHANGED <<agentVars, procVars, pumpVars, turnVars, watcher, closer, ctx>>

ContextEnds ==
  /\ "context" \in scene.trouble
  /\ ~ctx /\ closer = "open"
  /\ ctx' = TRUE
  /\ UNCHANGED <<agentVars, procVars, pumpVars, turnVars, watcher, late, closer>>

----------------------------------------------------------------------------
\* Transport.Stop and PersistentProcess.Close, between turns.

CloseBegins ==
  /\ closer = "open" /\ conv \in {"idle", "failed"}
  /\ closer' = "signal"
  /\ UNCHANGED <<agentVars, procVars, pumpVars, turnVars, watcher, late, ctx>>

\* Terminate: SIGINT, which fails when the process group is gone (an agent of
\* the same user, so for no other reason) ...
TerminateInterrupts ==
  /\ closer = "signal"
  /\ \/ closer' = "grace"
     \/ PtmxClosed /\ closer' = "join"
  /\ UNCHANGED <<agentVars, procVars, pumpVars, turnVars, watcher, late, ctx>>

\* ... then the exit, whose result it takes from doneCh ...
TerminateSeesExit ==
  /\ closer = "grace" /\ doneCh # "empty"
  /\ doneCh' = "closed"
  /\ closer' = "join"
  /\ UNCHANGED <<agentVars, reader, chunk, outputCh, waiter, pumpVars, turnVars, watcher, late, ctx>>

\* Slip: the grace period ends and nothing follows.
TerminateGivesUp ==
  /\ closer = "grace"
  /\ closer' = "join"
  /\ UNCHANGED <<agentVars, procVars, pumpVars, turnVars, watcher, late, ctx>>

\* ... or SIGKILL after the grace period.
TerminateKills ==
  /\ closer = "grace"
  /\ killed' = TRUE
  /\ closer' = "join"
  /\ UNCHANGED <<scene, proc, echo, input, agent, tty, stream, procVars, pumpVars, turnVars, watcher, late, ctx>>

CloseJoins ==
  /\ closer = "join" /\ pump = "done"
  /\ closer' = "closed"
  /\ UNCHANGED <<agentVars, procVars, pumpVars, turnVars, watcher, late, ctx>>

----------------------------------------------------------------------------
Agent == AgentReads \/ AgentSays \/ AgentChats \/ AgentDetaches \/ AgentExits

Reader == ReaderReads \/ ReaderSends \/ ReaderEnds
Waiter == WaiterCloses \/ WaiterReports
Pump   == PumpTakes \/ PumpStores \/ PumpSeesEnd \/ PumpMarks

ConverseTurn == WriteReturns \/ WriteFails \/ TurnAnswered \/ TurnFails \/ TurnWaits
Watcher(n) == WatcherStops(n) \/ WatcherFires(n) \/ WatcherBroadcasts(n)

Close == TerminateInterrupts \/ TerminateSeesExit \/ TerminateKills \/ CloseJoins

Next ==
  \/ Agent \/ Reader \/ Waiter \/ Pump
  \/ TurnBegins \/ ConverseTurn \/ CloseBegins \/ Close \/ ContextEnds
  \/ \E n \in 1..Turns : Watcher(n) \/ DeadlinePasses(n)

Spec == Init /\ [][Next]_vars

\* The goroutines are scheduled, timers fire and a killed process dies.  The
\* agent itself may do nothing, for ever.
FairSpec ==
  /\ Spec
  /\ WF_vars(Reader) /\ WF_vars(Waiter) /\ WF_vars(Pump)
  /\ WF_vars(ConverseTurn) /\ WF_vars(Close)
  /\ \A n \in 1..Turns : WF_vars(Watcher(n)) /\ WF_vars(DeadlinePasses(n))
  /\ WF_vars(killed /\ AgentExits)

----------------------------------------------------------------------------
\* Properties.

TypeOK ==
  /\ scene \in Scenes
  /\ proc \in {"running", "detached", "exited"} /\ killed \in BOOLEAN /\ echo \in BOOLEAN
  /\ input \in 0..Turns
  /\ agent \in [on : 0..Turns, said : 0..scene.text, chatter : 0..Turns]
  /\ tty \in Seq(Item) /\ stream \in Seq(Item)
  /\ reader \in {"read", "send", "done"}
  /\ chunk \in Seq(Item) /\ outputCh \in Seq(Seq(Item)) /\ Len(outputCh) <= OutputCap
  /\ waiter \in {"wait", "result", "done"} /\ doneCh \in {"empty", "result", "closed"}
  /\ pump \in {"select", "store", "mark", "done"}
  /\ taken \in Seq(Item) /\ buffer \in Seq(Item) /\ exited \in BOOLEAN
  /\ conv \in {"idle", "write", "check", "wait", "failed"}
  /\ turn \in 0..Turns
  /\ why \in {"none", "reply", "write", "overflow", "exited", "context", "timeout"}
  /\ answers \in Seq(Seq(Item))
  /\ watcher \in [1..Turns -> {"off", "armed", "fired"}]
  /\ late \subseteq 1..Turns
  /\ closer \in {"open", "signal", "grace", "join", "closed"}
  /\ ctx \in BOOLEAN

\* How many lines of the reply to envelope n are in s; one is like another.
SaidIn(s, n) == Cardinality({ i \in DOMAIN s : s[i] = TextOf(n) })

\* An answer is the agent's whole reply to its own envelope, however the
\* output was cut into chunks and whatever the previous turn left behind:
\* all of its lines, none of another turn's, no marker and no echo; only
\* chatter after an earlier reply can stray into it (pump, ConverseTurn,
\* stripEnvelopeEcho).
AnswerIsWholeReply ==
  \A n \in DOMAIN answers :
    /\ SaidIn(answers[n], n) = SaidIn(stream, n)
    /\ MarkerAt(stream, n) # 0
    /\ \A i \in DOMAIN answers[n] :
         \/ answers[n][i] = TextOf(n)
         \/ answers[n][i].kind = "chatter" /\ answers[n][i].turn < n

\* Where the terminal echoes, the echo is a wall: nothing put out before the
\* envelope was written comes back in the answer to it (stripEnvelopeEcho).
EchoShieldsAnswer ==
  \A n \in DOMAIN answers : \A i \in DOMAIN answers[n] :
    echo => SelectInSeq(stream, LAMBDA x : x = EchoOf(n))
              < SelectInSeq(stream, LAMBDA x : x = answers[n][i])

\* Nobody stops listening to an agent that can still be heard: the pump has
\* left, so that readOutput may be stuck with a full outputCh for ever, or a
\* turn is told that the process exited, only when the agent has exited or
\* has closed its terminal, whatever order the end of the output, the exit
\* result and Close are seen in (pump, wait, readOutput).  An agent that
\* closed its terminal may be alive when it is called exited.
HeardToTheEnd ==
  exited \/ pump \in {"mark", "done"} \/ why = "exited" => proc # "running"

\* Waiting for the marker always ends, even when the agent says nothing for
\* ever: no wake-up is lost between the watcher, the pump and cond.Wait
\* (ConverseTurn).  A scene without deadlines is one watched for less than a
\* deadline, and says nothing about this.
WaitingEnds ==
  "deadline" \in scene.trouble /\ conv \in {"check", "wait"} ~> conv \in {"idle", "failed"}

\* Close returns, whether the agent obeys SIGINT, ignores it or is already
\* gone, and although Terminate and the pump both read doneCh.
CloseReturns == closer # "open" ~> closer = "closed"
=============================================================================
