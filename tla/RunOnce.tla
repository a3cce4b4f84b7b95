------------------------------- MODULE RunOnce -------------------------------
(***************************************************************************)
(* `vitis run`: one prompt, one agent process, one report.  Run (package   *)
(* orchestrator) spawns the agent, records the session, waits in           *)
(* waitForCompletionLoop until the adapter recognises an end or the        *)
(* context ends, extracts the response and closes the record.  The agent,  *)
(* the goroutines of its pseudo-terminal and the context run beside it.    *)
(***************************************************************************)
EXTENDS Adapters

CONSTANTS
    Lines,        \* the kinds of line this agent may print
    MaxLines,     \* how many lines it prints at most
    TailLines,    \* what fits into the transcript's tail (64 KiB in the code)
    PeekLasts,    \* the values --peek-last may be given
    Trouble       \* the calls that may fail

ASSUME RunAssumption ==
    /\ Lines \subseteq LineKinds
    /\ MaxLines \in Nat /\ TailLines \in Nat \ {0}
    /\ PeekLasts \subseteq Int
    /\ Trouble \subseteq {"spawn", "create", "append", "write", "update", "peek"}

VARIABLES
    pc,           \* where Run is
    provider,     \* the adapter the registry returned
    peekLast,     \* request.PeekLast, after its default
    room,         \* the terminal takes what Run is writing
    agent,        \* "unborn", "running", "detached" (it lives, but has closed
                  \* its terminal) or "exited"
    code,         \* the code the agent exited with
    pty,          \* lines in the terminal that readOutput has not read
    outputCh,     \* its chunks, "eof" once it is closed
    doneCh,       \* "empty", "code" while it holds the result, "closed"
    listening,    \* outputCh is not nil in the loop
    transcript,   \* the lines the loop has taken
    idle,         \* IdleSince has reached 1500 ms
    exitCode,     \* the loop's variable of that name
    context,      \* "live" or "done"
    confirms,     \* whether the loop has sent Enter by itself
    obs,          \* the status of the observation that ended the loop
    disk,         \* the stored session's status and its turns
    report        \* what Run returned

request   == <<provider, peekLast>>
loopVars  == <<listening, transcript, idle, exitCode, confirms>>
agentVars == <<agent, code, pty, outputCh, doneCh>>
vars == <<pc, request, room, agentVars, loopVars, context, obs, disk, report>>

Statuses ==
    {"completed", "blocked_on_input", "auth_required", "rate_limited",
     "timeout", "partial", "crashed", "error"}

ErrorCodes == {"config", "input", "internal", "provider", "spawn", "store", "prompt_io"}

NoReport == [kind |-> "none", status |-> "none", error |-> "none",
             response |-> <<>>, peek |-> <<>>]

Failure(errorCode) == [NoReport EXCEPT !.kind = "error", !.error = errorCode]

MayFail(call) == IF call \in Trouble THEN BOOLEAN ELSE {FALSE}

Living == {"running", "detached"}

Killed == 255     \* the exit code of an agent that SIGKILL ended

-----------------------------------------------------------------------------
\* The request, and the early returns before a process exists.

Requests ==
    [source   : {"neither", "both", "inline", "file"},
     file     : {"ok", "dotdot", "unreadable"},
     provider : Providers \cup {"unknown"},
     envFile  : {"ok", "unreadable"},
     peekLast : PeekLasts]

DefaultPeekLast == 10

FirstError(tests) ==
    LET failing == {i \in DOMAIN tests : tests[i][1]}
    IN  IF failing = {} THEN "none" ELSE tests[Min(failing)][2]

ResolvePrompt(r) == <<
    <<r.source = "both",                              "config">>,
    <<r.source = "file" /\ r.file = "dotdot",         "internal">>,
    <<r.source = "file" /\ r.file = "unreadable",     "input">>,
    <<r.source = "neither",                           "config">> >>

Refusal(r) ==
    FirstError(ResolvePrompt(r) \o << <<r.provider \notin Providers, "provider">>,
                                      <<r.envFile = "unreadable", "config">> >>)

Init ==
  /\ pc = "start" /\ provider = "claude-code" /\ peekLast = DefaultPeekLast
  /\ room = TRUE /\ agent = "unborn" /\ code = 0
  /\ pty = <<>> /\ outputCh = <<>> /\ doneCh = "empty"
  /\ listening = TRUE /\ transcript = <<>> /\ idle = FALSE
  /\ exitCode = NoExit /\ confirms = FALSE
  /\ context = "live" /\ obs = "none"
  /\ disk = [session |-> "none", turns |-> <<>>]
  /\ report = NoReport

Return(r) == pc' = "returned" /\ report' = r

Prepare ==
  /\ pc = "start"
  /\ \E r \in Requests :
        IF Refusal(r) = "none"
        THEN /\ pc' = "spawn" /\ provider' = r.provider
             /\ peekLast' = IF r.peekLast <= 0 THEN DefaultPeekLast ELSE r.peekLast
             /\ UNCHANGED report
        ELSE Return(Failure(Refusal(r))) /\ UNCHANGED request
  /\ UNCHANGED <<room, agentVars, loopVars, context, obs, disk>>

Spawn ==
  /\ pc = "spawn"
  /\ \E failed \in MayFail("spawn") :
        IF failed
        THEN Return(Failure("spawn")) /\ UNCHANGED agent
        ELSE pc' = "create" /\ agent' = "running" /\ UNCHANGED report
  /\ UNCHANGED <<request, room, code, pty, outputCh, doneCh, loopVars, context, obs, disk>>

buildSession == [session |-> "running", turns |-> <<>>]

CreateSession ==
  /\ pc = "create"
  /\ \E failed \in MayFail("create") :
        IF failed
        THEN pc' = "terminate" /\ UNCHANGED disk
        ELSE pc' = "ask" /\ disk' = buildSession
  /\ UNCHANGED <<request, room, agentVars, loopVars, context, obs, report>>

\* A write to the terminal returns when the terminal has taken all of it.
\* Whether there is room is up to the agent, which may not be reading.
StartWrite(point) == pc' = point /\ room' \in BOOLEAN

\* AppendTurn of the prompt.  Its failure leaves the process running.
AppendUserTurn ==
  /\ pc = "ask"
  /\ \E failed \in MayFail("append") :
        IF failed
        THEN Return(Failure("store")) /\ UNCHANGED <<disk, room>>
        ELSE /\ disk' = [disk EXCEPT !.turns = Append(@, "user")]
             /\ IF provider = "codex" THEN pc' = "loop" /\ UNCHANGED room
                ELSE StartWrite("write")
             /\ UNCHANGED report
  /\ UNCHANGED <<request, agentVars, loopVars, context, obs>>

\* The prompt is written before the deadline of --timeout is set.
WritePrompt ==
  /\ pc = "write"
  /\ \/ room /\ doneCh = "empty" /\ pc' = "loop" /\ UNCHANGED obs
     \/ /\ "write" \in Trouble \/ agent # "running"
        /\ pc' = "giveup" /\ obs' = "error"
  /\ UNCHANGED <<request, room, agentVars, loopVars, context, disk, report>>

\* The prompt could not be written: the record is closed as failed if the
\* store lets it, and the result says so either way.
CloseFailedSession ==
  /\ pc = "giveup"
  /\ \E failed \in MayFail("update") :
        disk' = IF failed THEN disk ELSE [disk EXCEPT !.session = obs]
  /\ pc' = "peek"
  /\ UNCHANGED <<request, room, agentVars, loopVars, context, obs, report>>

-----------------------------------------------------------------------------
\* waitForCompletionLoop: any ready case of the select may be chosen.

\* A slip: the timeout returns without stopping the process.
CtxDoneReturns ==
  /\ pc = "loop" /\ context = "done"
  /\ obs' = "timeout" /\ pc' = "extract"
  /\ UNCHANGED <<request, room, agentVars, loopVars, context, disk, report>>

LoopCtxDone ==
  /\ pc = "loop" /\ context = "done"
  /\ obs' = "timeout" /\ pc' = "terminate"
  /\ UNCHANGED <<request, room, agentVars, loopVars, context, disk, report>>

LoopOutput ==
  /\ pc = "loop" /\ outputCh # <<>> /\ Head(outputCh) # "eof"
  /\ transcript' = Append(transcript, Head(outputCh))
  /\ outputCh' = Tail(outputCh)
  /\ idle' = FALSE
  /\ UNCHANGED <<pc, request, room, agent, code, pty, doneCh, listening, exitCode,
                 confirms, context, obs, disk, report>>

LoopOutputClosed ==
  /\ pc = "loop" /\ listening
  /\ outputCh # <<>> /\ Head(outputCh) = "eof"
  /\ listening' = FALSE
  /\ UNCHANGED <<pc, request, room, agentVars, transcript, idle, exitCode, confirms,
                 context, obs, disk, report>>

\* The first receive takes the result, every later one finds the channel
\* closed and counts as code 0.
LoopDone ==
  /\ pc = "loop" /\ doneCh # "empty"
  /\ exitCode' = IF doneCh = "code" THEN code ELSE 0
  /\ doneCh' = "closed"
  /\ UNCHANGED <<pc, request, room, agent, code, pty, outputCh, listening, transcript,
                 idle, confirms, context, obs, disk, report>>

TailOf(lines) ==
  SubSeq(lines, Max({1, Len(lines) - TailLines + 1}), Len(lines))

Observed ==
  Observe(provider, [bytesSeen |-> transcript # <<>>, idle |-> idle,
                     exitCode |-> exitCode, tail |-> TailOf(transcript)])

\* A tick that ends the loop.
TickEnds ==
  /\ pc = "loop" /\ Observed.terminal
  /\ obs' = Observed.status /\ pc' = "extract"
  /\ UNCHANGED <<request, room, agentVars, loopVars, context, disk, report>>

\* A tick that finds a permission prompt sends Enter, a write as well; it is in
\* vain once wait has closed the terminal.
TickConfirms ==
  /\ pc = "loop" /\ Observed.status = "permission_prompt" /\ ~Observed.terminal
  /\ StartWrite("confirm")
  /\ UNCHANGED <<request, agentVars, loopVars, context, obs, disk, report>>

EnterWritten ==
  /\ pc = "confirm" /\ (room \/ agent # "running")
  /\ confirms' = (confirms \/ doneCh = "empty")
  /\ pc' = "loop"
  /\ UNCHANGED <<request, room, agentVars, listening, transcript, idle, exitCode,
                 context, obs, disk, report>>

-----------------------------------------------------------------------------
\* Terminate, after SIGINT was sent: it returns when the exit is reported or,
\* after the grace period, with SIGKILL.

Terminated ==
  IF obs = "timeout"
  THEN pc' = "extract" /\ UNCHANGED report
  ELSE Return(Failure("store"))

TerminateSeesExit ==
  /\ pc = "terminate" /\ doneCh # "empty"
  /\ doneCh' = "closed"
  /\ Terminated
  /\ UNCHANGED <<request, room, agent, code, pty, outputCh, loopVars, context, obs, disk>>

\* A slip: no grace timer, only the exit ends the wait.
TerminateWaitsOn == FALSE /\ UNCHANGED vars

TerminateKills ==
  /\ pc = "terminate" /\ doneCh = "empty"
  /\ agent' = "exited"
  /\ code' = IF agent \in Living THEN Killed ELSE code
  /\ Terminated
  /\ UNCHANGED <<request, room, pty, outputCh, doneCh, loopVars, context, obs, disk>>

-----------------------------------------------------------------------------
\* The report.

Response == ExtractResponse(provider, transcript)

AppendAssistantTurn ==
  /\ pc = "extract"
  /\ \E failed \in MayFail("append") :
        IF Response = <<>>
        THEN pc' = "update" /\ UNCHANGED <<disk, report>>
        ELSE IF failed
        THEN Return(Failure("store")) /\ UNCHANGED disk
        ELSE /\ disk' = [disk EXCEPT !.turns = Append(@, "assistant")]
             /\ pc' = "update"
             /\ UNCHANGED report
  /\ UNCHANGED <<request, room, agentVars, loopVars, context, obs>>

\* A slip: the error of UpdateSession is dropped.
UpdateQuietly ==
  /\ pc = "update"
  /\ \E failed \in MayFail("update") :
        disk' = IF failed THEN disk ELSE [disk EXCEPT !.session = obs]
  /\ pc' = "peek"
  /\ UNCHANGED <<request, room, agentVars, loopVars, context, obs, report>>

UpdateSession ==
  /\ pc = "update"
  /\ \E failed \in MayFail("update") :
        IF failed
        THEN Return(Failure("store")) /\ UNCHANGED disk
        ELSE /\ disk' = [disk EXCEPT !.session = obs]
             /\ pc' = "peek"
             /\ UNCHANGED report
  /\ UNCHANGED <<request, room, agentVars, loopVars, context, obs>>

PeekTurns(lastN) ==
  IF Len(disk.turns) > lastN
  THEN SubSeq(disk.turns, Len(disk.turns) - lastN + 1, Len(disk.turns))
  ELSE disk.turns

assembleResult ==
  [kind |-> "result", status |-> obs, error |-> "none",
   response |-> Response, peek |-> PeekTurns(peekLast)]

resultWithError ==
  [kind |-> "result", status |-> obs, error |-> "prompt_io",
   response |-> <<>>, peek |-> PeekTurns(peekLast)]

\* PeekTurns and the return, of the normal path and of a failed prompt.
PeekAndReturn ==
  /\ pc = "peek"
  /\ \E failed \in MayFail("peek") :
        Return(IF failed THEN Failure("store")
               ELSE IF obs = "error" THEN resultWithError
               ELSE assembleResult)
  /\ UNCHANGED <<request, room, agentVars, loopVars, context, obs, disk>>

-----------------------------------------------------------------------------
\* The agent, readOutput, wait, and the passing of time.

runVars == <<pc, request, loopVars, obs, disk, report>>

Printed == Len(pty) + Len(SelectSeq(outputCh, LAMBDA c : c # "eof")) + Len(transcript)

AgentPrints(line) ==
  /\ agent = "running" /\ Printed < MaxLines
  /\ pty' = Append(pty, line)
  /\ UNCHANGED <<runVars, room, agent, code, outputCh, doneCh, context>>

AgentReads ==
  /\ agent = "running" /\ ~room
  /\ room' = TRUE
  /\ UNCHANGED <<runVars, agentVars, context>>

AgentDetaches ==
  /\ agent = "running"
  /\ agent' = "detached"
  /\ UNCHANGED <<runVars, room, code, pty, outputCh, doneCh, context>>

AgentExits(c) ==
  /\ agent \in Living
  /\ agent' = "exited" /\ code' = c
  /\ UNCHANGED <<runVars, room, pty, outputCh, doneCh, context>>

OutputOpen == "eof" \notin Range(outputCh)

ReadOutput ==
  /\ pty # <<>> /\ doneCh = "empty" /\ OutputOpen
  /\ outputCh' = Append(outputCh, Head(pty))
  /\ pty' = Tail(pty)
  /\ UNCHANGED <<runVars, room, agent, code, doneCh, context>>

\* Any error ends the reader: the terminal is closed here, or nobody has it
\* open on the other side.
ReadOutputEnds ==
  /\ agent \in {"detached", "exited"} /\ (doneCh # "empty" \/ pty = <<>>) /\ OutputOpen
  /\ outputCh' = Append(outputCh, "eof")
  /\ UNCHANGED <<runVars, room, agent, code, pty, doneCh, context>>

\* wait closes the terminal, with whatever readOutput has not read, and
\* reports the exit.
Wait ==
  /\ agent = "exited" /\ doneCh = "empty"
  /\ doneCh' = "code" /\ pty' = <<>>
  /\ UNCHANGED <<runVars, room, agent, code, outputCh, context>>

GoesIdle ==
  /\ pc = "loop" /\ transcript # <<>> /\ ~idle
  /\ idle' = TRUE
  /\ UNCHANGED <<pc, request, room, agentVars, listening, transcript, exitCode, confirms,
                 context, obs, disk, report>>

\* The deadline of --timeout: it is set when the loop begins.
ContextEnds ==
  /\ context = "live" /\ pc \in {"loop", "confirm"}
  /\ context' = "done"
  /\ UNCHANGED <<runVars, room, agentVars>>

RunStep ==
  \/ Prepare \/ Spawn \/ CreateSession \/ AppendUserTurn
  \/ WritePrompt \/ CloseFailedSession
  \/ LoopCtxDone \/ LoopOutput \/ LoopOutputClosed \/ LoopDone
  \/ TickEnds \/ TickConfirms \/ EnterWritten
  \/ TerminateSeesExit \/ TerminateKills
  \/ AppendAssistantTurn \/ UpdateSession \/ PeekAndReturn

AgentStep == \/ AgentReads \/ AgentDetaches
             \/ \E line \in Lines : AgentPrints(line)
             \/ \E c \in {0, 1} : AgentExits(c)

TerminalStep == ReadOutput \/ ReadOutputEnds \/ Wait

Next == RunStep \/ AgentStep \/ TerminalStep \/ GoesIdle \/ ContextEnds

Spec == Init /\ [][Next]_vars

\* Run's goroutine is scheduled, a write that the terminal takes returns, the
\* deadline passes, and a select that is entered again and again with its
\* context done takes that case some time.  Nothing is assumed of the agent,
\* which need not print, read, answer or exit.
FairSpec ==
  /\ Spec
  /\ WF_vars(Prepare \/ Spawn \/ CreateSession \/ AppendUserTurn \/ WritePrompt
             \/ CloseFailedSession \/ EnterWritten \/ AppendAssistantTurn
             \/ UpdateSession \/ PeekAndReturn \/ TerminateSeesExit \/ TerminateKills)
  /\ SF_vars(LoopCtxDone)
  /\ WF_vars(ContextEnds)

-----------------------------------------------------------------------------

TypeOK ==
  /\ pc \in {"start", "spawn", "create", "ask", "write", "giveup", "loop", "confirm",
             "terminate", "extract", "update", "peek", "returned"}
  /\ provider \in Providers /\ peekLast \in Nat \ {0} /\ room \in BOOLEAN
  /\ agent \in Living \cup {"unborn", "exited"} /\ code \in {0, 1, Killed}
  /\ pty \in Seq(Lines) /\ outputCh \in Seq(Lines \cup {"eof"})
  /\ doneCh \in {"empty", "code", "closed"}
  /\ listening \in BOOLEAN /\ transcript \in Seq(Lines)
  /\ idle \in BOOLEAN /\ exitCode \in {NoExit, 0, 1, Killed}
  /\ confirms \in BOOLEAN /\ context \in {"live", "done"}
  /\ obs \in Statuses \cup {"none"}
  /\ disk.session \in Statuses \cup {"none", "running"}
  /\ disk.turns \in Seq({"user", "assistant"})
  /\ report.kind \in {"none", "error", "result"}
  /\ report.error \in ErrorCodes \cup {"none"}

\* A result without an error tells what the store holds, whichever store call
\* failed before: the stored session is closed with the reported status, the
\* assistant's turn is stored exactly when the report has a response, and the
\* turns it shows are the stored ones, or the last of them with --peek-last 1
\* (Run, assembleResult, PeekTurns).
ReportMatchesStore ==
  report.kind = "result" /\ report.error = "none" =>
    /\ disk.session = report.status
    /\ disk.turns = IF report.response = <<>> THEN <<"user">>
                    ELSE <<"user", "assistant">>
    /\ report.peek = IF peekLast > 1 \/ report.response = <<>> THEN disk.turns
                     ELSE <<"assistant">>

\* When Run reports a timeout, or gives up because the session could not be
\* recorded, the agent is gone, even one that ignores SIGINT or that exits
\* while Run is about to stop it (Terminate).
StoppedAgentIsGone ==
  pc = "returned" /\ agent # "unborn" /\ (obs = "timeout" \/ disk.session = "none")
  => agent = "exited"

\* Run waits for the terminal to take the prompt, or an Enter, of an agent that
\* does not read.
Stuck == pc \in {"write", "confirm"} /\ ~room /\ agent = "running"

\* Run returns, whatever the agent prints and whether or not it answers, exits
\* or closes its terminal, unless it stays alive without ever reading what Run
\* writes to it (waitForCompletionLoop, Terminate, process.Write).
RunReturns == <>(pc = "returned") \/ <>[]Stuck

-----------------------------------------------------------------------------
\* What the documentation says of `vitis run`.

\* docs/usage/run.md:91: `crashed' is "Agent process exited with a non-zero
\* code and no recognisable output".  An agent that printed nothing and exited
\* with 1 would then not be reported as completed (completionLoop, Observe).
CrashIsNotCompleted ==
  report.kind = "result" /\ report.status = "completed" /\ transcript = <<>>
  => code # 1
=============================================================================
