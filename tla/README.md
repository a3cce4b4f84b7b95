# A TLA+ verification of Vitis

Vitis runs command-line coding agents behind pseudo-terminals. `vitis run`
gives one prompt to one agent and reports what it answered; `vitis converse`
lets two or more agents talk to each other until one of them says it is done;
`vitis peek` and `vitis serve` read what was stored. This directory models the
parts of it in which something runs beside something else, fails half-way or
has to end, checks the models with TLC and proves the central ones with TLAPS.
All paths below are relative to the repository's root; `map` in `PROJECT.json`
gives the lines behind every definition.

## 1. Inventory

| component | state it keeps | operations | what is hard about it | what makes it correct |
|---|---|---|---|---|
| conversation broker (`internal/conversation/broker.go`) | turn log, active peer, current envelope, decided status, warnings | `Run`: create, start peers, loop (deliver, store, publish, route, limits, drain, judge), finalize, deferred clean-up | every call can fail; the context ends between any two steps; the verdict comes from another goroutine; clean-up after a partial start | one chain of envelopes and turns, one true final status, nothing lost silently, nothing left running, it returns |
| turn policy (`internal/conversation/policy`) | none | `parseNextTrailer`, `roundRobinAfter`, `AddressedPolicy.Next` | trailers and sentinels in one reply; self-addressing; unknown peers | the floor passes to another declared peer; an address is honoured; the fallback reaches everyone |
| sentinel terminator (`internal/terminator`) | subscription, context, goroutine | `Start`, `loop`, `Stop`, `StripSentinel` | speed relative to the broker; `Stop` joins the goroutine | ends with the run; nothing of the sentinel reaches the next peer |
| bus (`internal/bus`, `internal/bus/inproc`) | topic slices, channels, `closed` | `Publish`, `Subscribe`, cancel, `Close` | in-place removal under concurrent walkers; full buffers; close against send | exactly once in order unless full; publishers never wait; silence after `Close` |
| envelope, briefing, style, marker (`internal/conversation`) | none | `BuildEnvelopeTurn1`, `BuildEnvelopeTurnN` | which text of which turn goes to whom | part of the broker's chain |
| peer transport and persistent process (`internal/peer/provider`) | output buffer, `exited`, condition variable, per-turn watcher | `pump`, `ConverseTurn`, `Close` | chunked output, echo, stale output, wake-ups, deadlines, agents that hang | an answer is the whole reply to its own envelope; waiting ends; `Close` returns |
| terminal process and transcript (`internal/terminal`) | `outputCh`, `doneCh`, ptmx, transcript and tail | `readOutput`, `wait`, `Terminate`, `Append` | three goroutines around one exit | a stopped agent is gone; what was printed is read |
| orchestrator (`internal/orchestrator`) | exit code, transcript, session record, report | `Run`, `waitForCompletionLoop`, `resultWithError` | a `select` over four sources; errors after the process was started | the report agrees with the store; it returns |
| adapters (`internal/adapter`) | none | `Observe`, `ExtractResponse` for Claude Code and codex | the transcript is read at an arbitrary moment | what reads as the answer is extracted, and a tick more or less does not change it |
| file store (`internal/store/file`) | one JSON file per record, one JSONL file of turns | create, update, append, get, list, peek | failures and crashes between file-system steps while other processes read | a record is never torn, lost or reopened; turns are read all or not at all |
| REST API (`internal/api/handlers_rest.go`) | none | paginated listings, gets, turns | pages are asked for while records change | a walk through a listing misses no record |
| event streams (`internal/api/handlers_sse.go`, `watcher.go`, `server.go`) | slot counter; a file watcher, goroutine and channel per stream | two streams, slot take and release, `Watcher.loop`, shutdown | a compare-and-swap loop, a bounded channel beside a writer, clients that leave at any moment | the counter is the number of streams; a stream is exact unless its channel was full; nothing is left behind |
| converse command (`internal/cli/converse*.go`) | flags, the bus, the streaming goroutine | `--peer` grammar, validation, building the conversation, streaming, result, exit code | quoting; two paths with different defaults; a stream that starts late and is slow beside the broker; the order Close, Wait, print | what is accepted is what the broker needs; stdout is one document that agrees with the store; the exit code is true |
| peer spawner (`internal/peer/provider/spawner.go`) | none | `buildPersistentSpawnSpec`, `buildPeerEnv` | options of several peers and shared defaults | each peer is started as its own flag says |
| postgres store, v1 reader (`internal/store`) | the database; none | the same interface; conversion of old records | the database's transactions | not modelled |
| other commands (`internal/cli`, `cmd/vitis`) | flags | `run`, `peek`, `doctor`, `serve`, `rtk`, `render` | none of their own | the errors `run` turns into an exit code are in `RunOnce` |

The components meet in two ways. In a conversation the broker calls the store
and the transports, and talks to the sentinel over the bus: a turn goes out on
one topic, a verdict comes back on another. A transport owns a persistent
process, which owns a terminal process with its goroutines. In a single run
the orchestrator itself reads the terminal process's channels, asks an adapter
what it sees and writes the store. The converse command puts the broker, the
bus and a goroutine that copies turns to stdout together. The store's files
are read by other processes at any time, and watched by the event streams.

## 2. Modules

`EXTENDS` runs from right to left; `Broker` instantiates `Conversation`.

    TurnPolicy --+-- Routing -- MCRouting         Adapters --+-- Transcript
                 +-- Conversation                            +-- RunOnce
                 +-- Broker --+-- MCBroker        PersistentProcess -- MCPersistentProcess
    Subscription-+            +-- Converse        FileStore -- RestApi
                 |                 +-- MCConverse Events -- MCEvents
                 +-- Bus -- MCBus                 PeerFlags -- MCPeerFlags

    proofs: TurnPolicyProofs, RoutingProofs, BusProofs, ProcessProofs, EventsProofs,
            ConverseProofs (Broker, Converse, PeerFlags), StoreProofs (FileStore,
            RestApi), RunOnceProofs (RunOnce, Transcript)

A definition introduced as a *slip* is not part of any specification. It is
what a neighbouring definition would be with one plausible mistake in it (a
dropped guard, a missing reset, two steps swapped), and is there to show that
the properties notice: with the slip in place of the definition TLC finds the
property violated (`mutants` in `PROJECT.json` pairs each property with one).

**TurnPolicy** has no state. A reply is a sequence of lines, a line one of
text, blank, `<<END>>` or `<<NEXT: id>>`, where `id` may be declared or not.
`StripSentinel`, `ParseNextTrailer`, `RoundRobinAfter` and `PolicyNext` are the
functions of those names; `Route` is the order in which `Run` applies them: it
strips first and asks the policy with what is left. **Routing** lets an author
compose any reply line by line (`Write`) and submit it (`Submit`).

**Subscription** is one channel of the bus with its buffer and its closing.
**Bus** has `Publish` in three kinds of step (take the read lock and the slice,
visit one subscription, release), so that publishers interleave; `Subscribe`,
cancel and `Close` hold the write lock and are one step each. A topic's slice
is kept as Go keeps it, an array and a length, because cancel removes in place.

**Broker** is `Broker.Run` with the sentinel's goroutine. `pc` names the call
`Run` is at; a step ends where another goroutine or the end of the context can
come between. `CreateConversation`, `StartPeer`, `StartPeerFails` and
`StopStarted` are the opening with its rollback; `LoopHead`, `CallDeliver`,
`DeliverReturns`, `DeliverInterrupted`, `DeliverFails`,
`AppendConversationTurn`, `PublishTurn`, `RouteTurn`, `CheckLimits`, the two
windows of `drainControlTimed` and `Judge` are one turn of the loop;
`Finalize`, `CancelControl`, `StopTerminator`, `JoinTerminator` and `StopPeer`
are the end and the deferred calls in their order. `SentinelReceive`,
`SentinelPublish` and `SentinelExit` are the goroutine. `ContextEnds` and
`PublishOther` come from outside. `history` and `turnsAtDone` only record.
A `Publish` is one step here, which `Bus` justifies: each subscriber sees a
message at one moment and the broker's topics have one subscriber each. The
terminator is the sentinel, the only kind there is; `completed_judge` and
`timeout` exist as statuses but `Run` never produces them (the documentation
expects the second, see section 4), and `continue` stands for the control
messages that `Run` drains and ignores.

**Conversation** is what a reader of a result may rely on: a log of turns, a
floor that passes as the replies ask, and one final status, given once and
backed by the log. Where the documentation and the code disagree it takes no
side: a log that has reached its cap after the context has ended may be given
either status, and an ended context may be called `interrupted` or `timeout`.
`ImplementsConversation` says that `Broker` implements it;
the floor of the abstract conversation is the addressee of the last logged
turn, while `Run` moves its variable only after the drain.

**Converse** is the command from its store on, both paths alike: it embeds
`Broker` step by step (`BrokerRuns`, `SentinelRuns`, `Interrupted`), adds the
goroutine `streamTurnsTo` (`StreamSubscribes`, `StreamWrites`, `StreamEnds`)
with a subscription of its own on the turn topic, and `OpenStore`, `CloseBus`,
`WaitForStream` and `PrintResult`. The goroutine may subscribe after any number
of turns, or after the bus is closed; a write to stdout may fail and the
encoder's error is ignored. On this bus nothing but a closed bus makes
`Publish` or `Subscribe` fail, and nobody else publishes control messages;
`ConverseAssumption` says so, and the general case stays with `Broker`.

**PeerFlags** is what comes before: `parseKeyValueList` as one pass over a
sequence of tokens (the characters the scanner looks at, and words without
any), `parsePeerSpec`, `parseNPeerSpecs`, the validation of both paths, the
conversation each builds, the spawn specification of each peer and the seed of
the first envelope. The last words of the command line are typed token by
token, so that every short text is met. `line.supported` stands for the flags
with a fixed list of values (terminator, bus, log backend, style, directory).

**PersistentProcess** puts together `readOutput` and `wait` of the terminal
process, `pump`, `ConverseTurn` with its watcher goroutine, `Deliver` and
`Close`. Output is a sequence of items (echo, reply line, marker, chatter),
handed on in chunks cut anywhere. A step under the mutex is one step, and
`cond.Wait` gives the mutex up in the step that begins to wait. The agent and
the kernel's terminal are external: they echo or not, print, stay silent, stop
reading, exit or ignore SIGINT, or live on after closing the terminal
(`AgentDetaches`), which ends `readOutput` with an error as an exit does.
SIGINT itself fails only for a process that is gone: agents run as the same
user. A *scene* fixes which of these may happen in a
behaviour; one run looks at three of them.

**Adapters** gives `Observe` and `ExtractResponse` of both adapters over kinds
of line: one kind for each group of patterns the code tells apart. The prompt
`claude>` is a kind of its own beside the other prompt glyphs: `Observe` takes
all of them for the end, `looksLikeNonResponse` knows it, but `cleanBlock` does
not strip it. Confidence values and notes are left out. **Transcript** grows a
transcript line by line and looks at what is extracted after every line.

**RunOnce** is `orchestrator.Run`: the refusals before a process exists,
`Spawn`, `CreateSession`, `AppendUserTurn`, `WritePrompt`, the completion loop
with one action per ready case of its `select`, `Terminate`, extraction, the
last store calls and the report, with every call failing or not. `doneCh` is
`"code"` while it holds the exit result and `"closed"` after (sending and
closing are one step of `wait`), `"eof"` in `outputCh` is its closing, and
`GoesIdle` lets the idle clock pass 1.5 s at any time after output. A write to
the terminal, of the prompt or of the Enter that answers a permission prompt,
begins in one step and returns in another, when the terminal has `room` for it
or nobody has it open any more; an agent that does not read can hold it. The
deadline exists from the loop on (`ContextEnds`). `PeekTurns` cuts to
`--peek-last`. Not in it: the raw event log of `--debug-raw`, and an `outputCh`
that is full (128 chunks).

**FileStore** is the file store of sessions or of conversations, chosen at the
start. A write of a record is truncate-and-write of the temporary file, then
rename, each of which may fail; an append may stop part-way (one that fails
before it writes changes nothing and is no step); the process may
die between any two steps and another one goes on with the files it left. The
store's mutex makes operations of one process follow each other, so only the
steps of one operation are visible, and only one temporary file is ever in
use; one that a failure leaves behind is never read again. Readers are
functions of the disk and their properties hold in every state, because
`vitis serve` and `vitis peek` take no lock. A power loss that undoes a
completed write (there is no `fsync`) is not modelled. **RestApi** adds the
answers of the REST handlers (`ListResponse`, `GetResponse`, `TurnsResponse`)
and a client that walks through a listing page by page (`FirstPage`,
`NextPage`) while the store changes under it.

**Events** is the server side of the event streams: `Request`, `LoadCount` and
`CompareAndSwap` take a slot, `Connected`, `OpenWatcher`, `SendEvent`,
`StreamEnds`, `CloseWatcher` and `ReleaseSlot` are the handler with its
deferred calls in their order, `LoopTakes` and `LoopEnds` the watcher's
goroutine, `ShutdownBegins` and `ShutdownReturns` the server's shutdown,
`ServeFails` the end of `Serve` by itself. Writers
of the files, clients and fsnotify are external. `layout` is how the files lie:
the watcher looks into a directory per conversation, which the file store does
not write (see the list in section 4), so both layouts are looked at. A
heartbeat changes nothing and is a stuttering step.

Each module states its types as `TypeOK`. Types say little about code, so only
`Broker`'s is checked by a run; it is proved as well, as part of the broker's
inductive invariant.

## 3. Hazards

`PROJECT.json` lists them at their lines. In short: verdicts, deadlines and
cancellations that arrive between any two steps of the broker; peers, store
and bus calls that fail one at a time; joins that could wait for ever; buffers
at their limit; output that is late, cut or echoed; wake-ups lost between
goroutines; an exit seen by several goroutines; writes that no deadline covers;
a transcript read too early;
file-system steps interrupted; a listing that moves under its reader; a stream
that subscribes late, is slow or is left by its client; a slot counter shared
by requests; quoting and defaults of peer flags. Two entries have no property:
the write of an envelope that no deadline covers, which is a known disagreement
(section 4), and a tick that is chosen before output already in the channel,
about which neither the code nor a document makes a promise.

## 4. Runs

Passing runs:

| run | instance | what it shows |
|---|---|---|
| `routing` | 3 peers, one stranger, all replies of up to 3 lines | `StripKeepsWhatWasSaid`: the next peer is shown what was said up to the first sentinel. `AddressedIsHonoured`: in a reply without a sentinel line, a trailer counts exactly when the last thing said names another declared peer, read off the reply without the parser. `FallbackVisitsEveryone`: replies that address nobody reach everyone in turn. `FloorPasses`: every submission gives the floor to another declared peer. |
| `bus` | 2 publishers of 2 messages, 2 subscriptions on 2 topics, buffers of 1 | `ListedIffOpen`: a slice holds exactly the open subscriptions. `ExactlyOnceUnlessFull`: a stream has each message once and in order except those that met a full buffer. `SilentAfterClose`. `PublishReturns` although nobody reads. |
| `broker` | 2 peers, cap of 2, buffer of 1, any call failing, another control publisher, cancellation or deadline at any time | `NoSilentLoss`, `DeliverOnlyToLivePeers`, `CleanShutdown`, `AtMostOneLateTurn`, `RunReturns`, `ImplementsConversation`, and `TypeOK`. |
| `converse` | 3 peers, cap of 3, replies that address a peer or carry a sentinel with talk after it, buffers of 1, with and without a stream, peers that fail, a store or stdout that fails; 180,000 states | `EnvelopeChain`: envelopes and turns form one chain when the floor jumps and a verdict may arrive turns later. `StreamAgreesWithStore`: the stream shows every published turn from its subscription on, once, in order and as stored, but for those its buffer or a failed write lost. `ResultComesLast`, `ExitCodeIsTrue`, `CommandReturns`. |
| `process` | 2 turns; an agent with replies of up to 2 lines and chatter after them, one that is silent, closes its terminal, exits or ignores SIGINT, one that does not read; echo or not, `outputCh` of 1; 600,000 states | `AnswerIsWholeReply`: an answer is all of the reply to its own envelope and nothing of another. `EchoShieldsAnswer`: where the terminal echoes, nothing from before the envelope is in the answer. `HeardToTheEnd`: the pump leaves and a turn is told of an exit only when no living agent has its terminal open, however the two channels and `Close` race. `WaitingEnds` and `CloseReturns`: no wake-up and no exit is lost. |
| `transcript` | every transcript of up to 5 lines for both adapters; 540,000 states | `AnswerIsRead`: what reads as the answer, defined without parsing, is what is extracted. `AnswerIsStable`: prompts and footers drawn after it do not change it. Both hold for a `claude>` prompt below an empty line only (see the list below). |
| `run_once` | up to 2 lines of 4 kinds, `--peek-last` absent, 1 and 2, any call failing, an agent that reads or not, closes its terminal or exits, a deadline at any time of the loop; 300,000 states | `ReportMatchesStore`: status, response and the last turns are those of the store. `StoppedAgentIsGone`. `RunReturns`, unless the agent lives and never reads what Run writes. |
| `file_store` | 3 records, one of them with 2 turns of which the second is too long for the session reader; every failure, crashes and restarts; a client that pages with limits 1 and 2; 1.2 million states | `RecordIsWhole`, `RecordStays`, `PeekIsAllOrNothing`, and `WalkMissesNothing`: paging with the limits and offsets of the answers meets every record there was at the start. |
| `events` | 2 requests for 1 slot, of either stream, a channel of 1, 2 changes of 3 kinds, failing flusher, watcher and fsnotify; 420,000 states | `SlotsAreStreams`, `ExactUnlessFull`, and `LeavesNothing`: a client that leaves gets its slot and its goroutine given back. |
| `peer_flags` | every text of up to 5 tokens after `seed=`, and combinations of peers, seeds, openers, directories and limits at their boundaries; 31,000 states | `ValuesSurvive`: what a flag was understood to hold can be written quoted and reads the same. `AcceptedMeetsBroker`: what is accepted meets `BrokerAssumption`, with a seed for everyone and a positive budget. `PeerGetsItsOwn`: each peer is spawned with its own options before shared ones, and with no variable outside the allowlist. |

Runs that end in a violation, each stating a sentence of the repository:

| run | the sentence | what the code does |
|---|---|---|
| `run_once_doc_crash` | docs/usage/run.md:91, `crashed`: "Agent process exited with a non-zero code and no recognisable output" | The loop goes on receiving from the closed `doneCh` (completion_loop.go:62) and overwrites the exit code with 0 before the next tick: a crash without output is `completed`. |
| `flags_doc_seed` | cli/converse_npeer.go:19, "seed optional, per-peer seed text. If omitted, the global --seed flag is used." | `seedFor` reads the fields of the two-peer form (envelope.go:56), which the N-peer path leaves empty: the first envelope has no seed, whatever the flags say. |

Other disagreements met while modelling. The models have the behaviour, or the
code is plain, but no run is kept for them:

- README.md:86 and docs/usage/converse.md:65 promise a per-turn timeout;
  `ConverseTurn` writes the envelope before it sets the deadline
  (persistent.go:221), so an agent that does not read its terminal holds the
  turn for ever (in `PersistentProcess`, the scene `Deaf`).
- docs/usage/run.md:94 and README.md:173 say that vitis does not auto-answer
  permission prompts; the loop answers one with a carriage return
  (completion_loop.go:87).
- cli/converse.go:311-312 says that the very last turn is always drained; a
  stream that subscribes late or has a full buffer loses turns, the last one
  included (`StreamAgreesWithStore` counts them as lost).
- docs/superpowers/specs/2026-04-09-vitis-event-api-and-ui-design.md:125
  has the event stream show changes of a conversation; the watcher looks for
  `conversations/<id>/turns.jsonl` and the file store writes
  `conversations/<id>.jsonl`, so a stream only ever sends heartbeats. The
  lifecycle stream sends nothing else either.
- With an API key set, a CORS preflight is answered 401: the key is checked
  outside of the CORS handler.
- `--opener a` means the first declared peer in N-peer mode even when a peer
  has the id `a` (converse_npeer.go:222); a negative `--overall-timeout` is
  accepted and interrupts the conversation at once, with exit code 0; the list
  grammar takes a trailing comma and an empty list, which its comment does not.
- A walk through a listing filtered by status can skip records when some
  change their status between pages; `WalkMissesNothing` is about unfiltered
  listings.
- The postgres store answers differently from the file store: `PeekTurns` with
  a count of 0 gives ten turns instead of all, an update of a missing session
  succeeds, and conversations, listings and gets are not implemented.
- terminal/screen.go, used by `screendebug` only: deleting more characters than
  are left on the line blanks some to the left of the cursor.
- broker.go:201-203 says that every persisted turn has its routing fields;
  the turn is stored and published before the policy runs (broker.go:191).
- docs/superpowers/adrs/2026-04-08-n-peer-addressed-routing.md:26 says that
  `<<END>>` ends the conversation immediately; a verdict that misses the drain
  window lets further turns happen.
- policy/addressed.go:16-18 says that a final `<<END>>` "takes precedence over
  any <<NEXT: ...>> trailer and causes parseNextTrailer to return nil", and
  addressed_test.go:19 has "end wins over next"; `Run` cuts the reply at the
  sentinel before it asks the policy (broker.go:207), so a trailer above it is
  parsed, recorded and, when the verdict is late, followed.
  `AddressedIsHonoured` leaves such replies out.
- docs/usage/converse.md:63-67 ranks the overall budget above the cap; `Run`
  tests the cap first (broker.go:226), so a turn that reaches it after the budget
  is over reports `max_turns_hit`. `Conversation` allows either.
- docs/usage/converse.md:125-126 gives an expired budget the status `timeout` and
  Ctrl-C `interrupted`; every end of the context is `interrupted`
  (broker.go:166). `Conversation` allows either.
- conversation/briefing.go:11-12 says that the briefing is "injected exactly once
  per peer (on its first envelope)"; only `BuildEnvelopeTurn1` has one, so only
  the opener gets it (broker.go:272). `EnvelopeChain` does not speak of it.
- docs/usage/run.md:47 says that a run whose agent does not answer in the window
  "finalizes with `status: "timeout"`"; the prompt is written
  (orchestrator.go:96) before the deadline is set (line 113), so an agent that
  does not read holds `Run` for ever (`Stuck` in `RunOnce`).
- docs/usage/converse.md:123 gives a process exit the status `peer_crashed`;
  `Run` reports `error` (broker.go:176).
- An agent that lives on after closing its terminal is reported to the turn as
  "process exited (code=0)" (persistent.go:272): `readOutput` ends on any read
  error (process.go:86) and the pump takes the closed channel for an exit.
- claudecode/extract_test.go:74 counts `claude>` among the lines that are no
  response; directly under the answer, without an empty line between, it is
  part of the block and `cleanBlock` leaves it in the response.
- orchestrator.go:91: when the prompt's turn cannot be stored, Run returns an
  error and leaves the agent running; only a failed CreateSession stops it.
- terminal/process.go:97 says that closing ptmx makes `readOutput` exit;
  blocked on a full `outputCh` that nobody reads any more, it does not.
- docs/usage/run.md:85 says that `completed` comes with a non-empty response;
  an exit with code 0 is `completed` whatever was extracted.
- claudecode/observe.go:92-94 relies on the process's exit; a permission word
  in the tail is tested first (line 52), is not terminal, and hides the exit
  until the timeout.
- docs/usage/run.md:77 says that peek gives the full conversation; a session
  turn longer than 64 KiB makes every `PeekTurns` fail (file_store.go:110).

### Bounds

Two turns show everything one turn can do to the next (stale output, envelopes
built from replies, the cap); three turns let a verdict be late by a turn and
the floor come back. Two peers suffice for failures of starting and stopping (one started,
one not); three make addressing and the fallback differ. A buffer of one
message makes drops and blocking happen. `OutputCap = 1` and `BufferCap = 3`
make the channel and the output buffer fill up. `MaxOther` bounds messages of
other control publishers. Two lines per run or per reply let one line decide
and another hide it; five lines in `transcript` are a paragraph or section of
two words with something before and after it. Three records make a walk of
several pages of one or two records with a record created or updated between
them; one of them has turns, since a turn of one record cannot disturb another.
`V2Ids` has the record with the fields of the N-peer form. `HugeTurns` is empty in
the run, so that both turns of a conversation can be read, and left open in the
theorem. `Limits = {0, 3}`
with `MaxLimit = 2` are a limit that is ignored and one that is capped. Two
requests compete for `MaxStreams = 1`, and `EventBuffer = 1` with
`MaxChanges = 2` makes an event drop. Five tokens (`room`) are a quoted value of
three tokens, which covers both escapes and an unfinished quote. The theorems of section 5 have no such bounds.

Deadlock is checked in `routing`, `broker`, `converse` and `events`. The other
specifications stop for good when their bounds are used up, the agent is
silent or the command line was refused, so their configurations do not check it.

### Fairness

Weak fairness but for one action, and only of what the program or the kernel
does by itself: goroutines that can take a step are scheduled, each ready case
of a `select` in a loop is chosen eventually, timers fire, a process that got
SIGKILL ends. `RunReturns` of `RunOnce` also assumes that the deadline of
`--timeout` passes once it is set, and strong fairness of its `select`'s case
for it: the loop leaves the `select` to write an Enter and comes back, and Go
chooses among ready cases at random. Nothing is assumed of the agent: it need
not print, answer or exit, and need not read. Where Run then waits in a write
for ever (`Stuck`), `RunReturns` says so and claims nothing more. Nothing is assumed of subscribers, of other
publishers, and in `Broker` nothing of the context; there `Deliver` answers or
fails, which is `PersistentProcess`'s `WaitingEnds` (the exception is the
envelope's blocking write, in the list above). In `Events` sending
an event is not assumed to happen, since the client may not read, and a client
need not leave; only the shutdown's five-second timer fires. `CommandReturns`
of `Converse` needs the command's, the sentinel's and the stream's goroutines
to be scheduled.

## 5. Proofs

All theorems are checked by TLAPS without any assumption beyond those on the
constants: `PeersAssumption` (at least two distinct peers, strangers and
`NoPeer` are not among them), `BrokerAssumption` (the opener is a peer, the cap
is at least 1, replies are sequences of lines), `BufferAssumption` (buffers
hold at least one message), `MaxLinesAssumption`, `MaxPublishAssumption`,
`ConverseAssumption` (above),
`EventsAssumption` (finitely many connections, limits of at least 1),
`StoreAssumption` (finitely many records), `ApiAssumption` (a page holds at
least one entry), `FlagsAssumption` (the types the flag package delivers, and a
limit of at least two peers), `RunAssumption` (the bounds of a single run) and
`ProcessAssumption` (at least one turn, a channel and a buffer that hold
something, and what an agent may do).

- `StripSentinelClean` and `RouteLeavesTheFloor` (TurnPolicyProofs): for every
  reply of any length, the stripped reply has no sentinel line and is a prefix
  of the reply; and for every list of peers, the routing rule names a declared
  peer that is not the speaker. They rest on lemmas about `Min` and `Max` of
  sets of positions and about the round-robin step.
- `RoutingFloorPasses`, `RoutingStripKeepsWhatWasSaid` and
  `RoutingAddressedIsHonoured` (RoutingProofs): the properties of those names in
  every behaviour of `Routing`. The first two come from the lemmas about the
  policy; the third is about replies without a sentinel line and compares two
  ways to find the last line said, one that strips and searches backwards (the
  code's) and one that quantifies over the reply (a reader's).
- `RoutingFallbackVisitsEveryone` (RoutingProofs): that every peer has spoken
  says nothing about a streak that is still shorter, so `StreakInv` says that
  the speakers of a streak stand one after the other in the declared order,
  wrapping at its end, and that the floor is the next place.
- `BrokerTypeOK`, `BrokerCleanShutdown`, `BrokerDeliverOnlyToLivePeers`,
  `BrokerAtMostOneLateTurn` and `BrokerImplementsConversation` (ConverseProofs):
  for every list of peers, set of replies, cap, buffer size and combination of
  failing calls.

None of the broker's properties is inductive: a property of the final state
says nothing about the states on the way to it. The inductive invariant
`IndInv` (`BrokerIndInv`) has six parts, each preserved by every action given
the types:

- `TypeInv`: the types, and that every logged turn is routed to a peer;
- `Phase`: what is known at each `pc` (where the outcome is still open, how
  many turns are logged, who is active, what was captured);
- `Late`: how far the log can have grown past the context's end, by the phase
  in which the context ended;
- `Lifecycle`: which transports are up while the start and stop loops are at
  their `k`-th peer, and before, between and after them;
- `Teardown`: which subscription and goroutine are gone after which deferred
  call;
- `Evidence`: a sentinel verdict anywhere on its way (in the goroutine, in the
  subscription, among the drained messages, as the outcome) is backed by a
  logged turn, or the one being logged, that says it.

The refinement then needs no case analysis of data: `StepKinds` sorts the
steps into those that leave the abstract state alone (`QuietStep`), the one
that logs a turn (`SpeakStep`), those that decide the outcome (`EndStep`) and
the end of the context (`CancelStep`).

- `BrokerEnvelopeChain` (ConverseProofs): `EnvelopeChain` for every list of
  peers, set of replies and cap. It relates two sequences that are extended at
  different steps, so `ChainInv` says by `pc` how much longer the history of
  envelopes is than the log of turns (`InStep`), that the envelope not yet
  handed over was made from the last turn (`MadeFor`), and that the places
  already filled match (`Chained`, `Answered`). `TypeInv` and `Phase` are used
  from `IndInv`. `ConverseEnvelopeChain` carries it over to the command.
- `BrokerNoSilentLoss` (ConverseProofs), for every combination of failing store
  calls. `StoreFollows` says that each stored turn is a copy of the logged turn
  of its number, in order, that none is missing until an append has failed, and
  what finalize has stored by when; a turn that is captured and not yet logged
  is the last one. `ChainInv` supplies the numbers. `ConverseNoSilentLoss`
  carries it over to the command.
- `BusListedIffOpen` and `BusSilentAfterClose` (BusProofs), for every number of
  publishers, topics, subscriptions and messages and every buffer size. `BusInv`
  says that no slice holds an element twice (`Distinct`: removal in place takes
  out exactly one place), that slices and open flags agree (`Agree`) and that
  nobody walks a slice once the bus is closed (`NoneInside`).
- `BusExactlyOnceUnlessFull` (BusProofs). While publishers are between two
  deliveries, what a subscriber is owed is spread over three places: its stream,
  the messages dropped at its full buffer and the walks that have not reached
  it. `OnceInv` says that these partition what is owed (`Settled`), that a walk
  has the length of the slice as it is now (`WalkInv`: the read lock keeps
  cancel and Subscribe out), that a publisher's messages are numbered by what it
  has sent, which gives the order and the disjointness (`Numbered`), and that a
  subscription not yet made is empty. With `Distinct` from `BusInv`, one visit
  takes a message out of exactly one walk for exactly one subscription.
- `ConverseResultComesLast` (ConverseProofs), for every conversation and every
  speed of the stream. `StreamInv` relates the command's stage to the
  goroutine's: the bus is open until `Run` is back, so a stream cannot have
  ended before, and one that has ended has an empty channel.
- `ConverseImplementsBroker`: every step of the command is a step of `Broker` or
  leaves the broker's variables alone. What is proved of `Broker` therefore
  holds inside the command; `ConverseCleanShutdown` and
  `ConverseImplementsConversation` draw two of these conclusions.
- `ConverseExitCodeIsTrue` (ConverseProofs). The exit code is chosen from the
  outcome long after the outcome was decided, so `Grounds` says that each outcome
  `Run` can decide on has its ground (a sentinel line in the log, a full log, an
  ended context, a peer never started, an envelope without its turn) and keeps
  it until the end; `ExitInv` relates the command's stage to the code.
- `ConverseStreamAgreesWithStore` (ConverseProofs). `FlowInv` says that the
  numbers in the stream and in its buffer, with the dropped ones, are those of
  the turns published since the subscription, ascending, and that each is the
  captured turn of that number; `StoreFollows` says the same of the store, so
  the two agree. A failed write takes one element out of the middle of the
  flow, which the lemmas about `Lacks` are for.
- `ProcessHeardToTheEnd` (ProcessProofs), for every kind of agent. The pump
  learns of the end from two channels at once, so `ExitInv` says what each of
  them proves: a filled `doneCh` and a waiter past its wait mean that the agent
  is gone, a reader that is done only that it has its terminal no longer open.
- `ProcessAnswerIsWholeReply` and `ProcessEchoShieldsAnswer` (ProcessProofs),
  for every number of turns, every size of `outputCh` and of the buffer, and
  however the output is cut into chunks. An answer is complete or not by what is
  still on its way when it is taken, so the inductive invariant `ProcessInv`
  follows the output all along. `Story` is its order: a reply comes after the
  echo of its envelope, chatter after the marker of its reply, and after the
  current marker only chatter. `AgentInv` and `TurnInv` say which envelope the
  agent can have and which turns are answered. `PipeInv` says that the buffer,
  what the pump holds, the chunks in the channel, the reader's chunk and the
  terminal are consecutive pieces of the output (`Pieces`; their limits are a
  function on the channel's places), and that the first of them begins where
  the current turn does, but for chatter (`Since`). `AnswersInv` says between
  which two places of the output each answer was cut. The count of lines in the
  theorem then is a bijection of places.
- `EventsSlotsAreStreams` (EventsProofs), for every number of connections and
  every limit. The counter equals the cardinality of a set of connections, so
  the proof is about sets that gain or lose one element (`StreamJoins`,
  `StreamLeaves`). Inductive with it (`SlotInv`): a handler that is about to
  swap has loaded a count below the limit.
- `EventsExactUnlessFull` (EventsProofs), for every number of connections and
  every buffer. `StreamsInv` says, connection by connection, that the flow
  stands for the changes between the directory's adding and the watcher's
  position (`Kept`), and that a handler without a watcher has none (`Early`).
  That what was lost was lost behind a full channel is a cardinality: the
  number of older events in a flow never shrinks.
- `FlagsAcceptedMeetsBroker` and `FlagsPeerGetsItsOwn` (ConverseProofs), for
  every command line. `FlagsInv` says that the conversation is still what
  `Submit` made of the command line (`BuiltFrom`) and that the processes started
  so far are those of its first entries (`StartedFrom`); the rest is about the
  two paths of the command. What the scanner returns for a flag is left open, so
  neither theorem depends on the grammar. The first one is the other side of
  `BrokerAssumption`: the broker's theorems are about every conversation that
  the command can start.
- `StoreRecordIsWhole` and `StoreRecordStays` (StoreProofs), for every set
  of records. `StoreInv` adds what is known of a write in progress (`Writing`):
  its content is whole, and it follows the record it will replace, which holds
  until the rename because nobody else writes while it has the mutex.
- `ApiPeekIsAllOrNothing` (StoreProofs), for every number of turns and every
  set of turns too long for the reader. An answer shows the turns in the order
  of their index, not of the file, so `LogInv` says what the file itself keeps:
  each index once, every acknowledged one among them, and while an append is in
  progress its line last. The lemmas `ByIndexSorts` and `LastNIsSuffix` say what
  `sort.Slice` and the slice of the last n do to such a file.
- `ApiWalkMissesNothing` (StoreProofs), for every set of records, every limit
  and every cap. Pages are taken by offset out of a list that grows at its front
  meanwhile. `BirthInv` says that creation times are distinct and past, so the
  place of a record in a listing is the number of records as new as it (`Rank`);
  a new record can only raise it. `WalkInv` says that whatever there was at the
  start and has not been seen has a rank above the offset; a page shows the
  ranks that its limit moves the offset past, and the last one reaches them all.
- `RunReportMatchesStore` and `RunStoppedAgentIsGone` (RunOnceProofs), for every
  agent, transcript, `--peek-last` and combination of failing calls. `RunInv` says by `pc` what
  the session record and its turns are (`StoreInv`), which ends the loop may have
  come to (`ObsInv`), that nothing is reported early (`ReportInv`) and when the
  agent must be gone (`AgentInv`). The lemma `ObservedEnds` is what joins them:
  the adapters' rules never end a run without a status and never claim a
  timeout, so a run that reports one has been through `Terminate`.
- `TranscriptAnswerIsRead` and `TranscriptAnswerIsStable` (RunOnceProofs), for
  transcripts of any length. No invariant beyond the types is needed: both are
  facts about `ExtractResponse`. `BlocksAre`, `GoodAre` and `SectionIs` say by
  their first and last place which blocks and sections a transcript has,
  `CleanDropsPrompts` what cleaning leaves of one, and `ClaudeReadsLast` that
  the last good one is returned. A further line then adds a block or lengthens
  the last one (`BlankEndsBlock`, `PromptLengthensBlock`), and neither changes
  which block is returned or what is left of it. A `claude>` is not cleaned
  away, so for it the theorems ask for an empty line before it; it then is a
  block of its own, which is no response (`PromptsAreNoResponse`).

Only model-checked: liveness (`RunReturns`, `PublishReturns`, `WaitingEnds`,
`CloseReturns`, `CommandReturns`, `LeavesNothing`), which is outside this
prover's reach; and `ValuesSurvive`, an induction over the texts of a flag.

## 6. Not modelled

- Byte-level terminal text (`terminal/ansi.go`, `screen.go`), the wording of
  envelopes, briefings and styles, random markers, the adapters' command lines,
  configuration files, rendering.
- The postgres store (single statements, atomic by the database) and the v1
  reader (a pure conversion that fills in defaults, which an operator would
  only repeat).
- HTTP routing, authentication, CORS, encoding and the 400 for an invalid id:
  each decides on one request by itself. fsnotify's overflow error, which the watcher ignores.
- The mock transport, the mock agent and `screendebug`, which are for tests; the
  remote bus and the judge terminator, which only the design documents
  describe.

## 7. Plan

The modules were written in the order routing, bus, broker, process, single
run, store, flags, command, event streams, REST API; they were proved in the
order policy, broker, command, streams, store, envelopes, bus, losses and exit
codes, the rest of routing, event streams, deliveries, single run, process,
pages and peeks, transcripts, flags. What remains is outside the prover's reach
(section 5) or outside the model (section 6).
