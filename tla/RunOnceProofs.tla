---------------------------- MODULE RunOnceProofs ----------------------------
(***************************************************************************)
(* Proofs about modules RunOnce and Transcript.  For every agent, any      *)
(* number of lines, every tail and whichever calls fail, what Run reports  *)
(* is what it has stored, and the agent it has stopped is gone.  For a     *)
(* transcript of any length, what reads as the answer is what is extracted,*)
(* and what is drawn after it does not change it.                          *)
(***************************************************************************)
EXTENDS RunOnce, Transcript, FiniteSetTheorems, SequenceTheorems, TLAPS

W == INSTANCE WellFoundedInduction

Record(session, turns) == [session |-> session, turns |-> turns]

\* The turns that belong to a run whose response is the one in the transcript.
Answered == IF Response = <<>> THEN <<"user">> ELSE <<"user", "assistant">>

\* What is stored at each point of Run.
StoreInv ==
  /\ pc \in {"start", "spawn", "create"} => disk = Record("none", <<>>)
  /\ pc = "ask" => disk = Record("running", <<>>)
  /\ pc \in {"write", "giveup", "loop", "confirm", "extract"} => disk = Record("running", <<"user">>)
  /\ pc = "terminate" => disk = IF obs = "timeout" THEN Record("running", <<"user">>)
                                ELSE Record("none", <<>>)
  /\ pc = "update" => disk = Record("running", Answered)
  /\ pc = "peek" /\ obs # "error" => disk = Record(obs, Answered)
  /\ pc = "peek" => disk.session # "none"

\* How the loop ended: with no status of its own before, and never without one
\* after.
ObsInv ==
  /\ pc \in {"start", "spawn", "create", "ask", "write", "loop", "confirm"} => obs = "none"
  /\ pc = "giveup" => obs = "error"
  /\ pc = "terminate" => obs \in {"none", "timeout"}
  /\ pc \in {"extract", "update", "peek"} => obs # "none"

\* Nothing is reported before the end, and what is reported then matches.
ReportInv ==
  /\ pc # "returned" => report = NoReport
  /\ ReportMatchesStore

AgentStates == {"unborn", "running", "detached", "exited"}

\* The agent: who is gone stays gone, its exit is reported only then, and Run
\* goes on from a timeout, or leaves without a record, past Terminate only.
AgentInv ==
  /\ agent \in AgentStates
  /\ pc \in {"start", "spawn"} => agent = "unborn"
  /\ doneCh # "empty" => agent = "exited"
  /\ pc \in {"extract", "update", "peek", "returned"} /\ obs = "timeout" => agent = "exited"
  /\ pc = "returned" /\ disk.session = "none" => agent \in {"unborn", "exited"}

Points == {"start", "spawn", "create", "ask", "write", "giveup", "loop", "confirm",
           "terminate", "extract", "update", "peek", "returned"}

PeekInv == peekLast \in Nat \ {0}

RunInv == pc \in Points /\ PeekInv /\ StoreInv /\ ObsInv /\ ReportInv /\ AgentInv

----------------------------------------------------------------------------
\* What Observe may say.

\* Every non-empty set of natural numbers has a least element.
LEMMA LeastRule ==
  ASSUME NEW S \in SUBSET Nat, S # {}
  PROVE  Min(S) \in S /\ \A y \in S : Min(S) <= y
<1> DEFINE R == { ss \in Nat \X Nat : ss[1] < ss[2] }
<1>1. W!IsWellFoundedOn(R, Nat)
  BY W!NatLessThanWellFounded DEF W!OpToRel
<1>2. \E x \in S : \A y \in S : ~(<<y, x>> \in R)
  <2> HIDE DEF R
  <2>1. QED
    BY <1>1, W!WFMin, Zenon
<1>3. PICK x \in S : \A y \in S : ~(<<y, x>> \in R)
  BY <1>2
<1>4. \A y \in S : x <= y
  <2> TAKE y \in S
  <2>1. ~(<<y, x>> \in R)
    BY <1>3
  <2>2. QED
    BY <2>1
<1>5. QED
  BY <1>4 DEF Min

\* An end that a test of an adapter may find.
Ends == {"completed", "blocked_on_input", "auth_required", "rate_limited", "partial", "crashed"}

\* The first of a list of tests that ends with one that always holds decides.
LEMMA FirstRuleIsOne ==
  ASSUME NEW rules, NEW n \in Nat \ {0}, DOMAIN rules = 1..n, rules[n].when = TRUE
  PROVE  \E i \in 1..n : FirstRule(rules) = rules[i].then
<1> DEFINE holding == {i \in DOMAIN rules : rules[i].when}
<1>1. holding \in SUBSET Nat /\ n \in holding /\ holding \subseteq 1..n
  OBVIOUS
<1> HIDE DEF holding
<1>2. Min(holding) \in holding
  BY <1>1, LeastRule
<1>3. FirstRule(rules) = rules[Min(holding)].then
  BY DEF FirstRule, holding
<1>4. QED
  BY <1>1, <1>2, <1>3

LEMMA ClaudeEnds ==
  ASSUME NEW c, ClaudeObserve(c).terminal PROVE ClaudeObserve(c).status \in Ends
<1> DEFINE quiet(kinds) == c.idle /\ MatchAny(kinds, c.tail)
           exited == c.exitCode # NoExit
           rules == <<
            Rule(~c.bytesSeen /\ exited,     "partial",           TRUE),
            Rule(quiet({"press"}),           "blocked_on_input",  TRUE),
            Rule(quiet({"login"}),           "auth_required",     TRUE),
            Rule(quiet({"rate"}),            "rate_limited",      TRUE),
            Rule(quiet({"approve"}),         "permission_prompt", FALSE),
            Rule(exited /\ c.exitCode = 0,   "completed",         TRUE),
            Rule(exited,                     "crashed",           TRUE),
            Rule(quiet({">", "claude>"}),    "completed",         TRUE),
            Rule(TRUE,                       "none",              FALSE)>>
<1>1. ClaudeObserve(c) = FirstRule(rules)
  BY DEF ClaudeObserve
<1>2. DOMAIN rules = 1..9 /\ rules[9].when = TRUE
  BY DEF Rule
<1>3. \A i \in 1..9 : rules[i].then.terminal => rules[i].then.status \in Ends
  BY DEF Rule, Ends
<1> HIDE DEF rules
<1>4. PICK i \in 1..9 : FirstRule(rules) = rules[i].then
  <2>1. 9 \in Nat \ {0}
    OBVIOUS
  <2>2. QED
    BY ONLY <1>2, <2>1, FirstRuleIsOne, Zenon
<1>5. QED
  BY <1>1, <1>3, <1>4

LEMMA CodexEnds ==
  ASSUME NEW c, CodexObserve(c).terminal PROVE CodexObserve(c).status \in Ends
<1> DEFINE quiet(kinds) == c.idle /\ MatchAny(kinds, c.tail)
           exited == c.exitCode # NoExit
           rules == <<
            Rule(exited /\ c.exitCode = 0,    "completed",        TRUE),
            Rule(exited,                      "crashed",          TRUE),
            Rule(quiet({"login"}),            "auth_required",    TRUE),
            Rule(quiet({"rate"}),             "rate_limited",     TRUE),
            Rule(quiet({"press", "approve"}), "blocked_on_input", TRUE),
            Rule(TRUE,                        "none",             FALSE)>>
<1>1. CodexObserve(c) = FirstRule(rules)
  BY DEF CodexObserve
<1>2. DOMAIN rules = 1..6 /\ rules[6].when = TRUE
  BY DEF Rule
<1>3. \A i \in 1..6 : rules[i].then.terminal => rules[i].then.status \in Ends
  BY DEF Rule, Ends
<1> HIDE DEF rules
<1>4. PICK i \in 1..6 : FirstRule(rules) = rules[i].then
  <2>1. 6 \in Nat \ {0}
    OBVIOUS
  <2>2. QED
    BY ONLY <1>2, <2>1, FirstRuleIsOne, Zenon
<1>5. QED
  BY <1>1, <1>3, <1>4

LEMMA ObservedEnds == Observed.terminal => Observed.status \in Ends
BY ClaudeEnds, CodexEnds DEF Observed, Observe

----------------------------------------------------------------------------
LEMMA RunInit == Init => RunInv
BY DEF Init, RunInv, StoreInv, ObsInv, ReportInv, AgentInv, AgentStates, Points, Record,
       NoReport, ReportMatchesStore, PeekInv, DefaultPeekLast

\* Steps of the agent, of its terminal and of the loop that leave Run where it
\* is: the invariant rests on the agent alone.
LEMMA BesideRun ==
  ASSUME RunInv, UNCHANGED <<pc, peekLast, obs, disk, report>>,
         pc \in {"update", "peek"} => Response' = Response,
         agent' = agent \/ (agent \in Living /\ agent' \in {"detached", "exited"}),
         doneCh' # "empty" => doneCh # "empty" \/ agent = "exited"
  PROVE  RunInv'
<1>1. pc' \in Points /\ PeekInv'
  BY DEF RunInv, PeekInv
<1>2. pc \in {"update", "peek"} => Answered' = Answered
  BY DEF Answered
<1>3. StoreInv'
  <2> USE DEF RunInv, StoreInv
  <2>1. CASE pc \in {"update", "peek"}
    <3>1. Answered' = Answered
      BY <1>2, <2>1
    <3>2. QED
      BY <2>1, <3>1
  <2>2. CASE pc \notin {"update", "peek"}
    BY <2>2
  <2>3. QED
    BY <2>1, <2>2
<1>4. ObsInv'
  BY DEF RunInv, ObsInv
<1>5. ReportInv'
  BY DEF RunInv, ReportInv, ReportMatchesStore
<1>6. AgentInv'
  <2> USE DEF RunInv, AgentInv
  <2>1. CASE agent' = agent
    BY <2>1
  <2>2. CASE agent \in Living /\ agent' \in {"detached", "exited"}
    BY <2>2 DEF Living, AgentStates
  <2>3. QED
    BY <2>1, <2>2
<1>7. QED
  BY <1>1, <1>3, <1>4, <1>5, <1>6 DEF RunInv

\* Run returns an error: it claims nothing of the store.
LEMMA ReturnsError ==
  ASSUME RunInv, PeekInv', NEW e, pc' = "returned", report' = Failure(e), UNCHANGED obs,
         agent' \in AgentStates, doneCh' # "empty" => agent' = "exited",
         obs = "timeout" \/ disk'.session = "none" => agent' \in {"unborn", "exited"},
         obs = "timeout" => agent' = "exited"
  PROVE  RunInv'
<1>1. report'.kind = "error"
  BY DEF Failure, NoReport
<1>2. ReportInv'
  BY <1>1 DEF ReportInv, ReportMatchesStore
<1>3. AgentInv'
  BY DEF AgentInv
<1>4. StoreInv' /\ ObsInv' /\ pc' \in Points
  BY DEF StoreInv, ObsInv, Points
<1>5. QED
  BY <1>2, <1>3, <1>4 DEF RunInv

\* Run goes on to another point before its end.
LEMMA GoesOn ==
  ASSUME RunInv, PeekInv', pc # "returned", pc' \in Points \ {"returned"}, UNCHANGED report,
         StoreInv', ObsInv', AgentInv'
  PROVE  RunInv'
<1>1. report' = NoReport
  BY DEF RunInv, ReportInv
<1>2. ReportInv'
  BY <1>1 DEF ReportInv, ReportMatchesStore, NoReport
<1>3. QED
  BY <1>2 DEF RunInv

\* From the request to the loop.
LEMMA BeforeLoop ==
  ASSUME RunInv, Prepare \/ Spawn \/ CreateSession \/ AppendUserTurn \/ WritePrompt
  PROVE  RunInv'
<1>0. PeekInv'
  <2>1. CASE Prepare
    <3>1. UNCHANGED request \/ \E n \in PeekLasts : peekLast' = IF n <= 0 THEN DefaultPeekLast ELSE n
      BY <2>1 DEF Prepare, Requests
    <3>2. CASE UNCHANGED request
      BY <3>2 DEF RunInv, PeekInv, request
    <3>3. CASE \E n \in PeekLasts : peekLast' = IF n <= 0 THEN DefaultPeekLast ELSE n
      BY <3>3, RunAssumption DEF PeekInv, DefaultPeekLast
    <3>4. QED
      BY <3>1, <3>2, <3>3
  <2>2. CASE Spawn \/ CreateSession \/ AppendUserTurn \/ WritePrompt
    BY <2>2 DEF Spawn, CreateSession, AppendUserTurn, WritePrompt, RunInv, PeekInv, request
  <2>3. QED
    BY <2>1, <2>2
<1>1. CASE Prepare
  <2>1. /\ pc = "start" /\ UNCHANGED <<agent, doneCh, obs, disk>>
        /\ \/ pc' = "spawn" /\ UNCHANGED report
           \/ \E e : pc' = "returned" /\ report' = Failure(e)
    BY <1>1 DEF Prepare, Return, agentVars
  <2>2. /\ disk = Record("none", <<>>) /\ obs = "none" /\ agent = "unborn" /\ doneCh = "empty"
    BY <2>1 DEF RunInv, StoreInv, ObsInv, AgentInv
  <2>3. CASE pc' = "spawn" /\ UNCHANGED report
    <3>1. StoreInv' /\ ObsInv' /\ AgentInv'
      BY <2>1, <2>2, <2>3 DEF StoreInv, ObsInv, AgentInv, AgentStates, Record
    <3>2. QED
      BY <2>1, <2>3, <3>1, <1>0, GoesOn DEF Points
  <2>4. CASE \E e : pc' = "returned" /\ report' = Failure(e)
    BY <2>1, <2>2, <2>4, <1>0, ReturnsError DEF AgentStates
  <2>5. QED
    BY <2>1, <2>3, <2>4
<1>2. CASE Spawn
  <2>1. /\ pc = "spawn" /\ UNCHANGED <<doneCh, obs, disk>>
        /\ \/ pc' = "create" /\ agent' = "running" /\ UNCHANGED report
           \/ pc' = "returned" /\ report' = Failure("spawn") /\ UNCHANGED agent
    BY <1>2 DEF Spawn, Return
  <2>2. /\ disk = Record("none", <<>>) /\ obs = "none" /\ agent = "unborn" /\ doneCh = "empty"
    BY <2>1 DEF RunInv, StoreInv, ObsInv, AgentInv
  <2>3. CASE pc' = "create" /\ agent' = "running" /\ UNCHANGED report
    <3>1. StoreInv' /\ ObsInv' /\ AgentInv'
      BY <2>1, <2>2, <2>3 DEF StoreInv, ObsInv, AgentInv, AgentStates, Record
    <3>2. QED
      BY <2>1, <2>3, <3>1, <1>0, GoesOn DEF Points
  <2>4. CASE pc' = "returned" /\ report' = Failure("spawn") /\ UNCHANGED agent
    BY <2>1, <2>2, <2>4, <1>0, ReturnsError DEF AgentStates
  <2>5. QED
    BY <2>1, <2>3, <2>4
<1>3. CASE CreateSession
  <2>1. /\ pc = "create" /\ UNCHANGED <<agent, doneCh, obs, report>>
        /\ \/ pc' = "terminate" /\ UNCHANGED disk
           \/ pc' = "ask" /\ disk' = Record("running", <<>>)
    BY <1>3 DEF CreateSession, agentVars, buildSession, Record
  <2>2. disk = Record("none", <<>>) /\ obs = "none"
    BY <2>1 DEF RunInv, StoreInv, ObsInv
  <2>3. StoreInv' /\ ObsInv'
    BY <2>1, <2>2 DEF StoreInv, ObsInv
  <2>4. AgentInv'
    BY <2>1, <2>2 DEF RunInv, AgentInv
  <2>5. QED
    BY <2>1, <2>3, <2>4, <1>0, GoesOn DEF Points
<1>4. CASE AppendUserTurn
  <2>1. /\ pc = "ask" /\ UNCHANGED <<agent, doneCh, obs>>
        /\ \/ pc' = "returned" /\ report' = Failure("store") /\ UNCHANGED disk
           \/ /\ disk' = [disk EXCEPT !.turns = Append(disk.turns, "user")]
              /\ pc' \in {"loop", "write"} /\ UNCHANGED report
    BY <1>4 DEF AppendUserTurn, Return, agentVars, StartWrite
  <2>2. /\ disk = Record("running", <<>>) /\ obs = "none"
        /\ agent \in AgentStates /\ (doneCh # "empty" => agent = "exited")
    BY <2>1 DEF RunInv, StoreInv, ObsInv, AgentInv
  <2>3. CASE pc' = "returned" /\ report' = Failure("store") /\ UNCHANGED disk
    <3>1. disk'.session # "none"
      BY <2>2, <2>3 DEF Record
    <3>2. QED
      BY <2>1, <2>2, <2>3, <3>1, <1>0, ReturnsError
  <2>4. CASE /\ disk' = [disk EXCEPT !.turns = Append(disk.turns, "user")]
             /\ pc' \in {"loop", "write"} /\ UNCHANGED report
    <3>1. disk' = Record("running", <<"user">>)
      <4>1. Append(<<>>, "user") = <<"user">>
        OBVIOUS
      <4>2. disk' = [session |-> "running", turns |-> Append(<<>>, "user")]
        BY <2>2, <2>4 DEF Record
      <4>3. QED
        BY <4>1, <4>2 DEF Record
    <3>2. StoreInv' /\ ObsInv'
      BY <2>1, <2>2, <2>4, <3>1 DEF StoreInv, ObsInv
    <3>3. AgentInv'
      BY <2>1, <2>2, <2>4 DEF AgentInv
    <3>4. QED
      BY <2>1, <2>4, <3>2, <3>3, <1>0, GoesOn DEF Points
  <2>5. QED
    BY <2>1, <2>3, <2>4
<1>5. CASE WritePrompt
  <2>1. /\ pc = "write" /\ UNCHANGED <<agent, doneCh, disk, report>>
        /\ \/ pc' = "loop" /\ UNCHANGED obs
           \/ pc' = "giveup" /\ obs' = "error"
    BY <1>5 DEF WritePrompt, agentVars
  <2>2. disk = Record("running", <<"user">>) /\ obs = "none"
    BY <2>1 DEF RunInv, StoreInv, ObsInv
  <2>3. StoreInv' /\ ObsInv'
    BY <2>1, <2>2 DEF StoreInv, ObsInv
  <2>4. AgentInv'
    BY <2>1, <2>2 DEF RunInv, AgentInv
  <2>5. QED
    BY <2>1, <2>3, <2>4, <1>0, GoesOn DEF Points
<1>6. QED
  BY <1>1, <1>2, <1>3, <1>4, <1>5

\* The loop sends Enter and goes on.
LEMMA EnterSent ==
  ASSUME RunInv, TickConfirms \/ EnterWritten
  PROVE  RunInv'
<1>1. /\ pc \in {"loop", "confirm"} /\ pc' \in {"loop", "confirm"}
      /\ UNCHANGED <<peekLast, agent, doneCh, obs, disk, report>>
  BY DEF TickConfirms, EnterWritten, StartWrite, agentVars, request
<1>2. PeekInv'
  BY <1>1 DEF RunInv, PeekInv
<1>3. disk = Record("running", <<"user">>) /\ obs = "none"
  BY <1>1 DEF RunInv, StoreInv, ObsInv
<1>4. StoreInv' /\ ObsInv'
  BY <1>1, <1>3 DEF StoreInv, ObsInv
<1>5. AgentInv'
  BY <1>1, <1>3 DEF RunInv, AgentInv
<1>6. QED
  BY <1>1, <1>2, <1>4, <1>5, GoesOn DEF Points

\* Where the loop ends: at a tick, at the context's end, or before it began.
LEMMA LoopEnds ==
  ASSUME RunInv, LoopCtxDone \/ TickEnds \/ CloseFailedSession
  PROVE  RunInv'
<1>0. PeekInv'
  BY DEF LoopCtxDone, TickEnds, CloseFailedSession, RunInv, PeekInv, request
<1>1. CASE LoopCtxDone
  <2>1. /\ pc = "loop" /\ obs' = "timeout" /\ pc' = "terminate"
        /\ UNCHANGED <<agent, doneCh, disk, report>>
    BY <1>1 DEF LoopCtxDone, agentVars
  <2>2. disk = Record("running", <<"user">>)
    BY <2>1 DEF RunInv, StoreInv
  <2>3. StoreInv' /\ ObsInv'
    BY <2>1, <2>2 DEF StoreInv, ObsInv
  <2>4. AgentInv'
    BY <2>1 DEF RunInv, AgentInv
  <2>5. QED
    BY <2>1, <2>3, <2>4, <1>0, GoesOn DEF Points
<1>2. CASE TickEnds
  <2>1. /\ pc = "loop" /\ pc' = "extract" /\ Observed.terminal /\ obs' = Observed.status
        /\ UNCHANGED <<agent, doneCh, disk, report>>
    BY <1>2 DEF TickEnds, agentVars
  <2>2. disk = Record("running", <<"user">>)
    BY <2>1 DEF RunInv, StoreInv
  <2>3. obs' \notin {"none", "timeout"}
    BY <2>1, ObservedEnds DEF Ends
  <2>4. StoreInv' /\ ObsInv'
    BY <2>1, <2>2, <2>3 DEF StoreInv, ObsInv
  <2>5. AgentInv'
    BY <2>1, <2>3 DEF RunInv, AgentInv
  <2>6. QED
    BY <2>1, <2>4, <2>5, <1>0, GoesOn DEF Points
<1>3. CASE CloseFailedSession
  <2>1. /\ pc = "giveup" /\ pc' = "peek" /\ UNCHANGED <<agent, doneCh, obs, report>>
        /\ disk' = disk \/ disk' = [disk EXCEPT !.session = obs]
    BY <1>3 DEF CloseFailedSession, agentVars
  <2>2. disk = Record("running", <<"user">>) /\ obs = "error"
    BY <2>1 DEF RunInv, StoreInv, ObsInv
  <2>3. disk'.session # "none"
    BY <2>1, <2>2 DEF Record
  <2>4. StoreInv' /\ ObsInv'
    BY <2>1, <2>2, <2>3 DEF StoreInv, ObsInv
  <2>5. AgentInv'
    BY <2>1, <2>2 DEF RunInv, AgentInv
  <2>6. QED
    BY <2>1, <2>4, <2>5, <1>0, GoesOn DEF Points
<1>4. QED
  BY <1>1, <1>2, <1>3

\* Terminate returns when the agent is gone, whichever of the two ways.
LEMMA TerminateStops ==
  ASSUME RunInv, TerminateSeesExit \/ TerminateKills
  PROVE  RunInv'
<1>0. PeekInv'
  BY DEF TerminateSeesExit, TerminateKills, RunInv, PeekInv, request
<1>1. /\ pc = "terminate" /\ Terminated /\ UNCHANGED <<obs, disk>>
      /\ agent' = "exited"
  <2>1. CASE TerminateSeesExit
    <3>1. pc = "terminate" /\ Terminated /\ UNCHANGED <<agent, obs, disk>> /\ doneCh # "empty"
      BY <2>1 DEF TerminateSeesExit
    <3>2. agent = "exited"
      BY <3>1 DEF RunInv, AgentInv
    <3>3. QED
      BY <3>1, <3>2
  <2>2. CASE TerminateKills
    BY <2>2 DEF TerminateKills
  <2>3. QED
    BY <2>1, <2>2
<1>2. CASE obs = "timeout"
  <2>1. pc' = "extract" /\ UNCHANGED report
    BY <1>1, <1>2 DEF Terminated
  <2>2. disk = Record("running", <<"user">>)
    BY <1>1, <1>2 DEF RunInv, StoreInv
  <2>3. StoreInv' /\ ObsInv' /\ AgentInv'
    BY <1>1, <1>2, <2>1, <2>2 DEF StoreInv, ObsInv, AgentInv, AgentStates
  <2>4. QED
    BY <1>1, <2>1, <2>3, <1>0, GoesOn DEF Points
<1>3. CASE obs # "timeout"
  <2>1. pc' = "returned" /\ report' = Failure("store")
    BY <1>1, <1>3 DEF Terminated, Return
  <2>2. QED
    BY <1>1, <1>3, <2>1, <1>0, ReturnsError DEF AgentStates
<1>4. QED
  BY <1>2, <1>3

LEMMA TwoTurns == Append(<<"user">>, "assistant") = <<"user", "assistant">>
<1> DEFINE s == <<"user">>
           t == <<"user", "assistant">>
<1>1. s \in Seq({"user", "assistant"}) /\ Len(s) = 1 /\ s[1] = "user"
  OBVIOUS
<1>2. t \in Seq({"user", "assistant"}) /\ Len(t) = 2 /\ t[1] = "user" /\ t[2] = "assistant"
  OBVIOUS
<1> HIDE DEF s, t
<1>3. /\ Append(s, "assistant") \in Seq({"user", "assistant"}) /\ Len(Append(s, "assistant")) = 2
      /\ Append(s, "assistant")[1] = "user" /\ Append(s, "assistant")[2] = "assistant"
  <2> DEFINE S == {"user", "assistant"}
             e == "assistant"
  <2>1. s \in Seq(S) /\ e \in S
    BY <1>1
  <2> HIDE DEF S, e
  <2>2. /\ Append(s, e) \in Seq(S) /\ Len(Append(s, e)) = Len(s) + 1
        /\ \A i \in 1..Len(s) : Append(s, e)[i] = s[i]
        /\ Append(s, e)[Len(s) + 1] = e
    BY <2>1, AppendProperties
  <2>3. QED
    BY <1>1, <2>2 DEF S, e
<1>4. \A i \in 1..2 : Append(s, "assistant")[i] = t[i]
  BY <1>2, <1>3
<1>5. Append(s, "assistant") = t
  BY <1>2, <1>3, <1>4, SeqEqual
<1>6. QED
  BY <1>5 DEF s, t

\* What --peek-last leaves of the turns of one run.
LEMMA LastTurns ==
  ASSUME peekLast \in Nat \ {0}, disk.turns = Answered
  PROVE  PeekTurns(peekLast) = IF peekLast > 1 \/ Response = <<>> THEN Answered
                               ELSE <<"assistant">>
<1>1. CASE Response = <<>>
  <2>1. disk.turns = <<"user">> /\ Len(<<"user">>) = 1
    BY <1>1 DEF Answered
  <2>2. QED
    BY <1>1, <2>1 DEF PeekTurns
<1>2. CASE Response # <<>>
  <2> DEFINE t == <<"user", "assistant">>
  <2>1. disk.turns = t /\ Len(t) = 2 /\ Answered = t
    BY <1>2 DEF Answered
  <2>2. CASE peekLast > 1
    BY <2>1, <2>2 DEF PeekTurns
  <2>3. CASE peekLast = 1
    <3>1. SubSeq(t, 2, 2) = <<"assistant">>
      <4> DEFINE u == SubSeq(t, 2, 2)
                 v == <<"assistant">>
                 S == {"user", "assistant"}
      <4>1. t[2] = "assistant" /\ "assistant" \in S
        OBVIOUS
      <4>2. v \in Seq(S) /\ Len(v) = 1 /\ v[1] = "assistant"
        OBVIOUS
      <4> HIDE DEF t, v, S
      <4>3. u \in Seq(S) /\ Len(u) = 1 /\ u[1] = "assistant"
        <5>1. \A i \in 2 .. 2 : t[i] \in S
          BY <4>1
        <5>2. /\ u \in Seq(S) /\ Len(u) = IF 2 <= 2 THEN 2 - 2 + 1 ELSE 0
              /\ \A i \in 1 .. 2 - 2 + 1 : u[i] = t[2 + i - 1]
          <6> HIDE DEF u
          <6>1. u = SubSeq(t, 2, 2)
            BY DEF u
          <6>2. QED
            BY <5>1, <6>1, SubSeqProperties
        <5> HIDE DEF u
        <5>3. QED
          BY <4>1, <5>2
      <4>4. \A i \in 1 .. 1 : u[i] = v[i]
        BY <4>2, <4>3
      <4> HIDE DEF u
      <4>5. u = v
        BY <4>2, <4>3, <4>4, SeqEqual
      <4>6. QED
        BY <4>5 DEF u, v
    <3>2. PeekTurns(peekLast) = SubSeq(t, 2, 2)
      BY <2>1, <2>3 DEF PeekTurns
    <3>3. QED
      BY <1>2, <2>3, <3>1, <3>2
  <2>4. QED
    BY <2>2, <2>3
<1>3. QED
  BY <1>1, <1>2

\* The report.
LEMMA AfterLoop ==
  ASSUME RunInv, AppendAssistantTurn \/ UpdateSession \/ PeekAndReturn
  PROVE  RunInv'
<1>0. PeekInv' /\ UNCHANGED peekLast
  BY DEF AppendAssistantTurn, UpdateSession, PeekAndReturn, RunInv, PeekInv, request
<1>1. /\ UNCHANGED <<provider, transcript, agent, doneCh, obs>>
      /\ pc \in {"extract", "update", "peek"}
  BY DEF AppendAssistantTurn, UpdateSession, PeekAndReturn, agentVars, loopVars, request
<1>2. Response' = Response /\ Answered' = Answered
  BY <1>1 DEF Response, Answered
<1>3. /\ obs # "none" /\ agent \in AgentStates
      /\ (doneCh # "empty" => agent = "exited") /\ (obs = "timeout" => agent = "exited")
  BY <1>1 DEF RunInv, ObsInv, AgentInv
<1>4. disk.session # "none"
  BY <1>1 DEF RunInv, StoreInv, Record
<1>5. ASSUME pc' = "returned", report' = Failure("store"), UNCHANGED disk PROVE RunInv'
  BY <1>1, <1>3, <1>4, <1>5, <1>0, ReturnsError
<1>6. ASSUME pc' \in {"update", "peek"}, UNCHANGED report, StoreInv' PROVE RunInv'
  <2>1. ObsInv' /\ AgentInv'
    BY <1>1, <1>3, <1>6 DEF ObsInv, AgentInv
  <2>2. QED
    BY <1>1, <1>6, <2>1, <1>0, GoesOn DEF Points
<1>7. CASE AppendAssistantTurn
  <2>1. /\ pc = "extract"
        /\ \/ Response = <<>> /\ pc' = "update" /\ UNCHANGED <<disk, report>>
           \/ pc' = "returned" /\ report' = Failure("store") /\ UNCHANGED disk
           \/ /\ Response # <<>> /\ pc' = "update" /\ UNCHANGED report
              /\ disk' = [disk EXCEPT !.turns = Append(disk.turns, "assistant")]
    BY <1>7 DEF AppendAssistantTurn, Return
  <2>2. disk = Record("running", <<"user">>)
    BY <2>1 DEF RunInv, StoreInv
  <2>3. CASE Response = <<>> /\ pc' = "update" /\ UNCHANGED <<disk, report>>
    <3>1. disk' = Record("running", Answered')
      BY <1>2, <2>2, <2>3 DEF Answered
    <3>2. StoreInv'
      BY <2>3, <3>1 DEF StoreInv
    <3>3. QED
      BY <1>6, <2>3, <3>2
  <2>4. CASE /\ Response # <<>> /\ pc' = "update" /\ UNCHANGED report
             /\ disk' = [disk EXCEPT !.turns = Append(disk.turns, "assistant")]
    <3>1. Append(<<"user">>, "assistant") = <<"user", "assistant">>
      BY TwoTurns
    <3>2. disk' = [session |-> "running", turns |-> Append(<<"user">>, "assistant")]
      BY <2>2, <2>4 DEF Record
    <3>3. Answered' = <<"user", "assistant">>
      BY <1>2, <2>4 DEF Answered
    <3>4. disk' = Record("running", Answered')
      BY <3>1, <3>2, <3>3 DEF Record
    <3>5. StoreInv'
      BY <2>4, <3>4 DEF StoreInv
    <3>6. QED
      BY <1>6, <2>4, <3>5
  <2>5. QED
    BY <1>5, <2>1, <2>3, <2>4
<1>8. CASE UpdateSession
  <2>1. /\ pc = "update"
        /\ \/ pc' = "returned" /\ report' = Failure("store") /\ UNCHANGED disk
           \/ disk' = [disk EXCEPT !.session = obs] /\ pc' = "peek" /\ UNCHANGED report
    BY <1>8 DEF UpdateSession, Return
  <2>2. disk = Record("running", Answered)
    BY <2>1 DEF RunInv, StoreInv
  <2>3. CASE disk' = [disk EXCEPT !.session = obs] /\ pc' = "peek" /\ UNCHANGED report
    <3>1. disk' = Record(obs, Answered) /\ disk'.session = obs
      BY <2>2, <2>3 DEF Record
    <3>2. StoreInv'
      BY <1>1, <1>2, <1>3, <2>3, <3>1 DEF StoreInv
    <3>3. QED
      BY <1>6, <2>3, <3>2
  <2>4. QED
    BY <1>5, <2>1, <2>3
<1>9. CASE PeekAndReturn
  <2>1. /\ pc = "peek" /\ UNCHANGED disk /\ pc' = "returned"
        /\ \/ report' = Failure("store")
           \/ obs = "error" /\ report' = resultWithError
           \/ obs # "error" /\ report' = assembleResult
    BY <1>9 DEF PeekAndReturn, Return
  <2>2. ReportMatchesStore'
    <3>1. CASE report' = Failure("store")
      BY <3>1 DEF ReportMatchesStore, Failure, NoReport
    <3>2. CASE report' = resultWithError
      BY <3>2 DEF ReportMatchesStore, resultWithError
    <3>3. CASE obs # "error" /\ report' = assembleResult
      <4>1. disk = Record(obs, Answered)
        BY <2>1, <3>3 DEF RunInv, StoreInv
      <4>2. /\ report'.status = obs /\ report'.peek = PeekTurns(peekLast)
            /\ report'.response = Response /\ disk.turns = Answered /\ disk.session = obs
        BY <3>3, <4>1 DEF assembleResult, Record
      <4>3. PeekTurns(peekLast) = IF peekLast > 1 \/ Response = <<>> THEN Answered ELSE <<"assistant">>
        BY <4>2, LastTurns DEF RunInv, PeekInv
      <4>4. QED
        BY <1>0, <2>1, <4>2, <4>3 DEF ReportMatchesStore, Answered
    <3>4. QED
      BY <2>1, <3>1, <3>2, <3>3
  <2>3. ReportInv'
    BY <2>1, <2>2 DEF ReportInv
  <2>4. StoreInv' /\ ObsInv' /\ AgentInv' /\ pc' \in Points
    BY <1>1, <1>3, <1>4, <2>1 DEF StoreInv, ObsInv, AgentInv, Points
  <2>5. QED
    BY <1>0, <2>3, <2>4 DEF RunInv
<1>10. QED
  BY <1>7, <1>8, <1>9

LEMMA RunNext == RunInv /\ [Next]_vars => RunInv'
<1> SUFFICES ASSUME RunInv, [Next]_vars PROVE RunInv'
  OBVIOUS
<1>1. CASE LoopOutput \/ LoopOutputClosed \/ LoopDone \/ GoesIdle
  <2>1. /\ pc = "loop" /\ UNCHANGED <<pc, peekLast, obs, disk, report, agent>>
        /\ doneCh' # "empty" => doneCh # "empty"
    BY <1>1 DEF LoopOutput, LoopOutputClosed, LoopDone, GoesIdle, agentVars, request
  <2>2. QED
    BY <2>1, BesideRun
<1>2. CASE AgentStep \/ TerminalStep \/ ContextEnds \/ UNCHANGED vars
  <2>1. /\ UNCHANGED <<pc, peekLast, obs, disk, report, provider, transcript>>
        /\ agent' = agent \/ (agent \in Living /\ agent' \in {"detached", "exited"})
        /\ doneCh' # "empty" => doneCh # "empty" \/ agent = "exited"
    BY <1>2 DEF AgentStep, AgentReads, AgentDetaches, AgentPrints, AgentExits, TerminalStep,
                ReadOutput, ReadOutputEnds, Wait, ContextEnds, Living, runVars, loopVars, agentVars, request, vars
  <2>2. Response' = Response
    BY <2>1 DEF Response
  <2>3. QED
    BY <2>1, <2>2, BesideRun
<1>3. QED
  BY <1>1, <1>2, BeforeLoop, EnterSent, LoopEnds, TerminateStops, AfterLoop DEF Next, RunStep

\* For every agent, every --peek-last and whichever calls fail: a result
\* without an error has the status and the response that the store holds, and
\* the last turns of it (Run, assembleResult, PeekTurns).
THEOREM RunReportMatchesStore == Spec => []ReportMatchesStore
<1>1. RunInv => ReportMatchesStore
  BY DEF RunInv, ReportInv
<1>2. QED
  BY <1>1, RunInit, RunNext, PTL DEF Spec

\* For every agent, one that ignores SIGINT too: when Run reports a timeout or
\* gives up for want of a record, the process is gone (Terminate).
THEOREM RunStoppedAgentIsGone == Spec => []StoppedAgentIsGone
<1>1. RunInv => StoppedAgentIsGone
  BY DEF RunInv, AgentInv, StoppedAgentIsGone
<1>2. QED
  BY <1>1, RunInit, RunNext, PTL DEF Spec

-----------------------------------------------------------------------------
\* Transcript: what is read out of a transcript, at every moment of its growth.

Transcripts == Seq(LineKinds)
Prompts == {">", "ready"}                 \* what cleanBlock strips
Drawn   == Prompts \cup {"claude>"}

\* The greatest element of a set of places.
LEMMA LastPlace ==
  ASSUME NEW n \in Nat, NEW S \in SUBSET (1 .. n), S # {}
  PROVE  Max(S) \in S /\ \A y \in S : y <= Max(S)
<1> DEFINE T == {n - i : i \in S}
<1>1. T \in SUBSET Nat /\ T # {}
  <2>1. \A i \in S : n - i \in Nat
    OBVIOUS
  <2>2. QED
    BY <2>1
<1>2. PICK i \in S : Min(T) = n - i
  BY <1>1, LeastRule
<1>3. \A y \in S : y <= i
  <2> TAKE y \in S
  <2>1. Min(T) <= n - y
    BY <1>1, LeastRule
  <2>2. QED
    BY <1>2, <2>1
<1>4. QED
  BY <1>3 DEF Max

\* Every number up to the size of a set of places is the rank of one of them.
LEMMA RanksAreTaken ==
  ASSUME NEW n \in Nat, NEW K \in SUBSET (1 .. n)
  PROVE  /\ Cardinality(K) \in Nat
         /\ \A j \in 1 .. Cardinality(K) : \E i \in K : Cardinality({k \in K : k <= i}) = j
<1> DEFINE m == Cardinality(K)
           upTo(i) == {k \in K : k <= i}
           rank == [i \in K |-> Cardinality(upTo(i))]
<1>1. IsFiniteSet(1 .. n) /\ \A i \in K : i \in Nat
  BY FS_Interval
<1>2. IsFiniteSet(K)
  BY <1>1, FS_Subset
<1>3. m \in Nat
  BY <1>2, FS_CardinalityType
<1>4. IsFiniteSet(1 .. m) /\ Cardinality(1 .. m) = m
  BY <1>3, FS_Interval
<1>5. ASSUME NEW i \in K PROVE IsFiniteSet(upTo(i)) /\ Cardinality(upTo(i)) \in 1 .. m
  <2>1. upTo(i) \in SUBSET K /\ i \in upTo(i)
    OBVIOUS
  <2>2. IsFiniteSet(upTo(i)) /\ Cardinality(upTo(i)) <= m
    BY <1>2, <2>1, FS_Subset
  <2>3. Cardinality(upTo(i)) \in Nat /\ Cardinality(upTo(i)) # 0
    BY <2>1, <2>2, FS_CardinalityType, FS_EmptySet
  <2>4. QED
    BY <1>3, <2>2, <2>3
<1>6. ASSUME NEW i \in K, NEW j \in K, i < j PROVE Cardinality(upTo(i)) < Cardinality(upTo(j))
  <2> DEFINE a == upTo(i)
             b == upTo(j)
  <2>1. a \in SUBSET b /\ j \in b /\ j \notin a
    <3>1. i \in Nat /\ j \in Nat /\ \A k \in K : k \in Nat
      BY <1>1, <1>6
    <3>2. \A k \in K : k <= i => k <= j
      BY <1>6, <3>1
    <3>3. j <= j /\ ~(j <= i)
      BY <1>6, <3>1
    <3>4. QED
      BY <1>6, <3>2, <3>3
  <2>2. IsFiniteSet(a) /\ IsFiniteSet(b) /\ Cardinality(a) \in Int /\ Cardinality(b) \in Int
    BY <1>5, FS_CardinalityType
  <2> HIDE DEF a, b
  <2>3. Cardinality(a) <= Cardinality(b) /\ (Cardinality(b) = Cardinality(a) => b = a)
    BY <2>1, <2>2, FS_Subset
  <2>4. Cardinality(a) < Cardinality(b)
    BY <2>1, <2>2, <2>3
  <2>5. QED
    BY <2>4 DEF a, b
<1> HIDE DEF m
<1>7. rank \in [K -> 1 .. m] /\ \A i \in K : rank[i] = Cardinality(upTo(i))
  BY <1>5
<1> HIDE DEF rank, upTo
<1>8. \A i, j \in K : rank[i] = rank[j] => i = j
  <2> SUFFICES ASSUME NEW i \in K, NEW j \in K, rank[i] = rank[j] PROVE i = j
    OBVIOUS
  <2>1. rank[i] \in Int /\ i \in Int /\ j \in Int
    BY <1>3, <1>7
  <2>2. ~(i < j) /\ ~(j < i)
    BY <1>1, <1>6, <1>7, <2>1
  <2>3. QED
    BY <2>1, <2>2
<1>9. rank \in Injection(K, 1 .. m)
  BY <1>7, <1>8 DEF Injection, IsInjective
<1>10. rank \in Surjection(K, 1 .. m)
  BY <1>4, <1>9, FS_Injection DEF m
<1>11. \A j \in 1 .. m : \E i \in K : rank[i] = j
  BY <1>10 DEF Surjection
<1>12. QED
  BY <1>3, <1>7, <1>11 DEF m, upTo

\* The first places, in their order, are a beginning of the sequence.
LEMMA FirstPlaces ==
  ASSUME NEW s \in Transcripts, NEW n \in 0 .. Len(s)
  PROVE  AtPlaces(s, 1 .. n) = SubSeq(s, 1, n)
<1>1. n \in Nat /\ Cardinality(1 .. n) = n
  BY FS_Interval DEF Transcripts
<1>2. ASSUME NEW i \in 1 .. n PROVE Cardinality({k \in 1 .. n : k <= i}) = i
  <2>1. {k \in 1 .. n : k <= i} = 1 .. i
    BY <1>1
  <2>2. i \in Nat /\ i > 0
    BY <1>1
  <2>3. Cardinality(1 .. i) = i
    BY <2>2, FS_Interval
  <2>4. QED
    BY <2>1, <2>3
<1>3. \A j \in 1 .. n : (CHOOSE i \in 1 .. n : Cardinality({k \in 1 .. n : k <= i}) = j) = j
  <2> SUFFICES ASSUME NEW j \in 1 .. n
               PROVE  (CHOOSE i \in 1 .. n : Cardinality({k \in 1 .. n : k <= i}) = j) = j
    OBVIOUS
  <2> DEFINE P(i) == Cardinality({k \in 1 .. n : k <= i}) = j
  <2>1. \A i \in 1 .. n : P(i) <=> i = j
    BY <1>2
  <2> HIDE DEF P
  <2>2. (CHOOSE i \in 1 .. n : P(i)) = j
    BY <2>1
  <2>3. QED
    BY <2>2 DEF P
<1>4. AtPlaces(s, 1 .. n) = [j \in 1 .. n |-> s[j]]
  <2> DEFINE at(j) == CHOOSE i \in 1 .. n : Cardinality({k \in 1 .. n : k <= i}) = j
  <2>1. AtPlaces(s, 1 .. n) = [j \in 1 .. Cardinality(1 .. n) |-> s[at(j)]]
    BY DEF AtPlaces
  <2>2. \A j \in 1 .. n : at(j) = j
    BY <1>3
  <2> HIDE DEF at
  <2>3. QED
    BY <1>1, <2>1, <2>2
<1>5. s \in Seq(LineKinds) /\ n <= Len(s) /\ Len(s) \in Nat
  BY DEF Transcripts
<1>6. \A j \in 1 .. n : s[j] \in LineKinds
  BY <1>1, <1>5
<1>7. /\ [j \in 1 .. n |-> s[j]] \in Seq(LineKinds)
      /\ Len([j \in 1 .. n |-> s[j]]) = n
  BY <1>1, <1>6
<1>8. /\ SubSeq(s, 1, n) \in Seq(LineKinds) /\ Len(SubSeq(s, 1, n)) = n
      /\ \A j \in 1 .. n : SubSeq(s, 1, n)[j] = s[j]
  BY <1>1, <1>5, <1>6
<1>9. [j \in 1 .. n |-> s[j]] = SubSeq(s, 1, n)
  BY <1>7, <1>8, SeqEqual
<1>10. QED
  BY <1>4, <1>9

\* Lines that only prompts follow are what is left of them.
LEMMA CleanDropsPrompts ==
  ASSUME NEW s \in Transcripts, NEW n \in 0 .. Len(s),
         \A i \in 1 .. n : s[i] \notin Prompts,
         \A i \in 1 .. Len(s) : i > n => s[i] \in Prompts
  PROVE  CleanBlock(s) = SubSeq(s, 1, n)
<1>1. DOMAIN s = 1 .. Len(s) /\ Len(s) \in Nat
  BY DEF Transcripts
<1>2. {i \in DOMAIN s : s[i] \notin {">", "ready"}} = 1 .. n
  BY <1>1 DEF Prompts
<1>3. QED
  BY <1>2, FirstPlaces DEF CleanBlock

\* One more prompt changes nothing.
LEMMA CleanIgnoresPrompt ==
  ASSUME NEW s \in Transcripts, NEW p \in Prompts
  PROVE  CleanBlock(Append(s, p)) = CleanBlock(s)
<1> DEFINE t == Append(s, p)
           K == {i \in DOMAIN s : s[i] \notin {">", "ready"}}
           at(j) == CHOOSE i \in K : Cardinality({k \in K : k <= i}) = j
<1>1. /\ s \in Seq(LineKinds) /\ Len(s) \in Nat /\ DOMAIN s = 1 .. Len(s)
      /\ p \in LineKinds
  BY DEF Transcripts, Prompts, LineKinds
<1>2. /\ DOMAIN t = 1 .. Len(s) + 1
      /\ \A i \in 1 .. Len(s) : t[i] = s[i]
      /\ t[Len(s) + 1] = p
  BY <1>1
<1> HIDE DEF t
<1>3. {i \in DOMAIN t : t[i] \notin {">", "ready"}} = K
  <2>1. \A i \in DOMAIN t : i \in DOMAIN s \/ i = Len(s) + 1
    BY <1>1, <1>2
  <2>2. QED
    BY <1>1, <1>2, <2>1 DEF Prompts
<1>4. K \in SUBSET (1 .. Len(s))
  BY <1>1
<1> HIDE DEF K
<1>5. \A j \in 1 .. Cardinality(K) : at(j) \in K
  <2> SUFFICES ASSUME NEW j \in 1 .. Cardinality(K) PROVE at(j) \in K
    OBVIOUS
  <2>1. \E i \in K : Cardinality({k \in K : k <= i}) = j
    BY <1>1, <1>4, RanksAreTaken
  <2>2. QED
    BY <2>1
<1>6. \A j \in 1 .. Cardinality(K) : t[at(j)] = s[at(j)]
  BY <1>2, <1>4, <1>5
<1> HIDE DEF at
<1>7. [j \in 1 .. Cardinality(K) |-> t[at(j)]] = [j \in 1 .. Cardinality(K) |-> s[at(j)]]
  BY <1>6
<1>8. AtPlaces(t, K) = AtPlaces(s, K)
  BY <1>7 DEF AtPlaces, at
<1>9. QED
  BY <1>3, <1>8 DEF CleanBlock, t, K

\* Prompts alone are no response: nothing is left of them, or what is left
\* begins with "claude>".
LEMMA PromptsAreNoResponse ==
  ASSUME NEW s \in Transcripts, \A i \in 1 .. Len(s) : s[i] \in Drawn
  PROVE  LooksLikeNonResponse(CleanBlock(s))
<1> DEFINE K == {i \in DOMAIN s : s[i] \notin {">", "ready"}}
           at(j) == CHOOSE i \in K : Cardinality({k \in K : k <= i}) = j
<1>1. Len(s) \in Nat /\ DOMAIN s = 1 .. Len(s)
  BY DEF Transcripts
<1>2. K \in SUBSET (1 .. Len(s)) /\ \A i \in K : s[i] = "claude>"
  BY <1>1 DEF Drawn, Prompts
<1>3. CleanBlock(s) = AtPlaces(s, K)
  BY DEF CleanBlock
<1>4. CASE K = {}
  <2>1. \A i \in 1 .. Len(s) : i > 0 => s[i] \in Prompts
    BY <1>1, <1>4 DEF Prompts
  <2>2. 0 \in 0 .. Len(s) /\ \A i \in 1 .. 0 : s[i] \notin Prompts
    BY <1>1
  <2>3. CleanBlock(s) = SubSeq(s, 1, 0)
    BY <2>1, <2>2, CleanDropsPrompts
  <2>4. CleanBlock(s) = <<>>
    BY <2>3, SubSeqEmpty
  <2>5. QED
    BY <2>4 DEF LooksLikeNonResponse
<1>5. CASE K # {}
  <2> HIDE DEF K
  <2>1. IsFiniteSet(K)
    <3>1. IsFiniteSet(1 .. Len(s))
      BY <1>1, FS_Interval
    <3>2. QED
      BY <1>2, <3>1, FS_Subset
  <2>2. Cardinality(K) \in Nat /\ Cardinality(K) # 0
    BY <1>5, <2>1, FS_CardinalityType, FS_EmptySet
  <2>3. 1 \in 1 .. Cardinality(K)
    BY <2>2
  <2>4. \E i \in K : Cardinality({k \in K : k <= i}) = 1
    BY <1>1, <1>2, <2>3, RanksAreTaken
  <2>5. at(1) \in K
    BY <2>4
  <2>6. CleanBlock(s) = [j \in 1 .. Cardinality(K) |-> s[at(j)]]
    BY <1>3 DEF AtPlaces
  <2> HIDE DEF at
  <2>7. CleanBlock(s)[1] = "claude>"
    BY <1>2, <2>3, <2>5, <2>6
  <2>8. QED
    BY <2>7 DEF LooksLikeNonResponse
<1>6. QED
  BY <1>4, <1>5

-----------------------------------------------------------------------------
\* Blocks.

\* A run of lines that are not blank, with none on either side.
IsBlock(s, i, j) ==
  /\ i \in 1 .. Len(s) /\ j \in 1 .. Len(s) /\ i <= j
  /\ \A k \in 1 .. Len(s) : i <= k /\ k <= j => s[k] # "blank"
  /\ i > 1 => s[i - 1] = "blank"
  /\ j < Len(s) => s[j + 1] = "blank"

\* splitBlocks gives the blocks, each as the pair of its ends.
LEMMA BlocksAre ==
  ASSUME NEW s \in Transcripts
  PROVE  /\ \A i, j : <<i, j>> \in Blocks(s) <=> IsBlock(s, i, j)
         /\ \A b \in Blocks(s) : b = <<b[1], b[2]>> /\ IsBlock(s, b[1], b[2])
<1>1. Len(s) \in Nat /\ DOMAIN s = 1 .. Len(s)
  BY DEF Transcripts
<1>2. ASSUME NEW i \in 1 .. Len(s), NEW j \in 1 .. Len(s)
      PROVE  <<i, j>> \in Blocks(s) <=> IsBlock(s, i, j)
  <2>1. (\A k \in i .. j : s[k] # "blank")
          <=> (\A k \in 1 .. Len(s) : i <= k /\ k <= j => s[k] # "blank")
    BY <1>1
  <2>2. (i - 1 \in 1 .. Len(s) <=> i > 1) /\ (j + 1 \in 1 .. Len(s) <=> j < Len(s))
    BY <1>1
  <2>3. <<i, j>> \in Blocks(s) <=>
           /\ i <= j
           /\ \A k \in i .. j : s[k] # "blank"
           /\ i - 1 \in 1 .. Len(s) => ~(s[i - 1] # "blank")
           /\ j + 1 \in 1 .. Len(s) => ~(s[j + 1] # "blank")
    BY <1>1 DEF Blocks, NotBlank
  <2>4. QED
    BY <2>1, <2>2, <2>3 DEF IsBlock
<1>3. \A b \in Blocks(s) : b = <<b[1], b[2]>> /\ b[1] \in 1 .. Len(s) /\ b[2] \in 1 .. Len(s)
  BY <1>1 DEF Blocks
<1>4. \A i, j : <<i, j>> \in Blocks(s) => i \in 1 .. Len(s) /\ j \in 1 .. Len(s)
  BY <1>1 DEF Blocks
<1>5. \A i, j : <<i, j>> \in Blocks(s) <=> IsBlock(s, i, j)
  <2>1. \A i, j : IsBlock(s, i, j) => i \in 1 .. Len(s) /\ j \in 1 .. Len(s)
    BY DEF IsBlock
  <2>2. QED
    BY <1>2, <1>4, <2>1
<1>6. QED
  BY <1>3, <1>5

\* Blocks that end together are the same.
LEMMA BlockByItsEnd ==
  ASSUME NEW s \in Transcripts, NEW i, NEW k, NEW j, IsBlock(s, i, j), IsBlock(s, k, j)
  PROVE  i = k
<1>1. /\ Len(s) \in Nat /\ i \in 1 .. Len(s) /\ k \in 1 .. Len(s) /\ j \in 1 .. Len(s)
      /\ i <= j /\ k <= j
  BY DEF IsBlock, Transcripts
<1>2. ASSUME NEW a \in 1 .. Len(s), NEW b \in 1 .. Len(s), a < b, IsBlock(s, a, j), IsBlock(s, b, j) PROVE FALSE
  <2>1. b > 1 /\ b - 1 \in 1 .. Len(s) /\ a <= b - 1 /\ b - 1 <= j
    BY <1>1, <1>2 DEF IsBlock
  <2>2. s[b - 1] # "blank" /\ s[b - 1] = "blank"
    BY <1>2, <2>1 DEF IsBlock
  <2>3. QED
    BY <2>2
<1>3. ~(i < k) /\ ~(k < i)
  BY <1>1, <1>2
<1>4. QED
  BY <1>1, <1>3

\* The text of a block that is an answer once its prompts are gone.
Good(s) == {b \in Blocks(s) : ~LooksLikeNonResponse(CleanBlock(BlockText(s, b)))}
GoodBlock(s, i, j) == IsBlock(s, i, j) /\ ~LooksLikeNonResponse(CleanBlock(SubSeq(s, i, j)))

LEMMA GoodAre ==
  ASSUME NEW s \in Transcripts
  PROVE  /\ \A i, j : <<i, j>> \in Good(s) <=> GoodBlock(s, i, j)
         /\ \A b \in Good(s) : b = <<b[1], b[2]>> /\ GoodBlock(s, b[1], b[2])
<1> DEFINE no(t) == LooksLikeNonResponse(CleanBlock(t))
<1>1. \A i, j : BlockText(s, <<i, j>>) = SubSeq(s, i, j)
  BY DEF BlockText
<1>2. \A b : BlockText(s, b) = SubSeq(s, b[1], b[2])
  BY DEF BlockText
<1>3. /\ Good(s) = {b \in Blocks(s) : ~no(BlockText(s, b))}
      /\ \A i, j : GoodBlock(s, i, j) <=> IsBlock(s, i, j) /\ ~no(SubSeq(s, i, j))
  BY DEF Good, GoodBlock
<1> HIDE DEF no
<1>4. \A i, j : <<i, j>> \in Good(s) <=> GoodBlock(s, i, j)
  <2> SUFFICES ASSUME NEW i, NEW j PROVE <<i, j>> \in Good(s) <=> GoodBlock(s, i, j)
    OBVIOUS
  <2>1. <<i, j>> \in Good(s) <=> <<i, j>> \in Blocks(s) /\ ~no(BlockText(s, <<i, j>>))
    BY <1>3
  <2>2. no(BlockText(s, <<i, j>>)) <=> no(SubSeq(s, i, j))
    BY <1>1
  <2>3. <<i, j>> \in Blocks(s) <=> IsBlock(s, i, j)
    BY BlocksAre
  <2>4. GoodBlock(s, i, j) <=> IsBlock(s, i, j) /\ ~no(SubSeq(s, i, j))
    BY <1>3
  <2>5. QED
    BY ONLY <2>1, <2>2, <2>3, <2>4
<1>5. \A b \in Good(s) : b = <<b[1], b[2]>> /\ GoodBlock(s, b[1], b[2])
  BY <1>2, <1>3, BlocksAre
<1>6. QED
  BY <1>4, <1>5

\* What Claude Code's adapter extracts is the last good block.
LEMMA ClaudeReadsLast ==
  ASSUME NEW s \in Transcripts, NEW i, NEW j, GoodBlock(s, i, j),
         \A k, l : GoodBlock(s, k, l) => l <= j
  PROVE  ClaudeExtract(s) = CleanBlock(SubSeq(s, i, j))
<1>1. <<i, j>> \in Good(s) /\ \A c \in Good(s) : c[2] <= <<i, j>>[2]
  BY GoodAre
<1>2. ASSUME NEW b \in Good(s), \A c \in Good(s) : c[2] <= b[2] PROVE b = <<i, j>>
  <2>1. b = <<b[1], b[2]>> /\ GoodBlock(s, b[1], b[2])
    BY GoodAre
  <2>2. j <= b[2] /\ b[2] <= j /\ j \in Int /\ b[2] \in Int
    BY <1>1, <1>2, <2>1 DEF GoodBlock, IsBlock, Transcripts
  <2>3. b[2] = j
    BY <2>2
  <2>4. b[1] = i
    BY <2>1, <2>3, BlockByItsEnd DEF GoodBlock
  <2>5. QED
    BY <2>1, <2>3, <2>4
<1>3. LastBlock(Good(s)) = <<i, j>>
  <2> DEFINE P(b) == \A c \in Good(s) : c[2] <= b[2]
  <2>1. P(<<i, j>>) /\ \A b \in Good(s) : P(b) => b = <<i, j>>
    BY <1>1, <1>2
  <2> HIDE DEF P
  <2>2. (CHOOSE b \in Good(s) : P(b)) = <<i, j>>
    BY <1>1, <2>1
  <2>3. QED
    BY <2>2 DEF LastBlock, P
<1>4. ClaudeExtract(s) = CleanBlock(BlockText(s, LastBlock(Good(s))))
  <2>1. Good(s) # {}
    BY <1>1
  <2>2. QED
    BY <2>1 DEF ClaudeExtract, Good
<1>5. QED
  BY <1>3, <1>4 DEF BlockText

\* Where there is a good block, there is a last one.
LEMMA SomeBlockIsLast ==
  ASSUME NEW s \in Transcripts, Good(s) # {}
  PROVE  \E i, j : GoodBlock(s, i, j) /\ \A k, l : GoodBlock(s, k, l) => l <= j
<1> DEFINE ends == {b[2] : b \in Good(s)}
<1>1. Len(s) \in Nat
  BY DEF Transcripts
<1>2. ends \in SUBSET (1 .. Len(s)) /\ ends # {}
  BY GoodAre DEF GoodBlock, IsBlock
<1>3. Max(ends) \in ends /\ \A y \in ends : y <= Max(ends)
  BY <1>1, <1>2, LastPlace
<1>4. PICK b \in Good(s) : b[2] = Max(ends)
  BY <1>3
<1>5. \A k, l : GoodBlock(s, k, l) => l \in ends
  <2>1. \A k, l : GoodBlock(s, k, l) => <<k, l>> \in Good(s) /\ <<k, l>>[2] = l
    BY GoodAre
  <2>2. QED
    BY <2>1
<1> HIDE DEF ends
<1>6. GoodBlock(s, b[1], b[2]) /\ \A k, l : GoodBlock(s, k, l) => l <= b[2]
  BY <1>3, <1>4, <1>5, GoodAre
<1>7. QED
  BY <1>6

-----------------------------------------------------------------------------
\* The answer is read.

\* A paragraph of words that only prompts and blank lines follow.
LEMMA ClaudeAnswer ==
  ASSUME NEW s \in Transcripts, NEW first \in 1 .. Len(s), NEW last \in first .. Len(s),
         \A i \in first .. last : s[i] \in Words,
         first > 1 => s[first - 1] = "blank",
         \A i \in last + 1 .. Len(s) :
            \/ s[i] \in {"blank", ">", "ready"}
            \/ s[i] = "claude>" /\ \E j \in last + 1 .. Len(s) : j < i /\ s[j] = "blank"
  PROVE  ClaudeExtract(s) = SubSeq(s, first, last)
<1>1. /\ s \in Seq(LineKinds) /\ Len(s) \in Nat /\ first \in Nat /\ last \in Nat
      /\ 1 <= first /\ first <= last /\ last <= Len(s)
      /\ \A k \in 1 .. Len(s) : s[k] \in LineKinds
  BY DEF Transcripts
<1> DEFINE stops == {k \in last .. Len(s) : k < Len(s) => s[k + 1] = "blank"}
           end == Min(stops)
<1>2. end \in stops /\ \A k \in stops : end <= k
  <2>1. stops \in SUBSET Nat /\ Len(s) \in stops
    BY <1>1
  <2> HIDE DEF stops
  <2>2. QED
    BY <2>1, LeastRule
<1>3. end \in Nat /\ last <= end /\ end <= Len(s) /\ (end < Len(s) => s[end + 1] = "blank")
  BY <1>1, <1>2
<1>4. \A k \in last .. Len(s) : k < end => s[k + 1] # "blank"
  BY <1>1, <1>2, <1>3
<1> HIDE DEF end, stops
\* From the last word to the end of its block there are only prompts.
<1>5. \A k \in last + 1 .. end : s[k] \in Prompts
  <2>1. \A k \in last + 1 .. end : s[k] # "blank"
    <3> SUFFICES ASSUME NEW k \in last + 1 .. end PROVE s[k] # "blank"
      OBVIOUS
    <3>1. k - 1 \in last .. Len(s) /\ k - 1 < end /\ (k - 1) + 1 = k
      BY <1>1, <1>3
    <3>2. QED
      BY <1>4, <3>1
  <2> SUFFICES ASSUME NEW k \in last + 1 .. end PROVE s[k] \in Prompts
    OBVIOUS
  <2>2. k \in last + 1 .. Len(s) /\ s[k] # "blank"
    BY <1>1, <1>3, <2>1
  <2>3. ASSUME NEW j \in last + 1 .. Len(s), j < k PROVE s[j] # "blank"
    BY <1>1, <1>3, <2>1, <2>3
  <2>4. QED
    BY <2>2, <2>3 DEF Prompts
<1>6. IsBlock(s, first, end)
  <2>1. \A k \in 1 .. Len(s) : first <= k /\ k <= end => k \in first .. last \/ k \in last + 1 .. end
    BY <1>1, <1>3
  <2>2. \A k \in 1 .. Len(s) : first <= k /\ k <= end => s[k] # "blank"
    BY <1>5, <2>1 DEF Words, Prompts
  <2>3. QED
    BY <1>1, <1>3, <2>2 DEF IsBlock
<1> DEFINE text == SubSeq(s, first, end)
           n == last - first + 1
<1>7. /\ text \in Transcripts /\ Len(text) = end - first + 1
      /\ \A k \in 1 .. end - first + 1 : text[k] = s[first + k - 1]
  <2>1. \A k \in first .. end : s[k] \in LineKinds
    BY <1>1, <1>3
  <2>2. QED
    BY <1>1, <1>3, <2>1, SubSeqProperties DEF Transcripts
<1>8. n \in 0 .. Len(text) /\ n \in Nat \ {0} /\ n <= end - first + 1
  BY <1>1, <1>3, <1>7
<1> HIDE DEF text
<1>9. \A k \in 1 .. n : text[k] \in Words /\ text[k] = s[first + k - 1]
  <2> SUFFICES ASSUME NEW k \in 1 .. n PROVE text[k] \in Words /\ text[k] = s[first + k - 1]
    OBVIOUS
  <2>1. k \in 1 .. end - first + 1 /\ first + k - 1 \in first .. last
    BY <1>1, <1>3, <1>8
  <2>2. QED
    BY <1>7, <2>1
<1>10. \A k \in 1 .. Len(text) : k > n => text[k] \in Prompts
  <2> SUFFICES ASSUME NEW k \in 1 .. Len(text), k > n PROVE text[k] \in Prompts
    OBVIOUS
  <2>1. k \in 1 .. end - first + 1 /\ first + k - 1 \in last + 1 .. end
    BY <1>1, <1>3, <1>7
  <2>2. QED
    BY <1>5, <1>7, <2>1
<1>11. CleanBlock(text) = SubSeq(text, 1, n)
  BY <1>7, <1>8, <1>9, <1>10, CleanDropsPrompts DEF Words, Prompts
<1>12. SubSeq(text, 1, n) = SubSeq(s, first, last)
  <2>1. /\ SubSeq(text, 1, n) \in Seq(LineKinds) /\ Len(SubSeq(text, 1, n)) = n
        /\ \A k \in 1 .. n : SubSeq(text, 1, n)[k] = text[k]
    BY <1>7, <1>8 DEF Transcripts
  <2>2. /\ SubSeq(s, first, last) \in Seq(LineKinds) /\ Len(SubSeq(s, first, last)) = n
        /\ \A k \in 1 .. n : SubSeq(s, first, last)[k] = s[first + k - 1]
    BY <1>1
  <2>3. QED
    BY <1>8, <1>9, <2>1, <2>2, SeqEqual
<1>13. GoodBlock(s, first, end)
  <2> DEFINE clean == SubSeq(text, 1, n)
  <2>1. /\ clean \in Seq(LineKinds) /\ Len(clean) = n /\ DOMAIN clean = 1 .. n
        /\ \A k \in 1 .. n : clean[k] \in Words
    <3>1. /\ clean \in Seq(LineKinds) /\ Len(clean) = n
          /\ \A k \in 1 .. n : clean[k] = text[k]
      BY <1>7, <1>8 DEF Transcripts
    <3>2. QED
      BY <1>9, <3>1
  <2> HIDE DEF clean
  <2>2. clean # <<>>
    BY <1>8, <2>1
  <2>3. clean[1] \notin {"login", "claude>"}
    BY <1>8, <2>1 DEF Words
  <2>4. Range(clean) \subseteq Words
    BY <2>1 DEF Range
  <2>5. ~MatchAny({"press", "approve", "rate"}, clean)
    BY <2>4 DEF MatchAny, Words
  <2>6. ~LooksLikeNonResponse(clean)
    BY <2>2, <2>3, <2>5 DEF LooksLikeNonResponse
  <2>7. QED
    BY <1>6, <1>11, <2>6 DEF GoodBlock, clean, text
\* A block after it has prompts only, and is no response.
<1>14. ASSUME NEW i, NEW j, GoodBlock(s, i, j) PROVE j <= end
  <2> SUFFICES ASSUME j > end PROVE FALSE
    BY <1>3, <1>14 DEF GoodBlock, IsBlock, Transcripts
  <2>1. /\ i \in 1 .. Len(s) /\ j \in 1 .. Len(s) /\ i <= j
        /\ \A k \in 1 .. Len(s) : i <= k /\ k <= j => s[k] # "blank"
    BY <1>14 DEF GoodBlock, IsBlock
  <2>2. end + 1 \in 1 .. Len(s) /\ s[end + 1] = "blank" /\ end + 1 <= j
    BY <1>1, <1>3, <2>1
  <2>3. i > end + 1
    BY <1>1, <1>3, <2>1, <2>2
  <2> DEFINE rest == SubSeq(s, i, j)
  <2>4. /\ rest \in Transcripts /\ Len(rest) = j - i + 1
        /\ \A k \in 1 .. j - i + 1 : rest[k] = s[i + k - 1]
    <3>1. \A k \in i .. j : s[k] \in LineKinds
      BY <1>1, <2>1
    <3>2. QED
      BY <1>1, <2>1, <3>1, SubSeqProperties DEF Transcripts
  <2> HIDE DEF rest
  <2>5. \A k \in 1 .. Len(rest) : rest[k] \in Drawn
    <3> SUFFICES ASSUME NEW k \in 1 .. Len(rest) PROVE rest[k] \in Drawn
      OBVIOUS
    <3>1. /\ k \in 1 .. j - i + 1 /\ i + k - 1 \in last + 1 .. Len(s)
          /\ i + k - 1 \in 1 .. Len(s) /\ i <= i + k - 1 /\ i + k - 1 <= j
      BY <1>1, <1>3, <2>1, <2>3, <2>4
    <3>2. s[i + k - 1] \in {"blank", ">", "ready", "claude>"} /\ s[i + k - 1] # "blank"
      BY <2>1, <3>1
    <3>3. QED
      BY <2>4, <3>1, <3>2 DEF Drawn, Prompts
  <2>6. LooksLikeNonResponse(CleanBlock(rest))
    BY <2>4, <2>5, PromptsAreNoResponse
  <2>7. QED
    BY <1>14, <2>6 DEF GoodBlock, rest
<1>15. ClaudeExtract(s) = CleanBlock(SubSeq(s, first, end))
  BY <1>13, <1>14, ClaudeReadsLast
<1>16. QED
  BY <1>11, <1>12, <1>15 DEF text

\* Text without a blank line is not trimmed.
LEMMA NothingToTrim ==
  ASSUME NEW s \in Transcripts, s # <<>>, \A i \in 1 .. Len(s) : s[i] # "blank"
  PROVE  TrimSpace(s) = s
<1> DEFINE said == {i \in DOMAIN s : NotBlank(s[i])}
<1>1. s \in Seq(LineKinds) /\ Len(s) \in Nat \ {0} /\ DOMAIN s = 1 .. Len(s)
  BY DEF Transcripts
<1>2. said = 1 .. Len(s)
  BY <1>1 DEF NotBlank
<1>3. TrimSpace(s) = IF said = {} THEN <<>> ELSE SubSeq(s, Min(said), Max(said))
  BY DEF TrimSpace
<1> HIDE DEF said
<1>4. said # {} /\ said \in SUBSET Nat /\ said \in SUBSET (1 .. Len(s)) /\ 1 \in said /\ Len(s) \in said
  BY <1>1, <1>2
<1>5. Min(said) = 1
  <2>1. Min(said) \in said /\ Min(said) <= 1
    BY <1>4, LeastRule
  <2>2. QED
    BY <1>1, <1>2, <2>1
<1>6. Max(said) = Len(s)
  <2>1. Max(said) \in said /\ Len(s) <= Max(said)
    BY <1>1, <1>4, LastPlace
  <2>2. QED
    BY <1>1, <1>2, <2>1
<1>7. SubSeq(s, 1, Len(s)) = s
  BY <1>1, SubSeqFull
<1>8. QED
  BY <1>3, <1>4, <1>5, <1>6, <1>7

\* The section that a transcript's last "codex" line begins.
LEMMA SectionIs ==
  ASSUME NEW s \in Transcripts, NEW start \in 1 .. Len(s), s[start] = "codex",
         \A i \in 1 .. Len(s) : s[i] = "codex" => i <= start,
         NEW end \in Nat,
         LET ends == {i \in 1 .. Len(s) : i > start /\ s[i] = "tokens"}
         IN  IF ends = {} THEN end = Len(s) + 1 ELSE ends = {end}
  PROVE  CodexSection(s) = TrimSpace(SubSeq(s, start + 1, end - 1))
<1> DEFINE starts == {i \in DOMAIN s : s[i] = "codex"}
           After(b) == {i \in DOMAIN s : i > b /\ s[i] = "tokens"}
           EndOf(b) == IF After(b) = {} THEN Len(s) + 1 ELSE Max(After(b))
<1>1. Len(s) \in Nat /\ DOMAIN s = 1 .. Len(s)
  BY DEF Transcripts
<1>2. CodexSection(s) = IF starts = {} THEN <<>> ELSE TrimSpace(SubSeq(s, Max(starts) + 1, EndOf(Max(starts)) - 1))
  BY DEF CodexSection
<1>3. start \in starts /\ starts \in SUBSET (1 .. Len(s)) /\ \A y \in starts : y <= start
  BY <1>1
<1> HIDE DEF starts
<1>4. Max(starts) = start
  <2>1. Max(starts) \in starts /\ start <= Max(starts)
    BY <1>1, <1>3, LastPlace
  <2>2. Max(starts) <= start /\ Max(starts) \in 1 .. Len(s)
    BY <1>3, <2>1
  <2>3. start \in Int /\ Max(starts) \in Int
    BY <1>1, <2>2
  <2>4. QED
    BY ONLY <2>1, <2>2, <2>3
<1>5. EndOf(start) = end
  <2>1. After(start) = {i \in 1 .. Len(s) : i > start /\ s[i] = "tokens"}
    BY <1>1
  <2>2. CASE After(start) = {}
    BY <2>1, <2>2
  <2>3. CASE After(start) # {}
    <3>1. After(start) = {end}
      BY <2>1, <2>3
    <3> HIDE DEF After
    <3>2. Max({end}) = end
      BY DEF Max
    <3>3. QED
      BY <2>3, <3>1, <3>2
  <2>4. QED
    BY <2>2, <2>3
<1> HIDE DEF EndOf
<1>6. QED
  BY <1>2, <1>3, <1>4, <1>5

\* The words between a "codex" line and the end, or the "tokens used" line.
LEMMA CodexAnswer ==
  ASSUME NEW s \in Transcripts, NEW first \in 1 .. Len(s), NEW last \in first .. Len(s),
         \A i \in first .. last : s[i] \in Words,
         first > 1, s[first - 1] = "codex",
         LET after == last + 1 .. Len(s)
         IN  after = {} \/ (after = {last + 1} /\ s[last + 1] = "tokens")
  PROVE  CodexExtract(s) = SubSeq(s, first, last)
<1> DEFINE start == first - 1
           ends == {i \in 1 .. Len(s) : i > start /\ s[i] = "tokens"}
           text == SubSeq(s, first, last)
<1>1. /\ s \in Seq(LineKinds) /\ Len(s) \in Nat /\ first \in Nat /\ last \in Nat
      /\ 1 < first /\ first <= last /\ last <= Len(s)
      /\ \A k \in 1 .. Len(s) : s[k] \in LineKinds
  BY DEF Transcripts
<1>2. start \in 1 .. Len(s) /\ s[start] = "codex"
  BY <1>1
<1>3. Len(s) = last \/ (Len(s) = last + 1 /\ s[last + 1] = "tokens")
  <2>1. CASE last + 1 .. Len(s) = {}
    BY <1>1, <2>1
  <2>2. CASE last + 1 .. Len(s) = {last + 1} /\ s[last + 1] = "tokens"
    <3>1. last + 1 \in last + 1 .. Len(s)
      BY <2>2
    <3>2. ~(last + 2 <= Len(s))
      <4> SUFFICES ASSUME last + 2 <= Len(s) PROVE FALSE
        OBVIOUS
      <4>1. last + 2 \in last + 1 .. Len(s)
        BY <1>1
      <4>2. last + 2 = last + 1
        BY <2>2, <4>1
      <4>3. QED
        BY <1>1, <4>2
    <3>3. QED
      BY <1>1, <2>2, <3>1, <3>2
  <2>3. QED
    BY <2>1, <2>2
<1>4. \A i \in 1 .. Len(s) : i > start => i \in first .. last \/ (i = last + 1 /\ s[i] = "tokens")
  BY <1>1, <1>3
<1>5. \A i \in 1 .. Len(s) : s[i] = "codex" => i <= start
  <2> SUFFICES ASSUME NEW i \in 1 .. Len(s), s[i] = "codex", ~(i <= start) PROVE FALSE
    OBVIOUS
  <2>1. i > start
    BY <1>1
  <2>2. QED
    BY <1>4, <2>1 DEF Words
<1>6. IF ends = {} THEN last + 1 = Len(s) + 1 ELSE ends = {last + 1}
  <2>1. CASE Len(s) = last
    <3>1. ends = {}
      BY <1>1, <1>4, <2>1 DEF Words
    <3>2. QED
      BY <2>1, <3>1
  <2>2. CASE Len(s) = last + 1 /\ s[last + 1] = "tokens"
    <3>1. last + 1 \in ends
      BY <1>1, <2>2
    <3>2. \A i \in ends : i = last + 1
      BY <1>4 DEF Words
    <3>3. QED
      BY <3>1, <3>2
  <2>3. QED
    BY <1>3, <2>1, <2>2
<1>7. last + 1 \in Nat /\ start + 1 = first /\ (last + 1) - 1 = last
  BY <1>1
<1> HIDE DEF start
<1>8. CodexSection(s) = TrimSpace(SubSeq(s, start + 1, (last + 1) - 1))
  BY <1>2, <1>5, <1>6, <1>7, SectionIs
<1>9. CodexSection(s) = TrimSpace(text)
  BY <1>7, <1>8
<1>10. /\ text \in Transcripts /\ Len(text) = last - first + 1 /\ text # <<>>
       /\ \A k \in 1 .. Len(text) : text[k] # "blank"
  <2>1. \A k \in first .. last : s[k] \in LineKinds
    BY <1>1
  <2>2. /\ text \in Seq(LineKinds) /\ Len(text) = last - first + 1
        /\ \A k \in 1 .. last - first + 1 : text[k] = s[first + k - 1]
    BY <1>1, <2>1, SubSeqProperties
  <2> HIDE DEF text
  <2>3. \A k \in 1 .. last - first + 1 : first + k - 1 \in first .. last
    BY <1>1
  <2>4. \A k \in 1 .. last - first + 1 : text[k] # "blank"
    BY <2>2, <2>3 DEF Words
  <2>5. text # <<>>
    BY <1>1, <2>2
  <2>6. QED
    BY <2>2, <2>4, <2>5 DEF Transcripts
<1> HIDE DEF text
<1>11. CodexSection(s) = text
  BY <1>9, <1>10, NothingToTrim
<1>12. QED
  BY <1>10, <1>11 DEF CodexExtract, text

ScreenTypes == adapter \in Providers /\ lines \in Transcripts

LEMMA ScreenTyped == ScreenSpec => []ScreenTypes
<1>1. ScreenInit => ScreenTypes
  BY DEF ScreenInit, ScreenTypes, Transcripts
<1>2. ScreenTypes /\ [ScreenNext]_screenVars => ScreenTypes'
  <2> SUFFICES ASSUME ScreenTypes, [ScreenNext]_screenVars PROVE ScreenTypes'
    OBVIOUS
  <2>1. ASSUME NEW line \in LineKinds, AppendLine(line) PROVE ScreenTypes'
    BY <2>1 DEF AppendLine, ScreenTypes, Transcripts
  <2>2. CASE UNCHANGED screenVars
    BY <2>2 DEF screenVars, ScreenTypes
  <2>3. QED
    BY <2>1, <2>2 DEF ScreenNext
<1>3. QED
  BY <1>1, <1>2, PTL DEF ScreenSpec

\* For a transcript of any length, what reads as the answer is what
\* ExtractResponse returns, whatever stands before it (claudecode and codex
\* ExtractResponse, splitBlocks, cleanBlock).
THEOREM TranscriptAnswerIsRead == ScreenSpec => []AnswerIsRead
<1>1. ScreenTypes => AnswerIsRead
  <2> SUFFICES ASSUME ScreenTypes, NEW first \in 1 .. Len(lines), NEW last \in first .. Len(lines),
                      ReadsAsAnswer(first, last)
               PROVE  Answer = SubSeq(lines, first, last)
    BY DEF AnswerIsRead
  <2>1. lines \in Transcripts /\ \A i \in first .. last : lines[i] \in Words
    BY DEF ScreenTypes, ReadsAsAnswer
  <2>2. CASE adapter = "codex"
    <3>1. /\ first > 1 /\ lines[first - 1] = "codex"
          /\ LET after == last + 1 .. Len(lines)
             IN  after = {} \/ (after = {last + 1} /\ lines[last + 1] = "tokens")
      BY <2>2 DEF ReadsAsAnswer
    <3>2. CodexExtract(lines) = SubSeq(lines, first, last)
      BY <2>1, <3>1, CodexAnswer
    <3>3. QED
      BY <2>2, <3>2 DEF Answer, ExtractResponse
  <2>3. CASE adapter # "codex"
    <3>1. /\ first > 1 => lines[first - 1] = "blank"
          /\ \A i \in last + 1 .. Len(lines) :
                \/ lines[i] \in {"blank", ">", "ready"}
                \/ /\ lines[i] = "claude>"
                   /\ \E j \in last + 1 .. Len(lines) : j < i /\ lines[j] = "blank"
      BY <2>3 DEF ReadsAsAnswer
    <3>2. ClaudeExtract(lines) = SubSeq(lines, first, last)
      BY <2>1, <3>1, ClaudeAnswer
    <3>3. QED
      BY <2>3, <3>2 DEF Answer, ExtractResponse
  <2>4. QED
    BY <2>2, <2>3
<1>2. QED
  BY <1>1, ScreenTyped, PTL

-----------------------------------------------------------------------------
\* The answer stays.

\* One line more, and what was there is still there.
LEMMA OneLineMore ==
  ASSUME NEW s \in Transcripts, NEW line \in LineKinds
  PROVE  /\ Append(s, line) \in Transcripts /\ Len(Append(s, line)) = Len(s) + 1
         /\ \A i \in 1 .. Len(s) : Append(s, line)[i] = s[i]
         /\ Append(s, line)[Len(s) + 1] = line
         /\ \A i, j \in 1 .. Len(s) : i <= j =>
               /\ SubSeq(Append(s, line), i, j) = SubSeq(s, i, j)
               /\ SubSeq(Append(s, line), i, Len(s) + 1) = Append(SubSeq(s, i, Len(s)), line)
               /\ SubSeq(s, i, j) \in Transcripts
<1> DEFINE t == Append(s, line)
           n == Len(s)
<1>1. s \in Seq(LineKinds) /\ n \in Nat /\ \A i \in 1 .. n : s[i] \in LineKinds
  BY DEF Transcripts
<1>2. /\ t \in Seq(LineKinds) /\ Len(t) = n + 1
      /\ \A i \in 1 .. n : t[i] = s[i]
      /\ t[n + 1] = line
  BY <1>1
<1>3. \A i \in 1 .. n + 1 : t[i] \in LineKinds
  BY <1>1, <1>2
<1> HIDE DEF t, n
<1>4. ASSUME NEW i \in 1 .. n, NEW j \in 1 .. n, i <= j
      PROVE  SubSeq(t, i, j) = SubSeq(s, i, j) /\ SubSeq(s, i, j) \in Seq(LineKinds)
  <2> DEFINE a == SubSeq(t, i, j)
             b == SubSeq(s, i, j)
  <2>1. \A k \in i .. j : k \in 1 .. n /\ t[k] \in LineKinds /\ s[k] \in LineKinds
    BY <1>1, <1>3, <1>4
  <2>2. /\ a \in Seq(LineKinds) /\ Len(a) = j - i + 1
        /\ \A k \in 1 .. j - i + 1 : a[k] = t[i + k - 1]
    BY <1>1, <1>4, <2>1, SubSeqProperties
  <2>3. /\ b \in Seq(LineKinds) /\ Len(b) = j - i + 1
        /\ \A k \in 1 .. j - i + 1 : b[k] = s[i + k - 1]
    BY <1>1, <1>4, <2>1, SubSeqProperties
  <2> HIDE DEF a, b
  <2>4. \A k \in 1 .. j - i + 1 : i + k - 1 \in 1 .. n
    BY <1>1, <1>4
  <2>5. \A k \in 1 .. Len(a) : a[k] = b[k]
    BY <1>2, <2>2, <2>3, <2>4
  <2>6. a = b
    BY <2>2, <2>3, <2>5, SeqEqual
  <2>7. QED
    BY <2>3, <2>6 DEF a, b
<1>5. ASSUME NEW i \in 1 .. n PROVE SubSeq(t, i, n + 1) = Append(SubSeq(s, i, n), line)
  <2> DEFINE a == SubSeq(t, i, n + 1)
             b == SubSeq(s, i, n)
  <2>1. \A k \in i .. n + 1 : k \in 1 .. n + 1
    BY <1>1, <1>5
  <2>2. /\ a \in Seq(LineKinds) /\ Len(a) = n - i + 2
        /\ \A k \in 1 .. n - i + 2 : a[k] = t[i + k - 1]
    <3>1. i <= n + 1 /\ (n + 1) - i + 1 = n - i + 2 /\ i \in Int /\ n + 1 \in Int
      BY <1>1, <1>5
    <3>2. \A k \in i .. n + 1 : t[k] \in LineKinds
      BY <1>3, <2>1
    <3>3. QED
      BY <3>1, <3>2, SubSeqProperties
  <2>3. /\ b \in Seq(LineKinds) /\ Len(b) = n - i + 1
        /\ \A k \in 1 .. n - i + 1 : b[k] = s[i + k - 1]
    <3>1. \A k \in i .. n : s[k] \in LineKinds
      BY <1>1, <1>5
    <3>2. QED
      BY <1>1, <1>5, <3>1, SubSeqProperties
  <2> HIDE DEF a, b
  <2>4. /\ Append(b, line) \in Seq(LineKinds) /\ Len(Append(b, line)) = n - i + 2
        /\ \A k \in 1 .. n - i + 1 : Append(b, line)[k] = b[k]
        /\ Append(b, line)[n - i + 2] = line
    BY <1>1, <1>5, <2>3
  <2>5. ASSUME NEW k \in 1 .. n - i + 2 PROVE a[k] = Append(b, line)[k]
    <3>1. CASE k = n - i + 2
      <4>1. i + k - 1 = n + 1
        BY <1>1, <1>5, <3>1
      <4>2. QED
        BY <1>2, <2>2, <2>4, <3>1, <4>1
    <3>2. CASE k # n - i + 2
      <4>1. k \in 1 .. n - i + 1 /\ i + k - 1 \in 1 .. n
        BY <1>1, <1>5, <3>2
      <4>2. QED
        BY <1>2, <2>2, <2>3, <2>4, <4>1
    <3>3. QED
      BY <3>1, <3>2
  <2>6. a = Append(b, line)
    BY <2>2, <2>4, <2>5, SeqEqual
  <2>7. QED
    BY <2>6 DEF a, b
<1>6. QED
  BY <1>2, <1>4, <1>5 DEF t, n, Transcripts

\* A blank line ends the last block, if it has not ended yet.
LEMMA BlankEndsBlock ==
  ASSUME NEW s \in Transcripts, NEW i, NEW j
  PROVE  GoodBlock(Append(s, "blank"), i, j) <=> GoodBlock(s, i, j)
<1> DEFINE t == Append(s, "blank")
           n == Len(s)
<1>1. "blank" \in LineKinds
  BY DEF LineKinds
<1>2. /\ t \in Transcripts /\ Len(t) = n + 1 /\ n \in Nat
      /\ \A k \in 1 .. n : t[k] = s[k]
      /\ t[n + 1] = "blank"
      /\ \A k, l \in 1 .. n : k <= l => SubSeq(t, k, l) = SubSeq(s, k, l)
  <2>1. n \in Nat
    BY DEF Transcripts
  <2>2. QED
    BY ONLY <1>1, <2>1, s \in Transcripts, OneLineMore
<1> HIDE DEF t, n
<1>3. IsBlock(t, i, j) => i \in 1 .. n /\ j \in 1 .. n /\ i <= j
  <2> SUFFICES ASSUME IsBlock(t, i, j) PROVE i \in 1 .. n /\ j \in 1 .. n /\ i <= j
    OBVIOUS
  <2>1. /\ i \in 1 .. n + 1 /\ j \in 1 .. n + 1 /\ i <= j
        /\ \A k \in 1 .. n + 1 : i <= k /\ k <= j => t[k] # "blank"
    BY <1>2 DEF IsBlock
  <2>2. j # n + 1
    BY <1>2, <2>1
  <2>3. QED
    BY <1>2, <2>1, <2>2
<1>4. IsBlock(s, i, j) => i \in 1 .. n /\ j \in 1 .. n /\ i <= j
  BY DEF IsBlock, n
<1>5. ASSUME i \in 1 .. n, j \in 1 .. n, i <= j PROVE IsBlock(t, i, j) <=> IsBlock(s, i, j)
  <2>1. (\A k \in 1 .. n + 1 : i <= k /\ k <= j => t[k] # "blank")
          <=> (\A k \in 1 .. n : i <= k /\ k <= j => s[k] # "blank")
    BY <1>2, <1>5
  <2>2. i > 1 => t[i - 1] = s[i - 1]
    BY <1>2, <1>5
  <2>3. (j < n + 1 => t[j + 1] = "blank") <=> (j < n => s[j + 1] = "blank")
    <3>1. CASE j = n
      BY <1>2, <1>5, <3>1
    <3>2. CASE j # n
      <4>1. j < n /\ j < n + 1 /\ j + 1 \in 1 .. n
        BY <1>2, <1>5, <3>2
      <4>2. QED
        BY <1>2, <4>1
    <3>3. QED
      BY <3>1, <3>2
  <2>4. i \in 1 .. n + 1 /\ j \in 1 .. n + 1
    BY <1>2, <1>5
  <2>5. QED
    BY <1>2, <1>5, <2>1, <2>2, <2>3, <2>4 DEF IsBlock, n
<1>6. QED
  BY <1>2, <1>3, <1>4, <1>5 DEF GoodBlock, t

\* A prompt lengthens a block that has not ended; what is left of it is the
\* same, and a block of its own is no answer.  "claude>" only stands alone.
LEMMA PromptLengthensBlock ==
  ASSUME NEW s \in Transcripts, s # <<>>, NEW p \in Drawn,
         p = "claude>" => s[Len(s)] = "blank", NEW i, NEW j
  PROVE  GoodBlock(Append(s, p), i, j) <=>
           \/ j # Len(s) /\ GoodBlock(s, i, j)
           \/ j = Len(s) + 1 /\ GoodBlock(s, i, Len(s))
<1> DEFINE t == Append(s, p)
           n == Len(s)
<1>1. p \in LineKinds /\ p # "blank"
  BY DEF LineKinds, Prompts, Drawn
<1>2. /\ t \in Transcripts /\ Len(t) = n + 1 /\ n \in Nat
      /\ \A k \in 1 .. n : t[k] = s[k]
      /\ t[n + 1] = p
      /\ \A k, l \in 1 .. n : k <= l =>
            /\ SubSeq(t, k, l) = SubSeq(s, k, l)
            /\ SubSeq(t, k, n + 1) = Append(SubSeq(s, k, n), p)
            /\ SubSeq(s, k, l) \in Transcripts
  <2>1. n \in Nat
    BY DEF Transcripts
  <2>2. QED
    BY ONLY <1>1, <2>1, s \in Transcripts, OneLineMore
<1> HIDE DEF t, n
\* Before the last line nothing changes, and no block ends there now.
<1>3. ASSUME i \in 1 .. n, j \in 1 .. n, i <= j PROVE IsBlock(t, i, j) <=> j # n /\ IsBlock(s, i, j)
  <2>1. (\A k \in 1 .. n + 1 : i <= k /\ k <= j => t[k] # "blank")
          <=> (\A k \in 1 .. n : i <= k /\ k <= j => s[k] # "blank")
    BY <1>2, <1>3
  <2>2. i > 1 => t[i - 1] = s[i - 1]
    BY <1>2, <1>3
  <2>3. (j < n + 1 => t[j + 1] = "blank") <=> (j # n /\ (j < n => s[j + 1] = "blank"))
    <3>1. CASE j = n
      BY <1>1, <1>2, <1>3, <3>1
    <3>2. CASE j # n
      <4>1. j < n /\ j < n + 1 /\ j + 1 \in 1 .. n
        BY <1>2, <1>3, <3>2
      <4>2. QED
        BY <1>2, <3>2, <4>1
    <3>3. QED
      BY <3>1, <3>2
  <2>4. i \in 1 .. n + 1 /\ j \in 1 .. n + 1
    BY <1>2, <1>3
  <2>5. QED
    BY <1>2, <1>3, <2>1, <2>2, <2>3, <2>4 DEF IsBlock, n
\* A block that ends with the new line and began before it.
<1>4. ASSUME i \in 1 .. n PROVE IsBlock(t, i, n + 1) <=> IsBlock(s, i, n)
  <2>1. (\A k \in 1 .. n + 1 : i <= k /\ k <= n + 1 => t[k] # "blank")
          <=> (\A k \in 1 .. n : i <= k /\ k <= n => s[k] # "blank")
    <3>1. \A k \in 1 .. n + 1 : k \in 1 .. n \/ k = n + 1
      BY <1>2
    <3>2. QED
      BY <1>1, <1>2, <1>4, <3>1
  <2>2. i > 1 => t[i - 1] = s[i - 1]
    BY <1>2, <1>4
  <2>3. /\ i \in 1 .. n + 1 /\ n + 1 \in 1 .. n + 1 /\ i <= n + 1
        /\ n \in 1 .. n /\ i <= n /\ ~(n < n) /\ ~(n + 1 < n + 1)
    BY <1>2, <1>4
  <2>4. QED
    BY <1>2, <1>4, <2>1, <2>2, <2>3 DEF IsBlock, n
\* The block of the new line alone.
<1>5. LooksLikeNonResponse(CleanBlock(SubSeq(t, n + 1, n + 1)))
  <2> DEFINE u == SubSeq(t, n + 1, n + 1)
  <2>1. u \in Transcripts /\ Len(u) = 1 /\ u[1] = p
    BY <1>1, <1>2 DEF Transcripts
  <2> HIDE DEF u
  <2>2. LooksLikeNonResponse(CleanBlock(u))
    BY <2>1, PromptsAreNoResponse
  <2>3. QED
    BY <2>2 DEF u
<1>6. IsBlock(t, i, j) => i \in 1 .. n + 1 /\ j \in 1 .. n + 1 /\ i <= j
  BY <1>2 DEF IsBlock
<1>7. \A k : IsBlock(s, i, k) => i \in 1 .. n /\ k \in 1 .. n /\ i <= k
  BY DEF IsBlock, n
<1>8. CASE i \in 1 .. n /\ j \in 1 .. n /\ i <= j
  <2>1. j # n + 1
    BY <1>2, <1>8
  <2>2. SubSeq(t, i, j) = SubSeq(s, i, j)
    BY <1>2, <1>8
  <2>3. QED
    BY <1>3, <1>8, <2>1, <2>2 DEF GoodBlock, t, n
<1>9. CASE i \in 1 .. n /\ j = n + 1
  <2>1. i <= n /\ n \in 1 .. n /\ j # n /\ j \notin 1 .. n
    BY <1>2, <1>9
  <2>2. SubSeq(t, i, n + 1) = Append(SubSeq(s, i, n), p) /\ SubSeq(s, i, n) \in Transcripts
    BY <1>2, <1>9, <2>1
  <2>3. p \in Prompts => CleanBlock(SubSeq(t, i, n + 1)) = CleanBlock(SubSeq(s, i, n))
    BY <2>2, CleanIgnoresPrompt
  <2>4. ~GoodBlock(s, i, j)
    BY <1>7, <2>1 DEF GoodBlock
  <2>5. GoodBlock(t, i, n + 1) <=> GoodBlock(s, i, n)
    <3>1. CASE p \in Prompts
      BY <1>4, <1>9, <2>3, <3>1 DEF GoodBlock
    <3>2. CASE p = "claude>"
      <4>1. s[n] = "blank" /\ n \in 1 .. Len(s) /\ i <= n
        BY <2>1, <3>2 DEF n
      <4>2. ~IsBlock(s, i, n)
        BY <1>2, <4>1 DEF IsBlock
      <4>3. QED
        BY <1>4, <1>9, <4>2 DEF GoodBlock
    <3>3. QED
      BY <3>1, <3>2 DEF Drawn
  <2>6. QED
    BY <1>9, <2>4, <2>5 DEF t, n
<1>10. CASE i = n + 1 /\ j = n + 1
  <2>1. i \notin 1 .. n
    BY <1>2, <1>10
  <2>2. ~GoodBlock(s, i, j) /\ ~GoodBlock(s, i, n)
    BY <1>7, <2>1 DEF GoodBlock
  <2>3. ~GoodBlock(t, i, j)
    BY <1>5, <1>10 DEF GoodBlock
  <2>4. QED
    BY <2>2, <2>3 DEF t, n
<1>11. CASE /\ ~(i \in 1 .. n /\ j \in 1 .. n /\ i <= j)
            /\ ~(i \in 1 .. n /\ j = n + 1)
            /\ ~(i = n + 1 /\ j = n + 1)
  <2>1. ~IsBlock(t, i, j)
    BY <1>2, <1>6, <1>11
  <2>2. ~IsBlock(s, i, j) /\ ~(j = n + 1 /\ IsBlock(s, i, n))
    BY <1>7, <1>11
  <2>3. QED
    BY <2>1, <2>2 DEF GoodBlock, t, n
<1>12. QED
  BY <1>8, <1>9, <1>10, <1>11

\* A line that Claude Code draws after its answer leaves the answer alone.
LEMMA ClaudeStays ==
  ASSUME NEW s \in Transcripts, NEW line \in {"blank"} \cup Drawn,
         line = "claude>" => s[Len(s)] = "blank", Good(s) # {}
  PROVE  ClaudeExtract(Append(s, line)) = ClaudeExtract(s)
<1> DEFINE t == Append(s, line)
<1>1. line \in LineKinds
  BY DEF LineKinds, Drawn, Prompts
<1>2. PICK i, j : GoodBlock(s, i, j) /\ \A k, l : GoodBlock(s, k, l) => l <= j
  BY SomeBlockIsLast
<1>3. ClaudeExtract(s) = CleanBlock(SubSeq(s, i, j))
  BY <1>2, ClaudeReadsLast
<1>4. /\ t \in Transcripts /\ Len(s) \in Nat
      /\ i \in 1 .. Len(s) /\ j \in 1 .. Len(s) /\ i <= j
      /\ SubSeq(t, i, j) = SubSeq(s, i, j) /\ SubSeq(s, i, j) \in Transcripts
      /\ SubSeq(t, i, Len(s) + 1) = Append(SubSeq(s, i, Len(s)), line)
  BY <1>1, <1>2, OneLineMore DEF GoodBlock, IsBlock, Transcripts
<1>5. CASE line = "blank"
  <2>1. \A k, l : GoodBlock(t, k, l) <=> GoodBlock(s, k, l)
    BY <1>5, BlankEndsBlock
  <2> HIDE DEF t
  <2>2. ClaudeExtract(t) = CleanBlock(SubSeq(t, i, j))
    BY <1>2, <1>4, <2>1, ClaudeReadsLast
  <2>3. QED
    BY <1>3, <1>4, <2>2 DEF t
<1>6. CASE line \in Drawn
  <2>1. \A k, l : GoodBlock(t, k, l) <=>
                     \/ l # Len(s) /\ GoodBlock(s, k, l)
                     \/ l = Len(s) + 1 /\ GoodBlock(s, k, Len(s))
    <3>1. s # <<>>
      BY <1>4
    <3>2. QED
      BY <1>6, <3>1, PromptLengthensBlock
  <2>2. \A k, l : GoodBlock(s, k, l) => l \in 1 .. Len(s)
    BY DEF GoodBlock, IsBlock
  <2> HIDE DEF t
  <2>3. CASE j = Len(s)
    <3>1. GoodBlock(t, i, Len(s) + 1)
      BY <1>2, <2>1, <2>3
    <3>2. \A k, l : GoodBlock(t, k, l) => l <= Len(s) + 1
      BY <1>4, <2>1, <2>2
    <3>3. ClaudeExtract(t) = CleanBlock(SubSeq(t, i, Len(s) + 1))
      BY <1>4, <3>1, <3>2, ClaudeReadsLast
    <3>4. CleanBlock(Append(SubSeq(s, i, j), line)) = CleanBlock(SubSeq(s, i, j))
      <4>1. s[Len(s)] # "blank"
        BY <1>2, <1>4, <2>3 DEF GoodBlock, IsBlock
      <4>2. line \in Prompts
        BY <1>6, <4>1 DEF Drawn
      <4>3. QED
        BY <1>4, <4>2, CleanIgnoresPrompt
    <3>5. QED
      BY <1>3, <1>4, <2>3, <3>3, <3>4 DEF t
  <2>4. CASE j # Len(s)
    <3>1. GoodBlock(t, i, j)
      BY <1>2, <2>1, <2>4
    <3>2. ASSUME NEW k, NEW l, GoodBlock(t, k, l) PROVE l <= j
      <4>1. ~GoodBlock(s, k, Len(s))
        BY <1>2, <1>4, <2>4
      <4>2. QED
        BY <1>2, <2>1, <3>2, <4>1
    <3>3. ClaudeExtract(t) = CleanBlock(SubSeq(t, i, j))
      BY <1>4, <3>1, <3>2, ClaudeReadsLast
    <3>4. QED
      BY <1>3, <1>4, <3>3 DEF t
  <2>5. QED
    BY <2>3, <2>4
<1>7. QED
  BY <1>5, <1>6

\* The first "tokens used" line stands where the section ended anyway.
LEMMA CodexStays ==
  ASSUME NEW s \in Transcripts, "tokens" \notin Range(s), CodexSection(s) # <<>>
  PROVE  CodexExtract(Append(s, "tokens")) = CodexExtract(s)
<1> DEFINE t == Append(s, "tokens")
           n == Len(s)
           starts == {i \in DOMAIN s : s[i] = "codex"}
           start == Max(starts)
<1>1. "tokens" \in LineKinds
  BY DEF LineKinds
<1>2. /\ t \in Transcripts /\ Len(t) = n + 1 /\ n \in Nat
      /\ \A k \in 1 .. n : t[k] = s[k]
      /\ t[n + 1] = "tokens"
      /\ \A k, l \in 1 .. n : k <= l => SubSeq(t, k, l) = SubSeq(s, k, l)
  <2>1. n \in Nat
    BY DEF Transcripts
  <2>2. QED
    BY ONLY <1>1, <2>1, s \in Transcripts, OneLineMore
<1>3. DOMAIN s = 1 .. n
  BY DEF Transcripts
<1>4. \A k \in 1 .. n : s[k] # "tokens"
  BY <1>3 DEF Range
<1>5. starts # {} /\ starts \in SUBSET (1 .. n)
  <2>1. starts = {} => CodexSection(s) = <<>>
    BY DEF CodexSection
  <2>2. QED
    BY <1>3, <2>1
<1> HIDE DEF t, n
<1>6. start \in starts /\ \A y \in starts : y <= start
  <2> HIDE DEF starts
  <2>1. QED
    BY <1>2, <1>5, LastPlace
<1>7. start \in 1 .. n /\ s[start] = "codex" /\ \A k \in 1 .. n : s[k] = "codex" => k <= start
  BY <1>3, <1>6
<1> HIDE DEF start, starts
<1>8. CodexSection(s) = TrimSpace(SubSeq(s, start + 1, (n + 1) - 1))
  <2>1. {k \in 1 .. n : k > start /\ s[k] = "tokens"} = {}
    BY <1>4
  <2>2. n + 1 \in Nat
    BY <1>2
  <2>3. QED
    BY <1>7, <2>1, <2>2, SectionIs DEF n
<1>9. CodexSection(t) = TrimSpace(SubSeq(t, start + 1, (n + 1) - 1))
  <2>1. {k \in 1 .. n + 1 : k > start /\ t[k] = "tokens"} = {n + 1}
    <3>1. \A k \in 1 .. n + 1 : k \in 1 .. n \/ k = n + 1
      BY <1>2
    <3>2. n + 1 > start /\ n + 1 \in 1 .. n + 1
      BY <1>2, <1>7
    <3>3. QED
      BY <1>2, <1>4, <3>1, <3>2
  <2>2. \A k \in 1 .. n + 1 : t[k] = "codex" => k <= start
    <3>1. \A k \in 1 .. n + 1 : k \in 1 .. n \/ k = n + 1
      BY <1>2
    <3>2. QED
      BY <1>2, <1>7, <3>1
  <2>3. start \in 1 .. Len(t) /\ t[start] = "codex" /\ n + 1 \in Nat
    BY <1>2, <1>7
  <2>4. QED
    BY <1>2, <2>1, <2>2, <2>3, SectionIs
<1>10. SubSeq(t, start + 1, (n + 1) - 1) = SubSeq(s, start + 1, (n + 1) - 1)
  <2>1. (n + 1) - 1 = n /\ start + 1 \in Int /\ n \in Int
    BY <1>2, <1>7
  <2>2. CASE start = n
    <3>1. n < start + 1
      BY <1>2, <2>2
    <3>2. SubSeq(t, start + 1, n) = <<>> /\ SubSeq(s, start + 1, n) = <<>>
      BY <2>1, <3>1, SubSeqEmpty
    <3>3. QED
      BY <2>1, <3>2
  <2>3. CASE start # n
    <3>1. start + 1 \in 1 .. n /\ n \in 1 .. n /\ start + 1 <= n
      BY <1>2, <1>7, <2>3
    <3>2. QED
      BY <1>2, <2>1, <3>1
  <2>4. QED
    BY <2>2, <2>3
<1>11. CodexSection(t) = CodexSection(s)
  BY <1>8, <1>9, <1>10
<1>12. QED
  BY <1>11 DEF CodexExtract, t

\* A transcript of any length keeps the answer it was read to have when Claude
\* Code draws a prompt glyph, an empty line or a "claude>" prompt of its own
\* after it, or codex its first "tokens used" line (claudecode and codex
\* ExtractResponse).
THEOREM TranscriptAnswerIsStable == ScreenSpec => AnswerIsStable
<1> DEFINE line == lines'[Len(lines')]
           drawn == \/ adapter = "claude-code" /\ line \in {"blank", ">", "ready"}
                    \/ adapter = "claude-code" /\ line = "claude>" /\ lines[Len(lines)] = "blank"
                    \/ adapter = "codex" /\ line = "tokens" /\ "tokens" \notin Range(lines)
           Stays == Confident /\ drawn => Answer' = Answer
<1>1. ASSUME ScreenTypes, [ScreenNext]_screenVars PROVE [Stays]_screenVars
  <2> SUFFICES ASSUME NEW added \in LineKinds, AppendLine(added), Confident, drawn PROVE Answer' = Answer
    BY <1>1 DEF ScreenNext
  <2>1. lines \in Transcripts /\ lines' = Append(lines, added) /\ adapter' = adapter
    BY <1>1 DEF ScreenTypes, AppendLine
  <2>2. line = added
    BY <2>1 DEF Transcripts
  <2>3. Answer' = ExtractResponse(adapter, Append(lines, added)) /\ Answer = ExtractResponse(adapter, lines)
    BY <2>1 DEF Answer
  <2>4. CASE adapter = "codex"
    <3>1. added = "tokens" /\ "tokens" \notin Range(lines) /\ CodexSection(lines) # <<>>
      BY <2>2, <2>4 DEF Confident
    <3>2. CodexExtract(Append(lines, added)) = CodexExtract(lines)
      BY <2>1, <3>1, CodexStays
    <3>3. QED
      BY <2>3, <2>4, <3>2 DEF ExtractResponse
  <2>5. CASE adapter # "codex"
    <3>1. added \in {"blank"} \cup Drawn /\ (added = "claude>" => lines[Len(lines)] = "blank")
      BY <2>2, <2>5 DEF Drawn, Prompts
    <3>2. Good(lines) # {}
      BY <2>5 DEF Confident, Good
    <3>3. ClaudeExtract(Append(lines, added)) = ClaudeExtract(lines)
      BY <2>1, <3>1, <3>2, ClaudeStays
    <3>4. QED
      BY <2>3, <2>5, <3>3 DEF ExtractResponse
  <2>6. QED
    BY <2>4, <2>5
<1>2. ScreenSpec => [][ScreenNext]_screenVars
  BY DEF ScreenSpec
<1>3. QED
  BY <1>1, <1>2, ScreenTyped, PTL DEF AnswerIsStable
=============================================================================
