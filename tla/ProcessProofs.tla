---------------------------- MODULE ProcessProofs ----------------------------
(***************************************************************************)
(* Proofs about module PersistentProcess, for any number of turns, every   *)
(* kind of agent, every size of the channel and of the buffer, and however *)
(* the output is cut into chunks.                                          *)
(***************************************************************************)
EXTENDS PersistentProcess, FiniteSetTheorems, SequenceTheorems, TLAPS

W == INSTANCE WellFoundedInduction

\* Searching and cutting the output.

\* Every non-empty set of places has a first one.
LEMMA FirstPlace ==
  ASSUME NEW S \in SUBSET Nat, S # {}
  PROVE  Min(S) \in S /\ \A y \in S : Min(S) <= y
<1> DEFINE R == { ss \in Nat \X Nat : ss[1] < ss[2] }
<1>1. W!IsWellFoundedOn(R, Nat)
  BY W!NatLessThanWellFounded DEF W!OpToRel
<1>2. \E x \in S : \A y \in S : ~(<<y, x>> \in R)
  <2> HIDE DEF R
  <2>1. QED
    BY <1>1, W!WFMin, Zenon
<1>3. PICK x \in S : \A y \in S : ~(<<y, x>> \in R)
  BY <1>2
<1>4. \A y \in S : x <= y
  <2> TAKE y \in S
  <2>1. ~(<<y, x>> \in R)
    BY <1>3
  <2>2. QED
    BY <2>1
<1>5. QED
  BY <1>4 DEF Min

\* The search for an item finds the first one, or says that there is none.
LEMMA Found ==
  ASSUME NEW s \in Seq(Item), NEW x, NEW at,
         at = IF { i \in 1..Len(s) : s[i] = x } # {}
              THEN Min({ i \in 1..Len(s) : s[i] = x }) ELSE 0
  PROVE  /\ at \in 0..Len(s)
         /\ at = 0 => \A i \in 1..Len(s) : s[i] # x
         /\ at # 0 => s[at] = x /\ \A i \in 1..at - 1 : s[i] # x
<1> DEFINE I == { i \in 1..Len(s) : s[i] = x }
<1>1. Len(s) \in Nat /\ I \in SUBSET Nat
  OBVIOUS
<1>2. CASE I = {}
  BY <1>1, <1>2
<1>3. CASE I # {}
  <2>1. at \in I /\ \A y \in I : at <= y
    <3> HIDE DEF I
    <3>1. at = Min(I)
      BY <1>3 DEF I
    <3>2. Min(I) \in I /\ \A y \in I : Min(I) <= y
      BY <1>1, <1>3, FirstPlace, Zenon
    <3>3. QED
      BY <3>1, <3>2, Zenon
  <2>2. at \in 1..Len(s) /\ s[at] = x
    BY <2>1
  <2>3. \A i \in 1..Len(s) : s[i] = x => at <= i
    BY <2>1
  <2>4. at \in Nat \ {0} /\ \A i \in 1..at - 1 : i \in 1..Len(s) /\ ~(at <= i)
    BY ONLY <1>1, <2>2
  <2>5. QED
    BY <2>2, <2>3, <2>4
<1>4. QED
  BY <1>2, <1>3

LEMMA MarkerFound ==
  ASSUME NEW s \in Seq(Item), NEW n
  PROVE  /\ MarkerAt(s, n) \in 0..Len(s)
         /\ MarkerAt(s, n) = 0 => \A i \in 1..Len(s) : s[i] # MarkerOf(n)
         /\ MarkerAt(s, n) # 0 => /\ s[MarkerAt(s, n)] = MarkerOf(n)
                                  /\ \A i \in 1..MarkerAt(s, n) - 1 : s[i] # MarkerOf(n)
<1> DEFINE I == { i \in 1..Len(s) : s[i] = MarkerOf(n) }
<1>1. MarkerAt(s, n) = IF I # {} THEN Min(I) ELSE 0
  BY Zenon DEF MarkerAt, SelectInSeq
<1>2. QED
  BY <1>1, Found

\* What stripEnvelopeEcho leaves begins right after the echo.
LEMMA Stripped ==
  ASSUME NEW s \in Seq(Item), NEW n
  PROVE  \E at \in 0..Len(s) :
           /\ StripEnvelopeEcho(s, n) = SubSeq(s, at + 1, Len(s))
           /\ at = 0 => \A i \in 1..Len(s) : s[i] # EchoOf(n)
           /\ at # 0 => s[at] = EchoOf(n) /\ \A i \in 1..at - 1 : s[i] # EchoOf(n)
<1> DEFINE I == { i \in 1..Len(s) : s[i] = EchoOf(n) }
           at == IF I # {} THEN Min(I) ELSE 0
<1>1. StripEnvelopeEcho(s, n) = SubSeq(s, at + 1, Len(s))
  BY Zenon DEF StripEnvelopeEcho, SelectInSeq
<1>2. \A x : (x = IF I # {} THEN Min(I) ELSE 0) =>
        /\ x \in 0..Len(s)
        /\ x = 0 => \A i \in 1..Len(s) : s[i] # EchoOf(n)
        /\ x # 0 => s[x] = EchoOf(n) /\ \A i \in 1..x - 1 : s[i] # EchoOf(n)
  BY Found, Zenon
<1>3. /\ at \in 0..Len(s)
      /\ at = 0 => \A i \in 1..Len(s) : s[i] # EchoOf(n)
      /\ at # 0 => s[at] = EchoOf(n) /\ \A i \in 1..at - 1 : s[i] # EchoOf(n)
  BY <1>2, Zenon
<1> HIDE DEF at
<1>4. QED
  BY <1>1, <1>3

\* A piece of a sequence.
LEMMA Piece ==
  ASSUME NEW s \in Seq(Item), NEW m \in Nat, NEW n \in Nat, m <= n, n <= Len(s)
  PROVE  /\ SubSeq(s, m + 1, n) \in Seq(Item)
         /\ Len(SubSeq(s, m + 1, n)) = n - m
         /\ \A i \in 1..n - m : SubSeq(s, m + 1, n)[i] = s[m + i]
<1>1. m + 1 \in 1..Len(s) + 1 /\ n \in m..Len(s)
  OBVIOUS
<1>2. QED
  BY <1>1, SubSeqProperties

LEMMA AnswerType ==
  ASSUME buffer \in Seq(Item), MarkerAt(buffer, turn) # 0
  PROVE  StripEnvelopeEcho(SubSeq(buffer, 1, MarkerAt(buffer, turn) - 1), turn) \in Seq(Item)
<1> DEFINE m == MarkerAt(buffer, turn)
           captured == SubSeq(buffer, 1, m - 1)
<1>1. m \in 1..Len(buffer)
  BY MarkerFound
<1> HIDE DEF m
<1>2. captured \in Seq(Item)
  <2>1. 0 \in Nat /\ m - 1 \in Nat /\ m - 1 <= Len(buffer) /\ 0 <= m - 1 /\ 0 + 1 = 1
    BY <1>1
  <2>2. QED
    BY <2>1, Piece
<1> HIDE DEF captured
<1>3. PICK at \in 0..Len(captured) :
        StripEnvelopeEcho(captured, turn) = SubSeq(captured, at + 1, Len(captured))
  BY <1>2, Stripped
<1>4. SubSeq(captured, at + 1, Len(captured)) \in Seq(Item)
  BY <1>2, <1>3, Piece
<1>5. QED
  BY <1>3, <1>4 DEF captured, m

\* What the loop of ConverseTurn can find, and what that says of the state.
LEMMA Findings ==
  ASSUME TypeOK
  PROVE  /\ Finding \in {"reply", "overflow", "exited", "context", "timeout", "nothing"}
         /\ Finding = "exited" => exited
         /\ Finding = "reply" => MarkerAt(buffer, turn) # 0
<1>1. Len(buffer) \in Nat /\ BufferCap \in Nat
  BY ProcessAssumption DEF TypeOK
<1>2. CASE MarkerAt(buffer, turn) # 0
  <2>1. Finding = "reply"
    BY <1>2 DEF Finding
  <2>2. QED
    BY <1>2, <2>1
<1>3. CASE MarkerAt(buffer, turn) = 0 /\ Len(buffer) > BufferCap
  <2>1. Finding = "overflow"
    BY <1>1, <1>3 DEF Finding
  <2>2. QED
    BY <2>1
<1>4. CASE MarkerAt(buffer, turn) = 0 /\ Len(buffer) <= BufferCap
  <2>1. Finding = IF exited THEN "exited" ELSE IF ctx THEN "context"
                  ELSE IF turn \in late THEN "timeout" ELSE "nothing"
    BY <1>1, <1>4 DEF Finding
  <2>2. QED
    BY <2>1
<1>5. QED
  BY <1>1, <1>2, <1>3, <1>4

Agents(t) == [on : 0..Turns, said : 0..t, chatter : 0..Turns]

LEMMA AgentTypes ==
  ASSUME NEW t \in Nat, NEW a \in Agents(t)
  PROVE  /\ a.on \in 0..Turns /\ a.said \in 0..t /\ a.chatter \in 0..Turns
         /\ \A n \in 0..Turns : [a EXCEPT !.on = n, !.said = 0] \in Agents(t)
         /\ a.said < t => [a EXCEPT !.said = @ + 1] \in Agents(t)
         /\ [a EXCEPT !.on = 0, !.chatter = a.on] \in Agents(t)
         /\ [a EXCEPT !.chatter = 0] \in Agents(t)
<1>1. Turns \in Nat
  BY ProcessAssumption
<1>2. a.on \in 0..Turns /\ a.said \in 0..t /\ a.chatter \in 0..Turns
  BY DEF Agents
<1>3. \A n \in 0..Turns : [a EXCEPT !.on = n, !.said = 0] \in Agents(t)
  <2> TAKE n \in 0..Turns
  <2>1. [a EXCEPT !.on = n] \in Agents(t)
    BY DEF Agents
  <2>2. \A b \in Agents(t) : [b EXCEPT !.said = 0] \in Agents(t)
    BY DEF Agents
  <2>3. QED
    BY <2>1, <2>2
<1>4. a.said < t => [a EXCEPT !.said = @ + 1] \in Agents(t)
  BY <1>1, <1>2 DEF Agents
<1>5. [a EXCEPT !.on = 0, !.chatter = a.on] \in Agents(t)
  <2>1. [a EXCEPT !.on = 0] \in Agents(t)
    BY <1>1 DEF Agents
  <2>2. \A b \in Agents(t) : [b EXCEPT !.chatter = a.on] \in Agents(t)
    BY DEF Agents
  <2>3. QED
    BY <2>1, <2>2
<1>6. [a EXCEPT !.chatter = 0] \in Agents(t)
  BY <1>1 DEF Agents
<1>7. QED
  BY <1>2, <1>3, <1>4, <1>5, <1>6

LEMMA PutOutType ==
  ASSUME NEW x \in Item, tty \in Seq(Item), stream \in Seq(Item), PutOut(x)
  PROVE  tty' \in Seq(Item) /\ stream' \in Seq(Item)
  BY DEF PutOut

LEMMA TypeInit == Init => TypeOK
<1> SUFFICES ASSUME Init PROVE TypeOK
  OBVIOUS
<1>1. scene.text \in Nat
  BY ProcessAssumption DEF Init
<1>2. agent \in [on : 0..Turns, said : 0..scene.text, chatter : 0..Turns]
  BY <1>1, ProcessAssumption DEF Init
<1>3. watcher \in [1..Turns -> {"off", "armed", "fired"}] /\ late \subseteq 1..Turns
  BY DEF Init
<1>4. Len(<<>>) <= OutputCap
  BY ProcessAssumption
<1>5. /\ tty \in Seq(Item) /\ stream \in Seq(Item) /\ chunk \in Seq(Item)
      /\ outputCh \in Seq(Seq(Item)) /\ Len(outputCh) <= OutputCap
      /\ taken \in Seq(Item) /\ buffer \in Seq(Item) /\ answers \in Seq(Seq(Item))
  BY <1>4 DEF Init
<1>6. 0 \in 0..Turns
  BY ProcessAssumption
<1>7. QED
  BY <1>2, <1>3, <1>5, <1>6 DEF Init, TypeOK

LEMMA TypeStep == TypeOK /\ [Next]_vars => TypeOK'
<1> SUFFICES ASSUME TypeOK, [Next]_vars PROVE TypeOK'
  OBVIOUS
<1> USE DEF TypeOK, agentVars, procVars, pumpVars, turnVars
<1>1. \A n \in 1..Turns : EchoOf(n) \in Item /\ TextOf(n) \in Item /\ MarkerOf(n) \in Item
                         /\ ChatterOf(n) \in Item
  BY DEF EchoOf, TextOf, MarkerOf, ChatterOf, Item
<1>2. scene.text \in Nat /\ Turns \in Nat /\ OutputCap \in Nat
  BY ProcessAssumption
<1>a. agent \in Agents(scene.text)
  BY DEF Agents
<1>3. CASE Agent
  <2>1. CASE AgentReads
    <3>1. agent' \in Agents(scene.text)
      BY <1>2, <1>a, <2>1, AgentTypes DEF AgentReads
    <3>2. QED
      BY <1>2, <2>1, <3>1 DEF AgentReads, Agents
  <2>2. CASE AgentSays
    <3>1. agent' \in Agents(scene.text)
      <4>1. \/ agent.said < scene.text /\ agent' = [agent EXCEPT !.said = @ + 1]
            \/ agent' = [agent EXCEPT !.on = 0, !.chatter = agent.on]
        BY <2>2 DEF AgentSays
      <4> HIDE DEF TypeOK
      <4>2. QED
        BY <1>2, <1>a, <4>1, AgentTypes
    <3>2. agent.on \in 1..Turns
      BY <1>2, <2>2 DEF AgentSays
    <3>3. TextOf(agent.on) \in Item /\ MarkerOf(agent.on) \in Item
      BY <1>1, <3>2
    <3>4. tty' \in Seq(Item) /\ stream' \in Seq(Item)
      <4>1. PutOut(TextOf(agent.on)) \/ PutOut(MarkerOf(agent.on))
        BY <2>2 DEF AgentSays
      <4>2. QED
        BY <3>3, <4>1, PutOutType
    <3>5. QED
      BY <2>2, <3>1, <3>4 DEF AgentSays, Agents
  <2>3. CASE AgentChats
    <3>1. agent' \in Agents(scene.text)
      BY <1>2, <1>a, <2>3, AgentTypes DEF AgentChats
    <3>2. agent.chatter \in 1..Turns
      BY <1>2, <2>3 DEF AgentChats
    <3>3. ChatterOf(agent.chatter) \in Item
      BY <1>1, <3>2
    <3>4. tty' \in Seq(Item) /\ stream' \in Seq(Item)
      BY <2>3, <3>3 DEF AgentChats, PutOut
    <3>5. QED
      BY <2>3, <3>1, <3>4 DEF AgentChats, Agents
  <2>4. CASE AgentDetaches
    BY <2>4 DEF AgentDetaches
  <2>5. CASE AgentExits
    BY <2>5 DEF AgentExits
  <2>6. QED
    BY <1>3, <2>1, <2>2, <2>3, <2>4, <2>5 DEF Agent
<1>4. CASE Reader
  <2>1. CASE ReaderReads
    <3>1. PICK n \in 1..Len(tty) : /\ chunk' = SubSeq(tty, 1, n)
                                   /\ tty' = SubSeq(tty, n + 1, Len(tty))
      BY <2>1 DEF ReaderReads
    <3>2. Len(tty) \in Nat /\ 0 + 1 = 1 /\ 0 \in Nat /\ n \in Nat
      OBVIOUS
    <3>3. SubSeq(tty, 1, n) \in Seq(Item) /\ SubSeq(tty, n + 1, Len(tty)) \in Seq(Item)
      BY <3>2, Piece
    <3>4. QED
      BY <2>1, <3>1, <3>3 DEF ReaderReads
  <2>2. CASE ReaderSends
    BY <1>2, <2>2 DEF ReaderSends
  <2>3. CASE ReaderEnds
    BY <2>3 DEF ReaderEnds
  <2>4. QED
    BY <1>4, <2>1, <2>2, <2>3 DEF Reader
<1>5. CASE Waiter
  <2>1. CASE WaiterCloses
    BY <2>1 DEF WaiterCloses
  <2>2. CASE WaiterReports
    BY <2>2 DEF WaiterReports
  <2>3. QED
    BY <1>5, <2>1, <2>2 DEF Waiter
<1>6. CASE Pump
  <2>1. CASE PumpTakes
    <3>1. outputCh # <<>>
      BY <2>1 DEF PumpTakes
    <3>2. /\ Head(outputCh) \in Seq(Item) /\ Tail(outputCh) \in Seq(Seq(Item))
          /\ Len(Tail(outputCh)) <= OutputCap
      BY <1>2, <3>1
    <3>3. QED
      BY <2>1, <3>2 DEF PumpTakes
  <2>2. CASE PumpStores
    BY <2>2 DEF PumpStores, Woken
  <2>3. CASE PumpSeesEnd
    BY <2>3 DEF PumpSeesEnd
  <2>4. CASE PumpMarks
    BY <2>4 DEF PumpMarks, Woken
  <2>5. QED
    BY <1>6, <2>1, <2>2, <2>3, <2>4 DEF Pump
<1>7. CASE TurnBegins
  <2>1. turn + 1 \in 1..Turns
    BY <1>2, <1>7 DEF TurnBegins
  <2>2. tty' \in Seq(Item) /\ stream' \in Seq(Item)
    <3>1. EchoOf(turn + 1) \in Item
      BY <1>1, <2>1
    <3>2. PutOut(EchoOf(turn + 1)) \/ UNCHANGED <<tty, stream>>
      BY <1>7 DEF TurnBegins
    <3>3. QED
      BY <3>1, <3>2, PutOutType
  <2>3. input' \in 0..Turns /\ turn' \in 0..Turns
    <3>1. turn' = turn + 1 /\ (input' = input \/ input' = turn + 1)
      BY <1>7 DEF TurnBegins
    <3>2. QED
      BY <1>2, <2>1, <3>1
  <2>4. conv' \in {"failed", "write"} /\ why' \in {"none", "write"}
    BY <1>7 DEF TurnBegins
  <2>5. QED
    BY <1>7, <2>2, <2>3, <2>4 DEF TurnBegins
<1>8. CASE ConverseTurn
  <2>1. CASE WriteReturns
    <3>1. watcher' \in [1..Turns -> {"off", "armed", "fired"}]
      BY <2>1 DEF WriteReturns
    <3>2. QED
      BY <2>1, <3>1 DEF WriteReturns
  <2>2. CASE WriteFails
    BY <2>2 DEF WriteFails
  <2>3. CASE TurnAnswered
    <3>1. MarkerAt(buffer, turn) # 0
      BY <2>3, Findings DEF TurnAnswered
    <3>2. QED
      BY <2>3, <3>1, AnswerType DEF TurnAnswered
  <2>4. CASE TurnFails
    BY <2>4, Findings DEF TurnFails
  <2>5. CASE TurnWaits
    BY <2>5 DEF TurnWaits
  <2>6. QED
    BY <1>8, <2>1, <2>2, <2>3, <2>4, <2>5 DEF ConverseTurn
<1>9. CASE CloseBegins \/ Close \/ ContextEnds
  <2>1. CASE CloseBegins
    BY <2>1 DEF CloseBegins
  <2>2. CASE ContextEnds
    BY <2>2 DEF ContextEnds
  <2>3. CASE TerminateInterrupts
    BY <2>3 DEF TerminateInterrupts
  <2>4. CASE TerminateSeesExit
    BY <2>4 DEF TerminateSeesExit
  <2>5. CASE TerminateKills
    BY <2>5 DEF TerminateKills
  <2>6. CASE CloseJoins
    BY <2>6 DEF CloseJoins
  <2>7. QED
    BY <1>9, <2>1, <2>2, <2>3, <2>4, <2>5, <2>6 DEF Close
<1>10. CASE \E n \in 1..Turns : Watcher(n) \/ DeadlinePasses(n)
  <2>1. PICK n \in 1..Turns : Watcher(n) \/ DeadlinePasses(n)
    BY <1>10
  <2>2. CASE WatcherStops(n)
    BY <2>2 DEF WatcherStops
  <2>3. CASE WatcherFires(n)
    BY <2>3 DEF WatcherFires
  <2>4. CASE WatcherBroadcasts(n)
    BY <2>4 DEF WatcherBroadcasts, Woken
  <2>5. CASE DeadlinePasses(n)
    BY <2>5 DEF DeadlinePasses
  <2>6. QED
    BY <2>1, <2>2, <2>3, <2>4, <2>5 DEF Watcher
<1>11. CASE UNCHANGED vars
  BY <1>11 DEF vars
<1>12. QED
  BY <1>3, <1>4, <1>5, <1>6, <1>7, <1>8, <1>9, <1>10, <1>11 DEF Next

-----------------------------------------------------------------------------
\* What everybody knows of the agent: ptmx is closed and the result reported
\* only after its exit, and its output ends only after it let the terminal go.
ExitInv ==
  /\ waiter # "wait" => proc = "exited"
  /\ reader = "done" => proc # "running"
  /\ doneCh # "empty" => waiter = "done"
  /\ HeardToTheEnd

LEMMA ExitStep == TypeOK /\ ExitInv /\ [Next]_vars => ExitInv'
<1> SUFFICES ASSUME TypeOK, ExitInv, [Next]_vars PROVE ExitInv'
  OBVIOUS
<1> USE DEF ExitInv, HeardToTheEnd, agentVars, procVars, pumpVars, turnVars
<1>1. CASE Agent
  BY <1>1 DEF TypeOK, Agent, AgentReads, AgentSays, AgentChats, AgentDetaches, AgentExits
<1>2. CASE Reader
  BY <1>2 DEF Reader, ReaderReads, ReaderSends, ReaderEnds, PtmxClosed
<1>3. CASE Waiter
  BY <1>3 DEF Waiter, WaiterCloses, WaiterReports
<1>4. CASE Pump
  <2>1. CASE PumpTakes
    BY <2>1 DEF PumpTakes
  <2>2. CASE PumpStores
    BY <2>2 DEF PumpStores, TypeOK
  <2>3. CASE PumpSeesEnd
    BY <2>3 DEF PumpSeesEnd, TypeOK
  <2>4. CASE PumpMarks
    BY <2>4 DEF PumpMarks, TypeOK
  <2>5. QED
    BY <1>4, <2>1, <2>2, <2>3, <2>4 DEF Pump
<1>5. CASE TurnBegins
  BY <1>5 DEF TurnBegins
<1>6. CASE ConverseTurn
  <2>1. CASE TurnFails
    BY <2>1, Findings DEF TurnFails
  <2>2. CASE ~TurnFails
    BY <1>6, <2>2 DEF ConverseTurn, WriteReturns, WriteFails, TurnAnswered, TurnWaits
  <2>3. QED
    BY <2>1, <2>2
<1>7. CASE CloseBegins \/ Close \/ ContextEnds
  BY <1>7 DEF CloseBegins, Close, ContextEnds, TerminateInterrupts, TerminateSeesExit,
              TerminateKills, CloseJoins
<1>8. CASE \E n \in 1..Turns : Watcher(n) \/ DeadlinePasses(n)
  BY <1>8 DEF Watcher, WatcherStops, WatcherFires, WatcherBroadcasts, DeadlinePasses
<1>9. CASE UNCHANGED vars
  BY <1>9 DEF vars
<1>10. QED
  BY <1>1, <1>2, <1>3, <1>4, <1>5, <1>6, <1>7, <1>8, <1>9 DEF Next

\* The state of a persistent peer keeps its types, for every number of turns
\* and every scene: in particular outputCh never holds more than its capacity
\* and an answer is made of items (readOutput, ConverseTurn).
THEOREM ProcessTypeOK == Spec => []TypeOK
  BY TypeInit, TypeStep, PTL DEF Spec

\* Whatever order the end of the output, the exit result and Close are seen
\* in, the pump leaves, and a turn is told of an exit, only when the agent has
\* exited or has closed its terminal (pump, wait, readOutput).
THEOREM ProcessHeardToTheEnd == Spec => []HeardToTheEnd
<1>1. Init => ExitInv
  BY DEF Init, ExitInv, HeardToTheEnd
<1>2. ExitInv => HeardToTheEnd
  BY DEF ExitInv
<1>3. QED
  BY <1>1, <1>2, TypeInit, TypeStep, ExitStep, PTL DEF Spec

-----------------------------------------------------------------------------
\* The output in its order.

Has(s, x) == \E q \in 1..Len(s) : s[q] = x

\* Nothing is put out ahead of what calls for it: a reply follows the echo of
\* its envelope, chatter the marker of its reply, and only chatter the marker
\* of the current turn n; an echo and chatter come once.
Story(s, n, echoes) ==
  /\ \A q \in 1..Len(s) : s[q].turn <= n
  /\ \A q \in 1..Len(s) : s[q].kind = "echo" => echoes
  /\ \A q, r \in 1..Len(s) : s[q].kind \in {"echo", "chatter"} /\ s[q] = s[r] => q = r
  /\ \A q \in 1..Len(s) : s[q].kind \in {"text", "marker"} =>
       /\ echoes => \E p \in 1..Len(s) : p < q /\ s[p] = EchoOf(s[q].turn)
       /\ \A p \in 1..Len(s) : s[p] = EchoOf(s[q].turn) => p < q
  /\ \A q \in 1..Len(s) : s[q].kind = "chatter" =>
       \E p \in 1..Len(s) : p < q /\ s[p] = MarkerOf(s[q].turn)
  /\ \A q, r \in 1..Len(s) : s[q] = MarkerOf(n) /\ q < r => s[r].kind = "chatter"

\* The agent has at most the current envelope, read or unread, until it has
\* answered it, and then may chat once.
AgentInv ==
  /\ input \in {0, turn} /\ agent.on \in {0, turn} /\ (input = 0 \/ agent.on = 0)
  /\ turn # 0 /\ Has(stream, MarkerOf(turn)) => input = 0 /\ agent.on = 0
  /\ input # 0 \/ agent.on # 0 => (echo => Has(stream, EchoOf(turn)))
  /\ agent.chatter # 0 => /\ Has(stream, MarkerOf(agent.chatter))
                          /\ ~Has(stream, ChatterOf(agent.chatter))

Busy == {"write", "check", "wait"}

\* Every turn so far has been answered, except the one in progress.
TurnInv ==
  /\ conv \in Busy => /\ turn # 0 /\ Len(answers) = turn - 1
                      /\ echo => Has(stream, EchoOf(turn))
  /\ conv = "idle" => /\ Len(answers) = turn
                      /\ turn # 0 => Has(stream, MarkerOf(turn))

\* The buffer, what the pump holds, the channel, what the reader holds and the
\* terminal are consecutive pieces of the output: the first begins after
\* place b, the second after t, the channel's after the places c, the
\* reader's after the last of these and the terminal's after k.
Pieces(b, t, c, k) ==
  /\ b <= t /\ t <= c[1] /\ c[Len(outputCh) + 1] <= k
  /\ \A i \in 1..Len(outputCh) : c[i] <= c[i + 1]
  /\ buffer = SubSeq(stream, b + 1, t)
  /\ taken = SubSeq(stream, t + 1, c[1])
  /\ \A i \in 1..Len(outputCh) : outputCh[i] = SubSeq(stream, c[i] + 1, c[i + 1])
  /\ chunk = SubSeq(stream, c[Len(outputCh) + 1] + 1, k)
  /\ tty = SubSeq(stream, k + 1, Len(stream))

\* Everything of the current turn, and of the earlier ones only chatter, comes
\* after place b.
Since(b) ==
  /\ conv \in Busy =>
       /\ \A q \in 1..Len(stream) : q <= b => stream[q].turn < turn
       /\ \A q \in 1..Len(stream) : b < q /\ stream[q].kind # "chatter" => stream[q].turn = turn
  /\ conv = "idle" => \A q \in 1..Len(stream) : b < q => stream[q].kind = "chatter"

Cuts == [1..Len(outputCh) + 1 -> 0..Len(stream)]

PipeInv ==
  /\ reader # "send" => chunk = <<>>
  /\ pump # "store" => taken = <<>>
  /\ \E b, t, k \in 0..Len(stream) : \E c \in Cuts : Pieces(b, t, c, k) /\ Since(b)

\* Answer n is the output between places a and z: after the echo of its
\* envelope, if there is one, and up to its marker, with all of the reply.
AnswerAt(n, a, z) ==
  /\ a <= z /\ answers[n] = SubSeq(stream, a + 1, z)
  /\ z < Len(stream) /\ stream[z + 1] = MarkerOf(n)
  /\ echo => a # 0 /\ stream[a] = EchoOf(n)
  /\ \A q \in 1..Len(stream) : stream[q] = TextOf(n) => a < q /\ q <= z
  /\ \A q \in a + 1 .. z : \/ stream[q] = TextOf(n)
                           \/ stream[q].kind = "chatter" /\ stream[q].turn < n

AnswersInv == \A n \in DOMAIN answers : \E a, z \in 0..Len(stream) : AnswerAt(n, a, z)

ProcessInv == Story(stream, turn, echo) /\ AgentInv /\ TurnInv /\ PipeInv /\ AnswersInv

\* Items are told apart by their kinds and turns.
LEMMA Items ==
  /\ \A x \in Item : x.kind \in {"echo", "text", "marker", "chatter"} /\ x.turn \in 1..Turns
  /\ \A x \in Item : \A n : x = EchoOf(n) <=> x.kind = "echo" /\ x.turn = n
  /\ \A x \in Item : \A n : x = TextOf(n) <=> x.kind = "text" /\ x.turn = n
  /\ \A x \in Item : \A n : x = MarkerOf(n) <=> x.kind = "marker" /\ x.turn = n
  /\ \A x \in Item : \A n : x = ChatterOf(n) <=> x.kind = "chatter" /\ x.turn = n
  /\ \A x, y \in Item : x.kind = y.kind /\ x.turn = y.turn => x = y
  BY DEF Item, EchoOf, TextOf, MarkerOf, ChatterOf

LEMMA Grown ==
  ASSUME NEW s \in Seq(Item), NEW x \in Item, NEW g, g = Append(s, x)
  PROVE  /\ g \in Seq(Item) /\ Len(s) \in Nat /\ Len(g) = Len(s) + 1
         /\ \A q \in 1..Len(s) : g[q] = s[q]
         /\ g[Len(s) + 1] = x
         /\ \A q \in 1..Len(g) : q \in 1..Len(s) \/ q = Len(s) + 1
         /\ \A y : Has(g, y) <=> Has(s, y) \/ x = y
<1>1. /\ g \in Seq(Item) /\ Len(s) \in Nat /\ Len(g) = Len(s) + 1
      /\ \A q \in 1..Len(s) : g[q] = s[q]
      /\ g[Len(s) + 1] = x
  OBVIOUS
<1>2. \A q \in 1..Len(g) : q \in 1..Len(s) \/ q = Len(s) + 1
  BY <1>1
<1>3. Len(s) + 1 \in 1..Len(g) /\ \A q \in 1..Len(s) : q \in 1..Len(g)
  BY <1>1
<1>4. QED
  BY <1>1, <1>2, <1>3 DEF Has

\* What may be put out next.
Fits(s, n, echoes, x) ==
  /\ x.turn <= n
  /\ x.kind = "echo" => echoes /\ x.turn = n /\ \A q \in 1..Len(s) : s[q].turn < n
  /\ x.kind \in {"text", "marker"} => /\ x.turn = n /\ ~Has(s, MarkerOf(n))
                                      /\ echoes => Has(s, EchoOf(n))
  /\ x.kind = "chatter" => Has(s, MarkerOf(x.turn)) /\ ~Has(s, x)

LEMMA HasGrown ==
  ASSUME NEW s \in Seq(Item), NEW x \in Item
  PROVE  \A y : Has(Append(s, x), y) <=> Has(s, y) \/ x = y
  BY Grown

LEMMA StoryGoesOn ==
  ASSUME NEW s \in Seq(Item), NEW n \in Nat, NEW e, Story(s, n, e),
         NEW x \in Item, Fits(s, n, e, x), NEW g, g = Append(s, x)
  PROVE  Story(g, n, e)
<1> USE Items
<1>1. /\ g \in Seq(Item) /\ Len(s) \in Nat /\ Len(g) = Len(s) + 1
      /\ \A q \in 1..Len(s) : g[q] = s[q] /\ s[q] \in Item
      /\ g[Len(s) + 1] = x
      /\ \A q \in 1..Len(g) : q \in 1..Len(s) \/ q = Len(s) + 1
      /\ \A q \in 1..Len(s) : q \in 1..Len(g)
  BY Grown
<1>2. \A q \in 1..Len(g) : g[q].turn <= n /\ (g[q].kind = "echo" => e)
  BY <1>1 DEF Story, Fits
<1>3. \A q, r \in 1..Len(g) : g[q].kind \in {"echo", "chatter"} /\ g[q] = g[r] => q = r
  <2>1. x.kind \in {"echo", "chatter"} => \A q \in 1..Len(s) : s[q] # x
    BY <1>1 DEF Fits, Has
  <2>2. QED
    BY <1>1, <2>1 DEF Story
<1>4. ASSUME NEW q \in 1..Len(g), g[q].kind \in {"text", "marker"}
      PROVE  /\ e => \E p \in 1..Len(g) : p < q /\ g[p] = EchoOf(g[q].turn)
             /\ \A p \in 1..Len(g) : g[p] = EchoOf(g[q].turn) => p < q
  <2>1. CASE q \in 1..Len(s)
    <3>1. x # EchoOf(s[q].turn)
      BY <1>1, <1>4, <2>1 DEF Story, Fits
    <3>2. QED
      BY <1>1, <1>4, <2>1, <3>1 DEF Story
  <2>2. CASE q = Len(s) + 1
    <3>1. \A p \in 1..Len(s) : p < q
      BY <1>1, <2>2
    <3>2. g[q] = x /\ x # EchoOf(x.turn)
      BY <1>1, <1>4, <2>2
    <3>3. e => Has(s, EchoOf(x.turn))
      BY <1>4, <3>2 DEF Fits
    <3>4. QED
      BY <1>1, <3>1, <3>2, <3>3 DEF Has
  <2>3. QED
    BY <1>1, <2>1, <2>2
<1>5. ASSUME NEW q \in 1..Len(g), g[q].kind = "chatter"
      PROVE  \E p \in 1..Len(g) : p < q /\ g[p] = MarkerOf(g[q].turn)
  <2>1. CASE q \in 1..Len(s)
    BY <1>1, <1>5, <2>1 DEF Story
  <2>2. CASE q = Len(s) + 1
    <3>1. Has(s, MarkerOf(x.turn)) /\ g[q] = x
      BY <1>1, <1>5, <2>2 DEF Fits
    <3>2. QED
      BY <1>1, <2>2, <3>1 DEF Has
  <2>3. QED
    BY <1>1, <2>1, <2>2
<1>6. \A q, r \in 1..Len(g) : g[q] = MarkerOf(n) /\ q < r => g[r].kind = "chatter"
  <2> SUFFICES ASSUME NEW q \in 1..Len(g), NEW r \in 1..Len(g), g[q] = MarkerOf(n), q < r
               PROVE  g[r].kind = "chatter"
    OBVIOUS
  <2>1. q \in 1..Len(s) /\ s[q] = MarkerOf(n)
    BY <1>1
  <2>2. CASE r \in 1..Len(s)
    BY <1>1, <2>1, <2>2 DEF Story
  <2>3. CASE r = Len(s) + 1
    <3>1. s[q].turn = n /\ Has(s, MarkerOf(n))
      BY <1>1, <2>1 DEF Has
    <3>2. x.kind # "echo" /\ x.kind \notin {"text", "marker"}
      BY <2>1, <3>1 DEF Fits
    <3>3. QED
      BY <1>1, <2>3, <3>2
  <2>4. QED
    BY <1>1, <2>2, <2>3
<1>7. QED
  BY <1>2, <1>3, <1>4, <1>5, <1>6 DEF Story

LEMMA StoryTurnsOver ==
  ASSUME NEW s \in Seq(Item), NEW n \in Nat, NEW e, Story(s, n, e)
  PROVE  Story(s, n + 1, e) /\ \A q \in 1..Len(s) : s[q].turn < n + 1
<1>1. \A q \in 1..Len(s) : s[q] \in Item /\ s[q].turn \in Nat /\ s[q].turn <= n
  BY Items, ProcessAssumption DEF Story
<1>2. \A q \in 1..Len(s) : s[q].turn < n + 1 /\ s[q].turn <= n + 1 /\ s[q] # MarkerOf(n + 1)
  BY <1>1, Items
<1>3. QED
  BY <1>2 DEF Story

-----------------------------------------------------------------------------
\* Pieces of the output.

LEMMA PieceOfMore ==
  ASSUME NEW s \in Seq(Item), NEW x \in Item, NEW m \in Nat, NEW n \in Nat, m <= n, n <= Len(s)
  PROVE  SubSeq(Append(s, x), m + 1, n) = SubSeq(s, m + 1, n)
<1> DEFINE g == Append(s, x)
<1>1. g \in Seq(Item) /\ Len(g) = Len(s) + 1 /\ \A q \in 1..Len(s) : g[q] = s[q]
  OBVIOUS
<1> HIDE DEF g
<1>2. /\ SubSeq(g, m + 1, n) \in Seq(Item) /\ Len(SubSeq(g, m + 1, n)) = n - m
      /\ \A i \in 1..n - m : SubSeq(g, m + 1, n)[i] = g[m + i]
  BY <1>1, Piece
<1>3. /\ SubSeq(s, m + 1, n) \in Seq(Item) /\ Len(SubSeq(s, m + 1, n)) = n - m
      /\ \A i \in 1..n - m : SubSeq(s, m + 1, n)[i] = s[m + i]
  BY Piece
<1>4. \A i \in 1..n - m : m + i \in 1..Len(s)
  OBVIOUS
<1>5. \A i \in 1..n - m : SubSeq(g, m + 1, n)[i] = SubSeq(s, m + 1, n)[i]
  BY <1>1, <1>2, <1>3, <1>4
<1>6. SubSeq(g, m + 1, n) = SubSeq(s, m + 1, n)
  BY <1>2, <1>3, <1>5, SeqEqual
<1>7. QED
  BY <1>6 DEF g

LEMMA LastPieceGrows ==
  ASSUME NEW s \in Seq(Item), NEW x \in Item, NEW m \in Nat, m <= Len(s)
  PROVE  SubSeq(Append(s, x), m + 1, Len(s) + 1) = Append(SubSeq(s, m + 1, Len(s)), x)
<1> DEFINE g == Append(s, x)
           old == SubSeq(s, m + 1, Len(s))
           new == SubSeq(g, m + 1, Len(s) + 1)
<1>1. /\ g \in Seq(Item) /\ Len(g) = Len(s) + 1 /\ \A q \in 1..Len(s) : g[q] = s[q]
      /\ g[Len(s) + 1] = x /\ Len(s) \in Nat
  OBVIOUS
<1>2. /\ new \in Seq(Item) /\ Len(new) = Len(s) + 1 - m
      /\ \A i \in 1..Len(s) + 1 - m : new[i] = g[m + i]
  <2> HIDE DEF g
  <2>1. Len(s) + 1 \in Nat /\ m <= Len(s) + 1
    BY <1>1
  <2>2. QED
    BY <1>1, <2>1, Piece
<1>3. /\ old \in Seq(Item) /\ Len(old) = Len(s) - m
      /\ \A i \in 1..Len(s) - m : old[i] = s[m + i]
  BY <1>1, Piece
<1> HIDE DEF g, old, new
<1>4. /\ Append(old, x) \in Seq(Item) /\ Len(Append(old, x)) = Len(s) - m + 1
      /\ \A i \in 1..Len(s) - m : Append(old, x)[i] = old[i]
      /\ Append(old, x)[Len(s) - m + 1] = x
  BY <1>1, <1>3
<1>5. \A i \in 1..Len(s) + 1 - m : Append(old, x)[i] = new[i]
  <2> TAKE i \in 1..Len(s) + 1 - m
  <2>1. CASE i \in 1..Len(s) - m
    <3>1. m + i \in 1..Len(s)
      BY <1>1, <2>1
    <3>2. Append(old, x)[i] = s[m + i]
      BY <1>3, <1>4, <2>1
    <3>3. new[i] = s[m + i]
      BY <1>1, <1>2, <3>1
    <3>4. QED
      BY <3>2, <3>3
  <2>2. CASE i = Len(s) - m + 1
    BY <1>1, <1>2, <1>4, <2>2
  <2>3. i \in 1..Len(s) - m \/ i = Len(s) - m + 1
    BY <1>1
  <2>4. QED
    BY <2>1, <2>2, <2>3
<1>6. Len(s) + 1 - m = Len(s) - m + 1
  BY <1>1
<1>7. new = Append(old, x)
  BY <1>2, <1>4, <1>5, <1>6, SeqEqual
<1>8. QED
  BY <1>7 DEF g, old, new

LEMMA PiecesJoin ==
  ASSUME NEW s \in Seq(Item), NEW a \in Nat, NEW b \in Nat, NEW z \in Nat,
         a <= b, b <= z, z <= Len(s)
  PROVE  SubSeq(s, a + 1, b) \o SubSeq(s, b + 1, z) = SubSeq(s, a + 1, z)
<1>1. a + 1 \in 1..Len(s) + 1 /\ b \in (a + 1) - 1 .. Len(s) /\ z \in b..Len(s)
  OBVIOUS
<1>2. QED
  BY <1>1, ConcatAdjacentSubSeq

LEMMA PieceOfPiece ==
  ASSUME NEW s \in Seq(Item), NEW a \in Nat, NEW b \in Nat, a <= b, b <= Len(s),
         NEW m \in Nat, NEW n \in Nat, m <= n, n <= b - a
  PROVE  SubSeq(SubSeq(s, a + 1, b), m + 1, n) = SubSeq(s, (a + m) + 1, a + n)
<1> DEFINE u == SubSeq(s, a + 1, b)
           v == SubSeq(u, m + 1, n)
           w == SubSeq(s, (a + m) + 1, a + n)
<1>1. u \in Seq(Item) /\ Len(u) = b - a /\ \A i \in 1..b - a : u[i] = s[a + i]
  BY Piece
<1>2. v \in Seq(Item) /\ Len(v) = n - m /\ \A i \in 1..n - m : v[i] = u[m + i]
  <2> HIDE DEF u
  <2>1. QED
    BY <1>1, Piece
<1>3. w \in Seq(Item) /\ Len(w) = n - m /\ \A i \in 1..n - m : w[i] = s[(a + m) + i]
  <2>1. a + m \in Nat /\ a + n \in Nat /\ a + m <= a + n /\ a + n <= Len(s)
        /\ (a + n) - (a + m) = n - m
    OBVIOUS
  <2>2. QED
    BY <2>1, Piece
<1> HIDE DEF u, v, w
<1>4. \A i \in 1..n - m : m + i \in 1..b - a /\ a + (m + i) = (a + m) + i
  OBVIOUS
<1>5. \A i \in 1..n - m : v[i] = w[i]
  BY <1>1, <1>2, <1>3, <1>4
<1>6. v = w
  BY <1>2, <1>3, <1>5, SeqEqual
<1>7. QED
  BY <1>6 DEF u, v, w

-----------------------------------------------------------------------------
\* The steps.

\* What the buffer holds has been put out.
LEMMA BufferWasPutOut ==
  ASSUME TypeOK, PipeInv, NEW i \in 1..Len(buffer)
  PROVE  Has(stream, buffer[i])
<1>1. PICK b \in 0..Len(stream), t \in 0..Len(stream) :
        b <= t /\ buffer = SubSeq(stream, b + 1, t)
  BY DEF PipeInv, Pieces
<1>2. stream \in Seq(Item) /\ Len(stream) \in Nat
  BY DEF TypeOK
<1>3. Len(buffer) = t - b /\ \A j \in 1..t - b : buffer[j] = stream[b + j]
  BY <1>1, <1>2, Piece
<1>4. b + i \in 1..Len(stream) /\ buffer[i] = stream[b + i]
  <2>1. i \in 1..t - b
    BY <1>3
  <2>2. b + i \in 1..Len(stream)
    BY <1>1, <1>2, <2>1
  <2>3. QED
    BY <1>3, <2>1, <2>2
<1>5. QED
  BY <1>4 DEF Has

\* A step of the turn that neither begins nor answers it.
ConvStays == \/ conv' = conv
             \/ conv \in Busy /\ conv' \in Busy
             \/ conv' = "failed"

Talk == AgentReads \/ AgentSays \/ AgentChats \/ TurnBegins \/ TurnAnswered

Move == ReaderReads \/ ReaderSends \/ PumpTakes \/ PumpStores

\* The steps that are not part of the conversation leave its record alone.
LEMMA NoTalk ==
  ASSUME TypeOK, [Next]_vars, ~Talk
  PROVE  UNCHANGED <<stream, turn, echo, input, agent, answers>> /\ ConvStays
<1> USE DEF agentVars, procVars, pumpVars, turnVars, ConvStays, Talk, Busy
<1>1. CASE Agent
  BY <1>1 DEF Agent, AgentDetaches, AgentExits
<1>2. CASE Reader
  BY <1>2 DEF Reader, ReaderReads, ReaderSends, ReaderEnds
<1>3. CASE Waiter
  BY <1>3 DEF Waiter, WaiterCloses, WaiterReports
<1>4. CASE Pump
  BY <1>4 DEF Pump, PumpTakes, PumpStores, PumpSeesEnd, PumpMarks, Woken
<1>5. CASE ConverseTurn
  BY <1>5 DEF ConverseTurn, WriteReturns, WriteFails, TurnFails, TurnWaits
<1>6. CASE CloseBegins \/ Close \/ ContextEnds
  BY <1>6 DEF CloseBegins, Close, ContextEnds, TerminateInterrupts, TerminateSeesExit,
              TerminateKills, CloseJoins
<1>7. CASE \E n \in 1..Turns : Watcher(n) \/ DeadlinePasses(n)
  BY <1>7 DEF Watcher, WatcherStops, WatcherFires, WatcherBroadcasts, DeadlinePasses, Woken
<1>8. CASE UNCHANGED vars
  BY <1>8 DEF vars
<1>9. QED
  BY <1>1, <1>2, <1>3, <1>4, <1>5, <1>6, <1>7, <1>8 DEF Next

\* The others leave the pieces of the output where they are.
LEMMA NoMove ==
  ASSUME TypeOK, [Next]_vars, ~Talk, ~Move
  PROVE  /\ UNCHANGED <<buffer, taken, outputCh, chunk, tty>>
         /\ pump = "store" => pump' = "store"
         /\ reader = "send" => reader' = "send"
<1> USE DEF agentVars, procVars, pumpVars, turnVars, Talk, Move
<1>1. CASE Agent
  BY <1>1 DEF Agent, AgentDetaches, AgentExits
<1>2. CASE Reader
  BY <1>2 DEF Reader, ReaderEnds
<1>3. CASE Waiter
  BY <1>3 DEF Waiter, WaiterCloses, WaiterReports
<1>4. CASE Pump
  BY <1>4 DEF Pump, PumpSeesEnd, PumpMarks
<1>5. CASE ConverseTurn
  BY <1>5 DEF ConverseTurn, WriteReturns, WriteFails, TurnFails, TurnWaits
<1>6. CASE CloseBegins \/ Close \/ ContextEnds
  BY <1>6 DEF CloseBegins, Close, ContextEnds, TerminateInterrupts, TerminateSeesExit,
              TerminateKills, CloseJoins
<1>7. CASE \E n \in 1..Turns : Watcher(n) \/ DeadlinePasses(n)
  BY <1>7 DEF Watcher, WatcherStops, WatcherFires, WatcherBroadcasts, DeadlinePasses
<1>8. CASE UNCHANGED vars
  BY <1>8 DEF vars
<1>9. QED
  BY <1>1, <1>2, <1>3, <1>4, <1>5, <1>6, <1>7, <1>8 DEF Next

\* What an action that puts something out puts out, and why it may.
LEMMA SaysFits ==
  ASSUME TypeOK, AgentInv, TurnInv, AgentSays
  PROVE  /\ agent.on = turn /\ turn \in 1..Turns /\ conv # "idle"
         /\ ~Has(stream, MarkerOf(turn))
         /\ \/ /\ PutOut(TextOf(turn)) /\ Fits(stream, turn, echo, TextOf(turn))
               /\ agent'.on = agent.on /\ agent'.chatter = agent.chatter
            \/ /\ PutOut(MarkerOf(turn)) /\ Fits(stream, turn, echo, MarkerOf(turn))
               /\ agent'.on = 0 /\ agent'.chatter = turn
<1>1. agent.on = turn /\ turn \in 1..Turns
  BY ProcessAssumption DEF AgentSays, AgentInv, TypeOK
<1>2. turn # 0 /\ turn <= turn /\ TextOf(turn).turn = turn /\ MarkerOf(turn).turn = turn
      /\ TextOf(turn).kind = "text" /\ MarkerOf(turn).kind = "marker"
  BY <1>1, ProcessAssumption DEF TextOf, MarkerOf
<1>3. ~Has(stream, MarkerOf(turn)) /\ (echo => Has(stream, EchoOf(turn)))
  BY <1>1, <1>2 DEF AgentSays, AgentInv
<1>4. Fits(stream, turn, echo, TextOf(turn)) /\ Fits(stream, turn, echo, MarkerOf(turn))
  BY <1>2, <1>3 DEF Fits
<1>5. \/ PutOut(TextOf(turn)) /\ agent'.on = agent.on /\ agent'.chatter = agent.chatter
      \/ PutOut(MarkerOf(turn)) /\ agent'.on = 0 /\ agent'.chatter = turn
  BY <1>1 DEF AgentSays, TypeOK
<1>6. conv # "idle"
  BY <1>2, <1>3 DEF TurnInv
<1>7. QED
  BY <1>1, <1>3, <1>4, <1>5, <1>6

LEMMA ChatsFits ==
  ASSUME TypeOK, Story(stream, turn, echo), AgentInv, AgentChats
  PROVE  /\ agent.chatter \in 1..Turns /\ PutOut(ChatterOf(agent.chatter))
         /\ Fits(stream, turn, echo, ChatterOf(agent.chatter))
         /\ agent'.on = agent.on /\ agent'.chatter = 0
<1>1. agent.chatter \in 1..Turns /\ PutOut(ChatterOf(agent.chatter))
      /\ agent'.on = agent.on /\ agent'.chatter = 0
  BY ProcessAssumption DEF AgentChats, TypeOK
<1>2. Has(stream, MarkerOf(agent.chatter)) /\ ~Has(stream, ChatterOf(agent.chatter))
  BY <1>1 DEF AgentInv
<1>3. agent.chatter <= turn
  <2>1. PICK q \in 1..Len(stream) : stream[q] = MarkerOf(agent.chatter)
    BY <1>2 DEF Has
  <2>2. stream[q].turn = agent.chatter /\ stream[q].turn <= turn
    BY <2>1 DEF Story, MarkerOf
  <2>3. QED
    BY <2>2
<1>4. ChatterOf(agent.chatter).kind = "chatter" /\ ChatterOf(agent.chatter).turn = agent.chatter
  BY DEF ChatterOf
<1>5. Fits(stream, turn, echo, ChatterOf(agent.chatter))
  BY <1>2, <1>3, <1>4 DEF Fits
<1>6. QED
  BY <1>1, <1>5

LEMMA BeginsFits ==
  ASSUME TypeOK, Story(stream, turn, echo), TurnBegins
  PROVE  /\ turn + 1 \in 1..Turns /\ turn' = turn + 1 /\ echo' = echo
         /\ Story(stream, turn + 1, echo)
         /\ \A q \in 1..Len(stream) : stream[q].turn < turn + 1
         /\ \/ UNCHANGED <<stream, tty>> /\ (conv' = "failed" \/ ~echo)
            \/ /\ PutOut(EchoOf(turn + 1)) /\ echo /\ conv' = "write"
               /\ Fits(stream, turn + 1, echo, EchoOf(turn + 1))
<1>1. turn \in Nat /\ turn + 1 \in 1..Turns /\ stream \in Seq(Item) /\ turn + 1 <= turn + 1
  BY ProcessAssumption DEF TypeOK, TurnBegins
<1>2. Story(stream, turn + 1, echo) /\ \A q \in 1..Len(stream) : stream[q].turn < turn + 1
  BY <1>1, StoryTurnsOver
<1>3. EchoOf(turn + 1).turn = turn + 1 /\ EchoOf(turn + 1).kind = "echo"
  BY DEF EchoOf
<1>4. echo => Fits(stream, turn + 1, echo, EchoOf(turn + 1))
  BY <1>1, <1>2, <1>3 DEF Fits
<1>5. \/ UNCHANGED <<stream, tty>> /\ (conv' = "failed" \/ ~echo)
      \/ PutOut(EchoOf(turn + 1)) /\ echo /\ conv' = "write"
  BY DEF TurnBegins
<1>6. QED
  BY <1>1, <1>2, <1>4, <1>5 DEF TurnBegins

LEMMA StoryStep ==
  ASSUME TypeOK, Story(stream, turn, echo), AgentInv, TurnInv, PipeInv, [Next]_vars
  PROVE  Story(stream, turn, echo)' /\ AgentInv' /\ TurnInv'
<1>1. stream \in Seq(Item) /\ turn \in Nat /\ Turns \in Nat
  BY ProcessAssumption DEF TypeOK
<1>2. \A n \in 1..Turns : /\ EchoOf(n) \in Item /\ TextOf(n) \in Item /\ MarkerOf(n) \in Item
                          /\ ChatterOf(n) \in Item
  BY DEF EchoOf, TextOf, MarkerOf, ChatterOf, Item
<1>3. \A m, n : /\ MarkerOf(m) # TextOf(n) /\ MarkerOf(m) # EchoOf(n) /\ MarkerOf(m) # ChatterOf(n)
                /\ ChatterOf(m) # TextOf(n) /\ ChatterOf(m) # EchoOf(n)
                /\ MarkerOf(m) = MarkerOf(n) => m = n
                /\ ChatterOf(m) = ChatterOf(n) => m = n
  BY DEF EchoOf, TextOf, MarkerOf, ChatterOf
<1> USE DEF agentVars, procVars, pumpVars, turnVars
<1>4. CASE AgentReads
  <2>1. /\ UNCHANGED <<stream, turn, echo, conv, answers>>
        /\ input # 0 /\ agent.on = 0 /\ input' = 0 /\ agent'.on = input
        /\ agent'.chatter = agent.chatter
    BY <1>4 DEF AgentReads, TypeOK
  <2>2. Story(stream, turn, echo)'
    BY <2>1
  <2>3. AgentInv'
    BY <2>1 DEF AgentInv
  <2>4. TurnInv'
    BY <2>1 DEF TurnInv
  <2>5. QED
    BY <2>2, <2>3, <2>4
<1>5. CASE AgentSays
  <2>1. UNCHANGED <<turn, echo, input, conv, answers>>
    BY <1>5 DEF AgentSays
  <2>2. /\ agent.on = turn /\ turn \in 1..Turns /\ conv # "idle" /\ ~Has(stream, MarkerOf(turn))
        /\ \/ /\ PutOut(TextOf(turn)) /\ Fits(stream, turn, echo, TextOf(turn))
              /\ agent'.on = agent.on /\ agent'.chatter = agent.chatter
           \/ /\ PutOut(MarkerOf(turn)) /\ Fits(stream, turn, echo, MarkerOf(turn))
              /\ agent'.on = 0 /\ agent'.chatter = turn
    BY <1>5, SaysFits
  <2>3. input = 0 /\ (echo => Has(stream, EchoOf(turn))) /\ turn # 0
    BY <1>1, <2>2 DEF AgentInv
  <2>4. PICK x \in Item : x \in {TextOf(turn), MarkerOf(turn)} /\ Fits(stream, turn, echo, x)
                          /\ stream' = Append(stream, x)
    BY <1>2, <2>2 DEF PutOut
  <2>5. Story(stream, turn, echo)'
    BY <1>1, <2>1, <2>4, StoryGoesOn
  <2>6. \A y : Has(stream', y) <=> Has(stream, y) \/ x = y
    BY <1>1, <2>4, Grown
  <2>7. TurnInv'
    BY <2>1, <2>2, <2>6 DEF TurnInv
  <2>8. ~Has(stream, ChatterOf(turn))
    <3>1. \A q \in 1..Len(stream) : stream[q] \in Item
      BY <1>1
    <3>2. ASSUME NEW q \in 1..Len(stream), stream[q] = ChatterOf(turn) PROVE FALSE
      <4>1. stream[q].kind = "chatter" /\ stream[q].turn = turn
        BY <3>2 DEF ChatterOf
      <4>2. Has(stream, MarkerOf(turn))
        BY <4>1 DEF Story, Has
      <4>3. QED
        BY <2>2, <4>2
    <3>3. QED
      BY <3>2 DEF Has
  <2>9. AgentInv'
    <3>1. CASE PutOut(TextOf(turn)) /\ agent'.on = agent.on /\ agent'.chatter = agent.chatter
      <4>1. stream' = Append(stream, TextOf(turn)) /\ TextOf(turn) \in Item
        BY <1>2, <2>2, <3>1 DEF PutOut
      <4>2. \A y : Has(stream', y) <=> Has(stream, y) \/ TextOf(turn) = y
        BY <1>1, <4>1, HasGrown, Zenon
      <4>3. QED
        BY <1>3, <2>1, <2>2, <2>3, <3>1, <4>2 DEF AgentInv
    <3>2. CASE PutOut(MarkerOf(turn)) /\ agent'.on = 0 /\ agent'.chatter = turn
      <4>1. stream' = Append(stream, MarkerOf(turn)) /\ MarkerOf(turn) \in Item
        BY <1>2, <2>2, <3>2 DEF PutOut
      <4>2. \A y : Has(stream', y) <=> Has(stream, y) \/ MarkerOf(turn) = y
        BY <1>1, <4>1, HasGrown, Zenon
      <4>3. QED
        BY <1>3, <2>1, <2>3, <2>8, <3>2, <4>2 DEF AgentInv
    <3>3. QED
      BY <2>2, <3>1, <3>2
  <2>10. QED
    BY <2>5, <2>7, <2>9
<1>6. CASE AgentChats
  <2>1. UNCHANGED <<turn, echo, input, conv, answers>>
    BY <1>6 DEF AgentChats
  <2> DEFINE x == ChatterOf(agent.chatter)
  <2>2. /\ x \in Item /\ stream' = Append(stream, x) /\ Fits(stream, turn, echo, x)
        /\ agent'.on = agent.on /\ agent'.chatter = 0
    BY <1>2, <1>6, ChatsFits DEF PutOut
  <2>3. \A n : x # MarkerOf(n) /\ x # EchoOf(n)
    BY <1>3
  <2> HIDE DEF x
  <2>4. Story(stream, turn, echo)'
    BY <1>1, <2>1, <2>2, StoryGoesOn
  <2>5. \A y : Has(stream', y) <=> Has(stream, y) \/ x = y
    BY <1>1, <2>2, HasGrown, Zenon
  <2>6. AgentInv'
    BY <2>1, <2>2, <2>3, <2>5 DEF AgentInv
  <2>7. TurnInv'
    BY <2>1, <2>3, <2>5 DEF TurnInv
  <2>8. QED
    BY <2>4, <2>6, <2>7
<1>7. CASE TurnBegins
  <2>1. /\ conv = "idle" /\ UNCHANGED <<agent, answers, echo>> /\ turn' = turn + 1
        /\ conv' \in {"failed", "write"}
        /\ conv' = "failed" => input' = input
        /\ conv' = "write" => input' = turn + 1
    BY <1>7 DEF TurnBegins
  <2>2. /\ turn + 1 \in 1..Turns /\ Story(stream, turn + 1, echo)
        /\ \A q \in 1..Len(stream) : stream[q].turn < turn + 1
        /\ \/ UNCHANGED <<stream, tty>> /\ (conv' = "failed" \/ ~echo)
           \/ /\ PutOut(EchoOf(turn + 1)) /\ echo /\ conv' = "write"
              /\ Fits(stream, turn + 1, echo, EchoOf(turn + 1))
    BY <1>7, BeginsFits
  <2>3. input = 0 /\ agent.on = 0 /\ Len(answers) = turn
    BY <1>1, <2>1 DEF AgentInv, TurnInv
  <2>4. ~Has(stream, MarkerOf(turn + 1))
    BY <1>1, <2>2 DEF Has, MarkerOf
  <2>5. turn + 1 # 0 /\ turn + 1 - 1 = turn
    BY <1>1
  <2>6. CASE UNCHANGED <<stream, tty>> /\ (conv' = "failed" \/ ~echo)
    <3>1. Story(stream, turn, echo)'
      BY <2>1, <2>2, <2>6
    <3>2. AgentInv'
      BY <2>1, <2>3, <2>4, <2>5, <2>6 DEF AgentInv
    <3>3. TurnInv'
      BY <2>1, <2>3, <2>5, <2>6 DEF TurnInv, Busy
    <3>4. QED
      BY <3>1, <3>2, <3>3
  <2>7. CASE /\ PutOut(EchoOf(turn + 1)) /\ echo /\ conv' = "write"
             /\ Fits(stream, turn + 1, echo, EchoOf(turn + 1))
    <3>1. stream' = Append(stream, EchoOf(turn + 1)) /\ EchoOf(turn + 1) \in Item
      BY <1>2, <2>2, <2>7 DEF PutOut
    <3>2. turn + 1 \in Nat
      BY <1>1
    <3>3. Story(stream', turn + 1, echo)
      BY <1>1, <2>2, <2>7, <3>1, <3>2, StoryGoesOn
    <3>4. \A y : Has(stream', y) <=> Has(stream, y) \/ EchoOf(turn + 1) = y
      <4>1. PICK x \in Item : x = EchoOf(turn + 1) /\ stream' = Append(stream, x)
        BY <3>1
      <4>2. \A y : Has(stream', y) <=> Has(stream, y) \/ x = y
        BY <1>1, <4>1, HasGrown, Zenon
      <4>3. QED
        BY <4>1, <4>2
    <3>5. AgentInv'
      BY <1>3, <2>1, <2>3, <2>4, <2>5, <2>7, <3>4 DEF AgentInv
    <3>6. TurnInv'
      BY <2>1, <2>3, <2>5, <2>7, <3>4 DEF TurnInv, Busy
    <3>7. QED
      BY <2>1, <3>3, <3>5, <3>6
  <2>8. QED
    BY <2>2, <2>6, <2>7
<1>8. CASE TurnAnswered
  <2>1. /\ conv = "check" /\ Finding = "reply" /\ conv' = "idle"
        /\ UNCHANGED <<stream, turn, echo, input, agent>>
        /\ \E a : answers' = Append(answers, a)
    BY <1>8 DEF TurnAnswered
  <2>2. Len(answers') = Len(answers) + 1
    BY <2>1 DEF TypeOK
  <2>3. Has(stream, MarkerOf(turn))
    <3>1. MarkerAt(buffer, turn) # 0 /\ buffer \in Seq(Item)
      BY <2>1, Findings DEF TypeOK
    <3>2. MarkerAt(buffer, turn) \in 1..Len(buffer)
          /\ buffer[MarkerAt(buffer, turn)] = MarkerOf(turn)
      BY <3>1, MarkerFound
    <3>3. QED
      BY <3>2, BufferWasPutOut
  <2>4. Story(stream, turn, echo)' /\ AgentInv'
    BY <2>1 DEF AgentInv
  <2>5. turn # 0 /\ Len(answers) = turn - 1
    BY <2>1 DEF TurnInv, Busy
  <2>6. TurnInv'
    BY <1>1, <2>1, <2>2, <2>3, <2>5 DEF TurnInv, Busy
  <2>7. QED
    BY <2>4, <2>6
<1>9. CASE ~Talk
  <2>1. UNCHANGED <<stream, turn, echo, input, agent, answers>> /\ ConvStays
    BY <1>9, NoTalk
  <2>2. Story(stream, turn, echo)' /\ AgentInv'
    BY <2>1 DEF AgentInv
  <2>3. TurnInv'
    BY <2>1 DEF TurnInv, ConvStays, Busy
  <2>4. QED
    BY <2>2, <2>3
<1>10. QED
  BY <1>4, <1>5, <1>6, <1>7, <1>8, <1>9 DEF Talk

-----------------------------------------------------------------------------
\* The way of the output.

LEMMA Nothing ==
  ASSUME NEW s \in Seq(Item) PROVE s = <<>> <=> Len(s) = 0
  OBVIOUS

LEMMA NoPiece ==
  ASSUME NEW s \in Seq(Item), NEW m \in Nat, NEW n \in Nat, m <= n, n <= Len(s)
  PROVE  SubSeq(s, m + 1, n) = <<>> <=> m = n
<1>1. SubSeq(s, m + 1, n) \in Seq(Item) /\ Len(SubSeq(s, m + 1, n)) = n - m
  BY Piece
<1>2. SubSeq(s, m + 1, n) = <<>> <=> n - m = 0
  BY <1>1
<1>3. QED
  BY <1>2

LEMMA PiecesGrow ==
  ASSUME TypeOK, NEW x \in Item, PutOut(x), UNCHANGED <<buffer, taken, outputCh, chunk>>,
         NEW b \in 0..Len(stream), NEW t \in 0..Len(stream), NEW k \in 0..Len(stream),
         NEW c \in Cuts, Pieces(b, t, c, k)
  PROVE  /\ Pieces(b, t, c, k)' /\ c \in Cuts' /\ Len(stream') = Len(stream) + 1
         /\ b \in 0..Len(stream') /\ t \in 0..Len(stream') /\ k \in 0..Len(stream')
<1>1. /\ stream \in Seq(Item) /\ Len(stream) \in Nat /\ Len(outputCh) \in Nat
      /\ stream' = Append(stream, x) /\ tty' = Append(tty, x)
      /\ Len(stream') = Len(stream) + 1
  BY DEF TypeOK, PutOut
<1>2. \A m, n \in 0..Len(stream) : m <= n =>
        SubSeq(stream', m + 1, n) = SubSeq(stream, m + 1, n)
  BY <1>1, PieceOfMore
<1>3. tty' = SubSeq(stream', k + 1, Len(stream'))
  <2>1. tty = SubSeq(stream, k + 1, Len(stream)) /\ k \in Nat /\ k <= Len(stream)
    BY <1>1 DEF Pieces
  <2>2. QED
    BY <1>1, <2>1, LastPieceGrows
<1>4. /\ \A i \in 1..Len(outputCh) + 1 : c[i] \in 0..Len(stream)
      /\ \A i \in 1..Len(outputCh) : c[i] \in 0..Len(stream) /\ c[i + 1] \in 0..Len(stream)
      /\ c[1] \in 0..Len(stream) /\ c[Len(outputCh) + 1] \in 0..Len(stream)
  <2>1. \A i \in 1..Len(outputCh) + 1 : c[i] \in 0..Len(stream)
    BY DEF Cuts
  <2>2. \A i \in 1..Len(outputCh) : i \in 1..Len(outputCh) + 1 /\ i + 1 \in 1..Len(outputCh) + 1
    BY <1>1
  <2>3. 1 \in 1..Len(outputCh) + 1 /\ Len(outputCh) + 1 \in 1..Len(outputCh) + 1
    BY <1>1
  <2>4. QED
    BY <2>1, <2>2, <2>3
<1>5. b \in 0..Len(stream') /\ t \in 0..Len(stream') /\ k \in 0..Len(stream')
  BY <1>1
<1>6. c \in Cuts'
  BY <1>1 DEF Cuts
<1>7. Pieces(b, t, c, k)'
  BY <1>2, <1>3, <1>4 DEF Pieces
<1>8. QED
  BY <1>1, <1>5, <1>6, <1>7

LEMMA SinceStays ==
  ASSUME UNCHANGED <<stream, turn>>, ConvStays, NEW b, Since(b)
  PROVE  Since(b)'
  BY DEF Since, ConvStays, Busy

\* The pieces after a step of the reader or of the pump.
LEMMA PiecesMove ==
  ASSUME TypeOK, PipeInv, Move,
         NEW b \in 0..Len(stream), NEW t \in 0..Len(stream), NEW k \in 0..Len(stream),
         NEW c \in Cuts, Pieces(b, t, c, k)
  PROVE  \E t2, k2 \in 0..Len(stream) : \E c2 \in Cuts' : Pieces(b, t2, c2, k2)'
<1> DEFINE L == Len(outputCh)
<1>1. /\ stream \in Seq(Item) /\ Len(stream) \in Nat /\ L \in Nat
      /\ buffer \in Seq(Item) /\ tty \in Seq(Item) /\ chunk \in Seq(Item)
      /\ outputCh \in Seq(Seq(Item))
  BY DEF TypeOK
<1>2. /\ \A i \in 1..L + 1 : c[i] \in 0..Len(stream)
      /\ 1 \in 1..L + 1 /\ L + 1 \in 1..L + 1
  <2>1. \A i \in 1..L + 1 : c[i] \in 0..Len(stream)
    BY DEF Cuts
  <2>2. 1 \in 1..L + 1 /\ L + 1 \in 1..L + 1
    BY <1>1
  <2>3. QED
    BY <2>1, <2>2
<1>3. stream' = stream
  BY DEF Move, ReaderReads, ReaderSends, PumpTakes, PumpStores, agentVars
<1>4. CASE ReaderReads
  <2>1. PICK n \in 1..Len(tty) : chunk' = SubSeq(tty, 1, n) /\ tty' = SubSeq(tty, n + 1, Len(tty))
    BY <1>4 DEF ReaderReads
  <2>2. UNCHANGED <<buffer, taken, outputCh>> /\ chunk = <<>>
    BY <1>4 DEF ReaderReads, PipeInv, pumpVars
  <2>3. c[L + 1] = k
    <3>1. chunk = SubSeq(stream, c[L + 1] + 1, k) /\ c[L + 1] <= k
      BY DEF Pieces
    <3>2. c[L + 1] \in Nat /\ k \in Nat /\ k <= Len(stream)
      BY <1>1, <1>2
    <3>3. PICK m \in Nat : m = c[L + 1]
      BY <3>2
    <3>4. SubSeq(stream, m + 1, k) = <<>> <=> m = k
      <4>1. stream \in Seq(Item) /\ m <= k /\ k \in Nat /\ k <= Len(stream)
        BY <1>1, <3>1, <3>2, <3>3
      <4>2. /\ SubSeq(stream, m + 1, k) \in Seq(Item)
            /\ Len(SubSeq(stream, m + 1, k)) = k - m
        BY ONLY <3>3, <4>1, Piece
      <4>3. SubSeq(stream, m + 1, k) = <<>> <=> k - m = 0
        BY ONLY <4>2, Nothing, Zenon
      <4>4. QED
        BY ONLY <3>3, <4>1, <4>3
    <3>5. QED
      BY <2>2, <3>1, <3>3, <3>4
  <2>4. tty = SubSeq(stream, k + 1, Len(stream)) /\ Len(tty) = Len(stream) - k
    BY <1>1, Piece DEF Pieces
  <2>5. chunk' = SubSeq(stream, k + 1, k + n)
    <3>1. 0 \in Nat /\ 0 <= n /\ n <= Len(stream) - k /\ 0 + 1 = 1 /\ k + 0 = k
      BY <1>1, <2>1, <2>4
    <3>2. SubSeq(SubSeq(stream, k + 1, Len(stream)), 0 + 1, n) = SubSeq(stream, (k + 0) + 1, k + n)
      BY <1>1, <3>1, PieceOfPiece
    <3>3. QED
      BY <2>1, <2>4, <3>1, <3>2
  <2>6. tty' = SubSeq(stream, (k + n) + 1, Len(stream))
    <3>1. /\ n \in Nat /\ Len(stream) - k \in Nat /\ n <= Len(stream) - k
          /\ k + (Len(stream) - k) = Len(stream)
      BY <1>1, <2>1, <2>4
    <3>2. SubSeq(SubSeq(stream, k + 1, Len(stream)), n + 1, Len(stream) - k)
            = SubSeq(stream, (k + n) + 1, k + (Len(stream) - k))
      BY <1>1, <3>1, PieceOfPiece
    <3>3. QED
      BY <2>1, <2>4, <3>1, <3>2
  <2>7. k + n \in 0..Len(stream) /\ k <= k + n
    BY <1>1, <2>1, <2>4
  <2>8. c \in Cuts'
    BY <1>3, <2>2 DEF Cuts
  <2>9. Pieces(b, t, c, k + n)'
    BY <1>3, <2>2, <2>3, <2>5, <2>6, <2>7 DEF Pieces
  <2>10. QED
    BY <2>7, <2>8, <2>9
<1>5. CASE ReaderSends
  <2>1. UNCHANGED <<buffer, taken, tty>> /\ outputCh' = Append(outputCh, chunk) /\ chunk' = <<>>
    BY <1>5 DEF ReaderSends, pumpVars, agentVars
  <2>2. /\ Len(outputCh') = L + 1 /\ outputCh'[L + 1] = chunk
        /\ \A i \in 1..L : outputCh'[i] = outputCh[i]
    BY <1>1, <2>1
  <2>4. L + 1 + 1 = L + 2 /\ Len(outputCh') + 1 = L + 2
    BY <1>1, <2>2
  <2>3. PICK c2 \in Cuts' : (\A i \in 1..L + 1 : c2[i] = c[i]) /\ c2[L + 2] = k
    <3> DEFINE c2 == [i \in 1..L + 2 |-> IF i <= L + 1 THEN c[i] ELSE k]
    <3>1. (\A i \in 1..L + 1 : c2[i] = c[i]) /\ c2[L + 2] = k
      BY <1>1
    <3>2. c2 \in Cuts'
      BY <1>1, <1>2, <1>3, <2>4 DEF Cuts
    <3> HIDE DEF c2
    <3>3. QED
      BY <3>1, <3>2
  <2>6. SubSeq(stream, k + 1, k) = <<>>
    BY <1>1, NoPiece
  <2>7. \A i \in 1..L + 1 : c2[i] <= c2[i + 1] /\ outputCh'[i] = SubSeq(stream, c2[i] + 1, c2[i + 1])
    <3> TAKE i \in 1..L + 1
    <3>1. CASE i \in 1..L
      <4>1. i + 1 \in 1..L + 1
        BY <1>1, <3>1
      <4>2. QED
        BY <2>2, <2>3, <3>1, <4>1 DEF Pieces
    <3>2. CASE i = L + 1
      BY <2>2, <2>3, <2>4, <3>2 DEF Pieces
    <3>3. QED
      BY <1>1, <3>1, <3>2
  <2>8. Pieces(b, t, c2, k)'
    <3>1. b <= t /\ t <= c2[1] /\ c2[Len(outputCh') + 1] <= k
      BY <1>2, <2>3, <2>4 DEF Pieces
    <3>2. /\ buffer' = SubSeq(stream', b + 1, t) /\ taken' = SubSeq(stream', t + 1, c2[1])
          /\ chunk' = SubSeq(stream', c2[Len(outputCh') + 1] + 1, k)
          /\ tty' = SubSeq(stream', k + 1, Len(stream'))
      BY <1>2, <1>3, <2>1, <2>3, <2>4, <2>6 DEF Pieces
    <3>3. \A i \in 1..Len(outputCh') : /\ c2[i] <= c2[i + 1]
                                       /\ outputCh'[i] = SubSeq(stream', c2[i] + 1, c2[i + 1])
      BY <1>3, <2>2, <2>7
    <3>4. QED
      BY <3>1, <3>2, <3>3, Zenon DEF Pieces
  <2>9. QED
    BY <2>3, <2>8
<1>6. CASE PumpTakes
  <2>1. /\ UNCHANGED <<buffer, tty, chunk>> /\ taken = <<>> /\ outputCh # <<>>
        /\ taken' = Head(outputCh) /\ outputCh' = Tail(outputCh)
    BY <1>6 DEF PumpTakes, PipeInv, agentVars
  <2>2. /\ L \in Nat \ {0} /\ taken' = outputCh[1] /\ Len(outputCh') = L - 1
        /\ \A i \in 1..L - 1 : outputCh'[i] = outputCh[i + 1]
    BY <1>1, <2>1
  <2>3. t = c[1]
    <3>1. taken = SubSeq(stream, t + 1, c[1]) /\ t <= c[1]
      BY DEF Pieces
    <3>2. c[1] \in Nat /\ t \in Nat /\ c[1] <= Len(stream)
      BY <1>1, <1>2
    <3>3. PICK m \in Nat : m = c[1]
      BY <3>2
    <3>4. SubSeq(stream, t + 1, m) = <<>> <=> t = m
      <4>1. stream \in Seq(Item) /\ t <= m /\ t \in Nat /\ m <= Len(stream)
        BY <1>1, <3>1, <3>2, <3>3
      <4>2. /\ SubSeq(stream, t + 1, m) \in Seq(Item)
            /\ Len(SubSeq(stream, t + 1, m)) = m - t
        BY ONLY <3>3, <4>1, Piece
      <4>3. SubSeq(stream, t + 1, m) = <<>> <=> m - t = 0
        BY ONLY <4>2, Nothing, Zenon
      <4>4. QED
        BY ONLY <3>3, <4>1, <4>3
    <3>5. QED
      BY <2>1, <3>1, <3>3, <3>4
  <2>4. Len(outputCh') + 1 = L /\ 2 \in 1..L + 1 /\ 1 + 1 = 2 /\ 1 \in 1..L
    BY <2>2
  <2>5. PICK c2 \in Cuts' : c2[1] = c[2] /\ c2[L] = c[L + 1] /\ \A i \in 1..L : c2[i] = c[i + 1]
    <3> DEFINE c2 == [i \in 1..L |-> c[i + 1]]
    <3>1. c2[1] = c[2] /\ c2[L] = c[L + 1] /\ \A i \in 1..L : c2[i] = c[i + 1]
      BY <2>2, <2>4
    <3>2. c2 \in Cuts'
      BY <1>2, <1>3, <2>2, <2>4 DEF Cuts
    <3> HIDE DEF c2
    <3>3. QED
      BY <3>1, <3>2
  <2>6. \A i \in 1..L - 1 : /\ c2[i] <= c2[i + 1]
                            /\ outputCh'[i] = SubSeq(stream, c2[i] + 1, c2[i + 1])
    <3> TAKE i \in 1..L - 1
    <3>1. i \in 1..L /\ i + 1 \in 1..L
      BY <2>2
    <3>2. c2[i] = c[i + 1] /\ c2[i + 1] = c[(i + 1) + 1] /\ outputCh'[i] = outputCh[i + 1]
      BY <2>2, <2>5, <3>1
    <3>3. QED
      BY <3>1, <3>2 DEF Pieces
  <2>7. c[1] <= c[2] /\ outputCh[1] = SubSeq(stream, c[1] + 1, c[2])
    BY <2>4 DEF Pieces
  <2>8. c[1] \in 0..Len(stream) /\ b <= c[1]
    BY <1>2 DEF Pieces
  <2>9. Pieces(b, c[1], c2, k)'
    <3>1. /\ buffer' = SubSeq(stream', b + 1, c[1]) /\ taken' = SubSeq(stream', c[1] + 1, c2[1])
          /\ chunk' = SubSeq(stream', c2[Len(outputCh') + 1] + 1, k)
          /\ tty' = SubSeq(stream', k + 1, Len(stream'))
      BY <1>3, <2>1, <2>2, <2>3, <2>4, <2>5, <2>7 DEF Pieces
    <3>2. c[1] <= c2[1] /\ c2[Len(outputCh') + 1] <= k
      BY <2>4, <2>5, <2>7 DEF Pieces
    <3>3. \A i \in 1..Len(outputCh') : /\ c2[i] <= c2[i + 1]
                                       /\ outputCh'[i] = SubSeq(stream', c2[i] + 1, c2[i + 1])
      BY <1>3, <2>2, <2>6
    <3>4. QED
      BY <2>8, <3>1, <3>2, <3>3, Zenon DEF Pieces
  <2>10. QED
    BY <2>5, <2>8, <2>9
<1>7. CASE PumpStores
  <2>1. UNCHANGED <<outputCh, tty, chunk>> /\ buffer' = buffer \o taken /\ taken' = <<>>
    BY <1>7 DEF PumpStores, agentVars, procVars
  <2>2. c[1] \in 0..Len(stream) /\ b <= t /\ t <= c[1] /\ b <= c[1]
    BY <1>2 DEF Pieces
  <2>3. buffer' = SubSeq(stream, b + 1, c[1])
    <3>1. buffer = SubSeq(stream, b + 1, t) /\ taken = SubSeq(stream, t + 1, c[1])
      BY DEF Pieces
    <3>2. b \in Nat /\ t \in Nat /\ c[1] \in Nat /\ c[1] <= Len(stream)
      BY <1>1, <2>2
    <3>3. PICK m \in Nat : m = c[1]
      BY <3>2
    <3>4. SubSeq(stream, b + 1, t) \o SubSeq(stream, t + 1, m) = SubSeq(stream, b + 1, m)
      <4>1. stream \in Seq(Item) /\ b \in Nat /\ t \in Nat /\ b <= t /\ t <= m /\ m <= Len(stream)
        BY <1>1, <2>2, <3>2, <3>3
      <4>2. QED
        BY ONLY <3>3, <4>1, PiecesJoin
    <3>5. QED
      BY <2>1, <3>1, <3>3, <3>4
  <2>4. SubSeq(stream, c[1] + 1, c[1]) = <<>>
    BY <1>1, <2>2, NoPiece
  <2>5. c \in Cuts'
    BY <1>3, <2>1 DEF Cuts
  <2>6. Pieces(b, c[1], c, k)'
    <3>1. c[1] <= c[1]
      BY <1>1, <2>2
    <3>2. QED
      BY <1>3, <2>1, <2>2, <2>3, <2>4, <3>1, Zenon DEF Pieces
  <2>7. QED
    BY <2>2, <2>5, <2>6
<1>8. QED
  BY <1>4, <1>5, <1>6, <1>7 DEF Move

LEMMA PipeStep ==
  ASSUME TypeOK, Story(stream, turn, echo), AgentInv, TurnInv, PipeInv, [Next]_vars
  PROVE  PipeInv'
<1>1. stream \in Seq(Item) /\ Len(stream) \in Nat /\ turn \in Nat /\ Turns \in Nat
  BY ProcessAssumption DEF TypeOK
<1>2. \A n \in 1..Turns : /\ EchoOf(n) \in Item /\ TextOf(n) \in Item /\ MarkerOf(n) \in Item
                          /\ ChatterOf(n) \in Item
  BY DEF EchoOf, TextOf, MarkerOf, ChatterOf, Item
<1>3. PICK b \in 0..Len(stream), t \in 0..Len(stream), k \in 0..Len(stream), c \in Cuts :
        Pieces(b, t, c, k) /\ Since(b)
  BY DEF PipeInv
<1> DEFINE Held == (reader # "send" => chunk = <<>>) /\ (pump # "store" => taken = <<>>)
<1>4. Held
  BY DEF PipeInv
<1> USE DEF agentVars, procVars, pumpVars, turnVars
<1>5. ASSUME NEW x \in Item, PutOut(x), UNCHANGED <<buffer, taken, outputCh, chunk, reader, pump>>,
             Since(b)'
      PROVE  PipeInv'
  <2>1. /\ Pieces(b, t, c, k)' /\ c \in Cuts'
        /\ b \in 0..Len(stream') /\ t \in 0..Len(stream') /\ k \in 0..Len(stream')
    BY <1>3, <1>5, PiecesGrow
  <2>2. Held'
    BY <1>4, <1>5
  <2>3. QED
    BY <1>5, <2>1, <2>2 DEF PipeInv
<1>6. ASSUME UNCHANGED <<stream, tty, buffer, taken, outputCh, chunk>>, Held', Since(b)'
      PROVE  PipeInv'
  <2>1. Pieces(b, t, c, k)' /\ c \in Cuts'
    BY <1>3, <1>6 DEF Pieces, Cuts
  <2>2. QED
    BY <1>6, <2>1 DEF PipeInv
<1>7. CASE AgentReads
  <2>1. UNCHANGED <<stream, tty, buffer, taken, outputCh, chunk, reader, pump, turn, conv>>
    BY <1>7 DEF AgentReads
  <2>2. Since(b)'
    BY <1>3, <2>1, SinceStays DEF ConvStays
  <2>3. Held'
    BY <1>4, <2>1
  <2>4. QED
    BY <1>6, <2>1, <2>2, <2>3
<1>8. CASE AgentSays
  <2>1. UNCHANGED <<buffer, taken, outputCh, chunk, reader, pump, turn, conv>>
    BY <1>8 DEF AgentSays
  <2>2. PICK x \in Item : PutOut(x) /\ x.turn = turn
    <3>1. turn \in 1..Turns /\ (PutOut(TextOf(turn)) \/ PutOut(MarkerOf(turn)))
      BY <1>8, SaysFits
    <3>2. TextOf(turn).turn = turn /\ MarkerOf(turn).turn = turn
      BY DEF TextOf, MarkerOf
    <3>3. QED
      BY <1>2, <3>1, <3>2
  <2>3. conv # "idle"
    BY <1>8, SaysFits
  <2>4. /\ Len(stream') = Len(stream) + 1
        /\ \A q \in 1..Len(stream) : stream'[q] = stream[q]
        /\ stream'[Len(stream) + 1] = x
        /\ \A q \in 1..Len(stream') : q \in 1..Len(stream) \/ q = Len(stream) + 1
    BY <1>1, <2>2, Grown DEF PutOut
  <2>5. ~(Len(stream) + 1 <= b)
    BY <1>1
  <2>6. Since(b)'
    BY <1>3, <2>1, <2>2, <2>3, <2>4, <2>5 DEF Since
  <2>7. QED
    BY <1>5, <2>1, <2>2, <2>6
<1>9. CASE AgentChats
  <2>1. UNCHANGED <<buffer, taken, outputCh, chunk, reader, pump, turn, conv>>
    BY <1>9 DEF AgentChats
  <2>2. PICK x \in Item : PutOut(x) /\ x.kind = "chatter"
    <3>1. agent.chatter \in 1..Turns /\ PutOut(ChatterOf(agent.chatter))
      BY <1>9, ChatsFits
    <3>2. ChatterOf(agent.chatter).kind = "chatter"
      BY DEF ChatterOf
    <3>3. QED
      BY <1>2, <3>1, <3>2
  <2>3. /\ Len(stream') = Len(stream) + 1
        /\ \A q \in 1..Len(stream) : stream'[q] = stream[q]
        /\ stream'[Len(stream) + 1] = x
        /\ \A q \in 1..Len(stream') : q \in 1..Len(stream) \/ q = Len(stream) + 1
    BY <1>1, <2>2, Grown DEF PutOut
  <2>4. ~(Len(stream) + 1 <= b)
    BY <1>1
  <2>5. Since(b)'
    BY <1>3, <2>1, <2>2, <2>3, <2>4 DEF Since
  <2>6. QED
    BY <1>5, <2>1, <2>2, <2>5
<1>10. CASE TurnBegins
  <2>1. /\ UNCHANGED <<buffer, taken, outputCh, chunk, reader, pump>>
        /\ conv = "idle" /\ turn' = turn + 1 /\ conv' \in {"failed", "write"}
    BY <1>10 DEF TurnBegins
  <2>2. /\ turn + 1 \in 1..Turns
        /\ \A q \in 1..Len(stream) : stream[q].turn < turn + 1
        /\ \/ UNCHANGED <<stream, tty>> /\ (conv' = "failed" \/ ~echo)
           \/ PutOut(EchoOf(turn + 1))
    BY <1>10, BeginsFits
  <2>3. \A q \in 1..Len(stream) : b < q => stream[q].kind = "chatter"
    BY <1>3, <2>1 DEF Since
  <2>4. CASE UNCHANGED <<stream, tty>>
    <3>1. Since(b)'
      BY <2>1, <2>2, <2>3, <2>4 DEF Since, Busy
    <3>2. Held'
      BY <1>4, <2>1
    <3>3. QED
      BY <1>6, <2>1, <2>4, <3>1, <3>2
  <2>5. CASE PutOut(EchoOf(turn + 1))
    <3>1. PICK x \in Item : PutOut(x) /\ x.turn = turn + 1
      <4>1. EchoOf(turn + 1).turn = turn + 1
        BY DEF EchoOf
      <4>2. QED
        BY <1>2, <2>2, <2>5, <4>1
    <3>2. /\ Len(stream') = Len(stream) + 1
          /\ \A q \in 1..Len(stream) : stream'[q] = stream[q]
          /\ stream'[Len(stream) + 1] = x
          /\ \A q \in 1..Len(stream') : q \in 1..Len(stream) \/ q = Len(stream) + 1
      BY <1>1, <3>1, Grown DEF PutOut
    <3>3. ~(Len(stream) + 1 <= b)
      BY <1>1
    <3>4. Since(b)'
      BY <2>1, <2>2, <2>3, <3>1, <3>2, <3>3 DEF Since, Busy
    <3>5. QED
      BY <1>5, <2>1, <3>1, <3>4
  <2>6. QED
    BY <2>2, <2>4, <2>5
<1>11. CASE TurnAnswered
  <2>1. /\ UNCHANGED <<stream, tty, taken, outputCh, chunk, reader, pump, turn>>
        /\ buffer' = <<>> /\ conv' = "idle" /\ Finding = "reply"
    BY <1>11 DEF TurnAnswered
  <2> DEFINE m == MarkerAt(buffer, turn)
  <2>2. m \in 1..Len(buffer) /\ buffer[m] = MarkerOf(turn)
    <3>1. m # 0 /\ buffer \in Seq(Item)
      BY <2>1, Findings DEF TypeOK
    <3>2. QED
      BY <3>1, MarkerFound
  <2> HIDE DEF m
  <2>3. buffer = SubSeq(stream, b + 1, t) /\ b <= t
    BY <1>3 DEF Pieces
  <2>4. Len(buffer) = t - b /\ \A i \in 1..t - b : buffer[i] = stream[b + i]
    BY <1>1, <2>3, Piece
  <2>5. b + m \in 1..Len(stream) /\ b + m <= t /\ stream[b + m] = MarkerOf(turn)
    BY <1>1, <2>2, <2>4
  <2>6. \A q \in 1..Len(stream) : t < q => b + m < q
    BY <1>1, <2>5
  <2>7. \A q \in 1..Len(stream) : t < q => stream[q].kind = "chatter"
    BY <2>5, <2>6 DEF Story
  <2>8. Since(t)'
    BY <2>1, <2>7 DEF Since, Busy
  <2>9. SubSeq(stream, t + 1, t) = <<>>
    BY <1>1, NoPiece
  <2>10. t <= t /\ c \in Cuts'
    BY <1>1, <2>1 DEF Cuts
  <2>11. Pieces(t, t, c, k)'
    BY <1>3, <2>1, <2>9, <2>10, Zenon DEF Pieces
  <2>12. Held'
    BY <1>4, <2>1
  <2>13. QED
    BY <2>1, <2>8, <2>10, <2>11, <2>12 DEF PipeInv
<1>12. CASE Move
  <2>1. UNCHANGED <<stream, turn>> /\ ConvStays
    BY <1>12 DEF Move, ReaderReads, ReaderSends, PumpTakes, PumpStores, Woken, ConvStays, Busy
  <2>2. PICK t2 \in 0..Len(stream), k2 \in 0..Len(stream), c2 \in Cuts' : Pieces(b, t2, c2, k2)'
    BY <1>3, <1>12, PiecesMove
  <2>3. Since(b)'
    BY <1>3, <2>1, SinceStays
  <2>4. Held'
    BY <1>4, <1>12 DEF Move, ReaderReads, ReaderSends, PumpTakes, PumpStores
  <2>5. QED
    BY <2>1, <2>2, <2>3, <2>4 DEF PipeInv
<1>13. CASE ~Talk /\ ~Move
  <2>1. UNCHANGED <<stream, turn>> /\ ConvStays
    BY <1>13, NoTalk
  <2>2. /\ UNCHANGED <<buffer, taken, outputCh, chunk, tty>>
        /\ pump = "store" => pump' = "store"
        /\ reader = "send" => reader' = "send"
    BY <1>13, NoMove
  <2>3. Since(b)'
    BY <1>3, <2>1, SinceStays
  <2>4. Held'
    BY <1>4, <2>2
  <2>5. QED
    BY <1>6, <2>1, <2>2, <2>3, <2>4
<1>14. QED
  BY <1>7, <1>8, <1>9, <1>10, <1>11, <1>12, <1>13 DEF Talk

-----------------------------------------------------------------------------
\* The answers.

\* More output does not change what an answer is.
LEMMA AnswerStands ==
  ASSUME TypeOK, NEW x \in Item, PutOut(x), UNCHANGED <<answers, echo>>,
         NEW n, x # TextOf(n), NEW a \in 0..Len(stream), NEW z \in 0..Len(stream), AnswerAt(n, a, z)
  PROVE  AnswerAt(n, a, z)' /\ a \in 0..Len(stream') /\ z \in 0..Len(stream')
<1>1. stream \in Seq(Item) /\ stream' = Append(stream, x) /\ Len(stream) \in Nat
  BY DEF TypeOK, PutOut
<1>2. /\ Len(stream') = Len(stream) + 1
      /\ \A q \in 1..Len(stream) : stream'[q] = stream[q]
      /\ stream'[Len(stream) + 1] = x
      /\ \A q \in 1..Len(stream') : q \in 1..Len(stream) \/ q = Len(stream) + 1
  BY <1>1, Grown
<1>3. SubSeq(stream', a + 1, z) = SubSeq(stream, a + 1, z)
  BY <1>1, PieceOfMore DEF AnswerAt
<1>4. /\ z + 1 \in 1..Len(stream) /\ (a # 0 => a \in 1..Len(stream))
      /\ \A q \in a + 1 .. z : q \in 1..Len(stream)
      /\ z < Len(stream')
  BY <1>1, <1>2 DEF AnswerAt
<1>5. AnswerAt(n, a, z)'
  BY <1>2, <1>3, <1>4 DEF AnswerAt
<1>6. QED
  BY <1>1, <1>2, <1>5

\* What TurnAnswered returns is the output from the echo to the marker.
LEMMA NewAnswer ==
  ASSUME TypeOK, Story(stream, turn, echo), TurnInv, PipeInv, TurnAnswered
  PROVE  \E a, z \in 0..Len(stream) : AnswerAt(turn, a, z)'
<1>1. /\ stream \in Seq(Item) /\ Len(stream) \in Nat /\ buffer \in Seq(Item)
      /\ \A q \in 1..Len(stream) : stream[q] \in Item
  BY DEF TypeOK
<1> DEFINE m == MarkerAt(buffer, turn)
           captured == SubSeq(buffer, 1, m - 1)
<1>2. /\ m \in 1..Len(buffer) /\ buffer[m] = MarkerOf(turn)
      /\ \A i \in 1..m - 1 : buffer[i] # MarkerOf(turn)
  <2>1. m # 0
    BY Findings DEF TurnAnswered
  <2>2. QED
    BY <1>1, <2>1, MarkerFound
<1>3. /\ answers' = Append(answers, StripEnvelopeEcho(captured, turn))
      /\ UNCHANGED <<stream, echo>> /\ conv = "check"
  BY DEF TurnAnswered, agentVars
<1> HIDE DEF m
<1>4. PICK b \in 0..Len(stream), t \in 0..Len(stream) :
        b <= t /\ buffer = SubSeq(stream, b + 1, t) /\ Since(b)
  BY DEF PipeInv, Pieces
<1>5. Len(buffer) = t - b /\ \A i \in 1..t - b : buffer[i] = stream[b + i]
  BY <1>1, <1>4, Piece
<1>6. /\ m - 1 \in Nat /\ m - 1 <= t - b /\ b + m \in 1..Len(stream) /\ b + (m - 1) \in 0..Len(stream)
      /\ (b + (m - 1)) + 1 = b + m
  BY <1>1, <1>2, <1>5
<1>7. /\ stream[b + m] = MarkerOf(turn)
      /\ \A q \in 1..Len(stream) : b < q /\ q < b + m => stream[q] # MarkerOf(turn)
  <2>1. stream[b + m] = MarkerOf(turn)
    BY <1>2, <1>5
  <2>2. ASSUME NEW q \in 1..Len(stream), b < q, q < b + m PROVE stream[q] # MarkerOf(turn)
    <3>1. q - b \in 1..m - 1 /\ q - b \in 1..t - b /\ b + (q - b) = q
      BY <1>1, <1>6, <2>2
    <3>2. QED
      BY <1>2, <1>5, <3>1
  <2>3. QED
    BY <2>1, <2>2
<1>8. /\ captured = SubSeq(stream, b + 1, b + (m - 1)) /\ captured \in Seq(Item)
      /\ Len(captured) = m - 1 /\ \A i \in 1..m - 1 : captured[i] = stream[b + i]
  <2>1. 0 \in Nat /\ 0 <= m - 1 /\ 0 + 1 = 1 /\ b + 0 = b /\ b \in Nat /\ t \in Nat /\ t <= Len(stream)
    BY <1>1, <1>6
  <2>2. SubSeq(SubSeq(stream, b + 1, t), 0 + 1, m - 1) = SubSeq(stream, (b + 0) + 1, b + (m - 1))
    BY <1>1, <1>4, <1>6, <2>1, PieceOfPiece, SMTT(20)
  <2>3. captured = SubSeq(stream, b + 1, b + (m - 1))
    BY <1>4, <2>1, <2>2
  <2> HIDE DEF captured
  <2>4. b <= b + (m - 1) /\ (b + (m - 1)) - b = m - 1 /\ b + (m - 1) <= Len(stream)
        /\ b + (m - 1) \in Nat
    BY <1>1, <1>6
  <2>5. QED
    BY <1>1, <2>1, <2>3, <2>4, Piece
<1> HIDE DEF captured
<1>9. PICK at \in 0..m - 1 :
        /\ StripEnvelopeEcho(captured, turn) = SubSeq(captured, at + 1, m - 1)
        /\ at = 0 => \A i \in 1..m - 1 : captured[i] # EchoOf(turn)
        /\ at # 0 => captured[at] = EchoOf(turn)
  <2>1. PICK at \in 0..Len(captured) :
          /\ StripEnvelopeEcho(captured, turn) = SubSeq(captured, at + 1, Len(captured))
          /\ at = 0 => \A i \in 1..Len(captured) : captured[i] # EchoOf(turn)
          /\ at # 0 => captured[at] = EchoOf(turn)
    BY <1>8, Stripped
  <2>2. QED
    BY <1>8, <2>1
<1>10. PICK a \in 0..Len(stream), z \in 0..Len(stream) :
         a = b + at /\ z = b + (m - 1) /\ a <= z /\ z < Len(stream) /\ b <= a /\ z + 1 = b + m
  <2>1. b + at \in 0..Len(stream) /\ b + at <= b + (m - 1) /\ b + (m - 1) < Len(stream) /\ b <= b + at
    BY <1>1, <1>6
  <2>2. QED
    BY <1>6, <2>1
<1>11. answers'[turn] = SubSeq(stream, a + 1, z)
  <2>1. answers \in Seq(Seq(Item)) /\ Len(answers) + 1 = turn
    BY <1>3, ProcessAssumption DEF TurnInv, Busy, TypeOK
  <2>2. answers'[turn] = SubSeq(captured, at + 1, m - 1)
    <3>1. PICK y : y = StripEnvelopeEcho(captured, turn)
      OBVIOUS
    <3>2. Append(answers, y)[Len(answers) + 1] = y
      BY <2>1
    <3>3. QED
      BY <1>3, <1>9, <2>1, <3>1, <3>2
  <2>3. SubSeq(SubSeq(stream, b + 1, z), at + 1, m - 1) = SubSeq(stream, (b + at) + 1, b + (m - 1))
    <3>1. PICK n \in Nat : n = m - 1
      BY <1>6
    <3>2. /\ b \in Nat /\ z \in Nat /\ b <= z /\ z <= Len(stream)
          /\ at \in Nat /\ at <= n /\ n <= z - b
      BY <1>1, <1>6, <1>10, <3>1
    <3>3. SubSeq(SubSeq(stream, b + 1, z), at + 1, n) = SubSeq(stream, (b + at) + 1, b + n)
      BY ONLY <1>1, <3>1, <3>2, PieceOfPiece, SMTT(20)
    <3>4. QED
      BY <3>1, <3>3
  <2>4. QED
    BY <1>8, <1>10, <2>2, <2>3
<1>12. at # 0 => a # 0 /\ a \in 1..Len(stream) /\ stream[a] = EchoOf(turn)
  BY <1>1, <1>6, <1>8, <1>9, <1>10
<1>13. /\ \A q \in 1..Len(stream) : q <= b => stream[q].turn < turn
       /\ \A q \in 1..Len(stream) : b < q /\ stream[q].kind # "chatter" => stream[q].turn = turn
  BY <1>3, <1>4 DEF Since, Busy
<1>14. /\ \A x \in Item : x.kind \in {"echo", "text", "marker", "chatter"} /\ x.turn \in Nat
       /\ MarkerOf(turn).kind = "marker" /\ MarkerOf(turn).turn = turn
       /\ EchoOf(turn).kind = "echo" /\ EchoOf(turn).turn = turn
       /\ TextOf(turn).kind = "text" /\ TextOf(turn).turn = turn /\ turn \in Nat
  <2>1. \A x \in Item : x.kind \in {"echo", "text", "marker", "chatter"} /\ x.turn \in Nat
    BY Items, ProcessAssumption
  <2>2. turn \in Nat
    BY ProcessAssumption DEF TypeOK
  <2>3. /\ MarkerOf(turn).kind = "marker" /\ MarkerOf(turn).turn = turn
        /\ EchoOf(turn).kind = "echo" /\ EchoOf(turn).turn = turn
        /\ TextOf(turn).kind = "text" /\ TextOf(turn).turn = turn
    BY DEF MarkerOf, EchoOf, TextOf
  <2>4. QED
    BY <2>1, <2>2, <2>3
<1>15. \A q \in 1..Len(stream) : stream[q].turn = turn => b < q
  BY <1>1, <1>13, <1>14
<1>16. at = 0 => \A q \in 1..Len(stream) : b < q /\ q < b + m => stream[q] # EchoOf(turn)
  <2> SUFFICES ASSUME at = 0, NEW q \in 1..Len(stream), b < q, q < b + m
               PROVE  stream[q] # EchoOf(turn)
    OBVIOUS
  <2>1. q - b \in 1..m - 1 /\ b + (q - b) = q
    BY <1>1, <1>6
  <2>2. QED
    BY <1>8, <1>9, <2>1
<1>17. echo => a # 0 /\ stream[a] = EchoOf(turn)
  <2> SUFFICES ASSUME echo PROVE at # 0
    BY <1>12
  <2>1. PICK p \in 1..Len(stream) : p < b + m /\ stream[p] = EchoOf(turn)
    <3>1. stream[b + m].kind \in {"text", "marker"} /\ stream[b + m].turn = turn
      BY <1>7, <1>14
    <3>2. QED
      BY <1>6, <3>1 DEF Story
  <2>2. b < p
    BY <1>14, <1>15, <2>1
  <2>3. QED
    BY <1>16, <2>1, <2>2
<1>18. \A q \in 1..Len(stream) : stream[q] = TextOf(turn) => a < q /\ q <= z
  <2> SUFFICES ASSUME NEW q \in 1..Len(stream), stream[q] = TextOf(turn) PROVE a < q /\ q <= z
    OBVIOUS
  <2>1. b < q
    BY <1>14, <1>15
  <2>2. a < q
    <3>1. CASE at = 0
      BY <1>10, <2>1, <3>1
    <3>2. CASE at # 0
      BY <1>12, <1>14, <3>2 DEF Story
    <3>3. QED
      BY <3>1, <3>2
  <2>3. q # b + m /\ ~(b + m < q)
    <3>1. stream[q].kind = "text" /\ stream[b + m].kind = "marker"
      BY <1>7, <1>14
    <3>2. b + m < q => stream[q].kind = "chatter"
      BY <1>6, <1>7 DEF Story
    <3>3. QED
      BY <3>1, <3>2
  <2>4. QED
    BY <1>1, <1>6, <1>10, <2>2, <2>3
<1>19. \A q \in a + 1 .. z : \/ stream[q] = TextOf(turn)
                             \/ stream[q].kind = "chatter" /\ stream[q].turn < turn
  <2> SUFFICES ASSUME NEW q \in a + 1 .. z
               PROVE  \/ stream[q] = TextOf(turn)
                      \/ stream[q].kind = "chatter" /\ stream[q].turn < turn
    OBVIOUS
  <2>1. q \in 1..Len(stream) /\ b < q /\ q < b + m /\ a < q
    BY <1>1, <1>6, <1>10
  <2>2. stream[q] \in Item
    BY <1>1, <2>1
  <2>3. CASE stream[q].kind = "chatter"
    <3>1. stream[q].turn <= turn /\ stream[q].turn \in Nat
      BY <1>14, <2>1, <2>2 DEF Story
    <3>2. PICK p \in 1..Len(stream) : p < q /\ stream[p] = MarkerOf(stream[q].turn)
      BY <2>1, <2>3 DEF Story
    <3>3. stream[q].turn # turn
      <4>1. SUFFICES ASSUME stream[q].turn = turn PROVE FALSE
        OBVIOUS
      <4>2. stream[p] = MarkerOf(turn)
        BY <3>2, <4>1
      <4>3. b < p /\ p < b + m
        BY <1>1, <1>6, <1>14, <1>15, <2>1, <3>2, <4>2
      <4>4. QED
        BY <1>7, <4>2, <4>3
    <3>4. QED
      BY <1>14, <2>3, <3>1, <3>3
  <2>4. CASE stream[q].kind # "chatter"
    <3>1. stream[q].turn = turn
      BY <1>13, <2>1, <2>4
    <3>2. stream[q] # MarkerOf(turn)
      BY <1>7, <2>1
    <3>3. stream[q] # EchoOf(turn)
      <4>1. CASE at = 0
        BY <1>16, <2>1, <4>1
      <4>2. CASE at # 0
        <5>1. stream[a].kind = "echo" /\ a \in 1..Len(stream) /\ stream[a] = EchoOf(turn)
          BY <1>12, <1>14, <4>2
        <5>2. stream[a] = stream[q] => a = q
          BY <2>1, <5>1 DEF Story
        <5>3. a # q
          BY <1>10, <2>1
        <5>4. QED
          BY <5>1, <5>2, <5>3
      <4>3. QED
        BY <4>1, <4>2
    <3>4. QED
      BY <2>2, <2>4, <3>1, <3>2, <3>3, Items
  <2>5. QED
    BY <2>3, <2>4
<1>20. AnswerAt(turn, a, z)'
  <2>1. turn' = turn
    BY DEF TurnAnswered
  <2>2. stream[z + 1] = MarkerOf(turn)
    BY <1>7, <1>10
  <2>3. QED
    BY <1>3, <1>10, <1>11, <1>17, <1>18, <1>19, <2>1, <2>2 DEF AnswerAt
<1>21. QED
  BY <1>20

LEMMA AnswersStep ==
  ASSUME TypeOK, Story(stream, turn, echo), AgentInv, TurnInv, PipeInv, AnswersInv, [Next]_vars
  PROVE  AnswersInv'
<1>1. \A n \in 1..Turns : /\ EchoOf(n) \in Item /\ TextOf(n) \in Item /\ MarkerOf(n) \in Item
                          /\ ChatterOf(n) \in Item
  BY DEF EchoOf, TextOf, MarkerOf, ChatterOf, Item
<1>2. \A n \in DOMAIN answers : Has(stream, MarkerOf(n))
  <2> TAKE n \in DOMAIN answers
  <2>1. PICK z \in 0..Len(stream) : z < Len(stream) /\ stream[z + 1] = MarkerOf(n)
    BY DEF AnswersInv, AnswerAt
  <2>2. z + 1 \in 1..Len(stream)
    BY <2>1
  <2>3. QED
    BY <2>1, <2>2 DEF Has
<1>3. ASSUME NEW x \in Item, PutOut(x), UNCHANGED <<answers, echo>>,
             \A n \in DOMAIN answers : x # TextOf(n)
      PROVE  AnswersInv'
  <2>1. ASSUME NEW n \in DOMAIN answers'
        PROVE  \E a, z \in 0..Len(stream') : AnswerAt(n, a, z)'
    <3>1. n \in DOMAIN answers
      BY <1>3, <2>1
    <3>2. PICK a \in 0..Len(stream), z \in 0..Len(stream) : AnswerAt(n, a, z)
      BY <3>1 DEF AnswersInv
    <3>3. QED
      BY <1>3, <3>1, <3>2, AnswerStands
  <2>2. QED
    BY <2>1 DEF AnswersInv
<1>4. ASSUME UNCHANGED <<stream, answers, echo>> PROVE AnswersInv'
  BY <1>4 DEF AnswersInv, AnswerAt
<1> USE DEF agentVars, procVars, pumpVars, turnVars
<1>5. CASE AgentReads
  BY <1>4, <1>5 DEF AgentReads
<1>6. CASE AgentSays
  <2>1. /\ turn \in 1..Turns /\ ~Has(stream, MarkerOf(turn)) /\ UNCHANGED <<answers, echo>>
        /\ PutOut(TextOf(turn)) \/ PutOut(MarkerOf(turn))
    BY <1>6, SaysFits DEF AgentSays
  <2>2. turn \notin DOMAIN answers
    BY <1>2, <2>1
  <2>3. \A n \in DOMAIN answers : TextOf(turn) # TextOf(n) /\ MarkerOf(turn) # TextOf(n)
    BY <2>2 DEF TextOf, MarkerOf
  <2>4. QED
    BY <1>1, <1>3, <2>1, <2>3
<1>7. CASE AgentChats
  <2>1. /\ agent.chatter \in 1..Turns /\ PutOut(ChatterOf(agent.chatter))
        /\ UNCHANGED <<answers, echo>>
    BY <1>7, ChatsFits DEF AgentChats
  <2>2. \A n \in DOMAIN answers : ChatterOf(agent.chatter) # TextOf(n)
    BY DEF TextOf, ChatterOf
  <2>3. QED
    BY <1>1, <1>3, <2>1, <2>2
<1>8. CASE TurnBegins
  <2>1. /\ turn + 1 \in 1..Turns /\ UNCHANGED <<answers, echo>>
        /\ UNCHANGED stream \/ PutOut(EchoOf(turn + 1))
    BY <1>8, BeginsFits DEF TurnBegins
  <2>2. \A n \in DOMAIN answers : EchoOf(turn + 1) # TextOf(n)
    BY DEF TextOf, EchoOf
  <2>3. QED
    BY <1>1, <1>3, <1>4, <2>1, <2>2
<1>9. CASE TurnAnswered
  <2>1. PICK y : answers' = Append(answers, y)
    BY <1>9 DEF TurnAnswered
  <2>2. UNCHANGED <<stream, echo, turn>>
    BY <1>9 DEF TurnAnswered
  <2>3. Len(answers) + 1 = turn
    BY <1>9, ProcessAssumption DEF TurnAnswered, TurnInv, Busy, TypeOK
  <2>4. /\ \A n \in DOMAIN answers' : n \in DOMAIN answers \/ n = turn
        /\ \A n \in DOMAIN answers : answers'[n] = answers[n]
    <3>1. answers \in Seq(Seq(Item)) /\ answers' \in Seq(Seq(Item))
      BY TypeStep DEF TypeOK
    <3>2. answers \in Seq({y} \cup Seq(Item)) /\ Len(answers) \in Nat
      BY <3>1
    <3>3. /\ Len(answers') = Len(answers) + 1
          /\ \A n \in 1..Len(answers) : answers'[n] = answers[n]
      BY ONLY <2>1, <3>2, y \in {y} \cup Seq(Item), AppendProperties
    <3>4. DOMAIN answers = 1..Len(answers) /\ DOMAIN answers' = 1..Len(answers')
      BY <3>1
    <3>5. QED
      BY <2>3, <3>2, <3>3, <3>4
  <2>5. PICK a \in 0..Len(stream), z \in 0..Len(stream) : AnswerAt(turn, a, z)'
    BY <1>9, NewAnswer
  <2>6. ASSUME NEW n \in DOMAIN answers'
        PROVE  \E a1, z1 \in 0..Len(stream') : AnswerAt(n, a1, z1)'
    <3>1. CASE n \in DOMAIN answers
      <4>1. PICK a1 \in 0..Len(stream), z1 \in 0..Len(stream) : AnswerAt(n, a1, z1)
        BY <3>1 DEF AnswersInv
      <4>2. AnswerAt(n, a1, z1)'
        BY <2>2, <2>4, <3>1, <4>1 DEF AnswerAt
      <4>3. QED
        BY <2>2, <4>2
    <3>2. CASE n = turn
      <4>1. AnswerAt(n, a, z)'
        BY <2>2, <2>5, <3>2
      <4>2. QED
        BY <2>2, <4>1
    <3>3. QED
      BY <2>4, <2>6, <3>1, <3>2
  <2>7. QED
    BY <2>6 DEF AnswersInv
<1>10. CASE ~Talk
  BY <1>4, <1>10, NoTalk
<1>11. QED
  BY <1>5, <1>6, <1>7, <1>8, <1>9, <1>10 DEF Talk

LEMMA ProcessInit == Init => ProcessInv
<1> SUFFICES ASSUME Init PROVE ProcessInv
  OBVIOUS
<1> USE DEF Init
<1>1. Len(stream) = 0 /\ 1..Len(stream) = {} /\ stream = <<>> /\ Len(outputCh) = 0
      /\ Len(answers) = 0 /\ DOMAIN answers = {}
  OBVIOUS
<1>2. Story(stream, turn, echo) /\ AnswersInv
  BY <1>1 DEF Story, AnswersInv
<1>3. AgentInv /\ TurnInv
  BY <1>1 DEF AgentInv, TurnInv, Busy
<1>4. PipeInv
  <2>1. PICK c \in [1..0 + 1 -> 0..0] : c[1] = 0
    <3>1. [i \in 1..0 + 1 |-> 0] \in [1..0 + 1 -> 0..0] /\ [i \in 1..0 + 1 |-> 0][1] = 0
      OBVIOUS
    <3>2. QED
      BY <3>1
  <2>2. SubSeq(<<>>, 0 + 1, 0) = <<>>
    BY SubSeqEmpty
  <2>3. Pieces(0, 0, c, 0) /\ c \in Cuts
    BY <1>1, <2>1, <2>2 DEF Pieces, Cuts
  <2>4. Since(0) /\ 0 \in 0..Len(stream)
    BY <1>1 DEF Since, Busy
  <2>5. QED
    BY <2>3, <2>4 DEF PipeInv
<1>5. QED
  BY <1>2, <1>3, <1>4 DEF ProcessInv

LEMMA ProcessStep == TypeOK /\ ProcessInv /\ [Next]_vars => ProcessInv'
<1> SUFFICES ASSUME TypeOK, ProcessInv, [Next]_vars PROVE ProcessInv'
  OBVIOUS
<1>1. Story(stream, turn, echo) /\ AgentInv /\ TurnInv /\ PipeInv /\ AnswersInv
  BY DEF ProcessInv
<1>2. Story(stream, turn, echo)' /\ AgentInv' /\ TurnInv'
  BY <1>1, StoryStep
<1>3. PipeInv'
  BY <1>1, PipeStep
<1>4. AnswersInv'
  BY <1>1, AnswersStep
<1>5. QED
  BY <1>2, <1>3, <1>4 DEF ProcessInv

-----------------------------------------------------------------------------
\* What the answers hold.

\* The lines of reply n in the answer are, one for one, those in the output.
LEMMA SaidOnce ==
  ASSUME stream \in Seq(Item), NEW n, NEW a \in 0..Len(stream), NEW z \in 0..Len(stream),
         AnswerAt(n, a, z)
  PROVE  SaidIn(answers[n], n) = SaidIn(stream, n)
<1> DEFINE y == answers[n]
           A == { i \in DOMAIN y : y[i] = TextOf(n) }
           S == { i \in DOMAIN stream : stream[i] = TextOf(n) }
           f == [i \in A |-> a + i]
<1>1. /\ a \in Nat /\ z \in Nat /\ a <= z /\ z <= Len(stream) /\ Len(stream) \in Nat
      /\ y = SubSeq(stream, a + 1, z)
  BY DEF AnswerAt
<1>2. /\ DOMAIN y = 1..z - a /\ DOMAIN stream = 1..Len(stream)
      /\ \A i \in 1..z - a : y[i] = stream[a + i]
  BY <1>1, Piece
<1>3. \A q \in S : a < q /\ q <= z /\ q - a \in A /\ a + (q - a) = q
  <2> TAKE q \in S
  <2>1. q \in 1..Len(stream) /\ stream[q] = TextOf(n)
    BY <1>2
  <2>2. a < q /\ q <= z
    BY <2>1 DEF AnswerAt
  <2>3. q - a \in 1..z - a /\ a + (q - a) = q
    BY <1>1, <2>1, <2>2
  <2>4. QED
    BY <1>2, <2>1, <2>2, <2>3
<1>4. \A i \in A : a + i \in S /\ i \in Nat
  <2> TAKE i \in A
  <2>1. i \in 1..z - a /\ y[i] = TextOf(n)
    BY <1>2
  <2>2. a + i \in 1..Len(stream)
    BY <1>1, <2>1
  <2>3. QED
    BY <1>2, <2>1, <2>2
<1>5. f \in Bijection(A, S)
  <2> HIDE DEF A, S
  <2>1. f \in [A -> S]
    BY <1>4
  <2>2. \A i, j \in A : f[i] = f[j] => i = j
    BY <1>1, <1>4
  <2>3. \A q \in S : \E i \in A : f[i] = q
    BY <1>3
  <2> HIDE DEF f
  <2>4. QED
    BY <2>1, <2>2, <2>3 DEF Bijection, Injection, Surjection, IsInjective
<1>6. IsFiniteSet(S)
  <2>1. IsFiniteSet(1..Len(stream))
    BY <1>1, FS_Interval
  <2>2. S \subseteq 1..Len(stream)
    BY <1>2
  <2>3. QED
    BY <2>1, <2>2, FS_Subset
<1>7. IsFiniteSet(A)
  <2>1. z - a \in Int /\ IsFiniteSet(1..z - a)
    BY <1>1, FS_Interval
  <2>2. A \subseteq 1..z - a
    BY <1>2
  <2>3. QED
    BY <2>1, <2>2, FS_Subset
<1>8. Cardinality(A) = Cardinality(S)
  <2> HIDE DEF A, S, f
  <2>1. ExistsBijection(A, S)
    BY <1>5 DEF ExistsBijection
  <2>2. QED
    BY <1>6, <1>7, <2>1, FS_Bijection
<1>9. QED
  BY <1>8 DEF SaidIn

\* Each item of an answer stands in the output between the answer's places.
LEMMA AnswerItems ==
  ASSUME stream \in Seq(Item), NEW n, NEW a \in 0..Len(stream), NEW z \in 0..Len(stream),
         AnswerAt(n, a, z), NEW i \in DOMAIN answers[n]
  PROVE  /\ i \in Nat \ {0} /\ a + i \in a + 1 .. z /\ a + i \in 1..Len(stream)
         /\ answers[n][i] = stream[a + i] /\ stream[a + i] \in Item
<1> DEFINE y == answers[n]
<1>1. /\ a \in Nat /\ z \in Nat /\ a <= z /\ z <= Len(stream) /\ Len(stream) \in Nat
      /\ y = SubSeq(stream, a + 1, z)
  BY DEF AnswerAt
<1>2. /\ DOMAIN y = 1..z - a
      /\ \A j \in 1..z - a : y[j] = stream[a + j]
  BY <1>1, Piece
<1>3. i \in 1..z - a
  BY <1>2
<1>4. i \in Nat \ {0} /\ a + i \in a + 1 .. z /\ a + i \in 1..Len(stream)
  BY <1>1, <1>3
<1>5. QED
  BY <1>2, <1>3, <1>4

LEMMA AnswersAreWhole ==
  ASSUME TypeOK, AnswersInv
  PROVE  AnswerIsWholeReply
<1>1. stream \in Seq(Item)
  BY DEF TypeOK
<1> SUFFICES ASSUME NEW n \in DOMAIN answers
             PROVE  /\ SaidIn(answers[n], n) = SaidIn(stream, n)
                    /\ MarkerAt(stream, n) # 0
                    /\ \A i \in DOMAIN answers[n] :
                         \/ answers[n][i] = TextOf(n)
                         \/ answers[n][i].kind = "chatter" /\ answers[n][i].turn < n
  BY DEF AnswerIsWholeReply
<1>2. PICK a \in 0..Len(stream), z \in 0..Len(stream) : AnswerAt(n, a, z)
  BY DEF AnswersInv
<1>3. SaidIn(answers[n], n) = SaidIn(stream, n)
  BY <1>1, <1>2, SaidOnce
<1>4. MarkerAt(stream, n) # 0
  <2>1. z + 1 \in 1..Len(stream) /\ stream[z + 1] = MarkerOf(n)
    BY <1>1, <1>2 DEF AnswerAt
  <2>2. QED
    BY <1>1, <2>1, MarkerFound
<1>5. ASSUME NEW i \in DOMAIN answers[n]
      PROVE  \/ answers[n][i] = TextOf(n)
             \/ answers[n][i].kind = "chatter" /\ answers[n][i].turn < n
  <2>1. a + i \in a + 1 .. z /\ answers[n][i] = stream[a + i]
    BY <1>1, <1>2, AnswerItems
  <2>2. QED
    BY <1>2, <2>1 DEF AnswerAt
<1>6. QED
  BY <1>3, <1>4, <1>5

\* An answer's places come after the first echo, and its items' first
\* occurrences do too.
LEMMA AnswersAreShielded ==
  ASSUME TypeOK, Story(stream, turn, echo), AnswersInv
  PROVE  EchoShieldsAnswer
<1>1. stream \in Seq(Item) /\ Len(stream) \in Nat
  BY DEF TypeOK
<1> SUFFICES ASSUME NEW n \in DOMAIN answers, NEW i \in DOMAIN answers[n], echo
             PROVE  SelectInSeq(stream, LAMBDA x : x = EchoOf(n))
                      < SelectInSeq(stream, LAMBDA x : x = answers[n][i])
  BY DEF EchoShieldsAnswer
<1>2. PICK a \in 0..Len(stream), z \in 0..Len(stream) : AnswerAt(n, a, z)
  BY DEF AnswersInv
<1>3. a \in 1..Len(stream) /\ stream[a] = EchoOf(n)
  BY <1>1, <1>2 DEF AnswerAt
<1> DEFINE v == answers[n][i]
           E == { j \in 1..Len(stream) : stream[j] = EchoOf(n) }
           X == { j \in 1..Len(stream) : stream[j] = v }
<1>4. /\ i \in Nat \ {0} /\ a + i \in a + 1 .. z /\ a + i \in 1..Len(stream)
      /\ v = stream[a + i] /\ stream[a + i] \in Item
  BY <1>1, <1>2, AnswerItems
<1>5. \A q \in 1..Len(stream) : stream[q] = v => a < q
  <2> TAKE q \in 1..Len(stream)
  <2>1. CASE v = TextOf(n)
    BY <1>2, <2>1 DEF AnswerAt
  <2>2. CASE stream[a + i].kind = "chatter"
    <3>1. stream[q] = v => a + i = q
      BY <1>4, <2>2 DEF Story
    <3>2. a < a + i
      BY <1>3, <1>4
    <3>3. QED
      BY <3>1, <3>2
  <2>3. QED
    BY <1>2, <1>4, <2>1, <2>2 DEF AnswerAt
<1>6. /\ SelectInSeq(stream, LAMBDA x : x = EchoOf(n)) = IF E # {} THEN Min(E) ELSE 0
      /\ SelectInSeq(stream, LAMBDA x : x = v) = IF X # {} THEN Min(X) ELSE 0
  BY Zenon DEF SelectInSeq
<1>7. E \in SUBSET Nat /\ X \in SUBSET Nat /\ a \in E /\ a + i \in X
  BY <1>1, <1>3, <1>4
<1>8. \A j \in X : a < j
  BY <1>5
<1> HIDE DEF E, X, v
<1>9. Min(E) \in E /\ Min(E) <= a
  BY <1>7, FirstPlace
<1>10. Min(X) \in X /\ a < Min(X)
  BY <1>7, <1>8, FirstPlace
<1>11. Min(E) < Min(X)
  <2>1. \A p, q, r \in Nat : p <= r /\ r < q => p < q
    OBVIOUS
  <2>2. Min(E) \in Nat /\ Min(X) \in Nat /\ a \in Nat
    BY <1>7, <1>9, <1>10, Zenon
  <2>3. QED
    BY <1>9, <1>10, <2>1, <2>2, Zenon
<1>12. E # {} /\ X # {}
  BY <1>7
<1>13. QED
  BY <1>6, <1>11, <1>12, Zenon DEF v

\* An answer is the agent's whole reply to its own envelope, however the
\* reader, the pump and the channel between them cut the output, whatever the
\* turn before left in them, and however many turns there are (pump,
\* ConverseTurn, findLineAnchoredMarker, stripEnvelopeEcho).
THEOREM ProcessAnswerIsWholeReply == Spec => []AnswerIsWholeReply
<1>1. Init => TypeOK /\ ProcessInv
  BY TypeInit, ProcessInit
<1>2. TypeOK /\ ProcessInv /\ [Next]_vars => TypeOK' /\ ProcessInv'
  BY TypeStep, ProcessStep
<1>3. TypeOK /\ ProcessInv => AnswerIsWholeReply
  BY AnswersAreWhole DEF ProcessInv
<1>4. QED
  BY <1>1, <1>2, <1>3, PTL DEF Spec

\* Where the terminal echoes, nothing put out before an envelope was written
\* comes back in the answer to it (stripEnvelopeEcho).
THEOREM ProcessEchoShieldsAnswer == Spec => []EchoShieldsAnswer
<1>1. Init => TypeOK /\ ProcessInv
  BY TypeInit, ProcessInit
<1>2. TypeOK /\ ProcessInv /\ [Next]_vars => TypeOK' /\ ProcessInv'
  BY TypeStep, ProcessStep
<1>3. TypeOK /\ ProcessInv => EchoShieldsAnswer
  BY AnswersAreShielded DEF ProcessInv
<1>4. QED
  BY <1>1, <1>2, <1>3, PTL DEF Spec
=============================================================================
