---------------------------- MODULE Conversation ----------------------------
(***************************************************************************)
(* What a conversation promises to whoever reads its result, without a     *)
(* word on how it is run: a log of turns, a floor that passes from peer to *)
(* peer as the replies ask, and one final status, given once, that is      *)
(* backed by the log.  Broker implements it.                               *)
(***************************************************************************)
EXTENDS TurnPolicy

CONSTANTS
  Replies,      \* the replies a peer may give
  Opener,       \* the peer that speaks first
  MaxTurns      \* Conversation.MaxTurns, the hard cap

VARIABLES
  log,          \* who said what, in order
  floor,        \* whose turn it is
  status,       \* the conversation's status
  cancelled     \* has the caller's context ended?

vars == <<log, floor, status, cancelled>>

Final == {"completed_sentinel", "max_turns_hit", "interrupted", "timeout", "error",
          "peer_crashed", "peer_blocked"}

SaidEnd == \E i \in DOMAIN log : ContainsOnOwnLine(log[i].reply)

Init ==
  /\ log = <<>>
  /\ floor = Opener
  /\ status = "running"
  /\ cancelled = FALSE

\* The holder of the floor speaks; its reply decides who speaks next.
Speak(reply) ==
  /\ status = "running"
  /\ Len(log) < MaxTurns
  /\ log' = Append(log, [from |-> floor, reply |-> reply])
  /\ floor' = Route(floor, reply).next
  /\ UNCHANGED <<status, cancelled>>

\* A status is final, and it is true of the log: the cap is reported only when
\* it was reached, and then always unless the context has ended too; a
\* sentinel only when a peer said it; an interruption or a timeout only when
\* the context has ended.
EndWith(s) ==
  /\ status = "running"
  /\ s = "max_turns_hit" => Len(log) = MaxTurns
  /\ Len(log) = MaxTurns /\ ~cancelled => s = "max_turns_hit"
  /\ s = "completed_sentinel" => SaidEnd
  /\ s \in {"interrupted", "timeout"} => cancelled
  /\ status' = s
  /\ UNCHANGED <<log, floor, cancelled>>

Cancel ==
  /\ ~cancelled
  /\ cancelled' = TRUE
  /\ UNCHANGED <<log, floor, status>>

Next ==
  \/ \E reply \in Replies : Speak(reply)
  \/ \E s \in Final : EndWith(s)
  \/ Cancel

Spec == Init /\ [][Next]_vars
=============================================================================
