------------------------ MODULE MCPersistentProcess ------------------------
(* An agent that talks, one that may be silent, close its terminal or go at  *)
(* any moment, and one that may leave a long envelope unread.                *)
EXTENDS PersistentProcess

Talkative == [text |-> 2, long |-> FALSE, trouble |-> {"chatter"}]
Troubled  == [text |-> 0, long |-> FALSE, trouble |-> {"detach", "exit", "context", "deadline"}]
Deaf      == [text |-> 0, long |-> TRUE, trouble |-> {"detach", "exit", "deadline"}]
MCScenes  == {Talkative, Troubled, Deaf}
=============================================================================
