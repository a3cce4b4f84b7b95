------------------------------ MODULE MCEvents ------------------------------
(* A few streams, and the changes the store's calls make to a conversation's *)
(* files: a turn appended, a record renamed into place, a temporary file.    *)
EXTENDS Events

MCChanges == { [file |-> "turns.jsonl", op |-> "write"],
               [file |-> "conversation.json", op |-> "create"],
               [file |-> "other", op |-> "create"] }
=============================================================================
