------------------------------ MODULE FileStore ------------------------------
(***************************************************************************)
(* The file store: one JSON file per record (a session or a conversation)  *)
(* replaced through a temporary file, and one JSONL file of turns.  The    *)
(* store's mutex lets one operation run at a time in the writing process,  *)
(* so an operation is a sequence of file-system steps that interleaves     *)
(* only with a failure, a crash and restart, and reads.  The reads take no *)
(* lock the writer heeds (`vitis serve` and `vitis peek` are other         *)
(* processes): they are functions of the disk, and what is claimed of them *)
(* is claimed of every state of the disk.                                  *)
(***************************************************************************)
EXTENDS Integers, Sequences, FiniteSets, SequencesExt

CONSTANTS
    Ids,          \* the records
    V2Ids,        \* the ones that, as conversations, have Peers, Seeds or an OpenerID
    Talkers,      \* the records that are given turns
    MaxTurns,     \* turns per record
    LongTurns,    \* the indices of turns whose line is over 64 KiB
    HugeTurns,    \* of those, the ones over 1 MiB
    Trouble       \* what may happen: "write", "rename", "append", "crash"

ASSUME StoreAssumption ==
    /\ IsFiniteSet(Ids)
    /\ V2Ids \subseteq Ids /\ Talkers \subseteq Ids /\ MaxTurns \in Nat
    /\ LongTurns \subseteq 1 .. MaxTurns /\ HugeTurns \subseteq LongTurns
    /\ Trouble \subseteq {"write", "rename", "append", "crash"}

VARIABLES
    kind,         \* "session" or "conversation": which pair of files, fixed
    record,       \* record[id] : the file <id>.json
    tmp,          \* the <id>.json.tmp of the operation that holds the mutex
    log,          \* log[id] : the turns in <id>.jsonl
    open,         \* open[id] : the last line has no newline yet
    op,           \* the operation that holds the mutex
    acked         \* acked[id] : the turns whose append returned nil

vars == <<kind, record, tmp, log, open, op, acked>>

Absent == [file |-> "absent"]
Torn   == [file |-> "torn"]

\* created stands for CreatedAt or StartedAt; v2 says that the record has
\* Peers, Seeds or an OpenerID.
Versions == {0, 2}
Records == [file : {"whole"}, status : {"running", "ended"},
            created : 1 .. Cardinality(Ids), v2 : BOOLEAN, version : Versions]

NoOp == [do |-> "none"]

Init ==
  /\ kind \in {"session", "conversation"}
  /\ record = [id \in Ids |-> Absent]
  /\ tmp = Absent
  /\ log = [id \in Ids |-> <<>>]
  /\ open = [id \in Ids |-> FALSE]
  /\ op = NoOp
  /\ acked = [id \in Ids |-> {}]

-----------------------------------------------------------------------------
\* Records: writeJSONAtomic.

stampSchemaVersion(rec) ==
  IF rec.version # 0 \/ ~rec.v2 THEN rec ELSE [rec EXCEPT !.version = 2]

Mine == op = NoOp

\* A slip: os.WriteFile on the file itself.
WriteInPlace(id, rec) ==
  /\ op' = [do |-> "write", id |-> id, rec |-> rec]
  /\ record' = [record EXCEPT ![id] = Torn]
  /\ UNCHANGED tmp

\* os.WriteFile has truncated the temporary file and is writing.
writeJSONAtomic(id, rec) ==
  /\ op' = [do |-> "write", id |-> id, rec |-> rec]
  /\ tmp' = Torn
  /\ UNCHANGED record

\* The first creation time that no record has: callers create one record at a
\* time, each with the current time.
Now == 1 + Cardinality({id \in Ids : record[id] # Absent})

Create(id) ==
  /\ Mine /\ record[id] = Absent
  /\ writeJSONAtomic(id, stampSchemaVersion(
        [file |-> "whole", status |-> "running", created |-> Now,
         v2 |-> kind = "conversation" /\ id \in V2Ids, version |-> 0]))
  /\ UNCHANGED <<kind, log, open, acked>>

\* A slip: the patch is written without the record it patches.
PatchOnly(id) ==
  /\ Mine /\ record[id].file = "whole"
  /\ writeJSONAtomic(id, [record[id] EXCEPT !.status = "ended", !.v2 = FALSE,
                                            !.version = 0])
  /\ UNCHANGED <<kind, log, open, acked>>

\* The fields the patch names are replaced, the others stay.
Patched(rec) == [rec EXCEPT !.status = "ended"]

\* Update of a record that cannot be read returns an error and changes nothing.
Update(id) ==
  /\ Mine /\ record[id].file = "whole"
  /\ writeJSONAtomic(id, Patched(record[id]))
  /\ UNCHANGED <<kind, log, open, acked>>

WriteFileReturns ==
  /\ op.do = "write"
  /\ tmp' = op.rec
  /\ op' = [op EXCEPT !.do = "rename"]
  /\ UNCHANGED <<kind, record, log, open, acked>>

\* The deferred Remove is not registered yet: the torn file stays, but nobody
\* ever reads it (listings take names that end in .json, and the next write of
\* this record truncates it), so it leaves the model.
WriteFileFails ==
  /\ "write" \in Trouble
  /\ op.do = "write"
  /\ tmp' = Absent
  /\ op' = NoOp
  /\ UNCHANGED <<kind, record, log, open, acked>>

Rename ==
  /\ op.do = "rename"
  /\ record' = [record EXCEPT ![op.id] = tmp]
  /\ tmp' = Absent
  /\ op' = NoOp
  /\ UNCHANGED <<kind, log, open, acked>>

RenameFails ==
  /\ "rename" \in Trouble
  /\ op.do = "rename"
  /\ tmp' = Absent
  /\ op' = NoOp
  /\ UNCHANGED <<kind, record, log, open, acked>>

-----------------------------------------------------------------------------
\* Turns: appendJSONL.  A turn is "bad" when the line it stands on is not the
\* JSON text of that turn alone: a part of it, or two that share a line because
\* the first has no newline.  An append that fails before it writes (OpenFile)
\* changes nothing and needs no action.

Attempted(id) == {log[id][i].index : i \in DOMAIN log[id]}

AppendTurn(id, index) ==
  /\ Mine /\ index \notin Attempted(id)
  /\ op' = [do |-> "append", id |-> id, index |-> index, glued |-> open[id]]
  /\ log' = [log EXCEPT ![id] =
                Append(IF open[id] THEN [@ EXCEPT ![Len(@)].text = "bad"] ELSE @,
                       [index |-> index, text |-> "bad"])]
  /\ open' = [open EXCEPT ![id] = TRUE]
  /\ UNCHANGED <<kind, record, tmp, acked>>

LastTurn(text) ==
  log' = [log EXCEPT ![op.id][Len(log[op.id])].text = IF op.glued THEN "bad" ELSE text]

AppendReturns ==
  /\ op.do = "append"
  /\ LastTurn("whole")
  /\ open' = [open EXCEPT ![op.id] = FALSE]
  /\ acked' = [acked EXCEPT ![op.id] = @ \cup {op.index}]
  /\ op' = NoOp
  /\ UNCHANGED <<kind, record, tmp>>

\* A short write: some of the text, or all of it but the newline.
AppendFails ==
  /\ "append" \in Trouble
  /\ op.do = "append"
  /\ \E text \in {"bad", "whole"} : LastTurn(text)
  /\ op' = NoOp
  /\ UNCHANGED <<kind, record, tmp, open, acked>>

\* The writing process dies in the middle of an operation and another one goes
\* on with the files it left: a temporary file, or a line that has no newline.
Crash ==
  /\ "crash" \in Trouble /\ ~Mine
  /\ IF op.do = "append" THEN \E text \in {"bad", "whole"} : LastTurn(text)
                         ELSE UNCHANGED log
  /\ op' = NoOp
  /\ tmp' = Absent
  /\ UNCHANGED <<kind, record, open, acked>>

Next ==
  \/ \E id \in Ids : Create(id) \/ Update(id)
  \/ WriteFileReturns \/ WriteFileFails \/ Rename \/ RenameFails
  \/ \E id \in Talkers, index \in 1 .. MaxTurns : AppendTurn(id, index)
  \/ AppendReturns \/ AppendFails \/ Crash

Spec == Init /\ [][Next]_vars

-----------------------------------------------------------------------------
\* What a reader gets, at any moment and in any process.

GetRecord(id) == record[id]

\* sort.Slice, of a set by a key that no two of its members share.
Sorted(S, key) ==
  CHOOSE s \in [1 .. Cardinality(S) -> S] :
    \A i, j \in 1 .. Cardinality(S) : i < j => key[s[i]] < key[s[j]]

Shown(status) ==
  LET whole == {record[id] : id \in {i \in Ids : record[i].file = "whole"}}
  IN  {r \in whole : status \in {"any", r.status}}

\* Newest first.
Listed(status) == Sorted(Shown(status), [r \in Shown(status) |-> 0 - r.created])

Page(all, offset, limit) ==
  IF offset >= Len(all) THEN <<>>
  ELSE SubSeq(all, offset + 1, IF limit > 0 /\ Len(all) - offset > limit
                               THEN offset + limit ELSE Len(all))

\* bufio.Scanner gives up on a line that does not fit its buffer: 64 KiB for
\* the turns of a session, 1 MiB for those of a conversation.
TooLong(turn) == turn.index \in IF kind = "session" THEN LongTurns ELSE HugeTurns

Turns(turns) == [ok |-> TRUE, turns |-> turns]
Error == [ok |-> FALSE, turns |-> <<>>]

ByIndex(turns) ==
  LET places == Sorted(DOMAIN turns, [i \in DOMAIN turns |-> turns[i].index])
  IN  [i \in DOMAIN turns |-> turns[places[i]]]

LastN(turns, n) ==
  IF n > 0 /\ Len(turns) > n THEN SubSeq(turns, Len(turns) - n + 1, Len(turns)) ELSE turns

\* A slip: a line that does not decode is passed over.
PeekSkipping(id, n) ==
  Turns(LastN(ByIndex(SelectSeq(log[id], LAMBDA l : l.text = "whole")), n))

PeekTurns(id, n) ==
  IF \E i \in DOMAIN log[id] : log[id][i].text = "bad" \/ TooLong(log[id][i])
  THEN Error
  ELSE Turns(LastN(ByIndex(log[id]), n))

-----------------------------------------------------------------------------

TypeOK ==
  /\ kind \in {"session", "conversation"}
  /\ \A id \in Ids :
        /\ record[id] \in Records \cup {Absent, Torn}
        /\ log[id] \in Seq([index : 1 .. MaxTurns, text : {"bad", "whole"}])
        /\ open[id] \in BOOLEAN
        /\ acked[id] \subseteq 1 .. MaxTurns
  /\ tmp \in Records \cup {Absent, Torn}
  /\ op.do \in {"none", "write", "rename", "append"}

\* A record is never read torn: between any two file-system steps, after a
\* failed write or rename and after a crash, a reader finds no record or one
\* that was written whole, with the schema version its creation stamped on it
\* (writeJSONAtomic, stampSchemaVersion, UpdateConversation).
RecordIsWhole ==
  \A id \in Ids : GetRecord(id) # Absent =>
      /\ GetRecord(id).file = "whole"
      /\ GetRecord(id).version = IF GetRecord(id).v2 THEN 2 ELSE 0

\* A record that a reader has seen stays: no step, failed or not, removes it,
\* reopens it or changes what was stored at its creation.
RecordStays ==
  [][\A id \in Ids : record[id] # Absent =>
        /\ record'[id] = [record[id] EXCEPT !.status = record'[id].status]
        /\ record[id].status = "ended" => record'[id].status = "ended"]_vars
=============================================================================
