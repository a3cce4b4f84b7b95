------------------------------ MODULE RestApi ------------------------------
(***************************************************************************)
(* The REST handlers of `vitis serve' (internal/api/handlers_rest.go) over *)
(* the file store, and a client that walks through a listing.  The server  *)
(* and the process that writes the store are different ones: between two   *)
(* pages records may be created, updated or half written.                  *)
(***************************************************************************)
EXTENDS FileStore

CONSTANTS
    MaxLimit,     \* maxLimit
    DefaultLimit, \* the limit of a request that names none
    Limits        \* the limits the client may ask for

ASSUME ApiAssumption ==
    /\ MaxLimit \in Nat \ {0} /\ DefaultLimit \in 1 .. MaxLimit
    /\ Limits \subseteq Nat

VARIABLE walk     \* the client: its limit, where it is, what it has seen

allVars == <<vars, walk>>

\* A query parameter is a set: empty when it is absent or not a number.
parsePagination(limit, offset) ==
  [limit  |-> IF limit \ {0} = {} THEN DefaultLimit
              ELSE CHOOSE m \in 1 .. MaxLimit : \E n \in limit : m = IF n > MaxLimit THEN MaxLimit ELSE n,
   offset |-> IF offset = {} THEN 0 ELSE CHOOSE n \in offset : TRUE]

\* A slip: the answer repeats the limit that was asked for.
ListAsAsked(status, limit, offset) ==
  LET p == parsePagination(limit, offset)
      all == Listed(status)
  IN  [data |-> Page(all, p.offset, p.limit), total |-> Len(all),
       limit |-> IF limit \ {0} = {} THEN p.limit ELSE CHOOSE n \in limit : TRUE, offset |-> p.offset]

\* handleListSessions and handleListConversations: a page, how many records
\* there are, and the limit and offset that were used.
ListResponse(status, limit, offset) ==
  LET p == parsePagination(limit, offset)
      all == Listed(status)
  IN  [data |-> Page(all, p.offset, p.limit), total |-> Len(all),
       limit |-> p.limit, offset |-> p.offset]

\* handleGetSession and handleGetConversation, of an id that isValidID accepts;
\* any other is answered with 400 before the store is asked.
GetResponse(id) ==
  CASE GetRecord(id) = Absent -> 404
    [] GetRecord(id) = Torn   -> 500
    [] OTHER                  -> 200

\* handleListTurns asks for all of them.
TurnsResponse(id) == [code |-> IF PeekTurns(id, 0).ok THEN 200 ELSE 500, data |-> PeekTurns(id, 0).turns]

-----------------------------------------------------------------------------
\* The client.

Born(recs) == {rec.created : rec \in recs}

ApiInit ==
  /\ Init
  /\ walk = [at |-> "start", limit |-> {}, offset |-> 0, base |-> {}, seen |-> {}]

\* Its first request, at any moment of the store.
FirstPage(limit) ==
  /\ walk.at = "start"
  /\ LET readable == {id \in Ids : GetResponse(id) = 200}
     IN  walk' = [at |-> "next", limit |-> limit, offset |-> 0,
                  base |-> Born({record[id] : id \in readable}), seen |-> {}]
  /\ UNCHANGED vars

\* A page; the next one begins where this one's offset and limit say.
NextPage ==
  /\ walk.at = "next"
  /\ LET page == ListResponse("any", walk.limit, {walk.offset})
     IN  walk' = [walk EXCEPT !.seen = @ \cup Born(Range(page.data)),
                              !.offset = page.offset + page.limit,
                              !.at = IF page.offset + page.limit >= page.total THEN "end" ELSE "next"]
  /\ UNCHANGED vars

ApiNext ==
  \/ Next /\ UNCHANGED walk
  \/ \E limit \in {{}} \cup {{n} : n \in Limits} : FirstPage(limit)
  \/ NextPage

ApiSpec == ApiInit /\ [][ApiNext]_allVars

-----------------------------------------------------------------------------

\* A client that pages through a whole listing with the limit and offset of
\* the answers meets every record that could be got when it began, though
\* records are created and updated between its pages (newest first puts new
\* records before the ones it has yet to see; parsePagination caps the limit).
WalkMissesNothing == walk.at = "end" => walk.base \subseteq walk.seen

\* Reading turns is all or nothing, in every moment of an append, after a
\* failed one and after a crash: a 200 has every turn whose append succeeded,
\* in the order of the indices whatever the order of the lines, and `vitis
\* peek' with a count gets the last ones of the same turns.
PeekIsAllOrNothing ==
  \A id \in Ids : LET all == TurnsResponse(id).data IN TurnsResponse(id).code = 200 =>
      /\ acked[id] \subseteq {all[i].index : i \in DOMAIN all}
      /\ \A i \in 1 .. Len(all) - 1 : all[i].index < all[i + 1].index
      /\ \A n \in 1 .. MaxTurns :
            /\ IsSuffix(PeekTurns(id, n).turns, all)
            /\ Len(PeekTurns(id, n).turns) = IF Len(all) < n THEN Len(all) ELSE n
=============================================================================
