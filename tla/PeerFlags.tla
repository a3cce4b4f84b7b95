------------------------------ MODULE PeerFlags ------------------------------
(***************************************************************************)
(* The converse command up to its conversation: the grammar of --peer      *)
(* (internal/cli/converse_npeer.go), the validation of both paths          *)
(* (converse.go, converse_npeer_run.go), the conversation they build, the  *)
(* spawn specification each peer gets from it                              *)
(* (internal/peer/provider/spawner.go) and the seed of the first envelope. *)
(*                                                                         *)
(* A text is a sequence of tokens: the characters the scanner looks at, and*)
(* words without any of them.                                              *)
(***************************************************************************)
EXTENDS Integers, SequencesExt

CONSTANTS
  CommandLines,   \* the command lines before the last words are typed
  Typed,          \* the tokens typed at the end of the last --peer; a line's
                  \* room bounds how many
  MaxNPeers       \* maxNPeers

Special == {",", "=", "quote", "backslash", "space"}
Empty == <<>>

\* What PeerID.Validate accepts of the words used here.
Lowercase == {"a", "b", "alice", "bob", "carol", "dave"}
ValidID(text) == text # Empty /\ \A i \in DOMAIN text : text[i] \in Lowercase

Tokens == Seq(STRING)

OptionKeys == {"model", "reasoning-effort", "cwd", "home"}

\* What the flag package and the two flag types of the command deliver; an
\* option that nobody set reads as the empty text.
Parsed(line) ==
  /\ DOMAIN line = {"flags", "room", "peerA", "peerB", "seed", "seedA", "seedB", "opener",
                    "optionsA", "optionsB", "workingDir", "supported",
                    "maxTurns", "perTurn", "overall"}
  /\ line.flags \in Seq(Tokens)
  /\ OptionKeys \subseteq DOMAIN line.optionsA
  /\ OptionKeys \subseteq DOMAIN line.optionsB
  /\ line.maxTurns \in Int /\ line.perTurn \in Int /\ line.overall \in Int

ASSUME FlagsAssumption ==
  /\ MaxNPeers \in Nat /\ MaxNPeers >= 2
  /\ Typed \subseteq STRING
  /\ \A line \in CommandLines : Parsed(line) /\ (line.room > 0 => line.flags # <<>>)

VARIABLES
  args,       \* the command line
  typed,      \* how many tokens were typed
  stage,      \* "typing", "refused", "accepted", "failed" or "open"
  conv,       \* the conversation built from it
  spawned,    \* the specifications of the peers started so far, in order
  seedSent    \* the seed in the first envelope

flagVars == <<args, typed, stage, conv, spawned, seedSent>>

FlagsInit ==
  /\ args \in CommandLines
  /\ typed = 0
  /\ stage = "typing"
  /\ conv = [peers |-> <<>>]
  /\ spawned = <<>>
  /\ seedSent = Empty

----------------------------------------------------------------------------
\* parseKeyValueList: one pass over the tokens.

Between(text, first, last) == IF first = 0 THEN Empty ELSE SubSeq(text, first, last)

TrimSpace(text) ==
  Between(text, SelectInSeq(text, LAMBDA t : t # "space"),
                SelectLastInSeq(text, LAMBDA t : t # "space"))

Scanning == [mode |-> "start", key |-> Empty, value |-> Empty, pairs |-> <<>>]

In(st, mode) == [st EXCEPT !.mode = mode]
Wrong(st)    == In(st, "error")
Grow(st, t)  == [st EXCEPT !.value = Append(@, t)]

\* The pair is complete.
Emit(st, value, mode) ==
  [st EXCEPT !.pairs = Append(@, [key |-> st.key, value |-> value]), !.mode = mode]

\* Slip: a backslash is only an escape before a quote.
EscapeQuoteOnly(st, t) ==
  In(IF t = "quote" THEN Grow(st, t) ELSE Grow(Grow(st, "backslash"), t), "quoted")

\* After a backslash: an escaped token, or the backslash itself and the token.
Escape(st, t) ==
  In(IF t \in {"quote", "backslash"} THEN Grow(st, t) ELSE Grow(Grow(st, "backslash"), t), "quoted")

Scan(st, t) ==
  CASE st.mode = "error" -> st
    [] st.mode = "start" ->
         IF t = "space" THEN st
         ELSE IF t \in {"=", ","} THEN Wrong(st)
         ELSE [In(st, "key") EXCEPT !.key = <<t>>, !.value = Empty]
    [] st.mode = "key" ->
         IF t = "=" THEN [In(st, "value") EXCEPT !.key = TrimSpace(@)]
         ELSE IF t = "," THEN Wrong(st)
         ELSE [st EXCEPT !.key = Append(@, t)]
    [] st.mode \in {"value", "bare"} ->
         IF t = "," THEN Emit(st, TrimSpace(st.value), "start")
         ELSE IF t = "quote" /\ st.mode = "value" THEN In(st, "quoted")
         ELSE In(Grow(st, t), "bare")
    [] st.mode = "quoted" ->
         IF t = "quote" THEN Emit(st, st.value, "after")
         ELSE IF t = "backslash" THEN In(st, "escape")
         ELSE Grow(st, t)
    [] st.mode = "escape" -> Escape(st, t)
    [] st.mode = "after" -> IF t = "," THEN In(st, "start") ELSE Wrong(st)

\* The end of the text: a bare value may be unfinished, a quoted one may not.
Finish(st) == IF st.mode \in {"value", "bare"} THEN Emit(st, TrimSpace(st.value), "start") ELSE st

Pairs(st) == [ok |-> st.mode \in {"start", "after"}, pairs |-> st.pairs]

parseKeyValueList(raw) == Pairs(Finish(FoldLeft(Scan, Scanning, raw)))

----------------------------------------------------------------------------
\* parsePeerSpec and parseNPeerSpecs.

AllowedKeys == {"id", "provider", "seed"} \cup OptionKeys

\* The value of a key, the last one given, empty if there is none.
Value(pairs, key) ==
  LET i == SelectLastInSeq(pairs, LAMBDA kv : kv.key = <<key>>)
  IN  IF i = 0 THEN Empty ELSE pairs[i].value

\* A declaration from its pairs.
Declaration(parsed) ==
  [ok |-> /\ parsed.ok
          /\ \A i \in DOMAIN parsed.pairs : \E k \in AllowedKeys : parsed.pairs[i].key = <<k>>
          /\ ValidID(Value(parsed.pairs, "id"))
          /\ Value(parsed.pairs, "provider") # Empty,
   id |-> Value(parsed.pairs, "id"),
   provider |-> Value(parsed.pairs, "provider"),
   seed |-> Value(parsed.pairs, "seed"),
   options |-> [k \in OptionKeys |-> Value(parsed.pairs, k)]]

parsePeerSpec(raw) == Declaration(parseKeyValueList(raw))

FirstNonEmpty(x, y) == IF x # Empty THEN x ELSE y

Ids(decls) == { decls[i].id : i \in DOMAIN decls }

\* The declarations, each with its own seed or the one of --seed.
Declared(flags, seed) ==
  [i \in DOMAIN flags |-> [parsePeerSpec(flags[i]) EXCEPT !.seed = FirstNonEmpty(@, seed)]]

\* Slip: an id may be declared again.
AnyIds(decls) == TRUE

\* No id is declared a second time.
DistinctIds(decls) == \A i, j \in DOMAIN decls : decls[i].id = decls[j].id => i = j

\* Every declaration is well formed and has a seed.
Complete(decls) == \A i \in DOMAIN decls : decls[i].ok /\ decls[i].seed # Empty

\* --opener a is the legacy default and means the first declared peer.
NoOpener == {Empty, <<"a">>}

\* The checks on the declarations as a whole.
NPeerConfig(decls, opener) ==
  [ok |-> /\ Len(decls) \in 2..MaxNPeers
          /\ Complete(decls) /\ DistinctIds(decls)
          /\ opener \in NoOpener \/ opener \in Ids(decls),
   peers |-> decls,
   opener |-> IF opener \in NoOpener /\ decls # <<>> THEN decls[1].id ELSE opener]

parseNPeerSpecs(flags, seed, opener) == NPeerConfig(Declared(flags, seed), opener)

----------------------------------------------------------------------------
\* The commands' validation.

\* The shared knobs; a timeout below zero is not refused.
KnobsValid(line) ==
  /\ line.supported                       \* terminator, bus, log backend, style, directory
  /\ line.maxTurns >= 1 /\ line.maxTurns <= 500
  /\ line.perTurn >= 1 /\ line.perTurn <= 3600
  /\ line.overall <= 86400

\* --peer-a and --peer-b, their seeds and their opener.
LegacyValid(line) ==
  /\ line.peerA # Empty /\ line.peerB # Empty
  /\ IF line.seed = Empty
     THEN line.seedA # Empty /\ line.seedB # Empty
     ELSE line.seedA = Empty /\ line.seedB = Empty
  /\ line.opener \in {<<"a">>, <<"b">>}
  /\ KnobsValid(line)

NPeerValid(line, cfg) ==
  /\ line.peerA = Empty /\ line.peerB = Empty
  /\ cfg.ok
  /\ KnobsValid(line)

----------------------------------------------------------------------------
\* The conversation.

\* Slip: --working-directory wins over the peer's own.
OverrideCwd(options, dir) == [options EXCEPT !["cwd"] = FirstNonEmpty(dir, @)]

\* --working-directory is for peers without a cwd of their own.
InjectCwd(options, dir) == [options EXCEPT !["cwd"] = FirstNonEmpty(@, dir)]

Participant(id, provider, options, line) ==
  [id |-> id, provider |-> provider, options |-> InjectCwd(options, line.workingDir)]

\* --overall-timeout, or enough for every turn; within the knobs' limits the
\* product does not overflow.
Budget(line) == IF line.overall = 0 THEN line.maxTurns * line.perTurn ELSE line.overall

\* The legacy fields only; seeds says what each peer was meant to be given.
LegacyConversation(line) ==
  [peers  |-> << Participant(<<"a">>, line.peerA, line.optionsA, line),
                 Participant(<<"b">>, line.peerB, line.optionsB, line) >>,
   seeds  |-> [id \in {<<"a">>, <<"b">>} |->
                 FirstNonEmpty(IF id = <<"a">> THEN line.seedA ELSE line.seedB, line.seed)],
   seedA  |-> FirstNonEmpty(line.seedA, line.seed),
   seedB  |-> FirstNonEmpty(line.seedB, line.seed),
   opener |-> line.opener,
   budget |-> Budget(line)]

\* toV2Conversation and runNPeerConverse: SeedA and SeedB stay empty.
NPeerConversation(line, cfg) ==
  [peers  |-> [i \in DOMAIN cfg.peers |->
                 Participant(cfg.peers[i].id, cfg.peers[i].provider, cfg.peers[i].options, line)],
   seeds  |-> [id \in Ids(cfg.peers) |->
                 cfg.peers[CHOOSE i \in DOMAIN cfg.peers : cfg.peers[i].id = id].seed],
   seedA  |-> Empty,
   seedB  |-> Empty,
   opener |-> cfg.opener,
   budget |-> Budget(line)]

\* The words still being typed; the command is not started yet.
Type(t) ==
  /\ stage = "typing"
  /\ typed < args.room
  /\ args' = [args EXCEPT !.flags[Len(args.flags)] = Append(@, t)]
  /\ typed' = typed + 1
  /\ UNCHANGED <<stage, conv, spawned, seedSent>>

\* Any --peer takes the N-peer path.  A refused command exits with 2.
Submit ==
  /\ stage = "typing"
  /\ IF args.flags # <<>>
     THEN \E cfg \in {parseNPeerSpecs(args.flags, args.seed, args.opener)} :
            IF NPeerValid(args, cfg)
            THEN stage' = "accepted" /\ conv' = NPeerConversation(args, cfg)
            ELSE stage' = "refused" /\ UNCHANGED conv
     ELSE IF LegacyValid(args)
          THEN stage' = "accepted" /\ conv' = LegacyConversation(args)
          ELSE stage' = "refused" /\ UNCHANGED conv
  /\ UNCHANGED <<args, typed, spawned, seedSent>>

----------------------------------------------------------------------------
\* The peers and the first envelope.

Providers == {<<"claude-code">>, <<"claudecode">>, <<"codex">>}
AllowedEnv == {"ANTHROPIC_API_KEY", "OPENAI_API_KEY", "MOCK_RESPONSE",
               "MOCK_SENTINEL_AT_TURN", "MOCK_DELAY_MS"}

\* The forwarded variables (an option env_K is shown as K), and the two options that become variables.
buildPeerEnv(options) ==
  [k \in ((DOMAIN options) \cap AllowedEnv)
         \cup { v \in {"VITIS_MODEL", "VITIS_REASONING_EFFORT"} :
                  options[IF v = "VITIS_MODEL" THEN "model" ELSE "reasoning-effort"] # Empty } |->
     options[CASE k = "VITIS_MODEL" -> "model"
               [] k = "VITIS_REASONING_EFFORT" -> "reasoning-effort"
               [] OTHER -> k]]

\* What the operating system gives a peer that asks for nothing.
OsCwd  == <<"os-cwd">>
OsHome == <<"os-home">>

buildPersistentSpawnSpec(peer) ==
  [id   |-> peer.id,
   cwd  |-> FirstNonEmpty(peer.options["cwd"], OsCwd),
   home |-> FirstNonEmpty(peer.options["home"], OsHome),
   env  |-> buildPeerEnv(peer.options)]

\* The broker starts the peers in their order; an unknown provider ends it.
SpawnPeer ==
  /\ stage = "accepted"
  /\ Len(spawned) < Len(conv.peers)
  /\ LET peer == conv.peers[Len(spawned) + 1]
     IN  IF peer.provider \in Providers
         THEN spawned' = Append(spawned, buildPersistentSpawnSpec(peer)) /\ UNCHANGED stage
         ELSE stage' = "failed" /\ UNCHANGED spawned
  /\ UNCHANGED <<args, typed, conv, seedSent>>

\* seedFor: by slot, from the legacy fields.
seedFor(slot) == IF slot = <<"a">> THEN conv.seedA ELSE conv.seedB

OpenConversation ==
  /\ stage = "accepted"
  /\ Len(spawned) = Len(conv.peers)
  /\ stage' = "open"
  /\ seedSent' = seedFor(conv.opener)
  /\ UNCHANGED <<args, typed, conv, spawned>>

----------------------------------------------------------------------------
FlagsNext ==
  \/ \E t \in Typed : Type(t)
  \/ Submit \/ SpawnPeer \/ OpenConversation

FlagsSpec == FlagsInit /\ [][FlagsNext]_flagVars

----------------------------------------------------------------------------
\* Properties.

\* A value as it is written for the scanner: quoted, with both escapes.
Quoted(value) ==
  <<"quote">>
  \o FlattenSeq([i \in DOMAIN value |->
       IF value[i] \in {"quote", "backslash"} THEN <<"backslash", value[i]>> ELSE <<value[i]>>])
  \o <<"quote">>

Written(pairs) ==
  FlattenSeq([i \in DOMAIN pairs |->
    (IF i = 1 THEN <<>> ELSE <<",">>) \o pairs[i].key \o <<"=">> \o Quoted(pairs[i].value)])

\* Every value a --peer flag was understood to hold can be written with quotes
\* and escapes, commas, quotes, backslashes and spaces included, and is then
\* understood to be the same (parseKeyValueList).
ValuesSurvive ==
  \A parsed \in { parseKeyValueList(args.flags[i]) : i \in DOMAIN args.flags } :
    parsed.ok => parseKeyValueList(Written(parsed.pairs)) = parsed

\* What the command accepts is what module Broker takes for granted: at least
\* two peers, no more than the limit, distinct well-formed ids, an opener
\* among them, a seed for everyone, and time unless --overall-timeout is below
\* zero.
AcceptedMeetsBroker ==
  stage \in {"accepted", "failed", "open"} =>
    /\ Len(conv.peers) \in 2..MaxNPeers
    /\ \A i, j \in DOMAIN conv.peers : conv.peers[i].id = conv.peers[j].id => i = j
    /\ \A i \in DOMAIN conv.peers :
         /\ ValidID(conv.peers[i].id)
         /\ conv.peers[i].provider # Empty
         /\ conv.seeds[conv.peers[i].id] # Empty
    /\ conv.opener \in { conv.peers[i].id : i \in DOMAIN conv.peers }
    /\ args.maxTurns >= 1
    /\ args.overall >= 0 => conv.budget > 0

\* A specification for the peer of this id with the options it was given.
SpawnedAs(given, id, asked) ==
  /\ given.id = id
  /\ asked["cwd"] # Empty => given.cwd = asked["cwd"]
  /\ asked["cwd"] = Empty => given.cwd = FirstNonEmpty(args.workingDir, OsCwd)
  /\ ("VITIS_MODEL" \in DOMAIN given.env) = (asked["model"] # Empty)
  /\ "VITIS_MODEL" \in DOMAIN given.env => given.env["VITIS_MODEL"] = asked["model"]
  /\ DOMAIN given.env \subseteq AllowedEnv \cup {"VITIS_MODEL", "VITIS_REASONING_EFFORT"}

\* Each peer is spawned as its own flag says: the i-th process is the i-th
\* peer's, in its own directory before the shared one before the caller's,
\* with its own model, and no variable the allowlist does not have
\* (toV2Conversation, mergeOptions, buildPersistentSpawnSpec, buildPeerEnv).
PeerGetsItsOwn ==
  \A i \in DOMAIN spawned :
    IF args.flags = <<>>
    THEN SpawnedAs(spawned[i], <<IF i = 1 THEN "a" ELSE "b">>,
                   IF i = 1 THEN args.optionsA ELSE args.optionsB)
    ELSE \E own \in {parseKeyValueList(args.flags[i]).pairs} :
           SpawnedAs(spawned[i], Value(own, "id"), [k \in OptionKeys |-> Value(own, k)])

\* The opening envelope carries the opener's seed: its own seed= when it has
\* one, else --seed.
SeedIsDelivered == stage = "open" => seedSent = conv.seeds[conv.opener]
=============================================================================
