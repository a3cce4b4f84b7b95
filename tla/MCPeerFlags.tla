----------------------------- MODULE MCPeerFlags -----------------------------
(* Command lines of both paths.  The tail of the last --peer is typed token *)
(* by token, so that every short value, quoted or not, is met.              *)
EXTENDS PeerFlags

Pair(key, value) == <<key, "=", value>>
Flag(id, provider, more) == Pair("id", id) \o <<",">> \o Pair("provider", provider) \o more

Line == [flags |-> <<>>, room |-> 0, peerA |-> Empty, peerB |-> Empty,
         seed |-> Empty, seedA |-> Empty, seedB |-> Empty, opener |-> <<"a">>,
         optionsA |-> [k \in OptionKeys |-> Empty], optionsB |-> [k \in OptionKeys |-> Empty],
         workingDir |-> Empty,
         supported |-> TRUE, maxTurns |-> 50, perTurn |-> 300, overall |-> 0]

Alice == Flag("alice", "codex", <<",", "seed", "=", "s1", ",", "model", "=", "m1">>)
Bob   == Flag("bob", "claude-code", <<",", "cwd", "=", "dir1", ",", "seed", "=">>)
Carol == Flag("carol", "codex", <<>>)
Legacy(seedA, seedB, seed) ==
  [Line EXCEPT !.peerA = <<"codex">>, !.peerB = <<"claude-code">>,
               !.seedA = seedA, !.seedB = seedB, !.seed = seed]

\* Several peers; the last flag ends where a seed may be typed.
NPeerLines ==
  { [Line EXCEPT !.flags = f, !.seed = s, !.opener = o, !.workingDir = w] :
      f \in { <<Bob>>, <<Alice, Bob>>, <<Bob, Alice>>, <<Carol, Alice, Bob>>,
              <<Alice, Carol, Carol>>, <<Alice, Flag("a", "mock", <<>>)>>,
              <<Alice, Carol, Bob, Bob>> },
      s \in { Empty, <<"s0">> },
      o \in { <<"a">>, <<"bob">>, <<"dave">> },
      w \in { Empty, <<"dir0">> } }

Vars == [k \in OptionKeys \cup {"OPENAI_API_KEY", "LD_PRELOAD"} |->
           IF k = "cwd" THEN Empty ELSE <<"v">>]

LegacyLines ==
  { [Legacy(sa, sb, s) EXCEPT !.opener = o, !.optionsA = oa, !.optionsB = ob, !.workingDir = <<"dir0">>] :
      sa \in {Empty, <<"s1">>}, sb \in {Empty, <<"s2">>}, s \in {Empty, <<"s0">>},
      o \in {<<"a">>, <<"b">>, <<"c">>}, oa \in {Line.optionsA, Vars},
      ob \in {Line.optionsB, [Line.optionsB EXCEPT !["cwd"] = <<"dir1">>, !["model"] = <<"m2">>]} }

KnobLines ==
  { [Legacy(Empty, Empty, <<"s0">>) EXCEPT !.maxTurns = m, !.perTurn = p, !.overall = v, !.supported = ok] :
      m \in {0, 1, 500, 501}, p \in {0, 1, 3600, 3601}, v \in {-1, 0, 86400, 86401}, ok \in BOOLEAN }

\* Where a value is typed: every text of up to five tokens after seed=.
TypedLine == [Line EXCEPT !.flags = <<Alice, Bob>>, !.workingDir = <<"dir0">>, !.room = 5]

MCCommandLines == {TypedLine} \cup NPeerLines \cup LegacyLines \cup KnobLines
                  \cup { [Line EXCEPT !.flags = <<Alice, Carol>>, !.peerA = <<"codex">>] }

MCTyped == {",", "=", "quote", "backslash", "space", "s3"}
=============================================================================
