------------------------------ MODULE Adapters ------------------------------
(***************************************************************************)
(* The two provider adapters, claude-code and codex: what an idle or ended *)
(* process is taken for (Observe) and which part of a transcript is the    *)
(* answer (ExtractResponse).  A transcript is a sequence of lines, and a   *)
(* line is one of the kinds the adapters' patterns tell apart.             *)
(***************************************************************************)
EXTENDS Naturals, Sequences, FiniteSets, FiniteSetsExt, Functions

Providers == {"claude-code", "codex"}

\* "text" and "more" are ordinary words; "blank" is an empty line; ">",
\* "ready" (the heavy glyph) and "claude>" are Claude Code's prompts; "codex"
\* and "tokens" are the lines codex prints before and after its answer;
\* "login", "rate", "press" ("press enter", "(y/n)") and "approve" stand for
\* the patterns that look for those words.
LineKinds ==
    {"text", "more", "blank", ">", "ready", "claude>", "codex", "tokens",
     "login", "rate", "press", "approve"}

NoExit == 256     \* a nil *int: outside the range of exit codes

-----------------------------------------------------------------------------
\* Observe: a list of tests, of which the first that holds decides.

Rule(test, status, terminal) ==
    [when |-> test, then |-> [status |-> status, terminal |-> terminal]]

FirstRule(rules) ==
    LET holding == {i \in DOMAIN rules : rules[i].when}
    IN  rules[Min(holding)].then

MatchAny(kinds, tail) == Range(tail) \cap kinds # {}

ClaudeObserve(c) ==
    LET idle(kinds) == c.idle /\ MatchAny(kinds, c.tail)
        exited      == c.exitCode # NoExit
    IN  FirstRule(<<
            Rule(~c.bytesSeen /\ exited,     "partial",           TRUE),
            Rule(idle({"press"}),            "blocked_on_input",  TRUE),
            Rule(idle({"login"}),            "auth_required",     TRUE),
            Rule(idle({"rate"}),             "rate_limited",      TRUE),
            Rule(idle({"approve"}),          "permission_prompt", FALSE),
            Rule(exited /\ c.exitCode = 0,   "completed",         TRUE),
            Rule(exited,                     "crashed",           TRUE),
            Rule(idle({">", "claude>"}),     "completed",         TRUE),
            Rule(TRUE,                       "none",              FALSE)>>)

CodexObserve(c) ==
    LET idle(kinds) == c.idle /\ MatchAny(kinds, c.tail)
        exited      == c.exitCode # NoExit
    IN  FirstRule(<<
            Rule(exited /\ c.exitCode = 0,    "completed",        TRUE),
            Rule(exited,                      "crashed",          TRUE),
            Rule(idle({"login"}),             "auth_required",    TRUE),
            Rule(idle({"rate"}),              "rate_limited",     TRUE),
            Rule(idle({"press", "approve"}),  "blocked_on_input", TRUE),
            Rule(TRUE,                        "none",             FALSE)>>)

Observe(provider, c) ==
    IF provider = "codex" THEN CodexObserve(c) ELSE ClaudeObserve(c)

-----------------------------------------------------------------------------
\* ExtractResponse.

NotBlank(line) == line # "blank"

TrimSpace(lines) ==
    LET said == {i \in DOMAIN lines : NotBlank(lines[i])}
    IN  IF said = {} THEN <<>> ELSE SubSeq(lines, Min(said), Max(said))

\* splitBlocks: the maximal runs of lines that are not blank, as intervals.
Blocks(lines) ==
    {b \in (DOMAIN lines) \X (DOMAIN lines) :
        /\ b[1] <= b[2]
        /\ \A i \in b[1] .. b[2] : NotBlank(lines[i])
        /\ b[1] - 1 \in DOMAIN lines => ~NotBlank(lines[b[1] - 1])
        /\ b[2] + 1 \in DOMAIN lines => ~NotBlank(lines[b[2] + 1])}

BlockText(lines, b) == SubSeq(lines, b[1], b[2])

LastBlock(blocks) == CHOOSE b \in blocks : \A c \in blocks : c[2] <= b[2]

CleanNothing(block) == block               \* a slip: the prompts stay

\* The lines at the given places, in their order.
AtPlaces(lines, places) ==
    [j \in 1 .. Cardinality(places) |->
        lines[CHOOSE i \in places : Cardinality({k \in places : k <= i}) = j]]

\* The prompt glyphs go; a "claude>" line stays.
CleanBlock(block) ==
    AtPlaces(block, {i \in DOMAIN block : block[i] \notin {">", "ready"}})

LooksLikeNonResponse(block) ==
    \/ block = <<>>
    \/ block[1] \in {"login", "claude>"}
    \/ MatchAny({"press", "approve", "rate"}, block)

\* The last block that is a response once its prompts are dropped; failing
\* that the last line that is one; failing that nothing.
ClaudeExtract(lines) ==
    LET good  == {b \in Blocks(lines) :
                     ~LooksLikeNonResponse(CleanBlock(BlockText(lines, b)))}
        plain == {i \in DOMAIN lines : /\ NotBlank(lines[i])
                                       /\ ~LooksLikeNonResponse(<<lines[i]>>)}
    IN  IF good # {} THEN CleanBlock(BlockText(lines, LastBlock(good)))
        ELSE IF plain # {} THEN <<lines[Max(plain)]>>
        ELSE <<>>

\* A slip: the first section instead of the last.
FirstSection(lines) ==
    LET starts == {i \in DOMAIN lines : lines[i] = "codex"}
        start  == Min(starts)
        ends   == {i \in DOMAIN lines : i > start /\ lines[i] = "tokens"}
        end    == IF ends = {} THEN Len(lines) + 1 ELSE Min(ends)
    IN  IF starts = {} THEN <<>> ELSE TrimSpace(SubSeq(lines, start + 1, end - 1))

\* What stands between the last "codex" line and the last "tokens used" line
\* after it; failing that the last block.
CodexSection(lines) ==
    LET starts == {i \in DOMAIN lines : lines[i] = "codex"}
        start  == Max(starts)
        ends   == {i \in DOMAIN lines : i > start /\ lines[i] = "tokens"}
        end    == IF ends = {} THEN Len(lines) + 1 ELSE Max(ends)
    IN  IF starts = {} THEN <<>> ELSE TrimSpace(SubSeq(lines, start + 1, end - 1))

CodexExtract(lines) ==
    IF CodexSection(lines) # <<>> THEN CodexSection(lines)
    ELSE IF Blocks(lines) # {} THEN BlockText(lines, LastBlock(Blocks(lines)))
    ELSE <<>>

ExtractResponse(provider, lines) ==
    IF provider = "codex" THEN CodexExtract(lines) ELSE ClaudeExtract(lines)
=============================================================================
