----------------------------- MODULE Transcript -----------------------------
(***************************************************************************)
(* A transcript that grows line by line and what the adapters read out of  *)
(* it at every moment: Run calls ExtractResponse whenever the completion   *)
(* loop happens to end, so the answer has to be right after every line.    *)
(***************************************************************************)
EXTENDS Adapters

CONSTANT MaxGrowth    \* how long the transcript grows

VARIABLES
    adapter,          \* whose transcript it is
    lines             \* what has been printed

screenVars == <<adapter, lines>>

ScreenInit ==
  /\ adapter \in Providers
  /\ lines = <<>>

AppendLine(line) ==
  /\ Len(lines) < MaxGrowth
  /\ lines' = Append(lines, line)
  /\ UNCHANGED adapter

ScreenNext == \E line \in LineKinds : AppendLine(line)

ScreenSpec == ScreenInit /\ [][ScreenNext]_screenVars

-----------------------------------------------------------------------------

Answer == ExtractResponse(adapter, lines)

Words == {"text", "more"}

\* What a reader of the screen takes for the answer, without any parsing: for
\* Claude Code an uninterrupted paragraph of words that only prompts and blank
\* lines follow, for codex the words between a "codex" line and the end, with
\* or without the "tokens used" line.  A "claude>" prompt has to be set off by
\* a blank line: cleanBlock takes one that stands right under the paragraph
\* for a part of it.
ReadsAsAnswer(first, last) ==
  LET after == last + 1 .. Len(lines)
  IN  /\ \A i \in first .. last : lines[i] \in Words
      /\ IF adapter = "codex"
         THEN /\ first > 1
              /\ lines[first - 1] = "codex"
              /\ \/ after = {}
                 \/ after = {last + 1} /\ lines[last + 1] = "tokens"
         ELSE /\ first > 1 => lines[first - 1] = "blank"
              /\ \A i \in after :
                    \/ lines[i] \in {"blank", ">", "ready"}
                    \/ lines[i] = "claude>" /\ \E j \in after : j < i /\ lines[j] = "blank"

\* What reads as the answer is what ExtractResponse returns, whatever the
\* screen showed before it: older answers, banners, dialogs, other sections
\* (claudecode and codex ExtractResponse).
AnswerIsRead ==
  \A first \in 1 .. Len(lines) : \A last \in first .. Len(lines) :
      ReadsAsAnswer(first, last) => Answer = SubSeq(lines, first, last)

\* Whether the response came from a whole block or section and not from the
\* low-confidence fallbacks.
Confident ==
  IF adapter = "codex"
  THEN CodexSection(lines) # <<>>
  ELSE \E b \in Blocks(lines) :
          ~LooksLikeNonResponse(CleanBlock(BlockText(lines, b)))

\* The completion loop may end a tick earlier or later: a prompt glyph, an
\* empty line or, after an empty line, a "claude>" prompt that Claude Code
\* draws after its answer, and the first "tokens used" line of codex, leave
\* the response as it was.
AnswerIsStable ==
  [][LET line == lines'[Len(lines')]
     IN  Confident /\ \/ adapter = "claude-code" /\ line \in {"blank", ">", "ready"}
                      \/ adapter = "claude-code" /\ line = "claude>"
                            /\ lines[Len(lines)] = "blank"
                      \/ adapter = "codex" /\ line = "tokens"
                            /\ "tokens" \notin Range(lines)
         => Answer' = Answer]_screenVars
=============================================================================
