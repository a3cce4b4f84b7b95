\* Every transcript of up to five lines: a section or paragraph of two words,
\* something before it and something after it.
CONSTANT MaxGrowth = 5
SPECIFICATION ScreenSpec
INVARIANT AnswerIsRead
PROPERTY AnswerIsStable
CHECK_DEADLOCK FALSE
