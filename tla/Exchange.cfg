CONSTANT MaxParts = 2
SPECIFICATION Spec
INVARIANTS RedactionRoundTrip ReadingKept AnswerKept
CHECK_DEADLOCK FALSE
