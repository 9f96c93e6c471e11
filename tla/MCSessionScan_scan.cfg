\* A file of five lines that grows, is rewritten once and is read meanwhile.
SPECIFICATION Spec
CONSTANTS
    None = None
    InitializedAt = 2
    MaxTime = 2
    MaxUse = 2
    MaxLines = 5
    MaxRewrites = 1
    Habits = {"repeat", "fork", "bare"}
INVARIANTS TypeOK AsReadAtOnce Conserved EveryRequestOnce
CHECK_DEADLOCK FALSE
