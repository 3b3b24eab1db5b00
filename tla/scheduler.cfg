CONSTANT Lines = 4
SPECIFICATION FairSpec
INVARIANTS RingIsWhole OverrunsArePaidFor
PROPERTIES ProgramsEndThemselves EveryJobRuns OverrunsEnd McpEndsLast
CHECK_DEADLOCK FALSE
