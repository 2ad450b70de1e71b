\* Reports four calls deep, and three steps of the other call at any place.  An
\* overflow is the end.
CONSTANTS
    MaxDepth = 4
    MaxOthers = 3
SPECIFICATION FairSpec
INVARIANTS
    TypeOK
    ReportExplained
    HandlerTellsEntry
PROPERTY ReportEnds
CHECK_DEADLOCK FALSE
