CONSTANTS
    Tables <- MCTables
    CodePoints <- MCCodePoints
SPECIFICATION SearchSpec
INVARIANTS FindsRange
PROPERTY SearchEnds
CHECK_DEADLOCK FALSE
