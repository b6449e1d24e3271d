CONSTANTS
    CCC <- MCCCC
    DECOMP <- MCDECOMP
    COMP <- MCCOMP
    NFC_QC <- MCQC
    IDNA <- MCEmpty
    MARK = {}
    BIDI <- MCEmpty
    JOINING <- MCEmpty
    SECOND_FIRST = 768
    SECOND_LAST = 93543
    INERT_BELOW = 768
    kShortRun = 3
    CodePoints <- MCCodePoints
    MaxLength = 4
SPECIFICATION TextSpec
INVARIANTS
    OrderIsStable
    Equivalent
    Complete
    QuickCheckSound
    LabelsNormalizeApart
CHECK_DEADLOCK FALSE
