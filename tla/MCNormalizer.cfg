CONSTANTS
    CCC <- MCCCC
    DECOMP <- MCDECOMP
    COMP <- MCCOMP
    NFC_QC <- MCQC
    IDNA <- MCIDNA
    MARK <- MCMARK
    BIDI <- MCBIDI
    JOINING <- MCJOINING
    SECOND_FIRST = 768
    SECOND_LAST = 93543
    INERT_BELOW = 768
    kShortRun = 32
    Hosts <- MCHosts
    IllFormed = IllFormed
    Options <- MCFlags
    Encoded <- MCEncoded
    Decoded <- MCDecoded
    MaxLabelLength = 15
    kMaxLabelOctets = 13
    kMaxHostOctets = 22
SPECIFICATION CallSpec
INVARIANTS TypeOK OneForm RelaxingOnlyAccepts OutputAccepted
PROPERTY ImplementsUts46
CHECK_DEADLOCK FALSE
