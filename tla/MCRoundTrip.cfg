SPECIFICATION RTSpec
CONSTANTS
    Base = 36
    TMin = 1
    TMax = 26
    Skew = 38
    Damp = 700
    InitialBias = 72
    MaxU32 = 1200000
    MaxU64 = 1073741823
    MaxLabelLength = 24
    MaxLen = 3
    MaxBytes = 5
    Inputs <- MCInputs
    Payloads <- MCPayloads
INVARIANTS TypeOK NeverThrows DecodeInvertsEncode EncodeInvertsDecode DecoderStaysInRange FirstTimeIsFirst
PROPERTIES WritesInOrder InsertsInOrder Terminates
CHECK_DEADLOCK FALSE
