SPECIFICATION CallSpec
CONSTANTS
    Empty = ""
    MaxLabelLength = 11
    MaxDnsLabel = 7
    MaxDnsDomain = 12
    Label <- MCLabel
    About <- MCAbout
    CodecError <- MCCodecError
    Domains <- MCDomains
    Libraries <- MCLibraries
    Idn2Encode <- MCIdn2Encode
    Idn2Decode <- MCIdn2Decode
INVARIANTS TypeOK EncodeGivesAscii ReencodesNonAscii EncodeStable DecodeInvertsEncode
    EncodeInvertsDecode StricterOnlyRefuses ValidMeansUsable
CHECK_DEADLOCK FALSE
