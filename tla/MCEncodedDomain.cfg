SPECIFICATION CallSpec
CONSTANTS
    Empty = ""
    MaxLabelLength = 11
    MaxDnsLabel = 7
    MaxDnsDomain = 12
    Label <- MCLabel
    About <- MCAbout
    CodecError <- MCCodecError
    Domains <- MCDomains
    Libraries = {"none"}
    Idn2Encode <- MCIdn2Encode
    Idn2Decode <- MCIdn2Decode
INVARIANT EncodedDomainFits
CHECK_DEADLOCK FALSE
