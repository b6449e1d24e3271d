CONSTANTS
    EarlierBuilds <- MCEarlier
    Reported <- MCReported
    Answers <- MCAnswers
    Hosts <- MCHosts
    Empties <- MCEmpties
    Options <- MCOptions
    Null = Null
    Strings = {"16.0.0", "17.0.0", "16"}
    Invalid <- MCInvalid
    MaxKeys = 2
SPECIFICATION Spec
INVARIANTS TypeOK AnsweredAsNamed TokenNamesOneAnswer NewerOnlyGains
