SPECIFICATION Spec
CONSTANTS
    NA = "NA"
    Element <- MCElement
    Error <- MCError
    Outcome <- MCOutcome
    Inputs <- MCInputs
INVARIANTS TypeOK
PROPERTIES MapsElements
CHECK_DEADLOCK FALSE
