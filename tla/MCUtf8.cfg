CONSTANT Inputs <- MCInputs
SPECIFICATION Spec
INVARIANTS
    TypeOK
    RefusesOnlyIllFormed
PROPERTIES
    DecodesWhatIsEncoded
CHECK_DEADLOCK FALSE
