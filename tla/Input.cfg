CONSTANTS
    MaxArgs = 4
    MaxSize = 10
    MaxEdits = 2
    MaxLength = 6
    Unit <- MCUnit
    MaxUnits = 4
SPECIFICATION InputSpec
INVARIANTS
    ReaderTypesOK StartedAsAsked ConfigAsWritten BoardsIndependent
    DecodedFaithfully CursorFaithful StringsExact
PROPERTIES
    FileDelivered
CHECK_DEADLOCK FALSE
