CONSTANTS
    Width <- MCWidth
    buffer_length <- MCBufferLength
    float_buffer = 64
    max_history_length = 72
    line_wrap = 20
    Alphabet <- MCAlphabet
    MaxLength <- MCMaxLength
    Year = {0, 1900, 2024}
    Month = {0, 2, 4, 12, 13}
    Day = {0, 29, 30, 31}
    Hour = {23, 24}
    Minute = {59, 60}
    Second = {59, 60}
    Fraction <- MCFraction
    Offset <- MCOffset
    Seed <- MCSeed
    MaxEdits = 2
    Segment <- MCSegment
    MaxDepth = 2
    Value <- MCDocumentValue
    MaxLines = 4
    Flags <- MCFlags
SPECIFICATION TomlSpec
INVARIANTS
    ValuesExact DocumentsExact
    DocumentMeansLines DefinedOnce WrittenIsRead
CHECK_DEADLOCK FALSE
