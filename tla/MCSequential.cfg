SPECIFICATION Sequential
CONSTANTS
    TenDigits = 1000
    Instants <- SomeInstants
    LastYear = 2101
    MaxU32 = 2000000000
    Clocks <- SomeClocks
    Fractions <- SomeFractions
    Characters <- SomeCharacters
    command <- jt
    MaxLength = 5
    NoCommand = NoCommand
    Locals = 2
    MaxSegments = 2
    Messages <- SomeMessages
    NoName = NoName
    Random <- SomeBytes
    Slips = {16, 17, 18, 7}
    MaxSlips = 2
    Handles = {h1, h2, h3, h4, h5}
    MaxI32 = 127
    MaxI64 = 32767
    NULL = NULL
    TypesInOrder <- AllTypes
    Values <- AllValues
    Written <- Samples
    ArcadeInfo <- Arcade
    Queries <- SomeQueries
INVARIANTS
    Counted
    LiveWhileReferenced
    NoDrift
    IsoReadsBack
    OverlongCarries
    CommandAsMeant
    OnlyLentStringsDangle
    RepeatsOnlyWhatWasSaid
    ReadsOnlyItself
    NothingLeft
    AnswerIsWhole
    OnlyNumbersPanic
    ShallowReadsBack
    MissingIsDefault
\* A message has a greatest length, a text a greatest number of slips; memory is
\* freed once; one query is asked.
CHECK_DEADLOCK FALSE
