SPECIFICATION QuerySpec
CONSTANTS
    MaxI32 = 127
    MaxI64 = 32767
    NULL = NULL
    TypesInOrder <- AllTypes
    Values <- AllValues
    Written <- Samples
    ArcadeInfo <- Arcade
    Queries <- SomeQueries
INVARIANT WrittenReadsBack
\* One query is asked.
CHECK_DEADLOCK FALSE
