SPECIFICATION Spec
CONSTANTS
    MaxLong = 7
    TextOrder <- Order
    Topics <- Groups
    Rows <- SomeRows
INVARIANT MeansWhatItSays
CHECK_DEADLOCK FALSE
