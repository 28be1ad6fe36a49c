SPECIFICATION Spec
CONSTANTS
    MaxLong = 7
    TextOrder <- Order
    Topics <- AllTopics
    Rows <- SomeRows
INVARIANTS ChoosesAsWritten PostfixIsWhole StoresAsWritten NoRestExecuted
CHECK_DEADLOCK FALSE
