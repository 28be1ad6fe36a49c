SPECIFICATION Spec
CONSTANTS
    Width <- ThreeFields
    NumWidth = 2
    MaxLong <- Seven
    MinLong <- MinusEight
    Letters = {"a", "b", "-"}
    Texts <- SomeTextsEmpty
    Numbers <- TwoNumbers
    Repeats = TRUE
    Statement <- Statements
    MaxRows = 2
INVARIANT Aligned
PROPERTY WritesInField
PROPERTY Relational
