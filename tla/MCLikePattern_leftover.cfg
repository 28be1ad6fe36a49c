SPECIFICATION Spec
CONSTANTS
    Letters = {97}
    PatternLength = 3
    TextLength = 0
    MaxUnread = 6
    Pattern <- SomePatterns
    Text <- SomeTexts
INVARIANT VerdictIsOfPattern
