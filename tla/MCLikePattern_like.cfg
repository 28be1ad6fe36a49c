SPECIFICATION Spec
CONSTANTS
    Letters = {97, 98}
    PatternLength = 4
    TextLength = 3
    MaxUnread = 1
    Pattern <- SomePatterns
    Text <- SomeTexts
INVARIANT LikeIsRight
PROPERTY FreshCheckIsRight
