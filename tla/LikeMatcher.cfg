SPECIFICATION LikeSpec
CONSTANTS
    Letter = {"a", "b"}
    HighByte = {"hi"}
    MaxString = 4
    MaxPattern = 3
INVARIANTS PointersInBounds PrefixPatternsAreRight
PROPERTY MatcherAnswers
CHECK_DEADLOCK FALSE
