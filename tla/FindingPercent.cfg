SPECIFICATION LikeSpec
CONSTANTS
    Letter = {"a", "b"}
    HighByte = {"hi"}
    MaxString = 3
    MaxPattern = 3
INVARIANT PercentTakesAnyCharacters
CHECK_DEADLOCK FALSE
