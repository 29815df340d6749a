SPECIFICATION LexerSpec
CONSTANTS
    Ordinary = {"a"}
    Delimiter = {"space"}
    MaxText = 9
INVARIANTS LexerTypeOK TokensAreTheFields QuotedTextsReadBack
PROPERTY LexerAnswers
CHECK_DEADLOCK FALSE
