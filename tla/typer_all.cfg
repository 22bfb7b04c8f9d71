SPECIFICATION FairSpec
CONSTANTS
    Runes <- MCRunes
    Blanks <- MCBlanks
    Texts <- MCTexts
    Sizes <- MCSizes
    Threshold <- MCThreshold
    Remembered <- MCRemembered
INVARIANTS
    PiecesFit
    TextCovered
    WordsKept
    OpenDuringOutage
    ToldOnce
PROPERTIES
    TypingComesBack
