SPECIFICATION Spec
CONSTANTS
    Horizon = 6
    Lengths <- SomeLengths
    Texts <- SomeTexts
    MaxHeard = 3
    From = 1
    To = 6
    MaxWords = 2
    MaxChars = 4
    Gap = 2
    Hold = 1
INVARIANTS
    TypeOK
    EveryWordOnce
    LinesWellBroken
    HighlightFollowsSpeech
    NeverOverSilence
