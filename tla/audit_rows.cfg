SPECIFICATION Spec
CONSTANTS
    Utterances <- MCUtterances
    RetentionDays = 1
    MaxDay = 3
INVARIANTS
    RowInOwnDay
    RowsHaveAudio
