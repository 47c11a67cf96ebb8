\* A json.dump that fails in one language: are the later languages written?
CONSTANTS
    Langs <- MCLangs
    TargetLanguages = {}
    Tables <- OneKeyTables
    Contents <- FlatContents
    WriteFaults = TRUE
SPECIFICATION FairSpec
PROPERTY AllLanguagesWritten
CHECK_DEADLOCK FALSE
