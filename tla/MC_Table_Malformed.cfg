\* A locale file that is not valid JSON is skipped, not overwritten.
CONSTANTS
    Langs <- MCLangs
    TargetLanguages = {}
    Tables <- PrefixFreeTables
    Contents <- PlainContents
    WriteFaults = FALSE
SPECIFICATION Spec
INVARIANTS MalformedFileKept
CHECK_DEADLOCK FALSE
