\* A cell holding an escaped pipe "\|": is the pipe part of the value?
CONSTANTS
    Langs <- MCLangs
    TargetLanguages = {}
    Tables <- EscapedTables
    Contents <- FlatContents
    WriteFaults = FALSE
SPECIFICATION Spec
INVARIANTS TableParsedAsWritten
CHECK_DEADLOCK FALSE
