\* table_to_i18n.py with --languages de, a table holding a key and a key below it, and failing writes.
CONSTANTS
    Langs <- MCLangs
    TargetLanguages <- MCOnlyDe
    Tables <- ConflictingTables
    Contents <- PlainContents
    WriteFaults = TRUE
SPECIFICATION Spec
INVARIANTS NoEmptyDicts
CHECK_DEADLOCK FALSE
