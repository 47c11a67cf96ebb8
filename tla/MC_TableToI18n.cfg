\* table_to_i18n.py: a prefix-free table merged into every pair of files; writes may fail.
CONSTANTS
    Langs <- MCLangs
    TargetLanguages = {}
    Tables <- MergeTables
    Contents <- PlainContents
    WriteFaults = TRUE
SPECIFICATION Spec
INVARIANTS TypeOK MergeResult NoEmptyDicts PreservedOrderKept TableParsedAsWritten
\* The script exits after the last language (or after an exception).
CHECK_DEADLOCK FALSE
