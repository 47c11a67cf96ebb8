\* Keys new to a file are written after all the keys it already had.
CONSTANTS
    Langs <- MCLangs
    TargetLanguages = {}
    Tables <- PrefixFreeTables
    Contents <- PlainContents
    WriteFaults = FALSE
SPECIFICATION Spec
INVARIANTS NewKeysAfterPreserved
CHECK_DEADLOCK FALSE
