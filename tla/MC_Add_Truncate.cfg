\* Translations survive a failing save.
CONSTANTS
    Base = "en"
    Targets <- MCTargets
    Contents <- PlainContents
    Prefix <- MCPrefix
    SaveFaults = {"open_failed", "write_failed"}
SPECIFICATION Spec
INVARIANTS TranslationsKept
CHECK_DEADLOCK FALSE
