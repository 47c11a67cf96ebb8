\* add must not remove keys a locale file already has.
CONSTANTS
    Base = "en"
    Targets <- MCTargets
    Contents <- PlainContents
    Prefix <- MCPrefix
    SaveFaults = {}
SPECIFICATION Spec
INVARIANTS KeysNeverRemoved
CHECK_DEADLOCK FALSE
