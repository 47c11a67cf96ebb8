\* A file counted as updated must lack no en.json key.
CONSTANTS
    Base = "en"
    Targets <- MCTargets
    Contents <- PlainContents
    Prefix <- MCPrefix
    SaveFaults = {}
SPECIFICATION Spec
INVARIANTS SuccessMeansComplete
CHECK_DEADLOCK FALSE
