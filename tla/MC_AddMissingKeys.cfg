\* add_missing_keys.py over plain keys and one base file that raises; saves fail before the open.
CONSTANTS
    Base = "en"
    Targets <- MCTargets
    Contents <- PlainAndRaising
    Prefix <- MCPrefix
    SaveFaults = {"open_failed"}
SPECIFICATION Spec
INVARIANTS TypeOK PlaceholdersFromBase
\* The script exits after the summary (or after an exception).
CHECK_DEADLOCK FALSE
