\* manage_missing_keys.py invoked twice, with either action, any of three
\* templates and with or without --languages de; saves never fail.
CONSTANTS
    Base = "en"
    Targets <- MCTargets
    Contents <- SmallContents
    Actions = {"check", "add"}
    Templates <- MCTemplates
    LanguageLists <- MCLanguageLists
    SaveFaults = {}
    MaxRuns = 2
SPECIFICATION Spec
INVARIANTS TypeOK AddIdempotent PlaceholdersFromTemplate
\* Each invocation exits after the summary (or after an exception).
CHECK_DEADLOCK FALSE
