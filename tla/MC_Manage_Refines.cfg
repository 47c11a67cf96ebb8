\* manage_missing_keys.py --action add with the default template and no
\* --languages, one invocation, saves failing before or after the open.
CONSTANTS
    Base = "en"
    Targets <- MCTargets
    Contents <- PlainContents
    Actions = {"add"}
    Templates <- MCDefaultOnly
    LanguageLists = {{}}
    SaveFaults = {"open_failed", "write_failed"}
    MaxRuns = 1
SPECIFICATION Spec
PROPERTY AddRefinement
\* The script exits after the summary (or after an exception).
CHECK_DEADLOCK FALSE
