--------------------------- MODULE AddMissingKeys ---------------------------
(***************************************************************************)
(* src/scripts/i18n/add_missing_keys.py: main() takes en.json as the     *)
(* base, then walks the other locale files in sorted order; for each it  *)
(* loads the file, computes the base keys it lacks and, through           *)
(* add_missing_keys_to_file, reloads it, writes a placeholder built from *)
(* the base value for every missing key get_value_by_path can resolve,   *)
(* and saves it.  One step of the loop is one action.                    *)
(***************************************************************************)
EXTENDS I18nTree, FiniteSets

CONSTANTS
    Base,           \* the base file, en.json
    Targets,        \* the other locale files, in sorted(os.listdir) order
    Contents,       \* the file contents a locale file may start with
    Prefix,         \* the text "[TO TRANSLATE] " of the placeholder
    SaveFaults      \* the ways json.dump into the file may fail

ASSUME SaveFaults \subseteq {"open_failed", "write_failed"}

VARIABLES
    disk,           \* file -> its content
    pc,             \* "start", "loop", "done" or "crashed"
    next,           \* index in Targets of the file the loop is at
    baseData,       \* base_data
    successCount,   \* success_count
    totalCount,     \* total_count
    \* observation only:
    orig,           \* the contents of the files when the run started
    outcome         \* what the run reported for each target file

vars == <<disk, pc, next, baseData, successCount, totalCount, orig, outcome>>

Files == {Base} \cup ToSet(Targets)
NTargets == Len(Targets)

\* A missing file or one json.load rejects (malformed or truncated JSON).
Unreadable == [tag |-> "unreadable"]

\* load_json_file: any exception is printed and {} returned.
LoadJsonFile(c) == IF c = Unreadable THEN EmptyDict ELSE c

\* `if not data`: an empty dict is falsy.
IsFalsy(d) == d.items = <<>>

\* A seeded fault: the base value copied without the marker.
PlaceholderBare(v) == v

\* f"[TO TRANSLATE] {base_value}" for a str base value.
Placeholder(v) == Str(Prefix \o v.s)

(***************************************************************************)
(* The loop of add_missing_keys_to_file over the missing keys, from the   *)
(* reloaded target: [data |-> the updated tree, added |-> added_count],   *)
(* or Crash when get_value_by_path or set_value_by_path raises.           *)
(***************************************************************************)
AddKeys(target, missing, base) ==
    LET Step(acc, key) ==
          IF acc = Crash THEN Crash
          ELSE LET bv == GetValueByPath(base, key) IN
               IF bv = Crash THEN Crash
               ELSE IF bv = PyNone THEN acc
               ELSE LET d == SetValueByPath(acc.data, key, Placeholder(bv))
                    IN IF d = Crash THEN Crash
                       ELSE [data |-> d, added |-> acc.added + 1]
    IN FoldLeft(Step, [data |-> target, added |-> 0], missing)

(***************************************************************************)
(* save_json_file: open(path, 'w') truncates the file before json.dump    *)
(* writes it, so a failure after the open leaves a truncated file.        *)
(***************************************************************************)
SaveResults(old, new) ==
    {[ok |-> TRUE, content |-> new]}
    \cup (IF "open_failed" \in SaveFaults
          THEN {[ok |-> FALSE, content |-> old]} ELSE {})
    \cup (IF "write_failed" \in SaveFaults
          THEN {[ok |-> FALSE, content |-> Unreadable]} ELSE {})

\* A seeded fault: a file counted as a success as soon as it is attempted.
ReportSuccessOnAttempt(f, result) ==
    /\ outcome' = [outcome EXCEPT ![f] = result]
    /\ successCount' = successCount + 1
    /\ totalCount' = totalCount + 1

\* The count of main()'s loop for a file that loaded: success_count and
\* total_count.
Report(f, result) ==
    /\ outcome' = [outcome EXCEPT ![f] = result]
    /\ successCount' = successCount + (IF result = "success" THEN 1 ELSE 0)
    /\ totalCount' = totalCount + 1

(***************************************************************************)
(* The end of add_missing_keys_to_file: with no key added the file is not *)
(* saved and True is returned; otherwise it returns what save_json_file  *)
(* returned, and main() counts the result.                                *)
(***************************************************************************)
SaveAndReport(f, res) ==
    \/ /\ res.added = 0
       /\ Report(f, "success")
       /\ UNCHANGED disk
    \/ /\ res.added > 0
       /\ \E r \in SaveResults(disk[f], res.data) :
             /\ disk' = [disk EXCEPT ![f] = r.content]
             /\ Report(f, IF r.ok THEN "success" ELSE "failed")

----------------------------------------------------------------------------

Init ==
    /\ disk \in [Files -> Contents]
    /\ orig = disk
    /\ pc = "start"
    /\ next = 1
    /\ baseData = EmptyDict
    /\ successCount = 0
    /\ totalCount = 0
    /\ outcome = [f \in ToSet(Targets) |-> "pending"]

\* main(): load en.json; a missing, unreadable or empty base ends the run.
LoadBase ==
    /\ pc = "start"
    /\ LET b == LoadJsonFile(disk[Base]) IN
       IF IsFalsy(b)
       THEN /\ pc' = "done"
            /\ UNCHANGED baseData
       ELSE /\ pc' = "loop"
            /\ baseData' = b
    /\ UNCHANGED <<disk, next, successCount, totalCount, orig, outcome>>

\* One iteration of the for loop of main() over the target files,
\* add_missing_keys_to_file and save_json_file included.
ProcessFile ==
    /\ pc = "loop"
    /\ next <= NTargets
    /\ next' = next + 1
    /\ UNCHANGED <<baseData, orig>>
    /\ LET f == Targets[next]
           target == LoadJsonFile(disk[f])
           missing == FindMissingKeys(GetAllKeys(baseData), target)
           res == AddKeys(LoadJsonFile(disk[f]), missing, baseData)
       IN
       \/ /\ IsFalsy(target)
          /\ outcome' = [outcome EXCEPT ![f] = "skipped"]
          /\ UNCHANGED <<disk, pc, successCount, totalCount>>
       \/ /\ ~IsFalsy(target)
          /\ missing = <<>>
          /\ Report(f, "success")
          /\ UNCHANGED <<disk, pc>>
       \/ /\ ~IsFalsy(target)
          /\ missing # <<>>
          /\ res = Crash
          /\ pc' = "crashed"
          /\ UNCHANGED <<disk, successCount, totalCount, outcome>>
       \/ /\ ~IsFalsy(target)
          /\ missing # <<>>
          /\ res # Crash
          /\ SaveAndReport(f, res)
          /\ UNCHANGED pc

\* The loop is over: the summary is printed and the script exits.
Finish ==
    /\ pc = "loop"
    /\ next > NTargets
    /\ pc' = "done"
    /\ UNCHANGED <<disk, next, baseData, successCount, totalCount, orig, outcome>>

Next == LoadBase \/ ProcessFile \/ Finish

Spec == Init /\ [][Next]_vars

----------------------------------------------------------------------------
(* Properties *)

BaseKeys == GetAllKeys(LoadJsonFile(disk[Base]))

TypeOK ==
    /\ \A f \in Files :
          \/ disk[f] = Unreadable
          \/ IsDict(disk[f]) /\ \A p \in LeafPairs(disk[f]) : p[2].tag \in {"str", "none"}
    /\ pc \in {"start", "loop", "done", "crashed"}
    /\ next \in 1..(NTargets + 1)
    /\ totalCount = Cardinality({f \in ToSet(Targets) : outcome[f] \in {"success", "failed"}})
    /\ successCount = Cardinality({f \in ToSet(Targets) : outcome[f] = "success"})
    /\ outcome \in [ToSet(Targets) -> {"pending", "skipped", "success", "failed"}]

(* A translation a locale file holds for a key of en.json is never        *)
(* changed or lost by the run: add_missing_keys only writes keys that     *)
(* find_missing_keys reported missing, and save_json_file only replaces   *)
(* the file it was given.                                                  *)
TranslationsKept ==
    \A f \in ToSet(Targets) :
        {p \in LeafPairs(orig[f]) : p[1] \in BaseKeys} \subseteq LeafPairs(disk[f])

(* Every leaf the run adds to a locale file is the placeholder of the     *)
(* en.json value at the same dotted key (get_value_by_path and            *)
(* set_value_by_path address the same leaf).                              *)
PlaceholdersFromBase ==
    \A f \in ToSet(Targets) :
        \A p \in LeafPairs(disk[f]) \ LeafPairs(orig[f]) :
            \E q \in LeafPairs(disk[Base]) : p = <<q[1], Str(Prefix \o q[2].s)>>

(* A file the summary counts as successfully updated lacks no key of      *)
(* en.json: the script's purpose is to add every missing key.             *)
SuccessMeansComplete ==
    \A f \in ToSet(Targets) :
        outcome[f] = "success" =>
            FindMissingKeys(BaseKeys, LoadJsonFile(disk[f])) = <<>>

(* add never removes a key a locale file already had: it only inserts     *)
(* placeholders for missing keys.                                          *)
KeysNeverRemoved ==
    \A f \in ToSet(Targets) :
        disk[f] # Unreadable =>
            GetAllKeys(LoadJsonFile(orig[f])) \subseteq GetAllKeys(disk[f])

=============================================================================
