------------------------- MODULE ManageMissingKeys -------------------------
(***************************************************************************)
(* src/scripts/i18n/manage_missing_keys.py: main() parses --action,      *)
(* --placeholder and --languages and runs check_missing_keys_only or     *)
(* add_missing_keys over the locale files in sorted order.  One file of  *)
(* either loop is one action.  The script may be run again on the files  *)
(* the previous invocation left (Rerun), up to MaxRuns invocations, so   *)
(* that what one invocation leaves for the next can be stated.           *)
(***************************************************************************)
EXTENDS I18nTree, FiniteSets

CONSTANTS
    Base,           \* --base-file, en.json
    Targets,        \* the other locale files, in sorted(os.listdir) order
    Contents,       \* the contents a locale file may start with
    Actions,        \* the values --action may take
    Templates,      \* the values --placeholder may take
    LanguageLists,  \* the values --languages may take ({} when not given)
    SaveFaults,     \* the ways json.dump into the file may fail
    MaxRuns         \* how many invocations one behaviour holds

ASSUME SaveFaults \subseteq {"open_failed", "write_failed"}
ASSUME MaxRuns \in Nat \ {0}

VARIABLES
    disk,           \* file -> its content
    opts,           \* the parsed arguments of the current invocation
    pc,             \* "start", "loop", "done" or "crashed"
    next,           \* index in Targets of the file the loop is at
    baseData,       \* base_data
    successCount,   \* success_count (add)
    totalCount,     \* total_count (add)
    totalMissing,   \* total_missing (check)
    \* observation only:
    orig,           \* the contents of the files when the invocation started
    outcome,        \* what the invocation reported for each target file
    saved,          \* the files save_json_file was called on
    run,            \* the number of the current invocation
    prev            \* opts and final pc of the previous invocation, and
                    \* the files it left without a key they had

vars == <<disk, opts, pc, next, baseData, successCount, totalCount,
          totalMissing, orig, outcome, saved, run, prev>>

Files == {Base} \cup ToSet(Targets)
TargetSet == ToSet(Targets)
NTargets == Len(Targets)

Options == [action : Actions, template : Templates, languages : LanguageLists]
NoRun == [pc |-> "none"]

(***************************************************************************)
(* str.format with one positional argument.  A template is a sequence of  *)
(* literal text and replacement fields: "{}" (auto-numbered) or "{name}". *)
(* A named field raises KeyError and a second "{}" IndexError.            *)
(***************************************************************************)
Lit(s) == [kind |-> "lit", s |-> s]
AutoField == [kind |-> "auto"]
NamedField == [kind |-> "named"]

\* A seeded fault: the argument substituted for no field.
FormatDropValue(t, v) ==
    Str(FoldLeft(LAMBDA acc, p : IF p.kind = "lit" THEN acc \o p.s ELSE acc,
                 <<>>, t))

Format(t, v) ==
    IF \/ \E i \in DOMAIN t : t[i].kind = "named"
       \/ Cardinality({i \in DOMAIN t : t[i].kind = "auto"}) > 1
    THEN Crash
    ELSE Str(FoldLeft(LAMBDA acc, p : acc \o (IF p.kind = "lit" THEN p.s ELSE v.s),
                      <<>>, t))

\* A missing file or one json.load rejects (malformed or truncated JSON).
Unreadable == [tag |-> "unreadable"]

\* load_json_file: any exception is printed and {} returned.
LoadJsonFile(c) == IF c = Unreadable THEN EmptyDict ELSE c

\* `if not data`: an empty dict is falsy.
IsFalsy(d) == d.items = <<>>

\* save_json_file: open(path, 'w') truncates before json.dump writes.
SaveJsonFile(old, new) ==
    {[ok |-> TRUE, content |-> new]}
    \cup (IF "open_failed" \in SaveFaults
          THEN {[ok |-> FALSE, content |-> old]} ELSE {})
    \cup (IF "write_failed" \in SaveFaults
          THEN {[ok |-> FALSE, content |-> Unreadable]} ELSE {})

(***************************************************************************)
(* The loop of add_missing_keys over the missing keys of one file:        *)
(* [data |-> target_data, added |-> added_count], or Crash when           *)
(* get_value_by_path, format or set_value_by_path raises.                 *)
(***************************************************************************)
AddPlaceholders(target, missing, base, template) ==
    LET Step(acc, key) ==
          IF acc = Crash THEN Crash
          ELSE LET bv == GetValueByPath(base, key) IN
               IF bv = Crash THEN Crash
               ELSE IF bv = PyNone THEN acc
               ELSE LET pv == Format(template, bv)
                        d == IF pv = Crash THEN Crash
                             ELSE SetValueByPath(acc.data, key, pv)
                    IN IF d = Crash THEN Crash
                       ELSE [data |-> d, added |-> acc.added + 1]
    IN FoldLeft(Step, [data |-> target, added |-> 0], missing)

\* A seeded fault: a file left out by --languages still counted.
CountFilteredToo(f, result) ==
    /\ outcome' = [outcome EXCEPT ![f] = result]
    /\ totalCount' = totalCount + 1
    /\ successCount' = successCount + (IF result = "success" THEN 1 ELSE 0)

\* The end of add_missing_keys' loop body: success_count and total_count.
Count(f, result) ==
    /\ outcome' = [outcome EXCEPT ![f] = result]
    /\ totalCount' = totalCount + (IF result = "filtered" THEN 0 ELSE 1)
    /\ successCount' = successCount + (IF result = "success" THEN 1 ELSE 0)

----------------------------------------------------------------------------

Init ==
    /\ disk \in [Files -> Contents]
    /\ opts \in Options
    /\ pc = "start"
    /\ next = 1
    /\ baseData = EmptyDict
    /\ successCount = 0
    /\ totalCount = 0
    /\ totalMissing = 0
    /\ orig = disk
    /\ outcome = [f \in TargetSet |-> "pending"]
    /\ saved = {}
    /\ run = 1
    /\ prev = NoRun

\* Both actions: a missing, unreadable or empty base file ends the run.
LoadBase ==
    /\ pc = "start"
    /\ LET b == LoadJsonFile(disk[Base]) IN
       IF IsFalsy(b)
       THEN /\ pc' = "done"
            /\ UNCHANGED baseData
       ELSE /\ pc' = "loop"
            /\ baseData' = b
    /\ UNCHANGED <<disk, opts, next, successCount, totalCount, totalMissing,
                   orig, outcome, saved, run, prev>>

\* One iteration of check_missing_keys_only's loop: report only.
CheckFile ==
    /\ pc = "loop"
    /\ opts.action = "check"
    /\ next <= NTargets
    /\ next' = next + 1
    /\ LET f == Targets[next]
           target == LoadJsonFile(disk[f])
           missing == FindMissingKeys(GetAllKeys(baseData), target)
       IN \/ /\ IsFalsy(target)
             /\ outcome' = [outcome EXCEPT ![f] = "skipped"]
             /\ UNCHANGED totalMissing
          \/ /\ ~IsFalsy(target)
             /\ missing # <<>>
             /\ outcome' = [outcome EXCEPT ![f] = "missing"]
             /\ totalMissing' = totalMissing + Len(missing)
          \/ /\ ~IsFalsy(target)
             /\ missing = <<>>
             /\ outcome' = [outcome EXCEPT ![f] = "complete"]
             /\ UNCHANGED totalMissing
    /\ UNCHANGED <<disk, opts, pc, baseData, successCount, totalCount, orig,
                   saved, run, prev>>

\* One iteration of add_missing_keys' loop, save_json_file included.
AddFile ==
    /\ pc = "loop"
    /\ opts.action = "add"
    /\ next <= NTargets
    /\ next' = next + 1
    /\ UNCHANGED <<opts, baseData, totalMissing, orig, run, prev>>
    /\ LET f == Targets[next]
           target == LoadJsonFile(disk[f])
           missing == FindMissingKeys(GetAllKeys(baseData), target)
           res == AddPlaceholders(target, missing, baseData, opts.template)
       IN
       \/ /\ opts.languages # {}
          /\ f \notin opts.languages
          /\ Count(f, "filtered")
          /\ UNCHANGED <<disk, pc, saved>>
       \/ /\ opts.languages = {} \/ f \in opts.languages
          /\ \/ /\ IsFalsy(target)
                /\ outcome' = [outcome EXCEPT ![f] = "skipped"]
                /\ UNCHANGED <<disk, pc, successCount, totalCount, saved>>
             \/ /\ ~IsFalsy(target)
                /\ missing = <<>>
                /\ Count(f, "success")
                /\ UNCHANGED <<disk, pc, saved>>
             \/ /\ ~IsFalsy(target)
                /\ missing # <<>>
                /\ res = Crash
                /\ pc' = "crashed"
                /\ UNCHANGED <<disk, successCount, totalCount, outcome, saved>>
             \/ /\ ~IsFalsy(target)
                /\ missing # <<>>
                /\ res # Crash
                /\ res.added = 0
                /\ Count(f, "nothing_added")
                /\ UNCHANGED <<disk, pc, saved>>
             \/ /\ ~IsFalsy(target)
                /\ missing # <<>>
                /\ res # Crash
                /\ res.added > 0
                /\ \E r \in SaveJsonFile(disk[f], res.data) :
                      /\ disk' = [disk EXCEPT ![f] = r.content]
                      /\ Count(f, IF r.ok THEN "success" ELSE "failed")
                /\ saved' = saved \cup {f}
                /\ UNCHANGED pc

\* The loop is over: the summary is printed and main() returns 0.
Finish ==
    /\ pc = "loop"
    /\ next > NTargets
    /\ pc' = "done"
    /\ UNCHANGED <<disk, opts, next, baseData, successCount, totalCount,
                   totalMissing, orig, outcome, saved, run, prev>>

\* The script is invoked again, with any arguments, on the files as the
\* previous invocation (finished or ended by an exception) left them.
Rerun ==
    /\ pc \in {"done", "crashed"}
    /\ run < MaxRuns
    /\ prev' = [opts |-> opts, pc |-> pc,
                 lost |-> {f \in TargetSet :
                             ~(GetAllKeys(LoadJsonFile(orig[f]))
                                 \subseteq GetAllKeys(LoadJsonFile(disk[f])))}]
    /\ run' = run + 1
    /\ opts' \in Options
    /\ pc' = "start"
    /\ next' = 1
    /\ baseData' = EmptyDict
    /\ successCount' = 0
    /\ totalCount' = 0
    /\ totalMissing' = 0
    /\ orig' = disk
    /\ outcome' = [f \in TargetSet |-> "pending"]
    /\ saved' = {}
    /\ UNCHANGED disk

Next == LoadBase \/ CheckFile \/ AddFile \/ Finish \/ Rerun

Spec == Init /\ [][Next]_vars

----------------------------------------------------------------------------
(* Properties *)

TypeOK ==
    /\ \A f \in Files :
          \/ disk[f] = Unreadable
          \/ IsDict(disk[f]) /\ \A p \in LeafPairs(disk[f]) : p[2].tag = "str"
    /\ opts \in Options
    /\ pc \in {"start", "loop", "done", "crashed"}
    /\ next \in 1..(NTargets + 1)
    /\ totalCount = Cardinality({f \in TargetSet :
                       outcome[f] \in {"success", "failed", "nothing_added"}})
    /\ successCount = Cardinality({f \in TargetSet : outcome[f] = "success"})
    /\ saved \subseteq {f \in TargetSet : outcome[f] \in {"success", "failed"}}

(* Running add a second time with the same arguments, right after an     *)
(* invocation that finished, saves only files the first run took a key   *)
(* from: it left no key missing that add_missing_keys could fill, so the *)
(* only work left is a key its set_value_by_path lost by writing a leaf  *)
(* over a dict (en {"": x} over a locale file's {"": {"a": ...}}).       *)
AddIdempotent ==
    /\ opts.action = "add"
    /\ prev # NoRun
    /\ prev.pc = "done"
    /\ prev.opts = opts
    => saved \subseteq prev.lost

(* The fields of a --placeholder template, and the text str.format gives  *)
(* when it accepts the template: the literal text with the value in place *)
(* of each field.                                                          *)
Fields(t) == {i \in DOMAIN t : t[i].kind # "lit"}
FilledText(t, v) == FlattenSeq([i \in DOMAIN t |-> IF t[i].kind = "lit" THEN t[i].s ELSE v])

(* Every leaf an invocation adds to a locale file is the --placeholder    *)
(* template filled with the en.json value at the same dotted key, and a   *)
(* template format rejects (a named field, or a second "{}") adds none:   *)
(* format raises at the first placeholder of a batch, before any         *)
(* save_json_file, whichever files came before it.                       *)
PlaceholdersFromTemplate ==
    \A f \in TargetSet :
        \A p \in LeafPairs(disk[f]) \ LeafPairs(orig[f]) :
            /\ Cardinality(Fields(opts.template)) <= 1
            /\ \A i \in Fields(opts.template) : opts.template[i].kind = "auto"
            /\ \E q \in LeafPairs(LoadJsonFile(disk[Base])) :
                  p = <<q[1], Str(FilledText(opts.template, q[2].s))>>

=============================================================================
