# TLA+ models of the i18n maintenance scripts

The system under `src/scripts/i18n/` is three single-threaded Python batch
scripts. They keep the JSON locale files in line with `en.json`:

| script | what it does |
|---|---|
| `add_missing_keys.py` | For every locale file, writes a `"[TO TRANSLATE] <en value>"` placeholder for each dotted key of `en.json` that the file lacks. |
| `manage_missing_keys.py` | Has the same helpers, plus a `check` action (report only), a `--languages` filter and a `--placeholder` template. |
| `table_to_i18n.py` | Parses a markdown table of keys and translations, then merges it into each `<lang>.json`. The merge prunes keys absent from the table, sets the table's values and drops empty dicts. |

The scripts share one data structure and interact only through the files on
disk. That structure is the translation tree: nested dicts with str leaves,
addressed by dotted paths built by `get_all_keys` and walked by
`get_value_by_path`, `set_value_by_path` and `delete_nested_value`. Nothing
runs concurrently. What is hard to test in this code is:

- the path accessors on unusual trees: dotted keys, a leaf where a dict is
  expected and the reverse;
- the order of mutations: hash-seeded set iteration, and dict insertion
  order;
- failures halfway through a batch: truncating writes, and uncaught
  exceptions after some files were already rewritten.

## Modules

| module | models | state / actions |
|---|---|---|
| `I18nTree` | The shared helpers (all three scripts). | Pure operators. A str is a sequence of code points, a dict is an ordered sequence of `<<key, value>>` pairs (Python dicts keep insertion order), and an uncaught exception is the value `Crash`. `SplitOn` is `str.split` for one separator. |
| `AddMissingKeys` | `add_missing_keys.py` `main()`, `add_missing_keys_to_file` and `save_json_file`. | `disk` (file → content), `pc`, `next` (loop index), `baseData`, `successCount`, `totalCount`; `orig` and `outcome` only observe. Actions: `LoadBase`, `ProcessFile` (one whole loop iteration: load, diff, reload, add (`AddKeys`), save and count (`SaveAndReport`)), `Finish`. |
| `ManageMissingKeys` | `manage_missing_keys.py`: `main()`'s options, `check_missing_keys_only`, `add_missing_keys`, its own `load_json_file` and `save_json_file`. | As above, plus `opts` (`--action`, `--placeholder`, `--languages`) and `totalMissing`; `saved`, `run` and `prev` (the previous invocation's options, end state and the files it took a key from) only observe. Actions: `LoadBase`, `CheckFile`, `AddFile`, `Finish`, and `Rerun` (the operator runs the script again on the files as they are). `Format` is `str.format` over a template of literal text and `{}`/`{name}` fields. |
| `TableToI18n` | `table_to_i18n.py`: `main()`, `parse_markdown_table`, `save_language_files`, `merge_translations`. | `disk`, `translations`, `tableKeys`, `pc`, `next`, `savedCount`; `table` (the rows the input was written from), `before`, `written` and `failed` (the language whose merge or write raised) only observe. `Init` parses the input lines (`ParseMarkdownTable`: header search, `split('|')`, `strip`, unescape). Actions: `SkipLanguage` (`--languages`), `SaveLanguage` (load, merge, write), `Finish`. |
| `MC_AddMissingKeys`, `MC_ManageMissingKeys`, `MC_TableToI18n` | TLC instances. | Character constants, bounded file contents, templates, and markdown files rendered from bounded tables. `MC_ManageMissingKeys` also holds the refinement mapping onto `AddMissingKeys`. |

Where the code has no determinism, the models branch:

- `keys_to_delete` is a Python `set` of str. It is iterated in the order of
  the per-process string hash, so `SaveLanguage` tries every ordering of it
  (`SetToSeqs`).
- A save's outcome is chosen from `SaveResults` / `SaveJsonFile`:
  - it succeeds;
  - the open fails, so the file is untouched and "Failed to save" is counted;
  - the write fails after `open(path, 'w')` truncated the file, so the file
    is left unreadable.
- In `table_to_i18n.py` the write is outside any `try`. A failing write
  leaves a truncated file (`Malformed`) and ends the run.

### Refinement

`manage_missing_keys.py --action add` and `add_missing_keys.py` do the same
job in separate code. `MC_ManageMissingKeys` instantiates `AddMissingKeys`
with a refinement mapping:

- the files, loop index, base data and total count map unchanged;
- a file `manage_missing_keys.py` reports "Failed to save" because none of
  its missing keys could be filled (outcome `nothing_added`) maps to a
  success, and it is added to the success count.

`AddRefinement` (`Add!Spec` as a PROPERTY) checks that every step of the
manage script is a step of the add script or a stutter. That holds with the
default template and no `--languages`. So the counting of `nothing_added` is
the only difference between the two scripts.

## Runs

| run | cfg | expect | shows |
|---|---|---|---|
| add_plain | `MC_AddMissingKeys.cfg` | pass | Every base and every 2-file locale set of depth ≤ 2 over keys {a, b}, plus one base whose dotted key `c.a` makes `get_value_by_path` raise, and files whose keys collide under `get_all_keys` (an empty key, which `if prefix` drops from the path, a literal `a.a` key, and a base `{"": x, "a": x}` whose leaf `""` lands on a locale `{"": {...}}`); saves fail before the open. `PlaceholdersFromBase`: every new leaf is the marked en value at the same key. `TypeOK`: the summary counts equal the per-file outcomes. |
| add_success_incomplete | `MC_Add_SuccessComplete.cfg` | violation | Finding: nested missing keys are never filled, yet the file is counted as a success. |
| add_overwrites_subtree | `MC_Add_KeysKept.cfg` | violation | Finding: a base leaf overwrites a translated subtree. |
| add_truncated_save | `MC_Add_Truncate.cfg` | violation | Finding: a failing write truncates the file and the translations are lost. |
| manage_refines_add | `MC_Manage_Refines.cfg` | pass | `AddRefinement`: see above. Saves fail both before and after the open. |
| manage_rerun | `MC_Manage_Rerun.cfg` | pass | Two invocations with any action, with the default, field-less or two-field template, and with or without `--languages de`, over files with nested and dotted keys. `TypeOK`: the counts match the outcomes, and `--languages` filtered files are not counted. `AddIdempotent`: a second `add` with the same arguments after a finished one saves only files the first run took a key from (an en.json leaf `""` written over a locale dict `""` loses its keys, which the second run fills again). `PlaceholdersFromTemplate`: every added leaf is the template filled with the en.json value at its key, and a template `str.format` rejects (a second `{}`) adds nothing: format raises at the first placeholder, before that file's save. |
| table_merge | `MC_TableToI18n.cfg` | pass | Markdown files rendered from tables of ≤ 2 rows over keys {a, b.a, b.b} and 2 languages, plus two files whose header search raises; locale files of depth ≤ 3, missing or malformed; every deletion order. `MergeResult`: a file's leaves are exactly the kept and the new ones. `NoEmptyDicts`. `PreservedOrderKept`: surviving keys keep their order. `TableParsedAsWritten`: the parse yields exactly the final non-empty cells of each column (a later row overrides an earlier one; a preamble line starting with `|` is passed over), and the languages are visited in the order of their first cell. `TypeOK`: the saved count matches the languages written. |
| table_conflict | `MC_Table_Conflict.cfg` | pass | `--languages de`, with a table holding both `a` and `a.a` (the merge raises or overwrites) and failing writes: no empty dicts. |
| table_new_key_order | `MC_Table_NewKeyOrder.cfg` | violation | Finding: new keys are not placed after the preserved keys (spec §4.5). |
| table_malformed_overwritten | `MC_Table_Malformed.cfg` | violation | Finding: a malformed file is overwritten, not skipped (spec §7). |
| table_write_abort | `MC_Table_WriteAbort.cfg` | violation | Finding, under weak fairness: a failing `json.dump` ends the script, so the later languages are neither written nor reported failed. The liveness property is `AllLanguagesWritten` (every selected language is eventually written or is the one that failed); spec §7 says a save failure does not abort the remaining files. |
| table_escaped_pipe | `MC_Table_EscapedPipe.cfg` | violation | `TableParsedAsWritten`. Finding: a cell `\|y` is split at the pipe before it is unescaped, so the language gets `\` (spec §8's example). |

Every property of a passing run has a mutant in `PROJECT.json`. A mutant is
a plausible bug in the mapped code that TLC shows breaks the property:

- a success counted on every attempt;
- every base key treated as missing;
- the placeholder without its marker;
- a language ordered once per cell;
- a delete that removes the whole top-level entry;
- cleaning a parent before its children;
- an assignment that moves an existing key to the end;
- `format` substituting no value (breaks both the refinement and `PlaceholdersFromTemplate`);
- the first row of a key winning over later ones;
- a `--languages`-filtered file counted.

### Bounds

- **Add runs.** Two targets, so one file can be rewritten before another
  fails or raises. Depth 2 gives nesting and leaf/dict conflicts. Two key
  segments give both missing and present keys.
- **Manage runs.**
  - The refinement run uses the same universe as add_plain.
  - The rerun run uses eleven hand-picked files over `a`, `a.a` and the empty
    key. They cover:
    - nested and dotted spellings of one path;
    - an en.json leaf `""` and a locale dict `""`, which collide;
    - a leaf `"a"` that the substring test finds;
    - an empty file and an unreadable one.
  - Two invocations are enough for "the second changes nothing".
- **Table runs.**
  - Two languages, so one language can be written before a later one fails.
  - Two rows, so rows can conflict and keys can be new or already present.
  - Files up to depth 3, so pruning can empty a dict and then its parent.
  - Cells are empty or one fixed value. Nine more two-row tables over key `a`
    use two values in the de column, so that a later row overrides an
    earlier one, and put a preamble line before the header. The escaped-pipe
    run adds `\|y`.
  - table_write_abort and table_escaped_pipe use one key and flat files:
    that is enough for the case to happen.

Every state space is explored exhaustively, with up to 1.6×10⁶ distinct
states (table_merge, about 80 s).

### Fairness and deadlock

Each script is one sequential process. Once started, it keeps executing until
its loop ends or an exception ends it. That is weak fairness on its
next-state relation (`FairSpec == Spec /\ WF_vars(Next)` in `TableToI18n`),
and table_write_abort assumes it. No stronger fairness applies. The end
states (`done`, `crashed`) are terminal, so the cfgs say
`CHECK_DEADLOCK FALSE`.

## Not modelled (yet)

- **The order helpers of `table_to_i18n.py`** (`create_nested_dict`,
  `get_original_key_order`, `get_all_keys_ordered`,
  `create_nested_dict_ordered`). `main()` never calls them, so they never
  run.
- **argparse, directory listing, printing and `--base-file`/`--locale-dir`.**
  The options that change behaviour are modelled. The base file name is a
  constant, and the rest holds no state that the properties tell apart.
- **Deletion order with dotted file keys.** A locale file holding both `b`
  and a literal `b.a` key is not in the table runs. With such a file, one
  deletion order raises and another keeps a pruned key.
- **Disagreements with the spec that have no run of their own.** A
  violation run checks one property, and each of these would need one:
  - a readable locale file holding `{}` is skipped like a failed load, so it
    never receives the base keys;
  - a `--placeholder` template without `{}` is accepted, and every
    placeholder becomes the same literal text (the spec requires exactly one
    slot);
  - an exception in `add_missing_keys.py`'s lookup ends the batch, so the
    later files are never attempted (as in table_write_abort);
  - `table_keys` holds only keys with a non-empty cell. A row whose cells
    are all empty therefore has its key pruned from every file, though
    spec §4.5 reads an empty cell as "no update". A language column with no
    non-empty cell is never visited.

  The hazards in `PROJECT.json` record them. Where a passing property
  (`TableParsedAsWritten`, `MergeResult`, `PlaceholdersFromTemplate`) reaches
  one of these cases, it checks what the code does.

## Plan

1. Dotted file keys in a table run, for the hash-order hazard.
2. A composition of `table_to_i18n.py` followed by
   `manage_missing_keys.py --action add` on the same files: the placeholders
   add puts back for keys the table pruned, and what a second merge does to
   them.
