---------------------------- MODULE TableToI18n ----------------------------
(***************************************************************************)
(* src/scripts/i18n/table_to_i18n.py after parse_markdown_table: main()  *)
(* collects the keys of the table, and save_language_files walks the     *)
(* languages of the parsed translations, merges each into its existing   *)
(* JSON file with merge_translations (prune keys not in the table, set   *)
(* the non-empty table values, drop empty dicts) and writes the file     *)
(* back.  One language of the loop is one action.  The table arrives as  *)
(* rows of already split and unescaped cells.                            *)
(***************************************************************************)
EXTENDS I18nTree, FiniteSets

CONSTANTS
    Langs,          \* the language columns of the header, in order
    TargetLanguages,\* --languages; {} when not given
    Tables,         \* the input files: [rows |-> the table as its author
                    \*   meant it, lines |-> the markdown lines written]
    Contents,       \* the contents a locale file may start with
    WriteFaults     \* whether json.dump into the opened file may fail

VARIABLES
    disk,           \* language -> content of <lang>.json
    translations,   \* parse_markdown_table's result: [order, trans]
    tableKeys,      \* table_keys
    pc,             \* "loop", "done" or "crashed"
    next,           \* index of the language the loop is at
    savedCount,     \* saved_count
    \* observation only:
    table,          \* the rows the input file was written from
    before,         \* the contents of the files when the run started
    written,        \* the languages whose file this run has written
    failed          \* the language whose own merge or write raised

vars == <<disk, translations, tableKeys, pc, next, savedCount, table, before,
          written, failed>>

LangSet == ToSet(Langs)

Missing == [tag |-> "missing"]       \* FileNotFoundError
Malformed == [tag |-> "malformed"]   \* json.JSONDecodeError

----------------------------------------------------------------------------
(* parse_markdown_table, over lines of code points.                        *)

PIPE == 124
SPACE == 32
NEWLINE == 10
BACKSLASH == 92
BR == <<60, 98, 114, 62>>                      \* "<br>"
HeaderStart == <<PIPE, SPACE, 75, 101, 121, SPACE, PIPE>>   \* "| Key |"

\* str.strip(): leading and trailing whitespace removed.
Strip(s) ==
    LET IsText(c) == c \notin {SPACE, NEWLINE}
        i == SelectInSeq(s, IsText)
    IN IF i = 0 THEN <<>> ELSE SubSeq(s, i, SelectLastInSeq(s, IsText))

\* value.replace('\\|', '|').replace('<br>', '\n')
Unescape(v) ==
    ReplaceAllSubSeqs(<<NEWLINE>>, BR,
                      ReplaceAllSubSeqs(<<PIPE>>, <<BACKSLASH, PIPE>>, v))

\* [c.strip() for c in line.split('|')[1:-1]]
Columns(line) ==
    LET parts == SplitOn(line, PIPE)
    IN [i \in 1..(Len(parts) - 2) |-> Strip(parts[i + 1])]

\* A seeded fault: the language appended to the order at each of its cells.
StoreCellAppendAlways(acc, lang, key, value) ==
    [order |-> Append(acc.order, lang),
     trans |-> [acc.trans EXCEPT ![lang] = DictPut(@, key, Str(value))]]

\* A seeded fault: a key's first row wins (setdefault in place of =).
StoreCellKeepFirst(acc, lang, key, value) ==
    [order |-> IF lang \in ToSet(acc.order) THEN acc.order
               ELSE Append(acc.order, lang),
     trans |-> [acc.trans EXCEPT ![lang] =
                  IF DictHas(@, key) THEN @ ELSE DictPut(@, key, Str(value))]]

\* translations[lang][key] = value: translations is a defaultdict, so a
\* language enters it, and its order, at its first stored cell.
StoreCell(acc, lang, key, value) ==
    [order |-> IF lang \in ToSet(acc.order) THEN acc.order
               ELSE Append(acc.order, lang),
     trans |-> [acc.trans EXCEPT ![lang] = DictPut(@, key, Str(value))]]

(***************************************************************************)
(* The header is the first line starting with "| Key |" (none: header_line *)
(* is unbound; the last line: lines[i + 1] raises); its stripped cells    *)
(* between the Key column and the end are the languages.  The content    *)
(* starts two lines below it; a line is skipped when blank, when it does *)
(* not start with '|' or when it has fewer than two cells; every          *)
(* non-empty cell within the row is unescaped and stored.                 *)
(***************************************************************************)
ParseMarkdownTable(lines) ==
    LET h == SelectInSeq(lines, LAMBDA l : IsPrefix(HeaderStart, l))
        headers == [i \in DOMAIN SplitOn(lines[h], PIPE) |->
                      Strip(SplitOn(lines[h], PIPE)[i])]
        languages == SubSeq(headers, 3, Len(headers) - 1)
        Row(acc, line) ==
          LET cols == Columns(line)
              Cell(a, j) ==
                IF j + 1 > Len(cols) \/ cols[j + 1] = <<>> THEN a
                ELSE StoreCell(a, languages[j], cols[1], Unescape(cols[j + 1]))
          IN IF Strip(line) = <<>> \/ ~IsPrefix(<<PIPE>>, line) \/ Len(cols) < 2
             THEN acc
             ELSE FoldLeft(Cell, acc, [j \in DOMAIN languages |-> j])
    IN IF h = 0 \/ h = Len(lines) THEN Crash
       ELSE FoldLeft(Row,
                     [order |-> <<>>,
                      trans |-> [l \in ToSet(languages) |-> EmptyDict]],
                     SubSeq(lines, h + 2, Len(lines)))

\* main(): table_keys, the keys of every language's translations.
TableKeys(t) == UNION {DictKeys(t.trans[l]) : l \in DOMAIN t.trans}

\* What main() is left with when parsing raised.
NoTranslations == [order |-> <<>>, trans |-> [l \in LangSet |-> EmptyDict]]

----------------------------------------------------------------------------

\* save_language_files' load: FileNotFoundError and JSONDecodeError give {}.
LoadOriginal(c) == IF c \in {Missing, Malformed} THEN EmptyDict ELSE c

(***************************************************************************)
(* merge_translations.  keys_to_delete is a Python set of str, iterated  *)
(* in the order of the per-process string hash, so the deletions happen  *)
(* in any order: delOrder is one ordering of KeysToDelete.  The values  *)
(* are then set in translation order and empty dicts cleaned.  Crash     *)
(* when a step raises.                                                    *)
(***************************************************************************)
MergeTranslations(original, newTrans, delOrder) ==
    LET Del(acc, key) ==
          IF acc = Crash THEN Crash ELSE DeleteNestedValue(acc, key)
        Put(acc, item) ==
          IF acc = Crash THEN Crash ELSE SetValueByPath(acc, item[1], item[2])
        pruned == FoldLeft(Del, original, delOrder)
        updated == FoldLeft(Put, pruned, newTrans.items)
    IN IF updated = Crash THEN Crash ELSE CleanEmptyDicts(updated)

\* keys_to_delete = original_keys - set(table_keys), in every iteration order
KeysToDelete(original, keys) == GetAllKeys(original) \ keys

----------------------------------------------------------------------------

\* main(): the input file is parsed before any locale file is touched; a
\* parse that raises ends the script there.
Init ==
    /\ \E t \in Tables :
          LET parsed == ParseMarkdownTable(t.lines) IN
          /\ table = t.rows
          /\ translations = IF parsed = Crash THEN NoTranslations ELSE parsed
          /\ tableKeys = TableKeys(translations)
          /\ pc = IF parsed = Crash THEN "crashed" ELSE "loop"
    /\ disk \in [LangSet -> Contents]
    /\ next = 1
    /\ savedCount = 0
    /\ before = disk
    /\ written = {}
    /\ failed = {}

TransLangs == translations.order

\* `if target_languages and lang not in target_languages`: skipped.
SkipLanguage ==
    /\ pc = "loop"
    /\ next <= Len(TransLangs)
    /\ TargetLanguages # {}
    /\ TransLangs[next] \notin TargetLanguages
    /\ next' = next + 1
    /\ UNCHANGED <<disk, translations, tableKeys, pc, savedCount, table, before,
                   written, failed>>

(***************************************************************************)
(* One language of save_language_files: load, merge, and write the file   *)
(* with open(..., 'w') and json.dump outside any try, so a failing write  *)
(* leaves a truncated file and ends the script, as does a merge that      *)
(* raises (before the file is opened).                                    *)
(***************************************************************************)
SaveLanguage ==
    /\ pc = "loop"
    /\ next <= Len(TransLangs)
    /\ TargetLanguages = {} \/ TransLangs[next] \in TargetLanguages
    /\ UNCHANGED <<translations, tableKeys, table, before>>
    /\ LET lang == TransLangs[next]
           original == LoadOriginal(disk[lang])
       IN \E delOrder \in SetToSeqs(KeysToDelete(original, tableKeys)) :
          LET merged == MergeTranslations(original,
                                          translations.trans[lang],
                                          delOrder)
          IN \/ /\ merged = Crash
                /\ pc' = "crashed"
                /\ failed' = {lang}
                /\ UNCHANGED <<disk, next, savedCount, written>>
             \/ /\ merged # Crash
                /\ disk' = [disk EXCEPT ![lang] = merged]
                /\ next' = next + 1
                /\ savedCount' = savedCount + 1
                /\ written' = written \cup {lang}
                /\ UNCHANGED <<pc, failed>>
             \/ /\ merged # Crash
                /\ WriteFaults
                /\ disk' = [disk EXCEPT ![lang] = Malformed]
                /\ pc' = "crashed"
                /\ failed' = {lang}
                /\ UNCHANGED <<next, savedCount, written>>

\* The loop is over: main() prints the summary and exits.
Finish ==
    /\ pc = "loop"
    /\ next > Len(TransLangs)
    /\ pc' = "done"
    /\ UNCHANGED <<disk, translations, tableKeys, next, savedCount, table, before,
                   written, failed>>

Next == SkipLanguage \/ SaveLanguage \/ Finish

Spec == Init /\ [][Next]_vars

\* The script is one sequential process: once started it keeps executing
\* until the loop ends or an exception ends it.
FairSpec == Spec /\ WF_vars(Next)

----------------------------------------------------------------------------
(* Properties *)

TypeOK ==
    /\ \A l \in LangSet :
          \/ disk[l] \in {Missing, Malformed}
          \/ IsDict(disk[l]) /\ \A p \in LeafPairs(disk[l]) : p[2].tag = "str"
    /\ pc \in {"loop", "done", "crashed"}
    /\ next \in 1..(Len(TransLangs) + 1)
    /\ savedCount = Cardinality(written)
    /\ written \subseteq ToSet(SubSeq(TransLangs, 1, next - 1))

OldKeys(l) == GetAllKeysList(LoadOriginal(before[l]))
NewKeys(l) == GetAllKeysList(disk[l])

(* A written file holds exactly the table's keys for its language: an    *)
(* earlier translation survives when its key is in the table (whatever   *)
(* the language's cell), a non-empty cell replaces it or adds the key,   *)
(* and every other key is pruned.                                         *)
MergeResult ==
    \A l \in written :
        LET trans == translations.trans[l] IN
        LeafPairs(disk[l]) =
            {p \in LeafPairs(LoadOriginal(before[l])) :
                p[1] \in tableKeys \ DictKeys(trans)}
            \cup {trans.items[i] : i \in DOMAIN trans.items}

(* No written file keeps an empty dict below its top level, also when    *)
(* pruning empties a dict whose parent then empties in turn.             *)
NoEmptyDicts == \A l \in written : ~HasEmptySubDict(disk[l])

(* Keys that stay in a file keep the order they had in it.               *)
PreservedOrderKept ==
    \A l \in written :
        \A i, j \in DOMAIN OldKeys(l) :
            /\ i < j
            /\ OldKeys(l)[i] \in ToSet(NewKeys(l))
            /\ OldKeys(l)[j] \in ToSet(NewKeys(l))
            => IndexIn(NewKeys(l), OldKeys(l)[i]) < IndexIn(NewKeys(l), OldKeys(l)[j])

(* Keys the table introduces come after all the keys the file already    *)
(* had, in table order.                                                   *)
NewKeysAfterPreserved ==
    \A l \in written :
        \A i, j \in DOMAIN NewKeys(l) :
            NewKeys(l)[i] \notin ToSet(OldKeys(l)) /\ NewKeys(l)[j] \in ToSet(OldKeys(l))
            => j < i

\* The rows whose cell for language l is the one the author meant to hold:
\* non-empty, and not overridden by a later non-empty cell of the same key.
FinalCells(l) ==
    {i \in DOMAIN table :
        /\ table[i].cells[l] # <<>>
        /\ \A j \in (i + 1)..Len(table) :
              table[j].key = table[i].key => table[j].cells[l] = <<>>}

\* Where a language's first non-empty cell is, reading the table row by row.
FirstCellAt(l) ==
    LET at == {<<i, IndexIn(Langs, l)>> : i \in {i \in DOMAIN table : table[i].cells[l] # <<>>}}
    IN CHOOSE c \in at : \A d \in at : c[1] <= d[1]

(* parse_markdown_table reads the table as its author wrote it: each     *)
(* language's translations are exactly the final non-empty cells of its  *)
(* column under their rows' keys, with the value written in markdown    *)
(* ("\|" stands for '|', spec section 8: `foo \| bar<br>baz` parses to  *)
(* `foo | bar\nbaz`), and save_language_files visits exactly the        *)
(* languages with a cell, in the order of their first cell.               *)
TableParsedAsWritten ==
    /\ \A l \in LangSet :
          ToSet(translations.trans[l].items) =
              {<<table[i].key, Str(Unescape(table[i].cells[l]))>> : i \in FinalCells(l)}
    /\ ToSet(TransLangs) = {l \in LangSet : \E i \in DOMAIN table : table[i].cells[l] # <<>>}
    /\ \A a, b \in DOMAIN TransLangs :
          a < b => FirstCellAt(TransLangs[a])[1] <= FirstCellAt(TransLangs[b])[1]

(* A file that cannot be parsed as JSON is reported and left alone.      *)
MalformedFileKept ==
    \A l \in LangSet : before[l] = Malformed /\ pc # "crashed" => disk[l] = Malformed

(* Every language of the table that --languages selects is eventually    *)
(* written, unless its own merge or write is the one that failed: the    *)
(* failure is reported and the loop goes on to the remaining languages   *)
(* (spec section 7: a save failure does not abort the remaining files).  *)
AllLanguagesWritten ==
    <>(written \cup failed = {l \in ToSet(TransLangs) :
                                TargetLanguages = {} \/ l \in TargetLanguages})

=============================================================================
