------------------------------ MODULE I18nTree ------------------------------
(***************************************************************************)
(* The nested-key helpers shared by the three scripts under               *)
(* src/scripts/i18n: the translation tree as Python loads it from JSON,   *)
(* the dotted key paths built by get_all_keys, and the path accessors     *)
(* get_value_by_path, set_value_by_path, delete_nested_value and          *)
(* clean_empty_dicts.                                                      *)
(*                                                                         *)
(* A Python str is a sequence of code points, so a string here is a       *)
(* sequence of naturals; only the separator '.' (code point 46) is        *)
(* distinguished.  A dict is an ordered list of <<key, value>> pairs, as  *)
(* Python 3 dicts keep insertion order.  An uncaught exception (the       *)
(* TypeError of `in` or item assignment on a str or None) is the value    *)
(* Crash.                                                                  *)
(***************************************************************************)
EXTENDS Naturals, Sequences, SequencesExt

DOT == 46

Str(s) == [tag |-> "str", s |-> s]
Dict(items) == [tag |-> "dict", items |-> items]
PyNone == [tag |-> "none"]          \* Python None, also JSON null
Crash == [tag |-> "crash"]
EmptyDict == Dict(<<>>)

IsDict(v) == v.tag = "dict"

----------------------------------------------------------------------------
(* Python dict operations, insertion-ordered. *)

DictKeys(d) == {d.items[i][1] : i \in DOMAIN d.items}

DictHas(d, k) == \E i \in DOMAIN d.items : d.items[i][1] = k

DictGet(d, k) ==
    LET i == CHOOSE i \in DOMAIN d.items : d.items[i][1] = k IN d.items[i][2]

\* A seeded fault: assignment moves an existing key to the end.
DictPutMoveToEnd(d, k, v) ==
    Dict(Append(SelectSeq(d.items, LAMBDA e : e[1] # k), <<k, v>>))

\* d[k] = v : an existing key keeps its position, a new key goes last.
DictPut(d, k, v) ==
    IF DictHas(d, k)
    THEN Dict([i \in DOMAIN d.items |->
                 IF d.items[i][1] = k THEN <<k, v>> ELSE d.items[i]])
    ELSE Dict(Append(d.items, <<k, v>>))

\* del d[k]
DictDel(d, k) == Dict(SelectSeq(d.items, LAMBDA e : e[1] # k))

----------------------------------------------------------------------------
(* Strings. *)

\* Python's `p in s` for two strs: substring test (the empty string is in
\* every string).
IsSubstring(p, s) ==
    \E i \in 0..(Len(s) - Len(p)) : SubSeq(s, i + 1, i + Len(p)) = p

\* Python's `s < t` on strs: code-point lexicographic order.
StrLess(s, t) ==
    \/ IsStrictPrefix(s, t)
    \/ \E i \in 1..Len(s) :
          /\ i <= Len(t)
          /\ SubSeq(s, 1, i - 1) = SubSeq(t, 1, i - 1)
          /\ s[i] < t[i]

\* s.split(sep) for a one-character separator.
SplitOn(s, sep) ==
    LET RECURSIVE Go(_, _)
        Go(rest, cur) ==
            IF rest = <<>> THEN <<cur>>
            ELSE IF Head(rest) = sep THEN <<cur>> \o Go(Tail(rest), <<>>)
            ELSE Go(Tail(rest), Append(cur, Head(rest)))
    IN Go(s, <<>>)

\* path.split('.')
Split(path) == SplitOn(path, DOT)

\* f"{prefix}.{key}" if prefix else key
FullKey(prefix, key) == IF prefix # <<>> THEN prefix \o <<DOT>> \o key ELSE key

----------------------------------------------------------------------------
(* get_all_keys: the dotted path of every non-dict value, in depth-first  *)
(* insertion order (table_to_i18n keeps the list, the other scripts the   *)
(* set).                                                                   *)

RECURSIVE KeyList(_, _)
KeyList(items, prefix) ==
    IF items = <<>> THEN <<>>
    ELSE LET k == Head(items)[1]
             v == Head(items)[2]
         IN (IF IsDict(v) THEN KeyList(v.items, FullKey(prefix, k))
                          ELSE <<FullKey(prefix, k)>>)
            \o KeyList(Tail(items), prefix)

GetAllKeysList(obj) == KeyList(obj.items, <<>>)
GetAllKeys(obj) == ToSet(GetAllKeysList(obj))

\* A seeded fault: every base key taken as missing.
FindMissingKeysAll(baseKeys, target) == SetToSortSeq(baseKeys, StrLess)

\* find_missing_keys: sorted(base_keys - get_all_keys(target))
FindMissingKeys(baseKeys, target) ==
    SetToSortSeq(baseKeys \ GetAllKeys(target), StrLess)

----------------------------------------------------------------------------
(* get_value_by_path.  After every step the loop returns None when the    *)
(* value reached is a dict, so it can only walk one segment into a dict;  *)
(* further segments test `part in current` on a str (substring test, then *)
(* current[part] raises) or on None (raises).                             *)

RECURSIVE GetIn(_, _)
GetIn(current, parts) ==
    IF parts = <<>> THEN current
    ELSE LET part == Head(parts) IN
         CASE current.tag = "dict" ->
                IF ~DictHas(current, part) THEN PyNone
                ELSE IF IsDict(DictGet(current, part)) THEN PyNone
                ELSE GetIn(DictGet(current, part), Tail(parts))
           [] current.tag = "str" ->
                IF IsSubstring(part, current.s) THEN Crash ELSE PyNone
           [] OTHER -> Crash

GetValueByPath(obj, path) == GetIn(obj, Split(path))

(* set_value_by_path (and merge_translations' set_nested_value): creates  *)
(* a missing intermediate dict, walks into an existing value whatever it  *)
(* is, and assigns the last segment; any non-dict on the way raises.      *)

RECURSIVE SetIn(_, _, _)
SetIn(current, parts, value) ==
    IF ~IsDict(current) THEN Crash
    ELSE IF Len(parts) = 1 THEN DictPut(current, parts[1], value)
    ELSE LET part == Head(parts)
             child == IF DictHas(current, part) THEN DictGet(current, part)
                                                 ELSE EmptyDict
             r == SetIn(child, Tail(parts), value)
         IN IF r = Crash THEN Crash ELSE DictPut(current, part, r)

SetValueByPath(obj, path, value) == SetIn(obj, Split(path), value)

\* A seeded fault: the whole top-level entry of the path deleted.
DeleteTopLevel(obj, path) == DictDel(obj, Head(Split(path)))

(* delete_nested_value of merge_translations: a missing prefix segment    *)
(* returns without deleting; on a str, `part in current` is a substring   *)
(* test and a hit then indexes or deletes from the str, which raises.     *)

RECURSIVE DelIn(_, _)
DelIn(current, parts) ==
    CASE current.tag = "dict" ->
           IF ~DictHas(current, Head(parts)) THEN current
           ELSE IF Len(parts) = 1 THEN DictDel(current, Head(parts))
           ELSE LET r == DelIn(DictGet(current, Head(parts)), Tail(parts))
                IN IF r = Crash THEN Crash ELSE DictPut(current, Head(parts), r)
      [] current.tag = "str" ->
           IF IsSubstring(Head(parts), current.s) THEN Crash ELSE current
      [] OTHER -> Crash

DeleteNestedValue(obj, path) == DelIn(obj, Split(path))

\* A seeded fault: a child's emptiness tested before it is cleaned.
RECURSIVE CleanParentFirst(_)
CleanParentFirst(obj) ==
    IF ~IsDict(obj) THEN obj
    ELSE LET kept == SelectSeq(obj.items,
                               LAMBDA e : ~(IsDict(e[2]) /\ e[2].items = <<>>))
         IN Dict([i \in DOMAIN kept |-> <<kept[i][1], CleanParentFirst(kept[i][2])>>])

(* clean_empty_dicts: children first, then drop a child dict left empty;  *)
(* the top-level dict itself is kept even when empty.                     *)
RECURSIVE CleanEmptyDicts(_)
CleanEmptyDicts(obj) ==
    IF ~IsDict(obj) THEN obj
    ELSE LET cleaned == [i \in DOMAIN obj.items |->
                           <<obj.items[i][1], CleanEmptyDicts(obj.items[i][2])>>]
         IN Dict(SelectSeq(cleaned,
                           LAMBDA e : ~(IsDict(e[2]) /\ e[2].items = <<>>)))

----------------------------------------------------------------------------
(* Reference definitions the properties are stated with (no code).        *)

\* Every leaf of a tree with its dotted key: <<key, value>> pairs.
RECURSIVE LeafPairsIn(_, _)
LeafPairsIn(items, prefix) ==
    IF items = <<>> THEN {}
    ELSE LET k == Head(items)[1]
             v == Head(items)[2]
         IN (IF IsDict(v) THEN LeafPairsIn(v.items, FullKey(prefix, k))
                          ELSE {<<FullKey(prefix, k), v>>})
            \cup LeafPairsIn(Tail(items), prefix)

LeafPairs(t) == IF IsDict(t) THEN LeafPairsIn(t.items, <<>>) ELSE {}

\* Some dict below the top level has no entries.
RECURSIVE HasEmptySubDict(_)
HasEmptySubDict(t) ==
    \E i \in DOMAIN t.items :
        LET v == t.items[i][2] IN
        IsDict(v) /\ (v.items = <<>> \/ HasEmptySubDict(v))

\* The position of the first occurrence of e in s.
IndexIn(s, e) == CHOOSE i \in DOMAIN s : s[i] = e /\ \A j \in 1..(i - 1) : s[j] # e

=============================================================================
