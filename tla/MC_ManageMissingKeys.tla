------------------------ MODULE MC_ManageMissingKeys ------------------------
(***************************************************************************)
(* Model-checking instance of ManageMissingKeys: the base file and two    *)
(* locale files, and the add_missing_keys.py model as the specification  *)
(* that manage_missing_keys.py's default `add` is checked to implement.  *)
(***************************************************************************)
EXTENDS ManageMissingKeys

\* code points
CharA == 97
CharB == 98
CharX == 120
CharBracket == 91

MCTargets == <<"de", "fr">>
MCPrefix == <<CharBracket>>

\* The default "[TO TRANSLATE] {}", its marker shortened to "[".
DefaultTemplate == <<Lit(MCPrefix), AutoField>>
\* A template without a field: every placeholder is the same text.
NoFieldTemplate == <<Lit(MCPrefix)>>
\* Two fields for one argument: format raises IndexError.
TwoFieldTemplate == <<AutoField, AutoField>>

MCTemplates == {DefaultTemplate, NoFieldTemplate, TwoFieldTemplate}
MCDefaultOnly == {DefaultTemplate}
MCLanguageLists == {{}, {"de"}}

\* Dicts of depth at most `depth` over the keys and leaves given, keys in
\* StrLess order.
RECURSIVE DictsUpTo(_, _, _)
DictsUpTo(segs, vals, depth) ==
    LET values == vals \cup (IF depth > 1 THEN DictsUpTo(segs, vals, depth - 1)
                                          ELSE {})
        keySeqs == {SetToSortSeq(ks, StrLess) : ks \in SUBSET segs}
    IN UNION {{Dict([i \in DOMAIN ks |-> <<ks[i], vs[i]>>]) :
                  vs \in [DOMAIN ks -> values]} : ks \in keySeqs}

\* Every dict of depth at most 2 over keys a and b, and an unreadable file.
PlainContents ==
    DictsUpTo({<<CharA>>, <<CharB>>}, {Str(<<CharX>>)}, 2) \cup {Unreadable}

\* Files over "a" and "a.a": nested and dotted spellings of one path, a
\* leaf "a" that `"a" in` finds, and an unreadable file.
KeyA == <<CharA>>
KeyAA == <<CharA, DOT, CharA>>
X == Str(<<CharX>>)
SmallContents ==
    { EmptyDict, Unreadable,
      Dict(<<<<KeyA, X>>>>),
      Dict(<<<<KeyA, Str(KeyA)>>>>),
      Dict(<<<<KeyAA, X>>>>),
      Dict(<<<<KeyA, Dict(<<<<KeyA, X>>>>)>>>>),
      Dict(<<<<KeyA, X>>, <<KeyAA, X>>>>),
      Dict(<<<<KeyA, Str(KeyA)>>, <<KeyAA, X>>>>),
      Dict(<<<<KeyA, Dict(<<<<KeyA, X>>>>)>>, <<KeyAA, X>>>>),
      Dict(<<<<<<>>, X>>, <<KeyA, X>>>>),
      Dict(<<<<<<>>, Dict(<<<<KeyA, X>>>>)>>>>) }

(***************************************************************************)
(* add_missing_keys.py seen through manage_missing_keys.py's state: the   *)
(* same files, loop and counts, except that a file where no missing key  *)
(* could be filled is "Failed to save" for manage_missing_keys.py and a  *)
(* success for add_missing_keys.py.                                       *)
(***************************************************************************)
NothingAdded == {f \in TargetSet : outcome[f] = "nothing_added"}

Add == INSTANCE AddMissingKeys WITH
    Prefix <- MCPrefix,
    successCount <- successCount + Cardinality(NothingAdded),
    outcome <- [f \in TargetSet |->
                  IF outcome[f] = "nothing_added" THEN "success" ELSE outcome[f]]

(* With the default template and no --languages, manage_missing_keys.py's *)
(* add does to the files, step by step, what add_missing_keys.py does,   *)
(* and counts the same files, once "Failed to save" for a file with     *)
(* nothing to add is read as add_missing_keys.py's success.              *)
AddRefinement == Add!Spec
=============================================================================
