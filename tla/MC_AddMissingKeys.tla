------------------------- MODULE MC_AddMissingKeys -------------------------
(***************************************************************************)
(* Model-checking instance of AddMissingKeys: the base file and two       *)
(* locale files, whose contents range over every dict of depth at most 2 *)
(* over keys "a" and "b" (in one key order), an unreadable file, a base   *)
(* that makes get_value_by_path raise, and files with colliding keys.    *)
(***************************************************************************)
EXTENDS AddMissingKeys

\* code points
CharA == 97
CharB == 98
CharC == 99
CharX == 120
CharBracket == 91

MCTargets == <<"de", "fr">>
MCPrefix == <<CharBracket>>

\* Dicts of depth at most `depth` over the keys and leaves given, keys in
\* StrLess order (json.load keeps file order; the order never matters to
\* add_missing_keys' results beyond the order of the output).
RECURSIVE DictsUpTo(_, _, _)
DictsUpTo(segs, vals, depth) ==
    LET values == vals \cup (IF depth > 1 THEN DictsUpTo(segs, vals, depth - 1)
                                          ELSE {})
        keySeqs == {SetToSortSeq(ks, StrLess) : ks \in SUBSET segs}
    IN UNION {{Dict([i \in DOMAIN ks |-> <<ks[i], vs[i]>>]) :
                  vs \in [DOMAIN ks -> values]} : ks \in keySeqs}

\* Plain keys: no key contains '.'.
PlainContents ==
    DictsUpTo({<<CharA>>, <<CharB>>}, {Str(<<CharX>>)}, 2) \cup {Unreadable}

\* A file with a key "c.a" below a leaf "c" that `"a" in` finds:
\* get_value_by_path(base, "c.a") raises when it is the base file and
\* "c.a" is missing from a locale file.
RaisingBase ==
    Dict(<<<<<<CharA>>, Str(<<CharX>>)>>,
           <<<<CharC>>, Str(<<CharA>>)>>,
           <<<<CharC, DOT, CharA>>, Str(<<CharX>>)>>>>)

\* Files whose keys collide under get_all_keys: an empty key, which
\* `if prefix` drops from the dotted path ({"": {"a": x}} has key "a"),
\* a literal "a.a" key spelling the path of {"a": {"a": x}}, and a base
\* {"": x, "a": x} whose leaf "" lands on a locale file's {"": {...}}.
CollidingContents ==
    {Dict(<<<<<<>>, Str(<<CharX>>)>>>>),
     Dict(<<<<<<>>, Str(<<CharX>>)>>, <<<<CharA>>, Str(<<CharX>>)>>>>),
     Dict(<<<<<<>>, Dict(<<<<<<CharA>>, Str(<<CharX>>)>>>>)>>>>),
     Dict(<<<<<<CharA, DOT, CharA>>, Str(<<CharX>>)>>>>)}

\* The plain universe with the raising and the colliding files added.
PlainAndRaising == PlainContents \cup {RaisingBase} \cup CollidingContents
=============================================================================
