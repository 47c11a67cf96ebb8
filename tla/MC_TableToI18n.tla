-------------------------- MODULE MC_TableToI18n --------------------------
(***************************************************************************)
(* Model-checking instance of TableToI18n: two language columns, tables  *)
(* of at most two rows, and locale files ranging over every dict of      *)
(* depth at most 2 over keys "a" and "b" (one key order) or a chain of    *)
(* three dicts, a missing file and a malformed one.                       *)
(***************************************************************************)
EXTENDS TableToI18n

CharA == 97
CharB == 98
CharX == 120
CharY == 121


\* Dicts of depth at most `depth` over the keys and leaves given.
RECURSIVE DictsUpTo(_, _, _)
DictsUpTo(segs, vals, depth) ==
    LET values == vals \cup (IF depth > 1 THEN DictsUpTo(segs, vals, depth - 1)
                                          ELSE {})
        keySeqs == {SetToSortSeq(ks, StrLess) : ks \in SUBSET segs}
    IN UNION {{Dict([i \in DOMAIN ks |-> <<ks[i], vs[i]>>]) :
                  vs \in [DOMAIN ks -> values]} : ks \in keySeqs}

\* Single chains three dicts deep, so that pruning can empty a dict whose
\* parent then empties in turn.
DeepChains ==
    {Dict(<<<<s1, Dict(<<<<s2, Dict(<<<<s3, Str(<<CharX>>)>>>>)>>>>)>>>>) :
        s1, s2, s3 \in {<<CharA>>, <<CharB>>}}

PlainContents ==
    DictsUpTo({<<CharA>>, <<CharB>>}, {Str(<<CharX>>)}, 2) \cup DeepChains
    \cup {Missing, Malformed}

\* The dicts of depth 1 over keys a and b, a missing and a malformed file.
FlatContents ==
    DictsUpTo({<<CharA>>, <<CharB>>}, {Str(<<CharX>>)}, 1) \cup {Missing, Malformed}

\* The language columns "de" and "fr".
DE == <<100, 101>>
FR == <<102, 114>>
MCLangs == <<DE, FR>>
MCOnlyDe == {DE}

\* A markdown table line: "| c1 | c2 | ... |\n".
Line(cells) ==
    FoldLeft(LAMBDA acc, c : acc \o <<SPACE>> \o c \o <<SPACE, PIPE>>,
             <<PIPE>>, cells) \o <<NEWLINE>>

\* The input file written from a table: header, separator, one line a row.
Render(rows) ==
    <<Line(<<<<75, 101, 121>>>> \o MCLangs), <<PIPE, 45, PIPE, NEWLINE>>>>
    \o [i \in DOMAIN rows |->
          Line(<<rows[i].key>> \o [j \in DOMAIN MCLangs |-> rows[i].cells[MCLangs[j]]])]

\* Tables of at most two rows over the keys and cell texts given.
TablesOver(keys, texts) ==
    LET Row == [key : keys, cells : [ToSet(MCLangs) -> texts]]
    IN {[rows |-> rs, lines |-> Render(rs)] : rs \in UNION {[1..n -> Row] : n \in 0..2}}

\* Cells empty or "y".
Texts == {<<>>, <<CharY>>}

\* Keys of which none is a dotted prefix of another: "a", "b.a", "b.b".
PrefixFreeTables ==
    TablesOver({<<CharA>>, <<CharB, DOT, CharA>>, <<CharB, DOT, CharB>>}, Texts)

\* Input files the header search fails on: no "| Key |" line, and a
\* header on the last line.
BrokenTables ==
    {[rows |-> <<>>, lines |-> <<<<PIPE, 45, PIPE, NEWLINE>>>>],
     [rows |-> <<>>, lines |-> <<Line(<<<<75, 101, 121>>>> \o MCLangs)>>]}

\* Two rows over key "a", the de cells empty, "y" or "x" (so that the later
\* row overrides the earlier) and the fr cells empty, below a preamble line that starts with '|' but
\* is not the header, which the header search must pass over.
PreambleTables ==
    {[rows |-> t.rows, lines |-> <<<<PIPE, 45, PIPE, NEWLINE>>>> \o t.lines] :
        t \in {t \in TablesOver({<<CharA>>}, Texts \cup {<<CharX>>}) :
                  Len(t.rows) = 2 /\ \A i \in 1..2 : t.rows[i].cells[FR] = <<>>}}

MergeTables == PrefixFreeTables \cup BrokenTables \cup PreambleTables

\* Tables over the single key "a".
OneKeyTables == TablesOver({<<CharA>>}, Texts)

\* Keys of which one is a dotted prefix of another: "a" and "a.a".
ConflictingTables == TablesOver({<<CharA>>, <<CharA, DOT, CharA>>}, Texts)

\* One row over key "a" whose cells may hold an escaped pipe "\|y".
EscapedTables ==
    {t \in TablesOver({<<CharA>>}, Texts \cup {<<BACKSLASH, PIPE, CharY>>}) :
        Len(t.rows) = 1}

=============================================================================
