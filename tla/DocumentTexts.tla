--------------------------- MODULE DocumentTexts ----------------------------
(***************************************************************************)
(* The grammar of TOML's documents, as a reference for parse_document of   *)
(* toml.hpp: the set of the meanings of a text, which is empty for a text  *)
(* that has none.  It is for texts without quotes, in which a hash always  *)
(* begins a comment, and with numbers of the digit 1.                      *)
(***************************************************************************)
EXTENDS NumberTexts

Upto(t, i) == SubSeq(t, 1, i)
Inner(t) == SubSeq(t, 2, Len(t) - 1)
Places(t, c) == {i \in 1..Len(t) : t[i] = c}
Encloses(open, t, close) == Len(t) >= 2 /\ t[1] = open /\ t[Len(t)] = close

\* t without the code points of blank at both of its ends.
Trim(t, blank) ==
    LET solid == {i \in 1..Len(t) : t[i] \notin blank}
    IN  IF solid = {} THEN <<>> ELSE SubSeq(t, Min(solid), Max(solid))

\* A comment ends where the line ends, and so at its line feed.
InComment(t, i) == \E h \in Places(Upto(t, i), Hash) : \A j \in h..i : t[j] # LF
Uncommented(t) ==
    LET kept == SelectSeq([i \in 1..Len(t) |-> i], LAMBDA i : ~InComment(t, i))
    IN  [k \in 1..Len(kept) |-> t[kept[k]]]

\* The texts between the separators c of t.
Parts(t, c) ==
    LET cuts == SetToSortSeq(Places(t, c) \cup {0, Len(t) + 1}, <)
    IN  [k \in 1..(Len(cuts) - 1) |-> SubSeq(t, cuts[k] + 1, cuts[k + 1] - 1)]

Keys(t) ==
    LET segments == [k \in 1..Len(Parts(t, Dot)) |-> Trim(Parts(t, Dot)[k], {Space})]
        bare(segment) == segment # <<>> /\ \A i \in 1..Len(segment) : is_bare_key_character(segment[i])
    IN  IF \A k \in 1..Len(segments) : bare(segments[k]) THEN {segments} ELSE {}

Ones(t) == t # <<>> /\ \A i \in 1..Len(t) : t[i] = Zero + 1
IsTrue(t) == t = <<chr.t, chr.r, chr.u, chr.e>>
IsFraction(t) == \E i \in Places(t, Dot) : Ones(Upto(t, i - 1)) /\ Ones(From(t, i + 1))

RECURSIVE Values(_), Elements(_), Members(_)

PairsOf(t) ==
    LET p == Min(Places(t, Equals))
    IN  IF Places(t, Equals) = {} THEN {}
        ELSE {[key |-> key, value |-> value] : key \in Keys(Trim(Upto(t, p - 1), {Space})),
                                               value \in Values(Trim(From(t, p + 1), {Space}))}

\* The elements of an array: a comma may follow the last one.
Elements(t) ==
    IF Trim(t, {Space, LF}) = <<>> THEN {<<>>}
    ELSE {<<v>> : v \in Values(Trim(t, {Space, LF}))}
         \cup UNION {{<<v>> \o rest : v \in Values(Trim(Upto(t, i - 1), {Space, LF})),
                                      rest \in Elements(From(t, i + 1))} : i \in Places(t, Comma)}

\* The pairs of an inline table: a comma stands between two of them.
Members(t) ==
    {<<pair>> : pair \in PairsOf(Trim(t, {Space}))}
    \cup UNION {{<<pair>> \o rest : pair \in PairsOf(Trim(Upto(t, i - 1), {Space})),
                                    rest \in Members(From(t, i + 1))} : i \in Places(t, Comma)}

ArrayOf(values) ==
    FoldLeft(LAMBDA a, k : a @@ Under(<<Element(k)>>, values[k]),
             <<>> :> Array("value", Len(values)), [k \in 1..Len(values) |-> k])

InlineOf(pairs) ==
    FoldLeft(LAMBDA acc, pair : IF acc.ok THEN insert(acc.nodes, <<>>, pair.key, pair.value) ELSE acc,
             Granted(<<>> :> Table("inline"), <<>>), pairs)

Values(t) ==
    IF Ones(t) THEN IF Fits(t) THEN {Scalar("integer", NumberOf(10, t))} ELSE {}
    ELSE IF IsTrue(t) THEN {Scalar("boolean", TRUE)}
    ELSE IF IsFraction(t) THEN {Scalar("float", <<FALSE, t>>)}
    ELSE IF Encloses(LBracket, t, RBracket) THEN {ArrayOf(values) : values \in Elements(Inner(t))}
    ELSE IF ~Encloses(LBrace, t, RBrace) THEN {}
    ELSE IF Trim(Inner(t), {Space}) = <<>> THEN {<<>> :> Table("inline")}
    ELSE {r.nodes : r \in {InlineOf(pairs) : pairs \in Members(Inner(t))} \ {Refused}}

HeaderKeys(t) == Keys(Trim(t, {Space}))

\* The effects of a line on a document and its current table.
Lines(t, doc) ==
    IF Encloses(LBracket, t, RBracket) /\ Encloses(LBracket, Inner(t), RBracket)
    THEN {define_table(doc.nodes, key, TRUE) : key \in HeaderKeys(Inner(Inner(t)))}
    ELSE IF Encloses(LBracket, t, RBracket)
    THEN {define_table(doc.nodes, key, FALSE) : key \in HeaderKeys(Inner(t))}
    ELSE {insert(doc.nodes, doc.tab, pair.key, pair.value) : pair \in PairsOf(t)}

\* A line ends with a line feed, but not with every one: arrays go over several.
RECURSIVE Documents(_, _)
Documents(t, doc) ==
    IF Trim(t, {Space, LF}) = <<>> THEN {doc.nodes}
    ELSE LET u == Trim(t, {Space, LF})
         IN  UNION {UNION {Documents(From(u, i + 1), next) :
                           next \in Lines(Trim(Upto(u, i - 1), {Space}), doc) \ {Refused}} :
                    i \in Places(u, LF) \cup {Len(u) + 1}}

Meanings(t) == Documents(Uncommented(t), Granted(EmptyDocument, <<>>))
=============================================================================
