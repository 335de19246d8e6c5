---------------------------- MODULE FormatTexts -----------------------------
(***************************************************************************)
(* Documents built line by line are written out by the formatter and read  *)
(* by the parser again (toml.hpp).                                         *)
(***************************************************************************)
EXTENDS TomlFormatter, TomlDocument

CONSTANT Flags(_)  \* sets of format_flags to write a document of so many lines with

\* A number is the same with and without .0 at its end.
Shortest(chars) ==
    LET n == Len(chars)
    IN  IF n > 2 /\ SubSeq(chars, n - 1, n) = <<Dot, Zero>> THEN SubSeq(chars, 1, n - 2) ELSE chars

Content(node) ==
    <<node.type, IF node.type = "float" THEN <<node.val[1], Shortest(node.val[2])>> ELSE node.val>>

\* Two documents with the same keys and values, whether they were written with
\* headers, inline tables or dotted keys.
SameContent(doc1, doc2) ==
    /\ DOMAIN doc1 = DOMAIN doc2
    /\ \A p \in DOMAIN doc1 : Content(doc1[p]) = Content(doc2[p])

Keeps(r) == Succeeds(r) /\ SameContent(r.val, nodes)

\* The bytes read as a file.
Read(bytes) ==
    LET points == Decode(bytes) IN IF Eof \in ToSet(points) THEN Error ELSE parse_document(points)

-----------------------------------------------------------------------------
(* Reference: what the text of a document can express                      *)

\* The string, in the form that was chosen for it, denotes itself: line breaks in
\* an escaped string are escaped if they are ASCII, those of a literal string are
\* read as line feeds, and one at its beginning is dropped.
DenotedAs(points, form) ==
    LET breaks == {c \in ToSet(points) : is_line_break(c)}
    IN  /\ Eof \notin ToSet(points)
        /\ form.multi_line /\ ~form.literal => ~\E c \in breaks : is_non_ascii_line_break(c)
        /\ ~form.multi_line /\ form.literal => \A c \in breaks : is_non_ascii_line_break(c)
        /\ form.multi_line /\ form.literal =>
              /\ breaks = {LF} /\ points[1] # LF
              /\ ~\E i \in 1..(Len(points) - 2) : \A j \in i..(i + 2) : points[j] = Apostrophe

Denoted(str, flags_) == DenotedAs(Decode(str), string_form(str, flags_))

\* Keys that stand in headers: those of sections, and not inside a value.
InHeader(p) ==
    \A i \in 1..Len(p) :
        \/ nodes[SubSeq(p, 1, i - 1)].type = "array"
        \/ is_section(nodes, SubSeq(p, 1, i))

Expressible(flags_) ==
    \A p \in DOMAIN nodes :
        /\ nodes[p].type = "string" => Denoted(nodes[p].val, flags_)
        /\ p # <<>> /\ InHeader(p) => Backslash \notin ToSet(Last(p))

-----------------------------------------------------------------------------
(* Properties                                                              *)

\* A document that is written out and read again keeps its keys and values, with
\* the tables, arrays of tables and dotted keys in any arrangement, and arrays on
\* one line or several; it loses something exactly when a header has a key with a
\* backslash (default_formatter_make_key_segment does not escape it) or a string
\* has line breaks that the chosen form (print_quoted_string) does not denote.
WrittenIsRead ==
    \A flags_ \in Flags(Len(lines)), undefined \in {0, line_wrap + 1} :
        Expressible(flags_) <=>
            Keeps(Read(print([nodes |-> nodes, flags |-> flags_, undefined |-> undefined])))
=============================================================================
