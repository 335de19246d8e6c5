--------------------------- MODULE TomlFormatter ----------------------------
(***************************************************************************)
(* A document is written out as text: operator<< for tables in toml.hpp,   *)
(* with its classes formatter and default_formatter.  The text is a        *)
(* sequence of bytes.  The level of indentation is a parameter, since      *)
(* every function restores it.                                             *)
(***************************************************************************)
EXTENDS TomlValues

CONSTANT line_wrap  \* default_formatter_line_wrap: 120 in the program

ASSUME FormatterAssumption == line_wrap \in Nat

default_flags == {"allow_literal_strings", "allow_multi_line_strings", "allow_value_format_flags"}

\* utf8_decoder over a string: the code point of the bytes, Eof if they are none,
\* and the code points of a string up to the first ill-formed one.
code_point(bytes) ==
    LET b == bytes[1]
        n == IF b < 192 THEN 1 ELSE IF b < 224 THEN 2 ELSE IF b < 240 THEN 3 ELSE 4
        lead == IF n = 1 THEN b ELSE b % (2^(7 - n))
        v == FoldLeft(LAMBDA acc, c : 64 * acc + (c % 64), lead, Tail(bytes))
    IN  IF Len(bytes) # n \/ is_unicode_surrogate(v) \/ v > MaxScalar THEN Eof
        ELSE IF Encode(v) = bytes THEN v ELSE Eof

Decode(bytes) ==
    LET leads == SelectSeq([i \in 1..Len(bytes) |-> i], LAMBDA i : i = 1 \/ bytes[i] \notin 128..191)
        end(k) == IF k = Len(leads) THEN Len(bytes) ELSE leads[k + 1] - 1
        points == [k \in 1..Len(leads) |-> code_point(SubSeq(bytes, leads[k], end(k)))]
        n == SkipWhile(points, 1, LAMBDA c : c # Eof)
    IN  IF n > Len(points) THEN points ELSE SubSeq(points, 1, n)

-----------------------------------------------------------------------------
(* Values                                                                  *)

\* std::to_chars of a natural number.
RECURSIVE to_chars(_, _)
to_chars(n, base) ==
    LET digit == IF n % base < 10 THEN Zero + (n % base) ELSE 55 + (n % base)
    IN  (IF n < base THEN <<>> ELSE to_chars(n \div base, base)) \o <<digit>>

zero_padded(n, width) ==
    LET digits == to_chars(n, 10)
    IN  IF Len(digits) < width THEN Repeat(Zero, width - Len(digits)) \o digits ELSE digits

\* The least number of int64_t has no positive counterpart, but to_chars takes it.
integer_chars(node, formats) ==
    LET n == node.val
        base == (2 :> "binary") @@ (8 :> "octal") @@ (16 :> "hexadecimal")
        prefix == ("binary" :> chr.b) @@ ("octal" :> chr.o) @@ ("hexadecimal" :> chr.x)
    IN  IF n < 0 THEN <<Minus>> \o to_chars(-n, 10)
        ELSE IF formats /\ node.by \in DOMAIN prefix
        THEN <<Zero, prefix[node.by]>> \o to_chars(n, CHOOSE b \in DOMAIN base : base[b] = node.by)
        ELSE to_chars(n, 10)

is_word(f) == ~is_decimal_digit(f[2][1])

\* print_floating_point_to_stream: the characters of f are those of std::to_chars.
float_chars(f) ==
    LET point == is_word(f) \/ \E i \in DOMAIN f[2] : f[2][i] \in {Dot, chr.e, chr.E}
    IN  (IF f[1] THEN <<Minus>> ELSE <<>>) \o f[2] \o (IF point THEN <<>> ELSE <<Dot, Zero>>)

boolean_chars(b) ==
    IF b THEN <<chr.t, chr.r, chr.u, chr.e>> ELSE <<chr.f, chr.a, chr.l, chr.s, chr.e>>

date_chars(d) ==
    zero_padded(d[1], 4) \o <<Minus>> \o zero_padded(d[2], 2) \o <<Minus>> \o zero_padded(d[3], 2)

\* Without the zeros at its end, of which each one takes a digit.
RECURSIVE fraction(_, _)
fraction(ns, digits) ==
    IF ns % 10 = 0 THEN fraction(ns \div 10, digits - 1) ELSE zero_padded(ns, digits)

time_chars(t) ==
    zero_padded(t[1], 2) \o <<Colon>> \o zero_padded(t[2], 2) \o <<Colon>> \o zero_padded(t[3], 2)
    \o IF t[4] = 0 THEN <<>> ELSE <<Dot>> \o fraction(t[4], max_digits)

offset_chars(minutes) ==
    LET mins == IF minutes < 0 THEN -minutes ELSE minutes
    IN  IF minutes = 0 THEN <<chr.Z>>
        ELSE <<IF minutes < 0 THEN Minus ELSE Plus>>
             \o zero_padded(mins \div 60, 2) \o <<Colon>> \o zero_padded(mins % 60, 2)

date_time_chars(dt) ==
    date_chars(dt[1]) \o <<chr.T>> \o time_chars(dt[2])
    \o IF dt[3] = NoOffset THEN <<>> ELSE offset_chars(dt[3])

-----------------------------------------------------------------------------
(* Strings and keys                                                        *)

low_character_escape(c) ==
    LET letter == (8 :> chr.b) @@ (Tab :> chr.t) @@ (LF :> chr.n) @@ (12 :> chr.f) @@ (CR :> chr.r)
        hex == to_chars(c, 16)
    IN  IF c \in DOMAIN letter THEN <<Backslash, letter[c]>>
        ELSE <<Backslash, chr.u>> \o Repeat(Zero, 4 - Len(hex)) \o hex

\* One byte inside quotation marks; backslashes are escaped in print_key_segment
\* and in strings, not in make_key_segment.
escaped(c, backslash) ==
    IF c \in 0..31 \/ c = 127 THEN low_character_escape(c)
    ELSE IF c = Quote \/ (backslash /\ c = Backslash) THEN <<Backslash, c>>
    ELSE <<c>>

in_quotes(str, backslash) ==
    <<Quote>> \o FoldLeft(LAMBDA acc, c : acc \o escaped(c, backslash), <<>>, str) \o <<Quote>>

\* The form of a string: on one line or several, literal or with escape sequences.
\* The scan stops when it has seen all there is to see, before a later ill-formed
\* byte as well.
form_of(points, flags_) ==
    LET line_breaks == \E c \in points : is_line_break(c)
        control_chars == \E c \in points : is_nontab_control_character(c) /\ ~is_line_break(c)
        single_quotes == Apostrophe \in points
        error == Eof \in points /\ ~(line_breaks /\ control_chars /\ single_quotes)
        multi_line == "allow_multi_line_strings" \in flags_ /\ line_breaks /\ ~error
    IN  [multi_line |-> multi_line,
         literal |-> /\ "allow_literal_strings" \in flags_ /\ ~error /\ ~control_chars
                     /\ multi_line \/ ~single_quotes]

string_form(str, flags_) == form_of(ToSet(Decode(str)), flags_)

in_form(str, form) ==
    LET quotes == IF form.literal THEN <<Apostrophe>> ELSE <<Quote>>
        fence == IF form.multi_line THEN quotes \o quotes \o quotes ELSE quotes
        quoted == in_quotes(str, TRUE)
    IN  fence \o (IF form.literal THEN str ELSE SubSeq(quoted, 2, Len(quoted) - 1)) \o fence

\* print_quoted_string.
string_chars(str, flags_) ==
    IF str = <<>> THEN Repeat(IF "allow_literal_strings" \in flags_ THEN Apostrophe ELSE Quote, 2)
    ELSE in_form(str, string_form(str, flags_))

\* print_key_segment, and make_key_segment without escaped backslashes.
key_chars(str, backslash) ==
    IF str = <<>> THEN <<Apostrophe, Apostrophe>>
    ELSE IF \A c \in ToSet(Decode(str)) : is_bare_key_character(c) THEN str
    ELSE in_quotes(str, backslash)

make_key_segment(str) == key_chars(str, FALSE)

\* The path of a header, as print_key_path joins it.
key_path_chars(key_path) ==
    FlattenSeq([k \in 1..Len(key_path) |-> IF k = 1 THEN key_path[k] ELSE <<Dot>> \o key_path[k]])

\* print_value.
value_chars(node, flags_) ==
    CASE node.type = "string" -> string_chars(node.val, flags_)
      [] node.type = "integer" -> integer_chars(node, "allow_value_format_flags" \in flags_)
      [] node.type = "float" -> float_chars(node.val)
      [] node.type = "boolean" -> boolean_chars(node.val)
      [] node.type = "date" -> date_chars(node.val)
      [] node.type = "time" -> time_chars(node.val)
      [] node.type = "date_time" -> date_time_chars(node.val)

-----------------------------------------------------------------------------
(* Arrays and inline tables.  doc has the nodes, the flags, and the result *)
(* of the conversions to size_t that have none: of a negative logarithm,   *)
(* or of one that overflows or is no number.                               *)

Less(k, l) ==
    \/ Len(k) < Len(l) /\ IsPrefix(k, l)
    \/ \E i \in 1..Min({Len(k), Len(l)}) : k[i] < l[i] /\ \A j \in 1..(i - 1) : k[j] = l[j]

\* The paths of the children of p, in the order of an array or of std::map.
children(nodes, p) ==
    LET keys == {q[Len(q)] : q \in {r \in DOMAIN nodes : Len(r) = Len(p) + 1 /\ IsPrefix(p, r)}}
    IN  IF nodes[p].type = "array" THEN [k \in 1..nodes[p].val |-> Append(p, Element(k))]
        ELSE [k \in 1..Cardinality(keys) |-> Append(p, SetToSortSeq(keys, Less)[k])]

integer_columns(n, undefined) ==
    IF n = -(2^(Width[10] - 1)) THEN undefined
    ELSE Len(integer_chars(Leaf("integer", n), FALSE))

\* Of the float numbers below one and in exponent form some have a logarithm that
\* fits; they are left to chance too.
float_columns(f, undefined) ==
    IF f[2] \in {<<Zero>>, <<Zero, Dot, Zero>>} THEN 3
    ELSE IF f[2][1] = Zero \/ is_word(f) \/ \E i \in DOMAIN f[2] : f[2][i] = chr.e THEN undefined
    ELSE 2 + (IF f[1] THEN 1 ELSE 0) + SkipWhile(f[2], 1, is_decimal_digit) - 1

RECURSIVE inline_columns(_, _)
inline_columns(doc, p) ==
    LET node == doc.nodes[p]
        key_length(q) == IF node.type = "table" THEN Len(q[Len(q)]) ELSE 0
        add(weight, q) ==
            IF weight >= line_wrap THEN weight ELSE weight + key_length(q) + inline_columns(doc, q) + 2
    IN  CASE node.type \in {"table", "array"} ->
               IF children(doc.nodes, p) = <<>> THEN 2 ELSE FoldLeft(add, 3, children(doc.nodes, p))
          [] node.type = "string" -> Len(node.val) + 2
          [] node.type = "integer" -> integer_columns(node.val, doc.undefined)
          [] node.type = "float" -> float_columns(node.val, doc.undefined)
          [] node.type = "boolean" -> 5
          [] node.type \in {"date", "time"} -> 10
          [] node.type = "date_time" -> 30

forces_multiline(doc, p, indent) ==
    inline_columns(doc, p) + 4 * (IF indent < 0 THEN 0 ELSE indent) > line_wrap

RECURSIVE node_chars(_, _, _)

pair_chars(doc, q, indent) ==
    key_chars(Last(q), TRUE) \o <<Space, Equals, Space>> \o node_chars(doc, q, indent)

line_start(indent) == <<LF>> \o Repeat(Space, 4 * (IF indent < 0 THEN 0 ELSE indent))

\* print(array): each element on a line of its own, or all on one.
array_chars(doc, p, indent) ==
    LET n == doc.nodes[p].val
        multiline == forces_multiline(doc, p, indent)
        inner == IF ~multiline THEN indent ELSE IF indent < 0 THEN 1 ELSE indent + 1
        before(k) == IF multiline THEN line_start(inner) ELSE <<Space>>
        after(k) == IF k < n THEN <<Comma>> ELSE IF multiline THEN line_start(indent) ELSE <<Space>>
        elements == [k \in 1..n |-> before(k) \o node_chars(doc, Append(p, Element(k)), inner) \o after(k)]
    IN  <<LBracket>> \o FlattenSeq(elements) \o <<RBracket>>

\* print_inline.
inline_chars(doc, p, indent) ==
    LET pairs == children(doc.nodes, p)
        after(k) == IF k < Len(pairs) THEN <<Comma, Space>> ELSE <<Space, RBrace>>
    IN  IF pairs = <<>> THEN <<LBrace, RBrace>>
        ELSE <<LBrace, Space>>
             \o FlattenSeq([k \in 1..Len(pairs) |-> pair_chars(doc, pairs[k], indent) \o after(k)])

node_chars(doc, p, indent) ==
    CASE doc.nodes[p].type = "table" -> inline_chars(doc, p, indent)
      [] doc.nodes[p].type = "array" -> array_chars(doc, p, indent)
      [] OTHER -> value_chars(doc.nodes[p], doc.flags)

-----------------------------------------------------------------------------
(* Sections.  out is the stream with the flag naked_newline, which is      *)
(* FALSE after a value.                                                    *)

print_text(out, bytes) == [text |-> out.text \o bytes, naked |-> FALSE]

print_newline(out, force) ==
    IF ~out.naked \/ force THEN [text |-> Append(out.text, LF), naked |-> TRUE] ELSE out

print_indent(out, indent) ==
    IF indent > 0 THEN print_text(out, Repeat(Space, 4 * indent)) ELSE out

\* table::is_inline: dotted keys create such tables as well.
is_inline(node) == node.by \in {"inline", "dotted"}

is_table_section(nodes, q) == nodes[q].type = "table" /\ ~is_inline(nodes[q])

is_non_inline_array_of_tables(nodes, q) ==
    /\ nodes[q].type = "array" /\ nodes[q].val > 0
    /\ \A e \in ToSet(children(nodes, q)) : nodes[e].type = "table"
    /\ ~is_inline(nodes[Append(q, Element(1))])

is_section(nodes, q) == is_table_section(nodes, q) \/ is_non_inline_array_of_tables(nodes, q)

\* Faulty variant: a table without values has no header, not even an empty one.
skip_self_empty(nodes, q) == \A c \in ToSet(children(nodes, q)) : is_section(nodes, c)

\* A table that has only tables needs no header.
skip_self(nodes, q) ==
    /\ children(nodes, q) # <<>>
    /\ \A c \in ToSet(children(nodes, q)) : is_section(nodes, c)

print_pair(doc, q, indent, out) ==
    print_text(print_indent(print_newline(out, FALSE), indent), pair_chars(doc, q, indent))

RECURSIVE print_table(_, _, _, _, _)

\* The part of print(table) for a table q in it.
print_section(doc, q, key_path, indent, out) ==
    LET spaced == IF out.naked THEN out ELSE print_newline(print_newline(out, FALSE), TRUE)
        header == print_text(print_indent(spaced, indent + 1),
                             <<LBracket>> \o key_path_chars(key_path) \o <<RBracket>>)
    IN  IF skip_self(doc.nodes, q) THEN print_table(doc, q, key_path, indent, out)
        ELSE print_table(doc, q, key_path, indent + 1, print_newline(header, FALSE))

\* The part of print(table) for an array of tables q in it.
print_sections(doc, q, key_path, indent, out) ==
    LET element(o, e) ==
            LET spaced == print_newline(print_newline(o, FALSE), TRUE)
                header == print_text(print_indent(spaced, indent + 1),
                                     <<LBracket, LBracket>> \o key_path_chars(key_path)
                                     \o <<RBracket, RBracket>>)
            IN  print_table(doc, e, key_path, indent + 1, print_newline(header, TRUE))
    IN  FoldLeft(element, out, children(doc.nodes, q))

\* First the values, then the tables, then the arrays of tables.
print_table(doc, p, key_path, indent, out) ==
    LET all == children(doc.nodes, p)
        path(q) == Append(key_path, make_key_segment(Last(q)))
        values == SelectSeq(all, LAMBDA q : ~is_section(doc.nodes, q))
        tables == SelectSeq(all, LAMBDA q : is_table_section(doc.nodes, q))
        arrays == SelectSeq(all, LAMBDA q : is_non_inline_array_of_tables(doc.nodes, q))
    IN  FoldLeft(LAMBDA o, q : print_sections(doc, q, path(q), indent, o),
                 FoldLeft(LAMBDA o, q : print_section(doc, q, path(q), indent, o),
                          FoldLeft(LAMBDA o, q : print_pair(doc, q, indent, o), out, values),
                          tables),
                 arrays)

\* operator<<, for the table that the parser returns.
print(doc) ==
    print_newline(print_table(doc, <<>>, <<>>, -1, [text |-> <<>>, naked |-> TRUE]), FALSE).text
=============================================================================
