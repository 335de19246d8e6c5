---------------------------- MODULE TomlDocument ----------------------------
(***************************************************************************)
(* The document grows line by line (parse_document of toml.hpp).  A line   *)
(* is a table header or a key-value pair, already read; TomlValues has the *)
(* text.                                                                   *)
(***************************************************************************)
EXTENDS TomlTree

CONSTANTS
    Segment,   \* segments of keys
    MaxDepth,  \* segments in a key
    Value,     \* values of pairs, in the form of TomlTree
    MaxLines   \* lines of a document

VARIABLES
    nodes,          \* parser::root
    current_table,  \* the table that pairs go into
    error,          \* the document was refused
    lines           \* ghost: the lines so far, with the path that each one names

vars == <<nodes, current_table, error, lines>>

Key == UNION {[1..n -> Segment] : n \in 1..MaxDepth}

-----------------------------------------------------------------------------
(* Reference: what a line names, from the lines before it.  An array of    *)
(* tables has an element for each of its headers, and a path through it    *)
(* means the last one.                                                     *)

Headers(array) == {i \in 1..Len(lines) : lines[i].kind = "array" /\ lines[i].node = array}

IntoArray(path) ==
    IF Headers(path) = {} THEN path ELSE Append(path, Element(Cardinality(Headers(path))))

Through(path, segment) == IntoArray(Append(path, segment))

\* The path of key, seen from the root; its last segment is not followed.
Named(key) == Append(FoldLeft(Through, <<>>, Front(key)), Last(key))

\* The table that the last header opened.
Section ==
    LET headers == {i \in 1..Len(lines) : lines[i].kind # "pair"}
    IN  IF headers = {} THEN <<>> ELSE IntoArray(lines[Max(headers)].node)

-----------------------------------------------------------------------------

Init ==
    /\ nodes = EmptyDocument /\ current_table = <<>>
    /\ error = FALSE /\ lines = <<>>

ReadLine(kind, node, value, section, result) ==
    /\ ~error /\ Len(lines) < MaxLines
    /\ error' = ~result.ok
    /\ nodes' = IF result.ok THEN result.nodes ELSE nodes
    /\ current_table' = IF result.ok THEN result.tab ELSE current_table
    /\ lines' = Append(lines, [kind |-> kind, node |-> node, value |-> value, section |-> section])

\* [key], or [[key]] for is_arr.
parse_table_header(key, is_arr) ==
    ReadLine(IF is_arr THEN "array" ELSE "table", Named(key), EmptyDocument, <<>>,
          define_table(nodes, key, is_arr))

\* key = value.
parse_key_value_pair_and_insert(key, value) ==
    ReadLine("pair", Section \o key, value, Section, insert(nodes, current_table, key, value))

Next ==
    \E key \in Key :
       \/ \E is_arr \in BOOLEAN : parse_table_header(key, is_arr)
       \/ \E value \in Value : parse_key_value_pair_and_insert(key, value)

Spec == Init /\ [][Next]_vars

-----------------------------------------------------------------------------
(* Properties                                                              *)

Line == 1..Len(lines)
Pairs == {i \in Line : lines[i].kind = "pair"}

\* The paths a line puts into the document, with the tables on the way.
PathsOf(line) ==
    CASE line.kind = "table" -> Prefixes(line.node)
      [] line.kind = "array" ->
           Prefixes(line.node) \cup {Append(line.node, Element(k)) : k \in 1..Cardinality(Headers(line.node))}
      [] line.kind = "pair" -> Prefixes(line.node) \cup {line.node \o p : p \in DOMAIN line.value}

\* A line meets an earlier one: that names the same path, a part of it or a
\* continuation of it.
Conflict ==
    LET last == lines[Len(lines)].node
    IN  \E i \in 1..(Len(lines) - 1) :
            lines[i].node \in Prefixes(last) \/ last \in Prefixes(lines[i].node)

\* The document is what its lines say: it has a node for each path that a line
\* names, and no other, and the value of each pair is found at its path, in the
\* element of the array of tables that was the last one when the pair was read.
\* A line is refused only because of an earlier one that it meets.
DocumentMeansLines ==
    IF error THEN Conflict
    ELSE /\ DOMAIN nodes = {<<>>} \cup UNION {PathsOf(lines[i]) : i \in Line}
         /\ \A i \in Pairs : \A p \in DOMAIN lines[i].value :
               nodes[lines[i].node \o p] = lines[i].value[p]
         /\ \A i \in Line \ Pairs : nodes[lines[i].node].type = lines[i].kind

\* Nothing is defined twice: no two lines of an accepted document give the same
\* path a value or name the same table in a header, and two pairs of different
\* sections never put keys into the same table, however the keys are dotted.
DefinedOnce ==
    ~error =>
        /\ \A i, j \in Line : i # j /\ lines[i].node = lines[j].node =>
              lines[i].kind = "array" /\ lines[j].kind = "array"
        /\ \A i, j \in Pairs :
              Front(lines[i].node) = Front(lines[j].node) => lines[i].section = lines[j].section
=============================================================================
