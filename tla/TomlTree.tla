------------------------------ MODULE TomlTree ------------------------------
(***************************************************************************)
(* The document that the parser of toml.hpp builds, and the two operations *)
(* on it: a table header and the insertion of a key-value pair.            *)
(*                                                                         *)
(* A node is found by its path from the root (or from the value it is part *)
(* of): the keys to follow and, in arrays, the places of elements.  "by"   *)
(* says how it came about; it stands for the vectors implicit_tables,      *)
(* dotted_key_tables and table_arrays of the parser, which hold pointers   *)
(* to the nodes created in those ways.                                     *)
(***************************************************************************)
EXTENDS Integers, Sequences, SequencesExt

Table(by) == [type |-> "table", by |-> by, val |-> 0]
Array(by, n) == [type |-> "array", by |-> by, val |-> n]
Leaf(type, v) == [type |-> type, by |-> "value", val |-> v]

\* The last element of a path that leads into an array.  Keys are sequences of
\* bytes, so that no key is an Element.
Element(k) == <<-k>>

EmptyDocument == <<>> :> Table("root")

\* The nodes of a value, placed below path.
Under(path, value) ==
    [p \in {path \o q : q \in DOMAIN value} |-> value[SubSeq(p, Len(path) + 1, Len(p))]]

Refused == [ok |-> FALSE, nodes |-> <<>>, tab |-> <<>>]
Granted(nodes, tab) == [ok |-> TRUE, nodes |-> nodes, tab |-> tab]

-----------------------------------------------------------------------------
(* parse_table_header, once the header has been read                       *)

\* Faulty variant: the first element of an array of tables is selected.
parent_of_header_first(acc, segment) ==
    LET child == Append(acc.tab, segment)
    IN  IF ~acc.ok THEN acc
        ELSE IF child \notin DOMAIN acc.nodes
        THEN Granted(acc.nodes @@ (child :> Table("implicit")), child)
        ELSE IF acc.nodes[child].type = "table" THEN Granted(acc.nodes, child)
        ELSE IF acc.nodes[child].by = "tables" THEN Granted(acc.nodes, Append(child, Element(1)))
        ELSE Refused

\* Each parent is a table, or an array of tables whose last element is meant, or
\* is created implicitly.
parent_of_header(acc, segment) ==
    LET child == Append(acc.tab, segment)
    IN  IF ~acc.ok THEN acc
        ELSE IF child \notin DOMAIN acc.nodes
        THEN Granted(acc.nodes @@ (child :> Table("implicit")), child)
        ELSE IF acc.nodes[child].type = "table" THEN Granted(acc.nodes, child)
        ELSE IF acc.nodes[child].by = "tables"
        THEN Granted(acc.nodes, Append(child, Element(acc.nodes[child].val)))
        ELSE Refused

\* A table that exists is defined by a header only if it was created implicitly.
may_define(node) == node.type = "table" /\ node.by = "implicit"

\* The tables after [key], or after [[key]] for is_arr, and the table that the
\* lines after the header fill.
define_table(nodes, key, is_arr) ==
    LET parents == FoldLeft(parent_of_header, Granted(nodes, <<>>), Front(key))
        node == Append(parents.tab, Last(key))
        exists == node \in DOMAIN parents.nodes
        n == IF exists THEN parents.nodes[node].val + 1 ELSE 1
        element == Append(node, Element(n))
    IN  IF ~parents.ok THEN Refused
        ELSE IF is_arr /\ (exists => parents.nodes[node].by = "tables")
        THEN Granted((node :> Array("tables", n)) @@ (element :> Table("element")) @@ parents.nodes,
                     element)
        ELSE IF ~is_arr /\ (exists => may_define(parents.nodes[node]))
        THEN Granted((node :> Table("header")) @@ parents.nodes, node)
        ELSE Refused

-----------------------------------------------------------------------------
(* parse_key_value_pair_and_insert, once the pair has been read            *)

\* Faulty variant: a dotted key may reach into any table.
parent_of_key_any(acc, segment) ==
    LET child == Append(acc.tab, segment)
    IN  IF ~acc.ok THEN acc
        ELSE IF child \notin DOMAIN acc.nodes
        THEN Granted(acc.nodes @@ (child :> Table("dotted")), child)
        ELSE IF acc.nodes[child].type = "table" THEN Granted(acc.nodes, child)
        ELSE Refused

\* A dotted key reaches only into tables that dotted keys created.
parent_of_key(acc, segment) ==
    LET child == Append(acc.tab, segment)
    IN  IF ~acc.ok THEN acc
        ELSE IF child \notin DOMAIN acc.nodes
        THEN Granted(acc.nodes @@ (child :> Table("dotted")), child)
        ELSE IF acc.nodes[child].by = "dotted" THEN Granted(acc.nodes, child)
        ELSE Refused

\* key = value in the table tab; a key that exists is an error.
insert(nodes, tab, key, value) ==
    LET parents == FoldLeft(parent_of_key, Granted(nodes, tab), Front(key))
        node == Append(parents.tab, Last(key))
    IN  IF ~parents.ok \/ node \in DOMAIN parents.nodes THEN Refused
        ELSE Granted(Under(node, value) @@ parents.nodes, tab)
=============================================================================
