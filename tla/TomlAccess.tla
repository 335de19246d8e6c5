----------------------------- MODULE TomlAccess -----------------------------
(***************************************************************************)
(* How config.cpp reads the document: the lookup in tables, and node::value *)
(* with its conversions.  An optional is a sequence of at most one value.  *)
(***************************************************************************)
EXTENDS TomlTree

CONSTANTS
    KeyOrder,  \* the keys in the order of std::map, a sequence without repetitions
    MaxPort    \* largest value of uint16_t: 65535 in the program

None == <<>>
Some(v) == <<v>>
Has(optional) == optional # None

\* The keys of a table, as its iterator visits them.
keys(doc, tab) == SelectSeq(KeyOrder, LAMBDA k : Append(tab, k) \in DOMAIN doc)

contains(doc, tab, key) == Append(tab, key) \in DOMAIN doc

\* The type of the node that operator[] finds.
type(doc, tab, key) == IF contains(doc, tab, key) THEN doc[Append(tab, key)].type ELSE "none"

\* The table that as_table() finds, as its path.
as_table(doc, tab, key) ==
    IF type(doc, tab, key) = "table" THEN Some(Append(tab, key)) ELSE None

\* value<string>: strings are not converted.
value_string(doc, tab, key) ==
    IF type(doc, tab, key) = "string" THEN Some(doc[Append(tab, key)].val) ELSE None

\* value_or("").
value_or_empty(doc, tab, key) ==
    IF Has(value_string(doc, tab, key)) THEN value_string(doc, tab, key)[1] ELSE <<>>

\* Faulty variant: the number is cast without a look at its range.
node_integer_cast_wrapping(n) == Some(n % (MaxPort + 1))

node_integer_cast(n) == IF n < 0 \/ n > MaxPort THEN None ELSE Some(n)

\* value<uint16_t>: integers in range, floating-point numbers that are whole, and
\* booleans.  A floating-point number is given by the number of its halves.
value_uint16(doc, tab, key) ==
    LET v == doc[Append(tab, key)].val
    IN  CASE type(doc, tab, key) = "integer" -> node_integer_cast(v)
          [] type(doc, tab, key) = "float" -> IF v % 2 = 0 THEN node_integer_cast(v \div 2) ELSE None
          [] type(doc, tab, key) = "boolean" -> Some(IF v THEN 1 ELSE 0)
          [] OTHER -> None
=============================================================================
