---------------------------- MODULE StringTexts -----------------------------
(***************************************************************************)
(* All strings of a few units, written in each of the four forms of TOML,  *)
(* and what parse_string of toml.hpp makes of them.  A unit is a piece of  *)
(* text with the bytes it stands for, so that the value of a string is     *)
(* known from how it was written.                                          *)
(***************************************************************************)
EXTENDS TomlStrings

CONSTANTS
    Unit,     \* [kind, text, bytes]
    MaxUnits  \* units in a string

VARIABLES delimiter, multi_line, units

vars == <<delimiter, multi_line, units>>

Init == delimiter \in {Quote, Apostrophe} /\ multi_line \in BOOLEAN /\ units = <<>>

Write(u) ==
    /\ Len(units) < MaxUnits
    /\ units' = Append(units, u)
    /\ UNCHANGED <<delimiter, multi_line>>

Next == \E u \in Unit : Write(u)

Spec == Init /\ [][Next]_vars

-----------------------------------------------------------------------------
(* Reference: the value of a string                                        *)

\* A unit "delimiter" is one delimiter of the string itself.
TextOf(u) == IF u.kind = "delimiter" THEN <<delimiter>> ELSE u.text

Text == FoldLeft(LAMBDA acc, u : acc \o TextOf(u), <<>>, units)

Fence == Repeat(delimiter, IF multi_line THEN 3 ELSE 1)

\* The bytes of a unit where backslashes are text.
Raw(u) == FoldLeft(LAMBDA acc, c : acc \o Encode(c), <<>>, u.text)

\* An escape sequence for a code point of three bytes, with bit 11 set.
HasBit11(u) == u.kind = "escape" /\ Len(u.bytes) = 3 /\ u.bytes[2] >= 160

\* The bytes that a unit stands for, with bit 11 of such a code point cleared.
Meant(u) == IF HasBit11(u) THEN [u.bytes EXCEPT ![2] = @ - 32] ELSE u.bytes

\* The value of the units from the left: a line-ending backslash swallows the
\* white space and the line breaks that follow it.
Value ==
    LET step(acc, u) ==
          CASE u.kind \in {"space", "newline"} /\ acc.skip -> acc
            [] u.kind = "newline" -> [acc EXCEPT !.bytes = Append(@, LF)]
            [] u.kind = "trim" /\ delimiter = Quote -> [acc EXCEPT !.skip = TRUE]
            [] u.kind = "trim" /\ delimiter = Apostrophe ->
                 [acc EXCEPT !.bytes = @ \o <<Backslash, Space, LF>>]
            [] u.kind = "delimiter" -> [skip |-> FALSE, bytes |-> Append(acc.bytes, delimiter)]
            [] u.kind = "escape" /\ delimiter = Apostrophe ->
                 [acc EXCEPT !.bytes = @ \o Raw(u)]
            [] OTHER -> [skip |-> FALSE, bytes |-> acc.bytes \o Meant(u)]
        body == IF multi_line /\ units # <<>> /\ units[1].kind = "newline" THEN Tail(units) ELSE units
    IN  FoldLeft(step, [skip |-> FALSE, bytes |-> <<>>], body).bytes

\* Units that the form of the string does not allow.
Misplaced(u) ==
    \/ u.kind = "control"
    \/ u.kind = "unknown" /\ delimiter = Quote
    \/ u.kind \in {"newline", "trim"} /\ ~multi_line

\* The string ends before its last unit.
Closes ==
    LET n == IF multi_line THEN 3 ELSE 1
    IN  \E i \in 1..(Len(units) - n + 1) :
            \A j \in i..(i + n - 1) : units[j].kind = "delimiter"

-----------------------------------------------------------------------------
(* Properties                                                              *)

\* Every string that is written correctly, whatever follows it, is parsed to the
\* bytes it stands for and leaves the cursor behind its closing delimiter, with
\* one exception: in an escape sequence for a code point of three bytes the mask
\* of parse_basic_string drops bit 11, so that \u4e2d becomes U+462D; nothing
\* else of the string is touched by that.
\* Delimiters inside, or up to two right before the closing ones, escape
\* sequences and line-ending backslashes do not disturb each other.  A string
\* that the end of the file cuts short, or that holds a control character, an
\* unknown escape sequence or, on one line, a line break, is an error and never a
\* shorter string.
StringsExact ==
    ~Closes =>
        LET string == Fence \o Text \o Fence
            parsed == Ok(Len(string) + 1, [value |-> Value, was_multi_line |-> multi_line])
        IN  /\ parse_string(Fence \o Text, 1) = Error
            /\ IF \E i \in 1..Len(units) : Misplaced(units[i])
               THEN parse_string(string, 1) = Error
               ELSE \A tail \in {<<>>, <<LF>>, <<Comma, delimiter>>} : parse_string(string \o tail, 1) = parsed
=============================================================================
