------------------------------- MODULE MCToml -------------------------------
(* The parser and the formatter of toml.hpp, checked in one run.  Besides  *)
(* the kinds of TomlTexts there are                                        *)
(*   "lines":   documents that grow line by line and are written out and   *)
(*              read again (TomlDocument, FormatTexts);                    *)
(*   "scalar":  documents of one value, for every kind of value.           *)
(* What a kind does not use keeps its initial value.                       *)
EXTENDS TomlTexts, FormatTexts

\* Widths and buffers that relate as those of the program do, in each base: octal
\* and binary numbers that fill the buffer fit, decimal and hexadecimal ones may not.
MCWidth == (2 :> 4) @@ (8 :> 7) @@ (10 :> 10) @@ (16 :> 8)
MCBufferLength == (2 :> 3) @@ (8 :> 2) @@ (10 :> 3) @@ (16 :> 2)

-----------------------------------------------------------------------------
(* Texts                                                                   *)

\* Integers: 0 1 2 5 _ - + b o x; floats: 0 1 _ - + . e; documents: LF space
\* # , . 1 = [ ] a { }
MCAlphabet ==
    [integer |-> {48, 49, 50, 53, Underscore, Minus, Plus, chr.b, chr.o, chr.x},
     float |-> {48, 49, Underscore, Minus, Plus, Dot, chr.e},
     document |-> {10, 32, 35, 44, 46, 49, 61, 91, 93, 97, 123, 125}]
MCMaxLength == [integer |-> 5, float |-> 6]

\* The ends of every range and the values next to them.
MCFraction == {<<>>, <<48, 48, 49>>, [i \in 1..9 |-> 57], [i \in 1..10 |-> 48]}
MCOffset == {<<23, 59>>, <<24, 0>>, <<1, 60>>}

\*  [[a]]#
\*  a.e=[1,]
MCTables == <<91, 91, 97, 93, 93, 35, 10, 97, 46, 101, 61, 91, 49, 44, 93>>

\*  a={e=1,a.a={}}
MCInlines == <<97, 61, 123, 101, 61, 49, 44, 97, 46, 97, 61, 123, 125, 125>>

\*  a=[true,#
\*  {a=1}]
MCArrays == <<97, 61, 91, 116, 114, 117, 101, 44, 35, 10, 123, 97, 61, 49, 125, 93>>

MCSeed == {MCTables, MCInlines, MCArrays}

-----------------------------------------------------------------------------
(* Lines                                                                   *)

\* All flags for single lines, those of the default for longer documents.
MCFlags(n) ==
    CASE n = 1 -> SUBSET default_flags
      [] n \in {2, 3} -> {default_flags}
      [] OTHER -> {}

\* Keys a and a backslash; an inline table has the empty key too.
MCSegment == {<<97>>, <<92>>}

MCInline ==
    (<<>> :> Table("inline")) @@ (<< <<92>> >> :> Leaf("integer", 1)) @@ (<< <<>> >> :> Leaf("string", <<97, 10>>))
MCArray ==
    (<<>> :> Array("value", 2)) @@ Under(<<Element(1)>>, MCInline) @@ Under(<<Element(2)>>, Scalar("integer", -64))
MCNested ==
    (<<>> :> Array("value", 2)) @@ Under(<<Element(1)>>, MCArray) @@ Under(<<Element(2)>>, <<>> :> Array("value", 0))
MCDocumentValue == {MCInline, MCNested}

-----------------------------------------------------------------------------
(* Scalars                                                                 *)

\* All strings of three pieces: text, delimiters, white space, line breaks of one
\* and three bytes, control characters, a backslash, and what parse_string makes
\* of an escape sequence for U+0800.
MCPiece == {<<97>>, <<39>>, <<39, 39>>, <<34>>, <<92>>, <<9>>, <<10>>, <<13>>, <<11>>, <<0>>, <<127>>,
            <<226, 128, 168>>, <<224, 128, 128>>}
MCStrings == {Scalar("string", FlattenSeq(s)) : s \in UNION {[1..n -> MCPiece] : n \in 0..3}}

MCIntegers ==
    {Scalar("integer", n) : n \in -512..-500 \cup -128..128 \cup 500..511}
    \cup {<<>> :> [Leaf("integer", n) EXCEPT !.by = "binary"] : n \in 0..7}
    \cup {<<>> :> [Leaf("integer", n) EXCEPT !.by = "octal"] : n \in 0..63}
    \cup {<<>> :> [Leaf("integer", n) EXCEPT !.by = "hexadecimal"] : n \in 0..127}

\* 0, 1, 12.5, 0.001, 1e+20, 1.5e-07, inf and nan.
MCFloats ==
    {Scalar("float", <<neg, chars>>) : neg \in BOOLEAN, chars \in
        {<<48>>, <<49>>, <<49, 50, 46, 53>>, <<48, 46, 48, 48, 49>>, <<49, 101, 43, 50, 48>>,
         <<49, 46, 53, 101, 45, 48, 55>>, <<105, 110, 102>>}}
    \cup {Scalar("float", <<FALSE, <<110, 97, 110>>>>)}

MCDate == {<<0, 1, 1>>, <<987, 12, 31>>, <<2024, 2, 29>>}
MCTime == {<<h, 5, s, ns>> : h \in {0, 23}, s \in {0, 59}, ns \in {0, 1, 120, 500000000, 999999999}}
MCShortTime == {t \in MCTime : t[4] \in {0, 500000000}}
MCMinutes == {NoOffset, 0, 1, -1, 60, -90, 1439}
MCDates ==
    {Scalar("date", d) : d \in MCDate} \cup {Scalar("time", t) : t \in MCTime}
    \cup {Scalar("date_time", <<d, t, NoOffset>>) : d \in MCDate, t \in MCTime}
    \cup {Scalar("date_time", <<d, t, o>>) : d \in MCDate, t \in MCShortTime, o \in MCMinutes}

MCScalar ==
    MCStrings \cup MCIntegers \cup MCFloats \cup MCDates \cup {Scalar("boolean", TRUE), Scalar("boolean", FALSE)}

-----------------------------------------------------------------------------
(* The union                                                               *)

NoText == text = <<>> /\ edits = 0 /\ type = "" /\ value = <<>> /\ valid = TRUE

TomlInit ==
    \/ TextInit /\ Init
    \/ kind = "lines" /\ NoText /\ Init
    \/ /\ kind = "scalar" /\ NoText
       /\ \E v \in MCScalar :
             /\ nodes = insert(EmptyDocument, <<>>, << <<97>> >>, v).nodes
             /\ lines = << [kind |-> "pair", node |-> << <<97>> >>, value |-> v, section |-> <<>>] >>
       /\ current_table = <<>> /\ error = FALSE

TomlNext ==
    \/ TextNext /\ UNCHANGED vars
    \/ kind = "lines" /\ Next /\ UNCHANGED textVars

TomlSpec == TomlInit /\ [][TomlNext]_<<textVars, vars>>
=============================================================================
