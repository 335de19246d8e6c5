---------------------------- MODULE TomlStrings -----------------------------
(***************************************************************************)
(* White space, comments, strings and keys of the configuration file: the  *)
(* functions consume_* and parse_*string of the parser in toml.hpp.  The   *)
(* text s is a sequence of code points and the cursor i a place in it,     *)
(* which TomlReader shows to be what the buffered reader provides.  A      *)
(* function returns what it parsed and where the cursor is then; an error  *)
(* ends the parsing (set_error throws), and its wording is left out.       *)
(***************************************************************************)
EXTENDS TomlChars, SequencesExt

at(s, i) == IF i <= Len(s) THEN s[i] ELSE Eof

Ok(i, v) == [at |-> i, val |-> v]
Error == [at |-> 0, val |-> <<>>]
Succeeds(r) == r.at # 0

\* The parsing goes on from where r ends and with what it parsed, unless r failed.
Then(r, next(_, _)) == IF Succeeds(r) THEN next(r.at, r.val) ELSE Error

\* The first place from i on whose code point does not satisfy P.
SkipWhile(s, i, P(_)) ==
    LET stops == {j \in i..Len(s) : ~P(s[j])}
    IN  IF stops = {} THEN Len(s) + 1 ELSE Min(stops)

-----------------------------------------------------------------------------
(* White space and comments: the place after them, i where there is none,  *)
(* and 0 for an error                                                      *)

consume_leading_whitespace(s, i) == SkipWhile(s, i, is_whitespace)

\* A carriage return needs a line feed, but not at the end of the file.
consume_line_break(s, i) ==
    IF ~is_line_break(at(s, i)) THEN i
    ELSE IF at(s, i) # CR THEN i + 1
    ELSE IF at(s, i + 1) = Eof THEN i + 1
    ELSE IF at(s, i + 1) = LF THEN i + 2
    ELSE 0

consume_comment(s, i) ==
    LET plain(c) == ~(is_line_break(c) \/ is_nontab_control_character(c) \/ is_unicode_surrogate(c))
        j == SkipWhile(s, i + 1, plain)
    IN  IF at(s, i) # Hash THEN i
        ELSE IF at(s, j) = Eof THEN j
        ELSE IF is_line_break(at(s, j)) THEN consume_line_break(s, j)
        ELSE 0

\* The loops over the three of them, before a value of an array and before a
\* line of the document.
RECURSIVE consume_blank(_, _)
consume_blank(s, i) ==
    LET w == consume_leading_whitespace(s, i)
        l == consume_line_break(s, w)
        c == IF l = 0 THEN 0 ELSE consume_comment(s, l)
    IN  IF c \in {0, i} THEN c ELSE consume_blank(s, c)

\* What may follow a table header or a key-value pair on its line.
consume_rest(s, i) ==
    LET w == consume_leading_whitespace(s, i)
    IN  CASE at(s, w) = Eof -> w
          [] at(s, w) = Hash -> consume_comment(s, w)
          [] is_line_break(at(s, w)) -> consume_line_break(s, w)
          [] OTHER -> 0

-----------------------------------------------------------------------------
(* Strings; their value is a sequence of bytes                             *)

\* utf8_codepoint::as_view of a code point other than U+0000.
as_view(c) == Encode(c)

\* The escape codes of one letter.
regular_escape ==
    (chr.b :> 8) @@ (chr.f :> 12) @@ (chr.n :> LF) @@ (chr.r :> CR) @@ (chr.t :> Tab)
    @@ (Quote :> Quote) @@ (Backslash :> Backslash)

\* The bytes appended for \u and \U.  The second of three bytes takes only five
\* of its six bits.
encode_scalar(v) ==
    IF v <= 127 THEN <<v>>
    ELSE IF v <= 2047 THEN <<192 + ((v \div 64) % 32), 128 + (v % 64)>>
    ELSE IF v <= 65535 THEN <<224 + ((v \div 4096) % 16), 128 + ((v \div 64) % 32), 128 + (v % 64)>>
    ELSE <<240 + ((v \div 262144) % 8), 128 + ((v \div 4096) % 64), 128 + ((v \div 64) % 64), 128 + (v % 64)>>

\* \uXXXX and \UXXXXXXXX, with the cursor on the u: n hexadecimal digits.
unicode_escape(s, i) ==
    LET n == IF at(s, i) = chr.U THEN 8 ELSE 4
        digits == [k \in 1..n |-> at(s, i + k)]
        value == FoldLeft(LAMBDA acc, c : 16 * acc + hex_to_dec(c), 0, digits)
    IN  IF /\ \A k \in 1..n : is_hexadecimal_digit(digits[k])
           /\ value <= MaxScalar /\ ~is_unicode_surrogate(value)
        THEN Ok(i + n + 1, encode_scalar(value))
        ELSE Error

\* How many delimiters q stand at i; a multi-line string looks at five at most.
consecutive_delimiters(s, i, q) ==
    LET j == SkipWhile(s, i, LAMBDA c : c = q) IN IF j - i > 5 THEN 5 ELSE j - i

Repeat(c, n) == [k \in 1..n |-> c]

\* Faulty variant: white space skipped after a line-ending backslash is still
\* skipped after the first text that follows it.
append_text_sticky(str, c, skipping) ==
    IF skipping /\ is_whitespace(c) THEN [str |-> str, skipping |-> TRUE]
    ELSE [str |-> str \o as_view(c), skipping |-> skipping]

\* One code point of a basic string that stands for itself.
append_text(str, c, skipping) ==
    IF skipping /\ is_whitespace(c) THEN [str |-> str, skipping |-> TRUE]
    ELSE [str |-> str \o as_view(c), skipping |-> FALSE]

\* The loop of parse_basic_string, entered with the cursor at i, str parsed so
\* far, and white space being skipped after a line-ending backslash or not.
RECURSIVE basic_string(_, _, _, _, _)
basic_string(s, i, multi_line, skipping_whitespace, str) ==
    LET c == at(s, i)
        escaped == at(s, i + 1)
        n == consecutive_delimiters(s, i, Quote)
        line == consume_line_break(s, i)
        ending == consume_leading_whitespace(s, i + 1)
        after_ending == consume_line_break(s, ending)
        scalar == unicode_escape(s, i + 1)
        text == append_text(str, c, skipping_whitespace)
    IN  IF c = Eof THEN Error
        ELSE IF c = Quote THEN
            IF ~multi_line THEN Ok(i + 1, str)
            ELSE IF n <= 2 THEN basic_string(s, i + n, multi_line, FALSE, str \o Repeat(Quote, n))
            ELSE Ok(i + n, str \o Repeat(Quote, n - 3))
        ELSE IF c = Backslash THEN
            IF multi_line /\ (is_line_break(escaped) \/ is_whitespace(escaped)) THEN
                IF after_ending \in {0, ending} THEN Error
                ELSE basic_string(s, after_ending, multi_line, TRUE, str)
            ELSE IF escaped \in DOMAIN regular_escape THEN
                basic_string(s, i + 2, multi_line, FALSE, Append(str, regular_escape[escaped]))
            ELSE IF escaped \in {chr.u, chr.U} /\ Succeeds(scalar) THEN
                basic_string(s, scalar.at, multi_line, FALSE, str \o scalar.val)
            ELSE Error
        ELSE IF multi_line /\ is_line_break(c) THEN
            IF line = 0 THEN Error
            ELSE basic_string(s, line, multi_line, skipping_whitespace,
                              IF skipping_whitespace THEN str ELSE Append(str, LF))
        ELSE IF is_nontab_control_character(c) \/ is_unicode_surrogate(c) THEN Error
        ELSE basic_string(s, i + 1, multi_line, text.skipping, text.str)

RECURSIVE literal_string(_, _, _, _)
literal_string(s, i, multi_line, str) ==
    LET c == at(s, i)
        n == consecutive_delimiters(s, i, Apostrophe)
        line == consume_line_break(s, i)
    IN  IF c = Eof THEN Error
        ELSE IF c = Apostrophe THEN
            IF ~multi_line THEN Ok(i + 1, str)
            ELSE IF n <= 2 THEN literal_string(s, i + n, multi_line, str \o Repeat(Apostrophe, n))
            ELSE Ok(i + n, str \o Repeat(Apostrophe, n - 3))
        ELSE IF multi_line /\ is_line_break(c) THEN
            IF line = 0 THEN Error ELSE literal_string(s, line, multi_line, Append(str, LF))
        ELSE IF is_nontab_control_character(c) \/ is_unicode_surrogate(c) THEN Error
        ELSE literal_string(s, i + 1, multi_line, str \o as_view(c))

\* parse_basic_string and parse_literal_string, with the cursor on the (last)
\* opening delimiter: a multi-line string drops a line break right after it.
string_body(s, i, multi_line) ==
    LET j == IF multi_line THEN consume_line_break(s, i + 1) ELSE i + 1
    IN  IF j = 0 THEN Error
        ELSE IF at(s, i) = Quote THEN basic_string(s, j, multi_line, FALSE, <<>>)
        ELSE literal_string(s, j, multi_line, <<>>)

\* parse_string: three equal delimiters open a multi-line string.
parse_string(s, i) ==
    LET first == at(s, i)
        second == at(s, i + 1)
        third == at(s, i + 2)
        multi_line == first = second /\ first = third
    IN  IF second = Eof THEN Error
        ELSE IF third = Eof
        THEN IF second = first THEN Ok(i + 2, [value |-> <<>>, was_multi_line |-> FALSE]) ELSE Error
        ELSE Then(string_body(s, IF multi_line THEN i + 2 ELSE i, multi_line),
                  LAMBDA j, str : Ok(j, [value |-> str, was_multi_line |-> multi_line]))

-----------------------------------------------------------------------------
(* Keys                                                                    *)

parse_bare_key_segment(s, i) ==
    LET j == SkipWhile(s, i, is_bare_key_character)
    IN  Ok(j, FoldLeft(LAMBDA acc, c : acc \o as_view(c), <<>>, SubSeq(s, i, j - 1)))

\* One segment of a key: bare or quoted, not multi-line.
parse_key_segment(s, i) ==
    IF is_bare_key_character(at(s, i)) THEN parse_bare_key_segment(s, i)
    ELSE IF is_string_delimiter(at(s, i))
    THEN Then(parse_string(s, i), LAMBDA j, str : IF str.was_multi_line THEN Error ELSE Ok(j, str.value))
    ELSE Error

\* The segments of a dotted key after those in key, with white space around the dots.
RECURSIVE key_segments(_, _, _)
key_segments(s, i, key) ==
    LET more(j, segments) ==
            IF at(s, j) # Dot THEN Ok(j, segments)
            ELSE key_segments(s, consume_leading_whitespace(s, j + 1), segments)
    IN  Then(parse_key_segment(s, i),
             LAMBDA j, segment : more(consume_leading_whitespace(s, j), Append(key, segment)))

parse_key(s, i) == key_segments(s, i, <<>>)
=============================================================================
