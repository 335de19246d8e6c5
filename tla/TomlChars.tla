----------------------------- MODULE TomlChars ------------------------------
(***************************************************************************)
(* Code points and the classes toml.hpp sorts them into.  A code point is  *)
(* a number, as char32_t is; Eof stands for the nullptr that the readers   *)
(* return at the end of the file and is in no class.                       *)
(***************************************************************************)
EXTENDS Integers, Sequences

Eof == -1
Tab == 9
LF == 10
CR == 13
Space == 32
Quote == 34
Hash == 35
Apostrophe == 39
Plus == 43
Comma == 44
Minus == 45
Dot == 46
Zero == 48
Colon == 58
Equals == 61
LBracket == 91
Backslash == 92
RBracket == 93
Underscore == 95
LBrace == 123
RBrace == 125

\* The letters, by name.
chr == [a |-> 97, b |-> 98, e |-> 101, f |-> 102, i |-> 105, l |-> 108, n |-> 110, o |-> 111,
        p |-> 112, r |-> 114, s |-> 115, t |-> 116, u |-> 117, x |-> 120, z |-> 122,
        E |-> 69, F |-> 70, I |-> 73, N |-> 78, T |-> 84, U |-> 85, Z |-> 90]

is_ascii_whitespace(c) == c \in {Tab, Space}

is_non_ascii_whitespace(c) ==
    c \in {160, 5760, 8239, 8287, 12288} \/ c \in 8192..8202

is_whitespace(c) == is_ascii_whitespace(c) \/ is_non_ascii_whitespace(c)

is_ascii_line_break(c) == c \in LF..CR

is_non_ascii_line_break(c) == c \in {133, 8232, 8233}

is_line_break(c) == is_ascii_line_break(c) \/ is_non_ascii_line_break(c)

\* is_line_break<false>, with which the reader counts lines.
starts_line(c) == is_line_break(c) /\ c # CR

is_string_delimiter(c) == c \in {Quote, Apostrophe}

is_ascii_letter(c) == c \in 97..122 \/ c \in 65..90

is_decimal_digit(c) == c \in 48..57

is_hexadecimal_digit(c) == is_decimal_digit(c) \/ c \in 65..70 \/ c \in 97..102

\* is_digit of parse_integer_traits<base>.
is_digit(base, c) ==
    CASE base = 2 -> c \in 48..49
      [] base = 8 -> c \in 48..55
      [] base = 10 -> is_decimal_digit(c)
      [] base = 16 -> is_hexadecimal_digit(c)

hex_to_dec(c) ==
    CASE c \in 65..70 -> c - 55
      [] c \in 97..102 -> c - 87
      [] OTHER -> c - 48

\* c | 32 for an ASCII letter.
to_lower(c) == IF c \in 65..90 THEN c + 32 ELSE c

is_bare_key_character(c) == is_ascii_letter(c) \/ is_decimal_digit(c) \/ c \in {Minus, Underscore}

is_value_terminator(c) ==
    is_line_break(c) \/ is_whitespace(c) \/ c \in {RBracket, RBrace, Comma, Hash}

is_control_character(c) == c \in 0..31 \/ c = 127

is_nontab_control_character(c) == is_control_character(c) /\ c # Tab

is_unicode_surrogate(c) == c \in 55296..57343

-----------------------------------------------------------------------------
(* Reference: the UTF-8 encoding of the Unicode scalar values              *)

MaxScalar == 1114111

Encode(v) ==
    IF v < 128 THEN <<v>>
    ELSE IF v < 2048 THEN <<192 + (v \div 64), 128 + (v % 64)>>
    ELSE IF v < 65536 THEN <<224 + (v \div 4096), 128 + ((v \div 64) % 64), 128 + (v % 64)>>
    ELSE <<240 + (v \div 262144), 128 + ((v \div 4096) % 64), 128 + ((v \div 64) % 64), 128 + (v % 64)>>
=============================================================================
