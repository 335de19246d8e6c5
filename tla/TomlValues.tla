----------------------------- MODULE TomlValues -----------------------------
(***************************************************************************)
(* The values of the configuration file: the functions parse_value,        *)
(* parse_boolean, parse_float, parse_integer, parse_date, parse_array, ... *)
(* of the parser in toml.hpp.                                              *)
(*                                                                         *)
(* The text of a value is shorter than max_history_length: TomlReader      *)
(* shows what happens to longer ones.  The width of integers and the sizes *)
(* of buffers are constants so that small instances reach their limits.    *)
(***************************************************************************)
EXTENDS TomlStrings, TomlTree

CONSTANTS
    Width,              \* [base -> Nat], bits of int64_t: 64 for every base in the program
    buffer_length,      \* [base -> Nat] of parse_integer: 63, 21, 19 and 16 in the program
    float_buffer,       \* size of chars in parse_float: 64 in the program
    max_history_length  \* 72 in the program

\* The number that fills the buffer of parse_integer fits into uint64_t.
ASSUME ValuesAssumption ==
    /\ \A base \in {2, 8, 10, 16} : base^buffer_length[base] <= 2^Width[base]
    /\ float_buffer \in Nat /\ max_history_length \in Nat

Scalar(type, v) == <<>> :> Leaf(type, v)

ends_value(c) == c = Eof \/ is_value_terminator(c)

\* The literal word w stands at i and the value ends after it.
expected_sequence(s, i, w) ==
    /\ \A k \in 1..Len(w) : at(s, i + k - 1) = w[k]
    /\ ends_value(at(s, i + Len(w)))

parse_boolean(s, i) ==
    LET result == at(s, i) \in {chr.t, chr.T}
        word == IF result THEN <<chr.t, chr.r, chr.u, chr.e>>
                ELSE <<chr.f, chr.a, chr.l, chr.s, chr.e>>
    IN  IF expected_sequence(s, i, word) THEN Ok(i + Len(word), Scalar("boolean", result)) ELSE Error

parse_inf_or_nan(s, i) ==
    LET j == IF at(s, i) \in {Plus, Minus} THEN i + 1 ELSE i
        inf == at(s, j) \in {chr.i, chr.I}
        word == IF inf THEN <<chr.i, chr.n, chr.f>> ELSE <<chr.n, chr.a, chr.n>>
    IN  IF expected_sequence(s, j, word)
        THEN Ok(j + 3, Scalar("float", <<inf /\ at(s, i) = Minus, word>>))
        ELSE Error

-----------------------------------------------------------------------------
(* Numbers                                                                 *)

\* The number that a sequence of digits stands for.
NumberOf(base, digits) == FoldLeft(LAMBDA acc, c : base * acc + hex_to_dec(c), 0, digits)

\* An underscore stands between two digits.
underscore_ok(s, k, base) == is_digit(base, at(s, k - 1)) /\ is_digit(base, at(s, k + 1))

\* Faulty variant: the range check has no exception for the least number.
in_range_symmetric(result, sign, width) == result <= 2^(width - 1) - 1

in_range(result, sign, width) ==
    result <= 2^(width - 1) - 1 + (IF sign < 0 THEN 1 ELSE 0)

\* parse_integer<base>.  The digits of a binary, octal or hexadecimal number may
\* be missing: such a number is zero.  A single digit is returned without its
\* sign (parse_value does not call it for one).  For the least number the product
\* static_cast<int64_t>(result) * sign overflows and yields that number.
parse_integer(s, i, base) ==
    LET signed == base = 10 /\ at(s, i) \in {Plus, Minus}
        sign == IF signed /\ at(s, i) = Minus THEN -1 ELSE 1
        prefix == (2 :> chr.b) @@ (8 :> chr.o) @@ (16 :> chr.x)
        start == IF base = 10 THEN IF signed THEN i + 1 ELSE i ELSE i + 2
        end == SkipWhile(s, start, LAMBDA c : ~is_value_terminator(c))
        body == SubSeq(s, start, end - 1)
        digits == SelectSeq(body, LAMBDA c : c # Underscore)
        result == NumberOf(base, digits)
    IN  IF /\ IF base = 10 THEN is_digit(10, at(s, start))
              ELSE at(s, i) = Zero /\ at(s, i + 1) = prefix[base] /\ at(s, start) # Eof
           /\ \A k \in start..(end - 1) :
                 IF s[k] = Underscore THEN k > start /\ underscore_ok(s, k, base) ELSE is_digit(base, s[k])
           /\ Len(digits) <= buffer_length[base]
           /\ base = 10 => digits[1] # Zero
           /\ Len(digits) > 1 => in_range(result, sign, Width[base])
        THEN Ok(end, Scalar("integer", IF Len(digits) = 1 THEN result ELSE sign * result))
        ELSE Error

\* One code point c of a number, in the loop of parse_float: acc has the previous
\* code point, what has been seen and the characters kept for the conversion.
float_char(acc, c) ==
    LET digit == is_decimal_digit(c)
        after_digit == is_decimal_digit(acc.prev)
        kept == [acc EXCEPT !.prev = c, !.chars = Append(@, c)]
    IN  IF ~acc.ok THEN acc
        ELSE IF c = Underscore
        THEN [acc EXCEPT !.prev = c, !.ok = after_digit]
        ELSE IF acc.prev = Underscore /\ ~digit THEN [acc EXCEPT !.ok = FALSE]
        ELSE IF c = Dot
        THEN [kept EXCEPT !.ok = acc.first # Eof /\ ~acc.exponent /\ ~acc.decimal, !.decimal = TRUE]
        ELSE IF c \in {chr.e, chr.E}
        THEN [kept EXCEPT !.ok = (acc.prev = Eof \/ after_digit) /\ ~acc.exponent,
                          !.decimal = TRUE, !.exponent = TRUE]
        ELSE IF c \in {Plus, Minus}
        THEN [kept EXCEPT !.ok = acc.exponent /\ acc.prev \in {chr.e, chr.E}]
        ELSE IF Len(acc.chars) = float_buffer \/ ~digit THEN [acc EXCEPT !.ok = FALSE]
        ELSE IF acc.decimal THEN kept
        ELSE [kept EXCEPT !.first = IF @ = Eof THEN c ELSE @, !.ok = acc.first # Zero]

\* parse_float.  The value is the sign and the characters given to from_chars,
\* which takes those that begin with a digit; that it refuses numbers out of the
\* range of double is left out.
parse_float(s, i) ==
    LET start == IF at(s, i) \in {Plus, Minus} THEN i + 1 ELSE i
        end == SkipWhile(s, start, LAMBDA c : ~is_value_terminator(c))
        f == FoldLeft(float_char,
                      [ok |-> TRUE, prev |-> Eof, first |-> Eof, decimal |-> FALSE,
                       exponent |-> FALSE, chars |-> <<>>],
                      SubSeq(s, start, end - 1))
    IN  IF f.ok /\ is_decimal_digit(f.prev) /\ is_decimal_digit(f.chars[1])
        THEN Ok(end, Scalar("float", <<at(s, i) = Minus, f.chars>>))
        ELSE Error

-----------------------------------------------------------------------------
(* Dates and times                                                         *)

\* n decimal digits stand at i (consume_digit_sequence), and their number.
are_digits(s, i, n) == \A k \in i..(i + n - 1) : is_decimal_digit(at(s, k))
number_at(s, i, n) == NumberOf(10, SubSeq(s, i, i + n - 1))

days_in_month(year, month) ==
    CASE month = 2 -> IF year % 4 = 0 /\ (year % 100 # 0 \/ year % 400 = 0) THEN 29 ELSE 28
      [] month \in {4, 6, 9, 11} -> 30
      [] OTHER -> 31

\* parse_date: YYYY-MM-DD.
parse_date(s, i, part_of_datetime) ==
    LET year == number_at(s, i, 4)
        month == number_at(s, i + 5, 2)
        day == number_at(s, i + 8, 2)
    IN  IF /\ are_digits(s, i, 4) /\ at(s, i + 4) = Minus
           /\ are_digits(s, i + 5, 2) /\ month \in 1..12 /\ at(s, i + 7) = Minus
           /\ are_digits(s, i + 8, 2) /\ day \in 1..days_in_month(year, month)
           /\ part_of_datetime \/ ends_value(at(s, i + 10))
        THEN Ok(i + 10, <<year, month, day>>)
        ELSE Error

\* HH:MM, in a time and in the offset of a date-time.
is_hour_minute(s, i) ==
    /\ are_digits(s, i, 2) /\ number_at(s, i, 2) <= 23 /\ at(s, i + 2) = Colon
    /\ are_digits(s, i + 3, 2) /\ number_at(s, i + 3, 2) <= 59

max_digits == 9

\* parse_time: HH:MM:SS and a fraction of up to nine digits.
parse_time(s, i, part_of_datetime) ==
    LET early(c) == ends_value(c) \/ (part_of_datetime /\ c \in {Plus, Minus, chr.Z})
        time(ns) == <<number_at(s, i, 2), number_at(s, i + 3, 2), number_at(s, i + 6, 2), ns>>
        j == SkipWhile(s, i + 9, is_decimal_digit)
        n == j - (i + 9)
    IN  IF ~(/\ is_hour_minute(s, i) /\ at(s, i + 5) = Colon
             /\ are_digits(s, i + 6, 2) /\ number_at(s, i + 6, 2) <= 59)
        THEN Error
        ELSE IF early(at(s, i + 8)) THEN Ok(i + 8, time(0))
        ELSE IF /\ at(s, i + 8) = Dot /\ n \in 1..max_digits
                /\ part_of_datetime \/ ends_value(at(s, j))
        THEN Ok(j, time(number_at(s, i + 9, n) * 10^(max_digits - n)))
        ELSE Error

\* parse_date_time: a date, a space or T, a time and perhaps Z or +HH:MM; NoOffset,
\* which is no number of minutes in a day, marks a local date-time.
NoOffset == 9999

\* The offset, with the cursor at j.
parse_offset(s, j, date, time) ==
    LET c == at(s, j)
        minutes == number_at(s, j + 1, 2) * 60 + number_at(s, j + 4, 2)
        done(k, offset) == IF ends_value(at(s, k))
                           THEN Ok(k, Scalar("date_time", <<date, time, offset>>)) ELSE Error
    IN  IF c = chr.Z THEN done(j + 1, 0)
        ELSE IF c \in {Plus, Minus}
        THEN IF is_hour_minute(s, j + 1)
             THEN done(j + 6, IF c = Minus THEN -minutes ELSE minutes) ELSE Error
        ELSE done(j, NoOffset)

parse_date_time(s, i) ==
    Then(parse_date(s, i, TRUE), LAMBDA j, date :
        IF at(s, j) \notin {Space, chr.T} THEN Error
        ELSE Then(parse_time(s, j + 1, TRUE), LAMBDA k, time : parse_offset(s, k, date, time)))

-----------------------------------------------------------------------------
(* parse_value                                                             *)

\* The enum value_traits, as a set.  One code point c of the scan: chars are those
\* before it, without underscores.
add_traits(acc, c) ==
    LET chars == Append(acc.chars, c)
        n == Len(chars)
        has(traits) == acc.traits \cap traits # {}
        l == IF is_ascii_letter(c) THEN to_lower(c) ELSE Eof
        new == CASE is_decimal_digit(c) -> {"digits"}
                 [] l = chr.b /\ n = 2 /\ has({"bzero"}) -> {"b"}
                 [] l = chr.e /\ n > 1 /\ ~has({"b", "o", "p", "t", "x", "z", "colon"})
                      /\ (~has({"plus", "minus"}) \/ has({"bsign"})) -> {"e"}
                 [] l = chr.o /\ n = 2 /\ has({"bzero"}) -> {"o"}
                 [] l = chr.p /\ has({"x"}) -> {"p"}
                 [] l = chr.x /\ \/ n = 2 /\ has({"bzero"})
                                 \/ n = 3 /\ has({"bsign"}) /\ chars[2] = Zero -> {"x"}
                 [] l = chr.t -> {"t"}
                 [] l = chr.z -> {"z"}
                 [] c = Plus -> {"plus"}
                 [] c = Minus -> {"minus"}
                 [] c = Dot -> {"dot"}
                 [] c = Colon -> {"colon"}
                 [] OTHER -> {}
    IN  IF c = Underscore THEN acc ELSE [chars |-> chars, traits |-> acc.traits \cup new]

\* The scan from i on, of one code point at least, and the place where it stops.
scan_end(s, i, begin) ==
    LET j == SkipWhile(s, i + 1, LAMBDA c : ~is_value_terminator(c))
    IN  IF j - begin > max_history_length THEN begin + max_history_length ELSE j

scan(s, i, begin, acc) ==
    IF at(s, i) = Eof THEN acc
    ELSE FoldLeft(add_traits, acc, SubSeq(s, i, scan_end(s, i, begin) - 1))

\* A date at i, scanned up to j, and followed by a space and a digit may be a
\* date-time: the scan goes on behind the digit.
scan_time(s, i, j, date) ==
    LET longer == [chars |-> date.chars \o <<Space, at(s, j + 1)>>, traits |-> date.traits \cup {"t"}]
        date_time == scan(s, j + 2, i, longer)
    IN  IF /\ Len(date.chars) = 10 /\ date.traits = {"bdigit", "digits", "minus"}
           /\ date.chars[5] = Minus /\ date.chars[8] = Minus
           /\ at(s, j) = Space /\ is_decimal_digit(at(s, j + 1))
           /\ Len(date_time.chars) # 12
        THEN date_time ELSE date

\* What the scan makes of the value at i.
value_traits(s, i) ==
    LET begins == IF at(s, i) = Zero THEN "bzero"
                  ELSE IF is_decimal_digit(at(s, i)) THEN "bdigit" ELSE "bsign"
    IN  scan_time(s, i, scan_end(s, i, i), scan(s, i, i, [chars |-> <<>>, traits |-> {begins}]))

\* The masks of the switch in parse_value.
starts == {{"bzero", "digits"}, {"bdigit", "digits"}}
masks(bases, options) == {base \cup option : base \in bases, option \in options}

integer_masks == starts \cup {{"bsign", "digits", "minus"}, {"bsign", "digits", "plus"}}

float_masks ==
    masks(starts, {{"e"}, {"e", "minus"}, {"e", "plus"}, {"dot"}, {"dot", "e"},
                   {"dot", "e", "minus"}, {"dot", "e", "plus"}})
    \cup masks({{"bsign", "digits"}},
               {{"e", "plus"}, {"dot", "plus"}, {"dot", "e", "plus"}, {"dot", "e", "plus", "minus"},
                {"e", "minus"}, {"e", "plus", "minus"}, {"dot", "minus"}, {"dot", "e", "minus"}})
time_masks == masks(starts, {{"colon"}, {"colon", "dot"}})
date_masks == masks(starts, {{"minus"}})
date_time_masks ==
    masks(starts, {{"minus", "colon", "t"}, {"plus", "minus", "colon", "t"},
                   {"minus", "colon", "dot", "t"}, {"plus", "minus", "colon", "dot", "t"},
                   {"minus", "colon", "z", "t"}, {"minus", "colon", "dot", "z", "t"}})

\* value<int64_t>::flags: the base the number was written in.
flags(format, r) ==
    Then(r, LAMBDA j, v : Ok(j, [p \in DOMAIN v |-> [v[p] EXCEPT !.by = format]]))

AsScalar(type, r) == Then(r, LAMBDA j, v : Ok(j, Scalar(type, v)))

\* A value that begins with a digit or a sign, from what the scan has found.
\* Hexadecimal floating-point numbers are not supported.
parse_by_traits(s, i, chars, traits) ==
    LET n == Len(chars)
        char(k) == IF k <= n THEN chars[k] ELSE 0
        unsigned == "bsign" \notin traits
    IN  IF n = 1 THEN IF unsigned THEN Ok(i + 1, Scalar("integer", chars[1] - Zero)) ELSE Error
        ELSE IF "p" \in traits THEN Error
        ELSE IF "x" \in traits THEN flags("hexadecimal", parse_integer(s, i, 16))
        ELSE IF "o" \in traits THEN flags("octal", parse_integer(s, i, 8))
        ELSE IF "b" \in traits THEN flags("binary", parse_integer(s, i, 2))
        ELSE IF "e" \in traits \/ (unsigned /\ char(2) = Dot) THEN parse_float(s, i)
        ELSE IF ~unsigned /\ n = 2 /\ "digits" \in traits
        THEN Ok(i + 2, Scalar("integer", (chars[2] - Zero) * (IF chars[1] = Minus THEN -1 ELSE 1)))
        ELSE IF ~unsigned /\ is_decimal_digit(char(2)) /\ char(3) = Dot THEN parse_float(s, i)
        ELSE IF ~unsigned /\ char(2) \in {chr.i, chr.n, chr.I, chr.N} THEN parse_inf_or_nan(s, i)
        ELSE IF traits \in integer_masks THEN parse_integer(s, i, 10)
        ELSE IF traits \in float_masks THEN parse_float(s, i)
        ELSE IF traits \in time_masks THEN AsScalar("time", parse_time(s, i, FALSE))
        ELSE IF traits \in date_masks THEN AsScalar("date", parse_date(s, i, FALSE))
        ELSE IF traits \in date_time_masks THEN parse_date_time(s, i)
        ELSE Error

parse_numeric(s, i) ==
    LET found == value_traits(s, i) IN parse_by_traits(s, i, found.chars, found.traits)

-----------------------------------------------------------------------------
(* Arrays and inline tables                                                *)

RECURSIVE parse_value(_, _)

\* parse_key_value_pair.
parse_key_value_pair(s, i) ==
    Then(parse_key(s, i), LAMBDA j, key :
        LET k == consume_leading_whitespace(s, j + 1)
        IN  IF at(s, j) # Equals \/ ends_value(at(s, k)) THEN Error
            ELSE Then(parse_value(s, k), LAMBDA l, v : Ok(l, [key |-> key, value |-> v])))

\* The loop of parse_array: the cursor, what came last, and the array so far.
RECURSIVE array_elements(_, _, _, _)
array_elements(s, i, prev, array) ==
    LET j == consume_blank(s, i)
        c == at(s, j)
        n == array[<<>>].val + 1
    IN  IF j = 0 \/ c = Eof THEN Error
        ELSE IF c = Comma
        THEN IF prev = "val" THEN array_elements(s, j + 1, "comma", array) ELSE Error
        ELSE IF c = RBracket THEN Ok(j + 1, array)
        ELSE IF prev = "val" THEN Error
        ELSE Then(parse_value(s, j), LAMBDA k, v :
                array_elements(s, k, "val", (<<>> :> Array("value", n)) @@ Under(<<Element(n)>>, v) @@ array))

\* Faulty variant: a comma may stand before the closing brace.
may_close_dangling(prev) == TRUE

may_close(prev) == prev # "comma"

\* The loop of parse_inline_table.
RECURSIVE inline_pairs(_, _, _, _)
inline_pairs(s, i, prev, table) ==
    LET j == consume_leading_whitespace(s, i)
        c == at(s, j)
        more(k, inserted) == IF inserted.ok THEN inline_pairs(s, k, "kvp", inserted.nodes) ELSE Error
    IN  IF c = Comma
        THEN IF prev = "kvp" THEN inline_pairs(s, j + 1, "comma", table) ELSE Error
        ELSE IF c = RBrace THEN IF may_close(prev) THEN Ok(j + 1, table) ELSE Error
        ELSE IF is_string_delimiter(c) \/ is_bare_key_character(c)
        THEN IF prev = "kvp" THEN Error
             ELSE Then(parse_key_value_pair(s, j), LAMBDA k, pair :
                     more(k, insert(table, <<>>, pair.key, pair.value)))
        ELSE Error

\* parse_value: the first code point tells strings, booleans, arrays and inline
\* tables apart (parse_value_known_prefixes).
parse_value(s, i) ==
    LET c == at(s, i)
    IN  CASE c = LBracket -> array_elements(s, i + 1, "none", <<>> :> Array("value", 0))
          [] c = LBrace -> inline_pairs(s, i + 1, "none", <<>> :> Table("inline"))
          [] c = Dot -> parse_float(s, i)
          [] is_string_delimiter(c) ->
               Then(parse_string(s, i), LAMBDA j, str : Ok(j, Scalar("string", str.value)))
          [] to_lower(c) \in {chr.t, chr.f} -> parse_boolean(s, i)
          [] to_lower(c) \in {chr.i, chr.n} -> parse_inf_or_nan(s, i)
          [] is_decimal_digit(c) \/ c \in {Plus, Minus} -> parse_numeric(s, i)
          [] OTHER -> Error

-----------------------------------------------------------------------------
(* The document                                                            *)

\* The text of a table header, and the rest of its line.
read_table_header(s, i) ==
    LET j == consume_leading_whitespace(s, i + 1)
        is_arr == at(s, j) = LBracket
        closed(k) == at(s, k) = RBracket /\ (is_arr => at(s, k + 1) = RBracket)
        rest(k) == consume_rest(s, IF is_arr THEN k + 2 ELSE k + 1)
    IN  IF is_arr /\ j # i + 1 THEN Error
        ELSE Then(parse_key(s, IF is_arr THEN consume_leading_whitespace(s, j + 1) ELSE j), LAMBDA k, key :
                IF closed(k) THEN Ok(rest(k), [key |-> key, is_arr |-> is_arr]) ELSE Error)

\* The loop of parse_document: the cursor, the document and current_table.
RECURSIVE parse_lines(_, _, _, _)
parse_lines(s, i, nodes, tab) ==
    LET j == consume_blank(s, i)
        c == at(s, j)
        more(k, doc) == IF k # 0 /\ doc.ok THEN parse_lines(s, k, doc.nodes, doc.tab) ELSE Error
    IN  IF j = 0 THEN Error
        ELSE IF c = Eof THEN Ok(j, nodes)
        ELSE IF c = LBracket
        THEN Then(read_table_header(s, j), LAMBDA k, header :
                more(k, define_table(nodes, header.key, header.is_arr)))
        ELSE IF is_bare_key_character(c) \/ is_string_delimiter(c)
        THEN Then(parse_key_value_pair(s, j), LAMBDA k, pair :
                more(consume_rest(s, k), insert(nodes, tab, pair.key, pair.value)))
        ELSE Error

parse_document(s) == parse_lines(s, 1, EmptyDocument, <<>>)
=============================================================================
