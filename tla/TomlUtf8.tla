------------------------------ MODULE TomlUtf8 ------------------------------
(***************************************************************************)
(* The reader of the configuration file (toml.hpp: utf8_decoder,           *)
(* utf8_codepoint, utf8_reader): bytes become code points with a position. *)
(* utf8_reader::read_next is a loop over bytes; a step here is one turn of *)
(* it.  The bytes of the file are chosen as they are read.                 *)
(***************************************************************************)
EXTENDS TomlChars, SequencesExt

CONSTANTS
    Byte,       \* the bytes considered, a subset of 0..255
    IndexWidth  \* width of source_index, 16 in the program

VARIABLES
    decoder,     \* utf8_decoder: state and codepoint
    codepoints,  \* utf8_reader::codepoints, the two slots
    cp_idx,      \* utf8_reader::cp_idx, modulo 2
    current_byte_count,
    outcome,     \* of read_next: "reading", "returned", "eof" or "error"
    seen         \* the bytes read since the last complete code point

vars == <<decoder, codepoints, cp_idx, current_byte_count, outcome, seen>>

-----------------------------------------------------------------------------
(* The decoder                                                             *)

\* utf8_decoder::state_table, first part: the class of each byte.
ByteClass(b) ==
    CASE b <= 127 -> 0
      [] b \in 128..143 -> 1
      [] b \in 144..159 -> 9
      [] b \in 160..191 -> 7
      [] b \in 194..223 -> 2
      [] b = 224 -> 10
      [] b = 237 -> 4
      [] b \in 225..239 \ {237} -> 3
      [] b = 240 -> 11
      [] b \in 241..243 -> 6
      [] b = 244 -> 5
      [] b \in {192, 193} \cup 245..255 -> 8

\* utf8_decoder::state_table, second part: the next state for each state (a
\* multiple of 12) and byte class.  0 is a complete code point, 12 an error.
Transition ==
    << 0, 12, 24, 36, 60, 96, 84, 12, 12, 12, 48, 72,
      12, 12, 12, 12, 12, 12, 12, 12, 12, 12, 12, 12,
      12,  0, 12, 12, 12, 12, 12,  0, 12,  0, 12, 12,
      12, 24, 12, 12, 12, 12, 12, 24, 12, 24, 12, 12,
      12, 12, 12, 12, 12, 12, 12, 24, 12, 12, 12, 12,
      12, 24, 12, 12, 12, 12, 12, 12, 12, 24, 12, 12,
      12, 12, 12, 12, 12, 12, 12, 36, 12, 36, 12, 12,
      12, 36, 12, 12, 12, 12, 12, 36, 12, 36, 12, 12,
      12, 36, 12, 12, 12, 12, 12, 12, 12, 12, 12, 12>>

next_state(state, type) == Transition[state + type + 1]

has_code_point(d) == d.state = 0
decoder_error(d) == d.state = 12
needs_more_input(d) == d.state > 0 /\ d.state # 12

\* utf8_decoder::operator(): (255 >> type) & byte for the first byte of a
\* sequence, (byte & 63) | (codepoint << 6) for the others.
decode(d, byte) ==
    LET type == ByteClass(byte)
    IN  [codepoint |-> IF has_code_point(d)
                       THEN IF type > 8 THEN 0 ELSE byte % 2^(8 - type)
                       ELSE (byte % 64) + 64 * d.codepoint,
         state |-> next_state(d.state, type)]

-----------------------------------------------------------------------------
(* The reader                                                              *)

NoBytes == <<0, 0, 0, 0>>

\* utf8_codepoint::as_view: all four bytes, or those before the first zero.
as_view(cp) ==
    IF cp.bytes[4] # 0 THEN cp.bytes
    ELSE SubSeq(cp.bytes, 1, (CHOOSE i \in 1..4 :
                                cp.bytes[i] = 0 /\ \A j \in 1..(i - 1) : cp.bytes[j] # 0) - 1)

Next_index(n) == (n + 1) % 2^IndexWidth

\* Where the code point after cp is.
position_after(cp) ==
    IF starts_line(cp.value)
    THEN [line |-> Next_index(cp.position.line), column |-> 1]
    ELSE [line |-> cp.position.line, column |-> Next_index(cp.position.column)]

Init ==
    /\ decoder = [state |-> 0, codepoint |-> 0]
    /\ codepoints = [i \in 0..1 |->
          [value |-> 0, bytes |-> NoBytes, position |-> [line |-> 1, column |-> 1]]]
    /\ cp_idx = 1 /\ current_byte_count = 0
    /\ outcome = "returned" /\ seen = <<>>

Reading == outcome \in {"reading", "returned"}

\* Faulty variant: the bytes of the slot used next are not cleared.
store_dirty(cp, prev) ==
    /\ codepoints' = [codepoints EXCEPT
          ![cp_idx] = cp, ![1 - cp_idx] = [prev EXCEPT !.position = position_after(cp)]]
    /\ cp_idx' = 1 - cp_idx /\ current_byte_count' = 0

\* A complete code point: the other slot is prepared for the next one.
store(cp, prev) ==
    /\ codepoints' = [codepoints EXCEPT
          ![cp_idx] = cp,
          ![1 - cp_idx] = [prev EXCEPT !.bytes = NoBytes, !.position = position_after(cp)]]
    /\ cp_idx' = 1 - cp_idx /\ current_byte_count' = 0

\* utf8_reader::read_next reads byte b.
read_byte(b) ==
    LET d == decode(decoder, b)
        current == [codepoints[cp_idx] EXCEPT !.bytes[current_byte_count + 1] = b]
    IN  /\ Reading
        /\ decoder' = d
        /\ seen' = IF outcome = "returned" THEN <<b>> ELSE Append(seen, b)
        /\ \/ /\ decoder_error(d)
              /\ outcome' = "error"
              /\ UNCHANGED <<codepoints, cp_idx, current_byte_count>>
           \/ /\ has_code_point(d)
              /\ outcome' = "returned"
              /\ store([current EXCEPT !.value = d.codepoint], codepoints[1 - cp_idx])
           \/ /\ needs_more_input(d)
              /\ outcome' = "reading"
              /\ codepoints' = [codepoints EXCEPT ![cp_idx] = current]
              /\ current_byte_count' = current_byte_count + 1
              /\ UNCHANGED cp_idx

\* utf8_reader::read_next finds the end of the file.
read_eof ==
    /\ Reading
    /\ outcome' = IF needs_more_input(decoder) THEN "error" ELSE "eof"
    /\ UNCHANGED <<decoder, codepoints, cp_idx, current_byte_count, seen>>

Next == read_eof \/ \E b \in Byte : read_byte(b)

Spec == Init /\ [][Next]_vars

-----------------------------------------------------------------------------
(* Reference: the bytes that begin the encoding of a scalar value           *)

\* The encoding of some scalar value begins with the bytes bs.
BeginsScalar(bs) ==
    LET lead == bs[1]
        n == IF lead < 128 THEN 1 ELSE IF lead < 224 THEN 2 ELSE IF lead < 240 THEN 3 ELSE 4
        bits == CASE n = 1 -> lead [] n = 2 -> lead - 192 [] n = 3 -> lead - 224 [] n = 4 -> lead - 240
        known == FoldLeft(LAMBDA acc, b : 64 * acc + (b - 128), bits, Tail(bs))
        low == known * 64^(n - Len(bs))
        high == low + 64^(n - Len(bs)) - 1
        least == <<0, 128, 2048, 65536>>[n]
    IN  /\ lead < 128 \/ lead \in 192..247
        /\ Len(bs) <= n /\ \A i \in 2..Len(bs) : bs[i] \in 128..191
        /\ high >= least /\ low <= MaxScalar
        /\ ~(is_unicode_surrogate(low) /\ is_unicode_surrogate(high))

-----------------------------------------------------------------------------
(* Properties                                                              *)

TypeOK ==
    /\ decoder.state \in {12 * i : i \in 0..8} /\ decoder.codepoint \in 0..MaxScalar
    /\ cp_idx \in 0..1 /\ current_byte_count \in 0..3
    /\ outcome \in {"reading", "returned", "eof", "error"}
    /\ \A i \in 0..1 :
          /\ codepoints[i].value \in 0..MaxScalar
          /\ codepoints[i].bytes \in [1..4 -> 0..255]
          /\ codepoints[i].position.line \in 0..(2^IndexWidth - 1)
          /\ codepoints[i].position.column \in 0..(2^IndexWidth - 1)

\* Whatever was read before, a code point that utf8_reader::read_next returns is
\* a scalar value, and its value and its text (as_view, which the parser appends
\* to strings and keys) are those of the bytes read for it.  Only for U+0000,
\* which no string may contain, the text is empty.  The reader gives up exactly
\* when the bytes read cannot become, or at the end of the file are not, the
\* encoding of a scalar value.
DecodedFaithfully ==
    /\ outcome = "returned" /\ seen # <<>> =>
          LET cp == codepoints[1 - cp_idx]
          IN  /\ ~is_unicode_surrogate(cp.value)
              /\ seen = Encode(cp.value)
              /\ as_view(cp) = IF cp.value = 0 THEN <<>> ELSE seen
    /\ outcome = "reading" => BeginsScalar(seen)
    /\ outcome = "error" => ~BeginsScalar(seen) \/ needs_more_input(decoder)
=============================================================================
