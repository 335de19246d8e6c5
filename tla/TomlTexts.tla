----------------------------- MODULE TomlTexts ------------------------------
(***************************************************************************)
(* Texts that the parser of toml.hpp may meet, and what it makes of them:  *)
(*   "integer", "float":  all texts over an alphabet;                      *)
(*   "date":      dates, times and date-times, written field by field with *)
(*                values inside and outside of their ranges;               *)
(*   "document":  documents of several lines, with dotted keys, nested     *)
(*                arrays and inline tables, and all the texts a few edits  *)
(*                away from them.                                          *)
(***************************************************************************)
EXTENDS DocumentTexts

CONSTANTS
    Alphabet,              \* [kind -> set of code points]
    MaxLength,             \* [kind -> Nat], for integers and floats
    Year, Month, Day,      \* numbers to write into the fields
    Hour, Minute, Second,
    Fraction,              \* sequences of digits; <<>> for no fraction
    Offset,                \* hours and minutes of an offset: <<h, m>>
    Seed,                  \* documents to start from
    MaxEdits               \* changes of one code point

VARIABLES
    kind,
    text,     \* what is written
    edits,    \* changes of a document
    type,     \* of what is written so far: "", "date", "time" or "date_time"
    value,    \* what a date stands for, in the form of TomlValues
    valid     \* every field of a date is in its range

dateVars == <<type, value, valid>>
textVars == <<kind, text, edits, dateVars>>

TextInit ==
    /\ \/ kind \in {"integer", "float", "date"} /\ text = <<>>
       \/ kind = "document" /\ text \in Seed
    /\ edits = 0
    /\ type = "" /\ value = <<>> /\ valid = TRUE

-----------------------------------------------------------------------------
(* Numbers                                                                 *)

WriteCharacter ==
    /\ kind \in {"integer", "float"} /\ Len(text) < MaxLength[kind]
    /\ \E c \in Alphabet[kind] : text' = Append(text, c)
    /\ UNCHANGED <<kind, edits, dateVars>>

-----------------------------------------------------------------------------
(* Dates                                                                   *)

Two(n) == <<Zero + (n \div 10), Zero + (n % 10)>>
Four(n) == Two(n \div 100) \o Two(n % 100)

Leap(y) == IF y % 100 = 0 THEN y % 400 = 0 ELSE y % 4 = 0
LastDay(y, m) == <<31, IF Leap(y) THEN 29 ELSE 28, 31, 30, 31, 30, 31, 31, 30, 31, 30, 31>>[m]

WriteDate(y, m, d) ==
    /\ kind = "date" /\ type = ""
    /\ text' = Four(y) \o <<Minus>> \o Two(m) \o <<Minus>> \o Two(d)
    /\ type' = "date" /\ value' = <<y, m, d>>
    /\ valid' = (m \in 1..12 /\ d \in 1..LastDay(y, m))
    /\ UNCHANGED <<kind, edits>>

\* A time of its own, or after a date and a separator.
WriteTime(separator, h, m, s, fraction) ==
    LET nanoseconds == NumberOf(10, fraction) * 10^(9 - Len(fraction))
        time == <<h, m, s, IF Len(fraction) > 9 THEN 0 ELSE nanoseconds>>
    IN  /\ kind = "date" /\ type = IF separator = <<>> THEN "" ELSE "date"
        /\ text' = text \o separator \o Two(h) \o <<Colon>> \o Two(m) \o <<Colon>> \o Two(s)
                        \o (IF fraction = <<>> THEN <<>> ELSE <<Dot>> \o fraction)
        /\ type' = IF type = "" THEN "time" ELSE "date_time"
        /\ value' = IF type = "" THEN time ELSE <<value, time, NoOffset>>
        /\ valid' = (valid /\ h <= 23 /\ m <= 59 /\ s <= 59 /\ Len(fraction) <= 9)
        /\ UNCHANGED <<kind, edits>>

WriteOffset(sign, o) ==
    /\ type = "date_time" /\ value[3] = NoOffset
    /\ text' = text \o <<sign>> \o (IF sign = chr.Z THEN <<>> ELSE Two(o[1]) \o <<Colon>> \o Two(o[2]))
    /\ value' = [value EXCEPT ![3] = CASE sign = chr.Z -> 0
                                       [] sign = Plus -> 60 * o[1] + o[2]
                                       [] sign = Minus -> -(60 * o[1] + o[2])]
    /\ valid' = (valid /\ (sign # chr.Z => o[1] <= 23 /\ o[2] <= 59))
    /\ UNCHANGED <<kind, edits, type>>

Write ==
    \/ \E y \in Year, m \in Month, d \in Day : WriteDate(y, m, d)
    \/ \E separator \in {<<>>, <<Space>>, <<chr.T>>}, h \in Hour, m \in Minute, s \in Second, f \in Fraction :
          WriteTime(separator, h, m, s, f)
    \/ \E sign \in {Plus, Minus, chr.Z}, o \in Offset : WriteOffset(sign, o)

-----------------------------------------------------------------------------
(* Documents                                                               *)

Edit(t) ==
    /\ kind = "document" /\ edits < MaxEdits
    /\ edits' = edits + 1 /\ text' = t
    /\ UNCHANGED <<kind, dateVars>>

Change ==
    \/ \E i \in 0..Len(text), c \in Alphabet["document"] : Edit(InsertAt(text, i + 1, c))
    \/ \E i \in 1..Len(text), c \in Alphabet["document"] : Edit(ReplaceAt(text, i, c))
    \/ \E i \in 1..Len(text) : Edit(RemoveAt(text, i))

TextNext == WriteCharacter \/ Write \/ Change

-----------------------------------------------------------------------------
(* Properties                                                              *)

\* The whole text, and no less, was taken for a value of this type.
Taken(r, t) == r.at = Len(text) + 1 /\ r.val[<<>>].type = t

\* Two exceptions to TOML, which parse_integer makes.  A prefix without digits is
\* taken for 0, unless the file ends there; and leading zeroes after a prefix count
\* as digits, of which there is only room for those of the largest number.
BarePrefix == text \in {<<Zero, letter>> : letter \in {chr.x, chr.o, chr.b}}
NoRoom == BaseOf(text) # 0 /\ Len(DigitsOf(text)) > buffer_length[BaseOf(text)]

\* Except for those two cases a text is taken for an integer exactly when it is one
\* in the range of int64_t, and its value is then the number written, in every base,
\* with underscores, at both ends of the range and for the single digits that
\* parse_integer converts by themselves.
IntegerExact(r, tail) ==
    /\ Taken(r, "integer") <=> IF BarePrefix THEN tail # <<>> ELSE Fits(text) /\ ~NoRoom
    /\ Taken(r, "integer") =>
          r.val[<<>>].val = CASE BarePrefix -> 0
                              [] text[1] = Minus -> -Magnitude(text)
                              [] OTHER -> Magnitude(text)

\* A text is taken for a floating-point number exactly when it is one, and the
\* characters converted are those written, without sign and underscores: the
\* traits that parse_value collects never send a number to the wrong parser.
FloatExact(r) ==
    /\ Taken(r, "float") <=> IsFloat(text)
    /\ Taken(r, "float") => r.val[<<>>].val = <<text[1] = Minus, Plain(Unsigned(text))>>

Expected == Ok(Len(text) + 1, Scalar(type, value))

\* The third exception: the date and the time are separated by a space and the
\* year begins with 0.  parse_value goes on over the space only if the first trait
\* of the year is that of a digit other than 0, although its list of the forms of
\* a date-time has this one too.
AncientWithSpace == type = "date_time" /\ text[11] = Space /\ text[1] = Zero

\* A date, a time or a date-time is accepted exactly when its fields are in range
\* (29 February only in leap years, no 60th second, nine digits of a second at
\* most), with the value that was written, also where the scan of parse_value
\* goes on over the space inside it or back over the one behind it.  In the third
\* exception only the date is taken, and so the document is refused.
DateTimeExact(r) ==
    CASE ~valid -> r.at # Len(text) + 1
      [] valid /\ AncientWithSpace -> r = Ok(11, Scalar("date", value[1]))
      [] OTHER -> r = Expected

Exact(r, tail) ==
    CASE kind = "integer" -> IntegerExact(r, tail)
      [] kind = "float" -> FloatExact(r)
      [] kind = "date" -> DateTimeExact(r)

\* What may follow a value.
Tails ==
    CASE kind = "integer" -> {<<>>, <<LF>>}
      [] kind = "float" -> {<<>>, <<Comma>>}
      [] kind = "date" -> {<<>>, <<LF>>, <<Space, Hash>>, <<Comma, Zero>>}

\* The typed parsers and the guess by which parse_value chooses one agree with
\* what is written, for integers, floating-point numbers, dates and times, and
\* whatever follows the value in its document; BarePrefix, NoRoom and
\* AncientWithSpace are the only exceptions.
ValuesExact ==
    kind \in {"integer", "float", "date"} /\ text # <<>> =>
        \A tail \in Tails : Exact(parse_value(text \o tail, 1), tail)

MeaningOf(r) == IF Succeeds(r) THEN {r.val} ELSE {}

\* A text is accepted if and only if the grammar derives it, and the document is
\* then the one that the grammar gives it: parse_document with its headers, keys,
\* arrays, inline tables, white space and comments.
DocumentsExact ==
    kind = "document" => Meanings(text) = MeaningOf(parse_document(text))
=============================================================================
