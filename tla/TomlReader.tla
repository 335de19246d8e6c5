----------------------------- MODULE TomlReader -----------------------------
(***************************************************************************)
(* How the parser of the configuration file moves over the text (toml.hpp: *)
(* utf8_buffered_reader and the parser's advance, go_back, the look-ahead  *)
(* of parse_string and the scan of parse_value).  The reader keeps the     *)
(* last code points in a ring so that the parser can step back.            *)
(*                                                                         *)
(* The text is the numbers 1..Length, so that a code point is its place;   *)
(* Null stands for nullptr, the end of the file.                           *)
(***************************************************************************)
EXTENDS Integers

CONSTANTS
    Length,              \* code points in the file
    max_history_length,  \* 72 in the program
    DateLength           \* 10 in the program: code points of a date without its time

history_buffer_size == max_history_length - 1
Null == 0

VARIABLES
    buffer, count, first,  \* utf8_buffered_reader::history
    head, negative_offset,
    read,                  \* calls of read_next of the reader below, while it had text
    cp,                    \* the parser's current code point
    stage,                 \* of the scan in parse_value, "none" outside it
    advance_count,         \* of that scan
    pre_advance_count,     \* of that scan, before it goes on behind a date
    begin                  \* ghost: the place at which the scan began

history == <<buffer, count, first>>
readerVars == <<history, head, negative_offset, read, cp>>
scanVars == <<stage, advance_count, pre_advance_count, begin>>
vars == <<readerVars, scanVars>>

-----------------------------------------------------------------------------
(* utf8_buffered_reader                                                    *)

\* The code point k places before head.
back(k) == buffer[(first + count - k) % history_buffer_size]

\* utf8_reader::read_next, the reader below.
reader_read_next ==
    /\ read' = read + 1
    /\ head' = IF read < Length THEN read + 1 ELSE Null

\* Faulty variant: a full ring is written one place too far.
remember_shifted ==
    IF count < history_buffer_size
    THEN /\ buffer' = [buffer EXCEPT ![count] = head]
         /\ count' = count + 1 /\ UNCHANGED first
    ELSE /\ buffer' = [buffer EXCEPT ![(first + 1) % history_buffer_size] = head]
         /\ first' = first + 1 /\ UNCHANGED count

\* Faulty variant: the ring is taken for one place larger than it is.
remember_late ==
    IF count <= history_buffer_size
    THEN /\ buffer' = [buffer EXCEPT ![count] = head]
         /\ count' = count + 1 /\ UNCHANGED first
    ELSE /\ buffer' = [buffer EXCEPT ![(first + history_buffer_size) % history_buffer_size] = head]
         /\ first' = first + 1 /\ UNCHANGED count

\* head enters the ring, over the oldest code point once the ring is full.
remember ==
    IF count < history_buffer_size
    THEN /\ buffer' = [buffer EXCEPT ![count] = head]
         /\ count' = count + 1 /\ UNCHANGED first
    ELSE /\ buffer' = [buffer EXCEPT ![(first + history_buffer_size) % history_buffer_size] = head]
         /\ first' = first + 1 /\ UNCHANGED count

\* utf8_buffered_reader::read_next; cp becomes what it returns.
read_next ==
    \/ /\ negative_offset > 0
       /\ negative_offset' = negative_offset - 1
       /\ cp' = IF negative_offset = 1 THEN head ELSE back(negative_offset - 1)
       /\ UNCHANGED <<history, head, read>>
    \/ /\ negative_offset = 0 /\ count = 0 /\ head = Null
       /\ reader_read_next /\ cp' = head'
       /\ UNCHANGED <<history, negative_offset>>
    \/ /\ negative_offset = 0 /\ head # Null
       /\ remember /\ reader_read_next /\ cp' = head'
       /\ UNCHANGED negative_offset

\* utf8_buffered_reader::step_back; the two assertions are not compiled.
step_back(n) ==
    /\ negative_offset' = negative_offset + n
    /\ cp' = back(negative_offset + n)
    /\ UNCHANGED <<history, head, read>>

-----------------------------------------------------------------------------
(* The parser                                                              *)

Init ==
    /\ buffer = [i \in 0..(history_buffer_size - 1) |-> Null]
    /\ count = 0 /\ first = 0 /\ head = Null /\ negative_offset = 0 /\ read = 0
    /\ cp = Null
    /\ stage = "none" /\ advance_count = 0 /\ pre_advance_count = 0 /\ begin = 0

\* The code point that a reader without a ring would be at.
Where == read - negative_offset

\* The constructor of parser reads the first code point.
parser == read = 0 /\ read_next /\ UNCHANGED scanVars

\* parser::advance, for what needs no look-ahead.
advance ==
    /\ stage = "none" /\ cp # Null
    /\ read_next
    /\ UNCHANGED scanVars

\* parse_value starts to scan what may be a number or a date, or parse_string to
\* look at the two code points after a delimiter.
start_scan ==
    /\ stage = "none" /\ cp # Null
    /\ stage' = "scan" /\ advance_count' = 0 /\ begin' = Where
    /\ UNCHANGED <<readerVars, pre_advance_count>>

\* advance() and ++advance_count, after which the scan is at stage s.
advance_to(s) ==
    /\ cp # Null
    /\ read_next
    /\ advance_count' = advance_count + 1 /\ stage' = s
    /\ UNCHANGED begin

\* Whether the loop of the second scan has had its first iteration.
rescanned == advance_count > pre_advance_count + 2

\* One iteration of the loop in scan(), which looks at its condition only after
\* the first; the code points decide where it ends before that.
scan ==
    /\ \/ stage = "scan" /\ advance_count < max_history_length
       \/ stage = "rescan" /\ (~rescanned \/ advance_count < max_history_length)
    /\ advance_to(stage)
    /\ UNCHANGED pre_advance_count

\* What was scanned looks like a date and a space follows.
take_space ==
    /\ stage = "scan" /\ advance_count >= DateLength
    /\ advance_to("space")
    /\ pre_advance_count' = advance_count

\* A digit follows, with which a time may begin: scan() is called again.
take_digit ==
    /\ stage = "space"
    /\ advance_to("rescan")
    /\ UNCHANGED pre_advance_count

\* No time follows: the scan goes back to the end of the date.
backpedal ==
    /\ stage = "space" \/ (stage = "rescan" /\ (cp = Null \/ rescanned))
    /\ step_back(advance_count - pre_advance_count)
    /\ stage' = "date" /\ advance_count' = pre_advance_count
    /\ UNCHANGED <<pre_advance_count, begin>>

\* The scan is over (at a terminator, at the end of the file, or because it is
\* long), and the parser goes back to where it began.
go_back ==
    /\ \/ stage = "scan" /\ advance_count > 0
       \/ stage = "rescan" /\ (cp = Null \/ rescanned)
       \/ stage = "date"
    /\ step_back(advance_count)
    /\ stage' = "none" /\ advance_count' = 0 /\ pre_advance_count' = 0
    /\ UNCHANGED begin

Next ==
    \/ parser \/ advance \/ start_scan \/ scan \/ take_space \/ take_digit
    \/ backpedal \/ go_back

Spec == Init /\ [][Next]_vars

-----------------------------------------------------------------------------
(* Properties                                                              *)

\* The first scan, a space, a digit and one iteration of the second scan.
MaxScan == max_history_length + 3

TypeOK ==
    /\ buffer \in [0..(history_buffer_size - 1) -> 0..Length]
    /\ count \in 0..history_buffer_size /\ first \in 0..Length
    /\ head \in 0..Length /\ negative_offset \in 0..MaxScan
    /\ read \in 0..(Length + 1) /\ cp \in 0..Length
    /\ stage \in {"none", "scan", "space", "rescan", "date"}
    /\ advance_count \in 0..MaxScan /\ pre_advance_count \in 0..max_history_length
    /\ begin \in 0..Length

\* However the parser moves, the code point it works on is the one of the file at
\* the place it has moved to, the end of the file included: none is skipped, seen
\* twice or taken from a slot of the ring that was used again.  A scan of
\* parse_value, with or without a date and what follows it, is advance_count code
\* points behind its beginning, and ends there.  The exception: a scan may be
\* longer than the ring, and until the parser has come back to what the ring holds
\* (with the next advance, unless a date follows) it is shown something else.
CursorFaithful ==
    /\ read > 0 /\ negative_offset <= history_buffer_size =>
          cp = IF Where > Length THEN Null ELSE Where
    /\ stage # "none" => Where = begin + advance_count

\* step_back of toml.hpp asserts "negative_offset + count <= history.count": it
\* is never asked for more than the ring holds.
StepsBackWithinRing == negative_offset <= count
=============================================================================
