------------------------------ MODULE TomlFile ------------------------------
(***************************************************************************)
(* How the configuration file becomes a stream of bytes (toml.hpp:         *)
(* parse_file and the two kinds of utf8_byte_stream), while someone may be *)
(* editing it.  A file that is not large is read into memory as a whole;   *)
(* a large one is read through the buffer of an ifstream while it is       *)
(* parsed.                                                                 *)
(***************************************************************************)
EXTENDS Integers, SequencesExt

CONSTANTS
    Contents,              \* what may be in the file at first
    Byte,                  \* what an editor may write
    large_file_threshold,  \* 32 megabytes in the program
    buffer_size,           \* of the ifstream; 32768 in the program
    MaxEdits, MaxLength    \* bounds on what the editor does

VARIABLES
    disk,       \* the bytes of the file
    edits,      \* ghost: changes of the file since it was opened
    phase,      \* where parse_file is
    file_size,  \* the size that tellg() returned
    source,     \* the view of the data, or what is in the buffer of the ifstream
    position,   \* the next byte of source
    offset,     \* place in the file of the ifstream
    delivered   \* ghost: the bytes that the decoder got

vars == <<disk, edits, phase, file_size, source, position, offset, delivered>>

NUL == 0
utf8_byte_order_mark == <<239, 187, 191>>

HasMark(s) == IsPrefix(utf8_byte_order_mark, s)

\* The n bytes of the file from place i on, as far as there are any.
ReadAt(i, n) == SubSeq(disk, i + 1, IF i + n <= Len(disk) THEN i + n ELSE Len(disk))

Init ==
    /\ disk \in Contents /\ edits = 0 /\ phase = "closed"
    /\ file_size = 0 /\ source = <<>> /\ position = 0 /\ offset = 0 /\ delivered = <<>>

-----------------------------------------------------------------------------
(* parse_file                                                              *)

\* The file is opened at its end, so that tellg() is its size; either may fail.
open ==
    /\ phase = "closed"
    /\ \/ phase' = "error" /\ UNCHANGED file_size
       \/ phase' = "opened" /\ file_size' = Len(disk)
    /\ UNCHANGED <<disk, edits, source, position, offset, delivered>>

\* Faulty variant: one of the trailing zeros stays.
trimmed_short(s) ==
    LET last == {i \in 1..Len(s) : s[i] # NUL}
    IN  IF last = {} \/ Max(last) = Len(s) THEN s ELSE SubSeq(s, 1, Max(last) + 1)

\* The view without the zeros at its end: the loop looks for the last byte that
\* is not zero.
trimmed(s) ==
    LET last == {i \in 1..Len(s) : s[i] # NUL}
    IN  IF last = {} THEN s ELSE SubSeq(s, 1, Max(last))

start(s) == IF Len(s) >= 3 /\ HasMark(s) THEN 3 ELSE 0

\* The whole file is read into a vector that was filled with zeros for the size
\* found before, and the constructor of the byte stream takes a view of it.
read_data ==
    LET read == ReadAt(0, file_size)
        file_data == read \o [i \in 1..(file_size - Len(read)) |-> NUL]
    IN  /\ phase = "opened" /\ file_size <= large_file_threshold
        /\ source' = trimmed(file_data) /\ position' = start(source')
        /\ phase' = "data"
        /\ UNCHANGED <<disk, edits, file_size, offset, delivered>>

\* The byte stream over the ifstream: after a mark the parser goes on, otherwise
\* seekg() goes back to the start and drops the buffer.
read_mark ==
    /\ phase = "opened" /\ file_size > large_file_threshold
    /\ offset' = IF ReadAt(0, 3) = utf8_byte_order_mark THEN 3 ELSE 0
    /\ phase' = "stream"
    /\ UNCHANGED <<disk, edits, file_size, source, position, delivered>>

-----------------------------------------------------------------------------
(* utf8_byte_stream::operator()                                            *)

next_byte ==
    /\ phase \in {"data", "stream"} /\ position < Len(source)
    /\ delivered' = Append(delivered, source[position + 1])
    /\ position' = position + 1
    /\ UNCHANGED <<disk, edits, phase, file_size, source, offset>>

\* The ifstream fills its buffer, or finds the end of the file.
underflow ==
    /\ phase = "stream" /\ position = Len(source)
    /\ source' = ReadAt(offset, buffer_size) /\ position' = 0
    /\ offset' = offset + Len(source')
    /\ phase' = IF source' = <<>> THEN "done" ELSE phase
    /\ UNCHANGED <<disk, edits, file_size, delivered>>

\* The end of the data in memory.
data_eof ==
    /\ phase = "data" /\ position >= Len(source)
    /\ phase' = "done"
    /\ UNCHANGED <<disk, edits, file_size, source, position, offset, delivered>>

-----------------------------------------------------------------------------
(* An editor that writes the file in place                                 *)

Edit(content) ==
    /\ phase \in {"opened", "stream"} /\ edits < MaxEdits
    /\ disk' = content /\ edits' = edits + 1
    /\ UNCHANGED <<phase, file_size, source, position, offset, delivered>>

Truncate == \E n \in 0..(Len(disk) - 1) : Edit(SubSeq(disk, 1, n))

Extend == Len(disk) < MaxLength /\ \E b \in Byte : Edit(Append(disk, b))

Next ==
    \/ open \/ read_data \/ read_mark \/ next_byte \/ underflow \/ data_eof
    \/ Truncate \/ Extend

Spec == Init /\ [][Next]_vars

-----------------------------------------------------------------------------
(* Properties                                                              *)

Text == IF HasMark(disk) THEN SubSeq(disk, 4, Len(disk)) ELSE disk

\* A file that nobody changes reaches the decoder byte for byte, whichever way it
\* is read: only a byte order mark is left out and, of a file in memory, the zeros
\* at the end.
FileDelivered ==
    phase = "done" /\ edits = 0 =>
        \/ delivered = Text
        \/ /\ file_size <= large_file_threshold /\ IsPrefix(delivered, Text)
           /\ \A i \in (Len(delivered) + 1)..Len(Text) : Text[i] = NUL

\* When the file shrinks between tellg() and read(), the rest of the vector keeps
\* its zeros.  They do not become text: what is parsed is the file as it is when it
\* is read, unless that is empty.
DropsPadding ==
    phase' = "data" /\ phase # "data" /\ NUL \notin ToSet(disk) /\ disk # <<>>
        => source' = ReadAt(0, file_size)
=============================================================================
