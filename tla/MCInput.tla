------------------------------ MODULE MCInput -------------------------------
(* What the program reads before it starts, checked in one run.  A         *)
(* behaviour is one of                                                     *)
(*   "options":  a command line is given, parsed and obeyed (Startup);     *)
(*   "config":   a configuration grows entry by entry (Config);            *)
(*   "file":     a file becomes a stream of bytes (TomlFile);              *)
(*   "utf8":     bytes become code points (TomlUtf8);                      *)
(*   "reader":   the parser moves over the code points (TomlReader);       *)
(*   "string":   strings in each of the four forms (StringTexts).          *)
(* What a kind does not use keeps its initial value.                       *)
EXTENDS StringTexts

CONSTANTS
    MaxArgs,   \* options and arguments on a command line
    MaxSize,   \* nodes of a configuration
    MaxEdits,  \* changes of the file while it is read
    MaxLength  \* bytes of the file

VARIABLES
    kind,
    given, todo, opt, phase, ssh, started, keys, status,
    doc,
    disk, edits, file_phase, file_size, source, position, offset, delivered,
    alphabet, decoder, codepoints, cp_idx, current_byte_count, outcome, seen,
    buffer, count, first, head, negative_offset, read, cp,
    stage, advance_count, pre_advance_count, begin

optionVars == <<given, todo, opt, phase, ssh, started, keys, status>>
fileVars == <<disk, edits, file_phase, file_size, source, position, offset, delivered>>
utf8Vars == <<alphabet, decoder, codepoints, cp_idx, current_byte_count, outcome, seen>>
readerVars ==
    <<buffer, count, first, head, negative_offset, read, cp,
      stage, advance_count, pre_advance_count, begin>>

-----------------------------------------------------------------------------
(* Command lines and configurations                                        *)

MCFile ==
    ("f" :> [status |-> "ok", sock_dir |-> "f"])
        @@ ("g" :> [status |-> "exception", sock_dir |-> ""])
        @@ ("h" :> [status |-> "undefined", sock_dir |-> ""])

MCKeyOrder == <<"_f", "a", "b", "boards", "close_command", "command", "command_template",
                "ip_address", "port", "reserved_for", "s", "sock_dir", "sockets", "t", "type">>

Tree == INSTANCE TomlTree

Str(s) == Tree!Leaf("string", s)
Number(n) == Tree!Leaf("integer", n)
MCTable == Tree!Table("header")

Path2(a, b, v) == << <<a, b>>, v>>
Path3(a, b, c, v) == << <<a, b, c>>, v>>

\* A template that uses a key of its own, boards with and without that key.
MCBoards ==
    << << <<"boards">>, MCTable>>, Path2("boards", "a", MCTable), Path2("boards", "b", MCTable),
       Path3("boards", "a", "ip_address", Str(<<"ip1">>)),
       Path3("boards", "b", "ip_address", Str(<<"ip2">>)),
       Path3("boards", "a", "_f", Str(<<"x">>)), Path3("boards", "b", "_f", Str(<<"_f">>)),
       Path3("boards", "a", "command", Str(<<"c">>)), Path3("boards", "b", "command", Str(<<"_f">>)),
       Path3("boards", "a", "reserved_for", Str(<<"u">>)),
       Path3("boards", "b", "close_command", Number(1)),
       << <<"command_template">>, Str(<<"run", "_f", "ip_address">>)>>,
       << <<"command_template">>, Str(<<"run">>)>> >>

MCPort ==
    [i \in 1..6 |-> Number(i - 2)] \o [i \in 1..5 |-> Tree!Leaf("float", <<-1, 0, 3, 6, 8>>[i])]
    \o <<Tree!Leaf("boolean", TRUE), Str(<<"x">>)>>

MCSockets ==
    << << <<"boards">>, Str(<<"x">>)>>, << <<"sock_dir">>, Str(<<"d">>)>>,
       << <<"sockets">>, MCTable>>, << <<"sockets">>, Number(0)>>,
       Path2("sockets", "s", MCTable), Path2("sockets", "t", MCTable),
       Path3("sockets", "t", "type", Str(<<"tcp">>)), Path3("sockets", "t", "port", Number(3)) >>
    \o [i \in 1..3 |-> Path3("sockets", "s", "type", Str(<< <<"tcp", "wrproxy", "udp">>[i]>>))]
    \o [i \in 1..Len(MCPort) |-> Path3("sockets", "s", "port", MCPort[i])]

MCEntry == MCBoards \o MCSockets

Options == INSTANCE Startup WITH
    Dir <- {"d", ""}, File <- MCFile, Command <- {""}, Unset <- "unset"

Conf == INSTANCE Config WITH
    KeyOrder <- MCKeyOrder, MaxPort <- 3, Field <- {"_f", "ip_address"}, Entry <- MCEntry

-----------------------------------------------------------------------------
(* Bytes and code points                                                   *)

\* Files with whole and broken byte order marks, with zeros in all places.
Short(set, n) == UNION {[1..k -> set] : k \in 0..n}
MCContents == {m \o t : m \in {<<>>, <<239>>, <<239, 187>>, <<239, 187, 191>>}, t \in Short({0, 65}, 3)}

InFile == INSTANCE TomlFile WITH
    Contents <- MCContents, Byte <- {66, 67}, large_file_threshold <- 4, buffer_size <- 2,
    phase <- file_phase

\* Bytes of every class of the decoder, at an end of the class where two classes
\* meet, and a line break; the bytes that begin the longest sequences in alphabets
\* of their own, with continuations of all three classes.  Positions wrap around
\* at once.
MCAlphabet ==
    {{0, 10, 128, 159, 191, 194, 224, 236, 237, 244, 245},
     {0, 143, 144, 160, 240}, {0, 128, 159, 191, 241}}

Utf8(Byte) == INSTANCE TomlUtf8 WITH IndexWidth <- 1

\* A ring of six code points that the text goes through more than twice; scans
\* may be longer than the ring, also those that go on behind a date.
Reader == INSTANCE TomlReader WITH
    Length <- 16, max_history_length <- 7, DateLength <- 3

-----------------------------------------------------------------------------
(* Strings: units of text of one to four bytes, white space, line breaks,  *)
(* a line-ending backslash, delimiters, escape sequences, and what is not  *)
(* allowed                                                                 *)

U(k, text, bytes) == [kind |-> k, text |-> text, bytes |-> bytes]

MCUnit ==
    {U("text", <<chr.a>>, <<97>>),
     U("text", <<8364>>, <<226, 130, 172>>),
     U("space", <<Space>>, <<Space>>),
     U("newline", <<LF>>, <<LF>>),
     U("newline", <<CR, LF>>, <<LF>>),
     U("delimiter", <<>>, <<>>),
     U("trim", <<Backslash, Space, LF>>, <<>>),
     U("escape", <<Backslash, chr.n>>, <<LF>>),
     U("escape", <<Backslash, Backslash>>, <<Backslash>>),
     U("escape", <<Backslash, chr.u, 48, 48, 101, 57>>, <<195, 169>>),
     U("escape", <<Backslash, chr.u, 50, 48, 49, 52>>, <<226, 128, 148>>),
     U("escape", <<Backslash, chr.u, 52, 101, 50, 100>>, <<228, 184, 173>>),
     U("escape", <<Backslash, chr.U, 48, 48, 48, 49, 70, 54, 48, 48>>, <<240, 159, 152, 128>>),
     U("unknown", <<Backslash, chr.z>>, <<Backslash, chr.z>>),
     U("control", <<127>>, <<127>>)}

-----------------------------------------------------------------------------
(* The union                                                               *)

InputInit ==
    /\ kind \in {"options", "config", "file", "utf8", "reader", "string"}
    /\ Options!Init
    /\ Conf!Init
    /\ InFile!Init /\ (kind # "file" => disk = <<>>)
    /\ Utf8({})!Init /\ alphabet \in IF kind = "utf8" THEN MCAlphabet ELSE {{}}
    /\ Reader!Init
    /\ Init /\ (kind # "string" => delimiter = Quote /\ ~multi_line)

InputNext ==
    /\ \/ kind = "options" /\ Options!Next /\ UNCHANGED <<doc, fileVars, utf8Vars, readerVars, vars>>
       \/ kind = "config" /\ Conf!Next /\ UNCHANGED <<optionVars, fileVars, utf8Vars, readerVars, vars>>
       \/ kind = "file" /\ InFile!Next /\ UNCHANGED <<optionVars, doc, utf8Vars, readerVars, vars>>
       \/ /\ kind = "utf8" /\ \E S \in MCAlphabet : alphabet = S /\ Utf8(S)!Next
          /\ UNCHANGED <<alphabet, optionVars, doc, fileVars, readerVars, vars>>
       \/ kind = "reader" /\ Reader!Next /\ UNCHANGED <<optionVars, doc, fileVars, utf8Vars, vars>>
       \/ kind = "string" /\ Next /\ UNCHANGED <<optionVars, doc, fileVars, utf8Vars, readerVars>>
    /\ UNCHANGED kind

InputSpec ==
    InputInit /\ [][InputNext]_<<kind, optionVars, doc, fileVars, utf8Vars, readerVars, vars>>

-----------------------------------------------------------------------------
(* The properties of the components; those of StringTexts are its own.     *)

\* The types of utf8_reader and utf8_buffered_reader: states of the table, scalar
\* values, positions that wrap around, offsets no longer than a scan.
ReaderTypesOK == (\A S \in MCAlphabet : alphabet = S => Utf8(S)!TypeOK) /\ (kind = "reader" => Reader!TypeOK)

\* boardproxy.cpp starts what the command line and the file ask for, and nothing
\* for combinations of options that it refuses.
StartedAsAsked == kind = "options" => Options!StartedAsAsked

\* Config::Config drops no board and no socket of a file that it accepts, and
\* changes no port.
ConfigAsWritten == kind = "config" => Conf!ConfigAsWritten

\* Config::Config makes a board from its own table and the templates only.
BoardsIndependent == kind = "config" => Conf!BoardsIndependent

\* parse_file hands a file that nobody changes to the decoder byte for byte, but
\* for the byte order mark and zeros at its end, and does not take the rest of
\* its vector for text when the file has become shorter before it is read.
FileDelivered == [][(InFile!FileDelivered)' /\ InFile!DropsPadding]_fileVars

\* utf8_reader::read_next returns the code point and the text of the bytes read,
\* and fails exactly for bytes that encode no scalar value.
DecodedFaithfully == \A S \in MCAlphabet : alphabet = S => Utf8(S)!DecodedFaithfully

\* The parser is at the code point of the file that its moves have led to, and
\* the scan of parse_value ends where it began.
CursorFaithful == kind = "reader" => Reader!CursorFaithful
=============================================================================
