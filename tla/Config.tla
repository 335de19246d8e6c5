------------------------------- MODULE Config -------------------------------
(***************************************************************************)
(* Config::Config: what the daemon takes from its configuration file.  The *)
(* document is a tree as in TomlTree; its keys are strings and the content *)
(* of a string is a sequence of pieces, of which those in Field are        *)
(* replacement fields of fmt.                                              *)
(***************************************************************************)
EXTENDS TomlAccess

CONSTANTS
    Field,    \* replacement fields, each named after its key
    Entry,    \* a sequence of <<path, node>>: what may be written into the file
    MaxSize   \* nodes of a document

VARIABLE doc

\* The three ways in which reading may end.  "undefined": a null pointer or an
\* empty optional was dereferenced, so that the C++ code has no defined meaning.
Good(v) == [status |-> "ok", val |-> v]
Thrown == [status |-> "exception", val |-> <<>>]
Undefined == [status |-> "undefined", val |-> <<>>]

-----------------------------------------------------------------------------

\* fmt::vformat: each field is replaced by the value of the board's key, which is
\* not formatted again; a field without a value is an error.
vformat(templ, args) ==
    IF \A i \in 1..Len(templ) : templ[i] \in Field => templ[i] \in DOMAIN args
    THEN Good(FlattenSeq([i \in 1..Len(templ) |->
                             IF templ[i] \in Field THEN args[templ[i]] ELSE <<templ[i]>>]))
    ELSE Thrown

\* Faulty variant: the arguments of earlier boards are still in the store.
format_args_kept(d, board) ==
    [k \in {Last(p) : p \in {q \in DOMAIN d : Len(q) = 3 /\ q[1] = "boards" /\ d[q].type = "string"}} |->
        IF contains(d, board, k) THEN value_or_empty(d, board, k)
        ELSE LET other == CHOOSE q \in DOMAIN d : Len(q) = 3 /\ q[1] = "boards" /\ q[3] = k
             IN  d[other].val]

\* The arguments for the template: the values of the board's own table.
format_args(d, board) == [k \in ToSet(keys(d, board)) |-> value_or_empty(d, board, k)]

get_board_field(d, key, templ, board) ==
    IF type(d, board, key) = "none"
    THEN IF \A k \in ToSet(keys(d, board)) : type(d, board, k) = "string"
         THEN vformat(templ, format_args(d, board))
         ELSE Thrown
    ELSE IF type(d, board, key) # "string" THEN Thrown
    ELSE Good(value_or_empty(d, board, key))

create_board(d, id, command_template, close_command_template, board) ==
    LET ip_address == value_string(d, board, "ip_address")
        command == get_board_field(d, "command", command_template, board)
        close_command == get_board_field(d, "close_command", close_command_template, board)
    IN  IF ~Has(ip_address) \/ command.status # "ok" \/ close_command.status # "ok" THEN Thrown
        ELSE Good([id |-> id, command |-> command.val, ip_address |-> ip_address[1],
                   close_command |-> close_command.val,
                   reserved_for |-> value_or_empty(d, board, "reserved_for")])

\* The loops over boards and sockets end with the first item that is not valid.
push_back(list, item) ==
    IF list.status # "ok" THEN list
    ELSE IF item.status # "ok" THEN item
    ELSE Good(Append(list.val, item.val))

parse_boards(d) ==
    LET boards == <<"boards">>
        board(id) ==
            IF ~Has(as_table(d, boards, id)) THEN Undefined
            ELSE create_board(d, id, value_or_empty(d, <<>>, "command_template"),
                              value_or_empty(d, <<>>, "close_command_template"), Append(boards, id))
    IN  IF ~Has(as_table(d, <<>>, "boards")) THEN Thrown
        ELSE FoldLeft(LAMBDA list, id : push_back(list, board(id)), Good(<<>>), keys(d, boards))

parse_sockets(d) ==
    LET sockets == <<"sockets">>
        factory(name) ==
            LET socket == Append(sockets, name)
                kind == value_string(d, socket, "type")
                port == value_uint16(d, socket, "port")
            IN  IF ~Has(as_table(d, sockets, name)) THEN Undefined
                ELSE IF ~Has(kind) THEN Thrown
                ELSE IF kind[1] = <<"tcp">>
                THEN IF Has(port) THEN Good([name |-> name, type |-> "tcp", port |-> port[1]])
                     ELSE Undefined
                ELSE IF kind[1] = <<"wrproxy">> THEN Good([name |-> name, type |-> "wrproxy", port |-> 0])
                ELSE Thrown
    IN  IF ~contains(d, <<>>, "sockets") THEN Good(<<>>)
        ELSE IF ~Has(as_table(d, <<>>, "sockets")) THEN Thrown
        ELSE FoldLeft(LAMBDA list, name : push_back(list, factory(name)), Good(<<>>), keys(d, sockets))

\* Config::Config, for a file that could be parsed.
ReadConfig(d) ==
    LET boards == parse_boards(d)
        factories == parse_sockets(d)
    IN  IF boards.status # "ok" THEN boards
        ELSE IF factories.status # "ok" THEN factories
        ELSE Good([sock_dir |-> value_or_empty(d, <<>>, "sock_dir"),
                   boards |-> boards.val, proxy_factories |-> factories.val])

-----------------------------------------------------------------------------
(* The files: one entry after the other is written below a table           *)

Init == doc = EmptyDocument

Next ==
    \E i \in 1..Len(Entry) :
       LET path == Entry[i][1]
       IN  /\ Cardinality(DOMAIN doc) < MaxSize
           /\ path \notin DOMAIN doc
           /\ Front(path) \in DOMAIN doc /\ doc[Front(path)].type = "table"
           /\ doc' = (path :> Entry[i][2]) @@ doc

Spec == Init /\ [][Next]_doc

-----------------------------------------------------------------------------
(* Properties                                                              *)

config == ReadConfig(doc)
Accepted == config.status = "ok"

Place(key) == CHOOSE n \in 1..Len(KeyOrder) : KeyOrder[n] = key
Below(path) == {p \in DOMAIN doc : Len(p) = Len(path) + 1 /\ Front(p) = path}

\* The port of a TCP socket is the number written in the file.
PortAsWritten(s) ==
    LET node == doc[<<"sockets", s.name, "port">>]
    IN  s.type = "tcp" =>
           CASE node.type = "integer" -> s.port = node.val
             [] node.type = "float" -> 2 * s.port = node.val
             [] node.type = "boolean" -> (s.port = 1) = node.val

\* Nothing of an accepted file is dropped or changed: each entry of boards and
\* sockets is a board or a socket, boards are in the order of their names, in
\* which they are given out, and no port has wrapped around into another one.
ConfigAsWritten ==
    Accepted =>
        LET boards == config.val.boards
            factories == config.val.proxy_factories
        IN  /\ {<<"boards", boards[i].id>> : i \in 1..Len(boards)} = Below(<<"boards">>)
            /\ {<<"sockets", factories[i].name>> : i \in 1..Len(factories)} = Below(<<"sockets">>)
            /\ \A i, j \in 1..Len(boards) : i < j => Place(boards[i].id) < Place(boards[j].id)
            /\ \A i \in 1..Len(factories) : PortAsWritten(factories[i])

\* The file without the boards other than id.
Alone(id) ==
    LET kept == {p \in DOMAIN doc : Len(p) >= 2 /\ p[1] = "boards" => p[2] = id}
    IN  [p \in kept |-> doc[p]]

\* A board is made of its own table and the templates only: it is the same board
\* in a file that has no other.
BoardsIndependent ==
    Accepted =>
        \A i \in 1..Len(config.val.boards) :
            parse_boards(Alone(config.val.boards[i].id)) = Good(<<config.val.boards[i]>>)
=============================================================================
