# A TLA+ model of boardproxy

boardproxy gives users access to a pool of boards. A daemon assigns boards to
clients, lets clients wait, runs a command on the client's terminal, runs a close
command afterwards and forwards network connections to the board. This directory
holds TLA+ models of the daemon, of its sockets and proxies, of its command line
and configuration, and of the TOML library it includes; TLC configurations for
small instances; and proofs that TLAPS checks for every number of clients, boards
and processes. `PROJECT.json` lists components, runs, the source lines behind each
definition, hazards, findings and theorems.

## The system and its models

| Part | Source | Module | What is hard |
|---|---|---|---|
| Event loop, life of the daemon | `boardproxy.cpp`, `daemon.cpp`, libev, systemd units | `Daemon` | events of one batch in any order; work after `break_loop`; children that outlive the daemon |
| Board allocation, wait queue | `daemon.cpp`, `board.cpp` | `Daemon`, `BoardPool`, `DaemonPool` | hand-over inside the destruction of another session; reservations |
| Session | `session.cpp` | `Daemon` | a client leaves at any time; kill against exit; a session is destroyed by its own callback |
| Client, setup message | `client.cpp`, `protocol.hpp` | `Daemon`, `DaemonHistory` | may die anywhere; name cut to 31 characters, lost descriptors |
| Dispatch of forwarded connections | `daemon.cpp`, `session.cpp`, `socket_proxy.cpp` | `Forwarding` | first match, uninitialised `ppid`, proxies against hand-over |
| Unix sockets | `unix_socket.cpp`, `daemon.cpp` | `Listeners` | a crash between any two system calls, restart, sockets from systemd |
| TCP proxy | `tcpproxy.cpp`, `socket_proxy.cpp` | `TcpProxy` | short writes, full buffers, half-closed streams, SIGPIPE |
| WindRiver proxy | `wrproxy.cpp` | `WrProxy` | frames and commands in pieces, several in one read |
| Command line, SSH commands | `boardproxy.cpp` | `Startup` | options and arguments in any order, three sources of the directory |
| Configuration | `config.cpp` | `Config`, `TomlAccess` | fields or templates, missing and mistyped entries |
| TOML parser | `toml.hpp` | `TomlFile`, `TomlUtf8`, `TomlReader`, `TomlStrings`, `TomlValues`, `TomlTree`, `TomlDocument` | a file that changes, a ring of limited size, guesses before parsing, tables defined in pieces |
| TOML formatter | `toml.hpp` | `TomlFormatter` | must agree with the parser |

Modules with texts for the parser, and with the grammar they are compared with:
`StringTexts`, `NumberTexts`, `DocumentTexts`, `TomlTexts`, `FormatTexts`. `TomlChars`
has the classes of characters. Modules named `MC...` are instances for TLC, those
named `...Proofs` hold the theorems.

A client connects through `Listeners` to the daemon of `Daemon`, which has read
its boards with `Config` from the file that the TOML modules read, after `Startup`
has chosen it. ssh forwards further connections; `Forwarding` finds their session,
and `TcpProxy` or `WrProxy` handles their bytes. `Forwarding` extends `Daemon`, so
that every step of the daemon is one of the composition. The other modules meet
at values: `reserved_for` and `close_command` of `Daemon` are what `Config` yields,
and the functions of the parser work on the text that `TomlReader` shows to be
what the buffered reader provides, in the bytes that `TomlFile` and `TomlUtf8` show
to be those of the file.

### Daemon

The daemon has one thread. An iteration of the loop is `Poll`, which collects all
ready events in `pending` and reaps exited children, followed by one action per
callback, in any order, each atomic. Clients, children and signals act between
any two callbacks. `break_loop` takes effect when `pending` is empty
(`LoopExits`). Destroying a session also removes its pending events, as stopping
a libev watcher does.

A session is named after the client process whose connection it serves, so
`status[c]`, `board[c]`, `username[c]` and `child_watcher[c]` are the members of
that `Session`; `"none"` is no session. `owner` is `Board::owner`. `proc` are the
processes forked by the daemon; `"exited"` is a zombie. `close_session` is
`Session::close_session` and `daemon_close_session` is `Daemon::close_session`
with everything it does: leaving the queue, destruction, release of the board,
choice of the next session, `assign_board` and fork for it, `break_loop`.

Failures: `CallbackAborts` ends the daemon where `accept` or `fork` throws, where
a write to a client's terminal raises SIGPIPE, or where `on_setup_msg` goes on
with a session it has destroyed. `DaemonExit` says what is left. With systemd the
listening socket and its backlog survive and the service's processes are killed;
otherwise the children go on and the next daemon does not know them.

Abstracted: texts, times, the contents of commands. `stored_name` is what the 32
byte field of the message keeps of a name; it need not be injective or the
identity. A client sends one setup message, as `Client` does.

`DaemonHistory` adds two variables that record what the daemon forgets: the name a
client gave before it was cut (`given_name`), and whether a signal has ended the
loop (`by_signal`). They restrict no step.

`BoardPool` is what users may rely on, with three variables: who holds which board,
who waits, for whom. `DaemonPool` maps the daemon's state to it.

### Forwarding

Every step of `Daemon` is conjoined with what it does to the order of the list
`sessions`, to `ppid` and to the proxies of a session (`DaemonStep`). `ppid` is not
initialised, so a new session has any value. `on_socket_connecting` is the whole
callback; it may also throw (`SocketAborts`).

### Listeners

One process after another runs the constructor of `Daemon`; `unlink`, `bind` and
`listen` of every socket are steps of their own, and the process may end between
any two (`stop`). `Cut` is what fits of a name into `sun_path`.

### TcpProxy

Bytes are numbered, so order, loss and duplication show. `inq`, `buf`, `outq` and
`got` are, for each direction, the receive buffer of the proxy's socket, `buf_c2t`
or `buf_t2c`, the send buffer and what has arrived. `on_data` is one callback:
read, then send, with every error path. An endpoint may be open, shut (it has
ended its stream and still reads) or closed.

### WrProxy

Bytes are `0..Base-1`, a length has `HdrLen` bytes, `htobe` and `betoh` convert.
Clients' writes arrive in arbitrary pieces. `on_client_data` and `on_target_data`
are the callbacks. Of a connect command only the accepted text (`ConnectCmd`) and
other commands are distinguished; every failure of `handle_connect` is
`ParseFails`. `SizesFit` excludes frames longer than the buffer; they do not fit
into a UDP datagram either.

### Startup and Config

In `Startup` the command line is written in any order (`Write`); `exec` hands it to
argp, which gives `parse_opt` the options in their order and then the arguments.
There is an action for options, for arguments, for `ARGP_KEY_END` and for the two
ways `main` goes on. Values may be empty, as in `--name=`. `Config` is a pure function of the document, item by
item with every error path; the document grows entry by entry, so that every
subset of the entries is seen. A floating-point number is written as its double,
so that halves are possible; strings are sequences of pieces, of which the names
of format arguments are some.

### TOML

`TomlFile` is `parse_file` with an editor that changes the file meanwhile.
`TomlUtf8` is the decoder and the reader with its two slots, one byte per step.
`TomlReader` is the buffered reader, with the parser's moves over it: single
advances, the look at delimiters, and the scan of `parse_value`, which may go on
behind a date, go back to its end, and goes back to its beginning. The parser
itself (`TomlStrings`, `TomlValues`) is a set of functions from text and cursor to
value and cursor, with the scan and the traits by which `parse_value` chooses;
`TomlTree` is how headers and keys find or create tables, and `TomlDocument` reads
a document line by line. A document is a function from paths to nodes. Floating-
point numbers are the characters given to the conversion. Integers and buffers
have smaller widths (`Width`, `buffer_length`), so that the ends of the ranges are
reached. `TomlFormatter` yields bytes.

## Runs

TLC runs of one module in several instances, and of small components that do not
share state, are joined: a variable `kind`, chosen in the initial state, says
which of them a behaviour belongs to, and what a kind does not use is frozen.

| Run | Instance | Shows |
|---|---|---|
| `allocation` | a reserved board with close command, an open board, 3 pids, failures and restarts; with systemd 3 clients of two users, or without it 2 of 3 clients at a time with all kinds of requests and a name that is cut to that of the reservation | who owns which board, who waits and who is next, for whom a board is reserved, that a board is closed before it is used again; requests arrive in the order of the protocol; every child process has an owner that is woken when it ends, also beside orphans of earlier daemons; a stop after the last session loses only connections that asked for nothing yet; the daemon implements `BoardPool` |
| `live` | 2 clients, 1 board with close command, socket activation | sessions of vanished clients are closed; if users finish, a client that asks is served or disconnected |
| `forwarding` | 2 clients with parents of their own, 1 board, 1 socket, 2 proxies per session | a proxy reaches the board its own session owns, and only for the process that started its client; a connection is refused only because of an older session |
| `connections` | 3 daemons, 2 clients, 3 sockets, with and without systemd; TCP with buffers of 2 bytes and 7 bytes each way; WindRiver with a buffer of 4 bytes, 4 frames and 2 datagrams, or 3 frames in lock step | daemons can be restarted, sessions find the sockets for forwarding, who waits is accepted; integrity of streams and frames, no false end of file, progress |
| `input` | command lines of 4 options and arguments; 26 entries for configurations of up to 10 nodes; files of up to 6 bytes with 2 edits; bytes of all classes of the decoder, in three alphabets; a ring of 6 code points; strings of 4 units | what is started is what was asked for; configurations lose nothing; files, bytes, code points and strings arrive as they were written |
| `toml` | all integers of 5 and floats of 6 characters, dates at the ends of the ranges, documents 2 edits away from three seeds, documents of 4 lines, 3000 values | the parser accepts what the grammar derives, with its meaning; the tree means what its lines say; what is written out is read again |
| `close_finding`, `stop_finding`, `wr_crlf_finding`, `forwarding_finding`, `reservation_finding`, `ring_finding` | | disagreements between code and documentation, below |

Bounds. Two boards of different kinds and three clients give a holder, a waiter
that can use the freed board and one that cannot. Three pids allow a command on
each board and a close command left behind. When no pid is free a fork can only
fail, which is one of the cases of `CallbackAborts`. Without systemd `MaxBusy` limits
the clients that are there at a time, and a signal comes only while there is at
most one; with systemd a signal comes at any time. In the proxies the buffers are
small so that they fill up; `MaxBytes` and `MaxFrames` are large enough to fill a
buffer after a short write. Three daemons are one that leaves something behind, one
that fails half way and one that cleans up. A document of four lines can define a
table, leave it, come back to it and fill it by a dotted key. Texts of five or six
characters have a sign, a prefix, digits and underscores in every order; the
numbers that fill the buffers are reached, since `buffer_length` is two or three. The
text of `TomlReader` goes round its ring more than twice, and its scans may be as
long as those of the program are in relation to the ring. Bytes that begin
sequences of four are in alphabets of their own, with continuations of all
classes. `IndexWidth` lets line
and column wrap at once.

Runs of connections and texts do not check deadlock: a closed connection stays
closed, and a text ends. Symmetry (clients, pids) is used only in runs without
liveness properties.

Fairness. `LoopFairness`: libev runs as long as the process does, and systemd
starts the service for a waiting connection. `ClientFairness`: a client's
constructor goes on to `send_setup`, and its loop reads the end of file.
`KillFairness`: SIGKILL ends a process; close commands are assumed to end, as the
code has no timeout for them. `UsersFinish`, the premise of `ClientServed`, also
assumes that users finish and that `accept` does not fail every time: nobody else
gives a board back. `Listeners` assumes that system calls return and that a daemon
is restarted as long as there are processes. The proxies assume that the loop
runs, that `connect` ends and that endpoints read; nobody has to send or to close.

`Forwarded` (TCP) has an exception for data that a short write left in the buffer:
the code sends the rest only when more data arrives (the TODO at
`tcpproxy.cpp:109`). What `FramingKept` says of replies is limited in the same way
to the time before a write to the client falls short (the TODO at
`wrproxy.cpp:110`). `FrameReaches` is about a client that waits for each frame to
be forwarded.

## Findings

* `close_finding`: a client that leaves while its close command is running
  destroys the session; the next user gets the board while the command runs.
* `stop_finding`: a connection accepted in the iteration that broke the loop is
  dropped with the daemon.
* `wr_crlf_finding`: the line feed of a CR LF that arrives after the command was
  handled is taken for frame data.
* `forwarding_finding`: of two clients started by one process, the older one takes
  the connections of both; while it waits for a board, those of the other are refused.
* `reservation_finding`: `README.md:257` reserves a board for "the given user"; the
  daemon compares what the setup message has kept of the name, so that a user with a
  longer name that begins with that of the reservation gets the board.
  `ReservationRespected` says that these are the only others who do.
* `ring_finding`: a scan of `parse_value` may have 72 code points or, behind a date,
  a few more, and the ring gives back 71, against the assertion at `toml.hpp:8701`.
  `CursorFaithful` says that the parser works on the right code point again as soon
  as it is back within the ring.

What the models had to be written around, without a run of its own:

* A second frame that arrives in the same read stays in the buffer until more is
  read (`wrproxy.cpp:73`); hence the clients in lock step.
* A path that does not fit into `sun_path` is cut by `bind` but not by `unlink`
  (`unix_socket.cpp:95`); the theorems of `ListenersProofs` assume that names fit.
* The error paths of `Config` for entries that are no tables, and for ports, use a
  null pointer or an empty optional (`config.cpp:97,123,130`): the status
  `"undefined"`. A `reserved_for` of another type counts as absent (`config.cpp:74`).
* The exit status of `set-authorized-keys` is a wait status of which eight bits
  remain (`boardproxy.cpp:47`).
* `\u` escapes for code points of three bytes lose a bit (`toml.hpp:9451`): `\u4e2d`
  is read as U+462D. `Meant` in `StringTexts` says exactly which code points change.
* A prefix without digits, as in `a = 0x` with a line behind it, is taken for 0
  (`BarePrefix` in `TomlTexts`); at the end of the file it is refused.
* Leading zeroes after a prefix count as digits, so that `0x` with seventeen digits is
  refused whatever its value is (`NoRoom`).
* Points and exponents are stored in the buffer of `parse_float` without a check of
  its length (`toml.hpp:9922`); texts here are shorter than it.
* A date-time with a space and a year that begins with 0 is refused
  (`toml.hpp:10734`), although the comment above that line and the list at
  `toml.hpp:11004` have this form (`AncientWithSpace`).
* Data of zeros only is not trimmed (`toml.hpp:6766`), hence the condition in
  `DropsPadding`.
* The formatter does not escape a backslash in the keys of headers, and some
  strings with line breaks change: `Expressible` in `FormatTexts` says exactly which.

## Proofs

The assumptions are those of `Daemon` (`ConstantsAssumption`, `NoneAssumption`),
`Forwarding` and `Listeners`: types of the constants, `None` different from
everything, distinct names of sockets. The sets of clients, boards, users and
processes are arbitrary.

* `DaemonProofs` proves `Spec => []AllocInv`. `AllocInv` joins the type invariant,
  `BoardOwnership`, `QueueIsWaiters`, `NoIdleBoardForWaiter`, `HeldUnderName`
  (whoever owns a board may have it under the name the session goes by),
  `ConnectionOrder` and `WatcherMatchesStatus`. None of the middle four is
  inductive alone. That no board is idle needs that the session being destroyed
  frees at most one board (ownership), that the queue has no dangling entry, and
  that a message is read only in state `created` (`ConnectionOrder`), as
  `on_setup_msg` does not check it.
* `DaemonProcessProofs` proves `Spec => []ProcInv`, on top of `AllocInv`:
  `CommandHasOwner` and `OwnerIsWoken` with the facts they need (no two sessions
  watch one pid; a child event is pending only for a reaped child; processes
  without a watcher are orphans or close commands left behind).
* `DaemonHandoverProofs` proves the action properties `ClosedBeforeReuse` and
  `NoOvertaking` from `AllocInv`.
* `DaemonHistoryProofs` proves `HistorySpec => []HistInv`: `AllocInv`, that a session
  goes by what the message kept of the name its client gave, and that once the
  last session has ended the loop, without a signal, there are only sessions whose
  client was accepted in the same iteration and cannot be heard any more.
  `ReservationRespected` and `OnlyNewSessionsLost` follow.
* `DaemonPoolProofs` proves that `Daemon` implements `BoardPool`: the initial states
  correspond, and under `AllocInv` every callback, exit and abort is a step of the
  pool or leaves it unchanged. The central step is that `Daemon::close_session`,
  which searches all boards for each waiting session, finds exactly the board just
  given up, because before it no waiting session could have any.
* `ForwardingProofs` proves `FwdSpec => []FwdInv`, where `FwdInv` joins `AllocInv`,
  the types, that a session which has asked knows its parent, and the two
  invariants `ProxyReachesOwnBoard` and `PeerIsParent`; and from it the action
  property `RefusedOnlyBehindOlder`.
* `ListenersProofs` proves, if names fit into `sun_path`, an invariant that says for
  each step of the constructor which sockets are bound and listen; `Restartable`
  and `SessionsForwardable` follow.

Only model-checked: liveness (`DisconnectedClosed`, `ClientServed`,
`WaitingAccepted`, `Forwarded`, `FrameReaches`), since fairness is out of the
prover's reach; the properties of the proxies, of start-up
and configuration; and everything about texts, where functions are defined by
recursion over data.

## Not modelled

* Logging, version, the text of `print_status` and of diagnostics, and the source
  regions that diagnostics carry.
* A blocked write to a client's terminal, which stalls the loop, and the reuse of
  a pid within one iteration. Of the use after free in `on_setup_msg` only the end
  of the daemon and the orderly close are modelled.
* Two daemons at the same time in one directory.
* The shell pipeline of `set-authorized-keys`, which is one command with an exit
  status; settings of the systemd units other than socket activation.
* Of `toml.hpp`: the JSON formatter and `quote_dates_and_times`, the functions that
  change a document, iterators and comparison, hexadecimal floating-point numbers
  and Unicode keys of unreleased TOML versions (both off), the conversion of digits
  to a `double`, Windows. boardproxy uses none of them but the last conversion,
  and most of the rest is declarations, templates for other types and
  documentation, without behaviour to model.
