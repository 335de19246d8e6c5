------------------------------- MODULE Daemon -------------------------------
(***************************************************************************)
(* The boardproxy daemon (src/src/daemon.cpp, session.cpp, board.cpp)      *)
(* together with the processes it talks to: the clients that connect to    *)
(* its seqpacket socket (client.cpp) and the child processes it forks for  *)
(* the boards.                                                             *)
(*                                                                         *)
(* The daemon is one thread running a libev loop.  An iteration of the     *)
(* loop collects every ready event (Poll) and then runs the callbacks one  *)
(* after another; each callback is one atomic action here.  Clients, child *)
(* processes and signals act between any two callbacks.                    *)
(*                                                                         *)
(* A Session object is named after the client process whose connection it  *)
(* serves.  A client may connect again, as a new process, once its former  *)
(* connection is gone on both sides.                                       *)
(***************************************************************************)
EXTENDS Integers, Sequences, FiniteSets, SequencesExt

CONSTANTS
    Client,           \* client processes (and the sessions that serve them)
    User,             \* nonempty user names
    NumBoards,        \* the boards are 1..NumBoards, in the order of the list
    reserved_for,     \* reserved_for[b]: a user, or None when the key is empty
    close_command,    \* close_command[b]: TRUE iff the command is not empty
    username_cred,    \* account name of the client, None if it has no entry
    stored_name,      \* what the 32 byte field of the setup message keeps of a name
    Options,          \* the client command lines considered
    Pid,              \* process ids for the children (bounds the live ones)
    SocketActivated,  \* TRUE iff systemd passed the listening socket
    None              \* nullptr, an empty string, no process

Board == 1..NumBoards

SetupMsg == [cmd : {"connect", "list_sessions"}, name : User \cup {None}, no_wait : BOOLEAN]

ASSUME ConstantsAssumption ==
    /\ NumBoards \in Nat
    /\ reserved_for \in [Board -> User \cup {None}]
    /\ close_command \in [Board -> BOOLEAN]
    /\ username_cred \in [Client -> User \cup {None}]
    /\ stored_name \in [User -> User]
    /\ Options \subseteq SetupMsg
    /\ SocketActivated \in BOOLEAN

ASSUME NoneAssumption ==
    None \notin User /\ None \notin Client /\ None \notin Pid /\ None \notin Board
        /\ None \notin SetupMsg

VARIABLES
    \* Clients and their connections
    client,         \* "none": no process; "connected": before, "waiting": after send_setup
    msg,            \* the setup message sent and not yet received by the daemon
    backlog,        \* connections not yet accepted, oldest first
    \* The event loop
    daemon,         \* is there a daemon process?
    loop_done,      \* break_loop was called
    signalled,      \* SIGINT or SIGTERM arrived and was not seen by the loop
    pending,        \* events collected by the current iteration, not yet dispatched
    \* Objects on the daemon's heap
    status,         \* Session::status, "none" when there is no such session
    board,          \* Session::board
    username,       \* Session::username
    watching,       \* the sessions whose client->watcher is active
    child_watcher,  \* Session::child_watcher: watched pid and callback
    owner,          \* Board::owner
    wait_queue,     \* Daemon::wait_queue
    \* The operating system
    proc            \* processes forked by the daemon

clientVars == <<client, msg, backlog>>
loopVars   == <<daemon, loop_done, signalled, pending>>
heapVars   == <<status, board, username, watching, child_watcher, owner, wait_queue>>
vars       == <<clientVars, loopVars, heapVars, proc>>

-----------------------------------------------------------------------------
(* Events, processes and watchers                                          *)

AcceptEvent    == <<"accept", None>>      \* client_listener is readable
SignalEvent    == <<"signal", None>>      \* sigint_watcher or sigterm_watcher
ClientEvent(s) == <<"client", s>>         \* the client socket of s is readable
ChildEvent(s)  == <<"child", s>>          \* the child watched by s was reaped

Event == {AcceptEvent, SignalEvent} \cup ({"client", "child"} \X Client)

NoProc == [state |-> "free", kind |-> "none", board |-> None]

\* "orphaned": its daemon is gone; "exited": a zombie the loop has not reaped
Process ==
    [state : {"running", "killed", "orphaned", "exited"},
     kind : {"command", "close_command"}, board : Board] \cup {NoProc}

Live(p) == proc[p].state \in {"running", "killed", "orphaned"}

Inactive == [pid |-> None, cb |-> "none"]

Watcher == [pid : Pid, cb : {"on_process_exit", "on_close_command_exit"}] \cup {Inactive}

\* A child of this daemon must not get the pid a watcher still waits for
\* (a wrap-around of the pid space within one loop iteration is excluded).
FreePid(p) == proc[p] = NoProc /\ \A s \in Client : child_watcher[s].pid # p

Fork(p, kind, b) ==
    /\ FreePid(p)
    /\ proc' = [proc EXCEPT ![p] = [state |-> "running", kind |-> kind, board |-> b]]

TypeOK ==
    /\ client \in [Client -> {"none", "connected", "waiting"}]
    /\ msg \in [Client -> SetupMsg \cup {None}]
    /\ backlog \in Seq(Client)
    /\ daemon \in {"running", "stopped"}
    /\ loop_done \in BOOLEAN
    /\ signalled \in BOOLEAN
    /\ pending \subseteq Event
    /\ status \in [Client -> {"none", "created", "awaiting_board", "has_board", "closing_board"}]
    /\ board \in [Client -> Board \cup {None}]
    /\ username \in [Client -> User \cup {None}]
    /\ watching \subseteq Client
    /\ child_watcher \in [Client -> Watcher]
    /\ owner \in [Board -> Client \cup {None}]
    /\ wait_queue \in Seq(Client)
    /\ proc \in [Pid -> Process]

-----------------------------------------------------------------------------
(* Helpers of Daemon and Session                                           *)

get_username(s) == IF username[s] = None THEN username_cred[s] ELSE username[s]

\* A user may be given board b.
Usable(b, u) == reserved_for[b] = None \/ reserved_for[b] = u

\* Faulty variant: the second loop does not skip the reserved boards.
find_available_board_any(own, u) ==
    LET available == {b \in Board : own[b] = None}
    IN  IF available # {} THEN Min(available) ELSE None

\* Faulty variant: the end of the list instead of nullptr when there is none.
find_available_board_end(own, u) ==
    LET usable == {b \in Board : own[b] = None /\ Usable(b, u)}
    IN  IF usable # {} THEN Min(usable) ELSE NumBoards + 1

\* The first available board reserved for user u, otherwise the first available
\* board reserved for nobody; own is the owner of each board.
find_available_board(own, u) ==
    LET available == {b \in Board : own[b] = None}
        reserved  == {b \in available : reserved_for[b] # None /\ reserved_for[b] = u}
        others    == {b \in available : reserved_for[b] = None}
    IN  IF reserved # {} THEN Min(reserved)
        ELSE IF others # {} THEN Min(others)
        ELSE None

\* Faulty variant: the destructor keeps the board.
Release_leak(s) == owner

\* Owners after the destructor of session s has run board->release().
Release(s) == IF board[s] = None THEN owner ELSE [owner EXCEPT ![board[s]] = None]

\* Faulty variant: the pointer to the destroyed session stays in the queue.
QueueWithout_dangling(s) == wait_queue

\* The waiting sessions, in order, after wait_queue.remove(s).  A session is in
\* the list at most once (QueueIsWaiters), so removing one is removing all.
QueueWithout(s) ==
    IF s \in ToSet(wait_queue)
    THEN RemoveAt(wait_queue, CHOOSE i \in DOMAIN wait_queue : wait_queue[i] = s)
    ELSE wait_queue

\* Faulty variant: the queue is searched before the session is destroyed.
Servable_early(s) ==
    {i \in DOMAIN QueueWithout(s) :
        find_available_board(owner, get_username(QueueWithout(s)[i])) # None}

\* Positions in the queue of the sessions that can get a board once s is destroyed.
Servable(s) ==
    {i \in DOMAIN QueueWithout(s) :
        find_available_board(Release(s), get_username(QueueWithout(s)[i])) # None}

\* Faulty variant: the last waiting session is served.
NextServed_last(s) == Max(Servable(s))

\* The first of them, which is served.
NextServed(s) == Min(Servable(s))

\* Faulty variant: the queue is tested instead of the list of sessions.
LastSession_queue(s) == SocketActivated /\ QueueWithout(s) = <<>>

\* An instance started by systemd has nothing left to do without s.
LastSession(s) == SocketActivated /\ \A c \in Client \ {s} : status[c] = "none"

\* Session s is destroyed, with its watchers and the events pending for them.
DestroySession(s) ==
    /\ watching' = watching \ {s}
    /\ username' = [username EXCEPT ![s] = None]
    /\ pending' = {e \in pending : e[2] # s}

\* Daemon::close_session: s leaves the queue and is destroyed, the first waiting
\* session that can get a board gets it and its process is started; an instance
\* started by systemd leaves the loop after the last session.
daemon_close_session(s) ==
    /\ DestroySession(s)
    /\ \/ /\ Servable(s) = {}
          /\ wait_queue' = QueueWithout(s)
          /\ owner' = Release(s)
          /\ status' = [status EXCEPT ![s] = "none"]
          /\ board' = [board EXCEPT ![s] = None]
          /\ child_watcher' = [child_watcher EXCEPT ![s] = Inactive]
          /\ UNCHANGED proc
       \/ /\ Servable(s) # {}
          /\ LET i == NextServed(s)
                 w == QueueWithout(s)[i]
                 b == find_available_board(Release(s), get_username(w))
             IN  /\ wait_queue' = RemoveAt(QueueWithout(s), i)
                 /\ owner' = [Release(s) EXCEPT ![b] = w]
                 /\ status' = [status EXCEPT ![s] = "none", ![w] = "has_board"]
                 /\ board' = [board EXCEPT ![s] = None, ![w] = b]
                 /\ \E p \in Pid :
                       /\ Fork(p, "command", b)
                       /\ child_watcher' = [child_watcher EXCEPT
                             ![s] = Inactive,
                             ![w] = [pid |-> p, cb |-> "on_process_exit"]]
    /\ loop_done' = (loop_done \/ LastSession(s))

\* Faulty variant: the new child is not watched.
start_close_command_unwatched(s) ==
    \E p \in Pid :
        /\ Fork(p, "close_command", board[s])
        /\ status' = [status EXCEPT ![s] = "closing_board"]
        /\ UNCHANGED child_watcher

\* Faulty variant: the callback of the watcher is not replaced.
start_close_command_callback(s) ==
    \E p \in Pid :
        /\ Fork(p, "close_command", board[s])
        /\ status' = [status EXCEPT ![s] = "closing_board"]
        /\ child_watcher' = [child_watcher EXCEPT
                                ![s] = [pid |-> p, cb |-> "on_process_exit"]]

\* Session::start_close_command, after the status has become closing_board.
start_close_command(s) ==
    \E p \in Pid :
        /\ Fork(p, "close_command", board[s])
        /\ status' = [status EXCEPT ![s] = "closing_board"]
        /\ child_watcher' = [child_watcher EXCEPT
                                ![s] = [pid |-> p, cb |-> "on_close_command_exit"]]

\* Faulty variant of the kill: the child goes on.
Kill_nothing(p) == UNCHANGED proc

\* ::kill(child_watcher.pid, SIGKILL); a child that has exited is left alone.
Kill(p) ==
    proc' = [proc EXCEPT ![p].state = IF @ = "running" THEN "killed" ELSE @]

\* Faulty variant: the close command is started, or the session destroyed,
\* without waiting for the end of the command.
close_session_at_once(s, e, active, readers) ==
    \/ /\ status[s] = "has_board" /\ close_command[board[s]]
       /\ start_close_command(s)
       /\ watching' = readers
       /\ pending' = pending \ {e}
       /\ UNCHANGED <<board, username, owner, wait_queue, loop_done>>
    \/ /\ ~(status[s] = "has_board" /\ close_command[board[s]])
       /\ daemon_close_session(s)

\* Faulty variant: the close command is forgotten.
close_session_unclean(s, e, active, readers) ==
    \/ /\ status[s] = "has_board" /\ active
       /\ Kill(child_watcher[s].pid)
       /\ watching' = readers
       /\ pending' = pending \ {e}
       /\ UNCHANGED <<status, board, username, child_watcher, owner, wait_queue, loop_done>>
    \/ /\ ~(status[s] = "has_board" /\ active)
       /\ daemon_close_session(s)

\* Session::close_session, the board closing state machine, called by the
\* callback of event e; active is child_watcher.is_active() and readers are the
\* sessions whose client->watcher is active from now on.
close_session(s, e, active, readers) ==
    \/ /\ status[s] = "has_board" /\ active
       /\ Kill(child_watcher[s].pid)
       /\ watching' = readers
       /\ pending' = pending \ {e}
       /\ UNCHANGED <<status, board, username, child_watcher, owner, wait_queue, loop_done>>
    \/ /\ status[s] = "has_board" /\ ~active /\ close_command[board[s]]
       /\ start_close_command(s)
       /\ watching' = readers
       /\ pending' = pending \ {e}
       /\ UNCHANGED <<board, username, owner, wait_queue, loop_done>>
    \/ /\ ~(status[s] = "has_board" /\ (active \/ close_command[board[s]]))
       /\ daemon_close_session(s)

-----------------------------------------------------------------------------
(* The setup message                                                       *)

\* Session::assign_board for the session that asked: it acquires board b and
\* its command is started on the client's stdin, stdout and stderr.
assign_board(s, b) ==
    /\ status' = [status EXCEPT ![s] = "has_board"]
    /\ board' = [board EXCEPT ![s] = b]
    /\ owner' = [owner EXCEPT ![b] = s]
    /\ \E p \in Pid :
          /\ Fork(p, "command", b)
          /\ child_watcher' = [child_watcher EXCEPT ![s] = [pid |-> p, cb |-> "on_process_exit"]]
    /\ UNCHANGED wait_queue

\* The user on whose behalf the message m of client s asks for a board.
asking_user(s, m) == IF m.name = None THEN username_cred[s] ELSE stored_name[m.name]

\* Session::on_setup_msg for the message m.  The third disjunct is a client
\* that does not want to wait, the fourth one a request for the list of
\* sessions, the last one a message that arrived without the client's
\* descriptors because the daemon has none left: in these three the session is
\* closed before the callback returns.
on_setup_msg(s, m) ==
    LET b == find_available_board(owner, asking_user(s, m))
        accepted ==
            /\ username' = [username EXCEPT
                               ![s] = IF m.name = None THEN None ELSE stored_name[m.name]]
            /\ pending' = pending \ {ClientEvent(s)}
            /\ UNCHANGED <<watching, loop_done>>
    IN  \/ /\ m.cmd = "connect" /\ b # None
           /\ assign_board(s, b)
           /\ accepted
        \/ /\ m.cmd = "connect" /\ b = None /\ ~m.no_wait
           /\ status' = [status EXCEPT ![s] = "awaiting_board"]
           /\ wait_queue' = Append(wait_queue, s)
           /\ accepted
           /\ UNCHANGED <<board, child_watcher, owner, proc>>
        \/ /\ m.cmd = "connect" /\ b = None /\ m.no_wait
           /\ daemon_close_session(s)
        \/ /\ m.cmd = "list_sessions"
           /\ daemon_close_session(s)
        \/ daemon_close_session(s)

-----------------------------------------------------------------------------
(* Callbacks of the event loop                                             *)

Dispatching(e) == daemon = "running" /\ e \in pending

\* Daemon::on_client_connecting: accept the oldest connection.
on_client_connecting ==
    /\ Dispatching(AcceptEvent)
    /\ LET s == Head(backlog)
       IN  /\ status' = [status EXCEPT ![s] = "created"]
           /\ watching' = watching \cup {s}
    /\ backlog' = Tail(backlog)
    /\ pending' = pending \ {AcceptEvent}
    /\ UNCHANGED <<client, msg, daemon, loop_done, signalled, proc>>
    /\ UNCHANGED <<board, username, child_watcher, owner, wait_queue>>

\* Session::on_data_from_client: a setup message, or the end of the connection
\* (a receive error is handled like it).  The program's own client sends
\* neither short packets nor other messages; those would be ignored.
on_data_from_client(s) ==
    /\ Dispatching(ClientEvent(s))
    /\ \/ /\ msg[s] # None
          /\ on_setup_msg(s, msg[s])
          /\ msg' = [msg EXCEPT ![s] = None]
       \/ /\ msg[s] = None
          /\ close_session(s, ClientEvent(s), child_watcher[s] # Inactive, watching \ {s})
          /\ UNCHANGED msg
    /\ UNCHANGED <<client, backlog, daemon, signalled>>

\* The child of s was reaped: stop the watcher and go on closing the session.
child_exit(s, cb) ==
    /\ Dispatching(ChildEvent(s))
    /\ child_watcher[s].cb = cb
    /\ close_session(s, ChildEvent(s), FALSE, watching)
    /\ UNCHANGED <<clientVars, daemon, signalled>>

on_process_exit(s) == child_exit(s, "on_process_exit")

on_close_command_exit(s) == child_exit(s, "on_close_command_exit")

\* Daemon::on_signal
on_signal ==
    /\ Dispatching(SignalEvent)
    /\ loop_done' = TRUE
    /\ pending' = pending \ {SignalEvent}
    /\ UNCHANGED <<clientVars, daemon, signalled, heapVars, proc>>

-----------------------------------------------------------------------------
(* The loop and the life of the daemon process                             *)

Reaped == {p \in Pid : proc[p].state = "exited"}

Ready ==
    {e \in Event :
        \/ e = AcceptEvent /\ backlog # <<>>
        \/ e = SignalEvent /\ signalled
        \/ \E s \in watching : e = ClientEvent(s) /\ (msg[s] # None \/ client[s] = "none")
        \/ \E s \in Client : e = ChildEvent(s) /\ child_watcher[s].pid \in Reaped}

\* libev: wait until something is ready, reap the children that exited and
\* collect all ready events; nothing is collected once break_loop was called.
Poll ==
    /\ daemon = "running" /\ pending = {} /\ ~loop_done
    /\ Ready # {} \/ Reaped # {}
    /\ pending' = Ready
    /\ signalled' = FALSE
    /\ proc' = [p \in Pid |-> IF p \in Reaped THEN NoProc ELSE proc[p]]
    /\ UNCHANGED <<clientVars, daemon, loop_done, heapVars>>

\* What is left when the daemon process is gone.  Connections, accepted or
\* not, are closed; only a socket held by systemd keeps those not accepted.
\* Without systemd the children live on, under systemd they are killed with
\* the service (boardproxy@.service keeps the default KillMode).
DaemonExit ==
    /\ daemon' = "stopped" /\ loop_done' = FALSE /\ signalled' = FALSE /\ pending' = {}
    /\ status' = [c \in Client |-> "none"]
    /\ board' = [c \in Client |-> None]
    /\ username' = [c \in Client |-> None]
    /\ watching' = {}
    /\ child_watcher' = [c \in Client |-> Inactive]
    /\ owner' = [b \in Board |-> None]
    /\ wait_queue' = <<>>
    /\ backlog' = IF SocketActivated THEN backlog ELSE <<>>
    /\ msg' = [c \in Client |->
                 IF SocketActivated /\ c \in ToSet(backlog) THEN msg[c] ELSE None]
    /\ proc' = [p \in Pid |->
                  IF ~Live(p) THEN NoProc
                  ELSE [proc[p] EXCEPT !.state =
                           IF SocketActivated THEN "killed" ELSE "orphaned"]]
    /\ UNCHANGED client

\* loop.run() returns when the iteration in which the loop was broken is over.
LoopExits ==
    /\ daemon = "running" /\ loop_done /\ pending = {}
    /\ DaemonExit

\* The callback of event e may end the process: accept() or fork() fails and
\* the exception reaches main(), a message to a client's stderr or stdout that
\* nobody reads any more raises SIGPIPE, or on_setup_msg goes on with the session
\* it has just closed because the descriptors were missing.
MayAbort(e) ==
    \/ e = AcceptEvent
    \/ \E s \in Client :
         \/ e = ClientEvent(s) /\ msg[s] # None
         \/ e = ChildEvent(s) /\ status[s] = "has_board" /\ close_command[board[s]]
         \/ /\ e \in {ClientEvent(s), ChildEvent(s)}
            /\ status[s] # "has_board" \/ (e = ChildEvent(s) /\ ~close_command[board[s]])
            /\ Servable(s) # {}

CallbackAborts(e) ==
    /\ Dispatching(e) /\ MayAbort(e)
    /\ DaemonExit

\* Daemon::Daemon: the sockets are bound and watched.  systemd starts the
\* service when there is a connection, and after the previous instance has gone.
DaemonStart ==
    /\ daemon = "stopped"
    /\ SocketActivated => (backlog # <<>> /\ \A p \in Pid : proc[p] = NoProc)
    /\ daemon' = "running"
    /\ UNCHANGED <<clientVars, loop_done, signalled, pending, heapVars, proc>>

-----------------------------------------------------------------------------
(* The environment: clients, child processes and signals                   *)

\* A client process starts and connects.
Connect(c) ==
    /\ client[c] = "none" /\ status[c] = "none" /\ c \notin ToSet(backlog)
    /\ daemon = "running" \/ SocketActivated
    /\ client' = [client EXCEPT ![c] = "connected"]
    /\ backlog' = Append(backlog, c)
    /\ UNCHANGED <<msg, loopVars, heapVars, proc>>

\* The daemon's end of the connection is closed.
Disconnected(c) == status[c] = "none" /\ c \notin ToSet(backlog)

\* Faulty variant: the client sends its message again.
send_setup_again(c, o) ==
    /\ client[c] # "none" /\ ~Disconnected(c) /\ msg[c] = None
    /\ client' = [client EXCEPT ![c] = "waiting"]
    /\ msg' = [msg EXCEPT ![c] = o]
    /\ UNCHANGED <<backlog, loopVars, heapVars, proc>>

\* Client::send_setup with command line o.
send_setup(c, o) ==
    /\ client[c] = "connected" /\ ~Disconnected(c)
    /\ client' = [client EXCEPT ![c] = "waiting"]
    /\ msg' = [msg EXCEPT ![c] = o]
    /\ UNCHANGED <<backlog, loopVars, heapVars, proc>>

\* Client::on_data_from_daemon reads the end of file and the client ends; one
\* that has not sent its message yet ends in send_setup.
on_data_from_daemon(c) ==
    /\ client[c] # "none" /\ Disconnected(c)
    /\ client' = [client EXCEPT ![c] = "none"]
    /\ UNCHANGED <<msg, backlog, loopVars, heapVars, proc>>

\* The user interrupts the client or the SSH connection breaks.
ClientDies(c) ==
    /\ client[c] # "none" /\ ~Disconnected(c)
    /\ client' = [client EXCEPT ![c] = "none"]
    /\ UNCHANGED <<msg, backlog, loopVars, heapVars, proc>>

\* A child ends.  It stays a zombie until the loop reaps it; one that is no
\* longer a child of the daemon is reaped by init.
ProcessExits(p) ==
    /\ Live(p)
    /\ proc' = [proc EXCEPT ![p] =
                  IF daemon = "running" /\ @.state # "orphaned"
                  THEN [@ EXCEPT !.state = "exited"] ELSE NoProc]
    /\ UNCHANGED <<clientVars, loopVars, heapVars>>

Signal ==
    /\ daemon = "running" /\ ~signalled /\ ~loop_done
    /\ signalled' = TRUE
    /\ UNCHANGED <<clientVars, daemon, loop_done, pending, heapVars, proc>>

-----------------------------------------------------------------------------
Init ==
    /\ client = [c \in Client |-> "none"]
    /\ msg = [c \in Client |-> None]
    /\ backlog = <<>>
    /\ daemon = "stopped" /\ loop_done = FALSE /\ signalled = FALSE /\ pending = {}
    /\ status = [c \in Client |-> "none"]
    /\ board = [c \in Client |-> None]
    /\ username = [c \in Client |-> None]
    /\ watching = {}
    /\ child_watcher = [c \in Client |-> Inactive]
    /\ owner = [b \in Board |-> None]
    /\ wait_queue = <<>>
    /\ proc = [p \in Pid |-> NoProc]

\* Every callback of the loop.
Callback ==
    \/ on_client_connecting
    \/ \E s \in Client :
         on_data_from_client(s) \/ on_process_exit(s) \/ on_close_command_exit(s)
    \/ on_signal

Environment ==
    \/ \E c \in Client :
         \/ Connect(c)
         \/ \E o \in Options : send_setup(c, o)
         \/ on_data_from_daemon(c)
         \/ ClientDies(c)
    \/ \E p \in Pid : ProcessExits(p)
    \/ Signal

Next ==
    \/ Callback
    \/ Poll
    \/ LoopExits
    \/ \E e \in pending : CallbackAborts(e)
    \/ DaemonStart
    \/ Environment

Spec == Init /\ [][Next]_vars

\* Runs in which nobody sends a signal to the daemon.
QuietSpec == Init /\ [][Next /\ ~signalled']_vars

-----------------------------------------------------------------------------
(* Fairness.  The loop runs as long as the process does, systemd starts the *)
(* service when a client waits, a client sends its message and ends when it *)
(* is disconnected; SIGKILL ends a command and close commands terminate.    *)

Dispatch == Callback \/ \E e \in pending : CallbackAborts(e)

LoopFairness ==
    /\ WF_vars(Poll) /\ WF_vars(Dispatch) /\ WF_vars(LoopExits)
    /\ WF_vars(SocketActivated /\ DaemonStart)

ClientFairness ==
    \A c \in Client :
        WF_vars(\E o \in Options : send_setup(c, o)) /\ WF_vars(on_data_from_daemon(c))

KillFairness ==
    \A p \in Pid :
        WF_vars(ProcessExits(p) /\ (proc[p].state = "killed" \/ proc[p].kind = "close_command"))

LiveSpec == Spec /\ LoopFairness /\ ClientFairness /\ KillFairness

\* Every user finishes eventually and accept() does not fail always.
UsersFinish ==
    SF_vars(on_client_connecting) /\ \A p \in Pid : WF_vars(ProcessExits(p))

-----------------------------------------------------------------------------
(* Safety                                                                  *)

\* Board::owner and Session::board, the two ends of an assignment, always
\* agree, through assignment, closing, hand-over and destruction, and a session
\* has a board exactly in the states has_board and closing_board.
BoardOwnership ==
    /\ \A s \in Client, b \in Board : owner[b] = s <=> board[s] = b
    /\ \A s \in Client : board[s] # None <=> status[s] \in {"has_board", "closing_board"}

\* Daemon::wait_queue holds raw pointers: they are exactly the sessions waiting
\* for a board, each once, and never a session that was destroyed.
QueueIsWaiters ==
    /\ IsInjective(wait_queue)
    /\ ToSet(wait_queue) = {s \in Client : status[s] = "awaiting_board"}

\* No waiting session could be using an idle board: Daemon::close_session looks
\* for one new owner only, and a session that leaves may free only one board.
NoIdleBoardForWaiter ==
    \A s \in Client, b \in Board :
        status[s] = "awaiting_board" /\ owner[b] = None => ~Usable(b, get_username(s))

\* A connection is accepted once and asks once: a message is still to be read
\* only before the session has left the state created (on_setup_msg does not
\* look at the status), and no event is delivered to a destroyed session.
ConnectionOrder ==
    /\ IsInjective(backlog)
    /\ AcceptEvent \in pending => backlog # <<>>
    /\ \A c \in Client :
          /\ c \in ToSet(backlog) => status[c] = "none"
          /\ client[c] = "connected" => status[c] \in {"none", "created"} /\ msg[c] = None
          /\ msg[c] # None => status[c] = "created" \/ c \in ToSet(backlog)
          /\ c \in watching \/ ClientEvent(c) \in pending => status[c] # "none"

\* The callback of a session's child_watcher fits the session's state, so that
\* the end of a child moves the board closing state machine one step.
WatcherMatchesStatus ==
    \A s \in Client :
        /\ child_watcher[s].cb = "on_process_exit" <=> status[s] = "has_board"
        /\ child_watcher[s].cb = "on_close_command_exit" <=> status[s] = "closing_board"

\* A command of this daemon that is not reaped yet runs on a board whose owner
\* still watches it: a board is not handed over, and no session is destroyed,
\* before the previous user's command has ended.
CommandHasOwner ==
    \A p \in Pid :
        daemon = "running" /\ proc[p].kind = "command" /\ proc[p].state # "orphaned" =>
            \E s \in Client :
                /\ owner[proc[p].board] = s /\ status[s] = "has_board"
                /\ child_watcher[s] = [pid |-> p, cb |-> "on_process_exit"]

\* A session that holds a board is woken up again: the child it watches is alive
\* or not reaped yet, or the event that it was reaped is about to be dispatched.
OwnerIsWoken ==
    \A s \in Client :
        board[s] # None =>
            /\ child_watcher[s] # Inactive
            /\ \/ ChildEvent(s) \in pending
               \/ /\ proc[child_watcher[s].pid].board = board[s]
                  /\ proc[child_watcher[s].pid].state \in {"running", "killed", "exited"}

\* The queue is first come, first served: a session that gets board b leaves
\* behind no session that waited before it and could have used b.
NoOvertaking ==
    [][\A s, t \in Client :
          /\ board'[t] # None /\ board'[t] # board[t]
          /\ status[s] = "awaiting_board" /\ status'[s] = "awaiting_board"
          /\ Usable(board'[t], get_username(s))
          => \E i, j \in DOMAIN wait_queue :
                i < j /\ wait_queue[i] = t /\ wait_queue[j] = s]_vars

\* While the daemon runs, the owner of a board that has a close command gives it
\* up only after that command has been started.
ClosedBeforeReuse ==
    [][\A b \in Board :
          /\ daemon' = "running" /\ close_command[b]
          /\ owner[b] # None /\ owner'[b] # owner[b]
          => status[owner[b]] = "closing_board"]_vars

\* "execute when closing a session with this board": the close command has
\* finished when the board gets its next user.  session.cpp does not ensure it:
\* the end of the client's connection in closing_board destroys the session.
CloseCommandFinished ==
    \A s \in Client, p \in Pid :
        ~ /\ status[s] = "has_board"
          /\ proc[p] = [state |-> "running", kind |-> "close_command", board |-> board[s]]

\* "When the last user disconnects, boardproxy is stopped": a daemon started by
\* systemd that leaves the loop without a signal or an exception has no session.
StopsWithoutSessions ==
    SocketActivated /\ loop_done /\ pending = {} => \A s \in Client : status[s] = "none"

-----------------------------------------------------------------------------
(* Liveness                                                                *)

\* A session whose client has gone is closed eventually, whatever it was doing:
\* its command is killed, its close command run and the session destroyed.
DisconnectedClosed ==
    \A c \in Client : client[c] = "none" /\ status[c] # "none" ~> status[c] = "none"

\* If users finish, every client that asks is connected to a board or its
\* connection ends (there is a board open to everybody).
ClientServed ==
    UsersFinish =>
        \A c \in Client :
            client[c] = "waiting" /\ (\E b \in Board : reserved_for[b] = None)
                ~> board[c] # None \/ client[c] = "none"

=============================================================================
