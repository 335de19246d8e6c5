----------------------------- MODULE Forwarding -----------------------------
(***************************************************************************)
(* Forwarded connections (daemon.cpp, session.cpp, socket_proxy.cpp)       *)
(* composed with the daemon: every step of Daemon is a step here, and      *)
(* carries along the list of sessions, the parent pid each session keeps   *)
(* and the proxies it owns.                                                *)
(*                                                                         *)
(* A user's sshd starts the client and also connects to the sockets of the *)
(* [sockets] table, so the daemon finds the session of a connection by     *)
(* comparing the pid of the peer with the parent pid in the setup message. *)
(* What a proxy does with its bytes is the subject of TcpProxy and WrProxy.*)
(*                                                                         *)
(* A listener becomes readable like any other watcher.  A connection made  *)
(* before an iteration and one made during it cannot be told apart by what *)
(* the callbacks before on_socket_connecting do, so the callback is enabled*)
(* as soon as there is a connection.                                       *)
(***************************************************************************)
EXTENDS Daemon

CONSTANTS
    Ppid,           \* pids of the processes that start clients (sshd, a shell)
    parent,         \* parent[c]: the process that started client c
    Socket,         \* names of the proxy sockets
    MaxConnecting,  \* bound on the connections waiting at one socket
    MaxProxies      \* bound on the proxies of one session

ASSUME ForwardingAssumption == parent \in [Client -> Ppid]

VARIABLES
    sessions,    \* Daemon::sessions, oldest first
    ppid,        \* Session::ppid
    connecting,  \* connecting[k]: pids of the peers not yet accepted by socket k
    proxies      \* Session::proxies: socket and board of each, and who connected

fwdVars == <<sessions, ppid, connecting, proxies>>
allVars == <<vars, fwdVars>>

Proxy == [sock : Socket, board : Board, peer : Ppid]

FwdTypeOK ==
    /\ sessions \in Seq(Client) /\ IsInjective(sessions)
    /\ ToSet(sessions) = {s \in Client : status[s] # "none"}
    /\ ppid \in [Client -> Ppid \cup {None}]
    /\ connecting \in [Socket -> Seq(Ppid)]
    /\ proxies \in [Client -> Seq(Proxy)]

-----------------------------------------------------------------------------
(* The members of Session and Daemon that a step of the daemon changes     *)

Created(s)   == status[s] = "none" /\ status'[s] # "none"
Asked(s)     == status[s] = "created" /\ status'[s] \in {"awaiting_board", "has_board"}
Destroyed(s) == status'[s] = "none"

\* Session::ppid is not initialised by the constructor, so it holds whatever was
\* in that memory, until on_setup_msg stores the parent of the client.
KeepPpid ==
    /\ ppid' \in [Client -> Ppid \cup {None}]
    /\ \A s \in Client :
          /\ Asked(s) => ppid'[s] = parent[s]
          /\ Destroyed(s) => ppid'[s] = None
          /\ ~Asked(s) /\ ~Created(s) /\ ~Destroyed(s) => ppid'[s] = ppid[s]

\* sessions.emplace_back, sessions.remove_if, the end of the daemon, or neither.
KeepSessions ==
    \/ \E s \in Client : Created(s) /\ sessions' = Append(sessions, s)
    \/ /\ daemon' = "running"
       /\ \E i \in DOMAIN sessions :
             Destroyed(sessions[i]) /\ sessions' = RemoveAt(sessions, i)
    \/ daemon' = "stopped" /\ sessions' = <<>>
    \/ /\ daemon' = "running" /\ UNCHANGED sessions
       /\ \A s \in Client : Destroyed(s) <=> status[s] = "none"

\* Faulty variant: a proxy outlives the session, serving its peer as before.
KeepProxies_leak == UNCHANGED proxies

\* The proxies are destroyed with their session.
KeepProxies == proxies' = [s \in Client |-> IF Destroyed(s) THEN <<>> ELSE proxies[s]]

\* The proxy sockets are closed with the daemon; systemd does not keep them.
DaemonStep ==
    /\ Next
    /\ KeepPpid /\ KeepSessions /\ KeepProxies
    /\ connecting' = IF daemon' = "running" THEN connecting ELSE [k \in Socket |-> <<>>]

-----------------------------------------------------------------------------
(* Forwarded connections                                                   *)

\* A process connects to socket k: ssh forwards a connection.
ConnectSocket(k, q) ==
    /\ daemon = "running" /\ Len(connecting[k]) < MaxConnecting
    /\ connecting' = [connecting EXCEPT ![k] = Append(@, q)]
    /\ UNCHANGED <<vars, sessions, ppid, proxies>>

\* Faulty variant: only the first session is looked at.
find_session_by_ppid_front(q) ==
    IF sessions # <<>> /\ ppid[Head(sessions)] = q THEN Head(sessions) ELSE None

\* Daemon::find_session_by_ppid: the first match, nullptr if there is none.
find_session_by_ppid(q) ==
    LET matches == {i \in DOMAIN sessions : ppid[sessions[i]] = q}
    IN  IF matches = {} THEN None ELSE sessions[Min(matches)]

\* Faulty variant: a session that does not have a board any more is accepted.
new_socket_connection_always(s, k, q) ==
    proxies' = [proxies EXCEPT ![s] = Append(@, [sock |-> k, board |-> board[s], peer |-> q])]

\* Session::new_socket_connection: without a board the connection is closed.
new_socket_connection(s, k, q) ==
    IF status[s] # "has_board" THEN UNCHANGED proxies
    ELSE proxies' = [proxies EXCEPT ![s] = Append(@, [sock |-> k, board |-> board[s], peer |-> q])]

\* Daemon::on_socket_connecting
on_socket_connecting(k) ==
    /\ daemon = "running" /\ connecting[k] # <<>>
    /\ LET q == Head(connecting[k])
           s == find_session_by_ppid(q)
       IN  IF s = None THEN UNCHANGED proxies
           ELSE Len(proxies[s]) < MaxProxies /\ new_socket_connection(s, k, q)
    /\ connecting' = [connecting EXCEPT ![k] = Tail(@)]
    /\ UNCHANGED <<vars, sessions, ppid>>

\* accept() fails, or the constructor of the proxy throws (no descriptor, no
\* route to the board): the exception leaves the loop and ends the daemon.
SocketAborts(k) ==
    /\ daemon = "running" /\ connecting[k] # <<>>
    /\ DaemonExit
    /\ KeepPpid /\ KeepSessions /\ KeepProxies
    /\ connecting' = [l \in Socket |-> <<>>]

\* SocketProxy::close: one end of the connection is closed, or fails.
close(s, i) ==
    /\ i \in DOMAIN proxies[s]
    /\ proxies' = [proxies EXCEPT ![s] = RemoveAt(@, i)]
    /\ UNCHANGED <<vars, sessions, ppid, connecting>>

FwdInit ==
    /\ Init
    /\ sessions = <<>>
    /\ ppid = [c \in Client |-> None]
    /\ connecting = [k \in Socket |-> <<>>]
    /\ proxies = [c \in Client |-> <<>>]

FwdNext ==
    \/ DaemonStep
    \/ \E k \in Socket :
         \/ \E q \in Ppid : ConnectSocket(k, q)
         \/ on_socket_connecting(k)
         \/ SocketAborts(k)
    \/ \E s \in Client : \E i \in DOMAIN proxies[s] : close(s, i)

FwdSpec == FwdInit /\ [][FwdNext]_allVars

-----------------------------------------------------------------------------
(* Properties                                                              *)

\* A proxy never outlives its user's right to the board: the board it forwards
\* to is the one its session owns, through closing, hand-over and restart.
ProxyReachesOwnBoard ==
    \A s \in Client : \A i \in DOMAIN proxies[s] :
        board[s] = proxies[s][i].board /\ owner[proxies[s][i].board] = s

\* A connection is never forwarded to the board of somebody else's session: the
\* peer is the process that started the session's client.  Sessions whose ppid
\* is still whatever was in memory may match, but have no board.
PeerIsParent ==
    \A s \in Client : \A i \in DOMAIN proxies[s] : proxies[s][i].peer = parent[s]

\* Accepting the oldest connection of socket k leads to no new proxy although
\* session t, started by the peer, has a board.
Refused(k, t) ==
    /\ on_socket_connecting(k) /\ UNCHANGED proxies
    /\ status[t] = "has_board" /\ parent[t] = Head(connecting[k])

\* Only an older session can be in the way: one of the same parent, or one that
\* has not asked yet and whose uninitialised ppid happens to match.
RefusedOnlyBehindOlder ==
    [][\A k \in Socket, t \in Client :
          Refused(k, t) =>
              \E i, j \in DOMAIN sessions :
                 /\ i < j /\ sessions[j] = t
                 /\ status[sessions[i]] = "created" \/ parent[sessions[i]] = parent[t]]_allVars

\* "boardproxy ensures that the traffic is forwarded to the right board": once
\* all clients have asked, so that every ppid is known, no connection of a process
\* whose client has a board is turned down.
NeverRefused ==
    [][\A k \in Socket, t \in Client :
          Refused(k, t) => \E s \in Client : status[s] = "created"]_allVars
=============================================================================
