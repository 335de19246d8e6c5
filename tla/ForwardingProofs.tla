-------------------------- MODULE ForwardingProofs --------------------------
(* Proofs about forwarded connections.                                     *)
EXTENDS DaemonHandoverProofs, Forwarding

-----------------------------------------------------------------------------
(* The life of a session, as the steps of Daemon make it                   *)

\* Session s is destroyed; another one may be served.
Destroys(s) ==
    /\ status[s] # "none" /\ status'[s] = "none"
    /\ \A t \in Client \ {s} :
          \/ status'[t] = status[t] /\ board'[t] = board[t]
          \/ status[t] = "awaiting_board" /\ status'[t] = "has_board"

\* Session s is created, asks, or starts its close command.
Advances(s) ==
    \/ /\ status[s] = "none" /\ status' = [status EXCEPT ![s] = "created"]
       /\ UNCHANGED board
    \/ /\ status[s] = "created"
       /\ \E x \in {"awaiting_board", "has_board"} : status' = [status EXCEPT ![s] = x]
       /\ \A t \in Client \ {s} : board'[t] = board[t]
    \/ /\ status[s] = "has_board" /\ status' = [status EXCEPT ![s] = "closing_board"]
       /\ UNCHANGED board

LEMMA CloseDestroys ==
    ASSUME AllocInv, NEW s \in Client, status[s] # "none", daemon_close_session(s)
    PROVE  Destroys(s)
<1> DEFINE w == QueueWithout(s)[NextServed(s)]
           d == find_available_board(Release(s), get_username(w))
<1>1. CASE Servable(s) = {}
  <2>1. status' = [status EXCEPT ![s] = "none"] /\ board' = [board EXCEPT ![s] = None]
    BY <1>1 DEF daemon_close_session
  <2> QED
    BY <2>1 DEF Destroys, AllocInv, TypeOK
<1>2. CASE Servable(s) # {}
  <2>1. w \in Client \ {s} /\ status[w] = "awaiting_board"
    BY <1>2, ServedSession
  <2>2. /\ status' = [status EXCEPT ![s] = "none", ![w] = "has_board"]
        /\ board' = [board EXCEPT ![s] = None, ![w] = d]
    BY <1>2, Zenon DEF daemon_close_session
  <2> HIDE DEF w, d
  <2> QED
    BY <2>1, <2>2 DEF Destroys, AllocInv, TypeOK
<1> QED
  BY <1>1, <1>2

\* A step of the daemon ends it, changes no session, or moves one session on.
LEMMA SessionSteps ==
    ASSUME AllocInv, [Next]_vars
    PROVE  \/ DaemonExit
           \/ /\ UNCHANGED <<status, board>>
              /\ daemon' = daemon \/ (daemon = "stopped" /\ daemon' = "running")
           \/ /\ daemon = "running" /\ daemon' = "running"
              /\ \E s \in Client : Destroys(s) \/ Advances(s)
<1>1. ASSUME NEW s \in Client, NEW e, NEW active, NEW readers, status[s] # "none",
             close_session(s, e, active, readers)
      PROVE  UNCHANGED <<status, board>> \/ Destroys(s) \/ Advances(s)
  <2>1. \/ UNCHANGED <<status, board>>
        \/ status[s] = "has_board" /\ start_close_command(s) /\ UNCHANGED board
        \/ daemon_close_session(s)
    BY <1>1, Zenon DEF close_session
  <2>2. ASSUME status[s] = "has_board", start_close_command(s), UNCHANGED board
        PROVE  Advances(s)
    BY <2>2 DEF start_close_command, Advances
  <2> QED
    BY <1>1, <2>1, <2>2, CloseDestroys
<1>2. ASSUME NEW s \in Client, on_data_from_client(s)
      PROVE  /\ daemon = "running" /\ daemon' = "running"
             /\ UNCHANGED <<status, board>> \/ Destroys(s) \/ Advances(s)
  <2>1. \/ msg[s] # None /\ on_setup_msg(s, msg[s])
        \/ close_session(s, ClientEvent(s), child_watcher[s] # Inactive, watching \ {s})
    BY <1>2 DEF on_data_from_client
  <2>2. status[s] # "none" /\ (msg[s] # None => status[s] = "created")
    BY <1>2 DEF on_data_from_client, Dispatching, AllocInv, ConnectionOrder
  <2>3. daemon = "running" /\ daemon' = "running"
    BY <1>2 DEF on_data_from_client, Dispatching
  <2>4. CASE msg[s] # None /\ on_setup_msg(s, msg[s])
    <3>1. \/ \E b : assign_board(s, b)
          \/ status' = [status EXCEPT ![s] = "awaiting_board"] /\ UNCHANGED board
          \/ daemon_close_session(s)
      BY <2>4, Zenon DEF on_setup_msg
    <3>2. ASSUME NEW b, assign_board(s, b) PROVE Advances(s)
      BY <2>2, <2>4, <3>2 DEF assign_board, Advances, AllocInv, TypeOK
    <3> QED
      BY <2>2, <2>3, <2>4, <3>1, <3>2, CloseDestroys DEF Advances
  <2> QED
    BY <1>1, <2>1, <2>2, <2>3, <2>4
<1>3. ASSUME NEW s \in Client, on_process_exit(s) \/ on_close_command_exit(s)
      PROVE  /\ daemon = "running" /\ daemon' = "running"
             /\ UNCHANGED <<status, board>> \/ Destroys(s) \/ Advances(s)
  <2>1. close_session(s, ChildEvent(s), FALSE, watching)
    BY <1>3 DEF on_process_exit, on_close_command_exit, child_exit
  <2>2. /\ daemon = "running" /\ daemon' = "running"
        /\ child_watcher[s].cb \in {"on_process_exit", "on_close_command_exit"}
    BY <1>3 DEF on_process_exit, on_close_command_exit, child_exit, Dispatching
  <2>3. status[s] # "none"
    BY <2>2 DEF AllocInv, WatcherMatchesStatus
  <2> QED
    BY <1>1, <2>1, <2>2, <2>3
<1>4. CASE on_client_connecting
  <2> DEFINE s == Head(backlog)
  <2>1. /\ status' = [status EXCEPT ![s] = "created"]
        /\ UNCHANGED <<board, daemon>> /\ daemon = "running"
    BY <1>4 DEF on_client_connecting, Dispatching
  <2>2. s \in Client /\ status[s] = "none"
    <3>1. backlog # <<>>
      BY <1>4 DEF on_client_connecting, Dispatching, AllocInv, ConnectionOrder
    <3>2. s \in ToSet(backlog) /\ s \in Client
      BY <3>1, TailInjects DEF AllocInv, TypeOK, ConnectionOrder
    <3> QED
      BY <3>2 DEF AllocInv, ConnectionOrder
  <2> HIDE DEF s
  <2> QED
    BY <2>1, <2>2 DEF Advances
<1>5. CASE on_signal \/ Poll \/ DaemonStart
  BY <1>5 DEF on_signal, Poll, DaemonStart, heapVars
<1>6. CASE LoopExits \/ \E e \in pending : CallbackAborts(e)
  BY <1>6 DEF LoopExits, CallbackAborts
<1>7. CASE Environment \/ UNCHANGED vars
  BY <1>7 DEF Environment, Connect, send_setup, on_data_from_daemon, ClientDies, ProcessExits,
              Signal, vars, heapVars, loopVars
<1> QED
  BY <1>2, <1>3, <1>4, <1>5, <1>6, <1>7 DEF Next, Callback
-----------------------------------------------------------------------------
(* The invariant                                                           *)

\* Only sessions that have asked can hold a board, and those know their parent.
ParentKnown ==
    \A s \in Client :
        status[s] \in {"awaiting_board", "has_board", "closing_board"} => ppid[s] = parent[s]

StoppedIsEmpty == daemon = "stopped" => \A s \in Client : status[s] = "none"

FwdInv ==
    /\ AllocInv /\ FwdTypeOK
    /\ ParentKnown /\ StoppedIsEmpty
    /\ ProxyReachesOwnBoard /\ PeerIsParent

\* What a step of the daemon does to a session that goes on: it keeps its board,
\* and leaves the state created only by asking.
LEMMA SurvivorSteps ==
    ASSUME FwdInv, DaemonExit \/ [Next]_vars, NEW s \in Client, status'[s] # "none"
    PROVE  /\ board[s] # None => board'[s] = board[s]
           /\ status'[s] \in {"awaiting_board", "has_board", "closing_board"} =>
                 \/ status[s] \in {"awaiting_board", "has_board", "closing_board"}
                 \/ Asked(s)
<1>1. ~DaemonExit
  BY DEF DaemonExit
<1>2. board[s] # None => status[s] \in {"has_board", "closing_board"}
  BY DEF FwdInv, AllocInv, BoardOwnership
<1>3. CASE UNCHANGED <<status, board>>
  BY <1>3
<1>4. ASSUME NEW t \in Client, Destroys(t)
      PROVE  \/ status'[s] = status[s] /\ board'[s] = board[s]
             \/ status[s] = "awaiting_board" /\ status'[s] = "has_board"
  BY <1>4 DEF Destroys
<1>5. ASSUME NEW t \in Client, Advances(t)
      PROVE  \/ status'[s] = status[s] /\ board'[s] = board[s]
             \/ status[s] = "none" /\ status'[s] = "created"
             \/ Asked(s)
             \/ status[s] = "has_board" /\ status'[s] = "closing_board" /\ board'[s] = board[s]
  BY <1>5 DEF Advances, Asked, FwdInv, AllocInv, TypeOK
<1>6. \/ UNCHANGED <<status, board>>
      \/ \E t \in Client : Destroys(t) \/ Advances(t)
  BY <1>1, SessionSteps DEF FwdInv
<1> QED
  BY <1>2, <1>3, <1>4, <1>5, <1>6 DEF Asked

\* The list of sessions follows their creation and destruction.
LEMMA SessionsKept ==
    ASSUME FwdInv, DaemonExit \/ [Next]_vars, KeepSessions
    PROVE  /\ sessions' \in Seq(Client) /\ IsInjective(sessions')
           /\ ToSet(sessions') = {s \in Client : status'[s] # "none"}
<1> DEFINE live == {s \in Client : status[s] # "none"}
<1>1. sessions \in Seq(Client) /\ IsInjective(sessions) /\ ToSet(sessions) = live
  BY DEF FwdInv, FwdTypeOK
<1>2. daemon' = "stopped" => \A s \in Client : status'[s] = "none"
  BY SessionSteps DEF FwdInv, StoppedIsEmpty, DaemonExit
<1>3. ASSUME NEW s \in Client, Created(s), sessions' = Append(sessions, s)
      PROVE  /\ sessions' \in Seq(Client) /\ IsInjective(sessions')
             /\ ToSet(sessions') = {t \in Client : status'[t] # "none"}
  <2>1. ~DaemonExit /\ status[s] = "none" /\ status'[s] # "none"
    BY <1>3 DEF Created, DaemonExit
  <2>2. Advances(s)
    BY <2>1, SessionSteps DEF FwdInv, Destroys, Advances, AllocInv, TypeOK
  <2>3. {t \in Client : status'[t] # "none"} = live \cup {s}
    BY <2>1, <2>2 DEF Advances, FwdInv, AllocInv, TypeOK
  <2>4. s \notin ToSet(sessions)
    BY <1>1, <2>1
  <2> HIDE DEF live
  <2> QED
    BY <1>1, <1>3, <2>3, <2>4, AppendInjects
<1>4. ASSUME daemon' = "running", NEW i \in DOMAIN sessions, Destroyed(sessions[i]),
             sessions' = RemoveAt(sessions, i)
      PROVE  /\ sessions' \in Seq(Client) /\ IsInjective(sessions')
             /\ ToSet(sessions') = {t \in Client : status'[t] # "none"}
  <2> DEFINE s == sessions[i]
  <2>1. s \in Client /\ status[s] # "none" /\ status'[s] = "none"
    BY <1>1, <1>4 DEF ToSet, Destroyed
  <2>2. Destroys(s)
    <3> HIDE DEF s
    <3>1. ~DaemonExit
      BY <1>4 DEF DaemonExit
    <3>2. PICK t \in Client : Destroys(t) \/ Advances(t)
      BY <2>1, <3>1, SessionSteps DEF FwdInv
    <3>3. ~Advances(t)
      BY <2>1 DEF Advances, FwdInv, AllocInv, TypeOK
    <3> QED
      BY <2>1, <3>2, <3>3 DEF Destroys
  <2>3. {t \in Client : status'[t] # "none"} = live \ {s}
    <3> HIDE DEF s
    <3> QED
      BY <2>1, <2>2 DEF Destroys
  <2> HIDE DEF live
  <2> QED
    BY <1>1, <1>4, <2>3, RemoveAtProperties
<1>5. CASE daemon' = "stopped" /\ sessions' = <<>>
  <2>1. {s \in Client : status'[s] # "none"} = {}
    BY <1>2, <1>5
  <2>2. <<>> \in Seq(Client) /\ IsInjective(<<>>) /\ ToSet(<<>>) = {}
    BY DEF IsInjective, ToSet
  <2> QED
    BY <1>5, <2>1, <2>2
<1>6. CASE /\ UNCHANGED sessions
           /\ \A s \in Client : Destroyed(s) <=> status[s] = "none"
  <2>1. {s \in Client : status'[s] # "none"} = live
    BY <1>6 DEF Destroyed
  <2> QED
    BY <1>1, <1>6, <2>1
<1> QED
  BY <1>3, <1>4, <1>5, <1>6 DEF KeepSessions

\* A step of the daemon, or its end, keeps the invariant.
LEMMA DaemonKeepsFwdInv ==
    ASSUME FwdInv, DaemonExit \/ [Next]_vars, KeepPpid, KeepSessions, KeepProxies,
           connecting' \in [Socket -> Seq(Ppid)]
    PROVE  FwdInv'
<1>1. AllocInv'
  BY ExitKeepsAllocInv, NextKeepsAllocInv DEF FwdInv
<1>2. FwdTypeOK'
  <2>1. ppid' \in [Client -> Ppid \cup {None}]
    BY DEF KeepPpid
  <2>2. proxies' \in [Client -> Seq(Proxy)]
    BY DEF KeepProxies, FwdInv, FwdTypeOK
  <2> QED
    BY <2>1, <2>2, SessionsKept DEF FwdTypeOK
<1>3. ParentKnown'
  <2> SUFFICES ASSUME NEW s \in Client,
                      status'[s] \in {"awaiting_board", "has_board", "closing_board"}
               PROVE  ppid'[s] = parent[s]
    BY DEF ParentKnown
  <2>1. Asked(s) \/ status[s] \in {"awaiting_board", "has_board", "closing_board"}
    BY SurvivorSteps
  <2>2. CASE Asked(s)
    BY <2>2 DEF KeepPpid
  <2>3. CASE ~Asked(s)
    <3>1. status[s] \in {"awaiting_board", "has_board", "closing_board"}
      BY <2>1, <2>3
    <3>2. ppid'[s] = ppid[s]
      BY <2>3, <3>1 DEF KeepPpid, Created, Destroyed
    <3> QED
      BY <3>1, <3>2 DEF FwdInv, ParentKnown
  <2> QED
    BY <2>2, <2>3
<1>4. StoppedIsEmpty'
  BY SessionSteps DEF FwdInv, StoppedIsEmpty, DaemonExit
<1>5. ASSUME NEW s \in Client, NEW i \in DOMAIN proxies'[s]
      PROVE  /\ board'[s] = proxies'[s][i].board /\ owner'[proxies'[s][i].board] = s
             /\ proxies'[s][i].peer = parent[s]
  <2>1. ~Destroyed(s) /\ proxies'[s] = proxies[s]
    BY <1>5 DEF KeepProxies
  <2>2. /\ i \in DOMAIN proxies[s] /\ board[s] = proxies[s][i].board
        /\ proxies[s][i].peer = parent[s]
    BY <2>1 DEF FwdInv, ProxyReachesOwnBoard, PeerIsParent
  <2>3. board[s] \in Board
    <3>1. proxies[s] \in Seq(Proxy)
      BY DEF FwdInv, FwdTypeOK
    <3>2. proxies[s][i] \in Proxy
      BY <2>2, <3>1
    <3> QED
      BY <2>2, <3>2 DEF Proxy
  <2>4. board'[s] = board[s]
    BY <2>1, <2>3, SurvivorSteps, NoneAssumption DEF Destroyed
  <2>5. owner'[board[s]] = s
    BY <1>1, <2>3, <2>4 DEF AllocInv, BoardOwnership
  <2> QED
    BY <2>1, <2>2, <2>4, <2>5
<1> QED
  BY <1>1, <1>2, <1>3, <1>4, <1>5 DEF FwdInv, ProxyReachesOwnBoard, PeerIsParent

\* The session Daemon::find_session_by_ppid returns is alive and has that parent.
LEMMA FoundSession ==
    ASSUME FwdInv, NEW q \in Ppid, find_session_by_ppid(q) # None
    PROVE  find_session_by_ppid(q) \in Client /\ ppid[find_session_by_ppid(q)] = q
<1> DEFINE matches == {i \in DOMAIN sessions : ppid[sessions[i]] = q}
<1>1. matches \in SUBSET Nat /\ sessions \in Seq(Client)
  BY DEF FwdInv, FwdTypeOK
<1>2. matches # {} /\ find_session_by_ppid(q) = sessions[Min(matches)]
  BY DEF find_session_by_ppid
<1>3. Min(matches) \in matches
  BY <1>1, <1>2, MinExists
<1> QED
  BY <1>1, <1>2, <1>3

\* Every step keeps the invariant.
LEMMA FwdNextKeepsInv ==
    ASSUME FwdInv, [FwdNext]_allVars
    PROVE  FwdInv'
<1>1. CASE DaemonStep
  <2>1. connecting' \in [Socket -> Seq(Ppid)]
    BY <1>1 DEF DaemonStep, FwdInv, FwdTypeOK
  <2> QED
    BY <1>1, <2>1, DaemonKeepsFwdInv DEF DaemonStep
<1>2. ASSUME NEW k \in Socket, SocketAborts(k) PROVE FwdInv'
  <2>1. connecting' \in [Socket -> Seq(Ppid)]
    BY <1>2 DEF SocketAborts
  <2> QED
    BY <1>2, <2>1, DaemonKeepsFwdInv DEF SocketAborts
<1>3. ASSUME UNCHANGED <<vars, sessions, ppid>>,
             connecting' \in [Socket -> Seq(Ppid)], proxies' \in [Client -> Seq(Proxy)],
             \A s \in Client : \A i \in DOMAIN proxies'[s] :
                \/ \E j \in DOMAIN proxies[s] : proxies'[s][i] = proxies[s][j]
                \/ /\ status[s] = "has_board" /\ proxies'[s][i].board = board[s]
                   /\ proxies'[s][i].peer = ppid[s]
      PROVE  FwdInv'
  <2>1. AllocInv'
    <3>1. [Next]_vars
      BY <1>3
    <3> QED
      BY <3>1, NextKeepsAllocInv DEF FwdInv
  <2>2. UNCHANGED <<status, board, owner, daemon>>
    BY <1>3 DEF vars, heapVars, loopVars
  <2>3. ASSUME NEW s \in Client, NEW i \in DOMAIN proxies'[s]
        PROVE  /\ board[s] = proxies'[s][i].board /\ owner[proxies'[s][i].board] = s
               /\ proxies'[s][i].peer = parent[s]
    <3>1. CASE \E j \in DOMAIN proxies[s] : proxies'[s][i] = proxies[s][j]
      BY <3>1 DEF FwdInv, ProxyReachesOwnBoard, PeerIsParent
    <3>2. CASE /\ status[s] = "has_board" /\ proxies'[s][i].board = board[s]
               /\ proxies'[s][i].peer = ppid[s]
      <4>1. board[s] \in Board /\ owner[board[s]] = s
        BY <3>2 DEF FwdInv, AllocInv, BoardOwnership, TypeOK
      <4>2. ppid[s] = parent[s]
        BY <3>2 DEF FwdInv, ParentKnown
      <4> QED
        BY <3>2, <4>1, <4>2
    <3> QED
      BY <1>3, <3>1, <3>2
  <2>4. FwdTypeOK' /\ ParentKnown' /\ StoppedIsEmpty'
    <3>1. {s \in Client : status'[s] # "none"} = {s \in Client : status[s] # "none"}
      BY <2>2
    <3> QED
      BY <1>3, <2>2, <3>1 DEF FwdInv, FwdTypeOK, ParentKnown, StoppedIsEmpty
  <2>5. ProxyReachesOwnBoard' /\ PeerIsParent'
    BY <2>2, <2>3 DEF ProxyReachesOwnBoard, PeerIsParent
  <2> QED
    BY <2>1, <2>4, <2>5 DEF FwdInv
<1>4. ASSUME NEW k \in Socket, NEW q \in Ppid, ConnectSocket(k, q) PROVE FwdInv'
  <2>1. connecting' \in [Socket -> Seq(Ppid)] /\ UNCHANGED <<vars, sessions, ppid, proxies>>
    BY <1>4 DEF ConnectSocket, FwdInv, FwdTypeOK
  <2> QED
    BY <1>3, <2>1 DEF FwdInv, FwdTypeOK
<1>5. ASSUME NEW k \in Socket, on_socket_connecting(k) PROVE FwdInv'
  <2> DEFINE q == Head(connecting[k])
             s == find_session_by_ppid(q)
             x == [sock |-> k, board |-> board[s], peer |-> q]
  <2>1. connecting[k] \in Seq(Ppid) /\ connecting[k] # <<>>
    BY <1>5 DEF on_socket_connecting, FwdInv, FwdTypeOK
  <2>2. q \in Ppid /\ Tail(connecting[k]) \in Seq(Ppid)
    BY <2>1
  <2>3. /\ connecting' = [connecting EXCEPT ![k] = Tail(@)]
        /\ UNCHANGED <<vars, sessions, ppid>>
    BY <1>5 DEF on_socket_connecting
  <2>4. connecting' \in [Socket -> Seq(Ppid)]
    BY <2>2, <2>3 DEF FwdInv, FwdTypeOK
  <2>5. \/ UNCHANGED proxies
        \/ /\ s # None /\ status[s] = "has_board"
           /\ proxies' = [proxies EXCEPT ![s] = Append(@, x)]
    BY <1>5, Zenon DEF on_socket_connecting, new_socket_connection
  <2>6. CASE UNCHANGED proxies
    BY <1>3, <2>3, <2>4, <2>6 DEF FwdInv, FwdTypeOK
  <2>7. CASE /\ s # None /\ status[s] = "has_board"
             /\ proxies' = [proxies EXCEPT ![s] = Append(@, x)]
    <3>1. s \in Client /\ ppid[s] = q
      BY <2>2, <2>7, FoundSession
    <3> HIDE DEF s, q
    <3>2. x \in Proxy /\ x.board = board[s] /\ x.peer = ppid[s]
      BY <2>2, <2>7, <3>1 DEF FwdInv, AllocInv, BoardOwnership, TypeOK, Proxy
    <3> HIDE DEF x
    <3>3. /\ proxies \in [Client -> Seq(Proxy)]
          /\ proxies'[s] = Append(proxies[s], x)
          /\ \A t \in Client \ {s} : proxies'[t] = proxies[t]
          /\ proxies' \in [Client -> Seq(Proxy)]
      BY <2>7, <3>1, <3>2 DEF FwdInv, FwdTypeOK
    <3>4. ASSUME NEW i \in DOMAIN proxies'[s]
          PROVE  proxies'[s][i] = x \/ \E j \in DOMAIN proxies[s] : proxies'[s][i] = proxies[s][j]
      BY <3>1, <3>2, <3>3
    <3> QED
      BY <1>3, <2>3, <2>4, <2>7, <3>1, <3>2, <3>3, <3>4
  <2> QED
    BY <2>5, <2>6, <2>7
<1>6. ASSUME NEW s \in Client, NEW i \in DOMAIN proxies[s], close(s, i) PROVE FwdInv'
  <2>1. /\ proxies' = [proxies EXCEPT ![s] = RemoveAt(@, i)]
        /\ UNCHANGED <<vars, sessions, ppid, connecting>>
    BY <1>6 DEF close
  <2>2. proxies \in [Client -> Seq(Proxy)] /\ connecting' \in [Socket -> Seq(Ppid)]
    BY <2>1 DEF FwdInv, FwdTypeOK
  <2>3. /\ RemoveAt(proxies[s], i) \in Seq(Proxy)
        /\ \A k \in DOMAIN RemoveAt(proxies[s], i) :
              \E j \in DOMAIN proxies[s] : RemoveAt(proxies[s], i)[k] = proxies[s][j]
    <3> DEFINE p == proxies[s]
               r == RemoveAt(p, i)
    <3>1. p \in Seq(Proxy) /\ i \in DOMAIN p
      BY <2>2
    <3>2. /\ r \in Seq(Proxy) /\ Len(r) = Len(p) - 1
          /\ \A k \in 1..Len(r) : r[k] = IF k < i THEN p[k] ELSE p[k + 1]
      BY <3>1, RemoveAtElements
    <3> HIDE DEF r, p
    <3>3. ASSUME NEW k \in DOMAIN r PROVE \E j \in DOMAIN p : r[k] = p[j]
      BY <3>1, <3>2
    <3> QED
      BY <3>2, <3>3 DEF r, p
  <2>4. /\ proxies' \in [Client -> Seq(Proxy)]
        /\ proxies'[s] = RemoveAt(proxies[s], i)
        /\ \A t \in Client \ {s} : proxies'[t] = proxies[t]
    BY <2>1, <2>2, <2>3
  <2> QED
    BY <1>3, <2>1, <2>2, <2>3, <2>4
<1>7. CASE UNCHANGED allVars
  <2>1. /\ UNCHANGED <<vars, sessions, ppid, connecting, proxies>>
    BY <1>7 DEF allVars, fwdVars
  <2> QED
    BY <1>3, <2>1 DEF FwdInv, FwdTypeOK
<1> QED
  BY <1>1, <1>2, <1>4, <1>5, <1>6, <1>7 DEF FwdNext

\* The inductive invariant of the daemon with its proxies.
THEOREM FwdCorrect == FwdSpec => []FwdInv
<1>1. FwdInit => FwdInv
  <2> SUFFICES ASSUME FwdInit PROVE FwdInv
    OBVIOUS
  <2>1. AllocInv
    BY InitAllocInv DEF FwdInit
  <2>2. <<>> \in Seq(Client) /\ IsInjective(<<>>) /\ ToSet(<<>>) = {}
    BY DEF IsInjective, ToSet
  <2>3. \A s \in Client : status[s] = "none"
    BY DEF FwdInit, Init
  <2>4. FwdTypeOK
    BY <2>2, <2>3 DEF FwdInit, FwdTypeOK
  <2> QED
    BY <2>1, <2>3, <2>4 DEF FwdInit, FwdInv, ParentKnown, StoppedIsEmpty,
                            ProxyReachesOwnBoard, PeerIsParent
<1> QED
  BY <1>1, FwdNextKeepsInv, PTL DEF FwdSpec

\* A proxy forwards to the board its session owns, whatever happens meanwhile.
THEOREM ProxyBoardCorrect == FwdSpec => []ProxyReachesOwnBoard
<1>1. FwdInv => ProxyReachesOwnBoard
  BY DEF FwdInv
<1> QED
  BY <1>1, FwdCorrect, PTL

\* No connection is forwarded on behalf of a session somebody else started,
\* although Session::ppid is not initialised.
THEOREM PeerCorrect == FwdSpec => []PeerIsParent
<1>1. FwdInv => PeerIsParent
  BY DEF FwdInv
<1> QED
  BY <1>1, FwdCorrect, PTL

\* Why a connection is turned down although the session it belongs to has a board.
LEMMA RefusalHasCause ==
    ASSUME FwdInv, NEW k \in Socket, NEW t \in Client, Refused(k, t)
    PROVE  \E i, j \in DOMAIN sessions :
              /\ i < j /\ sessions[j] = t
              /\ status[sessions[i]] = "created" \/ parent[sessions[i]] = parent[t]
<1> DEFINE q == Head(connecting[k])
           s == find_session_by_ppid(q)
           matches == {i \in DOMAIN sessions : ppid[sessions[i]] = q}
           i == Min(matches)
<1>1. /\ on_socket_connecting(k) /\ UNCHANGED proxies
      /\ status[t] = "has_board" /\ parent[t] = q
  BY DEF Refused
<1>2. ppid[t] = q /\ t \in ToSet(sessions)
  BY <1>1 DEF FwdInv, ParentKnown, FwdTypeOK
<1>3. PICK j \in DOMAIN sessions : sessions[j] = t
  BY <1>2 DEF ToSet
<1>4. j \in matches /\ matches \in SUBSET Nat /\ sessions \in Seq(Client)
  BY <1>2, <1>3 DEF FwdInv, FwdTypeOK
<1>5. i \in matches /\ i <= j
  BY <1>4, MinExists
<1>6. s = sessions[i]
  BY <1>4, Zenon DEF find_session_by_ppid
<1>7. i \in DOMAIN sessions /\ s \in Client /\ ppid[s] = q /\ i \in Nat /\ j \in Nat
  BY <1>4, <1>5, <1>6
<1>8. s # None /\ status[s] # "none"
  <2>1. s \in ToSet(sessions)
    BY <1>6, <1>7 DEF ToSet
  <2> QED
    BY <1>7, <2>1, NoneAssumption DEF FwdInv, FwdTypeOK
<1> HIDE DEF s, q, i, matches
<1>9. status[s] # "has_board"
  <2> SUFFICES ASSUME status[s] = "has_board" PROVE FALSE
    OBVIOUS
  <2> DEFINE x == [sock |-> k, board |-> board[s], peer |-> q]
  <2>1. proxies' = [proxies EXCEPT ![s] = Append(@, x)]
    BY <1>1, <1>8, Zenon DEF on_socket_connecting, new_socket_connection, s, q
  <2> HIDE DEF x
  <2>2. proxies \in [Client -> Seq(Proxy)]
    BY DEF FwdInv, FwdTypeOK
  <2>3. proxies[s] = Append(proxies[s], x)
    BY <1>1, <1>7, <2>1, <2>2
  <2>4. Len(proxies[s]) \in Nat /\ Len(Append(proxies[s], x)) = Len(proxies[s]) + 1
    BY <1>7, <2>2
  <2> QED
    BY <2>3, <2>4
<1>10. i # j
  BY <1>1, <1>3, <1>6, <1>9
<1>11. status[s] = "created" \/ parent[s] = parent[t]
  BY <1>1, <1>7, <1>8, <1>9 DEF FwdInv, ParentKnown, AllocInv, TypeOK
<1> QED
  BY <1>3, <1>5, <1>6, <1>7, <1>10, <1>11

\* Only an older session of the same parent, or one that has not asked yet, can
\* keep a connection from the board of its user.
THEOREM RefusalCorrect == FwdSpec => RefusedOnlyBehindOlder
<1>1. FwdInv /\ [FwdNext]_allVars =>
         [\A k \in Socket, t \in Client :
             Refused(k, t) =>
                 \E i, j \in DOMAIN sessions :
                    /\ i < j /\ sessions[j] = t
                    /\ status[sessions[i]] = "created" \/ parent[sessions[i]] = parent[t]]_allVars
  BY RefusalHasCause
<1> QED
  BY <1>1, FwdCorrect, PTL DEF FwdSpec, RefusedOnlyBehindOlder

=============================================================================
