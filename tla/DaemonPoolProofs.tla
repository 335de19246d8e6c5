-------------------------- MODULE DaemonPoolProofs --------------------------
(* The daemon implements the board pool, for any clients and boards.       *)
EXTENDS DaemonHandoverProofs, DaemonPool

\* BoardPool and Daemon agree on who may have a board.
LEMMA MayHaveUsable ==
    ASSUME NEW u, NEW b
    PROVE  Pool!MayHave(u, b) <=> Usable(b, u)
  BY DEF Pool!MayHave, Usable

\* The operators on sequences that BoardPool and Daemon use are the same.
LEMMA SameOperators ==
    /\ \A q : Pool!ToSet(q) = ToSet(q)
    /\ \A q, i : Pool!RemoveAt(q, i) = RemoveAt(q, i)
  BY Zenon DEF Pool!ToSet, Pool!RemoveAt, ToSet, RemoveAt

\* The pool as the state of the daemon shows it.
LEMMA PoolView ==
    ASSUME AllocInv
    PROVE  /\ PoolUser \in [Client -> User \cup {None}]
           /\ \A s \in Client : s \in ToSet(wait_queue) => PoolUser[s] = get_username(s)
           /\ \A s \in Client : Pool!Present(s) <=> s \in Served
<1>1. \A s \in Client : get_username(s) \in User \cup {None}
  BY ConstantsAssumption DEF AllocInv, TypeOK, get_username
<1>2. \A s \in Client : s \in ToSet(wait_queue) => s \in Served
  BY DEF AllocInv, QueueIsWaiters, Served
<1>3. ASSUME NEW s \in Client PROVE Pool!Present(s) <=> s \in Served
  <2>1. (\E b \in Board : owner[b] = s) <=> board[s] # None
    <3>1. board[s] \in Board \cup {None}
      BY DEF AllocInv, TypeOK
    <3>2. \A b \in Board : owner[b] = s <=> board[s] = b
      BY DEF AllocInv, BoardOwnership
    <3> QED
      BY <3>1, <3>2, NoneAssumption
  <2>2. s \in ToSet(wait_queue) <=> status[s] = "awaiting_board"
    BY DEF AllocInv, QueueIsWaiters
  <2>3. board[s] # None <=> status[s] \in {"has_board", "closing_board"}
    BY DEF AllocInv, BoardOwnership
  <2> QED
    BY <2>1, <2>2, <2>3, SameOperators DEF Pool!Present, Served
<1> QED
  BY <1>1, <1>2, <1>3 DEF PoolUser

\* Every step of the daemon leaves the pool alone, ends the daemon, answers a
\* setup message or destroys a session.
LEMMA PoolSteps ==
    ASSUME AllocInv, [Next]_vars
    PROVE  \/ UNCHANGED <<owner, wait_queue, PoolUser>>
           \/ DaemonExit
           \/ \E s \in Client : status[s] = "created" /\ msg[s] # None /\ on_setup_msg(s, msg[s])
           \/ \E s \in Client : daemon_close_session(s)
<1>1. ASSUME UNCHANGED username,
             \A s \in Client : s \in Served <=> status'[s] \in {"awaiting_board", "has_board", "closing_board"}
      PROVE  UNCHANGED PoolUser
  BY <1>1 DEF PoolUser, Served, get_username
<1>2. ASSUME UNCHANGED <<status, username>> PROVE UNCHANGED PoolUser
  BY <1>2 DEF PoolUser, Served, get_username
<1>3. ASSUME NEW s \in Client, NEW e, NEW active, NEW readers,
             close_session(s, e, active, readers)
      PROVE  UNCHANGED <<owner, wait_queue, PoolUser>> \/ daemon_close_session(s)
  <2>1. CASE status[s] = "has_board" /\ active
    <3>1. UNCHANGED <<status, username, owner, wait_queue>> \/ daemon_close_session(s)
      BY <1>3, <2>1, Zenon DEF close_session
    <3> QED
      BY <1>2, <3>1
  <2>2. CASE status[s] = "has_board" /\ ~active /\ close_command[board[s]]
    <3>1. \/ UNCHANGED <<username, owner, wait_queue>> /\ start_close_command(s)
          \/ daemon_close_session(s)
      BY <1>3, <2>2, Zenon DEF close_session
    <3>2. CASE start_close_command(s) /\ UNCHANGED <<username, owner, wait_queue>>
      <4>1. status' = [status EXCEPT ![s] = "closing_board"]
        BY <3>2 DEF start_close_command
      <4> QED
        BY <1>1, <2>2, <3>2, <4>1 DEF Served, AllocInv, TypeOK
    <3> QED
      BY <3>1, <3>2
  <2> QED
    BY <1>3, <2>1, <2>2, Zenon DEF close_session
<1>4. ASSUME NEW s \in Client, on_data_from_client(s)
      PROVE  \/ UNCHANGED <<owner, wait_queue, PoolUser>> \/ daemon_close_session(s)
             \/ status[s] = "created" /\ msg[s] # None /\ on_setup_msg(s, msg[s])
  <2>1. \/ msg[s] # None /\ on_setup_msg(s, msg[s])
        \/ close_session(s, ClientEvent(s), child_watcher[s] # Inactive, watching \ {s})
    BY <1>4 DEF on_data_from_client
  <2>2. msg[s] # None => status[s] = "created"
    BY <1>4 DEF on_data_from_client, Dispatching, AllocInv, ConnectionOrder
  <2> QED
    BY <1>3, <2>1, <2>2
<1>5. ASSUME NEW s \in Client, on_process_exit(s) \/ on_close_command_exit(s)
      PROVE  UNCHANGED <<owner, wait_queue, PoolUser>> \/ daemon_close_session(s)
  <2>1. close_session(s, ChildEvent(s), FALSE, watching)
    BY <1>5 DEF on_process_exit, on_close_command_exit, child_exit
  <2> QED
    BY <1>3, <2>1
<1>6. CASE on_client_connecting
  <2> DEFINE s == Head(backlog)
  <2>1. /\ status' = [status EXCEPT ![s] = "created"]
        /\ UNCHANGED <<username, owner, wait_queue>>
    BY <1>6 DEF on_client_connecting
  <2>2. s \in Client /\ status[s] = "none"
    <3>1. backlog # <<>>
      BY <1>6 DEF on_client_connecting, Dispatching, AllocInv, ConnectionOrder
    <3>2. s \in ToSet(backlog) /\ s \in Client
      BY <3>1, TailInjects DEF AllocInv, TypeOK, ConnectionOrder
    <3> QED
      BY <3>2 DEF AllocInv, ConnectionOrder
  <2> HIDE DEF s
  <2> QED
    BY <1>1, <2>1, <2>2 DEF Served, AllocInv, TypeOK
<1>7. CASE on_signal \/ Poll \/ DaemonStart
  <2>1. UNCHANGED <<status, username, owner, wait_queue>>
    BY <1>7 DEF on_signal, Poll, DaemonStart, heapVars
  <2> QED
    BY <1>2, <2>1
<1>8. CASE LoopExits \/ \E e \in pending : CallbackAborts(e)
  BY <1>8 DEF LoopExits, CallbackAborts
<1>9. CASE Environment \/ UNCHANGED vars
  <2>1. UNCHANGED <<status, username, owner, wait_queue>>
    BY <1>9 DEF Environment, Connect, send_setup, on_data_from_daemon, ClientDies,
                ProcessExits, Signal, vars, heapVars
  <2> QED
    BY <1>2, <2>1
<1> QED
  BY <1>4, <1>5, <1>6, <1>7, <1>8, <1>9 DEF Next, Callback

\* A setup message: its session gets a preferred board, waits because there is
\* none, or is closed.
LEMMA SetupIsPoolStep ==
    ASSUME AllocInv, NEW s \in Client, status[s] = "created", msg[s] # None,
           on_setup_msg(s, msg[s])
    PROVE  Pool!PoolNext \/ daemon_close_session(s)
<1> DEFINE m == msg[s]
           u == asking_user(s, m)
           b == find_available_board(owner, u)
           name == IF m.name = None THEN None ELSE stored_name[m.name]
<1>1. u \in User \cup {None} /\ name \in User \cup {None} /\ u = (IF name = None THEN username_cred[s] ELSE name)
  <2>1. m \in SetupMsg
    BY DEF AllocInv, TypeOK
  <2>2. m.name \in User \cup {None}
    BY <2>1 DEF SetupMsg
  <2> QED
    BY <2>2, ConstantsAssumption, NoneAssumption DEF asking_user
<1>2. ~Pool!Present(s)
  BY PoolView DEF Served
<1>3. \/ daemon_close_session(s)
      \/ /\ b # None /\ assign_board(s, b) /\ username' = [username EXCEPT ![s] = name]
      \/ /\ b = None /\ status' = [status EXCEPT ![s] = "awaiting_board"]
         /\ wait_queue' = Append(wait_queue, s) /\ UNCHANGED owner
         /\ username' = [username EXCEPT ![s] = name]
  BY Zenon DEF on_setup_msg
<1>4. ASSUME NEW st, st \in {"has_board", "awaiting_board"},
             status' = [status EXCEPT ![s] = st], username' = [username EXCEPT ![s] = name]
      PROVE  PoolUser' = [PoolUser EXCEPT ![s] = u]
  <2> HIDE DEF m, u, b, name
  <2>1. \A t \in Client : status'[t] = IF t = s THEN st ELSE status[t]
    BY <1>4 DEF AllocInv, TypeOK
  <2>2. \A t \in Client : username'[t] = IF t = s THEN name ELSE username[t]
    BY <1>4 DEF AllocInv, TypeOK
  <2>3. \A t \in Client :
           PoolUser'[t] = IF status'[t] \in {"awaiting_board", "has_board", "closing_board"}
                          THEN IF username'[t] = None THEN username_cred[t] ELSE username'[t]
                          ELSE None
    BY DEF PoolUser, Served, get_username
  <2>4. \A t \in Client :
           PoolUser[t] = IF status[t] \in {"awaiting_board", "has_board", "closing_board"}
                         THEN IF username[t] = None THEN username_cred[t] ELSE username[t]
                         ELSE None
    BY DEF PoolUser, Served, get_username
  <2>5. \A t \in Client : PoolUser'[t] = IF t = s THEN u ELSE PoolUser[t]
    BY <1>1, <1>4, <2>1, <2>2, <2>3, <2>4
  <2>6. /\ PoolUser' = [t \in Client |-> PoolUser'[t]]
        /\ [PoolUser EXCEPT ![s] = u] = [t \in Client |-> IF t = s THEN u ELSE PoolUser[t]]
    BY DEF PoolUser
  <2> QED
    BY <2>5, <2>6
<1>5. CASE b # None /\ assign_board(s, b) /\ username' = [username EXCEPT ![s] = name]
  <2>1. /\ status' = [status EXCEPT ![s] = "has_board"] /\ UNCHANGED wait_queue
        /\ owner' = [owner EXCEPT ![b] = s]
    BY <1>5, Zenon DEF assign_board
  <2>2. b \in Pool!Preferred(u)
    <3>1. b \in Board /\ owner[b] = None /\ Usable(b, u)
      BY <1>5, FoundBoard
    <3>2. reserved_for[b] # None \/ \A d \in Board : owner[d] = None /\ reserved_for[d] # None => reserved_for[d] # u
      <4>1. {d \in {d \in Board : owner[d] = None} : reserved_for[d] # None /\ reserved_for[d] = u} \in SUBSET Nat
        BY ConstantsAssumption DEF Board
      <4> QED
        BY <1>5, <4>1, MinExists DEF find_available_board
    <3> QED
      BY <3>1, <3>2, MayHaveUsable DEF Pool!Preferred, Pool!Free, Pool!MayHave
  <2>3. Pool!Get(s, u)
    BY <1>1, <1>2, <1>4, <1>5, <2>1, <2>2 DEF Pool!Get
  <2> QED
    BY <1>1, <2>3 DEF Pool!PoolNext
<1>6. CASE /\ b = None /\ status' = [status EXCEPT ![s] = "awaiting_board"]
           /\ wait_queue' = Append(wait_queue, s) /\ UNCHANGED owner
           /\ username' = [username EXCEPT ![s] = name]
  <2>1. Pool!Free(u) = {}
    BY <1>6, NoBoardFound, MayHaveUsable DEF Pool!Free
  <2>2. Pool!Wait(s, u)
    BY <1>1, <1>2, <1>4, <1>6, <2>1 DEF Pool!Wait
  <2> QED
    BY <1>1, <2>2 DEF Pool!PoolNext
<1> QED
  BY <1>3, <1>5, <1>6
\* A session that is destroyed gives up its place in the queue, or its board to
\* the first waiting session that may have it, or had neither.
LEMMA CloseIsPoolStep ==
    ASSUME AllocInv, NEW s \in Client, daemon_close_session(s)
    PROVE  Pool!PoolNext \/ UNCHANGED <<owner, wait_queue, PoolUser>>
<1> DEFINE w == QueueWithout(s)[NextServed(s)]
           d == find_available_board(Release(s), get_username(w))
<1>1. username' = [username EXCEPT ![s] = None]
  BY DEF daemon_close_session, DestroySession
<1>2. \/ /\ Servable(s) = {}
         /\ wait_queue' = QueueWithout(s) /\ owner' = Release(s)
         /\ status' = [status EXCEPT ![s] = "none"]
      \/ /\ Servable(s) # {}
         /\ wait_queue' = RemoveAt(QueueWithout(s), NextServed(s))
         /\ owner' = [Release(s) EXCEPT ![d] = w]
         /\ status' = [status EXCEPT ![s] = "none", ![w] = "has_board"]
  BY Zenon DEF daemon_close_session
<1>3. Servable(s) # {} =>
         /\ NextServed(s) \in DOMAIN QueueWithout(s)
         /\ w \in Client \ {s} /\ status[w] = "awaiting_board"
         /\ d \in Board /\ d = board[s]
  BY ServedSession
<1>4. PoolUser' = [PoolUser EXCEPT ![s] = None]
  <2> HIDE DEF w, d
  <2>1. \A t \in Client \ {s} :
           status'[t] \in {"awaiting_board", "has_board", "closing_board"} <=> t \in Served
    BY <1>2, <1>3 DEF AllocInv, TypeOK, Served
  <2>2. status'[s] = "none"
    BY <1>2, <1>3 DEF AllocInv, TypeOK
  <2>3. \A t \in Client \ {s} : get_username(t)' = get_username(t)
    BY <1>1 DEF AllocInv, TypeOK, get_username
  <2>4. \A t \in Client : PoolUser'[t] = IF t = s THEN None ELSE PoolUser[t]
    BY <2>1, <2>2, <2>3 DEF PoolUser, Served
  <2>5. /\ PoolUser' = [t \in Client |-> PoolUser'[t]]
        /\ [PoolUser EXCEPT ![s] = None] = [t \in Client |-> IF t = s THEN None ELSE PoolUser[t]]
    BY DEF PoolUser
  <2> QED
    BY <2>4, <2>5
<1>5. s \in ToSet(wait_queue) <=> status[s] = "awaiting_board"
  BY DEF AllocInv, QueueIsWaiters
<1>6. board[s] \in Board \cup {None} /\ (board[s] # None <=> status[s] \in {"has_board", "closing_board"})
  BY DEF AllocInv, TypeOK, BoardOwnership
<1>7. status[s] # "awaiting_board" => QueueWithout(s) = wait_queue
  BY <1>5 DEF QueueWithout
<1>8. CASE board[s] = None
  <2>1. Servable(s) = {}
    BY <1>3, <1>8, NoneAssumption
  <2>2. owner' = owner /\ wait_queue' = QueueWithout(s)
    BY <1>2, <1>8, <2>1 DEF Release
  <2>3. CASE status[s] = "awaiting_board"
    <3> DEFINE i == CHOOSE k \in DOMAIN wait_queue : wait_queue[k] = s
    <3>1. i \in DOMAIN wait_queue /\ wait_queue[i] = s
      BY <1>5, <2>3 DEF ToSet
    <3>2. wait_queue' = RemoveAt(wait_queue, i)
      BY <1>5, <2>2, <2>3 DEF QueueWithout
    <3> HIDE DEF i
    <3>3. Pool!GiveUp(s)
      BY <1>4, <2>2, <3>1, <3>2, SameOperators DEF Pool!GiveUp
    <3> QED
      BY <3>3 DEF Pool!PoolNext
  <2>4. CASE status[s] # "awaiting_board"
    <3>1. PoolUser[s] = None
      BY <1>6, <1>8, <2>4 DEF PoolUser, Served
    <3>2. UNCHANGED PoolUser
      BY <1>4, <3>1, PoolView
    <3> QED
      BY <1>7, <2>2, <2>4, <3>2
  <2> QED
    BY <2>3, <2>4
<1>9. CASE board[s] # None
  <2> DEFINE b == board[s]
  <2>1. b \in Board /\ owner[b] = s /\ QueueWithout(s) = wait_queue
    BY <1>6, <1>7, <1>9 DEF AllocInv, BoardOwnership
  <2>2. Release(s) = [owner EXCEPT ![b] = None] /\ Release(s)[b] = None
    BY <1>9, <2>1 DEF Release, AllocInv, TypeOK
  <2>3. ASSUME NEW i \in DOMAIN wait_queue
        PROVE  i \in Servable(s) <=> i \in Pool!Heirs(b)
    <3> DEFINE t == wait_queue[i]
    <3>1. t \in ToSet(wait_queue) /\ t \in Client /\ status[t] = "awaiting_board"
      BY DEF ToSet, AllocInv, QueueIsWaiters
    <3>2. PoolUser[t] = get_username(t)
      BY <3>1, PoolView
    <3>3. i \in Pool!Heirs(b) <=> Usable(b, get_username(t))
      BY <3>2, MayHaveUsable DEF Pool!Heirs
    <3>4. i \in Servable(s) <=> find_available_board(Release(s), get_username(t)) # None
      BY <2>1 DEF Servable
    <3>5. Usable(b, get_username(t)) => find_available_board(Release(s), get_username(t)) # None
      BY <2>1, <2>2, NoBoardFound
    <3>6. ASSUME find_available_board(Release(s), get_username(t)) # None
          PROVE  Usable(b, get_username(t))
      <4> DEFINE f == find_available_board(Release(s), get_username(t))
      <4>1. f \in Board /\ Release(s)[f] = None /\ Usable(f, get_username(t))
        BY <3>6, FoundBoard
      <4> HIDE DEF f
      <4>2. owner[f] # None
        BY <3>1, <4>1 DEF AllocInv, NoIdleBoardForWaiter
      <4>3. f = b
        BY <2>1, <2>2, <4>1, <4>2 DEF AllocInv, TypeOK
      <4> QED
        BY <4>1, <4>3
    <3> QED
      BY <3>3, <3>4, <3>5, <3>6
  <2>4. Servable(s) = Pool!Heirs(b)
    BY <2>1, <2>3 DEF Servable, Pool!Heirs
  <2>5. CASE Servable(s) = {}
    <3>1. Pool!Return(s, b)
      BY <1>2, <1>4, <2>1, <2>2, <2>4, <2>5 DEF Pool!Return
    <3> QED
      BY <2>1, <3>1 DEF Pool!PoolNext
  <2>6. CASE Servable(s) # {}
    <3>1. /\ wait_queue' = RemoveAt(wait_queue, NextServed(s))
          /\ owner' = [owner EXCEPT ![b] = wait_queue[NextServed(s)]]
      <4>1. owner' = [Release(s) EXCEPT ![b] = w] /\ w = wait_queue[NextServed(s)]
        BY <1>2, <1>3, <2>1, <2>6
      <4> HIDE DEF w
      <4>2. [[owner EXCEPT ![b] = None] EXCEPT ![b] = w] = [owner EXCEPT ![b] = w]
        BY DEF AllocInv, TypeOK
      <4> QED
        BY <1>2, <2>1, <2>2, <2>6, <4>1, <4>2
    <3>2. NextServed(s) \in Servable(s) /\ \A j \in Servable(s) : NextServed(s) <= j
      <4>1. Servable(s) \in SUBSET Nat
        BY <2>1 DEF Servable, AllocInv, TypeOK
      <4> QED
        BY <2>6, <4>1, MinExists DEF NextServed
    <3>3. Pool!Return(s, b)
      BY <1>4, <2>1, <2>4, <3>1, <3>2, SameOperators DEF Pool!Return
    <3> QED
      BY <2>1, <3>3 DEF Pool!PoolNext
  <2> QED
    BY <2>5, <2>6
<1> QED
  BY <1>8, <1>9

\* Every step of the daemon is a step of the pool, or leaves it unchanged.
LEMMA StepRefinesPool ==
    ASSUME AllocInv, [Next]_vars
    PROVE  [Pool!PoolNext]_<<owner, wait_queue, PoolUser>>
<1>1. CASE DaemonExit
  <2>1. Pool!Stop
    BY <1>1 DEF DaemonExit, Pool!Stop, PoolUser, Served
  <2> QED
    BY <2>1 DEF Pool!PoolNext
<1> QED
  BY <1>1, PoolSteps, SetupIsPoolStep, CloseIsPoolStep

\* The daemon implements BoardPool: whatever the interleaving of its callbacks
\* with clients, children and crashes, boards are handed out as BoardPool says.
THEOREM PoolImplemented == Spec => ImplementsPool
<1>1. Init => Pool!PoolInit
  BY DEF Init, Pool!PoolInit, PoolUser, Served
<1>2. AllocInv /\ [Next]_vars => [Pool!pool' # Pool!pool /\ Pool!PoolNext]_Pool!pool
  BY StepRefinesPool DEF Pool!pool
<1> QED
  BY <1>1, <1>2, AllocCorrect, PTL DEF Spec, ImplementsPool, Pool!PoolSpec

=============================================================================
