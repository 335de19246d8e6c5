------------------------ MODULE DaemonHandoverProofs ------------------------
(* Proofs about the steps in which a board changes hands.                  *)
EXTENDS DaemonProofs

\* Daemon::close_session takes no board from anybody but s, and what it gives
\* away is the board of s, to a session that waits.
LEMMA CloseHandsOver ==
    ASSUME AllocInv, NEW s \in Client, daemon_close_session(s)
    PROVE  /\ \A b \in Board : owner[b] # None /\ owner'[b] # owner[b] => owner[b] = s
           /\ \A t \in Client : board'[t] # None /\ board'[t] # board[t] =>
                 /\ Servable(s) # {}
                 /\ t = QueueWithout(s)[NextServed(s)]
                 /\ board'[t] = board[s] /\ board[s] \in Board
                 /\ status'[t] = "has_board" /\ status'[s] = "none"
<1>1. \A b \in Board : owner[b] # s => Release(s)[b] = owner[b]
  BY DEF Release, AllocInv, TypeOK, BoardOwnership
<1>2. CASE Servable(s) = {}
  <2>1. owner' = Release(s) /\ board' = [board EXCEPT ![s] = None]
    BY <1>2 DEF daemon_close_session
  <2> QED
    BY <1>1, <2>1 DEF AllocInv, TypeOK
<1>3. CASE Servable(s) # {}
  <2> DEFINE w == QueueWithout(s)[NextServed(s)]
             d == find_available_board(Release(s), get_username(w))
  <2>1. w \in Client \ {s} /\ d \in Board /\ d = board[s]
    BY <1>3, ServedSession
  <2>2. /\ owner' = [Release(s) EXCEPT ![d] = w]
        /\ status' = [status EXCEPT ![s] = "none", ![w] = "has_board"]
        /\ board' = [board EXCEPT ![s] = None, ![w] = d]
    BY <1>3, Zenon DEF daemon_close_session
  <2>3. w = QueueWithout(s)[NextServed(s)]
    OBVIOUS
  <2> HIDE DEF w, d
  <2>4. owner[d] = s
    BY <2>1 DEF AllocInv, BoardOwnership
  <2>5. ASSUME NEW b \in Board, owner[b] # None, owner'[b] # owner[b]
        PROVE  owner[b] = s
    BY <1>1, <2>1, <2>2, <2>4, <2>5 DEF Release, AllocInv, TypeOK
  <2>6. ASSUME NEW t \in Client, board'[t] # None, board'[t] # board[t]
        PROVE  t = w /\ board'[t] = d /\ status'[t] = "has_board" /\ status'[s] = "none"
    BY <2>1, <2>2, <2>6 DEF AllocInv, TypeOK
  <2> QED
    BY <1>3, <2>1, <2>3, <2>5, <2>6
<1> QED
  BY <1>2, <1>3

\* The step in which a message of s makes s the owner of a board.
LEMMA AssignTakesFreeBoard ==
    ASSUME AllocInv, NEW s \in Client, NEW d,
           d # None, NEW u, d = find_available_board(owner, u), assign_board(s, d)
    PROVE  /\ \A b \in Board : owner[b] # None => owner'[b] = owner[b]
           /\ \A t \in Client : board'[t] # board[t] =>
                 t = s /\ board'[t] = d /\ d \in Board /\ owner[d] = None
<1>1. d \in Board /\ owner[d] = None
  BY FoundBoard
<1>2. owner' = [owner EXCEPT ![d] = s] /\ board' = [board EXCEPT ![s] = d]
  BY DEF assign_board
<1> QED
  BY <1>1, <1>2 DEF AllocInv, TypeOK

\* Every step either leaves the assignment alone or ends the daemon, or is one of
\* the two operations above.
LEMMA HandoverSteps ==
    ASSUME AllocInv, [Next]_vars
    PROVE  \/ UNCHANGED <<owner, board>>
           \/ daemon' = "stopped" /\ \A t \in Client : board'[t] = None
           \/ \E s \in Client : \E d, u :
                 d # None /\ d = find_available_board(owner, u) /\ assign_board(s, d)
           \/ \E s \in Client :
                 /\ ~(status[s] = "has_board" /\ close_command[board[s]])
                 /\ daemon_close_session(s)
<1>1. ASSUME NEW s \in Client, on_data_from_client(s), msg[s] # None, on_setup_msg(s, msg[s])
      PROVE  \/ UNCHANGED <<owner, board>>
             \/ \E d, u : d # None /\ d = find_available_board(owner, u) /\ assign_board(s, d)
             \/ status[s] # "has_board" /\ daemon_close_session(s)
  <2>1. status[s] = "created"
    BY <1>1 DEF on_data_from_client, Dispatching, AllocInv, ConnectionOrder
  <2> QED
    BY <1>1, <2>1, Zenon DEF on_setup_msg
<1>2. ASSUME NEW s \in Client, NEW e, NEW active, NEW readers,
             close_session(s, e, active, readers)
      PROVE  \/ UNCHANGED <<owner, board>>
             \/ /\ ~(status[s] = "has_board" /\ close_command[board[s]])
                /\ daemon_close_session(s)
  BY <1>2 DEF close_session
<1>3. ASSUME NEW s \in Client, on_data_from_client(s)
      PROVE  \/ UNCHANGED <<owner, board>>
             \/ \E d, u : d # None /\ d = find_available_board(owner, u) /\ assign_board(s, d)
             \/ /\ ~(status[s] = "has_board" /\ close_command[board[s]])
                /\ daemon_close_session(s)
  <2>1. \/ msg[s] # None /\ on_setup_msg(s, msg[s])
        \/ close_session(s, ClientEvent(s), child_watcher[s] # Inactive, watching \ {s})
    BY <1>3 DEF on_data_from_client
  <2>2. CASE msg[s] # None /\ on_setup_msg(s, msg[s])
    BY <1>1, <1>3, <2>2
  <2>3. CASE close_session(s, ClientEvent(s), child_watcher[s] # Inactive, watching \ {s})
    BY <1>2, <2>3
  <2> QED
    BY <2>1, <2>2, <2>3
<1>4. ASSUME NEW s \in Client, on_process_exit(s) \/ on_close_command_exit(s)
      PROVE  \/ UNCHANGED <<owner, board>>
             \/ /\ ~(status[s] = "has_board" /\ close_command[board[s]])
                /\ daemon_close_session(s)
  <2>1. close_session(s, ChildEvent(s), FALSE, watching)
    BY <1>4 DEF on_process_exit, on_close_command_exit, child_exit
  <2> QED
    BY <1>2, <2>1
<1>5. CASE on_client_connecting \/ on_signal \/ Poll \/ DaemonStart
  BY <1>5 DEF on_client_connecting, on_signal, Poll, DaemonStart, heapVars
<1>6. CASE LoopExits \/ \E e \in pending : CallbackAborts(e)
  <2>1. DaemonExit
    BY <1>6 DEF LoopExits, CallbackAborts
  <2> QED
    BY <2>1 DEF DaemonExit
<1>7. CASE Environment \/ UNCHANGED vars
  BY <1>7 DEF Environment, Connect, send_setup, on_data_from_daemon, ClientDies, ProcessExits,
              Signal, vars, heapVars
<1> QED
  BY <1>3, <1>4, <1>5, <1>6, <1>7 DEF Next, Callback

\* The owner of a board with a close command loses it only in the state
\* closing_board, which Session::close_session enters with start_close_command.
LEMMA StepClosesBeforeReuse ==
    ASSUME AllocInv, [Next]_vars, NEW b \in Board, daemon' = "running", close_command[b],
           owner[b] # None, owner'[b] # owner[b]
    PROVE  status[owner[b]] = "closing_board"
<1>1. CASE \E s \in Client : \E d, u :
              d # None /\ d = find_available_board(owner, u) /\ assign_board(s, d)
  BY <1>1, AssignTakesFreeBoard
<1>2. ASSUME NEW s \in Client, ~(status[s] = "has_board" /\ close_command[board[s]]),
             daemon_close_session(s)
      PROVE  status[owner[b]] = "closing_board"
  <2>1. owner[b] = s
    BY <1>2, CloseHandsOver
  <2>2. board[s] = b
    BY <2>1 DEF AllocInv, BoardOwnership
  <2>3. b # None
    BY NoneAssumption
  <2> QED
    BY <1>2, <2>1, <2>2, <2>3 DEF AllocInv, BoardOwnership
<1> QED
  BY <1>1, <1>2, HandoverSteps

\* A board with a close command changes hands only after the command was started.
THEOREM ClosedBeforeReuseCorrect == Spec => ClosedBeforeReuse
<1>1. AllocInv /\ [Next]_vars =>
         [\A b \in Board :
             /\ daemon' = "running" /\ close_command[b]
             /\ owner[b] # None /\ owner'[b] # owner[b]
             => status[owner[b]] = "closing_board"]_vars
  BY StepClosesBeforeReuse
<1> QED
  BY <1>1, AllocCorrect, PTL DEF Spec, ClosedBeforeReuse

\* A session that gets a board was ahead in the queue of everybody who goes on
\* waiting and could have used that board.
LEMMA StepDoesNotOvertake ==
    ASSUME AllocInv, [Next]_vars, NEW s \in Client, NEW t \in Client,
           board'[t] # None, board'[t] # board[t],
           status[s] = "awaiting_board", status'[s] = "awaiting_board",
           Usable(board'[t], get_username(s))
    PROVE  \E i, j \in DOMAIN wait_queue : i < j /\ wait_queue[i] = t /\ wait_queue[j] = s
<1>1. ~ \E x \in Client : \E d, u :
           d # None /\ d = find_available_board(owner, u) /\ assign_board(x, d)
  <2> SUFFICES ASSUME NEW x \in Client, NEW d, NEW u,
                      d # None, d = find_available_board(owner, u), assign_board(x, d)
               PROVE  FALSE
    OBVIOUS
  <2>1. board'[t] = d /\ d \in Board /\ owner[d] = None
    BY AssignTakesFreeBoard
  <2> QED
    BY <2>1 DEF AllocInv, NoIdleBoardForWaiter
<1>2. PICK x \in Client : daemon_close_session(x)
  BY <1>1, HandoverSteps
<1> DEFINE i == NextServed(x)
<1>3. /\ Servable(x) # {} /\ t = QueueWithout(x)[i]
      /\ board'[t] = board[x] /\ board[x] \in Board
      /\ status'[t] = "has_board" /\ status'[x] = "none"
  BY <1>2, CloseHandsOver
<1>4. QueueWithout(x) = wait_queue
  <2>1. status[x] # "awaiting_board"
    BY <1>3, NoneAssumption DEF AllocInv, BoardOwnership
  <2> QED
    BY <2>1 DEF QueueWithout, AllocInv, QueueIsWaiters
<1>5. PICK j \in DOMAIN wait_queue : wait_queue[j] = s
  BY DEF AllocInv, QueueIsWaiters, ToSet
<1>6. j \in Servable(x)
  <2>1. Release(x)[board[x]] = None
    BY <1>3, NoneAssumption DEF Release, AllocInv, TypeOK
  <2>2. find_available_board(Release(x), get_username(s)) # None
    BY <1>3, <2>1, NoBoardFound
  <2> QED
    BY <1>4, <1>5, <2>2 DEF Servable
<1>7. DOMAIN wait_queue \subseteq Nat
  BY DEF AllocInv, TypeOK
<1>8. i \in Servable(x) /\ i <= j
  <2>1. Servable(x) \in SUBSET Nat
    BY <1>4, <1>7 DEF Servable
  <2> QED
    BY <1>3, <1>6, <2>1, MinExists DEF NextServed
<1>9. i \in DOMAIN wait_queue
  BY <1>4, <1>8 DEF Servable
<1>10. i # j
  BY <1>3, <1>4, <1>5
<1> QED
  BY <1>3, <1>4, <1>5, <1>7, <1>8, <1>9, <1>10

\* Boards are handed to waiting sessions first come, first served.
THEOREM NoOvertakingCorrect == Spec => NoOvertaking
<1>1. AllocInv /\ [Next]_vars =>
         [\A s, t \in Client :
             /\ board'[t] # None /\ board'[t] # board[t]
             /\ status[s] = "awaiting_board" /\ status'[s] = "awaiting_board"
             /\ Usable(board'[t], get_username(s))
             => \E i, j \in DOMAIN wait_queue :
                   i < j /\ wait_queue[i] = t /\ wait_queue[j] = s]_vars
  BY StepDoesNotOvertake
<1> QED
  BY <1>1, AllocCorrect, PTL DEF Spec, NoOvertaking

=============================================================================
