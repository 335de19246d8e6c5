------------------------ MODULE DaemonHistoryProofs -------------------------
(* Reservations, by the name that a client gave, and what the end of the   *)
(* loop loses, for any clients and boards.                                 *)
EXTENDS DaemonProofs, DaemonHistory

\* The session has handled its setup message.
Asked == {"awaiting_board", "has_board", "closing_board"}

\* What the session keeps of a name.
kept(n) == IF n = None THEN None ELSE stored_name[n]

\* The name a client gave is that of its message, then that behind the session's.
NameInv ==
    /\ given_name \in [Client -> User \cup {None}]
    /\ \A c \in Client : msg[c] # None => given_name[c] = msg[c].name
    /\ \A c \in Client : status[c] \in Asked => username[c] = kept(given_name[c])

\* Once the last session has broken the loop, no session has asked for anything
\* and none will be told of what its client sends.
LoopInv ==
    /\ by_signal \in BOOLEAN
    /\ loop_done => daemon = "running"
    /\ loop_done /\ ~by_signal =>
          \A c \in Client : status[c] \in {"none", "created"} /\ ClientEvent(c) \notin pending

HistInv == AllocInv /\ NameInv /\ LoopInv

-----------------------------------------------------------------------------
(* Names                                                                   *)

\* A session that is served was waiting; the destroyed one has asked for nothing.
LEMMA CloseKeepsNames ==
    ASSUME AllocInv, NEW s \in Client, daemon_close_session(s), NEW c \in Client,
           status'[c] \in Asked
    PROVE  status[c] \in Asked /\ username'[c] = username[c]
<1>1. username' = [username EXCEPT ![s] = None]
  BY Zenon DEF daemon_close_session, DestroySession
<1>2. CASE Servable(s) = {}
  <2>1. status' = [status EXCEPT ![s] = "none"]
    BY <1>2, Zenon DEF daemon_close_session
  <2> QED
    BY <1>1, <2>1 DEF AllocInv, TypeOK, Asked
<1>3. CASE Servable(s) # {}
  <2> DEFINE w == QueueWithout(s)[NextServed(s)]
  <2>1. status' = [status EXCEPT ![s] = "none", ![w] = "has_board"]
    BY <1>3, Zenon DEF daemon_close_session
  <2>2. w \in Client \ {s} /\ status[w] = "awaiting_board"
    BY <1>3, ServedSession
  <2> HIDE DEF w
  <2> QED
    BY <1>1, <2>1, <2>2 DEF AllocInv, TypeOK, Asked
<1> QED
  BY <1>2, <1>3

\* Session::close_session likewise.
LEMMA SessionCloseKeepsNames ==
    ASSUME AllocInv, NEW s \in Client, NEW e, NEW active, NEW readers,
           close_session(s, e, active, readers), NEW c \in Client,
           status'[c] \in Asked
    PROVE  status[c] \in Asked /\ username'[c] = username[c]
<1>1. CASE daemon_close_session(s)
  BY <1>1, CloseKeepsNames
<1>2. CASE UNCHANGED <<status, username>>
  BY <1>2
<1>3. CASE status[s] = "has_board" /\ start_close_command(s) /\ UNCHANGED username
  <2>1. status' = [status EXCEPT ![s] = "closing_board"]
    BY <1>3, Zenon DEF start_close_command
  <2> QED
    BY <1>3, <2>1 DEF AllocInv, TypeOK, Asked
<1> QED
  BY <1>1, <1>2, <1>3, Zenon DEF close_session

\* A session gets its name from its message, and keeps it.
LEMMA StepNames ==
    ASSUME AllocInv, [Next]_vars, NEW c \in Client, status'[c] \in Asked
    PROVE  \/ status[c] \in Asked /\ username'[c] = username[c]
           \/ msg[c] # None /\ username'[c] = kept(msg[c].name)
<1>1. CASE on_client_connecting
  <2>1. /\ status' = [status EXCEPT ![Head(backlog)] = "created"]
        /\ UNCHANGED username
    BY <1>1, Zenon DEF on_client_connecting
  <2> QED
    BY <2>1 DEF AllocInv, TypeOK, Asked
<1>2. ASSUME NEW s \in Client, on_data_from_client(s)
      PROVE  \/ status[c] \in Asked /\ username'[c] = username[c]
             \/ msg[c] # None /\ username'[c] = kept(msg[c].name)
  <2>1. CASE msg[s] # None /\ on_setup_msg(s, msg[s])
    <3>1. CASE daemon_close_session(s)
      BY <3>1, CloseKeepsNames
    <3>2. CASE /\ username' = [username EXCEPT ![s] = kept(msg[s].name)]
               /\ \/ status' = [status EXCEPT ![s] = "has_board"]
                  \/ status' = [status EXCEPT ![s] = "awaiting_board"]
      BY <2>1, <3>2 DEF AllocInv, TypeOK
    <3> QED
      BY <2>1, <3>1, <3>2, Zenon DEF on_setup_msg, assign_board, kept
  <2>2. CASE close_session(s, ClientEvent(s), child_watcher[s] # Inactive, watching \ {s})
    BY <2>2, SessionCloseKeepsNames
  <2> QED
    BY <1>2, <2>1, <2>2 DEF on_data_from_client
<1>3. ASSUME NEW s \in Client, on_process_exit(s) \/ on_close_command_exit(s)
      PROVE  status[c] \in Asked /\ username'[c] = username[c]
  <2>1. close_session(s, ChildEvent(s), FALSE, watching)
    BY <1>3 DEF on_process_exit, on_close_command_exit, child_exit
  <2> QED
    BY <2>1, SessionCloseKeepsNames
<1>4. CASE LoopExits \/ \E e \in pending : CallbackAborts(e)
  <2>1. status' = [d \in Client |-> "none"]
    BY <1>4 DEF LoopExits, CallbackAborts, DaemonExit
  <2> QED
    BY <2>1 DEF Asked
<1>5. CASE on_signal \/ Poll \/ DaemonStart \/ Environment \/ UNCHANGED vars
  <2>1. UNCHANGED <<status, username>>
    BY <1>5 DEF on_signal, Poll, DaemonStart, Environment, Connect, send_setup,
                on_data_from_daemon, ClientDies, ProcessExits, Signal, vars, heapVars
  <2> QED
    BY <2>1
<1> QED
  BY <1>1, <1>2, <1>3, <1>4, <1>5 DEF Next, Callback

\* Every step keeps what is known of names.
LEMMA StepKeepsNameInv ==
    ASSUME AllocInv, NameInv, AllocInv', [Next]_vars, Record
    PROVE  NameInv'
<1>1. \A c \in Client :
         given_name'[c] = IF msg'[c] # None THEN msg'[c].name
                          ELSE IF status'[c] = "none" THEN None ELSE given_name[c]
  BY DEF Record
<1>2. given_name' \in [Client -> User \cup {None}]
  <2>1. \A c \in Client : msg'[c] # None => msg'[c].name \in User \cup {None}
    BY DEF AllocInv, TypeOK, SetupMsg
  <2> QED
    BY <2>1 DEF Record, NameInv
<1>3. ASSUME NEW c \in Client, status'[c] \in Asked
      PROVE  username'[c] = kept(given_name'[c])
  <2>1. msg'[c] = None
    BY <1>3 DEF AllocInv, ConnectionOrder, Asked
  <2>2. given_name'[c] = given_name[c]
    BY <1>1, <1>3, <2>1 DEF Asked
  <2> QED
    BY <1>3, <2>2, StepNames DEF NameInv
<1> QED
  BY <1>1, <1>2, <1>3 DEF NameInv, kept

-----------------------------------------------------------------------------
(* The end of the loop                                                     *)

\* When Daemon::close_session breaks the loop, there is no session left.
LEMMA LastIsAlone ==
    ASSUME AllocInv, NEW s \in Client, daemon_close_session(s), LastSession(s)
    PROVE  \A c \in Client : status'[c] = "none" /\ ClientEvent(c) \notin pending'
<1>1. Servable(s) = {}
  <2>1. ASSUME Servable(s) # {} PROVE FALSE
    <3>1. QueueWithout(s)[NextServed(s)] \in Client \ {s}
      BY <2>1, ServedSession
    <3>2. status[QueueWithout(s)[NextServed(s)]] = "awaiting_board"
      BY <2>1, ServedSession
    <3> QED
      BY <3>1, <3>2 DEF LastSession
  <2> QED
    BY <2>1
<1>2. status' = [status EXCEPT ![s] = "none"]
  BY <1>1, Zenon DEF daemon_close_session
<1>3. pending' = {e \in pending : e[2] # s}
  BY Zenon DEF daemon_close_session, DestroySession
<1>4. \A c \in Client \ {s} : ClientEvent(c) \notin pending
  BY DEF AllocInv, ConnectionOrder, LastSession
<1> QED
  BY <1>2, <1>3, <1>4 DEF AllocInv, TypeOK, LastSession, ClientEvent

\* Session::close_session breaks the loop only in that way, and a message only
\* through it.
LEMMA CloseKeepsLoopInv ==
    ASSUME AllocInv, NEW s \in Client, status[s] \in Asked \/ ClientEvent(s) \in pending,
           LoopInv, by_signal' = by_signal, daemon = "running", UNCHANGED daemon,
           \/ daemon_close_session(s)
           \/ UNCHANGED loop_done
    PROVE  LoopInv'
<1>1. ASSUME loop_done, ~by_signal PROVE FALSE
  BY <1>1 DEF LoopInv, Asked
<1>2. CASE daemon_close_session(s)
  <2>1. loop_done' = (loop_done \/ LastSession(s))
    BY <1>2, Zenon DEF daemon_close_session
  <2> QED
    BY <1>1, <1>2, <2>1, LastIsAlone DEF LoopInv, ClientEvent
<1> QED
  BY <1>1, <1>2 DEF LoopInv

\* Every step keeps what is known of the end of the loop.
LEMMA StepKeepsLoopInv ==
    ASSUME AllocInv, LoopInv, [Next]_vars, Record
    PROVE  LoopInv'
<1>1. CASE on_client_connecting
  <2>1. /\ status' = [status EXCEPT ![Head(backlog)] = "created"]
        /\ pending' = pending \ {AcceptEvent} /\ UNCHANGED <<daemon, loop_done>>
    BY <1>1, Zenon DEF on_client_connecting
  <2>2. by_signal' = by_signal
    BY <1>1, <2>1 DEF LoopInv, Record, on_client_connecting, Dispatching, SignalEvent, AcceptEvent
  <2> QED
    BY <2>1, <2>2 DEF LoopInv, AllocInv, TypeOK, ClientEvent
<1>2. ASSUME NEW s \in Client, NEW e \in {ClientEvent(s), ChildEvent(s)}, daemon = "running",
             UNCHANGED daemon, pending' = pending \ {e} \/ daemon_close_session(s)
      PROVE  by_signal' = by_signal
  <2>1. SignalEvent[2] # s /\ SignalEvent # e
    BY NoneAssumption DEF SignalEvent, ClientEvent, ChildEvent
  <2>2. SignalEvent \in pending => SignalEvent \in pending'
    BY <1>2, <2>1 DEF daemon_close_session, DestroySession
  <2> QED
    BY <1>2, <2>2 DEF LoopInv, Record
<1>3. ASSUME NEW s \in Client, on_data_from_client(s)
      PROVE  LoopInv'
  <2>1. /\ daemon = "running" /\ UNCHANGED daemon /\ ClientEvent(s) \in pending
    BY <1>3 DEF on_data_from_client, Dispatching
  <2>2. \/ daemon_close_session(s)
        \/ pending' = pending \ {ClientEvent(s)} /\ UNCHANGED loop_done
    BY <1>3, Zenon DEF on_data_from_client, on_setup_msg, close_session
  <2> QED
    BY <1>2, <2>1, <2>2, CloseKeepsLoopInv
<1>4. ASSUME NEW s \in Client, on_process_exit(s) \/ on_close_command_exit(s)
      PROVE  LoopInv'
  <2>1. /\ daemon = "running" /\ UNCHANGED daemon
        /\ child_watcher[s].cb \in {"on_process_exit", "on_close_command_exit"}
        /\ close_session(s, ChildEvent(s), FALSE, watching)
    BY <1>4 DEF on_process_exit, on_close_command_exit, child_exit, Dispatching
  <2>2. status[s] \in Asked
    BY <2>1 DEF AllocInv, WatcherMatchesStatus, Asked
  <2>3. \/ daemon_close_session(s)
        \/ pending' = pending \ {ChildEvent(s)} /\ UNCHANGED loop_done
    BY <2>1, Zenon DEF close_session
  <2> QED
    BY <1>2, <2>1, <2>2, <2>3, CloseKeepsLoopInv
<1>5. CASE on_signal
  <2>1. by_signal' = TRUE /\ daemon' = "running"
    BY <1>5 DEF on_signal, Dispatching, Record
  <2> QED
    BY <2>1 DEF LoopInv
<1>6. CASE Poll \/ LoopExits \/ \E e \in pending : CallbackAborts(e)
  <2>1. loop_done' = FALSE /\ by_signal' \in BOOLEAN
    BY <1>6 DEF Poll, LoopExits, CallbackAborts, DaemonExit, AllocInv, TypeOK, Record
  <2> QED
    BY <2>1 DEF LoopInv
<1>7. CASE DaemonStart \/ Environment \/ UNCHANGED vars
  <2>1. UNCHANGED <<status, pending, loop_done>>
    BY <1>7 DEF DaemonStart, Environment, Connect, send_setup, on_data_from_daemon, ClientDies,
                ProcessExits, Signal, vars, heapVars, loopVars
  <2>2. daemon = "running" => daemon' = "running"
    BY <1>7 DEF DaemonStart, Environment, Connect, send_setup, on_data_from_daemon, ClientDies,
                ProcessExits, Signal, vars, loopVars
  <2>3. by_signal' \in BOOLEAN /\ (daemon' = "running" => by_signal' = by_signal)
    BY <2>1 DEF LoopInv, Record
  <2> QED
    BY <2>1, <2>2, <2>3 DEF LoopInv, ClientEvent
<1> QED
  BY <1>1, <1>3, <1>4, <1>5, <1>6, <1>7 DEF Next, Callback

-----------------------------------------------------------------------------
(* Theorems                                                                *)

\* The inductive invariant of the daemon with its history.
THEOREM HistoryCorrect == HistorySpec => []HistInv
<1>1. Init /\ HistoryInit => HistInv
  <2>1. Init => AllocInv
    BY InitAllocInv
  <2>2. Init /\ HistoryInit => NameInv /\ LoopInv
    BY DEF Init, HistoryInit, NameInv, LoopInv, Asked
  <2> QED
    BY <2>1, <2>2 DEF HistInv
<1>2. HistInv /\ [Next /\ Record]_historyVars => HistInv'
  <2> SUFFICES ASSUME HistInv, [Next /\ Record]_historyVars PROVE HistInv'
    OBVIOUS
  <2>1. [Next]_vars
    BY DEF historyVars
  <2>2. AllocInv'
    BY <2>1, NextKeepsAllocInv DEF HistInv
  <2>3. CASE Record
    BY <2>1, <2>2, <2>3, StepKeepsNameInv, StepKeepsLoopInv DEF HistInv
  <2>4. CASE UNCHANGED historyVars
    BY <2>2, <2>4 DEF HistInv, NameInv, LoopInv, historyVars, vars, clientVars, loopVars, heapVars,
                      kept, ClientEvent
  <2> QED
    BY <2>3, <2>4
<1> QED
  BY <1>1, <1>2, PTL DEF HistorySpec

\* A reserved board is only ever owned by the user it is reserved for, or by one
\* whose name the setup message cuts to that user's: find_available_board makes no
\* other mistake, at once or after waiting.
THEOREM ReservationCorrect == HistorySpec => []ReservationRespected
<1>1. HistInv => ReservationRespected
  <2> SUFFICES ASSUME HistInv, NEW s \in Client, board[s] # None
               PROVE  \/ Usable(board[s], own_name(s))
                      \/ NameCut(s) /\ reserved_for[board[s]] = stored_name[given_name[s]]
    BY DEF ReservationRespected
  <2>1. Usable(board[s], get_username(s))
    BY DEF HistInv, AllocInv, HeldUnderName
  <2>2. username[s] = kept(given_name[s])
    BY DEF HistInv, NameInv, AllocInv, BoardOwnership, Asked
  <2>3. given_name[s] \in User \cup {None}
    BY DEF HistInv, NameInv
  <2>4. stored_name[given_name[s]] # None \/ given_name[s] = None
    BY <2>3, ConstantsAssumption, NoneAssumption
  <2> QED
    BY <2>1, <2>2, <2>3, <2>4 DEF Usable, get_username, kept, own_name, NameCut
<1> QED
  BY <1>1, HistoryCorrect, PTL

\* Breaking the loop after the last session loses no session whose client has
\* asked for something.
THEOREM LostCorrect == HistorySpec => []OnlyNewSessionsLost
<1>1. HistInv => OnlyNewSessionsLost
  BY DEF HistInv, LoopInv, OnlyNewSessionsLost
<1> QED
  BY <1>1, HistoryCorrect, PTL
=============================================================================
