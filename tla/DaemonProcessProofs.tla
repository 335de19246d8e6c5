------------------------ MODULE DaemonProcessProofs ------------------------
(* Proofs about the child processes of the daemon and their watchers.      *)
EXTENDS DaemonProofs

\* No two sessions watch the same process.
WatchersDistinct ==
    \A s, t \in Client :
        child_watcher[s] # Inactive /\ child_watcher[s].pid = child_watcher[t].pid => s = t

\* The event of a child is delivered to the session that watches it, after the
\* child has been reaped.
ChildEventAfterReap ==
    \A s \in Client :
        ChildEvent(s) \in pending =>
            child_watcher[s] # Inactive /\ proc[child_watcher[s].pid] = NoProc

\* Without a daemon no board is assigned, and what is left of the processes was
\* killed by systemd or has been orphaned.
LeftBehind ==
    daemon = "stopped" =>
        /\ \A s \in Client : board[s] = None
        /\ \A p \in Pid :
              proc[p].state \in {"free", IF SocketActivated THEN "killed" ELSE "orphaned"}

\* The inductive invariant of the processes, on top of AllocInv.
ProcInv ==
    /\ CommandHasOwner
    /\ OwnerIsWoken
    /\ WatchersDistinct
    /\ ChildEventAfterReap
    /\ LeftBehind

\* A watched pid belongs to an active watcher.
LEMMA WatcherPid ==
    ASSUME TypeOK, NEW s \in Client
    PROVE  /\ child_watcher[s] # Inactive <=> child_watcher[s].pid \in Pid
           /\ child_watcher[s] = Inactive <=> child_watcher[s].cb = "none"
BY NoneAssumption DEF TypeOK, Watcher, Inactive

\* A process forked by the daemon for session w and watched by it, while session
\* s, if it is another one, is destroyed: the processes stay in order.
LEMMA ForkKeepsProcInv ==
    ASSUME AllocInv, ProcInv, AllocInv', NEW s \in Client, NEW w \in Client, NEW p \in Pid,
           NEW b \in Board, NEW kind, NEW cb, NEW st,
           \/ kind = "command" /\ cb = "on_process_exit" /\ st = "has_board"
           \/ kind = "close_command" /\ cb = "on_close_command_exit" /\ st = "closing_board",
           daemon = "running", daemon' = daemon, FreePid(p),
           proc' = [proc EXCEPT ![p] = [state |-> "running", kind |-> kind, board |-> b]],
           \A c \in Client :
               child_watcher'[c] =
                  IF c = w THEN [pid |-> p, cb |-> cb]
                  ELSE IF c = s THEN Inactive ELSE child_watcher[c],
           ChildEvent(w) \notin pending', ChildEvent(s) \notin pending',
           \A c \in Client \ {s, w} :
               /\ board'[c] = board[c] /\ status'[c] = status[c]
               /\ ChildEvent(c) \in pending' <=> ChildEvent(c) \in pending,
           s # w => board'[s] = None,
           board'[w] = b,
           status'[w] = st,
           \A x \in {s, w} : status[x] = "has_board" => proc[child_watcher[x].pid] = NoProc
    PROVE  ProcInv'
<1>1. WatchersDistinct'
  <2> SUFFICES ASSUME NEW c \in Client, NEW t \in Client,
                      child_watcher'[c] # Inactive,
                      child_watcher'[c].pid = child_watcher'[t].pid
               PROVE  c = t
    BY DEF WatchersDistinct
  <2>1. \A x \in Client \ {w} : child_watcher'[x].pid # p
    BY NoneAssumption DEF FreePid, Inactive
  <2>2. child_watcher'[w].pid = p
    OBVIOUS
  <2>3. CASE c = w \/ t = w
    BY <2>1, <2>2, <2>3
  <2>4. CASE c # w /\ t # w
    <3>1. c # s /\ child_watcher'[c] = child_watcher[c]
      BY <2>4
    <3>2. child_watcher[c].pid \in Pid
      BY <3>1, WatcherPid DEF AllocInv
    <3>3. t # s
      BY <2>4, <3>1, <3>2, NoneAssumption DEF Inactive
    <3> QED
      BY <2>4, <3>1, <3>3 DEF ProcInv, WatchersDistinct
  <2> QED
    BY <2>3, <2>4
<1>2. ChildEventAfterReap'
  <2> SUFFICES ASSUME NEW c \in Client, ChildEvent(c) \in pending'
               PROVE  child_watcher'[c] # Inactive /\ proc'[child_watcher'[c].pid] = NoProc
    BY DEF ChildEventAfterReap, ChildEvent
  <2>1. c # s /\ c # w /\ child_watcher'[c] = child_watcher[c]
    OBVIOUS
  <2>2. child_watcher[c] # Inactive /\ proc[child_watcher[c].pid] = NoProc
    BY DEF ProcInv, ChildEventAfterReap
  <2> QED
    BY <2>1, <2>2 DEF FreePid, AllocInv, TypeOK
<1>3. OwnerIsWoken'
  <2> SUFFICES ASSUME NEW c \in Client, board'[c] # None
               PROVE  /\ child_watcher'[c] # Inactive
                      /\ \/ ChildEvent(c) \in pending'
                         \/ /\ proc'[child_watcher'[c].pid].board = board'[c]
                            /\ proc'[child_watcher'[c].pid].state \in {"running", "killed", "exited"}
    BY DEF OwnerIsWoken, ChildEvent
  <2>1. CASE c = w
    <3>1. /\ child_watcher'[c].pid = p /\ child_watcher'[c] # Inactive
          /\ proc'[p] = [state |-> "running", kind |-> kind, board |-> b]
      BY <2>1, NoneAssumption DEF Inactive, AllocInv, TypeOK
    <3> QED
      BY <2>1, <3>1
  <2>2. CASE c # w
    <3>1. c # s /\ child_watcher'[c] = child_watcher[c] /\ board'[c] = board[c]
      BY <2>2
    <3>2. /\ child_watcher[c] # Inactive
          /\ \/ ChildEvent(c) \in pending
             \/ /\ proc[child_watcher[c].pid].board = board[c]
                /\ proc[child_watcher[c].pid].state \in {"running", "killed", "exited"}
      BY <3>1 DEF ProcInv, OwnerIsWoken
    <3>3. proc'[child_watcher[c].pid] = proc[child_watcher[c].pid]
      BY <3>2, WatcherPid DEF FreePid, AllocInv, TypeOK
    <3> QED
      BY <2>2, <3>1, <3>2, <3>3
  <2> QED
    BY <2>1, <2>2
<1>4. CommandHasOwner'
  <2> SUFFICES ASSUME NEW x \in Pid, proc'[x].kind = "command", proc'[x].state # "orphaned"
               PROVE  \E o \in Client :
                         /\ owner'[proc'[x].board] = o /\ status'[o] = "has_board"
                         /\ child_watcher'[o] = [pid |-> x, cb |-> "on_process_exit"]
    BY DEF CommandHasOwner
  <2>1. CASE x = p
    <3>1. proc'[x].board = b /\ kind = "command"
      BY <2>1 DEF AllocInv, TypeOK
    <3>2. owner'[b] = w
      BY DEF AllocInv, BoardOwnership
    <3> QED
      BY <2>1, <3>1, <3>2
  <2>2. CASE x # p
    <3>1. proc'[x] = proc[x]
      BY <2>2 DEF AllocInv, TypeOK
    <3>2. PICK o \in Client : /\ owner[proc[x].board] = o /\ status[o] = "has_board"
                              /\ child_watcher[o] = [pid |-> x, cb |-> "on_process_exit"]
      BY <3>1 DEF ProcInv, CommandHasOwner
    <3>3. o # s /\ o # w
      BY <3>1, <3>2 DEF NoProc
    <3>4. proc[x].board \in Board
      BY <3>1 DEF AllocInv, TypeOK, Process, NoProc
    <3>5. board[o] = proc[x].board
      BY <3>2, <3>4 DEF AllocInv, BoardOwnership
    <3>6. owner'[proc[x].board] = o
      BY <3>3, <3>4, <3>5 DEF AllocInv, BoardOwnership
    <3> QED
      BY <3>1, <3>2, <3>3, <3>6
  <2> QED
    BY <2>1, <2>2
<1>5. LeftBehind'
  BY DEF LeftBehind
<1> QED
  BY <1>1, <1>2, <1>3, <1>4, <1>5 DEF ProcInv

\* Session s is destroyed and nobody gets its board: the same without a fork.
LEMMA DestroyKeepsProcInv ==
    ASSUME AllocInv, ProcInv, AllocInv', NEW s \in Client,
           daemon = "running", daemon' = daemon, proc' = proc,
           child_watcher' = [child_watcher EXCEPT ![s] = Inactive],
           ChildEvent(s) \notin pending', board'[s] = None,
           \A c \in Client \ {s} :
               /\ board'[c] = board[c] /\ status'[c] = status[c]
               /\ ChildEvent(c) \in pending' <=> ChildEvent(c) \in pending,
           status[s] = "has_board" => proc[child_watcher[s].pid] = NoProc
    PROVE  ProcInv'
<1>0. \A c \in Client : child_watcher'[c] = IF c = s THEN Inactive ELSE child_watcher[c]
  BY DEF AllocInv, TypeOK
<1>1. WatchersDistinct'
  <2> SUFFICES ASSUME NEW c \in Client, NEW t \in Client,
                      child_watcher'[c] # Inactive,
                      child_watcher'[c].pid = child_watcher'[t].pid
               PROVE  c = t
    BY DEF WatchersDistinct
  <2>1. c # s /\ child_watcher[c].pid \in Pid
    BY <1>0, WatcherPid DEF AllocInv
  <2>2. t # s
    BY <1>0, <2>1, NoneAssumption DEF Inactive
  <2> QED
    BY <1>0, <2>1, <2>2 DEF ProcInv, WatchersDistinct
<1>2. ChildEventAfterReap'
  BY <1>0 DEF ProcInv, ChildEventAfterReap, ChildEvent
<1>3. OwnerIsWoken'
  BY <1>0 DEF ProcInv, OwnerIsWoken, ChildEvent
<1>4. CommandHasOwner'
  <2> SUFFICES ASSUME NEW x \in Pid, proc[x].kind = "command", proc[x].state # "orphaned"
               PROVE  \E o \in Client :
                         /\ owner'[proc[x].board] = o /\ status'[o] = "has_board"
                         /\ child_watcher'[o] = [pid |-> x, cb |-> "on_process_exit"]
    BY DEF CommandHasOwner
  <2>1. PICK o \in Client : /\ owner[proc[x].board] = o /\ status[o] = "has_board"
                            /\ child_watcher[o] = [pid |-> x, cb |-> "on_process_exit"]
    BY DEF ProcInv, CommandHasOwner
  <2>2. o # s
    BY <2>1 DEF NoProc
  <2>3. proc[x].board \in Board
    BY DEF AllocInv, TypeOK, Process, NoProc
  <2>4. board[o] = proc[x].board
    BY <2>1, <2>3 DEF AllocInv, BoardOwnership
  <2>5. owner'[proc[x].board] = o
    BY <2>2, <2>3, <2>4 DEF AllocInv, BoardOwnership
  <2> QED
    BY <1>0, <2>1, <2>2, <2>5
<1>5. LeftBehind'
  BY DEF LeftBehind
<1> QED
  BY <1>1, <1>2, <1>3, <1>4, <1>5 DEF ProcInv

\* The other events when session s is destroyed or one event of s is dispatched.
LEMMA OtherChildEvents ==
    ASSUME NEW s \in Client, NEW c \in Client \ {s}
    PROVE  /\ ChildEvent(c) \in {e \in pending : e[2] # s} <=> ChildEvent(c) \in pending
           /\ ChildEvent(c) \in pending \ {ChildEvent(s)} <=> ChildEvent(c) \in pending
           /\ \A t \in Client :
                ChildEvent(t) \in pending \ {ClientEvent(s)} <=> ChildEvent(t) \in pending
BY DEF ChildEvent, ClientEvent

\* Daemon::close_session; the command of s, if it had a board, has been reaped.
LEMMA CloseKeepsProcInv ==
    ASSUME AllocInv, ProcInv, AllocInv', NEW s \in Client, daemon_close_session(s),
           daemon = "running", daemon' = daemon,
           status[s] = "has_board" => proc[child_watcher[s].pid] = NoProc
    PROVE  ProcInv'
<1>1. pending' = {e \in pending : e[2] # s}
  BY DEF daemon_close_session, DestroySession
<1>2. \A c \in Client \ {s} : ChildEvent(c) \in pending' <=> ChildEvent(c) \in pending
  BY <1>1, OtherChildEvents
<1>3. ChildEvent(s) \notin pending'
  BY <1>1 DEF ChildEvent
<1>4. CASE Servable(s) = {}
  <2>1. /\ status' = [status EXCEPT ![s] = "none"]
        /\ board' = [board EXCEPT ![s] = None]
        /\ child_watcher' = [child_watcher EXCEPT ![s] = Inactive]
        /\ proc' = proc
    BY <1>4 DEF daemon_close_session
  <2>2. board'[s] = None /\ \A c \in Client \ {s} : board'[c] = board[c] /\ status'[c] = status[c]
    BY <2>1 DEF AllocInv, TypeOK
  <2> QED
    BY <1>2, <1>3, <2>1, <2>2, DestroyKeepsProcInv
<1>5. CASE Servable(s) # {}
  <2>1. PICK w \in Client, b \in Board, p \in Pid :
           /\ w # s /\ status[w] = "awaiting_board"
           /\ FreePid(p)
           /\ proc' = [proc EXCEPT ![p] = [state |-> "running", kind |-> "command", board |-> b]]
           /\ child_watcher' = [child_watcher EXCEPT ![s] = Inactive,
                                   ![w] = [pid |-> p, cb |-> "on_process_exit"]]
           /\ status' = [status EXCEPT ![s] = "none", ![w] = "has_board"]
           /\ board' = [board EXCEPT ![s] = None, ![w] = b]
    <3> DEFINE u == QueueWithout(s)[NextServed(s)]
               d == find_available_board(Release(s), get_username(u))
    <3>1. u \in Client \ {s} /\ status[u] = "awaiting_board" /\ d \in Board
      BY <1>5, ServedSession
    <3>2. PICK p \in Pid :
             /\ FreePid(p)
             /\ proc' = [proc EXCEPT ![p] = [state |-> "running", kind |-> "command", board |-> d]]
             /\ child_watcher' = [child_watcher EXCEPT ![s] = Inactive,
                                     ![u] = [pid |-> p, cb |-> "on_process_exit"]]
      BY <1>5, Zenon DEF daemon_close_session, Fork
    <3>3. /\ status' = [status EXCEPT ![s] = "none", ![u] = "has_board"]
          /\ board' = [board EXCEPT ![s] = None, ![u] = d]
      BY <1>5, Zenon DEF daemon_close_session
    <3> HIDE DEF u, d
    <3> QED
      BY <3>1, <3>2, <3>3
  <2>2. /\ \A c \in Client \ {s, w} : board'[c] = board[c] /\ status'[c] = status[c]
        /\ board'[s] = None /\ board'[w] = b /\ status'[w] = "has_board"
    BY <2>1 DEF AllocInv, TypeOK
  <2>3. \A c \in Client : child_watcher'[c] =
           IF c = w THEN [pid |-> p, cb |-> "on_process_exit"]
           ELSE IF c = s THEN Inactive ELSE child_watcher[c]
    BY <2>1 DEF AllocInv, TypeOK
  <2>4. ChildEvent(w) \notin pending'
    <3>1. child_watcher[w] = Inactive
      BY <2>1, WatcherPid DEF AllocInv, TypeOK, WatcherMatchesStatus, Watcher
    <3> QED
      BY <1>2, <2>1, <3>1 DEF ProcInv, ChildEventAfterReap
  <2>5. \A c \in Client \ {s, w} :
           /\ board'[c] = board[c] /\ status'[c] = status[c]
           /\ ChildEvent(c) \in pending' <=> ChildEvent(c) \in pending
    BY <1>2, <2>2
  <2>6. \A x \in {s, w} : status[x] = "has_board" => proc[child_watcher[x].pid] = NoProc
    BY <2>1
  <2>7. /\ FreePid(p) /\ board'[s] = None /\ board'[w] = b /\ status'[w] = "has_board"
        /\ proc' = [proc EXCEPT ![p] = [state |-> "running", kind |-> "command", board |-> b]]
    BY <2>1, <2>2
  <2> QED
    BY <1>3, <2>3, <2>4, <2>5, <2>6, <2>7, ForkKeepsProcInv
<1> QED
  BY <1>4, <1>5

\* Session::on_setup_msg.
LEMMA SetupKeepsProcInv ==
    ASSUME AllocInv, ProcInv, AllocInv', NEW s \in Client, NEW m, status[s] = "created",
           on_setup_msg(s, m), daemon = "running", daemon' = daemon
    PROVE  ProcInv'
<1> DEFINE b == find_available_board(owner, asking_user(s, m))
<1>1. child_watcher[s] = Inactive /\ board[s] = None
  <2>1. child_watcher[s] = Inactive
    BY WatcherPid DEF AllocInv, TypeOK, WatcherMatchesStatus, Watcher
  <2> QED
    BY <2>1 DEF AllocInv, BoardOwnership
<1>2. ChildEvent(s) \notin pending
  BY <1>1 DEF ProcInv, ChildEventAfterReap
<1>3. CASE b # None /\ assign_board(s, b) /\ pending' = pending \ {ClientEvent(s)}
  <2>1. b \in Board
    BY <1>3, FoundBoard
  <2>2. PICK p \in Pid :
           /\ FreePid(p)
           /\ proc' = [proc EXCEPT ![p] = [state |-> "running", kind |-> "command", board |-> b]]
           /\ child_watcher' = [child_watcher EXCEPT ![s] = [pid |-> p, cb |-> "on_process_exit"]]
    BY <1>3, Zenon DEF assign_board, Fork
  <2>3. status' = [status EXCEPT ![s] = "has_board"] /\ board' = [board EXCEPT ![s] = b]
    BY <1>3, Zenon DEF assign_board
  <2> HIDE DEF b
  <2>4. /\ \A c \in Client \ {s} : board'[c] = board[c] /\ status'[c] = status[c]
        /\ board'[s] = b /\ status'[s] = "has_board"
    BY <2>3 DEF AllocInv, TypeOK
  <2>5. \A c \in Client : child_watcher'[c] =
           IF c = s THEN [pid |-> p, cb |-> "on_process_exit"] ELSE child_watcher[c]
    BY <2>2 DEF AllocInv, TypeOK
  <2>6. \A c \in Client : ChildEvent(c) \in pending' <=> ChildEvent(c) \in pending
    BY <1>3 DEF ChildEvent, ClientEvent
  <2> QED
    BY <1>2, <2>1, <2>2, <2>4, <2>5, <2>6, ForkKeepsProcInv
<1>4. CASE /\ status' = [status EXCEPT ![s] = "awaiting_board"]
           /\ pending' = pending \ {ClientEvent(s)}
           /\ UNCHANGED <<board, child_watcher, owner, proc>>
  <2>1. \A c \in Client : ChildEvent(c) \in pending' <=> ChildEvent(c) \in pending
    BY <1>4 DEF ChildEvent, ClientEvent
  <2>2. \A c \in Client \ {s} : status'[c] = status[c] /\ board'[c] = board[c]
    BY <1>4 DEF AllocInv, TypeOK
  <2>3. child_watcher' = [child_watcher EXCEPT ![s] = Inactive]
    BY <1>1, <1>4 DEF AllocInv, TypeOK
  <2> QED
    BY <1>1, <1>2, <1>4, <2>1, <2>2, <2>3, DestroyKeepsProcInv
<1>5. CASE daemon_close_session(s)
  BY <1>5, CloseKeepsProcInv
<1> QED
  BY <1>3, <1>4, <1>5, Zenon DEF on_setup_msg

\* Steps that change no session: processes may be killed, may exit and, if they
\* are not children of a running daemon, vanish.
LEMMA FrameKeepsProcInv ==
    ASSUME AllocInv, ProcInv, daemon' = daemon,
           UNCHANGED <<status, board, owner, child_watcher>>,
           \A c \in Client : ChildEvent(c) \in pending' <=> ChildEvent(c) \in pending,
           \A p \in Pid :
               \/ proc'[p] = proc[p]
               \/ /\ daemon = "running"
                  /\ proc'[p].kind = proc[p].kind /\ proc'[p].board = proc[p].board
                  /\ proc[p].state \in {"running", "killed"}
                  /\ proc'[p].state \in {"killed", "exited"}
               \/ /\ daemon = "stopped" \/ proc[p].state = "orphaned"
                  /\ proc'[p] = NoProc
    PROVE  ProcInv'
<1>1. WatchersDistinct'
  BY DEF ProcInv, WatchersDistinct
<1>2. ChildEventAfterReap'
  <2> SUFFICES ASSUME NEW c \in Client, ChildEvent(c) \in pending'
               PROVE  child_watcher[c] # Inactive /\ proc'[child_watcher[c].pid] = NoProc
    BY DEF ChildEventAfterReap, ChildEvent
  <2>1. child_watcher[c] # Inactive /\ proc[child_watcher[c].pid] = NoProc
    BY DEF ProcInv, ChildEventAfterReap
  <2>2. child_watcher[c].pid \in Pid
    BY <2>1, WatcherPid DEF AllocInv
  <2> QED
    BY <2>1, <2>2 DEF NoProc
<1>3. OwnerIsWoken'
  <2> SUFFICES ASSUME NEW c \in Client, board[c] # None
               PROVE  /\ child_watcher[c] # Inactive
                      /\ \/ ChildEvent(c) \in pending'
                         \/ /\ proc'[child_watcher[c].pid].board = board[c]
                            /\ proc'[child_watcher[c].pid].state \in {"running", "killed", "exited"}
    BY DEF OwnerIsWoken, ChildEvent
  <2>1. /\ child_watcher[c] # Inactive
        /\ \/ ChildEvent(c) \in pending
           \/ /\ proc[child_watcher[c].pid].board = board[c]
              /\ proc[child_watcher[c].pid].state \in {"running", "killed", "exited"}
    BY DEF ProcInv, OwnerIsWoken
  <2>2. child_watcher[c].pid \in Pid
    BY <2>1, WatcherPid DEF AllocInv
  <2>3. daemon # "stopped"
    BY DEF ProcInv, LeftBehind
  <2> QED
    BY <2>1, <2>2, <2>3
<1>4. CommandHasOwner'
  <2> SUFFICES ASSUME NEW x \in Pid, daemon = "running",
                      proc'[x].kind = "command", proc'[x].state # "orphaned"
               PROVE  \E o \in Client :
                         /\ owner[proc'[x].board] = o /\ status[o] = "has_board"
                         /\ child_watcher[o] = [pid |-> x, cb |-> "on_process_exit"]
    BY DEF CommandHasOwner
  <2>1. /\ proc[x].kind = "command" /\ proc[x].state # "orphaned"
        /\ proc'[x].board = proc[x].board
    BY DEF NoProc
  <2> QED
    BY <2>1 DEF ProcInv, CommandHasOwner
<1>5. LeftBehind'
  <2> SUFFICES ASSUME daemon = "stopped", NEW p \in Pid
               PROVE  /\ \A s \in Client : board[s] = None
                      /\ proc'[p].state \in
                            {"free", IF SocketActivated THEN "killed" ELSE "orphaned"}
    BY DEF LeftBehind, ProcInv
  <2> QED
    BY DEF ProcInv, LeftBehind, NoProc
<1> QED
  BY <1>1, <1>2, <1>3, <1>4, <1>5 DEF ProcInv

\* Session::close_session, called by the event of the client, when the watcher
\* is active if there is a board, or by the event of the child.
LEMMA SessionCloseKeepsProcInv ==
    ASSUME AllocInv, ProcInv, AllocInv', NEW s \in Client, NEW e, NEW active \in BOOLEAN,
           NEW readers, close_session(s, e, active, readers),
           daemon = "running", daemon' = daemon,
           \/ e = ClientEvent(s) /\ active = (child_watcher[s] # Inactive)
           \/ e = ChildEvent(s) /\ e \in pending /\ active = FALSE
    PROVE  ProcInv'
<1>1. status[s] = "has_board" /\ ~active =>
         e = ChildEvent(s) /\ proc[child_watcher[s].pid] = NoProc
  BY WatcherPid DEF AllocInv, WatcherMatchesStatus, ProcInv, ChildEventAfterReap
<1>2. CASE /\ status[s] = "has_board" /\ active
           /\ Kill(child_watcher[s].pid)
           /\ pending' = pending \ {e}
           /\ UNCHANGED <<status, board, username, child_watcher, owner, wait_queue, loop_done>>
  <2>1. e = ClientEvent(s)
    BY <1>2
  <2>2. \A c \in Client : ChildEvent(c) \in pending' <=> ChildEvent(c) \in pending
    BY <1>2, <2>1 DEF ChildEvent, ClientEvent
  <2>3. ASSUME NEW p \in Pid
        PROVE  \/ proc'[p] = proc[p]
               \/ /\ proc'[p].kind = proc[p].kind /\ proc'[p].board = proc[p].board
                  /\ proc[p].state \in {"running", "killed"}
                  /\ proc'[p].state \in {"killed", "exited"}
    <3>1. CASE p # child_watcher[s].pid
      BY <1>2, <3>1 DEF Kill, AllocInv, TypeOK
    <3>2. CASE p = child_watcher[s].pid /\ proc[p].state = "running"
      <4>1. proc'[p] = [proc[p] EXCEPT !.state = "killed"]
        BY <1>2, <3>2 DEF Kill, AllocInv, TypeOK
      <4>2. proc[p] \in Process /\ proc[p] # NoProc
        BY <3>2 DEF AllocInv, TypeOK, NoProc
      <4> QED
        BY <3>2, <4>1, <4>2 DEF Process
    <3>3. CASE p = child_watcher[s].pid /\ proc[p].state # "running"
      <4>1. proc'[p] = [proc[p] EXCEPT !.state = proc[p].state]
        BY <1>2, <3>3 DEF Kill, AllocInv, TypeOK
      <4>2. proc[p] \in Process
        BY DEF AllocInv, TypeOK
      <4> QED
        BY <4>1, <4>2 DEF Process, NoProc
    <3> QED
      BY <3>1, <3>2, <3>3
  <2> QED
    BY <1>2, <2>2, <2>3, FrameKeepsProcInv
<1>3. CASE /\ status[s] = "has_board" /\ ~active /\ close_command[board[s]]
           /\ start_close_command(s)
           /\ pending' = pending \ {e}
           /\ UNCHANGED <<board, username, owner, wait_queue, loop_done>>
  <2>1. PICK p \in Pid :
           /\ FreePid(p)
           /\ proc' = [proc EXCEPT
                          ![p] = [state |-> "running", kind |-> "close_command",
                                  board |-> board[s]]]
           /\ child_watcher' = [child_watcher EXCEPT
                                   ![s] = [pid |-> p, cb |-> "on_close_command_exit"]]
    BY <1>3, Zenon DEF start_close_command, Fork
  <2>2. status' = [status EXCEPT ![s] = "closing_board"] /\ board[s] \in Board
    BY <1>3 DEF start_close_command, AllocInv, TypeOK, BoardOwnership
  <2>3. /\ \A c \in Client \ {s} : board'[c] = board[c] /\ status'[c] = status[c]
        /\ board'[s] = board[s] /\ status'[s] = "closing_board"
    BY <1>3, <2>2 DEF AllocInv, TypeOK
  <2>4. \A c \in Client : child_watcher'[c] =
           IF c = s THEN [pid |-> p, cb |-> "on_close_command_exit"]
           ELSE IF c = s THEN Inactive ELSE child_watcher[c]
    BY <2>1 DEF AllocInv, TypeOK
  <2>5. /\ ChildEvent(s) \notin pending'
        /\ \A c \in Client \ {s} : ChildEvent(c) \in pending' <=> ChildEvent(c) \in pending
    BY <1>1, <1>3, OtherChildEvents
  <2>6. \A c \in Client \ {s, s} :
           /\ board'[c] = board[c] /\ status'[c] = status[c]
           /\ ChildEvent(c) \in pending' <=> ChildEvent(c) \in pending
    BY <2>3, <2>5
  <2>7. \A x \in {s, s} : status[x] = "has_board" => proc[child_watcher[x].pid] = NoProc
    BY <1>1, <1>3
  <2> QED
    BY <2>1, <2>2, <2>3, <2>4, <2>5, <2>6, <2>7, ForkKeepsProcInv
<1>4. CASE /\ ~(status[s] = "has_board" /\ (active \/ close_command[board[s]]))
           /\ daemon_close_session(s)
  BY <1>1, <1>4, CloseKeepsProcInv
<1> QED
  BY <1>2, <1>3, <1>4 DEF close_session

\* Every step of the specification keeps the invariant.
LEMMA NextKeepsProcInv ==
    ASSUME AllocInv, ProcInv, AllocInv', [Next]_vars
    PROVE  ProcInv'
<1>1. CASE on_client_connecting
  <2> DEFINE s == Head(backlog)
  <2>1. /\ daemon = "running" /\ backlog # <<>> /\ backlog \in Seq(Client) /\ IsInjective(backlog)
    BY <1>1 DEF on_client_connecting, Dispatching, AllocInv, ConnectionOrder, TypeOK
  <2>2. s \in ToSet(backlog) /\ s \in Client
    BY <2>1, TailInjects
  <2>3. /\ status' = [status EXCEPT ![s] = "created"] /\ pending' = pending \ {AcceptEvent}
        /\ daemon' = daemon /\ proc' = proc
        /\ UNCHANGED <<board, child_watcher>>
    BY <1>1, Zenon DEF on_client_connecting
  <2> HIDE DEF s
  <2>4. status[s] = "none" /\ board[s] = None
    BY <2>2 DEF AllocInv, ConnectionOrder, BoardOwnership
  <2>5. child_watcher[s] = Inactive
    BY <2>2, <2>4, WatcherPid DEF AllocInv, TypeOK, WatcherMatchesStatus, Watcher
  <2>6. child_watcher' = [child_watcher EXCEPT ![s] = Inactive]
    BY <2>2, <2>3, <2>5 DEF AllocInv, TypeOK
  <2>7. \A c \in Client : ChildEvent(c) \in pending' <=> ChildEvent(c) \in pending
    BY <2>3 DEF ChildEvent, AcceptEvent
  <2>8. ChildEvent(s) \notin pending'
    BY <2>2, <2>5, <2>7 DEF ProcInv, ChildEventAfterReap
  <2>9. \A c \in Client \ {s} : board'[c] = board[c] /\ status'[c] = status[c]
    BY <2>2, <2>3 DEF AllocInv, TypeOK
  <2> QED
    BY <2>1, <2>2, <2>3, <2>4, <2>6, <2>7, <2>8, <2>9, DestroyKeepsProcInv
<1>2. ASSUME NEW s \in Client, on_data_from_client(s)
      PROVE  ProcInv'
  <2>0. daemon = "running" /\ daemon' = daemon
    BY <1>2 DEF on_data_from_client, Dispatching
  <2>1. CASE msg[s] # None /\ on_setup_msg(s, msg[s])
    <3>1. status[s] = "created"
      BY <1>2, <2>1 DEF on_data_from_client, Dispatching, AllocInv, ConnectionOrder
    <3> QED
      BY <2>0, <2>1, <3>1, SetupKeepsProcInv
  <2>2. CASE close_session(s, ClientEvent(s), child_watcher[s] # Inactive, watching \ {s})
    <3>1. (child_watcher[s] # Inactive) \in BOOLEAN
      OBVIOUS
    <3> QED
      BY <2>0, <2>2, <3>1, SessionCloseKeepsProcInv
  <2> QED
    BY <1>2, <2>1, <2>2 DEF on_data_from_client
<1>3. ASSUME NEW s \in Client, on_process_exit(s) \/ on_close_command_exit(s)
      PROVE  ProcInv'
  <2>1. /\ daemon = "running" /\ daemon' = daemon /\ ChildEvent(s) \in pending
        /\ close_session(s, ChildEvent(s), FALSE, watching)
    BY <1>3 DEF on_process_exit, on_close_command_exit, child_exit, Dispatching
  <2> QED
    BY <2>1, SessionCloseKeepsProcInv
<1>4. CASE on_signal
  <2>1. \A c \in Client : ChildEvent(c) \in pending' <=> ChildEvent(c) \in pending
    BY <1>4 DEF on_signal, SignalEvent, ChildEvent
  <2> QED
    BY <1>4, <2>1, FrameKeepsProcInv DEF on_signal, heapVars
<1>5. CASE Poll
  <2>1. /\ daemon = "running" /\ pending = {} /\ pending' = Ready
        /\ UNCHANGED <<daemon, status, board, owner, child_watcher>>
    BY <1>5 DEF Poll, heapVars
  <2>2. \A p \in Pid : proc'[p] = IF proc[p].state = "exited" THEN NoProc ELSE proc[p]
    BY <1>5 DEF Poll, Reaped
  <2>3. \A c \in Client : ChildEvent(c) \in Ready <=>
           child_watcher[c].pid \in Pid /\ proc[child_watcher[c].pid].state = "exited"
    BY DEF Ready, Reaped, Event, AcceptEvent, SignalEvent, ClientEvent, ChildEvent
  <2>4. WatchersDistinct' /\ LeftBehind'
    BY <2>1 DEF ProcInv, WatchersDistinct, LeftBehind
  <2>5. ChildEventAfterReap'
    BY <2>1, <2>2, <2>3, WatcherPid DEF AllocInv, ChildEventAfterReap, ChildEvent
  <2>6. CommandHasOwner'
    BY <2>1, <2>2 DEF ProcInv, CommandHasOwner, NoProc
  <2>7. OwnerIsWoken'
    <3> SUFFICES ASSUME NEW c \in Client, board[c] # None
                 PROVE  /\ child_watcher[c] # Inactive
                        /\ \/ ChildEvent(c) \in pending'
                           \/ /\ proc'[child_watcher[c].pid].board = board[c]
                              /\ proc'[child_watcher[c].pid].state
                                    \in {"running", "killed", "exited"}
      BY <2>1 DEF OwnerIsWoken, ChildEvent
    <3>1. /\ child_watcher[c] # Inactive
          /\ proc[child_watcher[c].pid].board = board[c]
          /\ proc[child_watcher[c].pid].state \in {"running", "killed", "exited"}
      BY <2>1 DEF ProcInv, OwnerIsWoken
    <3> QED
      BY <2>1, <2>2, <2>3, <3>1, WatcherPid DEF AllocInv
  <2> QED
    BY <2>4, <2>5, <2>6, <2>7 DEF ProcInv
<1>6. CASE LoopExits \/ \E e \in pending : CallbackAborts(e)
  <2>1. DaemonExit
    BY <1>6 DEF LoopExits, CallbackAborts
  <2>2. /\ daemon' = "stopped" /\ pending' = {}
        /\ \A c \in Client : board'[c] = None /\ child_watcher'[c] = Inactive
    BY <2>1 DEF DaemonExit
  <2>3. ASSUME NEW p \in Pid
        PROVE  proc'[p].state \in {"free", IF SocketActivated THEN "killed" ELSE "orphaned"}
    <3>1. CASE ~Live(p)
      BY <2>1, <3>1 DEF DaemonExit, NoProc
    <3>2. CASE Live(p)
      <4>1. proc'[p] = [proc[p] EXCEPT !.state = IF SocketActivated THEN "killed" ELSE "orphaned"]
        BY <2>1, <3>2 DEF DaemonExit
      <4>2. proc[p] \in Process
        BY DEF AllocInv, TypeOK
      <4> QED
        BY <4>1, <4>2 DEF Process, NoProc
    <3> QED
      BY <3>1, <3>2
  <2> QED
    BY <2>2, <2>3 DEF ProcInv, CommandHasOwner, OwnerIsWoken, WatchersDistinct,
                      ChildEventAfterReap, LeftBehind
<1>7. CASE DaemonStart
  <2>1. /\ daemon = "stopped" /\ daemon' = "running"
        /\ SocketActivated => \A p \in Pid : proc[p] = NoProc
        /\ UNCHANGED <<pending, status, board, owner, child_watcher, proc>>
    BY <1>7 DEF DaemonStart, heapVars
  <2>2. \A p \in Pid : proc[p].state = "orphaned" \/ proc[p] = NoProc
    BY <2>1 DEF ProcInv, LeftBehind, AllocInv, TypeOK, Process, NoProc
  <2>3. CommandHasOwner'
    BY <2>1, <2>2 DEF CommandHasOwner, NoProc
  <2> QED
    BY <2>1, <2>3 DEF ProcInv, OwnerIsWoken, WatchersDistinct, ChildEventAfterReap, LeftBehind,
                      ChildEvent
<1>8. CASE \/ \E c \in Client : \/ Connect(c) \/ on_data_from_daemon(c) \/ ClientDies(c)
                                \/ \E o \in Options : send_setup(c, o)
           \/ Signal
           \/ UNCHANGED vars
  <2>1. UNCHANGED <<daemon, pending, heapVars, proc>>
    BY <1>8 DEF Connect, on_data_from_daemon, ClientDies, send_setup, Signal, vars, loopVars
  <2> QED
    BY <2>1, FrameKeepsProcInv DEF heapVars
<1>9. ASSUME NEW x \in Pid, ProcessExits(x)
      PROVE  ProcInv'
  <2>1. UNCHANGED <<daemon, pending, status, board, owner, child_watcher>>
    BY <1>9 DEF ProcessExits, loopVars, heapVars
  <2>2. ASSUME NEW p \in Pid, p # x
        PROVE  proc'[p] = proc[p]
    BY <1>9, <2>2 DEF ProcessExits, AllocInv, TypeOK
  <2>3. CASE daemon = "running" /\ proc[x].state # "orphaned"
    <3>1. proc'[x] = [proc[x] EXCEPT !.state = "exited"]
      BY <1>9, <2>3 DEF ProcessExits, AllocInv, TypeOK
    <3>2. proc[x].state \in {"running", "killed"} /\ proc[x] \in Process /\ proc[x] # NoProc
      BY <1>9, <2>3 DEF ProcessExits, Live, AllocInv, TypeOK, NoProc
    <3>3. /\ proc'[x].kind = proc[x].kind /\ proc'[x].board = proc[x].board
          /\ proc'[x].state = "exited"
      BY <3>1, <3>2 DEF Process
    <3> QED
      BY <2>1, <2>2, <2>3, <3>2, <3>3, FrameKeepsProcInv
  <2>4. CASE ~(daemon = "running" /\ proc[x].state # "orphaned")
    <3>1. proc'[x] = NoProc
      BY <1>9, <2>4 DEF ProcessExits, AllocInv, TypeOK
    <3>2. daemon = "stopped" \/ proc[x].state = "orphaned"
      BY <2>4 DEF AllocInv, TypeOK
    <3> QED
      BY <2>1, <2>2, <3>1, <3>2, FrameKeepsProcInv
  <2> QED
    BY <2>3, <2>4
<1> QED
  BY <1>1, <1>2, <1>3, <1>4, <1>5, <1>6, <1>7, <1>8, <1>9 DEF Next, Callback, Environment

\* The invariant holds when nothing has been started.
LEMMA InitProcInv == Init => ProcInv
BY NoneAssumption DEF Init, ProcInv, CommandHasOwner, OwnerIsWoken, WatchersDistinct,
                      ChildEventAfterReap, LeftBehind, NoProc, Inactive

\* In every behaviour the processes and the watchers are in order.
THEOREM ProcCorrect == Spec => []ProcInv
<1>1. AllocInv /\ ProcInv /\ AllocInv' /\ [Next]_vars => ProcInv'
  BY NextKeepsProcInv
<1> QED
  BY <1>1, InitProcInv, AllocCorrect, PTL DEF Spec

\* A command that has not been reaped belongs to the session that owns its board
\* (Session::close_session kills the command and waits before it goes on).
THEOREM CommandCorrect == Spec => []CommandHasOwner
<1>1. ProcInv => CommandHasOwner
  BY DEF ProcInv
<1> QED
  BY <1>1, ProcCorrect, PTL

\* A session that holds a board watches a child whose end wakes it up.
THEOREM WokenCorrect == Spec => []OwnerIsWoken
<1>1. ProcInv => OwnerIsWoken
  BY DEF ProcInv
<1> QED
  BY <1>1, ProcCorrect, PTL

=============================================================================
