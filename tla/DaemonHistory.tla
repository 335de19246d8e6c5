--------------------------- MODULE DaemonHistory ----------------------------
(***************************************************************************)
(* Daemon with two history variables: under which name a client asked,     *)
(* before the setup message cut it, and whether a signal has ended the     *)
(* loop.  They change with the steps of Daemon and restrict none of them.  *)
(***************************************************************************)
EXTENDS Daemon

VARIABLES
    given_name,  \* the --name of the client that sent its message, None without one
    by_signal    \* on_signal has run in this daemon

historyVars == <<vars, given_name, by_signal>>

HistoryInit ==
    /\ given_name = [c \in Client |-> None]
    /\ by_signal = FALSE

Record ==
    /\ given_name' = [c \in Client |->
          IF msg'[c] # None THEN msg'[c].name
          ELSE IF status'[c] = "none" THEN None
          ELSE given_name[c]]
    /\ by_signal' =
          /\ daemon' = "running"
          /\ by_signal \/ (SignalEvent \in pending /\ SignalEvent \notin pending')

HistorySpec == Init /\ HistoryInit /\ [][Next /\ Record]_historyVars

-----------------------------------------------------------------------------
(* Properties                                                              *)

\* The user's own name: the option --name, otherwise the account.
own_name(s) == IF given_name[s] = None THEN username_cred[s] ELSE given_name[s]

\* The setup message keeps only the beginning of the name.
NameCut(s) == given_name[s] # None /\ stored_name[given_name[s]] # given_name[s]

\* "only the given user can connect to this board" (README.md): the user of
\* whoever owns a reserved board is the one it is reserved for.
\* find_available_board compares the name of the setup message instead.
ReservedForOwnName ==
    \A s \in Client : board[s] # None => Usable(board[s], own_name(s))

\* Whoever owns a reserved board, at once or after waiting, is the user it is
\* reserved for; the only others that find_available_board lets in are users whose
\* name is too long for the setup message (protocol.hpp cuts it) and begins with
\* that user's name.  Nobody gets in under an account's name by giving another one.
ReservationRespected ==
    \A s \in Client :
        board[s] # None =>
            \/ Usable(board[s], own_name(s))
            \/ NameCut(s) /\ reserved_for[board[s]] = stored_name[given_name[s]]

\* When the last session of a daemon started by systemd is closed and
\* Daemon::close_session breaks the loop, no session is lost whose client has asked
\* for something: only connections accepted in the rest of that iteration are.
OnlyNewSessionsLost ==
    SocketActivated /\ loop_done /\ ~by_signal /\ pending = {} =>
        \A s \in Client : status[s] \in {"none", "created"}
=============================================================================
