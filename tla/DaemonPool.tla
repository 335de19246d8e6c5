----------------------------- MODULE DaemonPool -----------------------------
(* The daemon implements the board pool.                                   *)
EXTENDS Daemon

\* The sessions that hold or wait for a board.
Served == {s \in Client : status[s] \in {"awaiting_board", "has_board", "closing_board"}}

PoolUser == [s \in Client |-> IF s \in Served THEN get_username(s) ELSE None]

Pool == INSTANCE BoardPool WITH
    Customer <- Client, Name <- User, Resource <- Board,
    holder <- owner, queue <- wait_queue, user <- PoolUser

\* Refinement: whatever the order of callbacks, exits of children, disconnects
\* and crashes, what users see of the boards is what BoardPool allows; above all
\* a session that ends passes on exactly its own board, to the first waiting
\* session that may have it, although Daemon::close_session searches all boards.
ImplementsPool == Pool!PoolSpec
=============================================================================
