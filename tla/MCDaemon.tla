------------------------------ MODULE MCDaemon ------------------------------
(* Instances of Daemon for TLC.                                            *)
EXTENDS Daemon

\* Two boards: the first one reserved and with a close command, the second open.
MCReserved == (1 :> "boss") @@ (2 :> None)
MCClose == (1 :> TRUE) @@ (2 :> FALSE)
MCCred == [c \in Client |-> "guest"]

\* A name of which the setup message keeps the name of another user.
MCStored == [u \in User |-> IF u = "bossy" THEN "boss" ELSE u]

MCOptions ==
    {[cmd |-> "connect", name |-> "boss", no_wait |-> TRUE],
     [cmd |-> "connect", name |-> None, no_wait |-> FALSE],
     [cmd |-> "connect", name |-> "bossy", no_wait |-> FALSE],
     [cmd |-> "list_sessions", name |-> None, no_wait |-> FALSE]}

\* One board with a close command, open to everybody.
MCOpen == (1 :> None)
MCOneClose == (1 :> TRUE)

MCTwoUsers ==
    {[cmd |-> "connect", name |-> "boss", no_wait |-> FALSE],
     [cmd |-> "connect", name |-> None, no_wait |-> FALSE]}

Symmetry == Permutations(Client) \cup Permutations(Pid)
=============================================================================
