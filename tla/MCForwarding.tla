---------------------------- MODULE MCForwarding ----------------------------
(* Instances of Forwarding for TLC.                                        *)
EXTENDS Forwarding

MCReserved == [b \in Board |-> IF b = 1 THEN "boss" ELSE None]
MCClose == [b \in Board |-> b = 1]
MCCred == [c \in Client |-> "boss"]
MCStored == [u \in User |-> u]
MCOptions == {[cmd |-> "connect", name |-> None, no_wait |-> FALSE]}

\* Every client has a parent of its own.
MCOwnParent == CHOOSE f \in [Client -> Ppid] : IsInjective(f)
\* All clients are started by one process: one SSH connection shared, or a shell.
MCSameParent == [c \in Client |-> CHOOSE q \in Ppid : TRUE]
=============================================================================
