---------------------------- MODULE MCAllocation ----------------------------
(* The daemon in two instances, checked in one run.  A behaviour is one of *)
(*   "systemd": socket activation, every client may be busy;               *)
(*   "manual":  a daemon started by hand, all kinds of requests, names     *)
(*              that are cut, at most MaxBusy clients at a time.           *)
EXTENDS MCDaemon, DaemonPool, DaemonHistory

CONSTANT MaxBusy

VARIABLE kind

Manual == INSTANCE Daemon WITH SocketActivated <- FALSE, Options <- MCOptions

Busy == {c \in Client : client[c] # "none" \/ status[c] # "none" \/ c \in ToSet(backlog)}

\* With systemd a signal may come at any time; here, when one client is busy.
ManualNext ==
    /\ Manual!Next
    /\ Cardinality(Busy') <= (IF signalled' THEN 1 ELSE MaxBusy)

AllocationInit == Init /\ HistoryInit /\ kind \in {"systemd", "manual"}

AllocationNext ==
    /\ (kind = "systemd" /\ Next) \/ (kind = "manual" /\ ManualNext)
    /\ Record
    /\ UNCHANGED kind

AllocationSpec == AllocationInit /\ [][AllocationNext]_<<historyVars, kind>>
=============================================================================
