----------------------------- MODULE Listeners ------------------------------
(***************************************************************************)
(* The sockets in sock_dir: how the constructor of Daemon creates them     *)
(* (setup_listener with the functions of UnixSocket), what a daemon leaves *)
(* behind when it ends, and whom clients and forwarded connections reach.  *)
(* Each system call is a step; the daemon may be killed between any two.   *)
(***************************************************************************)
EXTENDS Integers, Sequences

CONSTANTS
    Proc,        \* daemon processes, one after the other
    Client,      \* connections of clients
    Name,        \* names of the sockets: "boardproxy" and then those of proxy_factories
    Cut,         \* [name -> name]: what fits into sun_path
    Activation   \* the client socket is passed by systemd

Nobody == "nobody"
Systemd == "systemd"
Names == {Name[n] : n \in 1..Len(Name)}

\* The keys of the table sockets are distinct, and none of them is "boardproxy".
ASSUME NameAssumption ==
    /\ Len(Name) \in Nat \ {0} /\ DOMAIN Cut = Names
    /\ \A m, n \in 1..Len(Name) : Name[m] = Name[n] => m = n
ASSUME ProcAssumption == Nobody \notin Proc /\ Systemd \notin Proc
ASSUME ActivationAssumption == Activation \in BOOLEAN

File == Names \cup {Cut[n] : n \in Names}
Listener == (1..Len(Name)) \X (Proc \cup {Systemd})   \* the n-th socket of a process
NoListener == <<0, Nobody>>

VARIABLES
    file,       \* [File -> Listener]: the socket that a name leads to
    listening,  \* sockets that listen
    state,      \* [Proc -> state of the process]
    step,       \* [Proc -> socket and system call that come next in the constructor]
    conn,       \* [Client -> the socket it is connected to]
    accepted    \* [Client -> the daemon that has accepted it]

vars == <<file, listening, state, step, conn, accepted>>

First == [n |-> 1, call |-> "unlink"]

Alive(p) == state[p] \in {"starting", "running"}

\* Types of the variables, and only sockets of a living process listen: the
\* children of a daemon do not inherit them.
TypeOK ==
    /\ file \in [File -> Listener \cup {NoListener}]
    /\ listening \subseteq Listener
    /\ \A l \in listening : l[2] = Systemd \/ Alive(l[2])
    /\ state \in [Proc -> {"off", "starting", "running", "failed", "ended"}]
    /\ step \in [Proc -> [n : 1..(Len(Name) + 1), call : {"unlink", "bind", "listen"}]]
    /\ conn \in [Client -> Listener \cup {NoListener}]
    /\ accepted \in [Client -> Proc \cup {Nobody}]

Init ==
    /\ file = [f \in File |-> IF Activation /\ f = Cut[Name[1]] THEN <<1, Systemd>> ELSE NoListener]
    /\ listening = IF Activation THEN {<<1, Systemd>>} ELSE {}
    /\ state = [p \in Proc |-> "off"]
    /\ step = [p \in Proc |-> First]
    /\ conn = [c \in Client |-> NoListener]
    /\ accepted = [c \in Client |-> Nobody]

-----------------------------------------------------------------------------
(* The constructor                                                         *)

\* A daemon is started when the one before it is gone.
start(p) ==
    /\ state[p] = "off" /\ \A q \in Proc : ~Alive(q)
    /\ state' = [state EXCEPT ![p] = "starting"]
    /\ UNCHANGED <<file, listening, step, conn, accepted>>

\* The socket that p has now in hand: its own, or for the first one systemd's.
FromSystemd(p) == Activation /\ step[p].n = 1
Ready(p) == state[p] = "starting" /\ step[p].n <= Len(Name)
At(p, call) == Ready(p) /\ ~FromSystemd(p) /\ step[p].call = call
Current(p) == Name[step[p].n]
Socket(p) == <<step[p].n, p>>

Then(p, call) == step' = [step EXCEPT ![p].call = call]
NextSocket(p) == step' = [step EXCEPT ![p] = [n |-> step[p].n + 1, call |-> "unlink"]]

\* A socket that systemd passed is only watched.
watch_systemd_socket(p) ==
    /\ Ready(p) /\ FromSystemd(p) /\ NextSocket(p)
    /\ UNCHANGED <<file, listening, state, conn, accepted>>

\* Faulty variant: the name is left alone.
unlinked_kept(p) == file

\* The whole name is unlinked, and an error is ignored.
unlinked(p) == [file EXCEPT ![Current(p)] = NoListener]

unlink(p) ==
    /\ At(p, "unlink") /\ file' = unlinked(p) /\ Then(p, "bind")
    /\ UNCHANGED <<listening, state, conn, accepted>>

\* The sockets when those of p are closed (SOCK_CLOEXEC).
closed(p) == {l \in listening : l[2] # p}

\* UnixSocket::bind uses as much of the name as fits; a name that exists is an
\* error, which ends the daemon.
bind(p) ==
    LET name == Cut[Current(p)]
    IN  /\ At(p, "bind")
        /\ IF file[name] = NoListener
           THEN /\ file' = [file EXCEPT ![name] = Socket(p)] /\ Then(p, "listen")
                /\ UNCHANGED <<listening, state>>
           ELSE /\ state' = [state EXCEPT ![p] = "failed"] /\ listening' = closed(p)
                /\ UNCHANGED <<file, step>>
        /\ UNCHANGED <<conn, accepted>>

\* Faulty variant: only the socket for clients listens.
heard_first(p) == IF step[p].n = 1 THEN listening \cup {Socket(p)} ELSE listening

heard(p) == listening \cup {Socket(p)}

listen(p) ==
    /\ At(p, "listen") /\ listening' = heard(p) /\ NextSocket(p)
    /\ UNCHANGED <<file, state, conn, accepted>>

\* The constructor has finished and the loop runs.
run(p) ==
    /\ state[p] = "starting" /\ step[p].n > Len(Name)
    /\ state' = [state EXCEPT ![p] = "running"]
    /\ UNCHANGED <<file, listening, step, conn, accepted>>

\* The daemon stops or is killed.  The kernel closes its sockets and with them the
\* connections; the names stay.  systemd keeps its socket, with those who wait.
stop(p) ==
    /\ Alive(p)
    /\ state' = [state EXCEPT ![p] = "ended"]
    /\ listening' = closed(p)
    /\ accepted' = [c \in Client |-> IF accepted[c] = p THEN Nobody ELSE accepted[c]]
    /\ conn' = [c \in Client |-> IF accepted[c] = p \/ conn[c][2] = p THEN NoListener ELSE conn[c]]
    /\ UNCHANGED <<file, step>>

-----------------------------------------------------------------------------
(* Clients                                                                 *)

Reaches(name) == file[Cut[name]]

\* UnixSocket::connect: it fails unless the name leads to a socket that listens.
connect(c) ==
    /\ conn[c] = NoListener /\ Reaches(Name[1]) \in listening
    /\ conn' = [conn EXCEPT ![c] = Reaches(Name[1])]
    /\ UNCHANGED <<file, listening, state, step, accepted>>

\* Faulty variant: the socket that systemd passed is not watched.
watches_own(p, l) == l[2] = p

\* Whether p accepts connections of the socket l.
watches(p, l) == l[2] \in {p, Systemd}

\* Daemon::on_client_connecting, in the loop.
on_client_connecting(p, c) ==
    /\ state[p] = "running" /\ accepted[c] = Nobody
    /\ conn[c] \in listening /\ watches(p, conn[c])
    /\ accepted' = [accepted EXCEPT ![c] = p]
    /\ UNCHANGED <<file, listening, state, step, conn>>

\* The next system call of the constructor.
setup_listener(p) == watch_systemd_socket(p) \/ unlink(p) \/ bind(p) \/ listen(p)

Next ==
    \/ \E p \in Proc : start(p) \/ setup_listener(p) \/ run(p) \/ stop(p)
    \/ \E c \in Client : connect(c)
    \/ \E p \in Proc, c \in Client : on_client_connecting(p, c)

\* A daemon is restarted as long as there are processes, and system calls return.
Fairness ==
    /\ \A p \in Proc : WF_vars(start(p)) /\ WF_vars(run(p))
    /\ \A p \in Proc : WF_vars(setup_listener(p))
    /\ \A p \in Proc, c \in Client : WF_vars(on_client_connecting(p, c))

Spec == Init /\ [][Next]_vars
FairSpec == Spec /\ Fairness

-----------------------------------------------------------------------------
(* Properties                                                              *)

\* A client that was accepted can use every forwarded socket: each name leads to a
\* listening socket of the daemon that serves the client, whatever an earlier
\* daemon left behind and wherever it was killed.
SessionsForwardable ==
    \A c \in Client : accepted[c] # Nobody =>
        \A n \in 2..Len(Name) : Reaches(Name[n]) = <<n, accepted[c]>> /\ Reaches(Name[n]) \in listening

\* A daemon can be started again: what is left of an earlier one, killed at any
\* moment, never makes bind() fail.
Restartable == \A p \in Proc : state[p] # "failed"

\* A connection waits until a daemon accepts it, unless the daemon that listened
\* ends; one that systemd holds is accepted by the next daemon, which the last of
\* the processes stands for.
WaitingAccepted ==
    \A c \in Client :
        conn[c] # NoListener ~>
            accepted[c] # Nobody \/ conn[c] = NoListener \/ \A p \in Proc : state[p] = "ended"
=============================================================================
