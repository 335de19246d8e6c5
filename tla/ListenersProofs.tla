--------------------------- MODULE ListenersProofs --------------------------
(***************************************************************************)
(* A daemon can always be started again, and sessions can use every        *)
(* forwarded socket: for any number of processes, clients and sockets,     *)
(* with and without systemd, if the names fit into sun_path.               *)
(***************************************************************************)
EXTENDS Listeners, TLAPS

Fits == \A name \in Names : Cut[name] = name

\* The m-th socket is one that the daemon creates itself.
Own(m) == m > 1 \/ ~Activation

OneAlive == \A p, q \in Proc : Alive(p) /\ Alive(q) => p = q

\* The constructor of p up to its current step: the sockets behind it are bound
\* and listen, and the one in hand is where the step says.
Progress(p) ==
    /\ state[p] # "failed"
    /\ state[p] = "off" => step[p] = First
    /\ state[p] = "running" => step[p].n = Len(Name) + 1
    /\ Alive(p) => \A m \in 1..Len(Name) :
                      m < step[p].n /\ Own(m) => file[Name[m]] = <<m, p>> /\ <<m, p>> \in listening
    /\ At(p, "bind") => file[Current(p)] = NoListener
    /\ At(p, "listen") => file[Current(p)] = Socket(p)

Accepted == \A c \in Client : accepted[c] # Nobody => state[accepted[c]] = "running"

IInv == TypeOK /\ OneAlive /\ (\A p \in Proc : Progress(p)) /\ Accepted

-----------------------------------------------------------------------------

\* Initially no process is alive and no client is accepted.
LEMMA InitInv == Init => IInv
<1> SUFFICES ASSUME Init PROVE IInv
  OBVIOUS
<1>1. 1 \in 1..Len(Name) /\ First \in [n : 1..(Len(Name) + 1), call : {"unlink", "bind", "listen"}]
  BY NameAssumption DEF First
<1>2. TypeOK
  <2>1. file \in [File -> Listener \cup {NoListener}]
    BY <1>1 DEF Init, Listener
  <2>2. listening \subseteq Listener /\ \A l \in listening : l[2] = Systemd
    BY <1>1 DEF Init, Listener
  <2>3. state \in [Proc -> {"off", "starting", "running", "failed", "ended"}]
    BY DEF Init
  <2>4. step \in [Proc -> [n : 1..(Len(Name) + 1), call : {"unlink", "bind", "listen"}]]
    BY <1>1 DEF Init
  <2>5. conn \in [Client -> Listener \cup {NoListener}] /\ accepted \in [Client -> Proc \cup {Nobody}]
    BY DEF Init
  <2> QED BY <2>1, <2>2, <2>3, <2>4, <2>5 DEF TypeOK
<1>3. \A p \in Proc : state[p] = "off" /\ step[p] = First
  BY DEF Init
<1>4. OneAlive /\ Accepted
  BY <1>3 DEF OneAlive, Accepted, Alive, Init
<1>5. \A p \in Proc : Progress(p)
  BY <1>3 DEF Progress, Alive, At, Ready
<1> QED BY <1>2, <1>4, <1>5 DEF IInv

\* While p is alive, no other process changes a name or takes a step.
LEMMA OthersRest ==
  ASSUME IInv, NEW p \in Proc, Alive(p), NEW q \in Proc, q # p
  PROVE  ~Alive(q) /\ state[q] # "starting" /\ state[q] # "running"
BY DEF IInv, OneAlive, Alive

\* A process that rests keeps its part of the invariant.
LEMMA RestingProgress ==
  ASSUME IInv, NEW q \in Proc, ~Alive(q), state'[q] = state[q], step'[q] = step[q]
  PROVE  Progress(q)'
BY DEF IInv, Progress, Alive, At, Ready

\* Each step of the constructor keeps the parts that concern other processes.
LEMMA ConstructorKeeps ==
  ASSUME IInv, NEW p \in Proc, state[p] = "starting", state' = state,
         \A q \in Proc : q # p => step'[q] = step[q],
         accepted' = accepted, Progress(p)'
  PROVE  OneAlive' /\ (\A q \in Proc : Progress(q)') /\ Accepted'
<1>1. \A q \in Proc : q # p => Progress(q)'
  BY OthersRest, RestingProgress DEF Alive
<1> QED BY <1>1 DEF IInv, OneAlive, Accepted, Alive

\* start: no process is alive, and the constructor begins with the first socket.
LEMMA StartInv == ASSUME IInv, NEW p \in Proc, start(p) PROVE IInv'
<1>1. step'[p] = First /\ \A q \in Proc : ~Alive(q)
  BY DEF start, IInv, Progress
<1>2. \A q \in Proc : q # p => state'[q] = state[q]
  BY DEF start, IInv, TypeOK
<1>3. state'[p] = "starting" /\ state' \in [Proc -> {"off", "starting", "running", "failed", "ended"}]
  BY DEF start, IInv, TypeOK
<1>4. TypeOK'
  BY <1>1, <1>2, <1>3 DEF start, IInv, TypeOK, Alive
<1>5. OneAlive'
  BY <1>1, <1>2 DEF OneAlive, Alive
<1>6. Progress(p)'
  BY <1>1, <1>3 DEF Progress, First, At, Ready
<1>7. \A q \in Proc : q # p => Progress(q)'
  BY <1>1, <1>2, RestingProgress DEF start
<1>8. Accepted'
  BY <1>1, <1>2 DEF start, IInv, Accepted, Alive, TypeOK
<1> QED BY <1>4, <1>5, <1>6, <1>7, <1>8 DEF IInv

\* A step to the next call or the next socket keeps the types.
LEMMA StepTypes ==
  ASSUME IInv, NEW p \in Proc, Ready(p)
  PROVE  /\ step[p].n \in 1..Len(Name) /\ Current(p) \in Names /\ Current(p) \in File
         /\ Socket(p) \in Listener /\ Alive(p)
         /\ \A call \in {"unlink", "bind", "listen"} :
               Then(p, call) =>
                  /\ step' \in [Proc -> [n : 1..(Len(Name) + 1), call : {"unlink", "bind", "listen"}]]
                  /\ step'[p] = [n |-> step[p].n, call |-> call]
                  /\ \A q \in Proc : q # p => step'[q] = step[q]
         /\ NextSocket(p) =>
               /\ step' \in [Proc -> [n : 1..(Len(Name) + 1), call : {"unlink", "bind", "listen"}]]
               /\ step'[p] = [n |-> step[p].n + 1, call |-> "unlink"]
               /\ \A q \in Proc : q # p => step'[q] = step[q]
<1>1. step \in [Proc -> [n : 1..(Len(Name) + 1), call : {"unlink", "bind", "listen"}]]
  BY DEF IInv, TypeOK
<1>2. step[p].n \in 1..Len(Name) /\ Len(Name) \in Nat
  BY <1>1, NameAssumption DEF Ready
<1>3. Current(p) \in Names /\ Current(p) \in File
  BY <1>2 DEF Current, Names, File
<1>4. Socket(p) \in Listener /\ Alive(p)
  BY <1>2 DEF Socket, Listener, Ready, Alive
<1>5. ASSUME NEW call \in {"unlink", "bind", "listen"}, Then(p, call)
      PROVE  /\ step' \in [Proc -> [n : 1..(Len(Name) + 1), call : {"unlink", "bind", "listen"}]]
             /\ step'[p] = [n |-> step[p].n, call |-> call]
             /\ \A q \in Proc : q # p => step'[q] = step[q]
  BY <1>1, <1>5 DEF Then
<1>6. ASSUME NextSocket(p)
      PROVE  /\ step' \in [Proc -> [n : 1..(Len(Name) + 1), call : {"unlink", "bind", "listen"}]]
             /\ step'[p] = [n |-> step[p].n + 1, call |-> "unlink"]
             /\ \A q \in Proc : q # p => step'[q] = step[q]
  <2>1. [n |-> step[p].n + 1, call |-> "unlink"]
           \in [n : 1..(Len(Name) + 1), call : {"unlink", "bind", "listen"}]
    BY <1>2
  <2> QED BY <1>1, <1>6, <2>1 DEF NextSocket
<1> QED BY <1>2, <1>3, <1>4, <1>5, <1>6

\* What the invariant says of the sockets behind the current one.
LEMMA BehindKnown ==
  ASSUME IInv, NEW p \in Proc, Ready(p), NEW m \in 1..Len(Name), m < step[p].n, Own(m)
  PROVE  file[Name[m]] = <<m, p>> /\ <<m, p>> \in listening /\ Name[m] # Current(p)
<1>1. step[p].n \in 1..Len(Name) /\ Alive(p)
  BY StepTypes
<1>2. file[Name[m]] = <<m, p>> /\ <<m, p>> \in listening
  BY <1>1 DEF IInv, Progress
<1>3. Name[m] # Current(p)
  BY <1>1, NameAssumption DEF Current
<1> QED BY <1>2, <1>3

\* unlink: the name is free, and the names behind it are other ones.
LEMMA UnlinkInv == ASSUME IInv, NEW p \in Proc, unlink(p) PROVE IInv'
<1>1. Ready(p) /\ ~FromSystemd(p) /\ Then(p, "bind") /\ state[p] = "starting"
  BY DEF unlink, At, Ready
<1>2. /\ step' \in [Proc -> [n : 1..(Len(Name) + 1), call : {"unlink", "bind", "listen"}]]
      /\ step'[p] = [n |-> step[p].n, call |-> "bind"]
      /\ \A q \in Proc : q # p => step'[q] = step[q]
      /\ Current(p) \in File
  BY <1>1, StepTypes
<1>3. /\ file' \in [File -> Listener \cup {NoListener}] /\ file'[Current(p)] = NoListener
      /\ \A f \in File : f # Current(p) => file'[f] = file[f]
  BY <1>2 DEF unlink, unlinked, IInv, TypeOK
<1>4. TypeOK'
  BY <1>2, <1>3 DEF unlink, IInv, TypeOK, Alive
<1>5. \A m \in 1..Len(Name) : m < step[p].n /\ Own(m) => file'[Name[m]] = <<m, p>> /\ <<m, p>> \in listening'
  <2> TAKE m \in 1..Len(Name)
  <2> HAVE m < step[p].n /\ Own(m)
  <2>1. Name[m] \in File
    BY DEF File, Names
  <2> QED BY <1>1, <1>3, <2>1, BehindKnown DEF unlink
<1>6. Progress(p)'
  <2>1. step'[p].n = step[p].n /\ step'[p].call = "bind" /\ state'[p] = "starting"
    BY <1>1, <1>2 DEF unlink
  <2>2. ~At(p, "listen")' /\ Current(p)' = Current(p)
    BY <2>1 DEF At, Current
  <2> QED BY <1>3, <1>5, <2>1, <2>2 DEF Progress, Own
<1> QED BY <1>1, <1>2, <1>4, <1>6, ConstructorKeeps DEF IInv, unlink

\* bind: the name is free, since it was unlinked and nobody else is alive.
LEMMA BindInv == ASSUME Fits, IInv, NEW p \in Proc, bind(p) PROVE IInv'
<1>1. Ready(p) /\ ~FromSystemd(p) /\ state[p] = "starting" /\ At(p, "bind")
  BY DEF bind, At, Ready
<1>2. Current(p) \in File /\ Cut[Current(p)] = Current(p) /\ Socket(p) \in Listener
  BY <1>1, StepTypes DEF Fits
<1>3. file[Current(p)] = NoListener
  BY <1>1 DEF IInv, Progress
<1>4. /\ file' = [file EXCEPT ![Current(p)] = Socket(p)] /\ Then(p, "listen")
      /\ listening' = listening /\ state' = state /\ conn' = conn /\ accepted' = accepted
  BY <1>2, <1>3 DEF bind
<1>5. /\ step' \in [Proc -> [n : 1..(Len(Name) + 1), call : {"unlink", "bind", "listen"}]]
      /\ step'[p] = [n |-> step[p].n, call |-> "listen"]
      /\ \A q \in Proc : q # p => step'[q] = step[q]
  BY <1>1, <1>4, StepTypes
<1>6. /\ file' \in [File -> Listener \cup {NoListener}] /\ file'[Current(p)] = Socket(p)
      /\ \A f \in File : f # Current(p) => file'[f] = file[f]
  BY <1>2, <1>4 DEF IInv, TypeOK
<1>7. TypeOK'
  BY <1>4, <1>5, <1>6 DEF IInv, TypeOK, Alive
<1>8. \A m \in 1..Len(Name) : m < step[p].n /\ Own(m) => file'[Name[m]] = <<m, p>> /\ <<m, p>> \in listening'
  <2> TAKE m \in 1..Len(Name)
  <2> HAVE m < step[p].n /\ Own(m)
  <2>1. Name[m] \in File
    BY DEF File, Names
  <2> QED BY <1>1, <1>4, <1>6, <2>1, BehindKnown
<1>9. Progress(p)'
  <2>1. step'[p].n = step[p].n /\ step'[p].call = "listen" /\ state'[p] = "starting"
    BY <1>1, <1>4, <1>5
  <2>2. ~At(p, "bind")' /\ Current(p)' = Current(p) /\ Socket(p)' = Socket(p)
    BY <2>1 DEF At, Current, Socket
  <2> QED BY <1>6, <1>8, <2>1, <2>2 DEF Progress, Own
<1> QED BY <1>1, <1>4, <1>5, <1>7, <1>9, ConstructorKeeps DEF IInv

\* listen: the socket in hand joins the ones behind.
LEMMA ListenInv == ASSUME IInv, NEW p \in Proc, listen(p) PROVE IInv'
<1>1. Ready(p) /\ ~FromSystemd(p) /\ NextSocket(p) /\ state[p] = "starting" /\ At(p, "listen")
  BY DEF listen, At, Ready
<1>2. /\ step' \in [Proc -> [n : 1..(Len(Name) + 1), call : {"unlink", "bind", "listen"}]]
      /\ step'[p] = [n |-> step[p].n + 1, call |-> "unlink"]
      /\ \A q \in Proc : q # p => step'[q] = step[q]
      /\ Socket(p) \in Listener /\ Alive(p) /\ step[p].n \in 1..Len(Name)
  BY <1>1, StepTypes
<1>3. listening' = listening \cup {Socket(p)} /\ file' = file /\ state' = state
  BY DEF listen, heard
<1>4. TypeOK'
  <2>1. Socket(p)[2] = p /\ Alive(p)'
    BY <1>2, <1>3 DEF Socket, Alive
  <2>2. \A l \in listening' : l[2] = Systemd \/ Alive(l[2])'
    BY <1>3, <2>1 DEF IInv, TypeOK, Alive
  <2> QED BY <1>2, <1>3, <2>2 DEF listen, IInv, TypeOK
<1>5. file[Current(p)] = Socket(p)
  BY <1>1 DEF IInv, Progress
<1>6. \A m \in 1..Len(Name) : m < step[p].n + 1 /\ Own(m) => file'[Name[m]] = <<m, p>> /\ <<m, p>> \in listening'
  <2> TAKE m \in 1..Len(Name)
  <2> HAVE m < step[p].n + 1 /\ Own(m)
  <2>1. CASE m = step[p].n
    BY <1>3, <1>5, <2>1 DEF Current, Socket
  <2>2. CASE m < step[p].n
    BY <1>1, <1>3, <2>2, BehindKnown
  <2> QED BY <1>2, <2>1, <2>2
<1>7. Progress(p)'
  <2>1. step'[p].n = step[p].n + 1 /\ step'[p].call = "unlink" /\ state'[p] = "starting"
    BY <1>1, <1>2, <1>3
  <2>2. ~At(p, "bind")' /\ ~At(p, "listen")'
    BY <2>1 DEF At
  <2> QED BY <1>6, <2>1, <2>2 DEF Progress, Own
<1> QED BY <1>1, <1>2, <1>4, <1>7, ConstructorKeeps DEF IInv, listen

\* A socket of systemd is stepped over.
LEMMA WatchInv == ASSUME IInv, NEW p \in Proc, watch_systemd_socket(p) PROVE IInv'
<1>1. Ready(p) /\ NextSocket(p) /\ state[p] = "starting" /\ step[p].n = 1 /\ Activation
  BY DEF watch_systemd_socket, Ready, FromSystemd
<1>2. /\ step' \in [Proc -> [n : 1..(Len(Name) + 1), call : {"unlink", "bind", "listen"}]]
      /\ step'[p] = [n |-> step[p].n + 1, call |-> "unlink"]
      /\ \A q \in Proc : q # p => step'[q] = step[q]
  BY <1>1, StepTypes
<1>3. TypeOK'
  BY <1>2 DEF watch_systemd_socket, IInv, TypeOK, Alive
<1>4. Progress(p)'
  <2>1. step'[p].n = 2 /\ step'[p].call = "unlink" /\ state'[p] = "starting"
    BY <1>1, <1>2 DEF watch_systemd_socket
  <2>2. ~At(p, "bind")' /\ ~At(p, "listen")'
    BY <2>1 DEF At
  <2>3. \A m \in 1..Len(Name) : ~(m < 2 /\ Own(m))
    BY <1>1, NameAssumption DEF Own
  <2> QED BY <2>1, <2>2, <2>3 DEF Progress, Own
<1> QED BY <1>1, <1>2, <1>3, <1>4, ConstructorKeeps DEF IInv, watch_systemd_socket

\* run: all sockets are behind.
LEMMA RunInv == ASSUME IInv, NEW p \in Proc, run(p) PROVE IInv'
<1>1. /\ state' \in [Proc -> {"off", "starting", "running", "failed", "ended"}] /\ state'[p] = "running"
      /\ \A q \in Proc : q # p => state'[q] = state[q]
      /\ \A q \in Proc : Alive(q)' = Alive(q)
  BY DEF run, IInv, TypeOK, Alive
<1>2. TypeOK'
  <2>1. \A l \in listening' : l[2] = Systemd \/ Alive(l[2])'
    BY <1>1 DEF run, IInv, TypeOK, Listener
  <2> QED BY <1>1, <2>1 DEF run, IInv, TypeOK
<1>3. OneAlive' /\ Accepted'
  BY <1>1 DEF run, IInv, OneAlive, Accepted, TypeOK
<1>4. Alive(p) /\ step[p].n = Len(Name) + 1
  BY NameAssumption DEF run, IInv, TypeOK, Alive
<1>5. \A q \in Proc : q # p => Progress(q)'
  BY <1>1, <1>4, OthersRest, RestingProgress DEF run
<1>6. Progress(p)'
  <2>1. ~At(p, "bind")' /\ ~At(p, "listen")'
    BY <1>1 DEF At, Ready
  <2> QED BY <1>1, <1>4, <2>1 DEF run, IInv, Progress, Own
<1> QED BY <1>2, <1>3, <1>5, <1>6 DEF IInv

\* stop: the process takes its sockets and its clients with it, and nobody else is
\* alive to miss them.
LEMMA EndInv == ASSUME IInv, NEW p \in Proc, stop(p) PROVE IInv'
<1>1. /\ state' \in [Proc -> {"off", "starting", "running", "failed", "ended"}] /\ state'[p] = "ended"
      /\ \A q \in Proc : q # p => state'[q] = state[q]
      /\ Alive(p)
  BY DEF stop, IInv, TypeOK
<1>2. \A q \in Proc : q # p => ~Alive(q) /\ ~Alive(q)' /\ state[q] # "running"
  BY <1>1, OthersRest DEF Alive
<1>3. listening' \subseteq listening /\ \A l \in listening' : l[2] # p
  BY DEF stop, closed
<1>4. \A l \in listening' : l[2] = Systemd \/ Alive(l[2])'
  BY <1>1, <1>3 DEF IInv, TypeOK, Alive, Listener
<1>5. conn' \in [Client -> Listener \cup {NoListener}]
  BY DEF stop, IInv, TypeOK
<1>6. accepted' \in [Client -> Proc \cup {Nobody}]
  BY DEF stop, IInv, TypeOK
<1>7. TypeOK'
  BY <1>1, <1>3, <1>4, <1>5, <1>6 DEF stop, IInv, TypeOK
<1>8. OneAlive'
  BY <1>1, <1>2 DEF OneAlive, Alive
<1>9. Accepted'
  <2>1. \A c \in Client : accepted'[c] = Nobody
    BY <1>1, <1>2 DEF stop, IInv, TypeOK, Accepted
  <2> QED BY <2>1 DEF Accepted
<1>10. \A q \in Proc : q # p => Progress(q)'
  BY <1>1, <1>2, RestingProgress DEF stop
<1>11. Progress(p)'
  <2>1. ~At(p, "bind")' /\ ~At(p, "listen")' /\ ~Alive(p)'
    BY <1>1 DEF At, Ready, Alive
  <2> QED BY <1>1, <2>1 DEF Progress
<1> QED BY <1>7, <1>8, <1>9, <1>10, <1>11 DEF IInv

\* Clients change neither names, nor sockets, nor processes.
LEMMA ClientInv ==
  ASSUME IInv, NEW c \in Client,
         connect(c) \/ \E p \in Proc : on_client_connecting(p, c)
  PROVE  IInv'
<1>1. UNCHANGED <<file, listening, state, step>>
  BY DEF connect, on_client_connecting
<1>2. OneAlive' /\ \A q \in Proc : Progress(q)'
  BY <1>1 DEF IInv, OneAlive, Progress, Alive, At, Ready, FromSystemd, Current, Socket
<1>3. conn' \in [Client -> Listener \cup {NoListener}]
  BY DEF connect, on_client_connecting, IInv, TypeOK
<1>4. accepted' \in [Client -> Proc \cup {Nobody}] /\ Accepted'
  <2>1. CASE connect(c)
    BY <1>1, <2>1 DEF connect, IInv, TypeOK, Accepted
  <2>2. CASE \E p \in Proc : on_client_connecting(p, c)
    BY <1>1, <2>2 DEF on_client_connecting, IInv, TypeOK, Accepted
  <2> QED BY <2>1, <2>2
<1>5. TypeOK'
  BY <1>1, <1>3, <1>4 DEF IInv, TypeOK, Alive
<1> QED BY <1>2, <1>4, <1>5 DEF IInv

\* If every name fits into sun_path, the invariant holds throughout: of a daemon
\* that lives, the sockets behind the current step of its constructor are bound
\* and listen, and what an earlier one has left is unlinked before bind().
THEOREM ListenersCorrect == ASSUME Fits PROVE Spec => []IInv
<1>1. IInv /\ [Next]_vars => IInv'
  <2> SUFFICES ASSUME IInv, [Next]_vars PROVE IInv'
    OBVIOUS
  <2>1. CASE UNCHANGED vars
    BY <2>1 DEF vars, IInv, TypeOK, OneAlive, Progress, Accepted, Alive, At, Ready, FromSystemd, Current, Socket
  <2>2. CASE \E p \in Proc : start(p) \/ watch_systemd_socket(p) \/ unlink(p) \/ bind(p) \/ listen(p)
                             \/ run(p) \/ stop(p)
    BY <2>2, StartInv, WatchInv, UnlinkInv, BindInv, ListenInv, RunInv, EndInv
  <2>3. CASE \E c \in Client : connect(c)
    BY <2>3, ClientInv
  <2>4. CASE \E p \in Proc, c \in Client : on_client_connecting(p, c)
    BY <2>4, ClientInv
  <2> QED BY <2>1, <2>2, <2>3, <2>4 DEF Next, setup_listener
<1> QED BY <1>1, InitInv, PTL DEF Spec

\* Whatever an earlier daemon has left and wherever it was killed, bind() of the
\* next one succeeds, if every name fits into sun_path.
THEOREM RestartCorrect == ASSUME Fits PROVE Spec => []Restartable
<1>1. IInv => Restartable
  BY DEF IInv, Progress, Restartable
<1> QED BY <1>1, ListenersCorrect, PTL

\* A client that was accepted reaches, under the name of each forwarded socket, a
\* listening socket of the daemon that serves it, if every name fits into sun_path.
THEOREM ForwardableCorrect == ASSUME Fits PROVE Spec => []SessionsForwardable
<1>1. IInv => SessionsForwardable
  <2> SUFFICES ASSUME IInv, NEW c \in Client, accepted[c] # Nobody, NEW n \in 2..Len(Name)
               PROVE  Reaches(Name[n]) = <<n, accepted[c]>> /\ Reaches(Name[n]) \in listening
    BY DEF SessionsForwardable
  <2>1. accepted[c] \in Proc /\ state[accepted[c]] = "running"
    BY DEF IInv, TypeOK, Accepted
  <2>2. n \in 1..Len(Name) /\ n < Len(Name) + 1 /\ Own(n) /\ Name[n] \in Names
    BY NameAssumption DEF Own, Names
  <2>3. file[Name[n]] = <<n, accepted[c]>> /\ <<n, accepted[c]>> \in listening
    BY <2>1, <2>2 DEF IInv, Progress, Alive
  <2> QED BY <2>2, <2>3 DEF Fits, Reaches
<1> QED BY <1>1, ListenersCorrect, PTL
=============================================================================
