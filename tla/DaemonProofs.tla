---------------------------- MODULE DaemonProofs ----------------------------
(* Proofs of the safety properties of Daemon.                              *)
EXTENDS Daemon, SequenceTheorems, WellFoundedInduction, TLAPS

-----------------------------------------------------------------------------
(* Lemmas about the operators the specification is built from              *)

\* Min, the first match in a list, exists and is what its name says.
LEMMA MinExists ==
    ASSUME NEW S \in SUBSET Nat, S # {}
    PROVE  Min(S) \in S /\ \A y \in S : Min(S) <= y
<1> DEFINE R == {ss \in Nat \X Nat : ss[1] < ss[2]}
<1>1. IsWellFoundedOn(R, Nat)
  BY NatLessThanWellFounded, Zenon DEF OpToRel
<1>2. PICK x \in S : \A y \in S : <<y, x>> \notin R
  BY <1>1, WFMin
<1>3. ASSUME NEW y \in S PROVE x <= y
  <2>1. x \in Nat /\ y \in Nat
    OBVIOUS
  <2>2. y < x => <<y, x>> \in R
    BY <2>1
  <2> QED
    BY <1>2, <2>1, <2>2
<1> QED
  BY <1>3 DEF Min

\* Taking element p out of a sequence.
LEMMA RemoveAtElements ==
    ASSUME NEW S, NEW q \in Seq(S), NEW p \in DOMAIN q
    PROVE  /\ RemoveAt(q, p) \in Seq(S)
           /\ Len(RemoveAt(q, p)) = Len(q) - 1
           /\ \A i \in 1..Len(RemoveAt(q, p)) :
                 RemoveAt(q, p)[i] = IF i < p THEN q[i] ELSE q[i + 1]
<1> DEFINE r == RemoveAt(q, p)
<1>1. p \in 1..Len(q) /\ Len(q) \in Nat
  OBVIOUS
<1>2. PICK a \in Seq(S) : /\ a = SubSeq(q, 1, p - 1) /\ Len(a) = p - 1
                          /\ \A i \in 1..(p - 1) : a[i] = q[i]
  <2>1. /\ SubSeq(q, 1, p - 1) \in Seq(S) /\ Len(SubSeq(q, 1, p - 1)) = p - 1
        /\ \A i \in 1..(p - 1) : SubSeq(q, 1, p - 1)[i] = q[i]
    BY <1>1, SubSeqProperties
  <2> QED
    BY <2>1, Zenon
<1>3. PICK b \in Seq(S) : /\ b = SubSeq(q, p + 1, Len(q)) /\ Len(b) = Len(q) - p
                          /\ \A i \in 1..(Len(q) - p) : b[i] = q[i + p]
  <2>1. /\ SubSeq(q, p + 1, Len(q)) \in Seq(S)
        /\ Len(SubSeq(q, p + 1, Len(q))) = Len(q) - p
        /\ \A i \in 1..(Len(q) - p) : SubSeq(q, p + 1, Len(q))[i] = q[i + p]
    BY <1>1, SubSeqProperties
  <2> QED
    BY <2>1, Zenon
<1>4. r = a \o b
  BY <1>2, <1>3, Zenon DEF RemoveAt
<1>5. /\ a \o b \in Seq(S) /\ Len(a \o b) = Len(q) - 1
      /\ \A i \in 1..Len(a \o b) : (a \o b)[i] = IF i < p THEN q[i] ELSE q[i + 1]
  <2>1. Len(a) = p - 1 /\ \A i \in 1..(p - 1) : a[i] = q[i]
    BY <1>2, Zenon
  <2>2. Len(b) = Len(q) - p /\ \A i \in 1..(Len(q) - p) : b[i] = q[i + p]
    BY <1>3, Zenon
  <2> HIDE DEF r
  <2>3. Len(q) \in Nat /\ p \in Nat /\ Len(a) + Len(b) = Len(q) - 1
    BY <1>1, <2>1, <2>2
  <2>4. /\ a \o b \in Seq(S) /\ Len(a \o b) = Len(a) + Len(b)
        /\ \A i \in 1..(Len(a) + Len(b)) :
              (a \o b)[i] = IF i <= Len(a) THEN a[i] ELSE b[i - Len(a)]
    BY ConcatProperties
  <2>5. ASSUME NEW i \in 1..(Len(q) - 1) PROVE (a \o b)[i] = IF i < p THEN q[i] ELSE q[i + 1]
    <3>1. CASE i < p
      <4>1. (a \o b)[i] = a[i] /\ i \in 1..(p - 1)
        BY <2>1, <2>2, <2>3, <2>4, <3>1
      <4> QED
        BY <4>1, <3>1, <2>1
    <3>2. CASE i >= p
      <4>1. (a \o b)[i] = b[i - (p - 1)] /\ i - (p - 1) \in 1..(Len(q) - p)
        <5>1. i \in 1..(Len(a) + Len(b)) /\ ~(i <= Len(a)) /\ Len(a) = p - 1
          BY <2>1, <2>3, <3>2
        <5>2. (a \o b)[i] = b[i - Len(a)]
          BY <2>4, <5>1
        <5>3. i - (p - 1) \in 1..(Len(q) - p)
          BY <2>3, <3>2
        <5> QED
          BY <5>1, <5>2, <5>3
      <4>2. (i - (p - 1)) + p = i + 1
        BY <2>3
      <4>3. b[i - (p - 1)] = q[(i - (p - 1)) + p]
        BY <4>1, <2>2
      <4> QED
        BY <4>1, <4>2, <4>3, <3>2, <2>3
    <3> QED
      BY <3>1, <3>2, <2>3
  <2> QED
    BY <2>3, <2>4, <2>5
<1> QED
  BY <1>4, <1>5, Zenon

\* Taking element p out of a sequence without repetitions.
LEMMA RemoveAtProperties ==
    ASSUME NEW S, NEW q \in Seq(S), IsInjective(q), NEW p \in DOMAIN q
    PROVE  /\ RemoveAt(q, p) \in Seq(S)
           /\ IsInjective(RemoveAt(q, p))
           /\ ToSet(RemoveAt(q, p)) = ToSet(q) \ {q[p]}
<1> DEFINE r == RemoveAt(q, p)
<1>1. /\ r \in Seq(S) /\ Len(r) = Len(q) - 1
      /\ \A i \in 1..Len(r) : r[i] = IF i < p THEN q[i] ELSE q[i + 1]
  BY RemoveAtElements
<1>2. DOMAIN r = 1..(Len(q) - 1) /\ DOMAIN q = 1..Len(q) /\ Len(q) \in Nat /\ p \in 1..Len(q)
  BY <1>1
<1>3. IsInjective(r)
  BY <1>1, <1>2 DEF IsInjective
<1>4. ASSUME NEW x \in ToSet(r) PROVE x \in ToSet(q) \ {q[p]}
  <2>1. PICK i \in 1..Len(r) : x = r[i]
    BY <1>2, <1>1, <1>4 DEF ToSet
  <2> QED
    BY <2>1, <1>1, <1>2 DEF ToSet, IsInjective
<1>5. ASSUME NEW x \in ToSet(q) \ {q[p]} PROVE x \in ToSet(r)
  <2>1. PICK i \in 1..Len(q) : x = q[i] /\ i # p
    BY <1>2, <1>5 DEF ToSet
  <2>2. CASE i < p
    BY <2>1, <2>2, <1>1, <1>2 DEF ToSet
  <2>3. CASE i > p
    <3>1. i - 1 \in 1..Len(r) /\ r[i - 1] = q[i]
      BY <2>1, <2>3, <1>1, <1>2
    <3> QED
      BY <3>1, <2>1, <1>1, <1>2 DEF ToSet
  <2> QED
    BY <2>1, <2>2, <2>3, <1>2
<1> QED
  BY <1>1, <1>3, <1>4, <1>5

\* The board find_available_board returns is free and may be given to the user.
LEMMA FoundBoard ==
    ASSUME NEW own, NEW u, find_available_board(own, u) # None
    PROVE  /\ find_available_board(own, u) \in Board
           /\ own[find_available_board(own, u)] = None
           /\ Usable(find_available_board(own, u), u)
<1> DEFINE available == {b \in Board : own[b] = None}
           reserved  == {b \in available : reserved_for[b] # None /\ reserved_for[b] = u}
           others    == {b \in available : reserved_for[b] = None}
<1>1. reserved \in SUBSET Nat /\ others \in SUBSET Nat
  BY ConstantsAssumption DEF Board
<1>2. reserved # {} => Min(reserved) \in reserved
  BY <1>1, MinExists
<1>3. others # {} => Min(others) \in others
  BY <1>1, MinExists
<1> QED
  BY <1>2, <1>3 DEF find_available_board, Usable

\* When it returns nullptr, no free board may be given to the user.
LEMMA NoBoardFound ==
    ASSUME NEW own, NEW u, find_available_board(own, u) = None,
           NEW b \in Board, own[b] = None
    PROVE  ~Usable(b, u)
<1> DEFINE available == {c \in Board : own[c] = None}
           reserved  == {c \in available : reserved_for[c] # None /\ reserved_for[c] = u}
           others    == {c \in available : reserved_for[c] = None}
<1>1. reserved \in SUBSET Nat /\ others \in SUBSET Nat
  BY ConstantsAssumption DEF Board
<1>2. reserved # {} => Min(reserved) \in Board
  BY <1>1, MinExists
<1>3. others # {} => Min(others) \in Board
  BY <1>1, MinExists
<1> QED
  BY <1>2, <1>3, NoneAssumption DEF find_available_board, Usable

\* Session s taken out of the queue.
LEMMA QueueWithoutProperties ==
    ASSUME NEW s \in Client, wait_queue \in Seq(Client), IsInjective(wait_queue)
    PROVE  /\ QueueWithout(s) \in Seq(Client)
           /\ IsInjective(QueueWithout(s))
           /\ ToSet(QueueWithout(s)) = ToSet(wait_queue) \ {s}
<1>1. CASE s \in ToSet(wait_queue)
  <2> DEFINE p == CHOOSE i \in DOMAIN wait_queue : wait_queue[i] = s
  <2>1. p \in DOMAIN wait_queue /\ wait_queue[p] = s
    BY <1>1 DEF ToSet
  <2>2. QueueWithout(s) = RemoveAt(wait_queue, p)
    BY <1>1 DEF QueueWithout
  <2> HIDE DEF p
  <2> QED
    BY <2>1, <2>2, RemoveAtProperties
<1>2. CASE s \notin ToSet(wait_queue)
  <2>1. QueueWithout(s) = wait_queue
    BY <1>2 DEF QueueWithout
  <2> QED
    BY <1>2, <2>1
<1> QED
  BY <1>1, <1>2

\* A new element at the end of a sequence without repetitions.
LEMMA AppendInjects ==
    ASSUME NEW S, NEW q \in Seq(S), IsInjective(q), NEW e \in S, e \notin ToSet(q)
    PROVE  /\ Append(q, e) \in Seq(S)
           /\ IsInjective(Append(q, e))
           /\ ToSet(Append(q, e)) = ToSet(q) \cup {e}
           /\ Append(q, e) # <<>>
<1>1. /\ Append(q, e) \in Seq(S) /\ Len(Append(q, e)) = Len(q) + 1 /\ Len(q) \in Nat
      /\ DOMAIN Append(q, e) = 1..(Len(q) + 1) /\ DOMAIN q = 1..Len(q)
      /\ \A i \in 1..Len(q) : Append(q, e)[i] = q[i]
      /\ Append(q, e)[Len(q) + 1] = e
  OBVIOUS
<1>2. IsInjective(Append(q, e))
  BY <1>1 DEF IsInjective, ToSet
<1>3. ToSet(Append(q, e)) = ToSet(q) \cup {e}
  BY <1>1 DEF ToSet
<1> QED
  BY <1>1, <1>2, <1>3

\* The first element taken from a sequence without repetitions.
LEMMA TailInjects ==
    ASSUME NEW S, NEW q \in Seq(S), IsInjective(q), q # <<>>
    PROVE  /\ Head(q) \in ToSet(q) /\ Head(q) \in S
           /\ Tail(q) \in Seq(S)
           /\ IsInjective(Tail(q))
           /\ ToSet(Tail(q)) = ToSet(q) \ {Head(q)}
<1>1. /\ Tail(q) \in Seq(S) /\ Len(q) \in Nat \ {0} /\ Head(q) = q[1]
      /\ DOMAIN Tail(q) = 1..(Len(q) - 1) /\ DOMAIN q = 1..Len(q)
      /\ \A i \in 1..(Len(q) - 1) : Tail(q)[i] = q[i + 1]
  OBVIOUS
<1>2. IsInjective(Tail(q))
  BY <1>1 DEF IsInjective
<1>3. Head(q) \in ToSet(q) /\ Head(q) \in S
  BY <1>1 DEF ToSet
<1>4. ASSUME NEW x \in ToSet(Tail(q)) PROVE x \in ToSet(q) \ {Head(q)}
  <2>1. PICK i \in 1..(Len(q) - 1) : x = q[i + 1]
    BY <1>1, <1>4 DEF ToSet
  <2> QED
    BY <1>1, <2>1 DEF IsInjective, ToSet
<1>5. ASSUME NEW x \in ToSet(q) \ {Head(q)} PROVE x \in ToSet(Tail(q))
  <2>1. PICK i \in 1..Len(q) : x = q[i] /\ i # 1
    BY <1>1, <1>5 DEF ToSet
  <2>2. i - 1 \in 1..(Len(q) - 1) /\ Tail(q)[i - 1] = x
    BY <1>1, <2>1
  <2> QED
    BY <1>1, <2>2 DEF ToSet
<1> QED
  BY <1>1, <1>2, <1>3, <1>4, <1>5

-----------------------------------------------------------------------------
(* Assignment of the boards                                                *)

\* Whoever owns a board may have it under the name that the session goes by.
HeldUnderName ==
    \A s \in Client : board[s] # None => Usable(board[s], get_username(s))

\* The inductive invariant behind the assignment of the boards.
AllocInv ==
    /\ TypeOK
    /\ BoardOwnership
    /\ QueueIsWaiters
    /\ NoIdleBoardForWaiter
    /\ HeldUnderName
    /\ ConnectionOrder
    /\ WatcherMatchesStatus

\* The session served when s is closed was waiting, and what it gets is the board
\* that s gives back.
LEMMA ServedSession ==
    ASSUME AllocInv, NEW s \in Client, Servable(s) # {}
    PROVE  LET w == QueueWithout(s)[NextServed(s)]
               b == find_available_board(Release(s), get_username(w))
           IN  /\ NextServed(s) \in DOMAIN QueueWithout(s)
               /\ w \in Client \ {s} /\ status[w] = "awaiting_board" /\ board[w] = None
               /\ b \in Board /\ b = board[s] /\ Usable(b, get_username(w))
<1> DEFINE i == NextServed(s)
           w == QueueWithout(s)[i]
           b == find_available_board(Release(s), get_username(w))
<1>1. /\ QueueWithout(s) \in Seq(Client)
      /\ ToSet(QueueWithout(s)) = ToSet(wait_queue) \ {s}
  BY QueueWithoutProperties DEF AllocInv, TypeOK, QueueIsWaiters
<1>2. Servable(s) \in SUBSET Nat
  BY <1>1 DEF Servable
<1>3. i \in Servable(s)
  BY <1>2, MinExists DEF NextServed
<1>4. i \in DOMAIN QueueWithout(s) /\ b # None
  BY <1>3, Zenon DEF Servable
<1>5. w \in ToSet(wait_queue) \ {s}
  BY <1>1, <1>4, Zenon DEF ToSet
<1>6. w \in Client \ {s} /\ status[w] = "awaiting_board" /\ board[w] = None
  BY <1>5 DEF AllocInv, QueueIsWaiters, BoardOwnership
<1>7. b \in Board /\ Release(s)[b] = None /\ Usable(b, get_username(w))
  BY <1>4, FoundBoard
<1>8. b = board[s]
  <2> HIDE DEF w, b
  <2>1. owner[b] # None
    BY <1>6, <1>7 DEF AllocInv, NoIdleBoardForWaiter
  <2> QED
    BY <2>1, <1>7 DEF Release, AllocInv, TypeOK
<1> QED
  BY <1>4, <1>6, <1>7, <1>8

\* Daemon::close_session keeps the invariant; afterwards no message of s is left.
LEMMA CloseKeepsAllocInv ==
    ASSUME AllocInv, NEW s \in Client, daemon_close_session(s),
           UNCHANGED <<client, backlog, daemon, signalled>>,
           msg' = [msg EXCEPT ![s] = None]
    PROVE  AllocInv'
<1> DEFINE q == QueueWithout(s)
           i == NextServed(s)
           w == q[i]
           b == find_available_board(Release(s), get_username(w))
<1>1. q \in Seq(Client) /\ IsInjective(q) /\ ToSet(q) = ToSet(wait_queue) \ {s}
  BY QueueWithoutProperties DEF AllocInv, TypeOK, QueueIsWaiters
<1>2. /\ Release(s) \in [Board -> Client \cup {None}]
      /\ \A c \in Board : Release(s)[c] = IF c = board[s] THEN None ELSE owner[c]
  BY NoneAssumption DEF AllocInv, TypeOK, Release
<1>3. /\ watching' = watching \ {s}
      /\ username' = [username EXCEPT ![s] = None]
      /\ pending' = {e \in pending : e[2] # s}
  BY DEF daemon_close_session, DestroySession
<1>4. loop_done' \in BOOLEAN
  BY DEF daemon_close_session, AllocInv, TypeOK, LastSession
<1>5. /\ \A c \in Client \ {s} : get_username(c)' = get_username(c)
  BY <1>3 DEF get_username, AllocInv, TypeOK
<1>6. ConnectionOrder'
  <2>1. \A c \in Client :
           /\ status'[c] = "none" <=> c = s \/ status[c] = "none"
           /\ c # s => (status'[c] = "created" <=> status[c] = "created")
    <3>1. CASE Servable(s) = {}
      BY <3>1 DEF daemon_close_session, AllocInv, TypeOK
    <3>2. CASE Servable(s) # {}
      <4>1. w \in Client \ {s} /\ status[w] = "awaiting_board"
        BY <3>2, ServedSession
      <4>2. status' = [status EXCEPT ![s] = "none", ![w] = "has_board"]
        BY <3>2 DEF daemon_close_session
      <4> HIDE DEF w
      <4> QED
        BY <4>1, <4>2 DEF AllocInv, TypeOK
    <3> QED
      BY <3>1, <3>2
  <2>2. pending' \subseteq pending /\ ClientEvent(s) \notin pending'
    BY <1>3 DEF ClientEvent
  <2>3. IsInjective(backlog) /\ (AcceptEvent \in pending => backlog # <<>>)
    BY DEF AllocInv, ConnectionOrder
  <2>4. ASSUME NEW c \in Client
        PROVE  /\ c \in ToSet(backlog)' => status'[c] = "none"
               /\ client'[c] = "connected" =>
                     status'[c] \in {"none", "created"} /\ msg'[c] = None
               /\ msg'[c] # None => status'[c] = "created" \/ c \in ToSet(backlog)'
               /\ c \in watching' \/ ClientEvent(c) \in pending' => status'[c] # "none"
    <3>1. c \in ToSet(backlog)' <=> c \in ToSet(backlog)
      BY DEF ToSet
    <3>2. msg'[c] = IF c = s THEN None ELSE msg[c]
      BY NoneAssumption DEF AllocInv, TypeOK
    <3>3. c \in watching' => c # s /\ c \in watching
      BY <1>3 DEF AllocInv, TypeOK
    <3>4. ClientEvent(c) \in pending' => c # s /\ ClientEvent(c) \in pending
      BY <2>2
    <3>5. client'[c] = client[c]
      OBVIOUS
    <3>6. /\ c \in ToSet(backlog) => status[c] = "none"
          /\ client[c] = "connected" => status[c] \in {"none", "created"} /\ msg[c] = None
          /\ msg[c] # None => status[c] = "created" \/ c \in ToSet(backlog)
          /\ c \in watching \/ ClientEvent(c) \in pending => status[c] # "none"
      BY DEF AllocInv, ConnectionOrder
    <3>7. c \in ToSet(backlog)' => status'[c] = "none"
      BY <3>1, <3>6, <2>1
    <3>8. client'[c] = "connected" => status'[c] \in {"none", "created"} /\ msg'[c] = None
      BY <3>2, <3>5, <3>6, <2>1
    <3>9. msg'[c] # None => status'[c] = "created" \/ c \in ToSet(backlog)'
      BY <3>1, <3>2, <3>6, <2>1
    <3>10. c \in watching' \/ ClientEvent(c) \in pending' => status'[c] # "none"
      BY <3>3, <3>4, <3>6, <2>1
    <3> QED
      BY <3>7, <3>8, <3>9, <3>10
  <2> QED
    BY <2>2, <2>3, <2>4 DEF ConnectionOrder, AcceptEvent, IsInjective, ClientEvent
<1>7. CASE Servable(s) = {}
  <2>1. /\ wait_queue' = q /\ owner' = Release(s)
        /\ status' = [status EXCEPT ![s] = "none"]
        /\ board' = [board EXCEPT ![s] = None]
        /\ child_watcher' = [child_watcher EXCEPT ![s] = Inactive]
        /\ proc' = proc
    BY <1>7 DEF daemon_close_session
  <2> HIDE DEF q
  <2>2. TypeOK'
    BY <2>1, <1>1, <1>2, <1>3, <1>4 DEF AllocInv, TypeOK, Watcher
  <2>3. BoardOwnership'
    BY <2>1, <1>2, NoneAssumption DEF AllocInv, TypeOK, BoardOwnership
  <2>4. QueueIsWaiters'
    BY <2>1, <1>1 DEF AllocInv, TypeOK, QueueIsWaiters
  <2>5. NoIdleBoardForWaiter'
    <3> SUFFICES ASSUME NEW c \in Client, NEW d \in Board,
                        status'[c] = "awaiting_board", owner'[d] = None
                 PROVE  ~Usable(d, get_username(c)')
      BY DEF NoIdleBoardForWaiter, Usable
    <3>1. c # s /\ c \in ToSet(q) /\ Release(s)[d] = None
      BY <2>1, <1>1 DEF AllocInv, TypeOK, QueueIsWaiters
    <3>2. PICK j \in DOMAIN q : q[j] = c
      BY <3>1 DEF ToSet
    <3>3. find_available_board(Release(s), get_username(c)) = None
      BY <3>2, <1>7, Zenon DEF Servable, q
    <3> QED
      BY <3>1, <3>3, <1>5, NoBoardFound
  <2>6. HeldUnderName'
    BY <2>1, <1>5 DEF AllocInv, TypeOK, HeldUnderName, Usable
  <2>7. WatcherMatchesStatus'
    BY <2>1 DEF AllocInv, TypeOK, WatcherMatchesStatus, Inactive
  <2> QED
    BY <1>6, <2>2, <2>3, <2>4, <2>5, <2>6, <2>7 DEF AllocInv
<1>8. CASE Servable(s) # {}
  <2>1. /\ i \in DOMAIN q
        /\ w \in Client \ {s} /\ status[w] = "awaiting_board" /\ board[w] = None
        /\ b \in Board /\ b = board[s] /\ Usable(b, get_username(w))
    BY <1>8, ServedSession
  <2>2. PICK p \in Pid :
           /\ proc' = [proc EXCEPT ![p] = [state |-> "running", kind |-> "command", board |-> b]]
           /\ child_watcher' = [child_watcher EXCEPT ![s] = Inactive,
                                   ![w] = [pid |-> p, cb |-> "on_process_exit"]]
    BY <1>8, Zenon DEF daemon_close_session, Fork
  <2>3. /\ wait_queue' = RemoveAt(q, i)
        /\ owner' = [Release(s) EXCEPT ![b] = w]
        /\ status' = [status EXCEPT ![s] = "none", ![w] = "has_board"]
        /\ board' = [board EXCEPT ![s] = None, ![w] = b]
    BY <1>8, Zenon DEF daemon_close_session
  <2>4. /\ wait_queue' \in Seq(Client) /\ IsInjective(wait_queue')
        /\ ToSet(wait_queue') = ToSet(q) \ {w}
    <3> HIDE DEF q, i
    <3> QED
      BY <2>1, <2>3, <1>1, RemoveAtProperties
  <2> HIDE DEF q, i, w, b
  <2>5. TypeOK'
    <3>1. proc' \in [Pid -> Process]
      BY <2>1, <2>2 DEF AllocInv, TypeOK, Process
    <3>2. child_watcher' \in [Client -> Watcher]
      BY <2>1, <2>2 DEF AllocInv, TypeOK, Watcher
    <3>3. owner' \in [Board -> Client \cup {None}]
      BY <1>2, <2>1, <2>3
    <3>4. msg' \in [Client -> SetupMsg \cup {None}] /\ client' = client /\ backlog' = backlog
          /\ daemon' = daemon /\ signalled' = signalled
      BY DEF AllocInv, TypeOK
    <3> QED
      BY <2>1, <2>3, <2>4, <3>1, <3>2, <3>3, <3>4, <1>3, <1>4 DEF AllocInv, TypeOK
  <2>6. BoardOwnership'
    <3>1. \A d \in Board : owner'[d] = IF d = b THEN w ELSE owner[d]
      BY <2>1, <2>3, <1>2
    <3>2. \A c \in Client :
             /\ board'[c] = IF c = w THEN b ELSE IF c = s THEN None ELSE board[c]
             /\ status'[c] = IF c = w THEN "has_board" ELSE IF c = s THEN "none" ELSE status[c]
      BY <2>1, <2>3 DEF AllocInv, TypeOK
    <3>3. b # None /\ owner[b] = s
      BY <2>1, NoneAssumption DEF AllocInv, BoardOwnership
    <3> QED
      BY <2>1, <3>1, <3>2, <3>3, NoneAssumption DEF AllocInv, BoardOwnership
  <2>7. QueueIsWaiters'
    BY <2>1, <2>3, <2>4, <1>1 DEF AllocInv, TypeOK, QueueIsWaiters
  <2>8. NoIdleBoardForWaiter'
    BY <2>1, <2>3, <1>2, <1>5, NoneAssumption DEF AllocInv, TypeOK, NoIdleBoardForWaiter, Usable
  <2>9. HeldUnderName'
    BY <2>1, <2>3, <1>5 DEF AllocInv, TypeOK, HeldUnderName, Usable
  <2>10. WatcherMatchesStatus'
    BY <2>1, <2>2, <2>3 DEF AllocInv, TypeOK, WatcherMatchesStatus, Inactive
  <2> QED
    BY <1>6, <2>5, <2>6, <2>7, <2>8, <2>9, <2>10 DEF AllocInv
<1> QED
  BY <1>7, <1>8

\* A step of session s that keeps it and reads its message, if there is one.
LEMMA ConnectionOrderKept ==
    ASSUME TypeOK, ConnectionOrder, NEW s \in Client, client[s] # "connected",
           UNCHANGED <<client, backlog>>,
           msg' = [msg EXCEPT ![s] = None],
           watching' \subseteq watching, pending' \subseteq pending,
           status[s] # "none", status'[s] # "none",
           \A c \in Client \ {s} : status'[c] = status[c]
    PROVE  ConnectionOrder'
<1>1. IsInjective(backlog)' /\ (AcceptEvent \in pending => backlog # <<>>)'
  BY DEF ConnectionOrder, AcceptEvent, IsInjective
<1>2. ASSUME NEW c \in Client
      PROVE  /\ c \in ToSet(backlog)' => status'[c] = "none"
             /\ client'[c] = "connected" => status'[c] \in {"none", "created"} /\ msg'[c] = None
             /\ msg'[c] # None => status'[c] = "created" \/ c \in ToSet(backlog)'
             /\ c \in watching' \/ ClientEvent(c) \in pending' => status'[c] # "none"
  <2>1. c \in ToSet(backlog)' <=> c \in ToSet(backlog)
    BY DEF ToSet
  <2>2. msg'[c] = IF c = s THEN None ELSE msg[c]
    BY DEF TypeOK
  <2>3. /\ c \in ToSet(backlog) => status[c] = "none"
        /\ client[c] = "connected" => status[c] \in {"none", "created"} /\ msg[c] = None
        /\ msg[c] # None => status[c] = "created" \/ c \in ToSet(backlog)
        /\ c \in watching \/ ClientEvent(c) \in pending => status[c] # "none"
    BY DEF ConnectionOrder
  <2> QED
    BY <2>1, <2>2, <2>3
<1> QED
  BY <1>1, <1>2 DEF ConnectionOrder, ClientEvent, AcceptEvent

\* Session::on_setup_msg keeps the invariant.
LEMMA SetupKeepsAllocInv ==
    ASSUME AllocInv, NEW s \in Client, msg[s] # None, status[s] = "created",
           on_setup_msg(s, msg[s]),
           UNCHANGED <<client, backlog, daemon, signalled>>,
           msg' = [msg EXCEPT ![s] = None]
    PROVE  AllocInv'
<1> DEFINE m == msg[s]
           u == asking_user(s, m)
           b == find_available_board(owner, u)
           name == IF m.name = None THEN None ELSE stored_name[m.name]
<1>1. m \in SetupMsg /\ name \in User \cup {None}
  BY ConstantsAssumption DEF AllocInv, TypeOK, SetupMsg
<1>2. board[s] = None /\ s \notin ToSet(wait_queue) /\ client[s] # "connected"
  BY DEF AllocInv, BoardOwnership, QueueIsWaiters, ConnectionOrder
<1>3. CASE m.cmd = "connect" /\ b # None /\ assign_board(s, b)
           /\ username' = [username EXCEPT ![s] = name]
           /\ pending' = pending \ {ClientEvent(s)} /\ UNCHANGED <<watching, loop_done>>
  <2>1. b \in Board /\ owner[b] = None /\ Usable(b, u)
    BY <1>3, FoundBoard
  <2>2. PICK p \in Pid :
           /\ proc' = [proc EXCEPT ![p] = [state |-> "running", kind |-> "command", board |-> b]]
           /\ child_watcher' = [child_watcher EXCEPT ![s] = [pid |-> p, cb |-> "on_process_exit"]]
    BY <1>3, Zenon DEF assign_board, Fork
  <2>3. /\ status' = [status EXCEPT ![s] = "has_board"]
        /\ board' = [board EXCEPT ![s] = b]
        /\ owner' = [owner EXCEPT ![b] = s]
        /\ wait_queue' = wait_queue
    BY <1>3, Zenon DEF assign_board
  <2>4. /\ get_username(s)' = u
        /\ \A c \in Client \ {s} : get_username(c)' = get_username(c)
    BY <1>1, <1>3, NoneAssumption, ConstantsAssumption
       DEF get_username, asking_user, AllocInv, TypeOK, SetupMsg
  <2> HIDE DEF b, u, name
  <2>5. TypeOK'
    <3>1. proc' \in [Pid -> Process]
      BY <2>1, <2>2 DEF AllocInv, TypeOK, Process
    <3>2. child_watcher' \in [Client -> Watcher]
      BY <2>2 DEF AllocInv, TypeOK, Watcher
    <3> QED
      BY <1>1, <1>3, <2>1, <2>3, <3>1, <3>2 DEF AllocInv, TypeOK
  <2>6. BoardOwnership'
    BY <1>2, <2>1, <2>3, NoneAssumption DEF AllocInv, TypeOK, BoardOwnership
  <2>7. QueueIsWaiters'
    BY <2>3 DEF AllocInv, TypeOK, QueueIsWaiters
  <2>8. NoIdleBoardForWaiter'
    BY <2>1, <2>3, <2>4, NoneAssumption DEF AllocInv, TypeOK, NoIdleBoardForWaiter, Usable
  <2>9. HeldUnderName'
    BY <2>1, <2>3, <2>4 DEF AllocInv, TypeOK, HeldUnderName, Usable
  <2>10. ConnectionOrder'
    BY <1>2, <1>3, <2>3, ConnectionOrderKept DEF AllocInv, TypeOK
  <2>11. WatcherMatchesStatus'
    BY <2>2, <2>3 DEF AllocInv, TypeOK, WatcherMatchesStatus
  <2> QED
    BY <2>5, <2>6, <2>7, <2>8, <2>9, <2>10, <2>11 DEF AllocInv
<1>4. CASE /\ m.cmd = "connect" /\ b = None
           /\ status' = [status EXCEPT ![s] = "awaiting_board"]
           /\ wait_queue' = Append(wait_queue, s)
           /\ username' = [username EXCEPT ![s] = name]
           /\ pending' = pending \ {ClientEvent(s)} /\ UNCHANGED <<watching, loop_done>>
           /\ UNCHANGED <<board, child_watcher, owner, proc>>
  <2>1. /\ wait_queue' \in Seq(Client) /\ IsInjective(wait_queue')
        /\ ToSet(wait_queue') = ToSet(wait_queue) \cup {s}
    BY <1>2, <1>4, AppendInjects DEF AllocInv, TypeOK, QueueIsWaiters
  <2>2. /\ get_username(s)' = u
        /\ \A c \in Client \ {s} : get_username(c)' = get_username(c)
    BY <1>1, <1>4, NoneAssumption, ConstantsAssumption
       DEF get_username, asking_user, AllocInv, TypeOK, SetupMsg
  <2>3. \A d \in Board : owner[d] = None => ~Usable(d, u)
    BY <1>4, NoBoardFound
  <2> HIDE DEF b, u, name
  <2>4. TypeOK'
    BY <1>1, <1>4, <2>1 DEF AllocInv, TypeOK
  <2>5. BoardOwnership'
    BY <1>2, <1>4 DEF AllocInv, TypeOK, BoardOwnership
  <2>6. QueueIsWaiters'
    BY <1>4, <2>1 DEF AllocInv, TypeOK, QueueIsWaiters
  <2>7. NoIdleBoardForWaiter'
    BY <1>4, <2>2, <2>3 DEF AllocInv, TypeOK, NoIdleBoardForWaiter, Usable
  <2>8. HeldUnderName'
    BY <1>2, <1>4, <2>2 DEF AllocInv, TypeOK, HeldUnderName, Usable
  <2>9. ConnectionOrder'
    BY <1>2, <1>4, ConnectionOrderKept DEF AllocInv, TypeOK
  <2>10. WatcherMatchesStatus'
    BY <1>4 DEF AllocInv, TypeOK, WatcherMatchesStatus
  <2> QED
    BY <2>4, <2>5, <2>6, <2>7, <2>8, <2>9, <2>10 DEF AllocInv
<1>5. CASE daemon_close_session(s)
  BY <1>5, CloseKeepsAllocInv
<1> QED
  BY <1>3, <1>4, <1>5, Zenon DEF on_setup_msg

\* A process that is not a free entry stays one when its state changes.
LEMMA ProcessState ==
    ASSUME NEW x \in Process, x.state # "free",
           NEW st \in {"running", "killed", "orphaned", "exited"}
    PROVE  [x EXCEPT !.state = st] \in Process
<1>1. x \in [state : {"running", "killed", "orphaned", "exited"},
            kind : {"command", "close_command"}, board : Board]
  BY DEF Process, NoProc
<1> QED
  BY <1>1 DEF Process

\* SIGKILL leaves a table of processes.
LEMMA KillType ==
    ASSUME NEW x, proc \in [Pid -> Process], Kill(x)
    PROVE  proc' \in [Pid -> Process]
<1>1. CASE x \in Pid /\ proc[x].state = "running"
  <2>1. proc' = [proc EXCEPT ![x] = [proc[x] EXCEPT !.state = "killed"]]
    BY <1>1 DEF Kill
  <2>2. [proc[x] EXCEPT !.state = "killed"] \in Process
    BY <1>1, ProcessState
  <2> QED
    BY <2>1, <2>2
<1>2. CASE x \in Pid /\ proc[x].state # "running"
  <2>1. proc' = [proc EXCEPT ![x] = [proc[x] EXCEPT !.state = proc[x].state]]
    BY <1>2 DEF Kill
  <2>2. [proc[x] EXCEPT !.state = proc[x].state] = proc[x]
    BY <1>2 DEF Process, NoProc
  <2> QED
    BY <2>1, <2>2
<1>3. CASE x \notin Pid
  BY <1>3 DEF Kill
<1> QED
  BY <1>1, <1>2, <1>3

\* Session::close_session keeps the invariant, called at the end of the client's
\* connection or of the child; no message of the session is left then.
LEMMA SessionCloseKeepsAllocInv ==
    ASSUME AllocInv, NEW s \in Client, NEW e, NEW active \in BOOLEAN, NEW readers,
           readers \subseteq watching, msg[s] = None,
           active => child_watcher[s] # Inactive,
           close_session(s, e, active, readers),
           UNCHANGED <<clientVars, daemon, signalled>>
    PROVE  AllocInv'
<1>1. msg' = [msg EXCEPT ![s] = None] /\ UNCHANGED <<client, backlog, daemon, signalled>>
  BY DEF AllocInv, TypeOK, clientVars
<1>2. CASE /\ status[s] = "has_board" /\ active
           /\ Kill(child_watcher[s].pid)
           /\ watching' = readers
           /\ pending' = pending \ {e}
           /\ UNCHANGED <<status, board, username, child_watcher, owner, wait_queue, loop_done>>
  <2>1. proc' \in [Pid -> Process]
    BY <1>2, KillType DEF AllocInv, TypeOK
  <2>2. TypeOK'
    BY <1>1, <1>2, <2>1 DEF AllocInv, TypeOK
  <2>3. ConnectionOrder'
    BY <1>1, <1>2, ConnectionOrderKept DEF AllocInv, ConnectionOrder
  <2> QED
    BY <1>2, <2>2, <2>3
       DEF AllocInv, BoardOwnership, QueueIsWaiters, NoIdleBoardForWaiter,
           HeldUnderName, WatcherMatchesStatus, Usable, get_username
<1>3. CASE /\ status[s] = "has_board" /\ ~active /\ close_command[board[s]]
           /\ start_close_command(s)
           /\ watching' = readers
           /\ pending' = pending \ {e}
           /\ UNCHANGED <<board, username, owner, wait_queue, loop_done>>
  <2>1. PICK p \in Pid :
           /\ proc' = [proc EXCEPT
                          ![p] = [state |-> "running", kind |-> "close_command",
                                  board |-> board[s]]]
           /\ child_watcher' = [child_watcher EXCEPT
                                   ![s] = [pid |-> p, cb |-> "on_close_command_exit"]]
    BY <1>3, Zenon DEF start_close_command, Fork
  <2>2. status' = [status EXCEPT ![s] = "closing_board"] /\ board[s] \in Board
    BY <1>3 DEF start_close_command, AllocInv, TypeOK, BoardOwnership
  <2>3. TypeOK'
    <3>1. proc' \in [Pid -> Process]
      BY <2>1, <2>2 DEF AllocInv, TypeOK, Process
    <3>2. child_watcher' \in [Client -> Watcher]
      BY <2>1 DEF AllocInv, TypeOK, Watcher
    <3> QED
      BY <1>1, <1>3, <2>2, <3>1, <3>2 DEF AllocInv, TypeOK
  <2>4. ConnectionOrder'
    BY <1>1, <1>3, <2>2, ConnectionOrderKept DEF AllocInv, TypeOK, ConnectionOrder
  <2>5. BoardOwnership'
    BY <1>3, <2>2 DEF AllocInv, TypeOK, BoardOwnership
  <2>6. QueueIsWaiters' /\ NoIdleBoardForWaiter'
    BY <1>3, <2>2
       DEF AllocInv, TypeOK, QueueIsWaiters, NoIdleBoardForWaiter, Usable, get_username
  <2>7. HeldUnderName'
    BY <1>3 DEF AllocInv, HeldUnderName, Usable, get_username
  <2>8. WatcherMatchesStatus'
    BY <2>1, <2>2 DEF AllocInv, TypeOK, WatcherMatchesStatus
  <2> QED
    BY <2>3, <2>4, <2>5, <2>6, <2>7, <2>8 DEF AllocInv
<1>4. CASE daemon_close_session(s)
  BY <1>1, <1>4, CloseKeepsAllocInv
<1> QED
  BY <1>2, <1>3, <1>4 DEF close_session

\* Steps outside the daemon's sessions.
LEMMA FrameKeepsAllocInv ==
    ASSUME AllocInv, TypeOK', ConnectionOrder',
           UNCHANGED <<status, board, username, owner, wait_queue, child_watcher>>
    PROVE  AllocInv'
BY DEF AllocInv, BoardOwnership, QueueIsWaiters, NoIdleBoardForWaiter, HeldUnderName,
       WatcherMatchesStatus, Usable, get_username

\* The end of the daemon process destroys all sessions.
LEMMA ExitKeepsAllocInv ==
    ASSUME AllocInv, DaemonExit
    PROVE  AllocInv'
<1>1. proc' \in [Pid -> Process]
  <2> DEFINE st == IF SocketActivated THEN "killed" ELSE "orphaned"
             after(p) == IF ~Live(p) THEN NoProc ELSE [proc[p] EXCEPT !.state = st]
  <2>1. ASSUME NEW p \in Pid PROVE after(p) \in Process
    <3>1. CASE Live(p)
      BY <3>1, ProcessState DEF Live, AllocInv, TypeOK
    <3>2. CASE ~Live(p)
      BY <3>2 DEF Process
    <3> QED
      BY <3>1, <3>2
  <2>2. proc' = [p \in Pid |-> after(p)]
    BY DEF DaemonExit
  <2> HIDE DEF after
  <2> QED
    BY <2>1, <2>2
<1>2. TypeOK'
  <2>1. /\ client' = client
        /\ daemon' = "stopped" /\ loop_done' = FALSE /\ signalled' = FALSE /\ pending' = {}
    BY DEF DaemonExit
  <2>2. /\ status' = [c \in Client |-> "none"]
        /\ board' = [c \in Client |-> None]
        /\ username' = [c \in Client |-> None]
        /\ watching' = {}
        /\ child_watcher' = [c \in Client |-> Inactive]
        /\ owner' = [b \in Board |-> None]
        /\ wait_queue' = <<>>
    BY DEF DaemonExit
  <2>3. msg' \in [Client -> SetupMsg \cup {None}] /\ backlog' \in Seq(Client)
    BY DEF DaemonExit, AllocInv, TypeOK
  <2>4. child_watcher' \in [Client -> Watcher]
    BY <2>2 DEF Watcher
  <2> QED
    <3>1. /\ status' \in [Client -> {"none", "created", "awaiting_board", "has_board",
                                      "closing_board"}]
          /\ board' \in [Client -> Board \cup {None}]
          /\ username' \in [Client -> User \cup {None}]
          /\ owner' \in [Board -> Client \cup {None}]
          /\ watching' \subseteq Client /\ wait_queue' \in Seq(Client)
      BY <2>2
    <3>2. /\ client' \in [Client -> {"none", "connected", "waiting"}]
          /\ daemon' \in {"running", "stopped"}
          /\ loop_done' \in BOOLEAN /\ signalled' \in BOOLEAN /\ pending' \subseteq Event
      BY <2>1 DEF AllocInv, TypeOK
    <3> QED
      BY <1>1, <2>3, <2>4, <3>1, <3>2 DEF TypeOK
<1>3. ConnectionOrder'
  <2>1. IsInjective(backlog')
    BY DEF DaemonExit, AllocInv, ConnectionOrder, IsInjective
  <2>2. \A c \in Client : msg'[c] # None => c \in ToSet(backlog')
    BY DEF DaemonExit
  <2>3. \A c \in Client : client[c] = "connected" => msg'[c] = None
    BY DEF DaemonExit, AllocInv, ConnectionOrder
  <2> QED
    BY <2>1, <2>2, <2>3 DEF DaemonExit, ConnectionOrder, ToSet
<1>4. BoardOwnership' /\ NoIdleBoardForWaiter' /\ HeldUnderName'
  BY NoneAssumption DEF DaemonExit, BoardOwnership, NoIdleBoardForWaiter, HeldUnderName
<1>5. QueueIsWaiters' /\ WatcherMatchesStatus'
  BY DEF DaemonExit, QueueIsWaiters, WatcherMatchesStatus, Inactive, IsInjective, ToSet
<1> QED
  BY <1>2, <1>3, <1>4, <1>5 DEF AllocInv

\* Every step of the specification keeps the invariant.
LEMMA NextKeepsAllocInv ==
    ASSUME AllocInv, [Next]_vars
    PROVE  AllocInv'
<1>1. CASE on_client_connecting
  <2> DEFINE s == Head(backlog)
  <2>1. /\ backlog # <<>> /\ backlog \in Seq(Client) /\ IsInjective(backlog)
    BY <1>1 DEF on_client_connecting, Dispatching, AllocInv, ConnectionOrder, TypeOK
  <2>2. /\ s \in ToSet(backlog) /\ s \in Client
        /\ Tail(backlog) \in Seq(Client) /\ IsInjective(Tail(backlog))
        /\ ToSet(Tail(backlog)) = ToSet(backlog) \ {s}
    BY <2>1, TailInjects
  <2>3. /\ status' = [status EXCEPT ![s] = "created"] /\ watching' = watching \cup {s}
        /\ backlog' = Tail(backlog) /\ pending' = pending \ {AcceptEvent}
        /\ UNCHANGED <<client, msg, daemon, loop_done, signalled, proc>>
        /\ UNCHANGED <<board, username, child_watcher, owner, wait_queue>>
    BY <1>1, Zenon DEF on_client_connecting
  <2> HIDE DEF s
  <2>4. status[s] = "none" /\ board[s] = None
    BY <2>2 DEF AllocInv, ConnectionOrder, BoardOwnership
  <2>5. TypeOK'
    BY <2>2, <2>3 DEF AllocInv, TypeOK
  <2>6. BoardOwnership' /\ QueueIsWaiters' /\ WatcherMatchesStatus'
    BY <2>2, <2>3, <2>4
       DEF AllocInv, TypeOK, BoardOwnership, QueueIsWaiters, WatcherMatchesStatus
  <2>7. NoIdleBoardForWaiter' /\ HeldUnderName'
    BY <2>2, <2>3
       DEF AllocInv, TypeOK, NoIdleBoardForWaiter, HeldUnderName, Usable, get_username
  <2>8. ConnectionOrder'
    <3>1. IsInjective(backlog)' /\ (AcceptEvent \in pending => backlog # <<>>)'
      BY <2>2, <2>3 DEF AcceptEvent, IsInjective
    <3>2. ASSUME NEW c \in Client
          PROVE  /\ c \in ToSet(backlog') => status'[c] = "none"
                 /\ client'[c] = "connected" =>
                       status'[c] \in {"none", "created"} /\ msg'[c] = None
                 /\ msg'[c] # None => status'[c] = "created" \/ c \in ToSet(backlog')
                 /\ c \in watching' \/ ClientEvent(c) \in pending' => status'[c] # "none"
      <4>1. status'[c] = IF c = s THEN "created" ELSE status[c]
        BY <2>2, <2>3 DEF AllocInv, TypeOK
      <4>2. c \in ToSet(backlog') <=> c \in ToSet(backlog) /\ c # s
        BY <2>2, <2>3
      <4>3. /\ c \in ToSet(backlog) => status[c] = "none"
            /\ client[c] = "connected" => status[c] \in {"none", "created"} /\ msg[c] = None
            /\ msg[c] # None => status[c] = "created" \/ c \in ToSet(backlog)
            /\ c \in watching \/ ClientEvent(c) \in pending => status[c] # "none"
        BY DEF AllocInv, ConnectionOrder
      <4> QED
        BY <4>1, <4>2, <4>3, <2>3
    <3> QED
      BY <3>1, <3>2 DEF ConnectionOrder, ClientEvent, AcceptEvent, ToSet
  <2> QED
    BY <2>5, <2>6, <2>7, <2>8 DEF AllocInv
<1>2. ASSUME NEW s \in Client, on_data_from_client(s)
      PROVE  AllocInv'
  <2>1. CASE msg[s] # None /\ on_setup_msg(s, msg[s]) /\ msg' = [msg EXCEPT ![s] = None]
    <3>1. status[s] = "created"
      BY <1>2, <2>1 DEF on_data_from_client, Dispatching, AllocInv, ConnectionOrder
    <3> QED
      BY <1>2, <2>1, <3>1, SetupKeepsAllocInv DEF on_data_from_client
  <2>2. CASE /\ msg[s] = None /\ UNCHANGED msg
             /\ close_session(s, ClientEvent(s), child_watcher[s] # Inactive, watching \ {s})
    <3>1. (child_watcher[s] # Inactive) \in BOOLEAN /\ watching \ {s} \subseteq watching
      OBVIOUS
    <3>2. UNCHANGED <<clientVars, daemon, signalled>>
      BY <1>2, <2>2 DEF on_data_from_client, clientVars
    <3> QED
      BY <2>2, <3>1, <3>2, SessionCloseKeepsAllocInv
  <2> QED
    BY <1>2, <2>1, <2>2 DEF on_data_from_client
<1>3. ASSUME NEW s \in Client, on_process_exit(s) \/ on_close_command_exit(s)
      PROVE  AllocInv'
  <2>1. /\ child_watcher[s].cb \in {"on_process_exit", "on_close_command_exit"}
        /\ close_session(s, ChildEvent(s), FALSE, watching)
        /\ UNCHANGED <<clientVars, daemon, signalled>>
    BY <1>3 DEF on_process_exit, on_close_command_exit, child_exit
  <2>2. msg[s] = None
    BY <2>1 DEF AllocInv, ConnectionOrder, WatcherMatchesStatus
  <2> QED
    BY <2>1, <2>2, SessionCloseKeepsAllocInv
<1>4. CASE on_signal
  <2>1. TypeOK' /\ ConnectionOrder'
    BY <1>4 DEF on_signal, clientVars, heapVars, AllocInv, TypeOK, ConnectionOrder, ToSet,
                IsInjective, AcceptEvent, SignalEvent, ClientEvent
  <2> QED
    BY <1>4, <2>1, FrameKeepsAllocInv DEF on_signal, heapVars
<1>5. CASE Poll
  <2>1. TypeOK'
    <3>1. proc' \in [Pid -> Process]
      BY <1>5 DEF Poll, AllocInv, TypeOK, Process
    <3> QED
      BY <1>5, <3>1 DEF Poll, Ready, clientVars, heapVars, AllocInv, TypeOK
  <2>2. /\ AcceptEvent \in Ready => backlog # <<>>
        /\ \A c \in Client : ClientEvent(c) \in Ready => c \in watching
    BY DEF Ready, AcceptEvent, SignalEvent, ClientEvent, ChildEvent
  <2>3. ConnectionOrder'
    BY <1>5, <2>2 DEF Poll, clientVars, heapVars, AllocInv, ConnectionOrder, ToSet, IsInjective,
                      AcceptEvent, ClientEvent
  <2> QED
    BY <1>5, <2>1, <2>3, FrameKeepsAllocInv DEF Poll, heapVars
<1>6. CASE LoopExits \/ \E e \in pending : CallbackAborts(e)
  BY <1>6, ExitKeepsAllocInv DEF LoopExits, CallbackAborts
<1>7. CASE DaemonStart
  <2>1. TypeOK' /\ ConnectionOrder'
    BY <1>7 DEF DaemonStart, clientVars, heapVars, AllocInv, TypeOK, ConnectionOrder, ToSet,
                IsInjective, AcceptEvent, ClientEvent
  <2> QED
    BY <1>7, <2>1, FrameKeepsAllocInv DEF DaemonStart, heapVars
<1>8. ASSUME NEW c \in Client, Connect(c)
      PROVE  AllocInv'
  <2>1. /\ backlog' \in Seq(Client) /\ IsInjective(backlog') /\ backlog' # <<>>
        /\ ToSet(backlog') = ToSet(backlog) \cup {c}
    BY <1>8, AppendInjects DEF Connect, AllocInv, TypeOK, ConnectionOrder
  <2>2. TypeOK'
    BY <1>8, <2>1 DEF Connect, loopVars, heapVars, AllocInv, TypeOK
  <2>3. msg[c] = None
    BY <1>8 DEF Connect, AllocInv, ConnectionOrder
  <2>4. ConnectionOrder'
    BY <1>8, <2>1, <2>3 DEF Connect, loopVars, heapVars, AllocInv, TypeOK, ConnectionOrder,
                            AcceptEvent, ClientEvent
  <2> QED
    BY <1>8, <2>2, <2>4, FrameKeepsAllocInv DEF Connect, heapVars
<1>9. ASSUME NEW c \in Client, NEW o \in Options, send_setup(c, o)
      PROVE  AllocInv'
  <2>1. TypeOK'
    BY <1>9, ConstantsAssumption DEF send_setup, loopVars, heapVars, AllocInv, TypeOK
  <2>2. ConnectionOrder'
    BY <1>9 DEF send_setup, Disconnected, loopVars, heapVars, AllocInv, TypeOK, ConnectionOrder,
                ToSet, IsInjective, AcceptEvent, ClientEvent
  <2> QED
    BY <1>9, <2>1, <2>2, FrameKeepsAllocInv DEF send_setup, heapVars
<1>10. ASSUME NEW c \in Client, on_data_from_daemon(c) \/ ClientDies(c)
       PROVE  AllocInv'
  <2>1. /\ client' = [client EXCEPT ![c] = "none"]
        /\ UNCHANGED <<msg, backlog, loopVars, heapVars, proc>>
    BY <1>10 DEF on_data_from_daemon, ClientDies
  <2>2. TypeOK' /\ ConnectionOrder'
    BY <2>1 DEF loopVars, heapVars, AllocInv, TypeOK, ConnectionOrder,
                ToSet, IsInjective, AcceptEvent, ClientEvent
  <2> QED
    BY <2>1, <2>2, FrameKeepsAllocInv DEF heapVars
<1>11. ASSUME NEW p \in Pid, ProcessExits(p)
       PROVE  AllocInv'
  <2>1. proc' \in [Pid -> Process]
    <3>1. [proc[p] EXCEPT !.state = "exited"] \in Process
      BY <1>11, ProcessState DEF ProcessExits, Live, AllocInv, TypeOK
    <3>2. NoProc \in Process
      BY DEF Process
    <3> QED
      BY <1>11, <3>1, <3>2 DEF ProcessExits, AllocInv, TypeOK
  <2>2. TypeOK' /\ ConnectionOrder'
    BY <1>11, <2>1 DEF ProcessExits, clientVars, loopVars, heapVars, AllocInv, TypeOK,
                       ConnectionOrder, ToSet, IsInjective, AcceptEvent, ClientEvent
  <2> QED
    BY <1>11, <2>2, FrameKeepsAllocInv DEF ProcessExits, heapVars
<1>12. CASE Signal \/ UNCHANGED vars
  <2>1. /\ signalled' \in BOOLEAN
        /\ UNCHANGED <<clientVars, daemon, loop_done, pending, heapVars, proc>>
    BY <1>12 DEF Signal, vars, loopVars, AllocInv, TypeOK
  <2>2. TypeOK' /\ ConnectionOrder'
    BY <2>1 DEF clientVars, heapVars, AllocInv, TypeOK, ConnectionOrder, ToSet, IsInjective,
                AcceptEvent, ClientEvent
  <2> QED
    BY <2>1, <2>2, FrameKeepsAllocInv DEF heapVars
<1> QED
  BY <1>1, <1>2, <1>3, <1>4, <1>5, <1>6, <1>7, <1>8, <1>9, <1>10, <1>11, <1>12
     DEF Next, Callback, Environment

\* The invariant holds when nothing has been started.
LEMMA InitAllocInv == Init => AllocInv
<1> SUFFICES ASSUME Init PROVE AllocInv
  OBVIOUS
<1>1. TypeOK
  <2>1. proc \in [Pid -> Process] /\ child_watcher \in [Client -> Watcher]
    BY DEF Init, Watcher, Process
  <2>2. /\ board \in [Client -> Board \cup {None}]
        /\ username \in [Client -> User \cup {None}]
        /\ owner \in [Board -> Client \cup {None}]
        /\ msg \in [Client -> SetupMsg \cup {None}]
    BY DEF Init
  <2>3. /\ client \in [Client -> {"none", "connected", "waiting"}]
        /\ status \in [Client -> {"none", "created", "awaiting_board", "has_board",
                                   "closing_board"}]
    BY DEF Init
  <2>4. /\ backlog \in Seq(Client) /\ wait_queue \in Seq(Client)
        /\ pending \subseteq Event /\ watching \subseteq Client
    BY DEF Init
  <2>5. daemon \in {"running", "stopped"} /\ loop_done \in BOOLEAN /\ signalled \in BOOLEAN
    <3>1. daemon = "stopped" /\ loop_done = FALSE /\ signalled = FALSE
      BY Zenon DEF Init
    <3> QED
      BY <3>1
  <2> QED
    BY <2>1, <2>2, <2>3, <2>4, <2>5 DEF TypeOK
<1>2. BoardOwnership /\ NoIdleBoardForWaiter /\ HeldUnderName
  BY NoneAssumption DEF Init, BoardOwnership, NoIdleBoardForWaiter, HeldUnderName
<1>3. QueueIsWaiters /\ WatcherMatchesStatus
  BY DEF Init, QueueIsWaiters, WatcherMatchesStatus, Inactive, IsInjective, ToSet
<1>4. ConnectionOrder
  BY DEF Init, ConnectionOrder, IsInjective, ToSet
<1> QED
  BY <1>1, <1>2, <1>3, <1>4 DEF AllocInv

\* In every behaviour of the daemon and its clients the sessions, the boards and
\* the queue are consistent.
THEOREM AllocCorrect == Spec => []AllocInv
BY InitAllocInv, NextKeepsAllocInv, PTL DEF Spec

\* The variables of the daemon always hold values of their types.
THEOREM TypeCorrect == Spec => []TypeOK
<1>1. AllocInv => TypeOK
  BY DEF AllocInv
<1> QED
  BY <1>1, AllocCorrect, PTL

\* Board::owner and Session::board always agree.
THEOREM OwnershipCorrect == Spec => []BoardOwnership
<1>1. AllocInv => BoardOwnership
  BY DEF AllocInv
<1> QED
  BY <1>1, AllocCorrect, PTL

\* Daemon::wait_queue holds exactly the waiting sessions.
THEOREM QueueCorrect == Spec => []QueueIsWaiters
<1>1. AllocInv => QueueIsWaiters
  BY DEF AllocInv
<1> QED
  BY <1>1, AllocCorrect, PTL

\* No session waits for a board that is idle.
THEOREM NoIdleBoard == Spec => []NoIdleBoardForWaiter
<1>1. AllocInv => NoIdleBoardForWaiter
  BY DEF AllocInv
<1> QED
  BY <1>1, AllocCorrect, PTL

\* A connection is accepted once and asks once.
THEOREM OrderCorrect == Spec => []ConnectionOrder
<1>1. AllocInv => ConnectionOrder
  BY DEF AllocInv
<1> QED
  BY <1>1, AllocCorrect, PTL

\* The callback of the child watcher always fits the state of the session.
THEOREM WatcherCorrect == Spec => []WatcherMatchesStatus
<1>1. AllocInv => WatcherMatchesStatus
  BY DEF AllocInv
<1> QED
  BY <1>1, AllocCorrect, PTL
=============================================================================
