----------------------------- MODULE BoardPool ------------------------------
(***************************************************************************)
(* What the daemon promises about its boards, without event loop, sockets  *)
(* and processes: a user who asks gets a free board that the user may have,*)
(* one reserved for the user first, or waits; whoever leaves gives up the  *)
(* board and at once the first waiting user who may have it gets it.       *)
(* Module DaemonPool states that Daemon implements this.                   *)
(***************************************************************************)
EXTENDS Naturals, Sequences, FiniteSets, SequencesExt

CONSTANTS
    Customer,      \* whoever asks for a board
    Name,          \* nonempty user names
    Resource,      \* the boards
    reserved_for,  \* reserved_for[b]: a user, or None
    None

VARIABLES
    holder,  \* holder[b]: who has board b, or None
    queue,   \* who waits, oldest first
    user     \* user[c]: on whose behalf c asked, or None

pool == <<holder, queue, user>>

PoolInit ==
    /\ holder = [b \in Resource |-> None]
    /\ queue = <<>>
    /\ user = [c \in Customer |-> None]

MayHave(u, b) == reserved_for[b] \in {None, u}

Free(u) == {b \in Resource : holder[b] = None /\ MayHave(u, b)}

Preferred(u) ==
    LET own == {b \in Free(u) : reserved_for[b] # None}
    IN  IF own # {} THEN own ELSE Free(u)

\* c holds or waits for a board.
Present(c) == c \in ToSet(queue) \/ \E b \in Resource : holder[b] = c

Get(c, u) ==
    /\ ~Present(c)
    /\ \E b \in Preferred(u) : holder' = [holder EXCEPT ![b] = c]
    /\ user' = [user EXCEPT ![c] = u]
    /\ UNCHANGED queue

Wait(c, u) ==
    /\ ~Present(c) /\ Free(u) = {}
    /\ queue' = Append(queue, c)
    /\ user' = [user EXCEPT ![c] = u]
    /\ UNCHANGED holder

GiveUp(c) ==
    /\ \E i \in DOMAIN queue : queue[i] = c /\ queue' = RemoveAt(queue, i)
    /\ user' = [user EXCEPT ![c] = None]
    /\ UNCHANGED holder

\* The waiting users who may have board b, by their place in the queue.
Heirs(b) == {i \in DOMAIN queue : MayHave(user[queue[i]], b)}

Return(c, b) ==
    /\ holder[b] = c
    /\ user' = [user EXCEPT ![c] = None]
    /\ \/ Heirs(b) = {} /\ holder' = [holder EXCEPT ![b] = None] /\ UNCHANGED queue
       \/ \E i \in Heirs(b) :
            /\ \A j \in Heirs(b) : i <= j
            /\ holder' = [holder EXCEPT ![b] = queue[i]]
            /\ queue' = RemoveAt(queue, i)

\* The service stops; everybody loses the board or the place in the queue.
Stop ==
    /\ holder' = [b \in Resource |-> None]
    /\ queue' = <<>>
    /\ user' = [c \in Customer |-> None]

PoolNext ==
    \/ \E c \in Customer :
         \/ \E u \in Name \cup {None} : Get(c, u) \/ Wait(c, u)
         \/ GiveUp(c)
         \/ \E b \in Resource : Return(c, b)
    \/ Stop

PoolSpec == PoolInit /\ [][pool' # pool /\ PoolNext]_pool
=============================================================================
