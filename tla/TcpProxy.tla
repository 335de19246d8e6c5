------------------------------ MODULE TcpProxy ------------------------------
(***************************************************************************)
(* One connection forwarded by a TcpProxy (src/src/tcpproxy.cpp): bytes    *)
(* from the client's Unix stream socket go through buf_c2t to the board    *)
(* (the target), bytes from the board through buf_t2c to the client.       *)
(*                                                                         *)
(* The bytes an endpoint sends are numbered 1, 2, 3 ..., so that order,    *)
(* loss and duplication are visible.  The kernel holds at most SockBuf     *)
(* bytes per direction on each side of the proxy; each callback of the     *)
(* event loop is one action.                                               *)
(***************************************************************************)
EXTENDS Integers, Sequences, SequencesExt

CONSTANTS
    Capacity,   \* capacity of buf_c2t and of buf_t2c (65536 in the code)
    SockBuf,    \* size of a kernel socket buffer
    MaxBytes    \* bound: an endpoint sends at most this many bytes

Dir == {"c2t", "t2c"}
End == {"client", "target"}

\* The arguments from and to of on_data.
from(d) == IF d = "c2t" THEN "client" ELSE "target"
to(d)   == IF d = "c2t" THEN "target" ELSE "client"

VARIABLES
    proxy,      \* "none", "connecting", "open"; "closed": removed from Session::proxies;
                \* "dead": in the list without a watcher; "crashed": the daemon is gone
    route,      \* result of connect(): "pending", "ok" or "refused"
    end,        \* state of the endpoint: "open"; "shut": it has ended its stream and
                \* still receives; "closed"
    closed_by,  \* endpoint of which the log says that it closed the connection
    sent,       \* number of bytes sent in each direction
    inq,        \* bytes in the receive buffer of the proxy's socket
    buf,        \* buf_c2t and buf_t2c
    outq,       \* bytes in the send buffer of the proxy's socket
    got         \* bytes received by the other endpoint

vars == <<proxy, route, end, closed_by, sent, inq, buf, outq, got>>

Numbered(n) == [i \in 1..n |-> i]

TypeOK ==
    /\ proxy \in {"none", "connecting", "open", "closed", "dead", "crashed"}
    /\ route \in {"pending", "ok", "refused"}
    /\ end \in [End -> {"open", "shut", "closed"}]
    /\ closed_by \in End \cup {"nobody"}
    /\ sent \in [Dir -> 0..MaxBytes]
    /\ inq \in [Dir -> Seq(1..MaxBytes)]
    /\ buf \in [Dir -> Seq(1..MaxBytes)]
    /\ outq \in [Dir -> Seq(1..MaxBytes)]
    /\ got \in [Dir -> Seq(1..MaxBytes)]
    /\ \A d \in Dir : Len(buf[d]) <= Capacity /\ Len(inq[d]) <= SockBuf /\ Len(outq[d]) <= SockBuf

Init ==
    /\ proxy = "none" /\ route = "pending"
    /\ end = [e \in End |-> "open"] /\ closed_by = "nobody"
    /\ sent = [d \in Dir |-> 0]
    /\ inq = [d \in Dir |-> <<>>] /\ buf = [d \in Dir |-> <<>>]
    /\ outq = [d \in Dir |-> <<>>] /\ got = [d \in Dir |-> <<>>]

-----------------------------------------------------------------------------
(* The proxy                                                               *)

\* TcpProxy::TcpProxy: connect() is in progress, has succeeded at once or has
\* failed at once, which throws (as a bad address does) and ends the daemon.  An
\* error found by on_target_connected inside the constructor closes nothing,
\* because the proxy is not in the list yet.
create ==
    /\ proxy = "none"
    /\ \/ proxy' = "connecting" /\ UNCHANGED route
       \/ proxy' \in {"open", "dead"} /\ route' = "ok"
       \/ proxy' = "crashed" /\ UNCHANGED route
    /\ UNCHANGED <<end, closed_by, sent, inq, buf, outq, got>>

on_target_connected ==
    /\ proxy = "connecting" /\ route # "pending"
    /\ proxy' = IF route = "ok" THEN "open" ELSE "closed"
    /\ UNCHANGED <<route, end, closed_by, sent, inq, buf, outq, got>>

\* SocketProxy::close destroys the proxy: what its buffers and its sockets'
\* receive buffers hold is gone, what the kernel is sending is still delivered.
\* A signal (SIGPIPE) that ends the daemon does the same.
Drop(state) ==
    /\ proxy' = state
    /\ inq' = [d \in Dir |-> <<>>] /\ buf' = [d \in Dir |-> <<>>]
    /\ UNCHANGED <<route, end, sent, outq, got>>

\* Faulty variant: READ events of the target are not watched.
Readable_client_only(d) ==
    proxy = "open" /\ d = "c2t" /\ (inq[d] # <<>> \/ end[from(d)] # "open")

Readable(d) == proxy = "open" /\ (inq[d] # <<>> \/ end[from(d)] # "open")

\* Faulty variant: the space already used is not subtracted.
ReadSize_whole(d) == Min({Len(inq[d]), Capacity})

\* What read() finds; it may be nothing because of the end of the stream or
\* because the buffer is full.
ReadSize(d) == Min({Len(inq[d]), Capacity - Len(buf[d])})

Room(d) == SockBuf - Len(outq[d])

\* Faulty variant: a short write is taken for a complete one.
Send_clear(d, data) ==
    LET ret == Min({Len(data), Room(d)})
    IN  /\ ret > 0
        /\ outq' = [outq EXCEPT ![d] = @ \o SubSeq(data, 1, ret)]
        /\ buf' = [buf EXCEPT ![d] = <<>>]

\* Faulty variant: a send that would block is taken for a short write.
Send_again(d, data) ==
    LET ret == Min({Len(data), Room(d)})
    IN  /\ outq' = [outq EXCEPT ![d] = @ \o SubSeq(data, 1, ret)]
        /\ buf' = [buf EXCEPT ![d] = SubSeq(data, ret + 1, Len(data))]

\* send() took the first ret bytes, the others stay in the buffer.
Send(d, data) ==
    LET ret == Min({Len(data), Room(d)})
    IN  /\ ret > 0
        /\ outq' = [outq EXCEPT ![d] = @ \o SubSeq(data, 1, ret)]
        /\ buf' = [buf EXCEPT ![d] = SubSeq(data, ret + 1, Len(data))]

\* TcpProxy::on_data.  The first disjunct is a read of 0 bytes, the second one a
\* read error, the third one a send error: the buffer of the socket is full or
\* the other side is closed, in which case SIGPIPE may end the daemon instead.
\* The last but one is a send that is accepted although the board has gone.
on_data(d) ==
    LET n    == ReadSize(d)
        data == buf[d] \o SubSeq(inq[d], 1, n)
    IN  /\ Readable(d)
        /\ \/ /\ n = 0
              /\ closed_by' = from(d)
              /\ Drop("closed")
           \/ /\ end[from(d)] # "open"
              /\ Drop("closed")
              /\ UNCHANGED closed_by
           \/ /\ n > 0
              /\ \/ Room(d) = 0 /\ Drop("closed")
                 \/ end[to(d)] = "closed" /\ (Drop("closed") \/ Drop("crashed"))
              /\ UNCHANGED closed_by
           \/ /\ n > 0 /\ end[to(d)] = "closed" /\ to(d) = "target"
              /\ inq' = [inq EXCEPT ![d] = SubSeq(@, n + 1, Len(@))]
              /\ buf' = [buf EXCEPT ![d] = <<>>]
              /\ UNCHANGED <<proxy, route, end, closed_by, sent, outq, got>>
           \/ /\ n > 0 /\ end[to(d)] # "closed"
              /\ Send(d, data)
              /\ inq' = [inq EXCEPT ![d] = SubSeq(@, n + 1, Len(@))]
              /\ UNCHANGED <<proxy, route, end, closed_by, sent, got>>

-----------------------------------------------------------------------------
(* The two endpoints and the network between the daemon and the board      *)

RouteResult ==
    /\ proxy = "connecting" /\ route = "pending"
    /\ route' \in {"ok", "refused"}
    /\ UNCHANGED <<proxy, end, closed_by, sent, inq, buf, outq, got>>

Attached(e) ==
    /\ proxy \in {"none", "connecting", "open", "dead"} /\ end[e] # "closed"
    /\ e = "target" => route = "ok"

EndSends(d) ==
    /\ Attached(from(d)) /\ end[from(d)] = "open"
    /\ sent[d] < MaxBytes /\ Len(inq[d]) < SockBuf
    /\ sent' = [sent EXCEPT ![d] = @ + 1]
    /\ inq' = [inq EXCEPT ![d] = Append(@, sent[d] + 1)]
    /\ UNCHANGED <<proxy, route, end, closed_by, buf, outq, got>>

EndReceives(d) ==
    /\ end[to(d)] # "closed" /\ outq[d] # <<>>
    /\ got' = [got EXCEPT ![d] = Append(@, Head(outq[d]))]
    /\ outq' = [outq EXCEPT ![d] = Tail(@)]
    /\ UNCHANGED <<proxy, route, end, closed_by, sent, inq, buf>>

EndCloses(e) ==
    /\ Attached(e)
    /\ \/ end[e] = "open" /\ end' = [end EXCEPT ![e] = "shut"]
       \/ end' = [end EXCEPT ![e] = "closed"]
    /\ UNCHANGED <<proxy, route, closed_by, sent, inq, buf, outq, got>>

Next ==
    \/ create
    \/ on_target_connected
    \/ \E d \in Dir : on_data(d) \/ EndSends(d) \/ EndReceives(d)
    \/ RouteResult
    \/ \E e \in End : EndCloses(e)

Spec == Init /\ [][Next]_vars

\* The loop runs, the kernel finishes connect() and the endpoints read what they
\* are sent; nobody has to send or to close anything.
Fairness ==
    /\ WF_vars(on_target_connected) /\ WF_vars(RouteResult)
    /\ \A d \in Dir : WF_vars(on_data(d)) /\ WF_vars(EndReceives(d))

FairSpec == Spec /\ Fairness

-----------------------------------------------------------------------------
(* Properties                                                              *)

\* What an endpoint has received is what the other one sent first, in order,
\* whatever short writes there were and whenever the proxy was closed; while the
\* proxy is open, all that was sent is on its way.
StreamIntegrity ==
    \A d \in Dir :
        /\ IsPrefix(got[d], Numbered(sent[d]))
        /\ proxy \in {"none", "connecting", "open"} /\ end[to(d)] # "closed" =>
              got[d] \o outq[d] \o buf[d] \o inq[d] = Numbered(sent[d])

\* A buffer is never full when the loop comes back for more, so the read of 0
\* bytes that closes the proxy ("{} closed the connection") is the end of the
\* stream and not a read into a full buffer.
EofIsReal ==
    /\ \A d \in Dir : Len(buf[d]) < Capacity
    /\ closed_by # "nobody" => end[closed_by] # "open"

\* The board and the client receive all that was sent to them, again and again
\* while the proxy is open, unless the receiver goes away or a short write left
\* something in the buffer for good: nothing but more data from the sender makes
\* on_data send the rest.
Forwarded ==
    \A d \in Dir :
        proxy = "open" ~>
            \/ Len(got[d]) = sent[d]
            \/ proxy # "open" \/ end[to(d)] = "closed"
            \/ [](buf[d] # <<>>)

=============================================================================
