------------------------------- MODULE WrProxy -------------------------------
(***************************************************************************)
(* One connection served by a WrProxy (src/src/wrproxy.cpp), the proxy for *)
(* the WindRiver Workbench.  The client sends a connect command, waits for *)
(* "ok" and then sends frames, a big-endian length followed by a payload;  *)
(* the proxy sends every payload to the board as one UDP datagram.  What   *)
(* the board sends goes back to the client as frames.                      *)
(*                                                                         *)
(* Bytes are 0..Base-1 and a length has HdrLen of them.  The client's      *)
(* writes reach the proxy in arbitrary pieces.                             *)
(***************************************************************************)
EXTENDS Integers, Sequences, SequencesExt

CONSTANTS
    Base,           \* number of byte values (256 in the code)
    HdrLen,         \* sizeof(uint32_t)
    Capacity,       \* capacity of buf_c2t (65536 in the code)
    EOL,            \* the bytes '\0', '\n' and '\r'
    ConnectCmd,     \* the text of a connect command the proxy accepts
    Commands,       \* what a client may send first, end of line included
    Payloads,       \* payloads of frames and datagrams
    LockStep,       \* TRUE: a client waits until its frame was forwarded
    SockBuf,        \* size of the send buffer of the client's socket
    MaxFrames,      \* bound: frames sent by the client
    MaxDatagrams    \* bound: datagrams sent by the board

\* Commands and frames fit into the buffer and a length into its bytes.
SizesFit ==
    /\ Base \in Nat \ {0, 1} /\ HdrLen \in Nat \ {0} /\ SockBuf \in Nat
    /\ \A c \in Commands : Len(c) <= Capacity
    /\ \A p \in Payloads : HdrLen + Len(p) <= Capacity /\ Len(p) < Base^HdrLen

VARIABLES
    state,        \* WrProxy::state, or "closed"; "crashed": the daemon has ended
    reply,        \* what the client was told about its command
    eof_logged,   \* the log says that the client closed the connection
    client_open,  \* the client has neither closed nor shut down its end
    todo,         \* rest of what the client is writing
    inq,          \* bytes in the receive buffer of the client's socket
    buf_c2t,
    frames,       \* payloads of all frames of the client
    datagrams,    \* datagrams sent to the board
    t_in,         \* datagrams of the board the proxy has not read
    t_read,       \* those it has read
    stream,       \* bytes written to the client after "ok"
    unread,       \* number of them the client has not read
    overrun       \* a write to the client was short or would have blocked

clientVars == <<client_open, todo, frames>>
targetVars == <<t_in, t_read, stream, unread, overrun>>
vars == <<state, reply, eof_logged, clientVars, inq, buf_c2t, datagrams, targetVars>>

-----------------------------------------------------------------------------
(* Frames                                                                  *)

Byte == 0..(Base - 1)

\* htobe32 and be32toh
htobe(n) == [i \in 1..HdrLen |-> (n \div Base^(HdrLen - i)) % Base]
betoh(s) == FoldLeft(LAMBDA n, byte : n * Base + byte, 0, s)

Frame(p) == htobe(Len(p)) \o p

Encode(ps) == FoldLeft(LAMBDA s, p : s \o Frame(p), <<>>, ps)

TypeOK ==
    /\ state \in {"COMMAND", "DATA", "closed", "crashed"}
    /\ reply \in {"none", "ok", "error"}
    /\ {eof_logged, client_open, overrun} \subseteq BOOLEAN
    /\ {todo, inq, buf_c2t, stream} \subseteq Seq(Byte)
    /\ Len(buf_c2t) <= Capacity
    /\ {frames, datagrams, t_in, t_read} \subseteq Seq(Seq(Byte))
    /\ unread \in 0..SockBuf

Init ==
    /\ state = "COMMAND" /\ reply = "none" /\ eof_logged = FALSE
    /\ client_open = TRUE /\ todo \in Commands /\ frames = <<>>
    /\ inq = <<>> /\ buf_c2t = <<>> /\ datagrams = <<>>
    /\ t_in = <<>> /\ t_read = <<>> /\ stream = <<>> /\ unread = 0 /\ overrun = FALSE

-----------------------------------------------------------------------------
(* The proxy                                                               *)

\* SocketProxy::close, or the end of the daemon.
Drop(end) ==
    /\ state' = end
    /\ inq' = <<>> /\ buf_c2t' = <<>>
    /\ UNCHANGED <<clientVars, datagrams>>

HasCommand(b) == \E i \in DOMAIN b : b[i] \in EOL

\* The bytes before find_first_of("\0\n\r").
Command(b) == SubSeq(b, 1, Min({i \in DOMAIN b : b[i] \in EOL}) - 1)

\* WrProxy::parse_command and handle_connect, which accepts ConnectCmd unless the
\* connection to the board fails.  After the command the buffer is cleared.
parse_command(b) ==
    \/ /\ ~HasCommand(b)
       /\ buf_c2t' = b
       /\ UNCHANGED <<state, reply, clientVars, datagrams>>
    \/ /\ HasCommand(b) /\ Command(b) = ConnectCmd
       /\ state' = "DATA" /\ reply' = "ok" /\ buf_c2t' = <<>>
       /\ UNCHANGED <<clientVars, datagrams>>

\* WrProxy::fail writes the reason to the client and closes the proxy.
ParseFails(b) ==
    /\ HasCommand(b)
    /\ reply' = "error"
    /\ Drop("closed")

\* Faulty variant: a frame is forwarded only when more than the frame is there.
CompleteFrame_strict(b) ==
    Len(b) >= HdrLen /\ Len(b) > HdrLen + betoh(SubSeq(b, 1, HdrLen))

CompleteFrame(b) ==
    Len(b) >= HdrLen /\ Len(b) >= HdrLen + betoh(SubSeq(b, 1, HdrLen))

\* Faulty variant: all of the buffer is sent and erased.
forward_all(b) ==
    \/ /\ CompleteFrame(b)
       /\ datagrams' = Append(datagrams, SubSeq(b, HdrLen + 1, Len(b)))
       /\ buf_c2t' = <<>>
    \/ /\ ~CompleteFrame(b)
       /\ buf_c2t' = b
       /\ UNCHANGED datagrams

\* The DATA case: at most one frame is taken from the buffer.
forward(b) ==
    \/ /\ CompleteFrame(b)
       /\ LET len == betoh(SubSeq(b, 1, HdrLen))
          IN  /\ datagrams' = Append(datagrams, SubSeq(b, HdrLen + 1, HdrLen + len))
              /\ buf_c2t' = SubSeq(b, HdrLen + len + 1, Len(b))
    \/ /\ ~CompleteFrame(b)
       /\ buf_c2t' = b
       /\ UNCHANGED datagrams

Alive == state \in {"COMMAND", "DATA"}

\* What read() finds: nothing at the end of the stream or if the buffer is full.
ReadSize == Min({Len(inq), Capacity - Len(buf_c2t)})

\* WrProxy::on_client_data.  The first disjunct is a read of 0 bytes, the second
\* one a read error.  The third one ends the daemon: SIGPIPE, because the client
\* has gone before "ok" or the error message is written, or an exception of
\* fmt::format, because fail() takes text of the command for a format string.
\* The last one is an error of the datagram socket.
on_client_data ==
    LET n == ReadSize
        b == buf_c2t \o SubSeq(inq, 1, n)
    IN  /\ Alive /\ (inq # <<>> \/ ~client_open)
        /\ \/ n = 0 /\ eof_logged' = TRUE /\ Drop("closed") /\ UNCHANGED reply
           \/ ~client_open /\ Drop("closed") /\ UNCHANGED <<reply, eof_logged>>
           \/ /\ n > 0 /\ state = "COMMAND" /\ HasCommand(b)
              /\ ~client_open \/ Command(b) # ConnectCmd
              /\ Drop("crashed") /\ UNCHANGED <<reply, eof_logged>>
           \/ /\ n > 0 /\ state = "COMMAND"
              /\ \/ parse_command(b) /\ inq' = SubSeq(inq, n + 1, Len(inq))
                 \/ ParseFails(b)
              /\ UNCHANGED eof_logged
           \/ /\ n > 0 /\ state = "DATA"
              /\ forward(b)
              /\ inq' = SubSeq(inq, n + 1, Len(inq))
              /\ UNCHANGED <<state, reply, eof_logged, clientVars>>
           \/ /\ n > 0 /\ state = "DATA" /\ CompleteFrame(b)
              /\ Drop("closed") /\ UNCHANGED <<reply, eof_logged>>
        /\ UNCHANGED targetVars

\* The bytes that two write() calls for a datagram p put into a socket buffer
\* that has room for some bytes only.
Reply(p, room) == SubSeq(Frame(p), 1, Min({room, HdrLen + Len(p)}))

\* WrProxy::on_target_data.  A datagram without payload and a read error (the
\* board refused an earlier datagram) close the proxy, and so does a second
\* write() that finds no room; nobody looks at the result of the first one.
on_target_data ==
    /\ state = "DATA"
    /\ \/ /\ datagrams # <<>> \/ (t_in # <<>> /\ Head(t_in) = <<>>)
          /\ Drop("closed")
          /\ UNCHANGED targetVars
       \/ /\ t_in # <<>> /\ Head(t_in) # <<>>
          /\ LET p    == Head(t_in)
                 room == SockBuf - unread
                 w    == Reply(p, room)
             IN  /\ t_in' = Tail(t_in) /\ t_read' = Append(t_read, p)
                 /\ stream' = stream \o w
                 /\ unread' = unread + Len(w)
                 /\ overrun' = (overrun \/ Len(w) < HdrLen + Len(p))
                 /\ IF room <= HdrLen
                    THEN Drop("closed")
                    ELSE UNCHANGED <<state, inq, buf_c2t, clientVars, datagrams>>
       \/ /\ t_in # <<>> /\ Head(t_in) # <<>> /\ ~client_open
          /\ Drop("closed") \/ Drop("crashed")
          /\ UNCHANGED targetVars
    /\ UNCHANGED <<reply, eof_logged>>

-----------------------------------------------------------------------------
(* The client and the board                                                *)

\* Some of what the client is writing arrives.
ClientWrites ==
    /\ Alive /\ client_open
    /\ \E k \in 1..Len(todo) :
          /\ inq' = inq \o SubSeq(todo, 1, k)
          /\ todo' = SubSeq(todo, k + 1, Len(todo))
    /\ UNCHANGED <<state, reply, eof_logged, client_open, frames, buf_c2t, datagrams, targetVars>>

ClientFrame(p) ==
    /\ Alive /\ client_open /\ reply = "ok" /\ todo = <<>>
    /\ Len(frames) < MaxFrames
    /\ LockStep => Len(datagrams) = Len(frames)
    /\ frames' = Append(frames, p) /\ todo' = Frame(p)
    /\ UNCHANGED <<state, reply, eof_logged, client_open, inq, buf_c2t, datagrams, targetVars>>

ClientReads ==
    /\ client_open
    /\ \E k \in 1..unread : unread' = unread - k
    /\ UNCHANGED <<state, reply, eof_logged, clientVars, inq, buf_c2t, datagrams>>
    /\ UNCHANGED <<t_in, t_read, stream, overrun>>

ClientCloses ==
    /\ Alive /\ client_open
    /\ client_open' = FALSE /\ todo' = <<>>
    /\ UNCHANGED <<state, reply, eof_logged, frames, inq, buf_c2t, datagrams, targetVars>>

BoardSends(p) ==
    /\ state = "DATA" /\ Len(t_in) + Len(t_read) < MaxDatagrams
    /\ t_in' = Append(t_in, p)
    /\ UNCHANGED <<state, reply, eof_logged, clientVars, inq, buf_c2t, datagrams>>
    /\ UNCHANGED <<t_read, stream, unread, overrun>>

Next ==
    \/ on_client_data
    \/ on_target_data
    \/ ClientWrites \/ ClientReads \/ ClientCloses
    \/ \E p \in Payloads : ClientFrame(p) \/ BoardSends(p)

Spec == Init /\ [][Next]_vars

\* The loop runs and what is written arrives.
Fairness == WF_vars(on_client_data) /\ WF_vars(ClientWrites)

FairSpec == Spec /\ Fairness

-----------------------------------------------------------------------------
(* Properties                                                              *)

\* The datagrams the board gets are the client's frames: in order, none lost,
\* merged, split or made up of something else, however the bytes of the command
\* and of the frames are cut into pieces.  What is written to the client are
\* frames with the board's datagrams in order, until a write falls short: then
\* the client loses track, because the results of the writes are not used.
FramingKept ==
    /\ ~overrun => stream = Encode(t_read)
    /\ IsPrefix(datagrams, frames)
    /\ state = "DATA" /\ client_open => Encode(datagrams) \o buf_c2t \o inq \o todo = Encode(frames)

\* The proxy takes a read of 0 bytes for the end of the stream only if it is:
\* although one frame is handled per read, the buffer is never full afterwards.
EofIsReal == eof_logged => ~client_open

\* Every frame is sent to the board eventually (or the proxy is closed), even
\* if it arrives in pieces: from every state one is reached in which all frames
\* of the client have been forwarded.
FrameReaches ==
    state = "DATA" ~> Len(datagrams) = Len(frames) \/ state # "DATA" \/ ~client_open

=============================================================================
