--------------------------- MODULE MCConnections ---------------------------
(* How connections come about and what happens to their bytes, checked in  *)
(* one run.  A behaviour is one of                                         *)
(*   "manual":     daemons create their sockets one after another and      *)
(*                 clients connect (Listeners);                            *)
(*   "systemd":    the same with the client socket from systemd;           *)
(*   "tcp":        one connection served by a TcpProxy;                    *)
(*   "wr":         one connection served by a WrProxy;                     *)
(*   "lock_step":  the same for a Workbench that waits for each frame.     *)
(* What a kind does not use keeps its initial value; daemons have ended.   *)
(* For the WrProxy bytes are 0 to 3, of which 0, 1 and 2 stand for '\0',  *)
(* '\n' and '\r', lengths have two bytes, and a frame may fill the buffer. *)
EXTENDS Listeners

CONSTANTS
    TcpCapacity, TcpSockBuf, MaxBytes,
    WrCapacity, WrSockBuf, MaxFrames, MaxLockStepFrames, MaxDatagrams

VARIABLES
    kind,
    proxy, route, tcp_end, closed_by, sent, inq, buf, outq, got,
    wr_state, reply, eof_logged, client_open, todo, wr_inq, buf_c2t, frames, datagrams,
    t_in, t_read, stream, unread, overrun

MCName == <<"boardproxy", "ssh", "www">>
MCCut == [n \in {MCName[i] : i \in 1..3} |-> n]

\* One byte ends the command; a client may send another command.
MCCommands == {<<3, 3, 0>>, <<3, 1>>}

Tcp == INSTANCE TcpProxy WITH Capacity <- TcpCapacity, SockBuf <- TcpSockBuf, end <- tcp_end

Pipelined == INSTANCE WrProxy WITH
    Base <- 4, HdrLen <- 2, EOL <- {0, 1, 2}, ConnectCmd <- <<3, 3>>, Commands <- MCCommands,
    Payloads <- {<<>>, <<1, 2>>}, Capacity <- WrCapacity, SockBuf <- WrSockBuf, inq <- wr_inq, state <- wr_state,
    LockStep <- FALSE

Lockstep == INSTANCE WrProxy WITH
    Base <- 4, HdrLen <- 2, EOL <- {0, 1, 2}, ConnectCmd <- <<3, 3>>, Commands <- MCCommands,
    Payloads <- {<<>>, <<1, 2>>}, Capacity <- WrCapacity, SockBuf <- WrSockBuf, inq <- wr_inq, state <- wr_state,
    LockStep <- TRUE, MaxFrames <- MaxLockStepFrames, MaxDatagrams <- 0

ASSUME SizesAssumption == Pipelined!SizesFit /\ Lockstep!SizesFit

tcpVars == <<proxy, route, tcp_end, closed_by, sent, inq, buf, outq, got>>
wrVars ==
    <<wr_state, reply, eof_logged, client_open, todo, wr_inq, buf_c2t, frames, datagrams,
      t_in, t_read, stream, unread, overrun>>

Sys == INSTANCE Listeners WITH Activation <- TRUE

-----------------------------------------------------------------------------
(* The union                                                               *)

Idle ==
    /\ file = [f \in File |-> NoListener] /\ listening = {}
    /\ state = [p \in Proc |-> "ended"] /\ step = [p \in Proc |-> First]
    /\ conn = [c \in Client |-> NoListener] /\ accepted = [c \in Client |-> Nobody]

ConnInit ==
    /\ \/ kind = "manual" /\ Init
       \/ kind = "systemd" /\ Sys!Init
       \/ kind \in {"tcp", "wr", "lock_step"} /\ Idle
    /\ Tcp!Init /\ Pipelined!Init
    /\ kind \notin {"wr", "lock_step"} => todo = <<3, 1>>

ConnNext ==
    /\ \/ kind = "manual" /\ Next /\ UNCHANGED <<tcpVars, wrVars>>
       \/ kind = "systemd" /\ Sys!Next /\ UNCHANGED <<tcpVars, wrVars>>
       \/ kind = "tcp" /\ Tcp!Next /\ UNCHANGED <<vars, wrVars>>
       \/ kind = "wr" /\ Pipelined!Next /\ UNCHANGED <<vars, tcpVars>>
       \/ kind = "lock_step" /\ Lockstep!Next /\ UNCHANGED <<vars, tcpVars>>
    /\ UNCHANGED kind

\* The fairness of the modules.  The actions of Tcp!Fairness are not enabled in
\* Tcp!Init, and the fair actions of Listeners are not enabled in Idle.
ConnSpec ==
    /\ ConnInit /\ [][ConnNext]_<<kind, vars, tcpVars, wrVars>>
    /\ \A p \in Proc :
          /\ WF_vars(start(p)) /\ WF_vars(run(p))
          /\ WF_vars(kind = "manual" /\ setup_listener(p))
          /\ WF_vars(kind = "systemd" /\ Sys!setup_listener(p))
          /\ \A c \in Client : WF_vars(on_client_connecting(p, c))
    /\ Tcp!Fairness
    /\ WF_wrVars(kind = "lock_step" /\ Lockstep!on_client_data)
    /\ WF_wrVars(kind = "lock_step" /\ Lockstep!ClientWrites)

-----------------------------------------------------------------------------
(* The properties of TcpProxy and WrProxy                                  *)

\* The buffers of TcpProxy and WrProxy stay within their capacity.
ProxyTypesOK == (kind = "tcp" => Tcp!TypeOK) /\ (kind = "wr" => Pipelined!TypeOK)

\* TcpProxy::on_data: no byte is lost, doubled or moved by short writes.
StreamIntegrity == kind = "tcp" => Tcp!StreamIntegrity

\* TcpProxy::on_data and WrProxy::on_client_data take no read into a full buffer
\* for the end of the stream, although what is read may stay in the buffer.
EofIsReal == (kind = "tcp" => Tcp!EofIsReal) /\ (kind = "wr" => Pipelined!EofIsReal)

\* TcpProxy::on_data forwards what it reads, but for the rest of a short write.
Forwarded == kind = "tcp" => Tcp!Forwarded

\* WrProxy::on_client_data: the datagrams sent are the frames received;
\* WrProxy::on_target_data frames the datagrams until a write falls short.
FramingKept == kind = "wr" => Pipelined!FramingKept

\* WrProxy::on_client_data forwards every frame of a client that waits for each
\* of its frames to be forwarded.  Of a client that does not wait, a frame that
\* was read together with the one before it stays in buf_c2t.
FrameReaches == kind = "lock_step" => Lockstep!FrameReaches
=============================================================================
