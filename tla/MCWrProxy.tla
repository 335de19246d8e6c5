----------------------------- MODULE MCWrProxy -----------------------------
(* A small instance of WrProxy: bytes 0 to 3, of which 0, 1 and 2 stand for *)
(* '\0', '\n' and '\r', two byte lengths, and payloads such that a frame   *)
(* may fill the buffer.                                                    *)
EXTENDS WrProxy

MCEOL == {0, 1, 2}
MCConnectCmd == <<3, 3>>

\* The command ends with "\r\n".
MCCommandsCrLf == {<<3, 3, 2, 1>>}

MCPayloads == {<<>>, <<1, 2>>}

=============================================================================
