------------------------------ MODULE MCHandshake ------------------------------
(***************************************************************************)
(* Instances of Handshake for TLC.                                         *)
(***************************************************************************)
EXTENDS Handshake

\* Any two of the calls of the client, the calls of the server and a stray meet, not three.
TwoAtMost == calls[Client] + calls[Server] + strays <= 2
=============================================================================
