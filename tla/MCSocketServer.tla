--------------------------- MODULE MCSocketServer ---------------------------
(* Small instances of SocketServer for TLC.                                *)
EXTENDS SocketServer, TLC

(* Identities and connections are interchangeable in the safety runs.      *)
Symmetric == Permutations(ClientId) \cup Permutations(Socket)
=============================================================================
