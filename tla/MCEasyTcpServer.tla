--------------------------- MODULE MCEasyTcpServer ---------------------------
(***************************************************************************)
(* The server on a small instance: a few message threads, and as many      *)
(* connections as Clients has members.                                     *)
(***************************************************************************)
EXTENDS EasyTcpServer
=============================================================================
