-------------------------- MODULE MCMessageExchange --------------------------
(***************************************************************************)
(* The connection on a small instance.  A send buffer takes one login of   *)
(* two units and nothing more, a receive buffer a login and a heartbeat,   *)
(* and the network holds two units: messages are split, joined and         *)
(* dropped, and a blocked send does block.  The pairs of builds are the    *)
(* two programs as they are shipped, and two pairs that between them have  *)
(* every other client and server loop.                                     *)
(***************************************************************************)
EXTENDS MessageExchange

MCBuilds == {[client |-> "iocp", server |-> "iocp"],
             [client |-> "select", server |-> "epoll"],
             [client |-> "epoll", server |-> "select"]}
=============================================================================
