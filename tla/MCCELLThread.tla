---------------------------- MODULE MCCELLThread ----------------------------
(***************************************************************************)
(* A CELLThread object on a small instance: the controllers that are not   *)
(* workers call Start, Close and Exit in any order, and at most            *)
(* Cardinality(Workers) calls of Start create a thread.                    *)
(***************************************************************************)
EXTENDS CELLThread
=============================================================================
