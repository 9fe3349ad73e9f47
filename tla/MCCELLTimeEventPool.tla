------------------------- MODULE MCCELLTimeEventPool -------------------------
(***************************************************************************)
(* The timer pool on a small instance: each event has a thread of its own  *)
(* that pushes it and may stop it through its handler.                     *)
(***************************************************************************)
EXTENDS CELLTimeEventPool
=============================================================================
