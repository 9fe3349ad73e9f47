----------------------------- MODULE MCCELLTask -----------------------------
(***************************************************************************)
(* A task server on a small instance: two threads that start and close it, *)
(* and a bounded number of tasks added by anybody at any time.             *)
(***************************************************************************)
EXTENDS CELLTask
=============================================================================
