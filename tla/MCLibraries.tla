------------------------------ MODULE MCLibraries ------------------------------
(***************************************************************************)
(* The two parts that have no threads of their own, one in each half of    *)
(* the state space: the memory pools, and a message on its way through the *)
(* streams.                                                                *)
(*                                                                         *)
(* Two classes of two blocks for sizes up to 3 (rounded up to 4) and up to *)
(* 6, and an object pool of two: with five pieces held every pool runs     *)
(* empty and objects overflow into the memory manager and into malloc.     *)
(* A message of 14 bytes and an answer of 12 are too small for some of     *)
(* what is written, and an array of three elements for the reader's two.   *)
(***************************************************************************)
EXTENDS MemoryPool, MessageStream

VARIABLE library

MCSizes == {0, 3, 5, 7}
MCClasses == <<3, 6>>

LibraryInit == library \in {"memory", "stream"} /\ MemoryInit /\ StreamInit

LibraryNext ==
  /\ UNCHANGED library
  /\ \/ library = "memory" /\ MemoryNext /\ UNCHANGED streamVars
     \/ library = "stream" /\ StreamNext /\ UNCHANGED poolVars

LibrarySpec == LibraryInit /\ [][LibraryNext]_<<library, poolVars, streamVars>>

(* Both parts' variables have their types. *)
LibraryTypeOK == MemoryTypeOK /\ StreamTypeOK
=============================================================================
