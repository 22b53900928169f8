--------------------------- MODULE MCTaskSemaphore ---------------------------
(***************************************************************************)
(* Instances of TaskSemaphore for TLC; the configurations give every       *)
(* constant its value.                                                     *)
(***************************************************************************)
EXTENDS TaskSemaphore
=============================================================================
