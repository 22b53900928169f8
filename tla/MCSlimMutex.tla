----------------------------- MODULE MCSlimMutex -----------------------------
(* Instances of SlimMutex for TLC. *)
EXTENDS SlimMutex, TLC

=============================================================================
