-------------------------- MODULE MCThreadSafeQueue --------------------------
(* Instances of ThreadSafeQueue for TLC: every constant is given in the .cfg. *)
EXTENDS ThreadSafeQueue
=============================================================================
