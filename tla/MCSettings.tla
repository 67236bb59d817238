----------------------------- MODULE MCSettings -----------------------------
(* A small instance of Settings: two values of each number.                 *)
EXTENDS Settings

MCDefault == [k \in Keys |-> 1]
=============================================================================
