----------------------------- MODULE MCRestart ------------------------------
(* Instances of Restart for TLC. *)
EXTENDS Restart

CONSTANTS a, b

TwoSettings == {a, b}

=============================================================================
