------------------------------- MODULE MCTab --------------------------------
(* Instances of Tab for TLC. *)
EXTENDS Tab

CONSTANTS c1, c2

TwoConnections == {c1, c2}

=============================================================================
