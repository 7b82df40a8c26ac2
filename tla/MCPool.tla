------------------------------- MODULE MCPool -------------------------------
(* Instances of Pool for TLC. *)
EXTENDS Pool

CONSTANTS t1, t2, t3, c1, c2, c3

MCTasks == {t1, t2, t3}
MCScripts == {t1, t2}
MCConns == {c1, c2, c3}

=============================================================================
