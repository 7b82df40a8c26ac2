------------------------------ MODULE MCEdits -------------------------------
(***************************************************************************)
(* The edits of a result, for TLC; the tab stays as it began.  Two         *)
(* connections whose tables have the same name and different rows.         *)
(***************************************************************************)
EXTENDS Results, TLC

CONSTANTS c1, c2

TwoConnections == {c1, c2}
MCColumns == c1 :> <<"k", "v">> @@ c2 :> <<"v", "k">>
MCRows == c1 :> (1 :> 4 @@ 2 :> 0) @@ c2 :> (1 :> 4)
MCWritten == {<<c1, 2>>, <<c1, 3>>}
\* Everything; the key in the middle and a column twice.
MCLists == {<<"star">>, <<"v", "k", "v">>}

-----------------------------------------------------------------------------
editVars ==
  <<tables, chosen, result, origin, list, raw, sort, loading, edit, dialog, stmts,
    reviewed, pointed, moved, clicks, writes>>

SpecEdits ==
  Init /\ Edits!Init /\ [][Edits!Next /\ UNCHANGED vars]_<<vars, editVars>>

=============================================================================
