------------------------------ MODULE Results ------------------------------
(***************************************************************************)
(* A tab of sqail-ui and its results: the runs that bring them (Tab), and  *)
(* what a user changes in one (Edits).  Edits has a connection and a       *)
(* number of runs of its own, since a result can be edited only once its   *)
(* run ended.                                                              *)
(***************************************************************************)
EXTENDS Tab, FiniteSets

CONSTANTS
  \* Edits
  Columns, Rows, Lists, Keys, Values, MaxResults, MaxClicks, Written, MaxWrites

VARIABLES
  \* Edits
  tables, chosen, result, origin, list, raw, sort, loading, edit, dialog, stmts,
  reviewed, pointed, moved, clicks, writes

\* A table has a key and a value, all cells are numbers, and a select list
\* names what it reads.
ASSUME EditsAssumption ==
  /\ \A c \in Connections :
       /\ Columns[c] \in {<<"k", "v">>, <<"v", "k">>}
       /\ IsFiniteSet(DOMAIN Rows[c])
       /\ Rows[c] \in [DOMAIN Rows[c] -> Values \cup {0}] /\ DOMAIN Rows[c] \subseteq Keys
  /\ Rows \in [Connections -> {Rows[c] : c \in Connections}]
  /\ Lists \subseteq Seq({"star", "k", "v", "other"})
  /\ Keys \subseteq Int \ {0} /\ Values \subseteq Int
  /\ Written \subseteq Connections \X Keys
  /\ MaxResults \in Nat /\ MaxClicks \in Nat /\ MaxWrites \in Nat

Edits == INSTANCE Edits
  WITH MaxRuns <- MaxResults, connection <- chosen, run <- result, from <- origin,
       at <- dialog, opened <- pointed

-----------------------------------------------------------------------------
(* Properties of Edits *)

\* The change of a cell is stored for the row the user pointed at, however the
\* grid is sorted before, between and after (EditState::set, row_ref).
EditsStayOnTheirRows == Edits!EditsStayOnTheirRows

\* A transaction that commits makes the table what the grid showed of it, and
\* leaves the rest as it is by then (statements, apply).
AppliesAsShown == Edits!AppliesAsShown

=============================================================================
