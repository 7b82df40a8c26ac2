------------------------------ MODULE Desktop ------------------------------
(***************************************************************************)
(* What sqail-ui keeps: its connection to a service and the profiles there *)
(* (Connect), what it caches of their schemas (Tree), the tabs' texts      *)
(* (Workspace) and the query history (History).  No action of one changes  *)
(* the state of another.                                                   *)
(***************************************************************************)
EXTENDS Connect, Sequences

CONSTANTS
  \* Tree
  Connections, MaxRequests, MaxChanges,
  \* Workspace
  Texts, Blank, Paths, Stored, MaxTabs, MaxActions, MaxFaults,
  \* History
  Limit, MaxPushes, MaxHistoryFaults

VARIABLES
  \* Tree
  listed, data, requests, asked, version, own,
  \* Workspace
  phase, leaving, tabs, active, dialog, known, tmp, file, disk, tasks, inbox,
  actions, faults, unsaved, left,
  \* History
  step, entries, historyFile, ragged, pushed, historyFaults, cleared, damaged,
  emptied, torn, since

\* How many entries are kept, and the bounds of the history, are numbers.
ASSUME HistoryAssumption ==
  Limit \in Nat /\ MaxPushes \in Nat /\ MaxHistoryFaults \in Nat

\* So are those of the workspace.  What is stored has a tab that is active, unless
\* it has none, and no more tabs than the bound.
ASSUME WorkspaceAssumption ==
  /\ MaxTabs \in Nat \ {0} /\ MaxActions \in Nat /\ MaxFaults \in Nat
  /\ Blank \in Texts /\ "scratch" \notin Paths
  /\ \A w \in Stored :
       /\ w \in [tabs : Seq([path : Paths \cup {"scratch"}, text : Texts, pinned : BOOLEAN]),
                 active : 0 .. MaxTabs]
       /\ Len(w.tabs) <= MaxTabs
       /\ IF w.tabs = <<>> THEN w.active = 0 ELSE w.active \in 1 .. Len(w.tabs)

Tree == INSTANCE Tree WITH made <- asked
Workspace == INSTANCE Workspace
History == INSTANCE History
  WITH MaxFaults <- MaxHistoryFaults, file <- historyFile, faults <- historyFaults

-----------------------------------------------------------------------------
(* Properties of Tree, Workspace and History *)

\* A node that says "Loading" has a request on its way (SchemaTree).
LoadingIsAsked == Tree!LoadingIsAsked

\* A tab without the mark of unsaved changes holds what its file was last read
\* or written as, unless it was edited or saved again while a save was under way
\* (is_dirty, mark_saved).
CleanIsSaved == Workspace!CleanIsSaved

\* No tab goes with a text that is not in its file, unless the user discarded
\* it (request_close_tab, save_and_close_tab).
CloseLosesNothing == Workspace!CloseLosesNothing

\* After an exit the next start shows the same tabs (autosave_workspace,
\* restore_workspace).
RestartKeepsTabs == Workspace!RestartKeepsTabs

\* An append that is cut short loses its own entry and the one it is appended to
\* at most (History::push), unless the cut is inside a character.
FileKeeps == History!FileKeeps

=============================================================================
