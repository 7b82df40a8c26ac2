----------------------------- MODULE MCDesktop -----------------------------
(***************************************************************************)
(* What sqail-ui keeps, for TLC.  The parts of Desktop share no state, so  *)
(* that whatever they do together, each goes through states it has alone:  *)
(* here one acts, `part`, and the others stay as they began.               *)
(***************************************************************************)
EXTENDS Desktop, TLC

CONSTANTS a, b, p, q

HomeOf == p :> a @@ q :> b

\* What workspace.json may hold at first: nothing, or a query and the tab of a
\* file.
NoTabs == [tabs |-> <<>>, active |-> 0]
TwoTabs ==
  [tabs |-> <<[path |-> "scratch", text |-> "x", pinned |-> FALSE],
              [path |-> "p", text |-> "x", pinned |-> FALSE]>>,
   active |-> 2]
StoredTabs == {NoTabs, TwoTabs}

VARIABLE part

-----------------------------------------------------------------------------
InitPart ==
  /\ part \in {"connect", "tree", "workspace", "history"}
  /\ Init /\ Tree!Init /\ Workspace!Init /\ History!Init
  /\ part = "connect" \/ life = [r \in Profiles |-> "new"]
  /\ part = "workspace" \/ (file = NoTabs /\ disk["p"] = "")

treeVars == <<listed, data, requests, asked, version, own>>
workspaceVars ==
  <<phase, leaving, tabs, active, dialog, known, tmp, file, disk, tasks, inbox,
    actions, faults, unsaved, left>>
historyVars ==
  <<step, entries, historyFile, ragged, pushed, historyFaults, cleared, damaged,
    emptied, torn, since>>

NextPart ==
  /\ UNCHANGED part
  /\ \/ /\ part = "connect" /\ Next
        /\ UNCHANGED <<treeVars, workspaceVars, historyVars>>
     \/ /\ part = "tree" /\ Tree!Next
        /\ UNCHANGED <<vars, workspaceVars, historyVars>>
     \/ /\ part = "workspace" /\ Workspace!Next
        /\ UNCHANGED <<vars, treeVars, historyVars>>
     \/ /\ part = "history" /\ History!Next
        /\ UNCHANGED <<vars, treeVars, workspaceVars>>

SpecPart == InitPart /\ [][NextPart]_<<part, vars, treeVars, workspaceVars, historyVars>>

=============================================================================
