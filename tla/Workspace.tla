----------------------------- MODULE Workspace -----------------------------
(***************************************************************************)
(* The tabs of sqail-ui as texts: editing them, opening and saving their   *)
(* files in background tasks, the dialogs that close them (app.rs,         *)
(* editor.rs, dialogs.rs), and workspace.json, from which the next start   *)
(* restores them (local.rs).  What a tab runs is Tab's.                    *)
(***************************************************************************)
EXTENDS SequencesExt, FiniteSets, Integers

CONSTANTS
  Texts,      \* what a tab or a file may hold, Blank among it
  Blank,
  Paths,      \* files the user may open or save to
  Stored,     \* what workspace.json may hold at first
  MaxTabs,    \* bound: tabs open at a time
  MaxActions, \* bound: what the user does
  MaxFaults   \* bound: crashes and writes that fail

NoPath == "scratch"
Torn == "torn"
NoWorkspace == [tabs |-> <<>>, active |-> 0]
TornWorkspace == [tabs |-> <<>>, active |-> -1]
Ids == 1 .. MaxTabs + MaxActions + 1

VARIABLES
  phase,     \* "off", "running", or where a save of the workspace is
  leaving,   \* it is the one of on_exit
  tabs,      \* in their order
  active,    \* an index of tabs
  dialog,    \* what is asked, of which index; the tab it was asked about
  known,     \* saved_workspace
  tmp,       \* workspace.json.tmp
  file,      \* workspace.json
  disk,      \* the users' files
  tasks,     \* files being opened and saved
  inbox,     \* what the tasks sent
  actions,
  faults,
  unsaved,   \* the last save of the workspace failed: no, before or at the exit
  left       \* the tabs at the last exit; none after a crash

app == <<tabs, active, dialog>>
store == <<phase, leaving, known, tmp, file>>
work == <<tasks, inbox>>
world == <<faults, unsaved, left>>
vars == <<app, store, disk, work, actions, world>>

Closed == [kind |-> "none", at |-> 0, asked |-> 0]

-----------------------------------------------------------------------------
\* Tab::new.  What the last read or write of its file left there, and whether
\* that is sure, are history.
NewTab(id) ==
  [id |-> id, path |-> NoPath, text |-> Blank, saved |-> Blank, pinned |-> FALSE,
   tx |-> FALSE, onDisk |-> Blank, sure |-> TRUE]

IsDirty(t) == t.text # t.saved /\ ~(t.path = NoPath /\ t.text = Blank)

Snapshot ==
  [tabs |-> [i \in 1 .. Len(tabs) |->
               [path |-> tabs[i].path, text |-> tabs[i].text, pinned |-> tabs[i].pinned]],
   active |-> active]

InFlight(id) ==
  \/ \E s \in tasks : s.tab = id
  \/ \E i \in 1 .. Len(inbox) : inbox[i].tab = id

IndexOf(s, id) == CHOOSE i \in 1 .. Len(s) : s[i].id = id
Has(s, id) == \E i \in 1 .. Len(s) : s[i].id = id

UnusedId ==
  CHOOSE id \in Ids : ~Has(tabs, id) /\ ~InFlight(id) /\ dialog.asked # id

\* Type correctness.
TypeOK ==
  LET Snapshots == [tabs : Seq([path : Paths \cup {NoPath}, text : Texts, pinned : BOOLEAN]),
                    active : 0 .. MaxTabs]
      Contents == Texts \cup {Torn}
  IN /\ phase \in {"off", "running", "writing", "renaming"}
     /\ leaving \in BOOLEAN
     /\ tabs \in Seq([id : Ids, path : Paths \cup {NoPath}, text : Texts, saved : Contents,
                      pinned : BOOLEAN, tx : BOOLEAN, onDisk : Contents, sure : BOOLEAN])
     /\ Len(tabs) <= MaxTabs
     /\ IF phase = "off" THEN tabs = <<>> ELSE active \in 1 .. Len(tabs)
     /\ dialog \in [kind : {"none", "close", "transaction", "quit"}, at : 0 .. MaxTabs,
                    asked : Ids \cup {0}]
     /\ known \in Snapshots
     /\ {tmp, file} \subseteq Snapshots \cup {TornWorkspace}
     /\ disk \in [Paths -> Contents]
     /\ tasks \subseteq [tab : Ids \cup {0}, kind : {"open", "save"}, path : Paths \cup {NoPath},
                         text : Texts, close : BOOLEAN, at : {"start", "writing"}]
     /\ inbox \in Seq([tab : Ids \cup {0}, kind : {"open", "save"}, path : Paths,
                       text : Contents, ok : BOOLEAN, close : BOOLEAN])
     /\ actions \in 0 .. MaxActions
     /\ faults \in 0 .. MaxFaults
     /\ unsaved \in {"no", "before", "exit"}
     /\ left \in Snapshots

Init ==
  /\ phase = "off" /\ leaving = FALSE
  /\ tabs = <<>> /\ active = 0 /\ dialog = Closed
  /\ known = NoWorkspace /\ tmp = NoWorkspace /\ file \in Stored
  /\ disk \in [Paths -> Texts]
  /\ tasks = {} /\ inbox = <<>>
  /\ actions = 0 /\ faults = 0 /\ unsaved = "no" /\ left = NoWorkspace

-----------------------------------------------------------------------------
(* Tabs *)

\* Something the user does in the window: dialogs own it while they are open.
User ==
  /\ phase = "running" /\ dialog = Closed
  /\ actions < MaxActions /\ actions' = actions + 1

\* Typing.  What a save in flight leaves on disk is another text then.
Type(x) ==
  /\ User
  /\ x # tabs[active].text
  /\ tabs' = [tabs EXCEPT ![active].text = x,
                          ![active].sure = @ /\ ~InFlight(tabs[active].id)]
  /\ UNCHANGED <<active, dialog, store, disk, work, world>>

Select(i) ==
  /\ User
  /\ i # active /\ active' = i
  /\ UNCHANGED <<tabs, dialog, store, disk, work, world>>

\* new_tab.
OpenTab ==
  /\ User
  /\ Len(tabs) < MaxTabs
  /\ tabs' = Append(tabs, NewTab(UnusedId))
  /\ active' = Len(tabs')
  /\ UNCHANGED <<dialog, store, disk, work, world>>

\* A run leaves the tab in a transaction, or out of it.
Transaction(i) ==
  /\ phase = "running"
  /\ actions < MaxActions /\ actions' = actions + 1
  /\ tabs' = [tabs EXCEPT ![i].tx = ~@]
  /\ UNCHANGED <<active, dialog, store, disk, work, world>>

\* set_pinned: last of the pinned, or first after them.
Pinned(s, i) ==
  LET tab == [s[i] EXCEPT !.pinned = ~@]
      others == RemoveAt(s, i)
      at == Cardinality({j \in 1 .. Len(others) : others[j].pinned})
  IN InsertAt(others, at + 1, tab)

Pin(i) ==
  /\ User
  /\ tabs' = Pinned(tabs, i)
  /\ active' = IndexOf(tabs', tabs[active].id)
  /\ UNCHANGED <<dialog, store, disk, work, world>>

-----------------------------------------------------------------------------
(* Closing *)

\* close_tab: an empty window gets a new tab.
ClosedTab(s, i) ==
  IF Len(s) = 1 THEN <<NewTab(UnusedId)>> ELSE RemoveAt(s, i)

CloseTab(i) ==
  /\ tabs' = ClosedTab(tabs, i)
  /\ active' = IF active > Len(tabs') THEN Len(tabs') ELSE active

\* request_close_tab, with "Ask before closing a tab with unsaved changes" on.
RequestClose(i) ==
  IF tabs[i].tx
  THEN dialog' = [kind |-> "transaction", at |-> i, asked |-> tabs[i].id] /\ UNCHANGED <<tabs, active>>
  ELSE IF IsDirty(tabs[i])
  THEN dialog' = [kind |-> "close", at |-> i, asked |-> tabs[i].id] /\ UNCHANGED <<tabs, active>>
  ELSE CloseTab(i) /\ dialog' = Closed

Close(i) ==
  /\ User
  /\ RequestClose(i)
  /\ UNCHANGED <<store, disk, work, world>>

\* The dialogs know the tab by its index.
Answering(kinds) == phase = "running" /\ dialog.kind \in kinds

Cancel ==
  /\ Answering({"close", "transaction", "quit"})
  /\ dialog' = Closed
  /\ UNCHANGED <<tabs, active, store, disk, work, actions, world>>

\* Nothing, when the index is past the end.
Discard ==
  /\ Answering({"close"})
  /\ IF dialog.at \in 1 .. Len(tabs) THEN CloseTab(dialog.at) ELSE UNCHANGED <<tabs, active>>
  /\ dialog' = Closed
  /\ UNCHANGED <<store, disk, work, actions, world>>

\* "Roll back and close": asks again about the text.
RollBack ==
  /\ Answering({"transaction"})
  /\ dialog.at \in 1 .. Len(tabs)
  /\ LET t == [tabs[dialog.at] EXCEPT !.tx = FALSE]
     IN IF IsDirty(t)
        THEN /\ dialog' = [kind |-> "close", at |-> dialog.at, asked |-> dialog.asked]
             /\ tabs' = [tabs EXCEPT ![dialog.at] = t]
             /\ UNCHANGED active
        ELSE /\ dialog' = Closed
             /\ CloseTab(dialog.at)
  /\ UNCHANGED <<store, disk, work, actions, world>>

-----------------------------------------------------------------------------
(* Files *)

\* save_tab_then, from the command or, with close, from the dialog.
\* (A second save of the same text is the same task.)
Saving(i, path, close) ==
  /\ tabs' = [tabs EXCEPT ![i].sure = @ /\ ~InFlight(tabs[i].id)]
  /\ tasks' = tasks \cup
       {[tab |-> tabs[i].id, kind |-> "save", path |-> path, text |-> tabs[i].text,
         close |-> close, at |-> "start"]}
  /\ tasks' # tasks
  /\ UNCHANGED <<active, inbox>>

Save(saveAs) ==
  /\ User
  /\ Saving(active, IF saveAs THEN NoPath ELSE tabs[active].path, FALSE)
  /\ UNCHANGED <<dialog, store, disk, world>>

SaveAndClose ==
  /\ Answering({"close"})
  /\ dialog.at \in 1 .. Len(tabs)
  /\ Saving(dialog.at, tabs[dialog.at].path, TRUE)
  /\ dialog' = Closed
  /\ UNCHANGED <<store, disk, actions, world>>

\* open_file, with the file picked.
OpenFile(p) ==
  /\ User
  /\ tasks' = tasks \cup
       {[tab |-> 0, kind |-> "open", path |-> p, text |-> Blank, close |-> FALSE, at |-> "start"]}
  /\ tasks' # tasks
  /\ UNCHANGED <<app, store, disk, inbox, world>>

Drop(s) == tasks' = tasks \ {s}

Send(s, text, ok) ==
  inbox' = Append(inbox, [tab |-> s.tab, kind |-> s.kind, path |-> s.path, text |-> text,
                          ok |-> ok, close |-> s.close])

\* The native dialog, which does not hold the window: a path, or none.
PickPath(s) ==
  /\ phase # "off"
  /\ s \in tasks /\ s.path = NoPath
  /\ \/ \E p \in Paths : tasks' = (tasks \ {s}) \cup {[s EXCEPT !.path = p]}
     \/ Drop(s)
  /\ UNCHANGED <<app, store, disk, inbox, actions, world>>

\* Read while it is written, or torn, it is empty.
Text(p) == IF disk[p] = Torn THEN Blank ELSE disk[p]

ReadFile(s) ==
  /\ phase # "off"
  /\ s \in tasks /\ s.kind = "open"
  /\ Drop(s)
  /\ Send(s, Text(s.path), TRUE)
  /\ UNCHANGED <<app, store, disk, actions, world>>

\* std::fs::write: it empties the file first.
Truncate(s) ==
  /\ phase # "off"
  /\ s \in tasks /\ s.kind = "save" /\ s.at = "start" /\ s.path # NoPath
  /\ disk' = [disk EXCEPT ![s.path] = Torn]
  /\ tasks' = (tasks \ {s}) \cup {[s EXCEPT !.at = "writing"]}
  /\ UNCHANGED <<app, store, inbox, actions, world>>

\* Another save of the tab that is not over.
OtherSave(s) ==
  \/ \E o \in tasks \ {s} : o.tab = s.tab
  \/ \E i \in 1 .. Len(inbox) : inbox[i].tab = s.tab

OnDisk(id, text, Sure(_)) ==
  tabs' = [i \in 1 .. Len(tabs) |->
             IF tabs[i].id = id
             THEN [tabs[i] EXCEPT !.onDisk = text, !.sure = Sure(tabs[i])]
             ELSE tabs[i]]

Write(s) ==
  /\ phase # "off"
  /\ s \in tasks /\ s.at = "writing"
  /\ disk' = [disk EXCEPT ![s.path] = s.text]
  /\ Drop(s)
  /\ Send(s, s.text, TRUE)
  /\ LET Sure(t) == t.sure \/ (t.text = s.text /\ ~OtherSave(s))
     IN OnDisk(s.tab, s.text, Sure)
  /\ UNCHANGED <<active, dialog, store, actions, world>>

Fault == faults < MaxFaults /\ faults' = faults + 1

\* It may fail before it touches the file, or after.
FailWrite(s) ==
  /\ phase # "off" /\ Fault
  /\ s \in tasks /\ s.kind = "save" /\ s.path # NoPath
  /\ Drop(s)
  /\ Send(s, s.text, FALSE)
  /\ IF s.at = "writing" THEN OnDisk(s.tab, Torn, LAMBDA t : FALSE) ELSE UNCHANGED tabs
  /\ UNCHANGED <<active, dialog, store, disk, actions, unsaved, left>>

\* Mutant: what was written is not looked at, nor whether it was.
MarkedSavedAnyhow(t, m) == [t EXCEPT !.path = m.path, !.saved = t.text]

\* mark_saved: the text as it is by now.
MarkedSaved(t, m) ==
  IF m.ok THEN [t EXCEPT !.path = m.path, !.saved = t.text] ELSE t

\* Mutant: closes after a save that failed.
FileSavedOrNot(m) ==
  IF ~Has(tabs, m.tab) THEN UNCHANGED <<tabs, active>>
  ELSE LET i == IndexOf(tabs, m.tab)
           marked == [tabs EXCEPT ![i] = MarkedSaved(@, m)]
       IN IF m.close
          THEN /\ tabs' = ClosedTab(marked, i)
               /\ active' = IF active > Len(tabs') THEN Len(tabs') ELSE active
          ELSE tabs' = marked /\ UNCHANGED active

\* Msg::FileSaved.
FileSaved(m) ==
  IF ~Has(tabs, m.tab) THEN UNCHANGED <<tabs, active>>
  ELSE LET i == IndexOf(tabs, m.tab)
           marked == [tabs EXCEPT ![i] = MarkedSaved(@, m)]
       IN IF m.ok /\ m.close
          THEN /\ tabs' = ClosedTab(marked, i)
               /\ active' = IF active > Len(tabs') THEN Len(tabs') ELSE active
          ELSE tabs' = marked /\ UNCHANGED active

\* Msg::FileOpened: into an untouched empty tab, one that never ran anything,
\* or a new one.
FileOpened(m) ==
  LET With(t) == [t EXCEPT !.path = m.path, !.text = m.text, !.saved = m.text,
                           !.onDisk = m.text, !.sure = ~InFlight(t.id)]
  IN \/ /\ tabs[active].text = Blank /\ tabs[active].path = NoPath
        /\ tabs' = [tabs EXCEPT ![active] = With(@)]
        /\ UNCHANGED active
     \/ /\ Len(tabs) < MaxTabs
        /\ tabs' = Append(tabs, With(NewTab(UnusedId)))
        /\ active' = Len(tabs')

\* The messages are taken also while a dialog is open.
Handle ==
  /\ phase = "running" /\ inbox # <<>>
  /\ LET m == Head(inbox) IN IF m.kind = "save" THEN FileSaved(m) ELSE FileOpened(m)
  /\ inbox' = Tail(inbox)
  /\ UNCHANGED <<dialog, store, disk, tasks, actions, world>>

-----------------------------------------------------------------------------
(* The workspace's file *)

\* Workspace::save writes another file first, and renames it then.
WriteFirst ==
  /\ phase' = "writing"
  /\ tmp' = TornWorkspace
  /\ UNCHANGED file

\* autosave_workspace, once a second; on_exit forces it.
Autosave(exit) ==
  /\ phase = "running"
  /\ known # Snapshot
  /\ leaving' = exit
  /\ WriteFirst
  /\ UNCHANGED <<app, known, disk, work, actions, world>>

Written ==
  /\ phase = "writing"
  /\ tmp' = Snapshot
  /\ phase' = "renaming"
  /\ UNCHANGED <<app, leaving, known, file, disk, work, actions, world>>

\* The process ends, and with it what it knows.
End ==
  /\ phase' = "off" /\ leaving' = FALSE
  /\ tabs' = <<>> /\ active' = 0 /\ dialog' = Closed
  /\ tasks' = {} /\ inbox' = <<>>

\* Tasks that are in a write finish that before.
Off == End /\ ~\E s \in tasks : s.at = "writing"

Renamed ==
  /\ phase = "renaming"
  /\ file' = tmp /\ tmp' = NoWorkspace
  /\ known' = Snapshot
  /\ unsaved' = "no"
  /\ IF leaving
     THEN Off /\ left' = Snapshot
     ELSE phase' = "running" /\ UNCHANGED <<leaving, app, work, left>>
  /\ UNCHANGED <<disk, actions, faults>>

\* A warning in the log; it counts as saved.
NotSaved ==
  /\ phase \in {"writing", "renaming"} /\ Fault
  /\ known' = Snapshot
  /\ unsaved' = IF leaving THEN "exit" ELSE "before"
  /\ IF leaving
     THEN Off /\ left' = Snapshot
     ELSE phase' = "running" /\ UNCHANGED <<leaving, app, work, left>>
  /\ UNCHANGED <<tmp, file, disk, actions>>

\* The window is asked to close: a transaction is asked about, unless the user
\* agreed (allow_close).
Quit ==
  /\ phase = "running" /\ dialog.kind # "quit"
  /\ actions < MaxActions /\ actions' = actions + 1
  /\ \E i \in 1 .. Len(tabs) : tabs[i].tx
  /\ dialog' = [kind |-> "quit", at |-> 0, asked |-> 0]
  /\ UNCHANGED <<tabs, active, store, disk, work, world>>

MayExit ==
  \/ \A i \in 1 .. Len(tabs) : ~tabs[i].tx
  \/ dialog.kind = "quit"

\* on_exit, with nothing to save.
Exit ==
  /\ phase = "running" /\ MayExit
  /\ known = Snapshot
  /\ Off /\ left' = Snapshot
  /\ UNCHANGED <<known, tmp, file, disk, actions, faults, unsaved>>

ExitSaving == MayExit /\ Autosave(TRUE)

Crash ==
  /\ phase # "off" /\ Fault
  /\ End /\ left' = NoWorkspace
  /\ UNCHANGED <<known, tmp, file, disk, actions, unsaved>>

\* Save in a dialog whose index is past the end: save_tab_then panics, and so
\* does request_close_tab for "Roll back and close".
Panic ==
  /\ Answering({"close", "transaction"}) /\ dialog.at > Len(tabs)
  /\ End /\ left' = NoWorkspace
  /\ UNCHANGED <<known, tmp, file, disk, actions, faults, unsaved>>

\* Mutant: forgets the pins.
RestoredUnpinned(i, t) ==
  LET now == IF t.path = NoPath THEN Blank ELSE Text(t.path)
  IN [NewTab(i) EXCEPT !.path = t.path, !.text = t.text, !.saved = now, !.onDisk = now]

\* Tab::restore: dirty relative to the file on disk; one that
\* cannot be read is empty.
Restored(i, t) ==
  LET now == IF t.path = NoPath THEN Blank ELSE Text(t.path)
  IN [NewTab(i) EXCEPT !.path = t.path, !.text = t.text, !.pinned = t.pinned,
                       !.saved = now, !.onDisk = now]

PlacesOf(picked) ==
  FlattenSeq([i \in DOMAIN picked |-> IF picked[i] THEN <<i>> ELSE <<>>])

\* restore_workspace: pinned tabs first, whatever order the file has.
PinnedFirst(s, at) ==
  LET order == PlacesOf([i \in DOMAIN s |-> s[i].pinned])
                 \o PlacesOf([i \in DOMAIN s |-> ~s[i].pinned])
      sorted == [k \in DOMAIN order |-> s[order[k]]]
  IN [tabs |-> sorted, active |-> IndexOf(sorted, s[at].id)]

\* A file that is torn counts as none.
Start ==
  /\ phase = "off"
  /\ phase' = "running"
  /\ IF file.tabs = <<>>
     THEN tabs' = <<NewTab(1)>> /\ active' = 1 /\ known' = NoWorkspace
     ELSE LET r == PinnedFirst([i \in 1 .. Len(file.tabs) |-> Restored(i, file.tabs[i])],
                               file.active)
          IN tabs' = r.tabs /\ active' = r.active /\ known' = file
  /\ UNCHANGED <<leaving, dialog, tmp, file, disk, work, actions, world>>

-----------------------------------------------------------------------------
Next ==
  \/ \E x \in Texts : Type(x)
  \/ \E i \in 1 .. Len(tabs) : Select(i) \/ Transaction(i) \/ Pin(i) \/ Close(i)
  \/ OpenTab \/ Cancel \/ Discard \/ RollBack \/ SaveAndClose \/ Quit
  \/ \E b \in BOOLEAN : Save(b)
  \/ \E p \in Paths : OpenFile(p)
  \/ \E s \in tasks : PickPath(s) \/ ReadFile(s) \/ Truncate(s) \/ Write(s) \/ FailWrite(s)
  \/ Handle
  \/ Autosave(FALSE) \/ ExitSaving \/ Written \/ Renamed \/ NotSaved \/ Exit
  \/ Crash \/ Panic \/ Start

Spec == Init /\ [][Next]_vars

-----------------------------------------------------------------------------
(* Properties *)

\* set_pinned and restore_workspace: however tabs come, go and are moved, the
\* pinned ones stay together at the start.
PinnedAreFirst ==
  \A i, j \in 1 .. Len(tabs) : i < j /\ tabs[j].pinned => tabs[i].pinned

HoldsItsText(t) == t.text = t.onDisk \/ (t.path = NoPath /\ t.text = Blank)

\* is_dirty: a tab without the mark of unsaved changes holds what its file was
\* last read or written as, also after a save that failed, a crash, or a file
\* opened into it; unless it was edited or saved again while a save was under
\* way.
CleanIsSaved ==
  \A i \in 1 .. Len(tabs) :
    LET t == tabs[i] IN t.sure /\ ~IsDirty(t) => HoldsItsText(t)

\* The same of every tab: "Dirty relative to the file on disk" (editor.rs).
CleanIsOnDisk ==
  \A i \in 1 .. Len(tabs) : ~IsDirty(tabs[i]) => HoldsItsText(tabs[i])

\* "Write-then-rename so a crash never leaves a torn file" (local.rs).
WorkspaceIsWhole == file # TornWorkspace

Goes(t) == phase' # "off" /\ ~Has(tabs', t.id)
Answered == dialog.kind = "close" /\ dialog' = Closed

\* request_close_tab, save_and_close_tab: no tab goes with a text that is not in
\* its file, unless the user discarded it, or was not told (CleanIsSaved), or
\* the dialog's index had moved to another tab.
CloseLosesNothing ==
  [][\A i \in 1 .. Len(tabs) :
       LET t == tabs[i]
       IN Goes(t) => \/ HoldsItsText(t) \/ ~t.sure
                     \/ Answered /\ (dialog.asked = t.id \/ dialog.at = i)]_vars

\* "Ask before closing a tab with unsaved changes" (user-guide.md): no Discard
\* loses the text of a tab that was not asked about.
DiscardsTheAsked ==
  [][\A i \in 1 .. Len(tabs) :
       Goes(tabs[i]) /\ Answered /\ tabs[i].id # dialog.asked
       => HoldsItsText(tabs[i])]_vars

\* The dialogs' buttons do not panic.
IndexIsThere == dialog.at <= Len(tabs)

Restarts == phase = "off" /\ phase' = "running" /\ left # NoWorkspace

\* After an exit the next start shows the same tabs, texts, pins and active
\* tab, if the last save of the workspace did not fail.
RestartKeepsTabs == [][Restarts /\ unsaved = "no" => Snapshot' = left]_vars

\* "Open tabs, including unsaved text, are restored when you start sqail again"
\* (user-guide.md): also when an earlier save failed, if the disk takes it now.
ExitKeepsTabs == [][Restarts /\ unsaved # "exit" => Snapshot' = left]_vars

=============================================================================
