-------------------------------- MODULE Edits --------------------------------
(***************************************************************************)
(* Editing a result in the grid of sqail-ui (editing.rs, grid.rs, app.rs,  *)
(* apply_edits in dialogs.rs): the columns of a SELECT are matched to its  *)
(* table, pending changes are kept by row, and a review turns them into    *)
(* statements that run in one transaction of a session of their own, on    *)
(* the connection the tab has by then.                                     *)
(*                                                                         *)
(* A table has a key column k and a column v; a cell is a number.  Other   *)
(* clients write to the tables at any time.  A run ends at once here: Tab  *)
(* has its steps, and a result can only be edited once it ended.           *)
(***************************************************************************)
EXTENDS Integers, Sequences, SequencesExt, FiniteSets

CONSTANTS
  Connections,
  Columns,    \* the columns of each connection's table, in order
  Rows,       \* its rows at first: key -> value of v
  Lists,      \* select lists: of "star", column names, "other"
  Keys,
  Values,
  MaxRuns,    \* bound: runs
  MaxClicks,  \* bound: sorts and edits of one behaviour
  Written,    \* bound: the <<connection, key>> others write
  MaxWrites   \* bound: how often they do

Null == 0

VARIABLES
  tables,      \* the rows of each connection's table
  connection,  \* Tab::connection
  run,         \* number of the last run
  from,        \* history: the connection it ran on
  list,        \* its select list
  raw,         \* its rows as they arrived
  sort,        \* ResultSet::sort: the column, and whether ascending
  loading,     \* start_edit calls that wait for the table's columns
  edit,        \* Run::edit
  at,          \* the dialog: closed (grid), review, running, and the pending
               \* answer of a run: saved, lost, rolled_back
  stmts,       \* ApplyEdits::statements
  reviewed,    \* history: the pending edits that were reviewed
  opened,      \* history: cells the user pointed at to change them
  moved,       \* history: rows moved under the open cell editor
  clicks, writes  \* bounds

resultVars == <<run, from, list, raw, sort>>
dialogVars == <<at, stmts, reviewed>>
historyVars == <<opened, moved>>
vars == <<tables, connection, resultVars, loading, edit, dialogVars,
          historyVars, clicks, writes>>

NoEdit == [target |-> <<>>]
NoCell == <<0, 0>>

-----------------------------------------------------------------------------
(* The result, and the columns of its table *)

\* The columns a select list gives on a connection.
Expanded(l, c) ==
  FlattenSeq([i \in DOMAIN l |-> IF l[i] = "star" THEN Columns[c] ELSE <<l[i]>>])

\* map_columns: the result's columns follow the select list, and * expands
\* to the table's columns in order.
LinesUp(l, c, columns) ==
  /\ Len(Expanded(l, c)) = Len(columns)
  /\ \A i \in DOMAIN l : l[i] = "star" =>
       LET skip == Len(Expanded(SubSeq(l, 1, i - 1), c))
       IN  SubSeq(columns, skip + 1, skip + 2) = Columns[c]

\* EditState::new: only the first copy of a column can be edited.
Target(columns) ==
  [i \in DOMAIN columns |->
     IF columns[i] = "other" \/ \E j \in 1 .. i - 1 : columns[j] = columns[i]
       THEN "none" ELSE columns[i]]

\* The key is in the result exactly once.
CanEdit(l, c, columns) ==
  /\ LinesUp(l, c, columns)
  /\ Cardinality({i \in DOMAIN columns : columns[i] = "k"}) = 1

Width == Len(Expanded(list, from))
Cols == 1 .. Width
Sources == 1 .. Len(raw)
Cells == Sources \X Cols
Data == Keys \cup Values \cup {Null}
Key(e) == CHOOSE i \in DOMAIN e.target : e.target[i] = "k"

\* The elements of S in the order R.
InOrder(S, R) ==
  [n \in 1 .. Cardinality(S) |->
     CHOOSE x \in S : Cardinality({y \in S : <<y, x>> \in R}) = n - 1]

\* Numbers from the smallest up.
Ascending(S) == InOrder(S, {p \in S \X S : p[1] < p[2]})

\* toggle_sort: stable, by the values as they arrived.
Before(a, b) ==
  LET x == raw[a][sort[1]]
      y == raw[b][sort[1]]
  IN  IF sort = <<>> \/ x = y THEN a < b ELSE (x < y) = sort[2]

Order == InOrder(Sources, {p \in Sources \X Sources : Before(p[1], p[2])})

RowIndex(pos) == Order[pos]

\* row_ref: the rows that came, then the new ones.
Existing(pos) == pos \in Sources
Total(e) == Len(raw) + Len(e.inserted)
New(pos) == pos - Len(raw)

TypeOK ==
  /\ tables \in [Connections -> UNION {[ks -> Values \cup {Null}] : ks \in SUBSET Keys}]
  /\ connection \in Connections /\ from \in Connections
  /\ run \in 0 .. MaxRuns /\ clicks \in 0 .. MaxClicks /\ writes \in 0 .. MaxWrites
  /\ raw \in Seq([Cols -> Data])
  /\ sort = <<>> \/ sort \in Cols \X BOOLEAN
  /\ \A i \in DOMAIN loading : loading[i].run \in 1 .. run /\ loading[i].on \in Connections
  /\ at \in {"grid", "review", "running", "saved", "lost", "rolled_back"}
  /\ edit # NoEdit =>
       /\ edit.target = Target(Expanded(list, from))
       /\ DOMAIN edit.changes \subseteq Cells
       /\ \A cell \in DOMAIN edit.changes : edit.target[cell[2]] # "none"
       /\ edit.deleted \subseteq Sources
       /\ \A i \in DOMAIN edit.inserted : DOMAIN edit.inserted[i] \subseteq Cols
       /\ edit.editing = NoCell \/ edit.editing \in Nat \X Cols

Init ==
  /\ tables = Rows
  /\ connection \in Connections /\ from = connection
  /\ run = 0 /\ list = <<>> /\ raw = <<>> /\ sort = <<>>
  /\ loading = <<>> /\ edit = NoEdit
  /\ at = "grid" /\ stmts = <<>> /\ reviewed = NoEdit
  /\ opened = {} /\ moved = FALSE
  /\ clicks = 0 /\ writes = 0

-----------------------------------------------------------------------------
(* Runs, and the start of editing *)

\* run_sql: the new run replaces the result and what was pending on it.
RunSql(l) ==
  LET columns == Expanded(l, connection)
      t == tables[connection]
      cell(k, name) == CASE name = "k" -> k [] name = "v" -> t[k] [] OTHER -> Null
      keys == Ascending(DOMAIN t)
  IN  /\ run < MaxRuns
      /\ run' = run + 1
      /\ from' = connection
      /\ list' = l
      /\ raw' = [r \in DOMAIN keys |-> [c \in DOMAIN columns |-> cell(keys[r], columns[c])]]
      /\ sort' = <<>>
      /\ edit' = NoEdit
      /\ opened' = {} /\ moved' = FALSE

NewRun ==
  /\ at = "grid"
  /\ \E l \in Lists : RunSql(l)
  /\ UNCHANGED <<tables, connection, loading, dialogVars, clicks, writes>>

ChooseConnection ==
  /\ at = "grid"
  /\ connection' \in Connections \ {connection}
  /\ UNCHANGED <<tables, resultVars, loading, edit, dialogVars, historyVars, clicks, writes>>

\* The button stays enabled until an answer comes.
StartEdit ==
  /\ at = "grid" /\ run > 0 /\ edit = NoEdit /\ Len(loading) < 2
  /\ loading' = Append(loading, [run |-> run, on |-> connection, list |-> list,
                                 columns |-> Expanded(list, from)])
  /\ UNCHANGED <<tables, connection, resultVars, edit, dialogVars, historyVars, clicks, writes>>

Answers(i) ==
  /\ loading' = RemoveAt(loading, i)
  /\ UNCHANGED <<tables, connection, resultVars, dialogVars, clicks, writes>>

\* The answer lets the result be edited.
Grants(asked) == CanEdit(asked.list, asked.on, asked.columns)

StartsOn(columns) ==
  /\ edit' = [target |-> Target(columns), changes |-> <<>>, deleted |-> {},
              inserted |-> <<>>, editing |-> NoCell]
  /\ opened' = {} /\ moved' = FALSE

\* A late answer is dropped unless it is for this run; a second one replaces
\* what is pending.
EditReady(i) ==
  /\ IF loading[i].run = run /\ Grants(loading[i])
       THEN StartsOn(loading[i].columns)
       ELSE UNCHANGED <<edit, historyVars>>
  /\ Answers(i)

LoadFails(i) ==
  /\ UNCHANGED <<edit, historyVars>>
  /\ Answers(i)

-----------------------------------------------------------------------------
(* The grid *)

ToggleSort(c) ==
  /\ at = "grid" /\ clicks < MaxClicks
  /\ clicks' = clicks + 1
  /\ sort' = CASE sort = <<c, TRUE>> -> <<c, FALSE>>
               [] sort = <<c, FALSE>> -> <<>>
               [] OTHER -> <<c, TRUE>>
  /\ moved' = (moved \/ (edit # NoEdit /\ edit.editing # NoCell))
  /\ UNCHANGED <<tables, connection, run, from, list, raw, loading, edit, dialogVars,
                 opened, writes>>

Editing == at = "grid" /\ edit # NoEdit /\ clicks < MaxClicks

Edited(e) ==
  /\ edit' = e
  /\ clicks' = clicks + 1
  /\ UNCHANGED <<tables, connection, resultVars, loading, dialogVars, writes>>

\* The function f with v at x.
With(f, x, v) == [y \in DOMAIN f \cup {x} |-> IF y = x THEN v ELSE f[y]]

\* Mutant: by the place of the row in the grid.
SetByPosition(e, pos, c, v) ==
  [e EXCEPT !.changes =
     IF raw[pos][c] = v THEN [x \in DOMAIN @ \ {<<pos, c>>} |-> @[x]]
     ELSE With(@, <<pos, c>>, v)]

\* EditState::set, by the row as it arrived; the original value drops the
\* change.
Set(e, pos, c, v) ==
  LET cell == <<RowIndex(pos), c>>
  IN  [e EXCEPT !.changes =
         IF raw[cell[1]][c] = v THEN [x \in DOMAIN @ \ {cell} |-> @[x]]
         ELSE With(@, cell, v)]

Put(e, pos, c, v) ==
  IF Existing(pos) THEN Set(e, pos, c, v)
  ELSE [e EXCEPT !.inserted[New(pos)] = With(@, c, v)]

CanSet(pos, c) == edit.target[c] # "none"

PointAt(pos, c) ==
  opened' = IF Existing(pos) THEN opened \cup {<<RowIndex(pos), c>>} ELSE opened

ValuesOf(c) == IF edit.target[c] = "k" THEN Keys ELSE Values

OpenCell(pos, c) ==
  /\ Editing /\ CanSet(pos, c) /\ edit.editing = NoCell
  /\ Existing(pos) => RowIndex(pos) \notin edit.deleted
  /\ Edited([edit EXCEPT !.editing = <<pos, c>>])
  /\ PointAt(pos, c)
  /\ UNCHANGED moved

\* The editor is drawn with its row: it ends only when there is one.
FinishCell(v) ==
  LET pos == edit.editing[1]
      c == edit.editing[2]
  IN  /\ at = "grid" /\ edit # NoEdit /\ edit.editing # NoCell /\ pos <= Total(edit)
      /\ v \in ValuesOf(c)
      /\ edit' = Put([edit EXCEPT !.editing = NoCell], pos, c, v)
      /\ UNCHANGED <<tables, connection, resultVars, loading, dialogVars, historyVars,
                     clicks, writes>>

CancelCell ==
  /\ at = "grid" /\ edit # NoEdit /\ edit.editing # NoCell
  /\ edit' = [edit EXCEPT !.editing = NoCell]
  /\ UNCHANGED <<tables, connection, resultVars, loading, dialogVars, historyVars,
                 clicks, writes>>

SetNull(pos, c) ==
  /\ Editing /\ CanSet(pos, c)
  /\ Edited(Put(edit, pos, c, Null))
  /\ PointAt(pos, c)
  /\ UNCHANGED moved

SetDefault(pos, c) ==
  /\ Editing /\ CanSet(pos, c) /\ ~Existing(pos)
  /\ Edited([edit EXCEPT !.inserted[New(pos)] = [x \in DOMAIN @ \ {c} |-> @[x]]])
  /\ UNCHANGED historyVars

AddRow ==
  /\ Editing
  /\ Edited([edit EXCEPT !.inserted = Append(@, <<>>)])
  /\ UNCHANGED historyVars

DeleteRow(pos) ==
  /\ Editing
  /\ IF Existing(pos)
       THEN Edited([edit EXCEPT !.deleted = @ \cup {RowIndex(pos)}]) /\ UNCHANGED moved
       ELSE /\ Edited([edit EXCEPT !.inserted = RemoveAt(@, New(pos))])
            /\ moved' = (moved \/ edit.editing # NoCell)
  /\ UNCHANGED opened

RestoreRow(pos) ==
  /\ Editing /\ Existing(pos) /\ RowIndex(pos) \in edit.deleted
  /\ Edited([edit EXCEPT !.deleted = @ \ {RowIndex(pos)}])
  /\ UNCHANGED historyVars

\* Rows with a change, rows to delete, new rows.
Pending(e) ==
  DOMAIN e.changes # {} \/ e.deleted # {} \/ e.inserted # <<>>

Revert ==
  /\ at = "grid" /\ edit # NoEdit /\ Pending(edit)
  /\ edit' = [edit EXCEPT !.changes = <<>>, !.deleted = {}, !.inserted = <<>>,
                          !.editing = NoCell]
  /\ opened' = {} /\ moved' = FALSE
  /\ UNCHANGED <<tables, connection, resultVars, loading, dialogVars, clicks, writes>>

Done ==
  /\ at = "grid" /\ edit # NoEdit /\ ~Pending(edit)
  /\ edit' = NoEdit
  /\ UNCHANGED <<tables, connection, resultVars, loading, dialogVars, historyVars,
                 clicks, writes>>

-----------------------------------------------------------------------------
(* Statements *)

\* Mutant: the key as edited.
KeyEdited(e, r) ==
  LET cell == <<r, Key(e)>>
  IN  IF cell \in DOMAIN e.changes THEN e.changes[cell] ELSE raw[r][Key(e)]

\* The WHERE clause names the key the row came with.
KeyOf(e, r) == raw[r][Key(e)]

Changed(e) == {cell[1] : cell \in DOMAIN e.changes} \ e.deleted

\* The columns to set, by name.
Sets(e, r) ==
  LET cs == {c \in DOMAIN e.target : <<r, c>> \in DOMAIN e.changes}
  IN  [f \in {e.target[c] : c \in cs} |->
         e.changes[<<r, CHOOSE c \in cs : e.target[c] = f>>]]

\* A new row, with what is left to its defaults, which are NULL here.
RowOf(e, new) ==
  [f \in {"k", "v"} |->
     LET cs == {c \in DOMAIN new : e.target[c] = f}
     IN  IF cs = {} THEN Null ELSE new[CHOOSE c \in cs : TRUE]]

\* Deletes, updates and inserts, each in the order of the rows.
Statements(e) ==
  LET deletes == Ascending(e.deleted)
      updates == Ascending(Changed(e))
  IN  [i \in DOMAIN deletes |-> [op |-> "delete", key |-> KeyOf(e, deletes[i])]]
      \o [i \in DOMAIN updates |->
            [op |-> "update", key |-> KeyOf(e, updates[i]), set |-> Sets(e, updates[i])]]
      \o [i \in DOMAIN e.inserted |-> [op |-> "insert", row |-> RowOf(e, e.inserted[i])]]

(* What a database does with one (external): a key is unique and not NULL. *)
Refused(t, st) ==
  CASE st.op = "delete" -> FALSE
    [] st.op = "update" -> /\ st.key \in DOMAIN t /\ "k" \in DOMAIN st.set
                           /\ st.set.k = Null \/ st.set.k \in DOMAIN t \ {st.key}
    [] st.op = "insert" -> st.row.k = Null \/ st.row.k \in DOMAIN t

Exec(t, st) ==
  LET without == [k \in DOMAIN t \ {st.key} |-> t[k]]
      to == IF "k" \in DOMAIN st.set THEN st.set.k ELSE st.key
      v == IF "v" \in DOMAIN st.set THEN st.set.v ELSE t[st.key]
  IN  CASE st.op = "insert" -> With(t, st.row.k, st.row.v)
        [] st.op = "delete" -> without
        [] st.op = "update" -> With(without, to, v)

\* A statement that is refused or matches no row ends the transaction.
Ran(s, st) ==
  IF ~s.ok \/ Refused(s.table, st) \/ (st.op # "insert" /\ st.key \notin DOMAIN s.table)
    THEN [ok |-> FALSE, table |-> s.table]
    ELSE [ok |-> TRUE, table |-> Exec(s.table, st)]

\* apply: the statements in order.
Transaction ==
  LET after[n \in 0 .. Len(stmts)] ==
        IF n = 0 THEN [ok |-> TRUE, table |-> tables[connection]]
        ELSE Ran(after[n - 1], stmts[n])
  IN  after[Len(stmts)]

-----------------------------------------------------------------------------
(* The dialog *)

Review ==
  /\ at = "grid" /\ edit # NoEdit /\ Pending(edit)
  /\ at' = "review"
  /\ stmts' = Statements(edit)
  /\ reviewed' = edit
  /\ UNCHANGED <<tables, connection, resultVars, loading, edit, historyVars, clicks, writes>>

Close ==
  /\ at' = "grid" /\ stmts' = <<>> /\ reviewed' = NoEdit
  /\ UNCHANGED <<tables, connection, loading, clicks, writes>>

Cancel ==
  /\ at = "review"
  /\ Close
  /\ UNCHANGED <<resultVars, edit, historyVars>>

DialogGoes(step) ==
  /\ at' = step
  /\ UNCHANGED <<connection, resultVars, loading, edit, stmts, reviewed, historyVars,
                 clicks, writes>>

Apply == at = "review" /\ DialogGoes("running") /\ UNCHANGED tables

\* The answer of COMMIT may be lost.
Commit ==
  /\ at = "running" /\ Transaction.ok
  /\ tables' = [tables EXCEPT ![connection] = Transaction.table]
  /\ DialogGoes("saved") \/ DialogGoes("lost")

\* A statement that matches nothing or is refused; a value that is no literal
\* of its type, a session that does not open, a connection that is lost.
RollBack == at = "running" /\ DialogGoes("rolled_back") /\ UNCHANGED tables

\* EditsApplied(Ok): run the query again.
Applied ==
  /\ at = "saved"
  /\ RunSql(list)
  /\ Close

\* EditsApplied(Err): the dialog stays, with the error.
Failed == at \in {"rolled_back", "lost"} /\ DialogGoes("review") /\ UNCHANGED tables

\* Another client inserts, changes or deletes a row.
OthersWrite ==
  /\ writes < MaxWrites
  /\ writes' = writes + 1
  /\ \E w \in Written :
       LET c == w[1]
           k == w[2]
           t == tables[c]
       IN  \/ \E v \in Values : tables' = [tables EXCEPT ![c] = With(t, k, v)]
           \/ /\ k \in DOMAIN t
              /\ tables' = [tables EXCEPT ![c] = [x \in DOMAIN t \ {k} |-> t[x]]]
  /\ UNCHANGED <<connection, resultVars, loading, edit, dialogVars, historyVars, clicks>>

Grid ==
  \/ \E c \in Cols : ToggleSort(c)
  \/ edit # NoEdit /\ \E pos \in 1 .. Total(edit) :
       \/ \E c \in Cols : OpenCell(pos, c) \/ SetNull(pos, c) \/ SetDefault(pos, c)
       \/ DeleteRow(pos) \/ RestoreRow(pos)
  \/ (\E v \in Keys \cup Values : FinishCell(v)) \/ CancelCell
  \/ AddRow \/ Revert \/ Done

Dialog == Review \/ Cancel \/ Apply \/ Commit \/ RollBack \/ Applied \/ Failed

Next ==
  \/ NewRun \/ ChooseConnection \/ StartEdit
  \/ (\E i \in DOMAIN loading : EditReady(i) \/ LoadFails(i))
  \/ Grid \/ Dialog \/ OthersWrite

Spec == Init /\ [][Next]_vars

-----------------------------------------------------------------------------
(* Properties *)

\* The change of a cell is stored for the row the user pointed at, however the
\* grid is sorted before, between and after (EditState::set, row_ref).  Left
\* out: a sort or a removed row while a cell editor is open, out of view; the
\* text then goes to the row that has moved to its place.
EditsStayOnTheirRows ==
  edit # NoEdit /\ ~moved => DOMAIN edit.changes \subseteq opened

\* cell_text: what the grid shows of a row that came.
Shown(e, r, c) == IF <<r, c>> \in DOMAIN e.changes THEN e.changes[<<r, c>>] ELSE raw[r][c]

\* The table t with the rows the grid shows for those it came with.
Intended(e, t) ==
  LET touched == {r \in Sources : \E c \in Cols : Shown(e, r, c) # raw[r][c]} \cup e.deleted
      key(r) == raw[r][Key(e)]
      v(r) == LET cs == {c \in Cols : e.target[c] = "v" /\ Shown(e, r, c) # raw[r][c]}
              IN  IF cs = {} THEN t[key(r)] ELSE Shown(e, r, CHOOSE c \in cs : TRUE)
  IN  {<<k, t[k]>> : k \in DOMAIN t \ {key(r) : r \in touched}}
      \cup {<<Shown(e, r, Key(e)), v(r)>> : r \in touched \ e.deleted}
      \cup {<<RowOf(e, e.inserted[i]).k, RowOf(e, e.inserted[i]).v>> : i \in DOMAIN e.inserted}

\* A row takes the key that a later changed row came with.
Overtaken(e) ==
  \E r, s \in Changed(e) : r < s /\ Shown(e, r, Key(e)) = raw[s][Key(e)]

\* A transaction that commits makes the table, on the connection the tab has
\* by then, what the grid showed: the struck-out rows gone, the changed cells
\* changed in the rows they belong to, the new rows there, and everything else
\* as it is by then, whatever others wrote since the rows came; a row that
\* others removed or gave another key stops it (statements, apply).  Left out:
\* a row that takes the key of a later changed row, which others have removed;
\* the second statement then changes the first row again.
AppliesAsShown ==
  at = "running" /\ Transaction.ok /\ ~Overtaken(reviewed) =>
    LET t == tables[connection]
    IN  /\ \A r \in reviewed.deleted \cup Changed(reviewed) :
             raw[r][Key(reviewed)] \in DOMAIN t
        /\ {<<k, Transaction.table[k]>> : k \in DOMAIN Transaction.table}
             = Intended(reviewed, t)

=============================================================================
