------------------------------- MODULE Design -------------------------------
(***************************************************************************)
(* The table designer (crates/sqail-ui/src/designer): a table as loaded,   *)
(* the same table as edited, the DDL that is to turn the one into the      *)
(* other, and its run in one transaction on the server.                    *)
(*                                                                         *)
(* A statement is a record, one for each the code emits (the grants of one *)
(* kind are one statement: their order is the order of a set).  What a     *)
(* server does with a statement (Exec) is not code of the repository: the  *)
(* operators marked external give the rules of the three engines the code  *)
(* relies on, by the names the statement carries.                          *)
(***************************************************************************)
EXTENDS Integers, Sequences, SequencesExt, FiniteSets, TLC

CONSTANTS
  ColumnNames,   \* names a column may be given
  TableNames,    \* names the table may be given
  IndexNames,    \* names an index may be given
  KeyNames,      \* names of the key constraint; "" lets the database choose
  DataTypes,
  Defaults,      \* default expressions; "" is none
  Constants,     \* the defaults that are constants (sqlite_constant)
  Fits,          \* the types a column of each default may have (external)
  Grants,        \* (grantee, privilege) pairs the user may set
  Loads,         \* set of [engine, tables]: what there is when the window opens
  MaxEdits       \* bound: edits of one behaviour, up to its first commit

ASSUME DesignAssumption ==
  /\ "" \in Defaults /\ "" \in KeyNames
  /\ Constants \subseteq Defaults \ {""}
  /\ Fits \in [Defaults -> SUBSET DataTypes] /\ Fits[""] = DataTypes
  /\ MaxEdits \in Nat

VARIABLES
  engine,    \* "pg", "mssql" or "sqlite"
  server,    \* committed: table name -> table
  original,  \* Design::original; NoTable for a table that does not exist yet
  table,     \* Design::table
  foreign,   \* Design::foreign_keys: the column names of each
  nextId,
  at,        \* the window: loading, load_error, edit, review, running, and
             \* the pending answer of a run: saved, lost, rolled_back
  error,     \* Designer::error is set
  stale,     \* history: the answer of a commit was lost since the load
  edits      \* edits so far (bound)

vars == <<engine, server, original, table, foreign, nextId, at, error, stale, edits>>
window == <<engine, server, original, foreign, at, error, stale>>

NoTable == [name |-> "", columns |-> <<>>, pk |-> [name |-> "", columns |-> <<>>],
            indexes |-> <<>>, grants |-> {}]

AutoIndex == "sqlite_autoindex"
AutoKey == "auto"   \* a name the database chooses: a free one
TmpName(n) == "_sqail_new_" \o n

Each(seq, F(_)) == FlattenSeq([i \in DOMAIN seq |-> F(seq[i])])
Drop(seq, x) == SelectSeq(seq, LAMBDA y : y # x)
Swap(seq, i, j) == [seq EXCEPT ![i] = seq[j], ![j] = seq[i]]
Without(f, n) == [m \in DOMAIN f \ {n} |-> f[m]]

-----------------------------------------------------------------------------
(* The design and its columns, by id.                                      *)

Ids(t) == {c.id : c \in ToSet(t.columns)}
Column(t, id) == CHOOSE c \in ToSet(t.columns) : c.id = id
Position(t, id) == CHOOSE i \in DOMAIN t.columns : t.columns[i].id = id
Index(t, id) == CHOOSE i \in ToSet(t.indexes) : i.id = id
IndexIds(t) == {i.id : i \in ToSet(t.indexes)}
IsNew == original = NoTable
Removed == {id \in Ids(original) : id \notin Ids(table)}

\* An expression of an index keeps the text the catalog gave: it names its
\* column as it was called when the table was loaded.
Text(part) == IF part.expr THEN Column(original, part.column).name
              ELSE Column(table, part.column).name

(* The table a server would hold, for a design: the names for the ids.  The *)
(* data of a column is the id of the loaded column whose rows it holds.     *)
NameOf(t, id) == IF id \in Ids(t) THEN Column(t, id).name ELSE "gone"

(* Design::from_catalog: ids in the order of the catalog. *)
FromCatalog(s) ==
  LET n == Len(s.columns)
      idOf(name) == CHOOSE i \in 1 .. n : s.columns[i].name = name
  IN [name |-> s.name,
      columns |-> [i \in 1 .. n |-> [id |-> i, name |-> s.columns[i].name,
                    type |-> s.columns[i].type, nullable |-> s.columns[i].nullable,
                    default |-> s.columns[i].default]],
      pk |-> [name |-> IF engine = "sqlite" THEN "" ELSE s.pk.name,
              columns |-> [i \in DOMAIN s.pk.columns |-> idOf(s.pk.columns[i])]],
      indexes |-> [k \in DOMAIN s.indexes |->
                    [id |-> n + k, name |-> s.indexes[k].name,
                     parts |-> [p \in DOMAIN s.indexes[k].parts |->
                        [expr |-> s.indexes[k].parts[p].expr,
                         column |-> idOf(s.indexes[k].parts[p].name)]],
                     unique |-> s.indexes[k].unique,
                     constraint |-> s.indexes[k].constraint]],
      grants |-> s.grants]

(* Design::new_table: an empty table with an id key. *)
NewTable == [NoTable EXCEPT
  !.columns = <<[id |-> 1, name |-> "id", type |-> "int", nullable |-> FALSE, default |-> ""]>>,
  !.pk.columns = <<1>>]

\* A table as it is loaded holds its own rows: column i the data i.
Loaded(s) == [s EXCEPT !.columns = [i \in DOMAIN @ |-> [@[i] EXCEPT !.data = i]]]

-----------------------------------------------------------------------------
(* The edits of the window's pages.                                        *)

Edit(t) ==
  /\ at = "edit" /\ edits < MaxEdits
  /\ table' = t /\ t # table
  /\ edits' = edits + 1
  /\ UNCHANGED window

EditOnly(t) == Edit(t) /\ UNCHANGED nextId

SetColumn(id, c) == [table EXCEPT !.columns[Position(table, id)] = c]

RenameTable == \E n \in TableNames : EditOnly([table EXCEPT !.name = n])

EditColumn == \E id \in Ids(table) :
  LET c == Column(table, id)
  IN \/ \E n \in ColumnNames : EditOnly(SetColumn(id, [c EXCEPT !.name = n]))
     \/ \E ty \in DataTypes : EditOnly(SetColumn(id, [c EXCEPT !.type = ty]))
     \/ \E d \in Defaults : EditOnly(SetColumn(id, [c EXCEPT !.default = d]))
     \/ /\ ~Contains(table.pk.columns, id)     \* the box of a key column is disabled
        /\ EditOnly(SetColumn(id, [c EXCEPT !.nullable = ~@]))

AddColumn ==
  /\ Edit([table EXCEPT !.columns = Append(@,
        [id |-> nextId, name |-> "column" \o ToString(Len(@) + 1),
         type |-> "text", nullable |-> TRUE, default |-> ""])])
  /\ nextId' = nextId + 1

\* remove_column: the column, its place in the key and in the indexes.
WithoutColumn(t, id) ==
  LET stripped(i) == [i EXCEPT !.parts = Drop(@, [expr |-> FALSE, column |-> id])]
  IN [t EXCEPT
       !.columns = SelectSeq(@, LAMBDA c : c.id # id),
       !.pk.columns = Drop(@, id),
       !.indexes = SelectSeq([k \in DOMAIN @ |-> stripped(@[k])],
                             LAMBDA i : i.parts # <<>>)]

RemoveColumn == \E id \in Ids(table) : EditOnly(WithoutColumn(table, id))

\* restore_column: before the first column that came after it when loaded.
RestoreColumn == \E id \in Removed :
  LET later == {i \in DOMAIN table.columns :
                  /\ table.columns[i].id \in Ids(original)
                  /\ Position(original, table.columns[i].id) > Position(original, id)}
      first == CHOOSE i \in later : \A j \in later :
                 Position(original, table.columns[i].id) <= Position(original, table.columns[j].id)
  IN EditOnly([table EXCEPT !.columns =
       InsertAt(@, IF later = {} THEN Len(@) + 1 ELSE first, Column(original, id))])

MoveColumn ==
  /\ IsNew
  /\ \E i \in 1 .. Len(table.columns) - 1 :
       EditOnly([table EXCEPT !.columns = Swap(@, i, i + 1)])

\* toggle_pk: a column that joins the key becomes NOT NULL.
TogglePk(t, id) ==
  IF Contains(t.pk.columns, id)
    THEN [t EXCEPT !.pk.columns = Drop(@, id)]
    ELSE [t EXCEPT !.pk.columns = Append(@, id),
                   !.columns[Position(t, id)].nullable = FALSE]

EditKey ==
  \/ \E id \in Ids(table) : EditOnly(TogglePk(table, id))
  \/ \E i \in 1 .. Len(table.pk.columns) - 1 :
       EditOnly([table EXCEPT !.pk.columns = Swap(@, i, i + 1)])
  \/ EditOnly([table EXCEPT !.pk.columns = <<>>])
  \/ /\ engine # "sqlite"
     /\ \E n \in KeyNames : EditOnly([table EXCEPT !.pk.name = n])

AddIndex ==
  /\ Edit([table EXCEPT !.indexes = Append(@,
        [id |-> nextId, name |-> "ix_" \o ToString(nextId), parts |-> <<>>,
         unique |-> FALSE, constraint |-> FALSE])])
  /\ nextId' = nextId + 1

EditIndex == \E k \in DOMAIN table.indexes :
  LET i == table.indexes[k]
      set(j) == EditOnly([table EXCEPT !.indexes[k] = j])
  IN \/ \E n \in IndexNames : set([i EXCEPT !.name = n])
     \/ set([i EXCEPT !.unique = ~@])
     \/ \E id \in Ids(table) :
          /\ ~Contains(i.parts, [expr |-> FALSE, column |-> id])
          /\ set([i EXCEPT !.parts = Append(@, [expr |-> FALSE, column |-> id])])
     \/ \E p \in DOMAIN i.parts : set([i EXCEPT !.parts = RemoveAt(@, p)])
     \/ \E p \in 1 .. Len(i.parts) - 1 : set([i EXCEPT !.parts = Swap(@, p, p + 1)])
     \/ EditOnly([table EXCEPT !.indexes = RemoveAt(@, k)])

EditGrants ==
  /\ engine # "sqlite"
  /\ \/ \E g \in Grants : EditOnly([table EXCEPT !.grants =
                                      IF g \in @ THEN @ \ {g} ELSE @ \cup {g}])
     \/ \E g \in table.grants : EditOnly([table EXCEPT !.grants =
                                      {h \in @ : h[1] # g[1]}])

-----------------------------------------------------------------------------
(* Design::plan                                                            *)

Distinct(names) == \A i, j \in DOMAIN names : i # j => names[i] # names[j]

\* problems() finds none.
Sound ==
  /\ table.name # "" /\ table.columns # <<>>
  /\ Distinct([i \in DOMAIN table.columns |-> table.columns[i].name])
  /\ Distinct([i \in DOMAIN table.indexes |-> table.indexes[i].name])
  /\ \A i \in ToSet(table.indexes) : i.parts # <<>>

KeyNamesOf(t) == [i \in DOMAIN t.pk.columns |-> NameOf(t, t.pk.columns[i])]

UniqueConstraint(i) == /\ i.constraint /\ i.unique
                       /\ \A p \in ToSet(i.parts) : ~p.expr

CreateIndex(i, t) ==
  [op |-> "create_index", table |-> t, name |-> i.name, unique |-> i.unique,
   constraint |-> UniqueConstraint(i) /\ engine # "sqlite",
   parts |-> [p \in DOMAIN i.parts |-> [expr |-> i.parts[p].expr, name |-> Text(i.parts[p])]]]

ColumnDef(c) == [name |-> c.name, type |-> c.type, nullable |-> c.nullable,
                 default |-> c.default, data |-> 0]

\* create_body, with the unique constraints and foreign keys a rebuild adds.
CreateBody(name, constraints, keys) ==
  [op |-> "create", new |->
    [name |-> name,
     columns |-> [i \in DOMAIN table.columns |-> ColumnDef(table.columns[i])],
     pk |-> [name |-> IF table.pk.columns = <<>> THEN ""
                      ELSE IF engine = "sqlite" \/ table.pk.name = "" THEN AutoKey
                      ELSE table.pk.name,
             columns |-> KeyNamesOf(table)],
     indexes |-> constraints, grants |-> {}, foreign |-> keys]]

Grant(from) == IF table.grants \ from = {} THEN <<>>
               ELSE <<[op |-> "grant", table |-> table.name, grants |-> table.grants \ from]>>
Revoke(from) == IF from \ table.grants = {} THEN <<>>
                ELSE <<[op |-> "revoke", table |-> table.name, grants |-> from \ table.grants]>>

CreatePlan ==
  <<CreateBody(table.name, <<>>, {})>>
  \o [k \in DOMAIN table.indexes |-> CreateIndex(table.indexes[k], table.name)]
  \o Grant({})

Old == original
Kept == SelectSeq(Old.columns, LAMBDA c : c.id \in Ids(table))
Added == SelectSeq(table.columns, LAMBDA c : c.id \notin Ids(Old))
New(c) == Column(table, c.id)

\* retyped: SQL Server re-creates what stands on such a column.
Retyped == IF engine # "mssql" THEN {}
           ELSE {c.id : c \in {d \in ToSet(Kept) : \/ New(d).type # d.type
                                                   \/ New(d).nullable # d.nullable}}
TouchesRetyped(parts) == \E p \in ToSet(parts) : ~p.expr /\ p.column \in Retyped

SameShape(i) ==
  /\ i.id \in IndexIds(table)
  /\ LET j == Index(table, i.id)
     IN j.parts = i.parts /\ j.unique = i.unique /\ ~TouchesRetyped(j.parts)
Renamed(i) == SameShape(i) /\ Index(table, i.id).name # i.name
RenamedInPlace(i) == Renamed(i) /\ engine # "sqlite"
Dropped(i) == ~SameShape(i) \/ (Renamed(i) /\ engine = "sqlite")

DropIndexes == Each(Old.indexes, LAMBDA i :
  IF Dropped(i)
    THEN <<[op |-> "drop_index", table |-> table.name, name |-> i.name,
            constraint |-> i.constraint /\ engine # "sqlite"]>>
    ELSE <<>>)
RenameIndexes == Each(Old.indexes, LAMBDA i :
  IF RenamedInPlace(i)
    THEN <<[op |-> "rename_index", table |-> table.name,
            from |-> i.name, to |-> Index(table, i.id).name]>>
    ELSE <<>>)
CreateIndexes ==
  Each(Old.indexes, LAMBDA i :
    IF Dropped(i) /\ i.id \in IndexIds(table)
      THEN <<CreateIndex(Index(table, i.id), table.name)>> ELSE <<>>)
  \o Each(table.indexes, LAMBDA i :
    IF i.id \in IndexIds(Old) THEN <<>> ELSE <<CreateIndex(i, table.name)>>)

KeyRebuilt == \/ Old.pk.columns # table.pk.columns
              \/ \E id \in ToSet(table.pk.columns) : id \in Retyped
DropKey == IF KeyRebuilt /\ Old.pk.columns # <<>>
             THEN <<[op |-> "drop_key", table |-> table.name, name |-> Old.pk.name]>> ELSE <<>>
AddKey ==
  IF KeyRebuilt
    THEN IF table.pk.columns = <<>> THEN <<>>
         ELSE <<[op |-> "add_key", table |-> table.name,
                 name |-> IF table.pk.name = "" THEN AutoKey ELSE table.pk.name,
                 columns |-> KeyNamesOf(table)]>>
    ELSE IF /\ table.pk.columns # <<>> /\ table.pk.name \notin {"", Old.pk.name}
            /\ engine # "sqlite"
           THEN <<[op |-> "rename_key", table |-> table.name,
                   from |-> Old.pk.name, to |-> table.pk.name]>>
           ELSE <<>>

\* SQL Server: a default is a constraint on its column.
DefaultDropped(c) == /\ engine = "mssql" /\ c.default # ""
                     /\ \/ c.id \notin Ids(table)
                        \/ New(c).default # c.default
                        \/ c.id \in Retyped
DropDefaults == Each(Old.columns, LAMBDA c :
  IF DefaultDropped(c)
    THEN <<[op |-> "drop_default", table |-> table.name, name |-> c.name]>> ELSE <<>>)
\* Mutant: only the defaults that were edited.
AddDefaultsChanged == Each(Kept, LAMBDA c :
  IF engine = "mssql" /\ New(c).default \notin {"", c.default}
    THEN <<[op |-> "add_default", table |-> table.name, name |-> New(c).name,
            default |-> New(c).default]>> ELSE <<>>)
AddDefaults == Each(Kept, LAMBDA c :
  IF /\ engine = "mssql" /\ New(c).default # ""
     /\ DefaultDropped(c) \/ c.default = ""
    THEN <<[op |-> "add_default", table |-> table.name, name |-> New(c).name,
            default |-> New(c).default]>> ELSE <<>>)

DropColumns == Each(Old.columns, LAMBDA c :
  IF c.id \in Ids(table) THEN <<>>
  ELSE <<[op |-> "drop_column", table |-> table.name, name |-> c.name]>>)
RenameColumns == Each(Kept, LAMBDA c :
  IF New(c).name = c.name THEN <<>>
  ELSE <<[op |-> "rename_column", table |-> table.name, from |-> c.name, to |-> New(c).name]>>)

Alter(c, what) == [op |-> "alter_column", table |-> table.name, name |-> c.name] @@ what
AlterColumns == Each(Kept, LAMBDA c :
  LET n == New(c)
  IN CASE engine = "pg" ->
            (IF n.type = c.type THEN <<>> ELSE <<Alter(n, [type |-> n.type])>>)
            \o (IF n.nullable = c.nullable THEN <<>> ELSE <<Alter(n, [nullable |-> n.nullable])>>)
            \o (IF n.default = c.default THEN <<>> ELSE <<Alter(n, [default |-> n.default])>>)
       [] engine = "mssql" /\ c.id \in Retyped ->
            <<Alter(n, [type |-> n.type, nullable |-> n.nullable])>>
       [] OTHER -> <<>>)
AddColumns == Each(Added, LAMBDA c :
  <<[op |-> "add_column", table |-> table.name, column |-> ColumnDef(c)]>>)

RenameTo(from, to) ==
  IF from = to THEN <<>> ELSE <<[op |-> "rename_table", table |-> from, to |-> to]>>

\* Mutant: drops the columns before their defaults.
AlterPlanLate ==
  RenameTo(Old.name, table.name) \o Revoke(Old.grants)
  \o DropIndexes \o DropKey
  \o DropColumns \o RenameColumns \o DropDefaults \o AlterColumns \o AddColumns
  \o AddDefaults \o AddKey \o RenameIndexes \o CreateIndexes \o Grant(Old.grants)
AlterPlan ==
  RenameTo(Old.name, table.name) \o Revoke(Old.grants)
  \o DropIndexes \o DropKey \o DropDefaults
  \o DropColumns \o RenameColumns \o AlterColumns \o AddColumns
  \o AddDefaults \o AddKey \o RenameIndexes \o CreateIndexes \o Grant(Old.grants)

\* Mutant: looks at types and the key only.
NeedsRebuildForTypes ==
  \/ \E c \in ToSet(Kept) : New(c).type # c.type \/ New(c).nullable # c.nullable
  \/ Old.pk.columns # table.pk.columns

\* sqlite_needs_rebuild
NeedsRebuild ==
  LET added(c) == /\ c \in ToSet(Added)
                  /\ \/ Contains(table.pk.columns, c.id)
                     \/ ~c.nullable /\ c.default = ""
                     \/ c.default # "" /\ c.default \notin Constants
      foreignColumns == UNION {ToSet(f) : f \in foreign}
  IN \/ \E c \in ToSet(Kept) : <<New(c).type, New(c).nullable, New(c).default>>
                                 # <<c.type, c.nullable, c.default>>
     \/ Old.pk.columns # table.pk.columns
     \/ \E c \in ToSet(table.columns) : added(c)
     \/ \E id \in Removed : Column(Old, id).name \in foreignColumns
     \/ \E i \in ToSet(Old.indexes) : i.constraint /\ ~Contains(table.indexes, i)

\* The foreign keys whose columns the design keeps, under their new names.
ForeignKept ==
  LET id(n) == (CHOOSE c \in ToSet(Old.columns) : c.name = n).id
      new(f) == [i \in DOMAIN f |-> NameOf(table, id(f[i]))]
  IN {new(f) : f \in {g \in foreign : \A n \in ToSet(g) : id(n) \in Ids(table)}}

\* The rows are copied by column. Mutant: by name.
CopyByName(tmp) ==
  LET same == SelectSeq(Kept, LAMBDA c : New(c).name = c.name)
      names == [i \in DOMAIN same |-> same[i].name]
  IN IF same = <<>> THEN <<>>
     ELSE <<[op |-> "copy", table |-> Old.name, into |-> tmp, from |-> names, to |-> names]>>
Copy(tmp) ==
  IF Kept = <<>> THEN <<>>
  ELSE <<[op |-> "copy", table |-> Old.name, into |-> tmp,
          from |-> [i \in DOMAIN Kept |-> Kept[i].name],
          to |-> [i \in DOMAIN Kept |-> New(Kept[i]).name]]>>

RebuildPlan ==
  LET tmp == TmpName(table.name)
      unique == SelectSeq(table.indexes, UniqueConstraint)
      constraint(i) == [name |-> AutoIndex, unique |-> TRUE, constraint |-> TRUE,
                        parts |-> CreateIndex(i, tmp).parts]
  IN <<CreateBody(tmp, [k \in DOMAIN unique |-> constraint(unique[k])], ForeignKept)>>
     \o Copy(tmp)
     \o <<[op |-> "drop_table", table |-> Old.name]>>
     \o RenameTo(tmp, table.name)
     \o Each(table.indexes, LAMBDA i :
          IF UniqueConstraint(i) THEN <<>> ELSE <<CreateIndex(i, table.name)>>)

Plan == IF IsNew THEN CreatePlan
        ELSE IF engine = "sqlite" /\ NeedsRebuild THEN RebuildPlan
        ELSE AlterPlan

-----------------------------------------------------------------------------
(* The servers (external): what a statement does, and when it is refused   *)
(* for the names and dependencies it meets.  What the rows refuse is a     *)
(* RollBack below.                                                         *)

Has(t, n) == \E c \in ToSet(t.columns) : c.name = n
Mentions(i, n) == \E p \in ToSet(i.parts) : p.name = n
Indexed(t, n) == \E i \in ToSet(t.indexes) : Mentions(i, n)
HasIndex(t, n) == \E i \in ToSet(t.indexes) : i.name = n
InForeign(t, n) == \E f \in t.foreign : n \in ToSet(f)
HasDefault(t, n) == \E c \in ToSet(t.columns) : c.name = n /\ c.default # ""
InKey(t, n) == Contains(t.pk.columns, n)

EachNamed(t, n, F(_)) ==
  [t EXCEPT !.columns = [i \in DOMAIN @ |-> IF @[i].name = n THEN F(@[i]) ELSE @[i]]]
Sub(seq, from, to) == [i \in DOMAIN seq |-> IF seq[i] = from THEN to ELSE seq[i]]
RenameIn(t, from, to) ==
  [t EXCEPT
    !.columns = [i \in DOMAIN @ |-> IF @[i].name = from THEN [@[i] EXCEPT !.name = to] ELSE @[i]],
    !.pk.columns = Sub(@, from, to),
    !.indexes = [k \in DOMAIN @ |-> [@[k] EXCEPT !.parts =
                  [p \in DOMAIN @ |-> IF @[p].name = from THEN [@[p] EXCEPT !.name = to] ELSE @[p]]]],
    !.foreign = {Sub(f, from, to) : f \in @}]

\* Postgres drops with a column what stands on it; the others refuse.
DropColumnOf(t, n) ==
  [t EXCEPT
    !.columns = SelectSeq(@, LAMBDA c : c.name # n),
    !.pk = IF InKey(t, n) THEN [name |-> "", columns |-> <<>>] ELSE @,
    !.indexes = SelectSeq(@, LAMBDA i : ~Mentions(i, n)),
    !.foreign = {f \in @ : n \notin ToSet(f)}]

\* The names of tables, keys and indexes: one space for all of a schema, without
\* the keys in SQLite, and without SQL Server's plain indexes; those of a table
\* are apart everywhere.
KeyName(t) == IF engine = "sqlite" \/ t.pk.columns = <<>> THEN {} ELSE {t.pk.name}
Shared(i) == engine # "mssql" \/ i.constraint
IndexNamesOf(t) == {i.name : i \in ToSet(t.indexes)}
OnTable(t) == KeyName(t) \cup IndexNamesOf(t)
SharedNamesOf(t) == {i.name : i \in {j \in ToSet(t.indexes) : Shared(j)}}
Objects(s) == DOMAIN s \cup UNION {KeyName(s[n]) \cup SharedNamesOf(s[n]) : n \in DOMAIN s}
Taken(s, t, n, shared) == n \in OnTable(t) \/ (shared /\ n \in Objects(s))

Misfit(type, default) == engine # "sqlite" /\ type \notin Fits[default]
OverExpression(t, n) == \E i \in ToSet(t.indexes) : [expr |-> TRUE, name |-> n] \in ToSet(i.parts)

\* PostgreSQL casts the default a column has with its type, checks its foreign
\* keys and re-creates its indexes.
TypeRefused(t, n, type) ==
  \/ \E c \in ToSet(t.columns) : c.name = n /\ Misfit(type, c.default)
  \/ InForeign(t, n) \/ OverExpression(t, n)

RefusedOn(s, t, st) ==
  CASE st.op = "drop_index" ->
         ~\E i \in ToSet(t.indexes) : i.name = st.name /\ i.constraint = st.constraint
    [] st.op = "rename_index" ->
         \/ ~HasIndex(t, st.from)
         \/ Taken(s, t, st.to, \E i \in ToSet(t.indexes) : i.name = st.from /\ Shared(i))
    [] st.op = "create_index" ->
         \/ Taken(s, t, st.name, Shared(st)) \/ st.name = AutoIndex
         \/ \E p \in ToSet(st.parts) : ~Has(t, p.name)
    [] st.op \in {"drop_key", "rename_key"} ->
         \/ engine = "sqlite" \/ t.pk.columns = <<>>
         \/ st.op = "drop_key" /\ t.pk.name # st.name
         \/ st.op = "rename_key" /\ (t.pk.name # st.from \/ Taken(s, t, st.to, TRUE))
    [] st.op = "add_key" ->
         \/ engine = "sqlite" \/ t.pk.columns # <<>> \/ Taken(s, t, st.name, TRUE)
         \/ \E n \in ToSet(st.columns) : ~Has(t, n)
         \/ /\ engine = "mssql"
            /\ \E c \in ToSet(t.columns) : c.nullable /\ c.name \in ToSet(st.columns)
    [] st.op = "drop_column" ->
         \/ ~Has(t, st.name)
         \/ /\ engine # "pg"
            /\ \/ InKey(t, st.name) \/ Indexed(t, st.name) \/ InForeign(t, st.name)
               \/ Len(t.columns) = 1
               \/ engine = "mssql" /\ HasDefault(t, st.name)
    [] st.op = "rename_column" -> ~Has(t, st.from) \/ Has(t, st.to)
    [] st.op = "alter_column" ->
         \/ engine = "sqlite" \/ ~Has(t, st.name)
         \/ /\ engine = "pg"
            /\ \/ "type" \in DOMAIN st /\ TypeRefused(t, st.name, st.type)
               \/ /\ "default" \in DOMAIN st
                  /\ \E c \in ToSet(t.columns) : c.name = st.name /\ Misfit(c.type, st.default)
         \/ /\ engine = "mssql"
            /\ \/ InKey(t, st.name) \/ Indexed(t, st.name) \/ InForeign(t, st.name)
               \/ HasDefault(t, st.name)
         \/ "nullable" \in DOMAIN st /\ st.nullable /\ InKey(t, st.name)
    [] st.op = "add_column" ->
         \/ Has(t, st.column.name) \/ Misfit(st.column.type, st.column.default)
         \/ /\ engine = "sqlite" /\ st.column.default \notin Constants
            /\ st.column.default # "" \/ ~st.column.nullable
    [] st.op = "add_default" ->
         \/ ~Has(t, st.name) \/ HasDefault(t, st.name)
         \/ \E c \in ToSet(t.columns) : c.name = st.name /\ Misfit(c.type, st.default)
    [] st.op = "copy" ->
         \/ \E n \in ToSet(st.from) : ~Has(t, n)
         \/ \E n \in ToSet(st.to) : ~Has(s[st.into], n)

Refused(s, st) ==
  CASE st.op = "create" ->
         \/ st.new.name \in Objects(s)
         \/ KeyName(st.new) \cap (Objects(s) \cup {st.new.name}) # {}
         \/ \E c \in ToSet(st.new.columns) : Misfit(c.type, c.default)
    [] st.op = "rename_table" -> st.table \notin DOMAIN s \/ st.to \in Objects(s)
    [] st.op \in {"grant", "revoke", "drop_table", "drop_default"} -> st.table \notin DOMAIN s
    [] OTHER -> IF st.table \in DOMAIN s THEN RefusedOn(s, s[st.table], st) ELSE TRUE

\* What the statement makes of its table t.
Altered(t, st) ==
  CASE st.op = "grant" -> [t EXCEPT !.grants = @ \cup st.grants]
    [] st.op = "revoke" -> [t EXCEPT !.grants = @ \ st.grants]
    [] st.op = "drop_index" -> [t EXCEPT !.indexes = SelectSeq(@, LAMBDA i : i.name # st.name)]
    [] st.op = "rename_index" ->
         [t EXCEPT !.indexes = [k \in DOMAIN @ |-> IF @[k].name = st.from
                                  THEN [@[k] EXCEPT !.name = st.to] ELSE @[k]]]
    [] st.op = "create_index" ->
         [t EXCEPT !.indexes = Append(@, [name |-> st.name, parts |-> st.parts,
                                 unique |-> st.unique, constraint |-> st.constraint])]
    [] st.op = "drop_key" -> [t EXCEPT !.pk = [name |-> "", columns |-> <<>>]]
    [] st.op = "rename_key" -> [t EXCEPT !.pk.name = st.to]
    [] st.op = "add_key" ->
         [t EXCEPT !.pk = [name |-> st.name, columns |-> st.columns],
                   !.columns = [i \in DOMAIN @ |-> IF @[i].name \in ToSet(st.columns)
                                  THEN [@[i] EXCEPT !.nullable = FALSE] ELSE @[i]]]
    [] st.op = "drop_column" -> DropColumnOf(t, st.name)
    [] st.op = "rename_column" -> RenameIn(t, st.from, st.to)
    [] st.op = "alter_column" ->
         EachNamed(t, st.name, LAMBDA c : [k \in DOMAIN c |->
           IF k \in DOMAIN st \cap {"type", "nullable", "default"} THEN st[k] ELSE c[k]])
    [] st.op = "add_column" -> [t EXCEPT !.columns = Append(@, st.column)]
    [] st.op = "drop_default" -> EachNamed(t, st.name, LAMBDA c : [c EXCEPT !.default = ""])
    [] st.op = "add_default" -> EachNamed(t, st.name, LAMBDA c : [c EXCEPT !.default = st.default])

\* INSERT INTO ... SELECT: the rows of the old columns in the new ones.
Copied(t, old, st) ==
  [t EXCEPT !.columns = [i \in DOMAIN @ |->
     IF Contains(st.to, @[i].name)
       THEN [@[i] EXCEPT !.data =
              LET k == CHOOSE j \in DOMAIN st.to : st.to[j] = t.columns[i].name
              IN (CHOOSE c \in ToSet(old.columns) : c.name = st.from[k]).data]
       ELSE @[i]]]

Exec(s, st) ==
  CASE st.op = "create" -> (st.new.name :> st.new) @@ s
    [] st.op = "drop_table" -> Without(s, st.table)
    [] st.op = "rename_table" ->
         (st.to :> [s[st.table] EXCEPT !.name = st.to]) @@ Without(s, st.table)
    [] st.op = "copy" -> [s EXCEPT ![st.into] = Copied(@, s[st.table], st)]
    [] OTHER -> [s EXCEPT ![st.table] = Altered(@, st)]

-----------------------------------------------------------------------------
(* The window, and the run of a plan.                                      *)

Init ==
  \E l \in Loads :
    /\ engine = l.engine
    /\ server = l.tables
    /\ \/ \* open on a table of the server
          \E n \in DOMAIN l.tables :
            /\ at = "loading" /\ table = [NoTable EXCEPT !.name = n]
            /\ original = table /\ foreign = {} /\ nextId = 1
       \/ \* open on a new table
          /\ at = "edit" /\ table = NewTable
          /\ original = NoTable /\ foreign = {} /\ nextId = 2
    /\ error = FALSE /\ stale = FALSE /\ edits = 0

\* loaded: the answer of fetch, by the table's name.
Load ==
  /\ at = "loading"
  /\ table.name \in DOMAIN server
  /\ LET s == Loaded(server[table.name])
         t == FromCatalog(s)
     IN /\ table' = t /\ original' = t /\ foreign' = s.foreign
        /\ nextId' = Len(t.columns) + Len(t.indexes) + 1
        /\ server' = [server EXCEPT ![table.name] = s]
  /\ at' = "edit" /\ stale' = FALSE
  /\ UNCHANGED <<engine, error, edits>>

LoadFails ==
  /\ at = "loading" /\ at' = "load_error"
  /\ UNCHANGED <<engine, server, original, table, foreign, nextId, error, stale, edits>>

\* Retry, and the reload button: every edit is thrown away.
Reload ==
  /\ at = "load_error" \/ (at = "edit" /\ ~IsNew)
  /\ at' = "loading"
  /\ table' = [NoTable EXCEPT !.name = original.name] /\ original' = table'
  /\ foreign' = {} /\ nextId' = 1
  /\ UNCHANGED <<engine, server, error, stale, edits>>

Revert ==
  /\ at = "edit" /\ ~IsNew /\ Sound /\ Plan # <<>>
  /\ table' = original
  /\ UNCHANGED <<window, nextId, edits>>

Review ==
  /\ at = "edit" /\ Sound /\ Plan # <<>>
  /\ at' = "review" /\ error' = FALSE
  /\ UNCHANGED <<engine, server, original, table, foreign, nextId, stale, edits>>

Back ==
  /\ at = "review" /\ at' = "edit" /\ error' = FALSE
  /\ UNCHANGED <<engine, server, original, table, foreign, nextId, stale, edits>>

\* Request::Apply.
Apply ==
  /\ at = "review" /\ at' = "running" /\ error' = FALSE
  /\ UNCHANGED <<engine, server, original, table, foreign, nextId, stale, edits>>

\* apply: the statements in one transaction, up to the first that is refused.
Transaction ==
  LET run(s, st) == IF ~s.ok \/ Refused(s.tables, st) THEN [s EXCEPT !.ok = FALSE]
                    ELSE [s EXCEPT !.tables = Exec(@, st)]
  IN FoldLeft(run, [ok |-> TRUE, tables |-> server], Plan)

Commit ==
  /\ at = "running" /\ Transaction.ok
  /\ server' = Transaction.tables
  /\ \/ at' = "saved" /\ stale' = stale
     \/ at' = "lost" /\ stale' = TRUE        \* committed, the answer did not arrive
  /\ edits' = MaxEdits                         \* bound: no edits after a commit
  /\ UNCHANGED <<engine, original, table, foreign, nextId, error>>

\* A statement that is refused, and what Transaction does not know of: a
\* session that does not open, rows that do not fit, a foreign key the check
\* finds broken, what the window does not load (a foreign key of another table, a
\* trigger, a check), a connection that is lost.
RollBack ==
  /\ at = "running" /\ at' = "rolled_back"
  /\ UNCHANGED <<engine, server, original, table, foreign, nextId, error, stale, edits>>

\* applied(Ok): load the table under its new name.
Applied ==
  /\ at = "saved" /\ at' = "loading"
  /\ table' = [NoTable EXCEPT !.name = table.name] /\ original' = table'
  /\ foreign' = {} /\ nextId' = 1
  /\ UNCHANGED <<engine, server, error, stale, edits>>

\* applied(Err): back to the review, with the error.
Failed ==
  /\ at \in {"rolled_back", "lost"} /\ at' = "review" /\ error' = TRUE
  /\ UNCHANGED <<engine, server, original, table, foreign, nextId, stale, edits>>

EditNext == \/ RenameTable \/ EditColumn \/ AddColumn \/ RemoveColumn \/ RestoreColumn
            \/ MoveColumn \/ EditKey \/ AddIndex \/ EditIndex \/ EditGrants \/ Revert
RunNext == Commit \/ RollBack \/ Applied \/ Failed

Next == EditNext \/ RunNext \/ Load \/ LoadFails \/ Reload \/ Review \/ Back \/ Apply

Spec == Init /\ [][Next]_vars

-----------------------------------------------------------------------------
(* Properties                                                              *)

\* Type invariant of the designer.
TypeOK ==
  /\ engine \in {"pg", "mssql", "sqlite"}
  /\ at \in {"loading", "load_error", "edit", "review", "running",
            "saved", "lost", "rolled_back"}
  /\ error \in BOOLEAN /\ nextId \in Nat /\ edits \in 0 .. MaxEdits
  /\ Len(table.columns) = Cardinality(Ids(table))        \* ids are stable and unique
  /\ Len(table.indexes) = Cardinality(IndexIds(table))
  /\ \A id \in Ids(table) \cup IndexIds(table) : id < nextId
  /\ ToSet(table.pk.columns) \subseteq Ids(table)
  /\ \A i \in ToSet(table.indexes) : \A p \in ToSet(i.parts) :
       p.column \in Ids(table) \/ (p.expr /\ p.column \in Ids(original))

\* What the window shows of a design, with the names the columns have: the
\* order of columns and indexes, a key name left to the database and the name
\* of SQLite's constraint indexes are not part of it.
Shown(t) ==
  [columns |-> {[name |-> c.name, type |-> c.type, nullable |-> c.nullable,
                 default |-> c.default] : c \in ToSet(t.columns)},
   key |-> KeyNamesOf(t),
   indexes |-> {[name |-> IF engine = "sqlite" /\ UniqueConstraint(i) THEN AutoIndex ELSE i.name,
                 unique |-> i.unique, constraint |-> UniqueConstraint(i),
                 parts |-> [p \in DOMAIN i.parts |-> [expr |-> i.parts[p].expr,
                             name |-> NameOf(t, i.parts[p].column)]]]
                : i \in ToSet(t.indexes)},
   grants |-> t.grants]

Catalog(s) ==
  [columns |-> {[name |-> c.name, type |-> c.type, nullable |-> c.nullable,
                 default |-> c.default] : c \in ToSet(s.columns)},
   key |-> s.pk.columns, indexes |-> ToSet(s.indexes), grants |-> s.grants]

\* The expressions of the indexes whose column has gone, or has another name.
Expressions == {p \in UNION {ToSet(i.parts) : i \in ToSet(table.indexes)} : p.expr}
OverDropped == \E p \in Expressions : p.column \in Removed
OverRenamed == \E p \in Expressions : NameOf(table, p.column) # NameOf(original, p.column)
NameReused == \E p \in Expressions, c \in ToSet(table.columns) :
  c.id # p.column /\ c.name = NameOf(original, p.column)

\* When the server has committed a plan made from the table it holds, the table
\* it holds is the one the window showed: the same columns, key, indexes,
\* constraints and grants under the names they were given, no table left over,
\* and the foreign keys whose columns were kept; "the DDL that turns one into the
\* other" (model.rs).  Left out: a column an index expression is over is dropped
\* (Postgres drops the index with it, the window goes on showing it), or its name
\* is given to another one (the index that is re-created takes that).
ReachesDesign == at = "saved" /\ ~stale /\ ~OverDropped /\ ~NameReused =>
  /\ table.name \in DOMAIN server
  /\ DOMAIN server \ {table.name} \subseteq TableNames \ {original.name}
  /\ Catalog(server[table.name]) = Shown(table)
  /\ table.pk.columns # <<>> /\ table.pk.name # "" /\ engine # "sqlite"
       => server[table.name].pk.name = table.pk.name
  /\ ~IsNew => server[table.name].foreign = ForeignKept

\* The rows survive: after a commit every loaded column that was not removed
\* holds its own data under its new name, whether it was renamed in place, altered
\* or copied into a rebuilt table, and every new column starts empty.
KeepsData == at = "saved" /\ ~stale =>
  {<<c.name, c.data>> : c \in ToSet(server[table.name].columns)}
  = {<<c.name, IF c.id \in Ids(original) THEN c.id ELSE 0>> : c \in ToSet(table.columns)}

\* No edit is lost on the way to the review: a design that shows something else
\* than the loaded table has statements, and one that is as loaded has none.
EditsAreSeen == at = "edit" /\ ~IsNew /\ Sound =>
  /\ table = original => Plan = <<>>
  /\ Shown(table) # Shown(original) => Plan # <<>>

TakesLater(old, new) == \E i, j \in DOMAIN old : i < j /\ new[i] = old[j]

\* A name that two of the table, its key and its indexes have, before or after,
\* or that something of another table has.
NamePasses ==
  LET keys == {original.pk.name, table.pk.name} \ {""}
      tables == {original.name, table.name}
  IN \/ tables \cap (keys \cup SharedNamesOf(original) \cup SharedNamesOf(table)) # {}
     \/ keys \cap (IndexNamesOf(original) \cup IndexNamesOf(table)) # {}
NameTaken ==
  \E n \in {table.name, table.pk.name} \cup SharedNamesOf(table) :
    n # AutoIndex /\ n \in Objects(Without(server, original.name))

\* A foreign key over a column that goes or changes (alter_plan has no
\* statement for foreign keys).
ForeignInTheWay == \E f \in foreign, c \in ToSet(original.columns) :
  /\ c.name \in ToSet(f)
  /\ \/ engine = "mssql" /\ c.id \in Removed \cup Retyped
     \/ engine = "pg" /\ c.id \notin Removed /\ New(c).type # c.type

\* What stops a design without problems is known.  It is about the names: a new
\* one is taken by another table or what is on it; a column or an index takes
\* the one a later one still has when the renames run one by one; a name passes
\* between the table, its key and its indexes; SQLite's unique constraint would
\* become an index of the reserved one; an index expression keeps the one of a
\* column that is renamed or dropped.  Or it is about what stands on a column: a
\* foreign key that the plan leaves where it is; a default that does not suit
\* the column's new type, on PostgreSQL also one that the design drops or
\* replaces, since TYPE comes before it; an index expression over a column that
\* is retyped.  Or every loaded column is dropped before the new ones are added.
\* Nothing else that the window loads is in the way: no statement meets a key, an
\* index or a default that still stands there or is already gone, and none asks
\* SQLite for what it cannot alter (alter_plan, sqlite_needs_rebuild).
RefusedOnlyFor == at = "running" /\ ~stale /\ ~Transaction.ok =>
  \/ NameTaken \/ NamePasses
  \/ TakesLater([i \in DOMAIN Kept |-> Kept[i].name], [i \in DOMAIN Kept |-> New(Kept[i]).name])
  \/ LET same == SelectSeq(original.indexes, SameShape)
     IN TakesLater([i \in DOMAIN same |-> same[i].name],
                   [i \in DOMAIN same |-> Index(table, same[i].id).name])
  \/ engine = "sqlite" /\ \E i \in ToSet(table.indexes) : i.name = AutoIndex /\ ~UniqueConstraint(i)
  \/ OverRenamed
  \/ ForeignInTheWay
  \/ \E c \in ToSet(table.columns) : Misfit(c.type, c.default)
  \/ /\ engine = "pg"
     /\ \E c \in ToSet(Kept) : /\ New(c).type # c.type
                              /\ \/ Misfit(New(c).type, c.default)
                                 \/ \E p \in Expressions : p.column = c.id
  \/ engine # "pg" /\ Kept = <<>>
=============================================================================
