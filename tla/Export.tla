------------------------------- MODULE Export -------------------------------
(***************************************************************************)
(* "Export every row" of sqail-ui: which statement of a script made the    *)
(* result that is shown (statement_for_result in transfer.rs, export in    *)
(* app.rs), and running it again into a file (export_query, Exporter).     *)
(*                                                                         *)
(* What matters of a statement is whether check_read_only passes it, how   *)
(* many results it yields and which columns they have.  An Excel file is   *)
(* the one with structure: sheets of limited length, below a header.       *)
(*                                                                         *)
(* Exports run in tasks of their own while the tab goes on; each writes a  *)
(* file of its own.                                                        *)
(***************************************************************************)
EXTENDS Integers, Sequences, FiniteSets, FiniteSetsExt, SequencesExt

CONSTANTS
  Engine,       \* of the connections
  Connections,
  Shapes,       \* column names of a result
  MaxLength,    \* bound: statements of a script
  MaxRuns,      \* bound: how many scripts are run
  Exports,      \* bound: the exports started
  MaxRows,      \* bound: rows of a result
  RowsPerSheet  \* XLSX_ROWS_PER_SHEET

VARIABLES
  connection,  \* of the tab
  run,         \* the tab's run
  runs,        \* how many there were
  task,        \* where each export is
  what,        \* what it was asked for, and what it sends
  sheets,      \* which lines of each sheet it wrote
  left,        \* rows of the result it has not read
  outcome      \* what it said at its end

vars == <<connection, run, runs, task, what, sheets, left, outcome>>

\* A SELECT yields a result unless it only assigns variables, which needs
\* T-SQL; so does what ends the script without an error, or a call that
\* yields several results.
Kinds == {"select", "write", "returning"} \cup
         (IF Engine = "mssql" THEN {"assign", "return", "call"} ELSE {})

Statements == [kind : Kinds, shape : Shapes]
Scripts == SeqOf(Statements, MaxLength) \ {<<>>}

CheckReadOnly(s) == s.kind \in {"select", "assign"}

Yields(s) ==
  CASE s.kind \in {"select", "returning"} -> 1
    [] s.kind = "call" -> 2
    [] OTHER -> 0

\* The last statement of a script that is executed, if none fails.
LastOf(script) ==
  LET returns == {n \in DOMAIN script : script[n].kind = "return"}
  IN  IF returns = {} THEN Len(script) ELSE Min(returns)

\* The results of a run that ended in its n-th statement, after the k-th
\* result of that: which statement each is of.
ResultsOf(script, n, k) ==
  FlattenSeq([i \in 1 .. n |->
    [j \in 1 .. (IF i < n THEN Yields(script[i]) ELSE k) |-> i]])

NoRun == [script |-> <<>>, on |-> "none", results |-> <<>>, state |-> "none"]

Unasked == [statement |-> 0, shown |-> 0, shape |-> "none", script |-> <<>>,
            on |-> "none", shownOn |-> "none", finished |-> FALSE]

Asked == [statement : 1 .. MaxLength, shown : 1 .. MaxLength, shape : Shapes,
          script : Scripts, on : Connections, shownOn : Connections,
          finished : BOOLEAN]

\* Type correctness; no sheet is longer than Excel's.
TypeOK ==
  /\ connection \in Connections
  /\ run = NoRun \/
     /\ run.script \in Scripts
     /\ run.on \in Connections
     /\ Range(run.results) \subseteq DOMAIN run.script
     /\ run.state \in {"running", "finished", "stopped"}
  /\ runs \in 0 .. MaxRuns
  /\ task \in [Exports -> {"new", "picking", "asking", "reading", "failing",
                           "over"}]
  /\ \A e \in Exports :
       /\ what[e] \in Asked \cup {Unasked}
       /\ \A s \in DOMAIN sheets[e] : sheets[e][s] \subseteq 0 .. RowsPerSheet
  /\ left \in [Exports -> 0 .. MaxRows]
  /\ outcome \in [Exports -> {"none", "exported", "failed", "given up"}]

Init ==
  /\ connection \in Connections
  /\ run = NoRun
  /\ runs = 0
  /\ task = [e \in Exports |-> "new"]
  /\ what = [e \in Exports |-> Unasked]
  /\ sheets = [e \in Exports |-> <<>>]
  /\ left = [e \in Exports |-> 0]
  /\ outcome = [e \in Exports |-> "none"]

-----------------------------------------------------------------------------
(* The tab *)

ChooseConnection(c) ==
  /\ connection' = c
  /\ UNCHANGED <<run, runs, task, what, sheets, left, outcome>>

RunScript(script) ==
  /\ runs < MaxRuns
  /\ run.state # "running"
  /\ runs' = runs + 1
  /\ run' = [script |-> script, on |-> connection, results |-> <<>>,
             state |-> "running"]
  /\ UNCHANGED <<connection, task, what, sheets, left, outcome>>

\* The last events of the run have arrived.
RunFinishes ==
  /\ run.state = "running"
  /\ LET n == LastOf(run.script)
     IN  run' = [run EXCEPT !.state = "finished", !.results =
                   ResultsOf(run.script, n, Yields(run.script[n]))]
  /\ UNCHANGED <<connection, runs, task, what, sheets, left, outcome>>

\* A statement fails, the run is cancelled or its stream breaks: in any
\* statement, before or after it began a result.
RunStops ==
  /\ run.state = "running"
  /\ \E n \in 1 .. LastOf(run.script) : \E k \in 0 .. Yields(run.script[n]) :
       run' = [run EXCEPT !.state = "stopped",
                          !.results = ResultsOf(run.script, n, k)]
  /\ UNCHANGED <<connection, runs, task, what, sheets, left, outcome>>

-----------------------------------------------------------------------------
(* Which statement *)

\* executed_statements, those that check_read_only passes.
Reads(script) ==
  FlattenSeq([n \in DOMAIN script |->
               IF CheckReadOnly(script[n]) THEN <<n>> ELSE <<>>])

\* Mutant: does not compare the numbers.
LinesUpAlways(script, results, finished) == TRUE

LinesUp(script, results, finished) ==
  IF finished THEN Len(Reads(script)) = results ELSE Len(Reads(script)) >= results

\* statement_for_result: the statement, or none.
StatementForResult(script, result, results, finished) ==
  IF result \in DOMAIN Reads(script) /\ LinesUp(script, results, finished)
  THEN {Reads(script)[result]} ELSE {}

\* Export of the r-th result, when it is shown.
Export(e, r) ==
  /\ task[e] = "new"
  /\ run.state \in {"finished", "stopped"}
  /\ r \in DOMAIN run.results
  /\ \E n \in StatementForResult(run.script, r, Len(run.results),
                                 run.state = "finished") :
       what' = [what EXCEPT ![e] =
         [statement |-> n, shown |-> run.results[r],
          shape |-> run.script[run.results[r]].shape, script |-> run.script,
          on |-> connection, shownOn |-> run.on,
          finished |-> run.state = "finished"]]
  /\ task' = [task EXCEPT ![e] = "picking"]
  /\ UNCHANGED <<connection, run, runs, sheets, left, outcome>>

-----------------------------------------------------------------------------
(* The task *)

Ends(e, how) ==
  /\ task' = [task EXCEPT ![e] = "over"]
  /\ outcome' = [outcome EXCEPT ![e] = how]

PickFile(e) ==
  /\ task[e] = "picking"
  /\ \/ task' = [task EXCEPT ![e] = "asking"] /\ UNCHANGED outcome
     \/ Ends(e, "given up")
  /\ UNCHANGED <<connection, run, runs, what, sheets, left>>

\* The statement runs, and its result has columns of some names: the table
\* may have changed, and another connection have another one.
ResultStart(e, shape) ==
  /\ task[e] = "asking"
  /\ Yields(what[e].script[what[e].statement]) > 0
  /\ \/ /\ shape = what[e].shape
        /\ task' = [task EXCEPT ![e] = "reading"]
        /\ sheets' = [sheets EXCEPT ![e] = <<{0}>>]
        /\ \E rows \in 0 .. MaxRows : left' = [left EXCEPT ![e] = rows]
        /\ UNCHANGED outcome
     \/ /\ shape # what[e].shape
        /\ Ends(e, "failed")
        /\ UNCHANGED <<sheets, left>>
  /\ UNCHANGED <<connection, run, runs, what>>

\* Exporter::row: a full sheet is followed by another with a header.
Row(e) ==
  /\ task[e] = "reading" /\ left[e] > 0
  /\ left' = [left EXCEPT ![e] = @ - 1]
  /\ LET last == Len(sheets[e])
         line == Max(sheets[e][last]) + 1
     IN  sheets' = IF line > RowsPerSheet
                   THEN [sheets EXCEPT ![e] = Append(@, {0, 1})]
                   ELSE [sheets EXCEPT ![e][last] = @ \cup {line}]
  /\ UNCHANGED <<connection, run, runs, task, what, outcome>>

\* An error event; the stream goes on to its end.
ErrorEvent(e) ==
  /\ task[e] \in {"asking", "reading"}
  /\ task' = [task EXCEPT ![e] = "failing"]
  /\ UNCHANGED <<connection, run, runs, what, sheets, left, outcome>>

\* The request is refused, the stream breaks or the file cannot be written.
Breaks(e) ==
  /\ task[e] \in {"asking", "reading", "failing"}
  /\ Ends(e, "failed")
  /\ UNCHANGED <<connection, run, runs, what, sheets, left>>

\* The end of the stream, without a result in "asking".
StreamEnds(e) ==
  /\ task[e] \in {"asking", "reading", "failing"}
  /\ task[e] = "asking" => Yields(what[e].script[what[e].statement]) = 0
  /\ task[e] = "reading" => left[e] = 0
  /\ Ends(e, IF task[e] = "reading" THEN "exported" ELSE "failed")
  /\ UNCHANGED <<connection, run, runs, what, sheets, left>>

-----------------------------------------------------------------------------
TabStep ==
  \/ \E c \in Connections : ChooseConnection(c)
  \/ \E script \in Scripts : RunScript(script)
  \/ RunFinishes \/ RunStops

TaskStep(e) ==
  \/ PickFile(e) \/ \E shape \in Shapes : ResultStart(e, shape)
  \/ Row(e) \/ ErrorEvent(e) \/ Breaks(e) \/ StreamEnds(e)

Next ==
  \/ TabStep
  \/ \E e \in Exports :
       TaskStep(e) \/ \E r \in DOMAIN run.results : Export(e, r)

Spec == Init /\ [][Next]_vars

-----------------------------------------------------------------------------
(* Properties *)

Exported(e) == outcome[e] = "exported"

\* "Running anything again could repeat writes": only what reads is sent
\* again (statement_for_result).
RepeatsNoWrite ==
  \A e \in Exports : what[e] # Unasked =>
    what[e].script[what[e].statement].kind \notin {"write", "returning", "call"}

\* "Only when the script's read-only statements line up one-to-one with its
\* result sets": where every SELECT yields a result and no script ends early
\* in silence, that the numbers agree means that each read made the result of
\* its rank (statement_for_result).
FinishedExportsShown ==
  \A e \in Exports :
    Exported(e) /\ what[e].finished /\ Engine # "mssql"
      => what[e].statement = what[e].shown

\* "It runs only the statement that produced the result you're looking at"
\* (docs/user-guide.md).
ExportsTheShown ==
  \A e \in Exports : Exported(e) => what[e].statement = what[e].shown

\* "... in the tab's session (so temp tables and uncommitted rows are there)"
\* (docs/user-guide.md): at least on the connection it was shown from.
ExportsFromWhereShown ==
  \A e \in Exports : Exported(e) => what[e].on = what[e].shownOn

\* An export that reports success left no row out, and filled each sheet below
\* its header before the next, with the columns of the result it was asked for (export_query, Exporter).
FileIsWhole ==
  \A e \in Exports : Exported(e) =>
    /\ left[e] = 0
    /\ \A s \in DOMAIN sheets[e] :
         /\ 0 \in sheets[e][s]
         /\ s < Len(sheets[e]) => RowsPerSheet \in sheets[e][s]
    /\ what[e].shape = what[e].script[what[e].shown].shape

=============================================================================
