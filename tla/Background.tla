----------------------------- MODULE Background -----------------------------
(***************************************************************************)
(* What sqail-ui does in the background: the assistant's tool server       *)
(* (Tools), its conversation (Chat), an import (Import) and an export      *)
(* (Export).  No action of one changes the state of another.               *)
(***************************************************************************)
EXTENDS Tools

CONSTANTS
  \* Import
  Tables, Nothing, MaxImports, MaxOpenings, MaxRows, BatchRows,
  \* Export
  Engine, Connections, Shapes, MaxLength, MaxRuns, Exports, MaxExportRows,
  RowsPerSheet,
  \* Chat
  MaxTurns, MaxMessages, MessageTools, Errors

VARIABLES
  \* Import
  dialog, openings, asking, started, importPc, target, importAsk, left, batch,
  importDone, importVerdict, told, importSession, importRunning, importReply,
  importTx, written, importCommitted,
  \* Export
  connection, run, runs, task, what, sheets, exportLeft, outcome,
  \* Chat
  chat, open, entries, turnRunning, turns, turn, turnPc, stopped, cli, plan, at,
  parser, turnDone, inbox, folders

\* The bounds are numbers, and a batch has a row at least.
ASSUME ImportAssumption ==
  /\ MaxImports \in Nat /\ MaxOpenings \in Nat
  /\ MaxRows \in Nat /\ BatchRows \in Nat \ {0}

Import == INSTANCE Import
  WITH pc <- importPc, ask <- importAsk, done <- importDone,
       verdict <- importVerdict, session <- importSession,
       running <- importRunning, reply <- importReply, tx <- importTx,
       committed <- importCommitted

\* So are those of an export; a sheet has room for a row below its header.
ASSUME ExportAssumption ==
  /\ MaxLength \in Nat /\ MaxRuns \in Nat /\ MaxExportRows \in Nat
  /\ RowsPerSheet \in Nat \ {0}

Export == INSTANCE Export WITH MaxRows <- MaxExportRows, left <- exportLeft

\* So are those of a conversation; a turn may go well.
ASSUME ChatAssumption ==
  MaxTurns \in Nat /\ MaxMessages \in Nat /\ FALSE \in Errors

Chat == INSTANCE Chat
  WITH Tools <- MessageTools, running <- turnRunning, pc <- turnPc,
       done <- turnDone

-----------------------------------------------------------------------------
(* Properties of Import, Export and Chat *)

\* Whatever fails, is lost or ends meanwhile, none or all of the file's rows are
\* in the table (import_csv).
AllOrNothing == Import!AllOrNothing

\* Of a run that finished, what is exported is the result that was shown
\* (statement_for_result).
FinishedExportsShown == Export!FinishedExportsShown

\* What follows a question in the panel is its own answer (Assistant).
OwnAnswersOnly == Chat!OwnAnswersOnly

\* The panel shows each text of an answer once, in order and, unless it was
\* stopped or failed, in full (Parser, Assistant).
EachTextOnce == Chat!EachTextOnce

=============================================================================
