------------------------------- MODULE Import -------------------------------
(***************************************************************************)
(* The CSV import of sqail-ui: its dialog (ImportForm and import in        *)
(* dialogs.rs, open_import and the import messages in app.rs), the task    *)
(* that sends the rows (import_csv and exec in transfer.rs), and the       *)
(* session it uses, as sqail-service treats one: a query runs alone on it, *)
(* goes on when its client is gone, and the connection that a removed      *)
(* session leaves behind is closed once nothing runs on it.                *)
(*                                                                         *)
(* A dialog opens whenever a file picker answers; other messages replace   *)
(* it.  Requests may be refused, answers may be lost, sessions end at any  *)
(* time, and the user may quit.                                            *)
(***************************************************************************)
EXTENDS Integers

CONSTANTS
  Tables,
  Nothing,     \* no table, no columns
  MaxImports,  \* bound: how many imports are started
  MaxOpenings, \* bound: how many times the dialog opens
  MaxRows,     \* bound: rows of a file
  BatchRows    \* rows of one INSERT

VARIABLES
  dialog,     \* the import dialog
  openings,   \* how many there were
  asking,     \* tables whose columns were asked for
  started,    \* how many imports were
  pc,         \* where the task of each import is
  target,     \* its table and the columns it was given
  ask,        \* the statement it sends or waits for
  left,       \* rows of the file it has not read
  batch,      \* rows it read and has not sent
  done,       \* rows it counted as imported
  verdict,    \* how its transaction went, as far as it knows
  told,       \* its last message was handled
  session,    \* its session at the service
  running,    \* the statement that runs there
  reply,      \* how that ended, for the task to read
  tx,         \* a transaction is open
  written,    \* rows inserted in it
  committed   \* rows of the import in its table

uiVars == <<dialog, openings, asking, started>>
taskVars == <<pc, target, ask, left, batch, done, verdict, told>>
dbVars == <<session, running, reply, tx, written, committed>>
vars == <<uiVars, taskVars, dbVars>>

Imports == 1 .. MaxImports

NoDialog == [table |-> Nothing, columns |-> Nothing, busy |-> FALSE,
             result |-> "none", mine |-> 0]

Statements == {"none", "begin", "insert", "commit", "rollback"}

\* Type correctness; no statement has more rows than the engine takes
\* (param_limit).
TypeOK ==
  /\ dialog \in [table : Tables \cup {Nothing},
                 columns : Tables \cup {Nothing, "failed"}, busy : BOOLEAN,
                 result : {"none", "ok", "err"}, mine : 0 .. started]
  /\ openings \in 0 .. MaxOpenings
  /\ asking \in [Tables -> 0 .. openings]
  /\ started \in 0 .. MaxImports
  /\ pc \in [Imports -> {"new", "opening", "reading", "sending", "waiting",
                         "closing", "over", "killed"}]
  /\ target \in [Imports -> [table : Tables \cup {Nothing},
                             columns : Tables \cup {Nothing}]]
  /\ ask \in [Imports -> Statements]
  /\ left \in [Imports -> 0 .. MaxRows]
  /\ batch \in [Imports -> 0 .. BatchRows]
  /\ done \in [Imports -> 0 .. MaxRows]
  /\ verdict \in [Imports -> {"none", "ok", "err"}]
  /\ told \in [Imports -> BOOLEAN]
  /\ session \in [Imports -> {"none", "open", "gone"}]
  /\ running \in [Imports -> Statements]
  /\ reply \in [Imports -> {"none", "ok", "err"}]
  /\ tx \in [Imports -> BOOLEAN]
  /\ written \in [Imports -> 0 .. MaxRows]
  /\ committed \in [Imports -> 0 .. MaxRows]

Init ==
  /\ dialog = NoDialog
  /\ openings = 0
  /\ asking = [t \in Tables |-> 0]
  /\ started = 0
  /\ pc = [i \in Imports |-> "new"]
  /\ target = [i \in Imports |-> [table |-> Nothing, columns |-> Nothing]]
  /\ ask = [i \in Imports |-> "none"]
  /\ left = [i \in Imports |-> 0]
  /\ batch = [i \in Imports |-> 0]
  /\ done = [i \in Imports |-> 0]
  /\ verdict = [i \in Imports |-> "none"]
  /\ told = [i \in Imports |-> FALSE]
  /\ session = [i \in Imports |-> "none"]
  /\ running = [i \in Imports |-> "none"]
  /\ reply = [i \in Imports |-> "none"]
  /\ tx = [i \in Imports |-> FALSE]
  /\ written = [i \in Imports |-> 0]
  /\ committed = [i \in Imports |-> 0]

-----------------------------------------------------------------------------
(* The dialog *)

\* open_import, when a file picker answers: also over an open dialog.
OpenDialog(t) ==
  /\ openings < MaxOpenings
  /\ openings' = openings + 1
  /\ dialog' = [NoDialog EXCEPT !.table = t]
  /\ asking' = [asking EXCEPT ![t] = @ + 1]
  /\ UNCHANGED <<started, taskVars, dbVars>>

\* set_columns: the message does not say for which table it was asked.
ColumnsArrive(t, answer) ==
  /\ asking[t] > 0
  /\ asking' = [asking EXCEPT ![t] = @ - 1]
  /\ dialog' = IF dialog.table = Nothing THEN dialog
               ELSE [dialog EXCEPT !.columns = answer]
  /\ UNCHANGED <<openings, started, taskVars, dbVars>>

\* The Import button, for a file of n rows.
StartImport(n) ==
  /\ started < MaxImports
  /\ dialog.columns \in Tables
  /\ ~dialog.busy
  /\ dialog.result # "ok"
  /\ started' = started + 1
  /\ dialog' = [dialog EXCEPT !.busy = TRUE, !.result = "none",
                              !.mine = started']
  /\ pc' = [pc EXCEPT ![started'] = "opening"]
  /\ target' = [target EXCEPT ![started'] =
                  [table |-> dialog.table, columns |-> dialog.columns]]
  /\ left' = [left EXCEPT ![started'] = n]
  /\ UNCHANGED <<openings, asking, ask, batch, done, verdict, told, dbVars>>

CloseDialog ==
  /\ dialog.table # Nothing
  /\ ~dialog.busy
  /\ dialog' = NoDialog
  /\ UNCHANGED <<openings, asking, started, taskVars, dbVars>>

\* Another message, or a request to close the window, replaces it.
OtherDialog ==
  /\ dialog.table # Nothing
  /\ dialog' = NoDialog
  /\ UNCHANGED <<openings, asking, started, taskVars, dbVars>>

\* Msg::ImportDone does not say of which import it is.
ImportDone(i) ==
  /\ pc[i] = "over" /\ ~told[i]
  /\ told' = [told EXCEPT ![i] = TRUE]
  /\ dialog' = IF dialog.table = Nothing THEN dialog
               ELSE [dialog EXCEPT !.busy = FALSE, !.result = verdict[i]]
  /\ UNCHANGED <<openings, asking, started, pc, target, ask, left, batch, done,
                 verdict, dbVars>>

\* The window closes: tasks end where they are.
Quit ==
  /\ dialog' = NoDialog
  /\ asking' = [t \in Tables |-> 0]
  /\ started' = MaxImports
  /\ openings' = MaxOpenings
  /\ pc' = [i \in Imports |-> "killed"]
  /\ reply' = [i \in Imports |-> "none"]
  /\ UNCHANGED <<target, ask, left, batch, done, verdict, told, session,
                 running, tx, written, committed>>

-----------------------------------------------------------------------------
(* The task *)

\* The task at i goes on in another phase, sending a statement if it asks.
Goto(i, phase) == pc' = [pc EXCEPT ![i] = phase]

Sends(i, s) == Goto(i, "sending") /\ ask' = [ask EXCEPT ![i] = s]

\* open_session; the answer may be lost after the session was made.
OpenSession(i) ==
  /\ pc[i] = "opening"
  /\ \/ Sends(i, "begin")
        /\ session' = [session EXCEPT ![i] = "open"]
        /\ UNCHANGED verdict
     \/ Goto(i, "over")
        /\ verdict' = [verdict EXCEPT ![i] = "err"]
        /\ session' \in {session, [session EXCEPT ![i] = "open"]}
        /\ UNCHANGED ask
  /\ UNCHANGED <<uiVars, target, left, batch, done, told, running, reply, tx,
                 written, committed>>

\* A batch is as long as the engine's limit on parameters allows.
ReadRow(i) ==
  /\ pc[i] = "reading" /\ left[i] > 0
  /\ left' = [left EXCEPT ![i] = @ - 1]
  /\ batch' = [batch EXCEPT ![i] = @ + 1]
  /\ IF batch'[i] = BatchRows THEN Sends(i, "insert") ELSE UNCHANGED <<pc, ask>>
  /\ UNCHANGED <<uiVars, target, done, verdict, told, dbVars>>

EndOfFile(i) ==
  /\ pc[i] = "reading" /\ left[i] = 0
  /\ Sends(i, IF batch[i] > 0 THEN "insert" ELSE "commit")
  /\ UNCHANGED <<uiVars, target, left, batch, done, verdict, told, dbVars>>

\* After an error nothing more is sent but ROLLBACK, whose own is ignored.
Failed(i) ==
  IF ask[i] = "rollback"
  THEN Goto(i, "closing") /\ UNCHANGED <<ask, verdict>>
  ELSE /\ Sends(i, "rollback")
       /\ verdict' = [verdict EXCEPT ![i] = "err"]

\* A record that cannot be read.
ReadFails(i) ==
  /\ pc[i] = "reading" /\ left[i] > 0
  /\ Failed(i)
  /\ UNCHANGED <<uiVars, target, left, batch, done, told, dbVars>>

\* exec reaches the session if nothing runs there, ...
Send(i) ==
  /\ pc[i] = "sending"
  /\ session[i] = "open" /\ running[i] = "none"
  /\ Goto(i, "waiting")
  /\ running' = [running EXCEPT ![i] = ask[i]]
  /\ UNCHANGED <<uiVars, target, ask, left, batch, done, verdict, told, session,
                 reply, tx, written, committed>>

\* ... or is refused, or does not get through.
Refused(i) ==
  /\ pc[i] = "sending"
  /\ Failed(i)
  /\ UNCHANGED <<uiVars, target, left, batch, done, told, dbVars>>

\* Mutant: an error event is not looked for.
AnswerUnread(i) ==
  /\ pc[i] = "waiting" /\ reply[i] # "none"
  /\ reply' = [reply EXCEPT ![i] = "none"]
  /\ LET counted == ask[i] = "insert"
     IN  /\ done' = [done EXCEPT ![i] = IF counted THEN @ + batch[i] ELSE @]
         /\ batch' = [batch EXCEPT ![i] = IF counted THEN 0 ELSE @]
  /\ Goto(i, IF ask[i] \in {"begin", "insert"} THEN "reading" ELSE "closing")
  /\ verdict' = [verdict EXCEPT ![i] = IF ask[i] = "commit" THEN "ok" ELSE @]
  /\ UNCHANGED <<uiVars, target, ask, left, told, session, running, tx, written,
                 committed>>

Answer(i) ==
  /\ pc[i] = "waiting" /\ reply[i] # "none"
  /\ reply' = [reply EXCEPT ![i] = "none"]
  /\ \/ /\ reply[i] = "err"
        /\ Failed(i)
        /\ UNCHANGED <<batch, done>>
     \/ /\ reply[i] = "ok" /\ ask[i] = "begin"
        /\ Goto(i, "reading")
        /\ UNCHANGED <<ask, batch, done, verdict>>
     \/ /\ reply[i] = "ok" /\ ask[i] = "insert"
        /\ Goto(i, "reading")
        /\ done' = [done EXCEPT ![i] = @ + batch[i]]
        /\ batch' = [batch EXCEPT ![i] = 0]
        /\ UNCHANGED <<ask, verdict>>
     \/ /\ reply[i] = "ok" /\ ask[i] \in {"commit", "rollback"}
        /\ Goto(i, "closing")
        /\ verdict' = [verdict EXCEPT ![i] =
                         IF ask[i] = "commit" THEN "ok" ELSE @]
        /\ UNCHANGED <<ask, batch, done>>
  /\ UNCHANGED <<uiVars, target, left, told, session, running, tx, written,
                 committed>>

\* The stream breaks before its end; the statement may have ended or not.
LoseAnswer(i) ==
  /\ pc[i] = "waiting"
  /\ reply' = [reply EXCEPT ![i] = "none"]
  /\ Failed(i)
  /\ UNCHANGED <<uiVars, target, left, batch, done, told, session, running, tx,
                 written, committed>>

\* close_session, whose error is ignored.
Close(i) ==
  /\ pc[i] = "closing"
  /\ Goto(i, "over")
  /\ session' \in {session, [session EXCEPT ![i] = "gone"]}
  /\ UNCHANGED <<uiVars, target, ask, left, batch, done, verdict, told, running,
                 reply, tx, written, committed>>

-----------------------------------------------------------------------------
(* The service and the database *)

Ends(i, how) ==
  /\ running' = [running EXCEPT ![i] = "none"]
  /\ reply' = [reply EXCEPT ![i] = IF pc[i] = "waiting" THEN how ELSE "none"]

\* A statement takes effect; outside a transaction an INSERT commits itself.
Executes(i) ==
  /\ running[i] # "none"
  /\ Ends(i, "ok")
  /\ CASE running[i] = "begin" ->
            tx' = [tx EXCEPT ![i] = TRUE] /\ UNCHANGED <<written, committed>>
       [] running[i] = "insert" /\ tx[i] ->
            /\ written' = [written EXCEPT ![i] = @ + batch[i]]
            /\ UNCHANGED <<tx, committed>>
       [] running[i] = "insert" /\ ~tx[i] ->
            /\ committed' = [committed EXCEPT ![i] = @ + batch[i]]
            /\ UNCHANGED <<tx, written>>
       [] running[i] = "commit" ->
            /\ committed' = [committed EXCEPT ![i] = @ + written[i]]
            /\ written' = [written EXCEPT ![i] = 0]
            /\ tx' = [tx EXCEPT ![i] = FALSE]
       [] running[i] = "rollback" ->
            /\ written' = [written EXCEPT ![i] = 0]
            /\ tx' = [tx EXCEPT ![i] = FALSE]
            /\ UNCHANGED committed
  /\ UNCHANGED <<uiVars, taskVars, session>>

\* It fails, and may take the transaction with it.
Errs(i) ==
  /\ running[i] # "none"
  /\ Ends(i, "err")
  /\ \/ UNCHANGED <<tx, written>>
     \/ /\ tx' = [tx EXCEPT ![i] = FALSE]
        /\ written' = [written EXCEPT ![i] = 0]
  /\ UNCHANGED <<uiVars, taskVars, session, committed>>

\* The session ends without its client: its profile is deleted, its
\* connection lost, the service restarted.
SessionEnds(i) ==
  /\ session[i] = "open"
  /\ session' = [session EXCEPT ![i] = "gone"]
  /\ UNCHANGED <<uiVars, taskVars, running, reply, tx, written, committed>>

\* Nobody uses it any more, and it was idle for long.
Reap(i) ==
  /\ session[i] = "open" /\ running[i] = "none"
  /\ pc[i] \in {"over", "killed"}
  /\ session' = [session EXCEPT ![i] = "gone"]
  /\ UNCHANGED <<uiVars, taskVars, running, reply, tx, written, committed>>

\* The connection is dropped, and the database undoes what is open.
Undo(i) ==
  /\ session[i] = "gone" /\ running[i] = "none" /\ tx[i]
  /\ tx' = [tx EXCEPT ![i] = FALSE]
  /\ written' = [written EXCEPT ![i] = 0]
  /\ UNCHANGED <<uiVars, taskVars, session, running, reply, committed>>

-----------------------------------------------------------------------------
Dialog ==
  \/ \E t \in Tables :
       OpenDialog(t) \/ \E answer \in {t, "failed"} : ColumnsArrive(t, answer)
  \/ \E n \in 0 .. MaxRows : StartImport(n)
  \/ CloseDialog \/ OtherDialog \/ Quit

Task(i) ==
  \/ OpenSession(i) \/ ReadRow(i) \/ EndOfFile(i) \/ ReadFails(i)
  \/ Send(i) \/ Refused(i) \/ Answer(i) \/ LoseAnswer(i) \/ Close(i)

Service(i) == Executes(i) \/ Errs(i) \/ Reap(i) \/ Undo(i)

Next ==
  \/ Dialog
  \/ \E i \in Imports :
       ImportDone(i) \/ Task(i) \/ Service(i) \/ SessionEnds(i)

Spec == Init /\ [][Next]_vars

\* The task is polled and the UI takes its message; statements end, sessions
\* are reaped and dropped connections noticed.
FairSpec ==
  /\ Spec
  /\ \A i \in Imports :
       /\ WF_vars(Task(i)) /\ WF_vars(ImportDone(i))
       /\ WF_vars(Executes(i) \/ Errs(i)) /\ WF_vars(Reap(i)) /\ WF_vars(Undo(i))

-----------------------------------------------------------------------------
(* Properties *)

\* "Import a CSV file in one transaction": whatever fails, is lost or ends
\* meanwhile, none or all of the file's rows are in the table, also when the
\* rest of the file was never read (import_csv).
AllOrNothing ==
  [][\A i \in Imports : committed'[i] # committed[i] =>
       committed[i] = 0 /\ left[i] = 0 /\ batch[i] = 0]_vars

\* "Returns the number of rows": an import that reports success counted what
\* is in the table, the last, short batch included (import_csv).
CountsWhatItImported ==
  \A i \in Imports :
    verdict[i] = "ok" => done[i] = committed[i] /\ left[i] = 0 /\ batch[i] = 0

\* A session that a failed import could not roll back or close, or that a
\* user left behind by quitting, does not keep its transaction and its locks
\* (import_csv, Sessions::reap).
TransactionsEnd ==
  \A i \in Imports : (tx[i] /\ pc[i] \in {"over", "killed"}) ~> ~tx[i]

\* The dialog cannot be closed while it is busy: it does not stay busy
\* (import, import_csv).
BusyEnds == dialog.busy ~> ~dialog.busy

\* "Nothing imported (rolled back)" (dialogs.rs): what the dialog says of a
\* failed import.
RolledBackIsTrue ==
  dialog.result = "err" /\ dialog.mine # 0 => committed[dialog.mine] = 0

\* The rows go into the columns of the table they are for.
ColumnsFit ==
  \A i \in Imports : target[i].columns \in {target[i].table, Nothing}

\* The dialog shows the end of the import it started.
ShowsItsOwn ==
  dialog.result # "none" =>
    dialog.mine # 0 /\ verdict[dialog.mine] = dialog.result

=============================================================================
