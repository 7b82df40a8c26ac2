------------------------------- MODULE Query -------------------------------
(***************************************************************************)
(* One query of sqail-service (api/query.rs): the task `drive` that runs a *)
(* script and streams its events, the client that reads them, another      *)
(* request that cancels, the deadline, and the database.                   *)
(*                                                                         *)
(* The task sends into a bounded channel and waits when it is full.  The   *)
(* driver's future (Conn::execute) is polled only while the task executes  *)
(* or, after a cancel, while it winds down; result sets are abstracted to  *)
(* whether one is open.  What the client has read is kept as a state of    *)
(* EventStream, the grammar of the stream.                                 *)
(***************************************************************************)
EXTENDS Integers, Sequences

CONSTANTS
  Capacity,   \* of the event channel
  Engine,     \* the database engine
  InSession,  \* whether the query runs in a session or on a pooled connection
  Timed       \* whether it has a deadline (timeout_ms > 0)

ASSUME QueryAssumption ==
  /\ Capacity \in Nat \ {0}
  /\ Engine \in {"postgres", "mssql", "sqlite"}
  /\ InSession \in BOOLEAN /\ Timed \in BOOLEAN

VARIABLES
  pc,          \* where drive is
  result,      \* of the script, as drive sees it
  broken,      \* drive gives the connection up
  inTx,        \* what drive learnt about an open transaction
  registered,  \* the id is in AppState::queries
  token,       \* the cancellation token of that entry
  flag,        \* Session::in_transaction
  channel,     \* events on their way to the client
  client,      \* reading (now or later), gone or finished
  seen,        \* what the client has read, a state of EventStream
  open,        \* the driver's result set is open
  asked,       \* a cancel request reached the database
  running,     \* the script executes at the database
  outcome,     \* what the database answers
  tx,          \* a transaction is open on the connection
  conn         \* in use, returned to the pool, closed, or dead at the database

driveVars == <<pc, result, broken, inTx>>
apiVars == <<registered, token, flag>>
streamVars == <<channel, client, seen>>
dbVars == <<asked, running, outcome, tx, conn>>
vars == <<driveVars, apiVars, streamVars, open, dbVars>>

Phases == {"start", "executing", "cancelling", "winding", "checking", "asking",
           "reporting", "settling", "finishing", "unregister", "closing",
           "returning", "over"}

Events == {"started", "result_start", "rows", "result_end", "rows_affected",
           "message", "error", "done"}

Results == {"none", "ok", "db_error", "connect", "client_gone", "cancelled",
            "timeout"}

Interrupted == {"cancelled", "timeout"}

TypeOK ==
  /\ pc \in Phases
  /\ result \in Results
  /\ broken \in BOOLEAN /\ inTx \in BOOLEAN
  /\ registered \in BOOLEAN /\ token \in BOOLEAN /\ flag \in BOOLEAN
  /\ open \in BOOLEAN /\ asked \in BOOLEAN
  /\ running \in BOOLEAN /\ tx \in BOOLEAN
  /\ channel \in Seq(Events) /\ Len(channel) <= Capacity
  /\ client \in {"reading", "gone", "finished"}
  /\ seen \in {"nothing", "started", "in_result", "failed", "done", "end",
               "illegal"}
  /\ outcome \in {"none", "ok", "failed", "lost"}
  /\ conn \in {"in_use", "dead", "returned", "closed"}

\* Any transaction state may be inherited from earlier queries of a session.
Init ==
  /\ pc = "start" /\ result = "none" /\ broken = FALSE /\ inTx = FALSE
  /\ registered = TRUE /\ token = FALSE
  /\ tx \in {FALSE, InSession} /\ flag = tx
  /\ channel = <<>> /\ client = "reading" /\ seen = "nothing"
  /\ open = FALSE /\ asked = FALSE /\ running = FALSE /\ outcome = "none"
  /\ conn = "in_use"

-----------------------------------------------------------------------------
Goto(phase) == pc' = phase

Gone == client = "gone"

\* EventSink::send waits for room; after the client left it fails at once, and
\* drive ignores that.
Send(e) ==
  /\ Gone \/ Len(channel) < Capacity
  /\ channel' = IF Gone THEN channel ELSE Append(channel, e)
  /\ UNCHANGED <<client, seen>>

Start ==
  /\ pc = "start"
  /\ Send("started")
  /\ Goto("executing")
  /\ running' = (conn = "in_use")
  /\ UNCHANGED <<result, broken, inTx, apiVars, open, asked, outcome, tx, conn>>

-----------------------------------------------------------------------------
(* The driver's future *)

Polled == pc \in {"executing", "winding"}

\* ResultWriter closes the open result before it starts another or reports a
\* row count.
Emit(e) ==
  /\ Polled /\ ~Gone
  /\ e = "message" => Engine # "sqlite"
  /\ CASE e = "result_start"           -> ~open /\ open' = TRUE
       [] e = "result_end"             -> open /\ open' = FALSE
       [] e = "rows"                   -> open /\ UNCHANGED open
       [] e = "rows_affected"          -> ~open /\ UNCHANGED open
       [] e = "message"                -> UNCHANGED open
  /\ Send(e)
  /\ UNCHANGED <<driveVars, apiVars, dbVars>>

ScriptEvents ==
  {"result_start", "rows", "result_end", "rows_affected", "message"}

\* The future ends with r.  Once drive cancelled, only that it ended matters.
Conclude(r) ==
  /\ Polled
  /\ result' = IF pc = "executing" THEN r ELSE result
  /\ Goto("checking")
  /\ UNCHANGED <<broken, inTx, apiVars, streamVars, open, dbVars>>

\* Mutant: a script that succeeds leaves its last result open.
AnsweredOpen ==
  /\ outcome # "none"
  /\ Conclude(CASE outcome = "ok"     -> "ok"
                [] outcome = "failed" -> "db_error"
                [] outcome = "lost"   -> "connect")

\* The Postgres and SQL Server drivers close the open result first, also after
\* an error; the SQLite driver leaves it open when a step fails.
Answered ==
  /\ outcome # "none"
  /\ open => Engine = "sqlite" /\ outcome = "failed"
  /\ Conclude(CASE outcome = "ok"     -> "ok"
                [] outcome = "failed" -> "db_error"
                [] outcome = "lost"   -> "connect")

\* A send failed.  SQLite waits for its worker thread, ...
HungUp ==
  /\ Gone
  /\ Engine = "sqlite" => ~running
  /\ Conclude("client_gone")

\* ... which it interrupts.
InterruptWorker ==
  /\ Polled /\ Gone
  /\ Engine = "sqlite" /\ running /\ ~asked
  /\ asked' = TRUE
  /\ UNCHANGED <<driveVars, apiVars, streamVars, open, running, outcome, tx,
                 conn>>

-----------------------------------------------------------------------------
(* run_controlled *)

\* Drive stops polling the future to send a cancel request.
Stop(reason) ==
  /\ pc = "executing"
  /\ result' = reason
  /\ Goto("cancelling")
  /\ UNCHANGED <<broken, inTx, apiVars, streamVars, open, dbVars>>

SeeCancel == token /\ Stop("cancelled")

\* Mutant: the deadline is not watched.
SeeDeadlineNever == FALSE /\ Stop("timeout")

SeeDeadline == Timed /\ Stop("timeout")

CancelSent ==
  /\ pc = "cancelling"
  /\ Goto("winding")
  /\ asked' = TRUE
  /\ UNCHANGED <<result, broken, inTx, apiVars, streamVars, open, running,
                 outcome, tx, conn>>

CancelUnsent ==
  /\ pc = "cancelling"
  /\ Engine # "sqlite"
  /\ Goto("checking")
  /\ broken' = TRUE
  /\ UNCHANGED <<result, inTx, apiVars, streamVars, open, dbVars>>

\* CANCEL_GRACE passes and the future is dropped.
GraceExpires ==
  /\ pc = "winding"
  /\ Goto("checking")
  /\ broken' = TRUE
  /\ UNCHANGED <<result, inTx, apiVars, streamVars, open, dbVars>>

-----------------------------------------------------------------------------
(* drive, after the script *)

Idle == conn = "in_use" /\ ~running

\* The ping after an interrupt, which SQLite always answers.
Check ==
  /\ pc = "checking"
  /\ \/ /\ result \in Interrupted /\ ~broken
        /\ broken' \in IF Engine = "sqlite" THEN {FALSE}
                       ELSE IF Idle THEN BOOLEAN ELSE {TRUE}
     \/ /\ ~(result \in Interrupted /\ ~broken)
        /\ broken' = (broken \/ result = "connect")
  /\ Goto("asking")
  /\ UNCHANGED <<result, inTx, apiVars, streamVars, open, dbVars>>

\* Mutant: no answer counts as no transaction.
AskTransactionTrusting ==
  /\ pc = "asking"
  /\ \/ ~broken /\ Idle /\ inTx' = tx
     \/ inTx' = FALSE
  /\ Goto("reporting")
  /\ UNCHANGED <<broken, result, apiVars, streamVars, open, dbVars>>

\* in_transaction answers only after the script stopped, and within 3 s.
AskTransaction ==
  /\ pc = "asking"
  /\ \/ ~broken /\ Idle /\ inTx' = tx /\ UNCHANGED broken
     \/ inTx' = FALSE /\ broken' = TRUE
  /\ Goto("reporting")
  /\ UNCHANGED <<result, apiVars, streamVars, open, dbVars>>

Report ==
  /\ pc = "reporting"
  /\ IF result \in {"ok", "client_gone"} THEN UNCHANGED streamVars
     ELSE Send("error")
  /\ Goto("settling")
  /\ UNCHANGED <<result, broken, inTx, apiVars, open, dbVars>>

SettlePooled ==
  /\ pc = "settling" /\ ~InSession
  /\ broken' = (broken \/ inTx)
  /\ IF inTx THEN Send("message") ELSE UNCHANGED streamVars
  /\ Goto("finishing")
  /\ UNCHANGED <<result, inTx, apiVars, open, dbVars>>

\* A broken session loses its connection before the message is sent ...
LoseSession ==
  /\ pc = "settling" /\ InSession
  /\ broken /\ conn # "closed"
  /\ conn' = "closed"
  /\ UNCHANGED <<driveVars, apiVars, streamVars, open, asked, running, outcome,
                 tx>>

\* Mutant: a lost connection leaves the flag as it was.
SettleSessionStale ==
  /\ pc = "settling" /\ InSession
  /\ IF broken THEN conn = "closed" /\ Send("message") ELSE UNCHANGED streamVars
  /\ flag' = IF broken THEN flag ELSE inTx
  /\ Goto("finishing")
  /\ UNCHANGED <<result, broken, inTx, registered, token, open, dbVars>>

\* ... and its in_transaction flag is set after.
SettleSession ==
  /\ pc = "settling" /\ InSession
  /\ IF broken THEN conn = "closed" /\ Send("message") ELSE UNCHANGED streamVars
  /\ flag' = inTx
  /\ Goto("finishing")
  /\ UNCHANGED <<result, broken, inTx, registered, token, open, dbVars>>

Finish ==
  /\ pc = "finishing"
  /\ Send("done")
  /\ Goto("unregister")
  /\ UNCHANGED <<result, broken, inTx, apiVars, open, dbVars>>

Unregister ==
  /\ pc = "unregister"
  /\ registered' = FALSE
  /\ Goto("closing")
  /\ UNCHANGED <<result, broken, inTx, token, flag, streamVars, open, dbVars>>

\* The audit record is written, then the stream ends.
CloseStream ==
  /\ pc = "closing"
  /\ Goto("returning")
  /\ UNCHANGED <<result, broken, inTx, apiVars, streamVars, open, dbVars>>

\* A pooled connection is discarded or handed to reset_and_release; a
\* session's goes with the guard.
HandBack ==
  /\ pc = "returning"
  /\ conn' = CASE InSession           -> conn
               [] ~InSession /\ broken -> "closed"
               [] OTHER                -> "returned"
  /\ Goto("over")
  /\ UNCHANGED <<result, broken, inTx, apiVars, streamVars, open, asked,
                 running, outcome, tx>>

-----------------------------------------------------------------------------
(* The database *)

\* The script ends, by itself or because it was cancelled.
ScriptEnds ==
  /\ running
  /\ running' = FALSE
  /\ outcome' \in {"ok", "failed"}
  /\ tx' \in BOOLEAN
  /\ UNCHANGED <<driveVars, apiVars, streamVars, open, asked, conn>>

\* The connection dies, which a KILL does to it.
Die ==
  /\ conn = "in_use" /\ Engine # "sqlite"
  /\ conn' = "dead"
  /\ running' = FALSE
  /\ tx' = FALSE
  /\ outcome' \in IF outcome = "none" THEN {"failed", "lost"} ELSE {outcome}
  /\ UNCHANGED <<driveVars, apiVars, streamVars, open, asked>>

-----------------------------------------------------------------------------
(* The client and other requests *)

\* How an event moves the client on in the grammar.
After(e) ==
  CASE e = "started" /\ seen = "nothing"                          -> "started"
    [] e = "result_start" /\ seen = "started"                     -> "in_result"
    [] e = "rows" /\ seen = "in_result"                           -> "in_result"
    [] e = "result_end" /\ seen = "in_result"                     -> "started"
    [] e = "rows_affected" /\ seen = "started"                    -> "started"
    [] e = "message" /\ seen \in {"started", "in_result", "failed"} -> seen
    [] e = "error" /\ seen \in {"started", "in_result"}           -> "failed"
    [] e = "done" /\ seen \in {"started", "failed"}               -> "done"
    [] OTHER                                                      -> "illegal"

Read ==
  /\ client = "reading" /\ channel # <<>>
  /\ seen' = After(Head(channel))
  /\ channel' = Tail(channel)
  /\ UNCHANGED <<driveVars, apiVars, client, open, dbVars>>

ReadEnd ==
  /\ client = "reading" /\ channel = <<>>
  /\ pc \in {"returning", "over"}
  /\ client' = "finished"
  /\ seen' = IF seen = "done" THEN "end" ELSE "illegal"
  /\ UNCHANGED <<driveVars, apiVars, channel, open, dbVars>>

\* Drops the response body, and the receiving end of the channel with it.
HangUp ==
  /\ client = "reading"
  /\ client' = "gone"
  /\ channel' = <<>>
  /\ UNCHANGED <<driveVars, apiVars, seen, open, dbVars>>

\* DELETE /v1/queries/{id} answers 202 while the id is registered.
Cancel ==
  /\ registered /\ ~token
  /\ token' = TRUE
  /\ UNCHANGED <<driveVars, registered, flag, streamVars, open, dbVars>>

Execute ==
  (\E e \in ScriptEvents : Emit(e)) \/ Answered \/ HungUp \/ InterruptWorker

Control ==
  \/ SeeCancel \/ SeeDeadline
  \/ CancelSent \/ CancelUnsent \/ GraceExpires

WindUp ==
  \/ Check \/ AskTransaction \/ Report \/ SettlePooled \/ LoseSession
  \/ SettleSession \/ Finish \/ Unregister \/ CloseStream \/ HandBack

Next ==
  \/ Start \/ Execute \/ Control \/ WindUp
  \/ ScriptEnds \/ Die
  \/ Read \/ ReadEnd \/ HangUp \/ Cancel

Spec == Init /\ [][Next]_vars

\* The service polls the task, its timers and tokens fire, and the canceller
\* returns.  Nothing is assumed of the database.
ServiceFairness ==
  /\ WF_vars(Start) /\ WF_vars(WindUp)
  /\ WF_vars(Control)
  /\ WF_vars(SeeCancel) /\ WF_vars(SeeDeadline) /\ WF_vars(GraceExpires)

ServiceSpec == Spec /\ ServiceFairness

\* With a client that reads on until it hangs up.
FairSpec == ServiceSpec /\ WF_vars(Read \/ ReadEnd)

-----------------------------------------------------------------------------
(* Properties *)

\* What the query leaves for others to use, a pooled connection or that of its
\* session, executes nothing any more; and no transaction of the script's is
\* open on what goes back to the pool (the ping, in_transaction and `broken` of
\* drive, whatever was cancelled, cut off or lost meanwhile).
LeavesNothingRunning ==
  pc = "over" /\ conn # "closed" =>
    /\ ~running
    /\ ~InSession => ~tx

\* After a query, its session says whether a transaction is open on its
\* connection, and that none is when the connection is gone.
FlagIsTrue ==
  pc = "over" /\ InSession /\ conn # "dead" =>
    (flag <=> conn = "in_use" /\ tx)

\* A query that has a deadline or was cancelled comes to an end, and with it
\* its connection, permit or session, even if the database never answers.
Ends == (pc # "over" /\ (Timed \/ token)) ~> (pc = "over")

\* The client reads a stream of the documented form, with exactly one `done`
\* at its end (docs/api.md, "Order").
Stream == INSTANCE EventStream

StreamSpec == Stream!Spec

\* "Closing the HTTP connection stops the query too: the service notices when
\* it can no longer deliver events" (docs/api.md, "Cancel"): a script that
\* still runs when drive notices is at least asked to stop.
GoneIsStopped == (result = "client_gone") ~> (~running \/ asked)

\* `result_start`, `rows`, `result_end` for each statement: a result set that
\* was started is ended before the `error` that stopped its script.
ResultsAreEnded == [][seen = "in_result" => seen' # "failed"]_seen

=============================================================================
