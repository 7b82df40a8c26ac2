-------------------------------- MODULE Tab --------------------------------
(***************************************************************************)
(* One editor tab of sqail-ui and its runs (run_sql, explain, close_tab and *)
(* the messages handled in app.rs): the UI thread, which never waits, the  *)
(* task of each run, which opens a session when the tab has none, sends    *)
(* BEGIN for a tab without auto-commit, runs the script and retries once   *)
(* when the session is gone, and the sessions of the service.              *)
(*                                                                         *)
(* Tasks talk to the UI thread through one channel.  A run ends for the    *)
(* tab with the message that says so; its task may still have more to say, *)
(* and the session may still be locked, when the user starts the next.     *)
(* The tab drops its session without closing it wherever the code does.    *)
(***************************************************************************)
EXTENDS Integers, Sequences

CONSTANTS
  Connections,  \* profiles the tab can be switched to
  Home,         \* the one it starts with
  MaxSessions,  \* bound: how many sessions the service opens
  MaxRuns       \* bound: how often the user runs or explains something

ASSUME TabAssumption ==
  /\ MaxSessions \in Nat
  /\ Home \in Connections
  /\ MaxRuns \in Nat

VARIABLES
  alive,          \* the tab is open
  connection,     \* tab.connection
  autocommit,     \* tab.autocommit
  in_transaction, \* tab.in_transaction
  session,        \* tab.session
  run,            \* the id of tab.run, 0 without one
  running,        \* tab.run.running
  asking,         \* the dialog that is shown: about an open transaction, about
                  \* unsaved changes
  agreed,         \* history: the session the user agreed to roll back
  closing,        \* the session a closed tab still has to close
  inbox,          \* messages on their way to the UI thread
  pc,             \* where the task of each run is
  asked,          \* what each run was asked to do
  at,             \* the session it works on
  retried,        \* it is in its second attempt
  ran,            \* how often its script was started
  served,         \* the service's sessions
  of,             \* the connection of each
  tx,             \* a transaction is open on it
  locked,         \* its connection is in use
  strays          \* history: the sessions in which an explain left its own
                  \* transaction open

uiVars == <<alive, connection, autocommit, in_transaction, session, run,
            running, asking, agreed, closing>>
dialogVars == <<asking, agreed>>
taskVars == <<pc, asked, at, retried, ran>>
serviceVars == <<served, of, tx, locked, strays>>
vars == <<uiVars, inbox, taskVars, serviceVars>>

Runs == 1 .. MaxRuns

Sessions == 1 .. MaxSessions

NoSession == 0

\* A script works within the transaction state it finds, or controls it as
\* Commit, Rollback and a script's own BEGIN do; explain runs none.
Kinds == {"work", "control", "explain"}

Task == [kind : Kinds, on : Connections, begin : BOOLEAN, manual : BOOLEAN]

Nothing == [kind |-> "work", on |-> Home, begin |-> FALSE, manual |-> FALSE]

Message == [what : {"session", "done", "failed", "plan"}, run : Runs,
            session : Sessions \cup {NoSession}, tx : BOOLEAN]

TypeOK ==
  /\ alive \in BOOLEAN /\ autocommit \in BOOLEAN /\ running \in BOOLEAN
  /\ in_transaction \in BOOLEAN
  /\ asking \in {"no", "transaction", "changes"}
  /\ agreed \in Sessions \cup {NoSession}
  /\ connection \in Connections
  /\ session \in Sessions \cup {NoSession}
  /\ closing \in Sessions \cup {NoSession}
  /\ run \in 0 .. MaxRuns
  /\ inbox \in Seq(Message)
  /\ pc \in [Runs -> {"none", "opening", "begin", "query", "executing", "tail",
                      "explaining", "over"}]
  /\ asked \in [Runs -> Task]
  /\ at \in [Runs -> Sessions \cup {NoSession}]
  /\ retried \in [Runs -> BOOLEAN]
  /\ ran \in [Runs -> 0 .. 2]
  /\ served \in [Sessions -> {"unborn", "open", "gone"}]
  /\ of \in [Sessions -> Connections]
  /\ tx \in [Sessions -> BOOLEAN]
  /\ locked \in [Sessions -> BOOLEAN]
  /\ strays \subseteq Sessions
  /\ \A r \in Runs : pc[r] \in {"begin", "query", "executing", "tail"} =>
       at[r] \in Sessions

Init ==
  /\ alive = TRUE /\ autocommit = TRUE /\ in_transaction = FALSE
  /\ connection = Home
  /\ session = NoSession /\ closing = NoSession
  /\ run = 0 /\ running = FALSE /\ asking = "no"
  /\ agreed = NoSession
  /\ inbox = <<>>
  /\ pc = [r \in Runs |-> "none"]
  /\ asked = [r \in Runs |-> Nothing]
  /\ at = [r \in Runs |-> NoSession]
  /\ retried = [r \in Runs |-> FALSE]
  /\ ran = [r \in Runs |-> 0]
  /\ served = [s \in Sessions |-> "unborn"]
  /\ of = [s \in Sessions |-> Home]
  /\ tx = [s \in Sessions |-> FALSE]
  /\ locked = [s \in Sessions |-> FALSE]
  /\ strays = {}

-----------------------------------------------------------------------------
(* The user *)

\* Modal dialogs take the input.
CanAct == alive /\ asking = "no"

\* Mutant: the tab's session whatever its connection.
OwnSessionAny == session

\* The tab's session, if it is one of the chosen connection.
OwnSession ==
  IF session # NoSession /\ of[session] = connection THEN session ELSE NoSession

Begin(kind, phase) ==
  /\ CanAct /\ ~running /\ run < MaxRuns
  /\ run' = run + 1
  /\ running' = TRUE
  /\ pc' = [pc EXCEPT ![run'] = phase]
  /\ asked' = [asked EXCEPT ![run'] =
                 [kind |-> kind, on |-> connection, manual |-> ~autocommit,
                  begin |-> kind # "explain" /\ ~autocommit /\ ~in_transaction]]
  /\ at' = [at EXCEPT ![run'] = OwnSession]
  /\ UNCHANGED <<alive, connection, autocommit, in_transaction, session, dialogVars,
                 closing, inbox, retried, ran, serviceVars>>

RunSql(kind) ==
  Begin(kind, IF OwnSession = NoSession THEN "opening"
              ELSE IF ~autocommit /\ ~in_transaction THEN "begin"
              ELSE "query")

Explain == Begin("explain", "explaining")

ChooseConnection(c) ==
  /\ CanAct /\ c # connection
  /\ connection' = c
  /\ session' = NoSession
  /\ UNCHANGED <<alive, autocommit, in_transaction, run, running, dialogVars,
                 closing, inbox, taskVars, serviceVars>>

ToggleAutocommit ==
  /\ CanAct /\ run < MaxRuns
  /\ autocommit' = ~autocommit
  /\ UNCHANGED <<alive, connection, in_transaction, session, run, running,
                 dialogVars, closing, inbox, taskVars, serviceVars>>

\* close_tab; a run whose query id is known is cancelled, which ends it as the
\* database likes.  Nothing is left of the tab.
CloseTab ==
  /\ alive' = FALSE
  /\ closing' = session
  /\ connection' = Home /\ autocommit' = TRUE /\ in_transaction' = FALSE
  /\ session' = NoSession /\ run' = 0 /\ running' = FALSE
  /\ asking' = "no" /\ agreed' = NoSession
  /\ UNCHANGED <<inbox, taskVars, serviceVars>>

Ask(about) ==
  /\ asking' = about
  /\ UNCHANGED <<alive, connection, autocommit, session, run, running, closing, inbox, taskVars, serviceVars>>

\* request_close_tab.
RequestClose ==
  /\ CanAct
  /\ \/ ~in_transaction /\ CloseTab
     \/ /\ Ask(IF in_transaction THEN "transaction" ELSE "changes")
        /\ UNCHANGED <<in_transaction, agreed>>

\* "Roll back and close": the flag is cleared and the close requested again.
AgreeToRollBack ==
  /\ alive /\ asking = "transaction"
  /\ \/ CloseTab
     \/ /\ Ask("changes")
        /\ in_transaction' = FALSE
        /\ agreed' = session

\* Discard, or Save: a save is taken to end at once.
CloseUnsaved == alive /\ asking = "changes" /\ CloseTab

CancelClose ==
  /\ alive /\ asking # "no"
  /\ Ask("no")
  /\ UNCHANGED <<in_transaction, agreed>>

-----------------------------------------------------------------------------
(* The task of a run *)

Tell(r, what, s, open) ==
  inbox' = Append(inbox, [what |-> what, run |-> r, session |-> s, tx |-> open])

\* The task ends, and its locals with it.
Over(r) ==
  /\ pc' = [pc EXCEPT ![r] = "over"]
  /\ asked' = [asked EXCEPT ![r] = Nothing]
  /\ at' = [at EXCEPT ![r] = NoSession]
  /\ retried' = [retried EXCEPT ![r] = FALSE]

Goto(r, phase) ==
  /\ pc' = [pc EXCEPT ![r] = phase]
  /\ UNCHANGED <<asked, at, retried>>

Fail(r) == Tell(r, "failed", NoSession, FALSE) /\ Over(r)

FirstRequest(r) == IF asked[r].begin THEN "begin" ELSE "query"

\* POST /v1/sessions.
OpenSession(r, s) ==
  /\ pc[r] = "opening"
  /\ served[s] = "unborn" /\ \A t \in 1 .. s - 1 : served[t] # "unborn"
  /\ served' = [served EXCEPT ![s] = "open"]
  /\ of' = [of EXCEPT ![s] = asked[r].on]
  /\ \/ /\ Tell(r, "session", s, FALSE)
        /\ at' = [at EXCEPT ![r] = s]
        /\ pc' = [pc EXCEPT ![r] = FirstRequest(r)]
        /\ UNCHANGED <<asked, retried>>
     \/ Fail(r)   \* the answer is lost
  /\ UNCHANGED <<uiVars, ran, tx, locked, strays>>

\* Mutant: returns without a message.
OpenFailsQuietly(r) ==
  /\ pc[r] = "opening"
  /\ Over(r)
  /\ UNCHANGED <<uiVars, inbox, ran, serviceVars>>

OpenFails(r) ==
  /\ pc[r] = "opening"
  /\ Fail(r)
  /\ UNCHANGED <<uiVars, ran, serviceVars>>

Requesting(r) == pc[r] \in {"begin", "query"}

Ready(s) == served[s] = "open" /\ ~locked[s]

\* BEGIN takes effect; its answer may be lost, and the lock may outlast it.
SendBegin(r) ==
  /\ pc[r] = "begin"
  /\ Ready(at[r])
  /\ tx' = [tx EXCEPT ![at[r]] = TRUE]
  /\ locked' \in {locked, [locked EXCEPT ![at[r]] = TRUE]}
  /\ \/ Goto(r, "query") /\ UNCHANGED inbox
     \/ Fail(r)
  /\ UNCHANGED <<uiVars, ran, served, of, strays>>

Retry(r) ==
  /\ retried' = [retried EXCEPT ![r] = TRUE]
  /\ at' = [at EXCEPT ![r] = NoSession]
  /\ pc' = [pc EXCEPT ![r] = "opening"]
  /\ UNCHANGED <<asked, inbox>>

\* is_session_gone: 404, or 409 from a session that lost its connection.  One
\* retry, in a new session.
SessionGone(r) ==
  /\ Requesting(r)
  /\ served[at[r]] = "gone"
  /\ \/ ~retried[r] /\ Retry(r)
     \/ retried[r] /\ Fail(r)
  /\ UNCHANGED <<uiVars, ran, serviceVars>>

\* The session is busy, the request is refused or does not get through.
RequestFails(r) ==
  /\ Requesting(r)
  /\ Fail(r)
  /\ UNCHANGED <<uiVars, ran, serviceVars>>

Start(r) ==
  /\ pc[r] = "query"
  /\ Ready(at[r])
  /\ Goto(r, "executing")
  /\ locked' = [locked EXCEPT ![at[r]] = TRUE]
  /\ ran' = [ran EXCEPT ![r] = @ + 1]
  /\ UNCHANGED <<uiVars, inbox, served, of, tx, strays>>

\* What a script makes of the transaction state; an error may end one.
Outcomes(r) ==
  IF asked[r].kind = "control" THEN BOOLEAN ELSE {tx[at[r]], FALSE}

LeaveOpen(s, open) == tx' = [tx EXCEPT ![s] = open /\ served[s] = "open"]

\* The stream brings `done`, with the connection kept or lost.
Finish(r) ==
  /\ pc[r] = "executing"
  /\ Goto(r, "tail")
  /\ \/ \E open \in Outcomes(r) :
          /\ LeaveOpen(at[r], open)
          /\ Tell(r, "done", NoSession, open)
          /\ UNCHANGED served
     \/ /\ LeaveOpen(at[r], FALSE)
        /\ Tell(r, "done", NoSession, FALSE)
        /\ served' = [served EXCEPT ![at[r]] = "gone"]
  /\ locked' = [locked EXCEPT ![at[r]] = served'[at[r]] = "open"]
  /\ strays' = strays \ {at[r]}
  /\ UNCHANGED <<uiVars, ran, of>>

\* Mutant: a broken stream is taken for a lost session.
BreakRetried(r) ==
  /\ pc[r] = "executing"
  /\ \E open \in Outcomes(r) \cup {tx[at[r]]} : LeaveOpen(at[r], open)
  /\ \/ ~retried[r] /\ Retry(r)
     \/ retried[r] /\ Fail(r)
  /\ UNCHANGED <<uiVars, ran, served, of, locked, strays>>

\* The stream, or the answer that should start it, breaks off.
Break(r) ==
  /\ pc[r] = "executing"
  /\ \E open \in Outcomes(r) \cup {tx[at[r]]} : LeaveOpen(at[r], open)
  /\ Fail(r)
  /\ UNCHANGED <<uiVars, ran, served, of, locked, strays>>

\* After `done` the stream ends, or breaks off.
EndOfStream(r) ==
  /\ pc[r] = "tail"
  /\ \/ Over(r) /\ UNCHANGED inbox
     \/ Fail(r)
  /\ UNCHANGED <<uiVars, ran, serviceVars>>

\* On the tab's session, or on a pooled connection.  Analyze works in a
\* transaction and rolls it back, and the one it found with it; but it leaves
\* its own open when SET STATISTICS XML fails after BEGIN TRANSACTION (SQL
\* Server), when the ROLLBACK fails, which is ignored, or when the request is
\* dropped before it.  A call that has to be cut off costs the session its
\* connection.  All of it ends before the next statement of the connection.
Explained(r) ==
  /\ pc[r] = "explaining"
  /\ Over(r)
  /\ Tell(r, "plan", NoSession, FALSE)
  /\ \/ UNCHANGED <<tx, served, strays>>
     \/ /\ at[r] # NoSession /\ Ready(at[r])
        /\ served' \in {served, [served EXCEPT ![at[r]] = "gone"]}
        /\ \E open \in BOOLEAN :
             tx' = [tx EXCEPT ![at[r]] = open /\ served'[at[r]] = "open"]
        /\ strays' = {s \in strays \cup {at[r]} :
                       tx'[s] /\ (s \in strays \/ ~tx[s])}
  /\ UNCHANGED <<uiVars, ran, of, locked>>

TaskStep(r) ==
  \/ \E s \in Sessions : OpenSession(r, s)
  \/ OpenFails(r) \/ SendBegin(r) \/ SessionGone(r) \/ RequestFails(r)
  \/ Start(r) \/ Finish(r) \/ Break(r) \/ EndOfStream(r) \/ Explained(r)

-----------------------------------------------------------------------------
(* The UI thread takes a message *)

SessionOpened(m) ==
  /\ m.what = "session"
  /\ session' = m.session
  /\ UNCHANGED <<in_transaction, running, agreed>>

QueryDone(m) ==
  /\ m.what = "done"
  /\ \/ /\ m.run = run
        /\ running' = FALSE
        /\ in_transaction' = m.tx
        /\ agreed' = NoSession
     \/ m.run # run /\ UNCHANGED <<running, in_transaction, agreed>>
  /\ UNCHANGED session

\* Mutant: keeps the session.
QueryFailedKeeping(m) ==
  /\ m.what = "failed"
  /\ running' = (running /\ m.run # run)
  /\ UNCHANGED <<session, in_transaction, agreed>>

\* "The session may be broken; start fresh next time."
QueryFailed(m) ==
  /\ m.what = "failed"
  /\ session' = NoSession
  /\ running' = (running /\ m.run # run)
  /\ UNCHANGED <<in_transaction, agreed>>

PlanReady(m) ==
  /\ m.what = "plan"
  /\ running' = (running /\ m.run # run)
  /\ UNCHANGED <<session, in_transaction, agreed>>

Handle ==
  /\ inbox # <<>>
  /\ inbox' = Tail(inbox)
  /\ LET m == Head(inbox)
     IN  \/ alive /\ (SessionOpened(m) \/ QueryDone(m) \/ QueryFailed(m)
                      \/ PlanReady(m))
         \/ ~alive /\ UNCHANGED <<session, in_transaction, running, agreed>>
  /\ UNCHANGED <<alive, connection, autocommit, run, asking, closing, taskVars,
                 serviceVars>>

-----------------------------------------------------------------------------
(* The service *)

\* The last query's task lets go of the session's connection.
Unlock(s) ==
  /\ locked[s]
  /\ \A r \in Runs : at[r] = s => pc[r] # "executing"
  /\ locked' = [locked EXCEPT ![s] = FALSE]
  /\ UNCHANGED <<uiVars, inbox, taskVars, served, of, tx, strays>>

\* A session that is closed rolls back.
Remove(s) ==
  /\ served' = [served EXCEPT ![s] = "gone"]
  /\ tx' = [tx EXCEPT ![s] = FALSE]
  /\ locked' = [locked EXCEPT ![s] = FALSE]
  /\ strays' = strays \ {s}
  /\ UNCHANGED <<inbox, taskVars, of>>

\* The reaper, or a restart of the service.
Expire(s) ==
  /\ served[s] = "open" /\ ~locked[s]
  /\ Remove(s)
  /\ UNCHANGED uiVars

\* The closed tab's DELETE arrives.
CloseArrives ==
  /\ closing # NoSession
  /\ closing' = NoSession
  /\ Remove(closing)
  /\ UNCHANGED <<alive, connection, autocommit, in_transaction, session, run,
                 running, dialogVars>>

User ==
  \/ RunSql("work") \/ RunSql("control")
  \/ Explain \/ ToggleAutocommit \/ (\E c \in Connections : ChooseConnection(c))
  \/ RequestClose \/ AgreeToRollBack \/ CloseUnsaved \/ CancelClose

Service == (\E s \in Sessions : Unlock(s) \/ Expire(s)) \/ CloseArrives

Next == User \/ (\E r \in Runs : TaskStep(r)) \/ Handle \/ Service

Spec == Init /\ [][Next]_vars

\* Tasks and the UI thread go on; requests are answered, or fail.  That some of
\* them goes on is enough, since each ends after a few steps.
FairSpec == Spec /\ WF_vars(Handle \/ \E r \in Runs : TaskStep(r))

-----------------------------------------------------------------------------
(* Properties *)

\* A script runs once: a run is only repeated when the service refused it
\* before it started anything (run_sql, is_session_gone).
RunsOnce == \A r \in Runs : ran[r] <= 1

\* A script runs on the connection the tab showed when the user started it,
\* and after the BEGIN that run_sql decided to send, in the same session,
\* whatever happened to sessions and to the tab meanwhile.
RunsAsAsked ==
  [][\A r \in Runs : ran'[r] > ran[r] =>
       /\ of[at[r]] = asked[r].on
       /\ asked[r].begin => tx[at[r]]]_vars

\* A tab at rest that shows no open transaction has none in its session that a
\* script of a run began or found, however runs fail, sessions go and messages
\* come late (in_transaction).  Two exceptions: one that the user agreed to roll
\* back and then kept with the tab, so that closing it without a question rolls
\* nothing else back (request_close_tab), and one that an explain left open.
ScriptTransactionShows ==
  ~running /\ session # NoSession /\ served[session] = "open" /\ tx[session]
    => in_transaction \/ agreed = session \/ session \in strays

\* A run ends, and the tab can run again, however it goes: no path of the task
\* and no message filter leaves the tab running (run_sql, explain, handle).
\* The task says nothing when a stream ends cleanly without `done`; the service
\* promises that none does (docs/api.md, EventStream).
RunEnds == running ~> ~running \/ ~alive

\* "The status bar shows *in transaction* while one is open"
\* (docs/user-guide.md): at rest, and unless the user agreed to roll it back.
NoHiddenTransaction ==
  ~running /\ session # NoSession /\ served[session] = "open" /\ tx[session]
    => in_transaction \/ agreed = session

\* "sqail sends BEGIN before the next run whenever no transaction is open"
\* (docs/user-guide.md): without auto-commit, a script runs in a transaction.
ManualRunsInTransaction ==
  [][\A r \in Runs : ran'[r] > ran[r] /\ asked[r].manual => tx[at[r]]]_vars

\* "A tab with an open transaction always asks, because closing it rolls the
\* transaction back" (docs/user-guide.md).
OpenTransactionAsks ==
  [][alive /\ ~alive' /\ session # NoSession /\ tx[session]
       => asking = "transaction" \/ agreed = session]_vars

=============================================================================
