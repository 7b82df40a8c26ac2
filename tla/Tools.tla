------------------------------- MODULE Tools -------------------------------
(***************************************************************************)
(* sqail mcp, the tool server an assistant's CLI starts: ServiceBackend in *)
(* assistant/mcp.rs, and the one session it has with the service.  Calls   *)
(* are handled one after the other (serve).  A query is three requests,    *)
(* BEGIN, the statement and ROLLBACK, of which each may fail, be refused   *)
(* or lose its answer; the session may end, the process be killed.         *)
(***************************************************************************)
EXTENDS Integers

CONSTANT
  MaxCalls  \* bound: calls of run_query

ASSUME ToolsAssumption == MaxCalls \in Nat

VARIABLES
  pc,         \* where the server is
  call,       \* the call it handles, or handled last
  ask,        \* the request it is at
  result,     \* how the statement of the call went
  verdict,    \* what the call was answered
  cached,     \* it keeps a session
  reply,      \* what the service answered
  session,    \* the session, at the service
  running,    \* what runs on it
  tx,         \* the call whose BEGIN opened the transaction there is, or 0
  committed   \* calls whose statement took effect for good

serverVars == <<pc, call, ask, result, verdict, cached>>
serviceVars == <<session, running, tx, committed>>
vars == <<serverVars, reply, serviceVars>>

Requests == {"BEGIN", "statement", "ROLLBACK"}
Idle == [what |-> "none", of |-> 0]

\* Type correctness.
TypeOK ==
  /\ pc \in {"idle", "opening", "sending", "waiting", "closing", "over"}
  /\ call \in 0 .. MaxCalls
  /\ ask \in Requests
  /\ result \in {"none", "ok", "err"}
  /\ verdict \in {"none", "ok", "err"}
  /\ cached \in BOOLEAN
  /\ reply \in {"none", "ok", "err"}
  /\ session \in {"none", "open", "lost", "gone"}
  /\ running \in {Idle} \cup [what : Requests, of : 1 .. call]
  /\ tx \in 0 .. call
  /\ committed \subseteq 1 .. call

Init ==
  /\ pc = "idle"
  /\ call = 0
  /\ ask = "BEGIN"
  /\ result = "none"
  /\ verdict = "none"
  /\ cached = FALSE
  /\ reply = "none"
  /\ session = "none"
  /\ running = Idle
  /\ tx = 0
  /\ committed = {}

-----------------------------------------------------------------------------
(* The server *)

\* call_tool, for run_query; the session is opened by the first.
Call ==
  /\ pc = "idle" /\ call < MaxCalls
  /\ call' = call + 1
  /\ pc' = IF cached THEN "sending" ELSE "opening"
  /\ ask' = "BEGIN"
  /\ result' = "none"
  /\ verdict' = "none"
  /\ UNCHANGED <<cached, reply, serviceVars>>

Reply(v) == pc' = "idle" /\ verdict' = v /\ UNCHANGED <<ask, result>>

\* open_session.  One whose answer was lost stays idle until it is reaped.
OpenSession ==
  /\ pc = "opening"
  /\ \/ /\ session' = "open" /\ cached' = TRUE
        /\ pc' = "sending"
        /\ UNCHANGED <<ask, result, verdict>>
     \/ Reply("err") /\ UNCHANGED <<cached, session>>
  /\ UNCHANGED <<call, reply, running, tx, committed>>

\* The rest of query, after its request came back with r.
Then(request) ==
  pc' = "sending" /\ ask' = request /\ UNCHANGED verdict

\* Mutant: BEGIN's answer is not looked at.
ContinueAnyway(r) ==
  \/ ask = "BEGIN" /\ Then("statement") /\ UNCHANGED result
  \/ ask = "statement" /\ Then("ROLLBACK") /\ result' = r
  \/ ask = "ROLLBACK" /\ Reply(IF r = "ok" THEN result ELSE "err")

\* Mutant: ROLLBACK's answer is not looked at.
ContinueUndone(r) ==
  \/ ask = "BEGIN" /\ r = "err" /\ Reply("err")
  \/ ask = "BEGIN" /\ r = "ok" /\ Then("statement") /\ UNCHANGED result
  \/ ask = "statement" /\ Then("ROLLBACK") /\ result' = r
  \/ ask = "ROLLBACK" /\ Reply(result)

\* Without a BEGIN nothing is sent; ROLLBACK is, whatever the statement did.
Continue(r) ==
  \/ ask = "BEGIN" /\ r = "err" /\ Reply("err")
  \/ ask = "BEGIN" /\ r = "ok" /\ Then("statement") /\ UNCHANGED result
  \/ ask = "statement" /\ Then("ROLLBACK") /\ result' = r
  \/ ask = "ROLLBACK" /\ Reply(IF r = "ok" THEN result ELSE "err")

\* session_run takes the session.
Send ==
  /\ pc = "sending"
  /\ session = "open" /\ running = Idle
  /\ running' = [what |-> ask, of |-> call]
  /\ pc' = "waiting"
  /\ reply' = "none"
  /\ UNCHANGED <<call, ask, result, verdict, cached, session, tx, committed>>

\* It answers with a problem, for one that the session is busy or was lost,
\* which removes it; or the request does not arrive.
Refused ==
  /\ pc = "sending"
  /\ Continue("err")
  /\ session' \in {session, IF session = "lost" THEN "gone" ELSE session}
  /\ UNCHANGED <<call, cached, reply, running, tx, committed>>

Answer ==
  /\ pc = "waiting" /\ reply # "none"
  /\ Continue(reply)
  /\ UNCHANGED <<call, cached, reply, serviceVars>>

\* The response breaks off, whatever the session is doing.
LoseAnswer ==
  /\ pc = "waiting"
  /\ Continue("err")
  /\ UNCHANGED <<call, cached, reply, serviceVars>>

\* serve ends with its input; run_from_env then closes the session.
EndOfInput ==
  /\ pc = "idle"
  /\ pc' = IF cached THEN "closing" ELSE "over"
  /\ cached' = FALSE
  /\ UNCHANGED <<call, ask, result, verdict, reply, serviceVars>>

Close ==
  /\ pc = "closing"
  /\ pc' = "over"
  /\ session' \in {session, "gone"}
  /\ UNCHANGED <<call, ask, result, verdict, cached, reply, running, tx,
                 committed>>

\* With its CLI.
Killed ==
  /\ pc # "over"
  /\ pc' = "over"
  /\ UNCHANGED <<call, ask, result, verdict, cached, reply, serviceVars>>

-----------------------------------------------------------------------------
(* The service and the database *)

\* The request that runs ends with r.  A BEGIN inside a transaction is an
\* error of SQLite, and a warning or a nested one elsewhere; a statement
\* outside of any is for good.
Executes(r) ==
  CASE running.what = "BEGIN" ->
         /\ tx' = IF r = "ok" /\ tx = 0 THEN running.of ELSE tx
         /\ UNCHANGED committed
    [] running.what = "ROLLBACK" ->
         /\ tx' = IF r = "ok" THEN 0 ELSE tx
         /\ UNCHANGED committed
    [] OTHER ->
         /\ committed' = IF r = "ok" /\ tx = 0 THEN committed \cup {running.of}
                         ELSE committed
         /\ UNCHANGED tx

\* drive and run_controlled, seen from outside: an error, a cancel at the
\* deadline, or the end.
Finishes ==
  /\ running # Idle
  /\ \E r \in {"ok", "err"} :
       /\ Executes(r)
       /\ reply' = IF pc = "waiting" THEN r ELSE reply
  /\ running' = Idle
  /\ UNCHANGED <<serverVars, session>>

\* The connection breaks, or the statement does not stop at its deadline.
Breaks ==
  /\ session = "open"
  /\ running # Idle
  /\ session' = "lost"
  /\ running' = Idle
  /\ reply' = IF pc = "waiting" THEN "err" ELSE reply
  /\ UNCHANGED <<serverVars, tx, committed>>

\* After idle_timeout_secs.
Reap ==
  /\ session = "open" /\ running = Idle
  /\ session' = "gone"
  /\ UNCHANGED <<serverVars, reply, running, tx, committed>>

\* The profile is deleted or the service restarted, also under a request.
SessionEnds ==
  /\ session \in {"open", "lost"}
  /\ session' = "gone"
  /\ UNCHANGED <<serverVars, reply, running, tx, committed>>

\* The database undoes what a closed connection left.
Undo ==
  /\ session \in {"lost", "gone"} /\ running = Idle
  /\ tx # 0
  /\ tx' = 0
  /\ UNCHANGED <<serverVars, reply, session, running, committed>>

-----------------------------------------------------------------------------
Server ==
  \/ Call \/ OpenSession \/ Send \/ Refused \/ Answer \/ LoseAnswer
  \/ EndOfInput \/ Close \/ Killed

Service == Finishes \/ Breaks \/ Reap \/ SessionEnds \/ Undo

Next == Server \/ Service

Spec == Init /\ [][Next]_vars

\* Requests end (the statement has a deadline of 30 s, the others that of the
\* service, and each a grace period), the reaper runs, and the database notices
\* closed connections.
FairSpec ==
  Spec /\ WF_vars(Finishes) /\ WF_vars(Reap) /\ WF_vars(Undo)

-----------------------------------------------------------------------------
(* Properties *)

\* "Even something that slipped through would be undone"
\* (docs/user-guide.md): a statement never runs without a transaction.
NothingCommitted == committed = {}

\* A call that succeeded left no transaction open ("Always undo", query).
AnsweredIsUndone == pc = "idle" /\ verdict = "ok" => tx = 0

\* A transaction ends, also when ROLLBACK was refused, its answer lost, or the
\* process killed.
EventuallyUndone == tx # 0 ~> tx = 0

\* "Every assistant query also runs in its own transaction"
\* (docs/user-guide.md).
OwnTransaction == running.what = "statement" => tx \in {0, running.of}

\* Stated, and not so: a session that ended is given up, so that the next call
\* gets another.
SessionIsThere == pc = "sending" /\ ask = "BEGIN" => session = "open"

=============================================================================
