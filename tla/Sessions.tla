------------------------------ MODULE Sessions ------------------------------
(***************************************************************************)
(* The sessions of sqail-service (sessions.rs, api/query.rs, explain.rs):  *)
(* dedicated connections of one token on one profile, created, used,       *)
(* closed and reaped by request handlers and tasks that run in parallel.   *)
(*                                                                         *)
(* The map of sessions, the lock of each session's connection, its time of *)
(* last use and the stored profile are separate pieces of state, read and  *)
(* written one after the other.  Taking a session out of the map does not  *)
(* end it: it lives while a handler holds a reference to it.               *)
(*                                                                         *)
(* What a query does between lock and hand-back is module Query's; here it *)
(* ends with what Query promises, an idle connection and a true flag, or a *)
(* lost connection.                                                        *)
(***************************************************************************)
EXTENDS Integers, FiniteSets

CONSTANTS
  Handlers,     \* requests and query tasks at work at a time
  NoOne,        \* nobody holds the lock
  Ids,          \* names of the sessions there are at a time
  NoSession,
  MaxPerToken   \* sessions.max_per_token, at least 1 by the configuration check

ASSUME SessionsAssumption ==
  /\ IsFiniteSet(Handlers) /\ NoOne \notin Handlers
  /\ IsFiniteSet(Ids) /\ NoSession \notin Ids
  /\ MaxPerToken \in Nat \ {0}

VARIABLES
  pc,        \* where each handler is
  kind,      \* what it does with its session
  arc,       \* the session it holds a reference to
  listed,    \* the map of Sessions
  lock,      \* who holds the lock of a session's connection
  conn,      \* what is behind it: a connection or, once it was lost, none
  recent,    \* last_used is not idle_timeout_secs ago
  flag,      \* Session::in_transaction
  running,   \* a statement executes on the connection
  tx,        \* a transaction is open on it
  looked,    \* the session the reaper found not busy
  profile    \* the stored profile

handlerVars == <<pc, kind, arc>>
dbVars == <<running, tx>>
vars == <<handlerVars, listed, lock, conn, recent, flag, dbVars, looked,
          profile>>

Phases == {"out", "admitted", "connecting", "inserting", "found", "loaded",
           "locked", "executing", "settled"}

\* Those in which a handler holds its session's lock.
Holding == {"locked", "executing", "settled"}

TypeOK ==
  /\ pc \in [Handlers -> Phases]
  /\ kind \in [Handlers -> {"query", "explain"}]
  /\ arc \in [Handlers -> Ids \cup {NoSession}]
  /\ listed \in SUBSET Ids
  /\ lock \in [Ids -> Handlers \cup {NoOne}]
  /\ conn \in [Ids -> {"none", "open", "lost"}]
  /\ recent \in [Ids -> BOOLEAN] /\ flag \in [Ids -> BOOLEAN]
  /\ running \in [Ids -> BOOLEAN] /\ tx \in [Ids -> BOOLEAN]
  /\ looked \in listed \cup {NoSession}
  /\ profile \in {"stored", "deleting", "deleted"}

Init ==
  /\ pc = [h \in Handlers |-> "out"]
  /\ kind = [h \in Handlers |-> "query"]
  /\ arc = [h \in Handlers |-> NoSession]
  /\ listed = {}
  /\ lock = [s \in Ids |-> NoOne]
  /\ conn = [s \in Ids |-> "none"]
  /\ recent = [s \in Ids |-> FALSE]
  /\ flag = [s \in Ids |-> FALSE]
  /\ running = [s \in Ids |-> FALSE]
  /\ tx = [s \in Ids |-> FALSE]
  /\ looked = NoSession
  /\ profile = "stored"

-----------------------------------------------------------------------------
Goto(h, phase) == pc' = [pc EXCEPT ![h] = phase]

\* The request is answered or its task ends, and its references go.
Leave(h) ==
  /\ Goto(h, "out")
  /\ arc' = [arc EXCEPT ![h] = NoSession]
  /\ kind' = [kind EXCEPT ![h] = "query"]

\* The reaper holds the mutex of the map while it goes through the sessions.
MapFree == looked = NoSession

Touch(s) == recent' = [recent EXCEPT ![s] = TRUE]

Unlock(s) == lock' = [lock EXCEPT ![s] = NoOne]

\* A session is kept by the map or by a reference to it.
Alive(s) == s \in listed \/ \E h \in Handlers : arc[h] = s

\* The connection executes nothing, and has a transaction open or not.
Stops(s, open) ==
  /\ running' = [running EXCEPT ![s] = FALSE]
  /\ tx' = [tx EXCEPT ![s] = open]

-----------------------------------------------------------------------------
(* session_create *)

\* Mutant: the sessions are not counted.
AdmitAll(h) ==
  /\ pc[h] = "out" /\ MapFree
  /\ Goto(h, "admitted")
  /\ UNCHANGED <<kind, arc, listed, lock, conn, recent, flag, dbVars, looked,
                 profile>>

\* The number of the token's sessions is below the cap.
Admit(h) ==
  /\ pc[h] = "out" /\ MapFree
  /\ Cardinality(listed) < MaxPerToken
  /\ Goto(h, "admitted")
  /\ UNCHANGED <<kind, arc, listed, lock, conn, recent, flag, dbVars, looked,
                 profile>>

LoadNew(h) ==
  /\ pc[h] = "admitted"
  /\ Goto(h, IF profile = "stored" THEN "connecting" ELSE "out")
  /\ UNCHANGED <<kind, arc, listed, lock, conn, recent, flag, dbVars, looked,
                 profile>>

\* A real id is never used again; a name here is, once nothing refers to its
\* session.
Connect(h, s) ==
  /\ pc[h] = "connecting"
  /\ ~Alive(s)
  /\ conn' = [conn EXCEPT ![s] = "open"]
  /\ flag' = [flag EXCEPT ![s] = FALSE]
  /\ Stops(s, FALSE)
  /\ Touch(s)
  /\ arc' = [arc EXCEPT ![h] = s]
  /\ Goto(h, "inserting")
  /\ UNCHANGED <<kind, listed, lock, looked, profile>>

\* The connect fails, or the request is dropped during it.
ConnectFails(h) ==
  /\ pc[h] = "connecting"
  /\ Leave(h)
  /\ UNCHANGED <<listed, lock, conn, recent, flag, dbVars, looked, profile>>

Insert(h) ==
  /\ pc[h] = "inserting" /\ MapFree
  /\ listed' = listed \cup {arc[h]}
  /\ Leave(h)
  /\ UNCHANGED <<lock, conn, recent, flag, dbVars, looked, profile>>

-----------------------------------------------------------------------------
(* session_run and on_session up to the lock *)

Find(h, s, k) ==
  /\ pc[h] = "out" /\ MapFree
  /\ s \in listed
  /\ arc' = [arc EXCEPT ![h] = s]
  /\ kind' = [kind EXCEPT ![h] = k]
  /\ Goto(h, "found")
  /\ UNCHANGED <<listed, lock, conn, recent, flag, dbVars, looked, profile>>

\* pool_for loads the profile, which may be gone by now.
Load(h) ==
  /\ pc[h] = "found"
  /\ IF profile = "stored" THEN Goto(h, "loaded") /\ UNCHANGED <<arc, kind>>
     ELSE Leave(h)
  /\ UNCHANGED <<listed, lock, conn, recent, flag, dbVars, looked, profile>>

\* The statement is refused on a read-only profile, or try_lock fails: the
\* session runs something or, for an instant, `busy` of a listing or of the
\* reaper holds the lock.
Refuse(h) ==
  /\ pc[h] = "loaded"
  /\ Leave(h)
  /\ UNCHANGED <<listed, lock, conn, recent, flag, dbVars, looked, profile>>

\* Mutant: waits for no lock.
LockShared(h) ==
  /\ pc[h] = "loaded"
  /\ conn[arc[h]] = "open"
  /\ lock' = [lock EXCEPT ![arc[h]] = h]
  /\ Goto(h, "locked")
  /\ UNCHANGED <<kind, arc, listed, conn, recent, flag, dbVars, looked,
                 profile>>

Lock(h) ==
  /\ pc[h] = "loaded"
  /\ lock[arc[h]] = NoOne
  /\ conn[arc[h]] = "open"
  /\ lock' = [lock EXCEPT ![arc[h]] = h]
  /\ Goto(h, "locked")
  /\ UNCHANGED <<kind, arc, listed, conn, recent, flag, dbVars, looked,
                 profile>>

\* A session whose connection was lost is answered with 409; a query also
\* takes it out of the map.
FindLost(h) ==
  /\ pc[h] = "loaded"
  /\ lock[arc[h]] = NoOne
  /\ conn[arc[h]] = "lost"
  /\ kind[h] = "query" => MapFree
  /\ listed' = IF kind[h] = "query" THEN listed \ {arc[h]} ELSE listed
  /\ Leave(h)
  /\ UNCHANGED <<lock, conn, recent, flag, dbVars, looked, profile>>

\* start refuses an empty script or an id that is in use.
NotStarted(h) ==
  /\ pc[h] = "locked" /\ kind[h] = "query"
  /\ Touch(arc[h])
  /\ Unlock(arc[h])
  /\ Leave(h)
  /\ UNCHANGED <<listed, conn, flag, dbVars, looked, profile>>

\* Mutant: a query touches its session only when it ends.
BeginUntouched(h) ==
  /\ pc[h] = "locked"
  /\ running' = [running EXCEPT ![arc[h]] = TRUE]
  /\ Goto(h, "executing")
  /\ UNCHANGED <<kind, arc, listed, lock, conn, recent, flag, tx, looked,
                 profile>>

Begin(h) ==
  /\ pc[h] = "locked"
  /\ IF kind[h] = "query" THEN Touch(arc[h]) ELSE UNCHANGED recent
  /\ running' = [running EXCEPT ![arc[h]] = TRUE]
  /\ Goto(h, "executing")
  /\ UNCHANGED <<kind, arc, listed, lock, conn, flag, tx, looked, profile>>

-----------------------------------------------------------------------------
(* The end of a query and of an explain *)

\* drive settles its session with the connection kept, ...
SettleKept(h) ==
  /\ pc[h] = "executing" /\ kind[h] = "query"
  /\ \E open \in BOOLEAN :
       /\ Stops(arc[h], open)
       /\ flag' = [flag EXCEPT ![arc[h]] = open]
  /\ Touch(arc[h])
  /\ Goto(h, "settled")
  /\ UNCHANGED <<kind, arc, listed, lock, conn, looked, profile>>

\* ... or given up.
SettleLost(h) ==
  /\ pc[h] = "executing" /\ kind[h] = "query"
  /\ Stops(arc[h], FALSE)
  /\ conn' = [conn EXCEPT ![arc[h]] = "lost"]
  /\ flag' = [flag EXCEPT ![arc[h]] = FALSE]
  /\ Touch(arc[h])
  /\ Goto(h, "settled")
  /\ UNCHANGED <<kind, arc, listed, lock, looked, profile>>

\* An analysed statement is rolled back, and with it the transaction the
\* session had open; SQL Server's keeps its own when the switch to plans fails.
ExplainEnds(h) ==
  /\ pc[h] = "executing" /\ kind[h] = "explain"
  /\ \E open \in BOOLEAN : Stops(arc[h], open)
  /\ Touch(arc[h])
  /\ Goto(h, "settled")
  /\ UNCHANGED <<kind, arc, listed, lock, conn, flag, looked, profile>>

\* One that did not stop within its deadline and grace costs the connection.
ExplainCutOff(h) ==
  /\ pc[h] = "executing" /\ kind[h] = "explain"
  /\ Stops(arc[h], FALSE)
  /\ conn' = [conn EXCEPT ![arc[h]] = "lost"]
  /\ Touch(arc[h])
  /\ Goto(h, "settled")
  /\ UNCHANGED <<kind, arc, listed, lock, flag, looked, profile>>

\* The client of an explain leaves and its future is dropped: the lock goes
\* while the statement executes.
DropExplain(h) ==
  /\ pc[h] = "executing" /\ kind[h] = "explain"
  /\ Unlock(arc[h])
  /\ Leave(h)
  /\ UNCHANGED <<listed, conn, recent, flag, dbVars, looked, profile>>

Executes(s) == \E h \in Handlers : arc[h] = s /\ pc[h] = "executing"

\* A statement nobody waits for ends; of an analysis that was cut short the
\* transaction may remain.
StrayEnds(s) ==
  /\ running[s] /\ ~Executes(s)
  /\ \E open \in BOOLEAN : Stops(s, open)
  /\ UNCHANGED <<handlerVars, listed, lock, conn, recent, flag, looked,
                 profile>>

\* The guard goes with the task or the handler, after `done` was sent.
Release(h) ==
  /\ pc[h] = "settled"
  /\ Unlock(arc[h])
  /\ Leave(h)
  /\ UNCHANGED <<listed, conn, recent, flag, dbVars, looked, profile>>

-----------------------------------------------------------------------------
(* session_close, the reaper and the deletion of the profile *)

Close(s) ==
  /\ MapFree
  /\ s \in listed
  /\ listed' = listed \ {s}
  /\ UNCHANGED <<handlerVars, lock, conn, recent, flag, dbVars, looked,
                 profile>>

\* The reaper reads `busy` of a session ...
Look(s) ==
  /\ MapFree
  /\ s \in listed /\ lock[s] = NoOne
  /\ looked' = s
  /\ UNCHANGED <<handlerVars, listed, lock, conn, recent, flag, dbVars,
                 profile>>

\* Mutant: the comparison with the last use is the wrong way round.
JudgeSwapped ==
  /\ looked # NoSession
  /\ listed' = IF recent[looked] THEN listed \ {looked} ELSE listed
  /\ looked' = NoSession
  /\ UNCHANGED <<handlerVars, lock, conn, recent, flag, dbVars, profile>>

\* ... and then its last use.
Judge ==
  /\ looked # NoSession
  /\ listed' = IF recent[looked] THEN listed ELSE listed \ {looked}
  /\ looked' = NoSession
  /\ UNCHANGED <<handlerVars, lock, conn, recent, flag, dbVars, profile>>

\* idle_timeout_secs pass since the last use; not while the reaper is between
\* its two reads.
Age(s) ==
  /\ recent[s] /\ MapFree
  /\ recent' = [recent EXCEPT ![s] = FALSE]
  /\ UNCHANGED <<handlerVars, listed, lock, conn, flag, dbVars, looked,
                 profile>>

DeleteProfile ==
  /\ profile = "stored"
  /\ profile' = "deleting"
  /\ UNCHANGED <<handlerVars, listed, lock, conn, recent, flag, dbVars, looked>>

CloseForConnection ==
  /\ profile = "deleting" /\ MapFree
  /\ profile' = "deleted"
  /\ listed' = {}
  /\ UNCHANGED <<handlerVars, lock, conn, recent, flag, dbVars, looked>>

Create(h) ==
  \/ LoadNew(h) \/ (\E s \in Ids : Connect(h, s)) \/ ConnectFails(h)
  \/ Insert(h)

Take(h) ==
  \/ Load(h) \/ Refuse(h) \/ Lock(h) \/ FindLost(h)
  \/ NotStarted(h) \/ Begin(h)

Settle(h) ==
  SettleKept(h) \/ SettleLost(h) \/ ExplainEnds(h) \/ ExplainCutOff(h)

Next ==
  \/ \E h \in Handlers :
       \/ Admit(h) \/ Create(h)
       \/ \E s \in Ids, k \in {"query", "explain"} : Find(h, s, k)
       \/ Take(h) \/ Settle(h) \/ DropExplain(h) \/ Release(h)
  \/ \E s \in Ids : StrayEnds(s) \/ Close(s) \/ Look(s) \/ Age(s)
  \/ Judge \/ DeleteProfile \/ CloseForConnection

Spec == Init /\ [][Next]_vars

\* Handlers run on, the reaper ticks and time passes.  Queries need not end.
\* The reaper looks again and again, also at a session whose lock is taken now
\* and then, and time passes although no instant is between its two reads:
\* hence SF.
Fairness ==
  /\ \A h \in Handlers :
       WF_vars(Create(h)) /\ WF_vars(Take(h)) /\ WF_vars(Release(h))
  /\ \A s \in Ids : SF_vars(Look(s)) /\ SF_vars(Age(s))
  /\ WF_vars(Judge)

FairSpec == Spec /\ Fairness

-----------------------------------------------------------------------------
(* Properties *)

\* A handler that executes on a session has it for itself and finds a
\* connection there ("checked before start"), whatever is closed, reaped,
\* deleted or lost meanwhile.
Exclusive ==
  \A h \in Handlers : pc[h] \in {"locked", "executing"} =>
    /\ conn[arc[h]] = "open"
    /\ \A g \in Handlers \ {h} : arc[g] = arc[h] => pc[g] \notin Holding

\* The sessions of a token, with those on their way into the map, exceed the
\* cap by less than the handlers at work: each that passed the check before
\* another's insertion may add one.
Creating == {h \in Handlers : pc[h] \in {"admitted", "connecting", "inserting"}}

CapWithinRaces ==
  Cardinality(listed) + Cardinality(Creating)
    < MaxPerToken + Cardinality(Handlers)

\* The reaper, which reads `busy` and the last use one after the other, never
\* takes a session whose query executes, however long ago it started.
RunsQuery(s) ==
  \E h \in Handlers : arc[h] = s /\ pc[h] = "executing" /\ kind[h] = "query"

Reaps(s) == looked = s /\ s \in listed /\ s \notin listed'

ReaperSparesRunning == [][\A s \in Ids : Reaps(s) => ~RunsQuery(s)]_vars

\* Sessions of a deleted profile go, those inserted after the deletion too,
\* unless a query that never ends keeps one.
DeletedDrains ==
  (profile = "deleted") ~> (\A s \in Ids : Alive(s) => Executes(s))

\* "Sessions capped per token" (docs/security.md, "Resource exhaustion").
CapHolds == Cardinality(listed) <= MaxPerToken

\* "A session runs one query at a time (a second one gets 409)" (docs/api.md):
\* nothing is begun on a connection that executes something.
OneAtATime ==
  [][\A h \in Handlers :
       pc[h] # "executing" /\ pc'[h] = "executing" => ~running[arc[h]]]_vars

\* "The status bar shows in transaction while one is open" (user-guide.md): a
\* session that is said to be in a transaction, and that nobody uses, has one.
FlaggedIsOpen ==
  \A s \in listed :
    flag[s] /\ lock[s] = NoOne /\ conn[s] = "open" /\ ~running[s] => tx[s]

=============================================================================
