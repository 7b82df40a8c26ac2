-------------------------------- MODULE Pool --------------------------------
(***************************************************************************)
(* The connection pool of sqail-service (engine/mod.rs): one pool per      *)
(* connection profile, from which request handlers and query tasks borrow  *)
(* a database connection.                                                  *)
(*                                                                         *)
(* A task asks with Pool::get, which takes a permit of a semaphore, pops   *)
(* the idle stack (skipping what is too old or fails its ping) and         *)
(* connects when the stack is empty.  What it gets, a Pooled, ends in one  *)
(* of five ways: release, reset_and_release, discard, dropped unused,      *)
(* dropped after use (abandoned).  Each of them moves the connection first *)
(* and the permit last, which is what caps the open connections.           *)
(*                                                                         *)
(* A connection is the id the database server gives its session: the       *)
(* server may give a freed id to the next connection, which is what makes  *)
(* a late SQL Server KILL a hazard.                                        *)
(*                                                                         *)
(* Statements are those of the tasks and a reset that is cut off.  A ping  *)
(* is a single step at the database.                                       *)
(***************************************************************************)
EXTENDS Integers, Sequences, FiniteSets

CONSTANTS
  Tasks,    \* request handlers and query tasks
  Scripts,  \* those that run user SQL (query, explain), not catalog SQL
  Conns,    \* session ids the database server hands out
  NoConn,   \* the absence of a connection
  Size,     \* limits.pool_size (the configuration check keeps it in 1 .. 256)
  Engine    \* the database engine of the profile

Engines == {"postgres", "mssql", "sqlite"}

ASSUME PoolAssumption ==
  /\ IsFiniteSet(Tasks)
  /\ Scripts \subseteq Tasks
  /\ NoConn \notin Conns
  /\ Size \in Nat
  /\ Engine \in Engines

\* Pool::new makes at least one permit.
Permits == IF Size >= 1 THEN Size ELSE 1

VARIABLES
  pc,        \* where each task is in get, in its use of the lease or its end
  held,      \* the connection each task owns (candidate, leased or abandoned)
  idle,      \* the idle stack, its top at the end
  old,       \* how many entries at the bottom are past REVALIDATE_AFTER
  expired,   \* how many entries at the bottom are past MAX_IDLE
  open,      \* connections the pool or a lease has open
  dirty,     \* open connections with session state user SQL left
  running,   \* open connections on which a statement is executing
  lingering, \* dropped connections the database still has open
  target     \* the session id each in-flight cancel request aims at

poolVars == <<idle, old, expired>>
dbVars == <<open, dirty, running, lingering>>
vars == <<pc, held, poolVars, dbVars, target>>

\* "popping" is the loop head of get; "leaving" still holds the permit.
Phases == {"out", "waiting", "popping", "pinging", "connecting", "unused",
           "used", "resetting", "cancelling", "closing", "leaving"}

PermitHolders == {t \in Tasks : pc[t] \notin {"out", "waiting"}}
Waiting == {t \in Tasks : pc[t] = "waiting"}
Stacked == {idle[i] : i \in 1 .. Len(idle)}

TypeOK ==
  /\ pc \in [Tasks -> Phases]
  /\ held \in [Tasks -> Conns \cup {NoConn}]
  /\ idle \in Seq(Conns)
  /\ old \in 0 .. Len(idle)
  /\ expired \in 0 .. old
  /\ open \in SUBSET Conns
  /\ dirty \in SUBSET open
  /\ running \in SUBSET open
  /\ lingering \in SUBSET (Conns \ open)
  /\ target \in [Tasks -> Conns \cup {NoConn}]

Init ==
  /\ pc = [t \in Tasks |-> "out"]
  /\ held = [t \in Tasks |-> NoConn]
  /\ idle = <<>>
  /\ old = 0
  /\ expired = 0
  /\ open = {}
  /\ dirty = {}
  /\ running = {}
  /\ lingering = {}
  /\ target = [t \in Tasks |-> NoConn]

-----------------------------------------------------------------------------
Goto(t, phase) == pc' = [pc EXCEPT ![t] = phase]

\* A dropped Conn leaves the service at once.  If a statement is executing on
\* it, its session ends at once on SQL Server only: tokio-postgres' driver
\* task and SQLite's worker thread keep it open until the statement ends.
CloseBusy(cs, busy) ==
  /\ open' = open \ cs
  /\ dirty' = dirty \ cs
  /\ running' = running \ cs
  /\ lingering' = IF Engine = "mssql" THEN lingering
                  ELSE lingering \cup (cs \cap busy)

Close(cs) == CloseBusy(cs, running)

\* put_back: entries past MAX_IDLE go (pushes are in time order, so they are
\* the bottom ones), and c is pushed with the current time.
PutBack(c) ==
  /\ idle' = Append(SubSeq(idle, expired + 1, Len(idle)), c)
  /\ old' = old - expired
  /\ expired' = 0

\* What put_back closes.
Overdue == {idle[i] : i \in 1 .. expired}

Top == idle[Len(idle)]

Pop ==
  /\ idle # <<>>
  /\ idle' = SubSeq(idle, 1, Len(idle) - 1)
  /\ old' = IF old = Len(idle) THEN old - 1 ELSE old
  /\ expired' = IF expired = Len(idle) THEN expired - 1 ELSE expired

-----------------------------------------------------------------------------
(* Pool::get *)

Ask(t) ==
  /\ pc[t] = "out"
  /\ Goto(t, "waiting")
  /\ UNCHANGED <<held, poolVars, dbVars, target>>

Acquire(t) ==
  /\ pc[t] = "waiting"
  /\ Cardinality(PermitHolders) < Permits
  /\ Goto(t, "popping")
  /\ UNCHANGED <<held, poolVars, dbVars, target>>

\* Mutant: no timer on the wait.
ExhaustedNever(t) == t \notin Tasks

\* The 30 s timer of the wait.  A timeout polls the semaphore first, so it
\* refuses only a task that no free permit is meant for.
Exhausted(t) ==
  /\ pc[t] = "waiting"
  /\ Cardinality(PermitHolders) + Cardinality(Waiting) > Permits
  /\ Goto(t, "out")
  /\ UNCHANGED <<held, poolVars, dbVars, target>>

PopExpired(t) ==
  /\ pc[t] = "popping"
  /\ Pop
  /\ expired = Len(idle)
  /\ Close({Top})
  /\ UNCHANGED <<pc, held, target>>

PopStale(t) ==
  /\ pc[t] = "popping"
  /\ Pop
  /\ old = Len(idle) /\ expired < Len(idle)
  /\ Goto(t, "pinging")
  /\ held' = [held EXCEPT ![t] = Top]
  /\ UNCHANGED <<dbVars, target>>

PopFresh(t) ==
  /\ pc[t] = "popping"
  /\ Pop
  /\ old < Len(idle)
  /\ Goto(t, "unused")
  /\ held' = [held EXCEPT ![t] = Top]
  /\ UNCHANGED <<dbVars, target>>

\* Mutant: connects without looking at the stack.
PopNoneUnchecked(t) ==
  /\ pc[t] = "popping"
  /\ Goto(t, "connecting")
  /\ UNCHANGED <<held, poolVars, dbVars, target>>

PopNone(t) ==
  /\ pc[t] = "popping"
  /\ idle = <<>>
  /\ Goto(t, "connecting")
  /\ UNCHANGED <<held, poolVars, dbVars, target>>

PingOk(t) ==
  /\ pc[t] = "pinging"
  /\ Goto(t, "unused")
  /\ UNCHANGED <<held, poolVars, dbVars, target>>

\* SQLite's ping always succeeds.
PingFails(t) ==
  /\ pc[t] = "pinging"
  /\ Engine # "sqlite"
  /\ Goto(t, "popping")
  /\ Close({held[t]})
  /\ held' = [held EXCEPT ![t] = NoConn]
  /\ UNCHANGED <<poolVars, target>>

Connect(t, c) ==
  /\ pc[t] = "connecting"
  /\ c \in Conns \ (open \cup lingering)
  /\ Goto(t, "unused")
  /\ held' = [held EXCEPT ![t] = c]
  /\ open' = open \cup {c}
  /\ UNCHANGED <<poolVars, dirty, running, lingering, target>>

ConnectFails(t) ==
  /\ pc[t] = "connecting"
  /\ Goto(t, "leaving")
  /\ UNCHANGED <<held, poolVars, dbVars, target>>

\* The request future is dropped (request timeout, client gone) at an await
\* of get: while it waits, ...
DropWaiting(t) ==
  /\ pc[t] = "waiting"
  /\ Goto(t, "out")
  /\ UNCHANGED <<held, poolVars, dbVars, target>>

\* ... or while it pings or connects: its locals go, connection then permit.
DropGet(t) ==
  /\ pc[t] \in {"pinging", "connecting"}
  /\ Goto(t, "leaving")
  /\ Close({held[t]})
  /\ held' = [held EXCEPT ![t] = NoConn]
  /\ UNCHANGED <<poolVars, target>>

-----------------------------------------------------------------------------
(* The lease: Pooled *)

\* Pooled::conn marks the lease used and a statement starts on it.
Use(t) ==
  /\ pc[t] \in {"unused", "used"}
  /\ held[t] \notin running
  /\ Goto(t, "used")
  /\ running' = running \cup {held[t]}
  /\ dirty' = IF t \in Scripts THEN dirty \cup {held[t]} ELSE dirty
  /\ UNCHANGED <<held, poolVars, open, lingering, target>>

\* The database finishes a statement, whoever waits for it.
StatementEnds(c) ==
  /\ c \in running \cup lingering
  /\ running' = running \ {c}
  /\ lingering' = lingering \ {c}
  /\ UNCHANGED <<pc, held, poolVars, open, dirty, target>>

\* Mutant: the connection goes on the stack and stays with the task.
ReturnUntaken(t) ==
  /\ Goto(t, "leaving")
  /\ PutBack(held[t])
  /\ UNCHANGED held

\* Give the leased connection to the idle stack; the permit goes later.
Return(t) ==
  /\ Goto(t, "leaving")
  /\ PutBack(held[t])
  /\ held' = [held EXCEPT ![t] = NoConn]

\* Close the owned connection; the permit goes later.
Lose(t) ==
  /\ Goto(t, "leaving")
  /\ Close({held[t]})
  /\ held' = [held EXCEPT ![t] = NoConn]
  /\ UNCHANGED <<poolVars, target>>

\* Mutant: a catalog call that was cut off is returned all the same.
ReleaseRunning(t) ==
  /\ pc[t] = "used" /\ t \notin Scripts
  /\ Return(t)
  /\ Close(Overdue)
  /\ UNCHANGED target

\* Mutant: a connection that ran user SQL is returned without a reset.
ReleaseScript(t) ==
  /\ pc[t] = "used"
  /\ held[t] \notin running
  /\ Return(t)
  /\ Close(Overdue)
  /\ UNCHANGED target

\* Catalog calls hand back what finished in time as it is.
Release(t) ==
  /\ pc[t] = "used" /\ t \notin Scripts
  /\ held[t] \notin running
  /\ Return(t)
  /\ Close(Overdue)
  /\ UNCHANGED target

\* Queries and explains reset what they stopped in time.
BeginReset(t) ==
  /\ pc[t] = "used" /\ t \in Scripts
  /\ held[t] \notin running
  /\ Goto(t, "resetting")
  /\ UNCHANGED <<held, poolVars, dbVars, target>>

\* The engine's reset reports success.  Postgres undoes what the script left,
\* SQL Server never succeeds, SQLite does nothing.
ResetOk(t) ==
  /\ pc[t] = "resetting"
  /\ Engine # "mssql"
  /\ Return(t)
  /\ open' = open \ Overdue
  /\ running' = running \ Overdue
  /\ dirty' = (dirty \ Overdue) \
                (IF Engine = "postgres" THEN {held[t]} ELSE {})
  /\ UNCHANGED <<lingering, target>>

ResetFails(t) ==
  /\ pc[t] = "resetting"
  /\ Engine # "sqlite"
  /\ Lose(t)

\* RESET_TIMEOUT passes, or the request is dropped, while the server is still
\* at the reset.  The other engines' resets answer at once.
ResetCutOff(t) ==
  /\ pc[t] = "resetting"
  /\ Engine = "postgres"
  /\ Goto(t, "leaving")
  /\ CloseBusy({held[t]}, {held[t]})
  /\ held' = [held EXCEPT ![t] = NoConn]
  /\ UNCHANGED <<poolVars, target>>

Discard(t) ==
  /\ pc[t] = "used"
  /\ Lose(t)

DropUnused(t) ==
  /\ pc[t] = "unused"
  /\ Return(t)
  /\ Close(Overdue)
  /\ UNCHANGED target

\* Mutant: closes the connection before it cancels.
AbandonClosed(t) ==
  /\ pc[t] = "used"
  /\ Goto(t, "cancelling")
  /\ target' = [target EXCEPT ![t] = held[t]]
  /\ Close({held[t]})
  /\ held' = [held EXCEPT ![t] = NoConn]
  /\ UNCHANGED poolVars

\* Drop of a used lease: a task takes connection and permit over and sends a
\* cancel for the session while it is still open.
Abandon(t) ==
  /\ pc[t] = "used"
  /\ Goto(t, "cancelling")
  /\ target' = [target EXCEPT ![t] = held[t]]
  /\ UNCHANGED <<held, poolVars, dbVars>>

\* The cancel reaches the server and stops what runs under the target id.
CancelLands(t) ==
  /\ pc[t] = "cancelling"
  /\ Goto(t, "closing")
  /\ running' = running \ {target[t]}
  /\ target' = [target EXCEPT ![t] = NoConn]
  /\ UNCHANGED <<held, poolVars, open, dirty, lingering>>

\* It fails, or ABANDON_CANCEL_TIMEOUT drops it.
CancelFails(t) ==
  /\ pc[t] = "cancelling"
  /\ Goto(t, "closing")
  /\ target' = [target EXCEPT ![t] = NoConn]
  /\ UNCHANGED <<held, poolVars, dbVars>>

CloseAbandoned(t) ==
  /\ pc[t] = "closing"
  /\ Lose(t)

DropPermit(t) ==
  /\ pc[t] = "leaving"
  /\ Goto(t, "out")
  /\ UNCHANGED <<held, poolVars, dbVars, target>>

-----------------------------------------------------------------------------
\* Time passes: idle entries cross the two age limits, the oldest first.
Elapse ==
  /\ \E o \in old .. Len(idle) :
       \E e \in expired .. o :
         /\ <<o, e>> # <<old, expired>>
         /\ old' = o
         /\ expired' = e
  /\ UNCHANGED <<pc, held, idle, dbVars, target>>

Get(t) ==
  \/ Acquire(t) \/ Exhausted(t)
  \/ PopExpired(t) \/ PopStale(t) \/ PopFresh(t) \/ PopNone(t)
  \/ PingOk(t) \/ PingFails(t)
  \/ (\E c \in Conns : Connect(t, c)) \/ ConnectFails(t)

GiveBack(t) ==
  Release(t) \/ BeginReset(t) \/ Discard(t) \/ DropUnused(t) \/ Abandon(t)

WindDown(t) ==
  \/ ResetOk(t) \/ ResetFails(t) \/ ResetCutOff(t)
  \/ CancelLands(t) \/ CancelFails(t) \/ CloseAbandoned(t)
  \/ DropPermit(t)

Next ==
  \/ \E t \in Tasks :
       \/ Ask(t) \/ DropWaiting(t) \/ DropGet(t)
       \/ Get(t) \/ Use(t) \/ GiveBack(t) \/ WindDown(t)
  \/ \E c \in Conns : StatementEnds(c)
  \/ Elapse

Spec == Init /\ [][Next]_vars

\* The service polls its tasks; a lease is given back in the end (queries and
\* calls have deadlines); the request timeout, once passed, drops get at its
\* next await, which a task that keeps popping dead connections passes again
\* and again, hence SF.  Entries do not expire as fast as get pops them, hence
\* SF for the pops that leave the loop.  Nobody is obliged to ask, and time
\* need not pass.
Fairness ==
  \A t \in Tasks :
    /\ WF_vars(Get(t))
    /\ WF_vars(GiveBack(t))
    /\ WF_vars(WindDown(t))
    /\ SF_vars(DropGet(t))
    /\ SF_vars(PopStale(t) \/ PopFresh(t) \/ PopNone(t))

FairSpec == Spec /\ Fairness

-----------------------------------------------------------------------------
(* Properties *)

\* Whatever the order of connects, returns, abandoned leases and permit
\* releases, the service never has more connections than permits (Pool::get,
\* put_back and the drop order of Pooled).
ConnectionCap == Cardinality(open) <= Permits

\* Every open connection is in exactly one place: once on the idle stack, or
\* with one task.  None is lent twice, lent while it is idle, or forgotten.
OneKeeper ==
  /\ \A i, j \in 1 .. Len(idle) : idle[i] = idle[j] => i = j
  /\ \A t \in Tasks : held[t] # NoConn =>
       /\ held[t] \notin Stacked
       /\ \A u \in Tasks \ {t} : held[u] # held[t]
  /\ open = Stacked \cup ({held[t] : t \in Tasks} \ {NoConn})

\* No idle connection executes anything: a statement nobody waits for any more
\* never runs under the next borrower (release and reset only after the end).
IdleIsQuiet == Stacked \cap running = {}

\* State user SQL left never reaches the next borrower (query.rs:291,
\* explain.rs:63): what lies on the stack, is being checked by get or was
\* just lent is clean.
NoLeftover ==
  /\ Stacked \cap dirty = {}
  /\ \A t \in Tasks : pc[t] \in {"pinging", "unused"} => held[t] \notin dirty

\* A cancel in flight aims at a session id that still belongs to the
\* connection it was sent for, so a KILL cannot hit someone else's session.
CancelAimsAtOwn ==
  \A t \in Tasks : target[t] # NoConn =>
    /\ target[t] \in open
    /\ target[t] \notin Stacked
    /\ \A u \in Tasks \ {t} : held[u] # target[t]

\* Whoever asks gets an answer, and every permit comes back, also from
\* abandoned leases, failed connects and failed resets.
PermitsComeBack == \A t \in Tasks : (pc[t] # "out") ~> (pc[t] = "out")

\* "A cap on concurrently open ones", "so the pool does not overcommit": the
\* database itself never has more of the pool's connections open than permits.
DatabaseCap == Cardinality(open \cup lingering) <= Permits

\* The pool implements Lending: a lease is lent from the moment get returns
\* it until release, reset, discard or the close of the abandoned connection.
Lent == [t \in Tasks |-> IF pc[t] = "pinging" THEN NoConn ELSE held[t]]

Promise == INSTANCE Lending WITH
  kept <- open, lent <- Lent, soiled <- dirty, Limit <- Permits

PromiseSpec == Promise!Spec

=============================================================================
