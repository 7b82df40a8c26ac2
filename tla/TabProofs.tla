----------------------------- MODULE TabProofs -----------------------------
(***************************************************************************)
(* Proofs about Tab for any number of connections, sessions and runs, and  *)
(* about the edits of its results (Edits) for any tables, rows and bounds. *)
(*                                                                         *)
(* One task at a time works for the tab, the one of its current run, and   *)
(* the UI thread reads what tasks say in the order they said it.  From     *)
(* these two follows what it knows of its session when a run has ended.    *)
(*                                                                         *)
(* The edits of a result: an update writes the cells of its row that show  *)
(* something else, the statements of a transaction take the table from     *)
(* what it was towards what the grid shows one row at a time, and what was *)
(* reviewed still belongs to the result when they run.                     *)
(***************************************************************************)
EXTENDS Results, SequenceTheorems, FiniteSetTheorems, WellFoundedInduction, TLAPS

\* Phases in which a task can still do something at the service, and those of
\* them in which it works on a session.
Active == {"opening", "begin", "query", "executing", "explaining"}

Holding == {"begin", "query", "executing"}

Said == {"tail", "over"}

Places == 1 .. Len(inbox)

\* A message that ends its run for the tab.
Terminal(m) == m.what # "session"

\* A session that the tab is going to hear of.
News(s) == \E i \in Places : ~Terminal(inbox[i]) /\ inbox[i].session = s

Open(s) == s # NoSession /\ served[s] = "open" /\ tx[s]

-----------------------------------------------------------------------------
(* The inductive invariant *)

\* A script was started only by a task that does not start one again.
Once ==
  \A r \in Runs :
    ran[r] = 0 \/ (ran[r] = 1 /\ pc[r] \in {"executing"} \cup Said)

\* At most one task is at work, that of the current run while there is a tab,
\* and none that said its run is over.
OneAtWork ==
  /\ alive => \A r \in Runs : /\ r > run => pc[r] = "none"
                              /\ pc[r] \in Active => r = run /\ running
  /\ \A r, q \in Runs : pc[r] \in Active /\ pc[q] \in Active => r = q
  /\ \A i \in Places : Terminal(inbox[i]) => pc[inbox[i].run] \in Said

\* Of earlier runs only failures are still to come, and the current run is over
\* with the first message that says so.
InOrder ==
  alive =>
    /\ \A i \in Places : inbox[i].what = "failed"
                         \/ (running /\ inbox[i].run = run)
    /\ \A i, j \in Places :
         i < j /\ inbox[i].run = run /\ Terminal(inbox[i])
           => inbox[j].what = "failed"

\* Tasks work on sessions of their connection, within the transaction they
\* began unless the session is gone.
Targets ==
  /\ \A r \in Runs : pc[r] \in Holding \cup {"tail"} =>
       served[at[r]] # "unborn" /\ of[at[r]] = asked[r].on
  /\ \A r \in Runs : pc[r] = "query" /\ asked[r].begin =>
       tx[at[r]] \/ served[at[r]] = "gone"
  /\ session # NoSession => served[session] # "unborn"
  /\ \A i \in Places : ~Terminal(inbox[i]) =>
       inbox[i].session \in Sessions /\ served[inbox[i].session] # "unborn"

\* The tab shows the open transaction of its session, or the user agreed to
\* roll it back, or an explain left it.
Quiet == Open(session) =>
           in_transaction \/ agreed = session \/ session \in strays

NoNews == \A s \in Sessions : ~News(s)

\* What becomes the tab's session has no transaction open.
Clean ==
  /\ \A s \in Sessions : News(s) => ~Open(s)
  /\ ~Open(session) \/ ~NoNews

\* What becomes the tab's session is what its run r works on, or has no
\* transaction open.
Follows(r) ==
  /\ \A s \in Sessions : News(s) => s = at[r] \/ ~Open(s)
  /\ session = at[r] \/ ~Open(session) \/ ~NoNews

\* What the tab knows of the transaction at rest, and what it is going to know
\* while a run is at work or its messages are on their way.
Known ==
  /\ ~alive => session = NoSession
  /\ alive /\ ~running => Quiet
  /\ alive => \A r \in Runs : r = run =>
       /\ pc[r] = "explaining" => Quiet /\ NoNews
       /\ pc[r] = "opening" => \A s \in Sessions : News(s) => ~Open(s)
       /\ pc[r] \in Holding => Follows(r)
  /\ alive => \A i \in Places : inbox[i].run = run =>
       /\ inbox[i].what = "plan" => Quiet /\ NoNews
       /\ inbox[i].what = "done" /\ ~inbox[i].tx => Clean

Inv == TypeOK /\ Once /\ OneAtWork /\ InOrder /\ Targets /\ Known

-----------------------------------------------------------------------------
(* The inbox *)

\* A message is told to the UI thread ...
LEMMA Appended ==
  ASSUME inbox \in Seq(Message), NEW m \in Message, inbox' = Append(inbox, m)
  PROVE  /\ inbox' \in Seq(Message)
         /\ Len(inbox) \in Nat /\ Len(inbox') = Len(inbox) + 1
         /\ \A i \in Places : i \in Places' /\ inbox'[i] = inbox[i]
         /\ Len(inbox') \in Places' /\ inbox'[Len(inbox')] = m
         /\ \A i \in Places' : i \in Places \/ i = Len(inbox')
  BY AppendProperties, LenProperties DEF Places

\* ... or taken by it.
LEMMA Taken ==
  ASSUME inbox \in Seq(Message), inbox # <<>>, inbox' = Tail(inbox)
  PROVE  /\ inbox' \in Seq(Message)
         /\ Head(inbox) \in Message /\ 1 \in Places /\ Head(inbox) = inbox[1]
         /\ Len(inbox) \in Nat /\ Len(inbox') = Len(inbox) - 1
         /\ \A i \in Places' : i + 1 \in Places /\ inbox'[i] = inbox[i + 1]
                               /\ 1 < i + 1
  <1>1. /\ Tail(inbox) \in Seq(Message) /\ Len(Tail(inbox)) = Len(inbox) - 1
        /\ Head(inbox) = inbox[1] /\ Head(inbox) \in Message
        /\ Len(inbox) \in Nat \ {0}
        /\ \A i \in 1 .. Len(inbox) - 1 : Tail(inbox)[i] = inbox[i + 1]
    BY HeadTailProperties, LenProperties, EmptySeq
  <1>2. QED
    BY <1>1 DEF Places

LEMMA Addressed ==
  ASSUME inbox \in Seq(Message), NEW i \in Places
  PROVE  inbox[i] \in Message
  BY ElementOfSeq DEF Places

-----------------------------------------------------------------------------
(* Types *)

LEMMA Typed == Nothing \in Task /\ Runs \subseteq Nat /\ 0 \notin Runs
               /\ NoSession \notin Sessions
  BY TabAssumption DEF Nothing, Task, Kinds, Runs, Sessions, NoSession

UserStep ==
  \/ (\E kind \in Kinds, phase \in {"opening", "begin", "query", "explaining"} :
        Begin(kind, phase) /\ (phase \in {"begin", "query"} =>
                                 OwnSession # NoSession)
                           /\ (phase = "opening" => OwnSession = NoSession)
                           /\ (phase = "query" => autocommit \/ in_transaction)
                           /\ (phase = "explaining" <=> kind = "explain"))
  \/ ToggleAutocommit \/ (\E c \in Connections : ChooseConnection(c))
  \/ RequestClose \/ AgreeToRollBack \/ CloseUnsaved \/ CancelClose

LEMMA UserCases ==
  ASSUME TypeOK, User
  PROVE  UserStep
  <1>1. ASSUME NEW kind \in {"work", "control"}, RunSql(kind)
        PROVE  UserStep
    <2> DEFINE phase == IF OwnSession = NoSession THEN "opening"
                        ELSE IF ~autocommit /\ ~in_transaction THEN "begin"
                        ELSE "query"
    <2>1. Begin(kind, phase)
      BY <1>1 DEF RunSql
    <2>2. /\ phase \in {"opening", "begin", "query"}
          /\ phase \in {"begin", "query"} => OwnSession # NoSession
          /\ phase = "opening" => OwnSession = NoSession
          /\ phase = "query" => autocommit \/ in_transaction
      BY DEF TypeOK
    <2> HIDE DEF phase
    <2>3. QED
      BY <1>1, <2>1, <2>2 DEF UserStep, Kinds
  <1>2. CASE Explain
    BY <1>2 DEF Explain, UserStep, Kinds
  <1>3. QED
    BY <1>1, <1>2 DEF User, UserStep

\* The user's session is the tab's, or none.
LEMMA Own ==
  ASSUME TypeOK
  PROVE  /\ OwnSession \in {session, NoSession}
         /\ OwnSession \in Sessions \cup {NoSession}
         /\ OwnSession # NoSession =>
              OwnSession = session /\ of[OwnSession] = connection
  BY DEF OwnSession, TypeOK

\* What a new run changes.
LEMMA Begun ==
  ASSUME TypeOK, NEW kind \in Kinds,
         NEW phase \in {"opening", "begin", "query", "explaining"},
         Begin(kind, phase)
  PROVE  /\ run \in Nat /\ run' = run + 1 /\ run' \in Runs
         /\ ~running /\ running' /\ alive /\ alive'
         /\ pc'[run'] = phase /\ at'[run'] = OwnSession
         /\ asked'[run'].on = connection /\ asked'[run'] \in Task
         /\ asked'[run'].begin = (kind # "explain" /\ ~autocommit
                                  /\ ~in_transaction)
         /\ \A r \in Runs : r # run' => /\ pc'[r] = pc[r] /\ at'[r] = at[r]
                                        /\ asked'[r] = asked[r]
         /\ pc' \in [Runs -> {"none", "opening", "begin", "query", "executing",
                              "tail", "explaining", "over"}]
         /\ at' \in [Runs -> Sessions \cup {NoSession}]
         /\ asked' \in [Runs -> Task]
         /\ UNCHANGED <<connection, autocommit, in_transaction, session,
                        dialogVars, closing, inbox, retried, ran, serviceVars>>
  <1>1. run \in Nat /\ run' = run + 1 /\ run' \in Runs
    BY TabAssumption DEF Begin, TypeOK, Runs
  <1>2. OwnSession \in Sessions \cup {NoSession}
    BY Own
  <1> DEFINE task == [kind |-> kind, on |-> connection, manual |-> ~autocommit,
                      begin |-> kind # "explain" /\ ~autocommit
                                /\ ~in_transaction]
  <1>3. task \in Task
    BY DEF TypeOK, Task
  <1>4. asked' = [asked EXCEPT ![run'] = task]
    BY DEF Begin
  <1>5. task.on = connection
        /\ task.begin = (kind # "explain" /\ ~autocommit /\ ~in_transaction)
    OBVIOUS
  <1> HIDE DEF task
  <1>6. pc' = [pc EXCEPT ![run'] = phase] /\ at' = [at EXCEPT ![run'] = OwnSession]
    BY DEF Begin
  <1>7. QED
    BY <1>1, <1>2, <1>3, <1>4, <1>5, <1>6 DEF Begin, CanAct, TypeOK

\* Closing the tab leaves nothing of it.
LEMMA Closed ==
  ASSUME TypeOK, CloseTab
  PROVE  /\ ~alive' /\ session' = NoSession /\ UNCHANGED <<inbox, taskVars,
                                                          serviceVars>>
         /\ TypeOK'
  <1>1. /\ alive' = FALSE /\ closing' = session
        /\ connection' = Home /\ autocommit' = TRUE /\ in_transaction' = FALSE
        /\ session' = NoSession /\ run' = 0 /\ running' = FALSE
        /\ asking' = "no" /\ agreed' = NoSession
        /\ UNCHANGED <<inbox, taskVars, serviceVars>>
    BY DEF CloseTab
  <1>2. Home \in Connections /\ 0 \in 0 .. MaxRuns
    BY TabAssumption
  <1>3. QED
    BY <1>1, <1>2 DEF TypeOK, taskVars, serviceVars

\* The other steps of the user change little.
LEMMA Idled ==
  ASSUME TypeOK,
         \/ ToggleAutocommit \/ (\E c \in Connections : ChooseConnection(c))
         \/ RequestClose \/ AgreeToRollBack \/ CloseUnsaved \/ CancelClose
  PROVE  \/ CloseTab
         \/ /\ UNCHANGED <<alive, run, running, closing, inbox, taskVars,
                           serviceVars>>
            /\ alive /\ session' \in {session, NoSession}
            /\ \/ UNCHANGED <<in_transaction, agreed>>
               \/ agreed' = session /\ session' = session
            /\ TypeOK'
  <1> USE DEF uiVars, dialogVars, taskVars, serviceVars, CanAct
  <1>1. CASE ToggleAutocommit
    <2>1. autocommit' \in BOOLEAN
      BY <1>1 DEF ToggleAutocommit, TypeOK
    <2>2. QED
      BY <1>1, <2>1 DEF ToggleAutocommit, TypeOK
  <1>2. CASE \E c \in Connections : ChooseConnection(c)
    BY <1>2 DEF ChooseConnection, TypeOK
  <1>3. CASE RequestClose
    BY <1>3 DEF RequestClose, Ask, TypeOK
  <1>4. CASE AgreeToRollBack
    BY <1>4 DEF AgreeToRollBack, Ask, TypeOK
  <1>5. CASE CloseUnsaved
    BY <1>5 DEF CloseUnsaved
  <1>6. CASE CancelClose
    BY <1>6 DEF CancelClose, Ask, TypeOK
  <1>7. QED
    BY <1>1, <1>2, <1>3, <1>4, <1>5, <1>6

-----------------------------------------------------------------------------
(* What tasks do *)

\* Task r goes from one phase to another and leaves the other tasks alone.
Moves(r, from, to) ==
  /\ pc[r] \in from /\ pc' = [pc EXCEPT ![r] = to]
  /\ UNCHANGED uiVars
  /\ \A q \in Runs : q # r => at'[q] = at[q] /\ asked'[q] = asked[q]

Says(r, m) == m \in Message /\ m.run = r /\ inbox' = Append(inbox, m)

Opened(r) ==
  \E s \in Sessions :
    /\ Moves(r, {"opening"}, FirstRequest(r))
    /\ \E m : Says(r, m) /\ m.what = "session" /\ m.session = s
    /\ at'[r] = s /\ UNCHANGED <<asked, tx, ran>>
    /\ served[s] = "unborn" /\ served' = [served EXCEPT ![s] = "open"]
    /\ of' = [of EXCEPT ![s] = asked[r].on]

\* What a task that fails may have left at the service.
Failed(r) ==
  /\ Moves(r, Active \cup {"tail"}, "over")
  /\ \E m : Says(r, m) /\ m.what = "failed"
  /\ UNCHANGED <<ran, strays>>
  /\ \/ \E s \in Sessions :
          /\ pc[r] = "opening" /\ served[s] = "unborn"
          /\ served' = [served EXCEPT ![s] = "open"]
          /\ of' = [of EXCEPT ![s] = asked[r].on]
          /\ UNCHANGED tx
     \/ pc[r] = "tail" /\ UNCHANGED <<served, of, tx>>
     \/ /\ pc[r] \in Active /\ UNCHANGED <<served, of>>
        /\ \A s \in Sessions : tx'[s] # tx[s] => s = at[r] /\ pc[r] \in Holding

Retried(r) ==
  /\ Moves(r, {"begin", "query"}, "opening")
  /\ served[at[r]] = "gone" /\ UNCHANGED <<inbox, asked, ran, served, of, tx>>

Began(r) ==
  /\ Moves(r, {"begin"}, "query") /\ UNCHANGED <<inbox, asked, at, ran, served, of>>
  /\ tx' = [tx EXCEPT ![at[r]] = TRUE]

Started(r) ==
  /\ Moves(r, {"query"}, "executing") /\ served[at[r]] = "open"
  /\ ran' = [ran EXCEPT ![r] = @ + 1]
  /\ UNCHANGED <<inbox, asked, at, served, of, tx, strays>>

Finished(r) ==
  /\ Moves(r, {"executing"}, "tail") /\ UNCHANGED <<asked, at, ran, of>>
  /\ served' \in {served, [served EXCEPT ![at[r]] = "gone"]}
  /\ \E open \in BOOLEAN :
       /\ tx' = [tx EXCEPT ![at[r]] = open]
       /\ \E m : Says(r, m) /\ m.what = "done" /\ (m.tx \/ ~open)

Ended(r) ==
  /\ Moves(r, {"tail"}, "over")
  /\ UNCHANGED <<inbox, ran, served, of, tx, strays>>

Planned(r) ==
  /\ Moves(r, {"explaining"}, "over") /\ UNCHANGED ran
  /\ \E m : Says(r, m) /\ m.what = "plan"
  /\ UNCHANGED of
  /\ \A s \in Sessions : /\ tx'[s] /\ s \notin strays' => tx[s] /\ s \notin strays
                         /\ served'[s] \in {served[s], "gone"}

LEMMA MessageTyped ==
  ASSUME NEW r \in Runs, NEW s \in Sessions \cup {NoSession},
         NEW what \in {"session", "done", "failed", "plan"}, NEW open \in BOOLEAN,
         Tell(r, what, s, open)
  PROVE  \E m : /\ Says(r, m) /\ m.what = what /\ m.session = s
                /\ m.tx = open
  <1> DEFINE m == [what |-> what, run |-> r, session |-> s, tx |-> open]
  <1>1. m \in Message /\ m.run = r /\ m.what = what /\ m.session = s /\ m.tx = open
    BY DEF Message
  <1>2. inbox' = Append(inbox, m)
    BY DEF Tell
  <1>3. QED
    BY <1>1, <1>2 DEF Says

\* What a task leaves when it ends.
LEMMA OverMoves ==
  ASSUME TypeOK, NEW r \in Runs, NEW from, pc[r] \in from, Over(r),
         UNCHANGED uiVars
  PROVE  /\ Moves(r, from, "over")
         /\ asked' \in [Runs -> Task] /\ retried' \in [Runs -> BOOLEAN]
         /\ at' \in [Runs -> Sessions \cup {NoSession}]
         /\ at'[r] = NoSession
  BY Typed DEF Over, Moves, TypeOK

LEMMA GotoMoves ==
  ASSUME TypeOK, NEW r \in Runs, NEW from, NEW to, pc[r] \in from, Goto(r, to),
         UNCHANGED uiVars
  PROVE  Moves(r, from, to)
  BY DEF Goto, Moves

LEMMA FailMoves ==
  ASSUME TypeOK, NEW r \in Runs, NEW from, pc[r] \in from, Fail(r),
         UNCHANGED uiVars
  PROVE  /\ Moves(r, from, "over")
         /\ \E m : Says(r, m) /\ m.what = "failed"
         /\ asked' \in [Runs -> Task] /\ retried' \in [Runs -> BOOLEAN]
         /\ at' \in [Runs -> Sessions \cup {NoSession}]
  <1>1. Tell(r, "failed", NoSession, FALSE) /\ Over(r)
    BY DEF Fail
  <1> DEFINE m == [what |-> "failed", run |-> r, session |-> NoSession,
                   tx |-> FALSE]
  <1>2. m \in Message /\ m.run = r /\ m.what = "failed"
    BY DEF Message
  <1>3. inbox' = Append(inbox, m)
    BY <1>1 DEF Tell
  <1>4. \E n : Says(r, n) /\ n.what = "failed"
    BY <1>2, <1>3 DEF Says
  <1>5. QED
    BY <1>1, <1>4, OverMoves

LEMMA RetryMoves ==
  ASSUME TypeOK, NEW r \in Runs, NEW from, pc[r] \in from, Retry(r),
         UNCHANGED uiVars
  PROVE  /\ Moves(r, from, "opening")
         /\ UNCHANGED <<asked, inbox>> /\ retried' \in [Runs -> BOOLEAN]
         /\ at' \in [Runs -> Sessions \cup {NoSession}]
  BY DEF Retry, Moves, TypeOK

-----------------------------------------------------------------------------
(* Every step of a task is one of these, and keeps the types *)

\* The types of what tasks change.
TaskTypes ==
  /\ inbox \in Seq(Message)
  /\ pc \in [Runs -> {"none", "opening", "begin", "query", "executing", "tail",
                      "explaining", "over"}]
  /\ asked \in [Runs -> Task]
  /\ at \in [Runs -> Sessions \cup {NoSession}]
  /\ retried \in [Runs -> BOOLEAN]
  /\ served \in [Sessions -> {"unborn", "open", "gone"}]
  /\ of \in [Sessions -> Connections]
  /\ tx \in [Sessions -> BOOLEAN]
  /\ locked \in [Sessions -> BOOLEAN]
  /\ strays \subseteq Sessions
  /\ \A r \in Runs : pc[r] \in {"begin", "query", "executing", "tail"} =>
       at[r] \in Sessions

LEMMA Worked ==
  ASSUME TypeOK, NEW r \in Runs, TaskStep(r)
  PROVE  /\ TaskTypes'
         /\ \/ Opened(r) \/ Failed(r) \/ Retried(r) \/ Began(r) \/ Started(r)
            \/ Finished(r) \/ Ended(r) \/ Planned(r)
  <1> USE DEF Active, Holding, Said
  <1>0. TaskTypes /\ r \in Runs
    BY DEF TypeOK, TaskTypes
  <1>a. ASSUME NEW m, Says(r, m)
        PROVE  inbox' \in Seq(Message)
    BY <1>0, <1>a, Appended DEF Says, TaskTypes
  <1>1. ASSUME NEW s \in Sessions, OpenSession(r, s)
        PROVE  TaskTypes' /\ (Opened(r) \/ Failed(r))
    <2>1. /\ pc[r] = "opening" /\ served[s] = "unborn"
          /\ served' = [served EXCEPT ![s] = "open"]
          /\ of' = [of EXCEPT ![s] = asked[r].on]
          /\ UNCHANGED <<uiVars, ran, tx, locked, strays>>
      BY <1>1 DEF OpenSession
    <2>2. /\ served' \in [Sessions -> {"unborn", "open", "gone"}]
          /\ of' \in [Sessions -> Connections]
      BY <1>0, <2>1 DEF TaskTypes, Task
    <2>3. CASE /\ Tell(r, "session", s, FALSE)
               /\ at' = [at EXCEPT ![r] = s]
               /\ pc' = [pc EXCEPT ![r] = FirstRequest(r)]
               /\ UNCHANGED <<asked, retried>>
      <3>1. PICK m : Says(r, m) /\ m.what = "session" /\ m.session = s
        <4> DEFINE m == [what |-> "session", run |-> r, session |-> s,
                         tx |-> FALSE]
        <4>1. /\ m \in Message /\ m.run = r /\ m.what = "session"
              /\ m.session = s
          BY DEF Message
        <4>2. inbox' = Append(inbox, m)
          BY <2>3 DEF Tell
        <4>3. QED
          BY <4>1, <4>2 DEF Says
      <3>2. FirstRequest(r) \in {"begin", "query"}
        BY DEF FirstRequest
      <3>3. TaskTypes'
        BY <1>0, <1>a, <2>1, <2>2, <2>3, <3>1, <3>2 DEF TaskTypes
      <3>4. Moves(r, {"opening"}, FirstRequest(r)) /\ at'[r] = s
        BY <1>0, <2>1, <2>3 DEF Moves, TaskTypes
      <3>5. Opened(r)
        BY <2>1, <2>3, <3>1, <3>4 DEF Opened
      <3>6. QED
        BY <3>3, <3>5
    <2>4. CASE Fail(r)
      <3>1. /\ Moves(r, {"opening"}, "over")
            /\ \E m : Says(r, m) /\ m.what = "failed"
            /\ asked' \in [Runs -> Task] /\ retried' \in [Runs -> BOOLEAN]
            /\ at' \in [Runs -> Sessions \cup {NoSession}]
        BY <2>1, <2>4, FailMoves
      <3>2. TaskTypes'
        BY <1>0, <1>a, <2>1, <2>2, <3>1 DEF TaskTypes, Moves
      <3>3. Failed(r)
        BY <2>1, <3>1 DEF Failed, Moves
      <3>4. QED
        BY <3>2, <3>3
    <2>5. QED
      BY <1>1, <2>3, <2>4 DEF OpenSession
  \* A failure of a task that is at work and holds on to no new session.
  <1>b. ASSUME pc[r] \in Active, Fail(r),
               UNCHANGED <<uiVars, ran, served, of, strays>>,
               tx' \in [Sessions -> BOOLEAN], locked' \in [Sessions -> BOOLEAN],
               \A s \in Sessions : tx'[s] # tx[s] => s = at[r] /\ pc[r] \in Holding
        PROVE  TaskTypes' /\ Failed(r)
    <2>1. /\ Moves(r, Active, "over")
          /\ \E m : Says(r, m) /\ m.what = "failed"
          /\ asked' \in [Runs -> Task] /\ retried' \in [Runs -> BOOLEAN]
          /\ at' \in [Runs -> Sessions \cup {NoSession}]
      BY <1>b, FailMoves
    <2>2. TaskTypes'
      BY <1>0, <1>a, <1>b, <2>1 DEF TaskTypes, Moves
    <2>3. Failed(r)
      BY <1>b, <2>1 DEF Failed, Moves
    <2>4. QED
      BY <2>2, <2>3
  <1>2. ASSUME OpenFails(r) \/ RequestFails(r)
        PROVE  TaskTypes' /\ Failed(r)
    BY <1>0, <1>2, <1>b DEF OpenFails, RequestFails, Requesting, serviceVars,
       TaskTypes
  <1>3. ASSUME SendBegin(r)
        PROVE  TaskTypes' /\ (Began(r) \/ Failed(r))
    <2>1. /\ pc[r] = "begin" /\ at[r] \in Sessions
          /\ tx' = [tx EXCEPT ![at[r]] = TRUE]
          /\ UNCHANGED <<uiVars, ran, served, of, strays>>
      BY <1>0, <1>3 DEF SendBegin, TaskTypes
    <2>2. tx' \in [Sessions -> BOOLEAN] /\ locked' \in [Sessions -> BOOLEAN]
      BY <1>0, <1>3, <2>1 DEF SendBegin, TaskTypes
    <2>3. CASE Goto(r, "query") /\ UNCHANGED inbox
      <3>1. TaskTypes'
        BY <1>0, <2>1, <2>2, <2>3 DEF TaskTypes, Goto
      <3>2. Moves(r, {"begin"}, "query")
        BY <2>1, <2>3, GotoMoves
      <3>3. QED
        BY <2>1, <2>3, <3>1, <3>2 DEF Began, Goto
    <2>4. CASE Fail(r)
      BY <1>0, <1>b, <2>1, <2>2, <2>4 DEF TaskTypes
    <2>5. QED
      BY <1>3, <2>3, <2>4 DEF SendBegin
  <1>4. ASSUME SessionGone(r)
        PROVE  TaskTypes' /\ (Retried(r) \/ Failed(r))
    <2>1. /\ pc[r] \in {"begin", "query"} /\ served[at[r]] = "gone"
          /\ UNCHANGED <<uiVars, ran, served, of, tx, locked, strays>>
      BY <1>4 DEF SessionGone, Requesting, serviceVars
    <2>2. CASE Retry(r)
      <3>1. /\ Moves(r, {"begin", "query"}, "opening")
            /\ UNCHANGED <<asked, inbox>> /\ retried' \in [Runs -> BOOLEAN]
            /\ at' \in [Runs -> Sessions \cup {NoSession}]
        BY <2>1, <2>2, RetryMoves
      <3>2. TaskTypes'
        BY <1>0, <2>1, <3>1 DEF TaskTypes, Moves
      <3>3. QED
        BY <2>1, <3>1, <3>2 DEF Retried
    <2>3. CASE Fail(r)
      BY <1>0, <1>b, <2>1, <2>3 DEF TaskTypes
    <2>4. QED
      BY <1>4, <2>2, <2>3 DEF SessionGone
  <1>5. ASSUME Start(r)
        PROVE  TaskTypes' /\ Started(r)
    <2>1. /\ pc[r] = "query" /\ at[r] \in Sessions /\ served[at[r]] = "open"
          /\ Goto(r, "executing") /\ ran' = [ran EXCEPT ![r] = @ + 1]
          /\ locked' \in [Sessions -> BOOLEAN]
          /\ UNCHANGED <<uiVars, inbox, served, of, tx, strays>>
      BY <1>0, <1>5 DEF Start, Ready, TaskTypes
    <2>2. TaskTypes'
      BY <1>0, <2>1 DEF TaskTypes, Goto
    <2>3. Moves(r, {"query"}, "executing")
      BY <2>1, GotoMoves
    <2>4. QED
      BY <2>1, <2>2, <2>3 DEF Started, Goto
  <1>6. ASSUME Finish(r)
        PROVE  TaskTypes' /\ Finished(r)
    <2>1. /\ pc[r] = "executing" /\ at[r] \in Sessions /\ Goto(r, "tail")
          /\ UNCHANGED <<uiVars, ran, of>> /\ strays' = strays \ {at[r]}
          /\ locked' = [locked EXCEPT ![at[r]] = served'[at[r]] = "open"]
      BY <1>0, <1>6 DEF Finish, TaskTypes
    <2>2. /\ served' \in {served, [served EXCEPT ![at[r]] = "gone"]}
          /\ \E open \in BOOLEAN : /\ LeaveOpen(at[r], open)
                                   /\ Tell(r, "done", NoSession, open)
      <3>1. Outcomes(r) \subseteq BOOLEAN
        BY <1>0, <2>1 DEF Outcomes, TaskTypes
      <3>2. QED
        BY <1>6, <3>1 DEF Finish
    <2>3. PICK open \in BOOLEAN : /\ LeaveOpen(at[r], open)
                                  /\ Tell(r, "done", NoSession, open)
      BY <2>2
    <2>4. \E left \in BOOLEAN :
            tx' = [tx EXCEPT ![at[r]] = left] /\ (open \/ ~left)
      <3>1. (open /\ served[at[r]] = "open") \in BOOLEAN
        OBVIOUS
      <3>2. QED
        BY <2>3, <3>1 DEF LeaveOpen
    <2>5. PICK m : Says(r, m) /\ m.what = "done" /\ m.tx = open
      BY <2>3, MessageTyped
    <2>6. /\ served' \in [Sessions -> {"unborn", "open", "gone"}]
          /\ tx' \in [Sessions -> BOOLEAN] /\ locked' \in [Sessions -> BOOLEAN]
      BY <1>0, <2>1, <2>2, <2>4 DEF TaskTypes
    <2>7. TaskTypes'
      BY <1>0, <1>a, <2>1, <2>5, <2>6 DEF TaskTypes, Goto
    <2>8. Moves(r, {"executing"}, "tail")
      BY <2>1, GotoMoves
    <2>9. QED
      BY <2>1, <2>2, <2>4, <2>5, <2>7, <2>8 DEF Finished, Goto
  <1>7. ASSUME Break(r)
        PROVE  TaskTypes' /\ Failed(r)
    <2>1. /\ pc[r] = "executing" /\ at[r] \in Sessions /\ Fail(r)
          /\ UNCHANGED <<uiVars, ran, served, of, locked, strays>>
          /\ \E open : LeaveOpen(at[r], open)
      BY <1>0, <1>7 DEF Break, TaskTypes
    <2>2. /\ tx' \in [Sessions -> BOOLEAN]
          /\ \A s \in Sessions : tx'[s] # tx[s] => s = at[r]
      <3>1. PICK open : LeaveOpen(at[r], open)
        BY <2>1
      <3>2. (open /\ served[at[r]] = "open") \in BOOLEAN
        OBVIOUS
      <3>3. QED
        BY <1>0, <2>1, <3>1, <3>2 DEF LeaveOpen, TaskTypes
    <2>3. QED
      BY <1>0, <1>b, <2>1, <2>2 DEF TaskTypes
  <1>8. ASSUME EndOfStream(r)
        PROVE  TaskTypes' /\ (Ended(r) \/ Failed(r))
    <2>1. /\ pc[r] = "tail"
          /\ UNCHANGED <<uiVars, ran, served, of, tx, locked, strays>>
      BY <1>8 DEF EndOfStream, serviceVars
    <2>2. CASE Over(r) /\ UNCHANGED inbox
      <3>1. /\ Moves(r, {"tail"}, "over")
            /\ asked' \in [Runs -> Task] /\ retried' \in [Runs -> BOOLEAN]
            /\ at' \in [Runs -> Sessions \cup {NoSession}]
        BY <2>1, <2>2, OverMoves
      <3>2. TaskTypes'
        BY <1>0, <2>1, <2>2, <3>1 DEF TaskTypes, Moves
      <3>3. QED
        BY <2>1, <2>2, <3>1, <3>2 DEF Ended
    <2>3. CASE Fail(r)
      <3>1. /\ Moves(r, {"tail"}, "over")
            /\ \E m : Says(r, m) /\ m.what = "failed"
            /\ asked' \in [Runs -> Task] /\ retried' \in [Runs -> BOOLEAN]
            /\ at' \in [Runs -> Sessions \cup {NoSession}]
        BY <2>1, <2>3, FailMoves
      <3>2. TaskTypes'
        BY <1>0, <1>a, <2>1, <3>1 DEF TaskTypes, Moves
      <3>3. Failed(r)
        BY <2>1, <3>1 DEF Failed, Moves
      <3>4. QED
        BY <3>2, <3>3
    <2>4. QED
      BY <1>8, <2>2, <2>3 DEF EndOfStream
  <1>9. ASSUME Explained(r)
        PROVE  TaskTypes' /\ Planned(r)
    <2>1. /\ pc[r] = "explaining" /\ Over(r)
          /\ Tell(r, "plan", NoSession, FALSE)
          /\ UNCHANGED <<uiVars, ran, of, locked>>
      BY <1>9 DEF Explained
    <2>2. /\ Moves(r, {"explaining"}, "over")
          /\ asked' \in [Runs -> Task] /\ retried' \in [Runs -> BOOLEAN]
          /\ at' \in [Runs -> Sessions \cup {NoSession}]
      BY <2>1, OverMoves
    <2>3. PICK m : Says(r, m) /\ m.what = "plan"
      <3> DEFINE m == [what |-> "plan", run |-> r, session |-> NoSession,
                       tx |-> FALSE]
      <3>1. m \in Message /\ m.run = r /\ m.what = "plan"
        BY DEF Message
      <3>2. inbox' = Append(inbox, m)
        BY <2>1 DEF Tell
      <3>3. QED
        BY <3>1, <3>2 DEF Says
    <2>4. /\ served' \in [Sessions -> {"unborn", "open", "gone"}]
          /\ tx' \in [Sessions -> BOOLEAN] /\ strays' \subseteq Sessions
          /\ \A s \in Sessions :
               /\ tx'[s] /\ s \notin strays' => tx[s] /\ s \notin strays
               /\ served'[s] \in {served[s], "gone"}
      <3>1. CASE UNCHANGED <<tx, served, strays>>
        BY <1>0, <3>1 DEF TaskTypes
      <3>2. CASE /\ at[r] # NoSession /\ Ready(at[r])
                 /\ served' \in {served, [served EXCEPT ![at[r]] = "gone"]}
                 /\ \E open \in BOOLEAN :
                      tx' = [tx EXCEPT ![at[r]] =
                               open /\ served'[at[r]] = "open"]
                 /\ strays' = {s \in strays \cup {at[r]} :
                                tx'[s] /\ (s \in strays \/ ~tx[s])}
        <4>1. at[r] \in Sessions
          BY <1>0, <3>2 DEF TaskTypes
        <4>2. PICK open \in BOOLEAN :
                tx' = [tx EXCEPT ![at[r]] = open /\ served'[at[r]] = "open"]
          BY <3>2
        <4>3. PICK left \in BOOLEAN : tx' = [tx EXCEPT ![at[r]] = left]
          <5>1. (open /\ served'[at[r]] = "open") \in BOOLEAN
            OBVIOUS
          <5>2. QED
            BY <4>2, <5>1
        <4>4. /\ served' \in [Sessions -> {"unborn", "open", "gone"}]
              /\ \A s \in Sessions : served'[s] \in {served[s], "gone"}
          BY <1>0, <3>2, <4>1 DEF TaskTypes
        <4>5. /\ tx' \in [Sessions -> BOOLEAN]
              /\ \A s \in Sessions : s # at[r] => tx'[s] = tx[s]
          BY <1>0, <4>1, <4>3 DEF TaskTypes
        <4>6. strays' \subseteq Sessions
          BY <1>0, <3>2, <4>1 DEF TaskTypes
        <4>7. ASSUME NEW s \in Sessions, tx'[s], s \notin strays'
              PROVE  tx[s] /\ s \notin strays
          <5>1. strays' = {q \in strays \cup {at[r]} :
                           tx'[q] /\ (q \in strays \/ ~tx[q])}
            BY <3>2
          <5>2. QED
            BY <4>5, <4>7, <5>1
        <4>8. QED
          BY <4>4, <4>5, <4>6, <4>7
      <3>3. QED
        BY <1>9, <3>1, <3>2 DEF Explained
    <2>5. TaskTypes'
      BY <1>0, <1>a, <2>1, <2>2, <2>3, <2>4 DEF TaskTypes, Moves
    <2>6. QED
      BY <2>1, <2>2, <2>3, <2>4, <2>5 DEF Planned
  <1>10. QED
    BY <1>1, <1>2, <1>3, <1>4, <1>5, <1>6, <1>7, <1>8, <1>9 DEF TaskStep

-----------------------------------------------------------------------------
(* Other steps *)

LEMMA Moved ==
  ASSUME TypeOK, NEW r \in Runs, NEW from, NEW to, Moves(r, from, to)
  PROVE  /\ pc[r] \in from /\ pc'[r] = to
         /\ \A q \in Runs : q # r =>
              pc'[q] = pc[q] /\ at'[q] = at[q] /\ asked'[q] = asked[q]
         /\ UNCHANGED <<alive, run, running, session, in_transaction, agreed>>
  BY DEF Moves, TypeOK, uiVars

\* The UI thread takes the first message, which may end the run.
LEMMA Handled ==
  ASSUME TypeOK, Handle
  PROVE  /\ inbox # <<>> /\ inbox' = Tail(inbox)
         /\ UNCHANGED <<alive, run, taskVars, serviceVars>>
         /\ ~alive => UNCHANGED <<session, in_transaction, running, agreed>>
         /\ alive =>
              \/ /\ inbox[1].what = "session" /\ session' = inbox[1].session
                 /\ UNCHANGED <<in_transaction, running, agreed>>
              \/ /\ inbox[1].what = "done" /\ inbox[1].run = run
                 /\ ~running' /\ in_transaction' = inbox[1].tx
                 /\ session' = session
              \/ /\ inbox[1].what = "done" /\ inbox[1].run # run
                 /\ UNCHANGED <<session, in_transaction, running, agreed>>
              \/ /\ inbox[1].what = "failed" /\ session' = NoSession
                 /\ running' = (running /\ inbox[1].run # run)
                 /\ UNCHANGED <<in_transaction, agreed>>
              \/ /\ inbox[1].what = "plan"
                 /\ running' = (running /\ inbox[1].run # run)
                 /\ UNCHANGED <<session, in_transaction, agreed>>
         /\ TypeOK'
  <1> USE DEF taskVars, serviceVars
  <1>1. /\ inbox \in Seq(Message) /\ inbox # <<>> /\ inbox' = Tail(inbox)
        /\ UNCHANGED <<alive, connection, autocommit, run, asking, closing,
                       taskVars, serviceVars>>
    BY DEF TypeOK, Handle
  <1>2. /\ inbox' \in Seq(Message) /\ Head(inbox) = inbox[1]
        /\ inbox[1] \in Message
    BY <1>1, Taken
  <1>3. /\ inbox[1].tx \in BOOLEAN
        /\ inbox[1].session \in Sessions \cup {NoSession}
    BY <1>2 DEF Message
  <1>4. CASE ~alive
    <2>1. UNCHANGED <<session, in_transaction, running, agreed>>
      BY <1>4 DEF Handle
    <2>2. QED
      BY <1>1, <1>2, <1>4, <2>1 DEF TypeOK
  <1>5. CASE alive /\ SessionOpened(inbox[1])
    BY <1>1, <1>2, <1>3, <1>5 DEF SessionOpened, TypeOK
  <1>6. CASE alive /\ QueryDone(inbox[1])
    <2>1. CASE inbox[1].run = run
      BY <1>1, <1>2, <1>3, <1>6, <2>1 DEF QueryDone, TypeOK
    <2>2. CASE inbox[1].run # run
      BY <1>1, <1>2, <1>3, <1>6, <2>2 DEF QueryDone, TypeOK
    <2>3. QED
      BY <2>1, <2>2
  <1>7. CASE alive /\ QueryFailed(inbox[1])
    BY <1>1, <1>2, <1>7 DEF QueryFailed, TypeOK
  <1>8. CASE alive /\ PlanReady(inbox[1])
    BY <1>1, <1>2, <1>8 DEF PlanReady, TypeOK
  <1>9. QED
    BY <1>2, <1>4, <1>5, <1>6, <1>7, <1>8 DEF Handle

\* The service only ends sessions and what is open in them.
LEMMA Served ==
  ASSUME TypeOK, Service
  PROVE  /\ UNCHANGED <<alive, run, running, session, in_transaction, agreed,
                        inbox, taskVars, of>>
         /\ \A s \in Sessions : /\ tx'[s] => tx[s]
                                /\ served'[s] \in {served[s], "gone"}
                                /\ tx'[s] # tx[s] => served'[s] = "gone"
                                /\ s \in strays => s \in strays'
                                                  \/ served'[s] = "gone"
         /\ TypeOK'
  <1> USE DEF uiVars, dialogVars, taskVars, serviceVars
  <1>1. ASSUME NEW s \in Sessions, Unlock(s)
        PROVE  /\ UNCHANGED <<uiVars, inbox, taskVars, served, of, tx, strays>>
               /\ locked' \in [Sessions -> BOOLEAN]
    BY <1>1 DEF Unlock, TypeOK
  <1>2. ASSUME NEW s \in Sessions, Remove(s)
        PROVE  /\ UNCHANGED <<inbox, taskVars, of>>
               /\ \A q \in Sessions : /\ tx'[q] => tx[q]
                                      /\ served'[q] \in {served[q], "gone"}
                                      /\ tx'[q] # tx[q] => served'[q] = "gone"
                                      /\ q \in strays => q \in strays'
                                                        \/ served'[q] = "gone"
               /\ served' \in [Sessions -> {"unborn", "open", "gone"}]
               /\ tx' \in [Sessions -> BOOLEAN]
               /\ locked' \in [Sessions -> BOOLEAN]
               /\ strays' \subseteq Sessions
    BY <1>2 DEF Remove, TypeOK
  <1>3. CASE \E s \in Sessions : Unlock(s)
    BY <1>1, <1>3 DEF TypeOK
  <1>4. CASE \E s \in Sessions : Expire(s)
    <2>1. PICK s \in Sessions : Remove(s) /\ UNCHANGED uiVars
      BY <1>4 DEF Expire
    <2>2. QED
      BY <1>2, <2>1 DEF TypeOK
  <1>5. CASE CloseArrives
    <2>1. /\ closing \in Sessions /\ Remove(closing) /\ closing' = NoSession
          /\ UNCHANGED <<alive, connection, autocommit, in_transaction, session,
                         run, running, dialogVars>>
      BY <1>5 DEF CloseArrives, TypeOK
    <2>2. QED
      BY <1>2, <2>1 DEF TypeOK
  <1>6. QED
    BY <1>3, <1>4, <1>5 DEF Service

\* A new run, in the phase its tab's state asks for.
Begins(kind, phase) ==
  /\ Begin(kind, phase)
  /\ phase \in {"begin", "query"} => OwnSession # NoSession
  /\ phase = "query" => autocommit \/ in_transaction
  /\ phase = "explaining" <=> kind = "explain"

\* The tab drops its session, or the user agrees to roll it back, or nothing
\* that matters here happens.
Rests ==
  /\ UNCHANGED <<alive, run, running, inbox, taskVars, serviceVars>>
  /\ alive /\ session' \in {session, NoSession}
  /\ \/ UNCHANGED <<in_transaction, agreed>>
     \/ agreed' = session /\ session' = session

\* The service ends sessions and transactions, or nothing happens.
Fades ==
  /\ UNCHANGED <<alive, run, running, session, in_transaction, agreed, inbox,
                 taskVars, of>>
  /\ \A s \in Sessions : /\ tx'[s] => tx[s]
                         /\ served'[s] \in {served[s], "gone"}
                         /\ tx'[s] # tx[s] => served'[s] = "gone"
                         /\ s \in strays => s \in strays' \/ served'[s] = "gone"

TaskStepOf(r) ==
  \/ Opened(r) \/ Failed(r) \/ Retried(r) \/ Began(r)
  \/ Started(r) \/ Finished(r) \/ Ended(r) \/ Planned(r)

Phases == {"opening", "begin", "query", "explaining"}

\* A step, as the lemmas above describe it.
LEMMA StepCases ==
  ASSUME TypeOK, [Next]_vars
  PROVE  \/ \E kind \in Kinds, phase \in Phases : Begins(kind, phase)
         \/ CloseTab \/ Rests \/ (\E r \in Runs : TaskStepOf(r))
         \/ Handle \/ Fades
  <1> USE DEF Begins, Rests, Fades, TaskStepOf, Phases
  <1>1. CASE User
    BY <1>1, UserCases, Idled DEF UserStep
  <1>2. CASE \E r \in Runs : TaskStep(r)
    BY <1>2, Worked
  <1>3. CASE Service
    BY <1>3, Served
  <1>4. CASE UNCHANGED vars
    BY <1>4 DEF vars, uiVars, dialogVars, taskVars, serviceVars
  <1>5. QED
    BY <1>1, <1>2, <1>3, <1>4 DEF Next

-----------------------------------------------------------------------------
(* The invariant is inductive *)

LEMMA OnceStep ==
  ASSUME Inv, [Next]_vars
  PROVE  /\ Once' /\ ran' \in [Runs -> 0 .. 2]
         /\ \A r \in Runs : ran'[r] > ran[r] =>
              ran[r] = 0 /\ (\E q \in Runs : q = r /\ Started(q))
  <1> USE DEF Once, Active, Said
  <1>0. /\ TypeOK /\ Once /\ OneAtWork
        /\ ran \in [Runs -> 0 .. 2]
    BY DEF Inv, TypeOK
  <1>1. CASE \E kind \in Kinds, phase \in Phases : Begins(kind, phase)
    <2>1. PICK kind \in Kinds, phase \in Phases : Begin(kind, phase)
      BY <1>1 DEF Begins
    <2>2. /\ run \in Nat /\ run' = run + 1 /\ run' \in Runs /\ alive
          /\ pc'[run'] = phase /\ ran' = ran
          /\ \A r \in Runs : r # run' => pc'[r] = pc[r]
      BY <1>0, <2>1, Begun DEF Phases
    <2>3. pc[run'] = "none"
      BY <1>0, <2>2 DEF OneAtWork
    <2>4. QED
      BY <1>0, <2>2, <2>3
  <1>2. CASE CloseTab
    BY <1>0, <1>2, Closed DEF taskVars
  <1>3. CASE Rests \/ Fades
    BY <1>0, <1>3 DEF Rests, Fades, taskVars
  <1>4. ASSUME NEW r \in Runs, Started(r)
        PROVE  /\ Once' /\ ran' \in [Runs -> 0 .. 2] /\ ran[r] = 0
               /\ \A q \in Runs : q # r => ran'[q] = ran[q]
    <2>1. /\ pc[r] = "query" /\ pc'[r] = "executing"
          /\ \A q \in Runs : q # r => pc'[q] = pc[q]
          /\ ran' = [ran EXCEPT ![r] = @ + 1]
      BY <1>0, <1>4, Moved DEF Started
    <2>2. ran[r] = 0
      BY <1>0, <2>1
    <2>3. QED
      BY <1>0, <2>1, <2>2
  <1>5. ASSUME NEW r \in Runs, NEW from, NEW to, Moves(r, from, to), ran' = ran,
               pc[r] \in {"executing"} \cup Said => to \in Said
        PROVE  Once' /\ ran' \in [Runs -> 0 .. 2]
    BY <1>0, <1>5, Moved
  <1>6. ASSUME NEW r \in Runs, TaskStepOf(r), ~Started(r)
        PROVE  Once' /\ ran' \in [Runs -> 0 .. 2] /\ ran' = ran
    <2>1. CASE Failed(r) \/ Finished(r) \/ Ended(r) \/ Planned(r)
      <3>1. ran' = ran /\ \E from, to : Moves(r, from, to) /\ to \in Said
        BY <2>1 DEF Failed, Finished, Ended, Planned
      <3>2. QED
        BY <1>5, <3>1
    <2>2. CASE Opened(r) \/ Retried(r) \/ Began(r)
      <3>1. /\ ran' = ran /\ \E from, to : Moves(r, from, to)
            /\ pc[r] \notin {"executing"} \cup Said
        BY <2>2 DEF Opened, Retried, Began, Moves
      <3>2. QED
        BY <1>5, <3>1
    <2>3. QED
      BY <1>6, <2>1, <2>2 DEF TaskStepOf
  <1>7. CASE Handle
    BY <1>0, <1>7, Handled DEF taskVars
  <1>8. QED
    BY <1>0, <1>1, <1>2, <1>3, <1>4, <1>6, <1>7, StepCases

LEMMA TypeStep ==
  ASSUME Inv, [Next]_vars
  PROVE  TypeOK'
  <1>0. TypeOK
    BY DEF Inv
  <1>1. CASE UserStep
    <2>1. ASSUME NEW kind \in Kinds,
                 NEW phase \in {"opening", "begin", "query", "explaining"},
                 Begin(kind, phase),
                 phase \in {"begin", "query"} => OwnSession # NoSession
          PROVE  TypeOK'
      <3>1. /\ run' = run + 1 /\ run' \in Runs
            /\ running' = TRUE /\ alive' = alive
            /\ pc'[run'] = phase /\ at'[run'] = OwnSession
            /\ asked' \in [Runs -> Task]
            /\ \A r \in Runs : r # run' => pc'[r] = pc[r] /\ at'[r] = at[r]
            /\ pc' \in [Runs -> {"none", "opening", "begin", "query",
                                 "executing", "tail", "explaining", "over"}]
            /\ at' \in [Runs -> Sessions \cup {NoSession}]
            /\ UNCHANGED <<connection, autocommit, in_transaction, session,
                           dialogVars, closing, inbox, retried, ran,
                           serviceVars>>
        BY <1>0, <2>1, Begun DEF Begin
      <3>2. run' \in 0 .. MaxRuns
        BY <3>1, TabAssumption DEF Runs
      <3>3. \A r \in Runs : pc'[r] \in {"begin", "query", "executing", "tail"} =>
              at'[r] \in Sessions
        BY <1>0, <2>1, <3>1, Own DEF TypeOK
      <3>4. QED
        BY <1>0, <3>1, <3>2, <3>3 DEF TypeOK, dialogVars, serviceVars
    <2>2. QED
      BY <1>0, <1>1, <2>1, Closed, Idled DEF UserStep
  <1>2. CASE \E r \in Runs : TaskStep(r)
    <2>1. TaskTypes' /\ ran' \in [Runs -> 0 .. 2] /\ UNCHANGED uiVars
      BY <1>0, <1>2, Worked, OnceStep DEF Opened, Failed, Retried, Began,
         Started, Finished, Ended, Planned, Moves
    <2>2. QED
      BY <1>0, <2>1 DEF TypeOK, TaskTypes, uiVars
  <1>3. CASE Handle \/ Service
    BY <1>0, <1>3, Handled, Served
  <1>4. CASE UNCHANGED vars
    BY <1>0, <1>4 DEF vars, uiVars, dialogVars, taskVars, serviceVars, TypeOK
  <1>5. QED
    BY <1>0, <1>1, <1>2, <1>3, <1>4, UserCases DEF Next

LEMMA OneAtWorkStep ==
  ASSUME Inv, [Next]_vars
  PROVE  OneAtWork'
  <1>0. TypeOK /\ OneAtWork /\ InOrder /\ inbox \in Seq(Message) /\ Runs \subseteq Nat
    BY Typed DEF Inv, TypeOK
  <1>a. \A i \in Places : inbox[i].run \in Runs
    BY <1>0, Addressed DEF Message
  <1>1. ASSUME NEW kind \in Kinds, NEW phase \in Phases, Begins(kind, phase)
        PROVE  OneAtWork'
    <2>1. /\ run \in Nat /\ run' = run + 1 /\ run' \in Runs /\ alive /\ ~running
          /\ running' /\ pc'[run'] = phase /\ inbox' = inbox
          /\ \A r \in Runs : r # run' => pc'[r] = pc[r]
      BY <1>0, <1>1, Begun DEF Phases, Begins
    <2>2. pc[run'] = "none" /\ \A r \in Runs : pc[r] \notin Active
      <3>1. run' > run
        BY <2>1
      <3>2. QED
        BY <1>0, <2>1, <3>1 DEF OneAtWork
    <2>3. \A r \in Runs : r > run' => r > run
      BY <1>0, <2>1
    <2>4. \A i \in Places : Terminal(inbox[i]) => pc'[inbox[i].run] \in Said
      BY <1>0, <1>a, <2>1, <2>2 DEF OneAtWork, Said
    <2>5. phase \notin {"none"}
      BY DEF Phases
    <2>6. \A r \in Runs : r > run' => pc'[r] = "none"
      <3>1. \A r \in Runs : r > run' => r # run'
        BY <1>0, <2>1
      <3>2. QED
        BY <1>0, <2>1, <2>3, <3>1 DEF OneAtWork
    <2>7. \A r \in Runs : pc'[r] \in Active => r = run' /\ running'
      BY <2>1, <2>2
    <2>8. \A i \in Places' : Terminal(inbox'[i]) => pc'[inbox'[i].run] \in Said
      BY <2>1, <2>4 DEF Places, Terminal
    <2>9. QED
      BY <2>6, <2>7, <2>8 DEF OneAtWork
  <1>2. CASE CloseTab
    BY <1>0, <1>2, Closed DEF OneAtWork, taskVars, Places
  <1>3. CASE Rests \/ Fades
    BY <1>0, <1>3 DEF Rests, Fades, taskVars, OneAtWork, Places
  <1>4. ASSUME NEW r \in Runs, TaskStepOf(r)
        PROVE  OneAtWork'
    <2>1. /\ \E from, to : Moves(r, from, to)
          /\ pc[r] \in Active \cup Said /\ (pc[r] \in Said => pc'[r] \in Said)
          /\ pc'[r] # "none"
          /\ \/ inbox' = inbox
             \/ \E m : Says(r, m) /\ (Terminal(m) => pc'[r] \in Said)
      <3>1. FirstRequest(r) \in {"begin", "query"}
        BY DEF FirstRequest
      <3>2. CASE Opened(r)
        BY <1>0, <3>1, <3>2, Moved DEF Opened, Active, Said, Terminal
      <3>3. CASE Failed(r)
        BY <1>0, <3>3, Moved DEF Failed, Active, Said
      <3>4. CASE Retried(r) \/ Began(r) \/ Started(r) \/ Ended(r)
        BY <1>0, <3>4, Moved DEF Retried, Began, Started, Ended, Active, Said
      <3>5. CASE Finished(r) \/ Planned(r)
        BY <1>0, <3>5, Moved DEF Finished, Planned, Active, Said
      <3>6. QED
        BY <1>4, <3>2, <3>3, <3>4, <3>5 DEF TaskStepOf
    <2>2. /\ UNCHANGED <<alive, run, running>>
          /\ \A q \in Runs : q # r => pc'[q] = pc[q]
      BY <1>0, <2>1, Moved
    <2>3. \A i \in Places' : Terminal(inbox'[i]) => pc'[inbox'[i].run] \in Said
      <3>1. \A i \in Places : Terminal(inbox[i]) => pc'[inbox[i].run] \in Said
        BY <1>0, <1>a, <2>1, <2>2 DEF OneAtWork
      <3>2. CASE inbox' = inbox
        BY <3>1, <3>2 DEF Places
      <3>3. ASSUME NEW m, Says(r, m), Terminal(m) => pc'[r] \in Said
            PROVE  \A i \in Places' : Terminal(inbox'[i]) =>
                                        pc'[inbox'[i].run] \in Said
        BY <1>0, <3>1, <3>3, Appended, ZenonT(40) DEF Says
      <3>4. QED
        BY <2>1, <3>2, <3>3
    <2>4. \A q \in Runs : pc'[q] \in Active => pc[q] \in Active
      BY <2>1, <2>2 DEF Active, Said
    <2>5. alive => \A q \in Runs : q > run => pc'[q] = "none"
      BY <1>0, <2>1, <2>2 DEF OneAtWork, Active, Said
    <2>6. QED
      BY <1>0, <2>2, <2>3, <2>4, <2>5 DEF OneAtWork
  <1>5. CASE Handle
    <2>1. /\ inbox # <<>> /\ inbox' = Tail(inbox)
          /\ UNCHANGED <<alive, run, pc>>
          /\ ~alive => running' = running
          /\ alive => \/ running' = running
                      \/ Terminal(inbox[1]) /\ inbox[1].run = run
      BY <1>0, <1>5, Handled DEF taskVars, Terminal, TypeOK
    <2>2. \A i \in Places' : Terminal(inbox'[i]) => pc[inbox'[i].run] \in Said
      BY <1>0, <2>1, Taken DEF OneAtWork
    <2>3. alive => \A r \in Runs : pc[r] \in Active => r = run /\ running'
      <3>1. CASE running' = running
        BY <1>0, <3>1 DEF OneAtWork
      <3>2. CASE alive /\ Terminal(inbox[1]) /\ inbox[1].run = run
        <4>1. pc[run] \in Said
          BY <1>0, <2>1, <3>2, Taken DEF OneAtWork
        <4>2. \A r \in Runs : pc[r] \notin Active
          BY <1>0, <3>2, <4>1 DEF OneAtWork, Active, Said
        <4>3. QED
          BY <4>2
      <3>3. QED
        BY <2>1, <3>1, <3>2
    <2>4. QED
      BY <1>0, <2>1, <2>2, <2>3 DEF OneAtWork
  <1>6. QED
    BY <1>0, <1>1, <1>2, <1>3, <1>4, <1>5, StepCases

LEMMA InOrderStep ==
  ASSUME Inv, [Next]_vars
  PROVE  InOrder'
  <1>0. TypeOK /\ OneAtWork /\ InOrder /\ inbox \in Seq(Message) /\ Runs \subseteq Nat
    BY Typed DEF Inv, TypeOK
  <1>1. ASSUME NEW kind \in Kinds, NEW phase \in Phases, Begins(kind, phase)
        PROVE  InOrder'
    <2>1. alive /\ ~running /\ inbox' = inbox
      BY <1>0, <1>1, Begun DEF Phases, Begins
    <2>2. \A i \in Places : inbox[i].what = "failed"
      BY <1>0, <2>1 DEF InOrder
    <2>3. QED
      BY <2>1, <2>2 DEF InOrder, Places
  <1>2. CASE CloseTab
    BY <1>0, <1>2, Closed DEF InOrder
  <1>3. CASE Rests \/ Fades
    <2>1. UNCHANGED <<alive, run, running, inbox>>
      BY <1>3 DEF Rests, Fades
    <2>2. QED
      BY <1>0, <2>1 DEF InOrder, Places
  <1>4. ASSUME NEW r \in Runs, TaskStepOf(r)
        PROVE  InOrder'
    <2>1. /\ \E from, to : Moves(r, from, to)
          /\ \/ inbox' = inbox
             \/ \E m : Says(r, m) /\ (m.what = "failed" \/ pc[r] \in Active)
      BY <1>4 DEF TaskStepOf, Opened, Failed, Retried, Began, Started, Finished,
         Ended, Planned, Moves, Active
    <2>2. UNCHANGED <<alive, run, running>>
      BY <1>0, <2>1, Moved
    <2>3. CASE inbox' = inbox
      BY <1>0, <2>2, <2>3 DEF InOrder, Places
    <2>4. ASSUME NEW m, Says(r, m), m.what = "failed" \/ pc[r] \in Active, alive
          PROVE  InOrder'
      <3>1. /\ Len(inbox) \in Nat /\ Len(inbox') = Len(inbox) + 1
            /\ \A i \in Places : i \in Places' /\ inbox'[i] = inbox[i]
            /\ Len(inbox') \in Places' /\ inbox'[Len(inbox')] = m
            /\ \A i \in Places' : i \in Places \/ i = Len(inbox')
            /\ m.run = r
        BY <1>0, <2>4, Appended DEF Says
      <3>2. m.what = "failed" \/
            (r = run /\ running /\ pc[run] \notin Said)
        BY <1>0, <2>4 DEF OneAtWork, Active, Said
      <3>3. \A i \in Places' : inbox'[i].what = "failed"
                               \/ (running /\ inbox'[i].run = run)
        BY <1>0, <2>4, <3>1, <3>2 DEF InOrder
      <3>4. ASSUME NEW i \in Places', NEW j \in Places', i < j,
                   inbox'[i].run = run, Terminal(inbox'[i])
            PROVE  inbox'[j].what = "failed"
        <4>1. i \in Places
          BY <3>1, <3>4 DEF Places
        <4>2. CASE j \in Places
          BY <1>0, <2>4, <3>1, <3>4, <4>1, <4>2 DEF InOrder
        <4>3. CASE j = Len(inbox')
          <5>1. pc[run] \in Said
            BY <1>0, <3>1, <3>4, <4>1 DEF OneAtWork
          <5>2. QED
            BY <3>1, <3>2, <4>3, <5>1
        <4>4. QED
          BY <3>1, <4>2, <4>3
      <3>5. QED
        BY <2>2, <3>3, <3>4 DEF InOrder
    <2>5. QED
      BY <2>1, <2>2, <2>3, <2>4 DEF InOrder
  <1>5. CASE Handle
    <2> SUFFICES ASSUME alive
                 PROVE  InOrder'
      BY <1>0, <1>5, Handled DEF InOrder
    <2>1. /\ inbox # <<>> /\ inbox' = Tail(inbox)
          /\ UNCHANGED <<alive, run>>
          /\ \/ running' = running
             \/ Terminal(inbox[1]) /\ inbox[1].run = run
      BY <1>0, <1>5, Handled DEF taskVars, Terminal, TypeOK
    <2>2. /\ 1 \in Places /\ Len(inbox) \in Nat /\ Len(inbox') = Len(inbox) - 1
          /\ \A i \in Places' : i + 1 \in Places /\ inbox'[i] = inbox[i + 1]
                                /\ 1 < i + 1
      BY <1>0, <2>1, Taken
    <2>3. ASSUME NEW i \in Places', NEW j \in Places', i < j,
                 inbox'[i].run = run, Terminal(inbox'[i])
          PROVE  inbox'[j].what = "failed"
      <3>1. i + 1 < j + 1
        BY <2>2, <2>3 DEF Places
      <3>2. QED
        BY <1>0, <2>2, <2>3, <3>1 DEF InOrder
    <2>4. \A i \in Places' : inbox'[i].what = "failed"
                             \/ (running' /\ inbox'[i].run = run)
      <3>1. CASE running' = running
        BY <1>0, <2>2, <3>1 DEF InOrder
      <3>2. CASE Terminal(inbox[1]) /\ inbox[1].run = run
        <4>1. \A i \in Places : 1 < i => inbox[i].what = "failed"
          BY <1>0, <2>2, <3>2 DEF InOrder
        <4>2. QED
          BY <2>2, <4>1
      <3>3. QED
        BY <2>1, <3>1, <3>2
    <2>5. QED
      BY <2>1, <2>3, <2>4 DEF InOrder
  <1>6. QED
    BY <1>0, <1>1, <1>2, <1>3, <1>4, <1>5, StepCases

\* Targets is preserved: only sessions nobody knew are opened, and only what
\* holds a session touches its transaction without ending the session.
LEMMA TargetsStep ==
  ASSUME Inv, [Next]_vars
  PROVE  Targets'
  <1> USE DEF Holding
  <1>0. /\ TypeOK /\ OneAtWork /\ Targets /\ inbox \in Seq(Message)
        /\ served \in [Sessions -> {"unborn", "open", "gone"}]
        /\ of \in [Sessions -> Connections] /\ tx \in [Sessions -> BOOLEAN]
        /\ at \in [Runs -> Sessions \cup {NoSession}]
        /\ session \in Sessions \cup {NoSession}
        /\ \A r \in Runs : pc[r] \in Holding \cup {"tail"} => at[r] \in Sessions
    BY DEF Inv, TypeOK
  \* Known sessions stay known, and in their place.
  <1>a. ASSUME inbox' = inbox, session' \in {session, NoSession},
               \A s \in Sessions : served[s] # "unborn" => served'[s] # "unborn"
        PROVE  /\ session' # NoSession => served'[session'] # "unborn"
               /\ \A i \in Places' : ~Terminal(inbox'[i]) =>
                    /\ inbox'[i].session \in Sessions
                    /\ served'[inbox'[i].session] # "unborn"
    BY <1>0, <1>a DEF Targets, Places
  <1>b. ASSUME NEW m, NEW r, Says(r, m), session' = session,
               \A s \in Sessions : served[s] # "unborn" => served'[s] # "unborn",
               ~Terminal(m) => m.session \in Sessions
                               /\ served'[m.session] # "unborn"
        PROVE  /\ session' # NoSession => served'[session'] # "unborn"
               /\ \A i \in Places' : ~Terminal(inbox'[i]) =>
                    /\ inbox'[i].session \in Sessions
                    /\ served'[inbox'[i].session] # "unborn"
    <2>1. /\ \A i \in Places : i \in Places' /\ inbox'[i] = inbox[i]
          /\ Len(inbox') \in Places' /\ inbox'[Len(inbox')] = m
          /\ \A i \in Places' : i \in Places \/ i = Len(inbox')
      BY <1>0, <1>b, Appended DEF Says
    <2>2. ASSUME NEW i \in Places', ~Terminal(inbox'[i])
          PROVE  /\ inbox'[i].session \in Sessions
                 /\ served'[inbox'[i].session] # "unborn"
      <3>1. CASE i \in Places
        BY <1>0, <1>b, <2>1, <2>2, <3>1 DEF Targets
      <3>2. CASE i = Len(inbox')
        BY <1>b, <2>1, <2>2, <3>2
      <3>3. QED
        BY <2>1, <3>1, <3>2
    <2>3. QED
      BY <1>0, <1>b, <2>2 DEF Targets
  <1>1. ASSUME NEW kind \in Kinds, NEW phase \in Phases, Begins(kind, phase)
        PROVE  Targets'
    <2>1. /\ run' \in Runs /\ ~running /\ alive
          /\ pc'[run'] = phase /\ at'[run'] = OwnSession
          /\ asked'[run'].on = connection
          /\ asked'[run'].begin = (kind # "explain" /\ ~autocommit
                                   /\ ~in_transaction)
          /\ \A r \in Runs : r # run' => /\ pc'[r] = pc[r] /\ at'[r] = at[r]
                                         /\ asked'[r] = asked[r]
          /\ UNCHANGED <<inbox, session, served, of, tx>>
      BY <1>0, <1>1, Begun DEF Phases, Begins, serviceVars
    <2>2. phase \in Holding => /\ served[OwnSession] # "unborn"
                               /\ of[OwnSession] = connection
      BY <1>0, <1>1, Own DEF Targets, Begins, Phases
    <2>3. phase = "query" => ~asked'[run'].begin
      BY <1>1, <2>1 DEF Begins
    <2>4. phase # "tail"
      BY DEF Phases
    <2>5. /\ \A r \in Runs : pc'[r] \in Holding \cup {"tail"} =>
               served'[at'[r]] # "unborn" /\ of'[at'[r]] = asked'[r].on
          /\ \A r \in Runs : pc'[r] = "query" /\ asked'[r].begin =>
               tx'[at'[r]] \/ served'[at'[r]] = "gone"
      BY <1>0, <2>1, <2>2, <2>3, <2>4 DEF Targets
    <2>6. QED
      BY <1>a, <2>1, <2>5 DEF Targets
  <1>2. CASE CloseTab \/ Rests
    <2>1. /\ UNCHANGED <<pc, at, asked, served, of, tx, inbox>>
          /\ session' \in {session, NoSession}
      BY <1>0, <1>2, Closed DEF Rests, taskVars, serviceVars
    <2>2. QED
      BY <1>0, <1>a, <2>1 DEF Targets
  <1>3. ASSUME NEW r \in Runs, TaskStepOf(r)
        PROVE  Targets'
    <2>1. UNCHANGED <<alive, run, running, session, in_transaction, agreed>>
          /\ \A q \in Runs : q # r =>
               pc'[q] = pc[q] /\ at'[q] = at[q] /\ asked'[q] = asked[q]
      BY <1>0, <1>3, Moved DEF TaskStepOf, Opened, Failed, Retried, Began,
         Started, Finished, Ended, Planned
    <2>2. \A q \in Runs : q # r /\ pc[q] \in Active => pc[r] \notin Active
      BY <1>0 DEF OneAtWork
    \* Other tasks are not disturbed.
    <2>a. ASSUME \A s \in Sessions : served[s] # "unborn" =>
                   served'[s] # "unborn" /\ of'[s] = of[s],
                 pc[r] \in Active
          PROVE  \A q \in Runs : q # r =>
                   /\ pc'[q] \in Holding \cup {"tail"} =>
                        served'[at'[q]] # "unborn" /\ of'[at'[q]] = asked'[q].on
                   /\ ~(pc'[q] = "query")
      BY <1>0, <2>1, <2>2, <2>a DEF Targets, Active
    <2>3. CASE Opened(r)
      <3>0. PICK s \in Sessions :
              /\ Moves(r, {"opening"}, FirstRequest(r))
              /\ \E m : Says(r, m) /\ m.what = "session" /\ m.session = s
              /\ at'[r] = s /\ UNCHANGED <<asked, tx>>
              /\ served[s] = "unborn" /\ served' = [served EXCEPT ![s] = "open"]
              /\ of' = [of EXCEPT ![s] = asked[r].on]
        BY <2>3 DEF Opened
      <3>1. /\ pc[r] = "opening" /\ pc'[r] \in {"begin", "query"}
            /\ pc'[r] = "query" => ~asked[r].begin
        <4>1. pc[r] = "opening" /\ pc'[r] = FirstRequest(r)
          BY <1>0, <3>0, Moved
        <4>2. QED
          BY <4>1 DEF FirstRequest
      <3>2. /\ served'[s] = "open" /\ of'[s] = asked[r].on
            /\ \A q \in Sessions : served[q] # "unborn" =>
                 served'[q] # "unborn" /\ of'[q] = of[q]
        BY <1>0, <3>0
      <3>3. \A q \in Runs : q # r =>
              /\ pc'[q] \in Holding \cup {"tail"} =>
                   served'[at'[q]] # "unborn" /\ of'[at'[q]] = asked'[q].on
              /\ ~(pc'[q] = "query")
        BY <2>a, <3>1, <3>2 DEF Active
      <3>4. /\ session' # NoSession => served'[session'] # "unborn"
            /\ \A i \in Places' : ~Terminal(inbox'[i]) =>
                 /\ inbox'[i].session \in Sessions
                 /\ served'[inbox'[i].session] # "unborn"
        BY <1>b, <2>1, <3>0, <3>2
      <3>5. QED
        BY <3>0, <3>1, <3>2, <3>3, <3>4 DEF Targets
    <2>4. CASE Failed(r)
      <3>1. /\ pc[r] \in Active \cup {"tail"} /\ pc'[r] = "over"
            /\ \E m : Says(r, m) /\ Terminal(m)
        BY <1>0, <2>4, Moved DEF Failed, Terminal
      <3>2. \A s \in Sessions : served[s] # "unborn" =>
              served'[s] # "unborn" /\ of'[s] = of[s]
        BY <1>0, <2>4 DEF Failed
      <3>3. /\ session' # NoSession => served'[session'] # "unborn"
            /\ \A i \in Places' : ~Terminal(inbox'[i]) =>
                 /\ inbox'[i].session \in Sessions
                 /\ served'[inbox'[i].session] # "unborn"
        BY <1>b, <2>1, <3>1, <3>2
      <3>4. CASE pc[r] = "tail"
        <4>1. UNCHANGED <<served, of, tx>>
          BY <2>4, <3>4 DEF Failed, Active
        <4>2. QED
          BY <1>0, <2>1, <3>1, <3>3, <4>1 DEF Targets
      <3>5. CASE pc[r] \in Active
        BY <2>a, <3>1, <3>2, <3>3, <3>5 DEF Targets
      <3>6. QED
        BY <3>1, <3>4, <3>5
    <2>5. CASE Retried(r)
      <3>1. /\ pc[r] \in Active /\ pc'[r] = "opening"
            /\ UNCHANGED <<inbox, served, of, tx>>
        BY <1>0, <2>5, Moved DEF Retried, Active
      <3>2. QED
        BY <1>a, <2>1, <2>a, <3>1 DEF Targets
    <2>6. CASE Began(r)
      <3>1. /\ pc[r] = "begin" /\ pc'[r] = "query"
            /\ UNCHANGED <<inbox, served, of, at, asked>>
            /\ tx' = [tx EXCEPT ![at[r]] = TRUE]
        BY <1>0, <2>6, Moved DEF Began
      <3>2. tx'[at[r]] /\ at[r] \in Sessions
        BY <1>0, <3>1
      <3>3. served[at[r]] # "unborn" /\ of[at[r]] = asked[r].on
        BY <1>0, <3>1 DEF Targets
      <3>4. QED
        BY <1>a, <2>1, <2>a, <3>1, <3>2, <3>3 DEF Targets, Active
    <2>7. CASE Started(r)
      <3>1. /\ pc[r] = "query" /\ pc'[r] = "executing"
            /\ UNCHANGED <<inbox, served, of, at, asked, tx>>
        BY <1>0, <2>7, Moved DEF Started
      <3>2. served[at[r]] # "unborn" /\ of[at[r]] = asked[r].on
        BY <1>0, <3>1 DEF Targets
      <3>3. QED
        BY <1>a, <2>1, <2>a, <3>1, <3>2 DEF Targets, Active
    <2>8. CASE Finished(r)
      <3>1. /\ pc[r] = "executing" /\ pc'[r] = "tail"
            /\ UNCHANGED <<of, at, asked>>
            /\ served' \in {served, [served EXCEPT ![at[r]] = "gone"]}
            /\ \E m : Says(r, m) /\ Terminal(m)
        BY <1>0, <2>8, Moved DEF Finished, Terminal
      <3>2. \A s \in Sessions : served[s] # "unborn" => served'[s] # "unborn"
        BY <1>0, <3>1
      <3>3. /\ served[at[r]] # "unborn" /\ of[at[r]] = asked[r].on
            /\ at[r] \in Sessions
        BY <1>0, <3>1 DEF Targets
      <3>4. /\ session' # NoSession => served'[session'] # "unborn"
            /\ \A i \in Places' : ~Terminal(inbox'[i]) =>
                 /\ inbox'[i].session \in Sessions
                 /\ served'[inbox'[i].session] # "unborn"
        BY <1>b, <2>1, <3>1, <3>2
      <3>5. QED
        BY <2>a, <3>1, <3>2, <3>3, <3>4 DEF Targets, Active
    <2>9. CASE Ended(r)
      <3>1. /\ pc'[r] = "over" /\ UNCHANGED <<inbox, served, of, tx>>
        BY <1>0, <2>9, Moved DEF Ended
      <3>2. QED
        BY <1>0, <1>a, <2>1, <3>1 DEF Targets
    <2>10. CASE Planned(r)
      <3>1. /\ pc[r] = "explaining" /\ pc'[r] = "over" /\ UNCHANGED of
            /\ \A s \in Sessions : served'[s] \in {served[s], "gone"}
            /\ \E m : Says(r, m) /\ Terminal(m)
        BY <1>0, <2>10, Moved DEF Planned, Terminal
      <3>2. \A s \in Sessions : served[s] # "unborn" => served'[s] # "unborn"
        BY <3>1
      <3>3. /\ session' # NoSession => served'[session'] # "unborn"
            /\ \A i \in Places' : ~Terminal(inbox'[i]) =>
                 /\ inbox'[i].session \in Sessions
                 /\ served'[inbox'[i].session] # "unborn"
        BY <1>b, <2>1, <3>1, <3>2
      <3>4. QED
        BY <2>a, <3>1, <3>2, <3>3 DEF Targets, Active
    <2>11. QED
      BY <1>3, <2>3, <2>4, <2>5, <2>6, <2>7, <2>8, <2>9, <2>10 DEF TaskStepOf
  <1>4. CASE Handle
    <2>1. /\ inbox # <<>> /\ inbox' = Tail(inbox)
          /\ UNCHANGED <<pc, at, asked, served, of, tx>>
          /\ \/ session' \in {session, NoSession}
             \/ ~Terminal(inbox[1]) /\ session' = inbox[1].session
      BY <1>0, <1>4, Handled DEF taskVars, serviceVars, Terminal
    <2>2. /\ 1 \in Places
          /\ \A i \in Places' : i + 1 \in Places /\ inbox'[i] = inbox[i + 1]
      BY <1>0, <2>1, Taken
    <2>3. session' # NoSession => served'[session'] # "unborn"
      BY <1>0, <2>1, <2>2 DEF Targets
    <2>4. QED
      BY <1>0, <2>1, <2>2, <2>3 DEF Targets
  <1>5. CASE Fades
    <2>1. /\ UNCHANGED <<session, inbox, pc, at, asked, of>>
          /\ \A s \in Sessions : /\ served'[s] \in {served[s], "gone"}
                                 /\ tx'[s] # tx[s] => served'[s] = "gone"
      BY <1>5 DEF Fades, taskVars
    <2>2. \A s \in Sessions : served[s] # "unborn" => served'[s] # "unborn"
      BY <2>1
    <2>3. \A r \in Runs : pc[r] = "query" /\ asked[r].begin =>
            tx'[at[r]] \/ served'[at[r]] = "gone"
      <3> SUFFICES ASSUME NEW r \in Runs, pc[r] = "query", asked[r].begin
                   PROVE  tx'[at[r]] \/ served'[at[r]] = "gone"
        OBVIOUS
      <3>1. at[r] \in Sessions /\ (tx[at[r]] \/ served[at[r]] = "gone")
        BY <1>0 DEF Targets
      <3>2. QED
        BY <2>1, <3>1
    <2>4. QED
      BY <1>0, <1>a, <2>1, <2>2, <2>3 DEF Targets
  <1>6. QED
    BY <1>0, <1>1, <1>2, <1>3, <1>4, <1>5, StepCases

\* What is known stays known when nothing is said but failures, sessions only
\* lose transactions, and tasks end or keep their session.
LEMMA KnownKept ==
  ASSUME Known, TypeOK,
         UNCHANGED <<alive, running, run>>,
         session' \in {session, NoSession}, ~alive => session' = session,
         Quiet => Quiet',
         \A s \in Sessions : Open(s)' => Open(s),
         \A s \in Sessions : News(s)' <=> News(s),
         \A i \in Places' : \/ inbox'[i].what = "failed"
                            \/ i \in Places /\ inbox'[i] = inbox[i],
         \A r \in Runs : \/ pc'[r] \in Said
                         \/ pc'[r] = pc[r] /\ at'[r] = at[r]
                         \/ /\ pc[r] \in Holding /\ pc'[r] \in Holding
                            /\ at'[r] = at[r]
  PROVE  Known'
  <1>0. session \in Sessions \cup {NoSession}
    BY DEF TypeOK
  <1>1. Open(session)' => Open(session)
    BY <1>0 DEF Open
  <1>2. NoNews' <=> NoNews
    BY DEF NoNews
  <1>3. ASSUME NEW r \in Runs, alive, r = run
        PROVE  /\ pc'[r] = "explaining" => Quiet' /\ NoNews'
               /\ pc'[r] = "opening" => \A s \in Sessions : News(s)' => ~Open(s)'
               /\ pc'[r] \in Holding => Follows(r)'
    <2>1. CASE pc'[r] \in Said
      BY <2>1 DEF Said, Holding
    <2>2. CASE /\ at'[r] = at[r]
               /\ pc'[r] = pc[r] \/ (pc[r] \in Holding /\ pc'[r] \in Holding)
      <3>1. pc'[r] = "explaining" => Quiet /\ NoNews
        BY <1>3, <2>2 DEF Known, Holding
      <3>2. pc'[r] = "opening" => \A s \in Sessions : News(s) => ~Open(s)
        BY <1>3, <2>2 DEF Known, Holding
      <3>3. pc'[r] \in Holding => Follows(r)
        BY <1>3, <2>2 DEF Known
      <3>4. Follows(r) => Follows(r)'
        <4> SUFFICES ASSUME Follows(r)
                     PROVE  Follows(r)'
          OBVIOUS
        <4>1. \A s \in Sessions : News(s)' => s = at'[r] \/ ~Open(s)'
          BY <2>2 DEF Follows
        <4>2. session' = at'[r] \/ ~Open(session)' \/ ~NoNews'
          <5>1. CASE session' = session
            BY <1>1, <1>2, <2>2, <5>1 DEF Follows
          <5>2. CASE session' = NoSession
            BY <5>2 DEF Open
          <5>3. QED
            BY <5>1, <5>2
        <4>3. QED
          BY <4>1, <4>2 DEF Follows
      <3>5. QED
        BY <1>2, <3>1, <3>2, <3>3, <3>4
    <2>3. QED
      BY <2>1, <2>2
  <1>4. ASSUME NEW i \in Places', alive, inbox'[i].run = run
        PROVE  /\ inbox'[i].what = "plan" => Quiet' /\ NoNews'
               /\ inbox'[i].what = "done" /\ ~inbox'[i].tx => Clean'
    <2>1. CASE inbox'[i].what = "failed"
      BY <2>1
    <2>2. CASE i \in Places /\ inbox'[i] = inbox[i]
      <3>1. inbox[i].what = "plan" => Quiet /\ NoNews
        BY <1>4, <2>2 DEF Known
      <3>2. inbox[i].what = "done" /\ ~inbox[i].tx => Clean
        BY <1>4, <2>2 DEF Known
      <3>3. Clean => Clean'
        BY <1>1, <1>2 DEF Clean, Open
      <3>4. QED
        BY <1>2, <2>2, <3>1, <3>2, <3>3
    <2>3. QED
      BY <2>1, <2>2
  <1>5. ~alive => session' = NoSession
    BY DEF Known
  <1>6. alive /\ ~running => Quiet'
    BY DEF Known
  <1>7. QED
    BY <1>3, <1>4, <1>5, <1>6 DEF Known

\* What is said last is news if it is a session.
LEMMA NewsAppended ==
  ASSUME inbox \in Seq(Message), NEW m, NEW r, Says(r, m), NEW s
  PROVE  News(s)' <=> News(s) \/ (~Terminal(m) /\ m.session = s)
  <1>1. /\ \A i \in Places : i \in Places' /\ inbox'[i] = inbox[i]
        /\ Len(inbox') \in Places' /\ inbox'[Len(inbox')] = m
        /\ \A i \in Places' : i \in Places \/ i = Len(inbox')
    BY Appended DEF Says
  <1>2. QED
    BY <1>1 DEF News

LEMMA NewsTaken ==
  ASSUME inbox \in Seq(Message), inbox # <<>>, inbox' = Tail(inbox), NEW s
  PROVE  /\ News(s)' => News(s)
         /\ News(s) => News(s)' \/ (~Terminal(inbox[1]) /\ inbox[1].session = s)
  <1>1. /\ 1 \in Places /\ Len(inbox) \in Nat /\ Len(inbox') = Len(inbox) - 1
        /\ \A i \in Places' : i + 1 \in Places /\ inbox'[i] = inbox[i + 1]
    BY Taken
  <1>2. News(s)' => News(s)
    BY <1>1 DEF News
  <1>3. ASSUME NEW i \in Places, i # 1
        PROVE  i - 1 \in Places' /\ inbox'[i - 1] = inbox[i]
    <2>1. i - 1 \in 1 .. Len(inbox) - 1 /\ (i - 1) + 1 = i
      BY <1>1, <1>3 DEF Places
    <2>2. QED
      BY <1>1, <2>1 DEF Places
  <1>4. QED
    BY <1>2, <1>3 DEF News

\* A run that works has not said yet that it is over.
LEMMA Unsaid ==
  ASSUME Inv, NEW r \in Runs, pc[r] \in Active
  PROVE  /\ \A i \in Places : inbox[i].run = r => ~Terminal(inbox[i])
         /\ alive => r = run /\ running
         /\ \A q \in Runs : q # r => pc[q] \notin Active
  BY DEF Inv, OneAtWork, Active, Said

\* What it then says is the only message of its run that ends it.
LEMMA KnownSaid ==
  ASSUME Inv, NEW r \in Runs, pc[r] \in Active, alive,
         UNCHANGED <<alive, run, running>>, pc'[r] \in Said,
         NEW m, Says(r, m),
         m.what = "failed" \/ (m.what = "plan" /\ Quiet' /\ NoNews')
           \/ (m.what = "done" /\ (m.tx \/ Clean'))
  PROVE  Known'
  <1>0. inbox \in Seq(Message)
    BY DEF Inv, TypeOK
  <1>1. /\ r = run /\ running
        /\ \A i \in Places : inbox[i].run = run => ~Terminal(inbox[i])
    BY Unsaid
  <1>2. /\ \A i \in Places : i \in Places' /\ inbox'[i] = inbox[i]
        /\ Len(inbox') \in Places' /\ inbox'[Len(inbox')] = m
        /\ \A i \in Places' : i \in Places \/ i = Len(inbox')
    BY <1>0, Appended DEF Says
  <1>3. ASSUME NEW i \in Places', inbox'[i].run = run
        PROVE  /\ inbox'[i].what = "plan" => Quiet' /\ NoNews'
               /\ inbox'[i].what = "done" /\ ~inbox'[i].tx => Clean'
    <2>1. CASE i \in Places
      <3>1. inbox'[i].what = "session"
        BY <1>1, <1>2, <1>3, <2>1 DEF Terminal
      <3>2. QED
        BY <3>1
    <2>2. CASE i = Len(inbox')
      BY <1>2, <2>2
    <2>3. QED
      BY <1>2, <2>1, <2>2
  <1>4. QED
    BY <1>1, <1>3 DEF Known, Said, Holding

\* Where each of its steps takes a task.
LEMMA Ways ==
  ASSUME TypeOK, NEW r \in Runs
  PROVE  /\ Opened(r) => pc[r] = "opening" /\ pc'[r] \in {"begin", "query"}
         /\ Failed(r) => pc[r] \in Active \cup {"tail"} /\ pc'[r] = "over"
         /\ Retried(r) => pc[r] \in {"begin", "query"} /\ pc'[r] = "opening"
         /\ Began(r) => pc[r] = "begin" /\ pc'[r] = "query"
         /\ Started(r) => pc[r] = "query" /\ pc'[r] = "executing"
         /\ Finished(r) => pc[r] = "executing" /\ pc'[r] = "tail"
         /\ Ended(r) => pc[r] = "tail" /\ pc'[r] = "over"
         /\ Planned(r) => pc[r] = "explaining" /\ pc'[r] = "over"
  <1>1. FirstRequest(r) \in {"begin", "query"}
    BY DEF FirstRequest
  <1>2. \A from, to : Moves(r, from, to) => pc[r] \in from /\ pc'[r] = to
    BY Moved
  <1>3. QED
    BY <1>1, <1>2 DEF Opened, Failed, Retried, Began, Started, Finished, Ended,
       Planned

\* Known is preserved.
LEMMA KnownStep ==
  ASSUME Inv, [Next]_vars
  PROVE  Known'
  <1>0. /\ TypeOK /\ OneAtWork /\ InOrder /\ Targets /\ Known
        /\ inbox \in Seq(Message)
        /\ served \in [Sessions -> {"unborn", "open", "gone"}]
        /\ tx \in [Sessions -> BOOLEAN]
        /\ session \in Sessions \cup {NoSession}
        /\ \A r \in Runs : pc[r] \in Holding \cup {"tail"} => at[r] \in Sessions
    BY DEF Inv, TypeOK, Holding
  <1>t. TypeOK
    BY <1>0
  <1>1. ASSUME NEW kind \in Kinds, NEW phase \in Phases, Begins(kind, phase)
        PROVE  Known'
    <2>1. /\ run' \in Runs /\ ~running /\ running' /\ alive /\ alive'
          /\ pc'[run'] = phase /\ at'[run'] = OwnSession
          /\ UNCHANGED <<inbox, session, in_transaction, agreed, served, tx, strays>>
      BY <1>0, <1>1, Begun DEF Phases, Begins, serviceVars, dialogVars
    <2>2. \A i \in Places : inbox[i].what = "failed"
      BY <1>0, <2>1 DEF InOrder
    <2>3. NoNews /\ NoNews' /\ Quiet'
      BY <1>0, <2>1, <2>2 DEF NoNews, News, Terminal, Places, Known, Quiet, Open
    <2>4. phase \in {"begin", "query"} => at'[run'] = session'
      BY <1>0, <1>1, <2>1, Own DEF Begins
    <2>5. \A i \in Places' : inbox'[i].what = "failed"
      BY <2>1, <2>2 DEF Places
    <2>6. ASSUME NEW r \in Runs, r = run', pc'[r] \in Holding
          PROVE  Follows(r)'
      <3>1. phase \in {"begin", "query"} /\ session' = at'[r]
        BY <2>1, <2>4, <2>6 DEF Phases, Holding
      <3>2. QED
        BY <2>3, <3>1 DEF Follows, NoNews
    <2>7. \A s \in Sessions : News(s)' => ~Open(s)'
      BY <2>3 DEF NoNews
    <2>8. \A r \in Runs : r = run' =>
            /\ pc'[r] = "explaining" => Quiet' /\ NoNews'
            /\ pc'[r] = "opening" => \A s \in Sessions : News(s)' => ~Open(s)'
            /\ pc'[r] \in Holding => Follows(r)'
      BY <2>3, <2>6, <2>7
    <2>9. QED
      BY <2>1, <2>5, <2>8 DEF Known
  <1>2. CASE CloseTab
    BY <1>0, <1>2, Closed DEF Known
  <1>3. CASE Rests
    <2>1. /\ UNCHANGED <<alive, run, running, inbox, pc, at, served, tx, strays>>
          /\ alive /\ session' \in {session, NoSession}
          /\ \/ UNCHANGED <<in_transaction, agreed>>
             \/ agreed' = session /\ session' = session
      BY <1>3 DEF Rests, taskVars, serviceVars
    <2>2. Quiet => Quiet'
      BY <2>1 DEF Quiet, Open
    <2>3. \A s \in Sessions : (Open(s)' => Open(s)) /\ (News(s)' <=> News(s))
      BY <2>1 DEF Open, News, Places
    <2>4. QED
      BY <1>0, <2>1, <2>2, <2>3, KnownKept DEF Places
  <1>4. CASE Fades
    <2>1. /\ UNCHANGED <<alive, run, running, session, in_transaction, agreed,
                         inbox, pc, at>>
          /\ \A s \in Sessions : /\ tx'[s] => tx[s]
                                 /\ served'[s] \in {served[s], "gone"}
                                 /\ s \in strays => s \in strays'
                                                   \/ served'[s] = "gone"
      BY <1>4 DEF Fades, taskVars
    <2>2. \A s \in Sessions : (Open(s)' => Open(s)) /\ (News(s)' <=> News(s))
      BY <2>1 DEF Open, News, Places
    <2>3. Quiet => Quiet'
      BY <1>0, <2>1, <2>2 DEF Quiet, Open
    <2>4. QED
      BY <1>0, <2>1, <2>2, <2>3, KnownKept DEF Places
  <1>5. ASSUME NEW r \in Runs, TaskStepOf(r)
        PROVE  Known'
    <2>1. UNCHANGED <<alive, run, running, session, in_transaction, agreed>>
          /\ \A q \in Runs : q # r =>
               pc'[q] = pc[q] /\ at'[q] = at[q] /\ asked'[q] = asked[q]
      BY <1>t, <1>5, Moved DEF TaskStepOf, Opened, Failed, Retried, Began,
         Started, Finished, Ended, Planned
    <2> SUFFICES ASSUME alive
                 PROVE  Known'
      BY <1>0, <2>1 DEF Known
    <2>2. CASE Opened(r)
      <3>0. PICK s \in Sessions :
              /\ Moves(r, {"opening"}, FirstRequest(r))
              /\ \E m : Says(r, m) /\ m.what = "session" /\ m.session = s
              /\ at'[r] = s /\ UNCHANGED <<asked, tx>>
              /\ served[s] = "unborn" /\ served' = [served EXCEPT ![s] = "open"]
        BY <2>2 DEF Opened
      <3>1. pc[r] = "opening" /\ pc'[r] \in {"begin", "query"}
        BY <1>t, <2>2, Ways
      <3>2. /\ r = run /\ running
            /\ \A i \in Places : inbox[i].run = r => ~Terminal(inbox[i])
        BY <3>1, Unsaid DEF Active
      <3>3. PICK m : Says(r, m) /\ m.what = "session" /\ m.session = s
        BY <3>0
      <3>4. \A q \in Sessions : News(q)' <=> News(q) \/ q = s
        BY <1>0, <3>3, NewsAppended DEF Terminal
      <3>5. \A q \in Sessions : q # s => Open(q)' = Open(q)
        BY <1>0, <3>0 DEF Open
      <3>6. \A q \in Sessions : News(q) => ~Open(q)
        BY <1>0, <2>1, <3>1, <3>2 DEF Known
      <3>7. Follows(r)'
        <4>1. ~NoNews'
          BY <3>4 DEF NoNews
        <4>2. \A q \in Sessions : News(q)' => q = at'[r] \/ ~Open(q)'
          BY <3>0, <3>4, <3>5, <3>6
        <4>3. QED
          BY <4>1, <4>2 DEF Follows
      <3>8. ASSUME NEW i \in Places', inbox'[i].run = run
            PROVE  inbox'[i].what = "session"
        BY <1>0, <3>2, <3>3, <3>8, Appended DEF Says, Terminal
      <3>9. QED
        BY <2>1, <3>1, <3>2, <3>7, <3>8 DEF Known, Holding
    <2>3. CASE Failed(r)
      <3>1. PICK m : Says(r, m) /\ m.what = "failed"
        BY <2>3 DEF Failed
      <3>2. pc[r] \in Active \cup {"tail"} /\ pc'[r] = "over"
        BY <1>t, <2>3, Ways DEF Failed
      <3>3. CASE pc[r] \in Active
        BY <2>1, <3>1, <3>2, <3>3, KnownSaid DEF Said
      <3>4. CASE pc[r] = "tail"
        <4>1. UNCHANGED <<served, tx, strays>>
          BY <2>3, <3>4 DEF Failed, Active
        <4>2. \A s \in Sessions : (Open(s)' => Open(s)) /\ (News(s)' <=> News(s))
          BY <1>0, <3>1, <4>1, NewsAppended DEF Open, Terminal
        <4>3. \A i \in Places' : \/ inbox'[i].what = "failed"
                                 \/ i \in Places /\ inbox'[i] = inbox[i]
          BY <1>0, <3>1, Appended DEF Says
        <4>4. Quiet => Quiet'
          BY <2>1, <4>1 DEF Quiet, Open
        <4>5. QED
          BY <1>0, <2>1, <3>2, <4>2, <4>3, <4>4, KnownKept DEF Said
      <3>5. QED
        BY <3>2, <3>3, <3>4
    <2>4. CASE Retried(r)
      <3>1. /\ pc[r] \in Holding /\ pc[r] \in Active /\ pc'[r] = "opening"
            /\ served[at[r]] = "gone"
            /\ UNCHANGED <<inbox, served, tx>>
        BY <1>t, <2>4, Ways DEF Retried, Holding, Active
      <3>2. /\ r = run /\ running
            /\ \A i \in Places : inbox[i].run = r => ~Terminal(inbox[i])
        BY <3>1, Unsaid
      <3>3. \A s \in Sessions : News(s)' => ~Open(s)'
        <4>1. Follows(r)
          BY <1>0, <3>1, <3>2 DEF Known
        <4>2. \A s \in Sessions : (Open(s)' <=> Open(s)) /\ (News(s)' <=> News(s))
          BY <3>1 DEF Open, News, Places
        <4>3. ~Open(at[r])
          BY <3>1 DEF Open
        <4>4. QED
          BY <4>1, <4>2, <4>3 DEF Follows
      <3>4. QED
        BY <2>1, <3>1, <3>2, <3>3 DEF Known, Terminal, Places, Holding
    <2>5. CASE Began(r)
      <3>1. /\ pc[r] = "begin" /\ pc'[r] = "query"
            /\ UNCHANGED <<inbox, served, at>>
            /\ tx' = [tx EXCEPT ![at[r]] = TRUE]
        BY <1>t, <2>5, Ways DEF Began
      <3>2. /\ r = run /\ running
            /\ \A i \in Places : inbox[i].run = r => ~Terminal(inbox[i])
        BY <3>1, Unsaid DEF Active
      <3>3. Follows(r) /\ at[r] \in Sessions
        BY <1>0, <3>1, <3>2 DEF Known, Holding
      <3>4. /\ \A s \in Sessions : s # at[r] => Open(s)' = Open(s)
            /\ \A s \in Sessions : News(s)' <=> News(s)
        BY <1>0, <3>1, <3>3 DEF Open, News, Places
      <3>5. Follows(r)'
        <4>1. NoNews' <=> NoNews
          BY <3>4 DEF NoNews
        <4>2. session' = at'[r] \/ ~Open(session)' \/ ~NoNews'
          BY <1>0, <2>1, <3>1, <3>3, <3>4, <4>1 DEF Follows, Open
        <4>3. \A s \in Sessions : News(s)' => s = at'[r] \/ ~Open(s)'
          BY <3>1, <3>3, <3>4 DEF Follows
        <4>4. QED
          BY <4>2, <4>3 DEF Follows
      <3>6. QED
        BY <2>1, <3>1, <3>2, <3>5 DEF Known, Terminal, Places, Holding
    <2>6. CASE Started(r) \/ Ended(r)
      <3>1. /\ pc'[r] \in Said \/ (/\ pc[r] \in Holding /\ pc'[r] \in Holding
                                   /\ at'[r] = at[r])
            /\ UNCHANGED <<inbox, served, tx, strays>>
        BY <1>t, <2>6, Ways DEF Started, Ended, Holding, Said
      <3>2. \A s \in Sessions : (Open(s)' => Open(s)) /\ (News(s)' <=> News(s))
        BY <3>1 DEF Open, News, Places
      <3>3. Quiet => Quiet'
        BY <2>1, <3>1 DEF Quiet, Open
      <3>4. QED
        BY <1>0, <2>1, <3>1, <3>2, <3>3, KnownKept DEF Places
    <2>7. CASE Finished(r)
      <3>1. /\ pc[r] = "executing" /\ pc'[r] = "tail"
            /\ served' \in {served, [served EXCEPT ![at[r]] = "gone"]}
        BY <1>t, <2>7, Ways DEF Finished
      <3>2. PICK open \in BOOLEAN :
              /\ tx' = [tx EXCEPT ![at[r]] = open]
              /\ \E m : Says(r, m) /\ m.what = "done" /\ (m.tx \/ ~open)
        BY <2>7 DEF Finished
      <3>3. PICK m : Says(r, m) /\ m.what = "done" /\ (m.tx \/ ~open)
        BY <3>2
      <3>4. r = run
        BY <3>1, Unsaid DEF Active
      <3>5. Follows(r) /\ at[r] \in Sessions
        BY <1>0, <3>1, <3>4 DEF Known, Holding
      <3>6. ASSUME ~m.tx
            PROVE  Clean'
        <4>1. /\ \A s \in Sessions : s # at[r] => Open(s)' = Open(s)
              /\ ~Open(at[r])'
          <5>1. ~tx'[at[r]]
            BY <1>0, <3>2, <3>3, <3>5, <3>6
          <5>2. at'[r] = at[r]
            BY <2>7 DEF Finished
          <5>3. \A s \in Sessions : s # at[r] =>
                  tx'[s] = tx[s] /\ served'[s] = served[s]
            BY <1>0, <3>1, <3>2, <3>5
          <5>4. QED
            BY <5>1, <5>2, <5>3 DEF Open
        <4>2. \A s \in Sessions : News(s)' <=> News(s)
          BY <1>0, <3>3, NewsAppended DEF Terminal
        <4>3. \A s \in Sessions : News(s)' => ~Open(s)'
          <5>1. at'[r] = at[r]
            BY <2>7 DEF Finished
          <5>2. QED
            BY <3>5, <4>1, <4>2, <5>1 DEF Follows
        <4>4. ~Open(session)' \/ ~NoNews'
          <5>1. at'[r] = at[r]
            BY <2>7 DEF Finished
          <5>2. NoNews' <=> NoNews
            BY <4>2 DEF NoNews
          <5>3. CASE session = at[r]
            BY <2>1, <4>1, <5>1, <5>3
          <5>4. CASE session # at[r] /\ ~Open(session)
            BY <1>0, <2>1, <4>1, <5>4 DEF Open
          <5>5. QED
            BY <3>5, <5>2, <5>3, <5>4 DEF Follows
        <4>5. QED
          BY <4>3, <4>4 DEF Clean
      <3>7. QED
        BY <2>1, <3>1, <3>3, <3>6, KnownSaid DEF Active, Said
    <2>8. CASE Planned(r)
      <3>1. /\ pc[r] = "explaining" /\ pc'[r] = "over"
            /\ \A s \in Sessions :
                 /\ tx'[s] /\ s \notin strays' => tx[s] /\ s \notin strays
                 /\ served'[s] \in {served[s], "gone"}
        BY <1>t, <2>8, Ways DEF Planned
      <3>2. PICK m : Says(r, m) /\ m.what = "plan"
        BY <2>8 DEF Planned
      <3>3. r = run
        BY <3>1, Unsaid DEF Active
      <3>4. Quiet /\ NoNews
        BY <1>0, <3>1, <3>3 DEF Known
      <3>5. NoNews'
        BY <1>0, <3>2, <3>4, NewsAppended DEF Terminal, NoNews
      <3>6. \A s \in Sessions : Open(s)' /\ s \notin strays' =>
                                 Open(s) /\ s \notin strays
        BY <3>1 DEF Open
      <3>7. Quiet'
        BY <1>0, <2>1, <3>4, <3>6 DEF Quiet, Open
      <3>8. QED
        BY <2>1, <3>1, <3>2, <3>5, <3>7, KnownSaid DEF Active, Said
    <2>9. QED
      BY <1>5, <2>2, <2>3, <2>4, <2>5, <2>6, <2>7, <2>8 DEF TaskStepOf
  <1>6. CASE Handle
    <2> SUFFICES ASSUME alive
                 PROVE  Known'
      BY <1>0, <1>6, Handled DEF Known
    <2> DEFINE m == inbox[1]
    <2>1. /\ inbox # <<>> /\ inbox' = Tail(inbox)
          /\ UNCHANGED <<alive, run, pc, at, served, tx, strays>>
      BY <1>0, <1>6, Handled DEF taskVars, serviceVars
    <2>2. /\ 1 \in Places /\ m \in Message
          /\ \A i \in Places' : i + 1 \in Places /\ inbox'[i] = inbox[i + 1]
                                /\ 1 < i + 1
      BY <1>0, <2>1, Taken, Addressed
    <2>3. \A s \in Sessions :
            /\ News(s)' => News(s)
            /\ News(s) => News(s)' \/ (~Terminal(m) /\ m.session = s)
      BY <1>0, <2>1, NewsTaken
    <2>4. \A s : Open(s)' <=> Open(s)
      BY <2>1 DEF Open
    <2>5. Terminal(m) => \A s \in Sessions : News(s)' <=> News(s)
      BY <2>3
    \* A message that changes nothing but perhaps the session, ...
    <2>6. ASSUME UNCHANGED <<running, in_transaction, agreed>>, Terminal(m),
                 session' \in {session, NoSession}
          PROVE  Known'
      <3>1. Quiet => Quiet'
        BY <2>1, <2>6 DEF Quiet, Open
      <3>2. \A s \in Sessions : (Open(s)' => Open(s)) /\ (News(s)' <=> News(s))
        BY <2>4, <2>5, <2>6
      <3>3. ASSUME NEW i \in Places', inbox'[i].run = run
            PROVE  /\ inbox'[i].what = "plan" => Quiet' /\ NoNews'
                   /\ inbox'[i].what = "done" /\ ~inbox'[i].tx => Clean'
        <4>1. /\ inbox'[i].what = "plan" => Quiet /\ NoNews
              /\ inbox'[i].what = "done" /\ ~inbox'[i].tx => Clean
          BY <1>0, <2>2, <3>3 DEF Known
        <4>2. NoNews' <=> NoNews
          BY <3>2 DEF NoNews
        <4>3. Clean => Clean'
          BY <2>4, <2>6, <3>2, <4>2 DEF Clean, Open
        <4>4. QED
          BY <3>1, <4>1, <4>2, <4>3
      <3>4. ASSUME NEW r \in Runs, r = run
            PROVE  /\ pc'[r] = "explaining" => Quiet' /\ NoNews'
                   /\ pc'[r] = "opening" =>
                        \A s \in Sessions : News(s)' => ~Open(s)'
                   /\ pc'[r] \in Holding => Follows(r)'
        <4>1. NoNews' <=> NoNews
          BY <3>2 DEF NoNews
        <4>2. Follows(r) => Follows(r)'
          BY <2>1, <2>4, <2>6, <3>2, <4>1 DEF Follows, Open
        <4>3. QED
          BY <1>0, <2>1, <3>1, <3>2, <3>4, <4>1, <4>2 DEF Known
      <3>5. ~running' => Quiet'
        BY <1>0, <2>6, <3>1 DEF Known
      <3>6. QED
        BY <2>1, <3>3, <3>4, <3>5 DEF Known
    \* ... and one that ends the run.
    <2>7. ASSUME Terminal(m), m.run = run, Quiet'
          PROVE  Known'
      <3>1. pc[run] \in Said
        BY <1>0, <2>2, <2>7 DEF OneAtWork
      <3>2. \A i \in Places' : inbox'[i].what = "failed"
        BY <1>0, <2>2, <2>7 DEF InOrder
      <3>3. QED
        BY <2>1, <2>7, <3>1, <3>2 DEF Known, Said, Holding
    <2>8. CASE /\ m.what = "session" /\ session' = m.session
               /\ UNCHANGED <<in_transaction, running, agreed>>
      <3>1. running /\ m.run = run
        BY <1>0, <2>2, <2>8 DEF InOrder
      <3>2. m.session \in Sessions /\ News(m.session)
        BY <1>0, <2>2, <2>8 DEF Targets, Terminal, News
      <3>3. ~NoNews
        BY <3>2 DEF NoNews
      <3>4. ASSUME NEW i \in Places', inbox'[i].run = run
            PROVE  /\ inbox'[i].what # "plan"
                   /\ inbox'[i].what = "done" /\ ~inbox'[i].tx => Clean'
        <4>1. /\ inbox'[i].what = "plan" => NoNews
              /\ inbox'[i].what = "done" /\ ~inbox'[i].tx => Clean
          BY <1>0, <2>2, <3>4 DEF Known
        <4>2. Clean => Clean'
          BY <2>3, <2>4, <2>8, <3>2 DEF Clean
        <4>3. QED
          BY <3>3, <4>1, <4>2
      <3>5. ASSUME NEW r \in Runs, r = run
            PROVE  /\ pc'[r] # "explaining"
                   /\ pc'[r] = "opening" =>
                        \A s \in Sessions : News(s)' => ~Open(s)'
                   /\ pc'[r] \in Holding => Follows(r)'
        <4>1. Follows(r) => Follows(r)'
          BY <2>1, <2>3, <2>4, <2>8, <3>2 DEF Follows
        <4>2. QED
          BY <1>0, <2>1, <2>3, <2>4, <3>3, <3>5, <4>1 DEF Known
      <3>6. QED
        BY <2>1, <2>8, <3>1, <3>4, <3>5 DEF Known
    <2>9. CASE /\ m.what = "done" /\ m.run = run
               /\ ~running' /\ in_transaction' = m.tx /\ session' = session
      <3>1. ~m.tx => Clean
        BY <1>0, <2>2, <2>9 DEF Known
      <3>2. \A i \in Places : i = 1 \/ inbox[i].what = "failed"
        BY <1>0, <2>2, <2>9 DEF InOrder, Terminal, Places
      <3>3. NoNews
        BY <2>9, <3>2 DEF NoNews, News, Terminal
      <3>4. Quiet'
        <4>1. CASE m.tx
          BY <2>9, <4>1 DEF Quiet
        <4>2. CASE ~m.tx
          BY <2>4, <2>9, <3>1, <3>3, <4>2 DEF Clean, Quiet
        <4>3. QED
          BY <4>1, <4>2
      <3>5. QED
        BY <2>7, <2>9, <3>4 DEF Terminal
    <2>10. CASE /\ m.what = "failed" /\ session' = NoSession
                /\ running' = (running /\ m.run # run)
                /\ UNCHANGED <<in_transaction, agreed>>
      <3>1. Quiet'
        BY <2>10 DEF Quiet, Open
      <3>2. CASE m.run = run
        BY <2>7, <2>10, <3>1, <3>2 DEF Terminal
      <3>3. CASE m.run # run
        <4>1. running' = running
          BY <1>0, <2>10, <3>3 DEF TypeOK
        <4>2. QED
          BY <2>6, <2>10, <4>1 DEF Terminal
      <3>4. QED
        BY <3>2, <3>3
    <2>11. CASE /\ m.what = "plan"
                /\ running' = (running /\ m.run # run)
                /\ UNCHANGED <<session, in_transaction, agreed>>
      <3>1. m.run = run
        BY <1>0, <2>2, <2>11 DEF InOrder
      <3>2. Quiet'
        BY <1>0, <2>1, <2>2, <2>11, <3>1 DEF Known, Quiet, Open
      <3>3. QED
        BY <2>7, <2>11, <3>1, <3>2 DEF Terminal
    <2>12. CASE m.what = "done" /\ m.run # run
      BY <1>0, <2>2, <2>12 DEF InOrder
    <2>13. QED
      BY <1>0, <1>6, <2>8, <2>9, <2>10, <2>11, <2>12, Handled
  <1>7. QED
    BY <1>0, <1>1, <1>2, <1>3, <1>4, <1>5, <1>6, StepCases

-----------------------------------------------------------------------------
(* Theorems *)

\* The inductive invariant of a tab and its runs: one task at work, messages in
\* order, and what the tab knows of its session's transaction.
THEOREM InvHolds == Spec => []Inv
  <1>1. Init => Inv
    <2> SUFFICES ASSUME Init
                 PROVE  Inv
      OBVIOUS
    <2>1. TypeOK
      <3>1. /\ Nothing \in Task /\ <<>> \in Seq(Message)
            /\ Home \in Connections /\ 0 \in 0 .. MaxRuns
        BY Typed, TabAssumption, EmptySeq
      <3>2. /\ pc \in [Runs -> {"none", "opening", "begin", "query",
                                "executing", "tail", "explaining", "over"}]
            /\ \A r \in Runs : pc[r] = "none"
            /\ asked \in [Runs -> Task] /\ ran \in [Runs -> 0 .. 2]
            /\ at \in [Runs -> Sessions \cup {NoSession}]
            /\ retried \in [Runs -> BOOLEAN]
        BY <3>1 DEF Init
      <3>3. /\ served \in [Sessions -> {"unborn", "open", "gone"}]
            /\ of \in [Sessions -> Connections]
            /\ tx \in [Sessions -> BOOLEAN] /\ locked \in [Sessions -> BOOLEAN]
            /\ strays \subseteq Sessions
        BY <3>1 DEF Init
      <3>4. QED
        BY <3>1, <3>2, <3>3 DEF Init, TypeOK
    <2>2. Places = {}
      BY EmptySeq DEF Init, Places
    <2>3. Once /\ OneAtWork /\ InOrder /\ Targets
      BY <2>2 DEF Init, Once, OneAtWork, InOrder, Targets, Active, Holding, Said
    <2>4. Known
      BY <2>2 DEF Init, Known, Quiet, Open, Holding
    <2>5. QED
      BY <2>1, <2>3, <2>4 DEF Inv
  <1>2. Inv /\ [Next]_vars => Inv'
    BY TypeStep, OnceStep, OneAtWorkStep, InOrderStep, TargetsStep, KnownStep
       DEF Inv
  <1>3. QED
    BY <1>1, <1>2, PTL DEF Spec

\* Type correctness of a tab, its runs and the sessions of the service.
THEOREM TypeCorrect == Spec => []TypeOK
  <1>1. Inv => TypeOK
    BY DEF Inv
  <1>2. QED
    BY <1>1, InvHolds, PTL

\* However sessions are lost, requests refused and runs repeated, no script is
\* started twice (run_sql retries only what the service did not start).
THEOREM OnceHolds == Spec => []RunsOnce
  <1>1. Inv => RunsOnce
    BY DEF Inv, Once, RunsOnce
  <1>2. QED
    BY <1>1, InvHolds, PTL

\* A tab at rest knows of every transaction that its scripts left open in its
\* session, for any number of runs, sessions and connections (in_transaction of
\* QueryDone, and the sessions dropped on failures).  What explain may leave
\* there of its own is excepted (strays).
THEOREM NothingHidden == Spec => []ScriptTransactionShows
  <1>1. Inv => ScriptTransactionShows
    BY DEF Inv, Known, Quiet, Open, ScriptTransactionShows
  <1>2. QED
    BY <1>1, InvHolds, PTL

\* Every script runs on the connection it was asked for, and in the transaction
\* that its run began (run_sql).
THEOREM AsAsked == Spec => RunsAsAsked
  <1> DEFINE A == \A r \in Runs : ran'[r] > ran[r] =>
                    /\ of[at[r]] = asked[r].on
                    /\ asked[r].begin => tx[at[r]]
  <1>1. Inv /\ [Next]_vars => [A]_vars
    <2> SUFFICES ASSUME Inv, [Next]_vars, NEW r \in Runs, ran'[r] > ran[r]
                 PROVE  /\ of[at[r]] = asked[r].on
                        /\ asked[r].begin => tx[at[r]]
      OBVIOUS
    <2>1. Started(r)
      BY OnceStep
    <2>2. pc[r] = "query" /\ served[at[r]] = "open"
      BY <2>1 DEF Started, Moves
    <2>3. QED
      BY <2>2 DEF Inv, Targets, Holding
  <1>2. QED
    BY <1>1, InvHolds, PTL DEF Spec, RunsAsAsked

-----------------------------------------------------------------------------
(* Edits: a change stays with its row                                      *)

\* What can be changed of a result, and what is pending on it.
IsEdit(e) ==
  e = [target |-> e.target, changes |-> e.changes, deleted |-> e.deleted,
       inserted |-> e.inserted, editing |-> e.editing]

\* The cell of the result that is shown in a place of the grid, if it is not one
\* of a new row.
Under(pos, c) == IF Edits!Existing(pos) THEN {<<Edits!RowIndex(pos), c>>} ELSE {}

\* The cell under the open editor was pointed at.
UnderEditor(e) ==
  e.editing # Edits!NoCell => Under(e.editing[1], e.editing[2]) \subseteq pointed

\* Each pending change was pointed at where it is stored.
PointedInv ==
  edit # Edits!NoEdit =>
    /\ IsEdit(edit)
    /\ ~moved => DOMAIN edit.changes \subseteq pointed /\ UnderEditor(edit)

\* Nothing can be changed before there is a result.
LEMMA InitEdits == Edits!Init => PointedInv
BY DEF Edits!Init, PointedInv

\* A cell is put where the grid shows it, in the row it belongs to.
LEMMA PutDom ==
  ASSUME NEW e, NEW pos, NEW c, NEW v, IsEdit(e)
  PROVE  /\ IsEdit(Edits!Put(e, pos, c, v))
         /\ Edits!Put(e, pos, c, v).editing = e.editing
         /\ DOMAIN Edits!Put(e, pos, c, v).changes \subseteq DOMAIN e.changes \cup Under(pos, c)
<1>1. CASE Edits!Existing(pos)
  <2> DEFINE cl == <<Edits!RowIndex(pos), c>>
             ch2 == IF raw[cl[1]][c] = v
                    THEN [x \in DOMAIN e.changes \ {cl} |-> e.changes[x]]
                    ELSE Edits!With(e.changes, cl, v)
  <2>1. Edits!Put(e, pos, c, v) = [e EXCEPT !.changes = ch2]
    BY <1>1, Zenon DEF Edits!Put, Edits!Set
  <2>2. DOMAIN ch2 \subseteq DOMAIN e.changes \cup {cl}
    BY DEF Edits!With
  <2> HIDE DEF ch2
  <2>3. [e EXCEPT !.changes = ch2] =
          [target |-> e.target, changes |-> ch2, deleted |-> e.deleted,
           inserted |-> e.inserted, editing |-> e.editing]
    BY DEF IsEdit
  <2> QED BY <1>1, <2>1, <2>2, <2>3 DEF IsEdit, Under
<1>2. CASE ~Edits!Existing(pos)
  <2> DEFINE new == Edits!New(pos)
             ins2 == [e.inserted EXCEPT ![new] = Edits!With(e.inserted[new], c, v)]
  <2>1. Edits!Put(e, pos, c, v) = [e EXCEPT !.inserted = ins2]
    BY <1>2 DEF Edits!Put
  <2> HIDE DEF ins2
  <2>3. [e EXCEPT !.inserted = ins2] =
          [target |-> e.target, changes |-> e.changes, deleted |-> e.deleted,
           inserted |-> ins2, editing |-> e.editing]
    BY DEF IsEdit
  <2> QED BY <1>2, <2>1, <2>3 DEF IsEdit
<1> QED BY <1>1, <1>2

\* Rows stay in their places while the grid shows the same in the same order.
LEMMA SameRows ==
  ASSUME UNCHANGED <<raw, sort>>
  PROVE  /\ \A pos : Edits!RowIndex(pos)' = Edits!RowIndex(pos)
         /\ \A pos : Edits!Existing(pos)' = Edits!Existing(pos)
         /\ \A pos, c : Under(pos, c)' = Under(pos, c)
<1>1. Edits!Sources' = Edits!Sources
  BY DEF Edits!Sources
<1>2. Edits!Order' = Edits!Order
  BY <1>1 DEF Edits!Order, Edits!Before, Edits!InOrder, Edits!Cardinality, Edits!IsFiniteSet
<1> QED BY <1>1, <1>2 DEF Edits!RowIndex, Edits!Existing, Under

\* An edit with one thing changed is one still.
LEMMA FieldSet ==
  ASSUME NEW e, IsEdit(e), NEW x
  PROVE  /\ IsEdit([e EXCEPT !.deleted = x])
         /\ [e EXCEPT !.deleted = x].changes = e.changes
         /\ [e EXCEPT !.deleted = x].editing = e.editing
         /\ IsEdit([e EXCEPT !.inserted = x])
         /\ [e EXCEPT !.inserted = x].changes = e.changes
         /\ [e EXCEPT !.inserted = x].editing = e.editing
         /\ IsEdit([e EXCEPT !.editing = x])
         /\ [e EXCEPT !.editing = x].changes = e.changes
         /\ [e EXCEPT !.editing = x].editing = x
<1> DEFINE d == [e EXCEPT !.deleted = x]
           i == [e EXCEPT !.inserted = x]
           c == [e EXCEPT !.editing = x]
<1>1. d = [target |-> e.target, changes |-> e.changes, deleted |-> x,
           inserted |-> e.inserted, editing |-> e.editing]
  BY DEF IsEdit
<1>2. i = [target |-> e.target, changes |-> e.changes, deleted |-> e.deleted,
           inserted |-> x, editing |-> e.editing]
  BY DEF IsEdit
<1>3. c = [target |-> e.target, changes |-> e.changes, deleted |-> e.deleted,
           inserted |-> e.inserted, editing |-> x]
  BY DEF IsEdit
<1> HIDE DEF d, i, c
<1>4. IsEdit(d) /\ d.changes = e.changes /\ d.editing = e.editing
  BY <1>1 DEF IsEdit
<1>5. IsEdit(i) /\ i.changes = e.changes /\ i.editing = e.editing
  BY <1>2 DEF IsEdit
<1>6. IsEdit(c) /\ c.changes = e.changes /\ c.editing = x
  BY <1>3 DEF IsEdit
<1> QED BY <1>4, <1>5, <1>6 DEF d, i, c

\* What a change of the edits does to where they were pointed at.
LEMMA Kept ==
  ASSUME PointedInv, UNCHANGED <<raw, sort>>, edit # Edits!NoEdit, IsEdit(edit'),
         ~moved' => ~moved, pointed \subseteq pointed',
         ~moved' => DOMAIN edit'.changes \subseteq pointed',
         ~moved' => edit'.editing = edit.editing \/ edit'.editing = Edits!NoCell
  PROVE  PointedInv'
BY SameRows DEF PointedInv, UnderEditor, Edits!NoCell

\* Every step on the edits.
LEMMA StepEdits == PointedInv /\ [Edits!Next]_(Edits!vars) => PointedInv'
<1> SUFFICES ASSUME PointedInv, [Edits!Next]_(Edits!vars) PROVE PointedInv'
  OBVIOUS
<1> USE DEF PointedInv
<1>1. ASSUME NEW l, Edits!RunSql(l) PROVE PointedInv'
  BY <1>1 DEF Edits!RunSql
<1>2. CASE UNCHANGED <<edit, pointed, moved, raw, sort>>
  BY <1>2, SameRows DEF UnderEditor
<1>3. CASE Edits!NewRun
  BY <1>1, <1>3 DEF Edits!NewRun
<1>4. CASE Edits!ChooseConnection
  BY <1>2, <1>4 DEF Edits!ChooseConnection, Edits!resultVars, Edits!historyVars
<1>5. CASE Edits!StartEdit
  BY <1>2, <1>5 DEF Edits!StartEdit, Edits!resultVars, Edits!historyVars
<1>6. ASSUME NEW i, Edits!EditReady(i) PROVE PointedInv'
  <2>1. UNCHANGED <<raw, sort>>
    BY <1>6 DEF Edits!EditReady, Edits!Answers, Edits!resultVars
  <2>2. CASE UNCHANGED <<edit, Edits!historyVars>>
    BY <1>2, <2>1, <2>2 DEF Edits!historyVars
  <2>3. CASE Edits!StartsOn(loading[i].columns)
    BY <2>3 DEF Edits!StartsOn, IsEdit, UnderEditor, Edits!NoCell
  <2> QED BY <1>6, <2>2, <2>3 DEF Edits!EditReady
<1>7. ASSUME NEW i, Edits!LoadFails(i) PROVE PointedInv'
  BY <1>2, <1>7 DEF Edits!LoadFails, Edits!Answers, Edits!resultVars, Edits!historyVars
<1>8. ASSUME NEW c, Edits!ToggleSort(c) PROVE PointedInv'
  BY <1>8 DEF Edits!ToggleSort, UnderEditor
<1>9. ASSUME NEW pos, NEW c, Edits!OpenCell(pos, c) PROVE PointedInv'
  <2>1. /\ edit # Edits!NoEdit /\ edit.editing = Edits!NoCell
        /\ edit' = [edit EXCEPT !.editing = <<pos, c>>]
        /\ UNCHANGED <<raw, sort, moved>>
        /\ pointed' = pointed \cup Under(pos, c)
    BY <1>9 DEF Edits!OpenCell, Edits!Editing, Edits!Edited, Edits!PointAt,
                Edits!resultVars, Under
  <2>2. /\ IsEdit(edit') /\ edit'.changes = edit.changes /\ edit'.editing = <<pos, c>>
    BY <2>1, FieldSet, ZenonT(40)
  <2>3. ~moved => DOMAIN edit'.changes \subseteq pointed'
    BY <2>1, <2>2
  <2>4. UnderEditor(edit)'
    BY <2>1, <2>2, SameRows DEF UnderEditor
  <2> QED BY <2>1, <2>2, <2>3, <2>4
<1>10. ASSUME NEW pos, NEW c, Edits!SetNull(pos, c) PROVE PointedInv'
  <2>1. /\ edit # Edits!NoEdit /\ edit' = Edits!Put(edit, pos, c, Edits!Null)
        /\ UNCHANGED <<raw, sort, moved>>
        /\ pointed' = pointed \cup Under(pos, c)
    BY <1>10 DEF Edits!SetNull, Edits!Editing, Edits!Edited, Edits!PointAt,
                 Edits!resultVars, Under
  <2>2. /\ IsEdit(edit') /\ edit'.editing = edit.editing
        /\ DOMAIN edit'.changes \subseteq DOMAIN edit.changes \cup Under(pos, c)
    BY <2>1, PutDom
  <2>3. ~moved => DOMAIN edit'.changes \subseteq pointed'
    BY <2>1, <2>2
  <2> QED BY <2>1, <2>2, <2>3, Kept
<1>11. ASSUME NEW pos, NEW c, Edits!SetDefault(pos, c) PROVE PointedInv'
  <2> DEFINE new == Edits!New(pos)
             row == edit.inserted[new]
             others == [edit.inserted EXCEPT ![new] = [x \in DOMAIN row \ {c} |-> row[x]]]
  <2>1. /\ edit # Edits!NoEdit /\ edit' = [edit EXCEPT !.inserted = others]
        /\ UNCHANGED <<raw, sort, moved, pointed>>
    BY <1>11 DEF Edits!SetDefault, Edits!Editing, Edits!Edited, Edits!resultVars,
                 Edits!historyVars
  <2> HIDE DEF others
  <2>2. IsEdit(edit') /\ edit'.editing = edit.editing /\ edit'.changes = edit.changes
    BY <2>1, FieldSet
  <2> QED BY <2>1, <2>2, Kept
<1>12. ASSUME NEW pos, Edits!DeleteRow(pos) PROVE PointedInv'
  <2> DEFINE gone == edit.deleted \cup {Edits!RowIndex(pos)}
             others == Edits!RemoveAt(edit.inserted, Edits!New(pos))
  <2>1. /\ edit # Edits!NoEdit /\ UNCHANGED <<raw, sort, pointed>> /\ (moved => moved')
        /\ edit' = [edit EXCEPT !.deleted = gone] \/ edit' = [edit EXCEPT !.inserted = others]
    BY <1>12 DEF Edits!DeleteRow, Edits!Editing, Edits!Edited, Edits!resultVars
  <2> HIDE DEF gone, others
  <2>2. IsEdit(edit') /\ edit'.editing = edit.editing /\ edit'.changes = edit.changes
    <3>1. CASE edit' = [edit EXCEPT !.deleted = gone]
      BY <2>1, <3>1, FieldSet
    <3>2. CASE edit' = [edit EXCEPT !.inserted = others]
      BY <2>1, <3>2, FieldSet
    <3> QED BY <2>1, <3>1, <3>2
  <2> QED BY <2>1, <2>2, Kept
<1>13. ASSUME NEW pos, Edits!RestoreRow(pos) PROVE PointedInv'
  <2> DEFINE gone == edit.deleted \ {Edits!RowIndex(pos)}
  <2>1. /\ edit # Edits!NoEdit /\ edit' = [edit EXCEPT !.deleted = gone]
        /\ UNCHANGED <<raw, sort, pointed, moved>>
    BY <1>13 DEF Edits!RestoreRow, Edits!Editing, Edits!Edited, Edits!resultVars,
                 Edits!historyVars
  <2> HIDE DEF gone
  <2>2. IsEdit(edit') /\ edit'.editing = edit.editing /\ edit'.changes = edit.changes
    BY <2>1, FieldSet
  <2> QED BY <2>1, <2>2, Kept
<1>14. ASSUME NEW v, Edits!FinishCell(v) PROVE PointedInv'
  <2> DEFINE pos == edit.editing[1]
             c == edit.editing[2]
             e == [edit EXCEPT !.editing = Edits!NoCell]
  <2>1. /\ edit # Edits!NoEdit /\ edit.editing # Edits!NoCell /\ edit' = Edits!Put(e, pos, c, v)
        /\ UNCHANGED <<raw, sort, pointed, moved>>
    BY <1>14 DEF Edits!FinishCell, Edits!resultVars, Edits!historyVars
  <2>2. IsEdit(e) /\ e.changes = edit.changes /\ e.editing = Edits!NoCell
    BY <2>1, FieldSet
  <2> HIDE DEF e
  <2>3. /\ IsEdit(edit') /\ edit'.editing = Edits!NoCell
        /\ DOMAIN edit'.changes \subseteq DOMAIN edit.changes \cup Under(pos, c)
    BY <2>1, <2>2, PutDom
  <2>4. ~moved => DOMAIN edit'.changes \subseteq pointed'
    BY <2>1, <2>3 DEF UnderEditor
  <2> HIDE DEF pos, c
  <2> QED BY <2>1, <2>3, <2>4, Kept
<1>15. CASE Edits!CancelCell
  <2>1. /\ edit # Edits!NoEdit /\ edit' = [edit EXCEPT !.editing = Edits!NoCell]
        /\ UNCHANGED <<raw, sort, pointed, moved>>
    BY <1>15 DEF Edits!CancelCell, Edits!resultVars, Edits!historyVars
  <2>2. IsEdit(edit') /\ edit'.editing = Edits!NoCell /\ edit'.changes = edit.changes
    BY <2>1, FieldSet, ZenonT(40)
  <2> QED BY <2>1, <2>2, Kept
<1>16. CASE Edits!AddRow
  <2> DEFINE more == Append(edit.inserted, <<>>)
  <2>1. /\ edit # Edits!NoEdit /\ edit' = [edit EXCEPT !.inserted = more]
        /\ UNCHANGED <<raw, sort, pointed, moved>>
    BY <1>16 DEF Edits!AddRow, Edits!Editing, Edits!Edited, Edits!resultVars, Edits!historyVars
  <2> HIDE DEF more
  <2>2. IsEdit(edit') /\ edit'.editing = edit.editing /\ edit'.changes = edit.changes
    BY <2>1, FieldSet
  <2> QED BY <2>1, <2>2, Kept
<1>17. CASE Edits!Revert
  <2>1. edit' = [target |-> edit.target, changes |-> <<>>, deleted |-> {},
                 inserted |-> <<>>, editing |-> Edits!NoCell]
    BY <1>17 DEF Edits!Revert, IsEdit
  <2>2. IsEdit(edit') /\ DOMAIN edit'.changes = {} /\ edit'.editing = Edits!NoCell
    BY <2>1 DEF IsEdit
  <2> QED BY <2>2 DEF UnderEditor, Edits!NoCell
<1>18. CASE Edits!Done
  BY <1>18 DEF Edits!Done
<1>19. CASE Edits!Dialog
  BY <1>1, <1>2, <1>19 
     DEF Edits!Dialog, Edits!Review, Edits!Cancel, Edits!Close, Edits!Apply, Edits!DialogGoes,
         Edits!Commit, Edits!RollBack, Edits!Applied, Edits!Failed, Edits!resultVars,
         Edits!historyVars
<1>20. CASE Edits!OthersWrite
  BY <1>2, <1>20 DEF Edits!OthersWrite, Edits!resultVars, Edits!historyVars
<1>21. CASE UNCHANGED Edits!vars
  BY <1>2, <1>21 DEF Edits!vars, Edits!resultVars, Edits!historyVars
<1> QED
  BY <1>3, <1>4, <1>5, <1>6, <1>7, <1>8, <1>9, <1>10, <1>11, <1>12, <1>13, <1>14, <1>15, <1>16,
     <1>17, <1>18, <1>19, <1>20, <1>21 DEF Edits!Next, Edits!Grid

\* The change of a cell is stored for the row the user pointed at, however the
\* grid is sorted before, between and after, and whatever answers come late
\* (EditState::set, row_ref).
THEOREM StayHolds == Edits!Spec => []EditsStayOnTheirRows
<1>1. PointedInv => EditsStayOnTheirRows
  BY DEF PointedInv, EditsStayOnTheirRows, Edits!EditsStayOnTheirRows
<1> QED BY <1>1, InitEdits, StepEdits, PTL DEF Edits!Spec

-----------------------------------------------------------------------------
(* The elements of a set in order *)

\* The instance counts as the module does.
LEMMA Counts == \A S : Edits!Cardinality(S) = Cardinality(S)
BY DEF Edits!Cardinality, Edits!IsFiniteSet, Cardinality, IsFiniteSet

\* R is a strict total order on S.
Ordered(S, R) ==
  /\ \A x \in S : <<x, x>> \notin R
  /\ \A x, y, z \in S : <<x, y>> \in R /\ <<y, z>> \in R => <<x, z>> \in R
  /\ \A x, y \in S : x = y \/ <<x, y>> \in R \/ <<y, x>> \in R

\* The sequence f has each element of S once, in the order R.
Arranges(f, S, R) ==
  /\ Cardinality(S) \in Nat
  /\ f \in [1 .. Cardinality(S) -> S]
  /\ \A i, j \in 1 .. Cardinality(S) : <<f[i], f[j]>> \in R <=> i < j
  /\ \A x \in S : \E i \in 1 .. Cardinality(S) : f[i] = x

\* In a finite set, the element with i - 1 elements before it is the i-th.
LEMMA Ranks ==
  ASSUME NEW S, IsFiniteSet(S), NEW R, Ordered(S, R)
  PROVE  Arranges(Edits!InOrder(S, R), S, R)
<1> DEFINE Below(x) == {y \in S : <<y, x>> \in R}
           N == Cardinality(S)
           rank == [x \in S |-> Cardinality(Below(x)) + 1]
<1>1. N \in Nat
  BY FS_CardinalityType
<1>2. ASSUME NEW x \in S
      PROVE  IsFiniteSet(Below(x)) /\ Cardinality(Below(x)) \in Nat /\ Cardinality(Below(x)) < N
  <2>1. Below(x) \in SUBSET (S \ {x})
    BY DEF Ordered
  <2>2. IsFiniteSet(S \ {x}) /\ Cardinality(S \ {x}) = N - 1
    BY FS_RemoveElement
  <2>3. IsFiniteSet(Below(x)) /\ Cardinality(Below(x)) <= Cardinality(S \ {x})
    <3> HIDE DEF Below
    <3> QED BY <2>1, <2>2, FS_Subset
  <2>4. Cardinality(Below(x)) \in Nat
    BY <2>3, FS_CardinalityType
  <2> QED BY <1>1, <2>2, <2>3, <2>4
<1>3. ASSUME NEW x \in S, NEW y \in S, <<x, y>> \in R PROVE rank[x] < rank[y]
  <2>1. Below(x) \in SUBSET (Below(y) \ {x}) /\ x \in Below(y)
    BY <1>3 DEF Ordered
  <2>2. IsFiniteSet(Below(y) \ {x}) /\ Cardinality(Below(y) \ {x}) = Cardinality(Below(y)) - 1
    BY <1>2, <2>1, FS_RemoveElement
  <2>3. Cardinality(Below(x)) <= Cardinality(Below(y) \ {x})
    <3> HIDE DEF Below
    <3> QED BY <2>1, <2>2, FS_Subset
  <2>4. Cardinality(Below(x)) \in Nat /\ Cardinality(Below(y)) \in Nat
    BY <1>2
  <2>5. rank[x] = Cardinality(Below(x)) + 1 /\ rank[y] = Cardinality(Below(y)) + 1
    OBVIOUS
  <2> HIDE DEF rank
  <2> QED BY <2>2, <2>3, <2>4, <2>5
<1>4. \A x \in S : rank[x] = Cardinality(Below(x)) + 1 /\ rank[x] \in 1 .. N
  <2> SUFFICES ASSUME NEW x \in S
               PROVE  rank[x] = Cardinality(Below(x)) + 1 /\ rank[x] \in 1 .. N
    OBVIOUS
  <2>1. rank[x] = Cardinality(Below(x)) + 1
    OBVIOUS
  <2>2. Cardinality(Below(x)) \in Nat /\ Cardinality(Below(x)) < N
    BY <1>2
  <2> HIDE DEF rank
  <2> QED BY <1>1, <2>1, <2>2
<1>5. rank \in Injection(S, 1 .. N)
  <2>1. rank \in [S -> 1 .. N]
    BY <1>4
  <2>2. ASSUME NEW x \in S, NEW y \in S, rank[x] = rank[y] PROVE x = y
    <3> HIDE DEF rank
    <3>1. rank[x] \in 1 .. N /\ rank[y] \in 1 .. N
      BY <1>4
    <3>2. <<x, y>> \notin R /\ <<y, x>> \notin R
      BY <1>1, <1>3, <2>2, <3>1
    <3> QED BY <3>2 DEF Ordered
  <2> QED BY <2>1, <2>2 DEF Injection, IsInjective
<1>6. \A i \in 1 .. N : \E x \in S : rank[x] = i
  <2>1. IsFiniteSet(1 .. N) /\ Cardinality(1 .. N) = N
    BY <1>1, FS_Interval
  <2>2. rank \in Surjection(S, 1 .. N)
    BY <1>5, <2>1, FS_Injection
  <2> QED BY <2>2 DEF Surjection
<1> DEFINE f == Edits!InOrder(S, R)
<1>7. f = [n \in 1 .. N |-> CHOOSE x \in S : Cardinality(Below(x)) = n - 1]
  <2>1. f = [n \in 1 .. Edits!Cardinality(S) |->
               CHOOSE x \in S : Edits!Cardinality(Below(x)) = n - 1]
    BY DEF Edits!InOrder
  <2>2. Edits!Cardinality(S) = N /\ \A x : Edits!Cardinality(Below(x)) = Cardinality(Below(x))
    BY Counts
  <2> HIDE DEF f, Below
  <2> QED BY <2>1, <2>2
<1>8. ASSUME NEW i \in 1 .. N PROVE f[i] \in S /\ rank[f[i]] = i
  <2>1. PICK x \in S : rank[x] = i
    BY <1>6
  <2>2. Cardinality(Below(x)) = i - 1
    BY <1>2, <1>4, <2>1
  <2>3. f[i] = CHOOSE y \in S : Cardinality(Below(y)) = i - 1
    BY <1>7
  <2>4. f[i] \in S /\ Cardinality(Below(f[i])) = i - 1
    BY <2>2, <2>3
  <2> QED BY <1>4, <2>4
<1> HIDE DEF f, rank
<1>9. f \in [1 .. N -> S]
  <2>1. \A i \in 1 .. N : f[i] \in S
    BY <1>8
  <2>2. f = [i \in 1 .. N |-> f[i]]
    <3> DEFINE h(n) == CHOOSE x \in S : Cardinality(Below(x)) = n - 1
    <3>1. f = [n \in 1 .. N |-> h(n)]
      BY <1>7
    <3> HIDE DEF h
    <3> QED BY <3>1
  <2> QED BY <2>1, <2>2
<1>10. \A i, j \in 1 .. N : <<f[i], f[j]>> \in R <=> i < j
  <2> SUFFICES ASSUME NEW i \in 1 .. N, NEW j \in 1 .. N PROVE <<f[i], f[j]>> \in R <=> i < j
    OBVIOUS
  <2>1. f[i] \in S /\ f[j] \in S /\ rank[f[i]] = i /\ rank[f[j]] = j
    BY <1>8
  <2>2. <<f[i], f[j]>> \in R => i < j
    BY <1>3, <2>1
  <2>3. <<f[j], f[i]>> \in R => j < i
    BY <1>3, <2>1
  <2>4. f[i] = f[j] => i = j
    BY <2>1
  <2>5. f[i] = f[j] \/ <<f[i], f[j]>> \in R \/ <<f[j], f[i]>> \in R
    BY <2>1 DEF Ordered
  <2> QED BY <2>2, <2>3, <2>4, <2>5
<1>11. \A x \in S : \E i \in 1 .. N : f[i] = x
  <2> SUFFICES ASSUME NEW x \in S PROVE \E i \in 1 .. N : f[i] = x
    OBVIOUS
  <2>1. rank[x] \in 1 .. N /\ f[rank[x]] \in S /\ rank[f[rank[x]]] = rank[x]
    BY <1>4, <1>8
  <2>2. f[rank[x]] = x
    BY <1>5, <2>1 DEF Injection, IsInjective
  <2> QED BY <2>1, <2>2
<1>12. /\ N \in Nat /\ f \in [1 .. N -> S]
       /\ \A i, j \in 1 .. N : <<f[i], f[j]>> \in R <=> i < j
       /\ \A x \in S : \E i \in 1 .. N : f[i] = x
  BY <1>1, <1>9, <1>10, <1>11
<1>13. Arranges(f, S, R)
  <2> HIDE DEF N
  <2> QED BY <1>12 DEF Arranges, N
<1> QED BY <1>13 DEF f

\* Numbers, from the smallest up.
LEMMA Ascends ==
  ASSUME NEW S, IsFiniteSet(S), S \subseteq Int
  PROVE  /\ Cardinality(S) \in Nat
         /\ Edits!Ascending(S) \in [1 .. Cardinality(S) -> S]
         /\ \A i, j \in 1 .. Cardinality(S) : Edits!Ascending(S)[i] < Edits!Ascending(S)[j] <=> i < j
         /\ \A x \in S : \E i \in 1 .. Cardinality(S) : Edits!Ascending(S)[i] = x
<1> DEFINE R == {p \in S \X S : p[1] < p[2]}
<1>1. \A x, y \in S : <<x, y>> \in R <=> x < y
  OBVIOUS
<1>2. Edits!Ascending(S) = Edits!InOrder(S, R)
  BY DEF Edits!Ascending
<1> HIDE DEF R
<1>3. Ordered(S, R)
  BY <1>1 DEF Ordered
<1>4. Arranges(Edits!InOrder(S, R), S, R)
  BY <1>3, Ranks
<1> QED BY <1>1, <1>2, <1>4 DEF Arranges

-----------------------------------------------------------------------------
(* Recursion *)

\* Induction over the naturals, for a set.
LEMMA SetInduction ==
  ASSUME NEW S, 0 \in S, \A n \in Nat : n \in S => n + 1 \in S
  PROVE  Nat \subseteq S
<1> DEFINE T == Nat \ S
           R == OpToRel(<, Nat)
<1> SUFFICES ASSUME T # {} PROVE FALSE
  OBVIOUS
<1>1. IsWellFoundedOn(R, Nat)
  BY NatLessThanWellFounded
<1>2. \A x, y \in Nat : x < y => <<x, y>> \in R
  BY DEF OpToRel
<1>3. T \subseteq Nat
  OBVIOUS
<1> HIDE DEF R
<1>4. PICK x \in T : \A y \in T : <<y, x>> \notin R
  <2> HIDE DEF T
  <2> QED BY <1>1, <1>3, WFMin
<1>5. x \in Nat /\ x # 0 /\ x \notin S
  OBVIOUS
<1>6. x - 1 \in Nat /\ x - 1 < x /\ (x - 1) + 1 = x
  BY <1>5
<1>7. x - 1 \in S
  BY <1>2, <1>4, <1>5, <1>6
<1> QED BY <1>5, <1>6, <1>7

\* What is flattened is a sequence of the elements.
LEMMA Flattened ==
  ASSUME NEW T, NEW s \in Seq(Seq(T))
  PROVE  Edits!FlattenSeq(s) \in Seq(T)
<1> PICK n \in Nat : n = Len(s)
  OBVIOUS
<1>0. \A i \in 1 .. n : s[i] \in Seq(T)
  OBVIOUS
<1>1. CASE n = 0
  <2>1. Edits!FlattenSeq(s) = s
    BY <1>1 DEF Edits!FlattenSeq
  <2>2. s = <<>>
    BY <1>1, EmptySeq
  <2>3. <<>> \in Seq(T)
    OBVIOUS
  <2> QED BY <2>1, <2>2, <2>3
<1>2. CASE n # 0
  <2> DEFINE F(f, m) == f = [i \in 1 .. m |-> IF i = 1 THEN s[i] ELSE f[i - 1] \o s[i]]
             g == CHOOSE f : F(f, n)
             S == {m \in Nat : \E f : F(f, m)}
             Q == {m \in Nat : m + 1 <= n => g[m + 1] \in Seq(T)}
  <2>1. Edits!FlattenSeq(s) = g[n]
    BY <1>2 DEF Edits!FlattenSeq
  <2>2. 0 \in S
    <3>1. F([i \in 1 .. 0 |-> <<>>], 0)
      OBVIOUS
    <3> QED BY <3>1
  <2>3. ASSUME NEW m \in Nat, m \in S PROVE m + 1 \in S
    <3> PICK f : F(f, m)
      BY <2>3
    <3> DEFINE more == [i \in 1 .. m + 1 |-> IF i = 1 THEN s[i] ELSE f[i - 1] \o s[i]]
    <3>0. \A i \in 1 .. m : f[i] = IF i = 1 THEN s[i] ELSE f[i - 1] \o s[i]
      <4> DEFINE e(i) == IF i = 1 THEN s[i] ELSE f[i - 1] \o s[i]
      <4>1. f = [i \in 1 .. m |-> e(i)]
        OBVIOUS
      <4>2. \A i \in 1 .. m : f[i] = e(i)
        <5> HIDE DEF e
        <5> QED BY <4>1
      <4> QED BY <4>2
    <3>1. \A i \in 1 .. m : more[i] = f[i]
      <4>1. \A i \in 1 .. m + 1 : more[i] = IF i = 1 THEN s[i] ELSE f[i - 1] \o s[i]
        OBVIOUS
      <4> HIDE DEF more, F
      <4> QED BY <3>0, <4>1
    <3>2. \A i \in 1 .. m + 1 : i # 1 => i - 1 \in 1 .. m
      OBVIOUS
    <3>3. \A i \in 1 .. m + 1 :
            more[i] = IF i = 1 THEN s[i] ELSE more[i - 1] \o s[i]
      BY <3>1, <3>2
    <3>4. F(more, m + 1)
      <4> HIDE DEF more
      <4>1. more = [i \in 1 .. m + 1 |-> more[i]]
        BY DEF more
      <4> QED BY <3>3, <4>1
    <3> HIDE DEF F
    <3> QED BY <3>4
  <2>4. F(g, n)
    <3>1. n \in S
      <4> HIDE DEF S
      <4> QED BY <2>2, <2>3, SetInduction
    <3> QED BY <3>1
  <2>10. \A i \in 1 .. n : g[i] = IF i = 1 THEN s[i] ELSE g[i - 1] \o s[i]
    <3> DEFINE e(i) == IF i = 1 THEN s[i] ELSE g[i - 1] \o s[i]
    <3>1. g = [i \in 1 .. n |-> e(i)]
      BY <2>4
    <3> HIDE DEF e, g
    <3>2. \A i \in 1 .. n : g[i] = e(i)
      BY <3>1
    <3> QED BY <3>2 DEF e
  <2> HIDE DEF g
  <2>5. 0 \in Q
    BY <1>0, <1>2, <2>10
  <2>6. ASSUME NEW m \in Nat, m \in Q PROVE m + 1 \in Q
    <3> SUFFICES ASSUME (m + 1) + 1 <= n PROVE g[(m + 1) + 1] \in Seq(T)
      OBVIOUS
    <3>1. g[(m + 1) + 1] = g[m + 1] \o s[(m + 1) + 1]
      <4>1. (m + 1) + 1 \in 1 .. n /\ (m + 1) + 1 # 1 /\ ((m + 1) + 1) - 1 = m + 1
        OBVIOUS
      <4> HIDE DEF F
      <4> QED BY <2>10, <4>1
    <3>2. g[m + 1] \in Seq(T) /\ s[(m + 1) + 1] \in Seq(T)
      BY <1>0, <2>6
    <3> QED BY <3>1, <3>2
  <2>7. n - 1 \in Nat /\ (n - 1) + 1 = n
    BY <1>2
  <2>8. n - 1 \in Q
    <3> HIDE DEF Q
    <3> QED BY <2>5, <2>6, <2>7, SetInduction
  <2> QED BY <2>1, <2>7, <2>8
<1> QED BY <1>1, <1>2

\* The names of a result's columns.
Names == {"star", "k", "v", "other"}

\* A select list names columns, those of the table among them.
LEMMA ExpandedType ==
  ASSUME NEW l \in Seq(Names), NEW c \in Connections
  PROVE  Edits!Expanded(l, c) \in Seq(Names)
<1> DEFINE parts == [i \in DOMAIN l |-> IF l[i] = "star" THEN Columns[c] ELSE <<l[i]>>]
<1> PICK n \in Nat : n = Len(l)
  OBVIOUS
<1>1. Columns[c] \in Seq(Names)
  <2>1. <<"k", "v">> \in Seq(Names) /\ <<"v", "k">> \in Seq(Names)
    BY DEF Names
  <2> QED BY <2>1, EditsAssumption
<1>2. ASSUME NEW i \in 1 .. n PROVE parts[i] \in Seq(Names)
  BY <1>1
<1>3. parts = [i \in 1 .. n |-> parts[i]]
  OBVIOUS
<1>4. Edits!Expanded(l, c) = Edits!FlattenSeq(parts)
  BY DEF Edits!Expanded
<1> HIDE DEF parts
<1>5. parts \in Seq(Seq(Names))
  BY <1>2, <1>3
<1> QED BY <1>4, <1>5, Flattened

-----------------------------------------------------------------------------
(* Edits: tables, results and what is pending *)

\* The columns of the result.
Named == Edits!Expanded(list, origin)

\* A finite table of numbers.
IsTable(t) ==
  /\ t = [k \in DOMAIN t |-> t[k]]
  /\ IsFiniteSet(DOMAIN t)
  /\ \A k \in DOMAIN t : k \in Int /\ t[k] \in Int

TablesInv ==
  /\ tables = [c \in Connections |-> tables[c]]
  /\ \A c \in Connections : IsTable(tables[c])

\* A result has a cell for each of its rows and columns.
RowsInv ==
  /\ chosen \in Connections /\ origin \in Connections /\ result \in Nat
  /\ list \in Seq(Names)
  /\ raw \in Seq([Edits!Cols -> Int])
  /\ sort = <<>> \/ sort \in Edits!Cols \X BOOLEAN

\* A column has a name, and a cell a number.
LEMMA ColsAre ==
  ASSUME RowsInv
  PROVE  /\ Named \in Seq(Names) /\ Len(Named) \in Nat
         /\ Edits!Cols = 1 .. Len(Named) /\ Edits!Cols = DOMAIN Named
         /\ Len(raw) \in Nat /\ Edits!Sources = 1 .. Len(raw)
         /\ \A r \in Edits!Sources : \A c \in Edits!Cols : raw[r][c] \in Int
<1>1. Named \in Seq(Names)
  BY ExpandedType DEF RowsInv, Named
<1>2. Edits!Cols = 1 .. Len(Named)
  BY DEF Edits!Cols, Edits!Width, Named
<1>3. Edits!Sources = 1 .. Len(raw)
  BY DEF Edits!Sources
<1>4. raw \in Seq([Edits!Cols -> Int])
  BY DEF RowsInv
<1>5. \A r \in 1 .. Len(raw) : raw[r] \in [Edits!Cols -> Int]
  BY <1>4
<1> QED BY <1>1, <1>2, <1>3, <1>4, <1>5

\* The grid shows each row of the result once.
LEMMA OrderIs ==
  ASSUME RowsInv
  PROVE  /\ Edits!Order \in [Edits!Sources -> Edits!Sources]
         /\ \A r \in Edits!Sources : \E pos \in Edits!Sources : Edits!Order[pos] = r
         /\ \A p, q \in Edits!Sources : Edits!Order[p] = Edits!Order[q] => p = q
<1> DEFINE R == {p \in Edits!Sources \X Edits!Sources : Edits!Before(p[1], p[2])}
<1>1. Len(raw) \in Nat /\ Edits!Sources = 1 .. Len(raw)
  BY ColsAre
<1>2. IsFiniteSet(Edits!Sources) /\ Cardinality(Edits!Sources) = Len(raw)
  BY <1>1, FS_Interval, SMTT(20)
<1>3. \A a, b \in Edits!Sources : <<a, b>> \in R <=> Edits!Before(a, b)
  OBVIOUS
<1>4. Edits!Order = Edits!InOrder(Edits!Sources, R)
  BY DEF Edits!Order
<1> HIDE DEF R
<1>5. Ordered(Edits!Sources, R)
  <2>1. CASE sort = <<>>
    <3>1. \A a, b : Edits!Before(a, b) <=> a < b
      BY <2>1 DEF Edits!Before
    <3> QED BY <1>1, <1>3, <3>1 DEF Ordered
  <2>2. CASE sort # <<>>
    <3>1. sort \in Edits!Cols \X BOOLEAN
      BY <2>2 DEF RowsInv
    <3> PICK c \in Edits!Cols, up \in BOOLEAN : sort = <<c, up>>
      BY <3>1
    <3>2. \A a \in Edits!Sources : raw[a][c] \in Int
      BY ColsAre
    <3>3. CASE up
      <4>1. \A a, b : Edits!Before(a, b) <=>
              IF raw[a][c] = raw[b][c] THEN a < b ELSE raw[a][c] < raw[b][c]
        BY <2>2, <3>3 DEF Edits!Before
      <4>2. \A x \in Edits!Sources : <<x, x>> \notin R
        BY <1>1, <1>3, <4>1
      <4>3. ASSUME NEW x \in Edits!Sources, NEW y \in Edits!Sources, NEW z \in Edits!Sources,
                   <<x, y>> \in R, <<y, z>> \in R
            PROVE  <<x, z>> \in R
        <5>1. Edits!Before(x, y) /\ Edits!Before(y, z)
          BY <1>3, <4>3
        <5>2. raw[x][c] \in Int /\ raw[y][c] \in Int /\ raw[z][c] \in Int
          BY <3>2
        <5>3. Edits!Before(x, z)
          BY <1>1, <4>1, <5>1, <5>2
        <5> QED BY <1>3, <5>3
      <4>4. \A x, y \in Edits!Sources : x = y \/ <<x, y>> \in R \/ <<y, x>> \in R
        <5> SUFFICES ASSUME NEW x \in Edits!Sources, NEW y \in Edits!Sources, x # y
                     PROVE  Edits!Before(x, y) \/ Edits!Before(y, x)
          BY <1>3
        <5>1. raw[x][c] \in Int /\ raw[y][c] \in Int /\ x \in Int /\ y \in Int
          BY <1>1, <3>2
        <5> QED BY <4>1, <5>1
      <4> QED BY <4>2, <4>3, <4>4 DEF Ordered
    <3>4. CASE ~up
      <4>1. \A a, b : Edits!Before(a, b) <=>
              IF raw[a][c] = raw[b][c] THEN a < b ELSE ~ (raw[a][c] < raw[b][c])
        BY <2>2, <3>4 DEF Edits!Before
      <4>2. \A x \in Edits!Sources : <<x, x>> \notin R
        BY <1>1, <1>3, <4>1
      <4>3. ASSUME NEW x \in Edits!Sources, NEW y \in Edits!Sources, NEW z \in Edits!Sources,
                   <<x, y>> \in R, <<y, z>> \in R
            PROVE  <<x, z>> \in R
        <5>1. Edits!Before(x, y) /\ Edits!Before(y, z)
          BY <1>3, <4>3
        <5>2. raw[x][c] \in Int /\ raw[y][c] \in Int /\ raw[z][c] \in Int
          BY <3>2
        <5>3. Edits!Before(x, z)
          BY <1>1, <4>1, <5>1, <5>2, SMTT(20)
        <5> QED BY <1>3, <5>3
      <4>4. \A x, y \in Edits!Sources : x = y \/ <<x, y>> \in R \/ <<y, x>> \in R
        <5> SUFFICES ASSUME NEW x \in Edits!Sources, NEW y \in Edits!Sources, x # y
                     PROVE  Edits!Before(x, y) \/ Edits!Before(y, x)
          BY <1>3
        <5>1. raw[x][c] \in Int /\ raw[y][c] \in Int /\ x \in Int /\ y \in Int
          BY <1>1, <3>2
        <5> QED BY <4>1, <5>1
      <4> QED BY <4>2, <4>3, <4>4 DEF Ordered
    <3> QED BY <3>3, <3>4
  <2> QED BY <2>1, <2>2
<1>6. Arranges(Edits!Order, Edits!Sources, R)
  BY <1>2, <1>4, <1>5, Ranks
<1>7. /\ Edits!Order \in [Edits!Sources -> Edits!Sources]
      /\ \A i, j \in Edits!Sources : <<Edits!Order[i], Edits!Order[j]>> \in R <=> i < j
      /\ \A r \in Edits!Sources : \E pos \in Edits!Sources : Edits!Order[pos] = r
  BY <1>1, <1>2, <1>6 DEF Arranges
<1>8. ASSUME NEW p \in Edits!Sources, NEW q \in Edits!Sources, Edits!Order[p] = Edits!Order[q]
      PROVE  p = q
  <2>1. <<Edits!Order[p], Edits!Order[q]>> \notin R /\ <<Edits!Order[q], Edits!Order[p]>> \notin R
    BY <1>5, <1>7, <1>8 DEF Ordered
  <2> QED BY <1>1, <1>7, <2>1
<1> QED BY <1>7, <1>8

\* What a user can have pending on a result: cells that can be changed, with
\* another value than came, rows that came, and new rows.
NewRows == UNION {[S -> Int] : S \in SUBSET Edits!Cols}

Good(e) ==
  /\ IsEdit(e)
  /\ e.target = Edits!Target(Named)
  /\ \E c \in Edits!Cols : \A i \in Edits!Cols : Named[i] = "k" <=> i = c
  /\ \A cell \in DOMAIN e.changes :
       /\ cell \in Edits!Cells /\ e.target[cell[2]] # "none"
       /\ e.changes[cell] \in Int /\ e.changes[cell] # raw[cell[1]][cell[2]]
  /\ e.deleted \subseteq Edits!Sources
  /\ e.inserted \in Seq(NewRows)

\* The key is one of the columns, and no two cells of a row write the same.
LEMMA TargetIs ==
  ASSUME RowsInv, NEW e, Good(e)
  PROVE  /\ DOMAIN e.target = Edits!Cols
         /\ Edits!Key(e) \in Edits!Cols /\ e.target[Edits!Key(e)] = "k"
         /\ \A c, d \in Edits!Cols :
              e.target[c] = e.target[d] /\ e.target[c] # "none" => c = d
<1>1. Edits!Cols = 1 .. Len(Named) /\ Edits!Cols = DOMAIN Named /\ Len(Named) \in Nat
  BY ColsAre
<1>2. DOMAIN e.target = Edits!Cols
  BY <1>1 DEF Good, Edits!Target
<1>3. \A i \in Edits!Cols :
        e.target[i] = IF Named[i] = "other" \/ \E j \in 1 .. i - 1 : Named[j] = Named[i]
                        THEN "none" ELSE Named[i]
  BY <1>1 DEF Good, Edits!Target
<1> PICK k \in Edits!Cols : \A i \in Edits!Cols : Named[i] = "k" <=> i = k
  BY DEF Good
<1>4. e.target[k] = "k"
  BY <1>1, <1>3
<1>5. Edits!Key(e) \in Edits!Cols /\ e.target[Edits!Key(e)] = "k"
  BY <1>2, <1>4 DEF Edits!Key
<1>7. ASSUME NEW c \in Edits!Cols, NEW d \in Edits!Cols,
             e.target[c] = e.target[d], e.target[c] # "none"
      PROVE  c = d
  <2>1. Named[c] = Named[d] /\ ~ (\E j \in 1 .. c - 1 : Named[j] = Named[c])
                            /\ ~ (\E j \in 1 .. d - 1 : Named[j] = Named[d])
    BY <1>3, <1>7
  <2> QED BY <1>1, <2>1
<1> QED BY <1>2, <1>5, <1>7

\* What a row has for the key and the value after its change.
To(e, r) == Edits!Shown(e, r, Edits!Key(e))

ValueCells(e, r) ==
  {c \in Edits!Cols : e.target[c] = "v" /\ Edits!Shown(e, r, c) # raw[r][c]}

Val(e, r, before) ==
  IF ValueCells(e, r) = {} THEN before
  ELSE Edits!Shown(e, r, CHOOSE c \in ValueCells(e, r) : TRUE)

\* The cells that show something else are those with a change.
LEMMA ShownIs ==
  ASSUME RowsInv, NEW e, Good(e)
  PROVE  /\ \A r, c : Edits!Shown(e, r, c) # raw[r][c] <=> <<r, c>> \in DOMAIN e.changes
         /\ Edits!Changed(e) \subseteq Edits!Sources
         /\ {r \in Edits!Sources : \E c \in Edits!Cols : Edits!Shown(e, r, c) # raw[r][c]}
              \cup e.deleted
            = Edits!Changed(e) \cup e.deleted
<1>1. \A cell \in DOMAIN e.changes :
        /\ cell = <<cell[1], cell[2]>> /\ cell[1] \in Edits!Sources /\ cell[2] \in Edits!Cols
        /\ e.changes[cell] # raw[cell[1]][cell[2]]
  BY DEF Good, Edits!Cells
<1>2. \A r, c : Edits!Shown(e, r, c) # raw[r][c] <=> <<r, c>> \in DOMAIN e.changes
  BY <1>1 DEF Edits!Shown
<1>3. \A r \in Edits!Sources : \A c \in Edits!Cols :
        Edits!Shown(e, r, c) # raw[r][c] <=> <<r, c>> \in DOMAIN e.changes
  BY <1>2
<1>4. Edits!Changed(e) = {cell[1] : cell \in DOMAIN e.changes} \ e.deleted
  BY DEF Edits!Changed
<1>5. Edits!Changed(e) \subseteq Edits!Sources
  BY <1>1, <1>4
<1>6. \A r : (\E cell \in DOMAIN e.changes : r = cell[1]) <=>
             r \in Edits!Sources /\ \E c \in Edits!Cols : Edits!Shown(e, r, c) # raw[r][c]
  <2>1. ASSUME NEW cell \in DOMAIN e.changes
        PROVE  /\ cell[1] \in Edits!Sources /\ cell[2] \in Edits!Cols
               /\ Edits!Shown(e, cell[1], cell[2]) # raw[cell[1]][cell[2]]
    BY <1>1, <1>3
  <2>2. ASSUME NEW r \in Edits!Sources, NEW c \in Edits!Cols, Edits!Shown(e, r, c) # raw[r][c]
        PROVE  \E cell \in DOMAIN e.changes : r = cell[1]
    <3>1. <<r, c>> \in DOMAIN e.changes /\ <<r, c>>[1] = r
      BY <1>3, <2>2
    <3> QED BY <3>1
  <2> QED BY <2>1, <2>2, Zenon
<1> QED BY <1>2, <1>4, <1>5, <1>6

\* An UPDATE sets the key and the value as they are shown.
LEMMA SetsAre ==
  ASSUME RowsInv, NEW e, Good(e), NEW r \in Edits!Sources
  PROVE  /\ (IF "k" \in DOMAIN Edits!Sets(e, r) THEN Edits!Sets(e, r)["k"]
             ELSE Edits!KeyOf(e, r)) = To(e, r)
         /\ \A x : (IF "v" \in DOMAIN Edits!Sets(e, r) THEN Edits!Sets(e, r)["v"] ELSE x)
                     = Val(e, r, x)
         /\ \A f \in DOMAIN Edits!Sets(e, r) : Edits!Sets(e, r)[f] \in Int
<1> DEFINE cs == {c \in DOMAIN e.target : <<r, c>> \in DOMAIN e.changes}
           fs == {e.target[c] : c \in cs}
           value(f) == e.changes[<<r, CHOOSE c \in cs : e.target[c] = f>>]
<1>1. Edits!Sets(e, r) = [f \in fs |-> value(f)]
  BY DEF Edits!Sets
<1>2. cs \subseteq Edits!Cols
  BY TargetIs
<1>3. ASSUME NEW c \in cs PROVE e.target[c] # "none" /\ e.changes[<<r, c>>] \in Int
  BY DEF Good
<1>4. ASSUME NEW c \in cs PROVE value(e.target[c]) = e.changes[<<r, c>>] /\ e.target[c] \in fs
  <2>1. c = CHOOSE d \in cs : e.target[d] = e.target[c]
    <3>1. \A d \in cs : e.target[d] = e.target[c] => d = c
      BY <1>2, <1>3, TargetIs
    <3> HIDE DEF cs
    <3> QED BY <3>1
  <2> QED BY <2>1
<1>5. \A c \in Edits!Cols : c \in cs <=> <<r, c>> \in DOMAIN e.changes
  BY TargetIs
<1>6. \A f \in fs : \E c \in cs : f = e.target[c]
  OBVIOUS
<1> DEFINE sets == Edits!Sets(e, r)
<1>7. DOMAIN sets = fs /\ \A f \in fs : sets[f] = value(f)
  <2> HIDE DEF fs, value
  <2> QED BY <1>1
<1> HIDE DEF cs, fs, value, sets
<1>8. (IF "k" \in DOMAIN sets THEN sets["k"] ELSE Edits!KeyOf(e, r)) = To(e, r)
  <2> DEFINE c == Edits!Key(e)
  <2>1. c \in Edits!Cols /\ e.target[c] = "k"
    BY TargetIs
  <2>2. CASE c \in cs
    <3>1. "k" \in fs /\ value("k") = e.changes[<<r, c>>]
      BY <1>4, <2>1, <2>2
    <3>2. To(e, r) = e.changes[<<r, c>>]
      BY <1>5, <2>1, <2>2 DEF To, Edits!Shown
    <3> QED BY <1>7, <3>1, <3>2
  <2>3. CASE c \notin cs
    <3>1. "k" \notin fs
      <4> SUFFICES ASSUME "k" \in fs PROVE FALSE
        OBVIOUS
      <4> PICK d \in cs : "k" = e.target[d]
        BY <1>6
      <4> QED BY <1>2, <2>1, <2>3, TargetIs
    <3>2. To(e, r) = raw[r][c]
      BY <1>5, <2>1, <2>3 DEF To, Edits!Shown
    <3> QED BY <1>7, <3>1, <3>2 DEF Edits!KeyOf
  <2> QED BY <2>2, <2>3
<1>9. ASSUME NEW x PROVE (IF "v" \in DOMAIN sets THEN sets["v"] ELSE x) = Val(e, r, x)
  <2>1. \A c : c \in ValueCells(e, r) <=> c \in cs /\ e.target[c] = "v"
    BY <1>2, <1>5, ShownIs DEF ValueCells
  <2>2. CASE "v" \in fs
    <3> PICK c \in cs : "v" = e.target[c]
      BY <1>6, <2>2
    <3>1. \A d \in ValueCells(e, r) : d = c
      BY <1>2, <1>3, <2>1, TargetIs
    <3>2. c \in ValueCells(e, r)
      BY <2>1
    <3>3. c = CHOOSE d \in ValueCells(e, r) : TRUE
      BY <3>1, <3>2
    <3>4. Edits!Shown(e, r, c) = e.changes[<<r, c>>]
      BY <1>2, <1>5 DEF Edits!Shown
    <3>5. Val(e, r, x) = e.changes[<<r, c>>]
      BY <3>2, <3>3, <3>4 DEF Val
    <3>6. value("v") = e.changes[<<r, c>>]
      BY <1>4
    <3> QED BY <1>7, <2>2, <3>5, <3>6
  <2>3. CASE "v" \notin fs
    <3>1. ValueCells(e, r) = {}
      BY <1>4, <2>1, <2>3
    <3> QED BY <1>7, <2>3, <3>1 DEF Val
  <2> QED BY <2>2, <2>3
<1>10. \A f \in DOMAIN sets : sets[f] \in Int
  <2> SUFFICES ASSUME NEW f \in fs PROVE value(f) \in Int
    BY <1>7
  <2> PICK c \in cs : f = e.target[c]
    BY <1>6
  <2> QED BY <1>3, <1>4
<1> QED BY <1>8, <1>9, <1>10 DEF sets

\* The statements of a review, by their place.
Deletes(e) == Edits!Ascending(e.deleted)
Updates(e) == Edits!Ascending(Edits!Changed(e))

DeleteOf(e, r) == [op |-> "delete", key |-> Edits!KeyOf(e, r)]
UpdateOf(e, r) == [op |-> "update", key |-> Edits!KeyOf(e, r), set |-> Edits!Sets(e, r)]
InsertOf(e, i) == [op |-> "insert", row |-> Edits!RowOf(e, e.inserted[i])]

\* A function on the first numbers is a sequence.
LEMMA Listed ==
  ASSUME NEW T, NEW n \in Nat, NEW f \in [1 .. n -> T]
  PROVE  f \in Seq(T) /\ Len(f) = n
OBVIOUS

\* Three sequences one after the other.
LEMMA ThreeParts ==
  ASSUME NEW T, NEW a \in Seq(T), NEW b \in Seq(T), NEW c \in Seq(T)
  PROVE  /\ Len(a) \in Nat /\ Len(b) \in Nat /\ Len(c) \in Nat
         /\ Len(a \o b \o c) = Len(a) + Len(b) + Len(c)
         /\ \A i \in 1 .. Len(a) : (a \o b \o c)[i] = a[i]
         /\ \A i \in 1 .. Len(b) : (a \o b \o c)[Len(a) + i] = b[i]
         /\ \A i \in 1 .. Len(c) : (a \o b \o c)[Len(a) + Len(b) + i] = c[i]
<1>1. a \o b \in Seq(T) /\ Len(a \o b) = Len(a) + Len(b)
  OBVIOUS
<1>2. /\ \A i \in 1 .. Len(a) : (a \o b)[i] = a[i]
      /\ \A i \in 1 .. Len(b) : (a \o b)[Len(a) + i] = b[i]
  OBVIOUS
<1> DEFINE ab == a \o b
<1> HIDE DEF ab
<1>3. ab \in Seq(T) /\ c \in Seq(T) /\ Len(a) \in Nat /\ Len(b) \in Nat /\ Len(c) \in Nat
  BY <1>1 DEF ab
<1>4. Len(ab \o c) = Len(ab) + Len(c)
  BY <1>3
<1>5. \A i \in 1 .. Len(ab) : (ab \o c)[i] = ab[i]
  BY <1>3
<1>6. \A i \in 1 .. Len(c) : (ab \o c)[Len(ab) + i] = c[i]
  BY <1>3
<1>7. Len(ab) = Len(a) + Len(b) /\ ab \o c = a \o b \o c
  BY <1>1 DEF ab
<1>8. \A i \in 1 .. Len(a) : i \in 1 .. Len(ab) /\ ab[i] = a[i]
  BY <1>2, <1>3, <1>7 DEF ab
<1>9. \A i \in 1 .. Len(b) : Len(a) + i \in 1 .. Len(ab) /\ ab[Len(a) + i] = b[i]
  BY <1>2, <1>3, <1>7 DEF ab
<1> QED BY <1>3, <1>4, <1>5, <1>6, <1>7, <1>8, <1>9

\* The statements: deletes, then updates, then inserts, a row each.
LEMMA StatementsAre ==
  ASSUME RowsInv, NEW e, Good(e), NEW nd, nd = Cardinality(e.deleted),
         NEW nu, nu = Cardinality(Edits!Changed(e)), NEW ni, ni = Len(e.inserted)
  PROVE  /\ nd \in Nat /\ nu \in Nat /\ ni \in Nat
         /\ Len(Edits!Statements(e)) = nd + nu + ni
         /\ DOMAIN Edits!Statements(e) = 1 .. nd + nu + ni
         /\ \A i \in 1 .. nd : Edits!Statements(e)[i] = DeleteOf(e, Deletes(e)[i])
         /\ \A i \in 1 .. nu : Edits!Statements(e)[nd + i] = UpdateOf(e, Updates(e)[i])
         /\ \A i \in 1 .. ni : Edits!Statements(e)[nd + nu + i] = InsertOf(e, i)
         /\ Deletes(e) \in [1 .. nd -> e.deleted]
         /\ \A i, j \in 1 .. nd : Deletes(e)[i] < Deletes(e)[j] <=> i < j
         /\ \A r \in e.deleted : \E i \in 1 .. nd : Deletes(e)[i] = r
         /\ Updates(e) \in [1 .. nu -> Edits!Changed(e)]
         /\ \A i, j \in 1 .. nu : Updates(e)[i] < Updates(e)[j] <=> i < j
         /\ \A r \in Edits!Changed(e) : \E i \in 1 .. nu : Updates(e)[i] = r
<1>1. IsFiniteSet(Edits!Sources) /\ Edits!Sources \subseteq Int
  <2>1. Edits!Sources = 1 .. Len(raw) /\ Len(raw) \in Int /\ 1 \in Int
    BY ColsAre
  <2>2. IsFiniteSet(1 .. Len(raw))
    BY <2>1, FS_Interval
  <2> QED BY <2>1, <2>2
<1>2. e.deleted \in SUBSET Edits!Sources /\ Edits!Changed(e) \in SUBSET Edits!Sources
  BY ShownIs DEF Good
<1>3. /\ IsFiniteSet(e.deleted) /\ e.deleted \subseteq Int
      /\ IsFiniteSet(Edits!Changed(e)) /\ Edits!Changed(e) \subseteq Int
  BY <1>1, <1>2, FS_Subset
<1>4. /\ nd \in Nat /\ Deletes(e) \in [1 .. nd -> e.deleted]
      /\ \A i, j \in 1 .. nd : Deletes(e)[i] < Deletes(e)[j] <=> i < j
      /\ \A r \in e.deleted : \E i \in 1 .. nd : Deletes(e)[i] = r
  BY <1>3, Ascends DEF Deletes
<1>5. /\ nu \in Nat /\ Updates(e) \in [1 .. nu -> Edits!Changed(e)]
      /\ \A i, j \in 1 .. nu : Updates(e)[i] < Updates(e)[j] <=> i < j
      /\ \A r \in Edits!Changed(e) : \E i \in 1 .. nu : Updates(e)[i] = r
  BY <1>3, Ascends DEF Updates
<1>6. e.inserted \in Seq(NewRows) /\ ni \in Nat /\ DOMAIN e.inserted = 1 .. ni
  BY DEF Good
<1> DEFINE a == [i \in 1 .. nd |-> DeleteOf(e, Deletes(e)[i])]
           b == [i \in 1 .. nu |-> UpdateOf(e, Updates(e)[i])]
           c == [i \in 1 .. ni |-> InsertOf(e, i)]
           T == {a[i] : i \in 1 .. nd} \cup {b[i] : i \in 1 .. nu} \cup {c[i] : i \in 1 .. ni}
<1>7. Edits!Statements(e) = a \o b \o c
  <2>1. /\ DOMAIN Edits!Ascending(e.deleted) = 1 .. nd
        /\ DOMAIN Edits!Ascending(Edits!Changed(e)) = 1 .. nu
    BY <1>4, <1>5 DEF Deletes, Updates
  <2> QED BY <1>6, <2>1 DEF Edits!Statements, DeleteOf, UpdateOf, InsertOf, Deletes, Updates
<1>8. a \in Seq(T) /\ Len(a) = nd /\ b \in Seq(T) /\ Len(b) = nu /\ c \in Seq(T) /\ Len(c) = ni
  <2>1. /\ \A i \in 1 .. nd : a[i] \in T
        /\ \A i \in 1 .. nu : b[i] \in T
        /\ \A i \in 1 .. ni : c[i] \in T
    OBVIOUS
  <2>2. /\ a = [i \in 1 .. nd |-> a[i]] /\ b = [i \in 1 .. nu |-> b[i]]
        /\ c = [i \in 1 .. ni |-> c[i]]
    OBVIOUS
  <2> HIDE DEF a, b, c, T
  <2>3. nd \in Nat /\ nu \in Nat /\ ni \in Nat
    BY <1>4, <1>5, <1>6
  <2>4. a \in [1 .. nd -> T] /\ b \in [1 .. nu -> T] /\ c \in [1 .. ni -> T]
    <3>1. a \in [1 .. nd -> T]
      BY <2>1, <2>2
    <3>2. b \in [1 .. nu -> T]
      BY <2>1, <2>2
    <3>3. c \in [1 .. ni -> T]
      BY <2>1, <2>2
    <3> QED BY <3>1, <3>2, <3>3
  <2> QED BY <2>3, <2>4, Listed
<1>9. /\ \A i \in 1 .. nd : a[i] = DeleteOf(e, Deletes(e)[i])
      /\ \A i \in 1 .. nu : b[i] = UpdateOf(e, Updates(e)[i])
      /\ \A i \in 1 .. ni : c[i] = InsertOf(e, i)
  OBVIOUS
<1> HIDE DEF a, b, c, T
<1>10. /\ Len(a \o b \o c) = Len(a) + Len(b) + Len(c)
       /\ \A i \in 1 .. Len(a) : (a \o b \o c)[i] = a[i]
       /\ \A i \in 1 .. Len(b) : (a \o b \o c)[Len(a) + i] = b[i]
       /\ \A i \in 1 .. Len(c) : (a \o b \o c)[Len(a) + Len(b) + i] = c[i]
       /\ a \o b \o c \in Seq(T)
  <2>1. a \in Seq(T) /\ b \in Seq(T) /\ c \in Seq(T)
    BY <1>8
  <2>2. a \o b \o c \in Seq(T)
    BY <2>1
  <2> QED BY <2>1, <2>2, ThreeParts
<1>11. /\ Len(Edits!Statements(e)) = nd + nu + ni
       /\ DOMAIN Edits!Statements(e) = 1 .. nd + nu + ni
  BY <1>7, <1>8, <1>10
<1>12. \A i \in 1 .. nd : Edits!Statements(e)[i] = DeleteOf(e, Deletes(e)[i])
  BY <1>7, <1>8, <1>9, <1>10
<1>13. \A i \in 1 .. nu : Edits!Statements(e)[nd + i] = UpdateOf(e, Updates(e)[i])
  BY <1>7, <1>8, <1>9, <1>10
<1>14. \A i \in 1 .. ni : Edits!Statements(e)[nd + nu + i] = InsertOf(e, i)
  BY <1>7, <1>8, <1>9, <1>10
<1> QED BY <1>4, <1>5, <1>6, <1>11, <1>12, <1>13, <1>14

-----------------------------------------------------------------------------
(* Edits: what a transaction does *)

\* A transaction is its statements one after the other.
LEMMA Unrolled ==
  ASSUME Len(stmts) \in Nat
  PROVE  \E f : /\ f[0] = [ok |-> TRUE, table |-> tables[chosen]]
                /\ Edits!Transaction = f[Len(stmts)]
                /\ \A k \in 1 .. Len(stmts) : f[k] = Edits!Ran(f[k - 1], stmts[k])
<1> DEFINE n == Len(stmts)
           start == [ok |-> TRUE, table |-> tables[chosen]]
           E(f, k) == IF k = 0 THEN start ELSE Edits!Ran(f[k - 1], stmts[k])
           F(f, m) == f = [k \in 0 .. m |-> E(f, k)]
           g == CHOOSE f : F(f, n)
           S == {m \in Nat : \E f : F(f, m)}
<1>1. Edits!Transaction = g[n]
  BY DEF Edits!Transaction
<1>2. 0 \in S
  <2>1. F([k \in 0 .. 0 |-> start], 0)
    OBVIOUS
  <2> HIDE DEF F
  <2> QED BY <2>1
<1>3. ASSUME NEW f, NEW m \in Nat, F(f, m) PROVE \A k \in 0 .. m : f[k] = E(f, k)
  <2>1. f = [k \in 0 .. m |-> E(f, k)]
    BY <1>3
  <2> HIDE DEF E, F
  <2> QED BY <2>1
<1>4. ASSUME NEW m \in Nat, m \in S PROVE m + 1 \in S
  <2> PICK f : F(f, m)
    BY <1>4
  <2> DEFINE more == [k \in 0 .. m + 1 |-> E(f, k)]
  <2>1. \A k \in 0 .. m : f[k] = E(f, k)
    BY <1>3
  <2>2. \A k \in 0 .. m + 1 : more[k] = E(f, k)
    <3> HIDE DEF E
    <3> QED OBVIOUS
  <2>3. more = [k \in 0 .. m + 1 |-> more[k]]
    BY <2>2
  <2> HIDE DEF more, F
  <2>4. \A k \in 0 .. m : more[k] = f[k]
    <3>1. \A k \in 0 .. m : k \in 0 .. m + 1
      OBVIOUS
    <3> HIDE DEF E
    <3> QED BY <2>1, <2>2, <3>1
  <2>5. \A k \in 0 .. m + 1 : k = 0 \/ k - 1 \in 0 .. m
    OBVIOUS
  <2>6. \A k \in 0 .. m + 1 : more[k] = E(more, k)
    BY <2>2, <2>4, <2>5
  <2>7. F(more, m + 1)
    <3> HIDE DEF E
    <3> QED BY <2>3, <2>6 DEF F
  <2> QED BY <2>7
<1>5. F(g, n)
  <2> HIDE DEF F
  <2>1. n \in S
    <3> HIDE DEF S
    <3> QED BY <1>2, <1>4, SetInduction
  <2> QED BY <2>1
<1>6. \A k \in 0 .. n : g[k] = E(g, k)
  <2> HIDE DEF E, F, g
  <2> QED BY <1>3, <1>5
<1> HIDE DEF g
<1>7. g[0] = start /\ \A k \in 1 .. n : g[k] = Edits!Ran(g[k - 1], stmts[k])
  <2>1. 0 \in 0 .. n /\ \A k \in 1 .. n : k \in 0 .. n /\ k # 0
    OBVIOUS
  <2>2. E(g, 0) = start /\ \A k \in 1 .. n : E(g, k) = Edits!Ran(g[k - 1], stmts[k])
    OBVIOUS
  <2> HIDE DEF E, start
  <2> QED BY <1>6, <2>1, <2>2
<1> QED BY <1>1, <1>7

\* What a statement makes of the table t that neither fails nor finds no row.
Does(st, t, t2) ==
  /\ st.op = "delete" =>
       st.key \in DOMAIN t /\ t2 = [k \in DOMAIN t \ {st.key} |-> t[k]]
  /\ st.op = "update" =>
       \A to, v :
         /\ to = (IF "k" \in DOMAIN st.set THEN st.set["k"] ELSE st.key)
         /\ v = (IF "v" \in DOMAIN st.set THEN st.set["v"] ELSE t[st.key])
         => /\ st.key \in DOMAIN t /\ to \notin DOMAIN t \ {st.key}
            /\ t2 = Edits!With([k \in DOMAIN t \ {st.key} |-> t[k]], to, v)
  /\ st.op = "insert" =>
       st.row["k"] \notin DOMAIN t /\ t2 = Edits!With(t, st.row["k"], st.row["v"])

\* A statement that did not stop the transaction did what it says.
LEMMA RanOk ==
  ASSUME NEW s, NEW st, s.ok \in BOOLEAN, Edits!Ran(s, st).ok
  PROVE  s.ok /\ Does(st, s.table, Edits!Ran(s, st).table)
<1> DEFINE t == s.table
<1>1. /\ s.ok /\ ~Edits!Refused(t, st) /\ (st.op = "insert" \/ st.key \in DOMAIN t)
      /\ Edits!Ran(s, st).table = Edits!Exec(t, st)
  BY DEF Edits!Ran
<1>2. CASE st.op = "delete"
  BY <1>1, <1>2 DEF Edits!Exec, Does
<1>3. CASE st.op = "update"
  <2> DEFINE without == [k \in DOMAIN t \ {st.key} |-> t[k]]
             to == IF "k" \in DOMAIN st.set THEN st.set["k"] ELSE st.key
             v == IF "v" \in DOMAIN st.set THEN st.set["v"] ELSE t[st.key]
  <2>1. st.key \in DOMAIN t
    BY <1>1, <1>3
  <2>2. to \notin DOMAIN t \ {st.key}
    BY <1>1, <1>3, <2>1 DEF Edits!Refused
  <2>3. Edits!Exec(t, st) = Edits!With(without, to, v)
    BY <1>3 DEF Edits!Exec
  <2> HIDE DEF without, to, v
  <2>4. Edits!Ran(s, st).table = Edits!With(without, to, v)
    BY <1>1, <2>3
  <2> QED BY <1>1, <1>3, <2>1, <2>2, <2>4 DEF without, to, v, Does
<1>4. CASE st.op = "insert"
  BY <1>1, <1>4 DEF Edits!Exec, Edits!Refused, Does
<1>5. st.op \notin {"delete", "update", "insert"} => Does(st, t, Edits!Ran(s, st).table)
  BY DEF Does
<1> QED BY <1>1, <1>2, <1>3, <1>4, <1>5

\* The new rows, as they are inserted.
NewKey(e, i) == Edits!RowOf(e, e.inserted[i])["k"]
NewValue(e, i) == Edits!RowOf(e, e.inserted[i])["v"]

\* The keys that rows came with.
CameWith(e, rows) == {Edits!KeyOf(e, r) : r \in rows}

\* The table tb is the table t with the rows D deleted, the rows U updated and
\* the new rows I inserted.
Progress(e, t, tb, D, U, I) ==
  /\ CameWith(e, D \cup U) \subseteq DOMAIN t
  /\ DOMAIN tb = (DOMAIN t \ CameWith(e, D \cup U)) \cup {To(e, r) : r \in U}
                   \cup {NewKey(e, i) : i \in I}
  /\ \A k \in DOMAIN t \ CameWith(e, D \cup U) : tb[k] = t[k]
  /\ \A r \in U : tb[To(e, r)] = Val(e, r, t[Edits!KeyOf(e, r)])
  /\ \A i \in I : tb[NewKey(e, i)] = NewValue(e, i)

\* A row is gone.
LEMMA DeleteStep ==
  ASSUME NEW e, NEW t, NEW tb, NEW D, NEW r, Progress(e, t, tb, D, {}, {}),
         Edits!KeyOf(e, r) \in DOMAIN tb
  PROVE  Progress(e, t, [k \in DOMAIN tb \ {Edits!KeyOf(e, r)} |-> tb[k]], D \cup {r}, {}, {})
<1> DEFINE key == Edits!KeyOf(e, r)
           tb2 == [k \in DOMAIN tb \ {key} |-> tb[k]]
<1>1. /\ DOMAIN tb = DOMAIN t \ CameWith(e, D)
      /\ CameWith(e, D) \subseteq DOMAIN t
      /\ \A k \in DOMAIN t \ CameWith(e, D) : tb[k] = t[k]
  BY DEF Progress
<1>2. CameWith(e, D \cup {r}) = CameWith(e, D) \cup {key}
  BY DEF CameWith
<1>3. DOMAIN tb2 = DOMAIN tb \ {key} /\ \A k \in DOMAIN tb2 : tb2[k] = tb[k]
  OBVIOUS
<1>4. key \in DOMAIN tb
  OBVIOUS
<1> HIDE DEF key, tb2
<1>5. /\ CameWith(e, D \cup {r}) \subseteq DOMAIN t
      /\ DOMAIN tb2 = DOMAIN t \ CameWith(e, D \cup {r})
      /\ \A k \in DOMAIN t \ CameWith(e, D \cup {r}) : tb2[k] = t[k]
  BY <1>1, <1>2, <1>3, <1>4
<1>6. Progress(e, t, tb2, D \cup {r}, {}, {})
  BY <1>5 DEF Progress
<1> QED BY <1>6 DEF key, tb2

\* A row has its key and value as shown, unless it takes the key of a later one.
LEMMA UpdateStep ==
  ASSUME NEW e, NEW t, NEW tb, NEW D, NEW U, NEW r, Progress(e, t, tb, D, U, {}),
         \A u \in U : To(e, u) # Edits!KeyOf(e, r),
         Edits!KeyOf(e, r) \in DOMAIN tb,
         To(e, r) \notin DOMAIN tb \ {Edits!KeyOf(e, r)}
  PROVE  Progress(e, t, Edits!With([k \in DOMAIN tb \ {Edits!KeyOf(e, r)} |-> tb[k]], To(e, r),
                                   Val(e, r, tb[Edits!KeyOf(e, r)])),
                  D, U \cup {r}, {})
<1> DEFINE key == Edits!KeyOf(e, r)
           to == To(e, r)
           v == Val(e, r, tb[key])
           without == [k \in DOMAIN tb \ {key} |-> tb[k]]
           tb2 == Edits!With(without, to, v)
           gone == CameWith(e, D \cup U)
           moves == {To(e, u) : u \in U}
<1>1. /\ gone \subseteq DOMAIN t
      /\ DOMAIN tb = (DOMAIN t \ gone) \cup moves
      /\ \A k \in DOMAIN t \ gone : tb[k] = t[k]
      /\ \A u \in U : tb[To(e, u)] = Val(e, u, t[Edits!KeyOf(e, u)])
  BY DEF Progress
<1>2. CameWith(e, D \cup (U \cup {r})) = gone \cup {key}
  BY DEF CameWith
<1>3. key \in DOMAIN tb /\ key \notin moves /\ to \notin DOMAIN tb \ {key}
  OBVIOUS
<1>4. /\ DOMAIN tb2 = (DOMAIN tb \ {key}) \cup {to} /\ tb2[to] = v
      /\ \A k \in DOMAIN tb \ {key} : tb2[k] = tb[k]
  <2>1. DOMAIN without = DOMAIN tb \ {key} /\ \A k \in DOMAIN without : without[k] = tb[k]
    OBVIOUS
  <2>2. to \notin DOMAIN without
    BY <1>3
  <2> HIDE DEF without, to, v, key
  <2> QED BY <2>1, <2>2 DEF Edits!With
<1>5. v = Val(e, r, t[key])
  BY <1>1, <1>3
<1>6. {To(e, u) : u \in U \cup {r}} = moves \cup {to}
  OBVIOUS
<1>7. \A u \in U : To(e, u) \in moves
  OBVIOUS
<1> HIDE DEF tb2, without, v, gone, moves
<1>8. gone \cup {key} \subseteq DOMAIN t
  BY <1>1, <1>3
<1>9. DOMAIN tb2 = (DOMAIN t \ (gone \cup {key})) \cup (moves \cup {to})
  BY <1>1, <1>3, <1>4
<1>10. \A k \in DOMAIN t \ (gone \cup {key}) : tb2[k] = t[k]
  BY <1>1, <1>3, <1>4
<1>11. ASSUME NEW u \in U PROVE tb2[To(e, u)] = Val(e, u, t[Edits!KeyOf(e, u)])
  <2>1. To(e, u) \in DOMAIN tb \ {key}
    BY <1>1, <1>3, <1>7
  <2> QED BY <1>1, <1>4, <2>1
<1>12. tb2[to] = Val(e, r, t[key])
  BY <1>4, <1>5
<1>13. Progress(e, t, tb2, D, U \cup {r}, {})
  <2>1. \A u \in U \cup {r} : tb2[To(e, u)] = Val(e, u, t[Edits!KeyOf(e, u)])
    BY <1>11, <1>12
  <2> HIDE DEF key, to
  <2> QED BY <1>2, <1>6, <1>8, <1>9, <1>10, <2>1 DEF Progress
<1> QED BY <1>13 DEF tb2, v, without

\* A new row is there.
LEMMA InsertStep ==
  ASSUME NEW e, NEW t, NEW tb, NEW D, NEW U, NEW I, NEW i, Progress(e, t, tb, D, U, I),
         NewKey(e, i) \notin DOMAIN tb
  PROVE  Progress(e, t, Edits!With(tb, NewKey(e, i), NewValue(e, i)), D, U, I \cup {i})
<1> DEFINE key == NewKey(e, i)
           v == NewValue(e, i)
           tb2 == Edits!With(tb, key, v)
           gone == CameWith(e, D \cup U)
           moves == {To(e, u) : u \in U}
           news == {NewKey(e, j) : j \in I}
<1>1. /\ gone \subseteq DOMAIN t
      /\ DOMAIN tb = (DOMAIN t \ gone) \cup moves \cup news
      /\ \A k \in DOMAIN t \ gone : tb[k] = t[k]
      /\ \A u \in U : tb[To(e, u)] = Val(e, u, t[Edits!KeyOf(e, u)])
      /\ \A j \in I : tb[NewKey(e, j)] = NewValue(e, j)
  BY DEF Progress
<1>2. DOMAIN tb2 = DOMAIN tb \cup {key} /\ tb2[key] = v /\ \A k \in DOMAIN tb : tb2[k] = tb[k]
  <2> HIDE DEF key, v
  <2>1. key \notin DOMAIN tb
    BY DEF key
  <2> QED BY <2>1 DEF Edits!With
<1>3. /\ {NewKey(e, j) : j \in I \cup {i}} = news \cup {key}
      /\ \A u \in U : To(e, u) \in moves
      /\ \A j \in I : NewKey(e, j) \in news
  OBVIOUS
<1> HIDE DEF tb2, gone, moves, news, v
<1>4. /\ DOMAIN tb2 = (DOMAIN t \ gone) \cup moves \cup (news \cup {key})
      /\ \A k \in DOMAIN t \ gone : tb2[k] = t[k]
  BY <1>1, <1>2
<1>5. /\ \A u \in U : tb2[To(e, u)] = Val(e, u, t[Edits!KeyOf(e, u)])
      /\ \A j \in I : tb2[NewKey(e, j)] = NewValue(e, j)
  BY <1>1, <1>2, <1>3
<1>6. \A j \in I \cup {i} : tb2[NewKey(e, j)] = NewValue(e, j)
  BY <1>2, <1>5 DEF v
<1>7. Progress(e, t, tb2, D, U, I \cup {i})
  <2> HIDE DEF key
  <2> QED BY <1>1, <1>3, <1>4, <1>5, <1>6 DEF Progress, gone, moves
<1> QED BY <1>7 DEF tb2, v

\* Once all statements are done, the table is the one that was shown.
LEMMA AllDone ==
  ASSUME RowsInv, NEW e, Good(e), NEW t, NEW tb,
         Progress(e, t, tb, e.deleted, Edits!Changed(e), DOMAIN e.inserted)
  PROVE  /\ \A r \in e.deleted \cup Edits!Changed(e) : raw[r][Edits!Key(e)] \in DOMAIN t
         /\ {<<k, tb[k]>> : k \in DOMAIN tb} = Edits!Intended(e, t)
<1> DEFINE D == e.deleted
           U == Edits!Changed(e)
           I == DOMAIN e.inserted
           gone == CameWith(e, D \cup U)
           touched == {r \in Edits!Sources : \E c \in Edits!Cols : Edits!Shown(e, r, c) # raw[r][c]}
                        \cup e.deleted
           kept == {<<k, t[k]>> : k \in DOMAIN t \ gone}
           moves == {<<To(e, r), Val(e, r, t[Edits!KeyOf(e, r)])>> : r \in U}
           news == {<<NewKey(e, i), NewValue(e, i)>> : i \in I}
<1>1. touched = D \cup U /\ touched \ D = U
  <2>1. touched = U \cup D
    BY ShownIs
  <2>2. U \cap D = {}
    BY DEF Edits!Changed
  <2> QED BY <2>1, <2>2
<1>2. Edits!Intended(e, t) = kept \cup moves \cup news
  <2>1. \A r : raw[r][Edits!Key(e)] = Edits!KeyOf(e, r)
    BY DEF Edits!KeyOf
  <2>2. Edits!Intended(e, t) =
          {<<k, t[k]>> : k \in DOMAIN t \ {raw[r][Edits!Key(e)] : r \in touched}}
            \cup {<<To(e, r), Val(e, r, t[raw[r][Edits!Key(e)]])>> : r \in touched \ D}
            \cup news
    BY DEF Edits!Intended, To, Val, ValueCells, NewKey, NewValue
  <2>3. {raw[r][Edits!Key(e)] : r \in touched} = gone
    BY <1>1, <2>1 DEF CameWith
  <2> HIDE DEF touched, D, U, gone, news
  <2> QED BY <1>1, <2>1, <2>2, <2>3
<1>3. /\ gone \subseteq DOMAIN t
      /\ DOMAIN tb = (DOMAIN t \ gone) \cup {To(e, r) : r \in U} \cup {NewKey(e, i) : i \in I}
      /\ \A k \in DOMAIN t \ gone : tb[k] = t[k]
      /\ \A r \in U : tb[To(e, r)] = Val(e, r, t[Edits!KeyOf(e, r)])
      /\ \A i \in I : tb[NewKey(e, i)] = NewValue(e, i)
  BY DEF Progress
<1>4. \A r \in D \cup U : raw[r][Edits!Key(e)] \in gone
  BY DEF CameWith, Edits!KeyOf
<1> HIDE DEF gone, D, U, I
<1>5. ASSUME NEW k \in DOMAIN tb PROVE <<k, tb[k]>> \in kept \cup moves \cup news
  <2>1. CASE k \in DOMAIN t \ gone
    <3>1. <<k, t[k]>> \in kept /\ tb[k] = t[k]
      BY <1>3, <2>1
    <3> QED BY <3>1
  <2>2. CASE k \in {To(e, r) : r \in U}
    <3> PICK r \in U : k = To(e, r)
      BY <2>2
    <3>1. <<k, Val(e, r, t[Edits!KeyOf(e, r)])>> \in moves
      OBVIOUS
    <3> QED BY <1>3, <3>1
  <2>3. CASE k \in {NewKey(e, i) : i \in I}
    <3> PICK i \in I : k = NewKey(e, i)
      BY <2>3
    <3>1. <<k, NewValue(e, i)>> \in news
      OBVIOUS
    <3> QED BY <1>3, <3>1
  <2> QED BY <1>3, <2>1, <2>2, <2>3
<1>6. \A x \in kept \cup moves \cup news : \E k \in DOMAIN tb : x = <<k, tb[k]>>
  BY <1>3
<1>7. {<<k, tb[k]>> : k \in DOMAIN tb} = kept \cup moves \cup news
  <2> HIDE DEF kept, moves, news
  <2> QED BY <1>5, <1>6
<1> QED BY <1>2, <1>3, <1>4, <1>7 DEF D, U

\* The rows and new rows that the first k statements are about.
FirstDeleted(e, k) == {Deletes(e)[i] : i \in {j \in 1 .. Cardinality(e.deleted) : j <= k}}
FirstUpdated(e, k) ==
  {Updates(e)[i] : i \in {j \in 1 .. Cardinality(Edits!Changed(e)) :
                            Cardinality(e.deleted) + j <= k}}
FirstNew(e, k) ==
  {i \in 1 .. Len(e.inserted) : Cardinality(e.deleted) + Cardinality(Edits!Changed(e)) + i <= k}

\* The table tb is the table t after the first k statements.
Upto(e, t, tb, k) ==
  Progress(e, t, tb, FirstDeleted(e, k), FirstUpdated(e, k), FirstNew(e, k))

\* A table after one more statement.
LEMMA OneMore ==
  ASSUME RowsInv, NEW e, Good(e), ~Edits!Overtaken(e), NEW t, NEW tb, NEW tb2,
         NEW k \in 1 .. Len(Edits!Statements(e)),
         Upto(e, t, tb, k - 1), Does(Edits!Statements(e)[k], tb, tb2)
  PROVE  Upto(e, t, tb2, k)
<1> DEFINE nd == Cardinality(e.deleted)
           nu == Cardinality(Edits!Changed(e))
           ni == Len(e.inserted)
           st == Edits!Statements(e)[k]
           d == Deletes(e)
           u == Updates(e)
<1>1. /\ nd \in Nat /\ nu \in Nat /\ ni \in Nat
      /\ Len(Edits!Statements(e)) = nd + nu + ni
      /\ \A i \in 1 .. nd : Edits!Statements(e)[i] = DeleteOf(e, d[i])
      /\ \A i \in 1 .. nu : Edits!Statements(e)[nd + i] = UpdateOf(e, u[i])
      /\ \A i \in 1 .. ni : Edits!Statements(e)[nd + nu + i] = InsertOf(e, i)
  <2>1. nd = Cardinality(e.deleted) /\ nu = Cardinality(Edits!Changed(e)) /\ ni = Len(e.inserted)
    OBVIOUS
  <2> HIDE DEF nd, nu, ni, st
  <2> QED BY <2>1, StatementsAre
<1>7. Does(st, tb, tb2)
  OBVIOUS
<1>2. /\ u \in [1 .. nu -> Edits!Changed(e)]
      /\ \A i, j \in 1 .. nu : u[i] < u[j] <=> i < j
      /\ Edits!Changed(e) \subseteq Edits!Sources
  BY StatementsAre, ShownIs
<1>3. /\ FirstDeleted(e, k) = {d[i] : i \in {j \in 1 .. nd : j <= k}}
      /\ FirstDeleted(e, k - 1) = {d[i] : i \in {j \in 1 .. nd : j <= k - 1}}
      /\ FirstUpdated(e, k) = {u[i] : i \in {j \in 1 .. nu : nd + j <= k}}
      /\ FirstUpdated(e, k - 1) = {u[i] : i \in {j \in 1 .. nu : nd + j <= k - 1}}
      /\ FirstNew(e, k) = {i \in 1 .. ni : nd + nu + i <= k}
      /\ FirstNew(e, k - 1) = {i \in 1 .. ni : nd + nu + i <= k - 1}
  BY DEF FirstDeleted, FirstUpdated, FirstNew
<1> HIDE DEF nd, nu, ni, d, u
<1>4. CASE k <= nd
  <2>1. k \in 1 .. nd
    BY <1>1, <1>4
  <2>2. st = DeleteOf(e, d[k])
    BY <1>1, <2>1
  <2>3. st.op = "delete" /\ st.key = Edits!KeyOf(e, d[k])
    BY <2>2 DEF DeleteOf
  <2> HIDE DEF st
  <2>4. /\ Edits!KeyOf(e, d[k]) \in DOMAIN tb
        /\ tb2 = [x \in DOMAIN tb \ {Edits!KeyOf(e, d[k])} |-> tb[x]]
    BY <1>7, <2>3 DEF Does
  <2>5. /\ FirstDeleted(e, k) = FirstDeleted(e, k - 1) \cup {d[k]}
        /\ FirstUpdated(e, k) = {} /\ FirstUpdated(e, k - 1) = {}
        /\ FirstNew(e, k) = {} /\ FirstNew(e, k - 1) = {}
    BY <1>1, <1>3, <1>4, <2>1
  <2>6. Progress(e, t, tb, FirstDeleted(e, k - 1), {}, {})
    BY <2>5 DEF Upto
  <2>7. Progress(e, t, tb2, FirstDeleted(e, k - 1) \cup {d[k]}, {}, {})
    BY <2>4, <2>6, DeleteStep
  <2> QED BY <2>5, <2>7 DEF Upto
<1>5. CASE nd < k /\ k <= nd + nu
  <2> DEFINE j == k - nd
             r == u[j]
  <2>1. j \in 1 .. nu /\ nd + j = k
    BY <1>1, <1>5
  <2> HIDE DEF j
  <2>2. st = UpdateOf(e, r)
    BY <1>1, <2>1
  <2>3. st.op = "update" /\ st.key = Edits!KeyOf(e, r) /\ st.set = Edits!Sets(e, r)
    BY <2>2 DEF UpdateOf
  <2>4. r \in Edits!Changed(e) /\ r \in Edits!Sources
    BY <1>2, <2>1
  <2> HIDE DEF st
  <2>6. /\ To(e, r) = IF "k" \in DOMAIN st.set THEN st.set["k"] ELSE st.key
        /\ Val(e, r, tb[st.key]) = IF "v" \in DOMAIN st.set THEN st.set["v"] ELSE tb[st.key]
    BY <2>3, <2>4, SetsAre
  <2>5. /\ st.key \in DOMAIN tb
        /\ To(e, r) \notin DOMAIN tb \ {st.key}
        /\ tb2 = Edits!With([x \in DOMAIN tb \ {st.key} |-> tb[x]], To(e, r),
                            Val(e, r, tb[st.key]))
    <3> HIDE DEF r
    <3> QED BY <1>7, <2>3, <2>6 DEF Does
  <2>7. /\ Edits!KeyOf(e, r) \in DOMAIN tb
        /\ To(e, r) \notin DOMAIN tb \ {Edits!KeyOf(e, r)}
        /\ tb2 = Edits!With([x \in DOMAIN tb \ {Edits!KeyOf(e, r)} |-> tb[x]], To(e, r),
                            Val(e, r, tb[Edits!KeyOf(e, r)]))
    <3> HIDE DEF r
    <3> QED BY <2>3, <2>5, <2>6
  <2>8. /\ FirstUpdated(e, k) = FirstUpdated(e, k - 1) \cup {r}
        /\ FirstDeleted(e, k) = FirstDeleted(e, k - 1)
        /\ FirstNew(e, k) = {} /\ FirstNew(e, k - 1) = {}
    <3>1. \A i \in 1 .. nd : i <= k /\ i <= k - 1
      BY <1>1, <1>5
    <3>2. \A i \in 1 .. ni : ~(nd + nu + i <= k) /\ ~(nd + nu + i <= k - 1)
      BY <1>1, <1>5
    <3>3. \A i \in 1 .. nu : nd + i <= k <=> i = j \/ nd + i <= k - 1
      BY <1>1, <1>5, <2>1
    <3> QED BY <1>3, <2>1, <3>1, <3>2, <3>3
  <2>9. \A x \in FirstUpdated(e, k - 1) : To(e, x) # Edits!KeyOf(e, r)
    <3> SUFFICES ASSUME NEW i \in 1 .. nu, nd + i <= k - 1 PROVE To(e, u[i]) # Edits!KeyOf(e, r)
      BY <1>3
    <3>1. i < j
      BY <1>1, <2>1
    <3>2. u[i] < r /\ u[i] \in Edits!Changed(e)
      BY <1>2, <2>1, <3>1
    <3> QED BY <2>4, <3>2 DEF Edits!Overtaken, To, Edits!KeyOf
  <2>10. Progress(e, t, tb, FirstDeleted(e, k - 1), FirstUpdated(e, k - 1), {})
    BY <2>8 DEF Upto
  <2> HIDE DEF r
  <2>11. Progress(e, t, tb2, FirstDeleted(e, k - 1), FirstUpdated(e, k - 1) \cup {r}, {})
    BY <2>7, <2>9, <2>10, UpdateStep
  <2> QED BY <2>8, <2>11 DEF Upto
<1>6. CASE nd + nu < k
  <2> DEFINE j == k - (nd + nu)
  <2>1. j \in 1 .. ni /\ nd + nu + j = k
    BY <1>1, <1>6
  <2> HIDE DEF j
  <2>2. st = InsertOf(e, j)
    BY <1>1, <2>1
  <2>3. st.op = "insert" /\ st.row["k"] = NewKey(e, j) /\ st.row["v"] = NewValue(e, j)
    BY <2>2 DEF InsertOf, NewKey, NewValue
  <2> HIDE DEF st
  <2>4. NewKey(e, j) \notin DOMAIN tb /\ tb2 = Edits!With(tb, NewKey(e, j), NewValue(e, j))
    BY <1>7, <2>3 DEF Does
  <2>5. /\ FirstUpdated(e, k) = FirstUpdated(e, k - 1)
        /\ FirstDeleted(e, k) = FirstDeleted(e, k - 1)
        /\ FirstNew(e, k) = FirstNew(e, k - 1) \cup {j}
    <3>1. \A i \in 1 .. nd : i <= k /\ i <= k - 1
      BY <1>1, <1>6
    <3>2. \A i \in 1 .. nu : nd + i <= k /\ nd + i <= k - 1
      BY <1>1, <1>6
    <3>3. \A i \in 1 .. ni : nd + nu + i <= k <=> i = j \/ nd + nu + i <= k - 1
      BY <1>1, <1>6, <2>1
    <3> QED BY <1>3, <2>1, <3>1, <3>2, <3>3
  <2>7. Progress(e, t, tb, FirstDeleted(e, k - 1), FirstUpdated(e, k - 1), FirstNew(e, k - 1))
    BY DEF Upto
  <2>6. Progress(e, t, tb2, FirstDeleted(e, k - 1), FirstUpdated(e, k - 1),
                 FirstNew(e, k - 1) \cup {j})
    BY <2>4, <2>7, InsertStep
  <2> QED BY <2>5, <2>6 DEF Upto
<1> QED BY <1>1, <1>4, <1>5, <1>6

\* A transaction that commits has done all of its statements.
LEMMA Applies ==
  ASSUME RowsInv, NEW e, Good(e), stmts = Edits!Statements(e), Edits!Transaction.ok,
         ~Edits!Overtaken(e)
  PROVE  Progress(e, tables[chosen], Edits!Transaction.table,
                  e.deleted, Edits!Changed(e), DOMAIN e.inserted)
<1> DEFINE t == tables[chosen]
           n == Len(stmts)
<1>1. n \in Nat
  BY StatementsAre
<1> PICK f : /\ f[0] = [ok |-> TRUE, table |-> t]
             /\ Edits!Transaction = f[n]
             /\ \A k \in 1 .. n : f[k] = Edits!Ran(f[k - 1], stmts[k])
  BY <1>1, Unrolled
<1> DEFINE P(k) == Upto(e, t, f[k].table, k)
           Q == {k \in Nat : k <= n => f[k].ok \in BOOLEAN /\ (f[k].ok => P(k))}
<1> HIDE DEF t
<1>2. 0 \in Q
  <2>1. FirstDeleted(e, 0) = {} /\ FirstUpdated(e, 0) = {} /\ FirstNew(e, 0) = {}
    <3>1. /\ Cardinality(e.deleted) \in Nat /\ Cardinality(Edits!Changed(e)) \in Nat
          /\ Len(e.inserted) \in Nat
      BY StatementsAre
    <3> QED BY <3>1 DEF FirstDeleted, FirstUpdated, FirstNew
  <2>2. Progress(e, t, t, {}, {}, {})
    BY DEF Progress, CameWith
  <2>3. f[0].ok = TRUE /\ f[0].table = t
    OBVIOUS
  <2>4. P(0)
    BY <2>1, <2>2, <2>3 DEF Upto
  <2> HIDE DEF P
  <2> QED BY <2>3, <2>4
<1>3. ASSUME NEW k \in Nat, k \in Q PROVE k + 1 \in Q
  <2> SUFFICES ASSUME k + 1 <= n PROVE f[k + 1].ok \in BOOLEAN /\ (f[k + 1].ok => P(k + 1))
    OBVIOUS
  <2>1. k + 1 \in 1 .. n /\ (k + 1) - 1 = k
    BY <1>1
  <2>2. f[k + 1] = Edits!Ran(f[k], stmts[k + 1])
    BY <2>1
  <2>3. f[k].ok \in BOOLEAN /\ (f[k].ok => P(k))
    BY <1>1, <1>3
  <2>4. f[k + 1].ok \in BOOLEAN
    BY <2>2 DEF Edits!Ran
  <2>5. ASSUME f[k + 1].ok PROVE P(k + 1)
    <3>1. f[k].ok
      BY <2>2, <2>3, <2>5, RanOk
    <3>2. P(k)
      BY <2>3, <3>1
    <3>3. Does(Edits!Statements(e)[k + 1], f[k].table, f[k + 1].table)
      BY <2>2, <2>3, <2>5, RanOk
    <3>4. k + 1 \in 1 .. Len(Edits!Statements(e)) /\ Upto(e, t, f[k].table, (k + 1) - 1)
      BY <2>1, <3>2
    <3> QED BY <3>3, <3>4, OneMore
  <2> QED BY <2>4, <2>5
<1>4. n \in Q
  <2> HIDE DEF Q
  <2> QED BY <1>1, <1>2, <1>3, SetInduction
<1>5. P(n)
  BY <1>1, <1>4
<1>6. /\ FirstDeleted(e, n) = e.deleted /\ FirstUpdated(e, n) = Edits!Changed(e)
      /\ FirstNew(e, n) = DOMAIN e.inserted
  <2> DEFINE nd == Cardinality(e.deleted)
             nu == Cardinality(Edits!Changed(e))
             ni == Len(e.inserted)
  <2>1. /\ nd \in Nat /\ nu \in Nat /\ ni \in Nat
        /\ n = nd + nu + ni
        /\ Deletes(e) \in [1 .. nd -> e.deleted]
        /\ \A r \in e.deleted : \E i \in 1 .. nd : Deletes(e)[i] = r
        /\ Updates(e) \in [1 .. nu -> Edits!Changed(e)]
        /\ \A r \in Edits!Changed(e) : \E i \in 1 .. nu : Updates(e)[i] = r
    <3>1. /\ nd = Cardinality(e.deleted) /\ nu = Cardinality(Edits!Changed(e))
          /\ ni = Len(e.inserted) /\ n = Len(Edits!Statements(e))
      OBVIOUS
    <3> HIDE DEF nd, nu, ni, n
    <3> QED BY <3>1, StatementsAre
  <2>2. DOMAIN e.inserted = 1 .. ni
    BY DEF Good
  <2>3. /\ FirstDeleted(e, n) = {Deletes(e)[i] : i \in {j \in 1 .. nd : j <= n}}
        /\ FirstUpdated(e, n) = {Updates(e)[i] : i \in {j \in 1 .. nu : nd + j <= n}}
        /\ FirstNew(e, n) = {i \in 1 .. ni : nd + nu + i <= n}
    BY DEF FirstDeleted, FirstUpdated, FirstNew
  <2> HIDE DEF nd, nu, ni, n
  <2>4. /\ {j \in 1 .. nd : j <= n} = 1 .. nd
        /\ {j \in 1 .. nu : nd + j <= n} = 1 .. nu
        /\ {i \in 1 .. ni : nd + nu + i <= n} = 1 .. ni
    BY <2>1
  <2>5. FirstDeleted(e, n) = e.deleted
    <3>1. FirstDeleted(e, n) = {Deletes(e)[i] : i \in 1 .. nd}
      BY <2>3, <2>4
    <3>2. \A i \in 1 .. nd : Deletes(e)[i] \in e.deleted
      BY <2>1
    <3>3. \A r \in e.deleted : \E i \in 1 .. nd : Deletes(e)[i] = r
      BY <2>1
    <3> HIDE DEF n, nu, nd, ni
    <3> QED BY <3>1, <3>2, <3>3
  <2>6. FirstUpdated(e, n) = Edits!Changed(e)
    <3>1. FirstUpdated(e, n) = {Updates(e)[i] : i \in 1 .. nu}
      BY <2>3, <2>4
    <3>2. \A i \in 1 .. nu : Updates(e)[i] \in Edits!Changed(e)
      BY <2>1
    <3>3. \A r \in Edits!Changed(e) : \E i \in 1 .. nu : Updates(e)[i] = r
      BY <2>1
    <3> HIDE DEF n, nu, nd, ni
    <3> QED BY <3>1, <3>2, <3>3
  <2> QED BY <2>2, <2>3, <2>4, <2>5, <2>6
<1>7. Edits!Transaction.ok /\ Edits!Transaction = f[n]
  OBVIOUS
<1>8. Progress(e, t, f[n].table, e.deleted, Edits!Changed(e), DOMAIN e.inserted)
  BY <1>5, <1>6 DEF Upto
<1> QED BY <1>7, <1>8 DEF t

\* Tables stay tables of numbers.
LEMMA TableKept ==
  ASSUME NEW t, IsTable(t), NEW k
  PROVE  /\ IsTable([x \in DOMAIN t \ {k} |-> t[x]])
         /\ \A v \in Int : k \in Int => IsTable(Edits!With(t, k, v))
<1>1. IsTable([x \in DOMAIN t \ {k} |-> t[x]])
  <2>1. IsFiniteSet(DOMAIN t \ {k})
    BY FS_RemoveElement DEF IsTable
  <2> QED BY <2>1 DEF IsTable
<1>2. ASSUME NEW v \in Int, k \in Int PROVE IsTable(Edits!With(t, k, v))
  <2>1. IsFiniteSet(DOMAIN t \cup {k})
    BY FS_AddElement DEF IsTable
  <2>2. DOMAIN Edits!With(t, k, v) = DOMAIN t \cup {k}
    BY DEF Edits!With
  <2>3. \A x \in DOMAIN t \cup {k} :
          x \in Int /\ Edits!With(t, k, v)[x] = (IF x = k THEN v ELSE t[x])
    BY <1>2 DEF Edits!With, IsTable
  <2>4. Edits!With(t, k, v) = [x \in DOMAIN Edits!With(t, k, v) |-> Edits!With(t, k, v)[x]]
    BY DEF Edits!With
  <2>5. \A x \in DOMAIN t \cup {k} : Edits!With(t, k, v)[x] \in Int
    BY <2>3 DEF IsTable
  <2> QED BY <2>1, <2>2, <2>3, <2>4, <2>5 DEF IsTable
<1> QED BY <1>1, <1>2

\* What the grid shows are numbers.
LEMMA CellsAreNumbers ==
  ASSUME RowsInv, NEW e, Good(e)
  PROVE  /\ \A r \in Edits!Sources : \A c \in Edits!Cols : Edits!Shown(e, r, c) \in Int
         /\ \A r \in Edits!Sources : To(e, r) \in Int
         /\ \A r \in Edits!Sources : \A x \in Int : Val(e, r, x) \in Int
         /\ \A i \in DOMAIN e.inserted : NewKey(e, i) \in Int /\ NewValue(e, i) \in Int
<1>1. \A r \in Edits!Sources : \A c \in Edits!Cols : Edits!Shown(e, r, c) \in Int
  BY ColsAre DEF Good, Edits!Shown
<1>2. \A r \in Edits!Sources : To(e, r) \in Int
  BY <1>1, TargetIs DEF To
<1>3. ASSUME NEW r \in Edits!Sources, NEW x \in Int PROVE Val(e, r, x) \in Int
  <2>1. CASE ValueCells(e, r) = {}
    BY <2>1 DEF Val
  <2>2. CASE ValueCells(e, r) # {}
    <3> DEFINE c == CHOOSE d \in ValueCells(e, r) : TRUE
    <3>1. c \in ValueCells(e, r)
      BY <2>2
    <3> HIDE DEF c
    <3>2. c \in Edits!Cols
      BY <3>1 DEF ValueCells
    <3>3. Val(e, r, x) = Edits!Shown(e, r, c)
      BY <2>2 DEF Val, c
    <3> QED BY <1>1, <3>2, <3>3
  <2> QED BY <2>1, <2>2
<1>4. ASSUME NEW i \in DOMAIN e.inserted PROVE NewKey(e, i) \in Int /\ NewValue(e, i) \in Int
  <2> DEFINE new == e.inserted[i]
  <2>1. new \in NewRows
    BY DEF Good
  <2>2. \A c \in DOMAIN new : new[c] \in Int
    BY <2>1 DEF NewRows
  <2>3. ASSUME NEW f \in {"k", "v"} PROVE Edits!RowOf(e, new)[f] \in Int
    <3> DEFINE cs == {c \in DOMAIN new : e.target[c] = f}
    <3>1. Edits!RowOf(e, new)[f] =
            IF cs = {} THEN Edits!Null ELSE new[CHOOSE c \in cs : TRUE]
      BY DEF Edits!RowOf
    <3> DEFINE c == CHOOSE c \in cs : TRUE
    <3>2. cs # {} => c \in cs
      OBVIOUS
    <3>3. cs # {} => c \in DOMAIN new
      BY <3>2
    <3> HIDE DEF c, cs
    <3>4. cs # {} => new[c] \in Int
      BY <2>2, <3>3
    <3> QED BY <3>1, <3>4 DEF Edits!Null, c
  <2> QED BY <2>3 DEF NewKey, NewValue
<1> QED BY <1>1, <1>2, <1>3, <1>4

\* One statement leaves a table of numbers.
LEMMA OneTable ==
  ASSUME RowsInv, NEW e, Good(e), NEW t, IsTable(t), NEW t2,
         NEW k \in 1 .. Len(Edits!Statements(e)), Does(Edits!Statements(e)[k], t, t2)
  PROVE  IsTable(t2)
<1> DEFINE nd == Cardinality(e.deleted)
           nu == Cardinality(Edits!Changed(e))
           ni == Len(e.inserted)
           st == Edits!Statements(e)[k]
           d == Deletes(e)
           u == Updates(e)
<1>1. /\ nd \in Nat /\ nu \in Nat /\ ni \in Nat
      /\ Len(Edits!Statements(e)) = nd + nu + ni
      /\ \A i \in 1 .. nd : Edits!Statements(e)[i] = DeleteOf(e, d[i])
      /\ \A i \in 1 .. nu : Edits!Statements(e)[nd + i] = UpdateOf(e, u[i])
      /\ \A i \in 1 .. ni : Edits!Statements(e)[nd + nu + i] = InsertOf(e, i)
  <2>1. nd = Cardinality(e.deleted) /\ nu = Cardinality(Edits!Changed(e)) /\ ni = Len(e.inserted)
    OBVIOUS
  <2> HIDE DEF nd, nu, ni, st
  <2> QED BY <2>1, StatementsAre, SMTT(20)
<1>2. u \in [1 .. nu -> Edits!Changed(e)] /\ Edits!Changed(e) \subseteq Edits!Sources
  BY StatementsAre, ShownIs
<1>3. DOMAIN e.inserted = 1 .. ni
  BY DEF Good
<1>4. Does(st, t, t2)
  OBVIOUS
<1> HIDE DEF nd, nu, ni, d, u
<1>5. CASE k <= nd
  <2>1. k \in 1 .. nd
    BY <1>1, <1>5
  <2>2. st.op = "delete"
    <3>1. st = DeleteOf(e, d[k])
      BY <1>1, <2>1
    <3> QED BY <3>1 DEF DeleteOf
  <2> HIDE DEF st
  <2>3. t2 = [x \in DOMAIN t \ {st.key} |-> t[x]]
    BY <1>4, <2>2 DEF Does
  <2> QED BY <2>3, TableKept
<1>6. CASE nd < k /\ k <= nd + nu
  <2> DEFINE j == k - nd
             r == u[j]
  <2>1. j \in 1 .. nu /\ nd + j = k
    BY <1>1, <1>6
  <2> HIDE DEF j
  <2>2. st = UpdateOf(e, r)
    BY <1>1, <2>1
  <2>3. st.op = "update" /\ st.key = Edits!KeyOf(e, r) /\ st.set = Edits!Sets(e, r)
    BY <2>2 DEF UpdateOf
  <2>4. r \in Edits!Sources
    BY <1>2, <2>1
  <2> HIDE DEF st, r
  <2> DEFINE without == [x \in DOMAIN t \ {st.key} |-> t[x]]
             to == To(e, r)
             v == Val(e, r, t[st.key])
  <2>5. /\ to = (IF "k" \in DOMAIN st.set THEN st.set["k"] ELSE st.key)
        /\ v = (IF "v" \in DOMAIN st.set THEN st.set["v"] ELSE t[st.key])
    BY <2>3, <2>4, SetsAre
  <2> HIDE DEF to, v
  <2>6. st.key \in DOMAIN t /\ t2 = Edits!With(without, to, v)
    BY <1>4, <2>3, <2>5 DEF Does
  <2>7. to \in Int /\ v \in Int
    BY <2>4, <2>6, CellsAreNumbers DEF to, v, IsTable
  <2>8. IsTable(without)
    BY TableKept
  <2> HIDE DEF without
  <2> QED BY <2>6, <2>7, <2>8, TableKept
<1>7. CASE nd + nu < k
  <2> DEFINE j == k - (nd + nu)
  <2>1. j \in 1 .. ni /\ nd + nu + j = k
    BY <1>1, <1>7
  <2> HIDE DEF j
  <2>2. st = InsertOf(e, j)
    BY <1>1, <2>1
  <2>3. st.op = "insert" /\ st.row["k"] = NewKey(e, j) /\ st.row["v"] = NewValue(e, j)
    BY <2>2 DEF InsertOf, NewKey, NewValue
  <2> HIDE DEF st
  <2>4. t2 = Edits!With(t, NewKey(e, j), NewValue(e, j))
    BY <1>4, <2>3 DEF Does
  <2>5. NewKey(e, j) \in Int /\ NewValue(e, j) \in Int
    BY <1>3, <2>1, CellsAreNumbers
  <2> QED BY <2>4, <2>5, TableKept
<1> QED BY <1>1, <1>5, <1>6, <1>7

\* And so does a transaction.
LEMMA TransactionTable ==
  ASSUME RowsInv, NEW e, Good(e), stmts = Edits!Statements(e), Edits!Transaction.ok,
         IsTable(tables[chosen])
  PROVE  IsTable(Edits!Transaction.table)
<1> DEFINE t == tables[chosen]
           n == Len(stmts)
<1>1. n \in Nat
  BY StatementsAre
<1> PICK f : /\ f[0] = [ok |-> TRUE, table |-> t]
             /\ Edits!Transaction = f[n]
             /\ \A k \in 1 .. n : f[k] = Edits!Ran(f[k - 1], stmts[k])
  BY <1>1, Unrolled
<1> DEFINE Q == {k \in Nat : k <= n => f[k].ok \in BOOLEAN /\ (f[k].ok => IsTable(f[k].table))}
<1>2. 0 \in Q
  <2>1. f[0].ok = TRUE /\ f[0].table = t
    OBVIOUS
  <2> QED BY <2>1
<1>3. ASSUME NEW k \in Nat, k \in Q PROVE k + 1 \in Q
  <2> SUFFICES ASSUME k + 1 <= n
               PROVE  f[k + 1].ok \in BOOLEAN /\ (f[k + 1].ok => IsTable(f[k + 1].table))
    OBVIOUS
  <2>1. k + 1 \in 1 .. n /\ (k + 1) - 1 = k
    BY <1>1
  <2>2. f[k + 1] = Edits!Ran(f[k], stmts[k + 1])
    BY <2>1
  <2>3. f[k].ok \in BOOLEAN /\ (f[k].ok => IsTable(f[k].table))
    BY <1>1, <1>3
  <2>4. f[k + 1].ok \in BOOLEAN
    BY <2>2 DEF Edits!Ran
  <2>5. ASSUME f[k + 1].ok PROVE IsTable(f[k + 1].table)
    <3>1. f[k].ok /\ Does(stmts[k + 1], f[k].table, f[k + 1].table)
      BY <2>2, <2>3, <2>5, RanOk
    <3>2. IsTable(f[k].table) /\ k + 1 \in 1 .. Len(Edits!Statements(e))
      BY <2>1, <2>3, <3>1
    <3> QED BY <3>1, <3>2, OneTable
  <2> QED BY <2>4, <2>5
<1>4. n \in Q
  <2> HIDE DEF Q
  <2> QED BY <1>1, <1>2, <1>3, SetInduction
<1> QED BY <1>1, <1>4

-----------------------------------------------------------------------------
(* Edits: the inductive invariant, and what a transaction makes of a table *)

\* What a start of editing waits for: it was asked for the result of a run.
Load == [run : Nat, on : Connections, list : Seq(Names), columns : Seq(Names)]

LoadInv ==
  /\ loading \in Seq(Load)
  /\ \A i \in 1 .. Len(loading) :
       /\ loading[i].run <= result
       /\ loading[i].run = result => loading[i].columns = Named

\* A cell editor is open on a cell that can be changed.
EditorInv(e) ==
  \/ e.editing = Edits!NoCell
  \/ /\ e.editing \in (Nat \ {0}) \X Edits!Cols
     /\ e.target[e.editing[2]] # "none"

\* What is pending can be turned into statements, and those of the dialog are
\* still what they would be.
PendingInv == edit # Edits!NoEdit => Good(edit) /\ EditorInv(edit)
ReviewInv == dialog # "grid" => Good(reviewed) /\ stmts = Edits!Statements(reviewed)

EditsInv == TablesInv /\ RowsInv /\ LoadInv /\ PendingInv /\ ReviewInv

\* What is pending means the same while the result is the same.
LEMMA SameResult ==
  ASSUME UNCHANGED <<list, origin, raw>>
  PROVE  /\ Named' = Named /\ Edits!Cols' = Edits!Cols /\ Edits!Sources' = Edits!Sources
         /\ \A e : Good(e)' <=> Good(e)
         /\ \A e : EditorInv(e)' <=> EditorInv(e)
         /\ \A e : Edits!Statements(e)' = Edits!Statements(e)
<1>1. Named' = Named
  BY DEF Named, Edits!Expanded
<1>2. Edits!Cols' = Edits!Cols
  BY DEF Edits!Cols, Edits!Width, Edits!Expanded
<1>3. Edits!Sources' = Edits!Sources
  BY DEF Edits!Sources
<1>4. NewRows' = NewRows /\ Edits!Cells' = Edits!Cells
  BY <1>2, <1>3 DEF NewRows, Edits!Cells
<1>5. \A e : Good(e)' <=> Good(e)
  BY <1>1, <1>2, <1>3, <1>4 DEF Good, IsEdit, Edits!Target
<1>6. \A e : EditorInv(e)' <=> EditorInv(e)
  BY <1>2 DEF EditorInv, Edits!NoCell
<1>7. \A e : Edits!Statements(e)' = Edits!Statements(e)
  <2>1. \A e, r : Edits!KeyOf(e, r)' = Edits!KeyOf(e, r)
    BY DEF Edits!KeyOf, Edits!Key
  <2>2. \A e, r : Edits!Sets(e, r)' = Edits!Sets(e, r)
    BY DEF Edits!Sets
  <2>3. \A e, new : Edits!RowOf(e, new)' = Edits!RowOf(e, new)
    BY DEF Edits!RowOf, Edits!Null
  <2>4. \A e : Edits!Changed(e)' = Edits!Changed(e)
    BY DEF Edits!Changed
  <2>5. \A S : Edits!Ascending(S)' = Edits!Ascending(S)
    BY DEF Edits!Ascending, Edits!InOrder
  <2> QED BY <2>1, <2>2, <2>3, <2>4, <2>5 DEF Edits!Statements
<1> QED BY <1>1, <1>2, <1>3, <1>5, <1>6, <1>7

\* At first there is no result.
LEMMA InitEditsInv == Edits!Init => EditsInv
<1> SUFFICES ASSUME Edits!Init PROVE EditsInv
  OBVIOUS
<1>1. TablesInv
  <2>1. tables = [c \in Connections |-> tables[c]]
    BY EditsAssumption DEF Edits!Init
  <2>2. ASSUME NEW c \in Connections PROVE IsTable(tables[c])
    <3>1. tables[c] = Rows[c]
      BY DEF Edits!Init
    <3>2. /\ IsFiniteSet(DOMAIN Rows[c]) /\ Rows[c] \in [DOMAIN Rows[c] -> Values \cup {0}]
          /\ DOMAIN Rows[c] \subseteq Int /\ Values \cup {0} \subseteq Int
      BY EditsAssumption
    <3> QED BY <3>1, <3>2 DEF IsTable
  <2> QED BY <2>1, <2>2 DEF TablesInv
<1>2. RowsInv
  BY DEF Edits!Init, RowsInv
<1>3. LoadInv
  BY DEF Edits!Init, LoadInv
<1>4. PendingInv /\ ReviewInv
  BY DEF Edits!Init, PendingInv, ReviewInv
<1> QED BY <1>1, <1>2, <1>3, <1>4 DEF EditsInv

\* A run brings the rows of a table, with a number in each cell.
LEMMA RunIs ==
  ASSUME TablesInv, RowsInv, NEW l \in Seq(Names), Edits!RunSql(l), UNCHANGED chosen
  PROVE  RowsInv' /\ edit' = Edits!NoEdit /\ result' = result + 1
<1> DEFINE columns == Edits!Expanded(l, chosen)
           t == tables[chosen]
           cell(k, name) == CASE name = "k" -> k [] name = "v" -> t[k] [] OTHER -> Edits!Null
           keys == Edits!Ascending(DOMAIN t)
           n == Cardinality(DOMAIN t)
           rows == [r \in DOMAIN keys |-> [c \in DOMAIN columns |-> cell(keys[r], columns[c])]]
<1>1. /\ result' = result + 1 /\ origin' = chosen /\ list' = l /\ sort' = <<>>
      /\ edit' = Edits!NoEdit /\ raw' = rows
  BY DEF Edits!RunSql
<1>2. chosen \in Connections /\ result \in Nat
  BY DEF RowsInv
<1>3. columns \in Seq(Names)
  BY <1>2, ExpandedType
<1>4. Edits!Cols' = DOMAIN columns
  <2>1. Edits!Cols' = 1 .. Len(Edits!Expanded(list', origin'))
    BY DEF Edits!Cols, Edits!Width, Edits!Expanded
  <2>2. Edits!Expanded(list', origin') = columns
    BY <1>1
  <2> HIDE DEF columns
  <2> QED BY <1>3, <2>1, <2>2
<1>5. IsTable(t)
  BY <1>2 DEF TablesInv
<1>6. n \in Nat /\ keys \in [1 .. n -> DOMAIN t]
  <2>1. IsFiniteSet(DOMAIN t) /\ DOMAIN t \subseteq Int
    BY <1>5 DEF IsTable
  <2> QED BY <2>1, Ascends
<1>7. ASSUME NEW k \in DOMAIN t, NEW name PROVE cell(k, name) \in Int
  BY <1>5, <1>7 DEF IsTable, Edits!Null
<1>8. rows \in Seq([DOMAIN columns -> Int])
  <2> HIDE DEF cell, keys, columns, n
  <2>1. \A r \in 1 .. n : \A c \in DOMAIN columns : cell(keys[r], columns[c]) \in Int
    BY <1>6, <1>7
  <2>2. rows \in [1 .. n -> [DOMAIN columns -> Int]]
    BY <1>6, <2>1
  <2> HIDE DEF rows
  <2> QED BY <1>6, <2>2
<1> HIDE DEF columns, rows
<1>9. raw' \in Seq([Edits!Cols' -> Int])
  BY <1>1, <1>4, <1>8
<1>10. /\ chosen' \in Connections /\ origin' \in Connections /\ result' \in Nat
       /\ list' \in Seq(Names) /\ sort' = <<>>
  BY <1>1, <1>2
<1>11. RowsInv'
  BY <1>9, <1>10 DEF RowsInv
<1> QED BY <1>1, <1>11

\* Editing starts on a result that has the key once.
LEMMA StartsGood ==
  ASSUME RowsInv, LoadInv, NEW i \in DOMAIN loading, loading[i].run = result,
         Edits!Grants(loading[i]),
         NEW e, e = [target |-> Edits!Target(loading[i].columns), changes |-> <<>>,
                     deleted |-> {}, inserted |-> <<>>, editing |-> Edits!NoCell]
  PROVE  Good(e) /\ EditorInv(e)
<1>1. loading[i].columns = Named
  BY DEF LoadInv
<1>2. Edits!Cols = DOMAIN Named /\ Edits!Cols = 1 .. Len(Named) /\ Len(Named) \in Nat
  BY ColsAre
<1>3. \E c \in Edits!Cols : \A j \in Edits!Cols : Named[j] = "k" <=> j = c
  <2> DEFINE S == {j \in DOMAIN Named : Named[j] = "k"}
  <2>1. Cardinality(S) = 1
    BY <1>1, Counts DEF Edits!Grants, Edits!CanEdit
  <2>2. IsFiniteSet(S)
    <3>1. IsFiniteSet(1 .. Len(Named))
      BY <1>2, FS_Interval
    <3>2. S \in SUBSET (1 .. Len(Named))
      BY <1>2
    <3> HIDE DEF S
    <3> QED BY <3>1, <3>2, FS_Subset
  <2>3. \A j \in Edits!Cols : j \in S <=> Named[j] = "k"
    BY <1>2
  <2>4. S \subseteq Edits!Cols
    BY <1>2
  <2> HIDE DEF S
  <2> PICK c : S = {c}
    BY <2>1, <2>2, FS_Singleton
  <2> QED BY <2>3, <2>4
<1>4. e.target = Edits!Target(Named)
  BY <1>1
<1>5. /\ e.changes = <<>> /\ e.deleted = {} /\ e.inserted = <<>> /\ e.editing = Edits!NoCell
      /\ IsEdit(e)
  BY DEF IsEdit
<1>6. Good(e)
  BY <1>3, <1>4, <1>5 DEF Good
<1> QED BY <1>5, <1>6 DEF EditorInv

\* The open cell of what is pending is changed.
LEMMA EditingSet ==
  ASSUME NEW e, Good(e), NEW x, NEW d, d = [e EXCEPT !.editing = x]
  PROVE  Good(d) /\ d.editing = x /\ d.target = e.target /\ d.inserted = e.inserted
<1>1. d = [target |-> e.target, changes |-> e.changes, deleted |-> e.deleted,
           inserted |-> e.inserted, editing |-> x]
  BY DEF Good, IsEdit
<1>2. /\ d.target = e.target /\ d.changes = e.changes /\ d.deleted = e.deleted
      /\ d.inserted = e.inserted /\ d.editing = x /\ IsEdit(d)
  BY <1>1 DEF IsEdit
<1> QED BY <1>2 DEF Good

\* The same for the rows to delete ...
LEMMA DeletedSet ==
  ASSUME NEW e, Good(e), NEW x \in SUBSET Edits!Sources, NEW d, d = [e EXCEPT !.deleted = x]
  PROVE  Good(d) /\ d.editing = e.editing /\ d.target = e.target
<1>1. d = [target |-> e.target, changes |-> e.changes, deleted |-> x,
           inserted |-> e.inserted, editing |-> e.editing]
  BY DEF Good, IsEdit
<1>2. /\ d.target = e.target /\ d.changes = e.changes /\ d.deleted = x
      /\ d.inserted = e.inserted /\ d.editing = e.editing /\ IsEdit(d)
  BY <1>1 DEF IsEdit
<1> QED BY <1>2 DEF Good

\* ... and for the new rows.
LEMMA InsertedSet ==
  ASSUME NEW e, Good(e), NEW x \in Seq(NewRows), NEW d, d = [e EXCEPT !.inserted = x]
  PROVE  Good(d) /\ d.editing = e.editing /\ d.target = e.target
<1>1. d = [target |-> e.target, changes |-> e.changes, deleted |-> e.deleted,
           inserted |-> x, editing |-> e.editing]
  BY DEF Good, IsEdit
<1>2. /\ d.target = e.target /\ d.changes = e.changes /\ d.deleted = e.deleted
      /\ d.inserted = x /\ d.editing = e.editing /\ IsEdit(d)
  BY <1>1 DEF IsEdit
<1> QED BY <1>2 DEF Good

\* A row that came and a new row are where row_ref finds them.
LEMMA RowRef ==
  ASSUME RowsInv, NEW e, Good(e), NEW pos \in Nat \ {0}, pos <= Edits!Total(e)
  PROVE  /\ Edits!Existing(pos) => Edits!RowIndex(pos) \in Edits!Sources
         /\ ~Edits!Existing(pos) => Edits!New(pos) \in 1 .. Len(e.inserted)
         /\ Len(e.inserted) \in Nat
<1>1. Len(raw) \in Nat /\ Edits!Sources = 1 .. Len(raw)
  BY ColsAre
<1>2. Len(e.inserted) \in Nat
  BY DEF Good
<1>3. Edits!Existing(pos) => Edits!RowIndex(pos) \in Edits!Sources
  BY OrderIs DEF Edits!Existing, Edits!RowIndex
<1>4. ~Edits!Existing(pos) => Edits!New(pos) \in 1 .. Len(e.inserted)
  BY <1>1, <1>2 DEF Edits!Existing, Edits!New, Edits!Total
<1> QED BY <1>2, <1>3, <1>4

\* A new row with one cell changed, and the new rows with it.
LEMMA NewRowSet ==
  ASSUME NEW rows \in Seq(NewRows), NEW i \in 1 .. Len(rows), NEW c \in Edits!Cols
  PROVE  /\ \A v \in Int : [rows EXCEPT ![i] = Edits!With(rows[i], c, v)] \in Seq(NewRows)
         /\ [rows EXCEPT ![i] = [x \in DOMAIN rows[i] \ {c} |-> rows[i][x]]] \in Seq(NewRows)
<1>1. rows[i] \in NewRows
  OBVIOUS
<1> PICK S \in SUBSET Edits!Cols : rows[i] \in [S -> Int]
  BY <1>1 DEF NewRows
<1>2. ASSUME NEW v \in Int PROVE Edits!With(rows[i], c, v) \in NewRows
  <2>1. Edits!With(rows[i], c, v) \in [S \cup {c} -> Int]
    BY DEF Edits!With
  <2> QED BY <2>1 DEF NewRows
<1>3. [x \in DOMAIN rows[i] \ {c} |-> rows[i][x]] \in NewRows
  <2>1. [x \in DOMAIN rows[i] \ {c} |-> rows[i][x]] \in [S \ {c} -> Int]
    OBVIOUS
  <2> QED BY <2>1 DEF NewRows
<1>4. \A row \in NewRows : [rows EXCEPT ![i] = row] \in Seq(NewRows)
  OBVIOUS
<1> QED BY <1>2, <1>3, <1>4

\* A cell that is put leaves what is pending as it should be.
LEMMA PutGood ==
  ASSUME RowsInv, NEW e, Good(e), NEW pos \in Nat \ {0}, pos <= Edits!Total(e),
         NEW c \in Edits!Cols, e.target[c] # "none", NEW v \in Int
  PROVE  /\ Good(Edits!Put(e, pos, c, v))
         /\ Edits!Put(e, pos, c, v).editing = e.editing
         /\ Edits!Put(e, pos, c, v).target = e.target
<1>0. IsEdit(e)
  BY DEF Good
<1>1. CASE Edits!Existing(pos)
  <2> DEFINE cl == <<Edits!RowIndex(pos), c>>
             ch2 == IF raw[cl[1]][c] = v
                    THEN [x \in DOMAIN e.changes \ {cl} |-> e.changes[x]]
                    ELSE Edits!With(e.changes, cl, v)
             d == [e EXCEPT !.changes = ch2]
  <2>1. Edits!Put(e, pos, c, v) = d
    BY <1>1, Zenon DEF Edits!Put, Edits!Set
  <2>2. Edits!RowIndex(pos) \in Edits!Sources
    BY <1>1, RowRef
  <2>3. cl \in Edits!Cells /\ cl[1] = Edits!RowIndex(pos) /\ cl[2] = c
    BY <2>2 DEF Edits!Cells
  <2> HIDE DEF cl
  <2>4. ASSUME NEW x \in DOMAIN ch2
        PROVE  /\ x \in Edits!Cells /\ e.target[x[2]] # "none"
               /\ ch2[x] \in Int /\ ch2[x] # raw[x[1]][x[2]]
    <3>1. CASE raw[cl[1]][c] = v
      <4>1. x \in DOMAIN e.changes /\ ch2[x] = e.changes[x]
        BY <2>4, <3>1
      <4> QED BY <4>1 DEF Good
    <3>2. CASE raw[cl[1]][c] # v
      <4>1. x \in DOMAIN e.changes \cup {cl} /\ ch2[x] = (IF x = cl THEN v ELSE e.changes[x])
        BY <2>4, <3>2 DEF Edits!With
      <4>2. CASE x = cl
        BY <2>3, <3>2, <4>1, <4>2
      <4>3. CASE x # cl
        BY <4>1, <4>3 DEF Good
      <4> QED BY <4>2, <4>3
    <3> QED BY <3>1, <3>2
  <2> HIDE DEF ch2
  <2>5. d = [target |-> e.target, changes |-> ch2, deleted |-> e.deleted,
             inserted |-> e.inserted, editing |-> e.editing]
    BY <1>0 DEF IsEdit
  <2> HIDE DEF d
  <2>6. /\ d.target = e.target /\ d.changes = ch2 /\ d.deleted = e.deleted
        /\ d.inserted = e.inserted /\ d.editing = e.editing /\ IsEdit(d)
    BY <2>5 DEF IsEdit
  <2>7. Good(d)
    BY <2>4, <2>6 DEF Good
  <2> QED BY <2>1, <2>6, <2>7
<1>2. CASE ~Edits!Existing(pos)
  <2> DEFINE i == Edits!New(pos)
             rows == [e.inserted EXCEPT ![i] = Edits!With(e.inserted[i], c, v)]
  <2>1. Edits!Put(e, pos, c, v) = [e EXCEPT !.inserted = rows]
    BY <1>2 DEF Edits!Put
  <2>2. i \in 1 .. Len(e.inserted) /\ e.inserted \in Seq(NewRows)
    BY <1>2, RowRef DEF Good
  <2> HIDE DEF i
  <2>3. rows \in Seq(NewRows)
    BY <2>2, NewRowSet
  <2> HIDE DEF rows
  <2> QED BY <2>1, <2>3, InsertedSet
<1> QED BY <1>1, <1>2

\* What waits for its columns, one taken from it, and one more.
LEMMA LoadsKept ==
  ASSUME RowsInv, LoadInv
  PROVE  /\ UNCHANGED <<loading, list, origin, result>> => LoadInv'
         /\ \A i \in DOMAIN loading :
              loading' = Edits!RemoveAt(loading, i) /\ UNCHANGED <<list, origin, result>> => LoadInv'
         /\ UNCHANGED loading /\ result' = result + 1 => LoadInv'
         /\ loading' = Append(loading, [run |-> result, on |-> chosen, list |-> list,
                                        columns |-> Named]) /\ UNCHANGED <<list, origin, result>>
              => LoadInv'
<1>0. UNCHANGED <<list, origin>> => Named' = Named
  BY DEF Named, Edits!Expanded
<1>1. /\ loading \in Seq(Load) /\ Len(loading) \in Nat /\ result \in Nat
      /\ \A j \in 1 .. Len(loading) :
           /\ loading[j].run \in Nat /\ loading[j].run <= result
           /\ loading[j].run = result => loading[j].columns = Named
  <2>1. /\ loading \in Seq(Load) /\ result \in Nat
        /\ \A j \in 1 .. Len(loading) :
             /\ loading[j].run <= result
             /\ loading[j].run = result => loading[j].columns = Named
    BY DEF LoadInv, RowsInv
  <2>2. \A j \in 1 .. Len(loading) : loading[j] \in Load
    BY <2>1
  <2>3. \A l \in Load : l.run \in Nat
    BY DEF Load
  <2> QED BY <2>1, <2>2, <2>3
<1>2. ASSUME UNCHANGED <<loading, list, origin, result>> PROVE LoadInv'
  BY <1>0, <1>1, <1>2 DEF LoadInv
<1>3. ASSUME NEW i \in DOMAIN loading, loading' = Edits!RemoveAt(loading, i),
             UNCHANGED <<list, origin, result>>
      PROVE  LoadInv'
  <2>1. loading' = SubSeq(loading, 1, i - 1) \o SubSeq(loading, i + 1, Len(loading))
    BY <1>3 DEF Edits!RemoveAt
  <2>2. loading' \in Seq(Load)
    BY <1>1, <2>1
  <2>3. \A j \in 1 .. Len(loading') : \E m \in 1 .. Len(loading) : loading'[j] = loading[m]
    <3> DEFINE n == Len(loading)
               before == SubSeq(loading, 1, i - 1)
               after == SubSeq(loading, i + 1, n)
    <3>1. n \in Nat /\ i \in 1 .. n /\ loading \in Seq(Load)
      BY <1>1
    <3>2. /\ before \in Seq(Load) /\ Len(before) = i - 1
          /\ \A j \in 1 .. i - 1 : before[j] = loading[j]
      BY <3>1
    <3>3. /\ after \in Seq(Load) /\ Len(after) = n - i
          /\ \A j \in 1 .. n - i : after[j] = loading[i + j]
      BY <3>1
    <3>4. loading' = before \o after
      BY <2>1
    <3> HIDE DEF n, before, after
    <3>5. /\ Len(loading') = n - 1
          /\ \A j \in 1 .. n - 1 :
               loading'[j] = IF j <= i - 1 THEN before[j] ELSE after[j - (i - 1)]
      <4>1. /\ Len(before \o after) = Len(before) + Len(after)
            /\ \A j \in 1 .. Len(before) + Len(after) :
                 (before \o after)[j] =
                   IF j <= Len(before) THEN before[j] ELSE after[j - Len(before)]
        BY <3>2, <3>3, ConcatProperties
      <4>2. Len(before) + Len(after) = n - 1
        BY <3>1, <3>2, <3>3
      <4> QED BY <3>2, <3>4, <4>1, <4>2
    <3>6. ASSUME NEW j \in 1 .. n - 1 PROVE \E m \in 1 .. n : loading'[j] = loading[m]
      <4>1. CASE j <= i - 1
        <5>1. j \in 1 .. i - 1 /\ j \in 1 .. n
          BY <3>1, <4>1
        <5> QED BY <3>2, <3>5, <4>1, <5>1
      <4>2. CASE ~ (j <= i - 1)
        <5>1. j - (i - 1) \in 1 .. n - i /\ i + (j - (i - 1)) = j + 1 /\ j + 1 \in 1 .. n
          BY <3>1, <4>2
        <5>2. loading'[j] = after[j - (i - 1)]
          BY <3>5, <4>2
        <5> QED BY <3>3, <5>1, <5>2
      <4> QED BY <4>1, <4>2
    <3> QED BY <3>5, <3>6 DEF n
  <2> QED BY <1>0, <1>1, <1>3, <2>2, <2>3 DEF LoadInv
<1>4. ASSUME UNCHANGED loading, result' = result + 1 PROVE LoadInv'
  <2>1. \A j \in 1 .. Len(loading) : loading[j].run < result'
    BY <1>1, <1>4
  <2> QED BY <1>1, <1>4, <2>1 DEF LoadInv
<1>5. ASSUME NEW l, l = [run |-> result, on |-> chosen, list |-> list, columns |-> Named],
             loading' = Append(loading, l), UNCHANGED <<list, origin, result>>
      PROVE  LoadInv'
  <2>1. l \in Load /\ l.run = result /\ l.columns = Named
    BY <1>5, ColsAre DEF Load, RowsInv
  <2>2. loading' \in Seq(Load)
    BY <1>1, <1>5, <2>1
  <2>3. \A j \in 1 .. Len(loading') :
          \/ j \in 1 .. Len(loading) /\ loading'[j] = loading[j]
          \/ loading'[j] = l
    BY <1>1, <1>5
  <2> QED BY <1>0, <1>1, <1>5, <2>1, <2>2, <2>3 DEF LoadInv
<1> QED BY <1>2, <1>3, <1>4, <1>5

\* The result and its columns stay the same, sorted or not.
LEMMA RowsKept ==
  ASSUME RowsInv, UNCHANGED <<result, origin, list, raw>>, chosen' \in Connections,
         sort' = <<>> \/ sort' \in Edits!Cols \X BOOLEAN
  PROVE  RowsInv'
BY SameResult DEF RowsInv

\* Changes in the grid leave all but what is pending, the clicks and the sort as
\* it is.
OnlyEdit ==
  UNCHANGED <<tables, chosen, result, origin, list, raw, sort, loading, dialog, stmts, reviewed>>

\* What is pending can be changed in the grid, if it stays as it should be.
LEMMA PendingStep ==
  ASSUME EditsInv, OnlyEdit,
         NEW e, edit' = e, e # Edits!NoEdit => Good(e) /\ EditorInv(e)
  PROVE  EditsInv'
<1>1. TablesInv' /\ RowsInv'
  <2>1. TablesInv'
    BY DEF EditsInv, OnlyEdit, TablesInv, IsTable
  <2>2. RowsInv'
    BY RowsKept DEF EditsInv, OnlyEdit, RowsInv
  <2> QED BY <2>1, <2>2
<1>2. LoadInv'
  BY LoadsKept DEF EditsInv, OnlyEdit
<1>3. PendingInv'
  <2>1. Good(e)' <=> Good(e)
    BY SameResult DEF OnlyEdit
  <2>2. EditorInv(e)' <=> EditorInv(e)
    BY SameResult DEF OnlyEdit
  <2> QED BY <2>1, <2>2 DEF PendingInv
<1>4. ReviewInv'
  BY SameResult DEF OnlyEdit, EditsInv, ReviewInv
<1> QED BY <1>1, <1>2, <1>3, <1>4 DEF EditsInv

\* A step of the grid.
LEMMA GridStep == EditsInv /\ Edits!Grid => EditsInv'
<1> SUFFICES ASSUME EditsInv, Edits!Grid PROVE EditsInv'
  OBVIOUS
<1>0. RowsInv /\ PendingInv
  BY DEF EditsInv
<1>1. ASSUME NEW c \in Edits!Cols, Edits!ToggleSort(c) PROVE EditsInv'
  <2>1. /\ UNCHANGED <<tables, chosen, result, origin, list, raw, loading, edit, dialog, stmts,
                       reviewed>>
        /\ sort' \in {<<c, TRUE>>, <<c, FALSE>>, <<>>}
    BY <1>1 DEF Edits!ToggleSort, Edits!dialogVars
  <2>2. TablesInv'
    BY <2>1 DEF EditsInv, TablesInv, IsTable
  <2>3. RowsInv'
    <3>1. sort' = <<>> \/ sort' \in Edits!Cols \X BOOLEAN
      <4>1. <<c, TRUE>> \in Edits!Cols \X BOOLEAN /\ <<c, FALSE>> \in Edits!Cols \X BOOLEAN
        OBVIOUS
      <4> QED BY <2>1, <4>1
    <3>2. chosen' \in Connections
      BY <1>0, <2>1 DEF RowsInv
    <3> QED BY <1>0, <2>1, <3>1, <3>2, RowsKept
  <2>4. LoadInv'
    BY <2>1, LoadsKept DEF EditsInv
  <2>5. PendingInv' /\ ReviewInv'
    BY <2>1, SameResult DEF EditsInv, PendingInv, ReviewInv, Edits!NoEdit
  <2> QED BY <2>2, <2>3, <2>4, <2>5 DEF EditsInv
<1>2. ASSUME edit # Edits!NoEdit, NEW pos \in 1 .. Edits!Total(edit)
      PROVE  /\ Good(edit) /\ EditorInv(edit)
             /\ pos \in Nat \ {0} /\ pos <= Edits!Total(edit)
             /\ edit.inserted \in Seq(NewRows) /\ edit.deleted \subseteq Edits!Sources
             /\ Edits!Existing(pos) => Edits!RowIndex(pos) \in Edits!Sources
             /\ ~Edits!Existing(pos) => Edits!New(pos) \in 1 .. Len(edit.inserted)
  <2>1. Good(edit) /\ EditorInv(edit)
    BY <1>0, <1>2 DEF PendingInv
  <2>2. Edits!Total(edit) \in Nat
    BY <1>0, <2>1, ColsAre DEF Good, Edits!Total
  <2>3. pos \in Nat \ {0} /\ pos <= Edits!Total(edit)
    BY <2>2
  <2> QED BY <1>0, <2>1, <2>3, RowRef DEF Good
<1>3. ASSUME edit # Edits!NoEdit, NEW pos \in 1 .. Edits!Total(edit), NEW c \in Edits!Cols,
             Edits!OpenCell(pos, c)
      PROVE  EditsInv'
  <2>1. /\ edit.target[c] # "none" /\ edit' = [edit EXCEPT !.editing = <<pos, c>>]
        /\ OnlyEdit
    BY <1>3 DEF Edits!OpenCell, Edits!CanSet, Edits!Edited, Edits!resultVars, Edits!dialogVars,
                OnlyEdit
  <2>2. pos \in Nat \ {0} /\ Good(edit)
    BY <1>2, <1>3
  <2> DEFINE cell == <<pos, c>>
             e == [edit EXCEPT !.editing = cell]
  <2>3. Good(e) /\ e.editing = cell /\ e.target = edit.target
    <3> HIDE DEF cell
    <3> QED BY <2>2, EditingSet
  <2> HIDE DEF e
  <2>4. EditorInv(e)
    BY <2>1, <2>2, <2>3 DEF EditorInv
  <2>5. edit' = e
    BY <2>1 DEF e
  <2> QED BY <2>1, <2>3, <2>4, <2>5, PendingStep
<1>4. ASSUME edit # Edits!NoEdit, NEW pos \in 1 .. Edits!Total(edit), NEW c \in Edits!Cols,
             Edits!SetNull(pos, c)
      PROVE  EditsInv'
  <2> DEFINE e == Edits!Put(edit, pos, c, Edits!Null)
  <2>1. edit.target[c] # "none" /\ edit' = e /\ OnlyEdit
    BY <1>4 DEF Edits!SetNull, Edits!CanSet, Edits!Edited, Edits!resultVars, Edits!dialogVars,
                OnlyEdit
  <2>2. Edits!Null \in Int
    BY DEF Edits!Null
  <2>3. Good(e) /\ e.editing = edit.editing /\ e.target = edit.target
    BY <1>0, <1>2, <1>4, <2>1, <2>2, PutGood
  <2> HIDE DEF e
  <2>4. EditorInv(e)
    BY <1>2, <1>4, <2>3 DEF EditorInv
  <2> QED BY <2>1, <2>3, <2>4, PendingStep
<1>5. ASSUME edit # Edits!NoEdit, NEW pos \in 1 .. Edits!Total(edit), NEW c \in Edits!Cols,
             Edits!SetDefault(pos, c)
      PROVE  EditsInv'
  <2> DEFINE i == Edits!New(pos)
             row == edit.inserted[i]
             rows == [edit.inserted EXCEPT ![i] = [x \in DOMAIN row \ {c} |-> row[x]]]
             e == [edit EXCEPT !.inserted = rows]
  <2>1. ~Edits!Existing(pos) /\ edit' = e /\ OnlyEdit
    BY <1>5 DEF Edits!SetDefault, Edits!Edited, Edits!resultVars, Edits!dialogVars, OnlyEdit
  <2>2. i \in 1 .. Len(edit.inserted)
    BY <1>2, <1>5, <2>1
  <2>3. rows \in Seq(NewRows)
    <3> HIDE DEF i
    <3> QED BY <1>2, <1>5, <2>2, NewRowSet
  <2> HIDE DEF rows
  <2>4. Good(e) /\ e.editing = edit.editing /\ e.target = edit.target
    BY <1>2, <1>5, <2>3, InsertedSet
  <2> HIDE DEF e
  <2>5. EditorInv(e)
    BY <1>2, <1>5, <2>4 DEF EditorInv
  <2> QED BY <2>1, <2>4, <2>5, PendingStep
<1>6. ASSUME edit # Edits!NoEdit, NEW pos \in 1 .. Edits!Total(edit), Edits!DeleteRow(pos)
      PROVE  EditsInv'
  <2> DEFINE gone == edit.deleted \cup {Edits!RowIndex(pos)}
             i == Edits!New(pos)
             rows == Edits!RemoveAt(edit.inserted, i)
  <2>1. /\ OnlyEdit
        /\ IF Edits!Existing(pos) THEN edit' = [edit EXCEPT !.deleted = gone]
           ELSE edit' = [edit EXCEPT !.inserted = rows]
    BY <1>6 DEF Edits!DeleteRow, Edits!Edited, Edits!resultVars, Edits!dialogVars, OnlyEdit
  <2>2. CASE Edits!Existing(pos)
    <3> DEFINE e == [edit EXCEPT !.deleted = gone]
    <3>1. gone \in SUBSET Edits!Sources
      BY <1>2, <1>6, <2>2
    <3> HIDE DEF gone
    <3>2. Good(e) /\ e.editing = edit.editing /\ e.target = edit.target
      BY <1>2, <1>6, <3>1, DeletedSet
    <3>3. edit' = e
      BY <2>1, <2>2
    <3> HIDE DEF e
    <3>4. EditorInv(e)
      BY <1>2, <1>6, <3>2 DEF EditorInv
    <3> QED BY <2>1, <3>2, <3>3, <3>4, PendingStep
  <2>3. CASE ~Edits!Existing(pos)
    <3> DEFINE e == [edit EXCEPT !.inserted = rows]
    <3>1. rows \in Seq(NewRows)
      <4>1. i \in 1 .. Len(edit.inserted) /\ edit.inserted \in Seq(NewRows)
        BY <1>2, <1>6, <2>3
      <4> HIDE DEF i
      <4> QED BY <4>1 DEF Edits!RemoveAt
    <3> HIDE DEF rows
    <3>2. Good(e) /\ e.editing = edit.editing /\ e.target = edit.target
      BY <1>2, <1>6, <3>1, InsertedSet
    <3>3. edit' = e
      BY <2>1, <2>3
    <3> HIDE DEF e
    <3>4. EditorInv(e)
      BY <1>2, <1>6, <3>2 DEF EditorInv
    <3> QED BY <2>1, <3>2, <3>3, <3>4, PendingStep
  <2> QED BY <2>2, <2>3
<1>7. ASSUME edit # Edits!NoEdit, NEW pos \in 1 .. Edits!Total(edit), Edits!RestoreRow(pos)
      PROVE  EditsInv'
  <2> DEFINE gone == edit.deleted \ {Edits!RowIndex(pos)}
             e == [edit EXCEPT !.deleted = gone]
  <2>1. OnlyEdit /\ edit' = e
    BY <1>7 DEF Edits!RestoreRow, Edits!Edited, Edits!resultVars, Edits!dialogVars, OnlyEdit
  <2>2. gone \in SUBSET Edits!Sources
    BY <1>2, <1>7
  <2> HIDE DEF gone
  <2>3. Good(e) /\ e.editing = edit.editing /\ e.target = edit.target
    BY <1>2, <1>7, <2>2, DeletedSet
  <2> HIDE DEF e
  <2>4. EditorInv(e)
    BY <1>2, <1>7, <2>3 DEF EditorInv
  <2> QED BY <2>1, <2>3, <2>4, PendingStep
<1>8. ASSUME NEW v \in Keys \cup Values, Edits!FinishCell(v) PROVE EditsInv'
  <2> DEFINE pos == edit.editing[1]
             c == edit.editing[2]
             d == [edit EXCEPT !.editing = Edits!NoCell]
             e == Edits!Put(d, pos, c, v)
  <2>1. /\ edit # Edits!NoEdit /\ edit.editing # Edits!NoCell /\ edit' = e /\ OnlyEdit
        /\ pos <= Edits!Total(edit)
    BY <1>8 DEF Edits!FinishCell, Edits!resultVars, Edits!dialogVars, OnlyEdit
  <2>2. v \in Int
    BY EditsAssumption
  <2>3. Good(edit) /\ EditorInv(edit)
    BY <1>0, <2>1 DEF PendingInv
  <2>4. pos \in Nat \ {0} /\ c \in Edits!Cols /\ edit.target[c] # "none"
    BY <2>1, <2>3 DEF EditorInv
  <2>5. /\ Good(d) /\ d.editing = Edits!NoCell /\ d.target = edit.target
        /\ d.inserted = edit.inserted
    BY <2>3, EditingSet
  <2> HIDE DEF d, pos, c
  <2>6. pos <= Edits!Total(d)
    BY <2>1, <2>5 DEF Edits!Total
  <2>7. Good(e) /\ e.editing = d.editing
    BY <1>0, <2>2, <2>4, <2>5, <2>6, PutGood
  <2> HIDE DEF e
  <2>8. EditorInv(e)
    BY <2>5, <2>7 DEF EditorInv
  <2> QED BY <2>1, <2>7, <2>8, PendingStep
<1>9. CASE Edits!CancelCell
  <2> DEFINE e == [edit EXCEPT !.editing = Edits!NoCell]
  <2>1. edit # Edits!NoEdit /\ OnlyEdit /\ edit' = e
    BY <1>9 DEF Edits!CancelCell, Edits!resultVars, Edits!dialogVars, OnlyEdit
  <2>2. Good(e) /\ e.editing = Edits!NoCell
    BY <1>0, <2>1, EditingSet DEF PendingInv
  <2> HIDE DEF e
  <2> QED BY <2>1, <2>2, PendingStep DEF EditorInv
<1>10. CASE Edits!AddRow
  <2> DEFINE rows == Append(edit.inserted, <<>>)
             e == [edit EXCEPT !.inserted = rows]
  <2>1. edit # Edits!NoEdit /\ OnlyEdit /\ edit' = e
    BY <1>10 DEF Edits!AddRow, Edits!Editing, Edits!Edited, Edits!resultVars, Edits!dialogVars,
                 OnlyEdit
  <2>2. Good(edit) /\ EditorInv(edit)
    BY <1>0, <2>1 DEF PendingInv
  <2>3. rows \in Seq(NewRows)
    <3>1. <<>> \in [{} -> Int]
      OBVIOUS
    <3>2. <<>> \in NewRows
      BY <3>1 DEF NewRows
    <3> QED BY <2>2, <3>2 DEF Good
  <2> HIDE DEF rows
  <2>4. Good(e) /\ e.editing = edit.editing /\ e.target = edit.target
    BY <2>2, <2>3, InsertedSet
  <2> HIDE DEF e
  <2>5. EditorInv(e)
    BY <2>2, <2>4 DEF EditorInv
  <2> QED BY <2>1, <2>4, <2>5, PendingStep
<1>11. CASE Edits!Revert
  <2> DEFINE e == [target |-> edit.target, changes |-> <<>>, deleted |-> {},
                   inserted |-> <<>>, editing |-> Edits!NoCell]
  <2>1. edit # Edits!NoEdit /\ OnlyEdit
    BY <1>11 DEF Edits!Revert, Edits!resultVars, Edits!dialogVars, OnlyEdit
  <2>2. Good(edit)
    BY <1>0, <2>1 DEF PendingInv
  <2>3. edit' = e
    BY <1>11, <2>2 DEF Edits!Revert, Good, IsEdit
  <2>4. Good(e) /\ EditorInv(e)
    BY <2>2 DEF Good, IsEdit, EditorInv
  <2> HIDE DEF e
  <2> QED BY <2>1, <2>3, <2>4, PendingStep
<1>12. CASE Edits!Done
  <2>1. OnlyEdit /\ edit' = Edits!NoEdit
    BY <1>12 DEF Edits!Done, Edits!resultVars, Edits!dialogVars, OnlyEdit
  <2> QED BY <2>1, PendingStep
<1> QED
  BY <1>1, <1>3, <1>4, <1>5, <1>6, <1>7, <1>8, <1>9, <1>10, <1>11, <1>12 DEF Edits!Grid

\* Tables stay tables when one of them is changed, and what is pending does not
\* depend on them.
LEMMA TablesStep ==
  ASSUME EditsInv, UNCHANGED <<result, origin, list, raw, sort, loading, edit>>,
         chosen' \in Connections, ReviewInv',
         \/ UNCHANGED tables
         \/ \E t, c : IsTable(t) /\ tables' = [tables EXCEPT ![c] = t]
  PROVE  EditsInv'
<1>0. TablesInv /\ RowsInv /\ LoadInv /\ PendingInv
  BY DEF EditsInv
<1>1. TablesInv'
  <2>1. CASE UNCHANGED tables
    BY <1>0, <2>1 DEF TablesInv, IsTable
  <2>2. ASSUME NEW t, NEW c, IsTable(t), tables' = [tables EXCEPT ![c] = t] PROVE TablesInv'
    <3>1. tables' = [d \in Connections |-> IF d = c THEN t ELSE tables[d]]
      BY <1>0, <2>2 DEF TablesInv
    <3>2. \A d \in Connections : IsTable(tables'[d])
      BY <1>0, <2>2, <3>1 DEF TablesInv
    <3>3. tables' = [d \in Connections |-> tables'[d]]
      BY <3>1
    <3> QED BY <3>2, <3>3 DEF TablesInv, IsTable
  <2> QED BY <2>1, <2>2
<1>2. RowsInv'
  BY <1>0, RowsKept DEF RowsInv
<1>3. LoadInv'
  BY <1>0, LoadsKept
<1>4. PendingInv'
  BY <1>0, SameResult DEF PendingInv, Edits!NoEdit
<1> QED BY <1>1, <1>2, <1>3, <1>4 DEF EditsInv

\* A run in the grid, or after a transaction.
LEMMA RunStep ==
  ASSUME EditsInv, NEW l \in Seq(Names), Edits!RunSql(l), UNCHANGED <<tables, chosen, loading>>,
         dialog' = "grid"
  PROVE  EditsInv'
<1>1. RowsInv' /\ edit' = Edits!NoEdit /\ result' = result + 1
  BY RunIs DEF EditsInv
<1>2. TablesInv'
  BY DEF EditsInv, TablesInv, IsTable
<1>3. LoadInv'
  BY <1>1, LoadsKept DEF EditsInv
<1>4. PendingInv' /\ ReviewInv'
  BY <1>1 DEF PendingInv, ReviewInv, Edits!NoEdit
<1> QED BY <1>1, <1>2, <1>3, <1>4 DEF EditsInv

\* A step of the dialog.
LEMMA DialogStep == EditsInv /\ Edits!Dialog => EditsInv'
<1> SUFFICES ASSUME EditsInv, Edits!Dialog PROVE EditsInv'
  OBVIOUS
<1>0. RowsInv /\ PendingInv /\ ReviewInv /\ chosen \in Connections
  BY DEF EditsInv, RowsInv
<1>1. ASSUME UNCHANGED <<list, origin, raw, stmts, reviewed>>, dialog # "grid" PROVE ReviewInv'
  BY <1>0, <1>1, SameResult DEF ReviewInv
<1>2. CASE Edits!Review
  <2>1. /\ UNCHANGED <<tables, chosen, result, origin, list, raw, sort, loading, edit>>
        /\ edit # Edits!NoEdit /\ stmts' = Edits!Statements(edit) /\ reviewed' = edit
    BY <1>2 DEF Edits!Review, Edits!resultVars
  <2>2. Good(edit)
    BY <1>0, <2>1 DEF PendingInv
  <2>3. ReviewInv'
    BY <2>1, <2>2, SameResult DEF ReviewInv
  <2> QED BY <1>0, <2>1, <2>3, TablesStep
<1>3. CASE Edits!Cancel
  <2>1. /\ UNCHANGED <<tables, chosen, result, origin, list, raw, sort, loading, edit>>
        /\ dialog' = "grid"
    BY <1>3 DEF Edits!Cancel, Edits!Close, Edits!resultVars
  <2>2. ReviewInv'
    BY <2>1 DEF ReviewInv
  <2> QED BY <1>0, <2>1, <2>2, TablesStep
<1>4. ASSUME NEW step, Edits!DialogGoes(step), dialog # "grid",
             \/ UNCHANGED tables
             \/ \E t, c : IsTable(t) /\ tables' = [tables EXCEPT ![c] = t]
      PROVE  EditsInv'
  <2>1. UNCHANGED <<chosen, result, origin, list, raw, sort, loading, edit, stmts, reviewed>>
    BY <1>4 DEF Edits!DialogGoes, Edits!resultVars
  <2>2. ReviewInv'
    BY <1>1, <1>4, <2>1
  <2> QED BY <1>0, <1>4, <2>1, <2>2, TablesStep
<1>5. CASE Edits!Apply \/ Edits!RollBack \/ Edits!Failed
  <2>1. PICK step : Edits!DialogGoes(step) /\ UNCHANGED tables
    BY <1>5 DEF Edits!Apply, Edits!RollBack, Edits!Failed
  <2>2. dialog # "grid"
    BY <1>5 DEF Edits!Apply, Edits!RollBack, Edits!Failed
  <2> QED BY <1>4, <2>1, <2>2
<1>6. CASE Edits!Commit
  <2>1. /\ dialog # "grid" /\ Edits!Transaction.ok
        /\ tables' = [tables EXCEPT ![chosen] = Edits!Transaction.table]
    BY <1>6 DEF Edits!Commit
  <2>2. PICK step : Edits!DialogGoes(step)
    BY <1>6 DEF Edits!Commit
  <2>3. IsTable(tables[chosen])
    BY <1>0 DEF EditsInv, TablesInv
  <2>4. Good(reviewed) /\ stmts = Edits!Statements(reviewed)
    BY <1>0, <2>1 DEF ReviewInv
  <2>5. IsTable(Edits!Transaction.table)
    BY <1>0, <2>1, <2>3, <2>4, TransactionTable
  <2>6. \E t, c : IsTable(t) /\ tables' = [tables EXCEPT ![c] = t]
    BY <2>1, <2>5
  <2> QED BY <1>4, <2>1, <2>2, <2>6
<1>7. CASE Edits!Applied
  <2>1. Edits!RunSql(list) /\ UNCHANGED <<tables, chosen, loading>> /\ dialog' = "grid"
    BY <1>7 DEF Edits!Applied, Edits!Close
  <2>2. list \in Seq(Names)
    BY <1>0 DEF RowsInv
  <2> QED BY <2>1, <2>2, RunStep
<1> QED BY <1>2, <1>3, <1>5, <1>6, <1>7 DEF Edits!Dialog

\* Every step on the edits.
LEMMA StepEditsInv == EditsInv /\ [Edits!Next]_(Edits!vars) => EditsInv'
<1> SUFFICES ASSUME EditsInv, [Edits!Next]_(Edits!vars) PROVE EditsInv'
  OBVIOUS
<1>0. RowsInv /\ LoadInv /\ PendingInv /\ ReviewInv /\ TablesInv /\ chosen \in Connections
  BY DEF EditsInv, RowsInv
<1>1. ASSUME UNCHANGED <<list, origin, raw, stmts, reviewed, dialog>> PROVE ReviewInv'
  BY <1>0, <1>1, SameResult DEF ReviewInv
<1>2. CASE Edits!NewRun
  <2>1. PICK l \in Lists : Edits!RunSql(l)
    BY <1>2 DEF Edits!NewRun
  <2>2. UNCHANGED <<tables, chosen, loading>> /\ dialog' = "grid"
    BY <1>2 DEF Edits!NewRun, Edits!dialogVars
  <2>3. l \in Seq(Names)
    BY EditsAssumption DEF Names
  <2> QED BY <2>1, <2>2, <2>3, RunStep
<1>3. CASE Edits!ChooseConnection
  <2>1. /\ UNCHANGED <<tables, result, origin, list, raw, sort, loading, edit, dialog, stmts, reviewed>>
        /\ chosen' \in Connections
    BY <1>3 DEF Edits!ChooseConnection, Edits!resultVars, Edits!dialogVars
  <2> QED BY <1>1, <2>1, TablesStep
<1>4. ASSUME UNCHANGED <<tables, chosen, result, origin, list, raw, sort, dialog, stmts, reviewed>>,
             LoadInv', PendingInv'
      PROVE  EditsInv'
  <2>1. TablesInv' /\ RowsInv'
    BY <1>0, <1>4, RowsKept DEF TablesInv, IsTable, RowsInv
  <2> QED BY <1>1, <1>4, <2>1 DEF EditsInv
<1>5. ASSUME UNCHANGED <<list, origin, raw, edit>> PROVE PendingInv'
  BY <1>0, <1>5, SameResult DEF PendingInv, Edits!NoEdit
<1>6. CASE Edits!StartEdit
  <2>1. /\ UNCHANGED <<tables, chosen, result, origin, list, raw, sort, edit, dialog, stmts, reviewed>>
        /\ loading' = Append(loading, [run |-> result, on |-> chosen, list |-> list,
                                       columns |-> Named])
    BY <1>6 DEF Edits!StartEdit, Edits!resultVars, Edits!dialogVars, Named
  <2>2. LoadInv'
    BY <1>0, <2>1, LoadsKept
  <2> QED BY <1>4, <1>5, <2>1, <2>2
<1>7. ASSUME NEW i \in DOMAIN loading, Edits!Answers(i), PendingInv' PROVE EditsInv'
  <2>1. /\ UNCHANGED <<tables, chosen, result, origin, list, raw, sort, dialog, stmts, reviewed>>
        /\ loading' = Edits!RemoveAt(loading, i)
    BY <1>7 DEF Edits!Answers, Edits!resultVars, Edits!dialogVars
  <2>2. LoadInv'
    BY <1>0, <2>1, LoadsKept
  <2> QED BY <1>4, <1>7, <2>1, <2>2
<1>8. ASSUME NEW i \in DOMAIN loading, Edits!EditReady(i) PROVE EditsInv'
  <2>0. Edits!Answers(i) /\ UNCHANGED <<list, origin, raw>>
    BY <1>8 DEF Edits!EditReady, Edits!Answers, Edits!resultVars
  <2>1. CASE loading[i].run = result /\ Edits!Grants(loading[i])
    <3> DEFINE e == [target |-> Edits!Target(loading[i].columns), changes |-> <<>>,
                     deleted |-> {}, inserted |-> <<>>, editing |-> Edits!NoCell]
    <3>1. edit' = e
      BY <1>8, <2>1 DEF Edits!EditReady, Edits!StartsOn
    <3>2. Good(e) /\ EditorInv(e)
      BY <1>0, <2>1, StartsGood
    <3> HIDE DEF e
    <3>3. PendingInv'
      BY <2>0, <3>1, <3>2, SameResult DEF PendingInv
    <3> QED BY <1>7, <2>0, <3>3
  <2>2. CASE ~ (loading[i].run = result /\ Edits!Grants(loading[i]))
    <3>1. UNCHANGED edit
      BY <1>8, <2>2 DEF Edits!EditReady
    <3> QED BY <1>5, <1>7, <2>0, <3>1
  <2> QED BY <2>1, <2>2
<1>9. ASSUME NEW i \in DOMAIN loading, Edits!LoadFails(i) PROVE EditsInv'
  <2>1. Edits!Answers(i) /\ UNCHANGED <<list, origin, raw, edit>>
    BY <1>9 DEF Edits!LoadFails, Edits!Answers, Edits!resultVars
  <2> QED BY <1>5, <1>7, <2>1
<1>10. CASE Edits!OthersWrite
  <2>1. /\ UNCHANGED <<chosen, result, origin, list, raw, sort, loading, edit, dialog, stmts, reviewed>>
        /\ \E w \in Written :
             \/ \E v \in Values :
                  tables' = [tables EXCEPT ![w[1]] = Edits!With(tables[w[1]], w[2], v)]
             \/ tables' = [tables EXCEPT ![w[1]] =
                             [x \in DOMAIN tables[w[1]] \ {w[2]} |-> tables[w[1]][x]]]
    BY <1>10 DEF Edits!OthersWrite, Edits!resultVars, Edits!dialogVars
  <2>2. PICK w \in Written :
          \/ \E v \in Values :
               tables' = [tables EXCEPT ![w[1]] = Edits!With(tables[w[1]], w[2], v)]
          \/ tables' = [tables EXCEPT ![w[1]] =
                          [x \in DOMAIN tables[w[1]] \ {w[2]} |-> tables[w[1]][x]]]
    BY <2>1
  <2> DEFINE c == w[1]
             k == w[2]
  <2>3. c \in Connections /\ k \in Int
    BY EditsAssumption
  <2>4. IsTable(tables[c])
    BY <1>0, <2>3 DEF TablesInv
  <2>5. /\ IsTable([x \in DOMAIN tables[c] \ {k} |-> tables[c][x]])
        /\ \A v \in Values : IsTable(Edits!With(tables[c], k, v))
    <3>1. Values \subseteq Int
      BY EditsAssumption
    <3> HIDE DEF c, k
    <3> QED BY <2>3, <2>4, <3>1, TableKept
  <2>6. \E t, d : IsTable(t) /\ tables' = [tables EXCEPT ![d] = t]
    BY <2>2, <2>5
  <2>7. ReviewInv'
    BY <1>1, <2>1
  <2>8. chosen' \in Connections
    BY <1>0, <2>1
  <2> QED BY <2>1, <2>6, <2>7, <2>8, TablesStep
<1>11. CASE UNCHANGED Edits!vars
  <2>1. UNCHANGED <<tables, chosen, result, origin, list, raw, sort, loading, edit, dialog, stmts,
                    reviewed>>
    BY <1>11 DEF Edits!vars, Edits!resultVars, Edits!dialogVars
  <2> QED BY <1>0, <1>1, <2>1, TablesStep
<1> QED
  BY <1>2, <1>3, <1>6, <1>8, <1>9, <1>10, <1>11, GridStep, DialogStep DEF Edits!Next

\* A transaction that commits makes the table what the grid showed of it, and
\* leaves the rest as it is by then (statements, apply).
THEOREM AppliesHolds == Edits!Spec => []AppliesAsShown
<1>1. EditsInv => AppliesAsShown
  <2> SUFFICES ASSUME EditsInv, dialog = "running", Edits!Transaction.ok,
                      ~Edits!Overtaken(reviewed)
               PROVE  /\ \A r \in reviewed.deleted \cup Edits!Changed(reviewed) :
                           raw[r][Edits!Key(reviewed)] \in DOMAIN tables[chosen]
                      /\ {<<k, Edits!Transaction.table[k]>> :
                            k \in DOMAIN Edits!Transaction.table}
                           = Edits!Intended(reviewed, tables[chosen])
    BY DEF AppliesAsShown, Edits!AppliesAsShown
  <2>1. RowsInv /\ Good(reviewed) /\ stmts = Edits!Statements(reviewed)
    BY DEF EditsInv, ReviewInv
  <2>2. Progress(reviewed, tables[chosen], Edits!Transaction.table, reviewed.deleted,
                 Edits!Changed(reviewed), DOMAIN reviewed.inserted)
    BY <2>1, Applies
  <2> QED BY <2>1, <2>2, AllDone
<1> QED BY <1>1, InitEditsInv, StepEditsInv, PTL DEF Edits!Spec

=============================================================================
