-------------------------- MODULE BackgroundProofs --------------------------
(***************************************************************************)
(* Proofs about what the UI starts beside its tabs: the calls of the       *)
(* assistant's tool server, imports, and the assistant's turns.  Each      *)
(* theorem is about the specification of one of them, for any number of    *)
(* calls, imports and turns, whatever fails or answers late.               *)
(***************************************************************************)
EXTENDS Background, SequencesExt, SequenceTheorems, WellFoundedInduction, TLAPS

-----------------------------------------------------------------------------
(* The tool server: what the requests of a query know of the transaction   *)
(* they are in, whichever of them failed, was refused or lost its answer   *)

\* What runs while the server waits is what it asked for, and an answer means
\* that it ended.
Asked ==
  pc = "waiting" =>
    /\ reply # "none" => running = Idle
    /\ running # Idle => running.what = ask

\* Requests are of some call.
Called == pc \in {"opening", "sending", "waiting"} => call # 0

\* Once BEGIN succeeded the session, if it is there, is in a transaction, and
\* nothing runs that could end it.
Begun ==
  /\ pc = "opening" => ask = "BEGIN"
  /\ pc = "waiting" /\ ask = "BEGIN" /\ reply = "ok" /\ session = "open" => tx # 0
  /\ pc = "sending" /\ ask = "statement" /\ session = "open" =>
       tx # 0 /\ running = Idle

\* A statement runs in a transaction.
Wrapped == running.what = "statement" => tx # 0

\* Once ROLLBACK succeeded there is none, and nothing runs that could open one.
Undone ==
  /\ pc = "waiting" /\ ask = "ROLLBACK" /\ reply = "ok" => tx = 0
  /\ pc = "idle" /\ verdict = "ok" => tx = 0 /\ running = Idle

ToolsInv == TypeOK /\ Called /\ Asked /\ Begun /\ Wrapped /\ Undone /\ NothingCommitted

-----------------------------------------------------------------------------
LEMMA InitTools == Init => ToolsInv
<1> SUFFICES ASSUME Init PROVE ToolsInv
  OBVIOUS
<1>1. TypeOK
  <2>1. running \in {Idle} \cup [what : Requests, of : 1 .. call]
    BY DEF Init
  <2>2. call \in 0 .. MaxCalls /\ tx \in 0 .. call /\ committed \subseteq 1 .. call
    BY ToolsAssumption DEF Init
  <2> QED BY <2>1, <2>2 DEF Init, TypeOK, Requests
<1>2. Idle.what = "none"
  BY DEF Idle
<1> QED BY <1>1, <1>2 DEF Init, ToolsInv, Called, Asked, Begun, Wrapped, Undone, NothingCommitted

\* What Continue leaves of the server, by what it was asked and got.
LEMMA ContinueTypes ==
  ASSUME TypeOK, NEW r \in {"ok", "err"}, Continue(r)
  PROVE  /\ pc' \in {"idle", "sending"} /\ ask' \in Requests
         /\ result' \in {"none", "ok", "err"} /\ verdict' \in {"none", "ok", "err"}
         /\ pc' = "sending" => verdict' = verdict
         /\ pc' = "sending" /\ ask' = "statement" => ask = "BEGIN" /\ r = "ok"
         /\ pc' = "idle" /\ verdict' = "ok" => ask = "ROLLBACK" /\ r = "ok"
BY DEF TypeOK, Continue, Reply, Then, Requests

\* Every step keeps the invariant; the answers are where it is used.
LEMMA StepTools == ToolsInv /\ [Next]_vars => ToolsInv'
<1> SUFFICES ASSUME ToolsInv, [Next]_vars PROVE ToolsInv'
  OBVIOUS
<1> USE ToolsAssumption
<1> USE DEF ToolsInv, TypeOK, Called, Asked, Begun, Wrapped, Undone, NothingCommitted, Idle, Requests
<1>1. CASE Call
  BY <1>1, SMTT(30) DEF Call, serviceVars
<1>2. CASE OpenSession
  BY <1>2 DEF OpenSession, Reply
<1>3. CASE Send
  <2>1. call \in 1 .. MaxCalls
    BY <1>3 DEF Send
  <2> QED BY <1>3, <2>1 DEF Send
<1>4. CASE Refused
  <2>1. Continue("err")
    BY <1>4 DEF Refused
  <2>2. /\ pc' \in {"idle", "sending"} /\ ask' \in Requests
        /\ result' \in {"none", "ok", "err"} /\ verdict' \in {"none", "ok", "err"}
        /\ ~(pc' = "sending" /\ ask' = "statement")
        /\ ~(pc' = "idle" /\ verdict' = "ok")
    BY <2>1, ContinueTypes
  <2> QED BY <1>4, <2>2 DEF Refused
<1>5. CASE Answer
  <2>1. reply \in {"ok", "err"} /\ Continue(reply)
    BY <1>5 DEF Answer
  <2>2. /\ pc' \in {"idle", "sending"} /\ ask' \in Requests
        /\ result' \in {"none", "ok", "err"} /\ verdict' \in {"none", "ok", "err"}
        /\ pc' = "sending" /\ ask' = "statement" => ask = "BEGIN" /\ reply = "ok"
        /\ pc' = "idle" /\ verdict' = "ok" => ask = "ROLLBACK" /\ reply = "ok"
    BY <2>1, ContinueTypes
  <2>3. running = Idle
    BY <1>5 DEF Answer
  <2> QED BY <1>5, <2>2, <2>3 DEF Answer, serviceVars
<1>6. CASE LoseAnswer
  <2>1. Continue("err")
    BY <1>6 DEF LoseAnswer
  <2>2. /\ pc' \in {"idle", "sending"} /\ ask' \in Requests
        /\ result' \in {"none", "ok", "err"} /\ verdict' \in {"none", "ok", "err"}
        /\ ~(pc' = "sending" /\ ask' = "statement")
        /\ ~(pc' = "idle" /\ verdict' = "ok")
    BY <2>1, ContinueTypes
  <2> QED BY <1>6, <2>2 DEF LoseAnswer, serviceVars
<1>7. CASE EndOfInput
  <2>1. pc' \in {"closing", "over"} /\ cached' \in BOOLEAN
    BY <1>7 DEF EndOfInput
  <2>2. UNCHANGED <<call, ask, result, verdict, reply, session, running, tx, committed>>
    BY <1>7 DEF EndOfInput, serviceVars
  <2> QED BY <2>1, <2>2
<1>8. CASE Close
  BY <1>8 DEF Close
<1>9. CASE Killed
  BY <1>9 DEF Killed, serviceVars
<1>10. CASE Finishes
  <2> PICK r \in {"ok", "err"} :
        Executes(r) /\ reply' = (IF pc = "waiting" THEN r ELSE reply)
    BY <1>10 DEF Finishes
  <2>1. /\ running # Idle /\ running' = Idle /\ session' = session
        /\ UNCHANGED serverVars
    BY <1>10 DEF Finishes
  <2>2. running.what \in Requests /\ running.of \in 1 .. call
    BY <2>1
  <2>3. CASE running.what = "BEGIN"
    <3>1. tx' = (IF r = "ok" /\ tx = 0 THEN running.of ELSE tx) /\ committed' = committed
      BY <2>3 DEF Executes
    <3> QED BY <2>1, <2>2, <2>3, <3>1 DEF serverVars
  <2>4. CASE running.what = "ROLLBACK"
    <3>1. tx' = (IF r = "ok" THEN 0 ELSE tx) /\ committed' = committed
      BY <2>4 DEF Executes
    <3> QED BY <2>1, <2>2, <2>4, <3>1 DEF serverVars
  <2>5. CASE running.what = "statement"
    <3>1. tx' = tx /\ committed' = committed
      BY <2>5 DEF Executes
    <3> QED BY <2>1, <2>2, <2>5, <3>1 DEF serverVars
  <2> QED BY <2>2, <2>3, <2>4, <2>5
<1>11. CASE Breaks
  BY <1>11 DEF Breaks, serverVars
<1>12. CASE Reap
  BY <1>12 DEF Reap, serverVars
<1>13. CASE SessionEnds
  BY <1>13 DEF SessionEnds, serverVars
<1>14. CASE Undo
  BY <1>14 DEF Undo, serverVars
<1>15. CASE UNCHANGED vars
  BY <1>15 DEF vars, serverVars, serviceVars
<1> QED
  BY <1>1, <1>2, <1>3, <1>4, <1>5, <1>6, <1>7, <1>8, <1>9, <1>10, <1>11, <1>12,
     <1>13, <1>14, <1>15 DEF Next, Server, Service

-----------------------------------------------------------------------------
\* What the requests of a query know of its transaction, in each phase.
THEOREM ToolsInvHolds == Spec => []ToolsInv
BY InitTools, StepTools, PTL DEF Spec

\* Type correctness of the tool server, its session and the transaction.
THEOREM ToolsType == Spec => []TypeOK
<1>1. ToolsInv => TypeOK
  BY DEF ToolsInv
<1> QED BY <1>1, ToolsInvHolds, PTL

\* No statement of the assistant takes effect for good, whichever request
\* failed or lost its answer.
THEOREM NothingCommittedHolds == Spec => []NothingCommitted
<1>1. ToolsInv => NothingCommitted
  BY DEF ToolsInv
<1> QED BY <1>1, ToolsInvHolds, PTL

\* A call that was answered with success left no transaction open.
THEOREM UndoneHolds == Spec => []AnsweredIsUndone
<1>1. ToolsInv => AnsweredIsUndone
  BY DEF ToolsInv, Undone, AnsweredIsUndone
<1> QED BY <1>1, ToolsInvHolds, PTL

-----------------------------------------------------------------------------
(* Imports: what is in the table is all of the file or nothing of it *)

Imports == Import!Imports

Phases == {"new", "opening", "reading", "sending", "waiting", "closing", "over", "killed"}

\* Types, without the bounds of numbers.
DialogType ==
  /\ dialog \in [table : Tables \cup {Nothing}, columns : Tables \cup {Nothing, "failed"},
                 busy : BOOLEAN, result : {"none", "ok", "err"}, mine : Nat]
  /\ dialog.mine <= started
  /\ openings \in 0 .. MaxOpenings
  /\ asking \in [Tables -> Nat]
  /\ \A t \in Tables : asking[t] <= openings
  /\ started \in 0 .. MaxImports

TaskType ==
  /\ importPc \in [Imports -> Phases]
  /\ target \in [Imports -> [table : Tables \cup {Nothing}, columns : Tables \cup {Nothing}]]
  /\ importAsk \in [Imports -> Import!Statements]
  /\ left \in [Imports -> Nat]
  /\ batch \in [Imports -> Nat]
  /\ importDone \in [Imports -> Nat]
  /\ importVerdict \in [Imports -> {"none", "ok", "err"}]
  /\ told \in [Imports -> BOOLEAN]

SessionType ==
  /\ importSession \in [Imports -> {"none", "open", "gone"}]
  /\ importRunning \in [Imports -> Import!Statements]
  /\ importReply \in [Imports -> {"none", "ok", "err"}]
  /\ importTx \in [Imports -> BOOLEAN]
  /\ written \in [Imports -> Nat]
  /\ importCommitted \in [Imports -> Nat]

ImportTypes == DialogType /\ TaskType /\ SessionType

\* What it waits for is what runs, until there is an answer.
Waits(i) ==
  /\ importReply[i] # "none" => importPc[i] = "waiting" /\ importRunning[i] = "none"
  /\ importPc[i] = "waiting" /\ importReply[i] = "none" =>
       importRunning[i] = importAsk[i]

\* Nothing runs while it reads the file or sends what is not a ROLLBACK; rows
\* are inserted in a transaction, if the session is there.
Wraps(i) ==
  /\ \/ importPc[i] \in {"new", "opening", "reading"}
     \/ importPc[i] = "sending" /\ importAsk[i] \in {"begin", "insert", "commit"}
     => importRunning[i] = "none"
  /\ \/ importPc[i] = "reading"
     \/ importPc[i] = "sending" /\ importAsk[i] \in {"insert", "commit"}
     \/ importPc[i] = "waiting" /\ importAsk[i] \in {"begin", "insert"} /\ importReply[i] = "ok"
     => (importSession[i] = "open" => importTx[i])
  /\ importRunning[i] = "insert" => importTx[i]

\* COMMIT is sent once, when every row was.
CommitsLast(i) ==
  /\ \/ importRunning[i] = "commit"
     \/ importPc[i] \in {"sending", "waiting"} /\ importAsk[i] = "commit"
     => left[i] = 0 /\ batch[i] = 0
  /\ \/ importPc[i] \in {"new", "opening", "reading"}
     \/ importPc[i] = "sending" /\ importAsk[i] \in {"begin", "insert", "commit"}
     \/ importPc[i] = "waiting" /\ importAsk[i] \in {"begin", "insert"}
     \/ importRunning[i] = "commit"
     => importCommitted[i] = 0

\* Rows are counted once: read, sent, imported.
Counts(i) ==
  /\ importDone[i] + batch[i] + left[i] <= MaxRows
  /\ batch[i] <= BatchRows
  /\ importPc[i] = "reading" => batch[i] < BatchRows
  /\ written[i] <= importDone[i] + batch[i]
  /\ importCommitted[i] <= MaxRows
  /\ \/ importRunning[i] = "insert" \/ importPc[i] = "reading"
     \/ importPc[i] = "sending" /\ importAsk[i] = "insert"
     => written[i] <= importDone[i]
  /\ \/ importPc[i] \in {"new", "opening"}
     \/ importPc[i] \in {"sending", "waiting"} /\ importAsk[i] = "begin"
     => batch[i] = 0
  /\ importPc[i] = "new" => importDone[i] = 0

\* Imports begin one after the other.
Begins(i) == i > started => importPc[i] = "new"

Keeps(i) == Waits(i) /\ Wraps(i) /\ CommitsLast(i) /\ Counts(i) /\ Begins(i)

ImportInv == ImportTypes /\ \A i \in Imports : Keeps(i)

\* An import of which the step changes nothing.
Same(i) ==
  /\ importPc'[i] = importPc[i] /\ importAsk'[i] = importAsk[i]
  /\ left'[i] = left[i] /\ batch'[i] = batch[i] /\ importDone'[i] = importDone[i]
  /\ importSession'[i] = importSession[i] /\ importRunning'[i] = importRunning[i]
  /\ importReply'[i] = importReply[i] /\ importTx'[i] = importTx[i]
  /\ written'[i] = written[i] /\ importCommitted'[i] = importCommitted[i]

-----------------------------------------------------------------------------
LEMMA InitImport == Import!Init => ImportInv
<1> SUFFICES ASSUME Import!Init PROVE ImportInv
  OBVIOUS
<1>1. ImportTypes
  BY ImportAssumption
     DEF Import!Init, ImportTypes, DialogType, TaskType, SessionType, Phases, Imports,
         Import!NoDialog, Import!Statements
<1>2. ASSUME NEW i \in Imports PROVE Keeps(i)
  BY ImportAssumption
     DEF Import!Init, Imports, Keeps, Waits, Wraps, CommitsLast, Counts, Begins
<1> QED BY <1>1, <1>2 DEF ImportInv

\* The other imports stay as they are.
LEMMA OneMoves ==
  ASSUME ImportInv, NEW i \in Imports, ImportTypes', Keeps(i)', started' = started,
         \A j \in Imports \ {i} : Same(j)
  PROVE  ImportInv'
<1>1. ASSUME NEW j \in Imports \ {i} PROVE Keeps(j)'
  BY <1>1 DEF ImportInv, Keeps, Same, Waits, Wraps, CommitsLast, Counts, Begins
<1> QED BY <1>1 DEF ImportInv

LEMMA OneChanges ==
  ASSUME NEW S, NEW T, NEW f \in [S -> T], NEW i \in S, NEW g,
         g = f \/ \E v \in T : g = [f EXCEPT ![i] = v]
  PROVE  g \in [S -> T]
OBVIOUS

\* What the task does.
LEMMA TaskImport ==
  ASSUME ImportInv, NEW i \in Imports, Import!Task(i)
  PROVE  ImportInv'
<1> USE ImportAssumption
    DEF ImportInv, ImportTypes, DialogType, TaskType, SessionType, Phases, Import!Statements,
        Import!uiVars, Import!taskVars, Import!dbVars, Import!Goto, Import!Sends,
        Import!Failed, Import!Ends
<1>1. CASE Import!OpenSession(i)
  <2>1. ImportTypes'
    <3>1. DialogType'
      BY <1>1 DEF Import!OpenSession
    <3>2. TaskType'
      <4>1. importPc' \in [Imports -> Phases]
        <5>1. \E phase \in {"sending", "over"} : importPc' = [importPc EXCEPT ![i] = phase]
          BY <1>1 DEF Import!OpenSession
        <5> QED BY <5>1
      <4>2. importAsk' \in [Imports -> Import!Statements]
        <5>1. importAsk \in [Imports -> Import!Statements]
          OBVIOUS
        <5>2. importAsk' = importAsk \/ \E v \in Import!Statements : importAsk' = [importAsk EXCEPT ![i] = v]
          BY <1>1 DEF Import!OpenSession
        <5> QED BY <5>1, <5>2, OneChanges
      <4>3. importVerdict' \in [Imports -> {"none", "ok", "err"}]
        <5>1. importVerdict \in [Imports -> {"none", "ok", "err"}]
          OBVIOUS
        <5>2. importVerdict' = importVerdict \/ \E v \in {"none", "ok", "err"} : importVerdict' = [importVerdict EXCEPT ![i] = v]
          BY <1>1 DEF Import!OpenSession
        <5> QED BY <5>1, <5>2, OneChanges
      <4> QED BY <4>1, <4>2, <4>3, <1>1 DEF Import!OpenSession
    <3>3. SessionType'
      BY <1>1 DEF Import!OpenSession
    <3> QED BY <3>1, <3>2, <3>3
  <2>2. Waits(i)' /\ Wraps(i)'
    BY <1>1 DEF Import!OpenSession, Keeps, Waits, Wraps
  <2>3. CommitsLast(i)' /\ Begins(i)'
    BY <1>1 DEF Import!OpenSession, Keeps, Waits, Wraps, CommitsLast, Begins
  <2>4. Counts(i)'
    BY <1>1 DEF Import!OpenSession, Keeps, Waits, Wraps, CommitsLast, Counts
  <2>5. started' = started /\ \A j \in Imports \ {i} : Same(j)
    BY <1>1 DEF Import!OpenSession, Same
  <2> QED BY <2>1, <2>2, <2>3, <2>4, <2>5, OneMoves DEF Keeps
<1>2. CASE Import!ReadRow(i)
  <2>1. ImportTypes'
    <3>1. DialogType'
      BY <1>2 DEF Import!ReadRow
    <3>2. TaskType'
      <4>1. importPc' \in [Imports -> Phases]
        <5>1. importPc \in [Imports -> Phases]
          OBVIOUS
        <5>2. importPc' = importPc \/ \E v \in Phases : importPc' = [importPc EXCEPT ![i] = v]
          BY <1>2 DEF Import!ReadRow
        <5> QED BY <5>1, <5>2, OneChanges
      <4>2. importAsk' \in [Imports -> Import!Statements]
        <5>1. importAsk \in [Imports -> Import!Statements]
          OBVIOUS
        <5>2. importAsk' = importAsk \/ \E v \in Import!Statements : importAsk' = [importAsk EXCEPT ![i] = v]
          BY <1>2 DEF Import!ReadRow
        <5> QED BY <5>1, <5>2, OneChanges
      <4>3. left' \in [Imports -> Nat]
        BY <1>2 DEF Import!ReadRow
      <4>4. batch' \in [Imports -> Nat]
        BY <1>2 DEF Import!ReadRow
      <4> QED BY <4>1, <4>2, <4>3, <4>4, <1>2 DEF Import!ReadRow
    <3>3. SessionType'
      BY <1>2 DEF Import!ReadRow
    <3> QED BY <3>1, <3>2, <3>3
  <2>2. Waits(i)' /\ Wraps(i)'
    BY <1>2 DEF Import!ReadRow, Keeps, Waits, Wraps
  <2>3. CommitsLast(i)' /\ Begins(i)'
    BY <1>2 DEF Import!ReadRow, Keeps, Waits, Wraps, CommitsLast, Begins
  <2>4. Counts(i)'
    <3>1. /\ left'[i] = left[i] - 1 /\ batch'[i] = batch[i] + 1 /\ left[i] > 0
          /\ importPc[i] = "reading"
          /\ UNCHANGED <<importDone, written, importCommitted, importRunning>>
      BY <1>2 DEF Import!ReadRow
    <3>2. CASE batch'[i] = BatchRows
      <4>1. importPc'[i] = "sending" /\ importAsk'[i] = "insert"
        BY <1>2, <3>2 DEF Import!ReadRow
      <4> QED BY <3>1, <3>2, <4>1 DEF Keeps, Counts
    <3>3. CASE batch'[i] # BatchRows
      <4>1. UNCHANGED <<importPc, importAsk>>
        BY <1>2, <3>3 DEF Import!ReadRow
      <4> QED BY <3>1, <3>3, <4>1 DEF Keeps, Counts
    <3> QED BY <3>2, <3>3
  <2>5. started' = started /\ \A j \in Imports \ {i} : Same(j)
    BY <1>2 DEF Import!ReadRow, Same
  <2> QED BY <2>1, <2>2, <2>3, <2>4, <2>5, OneMoves DEF Keeps
<1>3. CASE Import!EndOfFile(i)
  <2>1. ImportTypes'
    <3>1. DialogType'
      BY <1>3 DEF Import!EndOfFile
    <3>2. TaskType'
      BY <1>3 DEF Import!EndOfFile
    <3>3. SessionType'
      BY <1>3 DEF Import!EndOfFile
    <3> QED BY <3>1, <3>2, <3>3
  <2>2. Waits(i)' /\ Wraps(i)'
    BY <1>3 DEF Import!EndOfFile, Keeps, Waits, Wraps
  <2>3. CommitsLast(i)' /\ Begins(i)'
    BY <1>3 DEF Import!EndOfFile, Keeps, Waits, Wraps, CommitsLast, Begins
  <2>4. Counts(i)'
    BY <1>3 DEF Import!EndOfFile, Keeps, Waits, Wraps, CommitsLast, Counts
  <2>5. started' = started /\ \A j \in Imports \ {i} : Same(j)
    BY <1>3 DEF Import!EndOfFile, Same
  <2> QED BY <2>1, <2>2, <2>3, <2>4, <2>5, OneMoves DEF Keeps
<1>4. CASE Import!ReadFails(i)
  <2>1. ImportTypes'
    <3>1. DialogType'
      BY <1>4 DEF Import!ReadFails
    <3>2. TaskType'
      <4>1. importPc' \in [Imports -> Phases]
        <5>1. importPc \in [Imports -> Phases]
          OBVIOUS
        <5>2. importPc' = importPc \/ \E v \in Phases : importPc' = [importPc EXCEPT ![i] = v]
          BY <1>4 DEF Import!ReadFails
        <5> QED BY <5>1, <5>2, OneChanges
      <4>2. importAsk' \in [Imports -> Import!Statements]
        <5>1. importAsk \in [Imports -> Import!Statements]
          OBVIOUS
        <5>2. importAsk' = importAsk \/ \E v \in Import!Statements : importAsk' = [importAsk EXCEPT ![i] = v]
          BY <1>4 DEF Import!ReadFails
        <5> QED BY <5>1, <5>2, OneChanges
      <4>3. importVerdict' \in [Imports -> {"none", "ok", "err"}]
        <5>1. importVerdict \in [Imports -> {"none", "ok", "err"}]
          OBVIOUS
        <5>2. importVerdict' = importVerdict \/ \E v \in {"none", "ok", "err"} : importVerdict' = [importVerdict EXCEPT ![i] = v]
          BY <1>4 DEF Import!ReadFails
        <5> QED BY <5>1, <5>2, OneChanges
      <4> QED BY <4>1, <4>2, <4>3, <1>4 DEF Import!ReadFails
    <3>3. SessionType'
      BY <1>4 DEF Import!ReadFails
    <3> QED BY <3>1, <3>2, <3>3
  <2>2. Waits(i)' /\ Wraps(i)'
    BY <1>4 DEF Import!ReadFails, Keeps, Waits, Wraps
  <2>3. CommitsLast(i)' /\ Begins(i)'
    BY <1>4 DEF Import!ReadFails, Keeps, Waits, Wraps, CommitsLast, Begins
  <2>4. Counts(i)'
    BY <1>4 DEF Import!ReadFails, Keeps, Waits, Wraps, CommitsLast, Counts
  <2>5. started' = started /\ \A j \in Imports \ {i} : Same(j)
    BY <1>4 DEF Import!ReadFails, Same
  <2> QED BY <2>1, <2>2, <2>3, <2>4, <2>5, OneMoves DEF Keeps
<1>5. CASE Import!Send(i)
  <2>1. ImportTypes'
    <3>1. DialogType'
      BY <1>5 DEF Import!Send
    <3>2. TaskType'
      BY <1>5 DEF Import!Send
    <3>3. SessionType'
      BY <1>5 DEF Import!Send
    <3> QED BY <3>1, <3>2, <3>3
  <2>2. Waits(i)' /\ Wraps(i)'
    BY <1>5 DEF Import!Send, Keeps, Waits, Wraps
  <2>3. CommitsLast(i)' /\ Begins(i)'
    BY <1>5 DEF Import!Send, Keeps, Waits, Wraps, CommitsLast, Begins
  <2>4. Counts(i)'
    BY <1>5 DEF Import!Send, Keeps, Waits, Wraps, CommitsLast, Counts
  <2>5. started' = started /\ \A j \in Imports \ {i} : Same(j)
    BY <1>5 DEF Import!Send, Same
  <2> QED BY <2>1, <2>2, <2>3, <2>4, <2>5, OneMoves DEF Keeps
<1>6. CASE Import!Refused(i)
  <2>1. ImportTypes'
    <3>1. DialogType'
      BY <1>6 DEF Import!Refused
    <3>2. TaskType'
      <4>1. importPc' \in [Imports -> Phases]
        <5>1. importPc \in [Imports -> Phases]
          OBVIOUS
        <5>2. importPc' = importPc \/ \E v \in Phases : importPc' = [importPc EXCEPT ![i] = v]
          BY <1>6 DEF Import!Refused
        <5> QED BY <5>1, <5>2, OneChanges
      <4>2. importAsk' \in [Imports -> Import!Statements]
        <5>1. importAsk \in [Imports -> Import!Statements]
          OBVIOUS
        <5>2. importAsk' = importAsk \/ \E v \in Import!Statements : importAsk' = [importAsk EXCEPT ![i] = v]
          BY <1>6 DEF Import!Refused
        <5> QED BY <5>1, <5>2, OneChanges
      <4>3. importVerdict' \in [Imports -> {"none", "ok", "err"}]
        <5>1. importVerdict \in [Imports -> {"none", "ok", "err"}]
          OBVIOUS
        <5>2. importVerdict' = importVerdict \/ \E v \in {"none", "ok", "err"} : importVerdict' = [importVerdict EXCEPT ![i] = v]
          BY <1>6 DEF Import!Refused
        <5> QED BY <5>1, <5>2, OneChanges
      <4> QED BY <4>1, <4>2, <4>3, <1>6 DEF Import!Refused
    <3>3. SessionType'
      BY <1>6 DEF Import!Refused
    <3> QED BY <3>1, <3>2, <3>3
  <2>2. Waits(i)' /\ Wraps(i)'
    BY <1>6 DEF Import!Refused, Keeps, Waits, Wraps
  <2>3. CommitsLast(i)' /\ Begins(i)'
    BY <1>6 DEF Import!Refused, Keeps, Waits, Wraps, CommitsLast, Begins
  <2>4. Counts(i)'
    BY <1>6 DEF Import!Refused, Keeps, Waits, Wraps, CommitsLast, Counts
  <2>5. started' = started /\ \A j \in Imports \ {i} : Same(j)
    BY <1>6 DEF Import!Refused, Same
  <2> QED BY <2>1, <2>2, <2>3, <2>4, <2>5, OneMoves DEF Keeps
<1>7. CASE Import!Answer(i)
  <2>1. ImportTypes'
    <3>1. DialogType'
      BY <1>7 DEF Import!Answer
    <3>2. TaskType'
      <4>1. importPc' \in [Imports -> Phases]
        <5>1. \E phase \in {"reading", "sending", "closing"} : importPc' = [importPc EXCEPT ![i] = phase]
          BY <1>7 DEF Import!Answer
        <5> QED BY <5>1
      <4>2. importAsk' \in [Imports -> Import!Statements]
        <5>1. importAsk \in [Imports -> Import!Statements]
          OBVIOUS
        <5>2. importAsk' = importAsk \/ \E v \in Import!Statements : importAsk' = [importAsk EXCEPT ![i] = v]
          BY <1>7 DEF Import!Answer
        <5> QED BY <5>1, <5>2, OneChanges
      <4>3. importVerdict' \in [Imports -> {"none", "ok", "err"}]
        <5>1. importVerdict \in [Imports -> {"none", "ok", "err"}]
          OBVIOUS
        <5>2. importVerdict' = importVerdict \/ \E v \in {"none", "ok", "err"} : importVerdict' = [importVerdict EXCEPT ![i] = v]
          BY <1>7 DEF Import!Answer
        <5> QED BY <5>1, <5>2, OneChanges
      <4>4. batch' \in [Imports -> Nat]
        BY <1>7 DEF Import!Answer
      <4>5. importDone' \in [Imports -> Nat]
        BY <1>7 DEF Import!Answer
      <4> QED BY <4>1, <4>2, <4>3, <4>4, <4>5, <1>7 DEF Import!Answer
    <3>3. SessionType'
      BY <1>7 DEF Import!Answer
    <3> QED BY <3>1, <3>2, <3>3
  <2>2. Waits(i)' /\ Wraps(i)'
    BY <1>7 DEF Import!Answer, Keeps, Waits, Wraps
  <2>3. CommitsLast(i)' /\ Begins(i)'
    BY <1>7 DEF Import!Answer, Keeps, Waits, Wraps, CommitsLast, Begins
  <2>4. Counts(i)'
    BY <1>7 DEF Import!Answer, Keeps, Waits, Wraps, CommitsLast, Counts
  <2>5. started' = started /\ \A j \in Imports \ {i} : Same(j)
    BY <1>7 DEF Import!Answer, Same
  <2> QED BY <2>1, <2>2, <2>3, <2>4, <2>5, OneMoves DEF Keeps
<1>8. CASE Import!LoseAnswer(i)
  <2>1. ImportTypes'
    <3>1. DialogType'
      BY <1>8 DEF Import!LoseAnswer
    <3>2. TaskType'
      <4>1. importPc' \in [Imports -> Phases]
        <5>1. importPc \in [Imports -> Phases]
          OBVIOUS
        <5>2. importPc' = importPc \/ \E v \in Phases : importPc' = [importPc EXCEPT ![i] = v]
          BY <1>8 DEF Import!LoseAnswer
        <5> QED BY <5>1, <5>2, OneChanges
      <4>2. importAsk' \in [Imports -> Import!Statements]
        <5>1. importAsk \in [Imports -> Import!Statements]
          OBVIOUS
        <5>2. importAsk' = importAsk \/ \E v \in Import!Statements : importAsk' = [importAsk EXCEPT ![i] = v]
          BY <1>8 DEF Import!LoseAnswer
        <5> QED BY <5>1, <5>2, OneChanges
      <4>3. importVerdict' \in [Imports -> {"none", "ok", "err"}]
        <5>1. importVerdict \in [Imports -> {"none", "ok", "err"}]
          OBVIOUS
        <5>2. importVerdict' = importVerdict \/ \E v \in {"none", "ok", "err"} : importVerdict' = [importVerdict EXCEPT ![i] = v]
          BY <1>8 DEF Import!LoseAnswer
        <5> QED BY <5>1, <5>2, OneChanges
      <4> QED BY <4>1, <4>2, <4>3, <1>8 DEF Import!LoseAnswer
    <3>3. SessionType'
      BY <1>8 DEF Import!LoseAnswer
    <3> QED BY <3>1, <3>2, <3>3
  <2>2. Waits(i)' /\ Wraps(i)'
    BY <1>8 DEF Import!LoseAnswer, Keeps, Waits, Wraps
  <2>3. CommitsLast(i)' /\ Begins(i)'
    BY <1>8 DEF Import!LoseAnswer, Keeps, Waits, Wraps, CommitsLast, Begins
  <2>4. Counts(i)'
    BY <1>8 DEF Import!LoseAnswer, Keeps, Waits, Wraps, CommitsLast, Counts
  <2>5. started' = started /\ \A j \in Imports \ {i} : Same(j)
    BY <1>8 DEF Import!LoseAnswer, Same
  <2> QED BY <2>1, <2>2, <2>3, <2>4, <2>5, OneMoves DEF Keeps
<1>9. CASE Import!Close(i)
  <2>1. ImportTypes'
    <3>1. DialogType'
      BY <1>9 DEF Import!Close
    <3>2. TaskType'
      BY <1>9 DEF Import!Close
    <3>3. SessionType'
      BY <1>9 DEF Import!Close
    <3> QED BY <3>1, <3>2, <3>3
  <2>2. Waits(i)' /\ Wraps(i)'
    BY <1>9 DEF Import!Close, Keeps, Waits, Wraps
  <2>3. CommitsLast(i)' /\ Begins(i)'
    BY <1>9 DEF Import!Close, Keeps, Waits, Wraps, CommitsLast, Begins
  <2>4. Counts(i)'
    BY <1>9 DEF Import!Close, Keeps, Waits, Wraps, CommitsLast, Counts
  <2>5. started' = started /\ \A j \in Imports \ {i} : Same(j)
    BY <1>9 DEF Import!Close, Same
  <2> QED BY <2>1, <2>2, <2>3, <2>4, <2>5, OneMoves DEF Keeps
<1> QED BY <1>1, <1>2, <1>3, <1>4, <1>5, <1>6, <1>7, <1>8, <1>9 DEF Import!Task

\* What the service and the database do.
LEMMA ServiceImport ==
  ASSUME ImportInv, NEW i \in Imports, Import!Service(i)
  PROVE  ImportInv'
<1> USE ImportAssumption
    DEF ImportInv, ImportTypes, DialogType, TaskType, SessionType, Phases, Import!Statements,
        Import!uiVars, Import!taskVars, Import!dbVars, Import!Goto, Import!Sends,
        Import!Failed, Import!Ends
<1>1. ASSUME Import!Executes(i) PROVE ImportInv'
  <2> DEFINE s == importRunning[i]
  <2> DEFINE effect(held, rows, ends) ==
        /\ importTx' = [importTx EXCEPT ![i] = held]
        /\ written' = [written EXCEPT ![i] = rows]
        /\ importCommitted' = [importCommitted EXCEPT ![i] = ends]
  <2>0. /\ s \in {"begin", "insert", "commit", "rollback"}
        /\ importRunning' = [importRunning EXCEPT ![i] = "none"]
        /\ importReply' = [importReply EXCEPT ![i] =
                             IF importPc[i] = "waiting" THEN "ok" ELSE "none"]
        /\ UNCHANGED <<Import!uiVars, Import!taskVars, importSession>>
    BY <1>1 DEF Import!Executes
  <2>1. importTx[i] = TRUE \/ s # "insert"
    BY DEF Keeps, Wraps
  <2>2. effect(IF s = "begin" THEN TRUE ELSE IF s = "insert" THEN importTx[i] ELSE FALSE,
               IF s = "begin" THEN written[i]
               ELSE IF s = "insert" THEN written[i] + batch[i] ELSE 0,
               IF s = "commit" THEN importCommitted[i] + written[i] ELSE importCommitted[i])
    <3>1. CASE s = "begin"
      <4>1. importTx' = [importTx EXCEPT ![i] = TRUE] /\ UNCHANGED <<written, importCommitted>>
        BY <1>1, <3>1 DEF Import!Executes
      <4> QED BY <3>1, <4>1
    <3>2. CASE s = "insert"
      <4>1. /\ written' = [written EXCEPT ![i] = @ + batch[i]]
            /\ UNCHANGED <<importTx, importCommitted>>
        BY <1>1, <2>1, <3>2 DEF Import!Executes
      <4> QED BY <3>2, <4>1
    <3>3. CASE s = "commit"
      <4>1. /\ importCommitted' = [importCommitted EXCEPT ![i] = @ + written[i]]
            /\ written' = [written EXCEPT ![i] = 0]
            /\ importTx' = [importTx EXCEPT ![i] = FALSE]
        BY <1>1, <3>3 DEF Import!Executes
      <4> QED BY <3>3, <4>1
    <3>4. CASE s = "rollback"
      <4>1. /\ written' = [written EXCEPT ![i] = 0]
            /\ importTx' = [importTx EXCEPT ![i] = FALSE]
            /\ UNCHANGED importCommitted
        BY <1>1, <3>4 DEF Import!Executes
      <4> QED BY <3>4, <4>1
    <3> QED BY <2>0, <3>1, <3>2, <3>3, <3>4
  <2>5. ImportTypes'
    <3>1. DialogType' /\ TaskType'
      BY <2>0
    <3>2. SessionType'
      <4>1. importTx' \in [Imports -> BOOLEAN]
        <5>1. importTx \in [Imports -> BOOLEAN]
          OBVIOUS
        <5>2. importTx' = importTx \/ \E v \in BOOLEAN : importTx' = [importTx EXCEPT ![i] = v]
          BY <2>2
        <5> QED BY <5>1, <5>2, OneChanges
      <4>2. written' \in [Imports -> Nat]
        BY <2>2
      <4>3. importCommitted' \in [Imports -> Nat]
        BY <2>2
      <4> QED BY <2>0, <4>1, <4>2, <4>3
    <3> QED BY <3>1, <3>2
  <2>6. Waits(i)' /\ Wraps(i)'
    BY <2>0, <2>2 DEF Keeps, Waits, Wraps
  <2>7. CommitsLast(i)' /\ Begins(i)'
    BY <2>0, <2>2 DEF Keeps, Waits, Wraps, CommitsLast, Begins
  <2>8. Counts(i)'
    BY <2>0, <2>2 DEF Keeps, Waits, Wraps, CommitsLast, Counts
  <2>9. started' = started /\ \A j \in Imports \ {i} : Same(j)
    BY <2>0, <2>2 DEF Same
  <2> QED BY <2>5, <2>6, <2>7, <2>8, <2>9, OneMoves DEF Keeps
<1>2. CASE Import!Errs(i)
  <2>1. ImportTypes'
    <3>1. DialogType'
      BY <1>2 DEF Import!Errs
    <3>2. TaskType'
      BY <1>2 DEF Import!Errs
    <3>3. SessionType'
      <4>1. importRunning' \in [Imports -> Import!Statements]
        BY <1>2 DEF Import!Errs
      <4>2. importReply' \in [Imports -> {"none", "ok", "err"}]
        BY <1>2 DEF Import!Errs
      <4>3. importTx' \in [Imports -> BOOLEAN]
        <5>1. importTx \in [Imports -> BOOLEAN]
          OBVIOUS
        <5>2. importTx' = importTx \/ \E v \in BOOLEAN : importTx' = [importTx EXCEPT ![i] = v]
          BY <1>2 DEF Import!Errs
        <5> QED BY <5>1, <5>2, OneChanges
      <4>4. written' \in [Imports -> Nat]
        BY <1>2 DEF Import!Errs
      <4> QED BY <4>1, <4>2, <4>3, <4>4, <1>2 DEF Import!Errs
    <3> QED BY <3>1, <3>2, <3>3
  <2>2. Waits(i)' /\ Wraps(i)'
    BY <1>2 DEF Import!Errs, Keeps, Waits, Wraps
  <2>3. CommitsLast(i)' /\ Begins(i)'
    BY <1>2 DEF Import!Errs, Keeps, Waits, Wraps, CommitsLast, Begins
  <2>4. Counts(i)'
    BY <1>2 DEF Import!Errs, Keeps, Waits, Wraps, CommitsLast, Counts
  <2>5. started' = started /\ \A j \in Imports \ {i} : Same(j)
    BY <1>2 DEF Import!Errs, Same
  <2> QED BY <2>1, <2>2, <2>3, <2>4, <2>5, OneMoves DEF Keeps
<1>3. CASE Import!Reap(i)
  <2>1. ImportTypes'
    <3>1. DialogType'
      BY <1>3 DEF Import!Reap
    <3>2. TaskType'
      BY <1>3 DEF Import!Reap
    <3>3. SessionType'
      BY <1>3 DEF Import!Reap
    <3> QED BY <3>1, <3>2, <3>3
  <2>2. Waits(i)' /\ Wraps(i)'
    BY <1>3 DEF Import!Reap, Keeps, Waits, Wraps
  <2>3. CommitsLast(i)' /\ Begins(i)'
    BY <1>3 DEF Import!Reap, Keeps, Waits, Wraps, CommitsLast, Begins
  <2>4. Counts(i)'
    BY <1>3 DEF Import!Reap, Keeps, Waits, Wraps, CommitsLast, Counts
  <2>5. started' = started /\ \A j \in Imports \ {i} : Same(j)
    BY <1>3 DEF Import!Reap, Same
  <2> QED BY <2>1, <2>2, <2>3, <2>4, <2>5, OneMoves DEF Keeps
<1>4. CASE Import!Undo(i)
  <2>1. ImportTypes'
    <3>1. DialogType'
      BY <1>4 DEF Import!Undo
    <3>2. TaskType'
      BY <1>4 DEF Import!Undo
    <3>3. SessionType'
      BY <1>4 DEF Import!Undo
    <3> QED BY <3>1, <3>2, <3>3
  <2>2. Waits(i)' /\ Wraps(i)'
    BY <1>4 DEF Import!Undo, Keeps, Waits, Wraps
  <2>3. CommitsLast(i)' /\ Begins(i)'
    BY <1>4 DEF Import!Undo, Keeps, Waits, Wraps, CommitsLast, Begins
  <2>4. Counts(i)'
    BY <1>4 DEF Import!Undo, Keeps, Waits, Wraps, CommitsLast, Counts
  <2>5. started' = started /\ \A j \in Imports \ {i} : Same(j)
    BY <1>4 DEF Import!Undo, Same
  <2> QED BY <2>1, <2>2, <2>3, <2>4, <2>5, OneMoves DEF Keeps
<1> QED BY <1>1, <1>2, <1>3, <1>4 DEF Import!Service


\* What happens in the dialog.
LEMMA DialogImport ==
  ASSUME ImportInv, Import!Dialog
  PROVE  ImportInv'
<1> USE ImportAssumption
    DEF ImportInv, ImportTypes, Imports, Import!taskVars, Import!dbVars
<1>1. ASSUME NEW t \in Tables, Import!OpenDialog(t) PROVE ImportInv'
  <2>1. DialogType'
    <3>1. dialog' = [table |-> t, columns |-> Nothing, busy |-> FALSE, result |-> "none",
                     mine |-> 0]
      BY <1>1 DEF Import!OpenDialog, Import!NoDialog
    <3>2. asking' \in [Tables -> Nat]
      BY <1>1 DEF Import!OpenDialog, DialogType
    <3>3. ASSUME NEW u \in Tables PROVE asking'[u] <= openings'
      <4>1. asking[u] \in Nat /\ asking[u] <= openings /\ openings' = openings + 1
        BY <1>1 DEF Import!OpenDialog, DialogType
      <4>2. asking'[u] \in {asking[u], asking[u] + 1}
        BY <1>1 DEF Import!OpenDialog, DialogType
      <4> QED BY <4>1, <4>2 DEF DialogType
    <3>4. openings' \in 0 .. MaxOpenings /\ started' \in 0 .. MaxImports
      BY <1>1 DEF Import!OpenDialog, DialogType
    <3>5. dialog' \in [table : Tables \cup {Nothing}, columns : Tables \cup {Nothing, "failed"},
                       busy : BOOLEAN, result : {"none", "ok", "err"}, mine : Nat]
          /\ dialog'.mine = 0
      BY <3>1
    <3> QED BY <3>2, <3>3, <3>4, <3>5 DEF DialogType
  <2>2. TaskType' /\ SessionType'
    BY <1>1 DEF Import!OpenDialog, TaskType, SessionType
  <2> QED BY <1>1, <2>1, <2>2
          DEF Import!OpenDialog, Keeps, Waits, Wraps, CommitsLast, Counts, Begins
<1>2. ASSUME NEW t \in Tables, NEW answer \in {t, "failed"}, Import!ColumnsArrive(t, answer)
      PROVE  ImportInv'
  <2>1. DialogType'
    BY <1>2 DEF Import!ColumnsArrive, DialogType
  <2>2. TaskType' /\ SessionType'
    BY <1>2 DEF Import!ColumnsArrive, TaskType, SessionType
  <2> QED BY <1>2, <2>1, <2>2
          DEF Import!ColumnsArrive, Keeps, Waits, Wraps, CommitsLast, Counts, Begins
<1>3. ASSUME NEW n \in 0 .. MaxRows, Import!StartImport(n) PROVE ImportInv'
  <2> PICK i \in Imports : i = started + 1
    BY <1>3 DEF Import!StartImport, DialogType, Import!Imports
  <2>1. i \in Nat /\ started' = i /\ importPc[i] = "new" /\ started \in Nat
    BY <1>3 DEF Import!StartImport, DialogType, Keeps, Begins
  <2>2. DialogType'
    <3>1. dialog' = [dialog EXCEPT !.busy = TRUE, !.result = "none", !.mine = i]
          /\ UNCHANGED <<openings, asking>>
      BY <1>3, <2>1 DEF Import!StartImport
    <3>2. dialog' \in [table : Tables \cup {Nothing}, columns : Tables \cup {Nothing, "failed"},
                       busy : BOOLEAN, result : {"none", "ok", "err"}, mine : Nat]
          /\ dialog'.mine = i
      BY <2>1, <3>1 DEF DialogType
    <3> QED BY <2>1, <3>1, <3>2 DEF DialogType, Import!Imports
  <2>3. TaskType' /\ SessionType'
    BY <1>3, <2>1 DEF Import!StartImport, DialogType, TaskType, SessionType, Phases
  <2>4. importPc'[i] = "opening" /\ left'[i] = n
    BY <1>3, <2>1 DEF Import!StartImport, TaskType
  <2>5. UNCHANGED <<importAsk, batch, importDone, Import!dbVars>>
    BY <1>3 DEF Import!StartImport
  <2>6. Keeps(i)'
    <3>1. /\ importReply[i] = "none" /\ importRunning[i] = "none" /\ importCommitted[i] = 0
          /\ importDone[i] = 0 /\ batch[i] = 0 /\ written[i] <= 0
      BY <2>1 DEF TaskType, SessionType, Keeps, Waits, Wraps, CommitsLast, Counts
    <3>2. Waits(i)' /\ Wraps(i)' /\ CommitsLast(i)' /\ Begins(i)'
      BY <2>1, <2>4, <2>5, <3>1 DEF Waits, Wraps, CommitsLast, Begins
    <3>3. Counts(i)'
      BY <2>1, <2>4, <2>5, <3>1 DEF SessionType, Counts
    <3> QED BY <3>2, <3>3 DEF Keeps
  <2>7. ASSUME NEW j \in Imports \ {i} PROVE Keeps(j)'
    <3>1. importPc'[j] = importPc[j] /\ left'[j] = left[j]
      BY <1>3, <2>1 DEF Import!StartImport, TaskType
    <3>2. j > i => j > started
      BY DEF DialogType, Import!Imports
    <3> QED BY <2>1, <2>5, <3>1, <3>2
            DEF Keeps, Waits, Wraps, CommitsLast, Counts, Begins
  <2>8. \A j \in Imports : Keeps(j)'
    BY <2>6, <2>7
  <2> QED BY <2>2, <2>3, <2>8
<1>4. CASE Import!CloseDialog \/ Import!OtherDialog
  <2>1. DialogType'
    <3>1. dialog' = Import!NoDialog /\ UNCHANGED <<openings, asking, started>>
      BY <1>4 DEF Import!CloseDialog, Import!OtherDialog
    <3> QED BY <3>1 DEF DialogType, Import!NoDialog
  <2>2. TaskType' /\ SessionType'
    BY <1>4 DEF Import!CloseDialog, Import!OtherDialog, TaskType, SessionType
  <2> QED BY <1>4, <2>1, <2>2
          DEF Import!CloseDialog, Import!OtherDialog, Keeps, Waits, Wraps, CommitsLast, Counts, Begins
<1>5. CASE Import!Quit
  <2>1. DialogType'
    BY <1>5 DEF Import!Quit, DialogType, Import!NoDialog
  <2>2. TaskType' /\ SessionType'
    BY <1>5 DEF Import!Quit, TaskType, SessionType, Phases
  <2>3. ASSUME NEW i \in Imports PROVE Keeps(i)'
    <3>1. importPc'[i] = "killed" /\ importReply'[i] = "none" /\ started' = MaxImports
      BY <1>5 DEF Import!Quit
    <3>2. UNCHANGED <<importAsk, left, batch, importDone, importRunning, importTx, written,
                      importCommitted>>
      BY <1>5 DEF Import!Quit
    <3>3. Counts(i)'
      BY <3>1, <3>2 DEF Keeps, Counts
    <3>4. Waits(i)' /\ Wraps(i)' /\ CommitsLast(i)'
      BY <3>1, <3>2 DEF Keeps, Waits, Wraps, CommitsLast
    <3>5. Begins(i)'
      BY <3>1 DEF Import!Imports, Begins
    <3> QED BY <3>3, <3>4, <3>5 DEF Keeps
  <2> QED BY <2>1, <2>2, <2>3
<1> QED BY <1>1, <1>2, <1>3, <1>4, <1>5 DEF Import!Dialog

LEMMA StepImport == ImportInv /\ [Import!Next]_(Import!vars) => ImportInv'
<1> SUFFICES ASSUME ImportInv, [Import!Next]_(Import!vars) PROVE ImportInv'
  OBVIOUS
<1> USE DEF ImportInv, ImportTypes
<1>1. ASSUME NEW i \in Imports, Import!ImportDone(i) PROVE ImportInv'
  <2>1. DialogType'
    BY <1>1 DEF Import!ImportDone, DialogType, TaskType
  <2>2. TaskType' /\ SessionType'
    BY <1>1 DEF Import!ImportDone, Import!dbVars, TaskType, SessionType
  <2> QED BY <1>1, <2>1, <2>2
          DEF Import!ImportDone, Import!dbVars, Keeps, Waits, Wraps, CommitsLast, Counts, Begins
<1>2. ASSUME NEW i \in Imports, Import!SessionEnds(i) PROVE ImportInv'
  <2>1. DialogType' /\ TaskType' /\ SessionType'
    BY <1>2 DEF Import!SessionEnds, Import!uiVars, Import!taskVars, DialogType, TaskType,
                SessionType
  <2>2. Keeps(i)'
    BY <1>2 DEF Import!SessionEnds, Import!uiVars, Import!taskVars, SessionType,
                Keeps, Waits, Wraps, CommitsLast, Counts, Begins
  <2>3. started' = started /\ \A j \in Imports \ {i} : Same(j)
    BY <1>2 DEF Import!SessionEnds, Import!uiVars, Import!taskVars, SessionType, Same
  <2> QED BY <2>1, <2>2, <2>3, OneMoves
<1>3. CASE UNCHANGED Import!vars
  BY <1>3 DEF Import!vars, Import!uiVars, Import!taskVars, Import!dbVars, DialogType, TaskType,
              SessionType, Keeps, Waits, Wraps, CommitsLast, Counts, Begins
<1> QED BY <1>1, <1>2, <1>3, DialogImport, TaskImport, ServiceImport DEF Import!Next, Imports

\* The inductive invariant of an import: the rows in hand, sent and inserted add
\* up to what was read, and COMMIT is sent after the last (import_csv).
THEOREM ImportInvHolds == Import!Spec => []ImportInv
BY InitImport, StepImport, PTL DEF Import!Spec

\* Type correctness of an import, its statements no longer than the engine
\* takes.
THEOREM ImportType == Import!Spec => []Import!TypeOK
<1>1. ImportInv => Import!TypeOK
  <2> SUFFICES ASSUME ImportInv PROVE Import!TypeOK
    OBVIOUS
  <2> USE ImportAssumption DEF ImportInv, ImportTypes, Imports
  <2>1. /\ left \in [Imports -> 0 .. MaxRows] /\ batch \in [Imports -> 0 .. BatchRows]
        /\ importDone \in [Imports -> 0 .. MaxRows] /\ written \in [Imports -> 0 .. MaxRows]
        /\ importCommitted \in [Imports -> 0 .. MaxRows]
    BY DEF Keeps, Counts, TaskType, SessionType
  <2>2. dialog \in [table : Tables \cup {Nothing}, columns : Tables \cup {Nothing, "failed"},
                    busy : BOOLEAN, result : {"none", "ok", "err"}, mine : 0 .. started]
    BY DEF DialogType
  <2>3. asking \in [Tables -> 0 .. openings]
    BY DEF DialogType
  <2> QED BY <2>1, <2>2, <2>3
          DEF DialogType, TaskType, SessionType, Phases, Import!TypeOK
<1> QED BY <1>1, ImportInvHolds, PTL

\* An import changes its table once, when every row of the file was sent,
\* whatever failed, was lost or ended meanwhile.
THEOREM AllOrNothingHolds == Import!Spec => AllOrNothing
<1> DEFINE A == \A i \in Import!Imports : importCommitted'[i] # importCommitted[i] =>
                  importCommitted[i] = 0 /\ left[i] = 0 /\ batch[i] = 0
<1>1. ImportInv /\ [Import!Next]_(Import!vars) => [A]_(Import!vars)
  <2> SUFFICES ASSUME ImportInv, Import!Next PROVE A
    OBVIOUS
  <2>1. ASSUME NEW i \in Imports, Import!Executes(i) PROVE A
    <3> USE <2>1 DEF Import!Executes
    <3>1. CASE importRunning[i] = "commit"
      BY <3>1 DEF ImportInv, ImportTypes, SessionType, Keeps, CommitsLast, Imports
    <3>2. CASE importRunning[i] # "commit"
      <4>1. importRunning[i] \in {"begin", "insert", "rollback"}
        BY <3>2 DEF ImportInv, ImportTypes, SessionType, Import!Statements
      <4>2. importRunning[i] = "insert" => importTx[i] = TRUE
        BY DEF ImportInv, ImportTypes, SessionType, Keeps, Wraps
      <4>3. UNCHANGED importCommitted
        BY <4>1, <4>2
      <4> QED BY <4>3
    <3> QED BY <3>1, <3>2
  <2>2. CASE UNCHANGED importCommitted
    BY <2>2
  <2>3. ASSUME NEW i \in Imports, Import!Task(i) \/ Import!ImportDone(i) \/ Import!SessionEnds(i)
        PROVE  UNCHANGED importCommitted
    BY <2>3 DEF Import!Task, Import!OpenSession, Import!ReadRow, Import!EndOfFile,
                Import!ReadFails, Import!Send, Import!Refused, Import!Answer, Import!LoseAnswer,
                Import!Close, Import!ImportDone, Import!SessionEnds, Import!dbVars
  <2>4. ASSUME NEW i \in Imports, Import!Errs(i) \/ Import!Reap(i) \/ Import!Undo(i)
        PROVE  UNCHANGED importCommitted
    BY <2>4 DEF Import!Errs, Import!Reap, Import!Undo
  <2>5. ASSUME Import!Dialog PROVE UNCHANGED importCommitted
    BY <2>5 DEF Import!Dialog, Import!OpenDialog, Import!ColumnsArrive, Import!StartImport,
                Import!CloseDialog, Import!OtherDialog, Import!Quit, Import!dbVars
  <2> QED BY <2>1, <2>2, <2>3, <2>4, <2>5 DEF Import!Next, Import!Service, Imports
<1> QED BY <1>1, ImportInvHolds, PTL DEF Import!Spec, AllOrNothing, Import!AllOrNothing

-----------------------------------------------------------------------------
(* Sequences.  FlattenSeq is defined by recursion; SetInduction, an induction *)
(* over a set of numbers, is what shows that the function it chooses exists. *)

\* Induction over the naturals, for a set.
LEMMA SetInduction ==
  ASSUME NEW S, 0 \in S, \A n \in Nat : n \in S => n + 1 \in S
  PROVE  Nat \subseteq S
<1> DEFINE T == Nat \ S
           R == OpToRel(<, Nat)
<1> SUFFICES ASSUME T # {} PROVE FALSE
  OBVIOUS
<1>1. IsWellFoundedOn(R, Nat)
  BY NatLessThanWellFounded
<1>2. \A x, y \in Nat : x < y => <<x, y>> \in R
  BY DEF OpToRel
<1>3. T \subseteq Nat
  OBVIOUS
<1> HIDE DEF R
<1>4. PICK x \in T : \A y \in T : <<y, x>> \notin R
  <2> HIDE DEF T
  <2> QED BY <1>1, <1>3, WFMin
<1>5. x \in Nat /\ x # 0 /\ x \notin S
  OBVIOUS
<1>6. x - 1 \in Nat /\ x - 1 < x /\ (x - 1) + 1 = x
  BY <1>5
<1>7. x - 1 \in S
  BY <1>2, <1>4, <1>5, <1>6
<1> QED BY <1>5, <1>6, <1>7

\* A flattened sequence is built element by element.
LEMMA FlattenSteps ==
  ASSUME NEW T, NEW s \in Seq(Seq(T))
  PROVE  \E f \in [0 .. Len(s) -> Seq(T)] :
           /\ f[0] = <<>> /\ FlattenSeq(s) = f[Len(s)]
           /\ \A k \in 1 .. Len(s) : f[k] = f[k - 1] \o s[k]
<1>0. Len(s) \in Nat /\ \A k \in 1 .. Len(s) : s[k] \in Seq(T)
  OBVIOUS
<1>1. CASE Len(s) = 0
  <2>1. FlattenSeq(s) = <<>>
    BY <1>1 DEF FlattenSeq
  <2>2. <<>> \in Seq(T)
    OBVIOUS
  <2> DEFINE f == [k \in 0 .. Len(s) |-> <<>>]
  <2>3. f \in [0 .. Len(s) -> Seq(T)] /\ f[0] = <<>> /\ f[Len(s)] = <<>>
    BY <1>1, <2>2
  <2> HIDE DEF f
  <2> QED BY <1>1, <2>1, <2>3
<1>2. CASE Len(s) # 0
  <2> DEFINE n == Len(s)
             At(f, i) == IF i = 1 THEN s[i] ELSE f[i - 1] \o s[i]
             Upto(f, k) == \A i \in 1 .. k : f[i] = At(f, i)
             g == CHOOSE f : f = [i \in 1 .. n |-> IF i = 1 THEN s[i] ELSE f[i - 1] \o s[i]]
             S == {k \in Nat : k <= n => \E f \in [1 .. k -> Seq(T)] : Upto(f, k)}
  <2>0. n \in Nat /\ n # 0 /\ \A i \in 1 .. n : s[i] \in Seq(T)
    BY <1>2
  <2>1. 0 \in S
    <3>1. [i \in 1 .. 0 |-> <<>>] \in [1 .. 0 -> Seq(T)]
      OBVIOUS
    <3>2. Upto([i \in 1 .. 0 |-> <<>>], 0)
      OBVIOUS
    <3> QED BY <3>1, <3>2
  <2>2. ASSUME NEW k \in Nat, k \in S PROVE k + 1 \in S
    <3>0. ASSUME k + 1 <= n
          PROVE  \E f \in [1 .. k + 1 -> Seq(T)] : Upto(f, k + 1)
      <4>0. k <= n
        BY <2>0, <3>0
      <4>1. PICK f \in [1 .. k -> Seq(T)] : Upto(f, k)
        <5> HIDE DEF Upto
        <5> QED BY <4>0, <2>2
      <4> DEFINE last == IF k = 0 THEN s[1] ELSE f[k] \o s[k + 1]
                 h == [i \in 1 .. k + 1 |-> IF i = k + 1 THEN last ELSE f[i]]
      <4>2. last \in Seq(T)
        BY <2>0, <3>0
      <4>3. h \in [1 .. k + 1 -> Seq(T)]
        <5> HIDE DEF last
        <5> QED BY <4>2
      <4>4. ASSUME NEW i \in 1 .. k + 1 PROVE h[i] = At(h, i)
        <5>1. CASE i = k + 1
          <6>1. k # 0 => h[k] = f[k]
            OBVIOUS
          <6>2. h[i] = last
            BY <5>1
          <6> HIDE DEF h
          <6>3. CASE k = 0
            BY <5>1, <6>2, <6>3
          <6>4. CASE k # 0
            <7>1. i # 1 /\ i - 1 = k
              BY <5>1, <6>4
            <7> QED BY <5>1, <6>1, <6>2, <6>4, <7>1
          <6> QED BY <6>3, <6>4
        <5>2. CASE i # k + 1
          <6>1. i \in 1 .. k
            BY <5>2
          <6>2. h[i] = f[i] /\ (i # 1 => h[i - 1] = f[i - 1])
            <7>1. i # 1 => i - 1 \in 1 .. k + 1 /\ i - 1 # k + 1
              BY <6>1
            <7> QED BY <5>2, <6>1, <7>1
          <6>3. f[i] = At(f, i)
            BY <4>1, <6>1
          <6> HIDE DEF h
          <6> QED BY <6>2, <6>3
        <5> QED BY <5>1, <5>2
      <4> HIDE DEF h
      <4> QED BY <4>3, <4>4
    <3> HIDE DEF Upto
    <3> QED BY <3>0
  <2>3. n \in S
    <3> HIDE DEF S
    <3> QED BY <2>0, <2>1, <2>2, SetInduction
  <2>4. PICK f \in [1 .. n -> Seq(T)] : Upto(f, n)
    <3> HIDE DEF Upto
    <3> QED BY <2>0, <2>3
  <2>5. f = [i \in 1 .. n |-> IF i = 1 THEN s[i] ELSE f[i - 1] \o s[i]]
    <3>1. \A i \in 1 .. n : f[i] = IF i = 1 THEN s[i] ELSE f[i - 1] \o s[i]
      BY <2>4, Zenon
    <3> HIDE DEF Upto, At
    <3> QED BY <3>1
  <2>6. g = [i \in 1 .. n |-> IF i = 1 THEN s[i] ELSE g[i - 1] \o s[i]]
    BY <2>5
  <2> DEFINE G == {k \in Nat : k + 1 <= n => g[k + 1] \in Seq(T)}
  <2> HIDE DEF g
  <2>7. 0 \in G
    BY <2>0, <2>6
  <2>8. ASSUME NEW k \in Nat, k \in G PROVE k + 1 \in G
    <3>1. ASSUME (k + 1) + 1 <= n PROVE g[(k + 1) + 1] \in Seq(T)
      <4>1. k + 1 <= n /\ (k + 1) + 1 \in 1 .. n /\ (k + 1) + 1 # 1 /\ ((k + 1) + 1) - 1 = k + 1
        BY <2>0, <3>1
      <4>2. g[k + 1] \in Seq(T)
        BY <2>8, <4>1
      <4>3. g[(k + 1) + 1] = g[k + 1] \o s[(k + 1) + 1]
        BY <2>6, <4>1
      <4> QED BY <2>0, <4>1, <4>2, <4>3
    <3> QED BY <3>1
  <2>10. FlattenSeq(s) = g[n]
    BY <1>2 DEF FlattenSeq, g
  <2>11. ASSUME NEW k \in 1 .. n PROVE g[k] \in Seq(T)
    <3>1. k - 1 \in Nat /\ (k - 1) + 1 = k /\ k <= n
      BY <2>0
    <3> HIDE DEF G, n
    <3>2. Nat \subseteq G
      BY <2>7, <2>8, SetInduction
    <3> QED BY <3>1, <3>2 DEF G
  <2> DEFINE h == [k \in 0 .. n |-> IF k = 0 THEN <<>> ELSE g[k]]
  <2>12. h[0] = <<>> /\ h[n] = g[n] /\ \A k \in 1 .. n : h[k] = g[k]
    BY <2>0
  <2>13. h \in [0 .. n -> Seq(T)]
    BY <2>11
  <2>14. ASSUME NEW k \in 1 .. n PROVE h[k] = h[k - 1] \o s[k]
    <3>1. CASE k = 1
      <4>1. h[k] = s[1] /\ h[k - 1] = <<>>
        BY <2>6, <2>12, <3>1
      <4> QED BY <2>0, <3>1, <4>1
    <3>2. CASE k # 1
      <4>1. k - 1 \in 1 .. n
        BY <2>0, <3>2
      <4>2. h[k] = g[k - 1] \o s[k] /\ h[k - 1] = g[k - 1]
        BY <2>6, <2>12, <3>2, <4>1
      <4> QED BY <4>2
    <3> QED BY <3>1, <3>2
  <2> HIDE DEF h
  <2> QED BY <2>10, <2>12, <2>13, <2>14
<1> QED BY <1>1, <1>2

LEMMA FlattenType ==
  ASSUME NEW T, NEW s \in Seq(Seq(T))
  PROVE  FlattenSeq(s) \in Seq(T)
<1> PICK f \in [0 .. Len(s) -> Seq(T)] : FlattenSeq(s) = f[Len(s)]
  BY FlattenSteps
<1>1. Len(s) \in 0 .. Len(s)
  OBVIOUS
<1> QED BY <1>1

-----------------------------------------------------------------------------
(* Exports: the statement that is sent again, and the file *)

LEMMA ScriptType ==
  ASSUME NEW script \in Export!Scripts
  PROVE  /\ script \in Seq(Export!Statements) /\ Len(script) \in Nat \ {0}
         /\ DOMAIN script = 1 .. Len(script)
<1>1. script \in Export!SeqOf(Export!Statements, MaxLength) /\ script # <<>>
  BY DEF Export!Scripts
<1>2. PICK n \in 0 .. MaxLength : script \in [1 .. n -> Export!Statements]
  BY <1>1 DEF Export!SeqOf
<1>3. n \in Nat
  OBVIOUS
<1>4. script \in Seq(Export!Statements)
  BY <1>2, <1>3
<1> QED BY <1>1, <1>4

\* The counting of statement_for_result: where every SELECT yields a result and
\* no script ends early, as many reads as results are the statements of these.
LEMMA LinedUp ==
  ASSUME Engine # "mssql", NEW script \in Export!Scripts,
         Len(Export!Reads(script)) = Len(Export!ResultsOf(script, Export!LastOf(script),
                                           Export!Yields(script[Export!LastOf(script)])))
  PROVE  Export!Reads(script) = Export!ResultsOf(script, Export!LastOf(script),
                                  Export!Yields(script[Export!LastOf(script)]))
<1> PICK n \in Nat \ {0} : n = Len(script)
  BY ScriptType
<1> DEFINE reads == [i \in DOMAIN script |-> IF Export!CheckReadOnly(script[i]) THEN <<i>> ELSE <<>>]
           yield(i) == [j \in 1 .. (IF i < n THEN Export!Yields(script[i])
                                    ELSE Export!Yields(script[n])) |-> i]
           yields == [i \in 1 .. n |-> yield(i)]
<1>1. DOMAIN script = 1 .. n
      /\ \A i \in 1 .. n : script[i].kind \in {"select", "write", "returning"}
  <2>1. DOMAIN script = 1 .. n /\ \A i \in 1 .. n : script[i] \in Export!Statements
    BY ScriptType
  <2>2. Export!Kinds = {"select", "write", "returning"}
    BY DEF Export!Kinds
  <2> QED BY <2>1, <2>2 DEF Export!Statements
<1>2. Export!LastOf(script) = n
  BY <1>1 DEF Export!LastOf
<1>3. ASSUME NEW i \in 1 .. n
      PROVE  \/ reads[i] = <<i>> /\ yields[i] = <<i>>
             \/ reads[i] = <<>> /\ yields[i] \in {<<>>, <<i>>}
  <2>1. yields[i] = [j \in 1 .. Export!Yields(script[i]) |-> i]
    BY <1>3
  <2>2. [j \in 1 .. 1 |-> i] = <<i>> /\ [j \in 1 .. 0 |-> i] = <<>>
    OBVIOUS
  <2>3. CASE script[i].kind = "select"
    <3>1. Export!Yields(script[i]) = 1 /\ reads[i] = <<i>>
      BY <1>1, <2>3 DEF Export!Yields, Export!CheckReadOnly
    <3> QED BY <2>1, <2>2, <3>1
  <2>4. CASE script[i].kind \in {"write", "returning"}
    <3>1. Export!Yields(script[i]) \in {0, 1} /\ reads[i] = <<>>
      BY <1>1, <2>4 DEF Export!Yields, Export!CheckReadOnly
    <3> QED BY <2>1, <2>2, <3>1
  <2> QED BY <1>1, <2>3, <2>4
<1>4. reads \in Seq(Seq(Nat)) /\ yields \in Seq(Seq(Nat)) /\ Len(reads) = n /\ Len(yields) = n
  <2>1. \A i \in 1 .. n : <<i>> \in Seq(Nat) /\ <<>> \in Seq(Nat)
    OBVIOUS
  <2>2. \A i \in 1 .. n : reads[i] \in Seq(Nat) /\ yields[i] \in Seq(Nat)
    BY <1>3, <2>1
  <2>3. DOMAIN reads = 1 .. n /\ DOMAIN yields = 1 .. n
        /\ reads = [i \in 1 .. n |-> reads[i]] /\ yields = [i \in 1 .. n |-> yields[i]]
    BY <1>1
  <2> HIDE DEF reads, yields
  <2> QED BY <2>2, <2>3
<1>5. Export!Reads(script) = FlattenSeq(reads)
  BY DEF Export!Reads, Export!FlattenSeq, FlattenSeq
<1>6. Export!ResultsOf(script, n, Export!Yields(script[n])) = FlattenSeq(yields)
  BY DEF Export!ResultsOf, Export!FlattenSeq, FlattenSeq
<1> HIDE DEF reads, yields
<1>f. \E f \in [0 .. n -> Seq(Nat)] :
        /\ f[0] = <<>> /\ FlattenSeq(reads) = f[n]
        /\ \A k \in 1 .. n : f[k] = f[k - 1] \o reads[k]
  <2>1. reads \in Seq(Seq(Nat))
    BY <1>4
  <2>2. \E f \in [0 .. Len(reads) -> Seq(Nat)] :
          /\ f[0] = <<>> /\ FlattenSeq(reads) = f[Len(reads)]
          /\ \A k \in 1 .. Len(reads) : f[k] = f[k - 1] \o reads[k]
    BY <2>1, FlattenSteps
  <2> QED BY <1>4, <2>2
<1>g. \E g \in [0 .. n -> Seq(Nat)] :
        /\ g[0] = <<>> /\ FlattenSeq(yields) = g[n]
        /\ \A k \in 1 .. n : g[k] = g[k - 1] \o yields[k]
  <2>1. yields \in Seq(Seq(Nat))
    BY <1>4
  <2>2. \E g \in [0 .. Len(yields) -> Seq(Nat)] :
          /\ g[0] = <<>> /\ FlattenSeq(yields) = g[Len(yields)]
          /\ \A k \in 1 .. Len(yields) : g[k] = g[k - 1] \o yields[k]
    BY <2>1, FlattenSteps
  <2> QED BY <1>4, <2>2
<1> PICK f \in [0 .. n -> Seq(Nat)] :
      /\ f[0] = <<>> /\ FlattenSeq(reads) = f[n]
      /\ \A k \in 1 .. n : f[k] = f[k - 1] \o reads[k]
  BY <1>f
<1> PICK g \in [0 .. n -> Seq(Nat)] :
      /\ g[0] = <<>> /\ FlattenSeq(yields) = g[n]
      /\ \A k \in 1 .. n : g[k] = g[k - 1] \o yields[k]
  BY <1>g
<1> DEFINE Lines(k) == Len(f[k]) <= Len(g[k]) /\ (Len(f[k]) = Len(g[k]) => f[k] = g[k])
           S == {k \in Nat : k <= n => Lines(k)}
<1>7. 0 \in S
  OBVIOUS
<1>8. ASSUME NEW k \in Nat, k \in S PROVE k + 1 \in S
  <2>1. ASSUME k + 1 <= n PROVE Lines(k + 1)
    <3>1. k \in 0 .. n /\ k + 1 \in 1 .. n /\ (k + 1) - 1 = k /\ Lines(k)
      BY <1>8, <2>1
    <3>2. f[k + 1] = f[k] \o reads[k + 1] /\ g[k + 1] = g[k] \o yields[k + 1]
      BY <3>1
    <3>3. f[k] \in Seq(Nat) /\ g[k] \in Seq(Nat)
      BY <3>1
    <3>4. Len(<<>>) = 0 /\ Len(<<k + 1>>) = 1 /\ <<>> \in Seq(Nat) /\ <<k + 1>> \in Seq(Nat)
      OBVIOUS
    <3>5. CASE reads[k + 1] = <<k + 1>> /\ yields[k + 1] = <<k + 1>>
      <4>1. Len(f[k + 1]) = Len(f[k]) + 1 /\ Len(g[k + 1]) = Len(g[k]) + 1
        BY <3>2, <3>3, <3>4, <3>5
      <4>2. Len(f[k]) \in Nat /\ Len(g[k]) \in Nat
        BY <3>3
      <4>3. f[k] = g[k] => f[k + 1] = g[k + 1]
        BY <3>2, <3>5
      <4> QED BY <3>1, <4>1, <4>2, <4>3
    <3>6. CASE reads[k + 1] = <<>> /\ yields[k + 1] = <<>>
      BY <3>1, <3>2, <3>3, <3>4, <3>6
    <3>7. CASE reads[k + 1] = <<>> /\ yields[k + 1] = <<k + 1>>
      BY <3>1, <3>2, <3>3, <3>4, <3>7
    <3> QED BY <1>3, <3>1, <3>5, <3>6, <3>7
  <2> HIDE DEF Lines
  <2> QED BY <2>1
<1>9. Lines(n)
  <2> HIDE DEF Lines
  <2>1. Nat \subseteq S
    <3> HIDE DEF S
    <3> QED BY <1>7, <1>8, SetInduction
  <2> QED BY <2>1
<1> QED BY <1>2, <1>5, <1>6, <1>9

-----------------------------------------------------------------------------
LEMMA LeastIsThere ==
  ASSUME NEW S \in SUBSET Nat, S # {}
  PROVE  Export!Min(S) \in S
<1> DEFINE R == OpToRel(<, Nat)
<1>1. IsWellFoundedOn(R, Nat)
  BY NatLessThanWellFounded
<1>2. \A x, y \in Nat : x < y => <<x, y>> \in R
  BY DEF OpToRel
<1> HIDE DEF R
<1>3. PICK x \in S : \A y \in S : <<y, x>> \notin R
  BY <1>1, WFMin
<1>4. ASSUME NEW y \in S PROVE x <= y
  <2>1. x \in Nat /\ y \in Nat /\ ~(y < x)
    BY <1>2, <1>3
  <2> QED BY <2>1
<1> QED BY <1>3, <1>4 DEF Export!Min

LEMMA LastType ==
  ASSUME NEW script \in Export!Scripts
  PROVE  Export!LastOf(script) \in DOMAIN script
<1> DEFINE returns == {n \in DOMAIN script : script[n].kind = "return"}
<1>1. DOMAIN script \subseteq Nat /\ Len(script) \in DOMAIN script
  BY ScriptType
<1>2. CASE returns = {}
  BY <1>1, <1>2 DEF Export!LastOf
<1>3. CASE returns # {}
  <2>1. returns \in SUBSET Nat
    BY <1>1
  <2>2. Export!LastOf(script) = Export!Min(returns)
    BY <1>3 DEF Export!LastOf
  <2> HIDE DEF returns
  <2>3. Export!Min(returns) \in returns
    BY <1>3, <2>1, LeastIsThere
  <2> QED BY <2>2, <2>3 DEF returns
<1> QED BY <1>2, <1>3

LEMMA ScriptBound ==
  ASSUME NEW script \in Export!Scripts
  PROVE  /\ DOMAIN script \subseteq 1 .. MaxLength
         /\ \A i \in DOMAIN script : script[i].shape \in Shapes
<1>1. PICK n \in 0 .. MaxLength : script \in [1 .. n -> Export!Statements]
  BY DEF Export!Scripts, Export!SeqOf
<1>2. DOMAIN script = 1 .. n /\ \A i \in 1 .. n : script[i] \in Export!Statements
  BY <1>1
<1>3. 1 .. n \subseteq 1 .. MaxLength
  BY ExportAssumption
<1> QED BY <1>2, <1>3 DEF Export!Statements

\* Each result is of a statement of the script.
LEMMA ResultsType ==
  ASSUME NEW script \in Export!Scripts, NEW n \in DOMAIN script, NEW k \in Nat
  PROVE  Export!ResultsOf(script, n, k) \in Seq(DOMAIN script)
<1> DEFINE T == DOMAIN script
           count(i) == IF i < n THEN Export!Yields(script[i]) ELSE k
           yields == [i \in 1 .. n |-> [j \in 1 .. count(i) |-> i]]
<1>1. n \in Nat /\ \A i \in 1 .. n : i \in T
  BY ScriptType
<1>2. \A i \in 1 .. n : count(i) \in Nat
  BY DEF Export!Yields
<1> HIDE DEF T, count
<1>3. ASSUME NEW i \in 1 .. n PROVE [j \in 1 .. count(i) |-> i] \in Seq(T)
  BY <1>1, <1>2
<1>4. yields \in Seq(Seq(T))
  BY <1>1, <1>3
<1>5. FlattenSeq(yields) \in Seq(T)
  <2> HIDE DEF yields
  <2> QED BY <1>4, FlattenType
<1>6. Export!ResultsOf(script, n, k) = FlattenSeq(yields)
  BY DEF Export!ResultsOf, Export!FlattenSeq, FlattenSeq, count
<1> QED BY <1>5, <1>6 DEF T

\* What is sent again is a statement that check_read_only passes.
LEMMA ReadsType ==
  ASSUME NEW script \in Export!Scripts
  PROVE  Export!Reads(script) \in Seq({n \in DOMAIN script : Export!CheckReadOnly(script[n])})
<1> DEFINE T == {n \in DOMAIN script : Export!CheckReadOnly(script[n])}
           reads == [i \in DOMAIN script |-> IF Export!CheckReadOnly(script[i]) THEN <<i>> ELSE <<>>]
<1>1. DOMAIN script = 1 .. Len(script) /\ Len(script) \in Nat
  BY ScriptType
<1>2. ASSUME NEW i \in DOMAIN script PROVE reads[i] \in Seq(T)
  <2>1. CASE Export!CheckReadOnly(script[i])
    <3>1. i \in T
      BY <2>1
    <3> HIDE DEF T
    <3> QED BY <2>1, <3>1
  <2>2. CASE ~Export!CheckReadOnly(script[i])
    BY <2>2
  <2> QED BY <2>1, <2>2
<1>3. reads \in Seq(Seq(T))
  <2>1. DOMAIN reads = 1 .. Len(script) /\ reads = [i \in 1 .. Len(script) |-> reads[i]]
    BY <1>1
  <2> HIDE DEF reads, T
  <2> QED BY <1>1, <1>2, <2>1
<1>4. FlattenSeq(reads) \in Seq(T)
  <2> HIDE DEF reads, T
  <2> QED BY <1>3, FlattenType
<1>5. Export!Reads(script) = FlattenSeq(reads)
  BY DEF Export!Reads, Export!FlattenSeq, FlattenSeq
<1> QED BY <1>4, <1>5

\* The run that is shown; what was counted when it finished.
RunType ==
  run # Export!NoRun =>
    /\ run \in [script : Export!Scripts, on : Connections, results : Seq(Nat),
                state : {"running", "finished", "stopped"}]
    /\ run.results \in Seq(DOMAIN run.script)
    /\ run.state = "finished" =>
         LET n == Export!LastOf(run.script)
         IN  run.results = Export!ResultsOf(run.script, n, Export!Yields(run.script[n]))

\* A sheet's lines are consecutive.
Sheets == {0 .. m : m \in 0 .. RowsPerSheet}

\* What an export was asked for; what it wrote.
AskedFor(e) ==
  /\ what[e] \in Export!Asked
  /\ what[e].statement \in DOMAIN what[e].script /\ what[e].shown \in DOMAIN what[e].script
  /\ Export!CheckReadOnly(what[e].script[what[e].statement])
  /\ what[e].shape = what[e].script[what[e].shown].shape
  /\ what[e].finished /\ Engine # "mssql" => what[e].statement = what[e].shown

WroteWhole(e) ==
  /\ sheets[e] \in Seq(Sheets)
  /\ \A s \in 1 .. Len(sheets[e]) - 1 : sheets[e][s] = 0 .. RowsPerSheet
  /\ task[e] = "reading" => sheets[e] # <<>>
  /\ outcome[e] = "exported" => task[e] = "over" /\ exportLeft[e] = 0

ExportTypes ==
  /\ connection \in Connections /\ runs \in 0 .. MaxRuns
  /\ task \in [Exports -> {"new", "picking", "asking", "reading", "failing", "over"}]
  /\ exportLeft \in [Exports -> 0 .. MaxExportRows]
  /\ outcome \in [Exports -> {"none", "exported", "failed", "given up"}]
  /\ DOMAIN what = Exports /\ DOMAIN sheets = Exports

ExportInv ==
  /\ ExportTypes /\ RunType
  /\ \A e \in Exports :
       /\ \/ task[e] = "new" /\ what[e] = Export!Unasked
          \/ AskedFor(e)
       /\ WroteWhole(e)

LEMMA InitExport == Export!Init => ExportInv
<1> SUFFICES ASSUME Export!Init PROVE ExportInv
  OBVIOUS
<1> USE ExportAssumption DEF Export!Init
<1>1. ExportTypes
  BY DEF ExportTypes
<1>2. ASSUME NEW e \in Exports PROVE WroteWhole(e)
  <2>1. <<>> \in Seq(Sheets) /\ Len(<<>>) = 0
    OBVIOUS
  <2> QED BY <2>1 DEF WroteWhole
<1> QED BY <1>1, <1>2 DEF ExportInv, RunType

\* The tab's runs.
LEMMA TabExport == ASSUME ExportInv, Export!TabStep PROVE ExportInv'
<1> USE DEF ExportInv
<1>0. /\ UNCHANGED <<task, what, sheets, exportLeft, outcome>>
  BY DEF Export!TabStep, Export!ChooseConnection, Export!RunScript, Export!RunFinishes,
         Export!RunStops
<1>1. \A e \in Exports : AskedFor(e)' = AskedFor(e) /\ WroteWhole(e)' = WroteWhole(e)
  BY <1>0 DEF AskedFor, WroteWhole
<1>2. ASSUME NEW c \in Connections, Export!ChooseConnection(c) PROVE ExportInv'
  BY <1>0, <1>1, <1>2 DEF Export!ChooseConnection, ExportTypes, RunType
<1>3. ASSUME NEW script \in Export!Scripts, Export!RunScript(script) PROVE ExportInv'
  <2>1. <<>> \in Seq(Nat) /\ <<>> \in Seq(DOMAIN script)
    OBVIOUS
  <2>2. runs' \in 0 .. MaxRuns
    <3>1. runs < MaxRuns /\ runs' = runs + 1
      BY <1>3 DEF Export!RunScript
    <3>2. runs \in 0 .. MaxRuns /\ MaxRuns \in Nat
      BY ExportAssumption DEF ExportTypes
    <3> QED BY <3>1, <3>2
  <2>3. RunType'
    BY <1>3, <2>1 DEF Export!RunScript, ExportTypes, RunType
  <2> QED BY <1>0, <1>1, <1>3, <2>2, <2>3 DEF Export!RunScript, ExportTypes
<1>4. ASSUME Export!RunFinishes \/ Export!RunStops PROVE ExportInv'
  <2>1. run.script \in Export!Scripts /\ run \in [script : Export!Scripts, on : Connections,
               results : Seq(Nat), state : {"running", "finished", "stopped"}]
    <3>1. run.state = "running"
      BY <1>4 DEF Export!RunFinishes, Export!RunStops
    <3>2. run # Export!NoRun
      BY <3>1 DEF Export!NoRun
    <3> QED BY <3>2 DEF RunType
  <2>2. PICK n \in 1 .. Export!LastOf(run.script) : \E k \in 0 .. Export!Yields(run.script[n]) :
          /\ run'.results = Export!ResultsOf(run.script, n, k)
          /\ \/ run' = [run EXCEPT !.state = "finished", !.results = run'.results]
                /\ n = Export!LastOf(run.script) /\ k = Export!Yields(run.script[n])
             \/ run' = [run EXCEPT !.state = "stopped", !.results = run'.results]
    <3>1. CASE Export!RunFinishes
      <4>1. Export!LastOf(run.script) \in 1 .. Export!LastOf(run.script)
        BY <2>1, LastType, ScriptType
      <4>2. \A s : Export!Yields(s) \in 0 .. Export!Yields(s)
        BY DEF Export!Yields
      <4> QED BY <2>1, <3>1, <4>1, <4>2 DEF Export!RunFinishes
    <3>2. CASE Export!RunStops
      BY <2>1, <3>2 DEF Export!RunStops
    <3> QED BY <1>4, <3>1, <3>2
  <2>3. n \in DOMAIN run.script
    BY <2>1, LastType, ScriptType
  <2>4. run'.results \in Seq(DOMAIN run.script) /\ run'.results \in Seq(Nat)
    <3>1. PICK k \in 0 .. Export!Yields(run.script[n]) :
            run'.results = Export!ResultsOf(run.script, n, k)
      BY <2>2
    <3>2. k \in Nat
      OBVIOUS
    <3>3. run'.results \in Seq(DOMAIN run.script)
      BY <2>1, <2>3, <3>1, <3>2, ResultsType
    <3>4. DOMAIN run.script \subseteq Nat
      BY <2>1, ScriptType
    <3> QED BY <3>3, <3>4
  <2>5. RunType'
    BY <2>1, <2>2, <2>4 DEF RunType
  <2> QED BY <1>0, <1>1, <1>4, <2>5 DEF Export!RunFinishes, Export!RunStops, ExportTypes
<1> QED BY <1>2, <1>3, <1>4 DEF Export!TabStep

LEMMA SheetLines ==
  ASSUME NEW m \in Nat
  PROVE  Export!Max(0 .. m) = m /\ (0 .. m) \cup {m + 1} = 0 .. m + 1
<1>1. m \in 0 .. m /\ \A y \in 0 .. m : m >= y
  OBVIOUS
<1>2. \A x \in 0 .. m : (\A y \in 0 .. m : x >= y) => x = m
  OBVIOUS
<1>3. Export!Max(0 .. m) = m
  BY <1>1, <1>2 DEF Export!Max
<1> QED BY <1>3

\* One export goes on.
LEMMA OneExports ==
  ASSUME ExportInv, NEW e \in Exports, ExportTypes', UNCHANGED <<run, runs, connection>>,
         (task'[e] = "new" /\ what'[e] = Export!Unasked) \/ AskedFor(e)', WroteWhole(e)',
         \A f \in Exports \ {e} :
           /\ task'[f] = task[f] /\ what'[f] = what[f] /\ sheets'[f] = sheets[f]
           /\ exportLeft'[f] = exportLeft[f] /\ outcome'[f] = outcome[f]
  PROVE  ExportInv'
<1>1. RunType'
  BY DEF ExportInv, RunType
<1>2. ASSUME NEW f \in Exports
      PROVE  ((task'[f] = "new" /\ what'[f] = Export!Unasked) \/ AskedFor(f)') /\ WroteWhole(f)'
  <2>1. CASE f = e
    BY <2>1
  <2>2. CASE f # e
    <3>1. (task[f] = "new" /\ what[f] = Export!Unasked) \/ AskedFor(f)
      BY DEF ExportInv
    <3>2. WroteWhole(f)
      BY DEF ExportInv
    <3>3. AskedFor(f)' = AskedFor(f) /\ WroteWhole(f)' = WroteWhole(f)
      BY <2>2 DEF AskedFor, WroteWhole
    <3> QED BY <2>2, <3>1, <3>2, <3>3
  <2> QED BY <2>1, <2>2
<1> QED BY <1>1, <1>2 DEF ExportInv

\* The statement is picked: it made the result, if the run finished.
LEMMA PickExport ==
  ASSUME ExportInv, NEW e \in Exports, NEW r \in DOMAIN run.results, Export!Export(e, r)
  PROVE  ExportInv'
<1> USE DEF ExportInv
<1>1. run # Export!NoRun
  <2>1. run.state \in {"finished", "stopped"}
    BY DEF Export!Export
  <2> QED BY <2>1 DEF Export!NoRun
<1> DEFINE T == {n \in DOMAIN run.script : Export!CheckReadOnly(run.script[n])}
<1>2. run.script \in Export!Scripts /\ run.on \in Connections
      /\ run.results \in Seq(DOMAIN run.script)
  BY <1>1 DEF RunType
<1>3. Export!Reads(run.script) \in Seq(T)
  BY <1>2, ReadsType
<1> DEFINE wanted(n) ==
      [statement |-> n, shown |-> run.results[r],
       shape |-> run.script[run.results[r]].shape, script |-> run.script,
       on |-> connection, shownOn |-> run.on, finished |-> run.state = "finished"]
<1>4. PICK n \in Export!StatementForResult(run.script, r, Len(run.results),
                                           run.state = "finished") :
        what' = [what EXCEPT ![e] = wanted(n)]
  BY DEF Export!Export
<1>5. /\ r \in DOMAIN Export!Reads(run.script) /\ n = Export!Reads(run.script)[r]
      /\ Export!LinesUp(run.script, Len(run.results), run.state = "finished")
  BY DEF Export!StatementForResult
<1>6. n \in T
  <2> HIDE DEF T
  <2> QED BY <1>3, <1>5
<1>7. run.results[r] \in DOMAIN run.script
  BY <1>2
<1>8. run.state = "finished" /\ Engine # "mssql" => n = run.results[r]
  <2> SUFFICES ASSUME run.state = "finished", Engine # "mssql" PROVE n = run.results[r]
    OBVIOUS
  <2> DEFINE k == Export!LastOf(run.script)
             results == Export!ResultsOf(run.script, k, Export!Yields(run.script[k]))
  <2>1. run.results = results
    BY <1>1 DEF RunType
  <2>2. Len(Export!Reads(run.script)) = Len(results)
    BY <1>5, <2>1 DEF Export!LinesUp
  <2>3. Export!Reads(run.script) = results
    BY <1>2, <2>2, LinedUp
  <2> QED BY <1>5, <2>1, <2>3
<1>9. wanted(n) \in Export!Asked
  <2>1. DOMAIN run.script \subseteq 1 .. MaxLength /\ \A i \in DOMAIN run.script : run.script[i].shape \in Shapes
    BY <1>2, ScriptBound
  <2>2. connection \in Connections /\ (run.state = "finished") \in BOOLEAN
    BY DEF ExportTypes
  <2> QED BY <1>2, <1>6, <1>7, <2>1, <2>2 DEF Export!Asked
<1>10. what'[e] = wanted(n)
  BY <1>4 DEF ExportTypes
<1>11. AskedFor(e)'
  <2> PICK w : w = wanted(n)
    OBVIOUS
  <2>1. /\ w.statement = n /\ w.shown = run.results[r] /\ w.script = run.script
        /\ w.shape = run.script[run.results[r]].shape /\ w.finished = (run.state = "finished")
    OBVIOUS
  <2>2. what'[e] = w /\ w \in Export!Asked
    BY <1>9, <1>10
  <2> HIDE DEF wanted
  <2> QED BY <1>6, <1>7, <1>8, <2>1, <2>2 DEF AskedFor
<1>12. /\ task' = [task EXCEPT ![e] = "picking"] /\ task[e] = "new"
       /\ UNCHANGED <<connection, run, runs, sheets, exportLeft, outcome>>
  BY DEF Export!Export
<1>13. ExportTypes'
  BY <1>4, <1>12 DEF ExportTypes
<1>14. WroteWhole(e)'
  BY <1>12 DEF WroteWhole, ExportTypes
<1>15. \A f \in Exports \ {e} : what'[f] = what[f] /\ task'[f] = task[f]
  BY <1>4, <1>12 DEF ExportTypes
<1> QED BY <1>11, <1>12, <1>13, <1>14, <1>15, OneExports

\* The task of an export.
LEMMA TaskExport == ASSUME ExportInv, NEW e \in Exports, Export!TaskStep(e) PROVE ExportInv'
<1> USE DEF ExportInv
<1>0. UNCHANGED <<connection, run, runs, what>>
  BY DEF Export!TaskStep, Export!PickFile, Export!ResultStart, Export!Row, Export!ErrorEvent,
         Export!Breaks, Export!StreamEnds
<1>t. task[e] \notin {"new", "over"}
  BY DEF Export!TaskStep, Export!PickFile, Export!ResultStart, Export!Row, Export!ErrorEvent,
         Export!Breaks, Export!StreamEnds
<1>o. outcome[e] # "exported"
  BY <1>t DEF WroteWhole
<1>a. AskedFor(e)'
  BY <1>0, <1>t DEF AskedFor
<1>1. CASE Export!PickFile(e) \/ Export!ErrorEvent(e) \/ Export!Breaks(e) \/ Export!StreamEnds(e)
  <2>1. /\ UNCHANGED <<sheets, exportLeft>>
        /\ \E to \in {"asking", "over", "failing"} : task' = [task EXCEPT ![e] = to]
        /\ \/ UNCHANGED outcome
           \/ /\ \E how \in {"given up", "failed", "exported"} : outcome' = [outcome EXCEPT ![e] = how]
              /\ task'[e] = "over"
              /\ outcome'[e] = "exported" => exportLeft[e] = 0
    <3>1. CASE Export!PickFile(e)
      BY <3>1 DEF Export!PickFile, Export!Ends, ExportTypes
    <3>2. CASE Export!ErrorEvent(e)
      BY <3>2 DEF Export!ErrorEvent, Export!Ends, ExportTypes
    <3>3. CASE Export!Breaks(e)
      BY <3>3 DEF Export!Breaks, Export!Ends, ExportTypes
    <3>4. CASE Export!StreamEnds(e)
      BY <3>4 DEF Export!StreamEnds, Export!Ends, ExportTypes
    <3> QED BY <1>1, <3>1, <3>2, <3>3, <3>4, Zenon
  <2>2. ExportTypes'
    BY <1>0, <2>1 DEF ExportTypes
  <2>3. WroteWhole(e)'
    BY <1>o, <2>1 DEF WroteWhole, ExportTypes
  <2>4. \A f \in Exports \ {e} : task'[f] = task[f] /\ outcome'[f] = outcome[f]
    BY <2>1 DEF ExportTypes
  <2> QED BY <1>0, <1>a, <2>1, <2>2, <2>3, <2>4, OneExports
<1>2. ASSUME NEW shape \in Shapes, Export!ResultStart(e, shape) PROVE ExportInv'
  <2>1. CASE shape = what[e].shape
    <3>1. /\ task' = [task EXCEPT ![e] = "reading"] /\ sheets' = [sheets EXCEPT ![e] = <<{0}>>]
          /\ \E rows \in 0 .. MaxExportRows : exportLeft' = [exportLeft EXCEPT ![e] = rows]
          /\ UNCHANGED outcome
      BY <1>2, <2>1 DEF Export!ResultStart
    <3>2. ExportTypes'
      BY <1>0, <3>1 DEF ExportTypes
    <3>3. {0} \in Sheets
      <4>1. {0} = 0 .. 0 /\ 0 \in 0 .. RowsPerSheet
        BY ExportAssumption
      <4> QED BY <4>1 DEF Sheets
    <3>4. sheets'[e] \in Seq(Sheets) /\ Len(sheets'[e]) = 1
      <4>1. sheets'[e] = <<{0}>>
        BY <3>1 DEF ExportTypes
      <4> HIDE DEF Sheets
      <4> QED BY <3>3, <4>1
    <3>5. WroteWhole(e)'
      <4> HIDE DEF Sheets
      <4>1. sheets'[e] # <<>> /\ \A s \in 1 .. Len(sheets'[e]) - 1 : sheets'[e][s] = 0 .. RowsPerSheet
        <5>1. 1 .. Len(sheets'[e]) - 1 = {}
          BY <3>4
        <5>3. sheets'[e] # <<>>
          <6>1. sheets'[e] = <<{0}>>
            BY <3>1 DEF ExportTypes
          <6> QED BY <6>1
        <5>4. ASSUME NEW s \in 1 .. Len(sheets'[e]) - 1 PROVE FALSE
          BY <5>1, <5>4
        <5> QED BY <5>3, <5>4
      <4>2. outcome'[e] # "exported"
        BY <1>o, <3>1
      <4> QED BY <3>4, <4>1, <4>2 DEF WroteWhole
    <3>6. \A f \in Exports \ {e} : task'[f] = task[f] /\ sheets'[f] = sheets[f]
                                   /\ exportLeft'[f] = exportLeft[f]
      BY <3>1 DEF ExportTypes
    <3> QED BY <1>0, <1>a, <3>1, <3>2, <3>5, <3>6, OneExports
  <2>2. CASE shape # what[e].shape
    <3>1. /\ task' = [task EXCEPT ![e] = "over"] /\ outcome' = [outcome EXCEPT ![e] = "failed"]
          /\ UNCHANGED <<sheets, exportLeft>>
      BY <1>2, <2>2 DEF Export!ResultStart, Export!Ends
    <3>2. ExportTypes'
      BY <1>0, <3>1 DEF ExportTypes
    <3>3. WroteWhole(e)'
      BY <3>1 DEF WroteWhole, ExportTypes
    <3>4. \A f \in Exports \ {e} : task'[f] = task[f] /\ outcome'[f] = outcome[f]
      BY <3>1 DEF ExportTypes
    <3> QED BY <1>0, <1>a, <3>1, <3>2, <3>3, <3>4, OneExports
  <2> QED BY <2>1, <2>2
<1>3. CASE Export!Row(e)
  <2> DEFINE last == Len(sheets[e])
             line == Export!Max(sheets[e][last]) + 1
  <2>1. /\ task[e] = "reading" /\ exportLeft[e] > 0
        /\ exportLeft' = [exportLeft EXCEPT ![e] = @ - 1]
        /\ sheets' = IF line > RowsPerSheet THEN [sheets EXCEPT ![e] = Append(@, {0, 1})]
                     ELSE [sheets EXCEPT ![e][last] = @ \cup {line}]
        /\ UNCHANGED <<task, outcome>>
    BY <1>3 DEF Export!Row
  <2>2. sheets[e] \in Seq(Sheets) /\ sheets[e] # <<>>
    BY <2>1 DEF WroteWhole
  <2>3. last \in 1 .. last /\ last \in Nat /\ sheets[e][last] \in Sheets
    <3> HIDE DEF Sheets
    <3> QED BY <2>2
  <2> PICK m \in 0 .. RowsPerSheet : sheets[e][last] = 0 .. m
    BY <2>3 DEF Sheets
  <2>4. m \in Nat /\ line = m + 1
    BY SheetLines
  <2>5. sheets'[e] = IF line > RowsPerSheet THEN Append(sheets[e], {0, 1})
                     ELSE [sheets[e] EXCEPT ![last] = sheets[e][last] \cup {line}]
    <3> HIDE DEF last, line
    <3>1. DOMAIN sheets = Exports
      BY DEF ExportTypes
    <3>2. CASE line > RowsPerSheet
      BY <2>1, <3>1, <3>2
    <3>3. CASE ~(line > RowsPerSheet)
      BY <2>1, <3>1, <3>3
    <3> QED BY <3>2, <3>3
  <2>6. sheets'[e] \in Seq(Sheets)
        /\ \A s \in 1 .. Len(sheets'[e]) - 1 : sheets'[e][s] = 0 .. RowsPerSheet
        /\ sheets'[e] # <<>>
    <3>0. \A s \in 1 .. last - 1 : sheets[e][s] = 0 .. RowsPerSheet
      BY DEF WroteWhole
    <3>1. CASE line > RowsPerSheet
      <4>1. m = RowsPerSheet
        BY <2>4, <3>1, ExportAssumption
      <4>2. {0, 1} = 0 .. 1 /\ 1 \in 0 .. RowsPerSheet
        BY ExportAssumption
      <4>3. {0, 1} \in Sheets
        BY <4>2 DEF Sheets
      <4>4. sheets'[e] = Append(sheets[e], {0, 1})
        BY <2>5, <3>1
      <4> HIDE DEF Sheets
      <4>5. sheets'[e] \in Seq(Sheets) /\ Len(sheets'[e]) = last + 1
            /\ \A s \in 1 .. last : sheets'[e][s] = sheets[e][s]
        BY <2>2, <4>3, <4>4
      <4>6. \A s \in 1 .. last : s = last \/ s \in 1 .. last - 1
        BY <2>3
      <4> QED BY <2>3, <3>0, <4>1, <4>5, <4>6
    <3>2. CASE ~(line > RowsPerSheet)
      <4>1. (0 .. m) \cup {line} = 0 .. m + 1 /\ m + 1 \in 0 .. RowsPerSheet
        BY <2>4, <3>2, ExportAssumption, SheetLines
      <4>2. (0 .. m) \cup {line} \in Sheets
        BY <4>1 DEF Sheets
      <4>3. sheets'[e] = [sheets[e] EXCEPT ![last] = (0 .. m) \cup {line}]
        BY <2>5, <3>2
      <4> HIDE DEF Sheets, line
      <4>4. sheets'[e] \in Seq(Sheets) /\ Len(sheets'[e]) = last
            /\ \A s \in 1 .. last - 1 : sheets'[e][s] = sheets[e][s]
        BY <2>2, <2>3, <4>2, <4>3
      <4> QED BY <2>3, <3>0, <4>4
    <3> QED BY <3>1, <3>2
  <2> HIDE DEF Sheets
  <2>7. ExportTypes'
    <3>1. exportLeft[e] - 1 \in 0 .. MaxExportRows
      <4>1. exportLeft[e] \in 0 .. MaxExportRows /\ exportLeft[e] > 0
        BY <2>1 DEF ExportTypes
      <4> QED BY <4>1, ExportAssumption
    <3> QED BY <1>0, <2>1, <3>1 DEF ExportTypes
  <2>8. WroteWhole(e)'
    BY <1>o, <2>1, <2>6 DEF WroteWhole
  <2>9. \A f \in Exports \ {e} : sheets'[f] = sheets[f] /\ exportLeft'[f] = exportLeft[f]
    BY <2>1 DEF ExportTypes
  <2> QED BY <1>0, <1>a, <2>1, <2>7, <2>8, <2>9, OneExports
<1> QED BY <1>1, <1>2, <1>3 DEF Export!TaskStep

LEMMA StepExport == ExportInv /\ [Export!Next]_(Export!vars) => ExportInv'
<1> SUFFICES ASSUME ExportInv, [Export!Next]_(Export!vars) PROVE ExportInv'
  OBVIOUS
<1>1. CASE UNCHANGED Export!vars
  <2> USE <1>1 DEF Export!vars, ExportInv
  <2>1. ExportTypes' /\ RunType'
    BY DEF ExportTypes, RunType
  <2>2. \A e \in Exports : AskedFor(e)' = AskedFor(e) /\ WroteWhole(e)' = WroteWhole(e)
    BY DEF AskedFor, WroteWhole
  <2> QED BY <2>1, <2>2
<1> QED BY <1>1, TabExport, TaskExport, PickExport DEF Export!Next

\* What an export was asked for and what it wrote.
THEOREM ExportInvHolds == Export!Spec => []ExportInv
BY InitExport, StepExport, PTL DEF Export!Spec

\* Type correctness of an export; no sheet is longer than Excel's.
THEOREM ExportType == Export!Spec => []Export!TypeOK
<1>1. ExportInv => Export!TypeOK
  <2> SUFFICES ASSUME ExportInv PROVE Export!TypeOK
    OBVIOUS
  <2> USE DEF ExportInv
  <2>1. ASSUME run # Export!NoRun
        PROVE  Export!Range(run.results) \subseteq DOMAIN run.script
    BY <2>1 DEF RunType, Export!Range
  <2>2. ASSUME NEW e \in Exports, NEW s \in DOMAIN sheets[e]
        PROVE  sheets[e][s] \subseteq 0 .. RowsPerSheet
    <3>1. sheets[e] \in Seq(Sheets)
      BY DEF WroteWhole
    <3>2. sheets[e][s] \in Sheets
      <4> HIDE DEF Sheets
      <4> QED BY <3>1
    <3> QED BY <3>2, ExportAssumption DEF Sheets
  <2>3. \A e \in Exports : what[e] \in Export!Asked \cup {Export!Unasked}
    BY DEF AskedFor
  <2> QED BY <2>1, <2>2, <2>3 DEF ExportTypes, RunType, Export!TypeOK
<1> QED BY <1>1, ExportInvHolds, PTL

\* The statement that is sent again for a run that finished made the result
\* that was shown: as many reads as results are the same ones.
THEOREM ShownHolds == Export!Spec => []FinishedExportsShown
<1>1. ExportInv => FinishedExportsShown
  <2> SUFFICES ASSUME ExportInv, NEW e \in Exports, outcome[e] = "exported",
                      what[e].finished, Engine # "mssql"
               PROVE  what[e].statement = what[e].shown
    BY DEF FinishedExportsShown, Export!FinishedExportsShown, Export!Exported
  <2> QED BY DEF ExportInv, AskedFor, Export!Unasked
<1> QED BY <1>1, ExportInvHolds, PTL

\* Only what reads is sent again.
THEOREM NoWriteRepeated == Export!Spec => []Export!RepeatsNoWrite
<1>1. ExportInv => Export!RepeatsNoWrite
  BY DEF ExportInv, AskedFor, Export!RepeatsNoWrite, Export!CheckReadOnly
<1> QED BY <1>1, ExportInvHolds, PTL

\* An export that reports success left no row out and filled each sheet before
\* the next.
THEOREM WholeHolds == Export!Spec => []Export!FileIsWhole
<1>1. ExportInv => Export!FileIsWhole
  <2> SUFFICES ASSUME ExportInv, NEW e \in Exports, outcome[e] = "exported"
               PROVE  /\ exportLeft[e] = 0
                      /\ \A s \in DOMAIN sheets[e] :
                           /\ 0 \in sheets[e][s]
                           /\ s < Len(sheets[e]) => RowsPerSheet \in sheets[e][s]
                      /\ what[e].shape = what[e].script[what[e].shown].shape
    BY DEF Export!FileIsWhole, Export!Exported
  <2> USE DEF ExportInv
  <2>1. exportLeft[e] = 0 /\ task[e] = "over" /\ sheets[e] \in Seq(Sheets)
    BY DEF WroteWhole
  <2>2. what[e].shape = what[e].script[what[e].shown].shape
    BY <2>1 DEF AskedFor
  <2>3. ASSUME NEW s \in DOMAIN sheets[e]
        PROVE  0 \in sheets[e][s] /\ (s < Len(sheets[e]) => RowsPerSheet \in sheets[e][s])
    <3>1. s \in 1 .. Len(sheets[e]) /\ Len(sheets[e]) \in Nat /\ sheets[e][s] \in Sheets
      <4> HIDE DEF Sheets
      <4> QED BY <2>1
    <3>2. 0 \in sheets[e][s]
      BY <3>1, ExportAssumption DEF Sheets
    <3>3. ASSUME s < Len(sheets[e]) PROVE RowsPerSheet \in sheets[e][s]
      <4>1. s \in 1 .. Len(sheets[e]) - 1
        BY <3>1, <3>3
      <4>2. sheets[e][s] = 0 .. RowsPerSheet
        BY <4>1 DEF WroteWhole
      <4> QED BY <4>2, ExportAssumption
    <3> QED BY <3>2, <3>3
  <2> QED BY <2>1, <2>2, <2>3
<1> QED BY <1>1, ExportInvHolds, PTL

-----------------------------------------------------------------------------
(* The conversation: questions and what follows them *)

Turns == Chat!Turns

Abouts == Nat \cup (Nat \X Nat)
Shows == [kind : {"user", "answer", "tool", "error", "note"}, turn : Nat, about : Abouts]
Says ==
  [turn : Nat, kind : {"text", "done", "error"}, about : Seq(Nat \X Nat)]
  \cup [turn : Nat, kind : {"tool", "tool result"}, about : Nat]
  \cup [turn : Nat, kind : {"session", "failed", "finished"}, about : {<<>>}]

\* What the entries of a list follow is a question of their own turn.
Own(es) ==
  \A i \in 1 .. Len(es) : es[i].turn # 0 =>
    \E j \in 1 .. i : /\ es[j].kind = "user" /\ es[j].turn = es[i].turn
                      /\ \A k \in j + 1 .. i : es[k].kind # "user"

\* The last question is that of turn t.
AskedLast(es, t) ==
  \E j \in 1 .. Len(es) : /\ es[j].kind = "user" /\ es[j].turn = t
                          /\ \A k \in j + 1 .. Len(es) : es[k].kind # "user"

ChatInv ==
  /\ turns \in Nat /\ turnRunning \in 0 .. turns
  /\ entries \in Seq(Shows) /\ inbox \in Seq(Says)
  /\ plan \in [Turns -> Chat!Plans] /\ at \in [Turns -> Nat]
  /\ Own(entries)
  /\ turnRunning # 0 => AskedLast(entries, turnRunning)

-----------------------------------------------------------------------------
\* More that is not a question, of the turn asked last or of none.
LEMMA MoreKeepsOwn ==
  ASSUME NEW es \in Seq(Shows), NEW more \in Seq(Shows), NEW t \in Nat,
         Own(es), t # 0 => AskedLast(es, t),
         \A k \in 1 .. Len(more) : more[k].kind # "user" /\ more[k].turn \in {0, t}
  PROVE  Own(es \o more) /\ (t # 0 => AskedLast(es \o more, t))
<1> DEFINE all == es \o more
<1>0. /\ Len(es) \in Nat /\ Len(more) \in Nat /\ Len(all) = Len(es) + Len(more)
      /\ \A i \in 1 .. Len(es) : all[i] = es[i]
      /\ \A i \in Len(es) + 1 .. Len(all) : all[i] = more[i - Len(es)]
                                            /\ i - Len(es) \in 1 .. Len(more)
  OBVIOUS
<1> HIDE DEF all
<1>3. \A k \in Len(es) + 1 .. Len(all) : all[k].kind # "user" /\ all[k].turn \in {0, t}
  BY <1>0
<1>1. ASSUME t # 0 PROVE AskedLast(all, t)
  <2> PICK j \in 1 .. Len(es) : /\ es[j].kind = "user" /\ es[j].turn = t
                                /\ \A k \in j + 1 .. Len(es) : es[k].kind # "user"
    BY <1>1 DEF AskedLast
  <2>1. j \in 1 .. Len(all) /\ all[j] = es[j]
    BY <1>0
  <2>2. ASSUME NEW k \in j + 1 .. Len(all) PROVE all[k].kind # "user"
    <3>1. CASE k <= Len(es)
      BY <1>0, <3>1
    <3>2. CASE k > Len(es)
      BY <1>0, <3>2
    <3> QED BY <1>0, <3>1, <3>2
  <2> QED BY <2>1, <2>2 DEF AskedLast
<1>2. ASSUME NEW i \in 1 .. Len(all), all[i].turn # 0
      PROVE  \E j \in 1 .. i : /\ all[j].kind = "user" /\ all[j].turn = all[i].turn
                               /\ \A k \in j + 1 .. i : all[k].kind # "user"
  <2>1. CASE i <= Len(es)
    <3>1. i \in 1 .. Len(es) /\ all[i] = es[i]
      BY <1>0, <2>1
    <3> PICK j \in 1 .. i : /\ es[j].kind = "user" /\ es[j].turn = es[i].turn
                            /\ \A k \in j + 1 .. i : es[k].kind # "user"
      BY <1>2, <3>1 DEF Own
    <3>2. j \in 1 .. Len(es) /\ \A k \in j + 1 .. i : k \in 1 .. Len(es)
      BY <1>0, <3>1
    <3>3. all[j] = es[j] /\ \A k \in j + 1 .. i : all[k] = es[k]
      BY <1>0, <3>2
    <3> QED BY <3>1, <3>3
  <2>2. CASE i > Len(es)
    <3>1. all[i].turn = t /\ t # 0
      BY <1>0, <1>2, <1>3, <2>2
    <3> PICK j \in 1 .. Len(all) : /\ all[j].kind = "user" /\ all[j].turn = t
                                   /\ \A k \in j + 1 .. Len(all) : all[k].kind # "user"
      BY <1>1, <3>1 DEF AskedLast
    <3>2. i \in Len(es) + 1 .. Len(all) /\ all[i].kind # "user"
      <4>1. i \in Len(es) + 1 .. Len(all)
        BY <1>0, <2>2
      <4> QED BY <1>3, <4>1
    <3>3. j <= Len(es)
      <4>1. CASE j > Len(es)
        <5>1. j \in Len(es) + 1 .. Len(all)
          BY <1>0, <4>1
        <5> QED BY <1>3, <5>1
      <4> QED BY <1>0, <4>1
    <3>4. j \in 1 .. i /\ \A k \in j + 1 .. i : k \in j + 1 .. Len(all)
      BY <1>0, <2>2, <3>3
    <3> QED BY <3>1, <3>4
  <2> QED BY <1>0, <2>1, <2>2
<1> QED BY <1>1, <1>2 DEF Own, all

\* A question.
LEMMA QuestionKeepsOwn ==
  ASSUME NEW es \in Seq(Shows), NEW e \in Shows, Own(es), e.kind = "user"
  PROVE  Own(Append(es, e)) /\ AskedLast(Append(es, e), e.turn)
<1> DEFINE all == Append(es, e)
<1>0. /\ Len(es) \in Nat /\ Len(all) = Len(es) + 1 /\ all[Len(es) + 1] = e
      /\ \A i \in 1 .. Len(es) : all[i] = es[i]
  OBVIOUS
<1> HIDE DEF all
<1>1. AskedLast(all, e.turn)
  <2>1. Len(es) + 1 \in 1 .. Len(all)
    BY <1>0
  <2> QED BY <1>0, <2>1 DEF AskedLast
<1>2. ASSUME NEW i \in 1 .. Len(all), all[i].turn # 0
      PROVE  \E j \in 1 .. i : /\ all[j].kind = "user" /\ all[j].turn = all[i].turn
                               /\ \A k \in j + 1 .. i : all[k].kind # "user"
  <2>1. CASE i <= Len(es)
    <3>1. i \in 1 .. Len(es) /\ all[i] = es[i]
      BY <1>0, <2>1
    <3> PICK j \in 1 .. i : /\ es[j].kind = "user" /\ es[j].turn = es[i].turn
                            /\ \A k \in j + 1 .. i : es[k].kind # "user"
      BY <1>2, <3>1 DEF Own
    <3>2. j \in 1 .. Len(es) /\ \A k \in j + 1 .. i : k \in 1 .. Len(es)
      BY <1>0, <3>1
    <3>3. all[j] = es[j] /\ \A k \in j + 1 .. i : all[k] = es[k]
      BY <1>0, <3>2
    <3> QED BY <3>1, <3>3
  <2>2. CASE i > Len(es)
    <3>1. i = Len(es) + 1 /\ i \in 1 .. i
      BY <1>0, <2>2
    <3> QED BY <1>0, <3>1
  <2> QED BY <1>0, <2>1, <2>2
<1> QED BY <1>1, <1>2 DEF Own, all

-----------------------------------------------------------------------------
(* What the CLI prints, and the events of it, are sequences *)

Prints ==
  [kind : {"init", "start", "delta", "assistant", "tool result", "result"},
   message : Nat, part : Nat]

LEMMA OfOne ==
  ASSUME NEW T, NEW a \in T
  PROVE  <<a>> \in Seq(T)
OBVIOUS

LEMMA OfThree ==
  ASSUME NEW T, NEW a \in T, NEW b \in T, NEW c \in T
  PROVE  <<a, b, c>> \in Seq(T)
OBVIOUS

LEMMA PlanType ==
  ASSUME NEW p \in Chat!Plans
  PROVE  /\ p.messages \in Seq(Chat!Messages) /\ p.error \in Errors
         /\ \A m \in DOMAIN p.messages : m \in Nat
<1>1. p.messages \in Chat!SeqOf(Chat!Messages, MaxMessages) /\ p.error \in Errors
  BY DEF Chat!Plans
<1>2. PICK n \in 0 .. MaxMessages : p.messages \in [1 .. n -> Chat!Messages]
  BY <1>1 DEF Chat!SeqOf
<1>3. n \in Nat
  OBVIOUS
<1> QED BY <1>1, <1>2, <1>3

LEMMA LinesType ==
  ASSUME NEW p \in Chat!Plans
  PROVE  Chat!Lines(p) \in Seq(Prints)
<1> DEFINE all == [m \in DOMAIN p.messages |-> Chat!Printed(p.messages[m], m)]
<1>1. ASSUME NEW m \in DOMAIN p.messages PROVE Chat!Printed(p.messages[m], m) \in Seq(Prints)
  <2>1. m \in Nat
    BY PlanType
  <2>2. /\ Chat!Line("start", m, 0) \in Prints /\ Chat!Line("delta", m, 1) \in Prints
        /\ Chat!Line("delta", m, 2) \in Prints /\ Chat!Line("assistant", m, 0) \in Prints
        /\ Chat!Line("tool result", m, 0) \in Prints
    BY <2>1 DEF Chat!Line, Prints
  <2> DEFINE parts == IF p.messages[m].text /\ p.messages[m].streamed
                      THEN <<Chat!Line("start", m, 0), Chat!Line("delta", m, 1),
                             Chat!Line("delta", m, 2)>> ELSE <<>>
             after  == IF p.messages[m].tool # "none" THEN <<Chat!Line("tool result", m, 0)>>
                       ELSE <<>>
  <2>3. <<Chat!Line("assistant", m, 0)>> \in Seq(Prints)
    BY <2>2, OfOne
  <2>4. Chat!Printed(p.messages[m], m) = parts \o <<Chat!Line("assistant", m, 0)>> \o after
    BY DEF Chat!Printed
  <2> HIDE DEF parts, after
  <2>5. parts \in Seq(Prints) /\ after \in Seq(Prints)
    <3>1. <<Chat!Line("tool result", m, 0)>> \in Seq(Prints)
      BY <2>2, OfOne
    <3>2. <<Chat!Line("start", m, 0), Chat!Line("delta", m, 1), Chat!Line("delta", m, 2)>>
             \in Seq(Prints)
      BY <2>2, OfThree
    <3>3. <<>> \in Seq(Prints)
      OBVIOUS
    <3> QED BY <3>1, <3>2, <3>3 DEF parts, after
  <2>6. parts \o <<Chat!Line("assistant", m, 0)>> \in Seq(Prints)
    BY <2>3, <2>5
  <2> QED BY <2>4, <2>5, <2>6
<1>2. all \in Seq(Seq(Prints))
  <2>1. p.messages \in Seq(Chat!Messages)
    BY PlanType
  <2>2. DOMAIN p.messages = 1 .. Len(p.messages) /\ Len(p.messages) \in Nat
    BY <2>1
  <2> QED BY <1>1, <2>2
<1>3. FlattenSeq(all) \in Seq(Prints)
  BY <1>2, FlattenType
<1>4. Chat!FlattenSeq(all) = FlattenSeq(all)
  BY DEF Chat!FlattenSeq, FlattenSeq
<1>5. Chat!Line("init", 0, 0) \in Prints /\ Chat!Line("result", 0, 0) \in Prints
  BY DEF Chat!Line, Prints
<1> HIDE DEF all
<1>6. <<Chat!Line("init", 0, 0)>> \o Chat!FlattenSeq(all) \o <<Chat!Line("result", 0, 0)>>
        \in Seq(Prints)
  BY <1>3, <1>4, <1>5
<1> QED BY <1>6 DEF Chat!Lines, all

LEMMA TextsType ==
  ASSUME NEW p \in Chat!Plans
  PROVE  Chat!Texts(p) \in Seq(Nat \X Nat)
<1> DEFINE all == [m \in DOMAIN p.messages |-> Chat!PartsOf(p.messages[m], m)]
<1>1. ASSUME NEW m \in DOMAIN p.messages PROVE Chat!PartsOf(p.messages[m], m) \in Seq(Nat \X Nat)
  <2>1. m \in Nat
    BY PlanType
  <2>2. <<<<m, 1>>, <<m, 2>>>> \in Seq(Nat \X Nat) /\ <<>> \in Seq(Nat \X Nat)
    BY <2>1
  <2> QED BY <2>2 DEF Chat!PartsOf
<1>2. all \in Seq(Seq(Nat \X Nat))
  <2>1. p.messages \in Seq(Chat!Messages)
    BY PlanType
  <2>2. DOMAIN p.messages = 1 .. Len(p.messages) /\ Len(p.messages) \in Nat
    BY <2>1
  <2> QED BY <1>1, <2>2
<1>3. FlattenSeq(all) \in Seq(Nat \X Nat)
  BY <1>2, FlattenType
<1>4. Chat!FlattenSeq(all) = FlattenSeq(all)
  BY DEF Chat!FlattenSeq, FlattenSeq
<1>5. <<<<0, 0>>>> \in Seq(Nat \X Nat)
  OBVIOUS
<1> HIDE DEF all
<1>6. Chat!Texts(p) = IF Chat!FlattenSeq(all) = <<>> THEN <<<<0, 0>>>> ELSE Chat!FlattenSeq(all)
  BY DEF Chat!Texts, all
<1> QED BY <1>3, <1>4, <1>5, <1>6

LEMMA EventsType ==
  ASSUME plan \in [Turns -> Chat!Plans], NEW t \in Turns, t \in Nat, NEW line \in Prints
  PROVE  Chat!Events(t, line) \in Seq(Says)
<1>0. plan[t] \in Chat!Plans /\ line.message \in Nat /\ line.part \in Nat
  BY DEF Prints
<1>1. CASE line.kind = "init"
  <2>1. Chat!Event(t, "session", <<>>) \in Says
    BY DEF Chat!Event, Says
  <2>2. Chat!Events(t, line) = <<Chat!Event(t, "session", <<>>)>>
    BY <1>1 DEF Chat!Events
  <2> QED BY <2>1, <2>2
<1>2. CASE line.kind = "delta"
  <2>1. <<<<line.message, line.part>>>> \in Seq(Nat \X Nat)
    BY <1>0
  <2>2. Chat!Event(t, "text", <<<<line.message, line.part>>>>) \in Says
    BY <2>1 DEF Chat!Event, Says
  <2>3. Chat!Events(t, line) = <<Chat!Event(t, "text", <<<<line.message, line.part>>>>)>>
    BY <1>2 DEF Chat!Events
  <2> QED BY <2>2, <2>3
<1>3. CASE line.kind = "assistant"
  <2> DEFINE m == line.message
             text == IF Chat!TextOf(t, m) # <<>> /\ m \notin parser[t].streamed
                     THEN <<Chat!Event(t, "text", Chat!TextOf(t, m))>> ELSE <<>>
             tool == IF Chat!ToolOf(t, m) = "shown" THEN <<Chat!Event(t, "tool", m)>> ELSE <<>>
  <2>1. Chat!TextOf(t, m) \in Seq(Nat \X Nat)
    <3>1. <<<<m, 1>>, <<m, 2>>>> \in Seq(Nat \X Nat) /\ <<>> \in Seq(Nat \X Nat)
      BY <1>0
    <3> QED BY <3>1 DEF Chat!TextOf, Chat!PartsOf
  <2>2. Chat!Event(t, "text", Chat!TextOf(t, m)) \in Says /\ Chat!Event(t, "tool", m) \in Says
    BY <1>0, <2>1 DEF Chat!Event, Says
  <2>3. text \in Seq(Says) /\ tool \in Seq(Says)
    BY <2>2
  <2>4. Chat!Events(t, line) = text \o tool
    BY <1>3 DEF Chat!Events
  <2> HIDE DEF text, tool
  <2> QED BY <2>3, <2>4
<1>4. CASE line.kind = "tool result"
  <2>1. Chat!Event(t, "tool result", line.message) \in Says
    BY <1>0 DEF Chat!Event, Says
  <2>2. CASE line.message \notin parser[t].hidden
    <3>1. Chat!Events(t, line) = <<Chat!Event(t, "tool result", line.message)>>
      BY <1>4, <2>2 DEF Chat!Events, Chat!Event
    <3> QED BY <2>1, <3>1, OfOne
  <2>3. CASE line.message \in parser[t].hidden
    <3>1. Chat!Events(t, line) = <<>>
      BY <1>4, <2>3 DEF Chat!Events
    <3> QED BY <3>1
  <2> QED BY <2>2, <2>3
<1>5. CASE line.kind = "result"
  <2>1. Chat!ResultOf(t) \in Says
    BY <1>0, TextsType DEF Chat!ResultOf, Chat!Event, Says
  <2>2. Chat!Events(t, line) = <<Chat!ResultOf(t)>>
    BY <1>5 DEF Chat!Events
  <2> QED BY <2>1, <2>2
<1>6. CASE line.kind = "start"
  <2>1. Chat!Events(t, line) = <<>>
    BY <1>6 DEF Chat!Events
  <2> QED BY <2>1
<1> QED BY <1>1, <1>2, <1>3, <1>4, <1>5, <1>6 DEF Prints


-----------------------------------------------------------------------------
LEMMA InitChat == Chat!Init => ChatInv
<1> SUFFICES ASSUME Chat!Init PROVE ChatInv
  OBVIOUS
<1>1. [messages |-> <<>>, error |-> FALSE] \in Chat!Plans
  <2>1. <<>> \in Chat!SeqOf(Chat!Messages, MaxMessages)
    <3>1. [i \in 1 .. 0 |-> 0] = <<>> /\ [i \in 1 .. 0 |-> 0] \in [1 .. 0 -> Chat!Messages]
      OBVIOUS
    <3> QED BY <3>1, ChatAssumption DEF Chat!SeqOf
  <2> QED BY <2>1, ChatAssumption DEF Chat!Plans
<1>2. <<>> \in Seq(Shows) /\ <<>> \in Seq(Says) /\ Own(<<>>)
  BY DEF Own
<1> QED BY <1>1, <1>2 DEF Chat!Init, ChatInv, Turns

\* Nothing is shown, and no other turn begins.
LEMMA NothingShown ==
  ASSUME ChatInv, UNCHANGED <<turns, turnRunning, entries>>, inbox' \in Seq(Says),
         plan' \in [Turns -> Chat!Plans], at' \in [Turns -> Nat]
  PROVE  ChatInv'
BY DEF ChatInv, Own, AskedLast

LEMMA UserChat ==
  ASSUME ChatInv, Chat!Refuse \/ Chat!Ask \/ Chat!Stop \/ Chat!NewChat
  PROVE  ChatInv'
<1> USE DEF ChatInv, Chat!cliVars
<1>1. CASE Chat!Refuse
  <2> DEFINE e == Chat!Entry("error", 0, 0)
  <2>1. <<e>> \in Seq(Shows) /\ Len(<<e>>) = 1 /\ <<e>>[1].kind # "user" /\ <<e>>[1].turn = 0
    BY DEF Chat!Entry, Shows, Abouts
  <2>2. entries' = entries \o <<e>> /\ turnRunning = 0
        /\ UNCHANGED <<turns, turnRunning, inbox, plan, at>>
    BY <1>1 DEF Chat!Refuse
  <2> HIDE DEF e
  <2> PICK more \in Seq(Shows) : more = <<e>>
    BY <2>1
  <2>3. Own(entries \o more)
    <3>1. \A k \in 1 .. Len(more) : more[k].kind # "user" /\ more[k].turn = turnRunning
      BY <2>1, <2>2
    <3> QED BY <2>2, <3>1, MoreKeepsOwn
  <2>4. entries \o <<e>> \in Seq(Shows)
    BY <2>1
  <2> QED BY <2>2, <2>3, <2>4
<1>2. CASE Chat!Ask
  <2> PICK t \in Nat : t = turns + 1
    OBVIOUS
  <2> DEFINE e == Chat!Entry("user", t, 0)
  <2>1. e \in Shows /\ e.kind = "user" /\ e.turn = t
    BY DEF Chat!Entry, Shows, Abouts
  <2>2. /\ turns' = t /\ turnRunning' = t /\ t \in 0 .. t
        /\ entries' = Append(entries, e) /\ UNCHANGED <<inbox, plan, at>>
    BY <1>2 DEF Chat!Ask, Chat!Run
  <2> HIDE DEF e
  <2>3. Own(entries') /\ AskedLast(entries', t)
    BY <2>1, <2>2, QuestionKeepsOwn
  <2>4. entries' \in Seq(Shows)
    BY <2>1, <2>2
  <2> QED BY <2>2, <2>3, <2>4
<1>3. CASE Chat!Stop
  <2> DEFINE e == Chat!Entry("note", turnRunning, 0)
  <2>1. <<e>> \in Seq(Shows) /\ Len(<<e>>) = 1 /\ <<e>>[1].kind # "user"
        /\ <<e>>[1].turn = turnRunning
    BY DEF Chat!Entry, Shows, Abouts
  <2>2. entries' = entries \o <<e>> /\ turnRunning' = 0
        /\ UNCHANGED <<turns, inbox, plan, at>>
    BY <1>3 DEF Chat!Stop
  <2> HIDE DEF e
  <2> PICK more \in Seq(Shows) : more = <<e>>
    BY <2>1
  <2>3. Own(entries \o more)
    <3>1. \A k \in 1 .. Len(more) : more[k].kind # "user" /\ more[k].turn = turnRunning
      BY <2>1
    <3>2. turnRunning \in Nat
      OBVIOUS
    <3> QED BY <3>1, <3>2, MoreKeepsOwn
  <2>4. entries \o <<e>> \in Seq(Shows)
    BY <2>1
  <2> QED BY <2>2, <2>3, <2>4
<1>4. CASE Chat!NewChat
  <2>1. entries' = <<>> /\ turnRunning' = 0 /\ UNCHANGED <<turns, inbox, plan, at>>
    BY <1>4 DEF Chat!NewChat
  <2>2. Own(<<>>) /\ <<>> \in Seq(Shows)
    BY DEF Own
  <2> QED BY <2>1, <2>2
<1> QED BY <1>1, <1>2, <1>3, <1>4

\* What an event of the turn in progress adds to the list.
LEMMA ShownAdds ==
  ASSUME ChatInv, NEW ev \in Says
  PROVE  \E more \in Seq(Shows) :
           /\ Chat!Shown(ev) = entries \o more
           /\ \A k \in 1 .. Len(more) : more[k].kind # "user" /\ more[k].turn = ev.turn
<1> DEFINE texts == [k \in DOMAIN ev.about |-> Chat!Entry("answer", ev.turn, ev.about[k])]
<1>0. ev.turn \in Nat
  BY DEF Says
<1>1. CASE ev.kind \in {"text", "done"}
  <2>1. ev.about \in Seq(Nat \X Nat)
    BY <1>1 DEF Says
  <2>2. DOMAIN ev.about = 1 .. Len(ev.about) /\ Len(ev.about) \in Nat
    BY <2>1
  <2>3. \A k \in 1 .. Len(ev.about) : Chat!Entry("answer", ev.turn, ev.about[k]) \in Shows
    BY <1>0, <2>1 DEF Chat!Entry, Shows, Abouts
  <2>4. texts \in Seq(Shows) /\ Len(texts) = Len(ev.about)
    BY <2>2, <2>3
  <2>5. \A k \in 1 .. Len(texts) : texts[k].kind # "user" /\ texts[k].turn = ev.turn
    BY <2>2, <2>4 DEF Chat!Entry
  <2>6. entries \o <<>> = entries /\ <<>> \in Seq(Shows) /\ Len(<<>>) = 0
    BY DEF ChatInv
  <2>7. Chat!Shown(ev) \in {entries \o texts, entries}
    <3>1. CASE ev.kind = "text"
      BY <3>1 DEF Chat!Shown
    <3>2. CASE ev.kind = "done" /\ ~Chat!AnsweredSince(entries)
      BY <3>2 DEF Chat!Shown
    <3>3. CASE ev.kind = "done" /\ Chat!AnsweredSince(entries)
      BY <3>3 DEF Chat!Shown
    <3> QED BY <1>1, <3>1, <3>2, <3>3
  <2> HIDE DEF texts
  <2>8. CASE Chat!Shown(ev) = entries \o texts
    BY <2>4, <2>5, <2>8
  <2>9. CASE Chat!Shown(ev) = entries
    <3> PICK more \in Seq(Shows) : more = <<>>
      BY <2>6
    <3>1. \A k \in 1 .. Len(more) : more[k].kind # "user" /\ more[k].turn = ev.turn
      BY <2>6
    <3> QED BY <2>6, <2>9, <3>1
  <2> QED BY <2>7, <2>8, <2>9
<1>2. CASE ev.kind \in {"tool", "failed", "error"}
  <2> DEFINE e == IF ev.kind = "tool" THEN Chat!Entry("tool", ev.turn, ev.about)
                  ELSE Chat!Entry("error", ev.turn, 0)
  <2>1. e \in Shows /\ e.kind # "user" /\ e.turn = ev.turn
    <3>1. ev.kind = "tool" => ev.about \in Nat
      BY DEF Says
    <3> QED BY <1>0, <3>1 DEF Chat!Entry, Shows, Abouts
  <2>2. Chat!Shown(ev) = Append(entries, e)
    <3>1. CASE ev.kind = "tool"
      BY <3>1 DEF Chat!Shown
    <3>2. CASE ev.kind \in {"failed", "error"}
      BY <3>2 DEF Chat!Shown
    <3> QED BY <1>2, <3>1, <3>2
  <2> HIDE DEF e
  <2>3. <<e>> \in Seq(Shows)
    BY <2>1, OfOne
  <2>4. Append(entries, e) = entries \o <<e>>
    BY <2>1 DEF ChatInv
  <2> PICK more \in Seq(Shows) : more = <<e>>
    BY <2>3
  <2>5. \A k \in 1 .. Len(more) : more[k] = e
    BY <2>1
  <2>6. Chat!Shown(ev) = entries \o more
    BY <2>2, <2>4
  <2> QED BY <2>1, <2>5, <2>6
<1>3. CASE ev.kind \in {"session", "finished", "tool result"}
  <2>1. Chat!Shown(ev) = entries
    BY <1>3 DEF Chat!Shown
  <2>2. entries \o <<>> = entries /\ <<>> \in Seq(Shows) /\ Len(<<>>) = 0
    BY DEF ChatInv
  <2>3. \A k \in 1 .. Len(<<>>) : <<>>[k].kind # "user" /\ <<>>[k].turn = ev.turn
    BY <2>2
  <2> PICK more \in Seq(Shows) : more = <<>>
    BY <2>2
  <2> QED BY <2>1, <2>2, <2>3
<1> QED BY <1>1, <1>2, <1>3 DEF Says

LEMMA HandleChat ==
  ASSUME ChatInv, Chat!Handle
  PROVE  ChatInv'
<1> USE DEF ChatInv
<1> DEFINE ev == Head(inbox)
<1>1. ev \in Says /\ inbox' = Tail(inbox) /\ inbox' \in Seq(Says)
      /\ UNCHANGED <<turns, plan, at>>
  BY DEF Chat!Handle, Chat!cliVars
<1>2. CASE ev.turn = turnRunning
  <2>1. entries' = Chat!Shown(ev) /\ turnRunning' \in {0, turnRunning}
    BY <1>2 DEF Chat!Handle, Chat!Apply
  <2> HIDE DEF ev
  <2> PICK more \in Seq(Shows) :
        /\ Chat!Shown(ev) = entries \o more
        /\ \A k \in 1 .. Len(more) : more[k].kind # "user" /\ more[k].turn = ev.turn
    BY <1>1, ShownAdds
  <2>2. turnRunning \in Nat
    OBVIOUS
  <2>3. Own(entries \o more) /\ (turnRunning # 0 => AskedLast(entries \o more, turnRunning))
    BY <1>2, <2>2, MoreKeepsOwn
  <2>4. entries \o more \in Seq(Shows)
    OBVIOUS
  <2> QED BY <1>1, <2>1, <2>3, <2>4
<1>3. CASE ev.turn # turnRunning
  <2>1. UNCHANGED <<entries, turnRunning>>
    BY <1>3 DEF Chat!Handle
  <2> QED BY <1>1, <2>1, NothingShown
<1> QED BY <1>2, <1>3

LEMMA TaskChat ==
  ASSUME ChatInv, NEW t \in Turns, Chat!Task(t) \/ Chat!Cli(t)
  PROVE  ChatInv'
<1> USE DEF ChatInv, Chat!uiVars, Chat!cliVars
<1>0. /\ UNCHANGED <<turns, turnRunning, entries>>
  BY DEF Chat!Task, Chat!Cli, Chat!MakeFolder, Chat!Spawn, Chat!WritePrompt, Chat!ReadLine,
         Chat!EndOfOutput, Chat!Exited, Chat!Kill, Chat!ReadFails, Chat!CloseOutput, Chat!Exit
<1>t. t \in Nat
  BY DEF Turns, Chat!Turns
<1>1. \A how \in {"failed", "finished"} : Chat!Event(t, how, <<>>) \in Says
  BY <1>t DEF Chat!Event, Says
<1>2. ASSUME NEW how \in {"failed", "finished"}, Chat!Finish(t, how)
      PROVE  inbox' \in Seq(Says)
  <2> PICK e \in Says : e = Chat!Event(t, how, <<>>)
    BY <1>1
  <2>1. inbox' = Append(inbox, e)
    BY <1>2 DEF Chat!Finish
  <2> QED BY <2>1
<1>3. CASE Chat!ReadLine(t)
  <2> DEFINE line == Chat!Lines(plan[t])[at'[t]]
  <2>1. /\ at[t] < Len(Chat!Lines(plan[t])) /\ at' = [at EXCEPT ![t] = @ + 1]
        /\ inbox' = inbox \o Chat!Events(t, line) /\ UNCHANGED plan
    BY <1>3 DEF Chat!ReadLine
  <2>2. Chat!Lines(plan[t]) \in Seq(Prints)
    BY LinesType
  <2>3. at' \in [Turns -> Nat] /\ at'[t] \in 1 .. Len(Chat!Lines(plan[t]))
    BY <2>1, <2>2
  <2>4. line \in Prints
    BY <2>2, <2>3
  <2> HIDE DEF line
  <2>5. Chat!Events(t, line) \in Seq(Says)
    BY <1>t, <2>4, EventsType
  <2>6. inbox' \in Seq(Says)
    BY <2>1, <2>5
  <2> QED BY <1>0, <2>1, <2>3, <2>6, NothingShown
<1>4. CASE Chat!MakeFolder(t)
  <2>1. inbox' \in Seq(Says)
    BY <1>2, <1>4 DEF Chat!MakeFolder
  <2> QED BY <1>0, <1>4, <2>1, NothingShown DEF Chat!MakeFolder
<1>5. CASE Chat!Spawn(t)
  <2>1. inbox' \in Seq(Says) /\ UNCHANGED at
    BY <1>2, <1>5 DEF Chat!Spawn
  <2>2. plan' \in [Turns -> Chat!Plans]
    BY <1>5 DEF Chat!Spawn
  <2> QED BY <1>0, <2>1, <2>2, NothingShown
<1>6. CASE Chat!WritePrompt(t)
  <2>1. inbox' \in Seq(Says)
    BY <1>2, <1>6 DEF Chat!WritePrompt
  <2> QED BY <1>0, <1>6, <2>1, NothingShown DEF Chat!WritePrompt
<1>7. CASE Chat!EndOfOutput(t) \/ Chat!CloseOutput(t) \/ Chat!Exit(t)
  BY <1>0, <1>7, NothingShown DEF Chat!EndOfOutput, Chat!CloseOutput, Chat!Exit
<1>8. CASE Chat!Exited(t) \/ Chat!Kill(t) \/ Chat!ReadFails(t)
  <2>1. inbox' \in Seq(Says)
    <3>1. Chat!Finish(t, "failed") \/ Chat!Finish(t, "finished")
      BY <1>8 DEF Chat!Exited, Chat!Kill, Chat!ReadFails
    <3> QED BY <1>2, <3>1
  <2> QED BY <1>0, <1>8, <2>1, NothingShown DEF Chat!Exited, Chat!Kill, Chat!ReadFails
<1> QED BY <1>3, <1>4, <1>5, <1>6, <1>7, <1>8 DEF Chat!Task, Chat!Cli

LEMMA StepChat == ChatInv /\ [Chat!Next]_(Chat!vars) => ChatInv'
<1> SUFFICES ASSUME ChatInv, [Chat!Next]_(Chat!vars) PROVE ChatInv'
  OBVIOUS
<1>1. CASE UNCHANGED Chat!vars
  BY <1>1, NothingShown DEF ChatInv, Chat!vars, Chat!uiVars, Chat!cliVars
<1> QED BY <1>1, UserChat, HandleChat, TaskChat DEF Chat!Next, Turns

\* What follows a question in the panel is its own answer, whatever the turns
\* that were stopped still deliver.
THEOREM OwnAnswersHolds == Chat!Spec => []OwnAnswersOnly
<1>1. ChatInv => OwnAnswersOnly
  <2> SUFFICES ASSUME ChatInv PROVE Chat!OwnAnswersOnly
    BY DEF OwnAnswersOnly
  <2>1. DOMAIN entries = 1 .. Len(entries)
    BY DEF ChatInv
  <2> QED BY <2>1, Zenon DEF ChatInv, Own, Chat!OwnAnswersOnly
<1> QED BY <1>1, InitChat, StepChat, PTL DEF Chat!Spec

-----------------------------------------------------------------------------
(* Sequences that are flattened *)

\* The partial results of flattening a sequence.
Partial(T, s, f) ==
  /\ f \in [0 .. Len(s) -> Seq(T)]
  /\ f[0] = <<>> /\ FlattenSeq(s) = f[Len(s)]
  /\ \A k \in 1 .. Len(s) : f[k] = f[k - 1] \o s[k]

LEMMA HasPartial ==
  ASSUME NEW T, NEW s \in Seq(Seq(T))
  PROVE  \E f : Partial(T, s, f)
<1> PICK f \in [0 .. Len(s) -> Seq(T)] :
           /\ f[0] = <<>> /\ FlattenSeq(s) = f[Len(s)]
           /\ \A k \in 1 .. Len(s) : f[k] = f[k - 1] \o s[k]
  BY FlattenSteps
<1>1. Partial(T, s, f)
  BY DEF Partial
<1> QED BY <1>1

LEMMA PartialStep ==
  ASSUME NEW T, NEW s \in Seq(Seq(T)), NEW f, Partial(T, s, f),
         NEW k \in Nat, k + 1 <= Len(s)
  PROVE  /\ f[k] \in Seq(T) /\ s[k + 1] \in Seq(T)
         /\ f[k + 1] = f[k] \o s[k + 1]
<1>1. Len(s) \in Nat /\ k + 1 \in 1 .. Len(s) /\ (k + 1) - 1 = k /\ k \in 0 .. Len(s)
  OBVIOUS
<1>2. f \in [0 .. Len(s) -> Seq(T)] /\ \A i \in 1 .. Len(s) : f[i] = f[i - 1] \o s[i]
  BY DEF Partial
<1>3. f[k] \in Seq(T)
  BY <1>1, <1>2
<1>4. s[k + 1] \in Seq(T)
  BY <1>1
<1>5. f[k + 1] = f[(k + 1) - 1] \o s[k + 1]
  BY <1>1, <1>2
<1>6. f[k + 1] = f[k] \o s[k + 1]
  BY <1>1, <1>5
<1> QED BY <1>3, <1>4, <1>6


LEMMA PartialEnds ==
  ASSUME NEW T, NEW s \in Seq(Seq(T)), NEW f, Partial(T, s, f)
  PROVE  f[0] = <<>> /\ f[Len(s)] = FlattenSeq(s) /\ f[Len(s)] \in Seq(T)
<1>1. Len(s) \in 0 .. Len(s)
  OBVIOUS
<1>2. f \in [0 .. Len(s) -> Seq(T)] /\ f[0] = <<>> /\ FlattenSeq(s) = f[Len(s)]
  BY DEF Partial
<1> QED BY <1>1, <1>2

\* Induction up to a bound.
LEMMA UpTo ==
  ASSUME NEW n \in Nat, NEW S, 0 \in S,
         \A k \in Nat : k \in S /\ k + 1 <= n => k + 1 \in S
  PROVE  n \in S
<1> DEFINE R == {k \in Nat : k <= n => k \in S}
<1>1. 0 \in R /\ \A k \in Nat : k \in R => k + 1 \in R
  OBVIOUS
<1> HIDE DEF R
<1>2. Nat \subseteq R
  BY <1>1, SetInduction
<1>3. n \in R
  BY <1>2
<1> QED BY <1>3 DEF R

Stepwise(T, s, f) ==
  \A k \in Nat : k + 1 <= Len(s) =>
    f[k] \in Seq(T) /\ s[k + 1] \in Seq(T) /\ f[k + 1] = f[k] \o s[k + 1]

LEMMA PartialSteps ==
  ASSUME NEW T, NEW s \in Seq(Seq(T)), NEW f, Partial(T, s, f)
  PROVE  Stepwise(T, s, f)
<1> SUFFICES ASSUME NEW k \in Nat, k + 1 <= Len(s)
             PROVE  f[k] \in Seq(T) /\ s[k + 1] \in Seq(T) /\ f[k + 1] = f[k] \o s[k + 1]
  BY DEF Stepwise
<1> QED BY PartialStep, Zenon

Associative(T) == \A x, y, z \in Seq(T) : (x \o y) \o z = x \o (y \o z)

LEMMA Associates ==
  ASSUME NEW T
  PROVE  Associative(T)
BY ConcatAssociative DEF Associative

LEMMA FlattenConcat ==
  ASSUME NEW T, NEW a \in Seq(Seq(T)), NEW b \in Seq(Seq(T))
  PROVE  FlattenSeq(a \o b) = FlattenSeq(a) \o FlattenSeq(b)
<1>0. \A x, y, z \in Seq(T) : (x \o y) \o z = x \o (y \o z)
  <2>1. Associative(T)
    BY Associates, Zenon
  <2> QED BY <2>1, Zenon DEF Associative
<1>a. \A x \in Seq(T) : x \o <<>> = x
  BY ConcatEmptySeq
<1>s. PICK s : s = a \o b
  OBVIOUS
<1>n. PICK n \in Nat, l \in Nat : n = Len(a) /\ l = Len(b)
  OBVIOUS
<1>1. s \in Seq(Seq(T)) /\ Len(s) = n + l
  BY <1>s, <1>n, ConcatProperties
<1>2. \A k \in Nat : k + 1 <= n => s[k + 1] = a[k + 1]
  BY <1>s, <1>n, ConcatProperties
<1>3. \A k \in Nat : k + 1 <= l => s[(n + k) + 1] = b[k + 1]
  <2>1. \A i \in 1 .. l : s[n + i] = b[i]
    BY <1>s, <1>n, ConcatProperties
  <2> SUFFICES ASSUME NEW k \in Nat, k + 1 <= l PROVE s[(n + k) + 1] = b[k + 1]
    OBVIOUS
  <2>2. k + 1 \in 1 .. l /\ (n + k) + 1 = n + (k + 1)
    BY <1>n
  <2>3. s[n + (k + 1)] = b[k + 1]
    BY <2>1, <2>2, Zenon
  <2> QED BY <2>2, <2>3
<1>4. s \in Seq(Seq(T))
  BY <1>1
<1>p. PICK f : Partial(T, s, f)
  BY <1>4, HasPartial
<1>q. PICK g : Partial(T, a, g)
  BY HasPartial
<1>r. PICK h : Partial(T, b, h)
  BY HasPartial
<1>f. \A k \in Nat : k + 1 <= Len(s) => f[k + 1] = f[k] \o s[k + 1]
  <2>1. Stepwise(T, s, f)
    BY <1>4, <1>p, PartialSteps, Zenon
  <2> QED BY <2>1, Zenon DEF Stepwise
<1>g. \A k \in Nat : k + 1 <= n => g[k + 1] = g[k] \o a[k + 1]
  <2>1. Stepwise(T, a, g)
    BY <1>q, PartialSteps, Zenon
  <2> QED BY <1>n, <2>1, Zenon DEF Stepwise
<1>h. \A k \in Nat : k + 1 <= l =>
        h[k + 1] = h[k] \o b[k + 1] /\ h[k] \in Seq(T) /\ b[k + 1] \in Seq(T)
  <2>1. Stepwise(T, b, h)
    BY <1>r, PartialSteps, Zenon
  <2> QED BY <1>n, <2>1, Zenon DEF Stepwise
<1>5. f[0] = <<>> /\ g[0] = <<>> /\ h[0] = <<>>
  BY <1>4, <1>p, <1>q, <1>r, PartialEnds
<1>6. g[n] = FlattenSeq(a) /\ g[n] \in Seq(T) /\ h[l] = FlattenSeq(b)
  BY <1>n, <1>q, <1>r, PartialEnds
<1>7. f[n + l] = FlattenSeq(s)
  BY <1>1, <1>4, <1>p, PartialEnds
<1>i. n \in Nat /\ l \in Nat /\ \A k \in Nat : k + 1 \in Nat /\ n + k \in Nat /\ n + 0 = n
  BY <1>n
<1>8. f[n] = g[n]
  <2> DEFINE S == {k \in Nat : f[k] = g[k]}
  <2>1. ASSUME NEW k \in Nat, k + 1 <= n, f[k] = g[k] PROVE f[k + 1] = g[k + 1]
    <3>1. k + 1 <= Len(s)
      BY <1>1, <1>n, <2>1
    <3>2. f[k + 1] = f[k] \o s[k + 1] /\ g[k + 1] = g[k] \o a[k + 1] /\ s[k + 1] = a[k + 1]
      BY <1>2, <1>f, <1>g, <2>1, <3>1
    <3> QED BY <2>1, <3>2, Zenon
  <2>2. 0 \in S /\ \A k \in Nat : k \in S /\ k + 1 <= n => k + 1 \in S
    BY <1>5, <1>i, <2>1, Zenon
  <2> HIDE DEF S
  <2>3. n \in S
    BY <1>n, <2>2, UpTo
  <2> QED BY <2>3, Zenon DEF S
<1>9. f[n + l] = g[n] \o h[l]
  <2> DEFINE S == {k \in Nat : f[n + k] = g[n] \o h[k]}
  <2>1. ASSUME NEW k \in Nat, k + 1 <= l, f[n + k] = g[n] \o h[k]
        PROVE  f[n + (k + 1)] = g[n] \o h[k + 1]
    <3>1. (n + k) + 1 <= Len(s) /\ n + k \in Nat /\ (n + k) + 1 = n + (k + 1)
      BY <1>1, <1>n, <2>1
    <3>2. f[n + (k + 1)] = (g[n] \o h[k]) \o b[k + 1]
      BY <1>3, <1>f, <2>1, <3>1, Zenon
    <3>3. h[k + 1] = h[k] \o b[k + 1] /\ h[k] \in Seq(T) /\ b[k + 1] \in Seq(T)
      BY <1>h, <2>1
    <3>4. (g[n] \o h[k]) \o b[k + 1] = g[n] \o (h[k] \o b[k + 1])
      BY <1>0, <1>6, <3>3, Zenon
    <3> QED BY <3>2, <3>3, <3>4, Zenon
  <2>2. f[n + 0] = g[n] \o h[0]
    BY <1>5, <1>6, <1>8, <1>a, <1>i, Zenon
  <2>3. 0 \in S /\ \A k \in Nat : k \in S /\ k + 1 <= l => k + 1 \in S
    BY <1>i, <2>1, <2>2, Zenon
  <2> HIDE DEF S
  <2>4. l \in S
    BY <1>n, <2>3, UpTo
  <2> QED BY <2>4, Zenon DEF S
<1> QED BY <1>6, <1>7, <1>9, <1>s, Zenon

LEMMA FlattenNone == FlattenSeq(<<>>) = <<>>
BY DEF FlattenSeq

LEMMA FlattenOne ==
  ASSUME NEW T, NEW w \in Seq(T)
  PROVE  FlattenSeq(<<w>>) = w
<1> DEFINE s == <<w>>
<1>1. s \in Seq(Seq(T)) /\ Len(s) = 1 /\ s[1] = w /\ 1 \in 1 .. Len(s)
  OBVIOUS
<1> HIDE DEF s
<1>p. PICK f : Partial(T, s, f)
  BY <1>1, HasPartial, Zenon
<1> /\ f \in [0 .. Len(s) -> Seq(T)]
    /\ f[0] = <<>> /\ FlattenSeq(s) = f[Len(s)]
    /\ \A k \in 1 .. Len(s) : f[k] = f[k - 1] \o s[k]
  BY <1>p, Zenon DEF Partial
<1>2. f[1] = <<>> \o w
  BY <1>1
<1>3. <<>> \o w = w
  BY ConcatEmptySeq
<1>4. FlattenSeq(s) = w
  BY <1>1, <1>2, <1>3
<1> QED BY <1>4 DEF s

LEMMA FlattenEmpties ==
  ASSUME NEW T, NEW s \in Seq(Seq(T)), \A k \in 1 .. Len(s) : s[k] = <<>>
  PROVE  FlattenSeq(s) = <<>>
<1> PICK f \in [0 .. Len(s) -> Seq(T)] :
      /\ f[0] = <<>> /\ FlattenSeq(s) = f[Len(s)]
      /\ \A k \in 1 .. Len(s) : f[k] = f[k - 1] \o s[k]
  BY FlattenSteps, Zenon
<1> DEFINE S == {k \in Nat : k <= Len(s) => f[k] = <<>>}
<1>0. Len(s) \in Nat /\ <<>> \in Seq(T) /\ <<>> \o <<>> = <<>>
  OBVIOUS
<1>1. 0 \in S
  OBVIOUS
<1>2. ASSUME NEW k \in Nat, k \in S PROVE k + 1 \in S
  <2> SUFFICES ASSUME k + 1 <= Len(s) PROVE f[k + 1] = <<>>
    OBVIOUS
  <2>1. k + 1 \in 1 .. Len(s) /\ (k + 1) - 1 = k /\ k <= Len(s)
    BY <1>0
  <2>2. f[k + 1] = f[k] \o s[k + 1] /\ s[k + 1] = <<>> /\ f[k] = <<>>
    BY <1>2, <2>1
  <2> QED BY <1>0, <2>2
<1> HIDE DEF S
<1>3. Nat \subseteq S
  BY <1>1, <1>2, SetInduction
<1> QED BY <1>0, <1>3 DEF S

\* One by one.
LEMMA FlattenSingles ==
  ASSUME NEW T, NEW w \in Seq(T)
  PROVE  FlattenSeq([k \in DOMAIN w |-> <<w[k]>>]) = w
<1> DEFINE s == [k \in DOMAIN w |-> <<w[k]>>]
<1>1. Len(w) \in Nat /\ DOMAIN w = 1 .. Len(w) /\ \A k \in 1 .. Len(w) : w[k] \in T
  OBVIOUS
<1>2. s \in Seq(Seq(T)) /\ Len(s) = Len(w) /\ \A k \in 1 .. Len(w) : s[k] = <<w[k]>>
  <2>1. \A k \in 1 .. Len(w) : <<w[k]>> \in Seq(T)
    BY <1>1
  <2> QED BY <1>1, <2>1
<1> HIDE DEF s
<1> PICK f \in [0 .. Len(s) -> Seq(T)] :
      /\ f[0] = <<>> /\ FlattenSeq(s) = f[Len(s)]
      /\ \A k \in 1 .. Len(s) : f[k] = f[k - 1] \o s[k]
  BY <1>2, FlattenSteps, Zenon
<1> DEFINE S == {k \in Nat : k <= Len(w) => f[k] = SubSeq(w, 1, k)}
<1>3. 0 \in S
  BY SubSeqEmpty
<1>4. ASSUME NEW k \in Nat, k \in S PROVE k + 1 \in S
  <2> SUFFICES ASSUME k + 1 <= Len(w) PROVE f[k + 1] = SubSeq(w, 1, k + 1)
    OBVIOUS
  <2>1. /\ k + 1 \in 1 .. Len(w) /\ (k + 1) - 1 = k /\ k <= Len(w)
        /\ 1 \in 1 .. Len(w) /\ k + 1 \in 1 .. Len(s)
    BY <1>1, <1>2
  <2>2. f[k + 1] = SubSeq(w, 1, k) \o <<w[k + 1]>>
    BY <1>2, <1>4, <2>1
  <2>3. SubSeq(w, 1, k + 1) = SubSeq(w, 1, (k + 1) - 1) \o <<w[k + 1]>>
    BY <2>1, SubSeqRecursiveSecond
  <2> QED BY <2>1, <2>2, <2>3
<1> HIDE DEF S
<1>5. Nat \subseteq S
  BY <1>3, <1>4, SetInduction
<1>6. f[Len(w)] = SubSeq(w, 1, Len(w))
  BY <1>1, <1>5 DEF S
<1>7. SubSeq(w, 1, Len(w)) = w
  BY SubSeqFull
<1>8. FlattenSeq(s) = w
  BY <1>2, <1>6, <1>7
<1> QED BY <1>8 DEF s

\* What is closed under putting together holds of the whole.
LEMMA FlattenClosed ==
  ASSUME NEW T, NEW P, P \subseteq Seq(T), <<>> \in P, \A a, b \in P : a \o b \in P,
         NEW s \in Seq(P)
  PROVE  FlattenSeq(s) \in P
<1>1. s \in Seq(Seq(T)) /\ Len(s) \in Nat /\ \A k \in 1 .. Len(s) : s[k] \in P
  BY SeqMonotonic
<1>p. PICK f : Partial(T, s, f)
  BY <1>1, HasPartial, Zenon
<1> /\ f \in [0 .. Len(s) -> Seq(T)]
    /\ f[0] = <<>> /\ FlattenSeq(s) = f[Len(s)]
    /\ \A k \in 1 .. Len(s) : f[k] = f[k - 1] \o s[k]
  BY <1>p, Zenon DEF Partial
<1> DEFINE S == {k \in Nat : k <= Len(s) => f[k] \in P}
<1>2. 0 \in S
  OBVIOUS
<1>3. ASSUME NEW k \in Nat, k \in S PROVE k + 1 \in S
  <2> SUFFICES ASSUME k + 1 <= Len(s) PROVE f[k + 1] \in P
    OBVIOUS
  <2>1. k + 1 \in 1 .. Len(s) /\ (k + 1) - 1 = k /\ k <= Len(s)
    BY <1>1
  <2>2. f[k + 1] = f[k] \o s[k + 1] /\ s[k + 1] \in P /\ f[k] \in P
    BY <1>1, <1>3, <2>1
  <2> QED BY <2>2
<1> HIDE DEF S
<1>4. Nat \subseteq S
  BY <1>2, <1>3, SetInduction
<1> QED BY <1>1, <1>4 DEF S

\* What the elements of a sequence amount to.
Mapped(g, s) == FlattenSeq([i \in DOMAIN s |-> g[s[i]]])

Joins(g, a, b) == Mapped(g, a \o b) = Mapped(g, a) \o Mapped(g, b)

LEMMA MappedMore ==
  ASSUME NEW T, NEW D, NEW g \in [D -> Seq(T)], NEW es \in Seq(D), NEW more \in Seq(D)
  PROVE  Mapped(g, es) \in Seq(T) /\ Mapped(g, more) \in Seq(T) /\ Joins(g, es, more)
<1> DEFINE F(s) == [i \in DOMAIN s |-> g[s[i]]]
           all == es \o more
<1>0. ASSUME NEW s \in Seq(D)
      PROVE  /\ F(s) \in Seq(Seq(T)) /\ Len(F(s)) = Len(s) /\ Len(s) \in Nat
             /\ \A i \in 1 .. Len(s) : F(s)[i] = g[s[i]]
  <2>1. Len(s) \in Nat /\ DOMAIN s = 1 .. Len(s)
    OBVIOUS
  <2>2. \A i \in 1 .. Len(s) : g[s[i]] \in Seq(T)
    OBVIOUS
  <2> QED BY <2>1, <2>2
<1>1. /\ all \in Seq(D) /\ Len(all) = Len(es) + Len(more)
      /\ \A i \in 1 .. Len(es) + Len(more) :
           all[i] = IF i <= Len(es) THEN es[i] ELSE more[i - Len(es)]
  BY ConcatProperties
<1> HIDE DEF all, F
<1>2. F(all) \in Seq(Seq(T)) /\ F(es) \in Seq(Seq(T)) /\ F(more) \in Seq(Seq(T))
  BY <1>0, <1>1
<1>3. /\ F(es) \o F(more) \in Seq(Seq(T))
      /\ Len(F(es) \o F(more)) = Len(es) + Len(more)
      /\ \A i \in 1 .. Len(es) + Len(more) :
           (F(es) \o F(more))[i] = IF i <= Len(es) THEN F(es)[i] ELSE F(more)[i - Len(es)]
  <2>1. Len(F(es)) = Len(es) /\ Len(F(more)) = Len(more)
    BY <1>0
  <2>2. /\ F(es) \o F(more) \in Seq(Seq(T))
        /\ Len(F(es) \o F(more)) = Len(F(es)) + Len(F(more))
        /\ \A i \in 1 .. Len(F(es)) + Len(F(more)) :
             (F(es) \o F(more))[i] =
               IF i <= Len(F(es)) THEN F(es)[i] ELSE F(more)[i - Len(F(es))]
    BY <1>2, ConcatProperties
  <2> QED BY <2>1, <2>2
<1>4. F(all) = F(es) \o F(more)
  <2>1. ASSUME NEW i \in 1 .. Len(F(all)) PROVE F(all)[i] = (F(es) \o F(more))[i]
    <3>1. /\ Len(F(all)) = Len(es) + Len(more) /\ Len(es) \in Nat /\ Len(more) \in Nat
          /\ F(all)[i] = g[all[i]]
      BY <1>0, <1>1
    <3>2. CASE i <= Len(es)
      <4>1. i \in 1 .. Len(es) /\ i \in 1 .. Len(es) + Len(more)
        BY <3>1, <3>2
      <4>2. all[i] = es[i] /\ (F(es) \o F(more))[i] = F(es)[i]
        BY <1>1, <1>3, <3>2, <4>1
      <4> QED BY <1>0, <3>1, <4>1, <4>2
    <3>3. CASE i > Len(es)
      <4>1. i - Len(es) \in 1 .. Len(more) /\ i \in 1 .. Len(es) + Len(more) /\ ~(i <= Len(es))
        BY <3>1, <3>3
      <4>2. all[i] = more[i - Len(es)] /\ (F(es) \o F(more))[i] = F(more)[i - Len(es)]
        BY <1>1, <1>3, <4>1
      <4>3. F(more)[i - Len(es)] = g[more[i - Len(es)]]
        BY <1>0, <4>1
      <4> QED BY <3>1, <4>2, <4>3, Zenon
    <3>4. i <= Len(es) \/ i > Len(es)
      BY <3>1
    <3> QED BY <3>2, <3>3, <3>4
  <2>2. Len(F(all)) = Len(F(es) \o F(more))
    BY <1>0, <1>1, <1>3
  <2> QED BY <1>2, <1>3, <2>1, <2>2, SeqEqual
<1>5. FlattenSeq(F(all)) = FlattenSeq(F(es)) \o FlattenSeq(F(more))
  BY <1>2, <1>4, FlattenConcat
<1>6. FlattenSeq(F(es)) \in Seq(T) /\ FlattenSeq(F(more)) \in Seq(T)
  BY <1>2, FlattenType
<1> QED BY <1>5, <1>6 DEF Joins, Mapped, all, F

LEMMA MappedOne ==
  ASSUME NEW g, NEW D, NEW T, g \in [D -> Seq(T)], NEW e \in D
  PROVE  Mapped(g, <<e>>) = g[e] /\ Mapped(g, <<>>) = <<>>
<1>1. [i \in DOMAIN <<e>> |-> g[<<e>>[i]]] = <<g[e]>>
  OBVIOUS
<1>2. [i \in DOMAIN <<>> |-> g[<<>>[i]]] = <<>>
  OBVIOUS
<1>3. g[e] \in Seq(T)
  OBVIOUS
<1> QED BY <1>1, <1>2, <1>3, FlattenOne, FlattenNone DEF Mapped

LEMMA MappedNone ==
  ASSUME NEW T, NEW D, NEW g \in [D -> Seq(T)], NEW s \in Seq(D),
         \A i \in 1 .. Len(s) : g[s[i]] = <<>>
  PROVE  Mapped(g, s) = <<>>
<1> DEFINE w == [i \in DOMAIN s |-> g[s[i]]]
<1>1. w \in Seq(Seq(T)) /\ \A i \in 1 .. Len(w) : w[i] = <<>>
  <2>1. DOMAIN s = 1 .. Len(s) /\ Len(s) \in Nat /\ <<>> \in Seq(T)
    OBVIOUS
  <2> QED BY <2>1
<1> HIDE DEF w
<1>2. FlattenSeq(w) = <<>>
  BY <1>1, FlattenEmpties
<1> QED BY <1>2 DEF Mapped, w

-----------------------------------------------------------------------------
(* What the panel shows of a turn, what is on its way to it, and what the   *)
(* CLI said so far                                                          *)

Answers(t) == [e \in Shows |-> IF e.kind = "answer" /\ e.turn = t THEN <<e.about>> ELSE <<>>]
Delivers == [e \in Says |-> IF e.kind = "text" THEN e.about ELSE <<>>]

AnswersIn(es, t) == Mapped(Answers(t), es)

\* The CLI prints the text of message m as it is made.
Streams(p, m) == p.messages[m].text /\ p.messages[m].streamed

TextOf(p) ==
  [line \in Prints |->
     CASE line.kind = "delta" -> <<<<line.message, line.part>>>>
       [] line.kind = "assistant" /\ ~Streams(p, line.message) ->
            Chat!PartsOf(p.messages[line.message], line.message)
       [] OTHER -> <<>>]

Said(p, lines) == Mapped(TextOf(p), lines)

SaidTo(p, n) == Said(p, SubSeq(Chat!Lines(p), 1, n))

PartsIn(p) ==
  FlattenSeq([m \in DOMAIN p.messages |-> Chat!PartsOf(p.messages[m], m)])

\* w begins with s.
Starts(s, w) == \E r \in Seq(Abouts) : w = s \o r

LEMMA StartsPrefix ==
  ASSUME NEW s \in Seq(Abouts), NEW w \in Seq(Abouts), Starts(s, w)
  PROVE  Chat!IsPrefix(s, w)
<1> PICK r \in Seq(Abouts) : w = s \o r
  BY DEF Starts
<1>1. /\ Len(s) \in Nat /\ Len(r) \in Nat /\ Len(w) = Len(s) + Len(r)
      /\ \A i \in 1 .. Len(s) : w[i] = s[i]
  BY ConcatProperties
<1>2. SubSeq(s, 1, Len(s)) = s
  BY SubSeqFull
<1>3. SubSeq(w, 1, Len(s)) = s
  <2>1. \A i \in 1 .. Len(s) : w[i] \in Abouts
    BY <1>1
  <2>2. /\ SubSeq(w, 1, Len(s)) \in Seq(Abouts)
        /\ Len(SubSeq(w, 1, Len(s))) = Len(s)
        /\ \A i \in 1 .. Len(s) : SubSeq(w, 1, Len(s))[i] = w[i]
    <3>1. 1 \in Int /\ Len(s) \in Int
      BY <1>1
    <3>2. /\ SubSeq(w, 1, Len(s)) \in Seq(Abouts)
          /\ Len(SubSeq(w, 1, Len(s))) = IF 1 <= Len(s) THEN Len(s) - 1 + 1 ELSE 0
          /\ \A i \in 1 .. Len(s) - 1 + 1 : SubSeq(w, 1, Len(s))[i] = w[1 + i - 1]
      BY <2>1, <3>1, SubSeqProperties
    <3> QED BY <1>1, <3>2
  <2> QED BY <1>1, <2>2, SeqEqual
<1> QED BY <1>1, <1>2, <1>3 DEF Chat!IsPrefix

LEMMA StartsSelf ==
  ASSUME NEW w \in Seq(Abouts)
  PROVE  Starts(w, w) /\ Starts(<<>>, w)
<1>1. w \o <<>> = w /\ <<>> \o w = w /\ <<>> \in Seq(Abouts)
  BY ConcatEmptySeq
<1> QED BY <1>1 DEF Starts

LEMMA StartsMore ==
  ASSUME NEW s \in Seq(Abouts), NEW r \in Seq(Abouts), NEW w \in Seq(Abouts),
         Starts(s \o r, w)
  PROVE  Starts(s, w)
<1> PICK q \in Seq(Abouts) : w = (s \o r) \o q
  BY DEF Starts
<1>1. w = s \o (r \o q) /\ r \o q \in Seq(Abouts)
  BY ConcatAssociative, ConcatProperties
<1> QED BY <1>1 DEF Starts

-----------------------------------------------------------------------------
LEMMA PartsType ==
  ASSUME NEW message, NEW m \in Nat
  PROVE  Chat!PartsOf(message, m) \in Seq(Abouts)
<1>1. <<m, 1>> \in Abouts /\ <<m, 2>> \in Abouts
  BY DEF Abouts
<1>2. <<<<m, 1>>, <<m, 2>>>> \in Seq(Abouts) /\ <<>> \in Seq(Abouts)
  BY <1>1
<1> QED BY <1>2 DEF Chat!PartsOf

LEMMA AnswersType ==
  ASSUME NEW t
  PROVE  Answers(t) \in [Shows -> Seq(Abouts)]
<1>1. \A e \in Shows : <<e.about>> \in Seq(Abouts) /\ <<>> \in Seq(Abouts)
  BY DEF Shows
<1> QED BY <1>1 DEF Answers

LEMMA DeliversType == Delivers \in [Says -> Seq(Abouts)]
<1>1. ASSUME NEW e \in Says, e.kind = "text"
      PROVE  e.about \in Seq(Abouts)
  <2>1. e.about \in Seq(Nat \X Nat)
    BY <1>1 DEF Says
  <2>2. Nat \X Nat \subseteq Abouts
    BY DEF Abouts
  <2> QED BY <2>1, <2>2, SeqMonotonic
<1>2. <<>> \in Seq(Abouts)
  OBVIOUS
<1> QED BY <1>1, <1>2 DEF Delivers

LEMMA TextOfType ==
  ASSUME NEW p
  PROVE  TextOf(p) \in [Prints -> Seq(Abouts)]
<1>1. ASSUME NEW line \in Prints
      PROVE  /\ <<<<line.message, line.part>>>> \in Seq(Abouts)
             /\ Chat!PartsOf(p.messages[line.message], line.message) \in Seq(Abouts)
  <2>1. line.message \in Nat /\ line.part \in Nat
    BY DEF Prints
  <2>2. <<line.message, line.part>> \in Abouts
    BY <2>1 DEF Abouts
  <2> QED BY <2>1, <2>2, PartsType
<1>2. <<>> \in Seq(Abouts)
  OBVIOUS
<1> QED BY <1>1, <1>2 DEF TextOf

LEMMA SaidMore ==
  ASSUME NEW p, NEW a \in Seq(Prints), NEW b \in Seq(Prints)
  PROVE  /\ Said(p, a) \in Seq(Abouts) /\ Said(p, b) \in Seq(Abouts)
         /\ Said(p, a \o b) = Said(p, a) \o Said(p, b)
<1>g. TextOf(p) \in [Prints -> Seq(Abouts)]
  BY TextOfType
<1>1. /\ Mapped(TextOf(p), a) \in Seq(Abouts) /\ Mapped(TextOf(p), b) \in Seq(Abouts)
      /\ Joins(TextOf(p), a, b)
  BY <1>g, MappedMore, Zenon
<1> QED BY <1>1, Zenon DEF Said, Joins

LEMMA SaidOne ==
  ASSUME NEW p, NEW line \in Prints
  PROVE  Said(p, <<line>>) = TextOf(p)[line] /\ Said(p, <<>>) = <<>>
<1>1. TextOf(p) \in [Prints -> Seq(Abouts)]
  BY TextOfType
<1> QED BY <1>1, MappedOne DEF Said

LEMMA EndsType ==
  /\ Chat!Line("init", 0, 0) \in Prints /\ Chat!Line("init", 0, 0).kind = "init"
  /\ Chat!Line("result", 0, 0) \in Prints /\ Chat!Line("result", 0, 0).kind = "result"
BY DEF Chat!Line, Prints

\* The lines of a message, and the sequences of them.
LEMMA MessageLines ==
  ASSUME NEW m \in Nat
  PROVE  \E start, d1, d2, whole, tool \in Prints :
           /\ start = Chat!Line("start", m, 0) /\ start.kind = "start" /\ start.message = m
           /\ d1 = Chat!Line("delta", m, 1) /\ d1.kind = "delta" /\ d1.message = m /\ d1.part = 1
           /\ d2 = Chat!Line("delta", m, 2) /\ d2.kind = "delta" /\ d2.message = m /\ d2.part = 2
           /\ whole = Chat!Line("assistant", m, 0)
           /\ whole.kind = "assistant" /\ whole.message = m
           /\ tool = Chat!Line("tool result", m, 0) /\ tool.kind = "tool result"
<1> PICK start \in Prints : start = Chat!Line("start", m, 0)
  BY DEF Chat!Line, Prints
<1> PICK d1 \in Prints : d1 = Chat!Line("delta", m, 1)
  BY DEF Chat!Line, Prints
<1> PICK d2 \in Prints : d2 = Chat!Line("delta", m, 2)
  BY DEF Chat!Line, Prints
<1> PICK whole \in Prints : whole = Chat!Line("assistant", m, 0)
  BY DEF Chat!Line, Prints
<1> PICK tool \in Prints : tool = Chat!Line("tool result", m, 0)
  BY DEF Chat!Line, Prints
<1>1. start.kind = "start" /\ start.message = m
  BY DEF Chat!Line
<1>2. d1.kind = "delta" /\ d1.message = m /\ d1.part = 1
  BY DEF Chat!Line
<1>3. d2.kind = "delta" /\ d2.message = m /\ d2.part = 2
  BY DEF Chat!Line
<1>4. whole.kind = "assistant" /\ whole.message = m
  BY DEF Chat!Line
<1>5. tool.kind = "tool result"
  BY DEF Chat!Line
<1> QED BY <1>1, <1>2, <1>3, <1>4, <1>5

\* Sequences of lines and of texts, and what they are put together from.
Chain(a, b, c, d) ==
  /\ <<a, b>> = <<a>> \o <<b>> /\ <<a, b, c>> = <<a, b>> \o <<c>>
  /\ <<a, b, c, d>> = <<a, b, c>> \o <<d>>

LEMMA Chained ==
  ASSUME NEW T, NEW a \in T, NEW b \in T, NEW c \in T, NEW d \in T
  PROVE  Chain(a, b, c, d)
<1>1. <<a>> \in Seq(T) /\ <<a, b>> \in Seq(T) /\ <<a, b, c>> \in Seq(T)
  OBVIOUS
<1>2. <<a, b>> = Append(<<a>>, b)
  OBVIOUS
<1>3. <<a, b, c>> = Append(<<a, b>>, c)
  OBVIOUS
<1>4. <<a, b, c, d>> = Append(<<a, b, c>>, d)
  OBVIOUS
<1>5. \A s \in Seq(T) : \A e \in T : Append(s, e) = s \o <<e>>
  BY AppendIsConcat, Zenon
<1> QED BY <1>1, <1>2, <1>3, <1>4, <1>5, Zenon DEF Chain

LEMMA LinePieces ==
  \A a, b, c \in Prints :
    /\ <<>> \in Seq(Prints) /\ <<a>> \in Seq(Prints)
    /\ <<a, b>> \in Seq(Prints) /\ <<a, b, c>> \in Seq(Prints)
OBVIOUS

LEMMA LinesTogether == \A a, b \in Seq(Prints) : a \o b \in Seq(Prints)
BY ConcatProperties

LEMMA NoText == \A w \in Seq(Abouts) : <<>> \o w = w /\ w \o <<>> = w
BY ConcatEmptySeq

LEMMA TextsAssociate == \A x, y, z \in Seq(Abouts) : (x \o y) \o z = x \o (y \o z)
<1>1. Associative(Abouts)
  BY Associates, Zenon
<1> QED BY <1>1, Zenon DEF Associative

LEMMA TwoTexts ==
  \A one, two \in Abouts :
    /\ <<>> \in Seq(Abouts) /\ <<one>> \in Seq(Abouts) /\ <<one, two>> \in Seq(Abouts)
    /\ <<one>> \o <<two>> = <<one, two>>
<1> TAKE one, two \in Abouts
<1>1. Chain(one, two, two, two)
  BY Chained, Zenon
<1>2. <<>> \in Seq(Abouts) /\ <<one>> \in Seq(Abouts) /\ <<one, two>> \in Seq(Abouts)
  OBVIOUS
<1> QED BY <1>1, <1>2, Zenon DEF Chain

\* A message is printed with its text, once.
LEMMA PrintedSays ==
  ASSUME NEW p, NEW m \in Nat
  PROVE  /\ Chat!Printed(p.messages[m], m) \in Seq(Prints)
         /\ Said(p, Chat!Printed(p.messages[m], m)) = Chat!PartsOf(p.messages[m], m)
<1> DEFINE message == p.messages[m]
           parts == Chat!PartsOf(message, m)
           one == <<m, 1>>
           two == <<m, 2>>
<1>a. parts \in Seq(Abouts) /\ one \in Abouts /\ two \in Abouts
  BY PartsType DEF Abouts
<1>p. Streams(p, m) => parts = <<one, two>>
  BY DEF Chat!PartsOf, Streams
<1>l. PICK start \in Prints, d1 \in Prints, d2 \in Prints, whole \in Prints, tool \in Prints :
      /\ start = Chat!Line("start", m, 0) /\ start.kind = "start" /\ start.message = m
      /\ d1 = Chat!Line("delta", m, 1) /\ d1.kind = "delta" /\ d1.message = m /\ d1.part = 1
      /\ d2 = Chat!Line("delta", m, 2) /\ d2.kind = "delta" /\ d2.message = m /\ d2.part = 2
      /\ whole = Chat!Line("assistant", m, 0)
      /\ whole.kind = "assistant" /\ whole.message = m
      /\ tool = Chat!Line("tool result", m, 0) /\ tool.kind = "tool result"
  BY MessageLines
<1> DEFINE before == IF message.text /\ message.streamed THEN <<start, d1, d2>> ELSE <<>>
           after == IF message.tool # "none" THEN <<tool>> ELSE <<>>
<1>1. Chat!Printed(message, m) = (before \o <<whole>>) \o after
  BY <1>l, Zenon DEF Chat!Printed
<1>2. Said(p, <<>>) = <<>>
  BY EndsType, SaidOne, Zenon
<1>3. TextOf(p)[start] = <<>> /\ TextOf(p)[tool] = <<>>
  BY <1>l DEF TextOf
<1>4. TextOf(p)[d1] = <<one>> /\ TextOf(p)[d2] = <<two>>
  BY <1>l DEF TextOf
<1>5. TextOf(p)[whole] = IF Streams(p, m) THEN <<>> ELSE parts
  BY <1>l DEF TextOf
<1> HIDE DEF parts, one, two
<1>b. /\ <<start>> \in Seq(Prints) /\ <<d1>> \in Seq(Prints) /\ <<d2>> \in Seq(Prints)
      /\ <<start, d1>> \in Seq(Prints) /\ <<start, d1, d2>> \in Seq(Prints)
      /\ <<whole>> \in Seq(Prints) /\ <<tool>> \in Seq(Prints) /\ <<>> \in Seq(Prints)
  BY <1>l, LinePieces, Zenon
<1>c. <<start, d1>> = <<start>> \o <<d1>> /\ <<start, d1, d2>> = <<start, d1>> \o <<d2>>
  <2>1. Chain(start, d1, d2, d2)
    BY <1>l, Chained, Zenon
  <2> QED BY <2>1, Zenon DEF Chain
<1>6. /\ before \in Seq(Prints) /\ after \in Seq(Prints)
      /\ before \o <<whole>> \in Seq(Prints)
      /\ (before \o <<whole>>) \o after \in Seq(Prints)
  <2>1. before \in Seq(Prints)
    BY <1>b, Zenon
  <2>2. after \in Seq(Prints)
    BY <1>b, Zenon
  <2> HIDE DEF before, after
  <2> QED BY <1>b, <2>1, <2>2, LinesTogether, Zenon
<1>7. Said(p, after) = <<>>
  <2>1. Said(p, <<tool>>) = <<>>
    BY <1>l, <1>3, SaidOne, Zenon
  <2> QED BY <1>2, <2>1, Zenon
<1>8. Said(p, <<start, d1, d2>>) = <<one, two>>
  <2>0. \A a, b \in Seq(Prints) : Said(p, a \o b) = Said(p, a) \o Said(p, b)
    BY SaidMore, Zenon
  <2>1. Said(p, <<start, d1>>) = Said(p, <<start>>) \o Said(p, <<d1>>)
    <3>1. Said(p, <<start>> \o <<d1>>) = Said(p, <<start>>) \o Said(p, <<d1>>)
      BY <1>b, <2>0, Zenon
    <3> QED BY <1>c, <3>1, Zenon
  <2>2. Said(p, <<start, d1, d2>>) = Said(p, <<start, d1>>) \o Said(p, <<d2>>)
    <3>1. Said(p, <<start, d1>> \o <<d2>>) = Said(p, <<start, d1>>) \o Said(p, <<d2>>)
      BY <1>b, <2>0, Zenon
    <3> QED BY <1>c, <3>1, Zenon
  <2>3. Said(p, <<start>>) = <<>> /\ Said(p, <<d1>>) = <<one>> /\ Said(p, <<d2>>) = <<two>>
    BY <1>l, <1>3, <1>4, SaidOne, Zenon
  <2>4. <<>> \o <<one>> = <<one>> /\ <<one>> \o <<two>> = <<one, two>>
    BY <1>a, NoText, TwoTexts, Zenon
  <2>5. Said(p, <<start, d1>>) = <<one>>
    BY <2>1, <2>3, <2>4, Zenon
  <2> QED BY <2>2, <2>3, <2>4, <2>5, Zenon
<1>9. Said(p, before) = IF Streams(p, m) THEN <<one, two>> ELSE <<>>
  BY <1>2, <1>8, Zenon DEF Streams
<1> HIDE DEF before, after
<1>10. Said(p, before \o <<whole>>) = Said(p, before) \o Said(p, <<whole>>)
  BY <1>b, <1>6, SaidMore, Zenon
<1>11. Said(p, (before \o <<whole>>) \o after) = Said(p, before \o <<whole>>) \o <<>>
  <2>1. Said(p, (before \o <<whole>>) \o after) = Said(p, before \o <<whole>>) \o Said(p, after)
    BY <1>6, SaidMore, Zenon
  <2> QED BY <1>7, <2>1, Zenon
<1>12. Said(p, before \o <<whole>>) = parts
  <2>0. Said(p, <<whole>>) = TextOf(p)[whole]
    BY <1>l, SaidOne, Zenon
  <2>n. parts \o <<>> = parts /\ <<>> \o parts = parts
    BY <1>a, NoText, Zenon
  <2>1. CASE Streams(p, m)
    <3>1. Said(p, before) = parts /\ Said(p, <<whole>>) = <<>>
      BY <1>5, <1>9, <1>p, <2>0, <2>1, Zenon
    <3> QED BY <1>10, <2>n, <3>1, Zenon
  <2>2. CASE ~Streams(p, m)
    <3>1. Said(p, before) = <<>> /\ Said(p, <<whole>>) = parts
      BY <1>5, <1>9, <2>0, <2>2, Zenon
    <3> QED BY <1>10, <2>n, <3>1, Zenon
  <2> QED BY <2>1, <2>2
<1>13. Said(p, Chat!Printed(message, m)) = parts
  <2>1. parts \o <<>> = parts
    BY <1>a, NoText, Zenon
  <2> QED BY <1>1, <1>11, <1>12, <2>1, Zenon
<1>14. Chat!Printed(message, m) \in Seq(Prints)
  BY <1>1, <1>6, Zenon
<1> QED BY <1>13, <1>14, Zenon DEF parts

\* What the CLI prints of a plan.
All(p) == [m \in DOMAIN p.messages |-> Chat!Printed(p.messages[m], m)]
Parts(p) == [m \in DOMAIN p.messages |-> Chat!PartsOf(p.messages[m], m)]

LEMMA AllType ==
  ASSUME NEW p \in Chat!Plans
  PROVE  /\ Len(p.messages) \in Nat /\ DOMAIN p.messages = 1 .. Len(p.messages)
         /\ All(p) \in Seq(Seq(Prints)) /\ Len(All(p)) = Len(p.messages)
         /\ Parts(p) \in Seq(Seq(Abouts)) /\ Len(Parts(p)) = Len(p.messages)
         /\ \A m \in 1 .. Len(p.messages) :
              /\ All(p)[m] = Chat!Printed(p.messages[m], m)
              /\ Parts(p)[m] = Chat!PartsOf(p.messages[m], m)
<1>1. p.messages \in Seq(Chat!Messages)
  BY PlanType
<1>2. Len(p.messages) \in Nat /\ DOMAIN p.messages = 1 .. Len(p.messages)
  BY <1>1
<1>3. \A m \in 1 .. Len(p.messages) :
        /\ Chat!Printed(p.messages[m], m) \in Seq(Prints)
        /\ Chat!PartsOf(p.messages[m], m) \in Seq(Abouts)
  BY <1>2, PrintedSays, PartsType
<1> QED BY <1>2, <1>3 DEF All, Parts

\* The CLI prints each text of a plan once, and in order.
LEMMA LinesSay ==
  ASSUME NEW p \in Chat!Plans
  PROVE  /\ PartsIn(p) \in Seq(Abouts)
         /\ Said(p, Chat!Lines(p)) = PartsIn(p)
<1> DEFINE n == Len(p.messages)
<1>1. /\ n \in Nat
      /\ All(p) \in Seq(Seq(Prints)) /\ Len(All(p)) = n
      /\ Parts(p) \in Seq(Seq(Abouts)) /\ Len(Parts(p)) = n
  BY AllType
<1>2. All(p) \in Seq(Seq(Prints))
  BY <1>1
<1>3. Parts(p) \in Seq(Seq(Abouts))
  BY <1>1
<1> PICK f : Partial(Prints, All(p), f)
  BY <1>2, HasPartial
<1> PICK g : Partial(Abouts, Parts(p), g)
  BY <1>3, HasPartial
<1>4. Said(p, f[0]) = g[0]
  <2>1. f[0] = <<>>
    BY <1>2, PartialEnds
  <2>2. g[0] = <<>>
    BY <1>3, PartialEnds
  <2>3. Said(p, <<>>) = <<>>
    BY EndsType, SaidOne
  <2> QED BY <2>1, <2>2, <2>3
<1>f. \A k \in Nat : k + 1 <= n =>
        f[k] \in Seq(Prints) /\ f[k + 1] = f[k] \o All(p)[k + 1]
  BY <1>1, <1>2, PartialStep
<1>g. \A k \in Nat : k + 1 <= n => g[k + 1] = g[k] \o Parts(p)[k + 1]
  BY <1>1, <1>3, PartialStep
<1>m. \A k \in Nat : k + 1 <= n =>
        /\ All(p)[k + 1] \in Seq(Prints)
        /\ Said(p, All(p)[k + 1]) = Parts(p)[k + 1]
  <2> SUFFICES ASSUME NEW k \in Nat, k + 1 <= n
               PROVE  /\ All(p)[k + 1] \in Seq(Prints)
                      /\ Said(p, All(p)[k + 1]) = Parts(p)[k + 1]
    OBVIOUS
  <2>1. k + 1 \in 1 .. n /\ k + 1 \in Nat
    BY <1>1
  <2>2. /\ All(p)[k + 1] = Chat!Printed(p.messages[k + 1], k + 1)
        /\ Parts(p)[k + 1] = Chat!PartsOf(p.messages[k + 1], k + 1)
    BY <2>1, AllType
  <2> QED BY <2>1, <2>2, PrintedSays
<1> DEFINE S == {k \in Nat : k <= n => Said(p, f[k]) = g[k]}
<1>5. ASSUME NEW k \in Nat, k + 1 <= n, Said(p, f[k]) = g[k]
      PROVE  Said(p, f[k + 1]) = g[k + 1]
  <2> PICK x \in Seq(Prints), y \in Seq(Prints) : x = f[k] /\ y = All(p)[k + 1]
    BY <1>f, <1>m, <1>5
  <2>1. Said(p, x \o y) = Said(p, x) \o Said(p, y)
    BY SaidMore
  <2> QED BY <1>f, <1>g, <1>m, <1>5, <2>1
<1>6. 0 \in S /\ \A k \in Nat : k \in S => k + 1 \in S
  BY <1>1, <1>4, <1>5
<1>7. Said(p, f[n]) = g[n]
  <2> HIDE DEF S
  <2>1. Nat \subseteq S
    BY <1>6, SetInduction
  <2>2. n \in S
    BY <1>1, <2>1
  <2> QED BY <1>1, <2>2 DEF S
<1>8. f[n] = FlattenSeq(All(p)) /\ f[n] \in Seq(Prints)
  BY <1>1, <1>2, PartialEnds
<1>9. g[n] = PartsIn(p) /\ PartsIn(p) \in Seq(Abouts)
  <2>1. g[n] = FlattenSeq(Parts(p)) /\ g[n] \in Seq(Abouts)
    BY <1>1, <1>3, PartialEnds
  <2> QED BY <2>1 DEF PartsIn, Parts
<1> DEFINE F == FlattenSeq(All(p))
           first == Chat!Line("init", 0, 0)
           last == Chat!Line("result", 0, 0)
<1>10. F \in Seq(Prints) /\ Said(p, F) = PartsIn(p)
  BY <1>7, <1>8, <1>9, Zenon
<1>11. Chat!Lines(p) = (<<first>> \o F) \o <<last>>
  BY Zenon DEF Chat!Lines, All, Chat!FlattenSeq, FlattenSeq
<1>12. Said(p, <<first>>) = <<>> /\ Said(p, <<last>>) = <<>>
  <2>1. TextOf(p)[first] = <<>> /\ TextOf(p)[last] = <<>>
    BY EndsType DEF TextOf
  <2> HIDE DEF first, last
  <2> QED BY <2>1, EndsType, SaidOne, Zenon DEF first, last
<1>13. <<first>> \in Seq(Prints) /\ <<last>> \in Seq(Prints)
  BY EndsType, LinePieces, Zenon
<1> HIDE DEF F, first, last
<1>14. Said(p, <<first>> \o F) = PartsIn(p) /\ <<first>> \o F \in Seq(Prints)
  <2>1. Said(p, <<first>> \o F) = Said(p, <<first>>) \o Said(p, F)
    BY <1>10, <1>13, SaidMore, Zenon
  <2> QED BY <1>9, <1>10, <1>12, <1>13, <2>1, LinesTogether, NoText, Zenon
<1>15. Said(p, (<<first>> \o F) \o <<last>>) = PartsIn(p)
  <2>1. Said(p, (<<first>> \o F) \o <<last>>) = Said(p, <<first>> \o F) \o Said(p, <<last>>)
    BY <1>13, <1>14, SaidMore, Zenon
  <2> QED BY <1>9, <1>12, <1>14, <2>1, NoText, Zenon
<1> QED BY <1>9, <1>11, <1>15, Zenon

-----------------------------------------------------------------------------
(* The lines of a message follow each other *)

\* s[k] and what is before it.
FitsAt(p, s, k) ==
  /\ s[k].kind = "delta" =>
       /\ Streams(p, s[k].message) /\ k > 1
       /\ s[k - 1].kind \in {"start", "delta"} /\ s[k - 1].message = s[k].message
  /\ s[k].kind = "assistant" /\ Streams(p, s[k].message) =>
       k > 1 /\ s[k - 1].kind = "delta" /\ s[k - 1].message = s[k].message

Fits(p, s) ==
  \A k \in 1 .. Len(s) : s[k].kind \notin {"init", "result"} /\ FitsAt(p, s, k)

LEMMA FitsMore ==
  ASSUME NEW p, NEW a \in Seq(Prints), NEW b \in Seq(Prints), Fits(p, a), Fits(p, b)
  PROVE  Fits(p, a \o b)
<1> DEFINE s == a \o b
<1>1. /\ Len(a) \in Nat /\ Len(b) \in Nat /\ Len(s) = Len(a) + Len(b)
      /\ \A k \in 1 .. Len(a) : s[k] = a[k]
      /\ \A k \in 1 .. Len(b) : s[Len(a) + k] = b[k]
  BY ConcatProperties
<1> HIDE DEF s
<1>2. ASSUME NEW k \in 1 .. Len(s)
      PROVE  s[k].kind \notin {"init", "result"} /\ FitsAt(p, s, k)
  <2>1. CASE k <= Len(a)
    <3>1. k \in 1 .. Len(a) /\ s[k] = a[k] /\ (k > 1 => s[k - 1] = a[k - 1])
      BY <1>1, <2>1
    <3> QED BY <3>1 DEF Fits, FitsAt
  <2>2. CASE k > Len(a)
    <3> PICK i \in 1 .. Len(b) : k = Len(a) + i
      <4>1. k - Len(a) \in 1 .. Len(b) /\ k = Len(a) + (k - Len(a))
        BY <1>1, <2>2
      <4> QED BY <4>1
    <3>1. s[k] = b[i] /\ (i > 1 => k > 1 /\ s[k - 1] = b[i - 1])
      <4>1. i > 1 => i - 1 \in 1 .. Len(b) /\ k - 1 = Len(a) + (i - 1) /\ k > 1
        BY <1>1
      <4> QED BY <1>1, <4>1
    <3>2. b[i].kind \notin {"init", "result"} /\ FitsAt(p, b, i)
      BY DEF Fits
    <3> QED BY <3>1, <3>2 DEF FitsAt
  <2> QED BY <1>1, <2>1, <2>2
<1> QED BY <1>2 DEF Fits, s

\* Four lines, or one.
LEMMA FourFit ==
  ASSUME NEW p, NEW m, NEW start \in Prints, NEW d1 \in Prints, NEW d2 \in Prints,
         NEW whole \in Prints, Streams(p, m),
         start.kind = "start", start.message = m, d1.kind = "delta", d1.message = m,
         d2.kind = "delta", d2.message = m, whole.kind = "assistant", whole.message = m
  PROVE  Fits(p, <<start, d1, d2>> \o <<whole>>)
<1>s. PICK s \in Seq(Prints) :
        /\ s = <<start, d1, d2>> \o <<whole>>
        /\ Len(s) = 4 /\ s[1] = start /\ s[2] = d1 /\ s[3] = d2 /\ s[4] = whole
  <2>0. Chain(start, d1, d2, whole)
    BY Chained, Zenon
  <2>1. /\ <<start, d1, d2>> \o <<whole>> = <<start, d1, d2, whole>>
        /\ <<start, d1, d2, whole>> \in Seq(Prints)
    <3>1. <<start, d1, d2, whole>> \in Seq(Prints)
      OBVIOUS
    <3> QED BY <2>0, <3>1, Zenon DEF Chain
  <2>2. /\ Len(<<start, d1, d2, whole>>) = 4 /\ <<start, d1, d2, whole>>[1] = start
        /\ <<start, d1, d2, whole>>[2] = d1 /\ <<start, d1, d2, whole>>[3] = d2
        /\ <<start, d1, d2, whole>>[4] = whole
    OBVIOUS
  <2> QED BY <2>1, <2>2, Zenon
<1>1. \A k \in 1 .. Len(s) : k = 1 \/ k = 2 \/ k = 3 \/ k = 4
  BY <1>s
<1>2. FitsAt(p, s, 1)
  BY <1>s DEF FitsAt
<1>3. FitsAt(p, s, 2)
  BY <1>s DEF FitsAt
<1>4. FitsAt(p, s, 3)
  BY <1>s DEF FitsAt
<1>5. FitsAt(p, s, 4)
  BY <1>s DEF FitsAt
<1>6. Fits(p, s)
  <2>1. \A k \in 1 .. Len(s) : s[k].kind \notin {"init", "result"}
    BY <1>s, <1>1
  <2>2. \A k \in 1 .. Len(s) : FitsAt(p, s, k)
    BY <1>1, <1>2, <1>3, <1>4, <1>5, Zenon
  <2> QED BY <2>1, <2>2, Zenon DEF Fits
<1> QED BY <1>6, <1>s, Zenon

LEMMA OneFits ==
  ASSUME NEW p, NEW line \in Prints, line.kind \notin {"init", "result", "delta"},
         line.kind = "assistant" => ~Streams(p, line.message)
  PROVE  Fits(p, <<line>>) /\ Fits(p, <<>>) /\ Fits(p, <<>> \o <<line>>)
<1>s. PICK s \in Seq(Prints) :
        s = <<line>> /\ s = <<>> \o <<line>> /\ Len(s) = 1 /\ s[1] = line
  <2>1. <<line>> \in Seq(Prints) /\ Len(<<line>>) = 1 /\ <<line>>[1] = line
    OBVIOUS
  <2>2. \A w \in Seq(Prints) : <<>> \o w = w
    BY ConcatEmptySeq, Zenon
  <2> QED BY <2>1, <2>2, Zenon
<1>1. \A k \in 1 .. Len(s) : k = 1
  BY <1>s
<1>2. FitsAt(p, s, 1)
  BY <1>s DEF FitsAt
<1>3. Fits(p, s)
  BY <1>s, <1>1, <1>2, Zenon DEF Fits
<1>4. Fits(p, <<>>)
  BY DEF Fits
<1> QED BY <1>3, <1>4, <1>s, Zenon

LEMMA PrintedFits ==
  ASSUME NEW p, NEW m \in Nat
  PROVE  Fits(p, Chat!Printed(p.messages[m], m))
<1> DEFINE message == p.messages[m]
<1>l. PICK start \in Prints, d1 \in Prints, d2 \in Prints, whole \in Prints, tool \in Prints :
      /\ start = Chat!Line("start", m, 0) /\ start.kind = "start" /\ start.message = m
      /\ d1 = Chat!Line("delta", m, 1) /\ d1.kind = "delta" /\ d1.message = m /\ d1.part = 1
      /\ d2 = Chat!Line("delta", m, 2) /\ d2.kind = "delta" /\ d2.message = m /\ d2.part = 2
      /\ whole = Chat!Line("assistant", m, 0)
      /\ whole.kind = "assistant" /\ whole.message = m
      /\ tool = Chat!Line("tool result", m, 0) /\ tool.kind = "tool result"
  BY MessageLines
<1> DEFINE before == IF message.text /\ message.streamed THEN <<start, d1, d2>> ELSE <<>>
           after == IF message.tool # "none" THEN <<tool>> ELSE <<>>
<1>1. Chat!Printed(message, m) = (before \o <<whole>>) \o after
  BY <1>l, Zenon DEF Chat!Printed
<1>b. /\ <<start, d1, d2>> \in Seq(Prints) /\ <<whole>> \in Seq(Prints)
      /\ <<tool>> \in Seq(Prints) /\ <<>> \in Seq(Prints)
  BY <1>l, LinePieces, Zenon
<1>2. Fits(p, after) /\ after \in Seq(Prints)
  <2>1. Fits(p, <<tool>>) /\ Fits(p, <<>>)
    <3>1. tool.kind \notin {"init", "result", "delta"} /\ tool.kind # "assistant"
      BY <1>l
    <3> QED BY <1>l, <3>1, OneFits, Zenon
  <2> QED BY <1>b, <2>1, Zenon
<1>3. Fits(p, before \o <<whole>>)
  <2>1. CASE Streams(p, m)
    <3>1. before = <<start, d1, d2>>
      BY <2>1, Zenon DEF Streams
    <3>2. Fits(p, <<start, d1, d2>> \o <<whole>>)
      BY <1>l, <2>1, FourFit, Zenon
    <3> QED BY <3>1, <3>2, Zenon
  <2>2. CASE ~Streams(p, m)
    <3>1. before = <<>>
      BY <2>2, Zenon DEF Streams
    <3>2. Fits(p, <<>> \o <<whole>>)
      <4>1. whole.kind \notin {"init", "result", "delta"}
        BY <1>l
      <4> QED BY <1>l, <2>2, <4>1, OneFits, Zenon
    <3> QED BY <3>1, <3>2, Zenon
  <2> QED BY <2>1, <2>2
<1>4. before \o <<whole>> \in Seq(Prints)
  <2>1. before \in Seq(Prints)
    BY <1>b, Zenon
  <2> QED BY <1>b, <2>1, LinesTogether, Zenon
<1> HIDE DEF before, after
<1>5. Fits(p, (before \o <<whole>>) \o after)
  BY <1>2, <1>3, <1>4, FitsMore, Zenon
<1> QED BY <1>1, <1>5, Zenon

LEMMA LinesFit ==
  ASSUME NEW p \in Chat!Plans
  PROVE  LET L == Chat!Lines(p)
         IN  /\ L \in Seq(Prints) /\ Len(L) \in Nat /\ Len(L) >= 2
             /\ \A k \in 1 .. Len(L) : (L[k].kind = "result" <=> k = Len(L)) /\ FitsAt(p, L, k)
<1> DEFINE P == {s \in Seq(Prints) : Fits(p, s)}
           F == FlattenSeq(All(p))
           L == Chat!Lines(p)
           first == Chat!Line("init", 0, 0)
           last == Chat!Line("result", 0, 0)
<1>1. F \in P
  <2>1. P \subseteq Seq(Prints) /\ <<>> \in P
    BY DEF Fits
  <2>2. \A a, b \in P : a \o b \in P
    BY FitsMore, ConcatProperties
  <2>3. All(p) \in Seq(P)
    <3>1. Len(p.messages) \in Nat /\ DOMAIN p.messages = 1 .. Len(p.messages)
      BY AllType
    <3>2. \A m \in 1 .. Len(p.messages) : Chat!Printed(p.messages[m], m) \in P
      BY <3>1, PrintedFits, PrintedSays
    <3> HIDE DEF P
    <3> QED BY <3>1, <3>2 DEF All
  <2> HIDE DEF P
  <2> QED BY <2>1, <2>2, <2>3, FlattenClosed
<1>2. F \in Seq(Prints) /\ Fits(p, F)
  BY <1>1
<1>3. L = <<first>> \o F \o <<last>>
  BY DEF Chat!Lines, All, Chat!FlattenSeq, FlattenSeq
<1>4. first \in Prints /\ last \in Prints /\ first.kind = "init" /\ last.kind = "result"
  BY EndsType
<1> HIDE DEF F, P, first, last
<1> DEFINE n == Len(F)
<1>5. /\ n \in Nat /\ L \in Seq(Prints) /\ Len(L) = n + 2 /\ L[1] = first /\ L[n + 2] = last
      /\ \A k \in 1 .. n : L[k + 1] = F[k]
  <2>0. n \in Nat
    BY <1>2
  <2>1. /\ <<first>> \o F \in Seq(Prints) /\ Len(<<first>> \o F) = 1 + n
        /\ \A k \in 1 .. 1 + n : (<<first>> \o F)[k] = IF k <= 1 THEN <<first>>[k] ELSE F[k - 1]
    <3>1. <<first>> \in Seq(Prints) /\ Len(<<first>>) = 1
      BY <1>4
    <3> QED BY <1>2, <3>1, ConcatProperties
  <2> DEFINE s == <<first>> \o F
  <2> HIDE DEF s, L
  <2>2. /\ L \in Seq(Prints) /\ Len(L) = (1 + n) + 1
        /\ \A k \in 1 .. (1 + n) + 1 : L[k] = IF k <= 1 + n THEN s[k] ELSE <<last>>[k - (1 + n)]
    <3>1. <<last>> \in Seq(Prints) /\ Len(<<last>>) = 1 /\ s \in Seq(Prints) /\ Len(s) = 1 + n
      BY <1>4, <2>1 DEF s
    <3>2. L = s \o <<last>>
      BY <1>3 DEF s
    <3> QED BY <3>1, <3>2, ConcatProperties
  <2>3. L[1] = first /\ L[n + 2] = last
    <3>1. 1 \in 1 .. 1 + n /\ n + 2 \in 1 .. (1 + n) + 1 /\ 1 \in 1 .. (1 + n) + 1
          /\ ~(n + 2 <= 1 + n) /\ (n + 2) - (1 + n) = 1
      BY <2>0
    <3>2. L[1] = s[1] /\ L[n + 2] = <<last>>[1] /\ s[1] = <<first>>[1]
      BY <2>0, <2>1, <2>2, <3>1 DEF s
    <3> QED BY <3>2
  <2>4. ASSUME NEW k \in 1 .. n PROVE L[k + 1] = F[k]
    <3>1. /\ k + 1 \in 1 .. 1 + n /\ k + 1 \in 1 .. (1 + n) + 1
          /\ k + 1 <= 1 + n /\ ~(k + 1 <= 1) /\ (k + 1) - 1 = k
      BY <2>0
    <3>2. L[k + 1] = s[k + 1] /\ s[k + 1] = F[k]
      BY <2>1, <2>2, <3>1 DEF s
    <3> QED BY <3>2
  <2> QED BY <2>0, <2>2, <2>3, <2>4
<1> HIDE DEF L
<1>6. ASSUME NEW k \in 1 .. Len(L)
      PROVE  (L[k].kind = "result" <=> k = Len(L)) /\ FitsAt(p, L, k)
  <2>1. CASE k = 1
    BY <1>4, <1>5, <2>1 DEF FitsAt
  <2>2. CASE k = n + 2
    BY <1>4, <1>5, <2>2 DEF FitsAt
  <2>3. CASE k # 1 /\ k # n + 2
    <3> PICK i \in 1 .. n : k = i + 1
      <4>1. k - 1 \in 1 .. n /\ k = (k - 1) + 1
        BY <1>5, <2>3
      <4> QED BY <4>1
    <3>1. L[k] = F[i] /\ (i > 1 => L[k - 1] = F[i - 1])
      <4>1. i > 1 => i - 1 \in 1 .. n /\ k - 1 = (i - 1) + 1
        BY <1>5
      <4> QED BY <1>5, <4>1
    <3>2. F[i].kind # "result" /\ FitsAt(p, F, i)
      BY <1>2 DEF Fits
    <3>3. FitsAt(p, L, k)
      BY <1>5, <3>1, <3>2 DEF FitsAt
    <3> QED BY <1>5, <3>1, <3>2, <3>3, <2>3
  <2> QED BY <2>1, <2>2, <2>3
<1>7. L \in Seq(Prints) /\ Len(L) \in Nat /\ Len(L) >= 2
  BY <1>5
<1> QED BY <1>6, <1>7 DEF L

-----------------------------------------------------------------------------
(* What the panel shows of a turn *)

HasIn(es, t, kind) == \E i \in 1 .. Len(es) : es[i].turn = t /\ es[i].kind = kind

LEMMA HasMore ==
  ASSUME NEW es \in Seq(Shows), NEW more \in Seq(Shows), NEW t, NEW kind
  PROVE  HasIn(es \o more, t, kind) <=> HasIn(es, t, kind) \/ HasIn(more, t, kind)
<1> DEFINE all == es \o more
<1>0. /\ Len(es) \in Nat /\ Len(more) \in Nat /\ Len(all) = Len(es) + Len(more)
      /\ \A i \in 1 .. Len(es) : all[i] = es[i]
      /\ \A i \in 1 .. Len(more) : all[Len(es) + i] = more[i]
  BY ConcatProperties
<1> HIDE DEF all
<1>1. ASSUME HasIn(all, t, kind) PROVE HasIn(es, t, kind) \/ HasIn(more, t, kind)
  <2>i. PICK i \in 1 .. Len(all) : all[i].turn = t /\ all[i].kind = kind
    BY <1>1 DEF HasIn
  <2>1. CASE i <= Len(es)
    <3>1. i \in 1 .. Len(es) /\ all[i] = es[i]
      BY <1>0, <2>i, <2>1
    <3> QED BY <2>i, <3>1 DEF HasIn
  <2>2. CASE ~(i <= Len(es))
    <3>1. i - Len(es) \in 1 .. Len(more) /\ Len(es) + (i - Len(es)) = i
      BY <1>0, <2>i, <2>2
    <3>2. all[i] = more[i - Len(es)]
      BY <1>0, <3>1
    <3> QED BY <2>i, <3>1, <3>2 DEF HasIn
  <2> QED BY <2>1, <2>2
<1>2. ASSUME HasIn(es, t, kind) PROVE HasIn(all, t, kind)
  <2>i. PICK i \in 1 .. Len(es) : es[i].turn = t /\ es[i].kind = kind
    BY <1>2 DEF HasIn
  <2>1. i \in 1 .. Len(all) /\ all[i] = es[i]
    BY <1>0, <2>i
  <2> QED BY <2>i, <2>1 DEF HasIn
<1>3. ASSUME HasIn(more, t, kind) PROVE HasIn(all, t, kind)
  <2>i. PICK i \in 1 .. Len(more) : more[i].turn = t /\ more[i].kind = kind
    BY <1>3 DEF HasIn
  <2>1. Len(es) + i \in 1 .. Len(all) /\ all[Len(es) + i] = more[i]
    BY <1>0, <2>i
  <2> QED BY <2>i, <2>1 DEF HasIn
<1> QED BY <1>1, <1>2, <1>3 DEF all

AddsUp(es, more, t) == AnswersIn(es \o more, t) = AnswersIn(es, t) \o AnswersIn(more, t)

LEMMA AnswersMore ==
  ASSUME NEW es \in Seq(Shows), NEW more \in Seq(Shows), NEW t
  PROVE  /\ AnswersIn(es, t) \in Seq(Abouts) /\ AnswersIn(more, t) \in Seq(Abouts)
         /\ AddsUp(es, more, t)
<1>g. Answers(t) \in [Shows -> Seq(Abouts)]
  BY AnswersType
<1>1. Mapped(Answers(t), es) \in Seq(Abouts) /\ Mapped(Answers(t), more) \in Seq(Abouts)
  BY <1>g, MappedMore, Zenon
<1>2. Joins(Answers(t), es, more)
  BY <1>g, MappedMore, Zenon
<1> QED BY <1>1, <1>2, Zenon DEF AnswersIn, Joins, AddsUp

\* Entries without an answer to the turn.
LEMMA AnswersNone ==
  ASSUME NEW es \in Seq(Shows), NEW t,
         \A i \in 1 .. Len(es) : es[i].kind # "answer" \/ es[i].turn # t
  PROVE  AnswersIn(es, t) = <<>>
<1>g. Answers(t) \in [Shows -> Seq(Abouts)]
  BY AnswersType
<1>1. \A i \in 1 .. Len(es) : es[i] \in Shows
  OBVIOUS
<1>2. \A i \in 1 .. Len(es) : Answers(t)[es[i]] = <<>>
  BY <1>1, Zenon DEF Answers
<1> QED BY <1>g, <1>2, MappedNone, Zenon DEF AnswersIn

\* Entries with one.
LEMMA AnswersSome ==
  ASSUME NEW es \in Seq(Shows), NEW t, NEW i \in 1 .. Len(es),
         es[i].kind = "answer", es[i].turn = t
  PROVE  AnswersIn(es, t) # <<>>
<1>g. Answers(t) \in [Shows -> Seq(Abouts)]
  BY AnswersType
<1>1. es[i] \in Shows
  OBVIOUS
<1>2. Answers(t)[es[i]] = <<es[i].about>>
  BY <1>1 DEF Answers
<1>3. PICK a \in Seq(Shows), b \in Seq(Shows), c \in Seq(Shows), e \in Seq(Shows) :
        es = c \o b /\ c = a \o e /\ e = <<es[i]>>
  <2> DEFINE a == SubSeq(es, 1, i - 1)
             b == SubSeq(es, i + 1, Len(es))
  <2>0. Len(es) \in Nat /\ i \in Nat /\ i >= 1 /\ i <= Len(es)
    OBVIOUS
  <2>1. a \in Seq(Shows) /\ b \in Seq(Shows)
    <3>1. \A k \in 1 .. i - 1 : es[k] \in Shows
      BY <2>0
    <3>2. \A k \in i + 1 .. Len(es) : es[k] \in Shows
      BY <2>0
    <3> QED BY <2>0, <3>1, <3>2, SubSeqProperties
  <2>2. SubSeq(es, 1, i) = a \o <<es[i]>>
    <3>1. 1 \in 1 .. Len(es) /\ i \in 1 .. Len(es)
      BY <2>0
    <3> QED BY <3>1, SubSeqRecursiveSecond
  <2>3. SubSeq(es, 1, i) \o b = es
    <3>1. 1 \in 1 .. Len(es) + 1 /\ i \in 1 - 1 .. Len(es) /\ Len(es) \in i .. Len(es)
      BY <2>0
    <3>2. SubSeq(es, 1, i) \o SubSeq(es, i + 1, Len(es)) = SubSeq(es, 1, Len(es))
      BY <3>1, ConcatAdjacentSubSeq
    <3>3. SubSeq(es, 1, Len(es)) = es
      BY SubSeqFull
    <3> QED BY <3>2, <3>3
  <2>4. a \o <<es[i]>> \in Seq(Shows) /\ <<es[i]>> \in Seq(Shows)
    BY <1>1, <2>1, ConcatProperties
  <2> HIDE DEF a, b
  <2> QED BY <2>1, <2>2, <2>3, <2>4
<1>5. AnswersIn(e, t) = <<es[i].about>>
  <2>1. Mapped(Answers(t), <<es[i]>>) = Answers(t)[es[i]]
    BY <1>g, <1>1, MappedOne, Zenon
  <2> QED BY <1>2, <1>3, <2>1, Zenon DEF AnswersIn
<1>6. AddsUp(c, b, t) /\ AnswersIn(b, t) \in Seq(Abouts)
  BY <1>3, AnswersMore, Zenon
<1>7. AddsUp(a, e, t) /\ AnswersIn(a, t) \in Seq(Abouts)
  BY <1>3, AnswersMore, Zenon
<1>8. \A x, y \in Seq(Abouts) : \A o \in Abouts : (x \o <<o>>) \o y # <<>>
  <2> TAKE x, y \in Seq(Abouts)
  <2> TAKE o \in Abouts
  <2>1. x \o <<o>> # <<>>
    OBVIOUS
  <2> QED BY <2>1
<1>9. es[i].about \in Abouts
  BY <1>1 DEF Shows
<1>10. AnswersIn(es, t) = (AnswersIn(a, t) \o <<es[i].about>>) \o AnswersIn(b, t)
  BY <1>3, <1>5, <1>6, <1>7, Zenon DEF AddsUp
<1> QED BY <1>6, <1>7, <1>8, <1>9, <1>10, Zenon

\* The texts of an event as answers to the turn.
LEMMA AnswersAdded ==
  ASSUME NEW t \in Nat, NEW w \in Seq(Nat \X Nat)
  PROVE  LET more == [k \in DOMAIN w |-> Chat!Entry("answer", t, w[k])]
         IN  /\ more \in Seq(Shows) /\ AnswersIn(more, t) = w
             /\ \A k \in 1 .. Len(more) : more[k].turn = t /\ more[k].kind = "answer"
<1> DEFINE more == [k \in DOMAIN w |-> Chat!Entry("answer", t, w[k])]
<1>0. DOMAIN w = 1 .. Len(w) /\ Len(w) \in Nat /\ \A k \in 1 .. Len(w) : w[k] \in Nat \X Nat
  OBVIOUS
<1>1. \A c \in Nat \X Nat : /\ Chat!Entry("answer", t, c) \in Shows
                            /\ Chat!Entry("answer", t, c).kind = "answer"
                            /\ Chat!Entry("answer", t, c).turn = t
                            /\ Chat!Entry("answer", t, c).about = c
  BY DEF Chat!Entry, Shows, Abouts
<1>2. more \in Seq(Shows) /\ Len(more) = Len(w)
  BY <1>0, <1>1
<1>3. \A k \in 1 .. Len(w) : more[k] = Chat!Entry("answer", t, w[k])
  BY <1>0
<1>4. \A k \in 1 .. Len(w) :
        more[k].turn = t /\ more[k].kind = "answer" /\ more[k].about = w[k] /\ more[k] \in Shows
  BY <1>0, <1>1, <1>3, Zenon
<1> HIDE DEF more
<1>5. \A k \in 1 .. Len(w) : Answers(t)[more[k]] = <<w[k]>>
  BY <1>4, Zenon DEF Answers
<1>6. [k \in DOMAIN more |-> Answers(t)[more[k]]] = [k \in DOMAIN w |-> <<w[k]>>]
  <2>1. DOMAIN more = DOMAIN w
    BY <1>0, <1>2
  <2> QED BY <1>0, <1>5, <2>1, Zenon
<1>7. AnswersIn(more, t) = w
  BY <1>6, FlattenSingles, Zenon DEF AnswersIn, Mapped
<1> QED BY <1>2, <1>4, <1>7 DEF more

LEMMA OneEntry == \A e \in Shows : <<e>> \in Seq(Shows) /\ Len(<<e>>) = 1 /\ <<e>>[1] = e
OBVIOUS

\* One entry more that is no answer to the turn.
LEMMA EntryAdded ==
  ASSUME NEW es \in Seq(Shows), NEW e \in Shows, NEW t, e.kind # "answer" \/ e.turn # t
  PROVE  /\ es \o <<e>> \in Seq(Shows)
         /\ AnswersIn(es \o <<e>>, t) = AnswersIn(es, t)
         /\ \A kind : HasIn(es \o <<e>>, t, kind) <=>
                        HasIn(es, t, kind) \/ (e.turn = t /\ e.kind = kind)
<1>s. PICK s \in Seq(Shows) : s = <<e>> /\ Len(s) = 1 /\ s[1] = e
  BY OneEntry, Zenon
<1>1. es \o s \in Seq(Shows)
  BY <1>s, ConcatProperties
<1>2. \A i \in 1 .. Len(s) : s[i] = e
  BY <1>s
<1>3. AnswersIn(s, t) = <<>>
  BY <1>s, <1>2, AnswersNone
<1>4. AnswersIn(es \o s, t) = AnswersIn(es, t) \o <<>> /\ AnswersIn(es, t) \in Seq(Abouts)
  <2>1. AddsUp(es, s, t) /\ AnswersIn(es, t) \in Seq(Abouts)
    BY <1>s, AnswersMore, Zenon
  <2> QED BY <1>3, <2>1, Zenon DEF AddsUp
<1>5. AnswersIn(es \o s, t) = AnswersIn(es, t)
  BY <1>4, NoText, Zenon
<1>6. \A kind : HasIn(s, t, kind) <=> e.turn = t /\ e.kind = kind
  BY <1>s, <1>2 DEF HasIn
<1>7. \A kind : HasIn(es \o s, t, kind) <=> HasIn(es, t, kind) \/ HasIn(s, t, kind)
  BY <1>s, HasMore, Zenon
<1> QED BY <1>s, <1>1, <1>5, <1>6, <1>7, Zenon

-----------------------------------------------------------------------------
(* The events of a turn on their way to the panel *)

Endings == {"failed", "finished"}
Results == {"done", "error"}

Mine(t) == [e \in Says |-> IF e.turn = t THEN <<e>> ELSE <<>>]
OfTurn(evs, t) == Mapped(Mine(t), evs)

Heard(evs) == Mapped(Delivers, evs)

\* A result is followed by the last event only.
InOrder(evs) ==
  \A i \in 1 .. Len(evs) :
    /\ evs[i].kind \in Endings => i = Len(evs)
    /\ evs[i].kind \in Results => \A j \in i + 1 .. Len(evs) : evs[j].kind \in Endings

HasResult(evs) == \E i \in 1 .. Len(evs) : evs[i].kind \in Results

LEMMA MineType ==
  ASSUME NEW t
  PROVE  Mine(t) \in [Says -> Seq(Says)]
<1>1. \A e \in Says : <<e>> \in Seq(Says) /\ <<>> \in Seq(Says)
  OBVIOUS
<1> QED BY <1>1 DEF Mine

LEMMA OneEvent == \A e \in Says : <<e>> \in Seq(Says) /\ Len(<<e>>) = 1 /\ <<e>>[1] = e
OBVIOUS

LEMMA OfTurnMore ==
  ASSUME NEW a \in Seq(Says), NEW b \in Seq(Says), NEW t
  PROVE  /\ OfTurn(a, t) \in Seq(Says) /\ OfTurn(b, t) \in Seq(Says)
         /\ OfTurn(a \o b, t) = OfTurn(a, t) \o OfTurn(b, t)
<1>g. Mine(t) \in [Says -> Seq(Says)]
  BY MineType
<1>1. Mapped(Mine(t), a) \in Seq(Says) /\ Mapped(Mine(t), b) \in Seq(Says)
  BY <1>g, MappedMore, Zenon
<1>2. Joins(Mine(t), a, b)
  BY <1>g, MappedMore, Zenon
<1> QED BY <1>1, <1>2, Zenon DEF OfTurn, Joins

LEMMA OfTurnOne ==
  ASSUME NEW e \in Says, NEW t
  PROVE  OfTurn(<<e>>, t) = IF e.turn = t THEN <<e>> ELSE <<>>
<1>g. Mine(t) \in [Says -> Seq(Says)]
  BY MineType
<1>1. Mapped(Mine(t), <<e>>) = Mine(t)[e]
  BY <1>g, MappedOne, Zenon
<1>2. Mine(t)[e] = IF e.turn = t THEN <<e>> ELSE <<>>
  BY DEF Mine
<1> QED BY <1>1, <1>2, Zenon DEF OfTurn

LEMMA NoEvent == \A w \in Seq(Says) : <<>> \o w = w /\ w \o <<>> = w
BY ConcatEmptySeq

Adds(a, b, t) == OfTurn(a \o b, t) = OfTurn(a, t) \o OfTurn(b, t)

LEMMA OfTurnAdds ==
  ASSUME NEW a \in Seq(Says), NEW b \in Seq(Says), NEW t
  PROVE  Adds(a, b, t)
BY OfTurnMore, Zenon DEF Adds

\* The first event.
LEMMA OfTurnFirst ==
  ASSUME NEW evs \in Seq(Says), evs # <<>>, NEW t
  PROVE  /\ Head(evs) \in Says /\ Tail(evs) \in Seq(Says)
         /\ OfTurn(evs, t) \in Seq(Says) /\ OfTurn(Tail(evs), t) \in Seq(Says)
         /\ Head(evs).turn = t => OfTurn(evs, t) = <<Head(evs)>> \o OfTurn(Tail(evs), t)
         /\ Head(evs).turn # t => OfTurn(evs, t) = OfTurn(Tail(evs), t)
<1>1. Head(evs) \in Says /\ Tail(evs) \in Seq(Says)
  BY HeadTailProperties
<1>2. evs = <<Head(evs)>> \o Tail(evs)
  <2>1. \A s \in Seq(Says) : s # <<>> => s = <<Head(s)>> \o Tail(s)
    OBVIOUS
  <2> QED BY <2>1, Zenon
<1>3. <<Head(evs)>> \in Seq(Says)
  BY <1>1, OneEvent, Zenon
<1>4. OfTurn(evs, t) = OfTurn(<<Head(evs)>>, t) \o OfTurn(Tail(evs), t)
  <2>1. Adds(<<Head(evs)>>, Tail(evs), t)
    BY <1>1, <1>3, OfTurnAdds, Zenon
  <2> QED BY <1>2, <2>1, Zenon DEF Adds
<1>5. OfTurn(Tail(evs), t) \in Seq(Says) /\ OfTurn(evs, t) \in Seq(Says)
  BY <1>1, OfTurnMore, Zenon
<1>6. OfTurn(<<Head(evs)>>, t) = IF Head(evs).turn = t THEN <<Head(evs)>> ELSE <<>>
  BY <1>1, OfTurnOne, Zenon
<1> QED BY <1>1, <1>4, <1>5, <1>6, NoEvent, Zenon

\* More events, of one turn.
Grows(evs, more, u, t) ==
  /\ t = u => OfTurn(evs \o more, t) = OfTurn(evs, t) \o more
  /\ t # u => OfTurn(evs \o more, t) = OfTurn(evs, t)

LEMMA OfTurnAdded ==
  ASSUME NEW evs \in Seq(Says), NEW more \in Seq(Says), NEW u, NEW t,
         \A k \in 1 .. Len(more) : more[k].turn = u
  PROVE  Grows(evs, more, u, t)
<1>1. /\ OfTurn(evs, t) \in Seq(Says)
      /\ OfTurn(evs \o more, t) = OfTurn(evs, t) \o OfTurn(more, t)
  BY OfTurnMore, Zenon
<1>2. \A k \in 1 .. Len(more) : more[k] \in Says
  OBVIOUS
<1>3. ASSUME t # u PROVE OfTurn(more, t) = <<>>
  <2>1. \A k \in 1 .. Len(more) : Mine(t)[more[k]] = <<>>
    BY <1>2, <1>3, Zenon DEF Mine
  <2> QED BY <2>1, MineType, MappedNone, Zenon DEF OfTurn
<1>4. ASSUME t = u PROVE OfTurn(more, t) = more
  <2>1. \A k \in 1 .. Len(more) : Mine(t)[more[k]] = <<more[k]>>
    BY <1>2, <1>4, Zenon DEF Mine
  <2>2. DOMAIN more = 1 .. Len(more)
    OBVIOUS
  <2>3. [k \in DOMAIN more |-> Mine(t)[more[k]]] = [k \in DOMAIN more |-> <<more[k]>>]
    BY <2>1, <2>2, Zenon
  <2>4. FlattenSeq([k \in DOMAIN more |-> <<more[k]>>]) = more
    BY FlattenSingles, Zenon
  <2> QED BY <2>3, <2>4, Zenon DEF OfTurn, Mapped
<1> QED BY <1>1, <1>3, <1>4, NoEvent, Zenon DEF Grows

LEMMA HeardMore ==
  ASSUME NEW a \in Seq(Says), NEW b \in Seq(Says)
  PROVE  /\ Heard(a) \in Seq(Abouts) /\ Heard(b) \in Seq(Abouts)
         /\ Heard(a \o b) = Heard(a) \o Heard(b)
<1>1. Mapped(Delivers, a) \in Seq(Abouts) /\ Mapped(Delivers, b) \in Seq(Abouts)
  BY DeliversType, MappedMore, Zenon
<1>2. Joins(Delivers, a, b)
  BY DeliversType, MappedMore, Zenon
<1> QED BY <1>1, <1>2, Zenon DEF Heard, Joins

LEMMA HeardOne ==
  ASSUME NEW e \in Says
  PROVE  /\ Heard(<<e>>) = IF e.kind = "text" THEN e.about ELSE <<>>
         /\ Heard(<<>>) = <<>>
<1>1. Mapped(Delivers, <<e>>) = Delivers[e] /\ Mapped(Delivers, <<>>) = <<>>
  BY DeliversType, MappedOne, Zenon
<1>2. Delivers[e] = IF e.kind = "text" THEN e.about ELSE <<>>
  BY DEF Delivers
<1> QED BY <1>1, <1>2, Zenon DEF Heard

LEMMA HeardNone ==
  ASSUME NEW evs \in Seq(Says), \A k \in 1 .. Len(evs) : evs[k].kind # "text"
  PROVE  Heard(evs) = <<>>
<1>1. \A k \in 1 .. Len(evs) : evs[k] \in Says
  OBVIOUS
<1>2. \A k \in 1 .. Len(evs) : Delivers[evs[k]] = <<>>
  BY <1>1, Zenon DEF Delivers
<1> QED BY <1>2, DeliversType, MappedNone, Zenon DEF Heard

LEMMA InOrderRest ==
  ASSUME NEW ev \in Says, NEW rest \in Seq(Says), InOrder(<<ev>> \o rest)
  PROVE  /\ InOrder(rest)
         /\ ev.kind \in Endings => rest = <<>>
         /\ ev.kind \in Results => \A j \in 1 .. Len(rest) : rest[j].kind \in Endings
         /\ HasResult(<<ev>> \o rest) <=> ev.kind \in Results \/ HasResult(rest)
         /\ Len(<<ev>> \o rest) = Len(rest) + 1
         /\ (<<ev>> \o rest)[1] = ev
         /\ \A i \in 1 .. Len(rest) : (<<ev>> \o rest)[i + 1] = rest[i]
<1>s. PICK s \in Seq(Says) :
        /\ s = <<ev>> \o rest /\ Len(s) = Len(rest) + 1 /\ s[1] = ev
        /\ \A i \in 1 .. Len(rest) : s[i + 1] = rest[i]
  <2>1. <<ev>> \in Seq(Says) /\ Len(<<ev>>) = 1 /\ <<ev>>[1] = ev
    BY OneEvent, Zenon
  <2>2. Len(rest) \in Nat
    OBVIOUS
  <2>3. /\ <<ev>> \o rest \in Seq(Says) /\ Len(<<ev>> \o rest) = 1 + Len(rest)
        /\ \A i \in 1 .. 1 + Len(rest) :
             (<<ev>> \o rest)[i] = IF i <= 1 THEN <<ev>>[i] ELSE rest[i - 1]
    BY <2>1, ConcatProperties
  <2>4. \A i \in 1 .. Len(rest) : /\ i + 1 \in 1 .. 1 + Len(rest)
                                  /\ ~(i + 1 <= 1) /\ (i + 1) - 1 = i
    BY <2>2
  <2>5. \A i \in 1 .. Len(rest) : (<<ev>> \o rest)[i + 1] = rest[i]
    BY <2>3, <2>4, Zenon
  <2>6. (<<ev>> \o rest)[1] = ev
    BY <2>1, <2>2, <2>3
  <2>7. Len(<<ev>> \o rest) = Len(rest) + 1
    BY <2>2, <2>3
  <2> QED BY <2>3, <2>5, <2>6, <2>7, Zenon
<1>0. Len(rest) \in Nat
  OBVIOUS
<1>o. \A i \in 1 .. Len(rest) + 1 :
        /\ s[i].kind \in Endings => i = Len(rest) + 1
        /\ s[i].kind \in Results => \A j \in i + 1 .. Len(rest) + 1 : s[j].kind \in Endings
  BY <1>s, Zenon DEF InOrder
<1>1. InOrder(rest)
  <2> SUFFICES ASSUME NEW i \in 1 .. Len(rest)
               PROVE  /\ rest[i].kind \in Endings => i = Len(rest)
                      /\ rest[i].kind \in Results =>
                           \A j \in i + 1 .. Len(rest) : rest[j].kind \in Endings
    BY DEF InOrder
  <2>1. i + 1 \in 1 .. Len(rest) + 1 /\ s[i + 1] = rest[i]
    BY <1>0, <1>s
  <2>2. rest[i].kind \in Endings => i + 1 = Len(rest) + 1
    BY <1>o, <2>1, Zenon
  <2>3. ASSUME rest[i].kind \in Results, NEW j \in i + 1 .. Len(rest)
        PROVE  rest[j].kind \in Endings
    <3>1. j \in 1 .. Len(rest) /\ j + 1 \in (i + 1) + 1 .. Len(rest) + 1
      BY <1>0
    <3>2. s[j + 1] = rest[j]
      BY <1>s, <3>1
    <3> QED BY <1>o, <2>1, <2>3, <3>1, <3>2, Zenon
  <2>4. i + 1 = Len(rest) + 1 => i = Len(rest)
    BY <1>0
  <2> QED BY <2>2, <2>3, <2>4
<1>2. ev.kind \in Endings => rest = <<>>
  <2>1. 1 \in 1 .. Len(rest) + 1
    BY <1>0
  <2>2. ev.kind \in Endings => 1 = Len(rest) + 1
    BY <1>o, <1>s, <2>1, Zenon
  <2>3. 1 = Len(rest) + 1 => Len(rest) = 0
    BY <1>0
  <2>4. \A r \in Seq(Says) : Len(r) = 0 => r = <<>>
    OBVIOUS
  <2> QED BY <2>2, <2>3, <2>4, Zenon
<1>3. ASSUME ev.kind \in Results, NEW j \in 1 .. Len(rest) PROVE rest[j].kind \in Endings
  <2>1. 1 \in 1 .. Len(rest) + 1 /\ j + 1 \in 1 + 1 .. Len(rest) + 1
    BY <1>0
  <2>2. s[j + 1] = rest[j]
    BY <1>s
  <2> QED BY <1>3, <1>o, <1>s, <2>1, <2>2, Zenon
<1>4. HasResult(s) <=> ev.kind \in Results \/ HasResult(rest)
  <2>1. ASSUME HasResult(s) PROVE ev.kind \in Results \/ HasResult(rest)
    <3>i. PICK i \in 1 .. Len(rest) + 1 : s[i].kind \in Results
      BY <1>s, <2>1 DEF HasResult
    <3>1. CASE i = 1
      BY <1>s, <3>i, <3>1
    <3>2. CASE i # 1
      <4>1. i - 1 \in 1 .. Len(rest) /\ (i - 1) + 1 = i
        BY <1>0, <3>i, <3>2
      <4>2. s[i] = rest[i - 1]
        BY <1>s, <4>1
      <4> QED BY <3>i, <4>1, <4>2 DEF HasResult
    <3> QED BY <3>1, <3>2
  <2>2. ASSUME ev.kind \in Results PROVE HasResult(s)
    <3>1. 1 \in 1 .. Len(s)
      BY <1>0, <1>s
    <3> QED BY <1>s, <2>2, <3>1, Zenon DEF HasResult
  <2>3. ASSUME HasResult(rest) PROVE HasResult(s)
    <3>i. PICK i \in 1 .. Len(rest) : rest[i].kind \in Results
      BY <2>3 DEF HasResult
    <3>1. i + 1 \in 1 .. Len(s) /\ s[i + 1] = rest[i]
      BY <1>0, <1>s, <3>i
    <3> QED BY <3>i, <3>1, Zenon DEF HasResult
  <2> QED BY <2>1, <2>2, <2>3
<1> QED BY <1>1, <1>2, <1>3, <1>4, <1>s, Zenon

\* More events after some that are no result and not the last.
LEMMA InOrderMore ==
  ASSUME NEW evs \in Seq(Says), NEW more \in Seq(Says), InOrder(evs), InOrder(more),
         \A i \in 1 .. Len(evs) : evs[i].kind \notin Endings,
         \/ \A i \in 1 .. Len(evs) : evs[i].kind \notin Results
         \/ \A i \in 1 .. Len(more) : more[i].kind \in Endings
  PROVE  /\ InOrder(evs \o more)
         /\ HasResult(evs \o more) <=> HasResult(evs) \/ HasResult(more)
<1> DEFINE s == evs \o more
<1>0. Len(evs) \in Nat /\ Len(more) \in Nat
  OBVIOUS
<1>1. /\ Len(s) = Len(evs) + Len(more)
      /\ \A i \in 1 .. Len(evs) + Len(more) :
           s[i] = IF i <= Len(evs) THEN evs[i] ELSE more[i - Len(evs)]
  BY ConcatProperties
<1> HIDE DEF s
<1>2. \A i \in 1 .. Len(s) : \/ i \in 1 .. Len(evs) /\ s[i] = evs[i]
                             \/ /\ i - Len(evs) \in 1 .. Len(more) /\ i > Len(evs)
                                /\ s[i] = more[i - Len(evs)]
  <2> TAKE i \in 1 .. Len(s)
  <2>1. i <= Len(evs) => i \in 1 .. Len(evs)
    BY <1>0, <1>1
  <2>2. ~(i <= Len(evs)) => i - Len(evs) \in 1 .. Len(more) /\ i > Len(evs)
    BY <1>0, <1>1
  <2>3. s[i] = IF i <= Len(evs) THEN evs[i] ELSE more[i - Len(evs)]
    BY <1>1
  <2> QED BY <2>1, <2>2, <2>3, Zenon
<1>3. InOrder(s)
  <2> SUFFICES ASSUME NEW i \in 1 .. Len(s)
               PROVE  /\ s[i].kind \in Endings => i = Len(s)
                      /\ s[i].kind \in Results =>
                           \A j \in i + 1 .. Len(s) : s[j].kind \in Endings
    BY DEF InOrder
  <2>1. CASE i \in 1 .. Len(evs) /\ s[i] = evs[i]
    <3>1. s[i].kind \notin Endings
      BY <2>1
    <3>2. ASSUME s[i].kind \in Results, NEW j \in i + 1 .. Len(s) PROVE s[j].kind \in Endings
      <4>1. \A k \in 1 .. Len(more) : more[k].kind \in Endings
        BY <2>1, <3>2
      <4>2. CASE j \in 1 .. Len(evs) /\ s[j] = evs[j]
        <5>1. j \in i + 1 .. Len(evs)
          BY <4>2
        <5> QED BY <2>1, <3>2, <4>2, <5>1 DEF InOrder
      <4>3. CASE j - Len(evs) \in 1 .. Len(more) /\ s[j] = more[j - Len(evs)]
        BY <4>1, <4>3, Zenon
      <4>4. j \in 1 .. Len(s)
        BY <1>0, <1>1
      <4> QED BY <1>2, <4>2, <4>3, <4>4
    <3> QED BY <3>1, <3>2
  <2>2. CASE i - Len(evs) \in 1 .. Len(more) /\ i > Len(evs) /\ s[i] = more[i - Len(evs)]
    <3>1. s[i].kind \in Endings => i - Len(evs) = Len(more)
      BY <2>2 DEF InOrder
    <3>2. i - Len(evs) = Len(more) => i = Len(s)
      BY <1>0, <1>1
    <3>3. ASSUME s[i].kind \in Results, NEW j \in i + 1 .. Len(s) PROVE s[j].kind \in Endings
      <4>1. /\ j \in 1 .. Len(s) /\ ~(j \in 1 .. Len(evs))
            /\ j - Len(evs) \in (i - Len(evs)) + 1 .. Len(more)
        BY <1>0, <1>1, <2>2
      <4>2. s[j] = more[j - Len(evs)]
        BY <1>2, <4>1, Zenon
      <4> QED BY <2>2, <3>3, <4>1, <4>2, Zenon DEF InOrder
    <3> QED BY <3>1, <3>2, <3>3
  <2> QED BY <1>2, <2>1, <2>2
<1>4. HasResult(s) <=> HasResult(evs) \/ HasResult(more)
  <2>1. HasResult(s) => HasResult(evs) \/ HasResult(more)
    BY <1>2, Zenon DEF HasResult
  <2>2. ASSUME HasResult(evs) PROVE HasResult(s)
    <3>i. PICK i \in 1 .. Len(evs) : evs[i].kind \in Results
      BY <2>2 DEF HasResult
    <3>1. i \in 1 .. Len(s) /\ s[i] = evs[i]
      BY <1>0, <1>1, <3>i
    <3> QED BY <3>i, <3>1, Zenon DEF HasResult
  <2>3. ASSUME HasResult(more) PROVE HasResult(s)
    <3>i. PICK i \in 1 .. Len(more) : more[i].kind \in Results
      BY <2>3 DEF HasResult
    <3>1. Len(evs) + i \in 1 .. Len(s) /\ s[Len(evs) + i] = more[i]
      BY <1>0, <1>1, <3>i
    <3> QED BY <3>i, <3>1, Zenon DEF HasResult
  <2> QED BY <2>1, <2>2, <2>3
<1> QED BY <1>3, <1>4 DEF s

-----------------------------------------------------------------------------
(* What was said so far *)

LEMMA SaidToNone == ASSUME NEW p PROVE SaidTo(p, 0) = <<>>
<1>1. SubSeq(Chat!Lines(p), 1, 0) = <<>>
  BY SubSeqEmpty
<1>2. Said(p, <<>>) = <<>>
  BY EndsType, SaidOne, Zenon
<1> QED BY <1>1, <1>2, Zenon DEF SaidTo

\* Some lines of a plan, and one more.
LEMMA SaidToNext ==
  ASSUME NEW p \in Chat!Plans, NEW n \in Nat, n < Len(Chat!Lines(p))
  PROVE  /\ Chat!Lines(p)[n + 1] \in Prints
         /\ SaidTo(p, n) \in Seq(Abouts)
         /\ SaidTo(p, n + 1) = SaidTo(p, n) \o TextOf(p)[Chat!Lines(p)[n + 1]]
<1>l. PICK L \in Seq(Prints) : L = Chat!Lines(p)
  BY LinesType
<1>0. Len(L) \in Nat /\ n + 1 \in 1 .. Len(L) /\ (n + 1) - 1 = n /\ 1 \in 1 .. Len(L)
  BY <1>l
<1>1. L[n + 1] \in Prints
  BY <1>0, <1>l
<1>2. SubSeq(L, 1, n) \in Seq(Prints)
  <2>1. \A k \in 1 .. n : L[k] \in Prints
    BY <1>0, <1>l
  <2> QED BY <2>1, SubSeqProperties
<1>3. SubSeq(L, 1, n + 1) = SubSeq(L, 1, n) \o <<L[n + 1]>>
  <2>1. n + 1 \in 1 .. Len(L)
    BY <1>0
  <2>2. SubSeq(L, 1, n + 1) = SubSeq(L, 1, (n + 1) - 1) \o <<L[n + 1]>>
    BY <1>0, <1>l, <2>1, SubSeqRecursiveSecond
  <2> QED BY <1>0, <2>2
<1>4. PICK a \in Seq(Prints), b \in Seq(Prints) : a = SubSeq(L, 1, n) /\ b = <<L[n + 1]>>
  BY <1>1, <1>2, LinePieces, Zenon
<1>5. Said(p, a \o b) = Said(p, a) \o Said(p, b) /\ Said(p, a) \in Seq(Abouts)
  BY <1>4, SaidMore
<1>6. Said(p, b) = TextOf(p)[L[n + 1]]
  BY <1>1, <1>4, SaidOne, Zenon
<1>7. SaidTo(p, n) = Said(p, a)
  BY <1>4, <1>l, Zenon DEF SaidTo
<1>8. SaidTo(p, n + 1) = Said(p, a \o b)
  BY <1>3, <1>4, <1>l, Zenon DEF SaidTo
<1>9. SaidTo(p, n + 1) = SaidTo(p, n) \o TextOf(p)[L[n + 1]]
  BY <1>5, <1>6, <1>7, <1>8, Zenon
<1> QED BY <1>1, <1>5, <1>7, <1>9, <1>l, Zenon

LEMMA TextsAre ==
  ASSUME NEW p \in Chat!Plans
  PROVE  /\ PartsIn(p) \in Seq(Abouts) /\ Chat!Texts(p) \in Seq(Abouts)
         /\ PartsIn(p) = <<>> => Chat!Texts(p) = <<<<0, 0>>>>
         /\ PartsIn(p) # <<>> => Chat!Texts(p) = PartsIn(p)
<1>1. PartsIn(p) \in Seq(Abouts)
  BY LinesSay
<1>2. Chat!Texts(p) = IF PartsIn(p) = <<>> THEN <<<<0, 0>>>> ELSE PartsIn(p)
  <2>1. Chat!FlattenSeq([m \in DOMAIN p.messages |-> Chat!PartsOf(p.messages[m], m)])
          = PartsIn(p)
    BY DEF PartsIn, Chat!FlattenSeq, FlattenSeq
  <2> QED BY <2>1, Zenon DEF Chat!Texts
<1>3. <<<<0, 0>>>> \in Seq(Abouts)
  <2>1. <<0, 0>> \in Abouts
    BY DEF Abouts
  <2> QED BY <2>1, TwoTexts, Zenon
<1> QED BY <1>1, <1>2, <1>3, Zenon

\* What was said so far is how the texts begin; after the last line it is all.
LEMMA SaidToStarts ==
  ASSUME NEW p \in Chat!Plans, NEW n \in 0 .. Len(Chat!Lines(p))
  PROVE  /\ SaidTo(p, n) \in Seq(Abouts)
         /\ Starts(SaidTo(p, n), PartsIn(p)) /\ Starts(SaidTo(p, n), Chat!Texts(p))
         /\ n = Len(Chat!Lines(p)) => SaidTo(p, n) = PartsIn(p)
<1>l. PICK L \in Seq(Prints) : L = Chat!Lines(p)
  BY LinesType
<1>0. Len(L) \in Nat /\ n \in 0 .. Len(L) /\ n \in Nat
  BY <1>l
<1>1. PICK a \in Seq(Prints), b \in Seq(Prints) : L = a \o b /\ a = SubSeq(L, 1, n)
  <2> DEFINE a == SubSeq(L, 1, n)
             b == SubSeq(L, n + 1, Len(L))
  <2>1. a \in Seq(Prints) /\ b \in Seq(Prints)
    <3>1. \A k \in 1 .. n : L[k] \in Prints
      BY <1>0, <1>l
    <3>2. \A k \in n + 1 .. Len(L) : L[k] \in Prints
      BY <1>0, <1>l
    <3> QED BY <1>0, <3>1, <3>2, SubSeqProperties
  <2>2. a \o b = SubSeq(L, 1, Len(L))
    <3>1. 1 \in 1 .. Len(L) + 1 /\ n \in 1 - 1 .. Len(L) /\ Len(L) \in n .. Len(L)
      BY <1>0
    <3> QED BY <1>l, <3>1, ConcatAdjacentSubSeq
  <2>3. SubSeq(L, 1, Len(L)) = L
    BY <1>l, SubSeqFull
  <2> HIDE DEF b
  <2> QED BY <2>1, <2>2, <2>3, Zenon
<1>2. /\ Said(p, a) \in Seq(Abouts) /\ Said(p, b) \in Seq(Abouts)
      /\ Said(p, a \o b) = Said(p, a) \o Said(p, b)
  BY <1>1, SaidMore
<1>3. SaidTo(p, n) = Said(p, a)
  BY <1>1, <1>l, Zenon DEF SaidTo
<1>4. PartsIn(p) = Said(p, a) \o Said(p, b)
  <2>1. Said(p, L) = PartsIn(p)
    BY <1>l, LinesSay, Zenon
  <2> QED BY <1>1, <1>2, <2>1, Zenon
<1>5. Starts(SaidTo(p, n), PartsIn(p))
  BY <1>2, <1>3, <1>4, Zenon DEF Starts
<1>6. Starts(SaidTo(p, n), Chat!Texts(p))
  <2>1. CASE PartsIn(p) # <<>>
    BY <1>5, <2>1, TextsAre, Zenon
  <2>2. CASE PartsIn(p) = <<>>
    <3>1. \A x, y \in Seq(Abouts) : x \o y = <<>> => x = <<>>
      BY ConcatSimplifications
    <3>2. SaidTo(p, n) = <<>>
      BY <1>2, <1>3, <1>4, <2>2, <3>1, Zenon
    <3>3. Chat!Texts(p) \in Seq(Abouts)
      BY TextsAre
    <3> QED BY <3>2, <3>3, StartsSelf, Zenon
  <2> QED BY <2>1, <2>2
<1>7. ASSUME n = Len(L) PROVE SaidTo(p, n) = PartsIn(p)
  <2>1. SubSeq(L, 1, n) = L
    BY <1>7, <1>l, SubSeqFull
  <2>2. Said(p, L) = PartsIn(p)
    BY <1>l, LinesSay, Zenon
  <2> QED BY <1>1, <1>3, <2>1, <2>2, Zenon
<1>8. SaidTo(p, n) \in Seq(Abouts)
  BY <1>2, <1>3, Zenon
<1> QED BY <1>5, <1>6, <1>7, <1>8, <1>l, Zenon

-----------------------------------------------------------------------------
(* The parser *)

Parsers == [streamed : SUBSET Nat, current : Nat, hidden : SUBSET Nat]

\* It knows which messages were streamed, and which one is.
Follows(p, n, known) ==
  /\ \A m \in Nat : m \in known.streamed <=>
       \E k \in 1 .. n : Chat!Lines(p)[k].kind = "delta" /\ Chat!Lines(p)[k].message = m
  /\ n > 0 /\ Chat!Lines(p)[n].kind \in {"start", "delta"} =>
       known.current = Chat!Lines(p)[n].message

LEMMA ParsedFollows ==
  ASSUME NEW t, plan[t] \in Chat!Plans, at[t] \in Nat, at[t] < Len(Chat!Lines(plan[t])),
         parser[t] \in Parsers, Follows(plan[t], at[t], parser[t])
  PROVE  LET line == Chat!Lines(plan[t])[at[t] + 1]
         IN  /\ Chat!Parsed(t, line) \in Parsers
             /\ Follows(plan[t], at[t] + 1, Chat!Parsed(t, line))
<1>p. PICK p \in Chat!Plans : p = plan[t]
  OBVIOUS
<1>n. PICK n \in Nat : n = at[t]
  OBVIOUS
<1>l. PICK L \in Seq(Prints) : L = Chat!Lines(p)
  BY LinesType
<1>s. PICK s \in Parsers : s = parser[t]
  OBVIOUS
<1> DEFINE line == L[n + 1]
<1>0. Len(L) \in Nat /\ n + 1 \in 1 .. Len(L) /\ n < Len(L)
  BY <1>l, <1>n, <1>p
<1>1. line \in Prints /\ line.message \in Nat
  <2>1. line \in Prints
    BY <1>0, <1>l
  <2> QED BY <2>1 DEF Prints
<1>f. Follows(p, n, s)
  BY <1>n, <1>p, <1>s
<1>g. FitsAt(p, L, n + 1)
  BY <1>0, <1>l, <1>p, LinesFit
<1>r. PICK r : r = Chat!Parsed(t, line)
  OBVIOUS
<1> HIDE DEF line
<1>2. /\ r \in Parsers
      /\ r.streamed = (IF line.kind = "delta" THEN s.streamed \cup {line.message}
                       ELSE s.streamed)
      /\ line.kind \in {"start", "delta"} => r.current = line.message
  <2>1. CASE line.kind = "delta"
    <3>1. r = [s EXCEPT !.streamed = @ \cup {s.current}]
      BY <1>r, <1>s, <2>1 DEF Chat!Parsed
    <3>2. s.current = line.message
      <4>1. n > 0 /\ L[n].kind \in {"start", "delta"} /\ L[n].message = line.message
        <5>1. n + 1 > 1 /\ L[(n + 1) - 1].kind \in {"start", "delta"}
              /\ L[(n + 1) - 1].message = line.message
          BY <1>g, <2>1 DEF FitsAt, line
        <5>2. (n + 1) - 1 = n /\ (n + 1 > 1 => n > 0)
          BY <1>n
        <5> QED BY <5>1, <5>2
      <4> QED BY <1>f, <1>l, <4>1, Zenon DEF Follows
    <3> QED BY <1>1, <1>s, <2>1, <3>1, <3>2 DEF Parsers
  <2>2. CASE line.kind = "start"
    <3>1. r = [s EXCEPT !.current = line.message]
      BY <1>r, <1>s, <2>2 DEF Chat!Parsed
    <3> QED BY <1>1, <1>s, <2>2, <3>1 DEF Parsers
  <2>3. CASE line.kind \notin {"start", "delta"}
    <3>1. r = s \/ r = [s EXCEPT !.hidden = @ \cup {line.message}]
      BY <1>r, <1>s, <2>3 DEF Chat!Parsed
    <3> QED BY <1>1, <1>s, <2>3, <3>1 DEF Parsers
  <2> QED BY <2>1, <2>2, <2>3
<1>3. Follows(p, n + 1, r)
  <2>1. ASSUME NEW m \in Nat
        PROVE  m \in r.streamed <=> \E k \in 1 .. n + 1 : L[k].kind = "delta" /\ L[k].message = m
    <3>1. m \in s.streamed <=> \E k \in 1 .. n : L[k].kind = "delta" /\ L[k].message = m
      BY <1>f, <1>l, Zenon DEF Follows
    <3>2. \A k : k \in 1 .. n + 1 <=> k \in 1 .. n \/ k = n + 1
      BY <1>n
    <3>3. m \in r.streamed <=> m \in s.streamed \/ (line.kind = "delta" /\ line.message = m)
      BY <1>2
    <3> QED BY <3>1, <3>2, <3>3, Zenon DEF line
  <2>2. n + 1 > 0 /\ L[n + 1].kind \in {"start", "delta"} => r.current = L[n + 1].message
    BY <1>2, Zenon DEF line
  <2> QED BY <1>l, <2>1, <2>2, Zenon DEF Follows
<1> QED BY <1>2, <1>3, <1>l, <1>n, <1>p, <1>r, Zenon DEF line

LEMMA OnePair == \A a, b \in Nat : <<<<a, b>>>> \in Seq(Nat \X Nat)
OBVIOUS

LEMMA PartPairs ==
  ASSUME NEW message, NEW m \in Nat
  PROVE  Chat!PartsOf(message, m) \in Seq(Nat \X Nat)
<1>1. <<<<m, 1>>, <<m, 2>>>> \in Seq(Nat \X Nat) /\ <<>> \in Seq(Nat \X Nat)
  OBVIOUS
<1> QED BY <1>1, Zenon DEF Chat!PartsOf

\* The events of a line are of its turn, none is the last, and bring the text of
\* the line; that of the result brings all texts.
LEMMA EventsBring ==
  ASSUME NEW t \in Turns, plan \in [Turns -> Chat!Plans],
         plan[t] \in Chat!Plans, at[t] \in Nat, at[t] < Len(Chat!Lines(plan[t])),
         Follows(plan[t], at[t], parser[t])
  PROVE  LET line == Chat!Lines(plan[t])[at[t] + 1]
             new == Chat!Events(t, line)
         IN  /\ new \in Seq(Says) /\ line \in Prints
             /\ Heard(new) = TextOf(plan[t])[line]
             /\ InOrder(new)
             /\ HasResult(new) <=> line.kind = "result"
             /\ \A k \in 1 .. Len(new) :
                  /\ new[k].turn = t /\ new[k].kind \notin Endings
                  /\ new[k].kind \in Results => new[k].about = Chat!Texts(plan[t])
<1>p. PICK p \in Chat!Plans : p = plan[t]
  OBVIOUS
<1>n. PICK n \in Nat : n = at[t]
  OBVIOUS
<1>l. PICK L \in Seq(Prints) : L = Chat!Lines(p)
  BY LinesType
<1>0. Len(L) \in Nat /\ n + 1 \in 1 .. Len(L) /\ n < Len(L)
  BY <1>l, <1>n, <1>p
<1>1. PICK line \in Prints : line = L[n + 1]
  BY <1>0, <1>l
<1>m. line.message \in Nat /\ line.part \in Nat /\ line.kind \in
        {"init", "start", "delta", "assistant", "tool result", "result"}
  BY <1>1 DEF Prints
<1>g. FitsAt(p, L, n + 1)
  BY <1>0, <1>l, <1>p, LinesFit
<1>f. Follows(p, n, parser[t])
  BY <1>n, <1>p
<1>t. t \in Nat
  BY DEF Turns, Chat!Turns
<1>2. PICK new \in Seq(Says) : new = Chat!Events(t, line)
  BY <1>1, <1>t, EventsType
<1> DEFINE Good(evs) ==
             /\ Heard(evs) = TextOf(p)[line]
             /\ InOrder(evs)
             /\ HasResult(evs) <=> line.kind = "result"
             /\ \A k \in 1 .. Len(evs) :
                  /\ evs[k].turn = t /\ evs[k].kind \notin Endings
                  /\ evs[k].kind \in Results => evs[k].about = Chat!Texts(p)
<1>e. ASSUME NEW e \in Says, e.turn = t, e.kind \notin Endings,
             (IF e.kind = "text" THEN e.about ELSE <<>>) = TextOf(p)[line],
             e.kind \in Results <=> line.kind = "result",
             e.kind \in Results => e.about = Chat!Texts(p)
      PROVE  Good(<<e>>)
  <2>1. Heard(<<e>>) = TextOf(p)[line]
    <3>1. Heard(<<e>>) = IF e.kind = "text" THEN e.about ELSE <<>>
      BY HeardOne
    <3> QED BY <1>e, <3>1
  <2>s. PICK s \in Seq(Says) : s = <<e>> /\ Len(s) = 1 /\ s[1] = e
    BY <1>e, OneEvent, Zenon
  <2>2. \A k \in 1 .. Len(s) : k = 1
    BY <2>s
  <2>3. InOrder(s)
    <3>1. \A j \in 1 + 1 .. Len(s) : FALSE
      BY <2>s
    <3> QED BY <1>e, <2>s, <2>2, <3>1, Zenon DEF InOrder
  <2>4. HasResult(s) <=> line.kind = "result"
    <3>1. 1 \in 1 .. Len(s)
      BY <2>s
    <3> QED BY <1>e, <2>s, <2>2, <3>1, Zenon DEF HasResult
  <2>5. \A k \in 1 .. Len(s) :
          /\ s[k].turn = t /\ s[k].kind \notin Endings
          /\ s[k].kind \in Results => s[k].about = Chat!Texts(p)
    BY <1>e, <2>s, <2>2, Zenon
  <2> QED BY <2>1, <2>s, <2>3, <2>4, <2>5, Zenon
<1>n0. ASSUME TextOf(p)[line] = <<>>, line.kind # "result" PROVE Good(<<>>)
  <2>1. \A k \in 1 .. Len(<<>>) : FALSE
    OBVIOUS
  <2>2. Heard(<<>>) = <<>>
    <3>1. <<>> \in Seq(Says)
      OBVIOUS
    <3> QED BY <2>1, <3>1, HeardNone, Zenon
  <2> QED BY <1>n0, <2>1, <2>2, Zenon DEF InOrder, HasResult
<1>3. Good(new)
  <2>1. CASE line.kind = "init"
    <3>e. PICK e \in Says : e = Chat!Event(t, "session", <<>>)
      BY <1>t DEF Chat!Event, Says
    <3>1. new = <<e>>
      BY <1>2, <2>1, <3>e DEF Chat!Events
    <3>2. e.turn = t /\ e.kind = "session"
      BY <3>e DEF Chat!Event
    <3>3. TextOf(p)[line] = <<>>
      BY <1>1, <2>1 DEF TextOf
    <3>4. e.kind \notin Endings /\ e.kind \notin Results /\ e.kind # "text"
      BY <3>2 DEF Endings, Results
    <3>5. line.kind # "result"
      BY <2>1
    <3> HIDE DEF Good
    <3> QED BY <1>e, <3>e, <3>1, <3>2, <3>3, <3>4, <3>5, Zenon
  <2>2. CASE line.kind = "delta"
    <3> DEFINE w == <<<<line.message, line.part>>>>
    <3>e. PICK e \in Says : e = Chat!Event(t, "text", w)
      <4>1. w \in Seq(Nat \X Nat)
        BY <1>m, OnePair, Zenon
      <4> QED BY <1>t, <4>1 DEF Chat!Event, Says
    <3>1. new = <<e>>
      BY <1>2, <2>2, <3>e DEF Chat!Events
    <3>2. e.turn = t /\ e.kind = "text" /\ e.about = w
      BY <3>e DEF Chat!Event
    <3>3. TextOf(p)[line] = w
      BY <1>1, <2>2 DEF TextOf
    <3>4. e.kind \notin Endings /\ e.kind \notin Results
      BY <3>2 DEF Endings, Results
    <3>5. line.kind # "result"
      BY <2>2
    <3> HIDE DEF Good, w
    <3> QED BY <1>e, <3>e, <3>1, <3>2, <3>3, <3>4, <3>5, Zenon
  <2>3. CASE line.kind = "assistant"
    <3> DEFINE m == line.message
               w == Chat!TextOf(t, m)
               texts == IF w # <<>> /\ m \notin parser[t].streamed
                        THEN <<Chat!Event(t, "text", w)>> ELSE <<>>
               calls == IF Chat!ToolOf(t, m) = "shown" THEN <<Chat!Event(t, "tool", m)>> ELSE <<>>
    <3>1. new = texts \o calls
      BY <1>2, <2>3 DEF Chat!Events
    <3>2. w = Chat!PartsOf(p.messages[m], m) /\ w \in Seq(Nat \X Nat)
      <4>1. w = Chat!PartsOf(p.messages[m], m)
        BY <1>p, Zenon DEF Chat!TextOf
      <4>2. Chat!PartsOf(p.messages[m], m) \in Seq(Nat \X Nat)
        BY <1>m, PartPairs, Zenon
      <4> QED BY <4>1, <4>2, Zenon
    <3>3. TextOf(p)[line] = IF Streams(p, m) THEN <<>> ELSE w
      BY <1>1, <2>3, <3>2 DEF TextOf
    <3>4. m \in parser[t].streamed <=> Streams(p, m)
      <4>1. m \in parser[t].streamed <=>
              \E k \in 1 .. n : L[k].kind = "delta" /\ L[k].message = m
        BY <1>f, <1>l, <1>m, Zenon DEF Follows
      <4>2. ASSUME NEW k \in 1 .. n, L[k].kind = "delta", L[k].message = m PROVE Streams(p, m)
        <5>1. k \in 1 .. Len(L)
          BY <1>0, <1>n
        <5>2. FitsAt(p, L, k)
          BY <1>l, <1>p, <5>1, LinesFit
        <5> QED BY <4>2, <5>2 DEF FitsAt
      <4>3. ASSUME Streams(p, m) PROVE \E k \in 1 .. n : L[k].kind = "delta" /\ L[k].message = m
        <5>1. n + 1 > 1 /\ L[(n + 1) - 1].kind = "delta" /\ L[(n + 1) - 1].message = m
          BY <1>1, <1>g, <2>3, <4>3 DEF FitsAt
        <5>2. n \in 1 .. n /\ (n + 1) - 1 = n
          BY <1>n, <5>1
        <5> QED BY <5>1, <5>2
      <4> QED BY <4>1, <4>2, <4>3, Zenon
    <3>e. PICK e \in Says, f \in Says :
            /\ e = Chat!Event(t, "text", w) /\ e.turn = t /\ e.kind = "text" /\ e.about = w
            /\ f = Chat!Event(t, "tool", m) /\ f.turn = t /\ f.kind = "tool"
      <4>1. Chat!Event(t, "text", w) \in Says
        BY <1>t, <3>2 DEF Chat!Event, Says
      <4>2. Chat!Event(t, "tool", m) \in Says
        BY <1>m, <1>t DEF Chat!Event, Says
      <4>3. /\ Chat!Event(t, "text", w).turn = t /\ Chat!Event(t, "text", w).kind = "text"
            /\ Chat!Event(t, "text", w).about = w
        BY DEF Chat!Event
      <4>4. Chat!Event(t, "tool", m).turn = t /\ Chat!Event(t, "tool", m).kind = "tool"
        BY DEF Chat!Event
      <4> QED BY <4>1, <4>2, <4>3, <4>4, Zenon
    <3>5. texts \in {<<>>, <<e>>} /\ calls \in {<<>>, <<f>>}
      BY <3>e
    <3>6. Heard(texts) = TextOf(p)[line]
      <4>1. Heard(<<e>>) = w /\ Heard(<<>>) = <<>>
        BY <3>e, HeardOne, Zenon
      <4>2. CASE Streams(p, m)
        BY <3>3, <3>4, <4>1, <4>2, Zenon
      <4>3. CASE ~Streams(p, m) /\ w # <<>>
        <5>1. texts = <<e>>
          BY <3>4, <3>e, <4>3, Zenon
        <5> QED BY <3>3, <4>1, <4>3, <5>1, Zenon
      <4>4. CASE w = <<>>
        <5>1. texts = <<>>
          BY <4>4, Zenon
        <5> QED BY <3>3, <4>1, <4>4, <5>1, Zenon
      <4> QED BY <4>2, <4>3, <4>4
    <3>7. Heard(calls) = <<>>
      <4>1. Heard(<<f>>) = <<>> /\ Heard(<<>>) = <<>>
        <5>1. f.kind # "text"
          BY <3>e
        <5> QED BY <3>e, <5>1, HeardOne, Zenon
      <4> QED BY <3>5, <4>1
    <3> HIDE DEF texts, calls, w, m
    <3>8. texts \in Seq(Says) /\ calls \in Seq(Says)
      <4>1. <<e>> \in Seq(Says) /\ <<f>> \in Seq(Says) /\ <<>> \in Seq(Says)
        BY <3>e, OneEvent, EmptySeq, Zenon
      <4> QED BY <3>5, <4>1, Zenon
    <3>9. Heard(new) = TextOf(p)[line]
      <4>1. Heard(texts \o calls) = Heard(texts) \o Heard(calls) /\ Heard(texts) \in Seq(Abouts)
        BY <3>8, HeardMore
      <4> QED BY <3>1, <3>6, <3>7, <4>1, NoText, Zenon
    <3>10. \A k \in 1 .. Len(new) : new[k] = e \/ new[k] = f
      <4>1. \A k \in 1 .. Len(texts) : texts[k] = e
        BY <3>5
      <4>2. \A k \in 1 .. Len(calls) : calls[k] = f
        BY <3>5
      <4>3. /\ Len(texts) \in Nat /\ Len(calls) \in Nat /\ Len(new) = Len(texts) + Len(calls)
            /\ \A k \in 1 .. Len(texts) + Len(calls) :
                 new[k] = IF k <= Len(texts) THEN texts[k] ELSE calls[k - Len(texts)]
        BY <3>1, <3>8, ConcatProperties
      <4>4. \A k \in 1 .. Len(new) : k <= Len(texts) => k \in 1 .. Len(texts)
        BY <4>3
      <4>5. \A k \in 1 .. Len(new) : ~(k <= Len(texts)) => k - Len(texts) \in 1 .. Len(calls)
        BY <4>3
      <4> QED BY <4>1, <4>2, <4>3, <4>4, <4>5, Zenon
    <3>11. /\ e.kind \notin Endings /\ e.kind \notin Results
           /\ f.kind \notin Endings /\ f.kind \notin Results
      BY <3>e DEF Endings, Results
    <3>12. line.kind # "result"
      BY <2>3
    <3>13. /\ InOrder(new) /\ ~HasResult(new)
           /\ \A k \in 1 .. Len(new) :
                /\ new[k].turn = t /\ new[k].kind \notin Endings /\ new[k].kind \notin Results
      BY <3>e, <3>10, <3>11, Zenon DEF InOrder, HasResult
    <3> QED BY <3>9, <3>12, <3>13, Zenon
  <2>4. CASE line.kind = "tool result" \/ line.kind = "start"
    <3>3. TextOf(p)[line] = <<>> /\ line.kind # "result"
      BY <1>1, <2>4 DEF TextOf
    <3>1. CASE new = <<>>
      <4> HIDE DEF Good
      <4> QED BY <1>n0, <3>1, <3>3, Zenon
    <3>2. CASE new # <<>>
      <4>e. PICK e \in Says : e = Chat!Event(t, "tool result", line.message)
        BY <1>m, <1>t DEF Chat!Event, Says
      <4>1. new = <<e>>
        BY <1>2, <2>4, <3>2, <4>e DEF Chat!Events
      <4>2. e.turn = t /\ e.kind = "tool result"
        BY <4>e DEF Chat!Event
      <4>3. e.kind \notin Endings /\ e.kind \notin Results /\ e.kind # "text"
        BY <4>2 DEF Endings, Results
      <4> HIDE DEF Good
      <4> QED BY <1>e, <3>3, <4>e, <4>1, <4>2, <4>3, Zenon
    <3> QED BY <3>1, <3>2
  <2>5. CASE line.kind = "result"
    <3>e. PICK e \in Says : e = Chat!ResultOf(t)
      <4>1. PICK w \in Seq(Nat \X Nat) : w = Chat!Texts(p)
        BY <1>p, TextsType
      <4>2. PICK kind \in {"error", "done"} : kind = IF p.error THEN "error" ELSE "done"
        OBVIOUS
      <4>3. Chat!ResultOf(t) = [turn |-> t, kind |-> kind, about |-> w]
        BY <1>p, <4>1, <4>2, Zenon DEF Chat!ResultOf, Chat!Event
      <4>4. [turn |-> t, kind |-> kind, about |-> w] \in Says
        BY <1>t, <4>1, <4>2 DEF Says
      <4> QED BY <4>3, <4>4, Zenon
    <3>1. new = <<e>>
      BY <1>2, <2>5, <3>e DEF Chat!Events
    <3>2. e.turn = t /\ e.kind \in Results /\ e.about = Chat!Texts(p)
      BY <1>p, <3>e DEF Chat!ResultOf, Chat!Event, Results
    <3>3. TextOf(p)[line] = <<>>
      BY <1>1, <2>5 DEF TextOf
    <3>4. e.kind \notin Endings /\ e.kind # "text"
      BY <3>2 DEF Endings, Results
    <3> HIDE DEF Good
    <3> QED BY <1>e, <2>5, <3>e, <3>1, <3>2, <3>3, <3>4, Zenon
  <2> QED BY <1>m, <2>1, <2>2, <2>3, <2>4, <2>5
<1> QED BY <1>1, <1>2, <1>3, <1>l, <1>n, <1>p, Zenon

-----------------------------------------------------------------------------
(* The conversation, turn by turn *)

TurnPhases == {"none", "preparing", "spawning", "writing", "reading", "waiting", "over"}
Early == {"none", "preparing", "spawning"}

\* The turn's question is there, and only its own follows.
AskedAt(es, t) ==
  \E q \in 1 .. Len(es) :
    /\ es[q].kind = "user"
    /\ \A k \in q .. Len(es) : es[k].turn = t /\ (k > q => es[k].kind # "user")
    /\ \A k \in 1 .. q - 1 : es[k].turn # t

TurnTypes ==
  /\ turnPc \in [Turns -> TurnPhases] /\ turnDone \in [Turns -> BOOLEAN]
  /\ stopped \in [Turns -> BOOLEAN] /\ parser \in [Turns -> Parsers]
  /\ turns <= MaxTurns
  /\ \A i \in 1 .. Len(entries) : entries[i].turn <= turns
  /\ \A i \in 1 .. Len(inbox) : inbox[i].turn \in Turns
  /\ turnRunning # 0 => AskedAt(entries, turnRunning)

\* The task: a turn that is neither in progress nor stopped is over.
TaskInv(t) ==
  /\ turnPc[t] \in Early => at[t] = 0 /\ AnswersIn(entries, t) = <<>>
  /\ t > turns => turnPc[t] = "none"
  /\ t <= turns /\ t # turnRunning /\ ~stopped[t] => turnPc[t] = "over"
  /\ at[t] \in 0 .. Len(Chat!Lines(plan[t]))
  /\ turnDone[t] <=> at[t] = Len(Chat!Lines(plan[t]))
  /\ Follows(plan[t], at[t], parser[t])

\* Its events.
Delivered(evs, phase, saw, p) ==
  /\ InOrder(evs)
  /\ evs # <<>> => phase \notin Early
  /\ \A i \in 1 .. Len(evs) :
       /\ evs[i].kind \in Endings => phase = "over"
       /\ evs[i].kind \in Results => saw /\ evs[i].about = Chat!Texts(p)

EventsInv(t) == Delivered(OfTurn(inbox, t), turnPc[t], turnDone[t], plan[t])

Whole(es, t, p) == HasIn(es, t, "error") \/ AnswersIn(es, t) = Chat!Texts(p)

\* What is shown of the turn in progress and what is on its way is what the CLI
\* said so far; once the result is handled, it is all.
PanelInv(t) ==
  /\ t = turnRunning /\ (turnDone[t] => HasResult(OfTurn(inbox, t))) =>
       AnswersIn(entries, t) \o Heard(OfTurn(inbox, t)) = SaidTo(plan[t], at[t])
  /\ t = turnRunning /\ turnDone[t] /\ ~HasResult(OfTurn(inbox, t)) =>
       Heard(OfTurn(inbox, t)) = <<>> /\ Whole(entries, t, plan[t])
  /\ Starts(AnswersIn(entries, t), Chat!Texts(plan[t]))
  /\ /\ t # turnRunning /\ turnDone[t] /\ turnPc[t] = "over" /\ ~stopped[t]
     /\ HasIn(entries, t, "user")
     => Whole(entries, t, plan[t])

TurnInv(t) == TaskInv(t) /\ EventsInv(t) /\ PanelInv(t)

OnceInv == ChatInv /\ TurnTypes /\ \A t \in Turns : TurnInv(t)

\* A turn nothing happens to.
LEMMA OtherTurn ==
  ASSUME NEW t, TurnInv(t), UNCHANGED <<entries, turnRunning, turns, stopped>>,
         OfTurn(inbox', t) = OfTurn(inbox, t), turnPc'[t] = turnPc[t], at'[t] = at[t],
         plan'[t] = plan[t], turnDone'[t] = turnDone[t], parser'[t] = parser[t]
  PROVE  TurnInv(t)'
<1>1. TaskInv(t)'
  BY DEF TurnInv, TaskInv
<1>2. EventsInv(t)'
  BY DEF TurnInv, EventsInv
<1>3. PanelInv(t)'
  BY DEF TurnInv, PanelInv
<1> QED BY <1>1, <1>2, <1>3 DEF TurnInv

\* Only one turn moves, and all its events are its own.
LEMMA OneTurn ==
  ASSUME OnceInv, ChatInv', NEW u \in Turns, UNCHANGED <<entries, turnRunning, turns, stopped>>,
         NEW more \in Seq(Says), inbox' = inbox \o more,
         \A k \in 1 .. Len(more) : more[k].turn = u,
         \E phase \in TurnPhases : turnPc' = [turnPc EXCEPT ![u] = phase],
         \E p : plan' = [plan EXCEPT ![u] = p],
         \E n : at' = [at EXCEPT ![u] = n],
         \E d \in BOOLEAN : turnDone' = [turnDone EXCEPT ![u] = d],
         \E s \in Parsers : parser' = [parser EXCEPT ![u] = s],
         OfTurn(inbox', u) = OfTurn(inbox, u) \o more => TurnInv(u)'
  PROVE  OnceInv'
<1>1. inbox \in Seq(Says)
  BY DEF OnceInv, ChatInv
<1>a. \A t : Grows(inbox, more, u, t)
  BY <1>1, OfTurnAdded, Zenon
<1>2. TurnInv(u)'
  BY <1>a, Zenon DEF Grows
<1>3. ASSUME NEW t \in Turns, t # u PROVE TurnInv(t)'
  <2>1. OfTurn(inbox', t) = OfTurn(inbox, t)
    BY <1>3, <1>a, Zenon DEF Grows
  <2>2. TurnInv(t)
    BY DEF OnceInv
  <2>3. plan \in [Turns -> Chat!Plans] /\ at \in [Turns -> Nat] /\ TurnTypes
    BY DEF OnceInv, ChatInv
  <2>4. /\ turnPc'[t] = turnPc[t] /\ at'[t] = at[t] /\ plan'[t] = plan[t]
        /\ turnDone'[t] = turnDone[t] /\ parser'[t] = parser[t]
    BY <1>3, <2>3 DEF TurnTypes
  <2> QED BY <2>1, <2>2, <2>4, OtherTurn
<1>4. TurnTypes'
  <2>0. TurnTypes
    BY DEF OnceInv
  <2>1. /\ turnPc' \in [Turns -> TurnPhases] /\ turnDone' \in [Turns -> BOOLEAN]
        /\ stopped' \in [Turns -> BOOLEAN] /\ parser' \in [Turns -> Parsers]
    BY <2>0 DEF TurnTypes
  <2>2. \A i \in 1 .. Len(inbox') : inbox'[i].turn \in Turns
    <3>1. \A i \in 1 .. Len(inbox) : inbox[i].turn \in Turns
      BY <2>0 DEF TurnTypes
    <3>2. /\ Len(inbox) \in Nat /\ Len(more) \in Nat /\ Len(inbox') = Len(inbox) + Len(more)
          /\ \A i \in 1 .. Len(inbox) + Len(more) :
               inbox'[i] = IF i <= Len(inbox) THEN inbox[i] ELSE more[i - Len(inbox)]
      BY <1>1, ConcatProperties
    <3>3. ASSUME NEW i \in 1 .. Len(inbox') PROVE inbox'[i].turn \in Turns
      <4>1. CASE i <= Len(inbox)
        <5>1. i \in 1 .. Len(inbox) /\ i \in 1 .. Len(inbox) + Len(more)
          BY <3>2, <4>1
        <5> QED BY <3>1, <3>2, <4>1, <5>1
      <4>2. CASE ~(i <= Len(inbox))
        <5>1. i - Len(inbox) \in 1 .. Len(more) /\ i \in 1 .. Len(inbox) + Len(more)
          BY <3>2, <4>2
        <5> QED BY <3>2, <4>2, <5>1
      <4> QED BY <4>1, <4>2
    <3> QED BY <3>3
  <2> QED BY <2>0, <2>1, <2>2, Zenon DEF TurnTypes
<1> QED BY <1>2, <1>3, <1>4 DEF OnceInv

\* The phase changes, nothing else.
LEMMA MovesOnce ==
  ASSUME OnceInv, ChatInv', NEW u \in Turns, NEW phase \in TurnPhases \ {"none", "over"},
         Chat!Goto(u, phase), turnPc[u] \notin {"none", "over"},
         phase \in Early => turnPc[u] \in Early,
         UNCHANGED <<entries, turnRunning, turns, stopped, inbox, plan, at, turnDone, parser>>
  PROVE  OnceInv'
<1>0. TurnInv(u) /\ TurnTypes /\ plan \in [Turns -> Chat!Plans] /\ at \in [Turns -> Nat]
      /\ inbox \in Seq(Says)
  BY DEF OnceInv, ChatInv
<1>1. turnPc'[u] = phase /\ phase \notin {"none", "over"}
  BY <1>0 DEF Chat!Goto, TurnTypes
<1>2. TurnInv(u)'
  <2>1. TaskInv(u)'
    BY <1>0, <1>1 DEF TurnInv, TaskInv
  <2>2. EventsInv(u)'
    <3>1. \A i \in 1 .. Len(OfTurn(inbox, u)) : OfTurn(inbox, u)[i].kind \notin Endings
      BY <1>0 DEF TurnInv, EventsInv, Delivered
    <3> QED BY <1>0, <1>1, <3>1, Zenon DEF TurnInv, EventsInv, Delivered
  <2>3. PanelInv(u)'
    BY <1>0, <1>1, Zenon DEF TurnInv, PanelInv
  <2> QED BY <2>1, <2>2, <2>3 DEF TurnInv
<1>3. inbox' = inbox \o <<>> /\ <<>> \in Seq(Says) /\ \A k \in 1 .. Len(<<>>) : FALSE
  <2>1. inbox \o <<>> = inbox
    BY <1>0, NoEvent
  <2> QED BY <2>1
<1>4. /\ \E ph \in TurnPhases : turnPc' = [turnPc EXCEPT ![u] = ph]
      /\ \E p : plan' = [plan EXCEPT ![u] = p]
      /\ \E n : at' = [at EXCEPT ![u] = n]
      /\ \E d \in BOOLEAN : turnDone' = [turnDone EXCEPT ![u] = d]
      /\ \E s \in Parsers : parser' = [parser EXCEPT ![u] = s]
  <2>1. turnPc' = [turnPc EXCEPT ![u] = phase]
    BY DEF Chat!Goto
  <2>2. plan' = [plan EXCEPT ![u] = plan[u]] /\ at' = [at EXCEPT ![u] = at[u]]
    BY <1>0
  <2>3. /\ turnDone' = [turnDone EXCEPT ![u] = turnDone[u]] /\ turnDone[u] \in BOOLEAN
        /\ parser' = [parser EXCEPT ![u] = parser[u]] /\ parser[u] \in Parsers
    BY <1>0 DEF TurnTypes
  <2> QED BY <2>1, <2>2, <2>3
<1> QED BY <1>2, <1>3, <1>4, OneTurn, Zenon

LEMMA EachOf ==
  ASSUME NEW a \in Seq(Says), NEW b \in Seq(Says), NEW i \in 1 .. Len(a \o b)
  PROVE  \/ \E k \in 1 .. Len(a) : (a \o b)[i] = a[k]
         \/ \E k \in 1 .. Len(b) : (a \o b)[i] = b[k]
<1> DEFINE s == a \o b
<1>1. /\ Len(a) \in Nat /\ Len(b) \in Nat /\ Len(s) = Len(a) + Len(b)
      /\ \A k \in 1 .. Len(a) + Len(b) : s[k] = IF k <= Len(a) THEN a[k] ELSE b[k - Len(a)]
  BY ConcatProperties
<1> HIDE DEF s
<1>2. CASE i <= Len(a)
  <2>1. i \in 1 .. Len(a) /\ i \in 1 .. Len(a) + Len(b)
    BY <1>1, <1>2 DEF s
  <2> QED BY <1>1, <1>2, <2>1, Zenon DEF s
<1>3. CASE ~(i <= Len(a))
  <2>1. i - Len(a) \in 1 .. Len(b) /\ i \in 1 .. Len(a) + Len(b)
    BY <1>1, <1>3 DEF s
  <2> QED BY <1>1, <1>3, <2>1, Zenon DEF s
<1> QED BY <1>2, <1>3

Brings(evs, more) ==
  /\ HasResult(evs \o more) <=> HasResult(evs) \/ HasResult(more)
  /\ Heard(evs \o more) = Heard(evs) \o Heard(more)

\* More events of a turn that is not over.
LEMMA DeliveredMore ==
  ASSUME NEW evs \in Seq(Says), NEW more \in Seq(Says), NEW p, NEW phase, NEW saw,
         NEW next, NEW sees, Delivered(evs, phase, saw, p), phase # "over",
         next \notin Early, saw => sees, InOrder(more),
         ~saw \/ \A i \in 1 .. Len(more) : more[i].kind \in Endings,
         \A i \in 1 .. Len(more) :
           /\ more[i].kind \in Endings => next = "over"
           /\ more[i].kind \in Results => sees /\ more[i].about = Chat!Texts(p)
  PROVE  Delivered(evs \o more, next, sees, p) /\ Brings(evs, more)
<1>1. /\ InOrder(evs)
      /\ \A i \in 1 .. Len(evs) : evs[i].kind \notin Endings
      /\ \A i \in 1 .. Len(evs) : evs[i].kind \in Results => saw /\ evs[i].about = Chat!Texts(p)
  BY Zenon DEF Delivered
<1>2. /\ InOrder(evs \o more)
      /\ HasResult(evs \o more) <=> HasResult(evs) \/ HasResult(more)
  BY <1>1, InOrderMore, Zenon
<1>3. Heard(evs \o more) = Heard(evs) \o Heard(more)
  BY HeardMore
<1>4. ASSUME NEW i \in 1 .. Len(evs \o more)
      PROVE  /\ (evs \o more)[i].kind \in Endings => next = "over"
             /\ (evs \o more)[i].kind \in Results =>
                  sees /\ (evs \o more)[i].about = Chat!Texts(p)
  <2>1. \/ \E k \in 1 .. Len(evs) : (evs \o more)[i] = evs[k]
        \/ \E k \in 1 .. Len(more) : (evs \o more)[i] = more[k]
    BY EachOf, Zenon
  <2> QED BY <1>1, <2>1, Zenon
<1> QED BY <1>2, <1>3, <1>4, Zenon DEF Delivered, Brings

\* The task ends.
LEMMA FinishesOnce ==
  ASSUME OnceInv, ChatInv', NEW u \in Turns, NEW how \in Endings, Chat!Finish(u, how),
         turnPc[u] \notin {"none", "over"},
         UNCHANGED <<entries, turnRunning, turns, stopped, plan, at, turnDone, parser>>
  PROVE  OnceInv'
<1>0. TurnInv(u) /\ TurnTypes /\ plan \in [Turns -> Chat!Plans] /\ at \in [Turns -> Nat]
      /\ inbox \in Seq(Says) /\ u \in Nat
  BY DEF OnceInv, ChatInv, Turns, Chat!Turns
<1>1. turnPc'[u] = "over" /\ "over" \in TurnPhases
      /\ turnPc' = [turnPc EXCEPT ![u] = "over"]
  BY <1>0 DEF Chat!Finish, Chat!Goto, TurnTypes, TurnPhases
<1>e. PICK e \in Says : e = Chat!Event(u, how, <<>>) /\ e.turn = u /\ e.kind = how
  <2>1. /\ Chat!Event(u, how, <<>>).turn = u /\ Chat!Event(u, how, <<>>).kind = how
    BY DEF Chat!Event
  <2>2. Chat!Event(u, how, <<>>) \in Says
    BY <1>0 DEF Chat!Event, Says, Endings
  <2> QED BY <2>1, <2>2, Zenon
<1>s. PICK s \in Seq(Says) : s = <<e>> /\ Len(s) = 1 /\ s[1] = e
  BY OneEvent, Zenon
<1>2. inbox' = inbox \o s
  <2>1. inbox' = Append(inbox, e)
    BY <1>e DEF Chat!Finish
  <2> QED BY <1>0, <1>s, <2>1, AppendIsConcat
<1>3. \A k \in 1 .. Len(s) : k = 1 /\ s[k] = e
  BY <1>s
<1>4. \A k \in 1 .. Len(s) : s[k].turn = u /\ s[k].kind = how
  BY <1>3, <1>e, Zenon
<1>5. how \notin Results /\ how # "text"
  BY DEF Endings, Results
<1>6. InOrder(s) /\ ~HasResult(s) /\ Heard(s) = <<>>
  <2>1. InOrder(s)
    BY <1>3, <1>4, <1>5, <1>s, Zenon DEF InOrder
  <2>2. ~HasResult(s)
    BY <1>4, <1>5, Zenon DEF HasResult
  <2>3. Heard(s) = <<>>
    BY <1>4, <1>5, HeardNone, Zenon
  <2> QED BY <2>1, <2>2, <2>3
<1>7. ASSUME OfTurn(inbox', u) = OfTurn(inbox, u) \o s PROVE TurnInv(u)'
  <2>w. PICK w \in Seq(Says) : w = OfTurn(inbox, u)
    BY <1>0, OfTurnMore, Zenon
  <2>1. u <= turns /\ (u # turnRunning => stopped[u])
    BY <1>0 DEF TurnInv, TaskInv, OnceInv, ChatInv
  <2>2. TaskInv(u)'
    <3>1. "over" \notin Early
      BY DEF Early
    <3> QED BY <1>0, <1>1, <2>1, <3>1 DEF TurnInv, TaskInv
  <2>3. Delivered(w \o s, "over", turnDone[u], plan[u]) /\ Brings(w, s)
    <3>1. Delivered(w, turnPc[u], turnDone[u], plan[u]) /\ turnPc[u] # "over"
      BY <1>0, <2>w, Zenon DEF TurnInv, EventsInv
    <3>2. "over" \notin Early
      BY DEF Early
    <3>3. \A i \in 1 .. Len(s) : s[i].kind \in Endings
      BY <1>4, Zenon
    <3>4. \A i \in 1 .. Len(s) :
            /\ s[i].kind \in Endings => "over" = "over"
            /\ s[i].kind \in Results => turnDone[u] /\ s[i].about = Chat!Texts(plan[u])
      BY <1>4, <1>5, Zenon
    <3> QED BY <1>6, <3>1, <3>2, <3>3, <3>4, DeliveredMore
  <2>4. EventsInv(u)'
    BY <1>1, <1>7, <2>3, <2>w, Zenon DEF EventsInv
  <2>5. Heard(w \o s) = Heard(w) /\ (HasResult(w \o s) <=> HasResult(w))
    <3>1. Heard(w) \in Seq(Abouts)
      BY HeardMore, Zenon
    <3> QED BY <1>6, <2>3, <3>1, NoText, Zenon DEF Brings
  <2>6. PanelInv(u)'
    BY <1>0, <1>7, <2>1, <2>5, <2>w, Zenon DEF TurnInv, PanelInv
  <2> QED BY <2>2, <2>4, <2>6 DEF TurnInv
<1>8. /\ \E phase \in TurnPhases : turnPc' = [turnPc EXCEPT ![u] = phase]
      /\ \E p : plan' = [plan EXCEPT ![u] = p]
      /\ \E n : at' = [at EXCEPT ![u] = n]
      /\ \E d \in BOOLEAN : turnDone' = [turnDone EXCEPT ![u] = d]
      /\ \E x \in Parsers : parser' = [parser EXCEPT ![u] = x]
  <2>2. plan' = [plan EXCEPT ![u] = plan[u]] /\ at' = [at EXCEPT ![u] = at[u]]
    BY <1>0
  <2>3. /\ turnDone' = [turnDone EXCEPT ![u] = turnDone[u]] /\ turnDone[u] \in BOOLEAN
        /\ parser' = [parser EXCEPT ![u] = parser[u]] /\ parser[u] \in Parsers
    BY <1>0 DEF TurnTypes
  <2> QED BY <1>1, <2>2, <2>3
<1>9. \A k \in 1 .. Len(s) : s[k].turn = u
  BY <1>4
<1> QED BY <1>2, <1>7, <1>8, <1>9, OneTurn, Zenon

\* The CLI starts, and so does its plan.
LEMMA SpawnsOnce ==
  ASSUME OnceInv, ChatInv', NEW u \in Turns, NEW p \in Chat!Plans,
         turnPc[u] = "spawning", Chat!Goto(u, "writing"), plan' = [plan EXCEPT ![u] = p],
         UNCHANGED <<entries, turnRunning, turns, stopped, inbox, at, turnDone, parser>>
  PROVE  OnceInv'
<1>0. TurnInv(u) /\ TurnTypes /\ plan \in [Turns -> Chat!Plans] /\ at \in [Turns -> Nat]
      /\ inbox \in Seq(Says) /\ plan[u] \in Chat!Plans
  BY DEF OnceInv, ChatInv
<1>1. turnPc'[u] = "writing" /\ plan'[u] = p
  BY <1>0 DEF Chat!Goto, TurnTypes
<1>2. at[u] = 0 /\ AnswersIn(entries, u) = <<>> /\ OfTurn(inbox, u) = <<>>
  <2>1. turnPc[u] \in Early
    BY DEF Early
  <2> QED BY <1>0, <2>1, Zenon DEF TurnInv, TaskInv, EventsInv, Delivered
<1>3. ~turnDone[u] /\ 0 \in 0 .. Len(Chat!Lines(p)) /\ 0 # Len(Chat!Lines(p))
  <2>1. /\ Len(Chat!Lines(p)) \in Nat /\ Len(Chat!Lines(p)) >= 2
        /\ Len(Chat!Lines(plan[u])) \in Nat /\ Len(Chat!Lines(plan[u])) >= 2
    BY <1>0, LinesFit
  <2> QED BY <1>0, <1>2, <2>1 DEF TurnInv, TaskInv
<1>4. TurnInv(u)'
  <2>1. TaskInv(u)'
    <3>1. Follows(p, 0, parser[u])
      <4>1. Follows(plan[u], 0, parser[u])
        BY <1>0, <1>2 DEF TurnInv, TaskInv
      <4> QED BY <4>1 DEF Follows
    <3>2. "writing" \notin Early /\ "writing" # "none" /\ "writing" # "over"
      BY DEF Early
    <3>3. ~(u > turns)
      BY <1>0 DEF TurnInv, TaskInv
    <3>4. ~(u <= turns /\ u # turnRunning /\ ~stopped[u])
      BY <1>0 DEF TurnInv, TaskInv
    <3> QED BY <1>1, <1>2, <1>3, <3>1, <3>2, <3>3, <3>4, Zenon DEF TaskInv
  <2>2. EventsInv(u)'
    <3>1. InOrder(<<>>) /\ \A i \in 1 .. Len(<<>>) : FALSE
      BY DEF InOrder
    <3> QED BY <1>2, <3>1, Zenon DEF EventsInv, Delivered
  <2>3. PanelInv(u)'
    <3>1. Heard(<<>>) = <<>> /\ SaidTo(p, 0) = <<>>
      <4>1. <<>> \in Seq(Says) /\ \A k \in 1 .. Len(<<>>) : FALSE
        OBVIOUS
      <4>2. Heard(<<>>) = <<>>
        BY <4>1, HeardNone, Zenon
      <4> QED BY <4>2, SaidToNone, Zenon
    <3>2. <<>> \o <<>> = <<>>
      OBVIOUS
    <3>3. Starts(<<>>, Chat!Texts(p))
      BY TextsAre, StartsSelf, Zenon
    <3>4. ~turnDone'[u]
      BY <1>3
    <3> QED BY <1>1, <1>2, <3>1, <3>2, <3>3, <3>4, Zenon DEF PanelInv
  <2> QED BY <2>1, <2>2, <2>3, Zenon DEF TurnInv
<1>5. inbox' = inbox \o <<>> /\ <<>> \in Seq(Says) /\ \A k \in 1 .. Len(<<>>) : FALSE
  <2>1. inbox \o <<>> = inbox
    BY <1>0, NoEvent
  <2> QED BY <2>1
<1>6. /\ \E ph \in TurnPhases : turnPc' = [turnPc EXCEPT ![u] = ph]
      /\ \E q : plan' = [plan EXCEPT ![u] = q]
      /\ \E n : at' = [at EXCEPT ![u] = n]
      /\ \E d \in BOOLEAN : turnDone' = [turnDone EXCEPT ![u] = d]
      /\ \E s \in Parsers : parser' = [parser EXCEPT ![u] = s]
  <2>1. turnPc' = [turnPc EXCEPT ![u] = "writing"] /\ "writing" \in TurnPhases
    BY DEF Chat!Goto, TurnPhases
  <2>2. at' = [at EXCEPT ![u] = at[u]]
    BY <1>0
  <2>3. /\ turnDone' = [turnDone EXCEPT ![u] = turnDone[u]] /\ turnDone[u] \in BOOLEAN
        /\ parser' = [parser EXCEPT ![u] = parser[u]] /\ parser[u] \in Parsers
    BY <1>0 DEF TurnTypes
  <2> QED BY <2>1, <2>2, <2>3
<1> QED BY <1>4, <1>5, <1>6, OneTurn, Zenon

\* A line is read.
LEMMA ReadsOnce ==
  ASSUME OnceInv, ChatInv', NEW u \in Turns, Chat!ReadLine(u)
  PROVE  OnceInv'
<1> DEFINE line == Chat!Lines(plan[u])[at[u] + 1]
           more == Chat!Events(u, line)
<1>0. /\ TurnInv(u) /\ TurnTypes /\ plan \in [Turns -> Chat!Plans] /\ at \in [Turns -> Nat]
      /\ inbox \in Seq(Says) /\ entries \in Seq(Shows)
      /\ plan[u] \in Chat!Plans /\ at[u] \in Nat /\ parser[u] \in Parsers
  BY DEF OnceInv, ChatInv, TurnTypes
<1>1. /\ at' = [at EXCEPT ![u] = at[u] + 1] /\ at'[u] = at[u] + 1
      /\ at[u] < Len(Chat!Lines(plan[u])) /\ turnPc[u] = "reading"
  BY <1>0 DEF Chat!ReadLine
<1>2. /\ parser' = [parser EXCEPT ![u] = Chat!Parsed(u, line)]
      /\ inbox' = inbox \o more
      /\ turnDone' = [turnDone EXCEPT ![u] = turnDone[u] \/ line.kind = "result"]
      /\ UNCHANGED <<entries, turnRunning, turns, stopped, turnPc, plan>>
  BY <1>1 DEF Chat!ReadLine, Chat!uiVars
<1> HIDE DEF more, line
<1>3. Len(Chat!Lines(plan[u])) \in Nat /\ ~turnDone[u]
      /\ (line.kind = "result" <=> at[u] + 1 = Len(Chat!Lines(plan[u])))
  <2>1. /\ Len(Chat!Lines(plan[u])) \in Nat
        /\ \A k \in 1 .. Len(Chat!Lines(plan[u])) :
             Chat!Lines(plan[u])[k].kind = "result" <=> k = Len(Chat!Lines(plan[u]))
    BY <1>0, LinesFit, Zenon
  <2>2. at[u] + 1 \in 1 .. Len(Chat!Lines(plan[u]))
    BY <1>0, <1>1, <2>1
  <2>3. at[u] # Len(Chat!Lines(plan[u]))
    BY <1>0, <1>1, <2>1
  <2>4. ~turnDone[u]
    BY <1>0, <2>3, Zenon DEF TurnInv, TaskInv
  <2> QED BY <2>1, <2>2, <2>4, Zenon DEF line
<1>4. turnDone'[u] <=> line.kind = "result"
  BY <1>0, <1>2, <1>3 DEF TurnTypes
<1>f. Follows(plan[u], at[u], parser[u])
  BY <1>0, Zenon DEF TurnInv, TaskInv
<1>5. /\ Chat!Parsed(u, line) \in Parsers
      /\ Follows(plan[u], at[u] + 1, Chat!Parsed(u, line))
  BY <1>0, <1>1, <1>f, ParsedFollows, Zenon DEF line
<1>6. /\ more \in Seq(Says) /\ line \in Prints
      /\ Heard(more) = TextOf(plan[u])[line]
      /\ InOrder(more)
      /\ HasResult(more) <=> line.kind = "result"
      /\ \A k \in 1 .. Len(more) :
           /\ more[k].turn = u /\ more[k].kind \notin Endings
           /\ more[k].kind \in Results => more[k].about = Chat!Texts(plan[u])
  BY <1>0, <1>1, <1>f, EventsBring, Zenon DEF line, more
<1>7. parser'[u] = Chat!Parsed(u, line)
  BY <1>0, <1>2 DEF TurnTypes
<1>8. ASSUME OfTurn(inbox', u) = OfTurn(inbox, u) \o more PROVE TurnInv(u)'
  <2>w. PICK w \in Seq(Says) : w = OfTurn(inbox, u)
    BY <1>0, OfTurnMore, Zenon
  <2>1. TaskInv(u)'
    <3>1. "reading" \notin Early /\ "reading" # "none" /\ "reading" # "over"
      BY DEF Early
    <3>2. ~(u > turns)
      BY <1>0, <1>1 DEF TurnInv, TaskInv
    <3>3. ~(u <= turns /\ u # turnRunning /\ ~stopped[u])
      BY <1>0, <1>1 DEF TurnInv, TaskInv
    <3>4. at[u] + 1 \in 0 .. Len(Chat!Lines(plan[u]))
      BY <1>0, <1>1, <1>3
    <3> QED BY <1>1, <1>2, <1>3, <1>4, <1>5, <1>7, <3>1, <3>2, <3>3, <3>4, Zenon DEF TaskInv
  <2>2. /\ Delivered(w, "reading", turnDone[u], plan[u])
        /\ \A i \in 1 .. Len(w) : w[i].kind \notin Results
    <3>1. Delivered(w, "reading", turnDone[u], plan[u])
      BY <1>0, <1>1, <2>w, Zenon DEF TurnInv, EventsInv
    <3> QED BY <1>3, <3>1, Zenon DEF Delivered
  <2>3. Delivered(w \o more, "reading", turnDone'[u], plan[u]) /\ Brings(w, more)
    <3>1. "reading" \notin Early /\ "reading" # "over"
      BY DEF Early
    <3>2. \A i \in 1 .. Len(more) :
            /\ more[i].kind \in Endings => "reading" = "over"
            /\ more[i].kind \in Results => turnDone'[u] /\ more[i].about = Chat!Texts(plan[u])
      BY <1>4, <1>6, Zenon DEF HasResult
    <3>3. turnDone[u] => turnDone'[u]
      BY <1>3
    <3>n. PICK sees : sees = turnDone'[u]
      OBVIOUS
    <3> QED BY <1>3, <1>6, <2>2, <3>1, <3>2, <3>3, <3>n, DeliveredMore
  <2>4. EventsInv(u)'
    BY <1>1, <1>2, <1>8, <2>3, <2>w, Zenon DEF EventsInv
  <2>5. HasResult(w \o more) <=> turnDone'[u]
    <3>1. ~HasResult(w)
      BY <2>2, Zenon DEF HasResult
    <3> QED BY <1>4, <1>6, <2>3, <3>1, Zenon DEF Brings
  <2>6. ASSUME u = turnRunning
        PROVE  AnswersIn(entries, u) \o Heard(w \o more) = SaidTo(plan[u], at[u] + 1)
    <3>1. AnswersIn(entries, u) \o Heard(w) = SaidTo(plan[u], at[u])
      BY <1>0, <1>3, <2>6, <2>w, Zenon DEF TurnInv, PanelInv
    <3>2. SaidTo(plan[u], at[u] + 1) = SaidTo(plan[u], at[u]) \o TextOf(plan[u])[line]
      BY <1>0, <1>1, SaidToNext, Zenon DEF line
    <3>3. Heard(w \o more) = Heard(w) \o Heard(more)
      BY <2>3, Zenon DEF Brings
    <3>4. Heard(w) \in Seq(Abouts) /\ Heard(more) \in Seq(Abouts)
      BY <1>6, HeardMore, Zenon
    <3>5. AnswersIn(entries, u) \in Seq(Abouts)
      BY <1>0, AnswersMore, Zenon
    <3>6. AnswersIn(entries, u) \o (Heard(w) \o Heard(more))
            = (AnswersIn(entries, u) \o Heard(w)) \o Heard(more)
      BY <3>4, <3>5, TextsAssociate, Zenon
    <3> QED BY <1>6, <3>1, <3>2, <3>3, <3>6, Zenon
  <2>7. PanelInv(u)'
    <3>1. Starts(AnswersIn(entries, u), Chat!Texts(plan[u]))
      BY <1>0, Zenon DEF TurnInv, PanelInv
    <3>2. turnPc'[u] # "over"
      BY <1>1, <1>2
    <3> QED BY <1>1, <1>2, <1>8, <2>5, <2>6, <2>w, <3>1, <3>2, Zenon DEF PanelInv
  <2> QED BY <2>1, <2>4, <2>7, Zenon DEF TurnInv
<1>9. /\ \E phase \in TurnPhases : turnPc' = [turnPc EXCEPT ![u] = phase]
      /\ \E p : plan' = [plan EXCEPT ![u] = p]
      /\ \E n : at' = [at EXCEPT ![u] = n]
      /\ \E d \in BOOLEAN : turnDone' = [turnDone EXCEPT ![u] = d]
      /\ \E x \in Parsers : parser' = [parser EXCEPT ![u] = x]
  <2>1. turnPc' = [turnPc EXCEPT ![u] = turnPc[u]] /\ turnPc[u] \in TurnPhases
    BY <1>0, <1>2 DEF TurnTypes
  <2>2. plan' = [plan EXCEPT ![u] = plan[u]]
    BY <1>0, <1>2
  <2>3. (turnDone[u] \/ line.kind = "result") \in BOOLEAN
    OBVIOUS
  <2> QED BY <1>1, <1>2, <1>5, <2>1, <2>2, <2>3, Zenon
<1>10. \A k \in 1 .. Len(more) : more[k].turn = u
  BY <1>6, Zenon
<1> QED BY <1>2, <1>6, <1>8, <1>9, <1>10, OneTurn, Zenon

\* Only the CLI changes.
LEMMA SameOnce ==
  ASSUME OnceInv, ChatInv',
         UNCHANGED <<entries, turnRunning, turns, stopped, inbox, turnPc, plan, at, turnDone,
                     parser>>
  PROVE  OnceInv'
<1>1. ASSUME NEW t \in Turns PROVE TurnInv(t)'
  <2>1. TurnInv(t)
    BY DEF OnceInv
  <2>2. OfTurn(inbox', t) = OfTurn(inbox, t)
    OBVIOUS
  <2> QED BY <2>1, <2>2, OtherTurn
<1>2. TurnTypes'
  BY DEF OnceInv, TurnTypes
<1> QED BY <1>1, <1>2 DEF OnceInv

LEMMA TaskOnce ==
  ASSUME OnceInv, NEW u \in Turns, Chat!Task(u) \/ Chat!Cli(u)
  PROVE  OnceInv'
<1> USE DEF Chat!uiVars, Chat!taskVars, Chat!cliVars
<1>0. ChatInv'
  BY TaskChat DEF OnceInv
<1>h. "failed" \in Endings /\ "finished" \in Endings
  BY DEF Endings
<1>1. CASE Chat!MakeFolder(u)
  <2>1. /\ turnPc[u] = "preparing"
        /\ UNCHANGED <<entries, turnRunning, turns, stopped, plan, at, turnDone, parser>>
        /\ Chat!Finish(u, "failed") \/ (Chat!Goto(u, "spawning") /\ UNCHANGED inbox)
    BY <1>1 DEF Chat!MakeFolder
  <2>2. "spawning" \in TurnPhases \ {"none", "over"} /\ "preparing" \in Early
    BY DEF TurnPhases, Early
  <2> QED BY <1>0, <1>h, <2>1, <2>2, FinishesOnce, MovesOnce
<1>2. CASE Chat!Spawn(u)
  <2>1. /\ turnPc[u] = "spawning"
        /\ UNCHANGED <<entries, turnRunning, turns, stopped, at, turnDone, parser>>
        /\ \/ Chat!Finish(u, "failed") /\ UNCHANGED plan
           \/ /\ Chat!Goto(u, "writing") /\ UNCHANGED inbox
              /\ \E p \in Chat!Plans : plan' = [plan EXCEPT ![u] = p]
    BY <1>2 DEF Chat!Spawn
  <2> QED BY <1>0, <1>h, <2>1, FinishesOnce, SpawnsOnce
<1>3. CASE Chat!WritePrompt(u)
  <2>1. /\ turnPc[u] = "writing"
        /\ UNCHANGED <<entries, turnRunning, turns, stopped, plan, at, turnDone, parser>>
        /\ Chat!Finish(u, "failed") \/ (Chat!Goto(u, "reading") /\ UNCHANGED inbox)
    BY <1>3 DEF Chat!WritePrompt
  <2>2. "reading" \in TurnPhases \ {"none", "over"} /\ "reading" \notin Early
    BY DEF TurnPhases, Early
  <2> QED BY <1>0, <1>h, <2>1, <2>2, FinishesOnce, MovesOnce
<1>4. CASE Chat!ReadLine(u)
  BY <1>0, <1>4, ReadsOnce
<1>5. CASE Chat!EndOfOutput(u)
  <2>1. /\ turnPc[u] = "reading" /\ Chat!Goto(u, "waiting")
        /\ UNCHANGED <<entries, turnRunning, turns, stopped, inbox, plan, at, turnDone, parser>>
    BY <1>5 DEF Chat!EndOfOutput
  <2>2. "waiting" \in TurnPhases \ {"none", "over"} /\ "waiting" \notin Early
    BY DEF TurnPhases, Early
  <2> QED BY <1>0, <2>1, <2>2, MovesOnce
<1>6. CASE Chat!Exited(u) \/ Chat!Kill(u) \/ Chat!ReadFails(u)
  <2>1. /\ turnPc[u] \in {"waiting", "reading"}
        /\ UNCHANGED <<entries, turnRunning, turns, stopped, plan, at, turnDone, parser>>
        /\ Chat!Finish(u, "failed") \/ Chat!Finish(u, "finished")
    BY <1>6 DEF Chat!Exited, Chat!Kill, Chat!ReadFails
  <2> QED BY <1>0, <1>h, <2>1, FinishesOnce
<1>7. CASE Chat!CloseOutput(u) \/ Chat!Exit(u)
  BY <1>0, <1>7, SameOnce DEF Chat!CloseOutput, Chat!Exit
<1> QED BY <1>1, <1>2, <1>3, <1>4, <1>5, <1>6, <1>7 DEF Chat!Task, Chat!Cli

-----------------------------------------------------------------------------
(* The question of a turn *)

LEMMA EntriesTogether ==
  ASSUME NEW es \in Seq(Shows), NEW more \in Seq(Shows)
  PROVE  \E all \in Seq(Shows) :
           /\ all = es \o more /\ Len(all) = Len(es) + Len(more)
           /\ \A i \in 1 .. Len(es) : all[i] = es[i]
           /\ \A i \in 1 .. Len(more) : all[Len(es) + i] = more[i]
<1> DEFINE all == es \o more
<1>0. /\ Len(all) = Len(es) + Len(more)
      /\ \A i \in 1 .. Len(es) : all[i] = es[i]
      /\ \A i \in 1 .. Len(more) : all[Len(es) + i] = more[i]
  BY ConcatProperties
<1>1. all \in Seq(Shows)
  BY ConcatProperties
<1> QED BY <1>0, <1>1, Zenon

\* What is added to it is its own.
LEMMA AskedMore ==
  ASSUME NEW es \in Seq(Shows), NEW more \in Seq(Shows), NEW t, AskedAt(es, t),
         \A k \in 1 .. Len(more) : more[k].turn = t /\ more[k].kind # "user"
  PROVE  AskedAt(es \o more, t)
<1>s. PICK all \in Seq(Shows) :
        /\ all = es \o more /\ Len(all) = Len(es) + Len(more)
        /\ \A i \in 1 .. Len(es) : all[i] = es[i]
        /\ \A i \in 1 .. Len(more) : all[Len(es) + i] = more[i]
  BY EntriesTogether, Zenon
<1>0. Len(es) \in Nat /\ Len(more) \in Nat
  OBVIOUS
<1>q. PICK q \in 1 .. Len(es) :
        /\ es[q].kind = "user"
        /\ \A k \in q .. Len(es) : es[k].turn = t /\ (k > q => es[k].kind # "user")
        /\ \A k \in 1 .. q - 1 : es[k].turn # t
  BY DEF AskedAt
<1>1. q \in 1 .. Len(all) /\ all[q].kind = "user"
  BY <1>0, <1>q, <1>s
<1>2. ASSUME NEW k \in q .. Len(all) PROVE all[k].turn = t /\ (k > q => all[k].kind # "user")
  <2>1. CASE k <= Len(es)
    <3>1. k \in q .. Len(es) /\ k \in 1 .. Len(es)
      BY <1>0, <2>1
    <3> QED BY <1>q, <1>s, <3>1
  <2>2. CASE ~(k <= Len(es))
    <3>1. k - Len(es) \in 1 .. Len(more) /\ Len(es) + (k - Len(es)) = k
      BY <1>0, <1>s, <2>2
    <3>2. all[k] = more[k - Len(es)]
      BY <1>s, <3>1
    <3> QED BY <3>1, <3>2
  <2> QED BY <2>1, <2>2
<1>3. ASSUME NEW k \in 1 .. q - 1 PROVE all[k].turn # t
  <2>1. k \in 1 .. Len(es)
    BY <1>0
  <2> QED BY <1>q, <1>s, <2>1
<1> QED BY <1>1, <1>2, <1>3, <1>s DEF AskedAt

\* The first of a turn.
LEMMA AskedNew ==
  ASSUME NEW es \in Seq(Shows), NEW e \in Shows, e.kind = "user",
         \A i \in 1 .. Len(es) : es[i].turn # e.turn
  PROVE  AskedAt(es \o <<e>>, e.turn)
<1>o. PICK s \in Seq(Shows) : s = <<e>> /\ Len(s) = 1 /\ s[1] = e
  BY OneEntry, Zenon
<1>0. Len(es) \in Nat
  OBVIOUS
<1>s. PICK all \in Seq(Shows) :
        /\ all = es \o s /\ Len(all) = Len(es) + Len(s)
        /\ \A i \in 1 .. Len(es) : all[i] = es[i]
        /\ \A i \in 1 .. Len(s) : all[Len(es) + i] = s[i]
  BY EntriesTogether, Zenon
<1>1. Len(all) = Len(es) + 1 /\ all[Len(es) + 1] = e
  <2>1. 1 \in 1 .. Len(s)
    BY <1>o
  <2> QED BY <1>o, <1>s, <2>1
<1>2. Len(es) + 1 \in 1 .. Len(all) /\ (Len(es) + 1) - 1 = Len(es)
  BY <1>0, <1>1
<1>3. \A k \in Len(es) + 1 .. Len(all) : all[k] = e /\ ~(k > Len(es) + 1)
  BY <1>0, <1>1
<1>4. AskedAt(all, e.turn)
  <2>1. \A k \in 1 .. (Len(es) + 1) - 1 : all[k].turn # e.turn
    BY <1>2, <1>s
  <2> QED BY <1>1, <1>2, <1>3, <2>1, Zenon DEF AskedAt
<1> QED BY <1>4, <1>o, <1>s, Zenon

\* The answers since the last question are those of its turn.
LEMMA AnsweredIs ==
  ASSUME NEW es \in Seq(Shows), NEW t, AskedAt(es, t)
  PROVE  Chat!AnsweredSince(es) <=> AnswersIn(es, t) # <<>>
<1>0. Len(es) \in Nat /\ DOMAIN es = 1 .. Len(es)
  OBVIOUS
<1>q. PICK q \in 1 .. Len(es) :
        /\ es[q].kind = "user"
        /\ \A k \in q .. Len(es) : es[k].turn = t /\ (k > q => es[k].kind # "user")
        /\ \A k \in 1 .. q - 1 : es[k].turn # t
  BY DEF AskedAt
<1>1. ASSUME Chat!AnsweredSince(es) PROVE AnswersIn(es, t) # <<>>
  <2>i. PICK i \in 1 .. Len(es) :
          es[i].kind = "answer" /\ \A j \in i + 1 .. Len(es) : es[j].kind # "user"
    BY <1>0, <1>1, Zenon DEF Chat!AnsweredSince
  <2>1. i \in q .. Len(es)
    <3>1. ~(q \in i + 1 .. Len(es))
      BY <1>q, <2>i
    <3> QED BY <1>0, <3>1
  <2>2. es[i].turn = t
    BY <1>q, <2>1
  <2> QED BY <2>i, <2>2, AnswersSome
<1>2. ASSUME AnswersIn(es, t) # <<>> PROVE Chat!AnsweredSince(es)
  <2>i. PICK i \in 1 .. Len(es) : es[i].kind = "answer" /\ es[i].turn = t
    BY <1>2, AnswersNone
  <2>1. i \in q .. Len(es)
    <3>1. ~(i \in 1 .. q - 1)
      BY <1>q, <2>i
    <3> QED BY <1>0, <3>1
  <2>2. \A j \in i + 1 .. Len(es) : j \in q .. Len(es) /\ j > q
    BY <1>0, <2>1
  <2>3. \A j \in i + 1 .. Len(es) : es[j].kind # "user"
    BY <1>q, <2>2
  <2> QED BY <1>0, <2>i, <2>3, Zenon DEF Chat!AnsweredSince
<1> QED BY <1>1, <1>2

LEMMA OneShown ==
  ASSUME NEW kind \in {"user", "answer", "tool", "error", "note"}, NEW t \in Nat
  PROVE  \E e \in Shows : e = Chat!Entry(kind, t, 0) /\ e.turn = t /\ e.kind = kind
<1>1. Chat!Entry(kind, t, 0) \in Shows
  BY DEF Chat!Entry, Shows, Abouts
<1>2. Chat!Entry(kind, t, 0).turn = t /\ Chat!Entry(kind, t, 0).kind = kind
  BY DEF Chat!Entry
<1> QED BY <1>1, <1>2, Zenon

\* A turn nothing of which is added to the panel.
LEMMA ShownSame ==
  ASSUME NEW t \in Turns, TurnInv(t), 0 \notin Turns,
         UNCHANGED <<turnPc, at, plan, turnDone, parser, turns>>,
         OfTurn(inbox', t) = OfTurn(inbox, t),
         turnRunning' \in {0, turnRunning},
         stopped[t] => stopped'[t], t = turnRunning /\ turnRunning' # t => stopped'[t],
         AnswersIn(entries', t) = AnswersIn(entries, t),
         \A kind \in {"user", "error"} : HasIn(entries', t, kind) <=> HasIn(entries, t, kind)
  PROVE  TurnInv(t)'
<1>1. TaskInv(t)'
  BY DEF TurnInv, TaskInv
<1>2. EventsInv(t)'
  BY DEF TurnInv, EventsInv
<1>3. Whole(entries', t, plan[t]) <=> Whole(entries, t, plan[t])
  BY DEF Whole
<1>4. PanelInv(t)'
  <2>0. 0 # t
    OBVIOUS
  <2>1. t = turnRunning' => t = turnRunning
    BY <2>0
  <2>2. t # turnRunning' /\ ~stopped'[t] => t # turnRunning /\ ~stopped[t]
    OBVIOUS
  <2> QED BY <1>3, <2>1, <2>2, Zenon DEF TurnInv, PanelInv
<1> QED BY <1>1, <1>2, <1>4 DEF TurnInv

\* The entries are of turns there were.
LEMMA EntriesTypes ==
  ASSUME NEW es \in Seq(Shows), NEW more \in Seq(Shows), NEW n \in Nat,
         \A i \in 1 .. Len(es) : es[i].turn <= n,
         \A k \in 1 .. Len(more) : more[k].turn <= n
  PROVE  \A i \in 1 .. Len(es \o more) : (es \o more)[i].turn <= n
<1>s. PICK all \in Seq(Shows) :
        /\ all = es \o more /\ Len(all) = Len(es) + Len(more)
        /\ \A i \in 1 .. Len(es) : all[i] = es[i]
        /\ \A i \in 1 .. Len(more) : all[Len(es) + i] = more[i]
  BY EntriesTogether, Zenon
<1>0. Len(es) \in Nat /\ Len(more) \in Nat
  OBVIOUS
<1>1. ASSUME NEW i \in 1 .. Len(all) PROVE all[i].turn <= n
  <2>1. CASE i <= Len(es)
    <3>1. i \in 1 .. Len(es)
      BY <1>0, <2>1
    <3> QED BY <1>s, <3>1
  <2>2. CASE ~(i <= Len(es))
    <3>1. i - Len(es) \in 1 .. Len(more) /\ Len(es) + (i - Len(es)) = i
      BY <1>0, <1>s, <2>2
    <3>2. all[i] = more[i - Len(es)]
      BY <1>s, <3>1
    <3> QED BY <3>1, <3>2
  <2> QED BY <2>1, <2>2
<1> QED BY <1>1, <1>s, Zenon

LEMMA EntryTypes ==
  ASSUME NEW es \in Seq(Shows), NEW e \in Shows, NEW n \in Nat, e.turn <= n,
         \A i \in 1 .. Len(es) : es[i].turn <= n
  PROVE  \A i \in 1 .. Len(es \o <<e>>) : (es \o <<e>>)[i].turn <= n
<1>s. PICK s \in Seq(Shows) : s = <<e>> /\ Len(s) = 1 /\ s[1] = e
  BY OneEntry, Zenon
<1>1. \A k \in 1 .. Len(s) : s[k].turn <= n
  BY <1>s
<1>2. \A i \in 1 .. Len(es \o s) : (es \o s)[i].turn <= n
  BY <1>1, EntriesTypes, Zenon
<1> QED BY <1>2, <1>s, Zenon

LEMMA RefusesOnce ==
  ASSUME OnceInv, Chat!Refuse
  PROVE  OnceInv'
<1>0. /\ ChatInv' /\ TurnTypes /\ entries \in Seq(Shows) /\ turns \in Nat /\ 0 \notin Turns
  BY UserChat DEF OnceInv, ChatInv, Turns, Chat!Turns
<1>e. PICK e \in Shows : e = Chat!Entry("error", 0, 0) /\ e.turn = 0 /\ e.kind = "error"
  BY OneShown
<1>1. /\ entries' = entries \o <<e>> /\ turnRunning = 0
      /\ UNCHANGED <<turnRunning, turns, stopped, inbox, turnPc, plan, at, turnDone, parser>>
  <2>1. entries' = Append(entries, e)
    BY <1>e DEF Chat!Refuse
  <2>2. entries' = entries \o <<e>>
    BY <1>0, <2>1, AppendIsConcat
  <2> QED BY <2>2 DEF Chat!Refuse, Chat!taskVars, Chat!cliVars
<1>2. ASSUME NEW t \in Turns PROVE TurnInv(t)'
  <2>1. TurnInv(t) /\ e.turn # t /\ e.kind # "answer"
    BY <1>0, <1>e DEF OnceInv
  <2>2. /\ AnswersIn(entries \o <<e>>, t) = AnswersIn(entries, t)
        /\ \A kind : HasIn(entries \o <<e>>, t, kind) <=>
                       HasIn(entries, t, kind) \/ (e.turn = t /\ e.kind = kind)
    BY <1>0, <2>1, EntryAdded, Zenon
  <2>3. /\ AnswersIn(entries', t) = AnswersIn(entries, t)
        /\ \A kind \in {"user", "error"} : HasIn(entries', t, kind) <=> HasIn(entries, t, kind)
    BY <1>1, <2>1, <2>2, Zenon
  <2>o. OfTurn(inbox', t) = OfTurn(inbox, t)
    BY <1>1
  <2> QED BY <1>0, <1>1, <2>1, <2>3, <2>o, ShownSame
<1>3. TurnTypes'
  <2>1. \A i \in 1 .. Len(entries') : entries'[i].turn <= turns'
    <3>1. /\ e.turn <= turns
          /\ \A i \in 1 .. Len(entries) : entries[i].turn <= turns
      BY <1>0, <1>e DEF TurnTypes
    <3>2. \A i \in 1 .. Len(entries \o <<e>>) : (entries \o <<e>>)[i].turn <= turns
      BY <1>0, <3>1, EntryTypes, Zenon
    <3> QED BY <1>1, <3>2, Zenon
  <2> QED BY <1>0, <1>1, <2>1, Zenon DEF TurnTypes
<1> QED BY <1>0, <1>2, <1>3 DEF OnceInv

LEMMA StopsOnce ==
  ASSUME OnceInv, Chat!Stop
  PROVE  OnceInv'
<1>0. /\ ChatInv' /\ TurnTypes /\ entries \in Seq(Shows) /\ turns \in Nat /\ 0 \notin Turns
      /\ turnRunning \in 0 .. turns
  BY UserChat DEF OnceInv, ChatInv, Turns, Chat!Turns
<1>e. PICK e \in Shows : /\ e = Chat!Entry("note", turnRunning, 0)
                         /\ e.turn = turnRunning /\ e.kind = "note"
  <2>1. turnRunning \in Nat
    BY <1>0
  <2> QED BY <2>1, OneShown
<1>1. /\ entries' = entries \o <<e>> /\ turnRunning' = 0
      /\ stopped' = [stopped EXCEPT ![turnRunning] = TRUE]
      /\ UNCHANGED <<turns, inbox, turnPc, plan, at, turnDone, parser>>
  <2>1. entries' = Append(entries, e)
    BY <1>e DEF Chat!Stop
  <2>2. entries' = entries \o <<e>>
    BY <1>0, <2>1, AppendIsConcat
  <2> QED BY <2>2 DEF Chat!Stop, Chat!taskVars, Chat!cliVars
<1>2. ASSUME NEW t \in Turns PROVE TurnInv(t)'
  <2>1. TurnInv(t) /\ e.kind \notin {"answer", "user", "error"}
    BY <1>0, <1>e DEF OnceInv
  <2>2. /\ AnswersIn(entries \o <<e>>, t) = AnswersIn(entries, t)
        /\ \A kind : HasIn(entries \o <<e>>, t, kind) <=>
                       HasIn(entries, t, kind) \/ (e.turn = t /\ e.kind = kind)
    BY <1>0, <2>1, EntryAdded, Zenon
  <2>3. /\ AnswersIn(entries', t) = AnswersIn(entries, t)
        /\ \A kind \in {"user", "error"} : HasIn(entries', t, kind) <=> HasIn(entries, t, kind)
    BY <1>1, <2>1, <2>2, Zenon
  <2>4. stopped[t] => stopped'[t]
    BY <1>0, <1>1 DEF TurnTypes
  <2>5. t = turnRunning => stopped'[t]
    BY <1>0, <1>1 DEF TurnTypes
  <2>o. OfTurn(inbox', t) = OfTurn(inbox, t)
    BY <1>1
  <2> QED BY <1>0, <1>1, <2>1, <2>3, <2>4, <2>5, <2>o, ShownSame
<1>3. TurnTypes'
  <2>1. \A i \in 1 .. Len(entries') : entries'[i].turn <= turns'
    <3>1. /\ e.turn <= turns
          /\ \A i \in 1 .. Len(entries) : entries[i].turn <= turns
      BY <1>0, <1>e DEF TurnTypes
    <3>2. \A i \in 1 .. Len(entries \o <<e>>) : (entries \o <<e>>)[i].turn <= turns
      BY <1>0, <3>1, EntryTypes, Zenon
    <3> QED BY <1>1, <3>2, Zenon
  <2>2. stopped' \in [Turns -> BOOLEAN]
    BY <1>0, <1>1 DEF TurnTypes
  <2>3. ~(turnRunning' # 0)
    BY <1>1
  <2> QED BY <1>0, <1>1, <2>1, <2>2, <2>3, Zenon DEF TurnTypes
<1> QED BY <1>0, <1>2, <1>3 DEF OnceInv

LEMMA ForgetsOnce ==
  ASSUME OnceInv, Chat!NewChat
  PROVE  OnceInv'
<1>0. /\ ChatInv' /\ TurnTypes /\ turns \in Nat /\ 0 \notin Turns
      /\ plan \in [Turns -> Chat!Plans]
  BY UserChat DEF OnceInv, ChatInv, Turns, Chat!Turns
<1>1. /\ entries' = <<>> /\ turnRunning' = 0
      /\ stopped' = [t \in Turns |-> stopped[t] \/ t = turnRunning]
      /\ UNCHANGED <<turns, inbox, turnPc, plan, at, turnDone, parser>>
  BY DEF Chat!NewChat, Chat!taskVars, Chat!cliVars, Turns
<1>2. ASSUME NEW t \in Turns PROVE TurnInv(t)'
  <2>1. TurnInv(t) /\ plan[t] \in Chat!Plans /\ t # 0
    BY <1>0 DEF OnceInv
  <2>2. <<>> \in Seq(Shows) /\ \A i \in 1 .. Len(<<>>) : FALSE
    OBVIOUS
  <2>3. AnswersIn(entries', t) = <<>> /\ ~HasIn(entries', t, "user")
    <3>1. AnswersIn(<<>>, t) = <<>>
      BY <2>2, AnswersNone, Zenon
    <3>2. ~HasIn(<<>>, t, "user")
      BY <2>2, Zenon DEF HasIn
    <3> QED BY <1>1, <3>1, <3>2, Zenon
  <2>4. ~stopped'[t] => ~stopped[t] /\ t # turnRunning
    BY <1>1
  <2>5. TaskInv(t)'
    BY <1>1, <2>1, <2>3, <2>4, Zenon DEF TurnInv, TaskInv
  <2>6. EventsInv(t)'
    BY <1>1, <2>1, Zenon DEF TurnInv, EventsInv
  <2>7. Starts(<<>>, Chat!Texts(plan[t]))
    BY <2>1, TextsAre, StartsSelf, Zenon
  <2>8. PanelInv(t)'
    BY <1>1, <2>1, <2>3, <2>7, Zenon DEF PanelInv
  <2> QED BY <2>5, <2>6, <2>8 DEF TurnInv
<1>3. TurnTypes'
  <2>1. \A i \in 1 .. Len(entries') : FALSE
    BY <1>1
  <2>2. stopped' \in [Turns -> BOOLEAN]
    BY <1>1
  <2>3. ~(turnRunning' # 0)
    BY <1>1
  <2> QED BY <1>0, <1>1, <2>1, <2>2, <2>3, Zenon DEF TurnTypes
<1> QED BY <1>0, <1>2, <1>3 DEF OnceInv

LEMMA AsksOnce ==
  ASSUME OnceInv, Chat!Ask
  PROVE  OnceInv'
<1>0. /\ ChatInv' /\ TurnTypes /\ entries \in Seq(Shows) /\ turns \in Nat /\ 0 \notin Turns
      /\ plan \in [Turns -> Chat!Plans]
  BY UserChat DEF OnceInv, ChatInv, Turns, Chat!Turns
<1>u. PICK u \in Turns : u = turns + 1 /\ u > turns /\ u \in Nat /\ u <= MaxTurns
  BY <1>0, ChatAssumption DEF Chat!Ask, Turns, Chat!Turns
<1>e. PICK e \in Shows : e = Chat!Entry("user", u, 0) /\ e.turn = u /\ e.kind = "user"
  BY <1>u, OneShown
<1>1. /\ entries' = entries \o <<e>> /\ turnRunning = 0 /\ turnRunning' = u /\ turns' = u
      /\ turnPc' = [turnPc EXCEPT ![u] = "preparing"]
      /\ UNCHANGED <<stopped, inbox, plan, at, turnDone, parser>>
  <2>1. entries' = Append(entries, e)
    BY <1>e, <1>u DEF Chat!Ask
  <2>2. entries' = entries \o <<e>>
    BY <1>0, <2>1, AppendIsConcat
  <2> QED BY <1>u, <2>2 DEF Chat!Ask, Chat!Run, Chat!cliVars
<1>a. ASSUME NEW t \in Turns
      PROVE  /\ AnswersIn(entries', t) = AnswersIn(entries, t)
             /\ t # u => \A kind : HasIn(entries', t, kind) <=> HasIn(entries, t, kind)
  <2>1. e.kind # "answer"
    BY <1>e
  <2>2. /\ AnswersIn(entries \o <<e>>, t) = AnswersIn(entries, t)
        /\ \A kind : HasIn(entries \o <<e>>, t, kind) <=>
                       HasIn(entries, t, kind) \/ (e.turn = t /\ e.kind = kind)
    BY <1>0, <2>1, EntryAdded, Zenon
  <2> QED BY <1>1, <1>e, <2>2, Zenon
<1>2. ASSUME NEW t \in Turns, t # u PROVE TurnInv(t)'
  <2>1. TurnInv(t) /\ t # 0 /\ t \in Nat
    BY <1>0 DEF OnceInv, Turns, Chat!Turns
  <2>2. turnPc'[t] = turnPc[t]
    BY <1>0, <1>1, <1>2 DEF TurnTypes
  <2>3. (t > u => t > turns) /\ (t <= u => t <= turns)
    BY <1>0, <1>2, <1>u, <2>1
  <2>4. TaskInv(t)'
    BY <1>1, <1>2, <1>a, <2>1, <2>2, <2>3, Zenon DEF TurnInv, TaskInv
  <2>5. EventsInv(t)'
    BY <1>1, <2>1, <2>2, Zenon DEF TurnInv, EventsInv
  <2>6. PanelInv(t)'
    <3>1. Whole(entries', t, plan[t]) <=> Whole(entries, t, plan[t])
      BY <1>2, <1>a, Zenon DEF Whole
    <3> QED BY <1>1, <1>2, <1>a, <2>1, <2>2, <3>1, Zenon DEF TurnInv, PanelInv
  <2> QED BY <2>4, <2>5, <2>6 DEF TurnInv
<1>3. TurnInv(u)'
  <2>1. TurnInv(u) /\ plan[u] \in Chat!Plans
    BY <1>0 DEF OnceInv
  <2>2. turnPc[u] = "none" /\ "none" \in Early /\ "preparing" \in Early /\ turnPc'[u] = "preparing"
    BY <1>0, <1>1, <1>u, <2>1 DEF TurnInv, TaskInv, Early, TurnTypes
  <2>3. at[u] = 0 /\ AnswersIn(entries', u) = <<>> /\ OfTurn(inbox, u) = <<>>
    BY <1>a, <2>1, <2>2, Zenon DEF TurnInv, TaskInv, EventsInv, Delivered
  <2>4. ~turnDone[u]
    <3>1. Len(Chat!Lines(plan[u])) \in Nat /\ Len(Chat!Lines(plan[u])) >= 2
      BY <2>1, LinesFit
    <3> QED BY <2>1, <2>3, <3>1 DEF TurnInv, TaskInv
  <2>5. TaskInv(u)'
    <3>1. ~(u > u)
      BY <1>u
    <3> QED BY <1>1, <2>1, <2>2, <2>3, <3>1, Zenon DEF TurnInv, TaskInv
  <2>6. EventsInv(u)'
    <3>1. InOrder(<<>>) /\ \A i \in 1 .. Len(<<>>) : FALSE
      BY DEF InOrder
    <3> QED BY <1>1, <2>3, <3>1, Zenon DEF EventsInv, Delivered
  <2>7. PanelInv(u)'
    <3>1. Heard(<<>>) = <<>> /\ SaidTo(plan[u], 0) = <<>>
      <4>1. <<>> \in Seq(Says) /\ \A k \in 1 .. Len(<<>>) : FALSE
        OBVIOUS
      <4>2. Heard(<<>>) = <<>>
        BY <4>1, HeardNone, Zenon
      <4> QED BY <4>2, SaidToNone, Zenon
    <3>2. <<>> \o <<>> = <<>>
      OBVIOUS
    <3>3. Starts(<<>>, Chat!Texts(plan[u]))
      BY <2>1, TextsAre, StartsSelf, Zenon
    <3> QED BY <1>1, <2>3, <2>4, <3>1, <3>2, <3>3, Zenon DEF PanelInv
  <2> QED BY <2>5, <2>6, <2>7 DEF TurnInv
<1>4. TurnTypes'
  <2>1. \A i \in 1 .. Len(entries) : entries[i].turn <= u /\ entries[i].turn # e.turn
    <3>1. \A i \in 1 .. Len(entries) : entries[i].turn <= turns /\ entries[i].turn \in Nat
      <4>1. \A i \in 1 .. Len(entries) : entries[i] \in Shows
        BY <1>0
      <4>2. \A x \in Shows : x.turn \in Nat
        BY DEF Shows
      <4> QED BY <1>0, <4>1, <4>2, Zenon DEF TurnTypes
    <3> QED BY <1>0, <1>e, <1>u, <3>1
  <2>2. \A i \in 1 .. Len(entries') : entries'[i].turn <= turns'
    <3>1. e.turn <= u
      BY <1>e, <1>u
    <3>2. \A i \in 1 .. Len(entries \o <<e>>) : (entries \o <<e>>)[i].turn <= u
      BY <1>0, <1>u, <2>1, <3>1, EntryTypes, Zenon
    <3> QED BY <1>1, <3>2, Zenon
  <2>3. AskedAt(entries', turnRunning')
    <3>1. AskedAt(entries \o <<e>>, e.turn)
      BY <1>0, <1>e, <2>1, AskedNew, Zenon
    <3> QED BY <1>1, <1>e, <3>1, Zenon
  <2>4. turnPc' \in [Turns -> TurnPhases]
    <3>1. "preparing" \in TurnPhases
      BY DEF TurnPhases
    <3> QED BY <1>0, <1>1, <3>1 DEF TurnTypes
  <2>5. turns' <= MaxTurns
    BY <1>1, <1>u
  <2> QED BY <1>0, <1>1, <2>2, <2>3, <2>4, <2>5, Zenon DEF TurnTypes
<1> QED BY <1>0, <1>2, <1>3, <1>4, Zenon DEF OnceInv

-----------------------------------------------------------------------------
(* The first event on its way to the turn in progress *)

\* What PanelInv says of the turn in progress.
InPanel(es, evs, saw, t, p, n) ==
  /\ (saw => HasResult(evs)) => AnswersIn(es, t) \o Heard(evs) = SaidTo(p, n)
  /\ saw /\ ~HasResult(evs) => Heard(evs) = <<>> /\ Whole(es, t, p)
  /\ Starts(AnswersIn(es, t), Chat!Texts(p))

\* An event that brings no text, and shows none.
LEMMA PassesOn ==
  ASSUME NEW es \in Seq(Shows), NEW next \in Seq(Shows), NEW ev \in Says, NEW rest \in Seq(Says),
         NEW saw, NEW t, NEW p, NEW n, InPanel(es, <<ev>> \o rest, saw, t, p, n),
         InOrder(<<ev>> \o rest), ev.kind \notin Results, ev.kind # "text",
         AnswersIn(next, t) = AnswersIn(es, t), HasIn(es, t, "error") => HasIn(next, t, "error")
  PROVE  InPanel(next, rest, saw, t, p, n)
<1>1. HasResult(<<ev>> \o rest) <=> HasResult(rest)
  BY InOrderRest, Zenon
<1>2. Heard(<<ev>> \o rest) = Heard(rest)
  <2>1. <<ev>> \in Seq(Says)
    BY OneEvent, Zenon
  <2>2. Heard(<<ev>> \o rest) = Heard(<<ev>>) \o Heard(rest) /\ Heard(rest) \in Seq(Abouts)
    BY <2>1, HeardMore
  <2>3. Heard(<<ev>>) = <<>>
    BY HeardOne, Zenon
  <2> QED BY <2>2, <2>3, NoText, Zenon
<1>3. Whole(es, t, p) => Whole(next, t, p)
  BY DEF Whole
<1> QED BY <1>1, <1>2, <1>3, Zenon DEF InPanel

\* A text.
LEMMA TextKeeps ==
  ASSUME NEW es \in Seq(Shows), NEW next \in Seq(Shows), NEW ev \in Says, NEW rest \in Seq(Says),
         NEW saw, NEW t, NEW p \in Chat!Plans, NEW n \in 0 .. Len(Chat!Lines(p)),
         InPanel(es, <<ev>> \o rest, saw, t, p, n),
         InOrder(<<ev>> \o rest), ev.kind = "text",
         AnswersIn(next, t) = AnswersIn(es, t) \o ev.about,
         HasIn(es, t, "error") => HasIn(next, t, "error")
  PROVE  InPanel(next, rest, saw, t, p, n)
<1>a. PICK a \in Seq(Abouts) : a = AnswersIn(es, t)
  BY AnswersMore, Zenon
<1>h. PICK h \in Seq(Abouts) : h = Heard(rest)
  BY HeardMore, Zenon
<1>b. PICK b \in Seq(Abouts) : b = ev.about
  <2>1. <<ev>> \in Seq(Says)
    BY OneEvent, Zenon
  <2>2. Heard(<<ev>>) = ev.about /\ Heard(<<ev>>) \in Seq(Abouts)
    BY <2>1, HeardOne, HeardMore, Zenon
  <2> QED BY <2>2, Zenon
<1>1. HasResult(<<ev>> \o rest) <=> HasResult(rest)
  <2>1. ev.kind \notin Results
    BY DEF Results
  <2> QED BY <2>1, InOrderRest, Zenon
<1>2. Heard(<<ev>> \o rest) = b \o h
  <2>1. <<ev>> \in Seq(Says)
    BY OneEvent, Zenon
  <2>2. Heard(<<ev>> \o rest) = Heard(<<ev>>) \o Heard(rest)
    BY <2>1, HeardMore
  <2>3. Heard(<<ev>>) = ev.about
    BY HeardOne, Zenon
  <2> QED BY <1>b, <1>h, <2>2, <2>3, Zenon
<1>3. CASE saw => HasResult(rest)
  <2>1. a \o (b \o h) = SaidTo(p, n)
    BY <1>1, <1>2, <1>3, <1>a, Zenon DEF InPanel
  <2>2. (a \o b) \o h = SaidTo(p, n)
    <3>1. (a \o b) \o h = a \o (b \o h)
      BY TextsAssociate, Zenon
    <3> QED BY <2>1, <3>1, Zenon
  <2>3. Starts(a \o b, Chat!Texts(p))
    <3>1. Starts((a \o b) \o h, Chat!Texts(p)) /\ Chat!Texts(p) \in Seq(Abouts)
      BY <2>2, SaidToStarts, TextsAre, Zenon
    <3>2. a \o b \in Seq(Abouts)
      BY ConcatProperties
    <3> QED BY <3>1, <3>2, StartsMore, Zenon
  <2> QED BY <1>3, <1>a, <1>b, <1>h, <2>2, <2>3, Zenon DEF InPanel
<1>4. CASE ~(saw => HasResult(rest))
  <2>1. b \o h = <<>> /\ Whole(es, t, p) /\ Starts(a, Chat!Texts(p))
    BY <1>1, <1>2, <1>4, <1>a, Zenon DEF InPanel
  <2>2. b = <<>> /\ h = <<>>
    <3>1. \A x, y \in Seq(Abouts) : x \o y = <<>> => x = <<>> /\ y = <<>>
      BY ConcatSimplifications
    <3> QED BY <2>1, <3>1, Zenon
  <2>3. AnswersIn(next, t) = a
    <3>1. a \o b = a
      BY <2>2, NoText, Zenon
    <3> QED BY <1>a, <1>b, <3>1, Zenon
  <2>4. Whole(next, t, p)
    BY <1>a, <2>1, <2>3, Zenon DEF Whole
  <2> QED BY <1>4, <1>h, <2>1, <2>2, <2>3, <2>4, Zenon DEF InPanel
<1> QED BY <1>3, <1>4

\* The result: nothing but the end follows.
LEMMA ResultKeeps ==
  ASSUME NEW es \in Seq(Shows), NEW next \in Seq(Shows), NEW ev \in Says, NEW rest \in Seq(Says),
         NEW saw, NEW t, NEW p \in Chat!Plans,
         InPanel(es, <<ev>> \o rest, saw, t, p, Len(Chat!Lines(p))),
         InOrder(<<ev>> \o rest), ev.kind \in Results, ev.about = Chat!Texts(p), saw,
         ev.kind = "done" =>
           AnswersIn(next, t) = IF AnswersIn(es, t) = <<>> THEN ev.about ELSE AnswersIn(es, t),
         ev.kind = "error" => AnswersIn(next, t) = AnswersIn(es, t) /\ HasIn(next, t, "error")
  PROVE  InPanel(next, rest, saw, t, p, Len(Chat!Lines(p)))
<1>a. PICK a \in Seq(Abouts) : a = AnswersIn(es, t)
  BY AnswersMore, Zenon
<1>1. /\ HasResult(<<ev>> \o rest)
      /\ \A j \in 1 .. Len(rest) : rest[j].kind \in Endings
  BY InOrderRest, Zenon
<1>2. ~HasResult(rest) /\ Heard(rest) = <<>>
  <2>1. \A j \in 1 .. Len(rest) : rest[j].kind \notin Results /\ rest[j].kind # "text"
    BY <1>1 DEF Endings, Results
  <2>2. ~HasResult(rest)
    BY <2>1, Zenon DEF HasResult
  <2>3. Heard(rest) = <<>>
    BY <2>1, HeardNone, Zenon
  <2> QED BY <2>2, <2>3
<1>3. Heard(<<ev>> \o rest) = <<>>
  <2>1. <<ev>> \in Seq(Says) /\ ev.kind # "text"
    BY OneEvent, Zenon DEF Results
  <2>2. Heard(<<ev>> \o rest) = Heard(<<ev>>) \o Heard(rest)
    BY <2>1, HeardMore
  <2>3. Heard(<<ev>>) = <<>>
    BY <2>1, HeardOne, Zenon
  <2>4. <<>> \o <<>> = <<>>
    OBVIOUS
  <2> QED BY <1>2, <2>2, <2>3, <2>4, Zenon
<1>4. a = PartsIn(p)
  <2>1. a \o <<>> = SaidTo(p, Len(Chat!Lines(p)))
    BY <1>1, <1>3, <1>a, Zenon DEF InPanel
  <2>2. Len(Chat!Lines(p)) \in 0 .. Len(Chat!Lines(p))
    <3>1. Len(Chat!Lines(p)) \in Nat
      BY LinesFit
    <3> QED BY <3>1
  <2>3. SaidTo(p, Len(Chat!Lines(p))) = PartsIn(p)
    BY <2>2, SaidToStarts, Zenon
  <2> QED BY <2>1, <2>3, NoText, Zenon
<1>5. /\ Chat!Texts(p) \in Seq(Abouts)
      /\ a # <<>> => Chat!Texts(p) = a
  BY <1>4, TextsAre, Zenon
<1>6. CASE ev.kind = "done"
  <2>1. AnswersIn(next, t) = Chat!Texts(p)
    BY <1>5, <1>6, <1>a, Zenon
  <2>2. Starts(AnswersIn(next, t), Chat!Texts(p))
    BY <1>5, <2>1, StartsSelf, Zenon
  <2> QED BY <1>2, <2>1, <2>2, Zenon DEF InPanel, Whole
<1>7. CASE ev.kind = "error"
  BY <1>2, <1>7, Zenon DEF InPanel, Whole
<1> QED BY <1>6, <1>7 DEF Results

LEMMA RestDelivered ==
  ASSUME NEW ev \in Says, NEW rest \in Seq(Says), NEW phase, NEW saw, NEW p,
         Delivered(<<ev>> \o rest, phase, saw, p)
  PROVE  /\ Delivered(rest, phase, saw, p) /\ phase \notin Early
         /\ ev.kind \in Endings => phase = "over"
         /\ ev.kind \in Results => saw /\ ev.about = Chat!Texts(p)
<1>s. PICK s \in Seq(Says) :
        /\ s = <<ev>> \o rest /\ Len(s) = Len(rest) + 1 /\ s[1] = ev
        /\ \A i \in 1 .. Len(rest) : s[i + 1] = rest[i]
        /\ InOrder(rest)
  <2>1. InOrder(<<ev>> \o rest)
    BY Zenon DEF Delivered
  <2>2. /\ InOrder(rest) /\ Len(<<ev>> \o rest) = Len(rest) + 1
        /\ (<<ev>> \o rest)[1] = ev
        /\ \A i \in 1 .. Len(rest) : (<<ev>> \o rest)[i + 1] = rest[i]
    BY <2>1, InOrderRest
  <2>3. <<ev>> \o rest \in Seq(Says)
    <3>1. <<ev>> \in Seq(Says)
      BY OneEvent, Zenon
    <3> QED BY <3>1, ConcatProperties
  <2> QED BY <2>2, <2>3, Zenon
<1>0. Len(rest) \in Nat
  OBVIOUS
<1>1. \A i \in 1 .. Len(s) :
        /\ s[i].kind \in Endings => phase = "over"
        /\ s[i].kind \in Results => saw /\ s[i].about = Chat!Texts(p)
  BY <1>s, Zenon DEF Delivered
<1>2. 1 \in 1 .. Len(s) /\ \A i \in 1 .. Len(rest) : i + 1 \in 1 .. Len(s)
  BY <1>0, <1>s
<1>3. s # <<>>
  BY <1>0, <1>s
<1>4. phase \notin Early
  BY <1>3, <1>s, Zenon DEF Delivered
<1>5. \A i \in 1 .. Len(rest) :
        /\ rest[i].kind \in Endings => phase = "over"
        /\ rest[i].kind \in Results => saw /\ rest[i].about = Chat!Texts(p)
  BY <1>1, <1>2, <1>s, Zenon
<1>6. Delivered(rest, phase, saw, p)
  BY <1>4, <1>5, <1>s, Zenon DEF Delivered
<1> QED BY <1>1, <1>2, <1>4, <1>6, <1>s, Zenon

LEMMA RestTurns ==
  ASSUME inbox \in Seq(Says), inbox # <<>>, TurnTypes
  PROVE  /\ Head(inbox).turn \in Turns
         /\ \A i \in 1 .. Len(Tail(inbox)) : Tail(inbox)[i].turn \in Turns
<1>1. /\ Len(inbox) \in Nat /\ Len(inbox) >= 1 /\ Head(inbox) = inbox[1]
      /\ Len(Tail(inbox)) = Len(inbox) - 1
      /\ \A i \in 1 .. Len(Tail(inbox)) : Tail(inbox)[i] = inbox[i + 1]
  BY HeadTailProperties
<1>2. 1 \in 1 .. Len(inbox) /\ \A i \in 1 .. Len(Tail(inbox)) : i + 1 \in 1 .. Len(inbox)
  BY <1>1
<1>3. \A i \in 1 .. Len(inbox) : inbox[i].turn \in Turns
  BY DEF TurnTypes
<1> QED BY <1>1, <1>2, <1>3, Zenon

\* What an event adds to the answer of its turn.
LEMMA ShownAnswers ==
  ASSUME NEW u \in Nat, entries \in Seq(Shows), AskedAt(entries, u),
         NEW ev \in Says, ev.turn = u
  PROVE  /\ ev.kind = "text" => AnswersIn(Chat!Shown(ev), u) = AnswersIn(entries, u) \o ev.about
         /\ ev.kind = "done" =>
              AnswersIn(Chat!Shown(ev), u) = IF AnswersIn(entries, u) = <<>> THEN ev.about
                                             ELSE AnswersIn(entries, u)
         /\ ev.kind \notin {"text", "done"} =>
              AnswersIn(Chat!Shown(ev), u) = AnswersIn(entries, u)
         /\ ev.kind \in {"failed", "error"} => HasIn(Chat!Shown(ev), u, "error")
<1> DEFINE more == [k \in DOMAIN ev.about |-> Chat!Entry("answer", u, ev.about[k])]
<1>1. ASSUME ev.kind \in {"text", "done"}
      PROVE  AnswersIn(entries \o more, u) = AnswersIn(entries, u) \o ev.about
  <2>1. ev.about \in Seq(Nat \X Nat)
    BY <1>1 DEF Says
  <2>2. more \in Seq(Shows) /\ AnswersIn(more, u) = ev.about
    BY <2>1, AnswersAdded
  <2> HIDE DEF more
  <2>3. AddsUp(entries, more, u)
    BY <2>2, AnswersMore, Zenon
  <2> QED BY <2>2, <2>3, Zenon DEF AddsUp
<1>2. CASE ev.kind = "text"
  <2>1. Chat!Shown(ev) = entries \o more
    BY <1>2 DEF Chat!Shown
  <2> QED BY <1>1, <1>2, <2>1
<1>3. CASE ev.kind = "done"
  <2>1. Chat!AnsweredSince(entries) <=> AnswersIn(entries, u) # <<>>
    BY AnsweredIs
  <2>2. CASE AnswersIn(entries, u) # <<>>
    <3>1. Chat!Shown(ev) = entries
      BY <1>3, <2>1, <2>2 DEF Chat!Shown
    <3> QED BY <1>3, <2>2, <3>1
  <2>3. CASE AnswersIn(entries, u) = <<>>
    <3>1. Chat!Shown(ev) = entries \o more
      BY <1>3, <2>1, <2>3 DEF Chat!Shown
    <3>2. AnswersIn(entries \o more, u) = <<>> \o ev.about
      BY <1>1, <1>3, <2>3
    <3>3. <<>> \o ev.about = ev.about
      <4>1. ev.about \in Seq(Nat \X Nat)
        BY <1>3 DEF Says
      <4> QED BY <4>1, ConcatEmptySeq
    <3> HIDE DEF more
    <3> QED BY <1>3, <2>3, <3>1, <3>2, <3>3
  <2> QED BY <2>2, <2>3
<1>4. CASE ev.kind \in {"failed", "error"}
  <2>e. PICK e \in Shows : e = Chat!Entry("error", u, 0) /\ e.turn = u /\ e.kind = "error"
    BY OneShown
  <2>1. Chat!Shown(ev) = entries \o <<e>>
    <3>1. Chat!Shown(ev) = Append(entries, e)
      BY <1>4, <2>e DEF Chat!Shown
    <3> QED BY <3>1, AppendIsConcat
  <2>2. e.kind # "answer"
    BY <2>e
  <2>3. /\ AnswersIn(entries \o <<e>>, u) = AnswersIn(entries, u)
        /\ \A kind : HasIn(entries \o <<e>>, u, kind) <=>
                       HasIn(entries, u, kind) \/ (e.turn = u /\ e.kind = kind)
    BY <2>2, EntryAdded, Zenon
  <2>4. HasIn(entries \o <<e>>, u, "error")
    BY <2>e, <2>3, Zenon
  <2> QED BY <1>4, <2>1, <2>3, <2>4
<1>5. CASE ev.kind = "tool"
  <2>e. PICK e \in Shows : e = Chat!Entry("tool", u, ev.about) /\ e.kind = "tool"
    <3>1. ev.about \in Nat
      BY <1>5 DEF Says
    <3>2. Chat!Entry("tool", u, ev.about) \in Shows
      BY <3>1 DEF Chat!Entry, Shows, Abouts
    <3>3. Chat!Entry("tool", u, ev.about).kind = "tool"
      BY DEF Chat!Entry
    <3> QED BY <3>2, <3>3, Zenon
  <2>1. Chat!Shown(ev) = entries \o <<e>>
    <3>1. Chat!Shown(ev) = Append(entries, e)
      BY <1>5, <2>e DEF Chat!Shown
    <3> QED BY <3>1, AppendIsConcat
  <2>2. e.kind # "answer"
    BY <2>e
  <2>3. AnswersIn(entries \o <<e>>, u) = AnswersIn(entries, u)
    BY <2>2, EntryAdded, Zenon
  <2> QED BY <1>5, <2>1, <2>3
<1>6. CASE ev.kind \notin {"text", "done", "failed", "error", "tool"}
  <2>1. Chat!Shown(ev) = entries
    BY <1>6 DEF Chat!Shown
  <2> QED BY <1>6, <2>1
<1> QED BY <1>2, <1>3, <1>4, <1>5, <1>6

\* An event of a turn that is not in progress.
LEMMA LateOnce ==
  ASSUME OnceInv, Chat!Handle, Head(inbox).turn # turnRunning
  PROVE  OnceInv'
<1>0. /\ ChatInv' /\ TurnTypes /\ inbox \in Seq(Says) /\ inbox # <<>>
  BY HandleChat DEF OnceInv, ChatInv, Chat!Handle
<1>1. /\ inbox' = Tail(inbox)
      /\ UNCHANGED <<entries, turnRunning, turns, stopped, turnPc, plan, at, turnDone, parser>>
  BY DEF Chat!Handle, Chat!taskVars, Chat!cliVars
<1>ev. PICK ev \in Says : ev = Head(inbox)
  BY <1>0
<1>r. PICK rest \in Seq(Says) : rest = Tail(inbox)
  BY <1>0, HeadTailProperties
<1>2. ASSUME NEW t \in Turns PROVE TurnInv(t)'
  <2>0. TurnInv(t)
    BY DEF OnceInv
  <2>1. /\ OfTurn(rest, t) \in Seq(Says)
        /\ ev.turn = t => OfTurn(inbox, t) = <<ev>> \o OfTurn(rest, t)
        /\ ev.turn # t => OfTurn(inbox, t) = OfTurn(rest, t)
    BY <1>0, <1>ev, <1>r, OfTurnFirst, Zenon
  <2>2. CASE ev.turn # t
    <3>1. OfTurn(inbox', t) = OfTurn(inbox, t)
      BY <1>1, <1>r, <2>1, <2>2, Zenon
    <3> QED BY <1>1, <2>0, <3>1, OtherTurn
  <2>3. CASE ev.turn = t
    <3>w. PICK w \in Seq(Says) : w = OfTurn(rest, t)
      BY <2>1
    <3>1. Delivered(<<ev>> \o w, turnPc[t], turnDone[t], plan[t])
      BY <2>0, <2>1, <2>3, <3>w, Zenon DEF TurnInv, EventsInv
    <3>2. Delivered(w, turnPc[t], turnDone[t], plan[t])
      BY <3>1, RestDelivered, Zenon
    <3>3. EventsInv(t)'
      BY <1>1, <1>r, <3>2, <3>w, Zenon DEF EventsInv
    <3>4. TaskInv(t)'
      BY <1>1, <2>0 DEF TurnInv, TaskInv
    <3>5. t # turnRunning
      BY <1>ev, <2>3
    <3>6. PanelInv(t)'
      BY <1>1, <2>0, <3>5, Zenon DEF TurnInv, PanelInv
    <3> QED BY <3>3, <3>4, <3>6 DEF TurnInv
  <2> QED BY <2>2, <2>3
<1>3. TurnTypes'
  <2>1. \A i \in 1 .. Len(rest) : rest[i].turn \in Turns
    BY <1>0, <1>r, RestTurns
  <2> QED BY <1>0, <1>1, <1>r, <2>1, Zenon DEF TurnTypes
<1> QED BY <1>0, <1>2, <1>3 DEF OnceInv

\* An event of the turn in progress.
LEMMA OwnOnce ==
  ASSUME OnceInv, Chat!Handle, Head(inbox).turn = turnRunning
  PROVE  OnceInv'
<1>0. /\ ChatInv /\ ChatInv' /\ TurnTypes /\ inbox \in Seq(Says) /\ inbox # <<>>
      /\ entries \in Seq(Shows) /\ plan \in [Turns -> Chat!Plans] /\ 0 \notin Turns
      /\ turns \in Nat /\ turnRunning \in 0 .. turns /\ entries' \in Seq(Shows)
  BY HandleChat DEF OnceInv, ChatInv, Chat!Handle, Turns, Chat!Turns
<1>ev. PICK ev \in Says : ev = Head(inbox)
  BY <1>0
<1>r. PICK rest \in Seq(Says) : rest = Tail(inbox)
  BY <1>0, HeadTailProperties
<1>u. PICK u \in Turns : u = turnRunning /\ u = ev.turn /\ u # 0 /\ u \in Nat /\ u <= turns
  BY <1>0, <1>ev, RestTurns DEF Turns, Chat!Turns
<1>1. /\ inbox' = rest /\ entries' = Chat!Shown(ev)
      /\ turnRunning' = IF ev.kind \in Endings THEN 0 ELSE u
      /\ UNCHANGED <<turns, stopped, turnPc, plan, at, turnDone, parser>>
  BY <1>ev, <1>r, <1>u DEF Chat!Handle, Chat!Apply, Chat!taskVars, Chat!cliVars, Endings
<1>m. PICK more \in Seq(Shows) :
        /\ Chat!Shown(ev) = entries \o more
        /\ \A k \in 1 .. Len(more) : more[k].kind # "user" /\ more[k].turn = ev.turn
  BY <1>0, ShownAdds, Zenon
<1>q. AskedAt(entries, u)
  BY <1>0, <1>u DEF TurnTypes
<1>h. \A t, kind : HasIn(entries', t, kind) <=> HasIn(entries, t, kind) \/ HasIn(more, t, kind)
  <2>1. \A t, kind : HasIn(entries \o more, t, kind) <=>
                       HasIn(entries, t, kind) \/ HasIn(more, t, kind)
    BY <1>0, HasMore, Zenon
  <2>2. entries' = entries \o more
    BY <1>1, <1>m, Zenon
  <2> QED BY <2>1, <2>2, Zenon
<1>2. ASSUME NEW t \in Turns, t # u PROVE TurnInv(t)'
  <2>1. TurnInv(t) /\ \A k \in 1 .. Len(more) : more[k].turn # t
    BY <1>2, <1>m, <1>u DEF OnceInv
  <2>2. AnswersIn(entries', t) = AnswersIn(entries, t)
    <3>1. AnswersIn(more, t) = <<>>
      BY <2>1, AnswersNone
    <3>2. AddsUp(entries, more, t) /\ AnswersIn(entries, t) \in Seq(Abouts)
      BY <1>0, AnswersMore, Zenon
    <3> QED BY <1>1, <1>m, <3>1, <3>2, NoText, Zenon DEF AddsUp
  <2>3. \A kind \in {"user", "error"} : HasIn(entries', t, kind) <=> HasIn(entries, t, kind)
    <3>1. \A kind : ~HasIn(more, t, kind)
      BY <2>1, Zenon DEF HasIn
    <3> QED BY <1>h, <3>1, Zenon
  <2>4. OfTurn(inbox', t) = OfTurn(inbox, t)
    BY <1>0, <1>1, <1>2, <1>ev, <1>r, <1>u, OfTurnFirst, Zenon
  <2>5. turnRunning' \in {0, turnRunning} /\ t # turnRunning
    BY <1>1, <1>2, <1>u
  <2> QED BY <1>0, <1>1, <2>1, <2>2, <2>3, <2>4, <2>5, ShownSame
<1>3. TurnInv(u)'
  <2>0. TurnInv(u) /\ plan[u] \in Chat!Plans
    BY <1>0 DEF OnceInv
  <2>w. PICK w \in Seq(Says) : w = OfTurn(rest, u) /\ OfTurn(inbox, u) = <<ev>> \o w
    BY <1>0, <1>ev, <1>r, <1>u, OfTurnFirst, Zenon
  <2>1. Delivered(<<ev>> \o w, turnPc[u], turnDone[u], plan[u])
    BY <2>0, <2>w, Zenon DEF TurnInv, EventsInv
  <2>2. /\ Delivered(w, turnPc[u], turnDone[u], plan[u]) /\ turnPc[u] \notin Early
        /\ ev.kind \in Endings => turnPc[u] = "over"
        /\ ev.kind \in Results => turnDone[u] /\ ev.about = Chat!Texts(plan[u])
    BY <2>1, RestDelivered, Zenon
  <2>3. InOrder(<<ev>> \o w)
    BY <2>1, Zenon DEF Delivered
  <2>4. EventsInv(u)'
    BY <1>1, <2>2, <2>w, Zenon DEF EventsInv
  <2>5. TaskInv(u)'
    <3>1. u # turnRunning' => turnPc[u] = "over"
      BY <1>1, <2>2, Zenon
    <3> QED BY <1>1, <2>0, <2>2, <3>1, Zenon DEF TurnInv, TaskInv
  <2>6. InPanel(entries, <<ev>> \o w, turnDone[u], u, plan[u], at[u])
    BY <1>u, <2>0, <2>w, Zenon DEF TurnInv, PanelInv, InPanel
  <2>a. /\ ev.kind = "text" => AnswersIn(entries', u) = AnswersIn(entries, u) \o ev.about
        /\ ev.kind = "done" =>
             AnswersIn(entries', u) = IF AnswersIn(entries, u) = <<>> THEN ev.about
                                      ELSE AnswersIn(entries, u)
        /\ ev.kind \notin {"text", "done"} => AnswersIn(entries', u) = AnswersIn(entries, u)
        /\ ev.kind \in {"failed", "error"} => HasIn(entries', u, "error")
    BY <1>0, <1>1, <1>q, <1>u, ShownAnswers
  <2>h. HasIn(entries, u, "error") => HasIn(entries', u, "error")
    BY <1>h, Zenon
  <2>l. at[u] \in 0 .. Len(Chat!Lines(plan[u]))
        /\ (turnDone[u] <=> at[u] = Len(Chat!Lines(plan[u])))
    BY <2>0, Zenon DEF TurnInv, TaskInv
  <2>7. InPanel(entries', w, turnDone[u], u, plan[u], at[u])
    <3>1. CASE ev.kind = "text"
      <4>1. AnswersIn(entries', u) = AnswersIn(entries, u) \o ev.about
        BY <2>a, <3>1
      <4> QED BY <1>0, <2>0, <2>3, <2>6, <2>h, <2>l, <3>1, <4>1, TextKeeps, Zenon
    <3>2. CASE ev.kind \in Results
      <4>1. turnDone[u] /\ ev.about = Chat!Texts(plan[u]) /\ at[u] = Len(Chat!Lines(plan[u]))
        BY <2>2, <2>l, <3>2
      <4>2. InPanel(entries, <<ev>> \o w, turnDone[u], u, plan[u], Len(Chat!Lines(plan[u])))
        BY <2>6, <4>1, Zenon
      <4>3. /\ ev.kind = "done" =>
                 AnswersIn(entries', u) = IF AnswersIn(entries, u) = <<>> THEN ev.about
                                          ELSE AnswersIn(entries, u)
            /\ ev.kind = "error" =>
                 AnswersIn(entries', u) = AnswersIn(entries, u) /\ HasIn(entries', u, "error")
        BY <2>a
      <4>4. InPanel(entries', w, turnDone[u], u, plan[u], Len(Chat!Lines(plan[u])))
        BY <1>0, <2>0, <2>3, <3>2, <4>1, <4>2, <4>3, ResultKeeps, Zenon
      <4> QED BY <4>1, <4>4, Zenon
    <3>3. CASE ev.kind # "text" /\ ev.kind \notin Results
      <4>1. AnswersIn(entries', u) = AnswersIn(entries, u)
        BY <2>a, <3>3 DEF Results
      <4> QED BY <1>0, <2>3, <2>6, <2>h, <3>3, <4>1, PassesOn, Zenon
    <3> QED BY <3>1, <3>2, <3>3
  <2>8. PanelInv(u)'
    <3>1. CASE ev.kind \notin Endings
      <4>1. turnRunning' = u
        BY <1>1, <3>1, Zenon
      <4> QED BY <1>1, <2>7, <2>w, <4>1, Zenon DEF PanelInv, InPanel
    <3>2. CASE ev.kind \in Endings
      <4>1. turnRunning' = 0 /\ w = <<>>
        BY <1>1, <2>3, <3>2, InOrderRest, Zenon
      <4>2. ~HasResult(w)
        <5>1. ~HasResult(<<>>)
          BY DEF HasResult
        <5> QED BY <4>1, <5>1, Zenon
      <4>3. turnDone[u] => Whole(entries', u, plan[u])
        BY <2>7, <4>2, Zenon DEF InPanel
      <4>4. Starts(AnswersIn(entries', u), Chat!Texts(plan[u]))
        BY <2>7, Zenon DEF InPanel
      <4> QED BY <1>1, <1>u, <4>1, <4>3, <4>4, Zenon DEF PanelInv
    <3> QED BY <3>1, <3>2
  <2> QED BY <2>4, <2>5, <2>8 DEF TurnInv
<1>4. TurnTypes'
  <2>1. \A i \in 1 .. Len(rest) : rest[i].turn \in Turns
    BY <1>0, <1>r, RestTurns
  <2>2. \A i \in 1 .. Len(entries') : entries'[i].turn <= turns'
    <3>1. \A i \in 1 .. Len(entries) : entries[i].turn <= turns
      BY <1>0, Zenon DEF TurnTypes
    <3>2. \A k \in 1 .. Len(more) : more[k].turn <= turns
      BY <1>m, <1>u
    <3>3. \A i \in 1 .. Len(entries \o more) : (entries \o more)[i].turn <= turns
      BY <1>0, <3>1, <3>2, EntriesTypes, Zenon
    <3>4. entries' = entries \o more /\ turns' = turns
      BY <1>1, <1>m, Zenon
    <3> QED BY <3>3, <3>4, Zenon
  <2>3. turnRunning' # 0 => AskedAt(entries', turnRunning')
    <3>1. \A k \in 1 .. Len(more) : more[k].turn = u /\ more[k].kind # "user"
      BY <1>m, <1>u
    <3>2. AskedAt(entries \o more, u)
      BY <1>0, <1>q, <3>1, AskedMore, Zenon
    <3> QED BY <1>1, <1>m, <3>2, Zenon
  <2> QED BY <1>0, <1>1, <2>1, <2>2, <2>3, Zenon DEF TurnTypes
<1> QED BY <1>0, <1>2, <1>3, <1>4, Zenon DEF OnceInv

LEMMA HandlesOnce ==
  ASSUME OnceInv, Chat!Handle
  PROVE  OnceInv'
BY LateOnce, OwnOnce

LEMMA InitOnce == Chat!Init => OnceInv
<1> SUFFICES ASSUME Chat!Init PROVE OnceInv
  OBVIOUS
<1>0. ChatInv /\ plan \in [Turns -> Chat!Plans] /\ 0 \notin Turns
  BY InitChat DEF ChatInv, Turns, Chat!Turns
<1>1. /\ entries = <<>> /\ turnRunning = 0 /\ turns = 0 /\ inbox = <<>>
      /\ turnPc = [t \in Turns |-> "none"] /\ stopped = [t \in Turns |-> FALSE]
      /\ at = [t \in Turns |-> 0] /\ parser = [t \in Turns |-> Chat!NewParser]
      /\ turnDone = [t \in Turns |-> FALSE]
  BY DEF Chat!Init, Turns
<1>2. <<>> \in Seq(Shows) /\ <<>> \in Seq(Says) /\ \A i \in 1 .. Len(<<>>) : FALSE
  OBVIOUS
<1>3. Chat!NewParser \in Parsers /\ Chat!NewParser.streamed = {}
  BY DEF Chat!NewParser, Parsers
<1>4. TurnTypes
  <2>1. turnPc \in [Turns -> TurnPhases] /\ turnDone \in [Turns -> BOOLEAN]
        /\ stopped \in [Turns -> BOOLEAN] /\ parser \in [Turns -> Parsers]
    BY <1>1, <1>3 DEF TurnPhases
  <2>2. turns <= MaxTurns
    BY <1>1, ChatAssumption
  <2> QED BY <1>1, <1>2, <2>1, <2>2, Zenon DEF TurnTypes
<1>5. ASSUME NEW t \in Turns PROVE TurnInv(t)
  <2>1. /\ turnPc[t] = "none" /\ ~turnDone[t] /\ ~stopped[t] /\ at[t] = 0
        /\ parser[t] = Chat!NewParser /\ t # 0 /\ ~(t <= turns) /\ plan[t] \in Chat!Plans
    BY <1>0, <1>1 DEF Turns, Chat!Turns
  <2>2. AnswersIn(entries, t) = <<>> /\ OfTurn(inbox, t) = <<>> /\ ~HasIn(entries, t, "user")
    <3>1. AnswersIn(<<>>, t) = <<>>
      BY <1>2, AnswersNone, Zenon
    <3>2. OfTurn(<<>>, t) = <<>>
      <4>1. [i \in DOMAIN <<>> |-> Mine(t)[<<>>[i]]] = <<>>
        OBVIOUS
      <4> QED BY <4>1, FlattenNone, Zenon DEF OfTurn, Mapped
    <3>3. ~HasIn(<<>>, t, "user")
      BY <1>2, Zenon DEF HasIn
    <3> QED BY <1>1, <3>1, <3>2, <3>3, Zenon
  <2>3. 0 \in 0 .. Len(Chat!Lines(plan[t])) /\ 0 # Len(Chat!Lines(plan[t]))
    <3>1. Len(Chat!Lines(plan[t])) \in Nat /\ Len(Chat!Lines(plan[t])) >= 2
      BY <2>1, LinesFit
    <3> QED BY <3>1
  <2>4. Follows(plan[t], 0, Chat!NewParser)
    BY <1>3 DEF Follows
  <2>5. TaskInv(t)
    BY <2>1, <2>2, <2>3, <2>4, Zenon DEF TaskInv
  <2>6. EventsInv(t)
    <3>1. InOrder(<<>>)
      BY DEF InOrder
    <3> QED BY <1>2, <2>2, <3>1, Zenon DEF EventsInv, Delivered
  <2>7. Starts(<<>>, Chat!Texts(plan[t]))
    BY <2>1, TextsAre, StartsSelf, Zenon
  <2>8. PanelInv(t)
    BY <1>1, <2>1, <2>2, <2>7, Zenon DEF PanelInv
  <2> QED BY <2>5, <2>6, <2>8 DEF TurnInv
<1> QED BY <1>0, <1>4, <1>5 DEF OnceInv

LEMMA StepOnce == OnceInv /\ [Chat!Next]_(Chat!vars) => OnceInv'
<1> SUFFICES ASSUME OnceInv, [Chat!Next]_(Chat!vars) PROVE OnceInv'
  OBVIOUS
<1>1. CASE UNCHANGED Chat!vars
  <2>1. ChatInv'
    BY StepChat DEF OnceInv
  <2> QED BY <1>1, <2>1, SameOnce DEF Chat!vars, Chat!uiVars, Chat!taskVars, Chat!cliVars
<1> QED BY <1>1, RefusesOnce, AsksOnce, StopsOnce, ForgetsOnce, HandlesOnce, TaskOnce
        DEF Chat!Next, Turns

\* What the panel shows of a turn is how its texts begin, and all of them when it
\* ended of itself.
LEMMA OnceShown == OnceInv => EachTextOnce
<1> SUFFICES ASSUME OnceInv PROVE EachTextOnce
  OBVIOUS
<1>0. entries \in Seq(Shows) /\ DOMAIN entries = 1 .. Len(entries)
      /\ plan \in [Turns -> Chat!Plans]
  BY DEF OnceInv, ChatInv
<1>1. ASSUME NEW t \in Turns
      PROVE  LET kinds == {entries[i].kind : i \in {j \in DOMAIN entries :
                                                      entries[j].turn = t}}
             IN  /\ Chat!IsPrefix(Chat!AnswersOf(t), Chat!Texts(plan[t]))
                 /\ /\ turnDone[t] /\ turnPc[t] = "over" /\ ~stopped[t] /\ turnRunning # t
                    /\ "user" \in kinds /\ "error" \notin kinds
                    => Chat!AnswersOf(t) = Chat!Texts(plan[t])
  <2> DEFINE kinds == {entries[i].kind : i \in {j \in DOMAIN entries : entries[j].turn = t}}
  <2>1. TurnInv(t) /\ plan[t] \in Chat!Plans
    BY <1>0 DEF OnceInv
  <2>2. Chat!AnswersOf(t) = AnswersIn(entries, t)
    <3>1. \A i \in DOMAIN entries : entries[i] \in Shows
      BY <1>0
    <3>2. \A i \in DOMAIN entries :
            Answers(t)[entries[i]] = IF entries[i].kind = "answer" /\ entries[i].turn = t
                                     THEN <<entries[i].about>> ELSE <<>>
      BY <3>1, Zenon DEF Answers
    <3>3. [i \in DOMAIN entries |-> Answers(t)[entries[i]]]
            = [i \in DOMAIN entries |->
                 IF entries[i].kind = "answer" /\ entries[i].turn = t
                 THEN <<entries[i].about>> ELSE <<>>]
      BY <3>2, Zenon
    <3>4. \A s : Chat!FlattenSeq(s) = FlattenSeq(s)
      BY DEF Chat!FlattenSeq, FlattenSeq
    <3> QED BY <3>3, <3>4, Zenon DEF Chat!AnswersOf, AnswersIn, Mapped
  <2>3. Chat!IsPrefix(AnswersIn(entries, t), Chat!Texts(plan[t]))
    <3>1. Starts(AnswersIn(entries, t), Chat!Texts(plan[t]))
      BY <2>1, Zenon DEF TurnInv, PanelInv
    <3>2. AnswersIn(entries, t) \in Seq(Abouts)
      BY <1>0, AnswersMore, Zenon
    <3> QED BY <2>1, <3>1, <3>2, StartsPrefix, TextsAre
  <2>4. \A kind : kind \in kinds <=> HasIn(entries, t, kind)
    BY <1>0 DEF HasIn
  <2>5. ASSUME turnDone[t], turnPc[t] = "over", ~stopped[t], turnRunning # t,
               HasIn(entries, t, "user"), ~HasIn(entries, t, "error")
        PROVE  AnswersIn(entries, t) = Chat!Texts(plan[t])
    BY <2>1, <2>5, Zenon DEF TurnInv, PanelInv, Whole
  <2> QED BY <2>2, <2>3, <2>4, <2>5
<1> QED BY <1>1 DEF EachTextOnce, Chat!EachTextOnce, Turns

\* Of what the CLI says in parts, whole and in its result the panel shows each
\* text once and in order, and all of it when the turn ended of itself, whatever
\* was stopped, failed, forgotten or came late.
THEOREM TextsOnceHolds == Chat!Spec => []EachTextOnce
BY InitOnce, StepOnce, OnceShown, PTL DEF Chat!Spec

=============================================================================
