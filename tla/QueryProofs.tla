---------------------------- MODULE QueryProofs ----------------------------
(***************************************************************************)
(* Proofs about Query for any channel capacity, engine, target and         *)
(* deadline.                                                               *)
(*                                                                         *)
(* What a query leaves behind is decided in three steps, in_transaction,   *)
(* the settling of the target and the hand-back, while the connection may  *)
(* die at any time.  Verdict says what `broken` and `inTx` mean in between.*)
(***************************************************************************)
EXTENDS Query, SequenceTheorems, TLAPS

Settled == {"finishing", "unregister", "closing", "returning", "over"}

Asked == {"reporting", "settling"} \cup Settled

\* Once drive asked for the transaction state, a connection it keeps is idle,
\* and has the transaction drive knows of or died.
Verdict ==
  /\ pc \in Asked /\ ~broken => ~running /\ (conn = "dead" \/ (tx <=> inTx))
  /\ pc \in Asked /\ InSession /\ broken => ~inTx
  /\ conn = "dead" => ~running /\ ~tx

\* Settling gives up a pooled connection with an open transaction and closes a
\* broken session's; the flag of the session then says what drive knows.
Outcome ==
  /\ pc \in Settled /\ ~InSession /\ ~broken => ~inTx
  /\ pc \in Settled /\ InSession => (flag <=> inTx)
  /\ pc \in Settled /\ InSession /\ broken => conn = "closed"

\* Only the settling of a broken session and the hand-back end the use.
Tenure ==
  /\ conn = "closed" => broken
  /\ conn = "closed" /\ pc # "over" => InSession /\ pc \in Asked
  /\ conn = "returned" => pc = "over" /\ ~broken /\ ~InSession
  /\ pc = "over" /\ ~InSession => conn \in {"closed", "returned"}

Inv == TypeOK /\ Verdict /\ Outcome /\ Tenure

-----------------------------------------------------------------------------
(* Steps *)

\* Steps of the client, of other requests and of the stream's end.
SideStep == Read \/ ReadEnd \/ HangUp \/ Cancel

\* Steps of drive up to the question for the transaction state.
EarlyStep ==
  \/ Start \/ (\E e \in ScriptEvents : Emit(e)) \/ Answered \/ HungUp
  \/ InterruptWorker \/ SeeCancel \/ SeeDeadline \/ CancelSent \/ CancelUnsent
  \/ GraceExpires \/ Check

\* Steps of drive that only tell the client or the registry.
TellStep == Report \/ Finish \/ Unregister \/ CloseStream

LEMMA StepCases ==
  ASSUME [Next]_vars
  PROVE  \/ SideStep \/ EarlyStep \/ TellStep
         \/ AskTransaction \/ SettlePooled \/ LoseSession \/ SettleSession
         \/ HandBack \/ ScriptEnds \/ Die \/ UNCHANGED vars
  BY DEF Next, Execute, Control, WindUp, SideStep, EarlyStep, TellStep

\* A send keeps the channel within its capacity.
LEMMA Sent ==
  ASSUME TypeOK, NEW e \in Events, Send(e)
  PROVE  channel' \in Seq(Events) /\ Len(channel') <= Capacity
  <1>1. /\ channel \in Seq(Events) /\ Len(channel) \in Nat
        /\ Len(channel) <= Capacity /\ Capacity \in Nat
    BY LenProperties, QueryAssumption DEF TypeOK
  <1>2. CASE Gone
    BY <1>1, <1>2 DEF Send
  <1>3. CASE ~Gone
    <2>1. channel' = Append(channel, e) /\ Len(channel) < Capacity
      BY <1>3 DEF Send
    <2>2. channel' \in Seq(Events) /\ Len(channel') = Len(channel) + 1
      BY <1>1, <2>1, AppendProperties
    <2>3. QED
      BY <1>1, <2>1, <2>2
  <1>4. QED
    BY <1>2, <1>3

LEMMA ChannelStep ==
  ASSUME TypeOK, [Next]_vars
  PROVE  channel' \in Seq(Events) /\ Len(channel') <= Capacity
  <1> USE DEF streamVars
  <1>0. /\ channel \in Seq(Events) /\ Len(channel) \in Nat
        /\ Len(channel) <= Capacity /\ Capacity \in Nat
    BY LenProperties, QueryAssumption DEF TypeOK
  <1>1. CASE UNCHANGED channel
    BY <1>0, <1>1
  <1>2. CASE \E e \in Events : Send(e)
    BY <1>2, Sent
  <1>3. CASE Read
    <2>1. channel # <<>> /\ channel' = Tail(channel)
      BY <1>3 DEF Read
    <2>2. channel' \in Seq(Events) /\ Len(channel') = Len(channel) - 1
      BY <1>0, <2>1, HeadTailProperties
    <2>3. QED
      BY <1>0, <2>2
  <1>4. CASE HangUp
    <2>1. channel' = <<>>
      BY <1>4 DEF HangUp
    <2>2. QED
      BY <1>0, <2>1, EmptySeq
  <1>5. CASE \E e \in ScriptEvents : Emit(e)
    BY <1>2, <1>5 DEF Emit, ScriptEvents, Events
  <1>6. CASE Start \/ Report \/ SettlePooled \/ SettleSession \/ Finish
    BY <1>1, <1>2, <1>6 DEF Start, Report, SettlePooled, SettleSession, Finish,
       Events
  <1>7. CASE \/ Answered \/ HungUp \/ InterruptWorker \/ SeeCancel
             \/ SeeDeadline \/ CancelSent \/ CancelUnsent \/ GraceExpires
             \/ Check \/ AskTransaction \/ LoseSession \/ Unregister
             \/ CloseStream \/ HandBack \/ ScriptEnds \/ Die \/ ReadEnd
             \/ Cancel \/ UNCHANGED vars
    BY <1>1, <1>7 DEF Answered, HungUp, Conclude, InterruptWorker, SeeCancel,
       SeeDeadline, Stop, CancelSent, CancelUnsent, GraceExpires, Check,
       AskTransaction, LoseSession, Unregister, CloseStream, HandBack,
       ScriptEnds, Die, ReadEnd, Cancel, vars
  <1>8. QED
    BY <1>3, <1>4, <1>5, <1>6, <1>7 DEF Next, Execute, Control, WindUp

LEMMA TypeStep ==
  ASSUME TypeOK, [Next]_vars
  PROVE  TypeOK'
  <1> USE DEF driveVars, apiVars, streamVars, dbVars
  <1> DEFINE Rest ==
        /\ pc \in Phases
        /\ result \in Results
        /\ broken \in BOOLEAN /\ inTx \in BOOLEAN
        /\ registered \in BOOLEAN /\ token \in BOOLEAN /\ flag \in BOOLEAN
        /\ open \in BOOLEAN /\ asked \in BOOLEAN
        /\ running \in BOOLEAN /\ tx \in BOOLEAN
        /\ client \in {"reading", "gone", "finished"}
        /\ seen \in {"nothing", "started", "in_result", "failed", "done", "end",
                     "illegal"}
        /\ outcome \in {"none", "ok", "failed", "lost"}
        /\ conn \in {"in_use", "dead", "returned", "closed"}
  <1>0. Rest
    BY DEF TypeOK
  <1>a. channel' \in Seq(Events) /\ Len(channel') <= Capacity
    BY ChannelStep
  <1>1. CASE SideStep
    <2>1. CASE Read
      <3>1. seen' \in {"nothing", "started", "in_result", "failed", "done",
                       "end", "illegal"}
        BY <1>0, <2>1 DEF Read, After
      <3>2. QED
        BY <1>0, <1>a, <2>1, <3>1 DEF Read, TypeOK
    <2>2. CASE ReadEnd
      BY <1>0, <1>a, <2>2 DEF ReadEnd, TypeOK
    <2>3. CASE HangUp
      BY <1>0, <1>a, <2>3 DEF HangUp, TypeOK
    <2>4. CASE Cancel
      BY <1>0, <1>a, <2>4 DEF Cancel, TypeOK
    <2>5. QED
      BY <1>1, <2>1, <2>2, <2>3, <2>4 DEF SideStep
  <1>2. CASE EarlyStep
    <2>1. CASE Start
      BY <1>0, <1>a, <2>1 DEF Start, Send, Goto, Phases, TypeOK
    <2>2. CASE \E e \in ScriptEvents : Emit(e)
      <3>1. PICK e \in ScriptEvents : Emit(e)
        BY <2>2
      <3>2. open' \in BOOLEAN
        BY <1>0, <3>1 DEF Emit, ScriptEvents
      <3>3. QED
        BY <1>0, <1>a, <3>1, <3>2 DEF Emit, Send, TypeOK
    <2>3. CASE Answered \/ HungUp
      <3>1. PICK r \in Results : Conclude(r)
        BY <1>0, <2>3 DEF Answered, HungUp, Results
      <3>2. QED
        BY <1>0, <1>a, <3>1 DEF Conclude, Goto, Phases, TypeOK
    <2>4. CASE \/ InterruptWorker \/ SeeCancel \/ SeeDeadline \/ CancelSent
               \/ CancelUnsent \/ GraceExpires
      <3>1. asked' \in BOOLEAN /\ broken' \in BOOLEAN
        BY <1>0, <2>4 DEF InterruptWorker, SeeCancel, SeeDeadline, Stop,
           CancelSent, CancelUnsent, GraceExpires
      <3>2. /\ pc' \in Phases /\ result' \in Results
            /\ UNCHANGED <<inTx, apiVars, streamVars, open, running, outcome,
                           tx, conn>>
        BY <1>0, <2>4 DEF InterruptWorker, SeeCancel, SeeDeadline, Stop,
           CancelSent, CancelUnsent, GraceExpires, Goto, Phases, Results
      <3>3. QED
        BY <1>0, <1>a, <3>1, <3>2 DEF TypeOK
    <2>5. CASE Check
      <3>1. broken' \in BOOLEAN
        BY <1>0, <2>5 DEF Check
      <3>2. QED
        BY <1>0, <1>a, <2>5, <3>1 DEF Check, Goto, Phases, TypeOK
    <2>6. QED
      BY <1>2, <2>1, <2>2, <2>3, <2>4, <2>5 DEF EarlyStep
  <1>3. CASE TellStep
    <2>1. registered' \in BOOLEAN
      BY <1>0, <1>3 DEF TellStep, Report, Finish, Unregister, CloseStream
    <2>2. /\ pc' \in Phases
          /\ UNCHANGED <<result, broken, inTx, token, flag, open, dbVars>>
          /\ UNCHANGED <<client, seen>>
      BY <1>3 DEF TellStep, Report, Finish, Unregister, CloseStream, Send, Goto,
         Phases
    <2>3. QED
      BY <1>0, <1>a, <2>1, <2>2 DEF TypeOK
  <1>4. CASE AskTransaction
    <2>1. inTx' \in BOOLEAN /\ broken' \in BOOLEAN
      BY <1>0, <1>4 DEF AskTransaction
    <2>2. /\ pc' = "reporting"
          /\ UNCHANGED <<result, apiVars, streamVars, open, dbVars>>
      BY <1>4 DEF AskTransaction, Goto
    <2>3. QED
      BY <1>0, <1>a, <2>1, <2>2 DEF Phases, TypeOK
  <1>5. CASE SettlePooled
    BY <1>0, <1>a, <1>5 DEF SettlePooled, Send, Goto, Phases, TypeOK
  <1>6. CASE LoseSession
    BY <1>0, <1>a, <1>6 DEF LoseSession, TypeOK
  <1>7. CASE SettleSession
    BY <1>0, <1>a, <1>7 DEF SettleSession, Send, Goto, Phases, TypeOK
  <1>8. CASE HandBack
    <2>1. conn' \in {"in_use", "dead", "returned", "closed"}
      BY <1>0, <1>8 DEF HandBack
    <2>2. QED
      BY <1>0, <1>a, <1>8, <2>1 DEF HandBack, Goto, Phases, TypeOK
  <1>9. CASE ScriptEnds
    <2>1. running' \in BOOLEAN /\ tx' \in BOOLEAN
      BY <1>9 DEF ScriptEnds
    <2>2. /\ outcome' \in {"none", "ok", "failed", "lost"}
          /\ UNCHANGED <<driveVars, apiVars, streamVars, open, asked, conn>>
      BY <1>9 DEF ScriptEnds
    <2>3. QED
      BY <1>0, <1>a, <2>1, <2>2 DEF TypeOK
  <1>12. CASE Die
    <2>1. running' \in BOOLEAN /\ tx' \in BOOLEAN
      BY <1>12 DEF Die
    <2>2. /\ outcome' \in {"none", "ok", "failed", "lost"} /\ conn' = "dead"
          /\ UNCHANGED <<driveVars, apiVars, streamVars, open, asked>>
      BY <1>0, <1>12 DEF Die
    <2>3. QED
      BY <1>0, <1>a, <2>1, <2>2 DEF TypeOK
  <1>10. CASE UNCHANGED vars
    BY <1>0, <1>a, <1>10 DEF vars, TypeOK
  <1>11. QED
    BY <1>1, <1>2, <1>3, <1>4, <1>5, <1>6, <1>7, <1>8, <1>9,
       <1>10, <1>12, StepCases

\* Before drive asked for the transaction state nothing is decided, and the
\* connection is in use or dead.
LEMMA EarlyPhase ==
  ASSUME EarlyStep
  PROVE  /\ pc \notin Asked /\ pc' \notin Asked
         /\ UNCHANGED <<inTx, flag, tx, conn>>
         /\ running' => running \/ conn = "in_use"
  <1> USE DEF driveVars, apiVars, streamVars, dbVars, Asked, Settled
  <1>1. CASE \E e \in ScriptEvents : Emit(e)
    BY <1>1 DEF Emit, Polled
  <1>2. CASE Start
    BY <1>2 DEF Start, Goto
  <1>3. CASE Answered \/ HungUp
    BY <1>3 DEF Answered, HungUp, Conclude, Polled, Goto
  <1>4. CASE InterruptWorker
    BY <1>4 DEF InterruptWorker, Polled
  <1>5. CASE SeeCancel \/ SeeDeadline
    BY <1>5 DEF SeeCancel, SeeDeadline, Stop, Goto
  <1>6. CASE CancelSent
    BY <1>6 DEF CancelSent, Goto
  <1>7. CASE CancelUnsent
    BY <1>7 DEF CancelUnsent, Goto
  <1>8. CASE GraceExpires
    BY <1>8 DEF GraceExpires, Goto
  <1>9. CASE Check
    <2>1. pc = "checking" /\ pc' = "asking"
      BY <1>9 DEF Check, Goto
    <2>2. UNCHANGED <<inTx, flag, tx, conn, running>>
      BY <1>9 DEF Check
    <2>3. QED
      BY <2>1, <2>2
  <1>10. QED
    BY <1>1, <1>2, <1>3, <1>4, <1>5, <1>6, <1>7, <1>8, <1>9 DEF EarlyStep

\* What drive tells changes nothing of what it knows.
LEMMA TellPhase ==
  ASSUME TellStep
  PROVE  /\ pc \in Asked /\ pc' \in Asked /\ pc' # "over" /\ pc # "over"
         /\ pc' \in Settled => pc \in Settled
         /\ UNCHANGED <<broken, inTx, flag, running, tx, conn>>
  <1> USE DEF driveVars, apiVars, streamVars, dbVars, Asked, Settled, Goto
  <1>1. CASE Report
    BY <1>1 DEF Report
  <1>2. CASE Finish
    BY <1>2 DEF Finish
  <1>3. CASE Unregister
    BY <1>3 DEF Unregister
  <1>4. CASE CloseStream
    BY <1>4 DEF CloseStream
  <1>5. QED
    BY <1>1, <1>2, <1>3, <1>4 DEF TellStep

\* Steps that touch neither drive nor the connection.
LEMMA SidePhase ==
  ASSUME SideStep \/ UNCHANGED vars
  PROVE  UNCHANGED <<pc, broken, inTx, flag, running, tx, conn>>
  <1> USE DEF driveVars, apiVars, streamVars, dbVars, vars
  <1>1. CASE Read
    BY <1>1 DEF Read
  <1>2. CASE ReadEnd
    BY <1>2 DEF ReadEnd
  <1>3. CASE HangUp
    BY <1>3 DEF HangUp
  <1>4. CASE Cancel
    BY <1>4 DEF Cancel
  <1>5. QED
    BY <1>1, <1>2, <1>3, <1>4 DEF SideStep

-----------------------------------------------------------------------------
(* The invariant *)

\* Verdict is preserved: the question for the transaction state is answered
\* only by an idle connection, on which nothing starts after.
LEMMA VerdictStep ==
  ASSUME Inv, [Next]_vars
  PROVE  Verdict'
  <1> USE DEF driveVars, apiVars, streamVars, dbVars, Goto
  <1>0. Verdict /\ Tenure
    BY DEF Inv
  <1>1. CASE SideStep \/ UNCHANGED vars
    BY <1>0, <1>1, SidePhase DEF Verdict
  <1>2. CASE EarlyStep
    <2>1. /\ pc' \notin Asked
          /\ UNCHANGED <<tx, conn>> /\ (running' => running \/ conn = "in_use")
      BY <1>2, EarlyPhase
    <2>2. QED
      BY <1>0, <2>1 DEF Verdict
  <1>3. CASE TellStep
    <2>1. /\ pc \in Asked
          /\ UNCHANGED <<broken, inTx, running, tx, conn>>
      BY <1>3, TellPhase
    <2>2. QED
      BY <1>0, <2>1 DEF Verdict
  <1>4. CASE AskTransaction
    <2>1. /\ pc' = "reporting"
          /\ UNCHANGED <<running, tx, conn>>
      BY <1>4 DEF AskTransaction
    <2>2. \/ ~broken' /\ ~running /\ inTx' = tx
          \/ broken' /\ ~inTx'
      BY <1>4 DEF AskTransaction, Idle
    <2>3. QED
      BY <1>0, <2>1, <2>2 DEF Verdict
  <1>5. CASE SettlePooled
    <2>1. /\ pc \in Asked /\ ~InSession /\ broken' = (broken \/ inTx)
          /\ UNCHANGED <<inTx, running, tx, conn>>
      BY <1>5 DEF SettlePooled, Asked
    <2>2. QED
      BY <1>0, <2>1 DEF Verdict
  <1>6. CASE LoseSession
    <2>1. /\ pc \in Asked /\ broken /\ conn' = "closed"
          /\ UNCHANGED <<pc, broken, inTx, running, tx>>
      BY <1>6 DEF LoseSession, Asked
    <2>2. QED
      BY <1>0, <2>1 DEF Verdict
  <1>7. CASE SettleSession
    <2>1. /\ pc \in Asked
          /\ UNCHANGED <<broken, inTx, running, tx, conn>>
      BY <1>7 DEF SettleSession, Asked
    <2>2. QED
      BY <1>0, <2>1 DEF Verdict
  <1>8. CASE HandBack
    <2>1. /\ pc \in Asked
          /\ UNCHANGED <<broken, inTx, running, tx>>
          /\ conn' = conn \/ (~InSession /\ conn' \in {"closed", "returned"})
      BY <1>8 DEF HandBack, Asked, Settled
    <2>3. CASE conn' = conn
      BY <1>0, <2>1, <2>3 DEF Verdict
    <2>4. CASE ~InSession /\ conn' \in {"closed", "returned"}
      <3>1. ~broken => ~inTx
        BY <2>4, <1>8 DEF HandBack, Inv, Outcome, Settled
      <3>2. QED
        BY <1>0, <2>1, <2>4, <3>1 DEF Verdict
    <2>5. QED
      BY <2>1, <2>3, <2>4
  <1>9. CASE ScriptEnds
    <2>1. /\ running /\ ~running'
          /\ UNCHANGED <<pc, broken, inTx, conn>>
      BY <1>9 DEF ScriptEnds
    <2>2. QED
      BY <1>0, <2>1 DEF Verdict
  <1>10. CASE Die
    <2>1. /\ conn' = "dead" /\ ~running' /\ ~tx'
          /\ UNCHANGED <<pc, broken, inTx>>
      BY <1>10 DEF Die
    <2>2. QED
      BY <1>0, <2>1 DEF Verdict
  <1>11. QED
    BY <1>1, <1>2, <1>3, <1>4, <1>5, <1>6, <1>7, <1>8, <1>9, <1>10, StepCases

\* Outcome is preserved: it is established by the settling of the target, and
\* no later step changes what it relates.
LEMMA OutcomeStep ==
  ASSUME Inv, [Next]_vars
  PROVE  Outcome'
  <1> USE DEF driveVars, apiVars, streamVars, dbVars, Goto, Settled
  <1>0. Verdict /\ Outcome /\ Tenure
    BY DEF Inv
  <1>1. CASE SideStep \/ UNCHANGED vars
    BY <1>0, <1>1, SidePhase DEF Outcome
  <1>2. CASE EarlyStep
    <2>1. pc' \notin Asked
      BY <1>2, EarlyPhase
    <2>2. QED
      BY <2>1 DEF Outcome, Asked
  <1>3. CASE TellStep
    <2>1. /\ pc' \in Settled => pc \in Settled
          /\ UNCHANGED <<broken, inTx, flag, conn>>
      BY <1>3, TellPhase
    <2>2. QED
      BY <1>0, <2>1 DEF Outcome
  <1>4. CASE AskTransaction
    BY <1>4 DEF AskTransaction, Outcome
  <1>5. CASE SettlePooled
    BY <1>5 DEF SettlePooled, Outcome
  <1>6. CASE LoseSession
    BY <1>6 DEF LoseSession, Outcome
  <1>7. CASE SettleSession
    <2>1. /\ InSession /\ flag' = inTx /\ (broken => conn = "closed")
          /\ UNCHANGED <<broken, inTx, conn>>
      BY <1>7 DEF SettleSession
    <2>2. QED
      BY <2>1 DEF Outcome
  <1>8. CASE HandBack
    <2>1. /\ pc \in Settled /\ UNCHANGED <<broken, inTx, flag>>
          /\ InSession => conn' = conn
      BY <1>8 DEF HandBack
    <2>2. QED
      BY <1>0, <2>1 DEF Outcome
  <1>9. CASE ScriptEnds
    BY <1>0, <1>9 DEF ScriptEnds, Outcome
  <1>10. CASE Die
    <2>1. /\ conn = "in_use"
          /\ UNCHANGED <<pc, broken, inTx, flag>>
      BY <1>10 DEF Die
    <2>2. QED
      BY <1>0, <2>1 DEF Outcome
  <1>11. QED
    BY <1>1, <1>2, <1>3, <1>4, <1>5, <1>6, <1>7, <1>8, <1>9, <1>10, StepCases

\* Tenure is preserved.
LEMMA TenureStep ==
  ASSUME Inv, [Next]_vars
  PROVE  Tenure'
  <1> USE DEF driveVars, apiVars, streamVars, dbVars, Goto
  <1>0. TypeOK /\ Tenure
    BY DEF Inv
  <1>1. CASE SideStep \/ UNCHANGED vars
    BY <1>0, <1>1, SidePhase DEF Tenure
  <1>2. CASE EarlyStep
    <2>1. pc \notin Asked /\ pc' \notin Asked /\ conn' = conn
      BY <1>2, EarlyPhase
    <2>2. pc # "over" /\ pc' # "over"
      BY <2>1 DEF Asked, Settled
    <2>3. QED
      BY <1>0, <2>1, <2>2 DEF Tenure
  <1>3. CASE TellStep
    <2>1. /\ pc' \in Asked /\ pc # "over" /\ pc' # "over"
          /\ UNCHANGED <<broken, conn>>
      BY <1>3, TellPhase
    <2>2. QED
      BY <1>0, <2>1 DEF Tenure
  <1>4. CASE AskTransaction
    <2>1. pc = "asking" /\ pc' = "reporting" /\ conn' = conn
      BY <1>4 DEF AskTransaction
    <2>2. conn # "closed" /\ conn # "returned"
      BY <1>0, <2>1 DEF Tenure, Asked, Settled
    <2>3. QED
      BY <2>1, <2>2 DEF Tenure
  <1>5. CASE SettlePooled
    <2>1. /\ pc = "settling" /\ pc' = "finishing" /\ ~InSession
          /\ conn' = conn
      BY <1>5 DEF SettlePooled
    <2>2. QED
      BY <1>0, <2>1 DEF Tenure
  <1>6. CASE LoseSession
    <2>1. /\ pc = "settling" /\ pc' = pc /\ InSession /\ broken /\ broken'
          /\ conn' = "closed"
      BY <1>6 DEF LoseSession
    <2>2. QED
      BY <2>1 DEF Tenure, Asked
  <1>7. CASE SettleSession
    <2>1. /\ pc = "settling" /\ pc' = "finishing" /\ InSession
          /\ UNCHANGED <<broken, conn>>
      BY <1>7 DEF SettleSession
    <2>2. QED
      BY <1>0, <2>1 DEF Tenure, Asked, Settled
  <1>8. CASE HandBack
    <2>1. /\ pc = "returning" /\ pc' = "over" /\ broken' = broken
          /\ conn' = CASE InSession            -> conn
                      [] ~InSession /\ broken  -> "closed"
                      [] OTHER                 -> "returned"
      BY <1>8 DEF HandBack
    <2>2. CASE InSession
      BY <1>0, <2>1, <2>2 DEF Tenure
    <2>3. CASE ~InSession /\ broken
      BY <2>1, <2>3 DEF Tenure
    <2>4. CASE ~InSession /\ ~broken
      BY <2>1, <2>4 DEF Tenure
    <2>5. QED
      BY <1>0, <2>2, <2>3, <2>4 DEF TypeOK
  <1>9. CASE ScriptEnds
    BY <1>0, <1>9 DEF ScriptEnds, Tenure
  <1>10. CASE Die
    <2>1. /\ conn = "in_use" /\ conn' = "dead"
          /\ UNCHANGED <<pc, broken>>
      BY <1>10 DEF Die
    <2>2. QED
      BY <1>0, <2>1 DEF Tenure
  <1>11. QED
    BY <1>1, <1>2, <1>3, <1>4, <1>5, <1>6, <1>7, <1>8, <1>9, <1>10, StepCases

LEMMA InitInv == Init => Inv
  <1> SUFFICES ASSUME Init
               PROVE  Inv
    OBVIOUS
  <1>1. channel \in Seq(Events) /\ Len(channel) = 0 /\ 0 <= Capacity
    BY EmptySeq, QueryAssumption DEF Init
  <1>2. tx \in BOOLEAN /\ flag \in BOOLEAN
    BY QueryAssumption DEF Init
  <1>3. TypeOK
    BY <1>1, <1>2 DEF Init, TypeOK, Phases, Results
  <1>4. Verdict /\ Outcome /\ Tenure
    BY DEF Init, Verdict, Outcome, Tenure, Asked, Settled
  <1>5. QED
    BY <1>3, <1>4 DEF Inv

\* The inductive invariant of a query: what drive knows of its connection at
\* every point after the script (query.rs, drive).
THEOREM InvHolds == Spec => []Inv
  <1>1. Init => Inv
    BY InitInv
  <1>2. Inv /\ [Next]_vars => Inv'
    <2> SUFFICES ASSUME Inv, [Next]_vars
                 PROVE  Inv'
      OBVIOUS
    <2>1. TypeOK'
      BY TypeStep DEF Inv
    <2>2. QED
      BY <2>1, VerdictStep, OutcomeStep, TenureStep DEF Inv
  <1>3. QED
    BY <1>1, <1>2, PTL DEF Spec

\* Type correctness; in particular the event channel never holds more than its
\* capacity.
THEOREM TypeCorrect == Spec => []TypeOK
  <1>1. Inv => TypeOK
    BY DEF Inv
  <1>2. QED
    BY <1>1, InvHolds, PTL

\* However a query ended - answered, cancelled, cut off, with its connection
\* lost at any moment or its client gone - the connection it leaves to others
\* executes nothing, and one that goes back to the pool has no transaction open
\* (the checks of drive before it hands the connection back).
THEOREM NothingRunning == Spec => []LeavesNothingRunning
  <1>1. Inv => LeavesNothingRunning
    <2> SUFFICES ASSUME Inv, pc = "over", conn # "closed"
                 PROVE  ~running /\ (~InSession => ~tx)
      BY DEF LeavesNothingRunning
    <2>1. pc \in Asked /\ pc \in Settled
      BY DEF Asked, Settled
    <2>2. ~broken \/ conn = "dead"
      BY <2>1 DEF Inv, Outcome, Tenure
    <2>3. QED
      BY <2>1, <2>2 DEF Inv, Verdict, Outcome, Tenure
  <1>2. QED
    BY <1>1, InvHolds, PTL

\* After a query, the in_transaction flag of its session tells the truth about
\* its connection (drive stores it after it asked the database and after it
\* gave a broken connection up).
THEOREM FlagCorrect == Spec => []FlagIsTrue
  <1>1. Inv => FlagIsTrue
    <2> SUFFICES ASSUME Inv, pc = "over", InSession, conn # "dead"
                 PROVE  flag <=> conn = "in_use" /\ tx
      BY DEF FlagIsTrue
    <2>1. pc \in Asked /\ pc \in Settled
      BY DEF Asked, Settled
    <2>2. CASE broken
      BY <2>1, <2>2 DEF Inv, Verdict, Outcome
    <2>3. CASE ~broken
      BY <2>1, <2>3 DEF Inv, TypeOK, Verdict, Outcome, Tenure
    <2>4. QED
      BY <2>2, <2>3
  <1>2. QED
    BY <1>1, InvHolds, PTL

-----------------------------------------------------------------------------
(* What the client reads: Query implements EventStream *)

\* States of the grammar of the stream; After, as a function of the state too.
Legal == {"nothing", "started", "in_result", "failed", "done", "end"}

Then(s, e) ==
  CASE e = "started" /\ s = "nothing"                          -> "started"
    [] e = "result_start" /\ s = "started"                     -> "in_result"
    [] e = "rows" /\ s = "in_result"                           -> "in_result"
    [] e = "result_end" /\ s = "in_result"                     -> "started"
    [] e = "rows_affected" /\ s = "started"                    -> "started"
    [] e = "message" /\ s \in {"started", "in_result", "failed"} -> s
    [] e = "error" /\ s \in {"started", "in_result"}           -> "failed"
    [] e = "done" /\ s \in {"started", "failed"}               -> "done"
    [] OTHER                                                   -> "illegal"

\* The events of ch take the grammar from one legal state to another.
Leads(ch, from, to) ==
  \E tr \in [0 .. Len(ch) -> Legal] :
    /\ tr[0] = from /\ tr[Len(ch)] = to
    /\ \A i \in 1 .. Len(ch) : tr[i] = Then(tr[i - 1], ch[i])

Scripting == {"executing", "cancelling", "winding", "checking", "asking",
              "reporting"}

Ended == {"unregister", "closing", "returning", "over"}

\* Where the stream is for drive, once the client read all it sent.
Reached(state) ==
  /\ pc = "start" => state = "nothing" /\ ~open
  /\ pc \in Scripting => state = IF open THEN "in_result" ELSE "started"
  /\ pc \in {"settling", "finishing"} => state \in {"started", "failed"}
  /\ pc \in Ended => state = "done"

\* A script that succeeded left no result open; for drive to see that the
\* client is gone it has to be.
Concluded ==
  /\ result = "ok" => ~open /\ pc \notin {"start", "executing", "winding"}
  /\ result = "client_gone" => Gone
  /\ pc = "cancelling" => result \in Interrupted

Tracked ==
  client = "reading" =>
    \E state \in Legal : Leads(channel, seen, state) /\ Reached(state)

StreamInv == TypeOK /\ Concluded /\ Tracked

\* An empty channel leads nowhere.
LEMMA LeadsEmpty ==
  ASSUME NEW a, NEW b
  PROVE  /\ a \in Legal => Leads(<<>>, a, a)
         /\ Leads(<<>>, a, b) => a = b
  <1> DEFINE tr == [i \in 0 .. 0 |-> a]
  <1>1. Len(<<>>) = 0
    BY EmptySeq
  <1>2. ASSUME a \in Legal
        PROVE  Leads(<<>>, a, a)
    <2>1. tr \in [0 .. Len(<<>>) -> Legal] /\ tr[0] = a
      BY <1>1, <1>2
    <2>2. \A i \in 1 .. Len(<<>>) : tr[i] = Then(tr[i - 1], <<>>[i])
      BY <1>1
    <2>3. QED
      BY <1>1, <2>1, <2>2 DEF Leads
  <1>3. Leads(<<>>, a, b) => a = b
    BY <1>1 DEF Leads
  <1>4. QED
    BY <1>2, <1>3

\* One more event at the end, ...
LEMMA LeadsAppend ==
  ASSUME NEW ch \in Seq(Events), NEW a, NEW b, NEW e \in Events,
         Leads(ch, a, b), Then(b, e) \in Legal
  PROVE  Leads(Append(ch, e), a, Then(b, e))
  <1> DEFINE n == Len(ch)
             longer == Append(ch, e)
  <1>1. PICK tr \in [0 .. n -> Legal] :
          /\ tr[0] = a /\ tr[n] = b
          /\ \A i \in 1 .. n : tr[i] = Then(tr[i - 1], ch[i])
    BY DEF Leads
  <1> DEFINE ext == [i \in 0 .. n + 1 |-> IF i = n + 1 THEN Then(b, e)
                                          ELSE tr[i]]
  <1>2. n \in Nat /\ Len(longer) = n + 1 /\ longer[n + 1] = e
        /\ \A i \in 1 .. n : longer[i] = ch[i]
    BY LenProperties, AppendProperties
  <1> HIDE DEF n, longer
  <1>3. ext \in [0 .. n + 1 -> Legal]
    BY <1>1, <1>2
  <1>4. ext[0] = a /\ ext[n + 1] = Then(b, e)
    BY <1>1, <1>2
  <1>5. \A i \in 1 .. n + 1 : ext[i] = Then(ext[i - 1], longer[i])
    <2> SUFFICES ASSUME NEW i \in 1 .. n + 1
                 PROVE  ext[i] = Then(ext[i - 1], longer[i])
      OBVIOUS
    <2>1. CASE i = n + 1
      <3>1. ext[i - 1] = b /\ ext[i] = Then(b, e) /\ longer[i] = e
        BY <1>1, <1>2, <2>1
      <3>2. QED
        BY <3>1
    <2>2. CASE i # n + 1
      <3>1. i \in 1 .. n /\ i \in 0 .. n + 1 /\ i - 1 \in 0 .. n + 1
            /\ i - 1 # n + 1
        BY <1>2, <2>2
      <3>2. ext[i] = tr[i] /\ ext[i - 1] = tr[i - 1] /\ longer[i] = ch[i]
        BY <1>2, <2>2, <3>1
      <3>3. QED
        BY <1>1, <3>1, <3>2
    <2>3. QED
      BY <2>1, <2>2
  <1> HIDE DEF ext
  <1>6. Leads(longer, a, Then(b, e))
    BY <1>2, <1>3, <1>4, <1>5 DEF Leads
  <1>7. QED
    BY <1>6 DEF longer

\* ... and one less at the front.
LEMMA LeadsTail ==
  ASSUME NEW ch \in Seq(Events), NEW a, NEW b, ch # <<>>, Leads(ch, a, b)
  PROVE  /\ Then(a, Head(ch)) \in Legal
         /\ Leads(Tail(ch), Then(a, Head(ch)), b)
  <1> DEFINE n == Len(ch)
             rest == Tail(ch)
             next == Then(a, Head(ch))
  <1>1. PICK tr \in [0 .. n -> Legal] :
          /\ tr[0] = a /\ tr[n] = b
          /\ \A i \in 1 .. n : tr[i] = Then(tr[i - 1], ch[i])
    BY DEF Leads
  <1>2. /\ n \in Nat \ {0} /\ Head(ch) = ch[1]
        /\ Len(rest) = n - 1
        /\ \A i \in 1 .. n - 1 : rest[i] = ch[i + 1]
    BY LenProperties, HeadTailProperties, EmptySeq
  <1>3. next = tr[1] /\ tr[1] \in Legal
    <2>1. 1 \in 1 .. n /\ 1 \in 0 .. n /\ 1 - 1 = 0
      BY <1>2
    <2>2. QED
      BY <1>1, <1>2, <2>1
  <1> HIDE DEF n, rest, next
  <1> DEFINE cut == [i \in 0 .. n - 1 |-> tr[i + 1]]
  <1>4. cut \in [0 .. n - 1 -> Legal]
    BY <1>1, <1>2
  <1>5. cut[0] = next /\ cut[n - 1] = b
    BY <1>1, <1>2, <1>3
  <1>6. \A i \in 1 .. n - 1 : cut[i] = Then(cut[i - 1], rest[i])
    <2> SUFFICES ASSUME NEW i \in 1 .. n - 1
                 PROVE  cut[i] = Then(cut[i - 1], rest[i])
      OBVIOUS
    <2>1. /\ i \in 0 .. n - 1 /\ i - 1 \in 0 .. n - 1 /\ i + 1 \in 1 .. n
          /\ i - 1 + 1 = i /\ i + 1 - 1 = i
      BY <1>2
    <2>2. cut[i] = tr[i + 1] /\ cut[i - 1] = tr[i] /\ rest[i] = ch[i + 1]
      BY <1>2, <2>1
    <2>3. tr[i + 1] = Then(tr[i], ch[i + 1])
      BY <1>1, <2>1
    <2>4. QED
      BY <2>2, <2>3
  <1> HIDE DEF cut
  <1>7. Leads(rest, next, b)
    BY <1>2, <1>4, <1>5, <1>6 DEF Leads
  <1>8. QED
    BY <1>3, <1>7 DEF next, rest

\* What a send does to the stream of a client that reads.
LEMMA SendLeads ==
  ASSUME TypeOK, client = "reading", NEW e \in Events, Send(e),
         NEW state, Leads(channel, seen, state), Then(state, e) \in Legal
  PROVE  client' = "reading" /\ Leads(channel', seen', Then(state, e))
  <1>1. channel' = Append(channel, e) /\ UNCHANGED <<client, seen>>
    BY DEF Send, Gone
  <1>2. QED
    BY <1>1, LeadsAppend DEF TypeOK

LEMMA ConcludedStep ==
  ASSUME TypeOK, Concluded, [Next]_vars
  PROVE  Concluded'
  <1> USE DEF driveVars, apiVars, streamVars, dbVars, Goto, Concluded, Gone,
              Interrupted
  <1>0. result \in Results
    BY DEF TypeOK
  <1>1. CASE SideStep
    <2>1. /\ UNCHANGED <<result, open, pc>>
          /\ client = "gone" => client' = "gone"
      BY <1>1 DEF SideStep, Read, ReadEnd, HangUp, Cancel
    <2>2. QED
      BY <2>1
  <1>2. CASE \E e \in ScriptEvents : Emit(e)
    <2>1. Polled /\ UNCHANGED <<result, pc, client>>
      BY <1>2 DEF Emit, Send
    <2>2. QED
      BY <2>1 DEF Polled
  <1>3. CASE Answered
    <2>1. /\ result' = IF pc = "executing"
                       THEN CASE outcome = "ok"     -> "ok"
                              [] outcome = "failed" -> "db_error"
                              [] outcome = "lost"   -> "connect"
                       ELSE result
          /\ pc' = "checking" /\ UNCHANGED <<open, client>>
          /\ pc \in {"executing", "winding"}
          /\ open => outcome = "failed"
          /\ outcome \in {"ok", "failed", "lost"}
      BY <1>3 DEF Answered, Conclude, Polled, TypeOK
    <2>2. QED
      BY <2>1
  <1>4. CASE HungUp
    BY <1>4 DEF HungUp, Conclude
  <1>5. CASE SeeCancel \/ SeeDeadline
    BY <1>5 DEF SeeCancel, SeeDeadline, Stop
  <1>6. CASE Start
    <2>1. pc = "start" /\ pc' = "executing" /\ UNCHANGED <<result, client>>
      BY <1>6 DEF Start, Send
    <2>2. QED
      BY <2>1
  <1>7. CASE CancelSent
    <2>1. /\ pc = "cancelling" /\ pc' = "winding"
          /\ UNCHANGED <<result, client, open>>
      BY <1>7 DEF CancelSent
    <2>2. QED
      BY <2>1
  <1>8. CASE CancelUnsent \/ GraceExpires \/ InterruptWorker
    <2>1. /\ pc' \in {pc, "checking"}
          /\ UNCHANGED <<result, open, client>>
      BY <1>8 DEF CancelUnsent, GraceExpires, InterruptWorker
    <2>2. QED
      BY <2>1
  <1>9. CASE \/ Check \/ AskTransaction \/ TellStep \/ SettlePooled
             \/ LoseSession \/ SettleSession \/ HandBack
    <2>1. /\ UNCHANGED <<result, open, client>>
          /\ pc' \notin {"start", "executing", "winding", "cancelling"}
      BY <1>9 DEF Check, AskTransaction, TellStep, Report, Finish, Unregister,
         CloseStream, SettlePooled, LoseSession, SettleSession, HandBack, Send
    <2>2. QED
      BY <2>1
  <1>10. CASE ScriptEnds \/ Die \/ UNCHANGED vars
    BY <1>10 DEF ScriptEnds, Die, vars
  <1>11. QED
    BY <1>1, <1>2, <1>3, <1>4, <1>5, <1>6, <1>7, <1>8, <1>9, <1>10, StepCases
       DEF EarlyStep

\* Drive sends nothing the grammar does not allow after what it sent before.
LEMMA TrackedStep ==
  ASSUME StreamInv, [Next]_vars
  PROVE  Tracked'
  <1> USE DEF driveVars, apiVars, streamVars, dbVars, Goto
  <1> SUFFICES ASSUME client' = "reading"
               PROVE  (\E state \in Legal :
                         Leads(channel, seen, state) /\ Reached(state))'
    BY DEF Tracked
  <1>0. TypeOK /\ Concluded /\ client = "reading" /\ ~Gone
    <2>1. UNCHANGED client \/ client' # "reading"
      BY StepCases DEF SideStep, Read, ReadEnd, HangUp, Cancel, EarlyStep, Start,
         Emit, Answered, HungUp, Conclude, InterruptWorker, SeeCancel,
         SeeDeadline, Stop, CancelSent, CancelUnsent, GraceExpires, Check,
         TellStep, Report, Finish, Unregister, CloseStream, AskTransaction,
         SettlePooled, LoseSession, SettleSession, HandBack, ScriptEnds, Die,
         Send, vars
    <2>2. QED
      BY <2>1 DEF StreamInv, Gone
  <1>1. PICK state \in Legal : Leads(channel, seen, state) /\ Reached(state)
    BY <1>0 DEF StreamInv, Tracked
  <1>2. ASSUME UNCHANGED <<channel, seen>>, Reached(state)'
        PROVE  (\E s \in Legal : Leads(channel, seen, s) /\ Reached(s))'
    BY <1>1, <1>2
  <1>3. ASSUME NEW e \in Events, Send(e), Then(state, e) \in Legal,
               Reached(Then(state, e))'
        PROVE  (\E s \in Legal : Leads(channel, seen, s) /\ Reached(s))'
    <2>1. Leads(channel', seen', Then(state, e))
      BY <1>0, <1>1, <1>3, SendLeads
    <2>2. QED
      BY <1>3, <2>1
  <1>4. CASE Read
    <2>1. /\ channel # <<>> /\ channel' = Tail(channel)
          /\ seen' = Then(seen, Head(channel))
          /\ UNCHANGED <<pc, open>>
      BY <1>4 DEF Read, After, Then
    <2>2. Leads(channel', seen', state)
      BY <1>0, <1>1, <2>1, LeadsTail DEF TypeOK
    <2>3. QED
      BY <1>1, <2>1, <2>2 DEF Reached
  <1>5. CASE ReadEnd \/ HangUp
    BY <1>5 DEF ReadEnd, HangUp
  <1>6. CASE Start
    <2>1. pc = "start" /\ pc' = "executing" /\ open' = open /\ Send("started")
      BY <1>6 DEF Start
    <2>2. Then(state, "started") = "started" /\ ~open
      BY <1>1, <2>1 DEF Reached, Then
    <2>3. Reached("started")'
      BY <2>1, <2>2 DEF Reached, Scripting, Ended
    <2>4. QED
      BY <1>3, <2>1, <2>2, <2>3 DEF Events, Legal
  <1>7. CASE \E e \in ScriptEvents : Emit(e)
    <2>1. PICK e \in ScriptEvents : Emit(e)
      BY <1>7
    <2>2. /\ pc \in {"executing", "winding"} /\ pc' = pc
          /\ Send(e) /\ e \in Events
      BY <2>1 DEF Emit, Polled, ScriptEvents, Events
    <2>3. state = IF open THEN "in_result" ELSE "started"
      BY <1>1, <2>2 DEF Reached, Scripting
    <2>4. Then(state, e) = IF open' THEN "in_result" ELSE "started"
      <3>1. CASE e = "result_start"
        BY <2>1, <2>3, <3>1 DEF Emit, Then
      <3>2. CASE e = "result_end"
        BY <2>1, <2>3, <3>2 DEF Emit, Then
      <3>3. CASE e = "rows"
        BY <2>1, <2>3, <3>3 DEF Emit, Then
      <3>4. CASE e = "rows_affected"
        BY <2>1, <2>3, <3>4 DEF Emit, Then
      <3>5. CASE e = "message"
        BY <2>1, <2>3, <3>5 DEF Emit, Then
      <3>6. QED
        BY <3>1, <3>2, <3>3, <3>4, <3>5 DEF ScriptEvents
    <2>5. Reached(Then(state, e))'
      BY <2>2, <2>4 DEF Reached, Scripting, Ended
    <2>6. QED
      BY <1>3, <2>2, <2>4, <2>5 DEF Legal
  <1>8. CASE \/ Answered \/ HungUp \/ InterruptWorker \/ SeeCancel
             \/ SeeDeadline \/ CancelSent \/ CancelUnsent \/ GraceExpires
             \/ Check \/ AskTransaction
    <2>1. /\ pc \in Scripting /\ pc' \in Scripting
          /\ UNCHANGED <<channel, seen, open>>
      BY <1>8 DEF Answered, HungUp, Conclude, Polled, InterruptWorker,
         SeeCancel, SeeDeadline, Stop, CancelSent, CancelUnsent, GraceExpires,
         Check, AskTransaction, Scripting
    <2>2. Reached(state)'
      BY <1>1, <2>1 DEF Reached, Scripting, Ended
    <2>3. QED
      BY <1>2, <2>1, <2>2
  <1>9. CASE Report
    <2>1. pc = "reporting" /\ pc' = "settling" /\ open' = open
      BY <1>9 DEF Report
    <2>2. state = IF open THEN "in_result" ELSE "started"
      BY <1>1, <2>1 DEF Reached, Scripting
    <2>3. CASE result \in {"ok", "client_gone"}
      <3>1. state = "started" /\ UNCHANGED <<channel, seen>>
        BY <1>0, <1>9, <2>2, <2>3 DEF Report, Concluded
      <3>2. Reached(state)'
        BY <2>1, <3>1 DEF Reached, Scripting, Ended
      <3>3. QED
        BY <1>2, <3>1, <3>2
    <2>4. CASE result \notin {"ok", "client_gone"}
      <3>1. Send("error") /\ Then(state, "error") = "failed"
        BY <1>9, <2>2, <2>4 DEF Report, Then
      <3>2. Reached("failed")'
        BY <2>1 DEF Reached, Scripting, Ended
      <3>3. QED
        BY <1>3, <3>1, <3>2 DEF Events, Legal
    <2>5. QED
      BY <2>3, <2>4
  <1>10. CASE SettlePooled \/ SettleSession
    <2>1. /\ pc = "settling" /\ pc' = "finishing"
          /\ UNCHANGED <<channel, seen>> \/ Send("message")
      BY <1>10 DEF SettlePooled, SettleSession
    <2>2. state \in {"started", "failed"} /\ Then(state, "message") = state
      BY <1>1, <2>1 DEF Reached, Then
    <2>3. Reached(state)'
      BY <2>1, <2>2 DEF Reached, Scripting, Ended
    <2>4. QED
      BY <1>2, <1>3, <2>1, <2>2, <2>3 DEF Events
  <1>11. CASE Finish
    <2>1. pc = "finishing" /\ pc' = "unregister" /\ Send("done")
      BY <1>11 DEF Finish
    <2>2. Then(state, "done") = "done"
      BY <1>1, <2>1 DEF Reached, Then
    <2>3. Reached("done")'
      BY <2>1 DEF Reached, Scripting, Ended
    <2>4. QED
      BY <1>3, <2>1, <2>2, <2>3 DEF Events, Legal
  <1>12. CASE Unregister \/ CloseStream \/ HandBack
    <2>1. /\ pc \in Ended /\ pc' \in Ended /\ UNCHANGED <<channel, seen>>
      BY <1>12 DEF Unregister, CloseStream, HandBack, Ended
    <2>2. Reached(state)'
      BY <1>1, <2>1 DEF Reached, Scripting, Ended
    <2>3. QED
      BY <1>2, <2>1, <2>2
  <1>13. CASE LoseSession \/ ScriptEnds \/ Die \/ Cancel \/ UNCHANGED vars
    <2>1. UNCHANGED <<pc, open, channel, seen>>
      BY <1>13 DEF LoseSession, ScriptEnds, Die, Cancel, vars
    <2>2. Reached(state)'
      BY <1>1, <2>1 DEF Reached
    <2>3. QED
      BY <1>2, <2>1, <2>2
  <1>14. QED
    BY <1>4, <1>5, <1>6, <1>7, <1>8, <1>9, <1>10, <1>11, <1>12, <1>13, StepCases
       DEF SideStep, EarlyStep, TellStep

\* A step of the query is one of the stream the client reads, or none.
LEMMA StreamStep ==
  ASSUME StreamInv, [Next]_vars
  PROVE  [Stream!Next]_seen
  <1> USE DEF driveVars, apiVars, streamVars, dbVars
  <1>1. CASE Read
    <2>1. PICK state \in Legal : Leads(channel, seen, state)
      BY <1>1 DEF StreamInv, Tracked, Read
    <2>2. /\ channel # <<>> /\ channel \in Seq(Events)
          /\ seen' = Then(seen, Head(channel))
      BY <1>1 DEF StreamInv, TypeOK, Read, After, Then
    <2>3. Then(seen, Head(channel)) \in Legal
      BY <2>1, <2>2, LeadsTail
    <2>4. seen' # "illegal"
      BY <2>2, <2>3 DEF Legal
    <2>5. QED
      BY <2>2, <2>4 DEF Then, Stream!Next, Stream!Started, Stream!ResultStart,
         Stream!ResultEnd, Stream!Error, Stream!Done, Stream!End
  <1>2. CASE ReadEnd
    <2>1. PICK state \in Legal :
            Leads(<<>>, seen, state) /\ Reached(state)
      BY <1>2 DEF StreamInv, Tracked, ReadEnd
    <2>2. pc \in Ended /\ seen' = IF seen = "done" THEN "end" ELSE "illegal"
      BY <1>2 DEF ReadEnd, Ended
    <2>3. seen = "done"
      BY <2>1, <2>2, LeadsEmpty DEF Reached
    <2>4. QED
      BY <2>2, <2>3 DEF Stream!Next, Stream!End
  <1>3. CASE ~Read /\ ~ReadEnd
    <2>1. seen' = seen
      BY <1>3, StepCases DEF SideStep, HangUp, Cancel, EarlyStep, Start,
         Emit, Answered, HungUp, Conclude, InterruptWorker, SeeCancel,
         SeeDeadline, Stop, CancelSent, CancelUnsent, GraceExpires, Check,
         TellStep, Report, Finish, Unregister, CloseStream, AskTransaction,
         SettlePooled, LoseSession, SettleSession, HandBack, ScriptEnds, Die,
         Send, vars
    <2>2. QED
      BY <2>1
  <1>4. QED
    BY <1>1, <1>2, <1>3

\* Query implements EventStream: however a script was answered, cancelled or
\* cut off, with whatever engine and however slowly it is read, its client
\* reads `started`, then well-formed results, at most one error, one `done`
\* and the end (the sends of drive and of the drivers' ResultWriter).
THEOREM StreamHolds == Spec => StreamSpec
  <1>1. Init => StreamInv
    <2> SUFFICES ASSUME Init
                 PROVE  StreamInv
      OBVIOUS
    <2>1. TypeOK
      BY InitInv DEF Inv
    <2>2. Concluded
      BY DEF Init, Concluded
    <2>3. Leads(channel, seen, "nothing") /\ Reached("nothing")
      BY LeadsEmpty DEF Init, Legal, Reached, Scripting, Ended
    <2>4. QED
      BY <2>1, <2>2, <2>3 DEF StreamInv, Tracked, Legal
  <1>2. StreamInv /\ [Next]_vars => StreamInv'
    <2> SUFFICES ASSUME StreamInv, [Next]_vars
                 PROVE  StreamInv'
      OBVIOUS
    <2>1. TypeOK' /\ Concluded'
      BY TypeStep, ConcludedStep DEF StreamInv
    <2>2. QED
      BY <2>1, TrackedStep DEF StreamInv
  <1>3. Init => Stream!Init
    BY DEF Init, Stream!Init
  <1>4. StreamInv /\ [Next]_vars => [Stream!Next]_seen
    BY StreamStep
  <1>5. QED
    BY <1>1, <1>2, <1>3, <1>4, PTL DEF Spec, StreamSpec, Stream!Spec

=============================================================================
