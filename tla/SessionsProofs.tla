--------------------------- MODULE SessionsProofs ---------------------------
(***************************************************************************)
(* Proofs about Sessions for any handlers, sessions and cap.               *)
(*                                                                         *)
(* The lock of a session's connection is the centre: Custody ties its      *)
(* holder to where that handler is, whoever else closes, reaps or creates  *)
(* sessions.  Budget counts the creations that passed the check of the     *)
(* cap, and Spared says what the reaper may rely on between its two reads. *)
(***************************************************************************)
EXTENDS Sessions, FiniteSetTheorems, TLAPS

HasSession == Holding \cup {"inserting", "found", "loaded"}

\* Who is past try_lock holds the lock, and the lock's holder is past it.
Custody ==
  /\ \A h \in Handlers : pc[h] \in HasSession => arc[h] \in Ids
  /\ \A h \in Handlers : pc[h] \in Holding => lock[arc[h]] = h
  /\ \A s \in Ids : lock[s] \in Handlers =>
       arc[lock[s]] = s /\ pc[lock[s]] \in Holding
  /\ \A h \in Handlers : pc[h] \in {"locked", "executing"} =>
       conn[arc[h]] = "open"

\* A query that began after the reaper saw its session free has touched it.
Spared ==
  looked # NoSession => (RunsQuery(looked) => recent[looked])

Inv == TypeOK /\ Custody /\ Spared /\ CapWithinRaces

-----------------------------------------------------------------------------
(* Steps *)

LEMMA InitInv == Init => Inv
  <1> SUFFICES ASSUME Init
               PROVE  Inv
    OBVIOUS
  <1>1. TypeOK
    BY SessionsAssumption DEF Init, TypeOK, Phases
  <1>2. Custody
    BY SessionsAssumption DEF Init, Custody, HasSession, Holding
  <1>3. Spared
    BY DEF Init, Spared
  <1>4. CapWithinRaces
    <2>1. Creating = {}
      BY DEF Init, Creating
    <2>2. Cardinality(listed) = 0 /\ Cardinality(Creating) = 0
      BY <2>1, FS_EmptySet DEF Init
    <2>3. Cardinality(Handlers) \in Nat
      BY SessionsAssumption, FS_CardinalityType
    <2>4. QED
      BY <2>2, <2>3, SessionsAssumption DEF CapWithinRaces
  <1>5. QED
    BY <1>1, <1>2, <1>3, <1>4 DEF Inv

LEMMA TypeStep ==
  ASSUME Inv, [Next]_vars
  PROVE  TypeOK'
  <1> USE SessionsAssumption DEF Inv, TypeOK, Phases, Goto, Leave, Touch,
      Unlock, Stops, handlerVars, dbVars
  <1>1. ASSUME NEW h \in Handlers, Admit(h) \/ Create(h)
        PROVE  TypeOK'
    <2>1. CASE Admit(h)
      BY <2>1 DEF Admit
    <2>2. CASE LoadNew(h)
      BY <2>2 DEF LoadNew
    <2>3. ASSUME NEW s \in Ids, Connect(h, s)
          PROVE  TypeOK'
      BY <2>3 DEF Connect
    <2>4. CASE ConnectFails(h)
      BY <2>4 DEF ConnectFails
    <2>5. CASE Insert(h)
      BY <2>5 DEF Insert, Custody, HasSession, MapFree
    <2>6. QED
      BY <1>1, <2>1, <2>2, <2>3, <2>4, <2>5 DEF Create
  <1>2. ASSUME NEW h \in Handlers, NEW s \in Ids,
               NEW k \in {"query", "explain"}, Find(h, s, k)
        PROVE  TypeOK'
    BY <1>2 DEF Find
  <1>3. ASSUME NEW h \in Handlers, Take(h)
        PROVE  TypeOK'
    <2>1. CASE Load(h)
      BY <2>1 DEF Load
    <2>2. CASE Refuse(h)
      BY <2>2 DEF Refuse
    <2>3. CASE Lock(h)
      BY <2>3 DEF Lock
    <2>4. CASE FindLost(h)
      BY <2>4 DEF FindLost, MapFree
    <2>5. CASE NotStarted(h)
      BY <2>5 DEF NotStarted
    <2>6. CASE Begin(h)
      BY <2>6 DEF Begin
    <2>7. QED
      BY <1>3, <2>1, <2>2, <2>3, <2>4, <2>5, <2>6 DEF Take
  <1>4. ASSUME NEW h \in Handlers, Settle(h)
        PROVE  TypeOK'
    <2>1. CASE SettleKept(h)
      BY <2>1 DEF SettleKept
    <2>2. CASE SettleLost(h)
      BY <2>2 DEF SettleLost
    <2>3. CASE ExplainEnds(h)
      BY <2>3 DEF ExplainEnds
    <2>4. CASE ExplainCutOff(h)
      BY <2>4 DEF ExplainCutOff
    <2>5. QED
      BY <1>4, <2>1, <2>2, <2>3, <2>4 DEF Settle
  <1>5. ASSUME NEW h \in Handlers, DropExplain(h) \/ Release(h)
        PROVE  TypeOK'
    BY <1>5 DEF DropExplain, Release
  <1>6. ASSUME NEW s \in Ids, StrayEnds(s) \/ Close(s) \/ Look(s) \/ Age(s)
        PROVE  TypeOK'
    <2>1. CASE StrayEnds(s)
      <3>1. PICK open \in BOOLEAN : Stops(s, open)
        BY <2>1 DEF StrayEnds
      <3>2. running' \in [Ids -> BOOLEAN] /\ tx' \in [Ids -> BOOLEAN]
        BY <3>1
      <3>3. QED
        BY <2>1, <3>2 DEF StrayEnds
    <2>2. CASE Close(s)
      BY <2>2 DEF Close, MapFree
    <2>3. CASE Look(s)
      BY <2>3 DEF Look
    <2>4. CASE Age(s)
      BY <2>4 DEF Age
    <2>5. QED
      BY <1>6, <2>1, <2>2, <2>3, <2>4
  <1>7. CASE Judge
    BY <1>7 DEF Judge
  <1>8. CASE DeleteProfile
    BY <1>8 DEF DeleteProfile
  <1>9. CASE CloseForConnection
    BY <1>9 DEF CloseForConnection, MapFree
  <1>10. CASE UNCHANGED vars
    BY <1>10 DEF vars
  <1>11. QED
    BY <1>1, <1>2, <1>3, <1>4, <1>5, <1>6, <1>7, <1>8, <1>9, <1>10 DEF Next


\* Who enters or leaves the phases that hold a lock does so with the lock.
LEMMA CustodyStep ==
  ASSUME Inv, [Next]_vars
  PROVE  Custody'
  <1> USE SessionsAssumption DEF Inv, TypeOK, Custody, HasSession, Holding,
      Goto, Leave, Unlock, handlerVars
  <1>1. ASSUME NEW h \in Handlers, Admit(h) \/ Create(h)
        PROVE  Custody'
    <2>1. CASE Admit(h) \/ LoadNew(h)
      BY <2>1 DEF Admit, LoadNew
    <2>2. ASSUME NEW s \in Ids, Connect(h, s)
          PROVE  Custody'
      <3>1. \A g \in Handlers : arc[g] # s
        BY <2>2 DEF Connect, Alive
      <3>2. QED
        BY <2>2, <3>1 DEF Connect
    <2>3. CASE ConnectFails(h)
      BY <2>3 DEF ConnectFails
    <2>4. CASE Insert(h)
      BY <2>4 DEF Insert
    <2>5. QED
      BY <1>1, <2>1, <2>2, <2>3, <2>4 DEF Create
  <1>2. ASSUME NEW h \in Handlers, NEW s \in Ids,
               NEW k \in {"query", "explain"}, Find(h, s, k)
        PROVE  Custody'
    BY <1>2 DEF Find
  <1>3. ASSUME NEW h \in Handlers, Take(h)
        PROVE  Custody'
    <2>1. CASE Load(h) \/ Refuse(h)
      BY <2>1 DEF Load, Refuse
    <2>2. CASE Lock(h)
      BY <2>2 DEF Lock
    <2>3. CASE FindLost(h)
      BY <2>3 DEF FindLost
    <2>4. CASE NotStarted(h)
      BY <2>4 DEF NotStarted
    <2>5. CASE Begin(h)
      BY <2>5 DEF Begin
    <2>6. QED
      BY <1>3, <2>1, <2>2, <2>3, <2>4, <2>5 DEF Take
  <1>4. ASSUME NEW h \in Handlers, Settle(h)
        PROVE  Custody'
    <2>0. /\ pc[h] = "executing" /\ pc' = [pc EXCEPT ![h] = "settled"]
          /\ UNCHANGED <<arc, lock>>
      BY <1>4 DEF Settle, SettleKept, SettleLost, ExplainEnds, ExplainCutOff
    <2>1. CASE UNCHANGED conn
      BY <2>0, <2>1
    <2>2. CASE conn' = [conn EXCEPT ![arc[h]] = "lost"]
      <3>1. \A g \in Handlers \ {h} :
              pc[g] \in {"locked", "executing"} => arc[g] # arc[h]
        BY <2>0
      <3>2. QED
        BY <2>0, <2>2, <3>1
    <2>3. QED
      BY <1>4, <2>1, <2>2
         DEF Settle, SettleKept, SettleLost, ExplainEnds, ExplainCutOff
  <1>5. ASSUME NEW h \in Handlers, DropExplain(h) \/ Release(h)
        PROVE  Custody'
    BY <1>5 DEF DropExplain, Release
  <1>6. CASE UNCHANGED <<handlerVars, lock, conn>>
    BY <1>6
  <1>7. QED
    BY <1>1, <1>2, <1>3, <1>4, <1>5, <1>6
       DEF Next, vars, StrayEnds, Close, Look, Age, Judge, DeleteProfile,
           CloseForConnection

\* Between the reaper's two reads a session's last use can only become recent,
\* and a query begins with a touch.
LEMMA SparedStep ==
  ASSUME Inv, [Next]_vars
  PROVE  Spared'
  <1> USE SessionsAssumption DEF Inv, TypeOK, Spared, RunsQuery, Goto, Leave,
      Touch, Unlock, handlerVars, dbVars
  <1>1. ASSUME NEW h \in Handlers, Admit(h) \/ Create(h)
        PROVE  Spared'
    <2>1. /\ looked' = looked
          /\ \A x \in Ids : recent[x] => recent'[x]
      <3>1. ASSUME NEW s \in Ids, Connect(h, s)
            PROVE  /\ looked' = looked
                   /\ \A x \in Ids : recent[x] => recent'[x]
        BY <3>1 DEF Connect
      <3>2. CASE Admit(h) \/ LoadNew(h) \/ ConnectFails(h) \/ Insert(h)
        BY <3>2 DEF Admit, LoadNew, ConnectFails, Insert
      <3>3. QED
        BY <1>1, <3>1, <3>2 DEF Create
    <2>2. \A x : RunsQuery(x)' => RunsQuery(x)
      <3>1. /\ pc[h] # "executing" /\ pc'[h] # "executing"
            /\ \A g \in Handlers \ {h} :
                 pc'[g] = pc[g] /\ arc'[g] = arc[g] /\ kind'[g] = kind[g]
        BY <1>1 DEF Create, Admit, LoadNew, Connect, ConnectFails, Insert
      <3>2. QED
        BY <3>1
    <2>3. QED
      BY <2>1, <2>2
  <1>2. ASSUME NEW h \in Handlers, NEW s \in Ids,
               NEW k \in {"query", "explain"}, Find(h, s, k)
        PROVE  Spared'
    <2>1. /\ pc' = [pc EXCEPT ![h] = "found"]
          /\ \A g \in Handlers \ {h} : arc'[g] = arc[g] /\ kind'[g] = kind[g]
          /\ UNCHANGED <<looked, recent>>
      BY <1>2 DEF Find
    <2>2. \A x : RunsQuery(x)' => RunsQuery(x)
      BY <2>1
    <2>3. QED
      BY <2>1, <2>2
  <1>3. ASSUME NEW h \in Handlers, Take(h)
        PROVE  Spared'
    BY <1>3 DEF Take, Load, Refuse, Lock, FindLost, NotStarted, Begin
  <1>4. ASSUME NEW h \in Handlers, Settle(h)
        PROVE  Spared'
    <2>1. /\ looked' = looked /\ UNCHANGED <<arc, kind>>
          /\ pc' = [pc EXCEPT ![h] = "settled"]
          /\ recent' = [recent EXCEPT ![arc[h]] = TRUE]
      BY <1>4 DEF Settle, SettleKept, SettleLost, ExplainEnds, ExplainCutOff
    <2>2. \A x : RunsQuery(x)' => RunsQuery(x)
      BY <2>1
    <2>3. \A x \in Ids : recent[x] => recent'[x]
      BY <2>1
    <2>4. QED
      BY <2>1, <2>2, <2>3
  <1>5. ASSUME NEW h \in Handlers, DropExplain(h) \/ Release(h)
        PROVE  Spared'
    BY <1>5 DEF DropExplain, Release
  <1>6. ASSUME NEW s \in Ids, Look(s)
        PROVE  Spared'
    <2>1. /\ lock[s] = NoOne /\ looked' = s
          /\ UNCHANGED <<pc, arc, kind, recent>>
      BY <1>6 DEF Look
    <2>2. \A g \in Handlers : arc[g] = s => pc[g] # "executing"
      BY <2>1 DEF Custody, Holding
    <2>3. QED
      BY <2>1, <2>2
  <1>7. CASE looked' = NoSession
    BY <1>7
  <1>8. CASE UNCHANGED <<handlerVars, recent, looked>>
    BY <1>8
  <1>9. QED
    BY <1>1, <1>2, <1>3, <1>4, <1>5, <1>6, <1>7, <1>8
       DEF Next, vars, MapFree, StrayEnds, Close, Age, Judge, DeleteProfile,
           CloseForConnection


\* How many sessions there are and how many more are on their way: only the
\* check of the cap adds to the sum.
LEMMA Counting ==
  ASSUME Inv
  PROVE  /\ IsFiniteSet(listed) /\ IsFiniteSet(Creating)
         /\ Cardinality(listed) \in Nat /\ Cardinality(Creating) \in Nat
         /\ Cardinality(Handlers) \in Nat
         /\ Cardinality(Creating) <= Cardinality(Handlers)
  <1>1. IsFiniteSet(listed)
    BY SessionsAssumption, FS_Subset DEF Inv, TypeOK
  <1>2. IsFiniteSet(Creating) /\ Cardinality(Creating) <= Cardinality(Handlers)
    BY SessionsAssumption, FS_Subset DEF Creating
  <1>3. QED
    BY <1>1, <1>2, SessionsAssumption, FS_CardinalityType

LEMMA BudgetKept ==
  ASSUME Inv, listed' \subseteq listed, Creating' \subseteq Creating
  PROVE  CapWithinRaces'
  <1>1. /\ Cardinality(listed') <= Cardinality(listed)
        /\ Cardinality(Creating') <= Cardinality(Creating)
        /\ IsFiniteSet(listed') /\ IsFiniteSet(Creating')
    BY Counting, FS_Subset
  <1>2. Cardinality(listed') \in Nat /\ Cardinality(Creating') \in Nat
    BY <1>1, FS_CardinalityType
  <1>3. QED
    BY <1>1, <1>2, Counting, SessionsAssumption DEF Inv, CapWithinRaces

LEMMA BudgetStep ==
  ASSUME Inv, [Next]_vars
  PROVE  CapWithinRaces'
  <1> USE DEF Goto, Leave, handlerVars
  <1>0. pc \in [Handlers -> Phases]
    BY DEF Inv, TypeOK
  <1>1. ASSUME NEW h \in Handlers, Admit(h)
        PROVE  CapWithinRaces'
    <2>1. /\ Cardinality(listed) < MaxPerToken /\ listed' = listed
          /\ pc' = [pc EXCEPT ![h] = "admitted"]
      BY <1>1 DEF Admit
    <2>2. Creating' \subseteq Handlers
      BY DEF Creating
    <2>3. /\ IsFiniteSet(Creating')
          /\ Cardinality(Creating') <= Cardinality(Handlers)
      BY <2>2, SessionsAssumption, FS_Subset
    <2>4. Cardinality(Creating') \in Nat
      BY <2>3, FS_CardinalityType
    <2>5. QED
      BY <2>1, <2>3, <2>4, Counting, SessionsAssumption DEF CapWithinRaces
  <1>2. ASSUME NEW h \in Handlers, Insert(h)
        PROVE  CapWithinRaces'
    <2>1. /\ pc[h] = "inserting" /\ listed' = listed \cup {arc[h]}
          /\ pc' = [pc EXCEPT ![h] = "out"]
      BY <1>2 DEF Insert
    <2>2. h \in Creating /\ Creating' = Creating \ {h}
      BY <1>0, <2>1 DEF Creating
    <2>3. /\ Cardinality(Creating') = Cardinality(Creating) - 1
          /\ IsFiniteSet(Creating')
      BY <2>2, Counting, FS_RemoveElement
    <2>4. /\ IsFiniteSet(listed')
          /\ Cardinality(listed') <= Cardinality(listed) + 1
      <3>1. CASE arc[h] \in listed
        <4>1. listed' = listed
          BY <2>1, <3>1
        <4>2. QED
          BY <4>1, Counting
      <3>2. CASE arc[h] \notin listed
        <4>1. /\ IsFiniteSet(listed \cup {arc[h]})
              /\ Cardinality(listed \cup {arc[h]}) = Cardinality(listed) + 1
          BY <3>2, Counting, FS_AddElement
        <4>2. QED
          BY <2>1, <4>1, Counting
      <3>3. QED
        BY <3>1, <3>2
    <2>5. Cardinality(listed') \in Nat /\ Cardinality(Creating') \in Nat
      BY <2>3, <2>4, FS_CardinalityType
    <2>6. QED
      BY <2>3, <2>4, <2>5, Counting, SessionsAssumption
         DEF Inv, CapWithinRaces
  <1>3. ASSUME NEW h \in Handlers,
               \/ LoadNew(h) \/ (\E s \in Ids : Connect(h, s))
               \/ ConnectFails(h)
        PROVE  CapWithinRaces'
    <2>1. Creating' \subseteq Creating /\ listed' = listed
      BY <1>0, <1>3 DEF LoadNew, Connect, ConnectFails, Creating
    <2>2. QED
      BY <2>1, BudgetKept
  <1>4. ASSUME NEW h \in Handlers,
               \/ (\E s \in Ids, k \in {"query", "explain"} : Find(h, s, k))
               \/ Take(h) \/ Settle(h) \/ DropExplain(h) \/ Release(h)
        PROVE  CapWithinRaces'
    <2>1. Creating' \subseteq Creating
      BY <1>0, <1>4
         DEF Find, Take, Load, Refuse, Lock, FindLost, NotStarted, Begin,
             Settle, SettleKept, SettleLost, ExplainEnds, ExplainCutOff,
             DropExplain, Release, Creating
    <2>2. listed' \subseteq listed
      BY <1>4
         DEF Find, Take, Load, Refuse, Lock, FindLost, NotStarted, Begin,
             Settle, SettleKept, SettleLost, ExplainEnds, ExplainCutOff,
             DropExplain, Release
    <2>3. QED
      BY <2>1, <2>2, BudgetKept
  <1>5. CASE UNCHANGED pc /\ listed' \subseteq listed
    <2>1. Creating' = Creating
      BY <1>5 DEF Creating
    <2>2. QED
      BY <1>5, <2>1, BudgetKept
  <1>6. ASSUME \/ \E s \in Ids : StrayEnds(s) \/ Close(s) \/ Look(s) \/ Age(s)
               \/ Judge \/ DeleteProfile \/ CloseForConnection
               \/ UNCHANGED vars
        PROVE  CapWithinRaces'
    <2>1. UNCHANGED pc /\ listed' \subseteq listed
      BY <1>6 DEF StrayEnds, Close, Look, Age, Judge, DeleteProfile,
         CloseForConnection, vars
    <2>2. QED
      BY <1>5, <2>1
  <1>7. QED
    BY <1>1, <1>2, <1>3, <1>4, <1>6 DEF Next, Create

-----------------------------------------------------------------------------
(* Theorems *)

\* The inductive invariant of Sessions.
THEOREM InvHolds == Spec => []Inv
  <1>1. Init => Inv
    BY InitInv
  <1>2. Inv /\ [Next]_vars => Inv'
    BY TypeStep, CustodyStep, SparedStep, BudgetStep DEF Inv
  <1>3. QED
    BY <1>1, <1>2, PTL DEF Spec

\* Type correctness; in particular what the reaper looks at stays in the map
\* until it has judged it, because it holds the map's mutex.
THEOREM TypeCorrect == Spec => []TypeOK
  <1>1. Inv => TypeOK
    BY DEF Inv
  <1>2. QED
    BY <1>1, InvHolds, PTL

\* A query or an explain has its session's connection for itself, and there is
\* one, whatever is closed, reaped, deleted or lost meanwhile (try_lock_owned
\* and the check for None in session_run and on_session).
THEOREM ExclusiveHolds == Spec => []Exclusive
  <1>1. Inv => Exclusive
    <2> SUFFICES ASSUME Inv, NEW h \in Handlers,
                        pc[h] \in {"locked", "executing"}
                 PROVE  /\ conn[arc[h]] = "open"
                        /\ \A g \in Handlers \ {h} :
                             arc[g] = arc[h] => pc[g] \notin Holding
      BY DEF Exclusive
    <2>1. conn[arc[h]] = "open" /\ lock[arc[h]] = h
      BY DEF Inv, Custody, Holding
    <2>2. QED
      BY <2>1 DEF Inv, Custody
  <1>2. QED
    BY <1>1, InvHolds, PTL

\* Creations that race exceed the cap per token by less than the handlers at
\* work (session_create checks, connects and inserts).
THEOREM CapHoldsWithinRaces == Spec => []CapWithinRaces
  <1>1. Inv => CapWithinRaces
    BY DEF Inv
  <1>2. QED
    BY <1>1, InvHolds, PTL

\* The reaper never takes a session whose query executes, although it reads
\* `busy` and the last use one after the other (Sessions::reap).
THEOREM ReaperSpares == Spec => ReaperSparesRunning
  <1>1. Inv /\ [Next]_vars =>
          [\A s \in Ids : Reaps(s) => ~RunsQuery(s)]_vars
    <2> SUFFICES ASSUME Inv, Next, NEW s \in Ids, Reaps(s)
                 PROVE  ~RunsQuery(s)
      BY DEF vars
    <2>1. looked = s /\ s \in listed /\ s \notin listed' /\ s # NoSession
      BY SessionsAssumption DEF Reaps
    <2>2. CASE Judge
      <3>1. ~recent[s]
        BY <2>1, <2>2 DEF Judge
      <3>2. QED
        BY <2>1, <3>1 DEF Inv, Spared
    <2>3. CASE \E h \in Handlers : FindLost(h)
      <3>1. PICK h \in Handlers : FindLost(h)
        BY <2>3
      <3>2. listed' = listed
        BY <2>1, <3>1 DEF FindLost, MapFree
      <3>3. QED
        BY <2>1, <3>2
    <2>4. QED
      BY <2>1, <2>2, <2>3
         DEF Next, Create, Take, Settle, Admit, LoadNew, Connect, ConnectFails,
             Insert, Find, Load, Refuse, Lock, NotStarted, Begin, SettleKept,
             SettleLost, ExplainEnds, ExplainCutOff, DropExplain, Release,
             StrayEnds, Close, Look, Age, DeleteProfile, CloseForConnection,
             MapFree
  <1>2. QED
    BY <1>1, InvHolds, PTL DEF Spec, ReaperSparesRunning

=============================================================================
