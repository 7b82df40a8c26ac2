----------------------------- MODULE PoolProofs -----------------------------
(***************************************************************************)
(* Proofs about Pool for any tasks, session ids and pool size.             *)
(*                                                                         *)
(* The properties are not inductive as they stand.  Inv adds which phases  *)
(* own a connection (Custody), that a task which connects found the stack  *)
(* empty while it held a permit (Budget), and where statements and cancels *)
(* can be (Quiet).                                                         *)
(***************************************************************************)
EXTENDS Pool, FiniteSetTheorems, SequenceTheorems, TLAPS

Owning == {"pinging", "unused", "used", "resetting", "cancelling", "closing"}

Connecting == {t \in Tasks : pc[t] = "connecting"}

\* Exactly these phases own a connection, and only a cancelling task aims a
\* cancel: at its own connection.
Custody ==
  \A t \in Tasks :
    /\ held[t] # NoConn <=> pc[t] \in Owning
    /\ target[t] # NoConn => pc[t] = "cancelling" /\ target[t] = held[t]

\* Statements run only on connections that are used or abandoned.
Quiet ==
  /\ IdleIsQuiet
  /\ \A t \in Tasks :
       pc[t] \in {"pinging", "unused", "resetting"} => held[t] \notin running

\* Connections and the connects under way fit in the permits together.
Budget ==
  /\ IsFiniteSet(open)
  /\ Cardinality(PermitHolders) <= Permits
  /\ Cardinality(open) + Cardinality(Connecting) <= Permits

Inv == TypeOK /\ Custody /\ OneKeeper /\ Quiet /\ Budget

-----------------------------------------------------------------------------
(* The stack *)

\* Popping takes the top off and leaves the rest in place.
LEMMA PopStack ==
  ASSUME NEW S, NEW s \in Seq(S), s # <<>>
  PROVE  LET r == SubSeq(s, 1, Len(s) - 1)
         IN  /\ Len(s) \in Nat /\ Len(s) >= 1
             /\ s[Len(s)] \in S
             /\ r \in Seq(S)
             /\ Len(r) = Len(s) - 1
             /\ \A i \in 1 .. (Len(s) - 1) : r[i] = s[i]
  <1> DEFINE n == Len(s) - 1
             r == SubSeq(s, 1, n)
  <1>1. Len(s) \in Nat /\ Len(s) >= 1
    BY EmptySeq, LenProperties
  <1>2. s[Len(s)] \in S
    BY <1>1, ElementOfSeq
  <1>3. n \in Nat /\ 1 \in Int /\ n \in Int
    BY <1>1
  <1>4. \A i \in 1 .. n : s[i] \in S
    BY <1>1, ElementOfSeq
  <1> HIDE DEF n
  <1>5. /\ r \in Seq(S)
        /\ Len(r) = IF 1 <= n THEN n - 1 + 1 ELSE 0
        /\ \A i \in 1 .. n - 1 + 1 : r[i] = s[1 + i - 1]
    BY <1>3, <1>4, SubSeqProperties
  <1> HIDE DEF r
  <1>6. \A i \in 1 .. n : i \in 1 .. n - 1 + 1 /\ 1 + i - 1 = i
    BY <1>3
  <1>7. \A i \in 1 .. n : r[i] = s[i]
    BY <1>5, <1>6
  <1>8. Len(r) = n
    BY <1>3, <1>5
  <1>9. QED
    BY <1>1, <1>2, <1>5, <1>7, <1>8 DEF n, r

\* put_back keeps the entries above the first k, in order, and adds c on top.
LEMMA PutBackStack ==
  ASSUME NEW S, NEW s \in Seq(S), NEW c \in S, NEW k \in 0 .. Len(s)
  PROVE  LET r == Append(SubSeq(s, k + 1, Len(s)), c)
         IN  /\ r \in Seq(S)
             /\ Len(r) = Len(s) - k + 1
             /\ \A i \in 1 .. (Len(s) - k) : r[i] = s[i + k]
             /\ r[Len(s) - k + 1] = c
  <1> DEFINE m == SubSeq(s, k + 1, Len(s))
  <1>1. Len(s) \in Nat /\ k \in Nat /\ k <= Len(s)
    BY LenProperties
  <1>2. \A i \in k + 1 .. Len(s) : s[i] \in S
    BY <1>1, ElementOfSeq
  <1>3. m \in Seq(S) /\ Len(m) = Len(s) - k
    BY <1>1, <1>2, SubSeqProperties
  <1>4. \A i \in 1 .. (Len(s) - k) : m[i] = s[i + k]
    BY <1>1, SubSeqProperties
  <1> HIDE DEF m
  <1>5. Append(m, c) \in Seq(S) /\ Len(Append(m, c)) = Len(s) - k + 1
    BY <1>1, <1>3, AppendProperties
  <1>6. \A i \in 1 .. (Len(s) - k) : Append(m, c)[i] = m[i]
    BY <1>1, <1>3, AppendProperties
  <1>7. Append(m, c)[Len(s) - k + 1] = c
    BY <1>1, <1>3, AppendProperties
  <1>8. QED
    BY <1>4, <1>5, <1>6, <1>7 DEF m

\* A pop removes exactly the top connection from a stack without duplicates.
LEMMA PopStacked ==
  ASSUME TypeOK, OneKeeper, Pop
  PROVE  /\ Top \in Conns /\ Top \in Stacked
         /\ idle' \in Seq(Conns)
         /\ old' \in 0 .. Len(idle') /\ expired' \in 0 .. old'
         /\ Stacked' = Stacked \ {Top}
         /\ \A i, j \in 1 .. Len(idle') : idle'[i] = idle'[j] => i = j
  <1> DEFINE n == Len(idle)
  <1>1. /\ idle \in Seq(Conns) /\ idle # <<>>
        /\ idle' = SubSeq(idle, 1, n - 1)
    BY DEF TypeOK, Pop
  <1>2. /\ n \in Nat /\ n >= 1
        /\ idle[n] \in Conns
        /\ idle' \in Seq(Conns)
        /\ Len(idle') = n - 1
        /\ \A i \in 1 .. (n - 1) : idle'[i] = idle[i]
    BY <1>1, PopStack
  <1> HIDE DEF n
  <1>3. \A i, j \in 1 .. n : idle[i] = idle[j] => i = j
    BY DEF OneKeeper, n
  <1>4. Stacked = {idle[i] : i \in 1 .. n} /\ Top = idle[n]
    BY DEF Stacked, Top, n
  <1>5. Stacked' = {idle'[i] : i \in 1 .. (n - 1)}
    BY <1>2 DEF Stacked
  <1>6. Stacked' = Stacked \ {Top}
    BY <1>2, <1>3, <1>4, <1>5
  <1>7. old' \in 0 .. Len(idle') /\ expired' \in 0 .. old'
    BY <1>2 DEF TypeOK, Pop, n
  <1>8. \A i, j \in 1 .. Len(idle') : idle'[i] = idle'[j] => i = j
    BY <1>2, <1>3
  <1>9. Top \in Conns /\ Top \in Stacked
    BY <1>2, <1>4
  <1>10. QED
    BY <1>2, <1>6, <1>7, <1>8, <1>9

\* put_back removes exactly the overdue connections and adds the returned one.
LEMMA PutBackStacked ==
  ASSUME TypeOK, OneKeeper, NEW c \in Conns, c \notin Stacked, PutBack(c)
  PROVE  /\ Overdue \subseteq Stacked
         /\ idle' \in Seq(Conns)
         /\ old' \in 0 .. Len(idle') /\ expired' \in 0 .. old'
         /\ Stacked' = (Stacked \ Overdue) \cup {c}
         /\ \A i, j \in 1 .. Len(idle') : idle'[i] = idle'[j] => i = j
  <1> DEFINE n == Len(idle)
             k == expired
  <1>1. /\ idle \in Seq(Conns) /\ n \in Nat
        /\ k \in 0 .. n /\ old \in k .. n
    BY LenProperties DEF TypeOK
  <1>2. idle' = Append(SubSeq(idle, k + 1, n), c)
    BY DEF PutBack
  <1>3. /\ idle' \in Seq(Conns)
        /\ Len(idle') = n - k + 1
        /\ \A i \in 1 .. (n - k) : idle'[i] = idle[i + k]
        /\ idle'[n - k + 1] = c
    BY <1>1, <1>2, PutBackStack
  <1>4. \A i, j \in 1 .. n : idle[i] = idle[j] => i = j
    BY DEF OneKeeper
  <1>5. /\ Stacked = {idle[i] : i \in 1 .. n}
        /\ Overdue = {idle[i] : i \in 1 .. k}
    BY DEF Stacked, Overdue
  <1>6. old' \in 0 .. Len(idle') /\ expired' \in 0 .. old'
    BY <1>1, <1>3 DEF PutBack
  <1>7. Stacked' = {idle'[i] : i \in 1 .. n - k + 1}
    BY <1>3 DEF Stacked
  <1> HIDE DEF n, k
  <1>8. Overdue \subseteq Stacked
    BY <1>1, <1>5
  <1>9. \A i \in 1 .. n - k : i + k \in 1 .. n /\ i + k \notin 1 .. k
    BY <1>1
  <1>10. \A j \in 1 .. n :
           j \notin 1 .. k => j - k \in 1 .. n - k /\ (j - k) + k = j
    BY <1>1
  <1>11. \A x \in Stacked \ Overdue : \E i \in 1 .. n - k : idle'[i] = x
    BY <1>3, <1>5, <1>10
  <1>12. ASSUME NEW i \in 1 .. n - k
         PROVE  idle'[i] \in Stacked \ Overdue
    <2>1. idle'[i] = idle[i + k]
      BY <1>3
    <2>2. idle[i + k] \in Stacked
      BY <1>5, <1>9
    <2>3. ASSUME NEW j \in 1 .. k, idle[j] = idle[i + k]
          PROVE  FALSE
      <3>1. j \in 1 .. n
        BY <1>1
      <3>2. j = i + k
        BY <1>4, <1>9, <2>3, <3>1
      <3>3. QED
        BY <1>9, <3>2
    <2>4. QED
      BY <1>5, <2>1, <2>2, <2>3
  <1>13. \A i \in 1 .. n - k + 1 : i \in 1 .. n - k \/ i = n - k + 1
    BY <1>1
  <1>14. \A i \in 1 .. n - k : i \in 1 .. n - k + 1
    BY <1>1
  <1>15. n - k + 1 \in 1 .. n - k + 1
    BY <1>1
  <1>16. Stacked' = (Stacked \ Overdue) \cup {c}
    BY <1>3, <1>7, <1>11, <1>12, <1>13, <1>14, <1>15
  <1>17. ASSUME NEW i \in 1 .. n - k + 1, NEW j \in 1 .. n - k + 1,
                idle'[i] = idle'[j]
         PROVE  i = j
    <2>1. CASE i \in 1 .. n - k /\ j \in 1 .. n - k
      <3>1. idle[i + k] = idle[j + k]
        BY <1>3, <1>17, <2>1
      <3>2. i + k = j + k
        BY <1>4, <1>9, <2>1, <3>1
      <3>3. QED
        BY <1>1, <3>2
    <2>2. CASE i \in 1 .. n - k /\ j = n - k + 1
      BY <1>3, <1>12, <1>17, <2>2
    <2>3. CASE j \in 1 .. n - k /\ i = n - k + 1
      BY <1>3, <1>12, <1>17, <2>3
    <2>4. QED
      BY <1>13, <2>1, <2>2, <2>3
  <1>18. QED
    BY <1>3, <1>6, <1>8, <1>16, <1>17

-----------------------------------------------------------------------------
(* Steps *)

\* What a task that owns a connection may rely on.
LEMMA Leased ==
  ASSUME Inv, NEW t \in Tasks, pc[t] \in Owning
  PROVE  /\ held[t] \in Conns /\ held[t] # NoConn
         /\ held[t] \in open /\ held[t] \notin Stacked
         /\ \A u \in Tasks \ {t} : held[u] # held[t]
  <1>1. held[t] # NoConn /\ held[t] \in Conns
    BY DEF Inv, TypeOK, Custody
  <1>2. QED
    BY <1>1 DEF Inv, OneKeeper

\* A lease that goes back ends on the stack instead of the overdue ones.
LEMMA Returned ==
  ASSUME Inv, NEW t \in Tasks, pc[t] \in Owning, Return(t)
  PROVE  /\ Overdue \subseteq Stacked
         /\ idle' \in Seq(Conns)
         /\ old' \in 0 .. Len(idle') /\ expired' \in 0 .. old'
         /\ Stacked' = (Stacked \ Overdue) \cup {held[t]}
         /\ \A i, j \in 1 .. Len(idle') : idle'[i] = idle'[j] => i = j
         /\ pc' = [pc EXCEPT ![t] = "leaving"]
         /\ held' = [held EXCEPT ![t] = NoConn]
  <1>1. held[t] \in Conns /\ held[t] \notin Stacked
    BY Leased
  <1>2. PutBack(held[t])
    BY DEF Return
  <1>3. QED
    BY <1>1, <1>2, PutBackStacked DEF Inv, Return, Goto

\* Actions by what they touch: only the phases, ...
PhaseStep(t) ==
  \/ Ask(t) \/ Acquire(t) \/ Exhausted(t) \/ PopNone(t) \/ PingOk(t)
  \/ ConnectFails(t) \/ DropWaiting(t) \/ BeginReset(t) \/ DropPermit(t)

\* ... an idle connection taken off the stack, ...
PopStep(t) == PopExpired(t) \/ PopStale(t) \/ PopFresh(t)

\* ... an owned connection closed, ...
LossStep(t) ==
  \/ PingFails(t) \/ DropGet(t) \/ ResetFails(t) \/ ResetCutOff(t)
  \/ Discard(t) \/ CloseAbandoned(t)

\* ... or an owned connection put back.
ReturnStep(t) == Release(t) \/ ResetOk(t) \/ DropUnused(t)

CancelStep(t) == Abandon(t) \/ CancelLands(t) \/ CancelFails(t)

LEMMA StepCases ==
  ASSUME [Next]_vars
  PROVE  \/ \E t \in Tasks :
              \/ PhaseStep(t) \/ PopStep(t) \/ LossStep(t) \/ ReturnStep(t)
              \/ CancelStep(t) \/ Use(t) \/ \E c \in Conns : Connect(t, c)
         \/ \E c \in Conns : StatementEnds(c)
         \/ Elapse
         \/ UNCHANGED vars
  BY DEF Next, Get, GiveBack, WindDown, PhaseStep, PopStep, LossStep,
         ReturnStep, CancelStep

\* Closing connections keeps what is open, dirty, running and lingering typed.
LEMMA Closed ==
  ASSUME TypeOK, NEW cs, NEW busy, cs \cap busy \subseteq Conns,
         CloseBusy(cs, busy)
  PROVE  /\ open' \in SUBSET Conns
         /\ dirty' \in SUBSET open' /\ running' \in SUBSET open'
         /\ lingering' \in SUBSET (Conns \ open')
  BY DEF TypeOK, CloseBusy

LEMMA TypeStep ==
  ASSUME Inv, [Next]_vars
  PROVE  TypeOK'
  <1> USE DEF poolVars, dbVars
  <1>0. TypeOK /\ OneKeeper
    BY DEF Inv
  <1>1. ASSUME NEW t \in Tasks, PhaseStep(t)
        PROVE  TypeOK'
    BY <1>0, <1>1 DEF TypeOK, PhaseStep, Ask, Acquire, Exhausted, PopNone,
       PingOk, ConnectFails, DropWaiting, BeginReset, DropPermit, Goto, Phases
  <1>2. ASSUME NEW t \in Tasks, PopStep(t)
        PROVE  TypeOK'
    <2>1. Pop
      BY <1>2 DEF PopStep, PopExpired, PopStale, PopFresh
    <2>2. /\ Top \in Conns
          /\ idle' \in Seq(Conns)
          /\ old' \in 0 .. Len(idle') /\ expired' \in 0 .. old'
      BY <1>0, <2>1, PopStacked
    <2>3. QED
      BY <1>0, <1>2, <2>2 DEF TypeOK, PopStep, PopExpired, PopStale, PopFresh,
         Goto, Phases, Close, CloseBusy
  <1>3. ASSUME NEW t \in Tasks, LossStep(t)
        PROVE  TypeOK'
    <2>1. \E busy : /\ CloseBusy({held[t]}, busy)
                    /\ {held[t]} \cap busy \subseteq Conns
      <3>1. CASE ResetCutOff(t)
        <4>1. held[t] \in Conns
          BY <3>1, Leased DEF ResetCutOff, Owning
        <4>2. QED
          BY <3>1, <4>1 DEF ResetCutOff
      <3>2. CASE ~ResetCutOff(t)
        <4>1. CloseBusy({held[t]}, running)
          BY <1>3, <3>2 DEF LossStep, PingFails, DropGet, ResetFails, Discard,
             CloseAbandoned, Lose, Close
        <4>2. running \subseteq Conns
          BY <1>0 DEF TypeOK
        <4>3. QED
          BY <4>1, <4>2
      <3>3. QED
        BY <3>1, <3>2
    <2>2. /\ open' \in SUBSET Conns
          /\ dirty' \in SUBSET open' /\ running' \in SUBSET open'
          /\ lingering' \in SUBSET (Conns \ open')
      BY <1>0, <2>1, Closed
    <2>3. QED
      BY <1>0, <1>3, <2>2 DEF TypeOK, LossStep, PingFails, DropGet, ResetFails,
         ResetCutOff, Discard, CloseAbandoned, Lose, Goto, Phases
  <1>4. ASSUME NEW t \in Tasks, ReturnStep(t)
        PROVE  TypeOK'
    <2>1. pc[t] \in Owning /\ Return(t)
      BY <1>4 DEF ReturnStep, Release, ResetOk, DropUnused, Owning
    <2>2. /\ idle' \in Seq(Conns)
          /\ old' \in 0 .. Len(idle') /\ expired' \in 0 .. old'
          /\ pc' = [pc EXCEPT ![t] = "leaving"]
          /\ held' = [held EXCEPT ![t] = NoConn]
      BY <2>1, Returned
    <2>3. /\ open' \in SUBSET Conns
          /\ dirty' \in SUBSET open' /\ running' \in SUBSET open'
          /\ lingering' \in SUBSET (Conns \ open')
          /\ UNCHANGED target
      <3>1. CASE ResetOk(t)
        BY <1>0, <3>1 DEF TypeOK, ResetOk
      <3>2. CASE Release(t) \/ DropUnused(t)
        <4>1. CloseBusy(Overdue, running) /\ UNCHANGED target
          BY <3>2 DEF Release, DropUnused, Close
        <4>2. Overdue \cap running \subseteq Conns
          BY <1>0 DEF TypeOK
        <4>3. QED
          BY <1>0, <4>1, <4>2, Closed
      <3>3. QED
        BY <1>4, <3>1, <3>2 DEF ReturnStep
    <2>4. QED
      BY <1>0, <2>2, <2>3 DEF TypeOK, Phases
  <1>5. ASSUME NEW t \in Tasks, CancelStep(t)
        PROVE  TypeOK'
    BY <1>0, <1>5 DEF TypeOK, CancelStep, Abandon, CancelLands, CancelFails,
       Goto, Phases
  <1>6. ASSUME NEW t \in Tasks, Use(t)
        PROVE  TypeOK'
    <2>1. held[t] \in open
      BY <1>6, Leased DEF Use, Owning
    <2>2. QED
      BY <1>0, <1>6, <2>1 DEF TypeOK, Use, Goto, Phases
  <1>7. ASSUME NEW t \in Tasks, NEW c \in Conns, Connect(t, c)
        PROVE  TypeOK'
    BY <1>0, <1>7 DEF TypeOK, Connect, Goto, Phases
  <1>8. ASSUME NEW c \in Conns, StatementEnds(c)
        PROVE  TypeOK'
    BY <1>0, <1>8 DEF TypeOK, StatementEnds
  <1>9. CASE Elapse
    <2>1. Len(idle) \in Nat
      BY <1>0, LenProperties DEF TypeOK
    <2>2. QED
      BY <1>0, <1>9, <2>1 DEF TypeOK, Elapse
  <1>10. CASE UNCHANGED vars
    BY <1>0, <1>10 DEF TypeOK, vars
  <1>11. QED
    BY <1>1, <1>2, <1>3, <1>4, <1>5, <1>6, <1>7, <1>8, <1>9, <1>10, StepCases

LEMMA CustodyStep ==
  ASSUME Inv, [Next]_vars
  PROVE  Custody'
  <1> USE DEF poolVars, dbVars
  <1>0. /\ TypeOK /\ Custody /\ NoConn \notin Conns
        /\ \A t \in Tasks : held[t] # NoConn <=> pc[t] \in Owning
        /\ \A t \in Tasks : target[t] # NoConn =>
             pc[t] = "cancelling" /\ target[t] = held[t]
    BY PoolAssumption DEF Inv, Custody
  <1>1. ASSUME NEW t \in Tasks, PhaseStep(t)
        PROVE  Custody'
    BY <1>0, <1>1 DEF Custody, TypeOK, Owning, PhaseStep, Ask, Acquire,
       Exhausted, PopNone, PingOk, ConnectFails, DropWaiting, BeginReset,
       DropPermit, Goto
  <1>2. ASSUME NEW t \in Tasks, PopStep(t)
        PROVE  Custody'
    <2>1. Top \in Conns
      BY <1>2, PopStacked DEF Inv, PopStep, PopExpired, PopStale, PopFresh
    <2>2. QED
      BY <1>0, <1>2, <2>1 DEF Custody, TypeOK, Owning, PopStep, PopExpired,
         PopStale, PopFresh, Goto
  <1>3. ASSUME NEW t \in Tasks, LossStep(t)
        PROVE  Custody'
    BY <1>0, <1>3 DEF Custody, TypeOK, Owning, LossStep, PingFails, DropGet,
       ResetFails, ResetCutOff, Discard, CloseAbandoned, Lose, Goto
  <1>4. ASSUME NEW t \in Tasks, ReturnStep(t)
        PROVE  Custody'
    BY <1>0, <1>4 DEF Custody, TypeOK, Owning, ReturnStep, Release, ResetOk,
       DropUnused, Return, Goto
  <1>5. ASSUME NEW t \in Tasks, CancelStep(t)
        PROVE  Custody'
    BY <1>0, <1>5 DEF Custody, TypeOK, Owning, CancelStep, Abandon,
       CancelLands, CancelFails, Goto
  <1>6. ASSUME NEW t \in Tasks, Use(t)
        PROVE  Custody'
    BY <1>0, <1>6 DEF Custody, TypeOK, Owning, Use, Goto
  <1>7. ASSUME NEW t \in Tasks, NEW c \in Conns, Connect(t, c)
        PROVE  Custody'
    BY <1>0, <1>7 DEF Custody, TypeOK, Owning, Connect, Goto
  <1>8. CASE (\E c \in Conns : StatementEnds(c)) \/ Elapse \/ UNCHANGED vars
    BY <1>0, <1>8 DEF Custody, StatementEnds, Elapse, vars
  <1>9. QED
    BY <1>1, <1>2, <1>3, <1>4, <1>5, <1>6, <1>7, <1>8, StepCases

LEMMA KeeperStep ==
  ASSUME Inv, [Next]_vars
  PROVE  OneKeeper'
  <1> USE DEF poolVars, dbVars
  <1> DEFINE Distinct == \A i, j \in 1 .. Len(idle) : idle[i] = idle[j] => i = j
             Apart == \A t \in Tasks : held[t] # NoConn =>
                        /\ held[t] \notin Stacked
                        /\ \A u \in Tasks \ {t} : held[u] # held[t]
             Kept == open = Stacked \cup ({held[t] : t \in Tasks} \ {NoConn})
  <1>0. TypeOK /\ Custody /\ OneKeeper /\ NoConn \notin Conns
    BY PoolAssumption DEF Inv
  <1>a. Distinct /\ Apart /\ Kept
    BY <1>0 DEF OneKeeper
  <1>b. Distinct' /\ Apart' /\ Kept' => OneKeeper'
    BY DEF OneKeeper
  <1>c. UNCHANGED idle => Distinct' /\ Stacked' = Stacked
    BY <1>a DEF Stacked
  <1>d. Stacked \subseteq Conns /\ held \in [Tasks -> Conns \cup {NoConn}]
    BY <1>0, ElementOfSeq DEF TypeOK, Stacked
  <1> HIDE DEF Distinct
  <1>1. ASSUME NEW t \in Tasks, PhaseStep(t) \/ CancelStep(t) \/ Use(t)
        PROVE  OneKeeper'
    <2>1. UNCHANGED <<idle, held, open>>
      BY <1>1 DEF PhaseStep, Ask, Acquire, Exhausted, PopNone, PingOk,
         ConnectFails, DropWaiting, BeginReset, DropPermit, CancelStep,
         Abandon, CancelLands, CancelFails, Use
    <2>2. QED
      BY <1>a, <1>b, <1>c, <2>1
  <1>2. ASSUME NEW t \in Tasks, PopStep(t)
        PROVE  OneKeeper'
    <2>1. Pop /\ pc[t] = "popping"
      BY <1>2 DEF PopStep, PopExpired, PopStale, PopFresh
    <2>2. Top \in Stacked /\ Top \in Conns
          /\ Stacked' = Stacked \ {Top} /\ Distinct'
      BY <1>0, <2>1, PopStacked DEF Distinct
    <2>3. held[t] = NoConn
      BY <1>0, <2>1 DEF Custody, Owning
    <2>4. CASE PopExpired(t)
      <3>1. held' = held /\ open' = open \ {Top}
        BY <2>4 DEF PopExpired, Close, CloseBusy
      <3>2. Apart' /\ Kept'
        BY <1>a, <2>2, <3>1
      <3>3. QED
        BY <1>b, <2>2, <3>2
    <2>5. CASE PopStale(t) \/ PopFresh(t)
      <3>1. held' = [held EXCEPT ![t] = Top] /\ open' = open
        BY <2>5 DEF PopStale, PopFresh
      <3>2. held'[t] = Top /\ \A u \in Tasks \ {t} : held'[u] = held[u]
        BY <1>d, <3>1
      <3>3. Apart'
        BY <1>0, <1>a, <1>d, <2>2, <3>2
      <3>4. Kept'
        BY <1>0, <1>a, <1>d, <2>2, <2>3, <3>1, <3>2
      <3>5. QED
        BY <1>b, <2>2, <3>3, <3>4
    <2>6. QED
      BY <1>2, <2>4, <2>5 DEF PopStep
  <1>3. ASSUME NEW t \in Tasks, LossStep(t)
        PROVE  OneKeeper'
    <2>1. /\ held' = [held EXCEPT ![t] = NoConn]
          /\ open' = open \ {held[t]}
          /\ UNCHANGED idle
      BY <1>3 DEF LossStep, PingFails, DropGet, ResetFails, ResetCutOff,
         Discard, CloseAbandoned, Lose, Close, CloseBusy
    <2>2. held'[t] = NoConn /\ \A u \in Tasks \ {t} : held'[u] = held[u]
      BY <1>d, <2>1
    <2>3. Apart'
      BY <1>a, <1>c, <2>1, <2>2
    <2>4. Kept'
      BY <1>0, <1>a, <1>c, <1>d, <2>1, <2>2
    <2>5. QED
      BY <1>b, <1>c, <2>1, <2>3, <2>4
  <1>4. ASSUME NEW t \in Tasks, ReturnStep(t)
        PROVE  OneKeeper'
    <2>1. pc[t] \in Owning /\ Return(t) /\ open' = open \ Overdue
      BY <1>4 DEF ReturnStep, Release, ResetOk, DropUnused, Owning, Close,
         CloseBusy
    <2>2. /\ Overdue \subseteq Stacked
          /\ Stacked' = (Stacked \ Overdue) \cup {held[t]}
          /\ held' = [held EXCEPT ![t] = NoConn]
          /\ Distinct'
      BY <2>1, Returned DEF Distinct
    <2>3. held'[t] = NoConn /\ \A u \in Tasks \ {t} : held'[u] = held[u]
      BY <1>d, <2>2
    <2>4. held[t] # NoConn /\ held[t] \notin Stacked
      BY <2>1, Leased
    <2>5. Apart'
      BY <1>a, <2>2, <2>3, <2>4
    <2>6. Kept'
      BY <1>0, <1>a, <1>d, <2>1, <2>2, <2>3, <2>4
    <2>7. QED
      BY <1>b, <2>2, <2>5, <2>6
  <1>5. ASSUME NEW t \in Tasks, NEW c \in Conns, Connect(t, c)
        PROVE  OneKeeper'
    <2>1. /\ held' = [held EXCEPT ![t] = c] /\ open' = open \cup {c}
          /\ c \notin open /\ pc[t] = "connecting" /\ UNCHANGED idle
      BY <1>5 DEF Connect
    <2>2. held[t] = NoConn
      BY <1>0, <2>1 DEF Custody, Owning
    <2>3. held'[t] = c /\ \A u \in Tasks \ {t} : held'[u] = held[u]
      BY <1>d, <2>1
    <2>4. Apart'
      BY <1>0, <1>a, <1>c, <1>d, <2>1, <2>3
    <2>5. Kept'
      BY <1>0, <1>a, <1>c, <1>d, <2>1, <2>2, <2>3
    <2>6. QED
      BY <1>b, <1>c, <2>1, <2>4, <2>5
  <1>6. CASE (\E c \in Conns : StatementEnds(c)) \/ Elapse \/ UNCHANGED vars
    <2>1. UNCHANGED <<idle, held, open>>
      BY <1>6 DEF StatementEnds, Elapse, vars
    <2>2. QED
      BY <1>a, <1>b, <1>c, <2>1
  <1>7. QED
    BY <1>1, <1>2, <1>3, <1>4, <1>5, <1>6, StepCases

LEMMA QuietStep ==
  ASSUME Inv, [Next]_vars
  PROVE  Quiet'
  <1> USE DEF poolVars, dbVars
  <1>0. TypeOK /\ Custody /\ OneKeeper /\ Quiet /\ NoConn \notin Conns
    BY PoolAssumption DEF Inv
  <1>a. /\ Stacked \cap running = {}
        /\ \A t \in Tasks :
             pc[t] \in {"pinging", "unused", "resetting"} =>
               held[t] \notin running
        /\ running \subseteq open
    BY <1>0 DEF Quiet, IdleIsQuiet, TypeOK
  <1>b. UNCHANGED idle => Stacked' = Stacked
    BY DEF Stacked
  <1>1. ASSUME NEW t \in Tasks, PhaseStep(t)
        PROVE  Quiet'
    <2>1. UNCHANGED <<idle, running, held>>
      BY <1>1 DEF PhaseStep, Ask, Acquire, Exhausted, PopNone, PingOk,
         ConnectFails, DropWaiting, BeginReset, DropPermit
    <2>2. \A u \in Tasks : pc'[u] \in {"pinging", "unused", "resetting"} =>
            held[u] \notin running
      BY <1>0, <1>1, <1>a DEF TypeOK, PhaseStep, Ask, Acquire, Exhausted,
         PopNone, PingOk, ConnectFails, DropWaiting, BeginReset, DropPermit,
         Goto
    <2>3. QED
      BY <1>a, <1>b, <2>1, <2>2 DEF Quiet, IdleIsQuiet
  <1>2. ASSUME NEW t \in Tasks, PopStep(t)
        PROVE  Quiet'
    <2>1. Pop
      BY <1>2 DEF PopStep, PopExpired, PopStale, PopFresh
    <2>2. Top \in Stacked /\ Stacked' = Stacked \ {Top}
      BY <1>0, <2>1, PopStacked
    <2>3. running' \subseteq running
      BY <1>2 DEF PopStep, PopExpired, PopStale, PopFresh, Close, CloseBusy
    <2>4. \A u \in Tasks : pc'[u] \in {"pinging", "unused", "resetting"} =>
            held'[u] \notin running
      BY <1>0, <1>2, <1>a, <2>2 DEF TypeOK, PopStep, PopExpired, PopStale,
         PopFresh, Goto
    <2>5. QED
      BY <1>a, <2>2, <2>3, <2>4 DEF Quiet, IdleIsQuiet
  <1>3. ASSUME NEW t \in Tasks, LossStep(t)
        PROVE  Quiet'
    <2>1. running' \subseteq running /\ UNCHANGED idle
      BY <1>3 DEF LossStep, PingFails, DropGet, ResetFails, ResetCutOff,
         Discard, CloseAbandoned, Lose, Close, CloseBusy
    <2>2. \A u \in Tasks : pc'[u] \in {"pinging", "unused", "resetting"} =>
            held'[u] \notin running
      BY <1>0, <1>3, <1>a DEF TypeOK, LossStep, PingFails, DropGet,
         ResetFails, ResetCutOff, Discard, CloseAbandoned, Lose, Goto
    <2>3. QED
      BY <1>a, <1>b, <2>1, <2>2 DEF Quiet, IdleIsQuiet
  <1>4. ASSUME NEW t \in Tasks, ReturnStep(t)
        PROVE  Quiet'
    <2>1. /\ pc[t] \in Owning /\ Return(t)
          /\ held[t] \notin running /\ running' \subseteq running
      BY <1>4, <1>a DEF ReturnStep, Release, ResetOk, DropUnused, Owning,
         Close, CloseBusy
    <2>2. /\ Stacked' = (Stacked \ Overdue) \cup {held[t]}
          /\ pc' = [pc EXCEPT ![t] = "leaving"]
          /\ held' = [held EXCEPT ![t] = NoConn]
      BY <2>1, Returned
    <2>3. \A u \in Tasks : pc'[u] \in {"pinging", "unused", "resetting"} =>
            held'[u] \notin running
      BY <1>0, <1>a, <2>2 DEF TypeOK
    <2>4. QED
      BY <1>a, <2>1, <2>2, <2>3 DEF Quiet, IdleIsQuiet
  <1>5. ASSUME NEW t \in Tasks, CancelStep(t)
        PROVE  Quiet'
    <2>1. running' \subseteq running /\ UNCHANGED <<idle, held>>
      BY <1>5 DEF CancelStep, Abandon, CancelLands, CancelFails
    <2>2. \A u \in Tasks : pc'[u] \in {"pinging", "unused", "resetting"} =>
            pc[u] = pc'[u]
      BY <1>0, <1>5 DEF TypeOK, CancelStep, Abandon, CancelLands, CancelFails,
         Goto
    <2>3. QED
      BY <1>a, <1>b, <2>1, <2>2 DEF Quiet, IdleIsQuiet
  <1>6. ASSUME NEW t \in Tasks, Use(t)
        PROVE  Quiet'
    <2>1. /\ pc' = [pc EXCEPT ![t] = "used"]
          /\ running' = running \cup {held[t]}
          /\ pc[t] \in Owning /\ UNCHANGED <<idle, held>>
      BY <1>6 DEF Use, Goto, Owning
    <2>2. held[t] \notin Stacked /\ \A u \in Tasks \ {t} : held[u] # held[t]
      BY <2>1, Leased
    <2>3. QED
      BY <1>0, <1>a, <1>b, <2>1, <2>2 DEF TypeOK, Quiet, IdleIsQuiet
  <1>7. ASSUME NEW t \in Tasks, NEW c \in Conns, Connect(t, c)
        PROVE  Quiet'
    <2>1. /\ pc' = [pc EXCEPT ![t] = "unused"]
          /\ held' = [held EXCEPT ![t] = c]
          /\ c \notin open /\ UNCHANGED <<idle, running>>
      BY <1>7 DEF Connect, Goto
    <2>2. QED
      BY <1>0, <1>a, <1>b, <2>1 DEF TypeOK, Quiet, IdleIsQuiet
  <1>8. CASE (\E c \in Conns : StatementEnds(c)) \/ Elapse \/ UNCHANGED vars
    <2>1. running' \subseteq running /\ UNCHANGED <<idle, pc, held>>
      BY <1>8 DEF StatementEnds, Elapse, vars
    <2>2. QED
      BY <1>a, <1>b, <2>1 DEF Quiet, IdleIsQuiet
  <1>9. QED
    BY <1>1, <1>2, <1>3, <1>4, <1>5, <1>6, <1>7, <1>8, StepCases

-----------------------------------------------------------------------------
(* Counting *)

Holding == {t \in Tasks : held[t] # NoConn}

\* No more connections are owned than tasks own one.
LEMMA OwnedCount ==
  ASSUME Inv, Stacked = {}
  PROVE  Cardinality(open) <= Cardinality(Holding)
  <1> DEFINE f == [t \in Holding |-> held[t]]
  <1>1. IsFiniteSet(Holding)
    BY PoolAssumption, FS_Subset DEF Holding
  <1>2. open = {held[t] : t \in Tasks} \ {NoConn}
    BY DEF Inv, OneKeeper
  <1>3. f \in [Holding -> open] /\ \A c \in open : \E t \in Holding : f[t] = c
    BY <1>2 DEF Holding
  <1>4. f \in Surjection(Holding, open)
    BY <1>3 DEF Surjection
  <1>5. QED
    BY <1>1, <1>4, FS_Surjection

\* Steps that open nothing and take no permit keep the budget.
LEMMA Shrinks ==
  ASSUME Inv, open' \subseteq open, PermitHolders' \subseteq PermitHolders,
         Connecting' \subseteq Connecting
  PROVE  Budget'
  <1>1. IsFiniteSet(PermitHolders) /\ IsFiniteSet(Connecting)
    BY PoolAssumption, FS_Subset DEF PermitHolders, Connecting
  <1>2. IsFiniteSet(open) /\ Permits \in Nat
    BY PoolAssumption DEF Inv, Budget, Permits
  <1>3. /\ IsFiniteSet(open') /\ Cardinality(open') <= Cardinality(open)
        /\ Cardinality(PermitHolders') <= Cardinality(PermitHolders)
        /\ IsFiniteSet(Connecting') /\ IsFiniteSet(PermitHolders')
        /\ Cardinality(Connecting') <= Cardinality(Connecting)
    BY <1>1, <1>2, FS_Subset
  <1>4. /\ Cardinality(open) \in Nat /\ Cardinality(open') \in Nat
        /\ Cardinality(Connecting) \in Nat /\ Cardinality(Connecting') \in Nat
        /\ Cardinality(PermitHolders) \in Nat
        /\ Cardinality(PermitHolders') \in Nat
    BY <1>1, <1>2, <1>3, FS_CardinalityType
  <1>5. Permits' = Permits
    BY DEF Permits
  <1>6. QED
    BY <1>2, <1>3, <1>4, <1>5 DEF Inv, Budget

\* Nothing is idle when a task sets out to connect, so every open connection
\* has an owner, and owners and connecting tasks hold a permit each.
LEMMA RoomToConnect ==
  ASSUME Inv, NEW t \in Tasks, PopNone(t)
  PROVE  Cardinality(open) + Cardinality(Connecting) + 1 <= Permits
  <1>1. Stacked = {}
    BY DEF PopNone, Stacked
  <1>2. /\ pc[t] = "popping"
        /\ \A u \in Tasks : held[u] # NoConn => pc[u] \in Owning
    BY DEF PopNone, Inv, Custody
  <1> DEFINE H == Holding
             C == Connecting
             P == PermitHolders
  <1>3. /\ H \cap C = {} /\ t \notin H \cup C
        /\ (H \cup C) \cup {t} \subseteq P
    BY <1>2 DEF Holding, Connecting, PermitHolders, Owning
  <1>4. IsFiniteSet(H) /\ IsFiniteSet(C) /\ IsFiniteSet(P)
    BY PoolAssumption, FS_Subset DEF Holding, Connecting, PermitHolders
  <1>5. Cardinality(open) <= Cardinality(H)
    BY <1>1, OwnedCount
  <1>6. Cardinality(P) <= Permits /\ Permits \in Nat /\ IsFiniteSet(open)
    BY PoolAssumption DEF Inv, Budget, Permits
  <1> HIDE DEF H, C, P
  <1>7. /\ IsFiniteSet(H \cup C)
        /\ Cardinality(H \cup C)
             = Cardinality(H) + Cardinality(C) - Cardinality(H \cap C)
    BY <1>4, FS_Union
  <1>8. Cardinality(H \cap C) = 0
    BY <1>3, FS_EmptySet
  <1>9. Cardinality((H \cup C) \cup {t}) = Cardinality(H \cup C) + 1
    BY <1>3, <1>7, FS_AddElement
  <1>10. Cardinality((H \cup C) \cup {t}) <= Cardinality(P)
    BY <1>3, <1>4, FS_Subset
  <1>11. /\ Cardinality(H) \in Nat /\ Cardinality(C) \in Nat
         /\ Cardinality(P) \in Nat /\ Cardinality(open) \in Nat
         /\ Cardinality(H \cup C) \in Nat
    BY <1>4, <1>6, <1>7, FS_CardinalityType
  <1>12. Cardinality(open) + Cardinality(C) + 1 <= Permits
    BY <1>5, <1>6, <1>7, <1>8, <1>9, <1>10, <1>11
  <1>13. QED
    BY <1>12 DEF C

LEMMA BudgetStep ==
  ASSUME Inv, [Next]_vars
  PROVE  Budget'
  <1> USE DEF poolVars, dbVars
  <1>0. /\ pc \in [Tasks -> Phases] /\ Budget
        /\ Permits \in Nat /\ Permits' = Permits
        /\ IsFiniteSet(PermitHolders) /\ IsFiniteSet(Connecting)
    BY PoolAssumption, FS_Subset
       DEF Inv, TypeOK, PermitHolders, Connecting, Permits
  <1>a. /\ Cardinality(open) \in Nat /\ Cardinality(Connecting) \in Nat
        /\ Cardinality(PermitHolders) \in Nat
    BY <1>0, FS_CardinalityType DEF Budget
  <1>1. ASSUME NEW t \in Tasks, PhaseStep(t)
        PROVE  Budget'
    <2>1. CASE Acquire(t)
      <3>1. /\ pc' = [pc EXCEPT ![t] = "popping"] /\ pc[t] = "waiting"
            /\ Cardinality(PermitHolders) < Permits /\ open' = open
        BY <2>1 DEF Acquire, Goto
      <3>2. /\ PermitHolders' = PermitHolders \cup {t} /\ t \notin PermitHolders
            /\ Connecting' = Connecting
        BY <1>0, <3>1 DEF PermitHolders, Connecting
      <3>3. Cardinality(PermitHolders') = Cardinality(PermitHolders) + 1
        BY <1>0, <3>2, FS_AddElement
      <3>4. QED
        BY <1>0, <1>a, <3>1, <3>2, <3>3 DEF Budget
    <2>2. CASE PopNone(t)
      <3>1. /\ pc' = [pc EXCEPT ![t] = "connecting"] /\ pc[t] = "popping"
            /\ open' = open
        BY <2>2 DEF PopNone, Goto
      <3>2. /\ PermitHolders' = PermitHolders
            /\ Connecting' = Connecting \cup {t} /\ t \notin Connecting
        BY <1>0, <3>1 DEF PermitHolders, Connecting
      <3>3. Cardinality(Connecting') = Cardinality(Connecting) + 1
        BY <1>0, <3>2, FS_AddElement
      <3>4. Cardinality(open) + Cardinality(Connecting) + 1 <= Permits
        BY <2>2, RoomToConnect
      <3>5. QED
        BY <1>0, <1>a, <3>1, <3>2, <3>3, <3>4 DEF Budget
    <2>3. CASE \/ Ask(t) \/ Exhausted(t) \/ PingOk(t) \/ ConnectFails(t)
               \/ DropWaiting(t) \/ BeginReset(t) \/ DropPermit(t)
      <3>1. /\ open' = open /\ PermitHolders' \subseteq PermitHolders
            /\ Connecting' \subseteq Connecting
        BY <1>0, <2>3 DEF PermitHolders, Connecting, Ask, Exhausted, PingOk,
           ConnectFails, DropWaiting, BeginReset, DropPermit, Goto
      <3>2. QED
        BY <3>1, Shrinks
    <2>4. QED
      BY <1>1, <2>1, <2>2, <2>3 DEF PhaseStep
  <1>2. ASSUME NEW t \in Tasks, PopStep(t) \/ LossStep(t)
        PROVE  Budget'
    <2>1. open' \subseteq open
      BY <1>2 DEF PopStep, PopExpired, PopStale, PopFresh, LossStep,
         PingFails, DropGet, ResetFails, ResetCutOff, Discard, CloseAbandoned,
         Lose, Close, CloseBusy
    <2>2. /\ PermitHolders' \subseteq PermitHolders
          /\ Connecting' \subseteq Connecting
      BY <1>0, <1>2 DEF PermitHolders, Connecting, PopStep, PopExpired,
         PopStale, PopFresh, LossStep, PingFails, DropGet, ResetFails,
         ResetCutOff, Discard, CloseAbandoned, Lose, Goto
    <2>3. QED
      BY <2>1, <2>2, Shrinks
  <1>3. ASSUME NEW t \in Tasks, ReturnStep(t) \/ CancelStep(t) \/ Use(t)
        PROVE  Budget'
    <2>1. open' \subseteq open
      BY <1>3 DEF ReturnStep, Release, ResetOk, DropUnused, Close, CloseBusy,
         CancelStep, Abandon, CancelLands, CancelFails, Use
    <2>2. /\ PermitHolders' \subseteq PermitHolders
          /\ Connecting' \subseteq Connecting
      BY <1>0, <1>3 DEF PermitHolders, Connecting, ReturnStep, Release,
         ResetOk, DropUnused, Return, CancelStep, Abandon, CancelLands,
         CancelFails, Use, Goto
    <2>3. QED
      BY <2>1, <2>2, Shrinks
  <1>4. ASSUME NEW t \in Tasks, NEW c \in Conns, Connect(t, c)
        PROVE  Budget'
    <2>1. /\ pc' = [pc EXCEPT ![t] = "unused"] /\ pc[t] = "connecting"
          /\ open' = open \cup {c} /\ c \notin open
      BY <1>4 DEF Connect, Goto
    <2>2. /\ PermitHolders' = PermitHolders
          /\ Connecting' = Connecting \ {t} /\ t \in Connecting
      BY <1>0, <2>1 DEF PermitHolders, Connecting
    <2>3. Cardinality(Connecting') = Cardinality(Connecting) - 1
      BY <1>0, <2>2, FS_RemoveElement
    <2>4. /\ IsFiniteSet(open')
          /\ Cardinality(open') = Cardinality(open) + 1
      BY <1>0, <2>1, FS_AddElement DEF Budget
    <2>5. QED
      BY <1>0, <1>a, <2>2, <2>3, <2>4 DEF Budget
  <1>5. CASE (\E c \in Conns : StatementEnds(c)) \/ Elapse \/ UNCHANGED vars
    <2>1. UNCHANGED <<open, pc>>
      BY <1>5 DEF StatementEnds, Elapse, vars
    <2>2. QED
      BY <2>1, Shrinks DEF PermitHolders, Connecting
  <1>6. QED
    BY <1>1, <1>2, <1>3, <1>4, <1>5, StepCases

-----------------------------------------------------------------------------
(* Leftovers *)

\* NoLeftover needs that catalog tasks, whose leases go back unreset, own clean
\* connections all along.
Clean ==
  /\ NoLeftover
  /\ \A t \in Tasks \ Scripts : held[t] # NoConn => held[t] \notin dirty

LEMMA CleanStep ==
  ASSUME Engine # "sqlite", Inv, Clean, [Next]_vars
  PROVE  Clean'
  <1> USE DEF poolVars, dbVars
  <1> DEFINE CleanStack == Stacked \cap dirty = {}
             CleanLent == \A t \in Tasks :
                            pc[t] \in {"pinging", "unused"} =>
                              held[t] \notin dirty
             CleanCatalog == \A t \in Tasks \ Scripts :
                               held[t] # NoConn => held[t] \notin dirty
  <1>0. TypeOK /\ Custody /\ OneKeeper /\ NoConn \notin Conns
    BY PoolAssumption DEF Inv
  <1>a. /\ CleanStack /\ CleanLent /\ CleanCatalog
        /\ pc \in [Tasks -> Phases] /\ held \in [Tasks -> Conns \cup {NoConn}]
        /\ dirty \subseteq open
    BY <1>0 DEF Clean, NoLeftover, TypeOK
  <1>b. CleanStack' /\ CleanLent' /\ CleanCatalog' => Clean'
    BY DEF Clean, NoLeftover
  <1>c. UNCHANGED idle => Stacked' = Stacked
    BY DEF Stacked
  <1>1. ASSUME NEW t \in Tasks, PhaseStep(t) \/ CancelStep(t)
        PROVE  Clean'
    <2>1. UNCHANGED <<idle, dirty, held>>
      BY <1>1 DEF PhaseStep, Ask, Acquire, Exhausted, PopNone, PingOk,
         ConnectFails, DropWaiting, BeginReset, DropPermit, CancelStep,
         Abandon, CancelLands, CancelFails
    <2>2. \A u \in Tasks : pc'[u] \in {"pinging", "unused"} =>
            pc[u] \in {"pinging", "unused"}
      BY <1>1, <1>a DEF PhaseStep, Ask, Acquire, Exhausted, PopNone,
         PingOk, ConnectFails, DropWaiting, BeginReset, DropPermit, CancelStep,
         Abandon, CancelLands, CancelFails, Goto
    <2>3. QED
      BY <1>a, <1>b, <1>c, <2>1, <2>2
  <1>2. ASSUME NEW t \in Tasks, PopStep(t)
        PROVE  Clean'
    <2>1. Pop
      BY <1>2 DEF PopStep, PopExpired, PopStale, PopFresh
    <2>2. Top \in Stacked /\ Stacked' = Stacked \ {Top}
      BY <1>0, <2>1, PopStacked
    <2>3. dirty' \subseteq dirty /\ Top \notin dirty
      BY <1>2, <1>a, <2>2 DEF PopStep, PopExpired, PopStale, PopFresh, Close,
         CloseBusy
    <2>4. \A u \in Tasks :
            \/ held'[u] = Top
            \/ /\ held'[u] = held[u]
               /\ pc'[u] \in {"pinging", "unused"} =>
                    pc[u] \in {"pinging", "unused"}
      BY <1>2, <1>a DEF PopStep, PopExpired, PopStale, PopFresh, Goto
    <2>5. QED
      BY <1>a, <1>b, <2>2, <2>3, <2>4
  <1>3. ASSUME NEW t \in Tasks, LossStep(t)
        PROVE  Clean'
    <2>1. dirty' \subseteq dirty /\ UNCHANGED idle
      BY <1>3 DEF LossStep, PingFails, DropGet, ResetFails, ResetCutOff,
         Discard, CloseAbandoned, Lose, Close, CloseBusy
    <2>2. /\ held' = [held EXCEPT ![t] = NoConn]
          /\ pc' \in {[pc EXCEPT ![t] = "popping"],
                      [pc EXCEPT ![t] = "leaving"]}
      BY <1>3 DEF LossStep, PingFails, DropGet, ResetFails, ResetCutOff,
         Discard, CloseAbandoned, Lose, Goto
    <2>3. \A u \in Tasks :
            /\ pc'[u] \in {"pinging", "unused"} => u # t /\ pc'[u] = pc[u]
            /\ held'[u] = IF u = t THEN NoConn ELSE held[u]
      BY <1>a, <2>2
    <2>4. QED
      BY <1>a, <1>b, <1>c, <2>1, <2>3
  <1>4. ASSUME NEW t \in Tasks, ReturnStep(t)
        PROVE  Clean'
    <2>1. pc[t] \in Owning /\ Return(t) /\ dirty' \subseteq dirty
      BY <1>4 DEF ReturnStep, Release, ResetOk, DropUnused, Owning, Close,
         CloseBusy
    <2>2. /\ Stacked' = (Stacked \ Overdue) \cup {held[t]}
          /\ pc' = [pc EXCEPT ![t] = "leaving"]
          /\ held' = [held EXCEPT ![t] = NoConn]
      BY <2>1, Returned
    <2>3. held[t] # NoConn
      BY <2>1, Leased
    <2>4. held[t] \notin dirty'
      <3>1. CASE Release(t)
        BY <1>a, <2>1, <2>3, <3>1 DEF Release
      <3>2. CASE DropUnused(t)
        BY <1>a, <2>1, <3>2 DEF DropUnused
      <3>3. CASE ResetOk(t)
        <4>1. Engine = "postgres"
          BY <3>3, PoolAssumption DEF ResetOk, Engines
        <4>2. QED
          BY <3>3, <4>1 DEF ResetOk
      <3>4. QED
        BY <1>4, <3>1, <3>2, <3>3 DEF ReturnStep
    <2>5. \A u \in Tasks :
            /\ pc'[u] \in {"pinging", "unused"} => u # t /\ pc'[u] = pc[u]
            /\ held'[u] = IF u = t THEN NoConn ELSE held[u]
      BY <1>a, <2>2
    <2>6. QED
      BY <1>a, <1>b, <2>1, <2>2, <2>4, <2>5
  <1>5. ASSUME NEW t \in Tasks, Use(t)
        PROVE  Clean'
    <2>1. /\ pc' = [pc EXCEPT ![t] = "used"]
          /\ pc[t] \in Owning /\ UNCHANGED <<idle, held>>
          /\ dirty' = IF t \in Scripts THEN dirty \cup {held[t]} ELSE dirty
      BY <1>5 DEF Use, Goto, Owning
    <2>2. held[t] \notin Stacked /\ \A u \in Tasks \ {t} : held[u] # held[t]
      BY <2>1, Leased
    <2>3. \A u \in Tasks :
            pc'[u] \in {"pinging", "unused"} => u # t /\ pc'[u] = pc[u]
      BY <1>a, <2>1
    <2>4. QED
      BY <1>a, <1>b, <1>c, <2>1, <2>2, <2>3
  <1>6. ASSUME NEW t \in Tasks, NEW c \in Conns, Connect(t, c)
        PROVE  Clean'
    <2>1. /\ pc' = [pc EXCEPT ![t] = "unused"]
          /\ held' = [held EXCEPT ![t] = c]
          /\ c \notin dirty /\ UNCHANGED <<idle, dirty>>
      BY <1>6, <1>a DEF Connect, Goto
    <2>2. \A u \in Tasks : IF u = t THEN held'[u] = c
                           ELSE held'[u] = held[u] /\ pc'[u] = pc[u]
      BY <1>a, <2>1
    <2>3. QED
      BY <1>a, <1>b, <1>c, <2>1, <2>2
  <1>7. CASE (\E c \in Conns : StatementEnds(c)) \/ Elapse \/ UNCHANGED vars
    <2>1. UNCHANGED <<idle, pc, held, dirty>>
      BY <1>7 DEF StatementEnds, Elapse, vars
    <2>2. QED
      BY <1>a, <1>b, <1>c, <2>1
  <1>8. QED
    BY <1>1, <1>2, <1>3, <1>4, <1>5, <1>6, <1>7, StepCases

-----------------------------------------------------------------------------
(* The refinement of Lending *)

Leasing == Owning \ {"pinging"}

\* A connection is lent in the phases of a lease, and only there.
LEMMA LentIs ==
  ASSUME Inv
  PROVE  /\ Lent \in [Tasks -> Conns \cup {NoConn}]
         /\ \A t \in Tasks :
              /\ pc[t] \in Leasing => Lent[t] = held[t] /\ held[t] # NoConn
              /\ pc[t] \notin Leasing => Lent[t] = NoConn
         /\ \A c \in Stacked \cup {held[t] : t \in {u \in Tasks : pc[u] = "pinging"}} :
              c \in Conns /\ c \in open /\ \A t \in Tasks : Lent[t] # c
  <1>1. /\ held \in [Tasks -> Conns \cup {NoConn}]
        /\ \A t \in Tasks : held[t] # NoConn <=> pc[t] \in Owning
    BY DEF Inv, TypeOK, Custody
  <1>2. \A t \in Tasks : /\ pc[t] \in Leasing => Lent[t] = held[t] /\ held[t] # NoConn
                         /\ pc[t] \notin Leasing => Lent[t] = NoConn
    BY <1>1 DEF Lent, Leasing
  <1>3. ASSUME NEW c \in Stacked
        PROVE  c \in Conns /\ c \in open /\ \A t \in Tasks : Lent[t] # c
    <2>1. c \in open /\ c \in Conns /\ c # NoConn
      BY PoolAssumption DEF Inv, OneKeeper, TypeOK
    <2>2. \A t \in Tasks : held[t] # c
      BY <2>1 DEF Inv, OneKeeper
    <2> QED BY <1>2, <2>1, <2>2
  <1>4. ASSUME NEW t \in Tasks, pc[t] = "pinging"
        PROVE  /\ held[t] \in Conns /\ held[t] \in open
               /\ \A u \in Tasks : Lent[u] # held[t]
    <2>1. /\ held[t] \in Conns /\ held[t] # NoConn /\ held[t] \in open
          /\ \A u \in Tasks \ {t} : held[u] # held[t]
      BY <1>4, Leased DEF Owning
    <2>2. Lent[t] = NoConn
      BY <1>2, <1>4 DEF Leasing
    <2> QED BY <1>2, <2>1, <2>2
  <1>5. Lent \in [Tasks -> Conns \cup {NoConn}]
    BY <1>1 DEF Lent
  <1> QED BY <1>2, <1>3, <1>4, <1>5

\* What one task's step makes of what is lent.
LEMMA LentBecomes ==
  ASSUME Inv, NEW t \in Tasks, NEW phase, NEW c,
         pc' = [pc EXCEPT ![t] = phase], held' = [held EXCEPT ![t] = c]
  PROVE  Lent' = [Lent EXCEPT ![t] = IF phase = "pinging" THEN NoConn ELSE c]
  BY DEF Inv, TypeOK, Lent

LEMMA LentStays ==
  ASSUME Inv, NEW t \in Tasks, NEW phase,
         pc' = [pc EXCEPT ![t] = phase], held' = held,
         phase = "pinging" <=> pc[t] = "pinging"
  PROVE  Lent' = Lent
  BY DEF Inv, TypeOK, Lent

LEMMA LendingStep ==
  ASSUME Engine # "sqlite", Inv, Clean, Clean', [Next]_vars
  PROVE  [Promise!Next]_(Promise!vars)
  <1> USE DEF poolVars, dbVars
  <1>0. /\ TypeOK /\ Custody /\ OneKeeper /\ NoConn \notin Conns
        /\ pc \in [Tasks -> Phases] /\ held \in [Tasks -> Conns \cup {NoConn}]
        /\ open \subseteq Conns /\ dirty \subseteq open
    BY PoolAssumption DEF Inv, TypeOK
  <1>a. UNCHANGED <<open, Lent, dirty>> => UNCHANGED Promise!vars
    BY DEF Promise!vars
  <1>b. /\ Lent \in [Tasks -> Conns \cup {NoConn}]
        /\ \A t \in Tasks :
             /\ pc[t] \in Leasing => Lent[t] = held[t] /\ held[t] # NoConn
             /\ pc[t] \notin Leasing => Lent[t] = NoConn
    BY LentIs
  <1>1. ASSUME NEW t \in Tasks, PhaseStep(t) \/ CancelStep(t)
        PROVE  [Promise!Next]_(Promise!vars)
    <2>1. UNCHANGED <<open, dirty, held>>
      BY <1>1 DEF PhaseStep, Ask, Acquire, Exhausted, PopNone, PingOk,
         ConnectFails, DropWaiting, BeginReset, DropPermit, CancelStep,
         Abandon, CancelLands, CancelFails
    <2>2. CASE PingOk(t)
      <3>1. pc[t] = "pinging" /\ pc' = [pc EXCEPT ![t] = "unused"]
        BY <2>2 DEF PingOk, Goto
      <3>2. held' = [held EXCEPT ![t] = held[t]]
        BY <1>0, <2>1
      <3>3. Lent' = [Lent EXCEPT ![t] = held[t]]
        BY <3>1, <3>2, LentBecomes
      <3>4. /\ held[t] \in Conns /\ held[t] \in open /\ held[t] \notin dirty
            /\ Lent[t] = NoConn /\ \A u \in Tasks : Lent[u] # held[t]
        BY <1>b, <3>1, LentIs DEF Clean, NoLeftover, Leasing
      <3>5. Promise!Lend(t, held[t])
        BY <1>0, <2>1, <3>3, <3>4 DEF Promise!Lend, Promise!Free
      <3> QED BY <3>4, <3>5 DEF Promise!Next
    <2>3. CASE ~PingOk(t)
      <3>1. PICK phase : /\ pc' = [pc EXCEPT ![t] = phase]
                         /\ phase # "pinging" /\ pc[t] # "pinging"
        BY <1>1, <2>3 DEF PhaseStep, Ask, Acquire, Exhausted, PopNone, PingOk,
           ConnectFails, DropWaiting, BeginReset, DropPermit, CancelStep,
           Abandon, CancelLands, CancelFails, Goto
      <3>2. Lent' = Lent
        BY <2>1, <3>1, LentStays
      <3> QED BY <1>a, <2>1, <3>2
    <2> QED BY <2>2, <2>3
  <1>2. ASSUME NEW t \in Tasks, PopStep(t)
        PROVE  [Promise!Next]_(Promise!vars)
    <2>1. Pop /\ pc[t] = "popping"
      BY <1>2 DEF PopStep, PopExpired, PopStale, PopFresh
    <2>2. Top \in Stacked /\ Top \in Conns /\ Top \in open /\ Top \notin dirty
          /\ (\A u \in Tasks : Lent[u] # Top) /\ Lent[t] = NoConn /\ Top # NoConn
      BY <1>0, <1>b, <2>1, PopStacked, LentIs DEF Clean, NoLeftover, Leasing, Owning
    <2>3. CASE PopExpired(t)
      <3>1. /\ UNCHANGED <<pc, held>>
            /\ open' = open \ {Top} /\ dirty' = dirty \ {Top}
        BY <2>3 DEF PopExpired, Close, CloseBusy
      <3>2. Lent' = Lent
        BY <3>1 DEF Lent
      <3>3. Promise!Drop(Top)
        BY <2>2, <3>1, <3>2 DEF Promise!Drop, Promise!Free
      <3> QED BY <2>2, <3>3 DEF Promise!Next
    <2>4. CASE PopStale(t)
      <3>1. /\ pc' = [pc EXCEPT ![t] = "pinging"] /\ held' = [held EXCEPT ![t] = Top]
            /\ UNCHANGED <<open, dirty>>
        BY <2>4 DEF PopStale, Goto
      <3>2. Lent' = [Lent EXCEPT ![t] = NoConn]
        BY <3>1, LentBecomes
      <3> QED BY <1>a, <1>b, <2>2, <3>1, <3>2
    <2>5. CASE PopFresh(t)
      <3>1. /\ pc' = [pc EXCEPT ![t] = "unused"] /\ held' = [held EXCEPT ![t] = Top]
            /\ UNCHANGED <<open, dirty>>
        BY <2>5 DEF PopFresh, Goto
      <3>2. Lent' = [Lent EXCEPT ![t] = Top]
        BY <3>1, LentBecomes
      <3>3. Promise!Lend(t, Top)
        BY <2>2, <3>1, <3>2 DEF Promise!Lend, Promise!Free
      <3> QED BY <2>2, <3>3 DEF Promise!Next
    <2> QED BY <1>2, <2>3, <2>4, <2>5 DEF PopStep
  <1>3. ASSUME NEW t \in Tasks, LossStep(t)
        PROVE  [Promise!Next]_(Promise!vars)
    <2>1. PICK phase \in {"popping", "leaving"} :
            /\ pc' = [pc EXCEPT ![t] = phase]
            /\ held' = [held EXCEPT ![t] = NoConn]
            /\ open' = open \ {held[t]} /\ dirty' = dirty \ {held[t]}
      BY <1>3 DEF LossStep, PingFails, DropGet, ResetFails, ResetCutOff,
         Discard, CloseAbandoned, Lose, Close, CloseBusy, Goto
    <2>2. Lent' = [Lent EXCEPT ![t] = NoConn]
      BY <2>1, LentBecomes
    <2>3. pc[t] \in Owning \cup {"connecting"}
      BY <1>3 DEF LossStep, PingFails, DropGet, ResetFails, ResetCutOff,
         Discard, CloseAbandoned, Owning
    <2>4. CASE pc[t] = "connecting"
      <3>1. held[t] = NoConn /\ Lent[t] = NoConn
        BY <1>0, <1>b, <2>4 DEF Custody, Owning, Leasing
      <3> QED BY <1>0, <1>a, <1>b, <2>1, <2>2, <3>1
    <2>5. CASE pc[t] = "pinging"
      <3>1. held[t] \in Conns /\ held[t] \in open
            /\ Lent[t] = NoConn /\ \A u \in Tasks : Lent[u] # held[t]
        BY <1>b, <2>5, LentIs DEF Leasing
      <3>2. Lent' = Lent
        BY <1>b, <2>2, <3>1
      <3>3. Promise!Drop(held[t])
        BY <2>1, <3>1, <3>2 DEF Promise!Drop, Promise!Free
      <3> QED BY <3>1, <3>3 DEF Promise!Next
    <2>6. CASE pc[t] \in Leasing
      <3>1. /\ Lent[t] = held[t] /\ held[t] # NoConn /\ held[t] \in open
            /\ \A u \in Tasks \ {t} : Lent[u] # held[t]
        BY <1>b, <2>6, Leased DEF Leasing
      <3>2. Promise!TakeBack(t)
        <4> DEFINE lendable == {c \in open : \A u \in Tasks \ {t} : Lent[u] # c}
        <4>1. {held[t]} \in SUBSET lendable
          BY <3>1
        <4> QED BY <2>1, <2>2, <3>1, <4>1 DEF Promise!TakeBack
      <3> QED BY <3>2 DEF Promise!Next
    <2> QED BY <2>3, <2>4, <2>5, <2>6 DEF Leasing
  <1>4. ASSUME NEW t \in Tasks, ReturnStep(t)
        PROVE  [Promise!Next]_(Promise!vars)
    <2>1. /\ pc[t] \in Leasing /\ pc[t] \in Owning /\ Return(t)
          /\ open' = open \ Overdue
          /\ dirty' \in {dirty \ Overdue, (dirty \ Overdue) \ {held[t]}}
      BY <1>4 DEF ReturnStep, Release, ResetOk, DropUnused, Owning, Leasing,
         Close, CloseBusy
    <2>2. /\ Overdue \subseteq Stacked
          /\ Stacked' = (Stacked \ Overdue) \cup {held[t]}
          /\ pc' = [pc EXCEPT ![t] = "leaving"]
          /\ held' = [held EXCEPT ![t] = NoConn]
      BY <2>1, Returned
    <2>3. held[t] \notin dirty'
      BY <2>2 DEF Clean, NoLeftover
    <2>4. Lent' = [Lent EXCEPT ![t] = NoConn] /\ Lent[t] = held[t] /\ held[t] # NoConn
      BY <1>b, <2>1, <2>2, LentBecomes
    <2>5. \A c \in Overdue : c \in open /\ \A u \in Tasks : Lent[u] # c
      BY <2>2, LentIs
    <2>6. Promise!TakeBack(t)
      <3> DEFINE lendable == {c \in open : \A u \in Tasks \ {t} : Lent[u] # c}
      <3>1. Overdue \in SUBSET lendable
        BY <2>5
      <3>2. dirty' = dirty \ (Overdue \cup {held[t]})
        BY <2>1, <2>3
      <3> QED BY <2>1, <2>4, <3>1, <3>2 DEF Promise!TakeBack
    <2> QED BY <2>6 DEF Promise!Next
  <1>5. ASSUME NEW t \in Tasks, Use(t)
        PROVE  [Promise!Next]_(Promise!vars)
    <2>1. /\ pc' = [pc EXCEPT ![t] = "used"] /\ pc[t] \in {"unused", "used"}
          /\ UNCHANGED <<held, open>>
          /\ dirty' = IF t \in Scripts THEN dirty \cup {held[t]} ELSE dirty
      BY <1>5 DEF Use, Goto
    <2>2. Lent' = Lent /\ Lent[t] = held[t] /\ held[t] # NoConn
      BY <1>b, <2>1, LentStays DEF Leasing, Owning
    <2>3. CASE t \in Scripts
      BY <2>1, <2>2, <2>3 DEF Promise!Soil, Promise!Next
    <2>4. CASE t \notin Scripts
      BY <1>a, <2>1, <2>2, <2>4
    <2> QED BY <2>3, <2>4
  <1>6. ASSUME NEW t \in Tasks, NEW c \in Conns, Connect(t, c)
        PROVE  [Promise!Next]_(Promise!vars)
    <2>1. /\ pc' = [pc EXCEPT ![t] = "unused"] /\ pc[t] = "connecting"
          /\ held' = [held EXCEPT ![t] = c]
          /\ open' = open \cup {c} /\ c \notin open /\ UNCHANGED dirty
      BY <1>6 DEF Connect, Goto
    <2>2. Lent' = [Lent EXCEPT ![t] = c] /\ Lent[t] = NoConn
      BY <1>b, <2>1, LentBecomes DEF Leasing, Owning
    <2>3. \A u \in Tasks : Lent[u] # c
      BY <1>0, <1>b, <2>1 DEF OneKeeper
    <2>4. Cardinality(open) < Permits
      <3>1. IsFiniteSet(Connecting) /\ t \in Connecting
        BY <2>1, PoolAssumption, FS_Subset DEF Connecting
      <3>2. Cardinality(Connecting) \in Nat /\ Cardinality(Connecting) # 0
        BY <3>1, FS_CardinalityType, FS_EmptySet
      <3>3. Cardinality(open) \in Nat /\ Permits \in Nat
        BY FS_CardinalityType, PoolAssumption DEF Inv, Budget, Permits
      <3>4. Cardinality(open) + Cardinality(Connecting) <= Permits
        BY DEF Inv, Budget
      <3> QED BY <3>2, <3>3, <3>4
    <2>5. Promise!Cardinality(open) = Cardinality(open)
      BY DEF Promise!Cardinality, Cardinality
    <2>6. Promise!Lend(t, c)
      BY <1>0, <2>1, <2>2, <2>3, <2>4, <2>5 DEF Promise!Lend, Promise!Free
    <2> QED BY <2>6 DEF Promise!Next
  <1>7. CASE (\E c \in Conns : StatementEnds(c)) \/ Elapse \/ UNCHANGED vars
    <2>1. UNCHANGED <<open, pc, held, dirty>>
      BY <1>7 DEF StatementEnds, Elapse, vars
    <2>2. Lent' = Lent
      BY <2>1 DEF Lent
    <2> QED BY <1>a, <2>1, <2>2
  <1>8. QED
    BY <1>1, <1>2, <1>3, <1>4, <1>5, <1>6, <1>7, StepCases

-----------------------------------------------------------------------------
(* The theorems *)

LEMMA InitInv == Init => Inv
  <1> SUFFICES ASSUME Init
               PROVE  Inv
    OBVIOUS
  <1> USE DEF Init
  <1>1. Len(idle) = 0 /\ idle \in Seq(Conns)
    BY EmptySeq
  <1>2. Stacked = {}
    BY <1>1 DEF Stacked
  <1>3. PermitHolders = {} /\ Connecting = {}
    BY DEF PermitHolders, Connecting
  <1>4. TypeOK
    BY <1>1 DEF TypeOK, Phases
  <1>5. Custody
    BY DEF Custody, Owning
  <1>6. OneKeeper
    BY <1>1, <1>2 DEF OneKeeper
  <1>7. Quiet
    BY <1>2 DEF Quiet, IdleIsQuiet
  <1>8. Budget
    BY <1>3, FS_EmptySet, PoolAssumption DEF Budget, Permits
  <1>9. QED
    BY <1>4, <1>5, <1>6, <1>7, <1>8 DEF Inv

\* The invariant behind the pool's safety: in every reachable state of any
\* pool, each open connection has one keeper, each phase of get and of the
\* lease owns what the code says, statements run only on used connections and
\* connections plus connects under way fit in the permits.
THEOREM InvHolds == Spec => []Inv
  <1>1. Inv /\ [Next]_vars => Inv'
    BY TypeStep, CustodyStep, KeeperStep, QuietStep, BudgetStep DEF Inv
  <1>2. QED
    BY <1>1, InitInv, PTL DEF Spec

\* Every variable keeps its type, the age counters among them: after any
\* pops and returns they still mark entries of the idle stack.
THEOREM TypeCorrect == Spec => []TypeOK
  <1>1. Inv => TypeOK
    BY DEF Inv
  <1>2. QED
    BY <1>1, InvHolds, PTL

\* Pool::get never opens more connections than limits.pool_size, one if that
\* is zero, whatever is returned, abandoned or still connecting meanwhile.
THEOREM CapHolds == Spec => []ConnectionCap
  <1>1. Inv => ConnectionCap
    <2> SUFFICES ASSUME Inv
                 PROVE  ConnectionCap
      OBVIOUS
    <2>1. IsFiniteSet(Connecting)
      BY PoolAssumption, FS_Subset DEF Connecting
    <2>2. Cardinality(Connecting) \in Nat /\ Cardinality(open) \in Nat
      BY <2>1, FS_CardinalityType DEF Inv, Budget
    <2>3. Permits \in Nat
      BY PoolAssumption DEF Permits
    <2>4. QED
      BY <2>2, <2>3 DEF Inv, Budget, ConnectionCap
  <1>2. QED
    BY <1>1, InvHolds, PTL

\* No connection is lent twice, lent while it is idle, or lost from sight
\* while it is open.
THEOREM KeeperHolds == Spec => []OneKeeper
  <1>1. Inv => OneKeeper
    BY DEF Inv
  <1>2. QED
    BY <1>1, InvHolds, PTL

\* No statement executes on an idle connection.
THEOREM QuietHolds == Spec => []IdleIsQuiet
  <1>1. Inv => IdleIsQuiet
    BY DEF Inv, Quiet
  <1>2. QED
    BY <1>1, InvHolds, PTL

\* A cancel in flight (a SQL Server KILL) always names a session that belongs
\* to the task that sent it, although ids of closed sessions are given out
\* again.
THEOREM CancelHolds == Spec => []CancelAimsAtOwn
  <1>1. Inv => CancelAimsAtOwn
    <2> SUFFICES ASSUME Inv, NEW t \in Tasks, target[t] # NoConn
                 PROVE  /\ target[t] \in open
                        /\ target[t] \notin Stacked
                        /\ \A u \in Tasks \ {t} : held[u] # target[t]
      BY DEF CancelAimsAtOwn
    <2>1. pc[t] \in Owning /\ target[t] = held[t]
      BY DEF Inv, Custody, Owning
    <2>2. QED
      BY <2>1, Leased
  <1>2. QED
    BY <1>1, InvHolds, PTL

\* At first nothing is open.
LEMMA CleanInit == Init => Clean
  <1> SUFFICES ASSUME Init
               PROVE  Clean
    OBVIOUS
  <1>1. dirty = {} /\ \A t \in Tasks : held[t] = NoConn
    BY DEF Init
  <1>2. QED
    BY <1>1 DEF Clean, NoLeftover

\* On Postgres and SQL Server no state a script left on a connection reaches
\* the task that borrows the connection next.  (SQLite's reset does nothing,
\* and there it does.)
THEOREM CleanHolds ==
  ASSUME Engine # "sqlite"
  PROVE  Spec => []NoLeftover
  <1>1. Inv /\ Clean /\ [Next]_vars => Clean'
    BY CleanStep
  <1>2. Clean => NoLeftover
    BY DEF Clean
  <1>3. QED
    BY <1>1, <1>2, CleanInit, InvHolds, PTL DEF Spec

\* On Postgres and SQL Server the pool implements Lending: whatever pings,
\* resets, timeouts, dropped requests and abandoned leases do, a borrower sees
\* a clean connection lent to it alone, out of at most as many as permits.
THEOREM Refines ==
  ASSUME Engine # "sqlite"
  PROVE  Spec => PromiseSpec
  <1>1. Init => Promise!Init
    BY DEF Init, Promise!Init, Lent
  <1>2. Inv /\ Clean /\ [Next]_vars => Clean'
    BY CleanStep
  <1>3. Inv /\ Clean /\ Clean' /\ [Next]_vars => [Promise!Next]_(Promise!vars)
    BY LendingStep
  <1>4. QED
    BY <1>1, <1>2, <1>3, CleanInit, InvHolds, PTL DEF Spec, PromiseSpec, Promise!Spec

=============================================================================
