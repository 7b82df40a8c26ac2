---------------------------- MODULE DesktopProofs ----------------------------
(***************************************************************************)
(* Proofs about what sqail-ui keeps, for any services, profiles, tabs and  *)
(* entries.  Each part is proved to keep its promises by itself; no action *)
(* of another changes its state.                                           *)
(***************************************************************************)
EXTENDS Desktop, SequencesExt, WellFoundedInduction, FiniteSetTheorems, TLAPS

-----------------------------------------------------------------------------
(* Connect: the answers of any number of connects, in any order, leave no  *)
(* client of a service the user has left.                                  *)

ConnectInv == TypeOK /\ ClientIsCurrent

\* Calls that are numbered up to n.
CallsUpTo(n) ==
  [nr : 1 .. n, kind : {"info", "list", "save"}, service : Services,
   about : Profiles \cup {Nothing}, answer : {"none", "ok", "err"},
   list : SUBSET Profiles]

-----------------------------------------------------------------------------
LEMMA InitConnect == Init => ConnectInv
<1> SUFFICES ASSUME Init PROVE ConnectInv
  OBVIOUS
<1>1. life \in [Profiles -> {"new", "stored", "deleted"}]
  BY DEF Init
<1>2. TypeOK
  BY <1>1 DEF Init, TypeOK
<1>3. ClientIsCurrent
  BY DEF Init, ClientIsCurrent
<1> QED BY <1>2, <1>3 DEF ConnectInv

\* A call is of the next number.
LEMMA NewCallType ==
  ASSUME TypeOK, NEW kind \in {"info", "list", "save"}, NEW s \in Services,
         NEW p \in Profiles \cup {Nothing}
  PROVE  NewCall(kind, s, p) \in CallsUpTo(made + 1)
<1>1. made + 1 \in 1 .. made + 1
  BY DEF TypeOK
<1> QED BY <1>1 DEF NewCall, CallsUpTo

LEMMA CallsGrow ==
  ASSUME TypeOK
  PROVE  calls \subseteq CallsUpTo(made) /\ calls \subseteq CallsUpTo(made + 1)
<1>1. 1 .. made \subseteq 1 .. made + 1
  BY DEF TypeOK
<1> QED BY <1>1 DEF TypeOK, CallsUpTo

\* A call that is done, and the list that is asked for.
LEMMA RefreshTypes ==
  ASSUME TypeOK, NEW c, NEW s \in Services, DoneAndRefresh(c, s)
  PROVE  made' \in Nat /\ calls' \subseteq CallsUpTo(made')
<1>1. NewCall("list", s, Nothing) \in CallsUpTo(made + 1)
  BY NewCallType
<1> QED BY <1>1, CallsGrow DEF DoneAndRefresh, TypeOK

LEMMA StartTypes ==
  ASSUME TypeOK, NEW call \in CallsUpTo(made + 1), Start(call)
  PROVE  made' \in Nat /\ calls' \subseteq CallsUpTo(made')
BY CallsGrow DEF Start, TypeOK

LEMMA DoneTypes ==
  ASSUME TypeOK, NEW c, Done(c)
  PROVE  made' \in Nat /\ calls' \subseteq CallsUpTo(made')
BY CallsGrow DEF Done, TypeOK

\* What the user does.
LEMMA UserInv ==
  ASSUME ConnectInv, User
  PROVE  ConnectInv'
<1> USE ConnectAssumption DEF ConnectInv
<1>1. ASSUME NEW s \in Services, ConnectTo(s) PROVE ConnectInv'
  <2>1. NewCall("info", s, Nothing) \in CallsUpTo(made + 1)
    BY NewCallType
  <2>2. made' \in Nat /\ calls' \subseteq CallsUpTo(made')
    BY <1>1, <2>1, StartTypes DEF ConnectTo
  <2> QED BY <1>1, <2>2 DEF ConnectTo, TypeOK, CallsUpTo, ClientIsCurrent
<1>2. ASSUME NEW s \in Services, NoToken(s) PROVE ConnectInv'
  BY <1>2 DEF NoToken, TypeOK, ClientIsCurrent
<1>3. CASE Forget
  BY <1>3 DEF Forget, TypeOK, ClientIsCurrent
<1>4. CASE Refresh
  <2>1. client \in Services
    BY <1>4 DEF Refresh, TypeOK
  <2>2. made' \in Nat /\ calls' \subseteq CallsUpTo(made')
    BY <1>4, <2>1, NewCallType, StartTypes DEF Refresh
  <2> QED BY <1>4, <2>2 DEF Refresh, uiVars, TypeOK, CallsUpTo, ClientIsCurrent
<1>5. ASSUME NEW p \in Profiles, SaveNew(p) PROVE ConnectInv'
  <2>1. client \in Services
    BY <1>5 DEF SaveNew
  <2>2. made' \in Nat /\ calls' \subseteq CallsUpTo(made')
    BY <1>5, <2>1, NewCallType, StartTypes DEF SaveNew
  <2> QED BY <1>5, <2>2 DEF SaveNew, uiVars, TypeOK, CallsUpTo, ClientIsCurrent
<1>6. ASSUME NEW p \in Profiles, Choose(p) PROVE ConnectInv'
  BY <1>6 DEF Choose, TypeOK, ClientIsCurrent
<1> QED BY <1>1, <1>2, <1>3, <1>4, <1>5, <1>6 DEF User

\* The services answer: only the call, and for a save its profile.
LEMMA AnswerInv ==
  ASSUME ConnectInv, NEW c \in calls, Answer(c)
  PROVE  ConnectInv'
<1> USE DEF ConnectInv
<1>1. UNCHANGED <<uiVars, made>>
  BY DEF Answer
<1>2. PICK d \in CallsUpTo(made) : calls' = (calls \ {c}) \cup {d}
  <2> DEFINE stored == {p \in Profiles : Home[p] = c.service /\ life[p] = "stored"}
  <2>1. c \in CallsUpTo(made)
    BY CallsGrow
  <2>2. /\ [c EXCEPT !.answer = "err"] \in CallsUpTo(made)
        /\ [c EXCEPT !.answer = "ok"] \in CallsUpTo(made)
    BY <2>1 DEF CallsUpTo
  <2>3. [c EXCEPT !.answer = "ok", !.list = stored] \in CallsUpTo(made)
    <3>1. stored \in SUBSET Profiles
      OBVIOUS
    <3> QED BY <2>1, <3>1 DEF CallsUpTo
  <2> QED BY <2>2, <2>3 DEF Answer, Replace
<1>3. life' \in [Profiles -> {"new", "stored", "deleted"}]
  <2>1. life' = life \/ life' = [life EXCEPT ![c.about] = "stored"]
    BY DEF Answer
  <2> QED BY <2>1 DEF TypeOK
<1>4. calls' \subseteq CallsUpTo(made)
  BY <1>2, CallsGrow
<1> QED BY <1>1, <1>3, <1>4 DEF uiVars, TypeOK, CallsUpTo, ClientIsCurrent

\* The UI handles an answer: the client is taken only for the service in use.
LEMMA HandleInv ==
  ASSUME ConnectInv, NEW c \in calls, Handle(c)
  PROVE  ConnectInv'
<1> USE ConnectAssumption DEF ConnectInv
<1>0. /\ c.service \in Services /\ c.list \in SUBSET Profiles
      /\ c.about \in Profiles \cup {Nothing}
  BY DEF TypeOK
<1>1. CASE Connected(c)
  <2>1. CASE Superseded(c)
    <3>1. Done(c) /\ UNCHANGED <<uiVars, life>>
      BY <1>1, <2>1 DEF Connected
    <3>2. made' \in Nat /\ calls' \subseteq CallsUpTo(made')
      BY <3>1, DoneTypes
    <3> QED BY <3>1, <3>2 DEF uiVars, TypeOK, CallsUpTo, ClientIsCurrent
  <2>2. CASE ~Superseded(c) /\ c.answer = "ok"
    <3>1. /\ client' = c.service /\ status' = "connected"
          /\ DoneAndRefresh(c, c.service)
          /\ UNCHANGED <<profile, connections, tab, life>>
      BY <1>1, <2>2 DEF Connected
    <3>2. made' \in Nat /\ calls' \subseteq CallsUpTo(made')
      BY <1>0, <3>1, RefreshTypes
    <3>3. profile = c.service
      BY <2>2 DEF Superseded
    <3> QED BY <1>0, <3>1, <3>2, <3>3 DEF TypeOK, CallsUpTo, ClientIsCurrent
  <2>3. CASE ~Superseded(c) /\ c.answer = "err"
    <3>1. /\ status' = "failed" /\ Done(c)
          /\ UNCHANGED <<profile, client, connections, tab, life>>
      BY <1>1, <2>3 DEF Connected
    <3>2. made' \in Nat /\ calls' \subseteq CallsUpTo(made')
      BY <3>1, DoneTypes
    <3> QED BY <3>1, <3>2 DEF TypeOK, CallsUpTo, ClientIsCurrent
  <2> QED BY <1>1, <2>1, <2>2, <2>3 DEF Connected
<1>2. CASE Listed(c)
  <2>1. made' \in Nat /\ calls' \subseteq CallsUpTo(made')
    BY <1>2, DoneTypes DEF Listed
  <2>2. connections' \in SUBSET Profiles /\ tab' \in Profiles \cup {Nothing}
    BY <1>0, <1>2 DEF Listed, TypeOK
  <2> QED BY <1>2, <2>1, <2>2 DEF Listed, TypeOK, CallsUpTo, ClientIsCurrent
<1>3. CASE Saved(c)
  <2>1. made' \in Nat /\ calls' \subseteq CallsUpTo(made')
    <3>1. CASE DoneAndRefresh(c, client) /\ client # Nothing
      BY <3>1, RefreshTypes DEF TypeOK
    <3>2. CASE Done(c)
      BY <3>2, DoneTypes
    <3> QED BY <1>3, <3>1, <3>2 DEF Saved
  <2>2. tab' \in Profiles \cup {Nothing}
    BY <1>0, <1>3 DEF Saved, TypeOK
  <2> QED BY <1>3, <2>1, <2>2 DEF Saved, TypeOK, CallsUpTo, ClientIsCurrent
<1> QED BY <1>1, <1>2, <1>3 DEF Handle

LEMMA StepConnect == ConnectInv /\ [Next]_vars => ConnectInv'
<1> SUFFICES ASSUME ConnectInv, [Next]_vars PROVE ConnectInv'
  OBVIOUS
<1>1. ASSUME NEW p \in Profiles, Delete(p) PROVE ConnectInv'
  BY <1>1 DEF Delete, uiVars, ConnectInv, TypeOK, ClientIsCurrent
<1>2. CASE UNCHANGED vars
  BY <1>2 DEF vars, uiVars, ConnectInv, TypeOK, ClientIsCurrent
<1> QED BY <1>1, <1>2, UserInv, AnswerInv, HandleInv DEF Next

-----------------------------------------------------------------------------
\* Type correctness of the UI's view and the calls on their way.
THEOREM ConnectType == Spec => []TypeOK
<1>1. ConnectInv => TypeOK
  BY DEF ConnectInv
<1> QED BY <1>1, InitConnect, StepConnect, PTL DEF Spec

\* The client is that of the service in use, whichever connects are answered
\* late.
THEOREM ClientHolds == Spec => []ClientIsCurrent
<1>1. ConnectInv => ClientIsCurrent
  BY DEF ConnectInv
<1> QED BY <1>1, InitConnect, StepConnect, PTL DEF Spec

-----------------------------------------------------------------------------
(* Tree *)

TreeInv == Tree!TypeOK /\ LoadingIsAsked

\* What a request may have brought.
Answers == {Tree!Loading, Tree!Failed} \cup Nat

-----------------------------------------------------------------------------
LEMMA ForgottenType ==
  ASSUME Tree!TypeOK, NEW c \in Connections, NEW ks
  PROVE  /\ Tree!Forgotten(c, ks) \in [Connections -> [Tree!Keys -> Tree!Cached]]
         /\ \A d \in Connections, k \in Tree!Keys :
              Tree!Forgotten(c, ks)[d][k] \in {Tree!Absent, data[d][k]}
<1>1. [k \in Tree!Keys |-> IF k \in ks THEN Tree!Absent ELSE data[c][k]] \in [Tree!Keys -> Tree!Cached]
  BY DEF Tree!TypeOK, Tree!Cached
<1> QED BY <1>1 DEF Tree!TypeOK, Tree!Forgotten

\* The requests of the keys that load are all there after the step: those are
\* that loaded before.
LEMMA StillAsked ==
  ASSUME LoadingIsAsked,
         \A c \in Connections, k \in Tree!Keys : data'[c][k] = Tree!Loading => data[c][k] = Tree!Loading,
         requests' = requests
  PROVE  LoadingIsAsked'
BY DEF LoadingIsAsked, Tree!LoadingIsAsked

LEMMA InitTree == Tree!Init => TreeInv
<1> SUFFICES ASSUME Tree!Init PROVE TreeInv
  OBVIOUS
<1>1. [k \in Tree!Keys |-> Tree!Absent] \in [Tree!Keys -> Tree!Cached] /\ Tree!Absent # Tree!Loading
  BY DEF Tree!Cached, Tree!Absent, Tree!Loading
<1>2. Tree!TypeOK
  BY <1>1 DEF Tree!Init, Tree!TypeOK
<1>3. LoadingIsAsked
  BY <1>1 DEF Tree!Init, LoadingIsAsked, Tree!LoadingIsAsked
<1> QED BY <1>2, <1>3 DEF TreeInv

LEMMA StepTree == TreeInv /\ [Tree!Next]_(Tree!vars) => TreeInv'
<1> SUFFICES ASSUME TreeInv, [Tree!Next]_(Tree!vars) PROVE TreeInv'
  OBVIOUS
<1> USE DEF TreeInv
<1>0. Tree!Absent # Tree!Loading /\ Tree!Absent \in Tree!Cached /\ Tree!Loading \in Tree!Cached
  BY DEF Tree!Cached, Tree!Absent, Tree!Loading
<1>1. ASSUME NEW c \in Connections, NEW k \in Tree!Keys, Tree!Get(c, k) PROVE TreeInv'
  <2> DEFINE new == [nr |-> asked + 1, connection |-> c, key |-> k, answer |-> Tree!Loading]
  <2>1. asked' = asked + 1 /\ requests' = requests \cup {new}
        /\ data' = [data EXCEPT ![c][k] = Tree!Loading] /\ asked' \in Nat
        /\ UNCHANGED <<listed, version, own>>
    BY <1>1 DEF Tree!Get, Tree!TypeOK
  <2>2. data' \in [Connections -> [Tree!Keys -> Tree!Cached]]
    BY <1>0, <2>1 DEF Tree!TypeOK
  <2>3. requests' \subseteq [nr : 1 .. asked', connection : Connections, key : Tree!Keys,
                             answer : Answers]
    <3>1. new \in [nr : 1 .. asked', connection : Connections, key : Tree!Keys, answer : Answers]
      <4>1. asked' \in 1 .. asked' /\ Tree!Loading \in Answers
        BY <2>1 DEF Tree!TypeOK, Answers
      <4> QED BY <2>1, <4>1
    <3>2. \A r \in requests : r \in [nr : 1 .. asked', connection : Connections, key : Tree!Keys,
                                     answer : Answers]
      BY <2>1 DEF Tree!TypeOK, Answers
    <3> QED BY <2>1, <3>1, <3>2
  <2>4. Tree!TypeOK'
    BY <2>1, <2>2, <2>3 DEF Tree!TypeOK, Answers
  <2>5. ASSUME NEW d \in Connections, NEW j \in Tree!Keys, data'[d][j] = Tree!Loading
        PROVE  \E r \in requests' : r.connection = d /\ r.key = j
    <3>1. CASE d = c /\ j = k
      <4>1. new \in requests' /\ new.connection = d /\ new.key = j
        BY <2>1, <3>1
      <4> QED BY <4>1
    <3>2. CASE ~(d = c /\ j = k)
      <4>1. data[d][j] = Tree!Loading
        BY <2>1, <2>5, <3>2 DEF Tree!TypeOK
      <4> QED BY <2>1, <4>1 DEF LoadingIsAsked, Tree!LoadingIsAsked
    <3> QED BY <3>1, <3>2
  <2> QED BY <2>4, <2>5 DEF LoadingIsAsked, Tree!LoadingIsAsked
<1>2. ASSUME NEW r \in requests, Tree!Answer(r) PROVE TreeInv'
  <2> PICK a \in {Tree!Failed, version[r.connection]} :
        requests' = (requests \ {r}) \cup {[r EXCEPT !.answer = a]}
    BY <1>2 DEF Tree!Answer
  <2>1. UNCHANGED <<listed, data, asked, version, own>>
    BY <1>2 DEF Tree!Answer
  <2>2. a \in Answers
    BY DEF Tree!TypeOK, Answers
  <2>3. Tree!TypeOK'
    BY <2>1, <2>2 DEF Tree!TypeOK, Answers
  <2>4. ASSUME NEW d \in Connections, NEW j \in Tree!Keys, data[d][j] = Tree!Loading
        PROVE  \E s \in requests' : s.connection = d /\ s.key = j
    <3> PICK s \in requests : s.connection = d /\ s.key = j
      BY <2>4 DEF LoadingIsAsked, Tree!LoadingIsAsked
    <3>1. CASE s = r
      <4>1. [r EXCEPT !.answer = a].connection = d /\ [r EXCEPT !.answer = a].key = j
        BY <3>1 DEF Tree!TypeOK
      <4> QED BY <4>1
    <3>2. CASE s # r
      BY <3>2
    <3> QED BY <3>1, <3>2
  <2> QED BY <2>1, <2>3, <2>4 DEF LoadingIsAsked, Tree!LoadingIsAsked
<1>3. ASSUME NEW r \in requests, Tree!Apply(r) PROVE TreeInv'
  <2>1. /\ requests' = requests \ {r} /\ r.answer # Tree!Loading
        /\ data' = [data EXCEPT ![r.connection][r.key] = r.answer]
        /\ UNCHANGED <<listed, asked, version, own>>
    BY <1>3 DEF Tree!Apply, Tree!Applied
  <2>2. r.connection \in Connections /\ r.key \in Tree!Keys /\ r.answer \in Tree!Cached
    BY DEF Tree!TypeOK, Tree!Cached
  <2>3. Tree!TypeOK'
    BY <2>1, <2>2 DEF Tree!TypeOK
  <2>4. ASSUME NEW d \in Connections, NEW j \in Tree!Keys, data'[d][j] = Tree!Loading
        PROVE  \E s \in requests' : s.connection = d /\ s.key = j
    <3>1. ~(d = r.connection /\ j = r.key) /\ data[d][j] = Tree!Loading
      BY <2>1, <2>2, <2>4 DEF Tree!TypeOK
    <3> QED BY <2>1, <3>1 DEF LoadingIsAsked, Tree!LoadingIsAsked
  <2> QED BY <2>3, <2>4 DEF LoadingIsAsked, Tree!LoadingIsAsked
<1>4. ASSUME NEW c \in Connections, Tree!ChangeElsewhere(c) PROVE TreeInv'
  <2>1. Tree!TypeOK'
    BY <1>4 DEF Tree!ChangeElsewhere, Tree!treeVars, Tree!TypeOK
  <2> QED BY <1>4, <2>1, StillAsked DEF Tree!ChangeElsewhere, Tree!treeVars
<1>5. ASSUME NEW c \in Connections, Tree!ChangeOwn(c) PROVE TreeInv'
  <2>1. Tree!TypeOK'
    BY <1>5, ForgottenType DEF Tree!ChangeOwn, Tree!TypeOK
  <2>2. \A d \in Connections, k \in Tree!Keys : data'[d][k] \in {Tree!Absent, data[d][k]}
    BY <1>5, ForgottenType DEF Tree!ChangeOwn
  <2> QED BY <1>0, <1>5, <2>1, <2>2, StillAsked DEF Tree!ChangeOwn
<1>6. ASSUME NEW c \in Connections, Tree!Invalidate(c) PROVE TreeInv'
  <2>1. Tree!TypeOK'
    BY <1>6, ForgottenType DEF Tree!Invalidate, Tree!TypeOK
  <2>2. \A d \in Connections, k \in Tree!Keys : data'[d][k] \in {Tree!Absent, data[d][k]}
    BY <1>6, ForgottenType DEF Tree!Invalidate
  <2> QED BY <1>0, <1>6, <2>1, <2>2, StillAsked DEF Tree!Invalidate
<1>7. CASE Tree!Clear
  <2>1. Tree!TypeOK'
    BY <1>0, <1>7 DEF Tree!Clear, Tree!TypeOK
  <2>2. \A d \in Connections, k \in Tree!Keys : data'[d][k] = Tree!Absent
    BY <1>7 DEF Tree!Clear
  <2> QED BY <1>0, <1>7, <2>1, <2>2, StillAsked DEF Tree!Clear
<1>8. ASSUME NEW list \in SUBSET Connections, Tree!Retain(list) PROVE TreeInv'
  <2>1. Tree!TypeOK'
    BY <1>0, <1>8 DEF Tree!Retain, Tree!TypeOK
  <2>2. \A d \in Connections, k \in Tree!Keys : data'[d][k] \in {Tree!Absent, data[d][k]}
    BY <1>8 DEF Tree!Retain
  <2> QED BY <1>0, <1>8, <2>1, <2>2, StillAsked DEF Tree!Retain
<1>9. CASE UNCHANGED Tree!vars
  <2>1. Tree!TypeOK'
    BY <1>9 DEF Tree!vars, Tree!treeVars, Tree!TypeOK
  <2> QED BY <1>9, <2>1, StillAsked DEF Tree!vars, Tree!treeVars
<1> QED
  BY <1>1, <1>2, <1>3, <1>4, <1>5, <1>6, <1>7, <1>8, <1>9 DEF Tree!Next

-----------------------------------------------------------------------------
\* Type correctness of the cache and its requests.
THEOREM TreeType == Tree!Spec => []Tree!TypeOK
<1>1. TreeInv => Tree!TypeOK
  BY DEF TreeInv
<1> QED BY <1>1, InitTree, StepTree, PTL DEF Tree!Spec

\* A node that loads has its request on the way, however often the cache was
\* emptied since.
THEOREM AskedHolds == Tree!Spec => []LoadingIsAsked
<1>1. TreeInv => LoadingIsAsked
  BY DEF TreeInv
<1> QED BY <1>1, InitTree, StepTree, PTL DEF Tree!Spec

-----------------------------------------------------------------------------
(* Sequences *)

\* Induction over the naturals, for a set.
LEMMA SetInduction ==
  ASSUME NEW S, 0 \in S, \A n \in Nat : n \in S => n + 1 \in S
  PROVE  Nat \subseteq S
<1> DEFINE T == Nat \ S
           R == OpToRel(<, Nat)
<1> SUFFICES ASSUME T # {} PROVE FALSE
  OBVIOUS
<1>1. IsWellFoundedOn(R, Nat)
  BY NatLessThanWellFounded
<1>2. \A x, y \in Nat : x < y => <<x, y>> \in R
  BY DEF OpToRel
<1>3. T \subseteq Nat
  OBVIOUS
<1> HIDE DEF R
<1>4. PICK x \in T : \A y \in T : <<y, x>> \notin R
  <2> HIDE DEF T
  <2> QED BY <1>1, <1>3, WFMin
<1>5. x \in Nat /\ x # 0 /\ x \notin S
  OBVIOUS
<1>6. x - 1 \in Nat /\ x - 1 < x /\ (x - 1) + 1 = x
  BY <1>5
<1>7. x - 1 \in S
  BY <1>2, <1>4, <1>5, <1>6
<1> QED BY <1>5, <1>6, <1>7

\* A flattened sequence is built element by element.
LEMMA FlattenSteps ==
  ASSUME NEW T, NEW s \in Seq(Seq(T))
  PROVE  \E f \in [0 .. Len(s) -> Seq(T)] :
           /\ f[0] = <<>> /\ FlattenSeq(s) = f[Len(s)]
           /\ \A k \in 1 .. Len(s) : f[k] = f[k - 1] \o s[k]
<1>0. Len(s) \in Nat /\ \A k \in 1 .. Len(s) : s[k] \in Seq(T)
  OBVIOUS
<1>1. CASE Len(s) = 0
  <2>1. FlattenSeq(s) = <<>>
    BY <1>1 DEF FlattenSeq
  <2>2. <<>> \in Seq(T)
    OBVIOUS
  <2> DEFINE f == [k \in 0 .. Len(s) |-> <<>>]
  <2>3. f \in [0 .. Len(s) -> Seq(T)] /\ f[0] = <<>> /\ f[Len(s)] = <<>>
    BY <1>1, <2>2
  <2> HIDE DEF f
  <2> QED BY <1>1, <2>1, <2>3
<1>2. CASE Len(s) # 0
  <2> DEFINE n == Len(s)
             At(f, i) == IF i = 1 THEN s[i] ELSE f[i - 1] \o s[i]
             Upto(f, k) == \A i \in 1 .. k : f[i] = At(f, i)
             g == CHOOSE f : f = [i \in 1 .. n |-> IF i = 1 THEN s[i] ELSE f[i - 1] \o s[i]]
             S == {k \in Nat : k <= n => \E f \in [1 .. k -> Seq(T)] : Upto(f, k)}
  <2>0. n \in Nat /\ n # 0 /\ \A i \in 1 .. n : s[i] \in Seq(T)
    BY <1>2
  <2>1. 0 \in S
    <3>1. [i \in 1 .. 0 |-> <<>>] \in [1 .. 0 -> Seq(T)]
      OBVIOUS
    <3>2. Upto([i \in 1 .. 0 |-> <<>>], 0)
      OBVIOUS
    <3> QED BY <3>1, <3>2
  <2>2. ASSUME NEW k \in Nat, k \in S PROVE k + 1 \in S
    <3>0. ASSUME k + 1 <= n
          PROVE  \E f \in [1 .. k + 1 -> Seq(T)] : Upto(f, k + 1)
      <4>0. k <= n
        BY <2>0, <3>0
      <4>1. PICK f \in [1 .. k -> Seq(T)] : Upto(f, k)
        <5> HIDE DEF Upto
        <5> QED BY <4>0, <2>2
      <4> DEFINE last == IF k = 0 THEN s[1] ELSE f[k] \o s[k + 1]
                 h == [i \in 1 .. k + 1 |-> IF i = k + 1 THEN last ELSE f[i]]
      <4>2. last \in Seq(T)
        BY <2>0, <3>0
      <4>3. h \in [1 .. k + 1 -> Seq(T)]
        <5> HIDE DEF last
        <5> QED BY <4>2
      <4>4. ASSUME NEW i \in 1 .. k + 1 PROVE h[i] = At(h, i)
        <5>1. CASE i = k + 1
          <6>1. k # 0 => h[k] = f[k]
            OBVIOUS
          <6>2. h[i] = last
            BY <5>1
          <6> HIDE DEF h
          <6>3. CASE k = 0
            BY <5>1, <6>2, <6>3
          <6>4. CASE k # 0
            <7>1. i # 1 /\ i - 1 = k
              BY <5>1, <6>4
            <7> QED BY <5>1, <6>1, <6>2, <6>4, <7>1
          <6> QED BY <6>3, <6>4
        <5>2. CASE i # k + 1
          <6>1. i \in 1 .. k
            BY <5>2
          <6>2. h[i] = f[i] /\ (i # 1 => h[i - 1] = f[i - 1])
            <7>1. i # 1 => i - 1 \in 1 .. k + 1 /\ i - 1 # k + 1
              BY <6>1
            <7> QED BY <5>2, <6>1, <7>1
          <6>3. f[i] = At(f, i)
            BY <4>1, <6>1
          <6> HIDE DEF h
          <6> QED BY <6>2, <6>3
        <5> QED BY <5>1, <5>2
      <4> HIDE DEF h
      <4> QED BY <4>3, <4>4
    <3> HIDE DEF Upto
    <3> QED BY <3>0
  <2>3. n \in S
    <3> HIDE DEF S
    <3> QED BY <2>0, <2>1, <2>2, SetInduction
  <2>4. PICK f \in [1 .. n -> Seq(T)] : Upto(f, n)
    BY <2>0, <2>3
  <2>5. f = [i \in 1 .. n |-> IF i = 1 THEN s[i] ELSE f[i - 1] \o s[i]]
    BY <2>4
  <2>6. g = [i \in 1 .. n |-> IF i = 1 THEN s[i] ELSE g[i - 1] \o s[i]]
    BY <2>5
  <2> DEFINE G == {k \in Nat : k + 1 <= n => g[k + 1] \in Seq(T)}
  <2> HIDE DEF g
  <2>7. 0 \in G
    BY <2>0, <2>6
  <2>8. ASSUME NEW k \in Nat, k \in G PROVE k + 1 \in G
    <3>1. ASSUME (k + 1) + 1 <= n PROVE g[(k + 1) + 1] \in Seq(T)
      <4>1. k + 1 <= n /\ (k + 1) + 1 \in 1 .. n /\ (k + 1) + 1 # 1 /\ ((k + 1) + 1) - 1 = k + 1
        BY <2>0, <3>1
      <4>2. g[k + 1] \in Seq(T)
        BY <2>8, <4>1
      <4>3. g[(k + 1) + 1] = g[k + 1] \o s[(k + 1) + 1]
        BY <2>6, <4>1
      <4> QED BY <2>0, <4>1, <4>2, <4>3
    <3> QED BY <3>1
  <2>10. FlattenSeq(s) = g[n]
    BY <1>2 DEF FlattenSeq, g
  <2>11. ASSUME NEW k \in 1 .. n PROVE g[k] \in Seq(T)
    <3>1. k - 1 \in Nat /\ (k - 1) + 1 = k /\ k <= n
      BY <2>0
    <3> HIDE DEF G, n
    <3>2. Nat \subseteq G
      BY <2>7, <2>8, SetInduction
    <3> QED BY <3>1, <3>2 DEF G
  <2> DEFINE h == [k \in 0 .. n |-> IF k = 0 THEN <<>> ELSE g[k]]
  <2>12. h[0] = <<>> /\ h[n] = g[n] /\ \A k \in 1 .. n : h[k] = g[k]
    BY <2>0
  <2>13. h \in [0 .. n -> Seq(T)]
    BY <2>11
  <2>14. ASSUME NEW k \in 1 .. n PROVE h[k] = h[k - 1] \o s[k]
    <3>1. CASE k = 1
      <4>1. h[k] = s[1] /\ h[k - 1] = <<>>
        BY <2>6, <2>12, <3>1
      <4> QED BY <2>0, <3>1, <4>1
    <3>2. CASE k # 1
      <4>1. k - 1 \in 1 .. n
        BY <2>0, <3>2
      <4>2. h[k] = g[k - 1] \o s[k] /\ h[k - 1] = g[k - 1]
        BY <2>6, <2>12, <3>2, <4>1
      <4> QED BY <4>2
    <3> QED BY <3>1, <3>2
  <2> HIDE DEF h
  <2> QED BY <2>10, <2>12, <2>13, <2>14
<1> QED BY <1>1, <1>2

\* A sequence over what its elements are in.
LEMMA Narrowed ==
  ASSUME NEW S, NEW T, NEW s \in Seq(S), \A i \in 1 .. Len(s) : s[i] \in T
  PROVE  s \in Seq(T)
<1> PICK n \in Nat : n = Len(s)
  OBVIOUS
<1>1. s = [i \in 1 .. n |-> s[i]]
  OBVIOUS
<1>2. \A i \in 1 .. n : s[i] \in T
  OBVIOUS
<1>3. [i \in 1 .. n |-> s[i]] \in Seq(T)
  BY <1>2
<1> QED BY <1>1, <1>3

-----------------------------------------------------------------------------
(* History: the file and the entries in memory, through restarts, crashes  *)
(* and writes that fail                                                    *)

\* The lines that parse are in the order in which they were made.
InOrder(s) == \A i, j \in 1 .. Len(s) : i < j /\ s[i] # 0 /\ s[j] # 0 => s[i] < s[j]

HistoryTypes ==
  /\ step \in {"off", "idle", "line", "newline", "truncate", "body"}
  /\ pushed \in 0 .. MaxPushes /\ historyFaults \in 0 .. MaxHistoryFaults
  /\ cleared \in 0 .. pushed /\ damaged \subseteq 1 .. pushed
  /\ ragged \in BOOLEAN /\ emptied \in BOOLEAN
  /\ torn \in BOOLEAN /\ since \in 0 .. pushed
  /\ entries \in Seq(1 .. pushed) /\ historyFile \in Seq(0 .. pushed)

\* What is to be kept is in memory, while the program runs, but for what a start
\* that could not read the file did not find.
InMemory ==
  step # "off" => {e \in History!Kept \ damaged : e > since} \subseteq History!ToSet(entries)

\* All that is in memory was found or made by this run, and there is so much of it
\* when the file is rewritten that nothing older is to be kept.
OfThisRun ==
  /\ \A i \in 1 .. Len(entries) : entries[i] > since
  /\ step \in {"truncate", "body"} => since <= pushed - Limit

\* And in the file, but for the entry that is being written, until a rewrite
\* empties it.
InFile ==
  /\ step \in {"off", "idle", "newline"} =>
       History!Kept \ damaged \subseteq History!ToSet(historyFile)
  /\ step \in {"line", "truncate"} =>
       (History!Kept \ damaged) \ {pushed} \subseteq History!ToSet(historyFile)

HistoryInv ==
  /\ HistoryTypes
  /\ InOrder(entries) /\ InOrder(historyFile)
  /\ ragged => historyFile # <<>> /\ step # "body"
  /\ step \in {"line", "newline", "truncate"} => pushed # 0
  /\ step = "line" => \A i \in 1 .. Len(historyFile) : historyFile[i] # pushed
  /\ OfThisRun
  /\ ~emptied => InMemory /\ InFile

LEMMA InitHistory == History!Init => HistoryInv
<1> SUFFICES ASSUME History!Init PROVE HistoryInv
  OBVIOUS
<1> USE HistoryAssumption DEF History!Init
<1>1. HistoryTypes
  <2>1. <<>> \in Seq(1 .. pushed) /\ <<>> \in Seq(0 .. pushed)
    OBVIOUS
  <2>2. pushed \in 0 .. MaxPushes /\ historyFaults \in 0 .. MaxHistoryFaults
        /\ cleared \in 0 .. pushed
    OBVIOUS
  <2> QED BY <2>1, <2>2 DEF HistoryTypes
<1>2. InOrder(<<>>)
  BY DEF InOrder
<1>3. InMemory /\ InFile
  BY DEF InMemory, InFile, History!Kept
<1>4. OfThisRun
  BY DEF OfThisRun
<1> QED BY <1>1, <1>2, <1>3, <1>4 DEF HistoryInv

\* Numbers in order are at least as far apart as their places.
LEMMA Spaced ==
  ASSUME NEW top \in Nat, NEW s \in Seq(1 .. top), InOrder(s),
         NEW i \in 1 .. Len(s), NEW j \in 1 .. Len(s), i <= j
  PROVE  s[j] >= s[i] + (j - i)
<1> DEFINE S == {k \in Nat : i + k <= Len(s) => s[i + k] >= s[i] + k}
<1>0. \A k \in 1 .. Len(s) : s[k] \in 1 .. top
  OBVIOUS
<1>1. 0 \in S
  <2>1. i + 0 = i /\ s[i] + 0 = s[i] /\ s[i] \in Nat
    BY <1>0
  <2> QED BY <2>1
<1>2. ASSUME NEW k \in Nat, k \in S PROVE k + 1 \in S
  <2> SUFFICES ASSUME i + (k + 1) <= Len(s) PROVE s[i + (k + 1)] >= s[i] + (k + 1)
    OBVIOUS
  <2>1. i + k \in 1 .. Len(s) /\ i + (k + 1) \in 1 .. Len(s) /\ i + k < i + (k + 1)
    OBVIOUS
  <2>2. s[i + k] \in Nat /\ s[i + (k + 1)] \in Nat /\ s[i] \in Nat
        /\ s[i + k] # 0 /\ s[i + (k + 1)] # 0
    BY <1>0, <2>1
  <2>3. s[i + k] >= s[i] + k
    BY <1>2, <2>1
  <2>4. s[i + k] < s[i + (k + 1)]
    BY <2>1, <2>2 DEF InOrder
  <2>5. \A x, y, z \in Nat : x >= z + k /\ x < y => y >= z + (k + 1)
    OBVIOUS
  <2> QED BY <2>2, <2>3, <2>4, <2>5
<1>3. Nat \subseteq S
  <2> HIDE DEF S
  <2> QED BY <1>1, <1>2, SetInduction
<1>4. j - i \in Nat /\ i + (j - i) = j
  OBVIOUS
<1>5. j - i \in S
  BY <1>3, <1>4
<1> QED BY <1>4, <1>5

\* What is trimmed away was made before the last Limit entries.
LEMMA TrimmedKeeps ==
  ASSUME NEW top \in Nat, NEW s \in Seq(1 .. top), InOrder(s)
  PROVE  /\ History!Trimmed(s) \in Seq(1 .. top) /\ InOrder(History!Trimmed(s))
         /\ \A x \in History!ToSet(s) : x > top - Limit => x \in History!ToSet(History!Trimmed(s))
         /\ \A i \in 1 .. Len(History!Trimmed(s)) : \E j \in 1 .. Len(s) : History!Trimmed(s)[i] = s[j]
<1> PICK n \in Nat : n = Len(s)
  OBVIOUS
<1>0. \A i \in 1 .. n : s[i] \in 1 .. top
  OBVIOUS
<1>1. CASE ~ n > Limit
  BY <1>1 DEF History!Trimmed
<1>2. CASE n > Limit
  <2>0. n - Limit \in Nat
    BY <1>2, HistoryAssumption
  <2> PICK d \in Nat : d = n - Limit
    BY <2>0
  <2> PICK t \in Seq(1 .. top) : t = SubSeq(s, d + 1, n)
    <3>1. d + 1 \in 1 .. n + 1 /\ n \in 0 .. n
      BY <1>2, HistoryAssumption
    <3>2. SubSeq(s, d + 1, n) \in Seq(1 .. top)
      BY <1>0, <3>1, HistoryAssumption
    <3> QED BY <3>2
  <2>1. Len(t) = Limit /\ \A i \in 1 .. Limit : t[i] = s[d + i] /\ d + i \in 1 .. n
    <3>1. Len(t) = Limit
      BY <1>2, HistoryAssumption
    <3>2. \A i \in 1 .. Limit : d + i \in 1 .. n
      BY <1>2, HistoryAssumption
    <3>3. ASSUME NEW i \in 1 .. Limit PROVE t[i] = s[d + i]
      <4>1. (d + 1) + i - 1 = d + i
        BY HistoryAssumption
      <4> QED BY <1>2, <3>1, <4>1, HistoryAssumption
    <3> QED BY <3>1, <3>2, <3>3
  <2>2. History!Trimmed(s) = t
    <3>1. Len(s) - Limit + 1 = d + 1
      BY HistoryAssumption
    <3> QED BY <1>2, <3>1 DEF History!Trimmed
  <2>3. InOrder(t)
    <3> SUFFICES ASSUME NEW i \in 1 .. Limit, NEW j \in 1 .. Limit, i < j, t[i] # 0, t[j] # 0
                 PROVE  t[i] < t[j]
      BY <2>1 DEF InOrder
    <3>1. d + i < d + j /\ d + i \in 1 .. Len(s) /\ d + j \in 1 .. Len(s)
      BY <2>1, HistoryAssumption
    <3> QED BY <2>1, <3>1 DEF InOrder
  <2>4. ASSUME NEW x \in History!ToSet(s), x > top - Limit PROVE x \in History!ToSet(t)
    <3> PICK i \in 1 .. n : s[i] = x
      BY DEF History!ToSet
    <3>1. n \in 1 .. Len(s) /\ i \in 1 .. Len(s) /\ i <= n
      OBVIOUS
    <3>2. s[n] >= s[i] + (n - i)
      BY <3>1, Spaced
    <3>3. s[n] \in 1 .. top /\ s[i] \in 1 .. top
      BY <1>0, <3>1
    <3>4. i > d
      BY <2>4, <3>2, <3>3, HistoryAssumption
    <3>5. i - d \in 1 .. Limit /\ d + (i - d) = i
      BY <3>4, HistoryAssumption
    <3> PICK k \in 1 .. Limit : d + k = i
      BY <3>5
    <3>6. t[k] = x
      BY <2>1
    <3>7. k \in DOMAIN t
      BY <2>1
    <3> QED BY <3>6, <3>7 DEF History!ToSet
  <2>5. \A i \in 1 .. Len(t) : \E j \in 1 .. n : t[i] = s[j]
    BY <2>1
  <2> QED BY <2>2, <2>3, <2>4, <2>5
<1> QED BY <1>1, <1>2

\* What is readable of a file is a subsequence of it, with all that parses.
LEMMA Picks ==
  ASSUME NEW s \in Seq(Nat)
  PROVE  /\ History!Readable(s) \in Seq(Nat)
         /\ \E at \in [1 .. Len(History!Readable(s)) -> 1 .. Len(s)] :
              /\ \A j \in 1 .. Len(History!Readable(s)) :
                   History!Readable(s)[j] = s[at[j]] /\ s[at[j]] # 0
              /\ \A i, j \in 1 .. Len(History!Readable(s)) : i < j => at[i] < at[j]
              /\ \A i \in 1 .. Len(s) :
                   s[i] # 0 => \E j \in 1 .. Len(History!Readable(s)) : at[j] = i
<1> PICK n \in Nat : n = Len(s)
  OBVIOUS
<1> DEFINE parts == [i \in DOMAIN s |-> IF s[i] # 0 THEN <<s[i]>> ELSE <<>>]
<1>1. DOMAIN s = 1 .. n /\ \A i \in 1 .. n : s[i] \in Nat
  OBVIOUS
<1>2. parts \in Seq(Seq(Nat)) /\ Len(parts) = n
  <2>1. \A i \in 1 .. n : parts[i] \in Seq(Nat)
    BY <1>1
  <2>2. parts = [i \in 1 .. n |-> parts[i]]
    BY <1>1
  <2> HIDE DEF parts
  <2> QED BY <2>1, <2>2
<1>3. \A i \in 1 .. n : parts[i] = IF s[i] # 0 THEN <<s[i]>> ELSE <<>>
  BY <1>1
<1> HIDE DEF parts
<1>4. \E f \in [0 .. n -> Seq(Nat)] :
        /\ f[0] = <<>> /\ FlattenSeq(parts) = f[n]
        /\ \A k \in 1 .. n : f[k] = f[k - 1] \o parts[k]
  <2>1. parts \in Seq(Seq(Nat))
    BY <1>2
  <2>2. \E f \in [0 .. Len(parts) -> Seq(Nat)] :
          /\ f[0] = <<>> /\ FlattenSeq(parts) = f[Len(parts)]
          /\ \A k \in 1 .. Len(parts) : f[k] = f[k - 1] \o parts[k]
    BY <2>1, FlattenSteps
  <2> QED BY <1>2, <2>2
<1> PICK f \in [0 .. n -> Seq(Nat)] :
      /\ f[0] = <<>> /\ FlattenSeq(parts) = f[n]
      /\ \A k \in 1 .. n : f[k] = f[k - 1] \o parts[k]
  BY <1>4
<1> DEFINE Sub(k) ==
      \E at \in [1 .. Len(f[k]) -> 1 .. k] :
        /\ \A j \in 1 .. Len(f[k]) : f[k][j] = s[at[j]] /\ s[at[j]] # 0
        /\ \A i, j \in 1 .. Len(f[k]) : i < j => at[i] < at[j]
        /\ \A i \in 1 .. k : s[i] # 0 => \E j \in 1 .. Len(f[k]) : at[j] = i
           S == {k \in Nat : k <= n => Sub(k)}
<1>5. 0 \in S
  <2>1. Len(f[0]) = 0
    OBVIOUS
  <2> DEFINE at == [j \in 1 .. 0 |-> 0]
  <2>2. at \in [1 .. Len(f[0]) -> 1 .. 0] /\ 1 .. Len(f[0]) = {} /\ 1 .. 0 = {}
    BY <2>1
  <2>3. Sub(0)
    BY <2>2
  <2> QED BY <2>3
<1>6. ASSUME NEW k \in Nat, k \in S PROVE k + 1 \in S
  <2> SUFFICES ASSUME k + 1 <= n PROVE Sub(k + 1)
    OBVIOUS
  <2>0. k + 1 \in 1 .. n /\ (k + 1) - 1 = k /\ k \in 0 .. n /\ k + 1 \in 0 .. n /\ k <= n
    OBVIOUS
  <2>1. Sub(k) /\ k + 1 \in 1 .. n /\ (k + 1) - 1 = k /\ k \in 0 .. n /\ k + 1 \in 0 .. n
    BY <1>6, <2>0
  <2> PICK at \in [1 .. Len(f[k]) -> 1 .. k] :
        /\ \A j \in 1 .. Len(f[k]) : f[k][j] = s[at[j]] /\ s[at[j]] # 0
        /\ \A i, j \in 1 .. Len(f[k]) : i < j => at[i] < at[j]
        /\ \A i \in 1 .. k : s[i] # 0 => \E j \in 1 .. Len(f[k]) : at[j] = i
    BY <2>1
  <2>2. f[k] \in Seq(Nat) /\ f[k + 1] = f[k] \o parts[k + 1]
    BY <2>1
  <2>3. CASE s[k + 1] = 0
    <3>1. f[k + 1] = f[k]
      <4>1. parts[k + 1] = <<>>
        BY <1>3, <2>1, <2>3
      <4> QED BY <2>2, <4>1
    <3>2. at \in [1 .. Len(f[k + 1]) -> 1 .. k + 1]
      BY <3>1
    <3>3. \A i \in 1 .. k + 1 : s[i] # 0 => i \in 1 .. k
      BY <2>3
    <3>4. \A i \in 1 .. k + 1 : s[i] # 0 => \E j \in 1 .. Len(f[k + 1]) : at[j] = i
      BY <3>1, <3>3
    <3>5. \A j \in 1 .. Len(f[k + 1]) : f[k + 1][j] = s[at[j]] /\ s[at[j]] # 0
      BY <3>1
    <3>6. \A i, j \in 1 .. Len(f[k + 1]) : i < j => at[i] < at[j]
      BY <3>1
    <3> QED BY <3>2, <3>4, <3>5, <3>6
  <2>4. CASE s[k + 1] # 0
    <3> PICK m \in Nat : m = Len(f[k])
      BY <2>2
    <3>1. f[k + 1] = f[k] \o <<s[k + 1]>>
      BY <1>3, <2>1, <2>2, <2>4
    <3>2. Len(f[k + 1]) = m + 1 /\ f[k + 1][m + 1] = s[k + 1]
          /\ \A j \in 1 .. m : f[k + 1][j] = f[k][j]
      <4>1. s[k + 1] \in Nat
        BY <1>1, <2>1
      <4> QED BY <2>2, <3>1, <4>1
    <3> DEFINE now == [j \in 1 .. m + 1 |-> IF j = m + 1 THEN k + 1 ELSE at[j]]
    <3>a. m + 1 \in 1 .. m + 1 /\ \A j \in 1 .. m : j # m + 1 /\ j \in 1 .. m + 1
      OBVIOUS
    <3>b. \A j \in 1 .. m : at[j] \in 1 .. k
      OBVIOUS
    <3>3. now[m + 1] = k + 1 /\ \A j \in 1 .. m : now[j] = at[j] /\ at[j] \in 1 .. k
      BY <3>a, <3>b
    <3>4. now \in [1 .. m + 1 -> 1 .. k + 1]
      OBVIOUS
    <3>5. \A j \in 1 .. m + 1 : j = m + 1 \/ j \in 1 .. m
      OBVIOUS
    <3> HIDE DEF now
    <3>6. \A j \in 1 .. m + 1 : f[k + 1][j] = s[now[j]] /\ s[now[j]] # 0
      BY <2>4, <3>2, <3>3, <3>5
    <3>7. ASSUME NEW i \in 1 .. m + 1, NEW j \in 1 .. m + 1, i < j PROVE now[i] < now[j]
      <4>1. i \in 1 .. m
        BY <3>7
      <4>2. CASE j = m + 1
        <5>1. now[i] \in 1 .. k /\ now[j] = k + 1
          BY <3>3, <4>1, <4>2
        <5> QED BY <5>1
      <4>3. CASE j \in 1 .. m
        BY <3>3, <3>7, <4>1, <4>3
      <4> QED BY <3>5, <4>2, <4>3
    <3>8. ASSUME NEW i \in 1 .. k + 1, s[i] # 0 PROVE \E j \in 1 .. m + 1 : now[j] = i
      <4>1. CASE i = k + 1
        <5>1. m + 1 \in 1 .. m + 1
          OBVIOUS
        <5> QED BY <3>3, <4>1, <5>1
      <4>2. CASE i # k + 1
        <5>1. i \in 1 .. k
          BY <4>2
        <5>2. PICK j \in 1 .. m : at[j] = i
          BY <3>8, <5>1
        <5>3. j \in 1 .. m + 1
          OBVIOUS
        <5> QED BY <3>3, <5>2, <5>3
      <4> QED BY <4>1, <4>2
    <3>9. now \in [1 .. Len(f[k + 1]) -> 1 .. k + 1]
      BY <3>2, <3>4
    <3>10. \A j \in 1 .. Len(f[k + 1]) : f[k + 1][j] = s[now[j]] /\ s[now[j]] # 0
      BY <3>2, <3>6
    <3>11. \A i, j \in 1 .. Len(f[k + 1]) : i < j => now[i] < now[j]
      BY <3>2, <3>7
    <3>12. \A i \in 1 .. k + 1 : s[i] # 0 => \E j \in 1 .. Len(f[k + 1]) : now[j] = i
      BY <3>2, <3>8
    <3> QED BY <3>9, <3>10, <3>11, <3>12
  <2> QED BY <2>3, <2>4
<1>7. Sub(n)
  <2> HIDE DEF Sub
  <2>1. Nat \subseteq S
    <3> HIDE DEF S
    <3> QED BY <1>5, <1>6, SetInduction
  <2> QED BY <2>1
<1>11. \E at \in [1 .. Len(f[n]) -> 1 .. n] :
         /\ \A j \in 1 .. Len(f[n]) : f[n][j] = s[at[j]] /\ s[at[j]] # 0
         /\ \A i, j \in 1 .. Len(f[n]) : i < j => at[i] < at[j]
         /\ \A i \in 1 .. n : s[i] # 0 => \E j \in 1 .. Len(f[n]) : at[j] = i
  BY <1>7 DEF Sub
<1> HIDE DEF Sub, S
<1> DEFINE r == History!Readable(s)
<1>8. r = f[n] /\ f[n] \in Seq(Nat)
  <2>1. r = FlattenSeq(parts)
    BY DEF parts, History!Readable, History!FlattenSeq, FlattenSeq
  <2>2. n \in 0 .. n
    OBVIOUS
  <2> QED BY <2>1, <2>2
<1> HIDE DEF r
<1>9. 1 .. n = 1 .. Len(s)
  OBVIOUS
<1>10. \E at \in [1 .. Len(r) -> 1 .. Len(s)] :
         /\ \A j \in 1 .. Len(r) : r[j] = s[at[j]] /\ s[at[j]] # 0
         /\ \A i, j \in 1 .. Len(r) : i < j => at[i] < at[j]
         /\ \A i \in 1 .. Len(s) : s[i] # 0 => \E j \in 1 .. Len(r) : at[j] = i
  <2> DEFINE P(x, m) ==
        \E at \in [1 .. Len(x) -> 1 .. m] :
          /\ \A j \in 1 .. Len(x) : x[j] = s[at[j]] /\ s[at[j]] # 0
          /\ \A i, j \in 1 .. Len(x) : i < j => at[i] < at[j]
          /\ \A i \in 1 .. m : s[i] # 0 => \E j \in 1 .. Len(x) : at[j] = i
  <2>1. P(f[n], n)
    BY <1>11
  <2> HIDE DEF P
  <2>2. P(r, Len(s))
    BY <1>8, <2>1
  <2> QED BY <2>2 DEF P
<1>12. r \in Seq(Nat)
  BY <1>8
<1> QED BY <1>10, <1>12 DEF r

\* The lines that parse, all of them, in their order.
LEMMA ReadableKeeps ==
  ASSUME HistoryInv
  PROVE  /\ History!Readable(historyFile) \in Seq(1 .. pushed)
         /\ InOrder(History!Readable(historyFile))
         /\ History!ToSet(historyFile) \ {0} \subseteq History!ToSet(History!Readable(historyFile))
<1> DEFINE r == History!Readable(historyFile)
<1>0. historyFile \in Seq(0 .. pushed) /\ pushed \in Nat /\ InOrder(historyFile)
  BY HistoryAssumption DEF HistoryInv, HistoryTypes
<1>1. \A i \in 1 .. Len(historyFile) : historyFile[i] \in 0 .. pushed
  BY <1>0
<1>f. historyFile \in Seq(Nat)
  BY <1>0, <1>1, Narrowed
<1> HIDE DEF r
<1>3. /\ r \in Seq(Nat)
      /\ \E at \in [1 .. Len(r) -> 1 .. Len(historyFile)] :
           /\ \A j \in 1 .. Len(r) : r[j] = historyFile[at[j]] /\ historyFile[at[j]] # 0
           /\ \A i, j \in 1 .. Len(r) : i < j => at[i] < at[j]
           /\ \A i \in 1 .. Len(historyFile) :
                historyFile[i] # 0 => \E j \in 1 .. Len(r) : at[j] = i
  BY <1>f, Picks DEF r
<1> PICK at \in [1 .. Len(r) -> 1 .. Len(historyFile)] :
       /\ \A j \in 1 .. Len(r) : r[j] = historyFile[at[j]] /\ historyFile[at[j]] # 0
       /\ \A i, j \in 1 .. Len(r) : i < j => at[i] < at[j]
       /\ \A i \in 1 .. Len(historyFile) :
            historyFile[i] # 0 => \E j \in 1 .. Len(r) : at[j] = i
  BY <1>3
<1>4. r \in Seq(1 .. pushed)
  <2>1. ASSUME NEW j \in 1 .. Len(r) PROVE r[j] \in 1 .. pushed
    <3>1. at[j] \in 1 .. Len(historyFile) /\ r[j] = historyFile[at[j]] /\ r[j] # 0
      OBVIOUS
    <3>2. r[j] \in 0 .. pushed /\ r[j] # 0
      BY <1>1, <3>1
    <3> QED BY <1>0, <3>2
  <2>2. r \in Seq(Nat)
    BY <1>3
  <2> QED BY <2>1, <2>2, Narrowed
<1>5. InOrder(r)
  <2> SUFFICES ASSUME NEW i \in 1 .. Len(r), NEW j \in 1 .. Len(r), i < j
               PROVE  r[i] < r[j]
    BY DEF InOrder
  <2>1. at[i] < at[j] /\ at[i] \in 1 .. Len(historyFile) /\ at[j] \in 1 .. Len(historyFile)
    OBVIOUS
  <2>2. r[i] = historyFile[at[i]] /\ r[j] = historyFile[at[j]]
    OBVIOUS
  <2>3. historyFile[at[i]] # 0 /\ historyFile[at[j]] # 0
    OBVIOUS
  <2> QED BY <1>0, <2>1, <2>2, <2>3 DEF InOrder
<1>6. History!ToSet(historyFile) \ {0} \subseteq History!ToSet(r)
  <2> SUFFICES ASSUME NEW i \in 1 .. Len(historyFile), historyFile[i] # 0
               PROVE  historyFile[i] \in History!ToSet(r)
    BY <1>0 DEF History!ToSet
  <2>1. historyFile[i] # 0
    BY <1>1, <1>0
  <2>2. PICK j \in 1 .. Len(r) : at[j] = i
    BY <2>1
  <2>3. r[j] = historyFile[i] /\ j \in DOMAIN r
    BY <2>2, <1>3
  <2> QED BY <2>3 DEF History!ToSet
<1> QED BY <1>4, <1>5, <1>6 DEF r

\* A line at the end of the file, or of what has none.
LEMMA LineKeeps ==
  ASSUME HistoryInv, NEW e \in 0 .. pushed,
         e # 0 => \A i \in 1 .. Len(historyFile) : historyFile[i] # e /\ e = pushed
  PROVE  /\ History!Line(e) \in Seq(0 .. pushed) /\ InOrder(History!Line(e))
         /\ History!Line(e) # <<>>
         /\ ~ragged => History!ToSet(History!Line(e)) = History!ToSet(historyFile) \cup {e}
         /\ ragged => /\ historyFile[Len(historyFile)] \in 0 .. pushed
                      /\ History!ToSet(historyFile) \ {historyFile[Len(historyFile)]}
                           \subseteq History!ToSet(History!Line(e))
<1> PICK n \in Nat : n = Len(historyFile)
  BY DEF HistoryInv, HistoryTypes
<1> DEFINE s == historyFile
<1>0. s \in Seq(0 .. pushed) /\ pushed \in Nat /\ InOrder(s) /\ ragged \in BOOLEAN
      /\ DOMAIN s = 1 .. n /\ \A i \in 1 .. n : s[i] \in 0 .. pushed
  BY HistoryAssumption DEF HistoryInv, HistoryTypes
<1>1. CASE ~ragged
  <2>0. s \in Seq(0 .. pushed) /\ e \in 0 .. pushed
    BY <1>0
  <2>t. Append(s, e) \in Seq(0 .. pushed)
    BY <2>0
  <2> PICK t \in Seq(0 .. pushed) : t = Append(s, e)
    BY <2>t
  <2>1. History!Line(e) = t
    BY <1>1 DEF History!Line
  <2>2. Len(t) = n + 1 /\ t[n + 1] = e /\ \A i \in 1 .. n : t[i] = s[i]
    BY <1>0
  <2>3. \A i \in 1 .. n + 1 : i = n + 1 \/ i \in 1 .. n
    OBVIOUS
  <2>4. InOrder(t)
    <3> SUFFICES ASSUME NEW i \in 1 .. n + 1, NEW j \in 1 .. n + 1, i < j, t[i] # 0, t[j] # 0
                 PROVE  t[i] < t[j]
      BY <2>2 DEF InOrder
    <3>1. i \in 1 .. n /\ t[i] = s[i] /\ s[i] \in 0 .. pushed
      BY <1>0, <2>2
    <3>2. CASE j = n + 1
      BY <1>0, <2>2, <3>1, <3>2
    <3>3. CASE j \in 1 .. n
      <4>1. t[j] = s[j]
        BY <2>2, <3>3
      <4> QED BY <1>0, <3>1, <3>3, <4>1 DEF InOrder
    <3> QED BY <2>3, <3>2, <3>3
  <2>5. History!ToSet(t) = History!ToSet(s) \cup {e}
    <3>1. DOMAIN t = 1 .. n + 1 /\ DOMAIN s = 1 .. n
      BY <1>0, <2>2
    <3>2. n + 1 \in 1 .. n + 1 /\ \A i \in 1 .. n : i \in 1 .. n + 1
      OBVIOUS
    <3> QED BY <2>2, <2>3, <3>1, <3>2 DEF History!ToSet
  <2> QED BY <1>1, <2>1, <2>2, <2>4, <2>5
<1>2. CASE ragged
  <2>0. n \in 1 .. n /\ n # 0
    <3>1. s # <<>>
      BY <1>2 DEF HistoryInv
    <3> QED BY <1>0, <3>1
  <2> DEFINE t == [s EXCEPT ![n] = 0]
  <2>1. History!Line(e) = t
    BY <1>2 DEF History!Line
  <2>2. t \in Seq(0 .. pushed) /\ Len(t) = n /\ t[n] = 0
        /\ \A i \in 1 .. n : i # n => t[i] = s[i]
    BY <1>0, <2>0
  <2> HIDE DEF t
  <2>3. InOrder(t)
    <3> SUFFICES ASSUME NEW i \in 1 .. n, NEW j \in 1 .. n, i < j, t[i] # 0, t[j] # 0
                 PROVE  t[i] < t[j]
      BY <2>2 DEF InOrder
    <3>1. t[i] = s[i] /\ t[j] = s[j]
      BY <2>2
    <3> QED BY <1>0, <3>1 DEF InOrder
  <2>4. History!ToSet(s) \ {s[n]} \subseteq History!ToSet(t)
    <3> SUFFICES ASSUME NEW i \in 1 .. n, s[i] # s[n] PROVE s[i] \in History!ToSet(t)
      BY <1>0 DEF History!ToSet
    <3>1. i # n /\ t[i] = s[i] /\ i \in DOMAIN t
      BY <2>2
    <3> QED BY <3>1 DEF History!ToSet
  <2>5. t # <<>>
    BY <2>0, <2>2
  <2> QED BY <1>0, <1>2, <2>0, <2>1, <2>2, <2>3, <2>4, <2>5
<1> QED BY <1>0, <1>1, <1>2

\* A start that reads the file finds what is to be kept there; one that does not,
\* nothing.
LEMMA LoadHistory == HistoryInv /\ History!Load => HistoryInv'
<1> SUFFICES ASSUME HistoryInv, History!Load PROVE HistoryInv'
  OBVIOUS
<1> DEFINE r == History!Readable(historyFile)
<1>0. HistoryTypes /\ pushed \in Nat
  BY HistoryAssumption DEF HistoryInv, HistoryTypes
<1>1. /\ step = "off" /\ step' = "idle"
      /\ UNCHANGED <<historyFile, ragged, pushed, cleared, damaged, emptied, torn>>
  BY DEF History!Load
<1>f. historyFaults' \in 0 .. MaxHistoryFaults
  <2>1. UNCHANGED historyFaults \/ History!Fault
    BY Zenon DEF History!Load
  <2>2. CASE UNCHANGED historyFaults
    BY <1>0, <2>2 DEF HistoryTypes
  <2>3. CASE History!Fault
    BY <1>0, <2>3, HistoryAssumption DEF History!Fault, HistoryTypes
  <2> QED BY <2>1, <2>2, <2>3
<1>2. r \in Seq(1 .. pushed) /\ InOrder(r)
      /\ History!ToSet(historyFile) \ {0} \subseteq History!ToSet(r)
  BY ReadableKeeps
<1>d. \/ entries' = History!Trimmed(r) /\ since' = 0
      \/ entries' = <<>> /\ since' = pushed
  BY DEF History!Load
<1> HIDE DEF r
<1>5. History!Kept' = History!Kept /\ \A e \in History!Kept : e \in 1 .. pushed /\ e > pushed - Limit
  BY <1>0, <1>1, HistoryAssumption DEF History!Kept, HistoryTypes
<1>3. /\ entries' \in Seq(1 .. pushed) /\ InOrder(entries') /\ since' \in 0 .. pushed
      /\ \A i \in 1 .. Len(entries') : entries'[i] > since'
      /\ ~emptied => {e \in History!Kept \ damaged : e > since'} \subseteq History!ToSet(entries')
  <2>1. CASE entries' = History!Trimmed(r) /\ since' = 0
    <3>1. /\ entries' \in Seq(1 .. pushed) /\ InOrder(entries')
          /\ \A x \in History!ToSet(r) : x > pushed - Limit => x \in History!ToSet(entries')
      BY <1>0, <1>2, <2>1, TrimmedKeeps
    <3>2. \A i \in 1 .. Len(entries') : entries'[i] > since'
      BY <1>0, <2>1, <3>1
    <3>3. ASSUME ~emptied, NEW e \in History!Kept \ damaged PROVE e \in History!ToSet(entries')
      <4>1. e \in History!ToSet(historyFile)
        BY <1>1, <3>3 DEF HistoryInv, InFile
      <4>2. e # 0 /\ e > pushed - Limit
        BY <1>5
      <4> QED BY <1>2, <3>1, <4>1, <4>2
    <3> QED BY <1>0, <2>1, <3>1, <3>2, <3>3
  <2>2. CASE entries' = <<>> /\ since' = pushed
    <3>1. <<>> \in Seq(1 .. pushed) /\ Len(<<>>) = 0 /\ InOrder(<<>>)
      BY DEF InOrder
    <3>2. \A e \in History!Kept : ~ e > pushed
      BY <1>0, <1>5
    <3> QED BY <1>0, <2>2, <3>1, <3>2
  <2> QED BY <1>d, <2>1, <2>2
<1>4. HistoryTypes'
  BY <1>0, <1>1, <1>3, <1>f DEF HistoryTypes
<1>6. ~emptied => InMemory'
  BY <1>1, <1>3, <1>5 DEF InMemory, History!ToSet
<1>7. ~emptied => InFile'
  BY <1>1, <1>5 DEF HistoryInv, InFile, History!ToSet
<1>8. InOrder(historyFile') /\ (ragged' => historyFile' # <<>>) /\ step' = "idle"
  BY <1>1 DEF HistoryInv
<1>9. OfThisRun'
  BY <1>1, <1>3 DEF OfThisRun
<1> QED BY <1>1, <1>3, <1>4, <1>6, <1>7, <1>8, <1>9 DEF HistoryInv, InOrder

\* Memory first: the last Limit entries are there with the new one.
LEMMA PushHistory == HistoryInv /\ History!Push => HistoryInv'
<1> SUFFICES ASSUME HistoryInv, History!Push PROVE HistoryInv'
  OBVIOUS
<1>0. HistoryTypes /\ pushed \in Nat
  BY HistoryAssumption DEF HistoryInv, HistoryTypes
<1> PICK more : more = Append(entries, pushed')
  OBVIOUS
<1>1. /\ step = "idle" /\ pushed < MaxPushes /\ pushed' = pushed + 1
      /\ \/ /\ Len(more) > (Limit * 6) \div 5
            /\ entries' = History!Trimmed(more) /\ step' = "truncate"
         \/ entries' = more /\ step' = "line"
      /\ UNCHANGED <<historyFile, ragged, historyFaults, cleared, damaged, emptied, torn, since>>
  BY DEF History!Push, History!world
<1> PICK n \in Nat : n = Len(entries)
  BY <1>0 DEF HistoryTypes
<1>2. entries \in Seq(1 .. pushed') /\ pushed' \in 1 .. pushed'
  <2>1. \A i \in 1 .. Len(entries) : entries[i] \in 1 .. pushed'
    BY <1>0, <1>1 DEF HistoryTypes
  <2>2. entries \in Seq(1 .. pushed)
    BY <1>0 DEF HistoryTypes
  <2> QED BY <1>0, <1>1, <2>1, <2>2, Narrowed
<1>3. /\ more \in Seq(1 .. pushed') /\ Len(more) = n + 1 /\ more[n + 1] = pushed'
      /\ \A i \in 1 .. n : more[i] = entries[i]
  BY <1>2
<1>4. \A i \in 1 .. n + 1 : i = n + 1 \/ i \in 1 .. n
  OBVIOUS
<1>5. InOrder(more)
  <2> SUFFICES ASSUME NEW i \in 1 .. n + 1, NEW j \in 1 .. n + 1, i < j
               PROVE  more[i] < more[j]
    BY <1>3 DEF InOrder
  <2>1. i \in 1 .. n /\ more[i] = entries[i] /\ entries[i] \in 1 .. pushed
    BY <1>0, <1>3 DEF HistoryTypes
  <2>2. CASE j = n + 1
    BY <1>0, <1>1, <1>3, <2>1, <2>2
  <2>3. CASE j \in 1 .. n
    <3>1. more[j] = entries[j] /\ entries[j] \in 1 .. pushed
      BY <1>0, <1>3, <2>3 DEF HistoryTypes
    <3>2. entries[i] # 0 /\ entries[j] # 0 /\ InOrder(entries)
      BY <1>0, <2>1, <3>1 DEF HistoryInv
    <3> QED BY <2>1, <2>3, <3>1, <3>2 DEF InOrder
  <2> QED BY <1>4, <2>2, <2>3
<1>6. History!ToSet(more) = History!ToSet(entries) \cup {pushed'}
  <2>1. DOMAIN more = 1 .. n + 1 /\ DOMAIN entries = 1 .. n
    BY <1>2, <1>3
  <2>2. n + 1 \in 1 .. n + 1 /\ \A i \in 1 .. n : i \in 1 .. n + 1
    OBVIOUS
  <2> QED BY <1>3, <1>4, <2>1, <2>2 DEF History!ToSet
<1>7. /\ entries' \in Seq(1 .. pushed') /\ InOrder(entries')
      /\ \A x \in History!ToSet(more) : x > pushed' - Limit => x \in History!ToSet(entries')
  <2>1. CASE entries' = more
    BY <1>3, <1>5, <2>1
  <2>2. CASE entries' = History!Trimmed(more)
    <3>1. pushed' \in Nat
      BY <1>0, <1>1
    <3> QED BY <1>3, <1>5, <2>2, <3>1, TrimmedKeeps
  <2>3. entries' = more \/ entries' = History!Trimmed(more)
    BY <1>1
  <2> QED BY <2>1, <2>2, <2>3
<1>a. \A i \in 1 .. Len(entries') : \E j \in 1 .. Len(more) : entries'[i] = more[j]
  <2>1. CASE entries' = more
    BY <2>1
  <2>2. CASE entries' = History!Trimmed(more)
    <3>1. pushed' \in Nat
      BY <1>0, <1>1
    <3>2. \A i \in 1 .. Len(History!Trimmed(more)) :
            \E j \in 1 .. Len(more) : History!Trimmed(more)[i] = more[j]
      BY <1>3, <1>5, <3>1, TrimmedKeeps
    <3> QED BY Zenon, <2>2, <3>2
  <2>3. entries' = more \/ entries' = History!Trimmed(more)
    BY <1>1
  <2> QED BY Zenon, <2>1, <2>2, <2>3
<1>8. /\ History!Kept' \subseteq History!Kept \cup {pushed'}
      /\ \A e \in History!Kept' : e > pushed' - Limit
  <2>1. pushed' = pushed + 1 /\ cleared' = cleared
    BY <1>1
  <2>2. cleared \in Nat /\ pushed \in Nat /\ Limit \in Nat
    BY <1>0, HistoryAssumption DEF HistoryTypes
  <2> QED BY <2>1, <2>2 DEF History!Kept
<1>9. HistoryTypes'
  <2>1. historyFile \in Seq(0 .. pushed')
    <3>1. historyFile \in Seq(0 .. pushed)
      BY <1>0 DEF HistoryTypes
    <3>2. \A i \in 1 .. Len(historyFile) : historyFile[i] \in 0 .. pushed'
      BY <1>0, <1>1, <3>1
    <3> QED BY <3>1, <3>2, Narrowed
  <2>2. /\ pushed' \in 0 .. MaxPushes /\ cleared \in 0 .. pushed'
        /\ damaged \subseteq 1 .. pushed' /\ since \in 0 .. pushed'
    BY <1>0, <1>1, HistoryAssumption DEF HistoryTypes
  <2> QED BY <1>0, <1>1, <1>7, <2>1, <2>2 DEF HistoryTypes
<1>10. ~emptied => InMemory'
  <2> SUFFICES ASSUME ~emptied, NEW e \in History!Kept' \ damaged, e > since
               PROVE  e \in History!ToSet(entries')
    BY <1>1 DEF InMemory, History!ToSet
  <2>1. e \in History!ToSet(more)
    BY <1>1, <1>6, <1>8 DEF HistoryInv, InMemory
  <2> QED BY <1>7, <1>8, <2>1
<1>11. ~emptied => InFile'
  <2> SUFFICES ASSUME ~emptied, NEW e \in History!Kept' \ damaged, e # pushed'
               PROVE  e \in History!ToSet(historyFile)
    BY <1>1 DEF InFile, History!ToSet
  <2> QED BY <1>1, <1>8 DEF HistoryInv, InFile
<1>12. \A i \in 1 .. Len(historyFile) : historyFile[i] # pushed'
  BY <1>0, <1>1 DEF HistoryTypes
<1>13. pushed' # 0 /\ InOrder(historyFile') /\ (ragged' => historyFile' # <<>>)
  BY <1>0, <1>1 DEF HistoryInv
<1>14. \A j \in 1 .. n + 1 : more[j] > since
  <2>1. pushed' > since
    BY <1>0, <1>1 DEF HistoryTypes
  <2>2. \A j \in 1 .. n : entries[j] > since
    BY DEF HistoryInv, OfThisRun
  <2> QED BY <1>3, <1>4, <2>1, <2>2
<1>15. step' \in {"truncate", "body"} => since' <= pushed' - Limit
  <2> SUFFICES ASSUME step' = "truncate" PROVE since <= pushed' - Limit
    BY <1>1
  <2>1. n + 1 > (Limit * 6) \div 5
    BY <1>1, <1>3
  <2>2. n + 1 > Limit
    <3>1. (Limit * 6) \div 5 >= Limit /\ (Limit * 6) \div 5 \in Nat
      BY HistoryAssumption
    <3> QED BY <2>1, <3>1, HistoryAssumption
  <2>3. 1 \in 1 .. Len(more) /\ n + 1 \in 1 .. Len(more) /\ 1 <= n + 1 /\ 1 \in 1 .. n + 1
    BY <1>3
  <2>4. more[n + 1] >= more[1] + ((n + 1) - 1)
    <3>1. pushed' \in Nat
      BY <1>0, <1>1
    <3> QED BY <1>3, <1>5, <2>3, <3>1, Spaced
  <2>5. more[1] \in 1 .. pushed' /\ more[1] > since
    BY <1>3, <1>14, <2>3
  <2>6. since \in Nat /\ pushed' \in Nat /\ Limit \in Nat
    BY <1>0, <1>1, HistoryAssumption DEF HistoryTypes
  <2>7. pushed' >= more[1] + n
    BY <1>3, <2>4, <2>5, <2>6
  <2>8. \A x, l, k, f, y \in Nat : k + 1 > l /\ f > x /\ y >= f + k => x <= y - l
    OBVIOUS
  <2>9. n \in Nat /\ more[1] \in Nat
    BY <2>5, <2>6
  <2> QED BY <2>2, <2>5, <2>6, <2>7, <2>8, <2>9
<1>16. OfThisRun'
  <2>1. \A i \in 1 .. Len(entries') : entries'[i] > since'
    BY <1>1, <1>3, <1>a, <1>14
  <2> QED BY <1>15, <2>1 DEF OfThisRun
<1> QED BY <1>1, <1>7, <1>9, <1>10, <1>11, <1>12, <1>13, <1>16 DEF HistoryInv, InOrder

\* A write leaves what is in memory; the last line may become unreadable.
LEMMA WriteHistory ==
  ASSUME HistoryInv, UNCHANGED <<entries, pushed, cleared, since>>, HistoryTypes',
         History!WriteLine \/ History!WriteNewline \/ History!Truncate
  PROVE  HistoryInv'
<1>0. HistoryTypes /\ pushed \in Nat
  BY HistoryAssumption DEF HistoryInv, HistoryTypes
<1>1. History!Kept' = History!Kept /\ \A e \in History!Kept : e # 0
  BY <1>0 DEF History!Kept, HistoryTypes
<1>2. History!ToSet(entries)' = History!ToSet(entries) /\ InOrder(entries')
  BY DEF History!ToSet, InOrder, HistoryInv
<1>3. CASE History!WriteLine
  <2>1. /\ step = "line" /\ step' = "newline" /\ ragged' = TRUE /\ emptied' = emptied
        /\ historyFile' = History!Line(pushed)
        /\ damaged' = damaged \cup
             (IF ragged THEN {pushed, historyFile[Len(historyFile)]} \ {0} ELSE {})
    BY <1>3 DEF History!WriteLine
  <2>2. /\ InOrder(historyFile') /\ historyFile' # <<>>
        /\ ~ragged =>
             History!ToSet(historyFile') = History!ToSet(historyFile) \cup {pushed}
        /\ ragged => History!ToSet(historyFile) \ {historyFile[Len(historyFile)]}
                       \subseteq History!ToSet(historyFile')
    <3>1. pushed \in 0 .. pushed
          /\ (pushed # 0 => \A i \in 1 .. Len(historyFile) :
                              historyFile[i] # pushed /\ pushed = pushed)
      BY <1>0, <2>1 DEF HistoryInv
    <3> QED BY <2>1, <3>1, LineKeeps
  <2>3. ~emptied => InMemory'
    BY <1>1, <1>2, <2>1 DEF HistoryInv, InMemory
  <2>4. ~emptied => InFile'
    <3> SUFFICES ASSUME ~emptied, NEW e \in History!Kept \ damaged'
                 PROVE  e \in History!ToSet(historyFile')
      BY <1>1, <2>1 DEF InFile, History!ToSet
    <3>1. e # 0 /\ (e # pushed => e \in History!ToSet(historyFile))
      BY <1>1, <2>1 DEF HistoryInv, InFile
    <3>2. ragged => e # pushed /\ e # historyFile[Len(historyFile)]
      BY <2>1, <3>1
    <3> QED BY <1>0, <2>2, <3>1, <3>2 DEF HistoryTypes
  <2>5. OfThisRun'
    BY <2>1 DEF HistoryInv, OfThisRun
  <2> QED BY <1>2, <2>1, <2>2, <2>3, <2>4, <2>5 DEF HistoryInv, InOrder
<1>4. CASE History!WriteNewline
  <2>1. /\ step = "newline" /\ step' = "idle" /\ ragged' = FALSE
        /\ UNCHANGED <<historyFile, damaged, emptied>>
    BY <1>4 DEF History!WriteNewline, History!world
  <2>2. InOrder(historyFile')
    BY <2>1 DEF HistoryInv
  <2>3. ~emptied => InMemory' /\ InFile'
    BY <1>1, <1>2, <2>1 DEF HistoryInv, InMemory, InFile, History!ToSet
  <2>4. OfThisRun'
    BY <2>1 DEF HistoryInv, OfThisRun
  <2> QED BY <1>2, <2>1, <2>2, <2>3, <2>4 DEF HistoryInv, InOrder
<1>5. CASE History!Truncate
  <2>1. /\ step = "truncate" /\ step' = "body" /\ ragged' = FALSE /\ historyFile' = <<>>
        /\ UNCHANGED <<damaged, emptied>>
    BY <1>5 DEF History!Truncate
  <2>2. InOrder(historyFile')
    BY <2>1 DEF InOrder
  <2>3. ~emptied => InMemory' /\ InFile'
    BY <1>1, <1>2, <2>1 DEF HistoryInv, InMemory, InFile
  <2>4. OfThisRun'
    BY <2>1 DEF HistoryInv, OfThisRun
  <2> QED BY <1>2, <2>1, <2>2, <2>3, <2>4 DEF HistoryInv, InOrder
<1> QED BY <1>3, <1>4, <1>5

\* A rewrite stores all that is to be kept, whatever this run found at its start.
LEMMA BodyHistory == HistoryInv /\ History!WriteBody => HistoryInv'
<1> SUFFICES ASSUME HistoryInv, History!WriteBody PROVE HistoryInv'
  OBVIOUS
<1>0. HistoryTypes /\ pushed \in Nat
  BY HistoryAssumption DEF HistoryInv, HistoryTypes
<1>1. /\ step = "body" /\ step' = "idle" /\ historyFile' = entries
      /\ damaged' = damaged \ History!ToSet(entries)
      /\ UNCHANGED <<entries, ragged, pushed, historyFaults, cleared, emptied, torn, since>>
  BY DEF History!WriteBody
<1>2. ~ragged
  BY <1>1 DEF HistoryInv
<1>3. HistoryTypes'
  <2>1. entries \in Seq(1 .. pushed) /\ \A i \in 1 .. Len(entries) : entries[i] \in 0 .. pushed
    BY <1>0 DEF HistoryTypes
  <2>2. entries \in Seq(0 .. pushed)
    BY <2>1, Narrowed
  <2> QED BY <1>0, <1>1, <2>2 DEF HistoryTypes
<1>4. History!Kept' = History!Kept /\ History!ToSet(entries)' = History!ToSet(entries)
      /\ History!ToSet(historyFile)' = History!ToSet(entries)
  BY <1>1 DEF History!Kept, History!ToSet
<1>5. \A e \in History!Kept : e > since
  <2>1. since <= pushed - Limit
    BY <1>1 DEF HistoryInv, OfThisRun
  <2>2. since \in Nat /\ Limit \in Nat /\ \A e \in History!Kept : e \in Nat /\ e > pushed - Limit
    BY <1>0, HistoryAssumption DEF History!Kept, HistoryTypes
  <2> QED BY <1>0, <2>1, <2>2
<1>6. ~emptied => InMemory' /\ InFile'
  BY <1>1, <1>4, <1>5 DEF HistoryInv, InMemory, InFile
<1>7. OfThisRun'
  BY <1>1 DEF HistoryInv, OfThisRun
<1> QED BY <1>1, <1>2, <1>3, <1>6, <1>7 DEF HistoryInv, InOrder

\* What a crash or a failed write leaves: of what is to be kept only what was
\* being written is lost, with the line it was appended to.
LEMMA CutHistory ==
  ASSUME HistoryInv, History!CutShort, step \in {"line", "newline", "truncate", "body"},
         step' \in {"off", "idle"}, UNCHANGED <<pushed, cleared, since>>,
         historyFaults' \in 0 .. MaxHistoryFaults,
         entries' = entries \/ (entries' = <<>> /\ step' = "off")
  PROVE  HistoryInv'
<1>0. HistoryTypes /\ pushed \in Nat
  BY HistoryAssumption DEF HistoryInv, HistoryTypes
<1>1. History!Kept' = History!Kept /\ \A e \in History!Kept : e # 0
  BY <1>0 DEF History!Kept, HistoryTypes
<1> DEFINE last == historyFile[Len(historyFile)]
<1>2. /\ emptied' = (emptied \/ step = "body")
      /\ damaged' = damaged \cup
           (IF step = "line" /\ ragged /\ historyFile' # historyFile THEN {pushed, last} \ {0}
            ELSE IF step \in {"line", "newline", "truncate"} THEN {pushed} ELSE {})
      /\ \/ UNCHANGED <<historyFile, ragged>>
         \/ step = "line" /\ historyFile' = History!Line(0) /\ ragged' = TRUE
         \/ /\ step = "body" /\ ragged' = TRUE
            /\ \E k \in 0 .. Len(entries) - 1 : historyFile' = Append(SubSeq(entries, 1, k), 0)
  BY DEF History!CutShort
<1>t. torn' \in BOOLEAN
  BY <1>0 DEF History!CutShort, HistoryTypes
<1>3. /\ History!Line(0) \in Seq(0 .. pushed) /\ InOrder(History!Line(0)) /\ History!Line(0) # <<>>
      /\ ~ragged => History!ToSet(History!Line(0)) = History!ToSet(historyFile) \cup {0}
      /\ ragged => last \in 0 .. pushed /\ History!ToSet(historyFile) \ {last}
                                             \subseteq History!ToSet(History!Line(0))
  <2>1. 0 \in 0 .. pushed
    BY <1>0
  <2> QED BY <2>1, LineKeeps
<1>4. /\ historyFile' \in Seq(0 .. pushed) /\ InOrder(historyFile')
      /\ ragged' \in BOOLEAN /\ (ragged' => historyFile' # <<>>)
  <2>1. CASE UNCHANGED <<historyFile, ragged>>
    BY <1>0, <2>1 DEF HistoryInv, HistoryTypes
  <2>2. CASE historyFile' = History!Line(0) /\ ragged' = TRUE
    BY <1>3, <2>2
  <2>3. CASE /\ ragged' = TRUE
             /\ \E k \in 0 .. Len(entries) - 1 : historyFile' = Append(SubSeq(entries, 1, k), 0)
    <3> PICK k \in 0 .. Len(entries) - 1 : historyFile' = Append(SubSeq(entries, 1, k), 0)
      BY <2>3
    <3>1. entries \in Seq(1 .. pushed) /\ Len(entries) \in Nat
      BY <1>0 DEF HistoryTypes
    <3>2. \A i \in 1 .. Len(entries) : entries[i] \in 0 .. pushed
      BY <1>0, <3>1
    <3>3. entries \in Seq(0 .. pushed)
      BY <3>1, <3>2, Narrowed
    <3> PICK t \in Seq(0 .. pushed) : t = SubSeq(entries, 1, k)
      <4>1. SubSeq(entries, 1, k) \in Seq(0 .. pushed)
        BY <3>2, <3>3
      <4> QED BY <4>1
    <3>4. Len(t) = k /\ \A i \in 1 .. k : t[i] = entries[i] /\ i \in 1 .. Len(entries)
      BY <3>1, <3>3
    <3>5. 0 \in 0 .. pushed
      BY <1>0
    <3>a. t \in Seq(0 .. pushed) /\ 0 \in 0 .. pushed
      BY <3>5
    <3>b. Append(t, 0) \in Seq(0 .. pushed)
      BY <3>a
    <3> PICK u \in Seq(0 .. pushed) : u = Append(t, 0)
      BY <3>b
    <3>6. u = historyFile' /\ Len(u) = k + 1 /\ u[k + 1] = 0 /\ \A i \in 1 .. k : u[i] = t[i]
      BY <3>4, <3>5
    <3>7. \A i \in 1 .. k + 1 : i = k + 1 \/ i \in 1 .. k
      OBVIOUS
    <3>8. InOrder(u)
      <4> SUFFICES ASSUME NEW i \in 1 .. k + 1, NEW j \in 1 .. k + 1, i < j, u[i] # 0, u[j] # 0
                   PROVE  u[i] < u[j]
        BY <3>6 DEF InOrder
      <4>1. i \in 1 .. k /\ j \in 1 .. k
        BY <3>6, <3>7
      <4>2. u[i] = entries[i] /\ u[j] = entries[j]
        BY <3>4, <3>6, <4>1
      <4> QED BY <3>4, <4>1, <4>2 DEF HistoryInv, InOrder
    <3>9. u # <<>>
      <4>1. k + 1 # 0 /\ Len(<<>>) = 0
        OBVIOUS
      <4> QED BY <3>6, <4>1
    <3> QED BY <2>3, <3>6, <3>8, <3>9
  <2> QED BY <1>2, <2>1, <2>2, <2>3
<1>5. damaged \subseteq damaged' /\ damaged' \subseteq 1 .. pushed
  <2>1. step = "line" /\ ragged => last \in 0 .. pushed
    BY <1>3
  <2>2. step \in {"line", "newline", "truncate"} => pushed # 0
    BY DEF HistoryInv
  <2>3. \A x \in damaged' : \/ x \in damaged
                            \/ step \in {"line", "newline", "truncate"} /\ x = pushed
                            \/ step = "line" /\ ragged /\ x = last /\ x # 0
    BY <1>2
  <2>4. \A x : x \in 0 .. pushed /\ x # 0 => x \in 1 .. pushed
    BY <1>0
  <2>5. pushed \in 0 .. pushed
    BY <1>0
  <2>6. damaged \subseteq damaged'
    BY <1>2
  <2>7. damaged \subseteq 1 .. pushed
    BY <1>0 DEF HistoryTypes
  <2> HIDE DEF last
  <2> QED BY <2>1, <2>2, <2>3, <2>4, <2>5, <2>6, <2>7
<1>6. HistoryTypes'
  <2>1. entries' \in Seq(1 .. pushed)
    <3>1. entries \in Seq(1 .. pushed)
      BY <1>0 DEF HistoryTypes
    <3>2. <<>> \in Seq(1 .. pushed)
      OBVIOUS
    <3> QED BY <3>1, <3>2
  <2>2. emptied' \in BOOLEAN
    BY <1>0, <1>2 DEF HistoryTypes
  <2> QED BY <1>0, <1>4, <1>5, <1>t, <2>1, <2>2 DEF HistoryTypes
<1>7. ~emptied' => InMemory'
  BY <1>1, <1>2, <1>5 DEF HistoryInv, InMemory, History!ToSet
<1>8. ~emptied' => InFile'
  <2> SUFFICES ASSUME ~emptied', NEW e \in History!Kept \ damaged'
               PROVE  e \in History!ToSet(historyFile')
    BY <1>1 DEF InFile, History!ToSet
  <2>0. ~emptied /\ step # "body" /\ e # 0 /\ e \notin damaged
    BY <1>1, <1>2, <1>5
  <2>1. e # pushed /\ e \in History!ToSet(historyFile)
    <3>1. CASE step = "newline"
      BY <1>2, <2>0, <3>1 DEF HistoryInv, InFile
    <3>2. CASE step \in {"line", "truncate"}
      <4>1. pushed \in damaged'
        BY <1>2, <2>0, <3>2 DEF HistoryInv
      <4> QED BY <2>0, <3>2, <4>1 DEF HistoryInv, InFile
    <3> QED BY <2>0, <3>1, <3>2
  <2>2. CASE historyFile' = historyFile
    BY <2>1, <2>2
  <2>3. CASE historyFile' # historyFile
    <3>1. step = "line" /\ historyFile' = History!Line(0)
      BY <1>2, <2>0, <2>3
    <3>2. ragged => e # last
      BY <1>2, <2>0, <2>3, <3>1
    <3> QED BY <1>0, <1>3, <2>1, <3>1, <3>2 DEF HistoryTypes
  <2> QED BY <2>2, <2>3
<1>9. InOrder(entries')
  BY DEF HistoryInv, InOrder
<1>10. OfThisRun'
  <2>1. \A i \in 1 .. Len(entries') : entries'[i] > since
    <3>1. CASE entries' = entries
      BY <3>1 DEF HistoryInv, OfThisRun
    <3>2. CASE entries' = <<>>
      BY <3>2
    <3> QED BY <3>1, <3>2
  <2> QED BY <2>1 DEF OfThisRun
<1> QED BY <1>4, <1>6, <1>7, <1>8, <1>9, <1>10 DEF HistoryInv

LEMMA StepHistory == HistoryInv /\ [History!Next]_(History!vars) => HistoryInv'
<1> SUFFICES ASSUME HistoryInv, [History!Next]_(History!vars) PROVE HistoryInv'
  OBVIOUS
<1>0. HistoryTypes /\ pushed \in Nat
  BY HistoryAssumption DEF HistoryInv, HistoryTypes
<1>1. ASSUME History!WriteLine \/ History!WriteNewline \/ History!Truncate PROVE HistoryInv'
  <2>1. UNCHANGED <<entries, pushed, cleared, since>>
    BY <1>1 DEF History!WriteLine, History!WriteNewline, History!Truncate, History!world
  <2>2. HistoryTypes'
    <3>1. CASE History!WriteLine
      <4>1. /\ step = "line" /\ step' = "newline" /\ ragged' = TRUE
            /\ historyFile' = History!Line(pushed)
            /\ damaged' = damaged \cup
                 (IF ragged THEN {pushed, historyFile[Len(historyFile)]} \ {0} ELSE {})
            /\ UNCHANGED <<entries, pushed, historyFaults, cleared, emptied, torn, since>>
        BY <3>1 DEF History!WriteLine
      <4>2. pushed \in 0 .. pushed /\ pushed # 0
            /\ (pushed # 0 => \A i \in 1 .. Len(historyFile) :
                                historyFile[i] # pushed /\ pushed = pushed)
        BY <1>0, <4>1 DEF HistoryInv
      <4>3. /\ historyFile' \in Seq(0 .. pushed)
            /\ ragged => historyFile[Len(historyFile)] \in 0 .. pushed
        BY <4>1, <4>2, LineKeeps
      <4>4. damaged' \subseteq 1 .. pushed
        <5>1. \A x \in damaged' : \/ x \in damaged \/ x = pushed
                                  \/ ragged /\ x = historyFile[Len(historyFile)] /\ x # 0
          BY <4>1
        <5>2. \A x : x \in 0 .. pushed /\ x # 0 => x \in 1 .. pushed
          BY <1>0
        <5> QED BY <1>0, <4>2, <4>3, <5>1, <5>2 DEF HistoryTypes
      <4> QED BY <1>0, <4>1, <4>3, <4>4 DEF HistoryTypes
    <3>2. CASE History!WriteNewline
      BY <1>0, <3>2 DEF History!WriteNewline, History!world, HistoryTypes
    <3>3. CASE History!Truncate
      <4>1. <<>> \in Seq(0 .. pushed)
        OBVIOUS
      <4> QED BY <1>0, <3>3, <4>1 DEF History!Truncate, HistoryTypes
    <3> QED BY <1>1, <3>1, <3>2, <3>3
  <2> QED BY <1>1, <2>1, <2>2, WriteHistory
<1>2. ASSUME History!Fail \/ History!Crash PROVE HistoryInv'
  <2>1. /\ History!CutShort /\ UNCHANGED <<pushed, cleared, since>>
        /\ step' \in {"off", "idle"} /\ step \notin {"off", "idle"}
        /\ historyFaults < MaxHistoryFaults /\ historyFaults' = historyFaults + 1
        /\ entries' = entries \/ (entries' = <<>> /\ step' = "off")
    BY <1>2 DEF History!Fail, History!Crash, History!Fault
  <2>2. step \in {"line", "newline", "truncate", "body"}
    BY <1>0, <2>1 DEF HistoryTypes
  <2>3. historyFaults' \in 0 .. MaxHistoryFaults
    BY <1>0, <2>1, HistoryAssumption DEF HistoryTypes
  <2> QED BY <2>1, <2>2, <2>3, CutHistory
<1>3. ASSUME History!Clear PROVE HistoryInv'
  <2>1. /\ step = "idle" /\ entries' = <<>> /\ cleared' = pushed
        /\ \/ /\ historyFile' = <<>> /\ ragged' = FALSE /\ torn' = FALSE
              /\ historyFaults' = historyFaults
           \/ /\ historyFaults < MaxHistoryFaults /\ historyFaults' = historyFaults + 1
              /\ UNCHANGED <<historyFile, ragged, torn>>
        /\ UNCHANGED <<step, pushed, damaged, emptied, since>>
    BY <1>3 DEF History!Clear, History!Fault
  <2>2. <<>> \in Seq(0 .. pushed) /\ <<>> \in Seq(1 .. pushed) /\ InOrder(<<>>)
    BY DEF InOrder
  <2>3. historyFaults' \in 0 .. MaxHistoryFaults /\ cleared' \in 0 .. pushed
    BY <1>0, <2>1, HistoryAssumption DEF HistoryTypes
  <2>4. HistoryTypes'
    BY <1>0, <2>1, <2>2, <2>3 DEF HistoryTypes
  <2>5. History!Kept' = {}
    BY <1>0, <2>1 DEF History!Kept
  <2>6. InMemory' /\ InFile'
    BY <2>1, <2>5 DEF InMemory, InFile
  <2>7. InOrder(entries') /\ InOrder(historyFile')
    BY <2>1, <2>2 DEF HistoryInv
  <2>8. OfThisRun'
    BY <2>1 DEF OfThisRun
  <2> QED BY <2>1, <2>4, <2>6, <2>7, <2>8 DEF HistoryInv
<1>4. ASSUME History!Exit PROVE HistoryInv'
  <2>1. /\ step = "idle" /\ step' = "off" /\ entries' = <<>>
        /\ UNCHANGED <<historyFile, ragged, pushed, historyFaults, cleared, damaged, emptied, torn,
                       since>>
    BY <1>4 DEF History!Exit, History!world
  <2>2. <<>> \in Seq(1 .. pushed) /\ InOrder(<<>>)
    BY DEF InOrder
  <2>3. HistoryTypes'
    BY <1>0, <2>1, <2>2 DEF HistoryTypes
  <2>4. ~emptied => InMemory' /\ InFile'
    BY <2>1 DEF HistoryInv, InMemory, InFile, History!Kept, History!ToSet
  <2>5. InOrder(entries') /\ InOrder(historyFile')
    BY <2>1, <2>2 DEF HistoryInv
  <2>6. OfThisRun'
    BY <2>1 DEF OfThisRun
  <2> QED BY <2>1, <2>3, <2>4, <2>5, <2>6 DEF HistoryInv
<1>5. ASSUME UNCHANGED History!vars PROVE HistoryInv'
  <2>1. UNCHANGED <<step, entries, historyFile, ragged, pushed, historyFaults, cleared,
                    damaged, emptied, torn, since>>
    BY <1>5 DEF History!vars, History!world
  <2> QED BY <2>1 DEF HistoryInv, HistoryTypes, InOrder, InMemory, InFile, OfThisRun,
                      History!Kept, History!ToSet
<1> QED BY <1>1, <1>2, <1>3, <1>4, <1>5, LoadHistory, PushHistory, BodyHistory
       DEF History!Next

\* The inductive invariant of the history, in every phase of a write: what is to be
\* kept is in the file until a rewrite is cut short, and in memory from its making
\* or from a start that read the file; a rewrite comes when nothing that such a
\* start missed is to be kept any more (History).
THEOREM HistoryInvHolds == History!Spec => []HistoryInv
BY InitHistory, StepHistory, PTL DEF History!Spec

\* TypeOK of History.
THEOREM HistoryType == History!Spec => []History!TypeOK
<1>1. HistoryInv => History!TypeOK
  <2> SUFFICES ASSUME HistoryInv PROVE History!TypeOK
    OBVIOUS
  <2>0. HistoryTypes /\ pushed \in 0 .. MaxPushes /\ MaxPushes \in Nat /\ since \in 0 .. MaxPushes
    BY HistoryAssumption DEF HistoryInv, HistoryTypes
  <2>1. 1 .. pushed \subseteq 1 .. MaxPushes /\ 0 .. pushed \subseteq 0 .. MaxPushes
    BY <2>0
  <2>2. entries \in Seq(1 .. pushed) /\ historyFile \in Seq(0 .. pushed)
    BY <2>0 DEF HistoryTypes
  <2>a. \A i \in 1 .. Len(entries) : entries[i] \in 1 .. pushed
    BY <2>0, <2>2
  <2>b. \A i \in 1 .. Len(historyFile) : historyFile[i] \in 0 .. pushed
    BY <2>0, <2>2
  <2>3. \A i \in 1 .. Len(entries) : entries[i] \in 1 .. MaxPushes
    BY <2>1, <2>a
  <2>4. \A i \in 1 .. Len(historyFile) : historyFile[i] \in 0 .. MaxPushes
    BY <2>1, <2>b
  <2>5. entries \in Seq(1 .. MaxPushes) /\ historyFile \in Seq(0 .. MaxPushes)
    BY <2>2, <2>3, <2>4, Narrowed
  <2> QED BY <2>0, <2>1, <2>5 DEF HistoryTypes, History!TypeOK
<1> QED BY <1>1, HistoryInvHolds, PTL

\* No append that is cut short, by a crash or a full disk, loses more than its own
\* entry and the one before it, unless the cut is inside a character: then no
\* start reads the file, and the theorem says nothing of it (History::push).
THEOREM FileKeepsHolds == History!Spec => []FileKeeps
<1>1. HistoryInv => FileKeeps
  BY DEF HistoryInv, InFile, FileKeeps, History!FileKeeps
<1> QED BY <1>1, HistoryInvHolds, PTL

\* The last Limit entries are shown, in their order, after any number of restarts
\* and compactions, but for those made before a start that could not read the file:
\* after a cut inside a character each start is one (History::load, push and trim).
THEOREM LastAreShown == History!Spec => []History!ShowsTheLast
<1>1. HistoryInv => History!ShowsTheLast
  <2> SUFFICES ASSUME HistoryInv, step = "idle", ~emptied PROVE History!ShowsTheLast
    BY DEF History!ShowsTheLast
  <2>1. \A i, j \in 1 .. Len(entries) : i < j => entries[i] < entries[j]
    <3>1. \A i \in 1 .. Len(entries) : entries[i] # 0
      BY HistoryAssumption DEF HistoryInv, HistoryTypes
    <3> QED BY <3>1 DEF HistoryInv, InOrder
  <2> QED BY <2>1 DEF HistoryInv, InMemory, History!ShowsTheLast
<1> QED BY <1>1, HistoryInvHolds, PTL


-----------------------------------------------------------------------------
(* Workspace: what a tab that looks saved holds, however its saves go      *)

Contents == Texts \cup {Workspace!Torn}
Jobs ==
  [tab : Workspace!Ids \cup {0}, kind : {"open", "save"}, path : Paths \cup {Workspace!NoPath},
   text : Texts, close : BOOLEAN, at : {"start", "writing"}]
Replies ==
  [tab : Workspace!Ids \cup {0}, kind : {"open", "save"}, path : Paths, text : Texts,
   ok : BOOLEAN, close : BOOLEAN]
Tabs ==
  [id : Workspace!Ids, path : Paths \cup {Workspace!NoPath}, text : Texts, saved : Texts,
   pinned : BOOLEAN, tx : BOOLEAN, onDisk : Contents, sure : BOOLEAN]

\* What may be stored of tabs.
StoredTab == [path : Paths \cup {Workspace!NoPath}, text : Texts, pinned : BOOLEAN]
Snapshots ==
  {w \in [tabs : Seq(StoredTab), active : 0 .. MaxTabs] :
     /\ Len(w.tabs) <= MaxTabs
     /\ IF w.tabs = <<>> THEN w.active = 0 ELSE w.active \in 1 .. Len(w.tabs)}

Dialogs ==
  {d \in [kind : {"none", "close", "transaction", "quit"}, at : 0 .. MaxTabs,
          asked : Workspace!Ids \cup {0}] :
     /\ d.kind = "none" => d = Workspace!Closed
     /\ d.kind \in {"close", "transaction"} => d.asked # 0}

WindowType ==
  /\ tabs \in Seq(Tabs) /\ Len(tabs) <= MaxTabs
  /\ IF phase = "off"
     THEN tabs = <<>> /\ active = 0 /\ dialog = Workspace!Closed /\ tasks = {} /\ inbox = <<>>
     ELSE active \in 1 .. Len(tabs)
  /\ dialog \in Dialogs

JobType ==
  /\ disk \in [Paths -> Contents]
  /\ tasks \subseteq Jobs /\ IsFiniteSet(tasks)
  /\ \A s \in tasks : /\ s.kind = "open" => s.tab = 0 /\ s.path # Workspace!NoPath /\ s.at = "start"
                      /\ s.at = "writing" => s.path # Workspace!NoPath
  /\ inbox \in Seq(Replies)
  /\ \A k \in 1 .. Len(inbox) : inbox[k].kind = "open" => inbox[k].tab = 0

StoreType ==
  /\ phase \in {"off", "running", "writing", "renaming"} /\ leaving \in BOOLEAN
  /\ known \in Snapshots
  /\ {tmp, file} \subseteq Snapshots \cup {Workspace!TornWorkspace}
  /\ unsaved \in {"no", "before", "exit"} /\ left \in Snapshots
  /\ faults \in 0 .. MaxFaults

\* Each save under way, each answer of one and the tab asked about took the user
\* an action, so that there is an id for one tab more.
Budget ==
  /\ actions \in 0 .. MaxActions
  /\ Cardinality(tasks) + Len(inbox) + (IF dialog.asked # 0 THEN 1 ELSE 0) <= actions

\* Tabs are told apart by their ids.
Distinct(s) == \A i, j \in 1 .. Len(s) : s[i].id = s[j].id => i = j

\* Saves of a tab that are not over.
Flying(id, jobs, answers) ==
  \/ \E s \in jobs : s.tab = id
  \/ \E k \in 1 .. Len(answers) : answers[k].tab = id

\* What is sure of a tab: that what it takes for saved is on disk, while no
\* save or only the one of its text is under way; or that its text is, once it
\* was written.
Accounted(t, jobs, answers) ==
  t.sure =>
    \/ ~Flying(t.id, jobs, answers) /\ t.saved = t.onDisk
    \/ /\ t.saved = t.onDisk
       /\ \A k \in 1 .. Len(answers) : answers[k].tab # t.id
       /\ \E s \in jobs : /\ s.tab = t.id /\ s.text = t.text
                          /\ \A o \in jobs : o.tab = t.id => o = s
    \/ /\ \A s \in jobs : s.tab # t.id
       /\ \E m \in 1 .. Len(answers) :
            /\ answers[m].tab = t.id
            /\ \A k \in 1 .. Len(answers) : answers[k].tab = t.id => k = m
            /\ IF answers[m].ok THEN t.onDisk = t.text ELSE t.saved = t.onDisk

AllAccounted(s, jobs, answers) == \A i \in 1 .. Len(s) : Accounted(s[i], jobs, answers)

WorkspaceInv ==
  /\ WindowType /\ JobType /\ StoreType /\ Budget
  /\ Distinct(tabs) /\ AllAccounted(tabs, tasks, inbox)

\* Pinned tabs, and those stored, come first.
PinnedHead(s) == \A i, j \in 1 .. Len(s) : i < j /\ s[j].pinned => s[i].pinned

\* What the next start restores: what is being written is what is shown; what is
\* known is stored, and after an exit what was shown, unless a write failed.
RestartInv ==
  /\ phase # "off" => PinnedHead(tabs)
  /\ phase = "renaming" => tmp = Workspace!Snapshot
  /\ phase # "off" /\ unsaved = "no" =>
       file = known \/ (file.tabs = <<>> /\ known = Workspace!NoWorkspace)
  /\ phase = "off" /\ left # Workspace!NoWorkspace /\ unsaved = "no" => file = left
  /\ PinnedHead(left.tabs)
-----------------------------------------------------------------------------
\* What an instance takes from the modules of sequences and sets is theirs.
LEMMA SameOperators ==
  /\ \A s, i : Workspace!RemoveAt(s, i) = SubSeq(s, 1, i - 1) \o SubSeq(s, i + 1, Len(s))
  /\ \A s, i, e : Workspace!InsertAt(s, i, e) = SubSeq(s, 1, i - 1) \o <<e>> \o SubSeq(s, i, Len(s))
BY DEF Workspace!RemoveAt, Workspace!InsertAt

\* A sequence without one of its elements.
LEMMA RemoveAtKeeps ==
  ASSUME NEW T, NEW s \in Seq(T), NEW i \in 1 .. Len(s)
  PROVE  /\ Workspace!RemoveAt(s, i) \in Seq(T)
         /\ Len(Workspace!RemoveAt(s, i)) = Len(s) - 1
         /\ \A k \in 1 .. Len(s) - 1 :
              Workspace!RemoveAt(s, i)[k] = IF k < i THEN s[k] ELSE s[k + 1]
<1> PICK n \in Nat : n = Len(s)
  OBVIOUS
<1> DEFINE a == SubSeq(s, 1, i - 1)
           b == SubSeq(s, i + 1, n)
<1>1. a \in Seq(T) /\ Len(a) = i - 1 /\ \A k \in 1 .. i - 1 : a[k] = s[k]
  OBVIOUS
<1>2. b \in Seq(T) /\ Len(b) = n - i /\ \A k \in 1 .. n - i : b[k] = s[i + k]
  OBVIOUS
<1>3. Workspace!RemoveAt(s, i) = a \o b
  BY SameOperators
<1> HIDE DEF a, b
<1>4. a \o b \in Seq(T) /\ Len(a \o b) = n - 1
  <2>1. a \in Seq(T) /\ b \in Seq(T)
    BY <1>1, <1>2
  <2>2. a \o b \in Seq(T) /\ Len(a \o b) = Len(a) + Len(b)
    BY <2>1
  <2>3. (i - 1) + (n - i) = n - 1
    OBVIOUS
  <2> QED BY <1>1, <1>2, <2>2, <2>3
<1>5. ASSUME NEW k \in 1 .. n - 1 PROVE (a \o b)[k] = IF k < i THEN s[k] ELSE s[k + 1]
  <2>1. CASE k < i
    BY <1>1, <1>2, <2>1
  <2>2. CASE ~ k < i
    <3>1. k - (i - 1) \in 1 .. n - i /\ i + (k - (i - 1)) = k + 1
      BY <2>2
    <3>2. (a \o b)[k] = b[k - (i - 1)]
      BY <1>1, <1>2, <2>2
    <3> QED BY <1>2, <2>2, <3>1, <3>2
  <2> QED BY <2>1, <2>2
<1> QED BY <1>3, <1>4, <1>5

\* The sequence r is s with e put in at place i.
InsertedIs(T, r, s, i, e) ==
  /\ r \in Seq(T) /\ Len(r) = Len(s) + 1
  /\ \A k \in 1 .. Len(s) + 1 :
       r[k] = IF k < i THEN s[k] ELSE IF k = i THEN e ELSE s[k - 1]

\* A sequence with one element more.
LEMMA InsertAtKeeps ==
  ASSUME NEW T, NEW s \in Seq(T), NEW i \in 1 .. Len(s) + 1, NEW e \in T
  PROVE  InsertedIs(T, Workspace!InsertAt(s, i, e), s, i, e)
<1> PICK n \in Nat : n = Len(s)
  OBVIOUS
<1> DEFINE a == SubSeq(s, 1, i - 1)
           b == SubSeq(s, i, n)
           c == a \o <<e>>
<1>1. a \in Seq(T) /\ Len(a) = i - 1 /\ \A k \in 1 .. i - 1 : a[k] = s[k]
  OBVIOUS
<1>2. b \in Seq(T) /\ Len(b) = n - i + 1 /\ \A k \in 1 .. n - i + 1 : b[k] = s[i + k - 1]
  OBVIOUS
<1>3. Workspace!InsertAt(s, i, e) = c \o b
  BY SameOperators
<1> HIDE DEF a, b
<1>4. <<e>> \in Seq(T) /\ Len(<<e>>) = 1 /\ <<e>>[1] = e
  OBVIOUS
<1>5. c \in Seq(T) /\ Len(c) = i /\ c[i] = e /\ \A k \in 1 .. i - 1 : c[k] = s[k]
  BY <1>1, <1>4
<1> HIDE DEF c
<1>6. c \o b \in Seq(T) /\ Len(c \o b) = n + 1
  <2>0. c \in Seq(T) /\ b \in Seq(T)
    BY <1>2, <1>5
  <2>1. Len(c \o b) = Len(c) + Len(b)
    BY <2>0
  <2>2. i + (n - i + 1) = n + 1
    OBVIOUS
  <2> QED BY <1>2, <1>5, <2>1, <2>2
<1>7. ASSUME NEW k \in 1 .. n + 1
      PROVE  (c \o b)[k] = IF k < i THEN s[k] ELSE IF k = i THEN e ELSE s[k - 1]
  <2>1. CASE k <= i
    BY <1>2, <1>5, <2>1
  <2>2. CASE ~ k <= i
    <3>1. k - i \in 1 .. n - i + 1 /\ i + (k - i) - 1 = k - 1
      BY <2>2
    <3>0. ~ k < i /\ k # i
      BY <2>2
    <3>2. (c \o b)[k] = b[k - i]
      BY <1>2, <1>5, <2>2
    <3>3. b[k - i] = s[i + (k - i) - 1]
      BY <1>2, <3>1
    <3>4. (c \o b)[k] = s[k - 1]
      BY <3>1, <3>2, <3>3
    <3> QED BY <3>0, <3>4
  <2> QED BY <2>1, <2>2
<1>8. InsertedIs(T, c \o b, s, i, e)
  BY <1>6, <1>7 DEF InsertedIs
<1> QED BY <1>3, <1>8

\* What the first k of a sequence are.
LEMMA ImageOfPlaces ==
  ASSUME NEW n \in Nat, NEW f, f = [k \in 1 .. n |-> f[k]]
  PROVE  IsFiniteSet({f[k] : k \in 1 .. n}) /\ Cardinality({f[k] : k \in 1 .. n}) <= n
<1> DEFINE T == {f[k] : k \in 1 .. n}
<1>1. f \in Surjection(1 .. n, T)
  BY DEF Surjection
<1>2. IsFiniteSet(1 .. n) /\ Cardinality(1 .. n) = n
  BY FS_Interval
<1>3. IsFiniteSet(T) /\ Cardinality(T) <= Cardinality(1 .. n)
  <2> HIDE DEF T
  <2> QED BY <1>1, <1>2, FS_Surjection
<1> QED BY <1>2, <1>3

\* Of Ids there is one for every tab that may be open, every save and every
\* question, and one more.
LEMMA UnusedIsFresh ==
  ASSUME WindowType, JobType, Budget
  PROVE  /\ Workspace!UnusedId \in Workspace!Ids
         /\ \A i \in 1 .. Len(tabs) : tabs[i].id # Workspace!UnusedId
         /\ ~Workspace!InFlight(Workspace!UnusedId)
         /\ dialog.asked # Workspace!UnusedId
<1> DEFINE A == {tabs[i].id : i \in 1 .. Len(tabs)}
           B == {s.tab : s \in tasks}
           C == {inbox[k].tab : k \in 1 .. Len(inbox)}
           D == IF dialog.asked # 0 THEN {dialog.asked} ELSE {}
           Used == (A \cup B) \cup (C \cup D)
<1>1. IsFiniteSet(A) /\ Cardinality(A) <= MaxTabs /\ Cardinality(A) \in Nat
  <2> DEFINE f == [i \in 1 .. Len(tabs) |-> tabs[i].id]
  <2>1. Len(tabs) \in Nat /\ Len(tabs) <= MaxTabs
    BY DEF WindowType
  <2>2. f = [k \in 1 .. Len(tabs) |-> f[k]] /\ A = {f[k] : k \in 1 .. Len(tabs)}
    OBVIOUS
  <2> HIDE DEF f
  <2>3. IsFiniteSet({f[k] : k \in 1 .. Len(tabs)}) /\ Cardinality({f[k] : k \in 1 .. Len(tabs)}) <= Len(tabs)
    BY <2>1, <2>2, ImageOfPlaces
  <2>4. IsFiniteSet(A) /\ Cardinality(A) <= Len(tabs)
    BY <2>2, <2>3
  <2> HIDE DEF A
  <2>5. Cardinality(A) \in Nat
    BY <2>4, FS_CardinalityType
  <2> QED BY <2>1, <2>4, <2>5, WorkspaceAssumption
<1>2. IsFiniteSet(B) /\ Cardinality(B) <= Cardinality(tasks) /\ Cardinality(B) \in Nat
      /\ Cardinality(tasks) \in Nat
  <2>0. IsFiniteSet(tasks)
    BY DEF JobType
  <2> DEFINE f == [s \in tasks |-> s.tab]
  <2>1. f \in Surjection(tasks, B)
    BY DEF Surjection
  <2> HIDE DEF f, B
  <2>2. IsFiniteSet(B) /\ Cardinality(B) <= Cardinality(tasks)
    BY <2>0, <2>1, FS_Surjection
  <2> QED BY <2>0, <2>2, FS_CardinalityType
<1>3. IsFiniteSet(C) /\ Cardinality(C) <= Len(inbox) /\ Cardinality(C) \in Nat /\ Len(inbox) \in Nat
  <2> DEFINE f == [k \in 1 .. Len(inbox) |-> inbox[k].tab]
  <2>1. Len(inbox) \in Nat
    BY DEF JobType
  <2>2. f = [k \in 1 .. Len(inbox) |-> f[k]] /\ C = {f[k] : k \in 1 .. Len(inbox)}
    OBVIOUS
  <2> HIDE DEF f
  <2>3. IsFiniteSet({f[k] : k \in 1 .. Len(inbox)}) /\ Cardinality({f[k] : k \in 1 .. Len(inbox)}) <= Len(inbox)
    BY <2>1, <2>2, ImageOfPlaces
  <2>4. IsFiniteSet(C) /\ Cardinality(C) <= Len(inbox)
    BY <2>2, <2>3
  <2> HIDE DEF C
  <2> QED BY <2>1, <2>4, FS_CardinalityType
<1>4. IsFiniteSet(D) /\ Cardinality(D) = IF dialog.asked # 0 THEN 1 ELSE 0
  BY FS_EmptySet, FS_Singleton
<1> HIDE DEF A, B, C, D
<1>5. IsFiniteSet(A \cup B) /\ Cardinality(A \cup B) <= MaxTabs + Cardinality(tasks)
      /\ Cardinality(A \cup B) \in Nat
  <2>1. IsFiniteSet(A \cup B)
        /\ Cardinality(A \cup B) = Cardinality(A) + Cardinality(B) - Cardinality(A \cap B)
    BY <1>1, <1>2, FS_Union
  <2>2. Cardinality(A \cap B) \in Nat /\ Cardinality(A \cup B) \in Nat
    <3>1. A \cap B \in SUBSET A
      OBVIOUS
    <3>2. IsFiniteSet(A \cap B)
      BY <1>1, <3>1, FS_Subset
    <3> QED BY <2>1, <3>2, FS_CardinalityType
  <2> QED BY <1>1, <1>2, <2>1, <2>2, WorkspaceAssumption
<1>6. IsFiniteSet(C \cup D)
      /\ Cardinality(C \cup D) <= Len(inbox) + (IF dialog.asked # 0 THEN 1 ELSE 0)
      /\ Cardinality(C \cup D) \in Nat
  <2>1. IsFiniteSet(C \cup D)
        /\ Cardinality(C \cup D) = Cardinality(C) + Cardinality(D) - Cardinality(C \cap D)
    BY <1>3, <1>4, FS_Union
  <2>2. Cardinality(C \cap D) \in Nat /\ Cardinality(C \cup D) \in Nat
    <3>1. C \cap D \in SUBSET C
      OBVIOUS
    <3>2. IsFiniteSet(C \cap D)
      BY <1>3, <3>1, FS_Subset
    <3> QED BY <2>1, <3>2, FS_CardinalityType
  <2> QED BY <1>3, <1>4, <2>1, <2>2
<1>7. IsFiniteSet(Used) /\ Cardinality(Used) <= MaxTabs + MaxActions
  <2>1. IsFiniteSet(Used)
        /\ Cardinality(Used) = Cardinality(A \cup B) + Cardinality(C \cup D)
                                 - Cardinality((A \cup B) \cap (C \cup D))
    BY <1>5, <1>6, FS_Union
  <2>2. Cardinality((A \cup B) \cap (C \cup D)) \in Nat
    <3>1. (A \cup B) \cap (C \cup D) \in SUBSET (A \cup B)
      OBVIOUS
    <3>2. IsFiniteSet((A \cup B) \cap (C \cup D))
      BY <1>5, <3>1, FS_Subset
    <3> QED BY <3>2, FS_CardinalityType
  <2>3. Cardinality(tasks) + Len(inbox) + (IF dialog.asked # 0 THEN 1 ELSE 0) <= MaxActions
        /\ (IF dialog.asked # 0 THEN 1 ELSE 0) \in Nat
    BY <1>2, <1>3, WorkspaceAssumption DEF Budget
  <2> HIDE DEF Used
  <2> PICK d \in Nat : d = (IF dialog.asked # 0 THEN 1 ELSE 0)
    BY <2>3
  <2>4. Cardinality(A \cup B) + Cardinality(C \cup D) <= MaxTabs + MaxActions
    BY <1>2, <1>3, <1>5, <1>6, <2>3, WorkspaceAssumption
  <2> QED BY <1>5, <1>6, <2>1, <2>2, <2>4, WorkspaceAssumption
<1>8. IsFiniteSet(Workspace!Ids) /\ Cardinality(Workspace!Ids) = MaxTabs + MaxActions + 1
  BY FS_Interval, WorkspaceAssumption DEF Workspace!Ids
<1>9. PICK id \in Workspace!Ids : id \notin Used
  <2> SUFFICES ASSUME Workspace!Ids \subseteq Used PROVE FALSE
    OBVIOUS
  <2> HIDE DEF Used
  <2>1. Cardinality(Workspace!Ids) <= Cardinality(Used)
    BY <1>7, FS_Subset
  <2>2. Cardinality(Used) \in Nat
    BY <1>7, FS_CardinalityType
  <2> QED BY <1>7, <1>8, <2>1, <2>2, WorkspaceAssumption
<1>10. id # 0
  BY WorkspaceAssumption DEF Workspace!Ids
<1>11. ~Workspace!Has(tabs, id) /\ ~Workspace!InFlight(id) /\ dialog.asked # id
  BY <1>9, <1>10 DEF A, B, C, D, Workspace!Has, Workspace!InFlight
<1>12. /\ Workspace!UnusedId \in Workspace!Ids /\ ~Workspace!Has(tabs, Workspace!UnusedId)
       /\ ~Workspace!InFlight(Workspace!UnusedId) /\ dialog.asked # Workspace!UnusedId
  BY <1>11 DEF Workspace!UnusedId
<1> QED BY <1>12 DEF Workspace!Has

-----------------------------------------------------------------------------
LEMMA StoreStays ==
  ASSUME StoreType, UNCHANGED <<phase, leaving, known, tmp, file, faults, unsaved, left>>
  PROVE  StoreType'
BY DEF StoreType

LEMMA JobsStay ==
  ASSUME JobType, UNCHANGED <<disk, tasks, inbox>>
  PROVE  JobType'
BY DEF JobType

\* The tab of an id.
LEMMA IndexFound ==
  ASSUME NEW s, NEW id, Workspace!Has(s, id)
  PROVE  Workspace!IndexOf(s, id) \in 1 .. Len(s) /\ s[Workspace!IndexOf(s, id)].id = id
BY DEF Workspace!Has, Workspace!IndexOf

\* What is sure of a tab depends on its texts.
LEMMA AccountedSame ==
  ASSUME NEW t, NEW u, NEW jobs, NEW answers, Accounted(t, jobs, answers),
         u.id = t.id, u.sure => t.sure, u.saved = t.saved, u.onDisk = t.onDisk, u.text = t.text
  PROVE  Accounted(u, jobs, answers)
BY DEF Accounted, Flying

LEMMA FreshTab ==
  ASSUME WindowType, JobType, Budget, NEW jobs, NEW answers,
         \A id : Flying(id, jobs, answers) => Workspace!InFlight(id) \/ id = 0
  PROVE  /\ Workspace!NewTab(Workspace!UnusedId) \in Tabs
         /\ Workspace!NewTab(Workspace!UnusedId).id = Workspace!UnusedId
         /\ Accounted(Workspace!NewTab(Workspace!UnusedId), jobs, answers)
<1> DEFINE id == Workspace!UnusedId
<1>1. id \in Workspace!Ids /\ ~Workspace!InFlight(id)
  BY UnusedIsFresh
<1>2. id # 0
  BY <1>1, WorkspaceAssumption DEF Workspace!Ids
<1>3. ~Flying(id, jobs, answers)
  BY <1>1, <1>2
<1> HIDE DEF id
<1>4. Workspace!NewTab(id) \in Tabs
  BY <1>1, WorkspaceAssumption DEF Workspace!NewTab, Tabs, Contents
<1>5. Accounted(Workspace!NewTab(id), jobs, answers)
  BY <1>3 DEF Workspace!NewTab, Accounted
<1>6. Workspace!NewTab(id).id = id
  BY DEF Workspace!NewTab
<1> QED BY <1>4, <1>5, <1>6 DEF id

\* A tab is closed: the others are kept as they are.
LEMMA ClosedKeeps ==
  ASSUME WindowType, JobType, Budget, NEW jobs, NEW answers,
         \A id : Flying(id, jobs, answers) => Workspace!InFlight(id) \/ id = 0,
         NEW s \in Seq(Tabs), Len(s) <= MaxTabs, Distinct(s), AllAccounted(s, jobs, answers),
         NEW i \in 1 .. Len(s)
  PROVE  /\ Workspace!ClosedTab(s, i) \in Seq(Tabs)
         /\ Len(Workspace!ClosedTab(s, i)) \in 1 .. MaxTabs
         /\ Distinct(Workspace!ClosedTab(s, i))
         /\ AllAccounted(Workspace!ClosedTab(s, i), jobs, answers)
         /\ \A j \in 1 .. Len(s) : j # i => Workspace!Has(Workspace!ClosedTab(s, i), s[j].id)
<1> PICK n \in Nat : n = Len(s)
  OBVIOUS
<1> DEFINE c == Workspace!ClosedTab(s, i)
<1>1. CASE n = 1
  <2> DEFINE t == Workspace!NewTab(Workspace!UnusedId)
  <2>1. c = <<t>>
    BY <1>1 DEF Workspace!ClosedTab
  <2>2. t \in Tabs /\ Accounted(t, jobs, answers)
    BY FreshTab
  <2> HIDE DEF c, t
  <2>3. c \in Seq(Tabs) /\ Len(c) = 1 /\ c[1] = t
    BY <2>1, <2>2
  <2>4. \A k \in 1 .. Len(c) : k = 1
    BY <2>3
  <2>5. Distinct(c) /\ AllAccounted(c, jobs, answers)
    BY <2>2, <2>3, <2>4 DEF Distinct, AllAccounted
  <2>6. \A j \in 1 .. Len(s) : j = i
    BY <1>1
  <2>7. Len(c) \in 1 .. MaxTabs
    BY <2>3, WorkspaceAssumption
  <2> QED BY <2>3, <2>5, <2>6, <2>7 DEF c
<1>2. CASE n # 1
  <2>1. c = Workspace!RemoveAt(s, i)
    BY <1>2 DEF Workspace!ClosedTab
  <2>2. /\ Workspace!RemoveAt(s, i) \in Seq(Tabs) /\ Len(Workspace!RemoveAt(s, i)) = n - 1
        /\ \A k \in 1 .. n - 1 : Workspace!RemoveAt(s, i)[k] = IF k < i THEN s[k] ELSE s[k + 1]
    BY RemoveAtKeeps
  <2> HIDE DEF c
  <2>3. /\ c \in Seq(Tabs) /\ Len(c) = n - 1
        /\ \A k \in 1 .. n - 1 : c[k] = IF k < i THEN s[k] ELSE s[k + 1]
    BY <2>1, <2>2
  <2> DEFINE at(k) == IF k < i THEN k ELSE k + 1
  <2>4. ASSUME NEW k \in 1 .. n - 1 PROVE at(k) \in 1 .. n /\ c[k] = s[at(k)]
    <3>1. at(k) \in 1 .. n
      OBVIOUS
    <3>2. c[k] = IF k < i THEN s[k] ELSE s[k + 1]
      BY <2>3
    <3> QED BY <3>1, <3>2
  <2>5. \A k, l \in 1 .. n - 1 : at(k) = at(l) => k = l
    OBVIOUS
  <2>6. \A j \in 1 .. n : j # i => \E k \in 1 .. n - 1 : at(k) = j
    <3> SUFFICES ASSUME NEW j \in 1 .. n, j # i PROVE \E k \in 1 .. n - 1 : at(k) = j
      OBVIOUS
    <3>1. CASE j < i
      <4>1. j \in 1 .. n - 1 /\ at(j) = j
        BY <3>1
      <4> QED BY <4>1
    <3>2. CASE ~ j < i
      <4>1. j - 1 \in 1 .. n - 1 /\ at(j - 1) = j
        BY <3>2
      <4> QED BY <4>1
    <3> QED BY <3>1, <3>2
  <2> HIDE DEF at
  <2>7. Distinct(c)
    BY <2>3, <2>4, <2>5 DEF Distinct
  <2>8. AllAccounted(c, jobs, answers)
    BY <2>3, <2>4 DEF AllAccounted
  <2>9. \A j \in 1 .. n : j # i => Workspace!Has(c, s[j].id)
    <3> SUFFICES ASSUME NEW j \in 1 .. n, j # i
                 PROVE  \E k \in 1 .. Len(c) : c[k].id = s[j].id
      BY DEF Workspace!Has
    <3> PICK k \in 1 .. n - 1 : at(k) = j
      BY <2>6
    <3>1. c[k] = s[j] /\ k \in 1 .. Len(c)
      BY <2>3, <2>4
    <3> QED BY <3>1
  <2>10. Len(c) \in 1 .. MaxTabs
    BY <1>2, <2>3, WorkspaceAssumption
  <2> QED BY <2>3, <2>7, <2>8, <2>9, <2>10 DEF c
<1> QED BY <1>1, <1>2

\* close_tab, of what the tabs are by then.
LEMMA CloseTabKeeps ==
  ASSUME WorkspaceInv, NEW i \in 1 .. Len(tabs), Workspace!CloseTab(i), phase # "off"
  PROVE  /\ tabs' \in Seq(Tabs) /\ Len(tabs') <= MaxTabs /\ active' \in 1 .. Len(tabs')
         /\ Distinct(tabs') /\ AllAccounted(tabs', tasks, inbox)
         /\ \A j \in 1 .. Len(tabs) : j # i => Workspace!Has(tabs', tabs[j].id)
<1>1. /\ tabs' = Workspace!ClosedTab(tabs, i)
      /\ active' = IF active > Len(tabs') THEN Len(tabs') ELSE active
  BY DEF Workspace!CloseTab
<1>2. \A id : Flying(id, tasks, inbox) => Workspace!InFlight(id) \/ id = 0
  BY DEF Flying, Workspace!InFlight
<1>3. /\ WindowType /\ JobType /\ Budget /\ tabs \in Seq(Tabs) /\ Len(tabs) <= MaxTabs
      /\ Distinct(tabs) /\ AllAccounted(tabs, tasks, inbox) /\ active \in 1 .. Len(tabs)
  BY DEF WorkspaceInv, WindowType
<1>4. /\ tabs' \in Seq(Tabs) /\ Len(tabs') \in 1 .. MaxTabs
      /\ Distinct(tabs') /\ AllAccounted(tabs', tasks, inbox)
      /\ \A j \in 1 .. Len(tabs) : j # i => Workspace!Has(tabs', tabs[j].id)
  BY <1>1, <1>2, <1>3, ClosedKeeps
<1>5. active' \in 1 .. Len(tabs') /\ Len(tabs') <= MaxTabs
  BY <1>1, <1>3, <1>4, WorkspaceAssumption
<1> QED BY <1>4, <1>5

-----------------------------------------------------------------------------
LEMMA Counts ==
  ASSUME WorkspaceInv
  PROVE  /\ Cardinality(tasks) \in Nat /\ Len(inbox) \in Nat /\ actions \in Nat
         /\ Workspace!Ids \subseteq Nat \ {0}
<1>1. IsFiniteSet(tasks) /\ inbox \in Seq(Replies)
  BY DEF WorkspaceInv, JobType
<1>2. Cardinality(tasks) \in Nat
  BY <1>1, FS_CardinalityType
<1> QED BY <1>1, <1>2, WorkspaceAssumption DEF WorkspaceInv, Budget, Workspace!Ids

\* What a step of the running program has to leave.
LEMMA Running ==
  ASSUME phase' # "off", tabs' \in Seq(Tabs), Len(tabs') <= MaxTabs,
         active' \in 1 .. Len(tabs'), dialog' \in Dialogs, JobType', StoreType', Budget',
         Distinct(tabs'), AllAccounted(tabs', tasks', inbox')
  PROVE  WorkspaceInv'
BY DEF WorkspaceInv, WindowType

LEMMA ClosedIsDialog == Workspace!Closed \in Dialogs
BY WorkspaceAssumption DEF Workspace!Closed, Dialogs

\* The facts of a running program.
LEMMA WindowFacts ==
  ASSUME WorkspaceInv, phase # "off"
  PROVE  /\ tabs \in Seq(Tabs) /\ Len(tabs) <= MaxTabs /\ Len(tabs) \in Nat
         /\ active \in 1 .. Len(tabs) /\ dialog \in Dialogs
         /\ WindowType /\ JobType /\ StoreType /\ Budget
         /\ Distinct(tabs) /\ AllAccounted(tabs, tasks, inbox)
BY DEF WorkspaceInv, WindowType

\* What happens to the tabs alone, one by one.
LEMMA TabsChange ==
  ASSUME WorkspaceInv, phase = "running", UNCHANGED <<active, dialog>>,
         UNCHANGED <<phase, leaving, known, tmp, file, faults, unsaved, left>>,
         UNCHANGED <<disk, tasks, inbox>>,
         actions' \in 0 .. MaxActions, actions' >= actions,
         tabs' \in Seq(Tabs), Len(tabs') = Len(tabs),
         \A i \in 1 .. Len(tabs) : tabs'[i].id = tabs[i].id /\ Accounted(tabs'[i], tasks, inbox)
  PROVE  WorkspaceInv'
<1>1. /\ tabs \in Seq(Tabs) /\ Len(tabs) <= MaxTabs /\ active \in 1 .. Len(tabs)
      /\ dialog \in Dialogs /\ JobType /\ StoreType /\ Budget /\ Distinct(tabs)
  BY WindowFacts
<1>2. JobType' /\ StoreType'
  BY <1>1, JobsStay, StoreStays
<1>3. Budget'
  BY <1>1, Counts DEF Budget
<1>4. Distinct(tabs') /\ AllAccounted(tabs', tasks', inbox')
  BY <1>1 DEF Distinct, AllAccounted
<1> QED BY <1>1, <1>2, <1>3, <1>4, Running

LEMMA TypeWork == ASSUME WorkspaceInv, NEW x \in Texts, Workspace!Type(x) PROVE WorkspaceInv'
<1>1. /\ phase = "running" /\ actions < MaxActions /\ actions' = actions + 1
      /\ tabs' = [tabs EXCEPT ![active].text = x,
                              ![active].sure = @ /\ ~Workspace!InFlight(tabs[active].id)]
      /\ UNCHANGED <<active, dialog, disk, tasks, inbox>>
      /\ UNCHANGED <<phase, leaving, known, tmp, file, faults, unsaved, left>>
  BY DEF Workspace!Type, Workspace!User, Workspace!store, Workspace!work, Workspace!world
<1>2. tabs \in Seq(Tabs) /\ active \in 1 .. Len(tabs) /\ AllAccounted(tabs, tasks, inbox)
  BY <1>1, WindowFacts
<1> DEFINE t == tabs[active]
           u == [t EXCEPT !.text = x, !.sure = t.sure /\ ~Workspace!InFlight(t.id)]
<1>3. t \in Tabs
  BY <1>2
<1>4. u \in Tabs /\ u.id = t.id
  <2>1. (t.sure /\ ~Workspace!InFlight(t.id)) \in BOOLEAN
    OBVIOUS
  <2> QED BY <1>3, <2>1 DEF Tabs
<1>5. tabs' = [tabs EXCEPT ![active] = u]
  BY <1>1, <1>2
<1>6. Accounted(u, tasks, inbox)
  <2>1. u.id = t.id /\ u.saved = t.saved /\ u.onDisk = t.onDisk
        /\ (u.sure <=> t.sure /\ ~Workspace!InFlight(t.id))
    BY <1>3 DEF Tabs
  <2>2. Accounted(t, tasks, inbox)
    BY <1>2 DEF AllAccounted
  <2> HIDE DEF t, u
  <2>3. Workspace!InFlight(t.id) <=> Flying(t.id, tasks, inbox)
    BY DEF Workspace!InFlight, Flying
  <2> QED BY <2>1, <2>2, <2>3 DEF Accounted, Flying
<1> HIDE DEF u
<1>7. /\ tabs' \in Seq(Tabs) /\ Len(tabs') = Len(tabs)
      /\ \A i \in 1 .. Len(tabs) : tabs'[i] = IF i = active THEN u ELSE tabs[i]
  BY <1>2, <1>4, <1>5
<1>8. \A i \in 1 .. Len(tabs) : tabs'[i].id = tabs[i].id /\ Accounted(tabs'[i], tasks, inbox)
  BY <1>2, <1>4, <1>6, <1>7 DEF AllAccounted
<1>9. actions' \in 0 .. MaxActions /\ actions' >= actions
  BY <1>1, Counts, WorkspaceAssumption
<1> QED BY <1>1, <1>7, <1>8, <1>9, TabsChange

LEMMA TransactionWork ==
  ASSUME WorkspaceInv, NEW i \in 1 .. Len(tabs), Workspace!Transaction(i)
  PROVE  WorkspaceInv'
<1>1. /\ phase = "running" /\ actions < MaxActions /\ actions' = actions + 1
      /\ tabs' = [tabs EXCEPT ![i].tx = ~@]
      /\ UNCHANGED <<active, dialog, disk, tasks, inbox>>
      /\ UNCHANGED <<phase, leaving, known, tmp, file, faults, unsaved, left>>
  BY DEF Workspace!Transaction, Workspace!store, Workspace!work, Workspace!world
<1>2. tabs \in Seq(Tabs) /\ AllAccounted(tabs, tasks, inbox)
  BY <1>1, WindowFacts
<1> DEFINE t == tabs[i]
           u == [t EXCEPT !.tx = ~t.tx]
<1>3. t \in Tabs
  BY <1>2
<1>4. u \in Tabs /\ u.id = t.id
  BY <1>3 DEF Tabs
<1>5. tabs' = [tabs EXCEPT ![i] = u]
  BY <1>1, <1>2
<1>6. Accounted(u, tasks, inbox)
  <2>1. u.id = t.id /\ u.saved = t.saved /\ u.onDisk = t.onDisk /\ u.sure = t.sure /\ u.text = t.text
    BY <1>3 DEF Tabs
  <2>2. Accounted(t, tasks, inbox)
    BY <1>2 DEF AllAccounted
  <2> HIDE DEF t, u
  <2> QED BY <2>1, <2>2, AccountedSame
<1> HIDE DEF u
<1>7. /\ tabs' \in Seq(Tabs) /\ Len(tabs') = Len(tabs)
      /\ \A j \in 1 .. Len(tabs) : tabs'[j] = IF j = i THEN u ELSE tabs[j]
  BY <1>2, <1>4, <1>5
<1>8. \A j \in 1 .. Len(tabs) : tabs'[j].id = tabs[j].id /\ Accounted(tabs'[j], tasks, inbox)
  BY <1>2, <1>4, <1>6, <1>7 DEF AllAccounted
<1>9. actions' \in 0 .. MaxActions /\ actions' >= actions
  BY <1>1, Counts, WorkspaceAssumption
<1> QED BY <1>1, <1>7, <1>8, <1>9, TabsChange

LEMMA SelectWork ==
  ASSUME WorkspaceInv, NEW i \in 1 .. Len(tabs), Workspace!Select(i)
  PROVE  WorkspaceInv'
<1>1. /\ phase = "running" /\ actions < MaxActions /\ actions' = actions + 1
      /\ active' = i /\ UNCHANGED <<tabs, dialog, disk, tasks, inbox>>
      /\ UNCHANGED <<phase, leaving, known, tmp, file, faults, unsaved, left>>
  BY DEF Workspace!Select, Workspace!User, Workspace!store, Workspace!work, Workspace!world
<1>2. /\ tabs \in Seq(Tabs) /\ Len(tabs) <= MaxTabs /\ dialog \in Dialogs
      /\ JobType /\ StoreType /\ Budget /\ Distinct(tabs) /\ AllAccounted(tabs, tasks, inbox)
  BY <1>1, WindowFacts
<1>3. JobType' /\ StoreType'
  BY <1>1, <1>2, JobsStay, StoreStays
<1>4. Budget'
  BY <1>1, <1>2, Counts, WorkspaceAssumption DEF Budget
<1> QED BY <1>1, <1>2, <1>3, <1>4, Running

LEMMA OpenTabWork == ASSUME WorkspaceInv, Workspace!OpenTab PROVE WorkspaceInv'
<1> DEFINE t == Workspace!NewTab(Workspace!UnusedId)
<1>1. /\ phase = "running" /\ actions < MaxActions /\ actions' = actions + 1
      /\ Len(tabs) < MaxTabs /\ tabs' = Append(tabs, t) /\ active' = Len(tabs')
      /\ UNCHANGED <<dialog, disk, tasks, inbox>>
      /\ UNCHANGED <<phase, leaving, known, tmp, file, faults, unsaved, left>>
  BY DEF Workspace!OpenTab, Workspace!User, Workspace!store, Workspace!work, Workspace!world
<1>2. /\ tabs \in Seq(Tabs) /\ dialog \in Dialogs /\ WindowType
      /\ JobType /\ StoreType /\ Budget /\ Distinct(tabs) /\ AllAccounted(tabs, tasks, inbox)
  BY <1>1, WindowFacts
<1>3. JobType' /\ StoreType'
  BY <1>1, <1>2, JobsStay, StoreStays
<1>4. Budget'
  BY <1>1, <1>2, Counts, WorkspaceAssumption DEF Budget
<1>5. \A id : Flying(id, tasks, inbox) => Workspace!InFlight(id) \/ id = 0
  BY DEF Flying, Workspace!InFlight
<1>6. /\ t \in Tabs /\ Accounted(t, tasks, inbox)
      /\ \A i \in 1 .. Len(tabs) : tabs[i].id # t.id
  BY <1>2, <1>5, FreshTab, UnusedIsFresh
<1> HIDE DEF t
<1>7. /\ tabs' \in Seq(Tabs) /\ Len(tabs') = Len(tabs) + 1 /\ tabs'[Len(tabs) + 1] = t
      /\ \A i \in 1 .. Len(tabs) : tabs'[i] = tabs[i]
  BY <1>1, <1>2, <1>6
<1>8. \A i \in 1 .. Len(tabs') : i \in 1 .. Len(tabs) \/ i = Len(tabs) + 1
  BY <1>2, <1>7
<1>9. Distinct(tabs') /\ AllAccounted(tabs', tasks', inbox')
  BY <1>1, <1>2, <1>6, <1>7, <1>8 DEF Distinct, AllAccounted
<1>10. active' \in 1 .. Len(tabs') /\ Len(tabs') <= MaxTabs
  BY <1>1, <1>2, <1>7, WorkspaceAssumption
<1> QED BY <1>1, <1>2, <1>3, <1>4, <1>7, <1>9, <1>10, Running

-----------------------------------------------------------------------------
LEMMA SameCardinality == \A S : Workspace!Cardinality(S) = Cardinality(S)
BY DEF Workspace!Cardinality, Cardinality

\* set_pinned moves one tab among the others, and pins it or not.
Repinned(s, i, at) ==
  Workspace!InsertAt(Workspace!RemoveAt(s, i), at + 1, [s[i] EXCEPT !.pinned = ~@])

\* Where each of them comes from.
Moved(p, s, i, at) ==
  \E f \in [1 .. Len(s) -> 1 .. Len(s)] :
    /\ \A k, l \in 1 .. Len(s) : f[k] = f[l] => k = l
    /\ \A j \in 1 .. Len(s) : \E k \in 1 .. Len(s) : f[k] = j
    /\ f = [k \in 1 .. Len(s) |->
              IF k = at + 1 THEN i
              ELSE IF k <= at THEN (IF k < i THEN k ELSE k + 1)
              ELSE (IF k - 1 < i THEN k - 1 ELSE k)]
    /\ \A k \in 1 .. Len(s) :
         p[k] = IF k = at + 1 THEN [s[i] EXCEPT !.pinned = ~@] ELSE s[f[k]]

PinnedOthers(s, i) ==
  LET others == Workspace!RemoveAt(s, i) IN {j \in 1 .. Len(others) : others[j].pinned}

LEMMA PinnedIs ==
  ASSUME NEW s \in Seq(Tabs), NEW i \in 1 .. Len(s)
  PROVE  /\ Workspace!Pinned(s, i) = Repinned(s, i, Cardinality(PinnedOthers(s, i)))
         /\ Cardinality(PinnedOthers(s, i)) \in 0 .. Len(s) - 1
         /\ IsFiniteSet(PinnedOthers(s, i))
<1> PICK n \in Nat : n = Len(s)
  OBVIOUS
<1>1. Workspace!Pinned(s, i) = Repinned(s, i, Cardinality(PinnedOthers(s, i)))
  BY SameCardinality DEF Workspace!Pinned, Repinned, PinnedOthers
<1>2. Len(Workspace!RemoveAt(s, i)) = n - 1
  BY RemoveAtKeeps
<1>3. PinnedOthers(s, i) \in SUBSET (1 .. n - 1)
  BY <1>2 DEF PinnedOthers
<1>4. IsFiniteSet(1 .. n - 1) /\ Cardinality(1 .. n - 1) = n - 1
  <2>1. 1 \in Int /\ n - 1 \in Int /\ n - 1 >= 0
    OBVIOUS
  <2>2. IsFiniteSet(1 .. n - 1)
        /\ Cardinality(1 .. n - 1) = IF 1 > n - 1 THEN 0 ELSE (n - 1) - 1 + 1
    BY <2>1, FS_Interval
  <2> QED BY <2>1, <2>2
<1>5. IsFiniteSet(PinnedOthers(s, i)) /\ Cardinality(PinnedOthers(s, i)) <= n - 1
  BY <1>3, <1>4, FS_Subset
<1>6. Cardinality(PinnedOthers(s, i)) \in Nat
  BY <1>5, FS_CardinalityType
<1> QED BY <1>1, <1>5, <1>6

\* A tab put among others.
LEMMA Inserted ==
  ASSUME NEW s \in Seq(Tabs), NEW i \in 1 .. Len(s) + 1, NEW t \in Tabs
  PROVE  InsertedIs(Tabs, Workspace!InsertAt(s, i, t), s, i, t)
BY InsertAtKeeps

LEMMA RepinnedKeeps ==
  ASSUME NEW s \in Seq(Tabs), NEW i \in 1 .. Len(s), NEW at \in 0 .. Len(s) - 1
  PROVE  /\ Repinned(s, i, at) \in Seq(Tabs) /\ Len(Repinned(s, i, at)) = Len(s)
         /\ Moved(Repinned(s, i, at), s, i, at)
<1> PICK n \in Nat : n = Len(s)
  OBVIOUS
<1> DEFINE t == [s[i] EXCEPT !.pinned = ~@]
           r == Workspace!RemoveAt(s, i)
           p == Workspace!InsertAt(r, at + 1, t)
           f == [k \in 1 .. n |->
                   IF k = at + 1 THEN i
                   ELSE IF k <= at THEN (IF k < i THEN k ELSE k + 1)
                   ELSE (IF k - 1 < i THEN k - 1 ELSE k)]
<1>1. t \in Tabs
  <2>1. s[i] \in Tabs
    OBVIOUS
  <2> QED BY <2>1 DEF Tabs
<1>2. /\ r \in Seq(Tabs) /\ Len(r) = n - 1
      /\ \A k \in 1 .. n - 1 : r[k] = IF k < i THEN s[k] ELSE s[k + 1]
  BY RemoveAtKeeps
<1> HIDE DEF t, r
<1>3. at + 1 \in 1 .. Len(r) + 1
  BY <1>2
<1>4. /\ p \in Seq(Tabs) /\ Len(p) = Len(r) + 1
      /\ \A k \in 1 .. Len(r) + 1 :
           p[k] = IF k < at + 1 THEN r[k] ELSE IF k = at + 1 THEN t ELSE r[k - 1]
  <2> HIDE DEF f
  <2>1. r \in Seq(Tabs)
    BY <1>2
  <2> DEFINE x == at + 1
  <2>2. x \in 1 .. Len(r) + 1
    BY <1>3
  <2> HIDE DEF x
  <2>3. InsertedIs(Tabs, Workspace!InsertAt(r, x, t), r, x, t)
    BY <1>1, <2>1, <2>2, Inserted
  <2> QED BY <2>3 DEF InsertedIs, x
<1>5. Repinned(s, i, at) = p
  BY DEF Repinned, p, r, t
<1>6. f \in [1 .. n -> 1 .. n]
  OBVIOUS
<1>7. \A k, l \in 1 .. n : f[k] = f[l] => k = l
  OBVIOUS
<1>8. ASSUME NEW j \in 1 .. n PROVE \E k \in 1 .. n : f[k] = j
  <2>1. CASE j = i
    <3>1. at + 1 \in 1 .. n /\ f[at + 1] = j
      BY <2>1
    <3> QED BY <3>1
  <2>2. CASE j < i
    <3>1. CASE j <= at
      <4>1. f[j] = j
        BY <2>2, <3>1
      <4> QED BY <4>1
    <3>2. CASE ~ j <= at
      <4>1. j + 1 \in 1 .. n /\ f[j + 1] = j
        BY <2>2, <3>2
      <4> QED BY <4>1
    <3> QED BY <3>1, <3>2
  <2>3. CASE j # i /\ ~ j < i
    <3>1. CASE j - 1 <= at
      <4>1. j - 1 \in 1 .. n /\ f[j - 1] = j
        BY <2>3, <3>1
      <4> QED BY <4>1
    <3>2. CASE ~ j - 1 <= at
      <4>1. f[j] = j
        BY <2>3, <3>2
      <4> QED BY <4>1
    <3> QED BY <3>1, <3>2
  <2> QED BY <2>1, <2>2, <2>3
<1>9. ASSUME NEW k \in 1 .. n PROVE p[k] = IF k = at + 1 THEN t ELSE s[f[k]]
  <2>0. p[k] = IF k < at + 1 THEN r[k] ELSE IF k = at + 1 THEN t ELSE r[k - 1]
    BY <1>2, <1>4
  <2>1. CASE k <= at
    <3>1. p[k] = r[k] /\ k \in 1 .. n - 1 /\ k # at + 1
      BY <2>0, <2>1
    <3>2. f[k] = IF k < i THEN k ELSE k + 1
      BY <2>1
    <3>3. r[k] = IF k < i THEN s[k] ELSE s[k + 1]
      BY <1>2, <3>1
    <3> HIDE DEF f, p
    <3> QED BY <3>1, <3>2, <3>3
  <2>2. CASE k = at + 1
    <3> HIDE DEF f, p
    <3> QED BY <2>0, <2>2
  <2>3. CASE ~ k <= at /\ k # at + 1
    <3>1. p[k] = r[k - 1] /\ k - 1 \in 1 .. n - 1
      BY <2>0, <2>3
    <3>2. f[k] = IF k - 1 < i THEN k - 1 ELSE k
      BY <2>3
    <3>3. r[k - 1] = IF k - 1 < i THEN s[k - 1] ELSE s[(k - 1) + 1]
      BY <1>2, <3>1
    <3>4. (k - 1) + 1 = k
      OBVIOUS
    <3> HIDE DEF f, p
    <3> QED BY <2>3, <3>1, <3>2, <3>3, <3>4
  <2> QED BY <2>1, <2>2, <2>3
<1>10. \E g \in [1 .. n -> 1 .. n] :
         /\ \A k, l \in 1 .. n : g[k] = g[l] => k = l
         /\ \A j \in 1 .. n : \E k \in 1 .. n : g[k] = j
         /\ g = [k \in 1 .. n |->
                   IF k = at + 1 THEN i
                   ELSE IF k <= at THEN (IF k < i THEN k ELSE k + 1)
                   ELSE (IF k - 1 < i THEN k - 1 ELSE k)]
         /\ \A k \in 1 .. n : p[k] = IF k = at + 1 THEN t ELSE s[g[k]]
  <2>1. f = [k \in 1 .. n |->
               IF k = at + 1 THEN i
               ELSE IF k <= at THEN (IF k < i THEN k ELSE k + 1)
               ELSE (IF k - 1 < i THEN k - 1 ELSE k)]
    OBVIOUS
  <2> HIDE DEF f, p
  <2> QED BY <1>6, <1>7, <1>8, <1>9, <2>1
<1>11. Len(p) = n
  BY <1>2, <1>4
<1> HIDE DEF f, p
<1> DEFINE P(x, m) ==
             \E g \in [1 .. m -> 1 .. m] :
               /\ \A k, l \in 1 .. m : g[k] = g[l] => k = l
               /\ \A j \in 1 .. m : \E k \in 1 .. m : g[k] = j
               /\ g = [k \in 1 .. m |->
                         IF k = at + 1 THEN i
                         ELSE IF k <= at THEN (IF k < i THEN k ELSE k + 1)
                         ELSE (IF k - 1 < i THEN k - 1 ELSE k)]
               /\ \A k \in 1 .. m :
                    x[k] = IF k = at + 1 THEN [s[i] EXCEPT !.pinned = ~@] ELSE s[g[k]]
<1>12. P(p, n)
  BY <1>10 DEF t
<1> HIDE DEF P
<1>13. P(Repinned(s, i, at), Len(s))
  BY <1>5, <1>12
<1>14. Repinned(s, i, at) \in Seq(Tabs) /\ Len(Repinned(s, i, at)) = Len(s)
  BY <1>4, <1>5, <1>11
<1> QED BY <1>13, <1>14 DEF P, Moved

-----------------------------------------------------------------------------
LEMMA PinWork ==
  ASSUME WorkspaceInv, NEW i \in 1 .. Len(tabs), Workspace!Pin(i)
  PROVE  WorkspaceInv'
<1>1. /\ phase = "running" /\ actions < MaxActions /\ actions' = actions + 1
      /\ tabs' = Workspace!Pinned(tabs, i)
      /\ active' = Workspace!IndexOf(tabs', tabs[active].id)
      /\ UNCHANGED <<dialog, disk, tasks, inbox>>
      /\ UNCHANGED <<phase, leaving, known, tmp, file, faults, unsaved, left>>
  BY DEF Workspace!Pin, Workspace!User, Workspace!store, Workspace!work, Workspace!world
<1>2. /\ tabs \in Seq(Tabs) /\ Len(tabs) <= MaxTabs /\ dialog \in Dialogs /\ active \in 1 .. Len(tabs)
      /\ JobType /\ StoreType /\ Budget /\ Distinct(tabs) /\ AllAccounted(tabs, tasks, inbox)
  BY <1>1, WindowFacts
<1>3. JobType' /\ StoreType'
  BY <1>1, <1>2, JobsStay, StoreStays
<1>4. Budget'
  BY <1>1, <1>2, Counts, WorkspaceAssumption DEF Budget
<1> DEFINE at == Cardinality(PinnedOthers(tabs, i))
           t == [tabs[i] EXCEPT !.pinned = ~@]
<1>5. tabs' = Repinned(tabs, i, at) /\ at \in 0 .. Len(tabs) - 1
  BY <1>1, <1>2, PinnedIs
<1> HIDE DEF at
<1>6. /\ tabs' \in Seq(Tabs) /\ Len(tabs') = Len(tabs)
      /\ \E f \in [1 .. Len(tabs) -> 1 .. Len(tabs)] :
           /\ \A k, l \in 1 .. Len(tabs) : f[k] = f[l] => k = l
           /\ \A j \in 1 .. Len(tabs) : \E k \in 1 .. Len(tabs) : f[k] = j
           /\ f[at + 1] = i
           /\ \A k \in 1 .. Len(tabs) : tabs'[k] = IF k = at + 1 THEN t ELSE tabs[f[k]]
  <2>1. tabs' \in Seq(Tabs) /\ Len(tabs') = Len(tabs) /\ Moved(tabs', tabs, i, at)
    BY <1>2, <1>5, RepinnedKeeps
  <2> HIDE DEF t
  <2>2. PICK f \in [1 .. Len(tabs) -> 1 .. Len(tabs)] :
             /\ \A k, l \in 1 .. Len(tabs) : f[k] = f[l] => k = l
             /\ \A j \in 1 .. Len(tabs) : \E k \in 1 .. Len(tabs) : f[k] = j
             /\ f = [k \in 1 .. Len(tabs) |->
                       IF k = at + 1 THEN i
                       ELSE IF k <= at THEN (IF k < i THEN k ELSE k + 1)
                       ELSE (IF k - 1 < i THEN k - 1 ELSE k)]
             /\ \A k \in 1 .. Len(tabs) : tabs'[k] = IF k = at + 1 THEN t ELSE tabs[f[k]]
    BY <2>1 DEF Moved, t
  <2>3. at + 1 \in 1 .. Len(tabs)
    BY <1>5
  <2>4. f[at + 1] = i
    BY <2>2, <2>3
  <2> QED BY <2>1, <2>2, <2>4
<1>7. t.id = tabs[i].id /\ Accounted(t, tasks, inbox)
  <2>1. tabs[i] \in Tabs /\ Accounted(tabs[i], tasks, inbox)
    BY <1>2 DEF AllAccounted
  <2>2. t.id = tabs[i].id /\ t.sure = tabs[i].sure /\ t.saved = tabs[i].saved
        /\ t.onDisk = tabs[i].onDisk /\ t.text = tabs[i].text
    BY <2>1 DEF Tabs
  <2> HIDE DEF t
  <2> QED BY <2>1, <2>2, AccountedSame
<1> HIDE DEF t
<1>8. PICK f \in [1 .. Len(tabs) -> 1 .. Len(tabs)] :
           /\ \A k, l \in 1 .. Len(tabs) : f[k] = f[l] => k = l
           /\ \A j \in 1 .. Len(tabs) : \E k \in 1 .. Len(tabs) : f[k] = j
           /\ f[at + 1] = i
           /\ \A k \in 1 .. Len(tabs) : tabs'[k] = IF k = at + 1 THEN t ELSE tabs[f[k]]
  BY <1>6
<1>9. \A k \in 1 .. Len(tabs) :
        tabs'[k].id = tabs[f[k]].id /\ Accounted(tabs'[k], tasks, inbox)
  BY <1>2, <1>7, <1>8 DEF AllAccounted
<1>10. Distinct(tabs')
  <2> SUFFICES ASSUME NEW k \in 1 .. Len(tabs), NEW l \in 1 .. Len(tabs),
                      tabs'[k].id = tabs'[l].id
               PROVE  k = l
    BY <1>6 DEF Distinct
  <2>1. f[k] \in 1 .. Len(tabs) /\ f[l] \in 1 .. Len(tabs) /\ tabs[f[k]].id = tabs[f[l]].id
    BY <1>9
  <2>2. f[k] = f[l]
    BY <1>2, <2>1 DEF Distinct
  <2> QED BY <1>8, <2>2
<1>11. AllAccounted(tabs', tasks', inbox')
  BY <1>1, <1>6, <1>9 DEF AllAccounted
<1>12. active' \in 1 .. Len(tabs')
  <2>1. PICK k \in 1 .. Len(tabs) : f[k] = active
    BY <1>2, <1>8
  <2>2. Workspace!Has(tabs', tabs[active].id)
    BY <1>6, <1>9, <2>1 DEF Workspace!Has
  <2> QED BY <1>1, <2>2, IndexFound
<1> QED BY <1>1, <1>2, <1>3, <1>4, <1>6, <1>10, <1>11, <1>12, Running

\* Only the dialog changes.
LEMMA DialogWork ==
  ASSUME WorkspaceInv, phase = "running",
         UNCHANGED <<tabs, active, disk, tasks, inbox>>,
         UNCHANGED <<phase, leaving, known, tmp, file, faults, unsaved, left>>,
         dialog' \in Dialogs, actions' \in 0 .. MaxActions,
         \/ dialog'.asked = 0 /\ actions' >= actions
         \/ dialog.asked # 0 /\ actions' = actions
         \/ actions' = actions + 1 /\ dialog = Workspace!Closed
  PROVE  WorkspaceInv'
<1>1. /\ tabs \in Seq(Tabs) /\ Len(tabs) <= MaxTabs /\ active \in 1 .. Len(tabs)
      /\ JobType /\ StoreType /\ Budget /\ Distinct(tabs) /\ AllAccounted(tabs, tasks, inbox)
  BY WindowFacts
<1>2. JobType' /\ StoreType'
  BY <1>1, JobsStay, StoreStays
<1>3. Budget'
  BY <1>1, Counts DEF Budget, Workspace!Closed
<1> QED BY <1>1, <1>2, <1>3, Running

LEMMA CancelWork == ASSUME WorkspaceInv, Workspace!Cancel PROVE WorkspaceInv'
<1>1. /\ phase = "running" /\ dialog' = Workspace!Closed
      /\ UNCHANGED <<tabs, active, disk, tasks, inbox, actions>>
      /\ UNCHANGED <<phase, leaving, known, tmp, file, faults, unsaved, left>>
  BY DEF Workspace!Cancel, Workspace!Answering, Workspace!store, Workspace!work, Workspace!world
<1>2. dialog' \in Dialogs /\ dialog'.asked = 0
  BY <1>1, ClosedIsDialog DEF Workspace!Closed
<1>3. actions' \in 0 .. MaxActions /\ actions' >= actions
  BY <1>1, Counts DEF WorkspaceInv, Budget
<1> QED BY <1>1, <1>2, <1>3, DialogWork

LEMMA QuitWork == ASSUME WorkspaceInv, Workspace!Quit PROVE WorkspaceInv'
<1>1. /\ phase = "running" /\ actions < MaxActions /\ actions' = actions + 1
      /\ dialog' = [kind |-> "quit", at |-> 0, asked |-> 0]
      /\ UNCHANGED <<tabs, active, disk, tasks, inbox>>
      /\ UNCHANGED <<phase, leaving, known, tmp, file, faults, unsaved, left>>
  BY DEF Workspace!Quit, Workspace!store, Workspace!work, Workspace!world
<1>2. dialog' \in Dialogs /\ dialog'.asked = 0
  BY <1>1, WorkspaceAssumption DEF Dialogs
<1>3. actions' \in 0 .. MaxActions /\ actions' >= actions
  BY <1>1, Counts, WorkspaceAssumption DEF WorkspaceInv, Budget
<1> QED BY <1>1, <1>2, <1>3, DialogWork

\* A tab goes, and the dialog that asked with it.
LEMMA ClosingWork ==
  ASSUME WorkspaceInv, phase = "running", NEW i \in 1 .. Len(tabs), Workspace!CloseTab(i),
         UNCHANGED <<disk, tasks, inbox>>,
         UNCHANGED <<phase, leaving, known, tmp, file, faults, unsaved, left>>,
         dialog' = Workspace!Closed, actions' \in 0 .. MaxActions, actions' >= actions
  PROVE  WorkspaceInv'
<1>1. JobType /\ StoreType /\ Budget
  BY WindowFacts
<1>2. JobType' /\ StoreType'
  BY <1>1, JobsStay, StoreStays
<1>3. Budget'
  BY <1>1, Counts DEF Budget, Workspace!Closed
<1>4. /\ tabs' \in Seq(Tabs) /\ Len(tabs') <= MaxTabs /\ active' \in 1 .. Len(tabs')
      /\ Distinct(tabs') /\ AllAccounted(tabs', tasks', inbox')
  BY CloseTabKeeps
<1>5. dialog' \in Dialogs
  BY ClosedIsDialog
<1> QED BY <1>2, <1>3, <1>4, <1>5, Running

LEMMA AskedType ==
  ASSUME WorkspaceInv, NEW i \in 1 .. Len(tabs), NEW kind \in {"close", "transaction"},
         Len(tabs) <= MaxTabs, tabs \in Seq(Tabs)
  PROVE  [kind |-> kind, at |-> i, asked |-> tabs[i].id] \in Dialogs
<1>1. tabs[i] \in Tabs
  OBVIOUS
<1>2. tabs[i].id \in Workspace!Ids /\ tabs[i].id # 0
  BY <1>1, Counts DEF Tabs
<1>3. i \in 0 .. MaxTabs
  BY WorkspaceAssumption
<1> QED BY <1>2, <1>3 DEF Dialogs

LEMMA CloseWork ==
  ASSUME WorkspaceInv, NEW i \in 1 .. Len(tabs), Workspace!Close(i)
  PROVE  WorkspaceInv'
<1>1. /\ phase = "running" /\ dialog = Workspace!Closed
      /\ actions < MaxActions /\ actions' = actions + 1
      /\ UNCHANGED <<disk, tasks, inbox>>
      /\ UNCHANGED <<phase, leaving, known, tmp, file, faults, unsaved, left>>
  BY DEF Workspace!Close, Workspace!User, Workspace!store, Workspace!work, Workspace!world
<1>2. tabs \in Seq(Tabs) /\ Len(tabs) <= MaxTabs
  BY <1>1, WindowFacts
<1>3. actions' \in 0 .. MaxActions /\ actions' >= actions
  BY <1>1, Counts, WorkspaceAssumption DEF WorkspaceInv, Budget
<1>4. \/ /\ UNCHANGED <<tabs, active>>
         /\ \E kind \in {"close", "transaction"} :
              dialog' = [kind |-> kind, at |-> i, asked |-> tabs[i].id]
      \/ Workspace!CloseTab(i) /\ dialog' = Workspace!Closed
  BY DEF Workspace!Close, Workspace!RequestClose
<1>5. CASE Workspace!CloseTab(i) /\ dialog' = Workspace!Closed
  BY <1>1, <1>3, <1>5, ClosingWork
<1>6. CASE /\ UNCHANGED <<tabs, active>>
           /\ \E kind \in {"close", "transaction"} :
                dialog' = [kind |-> kind, at |-> i, asked |-> tabs[i].id]
  <2>1. dialog' \in Dialogs
    BY <1>2, <1>6, AskedType
  <2> QED BY <1>1, <1>3, <1>6, <2>1, DialogWork
<1> QED BY <1>4, <1>5, <1>6

LEMMA DiscardWork == ASSUME WorkspaceInv, Workspace!Discard PROVE WorkspaceInv'
<1>1. /\ phase = "running" /\ dialog' = Workspace!Closed
      /\ UNCHANGED <<disk, tasks, inbox, actions>>
      /\ UNCHANGED <<phase, leaving, known, tmp, file, faults, unsaved, left>>
  BY DEF Workspace!Discard, Workspace!Answering, Workspace!store, Workspace!work, Workspace!world
<1>2. actions' \in 0 .. MaxActions /\ actions' >= actions
  BY <1>1, Counts DEF WorkspaceInv, Budget
<1>3. CASE dialog.at \in 1 .. Len(tabs)
  <2>1. Workspace!CloseTab(dialog.at)
    BY <1>3 DEF Workspace!Discard
  <2> QED BY <1>1, <1>2, <1>3, <2>1, ClosingWork
<1>4. CASE dialog.at \notin 1 .. Len(tabs)
  <2>1. UNCHANGED <<tabs, active>>
    BY <1>4 DEF Workspace!Discard
  <2>2. dialog' \in Dialogs /\ dialog'.asked = 0
    BY <1>1, ClosedIsDialog DEF Workspace!Closed
  <2> QED BY <1>1, <1>2, <2>1, <2>2, DialogWork
<1> QED BY <1>3, <1>4

LEMMA RollBackWork == ASSUME WorkspaceInv, Workspace!RollBack PROVE WorkspaceInv'
<1>1. /\ phase = "running" /\ dialog.kind = "transaction" /\ dialog.at \in 1 .. Len(tabs)
      /\ UNCHANGED <<disk, tasks, inbox, actions>>
      /\ UNCHANGED <<phase, leaving, known, tmp, file, faults, unsaved, left>>
  BY DEF Workspace!RollBack, Workspace!Answering, Workspace!store, Workspace!work, Workspace!world
<1>2. actions' \in 0 .. MaxActions /\ actions' >= actions
  BY <1>1, Counts DEF WorkspaceInv, Budget
<1> DEFINE i == dialog.at
           t == [tabs[i] EXCEPT !.tx = FALSE]
<1>3. \/ /\ dialog' = [kind |-> "close", at |-> i, asked |-> dialog.asked]
         /\ tabs' = [tabs EXCEPT ![i] = t] /\ active' = active
      \/ dialog' = Workspace!Closed /\ Workspace!CloseTab(i)
  BY DEF Workspace!RollBack
<1>4. CASE dialog' = Workspace!Closed /\ Workspace!CloseTab(i)
  BY <1>1, <1>2, <1>4, ClosingWork
<1>5. CASE /\ dialog' = [kind |-> "close", at |-> i, asked |-> dialog.asked]
           /\ tabs' = [tabs EXCEPT ![i] = t] /\ active' = active
  <2>1. /\ tabs \in Seq(Tabs) /\ Len(tabs) <= MaxTabs /\ active \in 1 .. Len(tabs)
        /\ JobType /\ StoreType /\ Budget /\ Distinct(tabs) /\ AllAccounted(tabs, tasks, inbox)
        /\ dialog \in Dialogs
    BY <1>1, WindowFacts
  <2>2. tabs[i] \in Tabs
    BY <1>1, <2>1
  <2>3. /\ t \in Tabs /\ t.id = tabs[i].id /\ t.saved = tabs[i].saved
        /\ t.onDisk = tabs[i].onDisk /\ t.sure = tabs[i].sure /\ t.text = tabs[i].text
    BY <2>2 DEF Tabs
  <2>4. dialog' \in Dialogs
    BY <1>1, <1>5, <2>1 DEF Dialogs
  <2>5. Budget'
    BY <1>1, <1>2, <1>5, <2>1, Counts DEF Budget
  <2>6. JobType' /\ StoreType'
    BY <1>1, <2>1, JobsStay, StoreStays
  <2> HIDE DEF t
  <2>7. /\ tabs' \in Seq(Tabs) /\ Len(tabs') = Len(tabs)
        /\ \A j \in 1 .. Len(tabs) : tabs'[j] = IF j = i THEN t ELSE tabs[j]
    BY <1>1, <1>5, <2>1, <2>3
  <2>8. Accounted(t, tasks, inbox)
    <3>1. Accounted(tabs[i], tasks, inbox)
      BY <1>1, <2>1 DEF AllAccounted
    <3> QED BY <2>3, <3>1, AccountedSame
  <2> HIDE DEF i
  <2>9. \A j \in 1 .. Len(tabs) : tabs'[j].id = tabs[j].id
    BY <2>3, <2>7
  <2>10. Distinct(tabs') /\ AllAccounted(tabs', tasks', inbox')
    BY <1>1, <2>1, <2>7, <2>8, <2>9 DEF Distinct, AllAccounted
  <2> QED BY <1>1, <1>5, <2>1, <2>4, <2>5, <2>6, <2>7, <2>10, Running
<1> QED BY <1>3, <1>4, <1>5

-----------------------------------------------------------------------------
\* A task more: it is the only one of its tab, if anything is sure of the tab.
LEMMA SavingKeeps ==
  ASSUME WorkspaceInv, phase # "off", NEW i \in 1 .. Len(tabs),
         NEW path \in Paths \cup {Workspace!NoPath}, NEW close \in BOOLEAN,
         Workspace!Saving(i, path, close), UNCHANGED disk
  PROVE  /\ tabs' \in Seq(Tabs) /\ Len(tabs') = Len(tabs) /\ active' = active
         /\ inbox' = inbox /\ JobType' /\ Cardinality(tasks') <= Cardinality(tasks) + 1
         /\ Cardinality(tasks') \in Nat
         /\ Distinct(tabs') /\ AllAccounted(tabs', tasks', inbox')
<1> DEFINE t == tabs[i]
           u == [t EXCEPT !.sure = t.sure /\ ~Workspace!InFlight(t.id)]
           s == [tab |-> t.id, kind |-> "save", path |-> path, text |-> t.text,
                 close |-> close, at |-> "start"]
<1>1. /\ tabs \in Seq(Tabs) /\ Distinct(tabs) /\ AllAccounted(tabs, tasks, inbox) /\ JobType
  BY WindowFacts
<1>2. t \in Tabs /\ Accounted(t, tasks, inbox)
  BY <1>1 DEF AllAccounted
<1>3. /\ tabs' = [tabs EXCEPT ![i] = u] /\ tasks' = tasks \cup {s}
      /\ active' = active /\ inbox' = inbox
  BY <1>1 DEF Workspace!Saving
<1>4. u \in Tabs /\ u.id = t.id /\ u.saved = t.saved /\ u.onDisk = t.onDisk /\ u.text = t.text
      /\ (u.sure <=> t.sure /\ ~Workspace!InFlight(t.id))
  <2>1. (t.sure /\ ~Workspace!InFlight(t.id)) \in BOOLEAN
    OBVIOUS
  <2> QED BY <1>2, <2>1 DEF Tabs
<1>5. /\ s \in Jobs /\ s.tab = t.id /\ s.text = t.text /\ s.kind = "save" /\ s.at = "start"
  BY <1>2 DEF Jobs, Tabs
<1>6. Accounted(u, tasks', inbox')
  <2> SUFFICES ASSUME u.sure
               PROVE  /\ u.saved = u.onDisk
                      /\ \A k \in 1 .. Len(inbox) : inbox[k].tab # u.id
                      /\ s \in tasks' /\ s.tab = u.id /\ s.text = u.text
                      /\ \A o \in tasks' : o.tab = u.id => o = s
    BY <1>3 DEF Accounted
  <2> HIDE DEF t, u, s
  <2>1. t.sure /\ ~Workspace!InFlight(t.id)
    BY <1>4
  <2>2. (\A k \in 1 .. Len(inbox) : inbox[k].tab # t.id) /\ \A o \in tasks : o.tab # t.id
    BY <2>1 DEF Workspace!InFlight
  <2>3. t.saved = t.onDisk
    BY <1>2, <2>1, <2>2 DEF Accounted
  <2> QED BY <1>3, <1>4, <1>5, <2>2, <2>3
<1> HIDE DEF u, s
<1>7. /\ tabs' \in Seq(Tabs) /\ Len(tabs') = Len(tabs)
      /\ \A j \in 1 .. Len(tabs) : tabs'[j] = IF j = i THEN u ELSE tabs[j]
  BY <1>1, <1>3, <1>4
<1>8. \A j \in 1 .. Len(tabs) : tabs'[j].id = tabs[j].id
  BY <1>4, <1>7
<1>9. Distinct(tabs')
  BY <1>1, <1>7, <1>8 DEF Distinct
<1>10. ASSUME NEW j \in 1 .. Len(tabs), j # i PROVE Accounted(tabs[j], tasks', inbox')
  <2>1. Accounted(tabs[j], tasks, inbox) /\ tabs[j].id # s.tab
    BY <1>1, <1>5, <1>10 DEF AllAccounted, Distinct
  <2> DEFINE w == tabs[j]
  <2> HIDE DEF w
  <2>2. Accounted(w, tasks, inbox) /\ w.id # s.tab
    BY <2>1 DEF w
  <2>3. Accounted(w, tasks', inbox')
    BY <1>3, <2>2 DEF Accounted, Flying
  <2> QED BY <2>3 DEF w
<1>11. AllAccounted(tabs', tasks', inbox')
  BY <1>6, <1>7, <1>10 DEF AllAccounted
<1>12. IsFiniteSet(tasks') /\ Cardinality(tasks') <= Cardinality(tasks) + 1
       /\ Cardinality(tasks') \in Nat
  <2>1. IsFiniteSet(tasks) /\ Cardinality(tasks) \in Nat
    BY <1>1, Counts DEF JobType
  <2>2. /\ IsFiniteSet(tasks \cup {s})
        /\ Cardinality(tasks \cup {s}) = IF s \in tasks THEN Cardinality(tasks) ELSE Cardinality(tasks) + 1
    BY <2>1, FS_AddElement
  <2>3. tasks' = tasks \cup {s}
    BY <1>3
  <2> QED BY <2>1, <2>2, <2>3
<1>13. JobType'
  <2>1. tasks' \subseteq Jobs
    BY <1>1, <1>3, <1>5 DEF JobType
  <2>2. \A r \in tasks' : /\ r.kind = "open" => r.tab = 0 /\ r.path # Workspace!NoPath /\ r.at = "start"
                          /\ r.at = "writing" => r.path # Workspace!NoPath
    BY <1>1, <1>3, <1>5 DEF JobType
  <2> QED BY <1>1, <1>3, <1>12, <2>1, <2>2 DEF JobType
<1> QED BY <1>3, <1>7, <1>9, <1>11, <1>12, <1>13

LEMMA SaveWork ==
  ASSUME WorkspaceInv, NEW saveAs \in BOOLEAN, Workspace!Save(saveAs)
  PROVE  WorkspaceInv'
<1> DEFINE path == IF saveAs THEN Workspace!NoPath ELSE tabs[active].path
<1>1. /\ phase = "running" /\ dialog = Workspace!Closed
      /\ actions < MaxActions /\ actions' = actions + 1
      /\ Workspace!Saving(active, path, FALSE)
      /\ UNCHANGED <<dialog, disk>>
      /\ UNCHANGED <<phase, leaving, known, tmp, file, faults, unsaved, left>>
  BY DEF Workspace!Save, Workspace!User, Workspace!store, Workspace!world
<1>2. /\ tabs \in Seq(Tabs) /\ Len(tabs) <= MaxTabs /\ active \in 1 .. Len(tabs)
      /\ dialog \in Dialogs /\ StoreType /\ Budget
  BY <1>1, WindowFacts
<1>3. path \in Paths \cup {Workspace!NoPath}
  <2>1. tabs[active] \in Tabs
    BY <1>2
  <2> QED BY <2>1 DEF Tabs
<1> HIDE DEF path
<1>4. /\ tabs' \in Seq(Tabs) /\ Len(tabs') = Len(tabs) /\ active' = active
      /\ inbox' = inbox /\ JobType' /\ Cardinality(tasks') <= Cardinality(tasks) + 1
      /\ Cardinality(tasks') \in Nat
      /\ Distinct(tabs') /\ AllAccounted(tabs', tasks', inbox')
  BY <1>1, <1>2, <1>3, SavingKeeps
<1>5. StoreType'
  BY <1>1, <1>2, StoreStays
<1>6. Budget'
  BY <1>1, <1>2, <1>4, Counts, WorkspaceAssumption DEF Budget
<1> QED BY <1>1, <1>2, <1>4, <1>5, <1>6, Running

LEMMA SaveAndCloseWork == ASSUME WorkspaceInv, Workspace!SaveAndClose PROVE WorkspaceInv'
<1>1. /\ phase = "running" /\ dialog.kind = "close" /\ dialog.at \in 1 .. Len(tabs)
      /\ Workspace!Saving(dialog.at, tabs[dialog.at].path, TRUE)
      /\ dialog' = Workspace!Closed /\ UNCHANGED <<disk, actions>>
      /\ UNCHANGED <<phase, leaving, known, tmp, file, faults, unsaved, left>>
  BY DEF Workspace!SaveAndClose, Workspace!Answering, Workspace!store, Workspace!world
<1>2. /\ tabs \in Seq(Tabs) /\ Len(tabs) <= MaxTabs /\ active \in 1 .. Len(tabs)
      /\ dialog \in Dialogs /\ StoreType /\ Budget
  BY <1>1, WindowFacts
<1>3. tabs[dialog.at].path \in Paths \cup {Workspace!NoPath}
  <2>1. tabs[dialog.at] \in Tabs
    BY <1>1, <1>2
  <2> QED BY <2>1 DEF Tabs
<1>4. /\ tabs' \in Seq(Tabs) /\ Len(tabs') = Len(tabs) /\ active' = active
      /\ inbox' = inbox /\ JobType' /\ Cardinality(tasks') <= Cardinality(tasks) + 1
      /\ Cardinality(tasks') \in Nat
      /\ Distinct(tabs') /\ AllAccounted(tabs', tasks', inbox')
  BY <1>1, <1>2, <1>3, SavingKeeps
<1>5. StoreType' /\ dialog' \in Dialogs
  BY <1>1, <1>2, StoreStays, ClosedIsDialog
<1>6. dialog.asked # 0
  BY <1>1, <1>2 DEF Dialogs
<1>7. Budget'
  BY <1>1, <1>2, <1>4, <1>6, Counts DEF Budget, Workspace!Closed
<1> QED BY <1>1, <1>2, <1>4, <1>5, <1>7, Running

\* Nothing is known of tab 0.
LEMMA OfOther ==
  ASSUME NEW t, NEW jobs, NEW jobs2, NEW answers, Accounted(t, jobs, answers),
         \A s \in jobs2 : s.tab = t.id => s \in jobs,
         \A s \in jobs : s.tab = t.id => s \in jobs2
  PROVE  Accounted(t, jobs2, answers)
BY DEF Accounted, Flying

LEMMA OpenFileWork ==
  ASSUME WorkspaceInv, NEW p \in Paths, Workspace!OpenFile(p)
  PROVE  WorkspaceInv'
<1> DEFINE s == [tab |-> 0, kind |-> "open", path |-> p, text |-> Blank, close |-> FALSE, at |-> "start"]
<1>1. /\ phase = "running" /\ dialog = Workspace!Closed
      /\ actions < MaxActions /\ actions' = actions + 1
      /\ tasks' = tasks \cup {s}
      /\ UNCHANGED <<tabs, active, dialog, disk, inbox>>
      /\ UNCHANGED <<phase, leaving, known, tmp, file, faults, unsaved, left>>
  BY DEF Workspace!OpenFile, Workspace!User, Workspace!store, Workspace!world, Workspace!app
<1>2. /\ tabs \in Seq(Tabs) /\ Len(tabs) <= MaxTabs /\ active \in 1 .. Len(tabs)
      /\ dialog \in Dialogs /\ StoreType /\ Budget /\ JobType
      /\ Distinct(tabs) /\ AllAccounted(tabs, tasks, inbox)
  BY <1>1, WindowFacts
<1>3. s \in Jobs /\ s.tab = 0 /\ s.path # Workspace!NoPath /\ s.at = "start" /\ s.kind = "open"
  BY WorkspaceAssumption DEF Jobs, Workspace!NoPath
<1> HIDE DEF s
<1>4. IsFiniteSet(tasks') /\ Cardinality(tasks') <= Cardinality(tasks) + 1
      /\ Cardinality(tasks') \in Nat
  <2>1. IsFiniteSet(tasks) /\ Cardinality(tasks) \in Nat
    BY <1>2, Counts DEF JobType
  <2> QED BY <1>1, <2>1, FS_AddElement
<1>5. JobType'
  <2>1. tasks' \subseteq Jobs
    BY <1>1, <1>2, <1>3 DEF JobType
  <2>2. \A r \in tasks' : /\ r.kind = "open" => r.tab = 0 /\ r.path # Workspace!NoPath /\ r.at = "start"
                          /\ r.at = "writing" => r.path # Workspace!NoPath
    BY <1>1, <1>2, <1>3 DEF JobType
  <2> QED BY <1>1, <1>2, <1>4, <2>1, <2>2 DEF JobType
<1>6. StoreType'
  BY <1>1, <1>2, StoreStays
<1>7. Budget'
  BY <1>1, <1>2, <1>4, Counts, WorkspaceAssumption DEF Budget
<1>8. ASSUME NEW i \in 1 .. Len(tabs) PROVE Accounted(tabs[i], tasks', inbox)
  <2>1. tabs[i] \in Tabs /\ Accounted(tabs[i], tasks, inbox)
    BY <1>2 DEF AllAccounted
  <2>2. tabs[i].id # 0
    BY <2>1, Counts DEF Tabs
  <2>3. (\A r \in tasks' : r.tab = tabs[i].id => r \in tasks)
        /\ \A r \in tasks : r.tab = tabs[i].id => r \in tasks'
    BY <1>1, <1>3, <2>2
  <2> QED BY <2>1, <2>3, OfOther
<1>9. AllAccounted(tabs', tasks', inbox') /\ Distinct(tabs')
  BY <1>1, <1>2, <1>8 DEF AllAccounted
<1> QED BY <1>1, <1>2, <1>5, <1>6, <1>7, <1>9, Running

-----------------------------------------------------------------------------
\* A task goes on with the same text.
LEMMA TaskGoesOn ==
  ASSUME NEW t, NEW jobs, NEW answers, Accounted(t, jobs, answers),
         NEW s \in jobs, NEW r, r.tab = s.tab, r.text = s.text
  PROVE  Accounted(t, (jobs \ {s}) \cup {r}, answers)
<1> DEFINE jobs2 == (jobs \ {s}) \cup {r}
<1>1. CASE t.id # s.tab
  <2>1. (\A o \in jobs2 : o.tab = t.id => o \in jobs) /\ \A o \in jobs : o.tab = t.id => o \in jobs2
    BY <1>1
  <2> QED BY <2>1, OfOther
<1>2. CASE t.id = s.tab
  <2> SUFFICES ASSUME t.sure PROVE Accounted(t, jobs2, answers)
    BY DEF Accounted
  <2>1. Flying(t.id, jobs, answers) /\ ~(\A o \in jobs : o.tab # t.id)
    BY <1>2 DEF Flying
  <2>2. /\ t.saved = t.onDisk
        /\ \A k \in 1 .. Len(answers) : answers[k].tab # t.id
        /\ \E x \in jobs : /\ x.tab = t.id /\ x.text = t.text
                           /\ \A o \in jobs : o.tab = t.id => o = x
    BY <2>1 DEF Accounted
  <2>3. s.text = t.text /\ \A o \in jobs : o.tab = t.id => o = s
    BY <1>2, <2>2
  <2>4. r \in jobs2 /\ r.tab = t.id /\ r.text = t.text /\ \A o \in jobs2 : o.tab = t.id => o = r
    BY <1>2, <2>3
  <2> QED BY <2>2, <2>4 DEF Accounted
<1> QED BY <1>1, <1>2

\* The user picks no path.
LEMMA TaskGone ==
  ASSUME NEW t, NEW jobs, NEW answers, Accounted(t, jobs, answers), NEW s \in jobs
  PROVE  Accounted(t, jobs \ {s}, answers)
<1> DEFINE jobs2 == jobs \ {s}
<1>1. CASE t.id # s.tab
  <2>1. (\A o \in jobs2 : o.tab = t.id => o \in jobs) /\ \A o \in jobs : o.tab = t.id => o \in jobs2
    BY <1>1
  <2> QED BY <2>1, OfOther
<1>2. CASE t.id = s.tab
  <2> SUFFICES ASSUME t.sure PROVE Accounted(t, jobs2, answers)
    BY DEF Accounted
  <2>1. Flying(t.id, jobs, answers) /\ ~(\A o \in jobs : o.tab # t.id)
    BY <1>2 DEF Flying
  <2>2. /\ t.saved = t.onDisk
        /\ \A k \in 1 .. Len(answers) : answers[k].tab # t.id
        /\ \E x \in jobs : /\ x.tab = t.id /\ x.text = t.text
                           /\ \A o \in jobs : o.tab = t.id => o = x
    BY <2>1 DEF Accounted
  <2>3. \A o \in jobs2 : o.tab # t.id
    BY <1>2, <2>2
  <2> QED BY <2>2, <2>3 DEF Accounted, Flying
<1> QED BY <1>1, <1>2

\* A task ends, and sends its answer: to a tab it is not of ...
LEMMA AnsweredOther ==
  ASSUME NEW t, NEW jobs, NEW answers \in Seq(Replies), Accounted(t, jobs, answers),
         NEW s, NEW m \in Replies, m.tab = s.tab, t.id # s.tab
  PROVE  Accounted(t, jobs \ {s}, Append(answers, m))
<1> SUFFICES ASSUME t.sure PROVE Accounted(t, jobs \ {s}, Append(answers, m))
  BY DEF Accounted
<1> PICK n \in Nat : n = Len(answers)
  OBVIOUS
<1>a. Append(answers, m) \in Seq(Replies)
  OBVIOUS
<1> PICK q \in Seq(Replies) : q = Append(answers, m)
  BY <1>a
<1>1. Len(q) = n + 1 /\ q[n + 1] = m /\ \A k \in 1 .. n : q[k] = answers[k] /\ k \in 1 .. n + 1
  OBVIOUS
<1>2. \A k \in 1 .. Len(q) : q[k].tab = t.id => k \in 1 .. n /\ answers[k].tab = t.id
  <2>1. \A k \in 1 .. n + 1 : k \in 1 .. n \/ k = n + 1
    OBVIOUS
  <2> QED BY <1>1, <2>1
<1>3. (\A o \in jobs \ {s} : o.tab = t.id => o \in jobs)
      /\ \A o \in jobs : o.tab = t.id => o \in jobs \ {s}
  OBVIOUS
<1>4. CASE ~Flying(t.id, jobs, answers) /\ t.saved = t.onDisk
  BY <1>2, <1>3, <1>4 DEF Flying, Accounted
<1>5. CASE /\ t.saved = t.onDisk
           /\ \A k \in 1 .. Len(answers) : answers[k].tab # t.id
           /\ \E x \in jobs : /\ x.tab = t.id /\ x.text = t.text
                              /\ \A o \in jobs : o.tab = t.id => o = x
  BY <1>2, <1>3, <1>5 DEF Accounted
<1>6. CASE /\ \A x \in jobs : x.tab # t.id
           /\ \E k \in 1 .. Len(answers) :
                /\ answers[k].tab = t.id
                /\ \A l \in 1 .. Len(answers) : answers[l].tab = t.id => l = k
                /\ IF answers[k].ok THEN t.onDisk = t.text ELSE t.saved = t.onDisk
  <2>1. PICK k \in 1 .. n :
                /\ answers[k].tab = t.id
                /\ \A l \in 1 .. Len(answers) : answers[l].tab = t.id => l = k
                /\ IF answers[k].ok THEN t.onDisk = t.text ELSE t.saved = t.onDisk
    BY <1>6
  <2>2. /\ k \in 1 .. Len(q) /\ q[k].tab = t.id
        /\ \A l \in 1 .. Len(q) : q[l].tab = t.id => l = k
        /\ IF q[k].ok THEN t.onDisk = t.text ELSE t.saved = t.onDisk
    BY <1>1, <1>2, <2>1
  <2>3. \A x \in jobs \ {s} : x.tab # t.id
    BY <1>6
  <2> QED BY <2>2, <2>3 DEF Accounted
<1> QED BY <1>4, <1>5, <1>6 DEF Accounted

\* ... and to its own, of which there is no other.
LEMMA AnsweredOwn ==
  ASSUME NEW t, NEW jobs, NEW answers \in Seq(Replies), NEW s,
         NEW m \in Replies, m.tab = t.id,
         \A o \in jobs \ {s} : o.tab # t.id,
         \A k \in 1 .. Len(answers) : answers[k].tab # t.id,
         IF m.ok THEN t.onDisk = t.text ELSE t.saved = t.onDisk
  PROVE  Accounted(t, jobs \ {s}, Append(answers, m))
<1> PICK n \in Nat : n = Len(answers)
  OBVIOUS
<1>a. Append(answers, m) \in Seq(Replies)
  OBVIOUS
<1> PICK q \in Seq(Replies) : q = Append(answers, m)
  BY <1>a
<1>1. Len(q) = n + 1 /\ q[n + 1] = m /\ \A k \in 1 .. n : q[k] = answers[k]
  OBVIOUS
<1>2. n + 1 \in 1 .. Len(q) /\ \A k \in 1 .. Len(q) : q[k].tab = t.id => k = n + 1
  <2>1. n + 1 \in 1 .. n + 1 /\ \A k \in 1 .. n + 1 : k \in 1 .. n \/ k = n + 1
    OBVIOUS
  <2> QED BY <1>1, <2>1
<1> QED BY <1>1, <1>2 DEF Accounted

\* If anything is sure of a tab, a save of it under way is the only one.
LEMMA OwnSave ==
  ASSUME NEW t, NEW jobs, NEW answers, Accounted(t, jobs, answers), t.sure,
         NEW s \in jobs, s.tab = t.id
  PROVE  /\ s.text = t.text /\ t.saved = t.onDisk
         /\ \A o \in jobs \ {s} : o.tab # t.id
         /\ \A k \in 1 .. Len(answers) : answers[k].tab # t.id
<1>1. Flying(t.id, jobs, answers) /\ ~(\A o \in jobs : o.tab # t.id)
  BY DEF Flying
<1>2. /\ t.saved = t.onDisk
      /\ \A k \in 1 .. Len(answers) : answers[k].tab # t.id
      /\ \E x \in jobs : /\ x.tab = t.id /\ x.text = t.text
                         /\ \A o \in jobs : o.tab = t.id => o = x
  BY <1>1 DEF Accounted
<1> QED BY <1>2

-----------------------------------------------------------------------------
\* What a step of a task has to leave.
LEMMA TaskWork ==
  ASSUME WorkspaceInv, phase # "off", UNCHANGED <<active, dialog, actions>>,
         StoreType', JobType', tabs' \in Seq(Tabs), Len(tabs') = Len(tabs),
         Cardinality(tasks') + Len(inbox') <= Cardinality(tasks) + Len(inbox),
         Cardinality(tasks') \in Nat, Len(inbox') \in Nat, phase' = phase,
         \A i \in 1 .. Len(tabs) : tabs'[i].id = tabs[i].id /\ Accounted(tabs'[i], tasks', inbox')
  PROVE  WorkspaceInv'
<1>1. /\ tabs \in Seq(Tabs) /\ Len(tabs) <= MaxTabs /\ active \in 1 .. Len(tabs)
      /\ dialog \in Dialogs /\ Budget /\ Distinct(tabs)
  BY WindowFacts
<1>2. Budget'
  BY <1>1, Counts DEF Budget
<1>3. Distinct(tabs') /\ AllAccounted(tabs', tasks', inbox')
  BY <1>1 DEF Distinct, AllAccounted
<1> QED BY <1>1, <1>2, <1>3, Running

LEMMA TasksReplaced ==
  ASSUME WorkspaceInv, NEW s \in tasks, NEW r \in Jobs,
         r.kind = "open" => r.tab = 0 /\ r.path # Workspace!NoPath /\ r.at = "start",
         r.at = "writing" => r.path # Workspace!NoPath,
         tasks' = (tasks \ {s}) \cup {r}, disk' \in [Paths -> Contents], inbox' = inbox
  PROVE  JobType' /\ Cardinality(tasks') <= Cardinality(tasks) /\ Cardinality(tasks') \in Nat
<1>1. JobType /\ IsFiniteSet(tasks) /\ Cardinality(tasks) \in Nat
  BY Counts DEF WorkspaceInv, JobType
<1>2. IsFiniteSet(tasks \ {s}) /\ Cardinality(tasks \ {s}) = Cardinality(tasks) - 1
  BY <1>1, FS_RemoveElement
<1>3. /\ IsFiniteSet((tasks \ {s}) \cup {r})
      /\ Cardinality((tasks \ {s}) \cup {r}) =
           IF r \in tasks \ {s} THEN Cardinality(tasks \ {s}) ELSE Cardinality(tasks \ {s}) + 1
  BY <1>2, FS_AddElement
<1>4. Cardinality((tasks \ {s}) \cup {r}) \in Nat
  BY <1>3, FS_CardinalityType
<1>5. IsFiniteSet(tasks') /\ Cardinality(tasks') <= Cardinality(tasks) /\ Cardinality(tasks') \in Nat
  BY <1>1, <1>2, <1>3, <1>4
<1>6. \A x \in tasks' : x \in tasks \/ x = r
  OBVIOUS
<1>7. JobType'
  <2>1. tasks' \subseteq Jobs
    BY <1>1, <1>6 DEF JobType
  <2>2. \A x \in tasks' : /\ x.kind = "open" => x.tab = 0 /\ x.path # Workspace!NoPath /\ x.at = "start"
                          /\ x.at = "writing" => x.path # Workspace!NoPath
    BY <1>1, <1>6 DEF JobType
  <2> QED BY <1>1, <1>5, <2>1, <2>2 DEF JobType
<1> QED BY <1>5, <1>7

LEMMA TasksDropped ==
  ASSUME WorkspaceInv, NEW s \in tasks, tasks' = tasks \ {s}
  PROVE  /\ tasks' \subseteq Jobs /\ IsFiniteSet(tasks')
         /\ Cardinality(tasks') = Cardinality(tasks) - 1 /\ Cardinality(tasks') \in Nat
         /\ \A x \in tasks' : /\ x.kind = "open" => x.tab = 0 /\ x.path # Workspace!NoPath /\ x.at = "start"
                              /\ x.at = "writing" => x.path # Workspace!NoPath
<1>1. JobType /\ IsFiniteSet(tasks) /\ Cardinality(tasks) \in Nat
  BY Counts DEF WorkspaceInv, JobType
<1>2. IsFiniteSet(tasks \ {s}) /\ Cardinality(tasks \ {s}) = Cardinality(tasks) - 1
  BY <1>1, FS_RemoveElement
<1>3. Cardinality(tasks \ {s}) \in Nat
  BY <1>2, FS_CardinalityType
<1> QED BY <1>1, <1>2, <1>3 DEF JobType

\* A task that ends sends its answer.
LEMMA AnswerSent ==
  ASSUME WorkspaceInv, NEW s \in tasks, s.path # Workspace!NoPath, NEW text \in Texts,
         NEW ok \in BOOLEAN, Workspace!Drop(s), Workspace!Send(s, text, ok),
         disk' \in [Paths -> Contents]
  PROVE  /\ tasks' = tasks \ {s} /\ JobType'
         /\ Cardinality(tasks') + Len(inbox') <= Cardinality(tasks) + Len(inbox)
         /\ Cardinality(tasks') \in Nat /\ Len(inbox') \in Nat
         /\ \E m \in Replies : m.tab = s.tab /\ m.ok = ok /\ inbox' = Append(inbox, m)
<1> DEFINE m == [tab |-> s.tab, kind |-> s.kind, path |-> s.path, text |-> text,
                 ok |-> ok, close |-> s.close]
<1>1. tasks' = tasks \ {s} /\ inbox' = Append(inbox, m)
  BY DEF Workspace!Drop, Workspace!Send
<1>2. JobType /\ s \in Jobs /\ (s.kind = "open" => s.tab = 0) /\ inbox \in Seq(Replies)
  BY DEF WorkspaceInv, JobType
<1>3. m \in Replies /\ m.tab = s.tab /\ m.ok = ok /\ m.kind = s.kind
  BY <1>2 DEF Jobs, Replies
<1> HIDE DEF m
<1>4. /\ tasks' \subseteq Jobs /\ IsFiniteSet(tasks')
      /\ Cardinality(tasks') = Cardinality(tasks) - 1 /\ Cardinality(tasks') \in Nat
      /\ \A x \in tasks' : /\ x.kind = "open" => x.tab = 0 /\ x.path # Workspace!NoPath /\ x.at = "start"
                           /\ x.at = "writing" => x.path # Workspace!NoPath
  BY <1>1, TasksDropped
<1>a. inbox \in Seq(Replies) /\ m \in Replies
  BY <1>2, <1>3
<1>5. inbox' \in Seq(Replies) /\ Len(inbox') = Len(inbox) + 1
      /\ \A k \in 1 .. Len(inbox) + 1 : inbox'[k] = IF k = Len(inbox) + 1 THEN m ELSE inbox[k]
  BY <1>1, <1>a
<1>6. \A k \in 1 .. Len(inbox') : inbox'[k].kind = "open" => inbox'[k].tab = 0
  <2>1. \A k \in 1 .. Len(inbox) + 1 : k \in 1 .. Len(inbox) \/ k = Len(inbox) + 1
    BY <1>2
  <2>2. \A k \in 1 .. Len(inbox) : inbox[k].kind = "open" => inbox[k].tab = 0
    BY <1>2 DEF JobType
  <2> QED BY <1>2, <1>3, <1>5, <2>1, <2>2
<1>7. JobType'
  BY <1>4, <1>5, <1>6 DEF JobType
<1>8. Cardinality(tasks) \in Nat /\ Len(inbox) \in Nat
  BY Counts
<1> QED BY <1>1, <1>3, <1>4, <1>5, <1>7, <1>8

LEMMA PickPathWork ==
  ASSUME WorkspaceInv, NEW s \in tasks, Workspace!PickPath(s)
  PROVE  WorkspaceInv'
<1>1. /\ phase # "off" /\ s.path = Workspace!NoPath
      /\ \/ \E p \in Paths : tasks' = (tasks \ {s}) \cup {[s EXCEPT !.path = p]}
         \/ tasks' = tasks \ {s}
      /\ UNCHANGED <<tabs, active, dialog, disk, inbox, actions>>
      /\ UNCHANGED <<phase, leaving, known, tmp, file, faults, unsaved, left>>
  BY DEF Workspace!PickPath, Workspace!Drop, Workspace!app, Workspace!store, Workspace!world
<1>2. /\ tabs \in Seq(Tabs) /\ StoreType /\ JobType /\ AllAccounted(tabs, tasks, inbox)
  BY <1>1, WindowFacts
<1>3. StoreType' /\ disk' \in [Paths -> Contents] /\ Len(inbox') = Len(inbox) /\ Len(inbox) \in Nat
  BY <1>1, <1>2, StoreStays, Counts DEF JobType
<1>4. /\ s \in Jobs
      /\ s.kind = "open" => s.tab = 0 /\ s.path # Workspace!NoPath /\ s.at = "start"
      /\ s.at = "writing" => s.path # Workspace!NoPath
  BY <1>2 DEF JobType
<1>5. CASE \E p \in Paths : tasks' = (tasks \ {s}) \cup {[s EXCEPT !.path = p]}
  <2> PICK p \in Paths : tasks' = (tasks \ {s}) \cup {[s EXCEPT !.path = p]}
    BY <1>5
  <2> DEFINE r == [s EXCEPT !.path = p]
  <2>1. r \in Jobs /\ r.tab = s.tab /\ r.text = s.text /\ r.kind = s.kind /\ r.at = s.at
    BY <1>4 DEF Jobs
  <2> HIDE DEF r
  <2>2. /\ r.kind = "open" => r.tab = 0 /\ r.path # Workspace!NoPath /\ r.at = "start"
        /\ r.at = "writing" => r.path # Workspace!NoPath
    BY <1>1, <1>4, <2>1
  <2>3. tasks' = (tasks \ {s}) \cup {r}
    BY DEF r
  <2>4. JobType' /\ Cardinality(tasks') <= Cardinality(tasks) /\ Cardinality(tasks') \in Nat
    BY <1>1, <1>3, <2>1, <2>2, <2>3, TasksReplaced
  <2>5. ASSUME NEW i \in 1 .. Len(tabs) PROVE Accounted(tabs[i], tasks', inbox)
    <3>1. Accounted(tabs[i], tasks, inbox)
      BY <1>2 DEF AllAccounted
    <3> QED BY <2>1, <2>3, <3>1, TaskGoesOn
  <2>6. Cardinality(tasks') + Len(inbox') <= Cardinality(tasks) + Len(inbox)
    BY <1>3, <2>4, Counts
  <2> QED BY <1>1, <1>2, <1>3, <2>4, <2>5, <2>6, TaskWork
<1>6. CASE tasks' = tasks \ {s}
  <2>1. /\ tasks' \subseteq Jobs /\ IsFiniteSet(tasks')
        /\ Cardinality(tasks') = Cardinality(tasks) - 1 /\ Cardinality(tasks') \in Nat
        /\ \A x \in tasks' : /\ x.kind = "open" => x.tab = 0 /\ x.path # Workspace!NoPath /\ x.at = "start"
                             /\ x.at = "writing" => x.path # Workspace!NoPath
    BY <1>6, TasksDropped
  <2>2. JobType'
    BY <1>1, <1>2, <2>1 DEF JobType
  <2>3. ASSUME NEW i \in 1 .. Len(tabs) PROVE Accounted(tabs[i], tasks', inbox)
    <3>1. Accounted(tabs[i], tasks, inbox)
      BY <1>2 DEF AllAccounted
    <3> QED BY <1>6, <3>1, TaskGone
  <2>4. Cardinality(tasks') + Len(inbox') <= Cardinality(tasks) + Len(inbox)
    BY <1>3, <2>1, Counts
  <2> QED BY <1>1, <1>2, <1>3, <2>1, <2>2, <2>3, <2>4, TaskWork
<1> QED BY <1>1, <1>5, <1>6

LEMMA TruncateWork ==
  ASSUME WorkspaceInv, NEW s \in tasks, Workspace!Truncate(s)
  PROVE  WorkspaceInv'
<1> DEFINE r == [s EXCEPT !.at = "writing"]
<1>1. /\ phase # "off" /\ s.kind = "save" /\ s.path # Workspace!NoPath
      /\ disk' = [disk EXCEPT ![s.path] = Workspace!Torn]
      /\ tasks' = (tasks \ {s}) \cup {r}
      /\ UNCHANGED <<tabs, active, dialog, inbox, actions>>
      /\ UNCHANGED <<phase, leaving, known, tmp, file, faults, unsaved, left>>
  BY DEF Workspace!Truncate, Workspace!app, Workspace!store, Workspace!world
<1>2. /\ tabs \in Seq(Tabs) /\ StoreType /\ JobType /\ AllAccounted(tabs, tasks, inbox)
  BY <1>1, WindowFacts
<1>3. StoreType' /\ disk' \in [Paths -> Contents] /\ Len(inbox') = Len(inbox) /\ Len(inbox) \in Nat
  <2>1. disk' \in [Paths -> Contents]
    BY <1>1, <1>2 DEF JobType, Contents
  <2> QED BY <1>1, <1>2, <2>1, StoreStays, Counts
<1>4. r \in Jobs /\ r.tab = s.tab /\ r.text = s.text /\ r.kind = "save" /\ r.path = s.path
  <2>1. s \in Jobs
    BY <1>2 DEF JobType
  <2> QED BY <1>1, <2>1 DEF Jobs
<1> HIDE DEF r
<1>5. JobType' /\ Cardinality(tasks') <= Cardinality(tasks) /\ Cardinality(tasks') \in Nat
  BY <1>1, <1>3, <1>4, TasksReplaced
<1>6. ASSUME NEW i \in 1 .. Len(tabs) PROVE Accounted(tabs[i], tasks', inbox)
  <2>1. Accounted(tabs[i], tasks, inbox)
    BY <1>2 DEF AllAccounted
  <2> QED BY <1>1, <1>4, <2>1, TaskGoesOn
<1>7. Cardinality(tasks') + Len(inbox') <= Cardinality(tasks) + Len(inbox)
  BY <1>3, <1>5, Counts
<1> QED BY <1>1, <1>2, <1>3, <1>5, <1>6, <1>7, TaskWork

LEMMA ReadFileWork ==
  ASSUME WorkspaceInv, NEW s \in tasks, Workspace!ReadFile(s)
  PROVE  WorkspaceInv'
<1>1. /\ phase # "off" /\ s.kind = "open"
      /\ Workspace!Drop(s) /\ Workspace!Send(s, Workspace!Text(s.path), TRUE)
      /\ UNCHANGED <<tabs, active, dialog, disk, actions>>
      /\ UNCHANGED <<phase, leaving, known, tmp, file, faults, unsaved, left>>
  BY DEF Workspace!ReadFile, Workspace!app, Workspace!store, Workspace!world
<1>2. /\ tabs \in Seq(Tabs) /\ StoreType /\ JobType /\ AllAccounted(tabs, tasks, inbox)
  BY <1>1, WindowFacts
<1>3. StoreType' /\ disk' \in [Paths -> Contents]
  BY <1>1, <1>2, StoreStays DEF JobType
<1>4. s.path # Workspace!NoPath /\ s.tab = 0 /\ s.path \in Paths
  BY <1>1, <1>2 DEF JobType, Jobs
<1>5. Workspace!Text(s.path) \in Texts
  BY <1>2, <1>4, WorkspaceAssumption DEF JobType, Contents, Workspace!Text
<1>6. /\ tasks' = tasks \ {s} /\ JobType'
      /\ Cardinality(tasks') + Len(inbox') <= Cardinality(tasks) + Len(inbox)
      /\ Cardinality(tasks') \in Nat /\ Len(inbox') \in Nat
      /\ \E m \in Replies : m.tab = s.tab /\ m.ok = TRUE /\ inbox' = Append(inbox, m)
  BY <1>1, <1>3, <1>4, <1>5, AnswerSent
<1>7. ASSUME NEW i \in 1 .. Len(tabs) PROVE Accounted(tabs[i], tasks', inbox')
  <2>1. tabs[i] \in Tabs /\ Accounted(tabs[i], tasks, inbox)
    BY <1>2 DEF AllAccounted
  <2>2. tabs[i].id # s.tab
    BY <1>4, <2>1, Counts DEF Tabs
  <2>3. inbox \in Seq(Replies)
    BY <1>2 DEF JobType
  <2> QED BY <1>6, <2>1, <2>2, <2>3, AnsweredOther
<1> QED BY <1>1, <1>2, <1>3, <1>6, <1>7, TaskWork

\* What a write leaves in its file is history of the tab.
WrittenTabs(s, id, text, sure) ==
  [i \in 1 .. Len(s) |->
     IF s[i].id = id THEN [s[i] EXCEPT !.onDisk = text, !.sure = sure[s[i]]] ELSE s[i]]

LEMMA OnDiskKeeps ==
  ASSUME NEW s \in Seq(Tabs), NEW id, NEW text \in Contents, NEW sure \in [Tabs -> BOOLEAN],
         NEW r, r = WrittenTabs(s, id, text, sure)
  PROVE  /\ r \in Seq(Tabs) /\ Len(r) = Len(s)
         /\ \A i \in 1 .. Len(s) :
              /\ s[i].id # id => r[i] = s[i]
              /\ r[i].id = s[i].id
              /\ s[i].id = id =>
                   /\ r[i].onDisk = text /\ r[i].sure = sure[s[i]]
                   /\ r[i].text = s[i].text /\ r[i].saved = s[i].saved
<1> PICK n \in Nat : n = Len(s)
  OBVIOUS
<1> DEFINE u(i) == IF s[i].id = id
                   THEN [s[i] EXCEPT !.onDisk = text, !.sure = sure[s[i]]]
                   ELSE s[i]
<1>1. ASSUME NEW i \in 1 .. n
      PROVE  /\ u(i) \in Tabs /\ u(i).id = s[i].id
             /\ s[i].id = id =>
                  /\ u(i).onDisk = text /\ u(i).sure = sure[s[i]]
                  /\ u(i).text = s[i].text /\ u(i).saved = s[i].saved
  <2>1. s[i] \in Tabs
    OBVIOUS
  <2>2. sure[s[i]] \in BOOLEAN
    BY <2>1
  <2> QED BY <2>1, <2>2 DEF Tabs
<1>2. \A i \in 1 .. n : s[i].id # id => u(i) = s[i]
  OBVIOUS
<1>3. r = [i \in 1 .. n |-> u(i)]
  BY DEF WrittenTabs
<1> HIDE DEF u
<1>4. r \in Seq(Tabs) /\ Len(r) = n /\ \A i \in 1 .. n : r[i] = u(i)
  BY <1>1, <1>3
<1> QED BY <1>1, <1>2, <1>4

LEMMA WriteWork ==
  ASSUME WorkspaceInv, NEW s \in tasks, Workspace!Write(s)
  PROVE  WorkspaceInv'
<1> DEFINE sure == [t \in Tabs |-> t.sure \/ (t.text = s.text /\ ~Workspace!OtherSave(s))]
<1>1. /\ phase # "off" /\ s.at = "writing"
      /\ disk' = [disk EXCEPT ![s.path] = s.text]
      /\ Workspace!Drop(s) /\ Workspace!Send(s, s.text, TRUE)
      /\ UNCHANGED <<active, dialog, actions>>
      /\ UNCHANGED <<phase, leaving, known, tmp, file, faults, unsaved, left>>
  BY DEF Workspace!Write, Workspace!store, Workspace!world
<1>2. /\ tabs \in Seq(Tabs) /\ StoreType /\ JobType /\ AllAccounted(tabs, tasks, inbox)
  BY <1>1, WindowFacts
<1>3. s \in Jobs /\ s.path # Workspace!NoPath /\ s.path \in Paths /\ s.text \in Texts
  BY <1>1, <1>2 DEF JobType, Jobs
<1>4. StoreType' /\ disk' \in [Paths -> Contents]
  <2>1. disk' \in [Paths -> Contents]
    BY <1>1, <1>2, <1>3 DEF JobType, Contents
  <2> QED BY <1>1, <1>2, <2>1, StoreStays
<1>5. /\ tasks' = tasks \ {s} /\ JobType'
      /\ Cardinality(tasks') + Len(inbox') <= Cardinality(tasks) + Len(inbox)
      /\ Cardinality(tasks') \in Nat /\ Len(inbox') \in Nat
      /\ \E m \in Replies : m.tab = s.tab /\ m.ok = TRUE /\ inbox' = Append(inbox, m)
  BY <1>1, <1>3, <1>4, AnswerSent
<1>6. sure \in [Tabs -> BOOLEAN]
  <2>1. \A t \in Tabs : t.sure \in BOOLEAN
    BY DEF Tabs
  <2> QED BY <2>1
<1>7. tabs' = WrittenTabs(tabs, s.tab, s.text, sure)
  <2>1. tabs' = [i \in 1 .. Len(tabs) |->
                   IF tabs[i].id = s.tab
                   THEN [tabs[i] EXCEPT !.onDisk = s.text,
                           !.sure = tabs[i].sure \/ (tabs[i].text = s.text /\ ~Workspace!OtherSave(s))]
                   ELSE tabs[i]]
    BY DEF Workspace!Write, Workspace!OnDisk
  <2>2. \A i \in 1 .. Len(tabs) :
          sure[tabs[i]] = (tabs[i].sure \/ (tabs[i].text = s.text /\ ~Workspace!OtherSave(s)))
    <3>1. \A i \in 1 .. Len(tabs) : tabs[i] \in Tabs
      BY <1>2
    <3> QED BY <3>1
  <2> HIDE DEF sure
  <2> QED BY <2>1, <2>2 DEF WrittenTabs
<1>8. \A t \in Tabs : sure[t] => t.sure \/ (t.text = s.text /\ ~Workspace!OtherSave(s))
  OBVIOUS
<1> HIDE DEF sure
<1>9. s.text \in Contents
  BY <1>3 DEF Contents
<1>10. /\ tabs' \in Seq(Tabs) /\ Len(tabs') = Len(tabs)
       /\ \A i \in 1 .. Len(tabs) :
            /\ tabs[i].id # s.tab => tabs'[i] = tabs[i]
            /\ tabs'[i].id = tabs[i].id
            /\ tabs[i].id = s.tab =>
                 /\ tabs'[i].onDisk = s.text /\ tabs'[i].sure = sure[tabs[i]]
                 /\ tabs'[i].text = tabs[i].text /\ tabs'[i].saved = tabs[i].saved
  BY <1>2, <1>6, <1>7, <1>9, OnDiskKeeps
<1>11. ASSUME NEW i \in 1 .. Len(tabs) PROVE Accounted(tabs'[i], tasks', inbox')
  <2>1. tabs[i] \in Tabs /\ Accounted(tabs[i], tasks, inbox) /\ inbox \in Seq(Replies)
    BY <1>2 DEF AllAccounted, JobType
  <2> PICK m \in Replies : m.tab = s.tab /\ m.ok = TRUE /\ inbox' = Append(inbox, m)
    BY <1>5
  <2>2. CASE tabs[i].id # s.tab
    <3>1. tabs'[i] = tabs[i]
      BY <1>10, <2>2
    <3>2. Accounted(tabs[i], tasks \ {s}, Append(inbox, m))
      BY <2>1, <2>2, AnsweredOther
    <3> QED BY <1>5, <3>1, <3>2
  <2>3. CASE tabs[i].id = s.tab
    <3> DEFINE t == tabs[i]
               u == tabs'[i]
    <3> HIDE DEF t, u
    <3>1. /\ u.id = t.id /\ t.id = s.tab /\ u.onDisk = s.text /\ u.text = t.text
          /\ u.sure = sure[t] /\ Accounted(t, tasks, inbox) /\ t \in Tabs
      BY <1>10, <2>1, <2>3 DEF t, u
    <3> SUFFICES ASSUME u.sure PROVE Accounted(u, tasks', inbox')
      BY DEF Accounted, u
    <3>2. /\ s.text = t.text
          /\ \A o \in tasks \ {s} : o.tab # t.id
          /\ \A k \in 1 .. Len(inbox) : inbox[k].tab # t.id
      <4>1. CASE t.sure
        BY <3>1, <4>1, OwnSave
      <4>2. CASE ~t.sure
        <5>1. t.text = s.text /\ ~Workspace!OtherSave(s)
          BY <1>8, <3>1, <4>2
        <5> QED BY <3>1, <5>1 DEF Workspace!OtherSave
      <4> QED BY <4>1, <4>2
    <3>3. Accounted(u, tasks \ {s}, Append(inbox, m))
      BY <2>1, <3>1, <3>2, AnsweredOwn
    <3> QED BY <1>5, <3>3
  <2> QED BY <2>2, <2>3
<1> QED BY <1>1, <1>4, <1>5, <1>10, <1>11, TaskWork

LEMMA FailWriteWork ==
  ASSUME WorkspaceInv, NEW s \in tasks, Workspace!FailWrite(s)
  PROVE  WorkspaceInv'
<1> DEFINE sure == [t \in Tabs |-> FALSE]
<1>1. /\ phase # "off" /\ faults < MaxFaults /\ faults' = faults + 1
      /\ s.path # Workspace!NoPath
      /\ Workspace!Drop(s) /\ Workspace!Send(s, s.text, FALSE)
      /\ UNCHANGED <<active, dialog, actions, disk>>
      /\ UNCHANGED <<phase, leaving, known, tmp, file, unsaved, left>>
  BY DEF Workspace!FailWrite, Workspace!Fault, Workspace!store
<1>2. /\ tabs \in Seq(Tabs) /\ StoreType /\ JobType /\ AllAccounted(tabs, tasks, inbox)
  BY <1>1, WindowFacts
<1>3. s \in Jobs /\ s.path \in Paths /\ s.text \in Texts
  BY <1>1, <1>2 DEF JobType, Jobs
<1>4. StoreType' /\ disk' \in [Paths -> Contents]
  <2>1. faults' \in 0 .. MaxFaults
    BY <1>1, <1>2, WorkspaceAssumption DEF StoreType
  <2> QED BY <1>1, <1>2, <2>1 DEF StoreType, JobType
<1>5. /\ tasks' = tasks \ {s} /\ JobType'
      /\ Cardinality(tasks') + Len(inbox') <= Cardinality(tasks) + Len(inbox)
      /\ Cardinality(tasks') \in Nat /\ Len(inbox') \in Nat
      /\ \E m \in Replies : m.tab = s.tab /\ m.ok = FALSE /\ inbox' = Append(inbox, m)
  BY <1>1, <1>3, <1>4, AnswerSent
<1>6. /\ tabs' \in Seq(Tabs) /\ Len(tabs') = Len(tabs)
      /\ \A i \in 1 .. Len(tabs) :
           /\ tabs'[i].id = tabs[i].id
           /\ tabs'[i] = tabs[i] \/ (tabs[i].id = s.tab /\ ~tabs'[i].sure)
  <2>1. CASE s.at = "writing"
    <3>1. tabs' = [i \in 1 .. Len(tabs) |->
                     IF tabs[i].id = s.tab
                     THEN [tabs[i] EXCEPT !.onDisk = Workspace!Torn, !.sure = FALSE]
                     ELSE tabs[i]]
      BY <2>1 DEF Workspace!FailWrite, Workspace!OnDisk
    <3>2. \A i \in 1 .. Len(tabs) : sure[tabs[i]] = FALSE
      BY <1>2
    <3>3. sure \in [Tabs -> BOOLEAN] /\ Workspace!Torn \in Contents
      BY DEF Contents
    <3> HIDE DEF sure
    <3>4. tabs' = WrittenTabs(tabs, s.tab, Workspace!Torn, sure)
      BY <3>1, <3>2 DEF WrittenTabs
    <3>5. /\ tabs' \in Seq(Tabs) /\ Len(tabs') = Len(tabs)
          /\ \A i \in 1 .. Len(tabs) :
               /\ tabs[i].id # s.tab => tabs'[i] = tabs[i]
               /\ tabs'[i].id = tabs[i].id
               /\ tabs[i].id = s.tab =>
                    /\ tabs'[i].onDisk = Workspace!Torn /\ tabs'[i].sure = sure[tabs[i]]
                    /\ tabs'[i].text = tabs[i].text /\ tabs'[i].saved = tabs[i].saved
      BY <1>2, <3>3, <3>4, OnDiskKeeps
    <3> QED BY <3>2, <3>5
  <2>2. CASE s.at # "writing"
    <3>1. tabs' = tabs
      BY <2>2 DEF Workspace!FailWrite
    <3> QED BY <1>2, <3>1
  <2> QED BY <2>1, <2>2
<1>7. ASSUME NEW i \in 1 .. Len(tabs) PROVE Accounted(tabs'[i], tasks', inbox')
  <2> SUFFICES ASSUME tabs'[i].sure PROVE Accounted(tabs'[i], tasks', inbox')
    BY DEF Accounted
  <2>0. tabs'[i] = tabs[i]
    BY <1>6
  <2>1. tabs[i] \in Tabs /\ Accounted(tabs[i], tasks, inbox) /\ inbox \in Seq(Replies) /\ tabs[i].sure
    BY <1>2, <2>0 DEF AllAccounted, JobType
  <2> PICK m \in Replies : m.tab = s.tab /\ m.ok = FALSE /\ inbox' = Append(inbox, m)
    BY <1>5
  <2>2. CASE tabs[i].id # s.tab
    <3>1. Accounted(tabs[i], tasks \ {s}, Append(inbox, m))
      BY <2>1, <2>2, AnsweredOther
    <3> QED BY <1>5, <2>0, <3>1
  <2>3. CASE tabs[i].id = s.tab
    <3>1. /\ tabs[i].saved = tabs[i].onDisk
          /\ \A o \in tasks \ {s} : o.tab # tabs[i].id
          /\ \A k \in 1 .. Len(inbox) : inbox[k].tab # tabs[i].id
      BY <2>1, <2>3, OwnSave
    <3>2. Accounted(tabs[i], tasks \ {s}, Append(inbox, m))
      BY <2>1, <2>3, <3>1, AnsweredOwn
    <3> QED BY <1>5, <2>0, <3>2
  <2> QED BY <2>2, <2>3
<1> QED BY <1>1, <1>4, <1>5, <1>6, <1>7, TaskWork

-----------------------------------------------------------------------------
\* An answer is taken: one for another tab ...
LEMMA TakenOther ==
  ASSUME NEW t, NEW jobs, NEW answers \in Seq(Replies), answers # <<>>,
         Accounted(t, jobs, answers), answers[1].tab # t.id
  PROVE  Accounted(t, jobs, Tail(answers))
<1> SUFFICES ASSUME t.sure PROVE Accounted(t, jobs, Tail(answers))
  BY DEF Accounted
<1> PICK n \in Nat : n = Len(answers)
  OBVIOUS
<1>a. Tail(answers) \in Seq(Replies)
  OBVIOUS
<1> PICK q \in Seq(Replies) : q = Tail(answers)
  BY <1>a
<1>1. Len(q) = n - 1 /\ n # 0 /\ \A k \in 1 .. n - 1 : q[k] = answers[k + 1] /\ k + 1 \in 1 .. n
  OBVIOUS
<1>2. \A k \in 1 .. Len(q) : q[k].tab = t.id => k + 1 \in 1 .. n /\ answers[k + 1].tab = t.id
  BY <1>1
<1>3. \A k \in 1 .. n : answers[k].tab = t.id => k - 1 \in 1 .. n - 1 /\ q[k - 1] = answers[k]
  <2> SUFFICES ASSUME NEW k \in 1 .. n, answers[k].tab = t.id
               PROVE  k - 1 \in 1 .. n - 1 /\ q[k - 1] = answers[k]
    OBVIOUS
  <2>1. k - 1 \in 1 .. n - 1 /\ (k - 1) + 1 = k
    OBVIOUS
  <2>2. q[k - 1] = answers[(k - 1) + 1]
    BY <1>1, <2>1
  <2> QED BY <2>1, <2>2
<1>4. CASE ~Flying(t.id, jobs, answers) /\ t.saved = t.onDisk
  <2>1. ~Flying(t.id, jobs, q)
    BY <1>2, <1>4 DEF Flying
  <2> QED BY <1>4, <2>1 DEF Accounted
<1>5. CASE /\ t.saved = t.onDisk
           /\ \A k \in 1 .. Len(answers) : answers[k].tab # t.id
           /\ \E x \in jobs : /\ x.tab = t.id /\ x.text = t.text
                              /\ \A o \in jobs : o.tab = t.id => o = x
  <2>1. \A k \in 1 .. Len(q) : q[k].tab # t.id
    BY <1>2, <1>5
  <2> QED BY <1>5, <2>1 DEF Accounted
<1>6. CASE /\ \A x \in jobs : x.tab # t.id
           /\ \E k \in 1 .. Len(answers) :
                /\ answers[k].tab = t.id
                /\ \A l \in 1 .. Len(answers) : answers[l].tab = t.id => l = k
                /\ IF answers[k].ok THEN t.onDisk = t.text ELSE t.saved = t.onDisk
  <2>1. PICK k \in 1 .. n :
                /\ answers[k].tab = t.id
                /\ \A l \in 1 .. n : answers[l].tab = t.id => l = k
                /\ IF answers[k].ok THEN t.onDisk = t.text ELSE t.saved = t.onDisk
    BY <1>6
  <2>2. k - 1 \in 1 .. Len(q) /\ q[k - 1] = answers[k]
    BY <1>1, <1>3, <2>1
  <2>3. ASSUME NEW l \in 1 .. Len(q), q[l].tab = t.id PROVE l = k - 1
    <3>1. l + 1 = k
      BY <1>2, <2>1, <2>3
    <3> QED BY <1>1, <3>1
  <2> QED BY <1>6, <2>1, <2>2, <2>3 DEF Accounted
<1> QED BY <1>4, <1>5, <1>6 DEF Accounted

\* ... or for its own, the only one.
LEMMA TakenOwn ==
  ASSUME NEW t, NEW jobs, NEW answers \in Seq(Replies), answers # <<>>,
         Accounted(t, jobs, answers), answers[1].tab = t.id, t.sure
  PROVE  /\ ~Flying(t.id, jobs, Tail(answers))
         /\ IF answers[1].ok THEN t.onDisk = t.text ELSE t.saved = t.onDisk
<1> PICK n \in Nat : n = Len(answers)
  OBVIOUS
<1>a. Tail(answers) \in Seq(Replies)
  OBVIOUS
<1> PICK q \in Seq(Replies) : q = Tail(answers)
  BY <1>a
<1>1. Len(q) = n - 1 /\ n # 0 /\ \A k \in 1 .. n - 1 : q[k] = answers[k + 1] /\ k + 1 \in 1 .. n
  OBVIOUS
<1>2. 1 \in 1 .. n /\ Flying(t.id, jobs, answers) /\ ~(\A k \in 1 .. n : answers[k].tab # t.id)
  BY <1>1 DEF Flying
<1>3. /\ \A x \in jobs : x.tab # t.id
      /\ \E k \in 1 .. n :
           /\ answers[k].tab = t.id
           /\ \A l \in 1 .. n : answers[l].tab = t.id => l = k
           /\ IF answers[k].ok THEN t.onDisk = t.text ELSE t.saved = t.onDisk
  BY <1>2 DEF Accounted
<1>4. /\ \A l \in 1 .. n : answers[l].tab = t.id => l = 1
      /\ IF answers[1].ok THEN t.onDisk = t.text ELSE t.saved = t.onDisk
  BY <1>2, <1>3
<1>5. \A k \in 1 .. Len(q) : q[k].tab # t.id
  <2> SUFFICES ASSUME NEW k \in 1 .. n - 1, q[k].tab = t.id PROVE FALSE
    BY <1>1
  <2>1. k + 1 \in 1 .. n /\ answers[k + 1].tab = t.id
    BY <1>1
  <2>2. k + 1 = 1
    BY <1>4, <2>1
  <2> QED BY <2>2
<1> QED BY <1>3, <1>4, <1>5 DEF Flying

LEMMA AnswerTaken ==
  ASSUME WorkspaceInv, phase # "off", inbox # <<>>, inbox' = Tail(inbox), UNCHANGED <<disk, tasks>>
  PROVE  /\ JobType' /\ inbox \in Seq(Replies) /\ Head(inbox) = inbox[1] /\ inbox[1] \in Replies
         /\ Len(inbox') \in Nat /\ Len(inbox') <= Len(inbox)
         /\ inbox[1].kind = "open" => inbox[1].tab = 0
         /\ \A id : Flying(id, tasks, inbox') => Flying(id, tasks, inbox)
         /\ \A id : Flying(id, tasks, inbox) <=> Workspace!InFlight(id)
<1>1. JobType /\ inbox \in Seq(Replies)
  BY DEF WorkspaceInv, JobType
<1> PICK n \in Nat : n = Len(inbox)
  BY <1>1
<1>2. n # 0 /\ 1 \in 1 .. n /\ inbox[1] \in Replies /\ Head(inbox) = inbox[1]
  BY <1>1
<1>3. /\ inbox' \in Seq(Replies) /\ Len(inbox') = n - 1
      /\ \A k \in 1 .. n - 1 : inbox'[k] = inbox[k + 1] /\ k + 1 \in 1 .. n
  BY <1>1, <1>2
<1>4. JobType'
  <2>1. \A k \in 1 .. n : inbox[k].kind = "open" => inbox[k].tab = 0
    BY <1>1 DEF JobType
  <2>2. \A k \in 1 .. Len(inbox') : inbox'[k].kind = "open" => inbox'[k].tab = 0
    BY <1>3, <2>1
  <2> QED BY <1>1, <1>3, <2>2 DEF JobType
<1>5. inbox[1].kind = "open" => inbox[1].tab = 0
  BY <1>1, <1>2 DEF JobType
<1>6. \A id : Flying(id, tasks, inbox') => Flying(id, tasks, inbox)
  BY <1>3 DEF Flying
<1>7. \A id : Flying(id, tasks, inbox) <=> Workspace!InFlight(id)
  BY DEF Flying, Workspace!InFlight
<1> QED BY <1>1, <1>2, <1>3, <1>4, <1>5, <1>6, <1>7

\* What taking an answer has to leave.
LEMMA HandleWork ==
  ASSUME WorkspaceInv, phase = "running", inbox # <<>>, inbox' = Tail(inbox),
         UNCHANGED <<disk, tasks, dialog, actions>>,
         UNCHANGED <<phase, leaving, known, tmp, file, faults, unsaved, left>>,
         tabs' \in Seq(Tabs), Len(tabs') <= MaxTabs, active' \in 1 .. Len(tabs'),
         Distinct(tabs'), AllAccounted(tabs', tasks, inbox')
  PROVE  WorkspaceInv'
<1>1. StoreType /\ Budget /\ dialog \in Dialogs
  BY WindowFacts
<1>2. StoreType'
  BY <1>1, StoreStays
<1>3. JobType' /\ Len(inbox') \in Nat /\ Len(inbox') <= Len(inbox)
  BY AnswerTaken
<1>4. Budget'
  BY <1>1, <1>3, Counts DEF Budget
<1> QED BY <1>1, <1>2, <1>3, <1>4, Running

\* The tabs with one of them changed.
LEMMA OneTab ==
  ASSUME NEW s \in Seq(Tabs), NEW i \in 1 .. Len(s), NEW u \in Tabs, u.id = s[i].id,
         NEW jobs, NEW answers, Distinct(s), Accounted(u, jobs, answers),
         \A j \in 1 .. Len(s) : j # i => Accounted(s[j], jobs, answers)
  PROVE  /\ [s EXCEPT ![i] = u] \in Seq(Tabs) /\ Len([s EXCEPT ![i] = u]) = Len(s)
         /\ \A j \in 1 .. Len(s) :
              /\ [s EXCEPT ![i] = u][j].id = s[j].id
              /\ [s EXCEPT ![i] = u][j] = IF j = i THEN u ELSE s[j]
         /\ Distinct([s EXCEPT ![i] = u]) /\ AllAccounted([s EXCEPT ![i] = u], jobs, answers)
<1> DEFINE r == [s EXCEPT ![i] = u]
<1>1. /\ r \in Seq(Tabs) /\ Len(r) = Len(s)
      /\ \A j \in 1 .. Len(s) : r[j] = IF j = i THEN u ELSE s[j]
  OBVIOUS
<1> HIDE DEF r
<1>2. \A j \in 1 .. Len(s) : r[j].id = s[j].id
  BY <1>1
<1>3. Distinct(r)
  BY <1>1, <1>2 DEF Distinct
<1>4. AllAccounted(r, jobs, answers)
  BY <1>1 DEF AllAccounted
<1> QED BY <1>1, <1>2, <1>3, <1>4 DEF r

LEMMA FileSavedWork ==
  ASSUME WorkspaceInv, phase = "running", inbox # <<>>, inbox' = Tail(inbox),
         UNCHANGED <<disk, tasks, dialog, actions>>,
         UNCHANGED <<phase, leaving, known, tmp, file, faults, unsaved, left>>,
         Workspace!FileSaved(inbox[1])
  PROVE  WorkspaceInv'
<1> DEFINE m == inbox[1]
<1>1. /\ tabs \in Seq(Tabs) /\ Len(tabs) <= MaxTabs /\ active \in 1 .. Len(tabs) /\ WindowType
      /\ JobType /\ Budget /\ Distinct(tabs) /\ AllAccounted(tabs, tasks, inbox)
  BY WindowFacts
<1>2. /\ JobType' /\ inbox \in Seq(Replies) /\ m \in Replies
      /\ \A id : Flying(id, tasks, inbox') => Workspace!InFlight(id) \/ id = 0
  BY AnswerTaken
<1>3. ASSUME NEW j \in 1 .. Len(tabs), tabs[j].id # m.tab
      PROVE  Accounted(tabs[j], tasks, inbox')
  <2>1. Accounted(tabs[j], tasks, inbox)
    BY <1>1 DEF AllAccounted
  <2> QED BY <1>2, <1>3, <2>1, TakenOther
<1>4. CASE ~Workspace!Has(tabs, m.tab)
  <2>1. UNCHANGED <<tabs, active>>
    BY <1>4 DEF Workspace!FileSaved
  <2>2. \A j \in 1 .. Len(tabs) : tabs[j].id # m.tab
    BY <1>4 DEF Workspace!Has
  <2>3. AllAccounted(tabs, tasks, inbox')
    BY <1>3, <2>2 DEF AllAccounted
  <2>4. /\ tabs' \in Seq(Tabs) /\ Len(tabs') <= MaxTabs /\ active' \in 1 .. Len(tabs')
        /\ Distinct(tabs') /\ AllAccounted(tabs', tasks, inbox')
    BY <1>1, <2>1, <2>3
  <2> QED BY <2>4, HandleWork
<1>5. CASE Workspace!Has(tabs, m.tab)
  <2> DEFINE i == Workspace!IndexOf(tabs, m.tab)
             t == tabs[i]
             u == Workspace!MarkedSaved(t, m)
             marked == [tabs EXCEPT ![i] = u]
  <2>1. i \in 1 .. Len(tabs) /\ tabs[i].id = m.tab
    BY <1>5, IndexFound
  <2>2. \/ /\ tabs' = Workspace!ClosedTab(marked, i)
           /\ active' = IF active > Len(tabs') THEN Len(tabs') ELSE active
        \/ tabs' = marked /\ active' = active
    BY <1>1, <1>5, <2>1 DEF Workspace!FileSaved
  <2> HIDE DEF i
  <2>3. t \in Tabs /\ t.id = m.tab /\ Accounted(t, tasks, inbox)
    BY <1>1, <2>1 DEF AllAccounted
  <2>4. /\ u \in Tabs /\ u.id = t.id /\ u.sure = t.sure /\ u.text = t.text /\ u.onDisk = t.onDisk
        /\ u.saved = IF m.ok THEN t.text ELSE t.saved
    BY <1>2, <2>3 DEF Tabs, Replies, Workspace!MarkedSaved
  <2> HIDE DEF t, u, m
  <2>5. Accounted(u, tasks, inbox')
    <3> SUFFICES ASSUME u.sure PROVE ~Flying(u.id, tasks, inbox') /\ u.saved = u.onDisk
      BY DEF Accounted
    <3>1. /\ ~Flying(t.id, tasks, Tail(inbox))
          /\ IF m.ok THEN t.onDisk = t.text ELSE t.saved = t.onDisk
      BY <1>2, <2>3, <2>4, TakenOwn DEF m
    <3> QED BY <2>4, <3>1
  <2>6. \A j \in 1 .. Len(tabs) : j # i => Accounted(tabs[j], tasks, inbox')
    <3>1. \A j \in 1 .. Len(tabs) : j # i => tabs[j].id # m.tab
      BY <1>1, <2>1 DEF Distinct
    <3> QED BY <1>3, <3>1
  <2>7. u.id = tabs[i].id
    BY <2>1, <2>3, <2>4
  <2>8. /\ marked \in Seq(Tabs) /\ Len(marked) = Len(tabs)
        /\ Distinct(marked) /\ AllAccounted(marked, tasks, inbox')
    BY <1>1, <2>1, <2>4, <2>5, <2>6, <2>7, OneTab
  <2> HIDE DEF marked
  <2>9. CASE tabs' = marked /\ active' = active
    <3>1. /\ tabs' \in Seq(Tabs) /\ Len(tabs') <= MaxTabs /\ active' \in 1 .. Len(tabs')
          /\ Distinct(tabs') /\ AllAccounted(tabs', tasks, inbox')
      BY <1>1, <2>8, <2>9
    <3> QED BY <3>1, HandleWork
  <2>10. CASE /\ tabs' = Workspace!ClosedTab(marked, i)
              /\ active' = IF active > Len(tabs') THEN Len(tabs') ELSE active
    <3>1. /\ tabs' \in Seq(Tabs) /\ Len(tabs') \in 1 .. MaxTabs
          /\ Distinct(tabs') /\ AllAccounted(tabs', tasks, inbox')
      <4>1. Len(marked) <= MaxTabs /\ i \in 1 .. Len(marked)
        BY <1>1, <2>1, <2>8
      <4> QED BY <1>1, <1>2, <2>8, <2>10, <4>1, ClosedKeeps
    <3>2. active' \in 1 .. Len(tabs') /\ Len(tabs') <= MaxTabs
      BY <1>1, <2>10, <3>1, WorkspaceAssumption
    <3> QED BY <3>1, <3>2, HandleWork
  <2> QED BY <2>2, <2>9, <2>10
<1> QED BY <1>4, <1>5

LEMMA FileOpenedWork ==
  ASSUME WorkspaceInv, phase = "running", inbox # <<>>, inbox' = Tail(inbox),
         UNCHANGED <<disk, tasks, dialog, actions>>,
         UNCHANGED <<phase, leaving, known, tmp, file, faults, unsaved, left>>,
         inbox[1].kind = "open", Workspace!FileOpened(inbox[1])
  PROVE  WorkspaceInv'
<1> DEFINE m == inbox[1]
           With(t) == [t EXCEPT !.path = m.path, !.text = m.text, !.saved = m.text,
                                !.onDisk = m.text, !.sure = ~Workspace!InFlight(t.id)]
<1>1. /\ tabs \in Seq(Tabs) /\ Len(tabs) <= MaxTabs /\ active \in 1 .. Len(tabs) /\ WindowType
      /\ JobType /\ Budget /\ Distinct(tabs) /\ AllAccounted(tabs, tasks, inbox)
  BY WindowFacts
<1>2. /\ JobType' /\ inbox \in Seq(Replies) /\ m \in Replies /\ m.tab = 0
      /\ \A id : Flying(id, tasks, inbox') => Workspace!InFlight(id)
  BY AnswerTaken
<1>3. ASSUME NEW j \in 1 .. Len(tabs) PROVE Accounted(tabs[j], tasks, inbox')
  <2>1. tabs[j] \in Tabs /\ Accounted(tabs[j], tasks, inbox)
    BY <1>1 DEF AllAccounted
  <2>2. tabs[j].id # m.tab
    BY <1>2, <2>1, Counts DEF Tabs
  <2> QED BY <1>2, <2>1, <2>2, TakenOther
<1>4. ASSUME NEW t \in Tabs
      PROVE  With(t) \in Tabs /\ With(t).id = t.id /\ Accounted(With(t), tasks, inbox')
  <2> DEFINE u == With(t)
  <2>1. (~Workspace!InFlight(t.id)) \in BOOLEAN
    OBVIOUS
  <2>2. m.text \in Texts /\ m.text \in Contents /\ m.path \in Paths
    BY <1>2 DEF Replies, Contents
  <2>3. /\ u \in Tabs /\ u.id = t.id /\ u.saved = u.onDisk
        /\ (u.sure <=> ~Workspace!InFlight(t.id))
    BY <2>1, <2>2 DEF Tabs
  <2> HIDE DEF u
  <2>4. Accounted(u, tasks, inbox')
    BY <1>2, <2>3 DEF Accounted
  <2> QED BY <2>3, <2>4 DEF u
<1>5. \/ tabs' = [tabs EXCEPT ![active] = With(tabs[active])] /\ active' = active
      \/ /\ Len(tabs) < MaxTabs
         /\ tabs' = Append(tabs, With(Workspace!NewTab(Workspace!UnusedId)))
         /\ active' = Len(tabs')
  BY <1>1 DEF Workspace!FileOpened
<1> HIDE DEF With
<1>6. CASE tabs' = [tabs EXCEPT ![active] = With(tabs[active])] /\ active' = active
  <2> DEFINE u == With(tabs[active])
  <2>1. tabs[active] \in Tabs
    BY <1>1
  <2>2. u \in Tabs /\ u.id = tabs[active].id /\ Accounted(u, tasks, inbox')
    BY <1>4, <2>1
  <2> HIDE DEF u
  <2>3. /\ [tabs EXCEPT ![active] = u] \in Seq(Tabs) /\ Len([tabs EXCEPT ![active] = u]) = Len(tabs)
        /\ Distinct([tabs EXCEPT ![active] = u])
        /\ AllAccounted([tabs EXCEPT ![active] = u], tasks, inbox')
    BY <1>1, <1>3, <2>2, OneTab
  <2>4. tabs' = [tabs EXCEPT ![active] = u]
    BY <1>6 DEF u
  <2>5. /\ tabs' \in Seq(Tabs) /\ Len(tabs') <= MaxTabs /\ active' \in 1 .. Len(tabs')
        /\ Distinct(tabs') /\ AllAccounted(tabs', tasks, inbox')
    BY <1>1, <1>6, <2>3, <2>4
  <2> QED BY <2>5, HandleWork
<1>7. CASE /\ Len(tabs) < MaxTabs
           /\ tabs' = Append(tabs, With(Workspace!NewTab(Workspace!UnusedId)))
           /\ active' = Len(tabs')
  <2> DEFINE u == With(Workspace!NewTab(Workspace!UnusedId))
  <2>1. /\ Workspace!NewTab(Workspace!UnusedId) \in Tabs
        /\ Workspace!NewTab(Workspace!UnusedId).id = Workspace!UnusedId
    <3>1. \A id : Flying(id, tasks, inbox') => Workspace!InFlight(id) \/ id = 0
      BY <1>2
    <3> QED BY <1>1, <3>1, FreshTab
  <2>2. u \in Tabs /\ u.id = Workspace!UnusedId /\ Accounted(u, tasks, inbox')
    BY <1>4, <2>1
  <2>3. \A i \in 1 .. Len(tabs) : tabs[i].id # u.id
    BY <1>1, <2>2, UnusedIsFresh
  <2> HIDE DEF u
  <2>4. tabs' = Append(tabs, u)
    BY <1>7 DEF u
  <2>5. /\ tabs' \in Seq(Tabs) /\ Len(tabs') = Len(tabs) + 1 /\ tabs'[Len(tabs) + 1] = u
        /\ \A i \in 1 .. Len(tabs) : tabs'[i] = tabs[i]
    BY <1>1, <2>2, <2>4
  <2>6. \A i \in 1 .. Len(tabs') : i \in 1 .. Len(tabs) \/ i = Len(tabs) + 1
    <3>1. Len(tabs) \in Nat
      BY <1>1
    <3>2. Len(tabs') = Len(tabs) + 1
      BY <2>5
    <3> QED BY <3>1, <3>2
  <2>7. Distinct(tabs') /\ AllAccounted(tabs', tasks, inbox')
    BY <1>1, <1>3, <2>2, <2>3, <2>5, <2>6 DEF Distinct, AllAccounted
  <2>8. active' \in 1 .. Len(tabs') /\ Len(tabs') <= MaxTabs
    BY <1>1, <1>7, <2>5, WorkspaceAssumption
  <2> QED BY <2>5, <2>7, <2>8, HandleWork
<1> QED BY <1>5, <1>6, <1>7

LEMMA TakeWork == ASSUME WorkspaceInv, Workspace!Handle PROVE WorkspaceInv'
<1>1. /\ phase = "running" /\ inbox # <<>> /\ inbox' = Tail(inbox)
      /\ UNCHANGED <<disk, tasks, dialog, actions>>
      /\ UNCHANGED <<phase, leaving, known, tmp, file, faults, unsaved, left>>
      /\ IF Head(inbox).kind = "save"
         THEN Workspace!FileSaved(Head(inbox)) ELSE Workspace!FileOpened(Head(inbox))
  BY DEF Workspace!Handle, Workspace!store, Workspace!world
<1>2. Head(inbox) = inbox[1] /\ inbox[1] \in Replies
  BY <1>1, AnswerTaken
<1>3. CASE inbox[1].kind = "save"
  BY <1>1, <1>2, <1>3, FileSavedWork
<1>4. CASE inbox[1].kind # "save"
  <2>1. inbox[1].kind = "open"
    BY <1>2, <1>4 DEF Replies
  <2> QED BY <1>1, <1>2, <1>4, <2>1, FileOpenedWork
<1> QED BY <1>3, <1>4

-----------------------------------------------------------------------------
\* The places where something holds, in order: each of them once.
Places(order, n, picked) ==
  /\ order \in Seq(1 .. n)
  /\ \A j \in 1 .. Len(order) : picked[order[j]]
  /\ \A i, j \in 1 .. Len(order) : i < j => order[i] < order[j]
  /\ \A i \in 1 .. n : picked[i] => \E j \in 1 .. Len(order) : order[j] = i

LEMMA PlacesPicked ==
  ASSUME NEW n \in Nat, NEW picked \in [1 .. n -> BOOLEAN]
  PROVE  Places(Workspace!PlacesOf(picked), n, picked)
<1> DEFINE s == [i \in 1 .. n |-> IF picked[i] THEN i ELSE 0]
           r == Workspace!PlacesOf(picked)
<1>1. s \in Seq(Nat) /\ Len(s) = n /\ \A i \in 1 .. n : s[i] = IF picked[i] THEN i ELSE 0
  OBVIOUS
<1>2. r = History!Readable(s)
  <2> DEFINE parts == [i \in DOMAIN picked |-> IF picked[i] THEN <<i>> ELSE <<>>]
  <2>1. parts = [i \in DOMAIN s |-> IF s[i] # 0 THEN <<s[i]>> ELSE <<>>]
    OBVIOUS
  <2>2. r = FlattenSeq(parts)
    BY DEF Workspace!PlacesOf, Workspace!FlattenSeq, FlattenSeq
  <2>3. History!Readable(s) = FlattenSeq([i \in DOMAIN s |-> IF s[i] # 0 THEN <<s[i]>> ELSE <<>>])
    BY DEF History!Readable, History!FlattenSeq, FlattenSeq
  <2> HIDE DEF parts, r, s
  <2> QED BY <2>1, <2>2, <2>3
<1> HIDE DEF s, r
<1>3. /\ r \in Seq(Nat)
      /\ \E at \in [1 .. Len(r) -> 1 .. Len(s)] :
           /\ \A j \in 1 .. Len(r) : r[j] = s[at[j]] /\ s[at[j]] # 0
           /\ \A i, j \in 1 .. Len(r) : i < j => at[i] < at[j]
           /\ \A i \in 1 .. Len(s) : s[i] # 0 => \E j \in 1 .. Len(r) : at[j] = i
  <2> DEFINE P(x) ==
        /\ x \in Seq(Nat)
        /\ \E at \in [1 .. Len(x) -> 1 .. Len(s)] :
             /\ \A j \in 1 .. Len(x) : x[j] = s[at[j]] /\ s[at[j]] # 0
             /\ \A i, j \in 1 .. Len(x) : i < j => at[i] < at[j]
             /\ \A i \in 1 .. Len(s) : s[i] # 0 => \E j \in 1 .. Len(x) : at[j] = i
  <2>1. s \in Seq(Nat)
    BY <1>1
  <2>2. P(History!Readable(s))
    BY <2>1, Picks
  <2> HIDE DEF P
  <2>3. P(r)
    BY <1>2, <2>2
  <2> QED BY <2>3 DEF P
<1> PICK at \in [1 .. Len(r) -> 1 .. Len(s)] :
       /\ \A j \in 1 .. Len(r) : r[j] = s[at[j]] /\ s[at[j]] # 0
       /\ \A i, j \in 1 .. Len(r) : i < j => at[i] < at[j]
       /\ \A i \in 1 .. Len(s) : s[i] # 0 => \E j \in 1 .. Len(r) : at[j] = i
  BY <1>3
<1>4. \A j \in 1 .. Len(r) : at[j] \in 1 .. n /\ r[j] = at[j] /\ picked[r[j]]
  BY <1>1
<1>5. \A i, j \in 1 .. Len(r) : i < j => r[i] < r[j]
  BY <1>4
<1>6. ASSUME NEW i \in 1 .. n, picked[i] PROVE \E j \in 1 .. Len(r) : r[j] = i
  <2>1. s[i] # 0 /\ i \in 1 .. Len(s)
    BY <1>1, <1>6
  <2>2. PICK j \in 1 .. Len(r) : at[j] = i
    BY <2>1
  <2> QED BY <1>4, <2>2
<1>7. r \in Seq(1 .. n)
  <2>1. \A j \in 1 .. Len(r) : r[j] \in 1 .. n
    BY <1>4
  <2>2. r \in Seq(Nat)
    BY <1>3
  <2> QED BY <2>1, <2>2, Narrowed
<1>8. \A j \in 1 .. Len(r) : picked[r[j]]
  BY <1>4
<1>9. \A i \in 1 .. n : picked[i] => \E j \in 1 .. Len(r) : r[j] = i
  BY <1>6
<1>10. Places(r, n, picked)
  BY <1>5, <1>7, <1>8, <1>9 DEF Places
<1> QED BY <1>10 DEF r

LEMMA UpTo == ASSUME NEW n \in Nat PROVE IsFiniteSet(1 .. n) /\ Cardinality(1 .. n) = n
<1>1. IsFiniteSet(1 .. n) /\ Cardinality(1 .. n) = IF 1 > n THEN 0 ELSE n - 1 + 1
  BY FS_Interval
<1> QED BY <1>1

\* Numbers that go up to their count and differ are each of those once.
LEMMA AsMany ==
  ASSUME NEW n \in Nat, NEW s \in Seq(1 .. n),
         \A i, j \in 1 .. Len(s) : s[i] = s[j] => i = j,
         \A i \in 1 .. n : \E j \in 1 .. Len(s) : s[j] = i
  PROVE  Len(s) = n
<1> PICK m \in Nat : m = Len(s)
  OBVIOUS
<1>1. \A i \in 1 .. m : s[i] \in 1 .. n
  OBVIOUS
<1> DEFINE f == [k \in 1 .. m |-> s[k]]
<1>2. f \in Bijection(1 .. m, 1 .. n)
  <2>1. f \in [1 .. m -> 1 .. n] /\ \A k \in 1 .. m : f[k] = s[k]
    BY <1>1
  <2> HIDE DEF f
  <2>2. f \in Injection(1 .. m, 1 .. n)
    BY <2>1 DEF Injection, IsInjective
  <2>3. f \in Surjection(1 .. m, 1 .. n)
    BY <2>1 DEF Surjection
  <2> QED BY <2>2, <2>3 DEF Bijection
<1>3. IsFiniteSet(1 .. m) /\ Cardinality(1 .. m) = m /\ Cardinality(1 .. n) = n
  BY UpTo
<1> HIDE DEF f
<1>5. Cardinality(1 .. m) = Cardinality(1 .. n)
  BY <1>2, <1>3, FS_Bijection DEF ExistsBijection
<1> QED BY <1>3, <1>5

\* restore_workspace's order: all places once, those of pinned tabs first; the
\* order there is, when they are first already.
Order(n, picked) ==
  Workspace!PlacesOf(picked) \o Workspace!PlacesOf([i \in 1 .. n |-> ~picked[i]])

IsOrder(order, n, picked) ==
  /\ order \in Seq(1 .. n) /\ Len(order) = n
  /\ \A i, j \in 1 .. n : order[i] = order[j] => i = j
  /\ \A i \in 1 .. n : \E j \in 1 .. n : order[j] = i
  /\ \A i, j \in 1 .. n : i < j /\ picked[order[j]] => picked[order[i]]
  /\ (\A i, j \in 1 .. n : i < j /\ picked[j] => picked[i])
       => \A i \in 1 .. n : order[i] = i

LEMMA Ordered ==
  ASSUME NEW n \in Nat, NEW picked \in [1 .. n -> BOOLEAN]
  PROVE  IsOrder(Order(n, picked), n, picked)
<1> DEFINE rest == [i \in 1 .. n |-> ~picked[i]]
           p == Workspace!PlacesOf(picked)
           q == Workspace!PlacesOf(rest)
           order == Order(n, picked)
<1>1. rest \in [1 .. n -> BOOLEAN] /\ \A i \in 1 .. n : rest[i] = ~picked[i]
  OBVIOUS
<1>2. Places(p, n, picked)
  BY PlacesPicked
<1>3. Places(q, n, rest)
  <2> HIDE DEF rest
  <2> QED BY <1>1, PlacesPicked
<1>4. order = p \o q
  BY DEF Order
<1> HIDE DEF rest, p, q, order
<1>p. p \in Seq(1 .. n) /\ q \in Seq(1 .. n)
  BY <1>2, <1>3 DEF Places
<1> PICK m \in Nat : m = Len(p)
  BY <1>p
<1> PICK l \in Nat : l = Len(q)
  BY <1>p
<1>5. order \in Seq(1 .. n) /\ Len(order) = m + l
  BY <1>4, <1>p
<1>6. \A j \in 1 .. m : order[j] = p[j] /\ p[j] \in 1 .. n /\ picked[p[j]]
  BY <1>2, <1>4, <1>p DEF Places
<1>7. ASSUME NEW j \in 1 .. m + l, ~(j \in 1 .. m)
      PROVE  j - m \in 1 .. l /\ order[j] = q[j - m] /\ q[j - m] \in 1 .. n /\ ~picked[q[j - m]]
  <2>1. j - m \in 1 .. l
    BY <1>7
  <2>2. order[j] = q[j - m] /\ q[j - m] \in 1 .. n
    BY <1>4, <1>p, <1>7, <2>1
  <2>3. rest[q[j - m]]
    BY <1>3, <2>1 DEF Places
  <2> QED BY <1>1, <2>1, <2>2, <2>3
<1>8. \A i, j \in 1 .. m : i < j => p[i] < p[j]
  BY <1>2 DEF Places
<1>9. \A i, j \in 1 .. l : i < j => q[i] < q[j]
  BY <1>3 DEF Places
<1>10. ASSUME NEW i \in 1 .. m + l, NEW j \in 1 .. m + l, i < j
       PROVE  /\ picked[order[j]] => picked[order[i]]
              /\ order[i] < order[j] \/ (picked[order[i]] /\ ~picked[order[j]])
              /\ order[i] # order[j]
  <2>1. CASE j \in 1 .. m
    <3>1. i \in 1 .. m
      BY <1>10, <2>1
    <3> QED BY <1>6, <1>8, <1>10, <2>1, <3>1
  <2>2. CASE ~(j \in 1 .. m) /\ i \in 1 .. m
    <3>1. picked[order[i]]
      BY <1>6, <2>2
    <3>2. ~picked[order[j]]
      BY <1>7, <2>2
    <3> QED BY <3>1, <3>2
  <2>3. CASE ~(j \in 1 .. m) /\ ~(i \in 1 .. m)
    <3>1. i - m \in 1 .. l /\ order[i] = q[i - m] /\ order[i] \in 1 .. n
      BY <1>7, <2>3
    <3>2. j - m \in 1 .. l /\ order[j] = q[j - m] /\ order[j] \in 1 .. n /\ ~picked[order[j]]
      BY <1>7, <2>3
    <3>3. i - m < j - m
      BY <1>10
    <3> QED BY <1>9, <3>1, <3>2, <3>3
  <2> QED BY <2>1, <2>2, <2>3
<1>11. ASSUME NEW i \in 1 .. m + l, NEW j \in 1 .. m + l, order[i] = order[j] PROVE i = j
  <2>1. i < j \/ j < i \/ i = j
    OBVIOUS
  <2> QED BY <1>10, <1>11, <2>1
<1>12. ASSUME NEW i \in 1 .. n PROVE \E j \in 1 .. m + l : order[j] = i
  <2>1. CASE picked[i]
    <3>1. PICK j \in 1 .. m : p[j] = i
      BY <1>2, <2>1 DEF Places
    <3>2. j \in 1 .. m + l
      OBVIOUS
    <3> QED BY <1>6, <3>1, <3>2
  <2>2. CASE ~picked[i]
    <3>1. rest[i]
      BY <1>1, <2>2
    <3>2. PICK j \in 1 .. l : q[j] = i
      BY <1>3, <3>1 DEF Places
    <3>3. m + j \in 1 .. m + l /\ ~(m + j \in 1 .. m) /\ (m + j) - m = j
      OBVIOUS
    <3>4. order[m + j] = q[j]
      BY <1>7, <3>3
    <3> QED BY <3>2, <3>3, <3>4
  <2> QED BY <2>1, <2>2
<1>13. m + l = n
  <2>1. order \in Seq(1 .. n) /\ Len(order) = m + l
    BY <1>5
  <2>2. \A i, j \in 1 .. Len(order) : order[i] = order[j] => i = j
    BY <1>11, <2>1
  <2>3. \A i \in 1 .. n : \E j \in 1 .. Len(order) : order[j] = i
    BY <1>12, <2>1
  <2> QED BY <2>1, <2>2, <2>3, AsMany
<1>14. ASSUME \A i, j \in 1 .. n : i < j /\ picked[j] => picked[i], NEW k \in 1 .. n
       PROVE  order[k] = k
  <2>0. \A i \in 1 .. n : order[i] \in 1 .. n
    BY <1>5, <1>13
  <2>1. ASSUME NEW i \in 1 .. n, NEW j \in 1 .. n, i < j PROVE order[i] < order[j]
    <3>1. order[i] < order[j] \/ (picked[order[i]] /\ ~picked[order[j]])
      BY <1>10, <1>13, <2>1
    <3>2. order[i] \in 1 .. n /\ order[j] \in 1 .. n /\ order[i] # order[j]
      BY <1>10, <1>13, <2>0, <2>1
    <3>3. order[i] < order[j] \/ order[j] < order[i]
      BY <3>2
    <3>4. order[j] < order[i] /\ picked[order[i]] => picked[order[j]]
      BY <1>14, <3>2
    <3> QED BY <3>1, <3>3, <3>4
  <2>2. InOrder(order) /\ Len(order) = n /\ order \in Seq(1 .. n)
    BY <1>5, <1>13, <2>1 DEF InOrder
  <2>3. 1 \in 1 .. Len(order) /\ n \in 1 .. Len(order) /\ k \in 1 .. Len(order) /\ 1 <= k /\ k <= n
    BY <2>2
  <2>4. order[k] >= order[1] + (k - 1)
    BY <2>2, <2>3, Spaced
  <2>5. order[n] >= order[k] + (n - k)
    BY <2>2, <2>3, Spaced
  <2>6. order[1] \in 1 .. n /\ order[k] \in 1 .. n /\ order[n] \in 1 .. n
    BY <2>0, <2>2, <2>3
  <2> QED BY <2>4, <2>5, <2>6
<1>15. /\ order \in Seq(1 .. n) /\ Len(order) = n
       /\ \A i, j \in 1 .. n : order[i] = order[j] => i = j
       /\ \A i \in 1 .. n : \E j \in 1 .. n : order[j] = i
  BY <1>5, <1>11, <1>12, <1>13
<1>16. \A i, j \in 1 .. n : i < j /\ picked[order[j]] => picked[order[i]]
  BY <1>10, <1>13
<1>17. IsOrder(order, n, picked)
  BY <1>14, <1>15, <1>16 DEF IsOrder
<1> QED BY <1>17 DEF order

-----------------------------------------------------------------------------
\* What is shown can be stored, and is something.
LEMMA SnapshotType ==
  ASSUME WorkspaceInv, phase # "off"
  PROVE  /\ Workspace!Snapshot \in Snapshots /\ Workspace!Snapshot.tabs # <<>>
         /\ Workspace!Snapshot # Workspace!NoWorkspace
<1>0. /\ tabs \in Seq(Tabs) /\ Len(tabs) <= MaxTabs /\ Len(tabs) \in Nat
      /\ active \in 1 .. Len(tabs)
  BY WindowFacts
<1> DEFINE shown == [i \in 1 .. Len(tabs) |->
                       [path |-> tabs[i].path, text |-> tabs[i].text, pinned |-> tabs[i].pinned]]
<1>1. shown \in Seq(StoredTab) /\ Len(shown) = Len(tabs)
  <2>1. \A i \in 1 .. Len(tabs) : tabs[i] \in Tabs
    BY <1>0
  <2>2. \A t \in Tabs : [path |-> t.path, text |-> t.text, pinned |-> t.pinned] \in StoredTab
    BY DEF Tabs, StoredTab
  <2>3. \A i \in 1 .. Len(tabs) :
          [path |-> tabs[i].path, text |-> tabs[i].text, pinned |-> tabs[i].pinned] \in StoredTab
    BY <2>1, <2>2
  <2> QED BY <1>0, <2>3
<1>2. Workspace!Snapshot = [tabs |-> shown, active |-> active]
  BY DEF Workspace!Snapshot
<1> HIDE DEF shown
<1>3. shown # <<>>
  BY <1>0, <1>1
<1>4. active \in 0 .. MaxTabs /\ active \in 1 .. Len(shown)
  BY <1>0, <1>1, WorkspaceAssumption
<1>5. Workspace!Snapshot \in [tabs : Seq(StoredTab), active : 0 .. MaxTabs]
  BY <1>1, <1>2, <1>4
<1>6. Workspace!Snapshot.tabs = shown /\ Workspace!Snapshot.active = active
  BY <1>2
<1>7. Workspace!NoWorkspace.tabs = <<>>
  BY DEF Workspace!NoWorkspace
<1>8. Len(shown) <= MaxTabs
  BY <1>0, <1>1
<1> QED BY <1>3, <1>4, <1>5, <1>6, <1>7, <1>8 DEF Snapshots

LEMMA NoWorkspaceType == Workspace!NoWorkspace \in Snapshots
<1>1. Workspace!NoWorkspace.tabs = <<>> /\ Workspace!NoWorkspace.active = 0
  BY DEF Workspace!NoWorkspace
<1>2. <<>> \in Seq(StoredTab) /\ Len(<<>>) = 0 /\ 0 \in 0 .. MaxTabs /\ 0 <= MaxTabs
  BY WorkspaceAssumption
<1>3. Workspace!NoWorkspace \in [tabs : Seq(StoredTab), active : 0 .. MaxTabs]
  BY <1>2 DEF Workspace!NoWorkspace
<1> QED BY <1>1, <1>2, <1>3 DEF Snapshots

\* The process ends.
LEMMA EndWork ==
  ASSUME WorkspaceInv, Workspace!End, StoreType', UNCHANGED <<disk, actions>>
  PROVE  WorkspaceInv'
<1>1. /\ phase' = "off" /\ tabs' = <<>> /\ active' = 0 /\ dialog' = Workspace!Closed
      /\ tasks' = {} /\ inbox' = <<>>
  BY DEF Workspace!End
<1>2. WindowType'
  <2>1. <<>> \in Seq(Tabs) /\ Len(<<>>) = 0 /\ 0 <= MaxTabs
    BY WorkspaceAssumption
  <2>2. tabs' \in Seq(Tabs) /\ Len(tabs') <= MaxTabs
    BY <1>1, <2>1
  <2> QED BY <1>1, <2>2, ClosedIsDialog DEF WindowType
<1>3. JobType'
  <2>1. disk' \in [Paths -> Contents]
    BY DEF WorkspaceInv, JobType
  <2>2. IsFiniteSet({}) /\ <<>> \in Seq(Replies) /\ Len(<<>>) = 0
    BY FS_EmptySet
  <2> QED BY <1>1, <2>1, <2>2 DEF JobType
<1>4. Budget'
  <2>1. Cardinality({}) = 0 /\ Len(<<>>) = 0
    BY FS_EmptySet
  <2>2. Workspace!Closed.asked = 0
    BY DEF Workspace!Closed
  <2>3. actions' \in 0 .. MaxActions /\ actions' \in Nat
    BY WorkspaceAssumption DEF WorkspaceInv, Budget
  <2>4. Cardinality(tasks') = 0 /\ Len(inbox') = 0 /\ dialog'.asked = 0
    BY <1>1, <2>1, <2>2
  <2> QED BY <2>3, <2>4 DEF Budget
<1>5. Len(tabs') = 0
  BY <1>1
<1>6. Distinct(tabs') /\ AllAccounted(tabs', tasks', inbox')
  BY <1>5 DEF Distinct, AllAccounted
<1>7. StoreType'
  OBVIOUS
<1> QED BY <1>2, <1>3, <1>4, <1>6, <1>7 DEF WorkspaceInv

\* It goes on, with the tabs it has.
LEMMA KeepWork ==
  ASSUME WorkspaceInv, phase # "off", phase' # "off", StoreType',
         UNCHANGED <<tabs, active, dialog, disk, tasks, inbox, actions>>
  PROVE  WorkspaceInv'
<1>1. /\ tabs' \in Seq(Tabs) /\ Len(tabs') <= MaxTabs /\ active' \in 1 .. Len(tabs')
      /\ dialog' \in Dialogs /\ Distinct(tabs')
  BY WindowFacts
<1>2. JobType'
  BY JobsStay DEF WorkspaceInv
<1>3. Budget'
  BY DEF WorkspaceInv, Budget
<1>4. AllAccounted(tabs', tasks', inbox')
  BY DEF WorkspaceInv
<1> QED BY <1>1, <1>2, <1>3, <1>4, Running

\* A process that runs is told apart from one that does not, and so is what is
\* shown.
LEMMA StoreFacts ==
  ASSUME WorkspaceInv
  PROVE  /\ phase \in {"off", "running", "writing", "renaming"} /\ leaving \in BOOLEAN
         /\ known \in Snapshots /\ left \in Snapshots
         /\ tmp \in Snapshots \cup {Workspace!TornWorkspace}
         /\ file \in Snapshots \cup {Workspace!TornWorkspace}
         /\ unsaved \in {"no", "before", "exit"} /\ faults \in 0 .. MaxFaults
BY DEF WorkspaceInv, StoreType

LEMMA AutosaveWork ==
  ASSUME WorkspaceInv, NEW exit \in BOOLEAN, Workspace!Autosave(exit)
  PROVE  WorkspaceInv'
<1>1. /\ phase = "running" /\ phase' = "writing" /\ leaving' = exit
      /\ tmp' = Workspace!TornWorkspace
      /\ UNCHANGED <<tabs, active, dialog, disk, tasks, inbox, actions>>
      /\ UNCHANGED <<file, known, faults, unsaved, left>>
  BY DEF Workspace!Autosave, Workspace!WriteFirst, Workspace!app, Workspace!work, Workspace!world
<1>2. StoreType'
  BY <1>1, StoreFacts DEF StoreType
<1> QED BY <1>1, <1>2, KeepWork

LEMMA WrittenWork == ASSUME WorkspaceInv, Workspace!Written PROVE WorkspaceInv'
<1>1. /\ phase = "writing" /\ phase' = "renaming" /\ tmp' = Workspace!Snapshot
      /\ UNCHANGED <<tabs, active, dialog, disk, tasks, inbox, actions>>
      /\ UNCHANGED <<leaving, file, known, faults, unsaved, left>>
  BY DEF Workspace!Written, Workspace!app, Workspace!work, Workspace!world
<1>2. Workspace!Snapshot \in Snapshots
  BY <1>1, SnapshotType
<1>3. StoreType'
  BY <1>1, <1>2, StoreFacts DEF StoreType
<1> QED BY <1>1, <1>3, KeepWork

\* The save of the workspace is over: it went well, or not.
LEMMA SavedWork ==
  ASSUME WorkspaceInv, phase # "off",
         known' = Workspace!Snapshot, unsaved' \in {"no", "before", "exit"},
         tmp' \in Snapshots \cup {Workspace!TornWorkspace},
         file' \in Snapshots \cup {Workspace!TornWorkspace},
         IF leaving
         THEN Workspace!Off /\ left' = Workspace!Snapshot
         ELSE phase' = "running"
              /\ UNCHANGED <<leaving, Workspace!app, Workspace!work, left>>,
         UNCHANGED <<disk, actions>>, faults' \in 0 .. MaxFaults
  PROVE  WorkspaceInv'
<1>1. Workspace!Snapshot \in Snapshots
  BY SnapshotType
<1>2. CASE leaving
  <2>1. Workspace!End /\ left' = Workspace!Snapshot /\ phase' = "off" /\ leaving' = FALSE
    BY <1>2 DEF Workspace!Off, Workspace!End
  <2>2. StoreType'
    BY <1>1, <2>1 DEF StoreType
  <2> QED BY <2>1, <2>2, EndWork
<1>3. CASE ~leaving
  <2>1. phase' = "running" /\ UNCHANGED <<leaving, tabs, active, dialog, tasks, inbox, left>>
    BY <1>3 DEF Workspace!app, Workspace!work
  <2>2. StoreType'
    BY <1>1, <2>1, StoreFacts DEF StoreType
  <2> QED BY <2>1, <2>2, KeepWork
<1> QED BY <1>2, <1>3

LEMMA RenamedWork == ASSUME WorkspaceInv, Workspace!Renamed PROVE WorkspaceInv'
<1>1. /\ phase # "off" /\ known' = Workspace!Snapshot /\ unsaved' = "no" /\ file' = tmp
      /\ tmp' = Workspace!NoWorkspace /\ UNCHANGED <<disk, actions, faults>>
  BY DEF Workspace!Renamed
<1>2. IF leaving
      THEN Workspace!Off /\ left' = Workspace!Snapshot
      ELSE phase' = "running" /\ UNCHANGED <<leaving, Workspace!app, Workspace!work, left>>
  BY DEF Workspace!Renamed
<1>3. /\ tmp' \in Snapshots \cup {Workspace!TornWorkspace}
      /\ file' \in Snapshots \cup {Workspace!TornWorkspace} /\ faults' \in 0 .. MaxFaults
  BY <1>1, StoreFacts, NoWorkspaceType
<1> QED BY <1>1, <1>2, <1>3, SavedWork

LEMMA NotSavedWork == ASSUME WorkspaceInv, Workspace!NotSaved PROVE WorkspaceInv'
<1>1. /\ phase # "off" /\ known' = Workspace!Snapshot /\ unsaved' \in {"no", "before", "exit"}
      /\ faults < MaxFaults /\ faults' = faults + 1 /\ UNCHANGED <<tmp, file, disk, actions>>
  BY DEF Workspace!NotSaved, Workspace!Fault
<1>2. IF leaving
      THEN Workspace!Off /\ left' = Workspace!Snapshot
      ELSE phase' = "running" /\ UNCHANGED <<leaving, Workspace!app, Workspace!work, left>>
  BY DEF Workspace!NotSaved
<1>3. faults' \in 0 .. MaxFaults
  BY <1>1, StoreFacts, WorkspaceAssumption
<1>4. /\ tmp' \in Snapshots \cup {Workspace!TornWorkspace}
      /\ file' \in Snapshots \cup {Workspace!TornWorkspace}
  BY <1>1, StoreFacts
<1> QED BY <1>1, <1>2, <1>3, <1>4, SavedWork

LEMMA ExitWork == ASSUME WorkspaceInv, Workspace!Exit PROVE WorkspaceInv'
<1>1. /\ phase = "running" /\ Workspace!End /\ left' = Workspace!Snapshot
      /\ phase' = "off" /\ leaving' = FALSE
      /\ UNCHANGED <<known, tmp, file, disk, actions, faults, unsaved>>
  BY DEF Workspace!Exit, Workspace!Off, Workspace!End
<1>2. Workspace!Snapshot \in Snapshots
  BY <1>1, SnapshotType
<1>3. StoreType'
  BY <1>1, <1>2, StoreFacts DEF StoreType
<1> QED BY <1>1, <1>3, EndWork

LEMMA CrashWork == ASSUME WorkspaceInv, Workspace!Crash PROVE WorkspaceInv'
<1>1. /\ Workspace!End /\ left' = Workspace!NoWorkspace /\ phase' = "off" /\ leaving' = FALSE
      /\ faults < MaxFaults /\ faults' = faults + 1
      /\ UNCHANGED <<known, tmp, file, disk, actions, unsaved>>
  BY DEF Workspace!Crash, Workspace!Fault, Workspace!End
<1>2. faults' \in 0 .. MaxFaults
  BY <1>1, StoreFacts, WorkspaceAssumption
<1>3. StoreType'
  BY <1>1, <1>2, StoreFacts, NoWorkspaceType DEF StoreType
<1> QED BY <1>1, <1>3, EndWork

LEMMA PanicWork == ASSUME WorkspaceInv, Workspace!Panic PROVE WorkspaceInv'
<1>1. /\ Workspace!End /\ left' = Workspace!NoWorkspace /\ phase' = "off" /\ leaving' = FALSE
      /\ UNCHANGED <<known, tmp, file, disk, actions, faults, unsaved>>
  BY DEF Workspace!Panic, Workspace!End
<1>3. StoreType'
  BY <1>1, StoreFacts, NoWorkspaceType DEF StoreType
<1> QED BY <1>1, <1>3, EndWork

-----------------------------------------------------------------------------
\* A stored tab as it comes back: clean, if its file holds its text.
LEMMA RestoredKeeps ==
  ASSUME WorkspaceInv, NEW i \in Workspace!Ids, NEW t \in StoredTab
  PROVE  /\ Workspace!Restored(i, t) \in Tabs /\ Workspace!Restored(i, t).id = i
         /\ Workspace!Restored(i, t).saved = Workspace!Restored(i, t).onDisk
         /\ Workspace!Restored(i, t).path = t.path /\ Workspace!Restored(i, t).text = t.text
         /\ Workspace!Restored(i, t).pinned = t.pinned
<1> DEFINE now == IF t.path = Workspace!NoPath THEN Blank ELSE Workspace!Text(t.path)
<1>1. t.path \in Paths \cup {Workspace!NoPath} /\ t.text \in Texts /\ t.pinned \in BOOLEAN
  BY DEF StoredTab
<1>2. now \in Texts
  <2>1. \A p \in Paths : disk[p] \in Contents
    BY DEF WorkspaceInv, JobType
  <2>2. \A p \in Paths : Workspace!Text(p) \in Texts
    BY <2>1, WorkspaceAssumption DEF Workspace!Text, Contents
  <2> QED BY <1>1, <2>2, WorkspaceAssumption
<1>3. Workspace!Restored(i, t) =
        [id |-> i, path |-> t.path, text |-> t.text, saved |-> now, pinned |-> t.pinned,
         tx |-> FALSE, onDisk |-> now, sure |-> TRUE]
  <2>1. Workspace!Restored(i, t) =
          [Workspace!NewTab(i) EXCEPT !.path = t.path, !.text = t.text, !.pinned = t.pinned,
                                      !.saved = now, !.onDisk = now]
    BY DEF Workspace!Restored
  <2> HIDE DEF now
  <2> QED BY <2>1 DEF Workspace!NewTab
<1> HIDE DEF now
<1>4. now \in Contents
  BY <1>2 DEF Contents
<1>5. Workspace!Restored(i, t) \in Tabs
  BY <1>1, <1>2, <1>3, <1>4 DEF Tabs
<1> QED BY <1>3, <1>5

\* What restore_workspace makes of tabs.
LEMMA PinnedFirstIs ==
  ASSUME NEW s \in Seq(Tabs), NEW at \in 1 .. Len(s), NEW picked \in [1 .. Len(s) -> BOOLEAN],
         \A i \in 1 .. Len(s) : picked[i] = s[i].pinned
  PROVE  /\ Workspace!PinnedFirst(s, at).tabs =
              [k \in 1 .. Len(s) |-> s[Order(Len(s), picked)[k]]]
         /\ Workspace!PinnedFirst(s, at).active =
              Workspace!IndexOf(Workspace!PinnedFirst(s, at).tabs, s[at].id)
<1> PICK n \in Nat : n = Len(s)
  OBVIOUS
<1>1. DOMAIN s = 1 .. n /\ picked \in [1 .. n -> BOOLEAN]
  OBVIOUS
<1>2. [i \in DOMAIN s |-> s[i].pinned] = picked
  BY <1>1
<1>3. [i \in DOMAIN s |-> ~s[i].pinned] = [i \in 1 .. n |-> ~picked[i]]
  BY <1>1
<1> DEFINE order == Workspace!PlacesOf([i \in DOMAIN s |-> s[i].pinned])
                      \o Workspace!PlacesOf([i \in DOMAIN s |-> ~s[i].pinned])
           sorted == [k \in DOMAIN order |-> s[order[k]]]
<1>4. Workspace!PinnedFirst(s, at) =
        [tabs |-> sorted, active |-> Workspace!IndexOf(sorted, s[at].id)]
  BY DEF Workspace!PinnedFirst
<1>5. order = Order(n, picked)
  BY <1>2, <1>3 DEF Order
<1>6. Order(n, picked) \in Seq(1 .. n) /\ Len(Order(n, picked)) = n
  BY <1>1, Ordered DEF IsOrder
<1>7. DOMAIN Order(n, picked) = 1 .. n
  BY <1>6
<1> HIDE DEF order
<1>8. sorted = [k \in 1 .. n |-> s[Order(n, picked)[k]]]
  BY <1>5, <1>7
<1> HIDE DEF sorted
<1>9. /\ Workspace!PinnedFirst(s, at).tabs = sorted
      /\ Workspace!PinnedFirst(s, at).active = Workspace!IndexOf(sorted, s[at].id)
  BY <1>4
<1> QED BY <1>8, <1>9

\* It keeps them all, pinned ones first; in their order, if those were first.
Arranged(r, s, at) ==
  /\ r.tabs \in Seq(Tabs) /\ Len(r.tabs) = Len(s)
  /\ r.active \in 1 .. Len(s) /\ Distinct(r.tabs) /\ PinnedHead(r.tabs)
  /\ \A k \in 1 .. Len(s) : \E i \in 1 .. Len(s) : r.tabs[k] = s[i]
  /\ PinnedHead(s) => r.active = at /\ \A k \in 1 .. Len(s) : r.tabs[k] = s[k]

LEMMA PinnedFirstKeeps ==
  ASSUME NEW s \in Seq(Tabs), NEW at \in 1 .. Len(s), \A i \in 1 .. Len(s) : s[i].id = i,
         NEW r, r = Workspace!PinnedFirst(s, at)
  PROVE  Arranged(r, s, at)
<1> PICK n \in Nat : n = Len(s)
  OBVIOUS
<1>1. \A i \in 1 .. n : s[i] \in Tabs /\ s[i].id = i
  OBVIOUS
<1> DEFINE picked == [i \in 1 .. n |-> s[i].pinned]
           order == Order(n, picked)
<1>2. picked \in [1 .. n -> BOOLEAN] /\ \A i \in 1 .. n : picked[i] = s[i].pinned
  BY <1>1 DEF Tabs
<1> HIDE DEF picked
<1>o. IsOrder(order, n, picked)
  BY <1>2, Ordered
<1> HIDE DEF order
<1>3. /\ order \in Seq(1 .. n) /\ Len(order) = n
      /\ \A i, j \in 1 .. n : order[i] = order[j] => i = j
      /\ \A i \in 1 .. n : \E j \in 1 .. n : order[j] = i
      /\ \A i, j \in 1 .. n : i < j /\ picked[order[j]] => picked[order[i]]
      /\ (\A i, j \in 1 .. n : i < j /\ picked[j] => picked[i])
           => \A i \in 1 .. n : order[i] = i
  BY <1>o DEF IsOrder
<1>4. /\ r.tabs = [k \in 1 .. n |-> s[order[k]]]
      /\ r.active = Workspace!IndexOf(r.tabs, s[at].id)
  <2>1. picked \in [1 .. Len(s) -> BOOLEAN] /\ \A i \in 1 .. Len(s) : picked[i] = s[i].pinned
    BY <1>2
  <2>2. /\ r.tabs = [k \in 1 .. Len(s) |-> s[Order(Len(s), picked)[k]]]
        /\ r.active = Workspace!IndexOf(r.tabs, s[at].id)
    BY <2>1, PinnedFirstIs
  <2> QED BY <2>2 DEF order
<1>5. \A k \in 1 .. n : order[k] \in 1 .. n
  <2>1. order \in Seq(1 .. n) /\ Len(order) = n
    BY <1>3
  <2> QED BY <2>1
<1>6. r.tabs \in Seq(Tabs) /\ Len(r.tabs) = n /\ \A k \in 1 .. n : r.tabs[k] = s[order[k]]
  BY <1>1, <1>4, <1>5
<1>7. \A k \in 1 .. n : r.tabs[k].id = order[k] /\ r.tabs[k].pinned = picked[order[k]]
  BY <1>1, <1>2, <1>5, <1>6
<1>8. Distinct(r.tabs)
  <2> SUFFICES ASSUME NEW i \in 1 .. n, NEW j \in 1 .. n, r.tabs[i].id = r.tabs[j].id
               PROVE  i = j
    BY <1>6 DEF Distinct
  <2>1. order[i] = order[j]
    BY <1>7
  <2> QED BY <1>3, <2>1
<1>9. PinnedHead(r.tabs)
  <2> SUFFICES ASSUME NEW i \in 1 .. n, NEW j \in 1 .. n, i < j, r.tabs[j].pinned
               PROVE  r.tabs[i].pinned
    BY <1>6 DEF PinnedHead
  <2>1. picked[order[j]]
    BY <1>7
  <2>2. picked[order[i]]
    BY <1>3, <2>1
  <2> QED BY <1>7, <2>2
<1>10. r.active \in 1 .. n /\ order[r.active] = at
  <2>1. at \in 1 .. n /\ s[at].id = at
    OBVIOUS
  <2>2. PICK j \in 1 .. n : order[j] = at
    BY <1>3, <2>1
  <2>3. Workspace!Has(r.tabs, at)
    BY <1>6, <1>7, <2>2 DEF Workspace!Has
  <2>4. /\ Workspace!IndexOf(r.tabs, at) \in 1 .. n
        /\ r.tabs[Workspace!IndexOf(r.tabs, at)].id = at
    BY <1>6, <2>3, IndexFound
  <2> QED BY <1>4, <1>7, <2>1, <2>4
<1>11. ASSUME PinnedHead(s)
       PROVE  r.active = at /\ \A k \in 1 .. n : r.tabs[k] = s[k]
  <2>1. \A i, j \in 1 .. n : i < j /\ picked[j] => picked[i]
    BY <1>2, <1>11 DEF PinnedHead
  <2>2. \A i \in 1 .. n : order[i] = i
    BY <1>3, <2>1
  <2> QED BY <1>6, <1>10, <2>2
<1>12. \A k \in 1 .. n : \E i \in 1 .. n : r.tabs[k] = s[i]
  BY <1>5, <1>6
<1> QED BY <1>6, <1>8, <1>9, <1>10, <1>11, <1>12 DEF Arranged

\* The tabs that a start shows: those stored, each once and clean if its file
\* holds its text, pinned ones first; as they were, if those were first.
RestoredTabs(w) == [i \in 1 .. Len(w.tabs) |-> Workspace!Restored(i, w.tabs[i])]

LEMMA Restoring ==
  ASSUME WorkspaceInv, NEW w \in Snapshots, w.tabs # <<>>,
         NEW r, r = Workspace!PinnedFirst(RestoredTabs(w), w.active)
  PROVE  /\ r.tabs \in Seq(Tabs) /\ Len(r.tabs) = Len(w.tabs) /\ Len(r.tabs) <= MaxTabs
         /\ r.active \in 1 .. Len(r.tabs) /\ Distinct(r.tabs)
         /\ \A k \in 1 .. Len(r.tabs) : r.tabs[k].saved = r.tabs[k].onDisk
         /\ PinnedHead(r.tabs)
         /\ PinnedHead(w.tabs) =>
              /\ r.active = w.active
              /\ \A k \in 1 .. Len(r.tabs) :
                   /\ r.tabs[k].path = w.tabs[k].path /\ r.tabs[k].text = w.tabs[k].text
                   /\ r.tabs[k].pinned = w.tabs[k].pinned
<1>0. /\ w.tabs \in Seq(StoredTab) /\ Len(w.tabs) <= MaxTabs /\ w.active \in 1 .. Len(w.tabs)
  BY DEF Snapshots
<1> PICK n \in Nat : n = Len(w.tabs)
  BY <1>0
<1>1. n <= MaxTabs /\ w.active \in 1 .. n /\ \A i \in 1 .. n : w.tabs[i] \in StoredTab
  BY <1>0
<1>2. \A i \in 1 .. n : i \in Workspace!Ids
  BY <1>1, WorkspaceAssumption DEF Workspace!Ids
<1>3. \A i \in 1 .. n :
        /\ Workspace!Restored(i, w.tabs[i]) \in Tabs /\ Workspace!Restored(i, w.tabs[i]).id = i
        /\ Workspace!Restored(i, w.tabs[i]).saved = Workspace!Restored(i, w.tabs[i]).onDisk
        /\ Workspace!Restored(i, w.tabs[i]).path = w.tabs[i].path
        /\ Workspace!Restored(i, w.tabs[i]).text = w.tabs[i].text
        /\ Workspace!Restored(i, w.tabs[i]).pinned = w.tabs[i].pinned
  BY <1>1, <1>2, RestoredKeeps
<1> DEFINE s == RestoredTabs(w)
<1>4. s = [i \in 1 .. n |-> Workspace!Restored(i, w.tabs[i])]
  BY DEF RestoredTabs
<1> HIDE DEF s
<1>5. s \in Seq(Tabs) /\ Len(s) = n /\ \A i \in 1 .. n : s[i] = Workspace!Restored(i, w.tabs[i])
  BY <1>3, <1>4
<1>6. /\ \A i \in 1 .. Len(s) : s[i].id = i
      /\ \A i \in 1 .. n : /\ s[i].saved = s[i].onDisk /\ s[i].path = w.tabs[i].path
                           /\ s[i].text = w.tabs[i].text /\ s[i].pinned = w.tabs[i].pinned
  BY <1>3, <1>5
<1>7. /\ r.tabs \in Seq(Tabs) /\ Len(r.tabs) = Len(s)
      /\ r.active \in 1 .. Len(s) /\ Distinct(r.tabs) /\ PinnedHead(r.tabs)
      /\ \A k \in 1 .. Len(s) : \E i \in 1 .. Len(s) : r.tabs[k] = s[i]
      /\ PinnedHead(s) => r.active = w.active /\ \A k \in 1 .. Len(s) : r.tabs[k] = s[k]
  <2>1. r = Workspace!PinnedFirst(s, w.active)
    BY DEF s
  <2>2. s \in Seq(Tabs) /\ w.active \in 1 .. Len(s)
    BY <1>1, <1>5
  <2>3. Arranged(r, s, w.active)
    BY <1>6, <2>1, <2>2, PinnedFirstKeeps
  <2> QED BY <2>3 DEF Arranged
<1>8. \A k \in 1 .. n : r.tabs[k].saved = r.tabs[k].onDisk
  <2> TAKE k \in 1 .. n
  <2>1. PICK i \in 1 .. n : r.tabs[k] = s[i]
    BY <1>5, <1>7
  <2> QED BY <1>6, <2>1
<1>9. ASSUME PinnedHead(w.tabs)
      PROVE  /\ r.active = w.active
             /\ \A k \in 1 .. n :
                  /\ r.tabs[k].path = w.tabs[k].path /\ r.tabs[k].text = w.tabs[k].text
                  /\ r.tabs[k].pinned = w.tabs[k].pinned
  <2>1. PinnedHead(s)
    BY <1>5, <1>6, <1>9 DEF PinnedHead
  <2> QED BY <1>5, <1>6, <1>7, <2>1
<1> QED BY <1>1, <1>5, <1>7, <1>8, <1>9

\* A file that is torn, or was never written, has no tabs.
LEMMA FileOf ==
  ASSUME WorkspaceInv, file.tabs # <<>>
  PROVE  file \in Snapshots
<1>1. Workspace!TornWorkspace.tabs = <<>>
  BY DEF Workspace!TornWorkspace
<1> QED BY <1>1, StoreFacts

LEMMA StartWork == ASSUME WorkspaceInv, Workspace!Start PROVE WorkspaceInv'
<1>0. /\ phase = "off" /\ phase' = "running"
      /\ UNCHANGED <<leaving, dialog, tmp, file, disk, tasks, inbox, actions, faults, unsaved, left>>
  BY DEF Workspace!Start, Workspace!work, Workspace!world
<1>1. tasks = {} /\ inbox = <<>> /\ dialog = Workspace!Closed
  BY <1>0 DEF WorkspaceInv, WindowType
<1>2. /\ tabs' \in Seq(Tabs) /\ Len(tabs') <= MaxTabs /\ active' \in 1 .. Len(tabs')
      /\ Distinct(tabs') /\ known' \in Snapshots
      /\ \A k \in 1 .. Len(tabs') : tabs'[k].saved = tabs'[k].onDisk
  <2>1. CASE file.tabs = <<>>
    <3>1. tabs' = <<Workspace!NewTab(1)>> /\ active' = 1 /\ known' = Workspace!NoWorkspace
      BY <2>1 DEF Workspace!Start
    <3>2. Workspace!NewTab(1) \in Tabs
          /\ Workspace!NewTab(1).saved = Workspace!NewTab(1).onDisk
      <4>1. 1 \in Workspace!Ids
        BY WorkspaceAssumption DEF Workspace!Ids
      <4> QED BY <4>1, WorkspaceAssumption DEF Workspace!NewTab, Tabs, Contents
    <3>3. /\ tabs' \in Seq(Tabs) /\ Len(tabs') = 1
          /\ \A k \in 1 .. Len(tabs') : k = 1 /\ tabs'[k] = Workspace!NewTab(1)
      BY <3>1, <3>2
    <3>4. Len(tabs') <= MaxTabs /\ active' \in 1 .. Len(tabs')
      BY <3>1, <3>3, WorkspaceAssumption
    <3>5. Distinct(tabs')
      BY <3>3 DEF Distinct
    <3> QED BY <3>1, <3>2, <3>3, <3>4, <3>5, NoWorkspaceType
  <2>2. CASE file.tabs # <<>>
    <3> DEFINE r == Workspace!PinnedFirst(RestoredTabs(file), file.active)
    <3>1. tabs' = r.tabs /\ active' = r.active /\ known' = file
      BY <2>2 DEF Workspace!Start, RestoredTabs
    <3>2. file \in Snapshots
      BY <2>2, FileOf
    <3>3. /\ r.tabs \in Seq(Tabs) /\ Len(r.tabs) <= MaxTabs
          /\ r.active \in 1 .. Len(r.tabs) /\ Distinct(r.tabs)
          /\ \A k \in 1 .. Len(r.tabs) : r.tabs[k].saved = r.tabs[k].onDisk
      BY <2>2, <3>2, Restoring
    <3> HIDE DEF r
    <3> QED BY <3>1, <3>2, <3>3
  <2> QED BY <2>1, <2>2
<1>3. AllAccounted(tabs', tasks', inbox')
  <2>1. \A id : ~Flying(id, tasks', inbox')
    <3>1. tasks' = {} /\ Len(inbox') = 0
      BY <1>0, <1>1
    <3> QED BY <3>1 DEF Flying
  <2> QED BY <1>2, <2>1 DEF AllAccounted, Accounted
<1>4. JobType'
  BY <1>0, JobsStay DEF WorkspaceInv
<1>5. Budget'
  BY <1>0 DEF WorkspaceInv, Budget
<1>6. StoreType'
  BY <1>0, <1>2, StoreFacts DEF StoreType
<1>7. dialog' \in Dialogs
  BY <1>0, <1>1, ClosedIsDialog
<1> QED BY <1>0, <1>2, <1>3, <1>4, <1>5, <1>6, <1>7, Running

LEMMA InitWork == Workspace!Init => WorkspaceInv
<1> SUFFICES ASSUME Workspace!Init PROVE WorkspaceInv
  OBVIOUS
<1>1. /\ phase = "off" /\ leaving = FALSE /\ tabs = <<>> /\ active = 0
      /\ dialog = Workspace!Closed /\ known = Workspace!NoWorkspace
      /\ tmp = Workspace!NoWorkspace /\ file \in Stored /\ disk \in [Paths -> Texts]
      /\ tasks = {} /\ inbox = <<>> /\ actions = 0 /\ faults = 0 /\ unsaved = "no"
      /\ left = Workspace!NoWorkspace
  BY DEF Workspace!Init
<1>2. WindowType
  <2>1. <<>> \in Seq(Tabs) /\ Len(<<>>) = 0 /\ 0 <= MaxTabs
    BY WorkspaceAssumption
  <2> QED BY <1>1, <2>1, ClosedIsDialog DEF WindowType
<1>3. JobType
  <2>1. IsFiniteSet({}) /\ <<>> \in Seq(Replies) /\ Len(<<>>) = 0
    BY FS_EmptySet
  <2>2. disk \in [Paths -> Contents]
    BY <1>1 DEF Contents
  <2> QED BY <1>1, <2>1, <2>2 DEF JobType
<1>4. StoreType
  <2>1. file \in Snapshots
    BY <1>1, WorkspaceAssumption DEF Snapshots, StoredTab, Workspace!NoPath
  <2>2. faults \in 0 .. MaxFaults
    BY <1>1, WorkspaceAssumption
  <2> QED BY <1>1, <2>1, <2>2, NoWorkspaceType DEF StoreType
<1>5. Budget
  <2>1. Cardinality({}) = 0 /\ Len(<<>>) = 0
    BY FS_EmptySet
  <2>2. Workspace!Closed.asked = 0
    BY DEF Workspace!Closed
  <2>3. 0 \in 0 .. MaxActions
    BY WorkspaceAssumption
  <2>4. Cardinality(tasks) = 0 /\ Len(inbox) = 0 /\ dialog.asked = 0
    BY <1>1, <2>1, <2>2
  <2> QED BY <1>1, <2>3, <2>4 DEF Budget
<1>6. Distinct(tabs) /\ AllAccounted(tabs, tasks, inbox)
  <2>1. Len(tabs) = 0
    BY <1>1
  <2> QED BY <2>1 DEF Distinct, AllAccounted
<1> QED BY <1>2, <1>3, <1>4, <1>5, <1>6 DEF WorkspaceInv

-----------------------------------------------------------------------------
LEMMA StepWork == WorkspaceInv /\ [Workspace!Next]_(Workspace!vars) => WorkspaceInv'
<1> SUFFICES ASSUME WorkspaceInv, [Workspace!Next]_(Workspace!vars) PROVE WorkspaceInv'
  OBVIOUS
<1>1. ASSUME NEW x \in Texts, Workspace!Type(x) PROVE WorkspaceInv'
  BY <1>1, TypeWork
<1>2. ASSUME NEW i \in 1 .. Len(tabs), Workspace!Select(i) PROVE WorkspaceInv'
  BY <1>2, SelectWork
<1>3. ASSUME NEW i \in 1 .. Len(tabs), Workspace!Transaction(i) PROVE WorkspaceInv'
  BY <1>3, TransactionWork
<1>4. ASSUME NEW i \in 1 .. Len(tabs), Workspace!Pin(i) PROVE WorkspaceInv'
  BY <1>4, PinWork
<1>5. ASSUME NEW i \in 1 .. Len(tabs), Workspace!Close(i) PROVE WorkspaceInv'
  BY <1>5, CloseWork
<1>6. CASE Workspace!OpenTab
  BY <1>6, OpenTabWork
<1>7. CASE Workspace!Cancel
  BY <1>7, CancelWork
<1>8. CASE Workspace!Discard
  BY <1>8, DiscardWork
<1>9. CASE Workspace!RollBack
  BY <1>9, RollBackWork
<1>10. CASE Workspace!SaveAndClose
  BY <1>10, SaveAndCloseWork
<1>11. CASE Workspace!Quit
  BY <1>11, QuitWork
<1>12. ASSUME NEW b \in BOOLEAN, Workspace!Save(b) PROVE WorkspaceInv'
  BY <1>12, SaveWork
<1>13. ASSUME NEW p \in Paths, Workspace!OpenFile(p) PROVE WorkspaceInv'
  BY <1>13, OpenFileWork
<1>14. ASSUME NEW s \in tasks, Workspace!PickPath(s) PROVE WorkspaceInv'
  BY <1>14, PickPathWork
<1>15. ASSUME NEW s \in tasks, Workspace!ReadFile(s) PROVE WorkspaceInv'
  BY <1>15, ReadFileWork
<1>16. ASSUME NEW s \in tasks, Workspace!Truncate(s) PROVE WorkspaceInv'
  BY <1>16, TruncateWork
<1>17. ASSUME NEW s \in tasks, Workspace!Write(s) PROVE WorkspaceInv'
  BY <1>17, WriteWork
<1>18. ASSUME NEW s \in tasks, Workspace!FailWrite(s) PROVE WorkspaceInv'
  BY <1>18, FailWriteWork
<1>19. CASE Workspace!Handle
  BY <1>19, TakeWork
<1>20. CASE Workspace!Autosave(FALSE)
  BY <1>20, AutosaveWork
<1>21. CASE Workspace!ExitSaving
  <2>1. Workspace!Autosave(TRUE)
    BY <1>21 DEF Workspace!ExitSaving
  <2> QED BY <2>1, AutosaveWork
<1>22. CASE Workspace!Written
  BY <1>22, WrittenWork
<1>23. CASE Workspace!Renamed
  BY <1>23, RenamedWork
<1>24. CASE Workspace!NotSaved
  BY <1>24, NotSavedWork
<1>25. CASE Workspace!Exit
  BY <1>25, ExitWork
<1>26. CASE Workspace!Crash
  BY <1>26, CrashWork
<1>27. CASE Workspace!Panic
  BY <1>27, PanicWork
<1>28. CASE Workspace!Start
  BY <1>28, StartWork
<1>29. CASE UNCHANGED Workspace!vars
  <2>1. /\ UNCHANGED <<tabs, active, dialog, phase, leaving, known, tmp, file, disk, tasks, inbox>>
        /\ UNCHANGED <<actions, faults, unsaved, left>>
    BY <1>29 DEF Workspace!vars, Workspace!app, Workspace!store, Workspace!work, Workspace!world
  <2> QED BY <2>1 DEF WorkspaceInv, WindowType, JobType, StoreType, Budget
<1> QED
  BY <1>1, <1>2, <1>3, <1>4, <1>5, <1>6, <1>7, <1>8, <1>9, <1>10, <1>11, <1>12, <1>13, <1>14,
     <1>15, <1>16, <1>17, <1>18, <1>19, <1>20, <1>21, <1>22, <1>23, <1>24, <1>25, <1>26, <1>27,
     <1>28, <1>29
  DEF Workspace!Next

\* However saves, edits, closes, crashes and restarts interleave, tabs have
\* different ids, there is one for the next tab, and what is sure of a tab is
\* accounted for by the saves of it that are not over.
THEOREM WorkspaceInvHolds == Workspace!Spec => []WorkspaceInv
BY InitWork, StepWork, PTL DEF Workspace!Spec

\* A tab without the mark of unsaved changes holds what its file was last read or
\* written as, unless it was edited or saved again while a save was under way
\* (is_dirty, mark_saved).
THEOREM CleanHolds == Workspace!Spec => []CleanIsSaved
<1>1. WorkspaceInv => CleanIsSaved
  <2> SUFFICES ASSUME WorkspaceInv, NEW i \in 1 .. Len(tabs), tabs[i].sure,
                      ~Workspace!IsDirty(tabs[i])
               PROVE  Workspace!HoldsItsText(tabs[i])
    BY DEF CleanIsSaved, Workspace!CleanIsSaved
  <2>1. Accounted(tabs[i], tasks, inbox)
    BY DEF WorkspaceInv, AllAccounted
  <2>2. tabs[i].onDisk = tabs[i].text \/ tabs[i].saved = tabs[i].onDisk
    BY <2>1 DEF Accounted
  <2>3. tabs[i].text = tabs[i].saved \/ (tabs[i].path = Workspace!NoPath /\ tabs[i].text = Blank)
    BY DEF Workspace!IsDirty
  <2> QED BY <2>2, <2>3 DEF Workspace!HoldsItsText
<1> QED BY <1>1, WorkspaceInvHolds, PTL

\* Type correctness of the workspace.
THEOREM WorkspaceTypeOK == Workspace!Spec => []Workspace!TypeOK
<1>1. WorkspaceInv => Workspace!TypeOK
  <2> SUFFICES ASSUME WorkspaceInv PROVE Workspace!TypeOK
    OBVIOUS
  <2> DEFINE Stored1 == [path : Paths \cup {Workspace!NoPath}, text : Texts, pinned : BOOLEAN]
             Snapshots1 == [tabs : Seq(Stored1), active : 0 .. MaxTabs]
  <2>1. Snapshots \subseteq Snapshots1
    BY DEF Snapshots, StoredTab
  <2>2. tabs \in Seq([id : Workspace!Ids, path : Paths \cup {Workspace!NoPath}, text : Texts,
                      saved : Texts \cup {Workspace!Torn}, pinned : BOOLEAN, tx : BOOLEAN,
                      onDisk : Texts \cup {Workspace!Torn}, sure : BOOLEAN])
    <3> DEFINE T == [id : Workspace!Ids, path : Paths \cup {Workspace!NoPath}, text : Texts,
                     saved : Texts \cup {Workspace!Torn}, pinned : BOOLEAN, tx : BOOLEAN,
                     onDisk : Texts \cup {Workspace!Torn}, sure : BOOLEAN]
    <3>1. Tabs \subseteq T
      BY DEF Tabs, Contents
    <3>2. tabs \in Seq(Tabs)
      BY DEF WorkspaceInv, WindowType
    <3> HIDE DEF T
    <3>3. \A i \in 1 .. Len(tabs) : tabs[i] \in T
      BY <3>1, <3>2
    <3>4. tabs \in Seq(T)
      BY <3>2, <3>3, Narrowed
    <3> QED BY <3>4 DEF T
  <2>3. inbox \in Seq([tab : Workspace!Ids \cup {0}, kind : {"open", "save"}, path : Paths,
                       text : Texts \cup {Workspace!Torn}, ok : BOOLEAN, close : BOOLEAN])
    <3> DEFINE T == [tab : Workspace!Ids \cup {0}, kind : {"open", "save"}, path : Paths,
                     text : Texts \cup {Workspace!Torn}, ok : BOOLEAN, close : BOOLEAN]
    <3>1. Replies \subseteq T
      BY DEF Replies
    <3>2. inbox \in Seq(Replies)
      BY DEF WorkspaceInv, JobType
    <3> HIDE DEF T
    <3>3. \A i \in 1 .. Len(inbox) : inbox[i] \in T
      BY <3>1, <3>2
    <3>4. inbox \in Seq(T)
      BY <3>2, <3>3, Narrowed
    <3> QED BY <3>4 DEF T
  <2>4. /\ dialog \in [kind : {"none", "close", "transaction", "quit"}, at : 0 .. MaxTabs,
                       asked : Workspace!Ids \cup {0}]
        /\ Len(tabs) <= MaxTabs
        /\ IF phase = "off" THEN tabs = <<>> ELSE active \in 1 .. Len(tabs)
    BY DEF WorkspaceInv, WindowType, Dialogs
  <2>5. /\ disk \in [Paths -> Texts \cup {Workspace!Torn}]
        /\ tasks \subseteq [tab : Workspace!Ids \cup {0}, kind : {"open", "save"},
                            path : Paths \cup {Workspace!NoPath}, text : Texts, close : BOOLEAN,
                            at : {"start", "writing"}]
    BY DEF WorkspaceInv, JobType, Jobs, Contents
  <2>6. /\ phase \in {"off", "running", "writing", "renaming"} /\ leaving \in BOOLEAN
        /\ known \in Snapshots1 /\ {tmp, file} \subseteq Snapshots1 \cup {Workspace!TornWorkspace}
        /\ unsaved \in {"no", "before", "exit"} /\ left \in Snapshots1 /\ faults \in 0 .. MaxFaults
        /\ actions \in 0 .. MaxActions
    BY <2>1 DEF WorkspaceInv, StoreType, Budget
  <2> QED BY <2>2, <2>3, <2>4, <2>5, <2>6 DEF Workspace!TypeOK
<1> QED BY <1>1, WorkspaceInvHolds, PTL

-----------------------------------------------------------------------------
(* Workspace: which tabs go, and what the next start shows                 *)

\* The same tabs, whatever of their texts and saves is other.
Alike(s, r) ==
  /\ r \in Seq(Tabs) /\ Len(r) = Len(s)
  /\ \A i \in 1 .. Len(s) : r[i].id = s[i].id /\ r[i].pinned = s[i].pinned

\* Nobody lost the text of this tab: it is in its file, or it was said that it may
\* not be, or the user discarded it.
Accepted(i) ==
  \/ Workspace!HoldsItsText(tabs[i]) \/ ~tabs[i].sure
  \/ Workspace!Answered /\ (dialog.asked = tabs[i].id \/ dialog.at = i)

\* What an action does to the tabs of a program that runs.
Stays == Alike(tabs, tabs') /\ (phase = "running" \/ Workspace!Snapshot' = Workspace!Snapshot)
Added == phase = "running" /\ \E u \in Tabs : ~u.pinned /\ tabs' = Append(tabs, u)
PinMoved == phase = "running" /\ \E i \in 1 .. Len(tabs) : tabs' = Workspace!Pinned(tabs, i)
Gone ==
  /\ phase = "running"
  /\ \E s \in Seq(Tabs) : \E i \in 1 .. Len(tabs) :
       Alike(tabs, s) /\ tabs' = Workspace!ClosedTab(s, i) /\ Accepted(i)

\* It leaves what is stored alone.
GoesOn ==
  /\ phase # "off" /\ UNCHANGED <<phase, leaving, known, tmp, file, unsaved, left>>
  /\ Stays \/ Added \/ PinMoved \/ Gone

LEMMA AlikeSelf == ASSUME tabs \in Seq(Tabs) PROVE Alike(tabs, tabs)
BY DEF Alike

\* Actions of a window that shows the same tabs.
LEMMA SameTabs ==
  ASSUME WorkspaceInv, phase # "off", UNCHANGED <<tabs, active>>,
         UNCHANGED <<phase, leaving, known, tmp, file, unsaved, left>>
  PROVE  GoesOn
<1>1. Alike(tabs, tabs')
  BY WindowFacts, AlikeSelf
<1>2. Workspace!Snapshot' = Workspace!Snapshot
  BY DEF Workspace!Snapshot
<1> QED BY <1>1, <1>2 DEF GoesOn, Stays

\* An action on one of them.
LEMMA TabChanges ==
  ASSUME WorkspaceInv, phase = "running", NEW i \in 1 .. Len(tabs), NEW u \in Tabs,
         u.id = tabs[i].id, u.pinned = tabs[i].pinned
  PROVE  Alike(tabs, [tabs EXCEPT ![i] = u])
<1>1. tabs \in Seq(Tabs)
  BY WindowFacts
<1>2. /\ [tabs EXCEPT ![i] = u] \in Seq(Tabs) /\ Len([tabs EXCEPT ![i] = u]) = Len(tabs)
      /\ \A j \in 1 .. Len(tabs) : [tabs EXCEPT ![i] = u][j] = IF j = i THEN u ELSE tabs[j]
  BY <1>1
<1> QED BY <1>2 DEF Alike

LEMMA OneChanges ==
  ASSUME WorkspaceInv, phase = "running",
         NEW i \in 1 .. Len(tabs), NEW u \in Tabs, u.id = tabs[i].id, u.pinned = tabs[i].pinned,
         tabs' = [tabs EXCEPT ![i] = u],
         UNCHANGED <<phase, leaving, known, tmp, file, unsaved, left>>
  PROVE  GoesOn
<1>1. Alike(tabs, tabs')
  BY TabChanges
<1> QED BY <1>1 DEF GoesOn, Stays

LEMMA TypeGoes == ASSUME WorkspaceInv, NEW x \in Texts, Workspace!Type(x) PROVE GoesOn
<1> DEFINE u == [tabs[active] EXCEPT !.text = x,
                                     !.sure = @ /\ ~Workspace!InFlight(tabs[active].id)]
<1>1. /\ phase = "running" /\ UNCHANGED <<phase, leaving, known, tmp, file, unsaved, left>>
  BY DEF Workspace!Type, Workspace!User, Workspace!store, Workspace!world
<1>2. tabs \in Seq(Tabs) /\ active \in 1 .. Len(tabs)
  BY <1>1, WindowFacts
<1>3. tabs[active] \in Tabs
  BY <1>2
<1>4. (tabs[active].sure /\ ~Workspace!InFlight(tabs[active].id)) \in BOOLEAN
  OBVIOUS
<1>5. u \in Tabs /\ u.id = tabs[active].id /\ u.pinned = tabs[active].pinned
  BY <1>3, <1>4 DEF Tabs
<1>6. tabs' = [tabs EXCEPT ![active] = u]
  BY <1>2, <1>3 DEF Workspace!Type, Tabs
<1> HIDE DEF u
<1> QED BY <1>1, <1>2, <1>5, <1>6, OneChanges

LEMMA TransactionGoes ==
  ASSUME WorkspaceInv, NEW i \in 1 .. Len(tabs), Workspace!Transaction(i)
  PROVE  GoesOn
<1> DEFINE u == [tabs[i] EXCEPT !.tx = ~@]
<1>1. /\ phase = "running" /\ UNCHANGED <<phase, leaving, known, tmp, file, unsaved, left>>
      /\ tabs' = [tabs EXCEPT ![i].tx = ~@]
  BY DEF Workspace!Transaction, Workspace!store, Workspace!world
<1>2. tabs \in Seq(Tabs)
  BY <1>1, WindowFacts
<1>3. tabs[i] \in Tabs
  BY <1>2
<1>5. u \in Tabs /\ u.id = tabs[i].id /\ u.pinned = tabs[i].pinned
  BY <1>3 DEF Tabs
<1>6. tabs' = [tabs EXCEPT ![i] = u]
  BY <1>1, <1>2, <1>3 DEF Tabs
<1> HIDE DEF u
<1> QED BY <1>1, <1>5, <1>6, OneChanges

\* save_tab_then leaves the tabs where they are.
LEMMA SavingGoes ==
  ASSUME WorkspaceInv, phase = "running", NEW i \in 1 .. Len(tabs), NEW path, NEW close,
         Workspace!Saving(i, path, close),
         UNCHANGED <<phase, leaving, known, tmp, file, unsaved, left>>
  PROVE  GoesOn
<1> DEFINE u == [tabs[i] EXCEPT !.sure = @ /\ ~Workspace!InFlight(tabs[i].id)]
<1>2. tabs \in Seq(Tabs)
  BY WindowFacts
<1>3. tabs[i] \in Tabs
  BY <1>2
<1>4. (tabs[i].sure /\ ~Workspace!InFlight(tabs[i].id)) \in BOOLEAN
  OBVIOUS
<1>5. u \in Tabs /\ u.id = tabs[i].id /\ u.pinned = tabs[i].pinned
  BY <1>3, <1>4 DEF Tabs
<1>6. tabs' = [tabs EXCEPT ![i] = u]
  BY <1>2, <1>3 DEF Workspace!Saving, Tabs
<1> HIDE DEF u
<1> QED BY <1>5, <1>6, OneChanges

\* new_tab.
LEMMA OpenTabGoes == ASSUME WorkspaceInv, Workspace!OpenTab PROVE GoesOn
<1>1. /\ phase = "running" /\ UNCHANGED <<phase, leaving, known, tmp, file, unsaved, left>>
      /\ tabs' = Append(tabs, Workspace!NewTab(Workspace!UnusedId))
  BY DEF Workspace!OpenTab, Workspace!User, Workspace!store, Workspace!world
<1>2. WindowType /\ JobType /\ Budget
  BY <1>1, WindowFacts
<1>3. Workspace!NewTab(Workspace!UnusedId) \in Tabs
  <2>1. \A id : Flying(id, {}, <<>>) => Workspace!InFlight(id) \/ id = 0
    <3>1. Len(<<>>) = 0
      OBVIOUS
    <3> QED BY <3>1 DEF Flying
  <2> QED BY <1>2, <2>1, FreshTab
<1>4. ~Workspace!NewTab(Workspace!UnusedId).pinned
  BY DEF Workspace!NewTab
<1> QED BY <1>1, <1>3, <1>4 DEF GoesOn, Added

LEMMA PinGoes ==
  ASSUME WorkspaceInv, NEW i \in 1 .. Len(tabs), Workspace!Pin(i)
  PROVE  GoesOn
<1>1. /\ phase = "running" /\ UNCHANGED <<phase, leaving, known, tmp, file, unsaved, left>>
      /\ tabs' = Workspace!Pinned(tabs, i)
  BY DEF Workspace!Pin, Workspace!User, Workspace!store, Workspace!world
<1> QED BY <1>1 DEF GoesOn, PinMoved

\* A tab closes that may.
LEMMA ClosingGoes ==
  ASSUME WorkspaceInv, phase = "running", NEW i \in 1 .. Len(tabs), Accepted(i),
         Workspace!CloseTab(i), UNCHANGED <<phase, leaving, known, tmp, file, unsaved, left>>
  PROVE  GoesOn
<1>1. tabs \in Seq(Tabs) /\ Alike(tabs, tabs)
  BY WindowFacts, AlikeSelf
<1>2. tabs' = Workspace!ClosedTab(tabs, i)
  BY DEF Workspace!CloseTab
<1> QED BY <1>1, <1>2 DEF GoesOn, Gone

\* One that is not dirty may.
LEMMA CleanMay ==
  ASSUME WorkspaceInv, NEW i \in 1 .. Len(tabs), ~Workspace!IsDirty(tabs[i])
  PROVE  Accepted(i)
<1>1. Accounted(tabs[i], tasks, inbox)
  BY DEF WorkspaceInv, AllAccounted
<1>2. tabs[i].sure => tabs[i].onDisk = tabs[i].text \/ tabs[i].saved = tabs[i].onDisk
  BY <1>1 DEF Accounted
<1>3. tabs[i].text = tabs[i].saved \/ (tabs[i].path = Workspace!NoPath /\ tabs[i].text = Blank)
  BY DEF Workspace!IsDirty
<1> QED BY <1>2, <1>3 DEF Workspace!HoldsItsText, Accepted

LEMMA CloseGoes ==
  ASSUME WorkspaceInv, NEW i \in 1 .. Len(tabs), Workspace!Close(i)
  PROVE  GoesOn
<1>1. /\ phase = "running" /\ UNCHANGED <<phase, leaving, known, tmp, file, unsaved, left>>
  BY DEF Workspace!Close, Workspace!User, Workspace!store, Workspace!world
<1>2. \/ UNCHANGED <<tabs, active>>
      \/ Workspace!CloseTab(i) /\ ~Workspace!IsDirty(tabs[i])
  BY DEF Workspace!Close, Workspace!RequestClose
<1>3. CASE UNCHANGED <<tabs, active>>
  BY <1>1, <1>3, SameTabs
<1>4. CASE Workspace!CloseTab(i) /\ ~Workspace!IsDirty(tabs[i])
  BY <1>1, <1>4, CleanMay, ClosingGoes
<1> QED BY <1>2, <1>3, <1>4

LEMMA DiscardGoes == ASSUME WorkspaceInv, Workspace!Discard PROVE GoesOn
<1>1. /\ phase = "running" /\ dialog.kind = "close" /\ dialog' = Workspace!Closed
      /\ UNCHANGED <<phase, leaving, known, tmp, file, unsaved, left>>
      /\ IF dialog.at \in 1 .. Len(tabs)
         THEN Workspace!CloseTab(dialog.at) ELSE UNCHANGED <<tabs, active>>
  BY DEF Workspace!Discard, Workspace!Answering, Workspace!store, Workspace!world
<1>2. CASE dialog.at \in 1 .. Len(tabs)
  <2>1. Accepted(dialog.at)
    BY <1>1, <1>2 DEF Accepted, Workspace!Answered
  <2> QED BY <1>1, <1>2, <2>1, ClosingGoes
<1>3. CASE dialog.at \notin 1 .. Len(tabs)
  BY <1>1, <1>3, SameTabs
<1> QED BY <1>2, <1>3

LEMMA RollBackGoes == ASSUME WorkspaceInv, Workspace!RollBack PROVE GoesOn
<1> DEFINE i == dialog.at
           t == [tabs[i] EXCEPT !.tx = FALSE]
<1>1. /\ phase = "running" /\ i \in 1 .. Len(tabs)
      /\ UNCHANGED <<phase, leaving, known, tmp, file, unsaved, left>>
      /\ \/ tabs' = [tabs EXCEPT ![i] = t]
         \/ ~Workspace!IsDirty(t) /\ Workspace!CloseTab(i)
  BY DEF Workspace!RollBack, Workspace!Answering, Workspace!store, Workspace!world
<1>2. tabs \in Seq(Tabs)
  BY <1>1, WindowFacts
<1>3. tabs[i] \in Tabs
  BY <1>1, <1>2
<1>4. /\ t \in Tabs /\ t.id = tabs[i].id /\ t.pinned = tabs[i].pinned
      /\ t.text = tabs[i].text /\ t.saved = tabs[i].saved /\ t.path = tabs[i].path
  BY <1>3 DEF Tabs
<1>5. ~Workspace!IsDirty(t) => ~Workspace!IsDirty(tabs[i])
  <2> HIDE DEF t
  <2> QED BY <1>4 DEF Workspace!IsDirty
<1> HIDE DEF t, i
<1>6. CASE tabs' = [tabs EXCEPT ![i] = t]
  BY <1>1, <1>4, <1>6, OneChanges
<1>7. CASE ~Workspace!IsDirty(t) /\ Workspace!CloseTab(i)
  BY <1>1, <1>5, <1>7, CleanMay, ClosingGoes
<1> QED BY <1>1, <1>6, <1>7

\* Msg::FileSaved closes a tab only after its save went well.
LEMMA HandleGoes == ASSUME WorkspaceInv, Workspace!Handle PROVE GoesOn
<1> DEFINE m == inbox[1]
<1>1. /\ phase = "running" /\ inbox # <<>> /\ inbox' = Tail(inbox) /\ UNCHANGED <<disk, tasks>>
      /\ UNCHANGED <<phase, leaving, known, tmp, file, unsaved, left>>
      /\ IF Head(inbox).kind = "save"
         THEN Workspace!FileSaved(Head(inbox)) ELSE Workspace!FileOpened(Head(inbox))
  BY DEF Workspace!Handle, Workspace!store, Workspace!world
<1>2. /\ tabs \in Seq(Tabs) /\ active \in 1 .. Len(tabs) /\ WindowType /\ JobType /\ Budget
      /\ AllAccounted(tabs, tasks, inbox)
  BY <1>1, WindowFacts
<1>3. Head(inbox) = m /\ m \in Replies /\ inbox \in Seq(Replies)
  BY <1>1, AnswerTaken
<1>4. CASE m.kind = "save"
  <2>0. Workspace!FileSaved(m)
    BY <1>1, <1>3, <1>4
  <2>1. CASE ~Workspace!Has(tabs, m.tab)
    <3>1. UNCHANGED <<tabs, active>>
      BY <2>0, <2>1 DEF Workspace!FileSaved
    <3> QED BY <1>1, <3>1, SameTabs
  <2>2. CASE Workspace!Has(tabs, m.tab)
    <3> DEFINE i == Workspace!IndexOf(tabs, m.tab)
               u == Workspace!MarkedSaved(tabs[i], m)
               marked == [tabs EXCEPT ![i] = u]
    <3>1. i \in 1 .. Len(tabs) /\ tabs[i].id = m.tab
      BY <2>2, IndexFound
    <3>2. \/ m.ok /\ tabs' = Workspace!ClosedTab(marked, i)
          \/ tabs' = marked
      BY <1>2, <2>0, <2>2, <3>1 DEF Workspace!FileSaved
    <3> HIDE DEF i
    <3>3. tabs[i] \in Tabs /\ Accounted(tabs[i], tasks, inbox)
      BY <1>2, <3>1 DEF AllAccounted
    <3>4. u \in Tabs /\ u.id = tabs[i].id /\ u.pinned = tabs[i].pinned
      BY <1>3, <3>3 DEF Tabs, Replies, Workspace!MarkedSaved
    <3> HIDE DEF u
    <3>5. Alike(tabs, marked) /\ marked \in Seq(Tabs)
      BY <1>1, <3>1, <3>4, TabChanges DEF Alike
    <3>6. CASE tabs' = marked
      BY <1>1, <3>1, <3>4, <3>6, OneChanges
    <3>7. CASE m.ok /\ tabs' = Workspace!ClosedTab(marked, i)
      <4>1. Accepted(i)
        <5>1. CASE tabs[i].sure
          <6>1. tabs[i].onDisk = tabs[i].text
            BY <1>1, <1>3, <3>1, <3>3, <3>7, <5>1, TakenOwn
          <6> QED BY <6>1 DEF Accepted, Workspace!HoldsItsText
        <5>2. CASE ~tabs[i].sure
          BY <5>2 DEF Accepted
        <5> QED BY <5>1, <5>2
      <4> HIDE DEF marked
      <4>2. Gone
        BY <1>1, <3>1, <3>5, <3>7, <4>1 DEF Gone
      <4> QED BY <1>1, <4>2 DEF GoesOn
    <3> QED BY <3>2, <3>6, <3>7
  <2> QED BY <2>1, <2>2
<1>5. CASE m.kind # "save"
  <2> DEFINE With(t) == [t EXCEPT !.path = m.path, !.text = m.text, !.saved = m.text,
                                  !.onDisk = m.text, !.sure = ~Workspace!InFlight(t.id)]
  <2>0. Workspace!FileOpened(m)
    BY <1>1, <1>3, <1>5
  <2>1. \/ tabs' = [tabs EXCEPT ![active] = With(tabs[active])]
        \/ tabs' = Append(tabs, With(Workspace!NewTab(Workspace!UnusedId)))
    BY <1>2, <2>0 DEF Workspace!FileOpened
  <2>2. ASSUME NEW t \in Tabs
        PROVE  With(t) \in Tabs /\ With(t).id = t.id /\ With(t).pinned = t.pinned
    <3>1. (~Workspace!InFlight(t.id)) \in BOOLEAN
      OBVIOUS
    <3>2. m.text \in Texts /\ m.text \in Contents /\ m.path \in Paths
      BY <1>3 DEF Replies, Contents
    <3> QED BY <3>1, <3>2 DEF Tabs
  <2> HIDE DEF With
  <2>3. CASE tabs' = [tabs EXCEPT ![active] = With(tabs[active])]
    <3>1. tabs[active] \in Tabs
      BY <1>2
    <3>2. With(tabs[active]) \in Tabs /\ With(tabs[active]).id = tabs[active].id
          /\ With(tabs[active]).pinned = tabs[active].pinned
      BY <2>2, <3>1
    <3> QED BY <1>1, <1>2, <2>3, <3>2, OneChanges
  <2>4. CASE tabs' = Append(tabs, With(Workspace!NewTab(Workspace!UnusedId)))
    <3>1. Workspace!NewTab(Workspace!UnusedId) \in Tabs
      <4>1. \A id : Flying(id, {}, <<>>) => Workspace!InFlight(id) \/ id = 0
        <5>1. Len(<<>>) = 0
          OBVIOUS
        <5> QED BY <5>1 DEF Flying
      <4> QED BY <1>2, <4>1, FreshTab
    <3>2. ~Workspace!NewTab(Workspace!UnusedId).pinned
      BY DEF Workspace!NewTab
    <3>3. /\ With(Workspace!NewTab(Workspace!UnusedId)) \in Tabs
          /\ ~With(Workspace!NewTab(Workspace!UnusedId)).pinned
      BY <2>2, <3>1, <3>2
    <3>4. Added
      BY <1>1, <2>4, <3>3 DEF Added
    <3> QED BY <1>1, <3>4 DEF GoesOn
  <2> QED BY <2>1, <2>3, <2>4
<1> QED BY <1>4, <1>5

\* A task writes what is on disk, not what is shown.
LEMMA OnDiskGoes ==
  ASSUME WorkspaceInv, phase # "off", active' = active,
         tabs' \in Seq(Tabs), Len(tabs') = Len(tabs),
         \A i \in 1 .. Len(tabs) :
           /\ tabs'[i].id = tabs[i].id /\ tabs'[i].pinned = tabs[i].pinned
           /\ tabs'[i].path = tabs[i].path /\ tabs'[i].text = tabs[i].text,
         UNCHANGED <<phase, leaving, known, tmp, file, unsaved, left>>
  PROVE  GoesOn
<1>2. \A i \in 1 .. Len(tabs) :
        /\ tabs'[i].id = tabs[i].id /\ tabs'[i].pinned = tabs[i].pinned
        /\ tabs'[i].path = tabs[i].path /\ tabs'[i].text = tabs[i].text
  OBVIOUS
<1>3. Alike(tabs, tabs')
  BY <1>2 DEF Alike
<1>4. Workspace!Snapshot' = Workspace!Snapshot
  <2>1. [i \in 1 .. Len(tabs) |->
           [path |-> tabs'[i].path, text |-> tabs'[i].text, pinned |-> tabs'[i].pinned]]
        = [i \in 1 .. Len(tabs) |->
             [path |-> tabs[i].path, text |-> tabs[i].text, pinned |-> tabs[i].pinned]]
    BY <1>2
  <2> QED BY <2>1 DEF Workspace!Snapshot
<1> QED BY <1>3, <1>4 DEF GoesOn, Stays

LEMMA WriteGoes ==
  ASSUME WorkspaceInv, NEW s \in tasks, Workspace!Write(s)
  PROVE  GoesOn
<1>1. /\ phase # "off" /\ s.at = "writing" /\ active' = active
      /\ UNCHANGED <<phase, leaving, known, tmp, file, unsaved, left>>
  BY DEF Workspace!Write, Workspace!store, Workspace!world
<1>2. tabs \in Seq(Tabs) /\ s.text \in Contents
  BY <1>1, WindowFacts DEF JobType, Jobs, Contents
<1> DEFINE Sure(t) == t.sure \/ (t.text = s.text /\ ~Workspace!OtherSave(s))
           now(i) == IF tabs[i].id = s.tab
                     THEN [tabs[i] EXCEPT !.onDisk = s.text, !.sure = Sure(tabs[i])] ELSE tabs[i]
<1>3. tabs' = [i \in 1 .. Len(tabs) |-> now(i)]
  BY DEF Workspace!Write, Workspace!OnDisk
<1>4. \A i \in 1 .. Len(tabs) :
        /\ now(i) \in Tabs /\ now(i).id = tabs[i].id /\ now(i).pinned = tabs[i].pinned
        /\ now(i).path = tabs[i].path /\ now(i).text = tabs[i].text
  <2> TAKE i \in 1 .. Len(tabs)
  <2>1. tabs[i] \in Tabs
    BY <1>2
  <2>2. Sure(tabs[i]) \in BOOLEAN
    BY <2>1 DEF Tabs
  <2> HIDE DEF Sure
  <2> QED BY <1>2, <2>1, <2>2 DEF Tabs
<1> HIDE DEF now
<1>5. tabs' \in Seq(Tabs) /\ Len(tabs') = Len(tabs)
      /\ \A i \in 1 .. Len(tabs) : tabs'[i] = now(i)
  BY <1>2, <1>3, <1>4
<1> QED BY <1>1, <1>4, <1>5, OnDiskGoes

LEMMA FailWriteGoes ==
  ASSUME WorkspaceInv, NEW s \in tasks, Workspace!FailWrite(s)
  PROVE  GoesOn
<1>1. /\ phase # "off" /\ active' = active
      /\ UNCHANGED <<phase, leaving, known, tmp, file, unsaved, left>>
  BY DEF Workspace!FailWrite, Workspace!store
<1>2. tabs \in Seq(Tabs)
  BY <1>1, WindowFacts
<1>3. CASE s.at # "writing"
  <2>1. tabs' = tabs
    BY <1>3 DEF Workspace!FailWrite
  <2> QED BY <1>1, <2>1, SameTabs
<1>4. CASE s.at = "writing"
  <2> DEFINE now(i) == IF tabs[i].id = s.tab
                       THEN [tabs[i] EXCEPT !.onDisk = Workspace!Torn, !.sure = FALSE] ELSE tabs[i]
  <2>1. tabs' = [i \in 1 .. Len(tabs) |-> now(i)]
    BY <1>4 DEF Workspace!FailWrite, Workspace!OnDisk
  <2>2. \A i \in 1 .. Len(tabs) :
          /\ now(i) \in Tabs /\ now(i).id = tabs[i].id /\ now(i).pinned = tabs[i].pinned
          /\ now(i).path = tabs[i].path /\ now(i).text = tabs[i].text
    <3> TAKE i \in 1 .. Len(tabs)
    <3>1. tabs[i] \in Tabs
      BY <1>2
    <3> QED BY <3>1 DEF Tabs, Contents
  <2> HIDE DEF now
  <2>3. tabs' \in Seq(Tabs) /\ Len(tabs') = Len(tabs)
        /\ \A i \in 1 .. Len(tabs) : tabs'[i] = now(i)
    BY <1>2, <2>1, <2>2
  <2> QED BY <1>1, <2>2, <2>3, OnDiskGoes
<1> QED BY <1>3, <1>4

\* Every action goes on, or is one of the workspace's file or of the process.
LEMMA StepGoes ==
  ASSUME WorkspaceInv, [Workspace!Next]_(Workspace!vars)
  PROVE  \/ GoesOn \/ UNCHANGED Workspace!vars
         \/ \E exit \in BOOLEAN : Workspace!Autosave(exit)
         \/ Workspace!Written \/ Workspace!Renamed \/ Workspace!NotSaved
         \/ Workspace!Exit \/ Workspace!Crash \/ Workspace!Panic \/ Workspace!Start
<1>1. ASSUME NEW x \in Texts, Workspace!Type(x) PROVE GoesOn
  BY <1>1, TypeGoes
<1>2. ASSUME NEW i \in 1 .. Len(tabs), Workspace!Select(i) PROVE GoesOn
  <2>1. /\ phase = "running" /\ UNCHANGED tabs
        /\ UNCHANGED <<phase, leaving, known, tmp, file, unsaved, left>>
    BY <1>2 DEF Workspace!Select, Workspace!User, Workspace!store, Workspace!world
  <2>2. Alike(tabs, tabs')
    BY <2>1, WindowFacts, AlikeSelf
  <2> QED BY <2>1, <2>2 DEF GoesOn, Stays
<1>3. ASSUME NEW i \in 1 .. Len(tabs), Workspace!Transaction(i) PROVE GoesOn
  BY <1>3, TransactionGoes
<1>4. ASSUME NEW i \in 1 .. Len(tabs), Workspace!Pin(i) PROVE GoesOn
  BY <1>4, PinGoes
<1>5. ASSUME NEW i \in 1 .. Len(tabs), Workspace!Close(i) PROVE GoesOn
  BY <1>5, CloseGoes
<1>6. CASE Workspace!OpenTab
  BY <1>6, OpenTabGoes
<1>7. ASSUME Workspace!Cancel \/ Workspace!Quit PROVE GoesOn
  <2>1. /\ phase = "running" /\ UNCHANGED <<tabs, active>>
        /\ UNCHANGED <<phase, leaving, known, tmp, file, unsaved, left>>
    BY <1>7 DEF Workspace!Cancel, Workspace!Quit, Workspace!Answering, Workspace!store,
                Workspace!world
  <2> QED BY <2>1, SameTabs
<1>8. CASE Workspace!Discard
  BY <1>8, DiscardGoes
<1>9. CASE Workspace!RollBack
  BY <1>9, RollBackGoes
<1>10. CASE Workspace!SaveAndClose
  <2>1. /\ phase = "running" /\ dialog.at \in 1 .. Len(tabs)
        /\ Workspace!Saving(dialog.at, tabs[dialog.at].path, TRUE)
        /\ UNCHANGED <<phase, leaving, known, tmp, file, unsaved, left>>
    BY <1>10 DEF Workspace!SaveAndClose, Workspace!Answering, Workspace!store, Workspace!world
  <2> QED BY <2>1, SavingGoes
<1>11. ASSUME NEW b \in BOOLEAN, Workspace!Save(b) PROVE GoesOn
  <2>1. /\ phase = "running"
        /\ Workspace!Saving(active, IF b THEN Workspace!NoPath ELSE tabs[active].path, FALSE)
        /\ UNCHANGED <<phase, leaving, known, tmp, file, unsaved, left>>
    BY <1>11 DEF Workspace!Save, Workspace!User, Workspace!store, Workspace!world
  <2>2. active \in 1 .. Len(tabs)
    BY <2>1, WindowFacts
  <2> QED BY <2>1, <2>2, SavingGoes
<1>12. ASSUME NEW p \in Paths, Workspace!OpenFile(p) PROVE GoesOn
  <2>1. /\ phase = "running" /\ UNCHANGED <<tabs, active>>
        /\ UNCHANGED <<phase, leaving, known, tmp, file, unsaved, left>>
    BY <1>12 DEF Workspace!OpenFile, Workspace!User, Workspace!app, Workspace!store,
                 Workspace!world
  <2> QED BY <2>1, SameTabs
<1>13. ASSUME NEW s \in tasks,
              Workspace!PickPath(s) \/ Workspace!ReadFile(s) \/ Workspace!Truncate(s)
       PROVE  GoesOn
  <2>1. /\ phase # "off" /\ UNCHANGED <<tabs, active>>
        /\ UNCHANGED <<phase, leaving, known, tmp, file, unsaved, left>>
    BY <1>13 DEF Workspace!PickPath, Workspace!ReadFile, Workspace!Truncate, Workspace!app,
                 Workspace!store, Workspace!world
  <2> QED BY <2>1, SameTabs
<1>14. ASSUME NEW s \in tasks, Workspace!Write(s) PROVE GoesOn
  BY <1>14, WriteGoes
<1>15. ASSUME NEW s \in tasks, Workspace!FailWrite(s) PROVE GoesOn
  BY <1>15, FailWriteGoes
<1>16. CASE Workspace!Handle
  BY <1>16, HandleGoes
<1>17. Workspace!ExitSaving => Workspace!Autosave(TRUE)
  BY DEF Workspace!ExitSaving
<1> QED
  BY <1>1, <1>2, <1>3, <1>4, <1>5, <1>6, <1>7, <1>8, <1>9, <1>10, <1>11, <1>12, <1>13, <1>14,
     <1>15, <1>16, <1>17
  DEF Workspace!Next

-----------------------------------------------------------------------------
\* Only a tab that closes goes, of a program that runs on.
LEMMA GoingIsAccepted ==
  ASSUME WorkspaceInv, GoesOn, NEW i \in 1 .. Len(tabs), Workspace!Goes(tabs[i])
  PROVE  Accepted(i)
<1>0. /\ phase # "off" /\ ~Workspace!Has(tabs', tabs[i].id)
      /\ Stays \/ Added \/ PinMoved \/ Gone
  BY DEF GoesOn, Workspace!Goes
<1>1. /\ tabs \in Seq(Tabs) /\ WindowType /\ JobType /\ Budget /\ Distinct(tabs)
      /\ AllAccounted(tabs, tasks, inbox) /\ Len(tabs) <= MaxTabs
  BY <1>0, WindowFacts
<1>2. ~Stays
  BY <1>0 DEF Stays, Alike, Workspace!Has
<1>3. ~Added
  <2> SUFFICES ASSUME NEW u \in Tabs, tabs' = Append(tabs, u) PROVE FALSE
    BY DEF Added
  <2>1. i \in 1 .. Len(tabs') /\ tabs'[i] = tabs[i]
    BY <1>1
  <2> QED BY <1>0, <2>1 DEF Workspace!Has
<1>4. ~PinMoved
  <2> SUFFICES ASSUME NEW j \in 1 .. Len(tabs), tabs' = Workspace!Pinned(tabs, j) PROVE FALSE
    BY DEF PinMoved
  <2> DEFINE at == Cardinality(PinnedOthers(tabs, j))
  <2>1. tabs' = Repinned(tabs, j, at) /\ at \in 0 .. Len(tabs) - 1
    BY <1>1, PinnedIs
  <2> HIDE DEF at
  <2>2. Len(tabs') = Len(tabs) /\ Moved(tabs', tabs, j, at)
    BY <1>1, <2>1, RepinnedKeeps
  <2> DEFINE t == [tabs[j] EXCEPT !.pinned = ~@]
  <2>3. t.id = tabs[j].id
    <3>1. tabs[j] \in Tabs
      BY <1>1
    <3> QED BY <3>1 DEF Tabs
  <2> HIDE DEF t
  <2>4. PICK f \in [1 .. Len(tabs) -> 1 .. Len(tabs)] :
             /\ \A l \in 1 .. Len(tabs) : \E k \in 1 .. Len(tabs) : f[k] = l
             /\ f = [k \in 1 .. Len(tabs) |->
                       IF k = at + 1 THEN j
                       ELSE IF k <= at THEN (IF k < j THEN k ELSE k + 1)
                       ELSE (IF k - 1 < j THEN k - 1 ELSE k)]
             /\ \A k \in 1 .. Len(tabs) : tabs'[k] = IF k = at + 1 THEN t ELSE tabs[f[k]]
    BY <2>2 DEF Moved, t
  <2>5. PICK k \in 1 .. Len(tabs) : f[k] = i
    BY <2>4
  <2>6. tabs'[k].id = tabs[i].id
    BY <2>3, <2>4, <2>5
  <2> QED BY <1>0, <2>2, <2>6 DEF Workspace!Has
<1>5. CASE Gone
  <2>1. PICK s \in Seq(Tabs), j \in 1 .. Len(tabs) :
               Alike(tabs, s) /\ tabs' = Workspace!ClosedTab(s, j) /\ Accepted(j)
    BY <1>5 DEF Gone
  <2>2. /\ Len(s) = Len(tabs) /\ j \in 1 .. Len(s)
        /\ \A k \in 1 .. Len(tabs) : s[k].id = tabs[k].id
    BY <2>1 DEF Alike
  <2>3. ASSUME j # i PROVE FALSE
    <3>1. CASE Len(s) = 1
      BY <2>2, <2>3, <3>1
    <3>2. CASE Len(s) # 1
      <4>1. tabs' = Workspace!RemoveAt(s, j)
        BY <2>1, <3>2 DEF Workspace!ClosedTab
      <4>2. /\ Len(tabs') = Len(s) - 1
            /\ \A k \in 1 .. Len(s) - 1 : tabs'[k] = IF k < j THEN s[k] ELSE s[k + 1]
        BY <2>2, <4>1, RemoveAtKeeps
      <4>3. CASE i < j
        <5>1. i \in 1 .. Len(s) - 1 /\ tabs'[i] = s[i]
          BY <2>2, <4>2, <4>3
        <5> QED BY <1>0, <2>2, <4>2, <5>1 DEF Workspace!Has
      <4>4. CASE ~(i < j)
        <5>1. i - 1 \in 1 .. Len(s) - 1 /\ ~(i - 1 < j) /\ (i - 1) + 1 = i
          BY <2>2, <2>3, <4>4
        <5>2. tabs'[i - 1] = s[i]
          BY <4>2, <5>1
        <5> QED BY <1>0, <2>2, <4>2, <5>1, <5>2 DEF Workspace!Has
      <4> QED BY <4>3, <4>4
    <3> QED BY <3>1, <3>2
  <2> QED BY <2>1, <2>3
<1> QED BY <1>0, <1>2, <1>3, <1>4, <1>5

\* No tab goes with a text that is not in its file, unless the user discarded it,
\* or was not told, or the dialog's index had moved to another tab
\* (request_close_tab, save_and_close_tab).
THEOREM CloseLosesHolds == Workspace!Spec => CloseLosesNothing
<1> DEFINE Kept == \A i \in 1 .. Len(tabs) :
             LET t == tabs[i]
             IN Workspace!Goes(t) =>
                  \/ Workspace!HoldsItsText(t) \/ ~t.sure
                  \/ Workspace!Answered /\ (dialog.asked = t.id \/ dialog.at = i)
<1>1. WorkspaceInv /\ [Workspace!Next]_(Workspace!vars) => [Kept]_(Workspace!vars)
  <2> SUFFICES ASSUME WorkspaceInv, [Workspace!Next]_(Workspace!vars), ~UNCHANGED Workspace!vars,
                      NEW i \in 1 .. Len(tabs), Workspace!Goes(tabs[i])
               PROVE  Accepted(i)
    BY DEF Accepted
  <2>0. phase' # "off" /\ ~Workspace!Has(tabs', tabs[i].id)
    BY DEF Workspace!Goes
  <2>1. CASE GoesOn
    BY <2>1, GoingIsAccepted
  <2>2. ASSUME tabs' = tabs PROVE FALSE
    BY <2>0, <2>2 DEF Workspace!Has
  <2>3. ASSUME NEW exit \in BOOLEAN, Workspace!Autosave(exit) PROVE tabs' = tabs
    BY <2>3 DEF Workspace!Autosave, Workspace!app
  <2>4. ASSUME Workspace!Written PROVE tabs' = tabs
    BY <2>4 DEF Workspace!Written, Workspace!app
  <2>5. ASSUME Workspace!Renamed PROVE tabs' = tabs
    BY <2>0, <2>5 DEF Workspace!Renamed, Workspace!Off, Workspace!End, Workspace!app
  <2>6. ASSUME Workspace!NotSaved PROVE tabs' = tabs
    BY <2>0, <2>6 DEF Workspace!NotSaved, Workspace!Off, Workspace!End, Workspace!app
  <2>7. ~Workspace!Exit /\ ~Workspace!Crash /\ ~Workspace!Panic
    BY <2>0 DEF Workspace!Exit, Workspace!Crash, Workspace!Panic, Workspace!Off, Workspace!End
  <2>8. ~Workspace!Start
    <3>1. phase = "off" => Len(tabs) = 0
      BY DEF WorkspaceInv, WindowType
    <3> QED BY <3>1 DEF Workspace!Start
  <2> QED BY <2>1, <2>2, <2>3, <2>4, <2>5, <2>6, <2>7, <2>8, StepGoes
<1> QED BY <1>1, WorkspaceInvHolds, PTL
        DEF Workspace!Spec, CloseLosesNothing, Workspace!CloseLosesNothing

-----------------------------------------------------------------------------
\* Numbers with all that are less are those up to their count.
LEMMA UpToCount ==
  ASSUME NEW n \in Nat, NEW S \in SUBSET (1 .. n),
         \A k \in S : \A j \in 1 .. n : j < k => j \in S
  PROVE  S = 1 .. Cardinality(S)
<1>1. IsFiniteSet(1 .. n) /\ Cardinality(1 .. n) = n
  BY UpTo
<1>2. IsFiniteSet(S)
  BY <1>1, FS_Subset
<1> PICK c \in Nat : c = Cardinality(S)
  BY <1>2, FS_CardinalityType
<1>3. IsFiniteSet(1 .. c) /\ Cardinality(1 .. c) = c
  BY UpTo
<1>4. S \subseteq 1 .. c
  <2> SUFFICES ASSUME NEW k \in S PROVE k \in 1 .. c
    OBVIOUS
  <2>1. k \in 1 .. n /\ k \in Nat
    OBVIOUS
  <2>2. 1 .. k \subseteq S
    <3> SUFFICES ASSUME NEW j \in 1 .. k PROVE j \in S
      OBVIOUS
    <3>1. j \in 1 .. n /\ (j < k \/ j = k)
      BY <2>1
    <3> QED BY <3>1
  <2>3. Cardinality(1 .. k) = k
    BY <2>1, UpTo
  <2>4. Cardinality(1 .. k) <= Cardinality(S)
    BY <1>2, <2>2, FS_Subset
  <2> QED BY <2>1, <2>3, <2>4
<1>5. S = 1 .. c
  BY <1>3, <1>4, FS_Subset
<1> QED BY <1>5

\* set_pinned moves a tab to the end of the pinned ones, or behind it.
LEMMA RepinnedHead ==
  ASSUME NEW s \in Seq(Tabs), PinnedHead(s), NEW i \in 1 .. Len(s)
  PROVE  PinnedHead(Workspace!Pinned(s, i))
<1> DEFINE others == Workspace!RemoveAt(s, i)
           at == Cardinality(PinnedOthers(s, i))
           t == [s[i] EXCEPT !.pinned = ~@]
           p == Workspace!Pinned(s, i)
<1> PICK n \in Nat : n = Len(s)
  OBVIOUS
<1>1. /\ others \in Seq(Tabs) /\ Len(others) = n - 1
      /\ \A k \in 1 .. n - 1 : others[k] = IF k < i THEN s[k] ELSE s[k + 1]
  BY RemoveAtKeeps
<1>2. p = Repinned(s, i, at) /\ at \in 0 .. n - 1
  BY PinnedIs
<1>t. t \in Tabs
  <2>1. s[i] \in Tabs
    OBVIOUS
  <2> QED BY <2>1 DEF Tabs
<1>3. PinnedHead(others)
  <2> SUFFICES ASSUME NEW a \in 1 .. n - 1, NEW b \in 1 .. n - 1, a < b, others[b].pinned
               PROVE  others[a].pinned
    BY <1>1 DEF PinnedHead
  <2> DEFINE from(k) == IF k < i THEN k ELSE k + 1
  <2>1. others[a] = s[from(a)] /\ others[b] = s[from(b)]
    BY <1>1
  <2>2. from(a) \in 1 .. Len(s) /\ from(b) \in 1 .. Len(s) /\ from(a) < from(b)
    OBVIOUS
  <2> HIDE DEF from, others
  <2> QED BY <2>1, <2>2 DEF PinnedHead
<1> DEFINE S == {j \in 1 .. n - 1 : others[j].pinned}
<1>4. PinnedOthers(s, i) = S
  BY <1>1 DEF PinnedOthers
<1> HIDE DEF others
<1>5. n - 1 \in Nat /\ S \in SUBSET (1 .. n - 1)
  OBVIOUS
<1>6. \A k \in S : \A j \in 1 .. n - 1 : j < k => j \in S
  BY <1>1, <1>3 DEF PinnedHead
<1>7. S = 1 .. at
  <2> HIDE DEF S
  <2>1. S = 1 .. Cardinality(S)
    BY <1>5, <1>6, UpToCount
  <2> QED BY <1>4, <2>1
<1> HIDE DEF at, t, p
<1>8. \A k \in 1 .. n - 1 : others[k].pinned <=> k <= at
  BY <1>2, <1>7
<1> HIDE DEF S
<1>9. /\ Len(p) = n
      /\ \A k \in 1 .. n : p[k] = IF k < at + 1 THEN others[k]
                                  ELSE IF k = at + 1 THEN t ELSE others[k - 1]
  <2>1. p = Workspace!InsertAt(others, at + 1, t)
    BY <1>2 DEF Repinned, others, t
  <2>2. at + 1 \in 1 .. Len(others) + 1
    BY <1>1, <1>2
  <2>3. /\ Len(p) = Len(others) + 1
        /\ \A k \in 1 .. Len(others) + 1 :
             p[k] = IF k < at + 1 THEN others[k] ELSE IF k = at + 1 THEN t ELSE others[k - 1]
    <3>1. others \in Seq(Tabs)
      BY <1>1
    <3>2. t \in Tabs
      BY <1>t
    <3> DEFINE x == at + 1
    <3>3. x \in 1 .. Len(others) + 1
      BY <2>2
    <3> HIDE DEF x
    <3>4. InsertedIs(Tabs, Workspace!InsertAt(others, x, t), others, x, t)
      BY <3>1, <3>2, <3>3, Inserted
    <3>5. InsertedIs(Tabs, p, others, at + 1, t)
      BY <2>1, <3>4 DEF x
    <3> QED BY <3>5 DEF InsertedIs
  <2>4. Len(others) + 1 = n
    BY <1>1
  <2> QED BY <2>3, <2>4
<1>10. PinnedHead(p)
  <2> SUFFICES ASSUME NEW a \in 1 .. n, NEW b \in 1 .. n, a < b, p[b].pinned
               PROVE  p[a].pinned
    BY <1>9 DEF PinnedHead
  <2>1. b <= at + 1
    <3> SUFFICES ASSUME ~(b <= at + 1) PROVE FALSE
      OBVIOUS
    <3>1. b - 1 \in 1 .. n - 1 /\ ~(b - 1 <= at) /\ ~(b < at + 1) /\ b # at + 1
      BY <1>2
    <3>2. p[b] = others[b - 1]
      BY <1>9, <3>1
    <3> QED BY <1>8, <3>1, <3>2
  <2>2. a \in 1 .. n - 1 /\ a <= at /\ a < at + 1
    BY <1>2, <2>1
  <2>3. p[a] = others[a]
    BY <1>9, <2>2
  <2> QED BY <1>8, <2>2, <2>3
<1> QED BY <1>10 DEF p

\* Pinned tabs stay first, whichever comes, goes or is moved.
LEMMA GoesOnHead ==
  ASSUME WorkspaceInv, PinnedHead(tabs), GoesOn
  PROVE  PinnedHead(tabs')
<1>0. phase # "off" /\ (Stays \/ Added \/ PinMoved \/ Gone)
  BY DEF GoesOn
<1>1. tabs \in Seq(Tabs) /\ Len(tabs) \in Nat
  BY <1>0, WindowFacts
<1>2. CASE Stays
  BY <1>2 DEF Stays, Alike, PinnedHead
<1>3. CASE Added
  <2>1. PICK u \in Tabs : ~u.pinned /\ tabs' = Append(tabs, u)
    BY <1>3 DEF Added
  <2>2. /\ Len(tabs') = Len(tabs) + 1 /\ tabs'[Len(tabs) + 1] = u
        /\ \A k \in 1 .. Len(tabs) : tabs'[k] = tabs[k]
    BY <1>1, <2>1
  <2> SUFFICES ASSUME NEW a \in 1 .. Len(tabs) + 1, NEW b \in 1 .. Len(tabs) + 1, a < b,
                      tabs'[b].pinned
               PROVE  tabs'[a].pinned
    BY <2>2 DEF PinnedHead
  <2>3. b # Len(tabs) + 1
    BY <2>1, <2>2
  <2>4. a \in 1 .. Len(tabs) /\ b \in 1 .. Len(tabs)
    BY <1>1, <2>3
  <2>5. tabs[b].pinned
    BY <2>2, <2>4
  <2> QED BY <2>2, <2>4, <2>5 DEF PinnedHead
<1>4. CASE PinMoved
  BY <1>1, <1>4, RepinnedHead DEF PinMoved
<1>5. CASE Gone
  <2>1. PICK s \in Seq(Tabs), j \in 1 .. Len(tabs) :
               Alike(tabs, s) /\ tabs' = Workspace!ClosedTab(s, j)
    BY <1>5 DEF Gone
  <2>2. Len(s) = Len(tabs) /\ j \in 1 .. Len(s) /\ PinnedHead(s)
    BY <2>1 DEF Alike, PinnedHead
  <2>3. CASE Len(s) = 1
    <3>1. tabs' = <<Workspace!NewTab(Workspace!UnusedId)>>
      BY <2>1, <2>3 DEF Workspace!ClosedTab
    <3>2. Len(tabs') = 1
      BY <3>1
    <3> QED BY <3>2 DEF PinnedHead
  <2>4. CASE Len(s) # 1
    <3>1. tabs' = Workspace!RemoveAt(s, j)
      BY <2>1, <2>4 DEF Workspace!ClosedTab
    <3>2. /\ Len(tabs') = Len(s) - 1
          /\ \A k \in 1 .. Len(s) - 1 : tabs'[k] = IF k < j THEN s[k] ELSE s[k + 1]
      BY <2>2, <3>1, RemoveAtKeeps
    <3> SUFFICES ASSUME NEW a \in 1 .. Len(s) - 1, NEW b \in 1 .. Len(s) - 1, a < b,
                        tabs'[b].pinned
                 PROVE  tabs'[a].pinned
      BY <3>2 DEF PinnedHead
    <3> DEFINE from(k) == IF k < j THEN k ELSE k + 1
    <3>3. tabs'[a] = s[from(a)] /\ tabs'[b] = s[from(b)]
      BY <3>2
    <3>4. from(a) \in 1 .. Len(s) /\ from(b) \in 1 .. Len(s) /\ from(a) < from(b)
      BY <1>1, <2>2
    <3> HIDE DEF from
    <3> QED BY <2>2, <3>3, <3>4 DEF PinnedHead
  <2> QED BY <2>3, <2>4
<1> QED BY <1>0, <1>2, <1>3, <1>4, <1>5

\* What the actions of a program that runs leave of what is stored.
LEMMA GoesOnRestart == ASSUME WorkspaceInv, RestartInv, GoesOn PROVE RestartInv'
<1>1. /\ phase # "off" /\ UNCHANGED <<phase, leaving, known, tmp, file, unsaved, left>>
      /\ Stays \/ Added \/ PinMoved \/ Gone
  BY DEF GoesOn
<1>2. PinnedHead(tabs')
  BY <1>1, GoesOnHead DEF RestartInv
<1>3. phase = "renaming" => Workspace!Snapshot' = Workspace!Snapshot
  BY <1>1 DEF Stays, Added, PinMoved, Gone
<1> QED BY <1>1, <1>2, <1>3 DEF RestartInv

\* What is shown is stored with the same pins.
LEMMA SnapshotHead ==
  ASSUME WorkspaceInv, phase # "off", PinnedHead(tabs)
  PROVE  PinnedHead(Workspace!Snapshot.tabs)
<1> DEFINE shown == [i \in 1 .. Len(tabs) |->
                       [path |-> tabs[i].path, text |-> tabs[i].text, pinned |-> tabs[i].pinned]]
<1>1. Workspace!Snapshot.tabs = shown
  BY DEF Workspace!Snapshot
<1>2. Len(tabs) \in Nat
  BY WindowFacts
<1>3. Len(shown) = Len(tabs) /\ \A i \in 1 .. Len(tabs) : shown[i].pinned = tabs[i].pinned
  BY <1>2
<1> HIDE DEF shown
<1>4. PinnedHead(shown)
  BY <1>3 DEF PinnedHead
<1> QED BY <1>1, <1>4

\* A save of the workspace that is over, and the exit that waited for it.
LEMMA SavedRestart ==
  ASSUME WorkspaceInv, RestartInv, phase # "off",
         known' = Workspace!Snapshot,
         unsaved' = "no" => file' = Workspace!Snapshot,
         IF leaving
         THEN Workspace!Off /\ left' = Workspace!Snapshot
         ELSE phase' = "running" /\ UNCHANGED <<leaving, Workspace!app, Workspace!work, left>>
  PROVE  RestartInv'
<1>1. CASE leaving
  <2>1. phase' = "off" /\ left' = Workspace!Snapshot
    BY <1>1 DEF Workspace!Off, Workspace!End
  <2>2. PinnedHead(left'.tabs)
    BY <2>1, SnapshotHead DEF RestartInv
  <2> QED BY <2>1, <2>2 DEF RestartInv
<1>2. CASE ~leaving
  <2>1. phase' = "running" /\ UNCHANGED <<tabs, left>>
    BY <1>2 DEF Workspace!app
  <2>2. PinnedHead(tabs') /\ PinnedHead(left'.tabs)
    BY <2>1 DEF RestartInv
  <2> QED BY <2>1, <2>2 DEF RestartInv
<1> QED BY <1>1, <1>2

\* The start shows the pinned tabs first; after an exit that stored what was
\* shown, the same as then.
LEMMA StartRestart ==
  ASSUME WorkspaceInv, RestartInv, Workspace!Start
  PROVE  /\ RestartInv'
         /\ left # Workspace!NoWorkspace /\ unsaved = "no" => Workspace!Snapshot' = left
<1>1. /\ phase = "off" /\ phase' = "running" /\ UNCHANGED <<tmp, file, unsaved, left>>
  BY DEF Workspace!Start, Workspace!world
<1>2. CASE file.tabs = <<>>
  <2>1. tabs' = <<Workspace!NewTab(1)>> /\ known' = Workspace!NoWorkspace
    BY <1>2 DEF Workspace!Start
  <2>2. Len(tabs') = 1
    BY <2>1
  <2>3. PinnedHead(tabs')
    BY <2>2 DEF PinnedHead
  <2>4. RestartInv'
    BY <1>1, <1>2, <2>1, <2>3 DEF RestartInv
  <2>5. left # Workspace!NoWorkspace => left.tabs # <<>>
    <3>1. left \in Snapshots
      BY StoreFacts
    <3>2. left = [tabs |-> left.tabs, active |-> left.active]
      BY <3>1 DEF Snapshots
    <3>3. left.tabs = <<>> => left.active = 0
      BY <3>1 DEF Snapshots
    <3> QED BY <3>2, <3>3 DEF Workspace!NoWorkspace
  <2> QED BY <1>1, <1>2, <2>4, <2>5 DEF RestartInv
<1>3. CASE file.tabs # <<>>
  <2> DEFINE r == Workspace!PinnedFirst(RestoredTabs(file), file.active)
  <2>1. tabs' = r.tabs /\ active' = r.active /\ known' = file
    BY <1>3 DEF Workspace!Start, RestoredTabs
  <2>2. file \in Snapshots
    BY <1>3, FileOf
  <2>3. /\ r.tabs \in Seq(Tabs) /\ Len(r.tabs) = Len(file.tabs) /\ PinnedHead(r.tabs)
        /\ PinnedHead(file.tabs) =>
             /\ r.active = file.active
             /\ \A k \in 1 .. Len(r.tabs) :
                  /\ r.tabs[k].path = file.tabs[k].path /\ r.tabs[k].text = file.tabs[k].text
                  /\ r.tabs[k].pinned = file.tabs[k].pinned
    BY <1>3, <2>2, Restoring
  <2> HIDE DEF r
  <2>4. RestartInv'
    BY <1>1, <2>1, <2>3 DEF RestartInv
  <2>5. ASSUME left # Workspace!NoWorkspace, unsaved = "no"
        PROVE  Workspace!Snapshot' = left
    <3>1. file = left /\ PinnedHead(file.tabs)
      BY <1>1, <2>5 DEF RestartInv
    <3> PICK n \in Nat : n = Len(file.tabs)
      BY <2>2 DEF Snapshots
    <3>2. /\ file.tabs \in Seq(StoredTab) /\ file = [tabs |-> file.tabs, active |-> file.active]
      BY <2>2 DEF Snapshots
    <3>3. Len(tabs') = n /\ active' = file.active
      BY <2>1, <2>3, <3>1
    <3>4. ASSUME NEW k \in 1 .. n
          PROVE  [path |-> tabs'[k].path, text |-> tabs'[k].text, pinned |-> tabs'[k].pinned]
                   = file.tabs[k]
      <4>1. /\ tabs'[k].path = file.tabs[k].path /\ tabs'[k].text = file.tabs[k].text
            /\ tabs'[k].pinned = file.tabs[k].pinned
        BY <2>1, <2>3, <3>1
      <4>2. file.tabs[k] \in StoredTab
        BY <3>2
      <4> QED BY <4>1, <4>2 DEF StoredTab
    <3>5. [k \in 1 .. n |->
             [path |-> tabs'[k].path, text |-> tabs'[k].text, pinned |-> tabs'[k].pinned]]
          = file.tabs
      <4>1. file.tabs = [k \in 1 .. n |-> file.tabs[k]]
        BY <3>2
      <4> QED BY <3>4, <4>1
    <3>6. Workspace!Snapshot' = [tabs |-> file.tabs, active |-> file.active]
      BY <3>3, <3>5 DEF Workspace!Snapshot
    <3> QED BY <3>1, <3>2, <3>6
  <2> QED BY <2>4, <2>5
<1> QED BY <1>2, <1>3

LEMMA StepRestart ==
  WorkspaceInv /\ RestartInv /\ [Workspace!Next]_(Workspace!vars) => RestartInv'
<1> SUFFICES ASSUME WorkspaceInv, RestartInv, [Workspace!Next]_(Workspace!vars) PROVE RestartInv'
  OBVIOUS
<1>1. CASE GoesOn
  BY <1>1, GoesOnRestart
<1>2. CASE UNCHANGED Workspace!vars
  <2>1. UNCHANGED <<tabs, active, phase, known, tmp, file, unsaved, left>>
    BY <1>2 DEF Workspace!vars, Workspace!app, Workspace!store, Workspace!world
  <2> QED BY <2>1 DEF RestartInv, Workspace!Snapshot
<1>3. ASSUME NEW exit \in BOOLEAN, Workspace!Autosave(exit) PROVE RestartInv'
  <2>1. phase = "running" /\ phase' = "writing" /\ UNCHANGED <<tabs, known, file, unsaved, left>>
    BY <1>3 DEF Workspace!Autosave, Workspace!WriteFirst, Workspace!app, Workspace!world
  <2> QED BY <2>1 DEF RestartInv
<1>4. CASE Workspace!Written
  <2>1. /\ phase = "writing" /\ phase' = "renaming" /\ tmp' = Workspace!Snapshot
        /\ UNCHANGED <<tabs, active, known, file, unsaved, left>>
    BY <1>4 DEF Workspace!Written, Workspace!app, Workspace!world
  <2>2. Workspace!Snapshot' = Workspace!Snapshot
    BY <2>1 DEF Workspace!Snapshot
  <2> QED BY <2>1, <2>2 DEF RestartInv
<1>5. CASE Workspace!Renamed
  <2>1. /\ phase # "off" /\ known' = Workspace!Snapshot /\ file' = Workspace!Snapshot
    BY <1>5 DEF Workspace!Renamed, RestartInv
  <2>2. IF leaving
        THEN Workspace!Off /\ left' = Workspace!Snapshot
        ELSE phase' = "running" /\ UNCHANGED <<leaving, Workspace!app, Workspace!work, left>>
    BY <1>5 DEF Workspace!Renamed
  <2> QED BY <2>1, <2>2, SavedRestart
<1>6. CASE Workspace!NotSaved
  <2>1. phase # "off" /\ known' = Workspace!Snapshot /\ unsaved' # "no"
    BY <1>6 DEF Workspace!NotSaved
  <2>2. IF leaving
        THEN Workspace!Off /\ left' = Workspace!Snapshot
        ELSE phase' = "running" /\ UNCHANGED <<leaving, Workspace!app, Workspace!work, left>>
    BY <1>6 DEF Workspace!NotSaved
  <2> QED BY <2>1, <2>2, SavedRestart
<1>7. CASE Workspace!Exit
  <2>1. /\ phase = "running" /\ known = Workspace!Snapshot /\ phase' = "off"
        /\ left' = Workspace!Snapshot /\ UNCHANGED <<file, unsaved>>
    BY <1>7 DEF Workspace!Exit, Workspace!Off, Workspace!End
  <2>2. PinnedHead(left'.tabs) /\ Workspace!Snapshot # Workspace!NoWorkspace
    BY <2>1, SnapshotHead, SnapshotType DEF RestartInv
  <2>3. unsaved = "no" => file = Workspace!Snapshot
    BY <2>1, <2>2 DEF RestartInv
  <2> QED BY <2>1, <2>2, <2>3 DEF RestartInv
<1>8. ASSUME Workspace!Crash \/ Workspace!Panic PROVE RestartInv'
  <2>1. phase' = "off" /\ left' = Workspace!NoWorkspace
    BY <1>8 DEF Workspace!Crash, Workspace!Panic, Workspace!End
  <2>2. left'.tabs = <<>> /\ Len(<<>>) = 0
    BY <2>1 DEF Workspace!NoWorkspace
  <2>3. PinnedHead(left'.tabs)
    BY <2>2 DEF PinnedHead
  <2> QED BY <2>1, <2>3 DEF RestartInv
<1>9. CASE Workspace!Start
  BY <1>9, StartRestart
<1> QED BY <1>1, <1>2, <1>3, <1>4, <1>5, <1>6, <1>7, <1>8, <1>9, StepGoes

LEMMA InitRestart == Workspace!Init => RestartInv
<1> SUFFICES ASSUME Workspace!Init PROVE RestartInv
  OBVIOUS
<1>1. phase = "off" /\ left = Workspace!NoWorkspace
  BY DEF Workspace!Init
<1>2. left.tabs = <<>> /\ Len(<<>>) = 0
  BY <1>1 DEF Workspace!NoWorkspace
<1>3. PinnedHead(left.tabs)
  BY <1>2 DEF PinnedHead
<1> QED BY <1>1, <1>3 DEF RestartInv

\* What the next start finds is what was known to be stored, and after an exit
\* what was shown, whatever crashed or failed before.
THEOREM RestartInvHolds == Workspace!Spec => []RestartInv
BY InitRestart, StepRestart, WorkspaceInvHolds, PTL DEF Workspace!Spec

\* However tabs come, go, are moved and restored, the pinned ones stay together
\* at the start (set_pinned, restore_workspace).
THEOREM PinnedAreFirstHolds == Workspace!Spec => []Workspace!PinnedAreFirst
<1>1. WorkspaceInv /\ RestartInv => Workspace!PinnedAreFirst
  <2> SUFFICES ASSUME WorkspaceInv, RestartInv PROVE PinnedHead(tabs)
    BY DEF PinnedHead, Workspace!PinnedAreFirst
  <2>1. CASE phase = "off"
    <3>1. Len(tabs) = 0
      BY <2>1 DEF WorkspaceInv, WindowType
    <3> QED BY <3>1 DEF PinnedHead
  <2>2. CASE phase # "off"
    BY <2>2 DEF RestartInv
  <2> QED BY <2>1, <2>2
<1> QED BY <1>1, RestartInvHolds, WorkspaceInvHolds, PTL

\* After an exit the next start shows the same tabs, texts, pins and active tab,
\* if the last save of the workspace did not fail (autosave_workspace,
\* restore_workspace).
THEOREM RestartHolds == Workspace!Spec => RestartKeepsTabs
<1> DEFINE Kept == Workspace!Restarts /\ unsaved = "no" => Workspace!Snapshot' = left
<1>1. WorkspaceInv /\ RestartInv /\ [Workspace!Next]_(Workspace!vars) => [Kept]_(Workspace!vars)
  <2> SUFFICES ASSUME WorkspaceInv, RestartInv, [Workspace!Next]_(Workspace!vars),
                      ~UNCHANGED Workspace!vars, Workspace!Restarts, unsaved = "no"
               PROVE  Workspace!Snapshot' = left
    OBVIOUS
  <2>0. phase = "off" /\ phase' = "running" /\ left # Workspace!NoWorkspace
    BY DEF Workspace!Restarts
  <2>1. ~GoesOn
    BY <2>0 DEF GoesOn
  <2>2. /\ \A exit \in BOOLEAN : ~Workspace!Autosave(exit)
        /\ ~Workspace!Written /\ ~Workspace!Renamed /\ ~Workspace!NotSaved
    BY <2>0 DEF Workspace!Autosave, Workspace!Written, Workspace!Renamed, Workspace!NotSaved
  <2>3. ~Workspace!Exit /\ ~Workspace!Crash /\ ~Workspace!Panic
    BY <2>0 DEF Workspace!Exit, Workspace!Crash, Workspace!Panic, Workspace!Off, Workspace!End
  <2>4. Workspace!Start
    BY <2>1, <2>2, <2>3, StepGoes
  <2> QED BY <2>0, <2>4, StartRestart
<1> QED BY <1>1, RestartInvHolds, WorkspaceInvHolds, PTL
        DEF Workspace!Spec, RestartKeepsTabs, Workspace!RestartKeepsTabs

=============================================================================
