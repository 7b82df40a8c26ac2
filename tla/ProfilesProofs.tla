--------------------------- MODULE ProfilesProofs ---------------------------
(***************************************************************************)
(* Proofs about Profiles, for any handlers, profiles, pools and writes.    *)
(* The versions that are around, in the store, with handlers and in pools, *)
(* are told apart by their time, when no two writes share one.             *)
(***************************************************************************)
EXTENDS Profiles, TLAPS

\* The versions there are to be seen.
Around ==
  {stored[i] : i \in Ids} \cup {saw[h] : h \in Handlers} \cup {built[p] : p \in Pools}

\* A version's time says which it is.
Told ==
  /\ now = writes
  /\ \A x \in Around : x.rev <= writes /\ x.stamp = x.rev
  /\ \A x, y \in Around : x.rev = y.rev => x = y

\* The handlers with a pool are those that serve, and they loaded a profile.
Held ==
  \A h \in Handlers :
    /\ pc[h] \in {"loaded", "serving"} => saw[h] # Absent
    /\ pc[h] = "serving" <=> using[h] # NoPool

Inv == TypeOK /\ Held /\ (~Coarse => Told /\ UsesWhatItLoaded)

-----------------------------------------------------------------------------
(* Types *)

LEMMA InitTypes == Init => TypeOK
<1> SUFFICES ASSUME Init PROVE TypeOK
  OBVIOUS
<1>1. Absent \in Profile
  BY DEF Profile
<1>2. at \in [Handlers -> Ids]
  BY DEF Init
<1> QED BY <1>1, <1>2, ProfilesAssumption DEF Init, TypeOK, Phases

\* References leave each pool what it was built from, or nothing.
LEMMA ReferTypes ==
  ASSUME NEW reg \in [Ids -> Pools \cup {NoPool}],
         NEW use \in [Handlers -> Pools \cup {NoPool}],
         NEW from \in [Pools -> Profile], NEW kept,
         Refer(reg, use, from, kept)
  PROVE  /\ entry' = reg /\ using' = use
         /\ built' \in [Pools -> Profile]
         /\ \A p \in Pools : built'[p] \in {from[p], Absent}
         /\ \A h \in Handlers : use[h] \in Pools => built'[use[h]] = from[use[h]]
<1>1. Absent \in Profile
  BY DEF Profile
<1> QED BY <1>1 DEF Refer

LEMMA LoadTypes ==
  ASSUME TypeOK, NEW h \in Handlers, NEW i \in Ids, NEW phase \in Phases,
         NEW b \in {"omitted", "empty", "given"}, Load(h, i, phase, b)
  PROVE  TypeOK'
BY DEF TypeOK, Load, storeVars, poolVars

LEMMA AnsweredTypes ==
  ASSUME TypeOK, NEW h \in Handlers, Answered(h)
  PROVE  /\ pc' \in [Handlers -> Phases] /\ at' \in [Handlers -> Ids]
         /\ saw' \in [Handlers -> Profile]
         /\ body' \in [Handlers -> {"omitted", "empty", "given"}]
<1>1. Absent \in Profile /\ "out" \in Phases
  BY DEF Profile, Phases
<1> QED BY <1>1 DEF TypeOK, Answered

\* A write makes a version of its own number.
LEMMA WrittenTypes ==
  ASSUME TypeOK, NEW h \in Handlers, NEW i \in Ids, Written(h, i)
  PROVE  /\ writes' = writes + 1 /\ writes' \in 0 .. MaxWrites
         /\ now' \in 0 .. writes' /\ stored' \in [Ids -> Profile]
         /\ \E new \in Profile :
              /\ stored' = [stored EXCEPT ![i] = new]
              /\ new.rev = writes + 1 /\ new.stamp = now'
<1> USE ProfilesAssumption
<1> DEFINE new == [rev |-> writes + 1, stamp |-> now', secret |-> Secret(h)]
<1>1. writes' = writes + 1 /\ writes' \in 0 .. MaxWrites /\ writes + 1 \in 1 .. MaxWrites
  BY DEF Written, TypeOK
<1>2. now' \in 0 .. writes' /\ now' \in 1 .. MaxWrites
  BY <1>1 DEF Written, TypeOK
<1>3. saw[h].secret \in 0 .. MaxWrites
  BY DEF TypeOK, Profile, Absent
<1>4. Secret(h) \in 0 .. MaxWrites
  BY <1>1, <1>3 DEF Secret, TypeOK
<1>5. new \in Profile
  BY <1>1, <1>2, <1>4 DEF Profile
<1>6. stored' = [stored EXCEPT ![i] = new]
  BY DEF Written
<1>7. new.rev = writes + 1 /\ new.stamp = now'
  OBVIOUS
<1> HIDE DEF new
<1> QED BY <1>1, <1>2, <1>5, <1>6, <1>7 DEF TypeOK

LEMMA StepTypes == TypeOK /\ Held /\ [Next]_vars => TypeOK'
<1> SUFFICES ASSUME TypeOK, Held, [Next]_vars PROVE TypeOK'
  OBVIOUS
<1> USE ProfilesAssumption
<1>1. ASSUME NEW h \in Handlers, NEW i \in Ids, Request(h, i) PROVE TypeOK'
  BY <1>1, LoadTypes DEF Request, Phases
<1>2. ASSUME NEW h \in Handlers, TakePool(h) PROVE TypeOK'
  BY <1>2 DEF TakePool, TypeOK, Phases, storeVars, poolVars
<1>3. ASSUME NEW h \in Handlers, NEW p \in Pools, BuildPool(h, p) PROVE TypeOK'
  <2> DEFINE reg == [entry EXCEPT ![at[h]] = p]
             use == [using EXCEPT ![h] = p]
             from == [built EXCEPT ![p] = saw[h]]
  <2>1. /\ reg \in [Ids -> Pools \cup {NoPool}]
        /\ use \in [Handlers -> Pools \cup {NoPool}]
        /\ from \in [Pools -> Profile]
    BY DEF TypeOK
  <2>2. Refer(reg, use, from, idle)
    BY <1>3 DEF BuildPool
  <2>3. idle' \in SUBSET Pools
    BY <2>2 DEF Refer, TypeOK
  <2>4. entry' = reg /\ using' = use /\ built' \in [Pools -> Profile]
    <3> HIDE DEF reg, use, from
    <3> QED BY <2>1, <2>2, ReferTypes
  <2>5. pc' \in [Handlers -> Phases] /\ UNCHANGED <<at, saw, body, stored, fresh, writes, now>>
    BY <1>3 DEF BuildPool, TypeOK, Phases, storeVars
  <2> QED BY <2>1, <2>3, <2>4, <2>5 DEF TypeOK
<1>4. ASSUME NEW h \in Handlers, Leave(h) PROVE TypeOK'
  <2> DEFINE use == [using EXCEPT ![h] = NoPool]
  <2> PICK kept \in {idle, idle \cup {using[h]}} : Refer(entry, use, built, kept)
    BY <1>4 DEF Leave
  <2>1. use \in [Handlers -> Pools \cup {NoPool}]
    BY DEF TypeOK
  <2>2. entry' = entry /\ using' = use /\ built' \in [Pools -> Profile]
    <3> HIDE DEF use
    <3> QED BY <2>1, ReferTypes DEF TypeOK
  <2>3. idle' \in SUBSET Pools
    <3>1. using[h] \in Pools
      BY <1>4 DEF Leave, Held, TypeOK
    <3> QED BY <3>1 DEF Refer, TypeOK
  <2>4. UNCHANGED <<stored, fresh, writes, now>> /\ Answered(h)
    BY <1>4 DEF Leave, storeVars
  <2> QED BY <2>1, <2>2, <2>3, <2>4, AnsweredTypes DEF TypeOK
<1>5. ASSUME NEW h \in Handlers, NEW i \in Ids, NEW b \in {"omitted", "empty", "given"},
             Edit(h, i, b) \/ ComposeFrom(h, i) \/ Remove(h, i)
      PROVE  TypeOK'
  BY <1>5, LoadTypes DEF Edit, ComposeFrom, Remove, Phases
<1>6. ASSUME NEW h \in Handlers, NEW i \in Ids, Insert(h, i) PROVE TypeOK'
  BY <1>6, WrittenTypes, AnsweredTypes DEF Insert, TypeOK, poolVars
<1>7. ASSUME NEW h \in Handlers, NEW b \in {"omitted", "empty", "given"}, Compose(h, b)
      PROVE  TypeOK'
  BY <1>7 DEF Compose, TypeOK, Phases, storeVars, poolVars
<1>8. ASSUME NEW h \in Handlers, Save(h) PROVE TypeOK'
  <2>1. at[h] \in Ids
    BY DEF TypeOK
  <2>2. /\ pc' \in [Handlers -> Phases]
        /\ UNCHANGED <<at, saw, body, using, fresh, entry, built, idle>>
    BY <1>8 DEF Save, TypeOK, Phases, poolVars
  <2>3. CASE Written(h, at[h])
    BY <2>1, <2>2, <2>3, WrittenTypes DEF TypeOK
  <2>4. CASE UNCHANGED <<stored, writes, now>>
    BY <2>2, <2>4 DEF TypeOK
  <2> QED BY <1>8, <2>3, <2>4 DEF Save
<1>9. ASSUME NEW h \in Handlers, Erase(h) PROVE TypeOK'
  <2>1. Absent \in Profile
    BY DEF Profile
  <2> QED BY <1>9, <2>1 DEF Erase, TypeOK, Phases, poolVars
<1>10. ASSUME NEW h \in Handlers, Invalidate(h) PROVE TypeOK'
  <2> DEFINE reg == [entry EXCEPT ![at[h]] = NoPool]
  <2>1. reg \in [Ids -> Pools \cup {NoPool}] /\ Refer(reg, using, built, idle)
    BY <1>10 DEF Invalidate, TypeOK
  <2>2. entry' = reg /\ using' = using /\ built' \in [Pools -> Profile]
    <3> HIDE DEF reg
    <3> QED BY <2>1, ReferTypes DEF TypeOK
  <2>3. idle' \in SUBSET Pools
    BY <2>1 DEF Refer, TypeOK
  <2>4. UNCHANGED <<stored, fresh, writes, now>> /\ Answered(h)
    BY <1>10 DEF Invalidate, storeVars
  <2> QED BY <2>1, <2>2, <2>3, <2>4, AnsweredTypes DEF TypeOK
<1>11. ASSUME NEW h \in Handlers, GiveUp(h) PROVE TypeOK'
  BY <1>11, AnsweredTypes DEF GiveUp, TypeOK, storeVars, poolVars
<1>12. CASE UNCHANGED vars
  BY <1>12 DEF vars, handlerVars, storeVars, poolVars, TypeOK
<1> QED
  BY <1>1, <1>2, <1>3, <1>4, <1>5, <1>6, <1>7, <1>8, <1>9, <1>10, <1>11, <1>12
     DEF Next, Use, Change

-----------------------------------------------------------------------------
(* Who holds a pool *)

LEMMA StepHeld == TypeOK /\ Held /\ [Next]_vars => Held'
<1> SUFFICES ASSUME TypeOK, Held, [Next]_vars PROVE Held'
  OBVIOUS
<1> USE ProfilesAssumption
<1>1. ASSUME NEW h \in Handlers, NEW i \in Ids, NEW phase \in Phases \ {"out", "serving"},
             NEW b, Load(h, i, phase, b)
      PROVE  Held'
  BY <1>1 DEF Load, Held, TypeOK, Phases, poolVars
<1>2. ASSUME NEW h \in Handlers, NEW i \in Ids,
             Request(h, i) \/ ComposeFrom(h, i) \/ Remove(h, i)
      PROVE  Held'
  BY <1>2, <1>1 DEF Request, ComposeFrom, Remove, Phases
<1>3. ASSUME NEW h \in Handlers, NEW i \in Ids, NEW b, Edit(h, i, b) PROVE Held'
  BY <1>3, <1>1 DEF Edit, Phases
<1>4. ASSUME NEW h \in Handlers, TakePool(h) PROVE Held'
  BY <1>4 DEF TakePool, Matches, Held, TypeOK
<1>5. ASSUME NEW h \in Handlers, NEW p \in Pools, BuildPool(h, p) PROVE Held'
  BY <1>5 DEF BuildPool, Refer, Held, TypeOK
<1>6. ASSUME NEW h \in Handlers, Leave(h) PROVE Held'
  <2>1. using' = [using EXCEPT ![h] = NoPool] /\ Answered(h)
    BY <1>6 DEF Leave, Refer
  <2> QED BY <2>1 DEF Answered, Held, TypeOK
<1>7. ASSUME NEW h \in Handlers, NEW i \in Ids, Insert(h, i) PROVE Held'
  BY <1>7 DEF Insert, Answered, Held, TypeOK
<1>8. ASSUME NEW h \in Handlers, NEW b, Compose(h, b) PROVE Held'
  BY <1>8 DEF Compose, Held, TypeOK
<1>9. ASSUME NEW h \in Handlers, Save(h) \/ Erase(h) PROVE Held'
  BY <1>9 DEF Save, Erase, Held, TypeOK
<1>10. ASSUME NEW h \in Handlers, Invalidate(h) PROVE Held'
  BY <1>10 DEF Invalidate, Refer, Answered, Held, TypeOK
<1>11. ASSUME NEW h \in Handlers, GiveUp(h) PROVE Held'
  BY <1>11 DEF GiveUp, Answered, Held, TypeOK
<1>12. CASE UNCHANGED vars
  BY <1>12 DEF vars, handlerVars, Held
<1> QED
  BY <1>2, <1>3, <1>4, <1>5, <1>6, <1>7, <1>8, <1>9, <1>10, <1>11, <1>12
     DEF Next, Use, Change

-----------------------------------------------------------------------------
(* Versions and their times *)

LEMMA AroundTypes == TypeOK => \A x \in Around : x \in Profile
BY DEF TypeOK, Around

LEMMA NumberZero == \A x \in Profile : x.rev \in Nat /\ (x.rev = 0 => x = Absent)
BY ProfilesAssumption DEF Profile, Absent

\* Seeing no new version keeps them told apart.
LEMMA ToldKept ==
  ASSUME TypeOK, Told, UNCHANGED <<writes, now>>,
         \A x \in Around' : x \in Around \cup {Absent}
  PROVE  Told'
<1>1. Absent.rev = 0 /\ Absent.stamp = 0 /\ Absent \in Profile
  BY DEF Absent, Profile
<1>2. \A x \in Around \cup {Absent} : x \in Profile /\ x.rev <= writes /\ x.stamp = x.rev
  BY <1>1, AroundTypes DEF Told, TypeOK
<1>3. \A x, y \in Around \cup {Absent} : x.rev = y.rev => x = y
  BY <1>1, <1>2, NumberZero DEF Told
<1> QED BY <1>2, <1>3 DEF Told

\* A write's version has a number, and a time, no other has.
LEMMA ToldWritten ==
  ASSUME TypeOK, Told, ~Coarse, NEW h \in Handlers, NEW i \in Ids, Written(h, i),
         \A g \in Handlers : saw'[g] \in {saw[g], Absent}, saw' \in [Handlers -> Profile],
         UNCHANGED built
  PROVE  Told'
<1> USE ProfilesAssumption
<1>1. PICK new \in Profile :
        stored' = [stored EXCEPT ![i] = new] /\ new.rev = writes + 1 /\ new.stamp = now'
  BY WrittenTypes
<1>2. writes' = writes + 1 /\ now' = writes + 1 /\ writes \in Nat
  BY WrittenTypes DEF Written, Told, TypeOK
<1>3. \A x \in Around' : x \in Around \cup {Absent, new}
  BY <1>1 DEF Around, TypeOK
<1>4. Absent.rev = 0 /\ Absent.stamp = 0 /\ Absent \in Profile
  BY DEF Absent, Profile
<1>5. \A x \in Around \cup {Absent} : x \in Profile /\ x.rev <= writes /\ x.stamp = x.rev
  BY <1>4, AroundTypes DEF Told, TypeOK
<1>6. \A x, y \in Around \cup {Absent} : x.rev = y.rev => x = y
  BY <1>4, <1>5, NumberZero DEF Told
<1>7. \A x \in Around \cup {Absent} : x.rev # new.rev
  BY <1>1, <1>2, <1>5, NumberZero
<1>8. \A x \in Around' : x.rev <= writes' /\ x.stamp = x.rev
  BY <1>1, <1>2, <1>3, <1>5, NumberZero
<1>9. \A x, y \in Around' : x.rev = y.rev => x = y
  BY <1>3, <1>6, <1>7
<1> QED BY <1>2, <1>8, <1>9 DEF Told

\* References leave pools of the versions they were built from.
LEMMA ReferAround ==
  ASSUME TypeOK, NEW reg, NEW use, NEW from, NEW kept, Refer(reg, use, from, kept),
         \A p \in Pools : from[p] \in Around,
         \A g \in Handlers : saw'[g] \in Around \cup {Absent}, UNCHANGED stored
  PROVE  \A x \in Around' : x \in Around \cup {Absent}
<1>1. \A p \in Pools : built'[p] \in Around \cup {Absent}
  BY DEF Refer
<1>2. \A i \in Ids : stored'[i] \in Around
  BY DEF Around
<1> QED BY <1>1, <1>2 DEF Around

-----------------------------------------------------------------------------
(* The pool a request holds *)

Uses == TypeOK /\ Held /\ Told /\ UsesWhatItLoaded

LEMMA StepUses == ~Coarse /\ Uses /\ [Next]_vars => Told' /\ UsesWhatItLoaded'
<1> SUFFICES ASSUME ~Coarse, Uses, [Next]_vars PROVE Told' /\ UsesWhatItLoaded'
  OBVIOUS
<1> USE ProfilesAssumption
<1>a. TypeOK /\ Held /\ Told /\ UsesWhatItLoaded
  BY DEF Uses
<1>1. ASSUME NEW h \in Handlers, NEW i \in Ids, NEW phase, NEW b, Load(h, i, phase, b)
      PROVE  Told' /\ UsesWhatItLoaded'
  <2>1. UNCHANGED <<using, stored, writes, now, built>> /\ using[h] = NoPool
    BY <1>a, <1>1 DEF Load, Held, storeVars, poolVars
  <2>2. saw' = [saw EXCEPT ![h] = stored[i]]
    BY <1>1 DEF Load
  <2>3. \A x \in Around' : x \in Around
    BY <1>a, <2>1, <2>2 DEF Around, TypeOK
  <2>4. Told'
    BY <1>a, <2>1, <2>3, ToldKept
  <2> QED BY <1>a, <2>1, <2>2, <2>4 DEF UsesWhatItLoaded, TypeOK
<1>2. ASSUME NEW h \in Handlers, NEW i \in Ids,
             Request(h, i) \/ ComposeFrom(h, i) \/ Remove(h, i)
      PROVE  Told' /\ UsesWhatItLoaded'
  BY <1>2, <1>1 DEF Request, ComposeFrom, Remove
<1>3. ASSUME NEW h \in Handlers, NEW i \in Ids, NEW b, Edit(h, i, b)
      PROVE  Told' /\ UsesWhatItLoaded'
  BY <1>3, <1>1 DEF Edit
<1>4. ASSUME NEW h \in Handlers, TakePool(h) PROVE Told' /\ UsesWhatItLoaded'
  <2>1. UNCHANGED <<saw, stored, writes, now, built>>
    BY <1>4 DEF TakePool, storeVars, poolVars
  <2>2. using' = [using EXCEPT ![h] = entry[at[h]]] /\ entry[at[h]] \in Pools
    BY <1>a, <1>4 DEF TakePool, Matches, TypeOK
  <2>3. saw[h] \in Around /\ built[entry[at[h]]] \in Around
    BY <1>a, <2>2 DEF Around, TypeOK
  <2>4. built[entry[at[h]]] = saw[h]
    BY <1>a, <1>4, <2>3 DEF TakePool, Matches, Told
  <2>5. Told'
    BY <1>a, <2>1, ToldKept DEF Around
  <2> QED BY <1>a, <2>1, <2>2, <2>4, <2>5 DEF UsesWhatItLoaded, TypeOK
<1>5. ASSUME NEW h \in Handlers, NEW p \in Pools, BuildPool(h, p)
      PROVE  Told' /\ UsesWhatItLoaded'
  <2> DEFINE reg == [entry EXCEPT ![at[h]] = p]
             use == [using EXCEPT ![h] = p]
             from == [built EXCEPT ![p] = saw[h]]
  <2>1. Refer(reg, use, from, idle) /\ UNCHANGED <<saw, stored, writes, now>> /\ built[p] = Absent
    BY <1>5 DEF BuildPool, storeVars
  <2>2. \A q \in Pools : from[q] \in Around
    BY <1>a DEF Around, TypeOK
  <2>3. \A g \in Handlers : saw'[g] \in Around
    BY <2>1 DEF Around
  <2>4. Told'
    <3>1. \A x \in Around' : x \in Around \cup {Absent}
      <4> HIDE DEF reg, use, from
      <4> QED BY <1>a, <2>1, <2>2, <2>3, ReferAround
    <3> QED BY <1>a, <2>1, <3>1, ToldKept
  <2>5. /\ reg \in [Ids -> Pools \cup {NoPool}]
        /\ use \in [Handlers -> Pools \cup {NoPool}]
        /\ from \in [Pools -> Profile]
    BY <1>a DEF TypeOK
  <2>6. using' = use /\ \A g \in Handlers : use[g] \in Pools => built'[use[g]] = from[use[g]]
    <3> HIDE DEF reg, use, from
    <3> QED BY <2>1, <2>5, ReferTypes
  <2>7. ASSUME NEW g \in Handlers, use[g] # NoPool PROVE built'[use[g]] = saw[g]
    <3>1. built'[use[g]] = from[use[g]]
      BY <2>5, <2>6, <2>7
    <3>2. CASE g = h
      BY <1>a, <3>1, <3>2 DEF TypeOK
    <3>3. CASE g # h
      <4>1. use[g] = using[g] /\ using[g] # NoPool
        BY <1>a, <2>7, <3>3 DEF TypeOK
      <4>2. built[using[g]] = saw[g] /\ saw[g] # Absent
        BY <1>a, <4>1 DEF UsesWhatItLoaded, Held
      <4>3. using[g] # p
        BY <2>1, <4>2
      <4> QED BY <1>a, <3>1, <4>1, <4>2, <4>3 DEF TypeOK
    <3> QED BY <3>2, <3>3
  <2> HIDE DEF reg, use, from
  <2> QED BY <2>1, <2>4, <2>6, <2>7 DEF UsesWhatItLoaded
<1>6. ASSUME NEW h \in Handlers, Answered(h), NEW reg, NEW use, NEW kept,
             use \in [Handlers -> Pools \cup {NoPool}], Refer(reg, use, built, kept),
             use[h] = NoPool, \A g \in Handlers : g # h => use[g] = using[g],
             UNCHANGED <<stored, writes, now>>
      PROVE  Told' /\ UsesWhatItLoaded'
  <2>1. saw' = [saw EXCEPT ![h] = Absent]
    BY <1>6 DEF Answered
  <2>2. Told'
    <3>1. \A g \in Handlers : saw'[g] \in Around \cup {Absent}
      BY <1>a, <2>1 DEF Around, TypeOK
    <3>2. \A q \in Pools : built[q] \in Around
      BY DEF Around
    <3>3. \A x \in Around' : x \in Around \cup {Absent}
      BY <1>a, <1>6, <3>1, <3>2, ReferAround
    <3> QED BY <1>a, <1>6, <3>3, ToldKept
  <2>3. ASSUME NEW g \in Handlers, use[g] # NoPool PROVE built'[use[g]] = saw'[g]
    <3>1. g # h /\ use[g] = using[g] /\ use[g] \in Pools
      BY <1>6, <2>3
    <3>2. built'[use[g]] = built[use[g]]
      BY <1>6, <3>1 DEF Refer
    <3> QED BY <1>a, <2>1, <2>3, <3>1, <3>2 DEF UsesWhatItLoaded, TypeOK
  <2>4. using' = use
    BY <1>6 DEF Refer
  <2> QED BY <2>2, <2>3, <2>4 DEF UsesWhatItLoaded
<1>7. ASSUME NEW h \in Handlers, Leave(h) PROVE Told' /\ UsesWhatItLoaded'
  <2> DEFINE use == [using EXCEPT ![h] = NoPool]
  <2>1. PICK kept : Refer(entry, use, built, kept)
    BY <1>7 DEF Leave
  <2>2. /\ use \in [Handlers -> Pools \cup {NoPool}] /\ use[h] = NoPool
        /\ \A g \in Handlers : g # h => use[g] = using[g]
    BY <1>a DEF TypeOK
  <2>3. Answered(h) /\ UNCHANGED <<stored, writes, now>>
    BY <1>7 DEF Leave, storeVars
  <2> HIDE DEF use
  <2> QED BY <1>6, <2>1, <2>2, <2>3
<1>8. ASSUME NEW h \in Handlers, Invalidate(h) PROVE Told' /\ UsesWhatItLoaded'
  <2>1. PICK reg : Refer(reg, using, built, idle)
    BY <1>8 DEF Invalidate
  <2>2. using[h] = NoPool /\ using \in [Handlers -> Pools \cup {NoPool}]
    BY <1>a, <1>8 DEF Invalidate, Held, TypeOK
  <2>3. Answered(h) /\ UNCHANGED <<stored, writes, now>>
    BY <1>8 DEF Invalidate, storeVars
  <2> QED BY <1>6, <2>1, <2>2, <2>3
<1>9. ASSUME NEW h \in Handlers, NEW i \in Ids, Insert(h, i)
      PROVE  Told' /\ UsesWhatItLoaded'
  <2>1. Written(h, i) /\ Answered(h) /\ UNCHANGED <<using, built>> /\ using[h] = NoPool
    BY <1>a, <1>9 DEF Insert, Held, poolVars
  <2>2. saw' = [saw EXCEPT ![h] = Absent] /\ saw' \in [Handlers -> Profile]
    BY <1>a, <2>1, AnsweredTypes DEF Answered
  <2>3. \A g \in Handlers : saw'[g] \in {saw[g], Absent}
    BY <1>a, <2>2 DEF TypeOK
  <2>4. Told'
    BY <1>a, <2>1, <2>2, <2>3, ToldWritten
  <2> QED BY <1>a, <2>1, <2>2, <2>4 DEF UsesWhatItLoaded, TypeOK
<1>10. ASSUME NEW h \in Handlers, NEW b, Compose(h, b) PROVE Told' /\ UsesWhatItLoaded'
  <2>1. UNCHANGED <<using, saw, stored, writes, now, built>>
    BY <1>10 DEF Compose, storeVars, poolVars
  <2>2. Told'
    BY <1>a, <2>1, ToldKept DEF Around
  <2> QED BY <1>a, <2>1, <2>2 DEF UsesWhatItLoaded
<1>11. ASSUME NEW h \in Handlers, Save(h) PROVE Told' /\ UsesWhatItLoaded'
  <2>1. UNCHANGED <<using, saw, built>> /\ at[h] \in Ids
    BY <1>a, <1>11 DEF Save, poolVars, TypeOK
  <2>2. Told'
    <3>1. CASE Written(h, at[h])
      <4>1. (\A g \in Handlers : saw'[g] \in {saw[g], Absent}) /\ saw' \in [Handlers -> Profile]
        BY <1>a, <2>1 DEF TypeOK
      <4> QED BY <1>a, <2>1, <3>1, <4>1, ToldWritten
    <3>2. CASE UNCHANGED <<stored, writes, now>>
      BY <1>a, <2>1, <3>2, ToldKept DEF Around
    <3> QED BY <1>11, <3>1, <3>2 DEF Save
  <2> QED BY <1>a, <2>1, <2>2 DEF UsesWhatItLoaded
<1>12. ASSUME NEW h \in Handlers, Erase(h) PROVE Told' /\ UsesWhatItLoaded'
  <2>1. UNCHANGED <<using, saw, built, writes, now>>
    BY <1>12 DEF Erase, poolVars
  <2>2. stored' = [stored EXCEPT ![at[h]] = Absent]
    BY <1>12 DEF Erase
  <2>3. \A x \in Around' : x \in Around \cup {Absent}
    BY <1>a, <2>1, <2>2 DEF Around, TypeOK
  <2>4. Told'
    BY <1>a, <2>1, <2>3, ToldKept
  <2> QED BY <1>a, <2>1, <2>4 DEF UsesWhatItLoaded
<1>13. ASSUME NEW h \in Handlers, GiveUp(h) PROVE Told' /\ UsesWhatItLoaded'
  <2>1. UNCHANGED <<using, stored, writes, now, built>> /\ using[h] = NoPool
    BY <1>a, <1>13 DEF GiveUp, Held, storeVars, poolVars
  <2>2. saw' = [saw EXCEPT ![h] = Absent]
    BY <1>13 DEF GiveUp, Answered
  <2>3. \A x \in Around' : x \in Around \cup {Absent}
    BY <1>a, <2>1, <2>2 DEF Around, TypeOK
  <2>4. Told'
    BY <1>a, <2>1, <2>3, ToldKept
  <2> QED BY <1>a, <2>1, <2>2, <2>4 DEF UsesWhatItLoaded, TypeOK
<1>14. CASE UNCHANGED vars
  <2>1. UNCHANGED <<using, saw, stored, writes, now, built>>
    BY <1>14 DEF vars, handlerVars, storeVars, poolVars
  <2>2. Told'
    BY <1>a, <2>1, ToldKept DEF Around
  <2> QED BY <1>a, <2>1, <2>2 DEF UsesWhatItLoaded
<1> QED
  BY <1>2, <1>3, <1>4, <1>5, <1>7, <1>8, <1>9, <1>10, <1>11, <1>12, <1>13, <1>14
     DEF Next, Use, Change

-----------------------------------------------------------------------------
(* The theorems *)

LEMMA InitInv == Init => Inv
<1> SUFFICES ASSUME Init PROVE Inv
  OBVIOUS
<1>1. TypeOK
  BY InitTypes
<1>2. Held
  BY DEF Init, Held
<1>3. \A x \in Around : x = Absent
  BY DEF Init, Around
<1>4. Told
  BY <1>3 DEF Init, Told, Absent
<1>5. UsesWhatItLoaded
  BY DEF Init, UsesWhatItLoaded
<1> QED BY <1>1, <1>2, <1>4, <1>5 DEF Inv

LEMMA StepInv == Inv /\ [Next]_vars => Inv'
<1> SUFFICES ASSUME Inv, [Next]_vars PROVE Inv'
  OBVIOUS
<1>1. TypeOK' /\ Held'
  BY StepTypes, StepHeld DEF Inv
<1>2. ~Coarse => Told' /\ UsesWhatItLoaded'
  BY StepUses DEF Inv, Uses
<1> QED BY <1>1, <1>2 DEF Inv

\* Holds in every reachable state: types, who holds a pool, and, when no two
\* writes share a millisecond, that times tell versions apart.
THEOREM InvHolds == Spec => []Inv
BY InitInv, StepInv, PTL DEF Spec

\* Handlers, store and registry keep their types (AppState, Registry).
THEOREM TypeCorrect == Spec => []TypeOK
<1>1. Inv => TypeOK
  BY DEF Inv
<1> QED BY <1>1, InvHolds, PTL

\* Whatever updates, deletions and other requests do to the registry, a request
\* works with the settings it loaded (Registry::pool), provided writes are a
\* millisecond apart.
THEOREM UsesHolds == Spec => [](~Coarse => UsesWhatItLoaded)
<1>1. Inv => (~Coarse => UsesWhatItLoaded)
  BY DEF Inv
<1> QED BY <1>1, InvHolds, PTL

LEMMA StepDeleted ==
  TypeOK /\ [Next]_vars =>
    [\A i \in Ids \ fresh : stored[i] = Absent => stored'[i] = Absent]_vars
<1> SUFFICES ASSUME TypeOK, Next, NEW i \in Ids \ fresh, stored[i] = Absent
             PROVE  stored'[i] = Absent
  OBVIOUS
<1>1. ASSUME NEW h \in Handlers, NEW j \in Ids, Insert(h, j) PROVE stored'[i] = Absent
  BY <1>1 DEF Insert, Written, TypeOK
<1>2. ASSUME NEW h \in Handlers, Save(h) PROVE stored'[i] = Absent
  BY <1>2 DEF Save, Written, TypeOK
<1>3. ASSUME NEW h \in Handlers, Erase(h) PROVE stored'[i] = Absent
  BY <1>3 DEF Erase, TypeOK
<1>4. ASSUME NEW h \in Handlers, Use(h) \/ GiveUp(h) PROVE stored'[i] = Absent
  BY <1>4 DEF Use, Request, Load, TakePool, BuildPool, Leave, GiveUp, storeVars
<1>5. ASSUME NEW h \in Handlers, NEW j \in Ids, NEW b,
             Edit(h, j, b) \/ ComposeFrom(h, j) \/ Remove(h, j) \/ Compose(h, b)
      PROVE  stored'[i] = Absent
  BY <1>5 DEF Edit, ComposeFrom, Remove, Compose, Load, storeVars
<1>6. ASSUME NEW h \in Handlers, Invalidate(h) PROVE stored'[i] = Absent
  BY <1>6 DEF Invalidate, storeVars
<1> QED BY <1>1, <1>2, <1>3, <1>4, <1>5, <1>6 DEF Next, Change

\* A deleted profile stays deleted, also when an update that loaded it before
\* is still at work (connection_update, connection_delete).
THEOREM DeletedHolds == Spec => DeletedStaysDeleted
BY TypeCorrect, StepDeleted, PTL DEF Spec, DeletedStaysDeleted

=============================================================================
