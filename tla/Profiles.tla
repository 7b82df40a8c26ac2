------------------------------ MODULE Profiles ------------------------------
(***************************************************************************)
(* The stored connection profiles of sqail-service and the registry of     *)
(* connection pools built from them (api/connections.rs, registry.rs,      *)
(* pool_for in api/mod.rs).                                                *)
(*                                                                         *)
(* The store and the registry each have a mutex, and no handler holds both *)
(* or keeps one from one call to the next: between loading a profile and   *)
(* asking for its pool, or between writing one and dropping its pool,      *)
(* other handlers act.  A pool lives while the registry or a handler has a *)
(* reference to it.                                                        *)
(*                                                                         *)
(* A profile is the number of the write that made it, the time of that     *)
(* write and the write its password came from.  Times count the writes'    *)
(* distinct milliseconds.                                                  *)
(***************************************************************************)
EXTENDS Integers, FiniteSets

CONSTANTS
  Handlers,   \* requests at work at a time
  Ids,        \* profile ids, each given out once
  Pools,      \* names of the pools there are at a time
  NoPool,
  MaxWrites,  \* bound: how many profiles are written
  Coarse      \* two writes may fall into the same millisecond

ASSUME ProfilesAssumption ==
  /\ NoPool \notin Pools
  /\ MaxWrites \in Nat
  /\ Coarse \in BOOLEAN

VARIABLES
  pc,      \* where each handler is
  at,      \* the profile id it works on
  saw,     \* the profile it loaded
  body,    \* what the request says about the password
  using,   \* the pool it holds
  stored,  \* the profiles in service.db
  fresh,   \* ids not given out yet
  writes,  \* how many profiles were written
  now,     \* the time of the last write
  entry,   \* the registry: the pool of each profile id
  built,   \* what each pool was built from
  idle     \* pools with an idle connection

handlerVars == <<pc, at, saw, body, using>>
storeVars == <<stored, fresh, writes, now>>
poolVars == <<entry, built, idle>>
vars == <<handlerVars, storeVars, poolVars>>

Absent == [rev |-> 0, stamp |-> 0, secret |-> 0]

Profile == [rev : 1 .. MaxWrites, stamp : 1 .. MaxWrites,
            secret : 0 .. MaxWrites] \cup {Absent}

Phases == {"out", "loaded", "serving", "editing", "deleting", "copying",
           "written"}

TypeOK ==
  /\ pc \in [Handlers -> Phases]
  /\ at \in [Handlers -> Ids]
  /\ saw \in [Handlers -> Profile]
  /\ body \in [Handlers -> {"omitted", "empty", "given"}]
  /\ using \in [Handlers -> Pools \cup {NoPool}]
  /\ stored \in [Ids -> Profile]
  /\ fresh \in SUBSET Ids
  /\ writes \in 0 .. MaxWrites
  /\ now \in 0 .. writes
  /\ entry \in [Ids -> Pools \cup {NoPool}]
  /\ built \in [Pools -> Profile]
  /\ idle \in SUBSET Pools

Init ==
  /\ pc = [h \in Handlers |-> "out"]
  /\ at \in {[h \in Handlers |-> i] : i \in Ids}
  /\ saw = [h \in Handlers |-> Absent]
  /\ body = [h \in Handlers |-> "omitted"]
  /\ using = [h \in Handlers |-> NoPool]
  /\ stored = [i \in Ids |-> Absent]
  /\ fresh = Ids
  /\ writes = 0
  /\ now = 0
  /\ entry = [i \in Ids |-> NoPool]
  /\ built = [p \in Pools |-> Absent]
  /\ idle = {}

-----------------------------------------------------------------------------
\* The pools there are with these references; the last one to go closes a
\* pool's idle connections.
Refer(reg, use, from, kept) ==
  LET live == {reg[i] : i \in Ids} \cup {use[h] : h \in Handlers}
  IN  /\ entry' = reg
      /\ using' = use
      /\ built' = [p \in Pools |-> IF p \in live THEN from[p] ELSE Absent]
      /\ idle' = kept \cap live

\* A handler leaves; the next request starts without its locals.
Answered(h) ==
  /\ pc' = [pc EXCEPT ![h] = "out"]
  /\ saw' = [saw EXCEPT ![h] = Absent]
  /\ body' = [body EXCEPT ![h] = "omitted"]
  /\ UNCHANGED at

\* load_connection: 404 without the profile, which changes nothing.
Load(h, i, phase, b) ==
  /\ pc[h] = "out"
  /\ stored[i] # Absent
  /\ pc' = [pc EXCEPT ![h] = phase]
  /\ at' = [at EXCEPT ![h] = i]
  /\ saw' = [saw EXCEPT ![h] = stored[i]]
  /\ body' = [body EXCEPT ![h] = b]
  /\ UNCHANGED <<using, storeVars, poolVars>>

\* Scope, key, a driver that cannot be built, a bad certificate: the handler
\* ends before it changed anything.
GiveUp(h) ==
  /\ pc[h] \in {"loaded", "editing", "copying"}
  /\ Answered(h)
  /\ UNCHANGED <<using, storeVars, poolVars>>

-----------------------------------------------------------------------------
(* Requests that use a profile: pool_for *)

Request(h, i) == Load(h, i, "loaded", "omitted")

\* Mutant: takes whatever pool the profile has.
MatchesAny(h) == entry[at[h]] # NoPool

\* The registry has a pool of the version the handler loaded.
Matches(h) ==
  /\ entry[at[h]] # NoPool
  /\ built[entry[at[h]]].stamp = saw[h].stamp

TakePool(h) ==
  /\ pc[h] = "loaded"
  /\ Matches(h)
  /\ pc' = [pc EXCEPT ![h] = "serving"]
  /\ using' = [using EXCEPT ![h] = entry[at[h]]]
  /\ UNCHANGED <<at, saw, body, storeVars, poolVars>>

\* It has none, or another: the handler's becomes the profile's pool.
BuildPool(h, p) ==
  /\ pc[h] = "loaded"
  /\ ~Matches(h)
  /\ built[p] = Absent
  /\ pc' = [pc EXCEPT ![h] = "serving"]
  /\ Refer([entry EXCEPT ![at[h]] = p], [using EXCEPT ![h] = p],
           [built EXCEPT ![p] = saw[h]], idle)
  /\ UNCHANGED <<at, saw, body, storeVars>>

\* The request ends; it may leave a connection on the idle stack.
Leave(h) ==
  /\ pc[h] = "serving"
  /\ Answered(h)
  /\ \E kept \in {idle, idle \cup {using[h]}} :
       Refer(entry, [using EXCEPT ![h] = NoPool], built, kept)
  /\ UNCHANGED storeVars

-----------------------------------------------------------------------------
(* create, update, delete *)

\* The password to store: omitted keeps the one the handler loaded.
Secret(h) ==
  CASE body[h] = "omitted" -> saw[h].secret
    [] body[h] = "empty" -> 0
    [] OTHER -> writes + 1

Written(h, i) ==
  /\ writes < MaxWrites
  /\ writes' = writes + 1
  /\ now' \in IF Coarse /\ now > 0 THEN {now, now + 1} ELSE {now + 1}
  /\ stored' = [stored EXCEPT ![i] =
                  [rev |-> writes + 1, stamp |-> now', secret |-> Secret(h)]]

\* create, with or without a profile to copy an omitted password from.
Compose(h, b) ==
  /\ pc[h] = "out"
  /\ pc' = [pc EXCEPT ![h] = "copying"]
  /\ body' = [body EXCEPT ![h] = b]
  /\ UNCHANGED <<at, saw, using, storeVars, poolVars>>

ComposeFrom(h, i) == Load(h, i, "copying", "omitted")

Insert(h, i) ==
  /\ pc[h] = "copying"
  /\ i \in fresh
  /\ fresh' = fresh \ {i}
  /\ Written(h, i)
  /\ Answered(h)
  /\ UNCHANGED <<using, poolVars>>

Edit(h, i, b) == Load(h, i, "editing", b)

\* UPDATE ... WHERE id: nobody looks whether the row was still there.
Save(h) ==
  /\ pc[h] = "editing"
  /\ pc' = [pc EXCEPT ![h] = "written"]
  /\ \/ stored[at[h]] # Absent /\ Written(h, at[h])
     \/ stored[at[h]] = Absent /\ UNCHANGED <<stored, writes, now>>
  /\ UNCHANGED <<at, saw, body, using, fresh, poolVars>>

Remove(h, i) == Load(h, i, "deleting", "omitted")

Erase(h) ==
  /\ pc[h] = "deleting"
  /\ pc' = [pc EXCEPT ![h] = "written"]
  /\ stored' = [stored EXCEPT ![at[h]] = Absent]
  /\ UNCHANGED <<at, saw, body, using, fresh, writes, now, poolVars>>

\* After an update and after a deletion; the answer loads the profile again.
Invalidate(h) ==
  /\ pc[h] = "written"
  /\ Answered(h)
  /\ Refer([entry EXCEPT ![at[h]] = NoPool], using, built, idle)
  /\ UNCHANGED storeVars

-----------------------------------------------------------------------------
Use(h) ==
  \/ \E i \in Ids : Request(h, i)
  \/ TakePool(h) \/ (\E p \in Pools : BuildPool(h, p)) \/ Leave(h)

Change(h) ==
  \/ \E i \in Ids :
       \/ \E b \in {"omitted", "empty", "given"} : Edit(h, i, b)
       \/ ComposeFrom(h, i) \/ Insert(h, i) \/ Remove(h, i)
  \/ (\E b \in {"omitted", "empty", "given"} : Compose(h, b))
  \/ Save(h) \/ Erase(h) \/ Invalidate(h)

Next == \E h \in Handlers : Use(h) \/ Change(h) \/ GiveUp(h)

Spec == Init /\ [][Next]_vars

-----------------------------------------------------------------------------
(* Properties *)

\* A request works with the settings it loaded and was checked against, never
\* with a pool of another version, whatever updates, deletions and other
\* requests did to the registry in between (Registry::pool).  It needs writes
\* a millisecond apart.
UsesWhatItLoaded ==
  \A h \in Handlers : using[h] # NoPool => built[using[h]] = saw[h]

\* An update that races a deletion does not bring the profile back
\* (connection_update, connection_delete).
DeletedStaysDeleted ==
  [][\A i \in Ids \ fresh : stored[i] = Absent => stored'[i] = Absent]_vars

\* "On PUT, leaving it out keeps the stored password" (docs/api.md): an update
\* without a password leaves the one stored at the time alone.
OmittedKeeps ==
  [][\A h \in Handlers :
       /\ pc[h] = "editing" /\ pc'[h] = "written" /\ body[h] = "omitted"
       => stored'[at[h]].secret = stored[at[h]].secret]_vars

\* "Drop the pool (idle connections close; checked-out ones close on return)"
\* (registry.rs): once no request is at work, a deleted profile has no idle
\* connection left.
DeletedIsDisconnected ==
  (\A h \in Handlers : pc[h] = "out") =>
    \A i \in Ids : stored[i] = Absent => entry[i] \notin idle

=============================================================================
