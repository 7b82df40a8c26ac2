-------------------------------- MODULE Tree --------------------------------
(***************************************************************************)
(* The lazily loaded schema tree of sqail-ui (SchemaTree in schema.rs),    *)
(* which completion and quick-open read too: what it caches of a           *)
(* connection, the requests that fill it, and who empties it.              *)
(***************************************************************************)
EXTENDS Integers

CONSTANTS
  Connections,  \* connection profiles
  MaxRequests,  \* bound: requests made
  MaxChanges    \* bound: changes of a database

VARIABLES
  listed,    \* the profiles there are
  data,      \* what is cached of each: nothing, or by key
  requests,  \* those whose messages are not handled
  made,      \* how many there were
  version,   \* of the schema of each connection
  own        \* the change of sqail's own that the UI was told of last

treeVars == <<data, requests, made>>
vars == <<listed, treeVars, version, own>>

\* SchemaKey: of the whole connection, or of the table that changes.
Keys == {"schemas", "table"}

Absent == -3
Loading == -2
Failed == -1
Cached == {Absent, Loading, Failed} \cup Nat

\* Type correctness.
TypeOK ==
  /\ listed \subseteq Connections
  /\ data \in [Connections -> [Keys -> Cached]]
  /\ requests \subseteq [nr : 1 .. made, connection : Connections, key : Keys,
                         answer : {Loading, Failed} \cup Nat]
  /\ made \in Nat
  /\ version \in [Connections -> Nat]
  /\ own \in [Connections -> Nat]

Init ==
  /\ listed = Connections
  /\ data = [c \in Connections |-> [k \in Keys |-> Absent]]
  /\ requests = {}
  /\ made = 0
  /\ version = [c \in Connections |-> 0]
  /\ own = [c \in Connections |-> 0]

-----------------------------------------------------------------------------
\* get and ensure: a node that is open, or a completion, asks for what is not
\* there.
Get(c, k) ==
  /\ c \in listed /\ data[c][k] = Absent
  /\ made < MaxRequests
  /\ made' = made + 1
  /\ data' = [data EXCEPT ![c][k] = Loading]
  /\ requests' = requests \cup
       {[nr |-> made', connection |-> c, key |-> k, answer |-> Loading]}
  /\ UNCHANGED <<listed, version, own>>

\* The service reads the schema as it is, or fails.
Answer(r) ==
  /\ r \in requests /\ r.answer = Loading
  /\ \E a \in {Failed, version[r.connection]} :
       requests' = (requests \ {r}) \cup {[r EXCEPT !.answer = a]}
  /\ UNCHANGED <<listed, data, made, version, own>>

\* Mutant: a failure is not noted.
AppliedReady(r) ==
  IF r.answer = Failed THEN data
  ELSE [data EXCEPT ![r.connection][r.key] = r.answer]

\* Whatever happened since the request was made.
Applied(r) == [data EXCEPT ![r.connection][r.key] = r.answer]

\* apply.
Apply(r) ==
  /\ r \in requests /\ r.answer # Loading
  /\ requests' = requests \ {r}
  /\ data' = Applied(r)
  /\ UNCHANGED <<listed, made, version, own>>

Forgotten(c, ks) ==
  [data EXCEPT ![c] = [k \in Keys |-> IF k \in ks THEN Absent ELSE data[c][k]]]

\* The table is changed by somebody else.
ChangeElsewhere(c) ==
  /\ version[c] < MaxChanges
  /\ version' = [version EXCEPT ![c] = @ + 1]
  /\ UNCHANGED <<listed, treeVars, own>>

\* It was, in the designer or by Drop table, and the message of that is
\* handled: invalidate_table.
ChangeOwn(c) ==
  /\ version[c] < MaxChanges
  /\ version' = [version EXCEPT ![c] = @ + 1]
  /\ own' = [own EXCEPT ![c] = version'[c]]
  /\ data' = Forgotten(c, {"table"})
  /\ UNCHANGED <<listed, requests, made>>

\* invalidate, by Refresh or a change of the profile.
Invalidate(c) ==
  /\ c \in listed
  /\ data' = Forgotten(c, Keys)
  /\ UNCHANGED <<listed, requests, made, version, own>>

\* clear, when the list of connections is refreshed.
Clear ==
  /\ data' = [c \in Connections |-> [k \in Keys |-> Absent]]
  /\ UNCHANGED <<listed, requests, made, version, own>>

\* retain, for a list without some profiles.
Retain(list) ==
  /\ list \subseteq listed
  /\ listed' = list
  /\ data' = [c \in Connections |->
                IF c \in list THEN data[c] ELSE [k \in Keys |-> Absent]]
  /\ UNCHANGED <<requests, made, version, own>>

-----------------------------------------------------------------------------
Next ==
  \/ \E c \in Connections :
       \/ \E k \in Keys : Get(c, k)
       \/ ChangeElsewhere(c) \/ ChangeOwn(c) \/ Invalidate(c)
  \/ \E r \in requests : Answer(r) \/ Apply(r)
  \/ Clear
  \/ \E list \in SUBSET Connections : Retain(list)

Spec == Init /\ [][Next]_vars

\* Requests end (the client's timeout) and their messages are handled.
FairSpec ==
  /\ Spec
  /\ WF_vars(\E r \in requests : Answer(r))
  /\ WF_vars(\E r \in requests : Apply(r))

-----------------------------------------------------------------------------
(* Properties *)

\* However often the cache is emptied meanwhile, a node that says "Loading"
\* has a request on its way.
LoadingIsAsked ==
  \A c \in Connections, k \in Keys : data[c][k] = Loading =>
    \E r \in requests : r.connection = c /\ r.key = k

\* It does not say so for ever (Load::Failed).
LoadingEnds ==
  \A c \in Connections, k \in Keys :
    data[c][k] = Loading ~> data[c][k] # Loading

\* "Forget what is cached about one table" (schema.rs): after a change of
\* sqail's own the tree, and completion, never show the table as it was.
ForgottenStaysForgotten ==
  \A c \in Connections : data[c]["table"] \in Nat => data[c]["table"] >= own[c]

=============================================================================
