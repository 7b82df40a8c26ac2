------------------------------ MODULE Connect ------------------------------
(***************************************************************************)
(* sqail-ui and the services it connects to: connect, forget_service, the  *)
(* list of connection profiles and what the messages of these calls do     *)
(* (app.rs).  Every call is a task of its own; its answer is made at the   *)
(* service at one time and handled by the UI at another, in any order.     *)
(***************************************************************************)
EXTENDS Integers, FiniteSets

CONSTANTS
  Services,  \* the services there are
  Profiles,  \* the connection profiles there may be, each made once
  Home,      \* the service of each
  Nothing,   \* no service, no profile
  MaxCalls   \* bound: calls of the user

ASSUME ConnectAssumption ==
  /\ Home \in [Profiles -> Services]
  /\ Nothing \notin Services \cup Profiles
  /\ MaxCalls \in Nat

VARIABLES
  profile,      \* the service chosen
  client,       \* the service the client talks to
  status,       \* what the status bar says
  connections,  \* the profiles listed
  tab,          \* the connection of the tab
  life,         \* what became of each profile
  calls,        \* calls that are not handled
  made          \* how many there were, those of the UI included

uiVars == <<profile, client, status, connections, tab>>
vars == <<uiVars, life, calls, made>>

\* A call, to a service, about a profile or none, and its answer.
NewCall(kind, s, p) ==
  [nr |-> made + 1, kind |-> kind, service |-> s, about |-> p,
   answer |-> "none", list |-> {}]

\* Type correctness.
TypeOK ==
  /\ profile \in Services \cup {Nothing}
  /\ client \in Services \cup {Nothing}
  /\ status \in {"unconfigured", "connecting", "connected", "failed"}
  /\ connections \subseteq Profiles
  /\ tab \in Profiles \cup {Nothing}
  /\ life \in [Profiles -> {"new", "stored", "deleted"}]
  /\ made \in Nat
  /\ calls \subseteq [nr : 1 .. made, kind : {"info", "list", "save"},
                      service : Services, about : Profiles \cup {Nothing},
                      answer : {"none", "ok", "err"}, list : SUBSET Profiles]

Init ==
  /\ profile = Nothing
  /\ client = Nothing
  /\ status = "unconfigured"
  /\ connections = {}
  /\ tab = Nothing
  /\ life \in [Profiles -> {"new", "stored"}]
  /\ calls = {}
  /\ made = 0

-----------------------------------------------------------------------------
(* The user *)

Start(call) ==
  /\ made < MaxCalls
  /\ made' = made + 1
  /\ calls' = calls \cup {call}

\* connect; also again to the same service (Reconnect, another token).  The
\* last client and list stay, the client not to be used.
ConnectTo(s) ==
  /\ profile' = s
  /\ client' = Nothing
  /\ status' = "connecting"
  /\ Start(NewCall("info", s, Nothing))
  /\ UNCHANGED <<connections, tab, life>>

\* connect without a stored token: the client is kept.
NoToken(s) ==
  /\ profile' = s
  /\ status' = "failed"
  /\ UNCHANGED <<client, connections, tab, life, calls, made>>

\* forget_service.
Forget ==
  /\ profile # Nothing
  /\ profile' = Nothing
  /\ client' = Nothing
  /\ status' = "unconfigured"
  /\ connections' = {}
  /\ UNCHANGED <<tab, life, calls, made>>

\* refresh_connections.
Refresh ==
  /\ client # Nothing
  /\ Start(NewCall("list", client, Nothing))
  /\ UNCHANGED <<uiVars, life>>

\* The connection form, for a profile that is new.
SaveNew(p) ==
  /\ client = Home[p] /\ life[p] = "new"
  /\ ~\E c \in calls : c.about = p
  /\ Start(NewCall("save", client, p))
  /\ UNCHANGED <<uiVars, life>>

Choose(p) ==
  /\ p \in connections
  /\ tab' = p
  /\ UNCHANGED <<profile, client, status, connections, life, calls, made>>

-----------------------------------------------------------------------------
(* The services *)

Replace(c, with) == calls' = (calls \ {c}) \cup {with}

\* A call arrives and is answered, or fails.
Answer(c) ==
  /\ c \in calls /\ c.answer = "none"
  /\ \/ /\ Replace(c, [c EXCEPT !.answer = "err"])
        /\ UNCHANGED life
     \/ /\ c.kind = "info"
        /\ Replace(c, [c EXCEPT !.answer = "ok"])
        /\ UNCHANGED life
     \/ /\ c.kind = "list"
        /\ Replace(c, [c EXCEPT !.answer = "ok",
                         !.list = {p \in Profiles : Home[p] = c.service
                                                      /\ life[p] = "stored"}])
        /\ UNCHANGED life
     \/ /\ c.kind = "save"
        /\ Replace(c, [c EXCEPT !.answer = "ok"])
        /\ life' = [life EXCEPT ![c.about] = "stored"]
  /\ UNCHANGED <<uiVars, made>>

\* By this user or another.
Delete(p) ==
  /\ life[p] = "stored"
  /\ life' = [life EXCEPT ![p] = "deleted"]
  /\ UNCHANGED <<uiVars, calls, made>>

-----------------------------------------------------------------------------
(* The messages *)

\* A call is done, and the list asked for, with a client.
DoneAndRefresh(c, s) ==
  /\ made' = made + 1
  /\ calls' = (calls \ {c}) \cup {NewCall("list", s, Nothing)}

Done(c) == calls' = calls \ {c} /\ UNCHANGED made

\* Mutant: every answer is taken.
Never(c) == FALSE

\* Only the url is compared.
Superseded(c) == profile # c.service

\* Connected.
Connected(c) ==
  /\ c \in calls /\ c.kind = "info" /\ c.answer # "none"
  /\ \/ /\ Superseded(c)
        /\ Done(c)
        /\ UNCHANGED uiVars
     \/ /\ ~Superseded(c) /\ c.answer = "ok"
        /\ client' = c.service
        /\ status' = "connected"
        /\ DoneAndRefresh(c, c.service)
        /\ UNCHANGED <<profile, connections, tab>>
     \/ /\ ~Superseded(c) /\ c.answer = "err"
        /\ status' = "failed"
        /\ Done(c)
        /\ UNCHANGED <<profile, client, connections, tab>>
  /\ UNCHANGED life

\* Connections.  A tab that is bound to a profile that is not in the list
\* loses it, and one of none gets the first.
Listed(c) ==
  /\ c \in calls /\ c.kind = "list" /\ c.answer # "none"
  /\ Done(c)
  /\ IF c.answer = "ok"
     THEN /\ connections' = c.list
          /\ tab' \in IF tab \in c.list THEN {tab}
                      ELSE IF c.list = {} THEN {Nothing} ELSE c.list
     ELSE UNCHANGED <<connections, tab>>
  /\ UNCHANGED <<profile, client, status, life>>

\* ConnSaved.
Saved(c) ==
  /\ c \in calls /\ c.kind = "save" /\ c.answer # "none"
  /\ IF c.answer = "ok"
     THEN /\ tab' = IF tab = Nothing THEN c.about ELSE tab
          /\ IF client # Nothing THEN DoneAndRefresh(c, client) ELSE Done(c)
     ELSE Done(c) /\ UNCHANGED tab
  /\ UNCHANGED <<profile, client, status, connections, life>>

-----------------------------------------------------------------------------
User ==
  \/ \E s \in Services : ConnectTo(s) \/ NoToken(s)
  \/ Forget \/ Refresh
  \/ \E p \in Profiles : SaveNew(p) \/ Choose(p)

Handle(c) == Connected(c) \/ Listed(c) \/ Saved(c)

Next ==
  \/ User
  \/ \E c \in calls : Answer(c) \/ Handle(c)
  \/ \E p \in Profiles : Delete(p)

Spec == Init /\ [][Next]_vars

\* Calls end (the client's timeouts) and their messages are handled.
FairSpec ==
  /\ Spec
  /\ WF_vars(\E c \in calls : Answer(c))
  /\ WF_vars(\E c \in calls : Handle(c))

-----------------------------------------------------------------------------
(* Properties *)

\* Whatever calls are on their way, the client is never that of a service the
\* user has left for another, and with "connected" there is one (connect).
ClientIsCurrent ==
  /\ status \in {"connecting", "connected"} => client \in {Nothing, profile}
  /\ status = "connected" => client = profile /\ profile # Nothing

\* "Connecting..." ends (Connected, the client's timeouts).
ConnectingEnds == status = "connecting" ~> status # "connecting"

\* "A newer connect superseded this one" (app.rs): the answer of an earlier
\* connect is of no effect.
SupersededIgnored ==
  [][ \A c \in calls \ calls' :
        c.kind = "info" /\ (\E d \in calls : d.kind = "info" /\ d.nr > c.nr)
        => UNCHANGED <<status, client>> ]_vars

\* "Tabs bound to a deleted profile lose their binding" (app.rs): no other
\* profile of the service in use does, when a message is handled.
OnlyDeletedUnbound ==
  [][ calls' # calls /\ tab # Nothing /\ life[tab] = "stored"
      /\ Home[tab] = profile => tab' = tab ]_vars

\* "Everyone using that service [...] sees the same list"
\* (docs/user-guide.md), once every call is answered.
ListIsTheServices ==
  status = "connected" /\ calls = {}
  => \A p \in connections : Home[p] = profile

=============================================================================
