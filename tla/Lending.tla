------------------------------ MODULE Lending ------------------------------
(***************************************************************************)
(* What a connection pool promises to the tasks that borrow from it: at    *)
(* most Limit connections are open, one is lent to one task at a time, and *)
(* what is lent carries no state an earlier borrower left on it.  Which    *)
(* connection is lent, how long one is kept and when it is closed is the   *)
(* pool's business.                                                        *)
(***************************************************************************)
EXTENDS Integers, FiniteSets

CONSTANTS Tasks, Conns, NoConn, Limit

VARIABLES
  kept,    \* connections the pool has open
  lent,    \* what each task has borrowed
  soiled   \* kept connections with state a borrower left

vars == <<kept, lent, soiled>>

Init ==
  /\ kept = {}
  /\ lent = [t \in Tasks |-> NoConn]
  /\ soiled = {}

Free(c) == \A t \in Tasks : lent[t] # c

\* Lend a kept connection, or open one for the task if the limit allows.
Lend(t, c) ==
  /\ lent[t] = NoConn
  /\ c # NoConn /\ Free(c) /\ c \notin soiled
  /\ c \notin kept => Cardinality(kept) < Limit
  /\ kept' = kept \cup {c}
  /\ lent' = [lent EXCEPT ![t] = c]
  /\ UNCHANGED soiled

Soil(t) ==
  /\ lent[t] # NoConn
  /\ soiled' = soiled \cup {lent[t]}
  /\ UNCHANGED <<kept, lent>>

\* Take the connection back clean, or close it.  Either may close some of
\* what is not lent.
TakeBack(t) ==
  /\ lent[t] # NoConn
  /\ lent' = [lent EXCEPT ![t] = NoConn]
  /\ \E gone \in SUBSET {c \in kept : \A u \in Tasks \ {t} : lent[u] # c} :
       /\ kept' = kept \ gone
       /\ soiled' = soiled \ (gone \cup {lent[t]})

Drop(c) ==
  /\ c \in kept /\ Free(c)
  /\ kept' = kept \ {c}
  /\ soiled' = soiled \ {c}
  /\ UNCHANGED lent

Next ==
  \/ \E t \in Tasks : Soil(t) \/ TakeBack(t) \/ (\E c \in Conns : Lend(t, c))
  \/ \E c \in Conns : Drop(c)

Spec == Init /\ [][Next]_vars

=============================================================================
