---------------------------- MODULE EventStream ----------------------------
(***************************************************************************)
(* What the client of a query reads, whatever happens to the query: first  *)
(* `started`, then result sets, row counts and messages, at most one       *)
(* `error` after which no more results come, exactly one `done`, and only  *)
(* then the end of the stream.  A client may stop reading anywhere.        *)
(***************************************************************************)

VARIABLE seen  \* how far the client has read

Open == {"started", "in_result", "failed"}

Init == seen = "nothing"

Started == seen = "nothing" /\ seen' = "started"

ResultStart == seen = "started" /\ seen' = "in_result"

ResultEnd == seen = "in_result" /\ seen' = "started"

\* An error may cut a result set off.
Error == seen \in {"started", "in_result"} /\ seen' = "failed"

\* A result set that nothing cut off is complete before `done`.
Done == seen \in {"started", "failed"} /\ seen' = "done"

End == seen = "done" /\ seen' = "end"

Next == Started \/ ResultStart \/ ResultEnd \/ Error \/ Done \/ End

Spec == Init /\ [][Next]_seen

=============================================================================
