----------------------------- MODULE MCSessions -----------------------------
(* Instances of Sessions for TLC. *)
EXTENDS Sessions, TLC

CONSTANTS h1, h2, s1, s2

TwoHandlers == {h1, h2}
TwoIds == {s1, s2}
OneId == {s1}

\* Handlers and sessions are alike; for runs without liveness.
Alike == Permutations(TwoHandlers) \cup Permutations(TwoIds)

=============================================================================
