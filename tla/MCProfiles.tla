----------------------------- MODULE MCProfiles -----------------------------
(* Instances of Profiles for TLC. *)
EXTENDS Profiles, TLC

CONSTANTS h1, h2, h3, i1, i2, p1, p2, p3, p4

TwoHandlers == {h1, h2}
ThreeHandlers == {h1, h2, h3}
OneId == {i1}
TwoIds == {i1, i2}
ThreePools == {p1, p2, p3}
FourPools == {p1, p2, p3, p4}

\* Handlers, profile ids and pools are alike; for runs without liveness.
Alike == Permutations(Handlers) \cup Permutations(Ids) \cup Permutations(Pools)

=============================================================================
