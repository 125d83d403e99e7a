----------------------------- MODULE MCTreeWalk -----------------------------
(* A directory with an object in it, and an object behind it; for two        *)
(* clients, two objects; for liveness, three objects, so that a walk is      *)
(* pooled twice.                                                             *)
EXTENDS TreeWalk, TLC

MCKeys == 1 .. 3
MCDirs == {1}
MCAncestors == [k \in MCKeys |-> IF k = 2 THEN {1} ELSE {}]
MCTwoObjects == 1 .. 2
MCNoAncestors == [k \in Keys |-> {}]
MCSymmetry == Permutations(Clients) \cup Permutations(WalkIds) \cup Permutations(TimerIds)
=============================================================================
