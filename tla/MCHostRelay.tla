---------------------------- MODULE MCHostRelay -----------------------------
(***************************************************************************)
(* A small instance of HostRelay for TLC.                                   *)
(***************************************************************************)
EXTENDS HostRelay, TLC

CONSTANTS c1, c2, hostGuid, guestGuid, plaza

\* What the save file may hold of a player: nothing, or a score and the position
\* it left with.
Returners == {NoRecord, [NoRecord EXCEPT !.known = TRUE, !.deaths = 1, !.pos = plaza]}

\* A claim below zero, one that wounds, one that kills, one above kMaxHitDamage.
AnyDamage == {-1, 1, 2, 3}

\* Connection handles are interchangeable.
HandleSymmetry == Permutations({c1, c2})
=============================================================================
