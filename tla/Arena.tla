------------------------------- MODULE Arena --------------------------------
(***************************************************************************)
(* What the host promises about the players' lives, and nothing of how:     *)
(* a player is in the session or not, and while it is in it is alive or     *)
(* dead.  An id is used once; the living may die, the dead come back alive, *)
(* and a client may leave in either state.  The host never leaves.          *)
(***************************************************************************)
EXTENDS Protocol

VARIABLES
    used,     \* every id handed out since the session started
    present,  \* the players in the session
    dead      \* those of them who wait for a respawn

arenaVars == <<used, present, dead>>

Init ==
    /\ used = {HostId}
    /\ present = {HostId}
    /\ dead = {}

\* A newcomer gets an id nobody had before, and starts alive.
Join(n) ==
    /\ n \in NetId \ used
    /\ used' = used \cup {n}
    /\ present' = present \cup {n}
    /\ UNCHANGED dead

Leave(n) ==
    /\ n \in present \ {HostId}
    /\ present' = present \ {n}
    /\ dead' = dead \ {n}
    /\ UNCHANGED used

Die(n) ==
    /\ n \in present \ dead
    /\ dead' = dead \cup {n}
    /\ UNCHANGED <<used, present>>

Revive(n) ==
    /\ n \in dead
    /\ dead' = dead \ {n}
    /\ UNCHANGED <<used, present>>

Next == \E n \in NetId : Join(n) \/ Leave(n) \/ Die(n) \/ Revive(n)

Spec == Init /\ [][Next]_arenaVars
=============================================================================
