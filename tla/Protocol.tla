------------------------------ MODULE Protocol ------------------------------
(***************************************************************************)
(* The vocabulary of the wire protocol (Protocol.hpp): the participants'    *)
(* net ids, the data a message may carry, and one constructor per message   *)
(* the host sends.  A message is a record tagged with its MsgType; only the *)
(* fields that some property tells apart are kept.                          *)
(***************************************************************************)
EXTENDS Integers

CONSTANTS
    MaxNetId,      \* bound: the largest net id the host hands out
    Guid,          \* the stable player identities
    NoGuid,        \* the empty GUID
    Look,          \* what a PlayerAppearance may say (gender and clothing)
    NoLook,        \* "no appearance on file"
    Pos,           \* positions in the world
    NoPos,         \* "no position saved"
    MaxHealth,     \* kMaxHealth
    MaxHitDamage,  \* kMaxHitDamage
    ClaimedDamage  \* the damage a client may claim in a PlayerHit, in range or not

ASSUME MaxNetIdAssumption == MaxNetId \in Nat \ {0}
ASSUME NoneAssumption ==
    /\ NoGuid \notin Guid
    /\ NoLook \notin Look
    /\ NoPos \notin Pos
ASSUME HealthAssumption ==
    /\ MaxHealth \in Nat \ {0}
    /\ MaxHitDamage \in Nat \ {0}
    /\ ClaimedDamage \subseteq Int

\* Net id 0 is "none yet": the host's own id is 1 and clients get 2, 3, ...
NoNetId == 0
HostId == 1
NetId == 1..MaxNetId

\* HP on file: NoHealth stands for a net id without an entry in the map.
NoHealth == -1
Health == 0..MaxHealth

-----------------------------------------------------------------------------
(* Host to client, reliable: delivered once, in order, on each connection.   *)

JoinMsg(n)       == [type |-> "Join", netId |-> n]
LeaveMsg(n)      == [type |-> "Leave", netId |-> n]
AppearanceMsg(n, l) == [type |-> "Appearance", netId |-> n, look |-> l]
HealthMsg(n, h)  == [type |-> "Health", netId |-> n, hp |-> h]
DeathMsg(n)      == [type |-> "Death", netId |-> n]
RespawnMsg(n)    == [type |-> "Respawn", netId |-> n]
StatsMsg(n, s)   == [type |-> "Stats", netId |-> n, kills |-> s.kills, deaths |-> s.deaths]
RestorePosMsg(n, p) == [type |-> "RestorePos", netId |-> n, pos |-> p]

(* Host to client, unreliable: may be lost, duplicated or overtaken.         *)

TransformMsg(n, p) == [type |-> "Transform", netId |-> n, pos |-> p]
FireMsg(n)         == [type |-> "Fire", netId |-> n]
=============================================================================
