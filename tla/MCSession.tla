----------------------------- MODULE MCSession ------------------------------
(***************************************************************************)
(* Small instances of Session for TLC.                                      *)
(***************************************************************************)
EXTENDS Session, TLC

CONSTANTS c1, c2, hostGuid, ann, bob, casual, suit

Veteran == [NoRecord EXCEPT !.known = TRUE, !.deaths = 1]
Dressed == [Veteran EXCEPT !.look = suit]

Strangers == {NoRecord}
Returners == {NoRecord, Dressed}

\* Two guests, or one whose second connection is a rejoin.
TwoGuests == c1 :> ann @@ c2 :> bob
OneGuest == c1 :> ann
OneGuestTwice == c1 :> ann @@ c2 :> ann

\* `sent' only serves the step that sends it.
StateView == <<hostVars, link, clientVars, channelVars, viewVars>>
=============================================================================
