----------------------------- MODULE MCSaveText -----------------------------
(***************************************************************************)
(* Instances of SaveText for TLC.  A coordinate is a number of tenths, and *)
(* is printed with three digits where the code prints six.                 *)
(***************************************************************************)
EXTENDS SaveText

\* "ann", and two players whose names differ by a tab and a space.
MCGuid == {"ann", "bo b", "bo\tb"}
MCOnFile == [g \in MCGuid |-> IF g = "bo\tb" THEN "bo b" ELSE g]

\* Rounding to three digits, and what the prefixes of the digits are read as: the one
\* that ends with the point, and those that end before it.
MCCoord == 0..4990
MCAsRead == [v \in MCCoord |-> IF v < 1000 THEN v ELSE ((v + 5) \div 10) * 10]
MCCutAsRead ==
    [v \in MCCoord |->
        LET w == MCAsRead[v]
            inFraction == IF w % 10 = 0 THEN {} ELSE {w - (w % 10)}
        IN  inFraction \cup ({10 * (w \div (10 * 10^k)) : k \in 1..2} \ {0})]

MCNoRecord ==
    [hasPosition |-> FALSE, px |-> 0, py |-> 0, hasAppearance |-> FALSE,
     clothing |-> <<0, 0>>, kills |-> 0, deaths |-> 0]

\* Somebody seen and dressed; somebody who died more than a hundred times.
MCOldRec ==
    {[MCNoRecord EXCEPT !.hasPosition = TRUE, !.px = 345, !.py = 51,
                        !.hasAppearance = TRUE, !.clothing = <<7, 89>>],
     [MCNoRecord EXCEPT !.kills = 6, !.deaths = 117]}

MCPlace == {[px |-> 207, py |-> 4301]}
MCLook == {<<0, 63>>}
=============================================================================
