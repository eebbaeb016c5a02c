------------------------------ MODULE MCTileFlow -------------------------------
(* Instances of TileFlow for TLC. *)
EXTENDS TileFlow

CONSTANTS s1, s2, v1, v2

OneView == [s \in Session |-> v1]
TwoViews == [s \in Session |-> IF s = s1 THEN v1 ELSE v2]
Shared == {OneView}
Apart == {TwoViews}
SharedOrApart == {OneView, TwoViews}
OneLooks == [s \in Session |-> IF s = s1 THEN {1} ELSE {}]
=============================================================================
