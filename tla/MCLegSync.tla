----------------------------- MODULE MCLegSync -----------------------------
(***************************************************************************)
(* LegSync on one position with its pair of legs, and on two positions of  *)
(* a symbol of which one lacks its take-profit.                            *)
(***************************************************************************)
EXTENDS LegSync

\* "a_sl", "a_tp": the legs of position "a"; likewise of "b".
MCPair == {"a_sl", "a_tp"}
MCOnePosition == {"a"}
MCCrossing == {"a_sl", "b_sl", "b_tp"}
MCTwoPositions == {"a", "b"}

MCPosOf(l) == IF l \in {"a_sl", "a_tp"} THEN "a" ELSE "b"
MCRoleOf(l) == IF l \in {"a_sl", "b_sl"} THEN "sl" ELSE "tp"
=============================================================================
