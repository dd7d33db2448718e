---------------------------- MODULE CellMatchingMC ----------------------------
(* Small instances of CellMatching for TLC.                                  *)
EXTENDS CellMatching

(* A gap that holds whole minutes, and one that holds none.                  *)
MatchPairs == {<<30, 200>>, <<185, 210>>}

(* What the theorem on the optimum asks of the padding.                      *)
ASSUME MCPaddingDear == PaddingDearest

=============================================================================
