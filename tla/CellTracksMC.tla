----------------------------- MODULE CellTracksMC -----------------------------
EXTENDS CellTracks, TLC

Input(cells, time) == [cells |-> cells, time |-> time]

(* Two cells in the middle scans: they may go on, split, merge or vanish.    *)
Steady == Input(<<1, 2, 2, 1>>, <<1, 2, 3, 4>>)

(* The storm dies out and another one comes up. *)
DiesOut == Input(<<1, 1, 0, 1>>, <<1, 2, 3, 4>>)

(* More than a gap apart after the second scan. *)
Paused == Input(<<1, 1, 1, 2>>, <<1, 2, 4, 5>>)

SafetyInputs == {Steady, DiesOut, Paused}
PausedOnly   == {Paused}
===============================================================================
