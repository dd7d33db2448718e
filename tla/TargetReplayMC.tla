---------------------------- MODULE TargetReplayMC ----------------------------
EXTENDS TargetReplay

\* Two scores whose difference is within the margin, and one beyond it.
MCScore == [weak |-> 0, fair |-> 1, strong |-> 3]

\* Cell 1 may fade or fail its gate, cell 2 may rise past it or vanish.
MCContents ==
    {c \in [{1, 2} -> {"gone", "poor", "weak", "fair", "strong"}] :
        /\ c[1] \in {"gone", "poor", "weak"}
        /\ c[2] \in {"gone", "weak", "fair", "strong"}
        /\ c # [u \in {1, 2} |-> "gone"]}
=============================================================================
