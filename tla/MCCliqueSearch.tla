--------------------------- MODULE MCCliqueSearch ---------------------------
EXTENDS CliqueSearch

Ask(kind, weighted, min, max, maximal, cap, order) ==
    [kind |-> kind, weighted |-> weighted, min |-> min, max |-> max,
     maximal |-> maximal, cap |-> cap, order |-> order]
Single(min, max, maximal, order) == Ask("single", TRUE, min, max, maximal, 0, order)
All(min, max, maximal, cap, order) == Ask("all", TRUE, min, max, maximal, cap, order)

NO_CAP == 1000    \* more than a graph of this size has cliques
SomeCalls ==
    {Single(0, 0, FALSE, "default"), Single(5, 5, FALSE, "none"),
     Single(1, 1, FALSE, "none"), Single(2, 3, TRUE, "default"),
     Single(1, 2, TRUE, "reverse"), Single(4, 6, TRUE, "default"),
     All(0, 0, TRUE, NO_CAP, "none"), All(3, 3, FALSE, NO_CAP, "default"),
     All(2, 4, TRUE, NO_CAP, "default"), All(3, 0, TRUE, NO_CAP, "reverse"),
     All(2, 0, FALSE, 1, "default"), All(5, 6, FALSE, NO_CAP, "none"),
     Ask("single", FALSE, 2, 2, TRUE, 0, "none"),
     Ask("all", FALSE, 2, 3, FALSE, NO_CAP, "default")}
=============================================================================
