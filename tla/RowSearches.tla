----------------------------- MODULE RowSearches -----------------------------
(***************************************************************************)
(* The searches that swap a one with a zero of the same row.  "permute" is *)
(* threadedGreedyIndexPermute: one index of the coordinator against the    *)
(* zeros of its row.  "systematic" is the first solver's loop around       *)
(* systematic_50_50_flip: random swaps for a number of calls, then all     *)
(* swaps of the best graph, row by row.                                    *)
(***************************************************************************)
EXTENDS LocalSearch

CONSTANTS
    ATTEMPTS,  \* calls that explore: 10 * counter_number
    FLIPS      \* flip_threshold: a fifth of the cells
ASSUME RowAssumption == ATTEMPTS \in Nat /\ FLIPS \in Nat

VARIABLES
    index,     \* the cell the coordinator dealt
    row, col1, col0,
    attempts,  \* counted up to ATTEMPTS
    flips
rowVars == <<index, row, col1, col0, attempts, flips>>

Still == /\ index = Null /\ row = 0 /\ col1 = 0 /\ col0 = 0
         /\ attempts = 0 /\ flips = 0

Columns(r) == r + 1 .. dim[1] - 1
LastRow == dim[1] - 3

(* The row of the graph as it is when none of its pairs is swapped.        *)
OnesIn(r) == {c \in Columns(r) : <<r, c>> \in best}
ZerosIn(r) == {c \in Columns(r) : <<r, c>> \notin best}
NextIn(C, col) == Min({c \in C : c >= col})

Switch(h, a, b) == (h \ {a, b}) \union ({a, b} \ h)
RowSwap(r, c1, c0) == Switch(ones, <<r, c1>>, <<r, c0>>)

-----------------------------------------------------------------------------
(* threadedGreedyIndexPermute.                                             *)
PermuteInit ==
    /\ search = "permute" /\ pc = "index"
    /\ best = ones /\ count = FindCliqueCount(ones)
    /\ index \in Pairs
    /\ row = 0 /\ col1 = 0 /\ col0 = 0 /\ attempts = 0 /\ flips = 0

(* Only a cell with value one is searched for.                             *)
Refuse ==
    /\ search = "permute" /\ index \notin ones
    /\ Goto("index", "done")
    /\ UNCHANGED <<ones, best, count, rowVars>>

(* getLastZeroIndexInRow walks down from the end of the row until it meets *)
(* a zero right of the diagonal; without one it leaves the array.          *)
Begin ==
    /\ search = "permute" /\ index \in ones
    /\ row' = index[1] /\ col0' = index[1] + 1
    /\ Goto("index", IF ZerosIn(index[1]) = {} THEN "astray" ELSE "row")
    /\ UNCHANGED <<ones, best, count, index, col1, attempts, flips>>

MoreZeros == col0 < Max(ZerosIn(row))

(* The row is tried, another thread has better numbers, or the coordinator *)
(* has.                                                                    *)
Leave ==
    /\ search = "permute"
    /\ Goto("row", "done")
    /\ UNCHANGED <<ones, best, count, rowVars>>

TryZero ==
    /\ search = "permute"
    /\ Goto("row", "compare")
    /\ MoreZeros
    /\ col0' = NextIn(ZerosIn(row), col0)
    /\ ones' = Switch(ones, index, <<row, col0'>>)
    /\ UNCHANGED <<best, count, index, row, col1, attempts, flips>>

NewCount == CliqueCount(ones, dim[1], count)
Better ==
    /\ search = "permute"
    /\ Goto("compare", "done")
    /\ NewCount < count
    /\ best' = ones /\ count' = NewCount
    /\ UNCHANGED <<ones, rowVars>>

NoBetter ==
    /\ search = "permute"
    /\ Goto("compare", "row")
    /\ NewCount >= count
    /\ ones' = Switch(ones, index, <<row, col0>>)
    /\ col0' = col0 + 1
    /\ UNCHANGED <<best, count, index, row, col1, attempts, flips>>

Permute == Refuse \/ Begin \/ Leave \/ TryZero \/ Better \/ NoBetter

-----------------------------------------------------------------------------
(* The first solver.  initialize_50_50: row 0 gets half of the nodes, the  *)
(* others half of what is left of them.                                    *)
Balanced(h) ==
    \A r \in 0 .. dim[1] - 2 :
       Cardinality({c \in Columns(r) : <<r, c>> \in h})
          = (IF r = 0 THEN dim[1] - 1 ELSE dim[1] - r) \div 2

SystematicInit ==
    /\ search = "systematic" /\ pc = "loop"
    /\ Balanced(ones)
    /\ best = ones /\ count = FindCliqueCount(ones)
    /\ index = Null /\ row = 0 /\ col1 = 0 /\ col0 = 0 /\ attempts = 0 /\ flips = 0

(* ThreadSolve flips one cell, now and then one left of the diagonal,      *)
(* which no count looks at.                                                *)
FlipOne ==
    /\ search = "systematic"
    /\ Goto("loop", "count")
    /\ \E F \in {{}} \union {{p} : p \in Pairs} : ones' = (ones \ F) \union (F \ ones)
    /\ UNCHANGED <<best, count, rowVars>>

Solved ==
    /\ search = "systematic" /\ FindCliqueCount(ones) = 0
    /\ Goto("count", "done")
    /\ UNCHANGED <<ones, best, count, rowVars>>

Explore ==
    /\ search = "systematic" /\ FindCliqueCount(ones) # 0 /\ attempts < ATTEMPTS
    /\ Goto("count", "flip")
    /\ flips' = 0
    /\ UNCHANGED <<ones, best, count, index, row, col1, col0, attempts>>

flip_50_50 ==
    /\ search = "systematic" /\ flips < FLIPS
    /\ Goto("flip", "flip")
    /\ \E r \in 0 .. LastRow : \E c, d \in Columns(r) :
          ones' = IF (<<r, c>> \in ones) # (<<r, d>> \in ones)
                  THEN RowSwap(r, c, d) ELSE ones
    /\ flips' = flips + 1
    /\ UNCHANGED <<best, count, index, row, col1, col0, attempts>>

Attempted == attempts' = Min({attempts + 1, ATTEMPTS})

IsNoMore(n) == n <= count
IsLess(n) == n < count
Explored ==
    /\ search = "systematic" /\ flips = FLIPS
    /\ Goto("flip", "loop")
    /\ LET currentCount == FindCliqueCount(ones) IN
          IF IsLess(currentCount) THEN best' = ones /\ count' = currentCount
          ELSE UNCHANGED <<best, count>>
    /\ Attempted
    /\ UNCHANGED <<ones, index, row, col1, col0, flips>>

StartOver ==
    /\ search = "systematic" /\ FindCliqueCount(ones) # 0 /\ attempts >= ATTEMPTS
    /\ Goto("count", "nextRow")
    /\ ones' = best /\ row' = 0
    /\ UNCHANGED <<best, count, index, col1, col0, attempts, flips>>

(* The last one and the last zero of a row are looked for as above.        *)
StartRow ==
    /\ search = "systematic" /\ row <= LastRow
    /\ Goto("nextRow", IF OnesIn(row) = {} \/ ZerosIn(row) = {} THEN "astray" ELSE "row")
    /\ col1' = row + 1 /\ col0' = row + 1
    /\ UNCHANGED <<ones, best, count, index, row, attempts, flips>>

MorePairs == col1 # Max(OnesIn(row)) + 1 /\ col0 # Max(ZerosIn(row)) + 1
TrySwap ==
    /\ search = "systematic"
    /\ Goto("row", "compare")
    /\ MorePairs
    /\ col1' = NextIn(OnesIn(row), col1) /\ col0' = NextIn(ZerosIn(row), col0)
    /\ ones' = RowSwap(row, col1', col0')
    /\ UNCHANGED <<best, count, index, row, attempts, flips>>

NewBest ==
    /\ search = "systematic"
    /\ Goto("compare", "loop")
    /\ IsLess(FindCliqueCount(ones))
    /\ best' = ones /\ count' = FindCliqueCount(ones)
    /\ Attempted
    /\ UNCHANGED <<ones, index, row, col1, col0, flips>>

AdvanceOnly ==
    IF col0 = Max(ZerosIn(row)) /\ col1 # Max(OnesIn(row))
    THEN col1' = col1 + 1 /\ col0' = col0
    ELSE col0' = col0 + 1 /\ col1' = col1
AdvanceZeros ==
    IF col0 = Max(ZerosIn(row)) /\ col1 # Max(OnesIn(row))
    THEN col1' = col1 /\ col0' = row + 1
    ELSE col0' = col0 + 1 /\ col1' = col1
Advance ==
    IF col0 = Max(ZerosIn(row)) /\ col1 # Max(OnesIn(row))
    THEN col1' = col1 + 1 /\ col0' = row + 1
    ELSE col0' = col0 + 1 /\ col1' = col1
NotBest ==
    /\ search = "systematic"
    /\ Goto("compare", "row")
    /\ ~IsLess(FindCliqueCount(ones))
    /\ ones' = RowSwap(row, col1, col0)
    /\ Advance
    /\ UNCHANGED <<best, count, index, row, attempts, flips>>

RowTried ==
    /\ search = "systematic"
    /\ Goto("row", "nextRow")
    /\ ~MorePairs /\ count # 0
    /\ row' = row + 1
    /\ UNCHANGED <<ones, best, count, index, col1, col0, attempts, flips>>

CallEnds ==
    /\ search = "systematic"
    /\ \/ Goto("row", "loop") /\ ~MorePairs /\ count = 0
       \/ Goto("nextRow", "loop") /\ row > LastRow
    /\ Attempted
    /\ UNCHANGED <<ones, best, count, index, row, col1, col0, flips>>

Systematic ==
    \/ FlipOne \/ Solved \/ Explore \/ flip_50_50 \/ Explored \/ StartOver
    \/ StartRow \/ TrySwap \/ NewBest \/ NotBest \/ RowTried \/ CallEnds

-----------------------------------------------------------------------------
NoGain(r, c1, c0) == FindCliqueCount(Switch(best, <<r, c1>>, <<r, c0>>)) >= count

(* The two counters of the systematic search meet every swap of a row:     *)
(* when it goes on to the next row, no swap of the rows above would help.  *)
(* When the search for an index reaches the end of its row, no zero but    *)
(* the last would help; that is left out when it follows on another.       *)
RowsAreTriedOut ==
    /\ search = "systematic" /\ pc \in {"nextRow", "row", "compare"} =>
          \A r \in 0 .. row - 1 : \A c1 \in OnesIn(r), c0 \in ZerosIn(r) : NoGain(r, c1, c0)
    /\ search = "permute" /\ pc = "row" /\ ~MoreZeros =>
          \A c \in ZerosIn(row) \ {Max(ZerosIn(row))} : NoGain(row, index[2], c)
=============================================================================
