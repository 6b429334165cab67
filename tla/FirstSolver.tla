----------------------------- MODULE FirstSolver -----------------------------
(***************************************************************************)
(* The solver's first version (algorithms/): threads that look for counter *)
(* examples of a number each, tell each other through the shared number    *)
(* found, which only updateFoundNumber locks, and tell a coordinator that  *)
(* other processes talk to as well.  A graph is only known by its number   *)
(* and by whether it has a clique; how it is changed is RowSearches'.      *)
(***************************************************************************)
EXTENDS Integers, FiniteSets

CONSTANTS
    Threads,
    START,    \* first number tried: 130
    LIMIT,    \* number at which a thread stops: 1000
    None      \* no part of a file

ASSUME FirstSolverAssumption ==
    START \in Nat \ {0} /\ LIMIT \in Nat /\ START < LIMIT /\ None \notin Threads

VARIABLES
    pc, number, received,  \* of each thread
    found,                 \* shared by the threads
    coord,                 \* the number the coordinators have come to
    solved,                \* numbers that a thread has had a counter example of
    writeToFile,           \* WRITE_TO_FILE
    files,                 \* per number; the buffer's last part comes with fclose
    crashed,               \* the process was killed
    contested              \* history: numbers with a file open in two threads at once

locals == <<pc, number, received>>
disk == <<writeToFile, files, crashed, contested>>
vars == <<locals, found, coord, solved, disk>>

Numbers == START .. LIMIT
NoFile == [exists |-> FALSE, head |-> None, tail |-> None]
Empty == [NoFile EXCEPT !.exists = TRUE]

Init ==
    /\ pc = [t \in Threads |-> "poll"]
    /\ number = [t \in Threads |-> START]
    /\ received = [t \in Threads |-> 0]
    /\ found = 0 /\ coord = 0 /\ solved = {}
    /\ writeToFile \in BOOLEAN
    /\ files = [n \in Numbers |-> NoFile]
    /\ crashed = FALSE /\ contested = {}

Goto(t, here, there) == pc[t] = here /\ pc' = [pc EXCEPT ![t] = there]
NumberIs(t, n) == number' = [number EXCEPT ![t] = n]
Hears(t, n) == received' = [received EXCEPT ![t] = n]

-----------------------------------------------------------------------------
(* sendCounterExampleToCoordinator.  After a first connection that works,  *)
(* the index compared with the number of coordinators was never set, so    *)
(* the client may take itself for unconnected.  read has no timeout, so    *)
(* that a thread may wait for the reply for ever, whether its message was  *)
(* taken or not; a reply that breaks off leaves it reading nothing.        *)
connectToCoordinator(t, there) ==
    /\ Goto(t, pc[t], there) /\ Hears(t, -1)
    /\ UNCHANGED coord
Taken(n) == coord' = IF n > coord THEN n ELSE coord
Exchange(t, n, there, never) ==
    \/ connectToCoordinator(t, there)
    \/ Taken(n) /\ Goto(t, pc[t], there) /\ \E r \in {-1, coord'} : Hears(t, r)
    \/ /\ Taken(n) \/ UNCHANGED coord
       /\ Goto(t, pc[t], never) /\ UNCHANGED received

(* Other processes find counter examples as well. *)
OtherClient ==
    /\ coord < LIMIT
    /\ \E n \in Numbers : n > coord /\ coord' = n
    /\ UNCHANGED <<locals, found, solved, disk>>

-----------------------------------------------------------------------------
(* ThreadSolve.  A poll that is not due counts as a reply of 0. *)
Poll(t) ==
    /\ pc[t] = "poll"
    /\ \/ Goto(t, "poll", "polled") /\ Hears(t, 0) /\ UNCHANGED coord
       \/ Exchange(t, 0, "polled", "stuckPolling")
    /\ UNCHANGED <<number, found, solved, disk>>

Polled(t) ==
    /\ \/ /\ received[t] >= number[t]
          /\ NumberIs(t, received[t]) /\ Goto(t, "polled", "heard")
       \/ /\ received[t] < number[t]
          /\ Goto(t, "polled", "check") /\ UNCHANGED number
    /\ UNCHANGED <<received, found, coord, solved, disk>>

(* updateFoundNumber, in one step by its lock.  Slip: no comparison.       *)
NewestUncompared(n) == n
Newest(n) == IF n > found THEN n ELSE found
UpdateFound(t, here, there) ==
    /\ Goto(t, here, there)
    /\ found' = Newest(number[t])
    /\ UNCHANGED <<number, received, coord, solved, disk>>
Heard(t) == UpdateFound(t, "heard", "next")
Announce(t) == UpdateFound(t, "announce", "send")

(* The number found is read twice, and never under the lock.  Slips: only  *)
(* a number beyond one's own counts; the loop's step is taken twice.       *)
OvertakenLater(t) == found > number[t]
Overtaken(t) == found >= number[t]
Check(t) ==
    /\ Goto(t, "check", IF Overtaken(t) THEN "switch" ELSE "flip")
    /\ UNCHANGED <<number, received, found, coord, solved, disk>>
SwitchAhead(t) ==
    /\ Goto(t, "switch", "next") /\ NumberIs(t, found + 1)
    /\ UNCHANGED <<received, found, coord, solved, disk>>
Switch(t) ==
    /\ Goto(t, "switch", "next") /\ NumberIs(t, found)
    /\ UNCHANGED <<received, found, coord, solved, disk>>

(* One flip, a count, and more flips if there are cliques left. *)
Flip(t) ==
    /\ \/ Goto(t, "flip", "poll") /\ UNCHANGED solved
       \/ Goto(t, "flip", "solved") /\ solved' = solved \union {number[t]}
    /\ UNCHANGED <<number, received, found, coord, disk>>

(* Without the lock, too. *)
Solved(t) ==
    /\ \/ found < number[t] /\ Goto(t, "solved", "announce")
       \/ found >= number[t] /\ Goto(t, "solved", "next")
    /\ UNCHANGED <<number, received, found, coord, solved, disk>>

Send(t) ==
    /\ pc[t] = "send"
    /\ Exchange(t, number[t], "sent", "stuckSending")
    /\ UNCHANGED <<number, found, solved, disk>>

(* Slip: a reply that did not come counts as one that was no better.       *)
WritesIfTold(t) == writeToFile /\ received[t] > 0
Writes(t) == writeToFile
Sent(t) ==
    /\ \/ received[t] > number[t] /\ NumberIs(t, received[t]) /\ Goto(t, "sent", "next")
       \/ received[t] <= number[t] /\ UNCHANGED number
          /\ Goto(t, "sent", IF Writes(t) THEN "access" ELSE "next")
    /\ UNCHANGED <<received, found, coord, solved, disk>>

(* The for loop. *)
Advance(t) ==
    /\ NumberIs(t, number[t] + 1)
    /\ Goto(t, "next", IF number[t] + 1 < LIMIT THEN "poll" ELSE "done")
    /\ UNCHANGED <<received, found, coord, solved, disk>>

-----------------------------------------------------------------------------
(* The file of a number: access, fopen, writeToFile, fclose.  Only         *)
(* writeToFile holds the lock, and it prints to what fopen returned, also  *)
(* when that is NULL.  Slip: the file is opened, then looked for.          *)
FileIs(t, f) == files' = [files EXCEPT ![number[t]] = f]
InUse(t) == \E u \in Threads \ {t} : number[u] = number[t] /\ pc[u] \in {"write", "close"}
AccessOpened(t) ==
    /\ Goto(t, "access", "next") /\ FileIs(t, Empty)
    /\ UNCHANGED <<number, received, found, coord, solved, writeToFile, crashed, contested>>
Access(t) ==
    /\ Goto(t, "access", IF files[number[t]].exists THEN "next" ELSE "open")
    /\ UNCHANGED <<number, received, found, coord, solved, disk>>
Open(t) ==
    /\ Goto(t, "open", "write") /\ FileIs(t, Empty)
    /\ contested' = IF InUse(t) THEN contested \union {number[t]} ELSE contested
    /\ UNCHANGED <<number, received, found, coord, solved, writeToFile, crashed>>
OpenFails(t) ==
    /\ pc[t] = "open" /\ crashed' = TRUE
    /\ UNCHANGED <<locals, found, coord, solved, writeToFile, files, contested>>
Write(t) ==
    /\ Goto(t, "write", "close") /\ FileIs(t, [files[number[t]] EXCEPT !.head = t])
    /\ UNCHANGED <<number, received, found, coord, solved, writeToFile, crashed, contested>>
Close(t) ==
    /\ Goto(t, "close", "next") /\ FileIs(t, [files[number[t]] EXCEPT !.tail = t])
    /\ UNCHANGED <<number, received, found, coord, solved, writeToFile, crashed, contested>>

ThreadSolve(t) ==
    /\ ~crashed
    /\ \/ Poll(t) \/ Polled(t) \/ Heard(t) \/ Check(t) \/ Switch(t) \/ Flip(t)
       \/ Solved(t) \/ Announce(t) \/ Send(t) \/ Sent(t) \/ Advance(t)
       \/ Access(t) \/ Open(t) \/ OpenFails(t) \/ Write(t) \/ Close(t)

Next == OtherClient \/ \E t \in Threads : ThreadSolve(t)

(* A thread goes on unless a read keeps it for ever, which leads to a      *)
(* place that no action leaves; the lock is only held for a while.         *)
Spec == Init /\ [][Next]_vars /\ \A t \in Threads : WF_vars(ThreadSolve(t))

-----------------------------------------------------------------------------
Places == {"poll", "polled", "heard", "check", "switch", "flip", "solved", "announce",
           "send", "sent", "next", "access", "open", "write", "close",
           "stuckPolling", "stuckSending", "done"}
TypeOK ==
    /\ pc \in [Threads -> Places]
    /\ number \in [Threads -> START .. LIMIT + 1]
    /\ received \in [Threads -> -1 .. LIMIT]
    /\ found \in 0 .. LIMIT /\ coord \in 0 .. LIMIT
    /\ solved \subseteq START .. LIMIT - 1
    /\ writeToFile \in BOOLEAN
    /\ files \in [Numbers -> [exists : BOOLEAN, head : Threads \union {None},
                                               tail : Threads \union {None}]]
    /\ crashed \in BOOLEAN /\ contested \subseteq Numbers

(* Some counter example is at least as far as n. *)
Backed(n) == n <= coord \/ \E m \in solved : n <= m

(* The number found is never ahead of the counter examples there are,      *)
(* and a thread leaves out numbers only below one (the unlocked reads of   *)
(* thread.c:89, :90 and :100, the replies of :83 and :106).                *)
FoundIsBacked == Backed(found)
NumbersAreBacked ==
    \A t \in Threads : number[t] > START => Backed(number[t] - 1)
NumbersHaveExamples == FoundIsBacked /\ NumbersAreBacked

(* Two threads that come to the same number at once never take it back:    *)
(* the number found only grows.                                            *)
FoundNeverFalls == [][found' >= found]_vars

(* While files are written, the counter example of a number that was       *)
(* announced, or one for more nodes, is with the coordinators, in a file   *)
(* from first part to last, or still in the hands of its thread, however   *)
(* the exchange with the coordinator went (thread.c:104-117).  It is lost  *)
(* only when two threads had the file open at once, when a file could not  *)
(* be opened, or with a thread that waits for its reply for ever.          *)
Handing == {"send", "stuckSending", "sent", "access", "open", "write", "close"}
Whole(f) == f.exists /\ f.head # None /\ f.head = f.tail
ExamplesAreKept ==
    writeToFile /\ ~crashed =>
        \A n \in 1 .. found :
            \/ n <= coord
            \/ \E m \in Numbers : n <= m /\ (Whole(files[m]) \/ m \in contested)
            \/ \E t \in Threads : pc[t] \in Handing /\ n <= number[t]

(* Threads that write the same file truncate each other's output, but the  *)
(* last to truncate writes all of it: no file that was closed is left with *)
(* a part missing, and the parts are of two graphs only if two threads had *)
(* it open at once (thread.c:111-114).                                     *)
FilesEndWhole ==
    \A n \in Numbers :
        (files[n].exists /\ \A t \in Threads : number[t] = n => pc[t] \notin {"write", "close"})
            => /\ files[n].head # None /\ files[n].tail # None
               /\ n \notin contested => Whole(files[n])

(* A thread whose number has been found by another goes on to a larger one *)
(* or is caught in an exchange that never ends, which holds up no other    *)
(* thread; or the process is killed.                                       *)
Overtakes(t, n) ==
    (number[t] = n /\ found >= n)
        ~> (number[t] > n \/ pc[t] \in {"stuckPolling", "stuckSending"} \/ crashed)
NobodyStaysBehind == \A t \in Threads, n \in START .. LIMIT - 1 : Overtakes(t, n)
=============================================================================
