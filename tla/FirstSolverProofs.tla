-------------------------- MODULE FirstSolverProofs --------------------------
(***************************************************************************)
(* What holds of the first solver for any threads and any range of numbers.*)
(* Every number that goes around - found, a reply, the number a thread     *)
(* works on - is backed by a counter example, since the coordinators and   *)
(* the threads only ever add to these (BackedStays).                       *)
(***************************************************************************)
EXTENDS FirstSolver, TLAPS

Searching == {"poll", "polled", "check", "switch", "flip", "solved", "announce", "send", "sent",
              "access", "open", "write", "close"}
Having == {"heard", "solved", "announce", "send", "sent", "next",
           "access", "open", "write", "close"}

InRange(t) ==
    /\ pc[t] \in Searching => number[t] < LIMIT
    /\ pc[t] \in {"heard", "next"} => number[t] <= LIMIT
    /\ pc[t] = "switch" => number[t] <= found
BackedThread(t) ==
    /\ received[t] <= coord
    /\ pc[t] \in Having => Backed(number[t])
    /\ number[t] > START => Backed(number[t] - 1)

Inv ==
    /\ TypeOK
    /\ \A t \in Threads : InRange(t) /\ BackedThread(t)
    /\ FoundIsBacked

Grows == coord <= coord' /\ solved \subseteq solved'

(* Coordinators and threads forget no number.                              *)
LEMMA StepGrows ==
    ASSUME TypeOK, Next, \A t \in Threads : InRange(t)
    PROVE  Grows /\ coord' \in 0 .. LIMIT
<1> USE FirstSolverAssumption DEF TypeOK, Grows, Numbers
<1>1. CASE OtherClient
  BY <1>1 DEF OtherClient
<1>2. ASSUME NEW t \in Threads, Poll(t)
      PROVE  Grows /\ coord' \in 0 .. LIMIT
  BY <1>2 DEF Poll, Exchange, Taken, connectToCoordinator
<1>3. ASSUME NEW t \in Threads, Send(t)
      PROVE  Grows /\ coord' \in 0 .. LIMIT
  <2>1. number[t] \in 0 .. LIMIT
    BY <1>3 DEF Send, InRange, Searching
  <2> QED
    BY <1>3, <2>1 DEF Send, Exchange, Taken, connectToCoordinator
<1>4. ASSUME NEW t \in Threads, ThreadSolve(t), ~Poll(t), ~Send(t)
      PROVE  UNCHANGED coord /\ solved \subseteq solved'
  BY <1>4 DEF ThreadSolve, Polled, Heard, Announce, UpdateFound, Check, Switch, Flip,
              Solved, Sent, Advance, Access, Open, OpenFails, Write, Close, disk
<1> QED
  BY <1>1, <1>2, <1>3, <1>4 DEF Next

(* What was backed once stays backed.                                      *)
LEMMA BackedStays ==
    ASSUME TypeOK, Grows, coord' \in 0 .. LIMIT, NEW n \in Int, Backed(n)
    PROVE  Backed(n)'
BY FirstSolverAssumption DEF TypeOK, Grows, Backed, Numbers

(* A step of another thread leaves a thread in range and backed.           *)
LEMMA Others ==
    ASSUME Inv, Grows, coord' \in 0 .. LIMIT, found' \in Int, found <= found',
           NEW u \in Threads, pc'[u] = pc[u], number'[u] = number[u], received'[u] = received[u]
    PROVE  InRange(u)' /\ BackedThread(u)'
<1>1. number[u] \in Int /\ number[u] - 1 \in Int
  BY FirstSolverAssumption DEF Inv, TypeOK
<1>2. Backed(number[u]) => Backed(number[u])'
  BY <1>1, BackedStays DEF Inv
<1>3. Backed(number[u] - 1) => Backed(number[u] - 1)'
  BY <1>1, BackedStays DEF Inv
<1>4. InRange(u)'
  BY <1>1, FirstSolverAssumption DEF Inv, TypeOK, InRange
<1>5. (received[u] <= coord)'
  BY FirstSolverAssumption DEF Inv, TypeOK, Grows, BackedThread
<1>6. (pc[u] \in Having => Backed(number[u]))'
  BY <1>2 DEF Inv, BackedThread, Backed
<1>7. (number[u] > START => Backed(number[u] - 1))'
  BY <1>3 DEF Inv, BackedThread, Backed
<1> QED
  BY <1>4, <1>5, <1>6, <1>7 DEF BackedThread

(* What one step of thread t leaves behind for itself. *)
Own(t) ==
    /\ TypeOK' /\ InRange(t)' /\ BackedThread(t)' /\ FoundIsBacked' /\ found <= found'
    /\ \A u \in Threads \ {t} :
          pc'[u] = pc[u] /\ number'[u] = number[u] /\ received'[u] = received[u]

(* A step that does not touch the shared number keeps it backed.           *)
LEMMA FoundStays ==
    ASSUME Inv, Grows, coord' \in 0 .. LIMIT, found' = found
    PROVE  FoundIsBacked'
<1>1. found \in Int
  BY FirstSolverAssumption DEF Inv, TypeOK
<1>2. Backed(found)'
  BY <1>1, BackedStays DEF Inv, FoundIsBacked
<1> QED
  BY <1>2 DEF FoundIsBacked

LEMMA FoundHere == Inv => found \in Int /\ found <= found
BY FirstSolverAssumption DEF Inv, TypeOK

(* A step that leaves the shared number and the coordinators alone. *)
LEMMA QuietStep ==
    ASSUME Inv, NEW t \in Threads, UNCHANGED <<found, coord, solved>>, TypeOK',
           \A u \in Threads \ {t} :
              pc'[u] = pc[u] /\ number'[u] = number[u] /\ received'[u] = received[u],
           number'[t] = number[t], received'[t] = received[t], InRange(t)',
           pc'[t] \in Having => Backed(number[t])
    PROVE  Own(t)
<1>1. Grows /\ coord' \in 0 .. LIMIT
  BY FirstSolverAssumption DEF Inv, TypeOK, Grows
<1>3. BackedThread(t)'
  BY DEF Inv, BackedThread, Backed
<1> QED
  BY <1>1, <1>3, FoundStays, FoundHere DEF Own

(* A thread that goes on at a number it has heard of. *)
LEMMA JumpStep ==
    ASSUME Inv, NEW t \in Threads, NEW n \in START .. LIMIT, Backed(n), TypeOK',
           UNCHANGED <<received, found, coord, solved>>, NumberIs(t, n),
           \A u \in Threads \ {t} : pc'[u] = pc[u], pc'[t] \in {"heard", "next"}
    PROVE  Own(t)
<1> USE FirstSolverAssumption
<1>1. number'[t] = n /\ \A u \in Threads \ {t} : number'[u] = number[u]
  BY DEF Inv, TypeOK, NumberIs
<1>2. Grows /\ coord' \in 0 .. LIMIT
  BY DEF Inv, TypeOK, Grows
<1>3. InRange(t)'
  BY <1>1 DEF InRange, Searching
<1>4. Backed(number[t])' /\ Backed(number[t] - 1)'
  <2>1. n - 1 <= coord \/ \E m \in solved : n - 1 <= m
    BY DEF Backed, Inv, TypeOK, Numbers
  <2> QED
    BY <1>1, <2>1 DEF Backed
<1>5. BackedThread(t)'
  BY <1>4 DEF Inv, BackedThread
<1> QED
  BY <1>1, <1>2, <1>3, <1>5, FoundStays, FoundHere DEF Own

(* The file of a number: nothing but pc and files moves.                   *)
LEMMA FileStep ==
    ASSUME Inv, NEW t \in Threads,
           Access(t) \/ Open(t) \/ OpenFails(t) \/ Write(t) \/ Close(t)
    PROVE  Own(t)
<1>1. TypeOK'
  <2>1. CASE Access(t)
    BY <2>1 DEF Inv, TypeOK, Access, Goto, Places, disk
  <2>2. CASE Open(t)
    <3>1. number[t] \in Numbers
      BY <2>2, FirstSolverAssumption
         DEF Open, Goto, Inv, TypeOK, InRange, Searching, Numbers
    <3> QED
      BY <2>2, <3>1 DEF Inv, TypeOK, Open, Goto, FileIs, Places, Empty, NoFile
  <2>3. CASE OpenFails(t)
    BY <2>3 DEF Inv, TypeOK, OpenFails, locals
  <2> QED
    BY <2>1, <2>2, <2>3 DEF Inv, TypeOK, Write, Close, Goto, FileIs, Places
<1>2. /\ UNCHANGED <<number, received, found, coord, solved>>
      /\ \A u \in Threads \ {t} : pc'[u] = pc[u]
      /\ pc[t] \in {"access", "open", "write", "close"}
      /\ pc'[t] \in {"open", "write", "close", "next"}
  BY DEF Inv, TypeOK, Access, Open, OpenFails, Write, Close, Goto, locals
<1>3. InRange(t)' /\ Backed(number[t])
  BY <1>2, FirstSolverAssumption DEF Inv, TypeOK, InRange, Searching, BackedThread, Having
<1> QED
  BY <1>1, <1>2, <1>3, QuietStep

(* The second unlocked test decides whether to announce.                   *)
LEMMA SolvedStep ==
    ASSUME Inv, NEW t \in Threads, Solved(t)
    PROVE  Own(t)
<1>1. TypeOK'
  BY DEF Inv, TypeOK, Solved, Goto, Places, disk
<1>2. /\ UNCHANGED <<number, received, found, coord, solved>>
      /\ \A u \in Threads \ {t} : pc'[u] = pc[u]
      /\ pc[t] = "solved" /\ pc'[t] \in {"announce", "next"}
  BY DEF Inv, TypeOK, Solved, Goto
<1>3. InRange(t)' /\ Backed(number[t])
  BY <1>2, FirstSolverAssumption DEF Inv, TypeOK, InRange, Searching, BackedThread, Having
<1> QED
  BY <1>1, <1>2, <1>3, QuietStep

(* The answer to a poll is a coordinator's number, hence backed.           *)
LEMMA PolledStep ==
    ASSUME Inv, NEW t \in Threads, Polled(t)
    PROVE  Own(t)
<1>1. TypeOK'
  BY FirstSolverAssumption DEF Inv, TypeOK, Polled, Goto, NumberIs, Places, disk, BackedThread
<1>2. CASE received[t] >= number[t]
  <2>1. received[t] \in START .. LIMIT /\ Backed(received[t])
    BY <1>2, FirstSolverAssumption DEF Inv, TypeOK, BackedThread, Backed
  <2>2. /\ UNCHANGED <<received, found, coord, solved>> /\ NumberIs(t, received[t])
        /\ \A u \in Threads \ {t} : pc'[u] = pc[u]
        /\ pc'[t] = "heard"
    BY <1>2, FirstSolverAssumption DEF Polled, Goto, Inv, TypeOK
  <2> QED
    BY <1>1, <2>1, <2>2, JumpStep
<1>3. CASE received[t] < number[t]
  <2>1. /\ UNCHANGED <<number, received, found, coord, solved>>
        /\ \A u \in Threads \ {t} : pc'[u] = pc[u]
        /\ pc[t] = "polled" /\ pc'[t] = "check"
    BY <1>3, FirstSolverAssumption DEF Polled, Goto, Inv, TypeOK
  <2>2. InRange(t)' /\ pc'[t] \notin Having
    BY <2>1, FirstSolverAssumption DEF Inv, TypeOK, InRange, Searching, Having
  <2> QED
    BY <1>1, <2>1, <2>2, QuietStep
<1> QED
  BY <1>2, <1>3, FirstSolverAssumption DEF Inv, TypeOK

(* The first unlocked test, and the second unlocked read after it: what is *)
(* read is backed, and no smaller than at the test.                        *)
LEMMA CheckStep ==
    ASSUME Inv, NEW t \in Threads, Check(t)
    PROVE  Own(t)
<1>1. /\ UNCHANGED <<number, received, found, coord, solved>>
      /\ \A u \in Threads \ {t} : pc'[u] = pc[u]
      /\ pc[t] = "check"
      /\ pc'[t] = "flip" \/ (pc'[t] = "switch" /\ found >= number[t])
  BY DEF Check, Overtaken, Goto, Inv, TypeOK
<1>2. InRange(t)' /\ pc'[t] \notin Having
  BY <1>1, FirstSolverAssumption DEF Inv, TypeOK, InRange, Searching, Having
<1>3. TypeOK'
  BY DEF Inv, TypeOK, Check, Goto, Places, disk
<1> QED
  BY <1>1, <1>2, <1>3, QuietStep

LEMMA SwitchStep ==
    ASSUME Inv, NEW t \in Threads, Switch(t)
    PROVE  Own(t)
<1>1. found \in START .. LIMIT /\ Backed(found)
  BY FirstSolverAssumption DEF Inv, TypeOK, Switch, Goto, InRange, FoundIsBacked
<1>2. /\ UNCHANGED <<received, found, coord, solved>> /\ NumberIs(t, found)
      /\ \A u \in Threads \ {t} : pc'[u] = pc[u]
      /\ pc'[t] = "next"
  BY DEF Switch, Goto, Inv, TypeOK
<1>3. TypeOK'
  BY <1>1, <1>2, FirstSolverAssumption
     DEF Inv, TypeOK, Switch, Goto, NumberIs, Places, disk
<1> QED
  BY <1>1, <1>2, <1>3, JumpStep

(* The answer to an announcement.                                          *)
LEMMA SentStep ==
    ASSUME Inv, NEW t \in Threads, Sent(t)
    PROVE  Own(t)
<1>1. TypeOK'
  BY FirstSolverAssumption DEF Inv, TypeOK, Sent, Goto, NumberIs, Places, disk, BackedThread
<1>2. CASE received[t] > number[t]
  <2>1. received[t] \in START .. LIMIT /\ Backed(received[t])
    BY <1>2, FirstSolverAssumption DEF Inv, TypeOK, BackedThread, Backed
  <2>2. /\ UNCHANGED <<received, found, coord, solved>> /\ NumberIs(t, received[t])
        /\ \A u \in Threads \ {t} : pc'[u] = pc[u]
        /\ pc'[t] = "next"
    BY <1>2, FirstSolverAssumption DEF Sent, Goto, Inv, TypeOK
  <2> QED
    BY <1>1, <2>1, <2>2, JumpStep
<1>3. CASE received[t] <= number[t]
  <2>1. /\ UNCHANGED <<number, received, found, coord, solved>>
        /\ \A u \in Threads \ {t} : pc'[u] = pc[u]
        /\ pc[t] = "sent" /\ pc'[t] \in {"access", "next"}
    BY <1>3, FirstSolverAssumption DEF Sent, Goto, Inv, TypeOK
  <2>2. InRange(t)' /\ Backed(number[t])
    BY <2>1, FirstSolverAssumption DEF Inv, TypeOK, InRange, Searching, BackedThread, Having
  <2> QED
    BY <1>1, <2>1, <2>2, QuietStep
<1> QED
  BY <1>2, <1>3, FirstSolverAssumption DEF Inv, TypeOK

(* The for loop leaves a number behind that is backed.                     *)
LEMMA AdvanceStep ==
    ASSUME Inv, NEW t \in Threads, Advance(t)
    PROVE  Own(t)
<1> USE FirstSolverAssumption
<1>1. number[t] \in START .. LIMIT /\ Backed(number[t]) /\ pc[t] = "next"
  BY DEF Inv, TypeOK, Advance, Goto, InRange, BackedThread, Having
<1>2. TypeOK'
  BY <1>1 DEF Inv, TypeOK, Advance, Goto, NumberIs, Places, disk
<1>3. /\ UNCHANGED <<received, found, coord, solved>>
      /\ number'[t] = number[t] + 1
      /\ \A u \in Threads \ {t} : pc'[u] = pc[u] /\ number'[u] = number[u]
      /\ \/ pc'[t] = "poll" /\ number[t] + 1 < LIMIT
         \/ pc'[t] = "done"
  BY DEF Inv, TypeOK, Advance, Goto, NumberIs
<1>4. InRange(t)'
  BY <1>3 DEF InRange, Searching
<1>5. BackedThread(t)'
  BY <1>1, <1>3 DEF Inv, BackedThread, Backed, Having
<1>6. Grows /\ coord' \in 0 .. LIMIT
  BY <1>3 DEF Inv, TypeOK, Grows
<1> QED
  BY <1>2, <1>3, <1>4, <1>5, <1>6, FoundStays, FoundHere DEF Own

(* A counter example found by the thread itself backs its number.          *)
LEMMA FlipStep ==
    ASSUME Inv, NEW t \in Threads, Flip(t), Grows
    PROVE  Own(t)
<1> USE FirstSolverAssumption
<1>1. number[t] \in START .. LIMIT - 1 /\ pc[t] = "flip"
  BY DEF Inv, TypeOK, Flip, Goto, InRange, Searching
<1>2. TypeOK'
  BY <1>1 DEF Inv, TypeOK, Flip, Goto, Places, disk, Numbers
<1>3. /\ UNCHANGED <<number, received, found, coord>>
      /\ \A u \in Threads \ {t} : pc'[u] = pc[u]
      /\ \/ pc'[t] = "poll"
         \/ pc'[t] = "solved" /\ number[t] \in solved'
  BY DEF Inv, TypeOK, Flip, Goto
<1>4. InRange(t)'
  BY <1>1, <1>3 DEF InRange
<1>5. coord' \in 0 .. LIMIT /\ number[t] - 1 \in Int
  BY <1>1, <1>3 DEF Inv, TypeOK
<1>6. BackedThread(t)'
  <2>1. (number[t] > START => Backed(number[t] - 1))'
    BY <1>3, <1>5, BackedStays DEF Inv, BackedThread, Backed
  <2>2. (pc[t] \in Having => Backed(number[t]))'
    BY <1>1, <1>3 DEF Having, Backed
  <2> QED
    BY <1>3, <2>1, <2>2 DEF Inv, BackedThread
<1> QED
  BY <1>2, <1>3, <1>4, <1>5, <1>6, FoundStays, FoundHere DEF Own

(* updateFoundNumber, for a reply and for an example of its own.           *)
LEMMA UpdateStep ==
    ASSUME Inv, NEW t \in Threads, Heard(t) \/ Announce(t)
    PROVE  Own(t)
<1> USE FirstSolverAssumption
<1>1. number[t] \in START .. LIMIT /\ Backed(number[t])
  BY DEF Inv, TypeOK, Heard, Announce, UpdateFound, Goto, InRange, Searching,
         BackedThread, Having
<1>2. /\ UNCHANGED <<number, received, coord, solved>>
      /\ \A u \in Threads \ {t} : pc'[u] = pc[u]
      /\ found' \in {found, number[t]} /\ found <= found'
  BY DEF Heard, Announce, UpdateFound, Goto, Newest, Inv, TypeOK
<1>3. TypeOK'
  <2>1. found' \in 0 .. LIMIT
    BY <1>1, <1>2 DEF Inv, TypeOK
  <2>2. pc' \in [Threads -> Places] /\ UNCHANGED disk
    BY DEF Inv, TypeOK, Heard, Announce, UpdateFound, Goto, Places
  <2> QED
    BY <1>2, <2>1, <2>2 DEF Inv, TypeOK, disk
<1>4. InRange(t)'
  BY <1>2 DEF Inv, TypeOK, InRange, Heard, Announce, UpdateFound, Goto, Searching
<1>5. BackedThread(t)'
  BY <1>1, <1>2 DEF Inv, BackedThread, Backed
<1>6. FoundIsBacked'
  BY <1>1, <1>2 DEF Inv, FoundIsBacked, Backed
<1> QED
  BY <1>2, <1>3, <1>4, <1>5, <1>6 DEF Own

(* Whatever happens to an exchange, a reply is at most the coordinators'.  *)
LEMMA ExchangeStep ==
    ASSUME Inv, NEW t \in Threads, Poll(t) \/ Send(t), Grows, coord' \in 0 .. LIMIT
    PROVE  Own(t)
<1> USE FirstSolverAssumption
<1>1. /\ UNCHANGED <<number, found, solved>>
      /\ \A u \in Threads \ {t} : pc'[u] = pc[u] /\ received'[u] = received[u]
      /\ received'[t] \in {-1, 0, coord', received[t]}
      /\ pc[t] \in {"poll", "send"}
  BY DEF Poll, Send, Exchange, Taken, connectToCoordinator, Goto, Hears, Inv, TypeOK
<1>2. \/ pc[t] = "poll" /\ pc'[t] \in {"polled", "stuckPolling"}
      \/ pc[t] = "send" /\ pc'[t] \in {"sent", "stuckSending"}
  BY DEF Poll, Send, Exchange, Taken, connectToCoordinator, Goto, Inv, TypeOK
<1>3. TypeOK'
  <2>1. pc' \in [Threads -> Places] /\ received' \in [Threads -> -1 .. LIMIT]
    BY DEF Inv, TypeOK, Poll, Send, Exchange, Taken, connectToCoordinator, Goto, Hears, Places
  <2> QED
    BY <1>1, <2>1 DEF Inv, TypeOK, Poll, Send, disk
<1>4. InRange(t)'
  BY <1>1, <1>2 DEF Inv, InRange, Searching
<1>5. BackedThread(t)'
  <2>1. number[t] \in Int /\ number[t] - 1 \in Int
    BY DEF Inv, TypeOK
  <2>2. (pc[t] \in Having => Backed(number[t]))'
    BY <1>1, <1>2, <2>1, BackedStays DEF Inv, BackedThread, Having, Backed
  <2>3. (number[t] > START => Backed(number[t] - 1))'
    BY <1>1, <2>1, BackedStays DEF Inv, BackedThread, Backed
  <2>4. (received[t] <= coord)'
    BY <1>1 DEF Inv, TypeOK, BackedThread, Grows
  <2> QED
    BY <2>2, <2>3, <2>4 DEF BackedThread
<1> QED
  BY <1>1, <1>3, <1>4, <1>5, FoundStays, FoundHere DEF Own

(* Every step keeps the invariant.                                         *)
LEMMA StepKeepsInv ==
    ASSUME Inv, [Next]_vars
    PROVE  Inv'
<1>1. CASE UNCHANGED vars
  BY <1>1 DEF Inv, TypeOK, InRange, BackedThread, FoundIsBacked, Backed, vars, locals, disk
<1>2. CASE Next
  <2>1. Grows /\ coord' \in 0 .. LIMIT
    BY <1>2, StepGrows DEF Inv
  <2>2. CASE OtherClient
    <3>1. \A u \in Threads : InRange(u)' /\ BackedThread(u)'
      BY <2>1, <2>2, Others, FoundHere DEF OtherClient, locals
    <3>2. TypeOK' /\ FoundIsBacked'
      BY <2>1, <2>2, FoundStays DEF OtherClient, Inv, TypeOK, locals, disk
    <3> QED
      BY <3>1, <3>2 DEF Inv
  <2>3. ASSUME NEW t \in Threads, ThreadSolve(t)
        PROVE  Inv'
    <3>1. Own(t)
      BY <2>1, <2>3, FileStep, SolvedStep, PolledStep, CheckStep, SwitchStep, SentStep, AdvanceStep,
         FlipStep, UpdateStep, ExchangeStep DEF ThreadSolve
    <3>2. \A u \in Threads \ {t} : InRange(u)' /\ BackedThread(u)'
      BY <2>1, <3>1, Others, FirstSolverAssumption DEF Own, TypeOK
    <3> QED
      BY <3>1, <3>2 DEF Own, Inv
  <2> QED
    BY <1>2, <2>2, <2>3 DEF Next
<1> QED
  BY <1>1, <1>2

(* It holds at the start.                                                  *)
LEMMA InitInv == Init => Inv
<1> SUFFICES ASSUME Init PROVE Inv
  OBVIOUS
<1>1. TypeOK
  <2>1. crashed \in BOOLEAN /\ writeToFile \in BOOLEAN
    BY DEF Init
  <2>2. /\ pc = [t \in Threads |-> "poll"] /\ number = [t \in Threads |-> START]
        /\ received = [t \in Threads |-> 0]
        /\ found = 0 /\ coord = 0 /\ solved = {} /\ contested = {}
        /\ files = [n \in Numbers |-> NoFile]
    BY DEF Init
  <2>3. NoFile \in [exists : BOOLEAN, head : Threads \union {None},
                                     tail : Threads \union {None}]
    BY DEF NoFile
  <2> QED
    BY <2>1, <2>2, <2>3, FirstSolverAssumption DEF TypeOK, Places, Numbers
<1> QED
  BY <1>1, FirstSolverAssumption
     DEF Init, Inv, InRange, BackedThread, FoundIsBacked, Backed, Searching, Having

(* It is an invariant.                                                     *)
LEMMA InvHolds == Spec => []Inv
BY InitInv, StepKeepsInv, PTL DEF Spec

(* The types of the variables, for any threads and any range of numbers.   *)
THEOREM TypeCorrect == Spec => []TypeOK
<1>1. Inv => TypeOK
  BY DEF Inv
<1> QED
  BY InvHolds, <1>1, PTL

(* No number is told that no counter example backs, and no thread leaves   *)
(* out a number for less (thread.c:83, :90, :100 and :106).                *)
THEOREM NothingIsMadeUp == Spec => []NumbersHaveExamples
<1>1. Inv => NumbersHaveExamples
  BY DEF Inv, NumbersHaveExamples, NumbersAreBacked, BackedThread
<1> QED
  BY InvHolds, <1>1, PTL

(* The unlocked tests of found never lead to its being set back.           *)
THEOREM FoundOnlyGrows == Spec => FoundNeverFalls
<1>1. Inv /\ [Next]_vars => [found' >= found]_vars
  <2> SUFFICES ASSUME Inv, Next
               PROVE  found' >= found
    OBVIOUS
  <2>1. found \in Int
    BY FirstSolverAssumption DEF Inv, TypeOK
  <2>2. CASE OtherClient
    BY <2>1, <2>2 DEF OtherClient
  <2>3. ASSUME NEW t \in Threads, ThreadSolve(t)
        PROVE  found' \in {found, Newest(number[t])}
    BY <2>3 DEF ThreadSolve, Poll, Polled, Heard, Announce, UpdateFound, Check, Switch,
                Flip, Solved, Send, Sent, Advance, Access, Open, OpenFails, Write, Close
  <2> QED
    BY <2>1, <2>2, <2>3, FirstSolverAssumption DEF Next, Newest, Inv, TypeOK
<1> QED
  BY InvHolds, <1>1, PTL DEF Spec, FoundNeverFalls

-----------------------------------------------------------------------------
(* Files.  A file is truncated once it exists, so a part of it is missing  *)
(* only while a thread that has it open is still going to write that part. *)
(* One that never was open twice at once has one writer at most, and then  *)
(* the parts of the last.                                                  *)
Writing(n, places) == \E t \in Threads : number[t] = n /\ pc[t] \in places
EndsWhole(n) ==
    files[n].exists => /\ files[n].head = None => Writing(n, {"write"})
                       /\ files[n].tail = None => Writing(n, {"write", "close"})
Writer(t, n) == number[t] = n /\ pc[t] \in {"write", "close"}
Uncontested(n) ==
    n \notin contested =>
        /\ \A t, u \in Threads : Writer(t, n) /\ Writer(u, n) => t = u
        /\ \A t \in Threads : Writer(t, n) /\ pc[t] = "close" => files[n].head = t
        /\ files[n].exists /\ (\A t \in Threads : ~Writer(t, n)) => Whole(files[n])
FilesInv ==
    /\ \A n \in Numbers : EndsWhole(n) /\ Uncontested(n)
    /\ \A t \in Threads : pc[t] \in {"write", "close"} => files[number[t]].exists

(* A number that was announced while files are written, and where it is.   *)
Kept(n) ==
    \/ n <= coord
    \/ \E m \in Numbers : n <= m /\ files[m].exists
    \/ \E t \in Threads : pc[t] \in Handing /\ n <= number[t]
KeepInv ==
    /\ writeToFile => \A n \in 1 .. found : Kept(n)
    /\ \A t \in Threads : pc[t] = "heard" => number[t] <= coord

(* The steps of a thread that are not about its file.                      *)
LEMMA FilesStay ==
    ASSUME Inv, NEW t \in Threads, ThreadSolve(t), pc[t] \notin {"open", "write", "close"}
    PROVE  /\ UNCHANGED <<files, contested>>
           /\ pc'[t] \notin {"write", "close"}
           /\ \A u \in Threads \ {t} : pc'[u] = pc[u] /\ number'[u] = number[u]
BY DEF Inv, TypeOK, ThreadSolve, Poll, Polled, Heard, Announce, UpdateFound, Check, Switch,
       Flip, Solved, Send, Sent, Advance, Access, Open, OpenFails, Write, Close, disk, Exchange, Taken, connectToCoordinator,
       Goto, NumberIs

(* One thread's fopen, fwrite or fclose, with other threads at the same    *)
(* file: what it does to that file.                                        *)
LEMMA FileOf ==
    ASSUME Inv, FilesInv, NEW t \in Threads, Open(t) \/ Write(t) \/ Close(t)
    PROVE  /\ number[t] \in Numbers /\ UNCHANGED number
           /\ \A u \in Threads \ {t} : pc'[u] = pc[u]
           /\ EndsWhole(number[t]) /\ Uncontested(number[t])
BY FirstSolverAssumption
   DEF Inv, TypeOK, Numbers, InRange, Searching, Open, Write, Close, Goto, FilesInv

LEMMA OpenFile ==
    ASSUME Inv, FilesInv, NEW t \in Threads, Open(t)
    PROVE  /\ files'[number[t]].exists
           /\ EndsWhole(number[t])' /\ Uncontested(number[t])'
<1> DEFINE n == number[t]
<1>1. pc'[t] = "write" /\ files'[n] = Empty
  BY FileOf DEF Inv, TypeOK, Open, Goto, FileIs
<1>2. EndsWhole(n)'
  BY <1>1, FileOf DEF EndsWhole, Writing, Empty, NoFile
<1>3. ASSUME n \notin contested' PROVE \A u \in Threads : Writer(u, n)' <=> u = t
  <2>1. ~InUse(t)
    BY <1>3, FileOf DEF Open, Inv, TypeOK
  <2> QED  BY <1>1, <2>1, FileOf DEF InUse, Writer
<1>4. Uncontested(n)'
  BY <1>1, <1>3, FileOf DEF Uncontested
<1> QED  BY <1>1, <1>2, <1>4, FileOf DEF Empty, NoFile

LEMMA WriteFile ==
    ASSUME Inv, FilesInv, NEW t \in Threads, Write(t)
    PROVE  /\ files'[number[t]].exists
           /\ EndsWhole(number[t])' /\ Uncontested(number[t])'
<1> DEFINE n == number[t]
<1>1. /\ pc'[t] = "close" /\ files'[n].head = t
      /\ files'[n].exists = files[n].exists /\ pc[t] = "write"
      /\ contested' = contested
  BY FileOf DEF Inv, TypeOK, Write, Goto, FileIs
<1>2. files[n].exists
  BY <1>1 DEF FilesInv
<1>3. EndsWhole(n)'
  BY <1>1, FileOf, FirstSolverAssumption DEF EndsWhole, Writing, FilesInv
<1>4. Writer(t, n) /\ \A u \in Threads : Writer(u, n)' <=> Writer(u, n)
  BY <1>1, FileOf DEF Writer
<1>5. Uncontested(n)'
  BY <1>1, <1>4, FileOf DEF Uncontested
<1> QED  BY <1>1, <1>2, <1>3, <1>5, FileOf

LEMMA CloseFile ==
    ASSUME Inv, FilesInv, NEW t \in Threads, Close(t)
    PROVE  /\ files'[number[t]].exists
           /\ EndsWhole(number[t])' /\ Uncontested(number[t])'
<1> DEFINE n == number[t]
<1>1. /\ pc'[t] = "next" /\ files'[n].tail = t /\ pc[t] = "close"
      /\ files'[n].head = files[n].head
      /\ files'[n].exists = files[n].exists
      /\ contested' = contested
  BY FileOf DEF Inv, TypeOK, Close, Goto, FileIs
<1>2. files[n].exists /\ t # None
  BY <1>1, FirstSolverAssumption DEF FilesInv
<1>3. EndsWhole(n)'
  <2>1. files[n].head = None =>
           \E u \in Threads \ {t} : number[u] = n /\ pc[u] = "write"
    BY <1>1, <1>2, FileOf DEF EndsWhole, Writing
  <2>2. files'[n].head = None => Writing(n, {"write"})'
    BY <1>1, <2>1, FileOf DEF Writing
  <2> QED  BY <1>1, <1>2, <2>2, FileOf DEF EndsWhole
<1>4. Writer(t, n) /\ \A u \in Threads : Writer(u, n)' <=> (Writer(u, n) /\ u # t)
  BY <1>1, FileOf DEF Writer
<1>5. Uncontested(n)'
  BY <1>1, <1>2, <1>4, FileOf DEF Uncontested, Whole
<1> QED  BY <1>1, <1>2, <1>3, <1>5, FileOf

(* A step of a thread on one file, and the others.                         *)
LEMMA FilesStep ==
    ASSUME Inv, FilesInv, NEW t \in Threads, ThreadSolve(t)
    PROVE  FilesInv'
<1> USE FirstSolverAssumption
<1>1. CASE pc[t] \notin {"open", "write", "close"}
  <2>1. /\ UNCHANGED <<files, contested>> /\ pc'[t] \notin {"write", "close"}
        /\ \A u \in Threads \ {t} : pc'[u] = pc[u] /\ number'[u] = number[u]
    BY <1>1, FilesStay
  <2>2. \A n : \A u \in Threads : Writer(u, n)' <=> Writer(u, n)
    BY <1>1, <2>1 DEF Writer
  <2>3. ASSUME NEW n \in Numbers PROVE EndsWhole(n)' /\ Uncontested(n)'
    <3>1. EndsWhole(n)'
      BY <1>1, <2>1 DEF EndsWhole, Writing, FilesInv
    <3>2. Uncontested(n)'
      BY <1>1, <2>1, <2>2 DEF Uncontested, FilesInv, Writer
    <3> QED  BY <3>1, <3>2
  <2> QED  BY <1>1, <2>1, <2>3 DEF FilesInv, Numbers
<1>2. CASE OpenFails(t)
  BY <1>2 DEF OpenFails, locals, FilesInv, EndsWhole, Writing, Uncontested, Writer
<1>3. CASE pc[t] \in {"open", "write", "close"} /\ ~OpenFails(t)
  <2>1. Open(t) \/ Write(t) \/ Close(t)
    BY <1>3 DEF ThreadSolve, Poll, Polled, Heard, Announce, UpdateFound, Check, Switch, Flip,
                Solved, Send, Sent, Advance, Access, Goto
  <2>2. /\ number[t] \in Numbers /\ UNCHANGED number
        /\ \A u \in Threads \ {t} : pc'[u] = pc[u]
        /\ \A n \in Numbers \ {number[t]} : files'[n] = files[n]
        /\ contested \subseteq contested'
    BY <1>3, <2>1 DEF Inv, TypeOK, Numbers, InRange, Searching, Open, Write, Close, Goto, FileIs
  <2>3. /\ files'[number[t]].exists
        /\ EndsWhole(number[t])' /\ Uncontested(number[t])'
    BY <2>1, OpenFile, WriteFile, CloseFile
  <2>4. ASSUME NEW n \in Numbers, n # number[t] PROVE EndsWhole(n)' /\ Uncontested(n)'
    <3>1. EndsWhole(n) /\ Uncontested(n) /\ files'[n] = files[n]
      BY <2>2, <2>4 DEF FilesInv
    <3>2. \A places : Writing(n, places) => Writing(n, places)'
      BY <2>2, <2>4 DEF Writing
    <3>3. \A u \in Threads : /\ Writer(u, n)' <=> Writer(u, n)
                             /\ Writer(u, n) => pc'[u] = pc[u]
      BY <2>2, <2>4 DEF Writer
    <3>4. n \notin contested' => n \notin contested
      BY <2>2
    <3> QED  BY <3>1, <3>2, <3>3, <3>4 DEF EndsWhole, Uncontested
  <2>5. ASSUME NEW u \in Threads, pc'[u] \in {"write", "close"} PROVE files'[number'[u]].exists
    <3>1. CASE number[u] = number[t]
      BY <2>2, <2>3, <3>1
    <3>2. CASE number[u] # number[t]
      <4>1. pc'[u] = pc[u] /\ number[u] \in Numbers
        BY <2>2, <2>5, <3>2 DEF Inv, TypeOK, InRange, Searching, Numbers
      <4> QED  BY <2>2, <2>5, <3>2, <4>1 DEF FilesInv
    <3> QED  BY <3>1, <3>2
  <2>6. \A n \in Numbers : EndsWhole(n)' /\ Uncontested(n)'
    BY <2>2, <2>3, <2>4
  <2> QED  BY <2>5, <2>6 DEF FilesInv, Numbers
<1> QED  BY <1>1, <1>2, <1>3

(* An announced number leaves a thread's hands for the coordinators or a   *)
(* file.                                                                   *)
LEMMA HandedOver ==
    ASSUME Inv, FilesInv, NEW t \in Threads, ThreadSolve(t), writeToFile,
           pc[t] \in Handing, pc'[t] \notin Handing
    PROVE  number[t] <= coord' \/ (number[t] \in Numbers /\ files'[number[t]].exists)
<1> USE FirstSolverAssumption
<1>1. Send(t) \/ Sent(t) \/ Access(t) \/ Close(t)
  BY DEF ThreadSolve, Poll, Polled, Heard, Announce, UpdateFound, Check, Switch, Flip, Solved,
         Advance, Open, OpenFails, Write, Goto, Handing, Inv, TypeOK, locals
<1>2. number[t] \in Numbers
  <2>1. pc[t] \in {"send", "sent", "access", "close"}
    BY <1>1 DEF Send, Sent, Access, Close, Goto
  <2>2. number[t] \in START .. LIMIT + 1 /\ number[t] < LIMIT
    BY <2>1 DEF Inv, TypeOK, InRange, Searching
  <2> QED
    BY <2>2 DEF Numbers
<1>3. CASE Send(t)
  BY <1>3 DEF Send, Exchange, Taken, connectToCoordinator, Goto, Handing, Inv, TypeOK
<1>4. CASE Sent(t)
  BY <1>4 DEF Sent, Goto, Handing, Inv, TypeOK, Writes, BackedThread
<1>5. CASE Access(t)
  BY <1>2, <1>5 DEF Access, Goto, Handing, Inv, TypeOK, disk
<1>6. CASE Close(t)
  BY <1>2, <1>6 DEF Close, Goto, FileIs, Inv, TypeOK, FilesInv
<1> QED  BY <1>1, <1>3, <1>4, <1>5, <1>6

(* A step of one thread.                                                   *)
LEMMA KeepStep ==
    ASSUME Inv, FilesInv, KeepInv, Grows, NEW t \in Threads, ThreadSolve(t), Inv'
    PROVE  KeepInv'
<1> USE FirstSolverAssumption
<1>1. /\ UNCHANGED writeToFile
      /\ \A u \in Threads \ {t} : pc'[u] = pc[u] /\ number'[u] = number[u]
  BY DEF Inv, TypeOK, ThreadSolve, Poll, Polled, Heard, Announce, UpdateFound, Check, Switch,
         Flip, Solved, Send, Sent, Advance, Access, Open, OpenFails, Write, Close, locals,
         disk, Exchange,
         connectToCoordinator, Goto, NumberIs
<1>2. pc'[t] = "heard" => number'[t] <= coord'
  BY DEF Inv, TypeOK, BackedThread, ThreadSolve, Poll, Polled, Heard, Announce, UpdateFound,
         Check, Switch, Flip, Solved, Send, Sent, Advance, Access, Open, OpenFails, Write,
         Close, KeepInv, locals, Exchange,
         connectToCoordinator, Goto, NumberIs
<1>3. \A u \in Threads : pc'[u] = "heard" => number'[u] <= coord'
  BY <1>1, <1>2 DEF KeepInv, Grows, Inv, TypeOK
<1>4. \A m \in Numbers : files[m].exists => files'[m].exists
  BY DEF Inv, TypeOK, Empty, NoFile, ThreadSolve, Poll, Polled, Heard, Announce, UpdateFound,
         Check, Switch, Flip, Solved, Send, Sent, Advance, Access, Open, OpenFails, Write,
         Close, disk, FileIs
<1>5. pc[t] \in Handing /\ pc'[t] \in Handing => number'[t] = number[t]
  BY DEF Inv, TypeOK, Handing, ThreadSolve, Poll, Polled, Heard, Announce, UpdateFound,
         Check, Switch, Flip, Solved, Send, Sent, Advance, Access, Open, OpenFails, Write,
         Close, locals, Goto, NumberIs
<1>6. ASSUME writeToFile, NEW n \in Int, Kept(n) PROVE Kept(n)'
  <2>1. CASE n <= coord
    BY <2>1 DEF Kept, Grows, Inv, TypeOK
  <2>2. CASE \E m \in Numbers : n <= m /\ files[m].exists
    BY <2>2, <1>4 DEF Kept
  <2>3. ASSUME NEW u \in Threads, pc[u] \in Handing, n <= number[u] PROVE Kept(n)'
    <3>1. CASE u # t
      BY <1>1, <2>3, <3>1 DEF Kept
    <3>2. CASE u = t /\ pc'[t] \in Handing
      BY <1>5, <2>3, <3>2 DEF Kept
    <3>3. CASE u = t /\ pc'[t] \notin Handing
      BY <1>6, <2>3, <3>3, HandedOver DEF Kept, Inv, TypeOK
    <3> QED  BY <3>1, <3>2, <3>3
  <2> QED  BY <1>6, <2>1, <2>2, <2>3 DEF Kept
<1>7. \/ UNCHANGED found
      \/ found' \in {found, number[t]} /\ number'[t] = number[t]
           /\ (pc'[t] = "send" \/ number[t] <= coord)
  BY DEF Inv, TypeOK, KeepInv, ThreadSolve, Poll, Polled, Heard, Announce, UpdateFound, Newest,
         Check, Switch, Flip, Solved, Send, Sent, Advance, Access, Open, OpenFails, Write,
         Close, Goto
<1>8. ASSUME writeToFile', NEW n \in 1 .. found' PROVE Kept(n)'
  <2>1. CASE n <= found
    BY <1>1, <1>6, <1>8, <2>1 DEF KeepInv, Inv, TypeOK
  <2>2. CASE n > found
    BY <1>7, <1>8, <2>2 DEF Kept, Handing, Grows, Inv, TypeOK
  <2> QED  BY <2>1, <2>2 DEF Inv, TypeOK
<1> QED  BY <1>3, <1>8 DEF KeepInv

(* Both hold of every behaviour.                                           *)
LEMMA AlwaysFiles == Spec => [](FilesInv /\ KeepInv)
<1>1. Init => FilesInv /\ KeepInv
  BY FirstSolverAssumption
     DEF Init, FilesInv, EndsWhole, Uncontested, Writer, KeepInv, NoFile
<1>2. Inv /\ Inv' /\ FilesInv /\ KeepInv /\ [Next]_vars => FilesInv' /\ KeepInv'
  <2> SUFFICES ASSUME Inv, Inv', FilesInv, KeepInv, [Next]_vars PROVE FilesInv' /\ KeepInv'
    OBVIOUS
  <2>1. CASE UNCHANGED vars
    BY <2>1 DEF FilesInv, EndsWhole, Uncontested, Writer, KeepInv, Writing, Kept, vars,
                locals, disk
  <2>2. CASE OtherClient
    <3>1. /\ UNCHANGED <<pc, number, files, found, writeToFile, contested>>
          /\ coord \in Int /\ coord' \in Int /\ coord < coord'
      BY <2>2, FirstSolverAssumption DEF OtherClient, locals, disk, Inv, TypeOK, Numbers
    <3>2. FilesInv'
      BY <3>1 DEF FilesInv, EndsWhole, Writing, Uncontested, Writer
    <3>3. \A n \in 1 .. found : Kept(n) => Kept(n)'
      BY <3>1 DEF Kept, Inv, TypeOK
    <3>4. \A t \in Threads : pc[t] = "heard" => number[t] <= coord'
      BY <3>1, FirstSolverAssumption DEF KeepInv, Inv, TypeOK
    <3> QED  BY <3>1, <3>2, <3>3, <3>4 DEF KeepInv
  <2>3. ASSUME NEW t \in Threads, ThreadSolve(t) PROVE FilesInv' /\ KeepInv'
    BY <2>3, FilesStep, KeepStep, StepGrows DEF Next, Inv
  <2> QED  BY <2>1, <2>2, <2>3 DEF Next
<1> QED  BY <1>1, <1>2, InvHolds, PTL DEF Spec

(* While files are written, what was announced is with the coordinators,   *)
(* in a file of its own or in the hands of its thread, also when the send  *)
(* was lost or another thread has had the file open, only not at once with *)
(* this one (thread.c:104-117).                                            *)
THEOREM AnnouncedIsKept == Spec => []ExamplesAreKept
<1>1. ASSUME Inv, FilesInv, NEW m \in Numbers, files[m].exists
      PROVE  \/ Whole(files[m]) \/ m \in contested
             \/ \E t \in Threads : pc[t] \in Handing /\ number[t] = m
  <2>1. Uncontested(m)
    BY <1>1 DEF FilesInv
  <2>2. \A t \in Threads : Writer(t, m) => pc[t] \in Handing /\ number[t] = m
    BY DEF Writer, Handing
  <2> QED  BY <1>1, <2>1, <2>2 DEF Uncontested
<1>2. Inv /\ FilesInv /\ KeepInv => ExamplesAreKept
  <2> SUFFICES ASSUME Inv, FilesInv, KeepInv, writeToFile, NEW n \in 1 .. found, ~(n <= coord)
               PROVE  \/ \E m \in Numbers :
                            n <= m /\ (Whole(files[m]) \/ m \in contested)
                      \/ \E t \in Threads : pc[t] \in Handing /\ n <= number[t]
    BY DEF ExamplesAreKept
  <2>1. \/ \E m \in Numbers : n <= m /\ files[m].exists
        \/ \E t \in Threads : pc[t] \in Handing /\ n <= number[t]
    BY DEF KeepInv, Kept
  <2> QED  BY <1>1, <2>1
<1> QED  BY <1>2, InvHolds, AlwaysFiles, PTL

(* However many threads write one file, it ends with both its parts, and   *)
(* these are of one graph unless two threads had it open at once.          *)
THEOREM WholeFiles == Spec => []FilesEndWhole
<1>1. FilesInv => FilesEndWhole
  <2> SUFFICES ASSUME FilesInv, NEW n \in Numbers, files[n].exists,
                      \A t \in Threads : number[t] = n => pc[t] \notin {"write", "close"}
               PROVE  /\ files[n].head # None /\ files[n].tail # None
                      /\ n \notin contested => Whole(files[n])
    BY DEF FilesEndWhole
  <2>1. EndsWhole(n) /\ Uncontested(n) /\ \A t \in Threads : ~Writer(t, n)
    BY DEF FilesInv, Writer
  <2>2. files[n].head # None /\ files[n].tail # None
    BY <2>1 DEF EndsWhole, Writing
  <2> QED  BY <2>1, <2>2 DEF Uncontested
<1> QED  BY <1>1, AlwaysFiles, PTL
=============================================================================
