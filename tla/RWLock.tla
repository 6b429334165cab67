------------------------------- MODULE RWLock -------------------------------
(***************************************************************************)
(* The lock of service/read_write_lock.py, at the level of its monitor.    *)
(*                                                                         *)
(* A stretch of code that runs with the monitor held, up to its release or *)
(* to a Condition.wait, is one action: every variable it touches is only   *)
(* touched with the monitor held.  release() holds the monitor twice: it   *)
(* decides whom to wake, lets go of the monitor, and notifies in a second  *)
(* stretch, so anything may happen in between.  A notified thread has left *)
(* the condition's queue but has yet to get the monitor back.              *)
(***************************************************************************)
EXTENDS Integers, Sequences, FiniteSets

CONSTANT Threads

ASSUME ThreadsAssumption == IsFiniteSet(Threads)

VARIABLES
    rwlock,           \* readers inside, or -1 with a writer inside
    writers_waiting,  \* writers that sleep on writers_ok or were just woken
    writers_ok,       \* queue of the threads that sleep on that condition
    pc                \* where each thread is in the code

vars == <<rwlock, writers_waiting, writers_ok, pc>>

Places == {"idle", "readWait", "readWoken", "reading",
           "writeWait", "writeWoken", "writing", "wakeWriter", "wakeReaders"}

In(place) == \E t \in Threads : pc[t] = place
Goto(t, place) == pc' = [pc EXCEPT ![t] = place]

Init ==
    /\ rwlock = 0
    /\ writers_waiting = 0
    /\ writers_ok = <<>>
    /\ pc = [t \in Threads |-> "idle"]

-----------------------------------------------------------------------------
(* The loop of acquire_read: sleep on readers_ok, or go in.  *)
(* Slips: the test forgets the writer inside, or the writers waiting.      *)
ReadBlockedByWaiters == writers_waiting # 0
ReadBlockedByWriter == rwlock < 0
ReadBlocked == rwlock < 0 \/ writers_waiting # 0

EnterRead(t) ==
    /\ \/ ReadBlocked /\ Goto(t, "readWait") /\ UNCHANGED rwlock
       \/ ~ReadBlocked /\ Goto(t, "reading") /\ rwlock' = rwlock + 1
    /\ UNCHANGED <<writers_waiting, writers_ok>>

AcquireRead(t) == pc[t] = "idle" /\ EnterRead(t)

ResumeRead(t) == pc[t] = "readWoken" /\ EnterRead(t)

(* The loop of acquire_write, entered with `waiting' other writers counted. *)
EnterWrite(t, waiting) ==
    \/ /\ rwlock # 0
       /\ writers_waiting' = waiting + 1
       /\ writers_ok' = Append(writers_ok, t)
       /\ Goto(t, "writeWait")
       /\ UNCHANGED rwlock
    \/ /\ rwlock = 0
       /\ rwlock' = -1
       /\ writers_waiting' = waiting
       /\ Goto(t, "writing")
       /\ UNCHANGED writers_ok

(* Slip: the count does not go down after a wait.                          *)
AcquireWrite(t) == pc[t] = "idle" /\ EnterWrite(t, writers_waiting)

ResumeWriteCounted(t) == pc[t] = "writeWoken" /\ EnterWrite(t, writers_waiting)
ResumeWrite(t) == pc[t] = "writeWoken" /\ EnterWrite(t, writers_waiting - 1)

(* release(): drop the hold and decide, with the monitor held, whom to     *)
(* wake.  Slips: the flags are computed before the hold is dropped,        *)
(* readers wake only beside readers.                                       *)
Dropped == IF rwlock < 0 THEN 0 ELSE rwlock - 1

WakesWritersTooEarly == writers_waiting # 0 /\ rwlock = 0
WakesWriters == writers_waiting # 0 /\ rwlock' = 0

WakesReadersBesideReaders == writers_waiting = 0 /\ rwlock' > 0
WakesReaders == writers_waiting = 0

Release(t) ==
    /\ pc[t] \in {"reading", "writing"}
    /\ rwlock' = Dropped
    /\ Goto(t, IF WakesWriters THEN "wakeWriter"
               ELSE IF WakesReaders THEN "wakeReaders" ELSE "idle")
    /\ UNCHANGED <<writers_waiting, writers_ok>>

(* writers_ok.notify(): wakes the longest sleeper, or nobody. *)
NotifyWriter(t) ==
    /\ pc[t] = "wakeWriter"
    /\ \/ writers_ok = <<>> /\ Goto(t, "idle") /\ UNCHANGED writers_ok
       \/ /\ writers_ok # <<>>
          /\ pc' = [pc EXCEPT ![t] = "idle", ![Head(writers_ok)] = "writeWoken"]
          /\ writers_ok' = Tail(writers_ok)
    /\ UNCHANGED <<rwlock, writers_waiting>>

(* readers_ok.notifyAll(). *)
NotifyReaders(t) ==
    /\ pc[t] = "wakeReaders"
    /\ pc' = [u \in Threads |-> IF u = t THEN "idle"
                                ELSE IF pc[u] = "readWait" THEN "readWoken"
                                ELSE pc[u]]
    /\ UNCHANGED <<rwlock, writers_waiting, writers_ok>>

(* What a thread does once it asked for the lock, as opposed to asking. *)
Proceed(t) == \/ ResumeRead(t) \/ ResumeWrite(t)
              \/ Release(t) \/ NotifyWriter(t) \/ NotifyReaders(t)

Next == \E t \in Threads : AcquireRead(t) \/ AcquireWrite(t) \/ Proceed(t)

Spec == Init /\ [][Next]_vars

(* Threads that hold the lock finish with it, and a thread that contends   *)
(* for the monitor gets it; no thread is obliged to ask for the lock.      *)
FairSpec == Spec /\ \A t \in Threads : WF_vars(Proceed(t))

-----------------------------------------------------------------------------
Reading == {t \in Threads : pc[t] = "reading"}
Writing == {t \in Threads : pc[t] = "writing"}
Waiting == {t \in Threads : pc[t] \in {"writeWait", "writeWoken"}}

TypeOK ==
    /\ rwlock \in Int
    /\ writers_waiting \in Nat
    /\ writers_ok \in Seq(Threads)
    /\ pc \in [Threads -> Places]

(* It is the number of readers when nobody writes, and -1 when exactly one *)
(* thread writes.                                                          *)
CounterTellsHolders ==
    \/ Writing = {} /\ rwlock = Cardinality(Reading)
    \/ /\ rwlock = -1
       /\ Reading = {}
       /\ \E t \in Threads : Writing = {t}

(* writers_waiting is kept up by sleepers themselves, once before and once *)
(* after wait(): it counts exactly the writers between the two, and the    *)
(* queue of writers_ok holds exactly those that nobody notified yet.       *)
WaitersCounted ==
    /\ writers_waiting = Cardinality(Waiting)
    /\ \A t \in Threads :
          pc[t] = "writeWait" <=> \E i \in DOMAIN writers_ok : writers_ok[i] = t

(* The two counters of the lock are exact: rwlock tells who is inside, and *)
(* writers_waiting who waits, although each waiter leaves the count and    *)
(* joins it again around every wait() and others come in between.          *)
CountersAreExact == CounterTellsHolders /\ WaitersCounted

(* A writer sleeps only while the lock is held, or a notification is on    *)
(* its way, or another writer is already awake.                            *)
NoStrandedWriter ==
    In("writeWait") => rwlock # 0 \/ In("wakeWriter") \/ In("writeWoken")

(* A reader sleeps only because of a writer, in or waiting, or with the    *)
(* notification on its way.                                                *)
NoStrandedReader ==
    In("readWait") => rwlock < 0 \/ writers_waiting > 0 \/ In("wakeReaders")

(* No wake-up is lost, although release() notifies after it let go of the  *)
(* monitor it decided under.                                               *)
NobodyStranded == NoStrandedWriter /\ NoStrandedReader

(* The lock implements the abstract readers-writer lock. *)
Abstract == INSTANCE ReadersWriter WITH readers <- Reading, writers <- Writing
ImplementsReadersWriter == Abstract!Spec

(* "Write locks have priority over reads to prevent write starvation": no  *)
(* stream of readers keeps all the writers out.  Whenever a writer waits   *)
(* some writer gets the lock, and every sleeping writer is notified.       *)
WritersNotStarvedByReaders ==
    /\ (Waiting # {}) ~> (Writing # {})
    /\ \A t \in Threads : (pc[t] = "writeWait") ~> (pc[t] = "writeWoken")

(* A sleeping reader gets in if at some point no writer waits any more. *)
ReadersServedOnceWritersRest ==
    \A t \in Threads :
       (<>[](writers_waiting = 0 /\ rwlock >= 0))
          => ((pc[t] \in {"readWait", "readWoken"}) ~> (pc[t] = "reading"))
=============================================================================
