---------------------------- MODULE RWLockProofs ----------------------------
(***************************************************************************)
(* Proofs about the lock of service/read_write_lock.py, for any finite set *)
(* of threads.  The inductive invariant adds one fact to the properties of *)
(* RWLock: no thread is twice in the queue of writers_ok.                  *)
(***************************************************************************)
EXTENDS RWLock, FiniteSetTheorems, TLAPS

QueuedOnce ==
    \A i, j \in DOMAIN writers_ok : writers_ok[i] = writers_ok[j] => i = j

IInv == TypeOK /\ CounterTellsHolders /\ WaitersCounted /\ QueuedOnce

-----------------------------------------------------------------------------
(* Adding a member to a finite set, or taking one out, moves its size by one. *)
LEMMA AddOne ==
    ASSUME NEW S, IsFiniteSet(S), NEW x, x \notin S
    PROVE  /\ IsFiniteSet(S \cup {x})
           /\ Cardinality(S \cup {x}) = Cardinality(S) + 1
           /\ Cardinality(S) \in Nat
  BY FS_AddElement, FS_CardinalityType

LEMMA TakeOne ==
    ASSUME NEW S, IsFiniteSet(S), NEW x \in S
    PROVE  /\ IsFiniteSet(S \ {x})
           /\ Cardinality(S \ {x}) = Cardinality(S) - 1
           /\ Cardinality(S) \in Nat
           /\ Cardinality(S) > 0
<1>1. Cardinality(S) \in Nat /\ Cardinality(S \ {x}) \in Nat
  BY FS_CardinalityType, FS_RemoveElement
<1> QED  BY <1>1, FS_RemoveElement

LEMMA SetsFinite ==
    /\ IsFiniteSet(Reading) /\ IsFiniteSet(Waiting)
    /\ Cardinality(Reading) \in Nat /\ Cardinality(Waiting) \in Nat
<1>1. Reading \subseteq Threads /\ Waiting \subseteq Threads
  BY DEF Reading, Waiting
<1> QED  BY <1>1, ThreadsAssumption, FS_Subset, FS_CardinalityType

LEMMA WaiterCounted ==
    ASSUME writers_waiting = Cardinality(Waiting), NEW t \in Waiting
    PROVE  /\ writers_waiting - 1 = Cardinality(Waiting \ {t})
           /\ writers_waiting - 1 \in Nat /\ writers_waiting # 0
<1>1. /\ Cardinality(Waiting \ {t}) = Cardinality(Waiting) - 1
      /\ Cardinality(Waiting) \in Nat /\ Cardinality(Waiting) > 0
  BY SetsFinite, TakeOne
<1> QED  BY <1>1

(* What a thread's move does to the three sets the invariant counts. *)
LEMMA GotoSets ==
    ASSUME TypeOK, NEW t \in Threads, NEW place \in Places, Goto(t, place)
    PROVE  /\ pc' \in [Threads -> Places]
           /\ Reading' = IF place = "reading" THEN Reading \cup {t} ELSE Reading \ {t}
           /\ Writing' = IF place = "writing" THEN Writing \cup {t} ELSE Writing \ {t}
           /\ Waiting' = IF place \in {"writeWait", "writeWoken"}
                         THEN Waiting \cup {t} ELSE Waiting \ {t}
  BY DEF TypeOK, Goto, Places, Reading, Writing, Waiting

-----------------------------------------------------------------------------
(* The sections of acquire_read: the reader counts itself in, or sleeps. *)
LEMMA EnterReadStep ==
    ASSUME IInv, NEW t \in Threads, pc[t] \in {"idle", "readWoken"}, EnterRead(t)
    PROVE  IInv'
<1> USE DEF IInv
<1>0. t \notin Reading /\ t \notin Writing /\ t \notin Waiting
  BY DEF Reading, Writing, Waiting
<1>1. CASE ReadBlocked /\ Goto(t, "readWait") /\ UNCHANGED rwlock
  <2>1. Reading' = Reading /\ Writing' = Writing /\ Waiting' = Waiting /\ pc' \in [Threads -> Places]
    BY <1>0, <1>1, GotoSets DEF Places
  <2>2. TypeOK'  BY <2>1, <1>1 DEF TypeOK, EnterRead
  <2>3. CounterTellsHolders'  BY <2>1, <1>1 DEF CounterTellsHolders
  <2>4. WaitersCounted' /\ QueuedOnce'
    BY <2>1, <1>1 DEF WaitersCounted, QueuedOnce, EnterRead, Goto, TypeOK
  <2> QED  BY <2>2, <2>3, <2>4
<1>2. CASE ~ReadBlocked /\ Goto(t, "reading") /\ rwlock' = rwlock + 1
  <2>1. /\ Reading' = Reading \cup {t} /\ Writing' = Writing /\ Waiting' = Waiting
        /\ pc' \in [Threads -> Places]
    BY <1>0, <1>2, GotoSets DEF Places
  <2>2. TypeOK'  BY <2>1, <1>2 DEF TypeOK, EnterRead
  <2>3. Writing = {} /\ rwlock = Cardinality(Reading)
    BY <1>2 DEF CounterTellsHolders, ReadBlocked
  <2>4. CounterTellsHolders'
    BY <2>1, <2>3, <1>0, <1>2, AddOne, SetsFinite DEF CounterTellsHolders
  <2>5. WaitersCounted' /\ QueuedOnce'
    BY <2>1, <1>2 DEF WaitersCounted, QueuedOnce, EnterRead, Goto, TypeOK
  <2> QED  BY <2>2, <2>4, <2>5
<1> QED  BY <1>1, <1>2 DEF EnterRead

(* The sections of acquire_write.  `others' counts the waiting writers but t. *)
LEMMA EnterWriteStep ==
    ASSUME IInv, NEW t \in Threads, pc[t] \in {"idle", "writeWoken"}, NEW others \in Nat,
           others = Cardinality(Waiting \ {t}), EnterWrite(t, others)
    PROVE  IInv'
<1> USE DEF IInv
<1>0. t \notin Reading /\ t \notin Writing
  BY DEF Reading, Writing
<1>1. CASE /\ rwlock # 0
           /\ writers_waiting' = others + 1
           /\ writers_ok' = Append(writers_ok, t)
           /\ Goto(t, "writeWait")
           /\ UNCHANGED rwlock
  <2>1. /\ Reading' = Reading /\ Writing' = Writing
        /\ Waiting' = Waiting \cup {t} /\ pc' \in [Threads -> Places]
    <3>1. /\ pc' \in [Threads -> Places]
          /\ Reading' = Reading \ {t} /\ Writing' = Writing \ {t}
          /\ Waiting' = Waiting \cup {t}
      BY <1>1, GotoSets DEF Places
    <3> QED  BY <1>0, <3>1
  <2>2. TypeOK'  BY <2>1, <1>1 DEF TypeOK
  <2>3. CounterTellsHolders'  BY <2>1, <1>1 DEF CounterTellsHolders
  <2>4. writers_waiting' = Cardinality(Waiting')
    <3>1. IsFiniteSet(Waiting \ {t})  BY SetsFinite, FS_Subset
    <3>2. Waiting' = (Waiting \ {t}) \cup {t}  BY <2>1
    <3> QED  BY <3>1, <3>2, <1>1, AddOne
  <2>5. ASSUME NEW u \in Threads
        PROVE  pc'[u] = "writeWait" <=> \E i \in DOMAIN writers_ok' : writers_ok'[i] = u
    <3>1. pc'[t] = "writeWait" /\ (u # t => pc'[u] = pc[u])
      BY <1>1 DEF Goto, TypeOK
    <3>2. /\ DOMAIN writers_ok' = 1..Len(writers_ok) + 1
          /\ Len(writers_ok) \in Nat
          /\ \A i \in 1..Len(writers_ok) : writers_ok'[i] = writers_ok[i]
          /\ writers_ok'[Len(writers_ok) + 1] = t
          /\ DOMAIN writers_ok = 1..Len(writers_ok)
      BY <1>1 DEF TypeOK
    <3>3. pc[u] = "writeWait" <=> \E i \in DOMAIN writers_ok : writers_ok[i] = u
      BY DEF WaitersCounted
    <3>4. CASE u = t  BY <3>1, <3>2, <3>4
    <3>5. CASE u # t  BY <3>1, <3>2, <3>3, <3>5
    <3> QED  BY <3>4, <3>5
  <2>6. QueuedOnce'
    <3>1. \A i \in DOMAIN writers_ok : writers_ok[i] # t
      BY DEF WaitersCounted, TypeOK
    <3>2. /\ DOMAIN writers_ok' = 1..Len(writers_ok) + 1
          /\ Len(writers_ok) \in Nat
          /\ \A i \in 1..Len(writers_ok) : writers_ok'[i] = writers_ok[i]
          /\ writers_ok'[Len(writers_ok) + 1] = t
          /\ DOMAIN writers_ok = 1..Len(writers_ok)
      BY <1>1 DEF TypeOK
    <3> QED  BY <3>1, <3>2 DEF QueuedOnce
  <2> QED  BY <2>2, <2>3, <2>4, <2>5, <2>6 DEF WaitersCounted
<1>2. CASE /\ rwlock = 0
           /\ rwlock' = -1
           /\ writers_waiting' = others
           /\ Goto(t, "writing")
           /\ UNCHANGED writers_ok
  <2>1. /\ Reading' = Reading /\ Writing' = Writing \cup {t}
        /\ Waiting' = Waiting \ {t} /\ pc' \in [Threads -> Places]
    BY <1>0, <1>2, GotoSets DEF Places
  <2>2. TypeOK'  BY <2>1, <1>2 DEF TypeOK
  <2>3. Writing = {} /\ Cardinality(Reading) = 0
    BY <1>2 DEF CounterTellsHolders
  <2>4. Reading = {}  BY <2>3, SetsFinite, FS_EmptySet
  <2>5. CounterTellsHolders'  BY <2>1, <2>3, <2>4, <1>2 DEF CounterTellsHolders
  <2>6. WaitersCounted' /\ QueuedOnce'
    BY <2>1, <1>2 DEF WaitersCounted, QueuedOnce, Goto, TypeOK
  <2> QED  BY <2>2, <2>5, <2>6
<1> QED  BY <1>1, <1>2 DEF EnterWrite

(* Leaving: the holder is taken out of the count, and goes on to wake others. *)
LEMMA ReleaseStep ==
    ASSUME IInv, NEW t \in Threads, Release(t)
    PROVE  IInv'
<1> USE DEF IInv
<1> DEFINE next == IF WakesWriters THEN "wakeWriter"
                   ELSE IF WakesReaders THEN "wakeReaders" ELSE "idle"
<1>1. next \in {"wakeWriter", "wakeReaders", "idle"} /\ Goto(t, next)
  BY DEF Release
<1> HIDE DEF next
<1>2. /\ Reading' = Reading \ {t} /\ Writing' = Writing \ {t}
      /\ Waiting' = Waiting /\ pc' \in [Threads -> Places]
  <2>1. t \notin Waiting  BY DEF Release, Waiting
  <2> QED  BY <1>1, <2>1, GotoSets DEF Places
<1>3. TypeOK'  BY <1>2 DEF TypeOK, Release, Dropped
<1>4. CounterTellsHolders'
  <2>1. CASE pc[t] = "reading"
    <3>1. t \in Reading /\ t \notin Writing  BY <2>1 DEF Reading, Writing
    <3>2. Writing = {} /\ rwlock = Cardinality(Reading) /\ rwlock > 0
      BY <3>1, SetsFinite, TakeOne DEF CounterTellsHolders
    <3>3. rwlock' = Cardinality(Reading')
      BY <3>1, <3>2, <1>2, SetsFinite, TakeOne DEF Release, Dropped
    <3> QED  BY <3>2, <3>3, <1>2 DEF CounterTellsHolders
  <2>2. CASE pc[t] = "writing"
    <3>1. t \in Writing  BY <2>2 DEF Writing
    <3>2. rwlock = -1 /\ Reading = {} /\ Writing = {t}
      BY <3>1 DEF CounterTellsHolders
    <3>3. rwlock' = 0 /\ Reading' = {} /\ Writing' = {}
      BY <3>2, <1>2 DEF Release, Dropped
    <3> QED  BY <3>3, FS_EmptySet DEF CounterTellsHolders
  <2> QED  BY <2>1, <2>2 DEF Release
<1>5. WaitersCounted' /\ QueuedOnce'
  BY <1>1, <1>2 DEF WaitersCounted, QueuedOnce, Release, Goto, TypeOK
<1> QED  BY <1>3, <1>4, <1>5

(* notify(): the head of the queue stops sleeping but stays counted. *)
LEMMA NotifyWriterStep ==
    ASSUME IInv, NEW t \in Threads, NotifyWriter(t)
    PROVE  IInv'
<1> USE DEF IInv
<1>1. CASE writers_ok = <<>> /\ Goto(t, "idle") /\ UNCHANGED writers_ok
  <2>1. /\ Reading' = Reading /\ Writing' = Writing
        /\ Waiting' = Waiting /\ pc' \in [Threads -> Places]
    <3>1. t \notin Reading /\ t \notin Writing /\ t \notin Waiting
      BY DEF Reading, Writing, Waiting, NotifyWriter
    <3>2. /\ pc' \in [Threads -> Places]
          /\ Reading' = Reading \ {t} /\ Writing' = Writing \ {t}
          /\ Waiting' = Waiting \ {t}
      BY <1>1, GotoSets DEF Places
    <3> QED  BY <3>1, <3>2
  <2> QED
    BY <1>1, <2>1 DEF NotifyWriter, TypeOK, CounterTellsHolders, WaitersCounted,
                      QueuedOnce, Goto
<1>2. CASE /\ writers_ok # <<>>
           /\ pc' = [pc EXCEPT ![t] = "idle", ![Head(writers_ok)] = "writeWoken"]
           /\ writers_ok' = Tail(writers_ok)
  <2> DEFINE h == Head(writers_ok)
             n == Len(writers_ok)
  <2>1. /\ h \in Threads /\ h = writers_ok[1] /\ n \in Nat /\ n > 0
        /\ DOMAIN writers_ok = 1..n
    BY <1>2 DEF TypeOK
  <2>2. pc[h] = "writeWait" /\ h # t
    BY <2>1 DEF WaitersCounted, NotifyWriter
  <2> HIDE DEF h
  <2>3. /\ pc' \in [Threads -> Places]
        /\ pc'[t] = "idle" /\ pc'[h] = "writeWoken"
        /\ \A u \in Threads \ {t, h} : pc'[u] = pc[u]
    BY <1>2, <2>1, <2>2 DEF TypeOK, Places, h
  <2>4. Reading' = Reading /\ Writing' = Writing /\ Waiting' = Waiting
    BY <2>1, <2>2, <2>3 DEF Reading, Writing, Waiting, NotifyWriter
  <2>5. /\ writers_ok' \in Seq(Threads) /\ DOMAIN writers_ok' = 1..n-1
        /\ \A i \in 1..n-1 : writers_ok'[i] = writers_ok[i + 1]
    BY <1>2, <2>1 DEF TypeOK
  <2> HIDE DEF n
  <2>6. TypeOK' /\ CounterTellsHolders'
    BY <2>3, <2>4, <2>5 DEF NotifyWriter, TypeOK, CounterTellsHolders
  <2>7. QueuedOnce'
    <3>1. \A i, j \in 1..n : writers_ok[i] = writers_ok[j] => i = j
      BY <2>1 DEF QueuedOnce
    <3>2. \A i \in 1..n-1 : i + 1 \in 1..n  BY <2>1
    <3>3. ASSUME NEW i \in 1..n-1, NEW j \in 1..n-1, writers_ok'[i] = writers_ok'[j]
          PROVE  i = j
      <4>1. writers_ok[i + 1] = writers_ok[j + 1]  BY <3>3, <2>5
      <4>2. i + 1 = j + 1  BY <4>1, <3>1, <3>2
      <4> QED  BY <4>2, <2>1
    <3> QED  BY <3>3, <2>5 DEF QueuedOnce
  <2>8. ASSUME NEW u \in Threads
        PROVE  pc'[u] = "writeWait" <=> \E i \in DOMAIN writers_ok' : writers_ok'[i] = u
    <3>1. pc[u] = "writeWait" <=> \E i \in DOMAIN writers_ok : writers_ok[i] = u
      BY DEF WaitersCounted
    <3>2. CASE u = h
      <4>1. \A i \in 1..n-1 : writers_ok[i + 1] # h
        BY <2>1 DEF QueuedOnce
      <4> QED  BY <4>1, <3>2, <2>3, <2>5
    <3>3. CASE u = t
      <4>1. pc[u] # "writeWait"  BY <3>3 DEF NotifyWriter
      <4>2. \A i \in 1..n-1 : i + 1 \in 1..n  BY <2>1
      <4> QED  BY <4>1, <4>2, <3>1, <3>3, <2>1, <2>3, <2>5
    <3>4. CASE u # h /\ u # t
      <4>1. pc'[u] = pc[u]  BY <3>4, <2>3
      <4>2. \A i \in 1..n : writers_ok[i] = u => i - 1 \in 1..n-1 /\ writers_ok'[i - 1] = u
        BY <3>4, <2>1, <2>5
      <4>3. \A i \in 1..n-1 : i + 1 \in 1..n  BY <2>1
      <4> QED  BY <4>1, <4>2, <4>3, <3>1, <2>1, <2>5
    <3> QED  BY <3>2, <3>3, <3>4
  <2> QED  BY <2>4, <2>6, <2>7, <2>8 DEF WaitersCounted, NotifyWriter
<1> QED  BY <1>1, <1>2 DEF NotifyWriter

(* notifyAll(): sleeping readers wake; nothing the invariant counts changes. *)
LEMMA NotifyReadersStep ==
    ASSUME IInv, NEW t \in Threads, NotifyReaders(t)
    PROVE  IInv'
<1> USE DEF IInv
<1>1. pc' \in [Threads -> Places]
  BY DEF NotifyReaders, TypeOK, Places
<1>2. Reading' = Reading /\ Writing' = Writing /\ Waiting' = Waiting
  BY DEF Reading, Writing, Waiting, NotifyReaders, TypeOK
<1>3. \A u \in Threads : pc'[u] = "writeWait" <=> pc[u] = "writeWait"
  BY DEF NotifyReaders, TypeOK
<1> QED
  BY <1>1, <1>2, <1>3 DEF NotifyReaders, TypeOK, CounterTellsHolders, WaitersCounted, QueuedOnce

-----------------------------------------------------------------------------
(* Initially nobody is in and nobody waits. *)
LEMMA InitIInv == Init => IInv
<1> SUFFICES ASSUME Init PROVE IInv
  OBVIOUS
<1>1. Reading = {} /\ Writing = {} /\ Waiting = {}
  BY DEF Init, Reading, Writing, Waiting
<1> QED
  BY <1>1, FS_EmptySet DEF Init, IInv, TypeOK, Places, CounterTellsHolders, WaitersCounted, QueuedOnce

LEMMA NextIInv == IInv /\ [Next]_vars => IInv'
<1> SUFFICES ASSUME IInv, [Next]_vars PROVE IInv'
  OBVIOUS
<1>0. writers_waiting = Cardinality(Waiting)
  BY DEF IInv, WaitersCounted
<1>1. ASSUME NEW t \in Threads, AcquireRead(t) PROVE IInv'
  BY <1>1, EnterReadStep DEF AcquireRead
<1>2. ASSUME NEW t \in Threads, ResumeRead(t) PROVE IInv'
  BY <1>2, EnterReadStep DEF ResumeRead
<1>3. ASSUME NEW t \in Threads, AcquireWrite(t) PROVE IInv'
  <2>1. Waiting \ {t} = Waiting  BY <1>3 DEF AcquireWrite, Waiting
  <2>2. writers_waiting \in Nat  BY <1>0, SetsFinite
  <2> QED  BY <1>3, <2>1, <2>2, <1>0, EnterWriteStep DEF AcquireWrite
<1>4. ASSUME NEW t \in Threads, ResumeWrite(t) PROVE IInv'
  <2>1. t \in Waiting  BY <1>4 DEF ResumeWrite, Waiting
  <2>2. writers_waiting - 1 = Cardinality(Waiting \ {t}) /\ writers_waiting - 1 \in Nat
    BY <2>1, <1>0, WaiterCounted
  <2> QED  BY <1>4, <2>2, EnterWriteStep DEF ResumeWrite
<1>5. ASSUME NEW t \in Threads, Release(t) PROVE IInv'
  BY <1>5, ReleaseStep
<1>6. ASSUME NEW t \in Threads, NotifyWriter(t) PROVE IInv'
  BY <1>6, NotifyWriterStep
<1>7. ASSUME NEW t \in Threads, NotifyReaders(t) PROVE IInv'
  BY <1>7, NotifyReadersStep
<1>8. CASE UNCHANGED vars
  BY <1>8 DEF vars, IInv, TypeOK, CounterTellsHolders, WaitersCounted, QueuedOnce,
              Reading, Writing, Waiting
<1> QED
  BY <1>1, <1>2, <1>3, <1>4, <1>5, <1>6, <1>7, <1>8 DEF Next, Proceed

LEMMA Invariance == Spec => []IInv
  BY InitIInv, NextIInv, PTL DEF Spec

(* Type correctness of the lock of read_write_lock.py. *)
THEOREM TypeCorrect == Spec => []TypeOK
<1>1. IInv => TypeOK  BY DEF IInv
<1> QED  BY <1>1, Invariance, PTL

(* The counter rwlock always tells which threads hold the lock, so "many   *)
(* readers ... XOR one and only one writer" holds for any set of threads,  *)
(* and writers_waiting is exact although it is kept around every wait().   *)
THEOREM CountersExact == Spec => []CountersAreExact
<1>1. IInv => CountersAreExact  BY DEF IInv, CountersAreExact
<1> QED  BY <1>1, Invariance, PTL

-----------------------------------------------------------------------------
(* No wake-up is lost.  Writers: the release that frees the lock finds the *)
(* sleeper in the count, and the notification finds it in the queue.       *)
LEMMA WriterStep ==
    ASSUME IInv, IInv', NoStrandedWriter, [Next]_vars
    PROVE  NoStrandedWriter'
<1> USE DEF In
<1>0. pc \in [Threads -> Places] /\ rwlock \in Int /\ writers_waiting \in Nat
  BY DEF IInv, TypeOK
<1>1. ASSUME NEW t \in Threads, pc[t] \in {"idle", "readWoken"}, EnterRead(t)
      PROVE  NoStrandedWriter'
  BY <1>0, <1>1 DEF NoStrandedWriter, EnterRead, ReadBlocked, Goto
<1>2. ASSUME NEW t \in Threads, NEW n \in Int, EnterWrite(t, n)
      PROVE  NoStrandedWriter'
  BY <1>0, <1>2 DEF NoStrandedWriter, EnterWrite, Goto
<1>3. ASSUME NEW t \in Threads, Release(t)
      PROVE  NoStrandedWriter'
  <2>1. SUFFICES ASSUME NEW u \in Threads, pc'[u] = "writeWait", rwlock' = 0
                 PROVE  pc'[t] = "wakeWriter"
    BY <1>0, <1>3 DEF NoStrandedWriter
  <2>2. pc[u] = "writeWait" /\ u # t
    BY <1>0, <1>3, <2>1 DEF Release, Goto
  <2>3. u \in Waiting  BY <2>2 DEF Waiting
  <2>4. writers_waiting # 0  BY <2>3, WaiterCounted DEF IInv, WaitersCounted
  <2> QED  BY <1>0, <1>3, <2>1, <2>4 DEF Release, Goto, WakesWriters
<1>4. ASSUME NEW t \in Threads, NotifyWriter(t)
      PROVE  NoStrandedWriter'
  <2>1. CASE writers_ok = <<>>
    <3>1. \A u \in Threads : pc[u] # "writeWait"
      BY <2>1 DEF IInv, WaitersCounted
    <3> QED  BY <1>0, <1>4, <2>1, <3>1 DEF NoStrandedWriter, NotifyWriter, Goto
  <2>2. CASE writers_ok # <<>>
    <3>1. Head(writers_ok) \in Threads  BY <2>2 DEF IInv, TypeOK
    <3>2. pc'[Head(writers_ok)] = "writeWoken"
      BY <1>0, <1>4, <2>2, <3>1 DEF NotifyWriter
    <3> QED  BY <3>1, <3>2 DEF NoStrandedWriter
  <2> QED  BY <2>1, <2>2
<1>5. ASSUME NEW t \in Threads, NotifyReaders(t)
      PROVE  NoStrandedWriter'
  BY <1>0, <1>5 DEF NoStrandedWriter, NotifyReaders
<1>6. CASE UNCHANGED vars
  BY <1>6 DEF vars, NoStrandedWriter
<1> QED
  BY <1>0, <1>1, <1>2, <1>3, <1>4, <1>5, <1>6
     DEF Next, Proceed, AcquireRead, ResumeRead, AcquireWrite, ResumeWrite

(* Readers: while nobody notifies them there is a writer in or waiting. *)
LEMMA ReaderStep ==
    ASSUME IInv, IInv', NoStrandedReader, [Next]_vars
    PROVE  NoStrandedReader'
<1> USE DEF In
<1>0. /\ pc \in [Threads -> Places] /\ rwlock \in Int
      /\ writers_waiting \in Nat /\ writers_waiting' \in Nat
  BY DEF IInv, TypeOK
<1>1. ASSUME NEW t \in Threads, pc[t] \in {"idle", "readWoken"}, EnterRead(t)
      PROVE  NoStrandedReader'
  BY <1>0, <1>1 DEF NoStrandedReader, EnterRead, ReadBlocked, Goto
<1>2. ASSUME NEW t \in Threads, pc[t] \in {"idle", "writeWoken"},
             NEW n \in Nat, EnterWrite(t, n)
      PROVE  NoStrandedReader'
  BY <1>0, <1>2 DEF NoStrandedReader, EnterWrite, Goto
<1>3. ASSUME NEW t \in Threads, Release(t)
      PROVE  NoStrandedReader'
  BY <1>0, <1>3 DEF NoStrandedReader, Release, Goto, WakesWriters, WakesReaders
<1>4. ASSUME NEW t \in Threads, NotifyWriter(t)
      PROVE  NoStrandedReader'
  <2>1. ASSUME NEW u \in Threads
        PROVE  /\ pc'[u] = "readWait" => pc[u] = "readWait"
               /\ pc[u] = "wakeReaders" => pc'[u] = "wakeReaders"
    <3>1. CASE writers_ok = <<>>
      BY <1>0, <1>4, <3>1 DEF NotifyWriter, Goto
    <3>2. CASE writers_ok # <<>>
      <4>1. Head(writers_ok) \in Threads /\ pc[Head(writers_ok)] = "writeWait"
        <5>1. /\ Head(writers_ok) = writers_ok[1] /\ 1 \in DOMAIN writers_ok
              /\ Head(writers_ok) \in Threads
          BY <3>2 DEF IInv, TypeOK
        <5> QED  BY <5>1 DEF IInv, WaitersCounted
      <4> QED  BY <1>0, <1>4, <3>2, <4>1 DEF NotifyWriter
    <3> QED  BY <3>1, <3>2
  <2>2. rwlock' = rwlock /\ writers_waiting' = writers_waiting
    BY <1>4 DEF NotifyWriter
  <2>3. SUFFICES ASSUME NEW u \in Threads, pc'[u] = "readWait"
                 PROVE  rwlock < 0 \/ writers_waiting > 0
                           \/ \E v \in Threads : pc'[v] = "wakeReaders"
    BY <2>2 DEF NoStrandedReader
  <2>4. pc[u] = "readWait"  BY <2>1, <2>3
  <2>5. CASE \E v \in Threads : pc[v] = "wakeReaders"
    BY <2>1, <2>5
  <2>6. CASE ~ \E v \in Threads : pc[v] = "wakeReaders"
    BY <2>4, <2>6 DEF NoStrandedReader
  <2> QED  BY <2>5, <2>6
<1>5. ASSUME NEW t \in Threads, NotifyReaders(t)
      PROVE  NoStrandedReader'
  BY <1>0, <1>5 DEF NoStrandedReader, NotifyReaders
<1>6. CASE UNCHANGED vars
  BY <1>6 DEF vars, NoStrandedReader
<1>7. ASSUME NEW t \in Threads, ResumeWrite(t)
      PROVE  NoStrandedReader'
  <2>1. t \in Waiting  BY <1>7 DEF ResumeWrite, Waiting
  <2>2. writers_waiting - 1 \in Nat  BY <2>1, WaiterCounted DEF IInv, WaitersCounted
  <2> QED  BY <1>2, <1>7, <2>2 DEF ResumeWrite
<1> QED
  BY <1>0, <1>1, <1>2, <1>3, <1>4, <1>5, <1>6, <1>7
     DEF Next, Proceed, AcquireRead, ResumeRead, AcquireWrite

(* release() wakes after it let the monitor go, and still no thread that   *)
(* sleeps is left behind, for any number of threads.                       *)
THEOREM NoLostWakeups == Spec => []NobodyStranded
<1>1. Init => NoStrandedWriter /\ NoStrandedReader
  BY DEF Init, NoStrandedWriter, NoStrandedReader, In
<1>2. NobodyStranded <=> NoStrandedWriter /\ NoStrandedReader
  BY DEF NobodyStranded
<1> QED
  BY <1>1, <1>2, WriterStep, ReaderStep, NextIInv, Invariance, PTL DEF Spec

-----------------------------------------------------------------------------
(* Every step of the monitor is a step of the abstract lock or invisible.  *)
THEOREM Refinement == Spec => ImplementsReadersWriter
<1>1. Init => Abstract!Init
  BY DEF Init, Abstract!Init, Reading, Writing
<1>2. IInv /\ [Next]_vars => [Abstract!Next]_(Abstract!vars)
  <2> SUFFICES ASSUME IInv, [Next]_vars PROVE [Abstract!Next]_(Abstract!vars)
    OBVIOUS
  <2> USE DEF Abstract!Next, Abstract!vars
  <2>0. TypeOK  BY DEF IInv
  <2>1. ASSUME NEW t \in Threads, pc[t] \in {"idle", "readWoken"}, EnterRead(t)
        PROVE  [Abstract!Next]_(Abstract!vars)
    <3>0. t \notin Reading /\ t \notin Writing  BY <2>1 DEF Reading, Writing
    <3>1. CASE ReadBlocked /\ Goto(t, "readWait")
      BY <2>0, <3>0, <3>1, GotoSets DEF Places
    <3>2. CASE ~ReadBlocked /\ Goto(t, "reading")
      <4>1. Writing = {}
        BY <3>2 DEF IInv, CounterTellsHolders, ReadBlocked
      <4>2. Reading' = Reading \cup {t} /\ Writing' = Writing
        BY <2>0, <3>0, <3>2, GotoSets DEF Places
      <4> QED  BY <4>1, <4>2, <3>0 DEF Abstract!BeginRead
    <3> QED  BY <3>1, <3>2, <2>1 DEF EnterRead
  <2>2. ASSUME NEW t \in Threads, pc[t] \in {"idle", "writeWoken"},
               NEW n \in Int, EnterWrite(t, n)
        PROVE  [Abstract!Next]_(Abstract!vars)
    <3>0. t \notin Reading /\ t \notin Writing  BY <2>2 DEF Reading, Writing
    <3>1. CASE Goto(t, "writeWait")
      BY <2>0, <3>0, <3>1, GotoSets DEF Places
    <3>2. CASE rwlock = 0 /\ Goto(t, "writing")
      <4>1. Writing = {} /\ Cardinality(Reading) = 0
        BY <3>2 DEF IInv, CounterTellsHolders
      <4>2. Reading = {}  BY <4>1, SetsFinite, FS_EmptySet
      <4>3. Reading' = Reading /\ Writing' = Writing \cup {t}
        BY <2>0, <3>0, <3>2, GotoSets DEF Places
      <4> QED  BY <4>1, <4>2, <4>3 DEF Abstract!BeginWrite
    <3> QED  BY <3>1, <3>2, <2>2 DEF EnterWrite
  <2>3. ASSUME NEW t \in Threads, Release(t)
        PROVE  [Abstract!Next]_(Abstract!vars)
    <3>1. PICK place \in {"wakeWriter", "wakeReaders", "idle"} : Goto(t, place)
      BY <2>3 DEF Release
    <3>2. Reading' = Reading \ {t} /\ Writing' = Writing \ {t}
      BY <2>0, <3>1, GotoSets DEF Places
    <3>3. t \in Reading \cup Writing  BY <2>3 DEF Release, Reading, Writing
    <3> QED  BY <3>2, <3>3 DEF Abstract!End
  <2>4. ASSUME NEW t \in Threads, NotifyWriter(t)
        PROVE  UNCHANGED <<Reading, Writing>>
    <3>1. CASE writers_ok = <<>>
      BY <2>0, <2>4, <3>1 DEF NotifyWriter, Goto, Reading, Writing, TypeOK
    <3>2. CASE writers_ok # <<>>
      <4>1. Head(writers_ok) \in Threads /\ pc[Head(writers_ok)] = "writeWait"
        <5>1. /\ Head(writers_ok) = writers_ok[1] /\ 1 \in DOMAIN writers_ok
              /\ Head(writers_ok) \in Threads
          BY <2>0, <3>2 DEF TypeOK
        <5> QED  BY <5>1 DEF IInv, WaitersCounted
      <4> QED  BY <2>0, <2>4, <3>2, <4>1 DEF NotifyWriter, TypeOK, Reading, Writing
    <3> QED  BY <3>1, <3>2
  <2>5. ASSUME NEW t \in Threads, NotifyReaders(t)
        PROVE  UNCHANGED <<Reading, Writing>>
    BY <2>0, <2>5 DEF NotifyReaders, TypeOK, Reading, Writing
  <2>6. CASE UNCHANGED vars
    BY <2>6 DEF vars, Reading, Writing
  <2>7. writers_waiting \in Int  BY <2>0 DEF TypeOK
  <2> QED
    BY <2>1, <2>2, <2>3, <2>4, <2>5, <2>6, <2>7
       DEF Next, Proceed, AcquireRead, ResumeRead, AcquireWrite, ResumeWrite
<1> QED
  BY <1>1, <1>2, Invariance, PTL DEF Spec, ImplementsReadersWriter, Abstract!Spec
=============================================================================
