--------------------------- MODULE ReadersWriter ---------------------------
(***************************************************************************)
(* What a readers-writer lock promises to its users, as the docstring of   *)
(* service/read_write_lock.py puts it: "Many readers can hold the lock XOR *)
(* one and only one writer".  There is no queue and no monitor here, only  *)
(* the threads that hold the lock.                                         *)
(***************************************************************************)
CONSTANT Threads

VARIABLES readers, writers

vars == <<readers, writers>>

Init == readers = {} /\ writers = {}

BeginRead(t) ==
    /\ writers = {}
    /\ t \notin readers
    /\ readers' = readers \cup {t}
    /\ UNCHANGED writers

BeginWrite(t) ==
    /\ readers = {}
    /\ writers = {}
    /\ writers' = {t}
    /\ UNCHANGED readers

End(t) ==
    /\ t \in readers \cup writers
    /\ readers' = readers \ {t}
    /\ writers' = writers \ {t}

Next == \E t \in Threads : BeginRead(t) \/ BeginWrite(t) \/ End(t)

Spec == Init /\ [][Next]_vars

-----------------------------------------------------------------------------
(* Readers and a writer never hold the lock together, nor do two writers. *)
Exclusion ==
    /\ readers = {} \/ writers = {}
    /\ \A t, u \in writers : t = u
=============================================================================
