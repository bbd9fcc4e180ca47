------------------------------ MODULE ConfLock ------------------------------
(***************************************************************************)
(* The readers-writers lock of config.c: what read_conf() and write_conf() *)
(* do before and after they touch the list of settings.                    *)
(*                                                                         *)
(* gRead and gWrite are handed over: the last reader unlocks the gWrite    *)
(* the first reader locked, and the last writer the gRead of the first     *)
(* writer.  bionic's normal mutexes allow that, so a mutex is just locked  *)
(* or not.  A thread's pc names the mutex operation it is about to do;     *)
(* the counters are only touched under gMutex1 and gMutex2, so counting is *)
(* part of the step that locks them.                                       *)
(***************************************************************************)
EXTENDS Naturals, FiniteSets

CONSTANT Threads   \* the threads that use the settings

ASSUME ThreadsAssumption == IsFiniteSet(Threads)

Mutexes == {"gMutex1", "gMutex2", "gMutex3", "gRead", "gWrite"}

VARIABLES
  pc,          \* where each thread is
  locked,      \* the mutexes that are locked
  numreaders, numwriters

vars == <<pc, locked, numreaders, numwriters>>

ReaderPcs == {"r_lock3", "r_lockRead", "r_lock1", "r_lockWrite", "r_unlock1", "r_unlockRead",
              "r_unlock3", "reading", "r_leave", "r_left"}
WriterPcs == {"w_lock2", "w_lockRead", "w_unlock2", "w_lockWrite", "writing", "w_unlockWrite",
              "w_leave", "w_left"}

Init ==
  /\ pc = [t \in Threads |-> "idle"]
  /\ locked = {}
  /\ numreaders = 0 /\ numwriters = 0

-----------------------------------------------------------------------------
Move(t, from, to) == pc[t] = from /\ pc' = [pc EXCEPT ![t] = to]

Lock(t, from, m, to) ==
  /\ Move(t, from, to)
  /\ m \notin locked /\ locked' = locked \cup {m}
  /\ UNCHANGED <<numreaders, numwriters>>

Unlock(t, from, m, to) ==
  /\ Move(t, from, to)
  /\ locked' = locked \ {m}
  /\ UNCHANGED <<numreaders, numwriters>>

Call(t, to) == Move(t, "idle", to) /\ UNCHANGED <<locked, numreaders, numwriters>>

\* Mutant: the reader is not counted.
CountReaderNot(t) ==
  /\ Move(t, "r_lock1", IF numreaders = 0 THEN "r_lockWrite" ELSE "r_unlock1")
  /\ "gMutex1" \notin locked /\ locked' = locked \cup {"gMutex1"}
  /\ UNCHANGED <<numreaders, numwriters>>
\* pthread_mutex_lock(&gMutex1); numreaders++; the first reader takes gWrite.
CountReader(t) ==
  /\ Move(t, "r_lock1", IF numreaders = 0 THEN "r_lockWrite" ELSE "r_unlock1")
  /\ "gMutex1" \notin locked /\ locked' = locked \cup {"gMutex1"}
  /\ numreaders' = numreaders + 1
  /\ UNCHANGED numwriters

\* pthread_mutex_lock(&gMutex1); numreaders--; the last reader releases gWrite.
\* Mutant: the first one to leave does.
UncountReaderEarly(t) ==
  /\ Move(t, "r_leave", "r_left")
  /\ "gMutex1" \notin locked
  /\ locked' = (locked \ {"gWrite"}) \cup {"gMutex1"}
  /\ numreaders' = numreaders - 1
  /\ UNCHANGED numwriters
UncountReader(t) ==
  /\ Move(t, "r_leave", "r_left")
  /\ "gMutex1" \notin locked
  /\ locked' = (IF numreaders = 1 THEN locked \ {"gWrite"} ELSE locked) \cup {"gMutex1"}
  /\ numreaders' = numreaders - 1
  /\ UNCHANGED numwriters

\* Mutant: gMutex2 is kept by the first writer until it is done.
CountWriterOnly(t) ==
  /\ Move(t, "w_lock2", "w_lockRead")
  /\ "gMutex2" \notin locked /\ locked' = locked \cup {"gMutex2"}
  /\ numwriters' = numwriters + 1
  /\ UNCHANGED numreaders
CountWriter(t) ==
  /\ Move(t, "w_lock2", IF numwriters = 0 THEN "w_lockRead" ELSE "w_unlock2")
  /\ "gMutex2" \notin locked /\ locked' = locked \cup {"gMutex2"}
  /\ numwriters' = numwriters + 1
  /\ UNCHANGED numreaders

\* Mutant: every writer lets the readers in again.
UncountWriterEarly(t) ==
  /\ Move(t, "w_leave", "w_left")
  /\ "gMutex2" \notin locked
  /\ locked' = (locked \ {"gRead"}) \cup {"gMutex2"}
  /\ numwriters' = numwriters - 1
  /\ UNCHANGED numreaders
UncountWriter(t) ==
  /\ Move(t, "w_leave", "w_left")
  /\ "gMutex2" \notin locked
  /\ locked' = (IF numwriters = 1 THEN locked \ {"gRead"} ELSE locked) \cup {"gMutex2"}
  /\ numwriters' = numwriters - 1
  /\ UNCHANGED numreaders

\* The way of read_conf() into the list and out of it.
ReaderEnters(t) ==
  \/ Lock(t, "r_lock3", "gMutex3", "r_lockRead")
  \/ Lock(t, "r_lockRead", "gRead", "r_lock1")
  \/ CountReader(t)
  \/ Lock(t, "r_lockWrite", "gWrite", "r_unlock1")
  \/ Unlock(t, "r_unlock1", "gMutex1", "r_unlockRead")
  \/ Unlock(t, "r_unlockRead", "gRead", "r_unlock3")
  \/ Unlock(t, "r_unlock3", "gMutex3", "reading")

ReaderLeaves(t) ==
  UncountReader(t) \/ Unlock(t, "r_left", "gMutex1", "idle")

\* The way of write_conf() into the list and out of it.
WriterEnters(t) ==
  \/ CountWriter(t)
  \/ Lock(t, "w_lockRead", "gRead", "w_unlock2")
  \/ Unlock(t, "w_unlock2", "gMutex2", "w_lockWrite")
  \/ Lock(t, "w_lockWrite", "gWrite", "writing")

WriterLeaves(t) ==
  \/ Unlock(t, "w_unlockWrite", "gWrite", "w_leave")
  \/ UncountWriter(t)
  \/ Unlock(t, "w_left", "gMutex2", "idle")

\* The list has been read or written (Config has the details).
Done(t) ==
  /\ \/ Move(t, "reading", "r_leave")
     \/ Move(t, "writing", "w_unlockWrite")
  /\ UNCHANGED <<locked, numreaders, numwriters>>

Step(t) == ReaderEnters(t) \/ ReaderLeaves(t) \/ WriterEnters(t) \/ WriterLeaves(t) \/ Done(t)

Next == \E t \in Threads : Step(t) \/ (\E to \in {"r_lock3", "w_lock2"} : Call(t, to))

Spec == Init /\ [][Next]_vars

\* A thread in read_conf() or write_conf() keeps executing; which of the threads
\* that wait for a mutex gets it is up to the kernel.
FairSpec == Spec /\ \A t \in Threads : WF_vars(Step(t))

-----------------------------------------------------------------------------
\* Type invariant of the lock's state.
TypeOK ==
  /\ pc \in [Threads -> {"idle"} \cup ReaderPcs \cup WriterPcs]
  /\ locked \subseteq Mutexes
  /\ numreaders \in Nat /\ numwriters \in Nat

\* "thread safe reading", "thread safe writing": write_conf() has the list for
\* itself; nobody reads or writes it meanwhile.
Exclusive ==
  \A t, u \in Threads :
    pc[t] = "writing" /\ t # u => pc[u] \notin {"reading", "writing"}

\* Writers come first: while write_conf() calls keep gRead, no read_conf() starts
\* reading that had not been counted already.
Waiting == {"w_unlock2", "w_lockWrite", "writing", "w_unlockWrite", "w_leave"}
WritersFirst ==
  [][(\E t \in Threads : pc[t] \in Waiting) => numreaders' <= numreaders]_vars

\* The mutexes never block everybody: while some thread is on its way into the
\* list, some thread gets there.
Progress ==
  (\E t \in Threads : pc[t] \in {"r_lock3", "w_lock2"})
    ~> (\E t \in Threads : pc[t] \in {"reading", "writing"})

=============================================================================
