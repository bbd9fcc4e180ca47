--------------------------- MODULE ConfLockProofs ---------------------------
(***************************************************************************)
(* Proofs about ConfLock, for any finite number of threads.                *)
(***************************************************************************)
EXTENDS ConfLock, FiniteSetTheorems, TLAPS

\* Where a reader has gWrite's protection, and where numreaders counts it.
Admitted == {"r_unlock1", "r_unlockRead", "r_unlock3", "reading", "r_leave"}
CountedReaders == {t \in Threads : pc[t] \in {"r_lockWrite"} \cup Admitted}

\* Where a writer keeps new readers out is Waiting; where numwriters counts it:
CountedWriters == {t \in Threads : pc[t] \in {"w_lockRead"} \cup Waiting}

\* Between locking and unlocking each mutex.
Has1 == {"r_lockWrite", "r_unlock1", "r_left"}
Has2 == {"w_lockRead", "w_unlock2", "w_left"}
HasRead == {"r_lock1", "r_lockWrite", "r_unlock1", "r_unlockRead"}
HasWrite == {"writing", "w_unlockWrite"}

Counters ==
  /\ numreaders = Cardinality(CountedReaders)
  /\ numwriters = Cardinality(CountedWriters)

Holders ==
  \A t \in Threads :
    /\ pc[t] \in Has1 => "gMutex1" \in locked /\ \A u \in Threads : pc[u] \in Has1 => u = t
    /\ pc[t] \in Has2 => "gMutex2" \in locked /\ \A u \in Threads : pc[u] \in Has2 => u = t
    /\ pc[t] \in HasRead => "gRead" \in locked /\ \A u \in Threads : pc[u] \in HasRead => u = t
    /\ pc[t] \in HasWrite => "gWrite" \in locked /\ \A u \in Threads : pc[u] \in HasWrite => u = t

\* gWrite belongs to the readers while one of them is admitted, gRead to the
\* writers while one of them is waiting.
HandOver ==
  \A t \in Threads :
    /\ pc[t] = "r_lockWrite" => \A u \in Threads : u # t => u \notin CountedReaders
    /\ pc[t] \in Admitted => "gWrite" \in locked /\ \A u \in Threads : pc[u] \notin HasWrite
    /\ pc[t] = "w_lockRead" => \A u \in Threads : u # t => u \notin CountedWriters
    /\ pc[t] \in Waiting => "gRead" \in locked /\ \A u \in Threads : pc[u] \notin HasRead

LockInv == TypeOK /\ Counters /\ Holders /\ HandOver

\* Counting threads one by one.
LEMMA Counting ==
  ASSUME NEW S \in SUBSET Threads, NEW t \in Threads
  PROVE  /\ Cardinality(S) \in Nat
         /\ t \notin S => Cardinality(S \cup {t}) = Cardinality(S) + 1
         /\ t \in S => Cardinality(S \ {t}) = Cardinality(S) - 1
         /\ Cardinality(S) = 0 <=> S = {}
         /\ t \in S /\ Cardinality(S) = 1 => S = {t}
<1>1. IsFiniteSet(S)
  BY ThreadsAssumption, FS_Subset
<1>2. /\ Cardinality(S) \in Nat
      /\ t \notin S => Cardinality(S \cup {t}) = Cardinality(S) + 1
      /\ Cardinality(S) = 0 <=> S = {}
  BY <1>1, FS_CardinalityType, FS_AddElement, FS_EmptySet
<1>3. t \in S => Cardinality(S \ {t}) = Cardinality(S) - 1
  BY <1>1, FS_RemoveElement
<1>4. ASSUME t \in S, Cardinality(S) = 1 PROVE S = {t}
  <2>1. IsFiniteSet(S \ {t}) /\ Cardinality(S \ {t}) = 0
    BY <1>1, <1>3, <1>4, FS_RemoveElement
  <2> QED
    BY <1>4, <2>1, FS_EmptySet
<1> QED
  BY <1>2, <1>3, <1>4

\* Nobody holds anything at first.
LEMMA LockInit == Init => LockInv
<1> SUFFICES ASSUME Init PROVE LockInv
  OBVIOUS
<1>1. TypeOK
  BY DEF Init, TypeOK
<1>2. CountedReaders = {} /\ CountedWriters = {}
  BY DEF Init, CountedReaders, CountedWriters, Admitted, Waiting
<1>3. Counters
  BY <1>2, FS_EmptySet DEF Init, Counters
<1>4. Holders
  BY DEF Init, Holders, Has1, Has2, HasRead, HasWrite
<1>5. HandOver
  BY DEF Init, HandOver, Admitted, Waiting
<1> QED
  BY <1>1, <1>3, <1>4, <1>5 DEF LockInv

\* A step that moves t from one pc to another changes who is counted accordingly.
LEMMA Moving ==
  ASSUME TypeOK, NEW t \in Threads, NEW from, NEW to, Move(t, from, to)
  PROVE  /\ pc[t] = from /\ pc'[t] = to /\ \A u \in Threads : u # t => pc'[u] = pc[u]
         /\ CountedReaders' = IF to \in {"r_lockWrite"} \cup Admitted
                                THEN CountedReaders \cup {t} ELSE CountedReaders \ {t}
         /\ CountedWriters' = IF to \in {"w_lockRead"} \cup Waiting
                                THEN CountedWriters \cup {t} ELSE CountedWriters \ {t}
<1>1. pc[t] = from /\ pc'[t] = to /\ \A u \in Threads : u # t => pc'[u] = pc[u]
  BY DEF Move, TypeOK
<1> QED
  BY <1>1 DEF CountedReaders, CountedWriters

\* A step between two places that count alike leaves the counters right.
LEMMA CountKept ==
  ASSUME LockInv, NEW t \in Threads, NEW from, NEW to, Move(t, from, to),
         UNCHANGED <<numreaders, numwriters>>,
         from \in {"r_lockWrite"} \cup Admitted <=> to \in {"r_lockWrite"} \cup Admitted,
         from \in {"w_lockRead"} \cup Waiting <=> to \in {"w_lockRead"} \cup Waiting
  PROVE  Counters' /\ CountedReaders' = CountedReaders /\ CountedWriters' = CountedWriters
<1>1. CountedReaders' = CountedReaders
  BY Moving DEF LockInv, CountedReaders
<1>2. CountedWriters' = CountedWriters
  BY Moving DEF LockInv, CountedWriters
<1> QED
  BY <1>1, <1>2 DEF LockInv, Counters

\* Every mutex operation of read_conf() and write_conf() keeps LockInv.
LEMMA LockNext == LockInv /\ [Next]_vars => LockInv'
<1> SUFFICES ASSUME LockInv, [Next]_vars PROVE LockInv'
  OBVIOUS
<1> USE DEF Admitted, Waiting, Has1, Has2, HasRead, HasWrite
<1> TypeOK /\ Counters /\ Holders /\ HandOver
  BY DEF LockInv
<1>1. ASSUME NEW t \in Threads, Call(t, "r_lock3")
      PROVE  LockInv'
  <2>1. /\ pc[t] = "idle" /\ pc'[t] = "r_lock3"
        /\ \A u \in Threads : u # t => pc'[u] = pc[u]
        /\ Counters' /\ CountedReaders' = CountedReaders /\ CountedWriters' = CountedWriters
    BY <1>1, Moving, CountKept DEF Call
  <2>2. TypeOK'
    BY <1>1 DEF Call, Move, TypeOK, Mutexes, ReaderPcs, WriterPcs
  <2>3. Holders'
    BY <1>1, <2>1 DEF Call, Holders
  <2>4. HandOver'
    BY <1>1, <2>1 DEF Call, HandOver, Holders, CountedReaders, CountedWriters
  <2> QED
    BY <2>1, <2>2, <2>3, <2>4 DEF LockInv
<1>2. ASSUME NEW t \in Threads, Call(t, "w_lock2")
      PROVE  LockInv'
  <2>1. /\ pc[t] = "idle" /\ pc'[t] = "w_lock2"
        /\ \A u \in Threads : u # t => pc'[u] = pc[u]
        /\ Counters' /\ CountedReaders' = CountedReaders /\ CountedWriters' = CountedWriters
    BY <1>2, Moving, CountKept DEF Call
  <2>2. TypeOK'
    BY <1>2 DEF Call, Move, TypeOK, Mutexes, ReaderPcs, WriterPcs
  <2>3. Holders'
    BY <1>2, <2>1 DEF Call, Holders
  <2>4. HandOver'
    BY <1>2, <2>1 DEF Call, HandOver, Holders, CountedReaders, CountedWriters
  <2> QED
    BY <2>1, <2>2, <2>3, <2>4 DEF LockInv
<1>3. ASSUME NEW t \in Threads, Lock(t, "r_lock3", "gMutex3", "r_lockRead")
      PROVE  LockInv'
  <2>1. /\ pc[t] = "r_lock3" /\ pc'[t] = "r_lockRead"
        /\ \A u \in Threads : u # t => pc'[u] = pc[u]
        /\ Counters' /\ CountedReaders' = CountedReaders /\ CountedWriters' = CountedWriters
    BY <1>3, Moving, CountKept DEF Lock
  <2>2. TypeOK'
    BY <1>3 DEF Lock, Move, TypeOK, Mutexes, ReaderPcs, WriterPcs
  <2>3. Holders'
    BY <1>3, <2>1 DEF Lock, Holders
  <2>4. HandOver'
    BY <1>3, <2>1 DEF Lock, HandOver, Holders, CountedReaders, CountedWriters
  <2> QED
    BY <2>1, <2>2, <2>3, <2>4 DEF LockInv
<1>4. ASSUME NEW t \in Threads, Lock(t, "r_lockRead", "gRead", "r_lock1")
      PROVE  LockInv'
  <2>1. /\ pc[t] = "r_lockRead" /\ pc'[t] = "r_lock1"
        /\ \A u \in Threads : u # t => pc'[u] = pc[u]
        /\ Counters' /\ CountedReaders' = CountedReaders /\ CountedWriters' = CountedWriters
    BY <1>4, Moving, CountKept DEF Lock
  <2>2. TypeOK'
    BY <1>4 DEF Lock, Move, TypeOK, Mutexes, ReaderPcs, WriterPcs
  <2>3. Holders'
    BY <1>4, <2>1 DEF Lock, Holders
  <2>4. HandOver'
    BY <1>4, <2>1 DEF Lock, HandOver, Holders, CountedReaders, CountedWriters
  <2> QED
    BY <2>1, <2>2, <2>3, <2>4 DEF LockInv
<1>5. ASSUME NEW t \in Threads, Lock(t, "r_lockWrite", "gWrite", "r_unlock1")
      PROVE  LockInv'
  <2>1. /\ pc[t] = "r_lockWrite" /\ pc'[t] = "r_unlock1"
        /\ \A u \in Threads : u # t => pc'[u] = pc[u]
        /\ Counters' /\ CountedReaders' = CountedReaders /\ CountedWriters' = CountedWriters
    BY <1>5, Moving, CountKept DEF Lock
  <2>2. TypeOK'
    BY <1>5 DEF Lock, Move, TypeOK, Mutexes, ReaderPcs, WriterPcs
  <2>3. Holders'
    BY <1>5, <2>1 DEF Lock, Holders
  <2>4. HandOver'
    BY <1>5, <2>1 DEF Lock, HandOver, Holders, CountedReaders, CountedWriters
  <2> QED
    BY <2>1, <2>2, <2>3, <2>4 DEF LockInv
<1>6. ASSUME NEW t \in Threads, Unlock(t, "r_unlock1", "gMutex1", "r_unlockRead")
      PROVE  LockInv'
  <2>1. /\ pc[t] = "r_unlock1" /\ pc'[t] = "r_unlockRead"
        /\ \A u \in Threads : u # t => pc'[u] = pc[u]
        /\ Counters' /\ CountedReaders' = CountedReaders /\ CountedWriters' = CountedWriters
    BY <1>6, Moving, CountKept DEF Unlock
  <2>2. TypeOK'
    BY <1>6 DEF Unlock, Move, TypeOK, Mutexes, ReaderPcs, WriterPcs
  <2>3. Holders'
    BY <1>6, <2>1 DEF Unlock, Holders, HandOver, CountedReaders, CountedWriters
  <2>4. HandOver'
    BY <1>6, <2>1 DEF Unlock, HandOver, Holders, CountedReaders, CountedWriters
  <2> QED
    BY <2>1, <2>2, <2>3, <2>4 DEF LockInv
<1>7. ASSUME NEW t \in Threads, Unlock(t, "r_unlockRead", "gRead", "r_unlock3")
      PROVE  LockInv'
  <2>1. /\ pc[t] = "r_unlockRead" /\ pc'[t] = "r_unlock3"
        /\ \A u \in Threads : u # t => pc'[u] = pc[u]
        /\ Counters' /\ CountedReaders' = CountedReaders /\ CountedWriters' = CountedWriters
    BY <1>7, Moving, CountKept DEF Unlock
  <2>2. TypeOK'
    BY <1>7 DEF Unlock, Move, TypeOK, Mutexes, ReaderPcs, WriterPcs
  <2>3. Holders'
    BY <1>7, <2>1 DEF Unlock, Holders, HandOver, CountedReaders, CountedWriters
  <2>4. HandOver'
    BY <1>7, <2>1 DEF Unlock, HandOver, Holders, CountedReaders, CountedWriters
  <2> QED
    BY <2>1, <2>2, <2>3, <2>4 DEF LockInv
<1>8. ASSUME NEW t \in Threads, Unlock(t, "r_unlock3", "gMutex3", "reading")
      PROVE  LockInv'
  <2>1. /\ pc[t] = "r_unlock3" /\ pc'[t] = "reading"
        /\ \A u \in Threads : u # t => pc'[u] = pc[u]
        /\ Counters' /\ CountedReaders' = CountedReaders /\ CountedWriters' = CountedWriters
    BY <1>8, Moving, CountKept DEF Unlock
  <2>2. TypeOK'
    BY <1>8 DEF Unlock, Move, TypeOK, Mutexes, ReaderPcs, WriterPcs
  <2>3. Holders'
    BY <1>8, <2>1 DEF Unlock, Holders, HandOver, CountedReaders, CountedWriters
  <2>4. HandOver'
    BY <1>8, <2>1 DEF Unlock, HandOver, Holders, CountedReaders, CountedWriters
  <2> QED
    BY <2>1, <2>2, <2>3, <2>4 DEF LockInv
<1>9. ASSUME NEW t \in Threads, Unlock(t, "r_left", "gMutex1", "idle")
      PROVE  LockInv'
  <2>1. /\ pc[t] = "r_left" /\ pc'[t] = "idle"
        /\ \A u \in Threads : u # t => pc'[u] = pc[u]
        /\ Counters' /\ CountedReaders' = CountedReaders /\ CountedWriters' = CountedWriters
    BY <1>9, Moving, CountKept DEF Unlock
  <2>2. TypeOK'
    BY <1>9 DEF Unlock, Move, TypeOK, Mutexes, ReaderPcs, WriterPcs
  <2>3. Holders'
    BY <1>9, <2>1 DEF Unlock, Holders, HandOver, CountedReaders, CountedWriters
  <2>4. HandOver'
    BY <1>9, <2>1 DEF Unlock, HandOver, Holders, CountedReaders, CountedWriters
  <2> QED
    BY <2>1, <2>2, <2>3, <2>4 DEF LockInv
<1>10. ASSUME NEW t \in Threads, Lock(t, "w_lockRead", "gRead", "w_unlock2")
      PROVE  LockInv'
  <2>1. /\ pc[t] = "w_lockRead" /\ pc'[t] = "w_unlock2"
        /\ \A u \in Threads : u # t => pc'[u] = pc[u]
        /\ Counters' /\ CountedReaders' = CountedReaders /\ CountedWriters' = CountedWriters
    BY <1>10, Moving, CountKept DEF Lock
  <2>2. TypeOK'
    BY <1>10 DEF Lock, Move, TypeOK, Mutexes, ReaderPcs, WriterPcs
  <2>3. Holders'
    BY <1>10, <2>1 DEF Lock, Holders
  <2>4. HandOver'
    BY <1>10, <2>1 DEF Lock, HandOver, Holders, CountedReaders, CountedWriters
  <2> QED
    BY <2>1, <2>2, <2>3, <2>4 DEF LockInv
<1>11. ASSUME NEW t \in Threads, Unlock(t, "w_unlock2", "gMutex2", "w_lockWrite")
      PROVE  LockInv'
  <2>1. /\ pc[t] = "w_unlock2" /\ pc'[t] = "w_lockWrite"
        /\ \A u \in Threads : u # t => pc'[u] = pc[u]
        /\ Counters' /\ CountedReaders' = CountedReaders /\ CountedWriters' = CountedWriters
    BY <1>11, Moving, CountKept DEF Unlock
  <2>2. TypeOK'
    BY <1>11 DEF Unlock, Move, TypeOK, Mutexes, ReaderPcs, WriterPcs
  <2>3. Holders'
    BY <1>11, <2>1 DEF Unlock, Holders, HandOver, CountedReaders, CountedWriters
  <2>4. HandOver'
    BY <1>11, <2>1 DEF Unlock, HandOver, Holders, CountedReaders, CountedWriters
  <2> QED
    BY <2>1, <2>2, <2>3, <2>4 DEF LockInv
<1>12. ASSUME NEW t \in Threads, Lock(t, "w_lockWrite", "gWrite", "writing")
      PROVE  LockInv'
  <2>1. /\ pc[t] = "w_lockWrite" /\ pc'[t] = "writing"
        /\ \A u \in Threads : u # t => pc'[u] = pc[u]
        /\ Counters' /\ CountedReaders' = CountedReaders /\ CountedWriters' = CountedWriters
    BY <1>12, Moving, CountKept DEF Lock
  <2>2. TypeOK'
    BY <1>12 DEF Lock, Move, TypeOK, Mutexes, ReaderPcs, WriterPcs
  <2>3. Holders'
    BY <1>12, <2>1 DEF Lock, Holders
  <2>4. HandOver'
    BY <1>12, <2>1 DEF Lock, HandOver, Holders, CountedReaders, CountedWriters
  <2> QED
    BY <2>1, <2>2, <2>3, <2>4 DEF LockInv
<1>13. ASSUME NEW t \in Threads, Unlock(t, "w_unlockWrite", "gWrite", "w_leave")
      PROVE  LockInv'
  <2>1. /\ pc[t] = "w_unlockWrite" /\ pc'[t] = "w_leave"
        /\ \A u \in Threads : u # t => pc'[u] = pc[u]
        /\ Counters' /\ CountedReaders' = CountedReaders /\ CountedWriters' = CountedWriters
    BY <1>13, Moving, CountKept DEF Unlock
  <2>2. TypeOK'
    BY <1>13 DEF Unlock, Move, TypeOK, Mutexes, ReaderPcs, WriterPcs
  <2>3. Holders'
    BY <1>13, <2>1 DEF Unlock, Holders, HandOver, CountedReaders, CountedWriters
  <2>4. HandOver'
    BY <1>13, <2>1 DEF Unlock, HandOver, Holders, CountedReaders, CountedWriters
  <2> QED
    BY <2>1, <2>2, <2>3, <2>4 DEF LockInv
<1>14. ASSUME NEW t \in Threads, Unlock(t, "w_left", "gMutex2", "idle")
      PROVE  LockInv'
  <2>1. /\ pc[t] = "w_left" /\ pc'[t] = "idle"
        /\ \A u \in Threads : u # t => pc'[u] = pc[u]
        /\ Counters' /\ CountedReaders' = CountedReaders /\ CountedWriters' = CountedWriters
    BY <1>14, Moving, CountKept DEF Unlock
  <2>2. TypeOK'
    BY <1>14 DEF Unlock, Move, TypeOK, Mutexes, ReaderPcs, WriterPcs
  <2>3. Holders'
    BY <1>14, <2>1 DEF Unlock, Holders, HandOver, CountedReaders, CountedWriters
  <2>4. HandOver'
    BY <1>14, <2>1 DEF Unlock, HandOver, Holders, CountedReaders, CountedWriters
  <2> QED
    BY <2>1, <2>2, <2>3, <2>4 DEF LockInv
<1>15. ASSUME NEW t \in Threads, Move(t, "reading", "r_leave") /\ UNCHANGED <<locked, numreaders, numwriters>>
      PROVE  LockInv'
  <2>1. /\ pc[t] = "reading" /\ pc'[t] = "r_leave"
        /\ \A u \in Threads : u # t => pc'[u] = pc[u]
        /\ Counters' /\ CountedReaders' = CountedReaders /\ CountedWriters' = CountedWriters
    BY <1>15, Moving, CountKept
  <2>2. TypeOK'
    BY <1>15 DEF Move, TypeOK, Mutexes, ReaderPcs, WriterPcs
  <2>3. Holders'
    BY <1>15, <2>1 DEF Holders
  <2>4. HandOver'
    BY <1>15, <2>1 DEF HandOver, Holders, CountedReaders, CountedWriters
  <2> QED
    BY <2>1, <2>2, <2>3, <2>4 DEF LockInv
<1>16. ASSUME NEW t \in Threads, Move(t, "writing", "w_unlockWrite") /\ UNCHANGED <<locked, numreaders, numwriters>>
      PROVE  LockInv'
  <2>1. /\ pc[t] = "writing" /\ pc'[t] = "w_unlockWrite"
        /\ \A u \in Threads : u # t => pc'[u] = pc[u]
        /\ Counters' /\ CountedReaders' = CountedReaders /\ CountedWriters' = CountedWriters
    BY <1>16, Moving, CountKept
  <2>2. TypeOK'
    BY <1>16 DEF Move, TypeOK, Mutexes, ReaderPcs, WriterPcs
  <2>3. Holders'
    BY <1>16, <2>1 DEF Holders
  <2>4. HandOver'
    BY <1>16, <2>1 DEF HandOver, Holders, CountedReaders, CountedWriters
  <2> QED
    BY <2>1, <2>2, <2>3, <2>4 DEF LockInv
<1>17. ASSUME NEW t \in Threads, CountReader(t)
      PROVE  LockInv'
  <2>1. /\ pc[t] = "r_lock1" /\ pc'[t] \in {"r_lockWrite", "r_unlock1"}
        /\ \A u \in Threads : u # t => pc'[u] = pc[u]
    BY <1>17, Moving DEF CountReader
  <2>2. CountedReaders' = CountedReaders \cup {t} /\ CountedWriters' = CountedWriters
    BY <1>17, Moving DEF CountReader, CountedReaders, CountedWriters
  <2>3. /\ t \notin CountedReaders /\ Cardinality(CountedReaders') = Cardinality(CountedReaders) + 1
        /\ Cardinality(CountedReaders) \in Nat /\ (numreaders = 0 <=> CountedReaders = {})
    <3>1. CountedReaders \in SUBSET Threads /\ t \notin CountedReaders
      BY <2>1 DEF CountedReaders
    <3> QED
      BY <2>2, <3>1, Counting DEF Counters
  <2>4. TypeOK'
    BY <1>17, <2>3 DEF CountReader, Move, TypeOK, Mutexes, ReaderPcs, WriterPcs, Counters
  <2>5. Counters'
    BY <1>17, <2>2, <2>3 DEF CountReader, Counters
  <2>6. Holders'
    BY <1>17, <2>1 DEF CountReader, Holders, HandOver
  <2>7. HandOver'
    <3>1. CASE numreaders = 0
      <4>1. CountedReaders' = {t} /\ pc'[t] = "r_lockWrite"
        BY <1>17, <2>2, <2>3, <3>1, Moving DEF CountReader
      <4> QED
        BY <1>17, <2>1, <2>2, <4>1 DEF CountReader, HandOver, CountedReaders, CountedWriters
    <3>2. CASE numreaders # 0
      <4>1. PICK v \in Threads : v \in CountedReaders
        BY <2>3, <3>2 DEF CountedReaders
      <4>2. "gWrite" \in locked /\ \A u \in Threads : pc[u] \notin HasWrite
        BY <1>17, <4>1 DEF CountReader, Holders, HandOver, CountedReaders
      <4>3. pc'[t] = "r_unlock1" /\ \A u \in Threads : pc[u] # "r_lockWrite"
        BY <1>17, <3>2, Moving DEF CountReader, Holders
      <4> QED
        BY <1>17, <2>1, <2>2, <4>2, <4>3 DEF CountReader, HandOver, CountedReaders, CountedWriters
    <3> QED
      BY <3>1, <3>2
  <2> QED
    BY <2>4, <2>5, <2>6, <2>7 DEF LockInv
<1>18. ASSUME NEW t \in Threads, UncountReader(t)
      PROVE  LockInv'
  <2>1. /\ pc[t] = "r_leave" /\ pc'[t] \in {"r_left"}
        /\ \A u \in Threads : u # t => pc'[u] = pc[u]
    BY <1>18, Moving DEF UncountReader
  <2>2. CountedReaders' = CountedReaders \ {t} /\ CountedWriters' = CountedWriters
    BY <1>18, Moving DEF UncountReader, CountedReaders, CountedWriters
  <2>3. /\ t \in CountedReaders /\ Cardinality(CountedReaders') = Cardinality(CountedReaders) - 1
        /\ Cardinality(CountedReaders) \in Nat \ {0} /\ (numreaders = 1 => CountedReaders = {t})
    <3>1. CountedReaders \in SUBSET Threads /\ t \in CountedReaders
      BY <2>1 DEF CountedReaders
    <3> QED
      BY <2>2, <3>1, Counting DEF Counters
  <2>4. TypeOK'
    BY <1>18, <2>3 DEF UncountReader, Move, TypeOK, Mutexes, ReaderPcs, WriterPcs, Counters
  <2>5. Counters'
    BY <1>18, <2>2, <2>3 DEF UncountReader, Counters
  <2>6. Holders'
    BY <1>18, <2>1 DEF UncountReader, Holders, HandOver
  <2>7. HandOver'
    BY <1>18, <2>1, <2>2, <2>3
       DEF UncountReader, HandOver, Holders, CountedReaders, CountedWriters
  <2> QED
    BY <2>4, <2>5, <2>6, <2>7 DEF LockInv
<1>19. ASSUME NEW t \in Threads, CountWriter(t)
      PROVE  LockInv'
  <2>1. /\ pc[t] = "w_lock2" /\ pc'[t] \in {"w_lockRead", "w_unlock2"}
        /\ \A u \in Threads : u # t => pc'[u] = pc[u]
    BY <1>19, Moving DEF CountWriter
  <2>2. CountedWriters' = CountedWriters \cup {t} /\ CountedReaders' = CountedReaders
    BY <1>19, Moving DEF CountWriter, CountedReaders, CountedWriters
  <2>3. /\ t \notin CountedWriters /\ Cardinality(CountedWriters') = Cardinality(CountedWriters) + 1
        /\ Cardinality(CountedWriters) \in Nat /\ (numwriters = 0 <=> CountedWriters = {})
    <3>1. CountedWriters \in SUBSET Threads /\ t \notin CountedWriters
      BY <2>1 DEF CountedWriters
    <3> QED
      BY <2>2, <3>1, Counting DEF Counters
  <2>4. TypeOK'
    BY <1>19, <2>3 DEF CountWriter, Move, TypeOK, Mutexes, ReaderPcs, WriterPcs, Counters
  <2>5. Counters'
    BY <1>19, <2>2, <2>3 DEF CountWriter, Counters
  <2>6. Holders'
    BY <1>19, <2>1 DEF CountWriter, Holders, HandOver
  <2>7. HandOver'
    <3>1. CASE numwriters = 0
      <4>1. CountedWriters' = {t} /\ pc'[t] = "w_lockRead"
        BY <1>19, <2>2, <2>3, <3>1, Moving DEF CountWriter
      <4> QED
        BY <1>19, <2>1, <2>2, <4>1 DEF CountWriter, HandOver, CountedReaders, CountedWriters
    <3>2. CASE numwriters # 0
      <4>1. PICK v \in Threads : v \in CountedWriters
        BY <2>3, <3>2 DEF CountedWriters
      <4>2. "gRead" \in locked /\ \A u \in Threads : pc[u] \notin HasRead
        BY <1>19, <4>1 DEF CountWriter, Holders, HandOver, CountedWriters
      <4>3. pc'[t] = "w_unlock2" /\ \A u \in Threads : pc[u] # "w_lockRead"
        BY <1>19, <3>2, Moving DEF CountWriter, Holders
      <4> QED
        BY <1>19, <2>1, <2>2, <4>2, <4>3 DEF CountWriter, HandOver, CountedReaders, CountedWriters
    <3> QED
      BY <3>1, <3>2
  <2> QED
    BY <2>4, <2>5, <2>6, <2>7 DEF LockInv
<1>20. ASSUME NEW t \in Threads, UncountWriter(t)
      PROVE  LockInv'
  <2>1. /\ pc[t] = "w_leave" /\ pc'[t] \in {"w_left"}
        /\ \A u \in Threads : u # t => pc'[u] = pc[u]
    BY <1>20, Moving DEF UncountWriter
  <2>2. CountedWriters' = CountedWriters \ {t} /\ CountedReaders' = CountedReaders
    BY <1>20, Moving DEF UncountWriter, CountedReaders, CountedWriters
  <2>3. /\ t \in CountedWriters /\ Cardinality(CountedWriters') = Cardinality(CountedWriters) - 1
        /\ Cardinality(CountedWriters) \in Nat \ {0} /\ (numwriters = 1 => CountedWriters = {t})
    <3>1. CountedWriters \in SUBSET Threads /\ t \in CountedWriters
      BY <2>1 DEF CountedWriters
    <3> QED
      BY <2>2, <3>1, Counting DEF Counters
  <2>4. TypeOK'
    BY <1>20, <2>3 DEF UncountWriter, Move, TypeOK, Mutexes, ReaderPcs, WriterPcs, Counters
  <2>5. Counters'
    BY <1>20, <2>2, <2>3 DEF UncountWriter, Counters
  <2>6. Holders'
    BY <1>20, <2>1 DEF UncountWriter, Holders, HandOver
  <2>7. HandOver'
    BY <1>20, <2>1, <2>2, <2>3
       DEF UncountWriter, HandOver, Holders, CountedReaders, CountedWriters
  <2> QED
    BY <2>4, <2>5, <2>6, <2>7 DEF LockInv
<1>21. CASE UNCHANGED vars
  BY <1>21 DEF LockInv, vars, TypeOK, Counters, Holders, HandOver, CountedReaders, CountedWriters
<1> QED
  BY <1>1, <1>2, <1>3, <1>4, <1>5, <1>6, <1>7, <1>8, <1>9, <1>10, <1>11, <1>12, <1>13, <1>14,
     <1>15, <1>16, <1>17, <1>18, <1>19, <1>20, <1>21
     DEF Next, Step, ReaderEnters, ReaderLeaves, WriterEnters, WriterLeaves, Done

\* The lock of config.c does what its comments say: a writer is alone with the list.
THEOREM MutualExclusion == Spec => []Exclusive
<1>1. LockInv => Exclusive
  BY DEF LockInv, Holders, HandOver, Exclusive, Admitted, HasWrite
<1> QED
  BY <1>1, LockInit, LockNext, PTL DEF Spec

\* While a writer waits or writes, read_conf() counts no further reader.
THEOREM WritersPreferred == Spec => WritersFirst
<1>1. LockInv /\ [Next]_vars
        => [(\E t \in Threads : pc[t] \in Waiting) => numreaders' <= numreaders]_vars
  <2> SUFFICES ASSUME LockInv, Next, NEW t \in Threads, pc[t] \in Waiting
               PROVE  numreaders' <= numreaders
    BY DEF LockInv, TypeOK
  <2>1. ASSUME NEW u \in Threads, CountReader(u) PROVE FALSE
    BY <2>1 DEF CountReader, Move, LockInv, HandOver, HasRead
  <2>2. ASSUME NEW u \in Threads, UncountReader(u) PROVE numreaders' <= numreaders
    <3>1. u \in CountedReaders /\ CountedReaders \in SUBSET Threads
      BY <2>2 DEF UncountReader, Move, CountedReaders, Admitted
    <3> QED
      BY <2>2, <3>1, Counting DEF UncountReader, LockInv, Counters, TypeOK
  <2>3. CASE UNCHANGED numreaders
    BY <2>3 DEF LockInv, TypeOK
  <2> QED
    BY <2>1, <2>2, <2>3
       DEF Next, Step, ReaderEnters, ReaderLeaves, WriterEnters, WriterLeaves, Done, Call, Lock,
           Unlock, CountWriter, UncountWriter
<1> QED
  BY <1>1, LockInit, LockNext, PTL DEF Spec, WritersFirst
=============================================================================
