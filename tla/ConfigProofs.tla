---------------------------- MODULE ConfigProofs ----------------------------
(***************************************************************************)
(* Proofs about Config: the list of settings is consistent, the file holds *)
(* what the list holds, and get_conf() and set_conf() are atomic, for any  *)
(* number of threads, keys, values and power losses.                       *)
(***************************************************************************)
EXTENDS Config, FiniteSetTheorems, FunctionTheorems, SequenceTheorems, WellFoundedInduction, TLAPS

\* ConfLock has one place for all that write_conf() does with the list and the file.
lockpc == [t \in Threads |-> IF pc[t] \in {"saving", "printing"} THEN "writing" ELSE pc[t]]
Lock == INSTANCE ConfLockProofs WITH pc <- lockpc

Elements == [key : Keys, value : Values \cup {Garbage}]
Calls == [key : Keys, value : Values \cup {NoValue}]
Pcs == {"idle", "saving", "printing"} \cup L!ReaderPcs \cup L!WriterPcs
Working == {"reading", "writing", "saving", "printing"}

\* What the variables hold.
Typed ==
  /\ pc \in [Threads -> Pcs]
  /\ list \in Seq(Elements) /\ file \in Seq(Lines)
  /\ arg \in [Threads -> Calls] /\ at \in [Threads -> Nat \ {0}]
  /\ unsaved \in BOOLEAN /\ restarts \in Nat

\* No key is there twice.
Unique(s) == \A i, j \in DOMAIN s : s[i].key = s[j].key => i = j

\* A walk begins at the first element and has not met its key yet.
Walk(t) ==
  /\ pc[t] \notin Working => at[t] = 1
  /\ pc[t] \in {"reading", "writing"} =>
       at[t] <= Len(list) + 1 /\ \A i \in 1..(at[t] - 1) : list[i].key # arg[t].key

\* The element that t has just hooked on.
Fresh(t, i) ==
  /\ pc[t] = "writing" /\ at[t] = i
  /\ i = Len(list) /\ i > 1
  /\ list[i].key = arg[t].key /\ arg[t].value # NoValue

\* Keys are unique, and only the thread that hooked it on sees an element without a value.
ListInv ==
  /\ Unique(list)
  /\ \A t \in Threads : Walk(t)
  /\ \A i \in DOMAIN list : list[i].value = Garbage => \E t \in Threads : Fresh(t, i)

\* A walk over s finds for every key what a walk over r finds.
Agree(s, r) ==
  \A k \in Keys : /\ Has(s, k) <=> Has(r, k)
                  /\ Has(r, k) => Lookup(s, k) = Lookup(r, k)

\* The inductive invariant of the settings.
ConfInv == Typed /\ Lock!LockInv /\ ListInv /\ Saved

-----------------------------------------------------------------------------
\* Walking a list finds the first element that has the key.
LEMMA LookupFirst ==
  ASSUME NEW S, NEW s \in Seq(S), NEW k, NEW i \in DOMAIN s,
         s[i].key = k, \A j \in 1..(i - 1) : s[j].key # k
  PROVE  Lookup(s, k) = s[i].value
<1>1. DOMAIN s = 1..Len(s) /\ Len(s) \in Nat
  BY LenProperties
<1>2. ASSUME NEW m \in DOMAIN s, s[m].key = k, \A j \in 1..(m - 1) : s[j].key # k PROVE m = i
  <2>1. ~(m < i) /\ ~(i < m)
    BY <1>1, <1>2
  <2> QED
    BY <1>1, <2>1
<1>3. (CHOOSE m \in DOMAIN s : s[m].key = k /\ \A j \in 1..(m - 1) : s[j].key # k) = i
  BY <1>2
<1> QED
  BY <1>3 DEF Lookup

\* Where keys are unique, it is the only one.
LEMMA LookupUnique ==
  ASSUME NEW S, NEW s \in Seq(S), Unique(s), NEW i \in DOMAIN s
  PROVE  Has(s, s[i].key) /\ Lookup(s, s[i].key) = s[i].value
<1>1. DOMAIN s = 1..Len(s) /\ Len(s) \in Nat
  BY LenProperties
<1>2. \A j \in 1..(i - 1) : s[j].key # s[i].key
  BY <1>1 DEF Unique
<1> QED
  BY <1>2, LookupFirst DEF Has

\* A key that is there has a first element.
LEMMA HasFirst ==
  ASSUME NEW S, NEW s \in Seq(S), NEW k, Has(s, k)
  PROVE  \E i \in DOMAIN s : s[i].key = k /\ \A j \in 1..(i - 1) : s[j].key # k
<1>1. DOMAIN s = 1..Len(s) /\ Len(s) \in Nat
  BY LenProperties
<1> DEFINE T == {i \in DOMAIN s : s[i].key = k}
           R == {p \in Nat \X Nat : p[1] < p[2]}
<1>2. IsWellFoundedOn(R, Nat)
  BY NatLessThanWellFounded DEF OpToRel
<1>3. T \in SUBSET Nat /\ T # {}
  BY <1>1 DEF Has
<1> HIDE DEF R
<1>4. PICK i \in T : \A j \in T : ~(<<j, i>> \in R)
  BY <1>2, <1>3, WFMin
<1> USE DEF R
<1>5. \A j \in T : ~(j < i)
  <2>1. \A j \in T : <<j, i>> \in Nat \X Nat /\ <<j, i>>[1] = j /\ <<j, i>>[2] = i
    BY <1>3
  <2> QED
    BY <1>4, <2>1
<1>6. i \in DOMAIN s /\ s[i].key = k
  OBVIOUS
<1>7. \A j \in 1..(i - 1) : s[j].key # k
  BY <1>1, <1>5, <1>6
<1> QED
  BY <1>6, <1>7

\* The lines init_conf() keeps, and how many it has kept before.
Firsts(s) == {i \in DOMAIN s : \A j \in 1..(i - 1) : s[j].key # s[i].key}
Rank(s, i) == Cardinality({j \in Firsts(s) : j < i})

\* The ranks stay below the number of lines kept, and grow along the file.
LEMMA RankBounds ==
  ASSUME NEW S, NEW s \in Seq(S)
  PROVE  /\ IsFiniteSet(Firsts(s)) /\ Cardinality(Firsts(s)) \in Nat
         /\ \A i \in Firsts(s) : Rank(s, i) \in Nat /\ Rank(s, i) < Cardinality(Firsts(s))
         /\ \A i, j \in Firsts(s) : i < j => Rank(s, i) < Rank(s, j)
<1>1. DOMAIN s = 1..Len(s) /\ Len(s) \in Nat
  BY LenProperties
<1>2. Firsts(s) \in SUBSET (1..Len(s)) /\ IsFiniteSet(1..Len(s))
  BY <1>1, FS_Interval DEF Firsts
<1>3. IsFiniteSet(Firsts(s)) /\ Cardinality(Firsts(s)) \in Nat
  BY <1>2, FS_Subset, FS_CardinalityType
<1> DEFINE Before(i) == {j \in Firsts(s) : j < i}
<1>4. ASSUME NEW i \in Firsts(s)
      PROVE  /\ IsFiniteSet(Before(i)) /\ Cardinality(Before(i)) \in Nat
             /\ Cardinality(Before(i)) < Cardinality(Firsts(s))
  <2>1. Before(i) \in SUBSET Firsts(s) /\ Before(i) # Firsts(s)
    BY <1>2
  <2> QED
    BY <1>3, <2>1, FS_Subset, FS_CardinalityType
<1>5. ASSUME NEW i \in Firsts(s), NEW j \in Firsts(s), i < j
      PROVE  Cardinality(Before(i)) < Cardinality(Before(j))
  <2>1. Before(i) \in SUBSET Before(j) /\ i \in Before(j) /\ i \notin Before(i)
    BY <1>2, <1>5
  <2>2. Cardinality(Before(i)) <= Cardinality(Before(j)) /\ Cardinality(Before(i)) # Cardinality(Before(j))
    BY <1>4, <2>1, FS_Subset
  <2>3. Cardinality(Before(i)) \in Nat /\ Cardinality(Before(j)) \in Nat
    BY <1>4
  <2> HIDE DEF Before
  <2> QED
    BY <2>2, <2>3
<1> QED
  BY <1>3, <1>4, <1>5 DEF Rank

\* Counting from 1, the ranks number the lines that are kept.
LEMMA RankOnto ==
  ASSUME NEW S, NEW s \in Seq(S)
  PROVE  /\ \A n \in 1..Cardinality(Firsts(s)) : \E i \in Firsts(s) : Rank(s, i) = n - 1
         /\ \A i, j \in Firsts(s) : Rank(s, i) = Rank(s, j) => i = j
<1> DEFINE c == Cardinality(Firsts(s))
           f == [i \in Firsts(s) |-> Rank(s, i) + 1]
<1>1. IsFiniteSet(Firsts(s)) /\ c \in Nat /\ Firsts(s) \subseteq Nat
  BY RankBounds, LenProperties DEF Firsts
<1>2. \A i, j \in Firsts(s) : Rank(s, i) = Rank(s, j) => i = j
  BY <1>1, RankBounds
<1>3. f \in [Firsts(s) -> 1..c]
  BY <1>1, RankBounds
<1>4. f \in Injection(Firsts(s), 1..c)
  <2>1. \A i, j \in Firsts(s) : f[i] = f[j] => i = j
    BY <1>2, RankBounds
  <2> QED
    BY <1>3, <2>1, Fun_IsInj
<1>5. IsFiniteSet(1..c) /\ Cardinality(1..c) = c
  BY <1>1, FS_Interval
<1>6. f \in Surjection(Firsts(s), 1..c)
  BY <1>4, <1>5, FS_Injection
<1>7. \A n \in 1..c : \E i \in Firsts(s) : f[i] = n
  <2> HIDE DEF f, c
  <2> QED
    BY <1>6 DEF Surjection
<1>8. \A n \in 1..c : \E i \in Firsts(s) : Rank(s, i) = n - 1
  BY <1>1, <1>7, RankBounds
<1> QED
  BY <1>2, <1>8

\* init_conf() keeps the first line of every key: keys become unique, and every key has
\* the value a walk over the file would find.
LEMMA InitConf ==
  ASSUME NEW s \in Seq(Lines)
  PROVE  /\ init_conf(s) \in Seq(Lines)
         /\ Unique(init_conf(s))
         /\ Agree(s, init_conf(s))
<1> DEFINE c == Cardinality(Firsts(s))
           line(n) == CHOOSE i \in Firsts(s) : Rank(s, i) = n - 1
           r == [n \in 1..c |-> s[line(n)]]
<1>1. init_conf(s) = r
  BY DEF init_conf, Firsts, Rank
<1>2. DOMAIN s = 1..Len(s) /\ Len(s) \in Nat /\ Firsts(s) \subseteq DOMAIN s /\ c \in Nat
  BY LenProperties, RankBounds DEF Firsts
<1>3. \A n \in 1..c : line(n) \in Firsts(s) /\ Rank(s, line(n)) = n - 1
  BY RankOnto
<1> HIDE DEF line
<1>4. \A n \in 1..c : s[line(n)] \in Lines
  BY <1>2, <1>3, ElementOfSeq
<1>5. r \in Seq(Lines) /\ DOMAIN r = 1..c
  BY <1>2, <1>4, IsASeq
<1>6. \A i, j \in Firsts(s) : s[i].key = s[j].key => i = j
  BY <1>2 DEF Firsts
<1>7. Unique(r)
  <2> SUFFICES ASSUME NEW n \in 1..c, NEW m \in 1..c, r[n].key = r[m].key PROVE n = m
    BY <1>5 DEF Unique
  <2>1. line(n) = line(m)
    BY <1>3, <1>6
  <2> QED
    BY <1>2, <1>3, <2>1
<1>8. ASSUME NEW i \in Firsts(s) PROVE \E n \in DOMAIN r : r[n] = s[i]
  <2>1. Rank(s, i) + 1 \in 1..c /\ Rank(s, i) \in Nat
    BY <1>2, RankBounds
  <2>2. line(Rank(s, i) + 1) = i
    BY <1>3, <2>1, RankOnto
  <2> QED
    BY <1>5, <2>1, <2>2
<1>9. ASSUME NEW k, Has(s, k) PROVE Has(r, k) /\ Lookup(s, k) = Lookup(r, k)
  <2>1. PICK i \in DOMAIN s : s[i].key = k /\ \A j \in 1..(i - 1) : s[j].key # k
    BY <1>9, HasFirst
  <2>2. PICK n \in DOMAIN r : r[n] = s[i]
    BY <1>8, <2>1 DEF Firsts
  <2> HIDE DEF r
  <2>3. Has(r, k) /\ Lookup(r, k) = s[i].value
    BY <1>5, <1>7, <2>1, <2>2, LookupUnique
  <2> QED
    BY <2>1, <2>3, LookupFirst
<1>10. ASSUME NEW k, Has(r, k) PROVE Has(s, k)
  BY <1>2, <1>3, <1>5, <1>10 DEF Has
<1> QED
  BY <1>1, <1>5, <1>7, <1>9, <1>10 DEF Agree

-----------------------------------------------------------------------------
\* The lock of ConfLock is what read_conf() and write_conf() use around the list. Its
\* invariant carries over: its proofs only assume that the threads are finitely many.
LEMMA FiniteThreads == Lock!IsFiniteSet(Threads)
BY ThreadsAssumption DEF Lock!IsFiniteSet, IsFiniteSet

\* The invariant of the lock holds when the lock starts ...
LEMMA LockStart == Lock!Init => Lock!LockInv
BY Lock!LockInit, FiniteThreads

\* ... and again when it starts after a power loss.
LEMMA LockRestart == Lock!Init' => Lock!LockInv'
BY LockStart, PTL

\* A thread moves, not as seen from the lock while it saves.
LEMMA LockMove ==
  ASSUME Typed, NEW t \in Threads, NEW from, NEW to, L!Move(t, from, to)
  PROVE  /\ from \notin {"saving", "printing"} /\ to \notin {"saving", "printing"} => Lock!Move(t, from, to)
         /\ from = "writing" /\ to = "saving" => lockpc' = lockpc
         /\ from = "saving" /\ to = "printing" => lockpc' = lockpc
         /\ from \in {"saving", "printing"} /\ to = "w_unlockWrite" => Lock!Move(t, "writing", to)
BY DEF Typed, L!Move, Lock!Move, lockpc

\* Every step but a restart is a step of ConfLock or leaves the lock alone.
LEMMA LockStep ==
  Typed /\ [Next]_vars => [Lock!Next]_(Lock!vars) \/ Restart
<1> SUFFICES ASSUME Typed, [Next]_vars PROVE [Lock!Next]_(Lock!vars) \/ Restart
  OBVIOUS
<1> USE DEF KeepLocks
<1>1. UNCHANGED <<lockpc, locked, numreaders, numwriters>> => [Lock!Next]_(Lock!vars)
  BY DEF Lock!vars
<1>2. ASSUME NEW t \in Threads, NEW k \in Keys, NEW v, NEW to \in {"r_lock3", "w_lock2"}, Call(t, to, k, v)
      PROVE  Lock!Next
  BY <1>2, LockMove DEF Call, L!Call, Lock!Next, Lock!Call
<1>3. ASSUME NEW t \in Threads, NEW from, NEW m, NEW to, from \notin {"saving", "printing"},
             to \notin {"saving", "printing"}
      PROVE  /\ L!Lock(t, from, m, to) => Lock!Lock(t, from, m, to)
             /\ L!Unlock(t, from, m, to) => Lock!Unlock(t, from, m, to)
  BY <1>3, LockMove DEF L!Lock, Lock!Lock, L!Unlock, Lock!Unlock
<1>4. ASSUME NEW t \in Threads, Locking(t) PROVE Lock!Step(t)
  <2>1. CASE L!ReaderEnters(t)
    <3>1. L!CountReader(t) => Lock!CountReader(t)
      BY LockMove DEF L!CountReader, Lock!CountReader
    <3> QED
      BY <1>3, <2>1, <3>1 DEF L!ReaderEnters, Lock!ReaderEnters, Lock!Step
  <2>2. CASE L!ReaderLeaves(t)
    <3>1. L!UncountReader(t) => Lock!UncountReader(t)
      BY LockMove DEF L!UncountReader, Lock!UncountReader
    <3> QED
      BY <1>3, <2>2, <3>1 DEF L!ReaderLeaves, Lock!ReaderLeaves, Lock!Step
  <2>3. CASE L!WriterEnters(t)
    <3>1. L!CountWriter(t) => Lock!CountWriter(t)
      BY LockMove DEF L!CountWriter, Lock!CountWriter
    <3> QED
      BY <1>3, <2>3, <3>1 DEF L!WriterEnters, Lock!WriterEnters, Lock!Step
  <2>4. CASE L!WriterLeaves(t)
    <3>1. L!UncountWriter(t) => Lock!UncountWriter(t)
      BY LockMove DEF L!UncountWriter, Lock!UncountWriter
    <3> QED
      BY <1>3, <2>4, <3>1 DEF L!WriterLeaves, Lock!WriterLeaves, Lock!Step
  <2> QED
    BY <1>4, <2>1, <2>2, <2>3, <2>4 DEF Locking
<1>5. ASSUME NEW t \in Threads, ReadElement(t) PROVE [Lock!Next]_(Lock!vars)
  <2>1. CASE L!Move(t, "reading", "r_leave")
    BY <1>5, <2>1, LockMove DEF ReadElement, Lock!Next, Lock!Step, Lock!Done
  <2>2. CASE UNCHANGED pc
    BY <1>1, <1>5, <2>2 DEF ReadElement, lockpc
  <2> QED
    BY <1>5, <2>1, <2>2 DEF ReadElement, Advance
<1>6. ASSUME NEW t \in Threads, WriteElement(t) \/ WriteEnds(t) \/ Truncate(t) PROVE [Lock!Next]_(Lock!vars)
  <2>1. pc' = pc => lockpc' = lockpc
    BY DEF lockpc
  <2>2. \/ L!Move(t, "writing", "saving") \/ L!Move(t, "saving", "printing") \/ pc' = pc
    BY <1>6 DEF WriteElement, WriteEnds, Truncate, Advance, L!Move
  <2>3. UNCHANGED <<lockpc, locked, numreaders, numwriters>>
    BY <1>6, <2>1, <2>2, LockMove DEF WriteElement, WriteEnds, Truncate
  <2> QED
    BY <1>1, <2>3
<1>7. ASSUME NEW t \in Threads, SaveSkipped(t) \/ PrintList(t) PROVE Lock!Next
  <2>1. L!Move(t, "saving", "w_unlockWrite") \/ L!Move(t, "printing", "w_unlockWrite")
    BY <1>7 DEF SaveSkipped, PrintList, L!Move
  <2> QED
    BY <1>7, <2>1, LockMove DEF SaveSkipped, PrintList, Lock!Next, Lock!Step, Lock!Done
<1>8. CASE UNCHANGED vars
  BY <1>1, <1>8 DEF vars, locks, lockpc
<1> QED
  BY <1>2, <1>4, <1>5, <1>6, <1>7, <1>8 DEF Next, Step, Lock!Next

\* Every step keeps the invariant of the lock.
LEMMA LockNext == Typed /\ Lock!LockInv /\ [Next]_vars => Lock!LockInv'
<1> SUFFICES ASSUME Typed, Lock!LockInv, [Next]_vars PROVE Lock!LockInv'
  OBVIOUS
<1>1. CASE [Lock!Next]_(Lock!vars)
  BY <1>1, Lock!LockNext, FiniteThreads
<1>2. CASE Restart
  <2>1. Lock!Init'
    BY <1>2 DEF Restart, Lock!Init, lockpc
  <2> QED
    BY <2>1, LockRestart
<1> QED
  BY <1>1, <1>2, LockStep

\* So a thread that writes or saves has the list for itself.
LEMMA Exclusion ==
  ASSUME Typed, Lock!LockInv, NEW t \in Threads, NEW u \in Threads, t # u,
         pc[t] \in {"writing", "saving", "printing"}
  PROVE  pc[u] \notin Working
<1>1. lockpc[t] = "writing" /\ (pc[u] \in Working => lockpc[u] \in {"reading", "writing"})
  BY DEF lockpc, Working
<1> QED
  BY <1>1 DEF Lock!LockInv, Lock!Holders, Lock!HandOver, Lock!Admitted, Lock!HasWrite

-----------------------------------------------------------------------------
\* Locking and unlocking only moves the thread, which is not at the list.
LEMMA LockingMoves ==
  ASSUME Typed, NEW t \in Threads, Locking(t)
  PROVE  /\ pc[t] \notin Working /\ pc' \in [Threads -> Pcs]
         /\ pc'[t] \notin {"saving", "printing"} /\ \A u \in Threads : u # t => pc'[u] = pc[u]
         /\ UNCHANGED <<list, file, arg, at, result, unsaved, restarts>>
<1>1. \E from \in Pcs \ Working, to \in Pcs \ {"saving", "printing"} : L!Move(t, from, to)
  <2> USE DEF Pcs, Working, L!ReaderPcs, L!WriterPcs
  <2>1. CASE L!ReaderEnters(t)
    <3>1. CASE L!CountReader(t)
      BY <3>1 DEF L!CountReader
    <3> QED
      BY <2>1, <3>1 DEF L!ReaderEnters, L!Lock, L!Unlock
  <2>2. CASE L!ReaderLeaves(t)
    BY <2>2 DEF L!ReaderLeaves, L!UncountReader, L!Unlock
  <2>3. CASE L!WriterEnters(t)
    <3>1. CASE L!CountWriter(t)
      BY <3>1 DEF L!CountWriter
    <3> QED
      BY <2>3, <3>1 DEF L!WriterEnters, L!Lock, L!Unlock
  <2>4. CASE L!WriterLeaves(t)
    BY <2>4 DEF L!WriterLeaves, L!UncountWriter, L!Unlock
  <2> QED
    BY <2>1, <2>2, <2>3, <2>4 DEF Locking
<1> QED
  BY <1>1 DEF Typed, L!Move, Locking

\* Nobody else sees an element without a value.
LEMMA NoGarbage ==
  ASSUME Typed, ListInv, \A t \in Threads : pc[t] # "writing"
  PROVE  list \in Seq(Lines)
<1>1. DOMAIN list = 1..Len(list) /\ Len(list) \in Nat
  BY LenProperties DEF Typed
<1>2. \A i \in 1..Len(list) : list[i] \in Elements /\ list[i].value # Garbage
  BY <1>1, ElementOfSeq DEF Typed, ListInv, Fresh
<1>3. \A i \in 1..Len(list) : list[i] \in Lines
  BY <1>2 DEF Elements, Lines
<1> QED
  BY <1>1, <1>3, IsASeq DEF Typed

\* Nobody but the thread that writes, saves or prints is at the list.
LEMMA AtTheList ==
  ASSUME Typed, Lock!LockInv, NEW t \in Threads, pc[t] \in Working
  PROVE  /\ pc[t] # "writing" => \A u \in Threads : pc[u] # "writing"
         /\ pc[t] # "reading" => \A u \in Threads : u # t => pc[u] \notin Working
BY Exclusion DEF Working

\* unlink: the elements behind the removed one move up.
LEMMA Unlinked ==
  ASSUME NEW S, NEW s \in Seq(S), NEW n \in 1..Len(s)
  PROVE  LET r == SubSeq(s, 1, n - 1) \o SubSeq(s, n + 1, Len(s))
         IN  /\ r \in Seq(S) /\ Len(r) = Len(s) - 1
             /\ \A i \in 1..Len(r) : r[i] = IF i < n THEN s[i] ELSE s[i + 1]
<1>1. Len(s) \in Nat /\ \A i \in 1..Len(s) : s[i] \in S
  BY LenProperties, ElementOfSeq
<1> DEFINE a == SubSeq(s, 1, n - 1)
           b == SubSeq(s, n + 1, Len(s))
<1>2. a \in Seq(S) /\ Len(a) = n - 1 /\ \A i \in 1..(n - 1) : a[i] = s[i]
  <2>1. \A i \in 1..(n - 1) : s[i] \in S
    BY <1>1
  <2> QED
    BY <1>1, <2>1, SubSeqProperties
<1>3. b \in Seq(S) /\ Len(b) = Len(s) - n /\ \A i \in 1..(Len(s) - n) : b[i] = s[n + i]
  <2>1. \A i \in (n + 1)..Len(s) : s[i] \in S
    BY <1>1
  <2> QED
    BY <1>1, <2>1, SubSeqProperties
<1> HIDE DEF a, b
<1>4. /\ a \o b \in Seq(S) /\ Len(a \o b) = Len(s) - 1
      /\ \A i \in 1..(Len(s) - 1) : (a \o b)[i] = IF i < n THEN s[i] ELSE s[i + 1]
  <2>1. /\ a \o b \in Seq(S) /\ Len(a \o b) = Len(a) + Len(b)
        /\ \A i \in 1..(Len(a) + Len(b)) : (a \o b)[i] = IF i <= Len(a) THEN a[i] ELSE b[i - Len(a)]
    BY <1>2, <1>3, ConcatProperties
  <2>2. ASSUME NEW i \in 1..(Len(s) - 1) PROVE (a \o b)[i] = IF i < n THEN s[i] ELSE s[i + 1]
    <3>1. CASE i < n
      BY <1>1, <1>2, <1>3, <2>1, <2>2, <3>1
    <3>2. CASE ~(i < n)
      <4>1. i - (n - 1) \in 1..(Len(s) - n) /\ n + (i - (n - 1)) = i + 1
        BY <1>1, <2>2, <3>2
      <4>2. (a \o b)[i] = b[i - (n - 1)]
        BY <1>1, <1>2, <1>3, <2>1, <2>2, <3>2
      <4> QED
        BY <1>3, <3>2, <4>1, <4>2
    <3> QED
      BY <3>1, <3>2
  <2> QED
    BY <1>1, <1>2, <1>3, <2>1, <2>2
<1> QED
  BY <1>4 DEF a, b

\* What a step of write_conf()'s walk may do with the element n.
Overwrites(t, n) ==
  /\ list[n].key = arg[t].key /\ arg[t].value # NoValue
  /\ Len(list') = Len(list) /\ list'[n] = arg[t] /\ \A i \in 1..Len(list) : i # n => list'[i] = list[i]
  /\ pc' = [pc EXCEPT ![t] = "saving"] /\ at' = at
Unlinks(t, n) ==
  /\ list[n].key = arg[t].key /\ arg[t].value = NoValue
  /\ Len(list') = Len(list) - 1
  /\ \A i \in 1..(Len(list) - 1) : list'[i] = IF i < n THEN list[i] ELSE list[i + 1]
  /\ pc' = [pc EXCEPT ![t] = "saving"] /\ at' = at
Appends(t, n) ==
  /\ list[n].key # arg[t].key /\ arg[t].value # NoValue /\ n = Len(list)
  /\ Len(list') = n + 1 /\ list'[n + 1] = Line(arg[t].key, Garbage) /\ \A i \in 1..n : list'[i] = list[i]
  /\ pc' = pc /\ at' = [at EXCEPT ![t] = n + 1]
Passes(t, n) ==
  /\ list[n].key # arg[t].key
  /\ list' = list /\ pc' = pc /\ at' = [at EXCEPT ![t] = n + 1]

\* A step of write_conf()'s walk does one of these.
LEMMA WriteSteps ==
  ASSUME Typed, NEW t \in Threads, WriteElement(t)
  PROVE  /\ at[t] \in 1..Len(list) /\ list' \in Seq(Elements)
         /\ \/ Overwrites(t, at[t]) \/ Unlinks(t, at[t]) \/ Appends(t, at[t]) \/ Passes(t, at[t])
<1> DEFINE n == at[t]
<1>1. n \in 1..Len(list) /\ Len(list) \in Nat /\ DOMAIN list = 1..Len(list)
  BY LenProperties DEF Typed, WriteElement, ListEnds
<1>2. list[n] \in Elements /\ arg[t] \in Calls /\ list \in Seq(Elements)
  BY <1>1, ElementOfSeq DEF Typed
<1>3. Matches(t) <=> list[n].key = arg[t].key
  BY <1>1 DEF Matches, ListEnds
<1>4. CASE Matches(t) /\ arg[t].value # NoValue
  <2>1. list' = [list EXCEPT ![n].value = arg[t].value] /\ pc' = [pc EXCEPT ![t] = "saving"] /\ at' = at
    BY <1>4 DEF WriteElement
  <2>2. [list[n] EXCEPT !.value = arg[t].value] = arg[t] /\ arg[t] \in Elements
    BY <1>2, <1>3, <1>4 DEF Elements, Calls
  <2>3. list' = [list EXCEPT ![n] = arg[t]]
    BY <2>1, <2>2
  <2>4. /\ list' \in Seq(Elements) /\ Len(list') = Len(list) /\ list'[n] = arg[t]
        /\ \A i \in 1..Len(list) : i # n => list'[i] = list[i]
    BY <1>1, <1>2, <2>2, <2>3, ExceptSeq
  <2> QED
    BY <1>1, <1>3, <1>4, <2>1, <2>4 DEF Overwrites
<1>5. CASE Matches(t) /\ arg[t].value = NoValue
  <2>1. /\ list' = SubSeq(list, 1, n - 1) \o SubSeq(list, n + 1, Len(list))
        /\ pc' = [pc EXCEPT ![t] = "saving"] /\ at' = at
    BY <1>5 DEF WriteElement
  <2>2. /\ list' \in Seq(Elements) /\ Len(list') = Len(list) - 1
        /\ \A i \in 1..Len(list') : list'[i] = IF i < n THEN list[i] ELSE list[i + 1]
    BY <1>1, <1>2, <2>1, Unlinked
  <2> QED
    BY <1>1, <1>3, <1>5, <2>1, <2>2 DEF Unlinks
<1>6. CASE ~Matches(t) /\ n = Len(list) /\ arg[t].value # NoValue
  <2>1. list' = Append(list, Line(arg[t].key, Garbage)) /\ pc' = pc /\ at' = [at EXCEPT ![t] = n + 1]
    BY <1>6 DEF WriteElement, Advance
  <2>2. Line(arg[t].key, Garbage) \in Elements
    BY <1>2 DEF Line, Elements, Calls
  <2>3. /\ list' \in Seq(Elements) /\ Len(list') = n + 1 /\ list'[n + 1] = Line(arg[t].key, Garbage)
        /\ \A i \in 1..n : list'[i] = list[i]
    BY <1>1, <1>2, <1>6, <2>1, <2>2, AppendProperties
  <2> QED
    BY <1>1, <1>3, <1>6, <2>1, <2>3 DEF Appends
<1>7. CASE ~Matches(t) /\ ~(n = Len(list) /\ arg[t].value # NoValue)
  <2>1. list' = list /\ pc' = pc /\ at' = [at EXCEPT ![t] = n + 1]
    BY <1>7 DEF WriteElement, Advance
  <2> QED
    BY <1>1, <1>2, <1>3, <1>7, <2>1 DEF Passes
<1> QED
  BY <1>4, <1>5, <1>6, <1>7

\* Every step of the settings keeps the types; what init_conf() reads after a power loss
\* is what write_conf() had printed.
LEMMA TypedNext == Typed /\ Lock!LockInv /\ ListInv /\ [Next]_vars => Typed'
<1> SUFFICES ASSUME Typed, Lock!LockInv, ListInv, [Next]_vars PROVE Typed'
  OBVIOUS
<1>1. "idle" \in Pcs /\ "r_lock3" \in Pcs /\ "w_lock2" \in Pcs /\ Working \subseteq Pcs /\ "r_leave" \in Pcs
      /\ "w_unlockWrite" \in Pcs
  BY DEF Pcs, Working, L!ReaderPcs, L!WriterPcs
<1>2. NoCall \in Calls /\ \A k \in Keys : \A v \in Settable \cup {NoValue} : Line(k, v) \in Calls
  <2>1. (CHOOSE k \in Keys : TRUE) \in Keys
    BY KeysAssumption
  <2> QED
    BY <2>1, ValuesAssumption DEF NoCall, Line, Calls
<1>3. ASSUME NEW t \in Threads, NEW k \in Keys, NEW v \in Settable \cup {NoValue},
             NEW to \in {"r_lock3", "w_lock2"}, Call(t, to, k, v)
      PROVE  Typed'
  BY <1>1, <1>2, <1>3 DEF Typed, Call, L!Call, L!Move
<1>4. ASSUME NEW t \in Threads, Locking(t) PROVE Typed'
  BY <1>4, LockingMoves DEF Typed
<1>5. ASSUME NEW t \in Threads, ReadElement(t) PROVE Typed'
  <2>1. pc' \in [Threads -> Pcs] /\ arg' \in [Threads -> Calls] /\ at' \in [Threads -> Nat \ {0}]
    <3>1. CASE L!Move(t, "reading", "r_leave") /\ Forget(t)
      BY <1>1, <1>2, <3>1 DEF Typed, L!Move, Forget
    <3>2. CASE Advance(t) /\ arg' = arg
      BY <3>2 DEF Typed, Advance
    <3> QED
      BY <1>5, <3>1, <3>2 DEF ReadElement
  <2> QED
    BY <1>5, <2>1 DEF Typed, ReadElement
<1>6. ASSUME NEW t \in Threads, WriteElement(t) PROVE Typed'
  <2>1. pc' \in [Threads -> Pcs] /\ at' \in [Threads -> Nat \ {0}]
    <3>1. \/ pc' = [pc EXCEPT ![t] = "saving"] /\ at' = at
          \/ pc' = pc /\ at' = [at EXCEPT ![t] = at[t] + 1]
      BY <1>6, WriteSteps DEF Overwrites, Unlinks, Appends, Passes
    <3>2. "saving" \in Pcs /\ at[t] + 1 \in Nat \ {0}
      BY <1>1 DEF Typed, Working
    <3> QED
      BY <3>1, <3>2 DEF Typed
  <2> QED
    BY <1>6, <2>1, WriteSteps DEF Typed, WriteElement
<1>7. ASSUME NEW t \in Threads, WriteEnds(t) PROVE Typed'
  BY <1>1, <1>7 DEF Typed, WriteEnds, Working
<1>8. ASSUME NEW t \in Threads, Truncate(t) PROVE Typed'
  BY <1>1, <1>8, EmptySeq DEF Typed, Truncate, Working
<1>9. ASSUME NEW t \in Threads, SaveSkipped(t) PROVE Typed'
  BY <1>1, <1>2, <1>9 DEF Typed, SaveSkipped, Forget
<1>10. ASSUME NEW t \in Threads, PrintList(t) PROVE Typed'
  <2>1. list \in Seq(Lines)
    BY <1>10, AtTheList, NoGarbage DEF PrintList, Working
  <2>2. file' \in Seq(Lines) /\ UNCHANGED <<list, restarts>> /\ unsaved' = FALSE
    BY <1>10, <2>1 DEF PrintList
  <2>3. pc' \in [Threads -> Pcs] /\ arg' \in [Threads -> Calls] /\ at' \in [Threads -> Nat \ {0}]
    BY <1>1, <1>2, <1>10 DEF Typed, PrintList, Forget
  <2> QED
    BY <2>2, <2>3 DEF Typed
<1>11. CASE Restart
  <2>1. file' \in Seq(Lines)
    <3>1. CASE \E t \in Threads : pc[t] = "printing"
      <4>1. list \in Seq(Lines)
        BY <3>1, AtTheList, NoGarbage DEF Working
      <4>2. ASSUME NEW n \in 0..Len(list) PROVE SubSeq(list, 1, n) \in Seq(Lines)
        <5>1. \A i \in 1..n : list[i] \in Lines
          BY <4>1, ElementOfSeq, LenProperties
        <5> QED
          BY <4>1, <5>1, LenProperties, SubSeqProperties
      <4> QED
        BY <1>11, <3>1, <4>2 DEF Restart
    <3>2. CASE ~\E t \in Threads : pc[t] = "printing"
      BY <1>11, <3>2 DEF Restart, Typed
    <3> QED
      BY <3>1, <3>2
  <2>2. list' \in Seq(Lines)
    BY <1>11, <2>1, InitConf DEF Restart
  <2>3. list' \in Seq(Elements)
    BY <2>2, SeqMonotonic DEF Lines, Elements
  <2>4. pc' \in [Threads -> Pcs] /\ arg' \in [Threads -> Calls] /\ at' \in [Threads -> Nat \ {0}]
    BY <1>1, <1>2, <1>11 DEF Restart
  <2>5. unsaved' = FALSE /\ restarts' \in Nat
    BY <1>11 DEF Restart, Typed
  <2> QED
    BY <2>1, <2>3, <2>4, <2>5 DEF Typed
<1>12. CASE UNCHANGED vars
  BY <1>12 DEF Typed, vars, locks
<1> QED
  BY <1>3, <1>4, <1>5, <1>6, <1>7, <1>8, <1>9, <1>10, <1>11, <1>12 DEF Next, Step

\* A step of t that leaves the list alone.
LEMMA Moved ==
  ASSUME Typed, ListInv, NEW t \in Threads, list' = list,
         \A u \in Threads : u # t => pc'[u] = pc[u] /\ at'[u] = at[u] /\ arg'[u] = arg[u],
         Walk(t)', \A i \in DOMAIN list : Fresh(t, i) => Fresh(t, i)'
  PROVE  ListInv'
<1>1. \A u \in Threads : Walk(u)'
  BY DEF ListInv, Walk
<1>2. \A u \in Threads, i \in DOMAIN list : Fresh(u, i) => Fresh(u, i)'
  BY DEF Fresh
<1> QED
  BY <1>1, <1>2 DEF ListInv, Unique

\* Every step keeps the keys unique and a fresh element to the thread that hooked it on.
LEMMA ListNext == Typed /\ Lock!LockInv /\ ListInv /\ [Next]_vars => ListInv'
<1> SUFFICES ASSUME Typed, Lock!LockInv, ListInv, [Next]_vars PROVE ListInv'
  OBVIOUS
<1>1. DOMAIN list = 1..Len(list) /\ Len(list) \in Nat
  BY LenProperties DEF Typed
<1>2. \A t \in Threads : Walk(t) /\ at[t] \in Nat \ {0}
  BY DEF ListInv, Typed
<1>3. ASSUME NEW t \in Threads, NEW k \in Keys, NEW v \in Settable \cup {NoValue},
             NEW to \in {"r_lock3", "w_lock2"}, Call(t, to, k, v)
      PROVE  ListInv'
  <2>1. pc[t] = "idle" /\ pc' = [pc EXCEPT ![t] = to] /\ at' = at /\ list' = list
        /\ arg' = [arg EXCEPT ![t] = Line(k, v)]
    BY <1>3 DEF Call, L!Call, L!Move
  <2>2. Walk(t)'
    BY <1>2, <1>3, <2>1 DEF Walk, Working, Typed
  <2> QED
    BY <2>1, <2>2, Moved DEF Typed, Fresh
<1>4. ASSUME NEW t \in Threads, Locking(t) PROVE ListInv'
  <2>1. pc[t] \notin Working /\ (\A u \in Threads : u # t => pc'[u] = pc[u]) /\ UNCHANGED <<list, arg, at>>
    BY <1>4, LockingMoves
  <2>2. at[t] = 1
    BY <1>2, <2>1 DEF Walk
  <2>3. Walk(t)'
    BY <1>1, <2>1, <2>2 DEF Walk
  <2> QED
    BY <2>1, <2>3, Moved DEF Fresh, Working
<1>5. ASSUME NEW t \in Threads, ReadElement(t) PROVE ListInv'
  <2>1. pc[t] = "reading" /\ list' = list
    BY <1>5 DEF ReadElement
  <2>2. CASE L!Move(t, "reading", "r_leave") /\ Forget(t)
    <3>1. Walk(t)'
      BY <2>2 DEF Walk, L!Move, Forget, Working, Typed
    <3> QED
      BY <2>1, <2>2, <3>1, Moved DEF L!Move, Forget, Fresh, Typed
  <2>3. CASE ~Matches(t) /\ ~ListEnds(t) /\ Advance(t) /\ arg' = arg
    <3>1. at'[t] = at[t] + 1 /\ at[t] <= Len(list) /\ list[at[t]].key # arg[t].key /\ pc' = pc
      BY <1>1, <1>2, <2>3 DEF Matches, ListEnds, Advance, Typed
    <3>2. Walk(t)'
      BY <1>1, <1>2, <2>1, <2>3, <3>1 DEF Walk, Working
    <3> QED
      BY <2>1, <2>3, <3>2, Moved DEF Advance, Fresh, Typed
  <2> QED
    BY <1>5, <2>2, <2>3 DEF ReadElement
<1>6. ASSUME NEW t \in Threads, WriteElement(t) PROVE ListInv'
  <2> DEFINE n == at[t]
  <2>1. pc[t] = "writing" /\ arg' = arg /\ n \in 1..Len(list) /\ list' \in Seq(Elements)
    BY <1>6, WriteSteps DEF WriteElement
  <2>2. DOMAIN list' = 1..Len(list') /\ Len(list') \in Nat
    BY <2>1, LenProperties
  <2>3. \A u \in Threads : u # t => pc[u] \notin Working
    BY <2>1, AtTheList DEF Working
  <2>4. \A i \in 1..Len(list) : list[i].value = Garbage
          => i = n /\ i = Len(list) /\ i > 1 /\ list[i].key = arg[t].key /\ arg[t].value # NoValue
    BY <1>1, <2>3 DEF ListInv, Fresh, Working
  <2>5. \A i, j \in 1..Len(list) : list[i].key = list[j].key => i = j
    BY <1>1 DEF ListInv, Unique
  <2>6. ASSUME pc' = [pc EXCEPT ![t] = "saving"], at' = at PROVE \A u \in Threads : Walk(u)'
    BY <1>2, <2>1, <2>3, <2>6 DEF Walk, Working, Typed
  <2>7. CASE Overwrites(t, n)
    <3>1. Unique(list')
      BY <2>2, <2>5, <2>7 DEF Overwrites, Unique
    <3>2. arg[t].value # Garbage
      BY <2>7, ValuesAssumption DEF Overwrites, Typed, Calls
    <3>3. ASSUME NEW i \in 1..Len(list) PROVE list'[i].value # Garbage
      <4>1. CASE i = n
        BY <2>7, <3>2, <4>1 DEF Overwrites
      <4>2. CASE i # n
        BY <2>4, <2>7, <4>2 DEF Overwrites
      <4> QED
        BY <4>1, <4>2
    <3>4. DOMAIN list' = 1..Len(list)
      BY <2>2, <2>7 DEF Overwrites
    <3> QED
      BY <2>6, <2>7, <3>1, <3>3, <3>4 DEF ListInv, Overwrites
  <2>8. CASE Unlinks(t, n)
    <3>1. Unique(list')
      <4> SUFFICES ASSUME NEW i \in 1..(Len(list) - 1), NEW j \in 1..(Len(list) - 1),
                          list'[i].key = list'[j].key
                   PROVE  i = j
        BY <1>1, <2>2, <2>8 DEF Unique, Unlinks
      <4> DEFINE p(m) == IF m < n THEN m ELSE m + 1
      <4>1. /\ p(i) \in 1..Len(list) /\ p(j) \in 1..Len(list)
            /\ list'[i] = list[p(i)] /\ list'[j] = list[p(j)]
        BY <1>1, <2>1, <2>8 DEF Unlinks
      <4>2. p(i) = p(j)
        BY <2>5, <4>1
      <4> QED
        BY <1>1, <2>1, <4>2
    <3>2. \A i \in DOMAIN list' : list'[i].value # Garbage
      BY <1>1, <2>1, <2>2, <2>4, <2>8 DEF Unlinks
    <3> QED
      BY <2>6, <2>8, <3>1, <3>2 DEF ListInv, Unlinks
  <2>9. CASE Appends(t, n)
    <3>1. /\ \A i \in 1..n : list'[i] = list[i] /\ list[i].key # arg[t].key
          /\ list'[n + 1].key = arg[t].key /\ Len(list') = n + 1 /\ n = Len(list)
      BY <1>2, <2>1, <2>9 DEF Appends, Line, Walk
    <3>2. Unique(list')
      BY <2>1, <2>2, <2>5, <3>1 DEF Unique
    <3>3. \A u \in Threads : u # t => Walk(u)'
      BY <1>2, <2>1, <2>3, <2>9 DEF Appends, Walk, Working, Typed
    <3>4. Walk(t)'
      BY <2>1, <2>2, <2>9, <3>1 DEF Appends, Walk, Working, Typed
    <3>5. \A i \in 1..n : list'[i].value # Garbage
      BY <2>4, <2>9, <3>1 DEF Appends
    <3>6. /\ pc'[t] = "writing" /\ at'[t] = n + 1 /\ n + 1 > 1
          /\ arg'[t].value # NoValue /\ list'[n + 1].key = arg'[t].key
      BY <1>1, <2>1, <2>9, <3>1 DEF Appends, Typed
    <3>7. ASSUME NEW i \in DOMAIN list', list'[i].value = Garbage PROVE \E u \in Threads : Fresh(u, i)'
      <4>1. i = n + 1 /\ i = Len(list')
        BY <1>1, <2>1, <2>2, <3>1, <3>5, <3>7
      <4> HIDE DEF n
      <4>2. Fresh(t, i)'
        BY <3>6, <4>1 DEF Fresh
      <4> QED
        BY <4>2
    <3>8. \A u \in Threads : Walk(u)'
      BY <3>3, <3>4
    <3> QED
      BY <3>2, <3>7, <3>8 DEF ListInv
  <2>10. CASE Passes(t, n)
    <3>1. at'[t] = n + 1 /\ pc'[t] = "writing" /\ list' = list /\ arg' = arg
      BY <2>1, <2>10 DEF Passes, Typed
    <3>2. /\ (n + 1) - 1 = n /\ n + 1 <= Len(list) + 1
          /\ \A i \in 1..n : list[i].key # arg[t].key
      <4>1. list[n].key # arg[t].key /\ \A i \in 1..(n - 1) : list[i].key # arg[t].key
        BY <1>2, <2>1, <2>10 DEF Passes, Walk
      <4> HIDE DEF n
      <4> QED
        BY <1>1, <2>1, <4>1
    <3>3. Walk(t)'
      BY <3>1, <3>2 DEF Walk, Working
    <3>4. \A i \in DOMAIN list : ~Fresh(t, i)
      BY <2>10 DEF Passes, Fresh
    <3> QED
      BY <2>1, <2>10, <3>3, <3>4, Moved DEF Passes, Typed
  <2> QED
    BY <1>6, <2>7, <2>8, <2>9, <2>10, WriteSteps
<1>7. ASSUME NEW t \in Threads, WriteEnds(t) \/ Truncate(t) PROVE ListInv'
  <2>1. /\ pc[t] \in Working /\ UNCHANGED <<list, arg, at>>
        /\ \E to \in {"saving", "printing"} : pc' = [pc EXCEPT ![t] = to]
    BY <1>7 DEF WriteEnds, Truncate, Working
  <2>2. Walk(t)'
    BY <2>1 DEF Walk, Working, Typed
  <2>3. \A i \in DOMAIN list : ~Fresh(t, i)
    BY <1>1, <1>7 DEF WriteEnds, Truncate, ListEnds, Fresh
  <2> QED
    BY <2>1, <2>2, <2>3, Moved DEF Typed
<1>8. ASSUME NEW t \in Threads, SaveSkipped(t) \/ PrintList(t) PROVE ListInv'
  <2>1. /\ pc[t] # "writing" /\ pc' = [pc EXCEPT ![t] = "w_unlockWrite"] /\ list' = list /\ Forget(t)
    BY <1>8 DEF SaveSkipped, PrintList
  <2>2. Walk(t)'
    BY <2>1 DEF Walk, Working, Forget, Typed
  <2> QED
    BY <2>1, <2>2, Moved DEF Fresh, Forget, Typed
<1>9. CASE Restart
  <2>1. file' \in Seq(Lines) /\ list' = init_conf(file')
    BY <1>9, TypedNext DEF Restart, Typed
  <2>2. list' \in Seq(Lines) /\ Unique(list')
    BY <2>1, InitConf
  <2>3. \A i \in DOMAIN list' : list'[i].value # Garbage
    <3>1. DOMAIN list' = 1..Len(list')
      BY <2>2, LenProperties
    <3>2. \A i \in 1..Len(list') : list'[i] \in Lines
      BY <2>2, ElementOfSeq
    <3> QED
      BY <3>1, <3>2, ValuesAssumption DEF Lines
  <2>4. \A t \in Threads : Walk(t)'
    BY <1>9 DEF Restart, Walk, Working
  <2> QED
    BY <2>2, <2>3, <2>4 DEF ListInv
<1>10. CASE UNCHANGED vars
  BY <1>10 DEF vars, locks, ListInv, Unique, Walk, Fresh
<1> QED
  BY <1>3, <1>4, <1>5, <1>6, <1>7, <1>8, <1>9, <1>10 DEF Next, Step

-----------------------------------------------------------------------------
\* Whoever changes the list saves it before leaving, or is not able to; what init_conf()
\* reads is what the file holds.
LEMMA SavedNext == Typed /\ Lock!LockInv /\ ListInv /\ Saved /\ [Next]_vars => Saved'
<1> SUFFICES ASSUME Typed, Lock!LockInv, ListInv, Saved, [Next]_vars PROVE Saved'
  OBVIOUS
<1> DEFINE W == {"writing", "saving", "printing"}
<1>1. ASSUME UNCHANGED <<file, list, unsaved>>, NEW t \in Threads, pc[t] \notin W,
             \A u \in Threads : u # t => pc'[u] = pc[u]
      PROVE  Saved'
  <2>1. (\A u \in Threads : pc'[u] \notin W) => \A u \in Threads : pc[u] \notin W
    BY <1>1
  <2> QED
    BY <1>1, <2>1 DEF Saved
<1>2. ASSUME NEW t \in Threads, NEW to, NEW k, NEW v, Call(t, to, k, v) PROVE Saved'
  <2>1. pc[t] = "idle" /\ UNCHANGED <<file, list, unsaved>> /\ pc' = [pc EXCEPT ![t] = to]
    BY <1>2 DEF Call, L!Call, L!Move
  <2> QED
    BY <1>1, <2>1 DEF Typed
<1>3. ASSUME NEW t \in Threads, Locking(t) PROVE Saved'
  BY <1>1, <1>3, LockingMoves DEF Working
<1>4. ASSUME NEW t \in Threads, ReadElement(t) PROVE Saved'
  <2>1. pc[t] = "reading" /\ UNCHANGED <<file, list, unsaved>>
    BY <1>4 DEF ReadElement
  <2>2. pc' = pc \/ pc' = [pc EXCEPT ![t] = "r_leave"]
    BY <1>4 DEF ReadElement, Advance, L!Move
  <2> QED
    BY <1>1, <2>1, <2>2 DEF Typed
<1>5. ASSUME NEW t \in Threads, WriteElement(t) \/ WriteEnds(t) \/ Truncate(t) PROVE Saved'
  <2>1. pc'[t] \in W
    <3>1. CASE WriteElement(t)
      BY <3>1 DEF WriteElement, Advance, Typed
    <3>2. CASE WriteEnds(t) \/ Truncate(t)
      BY <3>2 DEF WriteEnds, Truncate, Typed
    <3> QED
      BY <1>5, <3>1, <3>2
  <2> QED
    BY <2>1 DEF Saved
<1>6. ASSUME NEW t \in Threads, SaveSkipped(t) PROVE Saved'
  BY <1>6 DEF SaveSkipped, Saved
<1>7. ASSUME NEW t \in Threads, PrintList(t) PROVE Saved'
  <2>1. file' = list'
    BY <1>7 DEF PrintList
  <2> QED
    BY <2>1 DEF Saved
<1>8. CASE Restart
  <2>1. file' \in Seq(Lines) /\ list' = init_conf(file')
    BY <1>8, TypedNext DEF Restart, Typed
  <2>2. Agree(file', list')
    BY <2>1, InitConf
  <2> QED
    BY <2>2 DEF Saved, Agree
<1>9. CASE UNCHANGED vars
  BY <1>9 DEF vars, locks, Saved
<1> QED
  BY <1>2, <1>3, <1>4, <1>5, <1>6, <1>7, <1>8, <1>9 DEF Next, Step

\* At the start the list is what init_conf() made of the file, and nobody uses it.
LEMMA ConfInit == Init => ConfInv
<1> SUFFICES ASSUME Init PROVE ConfInv
  OBVIOUS
<1>1. /\ file \in Seq(Lines) /\ list = init_conf(file) /\ pc = [t \in Threads |-> "idle"]
      /\ arg = [t \in Threads |-> NoCall] /\ at = [t \in Threads |-> 1]
      /\ unsaved = FALSE /\ restarts = 0
  BY FilesAssumption DEF Init, L!Init
<1>2. list \in Seq(Lines) /\ Unique(list) /\ Agree(file, list)
  BY <1>1, InitConf
<1>3. Typed
  <2>1. NoCall \in Calls
    BY KeysAssumption DEF NoCall, Line, Calls
  <2>2. list \in Seq(Elements)
    BY <1>2, SeqMonotonic DEF Lines, Elements
  <2>3. "idle" \in Pcs
    BY DEF Pcs
  <2>4. pc \in [Threads -> Pcs] /\ arg \in [Threads -> Calls] /\ at \in [Threads -> Nat \ {0}]
    BY <1>1, <2>1, <2>3
  <2> QED
    BY <1>1, <2>2, <2>4 DEF Typed
<1>4. Lock!LockInv
  <2>1. Lock!Init
    BY DEF Init, L!Init, Lock!Init, lockpc
  <2> QED
    BY <2>1, LockStart
<1>5. ListInv
  <2>1. \A i \in DOMAIN list : list[i].value # Garbage
    <3>1. DOMAIN list = 1..Len(list)
      BY <1>2, LenProperties
    <3>2. \A i \in 1..Len(list) : list[i] \in Lines
      BY <1>2, ElementOfSeq
    <3> QED
      BY <3>1, <3>2, ValuesAssumption DEF Lines
  <2>2. \A t \in Threads : Walk(t)
    BY <1>1 DEF Walk
  <2> QED
    BY <1>2, <2>1, <2>2 DEF ListInv
<1>6. Saved
  BY <1>2 DEF Saved, Agree
<1> QED
  BY <1>3, <1>4, <1>5, <1>6 DEF ConfInv

\* ConfInv is an invariant of the settings.
LEMMA ConfInvariant == Spec => []ConfInv
<1>1. ConfInv /\ [Next]_vars => ConfInv'
  BY LockNext, TypedNext, ListNext, SavedNext DEF ConfInv
<1> QED
  BY <1>1, ConfInit, PTL DEF Spec

\* Keys are unique in the list, and only the writer that hooked it on ever sees an element
\* without a value, however read_conf() and write_conf() interleave.
THEOREM TypeCorrect == Spec => []TypeOK
<1>1. ConfInv => TypeOK
  <2> SUFFICES ASSUME ConfInv, NEW i \in DOMAIN list
               PROVE  list[i].value \in Values \/ \E t \in Threads : pc[t] = "writing" /\ at[t] = i
    BY DEF TypeOK, ConfInv, ListInv, Unique
  <2>1. list[i] \in Elements
    BY ElementOfSeq, LenProperties DEF ConfInv, Typed
  <2>2. list[i].value = Garbage => \E t \in Threads : pc[t] = "writing" /\ at[t] = i
    BY DEF ConfInv, ListInv, Fresh
  <2> QED
    BY <2>1, <2>2 DEF Elements
<1> QED
  BY <1>1, ConfInvariant, PTL

\* Unless a write_conf() is at work or could not open CONFIG_SYSTEM, the file gives every
\* key the value the list gives it: a power loss changes nothing.
THEOREM FileSaved == Spec => []Saved
<1>1. ConfInv => Saved
  BY DEF ConfInv
<1> QED
  BY <1>1, ConfInvariant, PTL

-----------------------------------------------------------------------------
\* The table that a list stands for.
TableOf(s) ==
  [k \in Keys |-> IF Has(s, k) /\ Lookup(s, k) # Garbage THEN Lookup(s, k) ELSE NoValue]

\* Where keys are unique, the element of a key decides its entry.
LEMMA TableEntry ==
  ASSUME NEW s \in Seq(Elements), Unique(s), NEW k \in Keys
  PROVE  /\ TableOf(s)[k] \in Values \cup {NoValue}
         /\ \A i \in DOMAIN s : s[i].key = k
              => TableOf(s)[k] = IF s[i].value # Garbage THEN s[i].value ELSE NoValue
         /\ ~Has(s, k) => TableOf(s)[k] = NoValue
<1>1. \A i \in DOMAIN s : s[i].key = k => Has(s, k) /\ Lookup(s, k) = s[i].value
  BY LookupUnique
<1>2. \A i \in DOMAIN s : s[i] \in Elements
  BY ElementOfSeq, LenProperties
<1>3. Has(s, k) => Lookup(s, k) \in Values \cup {Garbage}
  BY <1>1, <1>2 DEF Has, Elements
<1>4. TableOf(s)[k] = IF Has(s, k) /\ Lookup(s, k) # Garbage THEN Lookup(s, k) ELSE NoValue
  BY DEF TableOf
<1> QED
  BY <1>1, <1>3, <1>4

\* Lists that have the same elements for a key give it the same entry.
LEMMA SameEntry ==
  ASSUME NEW s \in Seq(Elements), Unique(s), NEW r \in Seq(Elements), Unique(r), NEW k \in Keys,
         \A i \in DOMAIN s : s[i].key = k => \E j \in DOMAIN r : r[j] = s[i],
         \A j \in DOMAIN r : r[j].key = k => \E i \in DOMAIN s : s[i] = r[j]
  PROVE  TableOf(s)[k] = TableOf(r)[k]
<1>1. CASE Has(s, k)
  <2>1. PICK i \in DOMAIN s : s[i].key = k
    BY <1>1 DEF Has
  <2>2. PICK j \in DOMAIN r : r[j] = s[i]
    BY <2>1
  <2>3. /\ TableOf(s)[k] = IF s[i].value # Garbage THEN s[i].value ELSE NoValue
        /\ TableOf(r)[k] = IF r[j].value # Garbage THEN r[j].value ELSE NoValue
    BY <2>1, <2>2, TableEntry
  <2> QED
    BY <2>2, <2>3
<1>2. CASE ~Has(s, k)
  <2>1. ~Has(r, k)
    BY <1>2 DEF Has
  <2> QED
    BY <1>2, <2>1, TableEntry
<1> QED
  BY <1>1, <1>2

\* get_conf() finds what the table holds, or asks CONFIG_SBIN, at one instant.
LEMMA GetStep ==
  ASSUME ConfInv, NEW t \in Threads, ReadElement(t)
  PROVE  [Store!Next]_<<Table, result, restarts>>
<1>1. UNCHANGED <<list, restarts>> /\ pc[t] = "reading"
  BY DEF ReadElement
<1>2. Table' = Table
  BY <1>1 DEF Table, Has, Lookup
<1>3. CASE result' = result
  BY <1>1, <1>2, <1>3
<1>4. CASE /\ Matches(t) \/ ListEnds(t)
           /\ result' = [result EXCEPT ![t] = IF Matches(t) THEN list[at[t]].value ELSE ReadOnly[arg[t].key]]
  <2> DEFINE k == arg[t].key
             n == at[t]
  <2>1. k \in Keys /\ n \in Nat \ {0} /\ list \in Seq(Elements) /\ Unique(list)
    BY DEF ConfInv, Typed, Calls, ListInv
  <2>2. DOMAIN list = 1..Len(list) /\ Len(list) \in Nat
    BY <2>1, LenProperties
  <2>3. list \in Seq(Lines)
    BY <1>1, AtTheList, NoGarbage DEF ConfInv, Working
  <2>4. \A i \in 1..Len(list) : list[i].value \in Values
    <3>1. \A i \in 1..Len(list) : list[i] \in Lines
      BY <2>3, ElementOfSeq
    <3> QED
      BY <3>1 DEF Lines
  <2>5. Table = TableOf(list)
    BY DEF Table, TableOf
  <2>6. CASE Matches(t)
    <3>1. n \in 1..Len(list) /\ list[n].key = k
      BY <2>1, <2>2, <2>6 DEF Matches, ListEnds
    <3>2. list[n].value \in Values /\ list[n].value # NoValue /\ list[n].value # Garbage
      BY <2>4, <3>1, ValuesAssumption
    <3>3. Table[k] = list[n].value
      BY <2>1, <2>2, <2>5, <3>1, <3>2, TableEntry
    <3>4. Store!Get(t, k)
      BY <1>1, <1>2, <1>4, <2>6, <3>2, <3>3 DEF Store!Get
    <3> QED
      BY <2>1, <3>4 DEF Store!Next
  <2>7. CASE ~Matches(t)
    <3>1. n = Len(list) + 1 /\ \A i \in 1..(n - 1) : list[i].key # k
      BY <1>1, <1>4, <2>1, <2>2, <2>7 DEF ConfInv, ListInv, Walk, ListEnds
    <3>2. ~Has(list, k)
      BY <2>2, <3>1 DEF Has
    <3>3. Table[k] = NoValue
      BY <2>1, <2>5, <3>2, TableEntry
    <3>4. Store!Get(t, k)
      BY <1>1, <1>2, <1>4, <2>7, <3>3 DEF Store!Get
    <3> QED
      BY <2>1, <3>4 DEF Store!Next
  <2> QED
    BY <2>6, <2>7
<1> QED
  BY <1>3, <1>4 DEF ReadElement

\* set_conf() changes one entry of the table where it copies the value or unlinks the
\* element; hooking on an element that has no value yet changes nothing.
LEMMA SetStep ==
  ASSUME ConfInv, ListInv', NEW t \in Threads, WriteElement(t)
  PROVE  [Store!Next]_<<Table, result, restarts>>
<1> DEFINE n == at[t]
           k == arg[t].key
           v == arg[t].value
<1>1. /\ pc[t] = "writing" /\ UNCHANGED <<result, restarts>>
      /\ n \in 1..Len(list) /\ list' \in Seq(Elements)
  BY WriteSteps DEF ConfInv, WriteElement
<1>2. /\ list \in Seq(Elements) /\ Unique(list) /\ Unique(list')
      /\ k \in Keys /\ v \in Values \cup {NoValue} /\ arg[t] \in Calls
  BY DEF ConfInv, Typed, ListInv, Calls
<1>3. /\ DOMAIN list = 1..Len(list) /\ Len(list) \in Nat
      /\ DOMAIN list' = 1..Len(list') /\ Len(list') \in Nat
  BY <1>1, <1>2, LenProperties
<1>4. Table = TableOf(list) /\ Table' = TableOf(list')
  BY DEF Table, TableOf
<1>5. DOMAIN Table = Keys /\ DOMAIN Table' = Keys
  BY DEF Table
<1>6. \A i \in 1..Len(list) : list[i].value = Garbage => i = n /\ i > 1 /\ v # NoValue
  <2>1. \A u \in Threads : u # t => pc[u] # "writing"
    BY <1>1, AtTheList DEF ConfInv, Working
  <2> QED
    BY <1>3, <2>1 DEF ConfInv, ListInv, Fresh
<1>7. \E u \in Keys : Table[u] # NoValue
  <2> DEFINE i == IF list[n].value = Garbage THEN 1 ELSE n
  <2>1. i \in 1..Len(list) /\ list[i].value # Garbage
    BY <1>1, <1>3, <1>6
  <2> HIDE DEF i
  <2>2. list[i].key \in Keys /\ list[i].value \in Values
    <3>1. list[i] \in Elements
      BY <1>2, <2>1, ElementOfSeq
    <3> QED
      BY <2>1, <3>1 DEF Elements
  <2>3. Table[list[i].key] = list[i].value
    BY <1>2, <1>3, <1>4, <2>1, <2>2, TableEntry
  <2> QED
    BY <2>2, <2>3, ValuesAssumption
<1>8. ASSUME Table' = [Table EXCEPT ![k] = v] PROVE Store!Next
  <2>1. Store!Set(k, v)
    BY <1>1, <1>7, <1>8 DEF Store!Set
  <2> QED
    BY <1>2, <2>1 DEF Store!Next
<1>9. ASSUME Table'[k] = v, \A u \in Keys : u # k => Table'[u] = Table[u]
      PROVE  Table' = [Table EXCEPT ![k] = v]
  <2>1. Table = [u \in Keys |-> Table[u]] /\ Table' = [u \in Keys |-> Table'[u]]
    BY DEF Table
  <2> HIDE DEF k, v
  <2>2. [Table EXCEPT ![k] = v] = [u \in Keys |-> IF u = k THEN v ELSE Table[u]]
    BY <1>2, <1>5, <2>1
  <2>3. [u \in Keys |-> Table'[u]] = [u \in Keys |-> IF u = k THEN v ELSE Table[u]]
    BY <1>9
  <2> QED
    BY <2>1, <2>2, <2>3
<1>10. CASE Overwrites(t, n)
  <2>1. /\ list[n].key = k /\ v # NoValue /\ v # Garbage
        /\ Len(list') = Len(list) /\ list'[n] = arg[t]
        /\ \A i \in 1..Len(list) : i # n => list'[i] = list[i]
    BY <1>2, <1>10, ValuesAssumption DEF Overwrites
  <2>2. Table'[k] = v
    <3>1. n \in DOMAIN list' /\ list'[n].key = k /\ list'[n].value = v
      BY <1>1, <1>3, <2>1
    <3> QED
      BY <1>1, <1>2, <1>4, <2>1, <3>1, TableEntry
  <2>3. ASSUME NEW u \in Keys, u # k PROVE Table'[u] = Table[u]
    <3>1. \A i \in DOMAIN list' : list'[i].key = u => list[i] = list'[i] /\ i \in DOMAIN list
      BY <1>1, <1>3, <2>1, <2>3
    <3>2. \A i \in DOMAIN list : list[i].key = u => list'[i] = list[i] /\ i \in DOMAIN list'
      BY <1>1, <1>3, <2>1, <2>3
    <3> QED
      BY <1>1, <1>2, <1>4, <3>1, <3>2, SameEntry
  <2> QED
    BY <1>8, <1>9, <2>2, <2>3
<1>11. CASE Unlinks(t, n)
  <2>1. /\ list[n].key = k /\ v = NoValue /\ Len(list') = Len(list) - 1
        /\ \A i \in 1..(Len(list) - 1) : list'[i] = IF i < n THEN list[i] ELSE list[i + 1]
    BY <1>11 DEF Unlinks
  <2>2. ASSUME NEW i \in DOMAIN list'
        PROVE  \E j \in DOMAIN list : list[j] = list'[i] /\ j # n
    <3>1. CASE i < n
      BY <1>1, <1>3, <2>1, <3>1
    <3>2. CASE ~(i < n)
      <4>1. i + 1 \in DOMAIN list /\ i + 1 # n /\ list[i + 1] = list'[i]
        BY <1>1, <1>3, <2>1, <3>2
      <4> QED
        BY <4>1
    <3> QED
      BY <3>1, <3>2
  <2>3. ASSUME NEW j \in DOMAIN list, j # n PROVE \E i \in DOMAIN list' : list'[i] = list[j]
    <3>1. CASE j < n
      BY <1>1, <1>3, <2>1, <3>1
    <3>2. CASE ~(j < n)
      <4>1. j \in 1..Len(list) /\ j # n
        BY <1>3, <2>3
      <4>2. j - 1 \in 1..(Len(list) - 1) /\ ~(j - 1 < n) /\ (j - 1) + 1 = j
        BY <1>1, <1>3, <3>2, <4>1
      <4>3. list'[j - 1] = list[j] /\ j - 1 \in DOMAIN list'
        BY <1>3, <2>1, <4>2
      <4> QED
        BY <4>3
    <3> QED
      BY <3>1, <3>2
  <2>4. Table'[k] = v
    <3>1. ~Has(list', k)
      BY <1>1, <1>2, <1>3, <2>1, <2>2 DEF Has, Unique
    <3> QED
      BY <1>1, <1>2, <1>4, <2>1, <3>1, TableEntry
  <2>5. ASSUME NEW u \in Keys, u # k PROVE Table'[u] = Table[u]
    <3>1. \A i \in DOMAIN list' : list'[i].key = u => \E j \in DOMAIN list : list[j] = list'[i]
      BY <2>2
    <3>2. \A j \in DOMAIN list : list[j].key = u => \E i \in DOMAIN list' : list'[i] = list[j]
      BY <2>1, <2>3, <2>5
    <3> QED
      BY <1>1, <1>2, <1>4, <3>1, <3>2, SameEntry
  <2> QED
    BY <1>8, <1>9, <2>4, <2>5
<1>12. CASE Appends(t, n)
  <2>1. /\ n = Len(list) /\ Len(list') = n + 1 /\ list'[n + 1].key = k /\ list'[n + 1].value = Garbage
        /\ \A i \in 1..n : list'[i] = list[i] /\ list[i].key # k
    BY <1>1, <1>12 DEF Appends, Line, ConfInv, ListInv, Walk
  <2>2. ASSUME NEW u \in Keys PROVE Table'[u] = Table[u]
    <3>1. CASE u = k
      <4>1. ~Has(list, k)
        BY <1>3, <2>1 DEF Has
      <4>2. n + 1 \in DOMAIN list'
        BY <1>1, <1>3, <2>1
      <4>3. Table'[k] = NoValue
        BY <1>1, <1>2, <1>4, <2>1, <4>2, TableEntry
      <4> QED
        BY <1>2, <1>4, <3>1, <4>1, <4>3, TableEntry
    <3>2. CASE u # k
      <4>1. \A i \in DOMAIN list' : list'[i].key = u => list[i] = list'[i] /\ i \in DOMAIN list
        BY <1>1, <1>3, <2>1, <3>2
      <4>2. \A i \in DOMAIN list : list[i].key = u => list'[i] = list[i] /\ i \in DOMAIN list'
        BY <1>1, <1>3, <2>1
      <4> QED
        BY <1>1, <1>2, <1>4, <4>1, <4>2, SameEntry
    <3> QED
      BY <3>1, <3>2
  <2>3. Table' = Table
    <3>1. Table = [u \in Keys |-> Table[u]] /\ Table' = [u \in Keys |-> Table'[u]]
      BY DEF Table
    <3> QED
      BY <2>2, <3>1
  <2> QED
    BY <1>1, <2>3
<1>13. CASE Passes(t, n)
  BY <1>1, <1>4, <1>13 DEF Passes, TableOf
<1> QED
  BY <1>10, <1>11, <1>12, <1>13, WriteSteps DEF ConfInv

\* Every step of the threads is a step of ConfigStore, or changes nothing that it shows.
LEMMA StoreStep ==
  ConfInv /\ ConfInv' /\ [Next]_vars => [Store!Next]_<<Table, result, restarts>>
<1> SUFFICES ASSUME ConfInv, ConfInv', [Next]_vars PROVE [Store!Next]_<<Table, result, restarts>>
  OBVIOUS
<1>1. list' = list => Table' = Table
  BY DEF Table, Has, Lookup
<1>2. ASSUME NEW t \in Threads, NEW to, NEW k, NEW v, Call(t, to, k, v) PROVE Store!Next
  <2>1. Store!Call(t)
    BY <1>1, <1>2 DEF Call, Store!Call
  <2> QED
    BY <2>1 DEF Store!Next
<1>3. ASSUME NEW t \in Threads, Step(t) PROVE [Store!Next]_<<Table, result, restarts>>
  <2>1. CASE ReadElement(t)
    BY <2>1, GetStep
  <2>2. CASE WriteElement(t)
    BY <2>2, SetStep DEF ConfInv
  <2>3. CASE Locking(t) \/ WriteEnds(t) \/ Truncate(t) \/ SaveSkipped(t) \/ PrintList(t)
    BY <1>1, <2>3 DEF Locking, WriteEnds, Truncate, SaveSkipped, PrintList
  <2> QED
    BY <1>3, <2>1, <2>2, <2>3 DEF Step
<1>4. CASE Restart
  <2>1. list' \in Seq(Elements) /\ Unique(list')
    BY DEF ConfInv, Typed, ListInv
  <2>2. \A k \in Keys : TableOf(list')[k] \in Values \cup {NoValue}
    BY <2>1, TableEntry
  <2>3. Table' \in [Keys -> Values \cup {NoValue}]
    BY <2>2 DEF Table, TableOf
  <2>4. Store!Restart
    BY <1>4, <2>3 DEF Restart, Store!Restart
  <2> QED
    BY <2>4 DEF Store!Next
<1>5. CASE UNCHANGED vars
  BY <1>1, <1>5 DEF vars
<1> QED
  BY <1>2, <1>3, <1>4, <1>5 DEF Next

\* get_conf() and set_conf() act at one instant on one table, whatever other threads do:
\* the settings implement ConfigStore.
THEOREM Atomicity == Spec => Atomic
<1>1. ConfInv /\ Init => Store!Init
  <2> SUFFICES ASSUME ConfInv, Init PROVE Store!Init
    OBVIOUS
  <2>1. list \in Seq(Elements) /\ Unique(list)
    BY DEF ConfInv, Typed, ListInv
  <2>2. \A k \in Keys : TableOf(list)[k] \in Values \cup {NoValue}
    BY <2>1, TableEntry
  <2>3. Table \in [Keys -> Values \cup {NoValue}]
    BY <2>2 DEF Table, TableOf
  <2> QED
    BY <2>3 DEF Init, Store!Init
<1> QED
  BY <1>1, ConfInvariant, StoreStep, PTL DEF Spec, Atomic, Store!Spec
=============================================================================
