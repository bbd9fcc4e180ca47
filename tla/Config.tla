------------------------------- MODULE Config -------------------------------
(***************************************************************************)
(* The settings of config.c: the list in memory that read_conf() and       *)
(* write_conf() walk under the lock of ConfLock, and CONFIG_SYSTEM, the    *)
(* file write_conf() rewrites and init_conf() reads at the next start.     *)
(***************************************************************************)
EXTENDS Naturals, Sequences, FiniteSets

CONSTANTS
  Threads,
  Keys, Values, NoValue,   \* NoValue: the NULL that removes a key
  Settable,                \* bound: the values callers set
  Garbage,                 \* the value of a fresh list element before strcpy()
  ReadOnly,                \* CONFIG_SBIN: key -> value or NoValue
  Files,                   \* what CONFIG_SYSTEM may hold at first: lines [key, value]
  MaxRestarts              \* bound: power losses

Line(k, v) == [key |-> k, value |-> v]
Lines == [key : Keys, value : Values]

ASSUME ThreadsAssumption == IsFiniteSet(Threads)
ASSUME KeysAssumption == Keys # {}
ASSUME ValuesAssumption ==
  /\ Settable \subseteq Values
  /\ NoValue \notin Values /\ Garbage \notin Values \cup {NoValue}
ASSUME FilesAssumption == \A f \in Files : f \in Seq(Lines)
ASSUME RestartsAssumption == MaxRestarts \in Nat

VARIABLES
  pc, locked, numreaders, numwriters,   \* of ConfLock
  list,       \* firstconf.next and its successors
  file,       \* the lines of CONFIG_SYSTEM
  arg,        \* key and value each thread's call was given
  at,         \* the list element each thread looks at
  result,     \* what its get_conf() found
  unsaved,    \* history: the list was changed and could not be saved since
  restarts

L == INSTANCE ConfLock

locks == <<pc, locked, numreaders, numwriters>>
vars == <<locks, list, file, arg, at, result, unsaved, restarts>>

NoCall == Line(CHOOSE k \in Keys : TRUE, NoValue)
Has(s, k) == \E i \in DOMAIN s : s[i].key = k
Lookup(s, k) == s[CHOOSE i \in DOMAIN s : s[i].key = k /\ \A j \in 1..(i - 1) : s[j].key # k].value

\* init_conf(): the lines of the file, the first one for every key.
\* Mutant: the key is not looked up first.
init_conf_all(s) == s
init_conf(s) ==
  LET first == {i \in DOMAIN s : \A j \in 1..(i - 1) : s[j].key # s[i].key}
  IN  [n \in 1..Cardinality(first) |->
         s[CHOOSE i \in first : Cardinality({j \in first : j < i}) = n - 1]]

Init ==
  /\ L!Init
  /\ file \in Files
  /\ list = init_conf(file)
  /\ arg = [t \in Threads |-> NoCall]
  /\ at = [t \in Threads |-> 1]
  /\ result = [t \in Threads |-> NoValue]
  /\ unsaved = FALSE /\ restarts = 0

-----------------------------------------------------------------------------
\* get_conf(key) and set_conf(key, value) are called.
Call(t, to, k, v) ==
  /\ L!Call(t, to)
  /\ arg' = [arg EXCEPT ![t] = Line(k, v)]
  /\ result' = [result EXCEPT ![t] = NoValue]
  /\ UNCHANGED <<list, file, at, unsaved, restarts>>

Locking(t) ==
  /\ L!ReaderEnters(t) \/ L!ReaderLeaves(t) \/ L!WriterEnters(t) \/ L!WriterLeaves(t)
  /\ UNCHANGED <<list, file, arg, at, result, unsaved, restarts>>

KeepLocks == UNCHANGED <<locked, numreaders, numwriters>>
ListEnds(t) == at[t] > Len(list)
Matches(t) == ~ListEnds(t) /\ list[at[t]].key = arg[t].key

\* The call needs its arguments no more.
Forget(t) == arg' = [arg EXCEPT ![t] = NoCall] /\ at' = [at EXCEPT ![t] = 1]

Advance(t) ==
  /\ at' = [at EXCEPT ![t] = @ + 1]
  /\ UNCHANGED pc

\* One element of read_conf()'s walk; get_conf() falls back on CONFIG_SBIN.
ReadElement(t) ==
  /\ pc[t] = "reading"
  /\ IF Matches(t) \/ ListEnds(t)
       THEN /\ result' = [result EXCEPT ![t] = IF Matches(t) THEN list[at[t]].value
                                                ELSE ReadOnly[arg[t].key]]
            /\ L!Move(t, "reading", "r_leave") /\ Forget(t)
       ELSE Advance(t) /\ UNCHANGED <<result, arg>>
  /\ KeepLocks /\ UNCHANGED <<list, file, unsaved, restarts>>

\* One element of write_conf()'s walk: the value is copied or the element is
\* unlinked; at the last element a new one is hooked on, which the walk meets next.
WriteElement(t) ==
  /\ pc[t] = "writing" /\ ~ListEnds(t)
  /\ LET n == at[t] IN
       IF Matches(t)
         THEN /\ list' = IF arg[t].value # NoValue
                           THEN [list EXCEPT ![n].value = arg[t].value]
                           ELSE SubSeq(list, 1, n - 1) \o SubSeq(list, n + 1, Len(list))
              /\ pc' = [pc EXCEPT ![t] = "saving"] /\ UNCHANGED at
         ELSE /\ list' = IF n = Len(list) /\ arg[t].value # NoValue
                           THEN Append(list, Line(arg[t].key, Garbage)) ELSE list
              /\ Advance(t)
  /\ KeepLocks /\ UNCHANGED <<file, arg, result, unsaved, restarts>>

\* The walk ran off the list: the key to remove is not there, or the list is empty.
WriteEnds(t) ==
  /\ pc[t] = "writing" /\ ListEnds(t)
  /\ pc' = [pc EXCEPT ![t] = "saving"]
  /\ KeepLocks /\ UNCHANGED <<list, file, arg, at, result, unsaved, restarts>>

\* fopen(CONFIG_SYSTEM, "w+") empties the file ...
Truncate(t) ==
  /\ pc[t] = "saving"
  /\ file' = <<>>
  /\ pc' = [pc EXCEPT ![t] = "printing"]
  /\ KeepLocks /\ UNCHANGED <<list, arg, at, result, unsaved, restarts>>

\* ... unless stat() or fopen() fails: nothing is saved, and the caller is not told.
SaveSkipped(t) ==
  /\ pc[t] = "saving"
  /\ unsaved' = TRUE
  /\ pc' = [pc EXCEPT ![t] = "w_unlockWrite"]
  /\ Forget(t) /\ KeepLocks /\ UNCHANGED <<list, file, result, restarts>>

\* ... and fprintf(), fclose() and sync() fill it.
\* Mutant: the last element is left out.
PrintListShort(t) ==
  /\ pc[t] = "printing"
  /\ file' = SubSeq(list, 1, Len(list) - 1)
  /\ unsaved' = FALSE
  /\ pc' = [pc EXCEPT ![t] = "w_unlockWrite"]
  /\ Forget(t) /\ KeepLocks /\ UNCHANGED <<list, result, restarts>>
PrintList(t) ==
  /\ pc[t] = "printing"
  /\ file' = list
  /\ unsaved' = FALSE
  /\ pc' = [pc EXCEPT ![t] = "w_unlockWrite"]
  /\ Forget(t) /\ KeepLocks /\ UNCHANGED <<list, result, restarts>>

\* Power is lost, perhaps with part of the list printed, and init_conf() runs again.
Restart ==
  /\ restarts < MaxRestarts /\ restarts' = restarts + 1
  /\ \E n \in 0..Len(list) :
       file' = IF \E t \in Threads : pc[t] = "printing" THEN SubSeq(list, 1, n) ELSE file
  /\ list' = init_conf(file')
  /\ pc' = [t \in Threads |-> "idle"]
  /\ locked' = {} /\ numreaders' = 0 /\ numwriters' = 0
  /\ result' = [t \in Threads |-> NoValue]
  /\ unsaved' = FALSE
  /\ arg' = [t \in Threads |-> NoCall] /\ at' = [t \in Threads |-> 1]

Step(t) == Locking(t) \/ ReadElement(t) \/ WriteElement(t) \/ WriteEnds(t) \/ Truncate(t)
           \/ SaveSkipped(t) \/ PrintList(t)

Next ==
  \/ \E t \in Threads, k \in Keys :
       \/ Call(t, "r_lock3", k, NoValue)
       \/ \E v \in Settable \cup {NoValue} : Call(t, "w_lock2", k, v)
  \/ \E t \in Threads : Step(t)
  \/ Restart

Spec == Init /\ [][Next]_vars

-----------------------------------------------------------------------------
\* Type invariant: keys are unique in the list, and only the writer that hooked it
\* on ever sees an element without a value.
TypeOK ==
  /\ \A i, j \in DOMAIN list : list[i].key = list[j].key => i = j
  /\ \A i \in DOMAIN list :
       list[i].value \in Values \/ \E t \in Threads : pc[t] = "writing" /\ at[t] = i

\* write_conf() saves before it returns: unless one is at work or could not open
\* the file, the file gives every key the value the list gives it, so that a power
\* loss changes nothing.
Saved ==
  ~unsaved /\ (\A t \in Threads : pc[t] \notin {"writing", "saving", "printing"})
    => \A k \in Keys : /\ Has(file, k) <=> Has(list, k)
                       /\ Has(list, k) => Lookup(file, k) = Lookup(list, k)

\* The table the list stands for; an element being appended counts as absent.
Table == [k \in Keys |-> IF Has(list, k) /\ Lookup(list, k) # Garbage THEN Lookup(list, k)
                         ELSE NoValue]
Store == INSTANCE ConfigStore WITH store <- Table

\* get_conf() and set_conf() are atomic: Config implements ConfigStore.
Atomic == Store!Spec
=============================================================================
