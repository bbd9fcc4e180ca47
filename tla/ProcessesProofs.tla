-------------------------- MODULE ProcessesProofs --------------------------
(***************************************************************************)
(* Proofs about Processes, for every number of dialogues, rounds of the ui *)
(* and failing calls, and for every size of the table of descriptors.      *)
(***************************************************************************)
EXTENDS Processes, TLAPS

MainPcs == {"idle", "popen", "pipes", "fork", "parent", "write", "close", "read", "pclose", "wait",
            "formatted", "opened", "refused", "ask", "join", "killed"}
Procs == [state : {"none", "running", "zombie"}, of : {"main", "logcat"},
          holds : SUBSET Objects, fed : BOOLEAN, status : Nat]
PipeRecords == [inr : SUBSET Fds, inw : SUBSET Fds, out : SUBSET Fds, outw : SUBSET Fds,
                sin : Fds \cup {-1}, keep : Fds \cup {-1}]
Mains == [pc : MainPcs, sin : Fds \cup {-1}, sout : Fds \cup {-1}, pid : Nat \cup {-1},
          why : {"none", "format", "first", "asked"}]

Types ==
  /\ table \in [Fds -> Objects \cup {Free}]
  /\ procs \in [Pids -> Procs]
  /\ pipes \in [{"main", "logcat"} -> PipeRecords]
  /\ main \in Mains
  /\ logcat \in [pc : {"off", "loop", "pipes", "fork", "parent", "wait", "exit"},
                 fd : Fds \cup {-1}, pid : Nat \cup {-1}]
  /\ file \in [pc : {"off", "loop", "exit"}, fd : Fds \cup {-1}]
  /\ dialogues \in 0 .. MaxDialogues /\ rounds \in 0 .. MaxRounds

\* The descriptors a thread has to close.
MainFds ==
  CASE main.pc \in {"pipes", "fork", "parent"} -> All(pipes["main"])
    [] main.pc \in {"write", "close", "killed"} -> {main.sin, main.sout} \ {-1}
    [] main.pc \in {"read", "pclose"} -> {main.sout} \ {-1}
    [] OTHER -> {}
LogcatFds ==
  CASE logcat.pc \in {"pipes", "fork", "parent"} -> All(pipes["logcat"])
    [] logcat.pc = "loop" -> {logcat.fd} \ {-1}
    [] OTHER -> {}
FileFds == IF file.pc = "loop" THEN {file.fd} \ {-1} ELSE {}

\* Every open descriptor has one owner.
Owned(tab, ms, ls, fs) ==
  /\ ms \cap ls = {} /\ ms \cap fs = {} /\ ls \cap fs = {}
  /\ \A f \in Fds : tab[f] # Free <=> f \in ms \cup ls \cup fs
Ownership == Owned(table, MainFds, LogcatFds, FileFds)

\* Between pipe() and the parent's close() t's descriptors are the ends of its pipes, first
\* those of stdin's and then those of all three.
Piped(t, pc) ==
  LET p == pipes[t] IN
  /\ Pid(t) \in Pids /\ p.inw = {p.sin}
  /\ IF pc = "pipes" THEN p.out = {} /\ p.outw = {} ELSE p.keep \in p.out
  /\ \A f \in p.inr : table[f] = End(Pid(t), "in", "r")
  /\ \A f \in p.inw : table[f] = End(Pid(t), "in", "w")
  /\ \A f \in p.out : table[f] = End(Pid(t), "out", "r")
  /\ \A f \in p.outw : table[f] = End(Pid(t), "out", "w")

\* What main's descriptors lead to, and its child.
MainHas ==
  /\ main.pc = "popen" => dialogues \in Pids
  /\ main.pc \in {"pipes", "fork", "parent"} => Piped("main", main.pc)
  /\ main.pc \in {"popen", "pipes", "fork", "parent"} => main.sin = -1 /\ main.sout = -1 /\ main.pid = -1
  /\ main.pc \in {"write", "close", "read", "pclose"} /\ main.sout # -1 =>
       table[main.sout] = End(dialogues, "out", "r")
  /\ main.pc \in {"write", "close"} /\ main.sin # -1 => table[main.sin] = End(dialogues, "in", "w")

LogcatHas ==
  /\ logcat.pc = "loop" => MaxDialogues + rounds \in Pids
  /\ logcat.pc \in {"pipes", "fork", "parent"} => Piped("logcat", logcat.pc) /\ logcat.fd = -1 /\ logcat.pid = -1
  /\ logcat.pc = "loop" /\ logcat.fd # -1 => table[logcat.fd] = End(logcat.pid, "out", "r")
  /\ logcat.pc = "loop" => (logcat.fd = -1 <=> logcat.pid = -1)
  /\ logcat.pc \in {"loop", "wait"} => logcat.pid \in {-1, MaxDialogues + rounds}
  /\ logcat.pc = "wait" => logcat.pid # -1

FileHas == file.pc = "loop" /\ file.fd # -1 => table[file.fd] = Log

\* From popen3() to the waitpid() of pclose3(), or SIGPIPE.
Dialogued == {"write", "close", "read", "pclose", "wait", "killed"}

\* Every child, a zombie included, has a thread that is going to wait for it.
Awaiting ==
  \A n \in Alive :
    \/ n = dialogues /\ \/ main.pc = "parent"
                        \/ main.pc \in Dialogued /\ main.pid = n
    \/ n = MaxDialogues + rounds /\ \/ logcat.pc = "parent"
                                    \/ logcat.pc \in {"loop", "wait"} /\ logcat.pid = n

\* Without a ui there is no log reader.
Readers == ~ui => logcat.pc = "off" /\ file.pc = "off"

Good == Types /\ Ownership /\ MainHas /\ LogcatHas /\ FileHas /\ Awaiting /\ Readers
ProcInv == stray \/ Good

-----------------------------------------------------------------------------
\* pipe() hands out descriptors that were free.
LEMMA LowestFree ==
  ASSUME NEW S, NEW a \in Lowest(S)
  PROVE  a \in S
BY DEF Lowest

\* The ends of a child's pipes are objects, and none of them is Free.
LEMMA EndsAreObjects ==
  ASSUME NEW n \in Pids, NEW p \in {"in", "out"}, NEW e \in {"r", "w"}
  PROVE  End(n, p, e) \in Objects /\ End(n, p, e) # Free
BY FreeAssumption DEF Objects, Ends

LEMMA LogIsObject == Log \in Objects /\ Log # Free
BY FreeAssumption DEF Objects

LEMMA Counts ==
  MaxFd \in Nat /\ MaxDialogues \in Nat /\ MaxRounds \in Nat
BY ProcessesAssumption

LEMMA NoneMade == NoPipes \in PipeRecords /\ All(NoPipes) = {}
BY DEF NoPipes, PipeRecords, All

\* What popen3func() has after its first pipe() ...
LEMMA StdinMade ==
  ASSUME Types, NEW t \in {"main", "logcat"}, Pid(t) \in Pids, StdinPipe(t), Pid(t)' = Pid(t)
  PROVE  /\ table' \in [Fds -> Objects \cup {Free}]
         /\ pipes' \in [{"main", "logcat"} -> PipeRecords]
         /\ \A u \in {"main", "logcat"} : u # t => pipes'[u] = pipes[u]
         /\ Piped(t, "pipes")'
         /\ All(pipes'[t]) \subseteq FreeFds
         /\ \A f \in All(pipes'[t]) : f \in Fds /\ table'[f] # Free
         /\ \A f \in Fds \ All(pipes'[t]) : table'[f] = table[f]
<1>0. PICK a \in Lowest(FreeFds) : \E b \in Lowest(FreeFds \ {a}) :
        /\ pipes' = [pipes EXCEPT ![t] = [NoPipes EXCEPT !.inr = {a}, !.inw = {b}, !.sin = b]]
        /\ table' = [table EXCEPT ![a] = End(Pid(t), "in", "r"), ![b] = End(Pid(t), "in", "w")]
  BY DEF StdinPipe
<1>1. PICK b \in Lowest(FreeFds \ {a}) :
        /\ pipes' = [pipes EXCEPT ![t] = [NoPipes EXCEPT !.inr = {a}, !.inw = {b}, !.sin = b]]
        /\ table' = [table EXCEPT ![a] = End(Pid(t), "in", "r"), ![b] = End(Pid(t), "in", "w")]
  BY <1>0
<1>2. a \in FreeFds /\ b \in FreeFds /\ a # b /\ a \in Fds /\ b \in Fds
  BY LowestFree DEF FreeFds
<1> DEFINE p == [NoPipes EXCEPT !.inr = {a}, !.inw = {b}, !.sin = b]
           er == End(Pid(t), "in", "r")
           ew == End(Pid(t), "in", "w")
<1>3. p.inr = {a} /\ p.inw = {b} /\ p.sin = b /\ p.out = {} /\ p.outw = {} /\ p \in PipeRecords
  BY <1>2 DEF NoPipes, PipeRecords
<1>4. er \in Objects /\ er # Free /\ ew \in Objects /\ ew # Free
  BY EndsAreObjects
<1> HIDE DEF p, er, ew
<1>5. pipes' = [pipes EXCEPT ![t] = p] /\ table' = [table EXCEPT ![a] = er, ![b] = ew]
  BY <1>1 DEF p, er, ew
<1>6. /\ pipes' \in [{"main", "logcat"} -> PipeRecords] /\ pipes'[t] = p
      /\ \A u \in {"main", "logcat"} : u # t => pipes'[u] = pipes[u]
  BY <1>3, <1>5 DEF Types
<1>7. /\ table' \in [Fds -> Objects \cup {Free}] /\ table'[a] = er /\ table'[b] = ew
      /\ \A f \in Fds \ {a, b} : table'[f] = table[f]
  BY <1>2, <1>4, <1>5 DEF Types
<1>8. All(p) = {a, b}
  BY <1>3 DEF All
<1>9. Piped(t, "pipes")'
  BY <1>3, <1>6, <1>7 DEF Piped, er, ew
<1> QED
  BY <1>2, <1>4, <1>6, <1>7, <1>8, <1>9 DEF FreeFds

\* ... and after all three.
LEMMA StdoutMade ==
  ASSUME Types, NEW t \in {"main", "logcat"}, Piped(t, "pipes"), All(pipes[t]) \subseteq Fds,
         StdoutPipes(t), Pid(t)' = Pid(t)
  PROVE  /\ table' \in [Fds -> Objects \cup {Free}]
         /\ pipes' \in [{"main", "logcat"} -> PipeRecords]
         /\ \A u \in {"main", "logcat"} : u # t => pipes'[u] = pipes[u]
         /\ Piped(t, "fork")'
         /\ \A f \in All(pipes'[t]) : f \in Fds /\ table'[f] # Free /\ (f \in All(pipes[t]) \/ f \in FreeFds)
         /\ All(pipes[t]) \subseteq All(pipes'[t])
         /\ \A f \in Fds \ All(pipes'[t]) : table'[f] = table[f]
<1> DEFINE q == pipes[t]
           er == End(Pid(t), "out", "r")
           ew == End(Pid(t), "out", "w")
<1> DEFINE Made(a, b, c, d) ==
             /\ pipes' = [pipes EXCEPT ![t].out = {a, c}, ![t].outw = {b, d}, ![t].keep = a]
             /\ table' = [f \in Fds |-> CASE f \in {a, c} -> er [] f \in {b, d} -> ew [] OTHER -> table[f]]
<1>1. \E a, b, c, d \in Fds :
        /\ a \in FreeFds /\ b \in FreeFds /\ a # b
        /\ c \in FreeFds \ {a, b} /\ d \in FreeFds \ {a, b} /\ c # d
        /\ Made(a, b, c, d)
  <2>1. PICK a \in Lowest(FreeFds) : \E b \in Lowest(FreeFds \ {a}) :
          \E c \in Lowest(FreeFds \ {a, b}) : \E d \in Lowest(FreeFds \ {a, b, c}) : Made(a, b, c, d)
    BY DEF StdoutPipes
  <2>2. PICK b \in Lowest(FreeFds \ {a}) :
          \E c \in Lowest(FreeFds \ {a, b}) : \E d \in Lowest(FreeFds \ {a, b, c}) : Made(a, b, c, d)
    BY <2>1
  <2>3. PICK c \in Lowest(FreeFds \ {a, b}) : \E d \in Lowest(FreeFds \ {a, b, c}) : Made(a, b, c, d)
    BY <2>2
  <2>4. PICK d \in Lowest(FreeFds \ {a, b, c}) : Made(a, b, c, d)
    BY <2>3
  <2> HIDE DEF Made
  <2>5. /\ a \in FreeFds /\ b \in FreeFds /\ a # b
        /\ c \in FreeFds \ {a, b} /\ d \in FreeFds \ {a, b} /\ c # d
    BY LowestFree
  <2> QED
    BY <2>4, <2>5 DEF FreeFds
<1>2. PICK a, b, c, d \in Fds :
        /\ a \in FreeFds /\ b \in FreeFds /\ a # b
        /\ c \in FreeFds \ {a, b} /\ d \in FreeFds \ {a, b} /\ c # d
        /\ Made(a, b, c, d)
  BY <1>1
<1>3. a \in FreeFds /\ b \in FreeFds /\ a # b
  BY <1>2
<1>4. c \in FreeFds \ {a, b} /\ d \in FreeFds \ {a, b} /\ c # d
  BY <1>2
<1> DEFINE p == [q EXCEPT !.out = {a, c}, !.outw = {b, d}, !.keep = a]
<1>5. q \in PipeRecords /\ pipes' = [pipes EXCEPT ![t] = p]
  BY <1>2 DEF Types
<1>6. /\ p.inr = q.inr /\ p.inw = q.inw /\ p.sin = q.sin /\ p.out = {a, c} /\ p.outw = {b, d}
      /\ p.keep = a /\ p \in PipeRecords
  BY <1>5 DEF PipeRecords
<1>7. er \in Objects /\ er # Free /\ ew \in Objects /\ ew # Free
  BY EndsAreObjects DEF Piped
<1> HIDE DEF p, q, er, ew
<1>8. /\ pipes' \in [{"main", "logcat"} -> PipeRecords] /\ pipes'[t] = p
      /\ \A u \in {"main", "logcat"} : u # t => pipes'[u] = pipes[u]
  BY <1>5, <1>6 DEF Types
<1>9. /\ \A f \in {a, c} : table'[f] = er
      /\ \A f \in {b, d} : table'[f] = ew
      /\ \A f \in Fds \ {a, b, c, d} : table'[f] = table[f]
  BY <1>2, <1>3, <1>4
<1>10. table' \in [Fds -> Objects \cup {Free}]
  BY <1>2, <1>7, <1>9 DEF Types
<1>11. All(q) = q.inr \cup q.inw /\ All(p) = q.inr \cup q.inw \cup {a, b, c, d}
  BY <1>6 DEF All, Piped, q
<1>12. \A f \in All(q) : f \in Fds /\ table[f] # Free /\ table'[f] = table[f]
  <2>1. \A f \in All(q) : f \in Fds /\ table[f] # Free
    BY <1>11, EndsAreObjects DEF Piped, q
  <2> QED
    BY <1>3, <1>4, <1>9, <2>1 DEF FreeFds
<1>13. Piped(t, "fork")'
  BY <1>6, <1>8, <1>9, <1>11, <1>12 DEF Piped, q, er, ew
<1> QED
  BY <1>3, <1>4, <1>7, <1>8, <1>9, <1>10, <1>11, <1>12, <1>13 DEF q

-----------------------------------------------------------------------------
\* A thread that does not move keeps what it has while its descriptors and its pipes
\* are left alone.
LEMMA MainSame ==
  ASSUME Types, MainHas, UNCHANGED <<main, dialogues>>, pipes'["main"] = pipes["main"],
         \A f \in MainFds : table'[f] = table[f]
  PROVE  MainHas' /\ MainFds' = MainFds
<1>1. MainFds' = MainFds
  BY DEF MainFds
<1>2. main.pc \in {"pipes", "fork", "parent"} => Piped("main", main.pc)'
  <2> SUFFICES ASSUME main.pc \in {"pipes", "fork", "parent"} PROVE Piped("main", main.pc)'
    OBVIOUS
  <2>1. \A f \in All(pipes["main"]) : table'[f] = table[f]
    BY DEF MainFds
  <2>2. Piped("main", main.pc)
    BY DEF MainHas
  <2> QED
    BY <2>1, <2>2 DEF Piped, Pid, All
<1>3. main.pc \in {"write", "close", "read", "pclose"} /\ main.sout # -1 =>
        table'[main.sout] = table[main.sout]
  BY DEF MainFds
<1>4. main.pc \in {"write", "close"} /\ main.sin # -1 => table'[main.sin] = table[main.sin]
  BY DEF MainFds
<1> QED
  BY <1>1, <1>2, <1>3, <1>4 DEF MainHas

LEMMA LogcatSame ==
  ASSUME Types, LogcatHas, UNCHANGED <<logcat, rounds>>, pipes'["logcat"] = pipes["logcat"],
         \A f \in LogcatFds : table'[f] = table[f]
  PROVE  LogcatHas' /\ LogcatFds' = LogcatFds
<1>1. LogcatFds' = LogcatFds
  BY DEF LogcatFds
<1>2. logcat.pc \in {"pipes", "fork", "parent"} => Piped("logcat", logcat.pc)'
  <2> SUFFICES ASSUME logcat.pc \in {"pipes", "fork", "parent"} PROVE Piped("logcat", logcat.pc)'
    OBVIOUS
  <2>1. \A f \in All(pipes["logcat"]) : table'[f] = table[f]
    BY DEF LogcatFds
  <2>2. Piped("logcat", logcat.pc)
    BY DEF LogcatHas
  <2> QED
    BY <2>1, <2>2 DEF Piped, Pid, All
<1>3. logcat.pc = "loop" /\ logcat.fd # -1 => table'[logcat.fd] = table[logcat.fd]
  BY DEF LogcatFds
<1> QED
  BY <1>1, <1>2, <1>3 DEF LogcatHas

LEMMA FileSame ==
  ASSUME FileHas, UNCHANGED file, \A f \in FileFds : table'[f] = table[f]
  PROVE  FileHas' /\ FileFds' = FileFds
BY DEF FileHas, FileFds

\* A thread that touches only free descriptors and its own takes nothing from the others.
LEMMA OwnMain ==
  ASSUME Ownership, LogcatFds' = LogcatFds, FileFds' = FileFds,
         \A f \in MainFds' : f \in MainFds \/ f \in FreeFds,
         \A f \in LogcatFds \cup FileFds : table'[f] = table[f],
         \A f \in Fds \ (LogcatFds \cup FileFds) : table'[f] # Free <=> f \in MainFds'
  PROVE  Ownership'
BY DEF Ownership, Owned, FreeFds

LEMMA OwnLogcat ==
  ASSUME Ownership, MainFds' = MainFds, FileFds' = FileFds,
         \A f \in LogcatFds' : f \in LogcatFds \/ f \in FreeFds,
         \A f \in MainFds \cup FileFds : table'[f] = table[f],
         \A f \in Fds \ (MainFds \cup FileFds) : table'[f] # Free <=> f \in LogcatFds'
  PROVE  Ownership'
BY DEF Ownership, Owned, FreeFds

LEMMA OwnFile ==
  ASSUME Ownership, MainFds' = MainFds, LogcatFds' = LogcatFds,
         \A f \in FileFds' : f \in FileFds \/ f \in FreeFds,
         \A f \in MainFds \cup LogcatFds : table'[f] = table[f],
         \A f \in Fds \ (MainFds \cup LogcatFds) : table'[f] # Free <=> f \in FileFds'
  PROVE  Ownership'
BY DEF Ownership, Owned, FreeFds

\* What close() leaves.
LEMMA Closed ==
  ASSUME Types, NEW S, table' = Close(table, S)
  PROVE  /\ table' \in [Fds -> Objects \cup {Free}]
         /\ \A f \in Fds : table'[f] = IF f \in S THEN Free ELSE table[f]
BY DEF Types, Close

\* The descriptors a thread owns are numbers of the table.
LEMMA OwnFds ==
  ASSUME Types, MainHas, LogcatHas
  PROVE  MainFds \subseteq Fds /\ LogcatFds \subseteq Fds /\ FileFds \subseteq Fds
<1>1. \A t \in {"main", "logcat"} : All(pipes[t]) \subseteq Fds
  BY DEF Types, PipeRecords, All
<1>2. MainFds \subseteq Fds
  BY <1>1 DEF MainFds, MainHas, Types, Mains
<1>3. LogcatFds \subseteq Fds
  BY <1>1 DEF LogcatFds, LogcatHas, Types
<1>4. FileFds \subseteq Fds
  BY DEF FileFds, Types
<1> QED
  BY <1>2, <1>3, <1>4

LEMMA GoodInit == Init => Good
<1> SUFFICES ASSUME Init PROVE Good
  OBVIOUS
<1>1. Types
  BY Counts, NoneMade DEF Init, Types, Mains, NoProc, Procs, MainPcs
<1>2. MainFds = {} /\ LogcatFds = {} /\ FileFds = {}
  BY DEF Init, MainFds, LogcatFds, FileFds
<1>3. Ownership
  BY <1>2 DEF Init, Ownership, Owned
<1>4. MainHas /\ LogcatHas /\ FileHas /\ Readers
  BY DEF Init, MainHas, LogcatHas, FileHas, Readers
<1>5. Awaiting
  BY DEF Init, Awaiting, Alive, NoProc
<1> QED
  BY <1>1, <1>3, <1>4, <1>5 DEF Good

-----------------------------------------------------------------------------
(***************************************************************************)
(* main.                                                                   *)
(***************************************************************************)
\* What a step of main has to show while the readers rest.
LEMMA MainAlone ==
  ASSUME Good, UNCHANGED <<logcat, file, ui, rounds>>, pipes'["logcat"] = pipes["logcat"],
         Types', MainHas', Awaiting',
         \A f \in MainFds' : f \in MainFds \/ f \in FreeFds,
         \A f \in Fds \ (MainFds \cup MainFds') : table'[f] = table[f],
         \A f \in MainFds \cup MainFds' : f \in Fds /\ (table'[f] # Free <=> f \in MainFds')
  PROVE  Good'
<1>1. \A f \in LogcatFds \cup FileFds : f \in Fds /\ f \notin MainFds \cup MainFds'
  BY OwnFds DEF Good, Ownership, Owned, FreeFds
<1>2. \A f \in LogcatFds \cup FileFds : table'[f] = table[f]
  BY <1>1
<1>3. LogcatHas' /\ LogcatFds' = LogcatFds
  BY <1>2, LogcatSame DEF Good
<1>4. FileHas' /\ FileFds' = FileFds
  BY <1>2, FileSame DEF Good
<1>5. \A f \in Fds \ (LogcatFds \cup FileFds) : table'[f] # Free <=> f \in MainFds'
  BY DEF Good, Ownership, Owned
<1>6. Ownership'
  BY <1>2, <1>3, <1>4, <1>5, OwnMain DEF Good
<1> QED
  BY <1>3, <1>4, <1>6 DEF Good, Readers

LEMMA MainStdinGood == ASSUME Good, MainStdin PROVE Good'
<1>1. Pid("main") = dialogues /\ dialogues \in Pids /\ Pid("main")' = Pid("main") /\ main.pc = "popen"
  BY DEF Good, MainHas, MainStdin, Pid
<1>2. main.sin = -1 /\ main.sout = -1 /\ main.pid = -1
  BY <1>1 DEF Good, MainHas
<1>3. CASE StdinPipe("main") /\ MainGoto("pipes")
  <2>1. /\ table' \in [Fds -> Objects \cup {Free}]
        /\ pipes' \in [{"main", "logcat"} -> PipeRecords]
        /\ pipes'["logcat"] = pipes["logcat"]
        /\ Piped("main", "pipes")'
        /\ All(pipes'["main"]) \subseteq FreeFds
        /\ \A f \in All(pipes'["main"]) : f \in Fds /\ table'[f] # Free
        /\ \A f \in Fds \ All(pipes'["main"]) : table'[f] = table[f]
    BY <1>1, <1>3, StdinMade DEF Good
  <2>2. main' = [main EXCEPT !.pc = "pipes"] /\ main'.pc = "pipes" /\ main'.sin = -1 /\ main'.sout = -1
        /\ main'.pid = -1
    BY <1>2, <1>3 DEF MainGoto, Good, Types
  <2>3. Types'
    BY <2>1, <2>2 DEF Good, Types, Mains, MainPcs, MainStdin
  <2>4. MainFds = {} /\ MainFds' = All(pipes'["main"])
    BY <1>1, <2>2 DEF MainFds
  <2>5. MainHas'
    BY <2>1, <2>2 DEF MainHas
  <2>6. Awaiting'
    BY <1>1, <2>2 DEF Good, Awaiting, Alive, MainStdin, Dialogued
  <2> QED
    BY <2>1, <2>3, <2>4, <2>5, <2>6, MainAlone DEF MainStdin
<1>4. CASE MainGoto("write") /\ UNCHANGED <<table, pipes>>
  <2>1. main' = [main EXCEPT !.pc = "write"] /\ main'.pc = "write" /\ main'.sin = -1 /\ main'.sout = -1
    BY <1>2, <1>4 DEF MainGoto, Good, Types
  <2>2. Types'
    BY <1>4, <2>1 DEF Good, Types, Mains, MainPcs, MainStdin
  <2>3. MainFds = {} /\ MainFds' = {}
    BY <1>1, <2>1 DEF MainFds
  <2>4. MainHas'
    BY <2>1 DEF MainHas
  <2>5. Awaiting'
    BY <1>1, <2>1 DEF Good, Awaiting, Alive, MainStdin, Dialogued
  <2> QED
    BY <1>4, <2>2, <2>3, <2>4, <2>5, MainAlone DEF MainStdin
<1> QED
  BY <1>3, <1>4 DEF MainStdin

\* pipe() or fork() failed: main's descriptors are closed.
LEMMA MainUndoGood ==
  ASSUME Good, main.pc \in {"pipes", "fork"}, Undo("main"), MainGoto("write"),
         UNCHANGED <<procs, ui, logcat, file, dialogues, rounds>>
  PROVE  Good'
<1> DEFINE p == pipes["main"]
<1>1. main.sin = -1 /\ main.sout = -1 /\ main.pid = -1 /\ MainFds = All(p)
  BY DEF Good, MainHas, MainFds
<1>2. main' = [main EXCEPT !.pc = "write"] /\ main'.pc = "write" /\ main'.sin = -1 /\ main'.sout = -1
  BY <1>1 DEF MainGoto, Good, Types
<1>3. table' = Close(table, All(p)) /\ All(p) \subseteq Fds
  BY <1>1, OwnFds DEF Undo, Good
<1>4. pipes' \in [{"main", "logcat"} -> PipeRecords] /\ pipes'["logcat"] = pipes["logcat"]
  BY NoneMade DEF Undo, Good, Types
<1> HIDE DEF p
<1>5. table' \in [Fds -> Objects \cup {Free}]
      /\ \A f \in Fds : table'[f] = IF f \in All(p) THEN Free ELSE table[f]
  BY <1>3, Closed DEF Good
<1>6. Types'
  BY <1>2, <1>4, <1>5 DEF Good, Types, Mains, MainPcs
<1>7. MainFds' = {}
  BY <1>2 DEF MainFds
<1>8. MainHas'
  BY <1>2 DEF MainHas
<1>9. Awaiting'
  BY <1>2 DEF Good, Awaiting, Alive, Dialogued
<1> QED
  BY <1>1, <1>3, <1>4, <1>5, <1>6, <1>7, <1>8, <1>9, MainAlone

LEMMA MainPipesGood == ASSUME Good, MainPipes PROVE Good'
<1>1. main.pc = "pipes" /\ Piped("main", "pipes") /\ Pid("main")' = Pid("main") /\ Pid("main") = dialogues
      /\ main.sin = -1 /\ main.sout = -1 /\ main.pid = -1 /\ MainFds = All(pipes["main"])
  BY DEF Good, MainHas, MainPipes, Pid, MainFds
<1>2. CASE StdoutPipes("main") /\ MainGoto("fork")
  <2> DEFINE q == All(pipes'["main"])
  <2>1. /\ table' \in [Fds -> Objects \cup {Free}]
        /\ pipes' \in [{"main", "logcat"} -> PipeRecords]
        /\ pipes'["logcat"] = pipes["logcat"]
        /\ Piped("main", "fork")'
        /\ \A f \in q : f \in Fds /\ table'[f] # Free /\ (f \in MainFds \/ f \in FreeFds)
        /\ MainFds \subseteq q
        /\ \A f \in Fds \ q : table'[f] = table[f]
    BY <1>1, <1>2, StdoutMade, OwnFds DEF Good
  <2>2. main' = [main EXCEPT !.pc = "fork"] /\ main'.pc = "fork" /\ main'.sin = -1 /\ main'.sout = -1
        /\ main'.pid = -1
    BY <1>1, <1>2 DEF MainGoto, Good, Types
  <2>3. Types'
    BY <2>1, <2>2 DEF Good, Types, Mains, MainPcs, MainPipes
  <2>4. MainFds' = q
    BY <2>2 DEF MainFds
  <2> HIDE DEF q
  <2>5. MainHas'
    BY <2>1, <2>2 DEF MainHas
  <2>6. Awaiting'
    BY <1>1, <2>2 DEF Good, Awaiting, Alive, MainPipes, Dialogued
  <2> QED
    BY <2>1, <2>3, <2>4, <2>5, <2>6, MainAlone DEF MainPipes
<1> QED
  BY <1>1, <1>2, MainUndoGood DEF MainPipes

LEMMA MainForkGood == ASSUME Good, MainFork PROVE Good'
<1> DEFINE p == pipes["main"]
<1>1. Piped("main", "fork") /\ main.sin = -1 /\ main.sout = -1 /\ main.pid = -1 /\ MainFds = All(p)
  BY DEF Good, MainHas, MainFork, MainFds
<1>2. Pid("main") = dialogues /\ dialogues \in Pids /\ All(p) \subseteq Fds
      /\ \A f \in All(p) : table[f] # Free
  BY <1>1, EndsAreObjects, OwnFds DEF Piped, Pid, All, Good
<1>3. CASE Fork("main") /\ MainGoto("parent") /\ UNCHANGED <<table, pipes, faults>>
  <2>1. main' = [main EXCEPT !.pc = "parent"] /\ main'.pc = "parent"
    BY <1>3 DEF MainGoto, Good, Types
  <2>2. procs' = [procs EXCEPT ![dialogues] = procs'[dialogues]] /\ procs'[dialogues] \in Procs
    <3>1. {table[f] : f \in Fds \ (p.inw \cup p.out)} \cap Seen \subseteq Objects
      BY DEF Seen, Objects
    <3> QED
      BY <1>2, <1>3, <3>1 DEF Good, Types, Fork, Procs
  <2>3. Types'
    BY <1>2, <1>3, <2>1, <2>2 DEF Good, Types, Mains, MainPcs, MainFork
  <2>4. MainFds' = All(p)
    BY <1>3, <2>1 DEF MainFds
  <2>5. Piped("main", "parent")'
    BY <1>1, <1>3 DEF Piped, Pid, MainFork
  <2>6. MainHas'
    BY <1>1, <2>1, <2>5 DEF MainHas, Good, Types
  <2>7. Awaiting'
    BY <1>2, <2>1, <2>2 DEF Good, Types, Awaiting, Alive, MainFork, Dialogued
  <2> QED
    BY <1>1, <1>2, <1>3, <2>3, <2>4, <2>6, <2>7, MainAlone DEF MainFork
<1>4. CASE Undo("main") /\ MainGoto("write") /\ UNCHANGED procs
  BY <1>4, MainUndoGood DEF MainFork
<1> QED
  BY <1>3, <1>4 DEF MainFork

LEMMA MainParentGood == ASSUME Good, MainParent PROVE Good'
<1> DEFINE p == pipes["main"]
<1>1. Piped("main", "parent") /\ MainFds = All(p)
  BY DEF Good, MainHas, MainParent, MainFds
<1>2. Pid("main") = dialogues /\ dialogues \in Pids /\ All(p) \subseteq Fds
      /\ p.inw = {p.sin} /\ p.keep \in p.out
      /\ p.keep \in All(p) /\ p.sin \in All(p) /\ p.sin \in Fds /\ p.keep \in Fds
      /\ table[p.sin] = End(dialogues, "in", "w") /\ table[p.keep] = End(dialogues, "out", "r")
  BY <1>1, OwnFds DEF Piped, Pid, All, Good
<1>3. main' = [main EXCEPT !.pc = "write", !.sin = p.sin, !.sout = p.keep, !.pid = dialogues]
  BY DEF MainParent
<1>4. table' = Close(table, All(p) \ {p.sin, p.keep})
  BY <1>2 DEF MainParent, Parent
<1>5. pipes' \in [{"main", "logcat"} -> PipeRecords] /\ pipes'["logcat"] = pipes["logcat"]
  BY NoneMade DEF MainParent, Parent, Good, Types
<1>6. UNCHANGED <<procs, ui, logcat, file, dialogues, rounds>> /\ main.pc = "parent"
  BY DEF MainParent, counters
<1> HIDE DEF p
<1>7. table' \in [Fds -> Objects \cup {Free}]
      /\ \A f \in Fds : table'[f] = IF f \in All(p) \ {p.sin, p.keep} THEN Free ELSE table[f]
  BY <1>4, Closed DEF Good
<1>8. main'.pc = "write" /\ main'.sin = p.sin /\ main'.sout = p.keep /\ main'.pid = dialogues
  BY <1>3 DEF Good, Types
<1>9. dialogues \in Nat
  BY <1>2, Counts DEF Pids
<1>10. Types'
  BY <1>2, <1>3, <1>5, <1>7, <1>9, <1>6 DEF Good, Types, Mains, MainPcs
<1>11. -1 \notin Fds
  BY Counts DEF Fds
<1>12. MainFds' = {p.sin, p.keep}
  BY <1>2, <1>8, <1>11 DEF MainFds
<1>13. MainHas'
  BY <1>2, <1>7, <1>8, <1>6 DEF MainHas
<1>14. Awaiting'
  BY <1>2, <1>8, <1>6 DEF Good, Awaiting, Alive, Dialogued
<1>15. table'[p.sin] # Free /\ table'[p.keep] # Free
  BY <1>2, <1>7, EndsAreObjects
<1> QED
  BY <1>1, <1>2, <1>5, <1>7, <1>10, <1>12, <1>13, <1>14, <1>15, <1>6, MainAlone

LEMMA WriteGood == ASSUME Good, Write PROVE Good'
<1> DEFINE o == Open(main.sin)
<1>1. PICK q \in {"close", "killed"} : main' = [main EXCEPT !.pc = q]
  BY DEF Write, MainGoto
<1>2. main.pc = "write" /\ main'.pc \in {"close", "killed"} /\ main'.sin = main.sin
      /\ main'.sout = main.sout /\ main'.pid = main.pid
  BY <1>1 DEF Write, Good, Types
<1>3. procs' \in [Pids -> Procs] /\ \A n \in Pids : procs'[n].state = procs[n].state
  <2>1. CASE UNCHANGED procs
    BY <2>1 DEF Good, Types
  <2>2. CASE procs' = [procs EXCEPT ![o[1]].fed = (@ \/ procs[o[1]].state = "running")]
    <3>1. \A n \in Pids : procs[n] \in Procs
      BY DEF Good, Types
    <3>2. \A n \in Pids : n # o[1] => procs'[n] = procs[n]
      BY <2>2 DEF Good, Types
    <3>3. o[1] \in Pids => procs'[o[1]] = [procs[o[1]] EXCEPT !.fed = (@ \/ procs[o[1]].state = "running")]
      BY <2>2 DEF Good, Types
    <3>4. o[1] \in Pids => procs'[o[1]] \in Procs /\ procs'[o[1]].state = procs[o[1]].state
      <4> DEFINE b == procs[o[1]].fed \/ procs[o[1]].state = "running"
      <4>1. b \in BOOLEAN
        OBVIOUS
      <4>2. o[1] \in Pids => procs'[o[1]] = [procs[o[1]] EXCEPT !.fed = b]
        BY <3>3
      <4> HIDE DEF b, o
      <4> QED
        BY <3>1, <4>1, <4>2 DEF Procs
    <3>5. \A n \in Pids : procs'[n] \in Procs /\ procs'[n].state = procs[n].state
      BY <3>1, <3>2, <3>4
    <3>6. procs' = [n \in Pids |-> procs'[n]]
      BY <2>2 DEF Good, Types
    <3> QED
      BY <3>5, <3>6
  <2> QED
    BY <2>1, <2>2 DEF Write
<1>4. UNCHANGED <<table, pipes, ui, logcat, file, dialogues, rounds>>
  BY DEF Write, counters
<1>5. Types'
  BY <1>1, <1>3, <1>4 DEF Good, Types, Mains, MainPcs
<1>6. MainFds' = MainFds
  BY <1>2 DEF MainFds
<1>7. MainHas'
  BY <1>2, <1>4 DEF Good, MainHas
<1>8. Awaiting'
  BY <1>2, <1>3, <1>4 DEF Good, Awaiting, Alive, Dialogued
<1>9. \A f \in MainFds : f \in Fds /\ table[f] # Free
  BY OwnFds DEF Good, Ownership, Owned
<1> QED
  BY <1>4, <1>5, <1>6, <1>7, <1>8, <1>9, MainAlone

LEMMA CloseSinGood == ASSUME Good, CloseSin PROVE Good'
<1>1. main' = [main EXCEPT !.pc = "read"] /\ main.pc = "close" /\ main'.pc = "read"
      /\ main'.sin = main.sin /\ main'.sout = main.sout /\ main'.pid = main.pid
  BY DEF CloseSin, MainGoto, Good, Types
<1>2. UNCHANGED <<procs, pipes, ui, logcat, file, dialogues, rounds>>
  BY DEF CloseSin, counters, children
<1>3. table' \in [Fds -> Objects \cup {Free}]
      /\ \A f \in Fds : table'[f] = IF f \in {main.sin} THEN Free ELSE table[f]
  BY Closed DEF Good, CloseSin
<1>4. Types'
  BY <1>1, <1>2, <1>3 DEF Good, Types, Mains, MainPcs
<1>5. MainFds = {main.sin, main.sout} \ {-1} /\ MainFds' = {main.sout} \ {-1}
  BY <1>1 DEF MainFds
<1>6. \A f \in MainFds : f \in Fds /\ table[f] # Free
  BY OwnFds DEF Good, Ownership, Owned
<1>7. main.sout # -1 => main.sout # main.sin
  BY <1>1 DEF Good, MainHas, End
<1>8. MainHas'
  BY <1>1, <1>2, <1>3, <1>5, <1>6, <1>7 DEF Good, MainHas
<1>9. Awaiting'
  BY <1>1, <1>2 DEF Good, Awaiting, Alive, Dialogued
<1>10. -1 \notin Fds
  BY Counts DEF Fds
<1> QED
  BY <1>2, <1>3, <1>4, <1>5, <1>6, <1>7, <1>8, <1>9, <1>10, MainAlone

LEMMA ReadSoutGood == ASSUME Good, ReadSout PROVE Good'
<1>1. main' = [main EXCEPT !.pc = "pclose"] /\ main.pc = "read" /\ main'.pc = "pclose"
      /\ main'.sin = main.sin /\ main'.sout = main.sout /\ main'.pid = main.pid
  BY DEF ReadSout, MainGoto, Good, Types
<1>2. UNCHANGED <<table, procs, pipes, ui, logcat, file, dialogues, rounds>>
  BY DEF ReadSout, counters, children
<1>3. Types'
  BY <1>1, <1>2 DEF Good, Types, Mains, MainPcs
<1>4. MainFds' = MainFds
  BY <1>1 DEF MainFds
<1>5. MainHas'
  BY <1>1, <1>2 DEF Good, MainHas
<1>6. Awaiting'
  BY <1>1, <1>2 DEF Good, Awaiting, Alive, Dialogued
<1>7. \A f \in MainFds : f \in Fds /\ table[f] # Free
  BY OwnFds DEF Good, Ownership, Owned
<1> QED
  BY <1>2, <1>3, <1>4, <1>5, <1>6, <1>7, MainAlone

\* The second close() of sin is harmless unless the number was given away in between.
LEMMA PCloseGood == ASSUME Good, PClose, ~stray' PROVE Good'
<1>1. main' = [main EXCEPT !.pc = "wait", !.sin = -1, !.sout = -1] /\ main.pc = "pclose"
      /\ main'.pc = "wait" /\ main'.pid = main.pid
  BY DEF PClose, Good, Types
<1>2. UNCHANGED <<procs, pipes, ui, logcat, file, dialogues, rounds>>
  BY DEF PClose, counters, children
<1>3. table' \in [Fds -> Objects \cup {Free}]
      /\ \A f \in Fds : table'[f] = IF f \in {main.sin, main.sout} THEN Free ELSE table[f]
  BY Closed DEF Good, PClose
<1>4. main.sin \in Fds => table[main.sin] = Free
  <2>1. Open(main.sin) = Free
    BY DEF PClose
  <2>2. -1 \notin Fds
    BY Counts DEF Fds
  <2> QED
    BY <2>1, <2>2 DEF Open
<1>5. Types'
  BY <1>1, <1>2, <1>3 DEF Good, Types, Mains, MainPcs
<1>6. MainFds = {main.sout} \ {-1} /\ MainFds' = {}
  BY <1>1 DEF MainFds
<1>7. MainHas'
  BY <1>1 DEF MainHas
<1>8. Awaiting'
  BY <1>1, <1>2 DEF Good, Awaiting, Alive, Dialogued
<1>9. -1 \notin Fds /\ MainFds \subseteq Fds
  BY Counts, OwnFds DEF Good, Fds
<1> QED
  BY <1>2, <1>3, <1>4, <1>5, <1>6, <1>7, <1>8, <1>9, MainAlone

\* waitpid() for main's child, or for whatever child there is when popen3() failed.
LEMMA WaitGood == ASSUME Good, Wait PROVE Good'
<1>1. PICK q \in {"opened", "refused"} : main' = [main EXCEPT !.pc = q, !.pid = -1]
  BY DEF Wait
<1>2. main.pc = "wait" /\ main'.pc \in {"opened", "refused"} /\ main' \in Mains
  <2>1. main.pc = "wait" /\ main \in Mains
    BY DEF Wait, Good, Types
  <2> QED
    BY <1>1, <2>1 DEF Mains, MainPcs
<1>3. UNCHANGED <<table, pipes, ui, logcat, file, dialogues, rounds>>
  BY DEF Wait, counters
<1>4. procs' \in [Pids -> Procs] /\ Alive' \subseteq Alive /\ main.pid \notin Alive'
  <2>1. CASE \E n \in Awaited(main.pid) : Reap(n)
    <3>1. PICK n \in Awaited(main.pid) : procs' = [procs EXCEPT ![n] = NoProc]
      BY <2>1 DEF Reap
    <3>2. NoProc \in Procs /\ NoProc.state = "none"
      BY DEF NoProc, Procs
    <3>3. n \in Pids /\ (main.pid # -1 => n = main.pid)
      BY DEF Awaited, Alive
    <3>4. -1 \notin Pids
      BY Counts DEF Pids
    <3> QED
      BY <3>1, <3>2, <3>3, <3>4 DEF Good, Types, Alive
  <2>2. CASE Awaited(main.pid) = {} /\ UNCHANGED procs
    <3>1. -1 \notin Pids
      BY Counts DEF Pids
    <3> QED
      BY <2>2, <3>1 DEF Good, Types, Alive, Awaited
  <2> QED
    BY <2>1, <2>2 DEF Wait
<1>5. Types'
  BY <1>2, <1>3, <1>4 DEF Good, Types
<1>6. MainFds = {} /\ MainFds' = {}
  BY <1>2 DEF MainFds
<1>7. MainHas'
  BY <1>2 DEF MainHas
<1>8. Awaiting'
  BY <1>2, <1>3, <1>4 DEF Good, Awaiting, Dialogued
<1> QED
  BY <1>3, <1>5, <1>6, <1>7, <1>8, MainAlone

\* Between two dialogues main has neither descriptors nor a child.
AtRest == {"idle", "formatted", "opened", "refused", "ask", "join"}

LEMMA MainRests ==
  ASSUME Good, main.pc \in AtRest
  PROVE  /\ MainFds = {}
         /\ \A n \in Alive : n = MaxDialogues + rounds
              /\ (logcat.pc = "parent" \/ (logcat.pc \in {"loop", "wait"} /\ logcat.pid = n))
<1>1. MainFds = {}
  BY DEF MainFds, AtRest
<1>2. main.pc # "parent" /\ main.pc \notin Dialogued
  BY DEF AtRest, Dialogued
<1> QED
  BY <1>1, <1>2 DEF Good, Awaiting

\* A new dialogue, or a step between two of them, that leaves the readers alone.
LEMMA MainTurns ==
  ASSUME Good, main.pc \in AtRest, Types', main'.pc \in AtRest \cup {"popen"},
         main'.pc = "popen" => dialogues' \in Pids /\ main'.sin = -1 /\ main'.sout = -1 /\ main'.pid = -1,
         UNCHANGED <<table, procs, pipes, ui, logcat, file, rounds>>
  PROVE  Good'
<1>1. MainFds = {} /\ MainFds' = {}
  BY MainRests DEF MainFds, AtRest
<1>2. MainHas'
  BY DEF MainHas, AtRest
<1>3. Awaiting'
  BY MainRests DEF Awaiting, Alive
<1> QED
  BY <1>1, <1>2, <1>3, MainAlone

LEMMA DialogueGood ==
  ASSUME Good, main.pc \in AtRest, NEW w \in {"format", "first", "asked"}, Dialogue(w),
         UNCHANGED <<table, procs, pipes, ui, logcat, file, rounds>>
  PROVE  Good'
<1>1. main' = [main EXCEPT !.pc = "popen", !.why = w, !.sin = -1, !.sout = -1, !.pid = -1]
      /\ main'.pc = "popen" /\ main'.sin = -1 /\ main'.sout = -1 /\ main'.pid = -1
  BY DEF Dialogue, Good, Types
<1>2. dialogues' \in 0 .. MaxDialogues /\ dialogues' \in Pids
  BY Counts DEF Dialogue, Good, Types, Pids
<1>3. Types'
  BY <1>1, <1>2 DEF Good, Types, Mains, MainPcs
<1> QED
  BY <1>1, <1>2, <1>3, MainTurns

LEMMA GotoGood ==
  ASSUME Good, main.pc \in AtRest, NEW q \in AtRest,
         MainGoto(q) \/ main' = [main EXCEPT !.pc = q, !.why = "none"],
         UNCHANGED <<table, procs, pipes, ui, logcat, file, dialogues, rounds>>
  PROVE  Good'
<1>1. main'.pc = q /\ main' \in Mains
  BY DEF MainGoto, Good, Types, Mains, MainPcs, AtRest
<1>2. Types'
  BY <1>1 DEF Good, Types
<1> QED
  BY <1>1, <1>2, MainTurns DEF AtRest

\* ui_init(), with main at rest before and after.
LEMMA StartGood ==
  ASSUME Good, main.pc \in AtRest, ~ui, Start, main'.pc \in AtRest,
         main' \in Mains,
         UNCHANGED <<table, procs, pipes, dialogues>>
  PROVE  Good'
<1>1. logcat.pc = "off" /\ file.pc = "off"
  BY DEF Good, Readers
<1>2. MainFds = {} /\ LogcatFds = {} /\ FileFds = {} /\ Alive = {}
  BY <1>1, MainRests DEF LogcatFds, FileFds
<1>3. logcat' = [pc |-> "loop", fd |-> -1, pid |-> -1] /\ file' = [pc |-> "loop", fd |-> -1] /\ ui'
  BY DEF Start
<1>4. rounds' \in 0 .. MaxRounds /\ MaxDialogues + rounds' \in Pids
  BY Counts DEF Start, Good, Types, Pids
<1>5. Types'
  BY <1>3, <1>4 DEF Good, Types
<1>6. MainFds' = {} /\ LogcatFds' = {} /\ FileFds' = {}
  BY <1>3 DEF MainFds, LogcatFds, FileFds, AtRest
<1>7. Ownership'
  BY <1>2, <1>6 DEF Good, Ownership, Owned
<1>8. MainHas' /\ LogcatHas' /\ FileHas' /\ Readers'
  BY <1>3, <1>4 DEF MainHas, LogcatHas, FileHas, Readers, AtRest
<1>9. Awaiting'
  BY <1>2 DEF Awaiting, Alive
<1> QED
  BY <1>5, <1>7, <1>8, <1>9 DEF Good

\* ui_done() joins readers that closed their descriptors and waited for their children.
LEMMA JoinedGood == ASSUME Good, Joined PROVE Good'
<1>1. main' = [main EXCEPT !.pc = "idle"] /\ main.pc = "join" /\ main'.pc = "idle"
      /\ logcat' = [logcat EXCEPT !.pc = "off"] /\ logcat'.pc = "off" /\ logcat.pc = "exit"
      /\ logcat'.fd = logcat.fd /\ logcat'.pid = logcat.pid
      /\ file' = [file EXCEPT !.pc = "off"] /\ file'.pc = "off" /\ file.pc = "exit"
  BY DEF Joined, MainGoto, Good, Types
<1>2. UNCHANGED <<table, procs, pipes, dialogues, rounds>>
  BY DEF Joined, children, counters
<1>3. Types'
  BY <1>1, <1>2 DEF Good, Types, Mains, MainPcs
<1>4. MainFds = {} /\ MainFds' = {} /\ LogcatFds = {} /\ LogcatFds' = {} /\ FileFds = {} /\ FileFds' = {}
  BY <1>1 DEF MainFds, LogcatFds, FileFds
<1>5. Ownership'
  BY <1>2, <1>4 DEF Good, Ownership, Owned
<1>6. MainHas' /\ LogcatHas' /\ FileHas' /\ Readers'
  BY <1>1 DEF Good, MainHas, LogcatHas, FileHas, Readers
<1>7. Awaiting'
  BY <1>1, <1>2, MainRests DEF Awaiting, Alive, AtRest
<1> QED
  BY <1>3, <1>5, <1>6, <1>7 DEF Good

LEMMA TurnsGood ==
  ASSUME Good, OpenPartition \/ Refused \/ Select \/ Leave \/ ui_init \/ ui_done
  PROVE  Good'
<1>1. main.pc \in AtRest
  BY DEF OpenPartition, Refused, Select, Leave, ui_init, ui_done, AtRest
<1>2. CASE OpenPartition
  <2>1. UNCHANGED <<table, procs, pipes, ui, logcat, file, rounds>>
    BY <1>2 DEF OpenPartition, children
  <2>2. CASE Dialogue("first") \/ Dialogue("format")
    BY <1>1, <2>1, <2>2, DialogueGood
  <2>3. CASE main' = [main EXCEPT !.pc = "refused", !.why = "first"] /\ UNCHANGED dialogues
    <3>1. main'.pc = "refused" /\ main' \in Mains
      BY <2>3 DEF Good, Types, Mains, MainPcs
    <3>2. Types'
      BY <2>1, <2>3, <3>1 DEF Good, Types
    <3> QED
      BY <1>1, <2>1, <2>3, <3>1, <3>2, MainTurns DEF AtRest
  <2> QED
    BY <1>2, <2>2, <2>3 DEF OpenPartition
<1>3. CASE Refused
  <2>1. UNCHANGED <<table, procs, pipes>>
    BY <1>3 DEF Refused, children
  <2>2. CASE MainGoto("formatted") /\ UNCHANGED <<ui, logcat, file, rounds, dialogues>>
    BY <1>1, <2>1, <2>2, GotoGood DEF AtRest
  <2>3. CASE main' = [main EXCEPT !.pc = "ask", !.why = "asked"] /\ UNCHANGED dialogues
             /\ UNCHANGED <<ui, logcat, file, rounds>>
    <3>1. main'.pc = "ask" /\ main' \in Mains
      BY <2>3 DEF Good, Types, Mains, MainPcs
    <3>2. Types'
      BY <2>1, <2>3, <3>1 DEF Good, Types
    <3> QED
      BY <1>1, <2>1, <2>3, <3>1, <3>2, MainTurns DEF AtRest
  <2>4. CASE main' = [main EXCEPT !.pc = "ask", !.why = "asked"] /\ UNCHANGED dialogues
             /\ ~ui /\ Start
    <3>1. main'.pc = "ask"
          /\ main' \in Mains
      BY <2>4 DEF Good, Types, Mains, MainPcs
    <3> QED
      BY <1>1, <2>1, <2>4, <3>1, StartGood DEF AtRest
  <2>5. CASE MainGoto("ask") /\ UNCHANGED <<ui, logcat, file, rounds, dialogues>>
    BY <1>1, <2>1, <2>5, GotoGood DEF AtRest
  <2> QED
    BY <1>3, <2>2, <2>3, <2>4, <2>5 DEF Refused
<1>4. CASE Select
  BY <1>1, <1>4, DialogueGood DEF Select, children
<1>5. CASE Leave
  BY <1>1, <1>5, GotoGood DEF Leave, Stop, AtRest, children, counters
<1>6. CASE ui_init
  <2>1. UNCHANGED <<table, procs, pipes, main, dialogues>>
    BY <1>6 DEF ui_init, children
  <2> QED
    BY <1>1, <1>6, <2>1, StartGood DEF ui_init, Good, Types
<1>7. CASE ui_done
  BY <1>1, <1>7, GotoGood DEF ui_done, Stop, AtRest, children, counters
<1> QED
  BY <1>2, <1>3, <1>4, <1>5, <1>6, <1>7

-----------------------------------------------------------------------------
(***************************************************************************)
(* The log readers.                                                        *)
(***************************************************************************)
LEMMA LogcatAlone ==
  ASSUME Good, UNCHANGED <<main, file, ui, dialogues, rounds>>, pipes'["main"] = pipes["main"],
         Types', LogcatHas', Awaiting', logcat.pc # "off",
         \A f \in LogcatFds' : f \in LogcatFds \/ f \in FreeFds,
         \A f \in Fds \ (LogcatFds \cup LogcatFds') : table'[f] = table[f],
         \A f \in LogcatFds \cup LogcatFds' : f \in Fds /\ (table'[f] # Free <=> f \in LogcatFds')
  PROVE  Good'
<1>1. \A f \in MainFds \cup FileFds : f \in Fds /\ f \notin LogcatFds \cup LogcatFds'
  BY OwnFds DEF Good, Ownership, Owned, FreeFds
<1>2. \A f \in MainFds \cup FileFds : table'[f] = table[f]
  BY <1>1
<1>3. MainHas' /\ MainFds' = MainFds
  BY <1>2, MainSame DEF Good
<1>4. FileHas' /\ FileFds' = FileFds
  BY <1>2, FileSame DEF Good
<1>5. \A f \in Fds \ (MainFds \cup FileFds) : table'[f] # Free <=> f \in LogcatFds'
  BY DEF Good, Ownership, Owned
<1>6. Ownership'
  BY <1>2, <1>3, <1>4, <1>5, OwnLogcat DEF Good
<1>7. Readers'
  BY DEF Good, Readers
<1> QED
  BY <1>3, <1>4, <1>6, <1>7 DEF Good

LEMMA LogcatStdinGood == ASSUME Good, LogcatStdin PROVE Good'
<1>1. logcat.pc = "loop" /\ logcat.fd = -1 /\ logcat.pid = -1 /\ Pid("logcat") \in Pids
  BY DEF Good, LogcatHas, LogcatStdin, Pid
<1>2. UNCHANGED <<procs, main, ui, file, dialogues, rounds>> /\ Pid("logcat")' = Pid("logcat")
  BY DEF LogcatStdin, Pid
<1>3. CASE StdinPipe("logcat") /\ LogcatGoto("pipes")
  <2>1. /\ table' \in [Fds -> Objects \cup {Free}]
        /\ pipes' \in [{"main", "logcat"} -> PipeRecords]
        /\ pipes'["main"] = pipes["main"]
        /\ Piped("logcat", "pipes")'
        /\ All(pipes'["logcat"]) \subseteq FreeFds
        /\ \A f \in All(pipes'["logcat"]) : f \in Fds /\ table'[f] # Free
        /\ \A f \in Fds \ All(pipes'["logcat"]) : table'[f] = table[f]
    BY <1>1, <1>2, <1>3, StdinMade DEF Good
  <2>2. logcat' = [logcat EXCEPT !.pc = "pipes"] /\ logcat'.pc = "pipes"
        /\ logcat'.fd = -1 /\ logcat'.pid = -1
    BY <1>1, <1>3 DEF LogcatGoto, Good, Types
  <2>3. LogcatFds = {} /\ LogcatFds' = All(pipes'["logcat"])
    BY <1>1, <2>2 DEF LogcatFds
  <2>4. LogcatHas'
    BY <2>1, <2>2 DEF LogcatHas
  <2>5. Types'
    BY <1>2, <2>1, <2>2 DEF Good, Types
  <2>6. Awaiting'
    <3>1. Alive' = Alive /\ \A n \in Alive : n # -1
      BY <1>2, Counts DEF Alive, Pids
    <3> QED
      BY <1>1, <1>2, <3>1 DEF Good, Awaiting
  <2> QED
    BY <1>1, <1>2, <2>1, <2>3, <2>4, <2>5, <2>6, LogcatAlone
<1>4. CASE UNCHANGED <<table, pipes, logcat>>
  <2>1. Types' /\ LogcatHas' /\ Awaiting' /\ LogcatFds' = LogcatFds /\ LogcatFds = {}
    BY <1>1, <1>2, <1>4 DEF Good, Types, LogcatHas, Awaiting, Alive, LogcatFds
  <2> QED
    BY <1>1, <1>2, <1>4, <2>1, LogcatAlone
<1> QED
  BY <1>3, <1>4 DEF LogcatStdin

\* pipe() or fork() failed: the log reader's descriptors are closed.
LEMMA LogcatUndoGood ==
  ASSUME Good, logcat.pc \in {"pipes", "fork"}, Undo("logcat"), LogcatGoto("loop"),
         UNCHANGED <<procs, main, ui, file, dialogues, rounds>>
  PROVE  Good'
<1> DEFINE p == pipes["logcat"]
<1>1. Pid("logcat") \in Pids /\ logcat.fd = -1 /\ logcat.pid = -1 /\ LogcatFds = All(p)
  BY DEF Good, LogcatHas, LogcatFds, Piped
<1>2. logcat' = [logcat EXCEPT !.pc = "loop"] /\ logcat'.pc = "loop"
      /\ logcat'.fd = -1 /\ logcat'.pid = -1
  BY <1>1 DEF LogcatGoto, Good, Types
<1>3. pipes' \in [{"main", "logcat"} -> PipeRecords] /\ pipes'["main"] = pipes["main"]
  BY NoneMade DEF Undo, Good, Types
<1>4. table' = Close(table, All(p)) /\ All(p) \subseteq Fds
  BY <1>1, OwnFds DEF Undo, Good
<1> HIDE DEF p
<1>5. table' \in [Fds -> Objects \cup {Free}]
      /\ \A f \in Fds : table'[f] = IF f \in All(p) THEN Free ELSE table[f]
  BY <1>4, Closed DEF Good
<1>6. Types'
  BY <1>2, <1>3, <1>5 DEF Good, Types
<1>7. LogcatFds' = {}
  BY <1>2 DEF LogcatFds
<1>8. LogcatHas'
  BY <1>1, <1>2 DEF LogcatHas, Pid
<1>9. Awaiting'
  BY DEF Good, Awaiting, Alive
<1> QED
  BY <1>1, <1>3, <1>4, <1>5, <1>6, <1>7, <1>8, <1>9, LogcatAlone

LEMMA LogcatPipesGood == ASSUME Good, LogcatPipes PROVE Good'
<1>1. logcat.pc = "pipes" /\ Piped("logcat", "pipes") /\ logcat.fd = -1 /\ logcat.pid = -1
      /\ LogcatFds = All(pipes["logcat"])
  BY DEF Good, LogcatHas, LogcatPipes, LogcatFds
<1>2. UNCHANGED <<procs, main, ui, file, dialogues, rounds>> /\ Pid("logcat")' = Pid("logcat")
  BY DEF LogcatPipes, Pid
<1>3. CASE StdoutPipes("logcat") /\ LogcatGoto("fork")
  <2> DEFINE q == All(pipes'["logcat"])
  <2>1. /\ table' \in [Fds -> Objects \cup {Free}]
        /\ pipes' \in [{"main", "logcat"} -> PipeRecords]
        /\ pipes'["main"] = pipes["main"]
        /\ Piped("logcat", "fork")'
        /\ \A f \in q : f \in Fds /\ table'[f] # Free /\ (f \in LogcatFds \/ f \in FreeFds)
        /\ LogcatFds \subseteq q
        /\ \A f \in Fds \ q : table'[f] = table[f]
    BY <1>1, <1>2, <1>3, StdoutMade, OwnFds DEF Good
  <2>2. logcat' = [logcat EXCEPT !.pc = "fork"] /\ logcat'.pc = "fork"
        /\ logcat'.fd = -1 /\ logcat'.pid = -1
    BY <1>1, <1>3 DEF LogcatGoto, Good, Types
  <2>3. LogcatFds' = q
    BY <2>2 DEF LogcatFds
  <2> HIDE DEF q
  <2>4. LogcatHas'
    BY <2>1, <2>2 DEF LogcatHas
  <2>5. Types'
    BY <1>2, <2>1, <2>2 DEF Good, Types
  <2>6. Awaiting'
    BY <1>1, <1>2 DEF Good, Awaiting, Alive
  <2> QED
    BY <1>1, <1>2, <2>1, <2>3, <2>4, <2>5, <2>6, LogcatAlone
<1> QED
  BY <1>1, <1>2, <1>3, LogcatUndoGood DEF LogcatPipes

LEMMA LogcatForkGood == ASSUME Good, LogcatFork PROVE Good'
<1> DEFINE p == pipes["logcat"]
           c == MaxDialogues + rounds
<1>1. logcat.pc = "fork" /\ Piped("logcat", "fork") /\ logcat.fd = -1 /\ logcat.pid = -1 /\ LogcatFds = All(p)
  BY DEF Good, LogcatHas, LogcatFork, LogcatFds
<1>2. Pid("logcat") = c /\ c \in Pids /\ All(p) \subseteq Fds
      /\ \A f \in All(p) : table[f] # Free
  BY <1>1, EndsAreObjects, OwnFds DEF Piped, Pid, All, Good
<1>3. UNCHANGED <<main, ui, file, dialogues, rounds>>
  BY DEF LogcatFork
<1>4. CASE Fork("logcat") /\ LogcatGoto("parent") /\ UNCHANGED <<table, pipes, faults>>
  <2>1. logcat' = [logcat EXCEPT !.pc = "parent"] /\ logcat'.pc = "parent"
        /\ logcat'.fd = -1 /\ logcat'.pid = -1
    BY <1>1, <1>4 DEF LogcatGoto, Good, Types
  <2>2. procs' = [procs EXCEPT ![c] = procs'[c]] /\ procs'[c] \in Procs
    <3>1. {table[f] : f \in Fds \ (p.inw \cup p.out)} \cap Seen \subseteq Objects
      BY DEF Seen, Objects
    <3> QED
      BY <1>2, <1>4, <3>1 DEF Good, Types, Fork, Procs
  <2>3. Types'
    BY <1>2, <1>3, <1>4, <2>1, <2>2 DEF Good, Types
  <2>4. LogcatFds' = All(p)
    BY <1>4, <2>1 DEF LogcatFds
  <2>5. Piped("logcat", "parent")'
    BY <1>1, <1>3, <1>4 DEF Piped, Pid
  <2>6. LogcatHas'
    BY <2>1, <2>5 DEF LogcatHas
  <2>7. Awaiting'
    BY <1>1, <1>2, <1>3, <2>1, <2>2 DEF Good, Types, Awaiting, Alive
  <2> QED
    BY <1>1, <1>2, <1>3, <1>4, <2>3, <2>4, <2>6, <2>7, LogcatAlone
<1>5. CASE Undo("logcat") /\ LogcatGoto("loop") /\ UNCHANGED procs
  BY <1>1, <1>3, <1>5, LogcatUndoGood
<1> QED
  BY <1>4, <1>5 DEF LogcatFork

LEMMA LogcatParentGood == ASSUME Good, LogcatParent PROVE Good'
<1> DEFINE p == pipes["logcat"]
           c == MaxDialogues + rounds
<1>1. logcat.pc = "parent" /\ Piped("logcat", "parent") /\ LogcatFds = All(p)
  BY DEF Good, LogcatHas, LogcatParent, LogcatFds
<1>2. Pid("logcat") = c /\ c \in Pids /\ All(p) \subseteq Fds /\ p.keep \in All(p) /\ p.keep \in Fds
      /\ table[p.keep] = End(c, "out", "r")
  BY <1>1, OwnFds DEF Piped, Pid, All, Good
<1>3. logcat' = [pc |-> "loop", fd |-> p.keep, pid |-> c]
  BY <1>2 DEF LogcatParent
<1>4. table' = Close(table, All(p) \ {p.keep})
  BY DEF LogcatParent, Parent
<1>5. pipes' \in [{"main", "logcat"} -> PipeRecords] /\ pipes'["main"] = pipes["main"]
  BY NoneMade DEF LogcatParent, Parent, Good, Types
<1>6. UNCHANGED <<procs, main, ui, file, dialogues, rounds>>
  BY DEF LogcatParent, counters
<1> HIDE DEF p
<1>7. table' \in [Fds -> Objects \cup {Free}]
      /\ \A f \in Fds : table'[f] = IF f \in All(p) \ {p.keep} THEN Free ELSE table[f]
  BY <1>4, Closed DEF Good
<1>8. c \in Nat /\ -1 \notin Fds
  BY <1>2, Counts DEF Pids, Fds
<1>9. Types'
  BY <1>2, <1>3, <1>5, <1>6, <1>7, <1>8 DEF Good, Types
<1>10. LogcatFds' = {p.keep}
  BY <1>2, <1>3, <1>8 DEF LogcatFds
<1>11. LogcatHas'
  BY <1>2, <1>3, <1>6, <1>7, <1>8 DEF LogcatHas
<1>12. Awaiting'
  BY <1>1, <1>3, <1>6 DEF Good, Awaiting, Alive
<1>13. table'[p.keep] # Free
  BY <1>2, <1>7, EndsAreObjects
<1> QED
  BY <1>1, <1>2, <1>5, <1>6, <1>7, <1>9, <1>10, <1>11, <1>12, <1>13, LogcatAlone

LEMMA LogcatEndGood == ASSUME Good, LogcatEnd PROVE Good'
<1>1. PICK q \in {"exit", "wait"} : /\ logcat' = [logcat EXCEPT !.pc = q, !.fd = -1]
                                    /\ q = IF logcat.fd = -1 THEN "exit" ELSE "wait"
  BY DEF LogcatEnd
<1>2. logcat.pc = "loop" /\ logcat'.pc = q /\ logcat'.fd = -1 /\ logcat'.pid = logcat.pid
  BY <1>1 DEF LogcatEnd, Good, Types
<1>3. UNCHANGED <<pipes, main, ui, file, dialogues, rounds>>
  BY DEF LogcatEnd, counters
<1>4. table' \in [Fds -> Objects \cup {Free}]
      /\ \A f \in Fds : table'[f] = IF f \in {logcat.fd} THEN Free ELSE table[f]
  BY Closed DEF LogcatEnd, Good
<1>5. procs' \in [Pids -> Procs] /\ \A n \in Pids : procs'[n].state = "none" <=> procs[n].state = "none"
  BY DEF LogcatEnd, Good, Types, Procs
<1>6. Types'
  BY <1>1, <1>3, <1>4, <1>5 DEF Good, Types
<1>7. LogcatFds = {logcat.fd} \ {-1} /\ LogcatFds' = {}
  BY <1>1, <1>2 DEF LogcatFds
<1>8. LogcatHas'
  BY <1>1, <1>2, <1>3 DEF Good, LogcatHas
<1>9. Awaiting'
  <2>1. Alive' = Alive /\ \A n \in Alive : n # -1
    BY <1>5, Counts DEF Alive, Pids
  <2>2. logcat.pid = -1 \/ q = "wait"
    BY <1>1, <1>2 DEF Good, LogcatHas
  <2> QED
    BY <1>2, <1>3, <2>1, <2>2 DEF Good, Awaiting
<1>10. -1 \notin Fds /\ LogcatFds \subseteq Fds
  BY Counts, OwnFds DEF Good, Fds
<1> QED
  BY <1>2, <1>3, <1>4, <1>6, <1>7, <1>8, <1>9, <1>10, LogcatAlone

LEMMA LogcatWaitGood == ASSUME Good, LogcatWait PROVE Good'
<1>1. logcat' = [logcat EXCEPT !.pc = "exit", !.pid = -1] /\ logcat.pc = "wait" /\ logcat'.pc = "exit"
      /\ logcat'.fd = logcat.fd
  BY DEF LogcatWait, Good, Types
<1>2. UNCHANGED <<table, pipes, main, ui, file, dialogues, rounds>>
  BY DEF LogcatWait, counters
<1>3. logcat.pid = MaxDialogues + rounds /\ Awaited(logcat.pid) = {logcat.pid} \cap Alive
  BY <1>1 DEF Good, LogcatHas, Awaited
<1>4. procs' \in [Pids -> Procs] /\ Alive' \subseteq Alive /\ logcat.pid \notin Alive'
  <2>1. CASE \E n \in Awaited(logcat.pid) : Reap(n)
    <3>1. NoProc \in Procs /\ NoProc.state = "none"
      BY DEF NoProc, Procs
    <3>2. procs' = [procs EXCEPT ![logcat.pid] = NoProc] /\ logcat.pid \in Pids
      BY <1>3, <2>1 DEF Reap, Alive
    <3> QED
      BY <3>1, <3>2 DEF Good, Types, Alive
  <2>2. CASE Awaited(logcat.pid) = {} /\ UNCHANGED procs
    BY <1>3, <2>2 DEF Good, Types, Alive
  <2> QED
    BY <2>1, <2>2 DEF LogcatWait
<1>5. Types'
  BY <1>1, <1>2, <1>4 DEF Good, Types
<1>6. LogcatFds = {} /\ LogcatFds' = {}
  BY <1>1 DEF LogcatFds
<1>7. LogcatHas'
  BY <1>1 DEF Good, LogcatHas
<1>8. Awaiting'
  BY <1>2, <1>3, <1>4 DEF Good, Awaiting
<1> QED
  BY <1>1, <1>2, <1>5, <1>6, <1>7, <1>8, LogcatAlone

LEMMA FileGood == ASSUME Good, FileLoop \/ FileEnd PROVE Good'
<1>1. UNCHANGED <<procs, pipes, main, ui, logcat, dialogues, rounds>> /\ file.pc = "loop"
  BY DEF FileLoop, FileEnd, children, counters
<1>2. FileFds = {file.fd} \ {-1} /\ -1 \notin Fds /\ FileFds \subseteq Fds
  BY <1>1, Counts, OwnFds DEF FileFds, Good, Fds
<1>3. /\ table' \in [Fds -> Objects \cup {Free}] /\ Types' /\ FileHas'
      /\ \A f \in FileFds' : f \in FileFds \/ f \in FreeFds
      /\ \A f \in Fds \ (FileFds \cup FileFds') : table'[f] = table[f]
      /\ \A f \in FileFds \cup FileFds' : f \in Fds /\ (table'[f] # Free <=> f \in FileFds')
  <2>1. CASE FileLoop
    <3>1. file.fd = -1
      BY <1>1, <2>1 DEF Good, FileHas, FileLoop, Open
    <3>2. Close(table, {file.fd}) = table
      BY <1>2, <3>1 DEF Close, Good, Types
    <3>3. CASE table' = table /\ file' = [file EXCEPT !.fd = -1]
      BY <1>1, <1>2, <3>1, <3>3 DEF Good, Types, FileHas, FileFds
    <3>4. CASE \E f \in Fds : table[f] = Free /\ table' = [table EXCEPT ![f] = Log]
                              /\ file' = [file EXCEPT !.fd = f]
      <4>1. PICK f \in Fds : table[f] = Free /\ table' = [table EXCEPT ![f] = Log]
                             /\ file' = [file EXCEPT !.fd = f]
        BY <3>4
      <4>2. table' \in [Fds -> Objects \cup {Free}] /\ table'[f] = Log /\ file'.fd = f /\ file'.pc = "loop"
            /\ \A g \in Fds : g # f => table'[g] = table[g]
        BY <1>1, <4>1, LogIsObject DEF Good, Types
      <4>3. Types'
        BY <1>1, <4>1, <4>2 DEF Good, Types
      <4>4. FileFds' = {f} /\ FileFds = {}
        BY <1>2, <3>1, <4>2 DEF FileFds
      <4> QED
        BY <4>1, <4>2, <4>3, <4>4, LogIsObject DEF FileHas, FreeFds
    <3> QED
      BY <2>1, <3>2, <3>3, <3>4 DEF FileLoop, Reopen, Lowest
  <2>2. CASE FileEnd
    <3>1. file' = [pc |-> "exit", fd |-> -1]
      BY <2>2 DEF FileEnd
    <3>2. table' \in [Fds -> Objects \cup {Free}]
          /\ \A f \in Fds : table'[f] = IF f \in {file.fd} THEN Free ELSE table[f]
      BY <2>2, Closed DEF FileEnd, Good
    <3>3. Types'
      BY <1>1, <3>1, <3>2 DEF Good, Types
    <3>4. FileFds' = {} /\ FileHas'
      BY <3>1 DEF FileFds, FileHas
    <3> QED
      BY <1>2, <3>2, <3>3, <3>4
  <2> QED
    BY <2>1, <2>2
<1>4. \A f \in MainFds \cup LogcatFds : f \in Fds /\ f \notin FileFds \cup FileFds'
  BY <1>3, OwnFds DEF Good, Ownership, Owned, FreeFds
<1>5. \A f \in MainFds \cup LogcatFds : table'[f] = table[f]
  BY <1>3, <1>4
<1>6. MainHas' /\ MainFds' = MainFds
  BY <1>1, <1>5, MainSame DEF Good
<1>7. LogcatHas' /\ LogcatFds' = LogcatFds
  BY <1>1, <1>5, LogcatSame DEF Good
<1>8. \A f \in Fds \ (MainFds \cup LogcatFds) : table'[f] # Free <=> f \in FileFds'
  BY <1>3 DEF Good, Ownership, Owned
<1>9. Ownership'
  BY <1>3, <1>5, <1>6, <1>7, <1>8, OwnFile DEF Good
<1>10. Awaiting' /\ Readers'
  BY <1>1 DEF Good, Awaiting, Alive, Readers
<1> QED
  BY <1>3, <1>6, <1>7, <1>9, <1>10 DEF Good

-----------------------------------------------------------------------------
\* A child that ends stays a zombie for the thread that waits for it.
LEMMA ExitGood ==
  ASSUME Good, NEW n \in Pids, NEW st \in Nat, procs[n].state = "running", Exit(n, st), KeepThreads
  PROVE  Good'
<1>1. procs' \in [Pids -> Procs] /\ \A k \in Pids : procs'[k].state = "none" <=> procs[k].state = "none"
  <2>1. \A k \in Pids : procs[k] \in Procs
    BY DEF Good, Types
  <2>2. procs'[n] = [procs[n] EXCEPT !.state = "zombie", !.holds = {}, !.status = st]
        /\ \A k \in Pids : k # n => procs'[k] = procs[k]
    BY DEF Exit, Good, Types
  <2>3. procs'[n] \in Procs /\ procs'[n].state = "zombie"
    BY <2>1, <2>2 DEF Procs
  <2>4. procs' = [k \in Pids |-> procs'[k]]
    BY DEF Exit, Good, Types
  <2> QED
    BY <2>1, <2>2, <2>3, <2>4
<1>2. UNCHANGED <<table, pipes, main, ui, logcat, file, dialogues, rounds>>
  BY DEF KeepThreads
<1>3. Types'
  BY <1>1, <1>2 DEF Good, Types
<1>4. MainHas' /\ MainFds' = MainFds
  BY <1>2, MainSame DEF Good
<1>5. LogcatHas' /\ LogcatFds' = LogcatFds
  BY <1>2, LogcatSame DEF Good
<1>6. FileHas' /\ FileFds' = FileFds
  BY <1>2, FileSame DEF Good
<1>7. Ownership'
  BY <1>2, <1>4, <1>5, <1>6 DEF Good, Ownership, Owned
<1>8. Awaiting' /\ Readers'
  BY <1>1, <1>2 DEF Good, Awaiting, Alive, Readers
<1> QED
  BY <1>3, <1>4, <1>5, <1>6, <1>7, <1>8 DEF Good

LEMMA StutterGood == ASSUME Good, UNCHANGED vars PROVE Good'
<1>1. UNCHANGED <<table, procs, pipes, main, ui, logcat, file, dialogues, rounds>>
  BY DEF vars, children, counters
<1>2. Types'
  BY <1>1 DEF Good, Types
<1>3. MainHas' /\ MainFds' = MainFds /\ LogcatHas' /\ LogcatFds' = LogcatFds
      /\ FileHas' /\ FileFds' = FileFds
  BY <1>1, MainSame, LogcatSame, FileSame DEF Good
<1>4. Ownership' /\ Awaiting' /\ Readers'
  BY <1>1, <1>3 DEF Good, Ownership, Owned, Awaiting, Alive, Readers
<1> QED
  BY <1>2, <1>3, <1>4 DEF Good

LEMMA GoodNext == Good /\ [Next]_vars => stray' \/ Good'
<1> SUFFICES ASSUME Good, [Next]_vars, ~stray' PROVE Good'
  OBVIOUS
<1>1. CASE OpenPartition \/ Refused \/ Select \/ Leave \/ ui_init \/ ui_done
  BY <1>1, TurnsGood
<1>2. CASE MainSteps
  BY <1>2, MainStdinGood, MainPipesGood, MainForkGood, MainParentGood, WriteGood, CloseSinGood, ReadSoutGood,
     PCloseGood, WaitGood, JoinedGood DEF MainSteps
<1>3. CASE LogcatSteps
  BY <1>3, LogcatStdinGood, LogcatPipesGood, LogcatForkGood, LogcatParentGood, LogcatEndGood, LogcatWaitGood
     DEF LogcatSteps
<1>4. CASE FileSteps
  BY <1>4, FileGood DEF FileSteps
<1>5. CASE Crypt
  <2>1. PICK n \in Pids : CryptEnds(n)
    BY <1>5 DEF Crypt
  <2> QED
    BY <2>1, ExitGood DEF CryptEnds
<1>6. CASE \E n \in Pids : ChildFails(n) \/ LogcatEnds(n)
  <2>1. PICK n \in Pids : ChildFails(n) \/ LogcatEnds(n)
    BY <1>6
  <2> QED
    BY <2>1, ExitGood DEF ChildFails, LogcatEnds
<1>7. CASE UNCHANGED vars
  BY <1>7, StutterGood
<1> QED
  BY <1>1, <1>2, <1>3, <1>4, <1>5, <1>6, <1>7 DEF Next

\* The one step that writes the history variable only sets it.
LEMMA StrayStays == stray /\ [Next]_vars => stray'
BY DEF Next, vars, OpenPartition, Refused, Select, Leave, ui_init, ui_done, MainSteps, MainStdin, MainPipes,
       MainFork, MainParent, Write, CloseSin, ReadSout, PClose, Wait, Joined, LogcatSteps,
       LogcatStdin, LogcatPipes, LogcatFork, LogcatParent, LogcatEnd, LogcatWait, FileSteps, FileLoop, FileEnd,
       Crypt, CryptEnds, ChildFails, LogcatEnds, KeepThreads

LEMMA ProcInvariant == Spec => []ProcInv
<1>1. Init => ProcInv
  BY GoodInit DEF ProcInv
<1>2. ProcInv /\ [Next]_vars => ProcInv'
  BY GoodNext, StrayStays DEF ProcInv
<1> QED
  BY <1>1, <1>2, PTL DEF Spec

\* What each thread of popen3() and log_reader() reads and writes is its own, for every
\* interleaving of open(), pipe(), close() and fork(), until pclose3()'s second close()
\* of sin hits another thread's descriptor.
THEOREM DescriptorsOwned == Spec => []OwnDescriptors
<1>1. Good => OwnDescriptors
  <2> SUFFICES ASSUME Good PROVE OwnDescriptors
    OBVIOUS
  <2> QED
    BY DEF Good, MainHas, LogcatHas, FileHas, OwnDescriptors, Open
<1>2. ProcInv => OwnDescriptors
  BY <1>1 DEF ProcInv, OwnDescriptors
<1> QED
  BY <1>2, ProcInvariant, PTL

\* Once main is at rest and ui_done() is through, every descriptor popen3() and
\* log_reader() opened is closed and every child is waited for, whichever pipe() or
\* fork() failed and whichever child ended early.
THEOREM NothingLeaks == Spec => []NothingLeft
<1>1. ProcInv => NothingLeft
  <2> SUFFICES ASSUME Good, main.pc = "idle", ~ui
               PROVE  (\A f \in Fds : table[f] = Free) /\ Alive = {}
    BY DEF ProcInv, NothingLeft
  <2>1. logcat.pc = "off" /\ file.pc = "off"
    BY DEF Good, Readers
  <2>2. MainFds = {} /\ LogcatFds = {} /\ FileFds = {}
    BY <2>1, MainRests DEF AtRest, LogcatFds, FileFds
  <2>3. Alive = {}
    BY <2>1, MainRests DEF AtRest
  <2> QED
    BY <2>2, <2>3 DEF Good, Ownership, Owned
<1> QED
  BY <1>1, ProcInvariant, PTL
=============================================================================
