----------------------------- MODULE Processes -----------------------------
(***************************************************************************)
(* Child processes and the descriptors their pipes need: popen3func() and  *)
(* pclose3() (system.c), cryptsetup's dialogues in                         *)
(* open_encrypted_partition() and filesystem_format() (roots.c), the log   *)
(* readers, ui_init() and ui_done() (ui.c).                                *)
(*                                                                         *)
(* Three threads share one table of descriptors: main, which talks to      *)
(* cryptsetup, the log reader that runs logcat, and the one that reads the *)
(* log file (the one for /proc/kmsg does the same).  A descriptor is a     *)
(* number that close() frees and the next open() takes, and fork() hands   *)
(* every descriptor that is open at that moment to the child.              *)
(***************************************************************************)
EXTENDS Integers

CONSTANTS
  Free,          \* a descriptor that is not open
  MaxFd,         \* the descriptors are 0 .. MaxFd, without the standard ones
  MaxDialogues,  \* bound: dialogues with cryptsetup
  MaxRounds,     \* bound: calls of ui_init()
  MaxFaults      \* bound: failing pipe() and fork(), children that fail

ASSUME ProcessesAssumption ==
  /\ MaxFd \in Nat /\ MaxFd >= 12
  /\ MaxDialogues \in Nat /\ MaxRounds \in Nat /\ MaxFaults \in Nat

Fds == 0 .. MaxFd
Pids == 1 .. (MaxDialogues + MaxRounds)

\* The ends of the pipes made for a child, and the log file.
End(n, pipe, side) == <<n, pipe, side>>
Ends == {End(n, p, s) : n \in Pids, p \in {"in", "out"}, s \in {"r", "w"}}
Log == <<0, "log", "r">>
Objects == Ends \cup {Log}
ASSUME FreeAssumption == Free \notin Objects

VARIABLES
  table,     \* what each descriptor refers to
  procs,     \* the children: state, what they hold open, exit status
  pipes,     \* popen3func(): the descriptors of the pipes made so far, main's and the reader's
  main,      \* where main is, sin and sout, pid, and what the dialogue is for
  mine,      \* ~was_initialized: this call of open_encrypted_partition() has the ui
  active,    \* pt_logreaders_active
  ui,        \* get_ui_state()
  logcat,    \* the log reader for logcat: where it is, fd and pid
  file,      \* the log reader for the log file: where it is and fd
  stray,     \* history: pclose3() closed a descriptor that was not main's
  dialogues, rounds, faults   \* bounded counters

children == <<procs, pipes>>
counters == <<dialogues, rounds, faults>>
vars == <<table, children, main, mine, active, ui, logcat, file, stray, counters>>

NoPipes == [inr |-> {}, inw |-> {}, out |-> {}, outw |-> {}, sin |-> -1, keep |-> -1]
NoProc == [state |-> "none", of |-> "main", holds |-> {}, fed |-> FALSE, status |-> 0]

Init ==
  /\ table = [f \in Fds |-> Free]
  /\ procs = [n \in Pids |-> NoProc]
  /\ pipes = [t \in {"main", "logcat"} |-> NoPipes]
  /\ main = [pc |-> "idle", sin |-> -1, sout |-> -1, pid |-> -1, why |-> "none"]
  /\ mine = FALSE /\ active = FALSE /\ ui = FALSE
  /\ logcat = [pc |-> "off", fd |-> -1, pid |-> -1]
  /\ file = [pc |-> "off", fd |-> -1]
  /\ stray = FALSE
  /\ dialogues = 0 /\ rounds = 0 /\ faults = 0

-----------------------------------------------------------------------------
Fault == faults < MaxFaults /\ faults' = faults + 1

\* close(): of a descriptor that is not open it does nothing.
Close(tab, fds) == [f \in Fds |-> IF f \in fds THEN Free ELSE tab[f]]
FreeFds == {f \in Fds : table[f] = Free}
\* open() takes the lowest one that is free, if any, pipe() the two lowest.
Lowest(free) == {f \in free : \A g \in free : f <= g}

Open(f) == IF f = -1 THEN Free ELSE table[f]
Held(o) == \/ \E f \in Fds : table[f] = o
           \/ \E n \in Pids : procs[n].state = "running" /\ o \in procs[n].holds

MainGoto(p) == main' = [main EXCEPT !.pc = p]

(***************************************************************************)
(* popen3func(), for main with sin and sout, for the log reader with sout  *)
(* only; both with POPEN_JOINSTDERR.                                       *)
(***************************************************************************)
\* Each dialogue and each round of the ui has its own child.
Pid(t) == IF t = "main" THEN dialogues ELSE MaxDialogues + rounds

\* The pipe for stdin ...
StdinPipe(t) ==
  \E a \in Lowest(FreeFds) : \E b \in Lowest(FreeFds \ {a}) :
    /\ pipes' = [pipes EXCEPT ![t] = [NoPipes EXCEPT !.inr = {a}, !.inw = {b}, !.sin = b]]
    /\ table' = [table EXCEPT ![a] = End(Pid(t), "in", "r"), ![b] = End(Pid(t), "in", "w")]

\* ... and those for stdout and stderr, which are joined.  In between another thread could
\* fork, which hands on stdout's ends as it does afterwards, or open or close a file, which
\* changes but the numbers that stderr gets, from among those that are free.
StdoutPipes(t) ==
  \E a \in Lowest(FreeFds) : \E b \in Lowest(FreeFds \ {a}) :
  \E c \in Lowest(FreeFds \ {a, b}) : \E d \in Lowest(FreeFds \ {a, b, c}) :
    /\ pipes' = [pipes EXCEPT ![t].out = {a, c}, ![t].outw = {b, d}, ![t].keep = a]
    /\ table' = [f \in Fds |-> CASE f \in {a, c} -> End(Pid(t), "out", "r")
                                [] f \in {b, d} -> End(Pid(t), "out", "w")
                                [] OTHER -> table[f]]

All(p) == p.inr \cup p.inw \cup p.out \cup p.outw

\* The child closes its parent's ends and keeps everything else; recorded are the ends
\* whose being open is seen at the other end.
Seen == {o \in Ends : o[2] = "in" \/ o[3] = "w"}
Fork(t) ==
  LET p == pipes[t] IN
  procs' = [procs EXCEPT ![Pid(t)] =
    [state |-> "running", of |-> t, fed |-> FALSE, status |-> 0,
     holds |-> {table[f] : f \in Fds \ (p.inw \cup p.out)} \cap Seen]]

\* pipe() or fork() fails: what has been made is closed.
Undo(t) ==
  /\ table' = Close(table, All(pipes[t]))
  /\ pipes' = [pipes EXCEPT ![t] = NoPipes]

\* The parent closes the child's ends, and its own where no descriptor was asked for.
Parent(t, keep) ==
  /\ table' = Close(table, All(pipes[t]) \ keep)
  /\ pipes' = [pipes EXCEPT ![t] = NoPipes]

(***************************************************************************)
(* waitpid(): -1 waits for whatever child there is.                        *)
(***************************************************************************)
Alive == {n \in Pids : procs[n].state # "none"}
Awaited(pid) == IF pid = -1 THEN Alive ELSE {pid} \cap Alive
Reap(n) == procs' = [procs EXCEPT ![n] = NoProc]

-----------------------------------------------------------------------------
(***************************************************************************)
(* main: open_encrypted_partition(), filesystem_format().                  *)
(***************************************************************************)
Dialogue(why) ==
  /\ dialogues < MaxDialogues /\ dialogues' = dialogues + 1
  /\ main' = [main EXCEPT !.pc = "popen", !.why = why, !.sin = -1, !.sout = -1, !.pid = -1]

\* "first try with the supplied password", if there is one, or luksFormat, which has
\* asked for the password that luksOpen is then supplied with.
OpenPartition ==
  /\ \/ main.pc \in {"idle", "formatted"} /\ Dialogue("first")
     \/ main.pc = "idle" /\ Dialogue("format")
     \/ /\ main.pc = "idle"
        /\ main' = [main EXCEPT !.pc = "refused", !.why = "first"] /\ UNCHANGED dialogues
  /\ UNCHANGED <<table, children, mine, active, ui, logcat, file, stray, rounds, faults>>

MainStdin ==
  /\ main.pc = "popen"
  /\ \/ StdinPipe("main") /\ MainGoto("pipes") /\ UNCHANGED faults
     \/ Fault /\ MainGoto("write") /\ UNCHANGED <<table, pipes>>
  /\ UNCHANGED <<procs, mine, active, ui, logcat, file, stray, dialogues, rounds>>

MainPipes ==
  /\ main.pc = "pipes"
  /\ \/ StdoutPipes("main") /\ MainGoto("fork") /\ UNCHANGED faults
     \/ Undo("main") /\ Fault /\ MainGoto("write")
  /\ UNCHANGED <<procs, mine, active, ui, logcat, file, stray, dialogues, rounds>>

\* Mutant: the descriptors are stored before fork() is known to have worked.
MainForkStored ==
  /\ main.pc = "fork"
  /\ \/ Fork("main") /\ MainGoto("parent") /\ UNCHANGED <<table, pipes, faults>>
     \/ /\ Undo("main") /\ Fault /\ UNCHANGED procs
        /\ main' = [main EXCEPT !.pc = "write", !.sin = pipes["main"].sin, !.sout = pipes["main"].keep]
  /\ UNCHANGED <<mine, active, ui, logcat, file, stray, dialogues, rounds>>
MainFork ==
  /\ main.pc = "fork"
  /\ \/ Fork("main") /\ MainGoto("parent") /\ UNCHANGED <<table, pipes, faults>>
     \/ Undo("main") /\ Fault /\ MainGoto("write") /\ UNCHANGED procs
  /\ UNCHANGED <<mine, active, ui, logcat, file, stray, dialogues, rounds>>

\* Mutant: the child's end of stdout stays open.
MainParentKeep ==
  LET p == pipes["main"] IN
  /\ main.pc = "parent"
  /\ Parent("main", p.inw \cup p.outw \cup {p.keep})
  /\ main' = [main EXCEPT !.pc = "write", !.sin = p.sin, !.sout = p.keep, !.pid = dialogues]
  /\ UNCHANGED <<procs, mine, active, ui, logcat, file, stray, counters>>
MainParent ==
  LET p == pipes["main"] IN
  /\ main.pc = "parent"
  /\ Parent("main", p.inw \cup {p.keep})
  /\ main' = [main EXCEPT !.pc = "write", !.sin = p.sin, !.sout = p.keep, !.pid = dialogues]
  /\ UNCHANGED <<procs, mine, active, ui, logcat, file, stray, counters>>

Writable(o) == o \in Ends /\ o[3] = "w"

\* The password goes to whoever reads the pipe; if nobody does, SIGPIPE ends recovery.
Write ==
  LET o == Open(main.sin) IN
  /\ main.pc = "write"
  /\ \/ ~Writable(o) /\ MainGoto("close") /\ UNCHANGED procs
     \/ /\ Writable(o)
        /\ IF Held(End(o[1], o[2], "r"))
             THEN /\ MainGoto("close")
                  /\ procs' = [procs EXCEPT ![o[1]].fed = (@ \/ procs[o[1]].state = "running")]
             ELSE MainGoto("killed") /\ UNCHANGED procs
  /\ UNCHANGED <<table, pipes, mine, active, ui, logcat, file, stray, counters>>

CloseSin ==
  /\ main.pc = "close"
  /\ table' = Close(table, {main.sin})
  /\ MainGoto("read")
  /\ UNCHANGED <<children, mine, active, ui, logcat, file, stray, counters>>

\* "while (read(sout,&d,1)>0)": up to the end of the file, or an error.
ReadSout ==
  LET o == Open(main.sout) IN
  /\ main.pc = "read"
  /\ o \in Ends => ~Held(End(o[1], o[2], "w"))
  /\ MainGoto("pclose")
  /\ UNCHANGED <<table, children, mine, active, ui, logcat, file, stray, counters>>

\* pclose3() closes both descriptors, sin for the second time.
PClose ==
  /\ main.pc = "pclose"
  /\ table' = Close(table, {main.sin, main.sout})
  /\ stray' = (stray \/ Open(main.sin) # Free)
  /\ main' = [main EXCEPT !.pc = "wait", !.sin = -1, !.sout = -1]
  /\ UNCHANGED <<children, mine, active, ui, logcat, file, counters>>

Wait ==
  /\ main.pc = "wait"
  /\ \/ \E n \in Awaited(main.pid) :
          /\ procs[n].state = "zombie"
          /\ Reap(n)
          /\ main' = [main EXCEPT !.pc = IF procs[n].status = 0 THEN "opened" ELSE "refused",
                                 !.pid = -1]
     \/ /\ Awaited(main.pid) = {} /\ UNCHANGED procs
        /\ main' = [main EXCEPT !.pc = "refused", !.pid = -1]
  /\ UNCHANGED <<table, pipes, mine, active, ui, logcat, file, stray, counters>>

\* ui_init(): the log readers start.
Start ==
  /\ rounds < MaxRounds /\ rounds' = rounds + 1
  /\ active' = TRUE /\ ui' = TRUE
  /\ logcat' = [pc |-> "loop", fd |-> -1, pid |-> -1]
  /\ file' = [pc |-> "loop", fd |-> -1]

\* luksFormat is followed by luksOpen whatever it said; a device that is open already
\* is found out after the first try only; then the user is asked, with a ui.
Refused ==
  /\ main.pc \in {"opened", "refused"}
  /\ \/ /\ main.why = "format" /\ MainGoto("formatted")
        /\ UNCHANGED <<mine, active, ui, logcat, file, rounds, dialogues>>
     \/ /\ main.why = "first" /\ main.pc = "refused" /\ main' = [main EXCEPT !.pc = "ask", !.why = "asked"]
        /\ \/ ui /\ UNCHANGED <<mine, active, ui, logcat, file, rounds>>
           \/ ~ui /\ Start /\ mine' = TRUE
        /\ UNCHANGED dialogues
     \/ /\ main.why = "asked" /\ main.pc = "refused" /\ MainGoto("ask")
        /\ UNCHANGED <<mine, active, ui, logcat, file, rounds, dialogues>>
  /\ UNCHANGED <<table, children, stray, faults>>

Select ==
  /\ main.pc = "ask"
  /\ Dialogue("asked")
  /\ UNCHANGED <<table, children, mine, active, ui, logcat, file, stray, rounds, faults>>

\* ui_done(): the flags are cleared, then the threads are joined.
Stop == active' = FALSE /\ main' = [main EXCEPT !.pc = "join", !.why = "none"]

\* Opened, already open, or GO_BACK.
Leave ==
  /\ \/ main.pc = "opened" /\ main.why # "format"
     \/ main.pc = "refused" /\ main.why = "first"
     \/ main.pc = "ask"
  /\ IF mine THEN Stop
       ELSE main' = [main EXCEPT !.pc = "idle", !.why = "none"] /\ UNCHANGED active
  /\ mine' = FALSE
  /\ UNCHANGED <<table, children, ui, logcat, file, stray, counters>>

\* What else calls ui_init() and ui_done().
ui_init ==
  /\ main.pc = "idle" /\ ~ui
  /\ Start
  /\ UNCHANGED <<table, children, main, mine, stray, dialogues, faults>>

ui_done ==
  /\ main.pc = "idle" /\ ui
  /\ Stop
  /\ UNCHANGED <<table, children, mine, ui, logcat, file, stray, counters>>

Joined ==
  /\ main.pc = "join" /\ logcat.pc = "exit" /\ file.pc = "exit"
  /\ ui' = FALSE /\ MainGoto("idle")
  /\ logcat' = [logcat EXCEPT !.pc = "off"] /\ file' = [file EXCEPT !.pc = "off"]
  /\ UNCHANGED <<table, children, mine, active, stray, counters>>

-----------------------------------------------------------------------------
(***************************************************************************)
(* log_reader() for logcat.                                                *)
(***************************************************************************)
LogcatGoto(p) == logcat' = [logcat EXCEPT !.pc = p]

LogcatStdin ==
  /\ logcat.pc = "loop" /\ active /\ logcat.pid = -1
  /\ \/ StdinPipe("logcat") /\ LogcatGoto("pipes") /\ UNCHANGED faults
     \/ Fault /\ UNCHANGED <<table, pipes, logcat>>
  /\ UNCHANGED <<procs, main, mine, active, ui, file, stray, dialogues, rounds>>

LogcatPipes ==
  /\ logcat.pc = "pipes"
  /\ \/ StdoutPipes("logcat") /\ LogcatGoto("fork") /\ UNCHANGED faults
     \/ Undo("logcat") /\ Fault /\ LogcatGoto("loop")
  /\ UNCHANGED <<procs, main, mine, active, ui, file, stray, dialogues, rounds>>

LogcatFork ==
  /\ logcat.pc = "fork"
  /\ \/ Fork("logcat") /\ LogcatGoto("parent") /\ UNCHANGED <<table, pipes, faults>>
     \/ Undo("logcat") /\ Fault /\ LogcatGoto("loop") /\ UNCHANGED procs
  /\ UNCHANGED <<main, mine, active, ui, file, stray, dialogues, rounds>>

\* Mutant: its stdin is not closed.
LogcatParentLeak ==
  LET p == pipes["logcat"] IN
  /\ logcat.pc = "parent"
  /\ Parent("logcat", {p.keep} \cup p.inw)
  /\ logcat' = [pc |-> "loop", fd |-> p.keep, pid |-> Pid("logcat")]
  /\ UNCHANGED <<procs, main, mine, active, ui, file, stray, counters>>
LogcatParent ==
  LET p == pipes["logcat"] IN
  /\ logcat.pc = "parent"
  /\ Parent("logcat", {p.keep})
  /\ logcat' = [pc |-> "loop", fd |-> p.keep, pid |-> Pid("logcat")]
  /\ UNCHANGED <<procs, main, mine, active, ui, file, stray, counters>>

\* What logcat says is read and printed until nothing comes for a while, or an end or
\* an error; the flag is looked at only then.  pclose3(..., SIGKILL)
\* Mutant: logcat is left to end by itself.
LogcatEndKind ==
  /\ logcat.pc = "loop" /\ ~active
  /\ table' = Close(table, {logcat.fd})
  /\ logcat' = [logcat EXCEPT !.pc = IF logcat.fd = -1 THEN "exit" ELSE "wait", !.fd = -1]
  /\ UNCHANGED <<children, main, mine, active, ui, file, stray, counters>>
LogcatEnd ==
  /\ logcat.pc = "loop" /\ ~active
  /\ table' = Close(table, {logcat.fd})
  /\ procs' = [n \in Pids |-> IF n = logcat.pid /\ procs[n].state = "running"
                 THEN [procs[n] EXCEPT !.state = "zombie", !.holds = {}, !.status = 1] ELSE procs[n]]
  /\ logcat' = [logcat EXCEPT !.pc = IF logcat.fd = -1 THEN "exit" ELSE "wait", !.fd = -1]
  /\ UNCHANGED <<pipes, main, mine, active, ui, file, stray, counters>>

LogcatWait ==
  /\ logcat.pc = "wait"
  /\ \/ \E n \in Awaited(logcat.pid) : procs[n].state = "zombie" /\ Reap(n)
     \/ Awaited(logcat.pid) = {} /\ UNCHANGED procs
  /\ logcat' = [logcat EXCEPT !.pc = "exit", !.pid = -1]
  /\ UNCHANGED <<table, pipes, main, mine, active, ui, file, stray, counters>>

(***************************************************************************)
(* log_reader() for the log file, which is opened again when the           *)
(* descriptor does not lead to it.                                         *)
(***************************************************************************)
\* open() takes the lowest descriptor, and fails while there is no log file yet.
Reopen(tab) ==
  \/ \E f \in Lowest({g \in Fds : tab[g] = Free}) :
       table' = [tab EXCEPT ![f] = Log] /\ file' = [file EXCEPT !.fd = f]
  \/ table' = tab /\ file' = [file EXCEPT !.fd = -1]

FileLoop ==
  /\ file.pc = "loop" /\ active
  /\ Open(file.fd) # Log
  /\ Reopen(Close(table, {file.fd}))
  /\ UNCHANGED <<children, main, mine, active, ui, logcat, stray, counters>>

FileEnd ==
  /\ file.pc = "loop" /\ ~active
  /\ table' = Close(table, {file.fd})
  /\ file' = [pc |-> "exit", fd |-> -1]
  /\ UNCHANGED <<children, main, mine, active, ui, logcat, stray, counters>>

-----------------------------------------------------------------------------
(***************************************************************************)
(* The children.                                                           *)
(***************************************************************************)
Exit(n, status) ==
  procs' = [procs EXCEPT ![n].state = "zombie", ![n].holds = {}, ![n].status = status]
KeepThreads ==
  UNCHANGED <<table, pipes, main, mine, active, ui, logcat, file, stray, dialogues, rounds>>

\* cryptsetup has a password, right or wrong, or the end of its input.
CryptEnds(n) ==
  /\ procs[n].state = "running" /\ procs[n].of = "main"
  /\ procs[n].fed \/ ~Held(End(n, "in", "w"))
  /\ Exit(n, 1) \/ (procs[n].fed /\ Exit(n, 0))
  /\ KeepThreads /\ UNCHANGED faults

\* A child cannot be executed, or cryptsetup ends before it reads, ...
ChildFails(n) ==
  /\ procs[n].state = "running"
  /\ Exit(n, 1) /\ Fault
  /\ KeepThreads

\* ... or logcat just ends.
LogcatEnds(n) ==
  /\ procs[n].state = "running" /\ procs[n].of = "logcat"
  /\ Exit(n, 0)
  /\ KeepThreads /\ UNCHANGED faults

MainSteps == MainStdin \/ MainPipes \/ MainFork \/ MainParent \/ Write \/ CloseSin \/ ReadSout \/ PClose
             \/ Wait \/ Joined
LogcatSteps == LogcatStdin \/ LogcatPipes \/ LogcatFork \/ LogcatParent
               \/ LogcatEnd \/ LogcatWait
FileSteps == FileLoop \/ FileEnd
Crypt == \E n \in Pids : CryptEnds(n)

Next ==
  \/ OpenPartition \/ Refused \/ Select \/ Leave \/ ui_init \/ ui_done
  \/ MainSteps \/ LogcatSteps \/ FileSteps \/ Crypt
  \/ \E n \in Pids : ChildFails(n) \/ LogcatEnds(n)

Spec == Init /\ [][Next]_vars

\* Every thread and cryptsetup go on.  That LogcatEnd comes takes a logcat that is
\* silent now and then; its own end is not fair.
FairSpec ==
  /\ Spec
  /\ WF_vars(MainSteps) /\ WF_vars(LogcatSteps) /\ WF_vars(FileSteps) /\ WF_vars(Crypt)

-----------------------------------------------------------------------------
\* Each thread's descriptors are its own: what main reads is its cryptsetup's, what
\* the log readers read is logcat's and the log, however open() and close() of the
\* three interleave; until the second close() of sin hits a number that another
\* thread was given in between.
OwnDescriptors ==
  \/ stray
  \/ /\ main.pc \in {"write", "close", "read", "pclose"} /\ main.sout # -1 =>
          Open(main.sout) = End(dialogues, "out", "r")
     /\ main.pc \in {"write", "close"} /\ main.sin # -1 =>
          Open(main.sin) = End(dialogues, "in", "w")
     /\ logcat.fd # -1 /\ logcat.pc = "loop" =>
          Open(logcat.fd) = End(logcat.pid, "out", "r")
     /\ file.fd # -1 /\ file.pc = "loop" => Open(file.fd) = Log

\* Nothing is left behind: with main at rest and the ui down there is neither an open
\* descriptor nor a child, a zombie included, whichever calls failed before.
NothingLeft ==
  main.pc = "idle" /\ ~ui /\ ~stray =>
    (\A f \in Fds : table[f] = Free) /\ Alive = {}

\* logcat's process was forked between the pipes of a dialogue and the close() of
\* stdout's write end: it holds that end open.
Inherited == \E n \in Pids : procs[n].state = "running" /\ procs[n].of = "logcat"
               /\ main.pid # -1 /\ End(main.pid, "out", "w") \in procs[n].holds
\* popen3() failed, and pclose3() waits for a child: there is none but logcat.
WaitsForLogcat == main.pc = "wait" /\ main.pid = -1 /\ Alive # {}

\* A dialogue with cryptsetup comes to an end, or SIGPIPE puts one to recovery; the
\* exceptions are those where main waits for logcat, which ends in ui_done() only.
DialogueEnds ==
  main.pc = "popen" ~> (main.pc \in {"opened", "refused", "killed"} \/ Inherited \/ WaitsForLogcat \/ stray)

\* ui_done() returns: its threads see the flag, and logcat is killed and waited for.
UiDoneEnds == main.pc = "join" ~> main.pc = "idle"
=============================================================================
