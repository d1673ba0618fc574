------------------------------- MODULE Shell --------------------------------
(***************************************************************************)
(* p5/runshell.cpp: a shell.  It reads lines, forks a process for every    *)
(* command, connects them by pipes, waits for them, and forks a copy of    *)
(* itself for a line that ends in "&".  SIGINT may come between any two of *)
(* its steps, and every process runs at its own pace.                      *)
(*                                                                         *)
(* A line is a sequence of lexems as LexemParser makes them.  A process is *)
(* known by its number; number 1 is the shell.  fork copies the memory and *)
(* the descriptors, so that a copy of the shell takes the same actions.    *)
(* What a program reads and writes is counted, not told.                   *)
(***************************************************************************)
EXTENDS Integers, Sequences, FiniteSets, SequencesExt, TLC

CONSTANTS
  Scripts,     \* the inputs, sequences of lines, one of which is given
  Seekable,    \* whether the input is a file, whose offset all processes share
  Output,      \* per program that can be executed: how much it writes
  Readers,     \* the programs that first read their input to its end
  Statuses,    \* what a program may exit with
  PipeSize,    \* how much a pipe holds
  MaxSigints,  \* bound: how often SIGINT comes
  MaxLines,    \* bound: how many lines are taken, should they come again
  MaxProcs     \* bound: how many processes there are, for fairness

ASSUME ConstantsAssumption ==
  /\ Seekable \in BOOLEAN /\ Readers \subseteq DOMAIN Output
  /\ \A s \in Scripts : s \in Seq(ToSet(s))
  /\ 0 \in Statuses /\ Statuses \subseteq Nat
  /\ PipeSize \in Nat \ {0} /\ MaxSigints \in Nat /\ MaxLines \in Nat

VARIABLES
  script, offset,  \* the input, and how many of its lines have been read from it
  proc,            \* the processes as the kernel knows them
  mem,             \* their memory: the variables of class Shell and its methods
  pipes,           \* what is in each pipe
  cerr,            \* what "Process .. exited: .." told, as <<number, status>>
  taken,           \* history: per line, how often getline returned it
  sigints

input == <<script, offset, taken>>
vars == <<input, proc, mem, pipes, cerr, sigints>>

Main == 1
EXIT_FAILURE == 1
Killed == -1       \* the status of a process that SIGINT or SIGPIPE ended
WEXITSTATUS(status) == IF status = Killed THEN 0 ELSE status

NoFds == [n \in {} |-> <<>>]
Drop(fds, ns) == [n \in DOMAIN fds \ ns |-> fds[n]]
FreeFd(fds) == CHOOSE n \in 0 .. Cardinality(DOMAIN fds) :
                 n \notin DOMAIN fds /\ \A m \in 0 .. n - 1 : m \in DOMAIN fds
Open(fds, end) == [n \in DOMAIN fds \cup {FreeFd(fds)} |-> IF n = FreeFd(fds) THEN end ELSE fds[n]]

TypeAt(line, i) == IF i <= Len(line) THEN line[i].type ELSE "none"

-----------------------------------------------------------------------------
(* Class Call: fd.input is readfd_, fd.output is writefd_. *)

Redirected(line, c, type) ==
  IF TypeAt(line, c.idx) # type THEN c
  ELSE [c EXCEPT !.idx = @ + 2, !.fd[type] = FreeFd(c.fds),
                 !.fds = Open(@, <<"file", line[c.idx + 1].lexem>>)]

(* The constructor: a name, the arguments after it, an "&", redirections. *)
Call(line, idx, readfd, fds) ==
  LET args == CHOOSE j \in idx + 1 .. Len(line) + 1 :
                /\ TypeAt(line, j) # "argument"
                /\ \A k \in idx + 1 .. j - 1 : line[k].type = "argument"
      start == [fds |-> fds, fd |-> [input |-> readfd, output |-> 1],
                idx |-> IF TypeAt(line, args) = "subprocess" THEN args + 1 ELSE args]
  IN Redirected(line, Redirected(line, Redirected(line, start, "input"), "output"), "input")

closeFd_All(fds, fd) == Drop(fds, {fd.input, fd.output})   \* mutant: 0 and 1 are closed too

closeFd_Read(fds, fd) == Drop(fds, {fd.input} \ {0})       \* mutant: the write end stays open

closeFd(fds, fd) == Drop(fds, ({fd.input} \ {0}) \cup ({fd.output} \ {1}))

(* exec: dup2 onto 0 and 1, and the copies are closed. *)
Dup(fds, fd) ==
  [n \in (DOMAIN fds \ {fd.input, fd.output}) \cup {0, 1} |->
     CASE n = 0 -> fds[fd.input] [] n = 1 -> fds[fd.output] [] OTHER -> fds[n]]

-----------------------------------------------------------------------------
(* What goes on in process p when it is the shell or a copy of it; m.pc    *)
(* says where it is.                                                       *)

At(p, pc) == p \in DOMAIN proc /\ proc[p].state = "shell" /\ mem[p].pc = pc

Succeeded(m) == m.prev_exit_status_ = 0

Skips(m) == \/ m.prev_op = "and" /\ ~Succeeded(m)
            \/ m.prev_op = "or" /\ Succeeded(m)

Fork(p, kind, parent, child) ==
  /\ proc' = Append(proc, [proc[p] EXCEPT !.state = kind, !.parent = p,
                                          !.at = child.at, !.lineno = child.lineno])
  /\ mem' = Append([mem EXCEPT ![p] = parent], child)

NewPid == Len(proc) + 1

(* exit flushes stdin: the lines that were read and not taken are given    *)
(* back when descriptor 0 is still the input and the input is a file.      *)
GivenBack(p) ==
  IF Seekable /\ proc[p].fds[0] = <<"script">> /\ mem[p].unread <= offset
  THEN offset - mem[p].unread ELSE offset

EndProcesses(ps, status) ==
  proc' = [p \in DOMAIN proc |->
             IF p \in ps THEN [proc[p] EXCEPT !.state = "ended", !.status = status, !.fds = NoFds]
             ELSE proc[p]]

(* waitpid of those that have ended; cerr tells of them by number. *)
Reaped(ps) == [p \in DOMAIN proc |-> IF p \in ps THEN [proc[p] EXCEPT !.state = "reaped"]
                                     ELSE proc[p]]
Told(ps) == [i \in 1 .. Cardinality(ps) |->
               LET p == CHOOSE p \in ps : Cardinality({q \in ps : q < p}) = i - 1
               IN <<p, WEXITSTATUS(proc[p].status)>>]

(* getline of run takes a line out of stdin's buffer, or reads all there   *)
(* is; then the line is worked off here or in a copy of the shell.         *)
Getline ==
  LET unread == IF mem[Main].unread > 0 THEN mem[Main].unread ELSE Len(script) - offset
      n == Len(script) - unread + 1
      m == [mem[Main] EXCEPT !.unread = unread - 1, !.line = script[n], !.idx = 1,
                             !.lineno = @ + 1, !.at = 0, !.prev_op = "", !.prev_exit_status_ = 0]
  IN /\ At(Main, "getline") /\ unread > 0 /\ mem[Main].lineno < MaxLines
     /\ offset' = IF mem[Main].unread > 0 THEN offset ELSE Len(script)
     /\ taken' = [taken EXCEPT ![n] = @ + 1]
     /\ IF script[n] # <<>> /\ Last(script[n]).type = "subprocess"
        THEN Fork(Main, "shell", [m EXCEPT !.subprocesses_ = @ \cup {NewPid}],
                                 [m EXCEPT !.pc = "call"])
        ELSE /\ mem' = [mem EXCEPT ![Main] = [m EXCEPT !.pc = IF script[n] = <<>> THEN @ ELSE "call"]]
             /\ UNCHANGED proc
     /\ UNCHANGED <<script, pipes, cerr, sigints>>

(* calcCalls_: the next Call, and which calc.. it is given to. *)
StartCall(p) ==
  LET m == mem[p]
      c == Call(m.line, m.idx, m.prev_readfd_, proc[p].fds)
  IN /\ At(p, "call")
     /\ mem' = [mem EXCEPT ![p] = [m EXCEPT
                  !.at = m.idx, !.idx = c.idx, !.fd = c.fd, !.first = TRUE, !.pipe_pids = <<>>, !.i = 1,
                  !.pc = IF TypeAt(m.line, c.idx) = "pipe" THEN "pipe"
                         ELSE IF m.prev_op \in {"", "and", "or"} /\ ~Skips(m) THEN "fork" ELSE "next"]]
     /\ proc' = [proc EXCEPT ![p].fds = c.fds]
     /\ UNCHANGED <<input, pipes, cerr, sigints>>

(* calcPipeline: pipe, and the stage before it writes there. *)
MakePipe(p) ==
  LET m == mem[p]
      fds == Open(proc[p].fds, <<"r", Len(pipes) + 1>>)
  IN /\ At(p, "pipe")
     /\ pipes' = Append(pipes, 0)
     /\ proc' = [proc EXCEPT ![p].fds = Open(fds, <<"w", Len(pipes) + 1>>)]
     /\ mem' = [mem EXCEPT ![p] = [m EXCEPT
                  !.prev_readfd_ = FreeFd(proc[p].fds), !.fd.output = FreeFd(fds),
                  !.pc = IF m.first /\ Skips(m) THEN "skip" ELSE "fork"]]
     /\ UNCHANGED <<input, cerr, sigints>>

NextStage(p, m) ==
  LET c == Call(m.line, m.idx + 1, m.prev_readfd_, closeFd(proc[p].fds, m.fd))
  IN /\ mem' = [mem EXCEPT ![p] = [m EXCEPT
                  !.at = m.idx + 1, !.idx = c.idx, !.fd = c.fd, !.first = FALSE,
                  !.pc = IF TypeAt(m.line, c.idx) = "pipe" THEN "pipe" ELSE "fork"]]
     /\ proc' = [proc EXCEPT ![p].fds = c.fds]

(* The first stage is skipped; the others are not. *)
SkipStage(p) ==
  /\ At(p, "skip")
  /\ NextStage(p, mem[p])
  /\ UNCHANGED <<input, pipes, cerr, sigints>>

ForkCommand(p) ==
  /\ At(p, "fork")
  /\ Fork(p, "forked", [mem[p] EXCEPT !.pc = "insert", !.pipe_pids = Append(@, NewPid)], mem[p])
  /\ UNCHANGED <<input, pipes, cerr, sigints>>

Inserted_Last(m) == {Last(m.pipe_pids)}      \* mutant: one child is known, the newest

Inserted(m) == m.cur_childs \cup {Last(m.pipe_pids)}

(* The shell gets to know its child, and closes what it opened for it. *)
Insert(p) ==
  LET m == [mem[p] EXCEPT !.cur_childs = Inserted(mem[p])]
  IN /\ At(p, "insert")
     /\ IF TypeAt(m.line, m.idx) = "pipe" THEN NextStage(p, m)
        ELSE /\ mem' = [mem EXCEPT ![p] = [m EXCEPT !.pc = "wait"]]
             /\ proc' = [proc EXCEPT ![p].fds = closeFd(@, m.fd)]
     /\ UNCHANGED <<input, pipes, cerr, sigints>>

DecidingStatus_First(m) == proc[Head(m.pipe_pids)].status   \* mutant: that of the first stage

(* The status that counts is that of the last stage. *)
DecidingStatus(m) == proc[Last(m.pipe_pids)].status

Erased_NotLast(m) ==                         \* mutant: the last stage is not erased
  IF m.i = Len(m.pipe_pids) THEN m.cur_childs ELSE m.cur_childs \ {m.pipe_pids[m.i]}

Erased(m) == m.cur_childs \ {m.pipe_pids[m.i]}

(* waitpid and cur_childs.erase, for one stage after the other.  Between   *)
(* the two the handler would only send a signal to a child that is reaped, *)
(* which ends no process, so that they are one step.                       *)
Waitpid(p) ==
  LET child == mem[p].pipe_pids[mem[p].i]
      m == [mem[p] EXCEPT !.cur_childs = Erased(mem[p])]
  IN /\ At(p, "wait") /\ proc[child].state = "ended"
     /\ proc' = Reaped({child})
     /\ mem' = [mem EXCEPT ![p] =
                  IF m.i < Len(m.pipe_pids) THEN [m EXCEPT !.i = @ + 1]
                  ELSE [m EXCEPT !.prev_exit_status_ = DecidingStatus(m),
                                 !.prev_readfd_ = 0, !.pc = "next"]]
     /\ UNCHANGED <<input, pipes, cerr, sigints>>

(* watchSubprocesses_ asks without waiting; in a copy of the shell the     *)
(* numbers in subprocesses_ are those of its brothers, not of children.    *)
Watched(p) == {c \in mem[p].subprocesses_ : proc[c].parent = p /\ proc[c].state = "ended"}

Remaining_All(p) == mem[p].subprocesses_     \* mutant: the loop over erased is forgotten

Remaining(p) == mem[p].subprocesses_ \ Watched(p)

(* The end of the loop in calcCalls_: the operator is passed over. *)
NextCall(p) ==
  LET m == mem[p]
      idx == IF m.idx <= Len(m.line) THEN m.idx + 1 ELSE m.idx
  IN /\ At(p, "next")
     /\ proc' = Reaped(Watched(p))
     /\ cerr' = cerr \o Told(Watched(p))
     /\ mem' = [mem EXCEPT ![p] = [m EXCEPT
                  !.subprocesses_ = Remaining(p), !.idx = idx,
                  !.prev_op = IF m.idx <= Len(m.line) THEN m.line[m.idx].type ELSE @,
                  !.pc = IF idx <= Len(m.line) THEN "call"
                         ELSE IF p = Main THEN "getline" ELSE "exit"]]
     /\ UNCHANGED <<input, pipes, sigints>>

(* The copy of the shell has worked off its line. *)
ExitSubprocess(p) ==
  /\ At(p, "exit")
  /\ EndProcesses({p}, WEXITSTATUS(mem[p].prev_exit_status_))
  /\ offset' = GivenBack(p)
  /\ UNCHANGED <<script, mem, pipes, cerr, taken, sigints>>

(* getline finds nothing more, and run leaves its loop for good, whatever  *)
(* a job that exits later gives back.                                      *)
EndOfInput ==
  /\ At(Main, "getline") /\ mem[Main].unread = 0 /\ offset = Len(script)
  /\ mem' = [mem EXCEPT ![Main].pc = "watch"]
  /\ UNCHANGED <<input, proc, pipes, cerr, sigints>>

(* terminalWatchSubprocesses_, and the end of the program. *)
TerminalWatch ==
  LET ps == mem[Main].subprocesses_
  IN /\ At(Main, "watch")
     /\ \A c \in ps : proc[c].state \in {"ended", "reaped"}
     /\ proc' = [Reaped(ps) EXCEPT ![Main].state = "ended", ![Main].fds = NoFds]
     /\ cerr' = cerr \o Told(ps)
     /\ mem' = [mem EXCEPT ![Main].subprocesses_ = {}]
     /\ UNCHANGED <<input, pipes, sigints>>

NoMemory ==
  [pc |-> "getline", unread |-> 0, line |-> <<>>, lineno |-> 0, idx |-> 1, at |-> 0, prev_op |-> "",
   fd |-> [input |-> 0, output |-> 1], first |-> TRUE, pipe_pids |-> <<>>, i |-> 1, cur_childs |-> {},
   subprocesses_ |-> {}, prev_readfd_ |-> 0, prev_exit_status_ |-> 0]

-----------------------------------------------------------------------------
(* The programs and the kernel. *)

Holds(end) == \E q \in DOMAIN proc : \E n \in DOMAIN proc[q].fds : proc[q].fds[n] = end

In(c) == proc[c].fds[0]
Out(c) == proc[c].fds[1]
Runs(c) == c \in DOMAIN proc /\ proc[c].state = "runs"

ReadsOn(c) ==
  /\ proc[c].name \in Readers /\ In(c)[1] = "r"
  /\ pipes[In(c)[2]] > 0 \/ Holds(<<"w", In(c)[2]>>)

Exec(c) ==
  LET name == mem[c].line[mem[c].at].lexem
  IN /\ c \in DOMAIN proc /\ proc[c].state = "forked"
     /\ IF name \in DOMAIN Output
        THEN /\ proc' = [proc EXCEPT ![c].state = "runs", ![c].name = name, ![c].left = Output[name],
                                     ![c].fds = Dup(@, mem[c].fd)]
             /\ UNCHANGED offset
        ELSE /\ EndProcesses({c}, EXIT_FAILURE)
             /\ offset' = IF mem[c].fd.input = 0 THEN GivenBack(c) ELSE offset
     /\ mem' = [mem EXCEPT ![c] = NoMemory]
     /\ UNCHANGED <<script, pipes, cerr, taken, sigints>>

Read(c) ==
  /\ Runs(c) /\ ReadsOn(c) /\ pipes[In(c)[2]] > 0
  /\ pipes' = [pipes EXCEPT ![In(c)[2]] = @ - 1]
  /\ UNCHANGED <<input, proc, mem, cerr, sigints>>

(* A pipe that is full is waited for; one that nobody can read kills. *)
Write(c) ==
  /\ Runs(c) /\ ~ReadsOn(c) /\ proc[c].left > 0
  /\ IF Out(c)[1] = "w"
     THEN IF Holds(<<"r", Out(c)[2]>>)
          THEN /\ pipes[Out(c)[2]] < PipeSize
               /\ pipes' = [pipes EXCEPT ![Out(c)[2]] = @ + 1]
               /\ proc' = [proc EXCEPT ![c].left = @ - 1]
          ELSE EndProcesses({c}, Killed) /\ UNCHANGED pipes
     ELSE proc' = [proc EXCEPT ![c].left = @ - 1] /\ UNCHANGED pipes
  /\ UNCHANGED <<input, mem, cerr, sigints>>

Exit(c) ==
  /\ Runs(c) /\ ~ReadsOn(c) /\ proc[c].left = 0
  /\ \E status \in Statuses : EndProcesses({c}, status)
  /\ UNCHANGED <<input, mem, pipes, cerr, sigints>>

(* The shell's handler passes the signal on to cur_childs.  A child that   *)
(* has not yet called exec still has that handler, and goes on.            *)
Interrupted == {c \in mem[Main].cur_childs : proc[c].state = "runs"}

handler ==
  /\ sigints < MaxSigints /\ proc[Main].state = "shell"
  /\ sigints' = sigints + 1
  /\ EndProcesses(Interrupted, Killed)
  /\ UNCHANGED <<input, mem, pipes, cerr>>

-----------------------------------------------------------------------------
Init ==
  /\ script \in Scripts /\ offset = 0
  /\ proc = <<[state |-> "shell", parent |-> 0, name |-> "shell", at |-> 0, lineno |-> 0, left |-> 0,
               status |-> 0, fds |-> [n \in 0 .. 2 |-> IF n = 0 THEN <<"script">> ELSE <<"out">>]]>>
  /\ mem = <<NoMemory>>
  /\ pipes = <<>> /\ cerr = <<>> /\ sigints = 0
  /\ taken = [n \in DOMAIN script |-> 0]

ShellStep(p) ==
  \/ StartCall(p) \/ MakePipe(p) \/ SkipStage(p) \/ ForkCommand(p) \/ Insert(p)
  \/ Waitpid(p) \/ NextCall(p) \/ ExitSubprocess(p)

ProgramStep(c) == Exec(c) \/ Read(c) \/ Write(c) \/ Exit(c)

Next ==
  \/ Getline \/ EndOfInput \/ TerminalWatch \/ handler
  \/ \E p \in DOMAIN proc : ShellStep(p) \/ ProgramStep(p)

Spec == Init /\ [][Next]_vars

(* The kernel lets every process run; nobody need press ^C. *)
FairSpec ==
  /\ Spec
  /\ WF_vars(Getline \/ EndOfInput \/ TerminalWatch)
  /\ \A p \in 1 .. MaxProcs : WF_vars(ShellStep(p)) /\ WF_vars(ProgramStep(p))

-----------------------------------------------------------------------------
Children(p) == {c \in DOMAIN proc : proc[c].parent = p}

(* The variables keep their types, and what the shell and its copies       *)
(* remember fits what the kernel knows: cur_childs, and the pipe_pids of   *)
(* the command under way, are children of the process that has them,       *)
(* descriptors 0 to 2 are open while a process lives, and so are those     *)
(* that a command under way is to use and close.                           *)
TypeOK ==
  /\ offset \in 0 .. Len(script) /\ Len(mem) = Len(proc)
  /\ \A k \in DOMAIN pipes : pipes[k] \in 0 .. PipeSize
  /\ \A p \in DOMAIN proc :
       /\ proc[p].parent < p
       /\ proc[p].state \in {"shell", "forked", "runs"} => 0 .. 2 \subseteq DOMAIN proc[p].fds
       /\ proc[p].state = "shell" =>
            /\ mem[p].unread \in 0 .. Len(script)
            /\ mem[p].cur_childs \subseteq Children(p)
            /\ mem[p].pc \in {"pipe", "skip", "fork", "insert", "wait"} =>
                 ToSet(mem[p].pipe_pids) \subseteq Children(p)
            /\ mem[p].pc \in {"pipe", "skip", "fork", "insert"} =>
                 {mem[p].fd.input, mem[p].fd.output} \subseteq DOMAIN proc[p].fds

(* Between lines every command has been waited for, jobs apart, and SIGINT *)
(* would go to no process.                                                 *)
ChildrenAreWaitedFor ==
  At(Main, "getline") =>
    /\ mem[Main].cur_childs = {}
    /\ \A c \in Children(Main) : proc[c].state = "reaped" <=> c \notin mem[Main].subprocesses_

(* Nor does the shell then hold an end of a pipe, for which a reader or a  *)
(* writer on a later line could wait.                                      *)
NoPipeIsLeft ==
  At(Main, "getline") => \A n \in DOMAIN proc[Main].fds : proc[Main].fds[n][1] \notin {"r", "w"}

(* What && and || decide, told from the line and from how its commands     *)
(* ended: the first command of a pipeline runs if it is the first of the   *)
(* line or if the last stage that ran before it ended as its operator      *)
(* wants.  tests/3.sh and 4.sh have such lines.                            *)
LineDone(p) == At(p, "next") /\ mem[p].idx > Len(mem[p].line)

Commands(p) == {c \in Children(p) : proc[c].lineno = mem[p].lineno /\ proc[c].at > 0}

Heads(line) == {k \in DOMAIN line : k = 1 \/ line[k - 1].type \in {"and", "or"}}

EndsPipeline(line, k) ==
  ~\E j \in k + 1 .. Len(line) :
     line[j].type = "pipe" /\ \A h \in k + 1 .. j : line[h].type \notin {"and", "or"}

Decider(p, h) ==
  CHOOSE c \in Commands(p) :
    LET Decides(d) == proc[d].at < h /\ EndsPipeline(mem[p].line, proc[d].at)
    IN Decides(c) /\ \A d \in Commands(p) : Decides(d) => proc[d].at <= proc[c].at

AndOrDecide ==
  \A p \in DOMAIN proc : LineDone(p) =>
    \A h \in Heads(mem[p].line) :
      (\E c \in Commands(p) : proc[c].at = h) <=>
        \/ h = 1
        \/ mem[p].line[h - 1].type = "and" /\ proc[Decider(p, h)].status = 0
        \/ mem[p].line[h - 1].type = "or" /\ proc[Decider(p, h)].status # 0

(* A line that runs in the background is told of once, after it has ended, *)
(* with the status of what decided it, and none is forgotten at the end.   *)
(* tests/5.sh expects "exited: 71".                                        *)
JobsAreToldOnce ==
  LET jobs == {p \in Children(Main) : proc[p].at = 0}
  IN /\ \A i \in DOMAIN cerr :
          LET job == cerr[i][1]
          IN /\ job \in jobs /\ proc[job].state = "reaped"
             /\ cerr[i][2] = WEXITSTATUS(proc[Decider(job, Len(mem[job].line) + 1)].status)
             /\ \A j \in DOMAIN cerr \ {i} : cerr[j][1] # job
     /\ proc[Main].state = "ended" => \A p \in jobs : \E i \in DOMAIN cerr : cerr[i][1] = p

(* Every line ends, and so does the shell, if nobody interrupts it: no     *)
(* stage waits for the end of a pipe that somebody who does not write to   *)
(* it keeps open.                                                          *)
ShellEnds == <>(proc[Main].state = "ended" \/ sigints > 0)

(* A line of the input is worked off once: tests/5.out has "pre" once for  *)
(* the one "echo pre" of tests/5.sh.                                       *)
LinesRunOnce == \A n \in DOMAIN taken : taken[n] <= 1

(* While the shell waits for a line, SIGINT ends all of its commands that  *)
(* still run, each of them however many have been waited for, and no other *)
(* process: tests/6.sh expects the program it runs to be interrupted, and  *)
(* the shell to go on.                                                     *)
SigintEndsTheLine ==
  [][sigints' # sigints /\ At(Main, "wait") =>
       \A c \in DOMAIN proc : Runs(c) =>
         (proc'[c].state = "ended" <=> c \in ToSet(mem[Main].pipe_pids))]_vars
=============================================================================
