---------------------------- MODULE ShellProofs -----------------------------
(***************************************************************************)
(* Theorems about Shell, for all scripts, programs and pipe sizes: every   *)
(* command of a line is waited for before the next line is read, SIGINT    *)
(* ends the commands of the line and nothing else, no line is worked off   *)
(* twice when the input is not a file, no end of a pipe is left open, &&   *)
(* and || decide as they should, and a job is told of once.                *)
(*                                                                         *)
(* The invariant relates what each copy of the shell remembers of its      *)
(* children (Known) with what the kernel knows of them, and counts for the *)
(* shell itself which of its children have not been waited for (Accounted).*)
(* Local says it of the descriptors and of the place in the line,          *)
(* LineRight of what has been decided so far, JobsWatched and JobsTold of  *)
(* the lines that run in the background.                                   *)
(***************************************************************************)
EXTENDS Shell, SequenceTheorems, FunctionTheorems, FiniteSetTheorems, WellFoundedInduction, TLAPS

-----------------------------------------------------------------------------
(* Sequences, whatever their elements are. *)

IsSeq(s) == s \in Seq(ToSet(s))

(* A sequence is the function of its elements. *)
LEMMA SeqFacts ==
  ASSUME NEW s, IsSeq(s)
  PROVE  Len(s) \in Nat /\ DOMAIN s = 1 .. Len(s) /\ s = [i \in 1 .. Len(s) |-> s[i]]
BY LenProperties DEF IsSeq

(* A function on an interval from 1 is a sequence. *)
LEMMA MakeSeq ==
  ASSUME NEW s, NEW n \in Nat, s = [i \in 1 .. n |-> s[i]]
  PROVE  IsSeq(s) /\ Len(s) = n
<1>1. DOMAIN s = 1 .. n
  OBVIOUS
<1>2. \A i \in 1 .. n : s[i] \in ToSet(s)
  BY <1>1 DEF ToSet
<1>3. s \in [1 .. n -> ToSet(s)]
  BY <1>2
<1>4. s \in Seq(ToSet(s))
  BY <1>3, SeqDef
<1>5. Len(s) = n
  BY <1>1, <1>4, LenProperties
<1> QED
  BY <1>4, <1>5 DEF IsSeq

(* A sequence of one element. *)
LEMMA OneSeq ==
  ASSUME NEW e
  PROVE  IsSeq(<<e>>) /\ Len(<<e>>) = 1 /\ <<e>>[1] = e
<1>1. <<e>> \in Seq({e}) /\ Len(<<e>>) = 1 /\ <<e>>[1] = e
  OBVIOUS
<1>2. ToSet(<<e>>) = {e}
  BY <1>1 DEF ToSet
<1> QED
  BY <1>1, <1>2 DEF IsSeq

(* What Append does. *)
LEMMA AppendSeq ==
  ASSUME NEW s, IsSeq(s), NEW e
  PROVE  /\ IsSeq(Append(s, e)) /\ Len(Append(s, e)) = Len(s) + 1
         /\ \A i \in 1 .. Len(s) : Append(s, e)[i] = s[i]
         /\ Append(s, e)[Len(s) + 1] = e
<1> DEFINE S == ToSet(s) \cup {e}
           t == Append(s, e)
<1>1. s \in Seq(S) /\ e \in S
  BY SeqMonotonic DEF IsSeq
<1>2. /\ t \in Seq(S) /\ Len(t) = Len(s) + 1
      /\ \A i \in 1 .. Len(s) : t[i] = s[i]
      /\ t[Len(s) + 1] = e
  BY <1>1, AppendProperties
<1> HIDE DEF t, S
<1>3. Len(t) \in Nat /\ t = [i \in 1 .. Len(t) |-> t[i]]
  BY <1>2, LenProperties
<1>4. IsSeq(t)
  BY <1>3, MakeSeq
<1> QED
  BY <1>2, <1>4 DEF t

(* The last element. *)
LEMMA LastSeq ==
  ASSUME NEW s
  PROVE  Last(s) = s[Len(s)]
BY DEF Last

(* An element is replaced. *)
LEMMA ReplaceSeq ==
  ASSUME NEW s, IsSeq(s), NEW p \in 1 .. Len(s), NEW e, NEW t, t = [s EXCEPT ![p] = e]
  PROVE  /\ IsSeq(t) /\ Len(t) = Len(s) /\ t[p] = e
         /\ \A q \in 1 .. Len(s) : q # p => t[q] = s[q]
<1>1. Len(s) \in Nat /\ DOMAIN s = 1 .. Len(s)
  BY SeqFacts
<1>2. DOMAIN t = 1 .. Len(s) /\ t[p] = e /\ \A q \in 1 .. Len(s) : q # p => t[q] = s[q]
  BY <1>1
<1>3. t = [i \in 1 .. Len(s) |-> t[i]]
  BY <1>1
<1>4. IsSeq(t) /\ Len(t) = Len(s)
  BY <1>1, <1>3, MakeSeq
<1> QED
  BY <1>2, <1>4

-----------------------------------------------------------------------------
(* The processes. *)

Processes(pr) ==
  /\ IsSeq(pr) /\ Len(pr) \in Nat \ {0}
  /\ \A c \in 1 .. Len(pr) : {"state", "parent"} \subseteq DOMAIN pr[c]
  /\ pr[Main].state \in {"shell", "ended"} /\ pr[Main].parent = 0

(* From pr to pr2 those in ps are waited for, and nothing else changes but *)
(* that processes begin, run and end.                                      *)
Moves(pr, pr2, ps) ==
  /\ Len(pr) <= Len(pr2)
  /\ \A c \in 1 .. Len(pr) :
       /\ pr2[c].parent = pr[c].parent
       /\ pr2[c].state = "reaped" <=> pr[c].state = "reaped" \/ c \in ps
       /\ pr2[c].state = "shell" => pr[c].state = "shell"

(* Which state a step may give to a process that had another.              *)
LEMMA Changed ==
  ASSUME NEW pr, Processes(pr), NEW pr2, NEW ps, Main \notin ps,
         DOMAIN pr2 = 1 .. Len(pr), pr2 = [c \in 1 .. Len(pr) |-> pr2[c]],
         \A c \in 1 .. Len(pr) :
           /\ {"state", "parent"} \subseteq DOMAIN pr2[c]
           /\ pr2[c].parent = pr[c].parent
           /\ IF c \in ps THEN pr2[c].state = "reaped"
              ELSE pr2[c].state = pr[c].state
                     \/ (pr[c].state # "reaped" /\ pr2[c].state \in {"ended", "runs"})
           /\ c = Main => pr2[c].state \in {pr[c].state, "ended"}
  PROVE  Processes(pr2) /\ Len(pr2) = Len(pr) /\ Moves(pr, pr2, ps)
<1>1. Len(pr) \in Nat \ {0} /\ Main \in 1 .. Len(pr)
  BY DEF Processes, Main
<1>2. IsSeq(pr2) /\ Len(pr2) = Len(pr)
  BY <1>1, MakeSeq
<1>3. pr2[Main].state \in {"shell", "ended"} /\ pr2[Main].parent = 0
  BY <1>1 DEF Processes
<1>4. Processes(pr2)
  BY <1>1, <1>2, <1>3 DEF Processes
<1>5. Moves(pr, pr2, ps)
  BY <1>1, <1>2 DEF Moves
<1> QED
  BY <1>2, <1>4, <1>5

(* exit and kill. *)
LEMMA EndMoves ==
  ASSUME Processes(proc), NEW ps, NEW status, EndProcesses(ps, status),
         \A c \in ps \cap (1 .. Len(proc)) : proc[c].state # "reaped"
  PROVE  /\ Processes(proc') /\ Len(proc') = Len(proc) /\ Moves(proc, proc', {})
         /\ \A c \in 1 .. Len(proc) :
              proc'[c].state = IF c \in ps THEN "ended" ELSE proc[c].state
<1>1. DOMAIN proc = 1 .. Len(proc) /\ Len(proc) \in Nat \ {0}
  BY SeqFacts DEF Processes
<1>2. proc' = [c \in 1 .. Len(proc) |-> IF c \in ps
                 THEN [proc[c] EXCEPT !.state = "ended", !.status = status, !.fds = NoFds] ELSE proc[c]]
  BY <1>1 DEF EndProcesses
<1>3. \A c \in 1 .. Len(proc) :
        /\ {"state", "parent"} \subseteq DOMAIN proc'[c]
        /\ proc'[c].parent = proc[c].parent
        /\ proc'[c].state = IF c \in ps THEN "ended" ELSE proc[c].state
  BY <1>2 DEF Processes
<1>4. DOMAIN proc' = 1 .. Len(proc) /\ proc' = [c \in 1 .. Len(proc) |-> proc'[c]]
  BY <1>2
<1>5. \A c \in 1 .. Len(proc) :
        /\ IF c \in {} THEN proc'[c].state = "reaped"
           ELSE proc'[c].state = proc[c].state
                  \/ (proc[c].state # "reaped" /\ proc'[c].state \in {"ended", "runs"})
        /\ c = Main => proc'[c].state \in {proc[c].state, "ended"}
  BY <1>3
<1>6. Processes(proc') /\ Len(proc') = Len(proc) /\ Moves(proc, proc', {})
  BY <1>3, <1>4, <1>5, Changed, Zenon
<1> QED
  BY <1>3, <1>6

(* waitpid. *)
LEMMA ReapMoves ==
  ASSUME Processes(proc), NEW ps, Main \notin ps
  PROVE  /\ Processes(Reaped(ps)) /\ Len(Reaped(ps)) = Len(proc) /\ Moves(proc, Reaped(ps), ps)
<1> DEFINE pr2 == Reaped(ps)
<1>1. DOMAIN proc = 1 .. Len(proc) /\ Len(proc) \in Nat \ {0}
  BY SeqFacts DEF Processes
<1>2. pr2 = [c \in 1 .. Len(proc) |-> IF c \in ps THEN [proc[c] EXCEPT !.state = "reaped"] ELSE proc[c]]
  BY <1>1 DEF Reaped
<1> HIDE DEF pr2
<1>3. \A c \in 1 .. Len(proc) :
        /\ {"state", "parent"} \subseteq DOMAIN pr2[c]
        /\ pr2[c].parent = proc[c].parent
        /\ pr2[c].state = IF c \in ps THEN "reaped" ELSE proc[c].state
  BY <1>2 DEF Processes
<1>4. DOMAIN pr2 = 1 .. Len(proc) /\ pr2 = [c \in 1 .. Len(proc) |-> pr2[c]]
  BY <1>2
<1>5. \A c \in 1 .. Len(proc) :
        /\ IF c \in ps THEN pr2[c].state = "reaped"
           ELSE pr2[c].state = proc[c].state
                  \/ (proc[c].state # "reaped" /\ pr2[c].state \in {"ended", "runs"})
        /\ c = Main => pr2[c].state \in {proc[c].state, "ended"}
  BY <1>3
<1>6. Processes(pr2) /\ Len(pr2) = Len(proc) /\ Moves(proc, pr2, ps)
  BY <1>3, <1>4, <1>5, Changed, Zenon
<1> QED
  BY <1>6 DEF pr2

(* A process changes its descriptors. *)
LEMMA FdsMove ==
  ASSUME Processes(proc), NEW p \in 1 .. Len(proc), NEW fds, proc' = [proc EXCEPT ![p].fds = fds]
  PROVE  /\ Processes(proc') /\ Len(proc') = Len(proc) /\ Moves(proc, proc', {})
         /\ \A c \in 1 .. Len(proc) : proc'[c].state = proc[c].state
<1>1. DOMAIN proc = 1 .. Len(proc) /\ Len(proc) \in Nat \ {0}
  BY SeqFacts DEF Processes
<1>2. proc' = [c \in 1 .. Len(proc) |-> IF c = p THEN [proc[c] EXCEPT !.fds = fds] ELSE proc[c]]
  BY <1>1
<1>3. \A c \in 1 .. Len(proc) :
        /\ {"state", "parent"} \subseteq DOMAIN proc'[c]
        /\ proc'[c].parent = proc[c].parent
        /\ proc'[c].state = proc[c].state
  BY <1>2 DEF Processes
<1>4. DOMAIN proc' = 1 .. Len(proc) /\ proc' = [c \in 1 .. Len(proc) |-> proc'[c]]
  BY <1>2
<1>5. \A c \in 1 .. Len(proc) :
        /\ IF c \in {} THEN proc'[c].state = "reaped"
           ELSE proc'[c].state = proc[c].state
                  \/ (proc[c].state # "reaped" /\ proc'[c].state \in {"ended", "runs"})
        /\ c = Main => proc'[c].state \in {proc[c].state, "ended"}
  BY <1>3
<1>6. Processes(proc') /\ Len(proc') = Len(proc) /\ Moves(proc, proc', {})
  BY ONLY Processes(proc), <1>3, <1>4, <1>5, Main \notin {}, Changed, Zenon
<1> QED
  BY <1>3, <1>6

(* fork. *)
LEMMA ForkMoves ==
  ASSUME Processes(proc), IsSeq(mem), Len(mem) = Len(proc), NEW p \in 1 .. Len(proc),
         NEW kind, NEW parent, NEW child, Fork(p, kind, parent, child)
  PROVE  /\ Processes(proc') /\ Len(proc') = NewPid /\ Moves(proc, proc', {})
         /\ NewPid = Len(proc) + 1
         /\ proc'[NewPid].parent = p /\ proc'[NewPid].state = kind
         /\ \A c \in 1 .. Len(proc) : proc'[c] = proc[c]
         /\ IsSeq(mem') /\ Len(mem') = NewPid
         /\ mem'[p] = parent /\ mem'[NewPid] = child
         /\ \A q \in 1 .. Len(proc) : q # p => mem'[q] = mem[q]
<1> DEFINE new == [proc[p] EXCEPT !.state = kind, !.parent = p, !.at = child.at, !.lineno = child.lineno]
           m == [mem EXCEPT ![p] = parent]
<1>1. Len(proc) \in Nat \ {0} /\ Main \in 1 .. Len(proc)
  BY DEF Processes, Main
<1>2. {"state", "parent"} \subseteq DOMAIN new /\ new.parent = p /\ new.state = kind
  BY DEF Processes
<1>3. proc' = Append(proc, new) /\ mem' = Append(m, child)
  BY DEF Fork
<1>4. IsSeq(m) /\ Len(m) = Len(proc) /\ m[p] = parent /\ \A q \in 1 .. Len(proc) : q # p => m[q] = mem[q]
  BY ReplaceSeq
<1> HIDE DEF new, m
<1>5. /\ IsSeq(proc') /\ Len(proc') = Len(proc) + 1
      /\ \A c \in 1 .. Len(proc) : proc'[c] = proc[c]
      /\ proc'[Len(proc) + 1] = new
  BY <1>3, AppendSeq DEF Processes
<1>6. /\ IsSeq(mem') /\ Len(mem') = Len(proc) + 1
      /\ \A c \in 1 .. Len(proc) : mem'[c] = m[c]
      /\ mem'[Len(proc) + 1] = child
  BY <1>3, <1>4, AppendSeq
<1>7. \A c \in 1 .. Len(proc') : c \in 1 .. Len(proc) \/ c = Len(proc) + 1
  BY <1>1, <1>5
<1>8. Processes(proc')
  BY <1>1, <1>2, <1>5, <1>7 DEF Processes
<1>9. Moves(proc, proc', {})
  BY <1>1, <1>5 DEF Moves
<1> QED
  BY <1>1, <1>2, <1>4, <1>5, <1>6, <1>8, <1>9 DEF NewPid

-----------------------------------------------------------------------------
(* What a copy of the shell remembers of its children. *)

Fields == {"pc", "pipe_pids", "i", "cur_childs", "subprocesses_", "unread"}

Idle == {"getline", "call", "next", "exit", "watch"}
Forking == {"pipe", "skip", "fork"}
Working == Forking \cup {"insert", "wait"}

Stages(m, from, to) == {m.pipe_pids[j] : j \in from .. to}

(* The commands of the line are children of p, each of them once.          *)
OwnStages(m, p, pr) ==
  /\ IsSeq(m.pipe_pids)
  /\ \A j \in 1 .. Len(m.pipe_pids) :
       m.pipe_pids[j] \in 1 .. Len(pr) /\ pr[m.pipe_pids[j]].parent = p
  /\ \A j, k \in 1 .. Len(m.pipe_pids) : m.pipe_pids[j] = m.pipe_pids[k] => j = k

(* In cur_childs are those that have been inserted and not waited for.     *)
Known(m, p, pr) ==
  /\ Fields \subseteq DOMAIN m
  /\ m.pc \in Idle \cup Working
  /\ m.pc \in Idle => m.cur_childs = {}
  /\ m.pc \in Working => OwnStages(m, p, pr)
  /\ m.pc \in Forking => m.i = 1 /\ m.cur_childs = Stages(m, 1, Len(m.pipe_pids))
  /\ m.pc = "insert" =>
       /\ m.i = 1 /\ Len(m.pipe_pids) > 0
       /\ m.cur_childs = Stages(m, 1, Len(m.pipe_pids) - 1)
  /\ m.pc = "wait" =>
       /\ m.i \in 1 .. Len(m.pipe_pids)
       /\ m.cur_childs = Stages(m, m.i, Len(m.pipe_pids))
       /\ \A j \in 1 .. m.i - 1 : pr[m.pipe_pids[j]].state = "reaped"

(* Those of its children that the shell has still to wait for.             *)
Outstanding(m) ==
  m.subprocesses_ \cup m.cur_childs
    \cup (IF m.pc = "insert" THEN {m.pipe_pids[Len(m.pipe_pids)]} ELSE {})

Accounted(m, pr) ==
  /\ m.subprocesses_ \subseteq 1 .. Len(pr)
  /\ m.pc \in Working =>
       \A j \in 1 .. Len(m.pipe_pids) : m.pipe_pids[j] \notin m.subprocesses_
  /\ \A c \in 1 .. Len(pr) :
       pr[c].parent = Main => (pr[c].state = "reaped" <=> c \notin Outstanding(m))

Memories ==
  /\ Processes(proc) /\ IsSeq(mem) /\ Len(mem) = Len(proc)
  /\ \A p \in 1 .. Len(proc) : proc[p].state = "shell" => Known(mem[p], p, proc)
  /\ proc[Main].state = "shell" => Accounted(mem[Main], proc)

(* What was known stays true as processes go on.                           *)
LEMMA KnownLater ==
  ASSUME NEW m, NEW p, NEW pr, NEW pr2, NEW ps, Known(m, p, pr), Moves(pr, pr2, ps),
         Len(pr) \in Nat, Len(pr2) \in Nat
  PROVE  Known(m, p, pr2)
<1>1. \A c \in 1 .. Len(pr) :
        /\ c \in 1 .. Len(pr2) /\ pr2[c].parent = pr[c].parent
        /\ pr[c].state = "reaped" => pr2[c].state = "reaped"
  BY DEF Moves
<1>2. ASSUME m.pc \in Working
      PROVE  OwnStages(m, p, pr2)
  BY <1>1, <1>2 DEF Known, OwnStages
<1>3. ASSUME m.pc = "wait", NEW j \in 1 .. m.i - 1
      PROVE  pr2[m.pipe_pids[j]].state = "reaped"
  <2>1. m.pc \in Working /\ OwnStages(m, p, pr) /\ m.i \in 1 .. Len(m.pipe_pids)
    BY <1>3 DEF Known, Working
  <2>2. j \in 1 .. Len(m.pipe_pids)
    BY <2>1, <1>3, SeqFacts DEF OwnStages
  <2> QED
    BY <1>1, <1>3, <2>1, <2>2 DEF Known, OwnStages
<1> QED
  BY <1>2, <1>3 DEF Known

(* So is what the shell has to wait for, when another process moves.       *)
LEMMA AccountedLater ==
  ASSUME NEW m, NEW pr, NEW pr2, NEW ps, Accounted(m, pr), Moves(pr, pr2, ps),
         Len(pr) \in Nat, Len(pr2) \in Nat,
         \A c \in 1 .. Len(pr) : c \in ps => pr[c].parent # Main,
         \A c \in Len(pr) + 1 .. Len(pr2) : pr2[c].parent # Main
  PROVE  Accounted(m, pr2)
<1>1. \A c \in 1 .. Len(pr2) : pr2[c].parent = Main =>
        /\ c \in 1 .. Len(pr) /\ pr[c].parent = Main
        /\ pr2[c].state = "reaped" <=> pr[c].state = "reaped"
  BY DEF Moves
<1>2. m.subprocesses_ \subseteq 1 .. Len(pr2)
  BY DEF Accounted, Moves
<1> QED
  BY <1>1, <1>2 DEF Accounted

(* A step of process p, which changes its own memory and waits for its own *)
(* children.                                                               *)
LEMMA OwnStep ==
  ASSUME Memories, NEW p \in 1 .. Len(proc), NEW ps,
         Processes(proc'), Moves(proc, proc', ps), IsSeq(mem'), Len(mem') = Len(proc'),
         \A c \in 1 .. Len(proc) : c \in ps => proc[c].parent = p,
         \A c \in Len(proc) + 1 .. Len(proc') :
           proc'[c].parent = p /\ (proc'[c].state = "shell" => Known(mem'[c], c, proc')),
         \A q \in 1 .. Len(proc) : q # p => mem'[q] = mem[q],
         proc'[p].state = "shell" => Known(mem'[p], p, proc'),
         p = Main /\ proc'[Main].state = "shell" => Accounted(mem'[Main], proc')
  PROVE  Memories'
<1>1. Len(proc) \in Nat \ {0} /\ Len(proc') \in Nat \ {0} /\ Main \in 1 .. Len(proc)
  BY DEF Memories, Processes, Main
<1>2. ASSUME NEW q \in 1 .. Len(proc'), proc'[q].state = "shell"
      PROVE  Known(mem'[q], q, proc')
  <2>1. CASE q \in 1 .. Len(proc) /\ q # p
    <3>1. proc[q].state = "shell" /\ mem'[q] = mem[q]
      BY <1>2, <2>1 DEF Moves
    <3>2. Known(mem[q], q, proc)
      BY <2>1, <3>1 DEF Memories
    <3> QED
      BY <1>1, <3>1, <3>2, KnownLater
  <2>2. CASE q = p
    BY <1>2, <2>2
  <2>3. CASE q \in Len(proc) + 1 .. Len(proc')
    BY <1>2, <2>3
  <2> QED
    BY <1>1, <2>1, <2>2, <2>3
<1>3. ASSUME proc'[Main].state = "shell", p # Main
      PROVE  Accounted(mem'[Main], proc')
  <2>1. proc[Main].state = "shell" /\ mem'[Main] = mem[Main]
    BY <1>1, <1>3 DEF Moves
  <2>2. Accounted(mem[Main], proc)
    BY <2>1 DEF Memories
  <2>3. \A c \in 1 .. Len(proc) : c \in ps => proc[c].parent # Main
    BY <1>3
  <2>4. \A c \in Len(proc) + 1 .. Len(proc') : proc'[c].parent # Main
    BY <1>3
  <2> QED
    BY <1>1, <2>1, <2>2, <2>3, <2>4, AccountedLater
<1> QED
  BY <1>2, <1>3 DEF Memories

(* What holds where process p is.                                          *)
LEMMA Here ==
  ASSUME Memories, NEW p, NEW pc, At(p, pc)
  PROVE  /\ p \in 1 .. Len(proc) /\ mem[p].pc = pc /\ proc[p].state = "shell"
         /\ Known(mem[p], p, proc)
         /\ p = Main => Accounted(mem[p], proc)
BY SeqFacts DEF Memories, Processes, At, Main

(* The memory of one process is replaced. *)
LEMMA MemReplaced ==
  ASSUME IsSeq(mem), Len(mem) = Len(proc), NEW p \in 1 .. Len(proc), NEW m,
         mem' = [mem EXCEPT ![p] = m]
  PROVE  /\ IsSeq(mem') /\ Len(mem') = Len(mem) /\ mem'[p] = m
         /\ \A q \in 1 .. Len(proc) : q # p => mem'[q] = mem[q]
<1>1. Len(mem) \in Nat /\ DOMAIN mem = 1 .. Len(mem)
  BY SeqFacts
<1>2. DOMAIN mem' = 1 .. Len(mem) /\ mem'[p] = m /\ \A q \in 1 .. Len(proc) : q # p => mem'[q] = mem[q]
  BY <1>1
<1>3. mem' = [i \in 1 .. Len(mem) |-> mem'[i]]
  BY <1>1
<1>4. IsSeq(mem') /\ Len(mem') = Len(mem)
  BY ONLY <1>1, <1>3, MakeSeq
<1> QED
  BY <1>2, <1>4

(* A step of p that changes its memory and its descriptors.                *)
LEMMA QuietStep ==
  ASSUME Memories, NEW p \in 1 .. Len(proc), NEW m, NEW fds,
         mem' = [mem EXCEPT ![p] = m], proc' = [proc EXCEPT ![p].fds = fds],
         Known(m, p, proc), p = Main => Accounted(m, proc)
  PROVE  Memories'
<1>1. Processes(proc') /\ Len(proc') = Len(proc) /\ Moves(proc, proc', {})
  BY FdsMove DEF Memories
<1>2. /\ IsSeq(mem') /\ Len(mem') = Len(mem) /\ mem'[p] = m
      /\ \A q \in 1 .. Len(proc) : q # p => mem'[q] = mem[q]
  <2>1. IsSeq(mem) /\ Len(mem) = Len(proc)
    BY DEF Memories
  <2> QED
    BY <2>1, MemReplaced
<1>3. Len(proc) \in Nat \ {0} /\ Len(mem) = Len(proc)
  BY DEF Memories, Processes
<1>4. Known(m, p, proc')
  BY <1>1, <1>3, KnownLater
<1>5. p = Main => Accounted(m, proc')
  <2>1. \A c \in 1 .. Len(proc) : c \in {} => proc[c].parent # Main
    OBVIOUS
  <2>2. \A c \in Len(proc) + 1 .. Len(proc') : proc'[c].parent # Main
    BY <1>1, <1>3
  <2> QED
    BY ONLY <1>1, <1>3, <2>1, <2>2, p = Main => Accounted(m, proc), AccountedLater, Zenon
<1> QED
  BY ONLY Memories, p \in 1 .. Len(proc), <1>1, <1>2, <1>3, <1>4, <1>5, OwnStep

(* Between two forks of a line the memory stays as it is.                  *)
LEMMA ForkingKnown ==
  ASSUME NEW m, NEW m2, NEW p, Known(m, p, proc), m.pc \in Forking, m2.pc \in Forking,
         Fields \subseteq DOMAIN m2,
         m2.pipe_pids = m.pipe_pids, m2.i = m.i, m2.cur_childs = m.cur_childs,
         m2.subprocesses_ = m.subprocesses_
  PROVE  Known(m2, p, proc) /\ (Accounted(m, proc) => Accounted(m2, proc))
<1>1. m.pc \in Working /\ m2.pc \in Working /\ m2.pc \notin Idle \cup {"insert", "wait"} /\ m.pc # "insert"
  BY DEF Working, Forking, Idle
<1>2. OwnStages(m2, p, proc)
  BY <1>1 DEF Known, OwnStages
<1>3. m2.i = 1 /\ m2.cur_childs = Stages(m2, 1, Len(m2.pipe_pids))
  BY DEF Known, Stages
<1>4. Known(m2, p, proc)
  BY <1>1, <1>2, <1>3 DEF Known
<1>5. Outstanding(m2) = Outstanding(m)
  BY <1>1 DEF Outstanding
<1> QED
  BY <1>1, <1>4, <1>5 DEF Accounted

(* A line begins or a pipeline has ended: no stages are known.             *)
LEMMA StartCallKeeps ==
  ASSUME Memories, NEW p, StartCall(p)
  PROVE  Memories'
<1> DEFINE m == mem[p]
           c == Call(m.line, m.idx, m.prev_readfd_, proc[p].fds)
           m2 == [m EXCEPT
                  !.at = m.idx, !.idx = c.idx, !.fd = c.fd, !.first = TRUE, !.pipe_pids = <<>>, !.i = 1,
                  !.pc = IF TypeAt(m.line, c.idx) = "pipe" THEN "pipe"
                         ELSE IF m.prev_op \in {"", "and", "or"} /\ ~Skips(m) THEN "fork" ELSE "next"]
<1>1. /\ p \in 1 .. Len(proc) /\ m.pc = "call" /\ Known(m, p, proc)
      /\ p = Main => Accounted(m, proc)
  BY Here DEF StartCall
<1>2. mem' = [mem EXCEPT ![p] = m2] /\ proc' = [proc EXCEPT ![p].fds = c.fds]
  BY DEF StartCall
<1>3. Fields \subseteq DOMAIN m /\ m.cur_childs = {}
  BY <1>1 DEF Known, Idle
<1>4. /\ Fields \subseteq DOMAIN m2
      /\ m2.pipe_pids = <<>> /\ m2.i = 1 /\ m2.cur_childs = {} /\ m2.subprocesses_ = m.subprocesses_
      /\ m2.pc \in {"pipe", "fork", "next"}
  BY <1>3
<1> HIDE DEF m2
<1>5. IsSeq(<<>>) /\ Len(<<>>) = 0
  BY EmptySeq DEF IsSeq
<1>6. OwnStages(m2, p, proc) /\ Stages(m2, 1, Len(m2.pipe_pids)) = {}
  BY <1>4, <1>5 DEF OwnStages, Stages
<1>7. Known(m2, p, proc)
  BY <1>4, <1>6 DEF Known, Idle, Working, Forking
<1>8. Outstanding(m2) = Outstanding(m)
  BY <1>1, <1>3, <1>4 DEF Outstanding
<1>9. p = Main => Accounted(m2, proc)
  BY <1>1, <1>4, <1>5, <1>8 DEF Accounted
<1> QED
  BY ONLY Memories, <1>1, <1>2, <1>7, <1>9, QuietStep

(* Before a fork there may be a pipe to make. *)
LEMMA MakePipeKeeps ==
  ASSUME Memories, NEW p, MakePipe(p)
  PROVE  Memories'
<1> DEFINE m == mem[p]
           fds == Open(proc[p].fds, <<"r", Len(pipes) + 1>>)
           fds2 == Open(fds, <<"w", Len(pipes) + 1>>)
           m2 == [m EXCEPT
                  !.prev_readfd_ = FreeFd(proc[p].fds), !.fd.output = FreeFd(fds),
                  !.pc = IF m.first /\ Skips(m) THEN "skip" ELSE "fork"]
<1>1. /\ p \in 1 .. Len(proc) /\ m.pc = "pipe" /\ Known(m, p, proc)
      /\ p = Main => Accounted(m, proc)
  BY Here DEF MakePipe
<1>2. mem' = [mem EXCEPT ![p] = m2] /\ proc' = [proc EXCEPT ![p].fds = fds2]
  BY DEF MakePipe
<1>3. Fields \subseteq DOMAIN m /\ m.pc \in Forking
  BY <1>1 DEF Known, Forking
<1>4. /\ Fields \subseteq DOMAIN m2
      /\ m2.pipe_pids = m.pipe_pids /\ m2.i = m.i /\ m2.cur_childs = m.cur_childs
      /\ m2.subprocesses_ = m.subprocesses_ /\ m2.pc \in {"skip", "fork"}
  BY <1>3
<1> HIDE DEF m2, m, fds2
<1>5. m2.pc \in Forking
  BY <1>4 DEF Forking
<1>6. Known(m2, p, proc) /\ (p = Main => Accounted(m2, proc))
  BY <1>1, <1>3, <1>4, <1>5, ForkingKnown
<1> QED
  BY ONLY Memories, <1>1, <1>2, <1>6, QuietStep

(* The next stage is taken from the line. *)
LEMMA NextStageKeeps ==
  ASSUME Memories, NEW p \in 1 .. Len(proc), NEW m, NextStage(p, m),
         \A m2 : /\ Fields \subseteq DOMAIN m2
                 /\ m2.pipe_pids = m.pipe_pids /\ m2.i = m.i /\ m2.cur_childs = m.cur_childs
                 /\ m2.subprocesses_ = m.subprocesses_ /\ m2.pc \in {"pipe", "fork"}
                 => Known(m2, p, proc) /\ (p = Main => Accounted(m2, proc)),
         Fields \subseteq DOMAIN m
  PROVE  Memories'
<1> DEFINE c == Call(m.line, m.idx + 1, m.prev_readfd_, closeFd(proc[p].fds, m.fd))
           m2 == [m EXCEPT
                  !.at = m.idx + 1, !.idx = c.idx, !.fd = c.fd, !.first = FALSE,
                  !.pc = IF TypeAt(m.line, c.idx) = "pipe" THEN "pipe" ELSE "fork"]
<1>1. mem' = [mem EXCEPT ![p] = m2] /\ proc' = [proc EXCEPT ![p].fds = c.fds]
  BY DEF NextStage
<1>2. /\ Fields \subseteq DOMAIN m2
      /\ m2.pipe_pids = m.pipe_pids /\ m2.i = m.i /\ m2.cur_childs = m.cur_childs
      /\ m2.subprocesses_ = m.subprocesses_ /\ m2.pc \in {"pipe", "fork"}
  BY DEF Fields
<1> HIDE DEF m2, c
<1>3. Known(m2, p, proc) /\ (p = Main => Accounted(m2, proc))
  BY <1>2
<1> QED
  BY ONLY Memories, p \in 1 .. Len(proc), <1>1, <1>3, QuietStep

(* The first stage is not forked. *)
LEMMA SkipStageKeeps ==
  ASSUME Memories, NEW p, SkipStage(p)
  PROVE  Memories'
<1>1. /\ p \in 1 .. Len(proc) /\ mem[p].pc = "skip" /\ Known(mem[p], p, proc)
      /\ p = Main => Accounted(mem[p], proc)
  BY Here DEF SkipStage
<1>2. Fields \subseteq DOMAIN mem[p] /\ mem[p].pc \in Forking
  BY <1>1 DEF Known, Forking
<1>3. ASSUME NEW m2, Fields \subseteq DOMAIN m2,
             m2.pipe_pids = mem[p].pipe_pids, m2.i = mem[p].i, m2.cur_childs = mem[p].cur_childs,
             m2.subprocesses_ = mem[p].subprocesses_, m2.pc \in {"pipe", "fork"}
      PROVE  Known(m2, p, proc) /\ (p = Main => Accounted(m2, proc))
  <2>1. m2.pc \in Forking
    BY <1>3 DEF Forking
  <2> QED
    BY <1>1, <1>2, <1>3, <2>1, ForkingKnown
<1> QED
  BY <1>1, <1>2, <1>3, NextStageKeeps DEF SkipStage

(* A command is forked: it is outstanding before cur_childs has it.        *)
LEMMA ForkCommandKeeps ==
  ASSUME Memories, NEW p, ForkCommand(p)
  PROVE  Memories'
<1> DEFINE m == mem[p]
           m2 == [m EXCEPT !.pc = "insert", !.pipe_pids = Append(@, NewPid)]
<1>1. /\ p \in 1 .. Len(proc) /\ m.pc = "fork" /\ Known(m, p, proc)
      /\ p = Main => Accounted(m, proc)
  BY Here DEF ForkCommand
<1>2. Fork(p, "forked", m2, m)
  BY DEF ForkCommand
<1>3. Fields \subseteq DOMAIN m /\ m.pc \in Forking /\ m.pc \in Working
  BY <1>1 DEF Known, Forking, Working
<1>4. /\ Fields \subseteq DOMAIN m2
      /\ m2.pipe_pids = Append(m.pipe_pids, NewPid) /\ m2.i = m.i /\ m2.cur_childs = m.cur_childs
      /\ m2.subprocesses_ = m.subprocesses_ /\ m2.pc = "insert"
  BY <1>3 DEF Fields
<1> HIDE DEF m2, m
<1>5. /\ Processes(proc') /\ Len(proc') = NewPid /\ Moves(proc, proc', {})
      /\ NewPid = Len(proc) + 1
      /\ proc'[NewPid].parent = p /\ proc'[NewPid].state = "forked"
      /\ \A c \in 1 .. Len(proc) : proc'[c] = proc[c]
      /\ IsSeq(mem') /\ Len(mem') = NewPid
      /\ mem'[p] = m2
      /\ \A q \in 1 .. Len(proc) : q # p => mem'[q] = mem[q]
  BY ONLY Memories, <1>1, <1>2, ForkMoves DEF Memories
<1>6. Len(proc) \in Nat \ {0}
  BY DEF Memories, Processes
<1>7. OwnStages(m, p, proc) /\ m.i = 1 /\ m.cur_childs = Stages(m, 1, Len(m.pipe_pids))
  BY <1>1, <1>3 DEF Known
<1> DEFINE n == Len(m.pipe_pids)
<1>8. /\ n \in Nat /\ IsSeq(m2.pipe_pids) /\ Len(m2.pipe_pids) = n + 1
      /\ \A j \in 1 .. n : m2.pipe_pids[j] = m.pipe_pids[j]
      /\ m2.pipe_pids[n + 1] = NewPid
  BY <1>4, <1>7, AppendSeq, SeqFacts DEF OwnStages
<1> HIDE DEF n
<1>9. \A j \in 1 .. n : m2.pipe_pids[j] \in 1 .. Len(proc) /\ proc[m2.pipe_pids[j]].parent = p
  BY <1>7, <1>8 DEF OwnStages, n
<1>10. OwnStages(m2, p, proc')
  <2>1. \A j \in 1 .. n + 1 : m2.pipe_pids[j] \in 1 .. Len(proc') /\ proc'[m2.pipe_pids[j]].parent = p
    BY <1>5, <1>6, <1>8, <1>9
  <2>2. \A j, k \in 1 .. n + 1 : m2.pipe_pids[j] = m2.pipe_pids[k] => j = k
    <3>1. \A j, k \in 1 .. n : m2.pipe_pids[j] = m2.pipe_pids[k] => j = k
      BY <1>7, <1>8 DEF OwnStages, n
    <3>2. \A j \in 1 .. n : m2.pipe_pids[j] # m2.pipe_pids[n + 1]
      BY <1>5, <1>6, <1>8, <1>9
    <3> QED
      BY <1>8, <3>1, <3>2
  <2> QED
    BY <1>8, <2>1, <2>2 DEF OwnStages
<1>11. m2.cur_childs = Stages(m2, 1, Len(m2.pipe_pids) - 1)
  BY <1>4, <1>7, <1>8 DEF Stages, n
<1>12. Known(m2, p, proc')
  BY <1>4, <1>7, <1>8, <1>10, <1>11 DEF Known, Idle, Working, Forking
<1>13. ASSUME p = Main
       PROVE  Accounted(m2, proc')
  <2>1. Accounted(m, proc)
    BY <1>1, <1>13
  <2>2. Outstanding(m2) = Outstanding(m) \cup {NewPid}
    BY <1>1, <1>4, <1>8 DEF Outstanding
  <2>3. Outstanding(m) \subseteq 1 .. Len(proc)
    BY <1>1, <1>7, <2>1 DEF Outstanding, Accounted, Stages, OwnStages
  <2>4. \A c \in 1 .. Len(proc') :
          proc'[c].parent = Main => (proc'[c].state = "reaped" <=> c \notin Outstanding(m2))
    BY <1>5, <1>6, <2>1, <2>2, <2>3 DEF Accounted
  <2>5. \A j \in 1 .. Len(m2.pipe_pids) : m2.pipe_pids[j] \notin m2.subprocesses_
    BY <1>3, <1>4, <1>5, <1>6, <1>8, <2>1 DEF Accounted, n
  <2>6. m2.subprocesses_ \subseteq 1 .. Len(proc')
    BY <1>4, <1>5, <1>6, <2>1 DEF Accounted
  <2> QED
    BY <2>4, <2>5, <2>6 DEF Accounted
<1>14. \A c \in Len(proc) + 1 .. Len(proc') :
         proc'[c].parent = p /\ (proc'[c].state = "shell" => Known(mem'[c], c, proc'))
  BY <1>5, <1>6
<1> QED
  BY ONLY Memories, <1>1, <1>5, <1>12, <1>13, <1>14, OwnStep

(* The command that was forked last is in cur_childs like those before it. *)
LEMMA InsertKeeps ==
  ASSUME Memories, NEW p, Insert(p)
  PROVE  Memories'
<1> DEFINE m0 == mem[p]
           m == [m0 EXCEPT !.cur_childs = Inserted(m0)]
           n == Len(m0.pipe_pids)
<1>1. /\ p \in 1 .. Len(proc) /\ m0.pc = "insert" /\ Known(m0, p, proc)
      /\ p = Main => Accounted(m0, proc)
  BY Here DEF Insert
<1>2. Fields \subseteq DOMAIN m0 /\ m0.pc \in Working
  BY <1>1 DEF Known, Working
<1>3. /\ Fields \subseteq DOMAIN m /\ m.pc = "insert" /\ m.pipe_pids = m0.pipe_pids /\ m.i = m0.i
      /\ m.cur_childs = Inserted(m0) /\ m.subprocesses_ = m0.subprocesses_
  BY <1>1, <1>2 DEF Fields
<1>4. IF TypeAt(m.line, m.idx) = "pipe" THEN NextStage(p, m)
      ELSE /\ mem' = [mem EXCEPT ![p] = [m EXCEPT !.pc = "wait"]]
           /\ proc' = [proc EXCEPT ![p].fds = closeFd(@, m.fd)]
  BY DEF Insert
<1> HIDE DEF m, m0
<1>5. OwnStages(m0, p, proc) /\ n \in Nat /\ n > 0 /\ m0.i = 1 /\ m0.cur_childs = Stages(m0, 1, n - 1)
  BY <1>1, <1>2, SeqFacts DEF Known, OwnStages
<1>6. m.cur_childs = Stages(m0, 1, n)
  <2>1. Last(m0.pipe_pids) = m0.pipe_pids[n]
    BY LastSeq
  <2>2. 1 .. n = (1 .. n - 1) \cup {n}
    BY <1>5
  <2> QED
    BY <1>3, <1>5, <2>1, <2>2 DEF Inserted, Stages
<1> HIDE DEF n
<1>7. ASSUME NEW m2, Fields \subseteq DOMAIN m2,
             m2.pipe_pids = m.pipe_pids, m2.i = m.i, m2.cur_childs = m.cur_childs,
             m2.subprocesses_ = m.subprocesses_, m2.pc \in {"pipe", "fork", "wait"}
      PROVE  Known(m2, p, proc) /\ (p = Main => Accounted(m2, proc))
  <2>1. OwnStages(m2, p, proc) /\ m2.i = 1 /\ m2.cur_childs = Stages(m2, 1, Len(m2.pipe_pids))
    BY <1>3, <1>5, <1>6, <1>7 DEF OwnStages, Stages, n
  <2>2. Known(m2, p, proc)
    BY <1>3, <1>5, <1>7, <2>1 DEF Known, Idle, Working, Forking, n
  <2>3. Outstanding(m2) = Outstanding(m0)
    <3>1. 1 .. n = (1 .. n - 1) \cup {n}
      BY <1>5
    <3>2. m2.cur_childs = m0.cur_childs \cup {m0.pipe_pids[n]}
      BY <1>5, <1>6, <1>7, <3>1 DEF Stages
    <3> QED
      BY <1>1, <1>3, <1>7, <3>2 DEF Outstanding, n
  <2> QED
    BY <1>1, <1>2, <1>3, <1>7, <2>2, <2>3 DEF Accounted
<1>8. CASE TypeAt(m.line, m.idx) = "pipe"
  <2>1. NextStage(p, m)
    BY <1>4, <1>8
  <2> QED
    BY <1>1, <1>3, <1>7, <2>1, NextStageKeeps
<1>9. CASE TypeAt(m.line, m.idx) # "pipe"
  <2> DEFINE m2 == [m EXCEPT !.pc = "wait"]
  <2>1. /\ Fields \subseteq DOMAIN m2
        /\ m2.pipe_pids = m.pipe_pids /\ m2.i = m.i /\ m2.cur_childs = m.cur_childs
        /\ m2.subprocesses_ = m.subprocesses_ /\ m2.pc = "wait"
    BY <1>3 DEF Fields
  <2>2. mem' = [mem EXCEPT ![p] = m2] /\ proc' = [proc EXCEPT ![p].fds = closeFd(proc[p].fds, m.fd)]
    BY <1>4, <1>9
  <2> HIDE DEF m2
  <2>3. Known(m2, p, proc) /\ (p = Main => Accounted(m2, proc))
    BY <1>7, <2>1
  <2> QED
    BY ONLY Memories, <1>1, <2>2, <2>3, QuietStep
<1> QED
  BY <1>8, <1>9

(* A command is waited for, and is no longer in cur_childs.                *)
LEMMA WaitpidKeeps ==
  ASSUME Memories, NEW p, Waitpid(p)
  PROVE  Memories'
<1> DEFINE m0 == mem[p]
           child == m0.pipe_pids[m0.i]
           m == [m0 EXCEPT !.cur_childs = Erased(m0)]
           m2 == IF m.i < Len(m.pipe_pids) THEN [m EXCEPT !.i = @ + 1]
                 ELSE [m EXCEPT !.prev_exit_status_ = DecidingStatus(m), !.prev_readfd_ = 0, !.pc = "next"]
           n == Len(m0.pipe_pids)
<1>1. /\ p \in 1 .. Len(proc) /\ m0.pc = "wait" /\ Known(m0, p, proc) /\ proc[p].state = "shell"
      /\ p = Main => Accounted(m0, proc)
  BY Here DEF Waitpid
<1>2. Fields \subseteq DOMAIN m0 /\ m0.pc \in Working
  BY <1>1 DEF Known, Working
<1>3. /\ Fields \subseteq DOMAIN m /\ m.pc = "wait" /\ m.pipe_pids = m0.pipe_pids /\ m.i = m0.i
      /\ m.cur_childs = Erased(m0) /\ m.subprocesses_ = m0.subprocesses_
  BY <1>1, <1>2 DEF Fields
<1>4. proc[child].state = "ended" /\ proc' = Reaped({child}) /\ mem' = [mem EXCEPT ![p] = m2]
  BY DEF Waitpid
<1> HIDE DEF m
<1>5. /\ Fields \subseteq DOMAIN m2 /\ m2.pipe_pids = m0.pipe_pids
      /\ m2.cur_childs = Erased(m0) /\ m2.subprocesses_ = m0.subprocesses_
      /\ IF m0.i < n THEN m2.i = m0.i + 1 /\ m2.pc = "wait" ELSE m2.pc = "next"
  BY <1>3 DEF Fields
<1> HIDE DEF m2, m0
<1>6. /\ OwnStages(m0, p, proc) /\ n \in Nat /\ m0.i \in 1 .. n /\ m0.cur_childs = Stages(m0, m0.i, n)
      /\ \A j \in 1 .. m0.i - 1 : proc[m0.pipe_pids[j]].state = "reaped"
  BY <1>1, <1>2, SeqFacts DEF Known, OwnStages
<1>7. child \in 1 .. Len(proc) /\ proc[child].parent = p
  BY <1>6 DEF OwnStages
<1> HIDE DEF n
<1>8. m2.cur_childs = Stages(m0, m0.i + 1, n)
  <2>1. m0.i .. n = {m0.i} \cup (m0.i + 1 .. n) /\ \A j \in m0.i + 1 .. n : j \in 1 .. n /\ j # m0.i
    BY <1>6
  <2>2. \A j \in m0.i + 1 .. n : m0.pipe_pids[j] # child
    BY <1>6, <2>1 DEF OwnStages, n
  <2> QED
    BY <1>5, <1>6, <2>1, <2>2 DEF Erased, Stages
<1>9. Main # child
  BY <1>1, <1>4, <1>7 DEF Memories, Processes, Main
<1>10. Processes(proc') /\ Len(proc') = Len(proc) /\ Moves(proc, proc', {child})
  BY <1>4, <1>9, ReapMoves DEF Memories
<1>11. /\ IsSeq(mem') /\ Len(mem') = Len(mem) /\ mem'[p] = m2
       /\ \A q \in 1 .. Len(proc) : q # p => mem'[q] = mem[q]
  BY <1>1, <1>4, MemReplaced DEF Memories
<1>12. Len(proc) \in Nat \ {0} /\ Len(mem) = Len(proc)
  BY DEF Memories, Processes
<1>13. Known(m2, p, proc')
  <2>1. OwnStages(m2, p, proc')
    <3>1. OwnStages(m2, p, proc)
      BY <1>5, <1>6 DEF OwnStages
    <3>2. \A c \in 1 .. Len(proc) : proc'[c].parent = proc[c].parent
      BY <1>10 DEF Moves
    <3> QED
      BY ONLY <1>10, <3>1, <3>2 DEF OwnStages
  <2>2. CASE m0.i < n
    <3>1. m2.pc = "wait" /\ m2.i = m0.i + 1 /\ m2.i \in 1 .. Len(m2.pipe_pids)
      BY <1>5, <1>6, <2>2 DEF n
    <3>2. m2.cur_childs = Stages(m2, m2.i, Len(m2.pipe_pids))
      BY <1>5, <1>8, <3>1 DEF Stages, n
    <3>3. ASSUME NEW j \in 1 .. m2.i - 1
          PROVE  proc'[m2.pipe_pids[j]].state = "reaped"
      <4>1. j \in 1 .. n /\ (j = m0.i \/ j \in 1 .. m0.i - 1)
        BY <1>6, <3>1
      <4>2. m0.pipe_pids[j] \in 1 .. Len(proc)
        BY <1>6, <4>1 DEF OwnStages, n
      <4> QED
        BY <1>5, <1>6, <1>10, <4>1, <4>2 DEF Moves
    <3> QED
      BY <1>5, <2>1, <3>1, <3>2, <3>3 DEF Known, Idle, Working, Forking
  <2>3. CASE ~(m0.i < n)
    <3>1. m2.pc = "next" /\ m2.cur_childs = {}
      BY <1>5, <1>6, <1>8, <2>3 DEF Stages
    <3> QED
      BY <1>5, <3>1 DEF Known, Idle, Working, Forking
  <2> QED
    BY <2>2, <2>3
<1>14. ASSUME p = Main
       PROVE  Accounted(m2, proc')
  <2>1. Accounted(m0, proc)
    BY <1>1, <1>14
  <2>2. child \notin m0.subprocesses_
    BY <1>2, <1>6, <2>1 DEF Accounted, n
  <2>3. Outstanding(m2) = Outstanding(m0) \ {child}
    BY <1>1, <1>5, <2>2 DEF Outstanding, Erased
  <2>4. \A c \in 1 .. Len(proc') :
          proc'[c].parent = Main => (proc'[c].state = "reaped" <=> c \notin Outstanding(m2))
    BY <1>10, <2>1, <2>3 DEF Accounted, Moves
  <2> QED
    BY <1>2, <1>5, <1>10, <2>1, <2>4 DEF Accounted
<1>15. /\ \A c \in 1 .. Len(proc) : c \in {child} => proc[c].parent = p
       /\ \A c \in Len(proc) + 1 .. Len(proc') :
            proc'[c].parent = p /\ (proc'[c].state = "shell" => Known(mem'[c], c, proc'))
  BY <1>7, <1>10, <1>12
<1> QED
  BY ONLY Memories, <1>1, <1>10, <1>11, <1>12, <1>13, <1>14, <1>15, OwnStep

(* Background jobs that have ended are waited for and forgotten.           *)
LEMMA NextCallKeeps ==
  ASSUME Memories, NEW p, NextCall(p)
  PROVE  Memories'
<1> DEFINE m == mem[p]
           idx == IF m.idx <= Len(m.line) THEN m.idx + 1 ELSE m.idx
           m2 == [m EXCEPT
                  !.subprocesses_ = Remaining(p), !.idx = idx,
                  !.prev_op = IF m.idx <= Len(m.line) THEN m.line[m.idx].type ELSE @,
                  !.pc = IF idx <= Len(m.line) THEN "call"
                         ELSE IF p = Main THEN "getline" ELSE "exit"]
           ps == Watched(p)
<1>1. /\ p \in 1 .. Len(proc) /\ m.pc = "next" /\ Known(m, p, proc) /\ proc[p].state = "shell"
      /\ p = Main => Accounted(m, proc)
  BY Here DEF NextCall
<1>2. proc' = Reaped(ps) /\ mem' = [mem EXCEPT ![p] = m2]
  BY DEF NextCall
<1>3. Fields \subseteq DOMAIN m /\ m.cur_childs = {}
  BY <1>1 DEF Known, Idle
<1>4. /\ Fields \subseteq DOMAIN m2 /\ m2.cur_childs = {} /\ m2.subprocesses_ = m.subprocesses_ \ ps
      /\ m2.pc \in {"call", "getline", "exit"}
  BY <1>3 DEF Fields, Remaining
<1>5. \A c \in ps : c \in m.subprocesses_ /\ proc[c].parent = p /\ proc[c].state = "ended"
  BY DEF Watched
<1> HIDE DEF m2, m, ps
<1>6. Main \notin ps
  BY <1>1, <1>5 DEF Memories, Processes, Main
<1>7. Processes(proc') /\ Len(proc') = Len(proc) /\ Moves(proc, proc', ps)
  BY <1>2, <1>6, ReapMoves DEF Memories
<1>8. /\ IsSeq(mem') /\ Len(mem') = Len(mem) /\ mem'[p] = m2
      /\ \A q \in 1 .. Len(proc) : q # p => mem'[q] = mem[q]
  BY <1>1, <1>2, MemReplaced DEF Memories
<1>9. Len(proc) \in Nat \ {0} /\ Len(mem) = Len(proc)
  BY DEF Memories, Processes
<1>10. Known(m2, p, proc')
  BY <1>4 DEF Known, Idle, Working, Forking
<1>11. ASSUME p = Main
       PROVE  Accounted(m2, proc')
  <2>1. Accounted(m, proc)
    BY <1>1, <1>11
  <2>2. Outstanding(m2) = Outstanding(m) \ ps
    BY <1>1, <1>3, <1>4 DEF Outstanding
  <2>3. m2.subprocesses_ \subseteq 1 .. Len(proc') /\ m2.pc \notin Working
    BY <1>4, <1>7, <2>1 DEF Accounted, Working, Forking
  <2>4. \A c \in 1 .. Len(proc') :
          proc'[c].parent = Main => (proc'[c].state = "reaped" <=> c \notin Outstanding(m2))
    BY <1>7, <2>1, <2>2 DEF Accounted, Moves
  <2> QED
    BY <2>3, <2>4 DEF Accounted
<1>12. /\ \A c \in 1 .. Len(proc) : c \in ps => proc[c].parent = p
       /\ \A c \in Len(proc) + 1 .. Len(proc') :
            proc'[c].parent = p /\ (proc'[c].state = "shell" => Known(mem'[c], c, proc'))
  BY <1>5, <1>7, <1>9
<1> QED
  BY ONLY Memories, <1>1, <1>7, <1>8, <1>9, <1>10, <1>11, <1>12, OwnStep

(* A line is taken, and perhaps given to a copy of the shell.              *)
LEMMA GetlineKeeps ==
  ASSUME Memories, Getline
  PROVE  Memories'
<1> DEFINE m0 == mem[Main]
           unread == IF mem[Main].unread > 0 THEN mem[Main].unread ELSE Len(script) - offset
           n == Len(script) - unread + 1
           m == [mem[Main] EXCEPT !.unread = unread - 1, !.line = script[n], !.idx = 1,
                             !.lineno = @ + 1, !.at = 0, !.prev_op = "", !.prev_exit_status_ = 0]
           m2 == [m EXCEPT !.subprocesses_ = @ \cup {NewPid}]
           child == [m EXCEPT !.pc = "call"]
           m3 == [m EXCEPT !.pc = IF script[n] = <<>> THEN @ ELSE "call"]
<1>1. /\ Main \in 1 .. Len(proc) /\ m0.pc = "getline" /\ Known(m0, Main, proc)
      /\ proc[Main].state = "shell" /\ Accounted(m0, proc)
  BY Here DEF Getline
<1>2. \/ Fork(Main, "shell", m2, child)
      \/ mem' = [mem EXCEPT ![Main] = m3] /\ proc' = proc
  BY DEF Getline
<1>3. Fields \subseteq DOMAIN m0 /\ m0.cur_childs = {}
  BY <1>1 DEF Known, Idle
<1>4. /\ Fields \subseteq DOMAIN m /\ m.cur_childs = {} /\ m.pc = "getline"
      /\ m.subprocesses_ = m0.subprocesses_
  BY <1>1, <1>3 DEF Fields
<1> HIDE DEF m, m0
<1>5. /\ Fields \subseteq DOMAIN m2 /\ m2.cur_childs = {} /\ m2.pc = "getline"
      /\ m2.subprocesses_ = m0.subprocesses_ \cup {NewPid}
  BY <1>4 DEF Fields
<1>6. Fields \subseteq DOMAIN child /\ child.cur_childs = {} /\ child.pc = "call"
  BY <1>4 DEF Fields
<1>7. /\ Fields \subseteq DOMAIN m3 /\ m3.cur_childs = {} /\ m3.pc \in {"getline", "call"}
      /\ m3.subprocesses_ = m0.subprocesses_
  BY <1>4 DEF Fields
<1> HIDE DEF m2, m3, child
<1>8. Len(proc) \in Nat \ {0} /\ Len(mem) = Len(proc)
  BY DEF Memories, Processes
<1>9. CASE Fork(Main, "shell", m2, child)
  <2>1. /\ Processes(proc') /\ Len(proc') = NewPid /\ Moves(proc, proc', {})
        /\ NewPid = Len(proc) + 1
        /\ proc'[NewPid].parent = Main /\ proc'[NewPid].state = "shell"
        /\ \A c \in 1 .. Len(proc) : proc'[c] = proc[c]
        /\ IsSeq(mem') /\ Len(mem') = NewPid
        /\ mem'[Main] = m2 /\ mem'[NewPid] = child
        /\ \A q \in 1 .. Len(proc) : q # Main => mem'[q] = mem[q]
    BY ONLY Memories, <1>1, <1>9, ForkMoves DEF Memories
  <2>2. Known(m2, Main, proc') /\ Known(child, NewPid, proc')
    BY <1>5, <1>6 DEF Known, Idle, Working, Forking
  <2>3. Accounted(m2, proc')
    <3>1. Outstanding(m2) = Outstanding(m0) \cup {NewPid} /\ m2.pc \notin Working
      BY <1>1, <1>3, <1>5 DEF Outstanding, Working, Forking
    <3>2. Outstanding(m0) \subseteq 1 .. Len(proc) /\ m2.subprocesses_ \subseteq 1 .. Len(proc')
      BY <1>1, <1>3, <1>5, <1>8, <2>1 DEF Outstanding, Accounted
    <3>3. \A c \in 1 .. Len(proc') :
            proc'[c].parent = Main => (proc'[c].state = "reaped" <=> c \notin Outstanding(m2))
      BY <1>1, <1>8, <2>1, <3>1, <3>2 DEF Accounted
    <3> QED
      BY <3>1, <3>2, <3>3 DEF Accounted
  <2>4. /\ \A c \in 1 .. Len(proc) : c \in {} => proc[c].parent = Main
        /\ \A c \in Len(proc) + 1 .. Len(proc') :
             proc'[c].parent = Main /\ (proc'[c].state = "shell" => Known(mem'[c], c, proc'))
    BY <1>8, <2>1, <2>2
  <2> QED
    BY ONLY Memories, <1>1, <2>1, <2>2, <2>3, <2>4, OwnStep
<1>10. CASE mem' = [mem EXCEPT ![Main] = m3] /\ proc' = proc
  <2>1. /\ IsSeq(mem') /\ Len(mem') = Len(mem) /\ mem'[Main] = m3
        /\ \A q \in 1 .. Len(proc) : q # Main => mem'[q] = mem[q]
    BY <1>1, <1>10, MemReplaced DEF Memories
  <2>2. Known(m3, Main, proc)
    BY <1>7 DEF Known, Idle, Working, Forking
  <2>3. Outstanding(m3) = Outstanding(m0) /\ m3.pc \notin Working
    BY <1>1, <1>3, <1>7 DEF Outstanding, Working, Forking
  <2>4. Accounted(m3, proc)
    BY <1>1, <1>7, <2>3 DEF Accounted
  <2>5. \A q \in 1 .. Len(proc) : proc[q].state = "shell" => Known(mem'[q], q, proc)
    BY <2>1, <2>2 DEF Memories
  <2> QED
    BY <1>10, <2>1, <2>4, <2>5 DEF Memories
<1> QED
  BY <1>2, <1>9, <1>10

(* A step after which every copy of the shell remembers what it did.       *)
LEMMA OutsideStep ==
  ASSUME Memories, NEW ps, Processes(proc'), Len(proc') = Len(proc), Moves(proc, proc', ps),
         IsSeq(mem'), Len(mem') = Len(mem),
         \A q \in 1 .. Len(proc) : proc'[q].state = "shell" => mem'[q] = mem[q],
         ps = {} \/ proc'[Main].state # "shell"
  PROVE  Memories'
<1>1. Len(proc) \in Nat \ {0} /\ Main \in 1 .. Len(proc)
  BY DEF Memories, Processes, Main
<1>2. ASSUME NEW q \in 1 .. Len(proc'), proc'[q].state = "shell"
      PROVE  Known(mem'[q], q, proc')
  <2>1. proc[q].state = "shell" /\ mem'[q] = mem[q]
    BY <1>2 DEF Moves
  <2>2. Known(mem[q], q, proc)
    BY <1>2, <2>1 DEF Memories
  <2> QED
    BY <1>1, <2>1, <2>2, KnownLater
<1>3. ASSUME proc'[Main].state = "shell"
      PROVE  Accounted(mem'[Main], proc')
  <2>1. proc[Main].state = "shell" /\ mem'[Main] = mem[Main] /\ ps = {}
    BY <1>1, <1>3 DEF Moves
  <2>2. Accounted(mem[Main], proc)
    BY <2>1 DEF Memories
  <2> QED
    BY <1>1, <2>1, <2>2 DEF Accounted, Moves
<1> QED
  BY <1>2, <1>3 DEF Memories

(* Processes end, and none of them had been waited for.                    *)
LEMMA EndStep ==
  ASSUME Memories, NEW ps, NEW status, EndProcesses(ps, status),
         \A c \in ps \cap (1 .. Len(proc)) : proc[c].state # "reaped",
         mem' = mem \/ \E c \in ps \cap (1 .. Len(proc)) : mem' = [mem EXCEPT ![c] = NoMemory]
  PROVE  Memories'
<1>1. /\ Processes(proc') /\ Len(proc') = Len(proc) /\ Moves(proc, proc', {})
      /\ \A c \in 1 .. Len(proc) : proc'[c].state = IF c \in ps THEN "ended" ELSE proc[c].state
  BY EndMoves DEF Memories
<1>2. CASE mem' = mem
  BY <1>1, <1>2, OutsideStep DEF Memories
<1>3. ASSUME NEW c \in ps \cap (1 .. Len(proc)), mem' = [mem EXCEPT ![c] = NoMemory]
      PROVE  Memories'
  <2>1. c \in 1 .. Len(proc) /\ proc'[c].state = "ended"
    BY <1>1
  <2>2. /\ IsSeq(mem') /\ Len(mem') = Len(mem) /\ mem'[c] = NoMemory
        /\ \A q \in 1 .. Len(proc) : q # c => mem'[q] = mem[q]
    BY <1>3, <2>1, MemReplaced DEF Memories
  <2>3. \A q \in 1 .. Len(proc) : proc'[q].state = "shell" => mem'[q] = mem[q]
    BY <2>1, <2>2
  <2> QED
    BY ONLY Memories, <1>1, <2>2, <2>3, OutsideStep
<1> QED
  BY <1>2, <1>3

(* A copy of the shell ends; nobody had waited for it yet. *)
LEMMA ExitSubprocessKeeps ==
  ASSUME Memories, NEW p, ExitSubprocess(p)
  PROVE  Memories'
<1>1. p \in 1 .. Len(proc) /\ proc[p].state = "shell"
  BY Here DEF ExitSubprocess
<1>2. EndProcesses({p}, WEXITSTATUS(mem[p].prev_exit_status_)) /\ mem' = mem
  BY DEF ExitSubprocess
<1> QED
  BY <1>1, <1>2, EndStep

(* A program ends. *)
LEMMA ExitKeeps ==
  ASSUME Memories, NEW p, Exit(p)
  PROVE  Memories'
<1>1. proc[p].state = "runs" /\ mem' = mem
  BY DEF Exit, Runs
<1>2. PICK status \in Statuses : EndProcesses({p}, status)
  BY DEF Exit
<1> QED
  BY <1>1, <1>2, EndStep

(* SIGINT ends running commands, which have yet to be waited for. *)
LEMMA handlerKeeps ==
  ASSUME Memories, handler
  PROVE  Memories'
<1>1. EndProcesses(Interrupted, Killed) /\ mem' = mem
  BY DEF handler
<1>2. \A c \in Interrupted : proc[c].state # "reaped"
  BY DEF Interrupted
<1> QED
  BY <1>1, <1>2, EndStep

(* A step of a program that changes only what the kernel knows of it.      *)
LEMMA ProgramMove ==
  ASSUME Memories, NEW c \in 1 .. Len(proc), proc[c].state \in {"forked", "runs"},
         DOMAIN proc' = DOMAIN proc, proc' = [q \in DOMAIN proc |-> proc'[q]],
         \A q \in DOMAIN proc : q # c => proc'[q] = proc[q],
         {"state", "parent"} \subseteq DOMAIN proc'[c],
         proc'[c].parent = proc[c].parent, proc'[c].state = "runs",
         mem' = mem \/ mem' = [mem EXCEPT ![c] = NoMemory]
  PROVE  Memories'
<1>1. DOMAIN proc = 1 .. Len(proc) /\ Len(proc) \in Nat \ {0} /\ c # Main
  BY SeqFacts DEF Memories, Processes
<1>2. /\ DOMAIN proc' = 1 .. Len(proc)
      /\ \A q \in 1 .. Len(proc) : q # c => proc'[q] = proc[q]
      /\ proc' = [q \in 1 .. Len(proc) |-> proc'[q]]
  BY <1>1
<1>3. \A q \in 1 .. Len(proc) :
        /\ {"state", "parent"} \subseteq DOMAIN proc'[q]
        /\ proc'[q].parent = proc[q].parent
        /\ IF q \in {} THEN proc'[q].state = "reaped"
           ELSE proc'[q].state = proc[q].state
                  \/ (proc[q].state # "reaped" /\ proc'[q].state \in {"ended", "runs"})
        /\ q = Main => proc'[q].state \in {proc[q].state, "ended"}
  BY <1>1, <1>2 DEF Memories, Processes
<1>4. Processes(proc)
  BY DEF Memories
<1>5. Processes(proc') /\ Len(proc') = Len(proc) /\ Moves(proc, proc', {})
  BY ONLY <1>2, <1>3, <1>4, Main \notin {}, Changed, Zenon
<1>6. CASE mem' = mem
  BY ONLY Memories, <1>5, <1>6, OutsideStep DEF Memories
<1>7. CASE mem' = [mem EXCEPT ![c] = NoMemory]
  <2>1. /\ IsSeq(mem') /\ Len(mem') = Len(mem)
        /\ \A q \in 1 .. Len(proc) : q # c => mem'[q] = mem[q]
    BY <1>7, MemReplaced DEF Memories
  <2>2. \A q \in 1 .. Len(proc) : proc'[q].state = "shell" => mem'[q] = mem[q]
    BY <1>2, <2>1
  <2> QED
    BY ONLY Memories, <1>5, <2>1, <2>2, OutsideStep
<1> QED
  BY <1>6, <1>7

(* The copy becomes a program, or ends. *)
LEMMA ExecKeeps ==
  ASSUME Memories, NEW c, Exec(c)
  PROVE  Memories'
<1> DEFINE name == mem[c].line[mem[c].at].lexem
<1>1. DOMAIN proc = 1 .. Len(proc) /\ Processes(proc)
  BY SeqFacts DEF Memories, Processes
<1>2. c \in 1 .. Len(proc) /\ proc[c].state = "forked" /\ mem' = [mem EXCEPT ![c] = NoMemory]
  BY <1>1 DEF Exec
<1>3. CASE name \in DOMAIN Output
  <2>1. proc' = [proc EXCEPT ![c].state = "runs", ![c].name = name, ![c].left = Output[name],
                             ![c].fds = Dup(@, mem[c].fd)]
    BY <1>3 DEF Exec
  <2>2. /\ DOMAIN proc' = DOMAIN proc /\ proc' = [q \in DOMAIN proc |-> proc'[q]]
        /\ \A q \in DOMAIN proc : q # c => proc'[q] = proc[q]
    BY <2>1
  <2>3. {"state", "parent"} \subseteq DOMAIN proc[c]
    BY <1>1, <1>2 DEF Processes
  <2>4. /\ {"state", "parent"} \subseteq DOMAIN proc'[c]
        /\ proc'[c].parent = proc[c].parent /\ proc'[c].state = "runs"
    BY <1>1, <1>2, <2>1, <2>3
  <2> QED
    BY <1>2, <2>2, <2>4, ProgramMove
<1>4. CASE name \notin DOMAIN Output
  <2>1. EndProcesses({c}, EXIT_FAILURE)
    BY <1>4 DEF Exec
  <2> QED
    BY <1>2, <2>1, EndStep
<1> QED
  BY <1>3, <1>4

(* A program writes, or is killed by SIGPIPE. *)
LEMMA WriteKeeps ==
  ASSUME Memories, NEW c, Write(c)
  PROVE  Memories'
<1>1. DOMAIN proc = 1 .. Len(proc) /\ Processes(proc)
  BY SeqFacts DEF Memories, Processes
<1>2. c \in 1 .. Len(proc) /\ proc[c].state = "runs" /\ mem' = mem
  BY <1>1 DEF Write, Runs
<1>3. CASE EndProcesses({c}, Killed)
  BY <1>2, <1>3, EndStep
<1>4. CASE proc' = [proc EXCEPT ![c].left = @ - 1]
  <2>1. /\ DOMAIN proc' = DOMAIN proc /\ proc' = [q \in DOMAIN proc |-> proc'[q]]
        /\ \A q \in DOMAIN proc : q # c => proc'[q] = proc[q]
    BY <1>4
  <2>2. {"state", "parent"} \subseteq DOMAIN proc[c]
    BY <1>1, <1>2 DEF Processes
  <2>3. /\ {"state", "parent"} \subseteq DOMAIN proc'[c]
        /\ proc'[c].parent = proc[c].parent /\ proc'[c].state = "runs"
    BY <1>1, <1>2, <1>4, <2>2
  <2> QED
    BY <1>2, <2>1, <2>3, ProgramMove
<1> QED
  BY <1>3, <1>4 DEF Write

(* Nothing of it changes. *)
LEMMA StillKeeps ==
  ASSUME Memories, proc' = proc, mem' = mem
  PROVE  Memories'
BY DEF Memories

(* The shell leaves its loop. *)
LEMMA EndOfInputKeeps ==
  ASSUME Memories, EndOfInput
  PROVE  Memories'
<1> DEFINE m == [mem[Main] EXCEPT !.pc = "watch"]
<1>1. /\ Main \in 1 .. Len(proc) /\ mem[Main].pc = "getline" /\ Known(mem[Main], Main, proc)
      /\ Accounted(mem[Main], proc)
  BY Here DEF EndOfInput
<1>2. proc' = proc /\ mem' = [mem EXCEPT ![Main] = m]
  BY DEF EndOfInput
<1>3. /\ Fields \subseteq DOMAIN m /\ m.pc = "watch"
      /\ m.cur_childs = mem[Main].cur_childs /\ m.subprocesses_ = mem[Main].subprocesses_
  BY <1>1 DEF Known, Fields
<1>4. IsSeq(mem') /\ Len(mem') = Len(mem) /\ mem'[Main] = m /\ \A q \in 1 .. Len(proc) : q # Main => mem'[q] = mem[q]
  BY <1>1, <1>2, MemReplaced DEF Memories
<1> HIDE DEF m
<1>5. Known(m, Main, proc)
  BY <1>1, <1>3 DEF Known, Idle, Working, Forking
<1>6. Outstanding(m) = Outstanding(mem[Main])
  BY <1>1, <1>3 DEF Outstanding
<1>7. Accounted(m, proc)
  BY <1>1, <1>3, <1>6 DEF Accounted, Working, Forking
<1> QED
  BY <1>2, <1>4, <1>5, <1>7 DEF Memories

(* At the end the shell has ended, and need account for nothing.           *)
LEMMA TerminalWatchKeeps ==
  ASSUME Memories, TerminalWatch
  PROVE  Memories'
<1> DEFINE m == [mem[Main] EXCEPT !.subprocesses_ = {}]
           ps == mem[Main].subprocesses_
           pr == Reaped(ps)
<1>1. Main \in 1 .. Len(proc) /\ proc[Main].state = "shell"
  BY Here DEF TerminalWatch
<1>2. /\ \A c \in ps : proc[c].state \in {"ended", "reaped"}
      /\ proc' = [pr EXCEPT ![Main].state = "ended", ![Main].fds = NoFds]
      /\ mem' = [mem EXCEPT ![Main] = m]
  BY DEF TerminalWatch
<1>3. Main \notin ps /\ Processes(proc)
  BY <1>1, <1>2 DEF Memories
<1>4. Processes(pr) /\ Len(pr) = Len(proc) /\ Moves(proc, pr, ps)
  BY <1>3, ReapMoves
<1>5. IsSeq(mem') /\ Len(mem') = Len(mem) /\ \A q \in 1 .. Len(proc) : q # Main => mem'[q] = mem[q]
  BY <1>1, <1>2, MemReplaced DEF Memories
<1> HIDE DEF pr, ps, m
<1>6. DOMAIN pr = 1 .. Len(proc) /\ Len(proc) \in Nat \ {0}
  BY <1>4, SeqFacts DEF Processes
<1>7. {"state", "parent"} \subseteq DOMAIN pr[Main]
  BY <1>1, <1>4 DEF Processes
<1>8. /\ DOMAIN proc' = DOMAIN pr /\ proc' = [q \in DOMAIN pr |-> proc'[q]]
      /\ \A q \in DOMAIN pr : q # Main => proc'[q] = pr[q]
      /\ {"state", "parent"} \subseteq DOMAIN proc'[Main]
      /\ proc'[Main].parent = pr[Main].parent /\ proc'[Main].state = "ended"
  BY <1>1, <1>2, <1>6, <1>7
<1>9. pr[Main].state # "reaped"
  BY <1>1, <1>3, <1>4 DEF Moves
<1>10. \A q \in 1 .. Len(pr) :
         /\ {"state", "parent"} \subseteq DOMAIN proc'[q]
         /\ proc'[q].parent = pr[q].parent
         /\ IF q \in {} THEN proc'[q].state = "reaped"
            ELSE proc'[q].state = pr[q].state
                   \/ (pr[q].state # "reaped" /\ proc'[q].state \in {"ended", "runs"})
         /\ q = Main => proc'[q].state \in {pr[q].state, "ended"}
  BY <1>4, <1>6, <1>8, <1>9 DEF Processes
<1>11. DOMAIN proc' = 1 .. Len(pr) /\ proc' = [q \in 1 .. Len(pr) |-> proc'[q]]
  BY <1>4, <1>6, <1>8
<1>12. Processes(proc') /\ Len(proc') = Len(pr) /\ Moves(pr, proc', {})
  BY ONLY <1>4, <1>10, <1>11, Main \notin {}, Changed, Zenon
<1>13. Moves(proc, proc', ps)
  BY <1>4, <1>12 DEF Moves
<1>14. proc'[Main].state # "shell" /\ \A q \in 1 .. Len(proc) : proc'[q].state = "shell" => mem'[q] = mem[q]
  BY <1>5, <1>8
<1> QED
  BY ONLY Memories, <1>4, <1>5, <1>12, <1>13, <1>14, OutsideStep

(* The invariant holds of the shell before its first line. *)
LEMMA MemoriesInit ==
  Init => Memories
<1> SUFFICES ASSUME Init PROVE Memories
  OBVIOUS
<1> DEFINE r == [state |-> "shell", parent |-> 0, name |-> "shell", at |-> 0, lineno |-> 0, left |-> 0,
               status |-> 0, fds |-> [n \in 0 .. 2 |-> IF n = 0 THEN <<"script">> ELSE <<"out">>]]
<1>1. proc = <<r>> /\ mem = <<NoMemory>>
  BY DEF Init
<1>2. {"state", "parent"} \subseteq DOMAIN r /\ r.state = "shell" /\ r.parent = 0
  OBVIOUS
<1> HIDE DEF r
<1>3. IsSeq(proc) /\ Len(proc) = 1 /\ proc[1] = r
  BY <1>1, OneSeq
<1>4. IsSeq(mem) /\ Len(mem) = 1 /\ mem[1] = NoMemory
  BY <1>1, OneSeq
<1>5. Processes(proc)
  BY <1>2, <1>3 DEF Processes, Main
<1>6. Known(NoMemory, 1, proc)
  BY DEF Known, NoMemory, Fields, Idle, Working, Forking
<1>7. Accounted(NoMemory, proc)
  BY <1>2, <1>3 DEF Accounted, NoMemory, Outstanding, Working, Forking, Main
<1> QED
  BY <1>3, <1>4, <1>5, <1>6, <1>7 DEF Memories, Main

(* Every step keeps it. *)
LEMMA MemoriesNext ==
  ASSUME Memories, [Next]_vars
  PROVE  Memories'
<1>1. CASE UNCHANGED vars
  BY <1>1, StillKeeps DEF vars
<1>2. CASE Getline \/ EndOfInput \/ TerminalWatch \/ handler
  BY <1>2, GetlineKeeps, EndOfInputKeeps, TerminalWatchKeeps, handlerKeeps
<1>3. ASSUME NEW p, ShellStep(p)
      PROVE  Memories'
  BY <1>3, StartCallKeeps, MakePipeKeeps, SkipStageKeeps, ForkCommandKeeps, InsertKeeps, WaitpidKeeps,
     NextCallKeeps, ExitSubprocessKeeps DEF ShellStep
<1>4. ASSUME NEW c, ProgramStep(c)
      PROVE  Memories'
  <2>1. Read(c) => proc' = proc /\ mem' = mem
    BY DEF Read
  <2> QED
    BY <1>4, <2>1, ExecKeeps, WriteKeeps, ExitKeeps, StillKeeps DEF ProgramStep
<1> QED
  BY <1>1, <1>2, <1>3, <1>4 DEF Next

-----------------------------------------------------------------------------
(* Which lines have been taken, when no process can give any back: none,   *)
(* or those before the ones that are unread in the shell's buffer.         *)

Untaken == offset = 0 /\ mem[Main].unread = 0 /\ \A n \in 1 .. Len(script) : taken[n] = 0

TakenInOrder ==
  /\ offset = Len(script)
  /\ \A n \in 1 .. Len(script) : taken[n] = IF n <= Len(script) - mem[Main].unread THEN 1 ELSE 0

InputRead ==
  /\ script \in Scripts /\ DOMAIN taken = 1 .. Len(script)
  /\ mem[Main].unread \in 0 .. Len(script)
  /\ Untaken \/ TakenInOrder

(* A script is a sequence. *)
LEMMA ScriptLen ==
  ASSUME script \in Scripts
  PROVE  Len(script) \in Nat /\ DOMAIN script = 1 .. Len(script)
BY ConstantsAssumption, SeqFacts DEF IsSeq

(* Nothing has been taken at first. *)
LEMMA InputInit ==
  Init => InputRead
<1> SUFFICES ASSUME Init PROVE InputRead
  OBVIOUS
<1>1. script \in Scripts /\ offset = 0 /\ mem[Main] = NoMemory /\ taken = [n \in DOMAIN script |-> 0]
  BY DEF Init, Main
<1>2. Len(script) \in Nat /\ DOMAIN script = 1 .. Len(script)
  BY <1>1, ScriptLen
<1>3. mem[Main].unread = 0
  <2>1. NoMemory.unread = 0
    BY DEF NoMemory
  <2> QED
    BY <1>1, <2>1
<1> QED
  BY <1>1, <1>2, <1>3 DEF InputRead, Untaken

(* Nothing is taken. *)
LEMMA InputStill ==
  ASSUME InputRead, UNCHANGED input, mem'[Main].unread = mem[Main].unread
  PROVE  InputRead'
BY DEF InputRead, Untaken, TakenInOrder, input

(* A line is taken that was not taken before. *)
LEMMA InputGetline ==
  ASSUME Memories, InputRead, Getline
  PROVE  InputRead'
<1> DEFINE m0 == mem[Main]
           unread == IF mem[Main].unread > 0 THEN mem[Main].unread ELSE Len(script) - offset
           n == Len(script) - unread + 1
           m == [mem[Main] EXCEPT !.unread = unread - 1, !.line = script[n], !.idx = 1,
                             !.lineno = @ + 1, !.at = 0, !.prev_op = "", !.prev_exit_status_ = 0]
           m2 == [m EXCEPT !.subprocesses_ = @ \cup {NewPid}]
           child == [m EXCEPT !.pc = "call"]
           m3 == [m EXCEPT !.pc = IF script[n] = <<>> THEN @ ELSE "call"]
           L == Len(script)
<1>1. Main \in 1 .. Len(proc) /\ Known(m0, Main, proc)
  BY Here DEF Getline
<1>2. \/ Fork(Main, "shell", m2, child)
      \/ mem' = [mem EXCEPT ![Main] = m3] /\ proc' = proc
  BY DEF Getline
<1>3. /\ unread > 0 /\ offset' = IF mem[Main].unread > 0 THEN offset ELSE L
      /\ taken' = [taken EXCEPT ![n] = @ + 1] /\ script' = script
  BY DEF Getline
<1>4. m2.unread = unread - 1 /\ m3.unread = unread - 1
  BY <1>1 DEF Known, Fields
<1> HIDE DEF m2, m3, child
<1>5. mem'[Main].unread = unread - 1
  <2>1. CASE Fork(Main, "shell", m2, child)
    <3>1. mem'[Main] = m2
      BY ONLY Memories, <1>1, <2>1, ForkMoves DEF Memories
    <3> QED
      BY <1>4, <3>1
  <2>2. CASE mem' = [mem EXCEPT ![Main] = m3]
    <3>1. mem'[Main] = m3
      BY <1>1, <2>2, MemReplaced DEF Memories
    <3> QED
      BY <1>4, <3>1
  <2> QED
    BY <1>2, <2>1, <2>2
<1>6. L \in Nat /\ DOMAIN taken = 1 .. L /\ m0.unread \in 0 .. L
  BY ScriptLen DEF InputRead
<1>7. CASE m0.unread > 0
  <2>1. unread = m0.unread /\ offset' = L /\ n \in 1 .. L
    BY <1>3, <1>6, <1>7 DEF InputRead, Untaken, TakenInOrder
  <2>2. \A k \in 1 .. L : taken[k] = IF k <= L - m0.unread THEN 1 ELSE 0
    BY <1>6, <1>7 DEF InputRead, Untaken, TakenInOrder
  <2>3. \A k \in 1 .. L : taken'[k] = IF k <= L - (unread - 1) THEN 1 ELSE 0
    BY <1>3, <1>6, <2>1, <2>2
  <2> QED
    BY <1>3, <1>5, <1>6, <2>1, <2>3 DEF InputRead, TakenInOrder
<1>8. CASE ~(m0.unread > 0)
  <2>1. m0.unread = 0 /\ offset # L /\ unread = L - offset /\ offset' = L
    BY <1>3, <1>6, <1>8 DEF InputRead, Untaken, TakenInOrder
  <2>2. offset = 0 /\ \A k \in 1 .. L : taken[k] = 0
    BY <2>1 DEF InputRead, Untaken, TakenInOrder
  <2>3. unread = L /\ n = 1 /\ n \in 1 .. L
    BY <1>3, <1>6, <2>1, <2>2
  <2>4. \A k \in 1 .. L : taken'[k] = IF k <= L - (unread - 1) THEN 1 ELSE 0
    BY <1>3, <1>6, <2>2, <2>3
  <2> QED
    BY <1>3, <1>5, <1>6, <2>1, <2>3, <2>4 DEF InputRead, TakenInOrder
<1> QED
  BY <1>7, <1>8

(* The other steps leave the shell's buffer alone, and its jobs.           *)
UnreadKept == mem'[Main].unread = mem[Main].unread

JobsKept ==
  \A q \in 1 .. Len(proc) : proc[q].state = "shell" => mem'[q].subprocesses_ = mem[q].subprocesses_

(* Memory of p is replaced by one with the same buffer.                    *)
LEMMA UnreadReplaced ==
  ASSUME Memories, NEW p \in 1 .. Len(proc), NEW m, m.unread = mem[p].unread,
         mem' = [mem EXCEPT ![p] = m]
  PROVE  UnreadKept /\ (m.subprocesses_ = mem[p].subprocesses_ => JobsKept)
<1>1. Main \in 1 .. Len(proc)
  BY DEF Memories, Processes, Main
<1>2. mem'[p] = m /\ \A q \in 1 .. Len(proc) : q # p => mem'[q] = mem[q]
  BY MemReplaced DEF Memories
<1> QED
  BY <1>1, <1>2 DEF UnreadKept, JobsKept

(* Working off a line does not touch the buffer. *)
LEMMA UnreadShell ==
  ASSUME Memories, NEW p, ShellStep(p)
  PROVE  UnreadKept /\ (NextCall(p) \/ JobsKept)
<1>1. ASSUME NEW pc, At(p, pc)
      PROVE  p \in 1 .. Len(proc) /\ Fields \subseteq DOMAIN mem[p]
  BY <1>1, Here DEF Known
<1>3. ASSUME NEW m, p \in 1 .. Len(proc), NextStage(p, m), Fields \subseteq DOMAIN m, m.unread = mem[p].unread,
             m.subprocesses_ = mem[p].subprocesses_
      PROVE  UnreadKept /\ JobsKept
  <2> DEFINE c == Call(m.line, m.idx + 1, m.prev_readfd_, closeFd(proc[p].fds, m.fd))
             m2 == [m EXCEPT
                  !.at = m.idx + 1, !.idx = c.idx, !.fd = c.fd, !.first = FALSE,
                  !.pc = IF TypeAt(m.line, c.idx) = "pipe" THEN "pipe" ELSE "fork"]
  <2>1. mem' = [mem EXCEPT ![p] = m2]
    BY <1>3 DEF NextStage
  <2>2. m2.unread = mem[p].unread /\ m2.subprocesses_ = mem[p].subprocesses_
    BY <1>3 DEF Fields
  <2> HIDE DEF m2
  <2> QED
    BY <1>3, <2>1, <2>2, UnreadReplaced
<1>4. CASE StartCall(p)
  <2> DEFINE m == mem[p]
             c == Call(m.line, m.idx, m.prev_readfd_, proc[p].fds)
             m2 == [m EXCEPT
                  !.at = m.idx, !.idx = c.idx, !.fd = c.fd, !.first = TRUE, !.pipe_pids = <<>>, !.i = 1,
                  !.pc = IF TypeAt(m.line, c.idx) = "pipe" THEN "pipe"
                         ELSE IF m.prev_op \in {"", "and", "or"} /\ ~Skips(m) THEN "fork" ELSE "next"]
  <2>1. p \in 1 .. Len(proc) /\ Fields \subseteq DOMAIN m /\ mem' = [mem EXCEPT ![p] = m2]
    BY <1>1, <1>4 DEF StartCall
  <2>2. m2.unread = mem[p].unread /\ m2.subprocesses_ = mem[p].subprocesses_
    BY <2>1 DEF Fields
  <2> HIDE DEF m2
  <2> QED
    BY <2>1, <2>2, UnreadReplaced
<1>5. CASE MakePipe(p)
  <2> DEFINE m == mem[p]
             fds == Open(proc[p].fds, <<"r", Len(pipes) + 1>>)
             m2 == [m EXCEPT
                  !.prev_readfd_ = FreeFd(proc[p].fds), !.fd.output = FreeFd(fds),
                  !.pc = IF m.first /\ Skips(m) THEN "skip" ELSE "fork"]
  <2>1. p \in 1 .. Len(proc) /\ Fields \subseteq DOMAIN m /\ mem' = [mem EXCEPT ![p] = m2]
    BY <1>1, <1>5 DEF MakePipe
  <2>2. m2.unread = mem[p].unread /\ m2.subprocesses_ = mem[p].subprocesses_
    BY <2>1 DEF Fields
  <2> HIDE DEF m2
  <2> QED
    BY <2>1, <2>2, UnreadReplaced
<1>6. CASE SkipStage(p)
  BY <1>1, <1>3, <1>6 DEF SkipStage
<1>7. CASE ForkCommand(p)
  <2> DEFINE m2 == [mem[p] EXCEPT !.pc = "insert", !.pipe_pids = Append(@, NewPid)]
  <2>1. p \in 1 .. Len(proc) /\ Fields \subseteq DOMAIN mem[p] /\ Fork(p, "forked", m2, mem[p])
    BY <1>1, <1>7 DEF ForkCommand
  <2>2. m2.unread = mem[p].unread /\ m2.subprocesses_ = mem[p].subprocesses_
    BY <2>1 DEF Fields
  <2> HIDE DEF m2
  <2>3. mem'[p] = m2 /\ \A q \in 1 .. Len(proc) : q # p => mem'[q] = mem[q]
    BY ONLY Memories, <2>1, ForkMoves DEF Memories
  <2>4. Main \in 1 .. Len(proc)
    BY DEF Memories, Processes, Main
  <2> QED
    BY <2>2, <2>3, <2>4 DEF UnreadKept, JobsKept
<1>8. CASE Insert(p)
  <2> DEFINE m == [mem[p] EXCEPT !.cur_childs = Inserted(mem[p])]
             m2 == [m EXCEPT !.pc = "wait"]
  <2>1. p \in 1 .. Len(proc) /\ Fields \subseteq DOMAIN mem[p]
    BY <1>1, <1>8 DEF Insert
  <2>2. NextStage(p, m) \/ mem' = [mem EXCEPT ![p] = m2]
    BY <1>8 DEF Insert
  <2>3. /\ Fields \subseteq DOMAIN m /\ m.unread = mem[p].unread /\ m2.unread = mem[p].unread
        /\ m.subprocesses_ = mem[p].subprocesses_ /\ m2.subprocesses_ = mem[p].subprocesses_
    BY <2>1 DEF Fields
  <2> HIDE DEF m, m2
  <2> QED
    BY <1>3, <2>1, <2>2, <2>3, UnreadReplaced
<1>9. CASE Waitpid(p)
  <2> DEFINE m == [mem[p] EXCEPT !.cur_childs = Erased(mem[p])]
             m2 == IF m.i < Len(m.pipe_pids) THEN [m EXCEPT !.i = @ + 1]
                   ELSE [m EXCEPT !.prev_exit_status_ = DecidingStatus(m), !.prev_readfd_ = 0, !.pc = "next"]
  <2>1. p \in 1 .. Len(proc) /\ Fields \subseteq DOMAIN mem[p] /\ mem' = [mem EXCEPT ![p] = m2]
    BY <1>1, <1>9 DEF Waitpid
  <2>2. Fields \subseteq DOMAIN m /\ m.unread = mem[p].unread /\ m.subprocesses_ = mem[p].subprocesses_
    BY <2>1 DEF Fields
  <2> HIDE DEF m
  <2>3. m2.unread = mem[p].unread /\ m2.subprocesses_ = mem[p].subprocesses_
    BY <2>2 DEF Fields
  <2> HIDE DEF m2
  <2> QED
    BY <2>1, <2>3, UnreadReplaced
<1>10. CASE NextCall(p)
  <2> DEFINE m == mem[p]
             idx == IF m.idx <= Len(m.line) THEN m.idx + 1 ELSE m.idx
             m2 == [m EXCEPT
                  !.subprocesses_ = Remaining(p), !.idx = idx,
                  !.prev_op = IF m.idx <= Len(m.line) THEN m.line[m.idx].type ELSE @,
                  !.pc = IF idx <= Len(m.line) THEN "call"
                         ELSE IF p = Main THEN "getline" ELSE "exit"]
  <2>1. p \in 1 .. Len(proc) /\ Fields \subseteq DOMAIN m /\ mem' = [mem EXCEPT ![p] = m2]
    BY <1>1, <1>10 DEF NextCall
  <2>2. m2.unread = mem[p].unread
    BY <2>1 DEF Fields
  <2> HIDE DEF m2
  <2> QED
    BY <1>10, <2>1, <2>2, UnreadReplaced
<1>11. CASE ExitSubprocess(p)
  BY <1>11 DEF ExitSubprocess, UnreadKept, JobsKept
<1> QED
  BY <1>4, <1>5, <1>6, <1>7, <1>8, <1>9, <1>10, <1>11 DEF ShellStep

(* Nor does the end of the shell, a program or a signal. *)
LEMMA UnreadOutside ==
  ASSUME Memories, EndOfInput \/ TerminalWatch \/ handler \/ \E c : ProgramStep(c)
  PROVE  UnreadKept /\ (TerminalWatch \/ JobsKept)
<1>1. CASE TerminalWatch
  <2> DEFINE m == [mem[Main] EXCEPT !.subprocesses_ = {}]
  <2>1. Main \in 1 .. Len(proc) /\ Known(mem[Main], Main, proc) /\ mem' = [mem EXCEPT ![Main] = m]
    BY <1>1, Here DEF TerminalWatch
  <2>2. m.unread = mem[Main].unread
    BY <2>1 DEF Known, Fields
  <2> HIDE DEF m
  <2> QED
    BY <1>1, <2>1, <2>2, UnreadReplaced
<1>2. ASSUME NEW c, Exec(c)
      PROVE  UnreadKept /\ JobsKept
  <2>1. c \in 1 .. Len(proc) /\ proc[c].state = "forked" /\ mem' = [mem EXCEPT ![c] = NoMemory]
    BY <1>2, SeqFacts DEF Exec, Memories, Processes
  <2>2. Main # c /\ Main \in 1 .. Len(proc)
    BY <2>1 DEF Memories, Processes, Main
  <2>3. mem'[Main] = mem[Main] /\ \A q \in 1 .. Len(proc) : q # c => mem'[q] = mem[q]
    BY <2>1, <2>2, MemReplaced DEF Memories
  <2> QED
    BY <2>1, <2>3 DEF UnreadKept, JobsKept
<1>3. ASSUME NEW c, Read(c) \/ Write(c) \/ Exit(c)
      PROVE  UnreadKept /\ JobsKept
  BY <1>3 DEF Read, Write, Exit, UnreadKept, JobsKept
<1>4. CASE handler
  BY <1>4 DEF handler, UnreadKept, JobsKept
<1>5. CASE EndOfInput
  <2> DEFINE m == [mem[Main] EXCEPT !.pc = "watch"]
  <2>1. Main \in 1 .. Len(proc) /\ Known(mem[Main], Main, proc) /\ mem' = [mem EXCEPT ![Main] = m]
    BY <1>5, Here DEF EndOfInput
  <2>2. m.unread = mem[Main].unread /\ m.subprocesses_ = mem[Main].subprocesses_
    BY <2>1 DEF Known, Fields
  <2> HIDE DEF m
  <2> QED
    BY <2>1, <2>2, UnreadReplaced
<1> QED
  BY <1>1, <1>2, <1>3, <1>4, <1>5 DEF ProgramStep

(* Every step keeps what has been taken in order. *)
LEMMA InputNext ==
  ASSUME Memories, InputRead, ~Seekable, [Next]_vars
  PROVE  InputRead'
<1>1. CASE UNCHANGED vars
  BY <1>1, InputStill DEF vars
<1>2. CASE Getline
  BY <1>2, InputGetline
<1>3. CASE EndOfInput \/ TerminalWatch \/ handler
  <2>1. UNCHANGED input
    BY <1>3 DEF EndOfInput, TerminalWatch, handler
  <2> QED
    BY <1>3, <2>1, UnreadOutside, InputStill DEF UnreadKept
<1>4. \A p : GivenBack(p) = offset
  BY DEF GivenBack
<1>5. ASSUME NEW p, ShellStep(p)
      PROVE  InputRead'
  <2>1. UNCHANGED input
    BY <1>4, <1>5 DEF ShellStep, StartCall, MakePipe, SkipStage, ForkCommand, Insert, Waitpid, NextCall,
                      ExitSubprocess, input
  <2> QED
    BY <1>5, <2>1, UnreadShell, InputStill DEF UnreadKept
<1>6. ASSUME NEW c, ProgramStep(c)
      PROVE  InputRead'
  <2>1. UNCHANGED input
    BY <1>4, <1>6 DEF ProgramStep, Exec, Read, Write, Exit, input
  <2> QED
    BY <1>6, <2>1, UnreadOutside, InputStill DEF UnreadKept
<1> QED
  BY <1>1, <1>2, <1>3, <1>5, <1>6 DEF Next

-----------------------------------------------------------------------------
(* The theorems. *)

ShellInv == Memories /\ (~Seekable => InputRead)

(* What the copies of the shell remember of their children is right after  *)
(* every step, wherever SIGINT and the programs come in between; and when  *)
(* the input is no file, lines are taken one after the other.              *)
THEOREM ShellInvariance ==
  Spec => []ShellInv
<1>1. Init => ShellInv
  BY MemoriesInit, InputInit DEF ShellInv
<1>2. ShellInv /\ [Next]_vars => ShellInv'
  BY MemoriesNext, InputNext DEF ShellInv
<1> QED
  BY <1>1, <1>2, PTL DEF Spec

(* The invariant at the prompt. *)
LEMMA InvChildren ==
  ASSUME ShellInv
  PROVE  ChildrenAreWaitedFor
<1> SUFFICES ASSUME At(Main, "getline") PROVE /\ mem[Main].cur_childs = {}
                                             /\ \A c \in Children(Main) :
                                                  proc[c].state = "reaped" <=> c \notin mem[Main].subprocesses_
  BY DEF ChildrenAreWaitedFor
<1>1. Memories
  BY DEF ShellInv
<1>2. mem[Main].pc = "getline" /\ Known(mem[Main], Main, proc) /\ Accounted(mem[Main], proc)
  BY <1>1, Here
<1>3. mem[Main].cur_childs = {}
  BY <1>2 DEF Known, Idle
<1>4. Outstanding(mem[Main]) = mem[Main].subprocesses_
  BY <1>2, <1>3 DEF Outstanding
<1>5. DOMAIN proc = 1 .. Len(proc)
  BY <1>1, SeqFacts DEF Memories, Processes
<1> QED
  BY <1>2, <1>3, <1>4, <1>5 DEF Accounted, Children

(* The prompt finds every command of the lines before waited for, for all  *)
(* lines, programs and signals: runshell.cpp:255-266, 135-143.             *)
THEOREM ChildrenAreReaped ==
  Spec => []ChildrenAreWaitedFor
BY ShellInvariance, InvChildren, PTL

(* A signal in the middle of waitpid reaches the commands of the line that *)
(* still run, and no other process: runshell.cpp:252, 258-261, 305-310.    *)
THEOREM SigintReaches ==
  Spec => SigintEndsTheLine
<1> DEFINE Ends == sigints' # sigints /\ At(Main, "wait") =>
                     \A c \in DOMAIN proc : Runs(c) =>
                       (proc'[c].state = "ended" <=> c \in ToSet(mem[Main].pipe_pids))
<1>1. ASSUME ShellInv, [Next]_vars
      PROVE  Ends
  <2> SUFFICES ASSUME sigints' # sigints, At(Main, "wait"), NEW c \in DOMAIN proc, Runs(c)
               PROVE  proc'[c].state = "ended" <=> c \in ToSet(mem[Main].pipe_pids)
    OBVIOUS
  <2>1. handler
    BY <1>1 DEF Next, vars, Getline, EndOfInput, TerminalWatch, ShellStep, StartCall, MakePipe, SkipStage, ForkCommand,
                Insert, Waitpid, NextCall, ExitSubprocess, ProgramStep, Exec, Read, Write, Exit
  <2>2. Memories
    BY <1>1 DEF ShellInv
  <2>3. EndProcesses(Interrupted, Killed) /\ \A d \in Interrupted : proc[d].state # "reaped"
    BY <2>1 DEF handler, Interrupted
  <2>4. c \in 1 .. Len(proc) /\ proc[c].state = "runs"
    BY <2>2, SeqFacts DEF Memories, Processes, Runs
  <2>5. proc'[c].state = IF c \in Interrupted THEN "ended" ELSE proc[c].state
    BY <2>2, <2>3, <2>4, EndMoves DEF Memories
  <2>6. mem[Main].pc = "wait" /\ Known(mem[Main], Main, proc)
    BY <2>2, Here
  <2> DEFINE m == mem[Main]
  <2>7. /\ IsSeq(m.pipe_pids) /\ m.i \in 1 .. Len(m.pipe_pids)
        /\ m.cur_childs = Stages(m, m.i, Len(m.pipe_pids))
        /\ \A j \in 1 .. m.i - 1 : proc[m.pipe_pids[j]].state = "reaped"
    BY <2>6 DEF Known, OwnStages, Working
  <2>8. DOMAIN m.pipe_pids = 1 .. Len(m.pipe_pids) /\ Len(m.pipe_pids) \in Nat
    BY <2>7, SeqFacts
  <2>9. c \in m.cur_childs <=> c \in ToSet(m.pipe_pids)
    <3>1. ASSUME c \in m.cur_childs
          PROVE  c \in ToSet(m.pipe_pids)
      <4>1. PICK j \in m.i .. Len(m.pipe_pids) : c = m.pipe_pids[j]
        BY <2>7, <3>1 DEF Stages
      <4>2. j \in 1 .. Len(m.pipe_pids)
        BY <2>7, <2>8
      <4> QED
        BY <2>8, <4>1, <4>2 DEF ToSet
    <3>2. ASSUME c \in ToSet(m.pipe_pids)
          PROVE  c \in m.cur_childs
      <4>1. PICK j \in 1 .. Len(m.pipe_pids) : c = m.pipe_pids[j]
        BY <2>8, <3>2 DEF ToSet
      <4>2. j \notin 1 .. m.i - 1
        BY <2>4, <2>7, <4>1
      <4>3. j \in m.i .. Len(m.pipe_pids)
        BY <2>7, <2>8, <4>2
      <4> QED
        BY <2>7, <4>1, <4>3 DEF Stages
    <3> QED
      BY <3>1, <3>2
  <2> QED
    BY <2>4, <2>5, <2>9 DEF Interrupted
<1>2. ShellInv /\ [Next]_vars => [Ends]_vars
  BY <1>1
<1> QED
  BY <1>2, ShellInvariance, PTL DEF Spec, SigintEndsTheLine

(* What was taken in order was taken once. *)
LEMMA InvOnce ==
  ASSUME ShellInv, ~Seekable
  PROVE  LinesRunOnce
<1>1. InputRead /\ script \in Scripts
  BY DEF ShellInv, InputRead
<1> QED
  BY <1>1, ScriptLen DEF InputRead, Untaken, TakenInOrder, LinesRunOnce

(* No line is worked off twice when no exit can give lines back, as when   *)
(* the input is a terminal or a pipe.  The run shell_rereads is the other  *)
(* case: runshell.cpp:316, 326.                                            *)
THEOREM LinesRunOnceFromAPipe ==
  ASSUME ~Seekable
  PROVE  Spec => []LinesRunOnce
<1>1. ShellInv => LinesRunOnce
  BY InvOnce
<1> QED
  BY <1>1, ShellInvariance, PTL
-----------------------------------------------------------------------------
(* Descriptors. *)

(* A set of numbers has a least one. *)
LEMMA LeastNumber ==
  ASSUME NEW T \in SUBSET Nat, T # {}
  PROVE  \E x \in T : \A y \in T : x <= y
<1> DEFINE R == {ss \in Nat \X Nat : ss[1] < ss[2]}
<1>1. IsWellFoundedOn(R, Nat)
  BY NatLessThanWellFounded DEF OpToRel
<1>2. \A x, y \in Nat : x < y => <<x, y>> \in R
  OBVIOUS
<1> HIDE DEF R
<1>3. PICK x \in T : \A y \in T : ~(<<y, x>> \in R)
  BY <1>1, WFMin
<1>4. ASSUME NEW y \in T
      PROVE  x <= y
  <2>1. x \in Nat /\ y \in Nat /\ ~(y < x)
    BY <1>2, <1>3
  <2> QED
    BY <2>1
<1> QED
  BY <1>4

(* The descriptors of a process that lives, 0 to 2 among them.             *)
Table(fds) ==
  IsFiniteSet(DOMAIN fds) /\ DOMAIN fds \subseteq Nat /\ {0, 1, 2} \subseteq DOMAIN fds

(* One is always free. *)
LEMMA FreeFdIs ==
  ASSUME NEW fds, Table(fds)
  PROVE  FreeFd(fds) \in Nat \ {0, 1, 2} /\ FreeFd(fds) \notin DOMAIN fds
<1> DEFINE D == DOMAIN fds
           k == Cardinality(D)
           T == {n \in 0 .. k : n \notin D}
<1>1. IsFiniteSet(D) /\ k \in Nat
  BY FS_CardinalityType DEF Table
<1>2. T # {}
  <2> SUFFICES ASSUME 0 .. k \subseteq D PROVE FALSE
    OBVIOUS
  <2>1. Cardinality(0 .. k) <= k
    BY <1>1, FS_Subset
  <2>2. Cardinality(0 .. k) = k + 1
    <3>1. 0 \in Int /\ k \in Int /\ ~(0 > k)
      BY <1>1
    <3>2. Cardinality(0 .. k) = k - 0 + 1
      BY <3>1, FS_Interval
    <3> QED
      BY <1>1, <3>2
  <2> QED
    BY <1>1, <2>1, <2>2
<1>3. PICK x \in T : \A y \in T : x <= y
  <2>1. T \in SUBSET Nat
    BY <1>1
  <2> HIDE DEF T
  <2> QED
    BY <1>2, <2>1, LeastNumber
<1>4. x \in 0 .. k /\ x \notin D /\ \A m \in 0 .. x - 1 : m \in D
  <2>1. ASSUME NEW m \in 0 .. x - 1, m \notin D
        PROVE  FALSE
    BY <1>1, <1>3, <2>1
  <2> QED
    BY <1>3, <2>1
<1>5. FreeFd(fds) \in 0 .. k /\ FreeFd(fds) \notin D
  BY <1>4 DEF FreeFd
<1> QED
  BY <1>1, <1>5 DEF Table

(* open and pipe. *)
LEMMA OpenFd ==
  ASSUME NEW fds, Table(fds), NEW end, NEW t, t = Open(fds, end)
  PROVE  /\ Table(t) /\ \A n : n \in DOMAIN t <=> n \in DOMAIN fds \/ n = FreeFd(fds)
         /\ t[FreeFd(fds)] = end /\ \A n \in DOMAIN fds : t[n] = fds[n]
<1>1. FreeFd(fds) \in Nat \ {0, 1, 2} /\ FreeFd(fds) \notin DOMAIN fds
  BY FreeFdIs
<1>2. /\ DOMAIN t = DOMAIN fds \cup {FreeFd(fds)} /\ t[FreeFd(fds)] = end
      /\ \A n \in DOMAIN fds : t[n] = fds[n]
  BY <1>1 DEF Open
<1>3. IsFiniteSet(DOMAIN fds \cup {FreeFd(fds)})
  BY FS_AddElement DEF Table
<1> QED
  BY <1>1, <1>2, <1>3 DEF Table

(* What may be put in the place of 0 and 1.                                *)
Fits(fd) ==
  DOMAIN fd = {"input", "output"} /\ fd.input \in Nat \ {1, 2} /\ fd.output \in Nat \ {0, 2}

(* close leaves 0 to 2. *)
LEMMA CloseFd ==
  ASSUME NEW fds, Table(fds), NEW fd, Fits(fd), NEW t, t = closeFd(fds, fd)
  PROVE  /\ Table(t) /\ \A n \in DOMAIN t : t[n] = fds[n]
         /\ \A n : n \in DOMAIN t <=> n \in DOMAIN fds /\ (n = fd.input => n = 0) /\ (n = fd.output => n = 1)
<1>1. /\ DOMAIN t = DOMAIN fds \ (({fd.input} \ {0}) \cup ({fd.output} \ {1}))
      /\ \A n \in DOMAIN t : t[n] = fds[n]
  BY DEF closeFd, Drop
<1>2. DOMAIN t \subseteq DOMAIN fds
  BY <1>1
<1>3. IsFiniteSet(DOMAIN t)
  BY <1>2, FS_Subset DEF Table
<1> QED
  BY <1>1, <1>3 DEF Table, Fits

(* exec. *)
LEMMA DupFd ==
  ASSUME NEW fds, Table(fds), NEW fd, Fits(fd), NEW t, t = Dup(fds, fd)
  PROVE  Table(t)
<1>1. DOMAIN t = (DOMAIN fds \ {fd.input, fd.output}) \cup {0, 1}
  BY DEF Dup
<1>2. DOMAIN t \subseteq DOMAIN fds
  BY <1>1 DEF Table
<1>3. IsFiniteSet(DOMAIN t)
  BY <1>2, FS_Subset DEF Table
<1> QED
  BY <1>1, <1>2, <1>3 DEF Table, Fits

-----------------------------------------------------------------------------
(* Class Call. *)

Called(c) ==
  /\ DOMAIN c = {"fds", "fd", "idx"} /\ Table(c.fds) /\ Fits(c.fd)
  /\ {c.fd.input, c.fd.output} \subseteq DOMAIN c.fds

(* From c to d files have been opened. *)
Opens(c, d) ==
  /\ DOMAIN c.fds \subseteq DOMAIN d.fds
  /\ \A n \in DOMAIN c.fds : d.fds[n] = c.fds[n]
  /\ \A n \in DOMAIN d.fds \ DOMAIN c.fds : d.fds[n][1] = "file"

(* A redirection, if there is one of this type, takes two lexems.          *)
LEMMA RedirectedIs ==
  ASSUME NEW line, NEW c, Called(c), NEW type \in {"input", "output"}, NEW d, d = Redirected(line, c, type)
  PROVE  /\ Called(d) /\ Opens(c, d)
         /\ d.idx = IF TypeAt(line, c.idx) = type THEN c.idx + 2 ELSE c.idx
         /\ d.fd.input # c.fd.input => type = "input" /\ TypeAt(line, c.idx) = "input"
<1> DEFINE end == <<"file", line[c.idx + 1].lexem>>
           fd == [c.fd EXCEPT ![type] = FreeFd(c.fds)]
<1>1. CASE TypeAt(line, c.idx) # type
  <2>1. d = c
    BY <1>1 DEF Redirected
  <2> QED
    BY <1>1, <2>1 DEF Called, Opens
<1>2. CASE TypeAt(line, c.idx) = type
  <2>0. PICK t : t = Open(c.fds, end)
    OBVIOUS
  <2>1. d = [c EXCEPT !.idx = @ + 2, !.fd[type] = FreeFd(c.fds), !.fds = t]
    BY <1>2, <2>0 DEF Redirected
  <2>2. DOMAIN d = {"fds", "fd", "idx"} /\ d.idx = c.idx + 2 /\ d.fds = t /\ d.fd = fd
    BY <2>1 DEF Called
  <2>3. end[1] = "file"
    OBVIOUS
  <2>4. /\ Table(t) /\ \A n : n \in DOMAIN t <=> n \in DOMAIN c.fds \/ n = FreeFd(c.fds)
        /\ t[FreeFd(c.fds)] = end /\ \A n \in DOMAIN c.fds : t[n] = c.fds[n]
    <3>1. Table(c.fds) /\ t = Open(c.fds, end)
      BY <2>0 DEF Called
    <3> QED
      BY ONLY <3>1, OpenFd
  <2>5. FreeFd(c.fds) \in Nat \ {0, 1, 2}
    BY FreeFdIs DEF Called
  <2> HIDE DEF end
  <2>6. /\ DOMAIN fd = {"input", "output"} /\ fd[type] = FreeFd(c.fds)
        /\ \A other \in {"input", "output"} : other # type => fd[other] = c.fd[other]
    BY DEF Called, Fits
  <2> HIDE DEF fd
  <2>7. Fits(fd)
    BY <2>5, <2>6 DEF Called, Fits
  <2>8. {fd.input, fd.output} \subseteq DOMAIN t
    BY <2>4, <2>6 DEF Called
  <2>9. Called(d)
    BY <2>2, <2>4, <2>7, <2>8 DEF Called
  <2>10. Opens(c, d)
    BY <2>2, <2>3, <2>4 DEF Opens
  <2> QED
    BY <1>2, <2>2, <2>6, <2>9, <2>10
<1> QED
  BY <1>1, <1>2

(* Files that are opened one after the other. *)
LEMMA OpensOn ==
  ASSUME NEW c, NEW d, NEW e, Opens(c, d), Opens(d, e)
  PROVE  Opens(c, e)
<1>1. \A n \in DOMAIN c.fds : n \in DOMAIN d.fds
  BY DEF Opens
<1> QED
  BY <1>1 DEF Opens

(* Where the arguments end.                                                *)
ArgsEnd(line, idx) ==
  CHOOSE j \in idx + 1 .. Len(line) + 1 :
    /\ TypeAt(line, j) # "argument"
    /\ \A k \in idx + 1 .. j - 1 : line[k].type = "argument"

Started(line, idx, readfd, fds) ==
  [fds |-> fds, fd |-> [input |-> readfd, output |-> 1],
   idx |-> IF TypeAt(line, ArgsEnd(line, idx)) = "subprocess" THEN ArgsEnd(line, idx) + 1 ELSE ArgsEnd(line, idx)]

(* A Call is made of an input that is open. *)
LEMMA CallIs ==
  ASSUME NEW line, NEW idx, NEW fds, Table(fds), NEW readfd \in DOMAIN fds, readfd \notin {1, 2},
         NEW c, c = Call(line, idx, readfd, fds)
  PROVE  Called(c) /\ Opens([fds |-> fds], c)
<1> DEFINE s == Started(line, idx, readfd, fds)
           c1 == Redirected(line, s, "input")
           c2 == Redirected(line, c1, "output")
<1>1. c = Redirected(line, c2, "input")
  BY DEF Call, Started, ArgsEnd
<1>2. Called(s) /\ Opens([fds |-> fds], s)
  BY DEF Started, Called, Opens, Fits, Table
<1> HIDE DEF s
<1>3. Called(c1) /\ Opens(s, c1)
  BY <1>2, RedirectedIs
<1> HIDE DEF c1
<1>4. Called(c2) /\ Opens(c1, c2)
  BY <1>3, RedirectedIs
<1> HIDE DEF c2
<1>5. Called(c) /\ Opens(c2, c)
  BY <1>1, <1>4, RedirectedIs
<1>6. Opens([fds |-> fds], c1)
  BY <1>2, <1>3, OpensOn
<1>7. Opens([fds |-> fds], c2)
  BY <1>4, <1>6, OpensOn
<1> QED
  BY <1>5, <1>7, OpensOn
-----------------------------------------------------------------------------
(* The lines of which more can be told: a name comes first and after every *)
(* operator, a command has its redirections after its arguments, at most   *)
(* one of each direction, and an "&" is the last lexem.                    *)

Operators == {"pipe", "and", "or"}
Redirections == {"input", "output"}

Ordinary(line) ==
  /\ IsSeq(line)
  /\ line # <<>> => line[1].type = "argument"
  /\ \A k \in DOMAIN line :
       /\ line[k].type \in {"argument", "subprocess"} \cup Operators \cup Redirections
       /\ line[k].type \in Operators \cup Redirections => TypeAt(line, k + 1) = "argument"
       /\ line[k].type = "subprocess" => k = Len(line)
       /\ line[k].type \in Redirections =>
            /\ TypeAt(line, k + 2) \notin {"argument", line[k].type}
            /\ TypeAt(line, k + 2) \in Redirections => TypeAt(line, k + 4) \notin Redirections

(* The lexems of such a line. *)
LEMMA LineFacts ==
  ASSUME NEW line, Ordinary(line)
  PROVE  /\ Len(line) \in Nat /\ DOMAIN line = 1 .. Len(line)
         /\ \A k \in 1 .. Len(line) : TypeAt(line, k) = line[k].type
         /\ TypeAt(line, Len(line) + 1) = "none"
BY SeqFacts DEF Ordinary, TypeAt

(* After a lexem comes a lexem or the end. *)
LEMMA Within ==
  ASSUME NEW line, Ordinary(line), NEW k \in 1 .. Len(line) + 1, TypeAt(line, k) # "none"
  PROVE  k \in 1 .. Len(line) /\ TypeAt(line, k) = line[k].type
<1>1. k \in 1 .. Len(line)
  BY LineFacts
<1> QED
  BY <1>1, LineFacts

(* No operator has been passed since the command began at idx.             *)
Passed(line, idx, i) ==
  i \in idx + 1 .. Len(line) + 1 /\ \A k \in idx .. i - 1 : line[k].type \notin Operators

(* A redirection and its file are passed. *)
LEMMA PassRedirection ==
  ASSUME NEW line, Ordinary(line), NEW idx \in 1 .. Len(line), NEW i, Passed(line, idx, i),
         TypeAt(line, i) \in Redirections
  PROVE  /\ Passed(line, idx, i + 2) /\ TypeAt(line, i + 2) \notin {"argument", TypeAt(line, i)}
         /\ TypeAt(line, i + 2) \in Redirections => TypeAt(line, i + 4) \notin Redirections
<1>1. Len(line) \in Nat /\ DOMAIN line = 1 .. Len(line)
  BY LineFacts
<1>2. i \in 1 .. Len(line) /\ TypeAt(line, i) = line[i].type
  BY <1>1, Within DEF Passed, Redirections
<1>3. TypeAt(line, i + 1) = "argument"
  BY <1>1, <1>2 DEF Ordinary
<1>4. i + 1 \in 1 .. Len(line) /\ line[i + 1].type = "argument"
  BY <1>1, <1>2, <1>3, Within
<1>5. ASSUME NEW k \in idx .. i + 2 - 1
      PROVE  line[k].type \notin Operators
  <2>1. k \in idx .. i - 1 \/ k = i \/ k = i + 1
    BY <1>1, <1>2
  <2> QED
    BY <1>2, <1>4, <2>1 DEF Passed, Operators, Redirections
<1>6. Passed(line, idx, i + 2)
  BY <1>1, <1>2, <1>4, <1>5 DEF Passed
<1> QED
  BY <1>1, <1>2, <1>6 DEF Ordinary

(* The arguments of a command end. *)
LEMMA ArgsEndIs ==
  ASSUME NEW line, Ordinary(line), NEW idx \in 1 .. Len(line), line[idx].type = "argument",
         NEW e, e = ArgsEnd(line, idx)
  PROVE  Passed(line, idx, e) /\ TypeAt(line, e) # "argument"
<1>1. Len(line) \in Nat /\ DOMAIN line = 1 .. Len(line)
  BY LineFacts
<1> DEFINE T == {j \in idx + 1 .. Len(line) + 1 : TypeAt(line, j) # "argument"}
<1>2. T \in SUBSET Nat /\ T # {}
  <2>1. Len(line) + 1 \in T
    BY <1>1, LineFacts
  <2> QED
    BY <1>1, <2>1
<1> HIDE DEF T
<1>3. PICK x \in T : \A y \in T : x <= y
  BY <1>2, LeastNumber
<1>4. x \in idx + 1 .. Len(line) + 1 /\ TypeAt(line, x) # "argument"
  BY <1>3 DEF T
<1>5. ASSUME NEW k \in idx + 1 .. x - 1
      PROVE  line[k].type = "argument"
  <2>1. k \in 1 .. Len(line) /\ k \in idx + 1 .. Len(line) + 1
    BY <1>1, <1>4
  <2>2. k \notin T
    BY <1>1, <1>3, <1>4
  <2> QED
    BY <2>1, <2>2, LineFacts DEF T
<1>6. /\ e \in idx + 1 .. Len(line) + 1 /\ TypeAt(line, e) # "argument"
      /\ \A k \in idx + 1 .. e - 1 : line[k].type = "argument"
  BY <1>4, <1>5 DEF ArgsEnd
<1>7. \A k \in idx .. e - 1 : k = idx \/ k \in idx + 1 .. e - 1
  BY <1>1, <1>6
<1> QED
  BY <1>6, <1>7 DEF Passed, Operators
(* A Call takes the lexems of one command, its "&" and its redirections.   *)
LEMMA CallTakes ==
  ASSUME NEW line, Ordinary(line), NEW idx \in 1 .. Len(line), line[idx].type = "argument",
         NEW fds, Table(fds), NEW readfd \in DOMAIN fds, readfd \notin {1, 2},
         NEW c, c = Call(line, idx, readfd, fds)
  PROVE  /\ Passed(line, idx, c.idx) /\ TypeAt(line, c.idx) \in {"none", "subprocess"} \cup Operators
         /\ c.fd.input # readfd => \E k \in idx .. c.idx - 1 : line[k].type = "input"
<1> DEFINE s == Started(line, idx, readfd, fds)
           c1 == Redirected(line, s, "input")
           c2 == Redirected(line, c1, "output")
           e == ArgsEnd(line, idx)
<1>1. c = Redirected(line, c2, "input")
  BY DEF Call, Started, ArgsEnd
<1>2. Called(s)
  BY DEF Started, Called, Fits, Table
<1>3. Len(line) \in Nat /\ DOMAIN line = 1 .. Len(line)
  BY LineFacts
<1>4. s.fd.input = readfd /\ s.idx = IF TypeAt(line, e) = "subprocess" THEN e + 1 ELSE e
  BY DEF Started
<1>5. Passed(line, idx, e) /\ TypeAt(line, e) # "argument"
  BY ArgsEndIs
<1> HIDE DEF s, e
<1>6. Passed(line, idx, s.idx) /\ TypeAt(line, s.idx) # "argument"
  <2>1. CASE TypeAt(line, e) = "subprocess"
    <3>1. e \in 1 .. Len(line) /\ line[e].type = "subprocess"
      BY <1>3, <1>5, <2>1, Within DEF Passed
    <3>2. e = Len(line) /\ s.idx = Len(line) + 1
      BY <1>3, <1>4, <2>1, <3>1 DEF Ordinary
    <3>3. TypeAt(line, s.idx) = "none"
      BY <3>2, LineFacts
    <3>4. e \in idx + 1 .. Len(line) + 1 /\ s.idx = e + 1
      BY <1>5, <3>2 DEF Passed
    <3>5. \A k \in idx .. s.idx - 1 : k \in idx .. e - 1 \/ k = e
      BY <1>3, <3>4
    <3>6. \A k \in idx .. s.idx - 1 : line[k].type \notin Operators
      BY <1>5, <3>1, <3>5 DEF Passed, Operators
    <3>7. s.idx \in idx + 1 .. Len(line) + 1
      BY <1>3, <3>2
    <3> QED
      BY <3>3, <3>6, <3>7 DEF Passed
  <2> QED
    BY <1>4, <1>5, <2>1
<1>7. /\ Called(c1) /\ c1.idx = IF TypeAt(line, s.idx) = "input" THEN s.idx + 2 ELSE s.idx
      /\ c1.fd.input # s.fd.input => TypeAt(line, s.idx) = "input"
  BY <1>2, RedirectedIs
<1> HIDE DEF c1
<1>8. /\ Called(c2) /\ c2.idx = IF TypeAt(line, c1.idx) = "output" THEN c1.idx + 2 ELSE c1.idx
      /\ c2.fd.input = c1.fd.input
  BY <1>7, RedirectedIs
<1> HIDE DEF c2
<1>9. /\ c.idx = IF TypeAt(line, c2.idx) = "input" THEN c2.idx + 2 ELSE c2.idx
      /\ c.fd.input # c2.fd.input => TypeAt(line, c2.idx) = "input"
  BY <1>1, <1>8, RedirectedIs
<1>10. Passed(line, idx, c1.idx) /\ TypeAt(line, c1.idx) \notin {"argument", "input"}
  BY <1>6, <1>7, PassRedirection DEF Redirections
<1>11. Passed(line, idx, c2.idx) /\ TypeAt(line, c2.idx) \notin {"argument", "output"}
  BY <1>8, <1>10, PassRedirection DEF Redirections
<1>12. TypeAt(line, c2.idx) = "input" => TypeAt(line, c2.idx + 2) \notin Redirections
  <2>1. CASE TypeAt(line, s.idx) = "input" /\ TypeAt(line, c1.idx) = "output"
    <3>1. c1.idx = s.idx + 2 /\ c2.idx = s.idx + 4
      BY <1>3, <1>6, <1>7, <1>8, <2>1 DEF Passed
    <3>2. TypeAt(line, s.idx + 4) \notin Redirections
      BY <1>6, <2>1, <3>1, PassRedirection DEF Redirections
    <3> QED
      BY <3>1, <3>2 DEF Redirections
  <2>2. CASE TypeAt(line, s.idx) = "input" /\ TypeAt(line, c1.idx) # "output"
    BY <1>8, <1>10, <2>2
  <2>3. CASE TypeAt(line, s.idx) # "input" /\ TypeAt(line, c1.idx) = "output"
    <3>1. c1.idx = s.idx /\ c2.idx = s.idx + 2 /\ c2.idx + 2 = s.idx + 4
      BY <1>3, <1>6, <1>7, <1>8, <2>3 DEF Passed
    <3>2. TypeAt(line, s.idx + 2) \in Redirections => TypeAt(line, s.idx + 4) \notin Redirections
      BY <1>6, <2>3, <3>1, PassRedirection DEF Redirections
    <3> QED
      BY <3>1, <3>2 DEF Redirections
  <2>4. CASE TypeAt(line, s.idx) # "input" /\ TypeAt(line, c1.idx) # "output"
    BY <1>7, <1>8, <2>4
  <2> QED
    BY <2>1, <2>2, <2>3, <2>4
<1>13. Passed(line, idx, c.idx) /\ TypeAt(line, c.idx) \notin {"argument"} \cup Redirections
  <2>1. CASE TypeAt(line, c2.idx) = "input"
    <3>1. /\ Passed(line, idx, c2.idx + 2) /\ TypeAt(line, c2.idx + 2) \notin {"argument", "input"}
          /\ c.idx = c2.idx + 2
      BY <1>9, <1>11, <2>1, PassRedirection DEF Redirections
    <3>2. TypeAt(line, c2.idx + 2) # "output"
      BY <1>12, <2>1 DEF Redirections
    <3> QED
      BY <3>1, <3>2 DEF Redirections
  <2>2. CASE TypeAt(line, c2.idx) # "input"
    BY <1>9, <1>11, <2>2 DEF Redirections
  <2> QED
    BY <2>1, <2>2
<1>14. TypeAt(line, c.idx) \in {"none", "subprocess"} \cup Operators
  <2>1. c.idx \in 1 .. Len(line) + 1
    BY <1>3, <1>13 DEF Passed
  <2>2. CASE c.idx \in 1 .. Len(line)
    <3>1. TypeAt(line, c.idx) = line[c.idx].type
      BY <2>2, LineFacts
    <3>2. line[c.idx].type \in {"argument", "subprocess"} \cup Operators \cup Redirections
      BY <1>3, <2>2 DEF Ordinary
    <3> QED
      BY <1>13, <3>1, <3>2
  <2> QED
    BY <1>3, <2>1, <2>2, LineFacts
<1>15. ASSUME NEW i, Passed(line, idx, i), TypeAt(line, i) = "input", i <= c.idx - 1
       PROVE  \E k \in idx .. c.idx - 1 : line[k].type = "input"
  <2>1. i \in 1 .. Len(line) /\ line[i].type = "input" /\ i \in idx .. c.idx - 1
    BY <1>3, <1>13, <1>15, Within DEF Passed
  <2> QED
    BY <2>1
<1>16. s.idx <= c1.idx /\ c1.idx <= c2.idx /\ c2.idx <= c.idx
  BY <1>3, <1>6, <1>7, <1>8, <1>9, <1>10, <1>11 DEF Passed
<1>17. ASSUME c.fd.input # readfd
       PROVE  \E k \in idx .. c.idx - 1 : line[k].type = "input"
  <2>1. CASE TypeAt(line, s.idx) = "input"
    <3>1. s.idx <= c.idx - 1
      BY <1>3, <1>6, <1>7, <1>8, <1>9, <1>10, <1>11, <2>1 DEF Passed
    <3> QED
      BY <1>6, <1>15, <2>1, <3>1
  <2>2. CASE TypeAt(line, c2.idx) = "input"
    <3>1. c2.idx <= c.idx - 1
      BY <1>3, <1>9, <1>11, <2>2 DEF Passed
    <3> QED
      BY <1>11, <1>15, <2>2, <3>1
  <2> QED
    BY <1>4, <1>7, <1>8, <1>9, <1>17, <2>1, <2>2
<1> QED
  BY <1>13, <1>14, <1>17
-----------------------------------------------------------------------------
(* What one process has in its memory and among its descriptors.           *)

RecordFields == {"state", "parent", "name", "at", "lineno", "left", "status", "fds"}
MemoryFields ==
  {"pc", "unread", "line", "lineno", "idx", "at", "prev_op", "fd", "first", "pipe_pids", "i", "cur_childs",
   "subprocesses_", "prev_readfd_", "prev_exit_status_"}

Lines(sc) == {<<>>} \cup {sc[n] : n \in 1 .. Len(sc)}

AtPipe(m) == TypeAt(m.line, m.idx) = "pipe"

(* The descriptors that the variables name are open, and the end of the    *)
(* new pipe that the next stage reads is none of those of this stage.      *)
FdsFit(m, r, sc) ==
  /\ r.state \in {"shell", "forked", "runs"} => Table(r.fds)
  /\ r.state \in {"shell", "forked"} => Fits(m.fd) /\ m.unread \in 0 .. Len(sc) /\ m.line \in Lines(sc)
  /\ r.state = "forked" => {m.fd.input, m.fd.output} \subseteq DOMAIN r.fds
  /\ r.state = "shell" =>
       /\ m.pc \in Idle => m.prev_readfd_ = 0
       /\ m.pc \in Forking \cup {"insert"} =>
            {m.fd.input, m.fd.output, m.prev_readfd_} \subseteq DOMAIN r.fds /\ m.prev_readfd_ \notin {1, 2}
       /\ m.pc \in {"pipe", "skip"} => AtPipe(m)
       /\ m.pc \in {"skip", "fork", "insert"} /\ AtPipe(m) => m.prev_readfd_ \notin {m.fd.input, m.fd.output}

(* A command that && and || decide of begins at k.                         *)
AtHead(m, k) ==
  /\ k \in 1 .. Len(m.line) /\ m.line[k].type = "argument"
  /\ IF k = 1 THEN m.prev_op = "" ELSE m.prev_op \in {"and", "or"} /\ m.line[k - 1].type = m.prev_op

(* Where in an ordinary line the shell is.                                 *)
Follows(m) ==
  Ordinary(m.line) =>
    /\ m.pc = "call" => AtHead(m, m.idx)
    /\ m.pc \in Working \cup {"next"} =>
         /\ m.at \in 1 .. Len(m.line) /\ m.line[m.at].type = "argument" /\ Passed(m.line, m.at, m.idx)
         /\ TypeAt(m.line, m.idx) \in {"none", "subprocess"} \cup Operators
    /\ m.pc \in Forking \cup {"insert"} =>
         IF m.first THEN AtHead(m, m.at) ELSE m.at > 1 /\ m.line[m.at - 1].type = "pipe"
    /\ m.pc = "skip" => m.first /\ Skips(m)
    /\ m.pc \in {"fork", "insert"} /\ m.first => ~Skips(m)
    /\ m.pc \in {"wait", "next"} => ~AtPipe(m)

(* A stage that a pipe leads to has no other input.                        *)
ReadsItsPipes(line) ==
  \A k \in 1 .. Len(line) : line[k].type = "input" =>
    \A j \in 1 .. k - 1 : line[j].type = "pipe" => \E h \in j + 1 .. k - 1 : line[h].type \in {"and", "or"}

OrdinaryScripts == \A s \in Scripts : \A n \in 1 .. Len(s) : Ordinary(s[n])

PipedScripts == \A s \in Scripts : \A n \in 1 .. Len(s) : Ordinary(s[n]) /\ ReadsItsPipes(s[n])

PipeEnds(fds) == {n \in DOMAIN fds : fds[n][1] \in {"r", "w"}}

(* Every end of a pipe that a copy of the shell holds is in its variables. *)
EndsKept(m, r) ==
  r.state = "shell" =>
    /\ PipeEnds(r.fds) \cap {0, 1} = {}
    /\ m.pc \in Idle \cup {"wait"} => PipeEnds(r.fds) = {}
    /\ m.pc = "pipe" => PipeEnds(r.fds) \subseteq {m.fd.input}
    /\ m.pc \in {"skip", "fork", "insert"} =>
         PipeEnds(r.fds) \subseteq {m.fd.input, m.fd.output} \cup IF AtPipe(m) THEN {m.prev_readfd_} ELSE {}

Local(m, r, sc) ==
  /\ DOMAIN r = RecordFields /\ DOMAIN m = MemoryFields
  /\ FdsFit(m, r, sc)
  /\ r.state = "shell" => Follows(m)
  /\ PipedScripts => EndsKept(m, r)

Locals ==
  /\ script \in Scripts /\ offset \in 0 .. Len(script)
  /\ \A p \in 1 .. Len(proc) : Local(mem[p], proc[p], script)

(* Nothing is said of the memory of a process that has ended.              *)
LEMMA GoneLocal ==
  ASSUME NEW m, NEW r, NEW sc, DOMAIN r = RecordFields, DOMAIN m = MemoryFields,
         r.state \in {"ended", "reaped"}
  PROVE  Local(m, r, sc)
BY DEF Local, FdsFit, EndsKept

(* What a process has changed is itself or a new process, and the others   *)
(* are as they were or have ended.                                         *)
LEMMA LocalsStep ==
  ASSUME Locals, script' = script, offset' \in 0 .. Len(script), NEW ps,
         \A q \in 1 .. Len(proc') : q \in ps =>
           Local(mem'[q], proc'[q], script),
         \A q \in 1 .. Len(proc') : q \notin ps =>
           /\ q \in 1 .. Len(proc) /\ DOMAIN mem'[q] = MemoryFields
           /\ \/ mem'[q] = mem[q] /\ proc'[q] = proc[q]
              \/ DOMAIN proc'[q] = RecordFields /\ proc'[q].state \in {"ended", "reaped"}
  PROVE  Locals'
<1>1. ASSUME NEW q \in 1 .. Len(proc')
      PROVE  Local(mem'[q], proc'[q], script)
  <2>1. CASE q \in ps
    BY <2>1
  <2>2. CASE q \notin ps /\ mem'[q] = mem[q] /\ proc'[q] = proc[q]
    BY <2>2 DEF Locals
  <2>3. CASE q \notin ps /\ DOMAIN proc'[q] = RecordFields /\ proc'[q].state \in {"ended", "reaped"}
    BY <2>3, GoneLocal
  <2> QED
    BY <2>1, <2>2, <2>3
<1> QED
  BY <1>1 DEF Locals

(* p changes its memory and its descriptors. *)
LEMMA LocalsQuiet ==
  ASSUME Memories, Locals, UNCHANGED input, NEW p \in 1 .. Len(proc), NEW m, NEW fds,
         mem' = [mem EXCEPT ![p] = m], proc' = [proc EXCEPT ![p].fds = fds],
         \A r : DOMAIN r = RecordFields /\ r.state = proc[p].state /\ r.fds = fds => Local(m, r, script)
  PROVE  Locals'
<1>1. DOMAIN proc = 1 .. Len(proc) /\ Len(proc) \in Nat /\ Len(mem) = Len(proc)
  BY SeqFacts DEF Memories, Processes
<1>2. Processes(proc') /\ Len(proc') = Len(proc)
  BY FdsMove DEF Memories
<1>3. mem'[p] = m /\ \A q \in 1 .. Len(proc) : q # p => mem'[q] = mem[q]
  BY MemReplaced DEF Memories
<1>4. proc'[p] = [proc[p] EXCEPT !.fds = fds] /\ \A q \in 1 .. Len(proc) : q # p => proc'[q] = proc[q]
  BY <1>1
<1>5. DOMAIN proc[p] = RecordFields
  BY DEF Locals, Local
<1>6. DOMAIN proc'[p] = RecordFields /\ proc'[p].state = proc[p].state /\ proc'[p].fds = fds
  BY <1>4, <1>5 DEF RecordFields
<1>7. Local(mem'[p], proc'[p], script)
  BY <1>3, <1>6
<1>8. \A q \in 1 .. Len(proc) : DOMAIN mem[q] = MemoryFields
  BY DEF Locals, Local
<1>9. script' = script /\ offset' \in 0 .. Len(script)
  BY DEF input, Locals
<1>10. \A q \in 1 .. Len(proc') : q \in {p} => Local(mem'[q], proc'[q], script)
  BY <1>7
<1>11. \A q \in 1 .. Len(proc') : q \notin {p} =>
           /\ q \in 1 .. Len(proc) /\ DOMAIN mem'[q] = MemoryFields
           /\ \/ mem'[q] = mem[q] /\ proc'[q] = proc[q]
              \/ DOMAIN proc'[q] = RecordFields /\ proc'[q].state \in {"ended", "reaped"}
  BY <1>2, <1>3, <1>4, <1>8
<1> QED
  BY ONLY Locals, <1>9, <1>10, <1>11, LocalsStep
(* Files are no ends of pipes. *)
LEMMA OpensEnds ==
  ASSUME NEW fds, NEW c, Opens([fds |-> fds], c)
  PROVE  PipeEnds(c.fds) \subseteq PipeEnds(fds)
<1> SUFFICES ASSUME NEW n \in DOMAIN c.fds, c.fds[n][1] \in {"r", "w"}
             PROVE  n \in DOMAIN fds /\ fds[n][1] \in {"r", "w"}
  BY DEF PipeEnds
<1>1. n \in DOMAIN fds
  BY DEF Opens
<1> QED
  BY <1>1 DEF Opens

(* Where a process is, and what it has.                                    *)
LEMMA HereLocal ==
  ASSUME Memories, Locals, NEW p, NEW pc, At(p, pc)
  PROVE  /\ p \in 1 .. Len(proc) /\ mem[p].pc = pc /\ proc[p].state = "shell"
         /\ DOMAIN proc[p] = RecordFields /\ DOMAIN mem[p] = MemoryFields
         /\ FdsFit(mem[p], proc[p], script) /\ Follows(mem[p])
         /\ PipedScripts => EndsKept(mem[p], proc[p])
BY Here DEF Locals, Local

(* A command begins. *)
LEMMA StartCallLocals ==
  ASSUME Memories, Locals, NEW p, StartCall(p)
  PROVE  Locals'
<1> DEFINE m == mem[p]
           c == Call(m.line, m.idx, m.prev_readfd_, proc[p].fds)
           m2 == [m EXCEPT
                  !.at = m.idx, !.idx = c.idx, !.fd = c.fd, !.first = TRUE, !.pipe_pids = <<>>, !.i = 1,
                  !.pc = IF TypeAt(m.line, c.idx) = "pipe" THEN "pipe"
                         ELSE IF m.prev_op \in {"", "and", "or"} /\ ~Skips(m) THEN "fork" ELSE "next"]
<1>1. /\ p \in 1 .. Len(proc) /\ m.pc = "call" /\ proc[p].state = "shell"
      /\ DOMAIN proc[p] = RecordFields /\ DOMAIN m = MemoryFields
      /\ FdsFit(m, proc[p], script) /\ Follows(m)
      /\ PipedScripts => EndsKept(m, proc[p])
  BY HereLocal DEF StartCall
<1>2. mem' = [mem EXCEPT ![p] = m2] /\ proc' = [proc EXCEPT ![p].fds = c.fds] /\ UNCHANGED input
  BY DEF StartCall
<1>3. /\ DOMAIN m2 = MemoryFields /\ m2.unread = m.unread /\ m2.line = m.line /\ m2.prev_op = m.prev_op
      /\ m2.prev_exit_status_ = m.prev_exit_status_ /\ m2.prev_readfd_ = m.prev_readfd_
      /\ m2.at = m.idx /\ m2.idx = c.idx /\ m2.fd = c.fd /\ m2.first = TRUE
      /\ m2.pc = IF TypeAt(m.line, c.idx) = "pipe" THEN "pipe"
                 ELSE IF m.prev_op \in {"", "and", "or"} /\ ~Skips(m) THEN "fork" ELSE "next"
  BY <1>1 DEF MemoryFields
<1>4. Table(proc[p].fds) /\ m.prev_readfd_ = 0 /\ 0 \in DOMAIN proc[p].fds
  BY <1>1 DEF FdsFit, Idle, Table
<1>5. Called(c) /\ Opens([fds |-> proc[p].fds], c)
  BY <1>4, CallIs
<1>c. c = Call(m.line, m.idx, m.prev_readfd_, proc[p].fds)
  OBVIOUS
<1> HIDE DEF m2, c
<1>6. /\ m2.pc \in {"pipe", "fork", "next"} /\ (m2.pc = "pipe" <=> AtPipe(m2))
      /\ m2.pc = "fork" => ~Skips(m2)
  <2>1. (AtPipe(m2) <=> TypeAt(m.line, c.idx) = "pipe") /\ (Skips(m2) <=> Skips(m))
    BY <1>3 DEF AtPipe, Skips, Succeeded
  <2> QED
    BY <1>3, <2>1
<1>7. ASSUME Ordinary(m.line)
      PROVE  AtHead(m, m.idx) /\ Passed(m.line, m.idx, c.idx)
             /\ TypeAt(m.line, c.idx) \in {"none", "subprocess"} \cup Operators
  <2>1. AtHead(m, m.idx)
    BY <1>1, <1>7 DEF Follows
  <2>2. m.idx \in 1 .. Len(m.line) /\ m.line[m.idx].type = "argument"
    BY <2>1 DEF AtHead
  <2>3. m.prev_readfd_ \in DOMAIN proc[p].fds /\ m.prev_readfd_ \notin {1, 2}
    BY <1>4
  <2> HIDE DEF m
  <2> QED
    BY ONLY <1>c, <1>4, <1>7, <2>1, <2>2, <2>3, CallTakes
<1>8. Follows(m2)
  <2> SUFFICES ASSUME Ordinary(m.line) PROVE Follows(m2)
    BY <1>3 DEF Follows
  <2>1. AtHead(m2, m2.at) /\ m2.line[m2.at].type = "argument" /\ m2.at \in 1 .. Len(m2.line)
    BY <1>3, <1>7 DEF AtHead
  <2> QED
    BY <1>3, <1>6, <1>7, <2>1 DEF Follows, Working, Forking
<1>9. ASSUME NEW r, DOMAIN r = RecordFields, r.state = proc[p].state, r.fds = c.fds
      PROVE  Local(m2, r, script)
  <2>1. FdsFit(m2, r, script)
    <3>1. Fits(m2.fd) /\ {m2.fd.input, m2.fd.output} \subseteq DOMAIN r.fds /\ Table(r.fds) /\ 0 \in DOMAIN r.fds
      BY <1>3, <1>5, <1>9 DEF Called, Table
    <3>2. m2.unread \in 0 .. Len(script) /\ m2.line \in Lines(script)
      BY <1>1, <1>3 DEF FdsFit
    <3>3. m2.prev_readfd_ = 0 /\ r.state = "shell"
      BY <1>1, <1>3, <1>4, <1>9
    <3> QED
      BY <1>6, <3>1, <3>2, <3>3 DEF FdsFit, Idle, Forking
  <2>2. PipedScripts => EndsKept(m2, r)
    <3>1. PipeEnds(c.fds) \subseteq PipeEnds(proc[p].fds)
      BY <1>5, OpensEnds
    <3>2. PipedScripts => PipeEnds(proc[p].fds) = {}
      BY <1>1 DEF EndsKept, Idle
    <3> QED
      BY <1>6, <1>9, <3>1, <3>2 DEF EndsKept
  <2> QED
    BY <1>3, <1>8, <1>9, <2>1, <2>2 DEF Local
<1> HIDE DEF m
<1> QED
  BY ONLY Memories, Locals, <1>1, <1>2, <1>9, LocalsQuiet
(* A pipe is made for this stage and the next one.                         *)
LEMMA MakePipeLocals ==
  ASSUME Memories, Locals, NEW p, MakePipe(p)
  PROVE  Locals'
<1> DEFINE m == mem[p]
           fds0 == proc[p].fds
           rd == <<"r", Len(pipes) + 1>>
           wr == <<"w", Len(pipes) + 1>>
           fds1 == Open(fds0, rd)
           fds2 == Open(fds1, wr)
           m2 == [m EXCEPT
                  !.prev_readfd_ = FreeFd(fds0), !.fd.output = FreeFd(fds1),
                  !.pc = IF m.first /\ Skips(m) THEN "skip" ELSE "fork"]
<1>1. /\ p \in 1 .. Len(proc) /\ m.pc = "pipe" /\ proc[p].state = "shell"
      /\ DOMAIN proc[p] = RecordFields /\ DOMAIN m = MemoryFields
      /\ FdsFit(m, proc[p], script) /\ Follows(m)
      /\ PipedScripts => EndsKept(m, proc[p])
  BY HereLocal DEF MakePipe
<1>2. mem' = [mem EXCEPT ![p] = m2] /\ proc' = [proc EXCEPT ![p].fds = fds2] /\ UNCHANGED input
  BY DEF MakePipe
<1>3. /\ Table(fds0) /\ Fits(m.fd) /\ {m.fd.input, m.fd.output} \subseteq DOMAIN fds0 /\ AtPipe(m)
      /\ m.unread \in 0 .. Len(script) /\ m.line \in Lines(script)
  BY <1>1 DEF FdsFit, Forking
<1>4. /\ DOMAIN m2 = MemoryFields /\ m2.unread = m.unread /\ m2.line = m.line /\ m2.prev_op = m.prev_op
      /\ m2.prev_exit_status_ = m.prev_exit_status_ /\ m2.prev_readfd_ = FreeFd(fds0)
      /\ m2.at = m.at /\ m2.idx = m.idx /\ m2.first = m.first
      /\ m2.fd = [m.fd EXCEPT !.output = FreeFd(fds1)]
      /\ m2.pc = IF m.first /\ Skips(m) THEN "skip" ELSE "fork"
  BY <1>1 DEF MemoryFields
<1>5. DOMAIN m2.fd = {"input", "output"} /\ m2.fd.input = m.fd.input /\ m2.fd.output = FreeFd(fds1)
  BY <1>3, <1>4 DEF Fits
<1>6. fds1 = Open(fds0, rd) /\ fds2 = Open(fds1, wr)
  OBVIOUS
<1> HIDE DEF m2, m, fds0, fds1, fds2, rd, wr
<1>7. /\ Table(fds1) /\ \A n : n \in DOMAIN fds1 <=> n \in DOMAIN fds0 \/ n = FreeFd(fds0)
      /\ \A n \in DOMAIN fds0 : fds1[n] = fds0[n]
  BY ONLY <1>3, <1>6, OpenFd
<1>8. /\ Table(fds2) /\ \A n : n \in DOMAIN fds2 <=> n \in DOMAIN fds1 \/ n = FreeFd(fds1)
      /\ \A n \in DOMAIN fds1 : fds2[n] = fds1[n]
  BY ONLY <1>6, <1>7, OpenFd
<1>9. /\ FreeFd(fds0) \in Nat \ {0, 1, 2} /\ FreeFd(fds0) \notin DOMAIN fds0
      /\ FreeFd(fds1) \in Nat \ {0, 1, 2} /\ FreeFd(fds1) \notin DOMAIN fds1
  BY ONLY <1>3, <1>7, FreeFdIs
<1>10. AtPipe(m2) /\ (Skips(m2) <=> Skips(m)) /\ m2.pc \in {"skip", "fork"}
  BY <1>3, <1>4 DEF AtPipe, Skips, Succeeded
<1>11. Follows(m2)
  <2>1. \A k : AtHead(m, k) <=> AtHead(m2, k)
    BY <1>4 DEF AtHead
  <2> QED
    BY <1>1, <1>4, <1>10, <2>1 DEF Follows, Working, Forking
<1>12. ASSUME NEW r, DOMAIN r = RecordFields, r.state = proc[p].state, r.fds = fds2
       PROVE  Local(m2, r, script)
  <2>1. FdsFit(m2, r, script)
    <3>1. Fits(m2.fd)
      BY <1>3, <1>5, <1>9 DEF Fits
    <3>2. {m2.fd.input, m2.fd.output, m2.prev_readfd_} \subseteq DOMAIN r.fds /\ m2.prev_readfd_ \notin {1, 2}
      BY <1>3, <1>4, <1>5, <1>7, <1>8, <1>9, <1>12
    <3>3. m2.prev_readfd_ \notin {m2.fd.input, m2.fd.output}
      BY <1>3, <1>4, <1>5, <1>7, <1>9
    <3>4. r.state = "shell" /\ Table(r.fds) /\ m2.unread \in 0 .. Len(script) /\ m2.line \in Lines(script)
      BY <1>1, <1>3, <1>4, <1>8, <1>12
    <3> QED
      BY <1>10, <3>1, <3>2, <3>3, <3>4 DEF FdsFit, Idle, Forking
  <2>2. ASSUME PipedScripts
        PROVE  EndsKept(m2, r)
    <3>1. PipeEnds(fds0) \cap {0, 1} = {} /\ PipeEnds(fds0) \subseteq {m.fd.input}
      BY <1>1, <2>2 DEF EndsKept, fds0
    <3>2. PipeEnds(fds2) \subseteq PipeEnds(fds0) \cup {FreeFd(fds0), FreeFd(fds1)}
      BY <1>7, <1>8 DEF PipeEnds
    <3>3. PipeEnds(fds2) \subseteq {m2.fd.input, m2.fd.output, m2.prev_readfd_}
      BY <1>4, <1>5, <3>1, <3>2
    <3>4. PipeEnds(fds2) \cap {0, 1} = {}
      BY <1>9, <3>1, <3>2
    <3> QED
      BY <1>10, <1>12, <3>3, <3>4 DEF EndsKept, Idle
  <2> QED
    BY <1>4, <1>11, <1>12, <2>1, <2>2 DEF Local
<1> QED
  BY ONLY Memories, Locals, <1>1, <1>2, <1>12, LocalsQuiet

(* The next stage begins after a pipe.                                     *)
LEMMA NextStageLocals ==
  ASSUME Memories, Locals, UNCHANGED input, NEW p \in 1 .. Len(proc), proc[p].state = "shell",
         mem[p].pc \in {"skip", "insert"}, AtPipe(mem[p]),
         NEW m, DOMAIN m = MemoryFields, \A f \in MemoryFields \ {"cur_childs"} : m[f] = mem[p][f],
         NextStage(p, m)
  PROVE  Locals'
<1> DEFINE m0 == mem[p]
           fds0 == proc[p].fds
           fds1 == closeFd(fds0, m.fd)
           c == Call(m.line, m.idx + 1, m.prev_readfd_, fds1)
           m2 == [m EXCEPT
                  !.at = m.idx + 1, !.idx = c.idx, !.fd = c.fd, !.first = FALSE,
                  !.pc = IF TypeAt(m.line, c.idx) = "pipe" THEN "pipe" ELSE "fork"]
<1>1. /\ DOMAIN proc[p] = RecordFields /\ DOMAIN m0 = MemoryFields
      /\ FdsFit(m0, proc[p], script) /\ Follows(m0)
      /\ PipedScripts => EndsKept(m0, proc[p])
  BY DEF Locals, Local
<1>2. mem' = [mem EXCEPT ![p] = m2] /\ proc' = [proc EXCEPT ![p].fds = c.fds]
  BY DEF NextStage
<1>3. /\ DOMAIN m = MemoryFields /\ m.line = m0.line /\ m.idx = m0.idx /\ m.fd = m0.fd /\ m.unread = m0.unread
      /\ m.prev_readfd_ = m0.prev_readfd_
  BY <1>1 DEF MemoryFields
<1>4. /\ DOMAIN m2 = MemoryFields /\ m2.unread = m0.unread /\ m2.line = m0.line
      /\ m2.prev_readfd_ = m0.prev_readfd_ /\ m2.at = m0.idx + 1 /\ m2.idx = c.idx /\ m2.first = FALSE
      /\ m2.fd = c.fd /\ m2.pc = IF TypeAt(m0.line, c.idx) = "pipe" THEN "pipe" ELSE "fork"
  BY <1>3 DEF MemoryFields
<1>5. /\ Table(fds0) /\ Fits(m0.fd) /\ m0.unread \in 0 .. Len(script) /\ m0.line \in Lines(script)
      /\ m0.prev_readfd_ \in DOMAIN fds0 /\ m0.prev_readfd_ \notin {1, 2}
      /\ m0.prev_readfd_ \notin {m0.fd.input, m0.fd.output}
  BY <1>1 DEF FdsFit, Forking
<1>6. fds1 = closeFd(fds0, m0.fd) /\ c = Call(m0.line, m0.idx + 1, m0.prev_readfd_, fds1)
  BY <1>3
<1> HIDE DEF m2, m0, fds0, fds1, c
<1>7. /\ Table(fds1) /\ \A n \in DOMAIN fds1 : fds1[n] = fds0[n]
      /\ \A n : n \in DOMAIN fds1 <=>
                n \in DOMAIN fds0 /\ (n = m0.fd.input => n = 0) /\ (n = m0.fd.output => n = 1)
  BY ONLY <1>5, <1>6, CloseFd
<1>8. m0.prev_readfd_ \in DOMAIN fds1
  BY <1>5, <1>7
<1>9. Called(c) /\ Opens([fds |-> fds1], c)
  BY ONLY <1>5, <1>6, <1>7, <1>8, CallIs
<1>10. m2.pc \in {"pipe", "fork"} /\ (m2.pc = "pipe" <=> AtPipe(m2))
  BY <1>4 DEF AtPipe
<1>11. ASSUME Ordinary(m0.line)
       PROVE  /\ m0.idx \in 1 .. Len(m0.line) /\ m0.line[m0.idx].type = "pipe"
              /\ m0.idx + 1 \in 1 .. Len(m0.line) /\ m0.line[m0.idx + 1].type = "argument"
              /\ Passed(m0.line, m0.idx + 1, c.idx)
              /\ TypeAt(m0.line, c.idx) \in {"none", "subprocess"} \cup Operators
              /\ c.fd.input # m0.prev_readfd_ =>
                   \E k \in m0.idx + 1 .. c.idx - 1 : m0.line[k].type = "input"
  <2>1. Len(m0.line) \in Nat /\ DOMAIN m0.line = 1 .. Len(m0.line)
    BY <1>11, LineFacts
  <2>2. m0.at \in 1 .. Len(m0.line) /\ Passed(m0.line, m0.at, m0.idx)
    BY <1>1, <1>11 DEF Follows, Working, Forking, m0
  <2>3. TypeAt(m0.line, m0.idx) = "pipe"
    BY DEF AtPipe, m0
  <2>4. m0.idx \in 1 .. Len(m0.line) /\ m0.line[m0.idx].type = "pipe"
    BY <1>11, <2>1, <2>2, <2>3, Within DEF Passed
  <2>5. TypeAt(m0.line, m0.idx + 1) = "argument"
    BY <1>11, <2>1, <2>4 DEF Ordinary, Operators
  <2>6. m0.idx + 1 \in 1 .. Len(m0.line) /\ m0.line[m0.idx + 1].type = "argument"
    BY <1>11, <2>1, <2>4, <2>5, Within
  <2>7. /\ Passed(m0.line, m0.idx + 1, c.idx)
        /\ TypeAt(m0.line, c.idx) \in {"none", "subprocess"} \cup Operators
        /\ c.fd.input # m0.prev_readfd_ => \E k \in m0.idx + 1 .. c.idx - 1 : m0.line[k].type = "input"
    <3>1. PICK line, idx, rd : line = m0.line /\ idx = m0.idx + 1 /\ rd = m0.prev_readfd_
      OBVIOUS
    <3>2. /\ Ordinary(line) /\ idx \in 1 .. Len(line) /\ line[idx].type = "argument" /\ Table(fds1)
          /\ rd \in DOMAIN fds1 /\ rd \notin {1, 2} /\ c = Call(line, idx, rd, fds1)
      BY <1>5, <1>6, <1>7, <1>8, <1>11, <2>6, <3>1
    <3>3. /\ Passed(line, idx, c.idx) /\ TypeAt(line, c.idx) \in {"none", "subprocess"} \cup Operators
          /\ c.fd.input # rd => \E k \in idx .. c.idx - 1 : line[k].type = "input"
      BY ONLY <3>2, CallTakes
    <3> QED
      BY <3>1, <3>3
  <2> QED
    BY <2>4, <2>6, <2>7
<1>12. Follows(m2)
  <2> SUFFICES ASSUME Ordinary(m0.line) PROVE Follows(m2)
    BY <1>4 DEF Follows
  <2>1. m2.at > 1 /\ m2.at - 1 = m0.idx
    BY <1>4, <1>11
  <2> QED
    BY <1>4, <1>10, <1>11, <2>1 DEF Follows, Working, Forking
<1>13. ASSUME NEW r, DOMAIN r = RecordFields, r.state = proc[p].state, r.fds = c.fds
       PROVE  Local(m2, r, script)
  <2>1. FdsFit(m2, r, script)
    <3>1. Fits(m2.fd) /\ Table(r.fds) /\ {m2.fd.input, m2.fd.output, m2.prev_readfd_} \subseteq DOMAIN r.fds
      BY <1>4, <1>8, <1>9, <1>13 DEF Called, Opens
    <3>2. r.state = "shell" /\ m2.prev_readfd_ \notin {1, 2} /\ m2.unread \in 0 .. Len(script) /\ m2.line \in Lines(script)
      BY <1>4, <1>5, <1>13
    <3> QED
      BY <1>10, <3>1, <3>2 DEF FdsFit, Idle, Forking
  <2>2. ASSUME PipedScripts
        PROVE  EndsKept(m2, r)
    <3>1. /\ PipeEnds(fds0) \cap {0, 1} = {}
          /\ PipeEnds(fds0) \subseteq {m0.fd.input, m0.fd.output, m0.prev_readfd_}
      BY <1>1, <2>2 DEF EndsKept, fds0, m0
    <3>2. PipeEnds(c.fds) \subseteq PipeEnds(fds1)
      BY <1>9, OpensEnds
    <3>3. PipeEnds(fds1) \subseteq PipeEnds(fds0) /\ PipeEnds(fds1) \subseteq {m0.prev_readfd_}
      BY <1>7, <3>1 DEF PipeEnds
    <3>4. c.fd.input = m0.prev_readfd_
      <4> SUFFICES ASSUME c.fd.input # m0.prev_readfd_, m0.line # <<>> PROVE FALSE
        <5>1. m0.line = <<>> => ~Ordinary(m0.line) \/ FALSE
          <6>1. Len(<<>>) = 0
            BY EmptySeq
          <6> QED
            BY <1>11, <6>1
        <5>2. Ordinary(<<>>)
          BY EmptySeq DEF Ordinary, IsSeq
        <5> QED
          BY <5>1, <5>2
      <4>1. PICK n \in 1 .. Len(script) : m0.line = script[n]
        BY <1>5 DEF Lines
      <4>2. Ordinary(m0.line) /\ ReadsItsPipes(m0.line)
        BY <2>2, <4>1 DEF PipedScripts, Locals
      <4>3. PICK k \in m0.idx + 1 .. c.idx - 1 : m0.line[k].type = "input"
        BY <1>11, <4>2
      <4>4. /\ Len(m0.line) \in Nat /\ m0.idx \in 1 .. Len(m0.line)
            /\ m0.line[m0.idx].type = "pipe" /\ c.idx \in m0.idx + 2 .. Len(m0.line) + 1
            /\ \A h \in m0.idx + 1 .. c.idx - 1 : m0.line[h].type \notin Operators
        <5>1. Len(m0.line) \in Nat /\ Passed(m0.line, m0.idx + 1, c.idx) /\ m0.idx \in 1 .. Len(m0.line)
              /\ m0.line[m0.idx].type = "pipe"
          BY <1>11, <4>2, LineFacts
        <5>2. /\ c.idx \in m0.idx + 1 + 1 .. Len(m0.line) + 1
              /\ \A h \in m0.idx + 1 .. c.idx - 1 : m0.line[h].type \notin Operators
          BY ONLY <5>1 DEF Passed
        <5>3. c.idx \in m0.idx + 2 .. Len(m0.line) + 1
          BY <5>1, <5>2
        <5> QED
          BY <5>1, <5>2, <5>3
      <4>5. k \in 1 .. Len(m0.line) /\ m0.idx \in 1 .. k - 1
        <5>a. m0.idx \in Nat /\ m0.idx >= 1 /\ Len(m0.line) \in Nat
          BY <4>4
        <5>b. c.idx \in m0.idx + 2 .. Len(m0.line) + 1
          BY <4>4
        <5>1. Len(m0.line) \in Nat /\ m0.idx \in Nat /\ c.idx \in Nat /\ c.idx <= Len(m0.line) + 1 /\ m0.idx >= 1
          BY ONLY <5>a, <5>b
        <5>2. k \in m0.idx + 1 .. c.idx - 1
          BY <4>3
        <5>3. k \in Nat /\ m0.idx <= k - 1 /\ k <= Len(m0.line)
          BY ONLY <5>1, <5>2
        <5> QED
          BY ONLY <5>1, <5>3
      <4>6. PICK h \in m0.idx + 1 .. k - 1 : m0.line[h].type \in {"and", "or"}
        BY <4>2, <4>3, <4>4, <4>5 DEF ReadsItsPipes
      <4>7. h \in m0.idx + 1 .. c.idx - 1
        BY <4>4
      <4> QED
        BY <4>4, <4>6, <4>7 DEF Operators
    <3>5. PipeEnds(r.fds) \cap {0, 1} = {} /\ PipeEnds(r.fds) \subseteq {m2.fd.input}
      BY <1>4, <1>13, <3>1, <3>2, <3>3, <3>4
    <3> QED
      BY <1>10, <3>5 DEF EndsKept, Idle
  <2> QED
    BY <1>4, <1>12, <1>13, <2>1, <2>2 DEF Local
<1> QED
  BY ONLY Memories, Locals, UNCHANGED input, p \in 1 .. Len(proc), <1>2, <1>13, LocalsQuiet
(* The first stage is not forked. *)
LEMMA SkipStageLocals ==
  ASSUME Memories, Locals, NEW p, SkipStage(p)
  PROVE  Locals'
<1>1. /\ p \in 1 .. Len(proc) /\ mem[p].pc = "skip" /\ proc[p].state = "shell"
      /\ DOMAIN mem[p] = MemoryFields /\ FdsFit(mem[p], proc[p], script)
  BY HereLocal DEF SkipStage
<1>2. AtPipe(mem[p])
  BY <1>1 DEF FdsFit
<1>3. NextStage(p, mem[p]) /\ UNCHANGED input
  BY DEF SkipStage
<1> QED
  BY ONLY Memories, Locals, <1>1, <1>2, <1>3, NextStageLocals

(* A process is forked by p. *)
LEMMA LocalsFork ==
  ASSUME Memories, Locals, script' = script, offset' \in 0 .. Len(script), NEW p \in 1 .. Len(proc),
         NEW kind, NEW parent, NEW child, Fork(p, kind, parent, child),
         Local(parent, proc[p], script),
         \A r : DOMAIN r = RecordFields /\ r.state = kind /\ r.fds = proc[p].fds => Local(child, r, script)
  PROVE  Locals'
<1> DEFINE new == [proc[p] EXCEPT !.state = kind, !.parent = p, !.at = child.at, !.lineno = child.lineno]
<1>1. /\ Len(proc') = NewPid /\ NewPid = Len(proc) + 1
      /\ \A c \in 1 .. Len(proc) : proc'[c] = proc[c]
      /\ mem'[p] = parent /\ mem'[NewPid] = child
      /\ \A q \in 1 .. Len(proc) : q # p => mem'[q] = mem[q]
  BY ForkMoves DEF Memories
<1>2. DOMAIN proc[p] = RecordFields
  BY DEF Locals, Local
<1>3. DOMAIN new = RecordFields /\ new.state = kind /\ new.fds = proc[p].fds
  BY <1>2 DEF RecordFields
<1>4. proc' = Append(proc, new)
  BY DEF Fork
<1> HIDE DEF new
<1>5. proc'[NewPid] = new
  BY <1>4, AppendSeq DEF Memories, Processes, NewPid
<1>6. Local(mem'[NewPid], proc'[NewPid], script) /\ Local(mem'[p], proc'[p], script)
  BY <1>1, <1>3, <1>5
<1>7. \A q \in 1 .. Len(proc') : q \in {p, NewPid} => Local(mem'[q], proc'[q], script)
  BY <1>6
<1>8. Len(proc) \in Nat
  BY DEF Memories, Processes
<1>9. \A q \in 1 .. Len(proc) : DOMAIN mem[q] = MemoryFields
  BY DEF Locals, Local
<1>10. \A q \in 1 .. Len(proc') : q \notin {p, NewPid} =>
           /\ q \in 1 .. Len(proc) /\ DOMAIN mem'[q] = MemoryFields
           /\ \/ mem'[q] = mem[q] /\ proc'[q] = proc[q]
              \/ DOMAIN proc'[q] = RecordFields /\ proc'[q].state \in {"ended", "reaped"}
  BY <1>1, <1>8, <1>9
<1> QED
  BY ONLY Locals, script' = script, offset' \in 0 .. Len(script), <1>7, <1>10, LocalsStep

(* A command is forked. *)
LEMMA ForkCommandLocals ==
  ASSUME Memories, Locals, NEW p, ForkCommand(p)
  PROVE  Locals'
<1> DEFINE m == mem[p]
           m2 == [m EXCEPT !.pc = "insert", !.pipe_pids = Append(@, NewPid)]
<1>1. /\ p \in 1 .. Len(proc) /\ m.pc = "fork" /\ proc[p].state = "shell"
      /\ DOMAIN proc[p] = RecordFields /\ DOMAIN m = MemoryFields
      /\ FdsFit(m, proc[p], script) /\ Follows(m)
      /\ PipedScripts => EndsKept(m, proc[p])
  BY HereLocal DEF ForkCommand
<1>2. Fork(p, "forked", m2, m) /\ script' = script /\ offset' \in 0 .. Len(script)
  BY DEF ForkCommand, input, Locals
<1>3. /\ DOMAIN m2 = MemoryFields /\ m2.unread = m.unread /\ m2.line = m.line /\ m2.prev_op = m.prev_op
      /\ m2.prev_exit_status_ = m.prev_exit_status_ /\ m2.prev_readfd_ = m.prev_readfd_
      /\ m2.at = m.at /\ m2.idx = m.idx /\ m2.first = m.first /\ m2.fd = m.fd /\ m2.pc = "insert"
  BY <1>1 DEF MemoryFields
<1> HIDE DEF m2, m
<1>4. (AtPipe(m2) <=> AtPipe(m)) /\ (Skips(m2) <=> Skips(m)) /\ \A k : AtHead(m2, k) <=> AtHead(m, k)
  BY <1>3 DEF AtPipe, Skips, Succeeded, AtHead
<1>5. Local(m2, proc[p], script)
  <2>1. FdsFit(m2, proc[p], script)
    BY <1>1, <1>3, <1>4 DEF FdsFit, Idle, Forking
  <2>2. Follows(m2)
    BY <1>1, <1>3, <1>4 DEF Follows, Working, Forking
  <2>3. PipedScripts => EndsKept(m2, proc[p])
    BY <1>1, <1>3, <1>4 DEF EndsKept, Idle
  <2> QED
    BY <1>1, <1>3, <2>1, <2>2, <2>3 DEF Local
<1>6. ASSUME NEW r, DOMAIN r = RecordFields, r.state = "forked", r.fds = proc[p].fds
      PROVE  Local(m, r, script)
  <2>1. FdsFit(m, r, script)
    BY <1>1, <1>6 DEF FdsFit, Idle, Forking
  <2> QED
    BY <1>1, <1>6, <2>1 DEF Local, EndsKept
<1> QED
  BY ONLY Memories, Locals, <1>1, <1>2, <1>5, <1>6, LocalsFork

(* The descriptors of a command that has been forked are closed.           *)
LEMMA InsertLocals ==
  ASSUME Memories, Locals, NEW p, Insert(p)
  PROVE  Locals'
<1> DEFINE m == [mem[p] EXCEPT !.cur_childs = Inserted(mem[p])]
           m2 == [m EXCEPT !.pc = "wait"]
           fds0 == proc[p].fds
           fds1 == closeFd(fds0, m.fd)
<1>1. /\ p \in 1 .. Len(proc) /\ mem[p].pc = "insert" /\ proc[p].state = "shell"
      /\ DOMAIN proc[p] = RecordFields /\ DOMAIN mem[p] = MemoryFields
      /\ FdsFit(mem[p], proc[p], script) /\ Follows(mem[p])
      /\ PipedScripts => EndsKept(mem[p], proc[p])
  BY HereLocal DEF Insert
<1>2. DOMAIN m = MemoryFields /\ \A f \in MemoryFields \ {"cur_childs"} : m[f] = mem[p][f]
  BY <1>1 DEF MemoryFields
<1>3. UNCHANGED input
  BY DEF Insert
<1>4. CASE AtPipe(mem[p])
  <2>1. NextStage(p, m)
    BY <1>2, <1>4 DEF Insert, AtPipe, MemoryFields
  <2> HIDE DEF m
  <2> QED
    BY ONLY Memories, Locals, <1>1, <1>2, <1>3, <1>4, <2>1, NextStageLocals
<1>5. CASE ~AtPipe(mem[p])
  <2>1. mem' = [mem EXCEPT ![p] = m2] /\ proc' = [proc EXCEPT ![p].fds = fds1]
    <3>1. TypeAt(m.line, m.idx) # "pipe"
      BY <1>2, <1>5 DEF AtPipe, MemoryFields
    <3> QED
      BY <3>1 DEF Insert
  <2>2. /\ DOMAIN m2 = MemoryFields /\ m2.pc = "wait"
        /\ \A f \in MemoryFields \ {"cur_childs", "pc"} : m2[f] = mem[p][f]
    BY <1>2 DEF MemoryFields
  <2>3. /\ m2.unread = mem[p].unread /\ m2.line = mem[p].line /\ m2.at = mem[p].at /\ m2.idx = mem[p].idx
        /\ m2.fd = mem[p].fd
    BY <2>2 DEF MemoryFields
  <2>4. Table(fds0) /\ Fits(mem[p].fd) /\ fds1 = closeFd(fds0, mem[p].fd)
    BY <1>1, <1>2 DEF FdsFit, MemoryFields
  <2> HIDE DEF m, m2, fds0, fds1
  <2>5. /\ Table(fds1) /\ \A n \in DOMAIN fds1 : fds1[n] = fds0[n]
        /\ \A n : n \in DOMAIN fds1 <=>
             n \in DOMAIN fds0 /\ (n = mem[p].fd.input => n = 0) /\ (n = mem[p].fd.output => n = 1)
    <3>1. PICK fd : fd = mem[p].fd
      OBVIOUS
    <3>2. Fits(fd) /\ fds1 = closeFd(fds0, fd)
      BY <2>4, <3>1
    <3>3. /\ Table(fds1) /\ \A n \in DOMAIN fds1 : fds1[n] = fds0[n]
          /\ \A n : n \in DOMAIN fds1 <=> n \in DOMAIN fds0 /\ (n = fd.input => n = 0) /\ (n = fd.output => n = 1)
      BY ONLY <2>4, <3>2, CloseFd
    <3> QED
      BY <3>1, <3>3
  <2>6. ASSUME NEW r, DOMAIN r = RecordFields, r.state = proc[p].state, r.fds = fds1
        PROVE  Local(m2, r, script)
    <3>1. FdsFit(m2, r, script)
      BY <1>1, <2>2, <2>3, <2>5, <2>6 DEF FdsFit, Idle, Forking
    <3>2. Follows(m2)
      <4>1. ~AtPipe(m2)
        BY <1>5, <2>3 DEF AtPipe
      <4> QED
        BY <1>1, <2>2, <2>3, <4>1 DEF Follows, Working, Forking
    <3>3. PipedScripts => EndsKept(m2, r)
      <4>1. PipeEnds(fds1) \subseteq PipeEnds(fds0)
        BY <2>5 DEF PipeEnds
      <4>2. ASSUME PipedScripts
            PROVE  PipeEnds(fds1) = {}
        <5>1. /\ PipeEnds(fds0) \cap {0, 1} = {}
              /\ PipeEnds(fds0) \subseteq {mem[p].fd.input, mem[p].fd.output}
          BY <1>1, <1>5, <4>2 DEF EndsKept, fds0
        <5> QED
          BY <2>5, <4>1, <5>1 DEF PipeEnds
      <4> QED
        BY <2>2, <2>6, <4>2 DEF EndsKept
    <3> QED
      BY <2>2, <2>6, <3>1, <3>2, <3>3 DEF Local
  <2> QED
    BY ONLY Memories, Locals, <1>1, <1>3, <2>1, <2>6, LocalsQuiet
<1> QED
  BY <1>4, <1>5
(* Processes are waited for by p, which changes its memory.                *)
LEMMA LocalsReap ==
  ASSUME Memories, Locals, UNCHANGED input, NEW p \in 1 .. Len(proc), NEW m, NEW ps, p \notin ps,
         proc' = Reaped(ps), mem' = [mem EXCEPT ![p] = m], Local(m, proc[p], script)
  PROVE  Locals'
<1>1. DOMAIN proc = 1 .. Len(proc) /\ Len(proc) \in Nat \ {0}
  BY SeqFacts DEF Memories, Processes
<1>2. proc' = [q \in 1 .. Len(proc) |-> IF q \in ps THEN [proc[q] EXCEPT !.state = "reaped"] ELSE proc[q]]
  BY <1>1 DEF Reaped
<1>3. Len(proc') = Len(proc)
  BY <1>1, <1>2, MakeSeq
<1>4. mem'[p] = m /\ \A q \in 1 .. Len(proc) : q # p => mem'[q] = mem[q]
  BY MemReplaced DEF Memories
<1>5. \A q \in 1 .. Len(proc) : DOMAIN mem[q] = MemoryFields /\ DOMAIN proc[q] = RecordFields
  BY DEF Locals, Local
<1>6. \A q \in 1 .. Len(proc) : q \in ps => DOMAIN proc'[q] = RecordFields /\ proc'[q].state = "reaped"
  BY <1>2, <1>5 DEF RecordFields
<1>7. \A q \in 1 .. Len(proc) : q \notin ps => proc'[q] = proc[q]
  BY <1>2
<1>8. script' = script /\ offset' \in 0 .. Len(script)
  BY DEF input, Locals
<1>9. \A q \in 1 .. Len(proc') : q \in {p} => Local(mem'[q], proc'[q], script)
  BY <1>4, <1>7
<1>10. \A q \in 1 .. Len(proc') : q \notin {p} =>
           /\ q \in 1 .. Len(proc) /\ DOMAIN mem'[q] = MemoryFields
           /\ \/ mem'[q] = mem[q] /\ proc'[q] = proc[q]
              \/ DOMAIN proc'[q] = RecordFields /\ proc'[q].state \in {"ended", "reaped"}
  BY <1>3, <1>4, <1>5, <1>6, <1>7
<1> QED
  BY ONLY Locals, <1>8, <1>9, <1>10, LocalsStep

(* A command has been waited for. *)
LEMMA WaitpidLocals ==
  ASSUME Memories, Locals, NEW p, Waitpid(p)
  PROVE  Locals'
<1> DEFINE m0 == mem[p]
           child == m0.pipe_pids[m0.i]
           m == [m0 EXCEPT !.cur_childs = Erased(m0)]
           m2 == IF m.i < Len(m.pipe_pids) THEN [m EXCEPT !.i = @ + 1]
                 ELSE [m EXCEPT !.prev_exit_status_ = DecidingStatus(m), !.prev_readfd_ = 0, !.pc = "next"]
<1>1. /\ p \in 1 .. Len(proc) /\ m0.pc = "wait" /\ proc[p].state = "shell"
      /\ DOMAIN proc[p] = RecordFields /\ DOMAIN m0 = MemoryFields
      /\ FdsFit(m0, proc[p], script) /\ Follows(m0)
      /\ PipedScripts => EndsKept(m0, proc[p])
  BY HereLocal DEF Waitpid
<1>2. /\ proc[child].state = "ended" /\ proc' = Reaped({child}) /\ mem' = [mem EXCEPT ![p] = m2]
      /\ UNCHANGED input
  BY DEF Waitpid
<1>3. p \notin {child}
  BY <1>1, <1>2
<1>4. DOMAIN m = MemoryFields /\ \A f \in MemoryFields \ {"cur_childs"} : m[f] = m0[f]
  BY <1>1 DEF MemoryFields
<1>5. DOMAIN m = MemoryFields /\ m.pc = "wait"
  BY <1>1, <1>4 DEF MemoryFields
<1> HIDE DEF m
<1>6. /\ DOMAIN m2 = MemoryFields
      /\ m2.pc = "wait" \/ (m2.pc = "next" /\ m2.prev_readfd_ = 0)
      /\ m2.unread = m0.unread /\ m2.line = m0.line /\ m2.at = m0.at /\ m2.idx = m0.idx /\ m2.fd = m0.fd
  BY <1>4, <1>5 DEF MemoryFields
<1> HIDE DEF m2, child, m0
<1>7. FdsFit(m2, proc[p], script)
  BY <1>1, <1>6 DEF FdsFit, Idle, Forking
<1>8. Follows(m2)
  <2>1. (AtPipe(m2) <=> AtPipe(m0))
    BY <1>6 DEF AtPipe
  <2> QED
    BY <1>1, <1>6, <2>1 DEF Follows, Working, Forking
<1>9. PipedScripts => EndsKept(m2, proc[p])
  BY <1>1, <1>6 DEF EndsKept, Idle
<1>10. Local(m2, proc[p], script)
  BY <1>1, <1>6, <1>7, <1>8, <1>9 DEF Local
<1> QED
  BY ONLY Memories, Locals, <1>1, <1>2, <1>3, <1>10, LocalsReap

(* The next command of the line, or the next line. *)
LEMMA NextCallLocals ==
  ASSUME Memories, Locals, NEW p, NextCall(p)
  PROVE  Locals'
<1> DEFINE m == mem[p]
           idx == IF m.idx <= Len(m.line) THEN m.idx + 1 ELSE m.idx
           m2 == [m EXCEPT
                  !.subprocesses_ = Remaining(p), !.idx = idx,
                  !.prev_op = IF m.idx <= Len(m.line) THEN m.line[m.idx].type ELSE @,
                  !.pc = IF idx <= Len(m.line) THEN "call"
                         ELSE IF p = Main THEN "getline" ELSE "exit"]
           ps == Watched(p)
<1>1. /\ p \in 1 .. Len(proc) /\ m.pc = "next" /\ proc[p].state = "shell"
      /\ DOMAIN proc[p] = RecordFields /\ DOMAIN m = MemoryFields
      /\ FdsFit(m, proc[p], script) /\ Follows(m)
      /\ PipedScripts => EndsKept(m, proc[p])
  BY HereLocal DEF NextCall
<1>2. proc' = Reaped(ps) /\ mem' = [mem EXCEPT ![p] = m2] /\ UNCHANGED input
  BY DEF NextCall
<1>3. p \notin ps
  BY <1>1 DEF Watched
<1>4. /\ DOMAIN m2 = MemoryFields /\ m2.unread = m.unread /\ m2.line = m.line /\ m2.fd = m.fd
      /\ m2.prev_readfd_ = m.prev_readfd_ /\ m2.idx = idx
      /\ m2.prev_op = IF m.idx <= Len(m.line) THEN m.line[m.idx].type ELSE m.prev_op
      /\ m2.pc = IF idx <= Len(m.line) THEN "call" ELSE IF p = Main THEN "getline" ELSE "exit"
  BY <1>1 DEF MemoryFields
<1> HIDE DEF m2, m, ps
<1>5. m2.pc \in {"call", "getline", "exit"}
  BY <1>4
<1>6. FdsFit(m2, proc[p], script)
  BY <1>1, <1>4, <1>5 DEF FdsFit, Idle, Forking
<1>7. ASSUME Ordinary(m.line), idx <= Len(m.line)
      PROVE  AtHead(m2, m2.idx)
  <2>1. Len(m.line) \in Nat /\ DOMAIN m.line = 1 .. Len(m.line)
    BY <1>7, LineFacts
  <2>2. /\ m.at \in 1 .. Len(m.line) /\ m.idx \in m.at + 1 .. Len(m.line) + 1
        /\ TypeAt(m.line, m.idx) \in {"none", "subprocess"} \cup Operators /\ ~AtPipe(m)
    BY <1>1, <1>7 DEF Follows, Passed
  <2>3. m.idx \in 1 .. Len(m.line) /\ m.idx > 1 /\ idx = m.idx + 1 /\ idx \in 1 .. Len(m.line)
    BY <1>7, <2>1, <2>2
  <2>4. TypeAt(m.line, m.idx) = m.line[m.idx].type
    BY <1>7, <2>3, LineFacts
  <2>5. m.line[m.idx].type \in Operators
    <3>1. m.idx # Len(m.line) /\ m.idx \in DOMAIN m.line
      BY <1>7, <2>1, <2>3
    <3>2. m.line[m.idx].type # "subprocess" /\ m.line[m.idx].type # "none"
      BY <1>7, <3>1 DEF Ordinary, Operators, Redirections
    <3> QED
      BY <2>2, <2>4, <3>2
  <2>6. m.line[m.idx].type \in {"and", "or"}
    BY <2>2, <2>4, <2>5 DEF AtPipe, Operators
  <2>7. TypeAt(m.line, m.idx + 1) = "argument"
    BY <1>7, <2>1, <2>3, <2>5 DEF Ordinary
  <2>8. m.line[idx].type = "argument"
    BY <1>7, <2>3, <2>7, LineFacts
  <2>9. idx # 1 /\ idx - 1 = m.idx /\ m2.prev_op = m.line[m.idx].type
    BY <1>4, <2>1, <2>3
  <2> HIDE DEF idx
  <2> QED
    BY <1>4, <2>3, <2>6, <2>8, <2>9 DEF AtHead
<1>8. Follows(m2)
  BY <1>4, <1>5, <1>7 DEF Follows, Working, Forking
<1>9. PipedScripts => EndsKept(m2, proc[p])
  BY <1>1, <1>5 DEF EndsKept, Idle
<1>10. Local(m2, proc[p], script)
  BY <1>1, <1>4, <1>6, <1>8, <1>9 DEF Local
<1> QED
  BY ONLY Memories, Locals, <1>1, <1>2, <1>3, <1>10, LocalsReap
(* A line that has lexems begins with a command. *)
LEMMA LineBegins ==
  ASSUME NEW line, Ordinary(line), line # <<>>
  PROVE  1 \in 1 .. Len(line) /\ line[1].type = "argument"
<1>1. Len(line) \in Nat /\ line \in Seq(ToSet(line)) /\ line[1].type = "argument"
  BY LineFacts DEF Ordinary, IsSeq
<1>2. Len(line) # 0
  BY <1>1, EmptySeq
<1> QED
  BY <1>1, <1>2

(* The next line, here or in a copy of the shell. *)
LEMMA GetlineLocals ==
  ASSUME Memories, Locals, Getline
  PROVE  Locals'
<1> DEFINE m0 == mem[Main]
           unread == IF mem[Main].unread > 0 THEN mem[Main].unread ELSE Len(script) - offset
           n == Len(script) - unread + 1
           m == [mem[Main] EXCEPT !.unread = unread - 1, !.line = script[n], !.idx = 1,
                             !.lineno = @ + 1, !.at = 0, !.prev_op = "", !.prev_exit_status_ = 0]
           m2 == [m EXCEPT !.subprocesses_ = @ \cup {NewPid}]
           child == [m EXCEPT !.pc = "call"]
           m3 == [m EXCEPT !.pc = IF script[n] = <<>> THEN @ ELSE "call"]
<1>1. /\ Main \in 1 .. Len(proc) /\ m0.pc = "getline" /\ proc[Main].state = "shell"
      /\ DOMAIN proc[Main] = RecordFields /\ DOMAIN m0 = MemoryFields
      /\ FdsFit(m0, proc[Main], script) /\ Follows(m0)
      /\ PipedScripts => EndsKept(m0, proc[Main])
  BY HereLocal DEF Getline
<1>2. /\ unread > 0 /\ script' = script
      /\ offset' = IF mem[Main].unread > 0 THEN offset ELSE Len(script)
      /\ \/ script[n] # <<>> /\ Fork(Main, "shell", m2, child)
         \/ mem' = [mem EXCEPT ![Main] = m3] /\ proc' = proc
  BY DEF Getline
<1>3. Len(script) \in Nat /\ offset \in 0 .. Len(script) /\ m0.unread \in 0 .. Len(script)
  BY <1>1, ScriptLen DEF Locals, FdsFit
<1>4. unread \in 1 .. Len(script) /\ n \in 1 .. Len(script) /\ offset' \in 0 .. Len(script)
  BY <1>2, <1>3
<1>5. /\ DOMAIN m = MemoryFields /\ m.unread = unread - 1 /\ m.line = script[n] /\ m.idx = 1
      /\ m.prev_op = "" /\ m.pc = "getline" /\ m.fd = m0.fd /\ m.prev_readfd_ = m0.prev_readfd_
  BY <1>1 DEF MemoryFields
<1> HIDE DEF m
<1>6. /\ DOMAIN m2 = MemoryFields /\ m2.unread = unread - 1 /\ m2.line = script[n] /\ m2.idx = 1
      /\ m2.prev_op = "" /\ m2.pc = "getline" /\ m2.fd = m0.fd /\ m2.prev_readfd_ = m0.prev_readfd_
  BY <1>5 DEF MemoryFields
<1>7. /\ DOMAIN child = MemoryFields /\ child.unread = unread - 1 /\ child.line = script[n] /\ child.idx = 1
      /\ child.prev_op = "" /\ child.pc = "call" /\ child.fd = m0.fd /\ child.prev_readfd_ = m0.prev_readfd_
  BY <1>5 DEF MemoryFields
<1>8. /\ DOMAIN m3 = MemoryFields /\ m3.unread = unread - 1 /\ m3.line = script[n] /\ m3.idx = 1
      /\ m3.prev_op = "" /\ m3.fd = m0.fd /\ m3.prev_readfd_ = m0.prev_readfd_
      /\ m3.pc \in {"getline", "call"} /\ (m3.pc = "call" => script[n] # <<>>)
  BY <1>5 DEF MemoryFields
<1> HIDE DEF m2, child, m3, m0
<1>9. ASSUME NEW k, DOMAIN k = MemoryFields, k.unread = unread - 1, k.line = script[n], k.idx = 1,
             k.prev_op = "", k.fd = m0.fd, k.prev_readfd_ = m0.prev_readfd_, k.pc \in {"getline", "call"},
             k.pc = "call" => script[n] # <<>>,
             NEW r, DOMAIN r = RecordFields, r.state = "shell", r.fds = proc[Main].fds
      PROVE  Local(k, r, script)
  <2>1. k.unread \in 0 .. Len(script) /\ k.line \in Lines(script)
    <3>1. unread - 1 \in 0 .. Len(script)
      BY <1>3, <1>4
    <3>2. script[n] \in Lines(script)
      BY <1>4 DEF Lines
    <3> HIDE DEF unread, n
    <3> QED
      BY <1>9, <3>1, <3>2
  <2>2. FdsFit(k, r, script)
    BY <1>1, <1>9, <2>1 DEF FdsFit, Idle, Forking
  <2>3. ASSUME Ordinary(k.line), k.pc = "call"
        PROVE  AtHead(k, k.idx)
    <3>1. 1 \in 1 .. Len(k.line) /\ k.line[1].type = "argument"
      BY <1>9, <2>3, LineBegins
    <3> QED
      BY <1>9, <3>1 DEF AtHead
  <2>4. Follows(k)
    BY <1>9, <2>3 DEF Follows, Working, Forking
  <2>5. PipedScripts => EndsKept(k, r)
    BY <1>1, <1>9 DEF EndsKept, Idle
  <2> QED
    BY <1>9, <2>2, <2>4, <2>5 DEF Local
<1>10. CASE script[n] # <<>> /\ Fork(Main, "shell", m2, child)
  <2>1. Local(m2, proc[Main], script)
    BY <1>1, <1>6, <1>9
  <2>2. \A r : DOMAIN r = RecordFields /\ r.state = "shell" /\ r.fds = proc[Main].fds => Local(child, r, script)
    BY <1>7, <1>9, <1>10
  <2>3. Fork(Main, "shell", m2, child)
    BY <1>10
  <2> QED
    BY ONLY Memories, Locals, <1>1, <1>2, <1>4, <2>1, <2>2, <2>3, LocalsFork
<1>11. CASE mem' = [mem EXCEPT ![Main] = m3] /\ proc' = proc
  <2>1. Local(m3, proc[Main], script)
    BY <1>1, <1>8, <1>9
  <2>2. mem'[Main] = m3 /\ \A q \in 1 .. Len(proc) : q # Main => mem'[q] = mem[q]
    BY <1>1, <1>11, MemReplaced DEF Memories
  <2>3. \A q \in 1 .. Len(proc) : Local(mem'[q], proc[q], script)
    BY <2>1, <2>2 DEF Locals
  <2> QED
    BY <1>2, <1>4, <1>11, <2>3 DEF Locals
<1> QED
  BY <1>2, <1>10, <1>11

(* Processes end, and the memory of one of them may be gone.               *)
LEMMA LocalsEnd ==
  ASSUME Memories, Locals, script' = script, offset' \in 0 .. Len(script), NEW ps, NEW status,
         EndProcesses(ps, status), mem' = mem \/ \E c \in ps \cap (1 .. Len(proc)) : mem' = [mem EXCEPT ![c] = NoMemory]
  PROVE  Locals'
<1>1. DOMAIN proc = 1 .. Len(proc) /\ Len(proc) \in Nat \ {0}
  BY SeqFacts DEF Memories, Processes
<1>2. proc' = [q \in 1 .. Len(proc) |->
                 IF q \in ps THEN [proc[q] EXCEPT !.state = "ended", !.status = status, !.fds = NoFds] ELSE proc[q]]
  BY <1>1 DEF EndProcesses
<1>3. Len(proc') = Len(proc)
  BY <1>1, <1>2, MakeSeq
<1>4. \A q \in 1 .. Len(proc) : DOMAIN mem[q] = MemoryFields /\ DOMAIN proc[q] = RecordFields
  BY DEF Locals, Local
<1>5. \A q \in 1 .. Len(proc) : q \in ps => DOMAIN proc'[q] = RecordFields /\ proc'[q].state = "ended"
  BY <1>2, <1>4 DEF RecordFields
<1>6. \A q \in 1 .. Len(proc) : q \notin ps => proc'[q] = proc[q]
  BY <1>2
<1>7. \A q \in 1 .. Len(proc) : DOMAIN mem'[q] = MemoryFields /\ (q \notin ps => mem'[q] = mem[q])
  <2>1. ASSUME NEW c \in ps \cap (1 .. Len(proc)), mem' = [mem EXCEPT ![c] = NoMemory]
        PROVE  \A q \in 1 .. Len(proc) : DOMAIN mem'[q] = MemoryFields /\ (q \notin ps => mem'[q] = mem[q])
    <3>1. mem'[c] = NoMemory /\ \A q \in 1 .. Len(proc) : q # c => mem'[q] = mem[q]
      BY <2>1, MemReplaced DEF Memories
    <3>2. DOMAIN NoMemory = MemoryFields
      BY DEF NoMemory, MemoryFields
    <3> QED
      BY <1>4, <3>1, <3>2
  <2> QED
    BY <1>4, <2>1
<1>e. PICK none : none = {}
  OBVIOUS
<1>8. \A q \in 1 .. Len(proc') : q \in none => Local(mem'[q], proc'[q], script)
  BY <1>e
<1>9. \A q \in 1 .. Len(proc') : q \notin none =>
           /\ q \in 1 .. Len(proc) /\ DOMAIN mem'[q] = MemoryFields
           /\ \/ mem'[q] = mem[q] /\ proc'[q] = proc[q]
              \/ DOMAIN proc'[q] = RecordFields /\ proc'[q].state \in {"ended", "reaped"}
  BY <1>3, <1>5, <1>6, <1>7
<1> QED
  BY ONLY Locals, script' = script, offset' \in 0 .. Len(script), <1>8, <1>9, LocalsStep

(* A copy of the shell gives back no more than has been read. *)
LEMMA GivenBackIs ==
  ASSUME Locals, NEW p \in 1 .. Len(proc), proc[p].state \in {"shell", "forked"}
  PROVE  GivenBack(p) \in 0 .. Len(script)
<1>1. Len(script) \in Nat /\ offset \in 0 .. Len(script) /\ mem[p].unread \in 0 .. Len(script)
  BY ScriptLen DEF Locals, Local, FdsFit
<1> QED
  BY <1>1 DEF GivenBack

(* The shell leaves its loop. *)
LEMMA EndOfInputLocals ==
  ASSUME Memories, Locals, EndOfInput
  PROVE  Locals'
<1> DEFINE m == [mem[Main] EXCEPT !.pc = "watch"]
<1>1. /\ Main \in 1 .. Len(proc) /\ mem[Main].pc = "getline" /\ Local(mem[Main], proc[Main], script)
      /\ DOMAIN mem[Main] = MemoryFields /\ DOMAIN proc[Main] = RecordFields
  BY HereLocal DEF EndOfInput, Locals
<1>2. proc' = proc /\ mem' = [mem EXCEPT ![Main] = m] /\ UNCHANGED input
  BY DEF EndOfInput
<1>3. /\ DOMAIN m = MemoryFields /\ m.pc = "watch"
      /\ m.unread = mem[Main].unread /\ m.line = mem[Main].line /\ m.fd = mem[Main].fd
      /\ m.prev_readfd_ = mem[Main].prev_readfd_
  BY <1>1 DEF MemoryFields
<1> HIDE DEF m
<1>4. mem'[Main] = m /\ \A q \in 1 .. Len(proc) : q # Main => mem'[q] = mem[q]
  BY <1>1, <1>2, MemReplaced DEF Memories
<1>5. FdsFit(m, proc[Main], script) /\ Follows(m) /\ (PipedScripts => EndsKept(m, proc[Main]))
  BY <1>1, <1>3 DEF Local, FdsFit, Follows, EndsKept, Idle, Working, Forking
<1>6. Local(m, proc[Main], script)
  BY <1>1, <1>3, <1>5 DEF Local
<1> QED
  BY <1>2, <1>4, <1>6 DEF Locals, input

(* The shell ends. *)
LEMMA TerminalWatchLocals ==
  ASSUME Memories, Locals, TerminalWatch
  PROVE  Locals'
<1> DEFINE m == [mem[Main] EXCEPT !.subprocesses_ = {}]
           ps == mem[Main].subprocesses_
           pr == Reaped(ps)
<1>1. /\ Main \in 1 .. Len(proc) /\ proc[Main].state = "shell"
      /\ DOMAIN proc[Main] = RecordFields /\ DOMAIN mem[Main] = MemoryFields
  BY HereLocal DEF TerminalWatch
<1>2. /\ \A c \in ps : proc[c].state \in {"ended", "reaped"}
      /\ proc' = [pr EXCEPT ![Main].state = "ended", ![Main].fds = NoFds]
      /\ mem' = [mem EXCEPT ![Main] = m] /\ UNCHANGED input
  BY DEF TerminalWatch
<1>3. mem'[Main] = m /\ \A q \in 1 .. Len(proc) : q # Main => mem'[q] = mem[q]
  BY <1>1, <1>2, MemReplaced DEF Memories
<1>4. DOMAIN m = MemoryFields
  BY <1>1
<1> HIDE DEF m
<1>5. DOMAIN proc = 1 .. Len(proc) /\ Len(proc) \in Nat \ {0}
  BY SeqFacts DEF Memories, Processes
<1>6. pr = [q \in 1 .. Len(proc) |-> IF q \in ps THEN [proc[q] EXCEPT !.state = "reaped"] ELSE proc[q]]
  BY <1>5 DEF Reaped
<1> HIDE DEF pr
<1>7. proc' = [q \in 1 .. Len(proc) |->
                 IF q = Main THEN [pr[q] EXCEPT !.state = "ended", !.fds = NoFds] ELSE pr[q]]
  BY <1>1, <1>2, <1>6
<1>8. Len(proc') = Len(proc)
  BY <1>5, <1>7, MakeSeq
<1>9. \A q \in 1 .. Len(proc) : DOMAIN mem[q] = MemoryFields /\ DOMAIN proc[q] = RecordFields
  BY DEF Locals, Local
<1>10. \A q \in 1 .. Len(proc) : q \in ps => DOMAIN pr[q] = RecordFields /\ pr[q].state = "reaped"
  BY <1>6, <1>9 DEF RecordFields
<1>11. \A q \in 1 .. Len(proc) : q \notin ps => pr[q] = proc[q]
  BY <1>6
<1>12. DOMAIN pr[Main] = RecordFields
  BY <1>1, <1>10, <1>11
<1>13. DOMAIN proc'[Main] = RecordFields /\ proc'[Main].state = "ended"
  BY <1>1, <1>7, <1>12 DEF RecordFields
<1>14. \A q \in 1 .. Len(proc) : q # Main => proc'[q] = pr[q]
  BY <1>7
<1>e. PICK none : none = {}
  OBVIOUS
<1>15. \A q \in 1 .. Len(proc') : q \in none => Local(mem'[q], proc'[q], script)
  BY <1>e
<1>16. \A q \in 1 .. Len(proc') : q \notin none =>
           /\ q \in 1 .. Len(proc) /\ DOMAIN mem'[q] = MemoryFields
           /\ \/ mem'[q] = mem[q] /\ proc'[q] = proc[q]
              \/ DOMAIN proc'[q] = RecordFields /\ proc'[q].state \in {"ended", "reaped"}
  BY <1>3, <1>4, <1>8, <1>9, <1>10, <1>11, <1>13, <1>14
<1>17. script' = script /\ offset' \in 0 .. Len(script)
  BY <1>2 DEF input, Locals
<1> QED
  BY ONLY Locals, <1>15, <1>16, <1>17, LocalsStep
(* A program goes on. *)
LEMMA LocalsProgram ==
  ASSUME Memories, Locals, UNCHANGED input, NEW c \in 1 .. Len(proc),
         DOMAIN proc' = DOMAIN proc, proc' = [q \in DOMAIN proc |-> proc'[q]],
         \A q \in DOMAIN proc : q # c => proc'[q] = proc[q],
         DOMAIN proc'[c] = RecordFields, proc'[c].state = "runs", Table(proc'[c].fds),
         mem' = mem \/ mem' = [mem EXCEPT ![c] = NoMemory]
  PROVE  Locals'
<1>1. DOMAIN proc = 1 .. Len(proc) /\ Len(proc) \in Nat \ {0}
  BY SeqFacts DEF Memories, Processes
<1>2. Len(proc') = Len(proc)
  <2>1. proc' = [q \in 1 .. Len(proc) |-> proc'[q]]
    BY <1>1
  <2> QED
    BY ONLY <1>1, <2>1, MakeSeq
<1>3. \A q \in 1 .. Len(proc) : DOMAIN mem[q] = MemoryFields
  BY DEF Locals, Local
<1>4. DOMAIN mem'[c] = MemoryFields /\ \A q \in 1 .. Len(proc) : q # c => mem'[q] = mem[q]
  <2>1. CASE mem' = [mem EXCEPT ![c] = NoMemory]
    <3>1. mem'[c] = NoMemory /\ \A q \in 1 .. Len(proc) : q # c => mem'[q] = mem[q]
      BY <2>1, MemReplaced DEF Memories
    <3>2. DOMAIN NoMemory = MemoryFields
      BY DEF NoMemory, MemoryFields
    <3> QED
      BY <3>1, <3>2
  <2> QED
    BY <1>3, <2>1
<1>5. Local(mem'[c], proc'[c], script)
  BY <1>4 DEF Local, FdsFit, EndsKept
<1>6. \A q \in 1 .. Len(proc') : q \in {c} => Local(mem'[q], proc'[q], script)
  BY <1>5
<1>7. \A q \in 1 .. Len(proc') : q \notin {c} =>
           /\ q \in 1 .. Len(proc) /\ DOMAIN mem'[q] = MemoryFields
           /\ \/ mem'[q] = mem[q] /\ proc'[q] = proc[q]
              \/ DOMAIN proc'[q] = RecordFields /\ proc'[q].state \in {"ended", "reaped"}
  BY <1>1, <1>2, <1>3, <1>4
<1>8. script' = script /\ offset' \in 0 .. Len(script)
  BY DEF input, Locals
<1> QED
  BY ONLY Locals, <1>6, <1>7, <1>8, LocalsStep

(* The copy becomes a program, or ends. *)
LEMMA ExecLocals ==
  ASSUME Memories, Locals, NEW c, Exec(c)
  PROVE  Locals'
<1> DEFINE name == mem[c].line[mem[c].at].lexem
<1>1. DOMAIN proc = 1 .. Len(proc)
  BY SeqFacts DEF Memories, Processes
<1>2. c \in 1 .. Len(proc) /\ proc[c].state = "forked" /\ mem' = [mem EXCEPT ![c] = NoMemory]
      /\ script' = script /\ taken' = taken
  BY <1>1 DEF Exec
<1>3. DOMAIN proc[c] = RecordFields /\ Table(proc[c].fds) /\ Fits(mem[c].fd)
  BY <1>2 DEF Locals, Local, FdsFit
<1>4. CASE name \in DOMAIN Output
  <2>0. PICK fd, t : fd = mem[c].fd /\ t = Dup(proc[c].fds, fd)
    OBVIOUS
  <2>1. proc' = [proc EXCEPT ![c].state = "runs", ![c].name = name, ![c].left = Output[name],
                             ![c].fds = t] /\ UNCHANGED input
    BY <1>2, <1>4, <2>0 DEF Exec, input
  <2>2. /\ DOMAIN proc' = DOMAIN proc /\ proc' = [q \in DOMAIN proc |-> proc'[q]]
        /\ \A q \in DOMAIN proc : q # c => proc'[q] = proc[q]
    BY <2>1
  <2>3. Table(t)
    BY <1>3, <2>0, DupFd
  <2>4. DOMAIN proc'[c] = RecordFields /\ proc'[c].state = "runs" /\ proc'[c].fds = t
    <3>1. proc'[c] = [proc[c] EXCEPT !.state = "runs", !.name = name, !.left = Output[name], !.fds = t]
      BY <1>1, <1>2, <2>1
    <3> HIDE DEF name
    <3> QED
      BY <1>3, <3>1 DEF RecordFields
  <2>5. Table(proc'[c].fds)
    BY <2>3, <2>4
  <2>6. UNCHANGED input /\ mem' = [mem EXCEPT ![c] = NoMemory] /\ c \in 1 .. Len(proc)
    BY <1>2, <2>1
  <2> QED
    BY ONLY Memories, Locals, <2>2, <2>4, <2>5, <2>6, LocalsProgram
<1>5. CASE name \notin DOMAIN Output
  <2>1. EndProcesses({c}, EXIT_FAILURE) /\ offset' \in {offset, GivenBack(c)}
    BY <1>5 DEF Exec
  <2>2. offset' \in 0 .. Len(script)
    BY <1>2, <2>1, GivenBackIs DEF Locals
  <2>3. \E q \in {c} \cap (1 .. Len(proc)) : mem' = [mem EXCEPT ![q] = NoMemory]
    BY <1>2
  <2> QED
    BY ONLY Memories, Locals, <1>2, <2>1, <2>2, <2>3, LocalsEnd
<1> QED
  BY <1>4, <1>5

(* A program writes, or is killed. *)
LEMMA WriteLocals ==
  ASSUME Memories, Locals, NEW c, Write(c)
  PROVE  Locals'
<1>1. DOMAIN proc = 1 .. Len(proc)
  BY SeqFacts DEF Memories, Processes
<1>2. c \in 1 .. Len(proc) /\ proc[c].state = "runs" /\ mem' = mem /\ UNCHANGED input
  BY <1>1 DEF Write, Runs
<1>3. script' = script /\ offset' \in 0 .. Len(script)
  BY <1>2 DEF input, Locals
<1>4. CASE EndProcesses({c}, Killed)
  BY ONLY Memories, Locals, <1>2, <1>3, <1>4, LocalsEnd
<1>5. CASE proc' = [proc EXCEPT ![c].left = @ - 1]
  <2>1. /\ DOMAIN proc' = DOMAIN proc /\ proc' = [q \in DOMAIN proc |-> proc'[q]]
        /\ \A q \in DOMAIN proc : q # c => proc'[q] = proc[q]
    BY <1>5
  <2>2. DOMAIN proc[c] = RecordFields /\ Table(proc[c].fds)
    BY <1>2 DEF Locals, Local, FdsFit
  <2>3. proc'[c] = [proc[c] EXCEPT !.left = @ - 1]
    BY <1>1, <1>2, <1>5
  <2>4. DOMAIN proc'[c] = RecordFields /\ proc'[c].state = "runs" /\ Table(proc'[c].fds)
    BY <1>2, <2>2, <2>3 DEF RecordFields
  <2> QED
    BY <1>2, <2>1, <2>4, LocalsProgram
<1> QED
  BY <1>4, <1>5 DEF Write

(* Processes end in the other ways. *)
LEMMA EndingsLocals ==
  ASSUME Memories, Locals, handler \/ (\E p : ExitSubprocess(p)) \/ (\E c : Exit(c))
  PROVE  Locals'
<1>1. script \in Scripts /\ offset \in 0 .. Len(script)
  BY DEF Locals
<1>2. CASE handler
  <2>1. EndProcesses(Interrupted, Killed) /\ mem' = mem /\ script' = script /\ offset' \in 0 .. Len(script)
    BY <1>1, <1>2 DEF handler, input
  <2> QED
    BY ONLY Memories, Locals, <2>1, LocalsEnd
<1>3. ASSUME NEW p, ExitSubprocess(p)
      PROVE  Locals'
  <2>1. p \in 1 .. Len(proc) /\ proc[p].state = "shell"
    BY <1>3, Here DEF ExitSubprocess
  <2>2. /\ EndProcesses({p}, WEXITSTATUS(mem[p].prev_exit_status_)) /\ mem' = mem /\ script' = script
        /\ offset' \in 0 .. Len(script)
    BY <1>3, <2>1, GivenBackIs DEF ExitSubprocess
  <2> QED
    BY ONLY Memories, Locals, <2>2, LocalsEnd
<1>4. ASSUME NEW c, Exit(c)
      PROVE  Locals'
  <2>1. PICK status \in Statuses : EndProcesses({c}, status)
    BY <1>4 DEF Exit
  <2>2. mem' = mem /\ script' = script /\ offset' \in 0 .. Len(script)
    BY <1>1, <1>4 DEF Exit, input
  <2> QED
    BY ONLY Memories, Locals, <2>1, <2>2, LocalsEnd
<1> QED
  BY <1>2, <1>3, <1>4

(* It holds at first. *)
LEMMA LocalsInit ==
  Init => Locals
<1> SUFFICES ASSUME Init PROVE Locals
  OBVIOUS
<1> DEFINE fds == [n \in 0 .. 2 |-> IF n = 0 THEN <<"script">> ELSE <<"out">>]
           r == [state |-> "shell", parent |-> 0, name |-> "shell", at |-> 0, lineno |-> 0, left |-> 0,
               status |-> 0, fds |-> fds]
<1>1. proc = <<r>> /\ mem = <<NoMemory>> /\ script \in Scripts /\ offset = 0
  BY DEF Init
<1>2. DOMAIN r = RecordFields /\ r.state = "shell" /\ r.fds = fds
  BY DEF RecordFields
<1> HIDE DEF r
<1>3. Len(proc) = 1 /\ proc[1] = r /\ mem[1] = NoMemory
  BY <1>1, OneSeq
<1>4. DOMAIN fds = 0 .. 2 /\ \A n \in 0 .. 2 : fds[n][1] \in {"script", "out"}
  OBVIOUS
<1> HIDE DEF fds
<1>5. Table(fds) /\ PipeEnds(fds) = {}
  <2>1. 0 \in Int /\ 2 \in Int
    OBVIOUS
  <2>2. IsFiniteSet(0 .. 2)
    BY <2>1, FS_Interval
  <2> QED
    BY <1>4, <2>2 DEF Table, PipeEnds
<1>6. /\ DOMAIN NoMemory = MemoryFields /\ NoMemory.pc = "getline" /\ NoMemory.unread = 0 /\ NoMemory.line = <<>>
      /\ Fits(NoMemory.fd) /\ NoMemory.prev_readfd_ = 0
  BY DEF NoMemory, MemoryFields, Fits
<1>7. Len(script) \in Nat
  BY <1>1, ScriptLen
<1>8. FdsFit(NoMemory, r, script)
  BY <1>2, <1>5, <1>6, <1>7 DEF FdsFit, Idle, Forking, Lines
<1>9. Follows(NoMemory)
  BY <1>6 DEF Follows, Working, Forking
<1>10. EndsKept(NoMemory, r)
  BY <1>2, <1>5, <1>6 DEF EndsKept
<1>11. Local(NoMemory, r, script)
  BY <1>2, <1>6, <1>8, <1>9, <1>10 DEF Local
<1> QED
  BY <1>1, <1>3, <1>7, <1>11 DEF Locals

(* Every step keeps it. *)
LEMMA LocalsNext ==
  ASSUME Memories, Locals, [Next]_vars
  PROVE  Locals'
<1>1. ASSUME proc' = proc, mem' = mem, UNCHANGED input
      PROVE  Locals'
  BY <1>1 DEF Locals, input
<1>2. CASE UNCHANGED vars
  BY <1>1, <1>2 DEF vars
<1>3. CASE Getline \/ EndOfInput \/ TerminalWatch \/ handler
  BY <1>3, GetlineLocals, EndOfInputLocals, TerminalWatchLocals, EndingsLocals
<1>4. ASSUME NEW p, ShellStep(p)
      PROVE  Locals'
  BY <1>4, StartCallLocals, MakePipeLocals, SkipStageLocals, ForkCommandLocals, InsertLocals, WaitpidLocals,
     NextCallLocals, EndingsLocals DEF ShellStep
<1>5. ASSUME NEW c, ProgramStep(c)
      PROVE  Locals'
  <2>1. Read(c) => proc' = proc /\ mem' = mem /\ UNCHANGED input
    BY DEF Read
  <2> QED
    BY <1>1, <1>5, <2>1, ExecLocals, WriteLocals, EndingsLocals DEF ProgramStep
<1> QED
  BY <1>2, <1>3, <1>4, <1>5 DEF Next
-----------------------------------------------------------------------------
(* What no step changes of a process: what it was forked for, and when it  *)
(* has ended, how.                                                         *)

Gone == {"ended", "reaped"}

Same(r, r2) ==
  /\ r2.parent = r.parent /\ r2.at = r.at /\ r2.lineno = r.lineno
  /\ r.state \in Gone => r2.status = r.status /\ r2.state \in Gone
  /\ r.state = "reaped" => r2.state = "reaped"
  /\ r2.state = "shell" => r.state = "shell"
  /\ r2.state \in {"forked", "runs"} => r.state \in {"forked", "runs"}

Continued(pr, pr2) ==
  /\ Len(pr) <= Len(pr2) /\ \A c \in 1 .. Len(pr) : Same(pr[c], pr2[c])
  /\ \A c \in Len(pr) + 1 .. Len(pr2) : pr2[c].parent \in 1 .. Len(pr) /\ pr2[c].state \in {"shell", "forked"}

(* No process begins. *)
LEMMA ContinuedAlike ==
  ASSUME Memories, NEW pr2, Len(pr2) = Len(proc), \A c \in 1 .. Len(proc) : Same(proc[c], pr2[c])
  PROVE  Continued(proc, pr2)
<1>1. Len(proc) \in Nat
  BY DEF Memories, Processes
<1> QED
  BY <1>1 DEF Continued

(* Processes that live end. *)
LEMMA ContinuedEnd ==
  ASSUME Memories, Locals, NEW ps, NEW status, EndProcesses(ps, status),
         \A c \in ps \cap (1 .. Len(proc)) : proc[c].state \notin Gone
  PROVE  Continued(proc, proc')
<1>1. DOMAIN proc = 1 .. Len(proc) /\ Len(proc) \in Nat
  BY SeqFacts DEF Memories, Processes
<1>2. proc' = [q \in 1 .. Len(proc) |->
                 IF q \in ps THEN [proc[q] EXCEPT !.state = "ended", !.status = status, !.fds = NoFds] ELSE proc[q]]
  BY <1>1 DEF EndProcesses
<1>3. Len(proc') = Len(proc)
  BY <1>1, <1>2, MakeSeq
<1>4. ASSUME NEW c \in 1 .. Len(proc)
      PROVE  Same(proc[c], proc'[c])
  <2>1. DOMAIN proc[c] = RecordFields
    BY DEF Locals, Local
  <2> QED
    BY <1>2, <2>1 DEF Same, Gone, RecordFields
<1> QED
  BY <1>3, <1>4, ContinuedAlike

(* Processes that have ended are waited for. *)
LEMMA ContinuedReap ==
  ASSUME Memories, Locals, NEW ps, \A c \in ps : proc[c].state \in Gone
  PROVE  Continued(proc, Reaped(ps))
<1> DEFINE pr == Reaped(ps)
<1>1. DOMAIN proc = 1 .. Len(proc) /\ Len(proc) \in Nat
  BY SeqFacts DEF Memories, Processes
<1>2. pr = [q \in 1 .. Len(proc) |-> IF q \in ps THEN [proc[q] EXCEPT !.state = "reaped"] ELSE proc[q]]
  BY <1>1 DEF Reaped
<1> HIDE DEF pr
<1>3. Len(pr) = Len(proc)
  BY <1>1, <1>2, MakeSeq
<1>4. ASSUME NEW c \in 1 .. Len(proc)
      PROVE  Same(proc[c], pr[c])
  <2>1. DOMAIN proc[c] = RecordFields
    BY DEF Locals, Local
  <2> QED
    BY <1>2, <2>1 DEF Same, Gone, RecordFields
<1>5. Continued(proc, pr)
  BY <1>3, <1>4, ContinuedAlike
<1> QED
  BY <1>5 DEF pr

(* A process changes, and does not end. *)
LEMMA ContinuedOne ==
  ASSUME Memories, NEW p \in 1 .. Len(proc), NEW r, proc' = [proc EXCEPT ![p] = r], Same(proc[p], r)
  PROVE  Continued(proc, proc')
<1>1. DOMAIN proc = 1 .. Len(proc) /\ Len(proc) \in Nat
  BY SeqFacts DEF Memories, Processes
<1>2. proc' = [q \in 1 .. Len(proc) |-> IF q = p THEN r ELSE proc[q]]
  BY <1>1
<1>3. Len(proc') = Len(proc)
  BY <1>1, <1>2, MakeSeq
<1>4. \A c \in 1 .. Len(proc) : Same(proc[c], proc'[c])
  BY <1>2 DEF Same
<1> QED
  BY <1>3, <1>4, ContinuedAlike

(* A process changes its descriptors. *)
LEMMA ContinuedFds ==
  ASSUME Memories, Locals, NEW p \in 1 .. Len(proc), NEW fds, proc' = [proc EXCEPT ![p].fds = fds]
  PROVE  Continued(proc, proc')
<1>1. DOMAIN proc[p] = RecordFields
  BY DEF Locals, Local
<1>2. PICK r : r = [proc[p] EXCEPT !.fds = fds]
  OBVIOUS
<1>3. Same(proc[p], r)
  BY <1>1, <1>2 DEF Same, RecordFields
<1>4. proc' = [proc EXCEPT ![p] = r]
  BY <1>2
<1> QED
  BY <1>3, <1>4, ContinuedOne

(* A process is forked. *)
LEMMA ContinuedFork ==
  ASSUME Memories, NEW p \in 1 .. Len(proc), NEW kind \in {"shell", "forked"}, NEW parent, NEW child,
         Fork(p, kind, parent, child)
  PROVE  Continued(proc, proc')
<1>1. /\ Len(proc') = NewPid /\ NewPid = Len(proc) + 1
      /\ proc'[NewPid].parent = p /\ proc'[NewPid].state = kind
      /\ \A c \in 1 .. Len(proc) : proc'[c] = proc[c]
  BY ForkMoves DEF Memories
<1>2. Len(proc) \in Nat
  BY DEF Memories, Processes
<1>3. \A c \in Len(proc) + 1 .. Len(proc') : c = NewPid
  BY <1>1, <1>2
<1> QED
  BY <1>1, <1>2, <1>3 DEF Continued, Same

(* Nothing of it changes. *)
LEMMA ContinuedStill ==
  ASSUME Memories, proc' = proc
  PROVE  Continued(proc, proc')
BY ContinuedAlike DEF Same

(* What the shell and its copies do. *)
LEMMA ContinuedShell ==
  ASSUME Memories, Locals, NEW p, ShellStep(p)
  PROVE  Continued(proc, proc')
<1>1. ASSUME NEW pc, At(p, pc)
      PROVE  p \in 1 .. Len(proc) /\ proc[p].state = "shell"
  BY <1>1, Here
<1>2. ASSUME NEW m, NextStage(p, m), p \in 1 .. Len(proc)
      PROVE  Continued(proc, proc')
  BY <1>2, ContinuedFds DEF NextStage
<1>3. CASE StartCall(p) \/ MakePipe(p) \/ SkipStage(p)
  <2>1. p \in 1 .. Len(proc)
    BY <1>1, <1>3 DEF StartCall, MakePipe, SkipStage
  <2>2. (\E fds : proc' = [proc EXCEPT ![p].fds = fds]) \/ \E m : NextStage(p, m)
    BY <1>3 DEF StartCall, MakePipe, SkipStage
  <2> QED
    BY <1>2, <2>1, <2>2, ContinuedFds
<1>4. CASE ForkCommand(p)
  <2>1. p \in 1 .. Len(proc)
    BY <1>1, <1>4 DEF ForkCommand
  <2>2. \E parent, child : Fork(p, "forked", parent, child)
    BY <1>4 DEF ForkCommand
  <2> QED
    BY <2>1, <2>2, ContinuedFork
<1>5. CASE Insert(p)
  <2>1. p \in 1 .. Len(proc)
    BY <1>1, <1>5 DEF Insert
  <2>2. (\E fds : proc' = [proc EXCEPT ![p].fds = fds]) \/ \E m : NextStage(p, m)
    BY <1>5 DEF Insert
  <2> QED
    BY <1>2, <2>1, <2>2, ContinuedFds
<1>6. CASE Waitpid(p)
  <2>1. PICK child : proc[child].state = "ended" /\ proc' = Reaped({child})
    BY <1>6 DEF Waitpid
  <2>2. \A c \in {child} : proc[c].state \in Gone
    BY <2>1 DEF Gone
  <2> QED
    BY <2>1, <2>2, ContinuedReap
<1>7. CASE NextCall(p)
  <2>1. proc' = Reaped(Watched(p)) /\ \A c \in Watched(p) : proc[c].state \in Gone
    BY <1>7 DEF NextCall, Watched, Gone
  <2> QED
    BY <2>1, ContinuedReap
<1>8. CASE ExitSubprocess(p)
  <2>1. EndProcesses({p}, WEXITSTATUS(mem[p].prev_exit_status_)) /\ proc[p].state = "shell"
    BY <1>1, <1>8 DEF ExitSubprocess
  <2>2. \A c \in {p} \cap (1 .. Len(proc)) : proc[c].state \notin Gone
    BY <2>1 DEF Gone
  <2> QED
    BY <2>1, <2>2, ContinuedEnd
<1> QED
  BY <1>3, <1>4, <1>5, <1>6, <1>7, <1>8 DEF ShellStep

(* What goes on beside them. *)
LEMMA ContinuedNext ==
  ASSUME Memories, Locals, [Next]_vars
  PROVE  Continued(proc, proc')
<1>1. CASE UNCHANGED vars
  BY <1>1, ContinuedStill DEF vars
<1>2. CASE Getline
  <2>1. Main \in 1 .. Len(proc)
    BY DEF Memories, Processes, Main
  <2>2. proc' = proc \/ \E parent, child : Fork(Main, "shell", parent, child)
    BY <1>2 DEF Getline
  <2> QED
    BY <2>1, <2>2, ContinuedStill, ContinuedFork
<1>3. CASE TerminalWatch
  <2> DEFINE ps == mem[Main].subprocesses_
             pr == Reaped(ps)
  <2>1. /\ \A c \in ps : proc[c].state \in Gone
        /\ proc' = [pr EXCEPT ![Main].state = "ended", ![Main].fds = NoFds]
        /\ Main \in 1 .. Len(proc) /\ proc[Main].state = "shell"
    BY <1>3, Here DEF TerminalWatch, Gone
  <2>2. Continued(proc, pr)
    BY <2>1, ContinuedReap
  <2>3. DOMAIN proc = 1 .. Len(proc) /\ Len(proc) \in Nat
    BY SeqFacts DEF Memories, Processes
  <2>4. pr = [q \in 1 .. Len(proc) |-> IF q \in ps THEN [proc[q] EXCEPT !.state = "reaped"] ELSE proc[q]]
    BY <2>3 DEF Reaped
  <2> HIDE DEF pr
  <2>5. pr[Main] = proc[Main] /\ DOMAIN proc[Main] = RecordFields
    BY <2>1, <2>4 DEF Gone, Locals, Local
  <2>6. proc' = [q \in 1 .. Len(proc) |->
                   IF q = Main THEN [pr[q] EXCEPT !.state = "ended", !.fds = NoFds] ELSE pr[q]]
    BY <2>1, <2>4
  <2>7. Len(proc') = Len(proc)
    BY <2>3, <2>6, MakeSeq
  <2>8. Same(proc[Main], proc'[Main])
    <3>1. PICK r : r = [proc[Main] EXCEPT !.state = "ended", !.fds = NoFds]
      OBVIOUS
    <3>2. proc'[Main] = r
      BY <2>1, <2>5, <2>6, <3>1
    <3>3. Same(proc[Main], r)
      BY ONLY <2>1, <2>5, <3>1 DEF Same, Gone, RecordFields
    <3> QED
      BY <3>2, <3>3
  <2>9. \A c \in 1 .. Len(proc) : Same(proc[c], proc'[c])
    BY <2>2, <2>6, <2>8 DEF Continued, Same
  <2> QED
    BY <2>7, <2>9, ContinuedAlike
<1>4. CASE handler
  <2>1. EndProcesses(Interrupted, Killed) /\ \A c \in Interrupted : proc[c].state \notin Gone
    BY <1>4 DEF handler, Interrupted, Gone
  <2> QED
    BY <2>1, ContinuedEnd
<1>5. ASSUME NEW c, ProgramStep(c)
      PROVE  Continued(proc, proc')
  <2>1. DOMAIN proc = 1 .. Len(proc)
    BY SeqFacts DEF Memories, Processes
  <2>2. c \in 1 .. Len(proc) /\ proc[c].state \in {"forked", "runs"} /\ DOMAIN proc[c] = RecordFields
    BY <1>5, <2>1 DEF ProgramStep, Exec, Read, Write, Exit, Runs, Locals, Local
  <2>3. ASSUME NEW status, EndProcesses({c}, status)
        PROVE  Continued(proc, proc')
    <3>1. \A q \in {c} \cap (1 .. Len(proc)) : proc[q].state \notin Gone
      BY <2>2 DEF Gone
    <3> QED
      BY <2>3, <3>1, ContinuedEnd
  <2>4. ASSUME NEW name, NEW left, NEW fds,
               proc' = [proc EXCEPT ![c].state = "runs", ![c].name = name, ![c].left = left, ![c].fds = fds]
        PROVE  Continued(proc, proc')
    <3>1. PICK r : r = [proc[c] EXCEPT !.state = "runs", !.name = name, !.left = left, !.fds = fds]
      OBVIOUS
    <3>2. Same(proc[c], r)
      BY <2>2, <3>1 DEF Same, Gone, RecordFields
    <3>3. proc' = [proc EXCEPT ![c] = r]
      BY <2>1, <2>2, <2>4, <3>1
    <3> QED
      BY <2>2, <3>2, <3>3, ContinuedOne
  <2>5. ASSUME proc' = [proc EXCEPT ![c].left = @ - 1]
        PROVE  Continued(proc, proc')
    <3>1. PICK r : r = [proc[c] EXCEPT !.left = @ - 1]
      OBVIOUS
    <3>2. Same(proc[c], r)
      BY <2>2, <3>1 DEF Same, Gone, RecordFields
    <3>3. proc' = [proc EXCEPT ![c] = r]
      BY <2>1, <2>2, <2>5, <3>1
    <3> QED
      BY <2>2, <3>2, <3>3, ContinuedOne
  <2>6. CASE Exec(c)
    <3> DEFINE name == mem[c].line[mem[c].at].lexem
    <3>1. \/ proc' = [proc EXCEPT ![c].state = "runs", ![c].name = name, ![c].left = Output[name],
                                  ![c].fds = Dup(@, mem[c].fd)]
          \/ EndProcesses({c}, EXIT_FAILURE)
      BY <2>6 DEF Exec
    <3> HIDE DEF name
    <3> QED
      BY <2>3, <2>4, <3>1
  <2>7. CASE Read(c)
    BY <2>7, ContinuedStill DEF Read
  <2>8. CASE Write(c)
    BY <2>3, <2>5, <2>8 DEF Write
  <2>9. CASE Exit(c)
    BY <2>3, <2>9 DEF Exit
  <2> QED
    BY <1>5, <2>6, <2>7, <2>8, <2>9 DEF ProgramStep
<1>6. CASE EndOfInput
  BY <1>6, ContinuedStill DEF EndOfInput
<1> QED
  BY <1>1, <1>2, <1>3, <1>4, <1>5, <1>6, ContinuedShell DEF Next
-----------------------------------------------------------------------------
(* What the kernel keeps of the pipes, and who forked whom.                *)

PipesFit == IsSeq(pipes) /\ \A k \in DOMAIN pipes : pipes[k] \in 0 .. PipeSize

Elders == \A p \in 1 .. Len(proc) : proc[p].parent < p

ShellLocal == Memories /\ Locals /\ PipesFit /\ Elders

(* One pipe is read from or written to. *)
LEMMA PipeChanges ==
  ASSUME PipesFit, NEW k, NEW n \in 0 .. PipeSize, pipes' = [pipes EXCEPT ![k] = n]
  PROVE  PipesFit'
<1>1. Len(pipes) \in Nat /\ DOMAIN pipes = 1 .. Len(pipes)
  BY SeqFacts DEF PipesFit
<1>2. pipes' = [i \in 1 .. Len(pipes) |-> IF i = k THEN n ELSE pipes[i]]
  BY <1>1
<1>3. IsSeq(pipes')
  BY <1>1, <1>2, MakeSeq
<1> QED
  BY <1>1, <1>2, <1>3 DEF PipesFit

(* A pipe holds what fits in it. *)
LEMMA PipesNext ==
  ASSUME PipesFit, [Next]_vars
  PROVE  PipesFit'
<1>1. ASSUME UNCHANGED pipes
      PROVE  PipesFit'
  BY <1>1 DEF PipesFit
<1>2. ASSUME NEW p, MakePipe(p)
      PROVE  PipesFit'
  <2>1. pipes' = Append(pipes, 0) /\ IsSeq(pipes)
    BY <1>2 DEF MakePipe, PipesFit
  <2>2. /\ IsSeq(pipes') /\ Len(pipes') = Len(pipes) + 1 /\ pipes'[Len(pipes) + 1] = 0
        /\ \A i \in 1 .. Len(pipes) : pipes'[i] = pipes[i]
    BY <2>1, AppendSeq
  <2>3. Len(pipes) \in Nat /\ DOMAIN pipes = 1 .. Len(pipes) /\ DOMAIN pipes' = 1 .. Len(pipes')
    BY <2>1, <2>2, SeqFacts
  <2>4. \A i \in DOMAIN pipes' : i \in DOMAIN pipes \/ i = Len(pipes) + 1
    BY <2>2, <2>3
  <2>5. 0 \in 0 .. PipeSize
    BY ConstantsAssumption
  <2> QED
    BY <2>2, <2>3, <2>4, <2>5 DEF PipesFit
<1>3. ASSUME NEW k, NEW d \in {1, -1}, pipes' = [pipes EXCEPT ![k] = @ + d],
             k \in DOMAIN pipes => pipes[k] + d \in 0 .. PipeSize
      PROVE  PipesFit'
  <2>1. CASE k \in DOMAIN pipes
    BY <1>3, <2>1, PipeChanges
  <2>2. CASE k \notin DOMAIN pipes
    <3>1. pipes' = pipes
      BY <1>3, <2>2, SeqFacts DEF PipesFit
    <3> QED
      BY <1>1, <3>1
  <2> QED
    BY <2>1, <2>2
<1>4. ASSUME NEW c, Read(c)
      PROVE  PipesFit'
  <2>1. PICK k : k = In(c)[2]
    OBVIOUS
  <2>2. pipes' = [pipes EXCEPT ![k] = @ + (-1)] /\ pipes[k] > 0
    BY <1>4, <2>1 DEF Read
  <2>3. k \in DOMAIN pipes => pipes[k] + (-1) \in 0 .. PipeSize
    BY <2>2, ConstantsAssumption DEF PipesFit
  <2> QED
    BY <1>3, <2>2, <2>3
<1>5. ASSUME NEW c, Write(c)
      PROVE  PipesFit'
  <2>1. PICK k : k = Out(c)[2]
    OBVIOUS
  <2>2. pipes' = pipes \/ (pipes' = [pipes EXCEPT ![k] = @ + 1] /\ pipes[k] < PipeSize)
    BY <1>5, <2>1 DEF Write
  <2>3. pipes[k] < PipeSize /\ k \in DOMAIN pipes => pipes[k] + 1 \in 0 .. PipeSize
    BY <2>2, ConstantsAssumption DEF PipesFit
  <2> QED
    BY <1>1, <1>3, <2>2, <2>3
<1>6. ASSUME NEW p, ShellStep(p)
      PROVE  PipesFit'
  BY <1>1, <1>2, <1>6 DEF ShellStep, StartCall, SkipStage, ForkCommand, Insert, Waitpid, NextCall, ExitSubprocess
<1>7. ASSUME NEW c, ProgramStep(c)
      PROVE  PipesFit'
  BY <1>1, <1>4, <1>5, <1>7 DEF ProgramStep, Exec, Exit
<1> QED
  BY <1>1, <1>6, <1>7 DEF Next, Getline, EndOfInput, TerminalWatch, handler, vars

(* Who forks is older. *)
LEMMA EldersNext ==
  ASSUME Memories, Locals, Elders, [Next]_vars
  PROVE  Elders'
<1>1. Continued(proc, proc') /\ Len(proc) \in Nat
  BY ContinuedNext DEF Memories, Processes
<1>2. Len(proc') \in Nat
  BY MemoriesNext DEF Memories, Processes
<1>3. ASSUME NEW p \in 1 .. Len(proc')
      PROVE  proc'[p].parent < p
  <2>1. CASE p \in 1 .. Len(proc)
    BY <1>1, <2>1 DEF Elders, Continued, Same
  <2>2. CASE p \notin 1 .. Len(proc)
    <3>1. p \in Len(proc) + 1 .. Len(proc')
      BY <1>1, <1>2, <2>2
    <3>2. proc'[p].parent \in 1 .. Len(proc)
      BY <1>1, <3>1 DEF Continued
    <3> QED
      BY <1>1, <1>2, <3>1, <3>2
  <2> QED
    BY <2>1, <2>2
<1> QED
  BY <1>3 DEF Elders

(* What each process has among its descriptors and in its memory goes      *)
(* together, whatever the others do: the descriptors its variables name    *)
(* are open; while it works off a line that is Ordinary it is where a      *)
(* command begins or ends; and if all scripts are PipedScripts, every end  *)
(* of a pipe it holds is in its variables: runshell.cpp:44-86, 219-267.    *)
THEOREM LocalInvariance ==
  Spec => []ShellLocal
<1>1. Init => PipesFit
  <2> SUFFICES ASSUME Init PROVE PipesFit
    OBVIOUS
  <2>1. pipes = <<>>
    BY DEF Init
  <2>2. IsSeq(<<>>) /\ DOMAIN <<>> = {}
    <3>1. <<>> \in Seq(ToSet(<<>>)) /\ Len(<<>>) = 0
      BY EmptySeq
    <3>2. DOMAIN <<>> = 1 .. Len(<<>>)
      BY <3>1, LenProperties
    <3> QED
      BY <3>1, <3>2 DEF IsSeq
  <2> QED
    BY <2>1, <2>2 DEF PipesFit
<1>2. Init => Elders
  <2> SUFFICES ASSUME Init PROVE Elders
    OBVIOUS
  <2>1. Processes(proc)
    BY MemoriesInit DEF Memories
  <2>2. Len(proc) = 1
    BY OneSeq DEF Init
  <2> QED
    BY <2>1, <2>2 DEF Elders, Processes, Main
<1>3. Init => ShellLocal
  BY <1>1, <1>2, MemoriesInit, LocalsInit DEF ShellLocal
<1>4. ShellLocal /\ [Next]_vars => ShellLocal'
  BY MemoriesNext, LocalsNext, PipesNext, EldersNext DEF ShellLocal
<1> QED
  BY <1>3, <1>4, PTL DEF Spec

(* What follows of it for the types. *)
LEMMA LocalTypes ==
  ShellLocal => TypeOK
<1> SUFFICES ASSUME ShellLocal PROVE TypeOK
  OBVIOUS
<1>1. DOMAIN proc = 1 .. Len(proc) /\ Len(mem) = Len(proc) /\ offset \in 0 .. Len(script)
  BY SeqFacts DEF ShellLocal, Memories, Processes, Locals
<1>2. \A k \in DOMAIN pipes : pipes[k] \in 0 .. PipeSize
  BY DEF ShellLocal, PipesFit
<1>3. ASSUME NEW p \in DOMAIN proc
      PROVE  /\ proc[p].parent < p
             /\ proc[p].state \in {"shell", "forked", "runs"} => 0 .. 2 \subseteq DOMAIN proc[p].fds
             /\ proc[p].state = "shell" =>
                  /\ mem[p].unread \in 0 .. Len(script)
                  /\ mem[p].cur_childs \subseteq Children(p)
                  /\ mem[p].pc \in {"pipe", "skip", "fork", "insert", "wait"} =>
                       ToSet(mem[p].pipe_pids) \subseteq Children(p)
                  /\ mem[p].pc \in {"pipe", "skip", "fork", "insert"} =>
                       {mem[p].fd.input, mem[p].fd.output} \subseteq DOMAIN proc[p].fds
  <2>1. p \in 1 .. Len(proc) /\ FdsFit(mem[p], proc[p], script)
    BY <1>1 DEF ShellLocal, Locals, Local
  <2>2. proc[p].parent < p
    BY <2>1 DEF ShellLocal, Elders
  <2>3. ASSUME proc[p].state \in {"shell", "forked", "runs"}
        PROVE  0 .. 2 \subseteq DOMAIN proc[p].fds
    <3>1. Table(proc[p].fds)
      BY <2>1, <2>3 DEF FdsFit
    <3>2. \A n \in 0 .. 2 : n \in {0, 1, 2}
      OBVIOUS
    <3> QED
      BY <3>1, <3>2 DEF Table
  <2>4. ASSUME proc[p].state = "shell", mem[p].pc \in {"pipe", "skip", "fork", "insert", "wait"}
        PROVE  ToSet(mem[p].pipe_pids) \subseteq Children(p)
    <3>1. Known(mem[p], p, proc)
      BY <2>1, <2>4 DEF ShellLocal, Memories
    <3>2. OwnStages(mem[p], p, proc)
      BY <2>4, <3>1 DEF Known, Working, Forking
    <3>3. DOMAIN mem[p].pipe_pids = 1 .. Len(mem[p].pipe_pids)
      BY <3>2, SeqFacts DEF OwnStages
    <3> QED
      BY <1>1, <3>2, <3>3 DEF OwnStages, ToSet, Children
  <2>5. ASSUME proc[p].state = "shell"
        PROVE  mem[p].cur_childs \subseteq Children(p)
    <3>1. Known(mem[p], p, proc)
      BY <2>1, <2>5 DEF ShellLocal, Memories
    <3>2. CASE mem[p].pc \in Idle
      BY <3>1, <3>2 DEF Known
    <3>3. CASE mem[p].pc \in Working
      <4>1. OwnStages(mem[p], p, proc)
        BY <3>1, <3>3 DEF Known
      <4>2. Len(mem[p].pipe_pids) \in Nat
        BY <4>1, SeqFacts DEF OwnStages
      <4>3. mem[p].cur_childs \subseteq Stages(mem[p], 1, Len(mem[p].pipe_pids))
        BY <3>1, <3>3, <4>2 DEF Known, Working, Stages
      <4> QED
        BY <1>1, <4>1, <4>3 DEF OwnStages, Stages, Children
    <3> QED
      BY <3>1, <3>2, <3>3 DEF Known
  <2> QED
    BY <2>1, <2>2, <2>3, <2>4, <2>5 DEF FdsFit, Forking
<1> QED
  BY <1>1, <1>2, <1>3 DEF TypeOK

(* cur_childs and pipe_pids are children of the process that has them,     *)
(* descriptors 0 to 2 stay open while a process lives, and so do those of  *)
(* the command under way until they are closed, for all lines, programs    *)
(* and signals: runshell.cpp:44-86, 100-108, 172-204, 219-253.             *)
THEOREM ShellTypes ==
  Spec => []TypeOK
BY LocalInvariance, LocalTypes, PTL

(* Of a pipeline no end of a pipe is left open, if its stages read from    *)
(* the pipes: runshell.cpp:62-69, 215-247.                                 *)
THEOREM PipesAreClosed ==
  ASSUME PipedScripts
  PROVE  Spec => []NoPipeIsLeft
<1>1. ASSUME ShellLocal, At(Main, "getline")
      PROVE  \A n \in DOMAIN proc[Main].fds : proc[Main].fds[n][1] \notin {"r", "w"}
  <2>1. EndsKept(mem[Main], proc[Main]) /\ mem[Main].pc = "getline" /\ proc[Main].state = "shell"
    BY <1>1, HereLocal DEF ShellLocal
  <2> QED
    BY <2>1 DEF EndsKept, Idle, PipeEnds
<1>2. ShellLocal => NoPipeIsLeft
  BY <1>1 DEF NoPipeIsLeft
<1> QED
  BY <1>2, LocalInvariance, PTL
-----------------------------------------------------------------------------
(* What && and || decide.  The commands that p has forked for line number  *)
(* n, in the table pr of processes, and which of them decides of the       *)
(* command that begins at h: the last of those whose pipeline ends there.  *)

Ran(n, p, pr) == {c \in 1 .. Len(pr) : pr[c].parent = p /\ pr[c].lineno = n /\ pr[c].at > 0}

RanAt(n, p, pr, h) == \E c \in Ran(n, p, pr) : pr[c].at = h

Distinct(n, p, pr) == \A c, d \in Ran(n, p, pr) : pr[c].at = pr[d].at => c = d

Decides(line, n, p, pr, h, d) ==
  /\ d \in Ran(n, p, pr) /\ pr[d].at < h /\ EndsPipeline(line, pr[d].at)
  /\ \A e \in Ran(n, p, pr) : pr[e].at < h /\ EndsPipeline(line, pr[e].at) => pr[e].at <= pr[d].at

Led(line, n, p, pr, h, status) ==
  \E d \in Ran(n, p, pr) : Decides(line, n, p, pr, h, d) /\ pr[d].state \in Gone /\ pr[d].status = status

Wanted(line, h, status) ==
  (line[h - 1].type = "and" /\ status = 0) \/ (line[h - 1].type = "or" /\ status # 0)

(* The command at h was run if and only if it should have been.            *)
Right(line, n, p, pr, h) ==
  IF h = 1 THEN RanAt(n, p, pr, h)
  ELSE \E d \in Ran(n, p, pr) :
         /\ Decides(line, n, p, pr, h, d) /\ pr[d].state \in Gone
         /\ RanAt(n, p, pr, h) <=> Wanted(line, h, pr[d].status)

(* How far the line has been decided of, and how far it has been run.      *)
DecidedTo(m) ==
  IF m.pc = "call" THEN m.idx - 1 ELSE IF m.pc \in Forking /\ m.first THEN m.at - 1 ELSE m.at

Reached(m) == IF m.pc = "call" THEN m.idx - 1 ELSE IF m.pc \in Forking THEN m.at - 1 ELSE m.at

Busy == Working \cup {"call", "next", "exit"}

Newest(m) == m.pipe_pids[Len(m.pipe_pids)]

LineRight(m, p, pr) ==
  /\ m.lineno \in Nat
  /\ \A c \in 1 .. Len(pr) : pr[c].parent = p => pr[c].lineno <= m.lineno
  /\ m.pc \in Busy =>
       /\ Distinct(m.lineno, p, pr)
       /\ \A c \in Ran(m.lineno, p, pr) : pr[c].at <= Reached(m)
       /\ \A h \in Heads(m.line) : h <= DecidedTo(m) => Right(m.line, m.lineno, p, pr, h)
  /\ m.pc = "call" /\ m.idx # 1 => Led(m.line, m.lineno, p, pr, m.idx, m.prev_exit_status_)
  /\ m.pc \in Forking /\ m.first /\ m.at # 1 => Led(m.line, m.lineno, p, pr, m.at, m.prev_exit_status_)
  /\ m.pc \in {"insert", "wait"} => Newest(m) \in Ran(m.lineno, p, pr) /\ pr[Newest(m)].at = m.at
  /\ m.pc = "next" => Led(m.line, m.lineno, p, pr, m.at + 1, m.prev_exit_status_)
  /\ m.pc = "exit" => Led(m.line, m.lineno, p, pr, Len(m.line) + 1, m.prev_exit_status_)

(* A copy of the shell was forked by the shell, for a whole line.          *)
Kinds ==
  \A p \in 1 .. Len(proc) :
    /\ proc[p].at \in Nat /\ proc[p].lineno \in Nat
    /\ p # Main /\ proc[p].state = "shell" => proc[p].at = 0 /\ proc[p].parent = Main
    /\ proc[p].state \in {"forked", "runs"} => proc[p].at # 0

LinesRight ==
  \A p \in 1 .. Len(proc) : proc[p].state = "shell" =>
    LineRight(mem[p], p, proc) /\ (mem[p].pc = "exit" => p # Main)

(* Who decides is no other later on. *)
LEMMA RanLater ==
  ASSUME NEW pr, NEW pr2, Len(pr) \in Nat, Len(pr2) \in Nat, Continued(pr, pr2), NEW p,
         \A c \in Len(pr) + 1 .. Len(pr2) : pr2[c].parent # p, NEW n
  PROVE  /\ \A c : c \in Ran(n, p, pr2) <=> c \in Ran(n, p, pr)
         /\ \A c \in Ran(n, p, pr) : /\ pr2[c].at = pr[c].at
                                     /\ pr[c].state \in Gone => pr2[c].status = pr[c].status /\ pr2[c].state \in Gone
<1>1. \A c \in 1 .. Len(pr) : Same(pr[c], pr2[c]) /\ c \in 1 .. Len(pr2)
  BY DEF Continued
<1>2. \A c \in 1 .. Len(pr2) : c \in 1 .. Len(pr) \/ pr2[c].parent # p
  OBVIOUS
<1> QED
  BY <1>1, <1>2 DEF Ran, Same

(* Nor is what is decided. *)
LEMMA DecidedLater ==
  ASSUME NEW pr, NEW pr2, NEW n, NEW p,
         \A c : c \in Ran(n, p, pr2) <=> c \in Ran(n, p, pr),
         \A c \in Ran(n, p, pr) : /\ pr2[c].at = pr[c].at
                                  /\ pr[c].state \in Gone => pr2[c].status = pr[c].status /\ pr2[c].state \in Gone,
         NEW line, NEW h
  PROVE  /\ RanAt(n, p, pr2, h) <=> RanAt(n, p, pr, h)
         /\ \A d : Decides(line, n, p, pr, h, d) => Decides(line, n, p, pr2, h, d)
         /\ \A status : Led(line, n, p, pr, h, status) => Led(line, n, p, pr2, h, status)
         /\ Right(line, n, p, pr, h) => Right(line, n, p, pr2, h)
<1>1. RanAt(n, p, pr2, h) <=> RanAt(n, p, pr, h)
  BY DEF RanAt
<1>2. ASSUME NEW d, Decides(line, n, p, pr, h, d)
      PROVE  Decides(line, n, p, pr2, h, d)
  BY <1>2 DEF Decides
<1>3. ASSUME NEW status, Led(line, n, p, pr, h, status)
      PROVE  Led(line, n, p, pr2, h, status)
  BY <1>2, <1>3 DEF Led
<1>4. ASSUME Right(line, n, p, pr, h)
      PROVE  Right(line, n, p, pr2, h)
  BY <1>1, <1>2, <1>4 DEF Right
<1> QED
  BY <1>1, <1>2, <1>3, <1>4

(* What is right stays right as other processes go on. *)
LEMMA LineLater ==
  ASSUME NEW pr, NEW pr2, Len(pr) \in Nat, Len(pr2) \in Nat, Continued(pr, pr2), NEW p,
         \A c \in Len(pr) + 1 .. Len(pr2) : pr2[c].parent # p, NEW m, LineRight(m, p, pr)
  PROVE  LineRight(m, p, pr2)
<1> PICK n, line : n = m.lineno /\ line = m.line
  OBVIOUS
<1>1. /\ \A c : c \in Ran(n, p, pr2) <=> c \in Ran(n, p, pr)
      /\ \A c \in Ran(n, p, pr) : /\ pr2[c].at = pr[c].at
                                  /\ pr[c].state \in Gone => pr2[c].status = pr[c].status /\ pr2[c].state \in Gone
  BY RanLater
<1>2. \A h : /\ \A status : Led(line, n, p, pr, h, status) => Led(line, n, p, pr2, h, status)
             /\ Right(line, n, p, pr, h) => Right(line, n, p, pr2, h)
  BY <1>1, DecidedLater
<1>3. \A c \in 1 .. Len(pr2) : pr2[c].parent = p => pr2[c].lineno <= m.lineno
  <2>1. \A c \in 1 .. Len(pr2) : c \in 1 .. Len(pr) \/ pr2[c].parent # p
    OBVIOUS
  <2> QED
    BY <2>1 DEF LineRight, Continued, Same
<1>4. Distinct(n, p, pr) => Distinct(n, p, pr2)
  BY <1>1 DEF Distinct
<1> QED
  BY <1>1, <1>2, <1>3, <1>4 DEF LineRight

(* Lines. *)
LEMMA LineOrdinary ==
  ASSUME OrdinaryScripts, Locals, NEW p \in 1 .. Len(proc), proc[p].state \in {"shell", "forked"}
  PROVE  Ordinary(mem[p].line)
<1>1. mem[p].line \in Lines(script) /\ script \in Scripts
  BY DEF Locals, Local, FdsFit
<1>2. CASE mem[p].line = <<>>
  BY <1>2, EmptySeq DEF Ordinary, IsSeq
<1>3. CASE mem[p].line # <<>>
  BY <1>1, <1>3 DEF Lines, OrdinaryScripts
<1> QED
  BY <1>2, <1>3

(* Inside a command no other begins. *)
LEMMA NoHead ==
  ASSUME NEW line, Ordinary(line), NEW k \in 1 .. Len(line), NEW i, Passed(line, k, i),
         NEW h \in Heads(line)
  PROVE  /\ h \in 1 .. Len(line) /\ (h # 1 => line[h - 1].type \in {"and", "or"}) /\ (h > k => h > i)
         /\ TypeAt(line, i) = "pipe" /\ h > k => h > i + 1
<1>1. Len(line) \in Nat /\ DOMAIN line = 1 .. Len(line)
  BY LineFacts
<1>2. h \in 1 .. Len(line) /\ (h # 1 => line[h - 1].type \in {"and", "or"})
  BY <1>1 DEF Heads
<1>3. ASSUME h > k
      PROVE  h > i /\ (TypeAt(line, i) = "pipe" => h > i + 1)
  <2>1. h # 1 /\ h - 1 \in Nat /\ h - 1 >= k /\ i \in k + 1 .. Len(line) + 1
    BY <1>1, <1>2, <1>3 DEF Passed
  <2>2. h > i
    <3> SUFFICES ASSUME h - 1 \in k .. i - 1 PROVE FALSE
      BY <1>1, <1>2, <2>1
    <3> QED
      BY <1>2, <2>1 DEF Passed, Operators
  <2>3. ASSUME TypeAt(line, i) = "pipe"
        PROVE  h - 1 # i
    BY <1>2, <2>1, <2>3 DEF TypeAt
  <2> QED
    BY <1>1, <1>2, <2>1, <2>2, <2>3
<1> QED
  BY <1>2, <1>3

(* A command that no pipe follows ends its pipeline. *)
LEMMA EndsHere ==
  ASSUME NEW line, Ordinary(line), NEW k \in 1 .. Len(line), NEW i, Passed(line, k, i),
         TypeAt(line, i) \in {"none", "subprocess"} \cup Operators, TypeAt(line, i) # "pipe"
  PROVE  EndsPipeline(line, k)
<1>1. Len(line) \in Nat /\ DOMAIN line = 1 .. Len(line)
  BY LineFacts
<1> SUFFICES ASSUME NEW j \in k + 1 .. Len(line), line[j].type = "pipe",
                    \A h \in k + 1 .. j : line[h].type \notin {"and", "or"}
             PROVE  FALSE
  BY DEF EndsPipeline
<1>2. i \in k + 1 .. Len(line) + 1 /\ j \notin k .. i - 1
  BY DEF Passed, Operators
<1>3. j >= i /\ i \in 1 .. Len(line) /\ i \in k + 1 .. j
  BY <1>1, <1>2
<1>4. TypeAt(line, i) = line[i].type
  BY <1>3, LineFacts
<1>5. line[i].type = "subprocess"
  BY <1>3, <1>4, LineFacts DEF Ordinary, Operators, Redirections
<1>6. i = Len(line)
  BY <1>1, <1>3, <1>5 DEF Ordinary
<1> QED
  BY <1>1, <1>3, <1>5, <1>6
(* Who decides of a command decides of the next too, if none is run.       *)
LEMMA DecidesOn ==
  ASSUME NEW line, NEW n, NEW p, NEW pr, NEW h \in Nat, NEW g \in Nat, h <= g,
         \A c \in Ran(n, p, pr) : pr[c].at \in Nat /\ pr[c].at < h
  PROVE  /\ \A d : Decides(line, n, p, pr, h, d) => Decides(line, n, p, pr, g, d)
         /\ \A status : Led(line, n, p, pr, h, status) => Led(line, n, p, pr, g, status)
<1>1. ASSUME NEW d, Decides(line, n, p, pr, h, d)
      PROVE  Decides(line, n, p, pr, g, d)
  BY <1>1 DEF Decides
<1> QED
  BY <1>1 DEF Led

(* A command that the one before it excludes is not run, and rightly. *)
LEMMA SkippedRight ==
  ASSUME NEW m, NEW n, NEW p, NEW pr, NEW k, AtHead(m, k), Skips(m),
         k # 1 => Led(m.line, n, p, pr, k, m.prev_exit_status_),
         \A c \in Ran(n, p, pr) : pr[c].at # k
  PROVE  k # 1 /\ Right(m.line, n, p, pr, k)
<1>1. k # 1 /\ m.line[k - 1].type = m.prev_op
  BY DEF AtHead, Skips
<1>2. PICK d \in Ran(n, p, pr) : /\ Decides(m.line, n, p, pr, k, d) /\ pr[d].state \in Gone
                                 /\ pr[d].status = m.prev_exit_status_
  BY <1>1 DEF Led
<1>3. ~Wanted(m.line, k, pr[d].status)
  BY <1>1, <1>2 DEF Wanted, Skips, Succeeded
<1>4. ~RanAt(n, p, pr, k)
  BY DEF RanAt
<1> QED
  BY <1>1, <1>2, <1>3, <1>4 DEF Right

(* One that it allows is run, and rightly. *)
LEMMA RunRight ==
  ASSUME NEW m, NEW n, NEW p, NEW pr, NEW k, AtHead(m, k), ~Skips(m),
         k # 1 => Led(m.line, n, p, pr, k, m.prev_exit_status_), RanAt(n, p, pr, k)
  PROVE  Right(m.line, n, p, pr, k)
<1>1. CASE k = 1
  BY <1>1 DEF Right
<1>2. CASE k # 1
  <2>1. m.prev_op \in {"and", "or"} /\ m.line[k - 1].type = m.prev_op
    BY <1>2 DEF AtHead
  <2>2. PICK d \in Ran(n, p, pr) : /\ Decides(m.line, n, p, pr, k, d) /\ pr[d].state \in Gone
                                   /\ pr[d].status = m.prev_exit_status_
    BY <1>2 DEF Led
  <2>3. Wanted(m.line, k, pr[d].status)
    BY <2>1, <2>2 DEF Wanted, Skips, Succeeded
  <2> QED
    BY <1>2, <2>2, <2>3 DEF Right
<1> QED
  BY <1>1, <1>2

(* A command begins or is skipped. *)
LEMMA StartCallRight ==
  ASSUME NEW pr, NEW p, NEW m, LineRight(m, p, pr), Ordinary(m.line), m.pc = "call", AtHead(m, m.idx),
         \A c \in Ran(m.lineno, p, pr) : pr[c].at \in Nat,
         NEW m2, m2.line = m.line, m2.lineno = m.lineno, m2.prev_exit_status_ = m.prev_exit_status_,
         m2.at = m.idx, m2.first = TRUE, m2.pc \in {"pipe", "fork", "next"}, m2.pc = "next" => Skips(m)
  PROVE  LineRight(m2, p, pr)
<1> PICK n, line, k : n = m.lineno /\ line = m.line /\ k = m.idx
  OBVIOUS
<1>1. Len(line) \in Nat /\ DOMAIN line = 1 .. Len(line) /\ k \in 1 .. Len(line)
  BY LineFacts DEF AtHead
<1>2. /\ Distinct(n, p, pr) /\ \A c \in Ran(n, p, pr) : pr[c].at <= k - 1
      /\ \A h \in Heads(line) : h <= k - 1 => Right(line, n, p, pr, h)
      /\ k # 1 => Led(line, n, p, pr, k, m.prev_exit_status_)
  BY DEF LineRight, Busy, Reached, DecidedTo
<1>3. \A c \in Ran(n, p, pr) : pr[c].at \in Nat /\ pr[c].at < k
  BY <1>1, <1>2
<1>4. m2.pc \in Forking => DecidedTo(m2) = k - 1 /\ Reached(m2) = k - 1
  BY DEF DecidedTo, Reached, Forking
<1>5. CASE m2.pc # "next"
  <2>1. m2.pc \in Forking
    BY <1>5 DEF Forking
  <2> QED
    BY <1>2, <1>4, <2>1 DEF LineRight, Forking
<1>6. CASE m2.pc = "next"
  <2>1. DecidedTo(m2) = k /\ Reached(m2) = k
    BY <1>6 DEF DecidedTo, Reached, Forking
  <2>2. k # 1 /\ Right(line, n, p, pr, k)
    <3>1. Skips(m) /\ \A c \in Ran(n, p, pr) : pr[c].at # k
      BY <1>1, <1>3, <1>6
    <3> QED
      BY <1>2, <3>1, SkippedRight
  <2>3. \A h \in Heads(line) : h <= k => Right(line, n, p, pr, h)
    <3>1. \A h \in Heads(line) : h <= k => h <= k - 1 \/ h = k
      BY <1>1 DEF Heads
    <3> QED
      BY <1>2, <2>2, <3>1
  <2>4. Led(line, n, p, pr, k + 1, m2.prev_exit_status_)
    <3>1. k \in Nat /\ k + 1 \in Nat /\ k <= k + 1
      BY <1>1
    <3>2. Led(line, n, p, pr, k, m2.prev_exit_status_)
      BY <1>2, <2>2
    <3> QED
      BY <1>3, <3>1, <3>2, DecidesOn
  <2>5. \A c \in Ran(n, p, pr) : pr[c].at <= k
    BY <1>1, <1>3
  <2> QED
    BY <1>2, <1>6, <2>1, <2>3, <2>4, <2>5 DEF LineRight, Forking
<1> QED
  BY <1>5, <1>6

(* The next stage of a pipeline begins. *)
LEMMA NextStageRight ==
  ASSUME NEW pr, NEW p, NEW m, LineRight(m, p, pr), Ordinary(m.line), m.pc \in {"skip", "insert"},
         Follows(m), AtPipe(m),
         \A c \in Ran(m.lineno, p, pr) : pr[c].at \in Nat,
         NEW m2, m2.line = m.line, m2.lineno = m.lineno,
         m2.at = m.idx + 1, m2.first = FALSE, m2.pc \in {"pipe", "fork"}
  PROVE  LineRight(m2, p, pr)
<1> PICK n, line, k, i : n = m.lineno /\ line = m.line /\ k = m.at /\ i = m.idx
  OBVIOUS
<1>1. Len(line) \in Nat /\ DOMAIN line = 1 .. Len(line) /\ k \in 1 .. Len(line) /\ Passed(line, k, i)
  BY LineFacts DEF Follows, Working, Forking
<1>2. i \in k + 1 .. Len(line) + 1 /\ TypeAt(line, i) = "pipe"
  BY <1>1 DEF Passed, AtPipe
<1>3. \A h \in Heads(line) : h \in 1 .. Len(line) /\ (h > k => h > i + 1)
  BY <1>1, <1>2, NoHead
<1>4. Distinct(n, p, pr) /\ \A c \in Ran(n, p, pr) : pr[c].at <= Reached(m)
  BY DEF LineRight, Busy, Working, Forking
<1>5. \A h \in Heads(line) : h <= k => Right(line, n, p, pr, h)
  <2>1. CASE m.pc = "insert"
    BY <2>1 DEF LineRight, Busy, Working, DecidedTo, Forking
  <2>2. CASE m.pc = "skip"
    <3>1. m.first /\ Skips(m) /\ AtHead(m, k)
      BY <2>2 DEF Follows, Working, Forking
    <3>2. /\ \A h \in Heads(line) : h <= k - 1 => Right(line, n, p, pr, h)
          /\ k # 1 => Led(line, n, p, pr, k, m.prev_exit_status_)
          /\ \A c \in Ran(n, p, pr) : pr[c].at <= k - 1
      BY <2>2, <3>1 DEF LineRight, Busy, Working, DecidedTo, Reached, Forking
    <3>3. \A c \in Ran(n, p, pr) : pr[c].at # k
      BY <1>1, <3>2
    <3>4. Right(line, n, p, pr, k)
      BY <3>1, <3>2, <3>3, SkippedRight
    <3>5. \A h \in Heads(line) : h <= k => h <= k - 1 \/ h = k
      BY <1>1, <1>3
    <3> QED
      BY <3>2, <3>4, <3>5
  <2> QED
    BY <2>1, <2>2
<1>6. m2.pc \in Forking /\ DecidedTo(m2) = i + 1 /\ Reached(m2) = i
  <2>1. PICK a : a = i + 1
    OBVIOUS
  <2>2. m2.at = a
    BY <2>1
  <2>3. m2.pc \in Forking /\ DecidedTo(m2) = a /\ Reached(m2) = a - 1
    BY ONLY m2.pc \in {"pipe", "fork"}, m2.first = FALSE, <2>2 DEF DecidedTo, Reached, Forking
  <2>4. a - 1 = i
    BY ONLY <1>1, <1>2, <2>1
  <2> QED
    BY <2>1, <2>3, <2>4
<1>7. \A c \in Ran(n, p, pr) : pr[c].at <= i
  <2>1. Reached(m) \in {k, k - 1}
    BY DEF Reached
  <2> QED
    BY <1>1, <1>2, <1>4, <2>1
<1>8. \A h \in Heads(line) : h <= i + 1 => Right(line, n, p, pr, h)
  <2>1. \A h \in Heads(line) : h <= i + 1 => h <= k
    BY <1>1, <1>2, <1>3
  <2> QED
    BY <1>5, <2>1
<1> QED
  BY <1>4, <1>6, <1>7, <1>8 DEF LineRight, Forking

(* A pipeline has been waited for. *)
LEMMA WaitpidRight ==
  ASSUME NEW pr, NEW p, NEW m, LineRight(m, p, pr), Ordinary(m.line), m.pc = "wait", Follows(m),
         pr[Newest(m)].state \in Gone,
         \A c \in Ran(m.lineno, p, pr) : pr[c].at \in Nat,
         NEW m2, m2.line = m.line, m2.lineno = m.lineno, m2.at = m.at, m2.pc = "next",
         m2.prev_exit_status_ = pr[Newest(m)].status
  PROVE  LineRight(m2, p, pr)
<1> PICK n, line, k, d : n = m.lineno /\ line = m.line /\ k = m.at /\ d = Newest(m)
  OBVIOUS
<1>1. /\ Len(line) \in Nat /\ k \in 1 .. Len(line) /\ Passed(line, k, m.idx)
      /\ TypeAt(line, m.idx) \in {"none", "subprocess"} \cup Operators /\ TypeAt(line, m.idx) # "pipe"
  BY LineFacts DEF Follows, Working, AtPipe
<1>2. /\ Distinct(n, p, pr) /\ \A c \in Ran(n, p, pr) : pr[c].at <= k
      /\ \A h \in Heads(line) : h <= k => Right(line, n, p, pr, h)
      /\ d \in Ran(n, p, pr) /\ pr[d].at = k
  BY DEF LineRight, Busy, Working, Reached, DecidedTo, Forking
<1>3. Led(line, n, p, pr, k + 1, pr[d].status)
  <2>1. EndsPipeline(line, k) /\ k < k + 1
    BY <1>1, EndsHere
  <2>2. Decides(line, n, p, pr, k + 1, d)
    BY <1>2, <2>1 DEF Decides
  <2> QED
    BY <1>2, <2>2 DEF Led
<1>4. DecidedTo(m2) = k /\ Reached(m2) = k
  BY DEF DecidedTo, Reached, Forking
<1> QED
  BY <1>2, <1>3, <1>4 DEF LineRight, Forking

(* The line goes on or ends. *)
LEMMA NextCallRight ==
  ASSUME NEW pr, NEW p, NEW m, LineRight(m, p, pr), Ordinary(m.line), m.pc = "next", Follows(m),
         \A c \in Ran(m.lineno, p, pr) : pr[c].at \in Nat,
         NEW m2, m2.line = m.line, m2.lineno = m.lineno, m2.at = m.at,
         m2.prev_exit_status_ = m.prev_exit_status_,
         m2.pc \in {"call", "getline", "exit"}, m2.pc = "call" => m2.idx = m.idx + 1
  PROVE  LineRight(m2, p, pr)
<1> PICK n, line, k, i : n = m.lineno /\ line = m.line /\ k = m.at /\ i = m.idx
  OBVIOUS
<1>1. Len(line) \in Nat /\ k \in 1 .. Len(line) /\ Passed(line, k, i) /\ i \in k + 1 .. Len(line) + 1
  BY LineFacts DEF Follows, Passed
<1>2. /\ Distinct(n, p, pr) /\ \A c \in Ran(n, p, pr) : pr[c].at <= k
      /\ \A h \in Heads(line) : h <= k => Right(line, n, p, pr, h)
      /\ Led(line, n, p, pr, k + 1, m.prev_exit_status_)
  BY DEF LineRight, Busy, Reached, DecidedTo, Forking
<1>3. ASSUME NEW g \in Nat, k + 1 <= g
      PROVE  Led(line, n, p, pr, g, m.prev_exit_status_)
  <2>1. k + 1 \in Nat /\ \A c \in Ran(n, p, pr) : pr[c].at \in Nat /\ pr[c].at < k + 1
    BY <1>1, <1>2
  <2> QED
    BY <1>2, <1>3, <2>1, DecidesOn
<1>4. CASE m2.pc = "call"
  <2>1. DecidedTo(m2) = i /\ Reached(m2) = i
    <3>1. PICK a : a = i + 1
      OBVIOUS
    <3>2. m2.idx = a
      BY <1>4, <3>1
    <3>3. DecidedTo(m2) = a - 1 /\ Reached(m2) = a - 1
      BY ONLY <1>4, <3>2 DEF DecidedTo, Reached
    <3>4. a - 1 = i
      BY ONLY <1>1, <3>1
    <3> QED
      BY <3>3, <3>4
  <2>2. \A h \in Heads(line) : h <= i => h <= k
    <3>1. \A h \in Heads(line) : h \in 1 .. Len(line) /\ (h > k => h > i)
      BY <1>1, NoHead
    <3> QED
      BY <1>1, <3>1
  <2>3. Led(line, n, p, pr, i + 1, m.prev_exit_status_)
    BY <1>1, <1>3
  <2>4. \A c \in Ran(n, p, pr) : pr[c].at <= i
    BY <1>1, <1>2
  <2> QED
    BY <1>2, <1>4, <2>1, <2>2, <2>3, <2>4 DEF LineRight, Forking
<1>5. CASE m2.pc = "exit"
  <2>1. DecidedTo(m2) = k /\ Reached(m2) = k
    BY <1>5 DEF DecidedTo, Reached, Forking
  <2>2. Led(line, n, p, pr, Len(line) + 1, m.prev_exit_status_)
    BY <1>1, <1>3
  <2> QED
    BY <1>2, <1>5, <2>1, <2>2 DEF LineRight, Forking
<1>6. CASE m2.pc = "getline"
  BY <1>6 DEF LineRight, Busy, Working, Forking
<1> QED
  BY <1>4, <1>5, <1>6
(* A command that begins at h or behind it does not decide of it.          *)
LEMMA DecidedFork ==
  ASSUME NEW pr, NEW pr2, NEW n, NEW p, NEW new,
         \A c : c \in Ran(n, p, pr2) <=> c \in Ran(n, p, pr) \/ c = new,
         \A c \in Ran(n, p, pr) : pr2[c] = pr[c],
         NEW line, NEW h, ~(pr2[new].at < h)
  PROVE  /\ \A d : Decides(line, n, p, pr, h, d) => Decides(line, n, p, pr2, h, d)
         /\ \A status : Led(line, n, p, pr, h, status) => Led(line, n, p, pr2, h, status)
         /\ pr2[new].at # h /\ Right(line, n, p, pr, h) => Right(line, n, p, pr2, h)
<1>1. ASSUME NEW d, Decides(line, n, p, pr, h, d)
      PROVE  Decides(line, n, p, pr2, h, d)
  BY <1>1 DEF Decides
<1>2. ASSUME NEW status, Led(line, n, p, pr, h, status)
      PROVE  Led(line, n, p, pr2, h, status)
  BY <1>1, <1>2 DEF Led
<1>3. ASSUME pr2[new].at # h, Right(line, n, p, pr, h)
      PROVE  Right(line, n, p, pr2, h)
  <2>1. RanAt(n, p, pr2, h) <=> RanAt(n, p, pr, h)
    BY <1>3 DEF RanAt
  <2> QED
    BY <1>1, <1>3, <2>1 DEF Right
<1> QED
  BY <1>1, <1>2, <1>3

(* A command is forked. *)
LEMMA ForkRight ==
  ASSUME NEW pr, NEW p, NEW m, LineRight(m, p, pr), Ordinary(m.line), m.pc = "fork", Follows(m),
         Len(pr) \in Nat, \A c \in Ran(m.lineno, p, pr) : pr[c].at \in Nat,
         NEW pr2, NEW new, new = Len(pr) + 1, Len(pr2) = new,
         \A c \in 1 .. Len(pr) : pr2[c] = pr[c],
         pr2[new].parent = p, pr2[new].at = m.at, pr2[new].lineno = m.lineno,
         NEW m2, m2.line = m.line, m2.lineno = m.lineno, m2.at = m.at, m2.pc = "insert", Newest(m2) = new
  PROVE  LineRight(m2, p, pr2)
<1> PICK n, line, k : n = m.lineno /\ line = m.line /\ k = m.at
  OBVIOUS
<1>1. /\ Len(line) \in Nat /\ k \in 1 .. Len(line) /\ DOMAIN line = 1 .. Len(line)
      /\ IF m.first THEN AtHead(m, k) /\ ~Skips(m) ELSE k > 1 /\ line[k - 1].type = "pipe"
  BY LineFacts DEF Follows, Working, Forking
<1>2. \A c : c \in Ran(n, p, pr2) <=> c \in Ran(n, p, pr) \/ c = new
  <2>1. \A c : c \in 1 .. Len(pr2) <=> c \in 1 .. Len(pr) \/ c = new
    OBVIOUS
  <2>2. pr2[new].at > 0
    BY <1>1
  <2> QED
    BY <2>1, <2>2 DEF Ran
<1>3. \A c \in Ran(n, p, pr) : pr2[c] = pr[c]
  BY DEF Ran
<1>4. /\ Distinct(n, p, pr) /\ \A c \in Ran(n, p, pr) : pr[c].at <= k - 1
      /\ \A h \in Heads(line) : h <= k - 1 => Right(line, n, p, pr, h)
      /\ m.first /\ k # 1 => Led(line, n, p, pr, k, m.prev_exit_status_)
  <2>1. Reached(m) = k - 1 /\ DecidedTo(m) = IF m.first THEN k - 1 ELSE k
    BY DEF Reached, DecidedTo, Forking
  <2>2. \A h \in Heads(line) : h <= k - 1 => h <= DecidedTo(m)
    BY <1>1, <2>1 DEF Heads
  <2> QED
    BY <2>1, <2>2 DEF LineRight, Busy, Working, Forking
<1>5. \A c \in Ran(n, p, pr2) : pr2[c].at <= k
  BY <1>1, <1>2, <1>3, <1>4
<1>6. Distinct(n, p, pr2)
  <2>1. \A c \in Ran(n, p, pr) : pr2[c].at # k
    BY <1>1, <1>3, <1>4
  <2> QED
    BY <1>2, <1>3, <1>4, <2>1 DEF Distinct
<1>7. ASSUME NEW h \in Heads(line), h <= k
      PROVE  Right(line, n, p, pr2, h)
  <2>1. h \in 1 .. Len(line) /\ (h # 1 => line[h - 1].type \in {"and", "or"})
    BY <1>1 DEF Heads
  <2>2. ~(pr2[new].at < h)
    BY <1>1, <1>7, <2>1
  <2>3. CASE h = k
    <3>1. m.first /\ AtHead(m, k) /\ ~Skips(m)
      BY <1>1, <2>1, <2>3
    <3>2. k # 1 => Led(line, n, p, pr2, k, m.prev_exit_status_)
      BY <1>2, <1>3, <1>4, <2>2, <2>3, <3>1, DecidedFork
    <3>3. RanAt(n, p, pr2, k)
      BY <1>2 DEF RanAt
    <3> QED
      BY <2>3, <3>1, <3>2, <3>3, RunRight
  <2>4. CASE h # k
    <3>1. h <= k - 1 /\ pr2[new].at # h
      BY <1>1, <1>7, <2>1, <2>4
    <3>2. Right(line, n, p, pr, h)
      BY <1>4, <3>1
    <3> QED
      BY <1>2, <1>3, <2>2, <3>1, <3>2, DecidedFork
  <2> QED
    BY <2>3, <2>4
<1>8. DecidedTo(m2) = k /\ Reached(m2) = k
  BY DEF DecidedTo, Reached, Forking
<1>9. Newest(m2) \in Ran(n, p, pr2) /\ pr2[Newest(m2)].at = m2.at
  BY <1>2
<1>10. m2.lineno \in Nat /\ \A c \in 1 .. Len(pr2) : pr2[c].parent = p => pr2[c].lineno <= m2.lineno
  <2>1. \A c \in 1 .. Len(pr2) : c \in 1 .. Len(pr) \/ c = new
    OBVIOUS
  <2> QED
    BY <2>1 DEF LineRight
<1> QED
  BY <1>5, <1>6, <1>7, <1>8, <1>9, <1>10 DEF LineRight, Forking

(* A stage goes on where nothing is decided. *)
LEMMA StageRight ==
  ASSUME NEW pr, NEW p, NEW m, LineRight(m, p, pr),
         NEW m2, m2.line = m.line, m2.lineno = m.lineno, m2.at = m.at,
         m2.prev_exit_status_ = m.prev_exit_status_, m2.first = m.first, Newest(m2) = Newest(m),
         \/ m.pc = "pipe" /\ m2.pc \in {"skip", "fork"}
         \/ m.pc \in {"insert", "wait"} /\ m2.pc = "wait"
  PROVE  LineRight(m2, p, pr)
<1>1. Reached(m2) = Reached(m) /\ DecidedTo(m2) = DecidedTo(m)
  BY DEF Reached, DecidedTo, Forking
<1> QED
  BY <1>1 DEF LineRight, Busy, Working, Forking
-----------------------------------------------------------------------------
(* Who forks has one process more, and no other step has. *)
LEMMA SameLen ==
  ASSUME Memories, Memories', DOMAIN proc' = DOMAIN proc
  PROVE  Len(proc') = Len(proc)
<1>1. /\ DOMAIN proc = 1 .. Len(proc) /\ Len(proc) \in Nat
      /\ proc' = [c \in DOMAIN proc' |-> proc'[c]]
  BY SeqFacts DEF Memories, Processes
<1>2. proc' = [c \in 1 .. Len(proc) |-> proc'[c]]
  BY <1>1
<1> QED
  BY <1>1, <1>2, MakeSeq

LEMMA ShellAlike ==
  ASSUME NEW p, ShellStep(p), ~ForkCommand(p)
  PROVE  DOMAIN proc' = DOMAIN proc
<1>1. \A ps : DOMAIN Reaped(ps) = DOMAIN proc
  BY DEF Reaped
<1>2. CASE StartCall(p) \/ MakePipe(p)
  BY <1>2 DEF StartCall, MakePipe
<1>3. CASE SkipStage(p) \/ Insert(p)
  BY <1>3 DEF SkipStage, Insert, NextStage
<1>4. CASE Waitpid(p) \/ NextCall(p)
  BY <1>1, <1>4 DEF Waitpid, NextCall
<1>5. CASE ExitSubprocess(p)
  BY <1>5 DEF ExitSubprocess, EndProcesses
<1> QED
  BY <1>2, <1>3, <1>4, <1>5 DEF ShellStep

LEMMA Grown ==
  ASSUME Memories, Memories', [Next]_vars
  PROVE  Len(proc') = Len(proc) \/ Getline \/ \E p : ForkCommand(p)
<1>1. \A ps : DOMAIN Reaped(ps) = DOMAIN proc
  BY DEF Reaped
<1>2. \A ps, status : EndProcesses(ps, status) => DOMAIN proc' = DOMAIN proc
  BY DEF EndProcesses
<1>3. ASSUME NEW c, ProgramStep(c)
      PROVE  DOMAIN proc' = DOMAIN proc
  <2>1. CASE Exec(c)
    BY <1>2, <2>1 DEF Exec
  <2>2. CASE Read(c)
    BY <2>2 DEF Read
  <2>3. CASE Write(c)
    BY <1>2, <2>3 DEF Write
  <2>4. CASE Exit(c)
    BY <1>2, <2>4 DEF Exit
  <2> QED
    BY <1>3, <2>1, <2>2, <2>3, <2>4 DEF ProgramStep
<1>4. CASE EndOfInput \/ TerminalWatch \/ handler \/ UNCHANGED vars
  BY <1>1, <1>2, <1>4, SameLen DEF EndOfInput, TerminalWatch, handler, vars
<1> QED
  BY <1>3, <1>4, SameLen, ShellAlike DEF Next

(* What a process is forked for. *)
LEMMA ForkRecord ==
  ASSUME Memories, Locals, NEW p \in 1 .. Len(proc), NEW kind, NEW parent, NEW child, Fork(p, kind, parent, child)
  PROVE  /\ NewPid = Len(proc) + 1 /\ Len(proc') = NewPid
         /\ proc'[NewPid].parent = p /\ proc'[NewPid].state = kind
         /\ proc'[NewPid].at = child.at /\ proc'[NewPid].lineno = child.lineno
         /\ \A c \in 1 .. Len(proc) : proc'[c] = proc[c]
         /\ mem'[p] = parent /\ mem'[NewPid] = child
         /\ \A q \in 1 .. Len(proc) : q # p => mem'[q] = mem[q]
<1> DEFINE new == [proc[p] EXCEPT !.state = kind, !.parent = p, !.at = child.at, !.lineno = child.lineno]
<1>1. /\ Len(proc') = NewPid /\ NewPid = Len(proc) + 1
      /\ \A c \in 1 .. Len(proc) : proc'[c] = proc[c]
      /\ mem'[p] = parent /\ mem'[NewPid] = child
      /\ \A q \in 1 .. Len(proc) : q # p => mem'[q] = mem[q]
  BY ForkMoves DEF Memories
<1>2. DOMAIN proc[p] = RecordFields
  BY DEF Locals, Local
<1>3. new.state = kind /\ new.parent = p /\ new.at = child.at /\ new.lineno = child.lineno
  BY <1>2 DEF RecordFields
<1>4. proc' = Append(proc, new)
  BY DEF Fork
<1> HIDE DEF new
<1>5. proc'[NewPid] = new
  BY <1>4, AppendSeq DEF Memories, Processes, NewPid
<1> QED
  BY <1>1, <1>3, <1>5

(* Where a copy of the shell is, and what has been decided there.          *)
LEMMA HereRight ==
  ASSUME OrdinaryScripts, Memories, Locals, Kinds, LinesRight, NEW p, NEW pc, At(p, pc)
  PROVE  /\ p \in 1 .. Len(proc) /\ mem[p].pc = pc /\ Len(proc) \in Nat
         /\ DOMAIN mem[p] = MemoryFields /\ Known(mem[p], p, proc)
         /\ FdsFit(mem[p], proc[p], script) /\ Follows(mem[p]) /\ Ordinary(mem[p].line)
         /\ LineRight(mem[p], p, proc) /\ \A c \in Ran(mem[p].lineno, p, proc) : proc[c].at \in Nat
<1>1. /\ p \in 1 .. Len(proc) /\ mem[p].pc = pc /\ proc[p].state = "shell"
      /\ DOMAIN mem[p] = MemoryFields /\ FdsFit(mem[p], proc[p], script) /\ Follows(mem[p])
      /\ Known(mem[p], p, proc)
  BY HereLocal, Here
<1>2. Ordinary(mem[p].line)
  BY <1>1, LineOrdinary
<1> QED
  BY <1>1, <1>2 DEF LinesRight, Kinds, Ran, Memories, Processes

(* Processes begin as copies of the shell or as commands, and stay so.     *)
LEMMA KindsNext ==
  ASSUME OrdinaryScripts, Memories, Locals, Kinds, LinesRight, Memories', [Next]_vars
  PROVE  Kinds'
<1>1. Continued(proc, proc') /\ Len(proc) \in Nat /\ Len(proc') \in Nat
  BY ContinuedNext DEF Memories, Processes
<1> DEFINE Kind(p) == /\ proc'[p].at \in Nat /\ proc'[p].lineno \in Nat
                      /\ p # Main /\ proc'[p].state = "shell" => proc'[p].at = 0 /\ proc'[p].parent = Main
                      /\ proc'[p].state \in {"forked", "runs"} => proc'[p].at # 0
<1>2. ASSUME NEW p \in 1 .. Len(proc)
      PROVE  Kind(p)
  BY <1>1, <1>2 DEF Continued, Same, Kinds
<1>3. ASSUME Len(proc') # Len(proc)
      PROVE  Kind(NewPid) /\ Len(proc') = NewPid
  <2>1. CASE Getline
    <3>1. PICK parent, child : /\ Fork(Main, "shell", parent, child) /\ At(Main, "getline")
                               /\ child.at = 0 /\ child.lineno = mem[Main].lineno + 1
      <4>1. DOMAIN mem[Main] = MemoryFields
        BY <2>1, HereLocal DEF Getline
      <4> DEFINE unread == IF mem[Main].unread > 0 THEN mem[Main].unread ELSE Len(script) - offset
                 n == Len(script) - unread + 1
                 m == [mem[Main] EXCEPT !.unread = unread - 1, !.line = script[n], !.idx = 1,
                                   !.lineno = @ + 1, !.at = 0, !.prev_op = "", !.prev_exit_status_ = 0]
      <4>2. Fork(Main, "shell", [m EXCEPT !.subprocesses_ = @ \cup {NewPid}], [m EXCEPT !.pc = "call"])
        BY <1>3, <2>1 DEF Getline
      <4>3. [m EXCEPT !.pc = "call"].at = 0 /\ [m EXCEPT !.pc = "call"].lineno = mem[Main].lineno + 1
        BY <4>1 DEF MemoryFields
      <4> QED
        BY <2>1, <4>2, <4>3 DEF Getline
    <3>2. mem[Main].lineno \in Nat /\ Main \in 1 .. Len(proc)
      BY <3>1, HereRight DEF LineRight
    <3> QED
      BY <3>1, <3>2, ForkRecord
  <2>2. ASSUME NEW p, ForkCommand(p)
        PROVE  Kind(NewPid) /\ Len(proc') = NewPid
    <3>1. Fork(p, "forked", [mem[p] EXCEPT !.pc = "insert", !.pipe_pids = Append(@, NewPid)], mem[p])
          /\ At(p, "fork")
      BY <2>2 DEF ForkCommand
    <3>2. p \in 1 .. Len(proc) /\ mem[p].lineno \in Nat /\ mem[p].at \in 1 .. Len(mem[p].line)
      BY <3>1, HereRight DEF LineRight, Follows, Working, Forking
    <3>3. mem[p].at \in Nat /\ mem[p].at # 0
      BY <3>1, <3>2, HereRight, LineFacts
    <3> QED
      BY <3>1, <3>2, <3>3, ForkRecord
  <2> QED
    BY <1>3, <2>1, <2>2, Grown
<1>4. ASSUME NEW p \in 1 .. Len(proc')
      PROVE  Kind(p)
  BY <1>1, <1>2, <1>3 DEF NewPid
<1> QED
  BY <1>4 DEF Kinds
(* Copies of the shell that take no step have as much decided as before.   *)
LEMMA LinesStep ==
  ASSUME Memories, Locals, LinesRight, Memories', [Next]_vars, NEW ps,
         \A q \in 1 .. Len(proc) : q \notin ps /\ proc[q].state = "shell" =>
           mem'[q] = mem[q] /\ \A c \in Len(proc) + 1 .. Len(proc') : proc'[c].parent # q,
         \A q \in 1 .. Len(proc') : q \in ps \/ q \notin 1 .. Len(proc) =>
           (proc'[q].state = "shell" => LineRight(mem'[q], q, proc') /\ (mem'[q].pc = "exit" => q # Main))
  PROVE  LinesRight'
<1>1. Continued(proc, proc') /\ Len(proc) \in Nat /\ Len(proc') \in Nat
  BY ContinuedNext DEF Memories, Processes
<1>2. ASSUME NEW q \in 1 .. Len(proc'), proc'[q].state = "shell"
      PROVE  LineRight(mem'[q], q, proc') /\ (mem'[q].pc = "exit" => q # Main)
  <2>1. CASE q \in ps \/ q \notin 1 .. Len(proc)
    BY <1>2, <2>1
  <2>2. CASE q \notin ps /\ q \in 1 .. Len(proc)
    <3>1. proc[q].state = "shell"
      BY <1>1, <1>2, <2>2 DEF Continued, Same
    <3>2. /\ mem'[q] = mem[q] /\ LineRight(mem[q], q, proc) /\ (mem[q].pc = "exit" => q # Main)
          /\ \A c \in Len(proc) + 1 .. Len(proc') : proc'[c].parent # q
      BY <2>2, <3>1 DEF LinesRight
    <3>3. LineRight(mem[q], q, proc')
      BY <1>1, <3>2, LineLater
    <3> QED
      BY <3>2, <3>3
  <2> QED
    BY <2>1, <2>2
<1> QED
  BY <1>2 DEF LinesRight

(* p goes on and does not fork. *)
LEMMA LinesQuiet ==
  ASSUME Memories, Locals, LinesRight, Memories', [Next]_vars, Len(proc') = Len(proc),
         NEW p \in 1 .. Len(proc), NEW m, mem' = [mem EXCEPT ![p] = m],
         LineRight(m, p, proc), m.pc = "exit" => p # Main
  PROVE  LinesRight'
<1>1. Continued(proc, proc') /\ Len(proc) \in Nat
  BY ContinuedNext DEF Memories, Processes
<1>2. mem'[p] = m /\ \A q \in 1 .. Len(proc) : q # p => mem'[q] = mem[q]
  BY MemReplaced DEF Memories
<1>3. \A c : c \notin Len(proc) + 1 .. Len(proc')
  BY <1>1
<1>4. LineRight(m, p, proc')
  BY <1>1, <1>3, LineLater
<1>5. \A q \in 1 .. Len(proc) : q \notin {p} /\ proc[q].state = "shell" =>
           mem'[q] = mem[q] /\ \A c \in Len(proc) + 1 .. Len(proc') : proc'[c].parent # q
  BY <1>2, <1>3
<1>6. \A q \in 1 .. Len(proc') : q \in {p} \/ q \notin 1 .. Len(proc) =>
           (proc'[q].state = "shell" => LineRight(mem'[q], q, proc') /\ (mem'[q].pc = "exit" => q # Main))
  BY <1>2, <1>4
<1> QED
  BY ONLY Memories, Locals, LinesRight, Memories', [Next]_vars, <1>5, <1>6, LinesStep

(* A command begins or is skipped. *)
LEMMA StartCallLines ==
  ASSUME OrdinaryScripts, Memories, Locals, Kinds, LinesRight, NEW p, StartCall(p)
  PROVE  \E m2 : mem' = [mem EXCEPT ![p] = m2] /\ m2.pc # "exit" /\ LineRight(m2, p, proc)
<1> DEFINE m == mem[p]
           c == Call(m.line, m.idx, m.prev_readfd_, proc[p].fds)
           m2 == [m EXCEPT
                  !.at = m.idx, !.idx = c.idx, !.fd = c.fd, !.first = TRUE, !.pipe_pids = <<>>, !.i = 1,
                  !.pc = IF TypeAt(m.line, c.idx) = "pipe" THEN "pipe"
                         ELSE IF m.prev_op \in {"", "and", "or"} /\ ~Skips(m) THEN "fork" ELSE "next"]
<1>1. /\ m.pc = "call" /\ DOMAIN m = MemoryFields /\ Follows(m) /\ Ordinary(m.line)
      /\ LineRight(m, p, proc) /\ \A d \in Ran(m.lineno, p, proc) : proc[d].at \in Nat
  BY HereRight DEF StartCall
<1>2. mem' = [mem EXCEPT ![p] = m2]
  BY DEF StartCall
<1>3. /\ m2.line = m.line /\ m2.lineno = m.lineno /\ m2.prev_exit_status_ = m.prev_exit_status_
      /\ m2.at = m.idx /\ m2.first = TRUE
      /\ m2.pc = IF TypeAt(m.line, c.idx) = "pipe" THEN "pipe"
                 ELSE IF m.prev_op \in {"", "and", "or"} /\ ~Skips(m) THEN "fork" ELSE "next"
  BY <1>1 DEF MemoryFields
<1> HIDE DEF m2, c, m
<1>4. AtHead(m, m.idx) /\ m.prev_op \in {"", "and", "or"}
  BY <1>1 DEF Follows, AtHead
<1>5. m2.pc \in {"pipe", "fork", "next"} /\ (m2.pc = "next" => Skips(m))
  BY <1>3, <1>4
<1>6. LineRight(m2, p, proc)
  BY ONLY <1>1, <1>3, <1>4, <1>5, StartCallRight
<1> QED
  BY <1>2, <1>5, <1>6

(* A pipe is made. *)
LEMMA MakePipeLines ==
  ASSUME OrdinaryScripts, Memories, Locals, Kinds, LinesRight, NEW p, MakePipe(p)
  PROVE  \E m2 : mem' = [mem EXCEPT ![p] = m2] /\ m2.pc # "exit" /\ LineRight(m2, p, proc)
<1> DEFINE m == mem[p]
           fds == Open(proc[p].fds, <<"r", Len(pipes) + 1>>)
           m2 == [m EXCEPT !.prev_readfd_ = FreeFd(proc[p].fds), !.fd.output = FreeFd(fds),
                           !.pc = IF m.first /\ Skips(m) THEN "skip" ELSE "fork"]
<1>1. m.pc = "pipe" /\ DOMAIN m = MemoryFields /\ LineRight(m, p, proc)
  BY HereRight DEF MakePipe
<1>2. mem' = [mem EXCEPT ![p] = m2]
  BY DEF MakePipe
<1>3. /\ m2.line = m.line /\ m2.lineno = m.lineno /\ m2.prev_exit_status_ = m.prev_exit_status_
      /\ m2.at = m.at /\ m2.first = m.first /\ m2.pipe_pids = m.pipe_pids /\ m2.pc \in {"skip", "fork"}
  BY <1>1 DEF MemoryFields
<1> HIDE DEF m2, m
<1>4. Newest(m2) = Newest(m)
  BY <1>3 DEF Newest
<1>5. LineRight(m2, p, proc)
  BY ONLY <1>1, <1>3, <1>4, StageRight
<1> QED
  BY <1>2, <1>3, <1>5

(* The next stage begins. *)
LEMMA NextStageLines ==
  ASSUME OrdinaryScripts, Memories, Locals, Kinds, LinesRight, NEW p, NEW pc, At(p, pc), pc \in {"skip", "insert"},
         AtPipe(mem[p]), NEW m, NextStage(p, m), DOMAIN m = MemoryFields,
         m.line = mem[p].line, m.lineno = mem[p].lineno, m.idx = mem[p].idx
  PROVE  \E m2 : mem' = [mem EXCEPT ![p] = m2] /\ m2.pc # "exit" /\ LineRight(m2, p, proc)
<1> DEFINE c == Call(m.line, m.idx + 1, m.prev_readfd_, closeFd(proc[p].fds, m.fd))
           m2 == [m EXCEPT !.at = m.idx + 1, !.idx = c.idx, !.fd = c.fd, !.first = FALSE,
                           !.pc = IF TypeAt(m.line, c.idx) = "pipe" THEN "pipe" ELSE "fork"]
<1>1. /\ mem[p].pc = pc /\ Follows(mem[p]) /\ Ordinary(mem[p].line)
      /\ LineRight(mem[p], p, proc) /\ \A d \in Ran(mem[p].lineno, p, proc) : proc[d].at \in Nat
  BY HereRight
<1>2. mem' = [mem EXCEPT ![p] = m2]
  BY DEF NextStage
<1>3. /\ m2.line = mem[p].line /\ m2.lineno = mem[p].lineno /\ m2.at = mem[p].idx + 1 /\ m2.first = FALSE
      /\ m2.pc \in {"pipe", "fork"}
  BY DEF MemoryFields
<1> HIDE DEF m2, c
<1>4. PICK k : k = mem[p]
  OBVIOUS
<1>5. LineRight(m2, p, proc)
  <2>1. AtPipe(k) /\ k.pc \in {"skip", "insert"}
    BY <1>1, <1>4
  <2>2. /\ Follows(k) /\ Ordinary(k.line) /\ LineRight(k, p, proc)
        /\ \A d \in Ran(k.lineno, p, proc) : proc[d].at \in Nat
        /\ m2.line = k.line /\ m2.lineno = k.lineno /\ m2.at = k.idx + 1 /\ m2.first = FALSE
        /\ m2.pc \in {"pipe", "fork"}
    BY <1>1, <1>3, <1>4
  <2> QED
    BY ONLY <2>1, <2>2, NextStageRight
<1> QED
  BY <1>2, <1>3, <1>5

(* The first stage is skipped. *)
LEMMA SkipStageLines ==
  ASSUME OrdinaryScripts, Memories, Locals, Kinds, LinesRight, NEW p, SkipStage(p)
  PROVE  \E m2 : mem' = [mem EXCEPT ![p] = m2] /\ m2.pc # "exit" /\ LineRight(m2, p, proc)
<1>1. At(p, "skip") /\ NextStage(p, mem[p])
  BY DEF SkipStage
<1>2. DOMAIN mem[p] = MemoryFields /\ AtPipe(mem[p])
  BY <1>1, HereLocal DEF FdsFit
<1> QED
  BY <1>1, <1>2, NextStageLines

(* A command has been forked. *)
LEMMA InsertLines ==
  ASSUME OrdinaryScripts, Memories, Locals, Kinds, LinesRight, NEW p, Insert(p)
  PROVE  \E m2 : mem' = [mem EXCEPT ![p] = m2] /\ m2.pc # "exit" /\ LineRight(m2, p, proc)
<1> DEFINE m == [mem[p] EXCEPT !.cur_childs = Inserted(mem[p])]
           m2 == [m EXCEPT !.pc = "wait"]
<1>1. mem[p].pc = "insert" /\ DOMAIN mem[p] = MemoryFields /\ LineRight(mem[p], p, proc) /\ At(p, "insert")
  BY HereRight DEF Insert
<1>2. /\ DOMAIN m = MemoryFields /\ m.line = mem[p].line /\ m.lineno = mem[p].lineno /\ m.idx = mem[p].idx
      /\ m.prev_exit_status_ = mem[p].prev_exit_status_ /\ m.at = mem[p].at /\ m.first = mem[p].first
      /\ m.pipe_pids = mem[p].pipe_pids
  BY <1>1 DEF MemoryFields
<1>3. CASE AtPipe(mem[p])
  <2>1. NextStage(p, m)
    BY <1>2, <1>3 DEF Insert, AtPipe
  <2> HIDE DEF m
  <2> QED
    BY <1>1, <1>2, <1>3, <2>1, NextStageLines
<1>4. CASE ~AtPipe(mem[p])
  <2>1. mem' = [mem EXCEPT ![p] = m2]
    <3>1. TypeAt(m.line, m.idx) # "pipe"
      BY <1>2, <1>4 DEF AtPipe
    <3> QED
      BY <3>1 DEF Insert
  <2> HIDE DEF m
  <2>2. PICK k : k = mem[p]
    OBVIOUS
  <2>3. /\ m2.line = k.line /\ m2.lineno = k.lineno
        /\ m2.prev_exit_status_ = k.prev_exit_status_ /\ m2.at = k.at /\ m2.first = k.first
        /\ m2.pipe_pids = k.pipe_pids /\ m2.pc = "wait" /\ k.pc = "insert" /\ LineRight(k, p, proc)
    BY <1>1, <1>2, <2>2 DEF MemoryFields
  <2> HIDE DEF m2
  <2>4. Newest(m2) = Newest(k)
    BY <2>3 DEF Newest
  <2>5. LineRight(m2, p, proc)
    BY ONLY <2>3, <2>4, StageRight
  <2> QED
    BY <2>1, <2>3, <2>5
<1> QED
  BY <1>3, <1>4
(* A stage has been waited for. *)
LEMMA WaitpidLines ==
  ASSUME OrdinaryScripts, Memories, Locals, Kinds, LinesRight, NEW p, Waitpid(p)
  PROVE  \E m2 : mem' = [mem EXCEPT ![p] = m2] /\ m2.pc # "exit" /\ LineRight(m2, p, proc)
<1> DEFINE m0 == mem[p]
           child == m0.pipe_pids[m0.i]
           m == [m0 EXCEPT !.cur_childs = Erased(m0)]
           m2 == IF m.i < Len(m.pipe_pids) THEN [m EXCEPT !.i = @ + 1]
                 ELSE [m EXCEPT !.prev_exit_status_ = DecidingStatus(m), !.prev_readfd_ = 0, !.pc = "next"]
<1>1. /\ m0.pc = "wait" /\ DOMAIN m0 = MemoryFields /\ Follows(m0) /\ Ordinary(m0.line) /\ Known(m0, p, proc)
      /\ LineRight(m0, p, proc) /\ \A d \in Ran(m0.lineno, p, proc) : proc[d].at \in Nat
  BY HereRight DEF Waitpid
<1>2. proc[child].state = "ended" /\ mem' = [mem EXCEPT ![p] = m2]
  BY DEF Waitpid
<1>3. /\ DOMAIN m = MemoryFields /\ m.pc = "wait" /\ m.line = m0.line /\ m.lineno = m0.lineno /\ m.at = m0.at
      /\ m.prev_exit_status_ = m0.prev_exit_status_ /\ m.first = m0.first /\ m.pipe_pids = m0.pipe_pids
      /\ m.i = m0.i
  BY <1>1 DEF MemoryFields
<1>4. m0.i \in 1 .. Len(m0.pipe_pids) /\ Len(m0.pipe_pids) \in Nat
  BY <1>1, SeqFacts DEF Known, OwnStages, Working
<1> HIDE DEF m, m0
<1>5. CASE m0.i < Len(m0.pipe_pids)
  <2>1. /\ m2.pc = "wait" /\ m2.line = m0.line /\ m2.lineno = m0.lineno /\ m2.at = m0.at
        /\ m2.prev_exit_status_ = m0.prev_exit_status_ /\ m2.first = m0.first /\ m2.pipe_pids = m0.pipe_pids
    BY <1>3, <1>5 DEF MemoryFields
  <2> HIDE DEF m2
  <2>2. Newest(m2) = Newest(m0)
    BY <2>1 DEF Newest
  <2>3. LineRight(m2, p, proc)
    BY ONLY <1>1, <2>1, <2>2, StageRight
  <2> QED
    BY <1>2, <2>1, <2>3
<1>6. CASE ~(m0.i < Len(m0.pipe_pids))
  <2>1. m0.i = Len(m0.pipe_pids)
    BY <1>4, <1>6
  <2>2. /\ m2.pc = "next" /\ m2.line = m0.line /\ m2.lineno = m0.lineno /\ m2.at = m0.at
        /\ m2.prev_exit_status_ = DecidingStatus(m)
    BY <1>3, <1>6 DEF MemoryFields
  <2> HIDE DEF m2
  <2>3. DecidingStatus(m) = proc[Newest(m0)].status /\ proc[Newest(m0)].state \in Gone
    BY <1>2, <1>3, <2>1, LastSeq DEF DecidingStatus, Newest, Gone
  <2>4. LineRight(m2, p, proc)
    BY ONLY <1>1, <2>2, <2>3, WaitpidRight
  <2> QED
    BY <1>2, <2>2, <2>4
<1> QED
  BY <1>5, <1>6

(* The line goes on or ends. *)
LEMMA NextCallLines ==
  ASSUME OrdinaryScripts, Memories, Locals, Kinds, LinesRight, NEW p, NextCall(p)
  PROVE  \E m2 : mem' = [mem EXCEPT ![p] = m2] /\ (m2.pc = "exit" => p # Main) /\ LineRight(m2, p, proc)
<1> DEFINE m == mem[p]
           idx == IF m.idx <= Len(m.line) THEN m.idx + 1 ELSE m.idx
           m2 == [m EXCEPT
                  !.subprocesses_ = Remaining(p), !.idx = idx,
                  !.prev_op = IF m.idx <= Len(m.line) THEN m.line[m.idx].type ELSE @,
                  !.pc = IF idx <= Len(m.line) THEN "call"
                         ELSE IF p = Main THEN "getline" ELSE "exit"]
<1>1. /\ m.pc = "next" /\ DOMAIN m = MemoryFields /\ Follows(m) /\ Ordinary(m.line)
      /\ LineRight(m, p, proc) /\ \A d \in Ran(m.lineno, p, proc) : proc[d].at \in Nat
  BY HereRight DEF NextCall
<1>2. mem' = [mem EXCEPT ![p] = m2]
  BY DEF NextCall
<1>3. /\ m2.line = m.line /\ m2.lineno = m.lineno /\ m2.prev_exit_status_ = m.prev_exit_status_
      /\ m2.at = m.at /\ m2.idx = idx
      /\ m2.pc = IF idx <= Len(m.line) THEN "call" ELSE IF p = Main THEN "getline" ELSE "exit"
  BY <1>1 DEF MemoryFields
<1>4. m2.pc \in {"call", "getline", "exit"} /\ (m2.pc = "exit" => p # Main)
  BY <1>3
<1>5. m2.pc = "call" => m2.idx = m.idx + 1
  <2>1. Len(m.line) \in Nat /\ m.idx \in m.at + 1 .. Len(m.line) + 1 /\ m.at \in 1 .. Len(m.line)
    BY <1>1, LineFacts DEF Follows, Passed
  <2> QED
    BY <1>3, <2>1
<1> HIDE DEF m2, m
<1>6. LineRight(m2, p, proc)
  BY ONLY <1>1, <1>3, <1>4, <1>5, NextCallRight
<1> QED
  BY <1>2, <1>4, <1>6

(* A command is forked. *)
LEMMA ForkCommandLines ==
  ASSUME OrdinaryScripts, Memories, Locals, Kinds, LinesRight, Memories', NEW p, ForkCommand(p), [Next]_vars
  PROVE  LinesRight'
<1> DEFINE m == mem[p]
           m2 == [m EXCEPT !.pc = "insert", !.pipe_pids = Append(@, NewPid)]
<1>1. /\ p \in 1 .. Len(proc) /\ m.pc = "fork" /\ DOMAIN m = MemoryFields /\ Follows(m) /\ Ordinary(m.line)
      /\ Known(m, p, proc) /\ Len(proc) \in Nat
      /\ LineRight(m, p, proc) /\ \A d \in Ran(m.lineno, p, proc) : proc[d].at \in Nat
  BY HereRight DEF ForkCommand
<1>2. Fork(p, "forked", m2, m)
  BY DEF ForkCommand
<1>3. /\ m2.line = m.line /\ m2.lineno = m.lineno /\ m2.at = m.at /\ m2.pc = "insert"
      /\ m2.pipe_pids = Append(m.pipe_pids, NewPid)
  BY <1>1 DEF MemoryFields
<1> HIDE DEF m2, m
<1>4. /\ NewPid = Len(proc) + 1 /\ Len(proc') = NewPid
      /\ proc'[NewPid].parent = p /\ proc'[NewPid].state = "forked"
      /\ proc'[NewPid].at = m.at /\ proc'[NewPid].lineno = m.lineno
      /\ \A c \in 1 .. Len(proc) : proc'[c] = proc[c]
      /\ mem'[p] = m2 /\ \A q \in 1 .. Len(proc) : q # p => mem'[q] = mem[q]
  BY ONLY Memories, Locals, <1>1, <1>2, ForkRecord
<1>5. Newest(m2) = NewPid
  <2>1. IsSeq(m.pipe_pids)
    BY <1>1 DEF Known, OwnStages, Working, Forking
  <2> QED
    BY <1>3, <2>1, AppendSeq DEF Newest
<1>6. LineRight(m2, p, proc')
  <2>1. PICK new, pr2 : new = NewPid /\ pr2 = proc'
    OBVIOUS
  <2>2. /\ new = Len(proc) + 1 /\ Len(pr2) = new /\ \A c \in 1 .. Len(proc) : pr2[c] = proc[c]
        /\ pr2[new].parent = p /\ pr2[new].at = m.at /\ pr2[new].lineno = m.lineno /\ Newest(m2) = new
    BY <1>4, <1>5, <2>1
  <2>3. LineRight(m2, p, pr2)
    BY ONLY <1>1, <1>3, <2>2, ForkRight
  <2> QED
    BY <2>1, <2>3
<1>7. \A q \in Len(proc) + 1 .. Len(proc') : q = NewPid
  BY <1>1, <1>4
<1>8. \A q \in 1 .. Len(proc) : q \notin {p} /\ proc[q].state = "shell" =>
           mem'[q] = mem[q] /\ \A c \in Len(proc) + 1 .. Len(proc') : proc'[c].parent # q
  BY <1>4, <1>7
<1>9. \A q \in 1 .. Len(proc') : q \in {p} \/ q \notin 1 .. Len(proc) =>
           (proc'[q].state = "shell" => LineRight(mem'[q], q, proc') /\ (mem'[q].pc = "exit" => q # Main))
  <2>1. \A q \in 1 .. Len(proc') : q \notin 1 .. Len(proc) => q = NewPid
    BY <1>1, <1>4
  <2> QED
    BY <1>3, <1>4, <1>6, <2>1
<1> QED
  BY ONLY Memories, Locals, LinesRight, Memories', [Next]_vars, <1>8, <1>9, LinesStep

(* A line begins, of which nothing has been run. *)
LEMMA BeginsRight ==
  ASSUME NEW m, NEW p, NEW pr, m.lineno \in Nat, \A c \in 1 .. Len(pr) : pr[c].parent = p => pr[c].lineno <= m.lineno,
         m.pc \in {"getline", "call"},
         m.pc = "call" => m.idx = 1 /\ Ordinary(m.line) /\ \A c \in 1 .. Len(pr) : pr[c].parent = p => pr[c].lineno # m.lineno
  PROVE  LineRight(m, p, pr)
<1>1. CASE m.pc = "getline"
  BY <1>1 DEF LineRight, Busy, Working, Forking
<1>2. CASE m.pc = "call"
  <2>1. \A c : c \notin Ran(m.lineno, p, pr)
    BY <1>2 DEF Ran
  <2>2. DecidedTo(m) = 0
    BY <1>2 DEF DecidedTo
  <2>3. \A h \in Heads(m.line) : ~(h <= 0)
    BY <1>2, LineFacts DEF Heads
  <2> QED
    BY <1>2, <2>1, <2>2, <2>3 DEF LineRight, Distinct, Forking
<1> QED
  BY <1>1, <1>2
(* A line is taken. *)
LEMMA GetlineLines ==
  ASSUME OrdinaryScripts, Memories, Locals, Elders, Kinds, LinesRight, Memories', Getline, [Next]_vars
  PROVE  LinesRight'
<1> DEFINE m0 == mem[Main]
           unread == IF mem[Main].unread > 0 THEN mem[Main].unread ELSE Len(script) - offset
           n == Len(script) - unread + 1
           m == [mem[Main] EXCEPT !.unread = unread - 1, !.line = script[n], !.idx = 1,
                             !.lineno = @ + 1, !.at = 0, !.prev_op = "", !.prev_exit_status_ = 0]
           m2 == [m EXCEPT !.subprocesses_ = @ \cup {NewPid}]
           child == [m EXCEPT !.pc = "call"]
           m3 == [m EXCEPT !.pc = IF script[n] = <<>> THEN @ ELSE "call"]
<1>1. /\ Main \in 1 .. Len(proc) /\ m0.pc = "getline" /\ DOMAIN m0 = MemoryFields
      /\ FdsFit(m0, proc[Main], script) /\ LineRight(m0, Main, proc) /\ proc[Main].state = "shell"
      /\ Len(proc) \in Nat
  BY HereRight DEF Getline, At
<1>2. /\ unread > 0
      /\ \/ Fork(Main, "shell", m2, child)
         \/ mem' = [mem EXCEPT ![Main] = m3] /\ proc' = proc
  BY DEF Getline
<1>3. /\ m0.lineno \in Nat /\ m0.lineno + 1 \in Nat
      /\ \A c \in 1 .. Len(proc) : proc[c].parent = Main => proc[c].lineno <= m0.lineno + 1 /\ proc[c].lineno # m0.lineno + 1
  BY <1>1 DEF LineRight, Kinds
<1>4. Ordinary(script[n])
  <2>1. Len(script) \in Nat /\ offset \in 0 .. Len(script) /\ m0.unread \in 0 .. Len(script)
    BY <1>1, ScriptLen DEF Locals, FdsFit
  <2>2. n \in 1 .. Len(script)
    BY <1>2, <2>1
  <2> HIDE DEF n
  <2> QED
    BY <2>2 DEF OrdinaryScripts, Locals
<1>5. m.lineno = m0.lineno + 1 /\ m.idx = 1 /\ m.line = script[n] /\ m.pc = "getline" /\ DOMAIN m = MemoryFields
  BY <1>1 DEF MemoryFields
<1> HIDE DEF m
<1>6. /\ m2.lineno = m0.lineno + 1 /\ m2.pc = "getline"
      /\ child.lineno = m0.lineno + 1 /\ child.pc = "call" /\ child.idx = 1 /\ child.line = script[n]
      /\ m3.lineno = m0.lineno + 1 /\ m3.pc \in {"getline", "call"} /\ m3.idx = 1 /\ m3.line = script[n]
  BY <1>5 DEF MemoryFields
<1> HIDE DEF m2, child, m3, n, unread
<1>7. CASE Fork(Main, "shell", m2, child)
  <2>1. /\ NewPid = Len(proc) + 1 /\ Len(proc') = NewPid
        /\ proc'[NewPid].parent = Main /\ proc'[NewPid].lineno = m0.lineno + 1
        /\ \A c \in 1 .. Len(proc) : proc'[c] = proc[c]
        /\ mem'[Main] = m2 /\ mem'[NewPid] = child /\ \A q \in 1 .. Len(proc) : q # Main => mem'[q] = mem[q]
    <3>1. proc'[NewPid].lineno = child.lineno
      BY <1>1, <1>7, ForkRecord
    <3> QED
      BY <1>1, <1>6, <1>7, <3>1, ForkRecord
  <2>2. \A c \in 1 .. Len(proc') : c \in 1 .. Len(proc) \/ c = NewPid
    BY <1>1, <2>1
  <2>3. LineRight(m2, Main, proc')
    <3>1. \A c \in 1 .. Len(proc') : proc'[c].parent = Main => proc'[c].lineno <= m2.lineno
      BY <1>3, <1>6, <2>1, <2>2
    <3> QED
      BY <1>3, <1>6, <3>1, BeginsRight
  <2>4. LineRight(child, NewPid, proc')
    <3>1. \A c \in 1 .. Len(proc') : proc'[c].parent # NewPid
      <4>1. \A c \in 1 .. Len(proc) : proc[c].parent < c
        BY DEF Elders
      <4>2. ASSUME NEW c \in 1 .. Len(proc), proc[c].parent = NewPid
            PROVE  FALSE
        BY <1>1, <2>1, <4>1, <4>2
      <4>3. Main # NewPid
        BY <1>1, <2>1
      <4> QED
        BY <2>1, <2>2, <4>2, <4>3
    <3> QED
      BY <1>3, <1>4, <1>6, <3>1, BeginsRight
  <2>5. \A q \in 1 .. Len(proc) : q \notin {Main} /\ proc[q].state = "shell" =>
             mem'[q] = mem[q] /\ \A c \in Len(proc) + 1 .. Len(proc') : proc'[c].parent # q
    <3>1. \A c \in Len(proc) + 1 .. Len(proc') : c = NewPid
      BY <1>1, <2>1
    <3> QED
      BY <2>1, <3>1
  <2>6. \A q \in 1 .. Len(proc') : q \in {Main} \/ q \notin 1 .. Len(proc) =>
             (proc'[q].state = "shell" => LineRight(mem'[q], q, proc') /\ (mem'[q].pc = "exit" => q # Main))
    BY <1>6, <2>1, <2>2, <2>3, <2>4
  <2> QED
    BY ONLY Memories, Locals, LinesRight, Memories', [Next]_vars, <2>5, <2>6, LinesStep
<1>8. CASE mem' = [mem EXCEPT ![Main] = m3] /\ proc' = proc
  <2>1. LineRight(m3, Main, proc)
    <3>1. /\ \A c \in 1 .. Len(proc) : proc[c].parent = Main => proc[c].lineno <= m3.lineno /\ proc[c].lineno # m3.lineno
          /\ m3.lineno \in Nat
      BY <1>3, <1>6
    <3>2. Ordinary(m3.line)
      BY <1>4, <1>6
    <3> QED
      BY <1>6, <3>1, <3>2, BeginsRight
  <2>2. Len(proc') = Len(proc) /\ (m3.pc = "exit" => Main # Main)
    BY <1>6, <1>8
  <2> QED
    BY ONLY Memories, Locals, LinesRight, Memories', [Next]_vars, <1>1, <1>8, <2>1, <2>2, LinesQuiet
<1> QED
  BY <1>2, <1>7, <1>8

(* What the shell and its copies do. *)
LEMMA ShellLines ==
  ASSUME OrdinaryScripts, Memories, Locals, Kinds, LinesRight, Memories', NEW p, ShellStep(p), [Next]_vars
  PROVE  LinesRight'
<1>1. ASSUME NEW pc, At(p, pc)
      PROVE  p \in 1 .. Len(proc)
  BY <1>1, Here
<1>2. CASE ForkCommand(p)
  BY <1>2, ForkCommandLines
<1>3. CASE ExitSubprocess(p)
  <2>1. mem' = mem /\ Len(proc') = Len(proc)
    BY <1>3, EndMoves, Here DEF ExitSubprocess, Memories
  <2>2. Len(proc) \in Nat
    BY DEF Memories, Processes
  <2>3. \A q \in 1 .. Len(proc) : q \notin {p} /\ proc[q].state = "shell" =>
             mem'[q] = mem[q] /\ \A c \in Len(proc) + 1 .. Len(proc') : proc'[c].parent # q
    BY <2>1, <2>2
  <2>4. proc'[p].state = "ended" /\ p \in 1 .. Len(proc)
    <3>1. p \in DOMAIN proc /\ p \in 1 .. Len(proc) /\ DOMAIN proc[p] = RecordFields
      BY <1>3, HereLocal DEF ExitSubprocess, At
    <3> QED
      BY <1>3, <3>1 DEF ExitSubprocess, EndProcesses, RecordFields
  <2>5. \A q \in 1 .. Len(proc') : q \in {p} \/ q \notin 1 .. Len(proc) =>
             (proc'[q].state = "shell" => LineRight(mem'[q], q, proc') /\ (mem'[q].pc = "exit" => q # Main))
    BY <2>1, <2>4
  <2> QED
    BY ONLY Memories, Locals, LinesRight, Memories', [Next]_vars, <2>3, <2>5, LinesStep
<1>4. ASSUME ~ForkCommand(p), ~ExitSubprocess(p)
      PROVE  /\ p \in 1 .. Len(proc)
             /\ \E m2 : mem' = [mem EXCEPT ![p] = m2] /\ (m2.pc = "exit" => p # Main) /\ LineRight(m2, p, proc)
  <2>1. CASE StartCall(p)
    BY <1>1, <2>1, StartCallLines DEF StartCall
  <2>2. CASE MakePipe(p)
    BY <1>1, <2>2, MakePipeLines DEF MakePipe
  <2>3. CASE SkipStage(p)
    BY <1>1, <2>3, SkipStageLines DEF SkipStage
  <2>4. CASE Insert(p)
    BY <1>1, <2>4, InsertLines DEF Insert
  <2>5. CASE Waitpid(p)
    BY <1>1, <2>5, WaitpidLines DEF Waitpid
  <2>6. CASE NextCall(p)
    BY <1>1, <2>6, NextCallLines DEF NextCall
  <2> QED
    BY <1>4, <2>1, <2>2, <2>3, <2>4, <2>5, <2>6 DEF ShellStep
<1>5. ASSUME ~ForkCommand(p), ~ExitSubprocess(p)
      PROVE  LinesRight'
  <2>1. PICK m2 : mem' = [mem EXCEPT ![p] = m2] /\ (m2.pc = "exit" => p # Main) /\ LineRight(m2, p, proc)
    BY <1>4, <1>5
  <2>2. p \in 1 .. Len(proc)
    BY <1>4, <1>5
  <2>3. Len(proc') = Len(proc)
    BY <1>5, ShellAlike, SameLen
  <2> QED
    BY ONLY Memories, Locals, LinesRight, Memories', [Next]_vars, <2>1, <2>2, <2>3, LinesQuiet
<1> QED
  BY <1>2, <1>3, <1>5
(* What goes on beside them. *)
LEMMA LinesNext ==
  ASSUME OrdinaryScripts, Memories, Locals, Elders, Kinds, LinesRight, Memories', [Next]_vars
  PROVE  LinesRight'
<1>1. CASE Getline
  BY <1>1, GetlineLines
<1>2. ASSUME NEW p, ShellStep(p)
      PROVE  LinesRight'
  BY <1>2, ShellLines
<1>3. ASSUME ~Getline, ~EndOfInput, \A p : ~ShellStep(p)
      PROVE  LinesRight'
  <2>1. Len(proc') = Len(proc) /\ Len(proc) \in Nat
    <3>1. \A p : ~ForkCommand(p)
      BY <1>3 DEF ShellStep
    <3> QED
      BY <1>3, <3>1, Grown DEF Memories, Processes
  <2>2. ASSUME NEW q \in 1 .. Len(proc), proc[q].state = "shell", ~TerminalWatch
        PROVE  mem'[q] = mem[q]
    <3>1. CASE handler \/ UNCHANGED vars
      BY <3>1 DEF handler, vars
    <3>2. ASSUME NEW c, ProgramStep(c)
          PROVE  mem'[q] = mem[q]
      <4>1. CASE Exec(c)
        <5>1. c # q
          BY <2>2, <4>1 DEF Exec
        <5>2. c \in 1 .. Len(proc) /\ mem' = [mem EXCEPT ![c] = NoMemory]
          BY <4>1, SeqFacts DEF Exec, Memories, Processes
        <5> QED
          BY <2>2, <5>1, <5>2, MemReplaced DEF Memories
      <4>2. CASE Read(c) \/ Write(c) \/ Exit(c)
        BY <4>2 DEF Read, Write, Exit
      <4> QED
        BY <3>2, <4>1, <4>2 DEF ProgramStep
    <3> QED
      BY <1>3, <2>2, <3>1, <3>2 DEF Next
  <2>3. CASE ~TerminalWatch
    <3>e. PICK none : none = {}
      OBVIOUS
    <3>1. \A q \in 1 .. Len(proc) : q \notin none /\ proc[q].state = "shell" =>
               mem'[q] = mem[q] /\ \A c \in Len(proc) + 1 .. Len(proc') : proc'[c].parent # q
      BY <2>1, <2>2, <2>3
    <3>2. \A q \in 1 .. Len(proc') : q \in none \/ q \notin 1 .. Len(proc) =>
               (proc'[q].state = "shell" => LineRight(mem'[q], q, proc') /\ (mem'[q].pc = "exit" => q # Main))
      BY <2>1, <3>e
    <3> QED
      BY ONLY Memories, Locals, LinesRight, Memories', [Next]_vars, <3>1, <3>2, LinesStep
  <2>4. CASE TerminalWatch
    <3> DEFINE m2 == [mem[Main] EXCEPT !.subprocesses_ = {}]
               pr == Reaped(mem[Main].subprocesses_)
    <3>1. /\ mem' = [mem EXCEPT ![Main] = m2] /\ Main \in 1 .. Len(proc)
          /\ proc' = [pr EXCEPT ![Main].state = "ended", ![Main].fds = NoFds]
      BY <2>4, Here DEF TerminalWatch
    <3>2. \A q \in 1 .. Len(proc) : q # Main => mem'[q] = mem[q]
      BY <3>1, MemReplaced DEF Memories
    <3>3. proc'[Main].state = "ended"
      <4>1. DOMAIN pr = 1 .. Len(proc)
        BY SeqFacts DEF Memories, Processes, Reaped
      <4>2. pr[Main] = proc[Main] \/ pr[Main] = [proc[Main] EXCEPT !.state = "reaped"]
        BY <3>1, <4>1 DEF Reaped
      <4>3. DOMAIN pr[Main] = RecordFields
        BY <3>1, <4>2 DEF Locals, Local
      <4> HIDE DEF pr
      <4> QED
        BY <3>1, <4>1, <4>3 DEF RecordFields
    <3>4. \A q \in 1 .. Len(proc) : q \notin {Main} /\ proc[q].state = "shell" =>
               mem'[q] = mem[q] /\ \A c \in Len(proc) + 1 .. Len(proc') : proc'[c].parent # q
      BY <2>1, <3>2
    <3>5. \A q \in 1 .. Len(proc') : q \in {Main} \/ q \notin 1 .. Len(proc) =>
               (proc'[q].state = "shell" => LineRight(mem'[q], q, proc') /\ (mem'[q].pc = "exit" => q # Main))
      BY <2>1, <3>3
    <3> QED
      BY ONLY Memories, Locals, LinesRight, Memories', [Next]_vars, <3>4, <3>5, LinesStep
  <2> QED
    BY <2>3, <2>4
<1>4. CASE EndOfInput
  <2> DEFINE m == [mem[Main] EXCEPT !.pc = "watch"]
  <2>1. /\ Main \in 1 .. Len(proc) /\ LineRight(mem[Main], Main, proc) /\ DOMAIN mem[Main] = MemoryFields
    BY <1>4, HereRight DEF EndOfInput
  <2>2. proc' = proc /\ mem' = [mem EXCEPT ![Main] = m]
    BY <1>4 DEF EndOfInput
  <2>3. m.pc = "watch" /\ m.lineno = mem[Main].lineno
    BY <2>1 DEF MemoryFields
  <2> HIDE DEF m
  <2>4. LineRight(m, Main, proc)
    BY <2>1, <2>3 DEF LineRight, Busy, Working, Forking
  <2>5. m.pc # "exit" /\ Len(proc') = Len(proc)
    BY <2>2, <2>3
  <2> QED
    BY ONLY Memories, Locals, LinesRight, Memories', [Next]_vars, <2>1, <2>2, <2>4, <2>5, LinesQuiet
<1> QED
  BY <1>1, <1>2, <1>3, <1>4

(* The shell begins. *)
LEMMA LinesInit ==
  Init => Kinds /\ LinesRight
<1> SUFFICES ASSUME Init PROVE Kinds /\ LinesRight
  OBVIOUS
<1>1. /\ Len(proc) = 1 /\ proc[1].state = "shell" /\ proc[1].parent = 0
      /\ proc[1].at = 0 /\ proc[1].lineno = 0
  BY OneSeq DEF Init
<1>2. \A p \in 1 .. Len(proc) : p = 1
  BY <1>1
<1>3. Kinds
  BY <1>1, <1>2 DEF Kinds, Main
<1>4. mem[1].pc = "getline" /\ mem[1].lineno = 0
  BY OneSeq DEF Init, NoMemory
<1>5. LineRight(mem[1], 1, proc)
  BY <1>1, <1>2, <1>4, BeginsRight
<1> QED
  BY <1>2, <1>3, <1>4, <1>5 DEF LinesRight

(* Who decides of a command is known. *)
LEMMA DeciderIs ==
  ASSUME Memories, NEW p, NEW h, NEW d, NEW n, n = mem[p].lineno, Distinct(n, p, proc),
         \A c \in Ran(n, p, proc) : proc[c].at \in Nat, Decides(mem[p].line, n, p, proc, h, d)
  PROVE  Decider(p, h) = d
<1>1. \A c : c \in Commands(p) <=> c \in Ran(n, p, proc)
  <2>1. DOMAIN proc = 1 .. Len(proc)
    BY SeqFacts DEF Memories, Processes
  <2> QED
    BY <2>1 DEF Commands, Children, Ran
<1> DEFINE Best(c) == /\ proc[c].at < h /\ EndsPipeline(mem[p].line, proc[c].at)
                      /\ \A e \in Commands(p) : proc[e].at < h /\ EndsPipeline(mem[p].line, proc[e].at)
                                                  => proc[e].at <= proc[c].at
<1>2. d \in Commands(p) /\ Best(d)
  BY <1>1 DEF Decides
<1>3. ASSUME NEW c \in Commands(p), Best(c)
      PROVE  c = d
  <2>1. proc[c].at <= proc[d].at /\ proc[d].at <= proc[c].at
    BY <1>2, <1>3
  <2>2. c \in Ran(n, p, proc) /\ d \in Ran(n, p, proc)
    BY <1>1, <1>2
  <2>3. proc[c].at = proc[d].at
    BY <2>1, <2>2
  <2> QED
    BY <2>2, <2>3 DEF Distinct
<1>4. Decider(p, h) = CHOOSE c \in Commands(p) : Best(c)
  BY DEF Decider
<1> HIDE DEF Best
<1>5. (CHOOSE c \in Commands(p) : Best(c)) = d
  BY <1>2, <1>3
<1> QED
  BY <1>4, <1>5

(* For ordinary lines that is so at all times. *)
LEMMA LineInvariance ==
  ASSUME OrdinaryScripts
  PROVE  Spec => [](ShellLocal /\ Kinds /\ LinesRight)
<1>1. Init => Kinds /\ LinesRight
  BY LinesInit
<1>2. ShellLocal /\ ShellLocal' /\ Kinds /\ LinesRight /\ [Next]_vars => Kinds' /\ LinesRight'
  BY KindsNext, LinesNext DEF ShellLocal
<1> QED
  BY <1>1, <1>2, LocalInvariance, PTL DEF Spec

(* When a line is done all of its commands have been decided of.           *)
LEMMA LineDecided ==
  ASSUME OrdinaryScripts, ShellLocal, Kinds, LinesRight
  PROVE  AndOrDecide
<1> SUFFICES ASSUME NEW p \in DOMAIN proc, LineDone(p), NEW h \in Heads(mem[p].line)
             PROVE  (\E c \in Commands(p) : proc[c].at = h) <=>
                      \/ h = 1
                      \/ mem[p].line[h - 1].type = "and" /\ proc[Decider(p, h)].status = 0
                      \/ mem[p].line[h - 1].type = "or" /\ proc[Decider(p, h)].status # 0
  BY DEF AndOrDecide
<1> PICK m, line, n : m = mem[p] /\ line = m.line /\ n = m.lineno
  OBVIOUS
<1>1. Memories /\ Locals
  BY DEF ShellLocal
<1>2. /\ m.pc = "next" /\ Follows(m) /\ Ordinary(line) /\ LineRight(m, p, proc)
      /\ \A c \in Ran(n, p, proc) : proc[c].at \in Nat
  BY <1>1, HereRight DEF LineDone
<1>3. /\ Len(line) \in Nat /\ m.at \in 1 .. Len(line) /\ Passed(line, m.at, m.idx)
      /\ m.idx \in m.at + 1 .. Len(line) + 1 /\ m.idx > Len(line)
  BY <1>2, LineFacts DEF Follows, Passed, LineDone
<1>4. /\ h \in 1 .. Len(line) /\ (h > m.at => h > m.idx)
  BY <1>2, <1>3, NoHead
<1>5. h <= m.at
  BY <1>3, <1>4
<1>6. Right(line, n, p, proc, h) /\ Distinct(n, p, proc)
  BY <1>2, <1>5 DEF LineRight, Busy, DecidedTo, Forking
<1>7. (\E c \in Commands(p) : proc[c].at = h) <=> RanAt(n, p, proc, h)
  BY <1>1, SeqFacts DEF Memories, Processes, Commands, Children, Ran, RanAt
<1>8. CASE h = 1
  BY <1>6, <1>7, <1>8 DEF Right
<1>9. CASE h # 1
  <2>1. PICK d : Decides(line, n, p, proc, h, d) /\ (RanAt(n, p, proc, h) <=> Wanted(line, h, proc[d].status))
    BY <1>6, <1>9 DEF Right
  <2>2. Decider(p, h) = d
    BY <1>1, <1>2, <1>6, <2>1, DeciderIs
  <2> QED
    BY <1>7, <1>9, <2>1, <2>2 DEF Wanted
<1> QED
  BY <1>8, <1>9

(* A command after && or || runs if and only if the last stage that ran    *)
(* before it ended as the operator wants, whatever the commands exit with, *)
(* at the end of every line that has one command between two operators:    *)
(* runshell.cpp:172-266, 279-302.                                          *)
THEOREM AndOrDecides ==
  ASSUME OrdinaryScripts
  PROVE  Spec => []AndOrDecide
<1>1. ShellLocal /\ Kinds /\ LinesRight => AndOrDecide
  BY LineDecided
<1> QED
  BY <1>1, LineInvariance, PTL
-----------------------------------------------------------------------------
(* Jobs.  One sequence after the other. *)
LEMMA ConcatSeq ==
  ASSUME NEW s, NEW t, IsSeq(s), IsSeq(t)
  PROVE  /\ IsSeq(s \o t) /\ Len(s \o t) = Len(s) + Len(t) /\ Len(s) \in Nat /\ Len(t) \in Nat
         /\ \A i \in 1 .. Len(s) : (s \o t)[i] = s[i]
         /\ \A i \in 1 .. Len(t) : (s \o t)[Len(s) + i] = t[i]
<1> DEFINE S == ToSet(s) \cup ToSet(t)
           u == s \o t
<1>1. s \in Seq(S) /\ t \in Seq(S)
  BY SeqMonotonic DEF IsSeq
<1> HIDE DEF S
<1>2. Len(s) \in Nat /\ Len(t) \in Nat
  BY SeqFacts
<1>3. /\ u \in Seq(S) /\ Len(u) = Len(s) + Len(t)
      /\ \A i \in 1 .. Len(s) + Len(t) : u[i] = IF i <= Len(s) THEN s[i] ELSE t[i - Len(s)]
  BY <1>1, ConcatProperties
<1> HIDE DEF u
<1>4. Len(u) \in Nat /\ u = [i \in 1 .. Len(u) |-> u[i]]
  BY <1>3, LenProperties
<1>5. IsSeq(u)
  BY <1>4, MakeSeq
<1>6. \A i \in 1 .. Len(s) : u[i] = s[i]
  BY <1>2, <1>3
<1>7. ASSUME NEW i \in 1 .. Len(t)
      PROVE  u[Len(s) + i] = t[i]
  <2>1. Len(s) + i \in 1 .. Len(s) + Len(t) /\ ~(Len(s) + i <= Len(s)) /\ Len(s) + i - Len(s) = i
    BY <1>2
  <2> QED
    BY <1>3, <2>1
<1> QED
  BY <1>2, <1>3, <1>5, <1>6, <1>7 DEF u

(* cerr tells of each process once. *)
LEMMA ToldIs ==
  ASSUME NEW ps, IsFiniteSet(ps), ps \subseteq Nat
  PROVE  /\ IsSeq(Told(ps))
         /\ \A i \in 1 .. Len(Told(ps)) :
              Told(ps)[i][1] \in ps /\ Told(ps)[i][2] = WEXITSTATUS(proc[Told(ps)[i][1]].status)
         /\ \A i, j \in 1 .. Len(Told(ps)) : Told(ps)[i][1] = Told(ps)[j][1] => i = j
         /\ \A c \in ps : \E i \in 1 .. Len(Told(ps)) : Told(ps)[i][1] = c
<1> DEFINE N == Cardinality(ps)
           below(p) == {q \in ps : q < p}
           rank(p) == Cardinality(below(p)) + 1
           pid(i) == CHOOSE p \in ps : Cardinality({q \in ps : q < p}) = i - 1
           told == Told(ps)
<1>1. N \in Nat
  BY FS_CardinalityType
<1>2. ASSUME NEW p \in ps
      PROVE  IsFiniteSet(below(p)) /\ Cardinality(below(p)) \in Nat /\ Cardinality(below(p)) < N
  <2>1. below(p) \in SUBSET ps /\ below(p) # ps
    OBVIOUS
  <2>2. IsFiniteSet(below(p)) /\ Cardinality(below(p)) <= N /\ Cardinality(below(p)) # N
    BY <2>1, FS_Subset
  <2> QED
    BY <1>1, <2>2, FS_CardinalityType
<1>3. ASSUME NEW p \in ps, NEW q \in ps, p < q
      PROVE  Cardinality(below(p)) < Cardinality(below(q))
  <2>1. below(p) \in SUBSET below(q) /\ below(p) # below(q)
    <3>1. p \in below(q) /\ p \notin below(p)
      BY <1>3
    <3>2. \A x \in ps : x < p => x < q
      BY <1>3
    <3> QED
      BY <3>1, <3>2
  <2>2. Cardinality(below(p)) <= Cardinality(below(q)) /\ Cardinality(below(p)) # Cardinality(below(q))
    BY <1>2, <2>1, FS_Subset
  <2> QED
    BY <1>2, <2>2
<1> HIDE DEF below
<1>4. \A p \in ps : rank(p) \in 1 .. N
  BY <1>1, <1>2
<1>5. \A p, q \in ps : rank(p) = rank(q) => p = q
  BY <1>2, <1>3
<1> DEFINE f == [p \in ps |-> rank(p)]
<1>6. f \in Injection(ps, 1 .. N)
  BY <1>4, <1>5 DEF Injection, IsInjective
<1>7. IsFiniteSet(1 .. N) /\ Cardinality(1 .. N) = N
  <2>1. 1 \in Int /\ N \in Int
    BY <1>1
  <2>2. IsFiniteSet(1 .. N) /\ Cardinality(1 .. N) = IF 1 > N THEN 0 ELSE N - 1 + 1
    BY ONLY <2>1, FS_Interval
  <2> QED
    BY <1>1, <2>2
<1>8. f \in Surjection(ps, 1 .. N)
  BY <1>6, <1>7, FS_Injection
<1>9. ASSUME NEW i \in 1 .. N
      PROVE  pid(i) \in ps /\ rank(pid(i)) = i
  <2>1. PICK p \in ps : rank(p) = i
    BY <1>8 DEF Surjection
  <2>2. Cardinality({q \in ps : q < p}) = i - 1
    BY <1>2, <2>1 DEF below
  <2>3. pid(i) \in ps /\ Cardinality({q \in ps : q < pid(i)}) = i - 1
    BY <2>2
  <2> QED
    BY <1>2, <2>3 DEF below
<1>10. \A p \in ps : pid(rank(p)) = p
  BY <1>4, <1>5, <1>9
<1>11. told = [i \in 1 .. N |-> <<pid(i), WEXITSTATUS(proc[pid(i)].status)>>]
  BY DEF Told
<1> HIDE DEF told, pid, rank
<1>12. IsSeq(told) /\ Len(told) = N
  BY <1>1, <1>11, MakeSeq
<1>13. \A i \in 1 .. N : told[i][1] = pid(i) /\ told[i][2] = WEXITSTATUS(proc[pid(i)].status)
  BY <1>11
<1>14. \A i, j \in 1 .. N : pid(i) = pid(j) => i = j
  BY <1>9
<1>15. \A c \in ps : \E i \in 1 .. N : told[i][1] = c
  BY <1>4, <1>10, <1>13
<1>16. \A i \in 1 .. N : told[i][1] \in ps /\ told[i][2] = WEXITSTATUS(proc[told[i][1]].status)
  BY <1>9, <1>13
<1>17. \A i, j \in 1 .. N : told[i][1] = told[j][1] => i = j
  BY <1>13, <1>14
<1> QED
  BY <1>12, <1>15, <1>16, <1>17 DEF told
(* The copies of the shell that work off a line in the background, and     *)
(* what decided the status of one that has ended.                          *)
Jobs(pr) == {c \in 1 .. Len(pr) : pr[c].parent = Main /\ pr[c].at = 0}

JobDone(m, c, pr) ==
  /\ Distinct(m.lineno, c, pr)
  /\ \E d \in Ran(m.lineno, c, pr) :
       /\ Decides(m.line, m.lineno, c, pr, Len(m.line) + 1, d) /\ pr[d].state \in Gone
       /\ pr[c].status = WEXITSTATUS(pr[d].status)

JobsDone == \A c \in Jobs(proc) : proc[c].state \in Gone => JobDone(mem[c], c, proc)

(* The shell knows the jobs it has not waited for, and its copies knew     *)
(* none but jobs.                                                          *)
JobsWatched ==
  /\ \A p \in 1 .. Len(proc) : proc[p].state = "shell" => mem[p].subprocesses_ \subseteq Jobs(proc)
  /\ \A c \in Jobs(proc) :
       proc[c].state = "reaped" <=> ~(proc[Main].state = "shell" /\ c \in mem[Main].subprocesses_)

(* Every job that has been waited for has been told of, once.              *)
JobsTold(pr, told) ==
  /\ IsSeq(told)
  /\ \A i \in 1 .. Len(told) :
       /\ told[i][1] \in Jobs(pr) /\ pr[told[i][1]].state = "reaped"
       /\ told[i][2] = WEXITSTATUS(pr[told[i][1]].status)
  /\ \A i, j \in 1 .. Len(told) : told[i][1] = told[j][1] => i = j
  /\ \A c \in Jobs(pr) : pr[c].state = "reaped" => \E i \in 1 .. Len(told) : told[i][1] = c

(* A process that is a job stays one, and a new one has yet to end.        *)
LEMMA JobsLater ==
  ASSUME NEW pr, NEW pr2, Continued(pr, pr2), Len(pr) \in Nat, Len(pr2) \in Nat
  PROVE  /\ \A c \in 1 .. Len(pr) : c \in 1 .. Len(pr2) /\ (c \in Jobs(pr2) <=> c \in Jobs(pr))
         /\ \A c \in Jobs(pr) : c \in 1 .. Len(pr)
         /\ \A c \in Jobs(pr2) : c \notin Jobs(pr) =>
              c \in Len(pr) + 1 .. Len(pr2) /\ pr2[c].state \in {"shell", "forked"}
<1>1. \A c \in 1 .. Len(pr) : Same(pr[c], pr2[c]) /\ c \in 1 .. Len(pr2)
  BY DEF Continued
<1>2. \A c \in 1 .. Len(pr) : c \in Jobs(pr2) <=> c \in Jobs(pr)
  BY <1>1 DEF Jobs, Same
<1>3. \A c \in Jobs(pr2) : c \notin Jobs(pr) => c \in Len(pr) + 1 .. Len(pr2)
  BY <1>2 DEF Jobs
<1> QED
  BY <1>1, <1>2, <1>3 DEF Jobs, Continued

(* Those that are waited for are told of. *)
LEMMA ToldMore ==
  ASSUME Memories, Len(proc') \in Nat, Continued(proc, proc'), JobsTold(proc, cerr), NEW ps, ps \subseteq Jobs(proc),
         \A c \in ps : proc[c].state = "ended",
         \A c \in Jobs(proc) : proc'[c].state = "reaped" <=> proc[c].state = "reaped" \/ c \in ps,
         cerr' = cerr \o Told(ps)
  PROVE  JobsTold(proc', cerr')
<1>1. Len(proc) \in Nat
  BY DEF Memories, Processes
<1>2. IsFiniteSet(ps) /\ ps \subseteq Nat
  <2>1. ps \subseteq 1 .. Len(proc)
    BY DEF Jobs
  <2>2. 1 \in Int /\ Len(proc) \in Int
    BY <1>1
  <2>3. IsFiniteSet(1 .. Len(proc))
    BY ONLY <2>2, FS_Interval
  <2>4. IsFiniteSet(ps)
    BY ONLY <2>1, <2>3, FS_Subset
  <2>5. ps \subseteq Nat
    BY ONLY <2>1, <2>2
  <2> QED
    BY <2>4, <2>5
<1> PICK t : t = Told(ps)
  OBVIOUS
<1>3. /\ IsSeq(t)
      /\ \A i \in 1 .. Len(t) : t[i][1] \in ps /\ t[i][2] = WEXITSTATUS(proc[t[i][1]].status)
      /\ \A i, j \in 1 .. Len(t) : t[i][1] = t[j][1] => i = j
      /\ \A c \in ps : \E i \in 1 .. Len(t) : t[i][1] = c
  <2>1. /\ IsSeq(Told(ps))
        /\ \A i \in 1 .. Len(Told(ps)) :
             Told(ps)[i][1] \in ps /\ Told(ps)[i][2] = WEXITSTATUS(proc[Told(ps)[i][1]].status)
        /\ \A i, j \in 1 .. Len(Told(ps)) : Told(ps)[i][1] = Told(ps)[j][1] => i = j
        /\ \A c \in ps : \E i \in 1 .. Len(Told(ps)) : Told(ps)[i][1] = c
    BY ONLY <1>2, ToldIs
  <2> QED
    BY <2>1
<1> PICK n : n = Len(cerr)
  OBVIOUS
<1>4. /\ IsSeq(cerr') /\ Len(cerr') = n + Len(t) /\ n \in Nat /\ Len(t) \in Nat
      /\ \A i \in 1 .. n : cerr'[i] = cerr[i]
      /\ \A i \in 1 .. Len(t) : cerr'[n + i] = t[i]
  BY <1>3, ConcatSeq DEF JobsTold
<1>5. ASSUME NEW i \in 1 .. Len(cerr')
      PROVE  i \in 1 .. n \/ \E k \in 1 .. Len(t) : i = n + k
  <2>1. CASE i > n
    <3>1. i - n \in 1 .. Len(t) /\ i = n + (i - n)
      BY <1>4, <1>5, <2>1
    <3> QED
      BY <3>1
  <2> QED
    BY <1>4, <1>5, <2>1
<1>6. \A c \in Jobs(proc) :
        /\ c \in Jobs(proc') /\ c \in 1 .. Len(proc)
        /\ proc[c].state \in Gone => proc'[c].status = proc[c].status
  BY <1>1, JobsLater DEF Jobs, Continued, Same
<1>7. \A i \in 1 .. n : /\ cerr[i][1] \in Jobs(proc) /\ proc[cerr[i][1]].state = "reaped"
                        /\ cerr[i][2] = WEXITSTATUS(proc[cerr[i][1]].status)
  BY DEF JobsTold
<1>8. ASSUME NEW i \in 1 .. Len(cerr')
      PROVE  /\ cerr'[i][1] \in Jobs(proc') /\ proc'[cerr'[i][1]].state = "reaped"
             /\ cerr'[i][2] = WEXITSTATUS(proc'[cerr'[i][1]].status)
  <2>1. CASE i \in 1 .. n
    <3>1. PICK c : c = cerr[i][1]
      OBVIOUS
    <3>2. c \in Jobs(proc) /\ proc[c].state = "reaped" /\ cerr[i][2] = WEXITSTATUS(proc[c].status)
      BY <1>7, <2>1, <3>1
    <3>3. c \in Jobs(proc') /\ proc'[c].state = "reaped" /\ proc'[c].status = proc[c].status
      BY <1>6, <3>2 DEF Gone
    <3>4. cerr'[i] = cerr[i]
      BY <1>4, <2>1
    <3> QED
      BY <3>1, <3>2, <3>3, <3>4
  <2>2. ASSUME NEW k \in 1 .. Len(t), i = n + k
        PROVE  /\ cerr'[i][1] \in Jobs(proc') /\ proc'[cerr'[i][1]].state = "reaped"
               /\ cerr'[i][2] = WEXITSTATUS(proc'[cerr'[i][1]].status)
    <3>1. cerr'[i] = t[k]
      BY <1>4, <2>2
    <3>2. PICK c : c = t[k][1]
      OBVIOUS
    <3>3. c \in ps /\ t[k][2] = WEXITSTATUS(proc[c].status)
      BY <1>3, <3>2
    <3>4. c \in Jobs(proc') /\ proc'[c].state = "reaped" /\ proc'[c].status = proc[c].status
      BY <1>6, <3>3 DEF Gone
    <3> QED
      BY <3>1, <3>2, <3>3, <3>4
  <2> QED
    BY <1>5, <2>1, <2>2
<1>9. ASSUME NEW i \in 1 .. Len(cerr'), NEW j \in 1 .. Len(cerr'), cerr'[i][1] = cerr'[j][1]
      PROVE  i = j
  <2>1. \A k \in 1 .. n, l \in 1 .. Len(t) : cerr'[k][1] # cerr'[n + l][1]
    <3>1. \A k \in 1 .. n : proc[cerr'[k][1]].state = "reaped"
      BY <1>4, <1>7
    <3>2. \A l \in 1 .. Len(t) : proc[cerr'[n + l][1]].state = "ended"
      BY <1>3, <1>4
    <3> QED
      BY <3>1, <3>2
  <2>2. CASE i \in 1 .. n /\ j \in 1 .. n
    BY <1>4, <1>9, <2>2 DEF JobsTold
  <2>3. ASSUME NEW k \in 1 .. Len(t), NEW l \in 1 .. Len(t), i = n + k, j = n + l
        PROVE  i = j
    <3>1. t[k][1] = t[l][1]
      BY <1>4, <1>9, <2>3
    <3>2. k = l
      BY <1>3, <3>1
    <3> QED
      BY <2>3, <3>2
  <2>4. ASSUME i \in 1 .. n, NEW l \in 1 .. Len(t), j = n + l
        PROVE  FALSE
    BY ONLY <1>9, <2>1, <2>4
  <2>5. ASSUME j \in 1 .. n, NEW k \in 1 .. Len(t), i = n + k
        PROVE  FALSE
    BY ONLY <1>9, <2>1, <2>5
  <2>6. (i \in 1 .. n \/ \E k \in 1 .. Len(t) : i = n + k) /\ (j \in 1 .. n \/ \E l \in 1 .. Len(t) : j = n + l)
    BY <1>5
  <2> QED
    BY ONLY <2>2, <2>3, <2>4, <2>5, <2>6
<1>10. ASSUME NEW c \in Jobs(proc'), proc'[c].state = "reaped"
       PROVE  \E i \in 1 .. Len(cerr') : cerr'[i][1] = c
  <2>1. c \in Jobs(proc)
    BY <1>1, <1>10, JobsLater
  <2>2. CASE proc[c].state = "reaped"
    <3>1. PICK i \in 1 .. n : cerr[i][1] = c
      BY <2>1, <2>2 DEF JobsTold
    <3>2. i \in 1 .. Len(cerr')
      BY <1>4
    <3> QED
      BY <1>4, <3>1, <3>2
  <2>3. CASE c \in ps
    <3>1. PICK k \in 1 .. Len(t) : t[k][1] = c
      BY <1>3, <2>3
    <3>2. n + k \in 1 .. Len(cerr')
      BY <1>4
    <3> QED
      BY <1>4, <3>1, <3>2
  <2> QED
    BY <1>10, <2>1, <2>2, <2>3
<1> QED
  BY <1>4, <1>8, <1>9, <1>10 DEF JobsTold

(* And nobody else is. *)
LEMMA ToldSame ==
  ASSUME Memories, Len(proc') \in Nat, Continued(proc, proc'), JobsTold(proc, cerr),
         \A c \in Jobs(proc) : proc'[c].state = "reaped" <=> proc[c].state = "reaped", cerr' = cerr
  PROVE  JobsTold(proc', cerr')
<1>1. Len(proc) \in Nat
  BY DEF Memories, Processes
<1>2. \A c \in Jobs(proc) :
        /\ c \in Jobs(proc') /\ c \in 1 .. Len(proc)
        /\ proc[c].state \in Gone => proc'[c].status = proc[c].status
  BY <1>1, JobsLater DEF Jobs, Continued, Same
<1>3. \A i \in 1 .. Len(cerr) :
        /\ cerr[i][1] \in Jobs(proc') /\ proc'[cerr[i][1]].state = "reaped"
        /\ cerr[i][2] = WEXITSTATUS(proc'[cerr[i][1]].status)
  BY <1>2 DEF JobsTold, Gone
<1>4. \A c \in Jobs(proc') : proc'[c].state = "reaped" => c \in Jobs(proc)
  BY <1>1, JobsLater
<1> QED
  BY <1>3, <1>4 DEF JobsTold
(* Who forks is the shell or a copy of it. *)
LEMMA NewParents ==
  ASSUME Memories, Locals, Memories', [Next]_vars
  PROVE  \A c \in Len(proc) + 1 .. Len(proc') : proc'[c].parent \in 1 .. Len(proc) /\ proc[proc'[c].parent].state = "shell"
<1> SUFFICES ASSUME NEW c \in Len(proc) + 1 .. Len(proc')
             PROVE  proc'[c].parent \in 1 .. Len(proc) /\ proc[proc'[c].parent].state = "shell"
  OBVIOUS
<1>1. Len(proc) \in Nat
  BY DEF Memories, Processes
<1>2. ASSUME NEW p, NEW pc, At(p, pc), NEW kind, NEW parent, NEW child, Fork(p, kind, parent, child)
      PROVE  proc'[c].parent \in 1 .. Len(proc) /\ proc[proc'[c].parent].state = "shell"
  <2>1. p \in 1 .. Len(proc) /\ proc[p].state = "shell"
    BY <1>2, Here
  <2>2. NewPid = Len(proc) + 1 /\ Len(proc') = NewPid /\ proc'[NewPid].parent = p
    BY <1>2, <2>1, ForkRecord
  <2>3. c = NewPid
    BY <1>1, <2>2
  <2> QED
    BY <2>1, <2>2, <2>3
<1>3. CASE Len(proc') = Len(proc)
  BY <1>1, <1>3
<1>4. CASE Getline
  <2>1. At(Main, "getline") /\ (proc' = proc \/ \E parent, child : Fork(Main, "shell", parent, child))
    BY <1>4 DEF Getline
  <2> QED
    BY <1>2, <1>3, <2>1
<1>5. ASSUME NEW p, ForkCommand(p)
      PROVE  proc'[c].parent \in 1 .. Len(proc) /\ proc[proc'[c].parent].state = "shell"
  BY <1>2, <1>5 DEF ForkCommand
<1> QED
  BY <1>3, <1>4, <1>5, Grown

(* The memory of a process that has ended stays as it is. *)
LEMMA GoneMemory ==
  ASSUME Memories, Locals, [Next]_vars, NEW c \in 1 .. Len(proc), proc[c].state \in Gone
  PROVE  mem'[c] = mem[c]
<1>1. ASSUME NEW p \in 1 .. Len(proc), proc[p].state \in {"shell", "forked"}, NEW m, mem' = [mem EXCEPT ![p] = m]
      PROVE  mem'[c] = mem[c]
  <2>1. c # p
    BY <1>1 DEF Gone
  <2> QED
    BY <1>1, <2>1, MemReplaced DEF Memories
<1>2. ASSUME NEW p \in 1 .. Len(proc), proc[p].state = "shell", NEW kind, NEW m, NEW child, Fork(p, kind, m, child)
      PROVE  mem'[c] = mem[c]
  <2>1. c # p
    BY <1>2 DEF Gone
  <2> QED
    BY <1>2, <2>1, ForkRecord
<1>3. CASE UNCHANGED vars \/ handler
  BY <1>3 DEF vars, handler
<1>4. CASE Getline
  <2>1. Main \in 1 .. Len(proc) /\ proc[Main].state = "shell"
    BY <1>4, Here DEF Getline
  <2>2. (\E m : mem' = [mem EXCEPT ![Main] = m]) \/ \E m, child : Fork(Main, "shell", m, child)
    BY <1>4 DEF Getline
  <2> QED
    BY <1>1, <1>2, <2>1, <2>2
<1>5. CASE EndOfInput \/ TerminalWatch
  <2>1. Main \in 1 .. Len(proc) /\ proc[Main].state = "shell"
    BY <1>5, Here DEF EndOfInput, TerminalWatch
  <2>2. \E m : mem' = [mem EXCEPT ![Main] = m]
    BY <1>5 DEF EndOfInput, TerminalWatch
  <2> QED
    BY <1>1, <2>1, <2>2
<1>6. ASSUME NEW p, ShellStep(p)
      PROVE  mem'[c] = mem[c]
  <2>1. p \in 1 .. Len(proc) /\ proc[p].state = "shell"
    BY <1>6, Here DEF ShellStep, StartCall, MakePipe, SkipStage, ForkCommand, Insert, Waitpid, NextCall, ExitSubprocess
  <2>2. CASE StartCall(p)
    <3>1. \E m : mem' = [mem EXCEPT ![p] = m]
      BY <2>2 DEF StartCall
    <3> QED
      BY <1>1, <2>1, <3>1
  <2>3. CASE MakePipe(p)
    <3>1. \E m : mem' = [mem EXCEPT ![p] = m]
      BY <2>3 DEF MakePipe
    <3> QED
      BY <1>1, <2>1, <3>1
  <2>4. CASE SkipStage(p) \/ Insert(p)
    <3>1. \E m : mem' = [mem EXCEPT ![p] = m]
      BY <2>4 DEF SkipStage, Insert, NextStage
    <3> QED
      BY <1>1, <2>1, <3>1
  <2>5. CASE ForkCommand(p)
    <3>1. \E m, child : Fork(p, "forked", m, child)
      BY <2>5 DEF ForkCommand
    <3> QED
      BY <1>2, <2>1, <3>1
  <2>6. CASE Waitpid(p) \/ NextCall(p)
    <3>1. \E m : mem' = [mem EXCEPT ![p] = m]
      BY <2>6 DEF Waitpid, NextCall
    <3> QED
      BY <1>1, <2>1, <3>1
  <2>7. CASE ExitSubprocess(p)
    BY <2>7 DEF ExitSubprocess
  <2> QED
    BY <1>6, <2>2, <2>3, <2>4, <2>5, <2>6, <2>7 DEF ShellStep
<1>7. ASSUME NEW p, ProgramStep(p)
      PROVE  mem'[c] = mem[c]
  <2>1. CASE Exec(p)
    <3>1. p \in 1 .. Len(proc) /\ proc[p].state = "forked" /\ mem' = [mem EXCEPT ![p] = NoMemory]
      BY <2>1, SeqFacts DEF Exec, Memories, Processes
    <3> QED
      BY <1>1, <3>1
  <2>2. CASE Read(p) \/ Write(p) \/ Exit(p)
    BY <2>2 DEF Read, Write, Exit
  <2> QED
    BY <1>7, <2>1, <2>2 DEF ProgramStep
<1> QED
  BY <1>3, <1>4, <1>5, <1>6, <1>7 DEF Next

(* Those that p waits for. *)
Waits(p, ps) ==
  /\ proc' = Reaped(ps)
  /\ \/ Waitpid(p) /\ ps = {mem[p].pipe_pids[mem[p].i]}
     \/ NextCall(p) /\ ps = Watched(p)

(* How a process changes its state that runs no command. *)
LEMMA ShellMoves ==
  ASSUME Memories, Locals, [Next]_vars, NEW c \in 1 .. Len(proc), proc[c].state \notin {"forked", "runs"}
  PROVE  \/ proc'[c].state = proc[c].state
         \/ ExitSubprocess(c)
         \/ proc[c].state \in Gone /\ \E p, ps : Waits(p, ps) /\ c \in ps
         \/ TerminalWatch
<1>1. DOMAIN proc = 1 .. Len(proc) /\ DOMAIN proc[c] = RecordFields
  BY SeqFacts DEF Memories, Processes, Locals, Local
<1>2. ASSUME NEW ps, NEW status, EndProcesses(ps, status), c \notin ps
      PROVE  proc'[c].state = proc[c].state
  BY <1>1, <1>2 DEF EndProcesses
<1>3. ASSUME NEW p, NEW fds, proc' = [proc EXCEPT ![p].fds = fds]
      PROVE  proc'[c].state = proc[c].state
  BY <1>1, <1>3 DEF RecordFields
<1>4. ASSUME NEW ps, proc' = Reaped(ps), c \notin ps
      PROVE  proc'[c].state = proc[c].state
  BY <1>1, <1>4 DEF Reaped
<1>5. ASSUME NEW p, NEW pc, At(p, pc), NEW kind, NEW parent, NEW child, Fork(p, kind, parent, child)
      PROVE  proc'[c].state = proc[c].state
  <2>1. p \in 1 .. Len(proc)
    BY <1>5, Here
  <2> QED
    BY <1>1, <1>5, <2>1, ForkRecord
<1>6. CASE EndOfInput \/ UNCHANGED vars
  BY <1>6 DEF EndOfInput, vars
<1>7. CASE Getline
  <2>1. At(Main, "getline") /\ (proc' = proc \/ \E parent, child : Fork(Main, "shell", parent, child))
    BY <1>7 DEF Getline
  <2> QED
    BY <1>5, <2>1
<1>8. CASE handler
  BY <1>1, <1>2, <1>8 DEF handler, Interrupted
<1>9. ASSUME NEW p, ShellStep(p), ~ExitSubprocess(p), ~Waitpid(p), ~NextCall(p)
      PROVE  proc'[c].state = proc[c].state
  <2>1. CASE StartCall(p)
    <3>1. \E fds : proc' = [proc EXCEPT ![p].fds = fds]
      BY <2>1 DEF StartCall
    <3> QED
      BY <1>3, <3>1
  <2>2. CASE MakePipe(p)
    <3>1. \E fds : proc' = [proc EXCEPT ![p].fds = fds]
      BY <2>2 DEF MakePipe
    <3> QED
      BY <1>3, <3>1
  <2>3. CASE SkipStage(p) \/ Insert(p)
    <3>1. \E fds : proc' = [proc EXCEPT ![p].fds = fds]
      BY <2>3 DEF SkipStage, Insert, NextStage
    <3> QED
      BY <1>3, <3>1
  <2>4. CASE ForkCommand(p)
    BY <1>5, <2>4 DEF ForkCommand
  <2> QED
    BY <1>9, <2>1, <2>2, <2>3, <2>4 DEF ShellStep
<1>10. ASSUME NEW p, ProgramStep(p)
       PROVE  proc'[c].state = proc[c].state
  <2>1. p \in 1 .. Len(proc) /\ proc[p].state \in {"forked", "runs"} /\ p # c
    BY <1>1, <1>10 DEF ProgramStep, Exec, Read, Write, Exit, Runs
  <2>2. CASE Exec(p)
    <3>1. proc'[c] = proc[c] \/ EndProcesses({p}, EXIT_FAILURE)
      BY <1>1, <2>1, <2>2 DEF Exec
    <3> QED
      BY <1>2, <2>1, <3>1
  <2>3. CASE Read(p)
    BY <2>3 DEF Read
  <2>4. CASE Write(p)
    <3>1. proc'[c] = proc[c] \/ EndProcesses({p}, Killed)
      BY <1>1, <2>1, <2>4 DEF Write
    <3> QED
      BY <1>2, <2>1, <3>1
  <2>5. CASE Exit(p)
    BY <1>2, <2>1, <2>5 DEF Exit
  <2> QED
    BY <1>10, <2>2, <2>3, <2>4, <2>5 DEF ProgramStep
<1>11. ASSUME NEW p, ExitSubprocess(p)
       PROVE  ExitSubprocess(c) \/ proc'[c].state = proc[c].state
  <2>1. CASE p = c
    BY <1>11, <2>1
  <2>2. CASE p # c
    BY <1>2, <1>11, <2>2 DEF ExitSubprocess
  <2> QED
    BY <2>1, <2>2
<1>12. ASSUME NEW p, Waitpid(p)
       PROVE  \/ proc'[c].state = proc[c].state
              \/ proc[c].state \in Gone /\ \E ps : Waits(p, ps) /\ c \in ps
  <2> DEFINE child == mem[p].pipe_pids[mem[p].i]
  <2>1. proc[child].state = "ended" /\ proc' = Reaped({child})
    BY <1>12 DEF Waitpid
  <2>2. Waits(p, {child})
    BY <1>12, <2>1 DEF Waits
  <2> QED
    BY <1>4, <2>1, <2>2 DEF Gone
<1>13. ASSUME NEW p, NextCall(p)
       PROVE  \/ proc'[c].state = proc[c].state
              \/ proc[c].state \in Gone /\ \E ps : Waits(p, ps) /\ c \in ps
  <2>1. proc' = Reaped(Watched(p)) /\ \A q \in Watched(p) : proc[q].state = "ended"
    BY <1>13 DEF NextCall, Watched
  <2>2. Waits(p, Watched(p))
    BY <1>13, <2>1 DEF Waits
  <2> QED
    BY <1>4, <2>1, <2>2 DEF Gone
<1>14. ASSUME NEW p, ShellStep(p)
       PROVE  \/ proc'[c].state = proc[c].state
              \/ ExitSubprocess(c)
              \/ proc[c].state \in Gone /\ \E q, ps : Waits(q, ps) /\ c \in ps
  BY <1>9, <1>11, <1>12, <1>13, <1>14
<1> QED
  BY <1>6, <1>7, <1>8, <1>10, <1>14 DEF Next

(* How a job ended stays known. *)
LEMMA JobDoneLater ==
  ASSUME Memories, Memories', Locals, Continued(proc, proc'), NEW c \in 1 .. Len(proc), NEW m, mem'[c] = m,
         \A q \in Len(proc) + 1 .. Len(proc') : proc'[q].parent # c,
         Distinct(m.lineno, c, proc),
         NEW d \in Ran(m.lineno, c, proc), Decides(m.line, m.lineno, c, proc, Len(m.line) + 1, d),
         proc[d].state \in Gone, proc'[c].status = WEXITSTATUS(proc[d].status)
  PROVE  JobDone(mem'[c], c, proc')
<1> PICK n, line : n = m.lineno /\ line = m.line
  OBVIOUS
<1>1. Len(proc) \in Nat /\ Len(proc') \in Nat
  BY DEF Memories, Processes
<1>2. /\ \A e : e \in Ran(n, c, proc') <=> e \in Ran(n, c, proc)
      /\ \A e \in Ran(n, c, proc) :
           /\ proc'[e].at = proc[e].at
           /\ proc[e].state \in Gone => proc'[e].status = proc[e].status /\ proc'[e].state \in Gone
  BY <1>1, RanLater
<1>3. Decides(line, n, c, proc', Len(line) + 1, d)
  <2>1. \A h, e : Decides(line, n, c, proc, h, e) => Decides(line, n, c, proc', h, e)
    BY ONLY <1>2, DecidedLater
  <2> QED
    BY <2>1
<1>4. Distinct(n, c, proc')
  BY <1>2 DEF Distinct
<1> QED
  BY <1>2, <1>3, <1>4 DEF JobDone

(* What ends a job is its line. *)
LEMMA JobsDoneNext ==
  ASSUME OrdinaryScripts, Memories, Locals, Kinds, LinesRight, JobsDone, Memories', [Next]_vars
  PROVE  JobsDone'
<1>1. Continued(proc, proc') /\ Len(proc) \in Nat /\ Len(proc') \in Nat /\ DOMAIN proc = 1 .. Len(proc)
  BY ContinuedNext, SeqFacts DEF Memories, Processes
<1> SUFFICES ASSUME NEW c \in Jobs(proc'), proc'[c].state \in Gone
             PROVE  JobDone(mem'[c], c, proc')
  BY DEF JobsDone
<1>2. c \in Jobs(proc) /\ c \in 1 .. Len(proc)
  BY <1>1, JobsLater DEF Gone
<1>3. proc[c].state \notin {"forked", "runs"}
  BY <1>2 DEF Kinds, Jobs
<1>4. c # Main
  BY <1>2 DEF Jobs, Memories, Processes, Main
<1>5. CASE proc[c].state \in Gone
  <2>1. mem'[c] = mem[c]
    BY <1>2, <1>5, GoneMemory
  <2>2. \A q \in Len(proc) + 1 .. Len(proc') : proc'[q].parent # c
    BY <1>5, NewParents DEF Gone
  <2>3. JobDone(mem[c], c, proc)
    BY <1>2, <1>5 DEF JobsDone
  <2>4. proc'[c].status = proc[c].status
    BY <1>1, <1>2, <1>5 DEF Continued, Same
  <2> QED
    BY <1>1, <1>2, <2>1, <2>2, <2>3, <2>4, JobDoneLater DEF JobDone
<1>6. CASE ExitSubprocess(c)
  <2>1. /\ At(c, "exit") /\ mem' = mem
        /\ EndProcesses({c}, WEXITSTATUS(mem[c].prev_exit_status_))
    BY <1>6 DEF ExitSubprocess
  <2>2. /\ LineRight(mem[c], c, proc) /\ mem[c].pc = "exit"
    BY <2>1, HereRight
  <2>3. /\ Distinct(mem[c].lineno, c, proc)
        /\ Led(mem[c].line, mem[c].lineno, c, proc, Len(mem[c].line) + 1, mem[c].prev_exit_status_)
    BY <2>2 DEF LineRight, Busy
  <2>4. proc'[c].status = WEXITSTATUS(mem[c].prev_exit_status_) /\ DOMAIN proc' = DOMAIN proc
    <3>1. DOMAIN proc[c] = RecordFields
      BY <1>2 DEF Locals, Local
    <3> QED
      BY <1>1, <1>2, <2>1, <3>1 DEF EndProcesses, RecordFields
  <2>5. \A q \in Len(proc) + 1 .. Len(proc') : proc'[q].parent # c
    BY <1>1, <2>4, SameLen
  <2> QED
    BY <1>1, <1>2, <2>1, <2>3, <2>4, <2>5, JobDoneLater DEF Led
<1>7. CASE TerminalWatch
  <2>1. PICK ps : /\ \A q \in ps : proc[q].state \in {"ended", "reaped"}
                  /\ proc' = [Reaped(ps) EXCEPT ![Main].state = "ended", ![Main].fds = NoFds]
    BY <1>7 DEF TerminalWatch
  <2>2. proc'[c] = Reaped(ps)[c]
    BY <1>1, <1>2, <1>4, <2>1 DEF Reaped
  <2>3. c \notin ps => Reaped(ps)[c] = proc[c]
    BY <1>1, <1>2 DEF Reaped
  <2> QED
    BY <1>5, <2>1, <2>2, <2>3 DEF Gone
<1> QED
  BY <1>2, <1>3, <1>5, <1>6, <1>7, ShellMoves

(* The shell waits for a job at the end of a command and at its own end.   *)
LEMMA JobsNotReaped ==
  ASSUME Memories, Locals, Kinds, JobsWatched, [Next]_vars, ~TerminalWatch, \A p : ~NextCall(p)
  PROVE  \A c \in Jobs(proc) : proc'[c].state = "reaped" <=> proc[c].state = "reaped"
<1> SUFFICES ASSUME NEW c \in Jobs(proc)
             PROVE  proc'[c].state = "reaped" <=> proc[c].state = "reaped"
  OBVIOUS
<1>1. c \in 1 .. Len(proc) /\ proc[c].parent = Main /\ proc[c].state \notin {"forked", "runs"}
  BY DEF Kinds, Jobs
<1>2. CASE ExitSubprocess(c)
  <2>1. DOMAIN proc = 1 .. Len(proc) /\ DOMAIN proc[c] = RecordFields
    BY <1>1, SeqFacts DEF Memories, Processes, Locals, Local
  <2>2. proc[c].state = "shell" /\ EndProcesses({c}, WEXITSTATUS(mem[c].prev_exit_status_))
    BY <1>2 DEF ExitSubprocess, At
  <2>3. proc'[c].state = "ended"
    BY <1>1, <2>1, <2>2 DEF EndProcesses, RecordFields
  <2> QED
    BY <2>2, <2>3
<1>3. ASSUME NEW p, NEW ps, Waits(p, ps), c \in ps
      PROVE  FALSE
  <2>1. Waitpid(p) /\ c = mem[p].pipe_pids[mem[p].i]
    BY <1>3 DEF Waits
  <2>2. At(p, "wait") /\ proc[c].state = "ended"
    BY <2>1 DEF Waitpid
  <2>3. Known(mem[p], p, proc) /\ mem[p].pc = "wait" /\ (p = Main => Accounted(mem[p], proc)) /\ proc[p].state = "shell"
    BY <2>2, Here
  <2>4. mem[p].i \in 1 .. Len(mem[p].pipe_pids) /\ OwnStages(mem[p], p, proc)
    BY <2>3 DEF Known, Working
  <2>5. p = Main
    BY <1>1, <2>1, <2>4 DEF OwnStages
  <2>6. c \notin mem[Main].subprocesses_
    BY <2>1, <2>3, <2>4, <2>5 DEF Accounted, Working
  <2> QED
    BY <2>2, <2>6 DEF JobsWatched
<1> QED
  BY <1>1, <1>2, <1>3, ShellMoves

(* A command of the line has ended, and the jobs are looked at. *)
LEMMA NextCallJobs ==
  ASSUME Memories, Locals, JobsWatched, JobsTold(proc, cerr), Memories', NEW p, NextCall(p), [Next]_vars
  PROVE  JobsWatched' /\ JobsTold(proc', cerr')
<1> PICK ps : ps = Watched(p)
  OBVIOUS
<1>1. /\ Continued(proc, proc') /\ Len(proc) \in Nat /\ Len(proc') \in Nat /\ DOMAIN proc = 1 .. Len(proc)
      /\ Main \in 1 .. Len(proc) /\ proc[Main].parent = 0
  BY ContinuedNext, SeqFacts DEF Memories, Processes, Main
<1>2. p \in 1 .. Len(proc) /\ proc[p].state = "shell"
  BY Here DEF NextCall
<1>3. \A c \in ps : c \in mem[p].subprocesses_ /\ proc[c].parent = p /\ proc[c].state = "ended"
  BY DEF Watched
<1>4. ps \subseteq Jobs(proc) /\ (p # Main => ps = {})
  BY <1>2, <1>3 DEF JobsWatched, Jobs
<1>5. proc' = Reaped(ps) /\ cerr' = cerr \o Told(ps)
  BY DEF NextCall
<1>6. \A c \in 1 .. Len(proc) :
        /\ proc'[c].state = "reaped" <=> proc[c].state = "reaped" \/ c \in ps
        /\ c \notin ps => proc'[c] = proc[c]
  <2>1. \A c \in 1 .. Len(proc) : DOMAIN proc[c] = RecordFields
    BY DEF Locals, Local
  <2> QED
    BY <1>1, <1>5, <2>1 DEF Reaped, RecordFields
<1>7. JobsTold(proc', cerr')
  BY <1>1, <1>3, <1>4, <1>5, <1>6, ToldMore DEF Jobs
<1>8. \A c : c \in Jobs(proc') <=> c \in Jobs(proc)
  <2>1. Len(proc') = Len(proc)
    BY <1>5, SameLen DEF Reaped
  <2> QED
    BY <1>1, <2>1, JobsLater DEF Jobs
<1>9. /\ mem'[p].subprocesses_ = mem[p].subprocesses_ \ ps
      /\ \A q \in 1 .. Len(proc) : q # p => mem'[q] = mem[q]
  <2>1. PICK m : mem' = [mem EXCEPT ![p] = m] /\ m.subprocesses_ = mem[p].subprocesses_ \ ps
    <3>1. DOMAIN mem[p] = MemoryFields
      BY <1>2 DEF Locals, Local
    <3> DEFINE idx == IF mem[p].idx <= Len(mem[p].line) THEN mem[p].idx + 1 ELSE mem[p].idx
               m == [mem[p] EXCEPT
                       !.subprocesses_ = Remaining(p), !.idx = idx,
                       !.prev_op = IF mem[p].idx <= Len(mem[p].line) THEN mem[p].line[mem[p].idx].type ELSE @,
                       !.pc = IF idx <= Len(mem[p].line) THEN "call"
                              ELSE IF p = Main THEN "getline" ELSE "exit"]
    <3>2. mem' = [mem EXCEPT ![p] = m]
      BY DEF NextCall
    <3>3. m.subprocesses_ = Remaining(p)
      BY <3>1 DEF MemoryFields
    <3> QED
      BY <3>2, <3>3 DEF Remaining
  <2> QED
    BY <1>2, <2>1, MemReplaced DEF Memories
<1>10. Main \notin ps
  BY <1>1, <1>4 DEF Jobs, Main
<1>11. ASSUME NEW q \in 1 .. Len(proc'), proc'[q].state = "shell"
       PROVE  mem'[q].subprocesses_ \subseteq Jobs(proc')
  <2>1. q \in 1 .. Len(proc) /\ proc[q].state = "shell"
    <3>1. Len(proc') = Len(proc)
      BY <1>5, SameLen DEF Reaped
    <3> QED
      BY <1>1, <1>11, <3>1 DEF Continued, Same
  <2> QED
    BY <1>8, <1>9, <2>1 DEF JobsWatched
<1>12. ASSUME NEW c \in Jobs(proc')
       PROVE  proc'[c].state = "reaped" <=> ~(proc'[Main].state = "shell" /\ c \in mem'[Main].subprocesses_)
  <2>1. c \in Jobs(proc) /\ c \in 1 .. Len(proc)
    BY <1>8 DEF Jobs
  <2>2. proc[c].state = "reaped" <=> ~(proc[Main].state = "shell" /\ c \in mem[Main].subprocesses_)
    BY <2>1 DEF JobsWatched
  <2>3. proc'[Main] = proc[Main]
    BY <1>1, <1>6, <1>10
  <2>4. CASE p = Main
    BY <1>2, <1>6, <1>9, <2>1, <2>2, <2>3, <2>4
  <2>5. CASE p # Main
    BY <1>1, <1>4, <1>6, <1>9, <2>1, <2>2, <2>3, <2>5
  <2> QED
    BY <2>4, <2>5
<1> QED
  BY <1>7, <1>11, <1>12 DEF JobsWatched

(* The shell waits for all of its jobs before it ends. *)
LEMMA TerminalWatchJobs ==
  ASSUME Memories, Locals, JobsWatched, JobsTold(proc, cerr), Memories', TerminalWatch, [Next]_vars
  PROVE  JobsWatched' /\ JobsTold(proc', cerr')
<1> PICK ps : ps = mem[Main].subprocesses_
  OBVIOUS
<1>1. /\ Continued(proc, proc') /\ Len(proc) \in Nat /\ Len(proc') \in Nat /\ DOMAIN proc = 1 .. Len(proc)
      /\ Main \in 1 .. Len(proc) /\ proc[Main].parent = 0
  BY ContinuedNext, SeqFacts DEF Memories, Processes, Main
<1>2. /\ proc[Main].state = "shell"
      /\ \A c \in ps : proc[c].state \in {"ended", "reaped"}
      /\ proc' = [Reaped(ps) EXCEPT ![Main].state = "ended", ![Main].fds = NoFds]
      /\ cerr' = cerr \o Told(ps)
      /\ mem' = [mem EXCEPT ![Main].subprocesses_ = {}]
  BY DEF TerminalWatch, At
<1>3. ps \subseteq Jobs(proc) /\ \A c \in Jobs(proc) : proc[c].state = "reaped" <=> c \notin ps
  BY <1>1, <1>2 DEF JobsWatched
<1>4. \A c \in ps : proc[c].state = "ended"
  BY <1>2, <1>3
<1>5. \A c \in 1 .. Len(proc) : DOMAIN proc[c] = RecordFields
  BY DEF Locals, Local
<1>6. \A c \in Jobs(proc) : c # Main /\ c \in 1 .. Len(proc)
  BY <1>1 DEF Jobs, Main
<1>7. DOMAIN proc' = DOMAIN proc /\ Len(proc') = Len(proc)
  BY <1>2, SameLen DEF Reaped
<1>8. \A c \in Jobs(proc) : proc'[c].state = "reaped" <=> proc[c].state = "reaped" \/ c \in ps
  BY <1>1, <1>2, <1>5, <1>6 DEF Reaped, RecordFields
<1>9. JobsTold(proc', cerr')
  BY <1>1, <1>2, <1>3, <1>4, <1>8, ToldMore
<1>10. proc'[Main].state = "ended"
  BY <1>1, <1>2, <1>5 DEF Reaped, RecordFields
<1>11. \A c : c \in Jobs(proc') <=> c \in Jobs(proc)
  BY <1>1, <1>7, JobsLater DEF Jobs
<1>12. ASSUME NEW q \in 1 .. Len(proc'), proc'[q].state = "shell"
       PROVE  mem'[q].subprocesses_ \subseteq Jobs(proc')
  <2>1. q \in 1 .. Len(proc) /\ proc[q].state = "shell" /\ q # Main
    BY <1>1, <1>7, <1>10, <1>12 DEF Continued, Same
  <2>2. mem'[q] = mem[q]
    BY <1>2, <2>1, SeqFacts DEF Memories
  <2> QED
    BY <1>11, <2>1, <2>2 DEF JobsWatched
<1> QED
  BY <1>3, <1>8, <1>9, <1>10, <1>11, <1>12 DEF JobsWatched

(* The other steps leave the jobs to the shell, *)
LEMMA OtherJobs ==
  ASSUME Memories, Locals, Kinds, LinesRight, JobsWatched, JobsTold(proc, cerr), Memories', Kinds', [Next]_vars,
         ~TerminalWatch,
         \A c \in Jobs(proc) : proc'[c].state = "reaped" <=> proc[c].state = "reaped", cerr' = cerr, JobsKept,
         \A c \in Len(proc) + 1 .. Len(proc') : proc'[c].state # "shell"
  PROVE  JobsWatched' /\ JobsTold(proc', cerr')
<1>1. /\ Continued(proc, proc') /\ Len(proc) \in Nat /\ Len(proc') \in Nat
      /\ Main \in 1 .. Len(proc) /\ proc[Main].state \in {"shell", "ended"}
  BY ContinuedNext DEF Memories, Processes, Main
<1>3. JobsTold(proc', cerr')
  BY <1>1, ToldSame
<1>4. \A c : c \in Jobs(proc') <=> c \in Jobs(proc)
  <2>1. ASSUME NEW c \in Jobs(proc'), c \notin Jobs(proc)
        PROVE  FALSE
    <3>1. c \in Len(proc) + 1 .. Len(proc') /\ proc'[c].state \in {"shell", "forked"}
      BY <1>1, <2>1, JobsLater
    <3>2. proc'[c].state = "forked" /\ c \in 1 .. Len(proc') /\ proc'[c].at = 0
      BY <2>1, <3>1 DEF Jobs
    <3> QED
      BY <3>2 DEF Kinds
  <2> QED
    BY <1>1, <2>1, JobsLater DEF Jobs
<1>5. proc'[Main].state = "shell" <=> proc[Main].state = "shell"
  <2>1. ~ExitSubprocess(Main)
    BY <1>1 DEF ExitSubprocess, At, LinesRight
  <2>2. proc'[Main].state = proc[Main].state \/ proc[Main].state \in Gone
    BY <1>1, <2>1, ShellMoves
  <2> QED
    BY <1>1, <2>2 DEF Continued, Same, Gone
<1>6. ASSUME NEW q \in 1 .. Len(proc'), proc'[q].state = "shell"
      PROVE  mem'[q].subprocesses_ \subseteq Jobs(proc')
  <2>1. q \in 1 .. Len(proc) /\ proc[q].state = "shell"
    BY <1>1, <1>6 DEF Continued, Same
  <2> QED
    BY <1>4, <2>1 DEF JobsWatched, JobsKept
<1>7. ASSUME NEW c \in Jobs(proc')
      PROVE  proc'[c].state = "reaped" <=> ~(proc'[Main].state = "shell" /\ c \in mem'[Main].subprocesses_)
  BY <1>1, <1>4, <1>5 DEF JobsWatched, JobsKept
<1> QED
  BY <1>3, <1>6, <1>7 DEF JobsWatched

(* but for the line that becomes one. *)
LEMMA GetlineJobs ==
  ASSUME Memories, Locals, Kinds, LinesRight, JobsWatched, JobsTold(proc, cerr), Memories', Kinds', [Next]_vars, Getline
  PROVE  JobsWatched' /\ JobsTold(proc', cerr')
<1> DEFINE unread == IF mem[Main].unread > 0 THEN mem[Main].unread ELSE Len(script) - offset
           n == Len(script) - unread + 1
           m == [mem[Main] EXCEPT !.unread = unread - 1, !.line = script[n], !.idx = 1,
                             !.lineno = @ + 1, !.at = 0, !.prev_op = "", !.prev_exit_status_ = 0]
           m2 == [m EXCEPT !.subprocesses_ = @ \cup {NewPid}]
           child == [m EXCEPT !.pc = "call"]
           m3 == [m EXCEPT !.pc = IF script[n] = <<>> THEN @ ELSE "call"]
<1>1. /\ Main \in 1 .. Len(proc) /\ DOMAIN mem[Main] = MemoryFields /\ proc[Main].state = "shell"
  BY HereLocal DEF Getline
<1>2. /\ cerr' = cerr
      /\ Fork(Main, "shell", m2, child) \/ (mem' = [mem EXCEPT ![Main] = m3] /\ proc' = proc)
  BY DEF Getline
<1>3. m.subprocesses_ = mem[Main].subprocesses_ /\ m.at = 0 /\ DOMAIN m = MemoryFields
  BY <1>1 DEF MemoryFields
<1> HIDE DEF m
<1>4. /\ m2.subprocesses_ = mem[Main].subprocesses_ \cup {NewPid}
      /\ child.subprocesses_ = mem[Main].subprocesses_ /\ child.at = 0
      /\ m3.subprocesses_ = mem[Main].subprocesses_
  BY <1>3 DEF MemoryFields
<1> HIDE DEF m2, child, m3, n, unread
<1>5. /\ Continued(proc, proc') /\ Len(proc) \in Nat /\ Len(proc') \in Nat
  BY ContinuedNext DEF Memories, Processes
<1>6. ~TerminalWatch
  BY DEF Getline, TerminalWatch, At
<1>7. CASE mem' = [mem EXCEPT ![Main] = m3] /\ proc' = proc
  <2>1. JobsKept
    <3>1. mem'[Main] = m3 /\ \A q \in 1 .. Len(proc) : q # Main => mem'[q] = mem[q]
      BY <1>1, <1>7, MemReplaced DEF Memories
    <3> QED
      BY <1>4, <3>1 DEF JobsKept
  <2>2. \A c \in Len(proc) + 1 .. Len(proc') : proc'[c].state # "shell"
    BY <1>5, <1>7
  <2> QED
    BY <1>2, <1>5, <1>7, <1>6, <2>1, <2>2, OtherJobs
<1>8. CASE Fork(Main, "shell", m2, child)
  <2> PICK new : new = NewPid
    OBVIOUS
  <2>1. /\ new = Len(proc) + 1 /\ Len(proc') = new
        /\ proc'[new].parent = Main /\ proc'[new].state = "shell" /\ proc'[new].at = 0
        /\ \A c \in 1 .. Len(proc) : proc'[c] = proc[c]
        /\ mem'[Main] = m2 /\ mem'[new] = child /\ \A q \in 1 .. Len(proc) : q # Main => mem'[q] = mem[q]
    <3>1. proc'[NewPid].at = child.at
      BY <1>1, <1>8, ForkRecord
    <3> QED
      BY <1>1, <1>4, <1>8, <3>1, ForkRecord
  <2>2. \A c \in 1 .. Len(proc') : c \in 1 .. Len(proc) \/ c = new
    BY <1>5, <2>1
  <2>3. \A c : c \in Jobs(proc') <=> c \in Jobs(proc) \/ c = new
    <3>1. new \in 1 .. Len(proc')
      BY <1>5, <2>1
    <3>2. \A c \in 1 .. Len(proc) : c \in 1 .. Len(proc')
      BY <1>5, <2>1
    <3> QED
      BY <2>1, <2>2, <3>1, <3>2 DEF Jobs
  <2>4. \A c \in Jobs(proc) : proc'[c].state = "reaped" <=> proc[c].state = "reaped"
    BY <2>1 DEF Jobs
  <2>5. JobsTold(proc', cerr')
    BY <1>2, <1>5, <2>4, ToldSame
  <2>6. ASSUME NEW q \in 1 .. Len(proc'), proc'[q].state = "shell"
        PROVE  mem'[q].subprocesses_ \subseteq Jobs(proc')
    <3>1. CASE q = Main \/ q = new
      BY <1>1, <1>4, <2>1, <2>3, <3>1 DEF JobsWatched
    <3>2. CASE q \in 1 .. Len(proc) /\ q # Main
      BY <2>1, <2>3, <2>6, <3>2 DEF JobsWatched
    <3> QED
      BY <2>2, <3>1, <3>2
  <2>7. ASSUME NEW c \in Jobs(proc')
        PROVE  proc'[c].state = "reaped" <=> ~(proc'[Main].state = "shell" /\ c \in mem'[Main].subprocesses_)
    <3>1. CASE c = new
      BY <1>1, <1>4, <2>1, <3>1
    <3>2. CASE c \in Jobs(proc)
      <4>1. c \in 1 .. Len(proc) /\ c # new
        BY <1>5, <2>1, <3>2 DEF Jobs
      <4> QED
        BY <1>1, <1>4, <2>1, <3>2, <4>1 DEF JobsWatched
    <3> QED
      BY <2>3, <3>1, <3>2
  <2> QED
    BY <2>5, <2>6, <2>7 DEF JobsWatched
<1> QED
  BY <1>2, <1>7, <1>8

(* Every step keeps what is known of the jobs. *)
LEMMA JobsNext ==
  ASSUME Memories, Locals, Kinds, LinesRight, JobsWatched, JobsTold(proc, cerr), Memories', Kinds', [Next]_vars
  PROVE  JobsWatched' /\ JobsTold(proc', cerr')
<1>1. CASE Getline
  BY <1>1, GetlineJobs
<1>2. CASE TerminalWatch
  BY <1>2, TerminalWatchJobs
<1>3. CASE \E p : NextCall(p)
  BY <1>3, NextCallJobs
<1>4. CASE ~Getline /\ ~TerminalWatch /\ \A p : ~NextCall(p)
  <2>1. JobsKept
    <3>1. CASE UNCHANGED vars
      BY <3>1 DEF vars, JobsKept
    <3>2. CASE EndOfInput \/ handler \/ \E c : ProgramStep(c)
      BY <1>4, <3>2, UnreadOutside
    <3>3. CASE \E p : ShellStep(p)
      BY <1>4, <3>3, UnreadShell
    <3> QED
      BY <1>4, <3>1, <3>2, <3>3 DEF Next
  <2>2. cerr' = cerr
    <3>1. ASSUME NEW p, ShellStep(p)
          PROVE  cerr' = cerr
      BY <1>4, <3>1 DEF ShellStep, StartCall, MakePipe, SkipStage, ForkCommand, Insert, Waitpid, ExitSubprocess
    <3>2. ASSUME NEW c, ProgramStep(c)
          PROVE  cerr' = cerr
      BY <3>2 DEF ProgramStep, Exec, Read, Write, Exit
    <3> QED
      BY <1>4, <3>1, <3>2 DEF Next, EndOfInput, handler, vars
  <2>3. ASSUME NEW c \in Len(proc) + 1 .. Len(proc')
        PROVE  proc'[c].state # "shell"
    <3>1. Len(proc) \in Nat
      BY DEF Memories, Processes
    <3>2. Len(proc') # Len(proc)
      BY <2>3, <3>1
    <3>3. PICK p : ForkCommand(p)
      BY <1>4, <3>2, Grown
    <3>4. PICK parent, child : Fork(p, "forked", parent, child) /\ At(p, "fork")
      BY <3>3 DEF ForkCommand
    <3>5. NewPid = Len(proc) + 1 /\ Len(proc') = NewPid /\ proc'[NewPid].state = "forked"
      BY <3>4, Here, ForkRecord
    <3>6. c = NewPid
      BY <3>1, <3>5
    <3> QED
      BY <3>5, <3>6
  <2>4. \A c \in Jobs(proc) : proc'[c].state = "reaped" <=> proc[c].state = "reaped"
    BY <1>4, JobsNotReaped
  <2> QED
    BY <1>4, <2>1, <2>2, <2>3, <2>4, OtherJobs
<1> QED
  BY <1>1, <1>2, <1>3, <1>4

(* At first there are no jobs. *)
LEMMA JobsInit ==
  Init => JobsDone /\ JobsWatched /\ JobsTold(proc, cerr)
<1> SUFFICES ASSUME Init PROVE JobsDone /\ JobsWatched /\ JobsTold(proc, cerr)
  OBVIOUS
<1>1. Len(proc) = 1 /\ proc[1].state = "shell" /\ proc[1].parent = 0
  BY OneSeq DEF Init
<1>2. \A c : c \notin Jobs(proc)
  BY <1>1 DEF Jobs, Main
<1>3. mem[1].subprocesses_ = {}
  BY OneSeq DEF Init, NoMemory
<1>4. \A p \in 1 .. Len(proc) : mem[p].subprocesses_ = {}
  BY <1>1, <1>3
<1>5. IsSeq(cerr) /\ Len(cerr) = 0
  <2>1. cerr = <<>>
    BY DEF Init
  <2> QED
    BY <2>1, EmptySeq DEF IsSeq
<1>6. \A i : i \notin 1 .. Len(cerr)
  BY <1>5
<1> QED
  BY <1>2, <1>4, <1>5, <1>6 DEF JobsDone, JobsWatched, JobsTold

(* What is known of the jobs is what the shell should tell of them. *)
LEMMA JobsTell ==
  ASSUME Memories, Kinds, JobsDone, JobsWatched, JobsTold(proc, cerr)
  PROVE  JobsAreToldOnce
<1>1. DOMAIN proc = 1 .. Len(proc) /\ DOMAIN cerr = 1 .. Len(cerr)
  BY SeqFacts DEF Memories, Processes, JobsTold
<1>2. \A c : c \in {p \in Children(Main) : proc[p].at = 0} <=> c \in Jobs(proc)
  BY <1>1 DEF Children, Jobs
<1>3. ASSUME NEW i \in DOMAIN cerr
      PROVE  /\ cerr[i][1] \in Jobs(proc) /\ proc[cerr[i][1]].state = "reaped"
             /\ cerr[i][2] = WEXITSTATUS(proc[Decider(cerr[i][1], Len(mem[cerr[i][1]].line) + 1)].status)
             /\ \A j \in DOMAIN cerr \ {i} : cerr[j][1] # cerr[i][1]
  <2> PICK job : job = cerr[i][1]
    OBVIOUS
  <2>1. /\ job \in Jobs(proc) /\ proc[job].state = "reaped" /\ cerr[i][2] = WEXITSTATUS(proc[job].status)
        /\ \A j \in DOMAIN cerr \ {i} : cerr[j][1] # job
    BY <1>1, <1>3 DEF JobsTold
  <2>2. JobDone(mem[job], job, proc)
    BY <2>1 DEF JobsDone, Gone
  <2> PICK n, line, h : n = mem[job].lineno /\ line = mem[job].line /\ h = Len(line) + 1
    OBVIOUS
  <2>3. PICK d : Decides(line, n, job, proc, h, d) /\ proc[job].status = WEXITSTATUS(proc[d].status)
    BY <2>2 DEF JobDone
  <2>4. Distinct(n, job, proc) /\ \A c \in Ran(n, job, proc) : proc[c].at \in Nat
    BY <2>2 DEF JobDone, Kinds, Ran
  <2>5. Decider(job, h) = d
    BY <2>3, <2>4, DeciderIs
  <2>6. \A s : WEXITSTATUS(WEXITSTATUS(s)) = WEXITSTATUS(s)
    BY DEF WEXITSTATUS, Killed
  <2>7. cerr[i][2] = WEXITSTATUS(proc[Decider(job, h)].status)
    BY <2>1, <2>3, <2>5, <2>6
  <2> QED
    BY <2>1, <2>7
<1>4. ASSUME proc[Main].state = "ended", NEW p \in Jobs(proc)
      PROVE  \E i \in DOMAIN cerr : cerr[i][1] = p
  <2>1. proc[p].state = "reaped"
    BY <1>4 DEF JobsWatched
  <2> QED
    BY <1>1, <2>1 DEF JobsTold
<1> QED
  BY <1>2, <1>3, <1>4 DEF JobsAreToldOnce

(* A line that runs in the background is told of once, after it has ended, *)
(* with the status of the command that decided it, and at the end of the   *)
(* shell all have been told of, however many jobs run and end, and in      *)
(* whatever order: runshell.cpp:129-170, 293-302, 324-329.                 *)
THEOREM JobsToldOnce ==
  ASSUME OrdinaryScripts
  PROVE  Spec => []JobsAreToldOnce
<1> DEFINE JobsInv == JobsDone /\ JobsWatched /\ JobsTold(proc, cerr)
<1>1. Init => JobsInv
  BY JobsInit
<1>2. /\ ShellLocal /\ Kinds /\ LinesRight /\ ShellLocal' /\ Kinds' /\ JobsInv /\ [Next]_vars
      => JobsInv'
  BY JobsDoneNext, JobsNext DEF ShellLocal
<1>3. ShellLocal /\ Kinds /\ JobsInv => JobsAreToldOnce
  BY JobsTell DEF ShellLocal
<1> HIDE DEF JobsInv
<1> QED
  BY <1>1, <1>2, <1>3, LineInvariance, PTL DEF Spec
=============================================================================
