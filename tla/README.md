# Verification of technosphere-mt

The repository holds five small C++ programs: a memory allocator (`p1`), a chat server and its
client (`p2`), a TCP proxy (`p3`), an external-memory reverse index (`p4`) and a shell (`p5`).
They share no code. This directory holds a TLA+ model of each, the TLC runs that check them, and TLAPS
proofs about every one of them.

Check a module with `tlc -workers 2 -config Proxy.cfg MCProxy`, a proof with
`tlapm AllocatorProofs.tla`. Line numbers below are those of the modelled commit.

## 1. The system

| program | state | operations | what makes it hard |
|---|---|---|---|
| **p1 allocator** (`allocator.cpp`) | free list, table id -> block, the two halves of the buffer, next id | `alloc`, `free`, `realloc`, `defrag`; the client stores through `Pointer::get` and copies `Pointer`s | long histories of splits and merges; `realloc` frees before it allocates; stale copies of handles; `size_t` arithmetic |
| **p2 chat server** (`server.cpp`) | `clients_`, `message_buf_`, the epoll set, the current batch of events | one step per event: accept, message, hang-up | events are old when handled; lines arrive in pieces; clients stop reading, leave, reset; descriptors run out |
| **p2 chat client** (`client.cpp`) | what poll reported, the message under way, the stdio buffer | a poll loop over the socket and standard input | a connect that is not finished when the loop begins; `send` that takes a part or nothing; lines cut in pieces both ways; a server that goes away |
| **p3 proxy** (`proxy.cpp`) | `clients_` (socket -> two buffers), the operations pending in the `io_service` | accept, connect, read and write completion handlers, per direction | handlers of the two directions and of accept interleave; a buffer is appended to and cleared while the kernel still writes from it; handlers run after termination |
| **p4 reverse index** (`filereader`, `filesorter`, `reverse_index`) | four files, the sort buffer, run positions, the merge heap | read, sort runs, merge, write the index | equal pairs, empty last runs, sentinel values, offsets computed apart from the data |
| **p5 lexem parser** (`parser.cpp`) | the word being cut up, the lexems so far | one word after another, one operator after another | operators that begin with another operator and stand next to words |
| **p5 shell** (`runshell.cpp`) | `cur_childs`, background jobs, descriptors, the last exit status, read-ahead input | run commands, pipelines, `&&`, lists with two bars, `&`; forward SIGINT | a signal handler between any two steps, inherited descriptors and memory, skipped stages |

Inside a program the parts interact by calls (the allocator's `Pointer` calls back into its
`Allocator`, the shell takes the parser's lexems), by completion callbacks (proxy), by events the kernel
reports (chat), by files one stage writes and the next reads (reverse index), and by processes that
inherit memory, descriptors and a file offset (shell). Chat server and client talk over sockets, and are
composed in one model.

What makes each correct:

* allocator: every byte of the half in use is in exactly one block; contents survive moves; an
  allocation fails only when there is no room; a handle to a freed block stays dead.
* chat: only whole lines are relayed and shown, everybody hears the same, a finished line is not kept
  waiting, every client that left is dropped once, a typed line is sent whole and in order as long as the kernel
  takes it, and the end of the server is told after all it had sent is shown.
* proxy: what one peer sends the other gets, once and in order; the end of either side reaches the
  other; no connection or table entry is left over.
* reverse index: the index is the one `checker.cpp` computes.
* shell: lexems are the longest and cover the line; the exit status that `&&` and its dual look at is that
  of the last stage before; every child is waited for; a pipeline ends when its stages do; SIGINT reaches
  exactly the running commands of the line; every background job is told of once.

`PROJECT.json` lists every part under "components" and, under "hazards", each place where the code
can go wrong in a way a test would hardly reach, with the properties that watch it.

## 2. Modules

| module | models |
|---|---|
| `Heap` | abstract specification of the allocator: handles, blocks, contents; no addresses |
| `Allocator` | `p1/allocator.{h,cpp}` |
| `AllocatorProofs`, `HeapProofs` | invariants of `Allocator`; that it implements `Heap` |
| `ChatServer` | `p2/server.cpp` with its clients, the kernel's buffers and the descriptor table |
| `ChatClient` | `p2/client.cpp`, composed with `ChatServer`: the whole chat |
| `ChatProofs`, `ScreenProofs` | invariants of the server, and of the screens of its clients, in the whole chat |
| `Proxy` | `p3/proxy.{hpp,cpp}` with the Asio operations and the peers it runs against |
| `ProxyProofs` | its phases, the one task of each direction, and what is in which buffer, for any peers |
| `ReverseIndex` | `p4/filereader.cpp`, `filesorter.cpp`, `reverse_index.cpp`; the reference of `checker.cpp` |
| `ReverseIndexProofs` | what sorting, merging and the two loops of the index make of any input |
| `LexemParser` | `p5/parser.cpp` |
| `LexemParserProofs` | that lexems cover the line and are the longest, for every line |
| `Shell` | `p5/runshell.cpp` with the programs it runs and the kernel |
| `ShellProofs` | which children the shell has waited for, whom SIGINT ends, which lines are taken, what is left open, what `&&` and its dual decide, which jobs are told of |
| `MC*` | the instances TLC checks |

Definitions whose name ends in a suffix such as `_OneShort` are mutants: the definition of the same
name with one plausible mistake. Every checked property of a passing run is violated by one of them.

### Allocator

One thread, so each public call is one action: `alloc`, `free`, `realloc`, `defrag`. The client is
part of the model, because handles outlive calls: `write` stores a byte through a live handle,
`copy` copies a `Pointer`. `free_blocks_` is a sequence, `pointers_` a function from ids to blocks, a
`Pointer` its id. The list operations are operators with the source's names (`splitBlock`,
`findNearestFreeBlock`, `merge2Blocks`, `mergeBlocks`); `Released` is the list part of `free`
(`addFreeBlock`, then `mergeBlocks`). `AllocFrom` is `alloc` on a given list, so that `realloc` can be
what it is in the code: save to the scratch half, free, then allocate from what that left. Addresses
start at 1 and sizes are subtracted modulo `SizeMod`, as `size_t` is. `thrown` holds the
`AllocErrorType` of the last call.

* A `Pointer` belongs to the one allocator modelled. `InvalidFree` is never thrown: `free` returns
  early for a dead handle, so `erasePointer` always finds its id.
* When `mergeBlocks` is given the last block it reads the end node of a `std::list` as a block. The
  model takes libstdc++'s outcome, see the comment at `Join`.

### ChatServer

An event of the batch is handled in one step (`HandleHangUp`, `HandleAccept`, `HandleMessage`), and the
clients act between any two. A batch is the ready sockets in any order, with what epoll reported at
that time. `send` gives the kernel what fits in `Room`; what does not is lost, as in the code. Closing
with unread data, or being sent to after a close, resets the connection, which epoll shows as
`EPOLLERR`. `terminateConnection` shuts the socket down without closing it, so `fds` only grows.
A byte is the pair of its sender and its number; all that is known of it is whether it is a newline.

### ChatClient

Extends `ChatServer`: each client in `Programs` runs `client.cpp`, the others do as they like, and the
server may be killed (`up`). The program is cut where others can come between: `poll` stores what it reports in
`revents`; then the socket is handled (`Client_recvMessage`, `LoseConnection`), then the input (`Client_sendMessage`,
guarded by `revents[c] = {"STDIN"}`, that is, after the socket), as in the code; then each `send` is a step
(`SendPiece`). `connect` does not block, so the loop may run before `Established`.

* Input: `getline` looks into the buffer behind it (`cin`) and fills it when it is empty, with one line or with all
  there are, as a terminal or a pipe gives them. `poll` sees `stdin` only.
* Output: a line goes out in pieces of `max_buf_size_` (`buf_send`). The socket does not block, so `send` takes
  what there is room for (`Accepted`), which may be a part or nothing, and nothing at all before there is a
  connection or after the server is gone; the code does not look at its result and goes on with the next piece.
  `refused` counts the bytes that no `send` took, so what a short `send` leaves out is in the model, and the
  properties say what holds up to it.
* Screen: what was received is shown when its last byte is a newline (`ToShow`), and held back in
  `recv_message_` otherwise.
* The end: once the server is gone poll may report POLLIN, POLLERR, POLLHUP or several of them (`SocketEvents`), with
  POLLIN at least while there is something to read. `Loses` tests them in the code's order. What the kernel had taken
  for a client when the server was killed is supposed to have arrived.

### Proxy

`io` is the `io_service`: one FIFO queue of completions, the reads and writes that wait for the
kernel, and what the kernel took. Asio tries a read or a write as soon as it is started and posts its
completion when it succeeds (`StartRead`, `StartWrite`); otherwise a readiness event is queued
(`SocketReady`) and performed in its turn: the writes one after the other as long as the kernel takes them
(`PerformWrite`), then the read that waits (`PerformRead`). What completes is gathered in `done`; at the end the
first of it goes to its handler at once and the rest behind the queue, as in Asio's reactor. `async_write` goes on with what the kernel did not take (`WriteMore`). These are external:
they model how the code in `p3` uses Boost.Asio on epoll. The handlers are the code's: each handles the
completion at the head of the queue, in one step, as the single thread of `service_.run()` does. The code
has every handler twice, with the two sides exchanged; here a handler takes the side as a parameter.

The k-th byte a peer sends is the number k, so order, loss and duplication show in the values. A write
points into the connection's buffer. When the buffer grows or is replaced while a write is pending,
the bytes that write still has to send may be gone: `MaybeFreed` lets each such write keep them or
send 0. `overlapped` is a history variable: the directions in which a read was handled while a write
was pending, which is what the code does not exclude.

Because the code really does lose and garble bytes then, and leaves entries behind (section 5),
`RelaysInOrder`, `WholeReply` and the entry part of `NoEntryLeft` are stated for directions that never overlapped
(`NoEntryLeft` for clients neither of whose directions did). This is the contract under which the proxy is
correct; it says precisely what a repair has to establish. `WholeReply` counts what was handed to the kernel for
the client, which may never read it. `proxy_drops` and the first item after the list in section 5 show what
happens outside the contract.

### ReverseIndex

The stages of `makeReverseIndex` in order, one step for each time round a loop: `ReadWord` and
`NextDocument` (`FileReader::read`), `ReadPair` and `FlushRest` (`partlySort`), `InitializeHeap` and
`MergeStep` (`getMin` and the loop of `sort`), `WriteOffset` (the header of the index), then `WriteCount` and
`WriteDocument` (the lists). A file of pairs is a sequence of pairs and an offset counts pairs; the comment
at the head of the module says how the end of the file, which is one blank further, is kept apart.
`heap_` is a set whose elements are compared by word and document only, as `IdsStruct::operator<` does:
`HeapInsert` drops a cursor equal to one it holds. The index is its size and the field at each byte where one
begins, so offsets are checked against where the fields are; the count of documents is cut to 32 bits
(`UINT32_MOD`).

### LexemParser

`parse` reads a word of the line, cuts operators off it one after the other and keeps what is between;
each cut is a step. Where an operator was found and which, is `takeType_`. The model keeps positions, not
strings: a lexem is the interval it takes up in the line, so "nothing is lost or doubled" is a statement
about intervals (`LexemsCoverLine`). `LexemsAreLongest` says of every cut that no earlier or longer
operator was possible there, by a definition that knows nothing of the order in which `parse` looks.

### Shell

A process is known by its number; number 1 is the shell. `proc` is what the kernel knows of each (state,
parent, descriptors, exit status), `mem` the variables of class `Shell` and of the method it is in. `fork`
copies both, so the copy of the shell that works off a background line takes the same actions
(`ShellStep(p)`). One action per system call that others can observe: `MakePipe`, `ForkCommand`, `Insert`
(between fork and `cur_childs.insert` the handler does not know the child), `Waitpid` per stage, `NextCall`
(with `watchSubprocesses_`), `EndOfInput` (the loop of `run` is left for good), `TerminalWatch`. `handler` is enabled
between any two of them. `Waitpid` includes `cur_childs.erase`: a signal between the two goes to a child that is
reaped already and ends no process, so nothing is lost by making them one step. A command
before `Exec` still has the shell's handler and outlives SIGINT; a program does not.

Pipes count what is in them. An end of a pipe is open as long as some process has a descriptor of it, so a
reader waits for every copy of the write end, which is how a pipeline can hang. `Open` takes the lowest free
descriptor (`FreeFd`). What a program does is: read its input to the end if it is one of `Readers`, write
`Output[name]` units, exit with one of `Statuses`. Input lines come through stdin's buffer (`unread`): when
the input is a file (`Seekable`), `exit` of a copy that still has it as descriptor 0 sets the shared offset
back over the lines read ahead (`GivenBack`), which is glibc's and not the repository's doing, but bites at
`runshell.cpp:326`.

SIGINT goes to the shell process alone, as with `kill -INT $PPID` in `p5/tests/6.sh`; from a terminal it
would go to the whole group.

## 3. Runs

| run | checks | shows |
|---|---|---|
| `allocator` | `TypeOK`, `BlocksPartitionHalf`, `NoMemoryMeansNoRoom`, `ReallocUsesOwnRoom`, `DefragGathersFree`, `ImplementsHeap` | where blocks are and what is in them, in an even buffer; refinement of `Heap` |
| `allocator_odd` | `AllocInRange` (violated) | odd sizes, see section 5 |
| `chat` | `TypeOK`, `PrintsWholeLines`, `EverybodyHearsAll`, `TerminatedOnce`, `ClientTypeOK`, `LinesLeaveInOrder`, `ShownBeforeLoss`, `ScreensShowWholeLines`; `TypedLinesAreSent`, `PrintedIsShown`, `LinesArePrinted`, `LeaversAreDropped`, `LossIsTold` | the whole chat, with one client that runs the program, and one that sends, stops reading, leaves and resets, and a server that may be killed |
| `chat_leave`, `chat_descriptors` | `SentBeforeLeavingIsPrinted`, `AcceptedAreClients` (violated) | section 5 |
| `proxy` | `TypeOK`, `RelaysInOrder`, `OneTaskPerDirection`, `NoEntryLeft`, `WholeReply`; `EndIsPassedOn` | the relay, with peers that stop reading, close and reset at any time |
| `proxy_drops` | `DropsOnlyWhatWasSent` (violated) | section 5 |
| `index_right` | `TypeOK`, `MergeKeepsPairs`, `MergeIsSorted`, `IndexIsRight` | all inputs of up to three documents |
| `index_repeats` | `IndexIsRight` (violated) | section 5 |
| `lexem_parser` | `TypeOK`, `LexemsCoverLine`, `LexemsAreLongest` | all lines of up to six characters |
| `shell` | `TypeOK`, `ChildrenAreWaitedFor`, `NoPipeIsLeft`, `AndOrDecide`, `JobsAreToldOnce`; `SigintEndsTheLine`, `ShellEnds` | eight scripts with pipelines, operators, redirections and jobs, with SIGINT at any step |
| `shell_rereads` | `LinesRunOnce` (violated) | section 5 |

What follows a semicolon are action and temporal properties.

### Bounds

* Allocator: `Size` 8, so halves of four bytes, and `MaxId` 3, how many blocks are ever given out: enough for
  a hole on either side of a block, for two merges at once, and for a `realloc` that moves. Two handles
  suffice to make a stale copy; they are symmetric, as are the two byte values, so that a byte from a wrong
  place shows. That neither size nor number of blocks matters is proved. The odd run has `Size` 5.
* Chat: `max_buf_size_` is 2 (1024 in the code) and a line three bytes, so that it takes two `send`s and two
  `recv`s, a full piece and a shorter one. `chat` has two clients, so that pieces of lines can alternate and one can
  hear the other: `c1` runs the program, `c2` sends one byte of its own, which ends a line or does not. Two lines are
  typed (`MaxTyped`), which is what it takes for one to wait in the stdio buffer behind another and for a newline to be
  in the middle of what `recv` returns; after more than one (`MaxTogether`) no other client comes, which keeps the run
  small. `Room` is 4, the greeting and one line, or one line and a byte: what the server sends is cut when
  a client reads slowly, and `send` of the program takes all, a part or nothing of a piece. `MaxFds` 2 and
  `MaxAtOnce` 2 leave a descriptor for each. That buffer sizes, lengths and numbers of lines and of clients do not
  matter to the invariants is proved.
* Proxy: one connection. Connections share only the `io_service` queue and `acceptClient_`; a handler
  touches the state of its own connection and the order of two connections' completions is any order
  anyway. `temp_size` is 2 (10 in the code), so that a read takes one or two of the bytes sent;
  `Capacity` is 1, so that a write of two bytes is cut. `MaxSent` bounds what a peer sends: 2 each, and 3 by
  the client alone in `proxy_drops`.
* Reverse index: runs of two pairs (12 and more in the code, `p4/filesorter.cpp:218-220`), so that nine pairs give
  five runs and the number of pairs may or may not be a multiple of the run length. `UINT64_MAX` is 9 and not among the words,
  `UINT32_MOD` is 3, so that a word in all three documents does not fit its count.
* Lexem parser: six characters hold three operators of two characters, or words and blanks between two.
* Shell: a pipe holds one unit (`PipeSize`); `src` writes two, so that it must wait or be killed; `cat` reads to
  the end and writes one; `true` does neither. Exit statuses are 0 and 71 (as in `p5/tests/5.sh`). SIGINT comes
  once (`MaxSigints`). `MaxLines` bounds lines that come again (4 in `shell_rereads`), `MaxProcs` is how
  many processes the longest script makes, for the fairness formula.

Except for the allocator's, the runs set `CHECK_DEADLOCK FALSE`: peers and clients send and close a bounded
number of times and then nothing is left to do; the index program, the parser and the shell end.

### Fairness

* `Proxy!FairSpec`: weak fairness of the handlers (`service_.run()` runs every completion it has), of
  `SocketReady` and `ConnectReady` (the kernel reports every ready socket and every connect ends), and
  of the peers' reading. The last is not the proxy's: a peer that never reads holds back the last
  write, and the proxy has no timeout, so `EndIsPassedOn` is stated for peers that read on. Sending and
  closing are not fair.
* `ChatClient!FairChat`: weak fairness of the server's loop (`WF(Server)`), of each program's loop as a whole
  (`WF(Program(c))`) and of its connect (`WF(Established(c))`). The loop has one thread and takes the socket before the input
  in every round, so neither starves the other and no fairness of its parts is needed.
  Nothing is assumed of clients that do not run the program, nor of the user. Properties speak of a server
  that is not killed where that matters; `LossIsTold` is about one that is.
* `Shell!FairSpec`: weak fairness of every process: the kernel lets each run. SIGINT is not fair, and
  `ShellEnds` excepts runs in which it came, since a command of a killed pipeline may be left waiting.

## 4. Proofs

All theorems hold for every value of the constants. They assume the named assumptions only:
`ConstantsAssumption` of each module (types), `ClientAssumption`, `InputsAssumption`, and `EvenSize` where
it says so. The numbers in TLC's configurations play no part in them.

| module | theorem | property |
|---|---|---|
| `AllocatorProofs` | `Invariance`, `TypeCorrect`, `BlocksInBuffer`, `PartitionHolds`, `NoMemoryIsReal`, `DefragGathers` | `IInv`, `TypeOK`, `AllocInRange`, `BlocksPartitionHalf`, `NoMemoryMeansNoRoom`, `DefragGathersFree` |
| `HeapProofs` | `AllocatorIsHeap`, `ReallocGetsItsRoom` | `ImplementsHeap`, `ReallocUsesOwnRoom` |
| `LexemParserProofs` | `Invariance`, `TypeCorrect`, `CoverHolds`, `LongestInvariance`, `LongestHolds` | `TypeOK`, `LexemsCoverLine`, `LexemsAreLongest` |
| `ChatProofs` | `ServerInvariance`, `ServerTypeCorrect`, `WholeLines`, `AllHear`, `OneTermination` | `TypeOK`, `PrintsWholeLines`, `EverybodyHearsAll`, `TerminatedOnce` |
| `ScreenProofs` | `ChatInvariance`, `ClientTypeCorrect`, `LinesLeave`, `ShownHolds`, `ScreensHold` | `ClientTypeOK`, `LinesLeaveInOrder`, `ShownBeforeLoss`, `ScreensShowWholeLines` |
| `ProxyProofs` | `Invariance`, `TypeCorrect`, `InOrderHolds`, `OneTaskHolds`, `NoEntryHolds`, `WholeReplyHolds` | `TypeOK`, `RelaysInOrder`, `OneTaskPerDirection`, `NoEntryLeft`, `WholeReply` |
| `ReverseIndexProofs` | `Invariance`, `TypesAreOK`, `MergingIsSorted`, `MergingKeepsPairs`, `FinishedIndexIsRight` | `TypeOK`, `MergeIsSorted`; `MergeKeepsPairs` and `IndexIsRight` for the inputs that `NoPairTwice` and `Indexable` describe |
| `ShellProofs` | `ShellInvariance`, `LocalInvariance`, `ShellTypes`, `ChildrenAreReaped`, `SigintReaches`, `PipesAreClosed`, `AndOrDecides`, `JobsToldOnce`, `LinesRunOnceFromAPipe` | `TypeOK`, `ChildrenAreWaitedFor`, `SigintEndsTheLine`; `NoPipeIsLeft` for `PipedScripts`; `AndOrDecide` and `JobsAreToldOnce` for `OrdinaryScripts` (`LinesRunOnce` of `shell_rereads` for other inputs) |

None of the properties is inductive; each module strengthens them.

**Allocator.** `EvenSize` cannot be dropped: the run `allocator_odd` is a counterexample without it.
`BlocksPartitionHalf` says nothing of the order of the free list,
on which `findNearestFreeBlock` and `mergeBlocks` rely, and `NoMemoryMeansNoRoom` needs that no two
entries touch. So `IInv` says:

* `HalvesSound`: the halves are equal, and base1_ and base2_ are the two of them;
* `MemorySound`, of the table and the list over the half in use: the list is in order and its
  entries do not touch (`FreeSound`), live blocks lie in the half, apart from each other and from the
  list (`TableSound`), and list and table together cover the half (`Covered`);
* `ClientSound`: types of the rest, and that every id in use was given out.

The argument goes bottom up. `JoinSound` allows the list two pairs that touch and shows that joining
removes one, so the two joins of `mergeBlocks` restore order after an insertion (`ReleasedSound`).
`SplitSound` does the same for `alloc`. `FreeKeepsSound` and `AllocKeepsSound` add the table; `realloc` is
their composition. `defrag` needs counting: the live bytes, told apart by id and offset, map
injectively into the half (`BytesFit`), so they fit the other one, and consecutive placement leaves
no gap (`DefragKeepsSound`, by a bijection between those bytes and an interval).

**Allocator implements Heap.** The refinement mapping forgets addresses: the contents of a block are the
bytes at its place. Each action maps to the abstract one of the same name; `SameContents` and its kin say that
a block whose bytes are where it is now keeps its contents, and `IInv` that no other block's are written.
`realloc` copies by way of the scratch half, so that freeing first is harmless.

**Lexem parser.** `IInv` adds to the types that the word under way holds no blank (`WordHoldsNoSpace`) and
that what was cut off and what is pending cover what was read (`Covers`). For `LexemsAreLongest`, `LInv`
adds that each lexem so far was the right one at its place (`Longest`); the argument goes through which
operators begin with which.

**Chat server.** `ServerInv` is about the server with any clients, those of `ChatClient` included. Besides
types (`ServerTypes`, `KernelTypes`) it says that a batch names no socket twice and none that is gone
(`EventsAreLive`), which is what makes `terminateConnection` happen once; that all a client was given is what
was printed since it came (`HearsAll`); and, for whole lines (`Whole`), that a message buffer is the tail of
what was received of its client and what was printed of it lies before.

**Screens.** `ChatInv` adds to `ServerInv`, and to that bytes of lines are what was typed (`LineTypes`):

* `Given`: the kernel was given the greeting and whole lines for each client;
* `Screens`: a program shows or holds back all it received, and what it shows ends with a newline;
* `Counted`: every byte of every line typed waits in `stdin`, in `cin` or in `buf_send`, was sent, or was refused,
  whatever part each `send` took;
* `InOrder`: `buf_send` is an end of a line, and as long as nothing was refused, what was sent is whole lines up to
  where `buf_send` goes on. `LinesLeaveInOrder` follows, and is not inductive without it;
* `Polled`: `revents` is what poll may have reported, with POLLIN while the server is gone and something is unread; so
  `Loses` holds only when all has been read, and `ShownBeforeLoss` follows with `Screens` and `Given`.

**Shell.** `Memories` relates what each copy of the shell remembers to what the kernel knows. `Known`: at each
point of a line, `cur_childs` is the stages that were inserted and not waited for, the stages are distinct
children of that process, and those before `i` are reaped. `Accounted`, for the shell itself: a child is
reaped exactly when it is in neither `subprocesses_` nor `cur_childs`, nor is the one between fork and insert.
It is needed for every process, since each waits for its own children only, and a copy inherits the numbers of
its brothers. `SigintReaches` follows: those of `pipe_pids` that run are those of `cur_childs` that run.
`LinesRunOnceFromAPipe` assumes `~Seekable`; then lines are taken in order (`InputRead`), whatever copies
inherit. With a file it is false, which `shell_rereads` shows.

`Local` says what goes together within one process: the descriptors its variables name are open (`FdsFit`); if the line
is `Ordinary`, it is at the beginning or the end of a command (`Follows`); if the scripts are `PipedScripts`, every end of
a pipe it holds is in `fd` or `prev_readfd_` (`EndsKept`). The last two are implications in the invariant, and the theorems that use
them have a hypothesis about the constant `Scripts`, which those of `MCShell` satisfy:

* `OrdinaryScripts`: a name comes first and after every operator, redirections come after the arguments, at most one of
  each direction, and `&` is last. Of other lines the code skips lexems or takes operators for names, and no document
  says what should happen.
* `PipedScripts`: besides, no stage that a pipe leads to has an input redirection. For `a | b < f` the property is false
  (section 5).

For `AndOrDecides`, `LineRight` says how far a line has been decided of and how far it has been run (`DecidedTo`,
`Reached`): each command that `&&` or its dual asks about was run if and only if the last stage before it that ran and
ended its pipeline (`Decides`) ended as wanted (`Right`); and `prev_exit_status_` is the status of that stage whenever it
is going to be asked for (`Led`). A record of the kernel's outlives the process, and no step changes what it says of one
that has ended (`Continued`), so that what was decided stays decided as other processes go on (`LineLater`).

`JobsToldOnce` carries that on to the copies of the shell: the status of a job that has ended is that of the stage which
decides the end of its line (`JobDone`). `JobsWatched` says that the shell has in `subprocesses_` the jobs it has not
waited for, and that its copies have no number there that is not a job, so that none of them finds a child of its
own among those it inherited; `JobsTold` that `cerr` has each job that was waited for once.

**Proxy.** `IInv` is one invariant per client (`ConnInv`), of the state of the reactor, the peers and the buffers;
the lemmas about two directions that share nothing but the sockets (`OthersSame`, `SameDir`) let each handler be
proved for the direction it is about. Its parts:

* `PhaseInv`, `StartInv`: a client waits, is accepted, is being connected, runs or is closed, and before it
  runs there is one completion of it at most and there are no bytes;
* `OneTask`: a running direction has exactly one of a read that waits, a read that completed, and a last write
  (the property, and what excludes a second read into a temp buffer);
* `EndsInv`: what completions say of the peers is true of them: an error of a reset, "eof" only when all that was
  sent has been read;
* `FlowInv`, for a direction that never overlapped: there is one write at most, and what it has still to send
  begins where what was delivered ends and ends where what was handled ends (`Continues`). `RelaysInOrder` is
  not inductive without it: that the next byte is the right one depends on what the buffer and the pending
  completions hold;
* `ClosedInv`: of a closed connection that never overlapped some pending completion still erases the entry that a handler
  before it makes again, and a server's answer was delivered whole if it was ended by "eof".

A completion is where `Completed` has it, in the queue or just performed; `AppendKeeps`, `ConcatKeeps`,
`Reordered` and their kin say what posting, closing and the order of Asio's reactor do to "at most one of these is
pending" (`AtMostOne`). TLC checked `IInv` on the bounds of the run `proxy` before it was proved.

**Reverse index.** `IInv` has four parts. `Types`; `Sorting`: `partly` is a rearrangement of the pairs flushed so
far and the buffer the pairs after them; `Runs`: the runs follow each other, leave out no pair, and each is in order;
`Merging`: a cursor stands in its run, the only one of it, on the pair it has read, and what is written is in order
and before every cursor. That `sort` sorts is not assumed: `AllSortable` shows by the least counterexample that
every finite sequence of pairs has a rearrangement in order, so the `CHOOSE` has something to choose.

`MergeKeepsPairs` is about counts, and files are compared by numberings: `Numbering(h, n, S)` says that `h` gives
each element of `S` one of the numbers 1 to `n`. `Reading` says that the pairs are those at the places of the input that
have been read, and that `word_dict_` counts them; `Kept` that what is sorted numbers what the cursors have passed
(`Passed`). `Kept` is inductive only under `NoPairTwice`, since the heap drops a cursor that equals another; without it
the property is false, which `index_repeats` shows of the index.

`FinishedIndexIsRight` composes the numberings: at the end of the merge the sorted file numbers all places of the input
(`Merged`), unless the word that marks the end is among them, hence `NoLastWord`. `Writing` says what each loop has written:
the words come in order, so those done are the lower ones (`Listed`, `Lower`); the pairs of the lower words are the first
part of the sorted file (`FirstWords`), so that the sum of list sizes, which the first loop adds up from `word_dict_`, is where
the second loop is in the file when it comes to the word (`ListAt`). Last, a document's place in its list is how many of
the word's places are before it (`PlaceInLists`), for which documents have to ascend, as they do in what `test4.py` writes
and as `checker.cpp` takes for granted. TLC checked these invariants on the inputs of `index_right`, with runs of one to
three pairs, before they were proved.

Every invariant and action property of the passing runs is proved, with the hypotheses the table names. Only
model-checked is liveness, which TLAPS does not reach: `EndIsPassedOn`, `TypedLinesAreSent`, `PrintedIsShown`,
`LinesArePrinted`, `LeaversAreDropped`, `LossIsTold` and `ShellEnds`.

## 5. What the code does otherwise

Six runs end in a violation, each of a statement the repository itself makes:

1. `allocator_odd`: in a buffer of odd size the second `defrag` may not fit the smaller half, and
   the difference of sizes wraps; a block then lies outside the buffer, against
   `p1/allocator_test.cpp:19-20`.
2. `proxy_drops`: the end of a write clears bytes that came after it began (`p3/proxy.cpp:244, 259`);
   the comments there say "SENT TO SERVER" and "SENT TO CLIENT".
3. `chat_leave`: a client that sends a line and closes before it reads the greeting resets the
   connection, and the line is dropped (`p2/server.cpp:92`), against `p2/test.py:114-121`.
4. `chat_descriptors`: terminated sockets keep their descriptors; when none is left the server prints
   "accepted connection" without end (`p2/server.cpp:97`), a line `p2/test.py:102-103` counts clients by.
5. `index_repeats`: a document with a word twice loses pairs in the merge (`p4/filesorter.cpp:130`);
   `p4/checker.cpp:37` keeps them.
6. `shell_rereads`: with a file as input, the exit of a background copy sets the offset they share back, and
   lines are run again (`p5/runshell.cpp:326`); `p5/tests/5.out:1` has "pre" once for the one `echo pre` of
   `tests/5.sh`.

Other things the models show when their inputs are widened, of which no document says otherwise, and which
the passing runs therefore leave out:

* An entry of `clients_` is left for good. A handler that got an error, or the one of a last write, terminates the
  connection and erases the entry (`p3/proxy.cpp:274-278`) while the completion of another write, which ended
  well, is in the queue; that one's handler writes to `clients_[client_sock]` (`:244, 259`) and so makes the entry
  again, with the socket and two buffers. When it is the last handler of the client nothing erases it. It takes a
  read that is handled during a write (otherwise a handler that erases the entry comes later): `NoEntryLeft` fails
  when that condition is dropped, and is proved with it.
* The word 2^64-1, which `getMin` uses as the mark for the end of the merge (`p4/filesorter.cpp:195`): with it
  `IndexIsRight` fails.
* A pipeline whose next stage ends without reading (`src | true`): the stage before inherits the read end of
  its own pipe (`p5/runshell.cpp:223`), so it is not killed by SIGPIPE but waits for ever, and `ShellEnds` fails.
* A pipeline into a command with its own input (`a | b < f`): the constructor of `Call` replaces the read end
  (`p5/runshell.cpp:65`), which nothing closes then; `NoPipeIsLeft` fails, and `ShellEnds` when `a` writes
  more than the pipe holds.
* Lines that a pipe gives at once stay in the stdio buffer, where poll does not see them, until more is typed
  (`p2/client.cpp:93`). `TypedLinesAreSent` has this as one of its outcomes, and fails without it.
* A newline in the middle of what `recv` returned does not get its line printed before the rest of the next line has
  come (`p2/server.cpp:61`); `LinesArePrinted` is about a newline that is the last byte sent.
* What `send` in the client does not take is lost, and the next piece or line is glued to what was sent
  (`p2/client.cpp:56`); `LinesLeaveInOrder` fails without `refused[c] = 0`.

## 6. Not modelled

* The proxy's configuration file and its choice of a server by `rand()`: text and chance, with no state that a
  handler changes. `printReadable` of the index, which nothing calls, and the characters of its
  intermediate files. `allocator.h`'s `dump` and texts of errors.
* Truncated input of the reverse index: `FileReader::read` looks at whether it could read a document's number only
  (`p4/filereader.cpp:26`), not its count or its words (`:28, 31`), and would take the last values again. The inputs of
  the model are whole files.
* In the chat client, the end of standard input: `getline` fails and empty lines are sent without end.
* In the shell: files that cannot be opened; lines that end in an operator, and `&` in the middle of one
  (`Call` of the model does what the code does with it, but no script has one); programs that read the
  shell's own input; what may happen if `handler` walks the set while `insert` changes it, as the standard
  gives it no meaning; SIGINT to the whole process group.
* Test drivers and build files. The vendored googletest (`thirdparty/gtest`, about 29,600 of the repository's
  31,700 lines) is no part of the programs.

## 7. Plan

Done, in this order: `Allocator` with `Heap` and the proofs of both; `Proxy`; `ChatServer`, then `ChatClient`
and the proofs of the chat; `ReverseIndex`; `LexemParser` and its proofs; `Shell` and its first proofs; the proofs of
`Proxy` and of `ReverseIndex`; the rest of the proofs of `Shell`.

Left: `Relay`, an abstract pair of byte channels that `Proxy` refines as long as nothing overlaps.
