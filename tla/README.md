# A verification of OperatingSystems2024

The repository holds the homework of an operating-systems course: a thread
library, a memory allocator, a FAT-16 file system, two shells with job control,
a defragmenter and smaller programs. The TLA+ modules of this directory model
the parts with state worth reasoning about. TLC checks them on small instances
and TLAPS proves their safety for every value of their constants. Paths below
are relative to the root of the repository.

| Module | Models | Checked by TLC | Proved by TLAPS |
| --- | --- | --- | --- |
| `UserThread`, `ThreadLife` | `src/userthread.c`; what it promises | safety, refinement, liveness, two divergences | `UserThreadProofs`: all its safety, the refinement |
| `Mem`, `Heap` | `hw5/src/mem.c`; what it promises | safety, refinement | `MemProofs`: all its safety, the refinement |
| `Fat16`, `MCFat16` | `hw7/src/vfs.c`, the image of `hw7/src/format_lib.c`; call by call | safety | `Fat16Proofs`: all its safety |
| `DiskShell`, `MCDiskShell`, `Files` | the shell of `hw7/src` on the driver, system call by system call; what its commands promise | safety, refinement, liveness, one divergence | `DiskShellProofs`: all its safety, the refinement; `SharedOffsetProofs`: with children in the background |
| `Jobs`, `Commands` | job control in `hw3/src`; what it promises | safety, refinement, liveness, three divergences | `JobsProofs`: all its safety, the refinement |
| `Defrag`, `MCDefrag` | `hw6/defrag.c` | safety, two divergences | `DefragProofs`: all its safety, the first divergence, progress |

Each model is run by the `.cfg` files that carry its name, for instance
`tlc -config Jobs_safety.cfg Jobs` and `tlapm JobsProofs.tla`. `Fat16` is run
through `MCFat16` and `DiskShell` through `MCDiskShell`, which give the map from
names to 8.3 names a value, and `Defrag` through `MCDefrag`, which builds the
disks.

## 1. Inventory

### Thread library (homework 4, `src/userthread.c`)

State: `threads[]`, `num_threads`, `current_thread`, the policy, the interval
timer, one mutex, `main_context`, the log file. Operations: `thread_libinit`,
`thread_create`, `thread_yield`, `thread_join`, `thread_libterminate`,
`wrapper()`, and `scheduler()`, the handler of SIGALRM. All threads share one
kernel thread: they call the library under the mutex and lose the CPU in the
handler, between any two of their instructions. Hard: the timer inside a
critical section; `current_thread` when main runs; contexts that are saved or
not; a joiner that sleeps in `pthread_cond_wait` on the only kernel thread.
Correct when the mutex is held only inside critical sections, `current_thread`
names the thread that runs, a finished thread stays finished, no stack is used
after it was freed, no runnable thread is starved and main regains control.

### Memory allocator (homework 5, `hw5/src/mem.c`)

State: `mem_start`, the free list, `m_error`, the block headers in the region.
Operations: `Mem_Init`, `Mem_Alloc`, `Mem_Free`, `Mem_Dump` (prints). Hard:
headers inside the memory they describe, the arithmetic of splits and merges,
frees with and without coalescing in one region, a second `Mem_Init`, `int`
overflow in the rounding. Correct when every byte belongs to one block, the
list is sorted, and a client never gets memory that is not its own.

### FAT-16 driver and formatter (homework 7, `hw7/src/vfs.c`, `format*.c`)

State: boot sector, FAT, root directory and clusters on disk, and in the vnode
the first cluster and the position of the entry of the open file. Operations:
open, read, write, close, remove, opendir, readdir, closedir, mkdir, rmdir,
stat. Calls are sequential; hard is that each one relies on what earlier ones
left on disk and in the vnode, that a file exists only after its first write,
and full directories and disks. Correct when the directory has no gap, no
cluster has two owners and a read returns what was written.

### Shell on the driver (homework 7, `hw7/src/shell.c`, `commands.c`, `parser.c`)

State: the shell's vnode, a copy of it in every child, and the one descriptor of
the image, whose file offset all of them share. Operations: `ls`, `cat`,
`write`, `read`, which run in the shell, and commands with `>` or `<`, whose
child works on the disk before it runs its program; the shell waits for it
unless the command ends in `&`. Hard: each call of the driver is a chain of
`lseek`, `read` and `write` that relies on the offset in between; a child is cut
off by Control-C or stopped by Control-Z anywhere in it, and so is everything
when the machine stops, with no repair at the next start; `ls` and `cat` loop
until something on the disk or in the vnode tells them to stop. Correct when
every transfer takes place where it was meant to, the disk is in order between
any two system calls, a command writes a whole file or none, `ls` is complete
and the prompt returns. The job list, `fg`, `bg`, `kill` and pipelines are the
code of homework 3.

### Shell with job control (homework 3, `hw3/src/`)

State: the job list, the terminal's foreground group, the children, pending
signals, where the main loop is. Operations: running a command in the
foreground or with `&`, pipelines, `fg`, `bg`, `kill`, `jobs`, and the handlers
of SIGCHLD and SIGTSTP. The handlers change the list that main walks, and reap
the children main waits for. Correct when the terminal comes back, no zombie
stays, the list agrees with the processes and the prompt returns.

### Defragmenter (homework 6, `hw6/defrag.c`)

State: the old disk, the new one, the next block number, the inode being moved
and the list of the nested block being moved. Operations: read an inode, move
its direct blocks, its index blocks, the two nested blocks, write the inode,
write the superblock. A sequential program; hard is that every level takes its
numbers from one counter, in an order that decides which block lies where and
what is written over. Correct when the files of the new disk read as those of
the old one and lie in one piece.

### The rest

- Homework 2 (matrices, a simple shell), homework 1 (interrupt counter, `cat`,
  directory listing), `0.c` to `23.c` and the tests: loops and library calls,
  or clients of the libraries above, read for what they expect of them.

The hazards of all this, each at its line and with the properties that cover
it, are in `PROJECT.json`.

## 2. The models

### UserThread and ThreadLife

A *flow* is a stack: main's, or the wrapper's of one thread. `cpu` says which
flow runs, where it is, and the tid it joins. A call is a step that takes the
mutex (`CreateBegin`, `JoinBegin`, ...) and a step for what it does under it, so
`Tick`, the expiry of the timer, can fall in between: the handler then locks a
locked mutex and the process hangs (`fault = "hung"`). Other ends of the
process are faults too: a double `free` of a stack, a log that is not open, the
resumption of frames of main that have been reused. `Scheduler` is the handler
as one operator: wake loop, search under the policy (`Chosen`), then
`Dispatch` or `ReturnToMain`. Contexts are records of the stack they belong to
and the place they resume at, which is enough to tell a continuation from a
fresh start.

Abstracted from: the text of the log, `ticks` (nothing increments it) and the
code of the threads, which may call anything in any order. Only main
initialises and terminates the library.

`ThreadLife` says what the calls mean, without mutex, contexts, policies or
`current_thread`: a thread is unused, alive or finished, may have been made to
wait for another, and main or a living thread has the CPU. `KeepsThreadLife`
says that `UserThread` implements it, through `Lives`, `Waits` and `Joins`. It
promises no more than the code does: a switch may take a flow out of a join
that has not ended (main's second return from `thread_libinit`, a thread that
starts over), and a thread that did not call `thread_join` may be made to wait,
for `thread_join` marks `current_thread`.

### Mem and Heap

A block is its region, the offset of its header and its size. The free list is
a sequence in the order of its links. `live` is a history variable, what the
client holds, and `coalescing` says whether all frees of the region so far
coalesced. `Mem_Init`, `Mem_Alloc` and `Mem_Free` are each one action with a
disjunct for every return, the refused arguments and the failing `mmap`
included. The client frees what it holds, once. `Heap` states what
`mem.h` promises, without a free list: pieces that are aligned, long enough,
inside a region and disjoint. `KeepsPromise` says that `Mem` implements it.

### Fat16

The disk is what format leaves: an empty root directory of `RootEntries`
entries and free clusters `2 .. LastCluster`. An entry is its name as
`find_file` composes it and its first cluster; `Shown` maps a name to what is
seen of it after the cut to 8.3. As nothing but 0xFFF8 ever links a cluster,
every chain is one cluster long. `fat_ptr` and `dir_entry_offset` are the two
fields of the vnode that later calls use; `written` is a history variable.
Every call is an action, with the effects that surprise: `truncate_file` and
`fat16_mkdir` let `find_free_root_entry` read a free entry over the one they
have prepared, `fat16_remove` writes its entry over the boot sector, a write
in a full directory lands behind the directory.

### DiskShell and Files

`DiskShell` has the same disk, but makes one system call a step. The image is a
line of places: the boot sector, the FAT, the entries, the place behind them,
the clusters; `offset` is the next one to be transferred. `proc` gives each
process its place (`at`) and its variables. A stage of a process is one
transfer; `Aim` says where the code means it to take place, `Seek` is the
`lseek` before it, and `Transfer`, a part of every action that reads or writes,
demands that the offset is there. When it is not, because another process has
moved it, the step is `GoesAstray`: it stands for a transfer at a wrong place and
for taking a place that is no entry's for that of one. There the model ends
(`Astray`), for what follows depends on the bytes that happen to lie there. In
the foreground it is never taken (`OnCourse`, `NothingGoesAstray`). The loops over the directory read on without a seek,
`fat16_readdir` from where `fat16_opendir` left the offset, and `SeekBack`,
`Tell` and `KeepOffset` are the places where the code computes from the offset.

The shell runs one command at a time. `execute_command` gives a child the
vnode of the shell and makes the shell wait (`foreground`), or not, if it is in
the background. `KidEnds` ends a child wherever it is, for Control-C, Control-Z
and the end of its program; a stopped child is in no list, in the code as in the
model, so it does not go on. `Crash` stops everything and starts the shell on
the disk as it is. `>` is given 0 for the size and writes no data, but the file
comes into being.

`Files` states what the commands promise, without directory, FAT or processes:
what is on the disk under a name appears at one instant with all of its data,
and only if a command under way asked for it; what `cat` and `read` show is what
the file holds, once. A file that exists never changes: the code writes the data
of a second `write` into a second entry, which no read reaches. The README of
homework 7 counts truncation as not done. Nothing is promised any more once a
full directory has been written past its end (`spoilt`). `FilesAreWhole` says
that `DiskShell` implements `Files`, with `File` (what a read of each name
would return), `Asked` and `LastShown` as the mapping.

### Jobs and Commands

Each child has a state, and `report` holds the stopped children that no wait
has reported yet. The handlers are one step each. Main stops between every two
of its calls (`main.at`), so a handler can fall anywhere: between the fork and
`add_job`, between the search of a job and each of its uses, before, during and
after each wait. A pipeline is forked command by command and may have any
number of them, from two on. A child that is forked in the foreground takes the terminal
itself, at a time of its own. When main uses a job that the handler has freed,
`fault` ends the behaviour.

Abstracted from: job numbers (any listed job can be named), command lines,
redirections, terminal modes. A walk over the list is one step. A command is
one process that does not ignore SIGTSTP, pids are not reused, and the shell
does not exit.

`Commands` is job control as the user sees it, without signals, handlers or
waits: the shell runs one command in front, lends it the terminal, and turns from
it only when it has stopped or ended; Control-Z stops what has the terminal and
nothing else; a job is forgotten only when it has ended, and only a job goes on
again. Whether a command stopped in front becomes a job is left open here: it
does not (`StoppedCommandsComeBack`). `KeepsControl` says that `Jobs` implements it. In the mapping a child has
ended when it has exited, reaped or not, and a background command counts as a job
from its fork on, though `add_job` comes later. The pipeline's commands are
stopped when the shell has the terminal, for they are in its group.

### Defrag

A disk is its inodes, its blocks and the head of its free list; a block is the
data it holds or the list it holds. `Images`, the disks to be defragmented, is
a constant, and `WellFormed` says what the program needs of them: pointers lead
to blocks, index blocks list something, and block 0 is not used. Each loop that
only copies is one step; `at` and `done` are the place in
`move_blocks_contiguous`. What the code does is kept even where it surprises:
`handle_indirect_blocks` writes the list over the first block it has copied,
and the `i3block` is treated like the `i2block`, so its lowest index blocks are
copied as data and go on naming blocks of the old disk.

Abstracted from: the 0 that ends a list. A list has a length here, so the
properties are about a reader who counts blocks, as the size in the inode lets
it. A reader who stops at 0 loses more: 0 is the first number given out. The
code writes no list of the free blocks behind `free_block`, although
`hw6/README.MD` promises "a new list of free blocks": `free_block` is the number
of a block that the copy does not have, and so it is here.

## 3. The runs

| Run | Instance | Shows |
| --- | --- | --- |
| `UserThread_safety` | 2 threads, 3 priorities, one of them INT_MIN, all policies | eleven properties below |
| `UserThread_continuation` | 2 threads, 1 priority | violated: a waiting thread starts over, one that yields never runs again |
| `Mem_safety` | 2 regions, up to 3 blocks | six properties below |
| `Fat16_safety` | 3 entries, 4 clusters, 4 names | four properties below |
| `DiskShell_safety` | 2 entries, 3 clusters, 2 names, 1 child in the foreground | six properties below |
| `DiskShell_background` | 2 entries, 2 clusters, 2 names, 1 child with `&` | violated: data that goes elsewhere |
| `DiskShell_shared` | 2 entries, 2 clusters, 1 name, 1 child with `&` | entries lead to taken clusters until a transfer goes astray |
| `Jobs_safety` | 3 children | seven properties below |
| `Jobs_pipeline`, `Jobs_stop` | 3 children | violated: a pipeline not waited for; a stop not noticed, of a command in no list |
| `Defrag_safety` | 2 inodes, lists of up to 2 | five properties below |
| `Defrag_indirect` | 1 file with an i3block | violated: the first block below an index block, and what the lowest index blocks name, are lost |

**UserThread.** `LockDiscipline`: the mutex is held exactly inside critical
sections. `CurrentIsOnCpu`: `current_thread` and its tcb are about the thread
that runs. `RunsOnLiveStack`, `SavedContexts`: what can be dispatched has a
stack, and resumes outside critical sections. `WaitTargetsExist`: the wake loop
reads inside the table, and a blocked join is recorded with its tid.
`FinishedIsFinal`, `MainRunsLast`: no step revives a finished thread, and main
runs only when no thread can, those just woken included. `KeepsThreadLife`:
only the running thread finishes; a waiting thread is let go at the first
switch after the other has finished and at none before; a join that returns has
seen its target finished. `MainRegainsControl`: with the timer armed main gets
back to its own code. `RunnableIsDispatched`: a thread that is INITIALIZED and
that the search can choose is dispatched; this excludes those that were
preempted (`YieldersGoOn`, below) and, with PRIORITY, those of priority INT_MIN,
which the search for the maximum overlooks. With main, two threads make a chain
of joins, or a join beside a preempted thread, a creation or a refused call;
what holds for more threads is what the proofs are for, except for the two
liveness properties.

**Mem.** `FreeListSorted`, `BlocksTile` (every byte in exactly one block),
`FreeListCoalesced`, `RegionRecovers` (all freed: the region is as new) and
`KeepsPromise`. A region of 100 bytes holds three small blocks, so that a freed
block can have free neighbours on either side, both or none; the other region
is there for the second `Mem_Init`. Requests round to 8 and 16, are 0, or
overflow `int`.

**Fat16.** `ClustersAreOwned`, `OffsetIsOfOpenFile` (the position taken at open
is still right at write) and `ReadsBackWrites`, for clients that create 8.3 names
and do not truncate or remove: it fails also if an entry is written behind an
unused one, where `find_file` stops (`DirectoryIsCompact`, part of the
invariant of the proofs). With three entries and four clusters the directory and
the disk each fill up first in some behaviour. The names are a plain one, two
that 8.3 shows alike and one without a dot.

**DiskShell.** `OnCourse`: every process that has sought is where it means to
be. `DiskIsInOrder`: between any two system calls, hence after a crash, entries
in use come first, each with a taken cluster of its own, and a cluster that is
not taken is as format left it. A taken cluster may belong to nobody: that is
what an interrupted `write` costs. `LsIsComplete`: what `ls` printed is the
directory. `FilesAreWhole`, above. `PromptReturns`: every command comes to an
end. Two entries and three clusters let either of them be full first, two
entries of one name exist, and a rewrite go past the end of the directory; one
child is enough, for the shell waits for it. A name without a dot is one that
is written again and again without being found. `EntriesLead`, with a child in
the background: a process may take another's entry for the free one it has
found, and yet what is in use leads to a taken cluster, until a transfer goes
astray. The shell and one child are enough for each to move the other's offset.

**Jobs.** `TerminalIsReturned`: outside a foreground wait the terminal is the
shell's. `NoReportIsLost`: SIGCHLD does not queue, and yet a child that ended
or stopped unnoticed always leaves one pending. `StoppedMarkIsTrue`: no running
job is shown as Stopped, but while `fg` or `bg` is between its signal and its
mark. `NoJobIsForgotten`: a living background command is listed.
`PromptReturns`: main comes back to its prompt when the commands end.
`KeepsControl`, above: the handlers and main compete for the same children, and
yet no wait ends too early, no stop hits another command. Three
children allow a pipeline beside a job, and a foreground command beside two.

**Defrag.** `EveryNumberIsWritten`: the copy has no holes and the superblock
says where it ends; the number of the first block below an index block is
written twice, which `FilesReadAsBefore` is about. `ListedBlocksSurvive`:
whatever is moved later, a moved file keeps the data that its inode and, down to
the `i2block` and but for the first entry of each, its index blocks name. `FilesAreSequential`: down to the `i2block` its blocks
follow one another. `FilesAreApart`: two moved files share no block number,
whatever they shared on the old disk, and no nested block comes or goes, so that
number 0, which a reader takes for the end of a list, does harm to the file
moved first alone. Two files let one be overwritten while the other moves; a
list of two has a first entry and another, also at the lowest level of an
`i3block`. Disks with free inodes, which keep
old pointers, and an empty disk are among the images.

`CHECK_DEADLOCK FALSE` is said where the program stops: after a fault, after
the calls that leave the disk unusable, when the shell waits for a child that
stays stopped, and at the end of the defragmenter.

### Fairness

- `UserThread`: `WF(Tick)` only. `setitimer` is called with an interval of
  100 ms, so an armed timer keeps expiring; a flow may stay in its own code
  for ever.
- `Jobs`: a pending SIGCHLD is delivered, main goes on when it can (both what
  the kernel does with a process that is not blocked), and `ChildExits(p)` for
  every child: commands end if they are not stopped. The last is an assumption
  on the commands, not on the shell; a command that never ends keeps the
  prompt away, and should. The user owes nothing.
- `DiskShell`: `WF(Step(p))` for every process while nothing has gone astray,
  for it is not blocked while it works on the disk, and a child that has come to
  its program ends. The latter is an assumption on the program. Interrupts and
  crashes may come and need not.
- `Mem`, `Fat16` and `Defrag` are sequential and need none.

### Divergences

Each is a run whose property quotes what the repository says, and fails.

- `ThreadsGoOn`: `scheduler()` leaves a thread for another with `setcontext`,
  saves nothing of it and does not change its state. A thread that loses the CPU
  in a join runs its start routine again (`WaitersKeepTheirContinuation`);
  `test_nested_fifo.c` expects it to go on. One that loses it elsewhere stays
  RUNNING, and the search is for INITIALIZED threads, so under SJF it never runs
  again (`YieldersGoOn`); `test_sjf_yield.c` expects each of four threads to run
  five times. The property asks for one of the two at least, so that the run
  shows both.
- `DataGoesToItsCluster`: a command with `&` and a redirection works on the disk
  while the shell is at its prompt. Between the `lseek` and the `write` of
  `fat16_write` in the one, an `lseek` of the other moves the offset they share;
  the comment is "Write the actual file content to the disk at the calculated
  cluster offset".
- `PipelineIsWaitedFor`: `execute_pipe` waits as often as it forked, for
  whichever child, so a background job that ends is counted for a command of
  the pipeline that still runs; the comment is "Wait for all child processes".
- `StoppedCommandsComeBack`: the stop of the foreground command raises SIGCHLD,
  and the handler collects that very stop; `waitpid` in main then goes on
  waiting, with the terminal given away; the comment is "Wait for child to finish
  or stop". No other child is needed. And as only background commands are
  listed, the command is no job: test 4 of `hw3/Readme.md` stops one with
  Control-Z and goes on with `jobs`, `bg 1`, `fg 1`. Even when main does notice
  the stop, the command is in no list. The property asks for one of the two at
  least, so that the run shows both.
- `FilesReadAsBefore`: the copied index block is written over the first block
  it lists, and the index blocks of the lowest level of an `i3block` keep the
  numbers of the old disk; `hw6/README.MD` says that blocks of every level,
  triply indirect ones included, are handled. The instance is a file with an
  `i3block`, so that the run shows both.

The timer hits a held mutex in any program that calls the library with the timer
armed: `fault = "hung"` is where the model ends, and not a run of its own.

Bugs that the READMEs admit are modelled as they are and not listed again:
`fat16_remove` "clears everything", multi-cluster files, truncation (the second
entry of a name), and in homework 4 the misuse tests and priority queues that do
not "schedule enough times" (the same cause as `YieldersGoOn`, which is about
SJF, where nobody admits it).
`fat16_mkdir` takes a cluster and writes an entry that nobody finds.
`hw5/README.md` announces worst fit; `Mem_Alloc` takes the first block that
fits, and `FirstFit` models that.

## 4. The proofs

Every proof module ends in theorems `Spec => []P`, for every value of the
constants that its assumptions allow, from an inductive invariant `IInv` and,
where a theorem needs more, a second one that rests on it. TLC checked them
first (but for that of `MemProofs`, which speaks of all integers). Each action
has a lemma that it preserves the invariant.

- **UserThreadProofs** (`MaxThreadsAssumption`: at least one slot;
  `PrioritiesAssumption`: none below INT_MIN). `IInv` is the conjunction of the
  checked invariants and `Places`, which says where main and the threads can
  be. They depend on each other: that `current_thread` names the running thread
  needs that dispatched contexts belong to their threads, which needs that the
  mutex is free when one is saved. `FinishedForGood` and `MainComesLast` are
  about steps and follow from `IInv` for the step at hand, and so does
  `ImplementsThreadLife`, with a lemma for each step that `ThreadLife` sees.
- **MemProofs** (`SizesAssumption`, `BoundsAssumption`: integers). The invariants on the
  list alone are not inductive: merging two blocks is safe because nothing lies
  between them. `Tiles` says so in bytes: the region's bytes are those of the free and
  the held blocks, and no byte is in both. `InsertFacts`, `MergeFacts` and
  `CutFacts` state once what inserting, merging and cutting do to a sorted list
  and to the bytes it covers. `ImplementsHeap` proves the refinement: initial
  state to initial state, and every step to a step of `Heap` or a stutter.
- **Fat16Proofs** (`RootAssumption`, `ClusterAssumption`: at least one entry
  and cluster; `NamesAssumption`: what is shown of a name is shown as itself).
  `ReadsBackWrites` needs that files are in different clusters, that an open
  file's position is its own and, while the client is `plain`, that names are
  unique (`PlainFiles`).
- **DiskShellProofs** (`RootAssumption`, `ClusterAssumption`; `KidsAssumption`:
  the shell is none of its children; `BackgroundAssumption`; `NamesAssumption`:
  what is shown of a name is shown as itself, and neither names nor data look
  like unused entries). The theorems are of the form `~Background => (Spec =>
  ...)`, for any number of children, entries, clusters, names and data. `Turns`
  says that only the process in the foreground is anywhere but at rest: its
  place and variables can then be described alone (`InPlace(Me)`). `Places`: the
  entry it is about to write is the first free one, or the copy of the last one
  behind a full directory; `Owns`: the cluster it writes is taken, in no entry,
  and blank until the data is in; `Finds` and `Prints`: what it is about to
  print. `QuietStep` lets an action that leaves the disk alone be proved in one
  step. For the refinement, only the write of the entry changes what is read
  under a name (`Create`), and only `ReadData` of the shell what is shown.
  `NothingGoesAstray` (from `OffsetIsRight`): the offset is right wherever the
  code relies on it, so that where the theorems speak the model leaves no step of
  the code out.
- **SharedOffsetProofs** speaks of the same module with children in the
  background, where `IInv` fails. What each process knows of itself survives
  them (`AtWork`), and so does what the disk never loses: a taken cluster is not
  given back, so that an entry in use leads to one (`AllLead`). From the two,
  `AInv`, follow the types (`SharedTypes`) and `EntriesKeepClusters`, which is
  `EntriesLead`. Both speak of the time before a transfer goes astray, and must:
  a FAT entry written at a wrong place may leave any entry without its cluster.
  `CommandsGoOn` is about commands without background children: with each step a
  process is at a later stage of its command (`Rank`), or further in the loop it
  is in (`Count`), or has made its `lseek`, and never goes astray. `TypeOK`
  bounds the counts, so this is the part of `PromptReturns` that needs no
  fairness.
- **JobsProofs** (`ShellAssumption`: the shell is none of its children).
  `Bookkeeping` adds what main knows of the children at each of its places: a
  child that has yet to take the terminal is the one main is waiting for, which
  is why `TerminalIsReturned` survives the child's `tcsetpgrp`; a listed job is
  past its fork; after SIGKILL the job is gone. `MoveInvariant` serves all
  steps of main that move no process. The refinement (`ShellKeepsControl`) needs
  one thing more, `Departures`: when main is about to take the terminal back, its
  command has stopped or been reaped, and a child not yet born is of no kind. Each action has a lemma that it is a step of `Commands` or a
  stutter. `FreedJobsHaveEnded` is about the hazard that remains: main does go on
  with a job that the handler has freed, but only if its process has ended since
  main found it (`Found`), never because of a stop.
- **DefragProofs** (`InodesAssumption`, `ImagesAssumption`: the disks are
  well-formed). The copy only grows (`NoHoles`, `Extends`), so what has been
  kept stays kept (`FileStays`); `Moving` says how much of the file that is
  being moved has been kept at each place. `CopyFacts` and `HandleFacts` state
  once what copying a list does to the new disk. For `FilesAreSequential` a
  second invariant, `PInv`, adds where things lie (`Placed`, `AllLaid`): what
  has been moved of a file is a run of numbers up to `current_block`, an index
  block has the number of the first block it lists, and each row of blocks
  begins where the one before it ended (`Rows`). From it follows that the
  divergence is no accident of the instance: `FirstBlocksAreLost` says that on
  every disk each index block down to the `i2block`'s names itself first. For
  `FilesAreApart` a third, `BInv`: each moved file lies between two numbers
  (`FileIn`), and what is being moved lies between where its file began and
  `current_block` (`Part`), so that of two files one ends before the other
  begins. `EveryStepGoesOn` bounds the loops: inode, stage and entry only grow,
  and the length of the list being moved stays.

Only model-checked: the liveness properties `MainRegainsControl`,
`RunnableIsDispatched` and `PromptReturns` (of `Jobs` and of `DiskShell`), which
need fairness and `ENABLED`, and the divergences, which are counterexamples.
`CommandsGoOn` and `EveryStepGoesOn` prove the part of termination that is
about steps: there are only so many of them.

## 5. Not modelled

- Threads that call `thread_libterminate`; `uc_link` after the wrapper; clients
  that free twice or free what they do not hold: undefined afterwards.
- I/O errors, `Mem_Dump`, `fat16_stat`, sizes and times of files, images made
  by other tools, reads after the boot sector was overwritten, `fat16_rmdir`
  (never succeeds, for no entry has the attribute it looks for), data of more
  than a cluster.
- What a transfer that has gone astray does to the disk, and what happens
  afterwards: `GoesAstray` says when it comes to that. Commands with
  more than one redirection do not exist, for the code takes the first.
- In the shells: parsing, redirection, Control-C, the exit of the shell,
  commands that ignore signals, reuse of pids, a walk over
  the list interrupted in the middle. The pipeline's
  commands stay in the shell's process group, although `hw3/Readme.md` says
  that each command has its own.
- In the defragmenter: failing reads and writes, disks that use block 0 or hold
  an index block without entries, the fields of inodes that are only copied.

## 6. Plan

The order was by importance: `UserThread`, `Mem` with `Heap`, `Fat16`, `Jobs`
with `Commands`, `Defrag`, `DiskShell` with `Files` and `ThreadLife` are done.
What could come next:

1. What `CommandsGoOn` is for `DiskShell`, for main of `Jobs` and for the switch
   of `UserThread`: a measure that each of their steps lowers.
2. `Jobs` with a walk over the list that the handler interrupts.
3. `hw1a.c`'s loop around `pause` and `hw2`'s shell, if they fit beside the
   others.
