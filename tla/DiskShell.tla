----------------------------- MODULE DiskShell ------------------------------
(***************************************************************************)
(* The shell of src/hw7/src on the FAT-16 driver, one system call a step.  *)
(*                                                                         *)
(* ls, cat, write and read run in the shell itself.  A command with a      *)
(* redirection is forked, and the child works on the disk before it runs   *)
(* its program.  The child has a vnode of its own, but the descriptor of   *)
(* the image is shared, and with it the file offset.  Every process may be *)
(* cut off between two system calls: a child by Control-C or Control-Z,    *)
(* all of them when the machine stops.  A transfer may go astray, because  *)
(* another process has moved the offset: nothing is said of what follows.  *)
(*                                                                         *)
(* The driver is that of module Fat16, on an image that format made; what  *)
(* the shell does not call, and sizes and times, are left out.             *)
(***************************************************************************)
EXTENDS Integers, Sequences

CONSTANTS Names,        \* the names that commands use
          Shown,        \* the name that find_file sees in an entry made for
                        \* a name: another one if the name has no dot
          Data,         \* what is written
          RootEntries,  \* bs.root_entries
          LastCluster,  \* the last cluster that allocate_cluster looks at
          Shell,
          Kids,         \* its children
          Background    \* whether commands are given with &

ASSUME RootAssumption == RootEntries \in Nat \ {0}
ASSUME ClusterAssumption == LastCluster \in Nat /\ LastCluster >= 2
ASSUME KidsAssumption == Shell \notin Kids
ASSUME BackgroundAssumption == Background \in BOOLEAN

Slots == 1 .. RootEntries
AfterRoot == RootEntries + 1   \* in the first bytes of cluster 2
Clusters == 2 .. LastCluster
Procs == {Shell} \cup Kids

Unused == "unused"
Blank == "zero"                \* of a cluster: as format left it
ShownNames == {Shown[n] : n \in Names}

ASSUME NamesAssumption ==
    /\ Shown = [n \in Names |-> Shown[n]]
    /\ Unused \notin Names /\ ShownNames \cap {Unused, Blank} = {}
    /\ \A n \in Names : Shown[n] \in Names => Shown[Shown[n]] = Shown[n]
    /\ Data \cap {Blank, "entry", "absent"} = {}

VARIABLES
    fat, root, content, spilled,  \* the disk, as in Fat16
    spoilt,      \* an entry has been written after the root directory
    offset,      \* of the descriptor of the image
    proc,        \* of each process: where it is, and its variables
    foreground,  \* the child that the shell waits for, or Shell
    printed      \* what the shell's command has printed

disk == <<fat, root, content, spilled, spoilt>>
vars == <<disk, offset, proc, foreground, printed>>

-----------------------------------------------------------------------------
(* The image: boot sector, FAT, root directory, clusters.                  *)

Free == 0
Eof == 65528             \* 0xFFF8
EndOfChain == 65535      \* 0xFFFF, in fat_ptr

Entry(name, cluster) == [name |-> name, cluster |-> cluster]
Entries == [name : ShownNames \cup {Unused}, cluster : Clusters \cup {0}]

Boot == 0
FatAt(c) == c
RootAt(i) == LastCluster + 1 + i
ClusterAt(c) == RootAt(RootEntries) + c - 1

(* The commands.  The one that > writes to is given 0 for the size.        *)
Job(what, name, data) == [what |-> what, name |-> name, data |-> data]
NoJob == Job("none", "none", Blank)

ShellJobs ==
    {Job("write", n, d) : n \in Names, d \in Data}
        \cup {Job(what, n, Blank) : what \in {"cat", "read"}, n \in Names}
        \cup {Job("ls", "none", Blank)}
KidJobs == {Job(what, n, Blank) : what \in {">", "<"}, n \in Names}

Writes(q) == q.job.what \in {"write", ">"}

Idle == [at |-> "idle",       \* at the prompt, or no such child
         sought |-> FALSE,    \* the lseek before the next transfer is made
         job |-> NoJob,
         i |-> 0,             \* of the loops over the directory
         cluster |-> 0,       \* the cluster that a call is about
         entry |-> Entry(Unused, 0),
         fat_ptr |-> 0,
         dir_entry_offset |-> 1]

Init ==
    /\ fat = [c \in Clusters |-> Free]
    /\ root = [i \in Slots |-> Entry(Unused, 0)]
    /\ content = [c \in Clusters |-> Blank]
    /\ spilled = Entry(Unused, 0)
    /\ spoilt = FALSE
    /\ offset = Boot
    /\ proc = [p \in Procs |-> Idle]
    /\ foreground = Shell
    /\ printed = <<>>

-----------------------------------------------------------------------------
(* System calls.                                                           *)

(* Most functions of the driver first read the boot sector.                *)
BootStages == {"find", "cut", "free", "alloc", "mark", "place", "seal", "next", "dir"}

AfterBoot(at) ==
    CASE at = "find" -> "findEntry"
      [] at = "cut" -> "cutFat"
      [] at = "free" -> "freeEntry"
      [] at = "alloc" -> "allocFat"
      [] at = "mark" -> "markFat"
      [] at = "place" -> "data"
      [] at = "seal" -> "sealFat"
      [] at = "next" -> "nextFat"
      [] at = "dir" -> "list"

(* What follows a write to the FAT: set_next_cluster in truncate_file, the *)
(* write of allocate_cluster, and set_next_cluster in fat16_write, twice.  *)
FatWrites == {"cutFat", "takeFat", "markFat", "sealFat"}

(* Variant: the entry is written before the data.                          *)
EntryFirst(at) ==
    CASE at = "cutFat" -> "free"
      [] at = "takeFat" -> "mark"
      [] at = "markFat" -> "entry"
      [] at = "sealFat" -> "entry"

AfterFat(at) ==
    CASE at = "cutFat" -> "free"
      [] at = "takeFat" -> "mark"
      [] at = "markFat" -> "place"
      [] at = "sealFat" -> "entry"

FatStages == FatWrites \cup {"allocFat", "nextFat"}
DirStages == {"findEntry", "freeEntry", "list"}
EntryStages == {"putBack", "begin", "entry"}
Transfers == BootStages \cup FatStages \cup DirStages \cup EntryStages \cup {"data"}

(* Where the next transfer of a process is meant to take place.            *)
Aim(q) ==
    CASE q.at \in BootStages -> Boot
      [] q.at \in FatStages -> FatAt(q.cluster)
      [] q.at \in DirStages -> RootAt(q.i)
      [] q.at \in EntryStages -> RootAt(q.dir_entry_offset)
      [] OTHER -> ClusterAt(q.cluster)

(* Variant: fat16_opendir leaves the offset behind the boot sector.        *)
SeekNoDir(p) ==
    /\ proc[p].at \in Transfers /\ ~proc[p].sought
    /\ offset' = IF proc[p].at = "list" THEN offset ELSE Aim(proc[p])
    /\ proc' = [proc EXCEPT ![p].sought = TRUE]
    /\ UNCHANGED <<disk, foreground, printed>>

Seek(p) ==
    /\ proc[p].at \in Transfers /\ ~proc[p].sought
    /\ offset' = Aim(proc[p])
    /\ proc' = [proc EXCEPT ![p].sought = TRUE]
    /\ UNCHANGED <<disk, foreground, printed>>

(* A process makes the transfer of its stage; see also GoesAstray.         *)
Transfer(p, stages) ==
    /\ proc[p].at \in stages /\ proc[p].sought /\ offset = Aim(proc[p])
    /\ offset' = offset + 1
    /\ UNCHANGED foreground

Continue(p, q) == proc' = [proc EXCEPT ![p] = q]

Go(p, at) == [proc[p] EXCEPT !.at = at, !.sought = FALSE]

(* The call has ended: the shell is at its prompt, a child runs its        *)
(* program or exits.                                                       *)
Ended(p) ==
    [Idle EXCEPT !.at = IF p = Shell THEN "idle" ELSE "exec",
                 !.job = proc[p].job,
                 !.fat_ptr = proc[p].fat_ptr,
                 !.dir_entry_offset = proc[p].dir_entry_offset]

(* Variant: fat16_opendir seeks to the second entry.                       *)
OpendirSecond(p) ==
    /\ Transfer(p, BootStages)
    /\ LET at == proc[p].at
           q == Go(p, AfterBoot(at))
       IN  Continue(p, CASE at = "dir" -> [q EXCEPT !.i = 2]
                         [] at \in {"find", "free"} -> [q EXCEPT !.i = 1]
                         [] at = "alloc" -> [q EXCEPT !.cluster = 2]
                         [] OTHER -> q)
    /\ UNCHANGED <<disk, printed>>

ReadBoot(p) ==
    /\ Transfer(p, BootStages)
    /\ LET at == proc[p].at
           q == Go(p, AfterBoot(at))
       IN  Continue(p, CASE at \in {"find", "free", "dir"} -> [q EXCEPT !.i = 1]
                         [] at = "alloc" -> [q EXCEPT !.cluster = 2]
                         [] OTHER -> q)
    /\ UNCHANGED <<disk, printed>>

-----------------------------------------------------------------------------
(* fat16_open.                                                             *)

ReadNext(p) == [proc[p] EXCEPT !.i = @ + 1]

find_file(p) ==
    /\ Transfer(p, {"findEntry"})
    /\ LET q == proc[p]
           e == root[q.i]
       IN
       \/ /\ e.name = q.job.name
          /\ Continue(p, [Go(p, IF Writes(proc[p]) THEN "cut" ELSE "keep")
                             EXCEPT !.fat_ptr = e.cluster, !.cluster = e.cluster])
       \/ /\ e.name \notin {q.job.name, Unused} /\ q.i # RootEntries
          /\ Continue(p, ReadNext(p))
       \/ /\ e.name # q.job.name /\ (e.name = Unused \/ q.i = RootEntries)
          /\ Continue(p, IF Writes(proc[p]) THEN Go(p, "free") ELSE Ended(p))
    /\ UNCHANGED <<disk, printed>>

(* truncate_file, unlike the creation of a file, has a cluster.  It goes   *)
(* on after a search that has failed: its lseek to -1 fails, too.          *)
find_free_root_entry(p) ==
    /\ Transfer(p, {"freeEntry"})
    /\ LET q == proc[p]
           e == root[q.i]
           read == [q EXCEPT !.entry = e]
       IN
       \/ /\ e.name = Unused
          /\ Continue(p, [read EXCEPT !.at = "back", !.sought = FALSE])
       \/ /\ e.name # Unused /\ q.i # RootEntries
          /\ Continue(p, ReadNext(p))
       \/ /\ e.name # Unused /\ q.i = RootEntries
          /\ Continue(p, IF q.cluster = 0 THEN Ended(p)
                         ELSE [read EXCEPT !.at = "putBack",
                                           !.dir_entry_offset = AfterRoot])
    /\ UNCHANGED <<disk, printed>>

(* The slot of the entry before the offset.                                *)
SlotBefore == offset - RootAt(1)

(* One entry back, to the free one, and its offset is taken.               *)
SeekBack(p) ==
    /\ proc[p].at = "back" /\ SlotBefore \in Slots
    /\ offset' = offset - 1
    /\ Continue(p, Go(p, "tell"))
    /\ UNCHANGED <<disk, foreground, printed>>

Tell(p) ==
    /\ proc[p].at = "tell" /\ SlotBefore + 1 \in Slots
    /\ Continue(p, [Go(p, "putBack") EXCEPT !.dir_entry_offset = SlotBefore + 1])
    /\ UNCHANGED <<disk, offset, foreground, printed>>

WriteEntry(i, e) ==
    IF i = AfterRoot
    THEN /\ spilled' = e
         /\ content' = [content EXCEPT ![2] = "entry"]
         /\ spoilt' = TRUE
         /\ UNCHANGED root
    ELSE /\ root' = [root EXCEPT ![i] = e]
         /\ UNCHANGED <<content, spilled, spoilt>>

(* Variant: the entry that is written back has its name already.           *)
PutBackNamed(p) ==
    /\ Transfer(p, {"putBack"})
    /\ Continue(p, IF proc[p].cluster # 0 THEN Go(p, "keep")
                   ELSE [Go(p, "begin") EXCEPT !.fat_ptr = 0])
    /\ WriteEntry(proc[p].dir_entry_offset, Entry(Shown[proc[p].job.name], 0))
    /\ UNCHANGED <<fat, printed>>

(* The entry that the search has read is written back as it was.           *)
PutBack(p) ==
    /\ Transfer(p, {"putBack"})
    /\ Continue(p, IF proc[p].cluster # 0 THEN Go(p, "keep")
                   ELSE [Go(p, "begin") EXCEPT !.fat_ptr = 0])
    /\ WriteEntry(proc[p].dir_entry_offset, proc[p].entry)
    /\ UNCHANGED <<fat, printed>>

(* The entry before the offset is taken for the file's.                    *)
KeepOffset(p) ==
    /\ proc[p].at = "keep" /\ SlotBefore \in Slots \cup {AfterRoot}
    /\ Continue(p, [Go(p, IF Writes(proc[p]) THEN "begin" ELSE "place")
                       EXCEPT !.dir_entry_offset = SlotBefore])
    /\ UNCHANGED <<disk, offset, foreground, printed>>

-----------------------------------------------------------------------------
(* fat16_write.                                                            *)

EntryAt(i) == IF i = AfterRoot THEN spilled ELSE root[i]

BeginWrite(p) ==
    /\ Transfer(p, {"begin"})
    /\ LET e == EntryAt(proc[p].dir_entry_offset)
       IN  Continue(p, IF e.cluster = 0 THEN Go(p, "alloc")
                       ELSE [Go(p, "place") EXCEPT !.cluster = e.cluster])
    /\ UNCHANGED <<disk, printed>>

(* Variant: one cluster too many is looked at.                             *)
AllocateBeyond(p) ==
    /\ Transfer(p, {"allocFat"})
    /\ LET c == proc[p].cluster
       IN  Continue(p, IF fat[c] = Free THEN Go(p, "takeFat")
                       ELSE IF c = LastCluster + 1 THEN Ended(p)
                       ELSE [Go(p, "allocFat") EXCEPT !.cluster = c + 1])
    /\ UNCHANGED <<disk, printed>>

(* Variant: the loop over the FAT stays where it is.                       *)
AllocateStays(p) ==
    /\ Transfer(p, {"allocFat"})
    /\ LET c == proc[p].cluster
       IN  Continue(p, Go(p, IF fat[c] = Free THEN "takeFat" ELSE "allocFat"))
    /\ UNCHANGED <<disk, printed>>

allocate_cluster(p) ==
    /\ Transfer(p, {"allocFat"})
    /\ LET c == proc[p].cluster
       IN  Continue(p, IF fat[c] = Free THEN Go(p, "takeFat")
                       ELSE IF c = LastCluster THEN Ended(p)
                       ELSE [Go(p, "allocFat") EXCEPT !.cluster = c + 1])
    /\ UNCHANGED <<disk, printed>>

WriteFat(p) ==
    /\ Transfer(p, FatWrites)
    /\ Continue(p, Go(p, AfterFat(proc[p].at)))
    /\ fat' = [fat EXCEPT ![proc[p].cluster] = Eof]
    /\ UNCHANGED <<root, content, spilled, spoilt, printed>>

WriteData(p) ==
    /\ proc[p].job.what = "write"
    /\ Transfer(p, {"data"})
    /\ Continue(p, Go(p, "seal"))
    /\ content' = [content EXCEPT ![proc[p].cluster] = proc[p].job.data]
    /\ UNCHANGED <<fat, root, spilled, spoilt, printed>>

(* A redirection writes no bytes, wherever the offset is.                  *)
WriteNothing(p) ==
    /\ proc[p].job.what = ">" /\ proc[p].at = "data" /\ proc[p].sought
    /\ Continue(p, Go(p, "seal"))
    /\ UNCHANGED <<disk, offset, foreground, printed>>

FinishWrite(p) ==
    /\ Transfer(p, {"entry"})
    /\ Continue(p, Ended(p))
    /\ WriteEntry(proc[p].dir_entry_offset,
                  Entry(Shown[proc[p].job.name], proc[p].cluster))
    /\ UNCHANGED <<fat, printed>>

-----------------------------------------------------------------------------
(* fat16_read, fat16_readdir.                                              *)

ReadData(p) ==
    /\ ~Writes(proc[p])
    /\ Transfer(p, {"data"})
    /\ Continue(p, Go(p, "next"))
    /\ printed' = IF p = Shell THEN Append(printed, content[proc[p].cluster])
                  ELSE printed
    /\ UNCHANGED disk

AfterRead(p, end) ==
    IF proc[p].job.what = "cat" /\ end < Eof
    THEN [Go(p, "place") EXCEPT !.fat_ptr = end]
    ELSE [Ended(p) EXCEPT !.fat_ptr = end]

(* No chain goes on.  cat reads until fat16_read returns 0, which it does  *)
(* because the end of the chain is kept in fat_ptr.                        *)
ReadFat(p) ==
    /\ Transfer(p, {"nextFat"})
    /\ Continue(p, AfterRead(p, EndOfChain))
    /\ UNCHANGED <<disk, printed>>

(* Nothing stops fat16_readdir at the end of a full directory: it takes    *)
(* what follows for entries, up to a byte that is 0.                       *)
fat16_readdir(p) ==
    /\ Transfer(p, {"list"})
    /\ LET i == proc[p].i
           found == IF i = AfterRoot THEN content[2] ELSE root[i].name
       IN
       \/ /\ found \in {Unused, Blank}
          /\ Continue(p, Ended(p))
          /\ UNCHANGED printed
       \/ /\ found \notin {Unused, Blank}
          /\ Continue(p, IF i = AfterRoot THEN Ended(p) ELSE ReadNext(p))
          /\ printed' = Append(printed, found)
    /\ UNCHANGED disk

-----------------------------------------------------------------------------
(* Astray.                                                                 *)

(* The offset is where the driver relies on it: for a transfer, and when   *)
(* it computes an entry's place from it.  A redirection writes no bytes,   *)
(* wherever the offset is.                                                 *)
OffsetFits(q) ==
    /\ q.at \in Transfers /\ q.sought =>
          offset = Aim(q) \/ (q.at = "data" /\ q.job.what = ">")
    /\ q.at = "back" => SlotBefore \in Slots
    /\ q.at = "tell" => SlotBefore + 1 \in Slots
    /\ q.at = "keep" => SlotBefore \in Slots \cup {AfterRoot}

(* A process transfers bytes at a place that is not the one it means, or   *)
(* takes a place that is no entry's for that of one.                       *)
GoesAstray(p) ==
    /\ ~OffsetFits(proc[p])
    /\ Continue(p, Go(p, "astray"))
    /\ UNCHANGED <<disk, offset, foreground, printed>>

Astray == \E p \in Procs : proc[p].at = "astray"

-----------------------------------------------------------------------------
(* Commands and processes.                                                 *)

Prompt == proc[Shell].at = "idle" /\ foreground = Shell

Run(j, at) ==
    /\ Prompt
    /\ Continue(Shell, [proc[Shell] EXCEPT !.at = at, !.job = j])
    /\ printed' = <<>>
    /\ UNCHANGED <<disk, offset, foreground>>

ls_command == Run(Job("ls", "none", Blank), "dir")
cat_command(n) == Run(Job("cat", n, Blank), "find")
write_command(n, d) == Run(Job("write", n, d), "find")
read_command(n) == Run(Job("read", n, Blank), "find")

execute_command(k, j, background) ==
    /\ Prompt
    /\ proc[k].at = "idle"
    /\ proc' = [proc EXCEPT ![k] = [proc[Shell] EXCEPT !.at = "find", !.job = j],
                            ![Shell].job = NoJob]
    /\ foreground' = IF background THEN Shell ELSE k
    /\ printed' = <<>>
    /\ UNCHANGED <<disk, offset>>

(* A child ends.  It may also be cut off at any time; one that is stopped  *)
(* in the foreground is in no list, and no command continues it.           *)
KidEnds(k) ==
    /\ proc[k].at # "idle"
    /\ proc' = [proc EXCEPT ![k] = Idle]
    /\ foreground' = IF foreground = k THEN Shell ELSE foreground
    /\ UNCHANGED <<disk, offset, printed>>

(* Everything stops, and the shell is started again on the same image.     *)
Crash ==
    /\ offset' = Boot
    /\ proc' = [p \in Procs |-> Idle]
    /\ foreground' = Shell
    /\ printed' = <<>>
    /\ UNCHANGED disk

Step(p) ==
    \/ Seek(p) \/ ReadBoot(p)
    \/ find_file(p) \/ find_free_root_entry(p) \/ SeekBack(p) \/ Tell(p)
    \/ PutBack(p) \/ KeepOffset(p)
    \/ BeginWrite(p) \/ allocate_cluster(p) \/ WriteFat(p)
    \/ WriteData(p) \/ WriteNothing(p) \/ FinishWrite(p)
    \/ ReadData(p) \/ ReadFat(p) \/ fat16_readdir(p)

Next ==
    /\ ~Astray
    /\ \/ \E p \in Procs : Step(p) \/ GoesAstray(p)
       \/ ls_command
       \/ \E n \in Names :
             \/ cat_command(n) \/ read_command(n)
             \/ \E d \in Data : write_command(n, d)
       \/ \E k \in Kids, j \in KidJobs, background \in {FALSE, Background} :
             execute_command(k, j, background)
       \/ \E k \in Kids : KidEnds(k)
       \/ Crash

(* A process that is not blocked goes on, and programs end.                *)
Fairness ==
    /\ \A p \in Procs : WF_vars(~Astray /\ Step(p))
    /\ \A k \in Kids : WF_vars(~Astray /\ proc[k].at = "exec" /\ KidEnds(k))

Spec == Init /\ [][Next]_vars /\ Fairness

-----------------------------------------------------------------------------
(* Properties.                                                             *)

Stages == Transfers \cup {"idle", "exec", "back", "tell", "keep", "astray"}

Locals ==
    [at : Stages,
     sought : BOOLEAN,
     job : ShellJobs \cup KidJobs \cup {NoJob},
     i : 0 .. AfterRoot,
     cluster : Clusters \cup {0},
     entry : Entries,
     fat_ptr : Clusters \cup {0, EndOfChain},
     dir_entry_offset : Slots \cup {AfterRoot}]

(* Every variable stays in its type.                                       *)
TypeOK ==
    /\ fat \in [Clusters -> {Free, Eof}]
    /\ root \in [Slots -> Entries]
    /\ content \in [Clusters -> Data \cup {Blank, "entry"}]
    /\ spilled \in Entries
    /\ spoilt \in BOOLEAN
    /\ offset \in Nat
    /\ proc \in [Procs -> Locals]
    /\ foreground \in Procs
    /\ printed \in Seq(ShownNames \cup Data \cup {Blank, "entry"})

(* Whatever process reads or writes the image does so where it has put the *)
(* offset: not even a child that was cut off leaves it elsewhere.          *)
OnCourse == \A p \in Procs : proc[p].sought => offset = Aim(proc[p])

Used(i) == root[i].name # Unused

(* Between any two system calls the disk is in order, so that it is after  *)
(* a crash, too: the entries in use come first, each with a cluster that   *)
(* is taken in the FAT and is its own, and a cluster that is not taken is  *)
(* as format left it.                                                      *)
DiskIsInOrder ==
    /\ \A i, j \in Slots : i < j /\ Used(j) => Used(i)
    /\ \A i \in Slots : Used(i) => root[i].cluster # 0 /\ fat[root[i].cluster] = Eof
    /\ \A i, j \in Slots : Used(i) /\ Used(j) /\ root[i].cluster = root[j].cluster => i = j
    /\ ~spoilt => \A c \in Clusters : fat[c] = Free => content[c] = Blank

Taken(c) == c \in Clusters /\ fat[c] = Eof

(* An entry is unused, or has a cluster that is taken in the FAT.          *)
Leads(e) == (e.name = Unused /\ e.cluster = 0) \/ Taken(e.cluster)

(* Although a child in the background and the shell look for room at the   *)
(* same time, and one may take the other's entry for its own because the   *)
(* offset tells it so: as long as no transfer has gone astray, an entry in *)
(* use leads to a cluster that is taken, also the one behind the root      *)
(* directory.                                                              *)
EntriesLead ==
    ~Astray => (\A i \in Slots : Leads(root[i])) /\ Leads(spilled)

(* What a read of the file n returns: find_file takes the first entry of   *)
(* the name, and looks no further than the first unused one.               *)
IsFound(n, i) ==
    root[i].name = n /\ \A j \in 1 .. i - 1 : root[j].name \notin {n, Unused}
Visible(n) ==
    IF \E i \in Slots : IsFound(n, i)
    THEN content[root[CHOOSE i \in Slots : IsFound(n, i)].cluster]
    ELSE "absent"

File == [n \in Names |-> Visible(n)]
Asked ==
    {<<Shown[proc[p].job.name], proc[p].job.data>> :
        p \in {q \in Procs : proc[q].at # "idle" /\ Writes(proc[q])}}
LastShown ==
    IF proc[Shell].job.what \in {"cat", "read"} /\ printed # <<>>
    THEN <<proc[Shell].job.name, printed>> ELSE <<>>

(* Every command, interrupted or not, writes a whole file at one instant   *)
(* or none, and what cat and read print is what the file holds, once.      *)
Promise == INSTANCE Files
    WITH Data <- Data \cup {Blank}, file <- File, asked <- Asked, shown <- LastShown

FilesAreWhole == Promise!Spec

(* When ls has ended in a directory with room, it has printed the name of  *)
(* every entry in use, in their order.                                     *)
LsIsComplete ==
    proc[Shell].job.what = "ls" /\ proc[Shell].at = "idle" /\ ~Used(RootEntries) =>
        /\ \A i \in Slots : Used(i) <=> i \in DOMAIN printed
        /\ \A i \in DOMAIN printed : printed[i] = root[i].name

(* Every command ends: the shell comes back to its prompt.                 *)
PromptReturns == []<>Prompt

(***************************************************************************)
(* The inductive invariant, for a shell without background children.       *)
(***************************************************************************)

Me == proc[foreground]

(* One process at a time, and the shell has no command of its own while a  *)
(* child is at work.                                                       *)
Turns ==
    /\ \A p \in Procs : p # foreground => proc[p].at = "idle" /\ ~proc[p].sought
    /\ foreground # Shell => proc[Shell].job = NoJob

WriteStages == {"cut", "cutFat", "free", "freeEntry", "back", "tell", "putBack",
                "begin", "alloc", "allocFat", "takeFat", "mark", "markFat",
                "seal", "sealFat", "entry"}
ReadStages == {"next", "nextFat"}

(* The place of the process fits its command.                              *)
Fits(q) ==
    /\ q.at # "astray"
    /\ q.sought => q.at \in Transfers
    /\ q.at # "idle" => q.job \in IF foreground = Shell THEN ShellJobs ELSE KidJobs
    /\ q.at \in WriteStages => Writes(q)
    /\ q.at \in ReadStages => ~Writes(q)
    /\ q.at \notin {"idle", "exec"} => (q.at \in {"dir", "list"} <=> q.job.what = "ls")

Directory ==
    /\ \A i \in Slots : Used(i) <=> root[i].cluster # 0
    /\ spilled.cluster # 0 => Taken(spilled.cluster)

(* The loops over the directory.                                           *)
Scans(q) ==
    q.at \in DirStages =>
        /\ q.i \in Slots \/ (q.i = AfterRoot /\ q.at = "list")
        /\ \A j \in 1 .. q.i - 1 : Used(j)
        /\ q.at = "findEntry" => \A j \in 1 .. q.i - 1 : root[j].name # q.job.name

FirstFree(i) == i \in Slots /\ ~Used(i) /\ \A j \in 1 .. i - 1 : Used(j)

(* The copy of the last entry behind a full directory.                     *)
InSpill(q) ==
    /\ q.dir_entry_offset = AfterRoot /\ spoilt
    /\ spilled.name # Unused /\ spilled.cluster # 0

(* The entry to be written is the first free one, until it is.             *)
Places(q) ==
    /\ q.at \in {"back", "tell"} =>
          /\ FirstFree(q.i) /\ q.entry = root[q.i]
          /\ offset = RootAt(q.i) + (IF q.at = "back" THEN 1 ELSE 0)
    /\ q.at = "putBack" =>
          \/ FirstFree(q.dir_entry_offset) /\ q.entry = root[q.dir_entry_offset]
          \/ /\ q.dir_entry_offset = AfterRoot /\ q.cluster # 0
             /\ Used(RootEntries) /\ q.entry = root[RootEntries]
    /\ q.at = "keep" /\ Writes(q) =>
          /\ FirstFree(q.dir_entry_offset) \/ InSpill(q)
          /\ offset = RootAt(q.dir_entry_offset) + 1
    /\ q.at = "begin" => FirstFree(q.dir_entry_offset) \/ InSpill(q)
    /\ q.at \in {"alloc", "allocFat", "takeFat"} => FirstFree(q.dir_entry_offset)

(* The cluster to be written is nobody's, and blank until the data is in.  *)
Owns(q) ==
    /\ q.at \in {"cut", "cutFat"} => Taken(q.cluster)
    /\ q.at \in {"allocFat", "takeFat"} => q.cluster \in Clusters
    /\ q.at = "takeFat" => fat[q.cluster] = Free
    /\ Writes(q) /\ q.at \in {"mark", "markFat", "place", "data",
                              "seal", "sealFat", "entry"} =>
          /\ Taken(q.cluster)
          /\ \/ /\ FirstFree(q.dir_entry_offset)
                /\ \A i \in Slots : root[i].cluster # q.cluster
             \/ InSpill(q)
          /\ ~spoilt =>
                content[q.cluster] = IF q.at \in {"seal", "sealFat", "entry"}
                                     THEN q.job.data ELSE Blank

(* The cluster to be read is that of the file.                             *)
Finds(q) ==
    ~Writes(q) /\ q.at \in ReadStages \cup {"keep", "place", "data"} =>
        /\ q.cluster \in Clusters
        /\ \E i \in Slots : IsFound(q.job.name, i)
        /\ Visible(q.job.name) = content[q.cluster]
        /\ q.at = "keep" => \E i \in Slots : offset = RootAt(i) + 1

Prints(q) ==
    /\ q.at = "list" =>
          /\ Len(printed) = q.i - 1
          /\ \A j \in 1 .. q.i - 1 : printed[j] = root[j].name
    /\ foreground = Shell /\ ~Writes(q)
          /\ q.at \in {"dir", "find", "findEntry", "keep", "place", "data"} =>
       printed = <<>>

InPlace(q) ==
    Fits(q) /\ Scans(q) /\ Places(q) /\ Owns(q) /\ Finds(q) /\ Prints(q)

IInv ==
    /\ TypeOK /\ OnCourse /\ DiskIsInOrder /\ LsIsComplete
    /\ Turns /\ Directory /\ InPlace(Me)

(* A comment in fat16_write says "Write the actual file content to the     *)
(* disk at the calculated cluster offset".                                 *)
DataGoesToItsCluster ==
    \A p \in Procs :
        proc[p].at = "data" /\ proc[p].sought /\ proc[p].job.what = "write" =>
            offset = ClusterAt(proc[p].cluster)

=============================================================================
