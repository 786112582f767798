------------------------- MODULE SharedOffsetProofs --------------------------
(***************************************************************************)
(* What TLAPS proves of DiskShell in spite of children in the background,  *)
(* which move the offset under each other, until a transfer goes astray:   *)
(* the types, and that an entry in use leads to a cluster that is taken;   *)
(* and, without such children, that no process goes back on its way        *)
(* through a command.                                                      *)
(***************************************************************************)
EXTENDS DiskShellProofs

USE RootAssumption, ClusterAssumption DEF Slots, AfterRoot, Clusters

AllLead == (\A i \in Slots : Leads(root[i])) /\ Leads(spilled)

(* The variables of one process, whatever the others do.                   *)
AtWork(q) ==
    /\ q.at # "idle" => q.job \in ShellJobs \cup KidJobs
    /\ q.at \in WriteStages => Writes(q)
    /\ q.at \in DirStages => q.i \in Slots \/ (q.i = AfterRoot /\ q.at = "list")
    /\ q.at \in {"allocFat", "takeFat"} => q.cluster \in Clusters
    /\ q.at \in {"cut", "cutFat", "mark", "markFat", "place", "data",
                 "seal", "sealFat", "entry"} => Taken(q.cluster)
    /\ q.at = "keep" /\ ~Writes(q) => Taken(q.cluster)
    /\ Leads(q.entry)

AInv == TypeOK /\ AllLead /\ \A p \in Procs : AtWork(proc[p])

(* The way of a process through its command.                               *)
Rank(at) ==
    CASE at = "find" -> 1 [] at = "findEntry" -> 2 [] at = "cut" -> 3
      [] at = "cutFat" -> 4 [] at = "free" -> 5 [] at = "freeEntry" -> 6
      [] at = "back" -> 7 [] at = "tell" -> 8 [] at = "putBack" -> 9
      [] at = "keep" -> 10 [] at = "begin" -> 11 [] at = "alloc" -> 12
      [] at = "allocFat" -> 13 [] at = "takeFat" -> 14 [] at = "mark" -> 15
      [] at = "markFat" -> 16 [] at = "place" -> 17 [] at = "data" -> 18
      [] at = "seal" -> 19 [] at = "sealFat" -> 20 [] at = "entry" -> 21
      [] at = "next" -> 22 [] at = "nextFat" -> 23 [] at = "dir" -> 24
      [] at = "list" -> 25 [] at = "astray" -> 26 [] at = "exec" -> 27
      [] at = "idle" -> 28

(* How far a loop over the directory, or over the FAT, has come.           *)
Count(q) ==
    IF q.at \in DirStages THEN q.i
    ELSE IF q.at = "allocFat" THEN q.cluster ELSE 0

Later(q, r) ==
    \/ Rank(q.at) < Rank(r.at)
    \/ q.at = r.at /\ Count(q) < Count(r)
    \/ q.at = r.at /\ Count(q) = Count(r) /\ ~q.sought /\ r.sought

(* Every step of a process takes it further, and the steps of others leave *)
(* it where it is, unless they start or end it.                            *)
Onward(p) ==
    /\ Step(p) => Later(proc[p], proc'[p])
    /\ \/ proc'[p] = proc[p] \/ Later(proc[p], proc'[p])
       \/ proc[p].at = "idle" \/ proc'[p] = Idle

LEMMA Ranks ==
  /\ Rank("find") = 1 /\ Rank("findEntry") = 2 /\ Rank("cut") = 3
  /\ Rank("cutFat") = 4 /\ Rank("free") = 5 /\ Rank("freeEntry") = 6
  /\ Rank("back") = 7 /\ Rank("tell") = 8 /\ Rank("putBack") = 9
  /\ Rank("keep") = 10 /\ Rank("begin") = 11 /\ Rank("alloc") = 12
  /\ Rank("allocFat") = 13 /\ Rank("takeFat") = 14 /\ Rank("mark") = 15
  /\ Rank("markFat") = 16 /\ Rank("place") = 17 /\ Rank("data") = 18
  /\ Rank("seal") = 19 /\ Rank("sealFat") = 20 /\ Rank("entry") = 21
  /\ Rank("next") = 22 /\ Rank("nextFat") = 23 /\ Rank("dir") = 24
  /\ Rank("list") = 25 /\ Rank("astray") = 26 /\ Rank("exec") = 27
  /\ Rank("idle") = 28
BY DEF Rank

LEMMA StageNames ==
  /\ Stages = {"find", "findEntry", "cut", "cutFat", "free", "freeEntry", "back",
               "tell", "putBack", "keep", "begin", "alloc", "allocFat", "takeFat",
               "mark", "markFat", "place", "data", "seal", "sealFat", "entry",
               "next", "nextFat", "dir", "list", "exec", "idle", "astray"}
  /\ Transfers \subseteq Stages
BY DEF Stages, Transfers, BootStages, FatStages, FatWrites, DirStages, EntryStages

LEMMA Ranked ==
  ASSUME NEW at \in Stages \ {"exec", "idle"}
  PROVE  Rank(at) < Rank("exec") /\ Rank("exec") < Rank("idle")
<1> HIDE DEF Rank
<1> QED BY Ranks, StageNames

USE DEF Count
HIDE DEF Rank

-----------------------------------------------------------------------------
(* A step of one process that leaves disk and shell alone.                 *)
LEMMA QuietKeeps ==
  ASSUME AInv, NEW p \in Procs, NEW q \in Locals,
         proc' = [proc EXCEPT ![p] = q],
         UNCHANGED <<disk, foreground>>, offset' \in Nat,
         printed' \in Seq(ShownNames \cup Data \cup {Blank, "entry"}),
         AtWork(q)
  PROVE  AInv' /\ proc'[p] = q
<1>1. proc'[p] = q /\ \A r \in Procs : r # p => proc'[r] = proc[r]
  BY DEF AInv, TypeOK
<1>2. TypeOK'
  BY DEF AInv, TypeOK, disk
<1>3. AllLead'
  BY DEF AInv, AllLead, Leads, Taken, disk
<1>4. ASSUME NEW r, AtWork(r) PROVE AtWork(r)'
  BY <1>4 DEF AtWork, Leads, Taken, disk
<1>5. ASSUME NEW r \in Procs PROVE AtWork(proc[r])'
  BY <1>1, <1>4, <1>5 DEF AInv
<1> QED
  BY <1>1, <1>2, <1>3, <1>5 DEF AInv

(* A step that takes more clusters or writes a proper entry.               *)
LEMMA WriteKeeps ==
  ASSUME AInv, NEW p \in Procs, NEW q \in Locals,
         proc' = [proc EXCEPT ![p] = q],
         UNCHANGED <<foreground, printed>>, offset' \in Nat,
         fat' \in [Clusters -> {Free, Eof}],
         \A c : Taken(c) => Taken(c)',
         root' \in [Slots -> Entries], spilled' \in Entries, AllLead',
         content' \in [Clusters -> Data \cup {Blank, "entry"}],
         spoilt' \in BOOLEAN,
         AtWork(q)'
  PROVE  AInv' /\ proc'[p] = q
<1>1. proc'[p] = q /\ \A r \in Procs : r # p => proc'[r] = proc[r]
  BY DEF AInv, TypeOK
<1>2. TypeOK'
  BY DEF AInv, TypeOK
<1>3. ASSUME NEW r, AtWork(r) PROVE AtWork(r)'
  BY <1>3 DEF AtWork, Leads
<1>4. ASSUME NEW r \in Procs PROVE AtWork(proc[r])'
  BY <1>1, <1>3, <1>4 DEF AInv
<1> QED
  BY <1>1, <1>2, <1>4 DEF AInv

LEMMA Here ==
  ASSUME AInv, NEW p \in Procs
  PROVE  /\ proc[p] \in Locals /\ AtWork(proc[p]) /\ offset \in Nat
         /\ proc[p].at \in Stages
         /\ printed \in Seq(ShownNames \cup Data \cup {Blank, "entry"})
BY DEF AInv, TypeOK, Locals

(* The call of p has ended.                                                *)
LEMMA EndedGoes ==
  ASSUME AInv, NEW p \in Procs, proc[p].at \notin {"idle", "exec"},
         NEW x \in Clusters \cup {0, EndOfChain}
  PROVE  /\ Ended(p) \in Locals /\ AtWork(Ended(p)) /\ Later(proc[p], Ended(p))
         /\ [Ended(p) EXCEPT !.fat_ptr = x] \in Locals
         /\ AtWork([Ended(p) EXCEPT !.fat_ptr = x])
         /\ Later(proc[p], [Ended(p) EXCEPT !.fat_ptr = x])
<1>1. proc[p] \in Locals /\ AtWork(proc[p]) /\ proc[p].at \in Stages
  BY Here
<1>2. /\ proc[p].job \in ShellJobs \cup KidJobs
      /\ proc[p].fat_ptr \in Clusters \cup {0, EndOfChain}
      /\ proc[p].dir_entry_offset \in Slots \cup {AfterRoot}
  BY <1>1 DEF AtWork, Locals
<1>3. "idle" \in Stages /\ "exec" \in Stages
  BY StageNames
<1>4. Idle \in Locals /\ Idle.entry = Entry(Unused, 0)
  BY IdleFacts DEF Idle
<1>5. ASSUME NEW y \in Clusters \cup {0, EndOfChain},
             NEW q, q = [Idle EXCEPT !.at = IF p = Shell THEN "idle" ELSE "exec",
                                     !.job = proc[p].job, !.fat_ptr = y,
                                     !.dir_entry_offset = proc[p].dir_entry_offset]
      PROVE  q \in Locals /\ AtWork(q) /\ Later(proc[p], q)
  <2> DEFINE at == IF p = Shell THEN "idle" ELSE "exec"
  <2>0. at \in {"idle", "exec"} /\ at \in Stages
    BY <1>3
  <2> HIDE DEF at
  <2>1. /\ q \in Locals /\ q.at \in {"idle", "exec"} /\ q.job = proc[p].job
        /\ q.entry = Entry(Unused, 0)
    <3>1. q = [Idle EXCEPT !.at = at, !.job = proc[p].job, !.fat_ptr = y,
                           !.dir_entry_offset = proc[p].dir_entry_offset]
      BY <1>5 DEF at
    <3>2. proc[p].job \in ShellJobs \cup KidJobs \cup {NoJob}
      BY <1>2
    <3> DEFINE Jobs == ShellJobs \cup KidJobs \cup {NoJob}
    <3> HIDE DEF Jobs
    <3>3. q \in Locals
      BY <1>2, <1>4, <1>5, <2>0, <3>1, <3>2 DEF Locals, Jobs
    <3>4. q.at = at /\ q.job = proc[p].job /\ q.entry = Idle.entry
      BY <1>4, <3>1 DEF Locals
    <3> QED
      BY <1>4, <2>0, <3>3, <3>4
  <2>2. AtWork(q)
    BY <1>2, <2>1 DEF AtWork, Leads, Entry, WriteStages, DirStages
  <2>3. Rank(proc[p].at) < Rank(q.at)
    <3>1. Rank(proc[p].at) < Rank("exec") /\ Rank("exec") < Rank("idle")
      BY <1>1, Ranked
    <3>2. Rank(proc[p].at) \in Int /\ Rank("exec") = 27 /\ Rank("idle") = 28
      BY <1>1, Ranks, StageNames
    <3> QED
      BY <2>1, <3>1, <3>2
  <2> QED
    BY <2>1, <2>2, <2>3 DEF Later
<1>6. Ended(p) = [Idle EXCEPT !.at = IF p = Shell THEN "idle" ELSE "exec",
                              !.job = proc[p].job, !.fat_ptr = proc[p].fat_ptr,
                              !.dir_entry_offset = proc[p].dir_entry_offset]
  BY DEF Ended
<1>7. [Ended(p) EXCEPT !.fat_ptr = x] =
        [Idle EXCEPT !.at = IF p = Shell THEN "idle" ELSE "exec",
                     !.job = proc[p].job, !.fat_ptr = x,
                     !.dir_entry_offset = proc[p].dir_entry_offset]
  BY <1>4, <1>6 DEF Locals
<1> QED
  BY <1>2, <1>5, <1>6, <1>7

LEMMA SeekGoes ==
  ASSUME AInv, NEW p \in Procs, Seek(p)
  PROVE  AInv' /\ Later(proc[p], proc'[p])
<1>1. /\ proc[p].at \in Transfers /\ ~proc[p].sought
      /\ offset' = Aim(proc[p]) /\ UNCHANGED <<disk, foreground, printed>>
  BY DEF Seek
<1>2. proc[p] \in Locals /\ AtWork(proc[p])
  BY Here
<1>3. PICK q \in Locals : q = [proc[p] EXCEPT !.sought = TRUE]
  BY <1>2 DEF Locals
<1>4. /\ q.at = proc[p].at /\ q.sought /\ q.job = proc[p].job /\ q.i = proc[p].i
      /\ q.cluster = proc[p].cluster /\ q.entry = proc[p].entry
  BY <1>2, <1>3 DEF Locals
<1>5. AtWork(q)
  BY <1>2, <1>4 DEF AtWork, Writes
<1>6. proc' = [proc EXCEPT ![p] = q]
  BY <1>3 DEF Seek
<1>7. offset' \in Nat
  BY <1>1, <1>2, AimInNat
<1>8. AInv' /\ proc'[p] = q
  BY <1>1, <1>5, <1>6, <1>7, Here, QuietKeeps
<1> QED
  BY <1>1, <1>4, <1>8 DEF Later

(* A process that goes on to another stage with what it has.               *)
LEMMA GoKeeps ==
  ASSUME AInv, NEW p \in Procs, NEW at \in Stages,
         at \notin DirStages \cup {"allocFat", "takeFat"},
         proc[p].at # "idle",
         at \in WriteStages => Writes(proc[p]),
         at \in {"cut", "cutFat", "mark", "markFat", "place", "data",
                 "seal", "sealFat", "entry"} => Taken(proc[p].cluster),
         at = "keep" /\ ~Writes(proc[p]) => Taken(proc[p].cluster),
         Rank(proc[p].at) < Rank(at)
  PROVE  /\ Go(p, at) \in Locals /\ AtWork(Go(p, at))
         /\ Later(proc[p], Go(p, at))
<1> DEFINE q == Go(p, at)
<1>1. proc[p] \in Locals /\ AtWork(proc[p])
  BY Here
<1>2. /\ q \in Locals /\ q.at = at /\ q.job = proc[p].job
      /\ q.cluster = proc[p].cluster /\ q.entry = proc[p].entry
  BY <1>1, GoFacts
<1> HIDE DEF q
<1>3. AtWork(q)
  BY <1>1, <1>2 DEF AtWork, Writes
<1>4. Later(proc[p], q)
  BY <1>2 DEF Later
<1> QED
  BY <1>2, <1>3, <1>4 DEF q

LEMMA ReadBootGoes ==
  ASSUME AInv, NEW p \in Procs, ReadBoot(p)
  PROVE  AInv' /\ Later(proc[p], proc'[p])
<1> DEFINE at == proc[p].at
           g == Go(p, AfterBoot(at))
           q == CASE at \in {"find", "free", "dir"} -> [g EXCEPT !.i = 1]
                  [] at = "alloc" -> [g EXCEPT !.cluster = 2]
                  [] OTHER -> g
<1>1. /\ at \in BootStages /\ offset' = offset + 1
      /\ UNCHANGED <<disk, foreground, printed>>
      /\ proc' = [proc EXCEPT ![p] = q]
  BY DEF ReadBoot, Transfer, Continue
<1>2. proc[p] \in Locals /\ AtWork(proc[p]) /\ offset \in Nat
  BY Here
<1>3. AfterBoot(at) \in Stages
  BY <1>1, StageNames DEF AfterBoot, BootStages
<1>4. /\ g \in Locals /\ g.at = AfterBoot(at) /\ g.job = proc[p].job /\ g.i = proc[p].i
      /\ g.cluster = proc[p].cluster /\ g.entry = proc[p].entry
  BY <1>2, <1>3, GoFacts
<1> HIDE DEF g
<1>5. /\ q \in Locals /\ q.at = AfterBoot(at) /\ q.job = proc[p].job
      /\ q.entry = proc[p].entry
      /\ q.i = IF at \in {"find", "free", "dir"} THEN 1 ELSE proc[p].i
      /\ q.cluster = IF at = "alloc" THEN 2 ELSE proc[p].cluster
  <2>1. q \in Locals
    BY <1>4, Constants DEF Locals
  <2> QED
    BY <1>4, <2>1 DEF Locals
<1> HIDE DEF q
<1>6. Rank(at) < Rank(q.at)
  BY <1>1, <1>5, Ranks DEF AfterBoot, BootStages
<1>7. /\ q.at \in WriteStages => at \in WriteStages
      /\ q.at \in DirStages => at \in {"find", "free", "dir"}
      /\ q.at \in {"allocFat", "takeFat"} => at = "alloc"
      /\ q.at \in {"cut", "cutFat", "mark", "markFat", "place", "data",
                   "seal", "sealFat", "entry"} =>
            at \in {"cut", "mark", "place", "seal"}
      /\ q.at \notin {"keep", "idle"} /\ at # "idle"
  BY <1>1, <1>5 DEF AfterBoot, BootStages, WriteStages, DirStages
<1> HIDE DEF at
<1>8. AtWork(q)
  <2>1. q.job \in ShellJobs \cup KidJobs
    BY <1>2, <1>5, <1>7 DEF at, AtWork
  <2>2. q.at \in WriteStages => Writes(q)
    BY <1>2, <1>5, <1>7 DEF at, AtWork, Writes
  <2>3. q.at \in DirStages => q.i \in Slots
    BY <1>5, <1>7, Constants
  <2>4. q.at \in {"allocFat", "takeFat"} => q.cluster \in Clusters
    BY <1>5, <1>7, Constants
  <2>5. q.at \in {"cut", "cutFat", "mark", "markFat", "place", "data",
                  "seal", "sealFat", "entry"} => Taken(q.cluster)
    BY <1>2, <1>5, <1>7 DEF at, AtWork
  <2>6. Leads(q.entry)
    BY <1>2, <1>5 DEF AtWork
  <2> QED
    BY <1>7, <2>1, <2>2, <2>3, <2>4, <2>5, <2>6 DEF AtWork
<1>9. AInv' /\ proc'[p] = q
  <2>1. offset' \in Nat
    BY <1>1, <1>2
  <2> QED
    BY <1>1, <1>5, <1>8, <2>1, Here, QuietKeeps
<1> QED
  BY <1>6, <1>9 DEF at, Later

(* A transfer that changes nothing on the disk and prints nothing.         *)
LEMMA QuietGoes ==
  ASSUME AInv, NEW p \in Procs, NEW q \in Locals, AtWork(q), Later(proc[p], q),
         Continue(p, q), UNCHANGED <<disk, foreground, printed>>, offset' \in Nat
  PROVE  AInv' /\ Later(proc[p], proc'[p])
<1>1. proc' = [proc EXCEPT ![p] = q]
  BY DEF Continue
<1>2. AInv' /\ proc'[p] = q
  BY <1>1, Here, QuietKeeps
<1> QED
  BY <1>2

(* The loops over the directory.                                           *)
LEMMA ReadNextGoes ==
  ASSUME AInv, NEW p \in Procs, proc[p].at \in DirStages,
         proc[p].i \in Slots, proc[p].i # RootEntries \/ proc[p].at = "list"
  PROVE  /\ ReadNext(p) \in Locals /\ AtWork(ReadNext(p))
         /\ Later(proc[p], ReadNext(p))
<1> DEFINE q == ReadNext(p)
<1>1. proc[p] \in Locals /\ AtWork(proc[p])
  BY Here
<1>2. /\ q \in Locals /\ q.at = proc[p].at /\ q.i = proc[p].i + 1
      /\ q.job = proc[p].job /\ q.cluster = proc[p].cluster /\ q.entry = proc[p].entry
  BY <1>1 DEF ReadNext, Locals
<1> HIDE DEF q
<1>3. q.i \in Slots \/ (q.i = AfterRoot /\ q.at = "list")
  BY <1>2
<1>4. AtWork(q)
  BY <1>1, <1>2, <1>3 DEF AtWork, Writes, DirStages
<1>5. Later(proc[p], q)
  BY <1>2 DEF Later
<1> QED
  BY <1>2, <1>4, <1>5 DEF q

LEMMA FindFileGoes ==
  ASSUME AInv, NEW p \in Procs, find_file(p)
  PROVE  AInv' /\ Later(proc[p], proc'[p])
<1> DEFINE e == root[proc[p].i]
<1>1. /\ proc[p].at = "findEntry" /\ offset' = offset + 1
      /\ UNCHANGED <<disk, foreground, printed>>
  BY DEF find_file, Transfer
<1>2. proc[p] \in Locals /\ AtWork(proc[p]) /\ offset \in Nat
  BY Here
<1>3. proc[p].i \in Slots /\ proc[p].job \in ShellJobs \cup KidJobs
  BY <1>1, <1>2 DEF AtWork, DirStages
<1>4. ASSUME NEW q \in Locals, AtWork(q), Later(proc[p], q), Continue(p, q)
      PROVE  AInv' /\ Later(proc[p], proc'[p])
  <2>1. offset' \in Nat
    BY <1>1, <1>2
  <2> QED
    BY <1>1, <1>4, <2>1, QuietGoes
<1>5. CASE /\ e.name = proc[p].job.name
           /\ Continue(p, [Go(p, IF Writes(proc[p]) THEN "cut" ELSE "keep")
                             EXCEPT !.fat_ptr = e.cluster, !.cluster = e.cluster])
  <2> DEFINE at == IF Writes(proc[p]) THEN "cut" ELSE "keep"
             g == Go(p, at)
             q == [g EXCEPT !.fat_ptr = e.cluster, !.cluster = e.cluster]
  <2>1. e.name # Unused
    <3>1. proc[p].job.name # Unused
      BY <1>3, NameFacts DEF ShellJobs, KidJobs, Job, Unused
    <3> QED
      BY <1>5, <3>1
  <2>2. Taken(e.cluster) /\ e.cluster \in Clusters
    BY <1>3, <2>1 DEF AInv, AllLead, Leads, Taken
  <2>3. at \in Stages
    BY StageNames
  <2>4. g \in Locals /\ g.at = at /\ g.job = proc[p].job /\ g.entry = proc[p].entry
    BY <1>2, <2>3, GoFacts
  <2> HIDE DEF g
  <2>5. /\ q \in Locals /\ q.at = at /\ q.job = proc[p].job
        /\ q.entry = proc[p].entry /\ q.cluster = e.cluster
    BY <2>2, <2>4 DEF Locals
  <2> HIDE DEF q
  <2>6. AtWork(q)
    BY <1>2, <1>3, <2>2, <2>5 DEF AtWork, Writes, DirStages, WriteStages
  <2>7. Later(proc[p], q)
    BY <1>1, <2>5, Ranks DEF Later
  <2>8. Continue(p, q)
    BY <1>5 DEF q, g
  <2> QED
    BY <1>4, <2>5, <2>6, <2>7, <2>8
<1>6. CASE proc[p].i # RootEntries /\ Continue(p, ReadNext(p))
  <2>1. proc[p].at \in DirStages
    BY <1>1 DEF DirStages
  <2> QED
    BY <1>3, <1>4, <1>6, <2>1, ReadNextGoes
<1>7. CASE Continue(p, IF Writes(proc[p]) THEN Go(p, "free") ELSE Ended(p))
  <2>1. CASE Writes(proc[p])
    <3>1. "free" \in Stages /\ "free" \notin DirStages
      BY StageNames DEF DirStages
    <3>2. Go(p, "free") \in Locals /\ AtWork(Go(p, "free")) /\ Later(proc[p], Go(p, "free"))
      BY <1>1, <2>1, <3>1, Ranks, GoKeeps
    <3> QED
      BY <1>4, <1>7, <2>1, <3>2
  <2>2. CASE ~Writes(proc[p])
    <3>1. Ended(p) \in Locals /\ AtWork(Ended(p)) /\ Later(proc[p], Ended(p))
      BY <1>1, EndedGoes
    <3> QED
      BY <1>4, <1>7, <2>2, <3>1
  <2> QED
    BY <2>1, <2>2
<1> QED
  BY <1>5, <1>6, <1>7 DEF find_file

LEMMA FindFreeGoes ==
  ASSUME AInv, NEW p \in Procs, find_free_root_entry(p)
  PROVE  AInv' /\ Later(proc[p], proc'[p])
<1> DEFINE e == root[proc[p].i]
           read == [proc[p] EXCEPT !.entry = e]
<1>1. /\ proc[p].at = "freeEntry" /\ offset' = offset + 1
      /\ UNCHANGED <<disk, foreground, printed>>
  BY DEF find_free_root_entry, Transfer
<1>2. proc[p] \in Locals /\ AtWork(proc[p]) /\ offset \in Nat
  BY Here
<1>3. /\ proc[p].i \in Slots /\ proc[p].job \in ShellJobs \cup KidJobs
      /\ Writes(proc[p])
  BY <1>1, <1>2 DEF AtWork, DirStages, WriteStages
<1>4. ASSUME NEW q \in Locals, AtWork(q), Later(proc[p], q), Continue(p, q)
      PROVE  AInv' /\ Later(proc[p], proc'[p])
  <2>1. offset' \in Nat
    BY <1>1, <1>2
  <2> QED
    BY <1>1, <1>4, <2>1, QuietGoes
<1>5. e \in Entries /\ Leads(e)
  BY <1>3 DEF AInv, TypeOK, AllLead
<1>6. CASE Continue(p, [read EXCEPT !.at = "back", !.sought = FALSE])
  <2> DEFINE q == [read EXCEPT !.at = "back", !.sought = FALSE]
  <2>1. "back" \in Stages
    BY StageNames
  <2>2. q \in Locals /\ q.at = "back" /\ q.job = proc[p].job /\ q.entry = e
    BY <1>2, <1>5, <2>1 DEF Locals
  <2> HIDE DEF q
  <2>3. AtWork(q)
    BY <1>3, <1>5, <2>2 DEF AtWork, Writes, DirStages
  <2>4. Later(proc[p], q)
    BY <1>1, <2>2, Ranks DEF Later
  <2> QED
    BY <1>4, <1>6, <2>2, <2>3, <2>4 DEF q
<1>7. CASE proc[p].i # RootEntries /\ Continue(p, ReadNext(p))
  <2>1. proc[p].at \in DirStages
    BY <1>1 DEF DirStages
  <2> QED
    BY <1>3, <1>4, <1>7, <2>1, ReadNextGoes
<1>8. CASE Continue(p, IF proc[p].cluster = 0 THEN Ended(p)
                       ELSE [read EXCEPT !.at = "putBack",
                                         !.dir_entry_offset = AfterRoot])
  <2>1. CASE proc[p].cluster = 0
    <3>1. Ended(p) \in Locals /\ AtWork(Ended(p)) /\ Later(proc[p], Ended(p))
      BY <1>1, EndedGoes
    <3> QED
      BY <1>4, <1>8, <2>1, <3>1
  <2>2. CASE proc[p].cluster # 0
    <3> DEFINE q == [read EXCEPT !.at = "putBack", !.dir_entry_offset = AfterRoot]
    <3>1. "putBack" \in Stages
      BY StageNames
    <3>2. q \in Locals /\ q.at = "putBack" /\ q.job = proc[p].job /\ q.entry = e
      BY <1>2, <1>5, <3>1 DEF Locals
    <3>3. Continue(p, q)
      BY <1>8, <2>2
    <3> HIDE DEF q
    <3>4. AtWork(q)
      BY <1>3, <1>5, <3>2 DEF AtWork, Writes, DirStages
    <3>5. Later(proc[p], q)
      BY <1>1, <3>2, Ranks DEF Later
    <3> QED
      BY <1>4, <3>2, <3>3, <3>4, <3>5
  <2> QED
    BY <2>1, <2>2
<1> QED
  BY <1>6, <1>7, <1>8 DEF find_free_root_entry

LEMMA SeekBackGoes ==
  ASSUME AInv, NEW p \in Procs, SeekBack(p)
  PROVE  AInv' /\ Later(proc[p], proc'[p])
<1>1. /\ proc[p].at = "back" /\ SlotBefore \in Slots /\ offset' = offset - 1
      /\ Continue(p, Go(p, "tell")) /\ UNCHANGED <<disk, foreground, printed>>
  BY DEF SeekBack
<1>2. proc[p] \in Locals /\ AtWork(proc[p]) /\ offset \in Nat
  BY Here
<1>3. offset' \in Nat
  BY <1>1, <1>2 DEF SlotBefore, RootAt
<1>4. "tell" \in Stages /\ "tell" \notin DirStages
  BY StageNames DEF DirStages
<1>5. Writes(proc[p])
  BY <1>1, <1>2 DEF AtWork, WriteStages
<1>6. Go(p, "tell") \in Locals /\ AtWork(Go(p, "tell")) /\ Later(proc[p], Go(p, "tell"))
  BY <1>1, <1>4, <1>5, Ranks, GoKeeps
<1> QED
  BY <1>1, <1>3, <1>6, QuietGoes

(* The process goes on, and keeps another position or another cluster.     *)
LEMMA KeepGoes ==
  ASSUME NEW p \in Procs, NEW g \in Locals, AtWork(g), Later(proc[p], g),
         g.at \notin DirStages \cup {"allocFat"},
         NEW d \in Slots \cup {AfterRoot}, NEW x \in Clusters \cup {0, EndOfChain}
  PROVE  LET q == [g EXCEPT !.dir_entry_offset = d]
             r == [g EXCEPT !.fat_ptr = x]
         IN  /\ q \in Locals /\ AtWork(q) /\ Later(proc[p], q)
             /\ r \in Locals /\ AtWork(r) /\ Later(proc[p], r)
<1> DEFINE q == [g EXCEPT !.dir_entry_offset = d]
           r == [g EXCEPT !.fat_ptr = x]
<1>1. /\ q \in Locals /\ q.at = g.at /\ q.sought = g.sought /\ q.job = g.job
      /\ q.i = g.i /\ q.cluster = g.cluster /\ q.entry = g.entry
  BY DEF Locals
<1>2. /\ r \in Locals /\ r.at = g.at /\ r.sought = g.sought /\ r.job = g.job
      /\ r.i = g.i /\ r.cluster = g.cluster /\ r.entry = g.entry
  BY DEF Locals
<1> HIDE DEF q, r
<1>3. AtWork(q) /\ Later(proc[p], q)
  BY <1>1 DEF AtWork, Writes, Later
<1>4. AtWork(r) /\ Later(proc[p], r)
  BY <1>2 DEF AtWork, Writes, Later
<1> QED
  BY <1>1, <1>2, <1>3, <1>4 DEF q, r

LEMMA TellGoes ==
  ASSUME AInv, NEW p \in Procs, Tell(p)
  PROVE  AInv' /\ Later(proc[p], proc'[p])
<1> DEFINE d == SlotBefore + 1
           g == Go(p, "putBack")
<1>1. /\ proc[p].at = "tell" /\ d \in Slots /\ UNCHANGED <<disk, offset, foreground, printed>>
      /\ Continue(p, [g EXCEPT !.dir_entry_offset = d])
  BY DEF Tell
<1>2. proc[p] \in Locals /\ AtWork(proc[p]) /\ offset \in Nat
  BY Here
<1>3. "putBack" \in Stages /\ "putBack" \notin DirStages
  BY StageNames DEF DirStages
<1>4. Writes(proc[p])
  BY <1>1, <1>2 DEF AtWork, WriteStages
<1>5. g \in Locals /\ AtWork(g) /\ Later(proc[p], g) /\ g.at = "putBack"
  BY <1>1, <1>2, <1>3, <1>4, Ranks, GoKeeps, GoFacts
<1> HIDE DEF d, g
<1>6. LET q == [g EXCEPT !.dir_entry_offset = d]
      IN  q \in Locals /\ AtWork(q) /\ Later(proc[p], q)
  BY <1>1, <1>3, <1>5, KeepGoes
<1> QED
  BY <1>1, <1>2, <1>6, QuietGoes

LEMMA KeepOffsetGoes ==
  ASSUME AInv, NEW p \in Procs, KeepOffset(p)
  PROVE  AInv' /\ Later(proc[p], proc'[p])
<1> DEFINE d == SlotBefore
           at == IF Writes(proc[p]) THEN "begin" ELSE "place"
           g == Go(p, at)
<1>1. /\ proc[p].at = "keep" /\ d \in Slots \cup {AfterRoot}
      /\ UNCHANGED <<disk, offset, foreground, printed>>
      /\ Continue(p, [g EXCEPT !.dir_entry_offset = d])
  BY DEF KeepOffset
<1>2. proc[p] \in Locals /\ AtWork(proc[p]) /\ offset \in Nat
  BY Here
<1>3. at \in Stages /\ at \notin DirStages \cup {"allocFat"}
  BY StageNames DEF DirStages
<1>4. ~Writes(proc[p]) => Taken(proc[p].cluster)
  BY <1>1, <1>2 DEF AtWork
<1>5. AtWork(g) /\ Later(proc[p], g)
  <2>1. Rank(proc[p].at) < Rank(at)
    BY <1>1, Ranks
  <2>2. at \in WriteStages => Writes(proc[p])
    BY DEF WriteStages
  <2> QED
    BY <1>1, <1>3, <1>4, <2>1, <2>2, GoKeeps
<1>6. g \in Locals /\ g.at = at
  BY <1>2, <1>3, GoFacts
<1> HIDE DEF d, g, at
<1>7. LET q == [g EXCEPT !.dir_entry_offset = d]
      IN  q \in Locals /\ AtWork(q) /\ Later(proc[p], q)
  BY <1>1, <1>3, <1>5, <1>6, KeepGoes
<1> QED
  BY <1>1, <1>2, <1>7, QuietGoes

-----------------------------------------------------------------------------
(* fat16_write and fat16_read.                                             *)

LEMMA BeginWriteGoes ==
  ASSUME AInv, NEW p \in Procs, BeginWrite(p)
  PROVE  AInv' /\ Later(proc[p], proc'[p])
<1> DEFINE e == EntryAt(proc[p].dir_entry_offset)
<1>1. /\ proc[p].at = "begin" /\ offset' = offset + 1
      /\ UNCHANGED <<disk, foreground, printed>>
      /\ Continue(p, IF e.cluster = 0 THEN Go(p, "alloc")
                     ELSE [Go(p, "place") EXCEPT !.cluster = e.cluster])
  BY DEF BeginWrite, Transfer
<1>2. proc[p] \in Locals /\ AtWork(proc[p]) /\ offset \in Nat
  BY Here
<1>3. Writes(proc[p]) /\ offset' \in Nat
  BY <1>1, <1>2 DEF AtWork, WriteStages
<1>4. /\ "alloc" \in Stages /\ "place" \in Stages
      /\ "alloc" \notin DirStages /\ "place" \notin DirStages \cup WriteStages
  BY StageNames DEF DirStages, WriteStages
<1>5. CASE e.cluster = 0
  <2>1. Go(p, "alloc") \in Locals /\ AtWork(Go(p, "alloc")) /\ Later(proc[p], Go(p, "alloc"))
    BY <1>1, <1>3, <1>4, Ranks, GoKeeps
  <2> QED
    BY <1>1, <1>3, <1>5, <2>1, QuietGoes
<1>6. CASE e.cluster # 0
  <2> DEFINE g == Go(p, "place")
             q == [g EXCEPT !.cluster = e.cluster]
  <2>1. Leads(e)
    BY <1>2 DEF AInv, AllLead, EntryAt, Locals
  <2>2. Taken(e.cluster) /\ e.cluster \in Clusters
    BY <1>6, <2>1 DEF Leads, Taken
  <2>3. g \in Locals /\ g.at = "place" /\ g.job = proc[p].job /\ g.entry = proc[p].entry
    BY <1>2, <1>4, GoFacts
  <2>4. Continue(p, q)
    BY <1>1, <1>6
  <2> HIDE DEF g
  <2>5. /\ q \in Locals /\ q.at = "place" /\ q.job = proc[p].job
        /\ q.entry = proc[p].entry /\ q.cluster = e.cluster
    BY <2>2, <2>3 DEF Locals
  <2> HIDE DEF q
  <2>6. AtWork(q)
    BY <1>1, <1>2, <1>4, <2>2, <2>5 DEF AtWork
  <2>7. Later(proc[p], q)
    BY <1>1, <2>5, Ranks DEF Later
  <2> QED
    BY <1>1, <1>3, <2>4, <2>5, <2>6, <2>7, QuietGoes
<1> QED
  BY <1>5, <1>6

LEMMA AllocateGoes ==
  ASSUME AInv, NEW p \in Procs, allocate_cluster(p)
  PROVE  AInv' /\ Later(proc[p], proc'[p])
<1> DEFINE c == proc[p].cluster
           g == Go(p, "allocFat")
           h == Go(p, "takeFat")
<1>1. /\ proc[p].at = "allocFat" /\ offset' = offset + 1
      /\ UNCHANGED <<disk, foreground, printed>>
      /\ Continue(p, IF fat[c] = Free THEN h
                     ELSE IF c = LastCluster THEN Ended(p)
                     ELSE [g EXCEPT !.cluster = c + 1])
  BY DEF allocate_cluster, Transfer
<1>2. proc[p] \in Locals /\ AtWork(proc[p]) /\ offset \in Nat
  BY Here
<1>3. Writes(proc[p]) /\ offset' \in Nat /\ c \in Clusters
      /\ proc[p].job \in ShellJobs \cup KidJobs /\ Leads(proc[p].entry)
  BY <1>1, <1>2 DEF AtWork, WriteStages
<1>4. /\ "allocFat" \in Stages /\ "takeFat" \in Stages
      /\ "allocFat" \notin DirStages /\ "takeFat" \notin DirStages
  BY StageNames DEF DirStages
<1>5. CASE Continue(p, h)
  <2>1. /\ h \in Locals /\ h.at = "takeFat" /\ h.job = proc[p].job
        /\ h.cluster = c /\ h.entry = proc[p].entry
    BY <1>2, <1>4, GoFacts
  <2> HIDE DEF h
  <2>2. AtWork(h)
    BY <1>3, <1>4, <2>1 DEF AtWork, Writes
  <2>3. Later(proc[p], h)
    BY <1>1, <2>1, Ranks DEF Later
  <2> QED
    BY <1>1, <1>3, <1>5, <2>1, <2>2, <2>3, QuietGoes
<1>6. CASE Continue(p, Ended(p))
  <2>1. Ended(p) \in Locals /\ AtWork(Ended(p)) /\ Later(proc[p], Ended(p))
    BY <1>1, EndedGoes
  <2> QED
    BY <1>1, <1>3, <1>6, <2>1, QuietGoes
<1>7. CASE c # LastCluster /\ Continue(p, [g EXCEPT !.cluster = c + 1])
  <2> DEFINE q == [g EXCEPT !.cluster = c + 1]
  <2>1. c + 1 \in Clusters
    BY <1>3, <1>7
  <2>2. g \in Locals /\ g.at = "allocFat" /\ g.job = proc[p].job /\ g.entry = proc[p].entry
    BY <1>2, <1>4, GoFacts
  <2> HIDE DEF g
  <2>3. /\ q \in Locals /\ q.at = "allocFat" /\ q.job = proc[p].job
        /\ q.entry = proc[p].entry /\ q.cluster = c + 1
    BY <2>1, <2>2 DEF Locals
  <2>4. Continue(p, q)
    BY <1>7
  <2> HIDE DEF q
  <2>5. AtWork(q)
    BY <1>3, <1>4, <2>1, <2>3 DEF AtWork, Writes
  <2>6. Later(proc[p], q)
    BY <1>1, <1>3, <1>4, <2>3 DEF Later
  <2> QED
    BY <1>1, <1>3, <2>3, <2>4, <2>5, <2>6, QuietGoes
<1> QED
  BY <1>1, <1>5, <1>6, <1>7

LEMMA WriteNothingGoes ==
  ASSUME AInv, NEW p \in Procs, WriteNothing(p)
  PROVE  AInv' /\ Later(proc[p], proc'[p])
<1>1. /\ proc[p].at = "data" /\ proc[p].job.what = ">"
      /\ UNCHANGED <<disk, offset, foreground, printed>>
      /\ Continue(p, Go(p, "seal"))
  BY DEF WriteNothing
<1>2. AtWork(proc[p]) /\ offset \in Nat
  BY Here
<1>3. Writes(proc[p]) /\ Taken(proc[p].cluster)
  BY <1>1, <1>2 DEF Writes, AtWork
<1>4. "seal" \in Stages /\ "seal" \notin DirStages
  BY StageNames DEF DirStages
<1>5. Go(p, "seal") \in Locals /\ AtWork(Go(p, "seal")) /\ Later(proc[p], Go(p, "seal"))
  BY <1>1, <1>3, <1>4, Ranks, GoKeeps
<1> QED
  BY <1>1, <1>2, <1>5, QuietGoes

(* No read goes on: what is kept in fat_ptr ends the loop of cat.          *)
LEMMA ReadFatGoes ==
  ASSUME AInv, NEW p \in Procs, ReadFat(p)
  PROVE  AInv' /\ Later(proc[p], proc'[p])
<1>1. /\ proc[p].at = "nextFat" /\ offset' = offset + 1
      /\ UNCHANGED <<disk, foreground, printed>>
      /\ Continue(p, AfterRead(p, EndOfChain))
  BY DEF ReadFat, Transfer
<1>2. offset' \in Nat
  BY <1>1, Here
<1> DEFINE q == [Ended(p) EXCEPT !.fat_ptr = EndOfChain]
<1>3. AfterRead(p, EndOfChain) = q
  BY DEF AfterRead, EndOfChain, Eof
<1>4. q \in Locals /\ AtWork(q) /\ Later(proc[p], q)
  BY <1>1, EndedGoes
<1> HIDE DEF q
<1> QED
  BY <1>1, <1>2, <1>3, <1>4, QuietGoes

(* A transfer that prints.                                                 *)
LEMMA PrintGoes ==
  ASSUME AInv, NEW p \in Procs, NEW q \in Locals, AtWork(q), Later(proc[p], q),
         Continue(p, q), UNCHANGED <<disk, foreground>>, offset' = offset + 1,
         NEW x \in ShownNames \cup Data \cup {Blank, "entry"},
         printed' \in {printed, Append(printed, x)}
  PROVE  AInv' /\ Later(proc[p], proc'[p])
<1>1. proc' = [proc EXCEPT ![p] = q]
  BY DEF Continue
<1>2. printed' \in Seq(ShownNames \cup Data \cup {Blank, "entry"})
  <2>1. printed \in Seq(ShownNames \cup Data \cup {Blank, "entry"})
    BY Here
  <2> QED
    BY <2>1
<1>3. offset' \in Nat
  BY Here
<1>4. AInv' /\ proc'[p] = q
  BY <1>1, <1>2, <1>3, QuietKeeps
<1> QED
  BY <1>4

LEMMA ReadDataGoes ==
  ASSUME AInv, NEW p \in Procs, ReadData(p)
  PROVE  AInv' /\ Later(proc[p], proc'[p])
<1>1. /\ proc[p].at = "data" /\ offset' = offset + 1
      /\ UNCHANGED <<disk, foreground>>
      /\ printed' = IF p = Shell THEN Append(printed, content[proc[p].cluster]) ELSE printed
      /\ Continue(p, Go(p, "next"))
  BY DEF ReadData, Transfer
<1>2. AtWork(proc[p])
  BY Here
<1>3. content[proc[p].cluster] \in ShownNames \cup Data \cup {Blank, "entry"}
  BY <1>1, <1>2 DEF AtWork, Taken, AInv, TypeOK
<1>4. "next" \in Stages /\ "next" \notin DirStages \cup WriteStages
  BY StageNames DEF DirStages, WriteStages
<1>5. Go(p, "next") \in Locals /\ AtWork(Go(p, "next")) /\ Later(proc[p], Go(p, "next"))
  <2>1. Rank(proc[p].at) < Rank("next")
    BY <1>1, Ranks
  <2> QED
    BY <1>1, <1>4, <2>1, GoKeeps
<1> QED
  BY <1>1, <1>3, <1>5, PrintGoes

LEMMA ReaddirGoes ==
  ASSUME AInv, NEW p \in Procs, fat16_readdir(p)
  PROVE  AInv' /\ Later(proc[p], proc'[p])
<1> DEFINE found == IF proc[p].i = AfterRoot THEN content[2] ELSE root[proc[p].i].name
<1>1. /\ proc[p].at = "list" /\ offset' = offset + 1
      /\ UNCHANGED <<disk, foreground>>
  BY DEF fat16_readdir, Transfer
<1>2. AtWork(proc[p]) /\ proc[p].at \in DirStages
  BY <1>1, Here DEF DirStages
<1>3. proc[p].i \in Slots \cup {AfterRoot}
  BY <1>2 DEF AtWork
<1>4. found \in {Unused} \cup (ShownNames \cup Data \cup {Blank, "entry"})
  <2>1. CASE proc[p].i = AfterRoot
    BY <2>1, Constants DEF AInv, TypeOK
  <2>2. CASE proc[p].i # AfterRoot
    <3>1. root[proc[p].i] \in Entries
      BY <1>3, <2>2 DEF AInv, TypeOK
    <3> QED
      BY <2>2, <3>1 DEF Entries
  <2> QED
    BY <2>1, <2>2
<1>5. \/ /\ Continue(p, Ended(p))
         /\ UNCHANGED printed
      \/ /\ found \notin {Unused, Blank}
         /\ Continue(p, IF proc[p].i = AfterRoot THEN Ended(p) ELSE ReadNext(p))
         /\ printed' = Append(printed, found)
  BY DEF fat16_readdir
<1> HIDE DEF found
<1>6. Ended(p) \in Locals /\ AtWork(Ended(p)) /\ Later(proc[p], Ended(p))
  BY <1>1, EndedGoes
<1>7. CASE Continue(p, Ended(p)) /\ UNCHANGED printed
  <2>1. Blank \in ShownNames \cup Data \cup {Blank, "entry"}
    OBVIOUS
  <2> QED
    BY <1>1, <1>6, <1>7, <2>1, PrintGoes
<1>8. CASE /\ found \notin {Unused, Blank}
           /\ Continue(p, IF proc[p].i = AfterRoot THEN Ended(p) ELSE ReadNext(p))
           /\ printed' = Append(printed, found)
  <2>1. found \in ShownNames \cup Data \cup {Blank, "entry"}
    BY <1>4, <1>8
  <2>2. CASE proc[p].i = AfterRoot
    BY <1>1, <1>6, <1>8, <2>1, <2>2, PrintGoes
  <2>3. CASE proc[p].i # AfterRoot
    <3>1. /\ ReadNext(p) \in Locals /\ AtWork(ReadNext(p))
          /\ Later(proc[p], ReadNext(p))
      BY <1>1, <1>2, <1>3, <2>3, ReadNextGoes
    <3> QED
      BY <1>1, <1>8, <2>1, <2>3, <3>1, PrintGoes
  <2> QED
    BY <2>2, <2>3
<1> QED
  BY <1>5, <1>7, <1>8

-----------------------------------------------------------------------------
(* Writes to the disk.                                                     *)

LEMMA WriteFatGoes ==
  ASSUME AInv, NEW p \in Procs, WriteFat(p)
  PROVE  AInv' /\ Later(proc[p], proc'[p])
<1> DEFINE c == proc[p].cluster
           at == AfterFat(proc[p].at)
           g == Go(p, at)
<1>1. /\ proc[p].at \in FatWrites /\ offset' = offset + 1
      /\ proc' = [proc EXCEPT ![p] = g]
      /\ fat' = [fat EXCEPT ![c] = Eof]
      /\ UNCHANGED <<root, content, spilled, spoilt, foreground, printed>>
  BY DEF WriteFat, Transfer, Continue
<1>2. proc[p] \in Locals /\ AtWork(proc[p]) /\ offset \in Nat
  BY Here
<1>3. /\ Writes(proc[p]) /\ c \in Clusters
      /\ proc[p].job \in ShellJobs \cup KidJobs /\ Leads(proc[p].entry)
  BY <1>1, <1>2 DEF AtWork, WriteStages, FatWrites, Taken
<1>4. at \in Stages /\ at \notin DirStages \cup {"allocFat", "takeFat"}
  BY <1>1, StageNames DEF AfterFat, FatWrites, DirStages
<1>5. Rank(proc[p].at) < Rank(at)
  BY <1>1, Ranks DEF AfterFat, FatWrites
<1>6. PICK q \in Locals :
         /\ q = g /\ q.at = at /\ q.job = proc[p].job /\ q.cluster = c
         /\ q.entry = proc[p].entry
  BY <1>2, <1>4, GoFacts
<1>7. /\ fat' \in [Clusters -> {Free, Eof}]
      /\ \A x : x = c \/ Taken(x) => Taken(x)'
  BY <1>1, <1>3 DEF AInv, TypeOK, Taken
<1> HIDE DEF g, at, c
<1>8. AllLead' /\ \A e : Leads(e) => Leads(e)'
  BY <1>1, <1>7 DEF AInv, AllLead, Leads
<1>9. AtWork(q)'
  BY <1>3, <1>4, <1>6, <1>7, <1>8 DEF AtWork, Writes
<1>10. TypeOK /\ offset' \in Nat
  BY <1>1, <1>2 DEF AInv
<1>11. AInv' /\ proc'[p] = q
  BY <1>1, <1>6, <1>7, <1>8, <1>9, <1>10, WriteKeeps DEF TypeOK
<1> QED
  BY <1>5, <1>6, <1>11 DEF Later

LEMMA WriteDataGoes ==
  ASSUME AInv, NEW p \in Procs, WriteData(p)
  PROVE  AInv' /\ Later(proc[p], proc'[p])
<1> DEFINE g == Go(p, "seal")
<1>1. /\ proc[p].at = "data" /\ proc[p].job.what = "write" /\ offset' = offset + 1
      /\ proc' = [proc EXCEPT ![p] = g]
      /\ content' = [content EXCEPT ![proc[p].cluster] = proc[p].job.data]
      /\ UNCHANGED <<fat, root, spilled, spoilt, foreground, printed>>
  BY DEF WriteData, Transfer, Continue
<1>2. AtWork(proc[p]) /\ offset \in Nat
  BY Here
<1>3. /\ Writes(proc[p]) /\ Taken(proc[p].cluster) /\ proc[p].cluster \in Clusters
      /\ proc[p].job.data \in Data
  BY <1>1, <1>2, JobNames DEF Writes, AtWork, Taken
<1>4. "seal" \in Stages /\ "seal" \notin DirStages
  BY StageNames DEF DirStages
<1>5. PICK q \in Locals : q = g /\ AtWork(q) /\ Later(proc[p], q)
  BY <1>1, <1>3, <1>4, Ranks, GoKeeps
<1> HIDE DEF g
<1>6. TypeOK /\ AllLead /\ offset' \in Nat
  BY <1>1, <1>2 DEF AInv
<1>7. content' \in [Clusters -> Data \cup {Blank, "entry"}]
  BY <1>1, <1>3, <1>6 DEF TypeOK
<1>8. AllLead' /\ AtWork(q)' /\ \A x : Taken(x) => Taken(x)'
  BY <1>1, <1>5, <1>6 DEF AllLead, Leads, AtWork, Taken
<1>9. AInv' /\ proc'[p] = q
  BY <1>1, <1>5, <1>6, <1>7, <1>8, WriteKeeps DEF TypeOK
<1> QED
  BY <1>5, <1>9

(* A proper entry is written, in the directory or behind it.               *)
LEMMA WriteEntryGoes ==
  ASSUME AInv, NEW p \in Procs, NEW q \in Locals, AtWork(q), Later(proc[p], q),
         Continue(p, q), offset' = offset + 1,
         NEW e \in Entries, Leads(e), WriteEntry(proc[p].dir_entry_offset, e),
         UNCHANGED <<fat, foreground, printed>>
  PROVE  AInv' /\ Later(proc[p], proc'[p])
<1> DEFINE d == proc[p].dir_entry_offset
<1>1. proc' = [proc EXCEPT ![p] = q] /\ offset' \in Nat
  BY Here DEF Continue
<1>2. TypeOK /\ AllLead /\ d \in Slots \cup {AfterRoot}
  BY Here DEF AInv, Locals
<1>3. /\ root' \in [Slots -> Entries] /\ spilled' \in Entries /\ spoilt' \in BOOLEAN
      /\ content' \in [Clusters -> Data \cup {Blank, "entry"}]
      /\ spilled' \in {spilled, e} /\ \A i \in Slots : root'[i] \in {root[i], e}
  <2>1. CASE d = AfterRoot
    BY <1>2, <2>1 DEF TypeOK, WriteEntry
  <2>2. CASE d # AfterRoot
    BY <1>2, <2>2 DEF TypeOK, WriteEntry
  <2> QED
    BY <2>1, <2>2
<1>4. \A x : Leads(x) => Leads(x)'
  BY DEF Leads, Taken
<1>5. AllLead'
  BY <1>2, <1>3, <1>4 DEF AllLead, Leads, Taken
<1>6. AtWork(q)' /\ \A x : Taken(x) => Taken(x)'
  BY <1>4 DEF AtWork, Taken
<1>7. AInv' /\ proc'[p] = q
  BY <1>1, <1>2, <1>3, <1>5, <1>6, WriteKeeps DEF TypeOK
<1> QED
  BY <1>7

LEMMA PutBackGoes ==
  ASSUME AInv, NEW p \in Procs, PutBack(p)
  PROVE  AInv' /\ Later(proc[p], proc'[p])
<1>1. /\ proc[p].at = "putBack" /\ offset' = offset + 1
      /\ Continue(p, IF proc[p].cluster # 0 THEN Go(p, "keep")
                     ELSE [Go(p, "begin") EXCEPT !.fat_ptr = 0])
      /\ WriteEntry(proc[p].dir_entry_offset, proc[p].entry)
      /\ UNCHANGED <<fat, foreground, printed>>
  BY DEF PutBack, Transfer
<1>2. proc[p] \in Locals /\ AtWork(proc[p])
  BY Here
<1>3. Writes(proc[p]) /\ proc[p].entry \in Entries /\ Leads(proc[p].entry)
  BY <1>1, <1>2 DEF AtWork, WriteStages, Locals
<1>4. /\ "keep" \in Stages /\ "begin" \in Stages
      /\ "keep" \notin DirStages /\ "begin" \notin DirStages \cup {"allocFat"}
  BY StageNames DEF DirStages
<1>5. /\ Go(p, "keep") \in Locals /\ AtWork(Go(p, "keep")) /\ Later(proc[p], Go(p, "keep"))
  BY <1>1, <1>3, <1>4, Ranks, GoKeeps
<1>6. LET r == [Go(p, "begin") EXCEPT !.fat_ptr = 0]
      IN  r \in Locals /\ AtWork(r) /\ Later(proc[p], r)
  <2> DEFINE g == Go(p, "begin")
  <2>1. AtWork(g) /\ Later(proc[p], g)
    BY <1>1, <1>3, <1>4, Ranks, GoKeeps
  <2>2. g \in Locals /\ g.at = "begin"
    BY <1>2, <1>4, GoFacts
  <2> HIDE DEF g
  <2>3. LET r == [g EXCEPT !.fat_ptr = 0]
        IN  r \in Locals /\ AtWork(r) /\ Later(proc[p], r)
    BY <1>4, <2>1, <2>2, KeepGoes
  <2> QED
    BY <2>3 DEF g
<1>7. CASE proc[p].cluster # 0
  BY <1>1, <1>3, <1>5, <1>7, WriteEntryGoes
<1>8. CASE proc[p].cluster = 0
  BY <1>1, <1>3, <1>6, <1>8, WriteEntryGoes
<1> QED
  BY <1>7, <1>8

LEMMA FinishWriteGoes ==
  ASSUME AInv, NEW p \in Procs, FinishWrite(p)
  PROVE  AInv' /\ Later(proc[p], proc'[p])
<1> DEFINE e == Entry(Shown[proc[p].job.name], proc[p].cluster)
<1>1. /\ proc[p].at = "entry" /\ offset' = offset + 1
      /\ Continue(p, Ended(p)) /\ WriteEntry(proc[p].dir_entry_offset, e)
      /\ UNCHANGED <<fat, foreground, printed>>
  BY DEF FinishWrite, Transfer
<1>2. AtWork(proc[p])
  BY Here
<1>3. /\ Writes(proc[p]) /\ Taken(proc[p].cluster) /\ proc[p].cluster \in Clusters
      /\ proc[p].job \in ShellJobs \cup KidJobs
  BY <1>1, <1>2 DEF AtWork, Taken, WriteStages
<1>4. Shown[proc[p].job.name] \in ShownNames
  BY <1>3, JobNames, NameFacts DEF Writes
<1>5. e \in Entries /\ Leads(e)
  BY <1>3, <1>4 DEF Entry, Entries, Leads
<1>6. Ended(p) \in Locals /\ AtWork(Ended(p)) /\ Later(proc[p], Ended(p))
  BY <1>1, EndedGoes
<1> HIDE DEF e
<1> QED
  BY <1>1, <1>5, <1>6, WriteEntryGoes

-----------------------------------------------------------------------------
(* Commands and processes.                                                 *)

LEMMA StepGoes ==
  ASSUME AInv, NEW p \in Procs, Step(p)
  PROVE  AInv' /\ Later(proc[p], proc'[p])
BY SeekGoes, ReadBootGoes, FindFileGoes, FindFreeGoes, SeekBackGoes, TellGoes,
   PutBackGoes, KeepOffsetGoes, BeginWriteGoes, AllocateGoes, WriteFatGoes,
   WriteDataGoes, WriteNothingGoes, FinishWriteGoes, ReadDataGoes, ReadFatGoes,
   ReaddirGoes DEF Step

(* What a process that goes astray was about to do is left open.           *)
LEMMA GoesAstrayGoes ==
  ASSUME AInv, NEW p \in Procs, GoesAstray(p)
  PROVE  AInv' /\ Later(proc[p], proc'[p]) /\ \A r \in Procs : r = p \/ proc'[r] = proc[r]
<1> DEFINE q == Go(p, "astray")
<1>1. /\ proc[p].at \in Transfers \cup {"back", "tell", "keep"}
      /\ Continue(p, q) /\ UNCHANGED <<disk, offset, foreground, printed>>
  BY DEF GoesAstray, OffsetFits
<1>2. proc[p] \in Locals /\ offset \in Nat /\ "astray" \in Stages
  BY Here, StageNames
<1>3. proc[p].at \in Stages \ {"exec", "idle", "astray"}
  BY <1>1, StageNames
     DEF Transfers, BootStages, FatStages, FatWrites, DirStages, EntryStages
<1>4. Rank(proc[p].at) < Rank("astray")
  BY <1>3, Ranks, StageNames
<1>5. q \in Locals /\ AtWork(q) /\ Later(proc[p], q)
  BY <1>2, <1>3, <1>4, GoKeeps DEF DirStages, WriteStages
<1> HIDE DEF q
<1>6. AInv' /\ Later(proc[p], proc'[p])
  BY <1>1, <1>2, <1>5, QuietGoes
<1>7. proc' = [proc EXCEPT ![p] = q] /\ proc \in [Procs -> Locals]
  BY <1>1 DEF Continue, AInv, TypeOK
<1> QED
  BY <1>6, <1>7

(* A process changes its own variables only.                               *)
LEMMA StepAlone ==
  ASSUME NEW p \in Procs, Step(p), proc \in [Procs -> Locals],
         NEW r \in Procs, r # p
  PROVE  proc'[r] = proc[r]
<1>1. \E q : proc' = [proc EXCEPT ![p] = q]
  <2>1. CASE Seek(p)
    BY <2>1, Zenon DEF Seek
  <2>2. CASE ReadBoot(p)
    BY <2>2, Zenon DEF ReadBoot, Continue
  <2>3. CASE find_file(p)
    BY <2>3 DEF find_file, Continue
  <2>4. CASE find_free_root_entry(p)
    BY <2>4 DEF find_free_root_entry, Continue
  <2>5. CASE SeekBack(p) \/ Tell(p) \/ KeepOffset(p)
    BY <2>5 DEF SeekBack, Tell, KeepOffset, Continue
  <2>6. CASE PutBack(p) \/ BeginWrite(p) \/ allocate_cluster(p)
    BY <2>6 DEF PutBack, BeginWrite, allocate_cluster, Continue
  <2>7. CASE WriteFat(p) \/ WriteData(p) \/ WriteNothing(p) \/ FinishWrite(p)
    BY <2>7 DEF WriteFat, WriteData, WriteNothing, FinishWrite, Continue
  <2>8. CASE ReadData(p) \/ ReadFat(p)
    BY <2>8 DEF ReadData, ReadFat, Continue
  <2>9. CASE fat16_readdir(p)
    BY <2>9 DEF fat16_readdir, Continue
  <2> QED
    BY <2>1, <2>2, <2>3, <2>4, <2>5, <2>6, <2>7, <2>8, <2>9 DEF Step
<1> QED
  BY <1>1

(* Steps that start and end processes leave the disk alone.                *)
LEMMA ProcessesKeep ==
  ASSUME AInv, UNCHANGED disk, offset' \in Nat, foreground' \in Procs,
         printed' = <<>> \/ UNCHANGED printed,
         proc' \in [Procs -> Locals],
         \A p \in Procs : AtWork(proc'[p]) \/ proc'[p] = proc[p]
  PROVE  AInv'
<1>1. TypeOK'
  <2>1. printed \in Seq(ShownNames \cup Data \cup {Blank, "entry"})
    BY DEF AInv, TypeOK
  <2>2. printed' \in Seq(ShownNames \cup Data \cup {Blank, "entry"})
    <3>1. <<>> \in Seq(ShownNames \cup Data \cup {Blank, "entry"})
      OBVIOUS
    <3> QED
      BY <2>1, <3>1, Zenon
  <2> QED
    BY <2>2 DEF AInv, TypeOK, disk
<1>2. AllLead'
  BY DEF AInv, AllLead, Leads, Taken, disk
<1>3. ASSUME NEW r, AtWork(r) PROVE AtWork(r)'
  BY <1>3 DEF AtWork, Leads, Taken, disk
<1>4. ASSUME NEW p \in Procs PROVE AtWork(proc[p])'
  BY <1>3, <1>4 DEF AInv
<1> QED
  BY <1>1, <1>2, <1>4 DEF AInv

LEMMA IdleAtWork == AtWork(Idle)
<1>1. Idle.at = "idle" /\ Idle.entry = Entry(Unused, 0)
  BY DEF Idle
<1> QED
  BY <1>1 DEF AtWork, Leads, Entry, WriteStages, DirStages

(* A command begins in the process p, with the variables of the shell.     *)
LEMMA BeginsAtWork ==
  ASSUME AInv, NEW j \in ShellJobs \cup KidJobs, NEW at \in {"dir", "find"}
  PROVE  LET q == [proc[Shell] EXCEPT !.at = at, !.job = j]
         IN  q \in Locals /\ AtWork(q)
<1> DEFINE q == [proc[Shell] EXCEPT !.at = at, !.job = j]
<1>1. Shell \in Procs
  BY DEF Procs
<1>2. proc[Shell] \in Locals /\ AtWork(proc[Shell])
  BY <1>1, Here
<1>3. at \in Stages
  BY StageNames
<1>4. q \in Locals /\ q.at = at /\ q.job = j /\ q.entry = proc[Shell].entry
  BY <1>2, <1>3 DEF Locals
<1> HIDE DEF q
<1>5. AtWork(q)
  BY <1>2, <1>4 DEF AtWork, WriteStages, DirStages
<1> QED
  BY <1>4, <1>5 DEF q

LEMMA RunGoes ==
  ASSUME AInv, NEW j \in ShellJobs, NEW at \in {"dir", "find"}, Run(j, at)
  PROVE  /\ AInv' /\ proc[Shell].at = "idle"
         /\ \A p \in Procs : p # Shell => proc'[p] = proc[p]
<1> DEFINE q == [proc[Shell] EXCEPT !.at = at, !.job = j]
<1>1. /\ proc[Shell].at = "idle" /\ proc' = [proc EXCEPT ![Shell] = q]
      /\ printed' = <<>> /\ UNCHANGED <<disk, offset, foreground>>
  BY DEF Run, Prompt, Continue
<1>2. q \in Locals /\ AtWork(q)
  BY BeginsAtWork
<1> HIDE DEF q
<1>3. proc \in [Procs -> Locals] /\ offset \in Nat /\ foreground \in Procs
  BY DEF AInv, TypeOK
<1>4. /\ proc' \in [Procs -> Locals]
      /\ \A p \in Procs : proc'[p] = IF p = Shell THEN q ELSE proc[p]
  BY <1>1, <1>2, <1>3
<1> QED
  BY <1>1, <1>2, <1>3, <1>4, ProcessesKeep

LEMMA ExecuteCommandGoes ==
  ASSUME AInv, NEW k \in Kids, NEW j \in KidJobs, NEW background \in BOOLEAN,
         execute_command(k, j, background)
  PROVE  /\ AInv' /\ proc[Shell].at = "idle" /\ proc[k].at = "idle"
         /\ \A p \in Procs : p \notin {Shell, k} => proc'[p] = proc[p]
<1> DEFINE q == [proc[Shell] EXCEPT !.at = "find", !.job = j]
           s == [proc[Shell] EXCEPT !.job = NoJob]
<1>1. /\ proc[Shell].at = "idle" /\ proc[k].at = "idle"
      /\ proc' = [proc EXCEPT ![k] = q, ![Shell].job = NoJob]
      /\ foreground' = (IF background THEN Shell ELSE k) /\ printed' = <<>>
      /\ UNCHANGED <<disk, offset>>
  BY DEF execute_command, Prompt
<1>2. k # Shell /\ k \in Procs /\ Shell \in Procs
  BY KidsAssumption DEF Procs
<1>3. q \in Locals /\ AtWork(q)
  BY BeginsAtWork
<1>4. proc[Shell] \in Locals /\ AtWork(proc[Shell])
  BY <1>2, Here
<1>5. s \in Locals /\ s.at = "idle" /\ s.entry = proc[Shell].entry
  BY <1>1, <1>4 DEF Locals
<1>6. proc \in [Procs -> Locals] /\ offset \in Nat
  BY DEF AInv, TypeOK
<1> HIDE DEF q
<1>7. \A p \in Procs : proc'[p] = IF p = Shell THEN s ELSE IF p = k THEN q ELSE proc[p]
  BY <1>1, <1>2, <1>6
<1> HIDE DEF s
<1>8. AtWork(s)
  BY <1>4, <1>5 DEF AtWork, WriteStages, DirStages
<1>9. proc' \in [Procs -> Locals]
  <2>1. DOMAIN proc' = Procs /\ proc' = [p \in DOMAIN proc' |-> proc'[p]]
    BY <1>1, <1>6
  <2> QED
    BY <1>3, <1>5, <1>6, <1>7, <2>1
<1>10. foreground' \in Procs
  BY <1>1, <1>2
<1> QED
  BY <1>1, <1>3, <1>6, <1>7, <1>8, <1>9, <1>10, ProcessesKeep

LEMMA KidEndsGoes ==
  ASSUME AInv, NEW k \in Kids, KidEnds(k)
  PROVE  /\ AInv' /\ proc'[k] = Idle
         /\ \A p \in Procs : p # k => proc'[p] = proc[p]
<1>1. /\ proc' = [proc EXCEPT ![k] = Idle]
      /\ foreground' \in {Shell, foreground}
      /\ UNCHANGED <<disk, offset, printed>>
  BY DEF KidEnds
<1>2. k \in Procs /\ Shell \in Procs
  BY DEF Procs
<1>3. proc \in [Procs -> Locals] /\ offset \in Nat /\ foreground \in Procs
  BY DEF AInv, TypeOK
<1>4. /\ proc' \in [Procs -> Locals]
      /\ \A p \in Procs : proc'[p] = IF p = k THEN Idle ELSE proc[p]
  BY <1>1, <1>2, <1>3, IdleFacts
<1> QED
  BY <1>1, <1>2, <1>3, <1>4, IdleAtWork, ProcessesKeep

LEMMA CrashGoes ==
  ASSUME AInv, Crash
  PROVE  AInv' /\ \A p \in Procs : proc'[p] = Idle
<1>1. /\ offset' = Boot /\ proc' = [p \in Procs |-> Idle]
      /\ foreground' = Shell /\ printed' = <<>> /\ UNCHANGED disk
  BY DEF Crash
<1>2. /\ proc' \in [Procs -> Locals] /\ \A p \in Procs : proc'[p] = Idle
      /\ offset' \in Nat /\ foreground' \in Procs
  BY <1>1, IdleFacts DEF Boot, Procs
<1> QED
  BY <1>1, <1>2, IdleAtWork, ProcessesKeep

LEMMA NextGoes ==
  ASSUME AInv, Next
  PROVE  AInv' /\ \A p \in Procs : Onward(p)
<1>1. proc \in [Procs -> Locals] /\ Shell \in Procs
  BY DEF AInv, TypeOK, Procs
<1>2. ASSUME NEW p \in Procs PROVE Step(p) => Later(proc[p], proc'[p])
  BY <1>2, StepGoes
<1>3. ASSUME NEW p \in Procs, Step(p)
      PROVE  AInv' /\ \A r \in Procs : r = p \/ proc'[r] = proc[r]
  BY <1>1, <1>3, StepGoes, StepAlone
<1>4. ASSUME NEW j \in ShellJobs, NEW at \in {"dir", "find"}, Run(j, at)
      PROVE  AInv' /\ \A r \in Procs : proc'[r] = proc[r] \/ proc[r].at = "idle"
  BY <1>4, RunGoes
<1>5. ASSUME ls_command
      PROVE  AInv' /\ \A r \in Procs : proc'[r] = proc[r] \/ proc[r].at = "idle"
  BY <1>4, <1>5, CommandJobs DEF ls_command
<1>6. ASSUME NEW n \in Names, cat_command(n) \/ read_command(n)
      PROVE  AInv' /\ \A r \in Procs : proc'[r] = proc[r] \/ proc[r].at = "idle"
  BY <1>4, <1>6, CommandJobs DEF cat_command, read_command
<1>7. ASSUME NEW n \in Names, NEW d \in Data, write_command(n, d)
      PROVE  AInv' /\ \A r \in Procs : proc'[r] = proc[r] \/ proc[r].at = "idle"
  BY <1>4, <1>7, CommandJobs DEF write_command
<1>8. ASSUME NEW k \in Kids, NEW j \in KidJobs, NEW background \in {FALSE, Background},
             execute_command(k, j, background)
      PROVE  AInv' /\ \A r \in Procs : proc'[r] = proc[r] \/ proc[r].at = "idle"
  BY <1>8, ExecuteCommandGoes, BackgroundAssumption
<1>9. ASSUME NEW k \in Kids, KidEnds(k)
      PROVE  AInv' /\ \A r \in Procs : proc'[r] = proc[r] \/ proc'[r] = Idle
  BY <1>9, KidEndsGoes
<1>10. ASSUME Crash
       PROVE  AInv' /\ \A r \in Procs : proc'[r] = Idle
  BY <1>10, CrashGoes
<1>11. ASSUME NEW p \in Procs, GoesAstray(p)
       PROVE  AInv' /\ \A r \in Procs : proc'[r] = proc[r] \/ Later(proc[r], proc'[r])
  BY <1>11, GoesAstrayGoes
<1>12. AInv' /\ \A r \in Procs : \/ proc'[r] = proc[r] \/ Later(proc[r], proc'[r])
                                 \/ proc[r].at = "idle" \/ proc'[r] = Idle
  BY <1>2, <1>3, <1>5, <1>6, <1>7, <1>8, <1>9, <1>10, <1>11 DEF Next
<1> QED
  BY <1>2, <1>12 DEF Onward

LEMMA SharedInvariant == Spec => []AInv
<1>1. Init => AInv
  <2> SUFFICES ASSUME Init PROVE AInv
    OBVIOUS
  <2>1. TypeOK /\ proc = [p \in Procs |-> Idle]
    BY InitIInv DEF IInv, Init
  <2>2. \A p \in Procs : AtWork(proc[p])
    BY <2>1, IdleAtWork
  <2>3. AllLead
    BY DEF Init, AllLead, Leads, Entry
  <2> QED
    BY <2>1, <2>2, <2>3 DEF AInv
<1>2. AInv /\ [Next]_vars => AInv'
  <2> SUFFICES ASSUME AInv, UNCHANGED vars PROVE AInv'
    BY NextGoes
  <2>1. UNCHANGED <<disk, offset, proc, foreground, printed>>
    BY DEF vars
  <2>2. offset' \in Nat /\ foreground' \in Procs /\ proc' \in [Procs -> Locals]
    BY <2>1 DEF AInv, TypeOK
  <2> QED
    BY <2>1, <2>2, ProcessesKeep
<1> QED
  BY <1>1, <1>2, PTL DEF Spec

-----------------------------------------------------------------------------
(* Every variable stays in its type, also when a child in the background   *)
(* works on the disk together with the shell.                              *)
THEOREM SharedTypes == Spec => []TypeOK
<1>1. AInv => TypeOK
  BY DEF AInv
<1> QED
  BY <1>1, SharedInvariant, PTL

(* Whoever shares the offset, takes a cluster or an entry that another is  *)
(* about to take, and is cut off wherever: as long as no transfer has gone *)
(* astray, an entry in use leads to a cluster that is taken in the FAT.    *)
THEOREM EntriesKeepClusters == Spec => []EntriesLead
<1>1. AInv => EntriesLead
  BY DEF AInv, EntriesLead, AllLead
<1> QED
  BY <1>1, SharedInvariant, PTL

(* Without background children every command comes nearer to its end with  *)
(* every system call: in no loop of the driver or of cat does a process    *)
(* come back to where it was, and none goes astray.                        *)
THEOREM CommandsGoOn ==
  ~Background =>
     (Spec => [][\A p \in Procs : Onward(p) /\ proc'[p].at # "astray"]_vars)
<1> SUFFICES ASSUME ~Background
             PROVE  Spec => [][\A p \in Procs : Onward(p) /\ proc'[p].at # "astray"]_vars
  OBVIOUS
<1>1. AInv /\ [Next]_vars => [\A p \in Procs : Onward(p)]_vars
  BY NextGoes
<1>2. (~Astray)' => \A p \in Procs : proc'[p].at # "astray"
  BY DEF Astray
<1>3. AInv /\ [Next]_vars /\ (~Astray)' =>
         [\A p \in Procs : Onward(p) /\ proc'[p].at # "astray"]_vars
  BY <1>1, <1>2
<1>4. Spec => []~Astray
  BY NothingGoesAstray
<1> QED
  BY <1>3, <1>4, SharedInvariant, PTL DEF Spec

=============================================================================
