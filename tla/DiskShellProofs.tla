-------------------------- MODULE DiskShellProofs ---------------------------
(***************************************************************************)
(* What TLAPS proves of DiskShell, for any size of the disk and of its     *)
(* root directory and for any names, data and children, as long as no      *)
(* child runs in the background.                                           *)
(***************************************************************************)
EXTENDS DiskShell, TLAPS

USE RootAssumption, ClusterAssumption DEF Slots, AfterRoot, Clusters

LEMMA Constants ==
  /\ Slots \cup {AfterRoot} \subseteq Nat
  /\ AfterRoot \notin Slots
  /\ RootEntries \in Slots
  /\ 2 \in Clusters
  /\ 0 \notin Clusters
  /\ EndOfChain >= Eof
  /\ \A i \in Int : RootAt(i) \in Int
BY DEF EndOfChain, Eof, RootAt

LEMMA JobNames ==
  \A j \in ShellJobs \cup KidJobs :
     /\ j.what # "ls" => j.name \in Names
     /\ j.what = "write" => j.data \in Data
     /\ j.what # "write" => j.data = Blank
BY DEF ShellJobs, KidJobs, Job

LEMMA NameFacts ==
  /\ \A n \in Names : Shown[n] \in ShownNames
  /\ Unused \notin Names
  /\ Unused \notin ShownNames
  /\ Blank \notin ShownNames
BY NamesAssumption DEF ShownNames

(* Visible depends on the directory and the clusters alone.                *)
LEMMA DiskUnchanged ==
  ASSUME UNCHANGED <<root, content>>
  PROVE  \A n : Visible(n)' = Visible(n)
BY DEF Visible, IsFound

(* The child that acts is the one in the foreground.                       *)
LEMMA ActsAlone ==
  ASSUME IInv, NEW p \in Procs, proc[p].at # "idle"
  PROVE  /\ p = foreground
         /\ p # Shell => proc[Shell].job = NoJob /\ proc[Shell].at = "idle"
BY DEF IInv, Turns, Procs

(* A step of the process at work that leaves the disk alone.               *)
LEMMA QuietStep ==
  ASSUME IInv, NEW p \in Procs, p = foreground,
         NEW q \in Locals, proc' = [proc EXCEPT ![p] = q],
         UNCHANGED <<disk, foreground, printed>>,
         offset' \in Nat,
         q.sought => offset' = Aim(q),
         q.at = "idle" => q.job.what # "ls",
         InPlace(q)'
  PROVE  IInv'
<1> USE DEF IInv
<1>1. proc'[p] = q /\ \A r \in Procs : r # p => proc'[r] = proc[r]
  BY DEF TypeOK
<1>2. TypeOK'
  BY DEF TypeOK, disk
<1>3. Turns'
  BY <1>1 DEF Turns
<1>4. OnCourse'
  BY <1>1, <1>3 DEF OnCourse, Turns, Aim
<1>5. DiskIsInOrder' /\ Directory'
  BY DEF DiskIsInOrder, Directory, disk, Used, Taken
<1>6. LsIsComplete'
  BY <1>1 DEF LsIsComplete, disk, Used, Procs
<1>7. Me' = q
  BY <1>1 DEF Me
<1>8. InPlace(Me)'
  BY <1>7 DEF InPlace, Fits, Scans, Places, Owns, Finds, Prints
<1> QED
  BY <1>2, <1>3, <1>4, <1>5, <1>6, <1>8

(* At work, the process keeps to its place.                                *)
LEMMA InItsPlace ==
  ASSUME IInv, NEW p \in Procs, proc[p].at # "idle"
  PROVE  /\ p = foreground
         /\ proc[p] \in Locals
         /\ Fits(proc[p]) /\ Scans(proc[p]) /\ Places(proc[p])
         /\ Owns(proc[p]) /\ Finds(proc[p]) /\ Prints(proc[p])
BY ActsAlone DEF IInv, TypeOK, InPlace, Me

(* Most of the place of a process does not depend on the offset.           *)
LEMMA SamePlace ==
  ASSUME NEW q, UNCHANGED <<disk, foreground, printed>>,
         Fits(q), Scans(q), Owns(q), Prints(q), Places(q)', Finds(q)'
  PROVE  InPlace(q)'
<1>1. Fits(q)' BY DEF Fits
<1>2. Scans(q)' BY DEF Scans, disk, Used
<1>3. Owns(q)' BY DEF Owns, disk, Taken, FirstFree, Used, InSpill
<1>4. Prints(q)' BY DEF Prints, disk
<1> QED BY <1>1, <1>2, <1>3, <1>4 DEF InPlace

-----------------------------------------------------------------------------
(* Steps that leave the disk alone.                                        *)

LEMMA AimInNat ==
  ASSUME NEW q \in Locals
  PROVE  Aim(q) \in Nat
<1>1. q.i \in Nat /\ q.cluster \in Nat /\ q.dir_entry_offset \in Nat
  BY DEF Locals
<1> QED
  BY <1>1 DEF Aim, Boot, FatAt, RootAt, ClusterAt

(* Away from the places that the offset decides, it does not matter.       *)
LEMMA SameFile ==
  ASSUME NEW q, UNCHANGED disk, q.at \notin {"back", "tell", "keep"}
  PROVE  /\ Places(q) => Places(q)'
         /\ Finds(q) => Finds(q)'
<1>1. UNCHANGED <<fat, root, content, spilled, spoilt>>
  BY DEF disk
<1>2. Places(q) => Places(q)'
  BY <1>1 DEF Places, FirstFree, InSpill, Used
<1>3. \A n : Visible(n)' = Visible(n)
  BY <1>1, DiskUnchanged
<1>4. Finds(q) => Finds(q)'
  BY <1>1, <1>3 DEF Finds, IsFound
<1> QED BY <1>2, <1>4

LEMMA SeekStep ==
  ASSUME IInv, NEW p \in Procs, Seek(p)
  PROVE  IInv'
<1>1. proc[p].at \in Transfers /\ proc[p].at # "idle"
  BY DEF Seek, Transfers, BootStages, FatStages, FatWrites, DirStages, EntryStages
<1>2. /\ p = foreground /\ proc[p] \in Locals
      /\ Fits(proc[p]) /\ Scans(proc[p]) /\ Places(proc[p])
      /\ Owns(proc[p]) /\ Finds(proc[p]) /\ Prints(proc[p])
  BY <1>1, InItsPlace
<1>3. PICK q \in Locals : q = [proc[p] EXCEPT !.sought = TRUE]
  BY <1>2 DEF Locals
<1>4. /\ q.at = proc[p].at /\ q.sought /\ q.job = proc[p].job /\ q.i = proc[p].i
      /\ q.cluster = proc[p].cluster /\ q.entry = proc[p].entry
      /\ q.dir_entry_offset = proc[p].dir_entry_offset
  BY <1>2, <1>3 DEF Locals
<1>5. UNCHANGED <<disk, foreground, printed>> /\ proc' = [proc EXCEPT ![p] = q]
  BY <1>3 DEF Seek
<1>6. offset' = Aim(q)
  BY <1>4 DEF Seek, Aim
<1>7. offset' \in Nat
  BY <1>6, AimInNat
<1>8. Fits(q) /\ Scans(q) /\ Owns(q) /\ Prints(q)
  <2>1. Fits(q) BY <1>1, <1>2, <1>4 DEF Fits, Writes
  <2>2. Scans(q) BY <1>2, <1>4 DEF Scans
  <2>3. Owns(q) BY <1>2, <1>4 DEF Owns, Writes, InSpill
  <2>4. Prints(q) BY <1>2, <1>4 DEF Prints, Writes
  <2> QED BY <2>1, <2>2, <2>3, <2>4
<1>9. Places(q) /\ Finds(q)
  <2>1. Places(q) BY <1>2, <1>4 DEF Places, Writes, InSpill
  <2>2. Finds(q) BY <1>2, <1>4 DEF Finds, Writes
  <2> QED BY <2>1, <2>2
<1>10. q.at \notin {"back", "tell", "keep", "idle"}
  BY <1>1, <1>4 DEF Transfers, BootStages, FatStages, FatWrites, DirStages, EntryStages
<1>11. Places(q)' /\ Finds(q)'
  BY <1>5, <1>9, <1>10, SameFile
<1> QED
  BY <1>2, <1>5, <1>6, <1>7, <1>8, <1>10, <1>11, SamePlace, QuietStep

(* The variables of a process that goes on, or whose call has ended.       *)
LEMMA GoFacts ==
  ASSUME NEW p \in Procs, proc[p] \in Locals, NEW at \in Stages
  PROVE  LET q == Go(p, at)
         IN  /\ q \in Locals
             /\ q.at = at /\ ~q.sought /\ q.job = proc[p].job /\ q.i = proc[p].i
             /\ q.cluster = proc[p].cluster /\ q.entry = proc[p].entry
             /\ q.fat_ptr = proc[p].fat_ptr
             /\ q.dir_entry_offset = proc[p].dir_entry_offset
BY DEF Go, Locals

LEMMA GoesOn ==
  ASSUME NEW p \in Procs, proc[p] \in Locals, NEW at \in Stages,
         proc' = [proc EXCEPT ![p] = Go(p, at)]
  PROVE  \E q \in Locals :
            /\ proc' = [proc EXCEPT ![p] = q]
            /\ q.at = at /\ ~q.sought /\ q.job = proc[p].job
            /\ q.cluster = proc[p].cluster
            /\ q.dir_entry_offset = proc[p].dir_entry_offset
<1> DEFINE g == Go(p, at)
<1>1. g \in Locals /\ g.at = at /\ ~g.sought /\ g.job = proc[p].job
      /\ g.cluster = proc[p].cluster
      /\ g.dir_entry_offset = proc[p].dir_entry_offset
  BY GoFacts
<1>2. proc' = [proc EXCEPT ![p] = g]
  OBVIOUS
<1> HIDE DEF g
<1> QED
  BY <1>1, <1>2

LEMMA ReadBootStep ==
  ASSUME IInv, NEW p \in Procs, ReadBoot(p)
  PROVE  IInv'
<1> DEFINE at == proc[p].at
<1>1. at \in BootStages
  BY DEF ReadBoot, Transfer
<1>2. /\ p = foreground /\ proc[p] \in Locals
      /\ Fits(proc[p]) /\ Scans(proc[p]) /\ Places(proc[p])
      /\ Owns(proc[p]) /\ Finds(proc[p]) /\ Prints(proc[p])
  BY <1>1, InItsPlace DEF BootStages
<1>3. AfterBoot(at) \in Stages
  BY <1>1 DEF AfterBoot, BootStages, Stages, Transfers, FatStages, FatWrites, DirStages, EntryStages
<1>4. PICK q \in Locals :
        /\ proc' = [proc EXCEPT ![p] = q]
        /\ q.at = AfterBoot(at) /\ ~q.sought /\ q.job = proc[p].job
        /\ q.i = IF at \in {"find", "free", "dir"} THEN 1 ELSE proc[p].i
        /\ q.cluster = IF at = "alloc" THEN 2 ELSE proc[p].cluster
        /\ q.dir_entry_offset = proc[p].dir_entry_offset
  <2> DEFINE g == Go(p, AfterBoot(at))
             q == CASE at \in {"find", "free", "dir"} -> [g EXCEPT !.i = 1]
                    [] at = "alloc" -> [g EXCEPT !.cluster = 2]
                    [] OTHER -> g
  <2>1. /\ g \in Locals
        /\ g.at = AfterBoot(at) /\ ~g.sought /\ g.job = proc[p].job /\ g.i = proc[p].i
        /\ g.cluster = proc[p].cluster
        /\ g.dir_entry_offset = proc[p].dir_entry_offset
    BY <1>2, <1>3, GoFacts
  <2>2. proc' = [proc EXCEPT ![p] = q]
    BY DEF ReadBoot, Continue
  <2> HIDE DEF g
  <2>3. q \in Locals
    BY <2>1, Constants DEF Locals
  <2>4. /\ q.at = AfterBoot(at) /\ ~q.sought /\ q.job = proc[p].job
        /\ q.i = IF at \in {"find", "free", "dir"} THEN 1 ELSE proc[p].i
        /\ q.cluster = IF at = "alloc" THEN 2 ELSE proc[p].cluster
        /\ q.dir_entry_offset = proc[p].dir_entry_offset
    BY <2>1 DEF Locals
  <2> QED
    BY <2>2, <2>3, <2>4
<1>5. UNCHANGED <<disk, foreground, printed>> /\ offset' \in Nat
  BY DEF ReadBoot, Transfer, IInv, TypeOK
<1>6. q.at \notin {"back", "tell", "keep", "idle"}
  BY <1>1, <1>4 DEF AfterBoot, BootStages
<1> HIDE DEF at
<1>7. Fits(q)
  <2>1. /\ AfterBoot(at) \in WriteStages => at \in WriteStages
        /\ AfterBoot(at) \in ReadStages => at \in ReadStages
        /\ AfterBoot(at) \in {"dir", "list"} <=> at \in {"dir", "list"}
        /\ AfterBoot(at) \notin {"idle", "exec", "astray"} /\ at \notin {"idle", "exec"}
    BY <1>1 DEF AfterBoot, BootStages, WriteStages, ReadStages
  <2> QED
    BY <1>2, <1>4, <2>1 DEF at, Fits, Writes
<1>8. Scans(q)
  BY <1>1, <1>2, <1>4, Constants DEF at, Scans, AfterBoot, BootStages, DirStages
<1>9. Owns(q)
  <2>1. q.job = proc[p].job /\ q.dir_entry_offset = proc[p].dir_entry_offset
    BY <1>4
  <2>2. q.at = "allocFat" => q.cluster \in Clusters
    BY <1>1, <1>4, Constants DEF AfterBoot, BootStages
  <2>3. /\ q.at \notin {"cut", "takeFat", "mark", "place", "seal", "entry"}
        /\ q.at = "cutFat" => at = "cut"
        /\ q.at = "markFat" => at = "mark"
        /\ q.at = "data" => at = "place"
        /\ q.at = "sealFat" => at = "seal"
        /\ q.at \in {"cutFat", "markFat", "data", "sealFat"} => q.cluster = proc[p].cluster
    BY <1>1, <1>4 DEF AfterBoot, BootStages
  <2> QED
    BY <1>2, <2>1, <2>2, <2>3 DEF at, Owns, InSpill, Writes
<1>10. Prints(q)
  <2>1. at = "dir" => foreground = Shell
    BY <1>2 DEF at, Fits, KidJobs, Job
  <2>2. q.at = "list" => q.i = 1 /\ printed = <<>>
    BY <1>1, <1>2, <1>4, <2>1 DEF at, Prints, Fits, Writes, AfterBoot, BootStages
  <2>3. q.at \in {"dir", "find", "findEntry", "keep", "place", "data"} =>
          at \in {"find", "place"}
    BY <1>1, <1>4 DEF AfterBoot, BootStages
  <2> QED
    BY <1>2, <1>4, <2>2, <2>3 DEF at, Prints, Writes
<1>11. Places(q)
  BY <1>1, <1>2, <1>4 DEF at, Places, InSpill, Writes, AfterBoot, BootStages
<1>12. Finds(q)
  BY <1>1, <1>2, <1>4 DEF at, Finds, Writes, AfterBoot, BootStages, ReadStages
<1>13. Places(q)' /\ Finds(q)'
  BY <1>5, <1>6, <1>11, <1>12, SameFile
<1> QED
  BY <1>2, <1>4, <1>5, <1>6, <1>7, <1>8, <1>9, <1>10, <1>13, SamePlace, QuietStep

LEMMA ReadNextFacts ==
  ASSUME NEW p \in Procs, proc[p] \in Locals, proc[p].i \in Slots
  PROVE  LET q == ReadNext(p)
         IN  /\ q \in Locals
             /\ q.at = proc[p].at /\ q.sought = proc[p].sought /\ q.job = proc[p].job
             /\ q.i = proc[p].i + 1 /\ q.cluster = proc[p].cluster
BY DEF ReadNext, Locals

LEMMA AimFacts ==
  ASSUME NEW q
  PROVE  /\ q.at \in FatStages => Aim(q) = FatAt(q.cluster)
         /\ q.at \in DirStages => Aim(q) = RootAt(q.i)
         /\ q.at \in EntryStages => Aim(q) = RootAt(q.dir_entry_offset)
         /\ q.at = "data" => Aim(q) = ClusterAt(q.cluster)
BY DEF Aim, BootStages, FatStages, FatWrites, DirStages, EntryStages

LEMMA IdleFacts ==
  /\ Idle \in Locals
  /\ Idle.at = "idle" /\ ~Idle.sought /\ Idle.job = NoJob /\ Idle.i = 0 /\ Idle.cluster = 0
<1>1. /\ "idle" \in Stages /\ 0 \in 0 .. AfterRoot /\ 1 \in Slots
      /\ Entry(Unused, 0) \in Entries
  BY DEF Stages, Entry, Entries
<1> QED
  BY <1>1 DEF Idle, Locals

LEMMA EndedFacts ==
  ASSUME IInv, NEW p \in Procs, proc[p].at # "idle"
  PROVE  LET q == Ended(p)
         IN  /\ q \in Locals
             /\ q.at = (IF p = Shell THEN "idle" ELSE "exec")
             /\ ~q.sought /\ q.job = proc[p].job /\ q.fat_ptr = proc[p].fat_ptr
             /\ q.cluster = 0 /\ q.i = 0
             /\ q.dir_entry_offset = proc[p].dir_entry_offset
             /\ Fits(q) /\ Scans(q) /\ Places(q) /\ Owns(q) /\ Finds(q) /\ Prints(q)
<1> DEFINE q == Ended(p)
<1>1. proc[p] \in Locals /\ Fits(proc[p]) /\ p = foreground
  BY InItsPlace
<1>2. (IF p = Shell THEN "idle" ELSE "exec") \in {"idle", "exec"}
  OBVIOUS
<1>3. /\ q \in Locals
      /\ q.at = (IF p = Shell THEN "idle" ELSE "exec")
      /\ ~q.sought /\ q.job = proc[p].job /\ q.fat_ptr = proc[p].fat_ptr
      /\ q.cluster = 0 /\ q.i = 0
      /\ q.dir_entry_offset = proc[p].dir_entry_offset
  <2>1. "idle" \in Stages /\ "exec" \in Stages
    BY DEF Stages
  <2>2. /\ proc[p].job \in ShellJobs \cup KidJobs \cup {NoJob}
        /\ proc[p].fat_ptr \in Clusters \cup {0, EndOfChain}
        /\ proc[p].dir_entry_offset \in Slots \cup {AfterRoot}
    BY <1>1 DEF Locals
  <2> QED
    BY <1>2, <2>1, <2>2, IdleFacts DEF Ended, Locals
<1> HIDE DEF q
<1>4. Fits(q)
  BY <1>1, <1>3 DEF Fits, WriteStages, ReadStages
<1>5. Scans(q) /\ Places(q) /\ Owns(q) /\ Finds(q) /\ Prints(q)
  BY <1>3 DEF Scans, Places, Owns, Finds, Prints, DirStages, ReadStages
<1> QED
  BY <1>3, <1>4, <1>5 DEF q

(* The end of a call that left the disk alone.                             *)
LEMMA QuietEnd ==
  ASSUME IInv, NEW p \in Procs, proc[p].at # "idle", proc[p].job.what # "ls",
         proc' = [proc EXCEPT ![p] = Ended(p)],
         UNCHANGED <<disk, foreground, printed>>, offset' \in Nat
  PROVE  IInv'
<1>1. PICK q \in Locals :
        /\ proc' = [proc EXCEPT ![p] = q]
        /\ q.at \in {"idle", "exec"} /\ ~q.sought /\ q.job = proc[p].job
        /\ Fits(q) /\ Scans(q) /\ Places(q) /\ Owns(q) /\ Finds(q) /\ Prints(q)
  BY EndedFacts
<1>2. Places(q)' /\ Finds(q)'
  BY <1>1, SameFile
<1>3. InPlace(q)'
  BY <1>1, <1>2, SamePlace
<1> QED
  BY <1>1, <1>3, QuietStep, ActsAlone

(* find_file finds one entry only.                                         *)
LEMMA VisibleFacts ==
  ASSUME NEW n, NEW i \in Slots, IsFound(n, i)
  PROVE  Visible(n) = content[root[i].cluster]
<1>1. ASSUME NEW j \in Slots, IsFound(n, j) PROVE j = i
  <2>1. CASE i < j
    BY <1>1, <2>1 DEF IsFound
  <2>2. CASE j < i
    BY <1>1, <2>2 DEF IsFound
  <2> QED BY <2>1, <2>2
<1> QED
  BY <1>1 DEF Visible

LEMMA FindFileStep ==
  ASSUME IInv, NEW p \in Procs, find_file(p)
  PROVE  IInv'
<1> DEFINE e == root[proc[p].i]
<1>1. /\ proc[p].at = "findEntry" /\ proc[p].sought
      /\ offset = Aim(proc[p]) /\ offset' = offset + 1
      /\ UNCHANGED <<disk, foreground, printed>>
  BY DEF find_file, Transfer
<1>2. /\ p = foreground /\ proc[p] \in Locals
      /\ Fits(proc[p]) /\ Scans(proc[p]) /\ Places(proc[p])
      /\ Owns(proc[p]) /\ Finds(proc[p]) /\ Prints(proc[p])
  BY <1>1, InItsPlace
<1>3. offset = RootAt(proc[p].i) /\ offset \in Nat /\ offset' \in Nat
  <2>1. Aim(proc[p]) = RootAt(proc[p].i)
    BY <1>1, AimFacts DEF DirStages
  <2>2. offset \in Nat
    BY DEF IInv, TypeOK
  <2> QED BY <1>1, <2>1, <2>2
<1>4. /\ proc[p].i \in Slots
      /\ \A j \in 1 .. proc[p].i - 1 : Used(j) /\ root[j].name # proc[p].job.name
  BY <1>1, <1>2 DEF Scans, DirStages
<1>5. /\ proc[p].job.what # "ls" /\ proc[p].job.name \in Names
      /\ proc[p].job.name # Unused
  BY <1>1, <1>2, JobNames, NameFacts DEF Fits
<1>6. ASSUME e.name = proc[p].job.name,
             Continue(p, [Go(p, IF Writes(proc[p]) THEN "cut" ELSE "keep")
                             EXCEPT !.fat_ptr = e.cluster, !.cluster = e.cluster])
      PROVE  IInv'
  <2>1. e \in Entries
    BY <1>4 DEF IInv, TypeOK
  <2>2. PICK q \in Locals :
          /\ proc' = [proc EXCEPT ![p] = q]
          /\ q.at = (IF Writes(proc[p]) THEN "cut" ELSE "keep")
          /\ ~q.sought /\ q.job = proc[p].job /\ q.cluster = e.cluster
    <3> DEFINE g == Go(p, IF Writes(proc[p]) THEN "cut" ELSE "keep")
               q == [g EXCEPT !.fat_ptr = e.cluster, !.cluster = e.cluster]
    <3>1. g \in Locals /\ g.at = (IF Writes(proc[p]) THEN "cut" ELSE "keep")
          /\ ~g.sought /\ g.job = proc[p].job
      BY <1>2, GoFacts DEF Stages, Transfers, BootStages
    <3>2. proc' = [proc EXCEPT ![p] = q]
      BY <1>6 DEF Continue
    <3> HIDE DEF g
    <3>3. q \in Locals /\ q.at = g.at /\ ~q.sought /\ q.job = g.job /\ q.cluster = e.cluster
      BY <2>1, <3>1 DEF Locals, Entries
    <3> QED BY <3>1, <3>2, <3>3
  <2>3. Taken(e.cluster)
    BY <1>4, <1>5, <1>6, <2>1, Constants DEF IInv, DiskIsInOrder, Used, Taken, Entries
  <2>4. Writes(q) <=> Writes(proc[p])
    BY <2>2 DEF Writes
  <2>5. Fits(q)
    BY <1>1, <1>2, <1>5, <2>2, <2>4 DEF Fits, WriteStages, ReadStages
  <2>6. Scans(q) /\ Owns(q)
    BY <2>2, <2>3, <2>4 DEF Scans, Owns, DirStages
  <2>7. Prints(q)
    BY <1>1, <1>2, <2>2 DEF Prints
  <2>8. IsFound(q.job.name, proc[p].i)
    BY <1>4, <1>5, <1>6, <2>2 DEF IsFound, Used
  <2>9. Finds(q)'
    <3>1. Visible(q.job.name) = content[e.cluster]
      BY <1>4, <2>8, VisibleFacts
    <3>2. Visible(q.job.name)' = Visible(q.job.name)
      BY <1>1, DiskUnchanged DEF disk
    <3>3. UNCHANGED <<root, content>>
      BY <1>1 DEF disk
    <3>4. (\E i \in Slots : IsFound(q.job.name, i))'
      BY <1>4, <2>8, <3>3 DEF IsFound
    <3>5. q.cluster \in Clusters /\ \E i \in Slots : offset' = RootAt(i) + 1
      BY <1>1, <1>3, <1>4, <2>2, <2>3 DEF Taken
    <3>6. (Visible(q.job.name) = content[q.cluster])'
      BY <2>2, <3>1, <3>2, <3>3
    <3> QED
      BY <3>4, <3>5, <3>6 DEF Finds
  <2>10. Places(q)'
    BY <2>2, <2>4 DEF Places, Writes
  <2> QED
    BY <1>1, <1>2, <1>3, <2>2, <2>5, <2>6, <2>7, <2>9, <2>10, SamePlace, QuietStep
<1>7. ASSUME e.name \notin {proc[p].job.name, Unused}, proc[p].i # RootEntries,
             Continue(p, ReadNext(p))
      PROVE  IInv'
  <2>1. PICK q \in Locals :
          /\ proc' = [proc EXCEPT ![p] = q]
          /\ q.at = "findEntry" /\ q.sought /\ q.job = proc[p].job
          /\ q.i = proc[p].i + 1
    BY <1>1, <1>2, <1>4, <1>7, ReadNextFacts DEF Continue
  <2>2. Fits(q)
    BY <1>1, <1>2, <2>1 DEF Fits, Writes, WriteStages, ReadStages
  <2>3. Scans(q)
    BY <1>4, <1>7, <2>1 DEF Scans, Used
  <2>4. Owns(q) /\ Places(q) /\ Finds(q)
    BY <2>1 DEF Owns, Places, Finds, ReadStages
  <2>5. Prints(q)
    BY <1>1, <1>2, <2>1 DEF Prints, Writes
  <2>6. Places(q)' /\ Finds(q)'
    BY <1>1, <2>1, <2>4, SameFile
  <2>7. offset' = Aim(q)
    BY <1>1, <1>3, <1>4, <2>1, AimFacts DEF RootAt, DirStages
  <2> QED
    BY <1>1, <1>2, <1>3, <2>1, <2>2, <2>3, <2>4, <2>5, <2>6, <2>7, SamePlace, QuietStep
<1>8. ASSUME Writes(proc[p]), e.name # proc[p].job.name,
             Continue(p, Go(p, "free"))
      PROVE  IInv'
  <2>1. PICK q \in Locals :
          /\ proc' = [proc EXCEPT ![p] = q]
          /\ q.at = "free" /\ ~q.sought /\ q.job = proc[p].job
    <3>1. "free" \in Stages
      BY DEF Stages, Transfers, BootStages
    <3> QED
      BY <1>2, <1>8, <3>1, GoFacts DEF Continue
  <2>2. Fits(q)
    BY <1>1, <1>2, <1>5, <1>8, <2>1 DEF Fits, Writes, WriteStages, ReadStages
  <2>3. Scans(q) /\ Owns(q) /\ Places(q) /\ Finds(q) /\ Prints(q)
    BY <2>1 DEF Scans, Owns, Places, Finds, Prints, DirStages, ReadStages
  <2>4. Places(q)' /\ Finds(q)'
    BY <1>1, <2>1, <2>3, SameFile
  <2> QED
    BY <1>1, <1>2, <1>3, <2>1, <2>2, <2>3, <2>4, SamePlace, QuietStep
<1>9. ASSUME Continue(p, Ended(p))
      PROVE  IInv'
  BY <1>1, <1>3, <1>5, <1>9, QuietEnd DEF Continue
<1> QED
  BY <1>6, <1>7, <1>8, <1>9 DEF find_file

LEMMA FindFreeStep ==
  ASSUME IInv, NEW p \in Procs, find_free_root_entry(p)
  PROVE  IInv'
<1> DEFINE e == root[proc[p].i]
           read == [proc[p] EXCEPT !.entry = e]
<1>1. /\ proc[p].at = "freeEntry" /\ proc[p].sought
      /\ offset = Aim(proc[p]) /\ offset' = offset + 1
      /\ UNCHANGED <<disk, foreground, printed>>
  BY DEF find_free_root_entry, Transfer
<1>2. /\ p = foreground /\ proc[p] \in Locals
      /\ Fits(proc[p]) /\ Scans(proc[p]) /\ Places(proc[p])
      /\ Owns(proc[p]) /\ Finds(proc[p]) /\ Prints(proc[p])
  BY <1>1, InItsPlace
<1>3. offset = RootAt(proc[p].i) /\ offset \in Nat /\ offset' \in Nat
  <2>1. Aim(proc[p]) = RootAt(proc[p].i)
    BY <1>1, AimFacts DEF DirStages
  <2>2. offset \in Nat
    BY DEF IInv, TypeOK
  <2> QED BY <1>1, <2>1, <2>2
<1>4. /\ proc[p].i \in Slots
      /\ \A j \in 1 .. proc[p].i - 1 : Used(j)
  BY <1>1, <1>2 DEF Scans, DirStages
<1>5. Writes(proc[p]) /\ proc[p].job.what # "ls"
  BY <1>1, <1>2 DEF Fits, WriteStages, Writes
<1>6. e \in Entries
  BY <1>4 DEF IInv, TypeOK
<1>7. UNCHANGED <<fat, root, content, spilled, spoilt>>
  BY <1>1 DEF disk
<1>8. ASSUME e.name = Unused,
             Continue(p, [read EXCEPT !.at = "back", !.sought = FALSE])
      PROVE  IInv'
  <2>1. PICK q \in Locals :
          /\ proc' = [proc EXCEPT ![p] = q]
          /\ q.at = "back" /\ ~q.sought /\ q.job = proc[p].job
          /\ q.i = proc[p].i /\ q.entry = e
    <3> DEFINE q == [read EXCEPT !.at = "back", !.sought = FALSE]
    <3>1. "back" \in Stages
      BY DEF Stages
    <3>2. /\ q \in Locals
          /\ q.at = "back" /\ ~q.sought /\ q.job = proc[p].job
          /\ q.i = proc[p].i /\ q.entry = e
      BY <1>2, <1>6, <3>1 DEF Locals
    <3> QED
      BY <1>8, <3>2 DEF Continue
  <2>2. Fits(q)
    BY <1>1, <1>2, <1>5, <2>1 DEF Fits, Writes, WriteStages, ReadStages
  <2>3. Scans(q) /\ Owns(q) /\ Prints(q)
    BY <2>1 DEF Scans, Owns, Prints, DirStages
  <2>4. FirstFree(q.i)'
    BY <1>4, <1>7, <1>8, <2>1 DEF FirstFree, Used
  <2>5. Places(q)'
    BY <1>1, <1>3, <1>7, <2>1, <2>4 DEF Places
  <2>6. Finds(q)'
    BY <2>1 DEF Finds, ReadStages
  <2> QED
    BY <1>1, <1>2, <1>3, <2>1, <2>2, <2>3, <2>5, <2>6, SamePlace, QuietStep
<1>9. ASSUME e.name # Unused, Continue(p, ReadNext(p)), proc[p].i # RootEntries
      PROVE  IInv'
  <2>1. PICK q \in Locals :
          /\ proc' = [proc EXCEPT ![p] = q]
          /\ q.at = "freeEntry" /\ q.sought /\ q.job = proc[p].job
          /\ q.i = proc[p].i + 1
    BY <1>1, <1>2, <1>4, <1>9, ReadNextFacts DEF Continue
  <2>2. Fits(q)
    BY <1>1, <1>2, <2>1 DEF Fits, Writes, WriteStages, ReadStages
  <2>3. Scans(q)
    BY <1>4, <1>9, <2>1 DEF Scans, Used
  <2>4. Owns(q) /\ Places(q) /\ Finds(q) /\ Prints(q)
    BY <2>1 DEF Owns, Places, Finds, Prints, ReadStages
  <2>5. Places(q)' /\ Finds(q)'
    BY <1>1, <2>1, <2>4, SameFile
  <2>6. offset' = Aim(q)
    BY <1>1, <1>3, <1>4, <2>1, AimFacts DEF RootAt, DirStages
  <2> QED
    BY <1>1, <1>2, <1>3, <2>1, <2>2, <2>3, <2>4, <2>5, <2>6, SamePlace, QuietStep
<1>10. ASSUME Continue(p, Ended(p))
       PROVE  IInv'
  BY <1>1, <1>3, <1>5, <1>10, QuietEnd DEF Continue
<1>11. ASSUME e.name # Unused, proc[p].i = RootEntries, proc[p].cluster # 0,
              Continue(p, [read EXCEPT !.at = "putBack", !.dir_entry_offset = AfterRoot])
       PROVE  IInv'
  <2>1. PICK q \in Locals :
          /\ proc' = [proc EXCEPT ![p] = q]
          /\ q.at = "putBack" /\ q.sought /\ q.job = proc[p].job
          /\ q.cluster = proc[p].cluster
          /\ q.entry = e /\ q.dir_entry_offset = AfterRoot
    <3> DEFINE q == [read EXCEPT !.at = "putBack", !.dir_entry_offset = AfterRoot]
    <3>1. "putBack" \in Stages
      BY DEF Stages, Transfers, EntryStages
    <3>2. /\ q \in Locals
          /\ q.at = "putBack" /\ q.sought /\ q.job = proc[p].job
          /\ q.cluster = proc[p].cluster
          /\ q.entry = e /\ q.dir_entry_offset = AfterRoot
      BY <1>1, <1>2, <1>6, <3>1 DEF Locals
    <3> QED
      BY <1>11, <3>2 DEF Continue
  <2>2. Fits(q)
    BY <1>1, <1>2, <1>5, <2>1
       DEF Fits, Writes, WriteStages, ReadStages, Transfers, EntryStages
  <2>3. Scans(q) /\ Owns(q) /\ Prints(q)
    BY <2>1 DEF Scans, Owns, Prints, DirStages
  <2>4. Places(q) /\ Finds(q)
    BY <1>11, <2>1 DEF Places, Finds, Used, ReadStages
  <2>5. Places(q)' /\ Finds(q)'
    BY <1>1, <2>1, <2>4, SameFile
  <2>6. offset' = Aim(q)
    BY <1>1, <1>3, <1>11, <2>1, AimFacts DEF RootAt, EntryStages
  <2> QED
    BY <1>1, <1>2, <1>3, <2>1, <2>2, <2>3, <2>5, <2>6, SamePlace, QuietStep
<1> QED
  BY <1>8, <1>9, <1>10, <1>11 DEF find_free_root_entry

LEMMA SeekBackStep ==
  ASSUME IInv, NEW p \in Procs, SeekBack(p)
  PROVE  IInv'
<1>1. /\ proc[p].at = "back" /\ offset' = offset - 1
      /\ proc' = [proc EXCEPT ![p] = Go(p, "tell")]
      /\ UNCHANGED <<disk, foreground, printed>>
  BY DEF SeekBack, Continue
<1>2. /\ p = foreground /\ proc[p] \in Locals
      /\ Fits(proc[p]) /\ Scans(proc[p]) /\ Places(proc[p])
      /\ Owns(proc[p]) /\ Finds(proc[p]) /\ Prints(proc[p])
  BY <1>1, InItsPlace
<1>3. /\ FirstFree(proc[p].i) /\ proc[p].entry = root[proc[p].i]
      /\ offset = RootAt(proc[p].i) + 1
  BY <1>1, <1>2 DEF Places
<1>4. PICK q \in Locals :
        /\ proc' = [proc EXCEPT ![p] = q]
        /\ q.at = "tell" /\ ~q.sought /\ q.job = proc[p].job
        /\ q.i = proc[p].i /\ q.entry = proc[p].entry
  <2>1. "tell" \in Stages
    BY DEF Stages
  <2> QED
    BY <1>1, <1>2, <2>1, GoFacts
<1>5. Fits(q)
  BY <1>1, <1>2, <1>4 DEF Fits, Writes, WriteStages, ReadStages
<1>6. Scans(q) /\ Owns(q) /\ Prints(q)
  BY <1>4 DEF Scans, Owns, Prints, DirStages
<1>7. offset' = RootAt(proc[p].i) /\ offset' \in Nat
  BY <1>1, <1>3 DEF RootAt, FirstFree
<1>8. FirstFree(q.i)' /\ (q.entry = root[q.i])'
  BY <1>1, <1>3, <1>4 DEF FirstFree, Used, disk
<1>9. Places(q)'
  BY <1>4, <1>7, <1>8 DEF Places, FirstFree, RootAt
<1>10. Finds(q)'
  BY <1>4 DEF Finds, ReadStages
<1> QED
  BY <1>1, <1>2, <1>4, <1>5, <1>6, <1>7, <1>9, <1>10, SamePlace, QuietStep

LEMMA TellStep ==
  ASSUME IInv, NEW p \in Procs, Tell(p)
  PROVE  IInv'
<1>1. /\ proc[p].at = "tell"
      /\ proc' = [proc EXCEPT ![p] =
                    [Go(p, "putBack") EXCEPT !.dir_entry_offset = SlotBefore + 1]]
      /\ UNCHANGED <<disk, offset, foreground, printed>>
  BY DEF Tell, Continue
<1>2. /\ p = foreground /\ proc[p] \in Locals
      /\ Fits(proc[p]) /\ Scans(proc[p]) /\ Places(proc[p])
      /\ Owns(proc[p]) /\ Finds(proc[p]) /\ Prints(proc[p])
  BY <1>1, InItsPlace
<1>3. /\ FirstFree(proc[p].i) /\ proc[p].entry = root[proc[p].i]
      /\ offset = RootAt(proc[p].i)
  BY <1>1, <1>2 DEF Places, FirstFree, RootAt
<1>4. SlotBefore + 1 = proc[p].i
  BY <1>3 DEF SlotBefore, RootAt, FirstFree
<1>5. PICK q \in Locals :
        /\ proc' = [proc EXCEPT ![p] = q]
        /\ q.at = "putBack" /\ ~q.sought /\ q.job = proc[p].job
        /\ q.dir_entry_offset = proc[p].i /\ q.entry = proc[p].entry
  <2> DEFINE g == Go(p, "putBack")
  <2>1. "putBack" \in Stages
    BY DEF Stages, Transfers, EntryStages
  <2>2. g \in Locals /\ g.at = "putBack" /\ ~g.sought /\ g.job = proc[p].job
        /\ g.entry = proc[p].entry
    BY <1>2, <2>1, GoFacts
  <2>3. proc' = [proc EXCEPT ![p] = [g EXCEPT !.dir_entry_offset = proc[p].i]]
    BY <1>1, <1>4
  <2>4. proc[p].i \in Slots
    BY <1>3 DEF FirstFree
  <2> DEFINE q == [g EXCEPT !.dir_entry_offset = proc[p].i]
  <2> HIDE DEF g
  <2>5. /\ q \in Locals
        /\ q.at = "putBack" /\ ~q.sought /\ q.job = proc[p].job
        /\ q.dir_entry_offset = proc[p].i /\ q.entry = proc[p].entry
    BY <2>2, <2>4 DEF Locals
  <2> QED
    BY <2>3, <2>5
<1>6. Fits(q)
  BY <1>1, <1>2, <1>5 DEF Fits, Writes, WriteStages, ReadStages
<1>7. Scans(q) /\ Owns(q) /\ Prints(q)
  BY <1>5 DEF Scans, Owns, Prints, DirStages
<1>8. Places(q) /\ Finds(q)
  BY <1>3, <1>5 DEF Places, Finds, ReadStages
<1>9. Places(q)' /\ Finds(q)'
  BY <1>1, <1>5, <1>8, SameFile
<1>10. offset' \in Nat
  BY <1>1 DEF IInv, TypeOK
<1> QED
  BY <1>1, <1>2, <1>5, <1>6, <1>7, <1>9, <1>10, SamePlace, QuietStep

LEMMA KeepOffsetStep ==
  ASSUME IInv, NEW p \in Procs, KeepOffset(p)
  PROVE  IInv'
<1>1. /\ proc[p].at = "keep" /\ SlotBefore \in Slots \cup {AfterRoot}
      /\ proc' = [proc EXCEPT ![p] =
                    [Go(p, IF Writes(proc[p]) THEN "begin" ELSE "place")
                        EXCEPT !.dir_entry_offset = SlotBefore]]
      /\ UNCHANGED <<disk, offset, foreground, printed>>
  BY DEF KeepOffset, Continue
<1>2. /\ p = foreground /\ proc[p] \in Locals
      /\ Fits(proc[p]) /\ Scans(proc[p]) /\ Places(proc[p])
      /\ Owns(proc[p]) /\ Finds(proc[p]) /\ Prints(proc[p])
  BY <1>1, InItsPlace
<1>3. PICK q \in Locals :
        /\ proc' = [proc EXCEPT ![p] = q]
        /\ q.at = (IF Writes(proc[p]) THEN "begin" ELSE "place")
        /\ ~q.sought /\ q.job = proc[p].job
        /\ q.cluster = proc[p].cluster /\ q.dir_entry_offset = SlotBefore
  <2> DEFINE g == Go(p, IF Writes(proc[p]) THEN "begin" ELSE "place")
             q == [g EXCEPT !.dir_entry_offset = SlotBefore]
  <2>1. "begin" \in Stages /\ "place" \in Stages
    BY DEF Stages, Transfers, EntryStages, BootStages
  <2>2. g \in Locals /\ g.at = (IF Writes(proc[p]) THEN "begin" ELSE "place")
        /\ ~g.sought /\ g.job = proc[p].job /\ g.cluster = proc[p].cluster
    BY <1>2, <2>1, GoFacts
  <2>3. proc' = [proc EXCEPT ![p] = q]
    BY <1>1
  <2> HIDE DEF g
  <2>4. /\ q \in Locals /\ q.at = g.at
        /\ ~q.sought /\ q.job = g.job
        /\ q.cluster = g.cluster /\ q.dir_entry_offset = SlotBefore
    BY <1>1, <2>2 DEF Locals
  <2> QED
    BY <2>2, <2>3, <2>4
<1>4. Writes(q) <=> Writes(proc[p])
  BY <1>3 DEF Writes
<1>5. Fits(q)
  BY <1>1, <1>2, <1>3, <1>4 DEF Fits, WriteStages, ReadStages
<1>6. Scans(q) /\ Owns(q)
  BY <1>3, <1>4 DEF Scans, Owns, DirStages
<1>7. Prints(q)
  BY <1>1, <1>2, <1>3 DEF Prints
<1>8. Places(q)
  <2>1. ASSUME Writes(q)
        PROVE  FirstFree(q.dir_entry_offset) \/ InSpill(q)
    <3>1. /\ FirstFree(proc[p].dir_entry_offset) \/ InSpill(proc[p])
          /\ offset = RootAt(proc[p].dir_entry_offset) + 1
      BY <1>1, <1>2, <1>4, <2>1 DEF Places
    <3>2. proc[p].dir_entry_offset \in Nat
      BY <1>2 DEF Locals
    <3>3. SlotBefore = proc[p].dir_entry_offset
      BY <3>1, <3>2 DEF SlotBefore, RootAt
    <3> QED
      BY <1>3, <3>1, <3>3 DEF InSpill
  <2> QED
    BY <1>3, <1>4, <2>1 DEF Places
<1>9. Finds(q)
  BY <1>1, <1>2, <1>3, <1>4 DEF Finds, ReadStages
<1>10. q.at \notin {"back", "tell", "keep", "idle"}
  BY <1>3
<1>11. Places(q)' /\ Finds(q)'
  BY <1>1, <1>8, <1>9, <1>10, SameFile
<1>12. offset' \in Nat
  BY <1>1 DEF IInv, TypeOK
<1> QED
  BY <1>1, <1>2, <1>3, <1>5, <1>6, <1>7, <1>10, <1>11, <1>12, SamePlace, QuietStep

LEMMA BeginWriteStep ==
  ASSUME IInv, NEW p \in Procs, BeginWrite(p)
  PROVE  IInv'
<1> DEFINE e == EntryAt(proc[p].dir_entry_offset)
<1>1. /\ proc[p].at = "begin" /\ offset' = offset + 1
      /\ proc' = [proc EXCEPT ![p] = IF e.cluster = 0 THEN Go(p, "alloc")
                                     ELSE [Go(p, "place") EXCEPT !.cluster = e.cluster]]
      /\ UNCHANGED <<disk, foreground, printed>>
  BY DEF BeginWrite, Transfer, Continue
<1>2. /\ p = foreground /\ proc[p] \in Locals
      /\ Fits(proc[p]) /\ Scans(proc[p]) /\ Places(proc[p])
      /\ Owns(proc[p]) /\ Finds(proc[p]) /\ Prints(proc[p])
  BY <1>1, InItsPlace
<1>3. Writes(proc[p]) /\ proc[p].job.what # "ls"
  BY <1>1, <1>2 DEF Fits, WriteStages, Writes
<1>4. FirstFree(proc[p].dir_entry_offset) \/ InSpill(proc[p])
  BY <1>1, <1>2 DEF Places
<1>5. offset' \in Nat
  BY <1>1 DEF IInv, TypeOK
<1>6. CASE FirstFree(proc[p].dir_entry_offset)
  <2>1. e.cluster = 0
    BY <1>6, Constants DEF EntryAt, FirstFree, IInv, Directory
  <2>2. PICK q \in Locals :
          /\ proc' = [proc EXCEPT ![p] = q]
          /\ q.at = "alloc" /\ ~q.sought /\ q.job = proc[p].job
          /\ q.dir_entry_offset = proc[p].dir_entry_offset
    <3>1. "alloc" \in Stages
      BY DEF Stages, Transfers, BootStages
    <3>2. proc' = [proc EXCEPT ![p] = Go(p, "alloc")]
      BY <1>1, <2>1
    <3>3. proc[p] \in Locals
      BY <1>2
    <3>4. \E q \in Locals :
            /\ proc' = [proc EXCEPT ![p] = q]
            /\ q.at = "alloc" /\ ~q.sought /\ q.job = proc[p].job
            /\ q.cluster = proc[p].cluster
            /\ q.dir_entry_offset = proc[p].dir_entry_offset
      BY <3>1, <3>2, <3>3, GoesOn
    <3> QED
      BY <3>4
  <2>3. Fits(q)
    BY <1>1, <1>2, <1>3, <2>2 DEF Fits, Writes, WriteStages, ReadStages
  <2>4. Scans(q) /\ Owns(q) /\ Prints(q)
    BY <2>2 DEF Scans, Owns, Prints, DirStages
  <2>5. Places(q) /\ Finds(q)
    BY <1>6, <2>2 DEF Places, Finds, ReadStages
  <2>6. Places(q)' /\ Finds(q)'
    BY <1>1, <2>2, <2>5, SameFile
  <2> QED
    BY <1>1, <1>2, <1>5, <2>2, <2>3, <2>4, <2>6, SamePlace, QuietStep
<1>7. CASE InSpill(proc[p])
  <2>1. e = spilled /\ e.cluster # 0 /\ Taken(e.cluster)
    BY <1>7 DEF EntryAt, InSpill, IInv, Directory
  <2>2. PICK q \in Locals :
          /\ proc' = [proc EXCEPT ![p] = q]
          /\ q.at = "place" /\ ~q.sought /\ q.job = proc[p].job
          /\ q.cluster = e.cluster
          /\ q.dir_entry_offset = proc[p].dir_entry_offset
    <3> DEFINE g == Go(p, "place")
               q == [g EXCEPT !.cluster = e.cluster]
    <3>1. "place" \in Stages
      BY DEF Stages, Transfers, BootStages
    <3>2. g \in Locals /\ g.at = "place" /\ ~g.sought /\ g.job = proc[p].job
          /\ g.dir_entry_offset = proc[p].dir_entry_offset
      BY <1>2, <3>1, GoFacts
    <3>3. proc' = [proc EXCEPT ![p] = q]
      BY <1>1, <2>1
    <3>4. e.cluster \in Clusters
      BY <2>1 DEF Taken
    <3> HIDE DEF g, e
    <3>5. /\ q \in Locals /\ q.at = g.at /\ ~q.sought /\ q.job = g.job
          /\ q.cluster = e.cluster /\ q.dir_entry_offset = g.dir_entry_offset
      BY <3>2, <3>4 DEF Locals
    <3> QED
      BY <3>2, <3>3, <3>5
  <2>3. Fits(q)
    BY <1>1, <1>2, <1>3, <2>2 DEF Fits, Writes, WriteStages, ReadStages
  <2>4. Scans(q)
    BY <2>2 DEF Scans, DirStages
  <2>5. InSpill(q)
    BY <1>7, <2>2 DEF InSpill
  <2>6. Owns(q)
    BY <2>1, <2>2, <2>5 DEF Owns, InSpill
  <2>7. Prints(q)
    BY <1>3, <2>2 DEF Prints, Writes
  <2>8. Places(q) /\ Finds(q)
    BY <1>3, <2>2 DEF Places, Finds, Writes
  <2>9. Places(q)' /\ Finds(q)'
    BY <1>1, <2>2, <2>8, SameFile
  <2> QED
    BY <1>1, <1>2, <1>5, <2>2, <2>3, <2>4, <2>6, <2>7, <2>9, SamePlace, QuietStep
<1> QED
  BY <1>4, <1>6, <1>7

LEMMA AllocateStep ==
  ASSUME IInv, NEW p \in Procs, allocate_cluster(p)
  PROVE  IInv'
<1> DEFINE c == proc[p].cluster
<1>1. /\ proc[p].at = "allocFat" /\ offset' = offset + 1
      /\ UNCHANGED <<disk, foreground, printed>>
  BY DEF allocate_cluster, Transfer
<1>2. /\ p = foreground /\ proc[p] \in Locals
      /\ Fits(proc[p]) /\ Scans(proc[p]) /\ Places(proc[p])
      /\ Owns(proc[p]) /\ Finds(proc[p]) /\ Prints(proc[p])
  BY <1>1, InItsPlace
<1>3. Writes(proc[p]) /\ proc[p].job.what # "ls"
  BY <1>1, <1>2 DEF Fits, WriteStages, Writes
<1>4. c \in Clusters /\ FirstFree(proc[p].dir_entry_offset)
  BY <1>1, <1>2 DEF Places, Owns
<1>5. offset' \in Nat
  BY <1>1 DEF IInv, TypeOK
<1>6. ASSUME NEW at \in {"takeFat", "allocFat"}, NEW d \in Clusters,
             at = "takeFat" => fat[d] = Free,
             Continue(p, [Go(p, at) EXCEPT !.cluster = d])
      PROVE  IInv'
  <2>1. PICK q \in Locals :
          /\ proc' = [proc EXCEPT ![p] = q]
          /\ q.at = at /\ ~q.sought /\ q.job = proc[p].job
          /\ q.cluster = d /\ q.dir_entry_offset = proc[p].dir_entry_offset
    <3> DEFINE g == Go(p, at)
               q == [g EXCEPT !.cluster = d]
    <3>1. at \in Stages
      BY <1>6 DEF Stages, Transfers, FatStages, FatWrites
    <3>2. g \in Locals /\ g.at = at /\ ~g.sought /\ g.job = proc[p].job
          /\ g.dir_entry_offset = proc[p].dir_entry_offset
      BY <1>2, <3>1, GoFacts
    <3>3. proc' = [proc EXCEPT ![p] = q]
      BY <1>6 DEF Continue
    <3> HIDE DEF g
    <3>4. /\ q \in Locals /\ q.at = g.at /\ ~q.sought /\ q.job = g.job
          /\ q.cluster = d /\ q.dir_entry_offset = g.dir_entry_offset
      BY <3>2 DEF Locals
    <3> QED
      BY <3>2, <3>3, <3>4
  <2>2. Fits(q)
    BY <1>1, <1>2, <1>3, <2>1 DEF Fits, Writes, WriteStages, ReadStages
  <2>3. Scans(q) /\ Prints(q)
    BY <2>1 DEF Scans, Prints, DirStages
  <2>4. Owns(q)
    BY <1>6, <2>1 DEF Owns
  <2>5. Places(q) /\ Finds(q)
    BY <1>4, <2>1 DEF Places, Finds, ReadStages
  <2>6. q.at \notin {"back", "tell", "keep", "idle"}
    BY <2>1
  <2>7. Places(q)' /\ Finds(q)'
    BY <1>1, <2>5, <2>6, SameFile
  <2> QED
    BY <1>1, <1>2, <1>5, <2>1, <2>2, <2>3, <2>4, <2>6, <2>7, SamePlace, QuietStep
<1>7. ASSUME fat[c] = Free, Continue(p, Go(p, "takeFat"))
      PROVE  IInv'
  <2>1. Go(p, "takeFat") = [Go(p, "takeFat") EXCEPT !.cluster = c]
    BY <1>2 DEF Go, Locals
  <2> QED
    BY <1>4, <1>6, <1>7, <2>1 DEF Continue
<1>8. ASSUME c # LastCluster, Continue(p, [Go(p, "allocFat") EXCEPT !.cluster = c + 1])
      PROVE  IInv'
  <2>1. c + 1 \in Clusters
    BY <1>4, <1>8
  <2> HIDE DEF c
  <2> QED
    BY <1>6, <1>8, <2>1
<1>9. ASSUME Continue(p, Ended(p))
      PROVE  IInv'
  BY <1>1, <1>3, <1>5, <1>9, QuietEnd DEF Continue
<1> QED
  BY <1>7, <1>8, <1>9 DEF allocate_cluster

LEMMA WriteNothingStep ==
  ASSUME IInv, NEW p \in Procs, WriteNothing(p)
  PROVE  IInv'
<1>1. /\ proc[p].job.what = ">" /\ proc[p].at = "data"
      /\ proc' = [proc EXCEPT ![p] = Go(p, "seal")]
      /\ UNCHANGED <<disk, offset, foreground, printed>>
  BY DEF WriteNothing, Continue
<1>2. /\ p = foreground /\ proc[p] \in Locals
      /\ Fits(proc[p]) /\ Scans(proc[p]) /\ Places(proc[p])
      /\ Owns(proc[p]) /\ Finds(proc[p]) /\ Prints(proc[p])
  BY <1>1, InItsPlace
<1>3. PICK q \in Locals :
        /\ proc' = [proc EXCEPT ![p] = q]
        /\ q.at = "seal" /\ ~q.sought /\ q.job = proc[p].job
        /\ q.cluster = proc[p].cluster
        /\ q.dir_entry_offset = proc[p].dir_entry_offset
  <2>1. "seal" \in Stages
    BY DEF Stages, Transfers, BootStages
  <2> QED
    BY <1>1, <1>2, <2>1, GoFacts
<1>4. Fits(q)
  BY <1>1, <1>2, <1>3 DEF Fits, Writes, WriteStages, ReadStages
<1>5. Scans(q) /\ Prints(q)
  BY <1>3 DEF Scans, Prints, DirStages
<1>6. proc[p].job.data = Blank
  BY <1>1, <1>2, JobNames DEF Fits
<1>7. Owns(q)
  BY <1>1, <1>2, <1>3, <1>6 DEF Owns, Writes, InSpill
<1>8. Places(q) /\ Finds(q)
  BY <1>3 DEF Places, Finds, Writes, ReadStages
<1>9. Places(q)' /\ Finds(q)'
  BY <1>1, <1>3, <1>8, SameFile
<1>10. offset' \in Nat
  BY <1>1 DEF IInv, TypeOK
<1> QED
  BY <1>1, <1>2, <1>3, <1>4, <1>5, <1>7, <1>9, <1>10, SamePlace, QuietStep

LEMMA ReadFatStep ==
  ASSUME IInv, NEW p \in Procs, ReadFat(p)
  PROVE  IInv'
<1>1. /\ proc[p].at = "nextFat" /\ offset' = offset + 1
      /\ proc' = [proc EXCEPT ![p] = [Ended(p) EXCEPT !.fat_ptr = EndOfChain]]
      /\ UNCHANGED <<disk, foreground, printed>>
  BY Constants DEF ReadFat, Transfer, Continue, AfterRead, EndOfChain, Eof
<1>2. Fits(proc[p]) /\ p = foreground
  BY <1>1, InItsPlace
<1>3. proc[p].job.what # "ls"
  BY <1>1, <1>2 DEF Fits
<1>4. PICK q \in Locals :
        /\ proc' = [proc EXCEPT ![p] = q]
        /\ q.at \in {"idle", "exec"} /\ ~q.sought /\ q.job = proc[p].job
        /\ Fits(q) /\ Scans(q) /\ Places(q) /\ Owns(q) /\ Finds(q) /\ Prints(q)
  <2> DEFINE g == Ended(p)
             q == [g EXCEPT !.fat_ptr = EndOfChain]
  <2>1. /\ g \in Locals /\ g.at \in {"idle", "exec"} /\ ~g.sought /\ g.job = proc[p].job
        /\ Fits(g)
    BY <1>1, EndedFacts
  <2>2. proc' = [proc EXCEPT ![p] = q]
    BY <1>1
  <2> HIDE DEF g
  <2>3. q \in Locals /\ q.at = g.at /\ ~q.sought /\ q.job = g.job
    BY <2>1 DEF Locals
  <2> HIDE DEF q
  <2>4. Fits(q)
    BY <2>1, <2>3 DEF Fits, Writes
  <2>5. Scans(q) /\ Places(q) /\ Owns(q) /\ Finds(q) /\ Prints(q)
    BY <2>1, <2>3 DEF Scans, Places, Owns, Finds, Prints, DirStages, ReadStages
  <2> QED
    BY <2>1, <2>2, <2>3, <2>4, <2>5 DEF q
<1>5. Places(q)' /\ Finds(q)'
  BY <1>1, <1>4, SameFile
<1>6. offset' \in Nat
  BY <1>1 DEF IInv, TypeOK
<1> QED
  BY <1>1, <1>2, <1>3, <1>4, <1>5, <1>6, SamePlace, QuietStep

-----------------------------------------------------------------------------
(* Steps that change the disk, or print.                                   *)

LEMMA AnyStep ==
  ASSUME IInv, NEW p \in Procs, p = foreground,
         NEW q \in Locals, proc' = [proc EXCEPT ![p] = q],
         UNCHANGED foreground, TypeOK',
         p # Shell => proc[Shell].job = NoJob,
         q.sought => offset' = Aim(q),
         DiskIsInOrder', Directory',
         q.at = "idle" /\ q.job.what = "ls" => LsIsComplete',
         InPlace(q)'
  PROVE  IInv'
<1> USE DEF IInv
<1>1. proc'[p] = q /\ \A r \in Procs : r # p => proc'[r] = proc[r]
  BY DEF TypeOK
<1>2. Turns'
  BY <1>1 DEF Turns, Procs
<1>3. OnCourse'
  BY <1>1, <1>2 DEF OnCourse, Turns, Aim
<1>4. LsIsComplete'
  <2>1. CASE p = Shell
    BY <1>1, <2>1 DEF LsIsComplete
  <2>2. CASE p # Shell
    <3>1. proc'[Shell].job = NoJob
      BY <1>1, <2>2 DEF Procs
    <3> QED
      BY <3>1 DEF LsIsComplete, NoJob, Job
  <2> QED BY <2>1, <2>2
<1>5. Me' = q
  BY <1>1 DEF Me
<1>6. InPlace(Me)'
  BY <1>5 DEF InPlace, Fits, Scans, Places, Owns, Finds, Prints
<1> QED
  BY <1>2, <1>3, <1>4, <1>6

LEMMA TypeStep ==
  ASSUME IInv, NEW p \in Procs, NEW q \in Locals, proc' = [proc EXCEPT ![p] = q],
         UNCHANGED foreground, offset' = offset + 1,
         fat' \in [Clusters -> {Free, Eof}], root' \in [Slots -> Entries],
         content' \in [Clusters -> Data \cup {Blank, "entry"}],
         spilled' \in Entries, spoilt' \in BOOLEAN,
         printed' \in Seq(ShownNames \cup Data \cup {Blank, "entry"})
  PROVE  TypeOK'
BY DEF IInv, TypeOK

(* An entry of the directory is not the one behind it.                     *)
LEMMA FirstFreeIsSlot ==
  ASSUME NEW i, FirstFree(i)
  PROVE  i \in Slots /\ i # AfterRoot
BY Constants DEF FirstFree

LEMMA WriteFatStep ==
  ASSUME IInv, NEW p \in Procs, WriteFat(p)
  PROVE  IInv'
<1> DEFINE at == proc[p].at
           c == proc[p].cluster
<1>1. /\ at \in FatWrites /\ offset' = offset + 1
      /\ proc' = [proc EXCEPT ![p] = Go(p, AfterFat(at))]
      /\ fat' = [fat EXCEPT ![c] = Eof]
      /\ UNCHANGED <<root, content, spilled, spoilt, printed, foreground>>
  BY DEF WriteFat, Transfer, Continue
<1>2. /\ p = foreground /\ proc[p] \in Locals
      /\ Fits(proc[p]) /\ Scans(proc[p]) /\ Places(proc[p])
      /\ Owns(proc[p]) /\ Finds(proc[p]) /\ Prints(proc[p])
      /\ p # Shell => proc[Shell].job = NoJob
  BY <1>1, InItsPlace, ActsAlone DEF FatWrites
<1>3. TypeOK /\ Directory /\ DiskIsInOrder
  BY DEF IInv
<1>4. Writes(proc[p]) /\ proc[p].job.what # "ls"
  BY <1>1, <1>2 DEF Fits, WriteStages, Writes, FatWrites
<1>5. c \in Clusters /\ (at # "takeFat" => fat[c] = Eof)
  BY <1>1, <1>2, <1>4 DEF Owns, Taken, FatWrites
<1>6. PICK q \in Locals :
        /\ proc' = [proc EXCEPT ![p] = q]
        /\ q.at = AfterFat(at) /\ ~q.sought /\ q.job = proc[p].job
        /\ q.cluster = c
        /\ q.dir_entry_offset = proc[p].dir_entry_offset
  <2>1. AfterFat(at) \in Stages
    BY <1>1 DEF AfterFat, FatWrites, Stages, Transfers, BootStages, EntryStages
  <2>2. proc' = [proc EXCEPT ![p] = Go(p, AfterFat(at))]
    BY <1>1
  <2> HIDE DEF at
  <2>3. proc[p] \in Locals
    BY <1>2
  <2>4. \E q \in Locals :
          /\ proc' = [proc EXCEPT ![p] = q]
          /\ q.at = AfterFat(at) /\ ~q.sought /\ q.job = proc[p].job
          /\ q.cluster = proc[p].cluster
          /\ q.dir_entry_offset = proc[p].dir_entry_offset
    BY <2>1, <2>2, <2>3, GoesOn
  <2> QED
    BY <2>4 DEF c
<1>7. AfterFat(at) \in {"free", "mark", "place", "entry"}
  BY <1>1 DEF AfterFat, FatWrites
<1>8. fat' \in [Clusters -> {Free, Eof}] /\ fat'[c] = Eof
      /\ \A d \in Clusters : fat[d] = Eof \/ d = c <=> fat'[d] = Eof
  BY <1>1, <1>3, <1>5 DEF TypeOK, Free, Eof
<1> HIDE DEF at, c
<1>9. TypeOK'
  BY <1>1, <1>3, <1>6, <1>8, TypeStep DEF TypeOK
<1>10. DiskIsInOrder'
  <2>1. \A i \in Slots : Used(i) => root[i].cluster \in Clusters
    BY <1>3 DEF TypeOK, DiskIsInOrder, Used, Entries
  <2>2. \A d \in Clusters : fat'[d] = Free => fat[d] = Free
    BY <1>1, <1>3, <1>5 DEF TypeOK
  <2> QED
    BY <1>1, <1>3, <1>8, <2>1, <2>2 DEF DiskIsInOrder, Used
<1>11. Directory'
  BY <1>1, <1>3, <1>8 DEF Directory, Used, Taken
<1>12. Fits(q)'
  BY <1>1, <1>2, <1>4, <1>6, <1>7 DEF at, FatWrites, Fits, Writes, WriteStages, ReadStages
<1>13. Scans(q)' /\ Prints(q)' /\ Places(q)' /\ Finds(q)'
  BY <1>4, <1>6, <1>7 DEF Scans, Prints, Places, Finds, Writes, DirStages, ReadStages
<1>14. Owns(q)'
  <2>1. CASE at = "cutFat"
    BY <1>6, <2>1 DEF Owns, AfterFat
  <2>2. CASE at = "takeFat"
    <3>1. FirstFree(proc[p].dir_entry_offset) /\ fat[c] = Free
      BY <1>2, <2>2 DEF Places, Owns, at, c
    <3>2. \A i \in Slots : root[i].cluster # c
      BY <1>3, <1>5, <3>1, Constants DEF Directory, DiskIsInOrder, Free, Eof
    <3>3. ~spoilt => content[c] = Blank
      BY <1>3, <1>5, <3>1 DEF DiskIsInOrder
    <3>4. q.at = "mark"
      BY <1>6, <2>2 DEF AfterFat
    <3>5. Taken(q.cluster)' /\ FirstFree(q.dir_entry_offset)'
      BY <1>1, <1>5, <1>6, <1>8, <3>1 DEF FirstFree, Used, Taken
    <3> QED
      BY <1>1, <1>6, <3>2, <3>3, <3>4, <3>5 DEF Owns
  <2>3. CASE at \in {"markFat", "sealFat"}
    <3>1. /\ \/ /\ FirstFree(proc[p].dir_entry_offset)
                /\ \A i \in Slots : root[i].cluster # c
             \/ InSpill(proc[p])
          /\ ~spoilt => content[c] = IF at = "sealFat" THEN proc[p].job.data ELSE Blank
      BY <1>2, <1>4, <2>3 DEF Owns, at, c
    <3>2. q.at = IF at = "sealFat" THEN "entry" ELSE "place"
      BY <1>6, <2>3 DEF AfterFat
    <3>3. Taken(q.cluster)'
      BY <1>5, <1>6, <1>8 DEF Taken
    <3>4. InSpill(proc[p]) => InSpill(q)'
      BY <1>1, <1>6 DEF InSpill
    <3>5. FirstFree(proc[p].dir_entry_offset) => FirstFree(q.dir_entry_offset)'
      BY <1>1, <1>6 DEF FirstFree, Used
    <3> QED
      BY <1>1, <1>6, <3>1, <3>2, <3>3, <3>4, <3>5 DEF Owns
  <2> QED
    BY <1>1, <2>1, <2>2, <2>3 DEF FatWrites
<1> QED
  BY <1>1, <1>2, <1>4, <1>6, <1>9, <1>10, <1>11, <1>12, <1>13, <1>14, AnyStep DEF InPlace

LEMMA WriteDataStep ==
  ASSUME IInv, NEW p \in Procs, WriteData(p)
  PROVE  IInv'
<1> DEFINE c == proc[p].cluster
<1>1. /\ proc[p].job.what = "write" /\ proc[p].at = "data" /\ offset' = offset + 1
      /\ proc' = [proc EXCEPT ![p] = Go(p, "seal")]
      /\ content' = [content EXCEPT ![c] = proc[p].job.data]
      /\ UNCHANGED <<fat, root, spilled, spoilt, printed, foreground>>
  BY DEF WriteData, Transfer, Continue
<1>2. /\ p = foreground /\ proc[p] \in Locals
      /\ Fits(proc[p]) /\ Owns(proc[p])
      /\ p # Shell => proc[Shell].job = NoJob
  BY <1>1, InItsPlace, ActsAlone
<1>3. TypeOK /\ Directory /\ DiskIsInOrder
  BY DEF IInv
<1>4. /\ Taken(c)
      /\ \/ /\ FirstFree(proc[p].dir_entry_offset)
            /\ \A i \in Slots : root[i].cluster # c
         \/ InSpill(proc[p])
  BY <1>1, <1>2 DEF Owns, Writes
<1>5. proc[p].job.data \in Data
  BY <1>1, <1>2, JobNames DEF Fits
<1>6. PICK q \in Locals :
        /\ proc' = [proc EXCEPT ![p] = q]
        /\ q.at = "seal" /\ ~q.sought /\ q.job = proc[p].job
        /\ q.cluster = c
        /\ q.dir_entry_offset = proc[p].dir_entry_offset
  <2>1. "seal" \in Stages
    BY DEF Stages, Transfers, BootStages
  <2> QED
    BY <1>1, <1>2, <2>1, GoFacts
<1> HIDE DEF c
<1>7. /\ content' \in [Clusters -> Data \cup {Blank, "entry"}]
      /\ content'[c] = q.job.data
      /\ \A d \in Clusters : d # c => content'[d] = content[d]
  BY <1>1, <1>3, <1>4, <1>5, <1>6 DEF TypeOK, Taken
<1>8. TypeOK'
  BY <1>1, <1>3, <1>6, <1>7, TypeStep DEF TypeOK
<1>9. DiskIsInOrder' /\ Directory'
  BY <1>1, <1>3, <1>4, <1>7 DEF DiskIsInOrder, Directory, Used, Taken, Free, Eof
<1>10. Fits(q)'
  BY <1>1, <1>2, <1>6 DEF Fits, Writes, WriteStages, ReadStages
<1>11. Scans(q)' /\ Prints(q)' /\ Places(q)' /\ Finds(q)'
  BY <1>1, <1>6 DEF Scans, Prints, Places, Finds, Writes, DirStages, ReadStages
<1>12. Owns(q)'
  <2>1. Taken(q.cluster)'
    BY <1>1, <1>4, <1>6 DEF Taken
  <2>2. InSpill(proc[p]) => InSpill(q)'
    BY <1>1, <1>6 DEF InSpill
  <2>3. FirstFree(proc[p].dir_entry_offset) => FirstFree(q.dir_entry_offset)'
    BY <1>1, <1>6 DEF FirstFree, Used
  <2> QED
    BY <1>1, <1>4, <1>6, <1>7, <2>1, <2>2, <2>3 DEF Owns
<1> QED
  BY <1>1, <1>2, <1>6, <1>8, <1>9, <1>10, <1>11, <1>12, AnyStep DEF InPlace

LEMMA PutBackStep ==
  ASSUME IInv, NEW p \in Procs, PutBack(p)
  PROVE  IInv'
<1> DEFINE i == proc[p].dir_entry_offset
           c == proc[p].cluster
<1>1. /\ proc[p].at = "putBack" /\ offset = Aim(proc[p]) /\ offset' = offset + 1
      /\ proc' = [proc EXCEPT ![p] =
                    IF c # 0 THEN Go(p, "keep") ELSE [Go(p, "begin") EXCEPT !.fat_ptr = 0]]
      /\ WriteEntry(i, proc[p].entry)
      /\ UNCHANGED <<fat, printed, foreground>>
  BY DEF PutBack, Transfer, Continue
<1>2. /\ p = foreground /\ proc[p] \in Locals
      /\ Fits(proc[p]) /\ Places(proc[p])
      /\ p # Shell => proc[Shell].job = NoJob
  BY <1>1, InItsPlace, ActsAlone
<1>3. TypeOK /\ Directory /\ DiskIsInOrder
  BY DEF IInv
<1>4. Writes(proc[p])
  BY <1>1, <1>2 DEF Fits, WriteStages
<1>5. PICK q \in Locals :
        /\ proc' = [proc EXCEPT ![p] = q]
        /\ q.at = (IF c # 0 THEN "keep" ELSE "begin")
        /\ ~q.sought /\ q.job = proc[p].job /\ q.dir_entry_offset = i
  <2>1. "keep" \in Stages /\ "begin" \in Stages
    BY DEF Stages, Transfers, EntryStages
  <2>2. CASE c # 0
    <3>1. proc' = [proc EXCEPT ![p] = Go(p, "keep")]
      BY <1>1, <2>2
    <3>2. proc[p] \in Locals
      BY <1>2
    <3>3. \E q \in Locals :
            /\ proc' = [proc EXCEPT ![p] = q]
            /\ q.at = "keep" /\ ~q.sought /\ q.job = proc[p].job
            /\ q.cluster = proc[p].cluster
            /\ q.dir_entry_offset = proc[p].dir_entry_offset
      BY <2>1, <3>1, <3>2, GoesOn
    <3> QED
      BY <2>2, <3>3
  <2>3. CASE c = 0
    <3> DEFINE g == Go(p, "begin")
               q == [g EXCEPT !.fat_ptr = 0]
    <3>1. g \in Locals /\ g.at = "begin" /\ ~g.sought /\ g.job = proc[p].job
          /\ g.dir_entry_offset = i
      BY <1>2, <2>1, GoFacts
    <3>2. proc' = [proc EXCEPT ![p] = q]
      BY <1>1, <2>3
    <3> HIDE DEF g
    <3>3. q \in Locals /\ q.at = g.at /\ ~q.sought /\ q.job = g.job
          /\ q.dir_entry_offset = g.dir_entry_offset
      BY <3>1 DEF Locals
    <3> QED
      BY <2>3, <3>1, <3>2, <3>3
  <2> QED BY <2>2, <2>3
<1>6. offset' = RootAt(i) + 1
  BY <1>1, AimFacts DEF EntryStages
<1>7. /\ TypeOK' /\ DiskIsInOrder' /\ Directory'
      /\ FirstFree(q.dir_entry_offset)' \/ (InSpill(q)' /\ c # 0)
  <2>1. CASE FirstFree(i) /\ proc[p].entry = root[i]
    <3>1. /\ i \in Slots /\ i # AfterRoot
          /\ root' = [root EXCEPT ![i] = root[i]]
          /\ UNCHANGED <<content, spilled, spoilt>>
      BY <1>1, <2>1, FirstFreeIsSlot DEF WriteEntry
    <3>2. UNCHANGED root
      BY <1>3, <3>1 DEF TypeOK
    <3>3. TypeOK'
      <4>1. UNCHANGED <<fat, root, content, spilled, spoilt, printed, foreground>>
        BY <1>1, <3>1, <3>2
      <4> QED
        BY <1>1, <1>3, <1>5, <4>1, TypeStep DEF TypeOK
    <3>4. DiskIsInOrder' /\ Directory'
      BY <1>1, <1>3, <3>1, <3>2 DEF DiskIsInOrder, Directory, Used, Taken
    <3>5. FirstFree(q.dir_entry_offset)'
      BY <1>5, <2>1, <3>2 DEF FirstFree, Used
    <3> QED BY <3>3, <3>4, <3>5
  <2>2. CASE i = AfterRoot /\ c # 0 /\ Used(RootEntries) /\ proc[p].entry = root[RootEntries]
    <3>1. /\ spilled' = root[RootEntries] /\ spoilt' = TRUE
          /\ content' = [content EXCEPT ![2] = "entry"]
          /\ UNCHANGED root
      BY <1>1, <2>2 DEF WriteEntry
    <3>2. root[RootEntries] \in Entries
      BY <1>3, Constants DEF TypeOK
    <3>3. TypeOK'
      <4>1. /\ content' \in [Clusters -> Data \cup {Blank, "entry"}]
            /\ spilled' \in Entries /\ spoilt' \in BOOLEAN
        BY <1>3, <3>1, <3>2 DEF TypeOK
      <4>2. /\ fat' \in [Clusters -> {Free, Eof}] /\ root' \in [Slots -> Entries]
            /\ printed' \in Seq(ShownNames \cup Data \cup {Blank, "entry"})
        BY <1>1, <1>3, <3>1 DEF TypeOK
      <4> QED
        BY <1>1, <1>5, <4>1, <4>2, TypeStep
    <3>4. DiskIsInOrder'
      BY <1>1, <1>3, <3>1 DEF DiskIsInOrder, Used
    <3>5. spilled'.cluster # 0 /\ spilled'.name # Unused
      BY <1>3, <2>2, <3>1, Constants DEF Directory, Used
    <3>6. Directory'
      BY <1>1, <1>3, <2>2, <3>1, <3>2, <3>5, Constants
         DEF Directory, DiskIsInOrder, Used, Taken, Entries
    <3>7. InSpill(q)'
      BY <1>5, <2>2, <3>1, <3>5 DEF InSpill
    <3> QED BY <2>2, <3>3, <3>4, <3>6, <3>7
  <2> QED
    BY <1>1, <1>2, <2>1, <2>2 DEF Places
<1> HIDE DEF i, c
<1>8. Fits(q)'
  BY <1>1, <1>2, <1>4, <1>5 DEF Fits, Writes, WriteStages, ReadStages
<1>9. Scans(q)' /\ Owns(q)' /\ Prints(q)'
  BY <1>4, <1>5 DEF Scans, Owns, Prints, Writes, DirStages
<1>10. Places(q)' /\ Finds(q)'
  BY <1>4, <1>5, <1>6, <1>7 DEF Places, Finds, Writes, ReadStages
<1> QED
  BY <1>1, <1>2, <1>5, <1>7, <1>8, <1>9, <1>10, AnyStep DEF InPlace

(* What a write leaves behind, at the first free entry or past a full      *)
(* directory.                                                              *)
LEMMA WrittenEntry ==
  ASSUME IInv, NEW i, NEW n \in ShownNames, NEW c,
         WriteEntry(i, Entry(n, c)), UNCHANGED fat, Taken(c),
         \/ FirstFree(i) /\ \A j \in Slots : root[j].cluster # c
         \/ i = AfterRoot
  PROVE  /\ DiskIsInOrder' /\ Directory'
         /\ root' \in [Slots -> Entries]
         /\ content' \in [Clusters -> Data \cup {Blank, "entry"}]
         /\ spilled' \in Entries /\ spoilt' \in BOOLEAN
<1> DEFINE e == Entry(n, c)
<1>1. TypeOK /\ Directory /\ DiskIsInOrder
  BY DEF IInv
<1>2. /\ e \in Entries /\ e.name = n /\ e.cluster = c
      /\ n # Unused /\ c \in Clusters /\ c # 0 /\ fat[c] = Eof
  BY NameFacts, Constants DEF Entry, Entries, Taken
<1>3. CASE FirstFree(i) /\ \A j \in Slots : root[j].cluster # c
  <2>1. /\ i \in Slots /\ root' = [root EXCEPT ![i] = e]
        /\ UNCHANGED <<content, spilled, spoilt>>
    BY <1>3, FirstFreeIsSlot DEF WriteEntry
  <2>2. root'[i] = e /\ \A j \in Slots : j # i => root'[j] = root[j]
    BY <1>1, <2>1 DEF TypeOK
  <2>3. Used(i)' /\ \A j \in Slots : j # i => (Used(j)' <=> Used(j))
    BY <1>2, <2>2 DEF Used
  <2> HIDE DEF e
  <2>4. DiskIsInOrder'
    <3>1. ASSUME NEW j \in Slots, NEW k \in Slots, j < k, Used(k)'
          PROVE  Used(j)'
      <4>1. CASE k = i
        BY <1>3, <2>3, <3>1, <4>1 DEF FirstFree
      <4>2. CASE k # i
        BY <1>1, <2>3, <3>1, <4>2 DEF DiskIsInOrder
      <4> QED BY <4>1, <4>2
    <3>2. ASSUME NEW j \in Slots, Used(j)'
          PROVE  root'[j].cluster # 0 /\ fat'[root'[j].cluster] = Eof
      BY <1>1, <1>2, <2>2, <2>3, <3>2 DEF DiskIsInOrder
    <3>3. ASSUME NEW j \in Slots, NEW k \in Slots, Used(j)', Used(k)',
                 root'[j].cluster = root'[k].cluster
          PROVE  j = k
      BY <1>1, <1>2, <1>3, <2>2, <2>3, <3>3 DEF DiskIsInOrder
    <3> QED
      BY <1>1, <2>1, <3>1, <3>2, <3>3 DEF DiskIsInOrder, Used
  <2>5. Directory'
    BY <1>1, <1>2, <2>1, <2>2, <2>3 DEF Directory, Used, Taken
  <2> QED
    BY <1>1, <1>2, <2>1, <2>4, <2>5 DEF TypeOK
<1>4. CASE i = AfterRoot
  <2>1. /\ spilled' = e /\ spoilt' = TRUE
        /\ content' = [content EXCEPT ![2] = "entry"]
        /\ UNCHANGED root
    BY <1>4 DEF WriteEntry
  <2>2. DiskIsInOrder'
    BY <1>1, <2>1 DEF DiskIsInOrder, Used
  <2>3. Directory'
    BY <1>1, <1>2, <2>1 DEF Directory, Used, Taken
  <2> QED
    BY <1>1, <1>2, <2>1, <2>2, <2>3 DEF TypeOK
<1> QED
  BY <1>3, <1>4

(* What a process owns when its entry is written.                          *)
LEMMA EntryFacts ==
  ASSUME IInv, NEW p \in Procs, FinishWrite(p)
  PROVE  /\ Writes(proc[p]) /\ proc[p].job.what # "ls"
         /\ proc[p].job.name \in Names /\ Shown[proc[p].job.name] \in ShownNames
         /\ Taken(proc[p].cluster)
         /\ \/ /\ FirstFree(proc[p].dir_entry_offset)
               /\ \A j \in Slots : root[j].cluster # proc[p].cluster
            \/ proc[p].dir_entry_offset = AfterRoot
         /\ ~spoilt =>
              /\ FirstFree(proc[p].dir_entry_offset)
              /\ content[proc[p].cluster] = proc[p].job.data
<1>1. proc[p].at = "entry"
  BY DEF FinishWrite, Transfer
<1>2. Fits(proc[p]) /\ Owns(proc[p])
  BY <1>1, InItsPlace
<1>3. Writes(proc[p]) /\ proc[p].job.what # "ls"
  BY <1>1, <1>2 DEF Fits, WriteStages, Writes
<1>4. proc[p].job.name \in Names /\ Shown[proc[p].job.name] \in ShownNames
  BY <1>1, <1>2, <1>3, JobNames, NameFacts DEF Fits
<1> QED
  BY <1>1, <1>2, <1>3, <1>4 DEF Owns, InSpill

LEMMA FinishWriteStep ==
  ASSUME IInv, NEW p \in Procs, FinishWrite(p)
  PROVE  IInv'
<1> DEFINE i == proc[p].dir_entry_offset
           c == proc[p].cluster
           n == Shown[proc[p].job.name]
<1>1. /\ proc[p].at = "entry" /\ offset' = offset + 1
      /\ proc' = [proc EXCEPT ![p] = Ended(p)]
      /\ WriteEntry(i, Entry(n, c))
      /\ UNCHANGED <<fat, printed, foreground>>
  BY DEF FinishWrite, Transfer, Continue
<1>2. p = foreground /\ (p # Shell => proc[Shell].job = NoJob)
  BY <1>1, ActsAlone
<1>3. PICK q \in Locals :
        /\ proc' = [proc EXCEPT ![p] = q]
        /\ q.at \in {"idle", "exec"} /\ ~q.sought /\ q.job = proc[p].job
        /\ Fits(q)
  BY <1>1, EndedFacts
<1>4. /\ proc[p].job.what # "ls" /\ n \in ShownNames /\ Taken(c)
      /\ \/ FirstFree(i) /\ \A j \in Slots : root[j].cluster # c
         \/ i = AfterRoot
  BY EntryFacts
<1> HIDE DEF i, c, n
<1>5. /\ DiskIsInOrder' /\ Directory'
      /\ root' \in [Slots -> Entries]
      /\ content' \in [Clusters -> Data \cup {Blank, "entry"}]
      /\ spilled' \in Entries /\ spoilt' \in BOOLEAN
  BY <1>1, <1>4, WrittenEntry
<1>6. TypeOK'
  <2>1. TypeOK
    BY DEF IInv
  <2> QED
    BY <1>1, <1>3, <1>5, <2>1, TypeStep DEF TypeOK
<1>7. Fits(q)'
  BY <1>1, <1>3 DEF Fits
<1>8. Scans(q)' /\ Places(q)' /\ Owns(q)' /\ Finds(q)' /\ Prints(q)'
  BY <1>3 DEF Scans, Places, Owns, Finds, Prints, DirStages, ReadStages
<1> QED
  BY <1>1, <1>2, <1>3, <1>4, <1>5, <1>6, <1>7, <1>8, AnyStep DEF InPlace

LEMMA ReadDataStep ==
  ASSUME IInv, NEW p \in Procs, ReadData(p)
  PROVE  IInv'
<1>1. /\ ~Writes(proc[p]) /\ proc[p].at = "data" /\ offset' = offset + 1
      /\ proc' = [proc EXCEPT ![p] = Go(p, "next")]
      /\ printed' = IF p = Shell THEN Append(printed, content[proc[p].cluster])
                    ELSE printed
      /\ UNCHANGED <<fat, root, content, spilled, spoilt, foreground>>
  BY DEF ReadData, Transfer, Continue, disk
<1>2. /\ p = foreground /\ proc[p] \in Locals
      /\ Fits(proc[p]) /\ Finds(proc[p])
      /\ p # Shell => proc[Shell].job = NoJob
  BY <1>1, InItsPlace, ActsAlone
<1>3. TypeOK /\ Directory /\ DiskIsInOrder
  BY DEF IInv
<1>4. PICK q \in Locals :
        /\ proc' = [proc EXCEPT ![p] = q]
        /\ q.at = "next" /\ ~q.sought /\ q.job = proc[p].job
        /\ q.cluster = proc[p].cluster
  <2>1. "next" \in Stages
    BY DEF Stages, Transfers, BootStages
  <2>2. proc' = [proc EXCEPT ![p] = Go(p, "next")]
    BY <1>1
  <2>3. proc[p] \in Locals
    BY <1>2
  <2>4. \E q \in Locals :
          /\ proc' = [proc EXCEPT ![p] = q]
          /\ q.at = "next" /\ ~q.sought /\ q.job = proc[p].job
          /\ q.cluster = proc[p].cluster
          /\ q.dir_entry_offset = proc[p].dir_entry_offset
    BY <2>1, <2>2, <2>3, GoesOn
  <2> QED
    BY <2>4
<1>5. printed' \in Seq(ShownNames \cup Data \cup {Blank, "entry"})
  <2>1. proc[p].cluster \in Clusters
    BY <1>1, <1>2 DEF Finds
  <2>2. content[proc[p].cluster] \in ShownNames \cup Data \cup {Blank, "entry"}
    BY <1>3, <2>1 DEF TypeOK
  <2>3. printed \in Seq(ShownNames \cup Data \cup {Blank, "entry"})
    BY <1>3 DEF TypeOK
  <2> QED
    BY <1>1, <2>2, <2>3
<1>6. TypeOK'
  BY <1>1, <1>3, <1>4, <1>5, TypeStep DEF TypeOK
<1>7. DiskIsInOrder' /\ Directory'
  BY <1>1, <1>3 DEF DiskIsInOrder, Directory, Used, Taken
<1>8. Fits(q)'
  BY <1>1, <1>2, <1>4 DEF Fits, Writes, WriteStages
<1>9. Scans(q)' /\ Places(q)' /\ Owns(q)' /\ Prints(q)'
  BY <1>4 DEF Scans, Places, Owns, Prints, DirStages
<1>10. Finds(q)'
  <2>1. Finds(q)
    BY <1>1, <1>2, <1>4 DEF Finds, Writes
  <2> QED
    BY <1>1, <1>4, <2>1, SameFile DEF disk
<1> QED
  BY <1>1, <1>2, <1>4, <1>6, <1>7, <1>8, <1>9, <1>10, AnyStep DEF InPlace

LEMMA ReaddirStep ==
  ASSUME IInv, NEW p \in Procs, fat16_readdir(p)
  PROVE  IInv'
<1> DEFINE i == proc[p].i
           found == IF i = AfterRoot THEN content[2] ELSE root[i].name
<1>1. /\ proc[p].at = "list" /\ proc[p].sought
      /\ offset = Aim(proc[p]) /\ offset' = offset + 1
      /\ UNCHANGED <<fat, root, content, spilled, spoilt, foreground>>
  BY DEF fat16_readdir, Transfer, disk
<1>2. /\ p = foreground /\ proc[p] \in Locals
      /\ Fits(proc[p]) /\ Scans(proc[p]) /\ Prints(proc[p])
  BY <1>1, InItsPlace
<1>3. TypeOK /\ Directory /\ DiskIsInOrder
  BY DEF IInv
<1>4. p = Shell
  BY <1>1, <1>2 DEF Fits, KidJobs, Job
<1>5. /\ i \in Slots \cup {AfterRoot}
      /\ \A j \in 1 .. i - 1 : Used(j)
      /\ Len(printed) = i - 1
      /\ \A j \in 1 .. i - 1 : printed[j] = root[j].name
  BY <1>1, <1>2 DEF Scans, Prints, DirStages
<1>6. printed \in Seq(ShownNames \cup Data \cup {Blank, "entry"})
  BY <1>3 DEF TypeOK
<1>7. DiskIsInOrder' /\ Directory'
  BY <1>1, <1>3 DEF DiskIsInOrder, Directory, Used, Taken
<1>8. PICK q \in Locals :
        /\ q = Ended(p)
        /\ q.at = "idle" /\ ~q.sought /\ q.job = proc[p].job /\ Fits(q)
  BY <1>1, <1>4, EndedFacts
<1>9. /\ Fits(q)' /\ Scans(q)' /\ Places(q)' /\ Owns(q)' /\ Finds(q)' /\ Prints(q)'
  <2>1. Fits(q)'
    BY <1>1, <1>8 DEF Fits
  <2>2. Scans(q)' /\ Places(q)' /\ Owns(q)' /\ Finds(q)' /\ Prints(q)'
    BY <1>8 DEF Scans, Places, Owns, Finds, Prints, DirStages, ReadStages
  <2> QED BY <2>1, <2>2
<1>10. ASSUME found \in {Unused, Blank}, Continue(p, Ended(p)), UNCHANGED printed
       PROVE  IInv'
  <2>1. proc' = [proc EXCEPT ![p] = q]
    BY <1>8, <1>10 DEF Continue
  <2>2. TypeOK'
    BY <1>1, <1>3, <1>6, <1>10, <2>1, TypeStep DEF TypeOK
  <2>3. ASSUME ~Used(RootEntries)
        PROVE  /\ \A j \in Slots : Used(j) <=> j \in DOMAIN printed
               /\ \A j \in DOMAIN printed : printed[j] = root[j].name
    <3>1. i \in Slots
      BY <1>5, <2>3 DEF Used
    <3>2. root[i].name \in ShownNames \cup {Unused}
      BY <1>3, <3>1 DEF TypeOK, Entries
    <3>3. found = root[i].name
      BY <3>1, Constants
    <3>4. ~Used(i)
      BY <1>10, <3>2, <3>3, NameFacts DEF Used
    <3>5. \A j \in Slots : Used(j) <=> j \in 1 .. i - 1
      BY <1>3, <1>5, <3>1, <3>4 DEF DiskIsInOrder
    <3>6. DOMAIN printed = 1 .. i - 1
      BY <1>5, <1>6
    <3> QED
      BY <1>5, <3>5, <3>6
  <2>4. LsIsComplete'
    BY <1>1, <1>10, <2>3 DEF LsIsComplete, Used
  <2> QED
    BY <1>1, <1>2, <1>4, <1>7, <1>8, <1>9, <2>1, <2>2, <2>4, AnyStep DEF InPlace
<1>11. ASSUME found \notin {Unused, Blank}, printed' = Append(printed, found),
              Continue(p, IF i = AfterRoot THEN Ended(p) ELSE ReadNext(p))
       PROVE  IInv'
  <2>1. printed' \in Seq(ShownNames \cup Data \cup {Blank, "entry"})
    <3>1. found \in ShownNames \cup Data \cup {Blank, "entry"}
      BY <1>3, <1>5, <1>11, Constants DEF TypeOK, Entries
    <3> QED
      BY <1>6, <1>11, <3>1
  <2>2. CASE i = AfterRoot
    <3>1. proc' = [proc EXCEPT ![p] = q]
      BY <1>8, <1>11, <2>2 DEF Continue
    <3>2. TypeOK'
      BY <1>1, <1>3, <2>1, <3>1, TypeStep DEF TypeOK
    <3>3. LsIsComplete'
      <4>1. Used(RootEntries)
        BY <1>5, <2>2
      <4> QED
        BY <1>1, <4>1 DEF LsIsComplete, Used
    <3> QED
      BY <1>1, <1>2, <1>4, <1>7, <1>8, <1>9, <3>1, <3>2, <3>3, AnyStep DEF InPlace
  <2>3. CASE i \in Slots
    <3>1. found = root[i].name /\ Used(i)
      BY <1>11, <2>3, Constants DEF Used
    <3>2. PICK r \in Locals :
            /\ proc' = [proc EXCEPT ![p] = r]
            /\ r.at = "list" /\ r.sought /\ r.job = proc[p].job /\ r.i = i + 1
      BY <1>1, <1>2, <1>11, <2>3, ReadNextFacts, Constants DEF Continue
    <3>3. TypeOK'
      BY <1>1, <1>3, <2>1, <3>2, TypeStep DEF TypeOK
    <3>4. Fits(r)'
      BY <1>1, <1>2, <3>2 DEF Fits, Writes, WriteStages, ReadStages
    <3>5. Scans(r)'
      <4>1. \A j \in 1 .. r.i - 1 : Used(j)
        BY <1>5, <2>3, <3>1, <3>2
      <4> QED
        BY <1>1, <2>3, <3>2, <4>1 DEF Scans, DirStages, Used
    <3>6. Places(r)' /\ Owns(r)' /\ Finds(r)'
      BY <3>2 DEF Places, Owns, Finds, ReadStages
    <3>7. Prints(r)'
      <4>1. Len(printed') = r.i - 1
        BY <1>5, <1>6, <1>11, <3>2
      <4>2. \A j \in 1 .. r.i - 1 : printed'[j] = root[j].name
        BY <1>5, <1>6, <1>11, <2>3, <3>1, <3>2
      <4> QED
        BY <1>1, <3>2, <4>1, <4>2 DEF Prints
    <3>8. offset' = Aim(r)
      BY <1>1, <2>3, <3>2, AimFacts DEF DirStages, RootAt
    <3> QED
      BY <1>1, <1>2, <1>4, <1>7, <3>2, <3>3, <3>4, <3>5, <3>6, <3>7, <3>8, AnyStep DEF InPlace
  <2> QED
    BY <1>5, <2>2, <2>3
<1> QED
  BY <1>10, <1>11 DEF fat16_readdir, disk

-----------------------------------------------------------------------------
(* Commands and processes.                                                 *)

LEMMA RunStep ==
  ASSUME IInv, NEW j \in ShellJobs, NEW at \in {"dir", "find"},
         at = "dir" <=> j.what = "ls", Run(j, at)
  PROVE  IInv'
<1>1. /\ proc[Shell].at = "idle" /\ foreground = Shell /\ printed' = <<>>
      /\ proc' = [proc EXCEPT ![Shell] = [proc[Shell] EXCEPT !.at = at, !.job = j]]
      /\ UNCHANGED <<fat, root, content, spilled, spoilt, offset, foreground>>
  BY DEF Run, Prompt, Continue, disk
<1>2. TypeOK /\ Directory /\ DiskIsInOrder /\ Fits(proc[Shell])
  BY <1>1 DEF IInv, InPlace, Me
<1>3. ~proc[Shell].sought
  BY <1>1, <1>2 DEF Fits, Transfers, BootStages, FatStages, FatWrites, DirStages, EntryStages
<1>4. PICK q \in Locals :
        /\ q = [proc[Shell] EXCEPT !.at = at, !.job = j]
        /\ q.at = at /\ q.job = j /\ q.sought = proc[Shell].sought
  <2> DEFINE s == [proc[Shell] EXCEPT !.at = at, !.job = j]
  <2>1. proc[Shell] \in Locals
    BY DEF IInv, TypeOK, Procs
  <2>2. at \in Stages
    BY DEF Stages, Transfers, BootStages
  <2>3. s \in Locals /\ s.at = at /\ s.job = j /\ s.sought = proc[Shell].sought
    BY <2>1, <2>2 DEF Locals
  <2> QED
    BY <2>3
<1>4a. proc' = [proc EXCEPT ![Shell] = q] /\ q.at = at /\ ~q.sought /\ q.job = j
  <2>1. proc' = [proc EXCEPT ![Shell] = q]
    <3>1. q = [proc[Shell] EXCEPT !.at = at, !.job = j]
      BY <1>4
    <3>2. proc' = [proc EXCEPT ![Shell] = [proc[Shell] EXCEPT !.at = at, !.job = j]]
      BY <1>1
    <3> QED
      BY <3>1, <3>2, Zenon
  <2>2. ~q.sought
    BY <1>3, <1>4
  <2> QED
    BY <1>4, <2>1, <2>2
<1>5. printed' \in Seq(ShownNames \cup Data \cup {Blank, "entry"})
  BY <1>1
<1>6. TypeOK'
  BY <1>1, <1>2, <1>4a, <1>5 DEF TypeOK
<1>7. DiskIsInOrder' /\ Directory'
  BY <1>1, <1>2 DEF DiskIsInOrder, Directory, Used, Taken
<1>8. Fits(q)'
  BY <1>1, <1>4a DEF Fits, WriteStages, ReadStages
<1>9. Scans(q)' /\ Places(q)' /\ Owns(q)' /\ Finds(q)' /\ Prints(q)'
  BY <1>1, <1>4a DEF Scans, Places, Owns, Finds, Prints, DirStages, ReadStages
<1>10. Shell \in Procs
  BY DEF Procs
<1> QED
  BY <1>1, <1>4a, <1>6, <1>7, <1>8, <1>9, <1>10, AnyStep DEF InPlace

LEMMA ExecuteCommandStep ==
  ASSUME IInv, NEW k \in Kids, NEW j \in KidJobs, execute_command(k, j, FALSE)
  PROVE  IInv'
<1>1. /\ proc[Shell].at = "idle" /\ foreground = Shell /\ proc[k].at = "idle"
      /\ proc' = [proc EXCEPT ![k] = [proc[Shell] EXCEPT !.at = "find", !.job = j],
                              ![Shell].job = NoJob]
      /\ foreground' = k /\ printed' = <<>>
      /\ UNCHANGED <<fat, root, content, spilled, spoilt, offset>>
  BY DEF execute_command, Prompt, disk
<1>2. TypeOK /\ Directory /\ DiskIsInOrder /\ Fits(proc[Shell]) /\ Turns
  BY <1>1 DEF IInv, InPlace, Me
<1>3. ~proc[Shell].sought
  BY <1>1, <1>2 DEF Fits, Transfers, BootStages, FatStages, FatWrites, DirStages, EntryStages
<1>4. k # Shell /\ k \in Procs /\ Shell \in Procs
  BY KidsAssumption DEF Procs
<1>5. PICK q \in Locals :
        /\ q = [proc[Shell] EXCEPT !.at = "find", !.job = j]
        /\ q.at = "find" /\ q.job = j /\ q.sought = proc[Shell].sought
  <2> DEFINE s == [proc[Shell] EXCEPT !.at = "find", !.job = j]
  <2>1. proc[Shell] \in Locals
    BY DEF IInv, TypeOK, Procs
  <2>2. "find" \in Stages
    BY DEF Stages, Transfers, BootStages
  <2>3. s \in Locals /\ s.at = "find" /\ s.job = j /\ s.sought = proc[Shell].sought
    BY <2>1, <2>2 DEF Locals
  <2> QED
    BY <2>3
<1>5a. ~q.sought
  BY <1>3, <1>5
<1>6. PICK s \in Locals :
        /\ s = [proc[Shell] EXCEPT !.job = NoJob]
        /\ s.at = "idle" /\ ~s.sought /\ s.job = NoJob
  <2>1. proc[Shell] \in Locals
    BY <1>2, <1>4 DEF TypeOK
  <2> DEFINE s == [proc[Shell] EXCEPT !.job = NoJob]
  <2>2. s \in Locals /\ s.at = "idle" /\ ~s.sought /\ s.job = NoJob
    BY <1>1, <1>3, <2>1 DEF Locals
  <2> QED BY <2>2
<1>7. /\ proc'[k] = q /\ proc'[Shell] = s
      /\ \A p \in Procs : p \notin {k, Shell} => proc'[p] = proc[p]
      /\ proc' \in [Procs -> Locals]
  BY <1>1, <1>2, <1>4, <1>5, <1>6 DEF TypeOK
<1>8. printed' \in Seq(ShownNames \cup Data \cup {Blank, "entry"})
  BY <1>1
<1>9. TypeOK'
  BY <1>1, <1>2, <1>4, <1>7, <1>8 DEF TypeOK
<1>10. Turns'
  BY <1>1, <1>2, <1>4, <1>6, <1>7 DEF Turns
<1>11. OnCourse'
  BY <1>1, <1>5, <1>5a, <1>7, <1>10 DEF OnCourse, Turns
<1>12. DiskIsInOrder' /\ Directory' /\ LsIsComplete'
  BY <1>1, <1>2, <1>6, <1>7 DEF DiskIsInOrder, Directory, LsIsComplete, Used, Taken, NoJob, Job
<1>13. Me' = q
  BY <1>1, <1>7 DEF Me
<1>14. Fits(q)'
  BY <1>1, <1>4, <1>5, <1>5a DEF Fits, KidJobs, Job, WriteStages, ReadStages
<1>15. Scans(q)' /\ Places(q)' /\ Owns(q)' /\ Finds(q)' /\ Prints(q)'
  BY <1>1, <1>5, <1>5a DEF Scans, Places, Owns, Finds, Prints, DirStages, ReadStages
<1>16. InPlace(Me)'
  BY <1>13, <1>14, <1>15 DEF InPlace, Fits, Scans, Places, Owns, Finds, Prints
<1> QED
  BY <1>9, <1>10, <1>11, <1>12, <1>16 DEF IInv

LEMMA KidEndsStep ==
  ASSUME IInv, NEW k \in Kids, KidEnds(k)
  PROVE  IInv'
<1>1. /\ proc[k].at # "idle" /\ proc' = [proc EXCEPT ![k] = Idle]
      /\ foreground' = IF foreground = k THEN Shell ELSE foreground
      /\ UNCHANGED <<fat, root, content, spilled, spoilt, offset, printed>>
  BY DEF KidEnds, disk
<1>2. TypeOK /\ Directory /\ DiskIsInOrder /\ Turns
  BY DEF IInv
<1>3. k # Shell /\ k \in Procs /\ Shell \in Procs
  BY KidsAssumption DEF Procs
<1>4. k = foreground /\ proc[Shell].job = NoJob /\ proc[Shell].at = "idle" /\ ~proc[Shell].sought
  BY <1>1, <1>2, <1>3 DEF Turns
<1>5. /\ proc'[k].at = "idle" /\ ~proc'[k].sought
      /\ \A p \in Procs : p # k => proc'[p] = proc[p]
      /\ foreground' = Shell
  BY <1>1, <1>2, <1>3, <1>4, IdleFacts DEF TypeOK
<1>6. TypeOK'
  BY <1>1, <1>2, <1>3, <1>5, IdleFacts DEF TypeOK
<1>7. \A p \in Procs : proc'[p].at = "idle" /\ ~proc'[p].sought
  BY <1>2, <1>4, <1>5 DEF Turns
<1>8. Turns' /\ OnCourse'
  BY <1>5, <1>7 DEF Turns, OnCourse
<1>9. DiskIsInOrder' /\ Directory' /\ LsIsComplete'
  BY <1>1, <1>2, <1>3, <1>4, <1>5
     DEF DiskIsInOrder, Directory, LsIsComplete, Used, Taken, NoJob, Job
<1>10. InPlace(Me)'
  <2>1. (proc[foreground].at = "idle")' /\ (~proc[foreground].sought)'
    BY <1>3, <1>5, <1>7
  <2> QED
    BY <2>1 DEF Me, InPlace, Fits, Scans, Places, Owns, Finds, Prints, WriteStages,
                ReadStages, DirStages
<1> QED
  BY <1>6, <1>8, <1>9, <1>10 DEF IInv

LEMMA CrashStep ==
  ASSUME IInv, Crash
  PROVE  IInv'
<1>1. /\ proc' = [p \in Procs |-> Idle] /\ foreground' = Shell
      /\ offset' = Boot /\ printed' = <<>>
      /\ UNCHANGED <<fat, root, content, spilled, spoilt>>
  BY DEF Crash, disk
<1>2. TypeOK /\ Directory /\ DiskIsInOrder
  BY DEF IInv
<1>3. Shell \in Procs
  BY DEF Procs
<1>4. \A p \in Procs : proc'[p].at = "idle" /\ ~proc'[p].sought /\ proc'[p].job = NoJob
  BY <1>1, IdleFacts
<1>5. printed' \in Seq(ShownNames \cup Data \cup {Blank, "entry"})
  BY <1>1
<1>6. proc' \in [Procs -> Locals] /\ offset' \in Nat
  BY <1>1, IdleFacts DEF Boot
<1>7. TypeOK'
  BY <1>1, <1>2, <1>3, <1>5, <1>6 DEF TypeOK
<1>8. Turns' /\ OnCourse'
  BY <1>1, <1>4 DEF Turns, OnCourse
<1>9. DiskIsInOrder' /\ Directory' /\ LsIsComplete'
  BY <1>1, <1>2, <1>3, <1>4 DEF DiskIsInOrder, Directory, LsIsComplete, Used, Taken, NoJob, Job
<1>10. InPlace(Me)'
  <2>1. (proc[foreground].at = "idle")' /\ (~proc[foreground].sought)'
    BY <1>1, <1>3, <1>4
  <2> QED
    BY <2>1 DEF Me, InPlace, Fits, Scans, Places, Owns, Finds, Prints, WriteStages,
                ReadStages, DirStages
<1> QED
  BY <1>7, <1>8, <1>9, <1>10 DEF IInv

-----------------------------------------------------------------------------
LEMMA InitIInv ==
  ASSUME Init
  PROVE  IInv
<1>1. /\ fat = [c \in Clusters |-> Free]
      /\ root = [i \in Slots |-> Entry(Unused, 0)]
      /\ content = [c \in Clusters |-> Blank]
      /\ spilled = Entry(Unused, 0)
      /\ spoilt = FALSE /\ offset = Boot
      /\ proc = [p \in Procs |-> Idle]
      /\ foreground = Shell /\ printed = <<>>
  BY DEF Init
<1>2. Entry(Unused, 0) \in Entries /\ Entry(Unused, 0).name = Unused
      /\ Entry(Unused, 0).cluster = 0
  BY DEF Entry, Entries
<1>3. Shell \in Procs
  BY DEF Procs
<1>4. \A p \in Procs : proc[p].at = "idle" /\ ~proc[p].sought /\ proc[p].job = NoJob
  BY <1>1, IdleFacts
<1>5. /\ printed \in Seq(ShownNames \cup Data \cup {Blank, "entry"})
      /\ proc \in [Procs -> Locals]
  BY <1>1, IdleFacts
<1>6. \A i \in Slots : root[i].name = Unused /\ root[i].cluster = 0
  BY <1>1, <1>2
<1>7. TypeOK
  BY <1>1, <1>2, <1>3, <1>5 DEF TypeOK, Boot
<1>8. Turns /\ OnCourse
  BY <1>1, <1>4 DEF Turns, OnCourse
<1>9. DiskIsInOrder
  BY <1>1, <1>6 DEF DiskIsInOrder, Used
<1>10. Directory /\ LsIsComplete
  BY <1>1, <1>2, <1>3, <1>4, <1>6 DEF Directory, LsIsComplete, Used, NoJob, Job
<1>11. InPlace(Me)
  <2>1. Me.at = "idle" /\ ~Me.sought
    BY <1>1, <1>3, <1>4 DEF Me
  <2> QED
    BY <2>1 DEF InPlace, Fits, Scans, Places, Owns, Finds, Prints, WriteStages,
                ReadStages, DirStages
<1> QED
  BY <1>7, <1>8, <1>9, <1>10, <1>11 DEF IInv

LEMMA CommandJobs ==
  /\ Job("ls", "none", Blank) \in ShellJobs
  /\ \A n \in Names :
        /\ Job("cat", n, Blank) \in ShellJobs
        /\ Job("read", n, Blank) \in ShellJobs
        /\ \A d \in Data : Job("write", n, d) \in ShellJobs
  /\ \A w, n, d : Job(w, n, d).what = w /\ Job(w, n, d).name = n /\ Job(w, n, d).data = d
BY DEF ShellJobs, Job

(* No process goes astray.                                                 *)
LEMMA OffsetIsRight == IInv => \A p \in Procs : OffsetFits(proc[p])
<1> SUFFICES ASSUME IInv, NEW p \in Procs PROVE OffsetFits(proc[p])
  OBVIOUS
<1>1. proc[p].sought => offset = Aim(proc[p])
  BY DEF IInv, OnCourse
<1>2. CASE proc[p].at \in {"back", "tell", "keep"}
  <2>1. Places(proc[p]) /\ Finds(proc[p]) /\ proc[p] \in Locals
    BY <1>2, InItsPlace
  <2>2. \A i \in Slots \cup {AfterRoot} : /\ offset = RootAt(i) + 1 => SlotBefore = i
                                          /\ offset = RootAt(i) => SlotBefore + 1 = i
    BY Constants, RootAssumption, ClusterAssumption
       DEF SlotBefore, RootAt, Slots, AfterRoot, IInv, TypeOK
  <2>3. CASE proc[p].at = "back"
    BY <1>1, <2>1, <2>2, <2>3 DEF OffsetFits, Places, FirstFree
  <2>4. CASE proc[p].at = "tell"
    <3>1. proc[p].i \in Slots /\ offset = RootAt(proc[p].i)
      BY <2>1, <2>4, ClusterAssumption DEF Places, FirstFree, RootAt, Slots
    <3> QED
      BY <1>1, <2>2, <2>4, <3>1 DEF OffsetFits
  <2>5. CASE proc[p].at = "keep" /\ Writes(proc[p])
    <3>1. /\ proc[p].dir_entry_offset \in Slots \cup {AfterRoot}
          /\ offset = RootAt(proc[p].dir_entry_offset) + 1
      BY <2>1, <2>5 DEF Places, FirstFree, InSpill
    <3> QED
      BY <1>1, <2>2, <2>5, <3>1 DEF OffsetFits
  <2>6. CASE proc[p].at = "keep" /\ ~Writes(proc[p])
    BY <1>1, <2>1, <2>2, <2>6 DEF OffsetFits, Finds
  <2> QED
    BY <1>2, <2>3, <2>4, <2>5, <2>6
<1>3. CASE proc[p].at \notin {"back", "tell", "keep"}
  BY <1>1, <1>3 DEF OffsetFits
<1> QED
  BY <1>2, <1>3

LEMMA NextIInv ==
  ASSUME ~Background, IInv, [Next]_vars
  PROVE  IInv'
<1>1. CASE UNCHANGED vars
  <2>1. UNCHANGED <<fat, root, content, spilled, spoilt, offset, proc, foreground, printed>>
    BY <1>1 DEF vars, disk
  <2>2. TypeOK' /\ OnCourse' /\ DiskIsInOrder' /\ LsIsComplete' /\ Turns' /\ Directory'
    BY <2>1 DEF IInv, TypeOK, OnCourse, Aim, DiskIsInOrder, LsIsComplete, Turns,
                Directory, Used, Taken
  <2>3. InPlace(Me)
    BY DEF IInv
  <2>4. Fits(Me)' /\ Scans(Me)' /\ Prints(Me)'
    BY <2>1, <2>3 DEF InPlace, Me, Fits, Scans, Prints, Writes, Used
  <2>5. Places(Me)'
    BY <2>1, <2>3 DEF InPlace, Me, Places, Writes, FirstFree, InSpill, Used
  <2>6. Owns(Me)'
    BY <2>1, <2>3 DEF InPlace, Me, Owns, Writes, FirstFree, InSpill, Used, Taken
  <2>7. Finds(Me)'
    <3>1. \A n : Visible(n)' = Visible(n)
      BY <2>1, DiskUnchanged
    <3> QED
      BY <2>1, <2>3, <3>1 DEF InPlace, Me, Finds, Writes, IsFound
  <2> QED
    BY <2>2, <2>4, <2>5, <2>6, <2>7 DEF IInv, InPlace
<1>2. ASSUME NEW p \in Procs, Step(p)
      PROVE  IInv'
  BY <1>2, SeekStep, ReadBootStep, FindFileStep, FindFreeStep, SeekBackStep, TellStep,
     PutBackStep, KeepOffsetStep, BeginWriteStep, AllocateStep, WriteFatStep,
     WriteDataStep, WriteNothingStep, FinishWriteStep, ReadDataStep, ReadFatStep,
     ReaddirStep DEF Step
<1>3. ASSUME ls_command
      PROVE  IInv'
  BY <1>3, RunStep, CommandJobs DEF ls_command
<1>4. ASSUME NEW n \in Names, cat_command(n) \/ read_command(n)
      PROVE  IInv'
  BY <1>4, RunStep, CommandJobs DEF cat_command, read_command
<1>5. ASSUME NEW n \in Names, NEW d \in Data, write_command(n, d)
      PROVE  IInv'
  BY <1>5, RunStep, CommandJobs DEF write_command
<1>6. ASSUME NEW k \in Kids, NEW j \in KidJobs, NEW background \in {FALSE, Background},
             execute_command(k, j, background)
      PROVE  IInv'
  BY <1>6, ExecuteCommandStep, BackgroundAssumption
<1>7. ASSUME NEW k \in Kids, KidEnds(k)
      PROVE  IInv'
  BY <1>7, KidEndsStep
<1>8. ASSUME Crash
      PROVE  IInv'
  BY <1>8, CrashStep
<1>9. ASSUME NEW p \in Procs, GoesAstray(p)
      PROVE  FALSE
  BY <1>9, OffsetIsRight DEF GoesAstray
<1> QED
  BY <1>1, <1>2, <1>3, <1>4, <1>5, <1>6, <1>7, <1>8, <1>9 DEF Next

(* The inductive invariant: one process is at work on the image, it is     *)
(* where its last lseek has put it, what it has taken on the disk is its   *)
(* own, and the disk is in order.                                          *)
THEOREM DiskShellIInv == ~Background => (Spec => []IInv)
<1> SUFFICES ASSUME ~Background PROVE Spec => []IInv
  OBVIOUS
<1>1. Init => IInv
  BY InitIInv
<1>2. IInv /\ [Next]_vars => IInv'
  BY NextIInv
<1> QED
  BY <1>1, <1>2, PTL DEF Spec

-----------------------------------------------------------------------------
(* The properties of the runs, for every instance.                         *)

(* Without background children no transfer goes astray, and no entry's     *)
(* place is computed from another process's offset.                        *)
THEOREM NothingGoesAstray == ~Background => (Spec => []~Astray)
<1> SUFFICES ASSUME ~Background PROVE Spec => []~Astray
  OBVIOUS
<1>1. IInv => ~Astray
  <2> SUFFICES ASSUME IInv, NEW p \in Procs PROVE proc[p].at # "astray"
    BY DEF Astray
  <2>1. CASE p = foreground
    BY <2>1 DEF IInv, InPlace, Fits, Me
  <2>2. CASE p # foreground
    BY <2>2 DEF IInv, Turns
  <2> QED
    BY <2>1, <2>2
<1> QED
  BY <1>1, DiskShellIInv, PTL

(* Whoever reads or writes the image does so where he has put the offset,  *)
(* whichever process was cut off before, and wherever.                     *)
THEOREM StaysOnCourse == ~Background => (Spec => []OnCourse)
<1> SUFFICES ASSUME ~Background PROVE Spec => []OnCourse
  OBVIOUS
<1>1. IInv => OnCourse
  BY DEF IInv
<1> QED
  BY <1>1, DiskShellIInv, PTL

(* The disk is in order between any two system calls, and so after a       *)
(* crash.                                                                  *)
THEOREM DiskStaysInOrder == ~Background => (Spec => []DiskIsInOrder)
<1> SUFFICES ASSUME ~Background PROVE Spec => []DiskIsInOrder
  OBVIOUS
<1>1. IInv => DiskIsInOrder
  BY DEF IInv
<1> QED
  BY <1>1, DiskShellIInv, PTL

(* When ls has ended in a directory with room, it has printed every name.  *)
THEOREM LsPrintsAll == ~Background => (Spec => []LsIsComplete)
<1> SUFFICES ASSUME ~Background PROVE Spec => []LsIsComplete
  OBVIOUS
<1>1. IInv => LsIsComplete
  BY DEF IInv
<1> QED
  BY <1>1, DiskShellIInv, PTL

-----------------------------------------------------------------------------
(* DiskShell implements Files.                                             *)

(* Commands keep what they are to do.                                      *)
LEMMA JobKept ==
  ASSUME IInv, NEW p \in Procs, Step(p)
  PROVE  \A r \in Procs : proc'[r].job = proc[r].job
<1>1. TypeOK /\ proc[p] \in Locals
  BY DEF IInv, TypeOK
<1>2. ASSUME NEW q, proc' = [proc EXCEPT ![p] = q], q.job = proc[p].job
      PROVE  \A r \in Procs : proc'[r].job = proc[r].job
  BY <1>1, <1>2 DEF TypeOK
<1>3. Ended(p).job = proc[p].job
  BY DEF Ended, Idle
<1>4. CASE Seek(p)
  BY <1>1, <1>2, <1>4 DEF Seek, Locals
<1>5. CASE ReadBoot(p)
  BY <1>1, <1>2, <1>3, <1>5 DEF ReadBoot, Continue, Go, ReadNext, AfterRead, Ended, Idle, Locals
<1>6. CASE find_file(p)
  BY <1>1, <1>2, <1>3, <1>6 DEF find_file, Continue, Go, ReadNext, AfterRead, Ended, Idle, Locals
<1>7. CASE find_free_root_entry(p)
  BY <1>1, <1>2, <1>3, <1>7 DEF find_free_root_entry, Continue, Go, ReadNext, AfterRead, Ended, Idle, Locals
<1>8. CASE SeekBack(p)
  BY <1>1, <1>2, <1>3, <1>8 DEF SeekBack, Continue, Go, ReadNext, AfterRead, Ended, Idle, Locals
<1>9. CASE Tell(p)
  BY <1>1, <1>2, <1>3, <1>9 DEF Tell, Continue, Go, ReadNext, AfterRead, Ended, Idle, Locals
<1>10. CASE PutBack(p)
  BY <1>1, <1>2, <1>3, <1>10 DEF PutBack, Continue, Go, ReadNext, AfterRead, Ended, Idle, Locals
<1>11. CASE KeepOffset(p)
  BY <1>1, <1>2, <1>3, <1>11 DEF KeepOffset, Continue, Go, ReadNext, AfterRead, Ended, Idle, Locals
<1>12. CASE BeginWrite(p)
  BY <1>1, <1>2, <1>3, <1>12 DEF BeginWrite, Continue, Go, ReadNext, AfterRead, Ended, Idle, Locals
<1>13. CASE allocate_cluster(p)
  BY <1>1, <1>2, <1>3, <1>13 DEF allocate_cluster, Continue, Go, ReadNext, AfterRead, Ended, Idle, Locals
<1>14. CASE WriteFat(p)
  BY <1>1, <1>2, <1>3, <1>14 DEF WriteFat, Continue, Go, ReadNext, AfterRead, Ended, Idle, Locals
<1>15. CASE WriteData(p)
  BY <1>1, <1>2, <1>3, <1>15 DEF WriteData, Continue, Go, ReadNext, AfterRead, Ended, Idle, Locals
<1>16. CASE WriteNothing(p)
  BY <1>1, <1>2, <1>3, <1>16 DEF WriteNothing, Continue, Go, ReadNext, AfterRead, Ended, Idle, Locals
<1>17. CASE FinishWrite(p)
  BY <1>1, <1>2, <1>3, <1>17 DEF FinishWrite, Continue, Go, ReadNext, AfterRead, Ended, Idle, Locals
<1>18. CASE ReadData(p)
  BY <1>1, <1>2, <1>3, <1>18 DEF ReadData, Continue, Go, ReadNext, AfterRead, Ended, Idle, Locals
<1>19. CASE ReadFat(p)
  BY <1>1, <1>2, <1>3, <1>19 DEF ReadFat, Continue, Go, ReadNext, AfterRead, Ended, Idle, Locals
<1>20. CASE fat16_readdir(p)
  BY <1>1, <1>2, <1>3, <1>20 DEF fat16_readdir, Continue, Go, ReadNext, AfterRead, Ended, Idle, Locals
<1> QED
  BY <1>4, <1>5, <1>6, <1>7, <1>8, <1>9, <1>10, <1>11, <1>12, <1>13, <1>14, <1>15, <1>16, <1>17, <1>18, <1>19, <1>20 DEF Step

LEMMA SameFiles ==
  ASSUME UNCHANGED <<root, content>>
  PROVE  File' = File
<1>1. \A n : Visible(n)' = Visible(n)
  BY DiskUnchanged
<1> QED
  BY <1>1 DEF File

(* Nothing happens to the files.                                           *)
LEMMA AskImplements ==
  ASSUME UNCHANGED spoilt, File' = File,
         \/ printed' = <<>>
         \/ UNCHANGED printed /\ proc'[Shell].job = proc[Shell].job
         \/ proc'[Shell].job.what = "ls"
  PROVE  Promise!Next
<1>1. LastShown' \in {LastShown, <<>>}
  BY DEF LastShown
<1> QED
  BY <1>1 DEF Promise!Next, Promise!Ask

(* Data in a cluster of no file.                                           *)
LEMMA WriteDataImplements ==
  ASSUME IInv, NEW p \in Procs, WriteData(p), ~spoilt
  PROVE  Promise!Next
<1> DEFINE c == proc[p].cluster
<1>1. /\ proc[p].at = "data" /\ Writes(proc[p])
      /\ content' = [content EXCEPT ![c] = proc[p].job.data]
      /\ UNCHANGED <<root, spoilt, printed>>
  BY DEF WriteData, Transfer, Writes
<1>2. \A i \in Slots : root[i].cluster # c
  BY <1>1, InItsPlace DEF Owns, InSpill
<1>3. content \in [Clusters -> Data \cup {Blank, "entry"}]
  BY DEF IInv, TypeOK
<1> HIDE DEF c
<1>4. \A d : d # c => content'[d] = content[d]
  BY <1>1, <1>3
<1>5. ASSUME NEW n
      PROVE  Visible(n)' = Visible(n)
  <2>1. \A i : IsFound(n, i)' = IsFound(n, i)
    BY <1>1 DEF IsFound
  <2>2. CASE \E i \in Slots : IsFound(n, i)
    <3>1. (CHOOSE i \in Slots : IsFound(n, i)) \in Slots
      BY <2>2
    <3> QED
      BY <1>1, <1>2, <1>4, <2>1, <2>2, <3>1 DEF Visible
  <2>3. CASE ~\E i \in Slots : IsFound(n, i)
    BY <2>1, <2>3 DEF Visible
  <2> QED BY <2>2, <2>3
<1>6. File' = File
  BY <1>5 DEF File
<1>7. proc'[Shell].job = proc[Shell].job
  BY JobKept DEF Step, Procs
<1> QED
  BY <1>1, <1>6, <1>7, AskImplements

(* VisibleFacts, one step later.                                           *)
LEMMA VisibleNext ==
  ASSUME NEW n, NEW i \in Slots, IsFound(n, i)'
  PROVE  Visible(n)' = content'[root'[i].cluster]
<1>1. ASSUME NEW j \in Slots, IsFound(n, j)' PROVE j = i
  <2>1. CASE i < j
    BY <1>1, <2>1 DEF IsFound
  <2>2. CASE j < i
    BY <1>1, <2>2 DEF IsFound
  <2> QED BY <2>1, <2>2
<1> QED
  BY <1>1 DEF Visible

(* The entry of a write makes the new file, unless the name is already     *)
(* taken by another one, or is one that no command can give.               *)
LEMMA FinishWriteImplements ==
  ASSUME IInv, NEW p \in Procs, FinishWrite(p), ~spoilt
  PROVE  Promise!Next
<1> DEFINE i == proc[p].dir_entry_offset
           c == proc[p].cluster
           m == Shown[proc[p].job.name]
           d == proc[p].job.data
<1>1. /\ proc[p].at = "entry" /\ WriteEntry(i, Entry(m, c))
      /\ UNCHANGED <<printed, foreground>>
  BY DEF FinishWrite, Transfer
<1>2. /\ Writes(proc[p]) /\ m \in ShownNames /\ Taken(c)
      /\ FirstFree(i) /\ content[c] = d
  BY EntryFacts
<1>3. p = foreground /\ (p # Shell => proc[Shell].job = NoJob)
  BY <1>1, ActsAlone
<1>4. TypeOK /\ DiskIsInOrder
  BY DEF IInv
<1>5. proc'[Shell].job = proc[Shell].job
  BY JobKept DEF Step, Procs
<1>6. d \in Data \cup {Blank} /\ <<m, d>> \in Asked
  <2>1. proc[p].job \in ShellJobs \cup KidJobs
    BY <1>1, InItsPlace DEF Fits
  <2>2. d \in Data \cup {Blank}
    BY <2>1, JobNames
  <2>3. <<m, d>> \in Asked
    BY <1>1, <1>2 DEF Asked
  <2> QED BY <2>2, <2>3
<1>7. LastShown' = LastShown
  <2>1. proc[Shell].job.what \notin {"cat", "read"}
    BY <1>2, <1>3 DEF Writes, NoJob, Job
  <2> QED
    BY <1>5, <2>1 DEF LastShown
<1> HIDE DEF i, c, m, d
<1>8. /\ i \in Slots /\ root' = [root EXCEPT ![i] = Entry(m, c)]
      /\ UNCHANGED <<content, spoilt>>
  BY <1>1, <1>2, FirstFreeIsSlot DEF WriteEntry
<1>9. PICK k \in Slots, x \in ShownNames : k = i /\ x = m
  BY <1>2, <1>8
<1>10. /\ root'[k].name = x /\ root'[k].cluster = c
       /\ \A j \in Slots : j # k => root'[j] = root[j]
  BY <1>4, <1>8, <1>9 DEF TypeOK, Entry
<1>11. /\ \A j \in Slots : Used(j) <=> j < k
       /\ x # Unused
  BY <1>2, <1>4, <1>9, NameFacts DEF FirstFree, DiskIsInOrder
<1>12. ASSUME NEW n \in Names, NEW j \in Slots
       PROVE  IsFound(n, j)' <=> IsFound(n, j) \/ (j = k /\ IsFound(n, k)')
  <2>1. CASE j < k
    <3>1. \A l \in 1 .. j : root'[l] = root[l]
      BY <1>10, <2>1
    <3> QED
      BY <2>1, <3>1 DEF IsFound
  <2>2. CASE j = k
    BY <1>11, <2>2, NameFacts DEF IsFound, Used
  <2>3. CASE j > k
    <3>1. root'[j].name = Unused /\ root[j].name = Unused
      BY <1>10, <1>11, <2>3 DEF Used
    <3> QED
      BY <2>3, <3>1, NameFacts DEF IsFound
  <2> QED BY <2>1, <2>2, <2>3
<1>13. ASSUME NEW n \in Names, \E j \in Slots : IsFound(n, j)
       PROVE  Visible(n)' = Visible(n)
  <2>1. PICK j \in Slots : IsFound(n, j)
    BY <1>13
  <2>2. j # k
    BY <1>11, <2>1, NameFacts DEF IsFound, Used
  <2>3. IsFound(n, j)'
    BY <1>12, <2>1
  <2>4. root'[j] = root[j]
    BY <1>10, <2>2
  <2> QED
    BY <1>8, <2>1, <2>3, <2>4, VisibleFacts, VisibleNext
<1>14. ASSUME NEW n \in Names, ~\E j \in Slots : IsFound(n, j), ~IsFound(n, k)'
       PROVE  Visible(n)' = Visible(n)
  <2>1. ~\E j \in Slots : IsFound(n, j)'
    BY <1>12, <1>14
  <2> QED
    BY <1>14, <2>1 DEF Visible
<1>15. ASSUME NEW n \in Names, ~\E j \in Slots : IsFound(n, j), IsFound(n, k)'
       PROVE  n = x /\ Visible(n)' = d /\ Visible(n) = "absent"
  <2>1. n = x
    BY <1>10, <1>15 DEF IsFound
  <2>2. Visible(n)' = d
    BY <1>2, <1>8, <1>10, <1>15, VisibleNext
  <2> QED
    BY <1>15, <2>1, <2>2 DEF Visible
<1>16. CASE x \in Names /\ (~\E j \in Slots : IsFound(x, j)) /\ IsFound(x, k)'
  <2>1. PICK n \in Names : n = x
    BY <1>16
  <2>2. Visible(n)' = d /\ File[n] = "absent"
    <3>1. (~\E j \in Slots : IsFound(n, j)) /\ IsFound(n, k)'
      BY <1>10, <1>16, <2>1 DEF IsFound
    <3> QED
      BY <1>15, <3>1 DEF File
  <2>3. \A o \in Names : o # n => Visible(o)' = Visible(o)
    BY <1>13, <1>14, <1>15, <2>1
  <2>4. File' = [File EXCEPT ![n] = d]
    BY <2>2, <2>3 DEF File
  <2>5. Promise!Create(n, d)
    BY <1>6, <1>7, <1>9, <2>1, <2>2, <2>4 DEF Promise!Create, Promise!Absent
  <2> QED
    BY <1>6, <1>8, <2>5 DEF Promise!Next
<1>17. CASE ~(x \in Names /\ (~\E j \in Slots : IsFound(x, j)) /\ IsFound(x, k)')
  <2>1. \A n \in Names : Visible(n)' = Visible(n)
    BY <1>13, <1>14, <1>15, <1>17
  <2>2. File' = File
    BY <2>1 DEF File
  <2> QED
    BY <1>1, <1>5, <1>8, <2>2, AskImplements
<1> QED
  BY <1>16, <1>17

(* What cat and read print is what the file holds.                         *)
LEMMA ReadDataImplements ==
  ASSUME IInv, NEW p \in Procs, ReadData(p)
  PROVE  Promise!Next
<1>1. /\ ~Writes(proc[p]) /\ proc[p].at = "data"
      /\ proc' = [proc EXCEPT ![p] = Go(p, "next")]
      /\ printed' = IF p = Shell THEN Append(printed, content[proc[p].cluster])
                    ELSE printed
      /\ UNCHANGED <<root, content, spoilt>>
  BY DEF ReadData, Transfer, Continue, disk
<1>2. /\ p = foreground /\ proc[p] \in Locals
      /\ Fits(proc[p]) /\ Finds(proc[p]) /\ Prints(proc[p])
  BY <1>1, InItsPlace
<1>3. File' = File
  BY <1>1, SameFiles
<1>4. \A r \in Procs : proc'[r].job = proc[r].job
  BY JobKept DEF Step
<1>5. CASE p # Shell
  BY <1>1, <1>3, <1>4, <1>5, AskImplements DEF Procs
<1>6. CASE p = Shell
  <2>1. /\ proc[p].job \in ShellJobs
        /\ proc[p].job.what \in {"cat", "read"} /\ proc[p].job.name \in Names
    <3>1. proc[p].job \in ShellJobs /\ proc[p].job.what # "ls"
      BY <1>1, <1>2, <1>6 DEF Fits
    <3>2. \A j \in ShellJobs : j.what \in {"write", "cat", "read", "ls"}
      BY DEF ShellJobs, Job
    <3> QED
      BY <1>1, <3>1, <3>2, JobNames DEF Writes
  <2>2. PICK n \in Names : n = proc[p].job.name
    BY <2>1
  <2>3. printed = <<>>
    BY <1>1, <1>2, <1>6 DEF Prints
  <2>4. Visible(n) = content[proc[p].cluster] /\ proc[p].cluster \in Clusters
    BY <1>1, <1>2, <2>2 DEF Finds
  <2>5. File[n] = content[proc[p].cluster] /\ File[n] # "absent"
    <3>1. content[proc[p].cluster] \in Data \cup {Blank, "entry"}
      BY <2>4 DEF IInv, TypeOK
    <3> QED
      BY <2>4, <3>1, NamesAssumption DEF File, Blank
  <2>6. printed' # <<>> /\ printed' = <<File[n]>>
    BY <1>1, <1>6, <2>3, <2>5
  <2>7. LastShown' = <<n, <<File[n]>>>>
    BY <1>4, <1>6, <2>1, <2>2, <2>6 DEF LastShown
  <2>8. Asked' = Asked
    <3>1. \A r \in Procs : proc'[r].at # "idle" /\ Writes(proc'[r])
                             <=> proc[r].at # "idle" /\ Writes(proc[r])
      <4>1. \A r \in Procs : r # p => proc'[r] = proc[r]
        BY <1>1 DEF IInv, TypeOK
      <4>2. ~Writes(proc'[p])
        BY <1>1, <1>4 DEF Writes
      <4> QED
        BY <1>1, <4>1, <4>2
    <3>2. {q \in Procs : proc'[q].at # "idle" /\ Writes(proc'[q])}
            = {q \in Procs : proc[q].at # "idle" /\ Writes(proc[q])}
      BY <3>1
    <3>3. Asked' = {<<Shown[proc'[r].job.name], proc'[r].job.data>> :
                      r \in {q \in Procs : proc'[q].at # "idle" /\ Writes(proc'[q])}}
      BY DEF Asked, Writes
    <3> QED
      BY <1>4, <3>2, <3>3 DEF Asked
  <2> QED
    BY <1>1, <1>3, <2>5, <2>7, <2>8 DEF Promise!Next, Promise!Show, Promise!Absent
<1> QED
  BY <1>5, <1>6

(* The steps that change no file and print nothing of one.                 *)
LEMMA OtherStepsImplement ==
  ASSUME IInv, NEW p \in Procs, Step(p), UNCHANGED <<root, content, spoilt>>,
         UNCHANGED printed \/ fat16_readdir(p)
  PROVE  Promise!Next
<1>1. File' = File
  BY SameFiles
<1>2. proc'[Shell].job = proc[Shell].job
  BY JobKept DEF Procs
<1>3. ASSUME fat16_readdir(p)
      PROVE  proc[Shell].job.what = "ls"
  <2>1. proc[p].at = "list"
    BY <1>3 DEF fat16_readdir, Transfer
  <2>2. Fits(proc[p]) /\ p = foreground
    BY <2>1, InItsPlace
  <2>3. proc[p].job.what = "ls"
    BY <2>1, <2>2 DEF Fits
  <2>4. p = Shell
    BY <2>1, <2>2, <2>3 DEF Fits, KidJobs, Job
  <2> QED
    BY <2>3, <2>4
<1> QED
  BY <1>1, <1>2, <1>3, AskImplements

LEMMA StepImplements ==
  ASSUME IInv, IInv', NEW p \in Procs, Step(p)
  PROVE  Promise!Next
<1>1. CASE spoilt'
  BY <1>1 DEF Promise!Next
<1>2. CASE ~spoilt'
  <2>1. ASSUME PutBack(p) \/ FinishWrite(p)
        PROVE  ~spoilt
    BY <1>2, <2>1 DEF PutBack, FinishWrite, WriteEntry
  <2>2. CASE FinishWrite(p)
    BY <2>1, <2>2, FinishWriteImplements
  <2>3. CASE PutBack(p)
    <3> DEFINE i == proc[p].dir_entry_offset
    <3>1. /\ proc[p].at = "putBack" /\ WriteEntry(i, proc[p].entry) /\ UNCHANGED printed
      BY <2>3 DEF PutBack, Transfer
    <3>2. i # AfterRoot
      BY <1>2, <3>1 DEF WriteEntry
    <3>3. i \in Slots /\ proc[p].entry = root[i]
      BY <3>1, <3>2, InItsPlace DEF Places, FirstFree
    <3>4. root' = [root EXCEPT ![i] = root[i]] /\ UNCHANGED <<content, spoilt>>
      BY <3>1, <3>2, <3>3 DEF WriteEntry
    <3>5. UNCHANGED root
      BY <3>3, <3>4 DEF IInv, TypeOK
    <3> QED
      BY <3>1, <3>4, <3>5, OtherStepsImplement
  <2>4. CASE WriteData(p)
    <3>1. ~spoilt
      BY <1>2, <2>4 DEF WriteData
    <3> QED
      BY <2>4, <3>1, WriteDataImplements
  <2>5. CASE ReadData(p)
    BY <2>5, ReadDataImplements
  <2>6. CASE WriteFat(p)
    <3>1. UNCHANGED <<root, content, spoilt, printed>>
      BY <2>6 DEF WriteFat
    <3> QED
      BY <3>1, OtherStepsImplement
  <2>7. CASE fat16_readdir(p)
    <3>1. UNCHANGED <<root, content, spoilt>>
      BY <2>7 DEF fat16_readdir, disk
    <3> QED
      BY <2>7, <3>1, OtherStepsImplement
  <2>8. CASE ~(\/ FinishWrite(p) \/ PutBack(p) \/ WriteData(p) \/ ReadData(p)
               \/ WriteFat(p) \/ fat16_readdir(p))
    <3>1. UNCHANGED <<disk, printed>>
      BY <2>8 DEF Step, Seek, ReadBoot, find_file, find_free_root_entry, SeekBack, Tell,
                  KeepOffset, BeginWrite, allocate_cluster, WriteNothing, ReadFat
    <3> QED
      BY <3>1, OtherStepsImplement DEF disk
  <2> QED
    BY <2>2, <2>3, <2>4, <2>5, <2>6, <2>7, <2>8
<1> QED
  BY <1>1, <1>2 DEF IInv, TypeOK

LEMMA NextImplements ==
  ASSUME ~Background, IInv, IInv', [Next]_vars
  PROVE  [Promise!Next]_<<File, Asked, LastShown, spoilt>>
<1>1. CASE UNCHANGED vars
  <2>1. UNCHANGED <<root, content, spoilt, proc, printed>>
    BY <1>1 DEF vars, disk
  <2>2. File' = File
    BY <2>1, SameFiles
  <2>3. Asked' = Asked /\ LastShown' = LastShown
    BY <2>1 DEF Asked, LastShown, Writes
  <2> QED
    BY <2>1, <2>2, <2>3
<1>2. ASSUME NEW p \in Procs, Step(p)
      PROVE  Promise!Next
  BY <1>2, StepImplements
<1>3. ASSUME printed' = <<>>, UNCHANGED disk
      PROVE  Promise!Next
  <2>1. File' = File
    BY <1>3, SameFiles DEF disk
  <2> QED
    BY <1>3, <2>1, AskImplements DEF disk
<1>4. ASSUME NEW j, NEW at, Run(j, at)
      PROVE  Promise!Next
  BY <1>3, <1>4 DEF Run
<1>5. ASSUME NEW k \in Kids, NEW j \in KidJobs, NEW background \in {FALSE, Background},
             execute_command(k, j, background)
      PROVE  Promise!Next
  BY <1>3, <1>5 DEF execute_command
<1>6. ASSUME NEW k \in Kids, KidEnds(k)
      PROVE  Promise!Next
  <2>1. UNCHANGED <<disk, printed>> /\ proc'[Shell].job = proc[Shell].job
    BY <1>6, KidsAssumption DEF KidEnds, IInv, TypeOK, Procs
  <2>2. File' = File
    BY <2>1, SameFiles DEF disk
  <2> QED
    BY <2>1, <2>2, AskImplements DEF disk
<1>7. ASSUME Crash
      PROVE  Promise!Next
  BY <1>3, <1>7 DEF Crash
<1>8. ASSUME NEW p \in Procs, GoesAstray(p)
      PROVE  FALSE
  BY <1>8, OffsetIsRight DEF GoesAstray
<1> QED
  BY <1>1, <1>2, <1>4, <1>5, <1>6, <1>7, <1>8
     DEF Next, ls_command, cat_command, read_command, write_command

LEMMA InitImplements ==
  ASSUME Init
  PROVE  Promise!Init
<1>1. \A i \in Slots : root[i].name = Unused
  BY DEF Init, Entry
<1>2. ASSUME NEW n \in Names
      PROVE  Visible(n) = "absent"
  BY <1>1, NameFacts DEF Visible, IsFound
<1>3. File = [n \in Names |-> "absent"]
  BY <1>2 DEF File
<1>4. Asked = {}
  BY IdleFacts DEF Init, Asked
<1>5. LastShown = <<>>
  BY DEF Init, LastShown
<1>6. spoilt = FALSE
  BY DEF Init
<1> QED
  BY <1>3, <1>4, <1>5, <1>6 DEF Promise!Init, Promise!Absent

(* The shell on the driver implements Files: a command, or a redirection,  *)
(* makes a whole file at one instant or none, whether it is cut off or     *)
(* not, and cat and read print what the file holds.                        *)
THEOREM ImplementsFiles == ~Background => (Spec => FilesAreWhole)
<1> SUFFICES ASSUME ~Background PROVE Spec => FilesAreWhole
  OBVIOUS
<1>1. Init => Promise!Init
  BY InitImplements
<1>2. IInv /\ IInv' /\ [Next]_vars => [Promise!Next]_<<File, Asked, LastShown, spoilt>>
  BY NextImplements
<1>3. Spec => []IInv
  BY DiskShellIInv
<1> QED
  BY <1>1, <1>2, <1>3, PTL DEF Spec, FilesAreWhole, Promise!Spec

=============================================================================
