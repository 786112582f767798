------------------------------- MODULE Fat16 --------------------------------
(***************************************************************************)
(* The FAT-16 driver of src/hw7/src/vfs.c, on an image that format made    *)
(* and only the driver touches.                                            *)
(*                                                                         *)
(* The disk is the boot sector, the first FAT, the root directory and the  *)
(* clusters.  Nothing but 0xFFF8 ever links a cluster, so every chain is   *)
(* one cluster long.  An entry is its name, as find_file composes it, and  *)
(* its first cluster; a name whose first byte is 0x00 is Unused.  Sizes    *)
(* and times of files, which no decision reads, are left out.              *)
(*                                                                         *)
(* The client works through one vnode: it writes to what it opened last,   *)
(* under the name it opened, and no more than a cluster at a time.  A call *)
(* that fails changes nothing and is left out, and so is fat16_rmdir,      *)
(* which never succeeds here: no entry has the attribute of a directory.   *)
(***************************************************************************)
EXTENDS Integers

CONSTANTS Names,        \* the names the client uses
          Shown,        \* the name that find_file sees in an entry made for
                        \* a name: another one if the name has no dot, or is
                        \* longer than 8.3
          Data,         \* what the client writes
          RootEntries,  \* bs.root_entries
          LastCluster,  \* the last cluster that allocate_cluster looks at
          Calls         \* the calls the client makes

ASSUME RootAssumption == RootEntries \in Nat \ {0}
ASSUME ClusterAssumption == LastCluster \in Nat /\ LastCluster >= 2

Slots == 1 .. RootEntries
AfterRoot == RootEntries + 1   \* in the first bytes of cluster 2
Clusters == 2 .. LastCluster

Unused == "unused"
ShownNames == {Shown[n] : n \in Names}

(* A name that an entry shows is shown as itself in an entry made for it.  *)
ASSUME NamesAssumption ==
    /\ Shown = [n \in Names |-> Shown[n]]
    /\ Unused \notin Names \cup ShownNames
    /\ \A n \in Names : Shown[n] \in Names => Shown[Shown[n]] = Shown[n]
    /\ Data \cap {"zero", "entry", "absent"} = {}

VARIABLES
    boot,     \* the boot sector: "ok", or what has overwritten it
    fat,
    root,     \* the entries of the root directory
    content,  \* of the clusters: data, "zero", or "entry"
    spilled,  \* the entry written after the root directory last
    fat_ptr,  \* vn->fs_info.dosfs.fat_ptr
    dir_entry_offset,
    opened,   \* the client's open file
    written,  \* what the client has last written under each name
    plain     \* the client has neither truncated nor removed a file, nor
              \* created one under a name that is shown as another

disk == <<boot, fat, root, content, spilled>>
vars == <<disk, fat_ptr, dir_entry_offset, opened, written, plain>>

-----------------------------------------------------------------------------

Free == 0
Eof == 65528             \* 0xFFF8
EndOfChain == 65535      \* 0xFFFF, in fat_ptr
RootDirOffset == -1      \* in fat_ptr, where opendir leaves an offset

Entry(name, cluster) == [name |-> name, cluster |-> cluster]
Entries == [name : ShownNames \cup {Unused}, cluster : Clusters \cup {0}]

Modes == {"read", "write", "truncate"}
Handle(n, mode) == [name |-> n, mode |-> mode]
NotOpen == Handle("none", "closed")

Init ==
    /\ boot = "ok"
    /\ fat = [c \in Clusters |-> Free]
    /\ root = [i \in Slots |-> Entry(Unused, 0)]
    /\ content = [c \in Clusters |-> "zero"]
    /\ spilled = Entry(Unused, 0)
    /\ fat_ptr = 0
    /\ dir_entry_offset = 1
    /\ opened = NotOpen
    /\ written = [n \in Names |-> "absent"]
    /\ plain = TRUE

-----------------------------------------------------------------------------
(* The searches.                                                           *)

IsFirst(i, S) == i \in S /\ \A j \in S : i <= j

(* find_file looks no further than the first unused entry.                 *)
Hits(n) ==
    {i \in Slots : root[i].name = n /\ \A j \in 1 .. i : root[j].name # Unused}

find_file(n, i) == boot = "ok" /\ IsFirst(i, Hits(n))
Missing(n) == boot = "ok" /\ Hits(n) = {}

FreeSlots == {i \in Slots : root[i].name = Unused}

(* Variant: the last free entry is taken.                                  *)
find_last_root_entry(i) ==
    boot = "ok" /\ i \in FreeSlots /\ \A j \in FreeSlots : j <= i

find_free_root_entry(i) == boot = "ok" /\ IsFirst(i, FreeSlots)

(* Variant: any cluster will do that is not the first.                     *)
allocate_any(c) == c \in Clusters

allocate_cluster(c) == IsFirst(c, {d \in Clusters : fat[d] = Free})

EntryAt(i) == IF i = AfterRoot THEN spilled ELSE root[i]

(* Writing data to a cluster, then an entry at a position.                 *)
WriteEntry(i, e, data) ==
    IF i = AfterRoot
    THEN /\ spilled' = e
         /\ content' = [data EXCEPT ![2] = "entry"]
         /\ UNCHANGED root
    ELSE /\ root' = [root EXCEPT ![i] = e]
         /\ content' = data
         /\ UNCHANGED spilled

-----------------------------------------------------------------------------
(* fat16_open.                                                             *)

(* Variant: the place of the entry is not kept.                            *)
OpenKeepsOffset(n, mode) ==
    /\ \E i \in Slots : find_file(n, i) /\ fat_ptr' = root[i].cluster
    /\ opened' = Handle(n, mode)
    /\ UNCHANGED <<disk, dir_entry_offset, written, plain>>

OpenFound(n, mode) ==
    /\ \E i \in Slots :
          /\ find_file(n, i)
          /\ fat_ptr' = root[i].cluster
          /\ dir_entry_offset' = i
    /\ opened' = Handle(n, mode)
    /\ UNCHANGED <<disk, written, plain>>

(* truncate_file looks for a free entry to write to, reads that over the   *)
(* file's own entry and writes it back; in a full directory it writes the  *)
(* last entry after the directory.  fat16_open then takes the place just   *)
(* written for the file's.                                                 *)
OpenTruncates(n) ==
    /\ \E i \in Slots :
          /\ find_file(n, i)
          /\ fat_ptr' = root[i].cluster
          /\ fat' = [fat EXCEPT ![root[i].cluster] = Eof]
    /\ \/ \E i \in Slots :
             /\ find_free_root_entry(i)
             /\ WriteEntry(i, root[i], content)
             /\ dir_entry_offset' = i
       \/ /\ FreeSlots = {}
          /\ WriteEntry(AfterRoot, root[RootEntries], content)
          /\ dir_entry_offset' = AfterRoot
    /\ opened' = Handle(n, "truncate")
    /\ plain' = FALSE
    /\ UNCHANGED <<boot, written>>

(* find_free_root_entry reads the free entry over the new one, which is    *)
(* then written back as it was.                                            *)
OpenCreates(n, mode) ==
    /\ Missing(n)
    /\ \E i \in Slots :
          /\ find_free_root_entry(i)
          /\ WriteEntry(i, root[i], content)
          /\ dir_entry_offset' = i
    /\ fat_ptr' = 0
    /\ opened' = Handle(n, mode)
    /\ plain' = (plain /\ Shown[n] = n)
    /\ UNCHANGED <<boot, fat, written>>

fat16_open ==
    \E n \in Names :
        \/ "read" \in Calls /\ OpenFound(n, "read")
        \/ "write" \in Calls /\ OpenFound(n, "write")
        \/ "write" \in Calls /\ OpenCreates(n, "write")
        \/ "truncate" \in Calls /\ OpenTruncates(n)
        \/ "truncate" \in Calls /\ OpenCreates(n, "truncate")

-----------------------------------------------------------------------------
(* The other calls.                                                        *)

(* One cluster is read, whatever the size of the file.                     *)
fat16_read ==
    /\ opened.mode = "read"
    /\ boot = "ok"
    /\ fat_ptr \in Clusters
    /\ fat_ptr' = EndOfChain
    /\ UNCHANGED <<disk, dir_entry_offset, opened, written, plain>>

FirstCluster(c) ==
    LET e == EntryAt(dir_entry_offset) IN
    IF e.cluster # 0 THEN c = e.cluster ELSE allocate_cluster(c)

(* Variant: the name is not cut to 8.3.                                    *)
UncutEntry(c) == Entry(opened.name, c)
NewEntry(c) == Entry(Shown[opened.name], c)

fat16_write(d) ==
    /\ opened.mode \in {"write", "truncate"}
    /\ boot = "ok"
    /\ \E c \in Clusters :
          /\ FirstCluster(c)
          /\ fat' = [fat EXCEPT ![c] = Eof]
          /\ WriteEntry(dir_entry_offset, NewEntry(c), [content EXCEPT ![c] = d])
    /\ written' = [written EXCEPT ![opened.name] = d]
    /\ UNCHANGED <<boot, fat_ptr, dir_entry_offset, opened, plain>>

(* After fat16_remove the boot sector has no geometry.  No call finds an   *)
(* entry any more; but a write to a file already open divides the cluster  *)
(* count by zero or, when it needs no cluster, puts the data, and then the *)
(* FAT entry, over the boot sector.  What follows that is not modelled.    *)
WriteLost(d) ==
    /\ opened.mode \in {"write", "truncate"}
    /\ boot = "entry"
    /\ LET c == EntryAt(dir_entry_offset).cluster IN
       \/ /\ c = 0
          /\ boot' = "crashed"
          /\ UNCHANGED <<root, content, spilled, written>>
       \/ /\ c # 0
          /\ boot' = "data"
          /\ WriteEntry(dir_entry_offset, NewEntry(c), content)
          /\ written' = [written EXCEPT ![opened.name] = d]
    /\ UNCHANGED <<fat, fat_ptr, dir_entry_offset, opened, plain>>

fat16_close ==
    /\ opened # NotOpen
    /\ opened' = NotOpen
    /\ UNCHANGED <<disk, fat_ptr, dir_entry_offset, written, plain>>

(* The deleted entry is written to the offset that find_file returned,     *)
(* which is 0: it overwrites the boot sector.                              *)
fat16_remove(n) ==
    /\ \E i \in Slots :
          /\ find_file(n, i)
          /\ fat' = [fat EXCEPT ![root[i].cluster] = Free]
    /\ boot' = "entry"
    /\ plain' = FALSE
    /\ UNCHANGED <<root, content, spilled, fat_ptr, dir_entry_offset, opened,
                   written>>

fat16_opendir ==
    /\ boot = "ok"
    /\ fat_ptr' = RootDirOffset
    /\ opened' = NotOpen
    /\ UNCHANGED <<disk, dir_entry_offset, written, plain>>

(* The free entry has been read over the new one: of the directory only    *)
(* the cluster is written.                                                 *)
fat16_mkdir(n) ==
    /\ Missing(n)
    /\ \E i \in Slots, c \in Clusters :
          /\ find_free_root_entry(i)
          /\ allocate_cluster(c)
          /\ fat' = [fat EXCEPT ![c] = Eof]
          /\ root' = [root EXCEPT ![i].cluster = c]
    /\ UNCHANGED <<boot, content, spilled, fat_ptr, dir_entry_offset, opened,
                   written, plain>>

Next ==
    \/ fat16_open
    \/ fat16_read
    \/ \E d \in Data : fat16_write(d) \/ WriteLost(d)
    \/ fat16_close
    \/ "remove" \in Calls /\ \E n \in Names : fat16_remove(n)
    \/ fat16_opendir
    \/ "mkdir" \in Calls /\ \E n \in Names : fat16_mkdir(n)

Spec == Init /\ [][Next]_vars

-----------------------------------------------------------------------------
(* Properties.                                                             *)

(* Every variable stays in its type.                                       *)
TypeOK ==
    /\ boot \in {"ok", "entry", "data", "crashed"}
    /\ fat \in [Clusters -> {Free, Eof}]
    /\ root \in [Slots -> Entries]
    /\ content \in [Clusters -> Data \cup {"zero", "entry"}]
    /\ spilled \in Entries
    /\ fat_ptr \in Clusters \cup {0, EndOfChain, RootDirOffset}
    /\ dir_entry_offset \in Slots \cup {AfterRoot}
    /\ opened \in [name : Names, mode : Modes] \cup {NotOpen}
    /\ written \in [Names -> Data \cup {"absent"}]
    /\ plain \in BOOLEAN

Used(i) == root[i].name # Unused

(* The entries in use come first, so that find_file, which stops at the    *)
(* first one that is not, misses none.                                     *)
DirectoryIsCompact ==
    \A i, j \in Slots : i < j /\ Used(j) => Used(i)

(* As long as nothing has been removed, every file has a cluster, marked   *)
(* as taken in the FAT, and no cluster belongs to two entries, the         *)
(* invisible directories of fat16_mkdir included.                          *)
ClustersAreOwned ==
    boot = "ok" =>
        /\ \A i \in Slots : Used(i) => root[i].cluster # 0
        /\ \A i \in Slots : root[i].cluster # 0 => fat[root[i].cluster] = Eof
        /\ \A i, j \in Slots :
              root[i].cluster = root[j].cluster /\ root[i].cluster # 0 => i = j

(* The place where fat16_write will write the entry of the open file is    *)
(* an entry of that name, the free entry that find_file would stop at, or, *)
(* past a full directory, an entry that is still there to be read.         *)
OffsetIsOfOpenFile ==
    opened.mode \in {"write", "truncate"} =>
        IF dir_entry_offset = AfterRoot
        THEN content[2] = "entry" /\ FreeSlots = {}
        ELSE \/ root[dir_entry_offset].name = Shown[opened.name]
             \/ IsFirst(dir_entry_offset, FreeSlots)

(* What a read of the file will return, if the file is found.              *)
Visible(n) ==
    IF Hits(n) = {} THEN "absent"
    ELSE content[root[CHOOSE i \in Slots : IsFirst(i, Hits(n))].cluster]

(* What is read under a name is what was last written under it, whatever   *)
(* was opened, created, written or made a directory in between.            *)
ReadsBackWrites == plain => \A n \in Names : Visible(n) = written[n]

(* What holds until the client makes one of the calls that end it: the     *)
(* names are unique, and the open file is the one entry of its name or     *)
(* will be the first.                                                      *)
PlainFiles ==
    plain =>
        /\ boot = "ok"
        /\ \A i, j \in Slots : Used(i) /\ root[i].name = root[j].name => i = j
        /\ opened.mode \in {"write", "truncate"} =>
              /\ dir_entry_offset \in Slots
              /\ Shown[opened.name] = opened.name
              /\ \A i \in Slots : root[i].name = opened.name => i = dir_entry_offset

(* The inductive invariant.                                                *)
IInv ==
    /\ TypeOK
    /\ DirectoryIsCompact
    /\ ClustersAreOwned
    /\ OffsetIsOfOpenFile
    /\ PlainFiles
    /\ ReadsBackWrites

=============================================================================
