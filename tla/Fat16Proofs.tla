---------------------------- MODULE Fat16Proofs -----------------------------
(***************************************************************************)
(* What TLAPS proves of Fat16, for any size of the disk and of its root    *)
(* directory and for any names, data and calls of the client.              *)
(***************************************************************************)
EXTENDS Fat16, TLAPS

USE RootAssumption, ClusterAssumption DEF Slots, AfterRoot, Clusters

LEMMA Constants ==
  /\ Slots \cup {AfterRoot} \subseteq Nat
  /\ AfterRoot \notin Slots
  /\ RootEntries \in Slots
  /\ 2 \in Clusters
  /\ 0 \notin Clusters
  /\ Unused \notin Names \cup ShownNames
  /\ \A n \in Names : Shown[n] \in ShownNames
BY NamesAssumption DEF ShownNames

(* Writing back what was read changes nothing.                             *)
LEMMA WriteBack ==
  ASSUME TypeOK, NEW i \in Slots, WriteEntry(i, root[i], content)
  PROVE  root' = root /\ content' = content /\ spilled' = spilled
BY DEF WriteEntry, TypeOK

(* In a directory without gaps find_file sees every entry of the name.     *)
LEMMA HitsFacts ==
  ASSUME TypeOK, DirectoryIsCompact, NEW n, n # Unused
  PROVE  Hits(n) = {i \in Slots : root[i].name = n}
BY DEF Hits, DirectoryIsCompact, Used

LEMMA VisibleFacts ==
  ASSUME TypeOK, DirectoryIsCompact, NEW n, n # Unused,
         NEW i \in Slots, root[i].name = n,
         \A j \in Slots : root[j].name = n => i = j
  PROVE  Visible(n) = content[root[i].cluster]
<1>1. Hits(n) = {i}
  BY HitsFacts
<1>2. IsFirst(i, Hits(n)) /\ \A j \in Slots : IsFirst(j, Hits(n)) => j = i
  BY <1>1 DEF IsFirst
<1>3. (CHOOSE j \in Slots : IsFirst(j, Hits(n))) = i
  BY <1>2
<1> QED
  BY <1>1, <1>3 DEF Visible

LEMMA InvisibleFacts ==
  ASSUME TypeOK, DirectoryIsCompact, NEW n, n # Unused,
         \A j \in Slots : root[j].name # n
  PROVE  Visible(n) = "absent"
BY HitsFacts DEF Visible

(***************************************************************************)
(* Initially and in every step the invariant holds.                        *)
(***************************************************************************)
LEMMA InitInvariant == Init => IInv
<1> SUFFICES ASSUME Init PROVE IInv
  OBVIOUS
<1>1. TypeOK
  BY DEF Init, TypeOK, Entry, Entries, NotOpen, Handle
<1>2. DirectoryIsCompact /\ ClustersAreOwned /\ OffsetIsOfOpenFile /\ PlainFiles
  BY DEF Init, DirectoryIsCompact, ClustersAreOwned, OffsetIsOfOpenFile, PlainFiles,
         Used, Entry, NotOpen, Handle
<1>3. \A n \in Names : Hits(n) = {}
  <2> SUFFICES ASSUME NEW n \in Names, NEW i \in Hits(n) PROVE FALSE
    OBVIOUS
  <2> QED
    BY DEF Hits, Init, Entry
<1>4. ReadsBackWrites
  BY <1>3 DEF ReadsBackWrites, Visible, Init
<1> QED
  BY <1>1, <1>2, <1>4 DEF IInv

(* Visible depends on the directory and the clusters alone.                *)
LEMMA DiskUnchanged ==
  ASSUME root' = root, content' = content
  PROVE  \A n : Visible(n)' = Visible(n)
BY DEF Visible, Hits, IsFirst

LEMMA OpenFoundInvariant ==
  ASSUME IInv, NEW n \in Names, NEW mode \in Modes, OpenFound(n, mode)
  PROVE  IInv'
<1> USE DEF IInv
<1>1. PICK i \in Slots : /\ find_file(n, i)
                        /\ fat_ptr' = root[i].cluster
                        /\ dir_entry_offset' = i
  BY DEF OpenFound
<1>2. boot = "ok" /\ root[i].name = n
  BY <1>1 DEF find_file, IsFirst, Hits
<1>3. UNCHANGED <<boot, fat, root, content, spilled, written, plain>> /\ opened' = Handle(n, mode)
  BY DEF OpenFound, disk
<1>4. n \in ShownNames /\ Shown[n] = n
  <2>1. n \in ShownNames
    BY <1>2, Constants DEF TypeOK, Entries
  <2> QED
    BY <2>1, NamesAssumption DEF ShownNames
<1>5. TypeOK'
  BY <1>1, <1>3 DEF TypeOK, Handle, Entries
<1>6. DirectoryIsCompact' /\ ClustersAreOwned'
  BY <1>3 DEF DirectoryIsCompact, ClustersAreOwned, Used
<1>7. OffsetIsOfOpenFile'
  BY <1>1, <1>2, <1>3, <1>4, Constants DEF OffsetIsOfOpenFile, Handle
<1>8. PlainFiles'
  <2>1. \A j \in Slots : plain /\ root[j].name = n => j = i
    BY <1>2, Constants DEF PlainFiles, Used
  <2> QED
    BY <2>1, <1>1, <1>2, <1>3, <1>4 DEF PlainFiles, Used, Handle
<1>9. ReadsBackWrites'
  BY <1>3, DiskUnchanged DEF ReadsBackWrites
<1> QED
  BY <1>5, <1>6, <1>7, <1>8, <1>9

LEMMA OpenTruncatesInvariant ==
  ASSUME IInv, NEW n \in Names, OpenTruncates(n)
  PROVE  IInv'
<1> USE DEF IInv
<1>1. PICK i \in Slots : /\ find_file(n, i)
                        /\ fat_ptr' = root[i].cluster
                        /\ fat' = [fat EXCEPT ![root[i].cluster] = Eof]
  BY DEF OpenTruncates
<1>2. boot = "ok" /\ root[i].name = n
  BY <1>1 DEF find_file, IsFirst, Hits
<1>3. UNCHANGED <<boot, written>> /\ opened' = Handle(n, "truncate") /\ plain' = FALSE
  BY DEF OpenTruncates
<1>4. n # Unused /\ n \in Names
  BY Constants
<1>5. root' = root
  <2>1. \/ \E j \in Slots : WriteEntry(j, root[j], content)
        \/ WriteEntry(AfterRoot, root[RootEntries], content)
    BY DEF OpenTruncates
  <2>2. ASSUME NEW j \in Slots, WriteEntry(j, root[j], content) PROVE root' = root
    BY <2>2, WriteBack
  <2>3. CASE WriteEntry(AfterRoot, root[RootEntries], content)
    BY <2>3 DEF WriteEntry
  <2> QED
    BY <2>1, <2>2, <2>3
<1>6. root[i].cluster \in Clusters /\ fat[root[i].cluster] = Eof
  BY <1>2, <1>4 DEF ClustersAreOwned, Used, TypeOK, Entries
<1>7. fat' = fat
  BY <1>1, <1>6 DEF TypeOK
<1>8. /\ spilled' \in Entries
      /\ content' \in [Clusters -> Data \cup {"zero", "entry"}]
      /\ dir_entry_offset' \in Slots \cup {AfterRoot}
      /\ IF dir_entry_offset' = AfterRoot
         THEN content'[2] = "entry" /\ FreeSlots = {}
         ELSE IsFirst(dir_entry_offset', FreeSlots)
  <2>1. CASE \E j \in Slots : /\ find_free_root_entry(j)
                             /\ WriteEntry(j, root[j], content)
                             /\ dir_entry_offset' = j
    BY <2>1, WriteBack, Constants DEF find_free_root_entry, TypeOK
  <2>2. CASE /\ FreeSlots = {}
             /\ WriteEntry(AfterRoot, root[RootEntries], content)
             /\ dir_entry_offset' = AfterRoot
    <3>1. spilled' = root[RootEntries] /\ content' = [content EXCEPT ![2] = "entry"]
      BY <2>2 DEF WriteEntry
    <3>2. spilled' \in Entries
      BY <3>1, Constants DEF TypeOK
    <3>3. /\ content' \in [Clusters -> Data \cup {"zero", "entry"}]
          /\ content'[2] = "entry"
      BY <3>1, Constants DEF TypeOK
    <3> QED
      BY <2>2, <3>2, <3>3
  <2> QED
    BY <2>1, <2>2 DEF OpenTruncates
<1>9. TypeOK'
  BY <1>1, <1>3, <1>5, <1>6, <1>7, <1>8 DEF TypeOK, Handle, Modes
<1>10. DirectoryIsCompact' /\ ClustersAreOwned'
  BY <1>3, <1>5, <1>7 DEF DirectoryIsCompact, ClustersAreOwned, Used
<1>11. OffsetIsOfOpenFile'
  BY <1>3, <1>5, <1>8 DEF OffsetIsOfOpenFile, FreeSlots, IsFirst
<1> QED
  BY <1>3, <1>9, <1>10, <1>11 DEF PlainFiles, ReadsBackWrites

LEMMA OpenCreatesInvariant ==
  ASSUME IInv, NEW n \in Names, NEW mode \in Modes, OpenCreates(n, mode)
  PROVE  IInv'
<1> USE DEF IInv
<1>1. PICK i \in Slots : /\ find_free_root_entry(i)
                        /\ WriteEntry(i, root[i], content)
                        /\ dir_entry_offset' = i
  BY DEF OpenCreates
<1>2. root' = root /\ content' = content /\ spilled' = spilled
  BY <1>1, WriteBack
<1>3. /\ UNCHANGED <<boot, fat, written>>
      /\ opened' = Handle(n, mode)
      /\ fat_ptr' = 0
      /\ plain' = (plain /\ Shown[n] = n)
      /\ Missing(n)
  BY DEF OpenCreates
<1>4. boot = "ok" /\ IsFirst(i, FreeSlots) /\ i # AfterRoot
  BY <1>1, Constants DEF find_free_root_entry
<1>5. \A j \in Slots : root[j].name # n
  BY <1>3, HitsFacts, Constants DEF Missing
<1>6. TypeOK'
  BY <1>1, <1>2, <1>3 DEF TypeOK, Handle
<1>7. DirectoryIsCompact' /\ ClustersAreOwned'
  BY <1>2, <1>3 DEF DirectoryIsCompact, ClustersAreOwned, Used
<1>8. OffsetIsOfOpenFile'
  BY <1>1, <1>2, <1>4 DEF OffsetIsOfOpenFile, FreeSlots, IsFirst
<1>9. PlainFiles'
  BY <1>1, <1>2, <1>3, <1>4, <1>5 DEF PlainFiles, Used, Handle
<1>10. ReadsBackWrites'
  BY <1>2, <1>3, DiskUnchanged DEF ReadsBackWrites
<1> QED
  BY <1>6, <1>7, <1>8, <1>9, <1>10

(* A step that leaves the disk and the place of the entry alone.           *)
LEMMA DiskKept ==
  ASSUME IInv, UNCHANGED <<disk, dir_entry_offset, written, plain>>,
         fat_ptr' \in Clusters \cup {0, EndOfChain, RootDirOffset},
         opened' \in {opened, NotOpen}
  PROVE  IInv'
<1> USE DEF IInv
<1>1. TypeOK'
  BY DEF TypeOK, disk
<1>2. DirectoryIsCompact' /\ ClustersAreOwned'
  BY DEF DirectoryIsCompact, ClustersAreOwned, Used, disk
<1>3. OffsetIsOfOpenFile' /\ PlainFiles'
  BY DEF OffsetIsOfOpenFile, PlainFiles, Used, FreeSlots, IsFirst, disk, NotOpen, Handle
<1>4. ReadsBackWrites'
  BY DiskUnchanged DEF ReadsBackWrites, disk
<1> QED
  BY <1>1, <1>2, <1>3, <1>4

(* What VisibleFacts and InvisibleFacts say, of the state after a step.    *)
LEMMA VisibleAfter ==
  ASSUME TypeOK', DirectoryIsCompact', NEW n, n # Unused,
         NEW i \in Slots, root'[i].name = n,
         \A j \in Slots : root'[j].name = n => i = j
  PROVE  Visible(n)' = content'[root'[i].cluster]
<1>1. Hits(n)' = {i}
  BY DEF Hits, DirectoryIsCompact, Used
<1>2. (IsFirst(i, Hits(n)) /\ \A j \in Slots : IsFirst(j, Hits(n)) => j = i)'
  BY <1>1 DEF IsFirst
<1>3. (CHOOSE j \in Slots : IsFirst(j, Hits(n)))' = i
  BY <1>2
<1> QED
  BY <1>1, <1>3 DEF Visible

LEMMA InvisibleAfter ==
  ASSUME TypeOK', DirectoryIsCompact', NEW n, n # Unused,
         \A j \in Slots : root'[j].name # n
  PROVE  Visible(n)' = "absent"
BY DEF Visible, Hits

(* The cluster of a write belongs to the open file or to no file.          *)
LEMMA FirstClusterFacts ==
  ASSUME IInv, boot = "ok", dir_entry_offset \in Slots,
         NEW c \in Clusters, FirstCluster(c)
  PROVE  \A j \in Slots \ {dir_entry_offset} : root[j].cluster # c
<1>1. dir_entry_offset # AfterRoot
  BY Constants
<1>2. CASE root[dir_entry_offset].cluster # 0
  BY <1>1, <1>2 DEF FirstCluster, EntryAt, IInv, ClustersAreOwned
<1>3. CASE root[dir_entry_offset].cluster = 0
  <2>1. fat[c] # Eof
    BY <1>1, <1>3 DEF FirstCluster, EntryAt, allocate_cluster, IsFirst, Free, Eof
  <2> QED
    BY <2>1, Constants DEF IInv, ClustersAreOwned
<1> QED
  BY <1>2, <1>3

(* Naming the entry of the open file leaves no gap.                        *)
LEMMA EntryNamed ==
  ASSUME IInv, opened.mode \in {"write", "truncate"}, opened.name \in Names,
         dir_entry_offset \in Slots,
         NEW e, e.name = Shown[opened.name],
         root' = [root EXCEPT ![dir_entry_offset] = e]
  PROVE  DirectoryIsCompact'
<1> USE DEF IInv
<1> DEFINE i == dir_entry_offset
           n == opened.name
<1>1. root[i].name = Shown[n] \/ IsFirst(i, FreeSlots)
  BY Constants DEF OffsetIsOfOpenFile
<1>2. root'[i].name = Shown[n] /\ Shown[n] # Unused /\ \A j \in Slots \ {i} : root'[j] = root[j]
  BY Constants DEF TypeOK
<1> SUFFICES ASSUME NEW a \in Slots, NEW b \in Slots, a < b, Used(b)' PROVE Used(a)'
  BY DEF DirectoryIsCompact
<1>3. CASE b # i
  BY <1>2, <1>3 DEF DirectoryIsCompact, Used
<1>4. CASE b = i
  <2>1. a # i
    BY <1>4
  <2>2. Used(a)
    BY <1>1, <1>2, <1>4 DEF DirectoryIsCompact, Used, IsFirst, FreeSlots
  <2> QED
    BY <1>2, <2>1, <2>2 DEF Used
<1> QED
  BY <1>3, <1>4

LEMMA WriteInvariant ==
  ASSUME IInv, NEW d \in Data, fat16_write(d)
  PROVE  IInv'
<1> USE DEF IInv
<1> DEFINE i == dir_entry_offset
           n == opened.name
<1>1. /\ opened.mode \in {"write", "truncate"}
      /\ boot = "ok"
      /\ UNCHANGED <<boot, fat_ptr, dir_entry_offset, opened, plain>>
      /\ written' = [written EXCEPT ![n] = d]
  BY DEF fat16_write
<1>2. PICK c \in Clusters :
         /\ FirstCluster(c)
         /\ fat' = [fat EXCEPT ![c] = Eof]
         /\ WriteEntry(i, NewEntry(c), [content EXCEPT ![c] = d])
  BY DEF fat16_write
<1>3. n \in Names /\ opened \in [name : Names, mode : Modes]
  BY <1>1 DEF TypeOK, NotOpen, Handle
<1>4. NewEntry(c) \in Entries /\ NewEntry(c).name = Shown[n] /\ NewEntry(c).cluster = c
  BY <1>3, Constants DEF NewEntry, Entry, Entries
<1>5. /\ fat' \in [Clusters -> {Free, Eof}]
      /\ \A x \in Clusters : fat[x] = Eof => fat'[x] = Eof
      /\ fat'[c] = Eof
      /\ written' \in [Names -> Data \cup {"absent"}]
  BY <1>1, <1>2 DEF TypeOK
<1>6. CASE i = AfterRoot
  <2>1. /\ root' = root
        /\ spilled' = NewEntry(c)
        /\ content' = [[content EXCEPT ![c] = d] EXCEPT ![2] = "entry"]
    BY <1>2, <1>6 DEF WriteEntry
  <2>2. content' \in [Clusters -> Data \cup {"zero", "entry"}] /\ content'[2] = "entry"
    BY <2>1, Constants DEF TypeOK
  <2>3. TypeOK'
    BY <1>1, <1>4, <1>5, <2>1, <2>2 DEF TypeOK
  <2>4. DirectoryIsCompact'
    BY <2>1 DEF DirectoryIsCompact, Used
  <2>5. ClustersAreOwned'
    <3>1. \A j \in Slots : root[j].cluster # 0 => root[j].cluster \in Clusters
      BY DEF TypeOK, Entries
    <3> QED
      BY <1>1, <1>5, <2>1, <3>1 DEF ClustersAreOwned, Used
  <2>6. OffsetIsOfOpenFile'
    BY <1>1, <1>6, <2>1, <2>2 DEF OffsetIsOfOpenFile, FreeSlots
  <2>7. ~plain'
    BY <1>1, <1>6, Constants DEF PlainFiles
  <2> QED
    BY <2>3, <2>4, <2>5, <2>6, <2>7 DEF PlainFiles, ReadsBackWrites
<1>7. CASE i \in Slots
  <2>1. /\ root' = [root EXCEPT ![i] = NewEntry(c)]
        /\ spilled' = spilled
        /\ content' = [content EXCEPT ![c] = d]
    BY <1>2, <1>7, Constants DEF WriteEntry
  <2>2. /\ root'[i].name = Shown[n] /\ root'[i].cluster = c
        /\ \A j \in Slots \ {i} : root'[j] = root[j]
    BY <1>4, <1>7, <2>1 DEF TypeOK
  <2>3. \A j \in Slots \ {i} : root[j].cluster # c
    BY <1>1, <1>2, <1>7, FirstClusterFacts
  <2>4. Shown[n] # Unused /\ Shown[n] \in ShownNames /\ n # Unused
    BY <1>3, Constants
  <2>5. TypeOK'
    <3>1. root' \in [Slots -> Entries]
      BY <1>4, <2>1 DEF TypeOK
    <3>2. content' \in [Clusters -> Data \cup {"zero", "entry"}]
      BY <2>1 DEF TypeOK
    <3> QED
      BY <1>1, <1>5, <2>1, <3>1, <3>2 DEF TypeOK
  <2>6. root[i].name = Shown[n] \/ IsFirst(i, FreeSlots)
    BY <1>1, <1>7, Constants DEF OffsetIsOfOpenFile
  <2>7. DirectoryIsCompact'
    BY <1>1, <1>3, <1>4, <1>7, <2>1, EntryNamed
  <2>8. ClustersAreOwned'
    <3>1. \A j \in Slots : root[j].cluster # 0 => root[j].cluster \in Clusters
      BY DEF TypeOK, Entries
    <3>2. \A j \in Slots : Used(j)' => root'[j].cluster # 0
      BY <1>1, <2>2, Constants DEF ClustersAreOwned, Used
    <3>3. \A j \in Slots : root'[j].cluster # 0 => fat'[root'[j].cluster] = Eof
      BY <1>1, <1>5, <2>2, <3>1 DEF ClustersAreOwned
    <3>4. \A j, k \in Slots :
             root'[j].cluster = root'[k].cluster /\ root'[j].cluster # 0 => j = k
      BY <1>1, <2>2, <2>3 DEF ClustersAreOwned
    <3> QED
      BY <3>2, <3>3, <3>4 DEF ClustersAreOwned
  <2>9. OffsetIsOfOpenFile'
    BY <1>1, <1>7, <2>2, Constants DEF OffsetIsOfOpenFile
  <2>10. plain => /\ Shown[n] = n
                  /\ \A j \in Slots : root[j].name = n => j = i
                  /\ \A j, k \in Slots : Used(j) /\ root[j].name = root[k].name => j = k
    BY <1>1 DEF PlainFiles
  <2>11. PlainFiles'
    BY <1>1, <1>7, <2>2, <2>10 DEF PlainFiles, Used
  <2>12. ReadsBackWrites'
    <3> SUFFICES ASSUME plain, NEW m \in Names PROVE Visible(m)' = written'[m]
      BY <1>1 DEF ReadsBackWrites
    <3>1. Visible(m) = written[m] /\ m # Unused
      BY Constants DEF ReadsBackWrites
    <3>2. CASE m = n
      <4>1. Visible(m)' = content'[c]
        BY <1>7, <2>2, <2>4, <2>5, <2>7, <2>10, <3>2, VisibleAfter
      <4> QED
        BY <1>1, <1>3, <2>1, <3>2, <4>1 DEF TypeOK
    <3>3. CASE m # n /\ \A j \in Slots : root[j].name # m
      <4>1. \A j \in Slots : root'[j].name # m
        BY <2>2, <2>10, <3>3
      <4>2. Visible(m)' = "absent" /\ Visible(m) = "absent"
        BY <2>5, <2>7, <3>1, <3>3, <4>1, InvisibleAfter, InvisibleFacts
      <4> QED
        BY <1>1, <1>3, <3>1, <3>3, <4>2 DEF TypeOK
    <3>4. CASE m # n /\ \E j \in Slots : root[j].name = m
      <4>1. PICK k \in Slots : root[k].name = m
        BY <3>4
      <4>2. k # i
        BY <2>6, <2>10, <3>1, <3>4, <4>1 DEF IsFirst, FreeSlots
      <4>3. \A j \in Slots : root[j].name = m => k = j
        BY <2>10, <3>1, <4>1 DEF Used
      <4>4. Visible(m) = content[root[k].cluster]
        BY <3>1, <4>1, <4>3, VisibleFacts
      <4>5. root'[k] = root[k] /\ \A j \in Slots : root'[j].name = m => k = j
        BY <2>2, <2>10, <3>4, <4>2, <4>3
      <4>6. Visible(m)' = content'[root[k].cluster]
        BY <2>5, <2>7, <3>1, <4>1, <4>5, VisibleAfter
      <4>7. root[k].cluster \in Clusters /\ root[k].cluster # c
        BY <1>1, <2>3, <3>1, <4>1, <4>2 DEF ClustersAreOwned, Used, TypeOK, Entries
      <4>8. content'[root[k].cluster] = content[root[k].cluster]
        BY <2>1, <4>7 DEF TypeOK
      <4> QED
        BY <1>1, <1>3, <3>1, <3>4, <4>4, <4>6, <4>8 DEF TypeOK
    <3> QED
      BY <3>2, <3>3, <3>4
  <2> QED
    BY <2>5, <2>7, <2>8, <2>9, <2>11, <2>12
<1> QED
  BY <1>6, <1>7 DEF TypeOK

(* Once the boot sector is lost, the write can still name the entry.       *)
LEMMA WriteLostInvariant ==
  ASSUME IInv, NEW d \in Data, WriteLost(d)
  PROVE  IInv'
<1> USE DEF IInv
<1> DEFINE i == dir_entry_offset
           n == opened.name
           c == EntryAt(i).cluster
<1>1. /\ boot = "entry" /\ boot' \in {"data", "crashed"}
      /\ opened.mode \in {"write", "truncate"}
      /\ UNCHANGED <<fat, fat_ptr, dir_entry_offset, opened, plain>>
      /\ \/ written' = written
         \/ written' = [written EXCEPT ![n] = d]
  BY DEF WriteLost
<1>2. n \in Names /\ written' \in [Names -> Data \cup {"absent"}]
  BY <1>1 DEF TypeOK, NotOpen, Handle
<1>3. ~plain' /\ boot' # "ok"
  BY <1>1 DEF PlainFiles
<1>4. CASE UNCHANGED <<root, content, spilled>>
  <2>1. TypeOK' /\ DirectoryIsCompact'
    BY <1>1, <1>2, <1>4 DEF TypeOK, DirectoryIsCompact, Used
  <2>2. OffsetIsOfOpenFile'
    BY <1>1, <1>4 DEF OffsetIsOfOpenFile, FreeSlots, IsFirst
  <2> QED
    BY <1>3, <2>1, <2>2 DEF ClustersAreOwned, PlainFiles, ReadsBackWrites
<1>5. CASE WriteEntry(i, NewEntry(c), content)
  <2>1. NewEntry(c) \in Entries /\ NewEntry(c).name = Shown[n]
    <3>1. EntryAt(i) \in Entries
      BY DEF EntryAt, TypeOK
    <3> QED
      BY <1>2, <3>1, Constants DEF NewEntry, Entry, Entries
  <2>2. CASE i = AfterRoot
    <3>1. /\ root' = root /\ spilled' = NewEntry(c)
          /\ content' = [content EXCEPT ![2] = "entry"]
      BY <1>5, <2>2 DEF WriteEntry
    <3>2. content' \in [Clusters -> Data \cup {"zero", "entry"}] /\ content'[2] = "entry"
      BY <3>1, Constants DEF TypeOK
    <3>3. TypeOK' /\ DirectoryIsCompact'
      BY <1>1, <1>2, <2>1, <3>1, <3>2 DEF TypeOK, DirectoryIsCompact, Used
    <3>4. OffsetIsOfOpenFile'
      BY <1>1, <2>2, <3>1, <3>2 DEF OffsetIsOfOpenFile, FreeSlots
    <3> QED
      BY <1>3, <3>3, <3>4 DEF ClustersAreOwned, PlainFiles, ReadsBackWrites
  <2>3. CASE i \in Slots
    <3>1. /\ root' = [root EXCEPT ![i] = NewEntry(c)]
          /\ UNCHANGED <<content, spilled>>
      BY <1>5, <2>3, Constants DEF WriteEntry
    <3>2. TypeOK'
      BY <1>1, <1>2, <2>1, <3>1 DEF TypeOK
    <3>3. DirectoryIsCompact'
      BY <1>1, <1>2, <2>1, <2>3, <3>1, EntryNamed
    <3>4. OffsetIsOfOpenFile'
      BY <1>1, <2>1, <2>3, <3>1, Constants DEF OffsetIsOfOpenFile, TypeOK
    <3> QED
      BY <1>3, <3>2, <3>3, <3>4 DEF ClustersAreOwned, PlainFiles, ReadsBackWrites
  <2> QED
    BY <2>2, <2>3 DEF TypeOK
<1> QED
  BY <1>4, <1>5 DEF WriteLost

LEMMA RemoveInvariant ==
  ASSUME IInv, NEW n \in Names, fat16_remove(n)
  PROVE  IInv'
<1>1. PICK i \in Slots : fat' = [fat EXCEPT ![root[i].cluster] = Free]
  BY DEF fat16_remove
<1>2. /\ boot' = "entry" /\ plain' = FALSE
      /\ UNCHANGED <<root, content, spilled, fat_ptr, dir_entry_offset, opened, written>>
  BY DEF fat16_remove
<1>3. TypeOK' /\ DirectoryIsCompact' /\ ClustersAreOwned'
  BY <1>1, <1>2 DEF IInv, TypeOK, DirectoryIsCompact, ClustersAreOwned, Used
<1>4. OffsetIsOfOpenFile'
  BY <1>2 DEF IInv, OffsetIsOfOpenFile, FreeSlots, IsFirst
<1> QED
  BY <1>2, <1>3, <1>4 DEF IInv, PlainFiles, ReadsBackWrites

LEMMA MkdirInvariant ==
  ASSUME IInv, NEW n \in Names, fat16_mkdir(n)
  PROVE  IInv'
<1> USE DEF IInv
<1>1. PICK i \in Slots, c \in Clusters :
         /\ find_free_root_entry(i)
         /\ allocate_cluster(c)
         /\ fat' = [fat EXCEPT ![c] = Eof]
         /\ root' = [root EXCEPT ![i].cluster = c]
  BY DEF fat16_mkdir
<1>2. UNCHANGED <<boot, content, spilled, fat_ptr, dir_entry_offset, opened, written, plain>>
  BY DEF fat16_mkdir
<1>3. boot = "ok" /\ root[i].name = Unused /\ fat[c] # Eof
  BY <1>1 DEF find_free_root_entry, allocate_cluster, IsFirst, FreeSlots, Free, Eof
<1>4. /\ root' \in [Slots -> Entries]
      /\ root'[i].cluster = c
      /\ \A j \in Slots : root'[j].name = root[j].name
      /\ \A j \in Slots \ {i} : root'[j] = root[j]
  BY <1>1 DEF TypeOK, Entries
<1>5. /\ fat' \in [Clusters -> {Free, Eof}]
      /\ \A x \in Clusters : fat[x] = Eof => fat'[x] = Eof
      /\ fat'[c] = Eof
  BY <1>1 DEF TypeOK
<1>6. TypeOK'
  BY <1>2, <1>4, <1>5 DEF TypeOK
<1>7. DirectoryIsCompact'
  BY <1>4 DEF DirectoryIsCompact, Used
<1>8. ClustersAreOwned'
  <2>1. \A j \in Slots : root[j].cluster # 0 => root[j].cluster \in Clusters
    BY DEF TypeOK, Entries
  <2>2. \A j \in Slots : root[j].cluster # c
    BY <1>3, Constants DEF ClustersAreOwned
  <2>3. \A j \in Slots : Used(j)' => root'[j].cluster # 0
    BY <1>3, <1>4 DEF ClustersAreOwned, Used
  <2>4. \A j \in Slots : root'[j].cluster # 0 => fat'[root'[j].cluster] = Eof
    BY <1>3, <1>4, <1>5, <2>1 DEF ClustersAreOwned
  <2>5. \A j, k \in Slots :
           root'[j].cluster = root'[k].cluster /\ root'[j].cluster # 0 => j = k
    BY <1>3, <1>4, <2>2 DEF ClustersAreOwned
  <2> QED
    BY <2>3, <2>4, <2>5 DEF ClustersAreOwned
<1>9. OffsetIsOfOpenFile'
  <2>1. FreeSlots' = FreeSlots
    BY <1>4 DEF FreeSlots
  <2>2. (opened.mode \in {"write", "truncate"})' => dir_entry_offset \in Slots \cup {AfterRoot}
    BY DEF TypeOK
  <2> QED
    BY <1>2, <1>4, <2>1, <2>2 DEF OffsetIsOfOpenFile, IsFirst
<1>10. PlainFiles'
  BY <1>2, <1>4 DEF PlainFiles, Used
<1>11. ReadsBackWrites'
  <2> SUFFICES ASSUME plain, NEW m \in Names PROVE Visible(m)' = Visible(m)
    BY <1>2 DEF ReadsBackWrites
  <2>1. m # Unused
    BY Constants
  <2>2. CASE \A j \in Slots : root[j].name # m
    BY <1>4, <1>6, <1>7, <2>1, <2>2, InvisibleFacts, InvisibleAfter
  <2>3. CASE \E j \in Slots : root[j].name = m
    <3>1. PICK k \in Slots : root[k].name = m
      BY <2>3
    <3>2. k # i /\ \A j \in Slots : root[j].name = m => k = j
      BY <1>3, <2>1, <3>1 DEF PlainFiles, Used
    <3>3. Visible(m) = content[root[k].cluster]
      BY <2>1, <3>1, <3>2, VisibleFacts
    <3>4. Visible(m)' = content'[root'[k].cluster]
      BY <1>4, <1>6, <1>7, <2>1, <3>1, <3>2, VisibleAfter
    <3> QED
      BY <1>2, <1>4, <3>2, <3>3, <3>4
  <2> QED
    BY <2>2, <2>3
<1> QED
  BY <1>6, <1>7, <1>8, <1>9, <1>10, <1>11

LEMMA NextInvariant == IInv /\ [Next]_vars => IInv'
<1> SUFFICES ASSUME IInv, [Next]_vars PROVE IInv'
  OBVIOUS
<1>1. CASE fat16_open
  BY <1>1, OpenFoundInvariant, OpenTruncatesInvariant, OpenCreatesInvariant
     DEF fat16_open, Modes
<1>2. CASE fat16_read
  BY <1>2, DiskKept DEF fat16_read
<1>3. CASE \E d \in Data : fat16_write(d)
  BY <1>3, WriteInvariant
<1>4. CASE \E d \in Data : WriteLost(d)
  BY <1>4, WriteLostInvariant
<1>5. CASE fat16_close
  <2>1. fat_ptr \in Clusters \cup {0, EndOfChain, RootDirOffset}
    BY DEF IInv, TypeOK
  <2> QED
    BY <1>5, <2>1, DiskKept DEF fat16_close
<1>6. CASE \E n \in Names : fat16_remove(n)
  BY <1>6, RemoveInvariant
<1>7. CASE fat16_opendir
  BY <1>7, DiskKept DEF fat16_opendir
<1>8. CASE \E n \in Names : fat16_mkdir(n)
  BY <1>8, MkdirInvariant
<1>9. CASE UNCHANGED vars
  <2>1. fat_ptr \in Clusters \cup {0, EndOfChain, RootDirOffset}
    BY DEF IInv, TypeOK
  <2> QED
    BY <1>9, <2>1, DiskKept DEF vars, disk
<1> QED
  BY <1>1, <1>2, <1>3, <1>4, <1>5, <1>6, <1>7, <1>8, <1>9 DEF Next

(***************************************************************************)
(* The theorems.                                                           *)
(***************************************************************************)

(* The inductive invariant of the driver holds in every reachable state.   *)
THEOREM Invariance == Spec => []IInv
BY InitInvariant, NextInvariant, PTL DEF Spec

(* The driver's state and its disk keep their types.                       *)
THEOREM TypeCorrect == Spec => []TypeOK
<1>1. IInv => TypeOK
  BY DEF IInv
<1> QED
  BY <1>1, Invariance, PTL

(* No call, in any order, leaves an unused entry before a used one, where  *)
(* find_file would stop.                                                   *)
THEOREM NoGaps == Spec => []DirectoryIsCompact
<1>1. IInv => DirectoryIsCompact
  BY DEF IInv
<1> QED
  BY <1>1, Invariance, PTL

(* allocate_cluster never hands out a cluster that an entry has, although  *)
(* fat16_write and truncate_file mark clusters at other places.            *)
THEOREM ClustersOwned == Spec => []ClustersAreOwned
<1>1. IInv => ClustersAreOwned
  BY DEF IInv
<1> QED
  BY <1>1, Invariance, PTL

(* The entry position that fat16_open keeps is not stale at fat16_write.   *)
THEOREM OffsetsFit == Spec => []OffsetIsOfOpenFile
<1>1. IInv => OffsetIsOfOpenFile
  BY DEF IInv
<1> QED
  BY <1>1, Invariance, PTL

(* What is read is what was last written under the name, for a client that *)
(* creates 8.3 names and neither truncates nor removes.                    *)
THEOREM WritesAreRead == Spec => []ReadsBackWrites
<1>1. IInv => ReadsBackWrites
  BY DEF IInv
<1> QED
  BY <1>1, Invariance, PTL

=============================================================================
