---------------------------- MODULE DefragProofs ----------------------------
(***************************************************************************)
(* What TLAPS proves of Defrag, for any number of inodes and any           *)
(* well-formed disks.  The copy only grows, so what a file keeps when it   *)
(* is moved it keeps; the invariant says how much of the file being moved  *)
(* has been kept so far.                                                   *)
(***************************************************************************)
EXTENDS Defrag, SequenceTheorems, TLAPS

(***************************************************************************)
(* A copy d of the blocks src.                                             *)
(***************************************************************************)
Extends(e, d) == DOMAIN d \subseteq DOMAIN e /\ \A x \in DOMAIN d : e[x] = d[x]

Kept(d, src, new, old) == new \in DOMAIN d /\ d[new] = src[old]

KeptIndex(d, src, new, old) ==
    /\ new \in DOMAIN d
    /\ Len(d[new].list) = Len(src[old].list)
    /\ \A n \in 2 .. Len(d[new].list) : Kept(d, src, d[new].list[n], src[old].list[n])

(* The first m entries of a list of index blocks.                          *)
KeptIndexes(d, src, new, old, m) ==
    Len(new) = Len(old) /\ \A n \in 1 .. m : KeptIndex(d, src, new[n], old[n])

KeptDirect(d, src, new, old) ==
    Len(new) = Len(old) /\ \A n \in 1 .. Len(old) : Kept(d, src, new[n], old[n])

KeptNested(d, src, new, old) ==
    old # None =>
        /\ new \in DOMAIN d
        /\ KeptIndexes(d, src, d[new].list, src[old].list, Len(src[old].list))

KeptFile(d, src, new, old) ==
    /\ new.used
    /\ KeptDirect(d, src, new.dblocks, old.dblocks)
    /\ KeptIndexes(d, src, new.iblocks, old.iblocks, Len(old.iblocks))
    /\ \A f \in Nested : KeptNested(d, src, new[f], old[f])

LEMMA IndexStays ==
  ASSUME NEW d, NEW e, NEW src, NEW new, NEW old, Extends(e, d),
         KeptIndex(d, src, new, old)
  PROVE  KeptIndex(e, src, new, old)
BY DEF Extends, KeptIndex, Kept

LEMMA IndexesStay ==
  ASSUME NEW d, NEW e, NEW src, NEW new, NEW old, NEW m, Extends(e, d),
         KeptIndexes(d, src, new, old, m)
  PROVE  KeptIndexes(e, src, new, old, m)
BY IndexStays DEF KeptIndexes

LEMMA DirectStays ==
  ASSUME NEW d, NEW e, NEW src, NEW new, NEW old, Extends(e, d),
         KeptDirect(d, src, new, old)
  PROVE  KeptDirect(e, src, new, old)
BY DEF Extends, KeptDirect, Kept

LEMMA NestedStays ==
  ASSUME NEW d, NEW e, NEW src, NEW new, NEW old, Extends(e, d),
         KeptNested(d, src, new, old)
  PROVE  KeptNested(e, src, new, old)
<1> SUFFICES ASSUME old # None
             PROVE  /\ new \in DOMAIN e
                    /\ KeptIndexes(e, src, e[new].list, src[old].list, Len(src[old].list))
  BY DEF KeptNested
<1>1. new \in DOMAIN d /\ new \in DOMAIN e /\ e[new] = d[new]
  BY DEF KeptNested, Extends
<1>2. KeptIndexes(d, src, d[new].list, src[old].list, Len(src[old].list))
  BY DEF KeptNested
<1> QED
  BY <1>1, <1>2, IndexesStay

LEMMA FileStays ==
  ASSUME NEW d, NEW e, NEW src, NEW new, NEW old, Extends(e, d),
         KeptFile(d, src, new, old)
  PROVE  KeptFile(e, src, new, old)
<1>1. new.used /\ KeptDirect(e, src, new.dblocks, old.dblocks)
  BY DirectStays DEF KeptFile
<1>2. KeptIndexes(e, src, new.iblocks, old.iblocks, Len(old.iblocks))
  BY IndexesStay DEF KeptFile
<1>3. \A f \in Nested : KeptNested(e, src, new[f], old[f])
  BY NestedStays DEF KeptFile
<1> QED
  BY <1>1, <1>2, <1>3 DEF KeptFile

(***************************************************************************)
(* Where a list of blocks lies: in a copy d, from number x to before y.    *)
(***************************************************************************)
Run(list, x, y) == y = x + Len(list) /\ \A n \in 1 .. Len(list) : list[n] = x + n - 1

(* An index block has the number of the first block that it lists.         *)
Heads(d, b) ==
    /\ b \in DOMAIN d
    /\ d[b].list # <<>>
    /\ \A n \in 1 .. Len(d[b].list) : d[b].list[n] = b + n - 1

End(d, b) == b + Len(d[b].list)

(* What the first m index blocks of a list name.                           *)
Rows(d, list, m, x, y) ==
    /\ \A n \in 1 .. m : Heads(d, list[n])
    /\ \A n \in 1 .. m - 1 : list[n + 1] = End(d, list[n])
    /\ IF m = 0 THEN y = x ELSE list[1] = x /\ y = End(d, list[m])

Laid(d, file, level2) ==
    \E x, y, z \in Nat :
        /\ Run(file.dblocks, x, y)
        /\ Rows(d, file.iblocks, Len(file.iblocks), y, z)
        /\ level2 =>
              /\ file.i2block \in DOMAIN d
              /\ \E w \in Nat : Rows(d, d[file.i2block].list, Len(d[file.i2block].list), z, w)

LEMMA RowsStay ==
  ASSUME NEW d, NEW e, NEW list, NEW m \in Nat, NEW x, NEW y, Extends(e, d),
         Rows(d, list, m, x, y)
  PROVE  Rows(e, list, m, x, y)
<1>1. ASSUME NEW n \in 1 .. m
      PROVE  Heads(e, list[n]) /\ End(e, list[n]) = End(d, list[n])
  BY DEF Rows, Heads, Extends, End
<1> QED
  BY <1>1 DEF Rows

LEMMA LaidStays ==
  ASSUME NEW d, NEW e, NEW file, NEW level2, Extends(e, d),
         file.iblocks \in Seq(Nat), d \in [DOMAIN d -> BlockType],
         Laid(d, file, level2)
  PROVE  Laid(e, file, level2)
<1>1. PICK x, y, z \in Nat :
         /\ Run(file.dblocks, x, y)
         /\ Rows(d, file.iblocks, Len(file.iblocks), y, z)
         /\ level2 =>
               /\ file.i2block \in DOMAIN d
               /\ \E w \in Nat : Rows(d, d[file.i2block].list, Len(d[file.i2block].list), z, w)
  BY DEF Laid
<1>2. Rows(e, file.iblocks, Len(file.iblocks), y, z)
  BY <1>1, RowsStay
<1>3. ASSUME level2
      PROVE  /\ file.i2block \in DOMAIN e
             /\ \E w \in Nat : Rows(e, e[file.i2block].list, Len(e[file.i2block].list), z, w)
  <2>1. file.i2block \in DOMAIN d
    BY <1>1, <1>3
  <2>2. file.i2block \in DOMAIN e /\ e[file.i2block] = d[file.i2block]
    BY <2>1 DEF Extends
  <2>3. Len(d[file.i2block].list) \in Nat
    BY <2>1 DEF BlockType
  <2>4. PICK w \in Nat : Rows(d, d[file.i2block].list, Len(d[file.i2block].list), z, w)
    BY <1>1, <1>3
  <2>5. Rows(e, e[file.i2block].list, Len(e[file.i2block].list), z, w)
    BY <2>2, <2>3, <2>4, RowsStay
  <2> QED
    BY <2>2, <2>5
<1> QED
  BY <1>1, <1>2, <1>3 DEF Laid

(***************************************************************************)
(* The invariant.                                                          *)
(***************************************************************************)
NoHoles == DOMAIN data = 0 .. current_block - 1

Survived ==
    /\ \A i \in Moved : KeptFile(data, image.data, inodes[i], image.inodes[i])
    /\ \A i \in 1 .. Inodes : inodes[i].used => image.inodes[i].used

(* A list of index blocks being moved, of which `done' have been.          *)
HalfMoved(new, old) ==
    /\ done <= Len(old)
    /\ KeptIndexes(data, image.data, new, old, done)
    /\ \A n \in done + 1 .. Len(old) : new[n] = old[n]

Old == image.inodes[inode_index]

Passed(f) == at = "write" \/ (f = "i2block" /\ at = "i3block")

Moving ==
    at \in {"dblocks", "iblocks", "write"} \cup Nested =>
        /\ inode_index \in 1 .. Inodes /\ Old.used /\ node.used
        /\ IF at = "dblocks" THEN node.dblocks = Old.dblocks
                             ELSE KeptDirect(data, image.data, node.dblocks, Old.dblocks)
        /\ at = "dblocks" => node.iblocks = Old.iblocks
        /\ at = "iblocks" => HalfMoved(node.iblocks, Old.iblocks)
        /\ at \in {"write"} \cup Nested =>
              KeptIndexes(data, image.data, node.iblocks, Old.iblocks, Len(Old.iblocks))
        /\ \A f \in Nested :
              IF Passed(f) THEN KeptNested(data, image.data, node[f], Old[f])
                           ELSE node[f] = Old[f]
        /\ at \in Nested /\ Old[at] # None => HalfMoved(blocks, image.data[Old[at]].list)

Ended ==
    at = "end" /\ (\E i \in 1 .. Inodes : image.inodes[i].used) => free_block = current_block

IInv == TypeOK /\ NoHoles /\ Survived /\ Moving /\ Ended

USE InodesAssumption, ImagesAssumption DEF None, Nested

LEMMA InitInvariant == Init => IInv
<1> SUFFICES ASSUME Init PROVE IInv
  OBVIOUS
<1>1. WellFormed(image)
  BY DEF Init
<1>2. FreeInode \in InodeType
  BY DEF FreeInode, InodeType
<1>3. TypeOK
  BY <1>1, <1>2 DEF Init, TypeOK, WellFormed
<1>4. NoHoles /\ Moving /\ Ended
  BY DEF Init, NoHoles, Moving, Ended
<1>5. Survived
  BY DEF Init, Survived, Moved, FreeInode
<1> QED
  BY <1>3, <1>4, <1>5 DEF IInv

(* What is written over what.                                              *)
LEMMA OverFacts ==
  ASSUME NEW new, NEW old
  PROVE  /\ DOMAIN Over(new, old) = DOMAIN new \cup DOMAIN old
         /\ \A x \in DOMAIN new : Over(new, old)[x] = new[x]
         /\ \A x \in DOMAIN old \ DOMAIN new : Over(new, old)[x] = old[x]
BY DEF Over

(* What the file being moved points to are blocks.                         *)
LEMMA OldFacts ==
  ASSUME IInv, inode_index \in 1 .. Inodes, Old.used
  PROVE  /\ Old \in InodeType
         /\ image.data \in [DOMAIN image.data -> BlockType]
         /\ Listed(Old.dblocks, image.data)
         /\ ListsIndexes(Old.iblocks, image.data)
         /\ \A f \in Nested : Old[f] # None =>
               /\ image.data[Old[f]] \in BlockType
               /\ image.data[Old[f]].list # <<>>
               /\ ListsIndexes(image.data[Old[f]].list, image.data)
BY DEF IInv, TypeOK, WellFormed, Old

(* Copying the blocks of a list to the first numbers that are free.        *)
LEMMA CopyFacts ==
  ASSUME IInv, NEW l \in Seq(Nat), Listed(l, image.data),
         image.data \in [DOMAIN image.data -> BlockType],
         NEW mid, mid = Over(Copied(l), data)
  PROVE  /\ current_block \in Nat /\ DOMAIN data = 0 .. current_block - 1
         /\ DOMAIN mid = 0 .. current_block + Len(l) - 1
         /\ mid \in [DOMAIN mid -> BlockType]
         /\ \A x \in DOMAIN data : mid[x] = data[x]
         /\ \A n \in 1 .. Len(l) : mid[current_block + n - 1] = image.data[l[n]]
         /\ Numbers(l) \in Seq(Nat) /\ Len(Numbers(l)) = Len(l)
         /\ \A n \in 1 .. Len(l) : Numbers(l)[n] = current_block + n - 1
<1> DEFINE c == current_block
<1>1. Len(l) \in Nat /\ DOMAIN l = 1 .. Len(l) /\ c \in Nat
  BY DEF IInv, TypeOK
<1>2. DOMAIN data = 0 .. c - 1 /\ data \in [DOMAIN data -> BlockType]
  BY DEF IInv, NoHoles, TypeOK
<1>3. /\ DOMAIN Copied(l) = c .. c + Len(l) - 1
      /\ \A n \in 1 .. Len(l) : Copied(l)[c + n - 1] = image.data[l[n]]
      /\ \A x \in DOMAIN Copied(l) : Copied(l)[x] \in BlockType
  <2>1. /\ DOMAIN Copied(l) = c .. c + Len(l) - 1
        /\ \A x \in c .. c + Len(l) - 1 : Copied(l)[x] = image.data[l[x - c + 1]]
    BY DEF Copied
  <2>2. \A n \in 1 .. Len(l) : image.data[l[n]] \in BlockType
    BY <1>1 DEF Listed
  <2>3. \A n \in 1 .. Len(l) : c + n - 1 \in c .. c + Len(l) - 1 /\ (c + n - 1) - c + 1 = n
    BY <1>1
  <2>4. \A x \in c .. c + Len(l) - 1 : x - c + 1 \in 1 .. Len(l)
    BY <1>1
  <2>5. \A n \in 1 .. Len(l) : Copied(l)[c + n - 1] = image.data[l[n]]
    <3> TAKE n \in 1 .. Len(l)
    <3>1. Copied(l)[c + n - 1] = image.data[l[(c + n - 1) - c + 1]]
      BY <2>1, <2>3
    <3> QED
      BY <2>3, <3>1
  <2> QED
    BY <2>1, <2>2, <2>4, <2>5
<1>4. Numbers(l) \in Seq(Nat) /\ Len(Numbers(l)) = Len(l)
      /\ \A n \in 1 .. Len(l) : Numbers(l)[n] = c + n - 1
  <2>1. \A n \in 1 .. Len(l) : c + n - 1 \in Nat
    BY <1>1
  <2>2. Numbers(l) = [n \in 1 .. Len(l) |-> c + n - 1]
    BY <1>1 DEF Numbers
  <2> QED
    BY <1>1, <2>1, <2>2
<1>5. /\ DOMAIN mid = DOMAIN Copied(l) \cup DOMAIN data
      /\ \A x \in DOMAIN Copied(l) : mid[x] = Copied(l)[x]
      /\ \A x \in DOMAIN data \ DOMAIN Copied(l) : mid[x] = data[x]
  <2> DEFINE over == Over(Copied(l), data)
  <2>1. /\ DOMAIN over = DOMAIN Copied(l) \cup DOMAIN data
        /\ \A x \in DOMAIN Copied(l) : over[x] = Copied(l)[x]
        /\ \A x \in DOMAIN data \ DOMAIN Copied(l) : over[x] = data[x]
    BY OverFacts
  <2> HIDE DEF over
  <2>2. mid = over
    BY DEF over
  <2> QED
    BY <2>1, <2>2
<1>6. \A x \in DOMAIN data : mid[x] = data[x]
  BY <1>1, <1>2, <1>3, <1>5
<1>7. mid \in [DOMAIN mid -> BlockType]
  <2>1. \A x \in DOMAIN mid : mid[x] \in BlockType
    BY <1>2, <1>3, <1>5, <1>6
  <2>2. mid = [x \in DOMAIN mid |-> mid[x]]
    BY DEF Over
  <2> QED
    BY <2>1, <2>2
<1>8. DOMAIN mid = 0 .. c + Len(l) - 1
  BY <1>1, <1>2, <1>3, <1>5
<1>9. \A n \in 1 .. Len(l) : mid[c + n - 1] = image.data[l[n]]
  BY <1>1, <1>3, <1>5
<1> QED
  BY <1>1, <1>2, <1>4, <1>6, <1>7, <1>8, <1>9

(* The number of the new index block, its list, and what the list names.   *)
LEMMA HandleFacts ==
  ASSUME IInv, NEW b \in DOMAIN image.data, image.data \in [DOMAIN image.data -> BlockType],
         image.data[b].list # <<>>, Listed(image.data[b].list, image.data),
         handle_indirect_blocks(b)
  PROVE  /\ current_block' \in Nat
         /\ DOMAIN data' = 0 .. current_block' - 1
         /\ data' \in [DOMAIN data' -> BlockType]
         /\ Extends(data', data)
         /\ KeptIndex(data', image.data, current_block, b)
         /\ Heads(data', current_block)
         /\ current_block' = End(data', current_block)
<1> DEFINE l == image.data[b].list
           c == current_block
           mid == Over(Copied(l), data)
           top == [x \in {c} |-> Index(Numbers(l))]
<1>1. l \in Seq(Nat) /\ Len(l) \in Nat \ {0} /\ c \in Nat
  BY DEF BlockType, IInv, TypeOK
<1>2. mid = Over(Copied(l), data)
  OBVIOUS
<1> HIDE DEF mid, l
<1> HIDE DEF c
<1>3. /\ DOMAIN data = 0 .. c - 1
      /\ DOMAIN mid = 0 .. c + Len(l) - 1 /\ mid \in [DOMAIN mid -> BlockType]
      /\ \A x \in DOMAIN data : mid[x] = data[x]
      /\ \A n \in 1 .. Len(l) : mid[c + n - 1] = image.data[l[n]]
  <2>1. Listed(l, image.data)
    BY DEF l
  <2>2. DOMAIN data = 0 .. c - 1 /\ DOMAIN mid = 0 .. c + Len(l) - 1
    BY <1>1, <1>2, <2>1, CopyFacts, SMTT(30) DEF c
  <2>3. mid \in [DOMAIN mid -> BlockType]
    BY <1>1, <1>2, <2>1, CopyFacts, Zenon
  <2>4. \A x \in DOMAIN data : mid[x] = data[x]
    BY <1>1, <1>2, <2>1, CopyFacts, SMTT(30) DEF c
  <2>5. \A n \in 1 .. Len(l) : mid[c + n - 1] = image.data[l[n]]
    BY <1>1, <1>2, <2>1, CopyFacts, SMTT(90) DEF c
  <2> QED
    BY <2>2, <2>3, <2>4, <2>5
<1>4. Numbers(l) \in Seq(Nat) /\ Len(Numbers(l)) = Len(l)
      /\ \A n \in 1 .. Len(l) : Numbers(l)[n] = c + n - 1
  <2>1. Listed(l, image.data)
    BY DEF l
  <2> QED
    BY <1>1, <1>2, <2>1, CopyFacts, SMTT(30) DEF c
<1> USE DEF mid, l, c
<1>5. data' = Over(top, mid) /\ current_block' = c + Len(l)
  BY DEF handle_indirect_blocks
<1>7. /\ DOMAIN data' = 0 .. c + Len(l) - 1
      /\ data'[c] = Index(Numbers(l))
      /\ \A x \in DOMAIN mid \ {c} : data'[x] = mid[x]
  <2>1. /\ DOMAIN data' = DOMAIN top \cup DOMAIN mid
        /\ \A x \in DOMAIN top : data'[x] = top[x]
        /\ \A x \in DOMAIN mid \ DOMAIN top : data'[x] = mid[x]
    <3> HIDE DEF top, mid
    <3>1. /\ DOMAIN Over(top, mid) = DOMAIN top \cup DOMAIN mid
          /\ \A x \in DOMAIN top : Over(top, mid)[x] = top[x]
          /\ \A x \in DOMAIN mid \ DOMAIN top : Over(top, mid)[x] = mid[x]
      BY OverFacts
    <3>2. data' = Over(top, mid)
      BY <1>5
    <3> QED
      BY <3>1, <3>2
  <2>2. DOMAIN top = {c} /\ top[c] = Index(Numbers(l))
    OBVIOUS
  <2> HIDE DEF top, mid, l
  <2> QED
    BY <2>1, <2>2, <1>1, <1>3
<1>8. data'[c].list = Numbers(l) /\ data'[c] \in BlockType
  BY <1>4, <1>7 DEF Index, BlockType
<1> HIDE DEF top, mid, l
<1>9. data' \in [DOMAIN data' -> BlockType]
  <2>1. \A x \in DOMAIN data' : data'[x] \in BlockType
    BY <1>1, <1>3, <1>7, <1>8
  <2>2. data' = [x \in DOMAIN data' |-> data'[x]]
    BY <1>5 DEF Over
  <2> QED
    BY <2>1, <2>2
<1>10. Extends(data', data)
  BY <1>1, <1>3, <1>7 DEF Extends
<1>11. KeptIndex(data', image.data, c, b)
  <2>1. c \in DOMAIN data' /\ Len(data'[c].list) = Len(l)
    BY <1>1, <1>4, <1>7, <1>8
  <2>2. ASSUME NEW n \in 2 .. Len(l) PROVE Kept(data', image.data, data'[c].list[n], l[n])
    <3>1. data'[c].list[n] = c + n - 1
      BY <1>1, <1>4, <1>8
    <3>2. c + n - 1 \in DOMAIN data' /\ c + n - 1 # c
      BY <1>1, <1>7
    <3>3. n \in 1 .. Len(l) /\ c + n - 1 \in DOMAIN mid \ {c}
      <4>1. n \in 1 .. Len(l) /\ c + n - 1 \in 0 .. c + Len(l) - 1
        BY <1>1
      <4> QED
        BY <4>1, <3>2, <1>3
    <3>4. data'[c + n - 1] = mid[c + n - 1]
      BY <1>7, <3>3
    <3>5. mid[c + n - 1] = image.data[l[n]]
      BY <1>3, <3>3
    <3> QED
      BY <3>1, <3>2, <3>4, <3>5 DEF Kept
  <2> QED
    BY <2>1, <2>2 DEF KeptIndex, l
<1>12. Heads(data', c) /\ current_block' = End(data', c)
  <2>1. c \in DOMAIN data'
    BY <1>1, <1>7
  <2>2. /\ Len(data'[c].list) = Len(l) /\ data'[c].list # <<>>
        /\ \A n \in 1 .. Len(l) : data'[c].list[n] = c + n - 1
    BY <1>1, <1>4, <1>8
  <2> QED
    BY <2>1, <2>2, <1>5 DEF Heads, End
<1> QED
  BY <1>1, <1>5, <1>7, <1>9, <1>10, <1>11, <1>12

(* One more entry of a list of index blocks.                               *)
LEMMA HalfMovedStep ==
  ASSUME IInv, image.data \in [DOMAIN image.data -> BlockType],
         NEW new \in Seq(Nat), NEW old \in Seq(Nat), HalfMoved(new, old),
         done < Len(old), ListsIndexes(old, image.data),
         handle_indirect_blocks(new[done + 1])
  PROVE  LET next == [new EXCEPT ![done + 1] = current_block] IN
         /\ current_block' \in Nat
         /\ DOMAIN data' = 0 .. current_block' - 1
         /\ data' \in [DOMAIN data' -> BlockType]
         /\ Extends(data', data)
         /\ next \in Seq(Nat)
         /\ done + 1 \in Nat /\ done + 1 <= Len(old)
         /\ KeptIndexes(data', image.data, next, old, done + 1)
         /\ \A n \in (done + 1) + 1 .. Len(old) : next[n] = old[n]
<1> DEFINE d == done + 1
           next == [new EXCEPT ![d] = current_block]
<1>1. done \in Nat /\ current_block \in Nat /\ Len(new) = Len(old) /\ Len(old) \in Nat
  BY DEF IInv, TypeOK, HalfMoved, KeptIndexes
<1>2. d \in 1 .. Len(old) /\ d \in DOMAIN old /\ d \in DOMAIN new
  BY <1>1
<1>3. new[d] = old[d]
  BY <1>1, <1>2 DEF HalfMoved
<1>4. /\ old[d] \in DOMAIN image.data
      /\ image.data[old[d]].list # <<>>
      /\ Listed(image.data[old[d]].list, image.data)
  BY <1>2 DEF ListsIndexes, Listed
<1>5. handle_indirect_blocks(old[d])
  BY <1>3
<1>6. /\ current_block' \in Nat
      /\ DOMAIN data' = 0 .. current_block' - 1
      /\ data' \in [DOMAIN data' -> BlockType]
      /\ Extends(data', data)
      /\ KeptIndex(data', image.data, current_block, old[d])
  BY <1>4, <1>5, HandleFacts
<1>7. /\ next \in Seq(Nat) /\ Len(next) = Len(new) /\ next[d] = current_block
      /\ \A n \in 1 .. Len(new) : n # d => next[n] = new[n]
  BY <1>1, <1>2
<1>8. \A n \in 1 .. done : KeptIndex(data', image.data, new[n], old[n])
  BY <1>6, IndexStays DEF HalfMoved, KeptIndexes
<1> HIDE DEF next
<1>9. KeptIndexes(data', image.data, next, old, d)
  <2>1. ASSUME NEW n \in 1 .. d PROVE KeptIndex(data', image.data, next[n], old[n])
    <3>1. CASE n = d
      BY <3>1, <1>6, <1>7
    <3>2. CASE n # d
      <4>1. n \in 1 .. done /\ n \in 1 .. Len(new)
        BY <3>2, <1>1, <1>2
      <4> QED
        BY <4>1, <3>2, <1>7, <1>8
    <3> QED
      BY <3>1, <3>2
  <2> QED
    BY <2>1, <1>1, <1>7 DEF KeptIndexes
<1>10. \A n \in d + 1 .. Len(old) : next[n] = old[n]
  <2> TAKE n \in d + 1 .. Len(old)
  <2>1. n \in done + 1 .. Len(old) /\ n \in 1 .. Len(new) /\ n # d
    BY <1>1, <1>2
  <2>2. new[n] = old[n]
    BY <2>1 DEF HalfMoved
  <2> QED
    BY <2>1, <2>2, <1>7
<1> QED
  BY <1>1, <1>2, <1>6, <1>7, <1>9, <1>10 DEF next

(* Where the row of that entry lies.                                       *)
LEMMA MovedRow ==
  ASSUME IInv, image.data \in [DOMAIN image.data -> BlockType],
         NEW new, NEW old \in Seq(Nat), HalfMoved(new, old),
         done < Len(old), ListsIndexes(old, image.data),
         handle_indirect_blocks(new[done + 1])
  PROVE  /\ Extends(data', data)
         /\ Heads(data', current_block)
         /\ current_block' = End(data', current_block)
<1>1. done + 1 \in done + 1 .. Len(old) /\ done + 1 \in DOMAIN old
  BY DEF IInv, TypeOK
<1>2. new[done + 1] = old[done + 1]
  BY <1>1 DEF HalfMoved
<1>3. /\ old[done + 1] \in DOMAIN image.data
      /\ image.data[old[done + 1]].list # <<>>
      /\ Listed(image.data[old[done + 1]].list, image.data)
  BY <1>1 DEF ListsIndexes, Listed
<1> QED
  BY <1>2, <1>3, HandleFacts

(* What has been moved is not disturbed by a copy that grows.              *)
LEMMA SurvivedStays ==
  ASSUME Survived, Extends(data', data), UNCHANGED <<image, inodes, inode_index>>
  PROVE  Survived'
BY FileStays DEF Survived, Moved

(***************************************************************************)
(* Every action preserves the invariant.                                   *)
(***************************************************************************)
LEMMA MoveDirectInvariant == IInv /\ MoveDirect => IInv'
<1> SUFFICES ASSUME IInv, MoveDirect PROVE IInv'
  OBVIOUS
<1> DEFINE l == Old.dblocks
<1>1. /\ inode_index \in 1 .. Inodes /\ Old.used /\ node.used
      /\ node.dblocks = l /\ node.iblocks = Old.iblocks
      /\ \A f \in Nested : node[f] = Old[f]
  BY DEF IInv, Moving, MoveDirect, Passed
<1>2. /\ Old \in InodeType /\ l \in Seq(Nat) /\ Listed(l, image.data)
      /\ image.data \in [DOMAIN image.data -> BlockType]
  BY <1>1, OldFacts DEF InodeType
<1>3. /\ data' = Over(Copied(l), data)
      /\ current_block' = current_block + Len(l)
      /\ node' = [node EXCEPT !.dblocks = Numbers(l)]
      /\ at = "dblocks" /\ at' = "iblocks" /\ done' = 0
      /\ UNCHANGED <<image, inodes, free_block, inode_index, blocks>>
  BY <1>1 DEF MoveDirect
<1> HIDE DEF l
<1>4. /\ current_block \in Nat /\ DOMAIN data = 0 .. current_block - 1
      /\ DOMAIN data' = 0 .. current_block + Len(l) - 1
      /\ \A x \in DOMAIN data : data'[x] = data[x]
      /\ \A n \in 1 .. Len(l) : data'[current_block + n - 1] = image.data[l[n]]
      /\ Numbers(l) \in Seq(Nat) /\ Len(Numbers(l)) = Len(l)
      /\ \A n \in 1 .. Len(l) : Numbers(l)[n] = current_block + n - 1
  BY <1>2, <1>3, CopyFacts, SMTT(30)
<1>5. data' \in [DOMAIN data' -> BlockType]
  BY <1>2, <1>3, CopyFacts, Zenon
<1>6. Len(l) \in Nat /\ current_block' \in Nat
  BY <1>2, <1>3, <1>4
<1>7. Extends(data', data)
  BY <1>4, <1>6 DEF Extends
<1>8. /\ node' \in InodeType /\ node'.used /\ node'.dblocks = Numbers(l)
      /\ node'.iblocks = node.iblocks
      /\ \A f \in Nested : node'[f] = node[f]
  BY <1>1, <1>3, <1>4 DEF IInv, TypeOK, InodeType
<1>9. TypeOK'
  BY <1>3, <1>5, <1>6, <1>8 DEF IInv, TypeOK
<1>10. NoHoles' /\ Ended'
  <2>1. DOMAIN data' = 0 .. current_block' - 1
    <3>1. current_block' - 1 = current_block + Len(l) - 1
      BY <1>3, <1>4, <1>6
    <3> QED
      BY <3>1, <1>4, Zenon
  <2>2. at' # "end"
    BY <1>3
  <2> QED
    BY <2>1, <2>2 DEF NoHoles, Ended
<1>11. Survived'
  BY <1>3, <1>7, SurvivedStays DEF IInv
<1>12. KeptDirect(data', image.data, node'.dblocks, l)
  <2>1. ASSUME NEW n \in 1 .. Len(l) PROVE Kept(data', image.data, Numbers(l)[n], l[n])
    BY <1>4, <1>6 DEF Kept
  <2> QED
    BY <2>1, <1>4, <1>8 DEF KeptDirect
<1>13. HalfMoved(node.iblocks, Old.iblocks)'
  <2>1. Old' = Old /\ node'.iblocks = Old.iblocks /\ done' = 0
    BY <1>1, <1>3, <1>8 DEF Old
  <2>2. Len(Old.iblocks) \in Nat
    BY <1>2 DEF InodeType
  <2> HIDE DEF Old
  <2> QED
    BY <2>1, <2>2 DEF HalfMoved, KeptIndexes
<1>14. Moving'
  BY <1>1, <1>3, <1>8, <1>12, <1>13 DEF Moving, Old, Passed, l
<1> QED
  BY <1>9, <1>10, <1>11, <1>14 DEF IInv

LEMMA MoveIndirectInvariant == IInv /\ MoveIndirect => IInv'
<1> SUFFICES ASSUME IInv, MoveIndirect PROVE IInv'
  OBVIOUS
<1> DEFINE old == Old.iblocks
           next == [node.iblocks EXCEPT ![done + 1] = current_block]
<1>1. /\ inode_index \in 1 .. Inodes /\ Old.used /\ node.used
      /\ KeptDirect(data, image.data, node.dblocks, Old.dblocks)
      /\ HalfMoved(node.iblocks, old)
      /\ \A f \in Nested : node[f] = Old[f]
  BY DEF IInv, Moving, MoveIndirect, Passed
<1>2. /\ Old \in InodeType /\ old \in Seq(Nat) /\ ListsIndexes(old, image.data)
      /\ image.data \in [DOMAIN image.data -> BlockType]
  BY <1>1, OldFacts DEF InodeType
<1>3. /\ done < Len(old) /\ handle_indirect_blocks(node.iblocks[done + 1])
      /\ node' = [node EXCEPT !.iblocks = next]
      /\ at = "iblocks" /\ done' = done + 1
      /\ UNCHANGED <<image, inodes, free_block, inode_index, at, blocks>>
  BY <1>1 DEF MoveIndirect, HalfMoved, KeptIndexes
<1>4. node \in InodeType /\ node.iblocks \in Seq(Nat)
  BY DEF IInv, TypeOK, InodeType
<1> HIDE DEF old, next
<1>5. /\ current_block' \in Nat
      /\ DOMAIN data' = 0 .. current_block' - 1
      /\ data' \in [DOMAIN data' -> BlockType]
      /\ Extends(data', data)
      /\ next \in Seq(Nat)
      /\ done + 1 \in Nat /\ done + 1 <= Len(old)
      /\ KeptIndexes(data', image.data, next, old, done + 1)
      /\ \A n \in (done + 1) + 1 .. Len(old) : next[n] = old[n]
  BY <1>1, <1>2, <1>3, <1>4, HalfMovedStep DEF next
<1>6. /\ node' \in InodeType /\ node'.used /\ node'.dblocks = node.dblocks
      /\ node'.iblocks = next
      /\ \A f \in Nested : node'[f] = node[f]
  BY <1>1, <1>3, <1>4, <1>5 DEF InodeType
<1>7. TypeOK'
  BY <1>3, <1>5, <1>6 DEF IInv, TypeOK
<1>8. NoHoles' /\ Ended'
  BY <1>3, <1>5 DEF NoHoles, Ended
<1>9. Survived'
  BY <1>3, <1>5, SurvivedStays DEF IInv
<1>10. KeptDirect(data', image.data, node'.dblocks, Old.dblocks)
  BY <1>1, <1>5, <1>6, DirectStays
<1>11. HalfMoved(node.iblocks, Old.iblocks)'
  BY <1>3, <1>5, <1>6 DEF HalfMoved, Old, old
<1>12. Moving'
  BY <1>1, <1>3, <1>6, <1>10, <1>11 DEF Moving, Old, Passed
<1> QED
  BY <1>7, <1>8, <1>9, <1>12 DEF IInv

LEMMA MoveOnInvariant == IInv /\ MoveOn => IInv'
<1> SUFFICES ASSUME IInv, MoveOn PROVE IInv'
  OBVIOUS
<1> DEFINE g == After(at)
<1>1. /\ at \in {"iblocks"} \cup Nested
      /\ at = "iblocks" => done = Len(node.iblocks)
      /\ at \in Nested => node[at] = None
      /\ at' = g /\ done' = 0
      /\ blocks' = IF g \in Nested /\ node[g] # None THEN image.data[node[g]].list
                                                     ELSE <<>>
      /\ UNCHANGED <<image, inodes, data, free_block, inode_index, node, current_block>>
  BY DEF MoveOn, Begin
<1>2. /\ inode_index \in 1 .. Inodes /\ Old.used /\ node.used
      /\ KeptDirect(data, image.data, node.dblocks, Old.dblocks)
      /\ at = "iblocks" => HalfMoved(node.iblocks, Old.iblocks)
      /\ at \in Nested =>
            KeptIndexes(data, image.data, node.iblocks, Old.iblocks, Len(Old.iblocks))
      /\ \A f \in Nested :
            IF Passed(f) THEN KeptNested(data, image.data, node[f], Old[f])
                         ELSE node[f] = Old[f]
  BY <1>1 DEF IInv, Moving
<1>3. \/ g = "i2block" /\ at = "iblocks"
      \/ g = "i3block" /\ at = "i2block"
      \/ g = "write" /\ at = "i3block"
  BY <1>1 DEF After
<1> HIDE DEF g
<1>4. g \in Nested => node[g] = Old[g]
  BY <1>2, <1>3 DEF Passed
<1>5. g \in Nested /\ Old[g] # None =>
         /\ blocks' = image.data[Old[g]].list
         /\ blocks' \in Seq(Nat)
  BY <1>1, <1>2, <1>4, OldFacts DEF BlockType
<1>6. blocks' \in Seq(Nat)
  BY <1>1, <1>4, <1>5
<1>7. TypeOK'
  BY <1>1, <1>3, <1>6 DEF IInv, TypeOK
<1>8. NoHoles' /\ Ended'
  BY <1>1, <1>3 DEF IInv, NoHoles, Ended
<1>9. Survived'
  BY <1>1 DEF IInv, Survived, Moved
<1>10. KeptIndexes(data, image.data, node.iblocks, Old.iblocks, Len(Old.iblocks))
  BY <1>1, <1>2 DEF HalfMoved, KeptIndexes
<1>11. \A f \in Nested :
          IF Passed(f)' THEN KeptNested(data, image.data, node[f], Old[f])
                        ELSE node[f] = Old[f]
  BY <1>1, <1>2, <1>3 DEF Passed, KeptNested
<1>12. at' \in Nested /\ Old[at'] # None => HalfMoved(blocks, image.data[Old[at]].list)'
  <2> SUFFICES ASSUME g \in Nested, Old[g] # None
               PROVE  HalfMoved(blocks, image.data[Old[at]].list)'
    BY <1>1
  <2>1. (image.data[Old[at]].list)' = blocks' /\ Len(blocks') \in Nat
    BY <1>1, <1>5 DEF Old
  <2>2. done' = 0
    BY <1>1
  <2> QED
    BY <2>1, <2>2 DEF HalfMoved, KeptIndexes
<1>13. Moving'
  BY <1>1, <1>2, <1>3, <1>10, <1>11, <1>12 DEF Moving, Old
<1> QED
  BY <1>7, <1>8, <1>9, <1>13 DEF IInv

LEMMA MoveNestedInvariant == IInv /\ MoveNested => IInv'
<1> SUFFICES ASSUME IInv, MoveNested PROVE IInv'
  OBVIOUS
<1> DEFINE old == image.data[Old[at]].list
           next == [blocks EXCEPT ![done + 1] = current_block]
<1>1. /\ at \in Nested /\ inode_index \in 1 .. Inodes /\ Old.used /\ node.used
      /\ KeptDirect(data, image.data, node.dblocks, Old.dblocks)
      /\ KeptIndexes(data, image.data, node.iblocks, Old.iblocks, Len(Old.iblocks))
      /\ \A f \in Nested :
            IF Passed(f) THEN KeptNested(data, image.data, node[f], Old[f])
                         ELSE node[f] = Old[f]
      /\ Old[at] # None
      /\ HalfMoved(blocks, old)
  <2>1. ~Passed(at)
    BY DEF MoveNested, Passed
  <2> QED
    BY <2>1 DEF IInv, Moving, MoveNested
<1>2. /\ old \in Seq(Nat) /\ ListsIndexes(old, image.data)
      /\ image.data \in [DOMAIN image.data -> BlockType]
  BY <1>1, OldFacts DEF BlockType
<1>3. /\ done < Len(old) /\ handle_indirect_blocks(blocks[done + 1])
      /\ blocks' = next
      /\ done' = done + 1
      /\ UNCHANGED <<image, inodes, free_block, inode_index, node, at>>
  BY <1>1 DEF MoveNested, HalfMoved, KeptIndexes
<1>4. blocks \in Seq(Nat)
  BY DEF IInv, TypeOK
<1> HIDE DEF old, next
<1>5. /\ current_block' \in Nat
      /\ DOMAIN data' = 0 .. current_block' - 1
      /\ data' \in [DOMAIN data' -> BlockType]
      /\ Extends(data', data)
      /\ next \in Seq(Nat)
      /\ done + 1 \in Nat /\ done + 1 <= Len(old)
      /\ KeptIndexes(data', image.data, next, old, done + 1)
      /\ \A n \in (done + 1) + 1 .. Len(old) : next[n] = old[n]
  BY <1>1, <1>2, <1>3, <1>4, HalfMovedStep DEF next
<1>6. TypeOK'
  BY <1>3, <1>5 DEF IInv, TypeOK
<1>7. NoHoles' /\ Ended'
  BY <1>1, <1>3, <1>5 DEF NoHoles, Ended
<1>8. Survived'
  BY <1>3, <1>5, SurvivedStays DEF IInv
<1>9. /\ KeptDirect(data', image.data, node.dblocks, Old.dblocks)
      /\ KeptIndexes(data', image.data, node.iblocks, Old.iblocks, Len(Old.iblocks))
      /\ \A f \in Nested :
            IF Passed(f) THEN KeptNested(data', image.data, node[f], Old[f])
                         ELSE node[f] = Old[f]
  BY <1>1, <1>5, DirectStays, IndexesStay, NestedStays
<1>10. HalfMoved(blocks, image.data[Old[at]].list)'
  BY <1>3, <1>5 DEF HalfMoved, Old, old
<1>11. Moving'
  BY <1>1, <1>3, <1>9, <1>10 DEF Moving, Old, Passed
<1> QED
  BY <1>6, <1>7, <1>8, <1>11 DEF IInv

LEMMA WriteNestedInvariant == IInv /\ WriteNested => IInv'
<1> SUFFICES ASSUME IInv, WriteNested PROVE IInv'
  OBVIOUS
<1> DEFINE old == image.data[Old[at]].list
           c == current_block
           g == After(at)
<1>1. /\ at \in Nested /\ inode_index \in 1 .. Inodes /\ Old.used /\ node.used
      /\ KeptDirect(data, image.data, node.dblocks, Old.dblocks)
      /\ KeptIndexes(data, image.data, node.iblocks, Old.iblocks, Len(Old.iblocks))
      /\ \A f \in Nested :
            IF Passed(f) THEN KeptNested(data, image.data, node[f], Old[f])
                         ELSE node[f] = Old[f]
      /\ Old[at] # None
      /\ HalfMoved(blocks, old)
  <2>1. ~Passed(at)
    BY DEF WriteNested, Passed
  <2> QED
    BY <2>1 DEF IInv, Moving, WriteNested
<1>2. /\ data' = Over([x \in {c} |-> Index(blocks)], data)
      /\ node' = [node EXCEPT ![at] = c]
      /\ c' = c + 1 /\ done = Len(blocks)
      /\ at' = g /\ done' = 0
      /\ blocks' = IF g \in Nested /\ node[g] # None THEN image.data[node[g]].list
                                                     ELSE <<>>
      /\ UNCHANGED <<image, inodes, free_block, inode_index>>
  BY DEF WriteNested, Begin
<1>3. \/ g = "i3block" /\ at = "i2block"
      \/ g = "write" /\ at = "i3block"
  BY <1>1 DEF After
<1>4. /\ node \in InodeType /\ blocks \in Seq(Nat) /\ c \in Nat
      /\ DOMAIN data = 0 .. c - 1 /\ data \in [DOMAIN data -> BlockType]
  BY DEF IInv, TypeOK, NoHoles
<1>5. /\ old \in Seq(Nat)
      /\ image.data \in [DOMAIN image.data -> BlockType]
  BY <1>1, OldFacts DEF BlockType
<1> HIDE DEF g, old
<1>6. /\ DOMAIN data' = 0 .. c /\ data'[c].list = blocks /\ data'[c] \in BlockType
      /\ \A x \in DOMAIN data : data'[x] = data[x]
  <2>1. /\ DOMAIN data' = {c} \cup DOMAIN data
        /\ data'[c] = Index(blocks)
        /\ \A x \in DOMAIN data \ {c} : data'[x] = data[x]
    BY <1>2 DEF Over
  <2> QED
    BY <2>1, <1>4 DEF Index, BlockType
<1>7. data' \in [DOMAIN data' -> BlockType]
  <2>1. \A x \in DOMAIN data' : data'[x] \in BlockType
    BY <1>4, <1>6
  <2>2. data' = [x \in DOMAIN data' |-> data'[x]]
    BY <1>2 DEF Over
  <2> QED
    BY <2>1, <2>2
<1>8. Extends(data', data)
  BY <1>4, <1>6 DEF Extends
<1>9. /\ node' \in InodeType /\ node'.used /\ node'.dblocks = node.dblocks
      /\ node'.iblocks = node.iblocks /\ node'[at] = c
      /\ \A f \in Nested \ {at} : node'[f] = node[f]
  BY <1>1, <1>2, <1>4 DEF InodeType
<1>10. g \in Nested => node[g] = Old[g]
  BY <1>1, <1>3 DEF Passed
<1>11. g \in Nested /\ Old[g] # None =>
          blocks' = image.data[Old[g]].list /\ blocks' \in Seq(Nat)
  BY <1>1, <1>2, <1>10, OldFacts DEF BlockType
<1>12. blocks' \in Seq(Nat)
  BY <1>2, <1>10, <1>11
<1>13. TypeOK'
  <2>1. at' \in {"read", "dblocks", "iblocks", "write", "end"} \cup Nested
    BY <1>2, <1>3
  <2>2. /\ WellFormed(image)' /\ inodes' \in [1 .. Inodes -> InodeType]
        /\ free_block' \in Nat /\ inode_index' \in 1 .. Inodes + 1
    BY <1>2 DEF IInv, TypeOK, WellFormed
  <2>3. current_block' \in Nat /\ done' \in Nat
    BY <1>2, <1>4
  <2> QED
    BY <2>1, <2>2, <2>3, <1>7, <1>9, <1>12 DEF TypeOK
<1>14. NoHoles' /\ Ended'
  BY <1>2, <1>3, <1>4, <1>6 DEF NoHoles, Ended
<1>15. Survived'
  BY <1>2, <1>8, SurvivedStays DEF IInv
<1>16. /\ KeptDirect(data', image.data, node.dblocks, Old.dblocks)
       /\ KeptIndexes(data', image.data, node.iblocks, Old.iblocks, Len(Old.iblocks))
       /\ KeptIndexes(data', image.data, blocks, old, done)
  BY <1>1, <1>8, DirectStays, IndexesStay DEF HalfMoved
<1>17. KeptNested(data', image.data, node'[at], Old[at])
  <2>1. Len(old) = done
    BY <1>1, <1>2 DEF HalfMoved, KeptIndexes
  <2>2. c \in DOMAIN data'
    BY <1>4, <1>6
  <2> QED
    BY <2>1, <2>2, <1>6, <1>9, <1>16 DEF KeptNested, old
<1>18. \A f \in Nested :
          IF Passed(f)' THEN KeptNested(data', image.data, node'[f], Old[f])
                        ELSE node'[f] = Old[f]
  <2> SUFFICES ASSUME NEW f \in Nested
               PROVE  IF Passed(f)' THEN KeptNested(data', image.data, node'[f], Old[f])
                                    ELSE node'[f] = Old[f]
    OBVIOUS
  <2>1. CASE f = at
    BY <2>1, <1>2, <1>3, <1>17 DEF Passed
  <2>2. CASE f # at
    <3>1. node'[f] = node[f] /\ (Passed(f)' <=> Passed(f))
      BY <2>2, <1>2, <1>3, <1>9 DEF Passed
    <3> QED
      BY <3>1, <1>1, <1>8, NestedStays
  <2> QED
    BY <2>1, <2>2
<1>19. at' \in Nested /\ Old[at'] # None => HalfMoved(blocks, image.data[Old[at]].list)'
  <2> SUFFICES ASSUME g \in Nested, Old[g] # None
               PROVE  HalfMoved(blocks, image.data[Old[at]].list)'
    BY <1>2
  <2>1. (image.data[Old[at]].list)' = blocks' /\ Len(blocks') \in Nat
    BY <1>2, <1>11 DEF Old
  <2>2. done' = 0
    BY <1>2
  <2> QED
    BY <2>1, <2>2 DEF HalfMoved, KeptIndexes
<1>20. Moving'
  BY <1>1, <1>2, <1>3, <1>9, <1>16, <1>18, <1>19 DEF Moving, Old
<1> QED
  BY <1>13, <1>14, <1>15, <1>20 DEF IInv

LEMMA InodeLoopInvariant == IInv /\ (ReadInode \/ SkipInode \/ Finish) => IInv'
<1> SUFFICES ASSUME IInv, ReadInode \/ SkipInode \/ Finish PROVE IInv'
  OBVIOUS
<1>1. inode_index \in 1 .. Inodes + 1 /\ Inodes \in Nat
  BY DEF IInv, TypeOK
<1>2. CASE ReadInode
  <2>1. inode_index \in 1 .. Inodes /\ Old.used /\ node' = Old
    BY <1>1, <1>2 DEF ReadInode, Old
  <2>2. TypeOK'
    BY <1>2, <2>1, OldFacts DEF IInv, TypeOK, ReadInode
  <2>3. Moving'
    BY <1>2, <2>1 DEF ReadInode, Moving, Passed, Old
  <2>4. NoHoles' /\ Survived' /\ Ended'
    BY <1>2 DEF ReadInode, IInv, NoHoles, Survived, Moved, Ended
  <2> QED
    BY <2>2, <2>3, <2>4 DEF IInv
<1>3. CASE SkipInode
  <2>1. TypeOK'
    BY <1>1, <1>3 DEF IInv, TypeOK, SkipInode
  <2>2. Moving' /\ NoHoles' /\ Ended'
    BY <1>3 DEF SkipInode, Moving, IInv, NoHoles, Ended
  <2>3. Moved' = Moved
    BY <1>1, <1>3 DEF SkipInode, Moved
  <2>4. Survived'
    BY <1>3, <2>3 DEF SkipInode, IInv, Survived
  <2> QED
    BY <2>1, <2>2, <2>4 DEF IInv
<1>4. CASE Finish
  <2>1. TypeOK'
    BY <1>4 DEF IInv, TypeOK, Finish
  <2>2. Moving' /\ NoHoles' /\ Ended' /\ Survived'
    BY <1>4 DEF Finish, Moving, IInv, NoHoles, Ended, Survived, Moved
  <2> QED
    BY <2>1, <2>2 DEF IInv
<1> QED
  BY <1>2, <1>3, <1>4

LEMMA WriteInodeInvariant == IInv /\ WriteInode => IInv'
<1> SUFFICES ASSUME IInv, WriteInode PROVE IInv'
  OBVIOUS
<1>1. /\ inode_index \in 1 .. Inodes /\ Old.used /\ node.used
      /\ KeptDirect(data, image.data, node.dblocks, Old.dblocks)
      /\ KeptIndexes(data, image.data, node.iblocks, Old.iblocks, Len(Old.iblocks))
      /\ \A f \in Nested : KeptNested(data, image.data, node[f], Old[f])
  BY DEF IInv, Moving, WriteInode, Passed
<1>2. /\ inodes \in [1 .. Inodes -> InodeType] /\ node \in InodeType /\ Inodes \in Nat
      /\ inodes' = [inodes EXCEPT ![inode_index] = node]
      /\ inode_index' = inode_index + 1 /\ at' = "read"
      /\ UNCHANGED <<image, data, free_block, node, current_block, done, blocks>>
  BY DEF IInv, TypeOK, WriteInode
<1>3. TypeOK'
  BY <1>1, <1>2 DEF IInv, TypeOK
<1>4. NoHoles' /\ Ended' /\ Moving'
  BY <1>2 DEF IInv, NoHoles, Ended, Moving
<1>5. KeptFile(data, image.data, node, Old)
  BY <1>1 DEF KeptFile
<1>6. Survived'
  <2>1. Moved' = Moved \cup {inode_index}
    BY <1>1, <1>2 DEF Moved, Old
  <2>2. /\ inodes'[inode_index] = node
        /\ \A i \in 1 .. Inodes : i # inode_index => inodes'[i] = inodes[i]
    BY <1>1, <1>2
  <2>3. \A i \in Moved : i # inode_index /\ i \in 1 .. Inodes
    BY <1>1 DEF Moved
  <2>4. \A i \in Moved' : KeptFile(data, image.data, inodes'[i], image.inodes[i])
    BY <2>1, <2>2, <2>3, <1>5 DEF IInv, Survived, Old
  <2>5. \A i \in 1 .. Inodes : inodes'[i].used => image.inodes[i].used
    BY <2>2, <1>1 DEF IInv, Survived, Old
  <2> QED
    BY <2>4, <2>5, <1>2 DEF Survived
<1> QED
  BY <1>3, <1>4, <1>6 DEF IInv

LEMMA NextInvariant == IInv /\ [Next]_vars => IInv'
<1> SUFFICES ASSUME IInv, [Next]_vars PROVE IInv'
  OBVIOUS
<1>1. CASE Next
  BY <1>1, MoveDirectInvariant, MoveIndirectInvariant, MoveOnInvariant,
     MoveNestedInvariant, WriteNestedInvariant, InodeLoopInvariant,
     WriteInodeInvariant DEF Next
<1>2. CASE UNCHANGED vars
  BY <1>2 DEF vars, IInv, TypeOK, NoHoles, Survived, Moved, Moving, HalfMoved,
              Passed, Old, Ended
<1> QED
  BY <1>1, <1>2

(***************************************************************************)
(* Where the blocks of the files lie: what has been moved of a file is a   *)
(* run of numbers that ends with current_block.                            *)
(***************************************************************************)
Level2 == Old.i2block # None

Placed ==
    /\ at = "iblocks" =>
          \E x, y \in Nat : /\ Run(node.dblocks, x, y)
                            /\ Rows(data, node.iblocks, done, y, current_block)
    /\ at = "i2block" =>
          \E x, y, z \in Nat :
              /\ Run(node.dblocks, x, y)
              /\ Rows(data, node.iblocks, Len(node.iblocks), y, z)
              /\ IF Level2 THEN Rows(data, blocks, done, z, current_block) ELSE TRUE
    /\ at \in {"i3block", "write"} => Laid(data, node, Level2)

AllLaid == \A i \in Moved : Laid(data, inodes[i], image.inodes[i].i2block # None)

PInv == IInv /\ Placed /\ AllLaid

LEMMA AllLaidStays ==
  ASSUME IInv, AllLaid, Extends(data', data), UNCHANGED <<image, inodes, inode_index>>
  PROVE  AllLaid'
<1>1. data \in [DOMAIN data -> BlockType]
  BY DEF IInv, TypeOK
<1>2. \A i \in Moved : inodes[i].iblocks \in Seq(Nat)
  BY DEF IInv, TypeOK, Moved, InodeType
<1> QED
  BY <1>1, <1>2, LaidStays DEF AllLaid, Moved

(* One more row of a list of index blocks.                                 *)
LEMMA RowsStep ==
  ASSUME NEW d, NEW e, NEW list \in Seq(Nat), NEW m \in Nat, m < Len(list),
         NEW x, NEW b \in Nat, NEW c, Extends(e, d), Rows(d, list, m, x, b),
         Heads(e, b), c = End(e, b)
  PROVE  Rows(e, [list EXCEPT ![m + 1] = b], m + 1, x, c)
<1> DEFINE next == [list EXCEPT ![m + 1] = b]
<1>1. Rows(e, list, m, x, b)
  BY RowsStay
<1>2. next[m + 1] = b /\ \A n \in 1 .. m : next[n] = list[n]
  OBVIOUS
<1> HIDE DEF next
<1>3. \A n \in 1 .. m + 1 : Heads(e, next[n])
  BY <1>1, <1>2 DEF Rows
<1>4. ASSUME NEW n \in 1 .. (m + 1) - 1 PROVE next[n + 1] = End(e, next[n])
  <2>1. CASE n = m
    BY <2>1, <1>1, <1>2 DEF Rows
  <2>2. CASE n # m
    <3>1. n \in 1 .. m - 1 /\ n \in 1 .. m /\ n + 1 \in 1 .. m
      BY <2>2
    <3> QED
      BY <3>1, <1>1, <1>2 DEF Rows
  <2> QED
    BY <2>1, <2>2
<1>5. next[1] = x /\ c = End(e, next[m + 1])
  BY <1>1, <1>2 DEF Rows
<1> QED
  BY <1>3, <1>4, <1>5 DEF Rows, next

LEMMA MoveDirectPlaced == PInv /\ MoveDirect => (Placed /\ AllLaid)'
<1> SUFFICES ASSUME PInv, MoveDirect PROVE (Placed /\ AllLaid)'
  OBVIOUS
<1> DEFINE l == Old.dblocks
<1>1. IInv /\ inode_index \in 1 .. Inodes /\ Old.used /\ node.dblocks = l
  BY DEF PInv, IInv, Moving, MoveDirect
<1>2. /\ l \in Seq(Nat) /\ Listed(l, image.data)
      /\ image.data \in [DOMAIN image.data -> BlockType]
  BY <1>1, OldFacts DEF InodeType
<1>3. /\ data' = Over(Copied(l), data)
      /\ current_block' = current_block + Len(l)
      /\ node' = [node EXCEPT !.dblocks = Numbers(l)]
      /\ at' = "iblocks" /\ done' = 0
      /\ UNCHANGED <<image, inodes, inode_index>>
  BY <1>1 DEF MoveDirect
<1> HIDE DEF l
<1>4. /\ current_block \in Nat /\ DOMAIN data = 0 .. current_block - 1
      /\ DOMAIN data' = 0 .. current_block + Len(l) - 1
      /\ \A x \in DOMAIN data : data'[x] = data[x]
      /\ Len(Numbers(l)) = Len(l)
      /\ \A n \in 1 .. Len(l) : Numbers(l)[n] = current_block + n - 1
  BY <1>1, <1>2, <1>3, CopyFacts
<1>5. Len(l) \in Nat
  BY <1>2
<1>6. Extends(data', data)
  BY <1>4, <1>5 DEF Extends
<1>7. node'.dblocks = Numbers(l)
  BY <1>1, <1>3 DEF IInv, TypeOK, InodeType
<1>8. Run(node'.dblocks, current_block, current_block')
  BY <1>3, <1>4, <1>5, <1>7 DEF Run
<1>9. Rows(data', node'.iblocks, done', current_block', current_block')
  BY <1>3 DEF Rows
<1>10. current_block \in Nat /\ current_block' \in Nat
  BY <1>3, <1>4, <1>5
<1> QED
  BY <1>1, <1>3, <1>6, <1>8, <1>9, <1>10, AllLaidStays DEF Placed, PInv

LEMMA MoveIndirectPlaced == PInv /\ MoveIndirect => (Placed /\ AllLaid)'
<1> SUFFICES ASSUME PInv, MoveIndirect PROVE (Placed /\ AllLaid)'
  OBVIOUS
<1> DEFINE old == Old.iblocks
           next == [node.iblocks EXCEPT ![done + 1] = current_block]
<1>1. IInv /\ inode_index \in 1 .. Inodes /\ Old.used /\ HalfMoved(node.iblocks, old)
  BY DEF PInv, IInv, Moving, MoveIndirect
<1>2. /\ old \in Seq(Nat) /\ ListsIndexes(old, image.data)
      /\ image.data \in [DOMAIN image.data -> BlockType]
  BY <1>1, OldFacts DEF InodeType
<1>3. /\ done < Len(node.iblocks) /\ done < Len(old)
      /\ handle_indirect_blocks(node.iblocks[done + 1])
      /\ node' = [node EXCEPT !.iblocks = next]
      /\ at = "iblocks" /\ at' = "iblocks" /\ done' = done + 1
      /\ UNCHANGED <<image, inodes, inode_index>>
  BY <1>1 DEF MoveIndirect, HalfMoved, KeptIndexes
<1>4. /\ node \in InodeType /\ node.iblocks \in Seq(Nat) /\ done \in Nat
      /\ current_block \in Nat
  BY <1>1 DEF IInv, TypeOK, InodeType
<1> HIDE DEF old
<1>5. /\ Extends(data', data)
      /\ Heads(data', current_block)
      /\ current_block' = End(data', current_block)
  BY <1>1, <1>2, <1>3, <1>4, MovedRow
<1>6. PICK x, y \in Nat : /\ Run(node.dblocks, x, y)
                          /\ Rows(data, node.iblocks, done, y, current_block)
  BY <1>3 DEF PInv, Placed
<1>7. Rows(data', next, done + 1, y, current_block')
  BY <1>3, <1>4, <1>5, <1>6, RowsStep
<1>8. node'.dblocks = node.dblocks /\ node'.iblocks = next
  BY <1>3, <1>4 DEF InodeType
<1> HIDE DEF next
<1>9. Placed'
  BY <1>3, <1>6, <1>7, <1>8 DEF Placed
<1> QED
  BY <1>1, <1>3, <1>5, <1>9, AllLaidStays DEF PInv

LEMMA MoveOnPlaced == PInv /\ MoveOn => (Placed /\ AllLaid)'
<1> SUFFICES ASSUME PInv, MoveOn PROVE (Placed /\ AllLaid)'
  OBVIOUS
<1>1. /\ UNCHANGED <<image, inodes, data, inode_index, node, current_block>>
      /\ at' = After(at) /\ done' = 0
      /\ at \in {"iblocks"} \cup Nested
      /\ at = "iblocks" => done = Len(node.iblocks)
      /\ at \in Nested => node[at] = None
  BY DEF MoveOn, Begin
<1>2. Old' = Old /\ (Level2' <=> Level2) /\ AllLaid'
  BY <1>1 DEF Old, Level2, PInv, AllLaid, Moved
<1>3. IInv /\ current_block \in Nat
  BY DEF PInv, IInv, TypeOK
<1>4. CASE at = "iblocks"
  <2>1. PICK x, y \in Nat : /\ Run(node.dblocks, x, y)
                            /\ Rows(data, node.iblocks, done, y, current_block)
    BY <1>4 DEF PInv, Placed
  <2>2. done = Len(node.iblocks) /\ at' = "i2block"
    BY <1>1, <1>4 DEF After
  <2>3. Rows(data', blocks', done', current_block', current_block')
    BY <1>1 DEF Rows
  <2>4. \E p, q, z \in Nat :
           /\ Run(node'.dblocks, p, q)
           /\ Rows(data', node'.iblocks, Len(node'.iblocks), q, z)
           /\ IF Level2' THEN Rows(data', blocks', done', z, current_block') ELSE TRUE
    BY <2>1, <2>2, <2>3, <1>1, <1>3
  <2> QED
    BY <2>2, <2>4, <1>2 DEF Placed
<1>5. CASE at = "i2block"
  <2>1. PICK x, y, z \in Nat :
              /\ Run(node.dblocks, x, y)
              /\ Rows(data, node.iblocks, Len(node.iblocks), y, z)
    BY <1>5 DEF PInv, Placed
  <2>2. at' = "i3block" /\ node.i2block = None
    BY <1>1, <1>5 DEF After
  <2>3. ~Level2
    BY <1>3, <1>5, <2>2 DEF IInv, Moving, Passed, Level2
  <2>4. Laid(data, node, Level2)
    BY <2>1, <2>3 DEF Laid
  <2>5. Laid(data', node', Level2')
    BY <2>4, <1>1, <1>2 DEF Laid
  <2> QED
    BY <2>2, <2>5, <1>2 DEF Placed
<1>6. CASE at = "i3block"
  <2>1. at' = "write"
    BY <1>1, <1>6 DEF After
  <2>2. Laid(data, node, Level2)
    BY <1>6 DEF PInv, Placed
  <2>3. Laid(data', node', Level2')
    BY <2>2, <1>1, <1>2 DEF Laid
  <2> QED
    BY <2>1, <2>3, <1>2 DEF Placed
<1> QED
  BY <1>1, <1>4, <1>5, <1>6

LEMMA MoveNestedPlaced == PInv /\ MoveNested => (Placed /\ AllLaid)'
<1> SUFFICES ASSUME PInv, MoveNested PROVE (Placed /\ AllLaid)'
  OBVIOUS
<1> DEFINE old == image.data[Old[at]].list
           next == [blocks EXCEPT ![done + 1] = current_block]
<1>1. /\ IInv /\ at \in Nested /\ inode_index \in 1 .. Inodes /\ Old.used
      /\ Old[at] # None
      /\ HalfMoved(blocks, old)
  <2>1. ~Passed(at)
    BY DEF MoveNested, Passed
  <2> QED
    BY <2>1 DEF PInv, IInv, Moving, MoveNested
<1>2. /\ old \in Seq(Nat) /\ ListsIndexes(old, image.data)
      /\ image.data \in [DOMAIN image.data -> BlockType]
  BY <1>1, OldFacts DEF BlockType
<1>3. /\ done < Len(blocks) /\ done < Len(old) /\ handle_indirect_blocks(blocks[done + 1])
      /\ blocks' = next
      /\ done' = done + 1
      /\ UNCHANGED <<image, inodes, inode_index, node, at>>
  BY <1>1 DEF MoveNested, HalfMoved, KeptIndexes
<1>4. /\ blocks \in Seq(Nat) /\ done \in Nat /\ current_block \in Nat
      /\ node.iblocks \in Seq(Nat) /\ Len(node.iblocks) \in Nat
      /\ data \in [DOMAIN data -> BlockType]
  <2>1. /\ blocks \in Seq(Nat) /\ done \in Nat /\ current_block \in Nat
        /\ data \in [DOMAIN data -> BlockType] /\ node \in InodeType
    BY <1>1 DEF IInv, TypeOK
  <2>2. node.iblocks \in Seq(Nat)
    BY <2>1 DEF InodeType
  <2> QED
    BY <2>1, <2>2
<1> HIDE DEF old
<1>5. /\ Extends(data', data)
      /\ Heads(data', current_block)
      /\ current_block' = End(data', current_block)
  BY <1>1, <1>2, <1>3, <1>4, MovedRow
<1>6. Level2' <=> Level2
  BY <1>3 DEF Level2, Old
<1>7. CASE at = "i2block"
  <2>1. PICK x, y, z \in Nat :
              /\ Run(node.dblocks, x, y)
              /\ Rows(data, node.iblocks, Len(node.iblocks), y, z)
              /\ IF Level2 THEN Rows(data, blocks, done, z, current_block) ELSE TRUE
    BY <1>7 DEF PInv, Placed
  <2>2. Rows(data', node.iblocks, Len(node.iblocks), y, z)
    BY <2>1, <1>4, <1>5, RowsStay
  <2>3. Rows(data, blocks, done, z, current_block)
    BY <2>1, <1>1, <1>7 DEF Level2
  <2>4. Rows(data', next, done + 1, z, current_block')
    BY <2>3, <1>3, <1>4, <1>5, RowsStep
  <2> HIDE DEF next
  <2>5. \E p, q, r \in Nat :
           /\ Run(node'.dblocks, p, q)
           /\ Rows(data', node'.iblocks, Len(node'.iblocks), q, r)
           /\ IF Level2' THEN Rows(data', blocks', done', r, current_block') ELSE TRUE
    BY <2>1, <2>2, <2>4, <1>3
  <2>6. Placed'
    BY <2>5, <1>3, <1>7 DEF Placed
  <2> QED
    BY <2>6, <1>1, <1>3, <1>5, AllLaidStays DEF PInv
<1>8. CASE at = "i3block"
  <2>1. Laid(data, node, Level2)
    BY <1>8 DEF PInv, Placed
  <2>2. Laid(data', node', Level2')
    BY <2>1, <1>3, <1>4, <1>5, <1>6, LaidStays
  <2>3. Placed'
    BY <2>2, <1>3, <1>8 DEF Placed
  <2> QED
    BY <2>3, <1>1, <1>3, <1>5, AllLaidStays DEF PInv
<1> QED
  BY <1>1, <1>7, <1>8

LEMMA WriteNestedPlaced == PInv /\ WriteNested => (Placed /\ AllLaid)'
<1> SUFFICES ASSUME PInv, WriteNested PROVE (Placed /\ AllLaid)'
  OBVIOUS
<1> DEFINE c == current_block
           old == image.data[Old[at]].list
<1>1. /\ IInv /\ at \in Nested /\ inode_index \in 1 .. Inodes /\ Old.used
      /\ Old[at] # None
      /\ HalfMoved(blocks, old)
  <2>1. ~Passed(at)
    BY DEF WriteNested, Passed
  <2> QED
    BY <2>1 DEF PInv, IInv, Moving, WriteNested
<1>2. /\ data' = Over([x \in {c} |-> Index(blocks)], data)
      /\ node' = [node EXCEPT ![at] = c]
      /\ done = Len(blocks) /\ at' = After(at)
      /\ UNCHANGED <<image, inodes, inode_index>>
  BY DEF WriteNested, Begin
<1>3. /\ node \in InodeType /\ blocks \in Seq(Nat) /\ c \in Nat /\ done \in Nat
      /\ node.iblocks \in Seq(Nat)
      /\ DOMAIN data = 0 .. c - 1 /\ data \in [DOMAIN data -> BlockType]
  BY <1>1 DEF IInv, TypeOK, NoHoles, InodeType
<1>4. /\ c \in DOMAIN data' /\ data'[c].list = blocks
      /\ Extends(data', data)
  <2>1. /\ DOMAIN data' = {c} \cup DOMAIN data
        /\ data'[c] = Index(blocks)
        /\ \A x \in DOMAIN data \ {c} : data'[x] = data[x]
    BY <1>2 DEF Over
  <2> QED
    BY <2>1, <1>3 DEF Index, Extends
<1>5. /\ node'.dblocks = node.dblocks /\ node'.iblocks = node.iblocks
      /\ node'[at] = c
      /\ \A f \in Nested \ {at} : node'[f] = node[f]
  BY <1>1, <1>2, <1>3 DEF InodeType
<1>6. (Level2' <=> Level2) /\ AllLaid'
  BY <1>1, <1>2, <1>4, AllLaidStays DEF Level2, Old, PInv
<1>7. CASE at = "i2block"
  <2>1. PICK x, y, z \in Nat :
              /\ Run(node.dblocks, x, y)
              /\ Rows(data, node.iblocks, Len(node.iblocks), y, z)
              /\ IF Level2 THEN Rows(data, blocks, done, z, current_block) ELSE TRUE
    BY <1>7 DEF PInv, Placed
  <2>2. Rows(data', node'.iblocks, Len(node'.iblocks), y, z)
    BY <2>1, <1>3, <1>4, <1>5, RowsStay
  <2>3. Rows(data', blocks, Len(blocks), z, c)
    BY <2>1, <1>1, <1>2, <1>3, <1>4, <1>7, RowsStay DEF Level2
  <2>4. node'.i2block = c
    BY <1>5, <1>7
  <2>5. Laid(data', node', Level2')
    BY <2>1, <2>2, <2>3, <2>4, <1>3, <1>4, <1>5 DEF Laid
  <2>6. at' = "i3block"
    BY <1>2, <1>7 DEF After
  <2> QED
    BY <2>5, <2>6, <1>6 DEF Placed
<1>8. CASE at = "i3block"
  <2>1. Laid(data', node, Level2)
    BY <1>3, <1>4, <1>8, LaidStays DEF PInv, Placed
  <2>2. node'.i2block = node.i2block
    BY <1>5, <1>8
  <2>3. Laid(data', node', Level2')
    BY <2>1, <2>2, <1>5, <1>6 DEF Laid
  <2>4. at' = "write"
    BY <1>2, <1>8 DEF After
  <2> QED
    BY <2>3, <2>4, <1>6 DEF Placed
<1> QED
  BY <1>1, <1>7, <1>8

LEMMA InodeLoopPlaced ==
  PInv /\ (ReadInode \/ SkipInode \/ Finish \/ WriteInode) => (Placed /\ AllLaid)'
<1> SUFFICES ASSUME PInv, ReadInode \/ SkipInode \/ Finish \/ WriteInode
             PROVE  (Placed /\ AllLaid)'
  OBVIOUS
<1>1. CASE ReadInode
  BY <1>1 DEF ReadInode, PInv, Placed, AllLaid, Moved
<1>2. CASE SkipInode
  <2>1. Moved' = Moved
    BY <1>2 DEF SkipInode, Moved, PInv, IInv, TypeOK
  <2> QED
    BY <1>2, <2>1 DEF SkipInode, PInv, Placed, AllLaid
<1>3. CASE Finish
  BY <1>3 DEF Finish, PInv, Placed, AllLaid, Moved
<1>4. CASE WriteInode
  <2>1. /\ inode_index \in 1 .. Inodes
        /\ inodes \in [1 .. Inodes -> InodeType]
        /\ inodes' = [inodes EXCEPT ![inode_index] = node]
        /\ inode_index' = inode_index + 1 /\ at' = "read"
        /\ UNCHANGED <<image, data>>
    BY <1>4 DEF WriteInode, PInv, IInv, TypeOK, Moving
  <2>2. Placed'
    BY <2>1 DEF Placed
  <2>3. Laid(data, node, Level2)
    BY <1>4 DEF WriteInode, PInv, Placed
  <2>4. /\ inodes'[inode_index] = node
        /\ \A i \in 1 .. Inodes : i # inode_index => inodes'[i] = inodes[i]
    BY <2>1
  <2>5. Moved' = Moved \cup {inode_index} /\ \A i \in Moved : i \in 1 .. Inodes /\ i # inode_index
    <3>1. Old.used
      BY <1>4 DEF WriteInode, PInv, IInv, Moving
    <3>2. Moved' = {i \in 1 .. inode_index : image.inodes[i].used}
      BY <2>1 DEF Moved
    <3> QED
      BY <2>1, <3>1, <3>2 DEF Moved, Old
  <2>6. AllLaid'
    BY <2>1, <2>3, <2>4, <2>5 DEF AllLaid, PInv, Level2, Old
  <2> QED
    BY <2>2, <2>6
<1> QED
  BY <1>1, <1>2, <1>3, <1>4

LEMMA PlacedInvariant == PInv /\ [Next]_vars => PInv'
<1> SUFFICES ASSUME PInv, [Next]_vars PROVE PInv'
  OBVIOUS
<1>1. IInv'
  BY NextInvariant DEF PInv
<1>2. (Placed /\ AllLaid)'
  <2>1. CASE Next
    BY <2>1, MoveDirectPlaced, MoveIndirectPlaced, MoveOnPlaced, MoveNestedPlaced,
       WriteNestedPlaced, InodeLoopPlaced DEF Next
  <2>2. CASE UNCHANGED vars
    BY <2>2 DEF vars, PInv, Placed, AllLaid, Moved, Level2, Old
  <2> QED
    BY <2>1, <2>2
<1> QED
  BY <1>1, <1>2 DEF PInv

(***************************************************************************)
(* The theorems.                                                           *)
(***************************************************************************)

(* The invariant holds of every defragmentation.                           *)
THEOREM Invariance == Spec => []IInv
<1> QED
  BY InitInvariant, NextInvariant, PTL DEF Spec

(* Every variable of the defragmenter stays in its type.                   *)
THEOREM TypeCorrect == Spec => []TypeOK
<1>1. IInv => TypeOK
  BY DEF IInv
<1> QED
  BY <1>1, Invariance, PTL

(* For any disk, the numbers that the copy uses are those that are written *)
(* and the superblock that defragment_disk writes says where they end.     *)
THEOREM NumbersAreWritten == Spec => []EveryNumberIsWritten
<1>1. IInv => EveryNumberIsWritten
  BY DEF IInv, NoHoles, Survived, Ended, EveryNumberIsWritten
<1> QED
  BY <1>1, Invariance, PTL

LEMMA KeptIndexesAreSame ==
  ASSUME NEW new \in Seq(Nat), NEW old,
         KeptIndexes(data, image.data, new, old, Len(old))
  PROVE  SameIndexes(new, old)
<1>1. Len(new) = Len(old) /\ DOMAIN new = 1 .. Len(old)
  BY DEF KeptIndexes
<1>2. \A n \in 1 .. Len(old) : SameIndex(new[n], old[n])
  BY DEF KeptIndexes, KeptIndex, Kept, SameIndex
<1> QED
  BY <1>1, <1>2 DEF SameIndexes

(* For any disk, a file that has been moved keeps what its inode and, but  *)
(* for their first entry, its index blocks name, down to those of the      *)
(* i2block, whatever is moved later.                                       *)
THEOREM ListedBlocksKept == Spec => []ListedBlocksSurvive
<1>1. IInv => ListedBlocksSurvive
  <2> SUFFICES ASSUME IInv, NEW i \in Moved
               PROVE  SameFile(inodes[i], image.inodes[i])
    BY DEF ListedBlocksSurvive
  <2> DEFINE new == inodes[i]
             old == image.inodes[i]
  <2>1. i \in 1 .. Inodes /\ new \in InodeType
    BY DEF Moved, IInv, TypeOK
  <2>2. KeptFile(data, image.data, new, old)
    BY DEF IInv, Survived
  <2>3. new.dblocks \in Seq(Nat) /\ new.iblocks \in Seq(Nat)
    BY <2>1 DEF InodeType
  <2> HIDE DEF new, old
  <2>4. /\ Len(new.dblocks) = Len(old.dblocks)
        /\ \A n \in DOMAIN new.dblocks :
              data[new.dblocks[n]] = image.data[old.dblocks[n]]
    BY <2>2, <2>3 DEF KeptFile, KeptDirect, Kept
  <2>5. SameIndexes(new.iblocks, old.iblocks)
    BY <2>2, <2>3, KeptIndexesAreSame DEF KeptFile
  <2>6. ASSUME old.i2block # None
        PROVE  SameIndexes(data[new.i2block].list, image.data[old.i2block].list)
    <3>1. /\ new.i2block \in DOMAIN data
          /\ KeptIndexes(data, image.data, data[new.i2block].list,
                         image.data[old.i2block].list, Len(image.data[old.i2block].list))
      BY <2>2, <2>6 DEF KeptFile, KeptNested, Nested
    <3>2. data[new.i2block].list \in Seq(Nat)
      BY <3>1 DEF IInv, TypeOK, BlockType
    <3> QED
      BY <3>1, <3>2, KeptIndexesAreSame
  <2>7. new.used
    BY <2>2 DEF KeptFile
  <2>8. SameFile(new, old)
    BY <2>4, <2>5, <2>6, <2>7 DEF SameFile
  <2> QED
    BY <2>8 DEF new, old
<1> QED
  BY <1>1, Invariance, PTL

(***************************************************************************)
(* Lists that follow one another from number x to before y, none of them   *)
(* empty.                                                                  *)
(***************************************************************************)
Follows(row) == \A n \in 1 .. Len(row) - 1 : row[n + 1] = row[n] + 1

Joined(rows, x, y) ==
    /\ rows \in Seq(Seq(Nat))
    /\ \A k \in 1 .. Len(rows) : rows[k] # <<>> /\ Follows(rows[k])
    /\ \A k \in 1 .. Len(rows) - 1 : rows[k + 1][1] = rows[k][Len(rows[k])] + 1
    /\ IF Len(rows) = 0 THEN x = y
       ELSE rows[1][1] = x /\ rows[Len(rows)][Len(rows[Len(rows)])] + 1 = y

(* What an index block of the copy names.                                  *)
LEMMA RowFacts ==
  ASSUME NEW d, NEW b \in Nat, d \in [DOMAIN d -> BlockType], Heads(d, b)
  PROVE  LET row == d[b].list IN
         /\ row \in Seq(Nat) /\ row # <<>> /\ Follows(row)
         /\ row[1] = b /\ row[Len(row)] + 1 = End(d, b)
<1> DEFINE row == d[b].list
<1>1. /\ row \in Seq(Nat) /\ row # <<>>
      /\ \A n \in 1 .. Len(row) : row[n] = b + n - 1
      /\ End(d, b) = b + Len(row)
  BY DEF Heads, BlockType, End
<1> HIDE DEF row
<1>2. Len(row) \in Nat \ {0}
  BY <1>1
<1>3. Follows(row)
  <2> SUFFICES ASSUME NEW n \in 1 .. Len(row) - 1 PROVE row[n + 1] = row[n] + 1
    BY DEF Follows
  <2>1. n \in 1 .. Len(row) /\ n + 1 \in 1 .. Len(row)
    BY <1>2
  <2>2. row[n] = b + n - 1 /\ row[n + 1] = b + (n + 1) - 1
    BY <2>1, <1>1
  <2> QED
    BY <2>2
<1>4. row[1] = b /\ row[Len(row)] + 1 = End(d, b)
  <2>1. 1 \in 1 .. Len(row) /\ Len(row) \in 1 .. Len(row)
    BY <1>2
  <2>2. row[1] = b + 1 - 1 /\ row[Len(row)] = b + Len(row) - 1
    BY <1>1, <2>1
  <2> QED
    BY <1>1, <1>2, <2>2
<1> QED
  BY <1>1, <1>3, <1>4 DEF row

(* What the index blocks of a list name.                                   *)
LEMMA RowsAreJoined ==
  ASSUME NEW d, d \in [DOMAIN d -> BlockType], NEW list \in Seq(Nat), NEW x, NEW y,
         Rows(d, list, Len(list), x, y)
  PROVE  Joined(Below(list, d), x, y)
<1> DEFINE rows == Below(list, d)
<1>1. \A k \in 1 .. Len(list) : LET row == d[list[k]].list IN
         /\ row \in Seq(Nat) /\ row # <<>> /\ Follows(row)
         /\ row[1] = list[k] /\ row[Len(row)] + 1 = End(d, list[k])
  <2> TAKE k \in 1 .. Len(list)
  <2>1. list[k] \in Nat /\ Heads(d, list[k])
    BY DEF Rows
  <2> QED
    BY <2>1, RowFacts
<1>2. rows = [n \in 1 .. Len(list) |-> d[list[n]].list] /\ Len(list) \in Nat
  BY DEF Below
<1> HIDE DEF rows
<1>3. rows \in Seq(Seq(Nat)) /\ Len(rows) = Len(list)
      /\ \A n \in 1 .. Len(list) : rows[n] = d[list[n]].list
  BY <1>1, <1>2
<1>4. \A k \in 1 .. Len(rows) : rows[k] # <<>> /\ Follows(rows[k])
  BY <1>1, <1>3
<1>5. ASSUME NEW k \in 1 .. Len(rows) - 1
      PROVE  rows[k + 1][1] = rows[k][Len(rows[k])] + 1
  <2>1. k \in 1 .. Len(list) /\ k + 1 \in 1 .. Len(list) /\ k \in 1 .. Len(list) - 1
    BY <1>2, <1>3
  <2>2. list[k + 1] = End(d, list[k])
    BY <2>1 DEF Rows
  <2>3. rows[k + 1][1] = list[k + 1]
    BY <2>1, <1>1, <1>3
  <2>4. rows[k][Len(rows[k])] + 1 = End(d, list[k])
    BY <2>1, <1>1, <1>3
  <2> QED
    BY <2>2, <2>3, <2>4
<1>6. IF Len(rows) = 0 THEN x = y
      ELSE rows[1][1] = x /\ rows[Len(rows)][Len(rows[Len(rows)])] + 1 = y
  <2>1. CASE Len(list) = 0
    BY <2>1, <1>3 DEF Rows
  <2>2. CASE Len(list) # 0
    <3>1. 1 \in 1 .. Len(list) /\ Len(list) \in 1 .. Len(list)
      BY <2>2, <1>2
    <3>2. list[1] = x /\ y = End(d, list[Len(list)])
      BY <2>2 DEF Rows
    <3>3. rows[1][1] = x
      BY <3>1, <3>2, <1>1, <1>3
    <3>4. rows[Len(list)][Len(rows[Len(list)])] + 1 = y
      BY <3>1, <3>2, <1>1, <1>3
    <3> QED
      BY <3>3, <3>4, <2>2, <1>3
  <2> QED
    BY <2>1, <2>2
<1>7. Joined(rows, x, y)
  BY <1>3, <1>4, <1>5, <1>6 DEF Joined
<1> QED
  BY <1>7 DEF rows

(* Such lists can be put one after the other.                              *)
LEMMA JoinedAgain ==
  ASSUME NEW r, NEW s, NEW x, NEW y, NEW z, Joined(r, x, y), Joined(s, y, z)
  PROVE  Joined(r \o s, x, z)
<1> DEFINE t == r \o s
           m == Len(r)
           n == Len(s)
<1>1. r \in Seq(Seq(Nat)) /\ s \in Seq(Seq(Nat)) /\ m \in Nat /\ n \in Nat
  BY DEF Joined
<1>2. /\ t \in Seq(Seq(Nat)) /\ Len(t) = m + n
      /\ \A k \in 1 .. m + n : t[k] = IF k <= m THEN r[k] ELSE s[k - m]
  BY <1>1, ConcatProperties, Zenon
<1> HIDE DEF t
<1>3. ASSUME NEW k \in 1 .. m PROVE t[k] = r[k]
  <2>1. k \in 1 .. m + n /\ k <= m
    BY <1>1
  <2> QED
    BY <2>1, <1>2
<1>4. ASSUME NEW k \in 1 .. n PROVE t[m + k] = s[k]
  <2>1. m + k \in 1 .. m + n /\ ~(m + k <= m) /\ (m + k) - m = k
    BY <1>1
  <2> QED
    BY <2>1, <1>2
<1>5. ASSUME NEW k \in 1 .. Len(t)
      PROVE  k \in 1 .. m \/ \E j \in 1 .. n : k = m + j
  <2>1. CASE k <= m
    BY <2>1, <1>1, <1>2
  <2>2. CASE ~(k <= m)
    <3>1. k - m \in 1 .. n /\ k = m + (k - m)
      BY <2>2, <1>1, <1>2
    <3> QED
      BY <3>1
  <2> QED
    BY <2>1, <2>2
<1>6. ASSUME NEW k \in 1 .. Len(t) PROVE t[k] # <<>> /\ Follows(t[k])
  <2>1. CASE k \in 1 .. m
    BY <2>1, <1>3 DEF Joined
  <2>2. CASE \E j \in 1 .. n : k = m + j
    BY <2>2, <1>4 DEF Joined
  <2> QED
    BY <2>1, <2>2, <1>5
<1>7. n > 0 => t[m + 1] = s[1] /\ t[m + n] = s[n]
  BY <1>1, <1>4
<1>8. m > 0 => t[1] = r[1] /\ t[m] = r[m]
  BY <1>1, <1>3
<1>9. ASSUME NEW k \in 1 .. Len(t) - 1
      PROVE  t[k + 1][1] = t[k][Len(t[k])] + 1
  <2>1. k \in 1 .. Len(t)
    BY <1>1, <1>2
  <2>2. CASE k \in 1 .. m - 1
    <3>1. k \in 1 .. m /\ k + 1 \in 1 .. m
      BY <2>2, <1>1
    <3>2. t[k] = r[k] /\ t[k + 1] = r[k + 1]
      BY <3>1, <1>3
    <3> QED
      BY <2>2, <3>2 DEF Joined
  <2>3. CASE k = m
    <3>1. n > 0 /\ m > 0
      BY <2>3, <1>1, <1>2
    <3>2. t[k] = r[m] /\ t[k + 1] = s[1]
      BY <3>1, <2>3, <1>7, <1>8
    <3>3. r[m][Len(r[m])] + 1 = y /\ s[1][1] = y
      BY <3>1 DEF Joined
    <3> QED
      BY <3>2, <3>3
  <2>4. CASE k > m
    <3>1. k - m \in 1 .. n - 1 /\ k - m \in 1 .. n /\ (k - m) + 1 \in 1 .. n
      <4>1. k \in Nat /\ k <= m + n - 1
        BY <2>1, <1>1, <1>2
      <4> QED
        BY <4>1, <2>4, <1>1
    <3>2. k = m + (k - m) /\ k + 1 = m + ((k - m) + 1)
      BY <1>1, <2>1
    <3>3. t[k] = s[k - m] /\ t[k + 1] = s[(k - m) + 1]
      BY <3>1, <3>2, <1>4
    <3> QED
      BY <3>1, <3>3 DEF Joined
  <2>5. k \in 1 .. m - 1 \/ k = m \/ k > m
    BY <1>1, <2>1
  <2> QED
    BY <2>2, <2>3, <2>4, <2>5
<1>10. IF Len(t) = 0 THEN x = z
       ELSE t[1][1] = x /\ t[Len(t)][Len(t[Len(t)])] + 1 = z
  <2>1. CASE m = 0 /\ n = 0
    BY <2>1, <1>2 DEF Joined
  <2>2. CASE m = 0 /\ n > 0
    <3>1. Len(t) = n /\ t[1] = s[1] /\ t[n] = s[n]
      BY <2>2, <1>1, <1>2, <1>7
    <3>2. x = y /\ s[1][1] = y /\ s[n][Len(s[n])] + 1 = z
      BY <2>2 DEF Joined
    <3> QED
      BY <2>2, <3>1, <3>2
  <2>3. CASE m > 0 /\ n = 0
    <3>1. Len(t) = m /\ t[1] = r[1] /\ t[m] = r[m]
      BY <2>3, <1>1, <1>2, <1>8
    <3>2. y = z /\ r[1][1] = x /\ r[m][Len(r[m])] + 1 = y
      BY <2>3 DEF Joined
    <3> QED
      BY <2>3, <3>1, <3>2
  <2>4. CASE m > 0 /\ n > 0
    <3>1. Len(t) = m + n /\ t[1] = r[1] /\ t[m + n] = s[n] /\ m + n # 0
      BY <2>4, <1>1, <1>2, <1>7, <1>8
    <3>2. r[1][1] = x /\ s[n][Len(s[n])] + 1 = z
      BY <2>4 DEF Joined
    <3> QED
      BY <3>1, <3>2
  <2> QED
    BY <1>1, <2>1, <2>2, <2>3, <2>4
<1>11. Joined(t, x, z)
  BY <1>2, <1>6, <1>9, <1>10 DEF Joined
<1> QED
  BY <1>11 DEF t

LEMMA JoinedTwice ==
  \A r, s, t \in Seq(Seq(Nat)) : (r \o s) \o t = r \o (s \o t)
<1> DEFINE S == Seq(Nat)
<1> HIDE DEF S
<1>1. \A r, s, t \in Seq(S) : (r \o s) \o t = r \o (s \o t)
  BY ConcatAssociative
<1> QED
  BY <1>1, Zenon DEF S

LEMMA EmptyIsJoined == \A x : Joined(<<>>, x, x)
BY DEF Joined

(* The direct blocks before them, of which there may be none.              *)
LEMMA JoinedInSequence ==
  ASSUME NEW list \in Seq(Nat), NEW rows, NEW x \in Nat, NEW y \in Nat, NEW z \in Nat,
         Run(list, x, y), Joined(rows, y, z)
  PROVE  InSequence(<<list>> \o rows)
<1> DEFINE t == <<list>> \o rows
<1>1. rows \in Seq(Seq(Nat)) /\ Len(rows) \in Nat /\ Len(list) \in Nat
  BY DEF Joined
<1>2. /\ <<list>> \in Seq(Seq(Nat)) /\ Len(<<list>>) = 1 /\ <<list>>[1] = list
  OBVIOUS
<1>3. /\ t \in Seq(Seq(Nat)) /\ Len(t) = 1 + Len(rows)
      /\ \A k \in 1 .. 1 + Len(rows) : t[k] = IF k <= 1 THEN <<list>>[k] ELSE rows[k - 1]
  <2> HIDE DEF t
  <2>1. /\ <<list>> \o rows \in Seq(Seq(Nat))
        /\ Len(<<list>> \o rows) = Len(<<list>>) + Len(rows)
        /\ \A k \in 1 .. Len(<<list>>) + Len(rows) :
              (<<list>> \o rows)[k] = IF k <= Len(<<list>>) THEN <<list>>[k]
                                      ELSE rows[k - Len(<<list>>)]
    BY <1>1, <1>2, ConcatProperties, Zenon
  <2> QED
    BY <2>1, <1>2 DEF t
<1> HIDE DEF t
<1>4. t[1] = list /\ \A k \in 1 .. Len(rows) : t[k + 1] = rows[k]
  <2>1. t[1] = list
    BY <1>1, <1>2, <1>3
  <2>2. ASSUME NEW k \in 1 .. Len(rows) PROVE t[k + 1] = rows[k]
    <3>1. k + 1 \in 1 .. 1 + Len(rows) /\ ~(k + 1 <= 1) /\ (k + 1) - 1 = k
      BY <1>1
    <3> QED
      BY <3>1, <1>3
  <2> QED
    BY <2>1, <2>2
<1>5. Follows(list)
  <2> SUFFICES ASSUME NEW n \in 1 .. Len(list) - 1 PROVE list[n + 1] = list[n] + 1
    BY DEF Follows
  <2>1. n \in 1 .. Len(list) /\ n + 1 \in 1 .. Len(list)
    BY <1>1
  <2>2. list[n] = x + n - 1 /\ list[n + 1] = x + (n + 1) - 1
    BY <2>1 DEF Run
  <2> QED
    BY <2>2
<1>6. ASSUME NEW k \in DOMAIN t PROVE Follows(t[k])
  <2>1. k \in 1 .. 1 + Len(rows)
    BY <1>3
  <2>2. CASE k = 1
    BY <2>2, <1>4, <1>5
  <2>3. CASE k # 1
    <3>1. k - 1 \in 1 .. Len(rows) /\ (k - 1) + 1 = k
      BY <2>1, <2>3, <1>1
    <3> QED
      BY <3>1, <1>4 DEF Joined
  <2> QED
    BY <2>2, <2>3
<1>7. ASSUME NEW k \in 1 .. Len(t) - 1, t[k] # <<>>
      PROVE  t[k + 1][1] = t[k][Len(t[k])] + 1
  <2>1. k \in 1 .. Len(rows)
    BY <1>1, <1>3
  <2>2. CASE k = 1
    <3>1. list # <<>>
      BY <2>2, <1>4, <1>7
    <3>2. list[Len(list)] + 1 = y
      <4>1. Len(list) \in 1 .. Len(list)
        BY <3>1, <1>1
      <4>2. list[Len(list)] = x + Len(list) - 1 /\ y = x + Len(list)
        BY <4>1 DEF Run
      <4> QED
        BY <4>2, <1>1
    <3>3. rows[1][1] = y
      BY <2>1, <2>2, <1>1 DEF Joined
    <3> QED
      BY <2>1, <2>2, <3>2, <3>3, <1>4
  <2>3. CASE k # 1
    <3>1. k - 1 \in 1 .. Len(rows) - 1 /\ k - 1 \in 1 .. Len(rows) /\ (k - 1) + 1 = k
      BY <2>1, <2>3, <1>1
    <3>2. t[k] = rows[k - 1] /\ t[k + 1] = rows[k]
      BY <2>1, <3>1, <1>4
    <3>3. rows[(k - 1) + 1][1] = rows[k - 1][Len(rows[k - 1])] + 1
      BY <3>1 DEF Joined
    <3> QED
      BY <3>1, <3>2, <3>3
  <2> QED
    BY <2>2, <2>3
<1>8. InSequence(t)
  BY <1>6, <1>7 DEF InSequence, Follows
<1> QED
  BY <1>8 DEF t

LEMMA PlacedHolds == Spec => []PInv
<1>1. Init => PInv
  BY InitInvariant DEF Init, PInv, Placed, AllLaid, Moved
<1> QED
  BY <1>1, PlacedInvariant, PTL DEF Spec

(* For any disk, a file that has been moved lies in blocks that follow one *)
(* another, in each list and from a list to the next: what                 *)
(* move_blocks_contiguous and handle_indirect_blocks are for.              *)
THEOREM FilesStaySequential == Spec => []FilesAreSequential
<1>2. Spec => []PInv
  BY PlacedHolds
<1>3. PInv => FilesAreSequential
  <2> SUFFICES ASSUME PInv, NEW i \in Moved
               PROVE  InSequence(BlockLists(inodes[i], data, image.inodes[i].i2block # None))
    BY DEF FilesAreSequential
  <2> DEFINE file == inodes[i]
             level2 == image.inodes[i].i2block # None
             second == IF level2 THEN Below(data[file.i2block].list, data) ELSE <<>>
  <2>1. /\ file.dblocks \in Seq(Nat) /\ file.iblocks \in Seq(Nat)
        /\ data \in [DOMAIN data -> BlockType]
    <3>1. i \in 1 .. Inodes /\ inodes[i] \in InodeType
      BY DEF PInv, IInv, TypeOK, Moved
    <3>2. data \in [DOMAIN data -> BlockType]
      BY DEF PInv, IInv, TypeOK
    <3> QED
      BY <3>1, <3>2 DEF InodeType
  <2>2. Laid(data, file, level2)
    BY DEF PInv, AllLaid
  <2> HIDE DEF file, level2
  <2>3. PICK x, y, z \in Nat :
          /\ Run(file.dblocks, x, y)
          /\ Rows(data, file.iblocks, Len(file.iblocks), y, z)
          /\ level2 =>
                /\ file.i2block \in DOMAIN data
                /\ \E w \in Nat : Rows(data, data[file.i2block].list,
                                       Len(data[file.i2block].list), z, w)
    BY <2>2 DEF Laid
  <2>4. Joined(Below(file.iblocks, data), y, z)
    BY <2>1, <2>3, RowsAreJoined
  <2>5. \E w \in Nat : Joined(second, z, w)
    <3>1. CASE level2
      <4>1. PICK w \in Nat : Rows(data, data[file.i2block].list,
                                  Len(data[file.i2block].list), z, w)
        BY <2>3, <3>1
      <4>2. data[file.i2block].list \in Seq(Nat)
        BY <2>1, <2>3, <3>1 DEF BlockType
      <4>3. Joined(Below(data[file.i2block].list, data), z, w)
        BY <2>1, <4>1, <4>2, RowsAreJoined
      <4> QED
        BY <3>1, <4>3
    <3>2. CASE ~level2
      BY <3>2, EmptyIsJoined
    <3> QED
      BY <3>1, <3>2
  <2>6. PICK w \in Nat : Joined(second, z, w)
    BY <2>5
  <2> HIDE DEF second
  <2>7. Joined(Below(file.iblocks, data) \o second, y, w)
    BY <2>4, <2>6, JoinedAgain
  <2>8. InSequence(<<file.dblocks>> \o (Below(file.iblocks, data) \o second))
    BY <2>1, <2>3, <2>7, JoinedInSequence
  <2>9. (<<file.dblocks>> \o Below(file.iblocks, data)) \o second
           = <<file.dblocks>> \o (Below(file.iblocks, data) \o second)
    <3>1. Below(file.iblocks, data) \in Seq(Seq(Nat)) /\ second \in Seq(Seq(Nat))
      BY <2>4, <2>6 DEF Joined
    <3>2. <<file.dblocks>> \in Seq(Seq(Nat))
      BY <2>1
    <3> QED
      BY <3>1, <3>2, JoinedTwice
  <2> QED
    BY <2>8, <2>9 DEF BlockLists, second, level2, file
<1> QED
  BY <1>2, <1>3, PTL

(***************************************************************************)
(* Between which numbers of a copy d the blocks of a file lie: from lo to  *)
(* before hi.                                                              *)
(***************************************************************************)
ListIn(list, lo, hi) == \A n \in 1 .. Len(list) : list[n] \in lo .. hi - 1

(* The first m index blocks of a list, and what they list.                 *)
IndexesIn(d, list, m, lo, hi) ==
    \A n \in 1 .. m : list[n] \in lo .. hi - 1 /\ ListIn(d[list[n]].list, lo, hi)

NestedIn(d, b, lo, hi) ==
    b # None => /\ b \in lo .. hi - 1
                /\ IndexesIn(d, d[b].list, Len(d[b].list), lo, hi)

FileIn(d, file, lo, hi) ==
    /\ ListIn(file.dblocks, lo, hi)
    /\ IndexesIn(d, file.iblocks, Len(file.iblocks), lo, hi)
    /\ \A f \in Nested : NestedIn(d, file[f], lo, hi)

(* Files lie one after the other, and of the file being moved what has     *)
(* been moved lies after the files before it.                              *)
AllIn == \A i \in Moved : FileIn(data, inodes[i], 0, current_block)

Apart ==
    \A i, j \in Moved : i < j =>
        \E s \in 0 .. current_block :
            FileIn(data, inodes[i], 0, s) /\ FileIn(data, inodes[j], s, current_block)

Part(s) ==
    /\ at # "dblocks" => ListIn(node.dblocks, s, current_block)
    /\ at = "iblocks" => IndexesIn(data, node.iblocks, done, s, current_block)
    /\ at \in {"write"} \cup Nested =>
          IndexesIn(data, node.iblocks, Len(node.iblocks), s, current_block)
    /\ \A f \in Nested : Passed(f) => NestedIn(data, node[f], s, current_block)
    /\ at \in Nested /\ node[at] # None => IndexesIn(data, blocks, done, s, current_block)

Busy == {"dblocks", "iblocks", "write"} \cup Nested

Halfway ==
    at \in Busy =>
        \E s \in 0 .. current_block :
            Part(s) /\ \A i \in Moved : FileIn(data, inodes[i], 0, s)

Pointers ==
    /\ \A i \in Moved, f \in Nested : inodes[i][f] = None <=> image.inodes[i][f] = None
    /\ at \in Busy => \A f \in Nested : node[f] = None <=> Old[f] = None

BInv == IInv /\ AllIn /\ Apart /\ Halfway /\ Pointers

(* A copy that grows keeps the files where they lie.                       *)
LEMMA ListWidens ==
  ASSUME NEW list, NEW lo \in Nat, NEW hi \in Nat, NEW lo2 \in Nat, NEW hi2 \in Nat,
         lo2 <= lo, hi <= hi2, ListIn(list, lo, hi)
  PROVE  ListIn(list, lo2, hi2)
BY DEF ListIn

LEMMA IndexesWiden ==
  ASSUME NEW d, NEW e, NEW list, NEW m \in Nat,
         NEW lo \in Nat, NEW hi \in Nat, NEW lo2 \in Nat, NEW hi2 \in Nat,
         lo2 <= lo, hi <= hi2, Extends(e, d), lo .. hi - 1 \subseteq DOMAIN d,
         IndexesIn(d, list, m, lo, hi)
  PROVE  IndexesIn(e, list, m, lo2, hi2)
<1> SUFFICES ASSUME NEW n \in 1 .. m
             PROVE  list[n] \in lo2 .. hi2 - 1 /\ ListIn(e[list[n]].list, lo2, hi2)
  BY DEF IndexesIn
<1>1. list[n] \in lo .. hi - 1 /\ ListIn(d[list[n]].list, lo, hi)
  BY DEF IndexesIn
<1>2. e[list[n]] = d[list[n]]
  BY <1>1 DEF Extends
<1>3. list[n] \in lo2 .. hi2 - 1
  BY <1>1
<1> QED
  BY <1>1, <1>2, <1>3, ListWidens

LEMMA NestedWidens ==
  ASSUME NEW d, NEW e, NEW b, NEW lo \in Nat, NEW hi \in Nat, NEW lo2 \in Nat, NEW hi2 \in Nat,
         lo2 <= lo, hi <= hi2, Extends(e, d), lo .. hi - 1 \subseteq DOMAIN d,
         d \in [DOMAIN d -> BlockType], NestedIn(d, b, lo, hi)
  PROVE  NestedIn(e, b, lo2, hi2)
<1> SUFFICES ASSUME b # None
             PROVE  b \in lo2 .. hi2 - 1 /\ IndexesIn(e, e[b].list, Len(e[b].list), lo2, hi2)
  BY DEF NestedIn
<1>1. b \in lo .. hi - 1 /\ IndexesIn(d, d[b].list, Len(d[b].list), lo, hi)
  BY DEF NestedIn
<1>2. b \in DOMAIN d /\ e[b] = d[b] /\ Len(d[b].list) \in Nat
  BY <1>1 DEF Extends, BlockType
<1>3. b \in lo2 .. hi2 - 1
  BY <1>1
<1> QED
  BY <1>1, <1>2, <1>3, IndexesWiden

LEMMA FileWidens ==
  ASSUME NEW d, NEW e, NEW file \in InodeType,
         NEW lo \in Nat, NEW hi \in Nat, NEW lo2 \in Nat, NEW hi2 \in Nat,
         lo2 <= lo, hi <= hi2, Extends(e, d), lo .. hi - 1 \subseteq DOMAIN d,
         d \in [DOMAIN d -> BlockType], FileIn(d, file, lo, hi)
  PROVE  FileIn(e, file, lo2, hi2)
<1>1. ListIn(file.dblocks, lo2, hi2)
  BY ListWidens DEF FileIn
<1>2. Len(file.iblocks) \in Nat
  BY DEF InodeType
<1>3. IndexesIn(e, file.iblocks, Len(file.iblocks), lo2, hi2)
  BY <1>2, IndexesWiden DEF FileIn
<1>4. \A f \in Nested : NestedIn(e, file[f], lo2, hi2)
  BY NestedWidens DEF FileIn
<1> QED
  BY <1>1, <1>3, <1>4 DEF FileIn

(* What has been moved stays apart when the copy grows.                    *)
LEMMA CopyGrows ==
  ASSUME BInv, Extends(data', data), current_block' \in Nat,
         current_block <= current_block', UNCHANGED <<image, inodes, inode_index>>
  PROVE  /\ (AllIn /\ Apart)'
         /\ \A s \in 0 .. current_block, i \in Moved :
               FileIn(data, inodes[i], 0, s) => FileIn(data', inodes'[i], 0, s)
<1>1. /\ current_block \in Nat /\ DOMAIN data = 0 .. current_block - 1
      /\ data \in [DOMAIN data -> BlockType]
      /\ Moved' = Moved /\ \A i \in Moved : inodes[i] \in InodeType
  BY DEF BInv, IInv, TypeOK, NoHoles, Moved
<1>2. ASSUME NEW s \in 0 .. current_block, NEW i \in Moved, FileIn(data, inodes[i], 0, s)
      PROVE  FileIn(data', inodes'[i], 0, s)
  <2>1. s \in Nat /\ 0 .. s - 1 \subseteq DOMAIN data
    BY <1>1
  <2> QED
    BY <1>1, <1>2, <2>1, FileWidens
<1>3. AllIn'
  <2> SUFFICES ASSUME NEW i \in Moved PROVE FileIn(data', inodes[i], 0, current_block')
    BY <1>1 DEF AllIn
  <2>1. FileIn(data, inodes[i], 0, current_block)
    BY DEF BInv, AllIn
  <2> QED
    BY <1>1, <2>1, FileWidens
<1>4. Apart'
  <2> SUFFICES ASSUME NEW i \in Moved, NEW j \in Moved, i < j
               PROVE  \E s \in 0 .. current_block' :
                         /\ FileIn(data', inodes[i], 0, s)
                         /\ FileIn(data', inodes[j], s, current_block')
    BY <1>1 DEF Apart
  <2>1. PICK s \in 0 .. current_block :
           FileIn(data, inodes[i], 0, s) /\ FileIn(data, inodes[j], s, current_block)
    BY DEF BInv, Apart
  <2>2. s \in Nat /\ s <= s /\ s .. current_block - 1 \subseteq DOMAIN data
    BY <1>1
  <2>3. FileIn(data', inodes[j], s, current_block')
    BY <1>1, <2>1, <2>2, FileWidens
  <2>4. FileIn(data', inodes[i], 0, s)
    BY <1>2, <2>1
  <2>5. s \in 0 .. current_block'
    BY <1>1
  <2> QED
    BY <2>3, <2>4, <2>5
<1> QED
  BY <1>2, <1>3, <1>4

(* One more index block, with its list, where the copy has ended.          *)
LEMMA IndexesStep ==
  ASSUME NEW d, NEW e, NEW list \in Seq(Nat), NEW m \in Nat, m < Len(list),
         NEW lo \in Nat, NEW b \in Nat, NEW c \in Nat, lo <= b,
         Extends(e, d), lo .. b - 1 \subseteq DOMAIN d, e \in [DOMAIN e -> BlockType],
         IndexesIn(d, list, m, lo, b), Heads(e, b), c = End(e, b)
  PROVE  IndexesIn(e, [list EXCEPT ![m + 1] = b], m + 1, lo, c)
<1> DEFINE next == [list EXCEPT ![m + 1] = b]
<1>1. /\ e[b].list \in Seq(Nat) /\ e[b].list # <<>> /\ c = b + Len(e[b].list)
      /\ \A n \in 1 .. Len(e[b].list) : e[b].list[n] = b + n - 1
  BY DEF Heads, End, BlockType
<1>2. next[m + 1] = b /\ \A n \in 1 .. m : next[n] = list[n]
  OBVIOUS
<1> HIDE DEF next
<1> DEFINE row == e[b].list
<1> HIDE DEF row
<1>0. /\ row \in Seq(Nat) /\ row # <<>> /\ c = b + Len(row)
      /\ \A n \in 1 .. Len(row) : row[n] = b + n - 1
  BY <1>1 DEF row
<1>3. Len(row) \in Nat \ {0} /\ b <= c
  <2>1. Len(row) \in Nat \ {0}
    BY <1>0
  <2> QED
    BY <1>0, <2>1
<1>4. b \in lo .. c - 1 /\ ListIn(e[b].list, lo, c)
  <2>1. ASSUME NEW n \in 1 .. Len(row) PROVE row[n] \in lo .. c - 1
    <3>1. row[n] = b + n - 1 /\ c = b + Len(row)
      BY <1>0
    <3>2. b + n - 1 >= lo /\ b + n - 1 <= b + Len(row) - 1
      BY <1>3
    <3> QED
      BY <1>3, <3>1, <3>2, SMTT(30)
  <2> QED
    BY <1>0, <1>3, <2>1 DEF ListIn, row
<1>5. IndexesIn(e, list, m, lo, c)
  BY <1>3, IndexesWiden, SMTT(30)
<1>6. ASSUME NEW n \in 1 .. m + 1
      PROVE  next[n] \in lo .. c - 1 /\ ListIn(e[next[n]].list, lo, c)
  <2>1. CASE n = m + 1
    BY <2>1, <1>2, <1>4
  <2>2. CASE n # m + 1
    <3>1. n \in 1 .. m
      BY <2>2
    <3> QED
      BY <3>1, <1>2, <1>5 DEF IndexesIn
  <2> QED
    BY <2>1, <2>2
<1>7. IndexesIn(e, next, m + 1, lo, c)
  BY <1>6 DEF IndexesIn
<1> QED
  BY <1>7 DEF next

LEMMA MoveDirectApart == BInv /\ MoveDirect => BInv'
<1> SUFFICES ASSUME BInv, MoveDirect PROVE BInv'
  OBVIOUS
<1> DEFINE l == Old.dblocks
<1>1. IInv /\ IInv' /\ inode_index \in 1 .. Inodes /\ Old.used /\ node.dblocks = l
  BY MoveDirectInvariant DEF BInv, IInv, Moving, MoveDirect
<1>2. /\ l \in Seq(Nat) /\ Listed(l, image.data)
      /\ image.data \in [DOMAIN image.data -> BlockType]
  BY <1>1, OldFacts DEF InodeType
<1>3. /\ data' = Over(Copied(l), data)
      /\ current_block' = current_block + Len(l)
      /\ node' = [node EXCEPT !.dblocks = Numbers(l)]
      /\ at = "dblocks" /\ at' = "iblocks" /\ done' = 0
      /\ UNCHANGED <<image, inodes, inode_index>>
  BY <1>1 DEF MoveDirect
<1> HIDE DEF l
<1>4. /\ current_block \in Nat /\ DOMAIN data = 0 .. current_block - 1
      /\ DOMAIN data' = 0 .. current_block + Len(l) - 1
      /\ \A x \in DOMAIN data : data'[x] = data[x]
      /\ Len(Numbers(l)) = Len(l)
      /\ \A n \in 1 .. Len(l) : Numbers(l)[n] = current_block + n - 1
  BY <1>1, <1>2, <1>3, CopyFacts
<1>5. Len(l) \in Nat
  BY <1>2
<1>6. Extends(data', data) /\ current_block' \in Nat /\ current_block <= current_block'
  BY <1>3, <1>4, <1>5 DEF Extends
<1>7. node'.dblocks = Numbers(l) /\ \A f \in Nested : node'[f] = node[f]
  BY <1>1, <1>3 DEF IInv, TypeOK, InodeType
<1>8. PICK s \in 0 .. current_block : \A i \in Moved : FileIn(data, inodes[i], 0, s)
  BY <1>3 DEF BInv, Halfway, Busy
<1>9. ListIn(node'.dblocks, s, current_block')
  <2> SUFFICES ASSUME NEW n \in 1 .. Len(l)
               PROVE  current_block + n - 1 \in s .. current_block + Len(l) - 1
    BY <1>3, <1>4, <1>7 DEF ListIn
  <2> QED
    BY <1>4, <1>5
<1>10. Part(s)'
  BY <1>3, <1>9 DEF Part, Passed, IndexesIn
<1>11. Moved' = Moved /\ s \in 0 .. current_block'
  BY <1>3, <1>4, <1>5 DEF Moved
<1>12. (AllIn /\ Apart)' /\ \A i \in Moved : FileIn(data', inodes'[i], 0, s)
  BY <1>3, <1>6, <1>8, CopyGrows
<1>13. Halfway'
  BY <1>10, <1>11, <1>12 DEF Halfway
<1>14. Pointers'
  BY <1>3, <1>7, <1>11 DEF BInv, Pointers, Busy, Old
<1> QED
  BY <1>1, <1>12, <1>13, <1>14 DEF BInv

LEMMA MoveIndirectApart == BInv /\ MoveIndirect => BInv'
<1> SUFFICES ASSUME BInv, MoveIndirect PROVE BInv'
  OBVIOUS
<1> DEFINE old == Old.iblocks
           next == [node.iblocks EXCEPT ![done + 1] = current_block]
<1>1. IInv /\ IInv' /\ inode_index \in 1 .. Inodes /\ Old.used /\ HalfMoved(node.iblocks, old)
  BY MoveIndirectInvariant DEF BInv, IInv, Moving, MoveIndirect
<1>2. /\ old \in Seq(Nat) /\ ListsIndexes(old, image.data)
      /\ image.data \in [DOMAIN image.data -> BlockType]
  BY <1>1, OldFacts DEF InodeType
<1>3. /\ done < Len(node.iblocks) /\ done < Len(old)
      /\ handle_indirect_blocks(node.iblocks[done + 1])
      /\ node' = [node EXCEPT !.iblocks = next]
      /\ at = "iblocks" /\ at' = "iblocks" /\ done' = done + 1
      /\ UNCHANGED <<image, inodes, inode_index>>
  BY <1>1 DEF MoveIndirect, HalfMoved, KeptIndexes
<1>4. /\ node \in InodeType /\ node.iblocks \in Seq(Nat) /\ done \in Nat
      /\ current_block \in Nat /\ current_block' \in Nat
      /\ DOMAIN data = 0 .. current_block - 1 /\ data' \in [DOMAIN data' -> BlockType]
  BY <1>1 DEF IInv, TypeOK, InodeType, NoHoles
<1> HIDE DEF old
<1>5. /\ Extends(data', data)
      /\ Heads(data', current_block)
      /\ current_block' = End(data', current_block)
  BY <1>1, <1>2, <1>3, <1>4, MovedRow
<1>6. current_block <= current_block'
  BY <1>4, <1>5 DEF End, Heads, BlockType
<1>7. PICK s \in 0 .. current_block :
         Part(s) /\ \A i \in Moved : FileIn(data, inodes[i], 0, s)
  BY <1>3 DEF BInv, Halfway, Busy
<1>8. s \in Nat /\ s <= current_block /\ s .. current_block - 1 \subseteq DOMAIN data
  BY <1>4
<1>9. IndexesIn(data', next, done + 1, s, current_block')
  <2>1. IndexesIn(data, node.iblocks, done, s, current_block)
    BY <1>3, <1>7 DEF Part
  <2> QED
    BY <1>3, <1>4, <1>5, <1>8, <2>1, IndexesStep
<1>10. /\ node'.dblocks = node.dblocks /\ node'.iblocks = next
       /\ \A f \in Nested : node'[f] = node[f]
  BY <1>3, <1>4 DEF InodeType
<1> HIDE DEF next
<1>11. ListIn(node'.dblocks, s, current_block')
  BY <1>3, <1>4, <1>6, <1>7, <1>8, <1>10, ListWidens DEF Part
<1>12. Part(s)'
  BY <1>3, <1>9, <1>10, <1>11 DEF Part, Passed
<1>13. Moved' = Moved /\ s \in 0 .. current_block'
  BY <1>3, <1>4, <1>6 DEF Moved
<1>14. (AllIn /\ Apart)' /\ \A i \in Moved : FileIn(data', inodes'[i], 0, s)
  BY <1>3, <1>4, <1>5, <1>6, <1>7, CopyGrows
<1>15. Halfway'
  BY <1>12, <1>13, <1>14 DEF Halfway
<1>16. Pointers'
  BY <1>3, <1>10, <1>13 DEF BInv, Pointers, Busy, Old
<1> QED
  BY <1>1, <1>14, <1>15, <1>16 DEF BInv

LEMMA MoveOnApart == BInv /\ MoveOn => BInv'
<1> SUFFICES ASSUME BInv, MoveOn PROVE BInv'
  OBVIOUS
<1>1. /\ UNCHANGED <<image, inodes, data, inode_index, node, current_block>>
      /\ at' = After(at) /\ done' = 0
      /\ at \in {"iblocks"} \cup Nested
      /\ at = "iblocks" => done = Len(node.iblocks)
      /\ at \in Nested => node[at] = None
  BY DEF MoveOn, Begin
<1>2. IInv' /\ Moved' = Moved /\ (AllIn /\ Apart /\ Pointers)'
  BY <1>1, MoveOnInvariant DEF BInv, Moved, AllIn, Apart, Pointers, Busy, Old, After
<1>3. PICK s \in 0 .. current_block :
         Part(s) /\ \A i \in Moved : FileIn(data, inodes[i], 0, s)
  BY <1>1 DEF BInv, Halfway, Busy
<1>4. Part(s)'
  BY <1>1, <1>3 DEF Part, After, Passed, IndexesIn, NestedIn
<1>5. Halfway'
  BY <1>1, <1>2, <1>3, <1>4 DEF Halfway
<1> QED
  BY <1>2, <1>5 DEF BInv

LEMMA MoveNestedApart == BInv /\ MoveNested => BInv'
<1> SUFFICES ASSUME BInv, MoveNested PROVE BInv'
  OBVIOUS
<1> DEFINE old == image.data[Old[at]].list
           next == [blocks EXCEPT ![done + 1] = current_block]
<1>1. /\ IInv /\ IInv' /\ at \in Nested /\ inode_index \in 1 .. Inodes /\ Old.used
      /\ Old[at] # None
      /\ HalfMoved(blocks, old)
  <2>1. ~Passed(at)
    BY DEF MoveNested, Passed
  <2> QED
    BY <2>1, MoveNestedInvariant DEF BInv, IInv, Moving, MoveNested
<1>2. /\ old \in Seq(Nat) /\ ListsIndexes(old, image.data)
      /\ image.data \in [DOMAIN image.data -> BlockType]
  BY <1>1, OldFacts DEF BlockType
<1>3. /\ done < Len(blocks) /\ done < Len(old) /\ handle_indirect_blocks(blocks[done + 1])
      /\ blocks' = next /\ node[at] # None
      /\ done' = done + 1
      /\ UNCHANGED <<image, inodes, inode_index, node, at>>
  BY <1>1 DEF MoveNested, HalfMoved, KeptIndexes
<1>4. /\ blocks \in Seq(Nat) /\ done \in Nat /\ current_block \in Nat
      /\ current_block' \in Nat /\ DOMAIN data = 0 .. current_block - 1
      /\ data \in [DOMAIN data -> BlockType] /\ data' \in [DOMAIN data' -> BlockType]
      /\ Len(node.iblocks) \in Nat
  <2>1. node \in InodeType
    BY <1>1 DEF IInv, TypeOK
  <2>2. node.iblocks \in Seq(Nat)
    BY <2>1 DEF InodeType
  <2> QED
    BY <1>1, <2>2, SMTT(30) DEF IInv, TypeOK, NoHoles
<1> HIDE DEF old
<1>5. /\ Extends(data', data)
      /\ Heads(data', current_block)
      /\ current_block' = End(data', current_block)
  BY <1>1, <1>2, <1>3, <1>4, MovedRow
<1>6. current_block <= current_block'
  BY <1>4, <1>5 DEF End, Heads, BlockType
<1>7. PICK s \in 0 .. current_block :
         Part(s) /\ \A i \in Moved : FileIn(data, inodes[i], 0, s)
  BY <1>1 DEF BInv, Halfway, Busy
<1>8. s \in Nat /\ s <= current_block /\ s .. current_block - 1 \subseteq DOMAIN data
  BY <1>4
<1>9. IndexesIn(data', next, done + 1, s, current_block')
  <2>1. IndexesIn(data, blocks, done, s, current_block)
    BY <1>1, <1>3, <1>7 DEF Part
  <2> QED
    BY <1>3, <1>4, <1>5, <1>8, <2>1, IndexesStep
<1> HIDE DEF next
<1>10. ListIn(node.dblocks, s, current_block')
  BY <1>1, <1>4, <1>6, <1>7, <1>8, ListWidens DEF Part
<1>11. IndexesIn(data', node.iblocks, Len(node.iblocks), s, current_block')
  BY <1>1, <1>4, <1>5, <1>6, <1>7, <1>8, IndexesWiden DEF Part
<1>12. \A f \in Nested : Passed(f) => NestedIn(data', node[f], s, current_block')
  <2> SUFFICES ASSUME NEW f \in Nested, Passed(f)
               PROVE  NestedIn(data', node[f], s, current_block')
    OBVIOUS
  <2>1. NestedIn(data, node[f], s, current_block)
    BY <1>7 DEF Part
  <2> HIDE DEF Nested
  <2> QED
    BY <1>4, <1>5, <1>6, <1>8, <2>1, NestedWidens, SMTT(30)
<1>13. Part(s)'
  BY <1>1, <1>3, <1>9, <1>10, <1>11, <1>12 DEF Part, Passed
<1>14. Moved' = Moved /\ s \in 0 .. current_block'
  BY <1>3, <1>4, <1>6 DEF Moved
<1>15. (AllIn /\ Apart)' /\ \A i \in Moved : FileIn(data', inodes'[i], 0, s)
  BY <1>3, <1>4, <1>5, <1>6, <1>7, CopyGrows
<1>16. Halfway'
  BY <1>13, <1>14, <1>15 DEF Halfway
<1>17. Pointers'
  BY <1>3, <1>14 DEF BInv, Pointers, Busy, Old
<1> QED
  BY <1>1, <1>15, <1>16, <1>17 DEF BInv

LEMMA WriteNestedApart == BInv /\ WriteNested => BInv'
<1> SUFFICES ASSUME BInv, WriteNested PROVE BInv'
  OBVIOUS
<1> DEFINE c == current_block
           old == image.data[Old[at]].list
<1>1. /\ IInv /\ IInv' /\ at \in Nested /\ inode_index \in 1 .. Inodes /\ Old.used
      /\ Old[at] # None /\ node[at] # None
      /\ HalfMoved(blocks, old)
  <2>1. ~Passed(at)
    BY DEF WriteNested, Passed
  <2> QED
    BY <2>1, WriteNestedInvariant DEF BInv, IInv, Moving, WriteNested
<1>2. /\ data' = Over([x \in {c} |-> Index(blocks)], data)
      /\ node' = [node EXCEPT ![at] = c]
      /\ done = Len(blocks) /\ at' = After(at) /\ c' = c + 1 /\ done' = 0
      /\ UNCHANGED <<image, inodes, inode_index>>
  BY DEF WriteNested, Begin
<1>3. /\ node \in InodeType /\ blocks \in Seq(Nat) /\ c \in Nat /\ done \in Nat
      /\ node.iblocks \in Seq(Nat) /\ Len(node.iblocks) \in Nat
      /\ DOMAIN data = 0 .. c - 1 /\ data \in [DOMAIN data -> BlockType]
  <2>1. /\ node \in InodeType /\ blocks \in Seq(Nat) /\ c \in Nat /\ done \in Nat
        /\ DOMAIN data = 0 .. c - 1 /\ data \in [DOMAIN data -> BlockType]
    BY <1>1 DEF IInv, TypeOK, NoHoles
  <2>2. node.iblocks \in Seq(Nat)
    BY <2>1 DEF InodeType
  <2> QED
    BY <2>1, <2>2
<1>4. /\ c \in DOMAIN data' /\ data'[c].list = blocks
      /\ Extends(data', data)
  <2>1. /\ DOMAIN data' = {c} \cup DOMAIN data
        /\ data'[c] = Index(blocks)
        /\ \A x \in DOMAIN data \ {c} : data'[x] = data[x]
    BY <1>2 DEF Over
  <2> QED
    BY <2>1, <1>3 DEF Index, Extends
<1>5. /\ node'.dblocks = node.dblocks /\ node'.iblocks = node.iblocks
      /\ node'[at] = c
      /\ \A f \in Nested \ {at} : node'[f] = node[f]
  BY <1>1, <1>2, <1>3 DEF InodeType
<1>6. PICK s \in 0 .. c : Part(s) /\ \A i \in Moved : FileIn(data, inodes[i], 0, s)
  BY <1>1 DEF BInv, Halfway, Busy
<1>7. /\ s \in Nat /\ s <= c /\ c + 1 \in Nat /\ s <= s /\ c <= c + 1
      /\ s .. c - 1 \subseteq DOMAIN data /\ c \in Nat /\ Len(blocks) \in Nat
      /\ c \in s .. (c + 1) - 1 /\ s \in 0 .. c + 1
  BY <1>2, <1>3
<1>8. IndexesIn(data, blocks, Len(blocks), s, c)
  BY <1>1, <1>2, <1>6 DEF Part
<1>9. c # None
  <2>1. Len(blocks) = Len(old) /\ old # <<>> /\ old \in Seq(Nat)
    BY <1>1, OldFacts DEF HalfMoved, KeptIndexes, BlockType
  <2> HIDE DEF old
  <2>2. 1 \in 1 .. Len(blocks)
    BY <2>1
  <2>3. \E b \in s .. c - 1 : TRUE
    BY <1>8, <2>2 DEF IndexesIn
  <2>4. s \in Nat /\ c \in Nat
    BY <1>7
  <2> HIDE DEF c
  <2> QED
    BY <2>3, <2>4
<1> HIDE DEF c, old
<1>10. NestedIn(data', c, s, c + 1)
  <2>1. IndexesIn(data', blocks, Len(blocks), s, c + 1)
    BY <1>3, <1>4, <1>7, <1>8, IndexesWiden
  <2> QED
    BY <1>4, <1>7, <2>1 DEF NestedIn
<1>11. ListIn(node'.dblocks, s, c + 1)
  BY <1>1, <1>3, <1>5, <1>6, <1>7, ListWidens DEF Part, c
<1>12. IndexesIn(data', node'.iblocks, Len(node'.iblocks), s, c + 1)
  <2>1. IndexesIn(data, node.iblocks, Len(node.iblocks), s, c)
    BY <1>1, <1>6 DEF Part, c
  <2> QED
    BY <1>3, <1>4, <1>5, <1>7, <2>1, IndexesWiden
<1>13. ASSUME NEW f \in Nested, Passed(f)' PROVE NestedIn(data', node'[f], s, c + 1)
  <2>1. CASE f = at
    BY <1>5, <1>10, <2>1
  <2>2. CASE f # at
    <3>1. Passed(f) /\ node'[f] = node[f]
      BY <1>1, <1>2, <1>5, <1>13, <2>2 DEF Passed, After
    <3>2. NestedIn(data, node[f], s, c)
      BY <1>6, <3>1 DEF Part, c
    <3> HIDE DEF Nested
    <3> QED
      BY <1>3, <1>4, <1>7, <3>1, <3>2, NestedWidens
  <2> QED
    BY <2>1, <2>2
<1>14. current_block = c /\ current_block' = c + 1
  BY <1>2 DEF c
<1>15. Part(s)'
  <2>1. at' \in {"i3block", "write"}
    BY <1>1, <1>2 DEF After
  <2>2. IndexesIn(data', blocks', done', s, c + 1)
    BY <1>2 DEF IndexesIn
  <2> QED
    BY <1>11, <1>12, <1>13, <1>14, <2>1, <2>2 DEF Part
<1>16. Moved' = Moved /\ s \in 0 .. current_block'
  <2>1. Moved' = Moved
    BY <1>2 DEF Moved
  <2> QED
    BY <2>1, <1>7, <1>14
<1>17. (AllIn /\ Apart)' /\ \A i \in Moved : FileIn(data', inodes'[i], 0, s)
  BY <1>2, <1>4, <1>6, <1>7, <1>14, CopyGrows
<1>18. Halfway'
  BY <1>15, <1>16, <1>17 DEF Halfway
<1>19. Pointers'
  <2>1. \A f \in Nested : node[f] = None <=> Old[f] = None
    BY <1>1 DEF BInv, Pointers, Busy
  <2>2. \A f \in Nested : node'[f] = None <=> Old[f] = None
    <3> SUFFICES ASSUME NEW f \in Nested PROVE node'[f] = None <=> Old[f] = None
      OBVIOUS
    <3>1. CASE f = at
      BY <1>1, <1>5, <1>9, <3>1
    <3>2. CASE f # at
      BY <1>5, <2>1, <3>2
    <3> QED
      BY <3>1, <3>2
  <2> QED
    BY <1>2, <1>16, <2>2 DEF BInv, Pointers, Old
<1> QED
  BY <1>1, <1>17, <1>18, <1>19 DEF BInv

LEMMA InodeLoopApart == BInv /\ (ReadInode \/ SkipInode \/ Finish \/ WriteInode) => BInv'
<1> SUFFICES ASSUME BInv, ReadInode \/ SkipInode \/ Finish \/ WriteInode PROVE BInv'
  OBVIOUS
<1>1. IInv /\ IInv'
  BY InodeLoopInvariant, WriteInodeInvariant DEF BInv
<1>2. CASE ReadInode
  <2>1. /\ UNCHANGED <<image, inodes, data, inode_index, current_block>>
        /\ at' = "dblocks" /\ node' = Old
    BY <1>2 DEF ReadInode, Old
  <2>2. current_block \in 0 .. current_block /\ Moved' = Moved
    BY <1>1, <2>1 DEF IInv, TypeOK, Moved
  <2>3. (AllIn /\ Apart /\ Pointers)'
    BY <2>1, <2>2 DEF BInv, AllIn, Apart, Pointers, Old
  <2>4. Part(current_block)'
    BY <2>1 DEF Part, Passed
  <2>5. Halfway'
    BY <2>1, <2>2, <2>4 DEF BInv, AllIn, Halfway
  <2> QED
    BY <1>1, <2>3, <2>5 DEF BInv
<1>3. CASE SkipInode \/ Finish
  <2>1. /\ UNCHANGED <<image, inodes, data, current_block>> /\ Moved' = Moved
        /\ at' \notin Busy
    <3>1. CASE SkipInode
      BY <1>1, <3>1 DEF SkipInode, Moved, IInv, TypeOK, Busy
    <3>2. CASE Finish
      BY <3>2 DEF Finish, Moved, Busy
    <3> QED
      BY <1>3, <3>1, <3>2
  <2> QED
    BY <1>1, <2>1 DEF BInv, AllIn, Apart, Halfway, Pointers
<1>4. CASE WriteInode
  <2>1. /\ inode_index \in 1 .. Inodes /\ Old.used
        /\ inodes \in [1 .. Inodes -> InodeType] /\ node \in InodeType
        /\ inodes' = [inodes EXCEPT ![inode_index] = node]
        /\ inode_index' = inode_index + 1 /\ at = "write" /\ at' = "read"
        /\ UNCHANGED <<image, data, current_block>>
    BY <1>1, <1>4 DEF WriteInode, IInv, TypeOK, Moving
  <2>2. /\ inodes'[inode_index] = node
        /\ \A i \in 1 .. Inodes : i # inode_index => inodes'[i] = inodes[i]
    BY <2>1
  <2>3. /\ Moved' = Moved \cup {inode_index}
        /\ \A i \in Moved : i \in 1 .. Inodes /\ i < inode_index /\ inodes'[i] = inodes[i]
    <3>1. Moved' = {i \in 1 .. inode_index : image.inodes[i].used}
      BY <2>1 DEF Moved
    <3>2. \A i \in Moved : i \in 1 .. Inodes /\ i < inode_index
      BY <2>1 DEF Moved
    <3> QED
      BY <2>1, <2>2, <3>1, <3>2 DEF Moved, Old
  <2>4. PICK s \in 0 .. current_block :
           Part(s) /\ \A i \in Moved : FileIn(data, inodes[i], 0, s)
    BY <2>1 DEF BInv, Halfway, Busy
  <2>5. FileIn(data, node, s, current_block)
    BY <2>1, <2>4 DEF Part, Passed, FileIn
  <2>6. FileIn(data, node, 0, current_block)
    <3>1. /\ current_block \in Nat /\ s \in Nat /\ 0 <= s /\ current_block <= current_block
          /\ s .. current_block - 1 \subseteq DOMAIN data
          /\ data \in [DOMAIN data -> BlockType] /\ Extends(data, data)
      BY <1>1, SMTT(30) DEF IInv, TypeOK, NoHoles, Extends
    <3> QED
      BY <2>1, <2>5, <3>1, FileWidens
  <2>7. AllIn'
    BY <2>1, <2>2, <2>3, <2>6 DEF BInv, AllIn
  <2>8. Apart'
    <3> SUFFICES ASSUME NEW i \in Moved', NEW j \in Moved', i < j
                 PROVE  \E t \in 0 .. current_block :
                           /\ FileIn(data, inodes'[i], 0, t)
                           /\ FileIn(data, inodes'[j], t, current_block)
      BY <2>1 DEF Apart
    <3>1. i \in Moved
      BY <2>1, <2>3
    <3>2. CASE j = inode_index
      BY <2>2, <2>3, <2>4, <2>5, <3>1, <3>2
    <3>3. CASE j # inode_index
      BY <2>3, <3>1, <3>3 DEF BInv, Apart
    <3> QED
      BY <3>2, <3>3
  <2>9. Halfway'
    BY <2>1 DEF Halfway, Busy
  <2>10. Pointers'
    <3>1. \A f \in Nested : node[f] = None <=> image.inodes[inode_index][f] = None
      BY <2>1 DEF BInv, Pointers, Busy, Old
    <3> QED
      BY <2>1, <2>2, <2>3, <3>1 DEF BInv, Pointers, Busy
  <2> QED
    BY <1>1, <2>7, <2>8, <2>9, <2>10 DEF BInv
<1> QED
  BY <1>2, <1>3, <1>4

LEMMA ApartInvariant == BInv /\ [Next]_vars => BInv'
<1> SUFFICES ASSUME BInv, [Next]_vars PROVE BInv'
  OBVIOUS
<1>1. CASE Next
  BY <1>1, MoveDirectApart, MoveIndirectApart, MoveOnApart, MoveNestedApart,
     WriteNestedApart, InodeLoopApart DEF Next
<1>2. CASE UNCHANGED vars
  <2>1. IInv'
    BY <1>2, NextInvariant DEF BInv
  <2> QED
    BY <1>2, <2>1 DEF vars, BInv, AllIn, Apart, Halfway, Part, Passed, Pointers, Moved, Old
<1> QED
  BY <1>1, <1>2

LEMMA ListedIn ==
  ASSUME NEW list \in Seq(Nat), NEW lo, NEW hi, ListIn(list, lo, hi)
  PROVE  ToSet(list) \subseteq lo .. hi - 1
<1> SUFFICES ASSUME NEW n \in DOMAIN list PROVE list[n] \in lo .. hi - 1
  BY DEF ToSet
<1>1. n \in 1 .. Len(list)
  OBVIOUS
<1> QED
  BY <1>1 DEF ListIn

(* The numbers that a file names lie where the file does.                  *)
LEMMA NamedIn ==
  ASSUME NEW d, d \in [DOMAIN d -> BlockType], NEW list \in Seq(Nat), NEW lo, NEW hi,
         lo .. hi - 1 \subseteq DOMAIN d, IndexesIn(d, list, Len(list), lo, hi)
  PROVE  Named(list, d) \subseteq lo .. hi - 1
<1>1. ASSUME NEW b \in ToSet(list)
      PROVE  b \in lo .. hi - 1 /\ ToSet(d[b].list) \subseteq lo .. hi - 1
  <2>1. PICK n \in 1 .. Len(list) : b = list[n]
    BY DEF ToSet
  <2>2. b \in lo .. hi - 1 /\ ListIn(d[b].list, lo, hi)
    BY <2>1 DEF IndexesIn
  <2>3. d[b].list \in Seq(Nat)
    BY <2>2 DEF BlockType
  <2> QED
    BY <2>2, <2>3, ListedIn
<1> QED
  BY <1>1 DEF Named

LEMMA NumberedIn ==
  ASSUME NEW d, d \in [DOMAIN d -> BlockType], NEW file \in InodeType, NEW lo, NEW hi,
         lo .. hi - 1 \subseteq DOMAIN d, FileIn(d, file, lo, hi)
  PROVE  Numbered(file, d) \subseteq lo .. hi - 1
<1>1. file.dblocks \in Seq(Nat) /\ file.iblocks \in Seq(Nat)
  BY DEF InodeType
<1>2. ToSet(file.dblocks) \subseteq lo .. hi - 1
  BY <1>1, ListedIn DEF FileIn
<1>3. Named(file.iblocks, d) \subseteq lo .. hi - 1
  BY <1>1, NamedIn DEF FileIn
<1>4. ASSUME NEW f \in Nested, file[f] # None
      PROVE  {file[f]} \cup Named(d[file[f]].list, d) \subseteq lo .. hi - 1
  <2>1. /\ file[f] \in lo .. hi - 1
        /\ IndexesIn(d, d[file[f]].list, Len(d[file[f]].list), lo, hi)
    BY <1>4 DEF FileIn, NestedIn
  <2>2. d[file[f]].list \in Seq(Nat)
    BY <2>1 DEF BlockType
  <2> QED
    BY <2>1, <2>2, NamedIn
<1> QED
  BY <1>2, <1>3, <1>4 DEF Numbered

(* On every disk, files that have been moved lie one after the other: no   *)
(* number, 0 included, is a block of two of them, whatever they shared on  *)
(* the old disk, and no i2block or i3block comes or goes.                  *)
THEOREM FilesStayApart == Spec => []FilesAreApart
<1>1. Init => BInv
  BY InitInvariant DEF Init, BInv, AllIn, Apart, Halfway, Pointers, Moved, Busy
<1>2. Spec => []BInv
  BY <1>1, ApartInvariant, PTL DEF Spec
<1>3. BInv => FilesAreApart
  <2> SUFFICES ASSUME BInv PROVE FilesAreApart
    OBVIOUS
  <2>1. /\ current_block \in Nat /\ DOMAIN data = 0 .. current_block - 1
        /\ data \in [DOMAIN data -> BlockType]
        /\ \A i \in Moved : i \in Int /\ inodes[i] \in InodeType
    BY DEF BInv, IInv, TypeOK, NoHoles, Moved
  <2>2. ASSUME NEW i \in Moved, NEW j \in Moved, i < j
        PROVE  Numbered(inodes[i], data) \cap Numbered(inodes[j], data) = {}
    <3>1. PICK s \in 0 .. current_block :
             FileIn(data, inodes[i], 0, s) /\ FileIn(data, inodes[j], s, current_block)
      BY <2>2 DEF BInv, Apart
    <3>2. /\ 0 .. s - 1 \subseteq DOMAIN data /\ s .. current_block - 1 \subseteq DOMAIN data
          /\ (0 .. s - 1) \cap (s .. current_block - 1) = {}
      BY <2>1
    <3>3. Numbered(inodes[i], data) \subseteq 0 .. s - 1
      BY <2>1, <3>1, <3>2, NumberedIn
    <3>4. Numbered(inodes[j], data) \subseteq s .. current_block - 1
      BY <2>1, <3>1, <3>2, NumberedIn
    <3> QED
      BY <3>2, <3>3, <3>4
  <2>3. \A i, j \in Moved : i # j =>
           Numbered(inodes[i], data) \cap Numbered(inodes[j], data) = {}
    <3> SUFFICES ASSUME NEW i \in Moved, NEW j \in Moved, i # j
                 PROVE  Numbered(inodes[i], data) \cap Numbered(inodes[j], data) = {}
      OBVIOUS
    <3>1. i < j \/ j < i
      BY <2>1
    <3>2. Numbered(inodes[i], data) \cap Numbered(inodes[j], data)
             = Numbered(inodes[j], data) \cap Numbered(inodes[i], data)
      OBVIOUS
    <3> QED
      BY <2>2, <3>1, <3>2
  <2> QED
    BY <2>3 DEF BInv, Pointers, FilesAreApart
<1> QED
  BY <1>2, <1>3, PTL

(***************************************************************************)
(* What is lost on every disk.                                             *)
(***************************************************************************)
NameThemselves(list) == \A n \in 1 .. Len(list) : data[list[n]].list[1] = list[n]

LEMMA RowsNameThemselves ==
  ASSUME data \in [DOMAIN data -> BlockType], NEW list \in Seq(Nat), NEW x, NEW y,
         Rows(data, list, Len(list), x, y)
  PROVE  NameThemselves(list)
<1> SUFFICES ASSUME NEW n \in 1 .. Len(list) PROVE data[list[n]].list[1] = list[n]
  BY DEF NameThemselves
<1>1. list[n] \in Nat /\ Heads(data, list[n])
  BY DEF Rows
<1> QED
  BY <1>1, RowFacts

(* handle_indirect_blocks writes every index block over the copy of the    *)
(* first block that it lists: on whatever disk, down to those below the    *)
(* i2block, an index block of a file that has been moved names itself      *)
(* where the file's data were.                                             *)
THEOREM FirstBlocksAreLost ==
  Spec => [](\A i \in Moved :
                /\ NameThemselves(inodes[i].iblocks)
                /\ image.inodes[i].i2block # None =>
                      NameThemselves(data[inodes[i].i2block].list))
<1>1. ASSUME PInv, NEW i \in Moved
      PROVE  /\ NameThemselves(inodes[i].iblocks)
             /\ image.inodes[i].i2block # None =>
                   NameThemselves(data[inodes[i].i2block].list)
  <2> DEFINE file == inodes[i]
             level2 == image.inodes[i].i2block # None
  <2>1. file.iblocks \in Seq(Nat) /\ data \in [DOMAIN data -> BlockType]
    <3>1. inodes[i] \in InodeType /\ data \in [DOMAIN data -> BlockType]
      BY <1>1 DEF PInv, IInv, TypeOK, Moved
    <3> QED
      BY <3>1 DEF InodeType
  <2>2. Laid(data, file, level2)
    BY <1>1 DEF PInv, AllLaid
  <2> HIDE DEF file, level2
  <2>3. PICK x, y, z \in Nat :
          /\ Rows(data, file.iblocks, Len(file.iblocks), y, z)
          /\ level2 =>
                /\ file.i2block \in DOMAIN data
                /\ \E w \in Nat : Rows(data, data[file.i2block].list,
                                       Len(data[file.i2block].list), z, w)
    BY <2>2 DEF Laid
  <2>4. NameThemselves(file.iblocks)
    BY <2>1, <2>3, RowsNameThemselves
  <2>5. ASSUME level2 PROVE NameThemselves(data[file.i2block].list)
    <3>1. data[file.i2block].list \in Seq(Nat)
      BY <2>1, <2>3, <2>5 DEF BlockType
    <3> QED
      BY <2>1, <2>3, <2>5, <3>1, RowsNameThemselves
  <2> QED
    BY <2>4, <2>5 DEF file, level2
<1>2. PInv => \A i \in Moved :
                 /\ NameThemselves(inodes[i].iblocks)
                 /\ image.inodes[i].i2block # None =>
                       NameThemselves(data[inodes[i].i2block].list)
  BY <1>1
<1> QED
  BY <1>2, PlacedHolds, PTL

(***************************************************************************)
(* Every step goes on to the next inode, in the order of                   *)
(* move_blocks_contiguous to the next field of an inode, or to the next    *)
(* entry of a list whose length stays what it is.                          *)
(***************************************************************************)
Stage(a) == CASE a = "read" -> 0
              [] a = "dblocks" -> 1
              [] a = "iblocks" -> 2
              [] a = "i2block" -> 3
              [] a = "i3block" -> 4
              [] a = "write" -> 5
              [] a = "end" -> 6

Entries == IF at = "iblocks" THEN Len(node.iblocks) ELSE Len(blocks)

GoesOn ==
    \/ inode_index <= Inodes /\ inode_index' = inode_index + 1
    \/ inode_index' = inode_index /\ Stage(at') > Stage(at)
    \/ /\ UNCHANGED <<inode_index, at, Entries>>
       /\ done < Entries /\ done' = done + 1

(* The program ends on every disk: no step is without progress, and what   *)
(* progress is counted by is bounded.                                      *)
THEOREM EveryStepGoesOn == Spec => [][GoesOn]_vars
<1>1. IInv /\ IInv' /\ [Next]_vars => [GoesOn]_vars
  <2> SUFFICES ASSUME IInv, IInv', Next PROVE GoesOn
    OBVIOUS
  <2>1. CASE MoveDirect
    BY <2>1 DEF MoveDirect, GoesOn, Stage
  <2>2. CASE MoveIndirect
    <3>1. node.iblocks \in Seq(Nat) /\ node \in InodeType
      BY DEF IInv, TypeOK, InodeType
    <3>2. Len(node'.iblocks) = Len(node.iblocks)
      BY <2>2, <3>1 DEF MoveIndirect, InodeType
    <3> QED
      BY <2>2, <3>2 DEF MoveIndirect, GoesOn, Entries
  <2>3. CASE MoveOn
    BY <2>3 DEF MoveOn, Begin, After, GoesOn, Stage
  <2>4. CASE MoveNested
    <3>1. Len(blocks') = Len(blocks)
      BY <2>4 DEF MoveNested, IInv, TypeOK
    <3> QED
      BY <2>4, <3>1 DEF MoveNested, GoesOn, Entries
  <2>5. CASE WriteNested
    BY <2>5 DEF WriteNested, Begin, After, GoesOn, Stage
  <2>6. CASE ReadInode \/ Finish
    BY <2>6 DEF ReadInode, Finish, GoesOn, Stage
  <2>7. CASE SkipInode
    BY <2>7 DEF SkipInode, GoesOn
  <2>8. CASE WriteInode
    BY <2>8 DEF WriteInode, GoesOn, IInv, Moving
  <2> QED
    BY <2>1, <2>2, <2>3, <2>4, <2>5, <2>6, <2>7, <2>8 DEF Next
<1> QED
  BY <1>1, Invariance, PTL DEF Spec

=============================================================================
