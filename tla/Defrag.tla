------------------------------- MODULE Defrag -------------------------------
(***************************************************************************)
(* The defragmenter of src/hw6/defrag.c: it writes a new disk image, file  *)
(* by file in the order of the inodes, and gives the blocks of the files   *)
(* the numbers 0, 1, 2, ... as it copies them.                             *)
(*                                                                         *)
(* A block is what it holds, if it holds data, and the list it holds, if   *)
(* it is an index block.  A list is a sequence: in the source it ends with *)
(* the first 0, or when the block is full.  The copy is a file that grows, *)
(* so its blocks are those that have been written.                         *)
(*                                                                         *)
(* Loops that only copy are one step: nothing else runs.  The fields of an *)
(* inode that are copied as they are, and is_contiguous, whose result is   *)
(* only printed, are left out.                                             *)
(***************************************************************************)
EXTENDS Integers, SequencesExt

CONSTANTS Inodes,   \* the number of inodes on a disk
          Images    \* the disks that are defragmented

None == 0    \* the number that ends a list

(* i2block and i3block, by the names of the fields.                        *)
Nested == {"i2block", "i3block"}

InodeType ==
    [used : BOOLEAN, dblocks : Seq(Nat), iblocks : Seq(Nat),
     i2block : Nat, i3block : Nat]
BlockType == [holds : Nat, list : Seq(Nat)]

FreeInode == [used |-> FALSE, dblocks |-> <<>>, iblocks |-> <<>>,
              i2block |-> None, i3block |-> None]
Index(list) == [holds |-> 0, list |-> list]

(* A list of blocks that are there.                                        *)
Listed(list, data) == \A n \in DOMAIN list : list[n] \in DOMAIN data

(* A list of index blocks, each of them with something in it.              *)
ListsIndexes(list, data) ==
    /\ Listed(list, data)
    /\ \A n \in DOMAIN list :
          /\ data[list[n]].list # <<>>
          /\ Listed(data[list[n]].list, data)

(* Every pointer of a file leads to a block; a free inode may say anything.*)
WellFormed(image) ==
    /\ image.inodes \in [1 .. Inodes -> InodeType]
    /\ image.data \in [DOMAIN image.data -> BlockType]
    /\ DOMAIN image.data \subseteq Nat \ {None}
    /\ image.free_block \in Nat
    /\ \A i \in 1 .. Inodes : image.inodes[i].used =>
          LET node == image.inodes[i] IN
          /\ Listed(node.dblocks, image.data)
          /\ ListsIndexes(node.iblocks, image.data)
          /\ \A f \in Nested : node[f] # None =>
                /\ node[f] \in DOMAIN image.data
                /\ image.data[node[f]].list # <<>>
                /\ ListsIndexes(image.data[node[f]].list, image.data)

ASSUME InodesAssumption == Inodes \in Nat
ASSUME ImagesAssumption == \A image \in Images : WellFormed(image)

VARIABLES
    image,          \* the disk being read
    inodes, data,   \* the disk being written, and
    free_block,     \* its superblock
    inode_index,
    node,           \* the inode being moved
    current_block,
    at,             \* what is moved next
    done,           \* how many entries of iblocks, or of blocks, have been
    blocks          \* the list in the i2block or i3block being moved

vars == <<image, inodes, data, free_block, inode_index, node, current_block,
          at, done, blocks>>

Init ==
    /\ image \in Images
    /\ inodes = [i \in 1 .. Inodes |-> FreeInode]
    /\ data = <<>>
    /\ free_block = image.free_block
    /\ inode_index = 1
    /\ node = FreeInode
    /\ current_block = 0
    /\ at = "read"
    /\ done = 0
    /\ blocks = <<>>

-----------------------------------------------------------------------------

(* new over what is in old.                                                *)
Over(new, old) ==
    [x \in DOMAIN new \cup DOMAIN old |->
        IF x \in DOMAIN new THEN new[x] ELSE old[x]]

(* The numbers that a list of blocks gets.                                 *)
Numbers(list) == [n \in DOMAIN list |-> current_block + n - 1]

(* Copying the blocks of a list to these numbers.                          *)
Copied(list) ==
    [x \in current_block .. current_block + Len(list) - 1 |->
        image.data[list[x - current_block + 1]]]

(* handle_indirect_blocks: the list is written to the number that the      *)
(* first block of the list has been copied to, and which is returned.      *)
handle_indirect_blocks(b) ==
    LET list == image.data[b].list IN
    /\ data' = Over([x \in {current_block} |-> Index(Numbers(list))],
                    Over(Copied(list), data))
    /\ current_block' = current_block + Len(list)

-----------------------------------------------------------------------------
(* move_blocks_contiguous.                                                 *)

(* Variant: one number is skipped.                                         *)
MoveDirectSkips ==
    /\ at = "dblocks"
    /\ data' = Over(Copied(node.dblocks), data)
    /\ node' = [node EXCEPT !.dblocks = Numbers(node.dblocks)]
    /\ current_block' = current_block + Len(node.dblocks) + 1
    /\ at' = "iblocks"
    /\ done' = 0
    /\ UNCHANGED <<image, inodes, free_block, inode_index, blocks>>

MoveDirect ==
    /\ at = "dblocks"
    /\ data' = Over(Copied(node.dblocks), data)
    /\ node' = [node EXCEPT !.dblocks = Numbers(node.dblocks)]
    /\ current_block' = current_block + Len(node.dblocks)
    /\ at' = "iblocks"
    /\ done' = 0
    /\ UNCHANGED <<image, inodes, free_block, inode_index, blocks>>

MoveIndirect ==
    /\ at = "iblocks"
    /\ done < Len(node.iblocks)
    /\ handle_indirect_blocks(node.iblocks[done + 1])
    /\ node' = [node EXCEPT !.iblocks[done + 1] = current_block]
    /\ done' = done + 1
    /\ UNCHANGED <<image, inodes, free_block, inode_index, at, blocks>>

(* The i2block is next after the iblocks, then the i3block.                *)
After(f) == IF f = "iblocks" THEN "i2block"
            ELSE IF f = "i2block" THEN "i3block" ELSE "write"

Begin(f) ==
    /\ at' = f
    /\ done' = 0
    /\ blocks' = IF f \in Nested /\ node[f] # None THEN image.data[node[f]].list
                                                   ELSE <<>>

MoveOn ==
    /\ \/ at = "iblocks" /\ done = Len(node.iblocks)
       \/ at \in Nested /\ node[at] = None
    /\ Begin(After(at))
    /\ UNCHANGED <<image, inodes, data, free_block, inode_index, node, current_block>>

(* What the list of a nested block names is handled as an index block, in  *)
(* the i3block too.                                                        *)
MoveNested ==
    /\ at \in Nested
    /\ node[at] # None
    /\ done < Len(blocks)
    /\ handle_indirect_blocks(blocks[done + 1])
    /\ blocks' = [blocks EXCEPT ![done + 1] = current_block]
    /\ done' = done + 1
    /\ UNCHANGED <<image, inodes, free_block, inode_index, node, at>>

(* Variant: the number of the nested block is not taken.                   *)
WriteNestedOver ==
    /\ at \in Nested
    /\ node[at] # None
    /\ done = Len(blocks)
    /\ data' = Over([x \in {current_block} |-> Index(blocks)], data)
    /\ node' = [node EXCEPT ![at] = current_block]
    /\ Begin(After(at))
    /\ UNCHANGED <<image, inodes, free_block, inode_index, current_block>>

WriteNested ==
    /\ at \in Nested
    /\ node[at] # None
    /\ done = Len(blocks)
    /\ data' = Over([x \in {current_block} |-> Index(blocks)], data)
    /\ node' = [node EXCEPT ![at] = current_block]
    /\ current_block' = current_block + 1
    /\ Begin(After(at))
    /\ UNCHANGED <<image, inodes, free_block, inode_index>>

-----------------------------------------------------------------------------
(* defragment_disk.                                                        *)

ReadInode ==
    /\ at = "read"
    /\ inode_index <= Inodes
    /\ image.inodes[inode_index].used
    /\ node' = image.inodes[inode_index]
    /\ at' = "dblocks"
    /\ UNCHANGED <<image, inodes, data, free_block, inode_index, current_block,
                   done, blocks>>

(* Variant: a free inode makes the loop skip the next one.                 *)
SkipTwo ==
    /\ at = "read"
    /\ inode_index <= Inodes
    /\ ~image.inodes[inode_index].used
    /\ inode_index' = inode_index + 2
    /\ UNCHANGED <<image, inodes, data, free_block, node, current_block, at,
                   done, blocks>>

(* A free inode is written as zeros.                                       *)
SkipInode ==
    /\ at = "read"
    /\ inode_index <= Inodes
    /\ ~image.inodes[inode_index].used
    /\ inode_index' = inode_index + 1
    /\ UNCHANGED <<image, inodes, data, free_block, node, current_block, at,
                   done, blocks>>

WriteInode ==
    /\ at = "write"
    /\ inodes' = [inodes EXCEPT ![inode_index] = node]
    /\ inode_index' = inode_index + 1
    /\ at' = "read"
    /\ UNCHANGED <<image, data, free_block, node, current_block, done, blocks>>

(* The superblock is left as it was if no inode is used.                   *)
Finish ==
    /\ at = "read"
    /\ inode_index > Inodes
    /\ free_block' = IF \E i \in 1 .. Inodes : image.inodes[i].used
                     THEN current_block ELSE free_block
    /\ at' = "end"
    /\ UNCHANGED <<image, inodes, data, inode_index, node, current_block, done,
                   blocks>>

Next ==
    \/ MoveDirect \/ MoveIndirect \/ MoveOn \/ MoveNested \/ WriteNested
    \/ ReadInode \/ SkipInode \/ WriteInode \/ Finish

Spec == Init /\ [][Next]_vars

-----------------------------------------------------------------------------
(* Properties.                                                             *)

(* Every variable stays in its type.                                       *)
TypeOK ==
    /\ WellFormed(image)
    /\ inodes \in [1 .. Inodes -> InodeType]
    /\ data \in [DOMAIN data -> BlockType]
    /\ free_block \in Nat
    /\ inode_index \in 1 .. Inodes + 1
    /\ node \in InodeType
    /\ current_block \in Nat
    /\ at \in {"read", "dblocks", "iblocks", "write", "end"} \cup Nested
    /\ done \in Nat
    /\ blocks \in Seq(Nat)

(* The numbers below current_block are those that have been written, the   *)
(* first one below each index block twice: no number is left out between   *)
(* the files, and the one that the superblock gives for the first free     *)
(* block is the first that no file has.                                    *)
EveryNumberIsWritten ==
    /\ DOMAIN data = 0 .. current_block - 1
    /\ at = "end" /\ (\E i \in 1 .. Inodes : inodes[i].used) =>
          free_block = current_block

Moved == {i \in 1 .. inode_index - 1 : image.inodes[i].used}

(* An index block of the copy lists as many blocks as the old one, and all *)
(* but the first of them hold what they held.                              *)
SameIndex(new, old) ==
    /\ Len(data[new].list) = Len(image.data[old].list)
    /\ \A n \in 2 .. Len(data[new].list) :
          data[data[new].list[n]] = image.data[image.data[old].list[n]]

SameIndexes(new, old) ==
    Len(new) = Len(old) /\ \A n \in DOMAIN new : SameIndex(new[n], old[n])

SameFile(new, old) ==
    /\ new.used
    /\ Len(new.dblocks) = Len(old.dblocks)
    /\ \A n \in DOMAIN new.dblocks : data[new.dblocks[n]] = image.data[old.dblocks[n]]
    /\ SameIndexes(new.iblocks, old.iblocks)
    /\ old.i2block # None =>
          SameIndexes(data[new.i2block].list, image.data[old.i2block].list)

(* Whatever is moved later, a file that has been moved keeps the data that *)
(* the inode and, but for their first, the index blocks name, down to      *)
(* those of the i2block; for the others see FilesReadAsBefore.             *)
ListedBlocksSurvive == \A i \in Moved : SameFile(inodes[i], image.inodes[i])

(* The lists of a file's blocks in their order, down to those below the    *)
(* i2block.                                                                *)
Below(list, disk) == [n \in DOMAIN list |-> disk[list[n]].list]

BlockLists(inode, disk, level2) ==
    <<inode.dblocks>> \o Below(inode.iblocks, disk)
        \o (IF level2 THEN Below(disk[inode.i2block].list, disk) ELSE <<>>)

(* Lists of which only the first may be empty.                             *)
InSequence(lists) ==
    /\ \A k \in DOMAIN lists :
          \A n \in 1 .. Len(lists[k]) - 1 : lists[k][n + 1] = lists[k][n] + 1
    /\ \A k \in 1 .. Len(lists) - 1 :
          lists[k] # <<>> => lists[k + 1][1] = lists[k][Len(lists[k])] + 1

(* A file that has been moved lies in blocks that follow one another, in   *)
(* each list and from a list to the next, down to those below the i2block; *)
(* an index block is counted where its first block is, whose number it has.*)
FilesAreSequential ==
    \A i \in Moved :
        InSequence(BlockLists(inodes[i], data, image.inodes[i].i2block # None))

(* The numbers that a file's inode and index blocks name.                  *)
Named(list, disk) == ToSet(list) \cup UNION {ToSet(disk[b].list) : b \in ToSet(list)}

Numbered(inode, disk) ==
    ToSet(inode.dblocks) \cup Named(inode.iblocks, disk)
        \cup UNION {{inode[f]} \cup Named(disk[inode[f]].list, disk) :
                      f \in {g \in Nested : inode[g] # None}}

(* Two files that have been moved have no block in common, index blocks    *)
(* and what they list included, so that number 0, with which a list ends   *)
(* for a reader, is a block of one file only; and a file has an i2block or *)
(* i3block if it had one.                                                  *)
FilesAreApart ==
    \A i \in Moved :
        /\ \A f \in Nested : inodes[i][f] = None <=> image.inodes[i][f] = None
        /\ \A j \in Moved \ {i} :
              Numbered(inodes[i], data) \cap Numbered(inodes[j], data) = {}

(* The lists below the i3block, if there is one.                           *)
TripleLists(inode, disk, level3) ==
    LET list == disk[inode.i3block].list IN
    IF level3 THEN FlattenSeq([n \in DOMAIN list |-> Below(disk[list[n]].list, disk)])
    ELSE <<>>

Blocks(inode, disk, old) ==
    FlattenSeq(BlockLists(inode, disk, old.i2block # None)
                   \o TripleLists(inode, disk, old.i3block # None))

(* The README of homework 6 says that the tool "Handles all types of       *)
(* direct, indirect, doubly indirect, and triply indirect blocks           *)
(* effectively": a file that has been moved reads as before.               *)
FilesReadAsBefore ==
    \A i \in Moved :
        LET inode == image.inodes[i]
            new == Blocks(inodes[i], data, inode)
            old == Blocks(inode, image.data, inode) IN
        /\ Len(new) = Len(old)
        /\ \A n \in DOMAIN new :
              new[n] \in DOMAIN data /\ data[new[n]] = image.data[old[n]]

=============================================================================
