-------------------------------- MODULE Mem ---------------------------------
(***************************************************************************)
(* The memory allocator of src/hw5/src/mem.c.                              *)
(*                                                                         *)
(* A region is a stretch of mmapped bytes.  Blocks, free or handed out,    *)
(* are a header of Header bytes and `size' bytes after it; `addr' is the   *)
(* header's offset in its region.  The free blocks form a linked list in   *)
(* the order of their addresses, here the sequence free_list.              *)
(*                                                                         *)
(* The client frees what it holds, once: mem.c recognises no other         *)
(* pointer than one outside the region.                                    *)
(***************************************************************************)
EXTENDS Integers, SequencesExt

CONSTANTS RegionSizes,   \* the arguments of Mem_Init
          AllocSizes,    \* the arguments of Mem_Alloc
          IntMax,        \* INT_MAX
          MaxRegions     \* a bound on the successful calls of Mem_Init

ASSUME SizesAssumption == RegionSizes \subseteq Int /\ AllocSizes \subseteq Int
ASSUME BoundsAssumption == IntMax \in Int /\ MaxRegions \in Nat

VARIABLES regions,    \* the sizes of the regions mapped so far
          mem_start,  \* the region mem_start points to, or NoRegion, MapFailed
          free_list,
          live,       \* the blocks whose pointers the client holds, each
                      \* with the number of bytes that was asked for
          m_error,
          coalescing  \* every Mem_Free of this region has coalesced

vars == <<regions, mem_start, free_list, live, m_error, coalescing>>

-----------------------------------------------------------------------------

Header == 16                          \* sizeof(block)
RoundUpTruncates(n) == (n \div 8) * 8         \* Variant: (size) & ~7
RoundUp(n) == ((n + 7) \div 8) * 8    \* (size + 7) & ~7

NoRegion == 0
MapFailed == -1

(* free_list is of the region mapped last, also after a failed mmap has    *)
(* overwritten mem_start.                                                  *)
Region == Len(regions)

Block(region, addr, size) == [region |-> region, addr |-> addr, size |-> size]

(* The first byte after a block.                                           *)
EndOf(b) == b.addr + Header + b.size

Init ==
    /\ regions = <<>>
    /\ mem_start = NoRegion
    /\ free_list = <<>>
    /\ live = {}
    /\ m_error = "none"
    /\ coalescing = TRUE

-----------------------------------------------------------------------------
(* Mem_Init.                                                               *)

InitMaps(n) ==
    /\ n > 0
    /\ Len(regions) < MaxRegions
    /\ regions' = Append(regions, n)
    /\ mem_start' = Region'
    /\ free_list' = <<Block(Region', 0, n)>>
    /\ coalescing' = TRUE
    /\ UNCHANGED <<live, m_error>>

InitMapFails(n) ==
    /\ n > 0
    /\ mem_start' = MapFailed
    /\ m_error' = "E_NO_SPACE"
    /\ UNCHANGED <<regions, free_list, live, coalescing>>

InitBadArgs(n) ==
    /\ n <= 0
    /\ m_error' = "E_BAD_ARGS"
    /\ UNCHANGED <<regions, mem_start, free_list, live, coalescing>>

Mem_Init == \E n \in RegionSizes : InitMaps(n) \/ InitMapFails(n) \/ InitBadArgs(n)

-----------------------------------------------------------------------------
(* Mem_Alloc.  The block handed out is cut off the front of a free block,  *)
(* and the rest, a header at least, stays in the list: no free block is    *)
(* ever used up.                                                           *)

(* Variant: no room is asked for the header of the rest.                   *)
FitsWithoutRest(b, s) == b.size >= s
Fits(b, s) == b.size >= s + Header + Header

FirstFit(i, s) ==
    /\ Fits(free_list[i], s)
    /\ \A j \in 1 .. i - 1 : ~Fits(free_list[j], s)

(* Variant: the header of the block handed out is forgotten.               *)
RestForgetsHeader(b, s) == Block(b.region, b.addr + s, b.size - s)
Rest(b, s) == Block(b.region, b.addr + Header + s, b.size - (s + Header))

Handed(b, s, n) ==
    [region |-> b.region, addr |-> b.addr, size |-> s, asked |-> n]

(* size + 7 overflows.  The sum wraps to a negative int, as a size_t more  *)
(* than any block has, and so is every other value it could have.          *)
Overflows(n) == n > IntMax - 7

AllocFits(n) ==
    /\ n > 0
    /\ ~Overflows(n)
    /\ \E i \in DOMAIN free_list :
          LET s == RoundUp(n)
              b == free_list[i]
          IN  /\ FirstFit(i, s)
              /\ free_list' = ReplaceAt(free_list, i, Rest(b, s))
              /\ live' = live \cup {Handed(b, s, n)}
    /\ UNCHANGED <<regions, mem_start, m_error, coalescing>>

AllocNoSpace(n) ==
    /\ n > 0
    /\ ~Overflows(n) => \A i \in DOMAIN free_list : ~Fits(free_list[i], RoundUp(n))
    /\ m_error' = "E_NO_SPACE"
    /\ UNCHANGED <<regions, mem_start, free_list, live, coalescing>>

AllocBadArgs(n) ==
    /\ n <= 0
    /\ m_error' = "E_BAD_ARGS"
    /\ UNCHANGED <<regions, mem_start, free_list, live, coalescing>>

Mem_Alloc == \E n \in AllocSizes : AllocFits(n) \/ AllocNoSpace(n) \/ AllocBadArgs(n)

-----------------------------------------------------------------------------
(* Mem_Free.                                                               *)

(* Variant: the walk stops one block late.                                 *)
IsPlaceAfter(k, b) ==
    /\ k \in 1 .. Len(free_list) + 1
    /\ \A j \in 1 .. k - 2 : free_list[j].addr < b.addr
    /\ k - 1 \in DOMAIN free_list => free_list[k - 1].addr >= b.addr

(* Where the walk along the list stops: the first block not before b.      *)
IsPlace(k, b) ==
    /\ k \in 1 .. Len(free_list) + 1
    /\ \A j \in 1 .. k - 1 : free_list[j].addr < b.addr
    /\ k <= Len(free_list) => free_list[k].addr >= b.addr

Inserted(k, b) == InsertAt(free_list, k, Block(b.region, b.addr, b.size))

Touch(l, i) ==
    /\ i \in DOMAIN l
    /\ i + 1 \in DOMAIN l
    /\ EndOf(l[i]) = l[i + 1].addr

(* Variant: the size of the second block is added without its header.      *)
MergeForgetsHeader(l, i) ==
    IF Touch(l, i)
    THEN RemoveAt([l EXCEPT ![i].size = @ + l[i + 1].size], i + 1)
    ELSE l

(* Block i swallows block i + 1 if they are neighbours.                    *)
Merge(l, i) ==
    IF Touch(l, i)
    THEN RemoveAt([l EXCEPT ![i].size = @ + Header + l[i + 1].size], i + 1)
    ELSE l

(* Variant: the block before is not looked at.                             *)
CoalescedWithNext(k, b) == Merge(Inserted(k, b), k)

(* The freed block is merged with the next one, the result with the        *)
(* previous one.                                                           *)
Coalesced(k, b) == Merge(Merge(Inserted(k, b), k), k - 1)

FreeAccepted(b, coalesce) ==
    /\ b.region = mem_start
    /\ \E k \in 1 .. Len(free_list) + 1 :
          /\ IsPlace(k, b)
          /\ free_list' = IF coalesce THEN Coalesced(k, b) ELSE Inserted(k, b)
    /\ live' = live \ {b}
    /\ coalescing' = (coalescing /\ coalesce)
    /\ UNCHANGED <<regions, mem_start, m_error>>

(* The pointer is not between mem_start and mem_end: it is of an earlier   *)
(* region, or mem_start is MAP_FAILED.                                     *)
FreeRejected(b) ==
    /\ b.region # mem_start
    /\ m_error' = "E_BAD_POINTER"
    /\ UNCHANGED <<regions, mem_start, free_list, live, coalescing>>

Mem_Free ==
    \E b \in live :
        \/ \E coalesce \in BOOLEAN : FreeAccepted(b, coalesce)
        \/ FreeRejected(b)

-----------------------------------------------------------------------------

Next == Mem_Init \/ Mem_Alloc \/ Mem_Free

Spec == Init /\ [][Next]_vars

-----------------------------------------------------------------------------
(* Properties.                                                             *)

Blocks == [region : 1 .. Len(regions), addr : Nat, size : Nat]
Handouts == [region : 1 .. Len(regions), addr : Nat, size : Nat, asked : Nat]

(* Every variable stays in its type; no block gets a negative size.        *)
TypeOK ==
    /\ regions \in Seq(Nat)
    /\ mem_start \in {NoRegion, MapFailed, Region}
    /\ free_list \in Seq(Blocks)
    /\ live \subseteq Handouts
    /\ m_error \in {"none", "E_NO_SPACE", "E_BAD_ARGS", "E_BAD_POINTER"}
    /\ coalescing \in BOOLEAN

(* The free list is in address order and its blocks do not overlap, which  *)
(* is what lets Mem_Free stop its walk at the first block that is not      *)
(* before the freed one.                                                   *)
FreeListSorted ==
    /\ \A i \in DOMAIN free_list : free_list[i].region = Region
    /\ \A i, j \in DOMAIN free_list :
          i < j => EndOf(free_list[i]) <= free_list[j].addr

Here == {b \in live : b.region = Region}

Within(b, x) == b.addr <= x /\ x < EndOf(b)

FreeAt(x) == \E i \in DOMAIN free_list : Within(free_list[i], x)

(* Every byte of the region belongs to a block, free or handed out, and no *)
(* byte to two: nothing leaks and nothing is handed out twice.             *)
BlocksTile ==
    regions # <<>> =>
        \A x \in 0 .. regions[Region] + Header - 1 :
            /\ FreeAt(x) \/ \E b \in Here : Within(b, x)
            /\ \A b \in Here : Within(b, x) =>
                  ~FreeAt(x) /\ \A c \in Here : Within(c, x) => c = b

(* As long as every Mem_Free coalesces, no two free blocks are neighbours: *)
(* looking at the two blocks around the freed one is enough.               *)
FreeListCoalesced ==
    coalescing => \A i \in 1 .. Len(free_list) - 1 : ~Touch(free_list, i)

(* When everything has been freed with coalescing, the region is back in   *)
(* the state Mem_Init left it in.                                          *)
RegionRecovers ==
    coalescing /\ Here = {} /\ regions # <<>> =>
        free_list = <<Block(Region, 0, regions[Region])>>

(* The allocator keeps the promise of Heap to its client, over frees with  *)
(* and without coalescing, failing calls and repeated Mem_Init.            *)
Promise == INSTANCE Heap
    WITH Alignment <- 8,
         Overhead <- Header,
         arenas <- [r \in DOMAIN regions |-> regions[r] + Header],
         held <- {[region |-> b.region, at |-> b.addr + Header, len |-> b.asked] :
                     b \in live}

KeepsPromise == Promise!Spec

=============================================================================
