\* Two regions, the larger one for up to three small blocks, so that a freed
\* block can have free neighbours on both sides; requests that round to 8 and
\* 16 bytes, and the arguments the calls refuse.
CONSTANTS
  RegionSizes = {0, 44, 100}
  AllocSizes = {0, 1, 16, 2147483647}
  IntMax = 2147483647
  MaxRegions = 2
SPECIFICATION Spec
INVARIANTS TypeOK FreeListSorted BlocksTile FreeListCoalesced RegionRecovers
PROPERTY KeepsPromise
