-------------------------------- MODULE Heap --------------------------------
(***************************************************************************)
(* What the allocator of src/hw5/include/mem.h promises its client: memory *)
(* comes from regions that were mapped, what is handed out is aligned,     *)
(* lies inside one region, is as long as was asked for and overlaps        *)
(* nothing that is still handed out, nor the allocator's own bytes in      *)
(* front of it; it stays until it is given back.                           *)
(***************************************************************************)
EXTENDS Integers, Sequences

CONSTANTS Alignment,
          Overhead    \* the bytes in front of a piece that belong to it

VARIABLES arenas,  \* the lengths of the regions mapped so far
          held     \* what the client holds: [region, at, len]

Interval(i) == i.at - Overhead .. i.at + i.len - 1

Overlap(i, j) == i.region = j.region /\ Interval(i) \cap Interval(j) # {}

Init == arenas = <<>> /\ held = {}

Map == /\ Len(arenas') = Len(arenas) + 1
       /\ SubSeq(arenas', 1, Len(arenas)) = arenas
       /\ UNCHANGED held

Allocate ==
    /\ UNCHANGED arenas
    /\ \E new \in held' :
          /\ held' = held \cup {new}
          /\ new.region \in DOMAIN arenas
          /\ new.at % Alignment = 0
          /\ new.len > 0
          /\ new.at >= Overhead
          /\ new.at + new.len <= arenas[new.region]
          /\ \A old \in held : ~Overlap(old, new)

Release ==
    /\ UNCHANGED arenas
    /\ \E old \in held : held' = held \ {old}

Next == Map \/ Allocate \/ Release

Spec == Init /\ [][Next]_<<arenas, held>>

=============================================================================
