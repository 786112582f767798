------------------------------ MODULE MCDefrag ------------------------------
(***************************************************************************)
(* Defrag for TLC: two inodes, each free (with or without old pointers) or *)
(* a file with up to two direct blocks, up to two index blocks of one or   *)
(* two entries, an i2block of two index blocks or none, and an i3block or  *)
(* none.  The blocks of a file are scattered: their numbers tell the file, *)
(* the level and the place in it.                                          *)
(***************************************************************************)
EXTENDS Defrag, TLC

(* The lengths of the lists below a list of index blocks.                  *)
Lengths == {<<>>, <<2>>, <<1, 2>>}

Shapes == [dblocks : 0 .. 2, iblocks : Lengths, i2block : {<<>>, <<1, 2>>}, i3block : BOOLEAN]
FreeShape == [dblocks |-> 0, iblocks |-> <<>>, i2block |-> <<>>, i3block |-> FALSE]
FullShape == [dblocks |-> 2, iblocks |-> <<1, 2>>, i2block |-> <<1, 2>>, i3block |-> TRUE]

(* Level 1 to 5: dblocks, iblocks, and down from the i2block and i3block.  *)
Number(file, level, n, m) == 1000 * level + 100 * n + 10 * m + file

Row(file, level, n, len) == [m \in 1 .. len |-> Number(file, level, n, m)]

MCInode(file, used, s) ==
    [used |-> used,
     dblocks |-> Row(file, 1, 0, s.dblocks),
     iblocks |-> Row(file, 2, 0, Len(s.iblocks)),
     i2block |-> IF s.i2block = <<>> THEN None ELSE Number(file, 3, 0, 0),
     i3block |-> IF s.i3block THEN Number(file, 4, 0, 0) ELSE None]

(* The lists of the index blocks of a file.                                *)
LowLists(file, level, n, lengths) ==
    [b \in {Number(file, level, n, m) : m \in DOMAIN lengths} |->
        LET m == (b \div 10) % 10 IN Row(file, level, m + n, lengths[m])]

HighLists(file, s) ==
    (IF s.i2block = <<>> THEN <<>>
     ELSE Number(file, 3, 0, 0) :> Row(file, 3, 1, 2) @@ LowLists(file, 3, 1, s.i2block))
    @@ (IF ~s.i3block THEN <<>>
        ELSE Number(file, 4, 0, 0) :> Row(file, 4, 1, 1)
             @@ Number(file, 4, 1, 1) :> Row(file, 4, 2, 2)
             @@ Number(file, 4, 2, 1) :> Row(file, 5, 1, 1)
             @@ Number(file, 4, 2, 2) :> Row(file, 5, 2, 2))

Lists(file, s) == LowLists(file, 2, 0, s.iblocks) @@ HighLists(file, s)

MCData(lists) ==
    LET Data == UNION {ToSet(lists[b]) : b \in DOMAIN lists} IN
    [b \in DOMAIN lists \cup Data |->
        IF b \in DOMAIN lists THEN Index(lists[b]) ELSE [holds |-> b, list |-> <<>>]]

Image(s, t, useS, useT) ==
    LET first == MCInode(1, useS, s)
        second == MCInode(2, useT, t)
        direct == ToSet(first.dblocks) \cup ToSet(second.dblocks) IN
    [inodes |-> <<first, second>>,
     data |-> MCData(Lists(1, s) @@ Lists(2, t))
              @@ [b \in direct |-> [holds |-> b, list |-> <<>>]],
     free_block |-> 9999]

MCImages ==
    {Image(s, t, TRUE, TRUE) : s, t \in Shapes}
    \cup {Image(s, t, use, ~use) : s, t \in {FreeShape, FullShape}, use \in BOOLEAN}
    \cup {Image(FreeShape, FreeShape, FALSE, FALSE)}

(* One file, with an i3block and no other index blocks.                    *)
MCTriples ==
    {Image([s EXCEPT !.i3block = TRUE], FreeShape, TRUE, FALSE) :
        s \in {t \in Shapes : t.iblocks = <<>> /\ t.i2block = <<>>}}

=============================================================================
