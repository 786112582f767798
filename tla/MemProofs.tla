------------------------------ MODULE MemProofs -----------------------------
(***************************************************************************)
(* What TLAPS proves of Mem, for all sizes of regions and requests.        *)
(*                                                                         *)
(* The argument is about bytes: what an operation on the free list does to *)
(* the set of bytes the list covers, given that the list is sorted.        *)
(***************************************************************************)
EXTENDS Mem, SequenceTheorems, TLAPS

BlocksOf(r) == [region : {r}, addr : Nat, size : Nat]

Sorted(l) == \A i, j \in DOMAIN l : i < j => EndOf(l[i]) <= l[j].addr

Covers(l, x) == \E i \in DOMAIN l : Within(l[i], x)

(***************************************************************************)
(* Sizes.                                                                  *)
(***************************************************************************)
LEMMA RoundUpFacts ==
  ASSUME NEW n \in Int, n > 0
  PROVE  /\ RoundUp(n) \in Nat
         /\ RoundUp(n) >= n
         /\ RoundUp(n) % 8 = 0
BY DEF RoundUp

LEMMA AlignmentFacts ==
  ASSUME NEW a \in Nat, NEW n \in Nat, a % 8 = 0, n % 8 = 0
  PROVE  (a + 16 + n) % 8 = 0
OBVIOUS

(***************************************************************************)
(* The operators on sequences that the list operations are made of.        *)
(***************************************************************************)
LEMMA InsertAtFacts ==
  ASSUME NEW S, NEW s \in Seq(S), NEW i \in 1 .. Len(s) + 1, NEW e \in S
  PROVE  /\ InsertAt(s, i, e) \in Seq(S)
         /\ Len(InsertAt(s, i, e)) = Len(s) + 1
         /\ \A j \in 1 .. Len(s) + 1 :
               InsertAt(s, i, e)[j] = IF j < i THEN s[j]
                                      ELSE IF j = i THEN e
                                      ELSE s[j - 1]
<1> DEFINE before == SubSeq(s, 1, i - 1)
           after == SubSeq(s, i, Len(s))
<1>1. /\ before \in Seq(S)
      /\ Len(before) = i - 1
      /\ \A j \in 1 .. i - 1 : before[j] = s[j]
  BY SubSeqProperties
<1>2. /\ after \in Seq(S)
      /\ Len(after) = Len(s) - i + 1
      /\ \A j \in 1 .. Len(s) - i + 1 : after[j] = s[i + j - 1]
  BY SubSeqProperties
<1>3. <<e>> \in Seq(S) /\ Len(<<e>>) = 1 /\ <<e>>[1] = e
  OBVIOUS
<1>4. InsertAt(s, i, e) = (before \o <<e>>) \o after
  BY DEF InsertAt
<1> HIDE DEF before, after
<1> DEFINE front == before \o <<e>>
<1>5. /\ front \in Seq(S)
      /\ Len(front) = i
      /\ \A j \in 1 .. i : front[j] = IF j < i THEN s[j] ELSE e
  BY <1>1, <1>3, ConcatProperties
<1> HIDE DEF front
<1>6. /\ front \o after \in Seq(S)
      /\ Len(front \o after) = Len(s) + 1
      /\ \A j \in 1 .. Len(s) + 1 :
            (front \o after)[j] = IF j <= i THEN front[j] ELSE after[j - i]
  BY <1>2, <1>5, ConcatProperties
<1>7. \A j \in 1 .. Len(s) + 1 : j > i => after[j - i] = s[j - 1]
  BY <1>2
<1> QED
  BY <1>4, <1>5, <1>6, <1>7 DEF front

LEMMA RemoveAtFacts ==
  ASSUME NEW S, NEW s \in Seq(S), NEW i \in 1 .. Len(s)
  PROVE  /\ RemoveAt(s, i) \in Seq(S)
         /\ Len(RemoveAt(s, i)) = Len(s) - 1
         /\ \A j \in 1 .. Len(s) - 1 :
               RemoveAt(s, i)[j] = IF j < i THEN s[j] ELSE s[j + 1]
<1> DEFINE before == SubSeq(s, 1, i - 1)
           after == SubSeq(s, i + 1, Len(s))
<1>1. /\ before \in Seq(S)
      /\ Len(before) = i - 1
      /\ \A j \in 1 .. i - 1 : before[j] = s[j]
  BY SubSeqProperties
<1>2. /\ after \in Seq(S)
      /\ Len(after) = Len(s) - i
      /\ \A j \in 1 .. Len(s) - i : after[j] = s[i + j]
  BY SubSeqProperties
<1>3. RemoveAt(s, i) = before \o after
  BY DEF RemoveAt
<1> HIDE DEF before, after
<1>4. /\ before \o after \in Seq(S)
      /\ Len(before \o after) = Len(s) - 1
      /\ \A j \in 1 .. Len(s) - 1 :
            (before \o after)[j] = IF j < i THEN before[j] ELSE after[j - i + 1]
  <2>1. Len(s) \in Nat /\ Len(before) + Len(after) = Len(s) - 1
    BY <1>1, <1>2, LenProperties
  <2>2. \A j \in 1 .. Len(before) + Len(after) :
           (before \o after)[j] =
              IF j <= Len(before) THEN before[j] ELSE after[j - Len(before)]
    BY <1>1, <1>2, ConcatProperties
  <2>3. before \o after \in Seq(S) /\ Len(before \o after) = Len(before) + Len(after)
    BY <1>1, <1>2, ConcatProperties
  <2>4. ASSUME NEW j \in 1 .. Len(s) - 1
        PROVE  (before \o after)[j] = IF j < i THEN before[j] ELSE after[j - i + 1]
    <3>1. j - Len(before) = j - i + 1 /\ (j <= Len(before) <=> j < i)
      BY <1>1
    <3> QED
      BY <2>1, <2>2, <3>1
  <2> QED
    BY <2>1, <2>3, <2>4
<1>5. \A j \in 1 .. Len(s) - 1 : j >= i => after[j - i + 1] = s[j + 1]
  <2>1. Len(s) \in Nat
    BY LenProperties
  <2> SUFFICES ASSUME NEW j \in 1 .. Len(s) - 1, j >= i
               PROVE  after[j - i + 1] = s[j + 1]
    OBVIOUS
  <2>2. j - i + 1 \in 1 .. Len(s) - i /\ i + (j - i + 1) = j + 1
    BY <2>1
  <2> QED
    BY <1>2, <2>2
<1>6. ASSUME NEW j \in 1 .. Len(s) - 1
      PROVE  RemoveAt(s, i)[j] = IF j < i THEN s[j] ELSE s[j + 1]
  <2>1. j < i => j \in 1 .. i - 1
    OBVIOUS
  <2> QED
    BY <2>1, <1>1, <1>3, <1>4, <1>5
<1> QED
  BY <1>3, <1>4, <1>6

(***************************************************************************)
(* Blocks and lists of blocks.                                             *)
(***************************************************************************)
LEMMA BlockFacts ==
  ASSUME NEW r, NEW b \in BlocksOf(r)
  PROVE  /\ b.region = r /\ b.addr \in Nat /\ b.size \in Nat
         /\ EndOf(b) \in Nat /\ EndOf(b) = b.addr + 16 + b.size
         /\ b.addr < EndOf(b)
         /\ Within(b, b.addr)
BY DEF BlocksOf, EndOf, Within, Header

LEMMA JoinedFacts ==
  ASSUME NEW r, NEW b \in BlocksOf(r), NEW c \in BlocksOf(r), EndOf(b) = c.addr
  PROVE  LET d == [b EXCEPT !.size = b.size + Header + c.size] IN
         /\ d \in BlocksOf(r)
         /\ d.addr = b.addr
         /\ EndOf(d) = EndOf(c)
         /\ \A x \in Int : Within(d, x) <=> Within(b, x) \/ Within(c, x)
<1> DEFINE d == [b EXCEPT !.size = b.size + Header + c.size]
<1>1. /\ d \in BlocksOf(r)
      /\ d.addr = b.addr
      /\ d.size = b.size + 16 + c.size
  <2> DEFINE n == b.size + Header + c.size
  <2>1. n \in Nat /\ n = b.size + 16 + c.size
    BY DEF BlocksOf, Header
  <2> HIDE DEF n
  <2>2. d = [b EXCEPT !.size = n]
    BY DEF n
  <2>3. b \in [region : {r}, addr : Nat, size : Nat]
    BY DEF BlocksOf
  <2>4. /\ [b EXCEPT !.size = n] \in [region : {r}, addr : Nat, size : Nat]
        /\ [b EXCEPT !.size = n].addr = b.addr
        /\ [b EXCEPT !.size = n].size = n
    BY <2>1, <2>3
  <2> QED
    BY <2>1, <2>2, <2>4 DEF BlocksOf
<1> HIDE DEF d
<1>2. /\ b.addr \in Nat /\ b.size \in Nat /\ EndOf(b) = b.addr + 16 + b.size
      /\ c.addr \in Nat /\ c.size \in Nat /\ EndOf(c) = c.addr + 16 + c.size
      /\ EndOf(d) = d.addr + 16 + d.size
  BY <1>1, BlockFacts
<1>3. EndOf(d) = EndOf(c)
  <2>1. EndOf(d) = b.addr + 16 + (b.size + 16 + c.size)
    BY <1>1, <1>2
  <2>2. EndOf(c) = (b.addr + 16 + b.size) + 16 + c.size
    BY <1>2
  <2> QED
    BY <2>1, <2>2, <1>2
<1>4. \A x \in Int : Within(d, x) <=> Within(b, x) \/ Within(c, x)
  BY <1>1, <1>2, <1>3 DEF Within
<1> QED
  BY <1>1, <1>3, <1>4 DEF d

LEMMA ListFacts ==
  ASSUME NEW r, NEW l \in Seq(BlocksOf(r))
  PROVE  /\ Len(l) \in Nat
         /\ DOMAIN l = 1 .. Len(l)
         /\ \A i \in 1 .. Len(l) :
               /\ l[i] \in BlocksOf(r)
               /\ l[i].region = r /\ l[i].addr \in Nat /\ l[i].size \in Nat
               /\ EndOf(l[i]) \in Nat /\ EndOf(l[i]) = l[i].addr + 16 + l[i].size
               /\ l[i].addr < EndOf(l[i])
               /\ Within(l[i], l[i].addr)
BY LenProperties, ElementOfSeq, BlockFacts

(***************************************************************************)
(* Putting a block into a sorted list at its place.                        *)
(***************************************************************************)
Belongs(l, k, b) ==
    /\ \A j \in 1 .. k - 1 : l[j].addr < b.addr
    /\ k <= Len(l) => l[k].addr >= b.addr
    /\ \A x \in Int : Within(b, x) => ~Covers(l, x)

LEMMA InsertFacts ==
  ASSUME NEW r \in Nat, NEW l \in Seq(BlocksOf(r)), Sorted(l),
         NEW b \in BlocksOf(r), NEW k \in 1 .. Len(l) + 1,
         Belongs(l, k, b)
  PROVE  LET m == InsertAt(l, k, b) IN
         /\ m \in Seq(BlocksOf(r))
         /\ Sorted(m)
         /\ \A x \in Int : Covers(m, x) <=> Covers(l, x) \/ Within(b, x)
         /\ Len(m) = Len(l) + 1
         /\ \A j \in 1 .. Len(l) : Touch(m, j) =>
               j = k \/ j = k - 1 \/ (j < k /\ Touch(l, j)) \/ (j > k /\ Touch(l, j - 1))
         /\ \A j \in DOMAIN m :
               m[j].addr = b.addr \/ \E i \in DOMAIN l : m[j].addr = l[i].addr
<1> DEFINE m == InsertAt(l, k, b)
<1>1. /\ m \in Seq(BlocksOf(r))
      /\ Len(m) = Len(l) + 1
      /\ \A j \in 1 .. Len(l) + 1 :
            m[j] = IF j < k THEN l[j] ELSE IF j = k THEN b ELSE l[j - 1]
  <2> DEFINE S == BlocksOf(r)
  <2>1. l \in Seq(S) /\ b \in S
    OBVIOUS
  <2> HIDE DEF S
  <2>2. /\ m \in Seq(S)
        /\ Len(m) = Len(l) + 1
        /\ \A j \in 1 .. Len(l) + 1 :
              m[j] = IF j < k THEN l[j] ELSE IF j = k THEN b ELSE l[j - 1]
    BY <2>1, InsertAtFacts
  <2> QED
    BY <2>2 DEF S
<1> HIDE DEF m
<1>2. /\ Len(l) \in Nat
      /\ DOMAIN l = 1 .. Len(l)
      /\ DOMAIN m = 1 .. Len(l) + 1
      /\ \A i \in 1 .. Len(l) :
            /\ l[i].addr \in Nat
            /\ EndOf(l[i]) \in Nat
            /\ l[i].addr < EndOf(l[i])
            /\ Within(l[i], l[i].addr)
  <2>1. DOMAIN m = 1 .. Len(m)
    BY <1>1, LenProperties
  <2>2. /\ Len(l) \in Nat
        /\ DOMAIN l = 1 .. Len(l)
        /\ \A i \in 1 .. Len(l) :
              /\ l[i].addr \in Nat
              /\ EndOf(l[i]) \in Nat
              /\ l[i].addr < EndOf(l[i])
              /\ Within(l[i], l[i].addr)
    BY ListFacts
  <2> QED
    BY <1>1, <2>1, <2>2
<1>b. b.addr \in Nat /\ EndOf(b) \in Nat /\ b.addr < EndOf(b) /\ Within(b, b.addr)
  BY BlockFacts
<1>3. \A j \in 1 .. k - 1 : EndOf(l[j]) <= b.addr
  <2> SUFFICES ASSUME NEW j \in 1 .. k - 1 PROVE EndOf(l[j]) <= b.addr
    OBVIOUS
  <2>1. j \in 1 .. Len(l)
    BY <1>2
  <2>2. ~Within(l[j], b.addr)
    BY <2>1, <1>2, <1>b, SMTT(30) DEF Covers, Belongs
  <2>3. l[j].addr < b.addr
    BY DEF Belongs
  <2> QED
    BY <2>1, <2>2, <2>3, <1>2, <1>b DEF Within
<1>4. \A j \in k .. Len(l) : EndOf(b) <= l[j].addr
  <2> SUFFICES ASSUME NEW j \in k .. Len(l) PROVE EndOf(b) <= l[j].addr
    OBVIOUS
  <2>1. l[j].addr >= b.addr
    <3>0. l[k].addr >= b.addr
      BY <1>2 DEF Belongs
    <3>1. CASE j = k
      BY <3>0, <3>1
    <3>2. CASE j # k
      <4>1. k \in DOMAIN l /\ j \in DOMAIN l /\ k < j
        BY <3>2, <1>2
      <4>2. EndOf(l[k]) <= l[j].addr
        BY <4>1 DEF Sorted
      <4> QED
        BY <3>0, <4>1, <4>2, <1>2, <1>b
    <3> QED
      BY <3>1, <3>2
  <2>2. j \in 1 .. Len(l) /\ Within(l[j], l[j].addr)
    BY <1>2
  <2>3. ~Within(b, l[j].addr)
    BY <2>2, <1>2 DEF Covers, Belongs
  <2> QED
    BY <2>1, <2>2, <2>3, <1>2, <1>b DEF Within
<1>5. Sorted(m)
  <2> SUFFICES ASSUME NEW i \in DOMAIN m, NEW j \in DOMAIN m, i < j
               PROVE  EndOf(m[i]) <= m[j].addr
    BY DEF Sorted
  <2>1. CASE j = k
    BY <2>1, <1>1, <1>2, <1>3
  <2>2. CASE i = k
    <3>1. m[i] = b /\ m[j] = l[j - 1] /\ j - 1 \in k .. Len(l)
      BY <2>2, <1>1, <1>2
    <3> QED
      BY <3>1, <1>4
  <2>3. CASE i < k /\ j < k
    BY <2>3, <1>1, <1>2 DEF Sorted
  <2>4. CASE i < k /\ j > k
    <3>1. m[i] = l[i] /\ m[j] = l[j - 1] /\ i < j - 1
          /\ i \in DOMAIN l /\ j - 1 \in DOMAIN l
      BY <2>4, <1>1, <1>2
    <3> QED
      BY <3>1 DEF Sorted
  <2>5. CASE i > k
    <3>1. m[i] = l[i - 1] /\ m[j] = l[j - 1] /\ i - 1 < j - 1
          /\ i - 1 \in DOMAIN l /\ j - 1 \in DOMAIN l
      BY <2>5, <1>1, <1>2
    <3> QED
      BY <3>1 DEF Sorted
  <2> QED
    BY <2>1, <2>2, <2>3, <2>4, <2>5, <1>2
<1>6. ASSUME NEW x \in Int
      PROVE  Covers(m, x) <=> Covers(l, x) \/ Within(b, x)
  <2>1. ASSUME NEW i \in DOMAIN l, Within(l[i], x)
        PROVE  Covers(m, x)
    <3>1. CASE i < k
      <4>1. m[i] = l[i] /\ i \in DOMAIN m
        BY <3>1, <1>1, <1>2
      <4> QED
        BY <4>1, <2>1 DEF Covers
    <3>2. CASE i >= k
      <4>1. m[i + 1] = l[i] /\ i + 1 \in DOMAIN m
        BY <3>2, <1>1, <1>2
      <4> QED
        BY <4>1, <2>1 DEF Covers
    <3> QED
      BY <3>1, <3>2, <1>2
  <2>2. Within(b, x) => Covers(m, x)
    <3>1. m[k] = b /\ k \in DOMAIN m
      BY <1>1, <1>2
    <3> QED
      BY <3>1 DEF Covers
  <2>3. ASSUME NEW j \in DOMAIN m, Within(m[j], x)
        PROVE  Covers(l, x) \/ Within(b, x)
    <3>1. \/ m[j] = b
          \/ m[j] = l[j] /\ j \in DOMAIN l
          \/ m[j] = l[j - 1] /\ j - 1 \in DOMAIN l
      BY <1>1, <1>2
    <3> QED
      BY <3>1, <2>3 DEF Covers
  <2> QED
    BY <2>1, <2>2, <2>3 DEF Covers
<1>7. ASSUME NEW j \in 1 .. Len(l), Touch(m, j)
      PROVE  j = k \/ j = k - 1 \/ (j < k /\ Touch(l, j)) \/ (j > k /\ Touch(l, j - 1))
  <2>1. EndOf(m[j]) = m[j + 1].addr /\ j + 1 \in 1 .. Len(l) + 1
    BY <1>2, <1>7 DEF Touch
  <2>2. CASE j < k - 1
    <3>1. m[j] = l[j] /\ m[j + 1] = l[j + 1] /\ j \in DOMAIN l /\ j + 1 \in DOMAIN l
      BY <2>2, <1>1, <1>2
    <3> QED
      BY <3>1, <2>1, <2>2 DEF Touch
  <2>3. CASE j > k
    <3>1. m[j] = l[j - 1] /\ m[j + 1] = l[j] /\ j \in DOMAIN l /\ j - 1 \in DOMAIN l
      BY <2>1, <2>3, <1>1, <1>2
    <3> QED
      BY <3>1, <2>1, <2>3 DEF Touch
  <2> QED
    BY <2>2, <2>3, <1>2
<1>8. ASSUME NEW j \in DOMAIN m
      PROVE  m[j].addr = b.addr \/ \E i \in DOMAIN l : m[j].addr = l[i].addr
  <2>1. \/ m[j] = b
        \/ m[j] = l[j] /\ j \in DOMAIN l
        \/ m[j] = l[j - 1] /\ j - 1 \in DOMAIN l
    BY <1>1, <1>2
  <2> QED
    BY <2>1
<1> QED
  BY <1>1, <1>5, <1>6, <1>7, <1>8 DEF m

(***************************************************************************)
(* Merging two neighbours covers the same bytes with one block less.       *)
(***************************************************************************)
LEMMA MergeFacts ==
  ASSUME NEW r \in Nat, NEW l \in Seq(BlocksOf(r)), Sorted(l), NEW i \in Int
  PROVE  LET m == Merge(l, i) IN
         /\ m \in Seq(BlocksOf(r))
         /\ Sorted(m)
         /\ \A x \in Int : Covers(m, x) <=> Covers(l, x)
         /\ Touch(l, i) =>
              \A j \in 1 .. Len(m) - 1 : Touch(m, j) =>
                 (j < i /\ Touch(l, j)) \/ (j >= i /\ Touch(l, j + 1))
         /\ \A j \in DOMAIN m : \E p \in DOMAIN l : m[j].addr = l[p].addr
<1>1. CASE ~Touch(l, i)
  BY <1>1 DEF Merge
<1>2. CASE Touch(l, i)
  <2> DEFINE big == [l[i] EXCEPT !.size = l[i].size + Header + l[i + 1].size]
             l1 == [l EXCEPT ![i] = big]
             m == RemoveAt(l1, i + 1)
  <2>1. Merge(l, i) = m
    BY <1>2 DEF Merge
  <2>2. /\ i \in 1 .. Len(l) - 1
        /\ EndOf(l[i]) = l[i + 1].addr
        /\ Len(l) \in Nat
        /\ DOMAIN l = 1 .. Len(l)
        /\ \A j \in 1 .. Len(l) :
              /\ l[j] \in BlocksOf(r)
              /\ l[j].addr \in Nat /\ l[j].size \in Nat
              /\ EndOf(l[j]) \in Nat /\ EndOf(l[j]) = l[j].addr + 16 + l[j].size
    <3>1. i \in DOMAIN l /\ i + 1 \in DOMAIN l /\ EndOf(l[i]) = l[i + 1].addr
      BY <1>2 DEF Touch
    <3> QED
      BY <3>1, ListFacts
  <2>3. /\ big \in BlocksOf(r)
        /\ big.addr = l[i].addr
        /\ EndOf(big) = EndOf(l[i + 1])
        /\ \A x \in Int : Within(big, x) <=> Within(l[i], x) \/ Within(l[i + 1], x)
    <3>1. l[i] \in BlocksOf(r) /\ l[i + 1] \in BlocksOf(r)
      BY <2>2
    <3>2. EndOf(l[i]) = l[i + 1].addr
      BY <2>2
    <3> QED
      BY <3>1, <3>2, JoinedFacts
  <2>4. /\ l1 \in Seq(BlocksOf(r))
        /\ Len(l1) = Len(l)
        /\ \A j \in DOMAIN l : l1[j] = IF j = i THEN big ELSE l[j]
    <3> HIDE DEF big
    <3>1. i \in 1 .. Len(l)
      BY <2>2
    <3> QED
      BY <3>1, <2>2, <2>3, ExceptSeq
  <2> HIDE DEF big, l1
  <2>5. /\ m \in Seq(BlocksOf(r))
        /\ Len(m) = Len(l) - 1
        /\ DOMAIN m = 1 .. Len(l) - 1
        /\ \A j \in 1 .. Len(l) - 1 :
              m[j] = IF j < i THEN l[j] ELSE IF j = i THEN big ELSE l[j + 1]
    <3>1. /\ m \in Seq(BlocksOf(r))
          /\ Len(m) = Len(l1) - 1
          /\ \A j \in 1 .. Len(l1) - 1 : m[j] = IF j < i + 1 THEN l1[j] ELSE l1[j + 1]
      <4>1. i + 1 \in 1 .. Len(l1)
        BY <2>2, <2>4
      <4> QED
        BY <4>1, <2>4, RemoveAtFacts
    <3>2. DOMAIN m = 1 .. Len(m)
      BY <3>1, LenProperties
    <3> HIDE DEF m
    <3>3. ASSUME NEW j \in 1 .. Len(l) - 1
          PROVE  m[j] = IF j < i THEN l[j] ELSE IF j = i THEN big ELSE l[j + 1]
      <4>1. j \in DOMAIN l /\ j + 1 \in DOMAIN l /\ (j < i + 1 <=> j <= i)
        BY <2>2
      <4>2. m[j] = IF j < i + 1 THEN l1[j] ELSE l1[j + 1]
        BY <3>1, <2>4
      <4>3. CASE j < i
        BY <4>1, <4>2, <4>3, <2>2, <2>4
      <4>4. CASE j = i
        <5>1. m[j] = l1[j] /\ ~(j < i)
          BY <4>2, <4>4
        <5> QED
          BY <4>1, <4>4, <5>1, <2>4
      <4>5. CASE j > i
        <5>1. m[j] = l1[j + 1] /\ j + 1 # i
          BY <4>2, <4>5, <2>2
        <5> QED
          BY <4>1, <4>5, <5>1, <2>2, <2>4
      <4> QED
        BY <4>3, <4>4, <4>5, <2>2
    <3> QED
      BY <3>1, <3>2, <3>3, <2>4
  <2> HIDE DEF m
  <2>6. Sorted(m)
    <3> SUFFICES ASSUME NEW p \in DOMAIN m, NEW q \in DOMAIN m, p < q
                 PROVE  EndOf(m[p]) <= m[q].addr
      BY DEF Sorted
    <3> DEFINE pp == IF p < i THEN p ELSE p + 1
               qq == IF q <= i THEN q ELSE q + 1
    <3>1. /\ pp \in DOMAIN l /\ qq \in DOMAIN l /\ pp < qq
          /\ EndOf(m[p]) = EndOf(l[pp])
          /\ m[q].addr = l[qq].addr
      <4>1. p \in 1 .. Len(l) - 1 /\ q \in 1 .. Len(l) - 1
        BY <2>5
      <4>2. pp \in DOMAIN l /\ qq \in DOMAIN l
        <5>1. p + 1 \in DOMAIN l /\ q + 1 \in DOMAIN l /\ p \in DOMAIN l /\ q \in DOMAIN l
          <6>1. DOMAIN l = 1 .. Len(l) /\ Len(l) \in Nat
            BY <2>2
          <6> HIDE DEF pp, qq
          <6> QED
            BY <4>1, <6>1
        <5>2. (pp = p \/ pp = p + 1) /\ (qq = q \/ qq = q + 1)
          OBVIOUS
        <5> HIDE DEF pp, qq
        <5> QED
          BY <5>1, <5>2
      <4>3. EndOf(m[p]) = EndOf(l[pp])
        <5>1. m[p] = IF p < i THEN l[p] ELSE IF p = i THEN big ELSE l[p + 1]
          BY <4>1, <2>5
        <5>2. CASE p < i
          BY <5>1, <5>2
        <5>3. CASE p = i
          <6>1. m[p] = big /\ pp = i + 1
            BY <5>1, <5>3
          <6> QED
            BY <6>1, <2>3
        <5>4. CASE p > i
          BY <5>1, <5>4, <4>1, <2>2
        <5> QED
          BY <5>2, <5>3, <5>4, <4>1, <2>2
      <4>4. m[q].addr = l[qq].addr
        <5>1. m[q] = IF q < i THEN l[q] ELSE IF q = i THEN big ELSE l[q + 1]
          BY <4>1, <2>5
        <5>2. CASE q < i
          BY <5>1, <5>2, <4>1, <2>2
        <5>3. CASE q = i
          <6>1. m[q] = big /\ qq = i
            BY <5>1, <5>3
          <6> QED
            BY <6>1, <2>3
        <5>4. CASE q > i
          BY <5>1, <5>4, <4>1, <2>2
        <5> QED
          BY <5>2, <5>3, <5>4, <4>1, <2>2
      <4>5. CASE pp < qq
        BY <4>2, <4>3, <4>4, <4>5
      <4>6. CASE ~(pp < qq)
        BY <4>1, <4>6, <2>2
      <4> QED
        BY <4>5, <4>6
    <3> QED
      BY <3>1 DEF Sorted
  <2>7. ASSUME NEW x \in Int
        PROVE  Covers(m, x) <=> Covers(l, x)
    <3>1. Within(big, x) <=> Within(l[i], x) \/ Within(l[i + 1], x)
      BY <2>3
    <3>2. ASSUME NEW j \in DOMAIN l, Within(l[j], x)
          PROVE  Covers(m, x)
      <4>1. CASE j < i
        <5>1. m[j] = l[j] /\ j \in DOMAIN m
          BY <4>1, <2>2, <2>5
        <5> QED
          BY <5>1, <3>2 DEF Covers
      <4>2. CASE j \in {i, i + 1}
        <5>1. Within(m[i], x) /\ i \in DOMAIN m
          BY <4>2, <3>1, <3>2, <2>2, <2>5
        <5> QED
          BY <5>1 DEF Covers
      <4>3. CASE j > i + 1
        <5>1. m[j - 1] = l[j] /\ j - 1 \in DOMAIN m
          BY <4>3, <2>2, <2>5
        <5> QED
          BY <5>1, <3>2 DEF Covers
      <4> QED
        BY <4>1, <4>2, <4>3, <2>2
    <3>3. ASSUME NEW j \in DOMAIN m, Within(m[j], x)
          PROVE  Covers(l, x)
      <4>1. j \in DOMAIN l /\ j + 1 \in DOMAIN l /\ i \in DOMAIN l /\ i + 1 \in DOMAIN l
        BY <2>2, <2>5
      <4>2. m[j] = l[j] \/ (m[j] = big /\ j = i) \/ m[j] = l[j + 1]
        BY <2>5
      <4> QED
        BY <4>1, <4>2, <3>1, <3>3 DEF Covers
    <3> QED
      BY <3>2, <3>3 DEF Covers
  <2>8. ASSUME NEW j \in 1 .. Len(m) - 1, Touch(m, j)
        PROVE  (j < i /\ Touch(l, j)) \/ (j >= i /\ Touch(l, j + 1))
    <3>1. EndOf(m[j]) = m[j + 1].addr /\ j \in 1 .. Len(l) - 2
      BY <2>8, <2>2, <2>5 DEF Touch
    <3>2. CASE j < i
      <4>1. m[j] = l[j] /\ m[j + 1].addr = l[j + 1].addr
        <5>1. j \in 1 .. Len(l) - 1 /\ j + 1 \in 1 .. Len(l) - 1
          BY <3>1, <2>2
        <5>2. j + 1 < i \/ j + 1 = i
          BY <3>1, <3>2, <2>2
        <5> QED
          BY <5>1, <5>2, <3>2, <2>3, <2>5
      <4>2. j \in DOMAIN l /\ j + 1 \in DOMAIN l
        BY <3>1, <2>2
      <4> QED
        BY <3>1, <3>2, <4>1, <4>2 DEF Touch
    <3>3. CASE j >= i
      <4>1. EndOf(m[j]) = EndOf(l[j + 1]) /\ m[j + 1] = l[j + 2]
        BY <3>1, <3>3, <2>2, <2>3, <2>5, SMTT(30)
      <4>2. j + 1 \in DOMAIN l /\ j + 2 \in DOMAIN l /\ (j + 1) + 1 = j + 2
        BY <3>1, <2>2
      <4> QED
        BY <3>1, <3>3, <4>1, <4>2 DEF Touch
    <3> QED
      BY <3>2, <3>3, <2>2
  <2>9. ASSUME NEW j \in DOMAIN m
        PROVE  \E p \in DOMAIN l : m[j].addr = l[p].addr
    <3>1. j \in DOMAIN l /\ j + 1 \in DOMAIN l /\ i \in DOMAIN l
      BY <2>2, <2>5
    <3>2. m[j] = l[j] \/ m[j] = big \/ m[j] = l[j + 1]
      BY <2>5
    <3> QED
      BY <3>1, <3>2, <2>3
  <2> QED
    BY <2>1, <2>5, <2>6, <2>7, <2>8, <2>9
<1> QED
  BY <1>1, <1>2

(***************************************************************************)
(* Cutting a block off the front of one that is large enough.              *)
(***************************************************************************)
LEMMA CutFacts ==
  ASSUME NEW r \in Nat, NEW l \in Seq(BlocksOf(r)), Sorted(l),
         NEW i \in 1 .. Len(l), NEW s \in Nat, Fits(l[i], s)
  PROVE  LET m == ReplaceAt(l, i, Rest(l[i], s)) IN
         /\ m \in Seq(BlocksOf(r))
         /\ Len(m) = Len(l)
         /\ \A j \in 1 .. Len(l) : j # i => m[j] = l[j]
         /\ m[i] = Rest(l[i], s)
         /\ Sorted(m)
         /\ \A x \in Int : Covers(m, x) <=>
               Covers(l, x) /\ ~(l[i].addr <= x /\ x < l[i].addr + 16 + s)
         /\ \A j \in Int : Touch(m, j) => Touch(l, j)
         /\ l[i].addr + 16 + s < EndOf(l[i])
<1> DEFINE new == Rest(l[i], s)
           m == ReplaceAt(l, i, new)
<1>1. /\ Len(l) \in Nat
      /\ DOMAIN l = 1 .. Len(l)
      /\ \A j \in 1 .. Len(l) :
            /\ l[j] \in BlocksOf(r)
            /\ l[j].addr \in Nat
            /\ EndOf(l[j]) \in Nat /\ l[j].addr < EndOf(l[j])
  BY ListFacts
<1>2. /\ new \in BlocksOf(r)
      /\ new.addr = l[i].addr + 16 + s
      /\ EndOf(new) = EndOf(l[i])
      /\ new.addr < EndOf(new)
      /\ l[i].addr + 16 + s < EndOf(l[i])
  <2> DEFINE b == l[i]
  <2>1. b \in BlocksOf(r) /\ Fits(b, s)
    BY <1>1
  <2> HIDE DEF b
  <2>2. b.region = r /\ b.addr \in Nat /\ b.size \in Nat /\ b.size >= s + 32
    BY <2>1 DEF BlocksOf, Fits, Header
  <2> DEFINE c == Rest(b, s)
  <2>3. c.region = r /\ c.addr = b.addr + 16 + s /\ c.size = b.size - (s + 16)
    BY <2>2 DEF Rest, Block, Header
  <2>4. c \in BlocksOf(r)
    <3>1. b.addr + 16 + s \in Nat /\ b.size - (s + 16) \in Nat
      BY <2>2, SMTT(30)
    <3> QED
      BY <2>2, <3>1 DEF Rest, Block, Header, BlocksOf
  <2>5. EndOf(c) = c.addr + 16 + c.size /\ EndOf(b) = b.addr + 16 + b.size
    BY <2>1, <2>4, BlockFacts
  <2> HIDE DEF c
  <2>6. EndOf(c) = EndOf(b) /\ c.addr < EndOf(c) /\ b.addr + 16 + s < EndOf(b)
    <3>1. EndOf(c) = (b.addr + 16 + s) + 16 + (b.size - (s + 16))
      BY <2>2, <2>3, <2>5
    <3>2. EndOf(b) = b.addr + 16 + b.size
      BY <2>5
    <3>3. EndOf(c) = EndOf(b)
      BY <2>2, <3>1, <3>2, SMTT(30)
    <3>4. c.addr = b.addr + 16 + s /\ b.addr + 16 + s < EndOf(b)
      BY <2>2, <2>3, <3>2
    <3> QED
      BY <3>3, <3>4
  <2> QED
    BY <2>3, <2>4, <2>6 DEF b, c
<1>3. /\ m \in Seq(BlocksOf(r))
      /\ Len(m) = Len(l)
      /\ \A j \in 1 .. Len(l) : m[j] = IF j = i THEN new ELSE l[j]
  <2> HIDE DEF new
  <2> QED
    BY <1>1, <1>2, ExceptSeq DEF ReplaceAt
<1>4. DOMAIN m = 1 .. Len(l)
  BY <1>3, LenProperties
<1> HIDE DEF m, new
<1>5. \A j \in 1 .. Len(l) : EndOf(m[j]) = EndOf(l[j]) /\ l[j].addr <= m[j].addr
  <2> SUFFICES ASSUME NEW j \in 1 .. Len(l)
               PROVE  EndOf(m[j]) = EndOf(l[j]) /\ l[j].addr <= m[j].addr
    OBVIOUS
  <2>1. CASE j = i
    BY <2>1, <1>1, <1>2, <1>3
  <2>2. CASE j # i
    <3>1. m[j] = l[j] /\ l[j].addr \in Nat
      BY <2>2, <1>1, <1>3
    <3> QED
      BY <3>1
  <2> QED
    BY <2>1, <2>2
<1>6. \A j \in 1 .. Len(l) : m[j].addr \in Nat
  <2> SUFFICES ASSUME NEW j \in 1 .. Len(l) PROVE m[j].addr \in Nat
    OBVIOUS
  <2>1. m[j] = IF j = i THEN new ELSE l[j]
    BY <1>3
  <2>2. new.addr \in Nat
    BY <1>2, BlockFacts
  <2> QED
    BY <2>1, <2>2, <1>1
<1>7. Sorted(m)
  <2> SUFFICES ASSUME NEW p \in DOMAIN m, NEW q \in DOMAIN m, p < q
               PROVE  EndOf(m[p]) <= m[q].addr
    BY DEF Sorted
  <2>1. p \in 1 .. Len(l) /\ q \in 1 .. Len(l) /\ p \in DOMAIN l /\ q \in DOMAIN l
    BY <1>1, <1>4
  <2>2. EndOf(l[p]) <= l[q].addr
    BY <2>1 DEF Sorted
  <2>3. EndOf(m[p]) = EndOf(l[p]) /\ l[q].addr <= m[q].addr
    BY <2>1, <1>5
  <2>4. EndOf(l[p]) \in Nat /\ l[q].addr \in Nat /\ m[q].addr \in Nat
    BY <2>1, <1>1, <1>6
  <2> QED
    BY <2>2, <2>3, <2>4
<1>8. ASSUME NEW x \in Int
      PROVE  Covers(m, x) <=>
               Covers(l, x) /\ ~(l[i].addr <= x /\ x < l[i].addr + 16 + s)
  <2> DEFINE InCut == l[i].addr <= x /\ x < l[i].addr + 16 + s
  <2>1. \A j \in 1 .. Len(l) : j # i /\ Within(l[j], x) => ~InCut
    <3> SUFFICES ASSUME NEW j \in 1 .. Len(l), j # i, Within(l[j], x), InCut
                 PROVE  FALSE
      OBVIOUS
    <3>1. l[j].addr <= x /\ x < EndOf(l[j]) /\ l[i].addr <= x /\ x < EndOf(l[i])
      <4>1. l[i].addr + 16 + s < EndOf(l[i]) /\ l[i].addr \in Nat /\ EndOf(l[i]) \in Nat
        BY <1>1, <1>2
      <4> QED
        BY <4>1 DEF Within
    <3>2. EndOf(l[i]) <= l[j].addr \/ EndOf(l[j]) <= l[i].addr
      <4>1. i \in DOMAIN l /\ j \in DOMAIN l /\ (i < j \/ j < i)
        BY <1>1
      <4> QED
        BY <4>1 DEF Sorted
    <3>3. /\ l[i].addr \in Nat /\ EndOf(l[i]) \in Nat
          /\ l[j].addr \in Nat /\ EndOf(l[j]) \in Nat
      BY <1>1
    <3> QED
      BY <3>1, <3>2, <3>3, SMTT(30)
  <2>2. Within(m[i], x) <=> Within(l[i], x) /\ ~InCut
    <3>1. /\ m[i].addr = l[i].addr + 16 + s /\ EndOf(m[i]) = EndOf(l[i])
          /\ l[i].addr \in Nat /\ EndOf(l[i]) \in Nat
      BY <1>1, <1>2, <1>3
    <3> QED
      BY <3>1 DEF Within
  <2>3. \A j \in 1 .. Len(l) : j # i => (Within(m[j], x) <=> Within(l[j], x))
    BY <1>3
  <2>4. Covers(m, x) <=> \E j \in 1 .. Len(l) : Within(m[j], x)
    BY <1>4 DEF Covers
  <2>5. Covers(l, x) <=> \E j \in 1 .. Len(l) : Within(l[j], x)
    BY <1>1 DEF Covers
  <2> HIDE DEF InCut
  <2>6. Covers(m, x) <=> Covers(l, x) /\ ~InCut
    <3>1. ASSUME NEW j \in 1 .. Len(l), Within(m[j], x)
          PROVE  Within(l[j], x) /\ ~InCut
      BY <3>1, <2>1, <2>2, <2>3
    <3>2. ASSUME NEW j \in 1 .. Len(l), Within(l[j], x), ~InCut
          PROVE  Within(m[j], x)
      BY <3>2, <2>2, <2>3
    <3> QED
      BY <3>1, <3>2, <2>4, <2>5
  <2> QED
    BY <2>6 DEF InCut
<1>9. ASSUME NEW j \in Int, Touch(m, j)
      PROVE  Touch(l, j)
  <2>1. /\ j \in 1 .. Len(l) /\ j + 1 \in 1 .. Len(l)
        /\ EndOf(m[j]) = m[j + 1].addr
    BY <1>4, <1>9 DEF Touch
  <2>2. EndOf(l[j]) <= l[j + 1].addr
    <3>1. j \in DOMAIN l /\ j + 1 \in DOMAIN l /\ j < j + 1
      BY <2>1, <1>1
    <3> QED
      BY <3>1 DEF Sorted
  <2>3. EndOf(m[j]) = EndOf(l[j]) /\ l[j + 1].addr <= m[j + 1].addr
    BY <2>1, <1>5
  <2>4. EndOf(l[j]) \in Nat /\ l[j + 1].addr \in Nat /\ m[j + 1].addr \in Nat
    BY <2>1, <1>1, <1>6
  <2>5. EndOf(l[j]) = l[j + 1].addr
    BY <2>1, <2>2, <2>3, <2>4
  <2> QED
    BY <2>1, <2>5, <1>1 DEF Touch
<1> QED
  <2> USE DEF m, new
  <2>1. m[i] = Rest(l[i], s) /\ \A j \in 1 .. Len(l) : j # i => m[j] = l[j]
    BY <1>3
  <2>2. l[i].addr + 16 + s < EndOf(l[i])
    BY <1>2
  <2> QED
    BY <1>3, <1>7, <1>8, <1>9, <2>1, <2>2

(***************************************************************************)
(* The inductive invariant: the list is well formed; the bytes of the      *)
(* region are exactly those of the free and the handed out blocks, and no  *)
(* byte is in two of them; every block is aligned and as long as what was  *)
(* asked for.                                                              *)
(***************************************************************************)
ListOK == free_list \in Seq(BlocksOf(Region)) /\ Sorted(free_list)

InRegion(x) == regions # <<>> /\ 0 <= x /\ x < regions[Region] + Header

Tiles ==
    \A x \in Int :
       /\ InRegion(x) <=> Covers(free_list, x) \/ \E b \in Here : Within(b, x)
       /\ \A b \in Here : Within(b, x) => ~Covers(free_list, x)

LiveApart ==
    \A x \in Int, b, c \in live :
       b.region = c.region /\ Within(b, x) /\ Within(c, x) => b = c

HandoutsOK ==
    /\ \A i \in DOMAIN free_list : free_list[i].addr % 8 = 0
    /\ \A b \in live : b.addr % 8 = 0 /\ 0 < b.asked /\ b.asked <= b.size

IInv == TypeOK /\ ListOK /\ Tiles /\ LiveApart /\ HandoutsOK /\ FreeListCoalesced

(* A handed out block is a block like a free one.                          *)
LEMMA HandoutFacts ==
  ASSUME TypeOK, NEW b \in live
  PROVE  /\ Len(regions) \in Nat
         /\ b.region \in 1 .. Len(regions)
         /\ b.addr \in Nat /\ b.size \in Nat /\ b.asked \in Nat
         /\ Block(b.region, b.addr, b.size) \in BlocksOf(b.region)
         /\ EndOf(b) = b.addr + 16 + b.size
         /\ \A x : Within(Block(b.region, b.addr, b.size), x) <=> Within(b, x)
<1>1. b \in Handouts /\ Len(regions) \in Nat
  BY LenProperties DEF TypeOK
<1>2. /\ b.region \in 1 .. Len(regions)
      /\ b.addr \in Nat /\ b.size \in Nat /\ b.asked \in Nat
  BY <1>1 DEF Handouts
<1>3. Block(b.region, b.addr, b.size) \in BlocksOf(b.region)
  BY <1>2 DEF Block, BlocksOf
<1>4. \A x : Within(Block(b.region, b.addr, b.size), x) <=> Within(b, x)
  BY DEF Within, EndOf, Block
<1> QED
  BY <1>1, <1>2, <1>3, <1>4 DEF EndOf, Header

(* A list with bytes in a region is a list of blocks of a mapped region.   *)
LEMMA FreeListType ==
  ASSUME NEW N \in Nat, NEW l \in Seq(BlocksOf(N)),
         \A x \in Int : Covers(l, x) => N # 0
  PROVE  l \in Seq([region : 1 .. N, addr : Nat, size : Nat])
<1>1. /\ Len(l) \in Nat
      /\ DOMAIN l = 1 .. Len(l)
      /\ \A i \in 1 .. Len(l) :
            /\ l[i] \in BlocksOf(N)
            /\ l[i].addr \in Nat
            /\ Within(l[i], l[i].addr)
  BY ListFacts
<1>2. \A i \in 1 .. Len(l) : l[i] \in [region : 1 .. N, addr : Nat, size : Nat]
  <2> SUFFICES ASSUME NEW i \in 1 .. Len(l)
               PROVE  l[i] \in [region : 1 .. N, addr : Nat, size : Nat]
    OBVIOUS
  <2>1. Covers(l, l[i].addr)
    BY <1>1 DEF Covers
  <2>2. N \in 1 .. N
    BY <2>1, <1>1
  <2> QED
    BY <1>1, <2>2 DEF BlocksOf
<1> DEFINE S == [region : 1 .. N, addr : Nat, size : Nat]
<1>3. l \in [1 .. Len(l) -> S]
  <2>1. l = [i \in 1 .. Len(l) |-> l[i]]
    BY <1>1, SeqDef
  <2> QED
    BY <1>2, <2>1
<1>4. l \in Seq(S)
  <2> HIDE DEF S
  <2> QED
    BY <1>1, <1>3, SeqDef
<1> QED
  BY <1>4

(***************************************************************************)
(* The invariant holds initially and every step keeps it.                  *)
(***************************************************************************)
LEMMA InitEstablishesIInv == Init => IInv
<1> SUFFICES ASSUME Init PROVE IInv
  OBVIOUS
<1>1. /\ regions = <<>> /\ free_list = <<>> /\ live = {}
      /\ mem_start = 0 /\ m_error = "none" /\ coalescing = TRUE
  BY DEF Init, NoRegion
<1>2. Len(free_list) = 0 /\ DOMAIN free_list = {} /\ Region = 0
  BY <1>1 DEF Region
<1>3. TypeOK
  <2>1. regions \in Seq(Nat) /\ free_list \in Seq(Blocks)
    BY <1>1, EmptySeq
  <2> QED
    BY <1>1, <1>2, <2>1 DEF TypeOK, NoRegion
<1>4. ListOK
  <2>1. free_list \in Seq(BlocksOf(Region))
    BY <1>1, EmptySeq
  <2> QED
    BY <1>2, <2>1 DEF ListOK, Sorted
<1>5. Tiles
  BY <1>1, <1>2 DEF Tiles, InRegion, Here, Covers
<1>6. LiveApart /\ HandoutsOK
  BY <1>1, <1>2 DEF LiveApart, HandoutsOK
<1>7. FreeListCoalesced
  BY <1>2 DEF FreeListCoalesced
<1> QED
  BY <1>3, <1>4, <1>5, <1>6, <1>7 DEF IInv

(* A step that leaves the blocks alone.                                    *)
LEMMA BlocksKeptFacts ==
  ASSUME IInv, UNCHANGED <<regions, free_list, live, coalescing>>,
         mem_start' \in {NoRegion, MapFailed, Region},
         m_error' \in {"none", "E_NO_SPACE", "E_BAD_ARGS", "E_BAD_POINTER"}
  PROVE  IInv'
<1>1. Region' = Region
  BY DEF Region
<1>2. TypeOK'
  BY <1>1 DEF IInv, TypeOK, Blocks, Handouts
<1>3. ListOK'
  BY <1>1 DEF IInv, ListOK
<1>4. Tiles'
  BY <1>1 DEF IInv, Tiles, InRegion, Here
<1>5. LiveApart' /\ HandoutsOK' /\ FreeListCoalesced'
  BY DEF IInv, LiveApart, HandoutsOK, FreeListCoalesced
<1> QED
  BY <1>2, <1>3, <1>4, <1>5 DEF IInv

(* A new region is one free block.                                         *)
LEMMA InitMapsPreserves ==
  ASSUME IInv, NEW n \in Int, InitMaps(n)
  PROVE  IInv'
<1> DEFINE whole == Block(Region', 0, n)
<1>1. /\ n \in Nat /\ n > 0
      /\ regions' = Append(regions, n) /\ mem_start' = Region'
      /\ free_list' = <<whole>> /\ live' = live /\ m_error' = m_error
      /\ coalescing' = TRUE
  BY DEF InitMaps
<1>2. regions \in Seq(Nat) /\ Len(regions) \in Nat
  BY LenProperties DEF IInv, TypeOK
<1>3. /\ regions' \in Seq(Nat) /\ Len(regions') = Len(regions) + 1
      /\ Region' = Len(regions) + 1
      /\ regions'[Region'] = n /\ regions' # <<>>
  <2>1. /\ Append(regions, n) \in Seq(Nat)
        /\ Len(Append(regions, n)) = Len(regions) + 1
        /\ Append(regions, n)[Len(regions) + 1] = n
    BY <1>1, <1>2, AppendProperties
  <2>2. regions' # <<>>
    BY <1>1, <1>2, <2>1, EmptySeq
  <2> QED
    BY <1>1, <2>1, <2>2 DEF Region
<1>4. /\ whole \in BlocksOf(Region') /\ whole \in Blocks'
      /\ whole.addr = 0 /\ EndOf(whole) = 16 + n
  BY <1>1, <1>2, <1>3 DEF Block, Blocks, BlocksOf, EndOf, Header
<1> HIDE DEF whole
<1>5. /\ free_list' \in Seq(BlocksOf(Region')) /\ free_list' \in Seq(Blocks')
      /\ Len(free_list') = 1 /\ DOMAIN free_list' = {1} /\ free_list'[1] = whole
  BY <1>1, <1>4
<1>6. Here' = {}
  <2>1. \A b \in live : b.region # Region'
    <3> SUFFICES ASSUME NEW b \in live PROVE b.region # Region'
      OBVIOUS
    <3>1. b.region \in 1 .. Len(regions)
      BY HandoutFacts DEF IInv
    <3> QED
      BY <1>2, <1>3, <3>1
  <2> QED
    BY <1>1, <2>1 DEF Here
<1>7. TypeOK'
  <2>1. live' \subseteq Handouts'
    <3>1. 1 .. Len(regions) \subseteq 1 .. Len(regions')
      BY <1>2, <1>3
    <3> QED
      BY <1>1, <3>1 DEF IInv, TypeOK, Handouts
  <2> QED
    BY <1>1, <1>3, <1>5, <2>1 DEF IInv, TypeOK
<1>8. ListOK'
  <2>1. \A i, j \in DOMAIN free_list' : ~(i < j)
    BY <1>5
  <2> QED
    BY <1>5, <2>1 DEF ListOK, Sorted
<1>9. Tiles'
  <2>1. ASSUME NEW x \in Int
        PROVE  InRegion(x)' <=> Covers(free_list', x)
    <3>1. InRegion(x)' <=> 0 <= x /\ x < n + 16
      BY <1>3 DEF InRegion, Header
    <3>2. Covers(free_list', x) <=> 0 <= x /\ x < 16 + n
      BY <1>4, <1>5 DEF Covers, Within
    <3>3. n + 16 = 16 + n
      BY <1>1
    <3> QED
      BY <3>1, <3>2, <3>3
  <2> QED
    BY <1>6, <2>1 DEF Tiles
<1>10. LiveApart' /\ HandoutsOK'
  <2>1. \A i \in DOMAIN free_list' : free_list'[i].addr % 8 = 0
    BY <1>4, <1>5
  <2> QED
    BY <1>1, <2>1 DEF IInv, LiveApart, HandoutsOK
<1>11. FreeListCoalesced'
  BY <1>5 DEF FreeListCoalesced
<1> QED
  BY <1>7, <1>8, <1>9, <1>10, <1>11 DEF IInv

(* What a fitting Mem_Alloc does, in terms of bytes: the block handed out  *)
(* takes free bytes of the region, and they are no longer free.            *)
LEMMA AllocFitsFacts ==
  ASSUME IInv, NEW n \in Int, AllocFits(n)
  PROVE  \E i \in 1 .. Len(free_list), h \in Handouts :
            /\ h.region = Region /\ h.addr = free_list[i].addr
            /\ h.addr % 8 = 0 /\ h.asked = n /\ 0 < n /\ n <= h.size
            /\ live' = live \cup {h}
            /\ free_list' \in Seq(BlocksOf(Region)) /\ Sorted(free_list')
            /\ \A x \in Int : Within(h, x) => Covers(free_list, x)
            /\ \A x \in Int : Covers(free_list', x) <=>
                  Covers(free_list, x) /\ ~Within(h, x)
            /\ \A j \in Int : Touch(free_list', j) => Touch(free_list, j)
            /\ \A j \in DOMAIN free_list' : free_list'[j].addr % 8 = 0
            /\ UNCHANGED <<regions, mem_start, m_error, coalescing>>
<1>1. PICK i \in DOMAIN free_list :
         /\ Fits(free_list[i], RoundUp(n))
         /\ free_list' = ReplaceAt(free_list, i, Rest(free_list[i], RoundUp(n)))
         /\ live' = live \cup {Handed(free_list[i], RoundUp(n), n)}
         /\ UNCHANGED <<regions, mem_start, m_error, coalescing>>
         /\ n > 0
  BY DEF AllocFits, FirstFit
<1> DEFINE s == RoundUp(n)
           l == free_list
           h == Handed(l[i], s, n)
<1>2. s \in Nat /\ s >= n /\ s % 8 = 0
  BY <1>1, RoundUpFacts
<1>3. /\ regions \in Seq(Nat) /\ Region = Len(regions) /\ Region \in Nat
      /\ l \in Seq(BlocksOf(Region)) /\ Sorted(l)
  BY LenProperties DEF IInv, TypeOK, ListOK, Region
<1>4. i \in 1 .. Len(l) /\ Fits(l[i], s)
  BY <1>1, <1>3, LenProperties
<1>5. /\ free_list' \in Seq(BlocksOf(Region))
      /\ Len(free_list') = Len(l)
      /\ \A j \in 1 .. Len(l) : j # i => free_list'[j] = l[j]
      /\ free_list'[i] = Rest(l[i], s)
      /\ Sorted(free_list')
      /\ \A x \in Int : Covers(free_list', x) <=>
               Covers(l, x) /\ ~(l[i].addr <= x /\ x < l[i].addr + 16 + s)
      /\ \A j \in Int : Touch(free_list', j) => Touch(l, j)
      /\ l[i].addr + 16 + s < EndOf(l[i])
  <2> HIDE DEF s, l
  <2> DEFINE m == ReplaceAt(l, i, Rest(l[i], s))
  <2>1. free_list' = m
    BY <1>1 DEF s, l
  <2>2. s \in Nat /\ Region \in Nat /\ l \in Seq(BlocksOf(Region)) /\ Sorted(l)
    BY <1>2, <1>3
  <2>3. /\ m \in Seq(BlocksOf(Region))
        /\ Len(m) = Len(l)
        /\ \A j \in 1 .. Len(l) : j # i => m[j] = l[j]
        /\ m[i] = Rest(l[i], s)
        /\ Sorted(m)
        /\ \A x \in Int : Covers(m, x) <=>
                 Covers(l, x) /\ ~(l[i].addr <= x /\ x < l[i].addr + 16 + s)
        /\ \A j \in Int : Touch(m, j) => Touch(l, j)
        /\ l[i].addr + 16 + s < EndOf(l[i])
    BY <1>4, <2>2, CutFacts
  <2> HIDE DEF m
  <2> QED
    BY <2>1, <2>3
<1>6. /\ l[i].region = Region /\ l[i].addr \in Nat
      /\ EndOf(l[i]) \in Nat /\ DOMAIN l = 1 .. Len(l)
      /\ Within(l[i], l[i].addr)
  BY <1>3, <1>4, ListFacts
<1>7. l[i].addr % 8 = 0 /\ \A j \in 1 .. Len(l) : l[j].addr % 8 = 0
  BY <1>4, <1>6 DEF IInv, HandoutsOK
<1>8. Region \in 1 .. Len(regions)
  <2>1. Covers(l, l[i].addr)
    BY <1>4, <1>6 DEF Covers
  <2>2. InRegion(l[i].addr)
    BY <1>6, <2>1 DEF IInv, Tiles
  <2> QED
    BY <1>3, <2>2, EmptySeq DEF InRegion
<1> HIDE DEF s
<1>9. /\ h.region = Region /\ h.addr = l[i].addr /\ h.size = s /\ h.asked = n
      /\ h \in Handouts
  BY <1>1, <1>2, <1>6, <1>8 DEF Handed, Handouts
<1> HIDE DEF h, l
<1>10. \A x \in Int : Within(h, x) <=> l[i].addr <= x /\ x < l[i].addr + 16 + s
  BY <1>9 DEF Within, EndOf, Header
<1>11. \A x \in Int : Within(h, x) => Covers(l, x)
  <2> SUFFICES ASSUME NEW x \in Int, Within(h, x) PROVE Covers(l, x)
    OBVIOUS
  <2>1. l[i].addr <= x /\ x < l[i].addr + 16 + s
    BY <1>10
  <2>2. Within(l[i], x)
    BY <2>1, <1>2, <1>5, <1>6 DEF Within
  <2> QED
    BY <2>2, <1>4, <1>6 DEF Covers
<1>12. \A j \in DOMAIN free_list' : free_list'[j].addr % 8 = 0
  <2> SUFFICES ASSUME NEW j \in DOMAIN free_list'
               PROVE  free_list'[j].addr % 8 = 0
    OBVIOUS
  <2>1. j \in 1 .. Len(l)
    BY <1>5, LenProperties
  <2>2. CASE j = i
    <3>1. free_list'[j].addr = l[i].addr + 16 + s
      BY <2>2, <1>5 DEF Rest, Block, Header
    <3>2. l[i].addr \in Nat /\ l[i].addr % 8 = 0 /\ s \in Nat /\ s % 8 = 0
      BY <1>2, <1>6, <1>7
    <3>3. (l[i].addr + 16 + s) % 8 = 0
      BY <3>2, AlignmentFacts
    <3> QED
      BY <3>1, <3>3
  <2>3. CASE j # i
    BY <2>1, <2>3, <1>5, <1>7
  <2> QED
    BY <2>2, <2>3
<1>13. live' = live \cup {h}
  BY <1>1 DEF h, l, s
<1>14. h.addr % 8 = 0 /\ 0 < n /\ n <= h.size
  BY <1>1, <1>2, <1>7, <1>9
<1>15. \A x \in Int : Covers(free_list', x) <=> Covers(l, x) /\ ~Within(h, x)
  BY <1>5, <1>10
<1>16. UNCHANGED <<regions, mem_start, m_error, coalescing>>
  BY <1>1
<1>17. i \in 1 .. Len(free_list) /\ l = free_list
  BY <1>4 DEF l
<1> QED
  BY <1>5, <1>9, <1>11, <1>12, <1>13, <1>14, <1>15, <1>16, <1>17

LEMMA AllocFitsPreserves ==
  ASSUME IInv, NEW n \in Int, AllocFits(n)
  PROVE  IInv'
<1>1. PICK h \in Handouts :
         /\ h.region = Region
         /\ h.addr % 8 = 0 /\ h.asked = n /\ 0 < n /\ n <= h.size
         /\ live' = live \cup {h}
         /\ free_list' \in Seq(BlocksOf(Region)) /\ Sorted(free_list')
         /\ \A x \in Int : Within(h, x) => Covers(free_list, x)
         /\ \A x \in Int : Covers(free_list', x) <=>
               Covers(free_list, x) /\ ~Within(h, x)
         /\ \A j \in Int : Touch(free_list', j) => Touch(free_list, j)
         /\ \A j \in DOMAIN free_list' : free_list'[j].addr % 8 = 0
         /\ UNCHANGED <<regions, mem_start, m_error, coalescing>>
  BY AllocFitsFacts
<1>2. Region' = Region
  BY <1>1 DEF Region
<1>3. ListOK'
  BY <1>1, <1>2 DEF ListOK
<1>4. Here' = Here \cup {h}
  BY <1>1, <1>2 DEF Here
<1>5. Tiles'
  <2> SUFFICES ASSUME NEW x \in Int
               PROVE  /\ InRegion(x) <=> Covers(free_list', x) \/ \E b \in Here' : Within(b, x)
                      /\ \A b \in Here' : Within(b, x) => ~Covers(free_list', x)
    BY <1>1, <1>2 DEF Tiles, InRegion
  <2>1. /\ InRegion(x) <=> Covers(free_list, x) \/ \E b \in Here : Within(b, x)
        /\ \A b \in Here : Within(b, x) => ~Covers(free_list, x)
    BY DEF IInv, Tiles
  <2> QED
    BY <1>1, <1>4, <2>1
<1>6. LiveApart'
  <2>1. \A x \in Int, b \in live : b.region = h.region => ~(Within(b, x) /\ Within(h, x))
    <3> SUFFICES ASSUME NEW x \in Int, NEW b \in live, b.region = h.region,
                        Within(b, x), Within(h, x)
                 PROVE  FALSE
      OBVIOUS
    <3>1. b \in Here
      BY <1>1 DEF Here
    <3> QED
      BY <1>1, <3>1 DEF IInv, Tiles
  <2>2. \A x \in Int, b, c \in live :
           b.region = c.region /\ Within(b, x) /\ Within(c, x) => b = c
    BY DEF IInv, LiveApart
  <2> QED
    BY <1>1, <2>1, <2>2 DEF LiveApart
<1>7. HandoutsOK'
  BY <1>1 DEF IInv, HandoutsOK
<1>8. FreeListCoalesced'
  <2> SUFFICES ASSUME coalescing', NEW j \in 1 .. Len(free_list') - 1, Touch(free_list', j)
               PROVE  FALSE
    BY DEF FreeListCoalesced
  <2>1. coalescing /\ Touch(free_list, j)
    BY <1>1
  <2>2. j \in 1 .. Len(free_list) - 1
    <3>1. j \in DOMAIN free_list /\ j + 1 \in DOMAIN free_list
      BY <2>1 DEF Touch
    <3>2. DOMAIN free_list = 1 .. Len(free_list) /\ Len(free_list) \in Nat
      BY LenProperties DEF IInv, ListOK
    <3> QED
      BY <3>1, <3>2
  <2> QED
    BY <2>1, <2>2 DEF IInv, FreeListCoalesced
<1>9. TypeOK'
  <2>1. free_list' \in Seq(Blocks')
    <3>1. Region = Len(regions) /\ Region \in Nat /\ regions' = regions
      BY <1>1, LenProperties DEF IInv, TypeOK, Region
    <3>2. \A x \in Int : Covers(free_list', x) => regions # <<>>
      BY <1>1 DEF IInv, Tiles, InRegion
    <3>3. regions # <<>> => Region # 0
      BY <3>1, EmptySeq DEF IInv, TypeOK
    <3> QED
      BY <1>1, <3>1, <3>2, <3>3, FreeListType DEF Blocks
  <2>2. live' \subseteq Handouts'
    BY <1>1 DEF IInv, TypeOK, Handouts
  <2> QED
    BY <1>1, <1>2, <2>1, <2>2 DEF IInv, TypeOK
<1> QED
  BY <1>3, <1>5, <1>6, <1>7, <1>8, <1>9 DEF IInv

(* Inserting a block where it belongs, with and without coalescing.        *)
LEMMA CoalescedFacts ==
  ASSUME NEW r \in Nat, NEW l \in Seq(BlocksOf(r)), Sorted(l),
         NEW b \in BlocksOf(r), NEW k \in 1 .. Len(l) + 1,
         Belongs(l, k, b)
  PROVE  LET m == Merge(Merge(InsertAt(l, k, b), k), k - 1) IN
         /\ m \in Seq(BlocksOf(r))
         /\ Sorted(m)
         /\ \A x \in Int : Covers(m, x) <=> Covers(l, x) \/ Within(b, x)
         /\ (\A j \in 1 .. Len(l) - 1 : ~Touch(l, j)) =>
               \A j \in 1 .. Len(m) - 1 : ~Touch(m, j)
         /\ \A j \in DOMAIN m :
               m[j].addr = b.addr \/ \E i \in DOMAIN l : m[j].addr = l[i].addr
<1> DEFINE m1 == InsertAt(l, k, b)
           m2 == Merge(m1, k)
           m3 == Merge(m2, k - 1)
<1>1. /\ m1 \in Seq(BlocksOf(r)) /\ Sorted(m1)
      /\ \A x \in Int : Covers(m1, x) <=> Covers(l, x) \/ Within(b, x)
      /\ Len(m1) = Len(l) + 1
      /\ \A j \in 1 .. Len(l) : Touch(m1, j) =>
            j = k \/ j = k - 1 \/ (j < k /\ Touch(l, j)) \/ (j > k /\ Touch(l, j - 1))
      /\ \A j \in DOMAIN m1 :
            m1[j].addr = b.addr \/ \E i \in DOMAIN l : m1[j].addr = l[i].addr
  BY InsertFacts
<1> HIDE DEF m1
<1>k. Len(l) \in Nat /\ k \in Int /\ k - 1 \in Int
  BY LenProperties
<1>2. /\ m2 \in Seq(BlocksOf(r)) /\ Sorted(m2)
      /\ \A x \in Int : Covers(m2, x) <=> Covers(m1, x)
      /\ Touch(m1, k) =>
            \A j \in 1 .. Len(m2) - 1 : Touch(m2, j) =>
               (j < k /\ Touch(m1, j)) \/ (j >= k /\ Touch(m1, j + 1))
      /\ \A j \in DOMAIN m2 : \E p \in DOMAIN m1 : m2[j].addr = m1[p].addr
  BY <1>1, <1>k, MergeFacts
<1>3. ~Touch(m1, k) => m2 = m1
  BY DEF Merge
<1> HIDE DEF m2
<1>4. /\ m3 \in Seq(BlocksOf(r)) /\ Sorted(m3)
      /\ \A x \in Int : Covers(m3, x) <=> Covers(m2, x)
      /\ Touch(m2, k - 1) =>
            \A j \in 1 .. Len(m3) - 1 : Touch(m3, j) =>
               (j < k - 1 /\ Touch(m2, j)) \/ (j >= k - 1 /\ Touch(m2, j + 1))
      /\ \A j \in DOMAIN m3 : \E p \in DOMAIN m2 : m3[j].addr = m2[p].addr
  BY <1>2, <1>k, MergeFacts
<1>5. ~Touch(m2, k - 1) => m3 = m2
  BY DEF Merge
<1> HIDE DEF m3
<1>6. ASSUME \A j \in 1 .. Len(l) - 1 : ~Touch(l, j)
      PROVE  \A j \in 1 .. Len(m3) - 1 : ~Touch(m3, j)
  <2>1. \A j \in Int : ~Touch(l, j)
    <3>1. \A j \in Int : Touch(l, j) => j \in 1 .. Len(l) - 1
      <4>1. DOMAIN l = 1 .. Len(l)
        BY LenProperties
      <4> QED
        BY <4>1, <1>k DEF Touch
    <3> QED
      BY <1>6, <3>1
  <2>2. \A j \in Int : Touch(m1, j) => j = k \/ j = k - 1
    <3> SUFFICES ASSUME NEW j \in Int, Touch(m1, j) PROVE j = k \/ j = k - 1
      OBVIOUS
    <3>1. j \in 1 .. Len(l)
      <4>1. j \in DOMAIN m1 /\ j + 1 \in DOMAIN m1
        BY DEF Touch
      <4>2. DOMAIN m1 = 1 .. Len(l) + 1
        BY <1>1, LenProperties
      <4> QED
        BY <4>1, <4>2, <1>k
    <3>2. ~Touch(l, j) /\ ~Touch(l, j - 1)
      BY <2>1
    <3> QED
      BY <1>1, <3>1, <3>2
  <2>3. \A j \in 1 .. Len(m2) - 1 : Touch(m2, j) => j = k - 1
    <3> SUFFICES ASSUME NEW j \in 1 .. Len(m2) - 1, Touch(m2, j) PROVE j = k - 1
      OBVIOUS
    <3>j. j \in Int
      BY <1>2, LenProperties
    <3>1. CASE Touch(m1, k)
      <4>1. (j < k /\ Touch(m1, j)) \/ (j >= k /\ Touch(m1, j + 1))
        BY <3>1, <1>2
      <4>2. Touch(m1, j) => j = k \/ j = k - 1
        BY <2>2, <3>j
      <4>3. Touch(m1, j + 1) => j + 1 = k \/ j + 1 = k - 1
        BY <2>2, <3>j
      <4> QED
        BY <4>1, <4>2, <4>3, <1>k, <3>j
    <3>2. CASE ~Touch(m1, k)
      BY <3>2, <1>3, <2>2, <3>j
    <3> QED
      BY <3>1, <3>2
  <2>4. \A j \in Int : Touch(m2, j) => j \in 1 .. Len(m2) - 1
    <3>1. DOMAIN m2 = 1 .. Len(m2) /\ Len(m2) \in Nat
      BY <1>2, LenProperties
    <3> QED
      BY <3>1 DEF Touch
  <2> SUFFICES ASSUME NEW j \in 1 .. Len(m3) - 1, Touch(m3, j) PROVE FALSE
    OBVIOUS
  <2>j. j \in Int
    BY <1>4, LenProperties
  <2>5. CASE Touch(m2, k - 1)
    <3>1. (j < k - 1 /\ Touch(m2, j)) \/ (j >= k - 1 /\ Touch(m2, j + 1))
      BY <2>5, <1>4
    <3>2. Touch(m2, j) => j = k - 1
      BY <2>3, <2>4, <2>j
    <3>3. Touch(m2, j + 1) => j + 1 = k - 1
      BY <2>3, <2>4, <2>j
    <3> QED
      BY <3>1, <3>2, <3>3, <1>k, <2>j
  <2>6. CASE ~Touch(m2, k - 1)
    BY <2>6, <1>5, <2>3
  <2> QED
    BY <2>5, <2>6
<1>7. \A j \in DOMAIN m3 :
         m3[j].addr = b.addr \/ \E i \in DOMAIN l : m3[j].addr = l[i].addr
  <2> SUFFICES ASSUME NEW j \in DOMAIN m3
               PROVE  m3[j].addr = b.addr \/ \E i \in DOMAIN l : m3[j].addr = l[i].addr
    OBVIOUS
  <2>1. PICK p \in DOMAIN m2 : m3[j].addr = m2[p].addr
    BY <1>4
  <2>2. PICK q \in DOMAIN m1 : m2[p].addr = m1[q].addr
    BY <1>2
  <2> QED
    BY <1>1, <2>1, <2>2
<1>8. \A x \in Int : Covers(m3, x) <=> Covers(l, x) \/ Within(b, x)
  BY <1>1, <1>2, <1>4
<1> QED
  BY <1>4, <1>6, <1>7, <1>8 DEF m1, m2, m3

(* What an accepted Mem_Free does, in terms of bytes: those of the freed   *)
(* block become free.                                                      *)
LEMMA FreeAcceptedFacts ==
  ASSUME IInv, NEW b \in live, NEW coalesce \in BOOLEAN, FreeAccepted(b, coalesce)
  PROVE  /\ b \in Here
         /\ live' = live \ {b}
         /\ coalescing' = (coalescing /\ coalesce)
         /\ free_list' \in Seq(BlocksOf(Region)) /\ Sorted(free_list')
         /\ \A x \in Int : Covers(free_list', x) <=> Covers(free_list, x) \/ Within(b, x)
         /\ coalescing' => \A j \in 1 .. Len(free_list') - 1 : ~Touch(free_list', j)
         /\ \A j \in DOMAIN free_list' : free_list'[j].addr % 8 = 0
         /\ UNCHANGED <<regions, mem_start, m_error>>
<1> DEFINE c == Block(b.region, b.addr, b.size)
           l == free_list
<1>1. /\ Region = Len(regions) /\ Region \in Nat
      /\ l \in Seq(BlocksOf(Region)) /\ Sorted(l)
      /\ DOMAIN l = 1 .. Len(l)
  BY LenProperties DEF IInv, TypeOK, ListOK, Region
<1>2. /\ b.region \in 1 .. Len(regions) /\ b.addr \in Nat
      /\ c \in BlocksOf(b.region)
      /\ \A x : Within(c, x) <=> Within(b, x)
  BY HandoutFacts DEF IInv
<1>3. b.region = Region /\ b \in Here
  <2>1. b.region = mem_start
    BY DEF FreeAccepted
  <2>2. mem_start \in {0, -1, Region}
    BY DEF IInv, TypeOK, NoRegion, MapFailed
  <2> QED
    BY <2>1, <2>2, <1>1, <1>2 DEF Here
<1>4. c \in BlocksOf(Region) /\ c.addr = b.addr
  BY <1>2, <1>3 DEF Block
<1>5. \A x \in Int : Within(c, x) => ~Covers(l, x)
  BY <1>2, <1>3 DEF IInv, Tiles
<1>6. PICK k \in 1 .. Len(l) + 1 :
         /\ IsPlace(k, b)
         /\ free_list' = IF coalesce THEN Coalesced(k, b) ELSE Inserted(k, b)
  BY DEF FreeAccepted
<1>7. k \in 1 .. Len(l) + 1 /\ Belongs(l, k, c)
  BY <1>4, <1>5, <1>6 DEF IsPlace, Belongs
<1>8. /\ Inserted(k, b) = InsertAt(l, k, c)
      /\ Coalesced(k, b) = Merge(Merge(InsertAt(l, k, c), k), k - 1)
  BY DEF Inserted, Coalesced
<1> HIDE DEF c, l
<1>9. /\ free_list' \in Seq(BlocksOf(Region)) /\ Sorted(free_list')
      /\ \A x \in Int : Covers(free_list', x) <=> Covers(l, x) \/ Within(c, x)
      /\ coalesce /\ (\A j \in 1 .. Len(l) - 1 : ~Touch(l, j)) =>
            \A j \in 1 .. Len(free_list') - 1 : ~Touch(free_list', j)
      /\ \A j \in DOMAIN free_list' :
            free_list'[j].addr = c.addr \/ \E i \in DOMAIN l : free_list'[j].addr = l[i].addr
  <2>1. CASE coalesce
    <3> DEFINE m == Merge(Merge(InsertAt(l, k, c), k), k - 1)
    <3> DEFINE R == Region
    <3>0. /\ R \in Nat /\ l \in Seq(BlocksOf(R)) /\ Sorted(l)
          /\ c \in BlocksOf(R) /\ k \in 1 .. Len(l) + 1 /\ Belongs(l, k, c)
      BY <1>1, <1>4, <1>7
    <3> HIDE DEF R
    <3>1. /\ m \in Seq(BlocksOf(R))
          /\ Sorted(m)
          /\ \A x \in Int : Covers(m, x) <=> Covers(l, x) \/ Within(c, x)
          /\ (\A j \in 1 .. Len(l) - 1 : ~Touch(l, j)) =>
                \A j \in 1 .. Len(m) - 1 : ~Touch(m, j)
          /\ \A j \in DOMAIN m :
                m[j].addr = c.addr \/ \E i \in DOMAIN l : m[j].addr = l[i].addr
      BY <3>0, CoalescedFacts
    <3>2. free_list' = m
      BY <2>1, <1>6, <1>8
    <3> HIDE DEF m
    <3> QED
      BY <3>1, <3>2 DEF R
  <2>2. CASE ~coalesce
    <3> DEFINE m == InsertAt(l, k, c)
    <3> DEFINE R == Region
    <3>0. /\ R \in Nat /\ l \in Seq(BlocksOf(R)) /\ Sorted(l)
          /\ c \in BlocksOf(R) /\ k \in 1 .. Len(l) + 1 /\ Belongs(l, k, c)
      BY <1>1, <1>4, <1>7
    <3> HIDE DEF R
    <3>1. /\ m \in Seq(BlocksOf(R))
          /\ Sorted(m)
          /\ \A x \in Int : Covers(m, x) <=> Covers(l, x) \/ Within(c, x)
          /\ \A j \in DOMAIN m :
                m[j].addr = c.addr \/ \E i \in DOMAIN l : m[j].addr = l[i].addr
      BY <3>0, InsertFacts
    <3>2. free_list' = m
      BY <2>2, <1>6, <1>8
    <3> HIDE DEF m
    <3> QED
      BY <2>2, <3>1, <3>2 DEF R
  <2> QED
    BY <2>1, <2>2
<1>10. /\ live' = live \ {b} /\ coalescing' = (coalescing /\ coalesce)
       /\ UNCHANGED <<regions, mem_start, m_error>>
  BY DEF FreeAccepted
<1>11. coalescing' => \A j \in 1 .. Len(free_list') - 1 : ~Touch(free_list', j)
  <2>1. coalescing => \A j \in 1 .. Len(l) - 1 : ~Touch(l, j)
    BY DEF IInv, FreeListCoalesced, l
  <2> QED
    BY <2>1, <1>9, <1>10
<1>12. \A j \in DOMAIN free_list' : free_list'[j].addr % 8 = 0
  <2>1. c.addr % 8 = 0 /\ \A i \in DOMAIN l : l[i].addr % 8 = 0
    BY <1>4 DEF IInv, HandoutsOK, l
  <2> QED
    BY <2>1, <1>9
<1>13. \A x \in Int : Covers(free_list', x) <=> Covers(free_list, x) \/ Within(b, x)
  BY <1>2, <1>9 DEF l
<1> QED
  BY <1>3, <1>9, <1>10, <1>11, <1>12, <1>13

LEMMA FreeAcceptedPreserves ==
  ASSUME IInv, NEW b \in live, NEW coalesce \in BOOLEAN, FreeAccepted(b, coalesce)
  PROVE  IInv'
<1>1. /\ b \in Here
      /\ live' = live \ {b}
      /\ coalescing' = (coalescing /\ coalesce)
      /\ free_list' \in Seq(BlocksOf(Region)) /\ Sorted(free_list')
      /\ \A x \in Int : Covers(free_list', x) <=> Covers(free_list, x) \/ Within(b, x)
      /\ coalescing' => \A j \in 1 .. Len(free_list') - 1 : ~Touch(free_list', j)
      /\ \A j \in DOMAIN free_list' : free_list'[j].addr % 8 = 0
      /\ UNCHANGED <<regions, mem_start, m_error>>
  BY FreeAcceptedFacts
<1>2. Region' = Region
  BY <1>1 DEF Region
<1>3. ListOK'
  BY <1>1, <1>2 DEF ListOK
<1>4. Here' = Here \ {b}
  BY <1>1, <1>2 DEF Here
<1>5. Tiles'
  <2> SUFFICES ASSUME NEW x \in Int
               PROVE  /\ InRegion(x) <=> Covers(free_list', x) \/ \E c \in Here' : Within(c, x)
                      /\ \A c \in Here' : Within(c, x) => ~Covers(free_list', x)
    BY <1>1, <1>2 DEF Tiles, InRegion
  <2>1. /\ InRegion(x) <=> Covers(free_list, x) \/ \E c \in Here : Within(c, x)
        /\ \A c \in Here : Within(c, x) => ~Covers(free_list, x)
    BY DEF IInv, Tiles
  <2>2. \A c \in Here' : ~(Within(b, x) /\ Within(c, x))
    BY <1>1, <1>4 DEF IInv, LiveApart, Here
  <2>3. Covers(free_list', x) <=> Covers(free_list, x) \/ Within(b, x)
    BY <1>1
  <2> QED
    BY <1>1, <1>4, <2>1, <2>2, <2>3
<1>6. LiveApart' /\ HandoutsOK'
  BY <1>1 DEF IInv, LiveApart, HandoutsOK
<1>7. FreeListCoalesced'
  BY <1>1 DEF FreeListCoalesced
<1>8. TypeOK'
  <2>1. free_list' \in Seq(Blocks')
    <3>1. Region = Len(regions) /\ Region \in Nat /\ regions' = regions
      BY <1>1, LenProperties DEF IInv, TypeOK, Region
    <3>2. \A x \in Int : Covers(free_list', x) => regions # <<>>
      BY <1>1 DEF IInv, Tiles, InRegion
    <3>3. regions # <<>> => Region # 0
      BY <3>1, EmptySeq DEF IInv, TypeOK
    <3> QED
      BY <1>1, <3>1, <3>2, <3>3, FreeListType DEF Blocks
  <2>2. live' \subseteq Handouts'
    BY <1>1 DEF IInv, TypeOK, Handouts
  <2>3. coalescing' \in BOOLEAN
    BY <1>1 DEF IInv, TypeOK
  <2> QED
    BY <1>1, <1>2, <2>1, <2>2, <2>3 DEF IInv, TypeOK
<1> QED
  BY <1>3, <1>5, <1>6, <1>7, <1>8 DEF IInv

LEMMA NextPreservesIInv == IInv /\ [Next]_vars => IInv'
<1> SUFFICES ASSUME IInv, [Next]_vars PROVE IInv'
  OBVIOUS
<1>1. /\ mem_start \in {NoRegion, MapFailed, Region}
      /\ m_error \in {"none", "E_NO_SPACE", "E_BAD_ARGS", "E_BAD_POINTER"}
  BY DEF IInv, TypeOK
<1>2. CASE Mem_Init
  <2>1. PICK n \in RegionSizes : InitMaps(n) \/ InitMapFails(n) \/ InitBadArgs(n)
    BY <1>2 DEF Mem_Init
  <2>2. n \in Int
    BY SizesAssumption
  <2>3. CASE InitMaps(n)
    BY <2>2, <2>3, InitMapsPreserves
  <2>4. CASE InitMapFails(n)
    BY <2>4, BlocksKeptFacts DEF InitMapFails
  <2>5. CASE InitBadArgs(n)
    BY <1>1, <2>5, BlocksKeptFacts DEF InitBadArgs
  <2> QED
    BY <2>1, <2>3, <2>4, <2>5
<1>3. CASE Mem_Alloc
  <2>1. PICK n \in AllocSizes : AllocFits(n) \/ AllocNoSpace(n) \/ AllocBadArgs(n)
    BY <1>3 DEF Mem_Alloc
  <2>2. n \in Int
    BY SizesAssumption
  <2>3. CASE AllocFits(n)
    BY <2>2, <2>3, AllocFitsPreserves
  <2>4. CASE AllocNoSpace(n)
    BY <1>1, <2>4, BlocksKeptFacts DEF AllocNoSpace
  <2>5. CASE AllocBadArgs(n)
    BY <1>1, <2>5, BlocksKeptFacts DEF AllocBadArgs
  <2> QED
    BY <2>1, <2>3, <2>4, <2>5
<1>4. CASE Mem_Free
  <2>1. PICK b \in live : \/ \E coalesce \in BOOLEAN : FreeAccepted(b, coalesce)
                         \/ FreeRejected(b)
    BY <1>4 DEF Mem_Free
  <2>2. CASE \E coalesce \in BOOLEAN : FreeAccepted(b, coalesce)
    BY <2>1, <2>2, FreeAcceptedPreserves
  <2>3. CASE FreeRejected(b)
    BY <1>1, <2>3, BlocksKeptFacts DEF FreeRejected
  <2> QED
    BY <2>1, <2>2, <2>3
<1>5. CASE UNCHANGED vars
  BY <1>1, <1>5, BlocksKeptFacts DEF vars
<1> QED
  BY <1>2, <1>3, <1>4, <1>5 DEF Next

THEOREM Invariance == Spec => []IInv
<1>1. Init => IInv
  BY InitEstablishesIInv
<1>2. IInv /\ [Next]_vars => IInv'
  BY NextPreservesIInv
<1> QED
  BY <1>1, <1>2, PTL DEF Spec

-----------------------------------------------------------------------------

(* Mem_Init, Mem_Alloc and Mem_Free keep every variable in its type: no    *)
(* free block is ever cut below size 0.                                    *)
THEOREM TypeCorrect == Spec => []TypeOK
<1>1. IInv => TypeOK
  BY DEF IInv
<1> QED
  BY <1>1, Invariance, PTL

(* Mem_Free's walk to the first block not before the freed one keeps the   *)
(* free list in address order and its blocks apart.                        *)
THEOREM StaysSorted == Spec => []FreeListSorted
<1>1. IInv => FreeListSorted
  <2> SUFFICES ASSUME IInv PROVE FreeListSorted
    OBVIOUS
  <2>1. \A i \in DOMAIN free_list : free_list[i].region = Region
    BY ListFacts DEF IInv, ListOK
  <2> QED
    BY <2>1 DEF IInv, ListOK, Sorted, FreeListSorted
<1> QED
  BY <1>1, Invariance, PTL

(* Every byte of the region mapped last is in exactly one block, whatever  *)
(* the sequence of Mem_Alloc and Mem_Free.                                 *)
THEOREM NothingLeaks == Spec => []BlocksTile
<1>1. IInv => BlocksTile
  <2> SUFFICES ASSUME IInv, regions # <<>>,
                      NEW x \in 0 .. regions[Region] + Header - 1
               PROVE  /\ FreeAt(x) \/ \E b \in Here : Within(b, x)
                      /\ \A b \in Here : Within(b, x) =>
                            ~FreeAt(x) /\ \A c \in Here : Within(c, x) => c = b
    BY DEF BlocksTile
  <2>1. FreeAt(x) <=> Covers(free_list, x)
    BY DEF FreeAt, Covers
  <2>2. regions[Region] \in Nat
    <3>1. Region \in 1 .. Len(regions)
      BY EmptySeq, LenProperties DEF IInv, TypeOK, Region
    <3> QED
      BY <3>1, ElementOfSeq DEF IInv, TypeOK
  <2>3. x \in Int /\ InRegion(x)
    BY <2>2 DEF InRegion, Header
  <2>4. /\ Covers(free_list, x) \/ \E b \in Here : Within(b, x)
        /\ \A b \in Here : Within(b, x) => ~Covers(free_list, x)
    BY <2>3 DEF IInv, Tiles
  <2>5. \A b, c \in Here : Within(b, x) /\ Within(c, x) => c = b
    BY <2>3 DEF IInv, LiveApart, Here
  <2> QED
    BY <2>1, <2>4, <2>5
<1> QED
  BY <1>1, Invariance, PTL

(* A coalescing Mem_Free that looks only at the blocks around the freed    *)
(* one never leaves two neighbours in the list.                            *)
THEOREM StaysCoalesced == Spec => []FreeListCoalesced
<1>1. IInv => FreeListCoalesced
  BY DEF IInv
<1> QED
  BY <1>1, Invariance, PTL

(* Once all is freed with coalescing, the region is one free block again.  *)
THEOREM EverythingComesBack == Spec => []RegionRecovers
<1>1. IInv => RegionRecovers
  <2> SUFFICES ASSUME IInv, coalescing, Here = {}, regions # <<>>
               PROVE  free_list = <<Block(Region, 0, regions[Region])>>
    BY DEF RegionRecovers
  <2> DEFINE T == regions[Region] + 16
             l == free_list
             N == Len(l)
  <2>1. Region \in 1 .. Len(regions) /\ regions[Region] \in Nat
    <3>1. Region \in 1 .. Len(regions)
      BY EmptySeq, LenProperties DEF IInv, TypeOK, Region
    <3> QED
      BY <3>1, ElementOfSeq DEF IInv, TypeOK
  <2>2. \A x \in Int : 0 <= x /\ x < T <=> \E i \in 1 .. N : Within(l[i], x)
    <3>1. \A x \in Int : InRegion(x) <=> Covers(l, x)
      BY DEF IInv, Tiles
    <3>2. DOMAIN l = 1 .. N
      BY ListFacts DEF IInv, ListOK
    <3> QED
      BY <3>1, <3>2 DEF InRegion, Covers, Header
  <2>3. /\ N \in Nat /\ DOMAIN l = 1 .. N
        /\ \A i \in 1 .. N :
              /\ l[i] \in BlocksOf(Region)
              /\ l[i].region = Region /\ l[i].addr \in Nat /\ l[i].size \in Nat
              /\ EndOf(l[i]) \in Nat /\ EndOf(l[i]) = l[i].addr + 16 + l[i].size
              /\ l[i].addr < EndOf(l[i])
              /\ Within(l[i], l[i].addr)
    BY ListFacts DEF IInv, ListOK
  <2>4. \A i, j \in 1 .. N : i < j => EndOf(l[i]) <= l[j].addr
    BY <2>3 DEF IInv, ListOK, Sorted
  <2>5. \A i \in 1 .. N : i + 1 \in 1 .. N => EndOf(l[i]) # l[i + 1].addr
    <3> SUFFICES ASSUME NEW i \in 1 .. N, i + 1 \in 1 .. N PROVE ~(EndOf(l[i]) = l[i + 1].addr)
      OBVIOUS
    <3>1. i \in 1 .. N - 1
      BY <2>3
    <3> QED
      BY <2>3, <3>1 DEF IInv, FreeListCoalesced, Touch
  <2> HIDE DEF l, N
  <2>6. T \in Nat /\ T >= 16
    BY <2>1
  <2> HIDE DEF T
  <2>7. PICK i \in 1 .. N : Within(l[i], 0)
    BY <2>2, <2>6
  <2>8. l[i].addr = 0
    BY <2>3, <2>7 DEF Within
  <2>9. i = 1
    <3> SUFFICES ASSUME 1 < i PROVE FALSE
      BY <2>3
    <3>1. 1 \in 1 .. N /\ EndOf(l[1]) <= l[i].addr
      BY <2>3, <2>4
    <3>2. EndOf(l[1]) \in Nat /\ l[1].addr \in Nat /\ l[1].addr < EndOf(l[1])
      BY <2>3, <3>1
    <3> QED
      BY <2>8, <3>1, <3>2
  <2> DEFINE e == EndOf(l[1])
  <2>10. 1 \in 1 .. N /\ l[1].addr = 0 /\ e \in Nat /\ e > 0
    BY <2>3, <2>7, <2>8, <2>9
  <2>11. N = 1
    <3> SUFFICES ASSUME 2 <= N PROVE FALSE
      BY <2>3, <2>10
    <3>1. 2 \in 1 .. N /\ e <= l[2].addr /\ l[2].addr \in Nat /\ 1 + 1 = 2
      BY <2>3, <2>4, <2>10
    <3>2. e # l[2].addr
      BY <2>5, <2>10, <3>1
    <3>3. e < l[2].addr
      BY <2>10, <3>1, <3>2
    <3>4. l[2].addr < T
      BY <2>2, <2>3, <3>1
    <3>5. PICK j \in 1 .. N : Within(l[j], e)
      BY <2>2, <2>6, <2>10, <3>1, <3>3, <3>4
    <3>6. l[j].addr <= e /\ e < EndOf(l[j]) /\ l[j].addr \in Nat
      BY <2>3, <3>5 DEF Within
    <3>7. CASE j = 1
      BY <2>10, <3>6, <3>7
    <3>8. CASE j = 2
      BY <2>10, <3>1, <3>3, <3>6, <3>8
    <3>9. CASE 2 < j
      <4>1. EndOf(l[2]) <= l[j].addr
        BY <2>4, <3>1, <3>9
      <4>2. EndOf(l[2]) \in Nat /\ l[2].addr < EndOf(l[2])
        BY <2>3, <3>1
      <4> QED
        BY <2>10, <3>1, <3>3, <3>6, <4>1, <4>2
    <3> QED
      BY <2>3, <3>7, <3>8, <3>9
  <2>12. e = T
    <3>1. \A x \in Int : 0 <= x /\ x < T <=> Within(l[1], x)
      BY <2>2, <2>11
    <3>2. \A x \in Int : 0 <= x /\ x < T <=> 0 <= x /\ x < e
      BY <3>1, <2>10 DEF Within
    <3>3. ~(e < T)
      BY <3>2, <2>10, <2>6
    <3>4. ~(T < e)
      BY <3>2, <2>10, <2>6
    <3> QED
      BY <3>3, <3>4, <2>6, <2>10
  <2>13. l[1] = Block(Region, 0, regions[Region])
    <3>1. /\ l[1] \in BlocksOf(Region) /\ l[1].region = Region /\ l[1].addr = 0
          /\ l[1].size \in Nat /\ e = 0 + 16 + l[1].size
      BY <2>3, <2>10
    <3>2. l[1].size = regions[Region]
      BY <2>1, <2>12, <3>1 DEF T
    <3> HIDE DEF e
    <3> QED
      BY <3>1, <3>2 DEF BlocksOf, Block
  <2>14. l = <<l[1]>>
    <3>1. l \in Seq(BlocksOf(Region)) /\ Len(l) = 1
      BY <2>11 DEF IInv, ListOK, l, N
    <3>2. <<l[1]>> \in Seq(BlocksOf(Region)) /\ Len(<<l[1]>>) = 1 /\ <<l[1]>>[1] = l[1]
      BY <2>3, <2>10
    <3> QED
      BY <3>1, <3>2, SeqEqual
  <2> QED
    BY <2>13, <2>14 DEF l
<1> QED
  BY <1>1, Invariance, PTL

-----------------------------------------------------------------------------
(***************************************************************************)
(* Mem implements Heap.                                                    *)
(***************************************************************************)
Piece(b) == [region |-> b.region, at |-> b.addr + Header, len |-> b.asked]

Arenas == [r \in DOMAIN regions |-> regions[r] + Header]

Held == {Piece(b) : b \in live}

(* The pieces of two handed out blocks are two pieces.                     *)
LEMMA PiecesDiffer ==
  ASSUME TypeOK, LiveApart, NEW b \in live, NEW c \in live, Piece(b) = Piece(c)
  PROVE  b = c
<1>1. /\ b.region \in 1 .. Len(regions) /\ b.addr \in Nat /\ b.size \in Nat
      /\ c.addr \in Nat /\ c.size \in Nat
      /\ EndOf(b) = b.addr + 16 + b.size /\ EndOf(c) = c.addr + 16 + c.size
  BY HandoutFacts
<1>2. b.region = c.region /\ b.addr + 16 = c.addr + 16
  BY DEF Piece, Header
<1>3. b.addr = c.addr
  BY <1>1, <1>2
<1>4. Within(b, b.addr) /\ Within(c, b.addr)
  BY <1>1, <1>3 DEF Within
<1> QED
  BY <1>1, <1>2, <1>4 DEF LiveApart

(* The bytes of a piece, with the header in front of it, are the block's.  *)
LEMMA PieceBytes ==
  ASSUME NEW b, b.addr \in Nat, b.size \in Nat, b.asked \in Nat, b.asked <= b.size
  PROVE  \A x \in Promise!Interval(Piece(b)) : x \in Int /\ Within(b, x)
<1> SUFFICES ASSUME NEW x \in Promise!Interval(Piece(b))
             PROVE  x \in Int /\ Within(b, x)
  OBVIOUS
<1>1. Piece(b).at = b.addr + 16 /\ Piece(b).len = b.asked
  BY DEF Piece, Header
<1>2. x \in (b.addr + 16) - 16 .. (b.addr + 16) + b.asked - 1
  BY <1>1 DEF Promise!Interval, Header
<1>3. x \in Int /\ b.addr <= x /\ x < b.addr + 16 + b.asked
  BY <1>2
<1>4. x < b.addr + 16 + b.size
  BY <1>3
<1> QED
  BY <1>3, <1>4 DEF Within, EndOf, Header

LEMMA LastByte ==
  ASSUME NEW a \in Nat, NEW z \in Nat
  PROVE  LET x == a + 16 + z - 1 IN
         /\ x \in Int /\ a <= x /\ x < a + 16 + z
         /\ \A n, t \in Int : n <= z /\ x < t => a + 16 + n <= t
OBVIOUS

LEMMA AllocateImplements ==
  ASSUME IInv, IInv', NEW n \in Int, AllocFits(n)
  PROVE  Promise!Allocate
<1>1. PICK i \in 1 .. Len(free_list), h \in Handouts :
         /\ h.region = Region
         /\ h.addr % 8 = 0 /\ h.asked = n /\ 0 < n /\ n <= h.size
         /\ live' = live \cup {h}
         /\ \A x \in Int : Within(h, x) => Covers(free_list, x)
         /\ UNCHANGED regions
  BY AllocFitsFacts
<1>2. /\ h.region \in 1 .. Len(regions) /\ h.addr \in Nat /\ h.size \in Nat
      /\ h.asked \in Nat /\ EndOf(h) = h.addr + 16 + h.size
  BY DEF Handouts, EndOf, Header
<1>3. /\ regions \in Seq(Nat) /\ DOMAIN regions = 1 .. Len(regions)
      /\ Region \in 1 .. Len(regions) /\ regions[Region] \in Nat
  <2>1. regions \in Seq(Nat)
    BY DEF IInv, TypeOK
  <2> QED
    BY <1>1, <1>2, <2>1, LenProperties, ElementOfSeq
<1> DEFINE new == Piece(h)
<1>4. Held' = Held \cup {new} /\ new \in Held' /\ Arenas' = Arenas
  BY <1>1 DEF Held, Arenas, Piece
<1>5. new.region = Region /\ new.at = h.addr + 16 /\ new.len = n
  BY <1>1 DEF Piece, Header
<1>6. new.at % 8 = 0 /\ new.len > 0 /\ new.at >= 16
  <2>1. (h.addr + 16 + 0) % 8 = 0
    BY <1>1, <1>2, AlignmentFacts
  <2>2. h.addr + 16 + 0 = h.addr + 16
    BY <1>2
  <2> QED
    BY <1>1, <1>2, <1>5, <2>1, <2>2
<1>7. new.region \in DOMAIN Arenas /\ new.at + new.len <= Arenas[new.region]
  <2>1. Arenas[Region] = regions[Region] + 16 /\ Region \in DOMAIN Arenas
    BY <1>3 DEF Arenas, Header
  <2> DEFINE last == h.addr + 16 + h.size - 1
  <2>0. /\ last \in Int /\ h.addr <= last /\ last < h.addr + 16 + h.size
        /\ \A m, t \in Int : m <= h.size /\ last < t => h.addr + 16 + m <= t
    <3>1. h.addr \in Nat /\ h.size \in Nat
      BY <1>2
    <3> QED
      BY <3>1, LastByte
  <2> HIDE DEF last
  <2>2. last \in Int /\ Within(h, last)
    BY <2>0, <1>2 DEF Within
  <2>3. InRegion(last)
    BY <1>1, <2>2 DEF IInv, Tiles
  <2>4. last < regions[Region] + 16
    BY <2>3 DEF InRegion, Header
  <2>5. h.addr + 16 + n <= regions[Region] + 16
    <3>1. regions[Region] + 16 \in Int /\ n <= h.size
      BY <1>1, <1>3
    <3> QED
      BY <2>0, <2>4, <3>1
  <2> QED
    BY <1>5, <2>1, <2>5
<1>8. \A old \in Held : ~Promise!Overlap(old, new)
  <2> SUFFICES ASSUME NEW b \in live, Promise!Overlap(Piece(b), new) PROVE FALSE
    BY DEF Held
  <2>1. /\ b.region = h.region
        /\ \E x : x \in Promise!Interval(Piece(b)) /\ x \in Promise!Interval(new)
    BY DEF Promise!Overlap, Piece
  <2>2. PICK x : x \in Promise!Interval(Piece(b)) /\ x \in Promise!Interval(new)
    BY <2>1
  <2>3. x \in Int /\ Within(b, x)
    <3>1. b.addr \in Nat /\ b.size \in Nat /\ b.asked \in Nat
      BY HandoutFacts DEF IInv
    <3>2. b.asked <= b.size
      BY DEF IInv, HandoutsOK
    <3> QED
      BY <2>2, <3>1, <3>2, PieceBytes
  <2>4. Within(h, x)
    BY <1>1, <1>2, <2>2, PieceBytes
  <2>5. b \in Here
    BY <1>1, <2>1 DEF Here
  <2> QED
    BY <1>1, <2>3, <2>4, <2>5 DEF IInv, Tiles
<1> HIDE DEF new
<1>9. /\ UNCHANGED Arenas
      /\ \E p \in Held' :
            /\ Held' = Held \cup {p}
            /\ p.region \in DOMAIN Arenas
            /\ p.at % 8 = 0
            /\ p.len > 0
            /\ p.at >= 16
            /\ p.at + p.len <= Arenas[p.region]
            /\ \A old \in Held : ~Promise!Overlap(old, p)
  BY <1>4, <1>6, <1>7, <1>8
<1> QED
  BY <1>9 DEF Promise!Allocate, Arenas, Held, Piece, Header

LEMMA ReleaseImplements ==
  ASSUME IInv, NEW b \in live, NEW coalesce \in BOOLEAN, FreeAccepted(b, coalesce)
  PROVE  Promise!Release
<1>1. live' = live \ {b} /\ UNCHANGED regions
  BY DEF FreeAccepted
<1>2. \A c \in live : Piece(c) = Piece(b) => c = b
  BY PiecesDiffer DEF IInv
<1>3. Held' = Held \ {Piece(b)}
  BY <1>1, <1>2 DEF Held, Piece
<1>4. Arenas' = Arenas /\ Piece(b) \in Held
  BY <1>1 DEF Arenas, Held
<1> QED
  BY <1>3, <1>4 DEF Promise!Release, Arenas, Held, Piece

LEMMA MapImplements ==
  ASSUME IInv, NEW n \in Int, InitMaps(n)
  PROVE  Promise!Map
<1>1. n \in Nat /\ regions' = Append(regions, n) /\ live' = live
  BY DEF InitMaps
<1>2. /\ regions \in Seq(Nat) /\ Len(regions) \in Nat
      /\ DOMAIN regions = 1 .. Len(regions)
      /\ \A r \in 1 .. Len(regions) : regions[r] \in Nat
  BY LenProperties, ElementOfSeq DEF IInv, TypeOK
<1>3. /\ regions' \in Seq(Nat) /\ Len(regions') = Len(regions) + 1
      /\ DOMAIN regions' = 1 .. Len(regions) + 1
      /\ \A r \in 1 .. Len(regions) : regions'[r] = regions[r]
      /\ regions'[Len(regions) + 1] = n
  <2>1. /\ Append(regions, n) \in Seq(Nat)
        /\ Len(Append(regions, n)) = Len(regions) + 1
        /\ \A r \in 1 .. Len(regions) : Append(regions, n)[r] = regions[r]
        /\ Append(regions, n)[Len(regions) + 1] = n
    BY <1>1, <1>2, AppendProperties
  <2> QED
    BY <1>1, <2>1, LenProperties
<1>4. /\ Arenas \in Seq(Nat) /\ Len(Arenas) = Len(regions)
      /\ \A r \in 1 .. Len(regions) : Arenas[r] = regions[r] + 16
  <2>1. Arenas \in [1 .. Len(regions) -> Nat]
    BY <1>2 DEF Arenas, Header
  <2> QED
    BY <1>2, <2>1, SeqDef, LenProperties DEF Arenas, Header
<1>5. /\ Arenas' \in Seq(Nat) /\ Len(Arenas') = Len(regions) + 1
      /\ \A r \in 1 .. Len(regions) : Arenas'[r] = regions[r] + 16
  <2>1. \A r \in 1 .. Len(regions) + 1 : regions'[r] \in Nat
    BY <1>3, ElementOfSeq
  <2>2. Arenas' \in [1 .. Len(regions) + 1 -> Nat]
    BY <1>3, <2>1 DEF Arenas, Header
  <2>3. Len(regions) + 1 \in Nat
    BY <1>2
  <2> QED
    BY <1>2, <1>3, <2>2, <2>3, SeqDef, LenProperties DEF Arenas, Header
<1> HIDE DEF Arenas
<1>6. SubSeq(Arenas', 1, Len(Arenas)) = Arenas
  <2>1. /\ SubSeq(Arenas', 1, Len(regions)) \in Seq(Nat)
        /\ Len(SubSeq(Arenas', 1, Len(regions))) = Len(regions)
        /\ \A r \in 1 .. Len(regions) :
              SubSeq(Arenas', 1, Len(regions))[r] = Arenas'[r]
    <3>1. 1 \in 1 .. Len(Arenas') + 1 /\ Len(regions) \in 1 - 1 .. Len(Arenas')
      BY <1>2, <1>5
    <3> QED
      BY <1>2, <1>5, <3>1, SubSeqProperties, SMTT(30)
  <2> QED
    BY <1>4, <1>5, <2>1, SeqEqual
<1>7. Held' = Held
  BY <1>1 DEF Held, Piece
<1>8. Len(Arenas') = Len(Arenas) + 1
  BY <1>4, <1>5
<1> QED
  BY <1>6, <1>7, <1>8 DEF Promise!Map, Arenas, Held, Piece

(* Every step of the allocator is a step that Heap allows, or none.        *)
LEMMA StepImplements ==
  IInv /\ IInv' /\ [Next]_vars => [Promise!Next]_<<Arenas, Held>>
<1> SUFFICES ASSUME IInv, IInv', [Next]_vars
             PROVE  Promise!Next \/ UNCHANGED <<Arenas, Held>>
  OBVIOUS
<1>1. UNCHANGED <<regions, live>> => UNCHANGED <<Arenas, Held>>
  BY DEF Arenas, Held, Piece
<1>2. CASE Mem_Init
  <2>1. PICK n \in RegionSizes : InitMaps(n) \/ InitMapFails(n) \/ InitBadArgs(n)
    BY <1>2 DEF Mem_Init
  <2>2. n \in Int
    BY SizesAssumption
  <2>3. InitMaps(n) => Promise!Map
    BY <2>2, MapImplements
  <2>4. InitMapFails(n) \/ InitBadArgs(n) => UNCHANGED <<regions, live>>
    BY DEF InitMapFails, InitBadArgs
  <2> QED
    BY <1>1, <2>1, <2>3, <2>4 DEF Promise!Next
<1>3. CASE Mem_Alloc
  <2>1. PICK n \in AllocSizes : AllocFits(n) \/ AllocNoSpace(n) \/ AllocBadArgs(n)
    BY <1>3 DEF Mem_Alloc
  <2>2. n \in Int
    BY SizesAssumption
  <2>3. AllocFits(n) => Promise!Allocate
    BY <2>2, AllocateImplements
  <2>4. AllocNoSpace(n) \/ AllocBadArgs(n) => UNCHANGED <<regions, live>>
    BY DEF AllocNoSpace, AllocBadArgs
  <2> QED
    BY <1>1, <2>1, <2>3, <2>4 DEF Promise!Next
<1>4. CASE Mem_Free
  <2>1. PICK b \in live : \/ \E coalesce \in BOOLEAN : FreeAccepted(b, coalesce)
                         \/ FreeRejected(b)
    BY <1>4 DEF Mem_Free
  <2>2. (\E coalesce \in BOOLEAN : FreeAccepted(b, coalesce)) => Promise!Release
    BY ReleaseImplements
  <2>3. FreeRejected(b) => UNCHANGED <<regions, live>>
    BY DEF FreeRejected
  <2> QED
    BY <1>1, <2>1, <2>2, <2>3 DEF Promise!Next
<1>5. CASE UNCHANGED vars
  BY <1>1, <1>5 DEF vars
<1> QED
  BY <1>2, <1>3, <1>4, <1>5 DEF Next

(* The allocator implements Heap: whatever the sizes and the sequence of   *)
(* calls, what Mem_Alloc hands out is aligned, inside the region, as long  *)
(* as was asked for, and apart from all that is still held.                *)
THEOREM ImplementsHeap == Spec => KeepsPromise
<1>1. Init => Promise!Init
  <2> SUFFICES ASSUME Init PROVE Arenas = <<>> /\ Held = {}
    BY DEF Promise!Init, Arenas, Held, Piece
  <2>1. regions = <<>> /\ live = {}
    BY DEF Init
  <2>2. DOMAIN regions = {}
    BY <2>1
  <2>3. Arenas = <<>>
    BY <2>2 DEF Arenas
  <2> QED
    BY <2>1, <2>3 DEF Held
<1>2. IInv /\ IInv' /\ [Next]_vars => [Promise!Next]_<<Arenas, Held>>
  BY StepImplements
<1>3. Spec => []IInv
  BY Invariance
<1> QED
  BY <1>1, <1>2, <1>3, PTL DEF Spec, KeepsPromise, Promise!Spec, Arenas, Held, Piece

=============================================================================
