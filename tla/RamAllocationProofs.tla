------------------------- MODULE RamAllocationProofs -------------------------
(***************************************************************************)
(* For every link script: the RAM allocator is well typed, gives no byte   *)
(* out twice and places every object inside one block of the script, at    *)
(* its boundary and, if declared so, with its start in the zero page; it   *)
(* sorts the objects by key, into the one permutation that the object      *)
(* format specifies, loses no byte of RAM, puts each object into the first *)
(* place there is for it, and gives up only when there is none.            *)
(***************************************************************************)
EXTENDS RamAllocation, SequenceTheorems, WellFoundedInduction, TLAPS

-----------------------------------------------------------------------------
(* Boundaries and the editing of the block list *)

LEMMA UnitType ==
    ASSUME NEW align \in 0 .. MaxAlign
    PROVE  Unit[align + 1] \in Nat \ {0}
BY DEF Unit, MaxAlign

\* Rounding up never goes down.
LEMMA BoundaryAbove ==
    ASSUME NEW align \in 0 .. MaxAlign, NEW start \in Nat
    PROVE  Boundary(start, align) \in Nat /\ Boundary(start, align) >= start
<1> DEFINE u == Unit[align + 1]
<1>1. u \in Nat \ {0}
  BY UnitType
<1> HIDE DEF u
<1>2. ((start + u - 1) \div u) * u \in Nat /\ ((start + u - 1) \div u) * u >= start
  BY <1>1
<1> QED
  BY <1>2 DEF Boundary, u

\* A start that rounds to itself is a multiple of the boundary.
LEMMA BoundaryMultiple ==
    ASSUME NEW align \in 0 .. MaxAlign, NEW start \in Nat,
           Boundary(start, align) = start
    PROVE  start % Unit[align + 1] = 0
<1> DEFINE u == Unit[align + 1]
           q == (start + u - 1) \div u
<1>1. u \in Nat \ {0}
  BY UnitType
<1>2. start = q * u
  BY DEF Boundary
<1> HIDE DEF u
<1>3. q \in Int
  BY <1>1
<1> HIDE DEF q
<1>4. (q * u) % u = 0
  BY <1>1, <1>3
<1> QED
  BY <1>2, <1>4 DEF u

LEMMA BlockType ==
    ASSUME NEW b \in Block
    PROVE  /\ b.start \in Nat /\ b.end \in Nat
           /\ b.start < b.end /\ b.end <= AddressSpace
BY DEF Block

LEMMA BlockMade ==
    ASSUME NEW start \in Nat, NEW end \in Nat, start < end, end <= AddressSpace
    PROVE  [start |-> start, end |-> end] \in Block
BY DEF Block

\* Insertion moves what is behind it one place up.
LEMMA Inserted ==
    ASSUME NEW S, NEW s \in Seq(S), NEW j \in 1 .. Len(s), NEW e \in S
    PROVE  InsertAt(s, j, e) \in Seq(S) /\ Len(InsertAt(s, j, e)) = Len(s) + 1
BY SMTT(60) DEF InsertAt

LEMMA InsertedElement ==
    ASSUME NEW S, NEW s \in Seq(S), NEW j \in 1 .. Len(s), NEW e \in S,
           NEW k \in 1 .. Len(s) + 1
    PROVE  InsertAt(s, j, e)[k] = IF k < j THEN s[k] ELSE IF k = j THEN e ELSE s[k - 1]
BY SMTT(60) DEF InsertAt

\* Removal moves what is behind it one place down.
LEMMA Removed ==
    ASSUME NEW S, NEW s \in Seq(S), NEW j \in 1 .. Len(s)
    PROVE  /\ RemoveAt(s, j) \in Seq(S)
           /\ Len(RemoveAt(s, j)) = Len(s) - 1
           /\ \A k \in 1 .. Len(s) - 1 :
                 RemoveAt(s, j)[k] = IF k < j THEN s[k] ELSE s[k + 1]
<1> DEFINE left  == SubSeq(s, 1, j - 1)
           right == SubSeq(s, j + 1, Len(s))
<1>0. Len(s) \in Nat
  OBVIOUS
<1>1. /\ left \in Seq(S) /\ Len(left) = j - 1
      /\ \A k \in 1 .. j - 1 : left[k] = s[k]
  OBVIOUS
<1>2. /\ right \in Seq(S) /\ Len(right) = Len(s) - j
      /\ \A k \in 1 .. Len(s) - j : right[k] = s[j + k]
  OBVIOUS
<1> HIDE DEF left, right
<1> DEFINE joined == left \o right
<1>3. /\ joined \in Seq(S)
      /\ Len(joined) = Len(left) + Len(right)
      /\ \A k \in 1 .. Len(left) + Len(right) :
            joined[k] = IF k <= Len(left) THEN left[k] ELSE right[k - Len(left)]
  BY <1>1, <1>2, ConcatProperties
<1> HIDE DEF joined
<1>4. ASSUME NEW k \in 1 .. Len(s) - 1, k >= j
      PROVE  joined[k] = s[k + 1]
  <2>0. k \in 1 .. Len(left) + Len(right) /\ ~(k <= Len(left))
    BY <1>0, <1>1, <1>2, <1>4
  <2>1. joined[k] = right[k - (j - 1)] /\ k - (j - 1) \in 1 .. Len(s) - j
    <3>1. joined[k] = right[k - Len(left)]
      BY <1>3, <2>0
    <3> QED
      BY <1>0, <1>1, <1>4, <3>1
  <2>2. right[k - (j - 1)] = s[j + (k - (j - 1))]
    BY <1>2, <2>1
  <2>3. j + (k - (j - 1)) = k + 1
    BY <1>0
  <2> QED
    BY <2>1, <2>2, <2>3
<1>5. ASSUME NEW k \in 1 .. Len(s) - 1, k < j
      PROVE  joined[k] = s[k]
  <2>1. k \in 1 .. Len(left) + Len(right) /\ k <= Len(left) /\ k \in 1 .. j - 1
    BY <1>0, <1>1, <1>2, <1>5
  <2>2. joined[k] = left[k]
    BY <1>3, <2>1
  <2> QED
    BY <1>1, <2>1, <2>2
<1>6. \A k \in 1 .. Len(s) - 1 : joined[k] = IF k < j THEN s[k] ELSE s[k + 1]
  BY <1>0, <1>4, <1>5
<1>7. Len(joined) = Len(s) - 1
  BY <1>0, <1>1, <1>2, <1>3
<1>8. RemoveAt(s, j) = joined
  BY DEF RemoveAt, left, right, joined
<1> QED
  BY <1>3, <1>6, <1>7, <1>8

LEMMA WithoutLast ==
    ASSUME NEW S, NEW s \in Seq(S), Len(s) # 0
    PROVE  /\ SubSeq(s, 1, Len(s) - 1) \in Seq(S)
           /\ Len(SubSeq(s, 1, Len(s) - 1)) = Len(s) - 1
           /\ \A k \in 1 .. Len(s) - 1 : SubSeq(s, 1, Len(s) - 1)[k] = s[k]
<1> DEFINE m == Len(s) - 1
<1>1. m \in 0 .. Len(s) /\ m \in Nat
  OBVIOUS
<1> HIDE DEF m
<1>2. /\ SubSeq(s, 1, m) \in Seq(S) /\ Len(SubSeq(s, 1, m)) = m
      /\ \A k \in 1 .. m : SubSeq(s, 1, m)[k] = s[k]
  BY <1>1
<1> QED
  BY <1>2 DEF m

\* What SplitAt makes of the list: block j becomes its two pieces.
LEMMA SplitBlocks ==
    ASSUME blocks \in Seq(Block), NEW j \in 1 .. Len(blocks), NEW at \in Nat,
           blocks[j].start < at, at < blocks[j].end
    PROVE  /\ SplitAt(j, at) \in Seq(Block)
           /\ Len(SplitAt(j, at)) = Len(blocks) + 1
           /\ \A k \in 1 .. Len(blocks) + 1 :
                 SplitAt(j, at)[k] = IF k < j THEN blocks[k]
                                     ELSE IF k = j THEN UpTo(blocks[j], at)
                                     ELSE IF k = j + 1 THEN From(blocks[j], at)
                                     ELSE blocks[k - 1]
<1> DEFINE first  == UpTo(blocks[j], at)
           second == From(blocks[j], at)
           rest   == [blocks EXCEPT ![j] = second]
<1>1. blocks[j] \in Block /\ Len(blocks) \in Nat
  OBVIOUS
<1>2. /\ blocks[j].start \in Nat /\ blocks[j].end \in Nat
      /\ blocks[j].end <= AddressSpace
  BY <1>1, BlockType
<1>3. at <= AddressSpace
  BY <1>2 DEF AddressSpace
<1>4. first \in Block /\ second \in Block
  BY <1>2, <1>3, BlockMade DEF UpTo, From
<1> HIDE DEF first, second
<1>5. /\ rest \in Seq(Block) /\ Len(rest) = Len(blocks)
      /\ \A k \in 1 .. Len(blocks) : rest[k] = IF k = j THEN second ELSE blocks[k]
  BY <1>4
<1> HIDE DEF rest
<1> DEFINE after == InsertAt(rest, j, first)
<1>6. /\ after \in Seq(Block)
      /\ Len(after) = Len(blocks) + 1
      /\ \A k \in 1 .. Len(blocks) + 1 :
            after[k] = IF k < j THEN rest[k] ELSE IF k = j THEN first ELSE rest[k - 1]
  <2>1. rest \in Seq(Block) /\ j \in 1 .. Len(rest) /\ first \in Block
    BY <1>4, <1>5
  <2>2. after \in Seq(Block) /\ Len(after) = Len(rest) + 1
    BY <2>1, Inserted
  <2>3. ASSUME NEW k \in 1 .. Len(blocks) + 1
        PROVE  after[k] = IF k < j THEN rest[k] ELSE IF k = j THEN first ELSE rest[k - 1]
    <3>1. k \in 1 .. Len(rest) + 1
      BY <1>5
    <3> QED
      BY <2>1, <3>1, InsertedElement
  <2> QED
    BY <1>5, <2>2, <2>3
<1> HIDE DEF after
<1>7. \A k \in 1 .. Len(blocks) + 1 :
          after[k] = IF k < j THEN blocks[k] ELSE IF k = j THEN first
                     ELSE IF k = j + 1 THEN second ELSE blocks[k - 1]
  <2> TAKE k \in 1 .. Len(blocks) + 1
  <2>1. CASE k < j
    <3>1. k \in 1 .. Len(blocks) /\ k # j
      BY <1>1, <2>1
    <3>2. after[k] = rest[k]
      BY <1>6, <2>1
    <3> QED
      BY <1>5, <2>1, <3>1, <3>2
  <2>2. CASE k = j
    BY <1>6, <2>2
  <2>3. CASE k > j
    <3>1. after[k] = rest[k - 1] /\ k - 1 \in 1 .. Len(blocks)
      BY <1>1, <1>6, <2>3
    <3>2. rest[k - 1] = IF k - 1 = j THEN second ELSE blocks[k - 1]
      BY <1>5, <3>1
    <3> QED
      BY <2>3, <3>1, <3>2
  <2> QED
    BY <1>1, <2>1, <2>2, <2>3
<1>8. SplitAt(j, at) = after
  BY DEF SplitAt, rest, first, second, after
<1> QED
  BY <1>6, <1>7, <1>8 DEF first, second

\* What is left after an object has taken the front of block j.
LEMMA TakenBlocks ==
    ASSUME blocks \in Seq(Block), NEW j \in 1 .. Len(blocks), NEW size \in Nat,
           size <= Size(blocks[j])
    PROVE  /\ Taken(j, size) \in Seq(Block)
           /\ \/ /\ blocks[j].start + size < blocks[j].end
                 /\ Len(Taken(j, size)) = Len(blocks)
                 /\ \A k \in 1 .. Len(blocks) :
                       Taken(j, size)[k] =
                           IF k = j THEN From(blocks[j], blocks[j].start + size)
                           ELSE blocks[k]
              \/ /\ blocks[j].start + size = blocks[j].end
                 /\ Len(Taken(j, size)) = Len(blocks) - 1
                 /\ \A k \in 1 .. Len(blocks) - 1 :
                       Taken(j, size)[k] = IF k < j THEN blocks[k] ELSE blocks[k + 1]
<1> DEFINE end    == blocks[j].start + size
           shrunk == From(blocks[j], end)
<1>1. blocks[j] \in Block
  OBVIOUS
<1>2. /\ blocks[j].start \in Nat /\ blocks[j].end \in Nat /\ end \in Nat
      /\ blocks[j].end <= AddressSpace
  BY <1>1, BlockType
<1>3. CASE end = blocks[j].end
  <2>1. Taken(j, size) = RemoveAt(blocks, j)
    BY <1>3 DEF Taken
  <2> QED
    BY <1>3, <2>1, Removed
<1>4. CASE end # blocks[j].end
  <2>1. end < blocks[j].end
    BY <1>2, <1>4 DEF Size
  <2>2. shrunk \in Block
    BY <1>2, <2>1, BlockMade DEF From
  <2>3. Taken(j, size) = [blocks EXCEPT ![j] = shrunk]
    BY <1>4 DEF Taken
  <2> HIDE DEF shrunk
  <2>4. /\ Taken(j, size) \in Seq(Block) /\ Len(Taken(j, size)) = Len(blocks)
        /\ \A k \in 1 .. Len(blocks) : Taken(j, size)[k] = IF k = j THEN shrunk ELSE blocks[k]
    BY <2>2, <2>3
  <2> QED
    BY <2>1, <2>4 DEF shrunk
<1> QED
  BY <1>3, <1>4

-----------------------------------------------------------------------------
(* The block list stays disjoint *)

Part(a, b) == b.start <= a.start /\ a.end <= b.end

BlocksApart(list) == \A i, j \in DOMAIN list : i # j => Apart(list[i], list[j])

LEMMA PartsApart ==
    ASSUME NEW a, NEW b, NEW c, NEW d,
           a.start \in Int, a.end \in Int, b.start \in Int, b.end \in Int,
           c.start \in Int, c.end \in Int, d.start \in Int, d.end \in Int,
           Apart(a, b), Part(c, a), Part(d, b)
    PROVE  Apart(c, d)
BY DEF Apart, Part

LEMMA ElementType ==
    ASSUME NEW list \in Seq(Block), NEW k \in DOMAIN list
    PROVE  /\ k \in 1 .. Len(list) /\ list[k] \in Block
           /\ list[k].start \in Int /\ list[k].end \in Int /\ list[k].start < list[k].end
<1>1. k \in 1 .. Len(list) /\ list[k] \in Block
  OBVIOUS
<1> QED
  BY <1>1, BlockType

\* Every block after a split is a part of one before it, and the two parts of
\* the split block do not overlap.
LEMMA SplitKeepsApart ==
    ASSUME blocks \in Seq(Block), NEW j \in DOMAIN blocks, NEW at \in Nat,
           blocks[j].start < at, at < blocks[j].end
    PROVE  /\ \A k \in DOMAIN SplitAt(j, at) :
                 \E m \in DOMAIN blocks : Part(SplitAt(j, at)[k], blocks[m])
           /\ BlocksApart(blocks) => BlocksApart(SplitAt(j, at))
<1> DEFINE new  == SplitAt(j, at)
           n    == Len(blocks)
           o(k) == IF k <= j THEN k ELSE k - 1
<1>1. j \in 1 .. n /\ n \in Nat /\ DOMAIN blocks = 1 .. n
  OBVIOUS
<1>2. /\ new \in Seq(Block) /\ DOMAIN new = 1 .. n + 1
      /\ \A k \in 1 .. n + 1 :
            new[k] = IF k < j THEN blocks[k] ELSE IF k = j THEN UpTo(blocks[j], at)
                     ELSE IF k = j + 1 THEN From(blocks[j], at) ELSE blocks[k - 1]
  <2>1. new \in Seq(Block) /\ Len(new) = n + 1
    BY <1>1, SplitBlocks
  <2> QED
    BY <1>1, <2>1, SplitBlocks
<1> HIDE DEF new
<1>3. ASSUME NEW k \in DOMAIN new
      PROVE  /\ o(k) \in DOMAIN blocks /\ new[k].start \in Int /\ new[k].end \in Int
             /\ Part(new[k], blocks[o(k)])
             /\ k = j => new[k].end = at
             /\ k = j + 1 => new[k].start = at
  <2>1. k \in 1 .. n + 1 /\ o(k) \in 1 .. n
    BY <1>1, <1>2
  <2>2. new[k].start \in Int /\ new[k].end \in Int
    BY <1>2, ElementType
  <2>3. blocks[j].start \in Int /\ blocks[j].end \in Int
    BY ElementType
  <2>4. CASE k < j
    <3>1. new[k] = blocks[k] /\ o(k) = k
      BY <1>1, <1>2, <2>1, <2>4
    <3> QED
      BY <1>1, <2>1, <2>2, <2>4, <3>1 DEF Part
  <2>5. CASE k = j
    <3>1. new[k] = UpTo(blocks[j], at) /\ o(k) = j
      BY <1>1, <1>2, <2>1, <2>5
    <3>2. new[k].start = blocks[j].start /\ new[k].end = at
      BY <3>1 DEF UpTo
    <3> QED
      BY <1>1, <2>1, <2>2, <2>3, <2>5, <3>1, <3>2 DEF Part
  <2>6. CASE k = j + 1
    <3>1. new[k] = From(blocks[j], at) /\ o(k) = j
      BY <1>1, <1>2, <2>1, <2>6
    <3>2. new[k].start = at /\ new[k].end = blocks[j].end
      BY <3>1 DEF From
    <3> QED
      BY <1>1, <2>1, <2>2, <2>3, <2>6, <3>1, <3>2 DEF Part
  <2>7. CASE k > j + 1
    <3>1. new[k] = blocks[k - 1] /\ o(k) = k - 1
      BY <1>1, <1>2, <2>1, <2>7
    <3> QED
      BY <1>1, <2>1, <2>2, <2>7, <3>1 DEF Part
  <2> QED
    BY <1>1, <2>1, <2>4, <2>5, <2>6, <2>7
<1>4. ASSUME BlocksApart(blocks), NEW k \in DOMAIN new, NEW l \in DOMAIN new, k # l
      PROVE  Apart(new[k], new[l])
  <2>1. CASE o(k) = o(l)
    <3>1. (k = j /\ l = j + 1) \/ (l = j /\ k = j + 1)
      BY <1>1, <1>2, <1>4, <2>1
    <3> QED
      BY <1>3, <3>1 DEF Apart
  <2>2. CASE o(k) # o(l)
    <3> DEFINE a == blocks[o(k)]
               b == blocks[o(l)]
    <3>1. o(k) \in DOMAIN blocks /\ o(l) \in DOMAIN blocks
      BY <1>3
    <3>2. Apart(a, b)
      BY <1>4, <2>2, <3>1 DEF BlocksApart
    <3>3. a.start \in Int /\ a.end \in Int /\ b.start \in Int /\ b.end \in Int
      BY <3>1, ElementType
    <3>4. /\ Part(new[k], a) /\ Part(new[l], b)
          /\ new[k].start \in Int /\ new[k].end \in Int
          /\ new[l].start \in Int /\ new[l].end \in Int
      BY <1>3
    <3> HIDE DEF a, b, o
    <3> QED
      BY <3>2, <3>3, <3>4, PartsApart
  <2> QED
    BY <2>1, <2>2
<1>5. BlocksApart(blocks) => BlocksApart(new)
  BY <1>4 DEF BlocksApart
<1> QED
  BY <1>3, <1>5 DEF new

\* After a placement every block is a part of one before it and lies apart from
\* the bytes taken.
LEMMA TakenKeepsApart ==
    ASSUME blocks \in Seq(Block), NEW j \in DOMAIN blocks, NEW size \in Nat,
           size <= Size(blocks[j])
    PROVE  /\ \A k \in DOMAIN Taken(j, size) :
                 \E m \in DOMAIN blocks : Part(Taken(j, size)[k], blocks[m])
           /\ BlocksApart(blocks) =>
                 /\ BlocksApart(Taken(j, size))
                 /\ \A k \in DOMAIN Taken(j, size) :
                       Apart(UpTo(blocks[j], blocks[j].start + size), Taken(j, size)[k])
<1> DEFINE new   == Taken(j, size)
           n     == Len(blocks)
           front == UpTo(blocks[j], blocks[j].start + size)
<1>1. j \in 1 .. n /\ n \in Nat /\ DOMAIN blocks = 1 .. n
  OBVIOUS
<1>2. blocks[j].start \in Int /\ blocks[j].end \in Int
  BY ElementType
<1>3. /\ front.start \in Int /\ front.end \in Int /\ Part(front, blocks[j])
      /\ front.end = blocks[j].start + size
  BY <1>2 DEF UpTo, Part, Size
<1> HIDE DEF front
<1>4. new \in Seq(Block)
  BY <1>1, TakenBlocks
<1>5. \/ /\ DOMAIN new = 1 .. n
         /\ \A k \in 1 .. n : new[k] = IF k = j THEN From(blocks[j], blocks[j].start + size)
                                       ELSE blocks[k]
      \/ /\ DOMAIN new = 1 .. n - 1
         /\ \A k \in 1 .. n - 1 : new[k] = IF k < j THEN blocks[k] ELSE blocks[k + 1]
  <2>1. DOMAIN new = 1 .. Len(new)
    BY <1>4
  <2> QED
    BY <1>1, <2>1, TakenBlocks
<1> HIDE DEF new
\* Where each block comes from: o is injective.
<1>6. PICK o \in [DOMAIN new -> DOMAIN blocks] :
         /\ \A k, l \in DOMAIN new : k # l => o[k] # o[l]
         /\ \A k \in DOMAIN new :
               \/ o[k] # j /\ new[k] = blocks[o[k]]
               \/ o[k] = j /\ new[k] = From(blocks[j], blocks[j].start + size)
  <2>1. CASE /\ DOMAIN new = 1 .. n
             /\ \A k \in 1 .. n : new[k] = IF k = j THEN From(blocks[j], blocks[j].start + size)
                                           ELSE blocks[k]
    <3> DEFINE f == [k \in 1 .. n |-> k]
    <3>1. f \in [DOMAIN new -> DOMAIN blocks]
      BY <1>1, <2>1
    <3>2. \A k, l \in DOMAIN new : k # l => f[k] # f[l]
      BY <2>1
    <3>3. \A k \in DOMAIN new :
              \/ f[k] # j /\ new[k] = blocks[f[k]]
              \/ f[k] = j /\ new[k] = From(blocks[j], blocks[j].start + size)
      BY <2>1
    <3> QED
      BY <3>1, <3>2, <3>3
  <2>2. CASE /\ DOMAIN new = 1 .. n - 1
             /\ \A k \in 1 .. n - 1 : new[k] = IF k < j THEN blocks[k] ELSE blocks[k + 1]
    <3> DEFINE f == [k \in 1 .. n - 1 |-> IF k < j THEN k ELSE k + 1]
    <3>1. f \in [DOMAIN new -> DOMAIN blocks]
      BY <1>1, <2>2
    <3>2. \A k, l \in DOMAIN new : k # l => f[k] # f[l]
      BY <1>1, <2>2
    <3>3. \A k \in DOMAIN new : f[k] # j /\ new[k] = blocks[f[k]]
      BY <1>1, <2>2
    <3> QED
      BY <3>1, <3>2, <3>3
  <2> QED
    BY <1>5, <2>1, <2>2
<1>7. ASSUME NEW k \in DOMAIN new
      PROVE  /\ Part(new[k], blocks[o[k]]) /\ o[k] \in DOMAIN blocks
             /\ new[k].start \in Int /\ new[k].end \in Int
             /\ o[k] = j => new[k].start = blocks[j].start + size
  <2>1. o[k] \in DOMAIN blocks
    BY <1>6
  <2>2. blocks[o[k]].start \in Int /\ blocks[o[k]].end \in Int
    BY <2>1, ElementType
  <2>3. new[k].start \in Int /\ new[k].end \in Int
    BY <1>4, ElementType
  <2>4. CASE o[k] # j
    BY <1>6, <2>1, <2>2, <2>3, <2>4 DEF Part
  <2>5. CASE o[k] = j
    <3>1. new[k].start = blocks[j].start + size /\ new[k].end = blocks[j].end
      BY <1>6, <2>5 DEF From
    <3> QED
      BY <1>2, <2>1, <2>3, <2>5, <3>1 DEF Part
  <2> QED
    BY <2>4, <2>5
<1>8. ASSUME BlocksApart(blocks), NEW k \in DOMAIN new, NEW l \in DOMAIN new, k # l
      PROVE  Apart(new[k], new[l])
  <2> DEFINE a == blocks[o[k]]
             b == blocks[o[l]]
  <2>1. o[k] \in DOMAIN blocks /\ o[l] \in DOMAIN blocks /\ o[k] # o[l]
    BY <1>6, <1>8
  <2>2. Apart(a, b)
    BY <1>8, <2>1 DEF BlocksApart
  <2>3. a.start \in Int /\ a.end \in Int /\ b.start \in Int /\ b.end \in Int
    BY <2>1, ElementType
  <2>4. /\ Part(new[k], a) /\ Part(new[l], b)
        /\ new[k].start \in Int /\ new[k].end \in Int
        /\ new[l].start \in Int /\ new[l].end \in Int
    BY <1>7
  <2> HIDE DEF a, b
  <2> QED
    BY <2>2, <2>3, <2>4, PartsApart
<1>9. ASSUME BlocksApart(blocks), NEW k \in DOMAIN new
      PROVE  Apart(front, new[k])
  <2>1. CASE o[k] = j
    BY <1>3, <1>7, <2>1 DEF Apart
  <2>2. CASE o[k] # j
    <3> DEFINE b == blocks[o[k]]
    <3>1. Apart(blocks[j], b)
      BY <1>7, <1>9, <2>2 DEF BlocksApart
    <3>2. b.start \in Int /\ b.end \in Int /\ Part(new[k], b)
          /\ new[k].start \in Int /\ new[k].end \in Int
      BY <1>7, ElementType
    <3> HIDE DEF b
    <3> QED
      BY <1>2, <1>3, <3>1, <3>2, PartsApart
  <2> QED
    BY <2>1, <2>2
<1>10. \A k \in DOMAIN new : \E m \in DOMAIN blocks : Part(new[k], blocks[m])
  BY <1>7
<1> QED
  BY <1>8, <1>9, <1>10 DEF BlocksApart, new, front

-----------------------------------------------------------------------------
(* Types *)

\* What makes the types inductive: ranges are well formed, the partition's
\* cursors stay inside theirs, and sizes are numbers once the sort has begun.
SortInv ==
    /\ \A k \in 1 .. Len(stack) : stack[k].lo <= stack[k].hi
    /\ phase = "sort" => stack # <<>>
    /\ scan # 0 => phase = "sort" /\ Frame.lo <= split /\ split <= scan /\ scan <= Pivot
    /\ phase \in {"sort", "place"} => SizesKnown

RamInv == TypeOK /\ SortInv

LEMMA InitTypes == Init => RamInv
<1> SUFFICES ASSUME Init PROVE RamInv
  OBVIOUS
<1>1. PICK s \in Scripts : table = s.objects /\ script = s.blocks
  BY DEF Init
<1>2. table \in Seq(Object) /\ script \in Seq(Block)
  BY <1>1, ScriptsAssumption
<1>3. Len(table) \in Nat
  BY <1>2
<1>4. order \in [Objects -> Objects] /\ IsInjective(order)
  BY DEF Init, IsInjective
<1>5. address \in [Objects -> Nat \cup {Unplaced}]
  BY DEF Init
<1>6. stack \in Seq(Frames) /\ Len(stack) = 0
  BY DEF Init
<1>7. /\ phase = "size" /\ error = "ok" /\ split = 1 /\ scan = 0 /\ blocks = script
      /\ object = 1 /\ block = 1
  BY DEF Init
<1>8. TypeOK
  BY <1>2, <1>3, <1>4, <1>5, <1>6, <1>7 DEF TypeOK
<1>9. SortInv
  BY <1>6, <1>7 DEF SortInv
<1> QED
  BY <1>8, <1>9 DEF RamInv

\* The innermost call of the sort.
LEMMA FrameType ==
    ASSUME RamInv, phase = "sort"
    PROVE  /\ Len(stack) \in Nat \ {0} /\ Len(table) \in Nat
           /\ Frame \in Frames
           /\ Frame.lo \in 1 .. Len(table) + 1 /\ Frame.hi \in 1 .. Len(table) + 1
           /\ Frame.lo <= Frame.hi
           /\ Caller \in Seq(Frames)
           /\ \A k \in 1 .. Len(Caller) : Caller[k].lo <= Caller[k].hi
<1>1. stack \in Seq(Frames) /\ stack # <<>> /\ table \in Seq(Object)
  BY DEF RamInv, TypeOK, SortInv
<1>2. Len(stack) \in Nat \ {0} /\ Len(table) \in Nat
  BY <1>1
<1>3. stack[Len(stack)] \in Frames
  BY <1>1, <1>2
<1>4. stack[Len(stack)].lo <= stack[Len(stack)].hi
  BY <1>2 DEF RamInv, SortInv
<1>5. /\ Caller \in Seq(Frames) /\ Len(Caller) = Len(stack) - 1
      /\ \A k \in 1 .. Len(stack) - 1 : Caller[k] = stack[k]
  BY <1>1, <1>2, WithoutLast DEF Caller
<1>6. \A k \in 1 .. Len(Caller) : Caller[k].lo <= Caller[k].hi
  BY <1>2, <1>5 DEF RamInv, SortInv
<1> QED
  BY <1>2, <1>3, <1>4, <1>5, <1>6 DEF Frame, Frames

\* Exchanging two positions permutes.
LEMMA ExchangeType ==
    ASSUME RamInv, NEW i \in Objects, NEW j \in Objects
    PROVE  Exchanged(order, i, j) \in [Objects -> Objects] /\ IsInjective(Exchanged(order, i, j))
<1>1. order \in [Objects -> Objects] /\ IsInjective(order)
  BY DEF RamInv, TypeOK
<1>2. \A k \in Objects : Exchanged(order, i, j)[k] = IF k = j THEN order[i]
                                                    ELSE IF k = i THEN order[j] ELSE order[k]
  BY <1>1 DEF Exchanged
<1>3. Exchanged(order, i, j) \in [Objects -> Objects]
  BY <1>1 DEF Exchanged
<1>4. \A a, b \in Objects : order[a] = order[b] => a = b
  BY <1>1 DEF IsInjective
<1> HIDE DEF Objects
<1>5. ASSUME NEW a \in Objects, NEW b \in Objects,
             Exchanged(order, i, j)[a] = Exchanged(order, i, j)[b]
      PROVE  a = b
  BY <1>2, <1>4, <1>5
<1> QED
  BY <1>3, <1>5 DEF IsInjective

\* The two ranges left by a pivot.
LEMMA DescendType ==
    ASSUME RamInv, phase = "sort", scan # 0, scan = Pivot
    PROVE  /\ Descend(split) \in Seq(Frames) /\ Descend(split) # <<>>
           /\ \A k \in 1 .. Len(Descend(split)) : Descend(split)[k].lo <= Descend(split)[k].hi
<1> DEFINE left  == [lo |-> Frame.lo, hi |-> split]
           right == [lo |-> split + 1, hi |-> Frame.hi]
<1>1. Frame.lo <= split /\ split < Frame.hi /\ split \in 1 .. Len(table) + 1
  BY FrameType DEF RamInv, SortInv, TypeOK, Pivot
<1>2. left \in Frames /\ right \in Frames /\ left.lo <= left.hi /\ right.lo <= right.hi
  BY <1>1, FrameType DEF Frames
<1> HIDE DEF left, right
<1>3. ASSUME NEW a \in Frames, NEW b \in Frames, a.lo <= a.hi, b.lo <= b.hi
      PROVE  /\ Caller \o <<a, b>> \in Seq(Frames) /\ Caller \o <<a, b>> # <<>>
             /\ \A k \in 1 .. Len(Caller \o <<a, b>>) :
                   (Caller \o <<a, b>>)[k].lo <= (Caller \o <<a, b>>)[k].hi
  <2> DEFINE c == Caller
  <2>1. c \in Seq(Frames) /\ \A k \in 1 .. Len(c) : c[k].lo <= c[k].hi
    BY FrameType
  <2> HIDE DEF c
  <2>2. /\ c \o <<a, b>> \in Seq(Frames) /\ Len(c \o <<a, b>>) = Len(c) + 2 /\ Len(c) \in Nat
        /\ \A k \in 1 .. Len(c) : (c \o <<a, b>>)[k] = c[k]
        /\ (c \o <<a, b>>)[Len(c) + 1] = a
        /\ (c \o <<a, b>>)[Len(c) + 2] = b
    BY <2>1
  <2> DEFINE d == c \o <<a, b>>
  <2> HIDE DEF d
  <2>3. ASSUME NEW k \in 1 .. Len(c) + 2 PROVE d[k].lo <= d[k].hi
    <3>1. k \in 1 .. Len(c) \/ k = Len(c) + 1 \/ k = Len(c) + 2
      BY <2>2
    <3> QED
      BY <1>3, <2>1, <2>2, <3>1 DEF d
  <2>4. d # <<>>
    BY <2>2 DEF d
  <2> QED
    BY <2>2, <2>3, <2>4 DEF c, d
<1>4. Descend(split) = Caller \o <<right, left>> \/ Descend(split) = Caller \o <<left, right>>
  BY DEF Descend, left, right
<1> QED
  BY <1>2, <1>3, <1>4

\* The object the placement loop is at.
LEMMA CurrentType ==
    ASSUME RamInv, Looking
    PROVE  /\ order[object] \in Objects /\ Current = table[order[object]] /\ Current \in Object
           /\ Current.size \in Nat /\ Current.align \in 0 .. MaxAlign
           /\ block \in DOMAIN blocks /\ blocks \in Seq(Block)
           /\ blocks[block].start \in Nat /\ blocks[block].end \in Nat
           /\ Len(table) \in Nat /\ object \in Objects
<1>1. /\ table \in Seq(Object) /\ order \in [Objects -> Objects] /\ SizesKnown
      /\ object \in DOMAIN order /\ block \in DOMAIN blocks /\ blocks \in Seq(Block)
  BY DEF RamInv, TypeOK, SortInv, Looking
<1>2. order[object] \in Objects /\ object \in Objects
  BY <1>1
<1>3. table[order[object]] \in Object /\ Len(table) \in Nat
  BY <1>1, <1>2 DEF Objects
<1>4. Current.size \in Nat \cup {Unresolved} /\ Current.align \in 0 .. MaxAlign
  BY <1>3 DEF Current, Object
<1>5. SizeError(Current) = "ok"
  BY <1>1, <1>2 DEF Current, SizesKnown
<1>6. Current.size # Unresolved
  BY <1>5 DEF SizeError
<1>7. blocks[block] \in Block
  BY <1>1
<1> QED
  BY <1>1, <1>2, <1>3, <1>4, <1>6, <1>7, BlockType DEF Current

\* A split happens strictly inside the block.
LEMMA SplitPoint ==
    ASSUME RamInv, NeedsSplit
    PROVE  LET at == Boundary(blocks[block].start, Current.align)
           IN at \in Nat /\ blocks[block].start < at /\ at < blocks[block].end
<1>1. Looking
  BY DEF NeedsSplit
<1> DEFINE at == Boundary(blocks[block].start, Current.align)
<1>2. at \in Nat /\ at >= blocks[block].start
  BY <1>1, CurrentType, BoundaryAbove
<1>3. at # blocks[block].start /\ at < blocks[block].end
  BY DEF NeedsSplit, AtBoundary
<1> QED
  BY <1>1, <1>2, <1>3, CurrentType

\* Every action keeps the types.
LEMMA StepTypes == RamInv /\ [Next]_vars => RamInv'
<1> SUFFICES ASSUME RamInv, [Next]_vars PROVE RamInv'
  OBVIOUS
<1> USE DEF RamInv
<1>0. Len(table) \in Nat
  BY DEF TypeOK
<1>1. CASE SizeRejected
  <2>1. error' \in {"ram", "unresolved"}
    BY <1>1 DEF SizeRejected, SizeError
  <2>2. TypeOK'
    BY <1>1, <2>1 DEF SizeRejected, TypeOK, inputs, sorting, placement, Objects, Frames
  <2>3. SortInv'
    BY <1>1 DEF SizeRejected, SortInv, inputs, sorting, placement
  <2> QED
    BY <2>2, <2>3
<1>2. CASE NoBlocks
  <2>1. TypeOK'
    BY <1>2 DEF NoBlocks, TypeOK, inputs, sorting, placement, Objects, Frames
  <2>2. SortInv'
    BY <1>2 DEF NoBlocks, SortInv, inputs, sorting, placement
  <2> QED
    BY <2>1, <2>2
<1>3. CASE StartSort
  <2> DEFINE all == [lo |-> 1, hi |-> Len(table) + 1]
  <2>1. all \in Frames /\ all.lo <= all.hi
    BY <1>0 DEF Frames
  <2> HIDE DEF all
  <2>2. stack' = <<all>> /\ table' = table
    BY <1>3 DEF StartSort, all, inputs
  <2>3. stack' \in Seq(Frames) /\ Len(stack') = 1 /\ stack' # <<>> /\ stack'[1] = all
    BY <2>1, <2>2
  <2>4. Frames' = Frames /\ Objects' = Objects
    BY <2>2 DEF Frames, Objects
  <2>5. TypeOK'
    BY <1>3, <2>3, <2>4 DEF StartSort, TypeOK, inputs, placement
  <2>6. SizesKnown' /\ scan' = 0
    BY <1>3 DEF StartSort, SizesKnown, Objects, inputs, SortInv, placement
  <2>7. SortInv'
    BY <2>1, <2>3, <2>6 DEF SortInv
  <2> QED
    BY <2>5, <2>7
<1>4. CASE StartPartition
  <2>1. split' = Frame.lo /\ scan' = Frame.lo /\ phase = "sort" /\ Frame.hi > Frame.lo + 1
        /\ UNCHANGED <<table, script, phase, error, order, stack, blocks, object, block, address>>
    BY <1>4 DEF StartPartition, inputs, placement
  <2>2. Frame.lo \in 1 .. Len(table) /\ Frame.lo < Frame.hi - 1
    BY <1>0, <2>1, FrameType
  <2>3. Frames' = Frames /\ Objects' = Objects /\ Frame' = Frame /\ Pivot' = Pivot
        /\ SizesKnown' = SizesKnown
    BY <2>1 DEF Frames, Objects, Frame, Pivot, SizesKnown
  <2>4. TypeOK'
    <3>1. split' \in 1 .. Len(table) + 1 /\ scan' \in 0 .. Len(table)
      BY <1>0, <2>1, <2>2
    <3> QED
      BY <2>1, <2>3, <3>1 DEF TypeOK
  <2>5. SortInv'
    <3>1. Frame.lo <= split' /\ split' <= scan' /\ scan' <= Pivot
      BY <1>0, <2>1, <2>2, FrameType DEF Pivot
    <3> QED
      BY <2>1, <2>3, <3>1 DEF SortInv
  <2> QED
    BY <2>4, <2>5
<1>5. CASE Compare
  <2>1. phase = "sort" /\ scan # 0 /\ scan < Pivot /\ scan' = scan + 1
        /\ UNCHANGED <<table, script, phase, error, stack, blocks, object, block, address>>
        /\ \/ order' = Exchanged(order, split, scan) /\ split' = split + 1
           \/ UNCHANGED <<order, split>>
    BY <1>5 DEF Compare, inputs, placement
  <2>2. Frame.lo <= split /\ split <= scan /\ scan < Frame.hi - 1
        /\ Frame.hi \in 1 .. Len(table) + 1 /\ split \in 1 .. Len(table) /\ scan \in 1 .. Len(table) - 1
    BY <1>0, <2>1, FrameType DEF SortInv, TypeOK, Pivot
  <2>3. Frames' = Frames /\ Objects' = Objects /\ Frame' = Frame /\ Pivot' = Pivot
        /\ SizesKnown' = SizesKnown
    BY <2>1 DEF Frames, Objects, Frame, Pivot, SizesKnown
  <2>4. order' \in [Objects -> Objects] /\ IsInjective(order')
    BY <1>0, <2>1, <2>2, ExchangeType, SMTT(30) DEF Objects, TypeOK
  <2>5. split' \in 1 .. Len(table) + 1 /\ scan' \in 0 .. Len(table)
        /\ split <= split' /\ split' <= scan'
    BY <1>0, <2>1, <2>2
  <2>6. TypeOK'
    BY <2>1, <2>3, <2>4, <2>5 DEF TypeOK
  <2>7. SortInv'
    <3>1. Frame.lo <= split' /\ split' <= scan' /\ scan' <= Pivot
      BY <1>0, <2>1, <2>2, <2>5, FrameType DEF Pivot
    <3> QED
      BY <2>1, <2>3, <3>1 DEF SortInv
  <2> QED
    BY <2>6, <2>7
<1>6. CASE PlacePivot
  <2>1. phase = "sort" /\ scan # 0 /\ scan = Pivot /\ scan' = 0
        /\ order' = Exchanged(order, split, Pivot) /\ stack' = Descend(split)
        /\ UNCHANGED <<table, script, phase, error, split, blocks, object, block, address>>
    BY <1>6 DEF PlacePivot, inputs, placement
  <2>2. split \in Objects /\ Pivot \in Objects
    BY <1>0, <2>1, FrameType DEF SortInv, TypeOK, Pivot, Objects
  <2>3. order' \in [Objects -> Objects] /\ IsInjective(order')
    BY <2>1, <2>2, ExchangeType
  <2>4. Frames' = Frames /\ Objects' = Objects /\ SizesKnown' = SizesKnown
    BY <2>1 DEF Frames, Objects, SizesKnown
  <2>5. /\ stack' \in Seq(Frames) /\ stack' # <<>>
        /\ \A k \in 1 .. Len(stack') : stack'[k].lo <= stack'[k].hi
    BY <2>1, DescendType
  <2>6. TypeOK'
    BY <1>0, <2>1, <2>3, <2>4, <2>5 DEF TypeOK
  <2>7. SortInv'
    BY <2>1, <2>4, <2>5 DEF SortInv
  <2> QED
    BY <2>6, <2>7
<1>7. CASE Return
  <2>1. phase = "sort" /\ scan = 0 /\ stack' = Caller
        /\ phase' \in {"sort", "place"} /\ (phase' = "sort" => stack' # <<>>)
        /\ UNCHANGED <<table, script, error, order, split, scan, blocks, object, block, address>>
    BY <1>7 DEF Return, inputs, placement
  <2>2. Frames' = Frames /\ Objects' = Objects /\ SizesKnown' = SizesKnown
    BY <2>1 DEF Frames, Objects, SizesKnown
  <2>3. TypeOK'
    BY <2>1, <2>2, FrameType DEF TypeOK
  <2>4. \A k \in 1 .. Len(stack') : stack'[k].lo <= stack'[k].hi
    BY <2>1, FrameType
  <2>5. SortInv'
    BY <2>1, <2>2, <2>4 DEF SortInv
  <2> QED
    BY <2>3, <2>5
\* From here on the sort is over: scan is 0 and the stack does not change.
<1>8. ASSUME UNCHANGED <<table, script, order, stack, split, scan>>,
             phase = "place", phase' \in {"place", "done"},
             error' \in {"ok", "ram", "unresolved", "memory"},
             blocks' \in Seq(Block),
             object' \in 1 .. Len(table) + 1, block' \in Nat \ {0},
             address' \in [Objects -> Nat \cup {Unplaced}]
      PROVE  RamInv'
  <2>1. Frames' = Frames /\ Objects' = Objects /\ SizesKnown' = SizesKnown
    BY <1>8 DEF Frames, Objects, SizesKnown
  <2>2. TypeOK'
    BY <1>8, <2>1 DEF TypeOK
  <2>3. scan' = 0
    BY <1>8 DEF SortInv
  <2>4. SortInv'
    BY <1>8, <2>1, <2>3 DEF SortInv
  <2> QED
    BY <2>2, <2>4
<1>9. CASE SkipBlock
  <2>1. /\ UNCHANGED <<table, script, order, stack, split, scan, phase, error, blocks, object, address>>
        /\ phase = "place" /\ block' = block + 1
    BY <1>9 DEF SkipBlock, Looking, inputs, sorting
  <2>2. error \in {"ok", "ram", "unresolved", "memory"} /\ block' \in Nat \ {0}
    BY <2>1 DEF TypeOK
  <2> QED
    BY <1>8, <2>1, <2>2 DEF TypeOK
<1>10. CASE SplitBlock
  <2> DEFINE at == Boundary(blocks[block].start, Current.align)
  <2>1. /\ UNCHANGED <<table, script, order, stack, split, scan, phase, error, object, address>>
        /\ phase = "place" /\ block' = block + 1 /\ blocks' = SplitAt(block, at)
        /\ NeedsSplit /\ Looking
    BY <1>10 DEF SplitBlock, NeedsSplit, Looking, inputs, sorting
  <2>2. blocks' \in Seq(Block)
    BY <2>1, SplitPoint, CurrentType, SplitBlocks
  <2> QED
    BY <1>8, <2>1, <2>2 DEF TypeOK
<1>11. CASE TakeBlock
  <2>1. /\ UNCHANGED <<table, script, order, stack, split, scan, phase, error>>
        /\ phase = "place" /\ block' = 1 /\ object' = object + 1
        /\ blocks' = Taken(block, Current.size) /\ Looking /\ Eligible(Current, blocks[block])
        /\ address' = [address EXCEPT ![order[object]] = blocks[block].start]
    BY <1>11 DEF TakeBlock, Fitting, Looking, inputs, sorting
  <2>2. blocks' \in Seq(Block)
    BY <2>1, CurrentType, TakenBlocks, SMTT(30) DEF Eligible
  <2>3. object' \in 1 .. Len(table) + 1
    BY <2>1, CurrentType DEF Objects
  <2>4. address' \in [Objects -> Nat \cup {Unplaced}]
    BY <2>1, CurrentType DEF TypeOK
  <2> QED
    BY <1>8, <2>1, <2>2, <2>3, <2>4 DEF TypeOK
<1>12. CASE NoBlockLeft
  BY <1>8, <1>12 DEF NoBlockLeft, Finish, inputs, sorting, TypeOK
<1>13. CASE OutOfMemory
  <2>1. /\ UNCHANGED <<table, script, order, stack, split, scan, object, block, address>>
        /\ phase = "place" /\ phase' = "done" /\ error' = "memory" /\ Looking
    BY <1>13 DEF OutOfMemory, NeedsSplit, Fitting, Looking, Finish, inputs, sorting
  <2>2. blocks' \in Seq(Block)
    <3>1. CASE NeedsSplit /\ UNCHANGED blocks
      BY <3>1 DEF TypeOK
    <3>2. CASE Fitting /\ blocks' = Taken(block, Current.size)
      BY <2>1, <3>2, CurrentType, TakenBlocks DEF Fitting, Eligible
    <3> QED
      BY <1>13, <3>1, <3>2 DEF OutOfMemory
  <2> QED
    BY <1>8, <2>1, <2>2 DEF TypeOK
<1>14. CASE AllPlaced
  BY <1>8, <1>14 DEF AllPlaced, Finish, inputs, sorting, TypeOK
<1>15. CASE UNCHANGED vars
  BY <1>15 DEF vars, inputs, sorting, placement, TypeOK, SortInv, Frames, Objects, Frame, Pivot,
               SizesKnown
<1> QED
  BY <1>1, <1>2, <1>3, <1>4, <1>5, <1>6, <1>7, <1>9, <1>10, <1>11, <1>12, <1>13, <1>14, <1>15
     DEF Next

\* Types and cursors, for every link script.
THEOREM TypeCorrect == Spec => []TypeOK
<1>1. Spec => []RamInv
  BY InitTypes, StepTypes, PTL DEF Spec
<1>2. RamInv => TypeOK
  BY DEF RamInv
<1> QED
  BY <1>1, <1>2, PTL

-----------------------------------------------------------------------------
(* Space *)

\* Every free block is a part of a block of the script, and what has been
\* placed has a size.
SpaceInv ==
    /\ \A j \in DOMAIN blocks : \E i \in DOMAIN script : Part(blocks[j], script[i])
    /\ \A i \in Objects : address[i] # Unplaced => table[i].size \in Nat
    /\ PlacedAsDeclared
    /\ NothingSharesBytes

LEMMA InitSpace == Init => SpaceInv
<1> SUFFICES ASSUME Init PROVE SpaceInv
  OBVIOUS
<1>1. RamInv
  BY InitTypes
<1>2. /\ blocks = script /\ \A i \in Objects : address[i] = Unplaced
  BY DEF Init
<1>3. \A j \in DOMAIN blocks : Part(blocks[j], blocks[j])
  <2> TAKE j \in DOMAIN blocks
  <2>1. blocks[j].start \in Int /\ blocks[j].end \in Int
    BY <1>1, ElementType DEF RamInv, TypeOK
  <2> QED
    BY <2>1 DEF Part
<1>4. \A j \in DOMAIN blocks : \E i \in DOMAIN script : Part(blocks[j], script[i])
  BY <1>2, <1>3
<1>5. PlacedAsDeclared
  BY <1>2 DEF PlacedAsDeclared
<1>6. Stored = {}
  BY <1>2 DEF Stored
<1>7. NothingSharesBytes
  BY <1>2, <1>6 DEF NothingSharesBytes, ScriptApart
<1> QED
  BY <1>2, <1>4, <1>5, <1>7 DEF SpaceInv

\* The bytes of a placed object are an interval of numbers.
LEMMA OccupiedType ==
    ASSUME RamInv, SpaceInv, NEW i \in Stored
    PROVE  /\ i \in Objects /\ address[i] \in Nat /\ table[i].size \in Nat
           /\ Occupied(i).start = address[i] /\ Occupied(i).end = address[i] + table[i].size
           /\ Occupied(i).start \in Int /\ Occupied(i).end \in Int
           /\ Part(Occupied(i), Occupied(i))
<1>1. i \in Objects /\ address[i] # Unplaced
  BY DEF Stored
<1>2. address[i] \in Nat /\ table[i].size \in Nat
  BY <1>1 DEF RamInv, TypeOK, SpaceInv
<1> QED
  BY <1>1, <1>2 DEF Occupied, Part

\* The only steps that change the block list or the addresses.
LEMMA SpaceSteps ==
    ASSUME RamInv, [Next]_vars
    PROVE  /\ UNCHANGED <<table, script>>
           /\ \/ UNCHANGED <<blocks, address>>
              \/ /\ NeedsSplit /\ UNCHANGED address
                 /\ blocks' = SplitAt(block, Boundary(blocks[block].start, Current.align))
              \/ /\ Fitting /\ blocks' = Taken(block, Current.size)
                 /\ address' \in {address, [address EXCEPT ![order[object]] = blocks[block].start]}
<1>1. CASE SplitBlock
  BY <1>1 DEF SplitBlock, inputs
<1>2. CASE TakeBlock
  BY <1>2 DEF TakeBlock, inputs
<1>3. CASE OutOfMemory
  BY <1>3 DEF OutOfMemory, Finish, inputs
<1>4. CASE \/ SizeRejected \/ NoBlocks \/ StartSort \/ StartPartition \/ Compare
           \/ PlacePivot \/ Return
  BY <1>4 DEF SizeRejected, NoBlocks, StartSort, StartPartition, Compare, PlacePivot, Return,
              inputs, placement
<1>5. CASE SkipBlock \/ NoBlockLeft \/ AllPlaced
  BY <1>5 DEF SkipBlock, NoBlockLeft, AllPlaced, Finish, inputs
<1>6. CASE UNCHANGED vars
  BY <1>6 DEF vars, inputs, placement
<1> QED
  BY <1>1, <1>2, <1>3, <1>4, <1>5, <1>6 DEF Next

\* A list made of parts of the free blocks stays clear of the placed objects.
LEMMA PartsStayClear ==
    ASSUME RamInv, SpaceInv, NEW list \in Seq(Block),
           \A k \in DOMAIN list : \E m \in DOMAIN blocks : Part(list[k], blocks[m])
    PROVE  /\ \A k \in DOMAIN list : \E i \in DOMAIN script : Part(list[k], script[i])
           /\ ScriptApart =>
                 \A i \in Stored, k \in DOMAIN list : Apart(Occupied(i), list[k])
<1>1. blocks \in Seq(Block) /\ script \in Seq(Block)
  BY DEF RamInv, TypeOK
<1>2. ASSUME NEW k \in DOMAIN list
      PROVE  \E i \in DOMAIN script : Part(list[k], script[i])
  <2>1. PICK m \in DOMAIN blocks : Part(list[k], blocks[m])
    OBVIOUS
  <2>2. PICK i \in DOMAIN script : Part(blocks[m], script[i])
    BY DEF SpaceInv
  <2>3. /\ list[k].start \in Int /\ list[k].end \in Int
        /\ blocks[m].start \in Int /\ blocks[m].end \in Int
        /\ script[i].start \in Int /\ script[i].end \in Int
    BY <1>1, ElementType
  <2>4. Part(list[k], script[i])
    BY <2>1, <2>2, <2>3 DEF Part
  <2> QED
    BY <2>4
<1>3. ASSUME ScriptApart, NEW i \in Stored, NEW k \in DOMAIN list
      PROVE  Apart(Occupied(i), list[k])
  <2>1. PICK m \in DOMAIN blocks : Part(list[k], blocks[m])
    OBVIOUS
  <2> DEFINE b == blocks[m]
             l == list[k]
             o == Occupied(i)
  <2>2. Apart(o, b)
    BY <1>3 DEF SpaceInv, NothingSharesBytes
  <2>3. l.start \in Int /\ l.end \in Int /\ b.start \in Int /\ b.end \in Int
    BY <1>1, ElementType
  <2>4. o.start \in Int /\ o.end \in Int /\ Part(o, o)
    BY OccupiedType
  <2>5. Part(l, b)
    BY <2>1
  <2> HIDE DEF b, l, o
  <2>6. Apart(o, l)
    BY <2>2, <2>3, <2>4, <2>5, PartsApart
  <2> QED
    BY <2>6 DEF o, l
<1> QED
  BY <1>2, <1>3

\* A step that leaves the addresses alone and only cuts the free blocks.
LEMMA CuttingKeepsSpace ==
    ASSUME RamInv, SpaceInv, UNCHANGED <<table, script, address>>, blocks' \in Seq(Block),
           \A k \in DOMAIN blocks' : \E m \in DOMAIN blocks : Part(blocks'[k], blocks[m]),
           BlocksApart(blocks) => BlocksApart(blocks')
    PROVE  SpaceInv'
<1>1. Objects' = Objects /\ Stored' = Stored /\ ScriptApart' = ScriptApart
  BY DEF Objects, Stored, ScriptApart, Apart
<1>2. \A i \in Stored : Occupied(i)' = Occupied(i)
  BY DEF Occupied
<1>3. PlacedAsDeclared'
  BY <1>1 DEF SpaceInv, PlacedAsDeclared, Within
<1>4. \A k \in DOMAIN blocks' : \E i \in DOMAIN script' : Part(blocks'[k], script'[i])
  BY PartsStayClear
<1>5. ASSUME ScriptApart
      PROVE  /\ \A i, j \in DOMAIN blocks' : i # j => Apart(blocks'[i], blocks'[j])
             /\ \A i \in Stored, k \in DOMAIN blocks' : Apart(Occupied(i), blocks'[k])
             /\ \A i, j \in Stored : i # j => Apart(Occupied(i), Occupied(j))
  <2>1. BlocksApart(blocks)
    BY <1>5 DEF SpaceInv, NothingSharesBytes, BlocksApart
  <2>2. BlocksApart(blocks')
    BY <2>1
  <2>3. \A i \in Stored, k \in DOMAIN blocks' : Apart(Occupied(i), blocks'[k])
    BY <1>5, PartsStayClear
  <2>4. \A i, j \in Stored : i # j => Apart(Occupied(i), Occupied(j))
    BY <1>5 DEF SpaceInv, NothingSharesBytes
  <2> QED
    BY <2>2, <2>3, <2>4 DEF BlocksApart
<1>6. NothingSharesBytes'
  BY <1>1, <1>2, <1>5 DEF NothingSharesBytes, Apart
<1> QED
  BY <1>1, <1>3, <1>4, <1>6 DEF SpaceInv

\* The object at the front of the block it takes: where it lies, what it is
\* apart from, and that it is placed as declared.
LEMMA TakingKeepsSpace ==
    ASSUME RamInv, SpaceInv, UNCHANGED <<table, script>>, Fitting,
           blocks' = Taken(block, Current.size),
           address' = [address EXCEPT ![order[object]] = blocks[block].start]
    PROVE  SpaceInv'
<1> DEFINE me   == order[object]
           at   == blocks[block].start
           size == Current.size
           mine == UpTo(blocks[block], at + size)
<1>1. /\ Looking /\ me \in Objects /\ Current = table[me] /\ Current \in Object
      /\ size \in Nat /\ Current.align \in 0 .. MaxAlign
      /\ block \in DOMAIN blocks /\ blocks \in Seq(Block)
      /\ at \in Nat /\ blocks[block].end \in Nat
      /\ Eligible(Current, blocks[block]) /\ Boundary(at, Current.align) = at
  BY CurrentType DEF Fitting, AtBoundary
<1>2. size <= Size(blocks[block])
  BY <1>1 DEF Eligible
<1>3. address \in [Objects -> Nat \cup {Unplaced}] /\ Unplaced \notin Nat
  BY MarkersAssumption DEF RamInv, TypeOK
<1>4. address'[me] = at /\ \A i \in Objects : i # me => address'[i] = address[i]
  BY <1>1, <1>3
<1>5. Objects' = Objects /\ ScriptApart' = ScriptApart
  BY DEF Objects, ScriptApart, Apart
<1>6. \A i \in Objects : address'[i] # Unplaced => table'[i].size \in Nat
  BY <1>1, <1>4 DEF SpaceInv
<1>7. mine.start = at /\ mine.end = at + size /\ mine.start \in Int /\ mine.end \in Int
      /\ Part(mine, blocks[block])
  BY <1>1, <1>2 DEF UpTo, Part, Size
<1>8. blocks' \in Seq(Block)
  BY <1>1, <1>2, TakenBlocks
<1>9. /\ \A k \in DOMAIN blocks' : \E m \in DOMAIN blocks : Part(blocks'[k], blocks[m])
      /\ BlocksApart(blocks) =>
            BlocksApart(blocks') /\ \A k \in DOMAIN blocks' : Apart(mine, blocks'[k])
  BY <1>1, <1>2, TakenKeepsApart
<1>10. /\ \A k \in DOMAIN blocks' : \E i \in DOMAIN script' : Part(blocks'[k], script'[i])
       /\ ScriptApart => \A i \in Stored, k \in DOMAIN blocks' : Apart(Occupied(i), blocks'[k])
  BY <1>8, <1>9, PartsStayClear
<1>11. PlacedAsDeclared'
  <2> SUFFICES ASSUME NEW i \in Objects, address'[i] # Unplaced
               PROVE  /\ \E j \in DOMAIN script : Within(table[i], address'[i], script[j])
                      /\ address'[i] % Unit[table[i].align + 1] = 0
                      /\ table[i].zp => address'[i] < ZeroPageEnd
    BY <1>5 DEF PlacedAsDeclared, Within
  <2>1. CASE i # me
    <3>1. address'[i] = address[i] /\ address[i] # Unplaced
      BY <1>4, <2>1
    <3> QED
      BY <3>1 DEF SpaceInv, PlacedAsDeclared
  <2>2. CASE i = me
    <3>1. address'[i] = at /\ table[i] = Current
      BY <1>1, <1>4, <2>2
    <3>2. PICK j \in DOMAIN script : Part(blocks[block], script[j])
      BY <1>1 DEF SpaceInv
    <3>3. script[j].start \in Int /\ script[j].end \in Int
      BY ElementType DEF RamInv, TypeOK
    <3>4. Within(Current, at, script[j])
      BY <1>1, <1>2, <3>2, <3>3 DEF Within, Part, Size
    <3>5. at % Unit[Current.align + 1] = 0
      BY <1>1, BoundaryMultiple
    <3>6. Current.zp => at < ZeroPageEnd
      BY <1>1 DEF Eligible
    <3> HIDE DEF at
    <3> QED
      BY <3>1, <3>4, <3>5, <3>6
  <2> QED
    BY <2>1, <2>2
\* Objects other than this one keep their bytes.
<1>12. ASSUME NEW i \in Stored', i # me
       PROVE  i \in Stored /\ Occupied(i)' = Occupied(i)
  <2>1. i \in Objects /\ address'[i] # Unplaced /\ table[i].size > 0
    BY <1>5 DEF Stored
  <2>2. address'[i] = address[i]
    BY <1>4, <1>12, <2>1
  <2> HIDE DEF me
  <2> QED
    BY <2>1, <2>2 DEF Stored, Occupied
<1>13. ASSUME NEW i \in Stored', i = me
       PROVE  Occupied(i)' = mine
  <2>1. address'[i] = at /\ table'[i].size = size
    BY <1>1, <1>4, <1>13
  <2> QED
    BY <2>1 DEF Occupied, UpTo
<1> HIDE DEF mine, me
<1>14. ASSUME ScriptApart
       PROVE  /\ BlocksApart(blocks')
              /\ \A k \in DOMAIN blocks' : Apart(mine, blocks'[k])
              /\ \A i \in Stored, k \in DOMAIN blocks' : Apart(Occupied(i), blocks'[k])
              /\ \A i, j \in Stored : i # j => Apart(Occupied(i), Occupied(j))
              /\ \A i \in Stored : Apart(Occupied(i), mine) /\ Apart(mine, Occupied(i))
  <2>1. BlocksApart(blocks)
    BY <1>14 DEF SpaceInv, NothingSharesBytes, BlocksApart
  <2>2. ASSUME NEW i \in Stored PROVE Apart(Occupied(i), mine) /\ Apart(mine, Occupied(i))
    <3> DEFINE b == blocks[block]
               o == Occupied(i)
    <3>1. Apart(o, b)
      BY <1>1, <1>14 DEF SpaceInv, NothingSharesBytes
    <3>2. o.start \in Int /\ o.end \in Int /\ Part(o, o)
      BY OccupiedType
    <3>3. b.start \in Int /\ b.end \in Int /\ Part(mine, b)
      BY <1>1, <1>7
    <3> HIDE DEF b, o
    <3>4. Apart(o, mine)
      BY <1>7, <3>1, <3>2, <3>3, PartsApart
    <3>5. Apart(mine, o)
      BY <3>4 DEF Apart
    <3> QED
      BY <3>4, <3>5 DEF o
  <2>3. \A i, j \in Stored : i # j => Apart(Occupied(i), Occupied(j))
    BY <1>14 DEF SpaceInv, NothingSharesBytes
  <2> QED
    BY <1>9, <1>10, <1>14, <2>1, <2>2, <2>3
<1>15. NothingSharesBytes'
  <2> SUFFICES ASSUME ScriptApart
               PROVE  /\ \A i, j \in DOMAIN blocks' : i # j => Apart(blocks'[i], blocks'[j])
                      /\ \A i \in Stored', k \in DOMAIN blocks' : Apart(Occupied(i)', blocks'[k])
                      /\ \A i, j \in Stored' : i # j => Apart(Occupied(i)', Occupied(j)')
    BY <1>5 DEF NothingSharesBytes, Apart
  <2>1. \A i, j \in DOMAIN blocks' : i # j => Apart(blocks'[i], blocks'[j])
    BY <1>14 DEF BlocksApart
  <2>2. ASSUME NEW i \in Stored', NEW k \in DOMAIN blocks'
        PROVE  Apart(Occupied(i)', blocks'[k])
    <3>1. CASE i = me
      BY <1>13, <1>14, <3>1
    <3>2. CASE i # me
      BY <1>12, <1>14, <3>2
    <3> QED
      BY <3>1, <3>2
  <2>3. ASSUME NEW i \in Stored', NEW j \in Stored', i # j
        PROVE  Apart(Occupied(i)', Occupied(j)')
    <3>1. CASE i = me
      BY <1>12, <1>13, <1>14, <2>3, <3>1
    <3>2. CASE j = me
      BY <1>12, <1>13, <1>14, <2>3, <3>2
    <3>3. CASE i # me /\ j # me
      BY <1>12, <1>14, <2>3, <3>3
    <3> QED
      BY <3>1, <3>2, <3>3
  <2> QED
    BY <2>1, <2>2, <2>3
<1> QED
  BY <1>5, <1>6, <1>10, <1>11, <1>15 DEF SpaceInv

LEMMA StepSpace == RamInv /\ SpaceInv /\ [Next]_vars => SpaceInv'
<1> SUFFICES ASSUME RamInv, SpaceInv, [Next]_vars PROVE SpaceInv'
  OBVIOUS
<1>1. UNCHANGED <<table, script>>
  BY SpaceSteps
<1>2. CASE UNCHANGED <<blocks, address>>
  <2>1. blocks \in Seq(Block)
    BY DEF RamInv, TypeOK
  <2>2. \A k \in DOMAIN blocks : Part(blocks[k], blocks[k])
    BY <2>1, ElementType DEF Part
  <2> QED
    BY <1>1, <1>2, <2>1, <2>2, CuttingKeepsSpace
<1>3. CASE /\ NeedsSplit /\ UNCHANGED address
           /\ blocks' = SplitAt(block, Boundary(blocks[block].start, Current.align))
  <2> DEFINE at == Boundary(blocks[block].start, Current.align)
  <2>1. at \in Nat /\ blocks[block].start < at /\ at < blocks[block].end
    BY <1>3, SplitPoint
  <2>2. Looking /\ blocks \in Seq(Block) /\ block \in DOMAIN blocks /\ block \in 1 .. Len(blocks)
    BY <1>3, CurrentType DEF NeedsSplit
  <2>3. blocks' = SplitAt(block, at) /\ UNCHANGED address
    BY <1>3
  <2> HIDE DEF at
  <2>4. blocks' \in Seq(Block)
    BY <2>1, <2>2, <2>3, SplitBlocks
  <2>5. /\ \A k \in DOMAIN blocks' : \E m \in DOMAIN blocks : Part(blocks'[k], blocks[m])
        /\ BlocksApart(blocks) => BlocksApart(blocks')
    BY <2>1, <2>2, <2>3, SplitKeepsApart
  <2> QED
    BY <1>1, <2>3, <2>4, <2>5, CuttingKeepsSpace
<1>4. CASE /\ Fitting /\ blocks' = Taken(block, Current.size)
           /\ address' = [address EXCEPT ![order[object]] = blocks[block].start]
  BY <1>1, <1>4, TakingKeepsSpace
<1>5. CASE Fitting /\ blocks' = Taken(block, Current.size) /\ UNCHANGED address
  <2>1. /\ blocks \in Seq(Block) /\ block \in DOMAIN blocks /\ block \in 1 .. Len(blocks)
        /\ Current.size \in Nat
        /\ Current.size <= Size(blocks[block])
    BY <1>5, CurrentType DEF Fitting, Eligible
  <2>2. blocks' \in Seq(Block)
    BY <1>5, <2>1, TakenBlocks
  <2>3. /\ \A k \in DOMAIN blocks' : \E m \in DOMAIN blocks : Part(blocks'[k], blocks[m])
        /\ BlocksApart(blocks) => BlocksApart(blocks')
    BY <1>5, <2>1, TakenKeepsApart
  <2> QED
    BY <1>1, <1>5, <2>2, <2>3, CuttingKeepsSpace
<1> QED
  BY <1>2, <1>3, <1>4, <1>5, SpaceSteps

LEMMA SpaceInvariant == Spec => [](RamInv /\ SpaceInv)
<1>1. Init => RamInv /\ SpaceInv
  BY InitTypes, InitSpace
<1>2. RamInv /\ SpaceInv /\ [Next]_vars => (RamInv /\ SpaceInv)'
  BY StepTypes, StepSpace
<1> QED
  BY <1>1, <1>2, PTL DEF Spec

\* No byte of RAM is given out twice, for every script whose blocks are disjoint.
THEOREM RamIsDisjoint == Spec => []NothingSharesBytes
<1>1. RamInv /\ SpaceInv => NothingSharesBytes
  BY DEF SpaceInv
<1> QED
  BY <1>1, SpaceInvariant, PTL

\* Every placed object lies inside one block of the script, at its boundary, and
\* starts in the zero page if it is declared so.
THEOREM DeclarationsAreKept == Spec => []PlacedAsDeclared
<1>1. RamInv /\ SpaceInv => PlacedAsDeclared
  BY DEF SpaceInv
<1> QED
  BY <1>1, SpaceInvariant, PTL

-----------------------------------------------------------------------------
(* Sorting by key, and what placing conserves *)

\* The objects at positions i and j are in the order of their keys.
Ordered(i, j) == AtLeast(table[order[i]], table[order[j]])

\* Some call of ram_sort still has positions i to j to sort.
Together(i, j) == \E k \in 1 .. Len(stack) : stack[k].lo <= i /\ j < stack[k].hi

\* The ranges still to be sorted do not overlap; what is in no common range is in
\* order; the current range is partitioned up to the scan.
OrderInv ==
    /\ phase = "place" => stack = <<>>
    /\ \A k, l \in 1 .. Len(stack) :
          k # l => stack[k].hi <= stack[l].lo \/ stack[l].hi <= stack[k].lo
    /\ phase \in {"sort", "place"} => \A i, j \in Objects : i < j => Together(i, j) \/ Ordered(i, j)
    /\ scan # 0 => /\ \A i \in Frame.lo .. split - 1 : Ordered(i, Pivot)
                   /\ \A i \in split .. scan - 1 : Ordered(Pivot, i)

BytesOf(list) == UNION {Bytes(list[k]) : k \in DOMAIN list}
HeldBytes     == UNION {Bytes(Occupied(i)) : i \in Stored}
Conserved     == error # "memory" => BytesOf(script) = BytesOf(blocks) \cup HeldBytes

\* What the placement loop has behind it holds no place for the current object, and
\* the objects before it are the only ones that have an address.
PlaceInv ==
    /\ phase # "done" => error = "ok"
    /\ phase \in {"size", "sort"} => object = 1 /\ block = 1
    /\ \A i \in Objects : address[i] # Unplaced => \E k \in 1 .. object - 1 : order[k] = i
    /\ phase = "place" /\ object \in Objects =>
          \A j \in 1 .. block - 1 : j \in DOMAIN blocks => Places(Current, blocks[j]) = {}
    /\ GivesUpOnlyWhenFull
    /\ Conserved
-----------------------------------------------------------------------------
(* Keys *)

Keyed(o) == o \in Object /\ o.size \in Int

\* The order of the keys is total and transitive.
LEMMA KeysCompare ==
    ASSUME NEW a, NEW b, Keyed(a), Keyed(b)
    PROVE  AtLeast(a, b) \/ AtLeast(b, a)
<1>1. a.size \in Int /\ b.size \in Int /\ Rank(a) \in Int /\ Rank(b) \in Int
  BY DEF Keyed, Object, Rank, MaxAlign
<1>2. a.zp \in BOOLEAN /\ b.zp \in BOOLEAN
  BY DEF Keyed, Object
<1>3. CASE a.zp /\ b.zp
  BY <1>1, <1>3, SMT DEF AtLeast
<1>4. CASE ~a.zp /\ ~b.zp
  BY <1>1, <1>2, <1>4, SMT DEF AtLeast
<1>5. CASE a.zp /\ ~b.zp
  BY <1>5 DEF AtLeast
<1>6. CASE ~a.zp /\ b.zp
  BY <1>6 DEF AtLeast
<1> QED
  BY <1>2, <1>3, <1>4, <1>5, <1>6

LEMMA KeysChain ==
    ASSUME NEW a, NEW b, NEW c, Keyed(a), Keyed(b), Keyed(c), AtLeast(a, b), AtLeast(b, c)
    PROVE  AtLeast(a, c)
<1>1. /\ a.size \in Int /\ b.size \in Int /\ c.size \in Int
      /\ Rank(a) \in Int /\ Rank(b) \in Int /\ Rank(c) \in Int
  BY DEF Keyed, Object, Rank, MaxAlign
<1>2. a.zp \in BOOLEAN /\ b.zp \in BOOLEAN /\ c.zp \in BOOLEAN
  BY DEF Keyed, Object
<1> QED
  BY <1>1, <1>2 DEF AtLeast

LEMMA OrderedType ==
    ASSUME RamInv, SizesKnown, NEW i \in Objects
    PROVE  order[i] \in Objects /\ Keyed(table[order[i]])
<1>0. order[i] \in Objects /\ table \in Seq(Object)
  BY DEF RamInv, TypeOK
<1>1. order[i] \in Objects /\ table[order[i]] \in Object
  BY <1>0 DEF Objects
<1>2. SizeError(table[order[i]]) = "ok"
  BY <1>1 DEF SizesKnown
<1>3. table[order[i]].size \in Nat \cup {Unresolved}
  BY <1>1 DEF Object
<1> QED
  BY <1>1, <1>2, <1>3 DEF SizeError, Keyed

-----------------------------------------------------------------------------
(* The sort *)

LEMMA InitOrder == Init => OrderInv
BY DEF Init, OrderInv

\* The current range and the other ranges.
LEMMA FrameApart ==
    ASSUME RamInv, OrderInv, phase = "sort"
    PROVE  /\ Len(stack) \in Nat \ {0} /\ Frame = stack[Len(stack)]
           /\ \A k \in 1 .. Len(stack) :
                 /\ stack[k].lo \in Int /\ stack[k].hi \in Int
                 /\ k # Len(stack) => stack[k].hi <= Frame.lo \/ Frame.hi <= stack[k].lo
<1>1. Len(stack) \in Nat \ {0} /\ Frame = stack[Len(stack)] /\ stack \in Seq(Frames)
  BY FrameType DEF Frame, RamInv, TypeOK
<1>2. ASSUME NEW k \in 1 .. Len(stack) PROVE stack[k].lo \in Int /\ stack[k].hi \in Int
  <2>1. stack[k] \in Frames
    BY <1>1, <1>2
  <2> QED
    BY <2>1 DEF Frames
<1>3. Len(stack) \in 1 .. Len(stack)
  BY <1>1
<1> QED
  BY <1>1, <1>2, <1>3 DEF OrderInv

\* An exchange inside the current range leaves every other pair in order.
LEMMA ExchangeOrder ==
    ASSUME RamInv, OrderInv, phase = "sort", NEW p \in Objects, NEW q \in Objects,
           Frame.lo <= p, p < Frame.hi, Frame.lo <= q, q < Frame.hi,
           NEW i \in Objects, NEW j \in Objects, i < j, ~(Frame.lo <= i /\ j < Frame.hi)
    PROVE  \/ \E k \in 1 .. Len(stack) - 1 : stack[k].lo <= i /\ j < stack[k].hi
           \/ AtLeast(table[Exchanged(order, p, q)[i]], table[Exchanged(order, p, q)[j]])
<1> DEFINE x(k) == IF k = q THEN p ELSE IF k = p THEN q ELSE k
           Others == \E k \in 1 .. Len(stack) - 1 : stack[k].lo <= i /\ j < stack[k].hi
<1>1. /\ Len(stack) \in Nat \ {0} /\ Frame = stack[Len(stack)]
      /\ \A k \in 1 .. Len(stack) :
            /\ stack[k].lo \in Int /\ stack[k].hi \in Int
            /\ k # Len(stack) => stack[k].hi <= Frame.lo \/ Frame.hi <= stack[k].lo
  BY FrameApart
<1>2. Objects \subseteq Int /\ Frame.lo \in Int /\ Frame.hi \in Int
  BY FrameType DEF Objects
<1>3. \A k \in Objects : Exchanged(order, p, q)[k] = order[x(k)] /\ x(k) \in Objects
  BY DEF Exchanged, RamInv, TypeOK
<1>4. \A k \in Objects : Frame.lo <= k /\ k < Frame.hi => Frame.lo <= x(k) /\ x(k) < Frame.hi
  OBVIOUS
<1>5. \A k \in Objects : ~(Frame.lo <= k /\ k < Frame.hi) => x(k) = k
  BY <1>2
<1>6. x(i) < x(j)
  BY <1>2, <1>4, <1>5
<1>7. Together(x(i), x(j)) \/ Ordered(x(i), x(j))
  BY <1>3, <1>6 DEF OrderInv
<1>8. ASSUME Together(x(i), x(j)) PROVE Others
  <2>1. PICK k \in 1 .. Len(stack) : stack[k].lo <= x(i) /\ x(j) < stack[k].hi
    BY <1>8 DEF Together
  <2>2. k # Len(stack)
    BY <1>1, <1>2, <1>4, <1>5, <2>1
  <2>3. k \in 1 .. Len(stack) - 1 /\ stack[k].lo \in Int /\ stack[k].hi \in Int
        /\ (stack[k].hi <= Frame.lo \/ Frame.hi <= stack[k].lo)
    BY <1>1, <2>2
  <2>4. ~(Frame.lo <= i /\ i < Frame.hi) /\ ~(Frame.lo <= j /\ j < Frame.hi)
    BY <1>2, <1>3, <1>4, <1>6, <2>1, <2>3, SMTT(30)
  <2> QED
    BY <1>5, <2>1, <2>3, <2>4
<1> QED
  BY <1>3, <1>7, <1>8 DEF Ordered

LEMMA StartPartitionOrder == RamInv /\ OrderInv /\ StartPartition => OrderInv'
<1> SUFFICES ASSUME RamInv, OrderInv, StartPartition PROVE OrderInv'
  OBVIOUS
<1>1. /\ phase = "sort" /\ split' = Frame.lo /\ scan' = Frame.lo
      /\ UNCHANGED <<table, phase, order, stack>>
  BY DEF StartPartition, inputs
<1>2. Frame.lo \in Int
  BY <1>1, FrameType
<1>3. /\ \A i, j : Ordered(i, j)' <=> Ordered(i, j)
      /\ \A i, j : Together(i, j)' <=> Together(i, j)
      /\ Frame' = Frame /\ Pivot' = Pivot /\ Objects' = Objects
  BY <1>1 DEF Ordered, Together, Frame, Pivot, Objects
<1> QED
  BY <1>1, <1>2, <1>3 DEF OrderInv

\* A comparison moves at most the element it is at to the end of the left side.
LEMMA CompareOrder == RamInv /\ OrderInv /\ Compare => OrderInv'
<1> SUFFICES ASSUME RamInv, OrderInv, Compare PROVE OrderInv'
  OBVIOUS
<1>1. /\ phase = "sort" /\ scan # 0 /\ scan < Pivot /\ scan' = scan + 1
      /\ UNCHANGED <<table, phase, stack>>
      /\ \/ Ordered(scan, Pivot) /\ order' = Exchanged(order, split, scan) /\ split' = split + 1
         \/ ~Ordered(scan, Pivot) /\ UNCHANGED <<order, split>>
  BY DEF Compare, inputs, Ordered
<1>2. /\ Frame.lo \in Int /\ Frame.hi \in Int /\ scan \in Int /\ split \in Int /\ Pivot \in Int
      /\ Frame.lo <= split /\ split <= scan /\ scan < Pivot /\ Pivot < Frame.hi
      /\ split \in Objects /\ scan \in Objects /\ Pivot \in Objects
  <2>1. /\ Frame.lo \in 1 .. Len(table) + 1 /\ Frame.hi \in 1 .. Len(table) + 1 /\ Len(table) \in Nat
    BY <1>1, FrameType
  <2>2. scan \in Nat /\ split \in Nat /\ Frame.lo <= split /\ split <= scan
    BY <1>1 DEF RamInv, SortInv, TypeOK
  <2> QED
    BY <1>1, <2>1, <2>2, SMTT(30) DEF Pivot, Objects
<1>3. /\ \A i, j : Together(i, j)' <=> Together(i, j)
      /\ Frame' = Frame /\ Pivot' = Pivot /\ Objects' = Objects
  BY <1>1 DEF Together, Frame, Pivot, Objects
<1>4. /\ \A i \in Frame.lo .. split - 1 : Ordered(i, Pivot)
      /\ \A i \in split .. scan - 1 : Ordered(Pivot, i)
  BY <1>1 DEF OrderInv
<1>5. CASE Ordered(scan, Pivot) /\ order' = Exchanged(order, split, scan) /\ split' = split + 1
  <2>1. \A k \in Objects : order'[k] = IF k = scan THEN order[split]
                                       ELSE IF k = split THEN order[scan] ELSE order[k]
    BY <1>2, <1>5 DEF Exchanged, RamInv, TypeOK
  <2>2. \A i \in Frame.lo .. Pivot : i \in Objects
    BY <1>2, FrameType, <1>1 DEF Objects
  <2>3. order'[Pivot] = order[Pivot] /\ order'[split] = order[scan]
    BY <1>2, <2>1
  <2>4. ASSUME NEW i \in Frame.lo .. split' - 1 PROVE Ordered(i, Pivot)'
    <3>1. CASE i = split
      BY <1>1, <1>3, <1>5, <2>3, <3>1 DEF Ordered
    <3>2. CASE i # split
      <4>1. i \in Frame.lo .. split - 1 /\ order'[i] = order[i]
        BY <1>2, <1>5, <2>1, <2>2, <2>4, <3>2
      <4> QED
        BY <1>1, <1>3, <1>4, <2>3, <4>1 DEF Ordered
    <3> QED
      BY <3>1, <3>2
  <2>5. ASSUME NEW i \in split' .. scan' - 1 PROVE Ordered(Pivot, i)'
    <3>1. CASE i = scan
      <4>1. split \in split .. scan - 1 /\ order'[i] = order[split]
        BY <1>1, <1>2, <1>5, <2>1, <2>5, <3>1
      <4> QED
        BY <1>1, <1>3, <1>4, <2>3, <4>1 DEF Ordered
    <3>2. CASE i # scan
      <4>1. i \in split .. scan - 1 /\ order'[i] = order[i]
        BY <1>1, <1>2, <1>5, <2>1, <2>2, <2>5, <3>2
      <4> QED
        BY <1>1, <1>3, <1>4, <2>3, <4>1 DEF Ordered
    <3> QED
      BY <3>1, <3>2
  <2>6. ASSUME NEW i \in Objects, NEW j \in Objects, i < j
        PROVE  Together(i, j) \/ Ordered(i, j)'
    <3>1. CASE Frame.lo <= i /\ j < Frame.hi
      <4>1. Len(stack) \in 1 .. Len(stack) /\ Frame = stack[Len(stack)]
        BY <1>1, FrameApart
      <4> QED
        BY <3>1, <4>1 DEF Together
    <3>2. CASE ~(Frame.lo <= i /\ j < Frame.hi)
      <4>1. \/ \E k \in 1 .. Len(stack) - 1 : stack[k].lo <= i /\ j < stack[k].hi
            \/ AtLeast(table[Exchanged(order, split, scan)[i]], table[Exchanged(order, split, scan)[j]])
        <5>1. Frame.lo <= scan /\ scan < Frame.hi /\ split < Frame.hi
          BY <1>2
        <5> QED
          BY <1>1, <1>2, <2>6, <3>2, <5>1, ExchangeOrder
      <4>2. 1 .. Len(stack) - 1 \subseteq 1 .. Len(stack)
        BY <1>1, FrameType
      <4> QED
        BY <1>1, <1>5, <4>1, <4>2 DEF Together, Ordered
    <3> QED
      BY <3>1, <3>2
  <2> QED
    BY <1>1, <1>3, <2>4, <2>5, <2>6 DEF OrderInv
<1>6. CASE ~Ordered(scan, Pivot) /\ UNCHANGED <<order, split>>
  <2>1. \A i, j : Ordered(i, j)' <=> Ordered(i, j)
    BY <1>1, <1>6 DEF Ordered
  <2>2. Ordered(Pivot, scan)
    <3>1. Keyed(table[order[scan]]) /\ Keyed(table[order[Pivot]])
      BY <1>1, <1>2, OrderedType DEF RamInv, SortInv
    <3> QED
      BY <1>6, <3>1, KeysCompare DEF Ordered
  <2>3. \A i \in split .. scan : Ordered(Pivot, i)
    BY <1>2, <1>4, <2>2
  <2>4. scan' - 1 = scan
    BY <1>1, <1>2
  <2> QED
    BY <1>1, <1>3, <1>4, <1>6, <2>1, <2>3, <2>4 DEF OrderInv
<1> QED
  BY <1>1, <1>5, <1>6

\* Two elements at the end of a sequence.
LEMMA TwoMore ==
    ASSUME NEW S, NEW c \in Seq(S), NEW a \in S, NEW b \in S
    PROVE  LET e == c \o <<a, b>>
           IN /\ Len(e) = Len(c) + 2 /\ e[Len(c) + 1] = a /\ e[Len(c) + 2] = b
              /\ \A k \in 1 .. Len(c) : e[k] = c[k]
<1>1. <<a, b>> \in Seq(S) /\ Len(<<a, b>>) = 2 /\ <<a, b>>[1] = a /\ <<a, b>>[2] = b
  OBVIOUS
<1>2. Len(c) \in Nat
  OBVIOUS
<1>3. /\ Len(c \o <<a, b>>) = Len(c) + 2
      /\ \A k \in 1 .. Len(c) + 2 :
            (c \o <<a, b>>)[k] = IF k <= Len(c) THEN c[k] ELSE <<a, b>>[k - Len(c)]
  BY <1>1, ConcatProperties, Zenon
<1> DEFINE e == c \o <<a, b>>
           t == <<a, b>>
<1>4. /\ Len(e) = Len(c) + 2 /\ t[1] = a /\ t[2] = b
      /\ \A k \in 1 .. Len(c) + 2 : e[k] = IF k <= Len(c) THEN c[k] ELSE t[k - Len(c)]
  BY <1>1, <1>3
<1> HIDE DEF e, t
<1>5. /\ e[Len(c) + 1] = a /\ e[Len(c) + 2] = b
      /\ \A k \in 1 .. Len(c) : e[k] = c[k]
  BY <1>2, <1>4
<1> QED
  BY <1>4, <1>5 DEF e

\* The two ranges that a pivot leaves take the place of the current one, the smaller
\* one on top.
LEMMA DescendFrames ==
    ASSUME RamInv, phase = "sort"
    PROVE  LET n     == Len(stack)
               left  == [lo |-> Frame.lo, hi |-> split]
               right == [lo |-> split + 1, hi |-> Frame.hi]
           IN /\ n \in Nat \ {0} /\ Len(Descend(split)) = n + 1
              /\ \A k \in 1 .. n - 1 : Descend(split)[k] = stack[k]
              /\ \/ /\ Descend(split)[n] = left /\ Descend(split)[n + 1] = right
                    /\ ~(split - Frame.lo < Frame.hi - split - 1)
                 \/ /\ Descend(split)[n] = right /\ Descend(split)[n + 1] = left
                    /\ split - Frame.lo < Frame.hi - split - 1
<1> DEFINE n     == Len(stack)
           left  == [lo |-> Frame.lo, hi |-> split]
           right == [lo |-> split + 1, hi |-> Frame.hi]
           c     == Caller
<1>1. n \in Nat \ {0} /\ stack \in Seq(Frames)
  BY FrameType DEF RamInv, TypeOK
<1>2. c \in Seq(Frames) /\ Len(c) = n - 1 /\ \A k \in 1 .. n - 1 : c[k] = stack[k]
  BY <1>1, WithoutLast DEF Caller
<1> DEFINE smaller == split - Frame.lo < Frame.hi - split - 1
<1>3. \/ Descend(split) = c \o <<right, left>> /\ smaller
      \/ Descend(split) = c \o <<left, right>> /\ ~smaller
  BY DEF Descend
<1> HIDE DEF n, left, right, c, smaller
<1>4. ASSUME NEW a \in {left, right}, NEW b \in {left, right}
      PROVE  /\ Len(c \o <<a, b>>) = n + 1 /\ (c \o <<a, b>>)[n] = a /\ (c \o <<a, b>>)[n + 1] = b
             /\ \A k \in 1 .. n - 1 : (c \o <<a, b>>)[k] = stack[k]
  <2>1. c \in Seq(Frames \cup {left, right})
    BY <1>1, <1>2
  <2>2. /\ Len(c \o <<a, b>>) = Len(c) + 2 /\ (c \o <<a, b>>)[Len(c) + 1] = a
        /\ (c \o <<a, b>>)[Len(c) + 2] = b /\ \A k \in 1 .. Len(c) : (c \o <<a, b>>)[k] = c[k]
    <3>1. a \in Frames \cup {left, right} /\ b \in Frames \cup {left, right}
      BY <1>4
    <3> QED
      BY <2>1, <3>1, TwoMore
  <2> QED
    BY <1>1, <1>2, <2>2
<1> DEFINE D == Descend(split)
<1> HIDE DEF D
<1>5. \/ D = c \o <<right, left>> /\ smaller
      \/ D = c \o <<left, right>> /\ ~smaller
  BY <1>3 DEF D
<1>6. /\ Len(D) = n + 1 /\ \A k \in 1 .. n - 1 : D[k] = stack[k]
      /\ \/ D[n] = left /\ D[n + 1] = right /\ ~smaller
         \/ D[n] = right /\ D[n + 1] = left /\ smaller
  <2>1. CASE D = c \o <<right, left>> /\ smaller
    BY <1>4, <2>1
  <2>2. CASE D = c \o <<left, right>> /\ ~smaller
    BY <1>4, <2>2
  <2> QED
    BY <1>5, <2>1, <2>2
<1> QED
  BY <1>1, <1>6 DEF n, left, right, D, smaller

\* The pivot moves between the two sides: it is in order with both, and so are they.
LEMMA PlacePivotOrder == RamInv /\ OrderInv /\ PlacePivot => OrderInv'
<1> SUFFICES ASSUME RamInv, OrderInv, PlacePivot PROVE OrderInv'
  OBVIOUS
<1> DEFINE n     == Len(stack)
           left  == [lo |-> Frame.lo, hi |-> split]
           right == [lo |-> split + 1, hi |-> Frame.hi]
<1>1. /\ phase = "sort" /\ scan # 0 /\ scan = Pivot /\ scan' = 0
      /\ order' = Exchanged(order, split, Pivot) /\ stack' = Descend(split)
      /\ UNCHANGED <<table, phase, split>>
  BY DEF PlacePivot, inputs
<1>2. /\ Frame.lo \in Int /\ Frame.hi \in Int /\ split \in Int /\ Pivot \in Int
      /\ Frame.lo <= split /\ split <= Pivot /\ Pivot = Frame.hi - 1
      /\ split \in Objects /\ Pivot \in Objects /\ Objects \subseteq Int
      /\ \A i \in Frame.lo .. Pivot : i \in Objects
  <2>1. /\ Frame.lo \in 1 .. Len(table) + 1 /\ Frame.hi \in 1 .. Len(table) + 1
        /\ Len(table) \in Nat /\ split \in Int /\ Pivot = Frame.hi - 1
    BY <1>1, FrameType DEF RamInv, TypeOK, Pivot
  <2>2. Frame.lo <= split /\ split <= Pivot
    BY <1>1, <2>1 DEF RamInv, SortInv
  <2> QED
    BY <2>1, <2>2 DEF Objects
<1>3. /\ n \in Nat \ {0} /\ Frame = stack[n]
      /\ \A k \in 1 .. n :
            /\ stack[k].lo \in Int /\ stack[k].hi \in Int
            /\ k # n => stack[k].hi <= Frame.lo \/ Frame.hi <= stack[k].lo
  BY <1>1, FrameApart
<1>4. /\ Len(stack') = n + 1
      /\ \A k \in 1 .. n - 1 : stack'[k] = stack[k]
      /\ \/ stack'[n] = left /\ stack'[n + 1] = right
         \/ stack'[n] = right /\ stack'[n + 1] = left
  BY <1>1, DescendFrames
<1>5. /\ left.lo = Frame.lo /\ left.hi = split /\ right.lo = split + 1 /\ right.hi = Frame.hi
  OBVIOUS
<1> HIDE DEF n, left, right
<1>6. \A k, l \in 1 .. Len(stack') :
          k # l => stack'[k].hi <= stack'[l].lo \/ stack'[l].hi <= stack'[k].lo
  <2> TAKE k, l \in 1 .. Len(stack')
  <2>1. (k \in 1 .. n - 1 \/ k = n \/ k = n + 1) /\ (l \in 1 .. n - 1 \/ l = n \/ l = n + 1)
    BY <1>3, <1>4
  <2>2. CASE k \in 1 .. n - 1 /\ l \in 1 .. n - 1
    <3>1. k \in 1 .. n /\ l \in 1 .. n
      BY <1>3, <2>2
    <3> QED
      BY <1>4, <2>2, <3>1 DEF OrderInv, n
  <2>3. CASE k \in 1 .. n - 1 /\ l \in {n, n + 1}
    <3>1. k \in 1 .. n /\ k # n /\ stack'[k] = stack[k]
      BY <1>3, <1>4, <2>3
    <3>2. stack'[l].lo >= Frame.lo /\ stack'[l].hi <= Frame.hi
          /\ stack'[l].lo \in Int /\ stack'[l].hi \in Int
      <4>1. CASE stack'[l] = left
        BY <1>2, <1>5, <4>1, SMTT(30)
      <4>2. CASE stack'[l] = right
        BY <1>2, <1>5, <4>2
      <4> QED
        BY <1>4, <2>3, <4>1, <4>2
    <3>3. /\ stack[k].lo \in Int /\ stack[k].hi \in Int
          /\ stack[k].hi <= Frame.lo \/ Frame.hi <= stack[k].lo
      BY <1>3, <3>1
    <3> QED
      BY <1>2, <3>1, <3>2, <3>3, SMTT(30)
  <2>4. CASE l \in 1 .. n - 1 /\ k \in {n, n + 1}
    <3>1. l \in 1 .. n /\ l # n /\ stack'[l] = stack[l]
      BY <1>3, <1>4, <2>4
    <3>2. stack'[k].lo >= Frame.lo /\ stack'[k].hi <= Frame.hi
          /\ stack'[k].lo \in Int /\ stack'[k].hi \in Int
      <4>1. CASE stack'[k] = left
        BY <1>2, <1>5, <4>1
      <4>2. CASE stack'[k] = right
        BY <1>2, <1>5, <4>2
      <4> QED
        BY <1>4, <2>4, <4>1, <4>2
    <3>3. /\ stack[l].lo \in Int /\ stack[l].hi \in Int
          /\ stack[l].hi <= Frame.lo \/ Frame.hi <= stack[l].lo
      BY <1>3, <3>1
    <3> QED
      BY <1>2, <3>1, <3>2, <3>3, SMTT(30)
  <2>5. CASE k \in {n, n + 1} /\ l \in {n, n + 1}
    BY <1>2, <1>3, <1>4, <1>5, <2>5
  <2> QED
    BY <2>1, <2>2, <2>3, <2>4, <2>5
<1>7. \A k \in Objects : order'[k] = IF k = Pivot THEN order[split]
                                     ELSE IF k = split THEN order[Pivot] ELSE order[k]
  BY <1>1, <1>2 DEF Exchanged, RamInv, TypeOK
<1>8. ASSUME NEW i \in Frame.lo .. split - 1 PROVE Ordered(i, split)'
  <2>1. Ordered(i, Pivot)
    BY <1>1, <1>8 DEF OrderInv
  <2>2. order'[i] = order[i] /\ order'[split] = order[Pivot]
    BY <1>2, <1>7, <1>8
  <2> QED
    BY <1>1, <2>1, <2>2 DEF Ordered
<1>9. ASSUME NEW j \in split + 1 .. Pivot PROVE Ordered(split, j)'
  <2>1. \A i \in split .. Pivot - 1 : Ordered(Pivot, i)
    BY <1>1 DEF OrderInv
  <2>2. order'[split] = order[Pivot]
    BY <1>2, <1>7
  <2>3. CASE j = Pivot
    <3>1. split \in split .. Pivot - 1 /\ order'[j] = order[split]
      BY <1>2, <1>7, <1>9, <2>3
    <3> QED
      BY <1>1, <2>1, <2>2, <3>1 DEF Ordered
  <2>4. CASE j # Pivot
    <3>1. j \in split .. Pivot - 1 /\ order'[j] = order[j]
      BY <1>2, <1>7, <1>9, <2>4
    <3> QED
      BY <1>1, <2>1, <2>2, <3>1 DEF Ordered
  <2> QED
    BY <2>3, <2>4
<1>10. ASSUME NEW i \in Objects, NEW j \in Objects, i < j
       PROVE  Together(i, j)' \/ Ordered(i, j)'
  <2>1. n \in 1 .. Len(stack') /\ n + 1 \in 1 .. Len(stack')
    BY <1>3, <1>4
  <2>2. CASE Frame.lo <= i /\ j < split
    BY <1>4, <1>5, <2>1, <2>2 DEF Together
  <2>3. CASE split + 1 <= i /\ j < Frame.hi
    BY <1>4, <1>5, <2>1, <2>3 DEF Together
  <2>4. CASE Frame.lo <= i /\ i <= split /\ split <= j /\ j < Frame.hi
    <3>1. CASE i = split
      <4>1. j \in split + 1 .. Pivot
        BY <1>2, <1>10, <2>4, <3>1
      <4> QED
        BY <1>1, <1>9, <3>1, <4>1 DEF Ordered
    <3>2. CASE j = split
      <4>1. i \in Frame.lo .. split - 1
        BY <1>2, <1>10, <2>4, <3>2
      <4> QED
        BY <1>1, <1>8, <3>2, <4>1 DEF Ordered
    <3>3. CASE i # split /\ j # split
      <4>1. Ordered(i, split)' /\ Ordered(split, j)'
        BY <1>2, <1>8, <1>9, <2>4, <3>3
      <4>2. Keyed(table[order'[i]]) /\ Keyed(table[order'[split]]) /\ Keyed(table[order'[j]])
        <5>1. \A k \in Objects : \E x \in Objects : order'[k] = order[x]
          BY <1>2, <1>7
        <5>2. \A x \in Objects : Keyed(table[order[x]])
          BY <1>1, OrderedType DEF RamInv, SortInv
        <5>3. \A k \in Objects : Keyed(table[order'[k]])
          BY <5>1, <5>2
        <5> QED
          BY <1>1, <1>2, <5>3
      <4> QED
        BY <1>1, <4>1, <4>2, KeysChain DEF Ordered
    <3> QED
      BY <3>1, <3>2, <3>3
  <2>5. CASE ~(Frame.lo <= i /\ j < Frame.hi)
    <3>1. \/ \E k \in 1 .. n - 1 : stack[k].lo <= i /\ j < stack[k].hi
          \/ AtLeast(table[Exchanged(order, split, Pivot)[i]], table[Exchanged(order, split, Pivot)[j]])
      <4>1. Frame.lo <= Pivot /\ Pivot < Frame.hi /\ split < Frame.hi
        BY <1>2
      <4> QED
        BY <1>1, <1>2, <1>10, <2>5, <4>1, ExchangeOrder DEF n
    <3>2. CASE \E k \in 1 .. n - 1 : stack[k].lo <= i /\ j < stack[k].hi
      <4>1. 1 .. n - 1 \subseteq 1 .. Len(stack')
        BY <1>3, <1>4
      <4> QED
        BY <1>4, <3>2, <4>1 DEF Together
    <3> QED
      BY <1>1, <3>1, <3>2 DEF Ordered
  <2> QED
    BY <1>2, <1>10, <2>2, <2>3, <2>4, <2>5
<1>11. Objects' = Objects
  BY <1>1 DEF Objects
<1> QED
  BY <1>1, <1>6, <1>10, <1>11 DEF OrderInv

\* A range of one element holds no pair.
LEMMA ReturnOrder == RamInv /\ OrderInv /\ Return => OrderInv'
<1> SUFFICES ASSUME RamInv, OrderInv, Return PROVE OrderInv'
  OBVIOUS
<1>1. /\ phase = "sort" /\ scan = 0 /\ scan' = 0 /\ Frame.hi <= Frame.lo + 1 /\ stack' = Caller
      /\ phase' = IF stack' = <<>> THEN "place" ELSE "sort"
      /\ UNCHANGED <<table, order>>
  BY DEF Return, inputs
<1>2. Len(stack) \in Nat \ {0} /\ stack \in Seq(Frames) /\ Frame = stack[Len(stack)]
      /\ Frame.lo \in Int /\ Frame.hi \in Int
  BY <1>1, FrameType, FrameApart DEF RamInv, TypeOK
<1>3. Len(stack') = Len(stack) - 1 /\ \A k \in 1 .. Len(stack) - 1 : stack'[k] = stack[k]
  BY <1>1, <1>2, WithoutLast DEF Caller
<1>4. 1 .. Len(stack') \subseteq 1 .. Len(stack) /\ 1 .. Len(stack') = 1 .. Len(stack) - 1
  BY <1>2, <1>3
<1>5. \A i, j \in Objects : i < j /\ Together(i, j) => Together(i, j)'
  <2> SUFFICES ASSUME NEW i \in Objects, NEW j \in Objects, i < j, Together(i, j)
               PROVE  Together(i, j)'
    OBVIOUS
  <2>1. PICK k \in 1 .. Len(stack) : stack[k].lo <= i /\ j < stack[k].hi
    BY DEF Together
  <2>2. k # Len(stack)
    BY <1>1, <1>2, <2>1 DEF Objects
  <2>3. k \in 1 .. Len(stack') /\ stack'[k] = stack[k]
    BY <1>2, <1>3, <1>4, <2>2
  <2> QED
    BY <2>1, <2>3 DEF Together
<1>6. Objects' = Objects /\ \A i, j : Ordered(i, j)' <=> Ordered(i, j)
  BY <1>1 DEF Objects, Ordered
<1> QED
  BY <1>1, <1>3, <1>4, <1>5, <1>6 DEF OrderInv

LEMMA OrderStep == RamInv /\ OrderInv /\ [Next]_vars => OrderInv'
<1> SUFFICES ASSUME RamInv, OrderInv, [Next]_vars PROVE OrderInv'
  OBVIOUS
<1>1. CASE StartSort
  <2> DEFINE all == [lo |-> 1, hi |-> Len(table) + 1]
  <2>1. stack' = <<all>> /\ phase' = "sort" /\ scan' = 0 /\ UNCHANGED <<table, order>>
    BY <1>1 DEF StartSort, inputs, placement, RamInv, SortInv
  <2>2. all.lo = 1 /\ all.hi = Len(table) + 1 /\ Len(table) \in Nat
    BY DEF RamInv, TypeOK
  <2> HIDE DEF all
  <2>3. Len(stack') = 1 /\ stack'[1] = all /\ 1 \in 1 .. Len(stack')
    BY <2>1
  <2>4. \A i, j \in Objects : Together(i, j)'
    BY <2>2, <2>3 DEF Together, Objects
  <2>5. Objects' = Objects
    BY <2>1 DEF Objects
  <2> QED
    BY <2>1, <2>3, <2>4, <2>5 DEF OrderInv
<1>2. CASE UNCHANGED <<table, order, stack, split, scan>>
           /\ (phase' = phase \/ (phase' = "done" /\ scan = 0))
  <2>1. /\ \A i, j : Ordered(i, j)' <=> Ordered(i, j)
        /\ \A i, j : Together(i, j)' <=> Together(i, j)
        /\ Frame' = Frame /\ Pivot' = Pivot /\ Objects' = Objects
    BY <1>2 DEF Ordered, Together, Frame, Pivot, Objects
  <2> QED
    BY <1>2, <2>1 DEF OrderInv
<1>3. CASE SizeRejected \/ NoBlocks
  BY <1>2, <1>3 DEF SizeRejected, NoBlocks, inputs, sorting, RamInv, SortInv
<1>4. CASE SkipBlock \/ SplitBlock \/ TakeBlock
  BY <1>2, <1>4 DEF SkipBlock, SplitBlock, TakeBlock, inputs, sorting
<1>5. CASE NoBlockLeft \/ OutOfMemory \/ AllPlaced
  <2>1. phase = "place"
    BY <1>5 DEF NoBlockLeft, OutOfMemory, AllPlaced, NeedsSplit, Fitting, Looking
  <2> QED
    BY <1>2, <1>5, <2>1 DEF NoBlockLeft, OutOfMemory, AllPlaced, Finish, inputs, sorting, RamInv, SortInv
<1>6. CASE UNCHANGED vars
  BY <1>2, <1>6 DEF vars, inputs, sorting
<1> QED
  BY <1>1, <1>3, <1>4, <1>5, <1>6, StartPartitionOrder, CompareOrder, PlacePivotOrder, ReturnOrder
     DEF Next

-----------------------------------------------------------------------------
(* Places *)

\* Rounding up finds the first boundary.
LEMMA BoundaryIsFirst ==
    ASSUME NEW align \in 0 .. MaxAlign, NEW start \in Nat, NEW at \in Nat,
           start <= at, Boundary(at, align) = at
    PROVE  Boundary(start, align) <= at
<1> DEFINE u == Unit[align + 1]
           a == (start + u - 1) \div u
           b == (at + u - 1) \div u
<1>1. u \in Nat \ {0}
  BY UnitType
<1> HIDE DEF u
<1>2. a \in Int /\ b \in Int /\ a <= b
  BY <1>1
<1>3. a * u <= b * u
  <2> HIDE DEF a, b
  <2> QED
    BY <1>1, <1>2
<1> QED
  BY <1>3 DEF Boundary, u

LEMMA PlacesAre ==
    ASSUME NEW o \in Object, o.size \in Nat, NEW b, b.start \in Nat, b.end \in Nat,
           NEW at \in Places(o, b)
    PROVE  /\ at \in Nat /\ b.start <= at /\ at < b.end /\ at + o.size <= b.end
           /\ Boundary(b.start, o.align) <= at /\ (o.zp => at < ZeroPageEnd)
<1>1. at \in Nat /\ b.start <= at /\ at < b.end /\ Within(o, at, b) /\ Boundary(at, o.align) = at
      /\ (o.zp => at < ZeroPageEnd)
  BY DEF Places, Bytes
<1>2. o.align \in 0 .. MaxAlign
  BY DEF Object
<1> QED
  BY <1>1, <1>2, BoundaryIsFirst DEF Within

\* A block that is passed over, and the piece before a boundary, hold no place.
LEMMA NoPlaces ==
    ASSUME NEW o \in Object, o.size \in Nat, NEW b \in Block
    PROVE  /\ ~Eligible(o, b) \/ Boundary(b.start, o.align) >= b.end => Places(o, b) = {}
           /\ Places(o, UpTo(b, Boundary(b.start, o.align))) = {}
<1>1. b.start \in Nat /\ b.end \in Nat /\ o.align \in 0 .. MaxAlign
  BY BlockType DEF Object
<1>2. Boundary(b.start, o.align) \in Nat
  BY <1>1, BoundaryAbove
<1>3. ASSUME NEW at \in Places(o, b)
      PROVE  Eligible(o, b) /\ Boundary(b.start, o.align) < b.end
  <2>1. /\ at \in Nat /\ b.start <= at /\ at < b.end /\ at + o.size <= b.end
        /\ Boundary(b.start, o.align) <= at /\ (o.zp => at < ZeroPageEnd)
    BY <1>1, PlacesAre
  <2>2. o.zp => b.start < ZeroPageEnd
    BY <1>1, <2>1 DEF ZeroPageEnd
  <2> QED
    BY <1>1, <1>2, <2>1, <2>2 DEF Eligible, Size
<1>4. ASSUME NEW at \in Places(o, UpTo(b, Boundary(b.start, o.align)))
      PROVE  FALSE
  <2> DEFINE piece == UpTo(b, Boundary(b.start, o.align))
  <2>1. piece.start = b.start /\ piece.end = Boundary(b.start, o.align)
    BY DEF UpTo
  <2> HIDE DEF piece
  <2>2. at \in Nat /\ at < piece.end /\ Boundary(piece.start, o.align) <= at
    BY <1>1, <1>2, <1>4, <2>1, PlacesAre DEF piece
  <2> QED
    BY <1>2, <2>1, <2>2
<1>5. ~(Boundary(b.start, o.align) < b.end) <=> Boundary(b.start, o.align) >= b.end
  BY <1>1, <1>2
<1> QED
  BY <1>3, <1>4, <1>5, Zenon

-----------------------------------------------------------------------------
(* Bytes *)

LEMMA SplitBytes ==
    ASSUME blocks \in Seq(Block), NEW j \in 1 .. Len(blocks), NEW at \in Nat,
           blocks[j].start < at, at < blocks[j].end
    PROVE  BytesOf(SplitAt(j, at)) = BytesOf(blocks)
<1> DEFINE new == SplitAt(j, at)
           n   == Len(blocks)
<1>1. /\ new \in Seq(Block) /\ Len(new) = n + 1
      /\ \A k \in 1 .. n + 1 :
            new[k] = IF k < j THEN blocks[k]
                     ELSE IF k = j THEN UpTo(blocks[j], at)
                     ELSE IF k = j + 1 THEN From(blocks[j], at)
                     ELSE blocks[k - 1]
  BY SplitBlocks
<1>2. n \in Nat /\ DOMAIN blocks = 1 .. n
  OBVIOUS
<1> HIDE DEF new, n
<1>3. DOMAIN new = 1 .. n + 1
  BY <1>1
<1>4. j \in 1 .. n /\ blocks[j].start \in Int /\ blocks[j].end \in Int
  BY ElementType DEF n
<1>5. ASSUME NEW x PROVE x \in Bytes(blocks[j]) <=>
                         x \in Bytes(UpTo(blocks[j], at)) \/ x \in Bytes(From(blocks[j], at))
  BY <1>4 DEF Bytes, UpTo, From
<1>6. ASSUME NEW k \in 1 .. n, NEW x \in Bytes(blocks[k])
      PROVE  \E l \in 1 .. n + 1 : x \in Bytes(new[l])
  <2>1. CASE k < j
    BY <1>1, <1>2, <2>1
  <2>2. CASE k = j
    <3>1. j \in 1 .. n + 1 /\ j + 1 \in 1 .. n + 1
      BY <1>2, <1>4
    <3>2. new[j] = UpTo(blocks[j], at) /\ new[j + 1] = From(blocks[j], at)
      BY <1>1, <1>4, <3>1
    <3> QED
      BY <1>5, <1>6, <2>2, <3>1, <3>2
  <2>3. CASE k > j
    <3>1. k + 1 \in 1 .. n + 1 /\ new[k + 1] = blocks[(k + 1) - 1] /\ (k + 1) - 1 = k
      BY <1>1, <1>2, <1>4, <2>3
    <3> QED
      BY <1>6, <3>1
  <2> QED
    BY <1>4, <2>1, <2>2, <2>3
<1>7. ASSUME NEW l \in 1 .. n + 1, NEW x \in Bytes(new[l])
      PROVE  \E k \in 1 .. n : x \in Bytes(blocks[k])
  <2>1. CASE l < j
    <3>1. l \in 1 .. n /\ new[l] = blocks[l]
      BY <1>1, <1>2, <1>4, <2>1
    <3> QED
      BY <1>7, <3>1
  <2>2. CASE l \in {j, j + 1}
    BY <1>1, <1>4, <1>5, <1>7, <2>2
  <2>3. CASE l > j + 1
    <3>1. l - 1 \in 1 .. n /\ new[l] = blocks[l - 1]
      BY <1>1, <1>2, <1>4, <2>3
    <3> QED
      BY <1>7, <3>1
  <2> QED
    BY <1>4, <2>1, <2>2, <2>3
<1> QED
  BY <1>2, <1>3, <1>6, <1>7, SMTT(30) DEF BytesOf, new

LEMMA TakenBytes ==
    ASSUME blocks \in Seq(Block), NEW j \in 1 .. Len(blocks), NEW size \in Nat,
           size <= Size(blocks[j])
    PROVE  BytesOf(blocks)
               = BytesOf(Taken(j, size)) \cup Bytes(UpTo(blocks[j], blocks[j].start + size))
<1> DEFINE new   == Taken(j, size)
           n     == Len(blocks)
           end   == blocks[j].start + size
           front == UpTo(blocks[j], end)
           rest  == From(blocks[j], end)
<1>1. /\ new \in Seq(Block)
      /\ \/ /\ end < blocks[j].end /\ Len(new) = n
            /\ \A k \in 1 .. n : new[k] = IF k = j THEN rest ELSE blocks[k]
         \/ /\ end = blocks[j].end /\ Len(new) = n - 1
            /\ \A k \in 1 .. n - 1 : new[k] = IF k < j THEN blocks[k] ELSE blocks[k + 1]
  BY TakenBlocks
<1>2. n \in Nat /\ DOMAIN blocks = 1 .. n /\ j \in 1 .. n
  OBVIOUS
<1>3. blocks[j].start \in Int /\ blocks[j].end \in Int
  BY ElementType
<1>4. \A x : x \in Bytes(blocks[j]) <=> x \in Bytes(front) \/ (end < blocks[j].end /\ x \in Bytes(rest))
  BY <1>3 DEF Bytes, UpTo, From, Size
<1> HIDE DEF new, n, front, rest, end
<1>5. DOMAIN new = 1 .. Len(new)
  BY <1>1
<1>6. CASE /\ end < blocks[j].end /\ Len(new) = n
           /\ \A k \in 1 .. n : new[k] = IF k = j THEN rest ELSE blocks[k]
  <2>1. ASSUME NEW x
        PROVE  (\E k \in 1 .. n : x \in Bytes(blocks[k]))
                   <=> (\E k \in 1 .. n : x \in Bytes(new[k])) \/ x \in Bytes(front)
    BY <1>2, <1>4, <1>6
  <2> QED
    BY <1>2, <1>5, <1>6, <2>1 DEF BytesOf, new, front, end
<1>7. CASE /\ end = blocks[j].end /\ Len(new) = n - 1
           /\ \A k \in 1 .. n - 1 : new[k] = IF k < j THEN blocks[k] ELSE blocks[k + 1]
  <2>1. \A x : x \in Bytes(blocks[j]) <=> x \in Bytes(front)
    BY <1>3, <1>4, <1>7
  <2>2. ASSUME NEW k \in 1 .. n, k # j
        PROVE  \E l \in 1 .. n - 1 : new[l] = blocks[k]
    <3>1. CASE k < j
      BY <1>2, <1>7, <3>1
    <3>2. CASE k > j
      <4>1. k - 1 \in 1 .. n - 1 /\ ~(k - 1 < j) /\ (k - 1) + 1 = k
        BY <1>2, <3>2
      <4>2. new[k - 1] = blocks[(k - 1) + 1]
        BY <1>7, <4>1
      <4> QED
        BY <4>1, <4>2
    <3> QED
      BY <1>2, <2>2, <3>1, <3>2
  <2>3. ASSUME NEW l \in 1 .. n - 1
        PROVE  \E k \in 1 .. n : new[l] = blocks[k]
    <3>1. l \in 1 .. n /\ l + 1 \in 1 .. n
      BY <1>2
    <3> QED
      BY <1>7, <3>1
  <2>4. ASSUME NEW x
        PROVE  (\E k \in 1 .. n : x \in Bytes(blocks[k]))
                   <=> (\E k \in 1 .. n - 1 : x \in Bytes(new[k])) \/ x \in Bytes(front)
    BY <1>2, <2>1, <2>2, <2>3
  <2> QED
    BY <1>2, <1>5, <1>7, <2>4 DEF BytesOf, new, front, end
<1> QED
  BY <1>1, <1>6, <1>7

-----------------------------------------------------------------------------
(* The placement loop *)

LEMMA InitPlace == Init => PlaceInv
<1> SUFFICES ASSUME Init PROVE PlaceInv
  OBVIOUS
<1>1. /\ phase = "size" /\ error = "ok" /\ object = 1 /\ block = 1 /\ blocks = script
      /\ \A i \in Objects : address[i] = Unplaced
  BY DEF Init
<1>2. Stored = {}
  BY <1>1 DEF Stored
<1> QED
  BY <1>1, <1>2 DEF PlaceInv, GivesUpOnlyWhenFull, Conserved, HeldBytes

\* Until the loop begins nothing has been placed.
LEMMA BeforePlacement ==
    RamInv /\ PlaceInv /\ (SizeRejected \/ NoBlocks \/ StartSort \/ StartPartition \/ Compare
                           \/ PlacePivot \/ Return) => PlaceInv'
<1> SUFFICES ASSUME RamInv, PlaceInv, SizeRejected \/ NoBlocks \/ StartSort \/ StartPartition
                                      \/ Compare \/ PlacePivot \/ Return
             PROVE  PlaceInv'
  OBVIOUS
<1>1. /\ phase \in {"size", "sort"} /\ object = 1 /\ block = 1 /\ error = "ok"
      /\ UNCHANGED <<table, script, blocks, object, block, address>>
      /\ (error' = "ok" \/ (SizeRejected /\ phase' = "done"))
  BY DEF PlaceInv, SizeRejected, NoBlocks, StartSort, StartPartition, Compare, PlacePivot, Return,
         inputs, placement
<1>2. Objects' = Objects /\ SizesKnown' = SizesKnown /\ Stored' = Stored /\ HeldBytes' = HeldBytes
  BY <1>1 DEF Objects, SizesKnown, Stored, HeldBytes, Occupied
<1>3. \A i \in Objects : address[i] = Unplaced
  BY <1>1 DEF PlaceInv
<1>4. GivesUpOnlyWhenFull'
  <2>1. SizeRejected => ~SizesKnown
    BY DEF SizeRejected, SizesKnown
  <2> QED
    BY <1>1, <1>2, <2>1 DEF GivesUpOnlyWhenFull
<1>5. Conserved'
  BY <1>1, <1>2 DEF PlaceInv, Conserved, BytesOf, Bytes
<1> QED
  BY <1>1, <1>2, <1>3, <1>4, <1>5 DEF PlaceInv

\* A block is passed over, or split at its boundary and its first piece passed over.
LEMMA PassingOver == RamInv /\ PlaceInv /\ (SkipBlock \/ SplitBlock) => PlaceInv'
<1> SUFFICES ASSUME RamInv, PlaceInv, SkipBlock \/ SplitBlock PROVE PlaceInv'
  OBVIOUS
<1> DEFINE at == Boundary(blocks[block].start, Current.align)
<1>1. /\ Looking /\ phase = "place" /\ error = "ok" /\ block' = block + 1
      /\ UNCHANGED <<table, script, order, phase, error, object, address>>
  BY DEF SkipBlock, SplitBlock, NeedsSplit, Looking, PlaceInv, inputs, sorting
<1>2. /\ Current \in Object /\ Current.size \in Nat /\ object \in Objects
      /\ blocks \in Seq(Block) /\ block \in 1 .. Len(blocks) /\ block \in Nat /\ blocks[block] \in Block
  BY <1>1, CurrentType
<1>3. Objects' = Objects /\ Current' = Current /\ Stored' = Stored /\ HeldBytes' = HeldBytes
  BY <1>1 DEF Objects, Current, Stored, HeldBytes, Occupied
<1>4. /\ \A j \in 1 .. block - 1 : j \in DOMAIN blocks' => blocks'[j] = blocks[j] /\ j \in DOMAIN blocks
      /\ Places(Current, blocks'[block]) = {}
      /\ BytesOf(blocks') = BytesOf(blocks)
  <2>1. CASE SkipBlock
    <3>1. blocks' = blocks /\ Places(Current, blocks[block]) = {}
      BY <1>2, <2>1, NoPlaces DEF SkipBlock
    <3> QED
      BY <3>1
  <2>2. CASE SplitBlock
    <3>1. at \in Nat /\ blocks[block].start < at /\ at < blocks[block].end /\ blocks' = SplitAt(block, at)
      BY <2>2, SplitPoint DEF SplitBlock
    <3>2. Places(Current, UpTo(blocks[block], at)) = {}
      BY <1>2, NoPlaces
    <3> HIDE DEF at
    <3>3. /\ blocks' \in Seq(Block) /\ Len(blocks') = Len(blocks) + 1
          /\ \A k \in 1 .. Len(blocks) + 1 :
                blocks'[k] = IF k < block THEN blocks[k]
                             ELSE IF k = block THEN UpTo(blocks[block], at)
                             ELSE IF k = block + 1 THEN From(blocks[block], at)
                             ELSE blocks[k - 1]
      BY <1>2, <3>1, SplitBlocks
    <3>4. blocks'[block] = UpTo(blocks[block], at)
      BY <1>2, <3>3
    <3>5. \A j \in 1 .. block - 1 : blocks'[j] = blocks[j] /\ j \in DOMAIN blocks
      BY <1>2, <3>3
    <3>6. BytesOf(blocks') = BytesOf(blocks)
      BY <1>2, <3>1, SplitBytes
    <3> QED
      BY <3>2, <3>4, <3>5, <3>6
  <2> QED
    BY <2>1, <2>2
<1>5. \A j \in 1 .. block' - 1 : j \in DOMAIN blocks' => Places(Current, blocks'[j]) = {}
  <2>1. \A j \in 1 .. block' - 1 : j \in 1 .. block - 1 \/ j = block
    BY <1>1, <1>2
  <2> QED
    BY <1>1, <1>2, <1>4, <2>1 DEF PlaceInv
<1>6. Conserved'
  <2>1. BytesOf(script) = BytesOf(blocks) \cup HeldBytes
    BY <1>1 DEF PlaceInv, Conserved
  <2>2. BytesOf(script)' = BytesOf(script) /\ BytesOf(blocks)' = BytesOf(blocks)
    BY <1>1, <1>4 DEF BytesOf, Bytes
  <2> QED
    BY <1>3, <2>1, <2>2 DEF Conserved
<1>7. GivesUpOnlyWhenFull'
  BY <1>1 DEF GivesUpOnlyWhenFull
<1> QED
  BY <1>1, <1>3, <1>5, <1>6, <1>7 DEF PlaceInv

\* The object takes the front of the block: those bytes change hands.
LEMMA TakingABlock == RamInv /\ PlaceInv /\ TakeBlock => PlaceInv'
<1> SUFFICES ASSUME RamInv, PlaceInv, TakeBlock PROVE PlaceInv'
  OBVIOUS
<1> DEFINE mine == UpTo(blocks[block], blocks[block].start + Current.size)
<1>0. PICK me \in Objects : me = order[object]
  BY CurrentType DEF TakeBlock, Fitting
<1>1. /\ Looking /\ phase = "place" /\ error = "ok" /\ block' = 1 /\ object' = object + 1
      /\ Eligible(Current, blocks[block]) /\ blocks' = Taken(block, Current.size)
      /\ address' = [address EXCEPT ![me] = blocks[block].start]
      /\ UNCHANGED <<table, script, order, phase, error>>
  BY <1>0 DEF TakeBlock, Fitting, Looking, PlaceInv, inputs, sorting
<1>2. /\ me \in Objects /\ Current = table[me] /\ Current.size \in Nat /\ object \in Objects
      /\ blocks \in Seq(Block) /\ block \in 1 .. Len(blocks) /\ blocks[block].start \in Nat
  BY <1>0, <1>1, CurrentType
<1>3. Unplaced \notin Nat /\ address \in [Objects -> Nat \cup {Unplaced}] /\ object \in Nat \ {0}
  BY <1>2, MarkersAssumption DEF RamInv, TypeOK, Objects
<1>4. address[me] = Unplaced
  <2> SUFFICES ASSUME address[me] # Unplaced PROVE FALSE
    OBVIOUS
  <2>1. PICK k \in 1 .. object - 1 : order[k] = order[object]
    BY <1>0 DEF PlaceInv
  <2>2. k \in DOMAIN order /\ object \in DOMAIN order /\ IsInjective(order)
    BY <1>2, <1>3 DEF RamInv, TypeOK, Objects
  <2> QED
    BY <1>3, <2>1, <2>2 DEF IsInjective
<1>5. address'[me] = blocks[block].start /\ \A i \in Objects : i # me => address'[i] = address[i]
  BY <1>1, <1>2, <1>3
<1>6. \A i \in Objects : address'[i] # Unplaced => \E k \in 1 .. object' - 1 : order[k] = i
  <2> SUFFICES ASSUME NEW i \in Objects, address'[i] # Unplaced
               PROVE  \E k \in 1 .. object' - 1 : order[k] = i
    OBVIOUS
  <2>1. CASE i = me
    <3>1. object \in 1 .. object' - 1
      BY <1>1, <1>3
    <3> QED
      BY <1>0, <2>1, <3>1
  <2>2. CASE i # me
    <3>1. PICK k \in 1 .. object - 1 : order[k] = i
      BY <1>5, <2>2 DEF PlaceInv
    <3>2. k \in 1 .. object' - 1
      BY <1>1, <1>3
    <3> QED
      BY <3>1, <3>2
  <2> QED
    BY <2>1, <2>2
<1>7. Objects' = Objects
  BY <1>1 DEF Objects
<1>8. HeldBytes' = HeldBytes \cup Bytes(mine)
  <2>1. mine.start = blocks[block].start /\ mine.end = blocks[block].start + Current.size
    BY DEF UpTo
  <2>2. \A i \in Objects : i # me => (i \in Stored' <=> i \in Stored) /\ Occupied(i)' = Occupied(i)
    BY <1>1, <1>5, <1>7 DEF Stored, Occupied
  <2>3. me \notin Stored
    BY <1>4 DEF Stored
  <2>4. Occupied(me)' = mine
    <3>1. address'[me] = blocks[block].start /\ table'[me].size = Current.size
      BY <1>1, <1>2, <1>5
    <3> QED
      BY <3>1 DEF Occupied, UpTo
  <2>5. CASE Current.size > 0
    <3>1. me \in Stored'
      BY <1>1, <1>2, <1>3, <1>5, <1>7, <2>5 DEF Stored
    <3> HIDE DEF mine
    <3>2. Stored' = Stored \cup {me} /\ Stored \subseteq Objects
      BY <1>2, <1>7, <2>2, <3>1 DEF Stored
    <3>3. ASSUME NEW x PROVE x \in HeldBytes' <=> x \in HeldBytes \/ x \in Bytes(mine)
      <4>1. x \in HeldBytes' <=> \E i \in Stored' : x \in Bytes(Occupied(i)')
        BY DEF HeldBytes, Bytes
      <4>3. \A i \in Stored : i \in Objects /\ i # me
        BY <2>3, <3>2
      <4>2. x \in HeldBytes <=> \E i \in Stored : x \in Bytes(Occupied(i))
        BY DEF HeldBytes
      <4> QED
        BY <2>2, <2>4, <3>2, <4>1, <4>2, <4>3
    <3> QED
      BY <3>3
  <2>6. CASE Current.size = 0
    <3>1. Bytes(mine) = {}
      BY <1>2, <2>1, <2>6 DEF Bytes
    <3>2. me \notin Stored'
      BY <1>1, <1>2, <2>6 DEF Stored
    <3> HIDE DEF mine
    <3>3. Stored' = Stored /\ Stored \subseteq Objects
      BY <1>7, <2>2, <2>3, <3>2 DEF Stored
    <3>4. \A i \in Stored : Occupied(i)' = Occupied(i)
      BY <2>2, <2>3, <3>3
    <3> QED
      BY <3>1, <3>3, <3>4 DEF HeldBytes, Bytes
  <2> QED
    BY <1>2, <2>5, <2>6
<1>9. BytesOf(blocks) = BytesOf(blocks') \cup Bytes(mine)
  BY <1>1, <1>2, TakenBytes DEF Eligible
<1>10. Conserved'
  <2>1. BytesOf(script) = BytesOf(blocks) \cup HeldBytes
    BY <1>1 DEF PlaceInv, Conserved
  <2>2. BytesOf(script)' = BytesOf(script) /\ BytesOf(blocks)' = BytesOf(blocks')
    BY <1>1 DEF BytesOf, Bytes
  <2> HIDE DEF mine
  <2> QED
    BY <1>8, <1>9, <2>1, <2>2 DEF Conserved
<1>11. GivesUpOnlyWhenFull'
  BY <1>1 DEF GivesUpOnlyWhenFull
<1> QED
  BY <1>1, <1>6, <1>7, <1>10, <1>11 DEF PlaceInv

\* The loop ends: without a block, without memory or with all objects placed.
LEMMA EndingPlacement ==
    RamInv /\ OrderInv /\ PlaceInv /\ (NoBlockLeft \/ OutOfMemory \/ AllPlaced) => PlaceInv'
<1> SUFFICES ASSUME RamInv, OrderInv, PlaceInv, NoBlockLeft \/ OutOfMemory \/ AllPlaced
             PROVE  PlaceInv'
  OBVIOUS
<1>1. /\ phase = "place" /\ phase' = "done" /\ error = "ok"
      /\ UNCHANGED <<table, script, order, object, block, address>>
  BY DEF NoBlockLeft, OutOfMemory, AllPlaced, NeedsSplit, Fitting, Looking, Finish, PlaceInv,
         inputs, sorting
<1>2. Objects' = Objects /\ Current' = Current /\ SizesKnown' = SizesKnown
      /\ Stored' = Stored /\ HeldBytes' = HeldBytes
  BY <1>1 DEF Objects, Current, SizesKnown, Stored, HeldBytes, Occupied
<1>3. Conserved'
  <2>1. error' = "memory" \/ blocks' = blocks
    BY DEF NoBlockLeft, OutOfMemory, AllPlaced, Finish
  <2> QED
    BY <1>1, <1>2, <2>1 DEF PlaceInv, Conserved, BytesOf, Bytes
<1>4. GivesUpOnlyWhenFull'
  <2>1. CASE NoBlockLeft
    <3>1. blocks' = blocks /\ object \in Objects /\ block > Len(blocks)
      BY <2>1 DEF NoBlockLeft, RamInv, TypeOK
    <3>2. \A j \in DOMAIN blocks : Places(Current, blocks[j]) = {}
      <4>1. \A j \in DOMAIN blocks : j \in 1 .. block - 1
        BY <3>1 DEF RamInv, TypeOK
      <4> QED
        BY <1>1, <3>1, <4>1 DEF PlaceInv
    <3>3. ASSUME Current.zp, NEW i \in Objects, address[i] # Unplaced
          PROVE  table[i].zp
      <4>1. PICK k \in 1 .. object - 1 : order[k] = i
        BY <3>3 DEF PlaceInv
      <4>2. k \in Objects /\ k < object
        BY <3>1 DEF Objects
      <4>3. Ordered(k, object)
        <5>1. ~Together(k, object)
          BY <1>1 DEF Together, OrderInv
        <5> QED
          BY <1>1, <3>1, <4>2, <5>1 DEF OrderInv
      <4> QED
        BY <3>3, <4>1, <4>3 DEF Ordered, AtLeast, Current
    <3> QED
      BY <1>1, <1>2, <3>1, <3>2, <3>3 DEF GivesUpOnlyWhenFull
  <2>2. CASE OutOfMemory \/ AllPlaced
    BY <2>2 DEF OutOfMemory, AllPlaced, Finish, GivesUpOnlyWhenFull
  <2> QED
    BY <2>1, <2>2
<1> QED
  BY <1>1, <1>2, <1>3, <1>4 DEF PlaceInv

RamLoopInv == RamInv /\ OrderInv /\ PlaceInv

LEMMA RamLoopStep == RamLoopInv /\ [Next]_vars => RamLoopInv'
<1> SUFFICES ASSUME RamLoopInv, [Next]_vars PROVE RamLoopInv'
  OBVIOUS
<1>1. RamInv' /\ OrderInv'
  BY StepTypes, OrderStep DEF RamLoopInv
<1>2. CASE UNCHANGED vars
  <2>1. PlaceInv'
    <3>1. UNCHANGED <<table, script, phase, error, order, blocks, object, block, address>>
      BY <1>2 DEF vars, inputs, sorting, placement
    <3>2. GivesUpOnlyWhenFull' <=> GivesUpOnlyWhenFull
      BY <3>1 DEF GivesUpOnlyWhenFull, SizesKnown, Objects, Current
    <3>3. Conserved' <=> Conserved
      <4>1. HeldBytes' = HeldBytes
        BY <3>1 DEF HeldBytes, Stored, Objects, Occupied
      <4> QED
        BY <3>1, <4>1 DEF Conserved, BytesOf, Bytes
    <3> QED
      BY <3>1, <3>2, <3>3 DEF RamLoopInv, PlaceInv, Objects, Current
  <2> QED
    BY <1>1, <2>1 DEF RamLoopInv
<1> QED
  BY <1>1, <1>2, BeforePlacement, PassingOver, TakingABlock, EndingPlacement DEF RamLoopInv, Next

LEMMA RamLoopAlways == Spec => []RamLoopInv
<1>1. Init => RamLoopInv
  BY InitTypes, InitOrder, InitPlace DEF RamLoopInv
<1> QED
  BY <1>1, RamLoopStep, PTL DEF Spec

-----------------------------------------------------------------------------
(* The specified sort *)

\* A nonempty set of naturals has a least member.
LEMMA LeastNatural ==
    ASSUME NEW S \in SUBSET Nat, S # {}
    PROVE  \E i \in S : \A j \in S : i <= j
<1> DEFINE R == {ss \in Nat \X Nat : ss[1] < ss[2]}
<1>1. IsWellFoundedOn(R, Nat)
  BY NatLessThanWellFounded DEF OpToRel
<1> HIDE DEF R
<1>2. PICK i \in S : \A j \in S : ~(<<j, i>> \in R)
  BY <1>1, WFMin
<1>3. ASSUME NEW j \in S, j < i PROVE FALSE
  BY <1>2, <1>3 DEF R
<1> QED
  BY <1>2, <1>3

\* Induction over a set: what holds of 0 and of a successor holds of every natural.
LEMMA Climbing ==
    ASSUME NEW S, 0 \in S, \A n \in Nat : n \in S => n + 1 \in S
    PROVE  Nat \subseteq S
<1> SUFFICES ASSUME Nat \ S # {} PROVE FALSE
  OBVIOUS
<1>1. PICK n \in Nat \ S : \A m \in Nat \ S : n <= m
  BY LeastNatural
<1>2. n # 0 /\ n - 1 \in Nat /\ n - 1 \in S /\ (n - 1) + 1 = n
  BY <1>1
<1> QED
  BY <1>1, <1>2

LEMMA ExchangedIs ==
    ASSUME NEW objs \in Seq(Object), NEW a \in Arrays(objs),
           NEW i \in DOMAIN objs, NEW j \in DOMAIN objs
    PROVE  /\ Exchanged(a, i, j) \in Arrays(objs)
           /\ \A k \in DOMAIN objs :
                 Exchanged(a, i, j)[k] = IF k = j THEN a[i] ELSE IF k = i THEN a[j] ELSE a[k]
BY DEF Exchanged, Arrays

Agree(a, b, p, r) == \A x \in p .. r : a[x] = b[x]

\* One turn of the loop of the specification.
LEMMA PassedIs ==
    ASSUME NEW objs \in Seq(Object), NEW s \in Loops(objs), s.j # s.r
    PROVE  /\ Passed(objs, s) \in Loops(objs)
           /\ Passed(objs, s).j = s.j + 1 /\ Passed(objs, s).r = s.r
           /\ s.i <= Passed(objs, s).i
           /\ \A x \in DOMAIN objs :
                 x <= s.i \/ x >= s.r => Passed(objs, s).a[x] = s.a[x]
<1>1. /\ s.a \in Arrays(objs) /\ s.i \in 0 .. Len(objs) /\ s.j \in DOMAIN objs
      /\ s.r \in DOMAIN objs /\ s.i < s.j /\ s.j < s.r
      /\ DOMAIN objs = 1 .. Len(objs) /\ Len(objs) \in Nat
  BY DEF Loops
<1> DEFINE D == DOMAIN objs
           A == Arrays(objs)
           e == Exchanged(s.a, s.i + 1, s.j)
           n == Len(objs)
<1>2. s.i + 1 \in DOMAIN objs /\ s.j + 1 \in DOMAIN objs
  BY <1>1
<1>3. e \in A /\ \A k \in D : e[k] = IF k = s.j THEN s.a[s.i + 1]
                                     ELSE IF k = s.i + 1 THEN s.a[s.j] ELSE s.a[k]
  <2> DEFINE b == s.a
             x == s.i + 1
             y == s.j
  <2>1. b \in Arrays(objs) /\ x \in DOMAIN objs /\ y \in DOMAIN objs
    BY <1>1, <1>2
  <2> HIDE DEF b, x, y
  <2>2. /\ Exchanged(b, x, y) \in Arrays(objs)
        /\ \A k \in DOMAIN objs :
              Exchanged(b, x, y)[k] = IF k = y THEN b[x] ELSE IF k = x THEN b[y] ELSE b[k]
    BY <2>1, ExchangedIs
  <2> QED
    BY <2>2 DEF b, x, y
<1> HIDE DEF e
<1>4. CASE AtLeast(objs[s.a[s.j]], objs[s.a[s.r]])
  <2> DEFINE t == [a |-> e, i |-> s.i + 1, j |-> s.j + 1, r |-> s.r]
  <2>1. Passed(objs, s) = t
    BY <1>4 DEF Passed, e
  <2>2. t \in Loops(objs)
    BY <1>1, <1>2, <1>3 DEF Loops
  <2>3. \A x \in D : x <= s.i \/ x >= s.r => e[x] = s.a[x]
    BY <1>1, <1>2, <1>3
  <2> QED
    BY <1>1, <2>1, <2>2, <2>3
<1>5. CASE ~AtLeast(objs[s.a[s.j]], objs[s.a[s.r]])
  <2> DEFINE t == [a |-> s.a, i |-> s.i, j |-> s.j + 1, r |-> s.r]
  <2>1. Passed(objs, s) = t
    BY <1>5 DEF Passed
  <2>2. t \in Loops(objs)
    BY <1>1, <1>2 DEF Loops
  <2> QED
    BY <1>1, <2>1, <2>2
<1> QED
  BY <1>4, <1>5

\* The loop is well defined: it ends at the pivot.
LEMMA PartitionIs ==
    ASSUME NEW objs \in Seq(Object)
    PROVE  \A s \in Loops(objs) :
              Partition(objs)[s] = IF s.j = s.r THEN s ELSE Partition(objs)[Passed(objs, s)]
<1> DEFINE L         == Loops(objs)
           next(s)   == Passed(objs, s)
           body(g, s) == IF s.j = s.r THEN s ELSE g[next(s)]
           good(g, n) == \A s \in L : s.r - s.j < n => g[s] = body(g, s)
           S         == {n \in Nat : \E g \in [L -> L] : good(g, n)}
<1>1. \A s \in L : s.j \in Nat /\ s.r \in Nat /\ s.j <= s.r /\ s.r - s.j \in Nat
  BY DEF Loops
<1>2. \A s \in L : s.j # s.r => next(s) \in L /\ next(s).j = s.j + 1 /\ next(s).r = s.r
  BY PassedIs
<1> HIDE DEF L, next
<1>3. 0 \in S
  <2>1. [s \in L |-> s] \in [L -> L]
    OBVIOUS
  <2>2. good([s \in L |-> s], 0)
    BY <1>1
  <2> QED
    BY <2>1, <2>2
<1>4. ASSUME NEW n \in Nat, n \in S PROVE n + 1 \in S
  <2>1. PICK g \in [L -> L] : good(g, n)
    BY <1>4
  <2> DEFINE h == [s \in L |-> IF s.r - s.j = n THEN body(g, s) ELSE g[s]]
  <2>2. h \in [L -> L]
    BY <1>2
  <2>3. ASSUME NEW s \in L, s.r - s.j < n + 1 PROVE h[s] = body(h, s)
    <3>1. CASE s.j = s.r
      BY <1>1, <2>1, <2>3, <3>1
    <3>2. CASE s.j # s.r
      <4>1. next(s) \in L /\ next(s).r - next(s).j = (s.r - s.j) - 1
        BY <1>1, <1>2, <3>2
      <4>2. h[next(s)] = g[next(s)]
        BY <1>1, <2>3, <4>1
      <4>3. h[s] = g[next(s)]
        BY <1>1, <2>1, <2>3, <3>2
      <4> QED
        BY <3>2, <4>2, <4>3
    <3> QED
      BY <3>1, <3>2
  <2>4. good(h, n + 1)
    BY <2>3
  <2> HIDE DEF h, good
  <2> QED
    BY <2>2, <2>4
<1>5. Nat \subseteq S
  <2> HIDE DEF S
  <2> QED
    BY <1>3, <1>4, Climbing
<1>6. \E g : g = [s \in L |-> body(g, s)]
  <2>1. Len(objs) \in Nat /\ Len(objs) \in S
    <3> HIDE DEF S
    <3> QED
      BY <1>5
  <2>2. PICK g \in [L -> L] : good(g, Len(objs))
    BY <2>1
  <2>3. \A s \in L : s.r - s.j < Len(objs)
    BY <2>1 DEF L, Loops
  <2>4. g = [s \in L |-> body(g, s)]
    BY <2>2, <2>3
  <2> QED
    BY <2>4
<1> DEFINE f == CHOOSE g : g = [s \in L |-> body(g, s)]
<1>7. f = [s \in L |-> body(f, s)]
  BY <1>6
<1>8. Partition(objs) = f
  BY DEF Partition, L, next
<1> HIDE DEF f
<1> QED
  BY <1>7, <1>8 DEF L, next

\* What the loop leaves alone: everything up to i, the pivot and what follows it.
LEMMA PartitionDoes ==
    ASSUME NEW objs \in Seq(Object), NEW s \in Loops(objs)
    PROVE  LET t == Partition(objs)[s]
           IN /\ t \in Loops(objs) /\ t.j = s.r /\ t.r = s.r /\ s.i <= t.i
              /\ \A x \in DOMAIN objs : x <= s.i \/ x >= s.r => t.a[x] = s.a[x]
<1> DEFINE L == Loops(objs)
           P == Partition(objs)
           D == DOMAIN objs
           next(u) == Passed(objs, u)
           kept(u, t) == /\ t \in L /\ t.j = u.r /\ t.r = u.r /\ u.i <= t.i
                         /\ \A x \in D : x <= u.i \/ x >= u.r => t.a[x] = u.a[x]
           S == {n \in Nat : \A u \in L : u.r - u.j = n => kept(u, P[u])}
<1>1. \A u \in L : /\ u.i \in Nat /\ u.j \in Nat /\ u.r \in Nat /\ u.j <= u.r
                   /\ u.r - u.j \in Nat
  BY DEF Loops
<1>2. \A u \in L : u.j # u.r => /\ next(u) \in L /\ next(u).j = u.j + 1 /\ next(u).r = u.r
                                /\ u.i <= next(u).i
                                /\ \A x \in D : x <= u.i \/ x >= u.r => next(u).a[x] = u.a[x]
  BY PassedIs
<1>3. \A u \in L : P[u] = IF u.j = u.r THEN u ELSE P[next(u)]
  BY PartitionIs
<1>4. D \subseteq Nat
  OBVIOUS
<1> HIDE DEF L, P, D, next
<1>5. 0 \in S
  <2>1. ASSUME NEW u \in L, u.r - u.j = 0 PROVE kept(u, P[u])
    <3>1. u.j = u.r /\ P[u] = u
      BY <1>1, <1>3, <2>1
    <3> QED
      BY <1>1, <3>1
  <2> QED
    BY <2>1
<1>6. ASSUME NEW n \in Nat, n \in S PROVE n + 1 \in S
  <2>1. ASSUME NEW u \in L, u.r - u.j = n + 1 PROVE kept(u, P[u])
    <3>1. u.j # u.r /\ P[u] = P[next(u)]
      BY <1>1, <1>3, <2>1
    <3>2. next(u) \in L /\ next(u).r - next(u).j = n
      BY <1>1, <1>2, <2>1, <3>1
    <3>3. kept(next(u), P[next(u)])
      BY <1>6, <3>2
    <3>4. next(u).i \in Nat /\ P[u].i \in Nat /\ u.i \in Nat /\ next(u).r = u.r /\ u.i <= next(u).i
      BY <1>1, <1>2, <3>1, <3>2, <3>3
    <3>5. ASSUME NEW x \in D, x <= u.i \/ x >= u.r PROVE P[u].a[x] = u.a[x]
      <4>1. x <= next(u).i \/ x >= next(u).r
        BY <1>4, <3>4, <3>5
      <4> QED
        BY <1>2, <3>1, <3>3, <3>5, <4>1
    <3> QED
      BY <3>1, <3>3, <3>4, <3>5
  <2> HIDE DEF kept
  <2> QED
    BY <2>1
<1>7. s \in L /\ s.r - s.j \in S
  <2> HIDE DEF S
  <2> QED
    BY <1>1, <1>5, <1>6, Climbing DEF L
<1>8. kept(s, P[s])
  BY <1>7
<1> QED
  BY <1>8 DEF L, P, D

\* The loop looks at nothing outside the range it sorts.
LEMMA PartitionLocal ==
    ASSUME NEW objs \in Seq(Object), NEW p \in Nat \ {0},
           NEW s \in Loops(objs), NEW t \in Loops(objs),
           s.i = t.i, s.j = t.j, s.r = t.r, p <= s.i + 1, Agree(s.a, t.a, p, s.r)
    PROVE  /\ Partition(objs)[s].i = Partition(objs)[t].i
           /\ Agree(Partition(objs)[s].a, Partition(objs)[t].a, p, s.r)
<1> DEFINE L == Loops(objs)
           P == Partition(objs)
           next(u) == Passed(objs, u)
           same(u, v) == u.i = v.i /\ u.j = v.j /\ u.r = v.r /\ p <= u.i + 1 /\ Agree(u.a, v.a, p, u.r)
           equal(u, v) == P[u].i = P[v].i /\ Agree(P[u].a, P[v].a, p, u.r)
           S == {n \in Nat : \A u, v \in L : u.r - u.j = n /\ same(u, v) => equal(u, v)}
<1>1. \A u \in L : /\ u.i \in Nat /\ u.j \in Nat /\ u.r \in Nat /\ u.j <= u.r /\ u.i < u.j
                   /\ u.r - u.j \in Nat
  BY DEF Loops
<1>2. \A u \in L : u.j # u.r => next(u) \in L /\ next(u).j = u.j + 1 /\ next(u).r = u.r
  BY PassedIs
<1>3. \A u \in L : P[u] = IF u.j = u.r THEN u ELSE P[next(u)]
  BY PartitionIs
<1>4. ASSUME NEW u \in L, NEW v \in L, same(u, v), u.j # u.r PROVE same(next(u), next(v))
  <2>1. /\ u.a \in Arrays(objs) /\ v.a \in Arrays(objs) /\ u.i + 1 \in DOMAIN objs
        /\ u.j \in DOMAIN objs /\ \A x \in p .. u.r : x \in DOMAIN objs
    BY <1>1, <1>4 DEF Loops
  <2>2. u.j \in p .. u.r /\ u.r \in p .. u.r /\ u.i + 1 \in p .. u.r
    <3>1. /\ u.i \in Nat /\ u.j \in Nat /\ u.r \in Nat /\ u.j <= u.r /\ u.i < u.j
          /\ p <= u.i + 1 /\ u.j # u.r
      BY <1>1, <1>4
    <3> QED
      BY <3>1
  <2>3. u.a[u.j] = v.a[u.j] /\ u.a[u.r] = v.a[u.r] /\ u.a[u.i + 1] = v.a[u.i + 1]
    BY <1>4, <2>2 DEF Agree
  <2>4. CASE AtLeast(objs[u.a[u.j]], objs[u.a[u.r]])
    <3> DEFINE d == Exchanged(u.a, u.i + 1, u.j)
               e == Exchanged(v.a, u.i + 1, u.j)
    <3>1. /\ next(u) = [a |-> d, i |-> u.i + 1, j |-> u.j + 1, r |-> u.r]
          /\ next(v) = [a |-> e, i |-> u.i + 1, j |-> u.j + 1, r |-> u.r]
      BY <1>4, <2>3, <2>4 DEF Passed
    <3>2. Agree(d, e, p, u.r)
      <4> SUFFICES ASSUME NEW x \in p .. u.r PROVE d[x] = e[x]
        BY DEF Agree
      <4> DEFINE b == u.a
                 c == v.a
                 y == u.i + 1
                 z == u.j
      <4>1. /\ b \in Arrays(objs) /\ c \in Arrays(objs) /\ y \in DOMAIN objs /\ z \in DOMAIN objs
            /\ x \in DOMAIN objs /\ b[x] = c[x] /\ b[y] = c[y] /\ b[z] = c[z]
        BY <1>4, <2>1, <2>3 DEF Agree
      <4> HIDE DEF b, c, y, z
      <4>2. /\ Exchanged(b, y, z)[x] = IF x = z THEN b[y] ELSE IF x = y THEN b[z] ELSE b[x]
            /\ Exchanged(c, y, z)[x] = IF x = z THEN c[y] ELSE IF x = y THEN c[z] ELSE c[x]
        BY <4>1, ExchangedIs
      <4> QED
        BY <4>1, <4>2 DEF b, c, y, z
    <3> HIDE DEF d, e
    <3>3. next(u).r = u.r /\ p <= (u.i + 1) + 1
      BY <1>1, <1>4, <3>1
    <3> QED
      BY <3>1, <3>2, <3>3
  <2>5. CASE ~AtLeast(objs[u.a[u.j]], objs[u.a[u.r]])
    <3>1. /\ next(u) = [a |-> u.a, i |-> u.i, j |-> u.j + 1, r |-> u.r]
          /\ next(v) = [a |-> v.a, i |-> u.i, j |-> u.j + 1, r |-> u.r]
      BY <1>4, <2>3, <2>5 DEF Passed
    <3> QED
      BY <1>4, <3>1
  <2> QED
    BY <2>4, <2>5
<1> HIDE DEF L, P, next
<1>5. 0 \in S
  <2>1. ASSUME NEW u \in L, NEW v \in L, u.r - u.j = 0, same(u, v) PROVE equal(u, v)
    <3>1. u.j = u.r /\ v.j = v.r /\ P[u] = u /\ P[v] = v
      BY <1>1, <1>3, <2>1
    <3> QED
      BY <2>1, <3>1
  <2> QED
    BY <2>1
<1>6. ASSUME NEW n \in Nat, n \in S PROVE n + 1 \in S
  <2>1. ASSUME NEW u \in L, NEW v \in L, u.r - u.j = n + 1, same(u, v) PROVE equal(u, v)
    <3>1. u.j # u.r /\ v.j # v.r /\ P[u] = P[next(u)] /\ P[v] = P[next(v)]
      BY <1>1, <1>3, <2>1
    <3>2. next(u) \in L /\ next(v) \in L /\ next(u).r - next(u).j = n /\ next(u).r = u.r
      BY <1>1, <1>2, <2>1, <3>1
    <3>3. same(next(u), next(v))
      BY <1>4, <2>1, <3>1
    <3>4. equal(next(u), next(v))
      BY <1>6, <3>2, <3>3
    <3> QED
      BY <3>1, <3>2, <3>4
  <2> HIDE DEF same, equal
  <2> QED
    BY <2>1
<1>7. s \in L /\ t \in L /\ s.r - s.j \in S
  <2> HIDE DEF S
  <2> QED
    BY <1>1, <1>5, <1>6, Climbing DEF L
<1>8. equal(s, t)
  BY <1>7
<1> QED
  BY <1>8 DEF L, P

\* A call of the specified sort: its loop, where it puts the pivot, its two calls.
Start(c)        == [a |-> c.a, i |-> c.p - 1, j |-> c.p, r |-> c.r]
Middle(objs, s) == Partition(objs)[s].i + 1
Parted(objs, s) == Exchanged(Partition(objs)[s].a, Middle(objs, s), s.r)
Lower(objs, s, p) == [a |-> Parted(objs, s), p |-> p, r |-> Middle(objs, s) - 1]
Upper(objs, s, a) == [a |-> a, p |-> Middle(objs, s) + 1, r |-> s.r]

\* What a call ends with whose loop is at s.
Ending(objs, s, p) == Sort(objs)[Upper(objs, s, Sort(objs)[Lower(objs, s, p)])]

\* The two calls are calls on shorter ranges.
LEMMA PartsAre ==
    ASSUME NEW objs \in Seq(Object), NEW s \in Loops(objs), NEW p \in 1 .. Len(objs),
           p <= s.i + 1
    PROVE  /\ Middle(objs, s) \in p .. s.r
           /\ Parted(objs, s) \in Arrays(objs)
           /\ Lower(objs, s, p) \in Calls(objs)
           /\ \A a \in Arrays(objs) : Upper(objs, s, a) \in Calls(objs)
           /\ s.r \in DOMAIN objs /\ p <= s.r
<1> DEFINE t == Partition(objs)[s]
<1>1. t \in Loops(objs) /\ t.j = s.r /\ s.i <= t.i
  BY PartitionDoes
<1>2. /\ t.a \in Arrays(objs) /\ t.i \in Nat /\ t.i < t.j /\ s.r \in DOMAIN objs
      /\ s.i \in Nat /\ s.i < s.r /\ DOMAIN objs = 1 .. Len(objs) /\ Len(objs) \in Nat
  BY <1>1 DEF Loops
<1> HIDE DEF t
<1>3. t.i + 1 \in p .. s.r /\ t.i + 1 \in DOMAIN objs
  BY <1>1, <1>2
<1>4. Exchanged(t.a, t.i + 1, s.r) \in Arrays(objs)
  <2> DEFINE b == t.a
             x == t.i + 1
             y == s.r
  <2>1. b \in Arrays(objs) /\ x \in DOMAIN objs /\ y \in DOMAIN objs
    BY <1>2, <1>3
  <2> HIDE DEF b, x, y
  <2>2. Exchanged(b, x, y) \in Arrays(objs)
    BY <2>1, ExchangedIs
  <2> QED
    BY <2>2 DEF b, x, y
<1>5. Middle(objs, s) = t.i + 1 /\ Parted(objs, s) \in Arrays(objs)
  BY <1>4 DEF Middle, Parted, t
<1>6. Lower(objs, s, p) \in Calls(objs)
  BY <1>2, <1>3, <1>5 DEF Lower, Calls
<1>7. ASSUME NEW a \in Arrays(objs) PROVE Upper(objs, s, a) \in Calls(objs)
  BY <1>2, <1>3, <1>5 DEF Upper, Calls
<1> QED
  BY <1>2, <1>3, <1>5, <1>6, <1>7

LEMMA StartIs ==
    ASSUME NEW objs \in Seq(Object), NEW c \in Calls(objs), c.p < c.r
    PROVE  Start(c) \in Loops(objs) /\ c.p \in 1 .. Len(objs) /\ c.p <= Start(c).i + 1
BY DEF Start, Loops, Calls

\* The calls are well defined: they end at ranges of at most one element.
LEMMA SortIs ==
    ASSUME NEW objs \in Seq(Object)
    PROVE  \A c \in Calls(objs) :
              Sort(objs)[c] = IF c.p >= c.r THEN c.a ELSE Ending(objs, Start(c), c.p)
<1> DEFINE C == Calls(objs)
           A == Arrays(objs)
           lower(c)    == Lower(objs, Start(c), c.p)
           upper(c, a) == Upper(objs, Start(c), a)
           body(g, c)  == IF c.p >= c.r THEN c.a ELSE g[upper(c, g[lower(c)])]
           good(g, n)  == \A c \in C : c.r - c.p < n => g[c] = body(g, c)
           S           == {n \in Nat : \E g \in [C -> A] : good(g, n)}
<1>1. \A c \in C : c.p \in Int /\ c.r \in Int /\ c.a \in A /\ c.r - c.p <= Len(objs)
  BY DEF Calls
<1>2. ASSUME NEW c \in C, c.p < c.r
      PROVE  /\ lower(c) \in C /\ lower(c).r - lower(c).p < c.r - c.p
             /\ \A a \in A : upper(c, a) \in C /\ upper(c, a).r - upper(c, a).p < c.r - c.p
  <2>1. Start(c) \in Loops(objs) /\ c.p \in 1 .. Len(objs) /\ c.p <= Start(c).i + 1 /\ Start(c).r = c.r
    BY <1>2, StartIs DEF Start
  <2>2. Middle(objs, Start(c)) \in c.p .. c.r /\ lower(c) \in C /\ \A a \in A : upper(c, a) \in C
    BY <2>1, PartsAre
  <2> QED
    BY <1>1, <2>1, <2>2 DEF Lower, Upper
<1> HIDE DEF C, A, lower, upper
<1>3. ASSUME NEW g \in [C -> A], NEW c \in C PROVE body(g, c) \in A
  BY <1>1, <1>2
<1>4. 0 \in S
  <2> DEFINE g == [c \in C |-> c.a]
  <2>1. g \in [C -> A]
    BY <1>1
  <2>2. good(g, 0)
    BY <1>1
  <2> HIDE DEF g, good
  <2> QED
    BY <2>1, <2>2
<1>5. ASSUME NEW n \in Nat, n \in S PROVE n + 1 \in S
  <2>1. PICK g \in [C -> A] : good(g, n)
    BY <1>5
  <2> DEFINE h == [c \in C |-> IF c.r - c.p = n THEN body(g, c) ELSE g[c]]
  <2>2. h \in [C -> A]
    BY <1>3
  <2>3. ASSUME NEW c \in C, c.r - c.p < n + 1 PROVE h[c] = body(h, c)
    <3>0. h[c] = body(g, c)
      BY <1>1, <2>1, <2>3
    <3> HIDE DEF h
    <3>1. CASE c.p >= c.r
      BY <3>0, <3>1
    <3>2. CASE c.p < c.r
      <4> DEFINE l == lower(c)
                 u == upper(c, g[l])
      <4>1. /\ l \in C /\ l.r - l.p < c.r - c.p /\ g[l] \in A
            /\ u \in C /\ u.r - u.p < c.r - c.p
        BY <1>2, <3>2
      <4> HIDE DEF l, u
      <4>2. \A d \in C : d.r - d.p < c.r - c.p => h[d] = g[d]
        BY <1>1, <2>3 DEF h
      <4>3. h[l] = g[l] /\ h[u] = g[u]
        BY <4>1, <4>2
      <4>4. ~(c.p >= c.r)
        BY <1>1, <3>2
      <4> QED
        BY <3>0, <4>3, <4>4 DEF l, u
    <3> QED
      BY <1>1, <3>1, <3>2
  <2>4. good(h, n + 1)
    BY <2>3
  <2> HIDE DEF h, good
  <2> QED
    BY <2>2, <2>4
<1>6. Nat \subseteq S
  <2> HIDE DEF S
  <2> QED
    BY <1>4, <1>5, Climbing
<1>7. \E g : g = [c \in C |-> body(g, c)]
  <2> DEFINE n == Len(objs) + 1
  <2>1. n \in Nat /\ n \in S
    <3> HIDE DEF S
    <3> QED
      BY <1>6
  <2>2. PICK g \in [C -> A] : good(g, n)
    BY <2>1
  <2>3. \A c \in C : c.r - c.p < n
    BY <1>1
  <2>4. g = [c \in C |-> body(g, c)]
    BY <2>2, <2>3
  <2> QED
    BY <2>4
<1> DEFINE done(c) == Partition(objs)[[a |-> c.a, i |-> c.p - 1, j |-> c.p, r |-> c.r]]
           q(c)    == done(c).i + 1
           one(c)  == [a |-> Exchanged(done(c).a, q(c), c.r), p |-> c.p, r |-> q(c) - 1]
           two(c, a) == [a |-> a, p |-> q(c) + 1, r |-> c.r]
           said(g, c) == IF c.p >= c.r THEN c.a ELSE g[two(c, g[one(c)])]
           f == CHOOSE g : g = [c \in Calls(objs) |-> said(g, c)]
<1>8. Sort(objs) = f
  BY DEF Sort
<1>9. \A c : Start(c).r = c.r /\ q(c) = Middle(objs, Start(c)) /\ one(c) = lower(c)
             /\ \A a : two(c, a) = upper(c, a)
  <2>1. \A c : Start(c).r = c.r /\ done(c) = Partition(objs)[Start(c)]
    BY DEF Start
  <2> QED
    BY <2>1 DEF lower, upper, Lower, Upper, Parted, Middle
<1>10. \A g, c : said(g, c) = body(g, c)
  <2> HIDE DEF one, two
  <2> QED
    BY <1>9
<1>11. f = [c \in C |-> said(f, c)]
  <2> HIDE DEF said, body
  <2>1. PICK g : g = [c \in C |-> body(g, c)]
    BY <1>7
  <2>2. g = [c \in Calls(objs) |-> said(g, c)]
    BY <1>10, <2>1 DEF C
  <2> QED
    BY <2>2 DEF C
<1> HIDE DEF f, said
<1>12. ASSUME NEW c \in C PROVE f[c] = body(f, c)
  BY <1>10, <1>11
<1> QED
  BY <1>8, <1>12 DEF C, lower, upper, Ending

\* Placing the pivot stays inside the range too, and looks at nothing outside it.
LEMMA PartedDoes ==
    ASSUME NEW objs \in Seq(Object), NEW s \in Loops(objs), NEW p \in 1 .. Len(objs),
           p <= s.i + 1
    PROVE  \A x \in DOMAIN objs : x < p \/ x > s.r => Parted(objs, s)[x] = s.a[x]
<1> DEFINE b == Partition(objs)[s].a
           y == Middle(objs, s)
           z == s.r
<1>1. /\ b \in Arrays(objs)
      /\ \A x \in DOMAIN objs : x <= s.i \/ x >= s.r => b[x] = s.a[x]
  BY PartitionDoes DEF Loops
<1>2. y \in p .. z /\ z \in DOMAIN objs /\ y \in DOMAIN objs /\ s.i \in Nat
  BY PartsAre DEF Loops
<1> HIDE DEF b, y, z
<1>3. \A x \in DOMAIN objs :
          Exchanged(b, y, z)[x] = IF x = z THEN b[y] ELSE IF x = y THEN b[z] ELSE b[x]
  BY <1>1, <1>2, ExchangedIs
<1>4. ASSUME NEW x \in DOMAIN objs, x < p \/ x > s.r PROVE Exchanged(b, y, z)[x] = s.a[x]
  <2>1. x # z /\ x # y /\ (x <= s.i \/ x >= s.r)
    BY <1>2, <1>4 DEF z
  <2> QED
    BY <1>1, <1>3, <2>1
<1> QED
  BY <1>4 DEF Parted, b, y, z

LEMMA PartedLocal ==
    ASSUME NEW objs \in Seq(Object), NEW p \in 1 .. Len(objs),
           NEW s \in Loops(objs), NEW t \in Loops(objs),
           s.i = t.i, s.j = t.j, s.r = t.r, p <= s.i + 1, Agree(s.a, t.a, p, s.r)
    PROVE  /\ Middle(objs, s) = Middle(objs, t)
           /\ Agree(Parted(objs, s), Parted(objs, t), p, s.r)
<1> DEFINE b == Partition(objs)[s].a
           c == Partition(objs)[t].a
           y == Middle(objs, s)
           z == s.r
<1>1. Partition(objs)[s].i = Partition(objs)[t].i /\ Agree(b, c, p, z)
  BY PartitionLocal
<1>2. Middle(objs, t) = y /\ t.r = z
  BY <1>1 DEF Middle
<1>3. b \in Arrays(objs) /\ c \in Arrays(objs)
  BY PartitionDoes DEF Loops
<1>4. y \in p .. z /\ z \in DOMAIN objs /\ z \in p .. z /\ \A x \in p .. z : x \in DOMAIN objs
  BY PartsAre DEF Loops
<1> HIDE DEF b, c, y, z
<1>5. ASSUME NEW x \in p .. z PROVE Exchanged(b, y, z)[x] = Exchanged(c, y, z)[x]
  <2>1. /\ Exchanged(b, y, z)[x] = IF x = z THEN b[y] ELSE IF x = y THEN b[z] ELSE b[x]
        /\ Exchanged(c, y, z)[x] = IF x = z THEN c[y] ELSE IF x = y THEN c[z] ELSE c[x]
    <3>1. x \in DOMAIN objs /\ y \in DOMAIN objs /\ z \in DOMAIN objs
      BY <1>4
    <3> QED
      BY <1>3, <3>1, ExchangedIs
  <2>2. b[x] = c[x] /\ b[y] = c[y] /\ b[z] = c[z]
    BY <1>1, <1>4 DEF Agree
  <2> QED
    BY <2>1, <2>2
<1>6. Parted(objs, s) = Exchanged(b, y, z) /\ Parted(objs, t) = Exchanged(c, y, z)
  BY <1>2 DEF Parted, b, c, y, z
<1> QED
  BY <1>2, <1>5, <1>6 DEF Agree, y, z

\* A call changes nothing outside its range.
LEMMA SortDoes ==
    ASSUME NEW objs \in Seq(Object), NEW d \in Calls(objs)
    PROVE  /\ Sort(objs)[d] \in Arrays(objs)
           /\ \A x \in DOMAIN objs : x < d.p \/ x > d.r => Sort(objs)[d][x] = d.a[x]
<1> DEFINE C == Calls(objs)
           A == Arrays(objs)
           D == DOMAIN objs
           T == Sort(objs)
           kept(c, b) == b \in A /\ \A x \in D : x < c.p \/ x > c.r => b[x] = c.a[x]
           S == {n \in Nat : \A c \in C : c.r - c.p < n => kept(c, T[c])}
<1>1. \A c \in C : c.p \in Int /\ c.r \in Int /\ c.a \in A /\ c.r - c.p \in Int
  BY DEF Calls
<1>2. \A c \in C : T[c] = IF c.p >= c.r THEN c.a ELSE Ending(objs, Start(c), c.p)
  BY SortIs
<1>3. 0 \in S
  <2>1. ASSUME NEW c \in C, c.r - c.p < 0 PROVE kept(c, T[c])
    <3>1. c.p >= c.r
      BY <1>1, <2>1
    <3> QED
      BY <1>1, <1>2, <3>1
  <2> HIDE DEF kept
  <2> QED
    BY <2>1
<1>4. ASSUME NEW n \in Nat, n \in S PROVE n + 1 \in S
  <2>1. ASSUME NEW c \in C, c.r - c.p < n + 1 PROVE kept(c, T[c])
    <3>1. CASE c.p >= c.r
      BY <1>1, <1>2, <3>1
    <3>2. CASE c.p < c.r
      <4> DEFINE s == Start(c)
                 p == c.p
                 l == Lower(objs, s, p)
                 u == Upper(objs, s, T[l])
      <4>1. s \in Loops(objs) /\ p \in 1 .. Len(objs) /\ p <= s.i + 1 /\ s.r = c.r /\ s.a = c.a
        BY <3>2, StartIs DEF Start
      <4> HIDE DEF s, p
      <4>2. /\ Middle(objs, s) \in p .. s.r /\ s.r \in D /\ D \subseteq Nat
            /\ l \in C /\ \A a \in A : Upper(objs, s, a) \in C
        BY <4>1, PartsAre
      <4>3. l.p = p /\ l.r = Middle(objs, s) - 1 /\ l.a = Parted(objs, s)
        BY DEF Lower
      <4>4. l.r - l.p < n
        BY <1>1, <2>1, <4>1, <4>2, <4>3 DEF p
      <4>5. kept(l, T[l])
        BY <1>4, <4>2, <4>4
      <4>6. u \in C /\ u.a = T[l] /\ u.p = Middle(objs, s) + 1 /\ u.r = s.r
        BY <4>2, <4>5 DEF Upper
      <4>7. u.r - u.p < n
        BY <1>1, <2>1, <4>1, <4>2, <4>6 DEF p
      <4>8. kept(u, T[u])
        BY <1>4, <4>6, <4>7
      <4>9. T[c] = T[u]
        <5>1. ~(c.p >= c.r)
          BY <1>1, <3>2
        <5> QED
          BY <1>2, <5>1 DEF Ending, s, p
      <4> HIDE DEF l, u
      <4>10. ASSUME NEW x \in D, x < c.p \/ x > c.r PROVE T[u][x] = c.a[x]
        <5>1. x < u.p \/ x > u.r
          BY <1>1, <4>1, <4>2, <4>6, <4>10 DEF p
        <5>2. x < l.p \/ x > l.r
          BY <1>1, <4>1, <4>2, <4>3, <4>10 DEF p
        <5>3. Parted(objs, s)[x] = c.a[x]
          BY <1>1, <4>1, <4>10, PartedDoes DEF p
        <5> QED
          BY <4>3, <4>5, <4>6, <4>8, <5>1, <5>2, <5>3
      <4> QED
        BY <4>8, <4>9, <4>10
    <3> QED
      BY <1>1, <3>1, <3>2
  <2> HIDE DEF kept
  <2> QED
    BY <2>1
<1>5. kept(d, T[d])
  <2> DEFINE n == IF d.r - d.p < 0 THEN 0 ELSE d.r - d.p + 1
  <2>1. n \in Nat /\ d.r - d.p < n
    BY <1>1
  <2>2. n \in S
    <3> HIDE DEF S, n
    <3> QED
      BY <1>3, <1>4, <2>1, Climbing
  <2> QED
    BY <2>1, <2>2
<1> QED
  BY <1>5

\* A call looks at nothing outside its range.
LEMMA SortLocal ==
    ASSUME NEW objs \in Seq(Object), NEW d \in Calls(objs), NEW e \in Calls(objs),
           d.p = e.p, d.r = e.r, Agree(d.a, e.a, d.p, d.r)
    PROVE  Agree(Sort(objs)[d], Sort(objs)[e], d.p, d.r)
<1> DEFINE C == Calls(objs)
           A == Arrays(objs)
           D == DOMAIN objs
           T == Sort(objs)
           same(b, c)  == b.p = c.p /\ b.r = c.r /\ Agree(b.a, c.a, b.p, b.r)
           equal(b, c) == Agree(T[b], T[c], b.p, b.r)
           S == {n \in Nat : \A b, c \in C : b.r - b.p < n /\ same(b, c) => equal(b, c)}
<1>1. \A c \in C : /\ c.p \in Nat \ {0} /\ c.r \in Int /\ c.a \in A /\ c.r - c.p \in Int
                   /\ \A x \in c.p .. c.r : x \in D
  BY DEF Calls
<1>2. \A c \in C : T[c] = IF c.p >= c.r THEN c.a ELSE Ending(objs, Start(c), c.p)
  BY SortIs
<1>3. 0 \in S
  <2>1. ASSUME NEW b \in C, NEW c \in C, b.r - b.p < 0 PROVE equal(b, c)
    <3>1. \A x \in b.p .. b.r : FALSE
      BY <1>1, <2>1
    <3> QED
      BY <3>1 DEF Agree
  <2> HIDE DEF same, equal
  <2> QED
    BY <2>1
<1>4. ASSUME NEW n \in Nat, n \in S PROVE n + 1 \in S
  <2>1. ASSUME NEW b \in C, NEW c \in C, b.r - b.p < n + 1, same(b, c) PROVE equal(b, c)
    <3>1. CASE b.p >= b.r
      <4>1. T[b] = b.a /\ T[c] = c.a
        BY <1>2, <2>1, <3>1
      <4> QED
        BY <2>1, <4>1
    <3>2. CASE b.p < b.r
      <4> DEFINE s == Start(b)
                 t == Start(c)
                 p == b.p
                 m == Middle(objs, s)
                 l == Lower(objs, s, p)
                 k == Lower(objs, t, p)
                 u == Upper(objs, s, T[l])
                 v == Upper(objs, t, T[k])
      <4>0. p \in Nat /\ b.r \in Int /\ c.p = p /\ c.r = b.r
        BY <1>1, <2>1
      <4>1. /\ s \in Loops(objs) /\ t \in Loops(objs) /\ p \in 1 .. Len(objs)
            /\ p <= s.i + 1 /\ p <= t.i + 1 /\ s.r = b.r /\ t.r = b.r
            /\ s.i = t.i /\ s.j = t.j /\ s.a = b.a /\ t.a = c.a
        BY <2>1, <3>2, StartIs DEF Start
      <4>2. /\ T[b] = T[u] /\ T[c] = T[v]
        <5>1. ~(b.p >= b.r) /\ ~(c.p >= c.r)
          BY <3>2, <4>0
        <5> QED
          BY <1>2, <2>1, <5>1 DEF Ending
      <4> HIDE DEF s, t, p
      <4>3. Agree(s.a, t.a, p, s.r)
        BY <2>1, <4>1 DEF p
      <4>4. Middle(objs, t) = m /\ Agree(Parted(objs, s), Parted(objs, t), p, s.r)
        BY <4>1, <4>3, PartedLocal
      <4>5. /\ m \in p .. s.r /\ l \in C /\ \A a \in A : Upper(objs, s, a) \in C
        BY <4>1, PartsAre
      <4>6. /\ k \in C /\ \A a \in A : Upper(objs, t, a) \in C
        BY <4>1, PartsAre
      <4>7. /\ l.p = p /\ l.r = m - 1 /\ l.a = Parted(objs, s)
            /\ k.p = p /\ k.r = m - 1 /\ k.a = Parted(objs, t)
        BY <4>4 DEF Lower
      <4>8. T[l] \in A /\ T[k] \in A
        BY <4>5, <4>6, SortDoes
      <4>9. /\ u \in C /\ v \in C /\ u.p = m + 1 /\ u.r = s.r /\ u.a = T[l]
            /\ v.p = m + 1 /\ v.r = s.r /\ v.a = T[k]
        BY <4>1, <4>4, <4>5, <4>6, <4>8 DEF Upper
      <4> HIDE DEF m, l, k, u, v
      <4>10. equal(l, k)
        <5>1. l.r - l.p < n
          BY <2>1, <4>0, <4>1, <4>5, <4>7 DEF p
        <5>2. same(l, k)
          BY <4>0, <4>1, <4>4, <4>5, <4>7 DEF Agree
        <5> QED
          BY <1>4, <4>5, <4>6, <5>1, <5>2
      <4>11. ASSUME NEW x \in p .. b.r PROVE T[l][x] = T[k][x]
        <5>1. CASE x \in l.p .. l.r
          BY <4>10, <5>1 DEF Agree
        <5>2. CASE x \notin l.p .. l.r
          <6>1. x \in D /\ (x < l.p \/ x > l.r) /\ (x < k.p \/ x > k.r)
            BY <1>1, <2>1, <4>0, <4>5, <4>7, <4>11, <4>1, <5>2 DEF p
          <6>2. T[l][x] = l.a[x] /\ T[k][x] = k.a[x]
            BY <4>5, <4>6, <6>1, SortDoes
          <6> QED
            BY <4>1, <4>4, <4>7, <4>11, <6>2 DEF Agree
        <5> QED
          BY <5>1, <5>2
      <4>12. equal(u, v)
        <5>1. u.r - u.p < n
          BY <2>1, <4>0, <4>1, <4>5, <4>9 DEF p
        <5>2. Agree(u.a, v.a, u.p, u.r)
          BY <4>0, <4>1, <4>5, <4>9, <4>11 DEF Agree
        <5>3. same(u, v)
          BY <4>9, <5>2
        <5> QED
          BY <1>4, <4>9, <5>1, <5>3
      <4>13. ASSUME NEW x \in p .. b.r PROVE T[u][x] = T[v][x]
        <5>1. CASE x \in u.p .. u.r
          BY <4>12, <5>1 DEF Agree
        <5>2. CASE x \notin u.p .. u.r
          <6>1. x \in D /\ (x < u.p \/ x > u.r) /\ (x < v.p \/ x > v.r)
            BY <1>1, <2>1, <4>0, <4>1, <4>5, <4>9, <4>13, <5>2 DEF p
          <6>2. T[u][x] = u.a[x] /\ T[v][x] = v.a[x]
            BY <4>9, <6>1, SortDoes
          <6> QED
            BY <4>9, <4>11, <4>13, <6>2
        <5> QED
          BY <5>1, <5>2
      <4> QED
        BY <4>2, <4>13 DEF Agree, p
    <3> QED
      BY <1>1, <2>1, <3>1, <3>2
  <2> HIDE DEF same, equal
  <2> QED
    BY <2>1
<1>5. equal(d, e)
  <2> DEFINE n == IF d.r - d.p < 0 THEN 0 ELSE d.r - d.p + 1
  <2>1. n \in Nat /\ d.r - d.p < n
    BY <1>1
  <2>2. n \in S
    <3> HIDE DEF S, n
    <3> QED
      BY <1>3, <1>4, <2>1, Climbing
  <2> QED
    BY <2>1, <2>2
<1> QED
  BY <1>5

\* The logarithm is well defined, and grows.
LEMMA LogarithmsAre ==
    ASSUME NEW n \in Nat
    PROVE  /\ \A k \in 0 .. n : Logarithms(n)[k] = IF k < 2 THEN 0 ELSE 1 + Logarithms(n)[k \div 2]
           /\ \A k \in 0 .. n : Logarithms(n)[k] \in Nat
           /\ \A j, k \in 0 .. n : j <= k => Logarithms(n)[j] <= Logarithms(n)[k]
<1> DEFINE D          == 0 .. n
           body(g, k) == IF k < 2 THEN 0 ELSE 1 + g[k \div 2]
           good(g, m) == \A k \in D : k < m => g[k] = body(g, k)
           S          == {m \in Nat : \E g \in [D -> Nat] : good(g, m)}
<1>1. D \subseteq Nat
  OBVIOUS
<1>2. \A k \in D : k >= 2 => k \div 2 \in D /\ k \div 2 < k
  OBVIOUS
<1>3. \A j, k \in D : j <= k => j \div 2 <= k \div 2
  OBVIOUS
<1>4. \A k \in D : k <= n
  OBVIOUS
<1> HIDE DEF D
<1>5. 0 \in S
  <2> DEFINE g == [k \in D |-> 0]
  <2>1. g \in [D -> Nat] /\ good(g, 0)
    BY <1>1
  <2> HIDE DEF g, good
  <2> QED
    BY <2>1
<1>6. ASSUME NEW m \in Nat, m \in S PROVE m + 1 \in S
  <2>1. PICK g \in [D -> Nat] : good(g, m)
    BY <1>6
  <2> DEFINE h == [k \in D |-> IF k = m THEN body(g, k) ELSE g[k]]
  <2>2. h \in [D -> Nat]
    BY <1>1, <1>2
  <2>3. ASSUME NEW k \in D, k < m + 1 PROVE h[k] = body(h, k)
    <3>1. h[k] = body(g, k)
      BY <1>1, <2>1, <2>3
    <3>2. k >= 2 => h[k \div 2] = g[k \div 2]
      <4>1. \A i \in D : i < k => h[i] = g[i]
        BY <1>1, <2>3
      <4> HIDE DEF h
      <4> QED
        BY <1>2, <4>1
    <3> HIDE DEF h
    <3> QED
      BY <1>1, <3>1, <3>2
  <2>4. good(h, m + 1)
    BY <2>3
  <2> HIDE DEF h, good
  <2> QED
    BY <2>2, <2>4
<1>7. n + 1 \in S
  <2> HIDE DEF S
  <2> QED
    BY <1>5, <1>6, Climbing
<1>8. \E g : g = [k \in D |-> body(g, k)]
  <2>1. PICK g \in [D -> Nat] : good(g, n + 1)
    BY <1>7
  <2>2. g = [k \in D |-> body(g, k)]
    BY <1>1, <1>4, <2>1
  <2> QED
    BY <2>2
<1> DEFINE f == CHOOSE g : g = [k \in D |-> body(g, k)]
<1>9. f = [k \in D |-> body(f, k)]
  BY <1>8
<1>10. Logarithms(n) = f
  BY DEF Logarithms, D
<1> HIDE DEF f
<1>11. \A k \in D : f[k] = body(f, k)
  BY <1>9
<1> DEFINE fine(m) == \A k \in D : k < m => f[k] \in Nat /\ \A j \in D : j <= k => f[j] <= f[k]
           R       == {m \in Nat : fine(m)}
<1>12. 0 \in R
  BY <1>1
<1>13. ASSUME NEW m \in Nat, m \in R PROVE m + 1 \in R
  <2>0. fine(m)
    BY <1>13
  <2>1. ASSUME NEW k \in D, k < m + 1
        PROVE  f[k] \in Nat /\ \A j \in D : j <= k => f[j] <= f[k]
    <3>1. CASE k < 2
      <4>1. \A j \in D : j <= k => f[j] = 0
        BY <1>1, <1>11, <3>1
      <4> QED
        BY <1>1, <4>1
    <3>2. CASE k >= 2
      <4>1. k \div 2 \in D /\ k \div 2 < m /\ k \div 2 \in Nat
        BY <1>1, <1>2, <2>1, <3>2
      <4>2. f[k \div 2] \in Nat /\ \A j \in D : j <= k \div 2 => f[j] <= f[k \div 2]
        BY <2>0, <4>1
      <4>3. f[k] = 1 + f[k \div 2]
        BY <1>1, <1>11, <3>2
      <4>4. ASSUME NEW j \in D, j <= k PROVE f[j] <= f[k]
        <5>1. CASE j < 2
          BY <1>1, <1>11, <4>2, <4>3, <5>1
        <5>2. CASE j >= 2
          <6>1. j \div 2 \in D /\ j \div 2 <= k \div 2
            BY <1>1, <1>2, <1>3, <4>4, <5>2
          <6>2. j \div 2 \in D /\ j \div 2 < m
            BY <1>1, <4>1, <6>1
          <6>3. f[j] = 1 + f[j \div 2] /\ f[j \div 2] <= f[k \div 2] /\ f[j \div 2] \in Nat
            BY <1>1, <1>11, <2>0, <4>2, <5>2, <6>1, <6>2
          <6> QED
            BY <4>2, <4>3, <6>3
        <5> QED
          BY <1>1, <5>1, <5>2
      <4> QED
        BY <4>2, <4>3, <4>4
    <3> QED
      BY <1>1, <3>1, <3>2
  <2>2. fine(m + 1)
    BY <2>1
  <2> HIDE DEF fine
  <2> QED
    BY <2>2
<1>14. n + 1 \in R
  <2> HIDE DEF R
  <2> QED
    BY <1>12, <1>13, Climbing
<1>15. \A k \in D : f[k] \in Nat /\ \A j \in D : j <= k => f[j] <= f[k]
  BY <1>1, <1>4, <1>14
<1> QED
  BY <1>10, <1>11, <1>15 DEF D

-----------------------------------------------------------------------------
(* The loop of ram_sort against the specified sort *)

Holds(f, x) == f.lo <= x /\ x < f.hi

\* The call of the specified sort that a range still stands for, and the loop of it
\* that the innermost range is in.
Remaining(f) == [a |-> order, p |-> f.lo, r |-> f.hi - 1]
Scanning     == [a |-> order, i |-> split - 1, j |-> scan, r |-> Pivot]
Suspended(k) == k # Len(stack) \/ scan = 0
Final        == SpecifiedSort(table)

\* What is in no range is where the specification puts it, and finishing a range as
\* the specification does would put the rest there.
SortedInv ==
    /\ phase = "size" => order = [i \in Objects |-> i] /\ stack = <<>> /\ scan = 0
    /\ phase \in {"sort", "place"} =>
          \A x \in Objects : (\A k \in 1 .. Len(stack) : ~Holds(stack[k], x)) => order[x] = Final[x]
    /\ \A k \in 1 .. Len(stack) : \A x \in Objects :
          Suspended(k) /\ Holds(stack[k], x) => Sort(table)[Remaining(stack[k])][x] = Final[x]
    /\ scan # 0 => \A x \in Objects :
          Holds(Frame, x) => Ending(table, Scanning, Frame.lo)[x] = Final[x]

\* Each call below another has a range at least twice as long.
DepthInv ==
    /\ scan # 0 => Frame.hi > Frame.lo + 1
    /\ \A k \in 1 .. Len(stack) :
          k - 1 + Logarithms(Len(table))[stack[k].hi - stack[k].lo] <= Logarithms(Len(table))[Len(table)]

SortLoopInv == RamInv /\ OrderInv /\ SortedInv /\ DepthInv

LEMMA InitSorted == Init => SortedInv /\ DepthInv
<1> SUFFICES ASSUME Init PROVE SortedInv /\ DepthInv
  OBVIOUS
<1>1. order = [i \in Objects |-> i] /\ stack = <<>> /\ scan = 0 /\ phase = "size"
  BY DEF Init
<1>2. Len(stack) = 0
  BY <1>1
<1> QED
  BY <1>1, <1>2 DEF SortedInv, DepthInv

\* A range on the stack stands for a call.
LEMMA RemainingType ==
    ASSUME RamInv, NEW k \in 1 .. Len(stack), NEW a \in Arrays(table)
    PROVE  /\ [a |-> a, p |-> stack[k].lo, r |-> stack[k].hi - 1] \in Calls(table)
           /\ table \in Seq(Object) /\ DOMAIN table = Objects /\ order \in Arrays(table)
           /\ stack[k].lo \in 1 .. Len(table) + 1 /\ stack[k].hi \in 1 .. Len(table) + 1
           /\ stack[k].lo <= stack[k].hi /\ Len(table) \in Nat
<1>1. table \in Seq(Object) /\ stack \in Seq(Frames) /\ order \in [Objects -> Objects]
  BY DEF RamInv, TypeOK
<1>2. stack[k] \in Frames /\ stack[k].lo <= stack[k].hi
  BY <1>1 DEF RamInv, SortInv
<1>3. DOMAIN table = Objects /\ Len(table) \in Nat
  BY <1>1 DEF Objects
<1>4. stack[k].lo \in 1 .. Len(table) + 1 /\ stack[k].hi \in 1 .. Len(table) + 1
  BY <1>2 DEF Frames
<1>5. stack[k].hi - 1 \in 0 .. Len(table)
  BY <1>3, <1>4
<1> QED
  BY <1>1, <1>2, <1>3, <1>4, <1>5 DEF Arrays, Calls

\* The partition loop of the innermost call is one of the specification.
LEMMA ScanningType ==
    ASSUME RamInv, scan # 0
    PROVE  /\ phase = "sort" /\ Scanning \in Loops(table) /\ Frame.lo \in 1 .. Len(table)
           /\ Frame.lo <= Scanning.i + 1 /\ split \in Objects /\ scan \in Objects /\ Pivot \in Objects
           /\ Frame.lo <= split /\ split <= scan /\ scan <= Pivot /\ Pivot = Frame.hi - 1
           /\ table \in Seq(Object) /\ DOMAIN table = Objects /\ order \in Arrays(table)
           /\ Objects \subseteq Nat /\ Len(table) \in Nat /\ Frame.hi \in Nat /\ Frame.lo \in Nat
<1>1. /\ phase = "sort" /\ Frame.lo <= split /\ split <= scan /\ scan <= Pivot
      /\ table \in Seq(Object) /\ order \in [Objects -> Objects]
      /\ split \in 1 .. Len(table) + 1 /\ scan \in 0 .. Len(table)
  BY DEF RamInv, SortInv, TypeOK
<1>2. /\ Frame.lo \in 1 .. Len(table) + 1 /\ Frame.hi \in 1 .. Len(table) + 1
      /\ Len(table) \in Nat /\ Pivot = Frame.hi - 1
  BY <1>1, FrameType DEF Pivot
<1>3. /\ split \in 1 .. Len(table) /\ scan \in 1 .. Len(table) /\ Pivot \in 1 .. Len(table)
      /\ Frame.lo \in 1 .. Len(table) /\ split - 1 \in 0 .. Len(table) /\ split - 1 < scan
      /\ DOMAIN table = 1 .. Len(table) /\ Frame.lo <= (split - 1) + 1
  BY <1>1, <1>2
<1>4. order \in Arrays(table)
  BY <1>1, <1>3 DEF Objects, Arrays
<1>5. Scanning \in Loops(table)
  BY <1>1, <1>3, <1>4 DEF Scanning, Loops
<1> QED
  BY <1>1, <1>2, <1>3, <1>4, <1>5 DEF Objects, Scanning

\* A change inside the innermost range does not concern the others.
LEMMA OthersStay ==
    ASSUME RamInv, OrderInv, SortedInv, phase = "sort", NEW a \in Arrays(table),
           \A x \in Objects : ~Holds(Frame, x) => a[x] = order[x]
    PROVE  /\ \A k \in 1 .. Len(stack) - 1 : \A x \in Objects :
                 Holds(stack[k], x) =>
                    Sort(table)[[a |-> a, p |-> stack[k].lo, r |-> stack[k].hi - 1]][x] = Final[x]
           /\ \A x \in Objects :
                 (\A k \in 1 .. Len(stack) : ~Holds(stack[k], x)) => a[x] = Final[x]
<1>1. Len(stack) \in Nat \ {0} /\ Frame = stack[Len(stack)]
  BY FrameApart
<1>2. ASSUME NEW k \in 1 .. Len(stack) - 1, NEW x \in Objects, Holds(stack[k], x)
      PROVE  Sort(table)[[a |-> a, p |-> stack[k].lo, r |-> stack[k].hi - 1]][x] = Final[x]
  <2> DEFINE d == [a |-> a, p |-> stack[k].lo, r |-> stack[k].hi - 1]
             e == Remaining(stack[k])
  <2>1. k \in 1 .. Len(stack) /\ k # Len(stack)
    BY <1>1
  <2>2. /\ d \in Calls(table) /\ table \in Seq(Object) /\ order \in Arrays(table)
        /\ stack[k].lo \in 1 .. Len(table) + 1 /\ stack[k].hi \in 1 .. Len(table) + 1
        /\ Len(table) \in Nat
    BY <2>1, RemainingType
  <2>3. e \in Calls(table)
    BY <2>1, <2>2, RemainingType DEF Remaining
  <2>4. stack[k].hi <= Frame.lo \/ Frame.hi <= stack[k].lo
    BY <2>1, FrameApart
  <2>5. ASSUME NEW y \in stack[k].lo .. stack[k].hi - 1 PROVE a[y] = order[y]
    <3>1. y \in Objects
      BY <2>2 DEF Objects
    <3>2. Frame.lo \in Int /\ Frame.hi \in Int
      BY <1>1, FrameApart
    <3>3. ~Holds(Frame, y)
      BY <2>2, <2>4, <3>2 DEF Holds
    <3> QED
      BY <3>1, <3>3
  <2>6. Agree(d.a, e.a, d.p, d.r) /\ d.p = e.p /\ d.r = e.r
    BY <2>5 DEF Agree, Remaining
  <2>7. d.p = stack[k].lo /\ d.r = stack[k].hi - 1
    OBVIOUS
  <2> HIDE DEF d, e
  <2>8. Agree(Sort(table)[d], Sort(table)[e], d.p, d.r)
    BY <2>2, <2>3, <2>6, SortLocal
  <2>9. x \in d.p .. d.r
    BY <1>2, <2>2, <2>7 DEF Holds, Objects
  <2>10. Sort(table)[e][x] = Final[x]
    BY <1>2, <2>1 DEF SortedInv, Suspended, e
  <2> QED
    BY <2>8, <2>9, <2>10 DEF Agree, d
<1>3. ASSUME NEW x \in Objects, \A k \in 1 .. Len(stack) : ~Holds(stack[k], x)
      PROVE  a[x] = Final[x]
  <2>1. order[x] = Final[x]
    BY <1>3 DEF SortedInv
  <2>2. ~Holds(Frame, x)
    BY <1>1, <1>3
  <2> QED
    BY <2>1, <2>2
<1> QED
  BY <1>2, <1>3

\* The sort begins with the call that the specification begins with.
LEMMA StartSorted == RamInv /\ SortedInv /\ StartSort => SortedInv' /\ DepthInv'
<1> SUFFICES ASSUME RamInv, SortedInv, StartSort PROVE SortedInv' /\ DepthInv'
  OBVIOUS
<1> DEFINE all == [lo |-> 1, hi |-> Len(table) + 1]
<1>1. /\ stack' = <<all>> /\ phase' = "sort" /\ scan' = 0 /\ order = [i \in Objects |-> i]
      /\ UNCHANGED <<table, order>>
  BY DEF StartSort, inputs, SortedInv
<1>2. table \in Seq(Object) /\ Len(table) \in Nat /\ DOMAIN table = 1 .. Len(table)
  BY DEF RamInv, TypeOK
<1>3. Len(stack') = 1 /\ stack'[1] = all /\ all.lo = 1 /\ all.hi - 1 = Len(table) /\ all.hi = Len(table) + 1
  BY <1>1, <1>2
<1>4. \A x \in Objects : Holds(all, x)
  BY <1>2 DEF Holds, Objects
<1>5. [a |-> order, p |-> 1, r |-> Len(table)] = [a |-> [i \in DOMAIN table |-> i], p |-> 1, r |-> Len(table)]
  BY <1>1, <1>2 DEF Objects
<1>6. Sort(table)[[a |-> order, p |-> 1, r |-> Len(table)]] = Final
  BY <1>5 DEF Final, SpecifiedSort
<1> HIDE DEF all
<1>7. Remaining(stack[1])' = [a |-> order, p |-> 1, r |-> Len(table)]
  BY <1>1, <1>3 DEF Remaining
<1>8. Final' = Final /\ Objects' = Objects
  BY <1>1 DEF Final, Objects
<1>9. \A k \in 1 .. Len(stack') : k = 1
  BY <1>3
<1>10. SortedInv'
  <2>1. Sort(table')[Remaining(stack[1])'] = Final
    BY <1>1, <1>6, <1>7
  <2>3. \A k \in 1 .. Len(stack') : Sort(table')[Remaining(stack[k])'] = Final
    BY <1>9, <2>1
  <2>2. \A x \in Objects : \E k \in 1 .. Len(stack') : Holds(stack'[k], x)
    BY <1>3, <1>4
  <2> QED
    BY <1>1, <1>8, <2>2, <2>3 DEF SortedInv
<1>11. DepthInv'
  BY <1>1, <1>2, <1>3, <1>9, LogarithmsAre DEF DepthInv
<1> QED
  BY <1>10, <1>11

\* The partition loop begins like that of the call.
LEMMA PartitionSorted == RamInv /\ SortedInv /\ DepthInv /\ StartPartition => SortedInv' /\ DepthInv'
<1> SUFFICES ASSUME RamInv, SortedInv, DepthInv, StartPartition PROVE SortedInv' /\ DepthInv'
  OBVIOUS
<1> DEFINE n == Len(stack)
           lo == Frame.lo
           hi == Frame.hi
           c == [a |-> order, p |-> lo, r |-> hi - 1]
<1>1. /\ phase = "sort" /\ scan = 0 /\ hi > lo + 1 /\ split' = lo /\ scan' = lo
      /\ UNCHANGED <<table, phase, order, stack>>
  BY DEF StartPartition, inputs
<1>2. /\ n \in Nat \ {0} /\ Frame = stack[n] /\ Len(table) \in Nat /\ lo \in Nat /\ hi \in Nat
      /\ lo # 0
  BY <1>1, FrameType DEF Frame
<1>3. c \in Calls(table) /\ table \in Seq(Object)
  <2>1. order \in Arrays(table)
    <3>1. table \in Seq(Object) /\ order \in [Objects -> Objects]
      BY DEF RamInv, TypeOK
    <3>2. DOMAIN table = Objects
      BY <3>1 DEF Objects
    <3> QED
      BY <3>1, <3>2 DEF Arrays
  <2>2. n \in 1 .. Len(stack)
    BY <1>2
  <2> QED
    BY <1>2, <2>1, <2>2, RemainingType
<1>4. Frame' = Frame /\ Objects' = Objects /\ Final' = Final /\ Pivot = hi - 1 /\ Pivot' = hi - 1
  BY <1>1 DEF Frame, Objects, Final, Pivot
<1>5. Scanning' = [a |-> order, i |-> lo - 1, j |-> lo, r |-> hi - 1]
  BY <1>1, <1>4 DEF Scanning
<1>6. Scanning' = Start(c)
  BY <1>5 DEF Start
<1>7. Sort(table)[c] = Ending(table, Start(c), lo)
  <2>1. ~(c.p >= c.r) /\ c.p = lo
    BY <1>1, <1>2
  <2> HIDE DEF c
  <2> QED
    BY <1>3, <2>1, SortIs
<1>8. \A x \in Objects : Holds(Frame, x) => Ending(table, Scanning', lo)[x] = Final[x]
  <2>1. Suspended(n) /\ n \in 1 .. Len(stack) /\ Remaining(stack[n]) = c
    BY <1>1, <1>2 DEF Suspended, Remaining
  <2> QED
    BY <1>2, <1>6, <1>7, <2>1 DEF SortedInv
<1> HIDE DEF c, n, lo, hi
<1>9. /\ \A k : Suspended(k)' => Suspended(k)
      /\ \A k : Remaining(stack[k])' = Remaining(stack[k])
  BY <1>1 DEF Suspended, Remaining
<1>10. SortedInv'
  BY <1>1, <1>4, <1>8, <1>9 DEF SortedInv, lo
<1>11. DepthInv'
  BY <1>1, <1>4 DEF DepthInv, lo, hi
<1> QED
  BY <1>10, <1>11

\* A comparison is a turn of the loop.
LEMMA CompareSorted == RamInv /\ OrderInv /\ SortedInv /\ DepthInv /\ Compare => SortedInv' /\ DepthInv'
<1> SUFFICES ASSUME RamInv, OrderInv, SortedInv, DepthInv, Compare PROVE SortedInv' /\ DepthInv'
  OBVIOUS
<1> DEFINE s == Scanning
           n == Len(stack)
<1>1. /\ phase = "sort" /\ scan # 0 /\ scan < Pivot /\ scan' = scan + 1
      /\ UNCHANGED <<table, phase, stack>>
  BY DEF Compare, inputs
<1>2. /\ s \in Loops(table) /\ Frame.lo \in 1 .. Len(table) /\ Frame.lo <= s.i + 1
      /\ split \in Objects /\ scan \in Objects /\ Pivot \in Objects /\ Pivot = Frame.hi - 1
      /\ Frame.lo <= split /\ split <= scan
      /\ table \in Seq(Object) /\ DOMAIN table = Objects /\ order \in Arrays(table)
      /\ Objects \subseteq Nat /\ Frame.hi \in Nat /\ Frame.lo \in Nat
  BY <1>1, ScanningType
<1>3. s.a = order /\ s.i = split - 1 /\ s.j = scan /\ s.r = Pivot
  BY DEF Scanning
<1>4. Frame' = Frame /\ Objects' = Objects /\ Final' = Final /\ Pivot' = Pivot
  BY <1>1 DEF Frame, Objects, Final, Pivot
<1>5. Scanning' = Passed(table, s)
  <2>1. Scanning' = [a |-> order', i |-> split' - 1, j |-> scan + 1, r |-> Pivot]
    BY <1>1, <1>4 DEF Scanning
  <2>2. CASE AtLeast(table[order[scan]], table[order[Pivot]])
    <3>1. order' = Exchanged(order, split, scan) /\ split' = split + 1
      BY <2>2 DEF Compare
    <3>2. (split - 1) + 1 = split /\ (split + 1) - 1 = split
      BY <1>2
    <3> QED
      BY <1>3, <2>1, <2>2, <3>1, <3>2 DEF Passed
  <2>3. CASE ~AtLeast(table[order[scan]], table[order[Pivot]])
    <3>1. order' = order /\ split' = split
      BY <2>3 DEF Compare
    <3> QED
      BY <1>3, <2>1, <2>3, <3>1 DEF Passed
  <2> QED
    BY <2>2, <2>3
<1> HIDE DEF s
<1>6. s.j # s.r
  BY <1>1, <1>2, <1>3
<1>7. Passed(table, s) \in Loops(table) /\ Passed(table, s).r = s.r
  BY <1>2, <1>6, PassedIs
<1>8. Partition(table)[s] = Partition(table)[Passed(table, s)]
  BY <1>2, <1>6, PartitionIs
<1>9. \A p : Ending(table, Scanning', p) = Ending(table, s, p)
  BY <1>5, <1>7, <1>8 DEF Ending, Upper, Lower, Parted, Middle
<1>10. order' \in Arrays(table) /\ \A x \in Objects : ~Holds(Frame, x) => order'[x] = order[x]
  <2>1. order' = Passed(table, s).a
    BY <1>5 DEF Scanning
  <2>2. order' \in Arrays(table)
    BY <1>7, <2>1 DEF Loops
  <2>3. ASSUME NEW x \in Objects, ~Holds(Frame, x) PROVE order'[x] = order[x]
    <3>1. x <= s.i \/ x >= s.r
      BY <1>2, <1>3, <2>3 DEF Holds
    <3> QED
      BY <1>2, <1>3, <1>6, <2>1, <3>1, PassedIs
  <2> QED
    BY <2>2, <2>3
<1>11. /\ \A k \in 1 .. n - 1 : \A x \in Objects :
             Holds(stack[k], x) =>
                Sort(table)[[a |-> order', p |-> stack[k].lo, r |-> stack[k].hi - 1]][x] = Final[x]
       /\ \A x \in Objects :
             (\A k \in 1 .. Len(stack) : ~Holds(stack[k], x)) => order'[x] = Final[x]
  BY <1>1, <1>10, OthersStay
<1>12. scan' # 0 /\ n \in Nat \ {0} /\ \A k \in 1 .. Len(stack') : Suspended(k)' => k \in 1 .. n - 1
  BY <1>1, <1>2, FrameType DEF Suspended
<1>13. \A k : Remaining(stack[k])' = [a |-> order', p |-> stack[k].lo, r |-> stack[k].hi - 1]
  BY <1>1 DEF Remaining
<1>14. \A x \in Objects : Holds(Frame, x) => Ending(table, Scanning', Frame.lo)[x] = Final[x]
  BY <1>1, <1>9 DEF SortedInv, s
<1>15. SortedInv'
  <2>1. phase' # "size"
    BY <1>1
  <2>2. \A k \in 1 .. Len(stack') : \A x \in Objects :
            Suspended(k)' /\ Holds(stack'[k], x) => Sort(table')[Remaining(stack[k])'][x] = Final[x]
    <3> SUFFICES ASSUME NEW k \in 1 .. Len(stack'), NEW x \in Objects,
                        Suspended(k)', Holds(stack'[k], x)
                 PROVE  Sort(table')[Remaining(stack[k])'][x] = Final[x]
      OBVIOUS
    <3>1. k \in 1 .. n - 1 /\ Holds(stack[k], x)
      BY <1>1, <1>12
    <3>2. Remaining(stack[k])' = [a |-> order', p |-> stack[k].lo, r |-> stack[k].hi - 1]
      BY <1>13
    <3> QED
      BY <1>1, <1>11, <3>1, <3>2
  <2>3. \A x \in Objects : (\A k \in 1 .. Len(stack') : ~Holds(stack'[k], x)) => order'[x] = Final[x]
    BY <1>1, <1>11
  <2>4. \A x \in Objects : Holds(Frame', x) => Ending(table', Scanning', Frame'.lo)[x] = Final[x]
    BY <1>1, <1>4, <1>14
  <2> QED
    BY <1>4, <2>1, <2>2, <2>3, <2>4 DEF SortedInv
<1>16. DepthInv'
  BY <1>1, <1>4 DEF DepthInv
<1> QED
  BY <1>15, <1>16

\* The pivot is where the specification has it, and the two ranges stand for the two
\* calls; that the larger one may come first does not matter, they share nothing.
LEMMA PivotSorted == RamInv /\ OrderInv /\ SortedInv /\ PlacePivot => SortedInv'
<1> SUFFICES ASSUME RamInv, OrderInv, SortedInv, PlacePivot PROVE SortedInv'
  OBVIOUS
<1> DEFINE s == Scanning
           n == Len(stack)
           lo == Frame.lo
           hi == Frame.hi
           left  == [lo |-> lo, hi |-> split]
           right == [lo |-> split + 1, hi |-> hi]
           l == Lower(table, s, lo)
           u == Upper(table, s, Sort(table)[l])
           v == [a |-> order', p |-> split + 1, r |-> hi - 1]
<1>1. /\ phase = "sort" /\ scan # 0 /\ scan = Pivot /\ scan' = 0
      /\ order' = Exchanged(order, split, Pivot) /\ stack' = Descend(split)
      /\ UNCHANGED <<table, phase, split>>
  BY DEF PlacePivot, inputs
<1>2. /\ s \in Loops(table) /\ lo \in 1 .. Len(table) /\ lo <= s.i + 1
      /\ split \in Objects /\ Pivot \in Objects /\ Pivot = hi - 1
      /\ lo <= split /\ split <= Pivot
      /\ table \in Seq(Object) /\ DOMAIN table = Objects /\ order \in Arrays(table)
      /\ Objects \subseteq Nat /\ hi \in Nat /\ lo \in Nat /\ Len(table) \in Nat
  BY <1>1, ScanningType
<1>3. s.a = order /\ s.i = split - 1 /\ s.j = Pivot /\ s.r = Pivot
  BY <1>1 DEF Scanning
<1>4. Objects' = Objects /\ Final' = Final
  BY <1>1 DEF Objects, Final
<1>5. /\ n \in Nat \ {0} /\ Len(stack') = n + 1 /\ \A k \in 1 .. n - 1 : stack'[k] = stack[k]
      /\ \/ stack'[n] = left /\ stack'[n + 1] = right
         \/ stack'[n] = right /\ stack'[n + 1] = left
  BY <1>1, DescendFrames
<1>6. left.lo = lo /\ left.hi = split /\ right.lo = split + 1 /\ right.hi = hi
  OBVIOUS
<1> HIDE DEF s, left, right
<1>7. Partition(table)[s] = s
  BY <1>2, <1>3, PartitionIs
<1>8. Middle(table, s) = split /\ Parted(table, s) = order'
  BY <1>1, <1>2, <1>3, <1>7 DEF Middle, Parted
<1>9. order' \in Arrays(table) /\ \A x \in Objects : ~Holds(Frame, x) => order'[x] = order[x]
  <2>1. order' \in Arrays(table)
    BY <1>2, <1>8, PartsAre
  <2>2. ASSUME NEW x \in Objects, ~Holds(Frame, x) PROVE order'[x] = order[x]
    <3>1. x < lo \/ x > s.r
      BY <1>2, <1>3, <2>2 DEF Holds
    <3> QED
      BY <1>2, <1>3, <1>8, <3>1, PartedDoes
  <2> QED
    BY <2>1, <2>2
<1>10. /\ \A k \in 1 .. n - 1 : \A x \in Objects :
             Holds(stack[k], x) =>
                Sort(table)[[a |-> order', p |-> stack[k].lo, r |-> stack[k].hi - 1]][x] = Final[x]
       /\ \A x \in Objects :
             (\A k \in 1 .. Len(stack) : ~Holds(stack[k], x)) => order'[x] = Final[x]
  BY <1>1, <1>9, OthersStay
<1>11. l = [a |-> order', p |-> lo, r |-> split - 1]
  BY <1>8 DEF Lower
<1>12. l \in Calls(table) /\ \A a \in Arrays(table) : Upper(table, s, a) \in Calls(table)
  BY <1>2, PartsAre
<1>13. Sort(table)[l] \in Arrays(table)
  BY <1>2, <1>12, SortDoes
<1>14. /\ u = [a |-> Sort(table)[l], p |-> split + 1, r |-> hi - 1]
       /\ u \in Calls(table) /\ v \in Calls(table)
  BY <1>2, <1>3, <1>8, <1>9, <1>12, <1>13 DEF Upper
<1>15. \A x \in Objects : Holds(Frame, x) => Sort(table)[u][x] = Final[x]
  BY <1>1 DEF SortedInv, Ending, s, u, l
<1> DEFINE sorted == Sort(table)[l]
<1>16. l.a = order' /\ l.p = lo /\ l.r = split - 1
  BY <1>11
<1>17. u.a = sorted /\ u.p = split + 1 /\ u.r = hi - 1
  BY <1>14
<1>18. v.a = order' /\ v.p = split + 1 /\ v.r = hi - 1
  OBVIOUS
<1> HIDE DEF n, lo, hi, l, u, v
<1>19. ASSUME NEW x \in Objects, lo <= x, x < split PROVE sorted[x] = Final[x]
  <2>1. Holds(Frame, x) /\ x < u.p
    BY <1>2, <1>17, <1>19 DEF Holds, lo, hi
  <2>2. Sort(table)[u][x] = u.a[x]
    BY <1>2, <1>14, <2>1, SortDoes
  <2> QED
    BY <1>15, <1>17, <2>1, <2>2
<1>20. \A x \in Objects : x >= split => sorted[x] = order'[x]
  <2> SUFFICES ASSUME NEW x \in Objects, x >= split PROVE sorted[x] = order'[x]
    OBVIOUS
  <2>1. x > l.r
    BY <1>2, <1>16
  <2> QED
    BY <1>2, <1>12, <1>16, <2>1, SortDoes
<1>21. order'[split] = Final[split]
  <2>1. Holds(Frame, split) /\ split < u.p
    BY <1>2, <1>17 DEF Holds, lo, hi
  <2>2. Sort(table)[u][split] = u.a[split]
    BY <1>2, <1>14, <2>1, SortDoes
  <2>3. sorted[split] = order'[split]
    BY <1>2, <1>20
  <2> QED
    BY <1>2, <1>15, <1>17, <2>1, <2>2, <2>3
<1>22. ASSUME NEW x \in Objects, split < x, x < hi PROVE Sort(table)[v][x] = Final[x]
  <2>1. ASSUME NEW y \in split + 1 .. hi - 1 PROVE sorted[y] = order'[y]
    <3>1. y \in Objects /\ y >= split
      BY <1>2, <2>1 DEF Objects
    <3> QED
      BY <1>20, <3>1
  <2>2. Agree(u.a, v.a, u.p, u.r)
    BY <1>17, <1>18, <2>1 DEF Agree
  <2>3. Agree(Sort(table)[u], Sort(table)[v], u.p, u.r)
    BY <1>2, <1>14, <1>17, <1>18, <2>2, SortLocal
  <2>4. x \in u.p .. u.r /\ Holds(Frame, x)
    BY <1>2, <1>17, <1>22 DEF Holds, lo, hi
  <2> QED
    BY <1>15, <2>3, <2>4 DEF Agree
<1>23. \A k \in 1 .. Len(stack') : \A x \in Objects :
          Holds(stack'[k], x) =>
             Sort(table)[[a |-> order', p |-> stack'[k].lo, r |-> stack'[k].hi - 1]][x] = Final[x]
  <2> SUFFICES ASSUME NEW k \in 1 .. Len(stack'), NEW x \in Objects, Holds(stack'[k], x)
               PROVE  Sort(table)[[a |-> order', p |-> stack'[k].lo, r |-> stack'[k].hi - 1]][x] = Final[x]
    OBVIOUS
  <2>1. CASE k \in 1 .. n - 1
    BY <1>5, <1>10, <2>1
  <2>2. CASE stack'[k] = left
    <3>1. lo <= x /\ x < split
      BY <1>6, <2>2 DEF Holds
    <3> QED
      BY <1>6, <1>11, <1>19, <2>2, <3>1
  <2>3. CASE stack'[k] = right
    <3>1. split < x /\ x < hi
      BY <1>2, <1>6, <2>3 DEF Holds
    <3> QED
      BY <1>6, <1>22, <2>3, <3>1 DEF v
  <2>4. k \in 1 .. n - 1 \/ k = n \/ k = n + 1
    BY <1>5
  <2> QED
    BY <1>5, <2>1, <2>2, <2>3, <2>4
<1>24. ASSUME NEW x \in Objects, \A k \in 1 .. Len(stack') : ~Holds(stack'[k], x)
       PROVE  order'[x] = Final[x]
  <2>1. n \in 1 .. Len(stack') /\ n + 1 \in 1 .. Len(stack')
    BY <1>5
  <2>2. ~Holds(left, x) /\ ~Holds(right, x)
    BY <1>5, <1>24, <2>1
  <2>3. CASE x = split
    BY <1>21, <2>3
  <2>4. CASE x # split
    <3>1. ~Holds(Frame, x)
      BY <1>2, <1>6, <2>2, <2>4 DEF Holds, lo, hi
    <3>2. ASSUME NEW k \in 1 .. Len(stack) PROVE ~Holds(stack[k], x)
      <4>1. CASE k = n
        BY <1>1, <3>1, <4>1 DEF Frame, n
      <4>2. CASE k \in 1 .. n - 1
        <5>1. k \in 1 .. Len(stack')
          BY <1>5, <4>2
        <5> QED
          BY <1>5, <1>24, <4>2, <5>1
      <4> QED
        BY <1>5, <4>1, <4>2 DEF n
    <3> QED
      BY <1>10, <3>2
  <2> QED
    BY <2>3, <2>4
<1>25. \A k : Remaining(stack[k])' = [a |-> order', p |-> stack'[k].lo, r |-> stack'[k].hi - 1]
  BY DEF Remaining
<1>26. phase' = "sort" /\ scan' = 0 /\ table' = table
  BY <1>1
<1>27. \A k \in 1 .. Len(stack') : \A x \in Objects :
          Holds(stack'[k], x) => Sort(table')[Remaining(stack[k])'][x] = Final[x]
  <2> SUFFICES ASSUME NEW k \in 1 .. Len(stack'), NEW x \in Objects, Holds(stack'[k], x)
               PROVE  Sort(table')[Remaining(stack[k])'][x] = Final[x]
    OBVIOUS
  <2>1. Remaining(stack[k])' = [a |-> order', p |-> stack'[k].lo, r |-> stack'[k].hi - 1]
    BY <1>25
  <2> QED
    BY <1>23, <1>26, <2>1
<1>28. phase' # "size" /\ scan' = 0
  BY <1>26
<1> QED
  BY <1>4, <1>24, <1>27, <1>28 DEF SortedInv

\* A partition leaves two ranges of which the smaller is at most half as long.
LEMMA PivotDepth == RamInv /\ DepthInv /\ PlacePivot => DepthInv'
<1> SUFFICES ASSUME RamInv, DepthInv, PlacePivot PROVE DepthInv'
  OBVIOUS
<1> DEFINE n == Len(stack)
           lo == Frame.lo
           hi == Frame.hi
           m  == Len(table)
           log == Logarithms(m)
           left  == [lo |-> lo, hi |-> split]
           right == [lo |-> split + 1, hi |-> hi]
           w == hi - lo
<1>1. /\ phase = "sort" /\ scan # 0 /\ scan = Pivot /\ scan' = 0
      /\ stack' = Descend(split) /\ table' = table
  BY DEF PlacePivot, inputs
<1>2. /\ lo \in 1 .. m /\ split \in Int /\ lo <= split /\ split <= hi - 1 /\ m \in Nat
      /\ hi \in 1 .. m + 1 /\ hi > lo + 1
  <2>1. hi \in 1 .. m + 1
    BY <1>1, FrameType
  <2> QED
    BY <1>1, <2>1, ScanningType DEF DepthInv, Objects
<1>3. /\ n \in Nat \ {0} /\ Len(stack') = n + 1 /\ \A k \in 1 .. n - 1 : stack'[k] = stack[k]
      /\ \/ stack'[n] = left /\ stack'[n + 1] = right /\ ~(split - lo < hi - split - 1)
         \/ stack'[n] = right /\ stack'[n + 1] = left /\ split - lo < hi - split - 1
  BY <1>1, DescendFrames
<1>4. \A k \in 1 .. n : k - 1 + log[stack[k].hi - stack[k].lo] <= log[m]
  BY DEF DepthInv
<1>5. n - 1 + log[w] <= log[m]
  BY <1>3, <1>4 DEF Frame
<1>6. left.lo = lo /\ left.hi = split /\ right.lo = split + 1 /\ right.hi = hi
  OBVIOUS
<1>7. /\ \A k \in 0 .. m : log[k] = IF k < 2 THEN 0 ELSE 1 + log[k \div 2]
      /\ \A k \in 0 .. m : log[k] \in Nat
      /\ \A j, k \in 0 .. m : j <= k => log[j] <= log[k]
  BY <1>2, LogarithmsAre
<1> HIDE DEF left, right, log, n, lo, hi, m
<1>8. /\ w \in 2 .. m /\ w \div 2 \in 0 .. m /\ log[w] = 1 + log[w \div 2]
      /\ log[w] \in Nat /\ log[w \div 2] \in Nat /\ log[m] \in Nat
  <2>1. w \in 2 .. m /\ w \div 2 \in 0 .. m
    BY <1>2
  <2>2. w \in 0 .. m /\ m \in 0 .. m /\ ~(w < 2)
    BY <1>2, <2>1
  <2> HIDE DEF w
  <2> QED
    BY <1>7, <2>1, <2>2
<1>9. ASSUME NEW b \in 0 .. m, b <= w PROVE log[b] \in Nat /\ log[b] <= log[w]
  <2>1. w \in 0 .. m
    BY <1>2
  <2> HIDE DEF w
  <2> QED
    BY <1>7, <1>9, <2>1
<1>10. ASSUME NEW b \in 0 .. m, 2 * b <= w PROVE log[b] \in Nat /\ log[b] + 1 <= log[w]
  <2>1. b <= w \div 2 /\ w \div 2 \in 0 .. m
    BY <1>2, <1>8, <1>10
  <2>2. log[b] \in Nat /\ log[b] <= log[w \div 2]
    BY <1>7, <2>1
  <2> QED
    BY <1>8, <2>2
<1>11. /\ left.hi - left.lo \in 0 .. m /\ left.hi - left.lo <= w
       /\ right.hi - right.lo \in 0 .. m /\ right.hi - right.lo <= w
       /\ split - lo < hi - split - 1 => 2 * (left.hi - left.lo) <= w
       /\ ~(split - lo < hi - split - 1) => 2 * (right.hi - right.lo) <= w
  BY <1>2, <1>6
<1> DEFINE a == left.hi - left.lo
           b == right.hi - right.lo
           smaller == split - lo < hi - split - 1
<1>12. /\ log[a] \in Nat /\ log[a] <= log[w] /\ log[b] \in Nat /\ log[b] <= log[w]
       /\ smaller => log[a] + 1 <= log[w]
       /\ ~smaller => log[b] + 1 <= log[w]
  <2>1. /\ a \in 0 .. m /\ a <= w /\ b \in 0 .. m /\ b <= w
        /\ smaller => 2 * a <= w
        /\ ~smaller => 2 * b <= w
    BY <1>11
  <2> HIDE DEF a, b, w, smaller
  <2> QED
    BY <1>9, <1>10, <2>1
<1>13. \/ stack'[n] = left /\ stack'[n + 1] = right /\ ~smaller
       \/ stack'[n] = right /\ stack'[n + 1] = left /\ smaller
  BY <1>3
<1> HIDE DEF w, smaller
<1>14. ASSUME NEW k \in 1 .. n + 1
       PROVE  k - 1 + log[stack'[k].hi - stack'[k].lo] <= log[m]
  <2>1. CASE k \in 1 .. n - 1
    BY <1>3, <1>4, <2>1
  <2>2. CASE k = n
    <3>1. stack'[k].hi - stack'[k].lo \in {a, b}
      BY <1>13, <2>2
    <3> HIDE DEF a, b
    <3> QED
      BY <1>3, <1>5, <1>8, <1>12, <2>2, <3>1, SMTT(30)
  <2>3. CASE k = n + 1
    <3>1. \/ stack'[k].hi - stack'[k].lo = a /\ smaller
          \/ stack'[k].hi - stack'[k].lo = b /\ ~smaller
      BY <1>13, <2>3
    <3> HIDE DEF a, b
    <3> QED
      BY <1>3, <1>5, <1>8, <1>12, <2>3, <3>1, SMTT(30)
  <2> QED
    BY <1>3, <2>1, <2>2, <2>3
<1>15. log' = log /\ m' = m
  BY <1>1 DEF log, m
<1> QED
  BY <1>1, <1>3, <1>14, <1>15 DEF DepthInv, log, m

\* A range of one element is sorted.
LEMMA ReturnSorted == RamInv /\ SortedInv /\ DepthInv /\ Return => SortedInv' /\ DepthInv'
<1> SUFFICES ASSUME RamInv, SortedInv, DepthInv, Return PROVE SortedInv' /\ DepthInv'
  OBVIOUS
<1> DEFINE n == Len(stack)
           c == Remaining(Frame)
<1>1. /\ phase = "sort" /\ scan = 0 /\ scan' = 0 /\ Frame.hi <= Frame.lo + 1 /\ stack' = Caller
      /\ phase' = (IF stack' = <<>> THEN "place" ELSE "sort")
      /\ UNCHANGED <<table, order>>
  BY DEF Return, inputs
<1>2. n \in Nat \ {0} /\ stack \in Seq(Frames) /\ Frame = stack[n]
  BY <1>1, FrameType DEF RamInv, TypeOK, Frame
<1>3. Len(stack') = n - 1 /\ \A k \in 1 .. n - 1 : stack'[k] = stack[k]
  BY <1>1, <1>2, WithoutLast DEF Caller
<1>4. /\ c \in Calls(table) /\ table \in Seq(Object) /\ c.a = order
      /\ c.p = Frame.lo /\ c.r = Frame.hi - 1 /\ Frame.hi \in Int /\ Frame.lo \in Int
  <2>1. order \in Arrays(table)
    <3>1. table \in Seq(Object) /\ order \in [Objects -> Objects]
      BY DEF RamInv, TypeOK
    <3>2. DOMAIN table = Objects
      BY <3>1 DEF Objects
    <3> QED
      BY <3>1, <3>2 DEF Arrays
  <2>2. n \in 1 .. Len(stack)
    BY <1>2
  <2> QED
    BY <1>2, <2>1, <2>2, RemainingType DEF Remaining
<1>5. Sort(table)[c] = order
  <2> HIDE DEF c
  <2>1. c.p >= c.r
    BY <1>1, <1>4
  <2> QED
    BY <1>4, <2>1, SortIs
<1>6. \A x \in Objects : Holds(Frame, x) => order[x] = Final[x]
  <2>1. Suspended(n) /\ n \in 1 .. Len(stack)
    BY <1>1, <1>2 DEF Suspended
  <2> QED
    BY <1>2, <1>5, <2>1 DEF SortedInv
<1>7. Objects' = Objects /\ Final' = Final
  BY <1>1 DEF Objects, Final
<1> HIDE DEF c
<1>8. ASSUME NEW x \in Objects, \A k \in 1 .. Len(stack') : ~Holds(stack'[k], x)
      PROVE  order[x] = Final[x]
  <2>1. CASE Holds(Frame, x)
    BY <1>6, <2>1
  <2>2. CASE ~Holds(Frame, x)
    <3>1. ASSUME NEW k \in 1 .. Len(stack) PROVE ~Holds(stack[k], x)
      <4>1. CASE k = n
        BY <1>2, <2>2, <4>1
      <4>2. CASE k \in 1 .. n - 1
        BY <1>3, <1>8, <4>2
      <4> QED
        BY <1>2, <4>1, <4>2
    <3> QED
      BY <1>1, <3>1 DEF SortedInv
  <2> QED
    BY <2>1, <2>2
<1>9. ASSUME NEW k \in 1 .. Len(stack'), NEW x \in Objects, Holds(stack'[k], x)
      PROVE  Sort(table')[Remaining(stack[k])'][x] = Final[x]
  <2>1. k \in 1 .. Len(stack) /\ stack'[k] = stack[k] /\ Suspended(k)
    BY <1>1, <1>2, <1>3 DEF Suspended
  <2>2. Remaining(stack[k])' = Remaining(stack[k])
    BY <1>1, <2>1 DEF Remaining
  <2> QED
    BY <1>1, <1>9, <2>1, <2>2 DEF SortedInv
<1>10. phase' # "size"
  BY <1>1
<1>11. SortedInv'
  BY <1>1, <1>7, <1>8, <1>9, <1>10 DEF SortedInv
<1>12. ASSUME NEW k \in 1 .. Len(stack') PROVE k \in 1 .. Len(stack) /\ stack'[k] = stack[k]
  BY <1>2, <1>3
<1>13. DepthInv'
  BY <1>1, <1>12 DEF DepthInv
<1> QED
  BY <1>11, <1>13

LEMMA SortLoopStep == SortLoopInv /\ [Next]_vars => SortLoopInv'
<1> SUFFICES ASSUME SortLoopInv, [Next]_vars PROVE SortLoopInv'
  OBVIOUS
<1>1. RamInv /\ OrderInv /\ SortedInv /\ DepthInv /\ RamInv' /\ OrderInv'
  BY StepTypes, OrderStep DEF SortLoopInv
<1>2. CASE UNCHANGED <<table, order, stack, split, scan>> /\ phase' \in {phase, "done"}
  <2>1. /\ Objects' = Objects /\ Final' = Final /\ Frame' = Frame /\ Scanning' = Scanning
        /\ \A k : Suspended(k)' <=> Suspended(k)
        /\ \A k : Remaining(stack[k])' = Remaining(stack[k])
    BY <1>2 DEF Objects, Final, Frame, Scanning, Pivot, Suspended, Remaining
  <2>2. phase' \in {"size", "sort", "place"} => phase' = phase
    BY <1>2
  <2>3. SortedInv'
    BY <1>1, <1>2, <2>1, <2>2 DEF SortedInv
  <2>4. DepthInv'
    BY <1>1, <1>2, <2>1 DEF DepthInv
  <2> QED
    BY <1>1, <2>3, <2>4 DEF SortLoopInv
<1>3. CASE StartSort
  BY <1>1, <1>3, StartSorted DEF SortLoopInv
<1>4. CASE StartPartition
  BY <1>1, <1>4, PartitionSorted DEF SortLoopInv
<1>5. CASE Compare
  BY <1>1, <1>5, CompareSorted DEF SortLoopInv
<1>6. CASE PlacePivot
  BY <1>1, <1>6, PivotSorted, PivotDepth DEF SortLoopInv
<1>7. CASE Return
  BY <1>1, <1>7, ReturnSorted DEF SortLoopInv
<1>8. CASE SizeRejected \/ NoBlocks
  BY <1>2, <1>8 DEF SizeRejected, NoBlocks, inputs, sorting
<1>9. CASE SkipBlock \/ SplitBlock \/ TakeBlock \/ NoBlockLeft \/ OutOfMemory \/ AllPlaced
  BY <1>2, <1>9 DEF SkipBlock, SplitBlock, TakeBlock, NoBlockLeft, OutOfMemory, AllPlaced, Finish,
                    inputs, sorting
<1>10. CASE UNCHANGED vars
  BY <1>2, <1>10 DEF vars, inputs, sorting
<1> QED
  BY <1>3, <1>4, <1>5, <1>6, <1>7, <1>8, <1>9, <1>10 DEF Next

-----------------------------------------------------------------------------
(* What the allocator promises *)

\* Objects are placed in the order of their keys, whatever ties the quicksort finds
\* (ram_sort).
THEOREM PlacedByKey ==
    Spec => [](phase = "place" => \A i, j \in Objects : i < j => AtLeast(table[order[i]], table[order[j]]))
<1>1. ASSUME RamLoopInv, phase = "place", NEW i \in Objects, NEW j \in Objects, i < j
      PROVE  AtLeast(table[order[i]], table[order[j]])
  <2>1. ~Together(i, j)
    BY <1>1 DEF RamLoopInv, OrderInv, Together
  <2> QED
    BY <1>1, <2>1 DEF RamLoopInv, OrderInv, Ordered
<1>2. RamLoopInv => (phase = "place" => \A i, j \in Objects : i < j => AtLeast(table[order[i]], table[order[j]]))
  BY <1>1
<1> QED
  BY <1>2, RamLoopAlways, PTL

\* Every byte of every script stays free or inside an object, through all splits and
\* removals of blocks, unless memory runs out (the block list of allocate_ram).
THEOREM RamIsConserved == Spec => []NoByteIsLost
<1>1. RamLoopInv => NoByteIsLost
  <2>1. BytesOf(script) = UNION {Bytes(script[i]) : i \in DOMAIN script}
    BY DEF BytesOf
  <2>2. BytesOf(blocks) = UNION {Bytes(blocks[i]) : i \in DOMAIN blocks}
    BY DEF BytesOf
  <2> QED
    BY <2>1, <2>2 DEF RamLoopInv, PlaceInv, Conserved, HeldBytes, NoByteIsLost
<1> QED
  BY <1>1, RamLoopAlways, PTL

\* The allocator ends without a place only if no free block has one; and the zero page
\* has then been given to zero-page objects alone, because they come first in the sort.
THEOREM FailureMeansFull == Spec => []GivesUpOnlyWhenFull
<1>1. RamLoopInv => GivesUpOnlyWhenFull
  BY DEF RamLoopInv, PlaceInv
<1> QED
  BY <1>1, RamLoopAlways, PTL

\* Each object gets the first place of the first block that has one: no block that was
\* passed over, and no piece that was split off before a boundary, had a place for it.
THEOREM PlacementIsFirstFit == Spec => FirstFit
<1>1. ASSUME RamLoopInv, [Next]_vars
      PROVE  [\A i \in Objects :
                 address'[i] # address[i] =>
                     /\ \A j \in 1 .. block - 1 : Places(table[i], blocks[j]) = {}
                     /\ \A at \in Places(table[i], blocks[block]) : address'[i] <= at]_vars
  <2>1. CASE TakeBlock
    <3>1. /\ Looking /\ phase = "place"
          /\ address' = [address EXCEPT ![order[object]] = blocks[block].start]
      BY <2>1 DEF TakeBlock, Fitting, Looking
    <3>2. /\ order[object] \in Objects /\ Current = table[order[object]] /\ Current \in Object
          /\ Current.size \in Nat /\ object \in Objects /\ blocks \in Seq(Block)
          /\ block \in 1 .. Len(blocks) /\ blocks[block].start \in Nat /\ blocks[block].end \in Nat
      BY <1>1, <3>1, CurrentType DEF RamLoopInv
    <3>3. address \in [Objects -> Nat \cup {Unplaced}]
      BY <1>1 DEF RamLoopInv, RamInv, TypeOK
    <3>4. ASSUME NEW i \in Objects, address'[i] # address[i]
          PROVE  i = order[object] /\ address'[i] = blocks[block].start
      BY <3>1, <3>2, <3>3, <3>4
    <3>5. \A j \in 1 .. block - 1 : Places(Current, blocks[j]) = {}
      <4>1. \A j \in 1 .. block - 1 : j \in DOMAIN blocks
        BY <3>2
      <4> QED
        BY <1>1, <3>1, <3>2, <4>1 DEF RamLoopInv, PlaceInv
    <3>6. \A at \in Places(Current, blocks[block]) : blocks[block].start <= at
      BY <3>2, PlacesAre
    <3> QED
      BY <3>2, <3>4, <3>5, <3>6
  <2>2. CASE UNCHANGED address
    BY <2>2
  <2> QED
    BY <1>1, <2>1, <2>2
       DEF Next, SizeRejected, NoBlocks, StartSort, StartPartition, Compare, PlacePivot, Return,
           SkipBlock, SplitBlock, NoBlockLeft, OutOfMemory, AllPlaced, vars, placement
<1> QED
  BY <1>1, RamLoopAlways, PTL DEF Spec, FirstFit

\* Whatever the keys, ties included, the objects are placed in exactly the order that
\* sort(A, p, r) of doc/object-format.md defines, although ram_sort takes the smaller
\* side first; and at most 1 + log2 N of its calls are ever active.
THEOREM OrderIsSpecified == Spec => []OrderAsSpecified
<1>1. Init => SortLoopInv
  BY InitTypes, InitOrder, InitSorted DEF SortLoopInv
<1>2. ASSUME SortLoopInv, phase = "place" PROVE order = SpecifiedSort(table)
  <2>1. stack = <<>> /\ table \in Seq(Object) /\ order \in [Objects -> Objects]
    BY <1>2 DEF SortLoopInv, OrderInv, RamInv, TypeOK
  <2>2. \A x \in Objects : order[x] = Final[x]
    <3>1. \A k \in 1 .. Len(stack) : FALSE
      BY <2>1
    <3> QED
      BY <1>2, <3>1 DEF SortLoopInv, SortedInv
  <2>3. Final \in [Objects -> Objects]
    <3> DEFINE c == [a |-> [i \in DOMAIN table |-> i], p |-> 1, r |-> Len(table)]
    <3>1. DOMAIN table = Objects /\ Len(table) \in Nat
      BY <2>1 DEF Objects
    <3>2. c \in Calls(table)
      BY <3>1 DEF Calls, Arrays
    <3>3. Sort(table)[c] \in Arrays(table)
      BY <2>1, <3>2, SortDoes
    <3> QED
      BY <3>1, <3>3 DEF Final, SpecifiedSort, Arrays
  <2>4. order = Final
    BY <2>1, <2>2, <2>3
  <2> QED
    BY <2>4 DEF Final
<1>3. ASSUME SortLoopInv, phase = "sort"
      PROVE  Len(stack) <= 1 + Logarithms(Len(table))[Len(table)]
  <2> DEFINE n == Len(stack)
             m == Len(table)
             w == stack[n].hi - stack[n].lo
             log == Logarithms(m)
  <2>1. n \in Nat \ {0} /\ m \in Nat
    BY <1>3, FrameType DEF SortLoopInv
  <2>2. w \in 0 .. m
    <3>1. /\ Frame.lo \in 1 .. m + 1 /\ Frame.hi \in 1 .. m + 1 /\ Frame.lo <= Frame.hi
      BY <1>3, FrameType DEF SortLoopInv
    <3> QED
      BY <2>1, <3>1 DEF Frame
  <2>3. n - 1 + log[w] <= log[m]
    BY <1>3, <2>1 DEF SortLoopInv, DepthInv
  <2>4. log[w] \in Nat /\ log[m] \in Nat
    <3>1. m \in 0 .. m
      BY <2>1
    <3> HIDE DEF n, m, w
    <3> QED
      BY <2>1, <2>2, <3>1, LogarithmsAre
  <2> HIDE DEF n, m, w, log
  <2>5. n <= 1 + log[m]
    BY <2>1, <2>3, <2>4
  <2> QED
    BY <2>5 DEF n, m, log
<1>4. SortLoopInv => OrderAsSpecified
  BY <1>2, <1>3 DEF OrderAsSpecified
<1> QED
  BY <1>1, <1>4, SortLoopStep, PTL DEF Spec

=============================================================================
