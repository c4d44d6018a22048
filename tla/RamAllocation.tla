---------------------------- MODULE RamAllocation ----------------------------
(***************************************************************************)
(* The linker's RAM allocator (allocate_ram in ir/layout.c): every data    *)
(* segment object of the linked units gets an address in one of the ram{}  *)
(* blocks of the link script.  The objects are sorted by an unstable       *)
(* last-pivot quicksort, whose permutation of equal keys is part of the    *)
(* format, and then placed first fit; a block that does not start at an    *)
(* object's boundary is split there and both pieces stay in the list.      *)
(*                                                                         *)
(* One step is one comparison or one pivot of the sort, or one look at a   *)
(* block.  The array holds object numbers instead of the ram records; the  *)
(* C stack of ram_sort is a sequence of the ranges its frames still have   *)
(* to sort, positions counted from 1 and the upper one exclusive.          *)
(***************************************************************************)
EXTENDS Integers, SequencesExt

CONSTANTS
    Scripts,      \* the links explored: [objects, blocks] records
    Unresolved,   \* an extent that still depends on an unplaced address
    Unplaced      \* an anchor without an address

AddressSpace == 65536
ZeroPageEnd  == 256
MaxAlign     == 15

Object == [size : Nat \cup {Unresolved}, align : 0 .. MaxAlign, zp : BOOLEAN]
Block  == {b \in [start : Nat, end : Nat] : b.start < b.end /\ b.end <= AddressSpace}

ASSUME ScriptsAssumption ==
    \A s \in Scripts : s.objects \in Seq(Object) /\ s.blocks \in Seq(Block)
ASSUME MarkersAssumption == Unresolved \notin Int /\ Unplaced \notin Int

VARIABLES
    table,      \* the objects in link order, fixed
    script,     \* the ram{} blocks of the link script, fixed
    phase,      \* "size", "sort", "place" or "done"
    error,      \* l->error.code
    order,      \* l->ram: the object at each position
    stack,      \* active calls of ram_sort
    split,      \* i of the innermost call
    scan,       \* j of the innermost call, 0 outside its partition loop
    blocks,     \* l->blocks: what is still free
    object,     \* i of the placement loop
    block,      \* j of the placement loop
    address     \* where each object's anchor is placed

inputs    == <<table, script>>
sorting   == <<order, stack, split, scan>>
placement == <<blocks, object, block, address>>
vars == <<inputs, phase, error, sorting, placement>>

Objects == 1 .. Len(table)

-----------------------------------------------------------------------------
(* Keys and boundaries *)

\* 1u << align
Unit == <<1, 2, 4, 8, 16, 32, 64, 128, 256, 512, 1024, 2048, 4096, 8192, 16384, 32768>>

\* Mutant: the exponent is ignored.
NoBoundary(start, align) == start

\* (start + mask) & ~mask
Boundary(start, align) ==
    ((start + Unit[align + 1] - 1) \div Unit[align + 1]) * Unit[align + 1]

\* An object without a boundary sorts like one with exponent 1.
Rank(o) == IF o.align = 0 THEN 1 ELSE o.align

\* a.key >= b.key.  The key's fields do not overlap, so the comparison is
\* lexicographic; its size field is 0x10000 - size: small objects come first.
AtLeast(a, b) ==
    \/ a.zp /\ ~b.zp
    \/ a.zp = b.zp /\ \/ Rank(a) > Rank(b)
                      \/ Rank(a) = Rank(b) /\ a.size <= b.size

Exchanged(a, i, j) == [a EXCEPT ![i] = a[j], ![j] = a[i]]

-----------------------------------------------------------------------------
(* Sizes *)

Init ==
    /\ \E s \in Scripts : table = s.objects /\ script = s.blocks
    /\ phase = "size" /\ error = "ok"
    /\ order = [i \in Objects |-> i]
    /\ stack = <<>> /\ split = 1 /\ scan = 0
    /\ blocks = script
    /\ object = 1 /\ block = 1
    /\ address = [i \in Objects |-> Unplaced]

SizeError(o) ==
    IF o.size = Unresolved THEN "unresolved"
    ELSE IF o.size > AddressSpace THEN "ram" ELSE "ok"

\* The first object whose extent is unknown or too large ends the link.
SizeRejected ==
    /\ phase = "size"
    /\ \E i \in Objects :
          /\ SizeError(table[i]) # "ok"
          /\ \A k \in 1 .. i - 1 : SizeError(table[k]) = "ok"
          /\ error' = SizeError(table[i])
    /\ phase' = "done"
    /\ UNCHANGED <<inputs, sorting, placement>>

SizesKnown == \A i \in Objects : SizeError(table[i]) = "ok"

\* Without ram{} blocks nothing is placed, and that is no error yet.
NoBlocks ==
    /\ phase = "size" /\ SizesKnown /\ script = <<>>
    /\ phase' = "done"
    /\ UNCHANGED <<inputs, error, sorting, placement>>

StartSort ==
    /\ phase = "size" /\ SizesKnown /\ script # <<>>
    /\ phase' = "sort"
    /\ stack' = <<[lo |-> 1, hi |-> Len(table) + 1]>>
    /\ UNCHANGED <<inputs, error, order, split, scan, placement>>

-----------------------------------------------------------------------------
(* ram_sort *)

Frames == [lo : 1 .. Len(table) + 1, hi : 1 .. Len(table) + 1]
Frame  == stack[Len(stack)]
Caller == SubSeq(stack, 1, Len(stack) - 1)
Pivot  == Frame.hi - 1

\* while (hi > lo + 1)
StartPartition ==
    /\ phase = "sort" /\ scan = 0
    /\ Frame.hi > Frame.lo + 1
    /\ split' = Frame.lo /\ scan' = Frame.lo
    /\ UNCHANGED <<inputs, phase, error, order, stack, placement>>

Compare ==
    /\ phase = "sort" /\ scan # 0 /\ scan < Pivot
    /\ scan' = scan + 1
    /\ IF AtLeast(table[order[scan]], table[order[Pivot]])
       THEN order' = Exchanged(order, split, scan) /\ split' = split + 1
       ELSE UNCHANGED <<order, split>>
    /\ UNCHANGED <<inputs, phase, error, stack, placement>>

\* Mutant: the left side loses its last element.
DescendShort(i) ==
    Caller \o <<[lo |-> i + 1, hi |-> Frame.hi], [lo |-> Frame.lo, hi |-> i - 1]>>

\* The call descends into the smaller side; the frame goes on with the other.
Descend(i) ==
    LET left  == [lo |-> Frame.lo, hi |-> i]
        right == [lo |-> i + 1, hi |-> Frame.hi]
    IN IF i - Frame.lo < Frame.hi - i - 1
       THEN Caller \o <<right, left>>
       ELSE Caller \o <<left, right>>

PlacePivot ==
    /\ phase = "sort" /\ scan # 0 /\ scan = Pivot
    /\ order' = Exchanged(order, split, Pivot)
    /\ stack' = Descend(split)
    /\ scan' = 0
    /\ UNCHANGED <<inputs, phase, error, split, placement>>

\* A range of at most one element: the call returns, the last one to the loop
\* that places the objects.
Return ==
    /\ phase = "sort" /\ scan = 0
    /\ Frame.hi <= Frame.lo + 1
    /\ stack' = Caller
    /\ phase' = IF stack' = <<>> THEN "place" ELSE "sort"
    /\ UNCHANGED <<inputs, error, order, split, scan, placement>>

-----------------------------------------------------------------------------
(* Placement *)

Current == table[order[object]]
Size(b) == b.end - b.start

\* Mutant: a block of exactly the object's size is passed over.
EligibleWithSlack(o, b) == (o.zp => b.start < ZeroPageEnd) /\ o.size < Size(b)

\* The tests made on a block before its boundary is looked at.
Eligible(o, b) == (o.zp => b.start < ZeroPageEnd) /\ o.size <= Size(b)

AtBoundary(o, b) == Boundary(b.start, o.align) = b.start

Looking == /\ phase = "place"
           /\ object \in DOMAIN order /\ block \in DOMAIN blocks

Finish(code) ==
    /\ phase' = "done" /\ error' = code
    /\ UNCHANGED <<object, block>>

\* Mutant: the loop looks at the block again.
SkipNothing ==
    /\ Looking
    /\ ~Eligible(Current, blocks[block])
    /\ UNCHANGED vars

\* The block is not eligible, or its only boundary is its exclusive end.
SkipBlock ==
    /\ Looking
    /\ \/ ~Eligible(Current, blocks[block])
       \/ Boundary(blocks[block].start, Current.align) >= blocks[block].end
    /\ block' = block + 1
    /\ UNCHANGED <<inputs, phase, error, sorting, blocks, object, address>>

UpTo(b, at) == [start |-> b.start, end |-> at]
From(b, at) == [start |-> at, end |-> b.end]

\* Mutant: the first piece keeps its end.
SplitSharing(j, at) ==
    InsertAt([blocks EXCEPT ![j] = From(@, at)], j, blocks[j])

\* Mutant: the padding before the boundary is given up.
SplitDropping(j, at) == [blocks EXCEPT ![j] = From(@, at)]

\* Both pieces stay, whether or not the second can hold the object.
SplitAt(j, at) ==
    InsertAt([blocks EXCEPT ![j] = From(blocks[j], at)], j, UpTo(blocks[j], at))

NeedsSplit ==
    /\ Looking
    /\ Eligible(Current, blocks[block])
    /\ ~AtBoundary(Current, blocks[block])
    /\ Boundary(blocks[block].start, Current.align) < blocks[block].end

\* Mutant: the second piece is not looked at again.
SplitWithoutRecheck ==
    /\ NeedsSplit
    /\ blocks' = SplitAt(block, Boundary(blocks[block].start, Current.align))
    /\ block' = block + 2
    /\ UNCHANGED <<inputs, phase, error, sorting, object, address>>

\* continue: the second piece is the next block looked at.
SplitBlock ==
    /\ NeedsSplit
    /\ blocks' = SplitAt(block, Boundary(blocks[block].start, Current.align))
    /\ block' = block + 1
    /\ UNCHANGED <<inputs, phase, error, sorting, object, address>>

\* Mutant: an exhausted block stays in the list.
TakenKeepingEmpty(j, size) == [blocks EXCEPT ![j] = From(@, @.start + size)]

\* The object takes the front of the block, and the block when nothing is left.
Taken(j, size) ==
    LET end == blocks[j].start + size
    IN IF end = blocks[j].end
       THEN RemoveAt(blocks, j)
       ELSE [blocks EXCEPT ![j] = From(blocks[j], end)]

Fitting ==
    /\ Looking
    /\ Eligible(Current, blocks[block])
    /\ AtBoundary(Current, blocks[block])

TakeBlock ==
    /\ Fitting
    /\ address' = [address EXCEPT ![order[object]] = blocks[block].start]
    /\ blocks' = Taken(block, Current.size)
    /\ object' = object + 1 /\ block' = 1
    /\ UNCHANGED <<inputs, phase, error, sorting>>

NoBlockLeft ==
    /\ phase = "place" /\ object \in DOMAIN order /\ block > Len(blocks)
    /\ Finish("ram")
    /\ UNCHANGED <<inputs, sorting, blocks, address>>

\* The block list cannot grow, or ir_place cannot invalidate what depends on
\* the anchor: by then the block has been taken.
OutOfMemory ==
    /\ \/ NeedsSplit /\ UNCHANGED blocks
       \/ Fitting /\ blocks' = Taken(block, Current.size)
    /\ Finish("memory")
    /\ UNCHANGED <<inputs, sorting, address>>

AllPlaced ==
    /\ phase = "place" /\ object > Len(order)
    /\ Finish("ok")
    /\ UNCHANGED <<inputs, sorting, blocks, address>>

Next ==
    \/ SizeRejected \/ NoBlocks \/ StartSort
    \/ StartPartition \/ Compare \/ PlacePivot \/ Return
    \/ SkipBlock \/ SplitBlock \/ TakeBlock \/ NoBlockLeft
    \/ OutOfMemory \/ AllPlaced

Spec == Init /\ [][Next]_vars

\* One thread runs the allocator to its end.
FairSpec == Spec /\ WF_vars(Next)

-----------------------------------------------------------------------------
(* What the allocator promises *)

\* Every variable has its type; blocks never become empty and the array stays a
\* permutation of the objects.
TypeOK ==
    /\ table \in Seq(Object) /\ script \in Seq(Block)
    /\ phase \in {"size", "sort", "place", "done"}
    /\ error \in {"ok", "ram", "unresolved", "memory"}
    /\ order \in [Objects -> Objects] /\ IsInjective(order)
    /\ stack \in Seq(Frames)
    /\ split \in 1 .. Len(table) + 1 /\ scan \in 0 .. Len(table)
    /\ blocks \in Seq(Block)
    /\ object \in 1 .. Len(table) + 1 /\ block \in Nat \ {0}
    /\ address \in [Objects -> Nat \cup {Unplaced}]

(* sort(A, p, r) of doc/object-format.md, the definition that fixes where objects *)
(* of equal keys end up, as functions: what loop and calls make of an array.     *)

Arrays(objs) == [DOMAIN objs -> DOMAIN objs]

\* The loop "for j from p through r - 1" at some j: i is the last element exchanged.
Loops(objs) ==
    {s \in [a : Arrays(objs), i : 0 .. Len(objs), j : DOMAIN objs, r : DOMAIN objs] :
        s.i < s.j /\ s.j <= s.r}

Passed(objs, s) ==
    IF AtLeast(objs[s.a[s.j]], objs[s.a[s.r]])
    THEN [a |-> Exchanged(s.a, s.i + 1, s.j), i |-> s.i + 1, j |-> s.j + 1, r |-> s.r]
    ELSE [a |-> s.a, i |-> s.i, j |-> s.j + 1, r |-> s.r]

Partition(objs) ==
    LET loop[s \in Loops(objs)] == IF s.j = s.r THEN s ELSE loop[Passed(objs, s)]
    IN loop

Calls(objs) == [a : Arrays(objs), p : 1 .. Len(objs) + 1, r : 0 .. Len(objs)]

Sort(objs) ==
    LET sort[c \in Calls(objs)] ==
            IF c.p >= c.r THEN c.a
            ELSE LET done == Partition(objs)[[a |-> c.a, i |-> c.p - 1, j |-> c.p, r |-> c.r]]
                     q    == done.i + 1
                     left == sort[[a |-> Exchanged(done.a, q, c.r), p |-> c.p, r |-> q - 1]]
                 IN sort[[a |-> left, p |-> q + 1, r |-> c.r]]
    IN sort

SpecifiedSort(objs) == Sort(objs)[[a |-> [i \in DOMAIN objs |-> i], p |-> 1, r |-> Len(objs)]]

\* The logarithms to base 2 of the numbers up to n, rounded down.
Logarithms(n) ==
    LET log[k \in 0 .. n] == IF k < 2 THEN 0 ELSE 1 + log[k \div 2]
    IN log

\* The loop of ram_sort, which changes the order in which the two sides are
\* sorted, ends with exactly the permutation the format pins, ties included, and
\* that "keeps C stack bounded by log N": with N objects at most 1 + log2 N calls
\* are active, whatever the keys (ir/layout.c:458-471).
OrderAsSpecified ==
    /\ phase = "place" => order = SpecifiedSort(table)
    /\ phase = "sort" => Len(stack) <= 1 + Logarithms(Len(table))[Len(table)]

Apart(a, b) == a.end <= b.start \/ b.end <= a.start

\* Objects that occupy bytes: a zero-size object may share its address.
Stored == {i \in Objects : address[i] # Unplaced /\ table[i].size > 0}

Occupied(i) == [start |-> address[i], end |-> address[i] + table[i].size]

ScriptApart ==
    \A i, j \in DOMAIN script : i # j => Apart(script[i], script[j])

\* No byte of RAM is given out twice: if the script's blocks do not overlap, the
\* objects placed so far and the free blocks are pairwise disjoint, through every
\* split, shrinking and removal of a block.
NothingSharesBytes ==
    ScriptApart =>
        /\ \A i, j \in DOMAIN blocks : i # j => Apart(blocks[i], blocks[j])
        /\ \A i \in Stored, j \in DOMAIN blocks : Apart(Occupied(i), blocks[j])
        /\ \A i, j \in Stored : i # j => Apart(Occupied(i), Occupied(j))

Bytes(b) == b.start .. b.end - 1

\* No byte of RAM gets lost: splits and placements leave every byte of the
\* script either free or inside an object, unless memory ran out.
NoByteIsLost ==
    error # "memory" =>
        UNION {Bytes(script[i]) : i \in DOMAIN script}
            = (UNION {Bytes(blocks[i]) : i \in DOMAIN blocks})
              \cup (UNION {Bytes(Occupied(i)) : i \in Stored})

Within(o, at, b) == b.start <= at /\ at + o.size <= b.end

\* A placed object lies inside one block of the script, at its boundary, and
\* starts in the zero page if it was declared so.
PlacedAsDeclared ==
    \A i \in Objects : address[i] # Unplaced =>
        /\ \E j \in DOMAIN script : Within(table[i], address[i], script[j])
        /\ address[i] % Unit[table[i].align + 1] = 0
        /\ table[i].zp => address[i] < ZeroPageEnd

\* Where a free block could hold an object.
Places(o, b) ==
    {at \in Bytes(b) : /\ Within(o, at, b) /\ Boundary(at, o.align) = at
                       /\ o.zp => at < ZeroPageEnd}

\* First fit: an object goes to the first place of the first block that has one;
\* the failed looks before, with their splits, have missed nothing.
FirstFit ==
    [][\A i \in Objects :
          address'[i] # address[i] =>
              /\ \A j \in 1 .. block - 1 : Places(table[i], blocks[j]) = {}
              /\ \A at \in Places(table[i], blocks[block]) : address'[i] <= at
      ]_vars

\* The allocator gives up only when no free block has a place for the object; and
\* when it is a zero-page object, no object without that constraint has been given
\* any RAM (ir/layout.c:457-530).
GivesUpOnlyWhenFull ==
    error = "ram" /\ SizesKnown =>
        /\ \A j \in DOMAIN blocks : Places(Current, blocks[j]) = {}
        /\ Current.zp => \A i \in Objects : address[i] # Unplaced => table[i].zp

\* xorcyst.texinfo:1384: a .zeropage variable is "always ... mapped to zero
\* page".  Only its first byte is.
ZeroPageObjectsStayThere ==
    \A i \in Stored : table[i].zp => Occupied(i).end <= ZeroPageEnd

\* Sorting and placement end: no split can go on for ever.
Terminates == <>(phase = "done")
=============================================================================
