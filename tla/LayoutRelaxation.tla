-------------------------- MODULE LayoutRelaxation --------------------------
(***************************************************************************)
(* The shared layout engine of the assembler and the linker (ir/layout.c): *)
(* a sequence of fragments gets addresses and output offsets by repeated   *)
(* walks that shorten absolute instructions to their zero-page form in     *)
(* place, until a walk shortens nothing; then every operand and extent is  *)
(* validated and the bytes are emitted.                                    *)
(*                                                                         *)
(* One step visits one fragment.  Expressions are linear: an operand is a  *)
(* constant plus and minus at most one anchor each, evaluated over the     *)
(* anchors placed so far; a count is its value at the initial widths,      *)
(* changed by coef for every instruction of the span from..to-1 that has   *)
(* lost a byte (the extent graph evaluates spans from the current widths,  *)
(* never from placed addresses).  Memory exhaustion is left out.           *)
(***************************************************************************)
EXTENDS Integers, Sequences, FiniteSets

CONSTANTS
    Programs,       \* the layouts explored: [mode, frags] records
    RamAddresses,   \* addresses the link-mode RAM allocator may hand out
    RamStart,       \* blocks[0].start, or 0: the binary-mode RAM cursor
    CursorMax,      \* UINT32_MAX
    Unplaced        \* the value of an anchor that has no address yet

AddressSpace == 65536
MaxCount     == 65535
ZeroPage     == 0 .. 255
WordRange    == -32768 .. 65535

\* A label of its own is a gap of no bytes, a pad of a constant size one of so many.
Kinds == {"origin", "bank", "bankend", "pad", "gap", "fixed", "copy", "data",
          "instruction", "storage", "ram", "ramorigin"}

\* What an instruction's opcode allows: one byte, a branch, a byte operand, a
\* zero-page operand, a word operand that must stay wide, or a word operand
\* whose opcode has a zero-page equivalent (f->narrow is not 0xff).  A pad
\* runs up to an address ("address") or to an offset in its bank ("offset").
Forms == {"implied", "relative", "byte", "zeropage", "word", "optional",
          "address", "offset", "none"}

Operand  == [value : Int, plus : Nat, minus : Nat]
Count    == [value : Int, coef : {-1, 0, 1}, from : Nat, to : Nat]
Fragment == [kind : Kinds, form : Forms, base : Nat, size : Nat,
             operand : Operand, count : Count, early : BOOLEAN]

\* What building a layout refuses or never produces: a bank has room
\* (ir_layout_bank), branches are instructions, and only literals are early
\* (ir/frontend.c:1804-1806).
Buildable(f) ==
    /\ f.kind = "bank" => f.size > 0
    /\ f.form = "relative" => f.kind = "instruction"
    /\ f.early => f.operand.plus = 0 /\ f.operand.minus = 0

ASSUME ProgramsAssumption ==
    \A p \in Programs :
        /\ p.mode \in {"binary", "link"}
        /\ p.frags \in Seq(Fragment)
        /\ \A i \in DOMAIN p.frags :
               /\ {p.frags[i].operand.plus, p.frags[i].operand.minus} \subseteq 0 .. Len(p.frags)
               /\ Buildable(p.frags[i])
ASSUME RamAssumption    == RamAddresses \subseteq Nat /\ RamStart \in Nat
ASSUME LimitAssumption  == CursorMax \in Nat
ASSUME AnchorAssumption == Unplaced \notin Int

VARIABLES
    prog,        \* the fragments, fixed once run starts
    mode,        \* "binary" or "link"
    phase,       \* where ir_layout_run is
    error,       \* l->error.code
    narrowed,    \* instructions whose opcode became the zero-page one
    candidates,  \* instructions still optional when the walks start
    placed,      \* anchor addresses
    run,         \* f->run: the length a fragment got in its last walk
    ramSize,     \* ram.size, the RAM extent the allocator used
    walks,       \* work.walks
    shortened,   \* the walk's result flag
    cursor,      \* fragment the walk or the validation is at
    pc, output, bankStart, bankSize, ramPc,   \* the walk's locals
    checkpoint,  \* address and offset recorded where an affine run starts
    outputSize,  \* l->output_size
    offset,      \* final output offset of each fragment
    operand      \* operand value the encoder will emit

walkLocals == <<pc, output, bankStart, bankSize, ramPc>>
facts      == <<checkpoint, outputSize, offset, operand>>
vars == <<prog, mode, phase, error, narrowed, candidates, placed, run, ramSize,
          walks, shortened, cursor, walkLocals, facts>>

Index == 1 .. Len(prog)

-----------------------------------------------------------------------------
(* Expressions and widths over the current state *)

\* ir_evaluate: known once every anchor it names is placed.
Known(e, where) == /\ e.plus = 0 \/ where[e.plus] # Unplaced
                   /\ e.minus = 0 \/ where[e.minus] # Unplaced
Value(e, where) == e.value + (IF e.plus = 0 THEN 0 ELSE where[e.plus])
                           - (IF e.minus = 0 THEN 0 ELSE where[e.minus])

\* ir_evaluate_extent on a count: follows the widths, not the placed anchors.
Extent(c, short) == c.value - c.coef * Cardinality(short \cap (c.from .. c.to - 1))

\* opcode_length of the fragment's current opcode.
Length(i, short) ==
    CASE prog[i].form = "implied" -> 1
      [] prog[i].form \in {"relative", "byte", "zeropage"} \/ i \in short -> 2
      [] OTHER -> 3

\* narrow: shorten in place when the operand is already known to fit.
Narrowable(i, where, short) ==
    /\ prog[i].kind = "instruction" /\ prog[i].form = "optional" /\ i \notin short
    /\ Known(prog[i].operand, where)
    /\ Value(prog[i].operand, where) \in ZeroPage

Rams  == {i \in Index : prog[i].kind = "ram"}
Extents(short) == [i \in Rams |-> Extent(prog[i].count, short)]

\* Mutant: only an origin opens a run of its own.
CheckpointsAtOrigins == {i \in Index : i = 1 \/ prog[i].kind = "origin"}

\* Fragments that open a run of affine addresses keep a checkpoint.
Checkpoints == {i \in Index : \/ i = 1
                              \/ prog[i].kind \in {"origin", "bank"}
                              \/ prog[i-1].kind = "bankend"}

\* Mutant: the error is recorded, but its caller goes on.
FailWithoutStopping(code) ==
    /\ error' = code
    /\ UNCHANGED <<prog, mode, phase, narrowed, candidates, placed, run, ramSize, walks,
                   shortened, cursor, walkLocals, facts>>

Fail(code) ==
    /\ phase' = "done"
    /\ error' = code
    /\ UNCHANGED <<prog, mode, narrowed, candidates, placed, run, ramSize, walks,
                   shortened, cursor, walkLocals, facts>>

-----------------------------------------------------------------------------
(* prepare *)

Init ==
    /\ \E p \in Programs : prog = p.frags /\ mode = p.mode
    /\ phase = "prepare" /\ error = "ok"
    /\ narrowed = {} /\ candidates = {}
    /\ placed = [i \in Index |-> Unplaced]
    /\ run = [i \in Index |-> 0]
    /\ ramSize = [i \in Rams |-> 0]
    /\ walks = 0 /\ shortened = FALSE /\ cursor = 1
    /\ pc = 0 /\ output = 0 /\ bankStart = 0 /\ bankSize = 0 /\ ramPc = RamStart
    /\ checkpoint = [i \in Index |-> [address |-> 0, offset |-> 0]]
    /\ outputSize = 0
    /\ offset = [i \in Index |-> 0]
    /\ operand = [i \in Index |-> 0]

NarrowNow(where, short) == {i \in Index : Narrowable(i, where, short)}

\* The loop starts with the instructions preparation could not settle.
StartWalks ==
    /\ candidates' = {i \in Index : /\ prog[i].kind = "instruction"
                                    /\ prog[i].form = "optional"} \ narrowed'
    /\ phase' = "startwalk"

RamExtentsFit(sizes) == \A i \in Rams : sizes[i] \in Nat /\ sizes[i] <= AddressSpace

\* Link mode: RAM is allocated once, before the code relaxes.  When every RAM
\* extent is constant it is allocated first, so that its anchors already narrow
\* operands; otherwise the extents are taken at the widths of that moment.
\* Without ram{} blocks the anchors stay unplaced.
PrepareLink ==
    /\ phase = "prepare" /\ mode = "link"
    /\ \E at \in [Rams -> RamAddresses] \cup {[i \in Rams |-> Unplaced]} :
          LET where    == [i \in Index |-> IF i \in Rams THEN at[i] ELSE placed[i]]
              constant == \A i \in Rams : prog[i].count.coef = 0
          IN /\ placed' = where
             /\ ramSize' = Extents(IF constant THEN {} ELSE NarrowNow(placed, {}))
             /\ narrowed' = NarrowNow(where, {})
    /\ RamExtentsFit(ramSize')
    /\ StartWalks
    /\ UNCHANGED <<prog, mode, error, run, walks, shortened, cursor, walkLocals, facts>>

\* No block has room for some object, or its extent is above 64K.
RamUnplaceable ==
    /\ phase = "prepare" /\ mode = "link" /\ Rams # {}
    /\ Fail("ram")

\* Binary mode: RAM is a second cursor in source order.  prepare narrows the
\* constant operands, then runs the cursor once so that RAM anchors are known.
PrepareBinary ==
    /\ phase = "prepare" /\ mode = "binary"
    /\ narrowed' = NarrowNow(placed, {})
    /\ phase' = "ramscan"
    /\ UNCHANGED <<prog, mode, error, candidates, placed, run, ramSize, walks,
                   shortened, cursor, walkLocals, facts>>

\* binary_ram: the object at i goes to the RAM cursor, which moves past it.
RamError(i) ==
    LET size == Extent(prog[i].count, narrowed)
    IN IF size \notin Nat THEN "value"
       ELSE IF size > CursorMax - ramPc THEN "overflow" ELSE "ok"

PlaceRam(i) ==
    LET size == Extent(prog[i].count, narrowed)
    IN /\ placed' = [placed EXCEPT ![i] = ramPc]
       /\ ramSize' = [ramSize EXCEPT ![i] = size]
       /\ ramPc' = ramPc + size

MoveRamCursor(i) ==
    /\ ramPc' = IF prog[i].kind = "ramorigin" THEN prog[i].base ELSE ramPc
    /\ UNCHANGED <<placed, ramSize>>

ScanRam ==
    /\ phase = "ramscan" /\ cursor \in Index
    /\ IF prog[cursor].kind = "ram"
       THEN RamError(cursor) = "ok" /\ PlaceRam(cursor)
       ELSE MoveRamCursor(cursor)
    /\ cursor' = cursor + 1
    /\ UNCHANGED <<prog, mode, phase, error, narrowed, candidates, run, walks, shortened,
                   pc, output, bankStart, bankSize, facts>>

ScanRamFails ==
    /\ phase = "ramscan" /\ cursor \in Rams
    /\ RamError(cursor) # "ok"
    /\ Fail(RamError(cursor))

EndScanRam ==
    /\ phase = "ramscan" /\ cursor \notin Index
    /\ narrowed' = narrowed \cup NarrowNow(placed, narrowed)
    /\ StartWalks
    /\ UNCHANGED <<prog, mode, error, placed, run, ramSize, walks, shortened, cursor,
                   walkLocals, facts>>

-----------------------------------------------------------------------------
(* walk: the fragment at the cursor *)

\* Code, data and marks carry an anchor, which moves before anything reads it.  What
\* ir_place gets is the cursor as a signed word (expr_i32), which is the cursor below 2^31.
Anchored == {"instruction", "gap", "fixed", "copy", "data", "storage"}
Here     == [placed EXCEPT ![cursor] = pc]

NewWidths == IF Narrowable(cursor, Here, narrowed) THEN narrowed \cup {cursor} ELSE narrowed

Start == IF prog[cursor].kind \in {"origin", "bank"} THEN prog[cursor].base ELSE pc

Size ==
    LET f == prog[cursor]
    IN CASE f.kind = "instruction" -> Length(cursor, NewWidths)
         [] f.kind = "storage" -> Extent(f.count, narrowed)
         [] f.kind = "pad" -> f.base - (IF f.form = "address" THEN pc ELSE output - bankStart)
         [] f.kind = "bankend" -> IF bankSize = 0 THEN 0 ELSE bankSize - (output - bankStart)
         [] f.kind \in {"gap", "fixed", "copy", "data"} -> f.size
         [] OTHER -> 0

\* A bank boundary moves the output, not the address.
Advance == IF prog[cursor].kind \in {"bank", "bankend"} THEN 0 ELSE Size

\* Mutant: an extent below zero is not refused.
FitsBackwards ==
    /\ Size <= CursorMax - output
    /\ Start + Advance <= CursorMax
    /\ prog[cursor].kind = "bank" \/ bankSize = 0 \/ output + Size - bankStart <= bankSize

\* Only code is held to the 64K space, and only by the linker: script copies
\* and pads, and the marks between them, may form larger CHR banks.
Fits ==
    /\ Size >= 0 /\ Size <= CursorMax - output
    /\ Start + Advance <= CursorMax
    /\ ~(/\ mode = "link" /\ Start + Advance > AddressSpace
         /\ prog[cursor].kind \in {"instruction", "fixed", "data", "storage"})
    /\ prog[cursor].kind = "bank" \/ bankSize = 0 \/ output + Size - bankStart <= bankSize

VisitError ==
    IF prog[cursor].kind = "storage" /\ Size \notin 1 .. MaxCount THEN "value"
    ELSE IF prog[cursor].kind = "ram" /\ mode = "binary" /\ RamError(cursor) # "ok"
    THEN RamError(cursor)
    ELSE IF Fits THEN "ok" ELSE "overflow"

Visiting(kinds) == /\ phase = "walk" /\ cursor \in Index
                   /\ prog[cursor].kind \in kinds

\* What every visit does: record the fragment's length and, where an affine
\* run begins, its address and offset; then move the cursors past it.
Occupy ==
    /\ VisitError = "ok"
    /\ run' = [run EXCEPT ![cursor] = Size]
    /\ checkpoint' = IF cursor \in Checkpoints
                     THEN [checkpoint EXCEPT ![cursor] = [address |-> Start, offset |-> output]]
                     ELSE checkpoint
    /\ pc' = Start + Advance
    /\ output' = output + Size
    /\ cursor' = cursor + 1
    /\ UNCHANGED <<prog, mode, phase, error, candidates, walks, outputSize, offset, operand>>

VisitCode ==
    /\ Visiting(Anchored)
    /\ Occupy
    /\ placed' = Here
    /\ narrowed' = NewWidths
    /\ shortened' = (shortened \/ NewWidths # narrowed)
    /\ UNCHANGED <<bankStart, bankSize, ramPc, ramSize>>

VisitPlacement ==
    /\ Visiting({"origin", "pad", "bankend"})
    /\ Occupy
    /\ UNCHANGED <<placed, narrowed, shortened, bankStart, bankSize, ramPc, ramSize>>

VisitBank ==
    /\ Visiting({"bank"})
    /\ Occupy
    /\ bankStart' = output /\ bankSize' = prog[cursor].size
    /\ UNCHANGED <<placed, narrowed, shortened, ramPc, ramSize>>

\* RAM occupies no output; in link mode its anchor is already final.
VisitRam ==
    /\ Visiting({"ram", "ramorigin"})
    /\ Occupy
    /\ CASE mode = "link" -> UNCHANGED <<placed, ramPc, ramSize>>
         [] mode = "binary" /\ prog[cursor].kind = "ram" -> PlaceRam(cursor)
         [] OTHER -> MoveRamCursor(cursor)
    /\ UNCHANGED <<narrowed, shortened, bankStart, bankSize>>

VisitFails ==
    /\ Visiting(Kinds)
    /\ VisitError # "ok"
    /\ Fail(VisitError)

-----------------------------------------------------------------------------
(* ir_layout_run: the loop around walk *)

\* Mutant: the budget forgets the walk that changes nothing.
LimitWithoutLast == Cardinality(candidates) + 1

\* One walk per candidate, one that finds the forward addresses and one that
\* changes nothing.
Limit == Cardinality(candidates) + 2

\* Mutant: the result flag of the walk before is kept.
BeginWalkStale ==
    /\ phase = "startwalk"
    /\ phase' = "walk"
    /\ walks' = walks + 1 /\ cursor' = 1
    /\ pc' = 0 /\ output' = 0 /\ bankStart' = 0 /\ bankSize' = 0 /\ ramPc' = RamStart
    /\ UNCHANGED <<prog, mode, error, narrowed, candidates, placed, run, ramSize,
                   shortened, facts>>

BeginWalk ==
    /\ phase = "startwalk"
    /\ phase' = "walk"
    /\ walks' = walks + 1 /\ shortened' = FALSE /\ cursor' = 1
    /\ pc' = 0 /\ output' = 0 /\ bankStart' = 0 /\ bankSize' = 0 /\ ramPc' = RamStart
    /\ UNCHANGED <<prog, mode, error, narrowed, candidates, placed, run, ramSize, facts>>

\* Mutant: one walk is enough when it shortened nothing.
AgainIfShortened == shortened

\* Walk at least twice: forward addresses first become available in walk 1.
Again == shortened \/ walks = 1

EndWalk ==
    /\ phase = "walk" /\ cursor \notin Index
    /\ IF walks > Limit
       THEN Fail("unstable")
       ELSE /\ phase' = IF Again THEN "startwalk" ELSE "validate"
            /\ outputSize' = output
            /\ cursor' = 1 /\ pc' = 0 /\ output' = 0
            /\ UNCHANGED <<prog, mode, error, narrowed, candidates, placed, run, ramSize,
                           walks, shortened, bankStart, bankSize, ramPc, checkpoint, offset,
                           operand>>

-----------------------------------------------------------------------------
(* validate and encode *)

HasOperand(f) == f.kind \in {"instruction", "data"} /\ f.form \notin {"implied", "none"}

\* The last pass re-derives addresses from the recorded lengths.
ValidAddress == IF prog[cursor].kind \in {"origin", "bank"} THEN prog[cursor].base ELSE pc

\* Mutant: an operand that fitted when it was shortened is not checked again.
OperandFitsOnce(i, value, address) ==
    LET f == prog[i]
    IN f.kind = "instruction" =>
        /\ f.form = "relative" => value - (address + 2) \in -128 .. 127
        /\ f.form # "relative" /\ ~f.early =>
              /\ f.form = "zeropage" => value \in ZeroPage
              /\ f.form = "byte" => value \in -128 .. 255
              /\ f.form \in {"word", "optional"} /\ mode = "link" => value \in WordRange

\* Data is warned about and truncated; early operands had the frontend's
\* literal policy.
OperandFits(i, value, address) ==
    LET f == prog[i]
    IN f.kind = "instruction" =>
        /\ f.form = "relative" => value - (address + 2) \in -128 .. 127
        /\ f.form # "relative" /\ ~f.early =>
              /\ f.form = "zeropage" \/ i \in narrowed => value \in ZeroPage
              /\ f.form = "byte" => value \in -128 .. 255
              /\ f.form \in {"word", "optional"} /\ mode = "link" => value \in WordRange

RamSettled == \A i \in Rams : Extent(prog[i].count, narrowed) = ramSize[i]

ValidateError ==
    LET f == prog[cursor]
        followed == f.kind = "storage" => Extent(f.count, narrowed) = run[cursor]
    IN IF ~RamSettled \/ ~followed THEN "unstable"
       ELSE IF ~HasOperand(f) THEN "ok"
       ELSE IF ~Known(f.operand, placed) THEN "unresolved"
       ELSE IF ~OperandFits(cursor, Value(f.operand, placed), ValidAddress) THEN "range"
       ELSE "ok"

ValidateFragment ==
    /\ phase = "validate" /\ cursor \in Index
    /\ ValidateError = "ok"
    /\ offset' = [offset EXCEPT ![cursor] = output]
    /\ operand' = IF HasOperand(prog[cursor])
                  THEN [operand EXCEPT ![cursor] = Value(prog[cursor].operand, placed)]
                  ELSE operand
    /\ pc' = ValidAddress + (IF prog[cursor].kind \in {"bank", "bankend"} THEN 0
                                                                         ELSE run[cursor])
    /\ output' = output + run[cursor]
    /\ cursor' = cursor + 1
    /\ UNCHANGED <<prog, mode, phase, error, narrowed, candidates, placed, run, ramSize,
                   walks, shortened, bankStart, bankSize, ramPc, checkpoint, outputSize>>

ValidateFails ==
    /\ phase = "validate" /\ cursor \in Index
    /\ ValidateError # "ok"
    /\ Fail(ValidateError)

\* final_placement: an address is the affine run's, at this output offset.
LastCheckpoint(i) ==
    CHOOSE c \in Checkpoints : c <= i /\ \A d \in Checkpoints : d <= i => d <= c
FinalAddress(i) ==
    LET c == checkpoint[LastCheckpoint(i)] IN c.address + (offset[i] - c.offset)

\* check_copies re-reads every copied file before anything is emitted.
CopyChanged ==
    /\ phase = "validate" /\ cursor \notin Index
    /\ \E i \in Index : prog[i].kind = "copy"
    /\ Fail("copy_changed")

Encodable ==
    /\ output = outputSize
    /\ \A i \in Index : prog[i].kind \in {"fixed", "copy", "data"} => run[i] = prog[i].size

Encode ==
    /\ phase = "validate" /\ cursor \notin Index
    /\ IF Encodable
       THEN /\ phase' = "done"
            /\ UNCHANGED <<prog, mode, error, narrowed, candidates, placed, run, ramSize,
                           walks, shortened, cursor, walkLocals, facts>>
       ELSE Fail("unstable")

Next ==
    \/ PrepareLink \/ RamUnplaceable
    \/ PrepareBinary \/ ScanRam \/ ScanRamFails \/ EndScanRam
    \/ BeginWalk
    \/ VisitCode \/ VisitPlacement \/ VisitBank \/ VisitRam \/ VisitFails
    \/ EndWalk
    \/ ValidateFragment \/ ValidateFails \/ CopyChanged \/ Encode

Spec     == Init /\ [][Next]_vars
FairSpec == Spec /\ WF_vars(Next)

-----------------------------------------------------------------------------
(* Properties *)

Ready == phase = "done" /\ error = "ok"

\* The state is well formed in every step; the substance is that no cursor and
\* no recorded length is ever negative, although pads and counts subtract
\* (ir/layout.c:884-897).
TypeOK ==
    /\ prog \in Seq(Fragment) /\ mode \in {"binary", "link"}
    /\ phase \in {"prepare", "ramscan", "startwalk", "walk", "validate", "done"}
    /\ error \in {"ok", "ram", "value", "overflow", "unresolved", "range", "unstable",
                  "copy_changed"}
    /\ narrowed \subseteq Index /\ candidates \subseteq Index
    /\ placed \in [Index -> Int \cup {Unplaced}]
    /\ run \in [Index -> Nat]
    /\ ramSize \in [Rams -> Nat]
    /\ walks \in Nat /\ shortened \in BOOLEAN /\ cursor \in Nat
    /\ pc \in Nat /\ output \in Nat /\ bankStart \in Nat /\ bankSize \in Nat /\ ramPc \in Nat
    /\ checkpoint \in [Index -> [address : Nat, offset : Nat]]
    /\ outputSize \in Nat
    /\ offset \in [Index -> Nat]
    /\ operand \in [Index -> Int]

\* The loop's walk budget is never exceeded: each walk after the first has
\* shortened an instruction that no later walk can shorten again, so the
\* budget of one walk per candidate plus two (ir/layout.c:1155) suffices.
WalksBounded == walks <= Limit

\* "Layout did not stabilize" is reported for one reason only: a linker RAM
\* object whose extent follows code widths that changed after RAM had been
\* allocated (ir/layout.c:910).  Neither the loop, nor a storage count that
\* follows widths, nor the encoder's length checks can fail that way.
UnstableOnlyFromRam ==
    error = "unstable" => mode = "link" /\ \E i \in Rams : prog[i].count.coef # 0

\* Where a fragment is emitted is where its label says it is: the anchor left
\* by the last walk, the address rebuilt from checkpoint and output offset,
\* and the lengths in between agree; every bank takes exactly its size and every
\* pad ends at its target (ir/layout.c:85-99, 870-892).
BankOf(i) == CHOOSE b \in 1 .. i : /\ prog[b].kind = "bank"
                                   /\ \A c \in b+1 .. i : prog[c].kind # "bank"
InBank(i) == \E b \in 1 .. i : prog[b].kind = "bank"
PlacementAgrees ==
    Ready => \A i \in Index :
        /\ prog[i].kind \in Anchored => FinalAddress(i) = placed[i]
        /\ i + 1 \in Index => offset[i+1] = offset[i] + run[i]
        /\ prog[i].kind = "instruction" => run[i] = Length(i, narrowed)
        /\ prog[i].kind = "bankend" /\ InBank(i) =>
              offset[i] + run[i] - offset[BankOf(i)] = prog[BankOf(i)].size
        /\ prog[i].kind = "pad" /\ prog[i].form = "address" =>
              FinalAddress(i) + run[i] = prog[i].base
        /\ prog[i].kind = "pad" /\ prog[i].form = "offset" /\ InBank(i) =>
              offset[i] + run[i] - offset[BankOf(i)] = prog[i].base

\* The operand that is emitted is the value of its expression at the addresses
\* where the fragments it names are emitted, although it was shortened on the
\* addresses of an earlier walk; a short operand fits its byte and a branch
\* lands on its target (ir/layout.c:939-975, 1023-1028).
EmittedAt(a) == IF prog[a].kind \in Anchored THEN FinalAddress(a) ELSE placed[a]
OperandsTrue ==
    Ready => \A i \in Index : HasOperand(prog[i]) =>
        /\ operand[i] = Value(prog[i].operand, [a \in Index |-> EmittedAt(a)])
        /\ i \in narrowed => operand[i] \in ZeroPage
        /\ prog[i].form = "relative" =>
              operand[i] - (FinalAddress(i) + 2) \in -128 .. 127

\* No instruction is left wide although its final operand would fit the zero
\* page, as long as no extent follows code widths: the last, unchanged walk saw
\* the final addresses (ir/layout.c:614-632, 1156-1160).
FixedExtents == \A i \in Index : prog[i].kind \in {"storage", "ram"} => prog[i].count.coef = 0
NoMissedNarrowing ==
    Ready /\ FixedExtents => NarrowNow(placed, narrowed) = {}

\* The layout always ends, with bytes or with an error.
Terminates == <>(phase = "done")
=============================================================================
