# Specifications of the XORcyst assembler and linker

TLA+ modules, TLC configurations and TLAPS proofs for `xasm` and `xlnk`, a 6502
assembler and linker in C.  The programs are single-threaded batch programs.
What is hard in them is not concurrency but iteration to a fixed point, state
that is used after what it was computed from has changed, and the many ways in
which one step of several can fail when files are produced.

## 1. Inventory

| component | source | state it keeps | operations | properties that make it correct |
|---|---|---|---|---|
| layout engine | `ir/layout.c` | fragments, anchors, checkpoints, RAM objects and blocks, work counters, sticky error | build the fragment list, `prepare`, `walk`, `validate`, `encode` | the loop ends within its budget; emitted bytes, addresses and operands agree; banks and pads have their size; no avoidable wide instruction |
| value graph | `ir/value.c` | nodes, definitions, anchors, memo per node and mode, reverse edges, epochs | build, `ir_bind`, `ir_place`, `ir_evaluate`, `ir_evaluate_extent` | an answer is what the expression means now; cycles are diagnosed from the root that was asked |
| output batch | `output_file.c` | open writers, staged files, batching flag | open, close, publish, stage, `output_batch_finish` | all or nothing; old contents kept; nothing torn, nothing left behind |
| assembler driver | `xasm.c` | exit code, error count, flags of what was generated | produce, stage and publish each product | the exit status and the disk agree |
| dependency manifest | `dependencies.c` | snapshots of inputs, planned outputs, failure flag | capture, open, output, validate, write | what is vouched for is what was read; no output is an input |
| source model | `source_model.c` | tables of tokens, nodes, ranges | capture, match, finish, write | certified only when complete |
| object programs | `ir/object.c`, `ir/program.c` | records of a unit under construction | append, finish, read, write | round trip |
| linker units | `ir/link.c` | units, exports, imports | add, append, prepare, finish | a name means what its exporting unit defines, in whatever order units come |
| linker driver | `xlnk.c`, `script.c` | staged outputs, RAM blocks | run a script, publish | a failure is reported; nothing is published before all is written; inputs survive |
| IR heap | `ir/heap.c` | blocks, free lists | take, record, release | no live cell handed out twice |
| symbol table | `symtab.c` | balanced trees, scope stack | enter, lookup, push, pop | lookups find the innermost entry |
| syntax tree processing | `astproc.c` | the list being walked, branch scopes, counters, constants and labels | expand a macro, leave it, repeat, choose, rename labels | statements and label references are those of the program's structure |
| parser, scanner, listing, name lists, character maps, utilities | the rest | | traversals, formatting, generated code | |

The parts interact by calls.  `main` in `xasm.c` parses, hands the tree to the
frontend, which builds expressions in the value graph and fragments in a layout
and runs it; the driver then writes each product through the output writers.
`xlnk` reads object programs, resolves them into the same value graph and layout
and publishes its outputs by itself.  The layout reads and writes the graph: it
evaluates operands and extents and places anchors, and each placement
invalidates memoised values.  The dependency recorder sits under every file that
is read, and decides before a product is opened and before the manifest is
published whether the plan still stands.

The hard behaviours, each listed at its line under `hazards` in `PROJECT.json`:
a fixed-point loop that commits to choices made on addresses that still move
(`layout.c:621`); three independent derivations of the same address
(`layout.c:876`, `:94`, `:917`); allocation that happens before the sizes it
depends on are final (`layout.c:910`); a block list edited while it is walked, and a
sort whose treatment of ties is part of the format (`layout.c:465-525`); unsigned subtractions at pads and banks
(`layout.c:886`); renames and rollbacks that fail half way, and a process that
dies between two of them (`output_file.c:186-225`); a driver with fifteen places
that set the exit code and one that decides to publish (`xasm.c:1957`); memos that
outlive what they were computed from (`ir/value.c:920`); a file system that changes
between two looks at it (`dependencies.c:386`); a linker that publishes several files
without a batch (`xlnk.c:441`); a list of statements that is rewritten while it is
walked and that a macro may leave from inside a loop (`astproc.c:607`).

## 2. Plan

1. `LayoutRelaxation`: the relaxation loop, which is what this assembler is about.
   Checked; every safety invariant proved.
2. `OutputBatch`, the abstract `AtomicPublication` and the refinement between them:
   checked and proved.
3. `AssemblerRun`, the driver over `OutputBatch`: checked; every safety invariant proved,
   and that it too implements `AtomicPublication`.
4. `RamAllocation`, sort and first fit, against the permutation that the object format
   defines recursively: checked; every safety property proved.
5. `ValueGraph` over `ValueOperations`, against the direct meaning of an expression in
   `ValueGraphReference`: checked; every safety invariant proved, the comparison included.
6. `Dependencies`: checked; both invariants proved.
7. `ObjectLink` and `LinkerRun`, which composes it with `OutputBatch`, against
   `LinkerRunReference`: checked; `InputsSurvive`, `StatusTellsDisk` and
   `OutputsHoldTheirPieces` proved.
8. `MacroExpansion` against `MacroExpansionReference`: checked.

RECURSIVE operators are in `LinkerRunReference` and `MacroExpansionReference` only, about
which nothing is proved; what they refer to is free of them.  `RamAllocation` states the
specified permutation, and `ValueGraphReference` the meaning of an expression, with
recursive functions instead, which can be reasoned about.

## 3. Modules

**LayoutRelaxation** models `ir_layout_run`.  `prog` is the list of fragments (a
`MARK` is a `gap` of size 0 and a constant pad one of its size, raw runs are `fixed`, script
copies are `copy`), `narrowed` the set of instructions whose opcode has become the
zero-page one (`f->opcode = f->narrow`), `placed` the anchor addresses in the value
graph, `run` the length recorded by the last walk (`f->run`), `checkpoint` the
address and offset kept per affine run, `offset` and `operand` what `validate` leaves
in the fragment.  `phase` says which loop of the C code runs; `walk`, the RAM scan and
`validate` take one step per fragment.  Expressions are linear in at most two
anchors, which is enough for labels, differences and branches; a count follows the
instruction widths of a span, as `lower_span` arranges it.  Link-mode RAM placement
is any choice of addresses (`RamAddresses`), a failed one is `RamUnplaceable`.

**RamAllocation** models `allocate_ram` and `ram_sort`.  `order` is the array `l->ram`
as object numbers, `stack` the C frames of `ram_sort` with the ranges they still have
to sort, `split` and `scan` its `i` and `j`; `blocks`, `object` and `block` are `l->blocks` and
the two loop variables of the placement, `address` the anchors.  The 32-bit key is
compared field by field, which is the same since the fields do not overlap.
Boundaries, the zero page and the address space have their real values.  What it
hands out is what `LayoutRelaxation` takes as any choice of `RamAddresses`:
`PlacedAsDeclared` and `TypeOK` show that these are addresses below 64K.

**OutputBatch** models `output_file.c`.  A destination, its temporary and its rollback
link are three functions on `Outputs`; `writer` is the state of an `output_writer`,
`stages` the list, `at` the loop variable of `output_batch_finish`, `kept` and `published`
the two fields of a stage.  Each loop iteration is a step that may fail.  The driver
opens the binary's temporary by itself (`open_binary_temporary`), so `Open(Binary)` does
not look at the destination.  `returned` is a history of what the caller was told.

**AtomicPublication** is what `output_file.h` promises: a batch replaces its
destinations all at once or not at all, or reports what it damaged.
**OutputBatchRefinement** maps `OutputBatch` to it: while a commit runs its
destinations count as what they were.

**AssemblerRun** extends `OutputBatch` with `main` of `xasm.c` from the planned
destinations on.  `job` is the product `main` is at, in the order of the code: binary,
listing, analysis files, audit, comparison, manifest, source model, publication.
Every file goes through the actions of `OutputBatch`, so a product can fail at opening,
writing, closing or staging.  `errors`, `exit`, `generated` and `failed` are
`total_errors() != 0`, `exit_code`, `output_generated` and `dependencies_failed()`; `Status`
is the value returned.

**ValueGraph** models `ir/value.c`.  `graph` is `u->nodes`, `parents`, `references` and `users`
are the reverse edges, `memos` has one record per node and mode, `versions` the three
counters, `stack` the evaluator's frames.  Between two queries anything may be bound,
placed, given a prefix, appended or lowered; a query runs one stack frame per step.
Appending a node is one of the things that may happen.  Reverse edges are sets: the code
keeps them as linked lists whose order is never looked at.  **ValueOperations** has the operations on
integers that wrap (`expr_int.h`), on extents that are checked, and on strings.
**ValueGraphReference** evaluates the same graph by recursion, without memo, epoch or stack:
what a node means on the way from a root, a node of the way itself being the end of a
cycle.  Whether a new concatenation fits depends on what is alive, so the strings are part
of what a meaning is taken from (`Snapshot`).  The unresolved leaves of a deferred expression
are read off the least set of nodes that holds it and is closed downwards.

**ObjectLink** models `ir/link.c`: the depth-first translation of an object's expressions
with a proxy for every back edge, the cutting of its fragments at anchors, the binding
of imports, the resolution of banks along aliases.  **LinkerRun** adds the two passes of
`xlnk.c` over a script, the protection of inputs, the lengths of pads and banks, staging
and publication; every file goes through the actions of `OutputBatch`.  `Binary`, the output
that the assembler's driver opens by itself, does not exist here and stands for the
script's own file.  Which pieces a script means every output to hold is stated there
(`OutputsHoldTheirPieces`); **LinkerRunReference** says which place, constant or bank every
operand stands for.

**Dependencies** models `dependencies.c` with the calls that `xasm.c` makes.  The file system
is three functions, from paths to names (symbolic links), from names to files (hard
links) and from files to contents; `Others` changes each of them between any two
steps.  Each of the loops over `same_file` (`capture`, `aliases_input`, `dependencies_output`,
`dependencies_validate`, `dependencies_write`) takes one step per pair: `path` is what is being
compared, `left` what it is still to be compared with, and a call or check is begun, goes through
its pairs (`ComparePair`) and returns.  `inputs` is the list of snapshots, `consumed` what readers
were given, `since` the contents a path has had since the document was complete, `together` the
pairs that have led to one place in every state since they began to be compared.  `AssemblerRun` takes the
verdict of this module as an outcome that may go either way.

**MacroExpansion** models the first pass of `astproc.c` over statements.  `lists` is what is left
of the lists being walked, `scopes` the stack `branch_scope_stack`, `code` what has been
left in the tree.  A parameter is not replaced in a copy of the body: a node carries
its bindings, and `Bindings` computes them the way the substitutions, one after
the other in the same copy, come out.  A name is the tuple of the parts that the code
joins with `#`.  **MacroExpansionReference** gives the meaning by recursion over the
program's structure: an environment instead of substitution, the innermost scope instead
of a stack, the closest declaration instead of a name.

The theorems are in **LayoutRelaxationProofs**, **RamAllocationProofs**,
**OutputBatchProofs**, **AssemblerRunProofs** and **LinkerRunProofs** (which extend it),
**DependenciesProofs**, **ValueGraphProofs** and **ValueMeaningProofs**, which goes on from its
invariant to the reference; **MC...** modules and `.cfg` files are the instances.  An operator
whose comment begins with "Mutant" is a wrong version of the definition after it;
`PROJECT.json` names the property that rejects it.

## 4. Runs

| run | instance | what it shows |
|---|---|---|
| `layout_relaxation` | every layout of three statements from five alphabets (plain code, two banks with pads and origins, linker RAM, the 64K limit, binary mode with a RAM cursor), 157 690 states | the loop ends within its budget, "did not stabilize" has one cause only, and the three derivations of addresses agree with the emitted operands |
| `output_batch` | three outputs, any initial kind of destination, every call may fail, 71 008 states | atomic to an observer between commits; old content survives every intermediate state; nothing torn or left over; the commit returns |
| `assembler_run` | five requests (listing, two analysis files with different exit codes, audit, comparison, manifest, model, diagnostic model), three sets of destinations | what is on disk at the end agrees with the exit status; listing, comparison, manifest and models never speak of a binary that is not there |
| `ram_allocation` | every table of up to four objects of seven kinds over five block lists, unresolved or oversized extents, and for the sort all tables of four to six objects of three kinds, of eight objects of two, and the table the format pins, 372 745 states | no byte is shared or lost, objects lie as declared, first fit holds although the list is cut while it is walked, a link fails only when no block has a place, zero-page objects are never crowded out; the order is the recursive definition's, ties included, with at most 1 + log2 N calls active |
| `value_graph` | four graphs (spans lowered to extents, a cycle through a definition, shared concatenations, a repetition whose count may come from a prefix), any order of bindings, placements, changes and queries, 146 519 states | an answer is what the expression means at the time of the query, with the place a cycle is seen from, the room a concatenation has and exactly what is missing; memos never outlive their operands; strings are made once; queries end |
| `linker_run` | 22 orders of two or three of five objects that import, alias, duplicate and close cycles, and 17 scripts with pads, banks, copies and misused files, on three disks, 8 102 states | operands, banks and outputs are those of the script whatever the order; the status agrees with the disk; inputs survive; the link ends.  Two of these contradict the manual, see below |
| `dependencies` | two files opened or announced among four paths in three file systems with hard and symbolic links, for every set of documents, two changes by others to one input and one output at any moment, also between two comparisons, 5 438 890 states | a staged document lists exactly what readers got, and a state that each file was in; outputs and the manifest have been apart from inputs and each other, in whatever order they are announced |
| `macro_expansion` | 9 125 programs: every macro body of up to three statements out of twelve, called twice, and every program of up to three statements around six macros, 210 499 states | expansion, early exits, loops and label scopes give what the structure of the program means, and a fault is reported for exactly the programs that have one |
| `zero_page_objects` | as `ram_allocation` | violated: xorcyst.texinfo:1384 promises that a `.zeropage` variable is mapped to the zero page; only its first byte is |
| `manifest_is_last` | as `assembler_run` | violated: README:123 says that the manifest is published last; the certified source model follows it |
| `bank_fill` | as `linker_run` | violated: xorcyst.texinfo:1506 says that the output of a bank that is not full is padded; the padding goes to whichever output is open when the bank ends |
| `macro_arguments` | one macro of two parameters | violated: xorcyst.texinfo:966 says that arguments are substituted for the respective parameters; an argument with the name of a later parameter is replaced in turn |

The linker and its manual.  Two properties of `linker_run` hold where the documents say
something else; `PROJECT.json` lists both under `findings`.  `StatusTellsDisk`: README:199 says that
a script "publishes each completed file when it switches outputs; a later failure does not roll
back earlier files", and xorcyst.texinfo:1537 that "Files published by earlier output commands
remain in place".  The code writes and closes every output before it publishes the first
(`xlnk.c:433-447`, as its comment and `tests/test_linker_outputs.py:83` have it), so a failure
to read, to lay out or to write in a later output leaves the earlier ones as they were, and
earlier files remain only if publishing itself fails.  `InputsSurvive`: README:201 and
xorcyst.texinfo:1535 speak of files used by `copy` that are "replaced by earlier output commands".
The code refuses every script that names one file for both (`xlnk.c:209-217`,
`test_copy_cannot_alias_an_output`).  The properties state what the code does.

What `OutputsApart` says.  A loop over pairs cannot find a file system at rest: after two names have
been compared, others may make them one while the next pair is looked at, and the check still
passes.  So the property does not claim that outputs are apart at the moment a document is staged.
It claims that no pair has been together all the while: each has been apart at some
moment since the call, the check or the writing that compares it last began.  Where no
name changes meanwhile, that is to be apart.

Bounds.  Three varying statements between a fixed origin and a closing label are
enough for every pattern the loop knows: backward and forward references, a
shortening that makes another possible, one that depends on a span shrinking or
growing, a pad or origin that cuts an affine run.  The origins (242 to 252) put the
labels on either side of 255 after zero, one or two shortenings.  `CursorMax` stands
for `UINT32_MAX` and is reached by a few large raw runs; `MaxCount` and `AddressSpace`
have their real values.  Three outputs give a batch a first, a middle and a last
stage, one more than any pairwise interaction of the two loops needs.  Seven
outputs are all the kinds the driver distinguishes.  Four RAM objects suffice for an
object to meet the pieces left by a split, an exhausted block and a shrunken one in
one link; the block lists straddle address 256, start off a boundary, are out of
address order, overlap, and end at the top of memory.  Eight equal or two-valued
keys give three nested calls of the sort.  Integers of four bits, extents up to 3 and
strings of four bytes reach every wrap, overflow and limit of the operations, and two
concatenations have room for one (`LiveMax`); version
counters of three values wrap within a run.  Each graph has the nodes of one mechanism
and at most two definitions or anchors, since memos depend on their operands
pairwise.  A link of three objects has a first, a middle and a last, an alias across two
units, and a cycle entered from two sides.  Two opened files and two changes let a file
change between being opened twice, before and after each check, and there and back again.
Macro nesting of 6, loops of 2 turns and 2 waiting references stand for 500, 5001
and `FORWARD_BRANCH_REF_MAX` (128); all three limits are reached, and one label level stands
for eight, which do not interact.

Fairness.  The programs are single-threaded and nothing waits: while a step is
possible the program takes it.  `FairSpec` and `RunSpec` have weak fairness of the
whole next-state relation; `OutputBatch`, whose caller may stop using it, has weak
fairness of the steps inside `output_batch_finish` only.  `ValueGraph` has weak fairness of
the evaluator's step only: `evaluate` is one loop, whoever calls it may never do so.
`LinkerSpec` and the specification of `MacroExpansion` are one thread each and fair as a whole.  `Dependencies`
states no liveness: others may change a file whenever the program looks.  Deadlock is not checked
where the program ends (the layout, the allocator, both drivers, dependencies, macros, and a value graph that has failed); it is checked for
`output_batch`.

## 5. Proofs

All theorems hold for every value of the constants under named assumptions, which the
runs evaluate.  Most say that constants are of their kind.  Those that say something of
the code: `ProgramsAssumption` has what building a layout refuses or never produces
(`Buildable`: a bank has room, a branch is an instruction, only literals are early);
`ProductsAssumption` that the products of the assembler are distinct and an analysis
file's exit code is 3 or 6 to 9; `FilesAssumption` that every file of a script is known and
that the script's own file stands in the place of the assembler's binary;
`WorldAssumption` that every path leads to a name, and every name to a file or to none;
`BuilderAssumption` that builders only accept operands, definitions and anchors that
there are, give every string literal its buffer and stay within the budget of live
strings.  `WidthAssumption` also says that the powers of 2 and 10 up to the width are
positive numbers, a fact of arithmetic for which the provers have no definition.

**The layout.**  `LayoutRelaxationProofs!TypeCorrect` is `TypeOK` with a strengthening that
says which cursor is where in each phase.  `WalkBudget` (`WalksBounded`) counts: after the first walk
every walk but the last has added an element of `candidates` to `narrowed`, which never
shrinks, so `walks` is at most the number of narrowed candidates plus one (plus one more
while the current walk has shortened nothing).

Its second half is about what a finished layout is: `LabelsAreTrue`
(`PlacementAgrees`), `EmittedOperandsAreTrue` (`OperandsTrue`), `EveryNarrowingFound`
(`NoMissedNarrowing`), `UnstableIsRam` (`UnstableOnlyFromRam`).  None of them is inductive: the
walk keeps its cursors in locals that are gone when the properties speak.  The
invariant `PlacementInv` says that there is a trace of positions, one per fragment, which
the last walk followed: recorded lengths and placed anchors are those of the trace,
addresses and offsets move together between checkpoints (`Affine`), the bank cursors are
those of the last bank (`Banks`).  A walk that has shortened nothing so far repeats the
trace of the walk before (`Repeats`), so the walk that ends the loop has confirmed every
length, and what `validate` recomputes from checkpoints is what the trace has.  That
"did not stabilize" can only come from linker RAM follows since every other length was
compared in that last walk.

**RAM.**  `RamAllocationProofs!TypeCorrect` is `TypeOK` with `SortInv` (ranges are well
formed, the partition's cursors stay inside the innermost one, sizes are numbers once the
sort has begun).  The community modules' `InsertAt` and `RemoveAt` are first described
element by element (`InsertedElement`, `Removed`), then `SplitAt` and `Taken`.
`RamIsDisjoint` (`NothingSharesBytes`) and `DeclarationsAreKept` (`PlacedAsDeclared`) add that
every free block is a part of a block of the script.  Every block after a split or a
placement is a part of one before it, and no two are overlapping parts of the same
one (`SplitKeepsApart`, `TakenKeepsApart`); parts of disjoint blocks are disjoint.
Disjointness of the script's own blocks is a hypothesis: the linker does not check it.

Its second half has the order and completeness of placement.  `PlacedByKey`: two positions
of the array that no range on the stack holds together are in order (`OrderInv`), and the
partition keeps its halves on either side of the pivot, whatever ties do.  `RamIsConserved`
(`NoByteIsLost`), `FailureMeansFull` (`GivesUpOnlyWhenFull`) and the action property
`PlacementIsFirstFit` (`FirstFit`) share `PlaceInv`: blocks that the inner loop has passed have no
place for the object, a block whose start was split off has none in the piece before, and
free blocks together with objects hold the script's bytes.

Its last part is `OrderIsSpecified` (`OrderAsSpecified`): the loop over an explicit smaller-side-first
choice ends with the very permutation `sort(A, p, r)` that `doc/object-format.md` defines, ties
included, on at most 1 + log2 N frames.  The specified sort is a recursive function on
calls (array, p, r), and nothing is known of a recursive definition until a function that
satisfies its equation is shown to exist.  For every number there is one that satisfies it on the
calls whose range is shorter than that; `Climbing` is the induction, over a set of numbers and
not over a predicate, and comes from the library's well-founded order (`LeastNatural`).
`PartitionIs` and `SortIs` are the equations that follow.  `PartitionLocal` and `SortLocal` say
that a call looks at and changes only its own range, so the calls on the two sides of a pivot
commute.  `SortedInv` is then inductive: whatever lies in no range on the stack is what
the specified sort of the whole table has there, and finishing any range on the stack as
specified puts there what the whole table is to have, whichever side was taken first.
`DepthInv`: k frames down the stack, a range whose length has at most log2 N - k for its
logarithm, as each is at most half of the one below.

**Files.**  `OutputBatchProofs`: `TypeCorrect`, `OldContentIsKept`, `DestinationsAreNeverTorn`,
`BatchIsAllOrNothing`, `LinksComeFirst`, `NothingIsLeftBehind` and the refinement `BatchIsAtomic`,
from one inductive invariant: outputs outside the batch are settled, and each stage's
destination, temporary and backup are determined by the loop and by whether the
loop variable has passed it (`StageInv`).  None of the properties is inductive by
itself: that a rollback restores `before` needs to know that the backup was made from it.

`AssemblerRunProofs`: every step of `main` is a step of the batch or leaves it alone
(`BatchStepOfMain`), so an invocation inherits the guarantees (`InvocationKeepsTheGuarantees`) and
implements `AtomicPublication` (`InvocationIsAtomic`).  On top, `DriverInv` relates the exit
code to the batch: while main may still succeed (`Good`), every requested product that
lies behind `job` is staged, and at the end published.  It gives `SuccessMeansComplete`,
`FailureMeansPreserved`, `DocumentsAreTrue` and `ComparisonReadsThisBinary`.

`LinkerRunProofs`: the linker opens no batch (`NoBatch`) and each loop at the end of its main has each
output at a stage that follows from its place in the script (`Turns`).  `StatusIsTrue`
(`StatusTellsDisk`), `InputsAreSafe` (`InputsSurvive`) and `LinkerKeepsTheGuarantees` follow; how
objects are translated does not matter for them.

It does for the last theorem, `OutputsAreComplete` (`OutputsHoldTheirPieces`): when the outputs
are written, each holds the items of the commands between it and the next, every byte,
element and instruction once and in the order of the script.  The property compares two states of
affairs at the end; the invariant (`PiecesInv`) has them in step all along.  The layout
holds what the commands so far mean it to hold (`Filled`), where an object counts once its
fragments are laid and not when it has been read (`Carried`); outputs and objects are
numbered by the commands that name them (`Numbered`); no output begins beyond the layout, so
what is added at the end goes to the last one and moves no earlier fragment (`Added`,
`FilledNext`).  While an object is being built, its marks lie inside their raw runs and in the
order of their places (`MarksGood`); that is what checking the object (`Valid`) and the sort of
`compare_marks` give (`MarksMade`, from `RankIs`: ranks of a strict order are a permutation).
A run that is cut at such marks is still the run (`RawHolds`).  The concatenation of many
sequences is a recursive function of the library: `FlattenConcat` and its companions say what
is needed of it, from the least index at which a solution of its equation could differ.  What is assumed
of objects is the width of their records (`ObjectAssumption`: sizes, offsets and
indices are naturals) and of scripts that the size of a copied file is one.

`DependenciesProofs`: `ListedAsRead` (`DocumentVouchesForInputs`) from `Snapshots`: the table is
what readers were given, and the check after a document has found every input it has
come to in the state that the document lists, since the document was complete.  `NothingReadIsOverwritten`
(`OutputsApart`) from `Separation`, which is about the history `together` and has a part for each
place where pairs are compared.  `Truthful`: the pairs of the history lead to one place, so one that
`same_file` finds distinct is not among them (`FoundDistant`).  `Passed`: the path of a call is distant
from everything it is against, but for what is left.  `Checkpoint`: so are the outputs that a check has
come to, from what is read and from the outputs behind them.  `Settled`: between calls and when a
document is staged, all outputs are; a call that begins forgets the history of its own path
only (`BegunAnew`), and takes nothing back until it returns.  `ManifestApart` carries what was found of
the manifest over the check that follows its writing.  Others only ever part pairs
(`PairsPart`).

**The value graph.**  The first half of `ValueGraphProofs` says what a node makes of its operands (`Made`), that
this is a value with every flag of what was looked at, and which operands were looked at
(`Used`).  The second proves `TypeCorrect` (`TypeOK`), `BuffersAreMadeOnce`
(`StringsAreMadeOnce`) and `MemosAreJustified` (`MemosFollowOperands`) from one inductive
invariant, `ValueInv`, which the run's graphs satisfy in every state too.  It has seven parts.
`GraphInv`: operands are nodes and every use has its reverse edge.  `SpanInv`: a lowered span
was a difference of addresses, so its results depend on placement and lowering has
dropped them.  `StringInv`: owners of buffers and buffers correspond.  `MemoInv`: no stamp is
ahead of its counter, so an advance outdates what it should, and a wrap clears the rest.
`FrameInv`: each frame waits for what the frame above evaluates, so an operand that a frame
has passed is still current when it is used.  `TwinInv`: where both modes have a result
without flags it is the same one, which is why `finish` may write it to both.
`FollowInv` is the property itself.  The argument is that a result's flags include
those of whatever it was made from (`Rests`): an invalidation that spares the result has
spared its operands, as `invalidate` goes up complete edges and stops only at nodes that
have nothing to clear (`InvalidatedKeeps`); a binding epoch or a wrap likewise (`Advancing`).
A constant made in one mode may rest on operands of that mode alone; were the node
finished in the other mode it would come out the same (`SameAnswer`).  A unit
with an error keeps only the parts that speak of no frames.

`ValueMeaningProofs` compares with the reference: `AnswersAreTrue` (`AnswerIsTrue`).  `MeaningsAre` is the
equation that defines a meaning; as for the sort, the function is shown to exist by going up
in the number of nodes that are not yet on the way.  Three invariants join those above.
`GroundInv`: what a result stands on ends somewhere, stated as an induction over all sets;
it holds since every step makes at most one result, on results that are there (`Grows`),
and leaves those it does not drop standing on what they stood on (`Steady`).  `JoinInv`: a
buffer holds the bytes of its two operands, and these are constants, so it may be
handed out again in either mode.  From the two follows `MeaningInv` (`ResultsMean`): every
result that would be used and is no cycle agrees with the meaning of its node, with its
dependence on placement.  Such a meaning does not depend on the way to the node: a shorter way makes no
difference (`ShorterWay`), a longer one only if what it adds can be reached from
the node without meeting a cycle (`LongerWay`).  Cycles are different: where one is diagnosed depends on
the way, and such a result is good for one query only.  `WalkInv` says that a cycle is
around only where the frame on top waits for it, and that it agrees with the meaning on the
way which is the stack at that moment; each frame it passes through, from the one where it was
found up to the root, keeps that.  At the end the way is empty and the result is
the answer.  `CollectsUnresolved` shows that the worklist of
`collect_dependencies` comes to rest (`Collecting`, by counting) at the least closed set.

Only model-checked: all liveness, and the properties that compare with RECURSIVE
operators (`ValuesMeanTheirNames`, `ExpandedAsWritten`).  Out of the prover's reach:
liveness under fairness, ENABLED, and what a RECURSIVE operator computes.

## 6. Not modelled

* Output to stdout, which cannot be staged or rolled back.
* Memory exhaustion inside the layout walks (a sticky error); the RAM allocator has it as
  `OutOfMemory`, the value graph as `RunsOut`.
* In `LayoutRelaxation` an anchor is placed at the cursor itself, where the code converts it to a
  signed word (`expr_i32`, `layout.c:876`): they differ for cursors of 2^31 and above.
* RAM in binary mode is a cursor in source order and part of `LayoutRelaxation`.
* `AssemblerRun` starts once destinations are planned; usage errors and a source with
  no statements, which ends with status 0 and no output, are earlier.
* The removal of the program's own temporary and backup files is assumed to work: the
  code ignores its result.
* Files changed by other programs while a commit runs.  `Dependencies` has them change
  until a document is staged; between the last check and the commit nothing in the code
  looks again, so nothing is promised.
* In `Dependencies`: names that differ only in case, missing parent directories, and calls
  after the recorder has failed.  Reading one file (`read_contents`) and comparing one pair of
  names (`same_file`, two calls of `stat`) are atomic.
* `NoMissedNarrowing` is stated for programs whose counts do not follow code widths: with
  such a count the code promises stability, not minimality.
* In `ValueGraph`: the tables of source locations and file names (a location is the node it
  belongs to), the variant of span lowering that is limited to given roots, and arguments
  that builders reject.
* In the linker: the length of a fragment is the number of its items (how widths settle is
  `LayoutRelaxation`), an operation is a symbol over its operands (what it computes is
  `ValueOperations`), RAM objects have places of their own (`RamAllocation`), and the
  lexical form of scripts and object files is left out.
* In `MacroExpansion`: data statements, structures, enumerations, `IFDEF`, `.equ` and the data
  segment; an argument that is a reference to an anonymous label; an EXITM inside a
  procedure inside a macro is an error in the code and in the model.  An argument
  that is an identifier like one of the parameters is in the violation run only, and a
  local label inside a larger argument in none: the code gives it the scope of the
  macro (`astproc.c:516`, a comment there asks for the general case).  An argument
  named like its own parameter makes the walk of the code endless (`astproc.c:522`), which
  the model has as a call without a step.
* A listing of a failed binary, which README:260 describes, is staged and then discarded
  with the batch (`xasm.c:1803`, `:1959`) in `AssemblerRun` as in the code; no run states it.
* The frontend is a traversal whose product is the input of `LayoutRelaxation` and
  `ValueGraph`; the heap and the symbol table are sequential containers whose callers'
  states do not depend on them; object programs are byte formats.
* The parser and the scanner are generated, 11 000 of the 47 000 lines; `listing.c`, another
  11 000, is reports over facts that are complete when it starts.  Option parsing, the
  name lists, character maps, hashing and the remaining statement kinds of
  `astproc.c` have no order of events to get wrong.  The map covers what has state: a small
  share of the lines.
