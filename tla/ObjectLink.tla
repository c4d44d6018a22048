------------------------------ MODULE ObjectLink ------------------------------
(***************************************************************************)
(* Translation of object files into one graph of values and one list of    *)
(* layout fragments (ir/link.c).  Each object is appended as its link       *)
(* command is read: numbers of the object become numbers of the link, its  *)
(* expressions are built by a depth-first walk in which a back edge gets a *)
(* definition as proxy, its fragments are cut where anchors lie.  When all *)
(* objects are there imports are bound to exports and each bank expression *)
(* to the unit at the end of its chain of aliases.                         *)
(*                                                                         *)
(* Numbers start at 1 and 0 is IR_NONE.  Expressions and extents of an     *)
(* object are one table, as they are for prepare_nodes, and an operation   *)
(* is a symbol over its operands: what it computes is ValueOperations.     *)
(***************************************************************************)
EXTENDS Naturals, Sequences, SequencesExt

CONSTANTS
    Objects,        \* object file -> the records it holds
    InputLimit      \* bound: objects of a link

ObjectTables == {"definitions", "nodes", "ram", "anchors", "fixups", "fragments"}
ASSUME ObjectAssumption ==
    /\ \A o \in DOMAIN Objects : ObjectTables \subseteq DOMAIN Objects[o]
    /\ \A file \in DOMAIN Objects : LET o == Objects[file] IN
          /\ o.ram \in Nat /\ o.anchors \in Seq(Range(o.anchors)) /\ o.fragments \in Seq(Range(o.fragments))
          /\ \A a \in Range(o.anchors) : a.kind = "RAW" => a.offset \in Nat
          /\ \A f \in Range(o.fragments) :
                /\ f.fixups \in Seq(Nat)
                /\ f.kind = "RAW" => f.size \in Nat
    /\ InputLimit \in Nat \ {0}

VARIABLES
    inputs,         \* l->inputs: the object file of each
    graph,          \* the nodes of l->values
    bound,          \* its definitions: the node of each, or 0
    anchorCount,    \* its anchors
    fragments,      \* l->layout: [kind, anchor, items, value]
    bindings,       \* l->bindings: definition -> [owner, alias, import]
    exports,        \* l->exports: [name, definition]
    banks,          \* l->banks: [source, result]
    work,           \* the workspace of the object that is being appended
    job,            \* what the linker is doing
    linkError       \* l->error

linked   == <<inputs, graph, bound, anchorCount, fragments, bindings, exports, banks>>
linkVars == <<linked, work, job, linkError>>

NoWork == [stack |-> <<>>]

LinkInit ==
    /\ inputs = <<>> /\ graph = <<>> /\ bound = <<>> /\ anchorCount = 0
    /\ fragments = <<>> /\ bindings = <<>> /\ exports = <<>> /\ banks = <<>>
    /\ work = NoWork /\ linkError = "NONE"

Fail(why) == linkError' = why /\ job' = "failed"

-----------------------------------------------------------------------------
(* The records of an object (ir_object_validate) *)

In1(i, s) == i \in 1..Len(s)

ValidDefinition(o, d) ==
    CASE d.kind = "EXPRESSION" -> In1(d.to, o.nodes)
      [] d.kind = "ANCHOR"     -> In1(d.to, o.anchors)
      [] OTHER                 -> d.kind = "IMPORT" /\ ~d.exported

ValidNode(o, n) ==
    CASE n.kind \in {"REFERENCE", "BANK"} -> In1(n.to, o.definitions)
      [] n.kind = "ADDRESS"               -> In1(n.to, o.anchors)
      [] n.kind = "LITERAL"               -> TRUE
      [] OTHER                            -> \A k \in Range(n.operands) : In1(k, o.nodes)

ValidAnchor(o, a) ==
    CASE a.kind = "FRAGMENT" -> In1(a.to, o.fragments)
      [] a.kind = "RAM"      -> a.to \in 1..o.ram
      [] a.kind = "FIXUP"    -> \E f \in Range(o.fragments) : f.kind = "DATA" /\ a.to \in Range(f.fixups)
      [] a.kind = "RAW"      -> /\ In1(a.to, o.fragments) /\ o.fragments[a.to].kind = "RAW"
                                /\ a.offset <= o.fragments[a.to].size
      [] OTHER               -> a.kind = "END"

\* Every fixup belongs to one fragment, and an instruction has at most one.
ValidFixups(o) ==
    /\ \A k \in Range(o.fixups) : In1(k, o.nodes)
    /\ UNION {Range(f.fixups) : f \in Range(o.fragments)} = 1..Len(o.fixups)
    /\ \A f \in Range(o.fragments) :
          /\ f.kind = "INSTRUCTION" => Len(f.fixups) <= 1
          /\ f.kind = "STORAGE" => In1(f.extent, o.nodes)
    /\ \A i, j \in 1..Len(o.fragments) :
          i # j => Range(o.fragments[i].fixups) \cap Range(o.fragments[j].fixups) = {}

Valid(o) ==
    /\ \A d \in Range(o.definitions) : ValidDefinition(o, d)
    /\ \A n \in Range(o.nodes) : ValidNode(o, n)
    /\ \A a \in Range(o.anchors) : ValidAnchor(o, a)
    /\ ValidFixups(o)

-----------------------------------------------------------------------------
(* ir_link_add, and the numbers of an object (prepare_ids) *)

Unit == Objects[inputs[Len(inputs)]]

\* Anchors of one fixup are one anchor.
Twin(o, i) == CHOOSE j \in 1..i : /\ o.anchors[j].kind = o.anchors[i].kind
                                  /\ o.anchors[j].to = o.anchors[i].to
                                  /\ \A k \in 1..(j - 1) : \/ o.anchors[k].kind # o.anchors[i].kind
                                                           \/ o.anchors[k].to # o.anchors[i].to

\* The number of every anchor: the owner is the first, then RAM, then the rest.
AnchorIds(o) ==
    [i \in 1..Len(o.anchors) |->
        LET a == o.anchors[i]
        IN  anchorCount + 1 + CASE a.kind = "RAM"   -> a.to
                                [] a.kind = "FIXUP" -> o.ram + Twin(o, i)
                                [] OTHER            -> o.ram + i]

\* The anchor records that lie before or inside a fragment; END lies after the last.
MarkedIn(o, f) ==
    {i \in 1..Len(o.anchors) : \/ o.anchors[i].kind \in {"FRAGMENT", "RAW"} /\ o.anchors[i].to = f
                               \/ o.anchors[i].kind = "END" /\ f = Len(o.fragments) + 1}

OffsetOf(a) == IF a.kind = "RAW" THEN a.offset ELSE 0

\* The marks of a fragment, each at the place that its rank gives it.
Ranked(o, ids, here, rank) ==
    [k \in 1..Cardinality(here) |->
        LET i == CHOOSE x \in here : rank[x] = k - 1
        IN  [anchor |-> ids[i], offset |-> OffsetOf(o.anchors[i])]]

\* Mutant: marks stay in the order of the anchor records.
MarksAsRecorded(o, ids, f) ==
    LET here == MarkedIn(o, f)
    IN  Ranked(o, ids, here, [i \in here |-> Cardinality({j \in here : ids[j] < ids[i]})])

\* Sorted by offset, then by anchor (compare_marks); the rank of a mark is how many
\* come before it.
MarksOf(o, ids, f) ==
    LET here == MarkedIn(o, f)
        Before(j, i) == \/ OffsetOf(o.anchors[j]) < OffsetOf(o.anchors[i])
                        \/ OffsetOf(o.anchors[j]) = OffsetOf(o.anchors[i]) /\ ids[j] < ids[i]
    IN  Ranked(o, ids, here, [i \in here |-> Cardinality({j \in here : Before(j, i)})])

\* The anchor of a fixup of a data fragment, if an anchor names it.
PcOf(o, ids, fix) ==
    LET named == {i \in 1..Len(o.anchors) : o.anchors[i].kind = "FIXUP" /\ o.anchors[i].to = fix}
    IN  IF named = {} THEN 0 ELSE ids[CHOOSE i \in named : TRUE]

Blank(o) == [i \in 1..Len(o.nodes) |-> 0]

Workspace(o) ==
    LET ids == AnchorIds(o)
    IN  [owner |-> anchorCount + 1, anchors |-> ids,
         marks |-> [f \in 1..(Len(o.fragments) + 1) |-> MarksOf(o, ids, f)],
         definitions |-> [i \in 1..Len(o.definitions) |-> Len(bound) + i],
         nodes |-> Blank(o), proxies |-> Blank(o), state |-> [i \in 1..Len(o.nodes) |-> "NEW"],
         addresses |-> [i \in 1..Len(o.anchors) |-> 0],
         values |-> [i \in 1..Len(o.definitions) |-> 0],
         stack |-> <<>>, defined |-> 0]

\* An expression that is nothing but a reference makes its definition an alias.
AliasIn(o, d, ids) ==
    IF d.kind = "EXPRESSION" /\ o.nodes[d.to].kind = "REFERENCE"
    THEN ids[o.nodes[d.to].to] ELSE 0

\* remember_definitions
Remembered(o, w) ==
    [d \in Range(w.definitions) |->
        LET r == o.definitions[d - Len(bound)]
        IN  [owner |-> w.owner, alias |-> AliasIn(o, r, w.definitions),
             import |-> IF r.kind = "IMPORT" THEN r.name ELSE "NONE"]]

Exported(o, w) ==
    LET out == SelectSeq([i \in 1..Len(o.definitions) |->
                             [name |-> o.definitions[i].name, definition |-> w.definitions[i],
                              exported |-> o.definitions[i].exported]],
                         LAMBDA e : e.exported)
    IN  [i \in 1..Len(out) |-> [name |-> out[i].name, definition |-> out[i].definition]]

\* ir_link_add and the first half of ir_link_append.
AddObject(file) ==
    /\ Len(inputs) < InputLimit
    /\ LET o == Objects[file]
       IN  \E w \in {Workspace(o)} :
              /\ inputs' = Append(inputs, file)
              /\ anchorCount' = anchorCount + 1 + o.ram + Len(o.anchors)
              /\ bound' = bound \o [i \in 1..Len(o.definitions) |-> 0]
              /\ bindings' = [d \in DOMAIN bindings \cup Range(w.definitions) |->
                                 IF d \in DOMAIN bindings THEN bindings[d] ELSE Remembered(o, w)[d]]
              /\ exports' = exports \o Exported(o, w)
              /\ work' = w
    /\ job' = "nodes"
    /\ UNCHANGED <<graph, fragments, banks, linkError>>

-----------------------------------------------------------------------------
(* prepare_nodes *)

Building == job = "nodes" /\ UNCHANGED <<inputs, anchorCount, fragments, bindings, exports, linkError>>
Walking  == Building /\ work.stack # <<>>
Frame    == Last(work.stack)
Wire     == Unit.nodes[Frame.id]

\* What must be built before a node: a reference needs the expression of its
\* definition, a bank expression or an import nothing.
Needs(n) ==
    IF n.kind = "OPERATION" THEN n.operands
    ELSE IF n.kind = "REFERENCE" /\ Unit.definitions[n.to].kind = "EXPRESSION"
    THEN <<Unit.definitions[n.to].to>> ELSE <<>>

Unbuilt == {i \in 1..Len(Unit.nodes) : work.state[i] # "DONE"}

NextRoot ==
    /\ Building /\ work.stack = <<>> /\ Unbuilt # {}
    /\ LET root == CHOOSE i \in Unbuilt : \A j \in Unbuilt : i <= j
       IN  work' = [work EXCEPT !.stack = <<[id |-> root, child |-> 0]>>, !.state[root] = "OPEN"]
    /\ UNCHANGED <<graph, bound, banks, job>>

\* Mutant: an operand that is still open is waited for.
AwaitOpen ==
    /\ Walking /\ Frame.child < Len(Needs(Wire))
    /\ LET k == Needs(Wire)[Frame.child + 1]
           seen == [work EXCEPT !.stack[Len(work.stack)].child = @ + 1]
       IN  /\ work.state[k] # "OPEN"
           /\ work' = IF work.state[k] = "NEW"
                      THEN [seen EXCEPT !.stack = Append(@, [id |-> k, child |-> 0]), !.state[k] = "OPEN"]
                      ELSE seen
    /\ UNCHANGED <<graph, bound, banks, job>>

\* One operand: a new one is entered, one that is still open gets its proxy.
Descend ==
    /\ Walking /\ Frame.child < Len(Needs(Wire))
    /\ LET k == Needs(Wire)[Frame.child + 1]
           seen == [work EXCEPT !.stack[Len(work.stack)].child = @ + 1]
       IN  IF work.state[k] = "OPEN" /\ work.proxies[k] = 0
           THEN /\ bound' = Append(bound, 0)
                /\ graph' = Append(graph, [kind |-> "REFERENCE", to |-> Len(bound) + 1])
                /\ work' = [seen EXCEPT !.proxies[k] = Len(bound) + 1, !.nodes[k] = Len(graph) + 1]
           ELSE /\ work' = IF work.state[k] = "NEW"
                           THEN [seen EXCEPT !.stack = Append(@, [id |-> k, child |-> 0]),
                                             !.state[k] = "OPEN"]
                           ELSE seen
                /\ UNCHANGED <<graph, bound>>
    /\ UNCHANGED <<banks, job>>

Literal(n) == [kind |-> "LITERAL", extent |-> n.extent, value |-> n.value]

\* A node that is built already is shared: an address and an import through the
\* tables of the object, small literals by all objects, a local definition as
\* the node it stands for.
SharedNode(n) ==
    CASE n.kind = "ADDRESS"   -> work.addresses[n.to]
      [] n.kind = "LITERAL"   -> LET same == {g \in 1..Len(graph) : graph[g] = Literal(n)}
                                 IN  IF n.value < 256 /\ same # {} THEN CHOOSE g \in same : TRUE ELSE 0
      [] n.kind = "REFERENCE" -> LET d == Unit.definitions[n.to]
                                 IN  CASE d.kind = "EXPRESSION" -> work.nodes[d.to]
                                       [] d.kind = "ANCHOR"     -> work.addresses[d.to]
                                       [] OTHER                 -> work.values[n.to]
      [] OTHER                -> 0

\* The anchor an address leaf is made for, if the node is one.
AddressOf(n) ==
    CASE n.kind = "ADDRESS"   -> n.to
      [] n.kind = "REFERENCE" -> IF Unit.definitions[n.to].kind = "ANCHOR" THEN Unit.definitions[n.to].to ELSE 0
      [] OTHER                -> 0

\* The node a record becomes; result is the definition of a bank expression.
NewNode(n, result) ==
    IF AddressOf(n) # 0 THEN [kind |-> "ADDRESS", anchor |-> work.anchors[AddressOf(n)]]
    ELSE CASE n.kind = "LITERAL"   -> Literal(n)
           [] n.kind = "REFERENCE" -> [kind |-> "REFERENCE", to |-> work.definitions[n.to]]
           [] n.kind = "BANK"      -> [kind |-> "REFERENCE", to |-> result]
           [] OTHER -> [kind |-> "OPERATION", op |-> n.op,
                        operands |-> [i \in 1..Len(n.operands) |-> work.nodes[n.operands[i]]]]

\* The tables of the object once a node is made for a record.
Entered(n, node) ==
    IF AddressOf(n) # 0 THEN [work EXCEPT !.addresses[AddressOf(n)] = node]
    ELSE IF n.kind = "REFERENCE" THEN [work EXCEPT !.values[n.to] = node]
    ELSE work

\* Mutant: the proxy of a cycle stays unbound.
Unproxied(id, node, w, definitions) ==
    /\ work' = [w EXCEPT !.stack = Front(@), !.state[id] = "DONE",
                         !.nodes[id] = IF @ = 0 THEN node ELSE @]
    /\ bound' = definitions

\* The node is entered, or its proxy bound to it.
Completed(id, node, w, definitions) ==
    /\ work' = [w EXCEPT !.stack = Front(@), !.state[id] = "DONE",
                         !.nodes[id] = IF work.proxies[id] = 0 THEN node ELSE @]
    /\ bound' = IF work.proxies[id] = 0 THEN definitions
                ELSE [definitions EXCEPT ![work.proxies[id]] = node]

BuildNode ==
    /\ Walking /\ Frame.child = Len(Needs(Wire))
    /\ LET n == Wire
           shared == SharedNode(n)
           result == Len(bound) + 1
           more == IF n.kind = "BANK" THEN Append(bound, 0) ELSE bound
       IN  IF shared # 0
           THEN /\ Completed(Frame.id, shared, work, bound)
                /\ UNCHANGED <<graph, banks>>
           ELSE /\ graph' = Append(graph, NewNode(n, result))
                /\ Completed(Frame.id, Len(graph) + 1, Entered(n, Len(graph) + 1), more)
                /\ banks' = IF n.kind = "BANK"
                            THEN Append(banks, [source |-> work.definitions[n.to], result |-> result])
                            ELSE banks
    /\ UNCHANGED job

\* Then the definitions of the object are bound, one after the other.
Define ==
    /\ Building /\ Unbuilt = {} /\ work.defined < Len(Unit.definitions)
    /\ LET i == work.defined + 1
           d == Unit.definitions[i]
           known == IF d.kind = "EXPRESSION" THEN work.nodes[d.to] ELSE work.addresses[d.to]
           node == IF known # 0 THEN known ELSE Len(graph) + 1
       IN  IF d.kind = "IMPORT"
           THEN /\ work' = [work EXCEPT !.defined = i]
                /\ UNCHANGED <<graph, bound>>
           ELSE /\ bound' = [bound EXCEPT ![work.definitions[i]] = node]
                /\ graph' = IF known # 0 THEN graph
                            ELSE Append(graph, [kind |-> "ADDRESS", anchor |-> work.anchors[d.to]])
                /\ work' = IF known # 0 THEN [work EXCEPT !.defined = i]
                           ELSE [work EXCEPT !.defined = i, !.addresses[d.to] = node]
    /\ UNCHANGED <<banks, job>>

-----------------------------------------------------------------------------
(* The fragments of an object.  Its RAM takes no room in an output: where it *)
(* goes is RamAllocation.                                                   *)

\* What a fragment of the layout holds: bytes of a raw run, an element of data, an
\* instruction, reserved storage, each the item of one record of one input, and
\* the node of its operand or extent.
Entry(kind, anchor, items, value) == [kind |-> kind, anchor |-> anchor, items |-> items, value |-> value]
MarkAt(anchor)                    == Entry("MARK", anchor, <<>>, 0)

Items(i, f, first, last) == [k \in 1..(IF last < first THEN 0 ELSE last - first + 1) |-> <<i, f, first + k - 1>>]

MarksIn(f) == work.marks[f]
Marked(ms) == [i \in 1..Len(ms) |-> MarkAt(ms[i].anchor)]

\* A raw run is cut at its marks; a mark before nothing is a fragment of its own, and
\* nothing before the first mark is no fragment.
RawPieces(i, f, size) ==
    LET cuts == <<[anchor |-> 0, offset |-> 0]>> \o MarksIn(f)
        To(c) == IF c = Len(cuts) THEN size ELSE cuts[c + 1].offset
        piece == [c \in 1..Len(cuts) |->
                     IF To(c) > cuts[c].offset
                     THEN Entry("RAW", cuts[c].anchor, Items(i, f, cuts[c].offset + 1, To(c)), 0)
                     ELSE MarkAt(cuts[c].anchor)]
    IN  IF piece[1].items = <<>> THEN Tail(piece) ELSE piece

Value(fix) == work.nodes[Unit.fixups[fix]]

DataPieces(i, f, fixups) ==
    Marked(MarksIn(f)) \o
    [k \in 1..Len(fixups) |->
        Entry("DATA", PcOf(Unit, work.anchors, fixups[k]), <<<<i, f, k>>>>, Value(fixups[k]))]

\* An instruction or storage takes its last mark as its own anchor.
OnePiece(i, f, kind, value) ==
    LET ms == MarksIn(f)
        own == IF ms = <<>> THEN 0 ELSE Last(ms).anchor
    IN  Marked(IF ms = <<>> THEN ms ELSE Front(ms)) \o <<Entry(kind, own, <<<<i, f, 1>>>>, value)>>

Pieces(i, f) ==
    LET r == Unit.fragments[f]
    IN  CASE r.kind = "RAW"     -> RawPieces(i, f, r.size)
          [] r.kind = "DATA"    -> DataPieces(i, f, r.fixups)
          [] r.kind = "STORAGE" -> OnePiece(i, f, r.kind, work.nodes[r.extent])
          [] OTHER -> OnePiece(i, f, r.kind, IF r.fixups = <<>> THEN 0 ELSE Value(r.fixups[1]))

LayObject ==
    /\ job = "nodes" /\ Unbuilt = {} /\ work.defined = Len(Unit.definitions)
    /\ LET i == Len(inputs)
           n == Len(Unit.fragments)
       IN  fragments' = fragments \o <<MarkAt(work.owner)>>
                        \o FlattenSeq([f \in 1..n |-> Pieces(i, f)])
                        \o Marked(MarksIn(n + 1))
    /\ work' = NoWork /\ job' = "script"
    /\ UNCHANGED <<inputs, graph, bound, anchorCount, bindings, exports, banks, linkError>>

AppendObject == NextRoot \/ Descend \/ BuildNode \/ Define \/ LayObject

-----------------------------------------------------------------------------
(* ir_link_prepare *)

ExportsOf(name) == {e \in Range(exports) : e.name = name}
Duplicate(name) == \E i, j \in 1..Len(exports) : i # j /\ exports[i].name = name /\ exports[j].name = name

Resolving == job = "resolve" /\ UNCHANGED <<inputs, anchorCount, fragments, exports, banks, work>>

DuplicateExport ==
    /\ Resolving /\ \E e \in Range(exports) : Duplicate(e.name)
    /\ Fail("DUPLICATE")
    /\ UNCHANGED <<graph, bound, bindings>>

Imports == {d \in DOMAIN bindings : bindings[d].import # "NONE" /\ bound[d] = 0}
Import  == CHOOSE d \in Imports : \A e \in Imports : d <= e

SortedExports == Resolving /\ ~\E e \in Range(exports) : Duplicate(e.name)

UndefinedImport ==
    /\ SortedExports /\ Imports # {} /\ ExportsOf(bindings[Import].import) = {}
    /\ Fail("UNDEFINED")
    /\ UNCHANGED <<graph, bound, bindings>>

IsLeaf(g) == graph[g].kind \in {"LITERAL", "ADDRESS"}

\* A provider that is a leaf is shared, any other referred to.
BindImport ==
    /\ SortedExports /\ Imports # {}
    /\ \E e \in ExportsOf(bindings[Import].import) :
          LET value == bound[e.definition]
          IN  /\ bindings' = [bindings EXCEPT ![Import].alias = e.definition]
              /\ IF value # 0 /\ IsLeaf(value)
                 THEN /\ bound' = [bound EXCEPT ![Import] = value]
                      /\ UNCHANGED graph
                 ELSE /\ graph' = Append(graph, [kind |-> "REFERENCE", to |-> e.definition])
                      /\ bound' = [bound EXCEPT ![Import] = Len(graph) + 1]
    /\ UNCHANGED <<job, linkError>>

\* bank_owner: along the aliases, no more of them than there are definitions.
BankOwner(id) ==
    LET toward == [d \in 1..Len(bound) |->
                      IF d \in DOMAIN bindings /\ bindings[d].alias # 0 THEN bindings[d].alias ELSE d]
        walk[k \in 0..Len(bound)] == IF k = 0 THEN id ELSE toward[walk[k - 1]]
        end == walk[Len(bound)]
    IN  IF end \in DOMAIN bindings /\ bindings[end].alias = 0 THEN bindings[end].owner ELSE 0

UnboundBanks == {b \in Range(banks) : bound[b.result] = 0}

\* A chain of aliases without end stays a cycle of the result with itself.
BindBank ==
    /\ SortedExports /\ Imports = {} /\ UnboundBanks # {}
    /\ LET b == CHOOSE x \in UnboundBanks : \A y \in UnboundBanks : x.result <= y.result
           owner == BankOwner(b.source)
       IN  /\ graph' = Append(graph, IF owner = 0 THEN [kind |-> "REFERENCE", to |-> b.result]
                                     ELSE [kind |-> "BANK", anchor |-> owner])
           /\ bound' = [bound EXCEPT ![b.result] = Len(graph) + 1]
    /\ UNCHANGED <<bindings, job, linkError>>

Resolved ==
    /\ SortedExports /\ Imports = {} /\ UnboundBanks = {}
    /\ job' = "layout"
    /\ UNCHANGED <<graph, bound, bindings, linkError>>

PrepareLink == DuplicateExport \/ UndefinedImport \/ BindImport \/ BindBank \/ Resolved
=============================================================================
