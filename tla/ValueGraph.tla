----------------------------- MODULE ValueGraph -----------------------------
(***************************************************************************)
(* The graph of expression values of a unit (ir/value.c): definitions are  *)
(* bound once, anchors are placed again and again while code is laid out,  *)
(* and expressions over them are evaluated with an explicit stack and a    *)
(* memo per node in each of two modes, ordinary and extent.                *)
(*                                                                         *)
(* A memo is current or not by three mechanisms: reverse edges along which *)
(* placements clear the CACHED flag, the binding epoch that results with   *)
(* an unbound definition carry, and the request that a cycle was found in. *)
(* Nodes, definitions and anchors are numbers; the source location of a    *)
(* diagnostic is the node it names.  0 stands for IR_NONE.                 *)
(***************************************************************************)
EXTENDS ValueOperations

CONSTANTS
    Definitions, Anchors,
    Addresses,      \* the integers anchors are placed at
    Unplaced,       \* the place of an anchor that is not known
    Units,          \* what a frontend builds and asks for: the first nodes and
                    \* strings, and what it may bind, place, prefix, append, lower and query
    NodeLimit,      \* bound: nodes of a graph
    Epochs,         \* the values of a version counter: 2^64
    LiveMax         \* IR_MAX_LIVE_STRING_BYTES

ASSUME GraphAssumption ==
    /\ Addresses \subseteq Int /\ Unplaced \notin Addresses
    /\ NodeLimit \in Nat \ {0} /\ Epochs \in Nat \ 0..2 /\ LiveMax \in Nat

LiteralKinds == {"INTEGER", "STRING", "EXTENT_LITERAL"}
PairKinds    == {"BINARY", "SPAN", "EXTENT_SUM", "EXTENT_REPEAT", "EXTENT_REMAINDER"}
ExtentKinds  == {"EXTENT_COUNT", "EXTENT_SUM", "EXTENT_REPEAT", "EXTENT_REMAINDER",
                 "EXTENT_BOUND", "EXTENT_STRING", "EXTENT_INTEGER"}

NodeType ==
    [kind : LiteralKinds \cup PairKinds \cup ExtentKinds \cup {"REFERENCE", "ADDRESS", "UNARY"},
     op : Operators \cup {""}, left : Int, right : Int, extra : Int, joined : BOOLEAN]

\* The operands node_parents links a node to, definitions and anchors apart.
Operands(n, bnd, pre) ==
    CASE n.kind \in LiteralKinds -> {}
      [] n.kind = "REFERENCE"    -> {bnd[n.left]} \ {0}
      [] n.kind = "ADDRESS"      -> {pre[n.left]} \ {0}
      [] n.kind = "SPAN"         -> {n.left, n.right, n.extra}
      [] n.kind \in PairKinds \ {"SPAN"} -> {n.left, n.right}
      [] OTHER                   -> {n.left}

NoneBound == [d \in Definitions |-> 0]
NoPrefix  == [a \in Anchors |-> 0]

\* A byte is a place in a buffer.
BytesIn(buffers) == UNION {{k} \X (1..Len(buffers[k])) : k \in DOMAIN buffers}

\* What builders accept: operators, definitions and anchors that there are.
\* Spans come from lowering, buffers of concatenations from evaluation.
Buildable(n) ==
    /\ n \in NodeType /\ n.kind # "SPAN" /\ ~n.joined
    /\ n.kind \in {"UNARY", "BINARY"} => n.op \in Operators
    /\ n.kind = "REFERENCE" => n.left \in Definitions
    /\ n.kind = "ADDRESS" => n.left \in Anchors

\* Operands are nodes of the unit, and every string literal has its own buffer;
\* of those that are appended later none is a string literal.
ASSUME BuilderAssumption ==
    \A u \in Units :
        /\ u.nodes \in Seq(NodeType) /\ Len(u.nodes) <= NodeLimit
        /\ \A i \in DOMAIN u.nodes :
              /\ Buildable(u.nodes[i])
              /\ Operands(u.nodes[i], NoneBound, NoPrefix) \subseteq DOMAIN u.nodes
              /\ u.nodes[i].kind = "STRING" => u.nodes[i].extra \in DOMAIN u.strings
        /\ \A n \in u.late : Buildable(n) /\ n.kind # "STRING"
        /\ u.strings \in Seq(Seq(Int))
        /\ Len(u.strings) = Cardinality({i \in DOMAIN u.nodes : u.nodes[i].kind = "STRING"})
        /\ Cardinality(BytesIn(u.strings)) <= LiveMax

VARIABLES
    unit,           \* the member of Units this is
    graph,          \* u->nodes: [kind, op, left, right, extra, joined]
    strings,        \* u->strings, the bytes of each
    bound,          \* definition -> expression
    prefix,         \* anchor -> extent_expression
    placed,         \* anchor -> address or Unplaced
    parents,        \* node -> the nodes that use it directly
    references,     \* definition -> its REFERENCE nodes
    users,          \* anchor -> its ADDRESS nodes
    memos,          \* node -> mode -> memo
    versions,       \* u->bindings, u->layout, u->request
    lowered,        \* ir_lower_spans has run
    error,          \* u->error: a failed builder stays failed
    mode,           \* u->extent_mode
    stack,          \* u->stack of [id, phase]
    visiting,       \* nodes with n->visit set
    query,          \* the root under evaluation
    answer          \* the last ir_result

structure == <<unit, graph, strings, bound, prefix, parents, references, users, lowered>>
running   == <<mode, stack, visiting, query>>
vars == <<structure, placed, memos, versions, error, running, answer>>

NoAnswer == [state |-> "NONE"]
Modes    == {"ORDINARY", "EXTENT"}
Other(m) == IF m = "EXTENT" THEN "ORDINARY" ELSE "EXTENT"

Nodes     == 1..Len(graph)
NodeRange == 1..NodeLimit
NoMemo    == [state |-> "KNOWN", kind |-> "INTEGER", payload |-> 0, error |-> "NONE",
              at |-> 0, flags |-> {}]
Missing   == [m \in Modes |-> NoMemo]

\* A memo record exists once a node was evaluated in a mode.
Exists(m) == m # NoMemo

-----------------------------------------------------------------------------
(* Reverse edges *)

EdgesOf(g, bnd, pre) ==
    [c \in NodeRange |-> {i \in 1..Len(g) : c \in Operands(g[i], bnd, pre)}]
UsersIn(g, kind, ids) ==
    [x \in ids |-> {i \in 1..Len(g) : g[i].kind = kind /\ g[i].left = x}]

Init ==
    /\ unit \in Units /\ graph = unit.nodes /\ strings = unit.strings
    /\ bound = NoneBound /\ prefix = NoPrefix
    /\ placed = [a \in Anchors |-> Unplaced]
    /\ parents = EdgesOf(graph, bound, prefix)
    /\ references = UsersIn(graph, "REFERENCE", Definitions)
    /\ users = UsersIn(graph, "ADDRESS", Anchors)
    /\ memos = [i \in NodeRange |-> Missing]
    /\ versions = [bindings |-> 1, layout |-> 1, request |-> 1]
    /\ lowered = FALSE /\ error = "NONE"
    /\ mode = "ORDINARY" /\ stack = <<>> /\ visiting = {} /\ query = 0
    /\ answer = NoAnswer

-----------------------------------------------------------------------------
(* Versions and invalidation *)

IsCycle(m) == m.state = "INVALID" /\ m.error = "CYCLE"

Uncached(m) == [m EXCEPT !.flags = @ \ {"CACHED"}]

\* At a wrap no old stamp may become current again.
Outdated(m) == m.flags \cap {"BINDING", "LAYOUT"} # {} \/ IsCycle(m)

\* Mutant: the counter wraps and the memos keep their stamps.
Kept(table) == table

WithoutOutdated(table) ==
    [i \in NodeRange |-> [m \in Modes |->
        IF Outdated(table[i][m]) THEN Uncached(table[i][m]) ELSE table[i][m]]]

\* Mutant: the counter wraps to zero.
NextVersionFromZero(v) == (v + 1) % Epochs

NextVersion(v) == IF (v + 1) % Epochs = 0 THEN 1 ELSE v + 1

Advance(field, table) ==
    /\ versions' = [versions EXCEPT ![field] = NextVersion(@)]
    /\ memos' = IF (versions[field] + 1) % Epochs = 0
                THEN WithoutOutdated(table) ELSE table

LayoutCached(m) == {"CACHED", "LAYOUT"} \subseteq m.flags

\* invalidate goes up the reverse edges and stops at a node that has nothing to
\* clear in either mode: what it visits is the least set that holds the heads and,
\* with a node, its parents, as far as they are dirty.
Dirty(i) == \E m \in Modes : LayoutCached(memos[i][m])

DirtyAbove(heads) ==
    LET dirty == {i \in Nodes : Dirty(i)}
        Closed(s) == /\ heads \cap dirty \subseteq s
                     /\ \A c \in s : parents[c] \cap dirty \subseteq s
    IN  {i \in dirty : \A s \in SUBSET dirty : Closed(s) => i \in s}

\* Mutant: a placement clears the results of ordinary queries only.
InvalidatedOrdinary(heads) ==
    LET above == DirtyAbove(heads)
    IN  [i \in NodeRange |-> [m \in Modes |->
            IF i \in above /\ m = "ORDINARY" /\ LayoutCached(memos[i][m])
            THEN Uncached(memos[i][m]) ELSE memos[i][m]]]

Invalidated(heads) ==
    LET above == DirtyAbove(heads)
    IN  [i \in NodeRange |-> [m \in Modes |->
            IF i \in above /\ LayoutCached(memos[i][m])
            THEN Uncached(memos[i][m]) ELSE memos[i][m]]]

-----------------------------------------------------------------------------
(* What builders and layout do between queries *)

Quiet == query = 0 /\ error = "NONE"

\* ir_bind: a definition is bound once, a second time poisons the unit.
Bind(d, e) ==
    /\ Quiet /\ bound[d] = 0
    /\ bound' = [bound EXCEPT ![d] = e]
    /\ parents' = [parents EXCEPT ![e] = @ \cup references[d]]
    /\ Advance("bindings", memos)
    /\ answer' = NoAnswer
    /\ UNCHANGED <<unit, graph, strings, prefix, placed, references, users, lowered, error, running>>

Rebind(d) ==
    /\ Quiet /\ bound[d] # 0
    /\ error' = "REBIND" /\ answer' = NoAnswer
    /\ UNCHANGED <<structure, placed, memos, versions, running>>

\* ir_place, with its early return when nothing changes.
Place(a, where) ==
    /\ Quiet /\ placed[a] # where
    /\ placed' = [placed EXCEPT ![a] = where]
    /\ Advance("layout", Invalidated(users[a]))
    /\ answer' = NoAnswer
    /\ UNCHANGED <<structure, error, running>>

\* ir_extent_anchor
SetPrefix(a, e) ==
    /\ Quiet /\ prefix[a] = 0
    /\ prefix' = [prefix EXCEPT ![a] = e]
    /\ memos' = Invalidated(users[a])
    /\ parents' = [parents EXCEPT ![e] = @ \cup users[a]]
    /\ answer' = NoAnswer
    /\ UNCHANGED <<unit, graph, strings, bound, placed, references, users, versions, lowered, error, running>>

\* append, with the edges node_parents adds.
AppendNode(n) ==
    /\ Quiet /\ Len(graph) < NodeLimit
    /\ Operands(n, bound, prefix) \subseteq Nodes
    /\ graph' = Append(graph, n)
    /\ parents' = [c \in NodeRange |->
                     IF c \in Operands(n, bound, prefix)
                     THEN parents[c] \cup {Len(graph) + 1} ELSE parents[c]]
    /\ references' = IF n.kind = "REFERENCE"
                     THEN [references EXCEPT ![n.left] = @ \cup {Len(graph) + 1}] ELSE references
    /\ users' = IF n.kind = "ADDRESS"
                THEN [users EXCEPT ![n.left] = @ \cup {Len(graph) + 1}] ELSE users
    /\ answer' = NoAnswer
    /\ UNCHANGED <<unit, strings, bound, prefix, placed, memos, versions, lowered, error, running>>

\* address_leaf: an operand is an address or an alias of one, through definitions
\* that do not run in a circle.
AddressLeaf(i) ==
    LET Leads(j, s) == \/ graph[j].kind = "ADDRESS"
                       \/ graph[j].kind = "REFERENCE" /\ bound[graph[j].left] \in s
    IN  \A s \in SUBSET Nodes : (\A j \in Nodes : Leads(j, s) => j \in s) => i \in s

Differences == {i \in Nodes : /\ graph[i].kind = "BINARY" /\ graph[i].op = "SUBTRACT"
                              /\ AddressLeaf(graph[i].left) /\ AddressLeaf(graph[i].right)}

\* lower_spans: a difference of addresses becomes a SPAN with an extent to
\* follow in extent queries; every edge is linked anew and every result that
\* depends on placement is dropped.  which[i] is what the layout's callback
\* answers, 0 to keep the subtraction.
LowerSpans(which) ==
    /\ Quiet /\ ~lowered /\ \E i \in Differences : which[i] # 0
    /\ lowered' = TRUE
    /\ graph' = [i \in Nodes |->
                   IF i \in Differences /\ which[i] # 0
                   THEN [graph[i] EXCEPT !.kind = "SPAN", !.extra = which[i]] ELSE graph[i]]
    /\ parents' = EdgesOf(graph', bound, prefix)
    /\ references' = UsersIn(graph', "REFERENCE", Definitions)
    /\ users' = UsersIn(graph', "ADDRESS", Anchors)
    /\ memos' = [i \in NodeRange |-> [m \in Modes |->
                   IF "LAYOUT" \in memos[i][m].flags THEN Uncached(memos[i][m]) ELSE memos[i][m]]]
    /\ answer' = NoAnswer
    /\ UNCHANGED <<unit, strings, bound, prefix, placed, versions, error, running>>

-----------------------------------------------------------------------------
(* Results *)

Known(kind, num) == [state |-> "KNOWN", kind |-> kind, num |-> num, error |-> "NONE",
                     at |-> 0, flags |-> {}]
Deferred(why)    == [state |-> "DEFERRED", kind |-> "INTEGER", num |-> 0, error |-> "NONE",
                     at |-> 0, flags |-> why]
Invalid(err, i)  == [state |-> "INVALID", kind |-> "INTEGER", num |-> 0, error |-> err,
                     at |-> i, flags |-> {}]

WithFlags(v, fs) == [v EXCEPT !.flags = @ \cup fs]

\* The active payload of a memo: a value, or the stamp that Deferred and
\* Invalid keep in the same eight bytes.
MemoValue(m) ==
    [state |-> m.state, kind |-> m.kind, error |-> m.error, at |-> m.at,
     num |-> IF m.state = "KNOWN" THEN m.payload ELSE 0, flags |-> m.flags \ {"CACHED"}]

MemoOf(v) ==
    [state |-> v.state, kind |-> v.kind, error |-> v.error, at |-> v.at,
     flags |-> v.flags \cup {"CACHED"},
     payload |-> CASE v.state = "KNOWN"                           -> v.num
                   [] v.state = "INVALID" /\ v.error = "CYCLE"    -> versions.request
                   [] OTHER                                       -> versions.bindings]

Current(i, in) ==
    LET m == memos[i][in]
    IN  /\ "CACHED" \in m.flags
        /\ IF IsCycle(m) THEN m.payload = versions.request
           ELSE "BINDING" \in m.flags => m.payload = versions.bindings

\* A string value is the number of the buffer that holds it.
ValueOf(v) ==
    IF v.kind = "STRING" THEN StringValue(strings[v.num])
    ELSE [kind |-> v.kind, num |-> v.num, bytes |-> <<>>]

LiveBytes == Cardinality(BytesIn(strings))

Stringy(l, r) == "STRING" \in {l.kind, r.kind}

\* operation, when neither operand is Invalid or Deferred.
Computed(i, l, r) ==
    LET n == graph[i]
        x == ValueOf(l)
        y == ValueOf(r)
        result ==
            IF n.kind \in ExtentKinds THEN ExtentOperation(n.kind, n.right, n.extra, x, y)
            ELSE IF "EXTENT" \in {l.kind, r.kind} THEN Refuses("TYPE")
            ELSE IF ~Stringy(l, r) THEN IntegerOperation(n.op, x.num, y.num)
            ELSE IF n.kind = "UNARY" THEN Refuses("TYPE")
            ELSE IF "LAYOUT" \in l.flags \cup r.flags THEN Refuses("LAYOUT_STRING")
            ELSE IF n.joined THEN Gives(StringValue(strings[n.extra]))
            ELSE StringOperation(n.op, x, y, LiveMax - LiveBytes)
    IN  IF result.error # "NONE" THEN Invalid(result.error, i)
        ELSE IF result.value.kind = "STRING"
        THEN Known("STRING", IF n.joined THEN n.extra ELSE Len(strings) + 1)
        ELSE Known(result.value.kind, result.value.num)

Operation(i, l, r) ==
    CASE l.state = "INVALID" -> l
      [] l.state # "INVALID" /\ r.state = "INVALID" -> WithFlags(r, l.flags)
      [] "DEFERRED" \in {l.state, r.state} /\ "INVALID" \notin {l.state, r.state} ->
             Deferred(l.flags \cup r.flags)
      [] OTHER -> WithFlags(Computed(i, l, r), l.flags \cup r.flags)

-----------------------------------------------------------------------------
(* Evaluation: one step per turn of the loop *)

Working  == query # 0 /\ stack # <<>> /\ error = "NONE"
Top      == stack[Len(stack)]
Here     == graph[Top.id]
Popped   == SubSeq(stack, 1, Len(stack) - 1)
MemoHere(i) == MemoValue(memos[i][mode])

Redirected(n, in) == n.kind = "SPAN" /\ in = "EXTENT"
First(n, in) ==
    CASE n.kind = "REFERENCE" -> bound[n.left]
      [] n.kind = "ADDRESS"   -> prefix[n.left]
      [] Redirected(n, in)    -> n.extra
      [] OTHER                -> n.left

\* Constants are shared with the other mode where it has a memo.
Shared(v) == v.flags = {} /\ ~(v.state = "INVALID" /\ v.error = "CYCLE")

Finish(v) ==
    /\ memos' = [memos EXCEPT ![Top.id] =
                   [m \in Modes |->
                      IF m = mode \/ (Shared(v) /\ Exists(@[m])) THEN MemoOf(v) ELSE @[m]]]
    /\ visiting' = visiting \ {Top.id}
    /\ stack' = Popped

Still == UNCHANGED <<unit, bound, prefix, parents, references, users, lowered,
                     placed, versions, error, mode, query, answer>>
NoNewString == UNCHANGED <<graph, strings>>

\* ir_evaluate and ir_evaluate_extent
Request(i, m) ==
    /\ Quiet
    /\ mode' = m /\ query' = i
    /\ stack' = <<[id |-> i, phase |-> 0]>>
    /\ Advance("request", memos)
    /\ answer' = NoAnswer
    /\ UNCHANGED <<structure, placed, error, visiting>>

AlreadyCurrent ==
    /\ Working /\ Current(Top.id, mode)
    /\ stack' = Popped
    /\ NoNewString /\ Still /\ UNCHANGED <<memos, visiting>>

Computing == Working /\ ~Current(Top.id, mode)

\* The value of a node that needs no operand, where it has one.
LeafValue(n) ==
    CASE n.kind = "INTEGER"        -> Known("INTEGER", n.left)
      [] n.kind = "EXTENT_LITERAL" -> Known("EXTENT", n.left)
      [] n.kind = "STRING"         -> Known("STRING", n.extra)
      [] n.kind = "REFERENCE"      -> Deferred({"BINDING"})
      [] n.kind = "ADDRESS"        ->
             IF placed[n.left] = Unplaced THEN Deferred({"LAYOUT"})
             ELSE WithFlags(Known("INTEGER", placed[n.left]), {"LAYOUT"})

IsLeaf(n, in) ==
    \/ n.kind \in LiteralKinds
    \/ n.kind = "REFERENCE" /\ bound[n.left] = 0
    \/ n.kind = "ADDRESS" /\ (in = "ORDINARY" \/ prefix[n.left] = 0)

Leaf ==
    /\ Computing /\ Top.phase = 0 /\ IsLeaf(Here, mode)
    /\ Finish(LeafValue(Here))
    /\ NoNewString /\ Still

\* A child that is already being visited closes a cycle, which the diagnostic
\* names by the child; otherwise the child is pushed unless it is current.
CycleAt(child, phase) ==
    LET known == IF phase = 2 THEN memos[Here.left][mode].flags \cap {"BINDING", "LAYOUT"} ELSE {}
    IN  WithFlags(Invalid("CYCLE", child),
                  known \cup (IF mode = "EXTENT" THEN {"LAYOUT"} ELSE {}))

\* Mutant: the frame does not remember how far it got.
GoToAgain(child, phase) ==
    /\ \/ /\ Current(child, mode) /\ UNCHANGED <<stack, visiting, memos>>
       \/ /\ ~Current(child, mode) /\ child \notin visiting
          /\ stack' = Append(stack, [id |-> child, phase |-> 0])
          /\ visiting' = visiting \cup {Top.id} /\ UNCHANGED memos
       \/ /\ ~Current(child, mode) /\ child \in visiting
          /\ Finish(CycleAt(child, phase))
    /\ NoNewString /\ Still

GoTo(child, phase) ==
    /\ \/ /\ Current(child, mode)
          /\ stack' = [stack EXCEPT ![Len(stack)].phase = phase]
          /\ visiting' = visiting \cup {Top.id} /\ UNCHANGED memos
       \/ /\ ~Current(child, mode) /\ child \notin visiting \cup {Top.id}
          /\ stack' = Append([stack EXCEPT ![Len(stack)].phase = phase],
                             [id |-> child, phase |-> 0])
          /\ visiting' = visiting \cup {Top.id} /\ UNCHANGED memos
       \/ /\ ~Current(child, mode) /\ child \in visiting \cup {Top.id}
          /\ Finish(CycleAt(child, phase))
    /\ NoNewString /\ Still

Descend == Computing /\ Top.phase = 0 /\ ~IsLeaf(Here, mode) /\ GoTo(First(Here, mode), 1)

\* What follows from the first operand alone.
PassesOn(n, l, in) ==
    \/ n.kind \in {"REFERENCE", "ADDRESS"} \/ Redirected(n, in)
    \/ l.state = "INVALID"
    \/ n.kind = "EXTENT_REPEAT" /\ l.state = "KNOWN" /\ l.kind = "EXTENT" /\ l.num = 0

\* A prefix or a lowered span must be an integer and depends on placement.
PassedOn(i, l, in) ==
    IF graph[i].kind = "ADDRESS" \/ Redirected(graph[i], in)
    THEN WithFlags(IF l.state = "KNOWN" /\ l.kind # "INTEGER" THEN Invalid("TYPE", i) ELSE l,
                   {"LAYOUT"})
    ELSE l

FirstDone ==
    LET n == Here
        l == MemoHere(First(n, mode))
    IN  /\ Computing /\ Top.phase # 0 /\ PassesOn(n, l, mode)
        /\ Finish(PassedOn(Top.id, l, mode))
        /\ NoNewString /\ Still

Second ==
    /\ Computing /\ Top.phase = 1 /\ ~PassesOn(Here, MemoHere(First(Here, mode)), mode)
    /\ Here.kind \in PairKinds
    /\ GoTo(Here.right, 2)

\* Mutant: a concatenation is made again whenever it is evaluated.
FreshJoin(i, v) == v.state = "KNOWN" /\ v.kind = "STRING"

NewJoin(i, v) == v.state = "KNOWN" /\ v.kind = "STRING" /\ ~graph[i].joined

\* l, r and v are the local copies of the loop.
Combine ==
    /\ Computing /\ Top.phase = (IF Here.kind \in PairKinds THEN 2 ELSE 1)
    /\ \E l \in {MemoHere(First(Here, mode))} :
          /\ ~PassesOn(Here, l, mode)
          /\ \E r \in {IF Here.kind \in PairKinds THEN MemoHere(Here.right) ELSE Known("INTEGER", 0)} :
             \E v \in {Operation(Top.id, l, r)} :
                /\ Finish(v)
                /\ IF NewJoin(Top.id, v)
                   THEN /\ strings' = Append(strings, Text(ValueOf(l)) \o Text(ValueOf(r)))
                        /\ graph' = [graph EXCEPT ![Top.id].joined = TRUE,
                                                  ![Top.id].extra = Len(strings) + 1]
                   ELSE NoNewString
    /\ Still

-----------------------------------------------------------------------------
(* Answers *)

\* collect_dependencies follows the memos that say Deferred.
Followed(i) ==
    LET n == graph[i]
    IN  CASE n.kind = "REFERENCE" -> {bound[n.left]} \ {0}
          [] n.kind = "ADDRESS"   -> IF mode = "EXTENT" THEN {prefix[n.left]} \ {0} ELSE {}
          [] Redirected(n, mode)  -> {n.extra}
          [] n.kind \in LiteralKinds -> {}
          [] n.kind \in PairKinds /\ ~Redirected(n, mode) -> {n.left, n.right}
          [] OTHER                -> {n.left}

IsDeferred(i) == memos[i][mode].state = "DEFERRED"

Collected(root) ==
    LET Further(s) == s \cup {c \in Nodes : IsDeferred(c) /\ \E i \in s : c \in Followed(i)}
        reach[k \in 0..NodeLimit] == IF k = 0 THEN {root} ELSE Further(reach[k - 1])
        seen == reach[NodeLimit]
    IN  {<<"DEFINITION", d>> : d \in {d \in Definitions : bound[d] = 0
                                        /\ seen \cap references[d] # {}}}
        \cup
        {<<"ANCHOR", a>> : a \in {a \in Anchors : (mode = "ORDINARY" \/ prefix[a] = 0)
                                    /\ seen \cap users[a] # {}}}

Answer ==
    /\ query # 0 /\ stack = <<>> /\ error = "NONE"
    /\ LET v == MemoHere(query)
       IN  answer' = [state |-> v.state, root |-> query, mode |-> mode,
                      kind |-> v.kind, num |-> v.num, error |-> v.error, at |-> v.at,
                      dependencies |-> IF v.state = "DEFERRED" THEN Collected(query) ELSE {}]
    /\ query' = 0
    /\ UNCHANGED <<structure, placed, memos, versions, error, mode, stack, visiting>>

\* An allocation of the loop or of the collection fails: the unit is poisoned, this query and every later one
\* answers with the error.
RunsOut ==
    /\ Computing \/ (query # 0 /\ stack = <<>> /\ error = "NONE" /\ IsDeferred(query))
    /\ error' = "MEMORY"
    /\ answer' = [state |-> "INVALID", root |-> query, mode |-> mode, kind |-> "INTEGER",
                  num |-> 0, error |-> "MEMORY", at |-> 0, dependencies |-> {}]
    /\ query' = 0 /\ stack' = <<>>
    /\ UNCHANGED <<structure, placed, memos, versions, mode, visiting>>

-----------------------------------------------------------------------------
Step == AlreadyCurrent \/ Leaf \/ Descend \/ FirstDone \/ Second \/ Combine \/ Answer

Change ==
    \/ \E d \in Definitions : Rebind(d) \/ \E e \in Nodes : <<d, e>> \in unit.binds /\ Bind(d, e)
    \/ \E a \in Anchors :
          \/ \E where \in Addresses \cup {Unplaced} : <<a, where>> \in unit.places /\ Place(a, where)
          \/ \E e \in Nodes : <<a, e>> \in unit.prefixes /\ SetPrefix(a, e)
    \/ \E n \in unit.late : AppendNode(n)
    \/ \E which \in [Differences -> {0} \cup (unit.spans \cap Nodes)] : LowerSpans(which)

Next ==
    \/ Change
    \/ \E i \in unit.roots \cap Nodes, m \in Modes : Request(i, m)
    \/ Step \/ RunsOut

Spec     == Init /\ [][Next]_vars
\* The evaluator runs to its end; nothing else has to happen.
FairSpec == Spec /\ WF_vars(Step)

-----------------------------------------------------------------------------
(* Properties *)

States == {"KNOWN", "DEFERRED", "INVALID"}

MemoType ==
    [state : States, kind : {"INTEGER", "EXTENT", "STRING"}, payload : Int, error : Diagnostics,
     at : Int, flags : SUBSET {"CACHED", "BINDING", "LAYOUT"}]

\* The eight bytes of a memo's payload hold either a value or a stamp: no known
\* value carries the flag that makes current() read them as a stamp.
PayloadIsUnambiguous ==
    \A i \in NodeRange, m \in Modes :
        memos[i][m].state = "KNOWN" => "BINDING" \notin memos[i][m].flags

\* The state of the unit is well formed, version counters skip the value zero,
\* marks are only left on the nodes of the stack (evaluate in ir/value.c), and
\* no payload can be taken for a stamp.
TypeOK ==
    /\ graph \in Seq(NodeType) /\ Len(graph) <= NodeLimit
    /\ bound \in [Definitions -> 0..NodeLimit] /\ prefix \in [Anchors -> 0..NodeLimit]
    /\ placed \in [Anchors -> Addresses \cup {Unplaced}]
    /\ parents \in [NodeRange -> SUBSET NodeRange]
    /\ \A i \in NodeRange, m \in Modes : memos[i][m] \in MemoType
    /\ PayloadIsUnambiguous
    /\ versions \in [{"bindings", "layout", "request"} -> 1..Epochs - 1]
    /\ mode \in Modes /\ query \in 0..NodeLimit
    /\ error = "NONE" => visiting \subseteq {stack[k].id : k \in DOMAIN stack}

\* Every use of a node is known to it, through the bound definitions and the
\* prefixes of anchors as well (node_parents, ir_bind, ir_extent_anchor).
EdgesAreComplete ==
    \A i \in Nodes : \A c \in Operands(graph[i], bound, prefix) : i \in parents[c]

\* What the operands of a node make of it in a mode, where they are current.
FollowsOperands(i, v, in) ==
    LET n == graph[i]
        f == First(n, in)
        l == MemoValue(memos[f][in])
    IN  IF IsLeaf(n, in) THEN v = LeafValue(n)
        ELSE /\ Current(f, in)
             /\ IF PassesOn(n, l, in) THEN v = PassedOn(i, l, in)
                ELSE IF n.kind \in PairKinds
                     THEN /\ Current(n.right, in)
                          /\ v = Operation(i, l, MemoValue(memos[n.right][in]))
                     ELSE v = Operation(i, l, Known("INTEGER", 0))

\* A memo that would be used agrees with its operands, of which the ones it
\* was made from would be used as well: bindings, placements, prefixes, lowered
\* spans and wrapped counters leave no result behind that has lost its ground
\* (current, finish, invalidate and advance in ir/value.c).
MemosFollowOperands ==
    error = "NONE" =>
        /\ EdgesAreComplete
        /\ \A i \in Nodes, m \in Modes :
              Current(i, m) /\ ~IsCycle(memos[i][m]) =>
                  \/ FollowsOperands(i, MemoValue(memos[i][m]), m)
                  \/ /\ Shared(MemoValue(memos[i][m]))
                     /\ FollowsOperands(i, MemoValue(memos[i][m]), Other(m))

\* A concatenation owns one buffer, however often and in whichever mode it is
\* evaluated, and the buffer stays what it was: borrowed bytes remain valid and
\* queries do not use up the budget of live strings (string_operation).
StringsAreMadeOnce ==
    /\ Len(strings) = Cardinality({i \in Nodes : graph[i].kind = "STRING" \/ graph[i].joined})
    /\ \A i, j \in Nodes :
          i # j /\ graph[i].joined /\ (graph[j].joined \/ graph[j].kind = "STRING")
              => graph[i].extra # graph[j].extra
    /\ LiveBytes <= LiveMax

\* Every query is answered: the loop of evaluate comes to an end on every
\* graph, with cycles through definitions and anchor prefixes too.
QueriesEnd == query # 0 ~> query = 0
=============================================================================
