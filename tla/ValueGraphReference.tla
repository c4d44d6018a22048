------------------------ MODULE ValueGraphReference ------------------------
(***************************************************************************)
(* What an expression means: its value by recursion over the graph as it   *)
(* is bound and placed now, with no memo, no epoch and no stack.           *)
(***************************************************************************)
EXTENDS ValueGraph

Meaning(state, value, err, at, layout) ==
    [state |-> state, value |-> value, error |-> err, at |-> at, layout |-> layout]

NoValue      == IntegerValue(0)
Unknown(layout) == Meaning("DEFERRED", NoValue, "NONE", 0, layout)
Plain(value) == Meaning("KNOWN", value, "NONE", 0, FALSE)
Circular(at) == Meaning("INVALID", NoValue, "CYCLE", at, FALSE)

MeaningOf(i, result, layout) ==
    IF result.error = "NONE" THEN Meaning("KNOWN", result.value, "NONE", 0, layout)
    ELSE Meaning("INVALID", NoValue, result.error, i, layout)

\* What a meaning depends on.
Snapshot ==
    [graph |-> graph, strings |-> strings, bound |-> bound, prefix |-> prefix, placed |-> placed]

NodesOf(s) == 1..Len(s.graph)

\* A concatenation that has its buffer already needs no room for another.
Room(s, n) == IF n.joined THEN StringMax ELSE LiveMax - Cardinality(BytesIn(s.strings))

Combined(s, i, l, r) ==
    LET n == s.graph[i]
        layout == l.layout \/ r.layout
        kinds == {l.value.kind, r.value.kind}
    IN  IF r.state = "INVALID" THEN r
        ELSE IF "DEFERRED" \in {l.state, r.state} THEN Unknown(layout)
        ELSE MeaningOf(i,
               IF n.kind \in ExtentKinds
               THEN ExtentOperation(n.kind, n.right, n.extra, l.value, r.value)
               ELSE IF "EXTENT" \in kinds THEN Refuses("TYPE")
               ELSE IF kinds = {"INTEGER"} THEN IntegerOperation(n.op, l.value.num, r.value.num)
               ELSE IF n.kind = "UNARY" THEN Refuses("TYPE")
               ELSE IF layout THEN Refuses("LAYOUT_STRING")
               ELSE StringOperation(n.op, l.value, r.value, Room(s, n)),
               layout)

\* A prefix or a lowered span must be an integer and depends on placement.
Measured(i, v) ==
    IF v.state = "KNOWN" /\ v.value.kind # "INTEGER"
    THEN Meaning("INVALID", NoValue, "TYPE", i, TRUE)
    ELSE Meaning(v.state, v.value, v.error, v.at, TRUE)

\* What node i means if below[c] is what its operand c means.
Valued(s, i, in, below) ==
    LET n == s.graph[i]
    IN  CASE n.kind = "INTEGER"        -> Plain(IntegerValue(n.left))
          [] n.kind = "EXTENT_LITERAL" -> Plain(ExtentValue(n.left))
          [] n.kind = "STRING"         -> Plain(StringValue(s.strings[n.extra]))
          [] n.kind = "REFERENCE"      ->
                 IF s.bound[n.left] = 0 THEN Unknown(FALSE) ELSE below[s.bound[n.left]]
          [] n.kind = "ADDRESS" /\ (in = "ORDINARY" \/ s.prefix[n.left] = 0) ->
                 IF s.placed[n.left] = Unplaced THEN Unknown(TRUE)
                 ELSE Meaning("KNOWN", IntegerValue(s.placed[n.left]), "NONE", 0, TRUE)
          [] n.kind = "ADDRESS" /\ in = "EXTENT" /\ s.prefix[n.left] # 0 ->
                 Measured(i, below[s.prefix[n.left]])
          [] n.kind = "SPAN" /\ in = "EXTENT" -> Measured(i, below[n.extra])
          [] OTHER ->
                 LET l == below[n.left]
                 IN  IF \/ l.state = "INVALID"
                        \/ n.kind = "EXTENT_REPEAT" /\ l.state = "KNOWN" /\ l.value = ExtentValue(0)
                     THEN l
                     ELSE Combined(s, i, l, IF n.kind \in PairKinds THEN below[n.right]
                                            ELSE Plain(NoValue))

\* A node is evaluated on the way from a root; a node of the way closes a cycle.
Contexts(s) == {x \in [node : NodesOf(s), path : SUBSET NodesOf(s)] : x.node \notin x.path}
Way(x)      == x.path \cup {x.node}
Inside(x, c) == [node |-> c, path |-> Way(x)]
Alone(i)    == [node |-> i, path |-> {}]

Meanings(s, in) ==
    LET meaning[x \in Contexts(s)] ==
            Valued(s, x.node, in,
                   [c \in NodesOf(s) |-> IF c \in Way(x) THEN Circular(c) ELSE meaning[Inside(x, c)]])
    IN  meaning

Children(s, i, in) ==
    LET n == s.graph[i]
    IN  CASE n.kind = "REFERENCE"            -> {s.bound[n.left]} \ {0}
          [] n.kind = "ADDRESS"              -> IF in = "EXTENT" THEN {s.prefix[n.left]} \ {0} ELSE {}
          [] n.kind = "SPAN" /\ in = "EXTENT" -> {n.extra}
          [] n.kind \in LiteralKinds         -> {}
          [] n.kind \in PairKinds /\ ~(n.kind = "SPAN" /\ in = "EXTENT") -> {n.left, n.right}
          [] OTHER                           -> {n.left}

\* The unresolved leaves below an expression that is Deferred, among the least nodes
\* that hold it and, with a node, the operands that are Deferred as well.
Unresolved(s, in, root) ==
    LET meaning    == Meanings(s, in)
        Further(i) == {c \in Children(s, i, in) : meaning[Alone(c)].state = "DEFERRED"}
        beneath    == {i \in NodesOf(s) : \A S \in SUBSET NodesOf(s) :
                          root \in S /\ (\A j \in S : Further(j) \subseteq S) => i \in S}
    IN  {<<IF s.graph[i].kind = "REFERENCE" THEN "DEFINITION" ELSE "ANCHOR", s.graph[i].left>> :
            i \in {i \in beneath : Children(s, i, in) = {}}}

\* An answer is what the expression means at the time of the query: the value,
\* or the code and the place of the diagnostic -- for a cycle the node that
\* closes it as seen from this root -- or exactly the definitions and anchors
\* that are still missing (evaluate and collect_dependencies in ir/value.c).
AnswerIsTrue ==
    answer.state # "NONE" /\ error = "NONE" =>
        LET meant == Meanings(Snapshot, answer.mode)[Alone(answer.root)]
        IN  /\ answer.state = meant.state
            /\ answer.state = "INVALID" => answer.error = meant.error /\ answer.at = meant.at
            /\ answer.state = "KNOWN" =>
                  meant.value = IF answer.kind = "STRING" THEN StringValue(strings[answer.num])
                                ELSE [kind |-> answer.kind, num |-> answer.num, bytes |-> <<>>]
            /\ answer.dependencies =
                  IF answer.state = "DEFERRED" THEN Unresolved(Snapshot, answer.mode, answer.root)
                  ELSE {}
=============================================================================
