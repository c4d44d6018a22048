------------------------- MODULE ValueMeaningProofs --------------------------
(***************************************************************************)
(* Answers mean what the expressions mean: evaluation with memos, epochs   *)
(* and a stack against the meaning by recursion over the graph.            *)
(***************************************************************************)
EXTENDS ValueGraphReference, ValueGraphProofs

-----------------------------------------------------------------------------
(* The ways into a graph *)

\* What holds of 0 and with a number of the next one holds of n.
LEMMA Climbs ==
    ASSUME NEW n \in Nat, NEW S, 0 \in S, \A k \in 0..n - 1 : k \in S => k + 1 \in S
    PROVE  n \in S
<1> DEFINE bad == {k \in 1..n : k \notin S}
<1> SUFFICES ASSUME n \notin S PROVE FALSE
  OBVIOUS
<1>1. bad \in SUBSET (1..n) /\ n \in bad
  OBVIOUS
<1>2. PICK k \in bad : \A j \in bad : k <= j
  <2> HIDE DEF bad
  <2> QED
    BY <1>1, LeastMember
<1>3. k - 1 \in 0..n - 1 /\ k - 1 \in S /\ (k - 1) + 1 = k
  BY <1>2
<1> QED
  BY <1>2, <1>3

\* How many nodes a context may still go down.
Depth(s, x) == Len(s.graph) - Cardinality(x.path)

\* A way goes down to a node that is not on it, and then has one more.
LEMMA ContextIs ==
    ASSUME NEW s, Len(s.graph) \in Nat, NEW x \in Contexts(s)
    PROVE  /\ x.node \in NodesOf(s) /\ x.path \in SUBSET NodesOf(s) /\ x.node \notin x.path
           /\ Way(x) \in SUBSET NodesOf(s)
           /\ x = [node |-> x.node, path |-> x.path]
           /\ Depth(s, x) \in 1..Len(s.graph)
           /\ Cardinality(x.path) \in Nat
           /\ \A c \in NodesOf(s) \ Way(x) :
                 /\ Inside(x, c) \in Contexts(s) /\ Inside(x, c).node = c /\ Inside(x, c).path = Way(x)
                 /\ Depth(s, Inside(x, c)) = Depth(s, x) - 1
                 /\ Cardinality(Inside(x, c).path) = Cardinality(x.path) + 1
<1> DEFINE N == NodesOf(s)
<1>1. x \in [node : N, path : SUBSET N] /\ x.node \notin x.path
  BY DEF Contexts
<1>2. x.node \in N /\ x.path \in SUBSET N /\ x = [node |-> x.node, path |-> x.path]
  BY <1>1
<1>3. Way(x) \in SUBSET N
  BY <1>2 DEF Way
<1>4. IsFiniteSet(N) /\ Cardinality(N) = Len(s.graph)
  BY Interval DEF NodesOf
<1> HIDE DEF N
<1>5. /\ IsFiniteSet(x.path) /\ Cardinality(x.path) \in Nat
      /\ Cardinality(Way(x)) = Cardinality(x.path) + 1
      /\ Cardinality(Way(x)) <= Len(s.graph)
  <2>1. IsFiniteSet(x.path)
    BY <1>2, <1>4, FS_Subset
  <2>2. Cardinality(x.path) \in Nat
    BY <2>1, FS_CardinalityType
  <2>3. Cardinality(Way(x)) = Cardinality(x.path) + 1
    BY <1>1, <2>1, FS_AddElement DEF Way
  <2>4. Cardinality(Way(x)) <= Cardinality(N)
    BY <1>3, <1>4, FS_Subset
  <2> QED
    BY <1>4, <2>1, <2>2, <2>3, <2>4
<1>6. Depth(s, x) \in 1..Len(s.graph)
  BY <1>5 DEF Depth
<1>7. ASSUME NEW c \in N \ Way(x)
      PROVE  /\ Inside(x, c) \in Contexts(s) /\ Inside(x, c).node = c /\ Inside(x, c).path = Way(x)
             /\ Depth(s, Inside(x, c)) = Depth(s, x) - 1
             /\ Cardinality(Inside(x, c).path) = Cardinality(x.path) + 1
  <2>1. Inside(x, c).node = c /\ Inside(x, c).path = Way(x)
    BY DEF Inside
  <2>2. Inside(x, c) \in [node : N, path : SUBSET N]
    BY <1>3 DEF Inside
  <2>3. Inside(x, c) \in Contexts(s)
    BY <2>1, <2>2 DEF Contexts, N
  <2>4. Depth(s, Inside(x, c)) = Depth(s, x) - 1
    BY <1>5, <2>1 DEF Depth
  <2> QED
    BY <1>5, <2>1, <2>3, <2>4
<1> QED
  BY <1>1, <1>2, <1>3, <1>5, <1>6, <1>7 DEF N

\* What holds of a context as far as it holds of those one node deeper holds of all.
LEMMA WayInduction ==
    ASSUME NEW s, Len(s.graph) \in Nat, NEW S,
           \A x \in Contexts(s) : (\A c \in NodesOf(s) \ Way(x) : Inside(x, c) \in S) => x \in S
    PROVE  Contexts(s) \subseteq S
<1> SUFFICES ASSUME NEW y \in Contexts(s), y \notin S PROVE FALSE
  OBVIOUS
<1> DEFINE bad == {d \in 1..Len(s.graph) : \E x \in Contexts(s) : x \notin S /\ Depth(s, x) = d}
<1>1. Depth(s, y) \in bad
  BY ContextIs
<1>2. PICK d \in bad : \A e \in bad : d <= e
  <2>1. bad \in SUBSET (1..Len(s.graph)) /\ bad # {}
    BY <1>1
  <2> HIDE DEF bad
  <2> QED
    BY <2>1, LeastMember
<1>3. PICK x \in Contexts(s) : x \notin S /\ Depth(s, x) = d
  BY <1>2
<1>4. ASSUME NEW c \in NodesOf(s) \ Way(x) PROVE Inside(x, c) \in S
  <2> SUFFICES ASSUME Inside(x, c) \notin S PROVE FALSE
    OBVIOUS
  <2>1. Inside(x, c) \in Contexts(s) /\ Depth(s, Inside(x, c)) = d - 1
    BY <1>3, ContextIs
  <2>2. d - 1 \in 1..Len(s.graph)
    BY <2>1, ContextIs
  <2>3. d - 1 \in bad
    BY <2>1, <2>2
  <2>4. d \in 1..Len(s.graph)
    BY <1>2
  <2> HIDE DEF bad
  <2> QED
    BY <1>2, <2>3, <2>4
<1> QED
  BY <1>3, <1>4

\* What the operands of a node mean on the way to it.
Below(s, in, x) ==
    [c \in NodesOf(s) |-> IF c \in Way(x) THEN Circular(c) ELSE Meanings(s, in)[Inside(x, c)]]

\* The recursion of the meanings.
LEMMA MeaningsAre ==
    ASSUME NEW s, NEW in, Len(s.graph) \in Nat
    PROVE  \A x \in Contexts(s) : Meanings(s, in)[x] = Valued(s, x.node, in, Below(s, in, x))
<1> DEFINE D          == Contexts(s)
           body(g, x) == Valued(s, x.node, in,
                                [c \in NodesOf(s) |-> IF c \in Way(x) THEN Circular(c) ELSE g[Inside(x, c)]])
           good(g, k) == \A x \in D : Depth(s, x) <= k => g[x] = body(g, x)
           S          == {k \in Nat : \E g : g = [x \in D |-> g[x]] /\ good(g, k)}
<1>1. ASSUME NEW g, NEW h, NEW x \in D,
             \A c \in NodesOf(s) \ Way(x) : g[Inside(x, c)] = h[Inside(x, c)]
      PROVE  body(g, x) = body(h, x)
  <2>1. [c \in NodesOf(s) |-> IF c \in Way(x) THEN Circular(c) ELSE g[Inside(x, c)]]
          = [c \in NodesOf(s) |-> IF c \in Way(x) THEN Circular(c) ELSE h[Inside(x, c)]]
    BY <1>1
  <2> QED
    BY <2>1
<1>2. 0 \in S
  <2> DEFINE g == [x \in D |-> 0]
  <2>1. g = [x \in D |-> g[x]]
    OBVIOUS
  <2>2. \A x \in D : ~(Depth(s, x) <= 0)
    BY ContextIs
  <2> HIDE DEF g, body
  <2>3. good(g, 0)
    BY <2>2
  <2> HIDE DEF good
  <2> QED
    BY <2>1, <2>3
<1>3. ASSUME NEW k \in 0..Len(s.graph) - 1, k \in S PROVE k + 1 \in S
  <2>1. PICK g : g = [x \in D |-> g[x]] /\ good(g, k)
    BY <1>3
  <2> DEFINE h == [x \in D |-> IF Depth(s, x) = k + 1 THEN body(g, x) ELSE g[x]]
  <2>2. h = [x \in D |-> h[x]]
    OBVIOUS
  <2>3. ASSUME NEW x \in D, Depth(s, x) <= k + 1 PROVE h[x] = body(h, x)
    <3>1. \A c \in NodesOf(s) \ Way(x) : g[Inside(x, c)] = h[Inside(x, c)]
      <4> SUFFICES ASSUME NEW c \in NodesOf(s) \ Way(x) PROVE g[Inside(x, c)] = h[Inside(x, c)]
        OBVIOUS
      <4>1. Inside(x, c) \in D /\ Depth(s, Inside(x, c)) = Depth(s, x) - 1 /\ Depth(s, x) \in Nat
        BY ContextIs
      <4>2. Depth(s, Inside(x, c)) # k + 1
        BY <2>3, <4>1
      <4> HIDE DEF D, body
      <4> QED
        BY <4>1, <4>2
    <3>2. body(g, x) = body(h, x)
      <4> HIDE DEF h, body, D
      <4> QED
        BY <1>1, <2>3, <3>1
    <3>3. h[x] = body(g, x)
      <4>1. Depth(s, x) \in Nat
        BY ContextIs
      <4>2. Depth(s, x) # k + 1 => g[x] = body(g, x)
        BY <2>1, <2>3, <4>1
      <4> HIDE DEF D, body, good
      <4> QED
        BY <2>3, <4>2
    <3> HIDE DEF h, body
    <3> QED
      BY <3>2, <3>3
  <2>4. good(h, k + 1)
    <3> HIDE DEF h, body, D
    <3> QED
      BY <2>3
  <2> HIDE DEF h, good, D
  <2> QED
    BY <2>2, <2>4
<1>4. Len(s.graph) \in S
  <2> HIDE DEF S
  <2> QED
    BY <1>2, <1>3, Climbs
<1>5. \E g : g = [x \in D |-> body(g, x)]
  <2>1. PICK g : g = [x \in D |-> g[x]] /\ good(g, Len(s.graph))
    BY <1>4
  <2>2. \A x \in D : g[x] = body(g, x)
    <3>1. \A x \in D : Depth(s, x) <= Len(s.graph)
      BY ContextIs
    <3> HIDE DEF body, D
    <3> QED
      BY <2>1, <3>1
  <2> HIDE DEF body, D, good
  <2> QED
    BY <2>1, <2>2
<1> DEFINE f == CHOOSE g : g = [x \in D |-> body(g, x)]
<1>6. f = [x \in D |-> body(f, x)]
  <2> HIDE DEF body, D
  <2> QED
    BY <1>5
<1>7. Meanings(s, in) = f
  BY DEF Meanings
<1> HIDE DEF f
<1>8. \A x \in D : f[x] = body(f, x)
  <2> HIDE DEF body, D
  <2> QED
    BY <1>6
<1>9. \A x \in D : body(f, x) = Valued(s, x.node, in, Below(s, in, x))
  BY <1>7 DEF Below
<1> HIDE DEF body
<1> QED
  BY <1>7, <1>8, <1>9

-----------------------------------------------------------------------------
(* What a meaning is made of *)

\* A meaning that is a cycle.
Cyclic(d) == d.state = "INVALID" /\ d.error = "CYCLE"

\* A node that has no operand in a mode, and the first operand of one that has.
NoOperand(s, n, in) ==
    \/ n.kind \in LiteralKinds
    \/ n.kind = "REFERENCE" /\ s.bound[n.left] = 0
    \/ n.kind = "ADDRESS" /\ (in = "ORDINARY" \/ s.prefix[n.left] = 0)

Leading(s, n, in) ==
    CASE n.kind = "REFERENCE"           -> s.bound[n.left]
      [] n.kind = "ADDRESS"             -> s.prefix[n.left]
      [] n.kind = "SPAN" /\ in = "EXTENT" -> n.extra
      [] OTHER                          -> n.left

\* What the first operand means decides.
Decides(n, in, l) ==
    \/ n.kind \in {"REFERENCE", "ADDRESS"} \/ (n.kind = "SPAN" /\ in = "EXTENT")
    \/ l.state = "INVALID"
    \/ n.kind = "EXTENT_REPEAT" /\ l.state = "KNOWN" /\ l.value = ExtentValue(0)

\* What it decides on: the first operand itself, or what it measures.
Decided(i, n, in, l) ==
    IF n.kind = "ADDRESS" \/ (n.kind = "SPAN" /\ in = "EXTENT") THEN Measured(i, l) ELSE l

\* What a node without operands means.
Ground(s, n) ==
    CASE n.kind = "INTEGER"        -> Plain(IntegerValue(n.left))
      [] n.kind = "EXTENT_LITERAL" -> Plain(ExtentValue(n.left))
      [] n.kind = "STRING"         -> Plain(StringValue(s.strings[n.extra]))
      [] n.kind = "REFERENCE"      -> Unknown(FALSE)
      [] n.kind = "ADDRESS"        -> IF s.placed[n.left] = Unplaced THEN Unknown(TRUE)
                                      ELSE Meaning("KNOWN", IntegerValue(s.placed[n.left]), "NONE", 0, TRUE)

\* The second operand, if there is one.
Partner(n, below) == IF n.kind \in PairKinds THEN below[n.right] ELSE Plain(NoValue)

\* The cases of the definition, by what is looked at.
LEMMA ValuedIs ==
    ASSUME NEW s, NEW i, NEW in \in Modes, NEW f
    PROVE  LET n == s.graph[i]
               l == f[Leading(s, n, in)]
           IN  Valued(s, i, in, f) =
                 IF NoOperand(s, n, in) THEN Ground(s, n)
                 ELSE IF Decides(n, in, l) THEN Decided(i, n, in, l)
                 ELSE Combined(s, i, l, Partner(n, f))
<1> DEFINE n == s.graph[i]
           l == f[Leading(s, n, in)]
           v == Valued(s, i, in, f)
<1>1. CASE n.kind = "INTEGER"
  BY <1>1 DEF Valued, NoOperand, Ground, LiteralKinds
<1>2. CASE n.kind = "EXTENT_LITERAL"
  BY <1>2 DEF Valued, NoOperand, Ground, LiteralKinds
<1>3. CASE n.kind = "STRING"
  BY <1>3 DEF Valued, NoOperand, Ground, LiteralKinds
<1>4. CASE n.kind = "REFERENCE"
  BY <1>4 DEF Valued, NoOperand, Ground, LiteralKinds, Decides, Decided, Leading
<1>5. CASE n.kind = "ADDRESS"
  BY <1>5 DEF Valued, NoOperand, Ground, LiteralKinds, Decides, Decided, Leading, Modes
<1>6. CASE n.kind = "SPAN" /\ in = "EXTENT"
  BY <1>6 DEF Valued, NoOperand, LiteralKinds, Decides, Decided, Leading
<1>7. CASE n.kind \notin {"INTEGER", "EXTENT_LITERAL", "STRING", "REFERENCE", "ADDRESS"}
           /\ ~(n.kind = "SPAN" /\ in = "EXTENT")
  <2>1. ~NoOperand(s, n, in) /\ l = f[n.left] /\ Decided(i, n, in, l) = l
    BY <1>7 DEF NoOperand, LiteralKinds, Leading, Decided
  <2>2. v = IF \/ l.state = "INVALID"
               \/ n.kind = "EXTENT_REPEAT" /\ l.state = "KNOWN" /\ l.value = ExtentValue(0)
            THEN l ELSE Combined(s, i, l, Partner(n, f))
    BY <1>7, <2>1 DEF Valued, Partner
  <2>3. Decides(n, in, l) <=> \/ l.state = "INVALID"
                              \/ n.kind = "EXTENT_REPEAT" /\ l.state = "KNOWN" /\ l.value = ExtentValue(0)
    BY <1>7 DEF Decides
  <2> HIDE DEF l, v, n
  <2> QED
    BY <2>1, <2>2, <2>3 DEF v, l, n
<1> QED
  BY <1>1, <1>2, <1>3, <1>4, <1>5, <1>6, <1>7

\* A cycle below is a cycle: what is looked at has none unless the node has one.
LEMMA NoCycleBelow ==
    ASSUME NEW s, NEW i, NEW in \in Modes, NEW f, ~Cyclic(Valued(s, i, in, f)),
           ~NoOperand(s, s.graph[i], in)
    PROVE  /\ ~Cyclic(f[Leading(s, s.graph[i], in)])
           /\ ~Decides(s.graph[i], in, f[Leading(s, s.graph[i], in)]) /\ s.graph[i].kind \in PairKinds
                 => ~Cyclic(f[s.graph[i].right])
<1> DEFINE n == s.graph[i]
           l == f[Leading(s, n, in)]
           r == f[n.right]
<1>1. Valued(s, i, in, f) =
        IF Decides(n, in, l) THEN Decided(i, n, in, l) ELSE Combined(s, i, l, Partner(n, f))
  BY ValuedIs
<1> HIDE DEF l
<1>2. Cyclic(l) => Decides(n, in, l) /\ Cyclic(Decided(i, n, in, l))
  <2>1. Cyclic(l) => Decides(n, in, l)
    BY DEF Cyclic, Decides
  <2>2. Cyclic(l) => Cyclic(Measured(i, l))
    BY DEF Cyclic, Measured, Meaning
  <2> QED
    BY <2>1, <2>2 DEF Decided
<1>3. ~Decides(n, in, l) /\ n.kind \in PairKinds /\ Cyclic(r) => Cyclic(Combined(s, i, l, Partner(n, f)))
  BY DEF Cyclic, Combined, Partner
<1> QED
  BY <1>1, <1>2, <1>3 DEF l

\* What a node means depends on what is looked at.
LEMMA ValuedSame ==
    ASSUME NEW s, NEW i, NEW in \in Modes, NEW f, NEW g,
           ~NoOperand(s, s.graph[i], in) => g[Leading(s, s.graph[i], in)] = f[Leading(s, s.graph[i], in)],
           /\ ~NoOperand(s, s.graph[i], in)
           /\ ~Decides(s.graph[i], in, f[Leading(s, s.graph[i], in)]) /\ s.graph[i].kind \in PairKinds
           => g[s.graph[i].right] = f[s.graph[i].right]
    PROVE  Valued(s, i, in, g) = Valued(s, i, in, f)
<1>1. PICK n : n = s.graph[i]
  OBVIOUS
<1>2. PICK l : l = f[Leading(s, n, in)]
  OBVIOUS
<1>3. PICK k : k = g[Leading(s, n, in)]
  OBVIOUS
<1>4. Valued(s, i, in, f) =
        IF NoOperand(s, n, in) THEN Ground(s, n)
        ELSE IF Decides(n, in, l) THEN Decided(i, n, in, l) ELSE Combined(s, i, l, Partner(n, f))
  BY <1>1, <1>2, ValuedIs
<1>5. Valued(s, i, in, g) =
        IF NoOperand(s, n, in) THEN Ground(s, n)
        ELSE IF Decides(n, in, k) THEN Decided(i, n, in, k) ELSE Combined(s, i, k, Partner(n, g))
  BY <1>1, <1>3, ValuedIs
<1>6. ~NoOperand(s, n, in) => k = l
  BY <1>1, <1>2, <1>3
<1>7. ~NoOperand(s, n, in) /\ ~Decides(n, in, l) => Partner(n, g) = Partner(n, f)
  BY <1>1, <1>2 DEF Partner
<1> QED
  BY <1>4, <1>5, <1>6, <1>7

\* Operands that are looked at are nodes.
Closed(s) ==
    /\ Len(s.graph) \in Nat
    /\ \A i \in NodesOf(s), in \in Modes :
          ~NoOperand(s, s.graph[i], in) =>
              /\ Leading(s, s.graph[i], in) \in NodesOf(s)
              /\ \A l : ~Decides(s.graph[i], in, l) /\ s.graph[i].kind \in PairKinds
                           => s.graph[i].right \in NodesOf(s)

\* An operand that is no cycle is not on the way.
LEMMA OffTheWay ==
    ASSUME NEW s, NEW in, NEW x \in Contexts(s), Len(s.graph) \in Nat,
           NEW c \in NodesOf(s), ~Cyclic(Below(s, in, x)[c])
    PROVE  /\ c \notin Way(x) /\ Inside(x, c) \in Contexts(s)
           /\ Below(s, in, x)[c] = Meanings(s, in)[Inside(x, c)]
           /\ ~Cyclic(Meanings(s, in)[Inside(x, c)])
<1>1. Below(s, in, x)[c] = IF c \in Way(x) THEN Circular(c) ELSE Meanings(s, in)[Inside(x, c)]
  BY DEF Below
<1>2. Cyclic(Circular(c))
  BY DEF Cyclic, Circular, Meaning
<1>3. c \notin Way(x)
  BY <1>1, <1>2
<1> QED
  BY <1>1, <1>3, ContextIs

\* Where no cycle is met, a shorter way makes no difference.
LEMMA ShorterWay ==
    ASSUME NEW s, NEW in \in Modes, Closed(s), NEW x \in Contexts(s), ~Cyclic(Meanings(s, in)[x]),
           NEW q \in SUBSET x.path
    PROVE  Meanings(s, in)[[node |-> x.node, path |-> q]] = Meanings(s, in)[x]
<1> DEFINE M == Meanings(s, in)
           S == {y \in Contexts(s) : ~Cyclic(M[y]) =>
                    \A p \in SUBSET y.path : M[[node |-> y.node, path |-> p]] = M[y]}
<1>0. Len(s.graph) \in Nat
  BY DEF Closed
<1>1. ASSUME NEW y \in Contexts(s), \A c \in NodesOf(s) \ Way(y) : Inside(y, c) \in S PROVE y \in S
  <2> SUFFICES ASSUME ~Cyclic(M[y]), NEW p \in SUBSET y.path
               PROVE  M[[node |-> y.node, path |-> p]] = M[y]
    OBVIOUS
  <2> DEFINE z == [node |-> y.node, path |-> p]
             f == Below(s, in, y)
             g == Below(s, in, z)
             n == s.graph[y.node]
  <2>1. y.node \in NodesOf(s) /\ y.path \in SUBSET NodesOf(s) /\ y.node \notin y.path
    BY <1>0, ContextIs
  <2>2. z \in Contexts(s) /\ z.node = y.node /\ Way(z) = p \cup {y.node} /\ Way(z) \subseteq Way(y)
    BY <2>1 DEF Contexts, Way
  <2> HIDE DEF z
  <2>3. M[y] = Valued(s, y.node, in, f) /\ M[z] = Valued(s, y.node, in, g)
    BY <1>0, <2>2, MeaningsAre
  <2>4. ASSUME NEW c \in NodesOf(s), ~Cyclic(f[c]) PROVE g[c] = f[c]
    <3>1. c \notin Way(y) /\ f[c] = M[Inside(y, c)] /\ ~Cyclic(M[Inside(y, c)]) /\ Inside(y, c) \in Contexts(s)
      BY <1>0, <2>4, OffTheWay
    <3>2. Inside(y, c).node = c /\ Inside(y, c).path = Way(y) /\ Inside(z, c) = [node |-> c, path |-> Way(z)]
      BY DEF Inside
    <3>3. M[Inside(z, c)] = M[Inside(y, c)]
      BY <1>1, <2>2, <3>1, <3>2
    <3>4. g[c] = M[Inside(z, c)]
      BY <2>2, <3>1 DEF Below
    <3> HIDE DEF f, g, M
    <3> QED
      BY <3>1, <3>3, <3>4
  <2>5. ~NoOperand(s, n, in) =>
            /\ g[Leading(s, n, in)] = f[Leading(s, n, in)]
            /\ ~Decides(n, in, f[Leading(s, n, in)]) /\ n.kind \in PairKinds => g[n.right] = f[n.right]
    <3> SUFFICES ASSUME ~NoOperand(s, n, in)
                 PROVE  /\ g[Leading(s, n, in)] = f[Leading(s, n, in)]
                        /\ ~Decides(n, in, f[Leading(s, n, in)]) /\ n.kind \in PairKinds => g[n.right] = f[n.right]
      OBVIOUS
    <3>1. /\ ~Cyclic(f[Leading(s, n, in)])
          /\ ~Decides(n, in, f[Leading(s, n, in)]) /\ n.kind \in PairKinds => ~Cyclic(f[n.right])
      <4> HIDE DEF f
      <4> QED
        BY <2>3, NoCycleBelow
    <3>2. /\ Leading(s, n, in) \in NodesOf(s)
          /\ ~Decides(n, in, f[Leading(s, n, in)]) /\ n.kind \in PairKinds => n.right \in NodesOf(s)
      <4> HIDE DEF f
      <4> QED
        BY <2>1 DEF Closed
    <3> HIDE DEF f, g
    <3> QED
      BY <2>4, <3>1, <3>2
  <2> HIDE DEF f, g
  <2>6. Valued(s, y.node, in, g) = Valued(s, y.node, in, f)
    <3> HIDE DEF M
    <3> QED
      BY <2>5, ValuedSame
  <2> QED
    BY <2>3, <2>6 DEF z
<1>2. Contexts(s) \subseteq S
  <2> HIDE DEF S
  <2> QED
    BY <1>0, <1>1, WayInduction
<1> QED
  BY <1>2

\* A longer way makes no difference either, if whatever is added to it could be reached
\* from here only by meeting a cycle.
LEMMA LongerWay ==
    ASSUME NEW s, NEW in \in Modes, Closed(s), NEW x \in Contexts(s), ~Cyclic(Meanings(s, in)[x]),
           NEW r \in SUBSET NodesOf(s), x.node \notin r,
           \A t \in r : \A q \in SUBSET NodesOf(s) :
               Way(x) \subseteq q /\ t \notin q => Cyclic(Meanings(s, in)[[node |-> t, path |-> q]])
    PROVE  Meanings(s, in)[[node |-> x.node, path |-> x.path \cup r]] = Meanings(s, in)[x]
<1> DEFINE M       == Meanings(s, in)
           Shut(y) == /\ ~Cyclic(M[y]) /\ y.node \notin r
                      /\ \A t \in r : \A q \in SUBSET NodesOf(s) :
                            Way(y) \subseteq q /\ t \notin q => Cyclic(M[[node |-> t, path |-> q]])
           S       == {y \in Contexts(s) : Shut(y) =>
                          M[[node |-> y.node, path |-> y.path \cup r]] = M[y]}
<1>0. Len(s.graph) \in Nat
  BY DEF Closed
<1>1. ASSUME NEW y \in Contexts(s), \A c \in NodesOf(s) \ Way(y) : Inside(y, c) \in S PROVE y \in S
  <2> SUFFICES ASSUME Shut(y)
               PROVE  M[[node |-> y.node, path |-> y.path \cup r]] = M[y]
    OBVIOUS
  <2> DEFINE z == [node |-> y.node, path |-> y.path \cup r]
             f == Below(s, in, y)
             g == Below(s, in, z)
             n == s.graph[y.node]
  <2>1. y.node \in NodesOf(s) /\ y.path \in SUBSET NodesOf(s) /\ y.node \notin y.path
        /\ Way(y) \in SUBSET NodesOf(s)
    BY <1>0, ContextIs
  <2>2. z \in Contexts(s) /\ z.node = y.node /\ Way(z) = Way(y) \cup r
    BY <2>1 DEF Contexts, Way
  <2> HIDE DEF z
  <2>3. M[y] = Valued(s, y.node, in, f) /\ M[z] = Valued(s, y.node, in, g)
    BY <1>0, <2>2, MeaningsAre
  <2>4. ASSUME NEW c \in NodesOf(s), ~Cyclic(f[c]) PROVE g[c] = f[c]
    <3>1. c \notin Way(y) /\ f[c] = M[Inside(y, c)] /\ ~Cyclic(M[Inside(y, c)]) /\ Inside(y, c) \in Contexts(s)
      BY <1>0, <2>4, OffTheWay
    <3>2. /\ Inside(y, c).node = c /\ Inside(y, c).path = Way(y) /\ Inside(z, c) = [node |-> c, path |-> Way(z)]
          /\ Inside(y, c) = [node |-> c, path |-> Way(y)] /\ Way(Inside(y, c)) = Way(y) \cup {c}
      BY DEF Inside, Way
    <3>3. c \notin r
      <4> SUFFICES ASSUME c \in r PROVE FALSE
        OBVIOUS
      <4>1. Cyclic(M[[node |-> c, path |-> Way(y)]])
        BY <2>1, <3>1
      <4> QED
        BY <3>1, <3>2, <4>1
    <3>4. Shut(Inside(y, c))
      <4>1. \A t \in r : \A q \in SUBSET NodesOf(s) :
               Way(Inside(y, c)) \subseteq q /\ t \notin q => Cyclic(M[[node |-> t, path |-> q]])
        BY <3>2
      <4> QED
        BY <3>1, <3>2, <3>3, <4>1
    <3>5. M[Inside(z, c)] = M[Inside(y, c)]
      BY <1>1, <2>2, <3>1, <3>2, <3>4
    <3>6. g[c] = M[Inside(z, c)]
      BY <2>2, <3>1, <3>3 DEF Below
    <3> HIDE DEF f, g, M
    <3> QED
      BY <3>1, <3>5, <3>6
  <2>5. ~NoOperand(s, n, in) =>
            /\ g[Leading(s, n, in)] = f[Leading(s, n, in)]
            /\ ~Decides(n, in, f[Leading(s, n, in)]) /\ n.kind \in PairKinds => g[n.right] = f[n.right]
    <3> SUFFICES ASSUME ~NoOperand(s, n, in)
                 PROVE  /\ g[Leading(s, n, in)] = f[Leading(s, n, in)]
                        /\ ~Decides(n, in, f[Leading(s, n, in)]) /\ n.kind \in PairKinds => g[n.right] = f[n.right]
      OBVIOUS
    <3>0. ~NoOperand(s, s.graph[y.node], in)
      OBVIOUS
    <3>1. /\ ~Cyclic(f[Leading(s, n, in)])
          /\ ~Decides(n, in, f[Leading(s, n, in)]) /\ n.kind \in PairKinds => ~Cyclic(f[n.right])
      <4>1. ~Cyclic(Valued(s, y.node, in, f))
        BY <2>3
      <4> HIDE DEF f, M, S, Shut
      <4> QED
        BY <3>0, <4>1, NoCycleBelow
    <3>2. /\ Leading(s, n, in) \in NodesOf(s)
          /\ ~Decides(n, in, f[Leading(s, n, in)]) /\ n.kind \in PairKinds => n.right \in NodesOf(s)
      <4> HIDE DEF f
      <4> QED
        BY <2>1 DEF Closed
    <3> HIDE DEF f, g
    <3> QED
      BY <2>4, <3>1, <3>2
  <2> HIDE DEF f, g
  <2>6. Valued(s, y.node, in, g) = Valued(s, y.node, in, f)
    <3> HIDE DEF M, S, Shut
    <3> QED
      BY <2>5, ValuedSame
  <2> QED
    BY <2>3, <2>6 DEF z
<1>2. Contexts(s) \subseteq S
  <2> HIDE DEF S
  <2> QED
    BY <1>0, <1>1, WayInduction
<1>3. Shut(x)
  OBVIOUS
<1> QED
  BY <1>2, <1>3

-----------------------------------------------------------------------------
(* Results stand on results *)

\* A result stands on a set if it rests on operands that are in it, each in the mode
\* it was looked at.
Stands(S, i, m) ==
    \E o \in Modes :
        /\ o = m \/ Shared(MemoValue(memos[i][m]))
        /\ Rests(i, MemoValue(memos[i][m]), o)
        /\ \A c \in Used(i, o) : <<c, o>> \in S

\* Justification comes to an end: what holds of a result as far as it holds of those
\* it stands on holds of every result.
GroundInv ==
    \A S : (\A i \in Nodes, m \in Modes : Usable(i, m) /\ Stands(S, i, m) => <<i, m>> \in S)
           => \A i \in Nodes, m \in Modes : Usable(i, m) => <<i, m>> \in S

\* What follows from operands rests on them.
LEMMA FollowingRests ==
    CoreInv => \A i \in Nodes, m \in Modes : \A v : ~IsCycle(v) /\ FollowsOperands(i, v, m) => Rests(i, v, m)
BY FollowsRests

\* Results are made one at a time on results that are there, and those that are left
\* stand on what they stood on.
LEMMA GroundKept ==
    ASSUME CoreInv, CoreInv', Steady, Grows, GroundInv
    PROVE  GroundInv'
<1> SUFFICES ASSUME NEW S,
                    \A i \in Nodes', m \in Modes : Usable(i, m)' /\ Stands(S, i, m)' => <<i, m>> \in S,
                    NEW j \in Nodes', NEW p \in Modes, Usable(j, p)'
             PROVE  <<j, p>> \in S
  BY DEF GroundInv, Modes
<1>1. \A i \in Nodes', m \in Modes : \A v : ~IsCycle(v) /\ FollowsOperands(i, v, m)' => Rests(i, v, m)'
  <2>1. (CoreInv => \A i \in Nodes, m \in Modes : \A v :
                       ~IsCycle(v) /\ FollowsOperands(i, v, m) => Rests(i, v, m))'
    BY FollowingRests, PTL
  <2> QED
    BY <2>1 DEF IsCycle, Modes
<1> DEFINE T == {t \in Nodes \X Modes : t[1] \in Nodes' /\ Usable(t[1], t[2])' => t \in S}
<1>2. ASSUME NEW i \in Nodes, NEW m \in Modes, i \in Nodes', Usable(i, m)', NEW o \in Modes, NEW v,
             v = MemoValue(memos'[i][m]), ~IsCycle(v), o = m \/ Shared(v),
             Rests(i, v, o), FollowsOperands(i, v, o)', Used(i, o)' = Used(i, o),
             \A c \in Used(i, o) : <<c, o>> \in T
      PROVE  <<i, m>> \in S
  <2>1. Rests(i, v, o)'
    BY <1>1, <1>2
  <2>2. ASSUME NEW c \in Used(i, o)' PROVE <<c, o>> \in S
    <3>1. c \in Nodes' /\ Usable(c, o)'
      BY <2>1, <2>2 DEF Rests, Usable
    <3> QED
      BY <1>2, <2>2, <3>1
  <2>3. Stands(S, i, m)'
    <3>1. Modes' = Modes /\ (Shared(v)' <=> Shared(v)) /\ MemoValue(memos[i][m])' = v
      BY <1>2 DEF Modes, Shared
    <3> QED
      BY <1>2, <2>1, <2>2, <3>1 DEF Stands
  <2> QED
    BY <1>2, <2>3
<1>3. ASSUME NEW i \in Nodes, NEW m \in Modes, Usable(i, m), Stands(T, i, m)
      PROVE  <<i, m>> \in T
  <2> SUFFICES ASSUME i \in Nodes', Usable(i, m)' PROVE <<i, m>> \in S
    OBVIOUS
  <2>1. Stays(i, m)
    BY <1>3 DEF Steady
  <2>2. PICK v : v = MemoValue(memos[i][m])
    OBVIOUS
  <2>3. PICK o \in Modes : /\ o = m \/ Shared(v)
                           /\ Rests(i, v, o)
                           /\ \A c \in Used(i, o) : <<c, o>> \in T
    BY <1>3, <2>2 DEF Stands
  <2>4. v = MemoValue(memos'[i][m]) /\ FollowsOperands(i, v, o)' /\ Used(i, o)' = Used(i, o)
    BY <2>1, <2>2, <2>3 DEF Stays
  <2>5. ~IsCycle(v)
    <3>1. memos[i][m] \in MemoType
      BY NodeFields, MemosHoldValues DEF CoreInv
    <3> QED
      BY <1>3, <2>2, <3>1, MemoFields DEF Usable
  <2> HIDE DEF T
  <2> QED
    BY <1>2, <2>3, <2>4, <2>5
<1>4. \A i \in Nodes, m \in Modes : Usable(i, m) => <<i, m>> \in T
  <2> HIDE DEF T
  <2> QED
    BY <1>3 DEF GroundInv
<1>5. CASE NoneNew
  BY <1>4, <1>5 DEF NoneNew
<1>6. ASSUME NEW i \in Nodes, NEW v, OneNew(i, v) PROVE <<j, p>> \in S
  <2>1. CASE j \in Nodes /\ Usable(j, p)
    BY <1>4, <2>1
  <2>2. CASE ~(j \in Nodes /\ Usable(j, p))
    <3>1. PICK o : o = mode /\ o = mode'
      BY <1>6 DEF OneNew
    <3>2. j \in Nodes /\ ~Usable(j, p) /\ o \in Modes
      BY <1>6, <2>2, <3>1 DEF OneNew
    <3>3. /\ j = i /\ (p = o \/ Shared(v)) /\ MemoValue(memos'[j][p]) = v /\ ~IsCycle(v)
          /\ Rests(j, v, o) /\ FollowsOperands(j, v, o)' /\ Used(j, o)' = Used(j, o)
      BY <1>6, <3>1, <3>2 DEF OneNew
    <3>4. \A c \in Used(j, o) : <<c, o>> \in T
      <4> HIDE DEF T
      <4> QED
        BY <1>4, <3>2, <3>3 DEF Rests, Usable
    <3> HIDE DEF T
    <3> QED
      BY <1>2, <3>2, <3>3, <3>4
  <2> QED
    BY <2>1, <2>2
<1> QED
  BY <1>5, <1>6 DEF Grows

\* At first nothing is current.
LEMMA InitGround == Init => GroundInv
<1> SUFFICES ASSUME Init, NEW i \in Nodes, NEW m \in Modes, Usable(i, m) PROVE FALSE
  BY DEF GroundInv
<1>1. i \in NodeRange
  BY InitInv, NodeFields DEF ValueInv, CoreInv
<1>2. memos[i][m] = NoMemo
  BY <1>1 DEF Init, Missing
<1> QED
  BY <1>2 DEF Usable, Current, NoMemo

-----------------------------------------------------------------------------
(* One turn of the loop *)

\* The operand that the frame on top turns to, and the phase it is in from then on.
Looking(c, phase) ==
    \/ phase = 1 /\ Top.phase = 0 /\ ~IsLeaf(Here, mode) /\ c = First(Here, mode)
    \/ phase = 2 /\ Top.phase = 1 /\ ~Passes(Top.id, mode) /\ Here.kind \in PairKinds /\ c = Here.right

\* A concatenation gets its buffer.
Joins(i, v) == ~IsLeaf(graph[i], mode) /\ ~Passes(i, mode) /\ NewJoin(i, v)

\* The frame on top is done with what its node makes of its operands.
Making(i, v) ==
    /\ v = Made(i, mode) /\ \A c \in Used(i, mode) : Current(c, mode)
    /\ Top.phase = 0 <=> IsLeaf(graph[i], mode)
    /\ Top.phase = 2 => ~IsLeaf(graph[i], mode) /\ graph[i].kind \in PairKinds
    /\ Top.phase # 2 => IsLeaf(graph[i], mode) \/ Passes(i, mode) \/ graph[i].kind \notin PairKinds
    /\ IF Joins(i, v)
       THEN /\ strings' = Append(strings, Joined(FirstValue(i, mode), SecondValue(i, mode)))
            /\ graph' = [graph EXCEPT ![i].joined = TRUE, ![i].extra = Len(strings) + 1]
       ELSE NoNewString

\* A turn of the loop leaves a current node, makes a value, or turns to an operand.
LEMMA Turns ==
    ASSUME RunInv, Step, ~Answer
    PROVE  /\ query # 0 /\ stack # <<>> /\ Still
           /\ \/ Current(Top.id, mode) /\ stack' = Popped /\ NoNewString /\ memos' = memos
              \/ ~Current(Top.id, mode) /\ \E v : Finish(v) /\ Making(Top.id, v)
              \/ ~Current(Top.id, mode) /\ \E c, phase : Looking(c, phase) /\ GoTo(c, phase)
<1>1. /\ CoreInv /\ GraphInv /\ StringInv /\ MemoInv /\ FrameInv /\ mode \in Modes
  BY DEF RunInv, CoreInv, FrameInv
<1>2. CASE AlreadyCurrent
  BY <1>2 DEF AlreadyCurrent, Working
<1>3. CASE Leaf
  <2>1. PICK i : i = Top.id
    OBVIOUS
  <2>2. i \in Nodes
    BY <1>1, <1>3, <2>1, TopFrame DEF Leaf, Computing, Working
  <2>3. PICK v : v = LeafValue(graph[i])
    OBVIOUS
  <2>4. /\ query # 0 /\ stack # <<>> /\ Still /\ ~Current(i, mode) /\ Top.phase = 0
        /\ IsLeaf(graph[i], mode) /\ Finish(v) /\ NoNewString
    BY <1>3, <2>1, <2>3 DEF Leaf, Computing, Working, Here
  <2>5. v = Made(i, mode) /\ \A c \in Used(i, mode) : Current(c, mode)
    BY <2>3, <2>4 DEF Made, Used
  <2> QED
    BY <2>1, <2>4, <2>5 DEF Making, Joins
<1>4. CASE FirstDone
  <2>1. PICK i : i = Top.id
    OBVIOUS
  <2>2. /\ query # 0 /\ stack # <<>> /\ Still /\ ~Current(i, mode) /\ Top.phase # 0 /\ NoNewString
    BY <1>4, <2>1 DEF FirstDone, Computing, Working
  <2>3. Passes(i, mode)
    BY <1>4, <2>1 DEF FirstDone, Passes, FirstValue, MemoHere, Here
  <2>4. PICK v : v = PassedOn(i, FirstValue(i, mode), mode)
    OBVIOUS
  <2>5. Finish(v)
    BY <1>4, <2>1, <2>4 DEF FirstDone, FirstValue, MemoHere, Here
  <2>6. /\ ~IsLeaf(graph[i], mode) /\ Current(First(graph[i], mode), mode)
        /\ Top.phase = 2 => graph[i].kind \in PairKinds
    BY <1>1, <2>1, <2>2, OperandsReady DEF Here
  <2>7. v = Made(i, mode) /\ \A c \in Used(i, mode) : Current(c, mode)
    BY <2>3, <2>4, <2>6 DEF Made, Used
  <2>8. Making(i, v)
    BY <2>2, <2>3, <2>6, <2>7 DEF Making, Joins
  <2> QED
    BY <2>1, <2>2, <2>5, <2>8
<1>5. CASE Descend
  BY <1>5 DEF Descend, Computing, Working, Looking, GoTo
<1>6. CASE Second
  <2>1. ~Passes(Top.id, mode)
    BY <1>6 DEF Second, Passes, FirstValue, MemoHere, Here
  <2> QED
    BY <1>6, <2>1 DEF Second, Computing, Working, Looking, GoTo
<1>7. CASE Combine
  <2>1. PICK i : i = Top.id
    OBVIOUS
  <2>2. /\ query # 0 /\ stack # <<>> /\ Still /\ ~Current(i, mode)
        /\ Top.phase = (IF graph[i].kind \in PairKinds THEN 2 ELSE 1)
    BY <1>7, <2>1 DEF Combine, Computing, Working, Here
  <2>3. PICK l : l = FirstValue(i, mode)
    OBVIOUS
  <2>4. PICK r : r = SecondValue(i, mode)
    OBVIOUS
  <2>5. PICK v : v = Operation(i, l, r)
    OBVIOUS
  <2>6. ~PassesOn(graph[i], l, mode) /\ Finish(v)
        /\ IF NewJoin(i, v)
           THEN /\ strings' = Append(strings, Joined(l, r))
                /\ graph' = [graph EXCEPT ![i].joined = TRUE, ![i].extra = Len(strings) + 1]
           ELSE NoNewString
    <3>1. l = MemoHere(First(Here, mode))
      BY <2>1, <2>3 DEF FirstValue, MemoHere, Here
    <3>2. r = (IF Here.kind \in PairKinds THEN MemoHere(Here.right) ELSE Known("INTEGER", 0))
      BY <2>1, <2>4 DEF SecondValue, MemoHere, Here
    <3> QED
      BY <1>7, <2>1, <2>5, <3>1, <3>2 DEF Combine, Joined, Here
  <2>7. /\ ~IsLeaf(graph[i], mode) /\ Current(First(graph[i], mode), mode)
        /\ Top.phase = 2 => Current(graph[i].right, mode)
    BY <1>1, <2>1, <2>2, OperandsReady DEF Here
  <2>8. ~Passes(i, mode)
    BY <2>3, <2>6 DEF Passes
  <2>9. v = Made(i, mode) /\ \A c \in Used(i, mode) : Current(c, mode)
    BY <2>2, <2>3, <2>4, <2>5, <2>7, <2>8 DEF Made, Used
  <2>10. Making(i, v)
    <3>1. Joins(i, v) <=> NewJoin(i, v)
      BY <2>7, <2>8 DEF Joins
    <3>2. IF Joins(i, v)
          THEN /\ strings' = Append(strings, Joined(FirstValue(i, mode), SecondValue(i, mode)))
               /\ graph' = [graph EXCEPT ![i].joined = TRUE, ![i].extra = Len(strings) + 1]
          ELSE NoNewString
      BY <2>3, <2>4, <2>6, <3>1
    <3>3. Top.phase # 0 /\ (Top.phase = 2 <=> graph[i].kind \in PairKinds)
      BY <2>2
    <3> QED
      BY <2>7, <2>9, <3>2, <3>3 DEF Making
  <2> QED
    BY <2>1, <2>2, <2>6, <2>10
<1> QED
  BY <1>2, <1>3, <1>4, <1>5, <1>6, <1>7 DEF Step

-----------------------------------------------------------------------------
(* Constants, and the buffers of concatenations *)

\* A result that depends on nothing that can change.
Constant(m) == m.flags = {"CACHED"} /\ ~IsCycle(m)

\* Results that depend on nothing stay.
SameConstants ==
    \A i \in Nodes, m \in Modes : Constant(memos[i][m]) =>
        Constant(memos'[i][m]) /\ MemoValue(memos'[i][m]) = MemoValue(memos[i][m])

\* No version outdates a constant, and no placement does.
LEMMA ConstantEntries ==
    ASSUME NEW field, NEW heads, NEW i \in NodeRange, NEW m \in Modes, Constant(memos[i][m])
    PROVE  /\ Advance(field, memos) \/ Advance(field, Invalidated(heads)) => memos'[i][m] = memos[i][m]
           /\ Invalidated(heads)[i][m] = memos[i][m]
           /\ "LAYOUT" \notin memos[i][m].flags
<1>1. /\ Invalidated(heads)[i][m] = memos[i][m] /\ "LAYOUT" \notin memos[i][m].flags
  BY DEF Invalidated, LayoutCached, Constant
<1>2. ASSUME NEW table, table[i][m] = memos[i][m] PROVE WithoutOutdated(table)[i][m] = memos[i][m]
  BY <1>2 DEF WithoutOutdated, Outdated, Constant
<1>3. ASSUME NEW table, table[i][m] = memos[i][m], Advance(field, table)
      PROVE  memos'[i][m] = memos[i][m]
  BY <1>2, <1>3 DEF Advance
<1> QED
  BY <1>1, <1>3

\* Constants remain, whatever changes and whatever is evaluated.
LEMMA ConstantsKept ==
    ASSUME RunInv, RunInv', Steady,
           Change \/ Step \/ \E i \in Nodes, m \in Modes : Request(i, m)
    PROVE  SameConstants
<1>1. /\ CoreInv /\ GraphInv /\ StringInv /\ MemoInv /\ FrameInv /\ mode \in Modes
  BY DEF RunInv, CoreInv, FrameInv
<1> SUFFICES ASSUME NEW i \in Nodes, NEW m \in Modes, Constant(memos[i][m])
             PROVE  Constant(memos'[i][m]) /\ MemoValue(memos'[i][m]) = MemoValue(memos[i][m])
  BY DEF SameConstants
<1>2. i \in NodeRange
  BY <1>1, NodeFields
<1>3. CASE Change
  <2> SUFFICES memos'[i][m] = memos[i][m]
    OBVIOUS
  <2>1. ASSUME NEW d \in Definitions, Rebind(d) PROVE memos'[i][m] = memos[i][m]
    BY <2>1 DEF Rebind
  <2>2. ASSUME NEW d \in Definitions, NEW e \in Nodes, Bind(d, e) PROVE memos'[i][m] = memos[i][m]
    BY <1>2, <2>2, ConstantEntries DEF Bind
  <2>3. ASSUME NEW a \in Anchors, NEW where, Place(a, where) PROVE memos'[i][m] = memos[i][m]
    BY <1>2, <2>3, ConstantEntries DEF Place
  <2>4. ASSUME NEW a \in Anchors, NEW e \in Nodes, SetPrefix(a, e) PROVE memos'[i][m] = memos[i][m]
    BY <1>2, <2>4, ConstantEntries DEF SetPrefix
  <2>5. ASSUME NEW n \in unit.late, AppendNode(n) PROVE memos'[i][m] = memos[i][m]
    BY <2>5 DEF AppendNode
  <2>6. ASSUME NEW which, LowerSpans(which) PROVE memos'[i][m] = memos[i][m]
    BY <1>2, <2>6, ConstantEntries DEF LowerSpans
  <2> QED
    BY <1>3, <2>1, <2>2, <2>3, <2>4, <2>5, <2>6 DEF Change
<1>4. ASSUME NEW j \in Nodes, NEW o \in Modes, Request(j, o) PROVE memos'[i][m] = memos[i][m]
  BY <1>2, <1>4, ConstantEntries DEF Request
<1>5. CASE Answer
  BY <1>5 DEF Answer
<1>6. ASSUME NEW v, Finish(v), Still, stack # <<>>, ~Current(Top.id, mode)
      PROVE  Constant(memos'[i][m]) /\ MemoValue(memos'[i][m]) = MemoValue(memos[i][m])
  <2>1. memos \in MemoTable
    BY <1>1 DEF MemoInv, MemoTable
  <2>2. CASE memos'[i][m] = memos[i][m]
    BY <2>2
  <2>3. CASE memos'[i][m] # memos[i][m]
    <3>1. i = Top.id /\ (m = mode \/ Shared(v)) /\ memos'[i][m] = MemoOf(v)
      BY <1>2, <1>6, <2>1, <2>3 DEF Finish, MemoTable
    <3>2. Current(i, m) /\ Usable(i, m)
      BY DEF Constant, Current, Usable
    <3>3. Shared(v)
      BY <1>6, <3>1, <3>2
    <3>4. Constant(memos'[i][m])
      BY <3>1, <3>3 DEF Constant, MemoOf, Shared, IsCycle
    <3>5. Usable(i, m)'
      BY <3>4 DEF Constant, Current, Usable
    <3> QED
      BY <3>2, <3>4, <3>5 DEF Steady, Stays
  <2> QED
    BY <2>2, <2>3
<1>7. CASE Step /\ ~Answer
  <2>1. /\ stack # <<>> /\ Still
        /\ \/ memos' = memos
           \/ ~Current(Top.id, mode) /\ \E v : Finish(v)
           \/ ~Current(Top.id, mode) /\ \E c, phase : GoTo(c, phase)
    BY <1>7, Turns
  <2>2. ASSUME NEW c, NEW phase, GoTo(c, phase) PROVE memos' = memos \/ \E v : Finish(v)
    BY <2>2 DEF GoTo
  <2>3. memos' = memos \/ (~Current(Top.id, mode) /\ \E v : Finish(v))
    BY <2>1, <2>2
  <2> QED
    BY <1>6, <2>1, <2>3
<1> QED
  BY <1>3, <1>4, <1>5, <1>7

\* The buffer of a concatenation holds the bytes of its operands, which are constants in
\* the mode it was made in.
HoldsJoin(i, o) ==
    LET n == graph[i]
        l == MemoValue(memos[n.left][o])
        r == MemoValue(memos[n.right][o])
    IN  /\ Constant(memos[n.left][o]) /\ Constant(memos[n.right][o])
        /\ l.state = "KNOWN" /\ r.state = "KNOWN"
        /\ strings[n.extra] = Joined(l, r) /\ Len(strings[n.extra]) <= StringMax

\* Every buffer holds what it was made of.
JoinInv == \A i \in Nodes : graph[i].joined => \E o \in Modes : HoldsJoin(i, o)

\* A concatenation that has its buffer is a binary node.
LEMMA JoinedOperands ==
    ASSUME GraphInv, StringInv, NEW i \in Nodes, graph[i].joined
    PROVE  /\ graph[i].kind = "BINARY" /\ graph[i].op = "ADD"
           /\ graph[i].left \in Nodes /\ graph[i].right \in Nodes
           /\ graph[i].extra \in 1..Len(strings)
<1>1. graph[i].kind = "BINARY" /\ graph[i].op = "ADD" /\ Operands(graph[i], bound, prefix) \subseteq Nodes
  BY NodeFields DEF Built
<1>2. Operands(graph[i], bound, prefix) = {graph[i].left, graph[i].right}
  BY <1>1 DEF Operands, LiteralKinds, PairKinds
<1> QED
  BY <1>1, <1>2 DEF StringInv, Owners

\* The bytes of a value stay what they are when there are more buffers.
LEMMA ValueOfStays ==
    ASSUME NEW v, IsValue(v), v.state = "KNOWN", Extends(strings', strings)
    PROVE  ValueOf(v)' = ValueOf(v)
BY DEF ValueOf, IsValue, Extends

\* A buffer that was made stays what it was.
LEMMA JoinStays ==
    ASSUME GraphInv, StringInv, MemoInv, SameConstants, NEW i \in Nodes, graph[i].joined,
           NEW o \in Modes, HoldsJoin(i, o), graph'[i] = graph[i], Extends(strings', strings)
    PROVE  HoldsJoin(i, o)'
<1>1. PICK a \in Nodes : a = graph[i].left
  BY JoinedOperands
<1>2. PICK b \in Nodes : b = graph[i].right
  BY JoinedOperands
<1>3. PICK x \in 1..Len(strings) : x = graph[i].extra
  BY JoinedOperands
<1>4. PICK l : l = MemoValue(memos[a][o])
  OBVIOUS
<1>5. PICK r : r = MemoValue(memos[b][o])
  OBVIOUS
<1>6. /\ Constant(memos[a][o]) /\ Constant(memos[b][o]) /\ l.state = "KNOWN" /\ r.state = "KNOWN"
      /\ strings[x] = Joined(l, r) /\ Len(strings[x]) <= StringMax
  BY <1>1, <1>2, <1>3, <1>4, <1>5 DEF HoldsJoin
<1>7. IsValue(l) /\ IsValue(r)
  BY <1>4, <1>5, NodeFields, MemosHoldValues
<1>8. /\ Constant(memos'[a][o]) /\ MemoValue(memos'[a][o]) = l
      /\ Constant(memos'[b][o]) /\ MemoValue(memos'[b][o]) = r
  BY <1>4, <1>5, <1>6 DEF SameConstants
<1>9. ValueOf(l)' = ValueOf(l) /\ ValueOf(r)' = ValueOf(r)
  BY <1>6, <1>7, ValueOfStays
<1>10. strings'[x] = strings[x] /\ Joined(l, r)' = Joined(l, r)
  BY <1>9 DEF Joined, Extends
<1>11. graph'[i].left = a /\ graph'[i].right = b /\ graph'[i].extra = x
  BY <1>1, <1>2, <1>3
<1>12. /\ Constant(memos[graph[i].left][o])' /\ MemoValue(memos[graph[i].left][o])' = l
       /\ Constant(memos[graph[i].right][o])' /\ MemoValue(memos[graph[i].right][o])' = r
  BY <1>8, <1>11 DEF Constant, IsCycle
<1>13. strings'[graph'[i].extra] = Joined(l, r)' /\ Len(strings'[graph'[i].extra]) <= StringMax
  BY <1>6, <1>10, <1>11
<1> QED
  BY <1>6, <1>12, <1>13 DEF HoldsJoin

\* What a step does to the concatenations, evaluation apart.
LEMMA ChangeJoins ==
    ASSUME GraphInv, GraphInv', Change
    PROVE  /\ strings' = strings
           /\ \A i \in Nodes : graph[i].joined => graph'[i] = graph[i]
           /\ \A i \in Nodes' : graph'[i].joined => i \in Nodes /\ graph[i].joined
<1> DEFINE goal == /\ strings' = strings
                   /\ \A i \in Nodes : graph[i].joined => graph'[i] = graph[i]
                   /\ \A i \in Nodes' : graph'[i].joined => i \in Nodes /\ graph[i].joined
<1>1. ASSUME strings' = strings, graph' = graph PROVE goal
  BY <1>1 DEF Nodes
<1>2. ASSUME NEW d \in Definitions, Rebind(d) PROVE goal
  BY <1>1, <1>2 DEF Rebind, structure
<1>3. ASSUME NEW d \in Definitions, NEW e \in Nodes, Bind(d, e) PROVE goal
  BY <1>1, <1>3 DEF Bind
<1>4. ASSUME NEW a \in Anchors, NEW where, Place(a, where) PROVE goal
  BY <1>1, <1>4 DEF Place, structure
<1>5. ASSUME NEW a \in Anchors, NEW e \in Nodes, SetPrefix(a, e) PROVE goal
  BY <1>1, <1>5 DEF SetPrefix
<1>6. ASSUME NEW n \in unit.late, AppendNode(n) PROVE goal
  <2>1. ~n.joined /\ n \in NodeType
    BY BuilderAssumption DEF GraphInv, Buildable
  <2>2. graph' = Append(graph, n) /\ strings' = strings /\ graph \in Seq(NodeType)
    BY <1>6 DEF AppendNode, GraphInv
  <2>3. /\ Len(graph') = Len(graph) + 1 /\ Len(graph) \in Nat
        /\ \A i \in 1..Len(graph) : graph'[i] = graph[i]
        /\ graph'[Len(graph) + 1] = n
    BY <2>1, <2>2, AppendProperties
  <2> QED
    BY <2>1, <2>2, <2>3 DEF Nodes
<1>7. ASSUME NEW which, LowerSpans(which) PROVE goal
  <2>1. /\ strings' = strings
        /\ graph' = [i \in Nodes |->
                       IF i \in Differences /\ which[i] # 0
                       THEN [graph[i] EXCEPT !.kind = "SPAN", !.extra = which[i]] ELSE graph[i]]
    BY <1>7 DEF LowerSpans
  <2>2. Nodes' = Nodes
    <3>1. DOMAIN graph' = Nodes
      BY <2>1
    <3>2. DOMAIN graph' = Nodes'
      BY DEF GraphInv, Nodes
    <3> QED
      BY <3>1, <3>2
  <2>3. ASSUME NEW i \in Nodes
        PROVE  (graph'[i].joined <=> graph[i].joined) /\ (graph[i].joined => graph'[i] = graph[i])
    <3>1. graph[i] \in NodeType /\ (graph[i].joined => graph[i].op = "ADD")
      BY NodeFields DEF Built
    <3>2. i \in Differences => graph[i].op = "SUBTRACT"
      BY DEF Differences
    <3>3. [graph[i] EXCEPT !.kind = "SPAN", !.extra = which[i]].joined = graph[i].joined
      BY <3>1 DEF NodeType
    <3> QED
      BY <2>1, <3>1, <3>2, <3>3
  <2> QED
    BY <2>1, <2>2, <2>3
<1> QED
  BY <1>2, <1>3, <1>4, <1>5, <1>6, <1>7 DEF Change

\* Nothing is taken from the buffers.
LEMMA SameStrings == ASSUME StringInv, strings' = strings PROVE Extends(strings', strings)
<1>1. strings \in Seq(Buffer)
  BY DEF StringInv
<1>2. Len(strings) \in Nat /\ Cardinality(BytesIn(strings)) \in Nat
  BY <1>1, BytesFinite
<1> QED
  BY <1>1, <1>2 DEF Extends

\* A turn of the loop gives at most the frame on top a buffer, with what it is to hold.
LEMMA TurnJoins ==
    ASSUME RunInv, Step
    PROVE  /\ Nodes' = Nodes /\ Extends(strings', strings)
           /\ \A i \in Nodes : graph[i].joined => graph'[i] = graph[i]
           /\ \A i \in Nodes : Alike(graph'[i], graph[i])
           /\ \/ graph' = graph
              \/ /\ stack # <<>> /\ ~graph[Top.id].joined /\ ~Current(Top.id, mode) /\ mode' = mode
                 /\ \E v : Finish(v) /\ Making(Top.id, v) /\ Joins(Top.id, v)
                           /\ v = Operation(Top.id, FirstValue(Top.id, mode), SecondValue(Top.id, mode))
                           /\ v.state = "KNOWN" /\ v.kind = "STRING"
<1>1. /\ CoreInv /\ GraphInv /\ SpanInv /\ StringInv /\ MemoInv /\ FrameInv /\ mode \in Modes
  BY DEF RunInv, CoreInv, FrameInv
<1>2. ASSUME strings' = strings, graph' = graph
      PROVE  /\ Nodes' = Nodes /\ Extends(strings', strings)
             /\ \A i \in Nodes : graph[i].joined => graph'[i] = graph[i]
             /\ \A i \in Nodes : Alike(graph'[i], graph[i])
  BY <1>1, <1>2, SameStrings DEF Nodes, Alike
<1>3. CASE Answer
  BY <1>2, <1>3 DEF Answer, structure
<1>4. CASE ~Answer
  <2>1. /\ stack # <<>> /\ Still
        /\ \/ NoNewString
           \/ ~Current(Top.id, mode) /\ \E v : Finish(v) /\ Making(Top.id, v)
           \/ \E c, phase : GoTo(c, phase)
    BY <1>4, Turns
  <2>2. CASE NoNewString
    BY <1>2, <2>2 DEF NoNewString
  <2>3. CASE \E c, phase : GoTo(c, phase)
    BY <1>2, <2>3 DEF GoTo, NoNewString
  <2>4. ASSUME ~Current(Top.id, mode), NEW v, Finish(v), Making(Top.id, v)
        PROVE  /\ Nodes' = Nodes /\ Extends(strings', strings)
               /\ \A i \in Nodes : graph[i].joined => graph'[i] = graph[i]
               /\ \A i \in Nodes : Alike(graph'[i], graph[i])
               /\ \/ graph' = graph
                  \/ /\ ~graph[Top.id].joined
                     /\ Joins(Top.id, v)
                     /\ v = Operation(Top.id, FirstValue(Top.id, mode), SecondValue(Top.id, mode))
                     /\ v.state = "KNOWN" /\ v.kind = "STRING"
    <3>1. PICK i \in Nodes : i = Top.id
      BY <1>1, <2>1, TopFrame
    <3>2. CASE ~Joins(i, v)
      BY <1>2, <2>4, <3>1, <3>2 DEF Making, NoNewString
    <3>3. CASE Joins(i, v)
      <4>1. PICK l : l = FirstValue(i, mode)
        OBVIOUS
      <4>2. PICK r : r = SecondValue(i, mode)
        OBVIOUS
      <4>3. /\ v.state = "KNOWN" /\ v.kind = "STRING" /\ ~graph[i].joined
            /\ v = Made(i, mode) /\ v = Operation(i, l, r)
            /\ ~IsLeaf(graph[i], mode) /\ ~Passes(i, mode)
        BY <2>4, <3>1, <3>3, <4>1, <4>2 DEF Making, Joins, NewJoin, Made
      <4>4. StringResult(i, l, r, v.num)
        BY <1>1, <4>1, <4>2, <4>3, MadeType
      <4>5. PICK text : text = Joined(l, r)
        OBVIOUS
      <4>6. /\ strings' = Append(strings, text)
            /\ graph' = [graph EXCEPT ![i].joined = TRUE, ![i].extra = Len(strings) + 1]
        BY <2>4, <3>1, <3>3, <4>1, <4>2, <4>5 DEF Making
      <4>7. text \in Buffer /\ ~(Len(text) > LiveMax - LiveBytes) /\ graph[i].kind = "BINARY" /\ graph[i].op = "ADD"
        BY <4>3, <4>4, <4>5 DEF StringResult
      <4>8. /\ unit' = unit /\ bound' = bound /\ prefix' = prefix /\ parents' = parents
            /\ references' = references /\ users' = users /\ placed' = placed
        BY <2>1 DEF Still
      <4>9. /\ Nodes' = Nodes /\ \A j \in Nodes : Alike(graph'[j], graph[j]) /\ (j # i => graph'[j] = graph[j])
            /\ Extends(strings', strings)
        BY <1>1, <4>3, <4>6, <4>7, <4>8, JoinGraph
      <4> QED
        BY <3>1, <3>3, <4>1, <4>2, <4>3, <4>9
    <3> QED
      BY <3>1, <3>2, <3>3
  <2>5. mode' = mode
    BY <2>1 DEF Still
  <2> QED
    BY <2>1, <2>2, <2>3, <2>4, <2>5
<1> QED
  BY <1>3, <1>4

\* The operands of a concatenation that gets a buffer are constants that fit together.
LEMMA JoinMade ==
    ASSUME RunInv, NEW i \in Nodes, ~IsLeaf(graph[i], mode), ~Passes(i, mode), ~graph[i].joined,
           \A c \in Used(i, mode) : Current(c, mode), NEW l, NEW r, NEW v,
           l = FirstValue(i, mode), r = SecondValue(i, mode),
           v = Operation(i, l, r), v.state = "KNOWN", v.kind = "STRING"
    PROVE  /\ graph[i].kind = "BINARY" /\ graph[i].op = "ADD" /\ graph[i].left \in Nodes /\ graph[i].right \in Nodes
           /\ l = MemoValue(memos[graph[i].left][mode]) /\ r = MemoValue(memos[graph[i].right][mode])
           /\ Constant(memos[graph[i].left][mode]) /\ Constant(memos[graph[i].right][mode])
           /\ IsValue(l) /\ IsValue(r) /\ l.state = "KNOWN" /\ r.state = "KNOWN"
           /\ Joined(l, r) \in Buffer /\ Len(Joined(l, r)) <= StringMax
           /\ ~(Len(Joined(l, r)) > LiveMax - LiveBytes)
<1>1. /\ GraphInv /\ StringInv /\ MemoInv /\ FrameInv /\ mode \in Modes
  BY DEF RunInv, CoreInv, FrameInv
<1>2. /\ graph[i].kind \in OperationKinds /\ IsValue(l) /\ IsValue(r) /\ l.state # "INVALID"
  BY <1>1, MadeType
<1>3. Ready(l, r) /\ StringResult(i, l, r, v.num)
  BY <1>1, <1>2, OperationType
<1>4. graph[i].kind = "BINARY" /\ graph[i].op = "ADD" /\ ~(Len(Joined(l, r)) > LiveMax - LiveBytes)
      /\ l.flags = {} /\ r.flags = {} /\ Joined(l, r) \in Buffer
  BY <1>3 DEF StringResult
<1>5. /\ First(graph[i], mode) = graph[i].left /\ graph[i].left \in Nodes /\ graph[i].right \in Nodes
      /\ Used(i, mode) = {graph[i].left, graph[i].right}
  BY <1>1, <1>4, FirstOperand DEF PairKinds, Redirected, Used
<1>6. PICK a \in Nodes : a = graph[i].left
  BY <1>5
<1>7. PICK b \in Nodes : b = graph[i].right
  BY <1>5
<1>8. l = MemoValue(memos[a][mode]) /\ r = MemoValue(memos[b][mode])
  BY <1>4, <1>5, <1>6, <1>7 DEF FirstValue, SecondValue, PairKinds
<1>9. Current(a, mode) /\ Current(b, mode)
  BY <1>5, <1>6, <1>7
<1>10. ASSUME NEW c \in Nodes, Current(c, mode), MemoValue(memos[c][mode]).flags = {},
              MemoValue(memos[c][mode]).state = "KNOWN"
       PROVE  Constant(memos[c][mode])
  <2>1. memos[c][mode] \in MemoType
    BY <1>1, NodeFields, MemosHoldValues
  <2>2. memos[c][mode].flags \ {"CACHED"} = {} /\ memos[c][mode].state = "KNOWN"
    BY <1>10, <2>1, MemoFields
  <2> QED
    BY <1>10, <2>2 DEF Constant, Current, IsCycle
<1>11. Constant(memos[a][mode]) /\ Constant(memos[b][mode])
  BY <1>3, <1>4, <1>8, <1>9, <1>10 DEF Ready
<1>12. Len(Joined(l, r)) <= StringMax
  <2>1. PICK c : c = Computed(i, l, r)
    OBVIOUS
  <2>2. PICK w : w = Worked(i, l, r)
    OBVIOUS
  <2>3. v = WithFlags(c, l.flags \cup r.flags)
    BY <1>3, <2>1 DEF Operation, Ready
  <2>4. c \in ValueType
    BY <1>1, <1>2, <1>3, <2>1, ComputedType
  <2>5. c.state = "KNOWN" /\ c.kind = "STRING"
    BY <1>4, <2>3, <2>4, WithFlagsFields
  <2>6. w.value.kind = "STRING"
    <3>1. c = IF w.error # "NONE" THEN Invalid(w.error, i)
              ELSE IF w.value.kind = "STRING"
              THEN Known("STRING", IF graph[i].joined THEN graph[i].extra ELSE Len(strings) + 1)
              ELSE Known(w.value.kind, w.value.num)
      BY <2>1, <2>2, ComputedWorked
    <3> QED
      BY <2>5, <3>1, KnownFields, InvalidFields
  <2>7. ~(Len(Joined(l, r)) > StringMax)
    BY <1>1, <1>2, <1>3, <2>2, <2>6, WorkedType
  <2> QED
    BY <1>4, <2>7, WidthAssumption DEF Buffer
<1> QED
  BY <1>2, <1>3, <1>4, <1>5, <1>6, <1>7, <1>8, <1>11, <1>12 DEF Ready

\* Buffers hold what they were made to hold, whatever changes and whatever is evaluated.
LEMMA JoinsKept ==
    ASSUME RunInv, RunInv', Steady, JoinInv,
           Change \/ Step \/ \E i \in Nodes, m \in Modes : Request(i, m)
    PROVE  JoinInv'
<1>1. /\ CoreInv /\ GraphInv /\ SpanInv /\ StringInv /\ MemoInv /\ FrameInv /\ mode \in Modes /\ GraphInv'
  BY DEF RunInv, CoreInv, FrameInv
<1>2. SameConstants
  BY ConstantsKept
<1> SUFFICES ASSUME NEW i \in Nodes', graph'[i].joined
             PROVE  \E o \in Modes : HoldsJoin(i, o)'
  BY DEF JoinInv, Modes
<1>3. ASSUME i \in Nodes, graph[i].joined, graph'[i] = graph[i], Extends(strings', strings)
      PROVE  \E o \in Modes : HoldsJoin(i, o)'
  <2>1. PICK o \in Modes : HoldsJoin(i, o)
    BY <1>3 DEF JoinInv
  <2>2. HoldsJoin(i, o)'
    BY <1>1, <1>2, <1>3, <2>1, JoinStays
  <2> QED
    BY <2>2
<1>4. CASE Change
  BY <1>1, <1>3, <1>4, ChangeJoins, SameStrings
<1>5. ASSUME NEW j \in Nodes, NEW m \in Modes, Request(j, m)
      PROVE  \E o \in Modes : HoldsJoin(i, o)'
  BY <1>1, <1>3, <1>5, SameStrings DEF Request, structure, Nodes
<1>6. CASE Step
  <2>1. /\ Nodes' = Nodes /\ Extends(strings', strings)
        /\ \A j \in Nodes : graph[j].joined => graph'[j] = graph[j]
        /\ \/ graph' = graph
           \/ /\ stack # <<>> /\ ~graph[Top.id].joined /\ mode' = mode
              /\ \E v : Making(Top.id, v) /\ Joins(Top.id, v)
                        /\ v = Operation(Top.id, FirstValue(Top.id, mode), SecondValue(Top.id, mode))
                        /\ v.state = "KNOWN" /\ v.kind = "STRING"
    BY <1>6, TurnJoins
  <2>2. CASE graph[i].joined
    BY <1>3, <2>1, <2>2
  <2>3. CASE ~graph[i].joined
    <3>1. PICK j \in Nodes : j = Top.id
      BY <1>1, <2>1, <2>3, TopFrame
    <3>2. PICK v : /\ Making(j, v) /\ Joins(j, v) /\ v = Operation(j, FirstValue(j, mode), SecondValue(j, mode))
                   /\ v.state = "KNOWN" /\ v.kind = "STRING"
      BY <2>1, <2>3, <3>1
    <3>3. PICK o \in Modes : o = mode /\ o = mode'
      BY <1>1, <2>1, <2>3
    <3>4. PICK l : l = FirstValue(j, o)
      OBVIOUS
    <3>5. PICK r : r = SecondValue(j, o)
      OBVIOUS
    <3>6. PICK next : next = Len(strings) + 1
      OBVIOUS
    <3>7. PICK text : text = Joined(l, r)
      OBVIOUS
    <3>8. /\ ~IsLeaf(graph[j], mode) /\ ~Passes(j, mode) /\ ~graph[j].joined
          /\ \A c \in Used(j, mode) : Current(c, mode)
          /\ strings' = Append(strings, text)
          /\ graph' = [graph EXCEPT ![j].joined = TRUE, ![j].extra = next]
      BY <2>1, <2>3, <3>1, <3>2, <3>3, <3>4, <3>5, <3>6, <3>7 DEF Making, Joins
    <3>9. /\ graph[j].kind = "BINARY" /\ graph[j].op = "ADD" /\ graph[j].left \in Nodes /\ graph[j].right \in Nodes
          /\ l = MemoValue(memos[graph[j].left][o]) /\ r = MemoValue(memos[graph[j].right][o])
          /\ Constant(memos[graph[j].left][o]) /\ Constant(memos[graph[j].right][o])
          /\ IsValue(l) /\ IsValue(r) /\ l.state = "KNOWN" /\ r.state = "KNOWN"
          /\ text \in Buffer /\ Len(text) <= StringMax /\ ~(Len(text) > LiveMax - LiveBytes)
      BY <3>2, <3>3, <3>4, <3>5, <3>7, <3>8, JoinMade
    <3>10. PICK a \in Nodes : a = graph[j].left
      BY <3>9
    <3>11. PICK b \in Nodes : b = graph[j].right
      BY <3>9
    <3>12. i = j
      <4>1. \A k \in Nodes \ {j} : graph'[k] = graph[k]
        BY <3>8 DEF GraphInv, Nodes
      <4> QED
        BY <2>1, <2>3, <4>1
    <3>13. ~Answer
      BY <2>1, <2>3 DEF Answer, structure
    <3>14. graph'[j].left = a /\ graph'[j].right = b /\ graph'[j].extra = next
      <4>1. /\ unit' = unit /\ bound' = bound /\ prefix' = prefix /\ parents' = parents
            /\ references' = references /\ users' = users /\ placed' = placed
        BY <1>6, <3>13, Turns DEF Still
      <4>2. Alike(graph'[j], graph[j]) /\ graph'[j].extra = next
        BY <1>1, <3>6, <3>8, <3>9, <4>1, JoinGraph
      <4> QED
        BY <3>10, <3>11, <4>2 DEF Alike
    <3>15. strings'[next] = text
      <4>1. strings \in Seq(Buffer) /\ text \in Buffer /\ strings' = Append(strings, text)
        BY <1>1, <3>8, <3>9 DEF StringInv
      <4>2. Append(strings, text)[Len(strings) + 1] = text
        BY <4>1, AppendProperties
      <4> QED
        BY <3>6, <4>1, <4>2
    <3>16. Joined(l, r)' = text
      <4>1. ValueOf(l)' = ValueOf(l) /\ ValueOf(r)' = ValueOf(r)
        BY <2>1, <3>9, ValueOfStays
      <4> QED
        BY <3>7, <4>1 DEF Joined
    <3>17. /\ Constant(memos'[a][o]) /\ MemoValue(memos'[a][o]) = l
           /\ Constant(memos'[b][o]) /\ MemoValue(memos'[b][o]) = r
      BY <1>2, <3>9, <3>10, <3>11 DEF SameConstants
    <3>18. /\ Constant(memos[graph[j].left][o])' /\ MemoValue(memos[graph[j].left][o])' = l
           /\ Constant(memos[graph[j].right][o])' /\ MemoValue(memos[graph[j].right][o])' = r
      BY <3>14, <3>17 DEF Constant, IsCycle
    <3>19. strings'[graph'[j].extra] = Joined(l, r)' /\ Len(strings'[graph'[j].extra]) <= StringMax
      BY <3>9, <3>14, <3>15, <3>16
    <3>20. HoldsJoin(j, o)'
      BY <3>9, <3>18, <3>19 DEF HoldsJoin
    <3> QED
      BY <3>12, <3>20
  <2> QED
    BY <2>2, <2>3
<1> QED
  BY <1>4, <1>5, <1>6

\* At first no concatenation has a buffer.
LEMMA InitJoins == Init => JoinInv
<1> SUFFICES ASSUME Init, NEW i \in Nodes PROVE ~graph[i].joined
  BY DEF JoinInv
<1>1. unit \in Units /\ graph = unit.nodes
  BY DEF Init
<1>2. unit.nodes \in Seq(NodeType) /\ \A j \in DOMAIN unit.nodes : Buildable(unit.nodes[j])
  BY <1>1, BuilderAssumption
<1> QED
  BY <1>1, <1>2 DEF Nodes, Buildable

-----------------------------------------------------------------------------
(* What a result says, and what its node means *)

\* A result says what is meant: a value with its dependence on placement, or a diagnostic.
Agrees(d, v) ==
    /\ d.state = v.state
    /\ v.state = "INVALID" => d.error = v.error /\ d.at = v.at
    /\ v.state = "KNOWN" => d.value = ValueOf(v) /\ (d.layout <=> "LAYOUT" \in v.flags)

\* No string.
Plainly(w) == w.value = [kind |-> w.value.kind, num |-> w.value.num, bytes |-> <<>>]

\* Outcomes without a string.
LEMMA PlainOutcomes ==
    /\ \A v : Plainly(GivesInteger(v)) /\ Plainly(Gives(ExtentValue(v)))
    /\ \A err : Plainly(Refuses(err))
    /\ \A v, low, high : Plainly(Checked(v, low, high))
<1>1. \A v : Plainly(GivesInteger(v)) /\ Plainly(Gives(ExtentValue(v)))
  BY DEF Plainly, GivesInteger, Gives, IntegerValue, ExtentValue
<1>2. \A err : Plainly(Refuses(err))
  BY DEF Plainly, Refuses, IntegerValue
<1> QED
  BY <1>1, <1>2 DEF Checked

\* Integers, extents and comparisons have no bytes.
LEMMA PlainInteger ==
    ASSUME NEW op \in Operators, NEW x, NEW y
    PROVE  Plainly(IntegerOperation(op, x, y))
<1>1. CASE op \in {"NEGATE", "COMPLEMENT", "ADD", "SUBTRACT", "MULTIPLY"}
  BY <1>1, PlainOutcomes DEF IntegerOperation
<1>2. CASE op \in {"NOT", "EQUAL", "NOT_EQUAL", "LESS", "LESS_EQUAL", "GREATER", "GREATER_EQUAL"}
  BY <1>2, PlainOutcomes DEF IntegerOperation
<1>3. CASE op \in {"LOW", "HIGH"}
  BY <1>3, PlainOutcomes DEF IntegerOperation
<1>4. CASE op \in {"BIT_AND", "BIT_OR", "BIT_XOR"}
  BY <1>4, PlainOutcomes DEF IntegerOperation
<1>5. CASE op \in {"DIVIDE", "REMAINDER"}
  BY <1>5, PlainOutcomes DEF IntegerOperation
<1>6. CASE op \in {"SHIFT_LEFT", "SHIFT_RIGHT"}
  BY <1>6, PlainOutcomes DEF IntegerOperation
<1> QED
  BY <1>1, <1>2, <1>3, <1>4, <1>5, <1>6 DEF Operators

\* Operations on extents give no string.
LEMMA PlainExtent ==
    ASSUME NEW kind \in ExtentKinds, NEW low, NEW high, NEW x \in Operand, NEW y
    PROVE  Plainly(ExtentOperation(kind, low, high, x, y))
<1>1. x.kind \in {"INTEGER", "EXTENT", "STRING"}
  BY DEF Operand
<1>2. CASE kind = "EXTENT_COUNT"
  BY <1>2, PlainOutcomes DEF ExtentOperation
<1>3. CASE kind = "EXTENT_STRING"
  BY <1>1, <1>3, PlainOutcomes DEF ExtentOperation
<1>4. CASE kind \in {"EXTENT_SUM", "EXTENT_REPEAT", "EXTENT_REMAINDER"}
  BY <1>4, PlainOutcomes DEF ExtentOperation
<1>5. CASE kind \in {"EXTENT_BOUND", "EXTENT_INTEGER"}
  BY <1>5, PlainOutcomes DEF ExtentOperation
<1> QED
  BY <1>2, <1>3, <1>4, <1>5 DEF ExtentKinds

\* Of the operations on strings only concatenation gives one.
LEMMA PlainComparison ==
    ASSUME NEW op, op # "ADD", NEW x, NEW y, NEW room
    PROVE  Plainly(StringOperation(op, x, y, room))
<1>1. \A s, t : Plainly(Compared(op, s, t))
  <2> SUFFICES ASSUME NEW s, NEW t PROVE Plainly(Compared(op, s, t))
    OBVIOUS
  <2>1. CASE op \in {"EQUAL", "NOT_EQUAL", "LESS", "LESS_EQUAL", "GREATER", "GREATER_EQUAL"}
    BY <2>1, PlainOutcomes DEF Compared
  <2>2. CASE op \notin {"EQUAL", "NOT_EQUAL", "LESS", "LESS_EQUAL", "GREATER", "GREATER_EQUAL"}
    BY <2>2, PlainOutcomes DEF Compared
  <2> QED
    BY <2>1, <2>2
<1> QED
  BY <1>1, PlainOutcomes DEF StringOperation

\* The reference looks at a unit as the evaluator does.
LEMMA SnapshotIs ==
    /\ Snapshot.graph = graph /\ Snapshot.strings = strings /\ Snapshot.bound = bound
    /\ Snapshot.prefix = prefix /\ Snapshot.placed = placed
    /\ NodesOf(Snapshot) = Nodes
    /\ \A n, m : /\ NoOperand(Snapshot, n, m) <=> IsLeaf(n, m)
                 /\ Leading(Snapshot, n, m) = First(n, m)
    /\ \A n : Room(Snapshot, n) = IF n.joined THEN StringMax ELSE LiveMax - LiveBytes
<1>1. /\ Snapshot.graph = graph /\ Snapshot.strings = strings /\ Snapshot.bound = bound
      /\ Snapshot.prefix = prefix /\ Snapshot.placed = placed
  BY DEF Snapshot
<1>2. NodesOf(Snapshot) = Nodes
  BY <1>1 DEF NodesOf, Nodes
<1>3. ASSUME NEW n, NEW m
      PROVE  (NoOperand(Snapshot, n, m) <=> IsLeaf(n, m)) /\ Leading(Snapshot, n, m) = First(n, m)
  BY <1>1 DEF NoOperand, IsLeaf, Leading, First, Redirected
<1>4. ASSUME NEW n PROVE Room(Snapshot, n) = IF n.joined THEN StringMax ELSE LiveMax - LiveBytes
  BY <1>1 DEF Room, LiveBytes
<1> QED
  BY <1>1, <1>2, <1>3, <1>4

\* The graph of a unit is closed: its operands are nodes.
LEMMA SnapshotClosed == ASSUME GraphInv PROVE Closed(Snapshot)
<1>1. Len(graph) \in Nat
  BY DEF GraphInv
<1>2. ASSUME NEW i \in Nodes, NEW m \in Modes, ~IsLeaf(graph[i], m)
      PROVE  First(graph[i], m) \in Nodes /\ (graph[i].kind \in PairKinds => graph[i].right \in Nodes)
  BY <1>2, FirstOperand
<1> QED
  BY <1>1, <1>2, SnapshotIs DEF Closed

\* The kind of a value, and when it is nothing to repeat.
LEMMA ValueKinds ==
    ASSUME NEW v
    PROVE  /\ ValueOf(v).kind = v.kind
           /\ ValueOf(v) = ExtentValue(0) <=> v.kind = "EXTENT" /\ v.num = 0
<1>1. CASE v.kind = "STRING"
  BY <1>1 DEF ValueOf, StringValue, ExtentValue
<1>2. CASE v.kind # "STRING"
  BY <1>2 DEF ValueOf, ExtentValue
<1> QED
  BY <1>1, <1>2

\* A first operand decides if and only if its result is passed on.
LEMMA DecidesAgrees ==
    ASSUME NEW d, NEW v, Agrees(d, v), NEW n, NEW m
    PROVE  Decides(n, m, d) <=> PassesOn(n, v, m)
BY ValueKinds DEF Agrees, Decides, PassesOn, Redirected

\* A leaf means its value.
LEMMA GroundAgrees ==
    ASSUME NEW n, n.kind \in LiteralKinds \cup {"REFERENCE", "ADDRESS"}
    PROVE  Agrees(Ground(Snapshot, n), LeafValue(n))
<1>1. CASE n.kind = "INTEGER"
  BY <1>1 DEF Agrees, Ground, LeafValue, Plain, Meaning, Known, ValueOf, IntegerValue
<1>2. CASE n.kind = "EXTENT_LITERAL"
  BY <1>2 DEF Agrees, Ground, LeafValue, Plain, Meaning, Known, ValueOf, ExtentValue
<1>3. CASE n.kind = "STRING"
  BY <1>3, SnapshotIs DEF Agrees, Ground, LeafValue, Plain, Meaning, Known, ValueOf, StringValue
<1>4. CASE n.kind = "REFERENCE"
  BY <1>4 DEF Agrees, Ground, LeafValue, Unknown, Meaning, Deferred
<1>5. CASE n.kind = "ADDRESS"
  <2>1. CASE placed[n.left] = Unplaced
    BY <1>5, <2>1, SnapshotIs DEF Agrees, Ground, LeafValue, Unknown, Meaning, Deferred
  <2>2. CASE placed[n.left] # Unplaced
    <3>1. PICK x : x = placed[n.left]
      OBVIOUS
    <3>2. Ground(Snapshot, n) = Meaning("KNOWN", IntegerValue(x), "NONE", 0, TRUE)
      BY <1>5, <2>2, <3>1, SnapshotIs DEF Ground
    <3>3. LeafValue(n) = WithFlags(Known("INTEGER", x), {"LAYOUT"})
      BY <1>5, <2>2, <3>1 DEF LeafValue
    <3> QED
      BY <3>2, <3>3 DEF Agrees, Meaning, WithFlags, Known, ValueOf, IntegerValue
  <2> QED
    BY <2>1, <2>2
<1> QED
  BY <1>1, <1>2, <1>3, <1>4, <1>5 DEF LiteralKinds

\* What is passed on agrees with what the first operand decides.
LEMMA PassedAgrees ==
    ASSUME NEW d, NEW l, IsValue(l), Agrees(d, l), NEW i \in Nodes, NEW m
    PROVE  Agrees(Decided(i, graph[i], m, d), PassedOn(i, l, m))
<1>1. CASE ~(graph[i].kind = "ADDRESS" \/ Redirected(graph[i], m))
  BY <1>1 DEF Decided, PassedOn, Redirected
<1>2. CASE graph[i].kind = "ADDRESS" \/ Redirected(graph[i], m)
  <2>1. PICK k : k = IF l.state = "KNOWN" /\ l.kind # "INTEGER" THEN Invalid("TYPE", i) ELSE l
    OBVIOUS
  <2>2. Decided(i, graph[i], m, d) = Measured(i, d) /\ PassedOn(i, l, m) = WithFlags(k, {"LAYOUT"})
    BY <1>2, <2>1 DEF Decided, PassedOn, Redirected
  <2>3. l.state = "KNOWN" => d.value = ValueOf(l) /\ d.value.kind = l.kind
    BY ValueKinds DEF Agrees
  <2>4. CASE l.state = "KNOWN" /\ l.kind # "INTEGER"
    <3>1. Measured(i, d) = Meaning("INVALID", NoValue, "TYPE", i, TRUE)
      BY <2>3, <2>4 DEF Measured, Agrees
    <3>2. k = Invalid("TYPE", i)
      BY <2>1, <2>4
    <3>3. k \in ValueType /\ k.state = "INVALID" /\ k.error = "TYPE" /\ k.at = i
      BY <3>2, PlainValues, InvalidFields DEF Diagnostics, Nodes
    <3>4. PICK w : w = WithFlags(k, {"LAYOUT"})
      OBVIOUS
    <3>5. w.state = "INVALID" /\ w.error = "TYPE" /\ w.at = i
      BY <3>3, <3>4, WithFlagsFields
    <3> QED
      BY <2>2, <3>1, <3>4, <3>5 DEF Agrees, Meaning
  <2>5. CASE ~(l.state = "KNOWN" /\ l.kind # "INTEGER")
    <3>1. Measured(i, d) = Meaning(d.state, d.value, d.error, d.at, TRUE)
      BY <2>3, <2>5 DEF Measured, Agrees
    <3>2. k = l /\ l \in ValueType
      BY <2>1, <2>5 DEF IsValue
    <3>3. PICK w : w = WithFlags(l, {"LAYOUT"})
      OBVIOUS
    <3>4. /\ w.state = l.state /\ w.kind = l.kind /\ w.num = l.num /\ w.error = l.error /\ w.at = l.at
          /\ "LAYOUT" \in w.flags
      BY <3>2, <3>3, WithFlagsFields
    <3>5. ValueOf(w) = ValueOf(l)
      BY <3>4 DEF ValueOf
    <3> QED
      BY <2>2, <3>1, <3>2, <3>3, <3>4, <3>5 DEF Agrees, Meaning
  <2> QED
    BY <2>4, <2>5
<1> QED
  BY <1>1, <1>2

\* What is computed is what is combined, with the buffer of a concatenation that has one.
LEMMA WorkedCombined ==
    ASSUME GraphInv, StringInv, NEW i \in Nodes, graph[i].kind \in OperationKinds,
           NEW l, NEW r, Ready(l, r),
           graph[i].joined => strings[graph[i].extra] = Joined(l, r) /\ Len(Joined(l, r)) <= StringMax
    PROVE  LET n == graph[i]
               x == ValueOf(l)
               y == ValueOf(r)
           IN  /\ Worked(i, l, r) =
                    (IF n.kind \in ExtentKinds THEN ExtentOperation(n.kind, n.right, n.extra, x, y)
                     ELSE IF "EXTENT" \in {l.kind, r.kind} THEN Refuses("TYPE")
                     ELSE IF ~Stringy(l, r) THEN IntegerOperation(n.op, x.num, y.num)
                     ELSE IF n.kind = "UNARY" THEN Refuses("TYPE")
                     ELSE IF "LAYOUT" \in l.flags \cup r.flags THEN Refuses("LAYOUT_STRING")
                     ELSE StringOperation(n.op, x, y, Room(Snapshot, n)))
               /\ Worked(i, l, r).value.kind # "STRING" => Plainly(Worked(i, l, r))
<1>1. PICK n : n = graph[i]
  OBVIOUS
<1>2. PICK x : x = ValueOf(l)
  OBVIOUS
<1>3. PICK y : y = ValueOf(r)
  OBVIOUS
<1>4. PICK w : w = Worked(i, l, r)
  OBVIOUS
<1>5. /\ n.kind \in OperationKinds /\ Built(n) /\ n.joined \in BOOLEAN
      /\ x \in Operand /\ y \in Operand
  BY <1>1, <1>2, <1>3, NodeFields, ValueOfType DEF Ready
<1>6. w = IF n.kind \in ExtentKinds THEN ExtentOperation(n.kind, n.right, n.extra, x, y)
          ELSE IF "EXTENT" \in {l.kind, r.kind} THEN Refuses("TYPE")
          ELSE IF ~Stringy(l, r) THEN IntegerOperation(n.op, x.num, y.num)
          ELSE IF n.kind = "UNARY" THEN Refuses("TYPE")
          ELSE IF "LAYOUT" \in l.flags \cup r.flags THEN Refuses("LAYOUT_STRING")
          ELSE IF n.joined THEN Gives(StringValue(strings[n.extra]))
          ELSE StringOperation(n.op, x, y, LiveMax - LiveBytes)
  BY <1>1, <1>2, <1>3, <1>4 DEF Worked
<1>7. n.kind \notin ExtentKinds => n.kind \in {"BINARY", "SPAN", "UNARY"} /\ n.op \in Operators
  BY <1>5 DEF OperationKinds, Built
<1>8. (IF n.joined THEN Gives(StringValue(strings[n.extra])) ELSE StringOperation(n.op, x, y, LiveMax - LiveBytes))
        = StringOperation(n.op, x, y, Room(Snapshot, n))
  <2>1. CASE ~n.joined
    BY <2>1, SnapshotIs
  <2>2. CASE n.joined
    <3>1. PICK text : text = Joined(l, r)
      OBVIOUS
    <3>2. text \in Buffer /\ text = Text(x) \o Text(y)
      <4>1. Joined(l, r) \in Buffer
        BY <1>1, <1>5, WorkedType
      <4> QED
        BY <1>2, <1>3, <3>1, <4>1 DEF Joined
    <3>3. n.op = "ADD" /\ strings[n.extra] = text /\ Len(text) <= StringMax
      BY <1>1, <1>5, <2>2, <3>1 DEF Built
    <3>4. ~(Len(text) > StringMax)
      BY <3>2, <3>3, WidthAssumption DEF Buffer
    <3>5. Room(Snapshot, n) = StringMax
      BY <2>2, SnapshotIs
    <3>6. StringOperation(n.op, x, y, StringMax) = Gives(StringValue(text))
      BY <3>2, <3>3, <3>4 DEF StringOperation
    <3> QED
      BY <2>2, <3>3, <3>5, <3>6
  <2> QED
    BY <1>5, <2>1, <2>2
<1>9. ASSUME w.value.kind # "STRING" PROVE Plainly(w)
  <2>1. CASE n.kind \in ExtentKinds
    BY <1>5, <1>6, <2>1, PlainExtent
  <2>2. CASE n.kind \notin ExtentKinds /\ n.op = "ADD" /\ w = StringOperation(n.op, x, y, Room(Snapshot, n))
    <3>1. w = Refuses("STRING_LIMIT") \/ w = Gives(StringValue(Text(x) \o Text(y)))
      BY <2>2 DEF StringOperation
    <3>2. Gives(StringValue(Text(x) \o Text(y))).value.kind = "STRING"
      BY DEF Gives, StringValue
    <3> QED
      BY <1>9, <3>1, <3>2, PlainOutcomes
  <2>3. CASE n.kind \notin ExtentKinds /\ n.op # "ADD" /\ w = StringOperation(n.op, x, y, Room(Snapshot, n))
    BY <2>3, PlainComparison
  <2>4. CASE n.kind \notin ExtentKinds /\ w # StringOperation(n.op, x, y, Room(Snapshot, n))
    <3>1. \/ w = Refuses("TYPE") \/ w = Refuses("LAYOUT_STRING") \/ w = IntegerOperation(n.op, x.num, y.num)
      BY <1>6, <1>8, <2>4
    <3> QED
      BY <1>7, <2>4, <3>1, PlainOutcomes, PlainInteger
  <2> QED
    BY <2>1, <2>2, <2>3, <2>4
<1>10. w = IF n.kind \in ExtentKinds THEN ExtentOperation(n.kind, n.right, n.extra, x, y)
           ELSE IF "EXTENT" \in {l.kind, r.kind} THEN Refuses("TYPE")
           ELSE IF ~Stringy(l, r) THEN IntegerOperation(n.op, x.num, y.num)
           ELSE IF n.kind = "UNARY" THEN Refuses("TYPE")
           ELSE IF "LAYOUT" \in l.flags \cup r.flags THEN Refuses("LAYOUT_STRING")
           ELSE StringOperation(n.op, x, y, Room(Snapshot, n))
  BY <1>6, <1>8
<1> QED
  BY <1>1, <1>2, <1>3, <1>4, <1>9, <1>10

\* An operation agrees with what is combined.
LEMMA CombinedAgrees ==
    ASSUME GraphInv, StringInv, NEW i \in Nodes, graph[i].kind \in OperationKinds,
           NEW l, NEW r, IsValue(l), IsValue(r), l.state # "INVALID", IsValue(Operation(i, l, r)),
           NEW d, NEW e, Agrees(d, l), Agrees(e, r),
           graph[i].joined /\ Ready(l, r) =>
              strings[graph[i].extra] = Joined(l, r) /\ Len(Joined(l, r)) <= StringMax
    PROVE  Agrees(Combined(Snapshot, i, d, e), Operation(i, l, r))
<1>0. PICK v : v = Operation(i, l, r)
  OBVIOUS
<1>1. /\ l \in ValueType /\ r \in ValueType /\ l.state \in States /\ r.state \in States
      /\ l.flags \in SUBSET {"BINDING", "LAYOUT"} /\ r.flags \in SUBSET {"BINDING", "LAYOUT"}
      /\ d.state = l.state /\ e.state = r.state
  BY DEF IsValue, ValueType, Agrees
<1>2. CASE r.state = "INVALID"
  <2>1. v = WithFlags(r, l.flags)
    BY <1>0, <1>2 DEF Operation
  <2>2. v.state = "INVALID" /\ v.error = r.error /\ v.at = r.at
    BY <1>1, <1>2, <2>1, WithFlagsFields
  <2>3. Combined(Snapshot, i, d, e) = e
    BY <1>1, <1>2 DEF Combined
  <2> QED
    BY <1>0, <1>2, <2>2, <2>3 DEF Agrees
<1>3. CASE r.state # "INVALID" /\ "DEFERRED" \in {l.state, r.state}
  <2>1. v = Deferred(l.flags \cup r.flags)
    BY <1>0, <1>3 DEF Operation
  <2>2. Combined(Snapshot, i, d, e).state = "DEFERRED"
    BY <1>1, <1>3 DEF Combined, Unknown, Meaning
  <2> QED
    BY <1>0, <2>1, <2>2, DeferredFields DEF Agrees
<1>4. CASE r.state # "INVALID" /\ "DEFERRED" \notin {l.state, r.state}
  <2>1. Ready(l, r) /\ l.state = "KNOWN" /\ r.state = "KNOWN"
    BY <1>1, <1>4 DEF Ready, States
  <2>2. PICK w : w = Worked(i, l, r)
    OBVIOUS
  <2>3. PICK c : c = Computed(i, l, r)
    OBVIOUS
  <2>4. v = WithFlags(c, l.flags \cup r.flags) /\ c \in ValueType /\ c.flags = {}
    BY <1>0, <1>4, <2>1, <2>3, ComputedType DEF Operation
  <2>5. /\ v.state = c.state /\ v.kind = c.kind /\ v.num = c.num /\ v.error = c.error /\ v.at = c.at
        /\ v.flags = l.flags \cup r.flags
    <3>1. l.flags \cup r.flags \in SUBSET {"BINDING", "LAYOUT"}
      BY <1>1
    <3> QED
      BY <2>4, <3>1, WithFlagsFields
  <2>6. PICK x : x = ValueOf(l)
    OBVIOUS
  <2>7. PICK y : y = ValueOf(r)
    OBVIOUS
  <2>8. /\ d.value = x /\ e.value = y /\ x.kind = l.kind /\ y.kind = r.kind
        /\ (d.layout \/ e.layout <=> "LAYOUT" \in l.flags \cup r.flags)
        /\ l.kind \in {"INTEGER", "EXTENT", "STRING"} /\ r.kind \in {"INTEGER", "EXTENT", "STRING"}
    BY <1>1, <2>1, <2>6, <2>7, ValueKinds DEF Agrees, ValueType
  <2>9. PICK n : n = graph[i]
    OBVIOUS
  <2>10. /\ w = (IF n.kind \in ExtentKinds THEN ExtentOperation(n.kind, n.right, n.extra, x, y)
                 ELSE IF "EXTENT" \in {l.kind, r.kind} THEN Refuses("TYPE")
                 ELSE IF ~Stringy(l, r) THEN IntegerOperation(n.op, x.num, y.num)
                 ELSE IF n.kind = "UNARY" THEN Refuses("TYPE")
                 ELSE IF "LAYOUT" \in l.flags \cup r.flags THEN Refuses("LAYOUT_STRING")
                 ELSE StringOperation(n.op, x, y, Room(Snapshot, n)))
         /\ w.value.kind # "STRING" => Plainly(w)
    BY <2>1, <2>2, <2>6, <2>7, <2>9, WorkedCombined
  <2>11. PICK layout : layout = (d.layout \/ e.layout)
    OBVIOUS
  <2>12. Combined(Snapshot, i, d, e) = MeaningOf(i, w, layout)
    <3>1. ~Stringy(l, r) /\ "EXTENT" \notin {l.kind, r.kind} <=> {x.kind, y.kind} = {"INTEGER"}
      BY <2>8 DEF Stringy
    <3>2. w = (IF n.kind \in ExtentKinds THEN ExtentOperation(n.kind, n.right, n.extra, x, y)
               ELSE IF "EXTENT" \in {x.kind, y.kind} THEN Refuses("TYPE")
               ELSE IF {x.kind, y.kind} = {"INTEGER"} THEN IntegerOperation(n.op, x.num, y.num)
               ELSE IF n.kind = "UNARY" THEN Refuses("TYPE")
               ELSE IF layout THEN Refuses("LAYOUT_STRING")
               ELSE StringOperation(n.op, x, y, Room(Snapshot, n)))
      <4>1. CASE n.kind \in ExtentKinds
        BY <2>10, <4>1
      <4>2. CASE n.kind \notin ExtentKinds /\ "EXTENT" \in {l.kind, r.kind}
        BY <2>8, <2>10, <4>2
      <4>3. CASE n.kind \notin ExtentKinds /\ "EXTENT" \notin {l.kind, r.kind} /\ ~Stringy(l, r)
        BY <2>8, <2>10, <3>1, <4>3
      <4>4. CASE n.kind \notin ExtentKinds /\ "EXTENT" \notin {l.kind, r.kind} /\ Stringy(l, r)
        BY <2>8, <2>10, <2>11, <3>1, <4>4
      <4> QED
        BY <4>1, <4>2, <4>3, <4>4
    <3>3. Snapshot.graph[i] = n
      BY <2>9, SnapshotIs
    <3> QED
      BY <1>1, <2>1, <2>8, <2>11, <3>2, <3>3 DEF Combined
  <2>13. c = IF w.error # "NONE" THEN Invalid(w.error, i)
             ELSE IF w.value.kind = "STRING"
             THEN Known("STRING", IF n.joined THEN n.extra ELSE Len(strings) + 1)
             ELSE Known(w.value.kind, w.value.num)
    BY <2>2, <2>3, <2>9, ComputedWorked
  <2>14. CASE w.error # "NONE"
    <3>1. v.state = "INVALID" /\ v.error = w.error /\ v.at = i
      BY <2>5, <2>13, <2>14, InvalidFields
    <3>2. MeaningOf(i, w, layout) = Meaning("INVALID", NoValue, w.error, i, layout)
      BY <2>14 DEF MeaningOf
    <3> QED
      BY <1>0, <2>12, <3>1, <3>2 DEF Agrees, Meaning
  <2>15. CASE w.error = "NONE"
    <3>1. MeaningOf(i, w, layout) = Meaning("KNOWN", w.value, "NONE", 0, layout)
      BY <2>15 DEF MeaningOf
    <3>2. v.state = "KNOWN"
      BY <2>5, <2>13, <2>15, KnownFields
    <3>3. w.value = ValueOf(v)
      <4>1. CASE w.value.kind # "STRING"
        <5>1. v.kind = w.value.kind /\ v.num = w.value.num
          BY <2>5, <2>13, <2>15, <4>1, KnownFields
        <5> QED
          BY <2>10, <4>1, <5>1 DEF Plainly, ValueOf
      <4>2. CASE w.value.kind = "STRING"
        <5>1. v.kind = "STRING" /\ v.num = IF n.joined THEN n.extra ELSE Len(strings) + 1
          BY <2>5, <2>13, <2>15, <4>2, KnownFields
        <5>2. v.num \in 1..Len(strings) /\ Len(strings) \in Nat
          BY <1>0, <3>2, <5>1 DEF IsValue, StringInv
        <5>3. n.joined
          BY <5>1, <5>2
        <5>4. /\ n.kind = "BINARY" /\ n.op = "ADD" /\ Stringy(l, r)
              /\ "EXTENT" \notin {l.kind, r.kind} /\ "LAYOUT" \notin l.flags \cup r.flags
          BY <2>1, <2>2, <2>9, <4>2, WorkedType
        <5>5. w = Gives(StringValue(strings[n.extra]))
          <6>1. n.kind \notin ExtentKinds /\ n.kind # "UNARY"
            BY <5>4 DEF ExtentKinds
          <6> QED
            BY <2>2, <2>9, <5>3, <5>4, <6>1 DEF Worked
        <5> QED
          BY <5>1, <5>3, <5>5 DEF Gives, ValueOf
      <4> QED
        BY <4>1, <4>2
    <3> QED
      <4>1. PICK k : k = Combined(Snapshot, i, d, e)
        OBVIOUS
      <4>2. k.state = "KNOWN" /\ k.value = w.value /\ k.layout = layout
        BY <2>12, <3>1, <4>1 DEF Meaning
      <4>3. k.layout <=> "LAYOUT" \in v.flags
        BY <2>5, <2>8, <2>11, <4>2
      <4>4. Agrees(k, v)
        BY <3>2, <3>3, <4>2, <4>3 DEF Agrees
      <4> QED
        BY <1>0, <4>1, <4>4
  <2> QED
    BY <2>14, <2>15
<1> QED
  BY <1>2, <1>3, <1>4

\* The buffer of a concatenation holds what its operands are in whichever mode they are known.
LEMMA JoinedHolds ==
    ASSUME GraphInv, StringInv, MemoInv, TwinInv, JoinInv, NEW i \in Nodes, graph[i].joined,
           NEW m \in Modes, ~IsLeaf(graph[i], m), ~Passes(i, m),
           \A c \in Used(i, m) : Current(c, m), NEW l, NEW r,
           l = FirstValue(i, m), r = SecondValue(i, m), Ready(l, r)
    PROVE  strings[graph[i].extra] = Joined(l, r) /\ Len(Joined(l, r)) <= StringMax
<1>1. PICK a \in Nodes : a = graph[i].left
  BY JoinedOperands
<1>2. PICK b \in Nodes : b = graph[i].right
  BY JoinedOperands
<1>3. graph[i].kind = "BINARY"
  BY JoinedOperands
<1>4. First(graph[i], m) = a /\ Used(i, m) = {a, b}
  BY <1>1, <1>2, <1>3 DEF First, Redirected, Used, PairKinds
<1>5. l = MemoValue(memos[a][m]) /\ r = MemoValue(memos[b][m])
  BY <1>2, <1>3, <1>4 DEF FirstValue, SecondValue, PairKinds
<1>6. PICK o \in Modes : HoldsJoin(i, o)
  BY DEF JoinInv
<1>7. PICK x : x = strings[graph[i].extra]
  OBVIOUS
<1>8. /\ Constant(memos[a][o]) /\ Constant(memos[b][o])
      /\ x = Joined(MemoValue(memos[a][o]), MemoValue(memos[b][o])) /\ Len(x) <= StringMax
  BY <1>1, <1>2, <1>6, <1>7 DEF HoldsJoin
<1>9. ASSUME NEW c \in Nodes, Constant(memos[c][o]), Current(c, m), MemoValue(memos[c][m]).state = "KNOWN"
      PROVE  MemoValue(memos[c][o]) = MemoValue(memos[c][m])
  <2>1. /\ memos[c][o] \in MemoType /\ memos[c][m] \in MemoType
    BY NodeFields, MemosHoldValues
  <2>2. ~IsCycle(memos[c][m])
    BY <1>9, <2>1, MemoFields DEF IsCycle
  <2>3. Current(c, o)
    BY <1>9 DEF Constant, Current
  <2>4. Shared(MemoValue(memos[c][o]))
    <3>1. PICK w : w = MemoValue(memos[c][o])
      OBVIOUS
    <3>2. w.flags = {} /\ ~IsCycle(w)
      BY <1>9, <2>1, <3>1, MemoFields DEF Constant
    <3> QED
      BY <3>1, <3>2 DEF Shared, IsCycle
  <2> QED
    BY <1>9, <2>2, <2>3, <2>4 DEF TwinInv
<1>10. MemoValue(memos[a][o]) = l /\ MemoValue(memos[b][o]) = r
  BY <1>4, <1>5, <1>8, <1>9 DEF Ready
<1> QED
  BY <1>7, <1>8, <1>10

\* If the operands that are looked at mean what their results say, so does the node.
LEMMA BodyAgrees ==
    ASSUME GraphInv, StringInv, MemoInv, TwinInv, JoinInv, NEW i \in Nodes, NEW m \in Modes,
           \A c \in Used(i, m) : Current(c, m), IsValue(Made(i, m)), NEW f,
           \A c \in Used(i, m) : Agrees(f[c], MemoValue(memos[c][m]))
    PROVE  Agrees(Valued(Snapshot, i, m, f), Made(i, m))
<1>1. PICK n : n = graph[i]
  OBVIOUS
<1>2. PICK d : d = f[First(n, m)]
  OBVIOUS
<1>3. Valued(Snapshot, i, m, f) =
        IF IsLeaf(n, m) THEN Ground(Snapshot, n)
        ELSE IF Decides(n, m, d) THEN Decided(i, n, m, d)
        ELSE Combined(Snapshot, i, d, Partner(n, f))
  <2>1. PICK s : s = Snapshot
    OBVIOUS
  <2>2. s.graph[i] = n /\ (NoOperand(s, n, m) <=> IsLeaf(n, m)) /\ Leading(s, n, m) = First(n, m)
        /\ Ground(s, n) = Ground(Snapshot, n)
    BY <1>1, <2>1, SnapshotIs
  <2>3. Valued(s, i, m, f) =
          IF NoOperand(s, n, m) THEN Ground(s, n)
          ELSE IF Decides(n, m, f[Leading(s, n, m)]) THEN Decided(i, n, m, f[Leading(s, n, m)])
          ELSE Combined(s, i, f[Leading(s, n, m)], Partner(n, f))
    BY <2>2, ValuedIs
  <2> QED
    BY <1>2, <2>1, <2>2, <2>3
<1>4. CASE IsLeaf(n, m)
  <2>1. n.kind \in LiteralKinds \cup {"REFERENCE", "ADDRESS"}
    BY <1>4 DEF IsLeaf
  <2>2. Made(i, m) = LeafValue(n)
    BY <1>1, <1>4 DEF Made
  <2> QED
    BY <1>3, <1>4, <2>1, <2>2, GroundAgrees
<1>5. CASE ~IsLeaf(n, m)
  <2>1. PICK l : l = FirstValue(i, m)
    OBVIOUS
  <2>2. /\ First(n, m) \in Used(i, m) /\ First(n, m) \in NodeRange
        /\ l = MemoValue(memos[First(n, m)][m])
    <3>1. First(n, m) \in Used(i, m)
      BY <1>1, <1>5 DEF Used
    <3> QED
      BY <1>1, <2>1, <3>1, UsedOperands DEF FirstValue
  <2>3. IsValue(l) /\ Agrees(d, l)
    BY <1>2, <2>2, MemosHoldValues
  <2>4. Decides(n, m, d) <=> Passes(i, m)
    BY <1>1, <2>1, <2>3, DecidesAgrees DEF Passes
  <2>5. CASE Passes(i, m)
    <3>1. Made(i, m) = PassedOn(i, l, m)
      BY <1>1, <1>5, <2>1, <2>5 DEF Made
    <3> QED
      BY <1>1, <1>3, <1>5, <2>3, <2>4, <2>5, <3>1, PassedAgrees
  <2>6. CASE ~Passes(i, m)
    <3>1. PICK r : r = SecondValue(i, m)
      OBVIOUS
    <3>2. PICK e : e = Partner(n, f)
      OBVIOUS
    <3>3. Made(i, m) = Operation(i, l, r)
      BY <1>1, <1>5, <2>1, <2>6, <3>1 DEF Made
    <3>4. /\ n.kind \in OperationKinds /\ IsValue(l) /\ IsValue(r) /\ l.state # "INVALID"
      BY <1>1, <1>5, <2>1, <2>6, <3>1, MadeType
    <3>5. Agrees(e, r)
      <4>1. CASE n.kind \in PairKinds
        <5>1. n.right \in Used(i, m) /\ r = MemoValue(memos[n.right][m])
          BY <1>1, <1>5, <2>6, <3>1, <4>1 DEF Used, SecondValue
        <5> QED
          BY <3>2, <4>1, <5>1 DEF Partner
      <4>2. CASE n.kind \notin PairKinds
        <5>1. r = Known("INTEGER", 0) /\ e = Plain(NoValue)
          BY <1>1, <3>1, <3>2, <4>2 DEF SecondValue, Partner
        <5> QED
          BY <5>1 DEF Agrees, Plain, Meaning, NoValue, Known, ValueOf, IntegerValue
      <4> QED
        BY <4>1, <4>2
    <3>6. graph[i].joined /\ Ready(l, r) =>
              strings[graph[i].extra] = Joined(l, r) /\ Len(Joined(l, r)) <= StringMax
      BY <1>1, <1>5, <2>1, <2>6, <3>1, JoinedHolds
    <3>7. Agrees(Combined(Snapshot, i, d, e), Operation(i, l, r))
      BY <1>1, <2>3, <3>3, <3>4, <3>5, <3>6, CombinedAgrees
    <3> QED
      BY <1>3, <1>5, <2>4, <2>6, <3>2, <3>3, <3>7
  <2> QED
    BY <2>5, <2>6
<1> QED
  BY <1>4, <1>5

\* A node that depends on nothing that can change is the same in both modes.
LEMMA SameShape ==
    ASSUME CoreInv, FollowInv, NEW i \in Nodes, NEW p \in Modes, NEW m \in Modes, NEW v,
           Rests(i, v, p), v.flags = {}, NEW f
    PROVE  Valued(Snapshot, i, m, f) = Valued(Snapshot, i, p, f)
<1>1. /\ GraphInv /\ StringInv /\ SpanInv /\ MemoInv
  BY DEF CoreInv
<1>2. graph[i].kind # "ADDRESS" /\ ~Redirected(graph[i], p)
  BY <1>1, MadeType DEF Rests
<1>3. graph[i].kind # "SPAN"
  <2> SUFFICES ASSUME graph[i].kind = "SPAN" PROVE FALSE
    OBVIOUS
  <2>1. PICK c : c = graph[i].left
    OBVIOUS
  <2>2. ~IsLeaf(graph[i], p) /\ First(graph[i], p) = c
    BY <1>2, <2>1 DEF IsLeaf, LiteralKinds, First
  <2>3. c \in Used(i, p) /\ c \in Nodes /\ AddressLeaf(c)
    BY <1>1, <2>1, <2>2, FirstOperand DEF Used, SpanInv
  <2>4. Usable(c, p) /\ MemoValue(memos[c][p]).flags \subseteq {}
    BY <2>3 DEF Rests, Usable
  <2> QED
    BY <2>3, <2>4, LeafLayout
<1>4. Snapshot.graph[i] = graph[i]
  BY SnapshotIs
<1> QED
  BY <1>2, <1>3, <1>4 DEF Valued

\* What is looked at without a cycle means the same on its own.
LEMMA LooksAt ==
    ASSUME NEW s, NEW in \in Modes, Closed(s), NEW x \in Contexts(s), ~Cyclic(Meanings(s, in)[x]),
           ~NoOperand(s, s.graph[x.node], in), NEW c,
           \/ c = Leading(s, s.graph[x.node], in)
           \/ /\ c = s.graph[x.node].right /\ s.graph[x.node].kind \in PairKinds
              /\ ~Decides(s.graph[x.node], in, Meanings(s, in)[Alone(Leading(s, s.graph[x.node], in))])
    PROVE  /\ c \in NodesOf(s) /\ c \notin Way(x)
           /\ ~Cyclic(Meanings(s, in)[Inside(x, c)])
           /\ Meanings(s, in)[Inside(x, c)] = Meanings(s, in)[Alone(c)]
           /\ Below(s, in, x)[c] = Meanings(s, in)[Alone(c)]
<1>1. PICK n : n = s.graph[x.node]
  OBVIOUS
<1>2. PICK h : h = Leading(s, n, in)
  OBVIOUS
<1>3. PICK M : M = Meanings(s, in)
  OBVIOUS
<1>4. PICK f : f = Below(s, in, x)
  OBVIOUS
<1>5. Len(s.graph) \in Nat /\ x.node \in NodesOf(s)
  BY ContextIs DEF Closed
<1>6. M[x] = Valued(s, x.node, in, f)
  BY <1>3, <1>4, <1>5, MeaningsAre
<1>7. /\ ~Cyclic(f[h])
      /\ ~Decides(n, in, f[h]) /\ n.kind \in PairKinds => ~Cyclic(f[n.right])
  BY <1>1, <1>2, <1>3, <1>6, NoCycleBelow
<1>8. ASSUME NEW k \in NodesOf(s), ~Cyclic(f[k])
      PROVE  /\ k \notin Way(x) /\ ~Cyclic(M[Inside(x, k)])
             /\ M[Inside(x, k)] = M[Alone(k)] /\ f[k] = M[Alone(k)]
  <2>1. /\ k \notin Way(x) /\ Inside(x, k) \in Contexts(s) /\ f[k] = M[Inside(x, k)]
        /\ ~Cyclic(M[Inside(x, k)])
    BY <1>3, <1>4, <1>5, <1>8, OffTheWay
  <2>2. Inside(x, k).node = k /\ {} \in SUBSET Inside(x, k).path
    BY DEF Inside
  <2>3. M[Alone(k)] = M[Inside(x, k)]
    BY <1>3, <2>1, <2>2, ShorterWay DEF Alone
  <2> QED
    BY <2>1, <2>3
<1>9. h \in NodesOf(s)
  BY <1>1, <1>2, <1>5 DEF Closed
<1>10. f[h] = M[Alone(h)]
  BY <1>7, <1>8, <1>9
<1>11. CASE c = h
  BY <1>3, <1>4, <1>7, <1>8, <1>9, <1>11
<1>12. CASE c = n.right /\ n.kind \in PairKinds /\ ~Decides(n, in, M[Alone(h)])
  <2>1. c \in NodesOf(s)
    BY <1>1, <1>5, <1>12 DEF Closed
  <2> QED
    BY <1>3, <1>4, <1>7, <1>8, <1>10, <1>12, <2>1
<1> QED
  BY <1>1, <1>2, <1>3, <1>11, <1>12

\* A node means what it makes of what its operands mean on their own.
LEMMA MeaningStep ==
    ASSUME NEW s, NEW in \in Modes, Closed(s), NEW i \in NodesOf(s), NEW f,
           \A c \in NodesOf(s) : f[c] = Meanings(s, in)[Alone(c)],
           ~Cyclic(Valued(s, i, in, f))
    PROVE  Meanings(s, in)[Alone(i)] = Valued(s, i, in, f)
<1>1. PICK n : n = s.graph[i]
  OBVIOUS
<1>2. PICK h : h = Leading(s, n, in)
  OBVIOUS
<1>3. PICK M : M = Meanings(s, in)
  OBVIOUS
<1>4. PICK x : x = Alone(i)
  OBVIOUS
<1>5. PICK g : g = Below(s, in, x)
  OBVIOUS
<1>6. /\ Len(s.graph) \in Nat /\ x \in Contexts(s) /\ x.node = i /\ x.path = {} /\ Way(x) = {i}
  BY <1>4 DEF Closed, Alone, Contexts, Way
<1>7. M[x] = Valued(s, i, in, g)
  BY <1>3, <1>5, <1>6, MeaningsAre
<1>8. ASSUME ~NoOperand(s, n, in), NEW c \in NodesOf(s), ~Cyclic(M[Alone(c)]),
             c = h \/ (c = n.right /\ n.kind \in PairKinds /\ ~Decides(n, in, M[Alone(h)]))
      PROVE  g[c] = f[c]
  <2>1. ASSUME NEW q \in SUBSET NodesOf(s), i \notin q, c \in q \cup {i}
        PROVE  Cyclic(M[[node |-> i, path |-> q]])
    <3> SUFFICES ASSUME ~Cyclic(M[[node |-> i, path |-> q]]) PROVE FALSE
      OBVIOUS
    <3>1. PICK y : y = [node |-> i, path |-> q]
      OBVIOUS
    <3>2. y \in Contexts(s) /\ y.node = i /\ Way(y) = q \cup {i}
      BY <2>1, <3>1 DEF Contexts, Way
    <3>3. c \notin Way(y)
      BY <1>1, <1>2, <1>3, <1>8, <3>1, <3>2, LooksAt
    <3> QED
      BY <2>1, <3>2, <3>3
  <2>2. c # i
    <3> SUFFICES ASSUME c = i PROVE FALSE
      OBVIOUS
    <3>1. Cyclic(M[[node |-> i, path |-> {}]])
      BY <2>1
    <3> QED
      BY <1>8, <3>1 DEF Alone
  <2>3. PICK z : z = Alone(c)
    OBVIOUS
  <2>4. z \in Contexts(s) /\ z.node = c /\ z.path = {} /\ Way(z) = {c}
    BY <2>3 DEF Alone, Contexts, Way
  <2>5. M[[node |-> z.node, path |-> z.path \cup {i}]] = M[z]
    <3>1. \A t \in {i} : \A q \in SUBSET NodesOf(s) :
              Way(z) \subseteq q /\ t \notin q => Cyclic(M[[node |-> t, path |-> q]])
      BY <2>1, <2>4
    <3>2. {i} \in SUBSET NodesOf(s) /\ z.node \notin {i} /\ ~Cyclic(M[z])
      BY <1>8, <2>2, <2>3, <2>4
    <3> QED
      BY <1>3, <2>4, <3>1, <3>2, LongerWay
  <2>6. Inside(x, c) = [node |-> z.node, path |-> z.path \cup {i}]
    BY <1>6, <2>4 DEF Inside
  <2>7. g[c] = M[Inside(x, c)]
    BY <1>3, <1>5, <1>6, <2>2 DEF Below
  <2> QED
    BY <1>3, <1>8, <2>3, <2>5, <2>6, <2>7
<1>9. ~NoOperand(s, n, in) =>
          /\ h \in NodesOf(s) /\ ~Cyclic(f[h])
          /\ ~Decides(n, in, f[h]) /\ n.kind \in PairKinds => n.right \in NodesOf(s) /\ ~Cyclic(f[n.right])
  <2> SUFFICES ASSUME ~NoOperand(s, n, in)
               PROVE  /\ h \in NodesOf(s) /\ ~Cyclic(f[h])
                      /\ ~Decides(n, in, f[h]) /\ n.kind \in PairKinds => n.right \in NodesOf(s) /\ ~Cyclic(f[n.right])
    OBVIOUS
  <2>1. ~NoOperand(s, s.graph[i], in)
    BY <1>1
  <2>2. h \in NodesOf(s) /\ (~Decides(n, in, f[h]) /\ n.kind \in PairKinds => n.right \in NodesOf(s))
    BY <1>1, <1>2 DEF Closed
  <2>3. /\ ~Cyclic(f[h])
        /\ ~Decides(n, in, f[h]) /\ n.kind \in PairKinds => ~Cyclic(f[n.right])
    BY <1>1, <1>2, <2>1, NoCycleBelow
  <2> QED
    BY <2>2, <2>3
<1>10. ~NoOperand(s, n, in) =>
          /\ g[h] = f[h]
          /\ ~Decides(n, in, f[h]) /\ n.kind \in PairKinds => g[n.right] = f[n.right]
  BY <1>3, <1>8, <1>9
<1>11. Valued(s, i, in, g) = Valued(s, i, in, f)
  BY <1>1, <1>2, <1>10, ValuedSame
<1> QED
  BY <1>3, <1>4, <1>7, <1>11

\* Every result that would be used says what its node means now, in its mode, and a
\* constant in the other mode as well.
MeaningInv ==
    \A i \in Nodes, o, m \in Modes :
        Usable(i, o) /\ (m = o \/ Shared(MemoValue(memos[i][o]))) =>
            Agrees(Meanings(Snapshot, m)[Alone(i)], MemoValue(memos[i][o]))

\* A result that is no cycle says the same as a meaning that is none.
LEMMA AgreesCycle ==
    ASSUME NEW d, NEW v, Agrees(d, v)
    PROVE  Cyclic(d) <=> IsCycle(v)
BY DEF Agrees, Cyclic, IsCycle

\* Every result that would be used says what its node means: the statement holds of a
\* node if it holds of the results it stands on.
LEMMA ResultsMean == ASSUME RunInv, GroundInv, JoinInv PROVE MeaningInv
<1> DEFINE Right(j, q) == \A m \in Modes : m = q \/ Shared(MemoValue(memos[j][q])) =>
                              Agrees(Meanings(Snapshot, m)[Alone(j)], MemoValue(memos[j][q]))
           S == {t \in Nodes \X Modes : Right(t[1], t[2])}
<1>1. /\ CoreInv /\ GraphInv /\ StringInv /\ MemoInv /\ TwinInv /\ FollowInv
  BY DEF RunInv, CoreInv
<1>2. ASSUME NEW i \in Nodes, NEW o \in Modes, Usable(i, o), Stands(S, i, o)
      PROVE  <<i, o>> \in S
  <2> SUFFICES ASSUME NEW m \in Modes, m = o \/ Shared(MemoValue(memos[i][o]))
               PROVE  Agrees(Meanings(Snapshot, m)[Alone(i)], MemoValue(memos[i][o]))
    OBVIOUS
  <2>1. PICK v : v = MemoValue(memos[i][o])
    OBVIOUS
  <2>2. IsValue(v) /\ ~IsCycle(v)
    <3>1. memos[i][o] \in MemoType /\ IsValue(v)
      BY <1>1, <2>1, NodeFields, MemosHoldValues
    <3> QED
      BY <1>2, <2>1, <3>1, MemoFields DEF Usable
  <2>3. PICK p \in Modes : /\ p = o \/ Shared(v)
                          /\ Rests(i, v, p)
                          /\ \A c \in Used(i, p) : <<c, p>> \in S
    BY <1>2, <2>1 DEF Stands
  <2>4. p = m \/ v.flags = {}
    BY <2>1, <2>3 DEF Shared
  <2>5. PICK f : f = [c \in Nodes |-> Meanings(Snapshot, m)[Alone(c)]]
    OBVIOUS
  <2>6. ASSUME NEW c \in Used(i, p)
        PROVE  Current(c, p) /\ Agrees(f[c], MemoValue(memos[c][p]))
    <3>1. PICK w : w = MemoValue(memos[c][p])
      OBVIOUS
    <3>2. Current(c, p) /\ c \in Nodes /\ w.flags \subseteq v.flags /\ ~IsCycle(memos[c][p])
      BY <2>3, <3>1 DEF Rests
    <3>3. p = m \/ Shared(w)
      <4>1. memos[c][p] \in MemoType
        BY <1>1, <3>2, NodeFields, MemosHoldValues
      <4>2. ~IsCycle(w)
        BY <3>1, <3>2, <4>1, MemoFields
      <4> QED
        BY <2>4, <3>2, <4>2 DEF Shared, IsCycle
    <3>4. Agrees(Meanings(Snapshot, m)[Alone(c)], w)
      BY <2>3, <3>1, <3>3
    <3> QED
      BY <2>5, <3>1, <3>2, <3>4
  <2>7. v = Made(i, p)
    BY <2>3 DEF Rests
  <2>8. Agrees(Valued(Snapshot, i, p, f), v)
    BY <1>1, <2>2, <2>6, <2>7, BodyAgrees DEF RunInv
  <2>9. Valued(Snapshot, i, m, f) = Valued(Snapshot, i, p, f)
    BY <1>1, <2>3, <2>4, SameShape
  <2>10. ~Cyclic(Valued(Snapshot, i, m, f))
    BY <2>2, <2>8, <2>9, AgreesCycle
  <2>11. /\ Closed(Snapshot) /\ i \in NodesOf(Snapshot)
         /\ \A c \in NodesOf(Snapshot) : f[c] = Meanings(Snapshot, m)[Alone(c)]
    BY <1>1, <2>5, SnapshotIs, SnapshotClosed
  <2>12. Meanings(Snapshot, m)[Alone(i)] = Valued(Snapshot, i, m, f)
    BY <2>10, <2>11, MeaningStep
  <2> QED
    BY <2>1, <2>8, <2>9, <2>12
<1>3. \A i \in Nodes, o \in Modes : Usable(i, o) => <<i, o>> \in S
  <2> HIDE DEF S
  <2> QED
    BY <1>2 DEF GroundInv
<1> QED
  BY <1>3 DEF MeaningInv

-----------------------------------------------------------------------------
(* The way of the evaluator *)

\* The nodes on the stack.
Ids == {stack[k].id : k \in 1..Len(stack)}

\* The meanings in the mode of the query.
Meant == Meanings(Snapshot, mode)

\* What node i looks at, by what the first operand means.
Looks(i, c) ==
    /\ ~IsLeaf(graph[i], mode)
    /\ \/ c = First(graph[i], mode)
       \/ /\ c = graph[i].right /\ graph[i].kind \in PairKinds
          /\ ~Decides(graph[i], mode, Meant[Alone(First(graph[i], mode))])

\* The operand that the frame on top waits for.
Awaited == IF Top.phase = 1 THEN First(Here, mode) ELSE Here.right

\* A cycle that was found by this query.
CurrentCycle(i) == Current(i, mode) /\ IsCycle(memos[i][mode])

\* A cycle is what the frame on top waits for, or the answer, as it is on this way.
CycleHere ==
    IF stack = <<>>
    THEN IsCycle(memos[query][mode]) => Agrees(Meant[Alone(query)], MemoValue(memos[query][mode]))
    ELSE /\ Top.phase # 0 /\ CurrentCycle(Awaited)
         /\ Agrees(Meant[[node |-> Awaited, path |-> Ids]], MemoValue(memos[Awaited][mode]))

\* During a query the stack starts at its root or its root has a result, a frame in its
\* second phase goes on from an operand that did not decide, and a cycle is around only
\* where the stack waits for it.
WalkInv ==
    query # 0 =>
        /\ answer = NoAnswer
        /\ IF stack = <<>> THEN Current(query, mode) ELSE stack[1].id = query
        /\ \A k \in 1..Len(stack) : stack[k].phase = 2 => ~Passes(stack[k].id, mode)
        /\ (\E i \in Nodes : CurrentCycle(i)) => CycleHere

\* A first operand that does not decide is a result.
LEMMA FirstUsable ==
    ASSUME GraphInv, MemoInv, mode \in Modes, NEW i \in Nodes, ~IsLeaf(graph[i], mode),
           Current(First(graph[i], mode), mode), ~Passes(i, mode)
    PROVE  Usable(First(graph[i], mode), mode)
<1>1. PICK h \in Nodes : h = First(graph[i], mode)
  BY FirstOperand
<1>2. memos[h][mode] \in MemoType
  BY NodeFields, MemosHoldValues
<1>3. MemoValue(memos[h][mode]).state # "INVALID"
  BY <1>1 DEF Passes, PassesOn, FirstValue
<1>4. ~IsCycle(memos[h][mode])
  BY <1>2, <1>3, MemoFields DEF IsCycle
<1> QED
  BY <1>1, <1>4 DEF Usable

\* What is used is looked at.
LEMMA UsedLooks ==
    ASSUME GraphInv, MemoInv, MeaningInv, mode \in Modes, NEW i \in Nodes, NEW c \in Used(i, mode),
           Current(First(graph[i], mode), mode)
    PROVE  Looks(i, c)
<1>1. ~IsLeaf(graph[i], mode)
  BY DEF Used
<1>2. PICK h \in Nodes : h = First(graph[i], mode)
  BY <1>1, FirstOperand
<1>3. CASE c = h
  BY <1>1, <1>2, <1>3 DEF Looks
<1>4. CASE c # h
  <2>1. ~Passes(i, mode) /\ graph[i].kind \in PairKinds /\ c = graph[i].right
    BY <1>1, <1>2, <1>4 DEF Used
  <2>2. Usable(h, mode)
    BY <1>1, <1>2, <2>1, FirstUsable
  <2>3. Agrees(Meant[Alone(h)], MemoValue(memos[h][mode]))
    BY <2>2 DEF MeaningInv, Meant
  <2>4. ~Decides(graph[i], mode, Meant[Alone(h)])
    BY <1>2, <2>1, <2>3, DecidesAgrees DEF Passes, FirstValue
  <2> QED
    BY <1>1, <1>2, <2>1, <2>4 DEF Looks
<1> QED
  BY <1>3, <1>4

\* A node that is reached with an operand on the way meets a cycle.
LEMMA LooksBack ==
    ASSUME GraphInv, mode \in Modes, NEW i \in Nodes, NEW c, Looks(i, c),
           NEW q \in SUBSET Nodes, i \notin q, ~Cyclic(Meant[[node |-> i, path |-> q]])
    PROVE  /\ c \in Nodes /\ c \notin q \cup {i}
           /\ ~Cyclic(Meant[[node |-> c, path |-> q \cup {i}]])
<1>1. PICK s : s = Snapshot
  OBVIOUS
<1>2. PICK x : x = [node |-> i, path |-> q]
  OBVIOUS
<1>3. /\ Closed(s) /\ NodesOf(s) = Nodes /\ s.graph = graph
      /\ \A n, m : (NoOperand(s, n, m) <=> IsLeaf(n, m)) /\ Leading(s, n, m) = First(n, m)
  BY <1>1, SnapshotIs, SnapshotClosed
<1>4. x \in Contexts(s) /\ x.node = i /\ Way(x) = q \cup {i}
  BY <1>2, <1>3 DEF Contexts, Way
<1>5. Meanings(s, mode) = Meant
  BY <1>1 DEF Meant
<1>6. /\ ~Cyclic(Meanings(s, mode)[x]) /\ ~NoOperand(s, s.graph[x.node], mode)
      /\ \/ c = Leading(s, s.graph[x.node], mode)
         \/ /\ c = s.graph[x.node].right /\ s.graph[x.node].kind \in PairKinds
            /\ ~Decides(s.graph[x.node], mode, Meanings(s, mode)[Alone(Leading(s, s.graph[x.node], mode))])
  <2>1. s.graph[x.node] = graph[i]
    BY <1>3, <1>4
  <2> QED
    BY <1>2, <1>3, <1>5, <2>1 DEF Looks
<1>7. /\ c \in NodesOf(s) /\ c \notin Way(x) /\ ~Cyclic(Meanings(s, mode)[Inside(x, c)])
  BY <1>3, <1>4, <1>6, LooksAt
<1>8. Inside(x, c) = [node |-> c, path |-> q \cup {i}]
  BY <1>4 DEF Inside
<1> QED
  BY <1>3, <1>4, <1>5, <1>7, <1>8

\* A frame looks at what the one above it evaluates.
LEMMA FrameLooks ==
    ASSUME GraphInv, MemoInv, FrameInv, MeaningInv,
           \A k \in 1..Len(stack) : stack[k].phase = 2 => ~Passes(stack[k].id, mode),
           NEW k \in 1..Len(stack) - 1
    PROVE  stack[k].id \in Nodes /\ stack[k + 1].id \in Nodes /\ Looks(stack[k].id, stack[k + 1].id)
<1>1. /\ stack \in Seq(Frame) /\ Len(stack) \in Nat /\ k \in 1..Len(stack) /\ k + 1 \in 1..Len(stack)
      /\ k # Len(stack) /\ mode \in Modes
  BY DEF FrameInv
<1>2. /\ stack[k] \in Frame /\ stack[k + 1] \in Frame /\ stack[k].phase # 0 /\ Waits(k)
  BY <1>1 DEF FrameInv
<1>3. PICK i \in Nodes : i = stack[k].id
  BY <1>2 DEF Frame
<1>4. PICK c \in Nodes : c = stack[k + 1].id
  BY <1>2 DEF Frame
<1>5. /\ ~IsLeaf(graph[i], mode)
      /\ stack[k].phase = 1 => c = First(graph[i], mode)
      /\ stack[k].phase = 2 => /\ graph[i].kind \in PairKinds /\ ~Redirected(graph[i], mode)
                               /\ Current(graph[i].left, mode) /\ c = graph[i].right
  BY <1>1, <1>2, <1>3, <1>4 DEF Waits, Awaits
<1>6. CASE stack[k].phase = 1
  BY <1>3, <1>4, <1>5, <1>6 DEF Looks
<1>7. CASE stack[k].phase = 2
  <2>1. First(graph[i], mode) = graph[i].left
    BY <1>1, <1>5, <1>7, FirstOperand
  <2>2. ~Passes(i, mode)
    BY <1>1, <1>3, <1>7
  <2>3. c \in Used(i, mode)
    BY <1>5, <1>7, <2>2 DEF Used
  <2> QED
    BY <1>1, <1>3, <1>4, <1>5, <1>7, <2>1, <2>3, UsedLooks
<1> QED
  BY <1>2, <1>6, <1>7 DEF Frame

\* Whoever is reached from the frames on the stack with their operand on the way meets a cycle.
LEMMA StackShut ==
    ASSUME GraphInv, MemoInv, FrameInv, MeaningInv, stack # <<>>,
           \A k \in 1..Len(stack) : stack[k].phase = 2 => ~Passes(stack[k].id, mode),
           NEW c, Looks(Top.id, c)
    PROVE  \A t \in Ids : \A q \in SUBSET Nodes :
               c \in q /\ t \notin q => Cyclic(Meant[[node |-> t, path |-> q]])
<1> DEFINE Shut(t) == \A q \in SUBSET Nodes : c \in q /\ t \notin q => Cyclic(Meant[[node |-> t, path |-> q]])
           S == {j \in 0..Len(stack) - 1 : Shut(stack[Len(stack) - j].id)}
<1>0. PICK L \in Nat \ {0} : L = Len(stack)
  BY TopFrame DEF FrameInv
<1>1. /\ Len(stack) \in Nat \ {0} /\ Top = stack[Len(stack)] /\ Top.id \in Nodes /\ mode \in Modes
  BY TopFrame DEF FrameInv
<1>2. Shut(Top.id)
  BY <1>1, LooksBack
<1>3. 0 \in S
  BY <1>1, <1>2
<1>4. ASSUME NEW j \in 0..Len(stack) - 2, Shut(stack[Len(stack) - j].id)
      PROVE  Shut(stack[Len(stack) - (j + 1)].id)
  <2>1. PICK k \in 1..Len(stack) - 1 : k = Len(stack) - (j + 1) /\ k + 1 = Len(stack) - j
    <3>1. j \in 0..L - 2
      BY <1>0
    <3>2. L - (j + 1) \in 1..L - 1 /\ L - (j + 1) + 1 = L - j
      BY <3>1
    <3> QED
      BY <1>0, <3>2
  <2>2. stack[k].id \in Nodes /\ stack[k + 1].id \in Nodes /\ Looks(stack[k].id, stack[k + 1].id)
    BY FrameLooks
  <2>3. PICK t \in Nodes : t = stack[k].id
    BY <2>2
  <2>4. PICK u \in Nodes : u = stack[k + 1].id
    BY <2>2
  <2>5. Shut(u)
    BY <1>4, <2>1, <2>4
  <2>6. ASSUME NEW q \in SUBSET Nodes, c \in q, t \notin q, ~Cyclic(Meant[[node |-> t, path |-> q]])
        PROVE  FALSE
    <3>1. u \notin q \cup {t} /\ ~Cyclic(Meant[[node |-> u, path |-> q \cup {t}]])
      BY <1>1, <2>2, <2>3, <2>4, <2>6, LooksBack
    <3>2. q \cup {t} \in SUBSET Nodes /\ c \in q \cup {t}
      BY <2>6
    <3> QED
      BY <2>5, <3>1, <3>2
  <2> QED
    BY <2>1, <2>3, <2>6
<1>5. \A j \in 0..Len(stack) - 2 : j \in S => j + 1 \in S
  <2> SUFFICES ASSUME NEW j \in 0..Len(stack) - 2, j \in S PROVE j + 1 \in S
    OBVIOUS
  <2>1. j + 1 \in 0..Len(stack) - 1
    BY <1>1
  <2> HIDE DEF Shut
  <2> QED
    BY <1>4, <2>1
<1>6. ASSUME NEW k \in 1..Len(stack) PROVE Shut(stack[k].id)
  <2>1. PICK n \in 0..Len(stack) - 1 : n = Len(stack) - k /\ Len(stack) - n = k
    <3>1. k \in 1..L
      BY <1>0
    <3>2. L - k \in 0..L - 1 /\ L - (L - k) = k
      BY <3>1
    <3> QED
      BY <1>0, <3>2
  <2>2. \A j \in 0..n - 1 : j \in S => j + 1 \in S
    <3>1. \A j \in 0..n - 1 : j \in 0..Len(stack) - 2
      BY <1>1
    <3> HIDE DEF S
    <3> QED
      BY <1>5, <3>1
  <2>3. n \in S
    <3> HIDE DEF S
    <3> QED
      BY <1>3, <2>2, Climbs
  <2> HIDE DEF Shut
  <2> QED
    BY <2>1, <2>3
<1> QED
  BY <1>6 DEF Ids

\* The way of the frame on top.
WayHere == [node |-> Top.id, path |-> Ids \ {Top.id}]

\* The nodes on the stack are the way to the node on top, and none of them but the
\* one on top can have a result yet.
LEMMA WayIs ==
    ASSUME GraphInv, FrameInv, stack # <<>>
    PROVE  /\ WayHere \in Contexts(Snapshot) /\ WayHere.node = Top.id /\ Way(WayHere) = Ids
           /\ Ids \in SUBSET Nodes /\ Top.id \in Ids
           /\ Meant[WayHere] = Valued(Snapshot, Top.id, mode, Below(Snapshot, mode, WayHere))
           /\ \A k \in 1..Len(stack) : k # Len(stack) \/ Top.phase # 0 => ~Current(stack[k].id, mode)
<1>1. /\ Len(stack) \in 1..Len(stack) /\ Len(stack) \in Nat \ {0} /\ Top = stack[Len(stack)]
      /\ stack \in Seq(Frame)
  BY TopFrame DEF FrameInv
<1>2. Ids \in SUBSET Nodes /\ Top.id \in Ids
  <2>1. \A k \in 1..Len(stack) : stack[k] \in Frame
    BY <1>1
  <2>3. \A x \in Frame : x.id \in Nodes
    BY DEF Frame
  <2>2. Top.id \in Ids
    BY <1>1 DEF Ids
  <2> QED
    BY <2>1, <2>2, <2>3 DEF Ids
<1>3. /\ WayHere.node = Top.id /\ Way(WayHere) = Ids
  BY <1>2 DEF WayHere, Way
<1>4. WayHere \in Contexts(Snapshot)
  BY <1>2, SnapshotIs DEF WayHere, Contexts
<1>5. Len(Snapshot.graph) \in Nat
  BY SnapshotIs DEF GraphInv
<1>6. Meant[WayHere] = Valued(Snapshot, Top.id, mode, Below(Snapshot, mode, WayHere))
  BY <1>3, <1>4, <1>5, MeaningsAre DEF Meant
<1>7. ASSUME NEW k \in 1..Len(stack), k # Len(stack) \/ Top.phase # 0 PROVE ~Current(stack[k].id, mode)
  <2>1. stack[k].phase # 0
    BY <1>1, <1>7 DEF FrameInv
  <2> QED
    BY <2>1 DEF FrameInv, Waits
<1> QED
  BY <1>2, <1>3, <1>4, <1>6, <1>7

\* A result that the frame on top looks at says what its operand means on this way.
LEMMA OperandMeans ==
    ASSUME GraphInv, MemoInv, FrameInv, MeaningInv, stack # <<>>, ~Current(Top.id, mode),
           \A k \in 1..Len(stack) : stack[k].phase = 2 => ~Passes(stack[k].id, mode),
           NEW c \in Nodes, Looks(Top.id, c), Usable(c, mode)
    PROVE  Agrees(Below(Snapshot, mode, WayHere)[c], MemoValue(memos[c][mode]))
<1>1. /\ mode \in Modes /\ Len(stack) \in 1..Len(stack) /\ Top = stack[Len(stack)]
  BY TopFrame DEF FrameInv
<1>2. \A t \in Ids : ~Current(t, mode)
  BY <1>1, WayIs DEF Ids
<1>3. c \notin Ids
  BY <1>2 DEF Usable
<1>4. PICK s : s = Snapshot
  OBVIOUS
<1>5. Meanings(s, mode) = Meant
  BY <1>4 DEF Meant
<1>6. Closed(s) /\ NodesOf(s) = Nodes
  BY <1>4, SnapshotIs, SnapshotClosed
<1>7. PICK v : v = MemoValue(memos[c][mode])
  OBVIOUS
<1>8. Agrees(Meanings(s, mode)[Alone(c)], v) /\ ~IsCycle(v)
  <2>1. Agrees(Meanings(s, mode)[Alone(c)], v)
    BY <1>1, <1>4, <1>5, <1>7 DEF MeaningInv
  <2>2. memos[c][mode] \in MemoType
    BY <1>1, NodeFields, MemosHoldValues
  <2> QED
    BY <1>7, <2>1, <2>2, MemoFields DEF Usable
<1>9. PICK z : z = Alone(c)
  OBVIOUS
<1>10. z \in Contexts(s) /\ z.node = c /\ z.path = {} /\ Way(z) = {c}
  BY <1>6, <1>9 DEF Alone, Contexts, Way
<1>11. ~Cyclic(Meanings(s, mode)[z])
  BY <1>8, <1>9, AgreesCycle
<1>12. \A t \in Ids : \A q \in SUBSET Nodes :
               c \in q /\ t \notin q => Cyclic(Meanings(s, mode)[[node |-> t, path |-> q]])
  BY <1>5, StackShut
<1>13. Meanings(s, mode)[[node |-> z.node, path |-> z.path \cup Ids]] = Meanings(s, mode)[z]
  <2>0. PICK r : r = Ids
    OBVIOUS
  <2>1. r \in SUBSET NodesOf(s) /\ z.node \notin r
    BY <1>3, <1>6, <1>10, <2>0, WayIs
  <2>2. \A t \in r : \A q \in SUBSET NodesOf(s) :
            Way(z) \subseteq q /\ t \notin q => Cyclic(Meanings(s, mode)[[node |-> t, path |-> q]])
    BY <1>6, <1>10, <1>12, <2>0
  <2>3. Meanings(s, mode)[[node |-> z.node, path |-> z.path \cup r]] = Meanings(s, mode)[z]
    BY <1>1, <1>6, <1>10, <1>11, <2>1, <2>2, LongerWay
  <2> QED
    BY <2>0, <2>3
<1>14. Below(s, mode, WayHere)[c] = Meanings(s, mode)[Inside(WayHere, c)]
  BY <1>3, <1>5, <1>6, WayIs DEF Below
<1>15. Inside(WayHere, c) = [node |-> z.node, path |-> z.path \cup Ids]
  BY <1>10, WayIs DEF Inside
<1> QED
  BY <1>4, <1>7, <1>8, <1>9, <1>13, <1>14, <1>15

-----------------------------------------------------------------------------
(* A cycle is passed on along the way it was found on *)

\* There is no cycle around while a new operand is looked at.
LEMMA NoCycleYet ==
    ASSUME FrameInv, GraphInv, WalkInv, query # 0, stack # <<>>,
           \/ Current(Top.id, mode) \/ Top.phase = 0
           \/ Top.phase = 1 /\ ~Passes(Top.id, mode)
    PROVE  \A i \in Nodes : ~CurrentCycle(i)
<1> SUFFICES ASSUME NEW i \in Nodes, CurrentCycle(i) PROVE FALSE
  OBVIOUS
<1>1. Top.phase # 0 /\ CurrentCycle(Awaited)
  BY DEF WalkInv, CycleHere
<1>2. ~Current(Top.id, mode)
  BY <1>1, WayIs, TopFrame
<1>3. Top.phase = 1 /\ ~Passes(Top.id, mode)
  BY <1>1, <1>2
<1>4. CurrentCycle(First(graph[Top.id], mode))
  BY <1>1, <1>3 DEF Awaited, Here
<1>5. FirstValue(Top.id, mode).state = "INVALID"
  BY <1>4 DEF CurrentCycle, IsCycle, FirstValue, MemoValue
<1> QED
  BY <1>3, <1>5 DEF Passes, PassesOn

\* A cycle that is passed on is what the node means on its way, and every cycle is passed on.
LEMMA CycleMade ==
    ASSUME RunInv, MeaningInv, JoinInv, WalkInv, query # 0, stack # <<>>, ~Current(Top.id, mode),
           NEW v, Making(Top.id, v)
    PROVE  /\ IsCycle(v) => NoNewString /\ Agrees(Meant[WayHere], v)
           /\ ~IsCycle(v) => \A i \in Nodes : ~CurrentCycle(i)
<1>1. /\ CoreInv /\ GraphInv /\ SpanInv /\ StringInv /\ MemoInv /\ FrameInv /\ TwinInv /\ mode \in Modes
  BY DEF RunInv, CoreInv, FrameInv
<1>2. PICK i \in Nodes : i = Top.id
  BY <1>1, TopFrame
<1>3. /\ v = Made(i, mode) /\ \A c \in Used(i, mode) : Current(c, mode)
      /\ Top.phase = 0 <=> IsLeaf(graph[i], mode)
  BY <1>2 DEF Making
<1>4. \A k \in 1..Len(stack) : stack[k].phase = 2 => ~Passes(stack[k].id, mode)
  BY DEF WalkInv
<1>5. Top.phase = 2 => ~Passes(i, mode) /\ graph[i].kind \in PairKinds
  BY <1>1, <1>2, <1>4, TopFrame DEF Making
<1>6. Top.phase # 0 => Top.phase \in 1..2
  BY <1>1, TopFrame
<1>7. Top.phase # 0 =>
          /\ Awaited = IF Top.phase = 1 THEN First(graph[i], mode) ELSE graph[i].right
          /\ Awaited \in Used(i, mode)
  BY <1>2, <1>3, <1>5, <1>6 DEF Awaited, Here, Used
<1>8. ASSUME ~IsCycle(v), NEW j \in Nodes, CurrentCycle(j) PROVE FALSE
  <2>1. Top.phase # 0 /\ CurrentCycle(Awaited)
    BY <1>8 DEF WalkInv, CycleHere
  <2> QED
    BY <1>1, <1>3, <1>7, <1>8, <2>1, MadeType DEF CurrentCycle
<1>9. ASSUME IsCycle(v) PROVE NoNewString /\ Agrees(Meant[WayHere], v)
  <2>1. NoNewString
    BY <1>2, <1>9 DEF Making, Joins, NewJoin, IsCycle
  <2>2. IsValue(Made(i, mode))
    BY <1>1, <1>3, <1>9, MadeType DEF IsValue, IsCycle
  <2>3. PICK f : f = Below(Snapshot, mode, WayHere)
    OBVIOUS
  <2>4. ASSUME NEW c \in Used(i, mode) PROVE Agrees(f[c], MemoValue(memos[c][mode]))
    <3>1. /\ c \in Nodes /\ ~IsLeaf(graph[i], mode) /\ Current(c, mode)
          /\ First(graph[i], mode) \in Used(i, mode) /\ Current(First(graph[i], mode), mode)
      BY <1>1, <1>3, UsedOperands DEF Used
    <3>2. Looks(i, c)
      BY <1>1, <3>1, UsedLooks
    <3>3. CASE ~IsCycle(memos[c][mode])
      BY <1>1, <1>2, <1>4, <2>3, <3>1, <3>2, <3>3, OperandMeans DEF Usable
    <3>4. CASE IsCycle(memos[c][mode])
      <4>1. /\ Top.phase # 0 /\ CurrentCycle(Awaited)
            /\ Agrees(Meant[[node |-> Awaited, path |-> Ids]], MemoValue(memos[Awaited][mode]))
        BY <3>1, <3>4 DEF WalkInv, CycleHere, CurrentCycle
      <4>2. c = Awaited
        <5>1. \A d : IsCycle(memos[d][mode]) /\ d = First(graph[i], mode) => Passes(i, mode)
          BY DEF IsCycle, Passes, PassesOn, FirstValue, MemoValue
        <5>2. CASE Top.phase = 1
          <6>1. Passes(i, mode)
            BY <1>7, <4>1, <5>1, <5>2 DEF CurrentCycle
          <6> QED
            BY <1>7, <4>1, <5>2, <6>1 DEF Used
        <5>3. CASE Top.phase = 2
          <6>1. c # First(graph[i], mode)
            BY <1>5, <3>4, <5>1, <5>3
          <6> QED
            BY <1>5, <1>7, <4>1, <5>3, <6>1 DEF Used
        <5> QED
          BY <1>6, <4>1, <5>2, <5>3
      <4>3. c \notin Ids
        <5>1. \A t \in Ids : ~Current(t, mode)
          BY <1>1, <4>1, WayIs DEF Ids
        <5> QED
          BY <3>1, <5>1
      <4>4. f[c] = Meant[Inside(WayHere, c)]
        BY <1>1, <2>3, <3>1, <4>3, WayIs, SnapshotIs DEF Below, Meant
      <4>5. Inside(WayHere, c) = [node |-> c, path |-> Ids]
        BY <1>1, WayIs DEF Inside
      <4> QED
        BY <4>1, <4>2, <4>4, <4>5
    <3> QED
      BY <3>3, <3>4
  <2>5. Agrees(Valued(Snapshot, i, mode, f), Made(i, mode))
    BY <1>1, <1>3, <2>2, <2>4, BodyAgrees
  <2> QED
    BY <1>1, <1>2, <1>3, <2>1, <2>3, <2>5, WayIs
<1> QED
  BY <1>8, <1>9

\* The diagnostic of a closing cycle.
LEMMA CycleFields ==
    ASSUME NEW c, NEW phase
    PROVE  /\ CycleAt(c, phase).state = "INVALID" /\ CycleAt(c, phase).error = "CYCLE"
           /\ CycleAt(c, phase).at = c
BY DEF CycleAt, WithFlags, Invalid

\* A node whose operand is on its way means the cycle that the operand closes.
LEMMA CycleClosed ==
    ASSUME RunInv, MeaningInv, WalkInv, query # 0, stack # <<>>, ~Current(Top.id, mode),
           NEW c, NEW phase, Looking(c, phase), c \in visiting \cup {Top.id}
    PROVE  Agrees(Meant[WayHere], CycleAt(c, phase))
<1>1. /\ CoreInv /\ GraphInv /\ SpanInv /\ StringInv /\ MemoInv /\ FrameInv /\ TwinInv /\ mode \in Modes
  BY DEF RunInv, CoreInv, FrameInv
<1>2. PICK i \in Nodes : i = Top.id
  BY <1>1, TopFrame
<1>3. PICK n : n = graph[i]
  OBVIOUS
<1>4. c \in Ids /\ c \in Nodes
  BY <1>1, WayIs DEF FrameInv, Ids
<1>5. PICK f : f = Below(Snapshot, mode, WayHere)
  OBVIOUS
<1>6. f[c] = Circular(c)
  BY <1>1, <1>4, <1>5, WayIs, SnapshotIs DEF Below
<1>7. Circular(c).state = "INVALID" /\ Circular(c).error = "CYCLE" /\ Circular(c).at = c
  BY DEF Circular, Meaning
<1>8. ~IsLeaf(n, mode)
  BY <1>1, <1>2, <1>3, OperandsReady DEF Looking, Here
<1>9. Meant[WayHere] = IF Decides(n, mode, f[First(n, mode)]) THEN Decided(i, n, mode, f[First(n, mode)])
                       ELSE Combined(Snapshot, i, f[First(n, mode)], Partner(n, f))
  <2>1. PICK s : s = Snapshot
    OBVIOUS
  <2>2. s.graph[i] = n /\ ~NoOperand(s, n, mode) /\ Leading(s, n, mode) = First(n, mode)
    BY <1>3, <1>8, <2>1, SnapshotIs
  <2>3. Valued(s, i, mode, f) =
          IF NoOperand(s, n, mode) THEN Ground(s, n)
          ELSE IF Decides(n, mode, f[Leading(s, n, mode)]) THEN Decided(i, n, mode, f[Leading(s, n, mode)])
          ELSE Combined(s, i, f[Leading(s, n, mode)], Partner(n, f))
    BY <1>1, <2>2, ValuedIs
  <2>4. Meant[WayHere] = Valued(s, i, mode, f)
    BY <1>1, <1>2, <1>5, <2>1, WayIs
  <2> QED
    BY <2>1, <2>2, <2>3, <2>4
<1>10. CASE phase = 1
  <2>1. c = First(n, mode)
    BY <1>2, <1>3, <1>10 DEF Looking, Here
  <2>2. Decides(n, mode, f[First(n, mode)])
    BY <1>6, <1>7, <2>1 DEF Decides
  <2>3. /\ Decided(i, n, mode, Circular(c)).state = "INVALID"
        /\ Decided(i, n, mode, Circular(c)).error = "CYCLE"
        /\ Decided(i, n, mode, Circular(c)).at = c
    BY <1>7 DEF Decided, Measured, Meaning
  <2> QED
    BY <1>6, <1>9, <2>1, <2>2, <2>3, CycleFields DEF Agrees
<1>11. CASE phase = 2
  <2>1. Top.phase = 1 /\ ~Passes(i, mode) /\ n.kind \in PairKinds /\ c = n.right
    BY <1>2, <1>3, <1>11 DEF Looking, Here
  <2>2. PICK h \in Nodes : h = First(n, mode)
    BY <1>1, <1>3, <1>8, FirstOperand
  <2>3. Current(h, mode)
    BY <1>1, <1>2, <1>3, <2>1, <2>2, OperandsReady DEF Here
  <2>4. Usable(h, mode)
    BY <1>1, <1>3, <1>8, <2>1, <2>2, <2>3, FirstUsable
  <2>5. Looks(i, h)
    BY <1>3, <1>8, <2>2 DEF Looks
  <2>6. Agrees(f[h], MemoValue(memos[h][mode]))
    BY <1>1, <1>2, <1>5, <2>4, <2>5, OperandMeans DEF WalkInv
  <2>7. ~Decides(n, mode, f[h])
    BY <1>3, <2>1, <2>2, <2>6, DecidesAgrees DEF Passes, FirstValue
  <2>8. Meant[WayHere] = Combined(Snapshot, i, f[h], Circular(c))
    BY <1>6, <1>9, <2>1, <2>2, <2>7 DEF Partner
  <2>9. Combined(Snapshot, i, f[h], Circular(c)) = Circular(c)
    BY <1>7 DEF Combined
  <2> QED
    BY <1>7, <2>8, <2>9, CycleFields DEF Agrees
<1> QED
  BY <1>10, <1>11 DEF Looking

-----------------------------------------------------------------------------
(* The walk of a query *)

\* What the frames below a finished one wait for is not disturbed.
LEMMA PassesStill ==
    ASSUME GraphInv, FrameInv, NEW k \in 1..Len(stack), stack[k].phase = 2, NEW t, t = stack[k].id,
           ~Passes(t, mode), mode' = mode, bound' = bound, prefix' = prefix,
           \A i \in Nodes : Alike(graph'[i], graph[i]),
           \A i \in Nodes : Current(i, mode) => memos'[i] = memos[i]
    PROVE  ~Passes(t, mode)'
<1>1. PICK m \in Modes : m = mode
  BY DEF FrameInv
<1>2. stack[k] \in Frame
  BY DEF FrameInv
<1>3. PICK i \in Nodes : i = t
  BY <1>2 DEF Frame
<1>4. /\ graph[i].kind \in PairKinds /\ ~Redirected(graph[i], m) /\ ~IsLeaf(graph[i], m)
      /\ Current(graph[i].left, m)
  BY <1>1, <1>3 DEF FrameInv, Waits
<1>5. PICK c \in Nodes : c = graph[i].left
  BY <1>4, FirstOperand, <1>1
<1>6. First(graph[i], m) = c
  BY <1>4, <1>5, FirstOperand, <1>1
<1>7. memos'[c] = memos[c]
  BY <1>1, <1>4, <1>5
<1>8. First(graph[i], m)' = c
  <2>1. PICK n : n = graph'[i]
    OBVIOUS
  <2>2. n.kind \in PairKinds /\ ~Redirected(n, m) /\ n.left = c
    BY <1>4, <1>5, <2>1 DEF Alike, Redirected
  <2>3. First(n, m)' = n.left
    BY <2>2 DEF First, Redirected, PairKinds
  <2> QED
    BY <2>1, <2>2, <2>3
<1>9. PICK l : l = MemoValue(memos[c][m])
  OBVIOUS
<1>10. l = MemoValue(memos'[c][m]) /\ ~PassesOn(graph[i], l, m)
  BY <1>1, <1>3, <1>6, <1>7, <1>9 DEF Passes, FirstValue
<1>11. ~PassesOn(graph'[i], l, m)
  BY <1>10 DEF PassesOn, Alike, Redirected
<1>12. ~Passes(i, m)'
  <2>1. FirstValue(i, m)' = MemoValue(memos'[c][m])
    BY <1>8 DEF FirstValue
  <2>2. Passes(i, m)' <=> PassesOn(graph'[i], FirstValue(i, m)', m)
    BY DEF Passes
  <2> QED
    BY <1>10, <1>11, <2>1, <2>2
<1> QED
  BY <1>1, <1>3, <1>12

\* A result that is left behind on the way keeps the walk.
LEMMA FinishWalks ==
    ASSUME GraphInv, MemoInv, FrameInv, WalkInv, query # 0, stack # <<>>, ~Current(Top.id, mode),
           NEW v \in ValueType, v.state # "KNOWN" => v.num = 0, v.state = "KNOWN" => "BINDING" \notin v.flags,
           Finish(v), Still, Nodes' = Nodes, \A i \in Nodes : Alike(graph'[i], graph[i]),
           IsCycle(v) => NoNewString /\ Agrees(Meant[WayHere], v),
           ~IsCycle(v) => \A i \in Nodes : ~CurrentCycle(i)
    PROVE  WalkInv'
<1>1. PICK m \in Modes : m = mode
  BY DEF FrameInv
<1>2. PICK i \in Nodes : i = Top.id
  BY TopFrame
<1>3. PICK L \in Nat \ {0} : L = Len(stack)
  BY TopFrame
<1>4. /\ stack' = Popped /\ Len(stack') = L - 1 /\ (\A k \in 1..L - 1 : stack'[k] = stack[k])
      /\ Top = stack[L] /\ L \in 1..L /\ (stack' = <<>> <=> L = 1) /\ stack' \in Seq(Frame)
  <2>1. /\ stack' = Popped /\ Len(Popped) = L - 1 /\ (\A k \in 1..L - 1 : Popped[k] = stack[k])
        /\ Top = stack[L] /\ Popped \in Seq(Frame)
    BY <1>3, TopFrame DEF Finish
  <2>2. Popped = <<>> <=> L = 1
    BY <1>3, <2>1, EmptySeq
  <2> QED
    BY <1>3, <2>1, <2>2
<1>5. /\ mode' = m /\ query' = query /\ answer' = answer /\ bound' = bound /\ prefix' = prefix
      /\ placed' = placed /\ versions' = versions
  BY <1>1 DEF Still
<1>6. memos' = Written(i, v)
  BY <1>2 DEF Finish, Written
<1>7. /\ \A j \in Nodes : j # i => memos'[j] = memos[j]
      /\ memos'[i][m] = MemoOf(v)
  BY <1>1, <1>2, <1>6, NodeFields DEF Written, MemoInv
<1>8. /\ MemoValue(MemoOf(v)) = v /\ (IsCycle(MemoOf(v)) <=> IsCycle(v))
      /\ "CACHED" \in MemoOf(v).flags
      /\ IF IsCycle(MemoOf(v)) THEN MemoOf(v).payload = versions.request
         ELSE "BINDING" \in MemoOf(v).flags => MemoOf(v).payload = versions.bindings
  BY MemoOfFields
<1>9. Current(i, m)'
  BY <1>5, <1>7, <1>8 DEF Current
<1>10. \A j \in Nodes : j # i => (Current(j, m)' <=> Current(j, m))
  BY <1>5, <1>7 DEF Current
<1>11. answer' = NoAnswer
  BY <1>5 DEF WalkInv
<1>12. IF stack' = <<>> THEN Current(query, m)' ELSE stack'[1].id = query'
  <2>1. stack[1].id = query
    BY DEF WalkInv
  <2>2. CASE L = 1
    <3>1. query' = i
      BY <1>2, <1>4, <1>5, <2>1, <2>2
    <3> QED
      BY <1>4, <1>9, <2>2, <3>1 DEF Current
  <2>3. CASE L # 1
    <3>1. 1 \in 1..L - 1
      BY <2>3
    <3> QED
      BY <1>4, <1>5, <2>1, <2>3, <3>1
  <2> QED
    BY <2>2, <2>3
<1>13. ASSUME NEW k \in 1..L - 1, stack'[k].phase = 2 PROVE ~Passes(stack[k].id, mode)'
  <2>1. k \in 1..Len(stack) /\ stack'[k] = stack[k]
    BY <1>3, <1>4
  <2>2. PICK t : t = stack[k].id
    OBVIOUS
  <2>3. ~Passes(t, mode)
    BY <1>13, <2>1, <2>2 DEF WalkInv
  <2>4. \A j \in Nodes : Current(j, mode) => memos'[j] = memos[j]
    BY <1>2, <1>7
  <2>5. ~Passes(t, mode)'
    BY <1>1, <1>5, <1>13, <2>1, <2>2, <2>3, <2>4, PassesStill
  <2> QED
    BY <1>5, <2>1, <2>2, <2>5
<1>14. ASSUME NEW j \in Nodes, Current(j, m)', IsCycle(memos'[j][m])
       PROVE  IsCycle(v)
  <2> SUFFICES ASSUME ~IsCycle(v) PROVE FALSE
    OBVIOUS
  <2>1. j # i
    BY <1>7, <1>8, <1>14
  <2>2. CurrentCycle(j)
    BY <1>1, <1>7, <1>10, <1>14, <2>1 DEF CurrentCycle
  <2> QED
    BY <2>2
<1>15. PICK w : w = WayHere
  OBVIOUS
<1>16. ASSUME IsCycle(v)
       PROVE  graph' = graph /\ Agrees(Meant[w], MemoValue(memos[i][mode]))'
  <2>1. graph' = graph /\ strings' = strings
    BY <1>16 DEF NoNewString
  <2>2. PICK d : d = Meant[w]
    OBVIOUS
  <2>3. Meant'[w] = d
    <3>1. Snapshot' = Snapshot
      BY <1>5, <2>1 DEF Snapshot
    <3>2. Meant' = Meanings(Snapshot', m)
      BY <1>5 DEF Meant
    <3> QED
      BY <1>1, <2>2, <3>1, <3>2 DEF Meant
  <2>5. MemoValue(memos'[i][m]) = v
    BY <1>7, <1>8
  <2>6. d.state = "INVALID" /\ v.state = "INVALID" /\ d.error = v.error /\ d.at = v.at
    BY <1>15, <1>16, <2>2 DEF Agrees, IsCycle
  <2> QED
    BY <1>5, <2>1, <2>3, <2>5, <2>6 DEF Agrees
<1>17. ASSUME IsCycle(v), L = 1
       PROVE  query' = i /\ w = Alone(i)
  <2>1. stack[1].id = query /\ query = i
    BY <1>2, <1>4, <1>17 DEF WalkInv
  <2>2. Ids = {i}
    BY <1>2, <1>3, <1>4, <1>17 DEF Ids
  <2>3. Ids \ {i} = {}
    BY <2>2
  <2> QED
    BY <1>2, <1>5, <1>15, <2>1, <2>3 DEF WayHere, Alone
<1>18. ASSUME IsCycle(v), L # 1
       PROVE  Top'.phase # 0 /\ Awaited' = i /\ w = [node |-> i, path |-> Ids']
  <2>1. PICK k \in 1..L - 1 : k = L - 1 /\ k + 1 = L
    <3>1. L - 1 \in 1..L - 1 /\ L - 1 + 1 = L
      BY <1>18
    <3> QED
      BY <3>1
  <2>2. PICK f : f = stack[k]
    OBVIOUS
  <2>3. Top' = f
    BY <1>4, <2>1, <2>2 DEF Top
  <2>4. k \in 1..Len(stack) /\ k # Len(stack) /\ k \in 1..Len(stack) - 1
    BY <1>3, <2>1
  <2>5. f \in Frame /\ f.phase # 0 /\ Waits(k) /\ f.phase \in 0..2
    <3>1. f \in Frame /\ f.phase # 0 /\ Waits(k)
      BY <2>2, <2>4 DEF FrameInv
    <3> QED
      BY <3>1 DEF Frame
  <2>6. stack[k + 1].id = i
    BY <1>2, <1>4, <2>1
  <2>7. /\ f.phase = 1 => i = First(graph[f.id], m)
        /\ f.phase = 2 => i = graph[f.id].right
    BY <1>1, <2>2, <2>4, <2>5, <2>6 DEF Waits, Awaits
  <2>8. Awaited' = i
    <3>1. graph' = graph /\ First(graph[f.id], m)' = First(graph[f.id], m)
      BY <1>5, <1>16, <1>18 DEF First, Redirected
    <3>2. Awaited' = IF f.phase = 1 THEN First(graph[f.id], m)' ELSE graph'[f.id].right
      BY <1>5, <2>3 DEF Awaited, Here
    <3> QED
      BY <2>5, <2>7, <3>1, <3>2
  <2>9. Ids' = Ids \ {i}
    <3>1. Ids' = {stack'[j].id : j \in 1..L - 1}
      BY <1>4 DEF Ids
    <3>2. \A j \in 1..L - 1 : stack'[j].id = stack[j].id /\ stack[j].id # i /\ j \in 1..L
      <4>1. \A j \in 1..L - 1 : j \in 1..L /\ j # L
        OBVIOUS
      <4>2. \A j \in 1..L : stack[j].id = stack[L].id => j = L
        BY <1>3, <1>4 DEF FrameInv
      <4> QED
        BY <1>2, <1>4, <4>1, <4>2
    <3>3. \A j \in 1..L : j \in 1..L - 1 \/ stack[j].id = i
      <4>1. \A j \in 1..L : j \in 1..L - 1 \/ j = L
        OBVIOUS
      <4> QED
        BY <1>2, <1>4, <4>1
    <3>4. Ids = {stack[j].id : j \in 1..L}
      BY <1>3 DEF Ids
    <3> QED
      BY <3>1, <3>2, <3>3, <3>4
  <2> QED
    BY <1>2, <1>15, <2>3, <2>5, <2>8, <2>9 DEF WayHere
<1>19. (\E j \in Nodes : CurrentCycle(j))' => CycleHere'
  <2> SUFFICES ASSUME NEW j \in Nodes, CurrentCycle(j)' PROVE CycleHere'
    OBVIOUS
  <2>1. IsCycle(v)
    BY <1>5, <1>14 DEF CurrentCycle
  <2>2. CurrentCycle(i)'
    BY <1>5, <1>7, <1>8, <1>9, <2>1 DEF CurrentCycle
  <2>3. CASE L = 1
    BY <1>4, <1>5, <1>16, <1>17, <2>1, <2>3 DEF CycleHere
  <2>4. CASE L # 1
    BY <1>4, <1>5, <1>16, <1>18, <2>1, <2>2, <2>4 DEF CycleHere
  <2> QED
    BY <2>3, <2>4
<1>20. (\A k \in 1..Len(stack) : stack[k].phase = 2 => ~Passes(stack[k].id, mode))'
  BY <1>4, <1>13
<1> QED
  BY <1>5, <1>11, <1>12, <1>19, <1>20 DEF WalkInv

\* The operand of a frame is there already, or its frame is pushed.
LEMMA GoWalks ==
    ASSUME GraphInv, MemoInv, FrameInv, WalkInv, query # 0, stack # <<>>, ~Current(Top.id, mode),
           NEW c, NEW phase, Looking(c, phase), GoTo(c, phase),
           Current(c, mode) \/ c \notin visiting \cup {Top.id}
    PROVE  WalkInv'
<1>1. PICK m \in Modes : m = mode
  BY DEF FrameInv
<1>2. PICK L \in Nat \ {0} : L = Len(stack)
  BY TopFrame
<1>3. stack \in Seq(Frame) /\ Top = stack[L] /\ L \in 1..L
  BY <1>2, TopFrame DEF FrameInv
<1>4. /\ mode' = m /\ query' = query /\ answer' = answer /\ bound' = bound /\ prefix' = prefix
      /\ versions' = versions /\ graph' = graph /\ memos' = memos
  BY <1>1 DEF GoTo, Still, NoNewString
<1>5. PICK f : f = [Top EXCEPT !.phase = phase]
  OBVIOUS
<1>6. f.id = Top.id /\ f.phase = phase /\ phase \in 1..2 /\ f \in Frame
  BY <1>5, TopFrame DEF Frame, Looking
<1>7. PICK s : s = [stack EXCEPT ![Len(stack)].phase = phase]
  OBVIOUS
<1>8. s \in Seq(Frame) /\ Len(s) = L /\ s[L] = f /\ \A k \in 1..L - 1 : s[k] = stack[k]
  <2>1. s = [stack EXCEPT ![L] = f]
    BY <1>2, <1>3, <1>5, <1>7
  <2> QED
    BY <1>2, <1>3, <1>6, <2>1
<1>9. \/ stack' = s
      \/ c \in Nodes /\ stack' = Append(s, [id |-> c, phase |-> 0])
  <2>1. c \in Nodes
    <3>1. Top.id \in Nodes
      BY TopFrame
    <3>2. ~IsLeaf(graph[Top.id], mode)
      BY OperandsReady DEF Looking, Here
    <3> QED
      BY <1>1, <3>1, <3>2, FirstOperand DEF Looking, Here
  <2> QED
    BY <1>7, <2>1 DEF GoTo
<1>10. /\ stack' \in Seq(Frame) /\ Len(stack') \in {L, L + 1} /\ stack' # <<>>
       /\ \A k \in 1..L : stack'[k] = s[k]
       /\ Len(stack') = L + 1 => stack'[L + 1].phase = 0
  <2>1. CASE stack' = s
    BY <1>2, <1>8, <2>1, EmptySeq
  <2>2. CASE c \in Nodes /\ stack' = Append(s, [id |-> c, phase |-> 0])
    <3>1. PICK g \in Frame : g = [id |-> c, phase |-> 0] /\ g.phase = 0
      BY <2>2 DEF Frame
    <3> QED
      BY <1>2, <1>8, <2>2, <3>1, EmptySeq, AppendProperties
  <2> QED
    BY <1>9, <2>1, <2>2
<1>11. answer' = NoAnswer
  BY <1>4 DEF WalkInv
<1>12. stack'[1].id = query'
  <2>1. stack[1].id = query
    BY DEF WalkInv
  <2>2. s[1].id = stack[1].id
    <3>1. CASE L = 1
      BY <1>3, <1>6, <1>8, <3>1
    <3>2. CASE L # 1
      <4>1. 1 \in 1..L - 1
        BY <3>2
      <4> QED
        BY <1>8, <4>1
    <3> QED
      BY <3>1, <3>2
  <2>3. 1 \in 1..L
    OBVIOUS
  <2> QED
    BY <1>4, <1>10, <2>1, <2>2, <2>3
<1>13. \A t : Passes(t, mode)' <=> Passes(t, mode)
  BY <1>1, <1>4 DEF Passes, PassesOn, FirstValue, First, Redirected
<1>14. (\A k \in 1..Len(stack) : stack[k].phase = 2 => ~Passes(stack[k].id, mode))'
  <2> SUFFICES ASSUME NEW k \in 1..Len(stack'), stack'[k].phase = 2, NEW t, t = stack'[k].id
               PROVE  ~Passes(t, mode)'
    OBVIOUS
  <2>1. k \in 1..L
    <3>1. k # L + 1
      BY <1>10
    <3> QED
      BY <1>10, <3>1
  <2>2. stack'[k] = s[k]
    BY <1>10, <2>1
  <2>3. CASE k = L
    <3>1. phase = 2 /\ t = Top.id
      BY <1>6, <1>8, <2>2, <2>3
    <3> QED
      BY <1>13, <3>1 DEF Looking
  <2>4. CASE k # L
    <3>1. k \in 1..L - 1 /\ k \in 1..Len(stack)
      BY <1>2, <2>1, <2>4
    <3>2. stack'[k] = stack[k]
      BY <1>8, <2>2, <3>1
    <3> QED
      BY <1>13, <3>1, <3>2 DEF WalkInv
  <2> QED
    BY <2>3, <2>4
<1>15. \A j \in Nodes : ~CurrentCycle(j)
  BY NoCycleYet DEF Looking
<1>16. ~(\E j \in Nodes : CurrentCycle(j))'
  BY <1>1, <1>4, <1>15 DEF CurrentCycle, Current, Nodes
<1> QED
  BY <1>4, <1>10, <1>11, <1>12, <1>14, <1>16 DEF WalkInv

\* A frame whose node has a result is taken off.
LEMMA PopWalks ==
    ASSUME GraphInv, MemoInv, FrameInv, WalkInv, query # 0, stack # <<>>, Current(Top.id, mode),
           stack' = Popped, NoNewString, memos' = memos, Still
    PROVE  WalkInv'
<1>1. PICK m \in Modes : m = mode
  BY DEF FrameInv
<1>2. PICK L \in Nat \ {0} : L = Len(stack)
  BY TopFrame
<1>3. /\ Len(stack') = L - 1 /\ (\A k \in 1..L - 1 : stack'[k] = stack[k])
      /\ Top = stack[L] /\ L \in 1..L /\ (stack' = <<>> <=> L = 1)
  <2>1. /\ Len(Popped) = L - 1 /\ (\A k \in 1..L - 1 : Popped[k] = stack[k])
        /\ Top = stack[L] /\ Popped \in Seq(Frame)
    BY <1>2, TopFrame
  <2>2. Popped = <<>> <=> L = 1
    BY <1>2, <2>1, EmptySeq
  <2> QED
    BY <1>2, <2>1, <2>2
<1>4. /\ mode' = m /\ query' = query /\ answer' = answer /\ bound' = bound /\ prefix' = prefix
      /\ versions' = versions /\ graph' = graph /\ memos' = memos
  BY <1>1 DEF Still, NoNewString
<1>5. answer' = NoAnswer /\ stack[1].id = query
  BY <1>4 DEF WalkInv
<1>6. IF stack' = <<>> THEN Current(query, m)' ELSE stack'[1].id = query'
  <2>1. CASE L = 1
    <3>1. Current(query, m)
      BY <1>1, <1>3, <1>5, <2>1
    <3> QED
      BY <1>3, <1>4, <2>1, <3>1 DEF Current
  <2>2. CASE L # 1
    <3>1. 1 \in 1..L - 1
      BY <2>2
    <3> QED
      BY <1>3, <1>4, <1>5, <2>2, <3>1
  <2> QED
    BY <2>1, <2>2
<1>7. \A t : Passes(t, mode)' <=> Passes(t, mode)
  BY <1>1, <1>4 DEF Passes, PassesOn, FirstValue, First, Redirected
<1>8. (\A k \in 1..Len(stack) : stack[k].phase = 2 => ~Passes(stack[k].id, mode))'
  <2> SUFFICES ASSUME NEW k \in 1..Len(stack'), stack'[k].phase = 2, NEW t, t = stack'[k].id
               PROVE  ~Passes(t, mode)'
    OBVIOUS
  <2>1. k \in 1..L - 1 /\ k \in 1..Len(stack)
    BY <1>2, <1>3
  <2> QED
    BY <1>3, <1>7, <2>1 DEF WalkInv
<1>9. \A j \in Nodes : ~CurrentCycle(j)
  BY NoCycleYet
<1>10. ~(\E j \in Nodes : CurrentCycle(j))'
  BY <1>1, <1>4, <1>9 DEF CurrentCycle, Current, Nodes
<1> QED
  BY <1>4, <1>5, <1>6, <1>8, <1>10 DEF WalkInv

\* Every turn of the loop keeps the walk.
LEMMA TurnWalks ==
    ASSUME RunInv, MeaningInv, JoinInv, WalkInv, Step, ~Answer
    PROVE  WalkInv'
<1>1. /\ CoreInv /\ GraphInv /\ SpanInv /\ StringInv /\ MemoInv /\ FrameInv /\ TwinInv /\ mode \in Modes
  BY DEF RunInv, CoreInv, FrameInv
<1>2. /\ query # 0 /\ stack # <<>> /\ Still
      /\ \/ Current(Top.id, mode) /\ stack' = Popped /\ NoNewString /\ memos' = memos
         \/ ~Current(Top.id, mode) /\ \E v : Finish(v) /\ Making(Top.id, v)
         \/ ~Current(Top.id, mode) /\ \E c, phase : Looking(c, phase) /\ GoTo(c, phase)
  BY Turns
<1>3. Nodes' = Nodes /\ \A i \in Nodes : Alike(graph'[i], graph[i])
  BY TurnJoins
<1>4. Top.id \in Nodes
  BY <1>1, <1>2, TopFrame
<1>5. CASE Current(Top.id, mode) /\ stack' = Popped /\ NoNewString /\ memos' = memos
  BY <1>1, <1>2, <1>5, PopWalks
<1>6. ASSUME ~Current(Top.id, mode), NEW v, Finish(v), Making(Top.id, v)
      PROVE  WalkInv'
  <2>1. v = Made(Top.id, mode)
    BY <1>6 DEF Making
  <2>2. v \in ValueType /\ (v.state # "KNOWN" => v.num = 0) /\ (v.state = "KNOWN" => "BINDING" \notin v.flags)
    BY <1>1, <1>4, <2>1, MadeType
  <2>3. /\ IsCycle(v) => NoNewString /\ Agrees(Meant[WayHere], v)
        /\ ~IsCycle(v) => \A i \in Nodes : ~CurrentCycle(i)
    BY <1>2, <1>6, CycleMade
  <2> QED
    BY <1>1, <1>2, <1>3, <1>6, <2>2, <2>3, FinishWalks
<1>7. ASSUME ~Current(Top.id, mode), NEW c, NEW phase, Looking(c, phase), GoTo(c, phase)
      PROVE  WalkInv'
  <2>1. CASE Current(c, mode) \/ c \notin visiting \cup {Top.id}
    BY <1>1, <1>2, <1>7, <2>1, GoWalks
  <2>2. CASE ~Current(c, mode) /\ c \in visiting \cup {Top.id}
    <3>1. PICK v : v = CycleAt(c, phase)
      OBVIOUS
    <3>2. Finish(v) /\ NoNewString
      BY <1>7, <2>2, <3>1 DEF GoTo
    <3>3. Agrees(Meant[WayHere], v)
      BY <1>2, <1>7, <2>2, <3>1, CycleClosed
    <3>4. IsCycle(v) /\ v.state = "INVALID"
      BY <3>1, CycleFields DEF IsCycle
    <3>5. v \in ValueType /\ v.num = 0
      <4>1. ~IsLeaf(graph[Top.id], mode)
        BY <1>1, <1>2, <1>7, OperandsReady DEF Looking, Here
      <4>2. c \in Used(Top.id, mode)
        BY <1>7, <4>1 DEF Looking, Here, Used
      <4>3. phase = 2 => Here.left \in Nodes
        <5> SUFFICES ASSUME phase = 2 PROVE Here.left \in Nodes
          OBVIOUS
        <5>1. Top.phase = 1 /\ ~Passes(Top.id, mode) /\ Here.kind \in PairKinds
          BY <1>7 DEF Looking
        <5>2. ~Redirected(graph[Top.id], mode)
          BY <5>1 DEF Passes, PassesOn
        <5> QED
          BY <1>1, <1>4, <4>1, <5>1, <5>2, FirstOperand DEF Here
      <4>4. Finishing(Top.id, v)
        BY <1>1, <1>2, <2>2, <3>1, <4>2, <4>3, CycleFinishes
      <4> QED
        BY <3>4, <4>4 DEF Finishing
    <3> QED
      BY <1>1, <1>2, <1>3, <1>7, <3>2, <3>3, <3>4, <3>5, FinishWalks
  <2> QED
    BY <2>1, <2>2
<1> QED
  BY <1>2, <1>5, <1>6, <1>7

-----------------------------------------------------------------------------
(* A query starts, and goes on *)

\* A query starts with no cycle around: stamps of earlier ones are outdated.
LEMMA RequestWalks ==
    ASSUME CoreInv, FrameInv, NEW i \in Nodes, NEW m \in Modes, Request(i, m)
    PROVE  WalkInv'
<1>1. /\ GraphInv /\ MemoInv /\ versions \in Counters /\ memos \in MemoTable
  BY DEF CoreInv, MemoInv, Counters, MemoTable
<1>2. /\ mode' = m /\ query' = i /\ answer' = NoAnswer /\ graph' = graph
      /\ Advance("request", memos)
  BY DEF Request, structure
<1>3. PICK f : f = [id |-> i, phase |-> 0]
  OBVIOUS
<1>4. stack' = <<f>> /\ f.id = i /\ f.phase = 0
  BY <1>3 DEF Request
<1>5. Len(stack') = 1 /\ stack'[1] = f /\ stack' # <<>>
  BY <1>4
<1>6. ASSUME NEW j \in Nodes, Current(j, m)', IsCycle(memos'[j][m]) PROVE FALSE
  <2>1. j \in NodeRange
    BY <1>1, NodeFields
  <2>2. "CACHED" \in memos'[j][m].flags /\ memos'[j][m].payload = versions'.request
    BY <1>6 DEF Current
  <2>3. memos'[j][m] = memos[j][m] /\ (versions'.request = versions.request + 1 \/ ~Outdated(memos[j][m]))
    BY <1>1, <1>2, <2>1, <2>2, Advancing
  <2>4. Outdated(memos[j][m])
    BY <1>6, <2>3 DEF Outdated
  <2>5. memos[j][m].payload <= versions.request /\ versions.request \in Int /\ memos[j][m].payload \in Int
    BY <1>1, <1>6, <2>1, <2>2, <2>3, StampsOf
  <2> QED
    BY <2>2, <2>3, <2>4, <2>5
<1>7. ~(\E j \in Nodes : CurrentCycle(j))'
  BY <1>2, <1>6 DEF CurrentCycle, Nodes
<1> QED
  BY <1>2, <1>4, <1>5, <1>7 DEF WalkInv

\* Changes end the query, requests start one, and every turn of the loop goes on with it.
LEMMA WalkKept ==
    ASSUME RunInv, MeaningInv, JoinInv, WalkInv,
           Change \/ Step \/ \E i \in Nodes, m \in Modes : Request(i, m)
    PROVE  WalkInv'
<1>1. CoreInv /\ FrameInv
  BY DEF RunInv
<1>2. CASE Change
  <2>1. query' = 0
    BY <1>2 DEF Change, Rebind, Bind, Place, SetPrefix, AppendNode, LowerSpans, Quiet, running
  <2> QED
    BY <2>1 DEF WalkInv
<1>3. CASE \E i \in Nodes, m \in Modes : Request(i, m)
  BY <1>1, <1>3, RequestWalks
<1>4. CASE Answer
  <2>1. query' = 0
    BY <1>4 DEF Answer
  <2> QED
    BY <2>1 DEF WalkInv
<1>5. CASE Step /\ ~Answer
  BY <1>5, TurnWalks
<1> QED
  BY <1>2, <1>3, <1>4, <1>5

\* There is no query at the start.
LEMMA InitWalks == Init => WalkInv
BY DEF Init, WalkInv

-----------------------------------------------------------------------------
(* What is still missing *)

\* A result that waits for something says for what.
LEMMA DeferredFlags ==
    ASSUME RunInv, GroundInv, NEW i \in Nodes, NEW o \in Modes, Usable(i, o), memos[i][o].state = "DEFERRED"
    PROVE  MemoValue(memos[i][o]).flags # {}
<1> DEFINE S == {t \in Nodes \X Modes : memos[t[1]][t[2]].state = "DEFERRED" =>
                                            MemoValue(memos[t[1]][t[2]]).flags # {}}
<1>1. /\ CoreInv /\ GraphInv /\ StringInv /\ MemoInv
  BY DEF RunInv, CoreInv
<1>2. ASSUME NEW j \in Nodes, NEW q \in Modes, Usable(j, q), Stands(S, j, q),
             memos[j][q].state = "DEFERRED"
      PROVE  MemoValue(memos[j][q]).flags # {}
  <2>1. PICK v : v = MemoValue(memos[j][q])
    OBVIOUS
  <2> SUFFICES v.flags # {}
    BY <2>1
  <2>2. v.state = "DEFERRED"
    BY <1>2, <2>1 DEF MemoValue
  <2>3. PICK p \in Modes : Rests(j, v, p) /\ \A c \in Used(j, p) : <<c, p>> \in S
    BY <1>2, <2>1 DEF Stands
  <2>4. ASSUME NEW c \in Used(j, p), MemoValue(memos[c][p]).state = "DEFERRED" PROVE v.flags # {}
    <3>1. MemoValue(memos[c][p]).flags \subseteq v.flags
      BY <2>3 DEF Rests
    <3>2. memos[c][p].state = "DEFERRED"
      BY <2>4 DEF MemoValue
    <3>3. MemoValue(memos[c][p]).flags # {}
      BY <2>3, <3>2
    <3> QED
      BY <3>1, <3>3
  <2>5. v = Made(j, p)
    BY <2>3 DEF Rests
  <2>6. CASE IsLeaf(graph[j], p)
    <3>1. PICK n : n = graph[j]
      OBVIOUS
    <3>2. v = LeafValue(n)
      BY <2>5, <2>6, <3>1 DEF Made
    <3>3. n.kind \in {"REFERENCE", "ADDRESS"}
      BY <2>2, <2>6, <3>1, <3>2, KnownFields DEF IsLeaf, LiteralKinds, LeafValue
    <3> QED
      BY <1>1, <2>6, <3>1, <3>2, <3>3, LeafType
  <2>7. CASE ~IsLeaf(graph[j], p) /\ Passes(j, p)
    <3>1. PICK l : l = FirstValue(j, p)
      OBVIOUS
    <3>2. First(graph[j], p) \in Used(j, p) /\ l = MemoValue(memos[First(graph[j], p)][p])
      BY <2>7, <3>1 DEF Used, FirstValue
    <3>3. v = PassedOn(j, l, p)
      BY <2>5, <2>7, <3>1 DEF Made
    <3>4. l.state = "DEFERRED"
      <4>1. CASE l.state = "KNOWN" /\ l.kind # "INTEGER" /\ (graph[j].kind = "ADDRESS" \/ Redirected(graph[j], p))
        BY <2>2, <3>3, <4>1 DEF PassedOn, WithFlags, Invalid
      <4>2. CASE ~(l.state = "KNOWN" /\ l.kind # "INTEGER" /\ (graph[j].kind = "ADDRESS" \/ Redirected(graph[j], p)))
        <5>1. v = l \/ v = WithFlags(l, {"LAYOUT"})
          BY <3>3, <4>2 DEF PassedOn
        <5>2. l \in ValueType
          BY <1>1, <3>2, UsedOperands, MemosHoldValues DEF IsValue
        <5> QED
          BY <2>2, <5>1, <5>2, WithFlagsFields
      <4> QED
        BY <4>1, <4>2
    <3> QED
      BY <2>4, <3>2, <3>4
  <2>8. CASE ~IsLeaf(graph[j], p) /\ ~Passes(j, p)
    <3>1. PICK l : l = FirstValue(j, p)
      OBVIOUS
    <3>2. PICK r : r = SecondValue(j, p)
      OBVIOUS
    <3>3. v = Operation(j, l, r)
      BY <2>5, <2>8, <3>1, <3>2 DEF Made
    <3>4. /\ graph[j].kind \in OperationKinds /\ IsValue(l) /\ IsValue(r) /\ l.state # "INVALID"
      BY <1>1, <2>8, <3>1, <3>2, MadeType
    <3>5. "DEFERRED" \in {l.state, r.state}
      <4> SUFFICES ASSUME "DEFERRED" \notin {l.state, r.state} PROVE FALSE
        OBVIOUS
      <4>1. CASE r.state = "INVALID"
        <5>1. v = WithFlags(r, l.flags)
          BY <3>3, <3>4, <4>1 DEF Operation
        <5> QED
          BY <2>2, <3>4, <4>1, <5>1 DEF WithFlags, IsValue, ValueType
      <4>2. CASE r.state # "INVALID"
        <5>1. Ready(l, r)
          BY <3>4, <4>2 DEF Ready, IsValue, ValueType, States
        <5>2. PICK w : w = Computed(j, l, r)
          OBVIOUS
        <5>3. v = WithFlags(w, l.flags \cup r.flags)
          BY <3>3, <3>4, <4>2, <5>2 DEF Operation
        <5>4. w \in ValueType /\ w.state # "DEFERRED"
          BY <1>1, <3>4, <5>1, <5>2, ComputedType
        <5> QED
          BY <2>2, <5>3, <5>4 DEF WithFlags, ValueType
      <4> QED
        BY <4>1, <4>2
    <3>6. CASE l.state = "DEFERRED"
      <4>1. First(graph[j], p) \in Used(j, p) /\ l = MemoValue(memos[First(graph[j], p)][p])
        BY <2>8, <3>1 DEF Used, FirstValue
      <4> QED
        BY <2>4, <3>6, <4>1
    <3>7. CASE r.state = "DEFERRED"
      <4>1. graph[j].kind \in PairKinds
        BY <3>2, <3>7, KnownFields DEF SecondValue
      <4>2. graph[j].right \in Used(j, p) /\ r = MemoValue(memos[graph[j].right][p])
        BY <2>8, <3>2, <4>1 DEF Used, SecondValue
      <4> QED
        BY <2>4, <3>7, <4>2
    <3> QED
      BY <3>5, <3>6, <3>7
  <2> QED
    BY <2>6, <2>7, <2>8
<1>3. \A j \in Nodes, q \in Modes : Usable(j, q) /\ Stands(S, j, q) => <<j, q>> \in S
  <2> SUFFICES ASSUME NEW j \in Nodes, NEW q \in Modes, Usable(j, q), Stands(S, j, q) PROVE <<j, q>> \in S
    OBVIOUS
  <2>1. memos[j][q].state = "DEFERRED" => MemoValue(memos[j][q]).flags # {}
    <3> HIDE DEF S
    <3> QED
      BY <1>2
  <2> QED
    BY <2>1
<1>4. <<i, o>> \in S
  <2> HIDE DEF S
  <2> QED
    BY <1>3 DEF GroundInv
<1> QED
  BY <1>4

\* What is followed from a result that waits is what it was made from.
LEMMA FollowedUsed ==
    ASSUME RunInv, GroundInv, NEW i \in Nodes, Usable(i, mode), IsDeferred(i)
    PROVE  /\ Followed(i) = Used(i, mode) /\ Children(Snapshot, i, mode) = Followed(i)
           /\ \A c \in Followed(i) : c \in Nodes /\ Usable(c, mode)
           /\ Followed(i) = {} <=> IsLeaf(graph[i], mode)
           /\ IsLeaf(graph[i], mode) => graph[i].kind \in {"REFERENCE", "ADDRESS"}
<1>1. /\ CoreInv /\ GraphInv /\ StringInv /\ MemoInv /\ FollowInv /\ mode \in Modes
  BY DEF RunInv, CoreInv, FrameInv
<1>2. PICK v : v = MemoValue(memos[i][mode])
  OBVIOUS
<1>3. v.state = "DEFERRED" /\ v.flags # {}
  BY <1>1, <1>2, DeferredFlags DEF IsDeferred, MemoValue
<1>4. Rests(i, v, mode)
  BY <1>1, <1>2, <1>3, UsableRests DEF Shared
<1>5. v = Made(i, mode) /\ \A c \in Used(i, mode) : c \in Nodes /\ Usable(c, mode)
  BY <1>4 DEF Rests, Usable
<1>6. PICK n : n = graph[i]
  OBVIOUS
<1>7. n.kind \in NodeKinds
  BY <1>1, <1>6, NodeFields
<1>8. Children(Snapshot, i, mode) = Followed(i)
  <2>1. PICK s : s = Snapshot
    OBVIOUS
  <2>2. s.graph[i] = n /\ s.bound = bound /\ s.prefix = prefix
    BY <1>6, <2>1, SnapshotIs
  <2> QED
    BY <1>6, <2>1, <2>2 DEF Children, Followed, Redirected
<1>9. CASE IsLeaf(n, mode)
  <2>1. v = LeafValue(n)
    BY <1>5, <1>6, <1>9 DEF Made
  <2>2. n.kind \in {"REFERENCE", "ADDRESS"}
    BY <1>3, <1>9, <2>1, KnownFields DEF IsLeaf, LiteralKinds, LeafValue
  <2>3. Followed(i) = {}
    <3>1. CASE n.kind = "REFERENCE"
      BY <1>6, <1>9, <3>1 DEF IsLeaf, Followed, LiteralKinds, Redirected, PairKinds
    <3>2. CASE n.kind = "ADDRESS"
      <4>1. mode = "ORDINARY" \/ prefix[n.left] = 0
        BY <1>9, <3>2 DEF IsLeaf, LiteralKinds
      <4>2. Followed(i) = IF mode = "EXTENT" THEN {prefix[n.left]} \ {0} ELSE {}
        BY <1>6, <3>2 DEF Followed, Redirected, LiteralKinds, PairKinds
      <4> QED
        BY <4>1, <4>2
    <3> QED
      BY <2>2, <3>1, <3>2
  <2>4. Used(i, mode) = {}
    BY <1>6, <1>9 DEF Used
  <2> QED
    BY <1>6, <1>8, <1>9, <2>2, <2>3, <2>4
<1>10. CASE ~IsLeaf(n, mode)
  <2>1. PICK h \in Nodes : h = First(n, mode)
    BY <1>1, <1>6, <1>10, FirstOperand
  <2>2. h \in Used(i, mode) /\ h # 0 /\ Used(i, mode) \subseteq {h, n.right}
    BY <1>6, <1>10, <2>1 DEF Used, Nodes
  <2>3. CASE n.kind \in {"REFERENCE", "ADDRESS"} \/ Redirected(n, mode)
    <3>1. Passes(i, mode)
      BY <1>6, <2>3 DEF Passes, PassesOn
    <3>2. Used(i, mode) = {h}
      BY <1>6, <1>10, <2>1, <3>1 DEF Used
    <3>3. Followed(i) = {h}
      <4>1. n.kind = "ADDRESS" => mode = "EXTENT"
        BY <1>1, <1>10 DEF IsLeaf, Modes
      <4>2. CASE n.kind = "REFERENCE"
        <5>1. h = bound[n.left]
          BY <2>1, <4>2 DEF First, Redirected
        <5>2. Followed(i) = {bound[n.left]} \ {0}
          BY <1>6, <4>2 DEF Followed, Redirected, LiteralKinds, PairKinds
        <5> QED
          BY <2>2, <5>1, <5>2
      <4>3. CASE n.kind = "ADDRESS"
        <5>1. h = prefix[n.left]
          BY <2>1, <4>3 DEF First, Redirected
        <5>2. Followed(i) = {prefix[n.left]} \ {0}
          BY <1>6, <4>1, <4>3 DEF Followed, Redirected, LiteralKinds, PairKinds
        <5> QED
          BY <2>2, <5>1, <5>2
      <4>4. CASE Redirected(n, mode)
        <5>1. n.kind = "SPAN"
          BY <4>4 DEF Redirected
        <5>2. h = n.extra
          BY <2>1, <4>4, <5>1 DEF First, Redirected
        <5>3. Followed(i) = {n.extra}
          BY <1>6, <4>4, <5>1 DEF Followed, Redirected, LiteralKinds, PairKinds
        <5> QED
          BY <5>2, <5>3
      <4> QED
        BY <2>3, <4>2, <4>3, <4>4
    <3> QED
      BY <1>5, <1>6, <1>8, <1>10, <3>2, <3>3
  <2>4. CASE ~(n.kind \in {"REFERENCE", "ADDRESS"} \/ Redirected(n, mode))
    <3>1. First(n, mode) = n.left /\ n.kind \notin LiteralKinds
      BY <1>10, <2>4 DEF First, IsLeaf
    <3>2. Followed(i) = IF n.kind \in PairKinds THEN {h, n.right} ELSE {h}
      BY <1>6, <2>1, <2>4, <3>1 DEF Followed, Redirected, LiteralKinds, PairKinds
    <3>3. ~Passes(i, mode)
      <4> SUFFICES ASSUME Passes(i, mode) PROVE FALSE
        OBVIOUS
      <4>1. PICK l : l = FirstValue(i, mode)
        OBVIOUS
      <4>2. v = PassedOn(i, l, mode)
        BY <1>5, <1>6, <1>10, <4>1 DEF Made
      <4>3. v = l
        BY <1>6, <2>4, <4>2 DEF PassedOn
      <4> QED
        BY <1>3, <1>6, <2>4, <4>1, <4>3 DEF Passes, PassesOn
    <3>4. Used(i, mode) = Followed(i)
      BY <1>6, <1>10, <2>1, <3>2, <3>3 DEF Used
    <3> QED
      BY <1>5, <1>6, <1>8, <1>10, <2>2, <3>4
  <2> QED
    BY <2>3, <2>4
<1> QED
  BY <1>6, <1>9, <1>10

\* One more step of the collection, and what it makes of what it has seen.
Spread(s) == s \cup {c \in Nodes : IsDeferred(c) /\ \E i \in s : c \in Followed(i)}
Missed(seen) ==
    {<<"DEFINITION", d>> : d \in {d \in Definitions : bound[d] = 0 /\ seen \cap references[d] # {}}}
    \cup
    {<<"ANCHOR", a>> : a \in {a \in Anchors : (mode = "ORDINARY" \/ prefix[a] = 0)
                                /\ seen \cap users[a] # {}}}

\* The recursion of the collection.
LEMMA CollectedIs ==
    ASSUME NEW root
    PROVE  \E f : /\ f[0] = {root} /\ \A k \in 0..NodeLimit - 1 : f[k + 1] = Spread(f[k])
                  /\ Collected(root) = Missed(f[NodeLimit])
<1> DEFINE Partial(g, k) == IF k = 0 THEN {root} ELSE Spread(g[k - 1])
           Upto(n)    == \E g : g = [k \in 0..n |-> g[k]] /\ \A k \in 0..n : g[k] = Partial(g, k)
           S          == {n \in Nat : Upto(n)}
<1>1. NodeLimit \in Nat
  BY GraphAssumption
<1>2. 0 \in S
  <2> DEFINE g == [k \in 0..0 |-> {root}]
  <2>1. g = [k \in 0..0 |-> g[k]] /\ \A k \in 0..0 : g[k] = Partial(g, k)
    OBVIOUS
  <2> QED
    BY <2>1
<1>3. ASSUME NEW n \in 0..NodeLimit - 1, n \in S PROVE n + 1 \in S
  <2>1. PICK g : g = [k \in 0..n |-> g[k]] /\ \A k \in 0..n : g[k] = Partial(g, k)
    BY <1>3
  <2> DEFINE w == Spread(g[n])
             h == [k \in 0..n + 1 |-> IF k = n + 1 THEN w ELSE g[k]]
  <2>2. h = [k \in 0..n + 1 |-> h[k]]
    OBVIOUS
  <2>3. ASSUME NEW k \in 0..n + 1 PROVE h[k] = Partial(h, k)
    <3>1. CASE k = n + 1
      <4>1. h[n] = g[n] /\ k - 1 = n /\ k # 0 /\ h[k] = w
        BY <3>1
      <4> HIDE DEF h
      <4> QED
        BY <4>1
    <3>2. CASE k \in 0..n
      <4>1. h[k] = g[k] /\ (k # 0 => k - 1 \in 0..n /\ h[k - 1] = g[k - 1])
        BY <3>2
      <4> HIDE DEF h
      <4> QED
        BY <2>1, <3>2, <4>1
    <3>3. k = n + 1 \/ k \in 0..n
      BY <2>3
    <3> QED
      BY <3>1, <3>2, <3>3
  <2>4. n + 1 \in Nat
    OBVIOUS
  <2> HIDE DEF h, Partial
  <2> QED
    BY <2>2, <2>3, <2>4
<1>4. Upto(NodeLimit)
  <2>1. NodeLimit \in S
    <3> HIDE DEF S
    <3> QED
      BY <1>1, <1>2, <1>3, Climbs
  <2> QED
    BY <2>1
<1>5. \E g : g = [k \in 0..NodeLimit |-> Partial(g, k)]
  <2>1. PICK g : g = [k \in 0..NodeLimit |-> g[k]] /\ \A k \in 0..NodeLimit : g[k] = Partial(g, k)
    BY <1>4
  <2> HIDE DEF Partial
  <2>2. g = [k \in 0..NodeLimit |-> Partial(g, k)]
    BY <2>1
  <2> QED
    BY <2>2
<1> DEFINE f == CHOOSE g : g = [k \in 0..NodeLimit |-> Partial(g, k)]
<1>6. f = [k \in 0..NodeLimit |-> Partial(f, k)]
  <2> HIDE DEF Partial
  <2> QED
    BY <1>5
<1>7. Collected(root) = Missed(f[NodeLimit])
  BY DEF Collected, Missed, Spread
<1> HIDE DEF f
<1>8. f[0] = {root}
  BY <1>1, <1>6
<1>9. ASSUME NEW k \in 0..NodeLimit - 1 PROVE f[k + 1] = Spread(f[k])
  <2>1. k + 1 \in 0..NodeLimit /\ k + 1 # 0 /\ (k + 1) - 1 = k
    BY <1>1
  <2>2. f[k + 1] = Partial(f, k + 1)
    <3> HIDE DEF Partial
    <3> QED
      BY <1>6, <2>1
  <2> QED
    BY <2>1, <2>2
<1> QED
  BY <1>7, <1>8, <1>9

-----------------------------------------------------------------------------
(* The collection of what is missing *)

\* Nodes whose results wait for something.
Pending == {i \in Nodes : Usable(i, mode) /\ IsDeferred(i)}

\* The collection comes to rest in as many steps as there can be nodes.
LEMMA Collecting ==
    ASSUME RunInv, GroundInv, NEW root \in Pending, NEW f, f[0] = {root},
           \A k \in 0..NodeLimit - 1 : f[k + 1] = Spread(f[k])
    PROVE  /\ f[NodeLimit] \subseteq Pending /\ root \in f[NodeLimit]
           /\ Spread(f[NodeLimit]) = f[NodeLimit]
           /\ \A S : root \in S /\ (\A i \in S \cap Pending, c \in Pending : c \in Followed(i) => c \in S)
                  => f[NodeLimit] \subseteq S
<1> DEFINE Good(k) == /\ f[k] \subseteq Pending /\ root \in f[k]
                      /\ Spread(f[k]) = f[k] \/ Cardinality(f[k]) >= k + 1
           G       == {k \in Nat : Good(k)}
<1>1. /\ NodeLimit \in Nat /\ Len(graph) \in Nat /\ Len(graph) <= NodeLimit
      /\ IsFiniteSet(Nodes) /\ Cardinality(Nodes) = Len(graph)
  <2>1. NodeLimit \in Nat /\ graph \in Seq(NodeType) /\ Len(graph) <= NodeLimit
    BY GraphAssumption DEF RunInv, CoreInv, GraphInv
  <2>2. Len(graph) \in Nat
    BY <2>1
  <2> QED
    BY <2>1, <2>2, Interval DEF Nodes
<1>2. \A s : s \subseteq Pending => s \subseteq Spread(s) /\ Spread(s) \subseteq Pending
  <2> SUFFICES ASSUME NEW s, s \subseteq Pending, NEW c \in Nodes, IsDeferred(c),
                      NEW i \in s, c \in Followed(i)
               PROVE  c \in Pending
    BY DEF Spread
  <2>1. i \in Nodes /\ Usable(i, mode) /\ IsDeferred(i)
    BY DEF Pending
  <2>2. Usable(c, mode)
    BY <2>1, FollowedUsed
  <2> QED
    BY <2>2 DEF Pending
<1>3. \A s : s \subseteq Pending => IsFiniteSet(s) /\ Cardinality(s) \in Nat /\ Cardinality(s) <= Len(graph)
  <2> SUFFICES ASSUME NEW s, s \subseteq Pending
               PROVE  IsFiniteSet(s) /\ Cardinality(s) \in Nat /\ Cardinality(s) <= Len(graph)
    OBVIOUS
  <2>1. s \in SUBSET Nodes
    BY DEF Pending
  <2> QED
    BY <1>1, <2>1, FS_Subset, FS_CardinalityType
<1>4. 0 \in G
  <2>1. Cardinality({root}) = 1
    BY FS_Singleton
  <2>2. Cardinality(f[0]) >= 0 + 1
    BY <2>1
  <2> QED
    BY <2>2
<1>5. ASSUME NEW k \in 0..NodeLimit - 1, k \in G PROVE k + 1 \in G
  <2>1. PICK s : s = f[k]
    OBVIOUS
  <2>2. PICK t : t = Spread(s)
    OBVIOUS
  <2>3. f[k + 1] = t /\ s \subseteq Pending /\ root \in s /\ (t = s \/ Cardinality(s) >= k + 1) /\ k \in Nat
    BY <1>5, <2>1, <2>2
  <2>4. s \subseteq t /\ t \subseteq Pending
    BY <1>2, <2>2, <2>3
  <2>5. CASE t = s
    <3>1. Spread(t) = t /\ root \in t
      BY <2>2, <2>3, <2>5, Zenon
    <3>2. k + 1 \in Nat
      OBVIOUS
    <3> QED
      BY <2>3, <2>4, <3>1, <3>2
  <2>6. CASE t # s
    <3>1. /\ IsFiniteSet(t) /\ Cardinality(t) \in Nat /\ Cardinality(s) \in Nat
          /\ Cardinality(s) < Cardinality(t)
      <4>1. IsFiniteSet(t) /\ Cardinality(t) \in Nat /\ Cardinality(s) \in Nat
        BY <1>3, <2>3, <2>4
      <4>2. Cardinality(s) <= Cardinality(t) /\ (Cardinality(s) = Cardinality(t) => s = t)
        BY <2>4, <4>1, FS_Subset
      <4> QED
        BY <2>6, <4>1, <4>2
    <3>2. Cardinality(t) >= (k + 1) + 1
      BY <2>3, <2>6, <3>1
    <3> QED
      BY <2>3, <2>4, <3>2
  <2> QED
    BY <2>5, <2>6
<1>6. NodeLimit \in G
  <2> HIDE DEF G
  <2> QED
    BY <1>1, <1>4, <1>5, Climbs
<1>7. Good(NodeLimit)
  BY <1>6
<1>8. Spread(f[NodeLimit]) = f[NodeLimit]
  <2>1. PICK s : s = f[NodeLimit]
    OBVIOUS
  <2>2. Cardinality(s) \in Nat /\ Cardinality(s) <= Len(graph)
    BY <1>3, <1>7, <2>1
  <2>3. ~(Cardinality(s) >= NodeLimit + 1)
    BY <1>1, <2>2
  <2> QED
    BY <1>7, <2>1, <2>3
<1>9. ASSUME NEW S, root \in S, \A i \in S \cap Pending, c \in Pending : c \in Followed(i) => c \in S
      PROVE  f[NodeLimit] \subseteq S
  <2> DEFINE H == {k \in Nat : f[k] \subseteq S \cap Pending}
  <2>1. 0 \in H
    OBVIOUS
  <2>2. ASSUME NEW k \in 0..NodeLimit - 1, k \in H PROVE k + 1 \in H
    <3>1. f[k + 1] = Spread(f[k]) /\ f[k] \subseteq S /\ f[k] \subseteq Pending
      BY <2>2
    <3>2. Spread(f[k]) \subseteq Pending
      BY <1>2, <3>1
    <3>3. Spread(f[k]) \subseteq S
      BY <1>9, <3>1, <3>2 DEF Spread
    <3> QED
      BY <3>1, <3>2, <3>3
  <2>3. NodeLimit \in H
    <3> HIDE DEF H
    <3> QED
      BY <1>1, <2>1, <2>2, Climbs
  <2> QED
    BY <2>3
<1> QED
  BY <1>7, <1>8, <1>9

\* The definitions and anchors that are named are those of the leaves that wait.
LEMMA MissedLeaves ==
    ASSUME RunInv, GroundInv, NEW seen, seen \subseteq Pending
    PROVE  Missed(seen) =
             {<<IF graph[i].kind = "REFERENCE" THEN "DEFINITION" ELSE "ANCHOR", graph[i].left>> :
                 i \in {i \in seen : Children(Snapshot, i, mode) = {}}}
<1>1. GraphInv /\ mode \in Modes
  BY DEF RunInv, CoreInv, FrameInv
<1> DEFINE Leaves == {i \in seen : Children(Snapshot, i, mode) = {}}
           Name(i) == <<IF graph[i].kind = "REFERENCE" THEN "DEFINITION" ELSE "ANCHOR", graph[i].left>>
<1>2. \A i \in seen : i \in Nodes /\ Usable(i, mode) /\ IsDeferred(i)
  BY DEF Pending
<1>3. ASSUME NEW i \in seen
      PROVE  /\ i \in Leaves <=> IsLeaf(graph[i], mode)
             /\ i \in Leaves => graph[i].kind \in {"REFERENCE", "ADDRESS"}
  BY <1>2, FollowedUsed
<1>4. ASSUME NEW i \in Leaves PROVE Name(i) \in Missed(seen)
  <2>1. /\ i \in seen /\ i \in Nodes /\ IsLeaf(graph[i], mode) /\ graph[i].kind \in {"REFERENCE", "ADDRESS"}
        /\ Built(graph[i])
    BY <1>1, <1>2, <1>3, NodeFields
  <2>2. PICK x : x = graph[i].left
    OBVIOUS
  <2>3. CASE graph[i].kind = "REFERENCE"
    <3>1. x \in Definitions /\ bound[x] = 0
      BY <2>1, <2>2, <2>3 DEF Built, IsLeaf, LiteralKinds
    <3>2. i \in references[x]
      BY <1>1, <2>1, <2>2, <2>3, <3>1 DEF GraphInv, UsersIn, Nodes
    <3>3. Name(i) = <<"DEFINITION", x>>
      BY <2>2, <2>3
    <3> HIDE DEF Name
    <3> QED
      BY <2>1, <3>1, <3>2, <3>3 DEF Missed
  <2>4. CASE graph[i].kind = "ADDRESS"
    <3>1. x \in Anchors /\ (mode = "ORDINARY" \/ prefix[x] = 0)
      BY <2>1, <2>2, <2>4 DEF Built, IsLeaf, LiteralKinds
    <3>2. i \in users[x]
      BY <1>1, <2>1, <2>2, <2>4, <3>1 DEF GraphInv, UsersIn, Nodes
    <3>3. Name(i) = <<"ANCHOR", x>>
      BY <2>2, <2>4
    <3> HIDE DEF Name
    <3> QED
      BY <2>1, <3>1, <3>2, <3>3 DEF Missed
  <2> QED
    BY <2>1, <2>3, <2>4
<1>5. ASSUME NEW d \in Definitions, bound[d] = 0, seen \cap references[d] # {}
      PROVE  <<"DEFINITION", d>> \in {Name(i) : i \in Leaves}
  <2>1. PICK i \in seen : i \in references[d]
    BY <1>5
  <2>2. i \in Nodes /\ graph[i].kind = "REFERENCE" /\ graph[i].left = d
    BY <1>1, <1>2, <2>1 DEF GraphInv, UsersIn
  <2>3. IsLeaf(graph[i], mode)
    BY <1>5, <2>2 DEF IsLeaf
  <2>4. i \in Leaves /\ Name(i) = <<"DEFINITION", d>>
    BY <1>3, <2>2, <2>3
  <2> HIDE DEF Leaves, Name
  <2> QED
    BY <2>4
<1>6. ASSUME NEW a \in Anchors, mode = "ORDINARY" \/ prefix[a] = 0, seen \cap users[a] # {}
      PROVE  <<"ANCHOR", a>> \in {Name(i) : i \in Leaves}
  <2>1. PICK i \in seen : i \in users[a]
    BY <1>6
  <2>2. i \in Nodes /\ graph[i].kind = "ADDRESS" /\ graph[i].left = a
    BY <1>1, <1>2, <2>1 DEF GraphInv, UsersIn
  <2>3. IsLeaf(graph[i], mode)
    BY <1>6, <2>2 DEF IsLeaf
  <2>4. i \in Leaves /\ Name(i) = <<"ANCHOR", a>>
    BY <1>3, <2>2, <2>3
  <2> HIDE DEF Leaves, Name
  <2> QED
    BY <2>4
<1>7. Missed(seen) \subseteq {Name(i) : i \in Leaves}
  <2> HIDE DEF Leaves, Name
  <2> QED
    BY <1>5, <1>6 DEF Missed
<1>8. {Name(i) : i \in Leaves} \subseteq Missed(seen)
  <2> HIDE DEF Leaves, Name
  <2> QED
    BY <1>4
<1> QED
  BY <1>7, <1>8

\* What is collected is what the expression still misses.
LEMMA CollectsUnresolved ==
    ASSUME RunInv, GroundInv, JoinInv, NEW root \in Pending
    PROVE  Collected(root) = Unresolved(Snapshot, mode, root)
<1>1. GraphInv /\ mode \in Modes /\ CoreInv
  BY DEF RunInv, CoreInv, FrameInv
<1>2. MeaningInv
  BY ResultsMean
<1>3. PICK s : s = Snapshot
  OBVIOUS
<1>4. NodesOf(s) = Nodes /\ s.graph = graph
  BY <1>3, SnapshotIs
<1>5. PICK f : /\ f[0] = {root} /\ \A k \in 0..NodeLimit - 1 : f[k + 1] = Spread(f[k])
               /\ Collected(root) = Missed(f[NodeLimit])
  BY CollectedIs
<1>6. PICK seen : seen = f[NodeLimit]
  OBVIOUS
<1>7. /\ seen \subseteq Pending /\ root \in seen /\ Spread(seen) = seen
      /\ \A S : root \in S /\ (\A i \in S \cap Pending, c \in Pending : c \in Followed(i) => c \in S)
             => seen \subseteq S
  BY <1>5, <1>6, Collecting
<1> DEFINE Further(i) == {c \in Children(s, i, mode) : Meanings(s, mode)[Alone(c)].state = "DEFERRED"}
           beneath    == {i \in NodesOf(s) : \A S \in SUBSET NodesOf(s) :
                          root \in S /\ (\A j \in S : Further(j) \subseteq S) => i \in S}
<1>8. ASSUME NEW i \in Pending
      PROVE  Further(i) = {c \in Followed(i) : c \in Pending}
  <2>1. i \in Nodes /\ Usable(i, mode) /\ IsDeferred(i)
    BY DEF Pending
  <2>2. Children(s, i, mode) = Followed(i) /\ \A c \in Followed(i) : c \in Nodes /\ Usable(c, mode)
    BY <1>3, <2>1, FollowedUsed
  <2>3. ASSUME NEW c \in Followed(i)
        PROVE  Meanings(s, mode)[Alone(c)].state = "DEFERRED" <=> IsDeferred(c)
    <3>1. Agrees(Meanings(s, mode)[Alone(c)], MemoValue(memos[c][mode]))
      BY <1>1, <1>2, <1>3, <2>2 DEF MeaningInv
    <3> QED
      BY <3>1 DEF Agrees, MemoValue, IsDeferred
  <2> QED
    BY <2>2, <2>3 DEF Pending
<1>9. beneath = seen
  <2>1. ASSUME NEW i \in beneath PROVE i \in seen
    <3>1. seen \in SUBSET NodesOf(s)
      BY <1>4, <1>7 DEF Pending
    <3>2. ASSUME NEW j \in seen PROVE Further(j) \subseteq seen
      <4>1. Further(j) = {c \in Followed(j) : c \in Pending}
        BY <1>7, <1>8
      <4>2. {c \in Followed(j) : c \in Pending} \subseteq Spread(seen)
        BY <3>2 DEF Spread, Pending
      <4> QED
        BY <1>7, <4>1, <4>2
    <3> HIDE DEF Further
    <3> QED
      BY <1>7, <2>1, <3>1, <3>2
  <2>2. ASSUME NEW i \in seen, NEW S \in SUBSET NodesOf(s), root \in S, \A j \in S : Further(j) \subseteq S
        PROVE  i \in S
    <3>1. \A j \in S \cap Pending, c \in Pending : c \in Followed(j) => c \in S
      <4> SUFFICES ASSUME NEW j \in S \cap Pending, NEW c \in Pending, c \in Followed(j) PROVE c \in S
        OBVIOUS
      <4>1. c \in Further(j)
        BY <1>8
      <4> HIDE DEF Further
      <4> QED
        BY <2>2, <4>1
    <3> QED
      BY <1>7, <2>2, <3>1
  <2>3. \A i \in seen : i \in NodesOf(s)
    BY <1>4, <1>7 DEF Pending
  <2> HIDE DEF Further
  <2> QED
    BY <2>1, <2>2, <2>3
<1>10. Unresolved(s, mode, root) =
         {<<IF s.graph[i].kind = "REFERENCE" THEN "DEFINITION" ELSE "ANCHOR", s.graph[i].left>> :
             i \in {i \in beneath : Children(s, i, mode) = {}}}
  BY DEF Unresolved
<1>11. Missed(seen) =
         {<<IF graph[i].kind = "REFERENCE" THEN "DEFINITION" ELSE "ANCHOR", graph[i].left>> :
             i \in {i \in seen : Children(Snapshot, i, mode) = {}}}
  BY <1>7, MissedLeaves
<1> HIDE DEF beneath
<1> QED
  BY <1>3, <1>4, <1>5, <1>6, <1>9, <1>10, <1>11

-----------------------------------------------------------------------------
(* Answers *)

\* The answer that is given says what the expression means.
LEMMA AnswerTrue ==
    ASSUME RunInv, GroundInv, JoinInv, WalkInv, Answer
    PROVE  AnswerIsTrue'
<1>1. /\ CoreInv /\ GraphInv /\ MemoInv /\ FrameInv /\ mode \in Modes /\ query \in Nodes /\ stack = <<>>
  BY DEF RunInv, CoreInv, FrameInv, Answer
<1>2. MeaningInv
  BY ResultsMean
<1>3. PICK m \in Modes : m = mode
  BY <1>1
<1>4. PICK r \in Nodes : r = query
  BY <1>1
<1>5. PICK v : v = MemoValue(memos[r][m])
  OBVIOUS
<1>6. PICK s : s = Snapshot
  OBVIOUS
<1>7. PICK d : d = Meanings(s, m)[Alone(r)]
  OBVIOUS
<1>8. Snapshot' = s /\ strings' = strings
  BY <1>6 DEF Answer, structure, Snapshot
<1>9. PICK deps : deps = IF v.state = "DEFERRED" THEN Collected(r) ELSE {}
  OBVIOUS
<1>10. answer' = [state |-> v.state, root |-> r, mode |-> m, kind |-> v.kind, num |-> v.num,
                  error |-> v.error, at |-> v.at, dependencies |-> deps]
  BY <1>3, <1>4, <1>5, <1>9 DEF Answer, MemoHere
<1>11. Current(r, m)
  BY <1>1, <1>3, <1>4, NodeFields DEF WalkInv, Nodes
<1>12. memos[r][m] \in MemoType /\ v.state = memos[r][m].state
  BY <1>1, <1>5, NodeFields, MemosHoldValues DEF MemoValue
<1>13. Agrees(d, v)
  <2>1. CASE IsCycle(memos[r][m])
    <3>1. CurrentCycle(r)
      BY <1>3, <1>11, <2>1 DEF CurrentCycle
    <3> QED
      BY <1>1, <1>3, <1>4, <1>5, <1>6, <1>7, <2>1, <3>1 DEF WalkInv, CycleHere, Meant, Nodes
  <2>2. CASE ~IsCycle(memos[r][m])
    BY <1>2, <1>5, <1>6, <1>7, <1>11, <2>2 DEF MeaningInv, Usable
  <2> QED
    BY <2>1, <2>2
<1>14. deps = IF v.state = "DEFERRED" THEN Unresolved(s, m, r) ELSE {}
  <2>1. CASE v.state = "DEFERRED"
    <3>1. r \in Pending
      BY <1>3, <1>11, <1>12, <2>1 DEF Pending, Usable, IsDeferred, IsCycle
    <3> QED
      BY <1>3, <1>6, <1>9, <2>1, <3>1, CollectsUnresolved
  <2> QED
    BY <1>9, <2>1
<1>15. v.state = "KNOWN" => d.value = IF v.kind = "STRING" THEN StringValue(strings'[v.num])
                                      ELSE [kind |-> v.kind, num |-> v.num, bytes |-> <<>>]
  BY <1>8, <1>13 DEF Agrees, ValueOf
<1>16. PICK a : a = answer'
  OBVIOUS
<1>17. /\ a.state = v.state /\ a.root = r /\ a.mode = m /\ a.kind = v.kind /\ a.num = v.num
       /\ a.error = v.error /\ a.at = v.at /\ a.dependencies = deps
  BY <1>10, <1>16
<1>18. Meanings(Snapshot', a.mode)[Alone(a.root)] = d
  BY <1>7, <1>8, <1>17
<1>19. Unresolved(Snapshot', a.mode, a.root) = Unresolved(s, m, r)
  BY <1>8, <1>17
<1> QED
  BY <1>13, <1>14, <1>15, <1>16, <1>17, <1>18, <1>19 DEF AnswerIsTrue, Agrees

\* While nothing happens nothing changes.
LEMMA IdleWalks ==
    ASSUME UNCHANGED vars, JoinInv, WalkInv
    PROVE  JoinInv' /\ WalkInv'
<1>1. /\ graph' = graph /\ strings' = strings /\ bound' = bound /\ prefix' = prefix /\ placed' = placed
      /\ memos' = memos /\ versions' = versions /\ mode' = mode /\ stack' = stack /\ query' = query
      /\ answer' = answer
  BY DEF vars, structure, running
<1>2. \A m : Constant(m)' <=> Constant(m)
  BY DEF Constant, IsCycle
<1>3. \A v : ValueOf(v)' = ValueOf(v) /\ Text(ValueOf(v))' = Text(ValueOf(v))
  BY <1>1 DEF ValueOf, Text, StringValue
<1>4. \A l, r : Joined(l, r)' = Joined(l, r)
  BY <1>3 DEF Joined
<1>5. \A i, o : HoldsJoin(i, o)' <=> HoldsJoin(i, o)
  <2> SUFFICES ASSUME NEW i, NEW o PROVE HoldsJoin(i, o)' <=> HoldsJoin(i, o)
    OBVIOUS
  <2>1. PICK p : p = memos[graph[i].left][o]
    OBVIOUS
  <2>2. PICK q : q = memos[graph[i].right][o]
    OBVIOUS
  <2>3. Joined(MemoValue(p), MemoValue(q))' = Joined(MemoValue(p), MemoValue(q))
    BY <1>4
  <2>4. p = memos'[graph'[i].left][o] /\ q = memos'[graph'[i].right][o]
    BY <1>1, <2>1, <2>2
  <2>5. HoldsJoin(i, o) <=>
          /\ Constant(p) /\ Constant(q) /\ MemoValue(p).state = "KNOWN" /\ MemoValue(q).state = "KNOWN"
          /\ strings[graph[i].extra] = Joined(MemoValue(p), MemoValue(q))
          /\ Len(strings[graph[i].extra]) <= StringMax
    BY <2>1, <2>2 DEF HoldsJoin
  <2>6. HoldsJoin(i, o)' <=>
          /\ Constant(p) /\ Constant(q) /\ MemoValue(p).state = "KNOWN" /\ MemoValue(q).state = "KNOWN"
          /\ strings'[graph'[i].extra] = Joined(MemoValue(p), MemoValue(q))'
          /\ Len(strings'[graph'[i].extra]) <= StringMax
    BY <2>4 DEF HoldsJoin, Constant, IsCycle, MemoValue
  <2> QED
    BY <1>1, <2>3, <2>5, <2>6
<1>6. Nodes' = Nodes /\ Ids' = Ids /\ Snapshot' = Snapshot
  BY <1>1 DEF Nodes, Ids, Snapshot
<1>7. JoinInv'
  BY <1>1, <1>5, <1>6 DEF JoinInv
<1>8. \A i : First(graph[i], mode)' = First(graph[i], mode)
  BY <1>1 DEF First, Redirected
<1>9. \A i : FirstValue(i, mode)' = FirstValue(i, mode)
  BY <1>1, <1>8 DEF FirstValue, MemoValue
<1>10. \A i : Passes(i, mode)' <=> Passes(i, mode)
  BY <1>1, <1>9 DEF Passes, PassesOn, Redirected
<1>11. \A i : (Current(i, mode)' <=> Current(i, mode)) /\ (CurrentCycle(i)' <=> CurrentCycle(i))
  BY <1>1 DEF CurrentCycle, Current, IsCycle
<1>12. Top' = Top /\ Here' = Here
  BY <1>1 DEF Top, Here
<1>13. First(Here, mode)' = First(Here, mode)
  BY <1>1, <1>12 DEF First, Redirected
<1>14. Awaited' = Awaited
  BY <1>12, <1>13 DEF Awaited
<1>15. Meant' = Meant
  BY <1>1, <1>6 DEF Meant
<1>16. \A d, v : Agrees(d, v)' <=> Agrees(d, v)
  BY <1>3 DEF Agrees
<1>17. CycleHere' <=> CycleHere
  BY <1>1, <1>6, <1>11, <1>12, <1>14, <1>15, <1>16 DEF CycleHere, IsCycle, MemoValue, Alone
<1>18. WalkInv'
  BY <1>1, <1>6, <1>10, <1>11, <1>17 DEF WalkInv
<1> QED
  BY <1>7, <1>18

\* What holds between any two steps.
WorkInv   == error = "NONE" => GroundInv /\ JoinInv /\ WalkInv
AnswerInv == ValueInv /\ WorkInv /\ AnswerIsTrue

\* A new unit has no results and no answer.
LEMMA InitAnswers == Init => AnswerInv
<1> SUFFICES ASSUME Init PROVE AnswerInv
  OBVIOUS
<1>1. AnswerIsTrue
  BY DEF Init, AnswerIsTrue, NoAnswer
<1> QED
  BY <1>1, InitInv, InitGround, InitJoins, InitWalks DEF AnswerInv, WorkInv

\* Only a unit that is sound goes on.
LEMMA StaysSound ==
    ASSUME [Next]_vars, error' = "NONE"
    PROVE  error = "NONE"
<1>1. CASE UNCHANGED vars
  BY <1>1 DEF vars
<1>2. CASE Change
  BY <1>2 DEF Change, Rebind, Bind, Place, SetPrefix, AppendNode, LowerSpans, Quiet
<1>3. CASE \E i \in unit.roots \cap Nodes, m \in Modes : Request(i, m)
  BY <1>3 DEF Request, Quiet
<1>4. CASE Step
  BY <1>4 DEF Step, AlreadyCurrent, Leaf, Descend, FirstDone, Second, Combine, Answer, Computing, Working
<1>5. CASE RunsOut
  BY <1>5 DEF RunsOut
<1> QED
  BY <1>1, <1>2, <1>3, <1>4, <1>5 DEF Next

\* Every step keeps the results and the way of the query, and the only step that gives an
\* answer gives what is meant.
LEMMA NextAnswers == AnswerInv /\ [Next]_vars => AnswerInv'
<1> SUFFICES ASSUME AnswerInv, [Next]_vars PROVE AnswerInv'
  OBVIOUS
<1>1. ValueInv' /\ (error' = "NONE" => error = "NONE" /\ RunInv /\ RunInv' /\ Steady /\ Grows
                                       /\ GroundInv /\ JoinInv /\ WalkInv)
  BY NextKeeps, StaysSound DEF AnswerInv, WorkInv
<1>2. CASE error' # "NONE"
  BY <1>1, <1>2 DEF AnswerInv, WorkInv, AnswerIsTrue
<1>3. CASE error' = "NONE"
  <2>1. RunInv /\ RunInv' /\ Steady /\ Grows /\ GroundInv /\ JoinInv /\ WalkInv
    BY <1>1, <1>3
  <2>2. GroundInv'
    BY <2>1, GroundKept DEF RunInv
  <2>3. MeaningInv
    BY <2>1, ResultsMean
  <2>4. Change \/ Step \/ (\E i \in Nodes, m \in Modes : Request(i, m)) \/ UNCHANGED vars
    BY <1>3 DEF Next, RunsOut
  <2>5. JoinInv' /\ WalkInv'
    BY <2>1, <2>3, <2>4, JoinsKept, WalkKept, IdleWalks
  <2>6. AnswerIsTrue'
    <3>1. CASE UNCHANGED vars
      <4>1. /\ graph' = graph /\ strings' = strings /\ bound' = bound /\ prefix' = prefix /\ placed' = placed
            /\ error' = error /\ answer' = answer
        BY <3>1 DEF vars, structure
      <4> QED
        BY <4>1 DEF AnswerInv, AnswerIsTrue, Snapshot
    <3>2. CASE Answer
      BY <2>1, <3>2, AnswerTrue
    <3>3. CASE Step /\ ~Answer
      <4>1. query # 0 /\ Still
        BY <2>1, <3>3, Turns
      <4>2. answer' = NoAnswer
        BY <2>1, <4>1 DEF Still, WalkInv
      <4> QED
        BY <4>2 DEF AnswerIsTrue, NoAnswer
    <3>4. CASE Change \/ \E i \in Nodes, m \in Modes : Request(i, m)
      <4>1. answer' = NoAnswer
        BY <1>3, <3>4 DEF Change, Rebind, Bind, Place, SetPrefix, AppendNode, LowerSpans, Request
      <4> QED
        BY <4>1 DEF AnswerIsTrue, NoAnswer
    <3> QED
      BY <2>4, <3>1, <3>2, <3>3, <3>4
  <2> QED
    BY <1>1, <2>2, <2>5, <2>6 DEF AnswerInv, WorkInv
<1> QED
  BY <1>2, <1>3

\* Every answer is what the expression means when it is asked: evaluate in ir/value.c with
\* its memos, epochs, buffers and stack gives the value, the diagnostic or the deferral of
\* an evaluation from nothing, with the node that closes the cycle on this query's way,
\* and collect_dependencies gives exactly the definitions and anchors that are missing.
THEOREM AnswersAreTrue == Spec => []AnswerIsTrue
<1>1. AnswerInv => AnswerIsTrue
  BY DEF AnswerInv
<1> QED
  BY <1>1, InitAnswers, NextAnswers, PTL DEF Spec
=============================================================================
