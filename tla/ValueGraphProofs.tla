-------------------------- MODULE ValueGraphProofs --------------------------
(***************************************************************************)
(* The memos of the value graph, for any graph and any order of bindings,  *)
(* placements, changes and queries: what current() accepts agrees with the *)
(* operands it was made from, and a concatenation has one buffer.          *)
(***************************************************************************)
EXTENDS ValueGraph, FiniteSetTheorems, SequenceTheorems, WellFoundedInduction,
        TLAPS

Buffer == Seq(Int)
Frame  == [id : Nodes, phase : 0..2]

\* What is known of a node once it is in the graph.
Built(n) ==
    /\ n.kind \in {"UNARY", "BINARY", "SPAN"} => n.op \in Operators
    /\ n.kind = "SPAN" => n.op = "SUBTRACT"
    /\ n.kind = "REFERENCE" => n.left \in Definitions
    /\ n.kind = "ADDRESS" => n.left \in Anchors
    /\ n.joined => n.kind = "BINARY" /\ n.op = "ADD"

GraphInv ==
    /\ unit \in Units
    /\ graph \in Seq(NodeType) /\ Len(graph) <= NodeLimit
    /\ bound \in [Definitions -> {0} \cup Nodes] /\ prefix \in [Anchors -> {0} \cup Nodes]
    /\ placed \in [Anchors -> Addresses \cup {Unplaced}]
    /\ parents \in [NodeRange -> SUBSET Nodes]
    /\ references = UsersIn(graph, "REFERENCE", Definitions)
    /\ users = UsersIn(graph, "ADDRESS", Anchors)
    /\ \A i \in Nodes : Built(graph[i]) /\ Operands(graph[i], bound, prefix) \subseteq Nodes
    /\ EdgesAreComplete

\* A lowered span was a difference of addresses.
SpanInv ==
    \A i \in Nodes : graph[i].kind = "SPAN" =>
        AddressLeaf(graph[i].left) /\ AddressLeaf(graph[i].right)

Owners == {i \in Nodes : graph[i].kind = "STRING" \/ graph[i].joined}

StringInv ==
    /\ strings \in Seq(Buffer)
    /\ \A i \in Owners : graph[i].extra \in 1..Len(strings)
    /\ StringsAreMadeOnce

\* A stamp is not ahead of its counter, and no memo but those of the query's mode
\* reports a cycle.
Stamped(m) ==
    "CACHED" \in m.flags =>
        /\ IsCycle(m) => m.payload <= versions.request
        /\ ~IsCycle(m) /\ "BINDING" \in m.flags => m.payload <= versions.bindings

MemoInv ==
    /\ memos \in [NodeRange -> [Modes -> MemoType]]
    /\ versions \in [{"bindings", "layout", "request"} -> 1..Epochs - 1]
    /\ PayloadIsUnambiguous
    /\ \A i \in NodeRange \ Nodes : memos[i] = Missing
    /\ \A i \in NodeRange, m \in Modes :
          /\ Stamped(memos[i][m])
          /\ memos[i][m].state = "KNOWN" /\ memos[i][m].kind = "STRING"
                => memos[i][m].payload \in 1..Len(strings)

\* What frame k waits for is evaluated by the frame above it, or done.
Awaits(k, c) == IF k = Len(stack) THEN Current(c, mode) ELSE stack[k + 1].id = c

\* A frame that was entered is at work on a node that needs its operands.
Waits(k) ==
    LET n == graph[stack[k].id]
    IN  /\ ~Current(stack[k].id, mode) /\ ~IsLeaf(n, mode)
        /\ stack[k].phase = 1 => Awaits(k, First(n, mode))
        /\ stack[k].phase = 2 =>
              /\ n.kind \in PairKinds /\ ~Redirected(n, mode)
              /\ Current(n.left, mode) /\ Awaits(k, n.right)

FrameInv ==
    /\ mode \in Modes /\ query \in {0} \cup Nodes
    /\ stack \in Seq(Frame)
    /\ query = 0 => stack = <<>>
    /\ \A k, l \in 1..Len(stack) : stack[k].id = stack[l].id => k = l
    /\ visiting = {stack[k].id : k \in {k \in 1..Len(stack) : stack[k].phase # 0}}
    /\ \A k \in 1..Len(stack) - 1 : stack[k].phase # 0
    /\ \A k \in 1..Len(stack) : stack[k].phase # 0 => Waits(k)

\* A memo that is made again, or shared with the other mode, is what it was.
TwinInv ==
    \A i \in Nodes, m, o \in Modes :
        /\ Current(i, m) /\ IsCycle(memos[i][m]) => m = mode
        /\ Current(i, m) /\ Current(i, o) /\ Shared(MemoValue(memos[i][m])) /\ ~IsCycle(memos[i][o])
              => MemoValue(memos[i][o]) = MemoValue(memos[i][m])

Justified(i, m) ==
    LET v == MemoValue(memos[i][m])
    IN  \/ FollowsOperands(i, v, m)
        \/ Shared(v) /\ FollowsOperands(i, v, Other(m))

FollowInv == \A i \in Nodes, m \in Modes : Current(i, m) /\ ~IsCycle(memos[i][m]) => Justified(i, m)

CoreInv == GraphInv /\ SpanInv /\ StringInv /\ MemoInv

\* The invariant while no error is recorded.
RunInv == CoreInv /\ FrameInv /\ TwinInv /\ FollowInv

\* A failed unit is left as it was, with the marks of the query that failed.
ValueInv ==
    /\ CoreInv
    /\ mode \in Modes /\ query \in 0..NodeLimit
    /\ error = "NONE" => RunInv
-----------------------------------------------------------------------------
(* Operations have values *)

Operand == [kind : {"INTEGER", "EXTENT", "STRING"}, num : Int, bytes : Buffer]
Result  == [value : Operand, error : Diagnostics]

\* The bounds of the machine words are numbers.
LEMMA Words ==
    /\ Word \in Nat \ {0} /\ ExtentMax \in Nat /\ StringMax \in Nat
    /\ \A k \in 0..Bits : 2 ^ k \in Nat \ {0} /\ 10 ^ k \in Nat \ {0}
<1>1. Bits \in 0..Bits
  BY WidthAssumption
<1> QED
  BY <1>1, WidthAssumption DEF Word

\* Remainders and quotients by a positive number.
LEMMA Divides ==
    ASSUME NEW x \in Int, NEW d \in Nat \ {0}
    PROVE  x % d \in 0..d - 1 /\ x \div d \in Int /\ (x \in Nat => x \div d \in Nat)
OBVIOUS

\* Reading a word with or without sign gives an integer.
LEMMA SignedType == \A x \in Int : Signed(x) \in Int /\ Unsigned(x) \in Nat
<1> SUFFICES ASSUME NEW x \in Int PROVE Signed(x) \in Int /\ Unsigned(x) \in Nat
  OBVIOUS
<1>1. Word \in Nat \ {0}
  BY Words
<1>2. x % Word \in 0..Word - 1
  BY <1>1, Divides
<1> QED
  BY <1>1, <1>2 DEF Signed, Unsigned

\* What an operation gives or refuses.
LEMMA Outcomes ==
    /\ \A v \in Int : /\ GivesInteger(v) \in Result /\ GivesInteger(v).value.kind = "INTEGER"
                      /\ GivesInteger(v).error = "NONE"
    /\ \A v \in Int : /\ Gives(ExtentValue(v)) \in Result /\ Gives(ExtentValue(v)).value.kind = "EXTENT"
                      /\ Gives(ExtentValue(v)).error = "NONE"
    /\ \A s \in Buffer : /\ Gives(StringValue(s)) \in Result /\ Gives(StringValue(s)).value.kind = "STRING"
                         /\ Gives(StringValue(s)).error = "NONE"
    /\ \A err \in Diagnostics : /\ Refuses(err) \in Result /\ Refuses(err).value.kind = "INTEGER"
                           /\ Refuses(err).error = err
<1> DEFINE none == <<>>
<1>1. none \in Buffer
  BY DEF Buffer
<1> HIDE DEF none
<1>2. \A x \in Operand, err \in Diagnostics : [value |-> x, error |-> err] \in Result
  BY DEF Result
<1>3. \A v \in Int : [kind |-> "INTEGER", num |-> v, bytes |-> none] \in Operand
  BY <1>1 DEF Operand
<1>4. \A v \in Int : [kind |-> "EXTENT", num |-> v, bytes |-> none] \in Operand
  BY <1>1 DEF Operand
<1>5. \A s \in Buffer : [kind |-> "STRING", num |-> 0, bytes |-> s] \in Operand
  BY DEF Operand
<1>6. ASSUME NEW x \in Operand, NEW err \in Diagnostics
      PROVE  [value |-> x, error |-> err].value = x
  OBVIOUS
<1>7. "NONE" \in Diagnostics
  BY DEF Diagnostics
<1>8. \A x \in Operand : Gives(x) \in Result /\ Gives(x).value = x /\ Gives(x).error = "NONE"
  BY <1>2, <1>7 DEF Gives
<1>9. \A v \in Int : IntegerValue(v) \in Operand /\ IntegerValue(v).kind = "INTEGER"
  BY <1>3 DEF IntegerValue, none
<1>10. \A v \in Int : ExtentValue(v) \in Operand /\ ExtentValue(v).kind = "EXTENT"
  BY <1>4 DEF ExtentValue, none
<1>11. \A s \in Buffer : StringValue(s) \in Operand /\ StringValue(s).kind = "STRING"
  BY <1>5 DEF StringValue
<1>12. ASSUME NEW err \in Diagnostics
       PROVE  Refuses(err) \in Result /\ Refuses(err).value.kind = "INTEGER" /\ Refuses(err).error = err
  <2> DEFINE x == IntegerValue(0)
  <2>1. x \in Operand /\ x.kind = "INTEGER"
    BY <1>9
  <2>2. Refuses(err) = [value |-> x, error |-> err]
    BY DEF Refuses
  <2> HIDE DEF x
  <2>3. Refuses(err).value = x /\ Refuses(err).error = err
    BY <2>2
  <2> QED
    BY <1>2, <2>1, <2>2, <2>3
<1> QED
  BY <1>8, <1>9, <1>10, <1>11, <1>12 DEF GivesInteger

\* Division as C does it gives integers.
LEMMA QuotientType ==
    ASSUME NEW x \in Int, NEW y \in Int, y # 0
    PROVE  Quotient(x, y) \in Int /\ Remainder(x, y) \in Int
<1> DEFINE a == Magnitude(x)
           b == Magnitude(y)
<1>1. a \in Nat /\ b \in Nat \ {0}
  BY DEF Magnitude
<1> HIDE DEF a, b
<1>2. a \div b \in Int
  BY <1>1, Divides
<1>3. Quotient(x, y) \in Int
  BY <1>2 DEF Quotient, a, b
<1> QED
  BY <1>3 DEF Remainder

\* A nonempty set of numbers up to a bound has a least member.
LEMMA LeastMember ==
    ASSUME NEW n \in Nat, NEW S \in SUBSET (1 .. n), S # {}
    PROVE  \E i \in S : \A j \in S : i <= j
<1> DEFINE R == StrictSubsetOrdering(1 .. n)
           T == {1 .. i : i \in S}
<1>1. IsWellFoundedOn(R, SUBSET (1 .. n))
  <2>1. IsFiniteSet(1 .. n)
    BY FS_Interval
  <2> QED
    BY <2>1, FS_StrictSubsetOrderingWellFounded, FS_FiniteSubsetsOfFinite
<1>2. T # {} /\ \A x \in T : x \subseteq 1 .. n
  <2>1. \A x \in T : x \subseteq 1 .. n
    BY Z3
  <2> QED
    BY <2>1
<1>3. ASSUME NEW i \in S, NEW j \in S, j < i PROVE <<1 .. j, 1 .. i>> \in R
  <2>1. 1 .. j \in SUBSET (1 .. n) /\ 1 .. i \in SUBSET (1 .. n)
    OBVIOUS
  <2>2. (1 .. j) \subseteq (1 .. i) /\ i \in 1 .. i /\ i \notin 1 .. j
    BY <1>3
  <2> QED
    BY <2>1, <2>2 DEF StrictSubsetOrdering
<1> HIDE DEF R
<1>4. \E x \in T : \A y \in T : ~(<<y, x>> \in R)
  <2> HIDE DEF T
  <2> QED
    BY <1>1, <1>2, WFMin
<1>5. PICK i \in S : \A j \in S : ~(<<1 .. j, 1 .. i>> \in R)
  BY <1>4
<1>6. \A j \in S : ~(j < i)
  BY <1>3, <1>5
<1> QED
  BY <1>6

\* The bits of a number add up to a number.
LEMMA BitSumType == \A chosen : BitSum(chosen) \in Int
<1> SUFFICES ASSUME NEW chosen PROVE BitSum(chosen) \in Int
  OBVIOUS
<1> DEFINE Partial(g, k) == IF k = 0 THEN 0 ELSE g[k - 1] + (IF k - 1 \in chosen THEN 2 ^ (k - 1) ELSE 0)
           Upto(n)    == \E g \in [0..n -> Int] : \A k \in 0..n : g[k] = Partial(g, k)
           bad        == {n \in 0..Bits : ~Upto(n)}
<1>1. Bits \in Nat
  BY WidthAssumption
<1>2. Upto(0)
  <2> DEFINE g == [k \in 0..0 |-> 0]
  <2>1. g \in [0..0 -> Int] /\ \A k \in 0..0 : g[k] = Partial(g, k)
    OBVIOUS
  <2> QED
    BY <2>1
<1>3. ASSUME NEW n \in 0..Bits, n + 1 \in 0..Bits, Upto(n)
      PROVE  Upto(n + 1)
  <2>1. PICK g \in [0..n -> Int] : \A k \in 0..n : g[k] = Partial(g, k)
    BY <1>3
  <2> DEFINE w == IF n \in chosen THEN 2 ^ n ELSE 0
             h == [k \in 0..n + 1 |-> IF k = n + 1 THEN g[n] + w ELSE g[k]]
  <2>2. w \in Int
    BY Words
  <2>3. g[n] \in Int
    BY <2>1
  <2>4. h \in [0..n + 1 -> Int]
    BY <2>1, <2>2, <2>3
  <2>5. ASSUME NEW k \in 0..n + 1 PROVE h[k] = Partial(h, k)
    <3>1. CASE k = n + 1
      <4>1. h[n] = g[n] /\ k - 1 = n /\ k # 0
        BY <1>1, <3>1
      <4> QED
        BY <3>1, <4>1
    <3>2. CASE k \in 0..n
      <4>1. h[k] = g[k] /\ (k # 0 => k - 1 \in 0..n /\ h[k - 1] = g[k - 1])
        BY <1>1, <3>2
      <4> QED
        BY <2>1, <3>2, <4>1
    <3> QED
      BY <1>1, <2>5, <3>1, <3>2
  <2> QED
    BY <2>4, <2>5
<1> HIDE DEF Upto
<1>4. \A n \in 0..Bits : Upto(n)
  <2> SUFFICES ASSUME bad # {} PROVE FALSE
    OBVIOUS
  <2>1. bad \in SUBSET (1..Bits)
    BY <1>1, <1>2
  <2> HIDE DEF bad
  <2>2. PICK n \in bad : \A k \in bad : n <= k
    BY <1>1, <2>1, LeastMember
  <2> USE DEF bad
  <2>3. n \in Nat /\ n - 1 \in 0..Bits /\ n - 1 \notin bad /\ (n - 1) + 1 = n
    BY <1>1, <2>1, <2>2
  <2> QED
    BY <1>3, <2>2, <2>3
<1>5. \E g : g = [k \in 0..Bits |-> Partial(g, k)]
  <2>1. PICK g \in [0..Bits -> Int] : \A k \in 0..Bits : g[k] = Partial(g, k)
    <3>1. Upto(Bits)
      BY <1>1, <1>4
    <3> QED
      BY <3>1 DEF Upto
  <2>2. g = [k \in 0..Bits |-> Partial(g, k)]
    BY <2>1
  <2> QED
    BY <2>2
<1> DEFINE f == CHOOSE g : g = [k \in 0..Bits |-> Partial(g, k)]
<1>6. f = [k \in 0..Bits |-> Partial(f, k)]
  BY <1>5
<1>7. BitSum(chosen) = f[Bits]
  BY DEF BitSum
<1> HIDE DEF f
<1>8. f[0] = 0 /\ \A k \in 1..Bits : f[k] = f[k - 1] + (IF k - 1 \in chosen THEN 2 ^ (k - 1) ELSE 0)
  <2>1. 0 \in 0..Bits /\ \A k \in 1..Bits : k \in 0..Bits /\ k # 0
    BY <1>1
  <2> QED
    BY <1>6, <2>1
<1> DEFINE wrong == {k \in 1..Bits : f[k] \notin Int}
<1>9. wrong = {}
  <2> SUFFICES ASSUME wrong # {} PROVE FALSE
    OBVIOUS
  <2>1. wrong \in SUBSET (1..Bits)
    OBVIOUS
  <2> HIDE DEF wrong
  <2>2. PICK n \in wrong : \A k \in wrong : n <= k
    BY <1>1, <2>1, LeastMember
  <2>3. n \in 1..Bits /\ n - 1 \notin wrong /\ n - 1 \in 0..Bits
    BY <1>1, <2>1, <2>2
  <2> USE DEF wrong
  <2>4. f[n - 1] \in Int
    BY <1>1, <1>8, <2>3
  <2>5. 2 ^ (n - 1) \in Int
    BY <2>3, Words
  <2>6. f[n] \in Int
    BY <1>8, <2>3, <2>4, <2>5
  <2> QED
    BY <2>2, <2>6
<1> QED
  BY <1>1, <1>7, <1>8, <1>9

\* Arithmetic has an integer or an error as its result.
LEMMA IntegerOperationType ==
    ASSUME NEW op \in Operators, NEW x \in Int, NEW y \in Int
    PROVE  IntegerOperation(op, x, y) \in Result /\ IntegerOperation(op, x, y).value.kind = "INTEGER"
<1> DEFINE Good(r) == r \in Result /\ r.value.kind = "INTEGER"
<1> SUFFICES Good(IntegerOperation(op, x, y))
  OBVIOUS
<1>1. \A v \in Int : Good(GivesInteger(v))
  BY Outcomes
<1>2. \A err \in Diagnostics : Good(Refuses(err))
  BY Outcomes
<1> HIDE DEF Good
<1>3. \A v \in Int : Good(GivesInteger(Signed(v)))
  BY <1>1, SignedType
<1>4. \A b : Good(GivesInteger(Truth(b)))
  BY <1>1 DEF Truth
<1>5. Unsigned(x) % 256 \in Int /\ (Unsigned(x) \div 256) % 256 \in Int
  <2>1. Unsigned(x) \in Nat
    BY SignedType
  <2> QED
    BY <2>1
<1>6. \A pairs : BitsWhere(x, y, pairs) \in Int
  BY BitSumType, SignedType DEF BitsWhere
<1>7. ASSUME y \in 0..Bits - 1
      PROVE  Unsigned(x) * 2 ^ y \in Int /\ Unsigned(x) \div 2 ^ y \in Int
  <2>1. Unsigned(x) \in Nat
    BY SignedType
  <2>2. 2 ^ y \in Nat \ {0}
    BY <1>7, Words, WidthAssumption
  <2> QED
    BY <2>1, <2>2, Divides
<1>8. CASE op \in {"NEGATE", "COMPLEMENT", "ADD", "SUBTRACT", "MULTIPLY"}
  <2>1. -x \in Int /\ -x - 1 \in Int /\ x + y \in Int /\ x - y \in Int /\ x * y \in Int
    OBVIOUS
  <2>2. /\ Good(GivesInteger(Signed(-x))) /\ Good(GivesInteger(Signed(-x - 1)))
        /\ Good(GivesInteger(Signed(x + y))) /\ Good(GivesInteger(Signed(x - y)))
        /\ Good(GivesInteger(Signed(x * y)))
    BY <1>3, <2>1
  <2> QED
    BY <1>8, <2>2 DEF IntegerOperation
<1>9. CASE op \in {"NOT", "EQUAL", "NOT_EQUAL", "LESS", "LESS_EQUAL", "GREATER", "GREATER_EQUAL"}
  <2>1. /\ Good(GivesInteger(Truth(x = 0))) /\ Good(GivesInteger(Truth(x = y)))
        /\ Good(GivesInteger(Truth(x # y))) /\ Good(GivesInteger(Truth(x < y)))
        /\ Good(GivesInteger(Truth(x <= y))) /\ Good(GivesInteger(Truth(x > y)))
        /\ Good(GivesInteger(Truth(x >= y)))
    BY <1>4
  <2> QED
    BY <1>9, <2>1 DEF IntegerOperation
<1>10. CASE op \in {"LOW", "HIGH"}
  <2>1. /\ Good(GivesInteger(Unsigned(x) % 256))
        /\ Good(GivesInteger((Unsigned(x) \div 256) % 256))
    BY <1>1, <1>5
  <2> QED
    BY <1>10, <2>1 DEF IntegerOperation
<1>11. CASE op \in {"BIT_AND", "BIT_OR", "BIT_XOR"}
  <2>1. \A pairs : Good(GivesInteger(BitsWhere(x, y, pairs)))
    BY <1>1, <1>6
  <2> QED
    BY <1>11, <2>1 DEF IntegerOperation
<1>12. CASE op \in {"DIVIDE", "REMAINDER"}
  <2>1. Good(Refuses("DIV_ZERO")) /\ Good(Refuses("MOD_ZERO"))
    BY <1>2 DEF Diagnostics
  <2>2. y # 0 => Good(GivesInteger(Signed(Quotient(x, y)))) /\ Good(GivesInteger(Remainder(x, y)))
    BY <1>1, <1>3, QuotientType
  <2> QED
    BY <1>12, <2>1, <2>2 DEF IntegerOperation
<1>13. CASE op \in {"SHIFT_LEFT", "SHIFT_RIGHT"}
  <2>1. Good(Refuses("SHIFT"))
    BY <1>2 DEF Diagnostics
  <2> QED
    BY <1>3, <1>7, <1>13, <2>1 DEF IntegerOperation
<1> QED
  BY <1>8, <1>9, <1>10, <1>11, <1>12, <1>13 DEF Operators

\* The decimal digits of a number, as bytes.
LEMMA DigitsType == \A n \in Nat : Digits(n) \in Buffer
<1> SUFFICES ASSUME NEW n \in Nat PROVE Digits(n) \in Buffer
  OBVIOUS
<1> DEFINE powers == {k \in 1..Bits : 10 ^ k <= n}
           count  == 1 + Cardinality(powers)
<1>1. Bits \in Nat
  BY WidthAssumption
<1>2. Cardinality(powers) \in 0..Bits
  <2>1. IsFiniteSet(1..Bits) /\ Cardinality(1..Bits) = Bits
    BY <1>1, FS_Interval
  <2>2. powers \subseteq 1..Bits
    OBVIOUS
  <2> HIDE DEF powers
  <2>3. IsFiniteSet(powers) /\ Cardinality(powers) <= Bits
    BY <2>1, <2>2, FS_Subset
  <2> QED
    BY <1>1, <2>3, FS_CardinalityType
<1>3. ASSUME NEW c \in 1..Bits + 1, NEW k \in 1..c
      PROVE  48 + ((n \div 10 ^ (c - k)) % 10) \in Int
  <2>1. c - k \in 0..Bits
    BY <1>1
  <2>2. 10 ^ (c - k) \in Nat \ {0}
    BY <2>1, Words
  <2>3. n \div 10 ^ (c - k) \in Int
    BY <2>2, Divides
  <2> QED
    BY <2>3
<1>4. count \in 1..Bits + 1
  BY <1>1, <1>2
<1>5. Digits(n) = [k \in 1..count |-> 48 + ((n \div 10 ^ (count - k)) % 10)]
  BY DEF Digits
<1> HIDE DEF count, powers
<1>6. count \in Nat /\ Digits(n) \in [1..count -> Int]
  BY <1>1, <1>3, <1>4, <1>5
<1> QED
  BY <1>6 DEF Buffer

\* Every value has a text of bytes.
LEMMA TextType == \A v \in Operand : Text(v) \in Buffer
<1> SUFFICES ASSUME NEW v \in Operand PROVE Text(v) \in Buffer
  OBVIOUS
<1>1. v.num \in Int /\ v.bytes \in Buffer
  BY DEF Operand
<1>2. CASE v.num < 0
  <2>1. Digits(-v.num) \in Buffer
    BY <1>1, <1>2, DigitsType
  <2>2. <<45>> \in Buffer
    BY DEF Buffer
  <2>3. <<45>> \o Digits(-v.num) \in Buffer
    BY <2>1, <2>2, ConcatProperties DEF Buffer
  <2> QED
    BY <1>1, <1>2, <2>3 DEF Text
<1>3. CASE ~(v.num < 0)
  <2>1. Digits(v.num) \in Buffer
    BY <1>1, <1>3, DigitsType
  <2> QED
    BY <1>1, <1>3, <2>1 DEF Text
<1> QED
  BY <1>2, <1>3

\* Comparisons of strings give integers; an addition gives the joined text, if it fits.
LEMMA StringOperationType ==
    ASSUME NEW op \in Operators, NEW x \in Operand, NEW y \in Operand, NEW room
    PROVE  /\ StringOperation(op, x, y, room) \in Result
           /\ op # "ADD" => StringOperation(op, x, y, room).value.kind = "INTEGER"
           /\ op = "ADD" => LET joined == Text(x) \o Text(y)
                            IN  /\ joined \in Buffer
                                /\ StringOperation(op, x, y, room) =
                                     IF Len(joined) > StringMax \/ Len(joined) > room
                                     THEN Refuses("STRING_LIMIT") ELSE Gives(StringValue(joined))
<1>1. Text(x) \in Buffer /\ Text(y) \in Buffer
  BY TextType
<1>2. Text(x) \o Text(y) \in Buffer
  BY <1>1, ConcatProperties DEF Buffer
<1>3. \A b : GivesInteger(Truth(b)) \in Result /\ GivesInteger(Truth(b)).value.kind = "INTEGER"
  BY Outcomes DEF Truth
<1>4. CASE op # "ADD"
  <2>1. \A s, t : Compared(op, s, t) \in Result /\ Compared(op, s, t).value.kind = "INTEGER"
    <3> SUFFICES ASSUME NEW s, NEW t
                 PROVE Compared(op, s, t) \in Result /\ Compared(op, s, t).value.kind = "INTEGER"
      OBVIOUS
    <3>1. CASE op \in {"EQUAL", "NOT_EQUAL", "LESS", "LESS_EQUAL", "GREATER", "GREATER_EQUAL"}
      BY <1>3, <3>1 DEF Compared
    <3>2. CASE op \notin {"EQUAL", "NOT_EQUAL", "LESS", "LESS_EQUAL", "GREATER", "GREATER_EQUAL"}
      <4>1. Compared(op, s, t) = Refuses("TYPE")
        BY <3>2 DEF Compared
      <4> QED
        BY <4>1, Outcomes DEF Diagnostics
    <3> QED
      BY <3>1, <3>2
  <2> QED
    BY <1>4, <2>1, Outcomes DEF StringOperation, Diagnostics
<1>5. CASE op = "ADD"
  <2>1. Gives(StringValue(Text(x) \o Text(y))) \in Result /\ Refuses("STRING_LIMIT") \in Result
    BY <1>2, Outcomes DEF Diagnostics
  <2> QED
    BY <1>2, <1>5, <2>1 DEF StringOperation
<1> QED
  BY <1>4, <1>5

\* A range check passes an integer or refuses it.
LEMMA CheckedType ==
    ASSUME NEW v \in Int, NEW low, NEW high
    PROVE  Checked(v, low, high) \in Result /\ Checked(v, low, high).value.kind # "STRING"
BY Outcomes DEF Checked, Diagnostics

\* An operation on extents has a value that is no string, or an error.
LEMMA ExtentOperationType ==
    ASSUME NEW kind \in ExtentKinds, NEW low, NEW high, NEW x \in Operand, NEW y \in Operand
    PROVE  /\ ExtentOperation(kind, low, high, x, y) \in Result
           /\ ExtentOperation(kind, low, high, x, y).value.kind # "STRING"
<1>1. x.num \in Int /\ y.num \in Int /\ x.bytes \in Buffer /\ x.kind \in {"INTEGER", "EXTENT", "STRING"}
  BY DEF Operand
<1> DEFINE Good(r) == r \in Result /\ r.value.kind # "STRING"
<1>2. \A err \in Diagnostics : Good(Refuses(err))
  BY Outcomes
<1>3. \A v \in Int : Good(Gives(ExtentValue(v))) /\ Good(GivesInteger(v))
  BY Outcomes
<1>4. \A v \in Int : \A l, h : Good(Checked(v, l, h))
  BY CheckedType
<1> HIDE DEF Good
<1>5. Len(x.bytes) \in Int
  BY <1>1 DEF Buffer
<1>6. Good(GivesInteger(Signed(x.num)))
  BY <1>1, <1>3, SignedType
<1>7. x.num + y.num \in Int /\ x.num * y.num \in Int /\ x.num - y.num \in Int
  BY <1>1
<1>8. Good(Refuses("TYPE")) /\ Good(Refuses("EXTENT")) /\ Good(Gives(ExtentValue(1)))
  BY <1>2, <1>3 DEF Diagnostics
<1>9. Good(Gives(ExtentValue(Len(x.bytes))))
  BY <1>3, <1>5
<1>10. Good(ExtentOperation(kind, low, high, x, y))
  <2>1. CASE kind = "EXTENT_COUNT"
    BY <1>1, <1>4, <1>8, <2>1 DEF ExtentOperation
  <2>2. CASE kind = "EXTENT_STRING"
    BY <1>1, <1>8, <1>9, <2>2 DEF ExtentOperation
  <2>3. CASE kind \in {"EXTENT_SUM", "EXTENT_REPEAT", "EXTENT_REMAINDER"}
    <3>1. \A l, h : /\ Good(Checked(x.num + y.num, l, h)) /\ Good(Checked(x.num * y.num, l, h))
                    /\ Good(Checked(x.num - y.num, l, h))
      BY <1>4, <1>7
    <3> QED
      BY <1>8, <2>3, <3>1 DEF ExtentOperation
  <2>4. CASE kind \in {"EXTENT_BOUND", "EXTENT_INTEGER"}
    BY <1>1, <1>4, <1>6, <1>8, <2>4 DEF ExtentOperation
  <2> QED
    BY <2>1, <2>2, <2>3, <2>4 DEF ExtentKinds
<1> QED
  BY <1>10 DEF Good
-----------------------------------------------------------------------------
(* Values of nodes *)

ValueType ==
    [state : States, kind : {"INTEGER", "EXTENT", "STRING"}, error : Diagnostics, at : Int,
     num : Int, flags : SUBSET {"BINDING", "LAYOUT"}]

\* A result of the evaluator: its number means something where it is known, it is
\* known only where no definition was missing, and a string has its buffer.
IsValue(v) ==
    /\ v \in ValueType
    /\ v.state # "KNOWN" => v.num = 0
    /\ v.state = "KNOWN" => "BINDING" \notin v.flags
    /\ v.state = "KNOWN" /\ v.kind = "STRING" => v.num \in 1..Len(strings)

\* Reading a memo back gives a value with the fields of the memo.
LEMMA MemoFields ==
    ASSUME NEW memo \in MemoType
    PROVE  /\ MemoValue(memo).state = memo.state /\ MemoValue(memo).kind = memo.kind
           /\ MemoValue(memo).error = memo.error /\ MemoValue(memo).at = memo.at
           /\ MemoValue(memo).num = (IF memo.state = "KNOWN" THEN memo.payload ELSE 0)
           /\ MemoValue(memo).flags = memo.flags \ {"CACHED"}
           /\ MemoValue(memo) \in ValueType
           /\ IsCycle(MemoValue(memo)) <=> IsCycle(memo)
<1>1. /\ MemoValue(memo).state = memo.state /\ MemoValue(memo).kind = memo.kind
      /\ MemoValue(memo).error = memo.error /\ MemoValue(memo).at = memo.at
      /\ MemoValue(memo).num = (IF memo.state = "KNOWN" THEN memo.payload ELSE 0)
      /\ MemoValue(memo).flags = memo.flags \ {"CACHED"}
  BY DEF MemoValue
<1>2. MemoValue(memo) \in ValueType
  <2>1. /\ memo.state \in States /\ memo.kind \in {"INTEGER", "EXTENT", "STRING"}
        /\ memo.error \in Diagnostics /\ memo.at \in Int /\ memo.payload \in Int
        /\ memo.flags \in SUBSET {"CACHED", "BINDING", "LAYOUT"}
    BY DEF MemoType
  <2>2. memo.flags \ {"CACHED"} \in SUBSET {"BINDING", "LAYOUT"}
    BY <2>1
  <2>3. (IF memo.state = "KNOWN" THEN memo.payload ELSE 0) \in Int
    BY <2>1
  <2> QED
    BY <2>1, <2>2, <2>3 DEF MemoValue, ValueType
<1> QED
  BY <1>1, <1>2 DEF IsCycle

\* What a memo holds is a value.
LEMMA MemosHoldValues ==
    ASSUME MemoInv, NEW i \in NodeRange, NEW m \in Modes
    PROVE  /\ memos[i][m] \in MemoType
           /\ IsValue(MemoValue(memos[i][m]))
<1>1. memos[i][m] \in MemoType
  BY DEF MemoInv
<1>2. MemoValue(memos[i][m]) \in ValueType
  BY <1>1, MemoFields
<1>3. memos[i][m].state = "KNOWN" => "BINDING" \notin memos[i][m].flags
  BY DEF MemoInv, PayloadIsUnambiguous
<1>4. memos[i][m].state = "KNOWN" /\ memos[i][m].kind = "STRING" => memos[i][m].payload \in 1..Len(strings)
  BY DEF MemoInv
<1> QED
  BY <1>1, <1>2, <1>3, <1>4, MemoFields DEF IsValue

\* The three kinds of result, field by field.
LEMMA KnownFields ==
    \A kind, num :
        /\ Known(kind, num).state = "KNOWN" /\ Known(kind, num).kind = kind
        /\ Known(kind, num).num = num /\ Known(kind, num).error = "NONE"
        /\ Known(kind, num).at = 0 /\ Known(kind, num).flags = {}
BY DEF Known

\* An error says where it is.
LEMMA InvalidFields ==
    \A err, at :
        /\ Invalid(err, at).state = "INVALID" /\ Invalid(err, at).kind = "INTEGER"
        /\ Invalid(err, at).num = 0 /\ Invalid(err, at).error = err
        /\ Invalid(err, at).at = at /\ Invalid(err, at).flags = {}
BY DEF Invalid

\* A result that waits says what for.
LEMMA DeferredFields ==
    \A why :
        /\ Deferred(why).state = "DEFERRED" /\ Deferred(why).kind = "INTEGER"
        /\ Deferred(why).num = 0 /\ Deferred(why).error = "NONE"
        /\ Deferred(why).at = 0 /\ Deferred(why).flags = why
BY DEF Deferred

\* Adding flags changes nothing else.
LEMMA WithFlagsFields ==
    ASSUME NEW v \in ValueType, NEW fs \in SUBSET {"BINDING", "LAYOUT"}
    PROVE  /\ WithFlags(v, fs).state = v.state /\ WithFlags(v, fs).kind = v.kind
           /\ WithFlags(v, fs).num = v.num /\ WithFlags(v, fs).error = v.error
           /\ WithFlags(v, fs).at = v.at /\ WithFlags(v, fs).flags = v.flags \cup fs
           /\ WithFlags(v, fs) \in ValueType
           /\ IsCycle(WithFlags(v, fs)) <=> IsCycle(v)
<1>1. /\ v.state \in States /\ v.kind \in {"INTEGER", "EXTENT", "STRING"} /\ v.error \in Diagnostics
      /\ v.at \in Int /\ v.num \in Int /\ v.flags \in SUBSET {"BINDING", "LAYOUT"}
  BY DEF ValueType
<1>2. WithFlags(v, fs) = [state |-> v.state, kind |-> v.kind, error |-> v.error, at |-> v.at,
                          num |-> v.num, flags |-> v.flags \cup fs]
  BY DEF WithFlags, ValueType
<1>3. v.flags \cup fs \in SUBSET {"BINDING", "LAYOUT"}
  BY <1>1
<1>4. WithFlags(v, fs) \in ValueType
  BY <1>1, <1>2, <1>3 DEF ValueType
<1>5. /\ WithFlags(v, fs).state = v.state /\ WithFlags(v, fs).kind = v.kind
      /\ WithFlags(v, fs).num = v.num /\ WithFlags(v, fs).error = v.error
      /\ WithFlags(v, fs).at = v.at /\ WithFlags(v, fs).flags = v.flags \cup fs
  BY <1>2
<1> QED
  BY <1>4, <1>5 DEF IsCycle

\* Every result is a value.
LEMMA PlainValues ==
    /\ \A num \in Int : Known("INTEGER", num) \in ValueType /\ Known("EXTENT", num) \in ValueType
                        /\ Known("STRING", num) \in ValueType
    /\ \A err \in Diagnostics, at \in Int : Invalid(err, at) \in ValueType
    /\ \A why \in SUBSET {"BINDING", "LAYOUT"} : Deferred(why) \in ValueType
<1>1. "NONE" \in Diagnostics
  BY DEF Diagnostics
<1>2. \A num \in Int : Known("INTEGER", num) \in ValueType /\ Known("EXTENT", num) \in ValueType
                       /\ Known("STRING", num) \in ValueType
  BY <1>1 DEF Known, ValueType, States
<1>3. \A err \in Diagnostics, at \in Int : Invalid(err, at) \in ValueType
  BY DEF Invalid, ValueType, States
<1>4. \A why \in SUBSET {"BINDING", "LAYOUT"} : Deferred(why) \in ValueType
  BY <1>1 DEF Deferred, ValueType, States
<1> QED
  BY <1>2, <1>3, <1>4
-----------------------------------------------------------------------------
(* Nodes *)

NodeKinds == LiteralKinds \cup PairKinds \cup ExtentKinds \cup {"REFERENCE", "ADDRESS", "UNARY"}

\* The type of a node, with its kinds collected.
LEMMA NodeRecords ==
    NodeType = [kind : NodeKinds, op : Operators \cup {""}, left : Int, right : Int, extra : Int,
                joined : BOOLEAN]
BY DEF NodeType, NodeKinds

\* A lowered span keeps operator and operands.
LEMMA LoweredNode ==
    ASSUME NEW n \in NodeType, NEW x \in Int
    PROVE  LET s == [n EXCEPT !.kind = "SPAN", !.extra = x]
           IN  /\ s \in NodeType /\ s.kind = "SPAN" /\ s.op = n.op /\ s.left = n.left
               /\ s.right = n.right /\ s.extra = x /\ s.joined = n.joined
<1>1. n \in [kind : NodeKinds, op : Operators \cup {""}, left : Int, right : Int, extra : Int,
            joined : BOOLEAN]
  BY NodeRecords
<1>2. "SPAN" \in NodeKinds
  BY DEF NodeKinds, PairKinds
<1>3. ASSUME NEW k \in NodeKinds
      PROVE  LET s == [n EXCEPT !.kind = k]
             IN  /\ s \in NodeType /\ s.kind = k /\ s.op = n.op /\ s.left = n.left
                 /\ s.right = n.right /\ s.extra = n.extra /\ s.joined = n.joined
  BY <1>1, NodeRecords
<1>4. ASSUME NEW r \in NodeType
      PROVE  LET s == [r EXCEPT !.extra = x]
             IN  /\ s \in NodeType /\ s.kind = r.kind /\ s.op = r.op /\ s.left = r.left
                 /\ s.right = r.right /\ s.extra = x /\ s.joined = r.joined
  <2>1. r \in [kind : NodeKinds, op : Operators \cup {""}, left : Int, right : Int, extra : Int,
               joined : BOOLEAN]
    BY NodeRecords
  <2> QED
    BY <2>1, NodeRecords
<1>5. [n EXCEPT !.kind = "SPAN", !.extra = x] = [[n EXCEPT !.kind = "SPAN"] EXCEPT !.extra = x]
  OBVIOUS
<1>6. PICK s : s = [n EXCEPT !.kind = "SPAN"]
  OBVIOUS
<1>7. /\ s \in NodeType /\ s.kind = "SPAN" /\ s.op = n.op /\ s.left = n.left
      /\ s.right = n.right /\ s.extra = n.extra /\ s.joined = n.joined
  BY <1>2, <1>3, <1>6
<1> QED
  BY <1>4, <1>5, <1>6, <1>7

\* A concatenation that got buffer x.
JoinedAs(n, x) == [[n EXCEPT !.joined = TRUE] EXCEPT !.extra = x]

\* A concatenation that got its buffer keeps kind, operator and operands.
LEMMA JoinedNode ==
    ASSUME NEW n \in NodeType, NEW x \in Int, NEW j, j = JoinedAs(n, x)
    PROVE  /\ j \in NodeType /\ j.kind = n.kind /\ j.op = n.op /\ j.left = n.left
           /\ j.right = n.right /\ j.extra = x /\ j.joined
<1>1. n \in [kind : NodeKinds, op : Operators \cup {""}, left : Int, right : Int, extra : Int,
            joined : BOOLEAN]
  BY NodeRecords
<1>2. ASSUME NEW b \in BOOLEAN
      PROVE  LET s == [n EXCEPT !.joined = b]
             IN  /\ s \in NodeType /\ s.kind = n.kind /\ s.op = n.op /\ s.left = n.left
                 /\ s.right = n.right /\ s.extra = n.extra /\ s.joined = b
  BY <1>1, NodeRecords
<1>3. ASSUME NEW r \in NodeType
      PROVE  LET s == [r EXCEPT !.extra = x]
             IN  /\ s \in NodeType /\ s.kind = r.kind /\ s.op = r.op /\ s.left = r.left
                 /\ s.right = r.right /\ s.extra = x /\ s.joined = r.joined
  <2>1. r \in [kind : NodeKinds, op : Operators \cup {""}, left : Int, right : Int, extra : Int,
               joined : BOOLEAN]
    BY NodeRecords
  <2> QED
    BY <2>1, NodeRecords
<1>4. PICK k : k = [n EXCEPT !.joined = TRUE]
  OBVIOUS
<1>5. /\ k \in NodeType /\ k.kind = n.kind /\ k.op = n.op /\ k.left = n.left
       /\ k.right = n.right /\ k.extra = n.extra /\ k.joined = TRUE
  BY <1>2, <1>4
<1>6. j = [k EXCEPT !.extra = x]
  BY <1>4 DEF JoinedAs
<1> QED
  BY <1>3, <1>5, <1>6

\* The fields of a node of the graph.
LEMMA NodeFields ==
    ASSUME GraphInv, NEW i \in Nodes
    PROVE  /\ graph[i] \in NodeType /\ Built(graph[i])
           /\ graph[i].kind \in NodeKinds /\ graph[i].left \in Int /\ graph[i].right \in Int
           /\ graph[i].extra \in Int /\ graph[i].joined \in BOOLEAN
           /\ i \in NodeRange /\ Len(graph) \in Nat
           /\ Operands(graph[i], bound, prefix) \subseteq Nodes
<1>1. Len(graph) \in Nat /\ Len(graph) <= NodeLimit /\ NodeLimit \in Nat
  BY GraphAssumption DEF GraphInv
<1>2. graph[i] \in NodeType
  BY DEF GraphInv, Nodes
<1>3. /\ graph[i].kind \in NodeKinds /\ graph[i].left \in Int /\ graph[i].right \in Int
      /\ graph[i].extra \in Int /\ graph[i].joined \in BOOLEAN
  BY <1>2 DEF NodeType, NodeKinds
<1>4. Built(graph[i]) /\ Operands(graph[i], bound, prefix) \subseteq Nodes
  BY DEF GraphInv
<1> QED
  BY <1>1, <1>2, <1>3, <1>4 DEF Nodes, NodeRange

\* The first operand, and the second of a pair, are nodes that node_parents links.
LEMMA FirstOperand ==
    ASSUME GraphInv, NEW i \in Nodes, NEW m \in Modes, ~IsLeaf(graph[i], m)
    PROVE  /\ First(graph[i], m) \in Operands(graph[i], bound, prefix)
           /\ First(graph[i], m) \in Nodes
           /\ graph[i].kind \in PairKinds =>
                 /\ graph[i].right \in Operands(graph[i], bound, prefix)
                 /\ graph[i].right \in Nodes
           /\ graph[i].kind \in PairKinds /\ ~Redirected(graph[i], m) =>
                 First(graph[i], m) = graph[i].left
<1> DEFINE n == graph[i]
<1>1. /\ n.kind \in NodeKinds /\ Operands(n, bound, prefix) \subseteq Nodes
      /\ n.kind = "REFERENCE" => n.left \in Definitions
      /\ n.kind = "ADDRESS" => n.left \in Anchors
  BY NodeFields DEF Built
<1> HIDE DEF n
<1>2. First(n, m) \in Operands(n, bound, prefix)
  <2>1. CASE n.kind = "REFERENCE"
    BY <2>1 DEF First, Operands, IsLeaf, LiteralKinds, PairKinds, Redirected, n
  <2>2. CASE n.kind = "ADDRESS"
    BY <2>2 DEF First, Operands, IsLeaf, LiteralKinds, PairKinds, Redirected, n
  <2>3. CASE n.kind = "SPAN"
    BY <2>3 DEF First, Operands, IsLeaf, LiteralKinds, PairKinds, Redirected, n
  <2>4. CASE n.kind \notin LiteralKinds \cup {"REFERENCE", "ADDRESS", "SPAN"}
    BY <2>4 DEF First, Operands, IsLeaf, LiteralKinds, PairKinds, Redirected, n
  <2> QED
    BY <2>1, <2>2, <2>3, <2>4 DEF IsLeaf, n
<1>3. n.kind \in PairKinds => n.right \in Operands(n, bound, prefix)
  BY DEF Operands, PairKinds, LiteralKinds
<1>4. n.kind \in PairKinds /\ ~Redirected(n, m) => First(n, m) = n.left
  BY DEF First, PairKinds
<1> QED
  BY <1>1, <1>2, <1>3, <1>4 DEF n
-----------------------------------------------------------------------------
(* What an operation makes of its operands *)

OperationKinds == ExtentKinds \cup {"BINARY", "SPAN", "UNARY"}

\* A known value is an operand, with its bytes if it is a string.
LEMMA ValueOfType ==
    ASSUME StringInv, NEW v, IsValue(v), v.state = "KNOWN"
    PROVE  /\ ValueOf(v) \in Operand
           /\ ValueOf(v).kind = v.kind
<1>1. v.kind \in {"INTEGER", "EXTENT", "STRING"} /\ v.num \in Int
  BY DEF IsValue, ValueType
<1>2. CASE v.kind = "STRING"
  <2>1. strings[v.num] \in Buffer
    BY <1>2 DEF IsValue, StringInv
  <2>2. StringValue(strings[v.num]) = [kind |-> "STRING", num |-> 0, bytes |-> strings[v.num]]
    BY DEF StringValue
  <2> QED
    BY <1>2, <2>1, <2>2 DEF ValueOf, Operand
<1>3. CASE v.kind # "STRING"
  <2> DEFINE none == <<>>
  <2>1. none \in Buffer
    BY DEF Buffer
  <2>2. ValueOf(v) = [kind |-> v.kind, num |-> v.num, bytes |-> none]
    BY <1>3 DEF ValueOf
  <2> HIDE DEF none
  <2> QED
    BY <1>1, <2>1, <2>2 DEF Operand
<1> QED
  BY <1>2, <1>3

\* The two operands of an operation that are known.
Ready(l, r) == IsValue(l) /\ IsValue(r) /\ l.state = "KNOWN" /\ r.state = "KNOWN"

\* What operation() gets from the part that does the work.
Worked(i, l, r) ==
    LET n == graph[i]
        x == ValueOf(l)
        y == ValueOf(r)
    IN  IF n.kind \in ExtentKinds THEN ExtentOperation(n.kind, n.right, n.extra, x, y)
        ELSE IF "EXTENT" \in {l.kind, r.kind} THEN Refuses("TYPE")
        ELSE IF ~Stringy(l, r) THEN IntegerOperation(n.op, x.num, y.num)
        ELSE IF n.kind = "UNARY" THEN Refuses("TYPE")
        ELSE IF "LAYOUT" \in l.flags \cup r.flags THEN Refuses("LAYOUT_STRING")
        ELSE IF n.joined THEN Gives(StringValue(strings[n.extra]))
        ELSE StringOperation(n.op, x, y, LiveMax - LiveBytes)

Joined(l, r) == Text(ValueOf(l)) \o Text(ValueOf(r))

\* A string is the result of a concatenation alone, and of one that fits.
LEMMA WorkedType ==
    ASSUME GraphInv, StringInv, NEW i \in Nodes, graph[i].kind \in OperationKinds,
           NEW l, NEW r, Ready(l, r)
    PROVE  /\ Worked(i, l, r) \in Result
           /\ Joined(l, r) \in Buffer
           /\ Worked(i, l, r).value.kind = "STRING" =>
                 /\ Worked(i, l, r).error = "NONE"
                 /\ graph[i].kind = "BINARY" /\ graph[i].op = "ADD" /\ Stringy(l, r)
                 /\ "EXTENT" \notin {l.kind, r.kind} /\ "LAYOUT" \notin l.flags \cup r.flags
                 /\ ~graph[i].joined => /\ ~(Len(Joined(l, r)) > StringMax)
                                        /\ ~(Len(Joined(l, r)) > LiveMax - LiveBytes)
<1> DEFINE n == graph[i]
           x == ValueOf(l)
           y == ValueOf(r)
           w == Worked(i, l, r)
<1>1. n.kind \in OperationKinds /\ Built(n) /\ n.joined \in BOOLEAN
  BY NodeFields
<1>2. x \in Operand /\ y \in Operand /\ x.num \in Int /\ y.num \in Int
  <2>1. x \in Operand /\ y \in Operand
    BY ValueOfType DEF Ready
  <2> HIDE DEF x, y
  <2> QED
    BY <2>1 DEF Operand
<1>3. Joined(l, r) = Text(x) \o Text(y)
  BY DEF Joined
<1>4. Joined(l, r) \in Buffer
  <2>1. Text(x) \in Buffer /\ Text(y) \in Buffer
    BY <1>2, TextType
  <2> HIDE DEF x, y
  <2> QED
    BY <1>3, <2>1, ConcatProperties DEF Buffer
<1>5. /\ Refuses("TYPE") \in Result /\ Refuses("TYPE").value.kind = "INTEGER"
      /\ Refuses("LAYOUT_STRING") \in Result /\ Refuses("LAYOUT_STRING").value.kind = "INTEGER"
      /\ Refuses("STRING_LIMIT").value.kind = "INTEGER"
  BY Outcomes DEF Diagnostics
<1> HIDE DEF n, x, y, w
<1>6. CASE n.kind \in ExtentKinds
  <2>1. w = ExtentOperation(n.kind, n.right, n.extra, x, y)
    BY <1>6 DEF w, Worked, n, x, y
  <2>2. w \in Result /\ w.value.kind # "STRING"
    BY <1>2, <1>6, <2>1, ExtentOperationType
  <2> QED
    BY <1>4, <2>2 DEF w
<1>7. CASE n.kind \notin ExtentKinds /\ "EXTENT" \in {l.kind, r.kind}
  <2>1. w = Refuses("TYPE")
    BY <1>7 DEF w, Worked, n
  <2> QED
    BY <1>4, <1>5, <2>1 DEF w
<1>8. n.kind \notin ExtentKinds => n.kind \in {"BINARY", "SPAN", "UNARY"} /\ n.op \in Operators
  BY <1>1 DEF OperationKinds, Built
<1>9. CASE n.kind \notin ExtentKinds /\ "EXTENT" \notin {l.kind, r.kind} /\ ~Stringy(l, r)
  <2>1. w = IntegerOperation(n.op, x.num, y.num)
    BY <1>9 DEF w, Worked, n, x, y
  <2>2. w \in Result /\ w.value.kind = "INTEGER"
    BY <1>2, <1>8, <1>9, <2>1, IntegerOperationType
  <2> QED
    BY <1>4, <2>2 DEF w
<1>10. CASE n.kind \notin ExtentKinds /\ "EXTENT" \notin {l.kind, r.kind} /\ Stringy(l, r)
  <2>1. CASE n.kind = "UNARY"
    <3>1. w = Refuses("TYPE")
      BY <1>10, <2>1 DEF w, Worked, n
    <3> QED
      BY <1>4, <1>5, <3>1 DEF w
  <2>2. CASE n.kind # "UNARY" /\ "LAYOUT" \in l.flags \cup r.flags
    <3>1. w = Refuses("LAYOUT_STRING")
      BY <1>10, <2>2 DEF w, Worked, n
    <3> QED
      BY <1>4, <1>5, <3>1 DEF w
  <2>3. CASE n.kind # "UNARY" /\ "LAYOUT" \notin l.flags \cup r.flags /\ n.joined
    <3>1. w = Gives(StringValue(strings[n.extra]))
      BY <1>10, <2>3 DEF w, Worked, n
    <3>2. n.kind = "BINARY" /\ n.op = "ADD"
      BY <1>1, <2>3 DEF Built
    <3>3. strings[n.extra] \in Buffer
      BY <2>3 DEF StringInv, Owners, n
    <3>4. w \in Result /\ w.error = "NONE"
      BY <3>1, <3>3, Outcomes
    <3> QED
      BY <1>4, <1>10, <2>3, <3>2, <3>4 DEF w, n
  <2>4. CASE n.kind # "UNARY" /\ "LAYOUT" \notin l.flags \cup r.flags /\ ~n.joined
    <3> DEFINE room == LiveMax - LiveBytes
    <3>1. w = StringOperation(n.op, x, y, room)
      BY <1>10, <2>4 DEF w, Worked, n, x, y
    <3> HIDE DEF room
    <3>2. n.op \in Operators
      BY <1>8, <1>10
    <3>3. w \in Result /\ (n.op # "ADD" => w.value.kind = "INTEGER")
      BY <1>2, <3>1, <3>2, StringOperationType
    <3>4. CASE w.value.kind = "STRING"
      <4>1. n.op = "ADD"
        BY <3>3, <3>4
      <4>2. n.kind = "BINARY"
        BY <1>1, <1>8, <1>10, <2>4, <4>1 DEF Built
      <4>3. w = IF Len(Joined(l, r)) > StringMax \/ Len(Joined(l, r)) > room
                THEN Refuses("STRING_LIMIT") ELSE Gives(StringValue(Joined(l, r)))
        BY <1>2, <1>3, <3>1, <3>2, <4>1, StringOperationType
      <4>4. ~(Len(Joined(l, r)) > StringMax) /\ ~(Len(Joined(l, r)) > room)
        BY <1>5, <3>4, <4>3
      <4>5. w.error = "NONE"
        BY <1>4, <4>3, <4>4, Outcomes
      <4> QED
        BY <1>4, <1>10, <2>4, <3>3, <4>1, <4>2, <4>4, <4>5 DEF w, n, room
    <3> QED
      BY <1>4, <3>3, <3>4 DEF w
  <2> QED
    BY <2>1, <2>2, <2>3, <2>4
<1> QED
  BY <1>6, <1>7, <1>9, <1>10

\* A string that an operation gives: the buffer of its node, or the next one.
StringResult(i, l, r, num) ==
    /\ graph[i].kind = "BINARY" /\ graph[i].op = "ADD" /\ l.flags \cup r.flags = {}
    /\ graph[i].joined => num = graph[i].extra /\ num \in 1..Len(strings)
    /\ ~graph[i].joined => /\ num = Len(strings) + 1
                           /\ Joined(l, r) \in Buffer /\ ~(Len(Joined(l, r)) > LiveMax - LiveBytes)

\* operation() is its working part, wrapped into a result.
LEMMA ComputedWorked ==
    ASSUME NEW i, NEW l, NEW r
    PROVE  Computed(i, l, r) =
             IF Worked(i, l, r).error # "NONE" THEN Invalid(Worked(i, l, r).error, i)
             ELSE IF Worked(i, l, r).value.kind = "STRING"
             THEN Known("STRING", IF graph[i].joined THEN graph[i].extra ELSE Len(strings) + 1)
             ELSE Known(Worked(i, l, r).value.kind, Worked(i, l, r).value.num)
BY DEF Computed, Worked

\* A computed string has the buffer of its node, or the next one.
LEMMA ComputedType ==
    ASSUME GraphInv, StringInv, NEW i \in Nodes, graph[i].kind \in OperationKinds,
           NEW l, NEW r, Ready(l, r)
    PROVE  LET v == Computed(i, l, r)
           IN  /\ v \in ValueType /\ v.flags = {} /\ (v.state # "KNOWN" => v.num = 0)
               /\ v.state # "DEFERRED"
               /\ v.state = "KNOWN" /\ v.kind = "STRING" => StringResult(i, l, r, v.num)
<1> DEFINE v == Computed(i, l, r)
           w == Worked(i, l, r)
           slot == IF graph[i].joined THEN graph[i].extra ELSE Len(strings) + 1
<1>1. /\ w \in Result /\ Joined(l, r) \in Buffer
      /\ w.value.kind = "STRING" =>
            /\ w.error = "NONE" /\ graph[i].kind = "BINARY" /\ graph[i].op = "ADD"
            /\ "LAYOUT" \notin l.flags \cup r.flags
            /\ ~graph[i].joined => ~(Len(Joined(l, r)) > LiveMax - LiveBytes)
  BY WorkedType
<1>2. w.error \in Diagnostics /\ w.value.kind \in {"INTEGER", "EXTENT", "STRING"} /\ w.value.num \in Int
  BY <1>1 DEF Result, Operand
<1>3. i \in Int /\ slot \in Int /\ graph[i].joined \in BOOLEAN
      /\ (graph[i].joined => slot \in 1..Len(strings))
  <2>1. i \in Int /\ graph[i].extra \in Int /\ graph[i].joined \in BOOLEAN
    BY NodeFields DEF Nodes
  <2>2. Len(strings) \in Nat
    BY DEF StringInv
  <2>3. graph[i].joined => graph[i].extra \in 1..Len(strings)
    BY DEF StringInv, Owners
  <2> QED
    BY <2>1, <2>2, <2>3
<1>4. v = IF w.error # "NONE" THEN Invalid(w.error, i)
          ELSE IF w.value.kind = "STRING" THEN Known("STRING", slot)
          ELSE Known(w.value.kind, w.value.num)
  BY ComputedWorked DEF v, w, slot
<1>5. l.flags \cup r.flags \subseteq {"LAYOUT"}
  BY DEF Ready, IsValue, ValueType
<1> SUFFICES /\ v \in ValueType /\ v.flags = {} /\ (v.state # "KNOWN" => v.num = 0)
             /\ v.state # "DEFERRED"
             /\ v.state = "KNOWN" /\ v.kind = "STRING" => StringResult(i, l, r, v.num)
  BY DEF v
<1> HIDE DEF v, w, slot
<1>6. CASE w.error # "NONE"
  <2>1. v = Invalid(w.error, i)
    BY <1>4, <1>6
  <2> QED
    BY <1>2, <1>3, <2>1, PlainValues, InvalidFields
<1>7. CASE w.error = "NONE" /\ w.value.kind = "STRING"
  <2>1. v = Known("STRING", slot)
    BY <1>4, <1>7
  <2>2. v \in ValueType /\ v.flags = {} /\ v.state = "KNOWN" /\ v.num = slot
    BY <1>3, <2>1, PlainValues, KnownFields
  <2>3. l.flags \cup r.flags = {}
    BY <1>1, <1>5, <1>7
  <2>4. StringResult(i, l, r, slot)
    BY <1>1, <1>3, <1>7, <2>3 DEF StringResult, slot
  <2> QED
    BY <2>2, <2>4
<1>8. CASE w.error = "NONE" /\ w.value.kind # "STRING"
  <2>1. v = Known(w.value.kind, w.value.num)
    BY <1>4, <1>8
  <2> QED
    BY <1>2, <1>8, <2>1, PlainValues, KnownFields
<1> QED
  BY <1>6, <1>7, <1>8

\* A result carries the flags of the operands it was made from, and a cycle below
\* is a cycle above.
LEMMA OperationType ==
    ASSUME GraphInv, StringInv, NEW i \in Nodes, graph[i].kind \in OperationKinds,
           NEW l, NEW r, IsValue(l), IsValue(r), l.state # "INVALID"
    PROVE  LET v == Operation(i, l, r)
           IN  /\ v \in ValueType /\ (v.state # "KNOWN" => v.num = 0)
               /\ v.state = "KNOWN" => Ready(l, r) /\ "BINDING" \notin v.flags
               /\ v.state = "KNOWN" /\ v.kind = "STRING" => v.flags = {} /\ StringResult(i, l, r, v.num)
               /\ l.flags \subseteq v.flags /\ r.flags \subseteq v.flags
               /\ ~IsCycle(l) /\ (IsCycle(r) => IsCycle(v))
<1> DEFINE v == Operation(i, l, r)
<1>1. l \in ValueType /\ r \in ValueType /\ l.state \in States /\ r.state \in States
      /\ l.flags \in SUBSET {"BINDING", "LAYOUT"} /\ r.flags \in SUBSET {"BINDING", "LAYOUT"}
      /\ l.flags \cup r.flags \in SUBSET {"BINDING", "LAYOUT"}
      /\ (r.state # "KNOWN" => r.num = 0)
  BY DEF IsValue, ValueType
<1>2. ~IsCycle(l)
  BY DEF IsCycle
<1>3. CASE r.state = "INVALID"
  <2>1. v = WithFlags(r, l.flags)
    BY <1>3 DEF Operation
  <2> HIDE DEF v
  <2>2. /\ v \in ValueType /\ v.state = "INVALID" /\ v.num = 0
        /\ v.flags = r.flags \cup l.flags /\ (IsCycle(v) <=> IsCycle(r))
    BY <1>1, <1>3, <2>1, WithFlagsFields
  <2> QED
    BY <1>2, <2>2 DEF v
<1>4. CASE r.state # "INVALID" /\ "DEFERRED" \in {l.state, r.state}
  <2>1. v = Deferred(l.flags \cup r.flags)
    BY <1>4 DEF Operation
  <2> HIDE DEF v
  <2>2. v \in ValueType /\ v.state = "DEFERRED" /\ v.num = 0 /\ v.flags = l.flags \cup r.flags
    BY <1>1, <2>1, PlainValues, DeferredFields
  <2>3. ~IsCycle(r)
    BY <1>4 DEF IsCycle
  <2> QED
    BY <1>2, <2>2, <2>3 DEF v
<1>5. CASE r.state # "INVALID" /\ "DEFERRED" \notin {l.state, r.state}
  <2>1. Ready(l, r)
    BY <1>1, <1>5 DEF Ready, States
  <2> DEFINE c == Computed(i, l, r)
             fs == l.flags \cup r.flags
  <2>2. v = WithFlags(c, fs)
    BY <1>5 DEF Operation
  <2>3. /\ c \in ValueType /\ c.flags = {} /\ (c.state # "KNOWN" => c.num = 0)
        /\ c.state = "KNOWN" /\ c.kind = "STRING" => StringResult(i, l, r, c.num)
    BY <2>1, ComputedType
  <2>4. "BINDING" \notin fs
    BY <2>1 DEF Ready, IsValue
  <2>5. ~IsCycle(r)
    BY <1>5 DEF IsCycle
  <2> HIDE DEF v, c
  <2>6. /\ v \in ValueType /\ v.state = c.state /\ v.kind = c.kind /\ v.num = c.num
        /\ v.flags = fs
    BY <1>1, <2>2, <2>3, WithFlagsFields
  <2>7. v.state = "KNOWN" /\ v.kind = "STRING" => fs = {} /\ StringResult(i, l, r, v.num)
    BY <2>3, <2>6 DEF StringResult
  <2> QED
    BY <1>2, <2>1, <2>3, <2>4, <2>5, <2>6, <2>7 DEF v
<1> QED
  BY <1>3, <1>4, <1>5
-----------------------------------------------------------------------------
(* What a node makes of its operands *)

FirstValue(i, m)  == MemoValue(memos[First(graph[i], m)][m])
SecondValue(i, m) ==
    IF graph[i].kind \in PairKinds THEN MemoValue(memos[graph[i].right][m]) ELSE Known("INTEGER", 0)

Passes(i, m) == PassesOn(graph[i], FirstValue(i, m), m)

\* The operands that are looked at.
Used(i, m) ==
    IF IsLeaf(graph[i], m) THEN {}
    ELSE {First(graph[i], m)}
         \cup (IF ~Passes(i, m) /\ graph[i].kind \in PairKinds THEN {graph[i].right} ELSE {})

Made(i, m) ==
    IF IsLeaf(graph[i], m) THEN LeafValue(graph[i])
    ELSE IF Passes(i, m) THEN PassedOn(i, FirstValue(i, m), m)
    ELSE Operation(i, FirstValue(i, m), SecondValue(i, m))

\* A result follows the operands exactly if it is what the node makes of them.
LEMMA FollowsMade ==
    ASSUME NEW i, NEW v, NEW m
    PROVE  FollowsOperands(i, v, m) <=> (v = Made(i, m) /\ \A c \in Used(i, m) : Current(c, m))
<1>1. CASE IsLeaf(graph[i], m)
  BY <1>1 DEF FollowsOperands, Made, Used
<1>2. CASE ~IsLeaf(graph[i], m) /\ Passes(i, m)
  BY <1>2 DEF FollowsOperands, Made, Used, Passes, FirstValue
<1>3. CASE ~IsLeaf(graph[i], m) /\ ~Passes(i, m) /\ graph[i].kind \in PairKinds
  BY <1>3 DEF FollowsOperands, Made, Used, Passes, FirstValue, SecondValue
<1>4. CASE ~IsLeaf(graph[i], m) /\ ~Passes(i, m) /\ graph[i].kind \notin PairKinds
  BY <1>4 DEF FollowsOperands, Made, Used, Passes, FirstValue, SecondValue
<1> QED
  BY <1>1, <1>2, <1>3, <1>4

\* What a node looks at is an operand with an edge back to the node.
LEMMA UsedOperands ==
    ASSUME GraphInv, NEW i \in Nodes, NEW m \in Modes, NEW c \in Used(i, m)
    PROVE  /\ c \in Nodes /\ c \in Operands(graph[i], bound, prefix) /\ i \in parents[c]
           /\ c \in NodeRange /\ ~IsLeaf(graph[i], m)
<1>1. ~IsLeaf(graph[i], m)
  BY DEF Used
<1>2. c \in Nodes /\ c \in Operands(graph[i], bound, prefix)
  BY <1>1, FirstOperand DEF Used
<1> QED
  BY <1>1, <1>2, NodeFields DEF GraphInv, EdgesAreComplete

\* A leaf says in its flags what it waits for.
LEMMA LeafType ==
    ASSUME GraphInv, StringInv, NEW i \in Nodes, NEW m \in Modes, IsLeaf(graph[i], m)
    PROVE  /\ IsValue(LeafValue(graph[i]))
           /\ graph[i].kind = "REFERENCE" => "BINDING" \in LeafValue(graph[i]).flags
           /\ graph[i].kind = "ADDRESS" => "LAYOUT" \in LeafValue(graph[i]).flags
<1> DEFINE n == graph[i]
           v == LeafValue(n)
<1>1. /\ n.left \in Int /\ n.extra \in Int
      /\ n.kind = "ADDRESS" => n.left \in Anchors
  BY NodeFields DEF Built
<1>2. n.kind = "STRING" => n.extra \in 1..Len(strings)
  BY DEF StringInv, Owners
<1>3. n.kind = "ADDRESS" /\ placed[n.left] # Unplaced => placed[n.left] \in Int
  BY <1>1, GraphAssumption DEF GraphInv
<1>4. n.kind \in {"INTEGER", "STRING", "EXTENT_LITERAL", "REFERENCE", "ADDRESS"}
  BY DEF IsLeaf, LiteralKinds
<1> HIDE DEF n
<1>5. CASE n.kind = "INTEGER"
  <2>1. v = Known("INTEGER", n.left)
    BY <1>5 DEF LeafValue
  <2> QED
    BY <1>1, <1>5, <2>1, PlainValues, KnownFields DEF IsValue, n
<1>6. CASE n.kind = "EXTENT_LITERAL"
  <2>1. v = Known("EXTENT", n.left)
    BY <1>6 DEF LeafValue
  <2> QED
    BY <1>1, <1>6, <2>1, PlainValues, KnownFields DEF IsValue, n
<1>7. CASE n.kind = "STRING"
  <2>1. v = Known("STRING", n.extra)
    BY <1>7 DEF LeafValue
  <2> QED
    BY <1>1, <1>2, <1>7, <2>1, PlainValues, KnownFields DEF IsValue, n
<1>8. CASE n.kind = "REFERENCE"
  <2>1. v = Deferred({"BINDING"})
    BY <1>8 DEF LeafValue
  <2> QED
    BY <1>8, <2>1, PlainValues, DeferredFields DEF IsValue, n
<1>9. CASE n.kind = "ADDRESS" /\ placed[n.left] = Unplaced
  <2>1. v = Deferred({"LAYOUT"})
    BY <1>9 DEF LeafValue
  <2> QED
    BY <1>9, <2>1, PlainValues, DeferredFields DEF IsValue, n
<1>10. CASE n.kind = "ADDRESS" /\ placed[n.left] # Unplaced
  <2> DEFINE k == Known("INTEGER", placed[n.left])
  <2>1. v = WithFlags(k, {"LAYOUT"})
    BY <1>10 DEF LeafValue
  <2>2. k \in ValueType /\ k.state = "KNOWN" /\ k.kind = "INTEGER" /\ k.flags = {}
    BY <1>3, <1>10, PlainValues, KnownFields
  <2> HIDE DEF k, v
  <2>3. v \in ValueType /\ v.state = "KNOWN" /\ v.kind = "INTEGER" /\ v.flags = {"LAYOUT"}
    BY <2>1, <2>2, WithFlagsFields
  <2> QED
    BY <1>10, <2>3 DEF IsValue, n, v
<1> QED
  BY <1>4, <1>5, <1>6, <1>7, <1>8, <1>9, <1>10

\* What is passed on says no less than the operand.
LEMMA PassedOnType ==
    ASSUME GraphInv, StringInv, NEW i \in Nodes, NEW m \in Modes, NEW l, IsValue(l)
    PROVE  /\ IsValue(PassedOn(i, l, m))
           /\ l.flags \subseteq PassedOn(i, l, m).flags
           /\ IsCycle(l) => IsCycle(PassedOn(i, l, m))
           /\ graph[i].kind = "ADDRESS" \/ Redirected(graph[i], m)
                 => "LAYOUT" \in PassedOn(i, l, m).flags
<1> DEFINE v == PassedOn(i, l, m)
           base == IF l.state = "KNOWN" /\ l.kind # "INTEGER" THEN Invalid("TYPE", i) ELSE l
<1>1. l \in ValueType /\ l.flags \in SUBSET {"BINDING", "LAYOUT"} /\ i \in Int
  BY DEF IsValue, ValueType, Nodes
<1>2. CASE ~(graph[i].kind = "ADDRESS" \/ Redirected(graph[i], m))
  <2>1. v = l
    BY <1>2 DEF PassedOn
  <2> QED
    BY <1>2, <2>1
<1>3. CASE graph[i].kind = "ADDRESS" \/ Redirected(graph[i], m)
  <2>1. v = WithFlags(base, {"LAYOUT"})
    BY <1>3 DEF PassedOn
  <2>2. /\ base \in ValueType /\ (base.state # "KNOWN" => base.num = 0)
        /\ base.state = "KNOWN" => base.kind = "INTEGER" /\ "BINDING" \notin base.flags
        /\ l.flags \subseteq base.flags \cup {"LAYOUT"}
        /\ IsCycle(l) => IsCycle(base)
    <3>1. CASE l.state = "KNOWN" /\ l.kind # "INTEGER"
      <4>1. base = Invalid("TYPE", i)
        BY <3>1
      <4>2. base \in ValueType /\ base.state = "INVALID" /\ base.num = 0
        BY <1>1, <4>1, PlainValues, InvalidFields DEF Diagnostics
      <4>3. l.flags \subseteq {"LAYOUT"} /\ ~IsCycle(l)
        BY <1>1, <3>1 DEF IsValue, IsCycle
      <4> QED
        BY <4>2, <4>3
    <3>2. CASE ~(l.state = "KNOWN" /\ l.kind # "INTEGER")
      <4>1. base = l
        BY <3>2
      <4> QED
        BY <1>1, <3>2, <4>1 DEF IsValue
    <3> QED
      BY <3>1, <3>2
  <2> HIDE DEF v, base
  <2>3. /\ v \in ValueType /\ v.state = base.state /\ v.kind = base.kind /\ v.num = base.num
        /\ v.flags = base.flags \cup {"LAYOUT"} /\ (IsCycle(v) <=> IsCycle(base))
    BY <2>1, <2>2, WithFlagsFields
  <2>4. IsValue(v)
    BY <2>2, <2>3 DEF IsValue
  <2> QED
    BY <2>2, <2>3, <2>4 DEF v
<1> QED
  BY <1>2, <1>3

\* A result knows whose buffer a string is in, carries the flags of what was looked
\* at, and says that it depends on an anchor or lacks a definition.
LEMMA MadeType ==
    ASSUME GraphInv, StringInv, MemoInv, NEW i \in Nodes, NEW m \in Modes
    PROVE  LET v == Made(i, m)
           IN  /\ v \in ValueType /\ (v.state # "KNOWN" => v.num = 0)
               /\ v.state = "KNOWN" => "BINDING" \notin v.flags
               /\ IsLeaf(graph[i], m) \/ Passes(i, m) => IsValue(v)
               /\ ~IsLeaf(graph[i], m) /\ ~Passes(i, m) =>
                     /\ graph[i].kind \in OperationKinds
                     /\ IsValue(FirstValue(i, m)) /\ IsValue(SecondValue(i, m))
                     /\ FirstValue(i, m).state # "INVALID"
                     /\ v.state = "KNOWN" /\ v.kind = "STRING" =>
                           v.flags = {} /\ StringResult(i, FirstValue(i, m), SecondValue(i, m), v.num)
               /\ \A c \in Used(i, m) :
                     /\ MemoValue(memos[c][m]).flags \subseteq v.flags
                     /\ IsCycle(memos[c][m]) => IsCycle(v)
               /\ graph[i].kind = "ADDRESS" \/ Redirected(graph[i], m) => "LAYOUT" \in v.flags
               /\ graph[i].kind = "REFERENCE" /\ IsLeaf(graph[i], m) => "BINDING" \in v.flags
<1> DEFINE n == graph[i]
           l == FirstValue(i, m)
           r == SecondValue(i, m)
           v == Made(i, m)
<1>1. ASSUME NEW c \in Used(i, m)
      PROVE  IsValue(MemoValue(memos[c][m])) /\ (IsCycle(memos[c][m]) <=> IsCycle(MemoValue(memos[c][m])))
  <2>1. c \in NodeRange
    BY UsedOperands
  <2> QED
    BY <2>1, MemosHoldValues, MemoFields
<1>2. CASE IsLeaf(n, m)
  <2>1. v = LeafValue(n) /\ Used(i, m) = {}
    BY <1>2 DEF Made, Used
  <2>2. ~Redirected(n, m)
    BY <1>2 DEF IsLeaf, Redirected, LiteralKinds
  <2>3. IsValue(v) /\ (n.kind = "ADDRESS" => "LAYOUT" \in v.flags)
        /\ (n.kind = "REFERENCE" => "BINDING" \in v.flags)
    BY <1>2, <2>1, LeafType
  <2> HIDE DEF n, v
  <2>4. v \in ValueType /\ (v.state # "KNOWN" => v.num = 0) /\ (v.state = "KNOWN" => "BINDING" \notin v.flags)
    BY <2>3 DEF IsValue
  <2> QED
    BY <1>2, <2>1, <2>2, <2>3, <2>4 DEF n, v
<1>3. ASSUME ~IsLeaf(n, m)
      PROVE  IsValue(l) /\ First(n, m) \in Used(i, m)
  <2>1. First(n, m) \in Used(i, m)
    BY <1>3 DEF Used
  <2> QED
    BY <1>1, <2>1 DEF FirstValue
<1>4. CASE ~IsLeaf(n, m) /\ Passes(i, m)
  <2>1. v = PassedOn(i, l, m) /\ Used(i, m) = {First(n, m)}
    BY <1>4 DEF Made, Used
  <2>2. /\ IsValue(v) /\ l.flags \subseteq v.flags /\ (IsCycle(l) => IsCycle(v))
        /\ n.kind = "ADDRESS" \/ Redirected(n, m) => "LAYOUT" \in v.flags
    BY <1>3, <1>4, <2>1, PassedOnType
  <2>3. ASSUME NEW c \in Used(i, m)
        PROVE  MemoValue(memos[c][m]).flags \subseteq v.flags /\ (IsCycle(memos[c][m]) => IsCycle(v))
    <3>1. MemoValue(memos[c][m]) = l
      BY <2>1 DEF FirstValue
    <3> QED
      BY <1>1, <2>2, <3>1
  <2> HIDE DEF n, v, l
  <2>4. v \in ValueType /\ (v.state # "KNOWN" => v.num = 0) /\ (v.state = "KNOWN" => "BINDING" \notin v.flags)
    BY <2>2 DEF IsValue
  <2> QED
    BY <1>4, <2>2, <2>3, <2>4 DEF n, v
<1>5. CASE ~IsLeaf(n, m) /\ ~Passes(i, m)
  <2>1. v = Operation(i, l, r)
    BY <1>5 DEF Made
  <2>2. n.kind \in OperationKinds /\ l.state # "INVALID" /\ n.kind # "ADDRESS" /\ n.kind # "REFERENCE"
        /\ ~Redirected(n, m)
    <3>1. n.kind \in NodeKinds
      BY NodeFields
    <3> HIDE DEF n
    <3>2. n.kind \notin {"REFERENCE", "ADDRESS"} /\ ~Redirected(n, m) /\ l.state # "INVALID"
      BY <1>5 DEF Passes, PassesOn, n
    <3>3. n.kind \notin LiteralKinds
      BY <1>5 DEF IsLeaf
    <3> QED
      BY <3>1, <3>2, <3>3 DEF NodeKinds, OperationKinds, PairKinds, ExtentKinds
  <2>3. IsValue(r) /\ (n.kind \in PairKinds => n.right \in Used(i, m) /\ r = MemoValue(memos[n.right][m]))
    <3>1. CASE n.kind \in PairKinds
      <4>1. n.right \in Used(i, m)
        BY <1>5, <3>1 DEF Used
      <4> QED
        BY <1>1, <3>1, <4>1 DEF SecondValue
    <3>2. CASE n.kind \notin PairKinds
      <4>1. r = Known("INTEGER", 0)
        BY <3>2 DEF SecondValue
      <4> QED
        BY <3>2, <4>1, PlainValues, KnownFields DEF IsValue
    <3> QED
      BY <3>1, <3>2
  <2>4. /\ v \in ValueType /\ (v.state # "KNOWN" => v.num = 0)
        /\ v.state = "KNOWN" => "BINDING" \notin v.flags
        /\ v.state = "KNOWN" /\ v.kind = "STRING" => v.flags = {} /\ StringResult(i, l, r, v.num)
        /\ l.flags \subseteq v.flags /\ r.flags \subseteq v.flags
        /\ ~IsCycle(l) /\ (IsCycle(r) => IsCycle(v))
    BY <1>3, <1>5, <2>1, <2>2, <2>3, OperationType
  <2>5. ASSUME NEW c \in Used(i, m)
        PROVE  MemoValue(memos[c][m]).flags \subseteq v.flags /\ (IsCycle(memos[c][m]) => IsCycle(v))
    <3>1. CASE c = First(n, m)
      <4>1. MemoValue(memos[c][m]) = l
        BY <3>1 DEF FirstValue
      <4> QED
        BY <1>1, <2>4, <4>1
    <3>2. CASE n.kind \in PairKinds /\ c = n.right
      <4>1. MemoValue(memos[c][m]) = r
        BY <2>3, <3>2
      <4> QED
        BY <1>1, <2>4, <4>1
    <3> QED
      BY <1>5, <3>1, <3>2 DEF Used
  <2> HIDE DEF n, v, l, r
  <2> QED
    BY <1>3, <1>5, <2>2, <2>3, <2>4, <2>5 DEF n, v, l, r
<1> QED
  BY <1>2, <1>4, <1>5

-----------------------------------------------------------------------------
(* What a result that would be used rests on *)

\* Whatever was looked at for a result would be used as well, says no more than the
\* result, and is no cycle unless the result is one.
Rests(i, v, m) ==
    /\ v = Made(i, m)
    /\ \A c \in Used(i, m) :
          /\ Current(c, m) /\ c \in Nodes /\ i \in parents[c]
          /\ MemoValue(memos[c][m]).flags \subseteq v.flags
          /\ ~IsCycle(memos[c][m])

\* What follows from the operands rests on them, unless it is a cycle.
LEMMA FollowsRests ==
    ASSUME CoreInv, NEW i \in Nodes, NEW m \in Modes, NEW v, ~IsCycle(v)
    PROVE  FollowsOperands(i, v, m) <=> Rests(i, v, m)
<1>1. GraphInv /\ StringInv /\ MemoInv
  BY DEF CoreInv
<1>2. FollowsOperands(i, v, m) <=> (v = Made(i, m) /\ \A c \in Used(i, m) : Current(c, m))
  BY FollowsMade
<1>3. ASSUME v = Made(i, m), NEW c \in Used(i, m)
      PROVE  /\ c \in Nodes /\ i \in parents[c]
             /\ MemoValue(memos[c][m]).flags \subseteq v.flags /\ ~IsCycle(memos[c][m])
  <2>1. c \in Nodes /\ i \in parents[c]
    BY <1>1, UsedOperands
  <2>2. /\ MemoValue(memos[c][m]).flags \subseteq Made(i, m).flags
        /\ IsCycle(memos[c][m]) => IsCycle(Made(i, m))
    BY <1>1, <1>3, MadeType
  <2> QED
    BY <1>3, <2>1, <2>2
<1> QED
  BY <1>2, <1>3 DEF Rests

\* The current results that are no cycles.
Usable(i, m) == Current(i, m) /\ ~IsCycle(memos[i][m])

\* A memo that would be used rests on operands, in its mode or the other.
LEMMA UsableRests ==
    ASSUME CoreInv, FollowInv, NEW i \in Nodes, NEW m \in Modes, Usable(i, m)
    PROVE  \E o \in Modes :
              /\ o = m \/ Shared(MemoValue(memos[i][m]))
              /\ Rests(i, MemoValue(memos[i][m]), o)
<1> DEFINE v == MemoValue(memos[i][m])
<1>1. ~IsCycle(v)
  <2>1. memos[i][m] \in MemoType
    BY NodeFields, MemosHoldValues DEF CoreInv
  <2> QED
    BY <2>1, MemoFields DEF Usable
<1>2. FollowsOperands(i, v, m) \/ (Shared(v) /\ FollowsOperands(i, v, Other(m)))
  BY DEF FollowInv, Usable, Justified
<1>3. Other(m) \in Modes
  BY DEF Other, Modes
<1> HIDE DEF v
<1>4. \A o \in Modes : FollowsOperands(i, v, o) => Rests(i, v, o)
  BY <1>1, FollowsRests
<1> QED
  BY <1>2, <1>3, <1>4 DEF v

\* Whatever rests on operands is justified.
LEMMA RestsJustifies ==
    ASSUME CoreInv, NEW i \in Nodes, NEW m \in Modes, NEW o \in Modes, Usable(i, m),
           o = m \/ Shared(MemoValue(memos[i][m])), Rests(i, MemoValue(memos[i][m]), o)
    PROVE  Justified(i, m)
<1> DEFINE v == MemoValue(memos[i][m])
<1>1. ~IsCycle(v)
  <2>1. memos[i][m] \in MemoType
    BY NodeFields, MemosHoldValues DEF CoreInv
  <2> QED
    BY <2>1, MemoFields DEF Usable
<1>2. o = m \/ o = Other(m)
  BY DEF Other, Modes
<1> HIDE DEF v
<1>3. FollowsOperands(i, v, o)
  BY <1>1, FollowsRests DEF v
<1> QED
  BY <1>2, <1>3 DEF Justified, v

\* What leads to an address depends on placement.
LEMMA LeafLayout ==
    ASSUME CoreInv, FollowInv, NEW i \in Nodes, AddressLeaf(i), NEW m \in Modes, Usable(i, m)
    PROVE  "LAYOUT" \in MemoValue(memos[i][m]).flags
<1> DEFINE Leads(j, s) == \/ graph[j].kind = "ADDRESS"
                          \/ graph[j].kind = "REFERENCE" /\ bound[graph[j].left] \in s
           S == {j \in Nodes : \A o \in Modes : Usable(j, o) => "LAYOUT" \in MemoValue(memos[j][o]).flags}
<1>1. ASSUME NEW j \in Nodes, Leads(j, S), NEW o \in Modes, Usable(j, o)
      PROVE  "LAYOUT" \in MemoValue(memos[j][o]).flags
  <2> DEFINE v == MemoValue(memos[j][o])
  <2>1. PICK p \in Modes : (p = o \/ Shared(v)) /\ Rests(j, v, p)
    BY <1>1, UsableRests
  <2>2. /\ graph[j].kind = "ADDRESS" => "LAYOUT" \in v.flags
        /\ graph[j].kind = "REFERENCE" /\ ~IsLeaf(graph[j], p) => First(graph[j], p) \in Used(j, p)
    BY <2>1, MadeType DEF CoreInv, Rests, Used
  <2>3. CASE graph[j].kind = "REFERENCE" /\ bound[graph[j].left] \in S
    <3> DEFINE c == bound[graph[j].left]
    <3>1. c \in Nodes /\ c # 0
      BY <2>3 DEF Nodes
    <3>2. ~IsLeaf(graph[j], p)
      BY <2>3, <3>1 DEF IsLeaf, LiteralKinds
    <3>3. First(graph[j], p) = c
      BY <2>3 DEF First, Redirected
    <3>4. Usable(c, p) /\ MemoValue(memos[c][p]).flags \subseteq v.flags
      BY <2>1, <2>2, <2>3, <3>2, <3>3 DEF Rests, Usable
    <3>5. "LAYOUT" \in MemoValue(memos[c][p]).flags
      BY <2>3, <3>4
    <3> QED
      BY <3>4, <3>5
  <2> QED
    BY <1>1, <2>2, <2>3
<1>2. S \in SUBSET Nodes /\ \A j \in Nodes : Leads(j, S) => j \in S
  BY <1>1
<1> HIDE DEF S
<1>3. i \in S
  BY <1>2 DEF AddressLeaf
<1> QED
  BY <1>3 DEF S

\* Two modes give the same value when one of them neither depends on placement nor
\* lacks a definition.
LEMMA SameAnswer ==
    ASSUME CoreInv, FollowInv, TwinInv, NEW i \in Nodes, NEW m \in Modes, NEW o \in Modes,
           NEW v, NEW w, Rests(i, v, m), Rests(i, w, o), ~IsCycle(v), Shared(w)
    PROVE  v = w
<1> DEFINE n == graph[i]
<1>1. GraphInv /\ StringInv /\ MemoInv /\ SpanInv
  BY DEF CoreInv
<1>2. v = Made(i, m) /\ w = Made(i, o) /\ w.flags = {}
  BY DEF Rests, Shared
<1>3. n.kind # "ADDRESS" /\ ~Redirected(n, o)
  BY <1>1, <1>2, MadeType
<1>4. n.kind # "SPAN"
  <2> SUFFICES ASSUME n.kind = "SPAN" PROVE FALSE
    OBVIOUS
  <2>1. ~IsLeaf(n, o) /\ n.kind \in PairKinds
    BY DEF IsLeaf, LiteralKinds, PairKinds
  <2>2. First(n, o) = n.left /\ n.left \in Nodes /\ n.left \in Used(i, o)
    BY <1>1, <1>3, <2>1, FirstOperand DEF Used
  <2>3. Usable(n.left, o) /\ MemoValue(memos[n.left][o]).flags \subseteq {}
    BY <1>2, <2>2 DEF Rests, Usable
  <2>4. AddressLeaf(n.left)
    BY <1>1 DEF SpanInv
  <2> QED
    BY <2>2, <2>3, <2>4, LeafLayout
<1>5. ~Redirected(n, m)
  BY <1>4 DEF Redirected
<1>6. /\ IsLeaf(n, m) <=> IsLeaf(n, o)
      /\ First(n, m) = First(n, o)
  BY <1>3, <1>5 DEF IsLeaf, First
<1>7. CASE IsLeaf(n, o)
  BY <1>2, <1>6, <1>7 DEF Made
<1>8. CASE ~IsLeaf(n, o)
  <2>1. ASSUME NEW c \in Used(i, o), c \in Used(i, m)
        PROVE  MemoValue(memos[c][m]) = MemoValue(memos[c][o])
    <3>1. Current(c, o) /\ Current(c, m) /\ c \in Nodes /\ ~IsCycle(memos[c][o]) /\ ~IsCycle(memos[c][m])
          /\ MemoValue(memos[c][o]).flags = {}
      BY <1>2, <2>1 DEF Rests
    <3>2. memos[c][o] \in MemoType
      BY <1>1, <3>1, NodeFields, MemosHoldValues
    <3>3. Shared(MemoValue(memos[c][o]))
      BY <3>1, <3>2, MemoFields DEF Shared, IsCycle
    <3> QED
      BY <3>1, <3>3 DEF TwinInv
  <2>2. First(n, o) \in Used(i, o) /\ First(n, o) \in Used(i, m)
    BY <1>6, <1>8 DEF Used
  <2>3. FirstValue(i, m) = FirstValue(i, o)
    BY <1>6, <2>1, <2>2 DEF FirstValue
  <2>4. Passes(i, m) <=> Passes(i, o)
    BY <1>3, <1>5, <2>3 DEF Passes, PassesOn
  <2>5. CASE Passes(i, o)
    <3>1. PassedOn(i, FirstValue(i, o), m) = PassedOn(i, FirstValue(i, o), o)
      BY <1>3, <1>5 DEF PassedOn
    <3> QED
      BY <1>2, <1>6, <1>8, <2>3, <2>4, <2>5, <3>1 DEF Made
  <2>6. CASE ~Passes(i, o)
    <3>1. SecondValue(i, m) = SecondValue(i, o)
      <4>1. CASE n.kind \in PairKinds
        <5>1. n.right \in Used(i, o) /\ n.right \in Used(i, m)
          BY <1>6, <1>8, <2>4, <2>6, <4>1 DEF Used
        <5> QED
          BY <2>1, <4>1, <5>1 DEF SecondValue
      <4>2. CASE n.kind \notin PairKinds
        BY <4>2 DEF SecondValue
      <4> QED
        BY <4>1, <4>2
    <3> QED
      BY <1>2, <1>6, <1>8, <2>3, <2>4, <2>6, <3>1 DEF Made
  <2> QED
    BY <2>5, <2>6
<1> QED
  BY <1>7, <1>8
-----------------------------------------------------------------------------
(* Memos that are dropped, and counters that advance *)

MemoTable == [NodeRange -> [Modes -> MemoType]]

\* Dropping a memo clears one flag.
LEMMA UncachedFields ==
    ASSUME NEW memo \in MemoType
    PROVE  /\ Uncached(memo) \in MemoType /\ "CACHED" \notin Uncached(memo).flags
           /\ Uncached(memo).state = memo.state /\ Uncached(memo).kind = memo.kind
           /\ Uncached(memo).payload = memo.payload /\ Uncached(memo).error = memo.error
           /\ Uncached(memo).flags = memo.flags \ {"CACHED"}
<1>1. Uncached(memo) = [state |-> memo.state, kind |-> memo.kind, payload |-> memo.payload,
                        error |-> memo.error, at |-> memo.at, flags |-> memo.flags \ {"CACHED"}]
  BY DEF Uncached, MemoType
<1>2. memo.flags \ {"CACHED"} \in SUBSET {"CACHED", "BINDING", "LAYOUT"}
  BY DEF MemoType
<1>3. Uncached(memo) \in MemoType
  BY <1>1, <1>2 DEF MemoType
<1> QED
  BY <1>1, <1>3

\* A table of memos of which some are dropped.
Weaker(new, old) ==
    /\ new \in MemoTable
    /\ \A i \in NodeRange, m \in Modes : new[i][m] = old[i][m] \/ new[i][m] = Uncached(old[i][m])

\* A counter goes up by one, or starts over at one.
LEMMA VersionType ==
    \A v \in 1..Epochs - 1 :
        /\ NextVersion(v) \in 1..Epochs - 1
        /\ (v + 1) % Epochs = 0 \/ NextVersion(v) = v + 1
        /\ (v + 1) % Epochs # 0 => NextVersion(v) = v + 1
<1> SUFFICES ASSUME NEW v \in 1..Epochs - 1
             PROVE  /\ NextVersion(v) \in 1..Epochs - 1
                    /\ (v + 1) % Epochs # 0 => NextVersion(v) = v + 1
  OBVIOUS
<1>1. Epochs \in Nat /\ Epochs > 2
  BY GraphAssumption
<1>2. CASE v + 1 = Epochs
  <2>1. (v + 1) % Epochs = 0
    BY <1>1, <1>2
  <2> QED
    BY <1>1, <2>1 DEF NextVersion
<1>3. CASE v + 1 < Epochs
  <2>1. (v + 1) % Epochs = v + 1
    BY <1>1, <1>3
  <2> QED
    BY <1>1, <1>3, <2>1 DEF NextVersion
<1> QED
  BY <1>1, <1>2, <1>3

Counters == [{"bindings", "layout", "request"} -> 1..Epochs - 1]

\* A memo that is kept was not stamped by a counter that started over, and what it
\* rests on is kept as well.
LEMMA Advancing ==
    ASSUME versions \in Counters, NEW field \in {"bindings", "layout", "request"},
           NEW table \in MemoTable, Advance(field, table)
    PROVE  /\ versions' \in Counters
           /\ \A g \in {"bindings", "layout", "request"} : g # field => versions'[g] = versions[g]
           /\ Weaker(memos', table)
           /\ \A i \in NodeRange, m \in Modes :
                 "CACHED" \in memos'[i][m].flags =>
                     /\ memos'[i][m] = table[i][m]
                     /\ versions'[field] = versions[field] + 1 \/ ~Outdated(table[i][m])
           /\ \A i, c \in NodeRange, m, o \in Modes :
                 /\ "CACHED" \in memos'[i][m].flags /\ ~IsCycle(table[c][o])
                 /\ MemoValue(table[c][o]).flags \subseteq MemoValue(table[i][m]).flags
                 => memos'[c][o] = table[c][o]
<1>1. versions' = [versions EXCEPT ![field] = NextVersion(@)]
  BY DEF Advance
<1>2. versions[field] \in 1..Epochs - 1
  BY DEF Counters
<1>3. NextVersion(versions[field]) \in 1..Epochs - 1
  BY <1>2, VersionType
<1>4. /\ versions' \in Counters /\ versions'[field] = NextVersion(versions[field])
      /\ \A g \in {"bindings", "layout", "request"} : g # field => versions'[g] = versions[g]
  BY <1>1, <1>3 DEF Counters
<1>5. CASE (versions[field] + 1) % Epochs # 0
  <2>1. memos' = table
    BY <1>5 DEF Advance
  <2>2. versions'[field] = versions[field] + 1
    BY <1>2, <1>4, <1>5, VersionType
  <2>3. Weaker(memos', table)
    BY <2>1 DEF Weaker
  <2> QED
    BY <1>4, <2>1, <2>2, <2>3
<1>6. CASE (versions[field] + 1) % Epochs = 0
  <2>1. memos' = WithoutOutdated(table)
    BY <1>6 DEF Advance
  <2>2. ASSUME NEW i \in NodeRange, NEW m \in Modes
        PROVE  /\ table[i][m] \in MemoType
               /\ memos'[i][m] = IF Outdated(table[i][m]) THEN Uncached(table[i][m]) ELSE table[i][m]
               /\ memos'[i][m] \in MemoType
    <3>1. table[i][m] \in MemoType
      BY DEF MemoTable
    <3>2. memos'[i][m] = IF Outdated(table[i][m]) THEN Uncached(table[i][m]) ELSE table[i][m]
      BY <2>1 DEF WithoutOutdated
    <3> QED
      BY <3>1, <3>2, UncachedFields
  <2>3. memos' \in MemoTable
    <3>1. memos' = [i \in NodeRange |-> [m \in Modes |->
                      IF Outdated(table[i][m]) THEN Uncached(table[i][m]) ELSE table[i][m]]]
      BY <2>1 DEF WithoutOutdated
    <3>2. \A i \in NodeRange : \A m \in Modes :
              (IF Outdated(table[i][m]) THEN Uncached(table[i][m]) ELSE table[i][m]) \in MemoType
      BY <2>2
    <3> QED
      BY <3>1, <3>2 DEF MemoTable
  <2>4. Weaker(memos', table)
    BY <2>2, <2>3 DEF Weaker
  <2>5. \A i \in NodeRange, m \in Modes :
            "CACHED" \in memos'[i][m].flags =>
                memos'[i][m] = table[i][m] /\ ~Outdated(table[i][m])
    BY <2>2, UncachedFields
  <2>6. ASSUME NEW i \in NodeRange, NEW c \in NodeRange, NEW m \in Modes, NEW o \in Modes,
               "CACHED" \in memos'[i][m].flags, ~IsCycle(table[c][o]),
               MemoValue(table[c][o]).flags \subseteq MemoValue(table[i][m]).flags
        PROVE  memos'[c][o] = table[c][o]
    <3>1. ~Outdated(table[i][m]) /\ table[i][m] \in MemoType /\ table[c][o] \in MemoType
      BY <2>2, <2>5, <2>6
    <3>2. table[c][o].flags \ {"CACHED"} \subseteq table[i][m].flags \ {"CACHED"}
      BY <2>6, <3>1, MemoFields
    <3>3. ~Outdated(table[c][o])
      BY <2>6, <3>1, <3>2 DEF Outdated
    <3> QED
      BY <2>2, <3>3
  <2> QED
    BY <1>4, <2>4, <2>5, <2>6
<1> QED
  BY <1>5, <1>6

\* What invalidate and lower_spans leave of the memos.
LEMMA InvalidatedTable ==
    ASSUME memos \in MemoTable, NEW heads
    PROVE  /\ Weaker(Invalidated(heads), memos)
           /\ \A i \in NodeRange, m \in Modes :
                 "CACHED" \in Invalidated(heads)[i][m].flags =>
                     /\ Invalidated(heads)[i][m] = memos[i][m]
                     /\ ~(i \in DirtyAbove(heads) /\ "LAYOUT" \in memos[i][m].flags)
           /\ \A i \in NodeRange, m \in Modes :
                 Invalidated(heads)[i][m] = memos[i][m] \/ (i \in DirtyAbove(heads) /\ LayoutCached(memos[i][m]))
<1> DEFINE above == DirtyAbove(heads)
           new   == Invalidated(heads)
           entry(i, m) == IF i \in above /\ LayoutCached(memos[i][m])
                          THEN Uncached(memos[i][m]) ELSE memos[i][m]
<1>1. new = [i \in NodeRange |-> [m \in Modes |-> entry(i, m)]]
  BY DEF Invalidated
<1>2. ASSUME NEW i \in NodeRange, NEW m \in Modes
      PROVE  memos[i][m] \in MemoType /\ entry(i, m) \in MemoType
  <2>1. memos[i][m] \in MemoType
    BY DEF MemoTable
  <2> HIDE DEF above
  <2> QED
    BY <2>1, UncachedFields
<1> HIDE DEF new, above
<1>3. new \in MemoTable
  <2> HIDE DEF entry
  <2> QED
    BY <1>1, <1>2 DEF MemoTable
<1>4. \A i \in NodeRange, m \in Modes : new[i][m] = entry(i, m)
  BY <1>1
<1>5. Weaker(new, memos)
  BY <1>3, <1>4 DEF Weaker
<1>6. ASSUME NEW i \in NodeRange, NEW m \in Modes, "CACHED" \in new[i][m].flags
      PROVE  new[i][m] = memos[i][m] /\ ~(i \in above /\ "LAYOUT" \in memos[i][m].flags)
  <2>1. ~(i \in above /\ LayoutCached(memos[i][m]))
    BY <1>2, <1>4, <1>6, UncachedFields
  <2>2. new[i][m] = memos[i][m]
    BY <1>4, <2>1
  <2> QED
    BY <1>6, <2>1, <2>2 DEF LayoutCached
<1>7. \A i \in NodeRange, m \in Modes :
          new[i][m] = memos[i][m] \/ (i \in above /\ LayoutCached(memos[i][m]))
  BY <1>4
<1> QED
  BY <1>5, <1>6, <1>7 DEF new, above

\* The heads that are dirty are visited, and so are the dirty parents of what is visited.
LEMMA DirtyClosed ==
    ASSUME NEW heads
    PROVE  /\ \A i \in heads : i \in Nodes /\ Dirty(i) => i \in DirtyAbove(heads)
           /\ \A c \in DirtyAbove(heads) : \A i \in parents[c] :
                 i \in Nodes /\ Dirty(i) => i \in DirtyAbove(heads)
BY DEF DirtyAbove

\* What invalidate leaves alone keeps what it rests on.
LEMMA InvalidatedKeeps ==
    ASSUME MemoInv, GraphInv, NEW heads, NEW i \in Nodes, NEW c \in Nodes, NEW m \in Modes, NEW o \in Modes,
           "CACHED" \in Invalidated(heads)[i][m].flags, i \in parents[c],
           MemoValue(memos[c][o]).flags \subseteq MemoValue(memos[i][m]).flags
    PROVE  Invalidated(heads)[c][o] = memos[c][o]
<1>1. i \in NodeRange /\ c \in NodeRange /\ memos \in MemoTable
  BY NodeFields DEF MemoInv, MemoTable
<1>2. memos[i][m] \in MemoType /\ memos[c][o] \in MemoType
  BY <1>1, MemosHoldValues
<1>3. /\ Invalidated(heads)[i][m] = memos[i][m]
      /\ ~(i \in DirtyAbove(heads) /\ "LAYOUT" \in memos[i][m].flags)
  BY <1>1, InvalidatedTable
<1> SUFFICES ASSUME c \in DirtyAbove(heads), LayoutCached(memos[c][o]) PROVE FALSE
  BY <1>1, InvalidatedTable
<1>4. "LAYOUT" \in memos[i][m].flags
  BY <1>2, MemoFields DEF LayoutCached
<1>5. Dirty(i)
  BY <1>3, <1>4 DEF Dirty, LayoutCached
<1> QED
  BY <1>3, <1>4, <1>5, DirtyClosed
-----------------------------------------------------------------------------
(* Results that are kept *)

\* An operation looks at its node and the buffers only.
LEMMA OperationSame ==
    ASSUME NEW i, NEW l, NEW r, graph'[i] = graph[i], strings' = strings
    PROVE  Operation(i, l, r)' = Operation(i, l, r)
<1>1. ValueOf(l)' = ValueOf(l) /\ ValueOf(r)' = ValueOf(r)
  BY DEF ValueOf
<1>2. LiveBytes' = LiveBytes
  BY DEF LiveBytes
<1>3. Computed(i, l, r)' = Computed(i, l, r)
  BY <1>1, <1>2 DEF Computed
<1> QED
  BY <1>3 DEF Operation

\* Nodes that evaluation cannot tell apart.
Alike(n, o) ==
    /\ n.kind = o.kind /\ n.op = o.op /\ n.left = o.left /\ n.right = o.right
    /\ n.kind # "BINARY" => n.extra = o.extra

\* A node whose operands in a mode hold what they did makes of them what it did, if
\* its operation does.
LEMMA MadeAgain ==
    ASSUME GraphInv, NEW i \in Nodes, NEW m \in Modes, NEW v, Rests(i, v, m), Alike(graph'[i], graph[i]),
           graph[i].kind = "REFERENCE" => bound'[graph[i].left] = bound[graph[i].left],
           graph[i].kind = "ADDRESS" => /\ prefix'[graph[i].left] = prefix[graph[i].left]
                                        /\ placed'[graph[i].left] = placed[graph[i].left],
           \A c \in Used(i, m) : Current(c, m)' /\ MemoValue(memos'[c][m]) = MemoValue(memos[c][m]),
           NEW l, NEW r, l = FirstValue(i, m), r = SecondValue(i, m),
           ~IsLeaf(graph[i], m) /\ ~Passes(i, m) => v = Operation(i, l, r)'
    PROVE  FollowsOperands(i, v, m)'
<1> DEFINE n == graph[i]
<1>1. v = Made(i, m)
  BY DEF Rests
<1>2. /\ IsLeaf(graph[i], m)' <=> IsLeaf(graph[i], m)
      /\ First(graph[i], m)' = First(graph[i], m)
      /\ LeafValue(graph[i])' = LeafValue(graph[i])
      /\ graph'[i].kind = graph[i].kind /\ graph'[i].left = graph[i].left
      /\ graph'[i].right = graph[i].right
  BY DEF Alike, IsLeaf, First, LeafValue, Redirected
<1>3. CASE IsLeaf(n, m)
  <2>1. v = LeafValue(n)
    BY <1>1, <1>3 DEF Made
  <2> QED
    BY <1>2, <1>3, <2>1 DEF FollowsOperands
<1>4. CASE ~IsLeaf(n, m)
  <2>1. PICK f : f = First(n, m)
    OBVIOUS
  <2>3. f \in Used(i, m) /\ l = MemoValue(memos[f][m])
    BY <1>4, <2>1 DEF Used, FirstValue
  <2>4. Current(f, m)' /\ MemoValue(memos'[f][m]) = l /\ First(graph[i], m)' = f
    BY <1>2, <2>1, <2>3
  <2>5. PassesOn(graph[i], l, m)' <=> Passes(i, m)
    BY <1>2 DEF Passes, PassesOn, Redirected
  <2>6. MemoValue(memos[First(graph[i], m)][m])' = l
    BY <2>4
  <2>7. CASE Passes(i, m)
    <3>1. v = PassedOn(i, l, m)
      BY <1>1, <1>4, <2>7 DEF Made
    <3>2. v = PassedOn(i, l, m)'
      BY <1>2, <3>1 DEF PassedOn, Redirected
    <3> QED
      BY <1>2, <1>4, <2>4, <2>5, <2>6, <2>7, <3>2 DEF FollowsOperands
  <2>8. CASE ~Passes(i, m)
    <3>3. v = Operation(i, l, r)'
      BY <1>4, <2>8
    <3>4. CASE n.kind \in PairKinds
      <4>1. PICK s : s = n.right
        OBVIOUS
      <4>2. s \in Used(i, m) /\ r = MemoValue(memos[s][m])
        BY <1>4, <2>8, <3>4, <4>1 DEF Used, SecondValue
      <4>3. Current(s, m)' /\ MemoValue(memos'[s][m]) = r /\ graph'[i].right = s /\ graph'[i].kind \in PairKinds
        BY <1>2, <3>4, <4>1, <4>2
      <4> QED
        BY <1>2, <1>4, <2>4, <2>5, <2>6, <2>8, <3>3, <4>3 DEF FollowsOperands
    <3>5. CASE n.kind \notin PairKinds
      <4>1. r = Known("INTEGER", 0) /\ graph'[i].kind \notin PairKinds
        BY <1>2, <3>5 DEF SecondValue
      <4> QED
        BY <1>2, <1>4, <2>4, <2>5, <2>6, <2>8, <3>3, <4>1 DEF FollowsOperands
    <3> QED
      BY <3>4, <3>5
  <2> QED
    BY <2>7, <2>8
<1> QED
  BY <1>3, <1>4

\* The memos that a step leaves current are among those that were, and unchanged.
Retains == \A i \in NodeRange, m \in Modes : Current(i, m)' => Current(i, m) /\ memos'[i][m] = memos[i][m]

\* What a step does to a result that stays usable: in whichever mode it rested on
\* operands, it follows from the same ones.
Stays(i, m) ==
    /\ MemoValue(memos'[i][m]) = MemoValue(memos[i][m])
    /\ \A o \in Modes :
          /\ o = m \/ Shared(MemoValue(memos[i][m]))
          /\ Rests(i, MemoValue(memos[i][m]), o)
          => FollowsOperands(i, MemoValue(memos[i][m]), o)' /\ Used(i, o)' = Used(i, o)

Steady == \A i \in Nodes, m \in Modes : Usable(i, m) /\ Usable(i, m)' => Stays(i, m)

\* No result is new.
NoneNew == \A i \in Nodes', m \in Modes : Usable(i, m)' => i \in Nodes /\ Usable(i, m)

\* Nodes that look alike and find what they found look at the same operands.
LEMMA UsedAgain ==
    ASSUME NEW i \in Nodes, NEW m \in Modes, Alike(graph'[i], graph[i]),
           graph[i].kind = "REFERENCE" => bound'[graph[i].left] = bound[graph[i].left],
           graph[i].kind = "ADDRESS" => prefix'[graph[i].left] = prefix[graph[i].left],
           \A c \in Used(i, m) : MemoValue(memos'[c][m]) = MemoValue(memos[c][m])
    PROVE  /\ Used(i, m)' = Used(i, m)
           /\ IsLeaf(graph[i], m)' <=> IsLeaf(graph[i], m)
           /\ ~IsLeaf(graph[i], m) => /\ First(graph[i], m)' = First(graph[i], m)
                                      /\ FirstValue(i, m)' = FirstValue(i, m)
                                      /\ Passes(i, m)' <=> Passes(i, m)
           /\ ~IsLeaf(graph[i], m) /\ ~Passes(i, m) => SecondValue(i, m)' = SecondValue(i, m)
<1>1. /\ IsLeaf(graph[i], m)' <=> IsLeaf(graph[i], m)
      /\ First(graph[i], m)' = First(graph[i], m)
      /\ graph'[i].kind = graph[i].kind /\ graph'[i].left = graph[i].left
      /\ graph'[i].right = graph[i].right
  BY DEF Alike, IsLeaf, First, Redirected
<1>2. CASE IsLeaf(graph[i], m)
  BY <1>1, <1>2 DEF Used
<1>3. CASE ~IsLeaf(graph[i], m)
  <2>1. PICK f : f = First(graph[i], m)
    OBVIOUS
  <2>2. MemoValue(memos'[f][m]) = MemoValue(memos[f][m])
    BY <1>3, <2>1 DEF Used
  <2>3. FirstValue(i, m)' = FirstValue(i, m)
    BY <1>1, <2>1, <2>2 DEF FirstValue
  <2>4. Passes(i, m)' <=> Passes(i, m)
    BY <1>1, <2>3 DEF Passes, PassesOn, Redirected
  <2>5. ~Passes(i, m) => SecondValue(i, m)' = SecondValue(i, m)
    <3> SUFFICES ASSUME ~Passes(i, m) PROVE SecondValue(i, m)' = SecondValue(i, m)
      OBVIOUS
    <3>1. PICK r : r = graph[i].right
      OBVIOUS
    <3>2. graph[i].kind \in PairKinds => MemoValue(memos'[r][m]) = MemoValue(memos[r][m])
      BY <1>3, <3>1 DEF Used
    <3> QED
      BY <1>1, <3>1, <3>2 DEF SecondValue
  <2>6. Used(i, m)' = Used(i, m)
    BY <1>1, <1>3, <2>4 DEF Used
  <2> QED
    BY <1>1, <1>3, <2>3, <2>4, <2>5, <2>6
<1> QED
  BY <1>2, <1>3

\* If a step leaves a node alone that stays usable, and with it whatever it was made
\* from, its result stays.
LEMMA StillStays ==
    ASSUME CoreInv, FollowInv, NEW i \in Nodes, NEW m \in Modes, strings' = strings,
           Usable(i, m), memos'[i][m] = memos[i][m], graph'[i] = graph[i],
           graph[i].kind = "REFERENCE" => bound'[graph[i].left] = bound[graph[i].left],
           graph[i].kind = "ADDRESS" => /\ prefix'[graph[i].left] = prefix[graph[i].left]
                                        /\ placed'[graph[i].left] = placed[graph[i].left],
           \A c \in Nodes, o \in Modes :
               /\ Usable(c, o) /\ i \in parents[c]
               /\ MemoValue(memos[c][o]).flags \subseteq MemoValue(memos[i][m]).flags
               => Current(c, o)' /\ memos'[c][o] = memos[c][o]
    PROVE  Stays(i, m)
<1>1. PICK v : v = MemoValue(memos[i][m])
  OBVIOUS
<1>2. MemoValue(memos'[i][m]) = MemoValue(memos[i][m])
  OBVIOUS
<1>3. ASSUME NEW o \in Modes, Rests(i, v, o)
      PROVE  FollowsOperands(i, v, o)' /\ Used(i, o)' = Used(i, o)
  <2>1. \A c \in Used(i, o) : Current(c, o)' /\ MemoValue(memos'[c][o]) = MemoValue(memos[c][o])
    <3> SUFFICES ASSUME NEW c \in Used(i, o)
                 PROVE  Current(c, o)' /\ memos'[c][o] = memos[c][o]
      OBVIOUS
    <3>1. c \in Nodes /\ i \in parents[c] /\ Usable(c, o) /\ MemoValue(memos[c][o]).flags \subseteq v.flags
      BY <1>3 DEF Rests, Usable
    <3> QED
      BY <1>1, <3>1
  <2>2. PICK l : l = FirstValue(i, o)
    OBVIOUS
  <2>3. PICK r : r = SecondValue(i, o)
    OBVIOUS
  <2>4. ~IsLeaf(graph[i], o) /\ ~Passes(i, o) => v = Operation(i, l, r)'
    BY <1>3, <2>2, <2>3, OperationSame DEF Rests, Made
  <2>5. Alike(graph'[i], graph[i])
    BY DEF Alike
  <2>6. FollowsOperands(i, v, o)'
    BY <1>3, <2>1, <2>2, <2>3, <2>4, <2>5, MadeAgain DEF CoreInv
  <2>7. Used(i, o)' = Used(i, o)
    BY <2>1, <2>5, UsedAgain
  <2> QED
    BY <2>6, <2>7
<1>4. \A o \in Modes : Rests(i, v, o) => FollowsOperands(i, v, o)' /\ Used(i, o)' = Used(i, o)
  BY <1>3
<1> QED
  BY <1>1, <1>2, <1>4 DEF Stays

\* Results that stay are justified.
LEMMA StaysJustified ==
    ASSUME CoreInv, FollowInv, NEW i \in Nodes, NEW m \in Modes, Usable(i, m), Stays(i, m)
    PROVE  Justified(i, m)'
<1>1. PICK v : v = MemoValue(memos[i][m])
  OBVIOUS
<1>2. PICK o \in Modes : (o = m \/ Shared(v)) /\ Rests(i, v, o)
  BY <1>1, UsableRests
<1>3. FollowsOperands(i, v, o)'
  BY <1>1, <1>2 DEF Stays
<1>4. o = m \/ o = Other(m)
  BY DEF Other, Modes
<1>5. v = MemoValue(memos[i][m])'
  BY <1>1 DEF Stays
<1> QED
  BY <1>2, <1>3, <1>4, <1>5 DEF Justified

\* Where no result is new and those that are left stay, all of them are justified.
LEMMA SteadyFollows ==
    ASSUME CoreInv, FollowInv, Steady, NoneNew
    PROVE  FollowInv'
<1> SUFFICES ASSUME NEW i \in Nodes', NEW m \in Modes, Current(i, m)', ~IsCycle(memos'[i][m])
             PROVE  Justified(i, m)'
  BY DEF FollowInv
<1>1. Usable(i, m)'
  BY DEF Usable
<1>2. i \in Nodes /\ Usable(i, m)
  BY <1>1 DEF NoneNew
<1>3. Stays(i, m)
  BY <1>1, <1>2 DEF Steady
<1> QED
  BY <1>2, <1>3, StaysJustified

\* Memos that are kept stay alike in both modes.
LEMMA RetainsTwins ==
    ASSUME TwinInv, Retains, mode' = mode, graph \in Seq(NodeType), Len(graph) <= NodeLimit,
           \A i \in Nodes', m \in Modes : Current(i, m)' => i \in Nodes
    PROVE  TwinInv'
<1> SUFFICES ASSUME NEW i \in Nodes', NEW m \in Modes, NEW o \in Modes
             PROVE  /\ Current(i, m)' /\ IsCycle(memos'[i][m]) => m = mode'
                    /\ Current(i, m)' /\ Current(i, o)' /\ Shared(MemoValue(memos'[i][m])) /\ ~IsCycle(memos'[i][o])
                          => MemoValue(memos'[i][o]) = MemoValue(memos'[i][m])
  BY DEF TwinInv
<1>1. i \in Nodes => i \in NodeRange
  BY GraphAssumption DEF Nodes, NodeRange
<1> QED
  BY <1>1 DEF TwinInv, Retains
-----------------------------------------------------------------------------
(* Changes between queries *)

\* Dropping memos keeps the rest well formed.
LEMMA MemosKept ==
    ASSUME MemoInv, Weaker(memos', memos), versions' \in Counters, strings' = strings,
           \A i \in Nodes : i \in Nodes',
           \A i \in NodeRange, m \in Modes : "CACHED" \in memos'[i][m].flags => Stamped(memos[i][m])'
    PROVE  MemoInv'
<1>1. memos' \in MemoTable /\ memos \in MemoTable
  BY DEF Weaker, MemoInv, MemoTable
<1>2. ASSUME NEW i \in NodeRange, NEW m \in Modes
      PROVE  /\ memos[i][m] \in MemoType /\ memos'[i][m] \in MemoType
             /\ memos'[i][m].state = memos[i][m].state /\ memos'[i][m].kind = memos[i][m].kind
             /\ memos'[i][m].payload = memos[i][m].payload
             /\ memos'[i][m].flags \subseteq memos[i][m].flags
  <2>1. memos[i][m] \in MemoType /\ memos'[i][m] \in MemoType
    BY <1>1 DEF MemoTable
  <2>2. memos'[i][m] = memos[i][m] \/ memos'[i][m] = Uncached(memos[i][m])
    BY DEF Weaker
  <2> QED
    BY <2>1, <2>2, UncachedFields
<1>3. PayloadIsUnambiguous'
  BY <1>2 DEF MemoInv, PayloadIsUnambiguous
<1>4. ASSUME NEW i \in NodeRange, i \notin Nodes' PROVE memos'[i] = Missing
  <2>1. memos[i] = Missing
    BY <1>4 DEF MemoInv
  <2>2. \A m \in Modes : Missing[m] = NoMemo
    BY DEF Missing
  <2>3. Uncached(NoMemo) = NoMemo
    BY DEF Uncached, NoMemo
  <2>4. \A m \in Modes : memos'[i][m] = NoMemo
    BY <2>1, <2>2, <2>3 DEF Weaker
  <2>5. memos'[i] \in [Modes -> MemoType]
    BY <1>1 DEF MemoTable
  <2> QED
    BY <2>4, <2>5 DEF Missing
<1>5. ASSUME NEW i \in NodeRange, NEW m \in Modes
      PROVE  /\ Stamped(memos[i][m])'
             /\ memos'[i][m].state = "KNOWN" /\ memos'[i][m].kind = "STRING"
                   => memos'[i][m].payload \in 1..Len(strings')
  <2>1. CASE "CACHED" \in memos'[i][m].flags
    BY <1>2, <2>1 DEF MemoInv
  <2>2. CASE "CACHED" \notin memos'[i][m].flags
    BY <1>2, <2>2 DEF MemoInv, Stamped
  <2> QED
    BY <2>1, <2>2
<1> QED
  BY <1>1, <1>3, <1>4, <1>5 DEF MemoInv, MemoTable, Counters

\* No stamp is ahead of its counter.
LEMMA StampsOf ==
    ASSUME MemoInv, NEW i \in NodeRange, NEW m \in Modes, "CACHED" \in memos[i][m].flags
    PROVE  /\ memos[i][m].payload \in Int
           /\ IsCycle(memos[i][m]) => memos[i][m].payload <= versions.request
           /\ ~IsCycle(memos[i][m]) /\ "BINDING" \in memos[i][m].flags
                 => memos[i][m].payload <= versions.bindings
           /\ versions.request \in Int /\ versions.bindings \in Int /\ versions.layout \in Int
  <1>1. versions \in Counters /\ memos[i][m] \in MemoType
    BY MemosHoldValues DEF MemoInv, Counters
  <1> QED
    BY <1>1 DEF MemoInv, Stamped, Counters, MemoType

\* A binding outdates the results that waited for it and no result keeps a lost ground.
LEMMA BindResults ==
    ASSUME CoreInv, TwinInv, FollowInv, NEW d \in Definitions, NEW e \in Nodes, Bind(d, e)
    PROVE  MemoInv' /\ TwinInv' /\ FollowInv' /\ Steady /\ NoneNew
<1>1. GraphInv /\ StringInv /\ MemoInv /\ memos \in MemoTable /\ versions \in Counters
  BY DEF CoreInv, MemoInv, MemoTable, Counters
<1>2. /\ graph' = graph /\ strings' = strings /\ prefix' = prefix /\ placed' = placed /\ mode' = mode
      /\ bound' = [bound EXCEPT ![d] = e] /\ bound[d] = 0
      /\ Advance("bindings", memos)
  BY DEF Bind, running
<1>3. /\ versions' \in Counters /\ versions'.request = versions.request
      /\ Weaker(memos', memos)
  BY <1>1, <1>2, Advancing
<1>4. ASSUME NEW i \in NodeRange, NEW m \in Modes, "CACHED" \in memos'[i][m].flags
      PROVE  /\ memos'[i][m] = memos[i][m]
             /\ versions'.bindings = versions.bindings + 1 \/ ~Outdated(memos[i][m])
  BY <1>1, <1>2, <1>4, Advancing
<1>5. MemoInv'
  <2>1. ASSUME NEW i \in NodeRange, NEW m \in Modes, "CACHED" \in memos'[i][m].flags
        PROVE  Stamped(memos[i][m])'
    BY <1>1, <1>3, <1>4, <2>1, StampsOf DEF Stamped, Outdated
  <2> QED
    BY <1>1, <1>2, <1>3, <2>1, MemosKept DEF Nodes
<1>6. ASSUME NEW i \in NodeRange, NEW m \in Modes, Current(i, m)'
      PROVE  /\ memos'[i][m] = memos[i][m] /\ Current(i, m)
             /\ ~IsCycle(memos[i][m]) => "BINDING" \notin memos[i][m].flags
  <2>1. "CACHED" \in memos'[i][m].flags /\ memos'[i][m] = memos[i][m]
    BY <1>4, <1>6 DEF Current
  <2> QED
    BY <1>1, <1>3, <1>4, <1>6, <2>1, StampsOf DEF Current, Outdated
<1>7. TwinInv'
  <2>1. Retains
    BY <1>6 DEF Retains
  <2> QED
    BY <1>1, <1>2, <2>1, RetainsTwins DEF GraphInv, Nodes
<1>8. ASSUME NEW i \in Nodes, NEW m \in Modes, Current(i, m)', ~IsCycle(memos'[i][m])
      PROVE  Usable(i, m) /\ Stays(i, m)
  <2>1. i \in NodeRange
    BY <1>1, NodeFields
  <2>2. Usable(i, m) /\ memos'[i][m] = memos[i][m] /\ "BINDING" \notin memos[i][m].flags
    BY <1>6, <1>8, <2>1 DEF Usable
  <2>3. memos[i][m] \in MemoType
    BY <1>1, <2>1, MemosHoldValues
  <2>4. graph[i].kind = "REFERENCE" => bound'[graph[i].left] = bound[graph[i].left]
    <3> SUFFICES ASSUME graph[i].kind = "REFERENCE", graph[i].left = d PROVE FALSE
      BY <1>1, <1>2, NodeFields DEF GraphInv, Built
    <3> DEFINE v == MemoValue(memos[i][m])
    <3>1. PICK o \in Modes : Rests(i, v, o)
      BY <2>2, UsableRests
    <3>2. IsLeaf(graph[i], o)
      BY <1>2 DEF IsLeaf
    <3>3. "BINDING" \in v.flags
      BY <1>1, <3>1, <3>2, MadeType DEF Rests
    <3> QED
      BY <2>2, <2>3, <3>3, MemoFields
  <2>5. ASSUME NEW c \in Nodes, NEW o \in Modes, Usable(c, o),
               MemoValue(memos[c][o]).flags \subseteq MemoValue(memos[i][m]).flags
        PROVE  Current(c, o)' /\ memos'[c][o] = memos[c][o]
    <3>1. c \in NodeRange /\ memos[c][o] \in MemoType
      BY <1>1, NodeFields, MemosHoldValues
    <3>2. memos'[c][o] = memos[c][o]
      <4>1. "CACHED" \in memos'[i][m].flags
        BY <1>8 DEF Current
      <4> QED
        BY <1>1, <1>2, <2>1, <2>5, <3>1, <4>1, Advancing DEF Usable
    <3>3. "BINDING" \notin memos[c][o].flags
      BY <2>2, <2>3, <2>5, <3>1, MemoFields
    <3> QED
      BY <2>5, <3>2, <3>3 DEF Usable, Current
  <2> QED
    BY <1>2, <2>2, <2>4, <2>5, StillStays
<1>9. Steady /\ NoneNew
  BY <1>2, <1>8 DEF Steady, NoneNew, Usable, Nodes
<1> QED
  BY <1>5, <1>7, <1>9, SteadyFollows

\* Dropping twice is dropping.
LEMMA WeakerChain ==
    ASSUME NEW old \in MemoTable, NEW mid, NEW new, Weaker(mid, old), Weaker(new, mid)
    PROVE  Weaker(new, old)
<1>1. ASSUME NEW i \in NodeRange, NEW m \in Modes
      PROVE  new[i][m] = old[i][m] \/ new[i][m] = Uncached(old[i][m])
  <2>1. old[i][m] \in MemoType
    BY DEF MemoTable
  <2>2. Uncached(Uncached(old[i][m])) = Uncached(old[i][m])
    BY <2>1 DEF Uncached, MemoType
  <2> QED
    BY <2>2 DEF Weaker
<1> QED
  BY <1>1 DEF Weaker

\* The results of an anchor's addresses are dropped when it moves.
LEMMA AddressDropped ==
    ASSUME CoreInv, FollowInv, NEW i \in Nodes, NEW m \in Modes, Usable(i, m),
           NEW a \in Anchors, graph[i].kind = "ADDRESS", graph[i].left = a
    PROVE  "CACHED" \notin Invalidated(users[a])[i][m].flags
<1>1. GraphInv /\ StringInv /\ MemoInv /\ memos \in MemoTable
  BY DEF CoreInv, MemoInv, MemoTable
<1>2. i \in NodeRange /\ memos[i][m] \in MemoType
  BY <1>1, NodeFields, MemosHoldValues
<1>3. "LAYOUT" \in memos[i][m].flags
  <2> DEFINE v == MemoValue(memos[i][m])
  <2>1. PICK o \in Modes : Rests(i, v, o)
    BY UsableRests
  <2>2. "LAYOUT" \in v.flags
    BY <1>1, <2>1, MadeType DEF Rests
  <2> QED
    BY <1>2, <2>2, MemoFields
<1>4. Dirty(i)
  BY <1>3 DEF Dirty, LayoutCached, Usable, Current
<1>5. i \in users[a]
  BY <1>1 DEF GraphInv, UsersIn, Nodes
<1>6. i \in DirtyAbove(users[a])
  BY <1>4, <1>5, DirtyClosed
<1> QED
  BY <1>1, <1>2, <1>3, <1>6, InvalidatedTable

\* A placement drops whatever rests on the place of the anchor.
LEMMA PlaceResults ==
    ASSUME CoreInv, TwinInv, FollowInv, NEW a \in Anchors, NEW where, Place(a, where)
    PROVE  MemoInv' /\ TwinInv' /\ FollowInv' /\ Steady /\ NoneNew
<1> DEFINE table == Invalidated(users[a])
<1>1. GraphInv /\ StringInv /\ MemoInv /\ memos \in MemoTable /\ versions \in Counters
  BY DEF CoreInv, MemoInv, MemoTable, Counters
<1>2. /\ graph' = graph /\ strings' = strings /\ bound' = bound /\ prefix' = prefix /\ mode' = mode
      /\ placed' = [placed EXCEPT ![a] = where]
      /\ Advance("layout", table)
  BY DEF Place, structure, running
<1>3. Weaker(table, memos) /\ table \in MemoTable
  BY <1>1, InvalidatedTable DEF Weaker
<1>4. \A i \in NodeRange, m \in Modes : "CACHED" \in table[i][m].flags => table[i][m] = memos[i][m]
  BY <1>1, InvalidatedTable
<1> HIDE DEF table
<1>5. /\ versions' \in Counters /\ versions'.request = versions.request
      /\ versions'.bindings = versions.bindings /\ Weaker(memos', table)
      /\ \A i \in NodeRange, m \in Modes :
            "CACHED" \in memos'[i][m].flags => memos'[i][m] = table[i][m]
  BY <1>1, <1>2, <1>3, Advancing
<1>6. Weaker(memos', memos)
  BY <1>1, <1>3, <1>5, WeakerChain
<1>7. ASSUME NEW i \in NodeRange, NEW m \in Modes, "CACHED" \in memos'[i][m].flags
      PROVE  memos'[i][m] = memos[i][m] /\ memos'[i][m] = table[i][m]
  BY <1>4, <1>5, <1>7
<1>8. MemoInv'
  <2>1. ASSUME NEW i \in NodeRange, NEW m \in Modes, "CACHED" \in memos'[i][m].flags
        PROVE  Stamped(memos[i][m])'
    BY <1>1, <1>5, <1>7, <2>1, StampsOf DEF Stamped
  <2> QED
    BY <1>1, <1>2, <1>5, <1>6, <2>1, MemosKept DEF Nodes
<1>9. ASSUME NEW i \in NodeRange, NEW m \in Modes, Current(i, m)'
      PROVE  memos'[i][m] = memos[i][m] /\ memos'[i][m] = table[i][m] /\ Current(i, m)
             /\ "CACHED" \in table[i][m].flags
  <2>1. "CACHED" \in memos'[i][m].flags
    BY <1>9 DEF Current
  <2>2. memos'[i][m] = memos[i][m] /\ memos'[i][m] = table[i][m]
    BY <1>7, <2>1
  <2> QED
    BY <1>5, <1>9, <2>1, <2>2 DEF Current
<1>10. TwinInv'
  <2>1. Retains
    BY <1>9 DEF Retains
  <2> QED
    BY <1>1, <1>2, <2>1, RetainsTwins DEF GraphInv, Nodes
<1>11. ASSUME NEW i \in Nodes, NEW m \in Modes, Current(i, m)', ~IsCycle(memos'[i][m])
       PROVE  Usable(i, m) /\ Stays(i, m)
  <2>1. i \in NodeRange
    BY <1>1, NodeFields
  <2>2. /\ Usable(i, m) /\ memos'[i][m] = memos[i][m] /\ memos[i][m] = table[i][m]
        /\ "CACHED" \in table[i][m].flags /\ "CACHED" \in memos'[i][m].flags
    BY <1>9, <1>11, <2>1 DEF Usable
  <2>3. graph[i].kind = "ADDRESS" => placed'[graph[i].left] = placed[graph[i].left]
    <3> SUFFICES ASSUME graph[i].kind = "ADDRESS", graph[i].left = a PROVE FALSE
      BY <1>1, <1>2, NodeFields DEF GraphInv, Built
    <3> QED
      BY <2>2, AddressDropped DEF table
  <2>4. ASSUME NEW c \in Nodes, NEW o \in Modes, Usable(c, o), i \in parents[c],
               MemoValue(memos[c][o]).flags \subseteq MemoValue(memos[i][m]).flags
        PROVE  Current(c, o)' /\ memos'[c][o] = memos[c][o]
    <3>1. c \in NodeRange
      BY <1>1, NodeFields
    <3>2. table[c][o] = memos[c][o]
      BY <1>1, <2>2, <2>4, InvalidatedKeeps DEF table
    <3>3. memos'[c][o] = memos[c][o]
      BY <1>1, <1>2, <1>3, <2>1, <2>2, <2>4, <3>1, <3>2, Advancing DEF Usable
    <3> QED
      BY <1>5, <2>4, <3>3 DEF Usable, Current
  <2> QED
    BY <1>2, <2>2, <2>3, <2>4, StillStays
<1>12. Steady /\ NoneNew
  BY <1>2, <1>11 DEF Steady, NoneNew, Usable, Nodes
<1> QED
  BY <1>8, <1>10, <1>12, SteadyFollows

\* A prefix drops whatever rests on its absence.
LEMMA PrefixResults ==
    ASSUME CoreInv, TwinInv, FollowInv, NEW a \in Anchors, NEW e \in Nodes, SetPrefix(a, e)
    PROVE  MemoInv' /\ TwinInv' /\ FollowInv' /\ Steady /\ NoneNew
<1> DEFINE table == Invalidated(users[a])
<1>1. GraphInv /\ StringInv /\ MemoInv /\ memos \in MemoTable /\ versions \in Counters
  BY DEF CoreInv, MemoInv, MemoTable, Counters
<1>2. /\ graph' = graph /\ strings' = strings /\ bound' = bound /\ placed' = placed /\ mode' = mode
      /\ prefix' = [prefix EXCEPT ![a] = e] /\ versions' = versions
      /\ memos' = table
  BY DEF SetPrefix, running
<1>3. Weaker(table, memos)
  BY <1>1, InvalidatedTable
<1>4. \A i \in NodeRange, m \in Modes : "CACHED" \in table[i][m].flags => table[i][m] = memos[i][m]
  BY <1>1, InvalidatedTable
<1> HIDE DEF table
<1>5. MemoInv'
  <2>1. ASSUME NEW i \in NodeRange, NEW m \in Modes, "CACHED" \in memos'[i][m].flags
        PROVE  Stamped(memos[i][m])'
    BY <1>1, <1>2, <1>4, <2>1, StampsOf DEF Stamped
  <2> QED
    BY <1>1, <1>2, <1>3, <2>1, MemosKept DEF Nodes
<1>6. ASSUME NEW i \in NodeRange, NEW m \in Modes, Current(i, m)'
      PROVE  memos'[i][m] = memos[i][m] /\ Current(i, m) /\ "CACHED" \in table[i][m].flags
  <2>1. "CACHED" \in memos'[i][m].flags
    BY <1>6 DEF Current
  <2> QED
    BY <1>2, <1>4, <1>6, <2>1 DEF Current
<1>7. TwinInv'
  <2>1. Retains
    BY <1>6 DEF Retains
  <2> QED
    BY <1>1, <1>2, <2>1, RetainsTwins DEF GraphInv, Nodes
<1>8. ASSUME NEW i \in Nodes, NEW m \in Modes, Current(i, m)', ~IsCycle(memos'[i][m])
      PROVE  Usable(i, m) /\ Stays(i, m)
  <2>1. i \in NodeRange
    BY <1>1, NodeFields
  <2>2. Usable(i, m) /\ memos'[i][m] = memos[i][m] /\ "CACHED" \in table[i][m].flags
    BY <1>6, <1>8, <2>1 DEF Usable
  <2>3. graph[i].kind = "ADDRESS" => prefix'[graph[i].left] = prefix[graph[i].left]
    <3> SUFFICES ASSUME graph[i].kind = "ADDRESS", graph[i].left = a PROVE FALSE
      BY <1>1, <1>2, NodeFields DEF GraphInv, Built
    <3> QED
      BY <2>2, AddressDropped DEF table
  <2>4. ASSUME NEW c \in Nodes, NEW o \in Modes, Usable(c, o), i \in parents[c],
               MemoValue(memos[c][o]).flags \subseteq MemoValue(memos[i][m]).flags
        PROVE  Current(c, o)' /\ memos'[c][o] = memos[c][o]
    <3>1. memos'[c][o] = memos[c][o]
      BY <1>1, <1>2, <2>2, <2>4, InvalidatedKeeps DEF table
    <3> QED
      BY <1>2, <2>4, <3>1 DEF Usable, Current
  <2> QED
    BY <1>2, <2>2, <2>3, <2>4, StillStays
<1>9. Steady /\ NoneNew
  BY <1>2, <1>8 DEF Steady, NoneNew, Usable, Nodes
<1> QED
  BY <1>5, <1>7, <1>9, SteadyFollows

\* A new node has no result, and no other node looks at it.
LEMMA AppendResults ==
    ASSUME CoreInv, TwinInv, FollowInv, NEW n, AppendNode(n), graph' \in Seq(NodeType), Len(graph') <= NodeLimit
    PROVE  MemoInv' /\ TwinInv' /\ FollowInv' /\ Steady /\ NoneNew
<1>1. GraphInv /\ StringInv /\ MemoInv /\ memos \in MemoTable /\ versions \in Counters
  BY DEF CoreInv, MemoInv, MemoTable, Counters
<1>2. /\ strings' = strings /\ bound' = bound /\ prefix' = prefix /\ placed' = placed /\ mode' = mode
      /\ versions' = versions /\ memos' = memos /\ graph' = Append(graph, n)
  BY DEF AppendNode, running
<1>3. Nodes' = Nodes \cup {Len(graph) + 1} /\ \A i \in Nodes : graph'[i] = graph[i]
  <2>1. graph \in Seq(NodeType) /\ Len(graph) \in Nat
    BY <1>1 DEF GraphInv
  <2>2. Len(graph') = Len(graph) + 1 /\ \A i \in 1..Len(graph) : graph'[i] = graph[i]
    BY <1>2, <2>1
  <2> QED
    BY <2>1, <2>2 DEF Nodes
<1>4. Weaker(memos', memos)
  BY <1>1, <1>2 DEF Weaker
<1>5. MemoInv'
  <2>1. ASSUME NEW i \in NodeRange, NEW m \in Modes, "CACHED" \in memos'[i][m].flags
        PROVE  Stamped(memos[i][m])'
    BY <1>1, <1>2, <2>1, StampsOf DEF Stamped
  <2> QED
    BY <1>1, <1>2, <1>3, <1>4, <2>1, MemosKept
<1>6. \A i, m : Current(i, m)' <=> Current(i, m)
  BY <1>2 DEF Current
<1>7. ASSUME NEW i \in Nodes', NEW m \in Modes, Current(i, m)' PROVE i \in Nodes
  <2> SUFFICES ASSUME i \notin Nodes PROVE FALSE
    OBVIOUS
  <2>1. i \in NodeRange
    BY GraphAssumption DEF Nodes, NodeRange
  <2>2. memos[i][m] = NoMemo
    BY <1>1, <2>1 DEF MemoInv, Missing
  <2> QED
    BY <1>2, <1>7, <2>2 DEF Current, NoMemo
<1>8. TwinInv'
  <2>1. Retains
    BY <1>2, <1>6 DEF Retains
  <2> QED
    BY <1>1, <1>2, <1>7, <2>1, RetainsTwins DEF GraphInv
<1>9. ASSUME NEW i \in Nodes', NEW m \in Modes, Current(i, m)', ~IsCycle(memos'[i][m])
      PROVE  i \in Nodes /\ Usable(i, m) /\ Stays(i, m)
  <2>1. i \in Nodes
    BY <1>7, <1>9
  <2>2. Usable(i, m)
    BY <1>2, <1>6, <1>9 DEF Usable
  <2>3. graph'[i] = graph[i]
    BY <1>3, <2>1
  <2> QED
    BY <1>2, <1>6, <2>1, <2>2, <2>3, StillStays DEF Usable
<1>10. Steady /\ NoneNew
  BY <1>3, <1>9 DEF Steady, NoneNew, Usable
<1> QED
  BY <1>5, <1>8, <1>10, SteadyFollows

\* The results on a difference of addresses depend on placement.
LEMMA DifferenceLayout ==
    ASSUME CoreInv, FollowInv, NEW i \in Differences, NEW m \in Modes, Usable(i, m)
    PROVE  "LAYOUT" \in MemoValue(memos[i][m]).flags
<1> DEFINE v == MemoValue(memos[i][m])
           c == graph[i].left
<1>1. GraphInv /\ StringInv /\ MemoInv
  BY DEF CoreInv
<1>2. i \in Nodes /\ graph[i].kind = "BINARY" /\ AddressLeaf(c)
  BY DEF Differences
<1>3. PICK o \in Modes : Rests(i, v, o)
  BY <1>2, UsableRests
<1>4. ~IsLeaf(graph[i], o) /\ ~Redirected(graph[i], o) /\ graph[i].kind \in PairKinds
  BY <1>2 DEF IsLeaf, LiteralKinds, Redirected, PairKinds
<1>5. First(graph[i], o) = c /\ c \in Nodes /\ c \in Used(i, o)
  BY <1>1, <1>2, <1>4, FirstOperand DEF Used
<1>6. Usable(c, o) /\ MemoValue(memos[c][o]).flags \subseteq v.flags
  BY <1>3, <1>5 DEF Rests, Usable
<1> QED
  BY <1>2, <1>5, <1>6, LeafLayout

\* Lowering drops the results of every difference it rewrites.
LEMMA LowerResults ==
    ASSUME CoreInv, TwinInv, FollowInv, NEW which, LowerSpans(which),
           Nodes' = Nodes, \A i \in Nodes \ Differences : graph'[i] = graph[i]
    PROVE  MemoInv' /\ TwinInv' /\ FollowInv' /\ Steady /\ NoneNew
<1>1. GraphInv /\ StringInv /\ MemoInv /\ memos \in MemoTable /\ versions \in Counters
  BY DEF CoreInv, MemoInv, MemoTable, Counters
<1> DEFINE entry(i, m) == IF "LAYOUT" \in memos[i][m].flags THEN Uncached(memos[i][m]) ELSE memos[i][m]
<1>2. /\ strings' = strings /\ bound' = bound /\ prefix' = prefix /\ placed' = placed /\ mode' = mode
      /\ versions' = versions /\ memos' = [i \in NodeRange |-> [m \in Modes |-> entry(i, m)]]
  BY DEF LowerSpans, running
<1>3. ASSUME NEW i \in NodeRange, NEW m \in Modes
      PROVE  /\ memos[i][m] \in MemoType /\ entry(i, m) \in MemoType /\ memos'[i][m] = entry(i, m)
             /\ "CACHED" \in entry(i, m).flags =>
                    entry(i, m) = memos[i][m] /\ "LAYOUT" \notin memos[i][m].flags
  <2>1. memos[i][m] \in MemoType
    BY <1>1 DEF MemoTable
  <2>2. memos'[i][m] = entry(i, m)
    BY <1>2
  <2> QED
    BY <2>1, <2>2, UncachedFields
<1>4. Weaker(memos', memos)
  <2>1. \A i \in NodeRange, m \in Modes : entry(i, m) = memos[i][m] \/ entry(i, m) = Uncached(memos[i][m])
    OBVIOUS
  <2> HIDE DEF entry
  <2>2. memos' \in MemoTable
    BY <1>2, <1>3 DEF MemoTable
  <2> QED
    BY <1>3, <2>1, <2>2 DEF Weaker
<1>5. MemoInv'
  <2>1. ASSUME NEW i \in NodeRange, NEW m \in Modes, "CACHED" \in memos'[i][m].flags
        PROVE  Stamped(memos[i][m])'
    <3>1. memos'[i][m] = memos[i][m]
      BY <1>3, <2>1
    <3> QED
      BY <1>1, <1>2, <2>1, <3>1, StampsOf DEF Stamped
  <2> QED
    BY <1>1, <1>2, <1>4, <2>1, MemosKept
<1>6. ASSUME NEW i \in NodeRange, NEW m \in Modes, Current(i, m)'
      PROVE  memos'[i][m] = memos[i][m] /\ Current(i, m) /\ "LAYOUT" \notin memos[i][m].flags
  <2>1. "CACHED" \in memos'[i][m].flags
    BY <1>6 DEF Current
  <2>2. memos'[i][m] = memos[i][m] /\ "LAYOUT" \notin memos[i][m].flags
    BY <1>3, <2>1
  <2> HIDE DEF entry
  <2> QED
    BY <1>2, <1>6, <2>2 DEF Current
<1>7. TwinInv'
  <2>1. Retains
    BY <1>6 DEF Retains
  <2> QED
    BY <1>1, <1>2, <2>1, RetainsTwins DEF GraphInv
<1>8. ASSUME NEW i \in Nodes, NEW m \in Modes, Current(i, m)', ~IsCycle(memos'[i][m])
      PROVE  Usable(i, m) /\ Stays(i, m)
  <2>1. i \in NodeRange
    BY <1>1, NodeFields
  <2>2. Usable(i, m) /\ memos'[i][m] = memos[i][m] /\ "LAYOUT" \notin memos[i][m].flags
    BY <1>6, <1>8, <2>1 DEF Usable
  <2>3. memos[i][m] \in MemoType
    BY <1>1, <2>1, MemosHoldValues
  <2>4. graph'[i] = graph[i]
    BY <2>2, <2>3, DifferenceLayout, MemoFields
  <2>5. ASSUME NEW c \in Nodes, NEW o \in Modes, Usable(c, o),
               MemoValue(memos[c][o]).flags \subseteq MemoValue(memos[i][m]).flags
        PROVE  Current(c, o)' /\ memos'[c][o] = memos[c][o]
    <3>1. c \in NodeRange /\ memos[c][o] \in MemoType
      BY <1>1, NodeFields, MemosHoldValues
    <3>2. "LAYOUT" \notin memos[c][o].flags
      BY <2>2, <2>3, <2>5, <3>1, MemoFields
    <3>3. memos'[c][o] = memos[c][o]
      BY <1>3, <3>1, <3>2
    <3> HIDE DEF entry
    <3> QED
      BY <1>2, <2>5, <3>3 DEF Usable, Current
  <2> HIDE DEF entry
  <2> QED
    BY <1>2, <2>2, <2>4, <2>5, StillStays
<1>9. Steady /\ NoneNew
  BY <1>8 DEF Steady, NoneNew, Usable
<1> QED
  BY <1>5, <1>7, <1>9, SteadyFollows

\* A new request outdates the cycles of the last one.
LEMMA RequestResults ==
    ASSUME CoreInv, TwinInv, FollowInv, NEW i \in Nodes, NEW m \in Modes, Request(i, m)
    PROVE  MemoInv' /\ TwinInv' /\ FollowInv' /\ Steady /\ NoneNew
<1>1. GraphInv /\ StringInv /\ MemoInv /\ memos \in MemoTable /\ versions \in Counters
  BY DEF CoreInv, MemoInv, MemoTable, Counters
<1>2. /\ graph' = graph /\ strings' = strings /\ bound' = bound /\ prefix' = prefix /\ placed' = placed
      /\ Advance("request", memos)
  BY DEF Request, structure
<1>3. /\ versions' \in Counters /\ versions'.bindings = versions.bindings
      /\ Weaker(memos', memos)
  BY <1>1, <1>2, Advancing
<1>4. ASSUME NEW j \in NodeRange, NEW o \in Modes, "CACHED" \in memos'[j][o].flags
      PROVE  /\ memos'[j][o] = memos[j][o]
             /\ versions'.request = versions.request + 1 \/ ~Outdated(memos[j][o])
  BY <1>1, <1>2, <1>4, Advancing
<1>5. MemoInv'
  <2>1. ASSUME NEW j \in NodeRange, NEW o \in Modes, "CACHED" \in memos'[j][o].flags
        PROVE  Stamped(memos[j][o])'
    BY <1>1, <1>3, <1>4, <2>1, StampsOf DEF Stamped, Outdated
  <2> QED
    BY <1>1, <1>2, <1>3, <2>1, MemosKept DEF Nodes
<1>6. ASSUME NEW j \in NodeRange, NEW o \in Modes, Current(j, o)'
      PROVE  memos'[j][o] = memos[j][o] /\ Current(j, o) /\ ~IsCycle(memos[j][o])
  <2>1. "CACHED" \in memos'[j][o].flags /\ memos'[j][o] = memos[j][o]
    BY <1>4, <1>6 DEF Current
  <2>2. ~IsCycle(memos[j][o])
    BY <1>1, <1>4, <1>6, <2>1, StampsOf DEF Current, Outdated
  <2> QED
    BY <1>3, <1>6, <2>1, <2>2 DEF Current
<1>7. \A j \in Nodes : j \in NodeRange
  BY <1>1, NodeFields
<1>8. TwinInv'
  <2> SUFFICES ASSUME NEW j \in Nodes, NEW o \in Modes, NEW p \in Modes
               PROVE  /\ Current(j, o)' /\ IsCycle(memos'[j][o]) => o = mode'
                      /\ /\ Current(j, o)' /\ Current(j, p)' /\ Shared(MemoValue(memos'[j][o]))
                         /\ ~IsCycle(memos'[j][p])
                         => MemoValue(memos'[j][p]) = MemoValue(memos'[j][o])
    BY <1>2 DEF TwinInv, Nodes
  <2> QED
    BY <1>6, <1>7 DEF TwinInv
<1>9. ASSUME NEW j \in Nodes, NEW o \in Modes, Current(j, o)', ~IsCycle(memos'[j][o])
      PROVE  Usable(j, o) /\ Stays(j, o)
  <2>1. Usable(j, o) /\ memos'[j][o] = memos[j][o] /\ "CACHED" \in memos'[j][o].flags
    BY <1>6, <1>7, <1>9 DEF Usable, Current
  <2>2. ASSUME NEW c \in Nodes, NEW p \in Modes, Usable(c, p),
               MemoValue(memos[c][p]).flags \subseteq MemoValue(memos[j][o]).flags
        PROVE  Current(c, p)' /\ memos'[c][p] = memos[c][p]
    <3>1. memos'[c][p] = memos[c][p]
      BY <1>1, <1>2, <1>7, <2>1, <2>2, Advancing DEF Usable
    <3> QED
      BY <1>3, <2>2, <3>1 DEF Usable, Current
  <2> QED
    BY <1>2, <2>1, <2>2, StillStays
<1>10. Steady /\ NoneNew
  BY <1>2, <1>9 DEF Steady, NoneNew, Usable, Nodes
<1> QED
  BY <1>5, <1>8, <1>10, SteadyFollows
-----------------------------------------------------------------------------
(* The graph and its edges *)

\* One buffer for each owner.
LEMMA Owned == StringsAreMadeOnce <=>
    /\ Len(strings) = Cardinality(Owners)
    /\ \A i, j \in Nodes :
          i # j /\ graph[i].joined /\ (graph[j].joined \/ graph[j].kind = "STRING")
              => graph[i].extra # graph[j].extra
    /\ LiveBytes <= LiveMax
BY DEF StringsAreMadeOnce, Owners

\* Only a reference looks at the definitions and only an address at the prefixes.
LEMMA OperandsOf ==
    ASSUME NEW n, NEW bnd, NEW pre, NEW bnd2, NEW pre2,
           n.kind = "REFERENCE" => bnd2[n.left] = bnd[n.left],
           n.kind = "ADDRESS" => pre2[n.left] = pre[n.left]
    PROVE  Operands(n, bnd2, pre2) = Operands(n, bnd, pre)
<1>1. CASE n.kind = "REFERENCE"
  BY <1>1 DEF Operands, LiteralKinds, PairKinds
<1>2. CASE n.kind = "ADDRESS"
  BY <1>2 DEF Operands, LiteralKinds, PairKinds
<1>3. CASE n.kind \notin {"REFERENCE", "ADDRESS"}
  BY <1>3 DEF Operands
<1> QED
  BY <1>1, <1>2, <1>3

\* A reference has its definition as operand, an address its prefix.
LEMMA ReferenceOperands ==
    ASSUME NEW n, NEW bnd, NEW pre
    PROVE  /\ n.kind = "REFERENCE" => Operands(n, bnd, pre) = {bnd[n.left]} \ {0}
           /\ n.kind = "ADDRESS" => Operands(n, bnd, pre) = {pre[n.left]} \ {0}
<1>1. CASE n.kind = "REFERENCE"
  BY <1>1 DEF Operands, LiteralKinds, PairKinds
<1>2. CASE n.kind = "ADDRESS"
  BY <1>2 DEF Operands, LiteralKinds, PairKinds
<1> QED
  BY <1>1, <1>2

\* Edges that are made anew are complete.
LEMMA EdgesTyped ==
    ASSUME NEW g, NEW bnd, NEW pre, Len(g) \in Nat, Len(g) <= NodeLimit,
           \A i \in 1..Len(g) : Operands(g[i], bnd, pre) \subseteq 1..Len(g)
    PROVE  /\ EdgesOf(g, bnd, pre) \in [NodeRange -> SUBSET (1..Len(g))]
           /\ \A i \in 1..Len(g) : \A c \in Operands(g[i], bnd, pre) : i \in EdgesOf(g, bnd, pre)[c]
<1>1. \A c \in 1..Len(g) : c \in NodeRange
  BY GraphAssumption DEF NodeRange
<1> QED
  BY <1>1 DEF EdgesOf

\* A binding links the references of the definition to its expression.
LEMMA BindGraph ==
    ASSUME GraphInv, SpanInv, StringInv, NEW d \in Definitions, NEW e \in Nodes, Bind(d, e)
    PROVE  GraphInv' /\ SpanInv' /\ StringInv'
<1>1. /\ unit' = unit /\ graph' = graph /\ strings' = strings /\ prefix' = prefix /\ placed' = placed
      /\ references' = references /\ users' = users
      /\ bound' = [bound EXCEPT ![d] = e] /\ bound[d] = 0
      /\ parents' = [parents EXCEPT ![e] = @ \cup references[d]]
  BY DEF Bind
<1>2. e \in NodeRange
  BY NodeFields
<1>3. /\ Nodes' = Nodes /\ bound' \in [Definitions -> {0} \cup Nodes]
      /\ \A x \in Definitions : bound'[x] = IF x = d THEN e ELSE bound[x]
  BY <1>1 DEF GraphInv, Nodes
<1>4. references[d] = {i \in Nodes : graph[i].kind = "REFERENCE" /\ graph[i].left = d}
  BY DEF GraphInv, UsersIn, Nodes
<1>5. /\ parents' \in [NodeRange -> SUBSET Nodes]
      /\ \A c \in NodeRange : parents[c] \subseteq parents'[c]
      /\ references[d] \subseteq parents'[e]
  BY <1>1, <1>2, <1>4 DEF GraphInv
<1>6. ASSUME NEW i \in Nodes
      PROVE  /\ Operands(graph[i], bound', prefix) \subseteq Nodes
             /\ \A c \in Operands(graph[i], bound', prefix) : i \in parents'[c]
  <2>1. graph[i].kind = "REFERENCE" => graph[i].left \in Definitions
    BY NodeFields DEF Built
  <2>2. CASE graph[i].kind = "REFERENCE" /\ graph[i].left = d
    <3>1. Operands(graph[i], bound', prefix) = {e} \ {0}
      BY <1>3, <2>2, ReferenceOperands
    <3> QED
      BY <1>4, <1>5, <2>2, <3>1
  <2>3. CASE ~(graph[i].kind = "REFERENCE" /\ graph[i].left = d)
    <3>1. Operands(graph[i], bound', prefix) = Operands(graph[i], bound, prefix)
      <4>1. graph[i].kind = "REFERENCE" => bound'[graph[i].left] = bound[graph[i].left]
        BY <1>3, <2>1, <2>3
      <4> QED
        BY <4>1, OperandsOf
    <3>2. Operands(graph[i], bound, prefix) \subseteq Nodes
          /\ \A c \in Operands(graph[i], bound, prefix) : i \in parents[c]
      BY DEF GraphInv, EdgesAreComplete
    <3>3. \A c \in Nodes : c \in NodeRange
      BY NodeFields
    <3> QED
      BY <1>5, <3>1, <3>2, <3>3
  <2> QED
    BY <2>2, <2>3
<1>7. GraphInv'
  <2>1. \A i \in Nodes : Built(graph[i])'
    BY <1>1, NodeFields DEF Built
  <2>2. EdgesAreComplete'
    BY <1>1, <1>3, <1>6 DEF EdgesAreComplete
  <2> QED
    BY <1>1, <1>3, <1>5, <1>6, <2>1, <2>2 DEF GraphInv
<1>8. SpanInv'
  <2>1. ASSUME NEW i \in Nodes, AddressLeaf(i) PROVE AddressLeaf(i)'
    <3> SUFFICES ASSUME NEW s \in SUBSET Nodes,
                        \A j \in Nodes : \/ graph[j].kind = "ADDRESS"
                                         \/ graph[j].kind = "REFERENCE" /\ bound'[graph[j].left] \in s
                                         => j \in s
                 PROVE  i \in s
      BY <1>1, <1>3 DEF AddressLeaf
    <3>1. ASSUME NEW j \in Nodes, graph[j].kind = "REFERENCE", bound[graph[j].left] \in s
          PROVE  bound'[graph[j].left] = bound[graph[j].left]
      <4>1. graph[j].left \in Definitions
        BY <3>1, NodeFields DEF Built
      <4>2. graph[j].left # d
        BY <1>1, <3>1 DEF Nodes
      <4> QED
        BY <1>3, <4>1, <4>2
    <3> QED
      BY <2>1, <3>1 DEF AddressLeaf
  <2>2. ASSUME NEW i \in Nodes, graph[i].kind = "SPAN"
        PROVE  graph[i].left \in Nodes /\ graph[i].right \in Nodes
    BY <2>2, NodeFields DEF Operands, LiteralKinds, PairKinds
  <2>3. ASSUME NEW i \in Nodes, graph[i].kind = "SPAN"
        PROVE  AddressLeaf(graph[i].left)' /\ AddressLeaf(graph[i].right)'
    <3>1. PICK l : l = graph[i].left
      OBVIOUS
    <3>2. PICK r : r = graph[i].right
      OBVIOUS
    <3>3. AddressLeaf(l)' /\ AddressLeaf(r)'
      BY <2>1, <2>2, <2>3, <3>1, <3>2 DEF SpanInv
    <3> QED
      BY <1>1, <3>1, <3>2, <3>3
  <2> QED
    BY <1>1, <1>3, <2>3 DEF SpanInv
<1>9. StringInv'
  <2>1. Owners' = Owners /\ Nodes' = Nodes /\ LiveBytes' = LiveBytes
    BY <1>1 DEF Owners, Nodes, LiveBytes
  <2>2. StringsAreMadeOnce' <=> StringsAreMadeOnce
    BY <1>1, <2>1 DEF StringsAreMadeOnce
  <2> QED
    BY <1>1, <2>1, <2>2 DEF StringInv
<1> QED
  BY <1>7, <1>8, <1>9

\* A placement leaves the graph alone.
LEMMA PlaceGraph ==
    ASSUME GraphInv, SpanInv, StringInv, NEW a \in Anchors, NEW where \in Addresses \cup {Unplaced},
           Place(a, where)
    PROVE  GraphInv' /\ SpanInv' /\ StringInv'
<1>1. /\ unit' = unit /\ graph' = graph /\ strings' = strings /\ prefix' = prefix /\ bound' = bound
      /\ references' = references /\ users' = users /\ parents' = parents
      /\ placed' = [placed EXCEPT ![a] = where]
  BY DEF Place, structure
<1>2. placed' \in [Anchors -> Addresses \cup {Unplaced}]
  BY <1>1 DEF GraphInv
<1>3. GraphInv'
  BY <1>1, <1>2 DEF GraphInv, EdgesAreComplete, Nodes, Built
<1>4. SpanInv'
  BY <1>1 DEF SpanInv, AddressLeaf, Nodes
<1>5. StringInv'
  BY <1>1 DEF StringInv, StringsAreMadeOnce, Owners, Nodes, LiveBytes
<1> QED
  BY <1>3, <1>4, <1>5

\* A prefix is linked to the addresses of its anchor.
LEMMA PrefixGraph ==
    ASSUME GraphInv, SpanInv, StringInv, NEW a \in Anchors, NEW e \in Nodes, SetPrefix(a, e)
    PROVE  GraphInv' /\ SpanInv' /\ StringInv'
<1>1. /\ unit' = unit /\ graph' = graph /\ strings' = strings /\ bound' = bound /\ placed' = placed
      /\ references' = references /\ users' = users
      /\ prefix' = [prefix EXCEPT ![a] = e]
      /\ parents' = [parents EXCEPT ![e] = @ \cup users[a]]
  BY DEF SetPrefix
<1>2. e \in NodeRange
  BY NodeFields
<1>3. /\ Nodes' = Nodes /\ prefix' \in [Anchors -> {0} \cup Nodes]
      /\ \A x \in Anchors : prefix'[x] = IF x = a THEN e ELSE prefix[x]
  BY <1>1 DEF GraphInv, Nodes
<1>4. users[a] = {i \in Nodes : graph[i].kind = "ADDRESS" /\ graph[i].left = a}
  BY DEF GraphInv, UsersIn, Nodes
<1>5. /\ parents' \in [NodeRange -> SUBSET Nodes]
      /\ \A c \in NodeRange : parents[c] \subseteq parents'[c]
      /\ users[a] \subseteq parents'[e]
  BY <1>1, <1>2, <1>4 DEF GraphInv
<1>6. ASSUME NEW i \in Nodes
      PROVE  /\ Operands(graph[i], bound, prefix') \subseteq Nodes
             /\ \A c \in Operands(graph[i], bound, prefix') : i \in parents'[c]
  <2>1. graph[i].kind = "ADDRESS" => graph[i].left \in Anchors
    BY NodeFields DEF Built
  <2>2. CASE graph[i].kind = "ADDRESS" /\ graph[i].left = a
    <3>1. Operands(graph[i], bound, prefix') = {e} \ {0}
      BY <1>3, <2>2, ReferenceOperands
    <3> QED
      BY <1>4, <1>5, <2>2, <3>1
  <2>3. CASE ~(graph[i].kind = "ADDRESS" /\ graph[i].left = a)
    <3>1. Operands(graph[i], bound, prefix') = Operands(graph[i], bound, prefix)
      <4>1. graph[i].kind = "ADDRESS" => prefix'[graph[i].left] = prefix[graph[i].left]
        BY <1>3, <2>1, <2>3
      <4> QED
        BY <4>1, OperandsOf
    <3>2. Operands(graph[i], bound, prefix) \subseteq Nodes
          /\ \A c \in Operands(graph[i], bound, prefix) : i \in parents[c]
      BY DEF GraphInv, EdgesAreComplete
    <3>3. \A c \in Nodes : c \in NodeRange
      BY NodeFields
    <3> QED
      BY <1>5, <3>1, <3>2, <3>3
  <2> QED
    BY <2>2, <2>3
<1>7. GraphInv'
  <2>1. \A i \in Nodes : Built(graph[i])'
    BY <1>1, NodeFields DEF Built
  <2>2. EdgesAreComplete'
    BY <1>1, <1>3, <1>6 DEF EdgesAreComplete
  <2> QED
    BY <1>1, <1>3, <1>5, <1>6, <2>1, <2>2 DEF GraphInv
<1>8. SpanInv'
  BY <1>1 DEF SpanInv, AddressLeaf, Nodes
<1>9. StringInv'
  BY <1>1 DEF StringInv, StringsAreMadeOnce, Owners, Nodes, LiveBytes
<1> QED
  BY <1>7, <1>8, <1>9

\* A node that is appended is linked to its operands.
LEMMA AppendGraph ==
    ASSUME GraphInv, SpanInv, StringInv, NEW n \in unit.late, AppendNode(n)
    PROVE  GraphInv' /\ SpanInv' /\ StringInv'
<1> DEFINE next == Len(graph) + 1
           ops == Operands(n, bound, prefix)
<1>1. /\ unit' = unit /\ strings' = strings /\ bound' = bound /\ prefix' = prefix /\ placed' = placed
      /\ graph' = Append(graph, n) /\ Len(graph) < NodeLimit
      /\ ops \subseteq Nodes
      /\ parents' = [c \in NodeRange |-> IF c \in ops THEN parents[c] \cup {next} ELSE parents[c]]
      /\ references' = IF n.kind = "REFERENCE"
                       THEN [references EXCEPT ![n.left] = @ \cup {next}] ELSE references
      /\ users' = IF n.kind = "ADDRESS"
                  THEN [users EXCEPT ![n.left] = @ \cup {next}] ELSE users
  BY DEF AppendNode
<1>2. /\ n \in NodeType /\ n.kind # "SPAN" /\ ~n.joined /\ n.kind # "STRING" /\ Built(n)
      /\ n.kind = "REFERENCE" => n.left \in Definitions
      /\ n.kind = "ADDRESS" => n.left \in Anchors
  <2>1. Buildable(n) /\ n.kind # "STRING"
    BY BuilderAssumption DEF GraphInv
  <2> QED
    BY <2>1 DEF Buildable, Built
<1> HIDE DEF ops
<1>3. /\ graph \in Seq(NodeType) /\ Len(graph) \in Nat /\ NodeLimit \in Nat
      /\ Len(graph) <= NodeLimit
  BY GraphAssumption DEF GraphInv
<1>4. /\ graph' \in Seq(NodeType) /\ Len(graph') = next /\ next <= NodeLimit
      /\ \A i \in 1..Len(graph) : graph'[i] = graph[i]
      /\ graph'[next] = n
  BY <1>1, <1>2, <1>3
<1>5. Nodes' = Nodes \cup {next} /\ next \notin Nodes /\ next \in NodeRange
      /\ \A i \in Nodes : graph'[i] = graph[i]
  BY <1>3, <1>4 DEF Nodes, NodeRange
<1> HIDE DEF next
<1>6. parents' \in [NodeRange -> SUBSET Nodes']
  BY <1>1, <1>5 DEF GraphInv
<1>7. ASSUME NEW kind, NEW ids, NEW table, table = UsersIn(graph, kind, ids),
             n.kind = kind => n.left \in ids
      PROVE  UsersIn(graph', kind, ids) =
                 IF n.kind = kind THEN [table EXCEPT ![n.left] = @ \cup {next}] ELSE table
  <2>1. UsersIn(graph', kind, ids) = [x \in ids |-> {i \in Nodes' : graph'[i].kind = kind /\ graph'[i].left = x}]
    BY DEF UsersIn, Nodes
  <2>2. table = [x \in ids |-> {i \in Nodes : graph[i].kind = kind /\ graph[i].left = x}]
    BY <1>7 DEF UsersIn, Nodes
  <2>3. ASSUME NEW x \in ids
        PROVE  {i \in Nodes' : graph'[i].kind = kind /\ graph'[i].left = x} =
                   IF n.kind = kind /\ n.left = x
                   THEN {i \in Nodes : graph[i].kind = kind /\ graph[i].left = x} \cup {next}
                   ELSE {i \in Nodes : graph[i].kind = kind /\ graph[i].left = x}
    BY <1>4, <1>5
  <2>4. CASE n.kind = kind
    <3>1. UsersIn(graph', kind, ids) = [x \in ids |-> IF n.left = x THEN table[x] \cup {next} ELSE table[x]]
      BY <2>1, <2>2, <2>3, <2>4
    <3> QED
      BY <1>7, <2>2, <2>4, <3>1
  <2>5. CASE n.kind # kind
    BY <2>1, <2>2, <2>3, <2>5
  <2> QED
    BY <2>4, <2>5
<1>8. references' = UsersIn(graph', "REFERENCE", Definitions)
  BY <1>1, <1>2, <1>7 DEF GraphInv
<1>9. users' = UsersIn(graph', "ADDRESS", Anchors)
  BY <1>1, <1>2, <1>7 DEF GraphInv
<1>10. ASSUME NEW i \in Nodes'
       PROVE  /\ Built(graph'[i]) /\ Operands(graph'[i], bound, prefix) \subseteq Nodes'
              /\ \A c \in Operands(graph'[i], bound, prefix) : i \in parents'[c]
  <2>1. \A c \in Nodes : c \in NodeRange
    BY NodeFields
  <2>2. CASE i \in Nodes
    <3>1. /\ Built(graph[i]) /\ Operands(graph[i], bound, prefix) \subseteq Nodes
          /\ \A c \in Operands(graph[i], bound, prefix) : i \in parents[c]
      BY <2>2 DEF GraphInv, EdgesAreComplete
    <3>2. graph'[i] = graph[i]
      BY <1>5, <2>2
    <3>3. \A c \in Nodes : parents[c] \subseteq parents'[c]
      BY <1>1, <2>1
    <3> QED
      BY <1>5, <3>1, <3>2, <3>3
  <2>3. CASE i = next
    <3>1. \A c \in ops : next \in parents'[c]
      BY <1>1, <2>1
    <3> QED
      BY <1>1, <1>2, <1>4, <1>5, <2>3, <3>1 DEF ops
  <2> QED
    BY <1>5, <2>2, <2>3
<1>11. GraphInv'
  <2>1. EdgesAreComplete'
    BY <1>1, <1>10 DEF EdgesAreComplete
  <2>2. bound' \in [Definitions -> {0} \cup Nodes'] /\ prefix' \in [Anchors -> {0} \cup Nodes']
    BY <1>1, <1>5 DEF GraphInv
  <2>3. \A i \in Nodes' : Built(graph[i])' /\ Operands(graph'[i], bound', prefix') \subseteq Nodes'
    BY <1>1, <1>10 DEF Built
  <2> QED
    BY <1>1, <1>4, <1>6, <1>8, <1>9, <2>1, <2>2, <2>3 DEF GraphInv
<1>12. SpanInv'
  <2>1. ASSUME NEW i \in Nodes, AddressLeaf(i) PROVE AddressLeaf(i)'
    <3> SUFFICES ASSUME NEW s \in SUBSET Nodes',
                        \A j \in Nodes' : \/ graph'[j].kind = "ADDRESS"
                                          \/ graph'[j].kind = "REFERENCE" /\ bound[graph'[j].left] \in s
                                          => j \in s
                 PROVE  i \in s
      BY <1>1 DEF AddressLeaf
    <3>1. s \cap Nodes \in SUBSET Nodes
      OBVIOUS
    <3>2. \A j \in Nodes : \/ graph[j].kind = "ADDRESS"
                           \/ graph[j].kind = "REFERENCE" /\ bound[graph[j].left] \in s \cap Nodes
                           => j \in s \cap Nodes
      BY <1>5
    <3>3. i \in s \cap Nodes
      BY <2>1, <3>1, <3>2 DEF AddressLeaf
    <3> QED
      BY <3>3
  <2>2. ASSUME NEW i \in Nodes', graph'[i].kind = "SPAN"
        PROVE  AddressLeaf(graph[i].left)' /\ AddressLeaf(graph[i].right)'
    <3>1. i \in Nodes /\ graph'[i] = graph[i] /\ graph[i].kind = "SPAN"
      BY <1>2, <1>4, <1>5, <2>2
    <3>2. PICK l : l = graph[i].left
      OBVIOUS
    <3>3. PICK r : r = graph[i].right
      OBVIOUS
    <3>4. l \in Nodes /\ r \in Nodes
      BY <3>1, <3>2, <3>3, NodeFields DEF Operands, LiteralKinds, PairKinds
    <3>5. AddressLeaf(l)' /\ AddressLeaf(r)'
      BY <2>1, <3>1, <3>2, <3>3, <3>4 DEF SpanInv
    <3> QED
      BY <3>1, <3>2, <3>3, <3>5
  <2> QED
    BY <2>2 DEF SpanInv
<1>13. StringInv'
  <2>1. Owners' = Owners
    <3>1. ASSUME NEW i \in Nodes' PROVE graph'[i].kind = "STRING" \/ graph'[i].joined => i \in Nodes
      BY <1>2, <1>4, <1>5
    <3> QED
      BY <1>5, <3>1 DEF Owners
  <2>2. \A i \in Owners : i \in Nodes /\ graph'[i] = graph[i]
    BY <1>5 DEF Owners
  <2>3. ASSUME NEW i \in Nodes', NEW j \in Nodes', i # j, graph'[i].joined,
               graph'[j].joined \/ graph'[j].kind = "STRING"
        PROVE  graph'[i].extra # graph'[j].extra
    <3>1. i \in Owners' /\ j \in Owners'
      BY <2>3 DEF Owners
    <3>2. i \in Nodes /\ j \in Nodes /\ graph'[i] = graph[i] /\ graph'[j] = graph[j]
      BY <2>1, <2>2, <3>1
    <3> QED
      BY <2>3, <3>2 DEF StringInv, StringsAreMadeOnce
  <2>4. LiveBytes' = LiveBytes
    BY <1>1 DEF LiveBytes
  <2>5. Len(strings) = Cardinality(Owners) /\ LiveBytes <= LiveMax
    BY DEF StringInv, StringsAreMadeOnce, Owners
  <2>6. StringsAreMadeOnce'
    <3>1. Len(strings') = Cardinality({i \in Nodes' : graph'[i].kind = "STRING" \/ graph'[i].joined})
      BY <1>1, <2>1, <2>5 DEF Owners
    <3>2. LiveBytes' <= LiveMax
      BY <2>4, <2>5
    <3> QED
      BY <2>3, <3>1, <3>2 DEF StringsAreMadeOnce
  <2> QED
    BY <1>1, <2>1, <2>2, <2>6 DEF StringInv
<1> QED
  BY <1>11, <1>12, <1>13

\* Lowering rewrites differences only, and links every edge anew.
LEMMA LowerGraph ==
    ASSUME GraphInv, SpanInv, StringInv, NEW which,
           \A i \in Differences : which[i] \in {0} \cup Nodes, LowerSpans(which)
    PROVE  /\ GraphInv' /\ SpanInv' /\ StringInv'
           /\ Nodes' = Nodes /\ \A i \in Nodes \ Differences : graph'[i] = graph[i]
<1> DEFINE changed == {i \in Differences : which[i] # 0}
           span(i) == [graph[i] EXCEPT !.kind = "SPAN", !.extra = which[i]]
<1>1. /\ unit' = unit /\ strings' = strings /\ bound' = bound /\ prefix' = prefix /\ placed' = placed
      /\ graph' = [i \in Nodes |-> IF i \in changed THEN span(i) ELSE graph[i]]
      /\ parents' = EdgesOf(graph', bound, prefix)
      /\ references' = UsersIn(graph', "REFERENCE", Definitions)
      /\ users' = UsersIn(graph', "ADDRESS", Anchors)
  BY DEF LowerSpans
<1>2. \A i \in Differences :
          i \in Nodes /\ graph[i].kind = "BINARY" /\ graph[i].op = "SUBTRACT"
          /\ AddressLeaf(graph[i].left) /\ AddressLeaf(graph[i].right)
  BY DEF Differences
<1>3. ASSUME NEW i \in changed
      PROVE  /\ i \in Nodes /\ span(i) \in NodeType /\ span(i).kind = "SPAN" /\ span(i).op = "SUBTRACT"
             /\ span(i).left = graph[i].left /\ span(i).right = graph[i].right
             /\ span(i).extra = which[i] /\ which[i] \in Nodes
             /\ span(i).joined = graph[i].joined /\ ~graph[i].joined
             /\ graph[i].kind = "BINARY"
  <2>1. i \in Nodes /\ graph[i].kind = "BINARY" /\ graph[i].op = "SUBTRACT" /\ which[i] \in Nodes
    BY <1>2
  <2>2. graph[i] \in NodeType /\ Built(graph[i]) /\ graph[i].joined \in BOOLEAN
    BY <2>1, NodeFields
  <2>3. ~graph[i].joined
    BY <2>1, <2>2 DEF Built
  <2>4. which[i] \in Int
    BY <2>1 DEF Nodes
  <2>5. /\ span(i) \in NodeType /\ span(i).kind = "SPAN" /\ span(i).op = graph[i].op
        /\ span(i).left = graph[i].left /\ span(i).right = graph[i].right
        /\ span(i).extra = which[i] /\ span(i).joined = graph[i].joined
    <3>1. PICK n, x : n = graph[i] /\ x = which[i]
      OBVIOUS
    <3>2. LET t == [n EXCEPT !.kind = "SPAN", !.extra = x]
          IN  /\ t \in NodeType /\ t.kind = "SPAN" /\ t.op = n.op /\ t.left = n.left
              /\ t.right = n.right /\ t.extra = x /\ t.joined = n.joined
      <4>1. n \in NodeType /\ x \in Int
        BY <2>2, <2>4, <3>1
      <4> QED
        BY <4>1, LoweredNode
    <3> QED
      BY <3>1, <3>2
  <2> HIDE DEF span
  <2> QED
    BY <2>1, <2>2, <2>3, <2>5
<1>4. changed \subseteq Differences /\ Differences \subseteq Nodes
  BY <1>2
<1> HIDE DEF changed, span
<1>5. Len(graph) \in Nat /\ Len(graph) <= NodeLimit /\ graph \in [Nodes -> NodeType]
  BY DEF GraphInv, Nodes
<1>6. graph' \in [Nodes -> NodeType]
  BY <1>1, <1>3, <1>5
<1>7. graph' \in Seq(NodeType) /\ Len(graph') = Len(graph) /\ Nodes' = Nodes
  BY <1>5, <1>6 DEF Nodes
<1>8. \A i \in Nodes : graph'[i] = IF i \in changed THEN span(i) ELSE graph[i]
  BY <1>1
<1>9. ASSUME NEW i \in Nodes
      PROVE  Built(graph'[i]) /\ Operands(graph'[i], bound, prefix) \subseteq Nodes
  <2>1. Built(graph[i]) /\ Operands(graph[i], bound, prefix) \subseteq Nodes
    BY NodeFields
  <2>2. CASE i \in changed
    <3>1. /\ graph'[i].kind = "SPAN" /\ graph'[i].op = "SUBTRACT" /\ graph'[i].left = graph[i].left
          /\ graph'[i].right = graph[i].right /\ graph'[i].extra \in Nodes /\ ~graph'[i].joined
          /\ graph[i].kind = "BINARY"
      BY <1>3, <1>8, <2>2
    <3>2. graph[i].left \in Nodes /\ graph[i].right \in Nodes
      BY <2>1, <3>1 DEF Operands, LiteralKinds, PairKinds
    <3>3. Operands(graph'[i], bound, prefix) \subseteq Nodes
      BY <3>1, <3>2 DEF Operands, LiteralKinds, PairKinds
    <3>4. Built(graph'[i])
      BY <3>1 DEF Built, Operators
    <3> QED
      BY <3>3, <3>4
  <2>3. CASE i \notin changed
    BY <1>8, <2>1, <2>3
  <2> QED
    BY <2>2, <2>3
<1>10. GraphInv'
  <2>1. /\ parents' \in [NodeRange -> SUBSET Nodes]
        /\ \A i \in Nodes : \A c \in Operands(graph'[i], bound, prefix) : i \in parents'[c]
    BY <1>1, <1>5, <1>7, <1>9, EdgesTyped DEF Nodes
  <2>2. EdgesAreComplete'
    BY <1>1, <1>7, <2>1 DEF EdgesAreComplete
  <2>3. \A i \in Nodes : Built(graph[i])'
    BY <1>9 DEF Built
  <2> QED
    BY <1>1, <1>5, <1>7, <1>9, <2>1, <2>2, <2>3 DEF GraphInv
<1>11. SpanInv'
  <2>1. ASSUME NEW i, AddressLeaf(i) PROVE AddressLeaf(i)'
    <3>1. \A j \in Nodes : /\ graph'[j].left = graph[j].left
                           /\ graph'[j].kind = "ADDRESS" <=> graph[j].kind = "ADDRESS"
                           /\ graph'[j].kind = "REFERENCE" <=> graph[j].kind = "REFERENCE"
      BY <1>3, <1>8
    <3> QED
      BY <1>1, <1>7, <2>1, <3>1 DEF AddressLeaf
  <2>2. ASSUME NEW i \in Nodes, graph'[i].kind = "SPAN"
        PROVE  AddressLeaf(graph[i].left)' /\ AddressLeaf(graph[i].right)'
    <3>1. PICK l : l = graph[i].left
      OBVIOUS
    <3>2. PICK r : r = graph[i].right
      OBVIOUS
    <3>3. graph'[i].left = l /\ graph'[i].right = r
      BY <1>3, <1>8, <3>1, <3>2
    <3>4. AddressLeaf(l) /\ AddressLeaf(r)
      <4>1. CASE i \in changed
        BY <1>2, <1>4, <3>1, <3>2, <4>1
      <4>2. CASE i \notin changed
        BY <1>8, <2>2, <3>1, <3>2, <4>2 DEF SpanInv
      <4> QED
        BY <4>1, <4>2
    <3>5. AddressLeaf(l)' /\ AddressLeaf(r)'
      BY <2>1, <3>4
    <3> QED
      BY <3>3, <3>5
  <2> QED
    BY <1>7, <2>2 DEF SpanInv
<1>12. StringInv'
  <2>1. \A i \in Nodes : /\ graph'[i].joined = graph[i].joined
                         /\ graph'[i].kind = "STRING" <=> graph[i].kind = "STRING"
                         /\ graph[i].joined \/ graph[i].kind = "STRING" => graph'[i] = graph[i]
    BY <1>3, <1>8
  <2>2. Owners' = Owners
    BY <1>7, <2>1 DEF Owners
  <2>3. \A i \in Owners : graph'[i] = graph[i] /\ i \in Nodes
    BY <2>1 DEF Owners
  <2>4. LiveBytes' = LiveBytes
    BY <1>1 DEF LiveBytes
  <2>5. Len(strings) = Cardinality(Owners) /\ LiveBytes <= LiveMax
    BY DEF StringInv, StringsAreMadeOnce, Owners
  <2>6. StringsAreMadeOnce'
    <3>1. Len(strings') = Cardinality({i \in Nodes' : graph'[i].kind = "STRING" \/ graph'[i].joined})
      BY <1>1, <2>2, <2>5 DEF Owners
    <3>2. LiveBytes' <= LiveMax
      BY <2>4, <2>5
    <3>3. ASSUME NEW i \in Nodes, NEW j \in Nodes, i # j, graph'[i].joined,
                 graph'[j].joined \/ graph'[j].kind = "STRING"
          PROVE  graph'[i].extra # graph'[j].extra
      <4>1. graph'[i] = graph[i] /\ graph'[j] = graph[j]
        BY <2>1, <3>3
      <4> QED
        BY <3>3, <4>1 DEF StringInv, StringsAreMadeOnce
    <3> QED
      BY <1>7, <3>1, <3>2, <3>3 DEF StringsAreMadeOnce
  <2> QED
    BY <1>1, <2>2, <2>3, <2>6 DEF StringInv
<1>13. \A i \in Nodes \ Differences : graph'[i] = graph[i]
  BY <1>4, <1>8
<1> QED
  BY <1>7, <1>10, <1>11, <1>12, <1>13

\* What a frontend builds satisfies the invariant.
LEMMA InitInv == Init => ValueInv
<1> SUFFICES ASSUME Init PROVE ValueInv
  OBVIOUS
<1> USE DEF Init
<1>1. /\ unit \in Units /\ graph = unit.nodes /\ strings = unit.strings
      /\ bound = NoneBound /\ prefix = NoPrefix
  OBVIOUS
<1>2. /\ graph \in Seq(NodeType) /\ Len(graph) <= NodeLimit /\ Len(graph) \in Nat
      /\ \A i \in Nodes : /\ Buildable(graph[i]) /\ Operands(graph[i], bound, prefix) \subseteq Nodes
                          /\ graph[i].kind = "STRING" => graph[i].extra \in DOMAIN strings
      /\ strings \in Seq(Buffer)
      /\ Len(strings) = Cardinality({i \in Nodes : graph[i].kind = "STRING"})
      /\ LiveBytes <= LiveMax
  <2>1. /\ graph \in Seq(NodeType) /\ Len(graph) <= NodeLimit
        /\ \A i \in DOMAIN graph :
              /\ Buildable(graph[i]) /\ Operands(graph[i], bound, prefix) \subseteq DOMAIN graph
              /\ graph[i].kind = "STRING" => graph[i].extra \in DOMAIN strings
        /\ strings \in Seq(Seq(Int))
        /\ Len(strings) = Cardinality({i \in DOMAIN graph : graph[i].kind = "STRING"})
        /\ Cardinality(BytesIn(strings)) <= LiveMax
    BY <1>1, BuilderAssumption
  <2>2. DOMAIN graph = Nodes /\ Len(graph) \in Nat
    BY <2>1 DEF Nodes
  <2> QED
    BY <2>1, <2>2 DEF Buffer, LiveBytes
<1>3. \A i \in Nodes : Built(graph[i]) /\ ~graph[i].joined /\ graph[i].kind # "SPAN"
  BY <1>2 DEF Buildable, Built
<1>4. GraphInv
  <2>1. bound \in [Definitions -> {0} \cup Nodes] /\ prefix \in [Anchors -> {0} \cup Nodes]
    BY <1>1 DEF NoneBound, NoPrefix
  <2>2. parents = EdgesOf(graph, bound, prefix)
    OBVIOUS
  <2>3. parents \in [NodeRange -> SUBSET Nodes] /\ EdgesAreComplete
    <3>1. \A i \in 1..Len(graph) : Operands(graph[i], bound, prefix) \subseteq 1..Len(graph)
      BY <1>2 DEF Nodes
    <3>2. PICK g, b, p : g = graph /\ b = bound /\ p = prefix
      OBVIOUS
    <3>3. /\ EdgesOf(g, b, p) \in [NodeRange -> SUBSET (1..Len(g))]
          /\ \A i \in 1..Len(g) : \A c \in Operands(g[i], b, p) : i \in EdgesOf(g, b, p)[c]
      <4>1. Len(g) \in Nat /\ Len(g) <= NodeLimit
            /\ \A i \in 1..Len(g) : Operands(g[i], b, p) \subseteq 1..Len(g)
        BY <1>2, <3>1, <3>2
      <4> HIDE DEF Init
      <4> QED
        BY <4>1, EdgesTyped
    <3> HIDE DEF Init
    <3> QED
      BY <2>2, <3>2, <3>3 DEF Nodes, EdgesAreComplete
  <2> HIDE DEF Init
  <2>4. references = UsersIn(graph, "REFERENCE", Definitions) /\ users = UsersIn(graph, "ADDRESS", Anchors)
        /\ placed \in [Anchors -> Addresses \cup {Unplaced}]
    BY DEF Init
  <2> QED
    BY <1>1, <1>2, <1>3, <2>1, <2>3, <2>4 DEF GraphInv
<1>5. SpanInv
  BY <1>3 DEF SpanInv
<1>6. StringInv
  <2>1. Owners = {i \in Nodes : graph[i].kind = "STRING"}
    BY <1>3 DEF Owners
  <2>2. \A i \in Owners : graph[i].extra \in 1..Len(strings)
    BY <1>2, <2>1
  <2>3. StringsAreMadeOnce
    BY <1>2, <1>3, <2>1, Owned
  <2> QED
    BY <1>2, <2>2, <2>3 DEF StringInv
<1>7. NoMemo \in MemoType /\ "CACHED" \notin NoMemo.flags
      /\ NoMemo.flags = {} /\ NoMemo.state = "KNOWN" /\ NoMemo.kind = "INTEGER"
  <2>1. "NONE" \in Diagnostics
    BY DEF Diagnostics
  <2> QED
    BY <2>1 DEF NoMemo, MemoType, States
<1>8. \A i \in NodeRange : memos[i] = Missing /\ \A m \in Modes : memos[i][m] = NoMemo
  BY DEF Missing
<1>9. MemoInv
  <2>1. memos \in MemoTable
    BY <1>7 DEF MemoTable, Missing
  <2>2. versions \in Counters
    BY GraphAssumption DEF Counters
  <2> QED
    BY <1>7, <1>8, <2>1, <2>2 DEF MemoInv, MemoTable, Counters, PayloadIsUnambiguous, Stamped
<1>10. \A i \in Nodes, m \in Modes : ~Current(i, m)
  <2>1. \A i \in Nodes : i \in NodeRange
    BY <1>2, GraphAssumption DEF Nodes, NodeRange
  <2> QED
    BY <1>7, <1>8, <2>1 DEF Current
<1>11. FrameInv
  BY DEF FrameInv, Modes
<1>12. TwinInv /\ FollowInv
  BY <1>10 DEF TwinInv, FollowInv
<1> QED
  BY <1>4, <1>5, <1>6, <1>9, <1>11, <1>12, GraphAssumption DEF ValueInv, RunInv, CoreInv, Modes

\* Between queries no frame is left and nothing is being visited.
LEMMA IdleFrames ==
    ASSUME FrameInv, query = 0, stack' = stack, visiting' = visiting, query' = query, mode' = mode
    PROVE  FrameInv'
<1>1. stack = <<>> /\ mode \in Modes
  BY DEF FrameInv
<1>2. visiting = {}
  <2>1. {k \in 1..Len(stack) : stack[k].phase # 0} = {}
    BY <1>1
  <2> QED
    BY <2>1 DEF FrameInv
<1> QED
  BY <1>1, <1>2 DEF FrameInv

\* A request starts with one frame that was not entered.
LEMMA RequestFrames ==
    ASSUME FrameInv, NEW i \in Nodes, NEW m \in Modes, Request(i, m)
    PROVE  FrameInv'
<1>1. /\ query = 0 /\ mode' = m /\ query' = i /\ visiting' = visiting /\ graph' = graph
      /\ stack' = <<[id |-> i, phase |-> 0]>>
  BY DEF Request, Quiet, structure
<1>2. stack = <<>>
  BY <1>1 DEF FrameInv
<1>3. visiting = {}
  <2>1. {k \in 1..Len(stack) : stack[k].phase # 0} = {}
    BY <1>2
  <2> QED
    BY <2>1 DEF FrameInv
<1> DEFINE fr == [id |-> i, phase |-> 0]
<1>4. fr \in Frame /\ fr.phase = 0 /\ Nodes' = Nodes /\ Frame' = Frame
  BY <1>1 DEF Frame, Nodes
<1> HIDE DEF fr
<1>5. stack' = <<fr>>
  BY <1>1 DEF fr
<1>6. stack' \in Seq(Frame)' /\ Len(stack') = 1 /\ stack'[1] = fr
  BY <1>4, <1>5
<1>7. \A k \in 1..Len(stack') : k = 1 /\ stack'[k].phase = 0
  BY <1>4, <1>6
<1>8. i # 0
  BY DEF Nodes
<1>9. {stack'[k].id : k \in {k \in 1..Len(stack') : stack'[k].phase # 0}} = {}
  BY <1>7
<1> QED
  BY <1>1, <1>3, <1>4, <1>6, <1>7, <1>8, <1>9 DEF FrameInv
-----------------------------------------------------------------------------
(* The stack *)

\* The frame on top, and what is below it.
LEMMA TopFrame ==
    ASSUME FrameInv, stack # <<>>
    PROVE  /\ Len(stack) \in Nat \ {0} /\ Len(stack) \in 1..Len(stack)
           /\ Top = stack[Len(stack)] /\ Top \in Frame /\ Top.id \in Nodes /\ Top.phase \in 0..2
           /\ Popped \in Seq(Frame) /\ Len(Popped) = Len(stack) - 1
           /\ \A k \in 1..Len(stack) - 1 : Popped[k] = stack[k]
<1>1. stack \in Seq(Frame)
  BY DEF FrameInv
<1>2. Len(stack) \in Nat \ {0} /\ Len(stack) \in 1..Len(stack)
  BY <1>1, EmptySeq
<1>3. Top = stack[Len(stack)] /\ Top \in Frame
  BY <1>1, <1>2 DEF Top
<1>4. Top.id \in Nodes /\ Top.phase \in 0..2
  BY <1>3 DEF Frame
<1>5. /\ Popped \in Seq(Frame) /\ Len(Popped) = Len(stack) - 1
      /\ \A k \in 1..Len(stack) - 1 : Popped[k] = stack[k]
  <2> DEFINE last == Len(stack) - 1
  <2>1. last \in Nat /\ last \in Int /\ \A k \in 1..last : stack[k] \in Frame
    BY <1>1, <1>2
  <2>2. Popped = SubSeq(stack, 1, last)
    BY DEF Popped
  <2> HIDE DEF last
  <2>3. /\ SubSeq(stack, 1, last) \in Seq(Frame)
        /\ Len(SubSeq(stack, 1, last)) = IF 1 <= last THEN last - 1 + 1 ELSE 0
        /\ \A k \in 1..last - 1 + 1 : SubSeq(stack, 1, last)[k] = stack[1 + k - 1]
    BY <2>1, SubSeqProperties
  <2>4. Len(SubSeq(stack, 1, last)) = last /\ \A k \in 1..last : SubSeq(stack, 1, last)[k] = stack[k]
    BY <2>1, <2>3
  <2> QED
    BY <2>2, <2>3, <2>4 DEF last
<1> QED
  BY <1>2, <1>3, <1>4, <1>5

\* A frame that was entered has its first operand, and on its last leg the second.
LEMMA OperandsReady ==
    ASSUME FrameInv, GraphInv, stack # <<>>, Top.phase # 0
    PROVE  /\ ~IsLeaf(Here, mode)
           /\ Current(First(Here, mode), mode)
           /\ Top.phase = 2 => Current(Here.right, mode) /\ ~Redirected(Here, mode)
                               /\ Here.kind \in PairKinds
<1>1. /\ Len(stack) \in 1..Len(stack) /\ Top = stack[Len(stack)] /\ Top.phase \in 0..2
      /\ Top.id \in Nodes /\ mode \in Modes
  BY TopFrame DEF FrameInv
<1>2. /\ ~IsLeaf(Here, mode)
      /\ Top.phase = 1 => Awaits(Len(stack), First(Here, mode))
      /\ Top.phase = 2 =>
            /\ Here.kind \in PairKinds /\ ~Redirected(Here, mode)
            /\ Current(Here.left, mode) /\ Awaits(Len(stack), Here.right)
  BY <1>1 DEF FrameInv, Waits, Here
<1>3. Top.phase = 2 => First(Here, mode) = Here.left
  BY <1>1, <1>2, FirstOperand DEF Here
<1> QED
  BY <1>1, <1>2, <1>3 DEF Awaits

\* A frame that waits for an operand that is current, or that is pushed on top of it.
LEMMA WaitFrames ==
    ASSUME FrameInv, GraphInv, stack # <<>>, ~Current(Top.id, mode), ~IsLeaf(Here, mode), query # 0,
           NEW phase \in 1..2, NEW child \in Nodes,
           phase = 1 => child = First(Here, mode),
           phase = 2 => /\ child = Here.right /\ Here.kind \in PairKinds /\ ~Redirected(Here, mode)
                        /\ Current(Here.left, mode),
           graph' = graph, bound' = bound, prefix' = prefix, memos' = memos, versions' = versions,
           mode' = mode, query' = query, visiting' = visiting \cup {Top.id},
           \/ Current(child, mode) /\ stack' = [stack EXCEPT ![Len(stack)].phase = phase]
           \/ /\ child \notin visiting \cup {Top.id}
              /\ stack' = Append([stack EXCEPT ![Len(stack)].phase = phase], [id |-> child, phase |-> 0])
    PROVE  FrameInv'
<1> DEFINE L    == Len(stack)
           base == [stack EXCEPT ![Len(stack)].phase = phase]
           new  == [id |-> child, phase |-> 0]
<1>1. /\ L \in Nat \ {0} /\ L \in 1..L /\ Top = stack[L] /\ Top.id \in Nodes /\ stack \in Seq(Frame)
      /\ mode \in Modes
  BY TopFrame DEF FrameInv
<1>2. \A k \in 1..L : stack[k] \in Frame /\ stack[k].id \in Nodes /\ stack[k].phase \in 0..2
  <2>1. \A k \in 1..L : stack[k] \in Frame
    BY <1>1
  <2> QED
    BY <2>1 DEF Frame
<1>3. /\ base \in Seq(Frame) /\ Len(base) = L /\ base[L].id = stack[L].id /\ base[L].phase = phase
      /\ \A k \in 1..L : k # L => base[k] = stack[k]
  <2>1. base = [k \in 1..L |-> IF k = L THEN [stack[L] EXCEPT !.phase = phase] ELSE stack[k]]
    <3>1. DOMAIN stack = 1..L
      BY <1>1
    <3> QED
      BY <3>1, Zenon
  <2>2. [stack[L] EXCEPT !.phase = phase] = [id |-> stack[L].id, phase |-> phase]
    BY <1>1, <1>2 DEF Frame
  <2>3. [id |-> stack[L].id, phase |-> phase] \in Frame
    BY <1>1, <1>2 DEF Frame
  <2> HIDE DEF base
  <2>4. base \in [1..L -> Frame]
    BY <1>2, <2>1, <2>2, <2>3
  <2>5. base \in Seq(Frame) /\ Len(base) = L
    BY <1>1, <2>4
  <2> QED
    BY <1>1, <2>1, <2>2, <2>5
<1>4. new \in Frame /\ new.id = child /\ new.phase = 0
  BY DEF Frame
<1> HIDE DEF base, new
<1>5. \A k \in 1..L : /\ base[k].id = stack[k].id
                      /\ k # L => base[k].phase = stack[k].phase
  BY <1>3
<1>6. \/ Current(child, mode) /\ stack' = base
      \/ child \notin visiting \cup {Top.id} /\ stack' = Append(base, new)
  BY DEF base, new
<1>7. /\ stack' \in Seq(Frame) /\ \A k \in 1..L : stack'[k] = base[k]
      /\ \/ Current(child, mode) /\ Len(stack') = L
         \/ /\ child \notin visiting \cup {Top.id} /\ Len(stack') = L + 1
            /\ stack'[L + 1] = new
  <2>1. CASE Current(child, mode) /\ stack' = base
    BY <1>3, <2>1
  <2>2. CASE child \notin visiting \cup {Top.id} /\ stack' = Append(base, new)
    <3>1. /\ Append(base, new) \in Seq(Frame) /\ Len(Append(base, new)) = Len(base) + 1
          /\ \A k \in 1..Len(base) : Append(base, new)[k] = base[k]
          /\ Append(base, new)[Len(base) + 1] = new
      BY <1>3, <1>4, AppendProperties
    <3> QED
      BY <1>3, <2>2, <3>1
  <2> QED
    BY <1>6, <2>1, <2>2
<1>8. \A k \in 1..L - 1 : stack[k].phase # 0 /\ stack[k].id \in visiting
  BY <1>1 DEF FrameInv
<1>9. \A k, l \in 1..Len(stack') : stack'[k].id = stack'[l].id => k = l
  <2>1. \A k, l \in 1..L : stack[k].id = stack[l].id => k = l
    BY DEF FrameInv
  <2>2. \A k \in 1..L : k = L \/ k \in 1..L - 1
    BY <1>1
  <2>3. \A k \in 1..L : stack[k].id \in visiting \cup {Top.id}
    BY <1>1, <1>8, <2>2
  <2>4. CASE Len(stack') = L
    BY <1>5, <1>7, <2>1, <2>4
  <2>5. CASE child \notin visiting \cup {Top.id} /\ Len(stack') = L + 1 /\ stack'[L + 1] = new
    <3>1. \A k \in 1..L : stack'[k].id # stack'[L + 1].id
      BY <1>4, <1>5, <1>7, <2>3, <2>5
    <3>2. \A k \in 1..L + 1 : k \in 1..L \/ k = L + 1
      BY <1>1
    <3> QED
      BY <1>5, <1>7, <2>1, <2>5, <3>1, <3>2
  <2> QED
    BY <1>7, <2>4, <2>5
<1>10. \A k \in 1..Len(stack') : k \in 1..L \/ (k = L + 1 /\ stack'[k].phase = 0 /\ Len(stack') = L + 1)
  BY <1>1, <1>4, <1>7
<1>11. visiting' = {stack'[k].id : k \in {k \in 1..Len(stack') : stack'[k].phase # 0}}
  <2> DEFINE old == {stack[k].id : k \in {k \in 1..L : stack[k].phase # 0}}
             now == {stack'[k].id : k \in {k \in 1..Len(stack') : stack'[k].phase # 0}}
  <2>1. visiting = old
    BY DEF FrameInv
  <2>2. ASSUME NEW x \in now PROVE x \in old \cup {Top.id}
    <3>1. PICK k \in 1..Len(stack') : stack'[k].phase # 0 /\ x = stack'[k].id
      OBVIOUS
    <3>2. k \in 1..L
      BY <1>10, <3>1
    <3> QED
      BY <1>1, <1>5, <1>7, <3>1, <3>2
  <2>3. L \in 1..Len(stack') /\ stack'[L].phase # 0 /\ stack'[L].id = Top.id
    BY <1>1, <1>3, <1>7
  <2>4. ASSUME NEW x \in old \cup {Top.id} PROVE x \in now
    <3>1. CASE x = Top.id
      BY <2>3, <3>1
    <3>2. CASE x \in old /\ x # Top.id
      <4>1. PICK k \in 1..L : stack[k].phase # 0 /\ x = stack[k].id
        BY <3>2
      <4>2. k # L
        BY <1>1, <3>2, <4>1
      <4>3. k \in 1..Len(stack') /\ stack'[k].phase # 0 /\ x = stack'[k].id
        BY <1>1, <1>3, <1>7, <4>1, <4>2
      <4> QED
        BY <4>3
    <3> QED
      BY <2>4, <3>1, <3>2
  <2> QED
    BY <2>1, <2>2, <2>4
<1>12. ASSUME NEW k \in 1..Len(stack') - 1 PROVE stack'[k].phase # 0
  <2>1. k \in 1..L /\ (k = L \/ k \in 1..L - 1)
    BY <1>1, <1>7
  <2> QED
    BY <1>3, <1>7, <1>8, <2>1
<1>13. ASSUME NEW k \in 1..Len(stack'), stack'[k].phase # 0 PROVE Waits(k)'
  <2> DEFINE awaits(c) == IF k = Len(stack') THEN Current(c, mode) ELSE stack'[k + 1].id = c
  <2>1. k \in 1..L
    BY <1>10, <1>13
  <2>2. \A c : Current(c, mode)' <=> Current(c, mode)
    BY DEF Current
  <2>3. PICK n : n = graph[stack'[k].id]
    OBVIOUS
  <2>4. IsLeaf(n, mode)' = IsLeaf(n, mode) /\ First(n, mode)' = First(n, mode)
        /\ Redirected(n, mode)' = Redirected(n, mode)
    BY DEF IsLeaf, First, Redirected
  <2>5. \A c : Awaits(k, c)' <=> awaits(c)
    BY <2>2 DEF Awaits
  <2>6. SUFFICES /\ ~Current(stack'[k].id, mode) /\ ~IsLeaf(n, mode)
                 /\ stack'[k].phase = 1 => awaits(First(n, mode))
                 /\ stack'[k].phase = 2 =>
                       /\ n.kind \in PairKinds /\ ~Redirected(n, mode)
                       /\ Current(n.left, mode) /\ awaits(n.right)
    BY <2>2, <2>3, <2>4, <2>5 DEF Waits
  <2>7. CASE k = L
    <3>1. stack'[k].id = Top.id /\ stack'[k].phase = phase /\ n = Here
      BY <1>1, <1>3, <1>7, <2>3, <2>7 DEF Here
    <3>2. awaits(child)
      BY <1>1, <1>4, <1>7, <2>7
    <3> QED
      BY <3>1, <3>2
  <2>8. CASE k # L
    <3>1. k \in 1..L - 1 /\ k + 1 \in 1..L /\ k # Len(stack') /\ k # Len(stack)
      BY <1>1, <1>7, <2>1, <2>8
    <3>2. stack'[k] = stack[k] /\ stack'[k + 1].id = stack[k + 1].id
      BY <1>3, <1>5, <1>7, <2>1, <2>8, <3>1
    <3>3. \A c : awaits(c) <=> Awaits(k, c)
      BY <3>1, <3>2 DEF Awaits
    <3>4. Waits(k) /\ n = graph[stack[k].id]
      BY <1>13, <2>1, <2>3, <3>2 DEF FrameInv
    <3> HIDE DEF awaits
    <3> QED
      BY <3>2, <3>3, <3>4 DEF Waits
  <2> QED
    BY <2>7, <2>8
<1>14. Frame' = Frame /\ Nodes' = Nodes
  BY DEF Frame, Nodes
<1> QED
  BY <1>1, <1>7, <1>9, <1>11, <1>12, <1>13, <1>14 DEF FrameInv

\* A frame is done: what it was for is current now, and the frame below waited for it.
LEMMA PopFrames ==
    ASSUME FrameInv, GraphInv, stack # <<>>, query # 0,
           stack' = Popped, visiting' = visiting \ {Top.id}, mode' = mode, query' = query,
           Nodes' = Nodes, bound' = bound, prefix' = prefix,
           \A i \in Nodes : Alike(graph'[i], graph[i]),
           \A i \in Nodes : Current(i, mode)' <=> Current(i, mode) \/ i = Top.id
    PROVE  FrameInv'
<1> DEFINE L == Len(stack)
<1>1. /\ L \in Nat \ {0} /\ L \in 1..L /\ Top = stack[L] /\ Top.id \in Nodes /\ stack \in Seq(Frame)
      /\ mode \in Modes
      /\ stack' \in Seq(Frame) /\ Len(stack') = L - 1 /\ \A k \in 1..L - 1 : stack'[k] = stack[k]
  BY TopFrame DEF FrameInv
<1>2. /\ \A k \in 1..L - 1 : k \in 1..L /\ stack[k].phase # 0
      /\ \A k, l \in 1..L : stack[k].id = stack[l].id => k = l
      /\ \A k \in 1..L : stack[k].id \in Nodes
  <2>1. \A k \in 1..L : stack[k] \in Frame
    BY <1>1
  <2> QED
    BY <1>1, <2>1 DEF FrameInv, Frame
<1>3. Frame' = Frame
  BY DEF Frame
<1>4. visiting' = {stack'[k].id : k \in {k \in 1..Len(stack') : stack'[k].phase # 0}}
  <2> DEFINE old == {stack[k].id : k \in {k \in 1..L : stack[k].phase # 0}}
             now == {stack'[k].id : k \in {k \in 1..Len(stack') : stack'[k].phase # 0}}
  <2>1. visiting = old
    BY DEF FrameInv
  <2>2. ASSUME NEW x \in now PROVE x \in old \ {Top.id}
    <3>1. PICK k \in 1..Len(stack') : stack'[k].phase # 0 /\ x = stack'[k].id
      OBVIOUS
    <3>2. k \in 1..L - 1 /\ stack'[k] = stack[k] /\ k # L
      BY <1>1
    <3> QED
      BY <1>1, <1>2, <3>1, <3>2
  <2>3. ASSUME NEW x \in old \ {Top.id} PROVE x \in now
    <3>1. PICK k \in 1..L : stack[k].phase # 0 /\ x = stack[k].id
      BY <2>3
    <3>2. k # L
      BY <1>1, <2>3, <3>1
    <3>3. k \in 1..Len(stack') /\ stack'[k].phase # 0 /\ x = stack'[k].id
      BY <1>1, <3>1, <3>2
    <3> QED
      BY <3>3
  <2> QED
    BY <2>1, <2>2, <2>3
<1>5. ASSUME NEW k \in 1..Len(stack') PROVE Waits(k)'
  <2>1. k \in 1..L - 1 /\ k + 1 \in 1..L /\ k # L /\ k \in 1..L
    BY <1>1
  <2>2. stack'[k] = stack[k] /\ stack[k].phase # 0 /\ Waits(k)
    BY <1>1, <1>2, <2>1 DEF FrameInv
  <2>3. PICK i : i = stack[k].id
    OBVIOUS
  <2>4. i \in Nodes /\ i # Top.id /\ stack'[k].id = i /\ ~Current(i, mode) /\ ~IsLeaf(graph[i], mode)
    BY <1>1, <1>2, <2>1, <2>2, <2>3 DEF Waits
  <2>5. /\ IsLeaf(graph[i], mode)' = IsLeaf(graph[i], mode)
        /\ First(graph[i], mode)' = First(graph[i], mode)
        /\ Redirected(graph[i], mode)' = Redirected(graph[i], mode)
        /\ graph'[i].kind = graph[i].kind /\ graph'[i].left = graph[i].left
        /\ graph'[i].right = graph[i].right
    BY <2>4 DEF Alike, IsLeaf, First, Redirected
  <2>6. ASSUME NEW c, Awaits(k, c) PROVE Awaits(k, c)'
    <3>1. stack[k + 1].id = c
      BY <2>1, <2>6 DEF Awaits
    <3>2. CASE k = L - 1
      <4>1. c = Top.id /\ k = Len(stack')
        BY <1>1, <3>1, <3>2
      <4> QED
        BY <1>1, <4>1 DEF Awaits
    <3>3. CASE k # L - 1
      <4>1. k # Len(stack') /\ stack'[k + 1] = stack[k + 1]
        BY <1>1, <2>1, <3>3
      <4> QED
        BY <3>1, <4>1 DEF Awaits
    <3> QED
      BY <3>2, <3>3
  <2>7. PICK f, g, h : f = First(graph[i], mode) /\ g = graph[i].left /\ h = graph[i].right
    OBVIOUS
  <2>8. /\ stack[k].phase = 1 => Awaits(k, f)
        /\ stack[k].phase = 2 => /\ graph[i].kind \in PairKinds /\ ~Redirected(graph[i], mode)
                                 /\ Current(g, mode) /\ Awaits(k, h)
    BY <2>2, <2>3, <2>7 DEF Waits
  <2>9. stack[k].phase = 2 => g \in Nodes
    BY <1>1, <2>4, <2>7, <2>8, FirstOperand
  <2>10. stack[k].phase = 2 => Current(g, mode)'
    BY <2>8, <2>9
  <2>11. ~Current(i, mode)'
    BY <2>4
  <2>12. /\ stack[k].phase = 1 => Awaits(k, f)'
         /\ stack[k].phase = 2 => Awaits(k, h)'
    BY <2>6, <2>8
  <2>13. graph[stack[k].id]' = graph'[i]
    BY <2>2, <2>3
  <2> QED
    BY <2>2, <2>3, <2>4, <2>5, <2>7, <2>8, <2>10, <2>11, <2>12, <2>13 DEF Waits
<1>6. \A k \in 1..Len(stack') : k \in 1..L - 1
  BY <1>1
<1>7. \A k, l \in 1..Len(stack') : stack'[k].id = stack'[l].id => k = l
  BY <1>1, <1>2, <1>6
<1>8. \A k \in 1..Len(stack') - 1 : stack'[k].phase # 0
  BY <1>1, <1>2
<1>9. query \in {0} \cup Nodes
  BY DEF FrameInv
<1> QED
  BY <1>1, <1>3, <1>4, <1>5, <1>7, <1>8, <1>9 DEF FrameInv

\* Popping a frame whose node was current all along.
LEMMA CurrentFrames ==
    ASSUME FrameInv, GraphInv, AlreadyCurrent
    PROVE  FrameInv'
<1>1. /\ query # 0 /\ stack # <<>> /\ Current(Top.id, mode) /\ stack' = Popped /\ visiting' = visiting
      /\ mode' = mode /\ query' = query /\ graph' = graph /\ bound' = bound /\ prefix' = prefix
      /\ memos' = memos /\ versions' = versions
  BY DEF AlreadyCurrent, Working, Still, NoNewString
<1>2. /\ Len(stack) \in Nat /\ Len(stack) \in 1..Len(stack) /\ Top = stack[Len(stack)] /\ Top.id \in Nodes
  BY <1>1, TopFrame
<1>3. Top.phase = 0
  BY <1>1, <1>2 DEF FrameInv, Waits
<1>4. Top.id \notin visiting
  BY <1>2, <1>3 DEF FrameInv
<1>5. \A i \in Nodes : Current(i, mode)' <=> Current(i, mode)
  BY <1>1 DEF Current
<1>6. Nodes' = Nodes /\ \A i \in Nodes : Alike(graph'[i], graph[i])
  BY <1>1 DEF Nodes, Alike
<1>7. \A i \in Nodes : Current(i, mode)' <=> Current(i, mode) \/ i = Top.id
  BY <1>1, <1>5
<1> QED
  BY <1>1, <1>4, <1>6, <1>7, PopFrames

-----------------------------------------------------------------------------
(* Results that are written *)

\* Steps that leave the graph and its memos alone.
LEMMA SameResults ==
    ASSUME CoreInv, structure' = structure, placed' = placed, memos' = memos, versions' = versions
    PROVE  /\ CoreInv'
           /\ mode' = mode /\ TwinInv /\ FollowInv => TwinInv' /\ FollowInv'
           /\ FollowInv => Steady /\ NoneNew
<1>1. /\ unit' = unit /\ graph' = graph /\ strings' = strings /\ prefix' = prefix /\ bound' = bound
      /\ references' = references /\ users' = users /\ parents' = parents
  BY DEF structure
<1>2. GraphInv'
  BY <1>1 DEF CoreInv, GraphInv, EdgesAreComplete, Nodes, Built
<1>3. SpanInv'
  BY <1>1 DEF CoreInv, SpanInv, AddressLeaf, Nodes
<1>4. StringInv'
  BY <1>1 DEF CoreInv, StringInv, StringsAreMadeOnce, Owners, Nodes, LiveBytes
<1>5. MemoInv'
  BY <1>1 DEF CoreInv, MemoInv, PayloadIsUnambiguous, Stamped, Nodes
<1>6. \A i, m : Current(i, m)' <=> Current(i, m)
  BY DEF Current
<1>7. ASSUME FollowInv PROVE Steady /\ NoneNew
  <2>1. ASSUME NEW i \in Nodes, NEW m \in Modes, Current(i, m)', ~IsCycle(memos'[i][m])
        PROVE  Usable(i, m) /\ Stays(i, m)
    <3>1. Usable(i, m)
      BY <1>6, <2>1 DEF Usable
    <3> QED
      BY <1>1, <1>6, <1>7, <3>1, StillStays DEF Usable
  <2> QED
    BY <1>1, <2>1 DEF Steady, NoneNew, Usable, Nodes
<1>8. ASSUME mode' = mode, TwinInv PROVE TwinInv'
  BY <1>1, <1>6, <1>8 DEF TwinInv, Nodes
<1> QED
  BY <1>2, <1>3, <1>4, <1>5, <1>7, <1>8, SteadyFollows DEF CoreInv

\* What finish writes into a memo is read back as it was, and would be used.
LEMMA MemoOfFields ==
    ASSUME MemoInv, NEW v \in ValueType, v.state # "KNOWN" => v.num = 0,
           v.state = "KNOWN" => "BINDING" \notin v.flags
    PROVE  /\ MemoOf(v) \in MemoType /\ MemoValue(MemoOf(v)) = v
           /\ "CACHED" \in MemoOf(v).flags /\ Stamped(MemoOf(v))
           /\ IsCycle(MemoOf(v)) <=> IsCycle(v)
           /\ MemoOf(v).state = v.state /\ MemoOf(v).kind = v.kind
           /\ MemoOf(v).state = "KNOWN" => MemoOf(v).payload = v.num /\ "BINDING" \notin MemoOf(v).flags
           /\ IF IsCycle(MemoOf(v)) THEN MemoOf(v).payload = versions.request
              ELSE "BINDING" \in MemoOf(v).flags => MemoOf(v).payload = versions.bindings
<1> DEFINE memo == MemoOf(v)
           cycle == v.state = "INVALID" /\ v.error = "CYCLE"
           stamp == CASE v.state = "KNOWN" -> v.num
                      [] v.state = "INVALID" /\ v.error = "CYCLE" -> versions.request
                      [] OTHER -> versions.bindings
<1>1. /\ v.state \in States /\ v.kind \in {"INTEGER", "EXTENT", "STRING"} /\ v.error \in Diagnostics
      /\ v.at \in Int /\ v.num \in Int /\ v.flags \in SUBSET {"BINDING", "LAYOUT"}
      /\ v = [state |-> v.state, kind |-> v.kind, error |-> v.error, at |-> v.at, num |-> v.num,
              flags |-> v.flags]
  BY DEF ValueType
<1>2. versions.request \in Int /\ versions.bindings \in Int
  BY DEF MemoInv
<1>3. /\ v.state = "KNOWN" => stamp = v.num
      /\ cycle => stamp = versions.request
      /\ v.state # "KNOWN" /\ ~cycle => stamp = versions.bindings
  OBVIOUS
<1>4. memo = [state |-> v.state, kind |-> v.kind, error |-> v.error, at |-> v.at,
              flags |-> v.flags \cup {"CACHED"}, payload |-> stamp]
  BY DEF MemoOf
<1> HIDE DEF stamp, memo
<1>5. stamp \in Int /\ v.flags \cup {"CACHED"} \in SUBSET {"CACHED", "BINDING", "LAYOUT"}
  BY <1>1, <1>2, <1>3
<1>6. memo \in MemoType
  BY <1>1, <1>4, <1>5 DEF MemoType
<1>7. /\ memo.state = v.state /\ memo.kind = v.kind /\ memo.error = v.error /\ memo.at = v.at
      /\ memo.flags = v.flags \cup {"CACHED"} /\ memo.payload = stamp
  BY <1>4
<1>8. MemoValue(memo) = v
  <2>1. memo.flags \ {"CACHED"} = v.flags
    BY <1>1, <1>7
  <2>2. (IF memo.state = "KNOWN" THEN memo.payload ELSE 0) = v.num
    BY <1>3, <1>7
  <2>3. MemoValue(memo) = [state |-> v.state, kind |-> v.kind, error |-> v.error, at |-> v.at,
                           num |-> v.num, flags |-> v.flags]
    BY <1>7, <2>1, <2>2 DEF MemoValue
  <2> QED
    BY <1>1, <2>3
<1>9. IsCycle(memo) <=> cycle
  BY <1>7 DEF IsCycle
<1>10. IF IsCycle(memo) THEN memo.payload = versions.request
       ELSE "BINDING" \in memo.flags => memo.payload = versions.bindings
  BY <1>3, <1>7, <1>9
<1>11. Stamped(memo)
  BY <1>2, <1>10 DEF Stamped
<1> QED
  BY <1>3, <1>6, <1>7, <1>8, <1>9, <1>10, <1>11 DEF memo, IsCycle

\* The memos after finish: the one of the mode, and with a shared value the other.
Written(i, v) ==
    [memos EXCEPT ![i] = [m \in Modes |->
        IF m = mode \/ (Shared(v) /\ Exists(memos[i][m])) THEN MemoOf(v) ELSE memos[i][m]]]

\* What is finished: a result that rests on its operands, or a cycle that leaves the
\* operands without one.
Finishing(i, v) ==
    /\ v \in ValueType /\ (v.state # "KNOWN" => v.num = 0)
    /\ v.state = "KNOWN" => "BINDING" \notin v.flags
    /\ ~IsCycle(v) => Rests(i, v, mode)
    /\ \A w : Rests(i, w, mode) => w = v

\* Finishing makes one node current and takes no result from another.
LEMMA WrittenMemos ==
    ASSUME CoreInv, TwinInv, FollowInv, mode \in Modes, NEW i \in Nodes, NEW v, Finishing(i, v),
           ~Current(i, mode), memos' = Written(i, v), versions' = versions, mode' = mode,
           Nodes' = Nodes, Len(strings) <= Len(strings'), Len(strings') \in Nat,
           v.state = "KNOWN" /\ v.kind = "STRING" => v.num \in 1..Len(strings')
    PROVE  /\ MemoInv' /\ TwinInv'
           /\ Current(i, mode)' /\ memos'[i][mode] = MemoOf(v)
           /\ \A j \in Nodes, m \in Modes :
                 /\ j # i \/ (m # mode /\ ~(Shared(v) /\ Exists(memos[i][m]))) => memos'[j][m] = memos[j][m]
                 /\ Current(j, m)' => Current(j, m) \/ j = i
                 /\ Current(j, m) => Current(j, m)'
                 /\ Usable(j, m) => MemoValue(memos'[j][m]) = MemoValue(memos[j][m])
<1>1. /\ GraphInv /\ StringInv /\ MemoInv /\ memos \in MemoTable /\ i \in NodeRange
      /\ Len(strings) \in Nat
  BY NodeFields DEF CoreInv, MemoInv, MemoTable, StringInv
<1>2. /\ MemoOf(v) \in MemoType /\ MemoValue(MemoOf(v)) = v
      /\ "CACHED" \in MemoOf(v).flags /\ Stamped(MemoOf(v))
      /\ IsCycle(MemoOf(v)) <=> IsCycle(v)
      /\ MemoOf(v).state = v.state /\ MemoOf(v).kind = v.kind
      /\ MemoOf(v).state = "KNOWN" => MemoOf(v).payload = v.num /\ "BINDING" \notin MemoOf(v).flags
      /\ IF IsCycle(MemoOf(v)) THEN MemoOf(v).payload = versions.request
         ELSE "BINDING" \in MemoOf(v).flags => MemoOf(v).payload = versions.bindings
  BY <1>1, MemoOfFields DEF Finishing
<1>3. PICK memo : memo = MemoOf(v)
  OBVIOUS
<1> DEFINE shares(m) == m = mode \/ (Shared(v) /\ Exists(memos[i][m]))
           row == [m \in Modes |-> IF shares(m) THEN memo ELSE memos[i][m]]
<1>4. memos' = [memos EXCEPT ![i] = row]
  BY <1>3 DEF Written
<1>5. /\ \A j \in NodeRange : j # i => memos'[j] = memos[j]
      /\ \A m \in Modes : memos'[i][m] = IF shares(m) THEN memo ELSE memos[i][m]
      /\ memos' \in MemoTable
  <2>1. ASSUME NEW m \in Modes
        PROVE  row[m] = (IF shares(m) THEN memo ELSE memos[i][m]) /\ row[m] \in MemoType
    <3>1. memos[i][m] \in MemoType
      BY <1>1 DEF MemoTable
    <3> QED
      BY <1>2, <1>3, <3>1
  <2>2. row \in [Modes -> MemoType]
    BY <2>1
  <2> HIDE DEF row, shares
  <2>3. memos' \in MemoTable /\ memos'[i] = row /\ \A j \in NodeRange : j # i => memos'[j] = memos[j]
    BY <1>1, <1>4, <2>2 DEF MemoTable
  <2> QED
    BY <2>1, <2>3
<1> HIDE DEF row
<1>6. \A j \in Nodes : j \in NodeRange
  BY <1>1, NodeFields
<1>7. memos'[i][mode] = memo
  BY <1>5
<1>8. ASSUME NEW m \in Modes, m # mode, Usable(i, m), ~IsCycle(v),
             Shared(v) \/ Shared(MemoValue(memos[i][m]))
      PROVE  MemoValue(memos[i][m]) = v
  <2> DEFINE w == MemoValue(memos[i][m])
  <2>1. PICK p \in Modes : (p = m \/ Shared(w)) /\ Rests(i, w, p)
    BY <1>8, UsableRests
  <2>2. CASE p = mode
    BY <2>1, <2>2 DEF Finishing
  <2>3. CASE p # mode
    <3>1. p = m
      BY <1>8, <2>3 DEF Modes
    <3>2. ~IsCycle(w)
      BY <1>1, <1>8, MemosHoldValues, MemoFields DEF Usable
    <3>3. Rests(i, v, mode)
      BY <1>8 DEF Finishing
    <3> HIDE DEF w
    <3>4. Shared(v) => w = v
      BY <2>1, <3>1, <3>2, <3>3, SameAnswer
    <3>5. Shared(w) => v = w
      BY <1>8, <2>1, <3>1, <3>3, SameAnswer
    <3> QED
      BY <1>8, <3>4, <3>5 DEF w
  <2> QED
    BY <2>2, <2>3
<1>9. Shared(v) => ~IsCycle(v)
  BY DEF Shared, IsCycle
<1>10. ASSUME NEW m \in Modes, "CACHED" \in memos[i][m].flags PROVE Exists(memos[i][m])
  BY <1>10 DEF Exists, NoMemo
<1>11. Current(i, mode)'
  BY <1>2, <1>3, <1>7 DEF Current
<1>12. ASSUME NEW j \in NodeRange, NEW m \in Modes
       PROVE  /\ memos'[j][m] = memos[j][m] \/ (j = i /\ memos'[j][m] = memo)
              /\ memos'[j][m] = memos[j][m] => (Current(j, m)' <=> Current(j, m))
              /\ memos'[j][m] = memo => Current(j, m)'
              /\ j # i \/ ~shares(m) => memos'[j][m] = memos[j][m]
  <2>1. memos'[j][m] = memos[j][m] \/ (j = i /\ memos'[j][m] = memo)
    BY <1>5
  <2>2. memos'[j][m] = memos[j][m] => (Current(j, m)' <=> Current(j, m))
    BY DEF Current
  <2>3. memos'[j][m] = memo => Current(j, m)'
    BY <1>2, <1>3 DEF Current
  <2>4. j # i \/ ~shares(m) => memos'[j][m] = memos[j][m]
    BY <1>5
  <2> QED
    BY <2>1, <2>2, <2>3, <2>4
<1>13. MemoInv'
  <2>1. ASSUME NEW j \in NodeRange, NEW m \in Modes
        PROVE  /\ Stamped(memos[j][m])'
               /\ memos'[j][m].state = "KNOWN" => "BINDING" \notin memos'[j][m].flags
               /\ memos'[j][m].state = "KNOWN" /\ memos'[j][m].kind = "STRING"
                     => memos'[j][m].payload \in 1..Len(strings')
    <3>1. CASE memos'[j][m] = memos[j][m]
      BY <1>1, <3>1 DEF MemoInv, Stamped, PayloadIsUnambiguous
    <3>2. CASE memos'[j][m] = memo
      BY <1>2, <1>3, <3>2 DEF Stamped
    <3> QED
      BY <1>12, <3>1, <3>2
  <2>2. \A j \in NodeRange \ Nodes' : memos'[j] = Missing
    BY <1>1, <1>5 DEF MemoInv
  <2>3. versions' \in Counters
    BY <1>1 DEF MemoInv, Counters
  <2> QED
    BY <1>5, <2>1, <2>2, <2>3 DEF MemoInv, MemoTable, Counters, PayloadIsUnambiguous
<1>14. ASSUME NEW j \in Nodes, NEW m \in Modes
       PROVE  /\ Current(j, m)' => Current(j, m) \/ j = i
              /\ Current(j, m) => Current(j, m)'
              /\ Usable(j, m) => MemoValue(memos'[j][m]) = MemoValue(memos[j][m])
  <2>1. j \in NodeRange
    BY <1>6
  <2>2. CASE memos'[j][m] = memos[j][m]
    BY <1>12, <2>1, <2>2
  <2>3. CASE memos'[j][m] # memos[j][m]
    <3>1. j = i /\ memos'[j][m] = memo /\ shares(m) /\ Current(j, m)'
      BY <1>12, <2>1, <2>3
    <3>2. Usable(j, m) => MemoValue(memos[i][m]) = v
      BY <1>8, <1>9, <3>1 DEF Usable
    <3> QED
      BY <1>2, <1>3, <3>1, <3>2
  <2> QED
    BY <2>2, <2>3
<1>15. TwinInv'
  <2> SUFFICES ASSUME NEW j \in Nodes, NEW m \in Modes, NEW o \in Modes
               PROVE  /\ Current(j, m)' /\ IsCycle(memos'[j][m]) => m = mode
                      /\ Current(j, m)' /\ Current(j, o)' /\ Shared(MemoValue(memos'[j][m])) /\ ~IsCycle(memos'[j][o])
                            => MemoValue(memos'[j][o]) = MemoValue(memos'[j][m])
    BY DEF TwinInv
  <2>1. j \in NodeRange
    BY <1>6
  <2>2. Current(j, m)' /\ IsCycle(memos'[j][m]) => m = mode
    <3>1. CASE memos'[j][m] = memos[j][m]
      BY <1>12, <2>1, <3>1 DEF TwinInv
    <3>2. CASE memos'[j][m] # memos[j][m]
      BY <1>2, <1>3, <1>9, <1>12, <2>1, <3>2
    <3> QED
      BY <3>1, <3>2
  <2>3. ASSUME Current(j, m)', Current(j, o)', Shared(MemoValue(memos'[j][m])), ~IsCycle(memos'[j][o])
        PROVE  MemoValue(memos'[j][o]) = MemoValue(memos'[j][m])
    <3>1. CASE memos'[j][m] = memos[j][m] /\ memos'[j][o] = memos[j][o]
      BY <1>12, <2>1, <2>3, <3>1 DEF TwinInv
    <3>2. CASE memos'[j][m] = memo /\ memos'[j][o] = memo
      BY <3>2
    <3>3. CASE j = i /\ memos'[j][m] = memo /\ memos'[j][o] = memos[j][o] /\ memos[j][o] # memo
      <4>1. Shared(v)
        BY <1>2, <1>3, <2>3, <3>3
      <4>2. Current(i, o) /\ Exists(memos[i][o])
        BY <1>10, <1>12, <2>1, <2>3, <3>3 DEF Current
      <4> QED
        BY <1>5, <3>3, <4>1, <4>2
    <3>4. CASE j = i /\ memos'[j][o] = memo /\ memos'[j][m] = memos[j][m] /\ memos[j][m] # memo
      <4>1. ~IsCycle(v) /\ MemoValue(memos'[j][o]) = v
        BY <1>2, <1>3, <2>3, <3>4
      <4>2. m # mode /\ Current(i, m) /\ Shared(MemoValue(memos[i][m]))
        BY <1>7, <1>12, <2>1, <2>3, <3>4
      <4>3. Usable(i, m)
        <5>1. ~IsCycle(memos[i][m])
          BY <4>2 DEF TwinInv
        <5> QED
          BY <4>2, <5>1 DEF Usable
      <4> QED
        BY <1>8, <3>4, <4>1, <4>2, <4>3
    <3> QED
      BY <1>12, <2>1, <3>1, <3>2, <3>3, <3>4
  <2> QED
    BY <2>2, <2>3
<1>16. \A j \in Nodes, m \in Modes :
           j # i \/ (m # mode /\ ~(Shared(v) /\ Exists(memos[i][m]))) => memos'[j][m] = memos[j][m]
  BY <1>6, <1>12
<1> QED
  BY <1>3, <1>7, <1>11, <1>13, <1>14, <1>15, <1>16

\* At most the result of a node is new, and it rests on its operands in the query's mode.
OneNew(i, v) ==
    /\ Nodes' = Nodes /\ mode \in Modes /\ mode' = mode
    /\ \A j \in Nodes, m \in Modes : Usable(j, m)' =>
          \/ Usable(j, m)
          \/ /\ j = i /\ (m = mode \/ Shared(v)) /\ MemoValue(memos'[i][m]) = v /\ ~IsCycle(v)
             /\ Rests(i, v, mode) /\ FollowsOperands(i, v, mode)' /\ Used(i, mode)' = Used(i, mode)

Grows == NoneNew \/ \E i \in Nodes : \E v : OneNew(i, v)

\* What was recorded remains justified, and what finish writes is.
LEMMA WrittenFollows ==
    ASSUME CoreInv, TwinInv, FollowInv, mode \in Modes, NEW i \in Nodes, NEW v, Finishing(i, v),
           ~Current(i, mode), memos' = Written(i, v), versions' = versions, mode' = mode,
           Nodes' = Nodes, Len(strings) <= Len(strings'), Len(strings') \in Nat,
           v.state = "KNOWN" /\ v.kind = "STRING" => v.num \in 1..Len(strings'),
           bound' = bound, prefix' = prefix, placed' = placed,
           \A j \in Nodes : Alike(graph'[j], graph[j]),
           graph'[i] # graph[i] => /\ Shared(v) /\ v.state = "KNOWN" /\ v.kind = "STRING"
                                   /\ v.num \notin 1..Len(strings),
           \A j \in Nodes : \A l, r :
               /\ j # i \/ graph'[i] = graph[i]
               /\ graph[j].kind \in OperationKinds
               /\ IsValue(l) /\ IsValue(r) /\ l.state # "INVALID" /\ IsValue(Operation(j, l, r))
               => Operation(j, l, r)' = Operation(j, l, r),
           ~IsCycle(v) /\ ~IsLeaf(graph[i], mode) /\ ~Passes(i, mode) =>
               \A l, r : l = FirstValue(i, mode) /\ r = SecondValue(i, mode) => v = Operation(i, l, r)'
    PROVE  FollowInv' /\ Steady /\ OneNew(i, v)
<1>1. GraphInv /\ StringInv /\ MemoInv
  BY DEF CoreInv
<1>2. /\ Current(i, mode)' /\ memos'[i][mode] = MemoOf(v)
      /\ \A j \in Nodes, m \in Modes :
            /\ j # i \/ (m # mode /\ ~(Shared(v) /\ Exists(memos[i][m]))) => memos'[j][m] = memos[j][m]
            /\ Current(j, m)' => Current(j, m) \/ j = i
            /\ Current(j, m) => Current(j, m)'
            /\ Usable(j, m) => MemoValue(memos'[j][m]) = MemoValue(memos[j][m])
  BY WrittenMemos
<1>3. PICK memo : memo = MemoOf(v)
  OBVIOUS
<1>4. MemoValue(memo) = v /\ (IsCycle(memo) <=> IsCycle(v))
  BY <1>1, <1>3, MemoOfFields DEF Finishing
<1>5. ASSUME NEW j \in Nodes, NEW m \in Modes, NEW w, Rests(j, w, m)
      PROVE  \A c \in Used(j, m) : Current(c, m)' /\ MemoValue(memos'[c][m]) = MemoValue(memos[c][m])
  BY <1>2, <1>5 DEF Rests, Usable
\* a result that was recorded
<1>6. ASSUME NEW j \in Nodes, NEW m \in Modes, NEW w, IsValue(w), Rests(j, w, m),
             j # i \/ graph'[i] = graph[i]
      PROVE  FollowsOperands(j, w, m)' /\ Used(j, m)' = Used(j, m)
  <2>1. PICK l : l = FirstValue(j, m)
    OBVIOUS
  <2>2. PICK r : r = SecondValue(j, m)
    OBVIOUS
  <2>3. ASSUME ~IsLeaf(graph[j], m), ~Passes(j, m) PROVE w = Operation(j, l, r)'
    <3>1. /\ graph[j].kind \in OperationKinds /\ IsValue(l) /\ IsValue(r) /\ l.state # "INVALID"
      BY <1>1, <2>1, <2>2, <2>3, MadeType
    <3>2. w = Operation(j, l, r)
      BY <1>6, <2>1, <2>2, <2>3 DEF Rests, Made
    <3> QED
      BY <1>6, <3>1, <3>2
  <2>4. FollowsOperands(j, w, m)'
    BY <1>1, <1>5, <1>6, <2>1, <2>2, <2>3, MadeAgain
  <2>5. Used(j, m)' = Used(j, m)
    BY <1>5, <1>6, UsedAgain
  <2> QED
    BY <2>4, <2>5
\* the result that is written
<1>7. ~IsCycle(v) => Rests(i, v, mode) /\ FollowsOperands(i, v, mode)' /\ Used(i, mode)' = Used(i, mode)
  <2> SUFFICES ASSUME ~IsCycle(v)
               PROVE  Rests(i, v, mode) /\ FollowsOperands(i, v, mode)' /\ Used(i, mode)' = Used(i, mode)
    OBVIOUS
  <2>1. Rests(i, v, mode)
    BY DEF Finishing
  <2>2. PICK l : l = FirstValue(i, mode)
    OBVIOUS
  <2>3. PICK r : r = SecondValue(i, mode)
    OBVIOUS
  <2>4. ~IsLeaf(graph[i], mode) /\ ~Passes(i, mode) => v = Operation(i, l, r)'
    BY <2>2, <2>3
  <2>5. FollowsOperands(i, v, mode)'
    BY <1>1, <1>5, <2>1, <2>2, <2>3, <2>4, MadeAgain
  <2>6. Used(i, mode)' = Used(i, mode)
    BY <1>5, <2>1, UsedAgain
  <2> QED
    BY <2>1, <2>5, <2>6
<1>8. \A m \in Modes : m = mode \/ mode = Other(m)
  BY DEF Modes, Other
<1>9. OneNew(i, v)
  <2> SUFFICES ASSUME NEW j \in Nodes, NEW m \in Modes, Usable(j, m)', ~Usable(j, m)
               PROVE  /\ j = i /\ (m = mode \/ Shared(v)) /\ MemoValue(memos'[i][m]) = v /\ ~IsCycle(v)
    BY <1>7 DEF OneNew
  <2>1. memos'[j][m] # memos[j][m]
    BY DEF Usable, Current
  <2>2. j = i /\ (m = mode \/ Shared(v))
    BY <1>2, <2>1
  <2>3. memos'[i][m] = memo
    <3>1. i \in NodeRange /\ memos \in MemoTable
      BY <1>1, NodeFields DEF MemoInv, MemoTable
    <3> QED
      BY <1>3, <2>1, <2>2, <3>1 DEF Written, MemoTable
  <2> QED
    BY <1>4, <2>2, <2>3 DEF Usable
<1>10. Steady
  <2> SUFFICES ASSUME NEW j \in Nodes, NEW m \in Modes, Usable(j, m) PROVE Stays(j, m)
    BY DEF Steady
  <2>1. PICK w : w = MemoValue(memos[j][m])
    OBVIOUS
  <2>2. IsValue(w) /\ ~IsCycle(w)
    <3>1. j \in NodeRange /\ memos[j][m] \in MemoType
      BY <1>1, NodeFields, MemosHoldValues
    <3> QED
      BY <1>1, <2>1, <3>1, MemosHoldValues, MemoFields DEF Usable
  <2>3. ASSUME NEW o \in Modes, Rests(j, w, o)
        PROVE  FollowsOperands(j, w, o)' /\ Used(j, o)' = Used(j, o)
    <3>1. j # i \/ graph'[i] = graph[i]
      <4> SUFFICES ASSUME j = i, graph'[i] # graph[i] PROVE FALSE
        OBVIOUS
      <4>1. Rests(i, v, mode)
        BY <1>7 DEF Shared, IsCycle
      <4>2. w = v
        BY <2>2, <2>3, <4>1, SameAnswer
      <4> QED
        BY <2>2, <4>2 DEF IsValue
    <3> QED
      BY <1>6, <2>2, <2>3, <3>1
  <2>4. MemoValue(memos'[j][m]) = w
    BY <1>2, <2>1
  <2> QED
    BY <2>1, <2>3, <2>4 DEF Stays
<1> SUFFICES ASSUME NEW j \in Nodes, NEW m \in Modes, Current(j, m)', ~IsCycle(memos'[j][m])
             PROVE  Justified(j, m)'
  BY <1>9, <1>10 DEF FollowInv
<1>11. Usable(j, m)'
  BY DEF Usable
<1>12. CASE Usable(j, m)
  BY <1>10, <1>11, <1>12, StaysJustified DEF Steady
<1>13. CASE ~Usable(j, m)
  <2>1. /\ j = i /\ (m = mode \/ Shared(v)) /\ MemoValue(memos'[i][m]) = v
        /\ FollowsOperands(i, v, mode)'
    BY <1>9, <1>11, <1>13 DEF OneNew
  <2>2. MemoValue(memos[j][m])' = v /\ FollowsOperands(j, v, mode)'
    BY <2>1
  <2> QED
    BY <1>8, <2>1, <2>2 DEF Justified
<1> QED
  BY <1>12, <1>13

-----------------------------------------------------------------------------
(* Buffers *)

\* An interval is finite.
LEMMA Interval ==
    ASSUME NEW m \in Nat
    PROVE  IsFiniteSet(1..m) /\ Cardinality(1..m) = m
<1>1. IsFiniteSet(1..m) /\ Cardinality(1..m) = IF 1 > m THEN 0 ELSE m - 1 + 1
  BY FS_Interval
<1> QED
  BY <1>1

\* The live bytes can be counted.
LEMMA BytesFinite ==
    ASSUME NEW buffers \in Seq(Buffer)
    PROVE  IsFiniteSet(BytesIn(buffers)) /\ Cardinality(BytesIn(buffers)) \in Nat
<1> DEFINE n      == Len(buffers)
           place(k) == {k} \X (1..Len(buffers[k]))
           family == {place(k) : k \in 1..n}
           f      == [k \in 1..n |-> place(k)]
<1>1. n \in Nat /\ DOMAIN buffers = 1..n /\ \A k \in 1..n : buffers[k] \in Buffer
  OBVIOUS
<1>2. BytesIn(buffers) = UNION family
  BY <1>1 DEF BytesIn
<1>3. ASSUME NEW k \in 1..n PROVE IsFiniteSet(place(k))
  <2>1. Len(buffers[k]) \in Nat
    BY <1>1 DEF Buffer
  <2>2. IsFiniteSet(1..Len(buffers[k]))
    BY <2>1, Interval
  <2>3. IsFiniteSet({k})
    BY FS_Singleton
  <2> QED
    BY <2>2, <2>3, FS_Product
<1>4. IsFiniteSet(1..n)
  BY <1>1, Interval
<1>5. f \in Surjection(1..n, family)
  <2> HIDE DEF place
  <2> QED
    BY DEF Surjection
<1> HIDE DEF place, f
<1>6. IsFiniteSet(family)
  BY <1>4, <1>5, FS_Surjection
<1>7. \A T \in family : IsFiniteSet(T)
  BY <1>3
<1> HIDE DEF family
<1>8. IsFiniteSet(UNION family)
  BY <1>6, <1>7, FS_UNION
<1> QED
  BY <1>2, <1>8, FS_CardinalityType

\* A buffer more takes its length of the budget.
LEMMA BytesAdded ==
    ASSUME NEW buffers \in Seq(Buffer), NEW b \in Buffer
    PROVE  /\ Append(buffers, b) \in Seq(Buffer) /\ Len(Append(buffers, b)) = Len(buffers) + 1
           /\ \A k \in 1..Len(buffers) : Append(buffers, b)[k] = buffers[k]
           /\ Append(buffers, b)[Len(buffers) + 1] = b
           /\ Cardinality(BytesIn(Append(buffers, b))) = Cardinality(BytesIn(buffers)) + Len(b)
<1> DEFINE n   == Len(buffers)
           new == Append(buffers, b)
           own == {n + 1} \X (1..Len(b))
<1>1. n \in Nat /\ DOMAIN buffers = 1..n /\ Len(b) \in Nat
  BY DEF Buffer
<1>2. /\ new \in Seq(Buffer) /\ Len(new) = n + 1 /\ \A k \in 1..n : new[k] = buffers[k]
      /\ new[n + 1] = b
  BY AppendProperties
<1> HIDE DEF new
<1>3. DOMAIN new = 1..n + 1
  BY <1>1, <1>2
<1>4. BytesIn(new) = BytesIn(buffers) \cup own
  <2>1. \A p : p \in BytesIn(new) <=> \E k \in 1..n + 1 : p \in {k} \X (1..Len(new[k]))
    BY <1>3 DEF BytesIn
  <2>2. \A p : p \in BytesIn(buffers) <=> \E k \in 1..n : p \in {k} \X (1..Len(buffers[k]))
    BY <1>1 DEF BytesIn
  <2>3. \A k : k \in 1..n + 1 <=> k \in 1..n \/ k = n + 1
    BY <1>1
  <2>4. ASSUME NEW p PROVE p \in BytesIn(new) <=> p \in BytesIn(buffers) \/ p \in own
    BY <1>2, <2>1, <2>2, <2>3
  <2> QED
    BY <2>4
<1>5. BytesIn(buffers) \cap own = {}
  <2>1. ASSUME NEW p, p \in BytesIn(buffers), p \in own PROVE FALSE
    <3>1. PICK k \in 1..n : p \in {k} \X (1..Len(buffers[k]))
      BY <1>1, <2>1 DEF BytesIn
    <3>2. p[1] = k /\ p[1] = n + 1
      BY <2>1, <3>1
    <3> QED
      BY <1>1, <3>2
  <2> QED
    BY <2>1
<1>6. IsFiniteSet(own) /\ Cardinality(own) = Len(b)
  <2>1. IsFiniteSet(1..Len(b)) /\ Cardinality(1..Len(b)) = Len(b)
    BY <1>1, Interval
  <2>2. IsFiniteSet({n + 1}) /\ Cardinality({n + 1}) = 1
    BY FS_Singleton
  <2>3. IsFiniteSet(own) /\ Cardinality(own) = 1 * Len(b)
    BY <2>1, <2>2, FS_Product
  <2> QED
    BY <1>1, <2>3
<1> HIDE DEF own
<1>7. IsFiniteSet(BytesIn(buffers)) /\ Cardinality(BytesIn(buffers)) \in Nat
  BY BytesFinite
<1>8. Cardinality(BytesIn(buffers) \cup own) =
          Cardinality(BytesIn(buffers)) + Cardinality(own) - Cardinality(BytesIn(buffers) \cap own)
  BY <1>6, <1>7, FS_Union
<1>9. Cardinality(BytesIn(buffers) \cap own) = 0
  BY <1>5, FS_EmptySet
<1>10. Cardinality(BytesIn(new)) = Cardinality(BytesIn(buffers)) + Len(b)
  BY <1>1, <1>4, <1>6, <1>7, <1>8, <1>9
<1> QED
  BY <1>2, <1>10 DEF new

\* A step that only adds buffers.
Extends(new, old) ==
    /\ new \in Seq(Buffer) /\ Len(old) <= Len(new)
    /\ \A k \in 1..Len(old) : new[k] = old[k]
    /\ Cardinality(BytesIn(old)) <= Cardinality(BytesIn(new))

\* An operation whose result was recorded gives it again when there are more buffers:
\* a string that had one has it, and what did not fit still does not.
LEMMA OperationStable ==
    ASSUME GraphInv, StringInv, NEW j \in Nodes, graph[j].kind \in OperationKinds,
           graph'[j] = graph[j], Extends(strings', strings),
           NEW l, NEW r, IsValue(l), IsValue(r), IsValue(Operation(j, l, r))
    PROVE  Operation(j, l, r)' = Operation(j, l, r)
<1>1. CASE ~Ready(l, r)
  <2>1. l.state \in States /\ r.state \in States
    BY DEF IsValue, ValueType
  <2>2. l.state = "INVALID" \/ r.state = "INVALID" \/ "DEFERRED" \in {l.state, r.state}
    BY <1>1, <2>1 DEF Ready, States
  <2>3. CASE l.state = "INVALID"
    BY <2>3 DEF Operation
  <2>4. CASE l.state # "INVALID" /\ r.state = "INVALID"
    BY <2>4 DEF Operation
  <2>5. CASE l.state # "INVALID" /\ r.state # "INVALID" /\ "DEFERRED" \in {l.state, r.state}
    BY <2>5 DEF Operation
  <2> QED
    BY <2>2, <2>3, <2>4, <2>5
<1>2. CASE Ready(l, r)
  <2>1. PICK c : c = Computed(j, l, r)
    OBVIOUS
  <2>2. PICK fs : fs = l.flags \cup r.flags
    OBVIOUS
  <2>3. Operation(j, l, r) = WithFlags(c, fs)
    BY <1>2, <2>1, <2>2 DEF Operation, Ready
  <2>4. c \in ValueType /\ fs \in SUBSET {"BINDING", "LAYOUT"}
    <3>1. c \in ValueType
      BY <1>2, <2>1, ComputedType
    <3>2. l.flags \in SUBSET {"BINDING", "LAYOUT"} /\ r.flags \in SUBSET {"BINDING", "LAYOUT"}
      BY DEF IsValue, ValueType
    <3> QED
      BY <2>2, <3>1, <3>2
  <2>5. c.state = "KNOWN" /\ c.kind = "STRING" => c.num \in 1..Len(strings)
    <3>1. /\ WithFlags(c, fs).state = c.state /\ WithFlags(c, fs).kind = c.kind
          /\ WithFlags(c, fs).num = c.num
      BY <2>4, WithFlagsFields
    <3> QED
      BY <2>3, <3>1 DEF IsValue
  <2>6. SUFFICES c = Computed(j, l, r)'
    <3>1. Operation(j, l, r)' = WithFlags(Computed(j, l, r), fs)'
      BY <1>2, <2>2 DEF Operation, Ready
    <3> QED
      BY <2>3, <3>1 DEF WithFlags
  <2>7. PICK x : x = ValueOf(l)
    OBVIOUS
  <2>8. PICK y : y = ValueOf(r)
    OBVIOUS
  <2>9. x = ValueOf(l)' /\ y = ValueOf(r)'
    BY <1>2, <2>7, <2>8 DEF ValueOf, Ready, IsValue, Extends
  <2>10. PICK w : w = Worked(j, l, r)
    OBVIOUS
  <2>11. PICK n : n = graph[j]
    OBVIOUS
  <2>12. /\ n.joined \in BOOLEAN /\ n.kind \in OperationKinds /\ graph'[j] = n /\ Built(n)
         /\ n.joined => strings'[n.extra] = strings[n.extra]
         /\ n.kind # "BINARY" => ~n.joined
    <3>1. n.joined => n.extra \in 1..Len(strings)
      BY <2>11 DEF StringInv, Owners
    <3>2. Built(n) /\ n.joined \in BOOLEAN
      BY <2>11, NodeFields
    <3> QED
      BY <2>11, <3>1, <3>2 DEF Extends, Built
  <2>13. PICK room : room = LiveMax - LiveBytes
    OBVIOUS
  <2>14. w = IF n.kind \in ExtentKinds THEN ExtentOperation(n.kind, n.right, n.extra, x, y)
             ELSE IF "EXTENT" \in {l.kind, r.kind} THEN Refuses("TYPE")
             ELSE IF ~Stringy(l, r) THEN IntegerOperation(n.op, x.num, y.num)
             ELSE IF n.kind = "UNARY" THEN Refuses("TYPE")
             ELSE IF "LAYOUT" \in l.flags \cup r.flags THEN Refuses("LAYOUT_STRING")
             ELSE IF n.joined THEN Gives(StringValue(strings[n.extra]))
             ELSE StringOperation(n.op, x, y, room)
    BY <2>7, <2>8, <2>10, <2>11, <2>13 DEF Worked
  <2>15. Worked(j, l, r)' =
             IF n.kind \in ExtentKinds THEN ExtentOperation(n.kind, n.right, n.extra, x, y)
             ELSE IF "EXTENT" \in {l.kind, r.kind} THEN Refuses("TYPE")
             ELSE IF ~Stringy(l, r) THEN IntegerOperation(n.op, x.num, y.num)
             ELSE IF n.kind = "UNARY" THEN Refuses("TYPE")
             ELSE IF "LAYOUT" \in l.flags \cup r.flags THEN Refuses("LAYOUT_STRING")
             ELSE IF n.joined THEN Gives(StringValue(strings'[n.extra]))
             ELSE StringOperation(n.op, x, y, LiveMax - LiveBytes')
    BY <2>9, <2>12 DEF Worked
  <2>16. CASE \/ n.kind \in ExtentKinds \/ "EXTENT" \in {l.kind, r.kind} \/ ~Stringy(l, r)
              \/ n.kind = "UNARY" \/ "LAYOUT" \in l.flags \cup r.flags \/ n.joined
    <3>1. Worked(j, l, r)' = w
      BY <2>12, <2>14, <2>15, <2>16
    <3>2. w.value.kind = "STRING" => n.joined
      <4> SUFFICES ASSUME ~n.joined PROVE w.value.kind # "STRING"
        OBVIOUS
      <4>1. x \in Operand /\ y \in Operand /\ x.num \in Int /\ y.num \in Int
        BY <1>2, <2>7, <2>8, ValueOfType DEF Ready, Operand
      <4>2. n.kind \notin ExtentKinds => n.op \in Operators
        BY <2>12 DEF Built, OperationKinds
      <4>3. Refuses("TYPE").value.kind # "STRING" /\ Refuses("LAYOUT_STRING").value.kind # "STRING"
        BY DEF Refuses, IntegerValue
      <4>4. n.kind \in ExtentKinds => ExtentOperation(n.kind, n.right, n.extra, x, y).value.kind # "STRING"
        BY <4>1, ExtentOperationType
      <4>5. n.kind \notin ExtentKinds => IntegerOperation(n.op, x.num, y.num).value.kind # "STRING"
        BY <4>1, <4>2, IntegerOperationType
      <4> QED
        BY <2>14, <2>16, <4>3, <4>4, <4>5
    <3>3. c = IF w.error # "NONE" THEN Invalid(w.error, j)
              ELSE IF w.value.kind = "STRING" THEN Known("STRING", n.extra)
              ELSE Known(w.value.kind, w.value.num)
      BY <2>1, <2>10, <2>11, <3>2, ComputedWorked
    <3>4. Computed(j, l, r)' = IF w.error # "NONE" THEN Invalid(w.error, j)
              ELSE IF w.value.kind = "STRING" THEN Known("STRING", n.extra)
              ELSE Known(w.value.kind, w.value.num)
      <4>1. Computed(j, l, r)' =
               (IF Worked(j, l, r).error # "NONE" THEN Invalid(Worked(j, l, r).error, j)
                ELSE IF Worked(j, l, r).value.kind = "STRING"
                THEN Known("STRING", IF graph[j].joined THEN graph[j].extra ELSE Len(strings) + 1)
                ELSE Known(Worked(j, l, r).value.kind, Worked(j, l, r).value.num))'
        BY DEF Computed, Worked
      <4> QED
        BY <2>12, <3>1, <3>2, <4>1 DEF Known, Invalid
    <3> QED
      BY <3>3, <3>4
  <2>17. CASE ~(\/ n.kind \in ExtentKinds \/ "EXTENT" \in {l.kind, r.kind} \/ ~Stringy(l, r)
                \/ n.kind = "UNARY" \/ "LAYOUT" \in l.flags \cup r.flags \/ n.joined)
    <3>1. w = StringOperation(n.op, x, y, room)
      BY <2>14, <2>17
    <3>2. Worked(j, l, r)' = StringOperation(n.op, x, y, LiveMax - LiveBytes')
      BY <2>15, <2>17
    <3>3. x \in Operand /\ y \in Operand /\ n.op \in Operators
      <4>1. x \in Operand /\ y \in Operand
        BY <1>2, <2>7, <2>8, ValueOfType DEF Ready
      <4> QED
        BY <2>12, <2>17, <4>1 DEF Built, OperationKinds
    <3>4. Worked(j, l, r)' = w
      <4>1. CASE n.op # "ADD"
        BY <3>1, <3>2, <4>1 DEF StringOperation
      <4>2. CASE n.op = "ADD"
        <5>1. PICK joined : joined = Text(x) \o Text(y)
          OBVIOUS
        <5>2. joined \in Buffer
          BY <3>3, <4>2, <5>1, StringOperationType
        <5>3. w = IF Len(joined) > StringMax \/ Len(joined) > room
                  THEN Refuses("STRING_LIMIT") ELSE Gives(StringValue(joined))
          BY <3>1, <3>3, <4>2, <5>1, StringOperationType
        <5>4. StringOperation(n.op, x, y, LiveMax - LiveBytes') =
                 IF Len(joined) > StringMax \/ Len(joined) > LiveMax - LiveBytes'
                 THEN Refuses("STRING_LIMIT") ELSE Gives(StringValue(joined))
          BY <3>3, <4>2, <5>1, StringOperationType
        <5>5. Len(joined) > StringMax \/ Len(joined) > room
          <6> SUFFICES ASSUME ~(Len(joined) > StringMax \/ Len(joined) > room) PROVE FALSE
            OBVIOUS
          <6>1. w = Gives(StringValue(joined))
            BY <5>3
          <6>2. w.error = "NONE" /\ w.value.kind = "STRING"
            BY <5>2, <6>1, Outcomes
          <6>3. c = Known("STRING", Len(strings) + 1)
            BY <2>1, <2>10, <2>11, <2>17, <6>2, ComputedWorked
          <6>4. c.state = "KNOWN" /\ c.kind = "STRING" /\ c.num = Len(strings) + 1
            BY <6>3, KnownFields
          <6>5. Len(strings) \in Nat
            BY DEF StringInv
          <6> QED
            BY <2>5, <6>4, <6>5
        <5>6. Len(joined) > room => Len(joined) > LiveMax - LiveBytes'
          <6>1. LiveBytes \in Nat /\ LiveBytes' \in Nat /\ LiveBytes <= LiveBytes' /\ LiveMax \in Nat
            BY BytesFinite, GraphAssumption DEF LiveBytes, StringInv, Extends
          <6>2. Len(joined) \in Nat
            BY <5>2 DEF Buffer
          <6> QED
            BY <2>13, <6>1, <6>2
        <5> QED
          BY <3>2, <5>3, <5>4, <5>5, <5>6
      <4> QED
        BY <4>1, <4>2
    <3>5. w.value.kind # "STRING"
      <4>1. CASE n.op # "ADD"
        BY <3>1, <3>3, <4>1, StringOperationType
      <4>2. CASE n.op = "ADD"
        <5> SUFFICES ASSUME w.value.kind = "STRING" PROVE FALSE
          OBVIOUS
        <5>1. w.error = "NONE"
          BY <1>2, <2>10, WorkedType
        <5>2. c = Known("STRING", Len(strings) + 1)
          BY <2>1, <2>10, <2>11, <2>17, <5>1, ComputedWorked
        <5>3. c.state = "KNOWN" /\ c.kind = "STRING" /\ c.num = Len(strings) + 1
          BY <5>2, KnownFields
        <5>4. Len(strings) \in Nat
          BY DEF StringInv
        <5> QED
          BY <2>5, <5>3, <5>4
      <4> QED
        BY <4>1, <4>2
    <3>6. c = IF w.error # "NONE" THEN Invalid(w.error, j)
              ELSE Known(w.value.kind, w.value.num)
      BY <2>1, <2>10, <3>5, ComputedWorked
    <3>7. Computed(j, l, r)' =
             (IF Worked(j, l, r).error # "NONE" THEN Invalid(Worked(j, l, r).error, j)
              ELSE IF Worked(j, l, r).value.kind = "STRING"
              THEN Known("STRING", IF graph[j].joined THEN graph[j].extra ELSE Len(strings) + 1)
              ELSE Known(Worked(j, l, r).value.kind, Worked(j, l, r).value.num))'
      BY DEF Computed, Worked
    <3> QED
      BY <3>4, <3>5, <3>6, <3>7 DEF Known, Invalid
  <2> QED
    BY <2>16, <2>17
<1> QED
  BY <1>1, <1>2

-----------------------------------------------------------------------------
(* The steps of the evaluator *)

\* A result that is made of operands that are current can be finished.
LEMMA MadeFinishes ==
    ASSUME CoreInv, mode \in Modes, NEW i \in Nodes, \A c \in Used(i, mode) : Current(c, mode)
    PROVE  Finishing(i, Made(i, mode))
<1> DEFINE v == Made(i, mode)
<1>1. /\ v \in ValueType /\ (v.state # "KNOWN" => v.num = 0)
      /\ v.state = "KNOWN" => "BINDING" \notin v.flags
  BY MadeType DEF CoreInv
<1>2. FollowsOperands(i, v, mode)
  BY FollowsMade
<1>3. \A w : Rests(i, w, mode) => w = v
  BY DEF Rests
<1> HIDE DEF v
<1>4. ~IsCycle(v) => Rests(i, v, mode)
  BY <1>2, FollowsRests
<1> QED
  BY <1>1, <1>3, <1>4 DEF Finishing, v

\* A cycle leaves an operand without a result.
LEMMA CycleFinishes ==
    ASSUME CoreInv, FrameInv, stack # <<>>, NEW child \in Used(Top.id, mode), ~Current(child, mode),
           NEW phase, phase = 2 => Here.left \in Nodes
    PROVE  Finishing(Top.id, CycleAt(child, phase)) /\ CycleAt(child, phase).state = "INVALID"
<1> DEFINE v     == CycleAt(child, phase)
           known == IF phase = 2 THEN memos[Here.left][mode].flags \cap {"BINDING", "LAYOUT"} ELSE {}
           fs    == known \cup (IF mode = "EXTENT" THEN {"LAYOUT"} ELSE {})
           bare  == Invalid("CYCLE", child)
<1>1. v = WithFlags(bare, fs)
  BY DEF CycleAt
<1>2. fs \in SUBSET {"BINDING", "LAYOUT"}
  BY DEF CycleAt
<1>3. bare \in ValueType /\ bare.state = "INVALID" /\ bare.error = "CYCLE" /\ bare.num = 0
  <2>1. Top.id \in Nodes /\ mode \in Modes
    BY TopFrame DEF FrameInv
  <2>2. child \in Int
    BY <2>1, UsedOperands DEF CoreInv, Nodes
  <2> QED
    BY <2>2, PlainValues, InvalidFields DEF Diagnostics
<1> HIDE DEF v, fs, bare
<1>4. v \in ValueType /\ v.state = "INVALID" /\ v.error = "CYCLE" /\ v.num = 0
  BY <1>1, <1>2, <1>3, WithFlagsFields
<1>5. \A w : ~Rests(Top.id, w, mode)
  BY DEF Rests
<1> QED
  BY <1>4, <1>5 DEF Finishing, IsCycle, v

\* finish, without a new buffer.
LEMMA FinishKeeps ==
    ASSUME RunInv, query # 0, stack # <<>>, ~Current(Top.id, mode), NEW v, Finishing(Top.id, v), Finish(v),
           v.state = "KNOWN" /\ v.kind = "STRING" => v.num \in 1..Len(strings),
           graph' = graph, strings' = strings, Still
    PROVE  RunInv' /\ Steady /\ Grows
<1>1. /\ CoreInv /\ GraphInv /\ SpanInv /\ StringInv /\ MemoInv /\ FrameInv /\ TwinInv /\ FollowInv
      /\ mode \in Modes
  BY DEF RunInv, CoreInv, FrameInv
<1>2. /\ unit' = unit /\ bound' = bound /\ prefix' = prefix /\ parents' = parents
      /\ references' = references /\ users' = users /\ placed' = placed /\ versions' = versions
      /\ mode' = mode /\ query' = query
  BY DEF Still
<1>3. PICK i \in Nodes : i = Top.id
  BY <1>1, TopFrame
<1>4. /\ memos' = Written(i, v) /\ visiting' = visiting \ {i} /\ stack' = Popped
  BY <1>3 DEF Finish, Written
<1>5. Len(strings) \in Nat
  BY <1>1 DEF StringInv
<1>6. Nodes' = Nodes /\ \A j \in Nodes : Alike(graph'[j], graph[j])
  BY DEF Nodes, Alike
<1>7. /\ Finishing(i, v) /\ ~Current(i, mode)
      /\ Len(strings) <= Len(strings') /\ Len(strings') \in Nat
      /\ v.state = "KNOWN" /\ v.kind = "STRING" => v.num \in 1..Len(strings')
  BY <1>3, <1>5
<1>8. /\ MemoInv' /\ TwinInv' /\ Current(i, mode)'
      /\ \A j \in Nodes, m \in Modes : (Current(j, m)' => Current(j, m) \/ j = i) /\ (Current(j, m) => Current(j, m)')
  BY <1>1, <1>2, <1>4, <1>6, <1>7, WrittenMemos
<1>9. \A j \in Nodes : \A l, r : Operation(j, l, r)' = Operation(j, l, r)
  BY OperationSame
<1>10. ~IsCycle(v) /\ ~IsLeaf(graph[i], mode) /\ ~Passes(i, mode) =>
          \A l, r : l = FirstValue(i, mode) /\ r = SecondValue(i, mode) => v = Operation(i, l, r)'
  <2> SUFFICES ASSUME ~IsCycle(v), ~IsLeaf(graph[i], mode), ~Passes(i, mode), NEW l, NEW r,
                      l = FirstValue(i, mode), r = SecondValue(i, mode)
               PROVE  v = Operation(i, l, r)'
    OBVIOUS
  <2>1. v = Operation(i, l, r)
    BY <1>7 DEF Finishing, Rests, Made
  <2> QED
    BY <1>9, <2>1
<1>11. FollowInv' /\ Steady /\ OneNew(i, v)
  BY <1>1, <1>2, <1>4, <1>6, <1>7, <1>9, <1>10, WrittenFollows
<1>12. GraphInv'
  BY <1>1, <1>2 DEF GraphInv, EdgesAreComplete, Nodes, Built
<1>13. SpanInv'
  BY <1>1, <1>2 DEF SpanInv, AddressLeaf, Nodes
<1>14. StringInv'
  BY <1>1 DEF StringInv, StringsAreMadeOnce, Owners, Nodes, LiveBytes
<1>15. FrameInv'
  <2>1. \A j \in Nodes : Current(j, mode)' <=> Current(j, mode) \/ j = Top.id
    <3>1. PICK m \in Modes : m = mode
      BY <1>1
    <3>2. \A j \in Nodes : Current(j, mode)' <=> Current(j, m)'
      BY <1>2, <3>1 DEF Current
    <3> QED
      BY <1>3, <1>8, <3>1, <3>2
  <2> QED
    BY <1>1, <1>2, <1>3, <1>4, <1>6, <2>1, PopFrames
<1> QED
  BY <1>8, <1>11, <1>12, <1>13, <1>14, <1>15 DEF RunInv, CoreInv, Grows

\* The loop finishes a node without operands.
LEMMA LeafKeeps == ASSUME RunInv, Leaf PROVE RunInv' /\ Steady /\ Grows
<1>1. /\ query # 0 /\ stack # <<>> /\ ~Current(Top.id, mode) /\ IsLeaf(Here, mode)
      /\ Finish(LeafValue(Here)) /\ graph' = graph /\ strings' = strings /\ Still
  BY DEF Leaf, Computing, Working, NoNewString
<1>2. CoreInv /\ GraphInv /\ StringInv /\ FrameInv /\ mode \in Modes /\ Top.id \in Nodes
  BY <1>1, TopFrame DEF RunInv, CoreInv, FrameInv
<1>3. Made(Top.id, mode) = LeafValue(Here) /\ Used(Top.id, mode) = {}
  BY <1>1 DEF Made, Used, Here
<1>4. Finishing(Top.id, LeafValue(Here))
  BY <1>2, <1>3, MadeFinishes
<1>5. IsValue(LeafValue(Here))
  BY <1>1, <1>2, LeafType DEF Here
<1> HIDE DEF Finish
<1> QED
  BY <1>1, <1>4, <1>5, FinishKeeps DEF IsValue

\* The loop finishes a node with what its first operand decides.
LEMMA FirstDoneKeeps == ASSUME RunInv, FirstDone PROVE RunInv' /\ Steady /\ Grows
<1>1. PICK l : l = MemoHere(First(Here, mode))
  OBVIOUS
<1>2. PICK v : v = PassedOn(Top.id, l, mode)
  OBVIOUS
<1>3. /\ query # 0 /\ stack # <<>> /\ ~Current(Top.id, mode) /\ Top.phase # 0
      /\ PassesOn(Here, l, mode)
      /\ Finish(v) /\ graph' = graph /\ strings' = strings /\ Still
  BY <1>1, <1>2 DEF FirstDone, Computing, Working, NoNewString
<1>4. /\ CoreInv /\ GraphInv /\ StringInv /\ MemoInv /\ FrameInv /\ mode \in Modes /\ Top.id \in Nodes
  BY <1>3, TopFrame DEF RunInv, CoreInv, FrameInv
<1>5. ~IsLeaf(Here, mode) /\ Current(First(Here, mode), mode)
  BY <1>3, <1>4, OperandsReady
<1>6. l = FirstValue(Top.id, mode) /\ Passes(Top.id, mode)
  BY <1>1, <1>3 DEF MemoHere, FirstValue, Passes, Here
<1>7. v = Made(Top.id, mode) /\ Used(Top.id, mode) = {First(Here, mode)}
  BY <1>2, <1>5, <1>6 DEF Made, Used, Here
<1>8. Finishing(Top.id, v)
  BY <1>4, <1>5, <1>7, MadeFinishes
<1>9. IsValue(v)
  BY <1>4, <1>6, <1>7, MadeType
<1> QED
  BY <1>3, <1>8, <1>9, FinishKeeps DEF IsValue

\* Going on to an operand: it is current, or its frame is pushed, or it closes a cycle.
LEMMA GoToKeeps ==
    ASSUME RunInv, Computing, ~IsLeaf(Here, mode), NEW child, NEW phase \in 1..2,
           child \in Used(Top.id, mode),
           phase = 1 => child = First(Here, mode),
           phase = 2 => /\ child = Here.right /\ Here.kind \in PairKinds /\ ~Redirected(Here, mode)
                        /\ Current(Here.left, mode),
           GoTo(child, phase)
    PROVE  RunInv' /\ Steady /\ Grows
<1>1. /\ query # 0 /\ stack # <<>> /\ ~Current(Top.id, mode)
      /\ graph' = graph /\ strings' = strings /\ Still
  BY DEF GoTo, Computing, Working, NoNewString
<1>2. /\ CoreInv /\ GraphInv /\ FrameInv /\ TwinInv /\ FollowInv /\ mode \in Modes /\ Top.id \in Nodes
  BY <1>1, TopFrame DEF RunInv, CoreInv, FrameInv
<1>3. child \in Nodes
  BY <1>2, UsedOperands
<1>4. /\ unit' = unit /\ bound' = bound /\ prefix' = prefix /\ parents' = parents /\ lowered' = lowered
      /\ references' = references /\ users' = users /\ placed' = placed /\ versions' = versions
      /\ mode' = mode /\ query' = query
  BY <1>1 DEF Still
<1>5. CASE \/ /\ Current(child, mode)
              /\ stack' = [stack EXCEPT ![Len(stack)].phase = phase]
              /\ visiting' = visiting \cup {Top.id} /\ memos' = memos
           \/ /\ ~Current(child, mode) /\ child \notin visiting \cup {Top.id}
              /\ stack' = Append([stack EXCEPT ![Len(stack)].phase = phase],
                                 [id |-> child, phase |-> 0])
              /\ visiting' = visiting \cup {Top.id} /\ memos' = memos
  <2>1. memos' = memos /\ visiting' = visiting \cup {Top.id}
    BY <1>5
  <2>2. FrameInv'
    BY <1>1, <1>2, <1>3, <1>4, <1>5, <2>1, WaitFrames
  <2>3. CoreInv' /\ TwinInv' /\ FollowInv' /\ Steady /\ NoneNew
    BY <1>1, <1>2, <1>4, <2>1, SameResults DEF structure
  <2> QED
    BY <2>2, <2>3 DEF RunInv, Grows
<1>6. CASE ~Current(child, mode) /\ Finish(CycleAt(child, phase))
  <2>1. phase = 2 => Here.left \in Nodes
    BY <1>2, FirstOperand DEF Here
  <2>2. Finishing(Top.id, CycleAt(child, phase)) /\ CycleAt(child, phase).state = "INVALID"
    BY <1>1, <1>2, <1>6, <2>1, CycleFinishes
  <2> QED
    BY <1>1, <1>6, <2>2, FinishKeeps
<1> QED
  BY <1>5, <1>6 DEF GoTo

\* The loop enters a node and turns to its first operand.
LEMMA DescendKeeps == ASSUME RunInv, Descend PROVE RunInv' /\ Steady /\ Grows
<1>1. Computing /\ ~IsLeaf(Here, mode) /\ GoTo(First(Here, mode), 1)
  BY DEF Descend
<1>2. First(Here, mode) \in Used(Top.id, mode)
  BY <1>1 DEF Used, Here
<1> QED
  BY <1>1, <1>2, GoToKeeps

\* The loop turns to the second operand.
LEMMA SecondKeeps == ASSUME RunInv, Second PROVE RunInv' /\ Steady /\ Grows
<1>1. /\ Computing /\ Top.phase = 1 /\ Here.kind \in PairKinds /\ GoTo(Here.right, 2)
      /\ ~PassesOn(Here, MemoHere(First(Here, mode)), mode)
      /\ stack # <<>>
  BY DEF Second, Computing, Working
<1>2. /\ CoreInv /\ GraphInv /\ FrameInv /\ mode \in Modes /\ Top.id \in Nodes
  BY <1>1, TopFrame DEF RunInv, CoreInv, FrameInv
<1>3. ~IsLeaf(Here, mode) /\ Current(First(Here, mode), mode)
  BY <1>1, <1>2, OperandsReady
<1>4. ~Passes(Top.id, mode) /\ ~Redirected(Here, mode)
  BY <1>1 DEF Passes, PassesOn, FirstValue, MemoHere, Here
<1>5. Here.right \in Used(Top.id, mode)
  BY <1>1, <1>3, <1>4 DEF Used, Here
<1>6. First(Here, mode) = Here.left
  BY <1>1, <1>2, <1>3, <1>4, FirstOperand DEF Here
<1> QED
  BY <1>1, <1>3, <1>4, <1>5, <1>6, GoToKeeps

\* A concatenation that gets its buffer: the graph and the strings.
LEMMA JoinGraph ==
    ASSUME GraphInv, SpanInv, StringInv, NEW i \in Nodes, NEW text \in Buffer,
           graph[i].kind = "BINARY", graph[i].op = "ADD", ~graph[i].joined,
           ~(Len(text) > LiveMax - LiveBytes),
           strings' = Append(strings, text),
           graph' = [graph EXCEPT ![i].joined = TRUE, ![i].extra = Len(strings) + 1],
           unit' = unit, bound' = bound, prefix' = prefix, parents' = parents, references' = references,
           users' = users, placed' = placed
    PROVE  /\ GraphInv' /\ SpanInv' /\ StringInv'
           /\ Nodes' = Nodes /\ \A j \in Nodes : Alike(graph'[j], graph[j]) /\ (j # i => graph'[j] = graph[j])
           /\ graph'[i].joined /\ graph'[i].extra = Len(strings) + 1
           /\ Extends(strings', strings)
<1>0. PICK next : next = Len(strings) + 1
  OBVIOUS
<1> DEFINE changed == [[graph[i] EXCEPT !.joined = TRUE] EXCEPT !.extra = next]
<1>1. /\ graph \in Seq(NodeType) /\ Len(graph) \in Nat /\ Len(graph) <= NodeLimit /\ i \in 1..Len(graph)
      /\ graph[i] \in NodeType /\ Built(graph[i])
  BY NodeFields DEF GraphInv, Nodes
<1>2. /\ strings \in Seq(Buffer) /\ Len(strings) \in Nat /\ next \in Int
  BY <1>0 DEF StringInv
<1>3. /\ strings' \in Seq(Buffer) /\ Len(strings') = next /\ \A k \in 1..Len(strings) : strings'[k] = strings[k]
      /\ Cardinality(BytesIn(strings')) = Cardinality(BytesIn(strings)) + Len(text)
  BY <1>0, <1>2, BytesAdded
<1>4. LiveBytes \in Nat /\ LiveBytes' = LiveBytes + Len(text) /\ Len(text) \in Nat
  <2>1. LiveBytes \in Nat
    BY <1>2, BytesFinite DEF LiveBytes
  <2>2. LiveBytes' = LiveBytes + Len(text)
    BY <1>3 DEF LiveBytes
  <2> QED
    BY <2>1, <2>2 DEF Buffer
<1>5. Extends(strings', strings)
  BY <1>0, <1>2, <1>3, <1>4 DEF Extends, LiveBytes
<1>6. PICK node : node = changed
  OBVIOUS
<1>7. /\ node \in NodeType /\ node.kind = graph[i].kind /\ node.op = graph[i].op
      /\ node.left = graph[i].left /\ node.right = graph[i].right /\ node.extra = next /\ node.joined
  <2>1. PICK n \in NodeType : n = graph[i]
    BY <1>1
  <2>2. node = JoinedAs(n, next)
    BY <1>6, <2>1 DEF JoinedAs
  <2> HIDE DEF changed
  <2>3. next \in Int
    BY <1>2
  <2>4. /\ node \in NodeType /\ node.kind = n.kind /\ node.op = n.op
        /\ node.left = n.left /\ node.right = n.right /\ node.extra = next /\ node.joined
    BY <2>1, <2>2, <2>3, JoinedNode
  <2> QED
    BY <2>1, <2>4
<1>8. graph' = [graph EXCEPT ![i] = node]
  BY <1>0, <1>1, <1>6
<1> HIDE DEF changed
<1>9. /\ graph' \in Seq(NodeType) /\ Len(graph') = Len(graph) /\ Nodes' = Nodes
      /\ graph'[i] = node /\ \A j \in Nodes : j # i => graph'[j] = graph[j]
  <2>1. /\ [graph EXCEPT ![i] = node] \in Seq(NodeType)
        /\ Len([graph EXCEPT ![i] = node]) = Len(graph)
        /\ \A j \in 1..Len(graph) : [graph EXCEPT ![i] = node][j] = IF j = i THEN node ELSE graph[j]
    BY <1>1, <1>7, ExceptSeq
  <2> QED
    BY <1>1, <1>8, <2>1 DEF Nodes
<1>10. \A j \in Nodes : /\ Alike(graph'[j], graph[j]) /\ (j # i => graph'[j] = graph[j])
                        /\ graph'[j].kind = graph[j].kind /\ graph'[j].left = graph[j].left
  BY <1>7, <1>9 DEF Alike
<1>11. \A j \in Nodes : Operands(graph'[j], bound, prefix) = Operands(graph[j], bound, prefix)
  <2>1. Operands(node, bound, prefix) = Operands(graph[i], bound, prefix)
    BY <1>7 DEF Operands, LiteralKinds, PairKinds
  <2> QED
    BY <1>9, <2>1
<1>12. GraphInv'
  <2>1. \A j \in Nodes : Built(graph'[j])
    <3>1. Built(node)
      BY <1>1, <1>7 DEF Built
    <3> QED
      BY <1>9, <3>1 DEF GraphInv
  <2>2. UsersIn(graph', "REFERENCE", Definitions) = UsersIn(graph, "REFERENCE", Definitions)
        /\ UsersIn(graph', "ADDRESS", Anchors) = UsersIn(graph, "ADDRESS", Anchors)
    BY <1>9, <1>10 DEF UsersIn, Nodes
  <2>3. EdgesAreComplete'
    BY <1>9, <1>11 DEF GraphInv, EdgesAreComplete
  <2>4. \A j \in Nodes : Operands(graph'[j], bound', prefix') \subseteq Nodes
    BY <1>11 DEF GraphInv
  <2>5. references' = UsersIn(graph', "REFERENCE", Definitions) /\ users' = UsersIn(graph', "ADDRESS", Anchors)
    BY <2>2 DEF GraphInv
  <2>6. UsersIn(graph, "REFERENCE", Definitions)' = UsersIn(graph', "REFERENCE", Definitions)
        /\ UsersIn(graph, "ADDRESS", Anchors)' = UsersIn(graph', "ADDRESS", Anchors)
    OBVIOUS
  <2> QED
    BY <1>1, <1>9, <2>1, <2>3, <2>4, <2>5, <2>6 DEF GraphInv
<1>13. SpanInv'
  <2>1. \A j \in Nodes : AddressLeaf(j)' <=> AddressLeaf(j)
    <3> DEFINE Leads(k, s)  == \/ graph[k].kind = "ADDRESS"
                               \/ graph[k].kind = "REFERENCE" /\ bound[graph[k].left] \in s
               Leads2(k, s) == \/ graph'[k].kind = "ADDRESS"
                               \/ graph'[k].kind = "REFERENCE" /\ bound[graph'[k].left] \in s
    <3>1. \A j : AddressLeaf(j)  <=> \A s \in SUBSET Nodes : (\A k \in Nodes : Leads(k, s) => k \in s) => j \in s
      BY DEF AddressLeaf
    <3>2. \A j : AddressLeaf(j)' <=> \A s \in SUBSET Nodes : (\A k \in Nodes : Leads2(k, s) => k \in s) => j \in s
      BY <1>9 DEF AddressLeaf
    <3>3. \A k \in Nodes : \A s : Leads(k, s) <=> Leads2(k, s)
      BY <1>10
    <3> HIDE DEF Leads, Leads2
    <3> QED
      BY <3>1, <3>2, <3>3
  <2>2. ASSUME NEW j \in Nodes, graph'[j].kind = "SPAN"
        PROVE  AddressLeaf(graph[j].left)' /\ AddressLeaf(graph[j].right)'
    <3>1. graph'[j] = graph[j] /\ graph[j].kind = "SPAN" /\ j # i
      BY <1>7, <1>9, <2>2
    <3>2. graph[j].left \in Nodes /\ graph[j].right \in Nodes
      <4>1. Operands(graph[j], bound, prefix) = {graph[j].left, graph[j].right, graph[j].extra}
        BY <3>1 DEF Operands, LiteralKinds, PairKinds
      <4> QED
        BY <4>1 DEF GraphInv
    <3>3. PICK f, g : f = graph[j].left /\ g = graph[j].right
      OBVIOUS
    <3>4. AddressLeaf(f) /\ AddressLeaf(g) /\ f \in Nodes /\ g \in Nodes
      BY <3>1, <3>2, <3>3 DEF SpanInv
    <3>5. AddressLeaf(f)' /\ AddressLeaf(g)'
      BY <2>1, <3>4
    <3> QED
      BY <3>1, <3>3, <3>5
  <2> QED
    BY <1>9, <2>2 DEF SpanInv
<1>14. StringInv'
  <2>1. Owners' = Owners \cup {i} /\ i \notin Owners
    <3>1. \A j : j \in Owners' <=> j \in Nodes /\ (graph'[j].kind = "STRING" \/ graph'[j].joined)
      BY <1>9 DEF Owners
    <3>2. \A j : j \in Owners <=> j \in Nodes /\ (graph[j].kind = "STRING" \/ graph[j].joined)
      BY DEF Owners
    <3>3. i \notin Owners /\ i \in Owners'
      BY <1>7, <1>9, <3>1, <3>2
    <3>4. \A j : j # i => (j \in Owners <=> j \in Owners')
      BY <1>9, <3>1, <3>2
    <3> QED
      BY <3>3, <3>4
  <2>2. IsFiniteSet(Owners)
    <3>1. IsFiniteSet(1..Len(graph))
      BY <1>1, Interval
    <3> QED
      BY <3>1, FS_Subset DEF Owners, Nodes
  <2>3. /\ Len(strings) = Cardinality(Owners) /\ LiveBytes <= LiveMax
        /\ \A j, k \in Nodes :
              j # k /\ graph[j].joined /\ (graph[k].joined \/ graph[k].kind = "STRING")
                  => graph[j].extra # graph[k].extra
        /\ \A j \in Owners : graph[j].extra \in 1..Len(strings)
    BY Owned DEF StringInv
  <2>4. Cardinality(Owners') = Cardinality(Owners) + 1
    BY <2>1, <2>2, FS_AddElement
  <2>5. Len(strings') = Cardinality(Owners')
    BY <1>0, <1>3, <2>3, <2>4
  <2>6. LiveBytes' <= LiveMax
    BY <1>4, <2>3, GraphAssumption
  <2>7. \A j \in Owners' : graph'[j].extra \in 1..Len(strings')
    <3>1. ASSUME NEW j \in Owners PROVE graph'[j].extra \in 1..Len(strings')
      <4>1. j \in Nodes /\ j # i
        BY <2>1 DEF Owners
      <4>2. graph'[j] = graph[j]
        BY <1>9, <4>1
      <4> QED
        BY <1>0, <1>2, <1>3, <2>3, <4>2
    <3>2. graph'[i].extra \in 1..Len(strings')
      BY <1>0, <1>2, <1>3, <1>7, <1>9
    <3> QED
      BY <2>1, <3>1, <3>2
  <2>8. ASSUME NEW j \in Nodes, NEW k \in Nodes, j # k, graph'[j].joined,
               graph'[k].joined \/ graph'[k].kind = "STRING"
        PROVE  graph'[j].extra # graph'[k].extra
    <3>1. ASSUME NEW x \in Nodes, x # i, graph'[x].joined \/ graph'[x].kind = "STRING"
          PROVE  graph'[x] = graph[x] /\ graph'[x].extra \in 1..Len(strings)
      <4>1. graph'[x] = graph[x]
        BY <1>9, <3>1
      <4>2. x \in Owners
        BY <3>1, <4>1 DEF Owners
      <4> QED
        BY <2>3, <4>1, <4>2
    <3>2. graph'[i].extra = next /\ next \notin 1..Len(strings)
      BY <1>0, <1>2, <1>7, <1>9
    <3>3. CASE j = i
      BY <2>8, <3>1, <3>2, <3>3
    <3>4. CASE k = i
      BY <2>8, <3>1, <3>2, <3>4
    <3>5. CASE j # i /\ k # i
      <4>1. graph'[j] = graph[j] /\ graph'[k] = graph[k]
        BY <2>8, <3>1, <3>5
      <4> QED
        BY <2>3, <2>8, <4>1
    <3> QED
      BY <3>3, <3>4, <3>5
  <2>9. StringsAreMadeOnce'
    <3>1. Nodes' = Nodes
      BY <1>9
    <3>2. Len(strings') = Cardinality({j \in Nodes : graph[j].kind = "STRING" \/ graph[j].joined})'
      BY <2>5 DEF Owners
    <3> QED
      BY <2>6, <2>8, <3>1, <3>2 DEF StringsAreMadeOnce
  <2> QED
    BY <1>3, <2>7, <2>9 DEF StringInv
<1> QED
  BY <1>0, <1>5, <1>7, <1>9, <1>10, <1>12, <1>13, <1>14

\* The concatenation that got its buffer has it when it is evaluated again.
LEMMA JoinedAgain ==
    ASSUME GraphInv, StringInv, NEW i \in Nodes, graph[i].kind \in OperationKinds, ~graph[i].joined,
           NEW l, NEW r, NEW v, IsValue(l), IsValue(r), l.state # "INVALID",
           v = Operation(i, l, r), v.state = "KNOWN", v.kind = "STRING",
           Alike(graph'[i], graph[i]), graph'[i].joined, graph'[i].extra = Len(strings) + 1
    PROVE  v = Operation(i, l, r)'
<1>1. /\ Ready(l, r) /\ v.flags = {} /\ StringResult(i, l, r, v.num) /\ v \in ValueType
  BY OperationType
<1>2. PICK c : c = Computed(i, l, r)
  OBVIOUS
<1>3. PICK fs : fs = l.flags \cup r.flags
  OBVIOUS
<1>4. fs = {}
  BY <1>1, <1>3 DEF StringResult
<1>5. v = WithFlags(c, fs)
  BY <1>1, <1>2, <1>3 DEF Operation, Ready
<1>6. c \in ValueType
  BY <1>1, <1>2, ComputedType
<1>7. c.state = "KNOWN" /\ c.kind = "STRING"
  BY <1>4, <1>5, <1>6, WithFlagsFields
<1>8. PICK w : w = Worked(i, l, r)
  OBVIOUS
<1>9. w.error = "NONE" /\ w.value.kind = "STRING"
  <2>1. c = IF w.error # "NONE" THEN Invalid(w.error, i)
            ELSE IF w.value.kind = "STRING" THEN Known("STRING", Len(strings) + 1)
            ELSE Known(w.value.kind, w.value.num)
    BY <1>2, <1>8, ComputedWorked
  <2>2. w.error = "NONE"
    BY <1>7, <2>1, InvalidFields
  <2> QED
    BY <1>7, <2>1, <2>2, KnownFields
<1>10. c = Known("STRING", Len(strings) + 1)
  BY <1>2, <1>8, <1>9, ComputedWorked
<1>11. /\ graph[i].kind = "BINARY" /\ Stringy(l, r)
       /\ "EXTENT" \notin {l.kind, r.kind} /\ "LAYOUT" \notin l.flags \cup r.flags
  BY <1>1, <1>8, <1>9, WorkedType
<1>12. graph'[i].kind = "BINARY" /\ graph'[i].kind \notin ExtentKinds
  BY <1>11 DEF Alike, ExtentKinds
<1>13. PICK b : b = strings'[graph'[i].extra]
  OBVIOUS
<1>14. Worked(i, l, r)' = Gives(StringValue(b))
  BY <1>11, <1>12, <1>13 DEF Worked
<1>15. Gives(StringValue(b)).error = "NONE" /\ Gives(StringValue(b)).value.kind = "STRING"
  BY DEF Gives, StringValue
<1>16. Computed(i, l, r)' = c
  <2>1. Computed(i, l, r)' =
           (IF Worked(i, l, r).error # "NONE" THEN Invalid(Worked(i, l, r).error, i)
            ELSE IF Worked(i, l, r).value.kind = "STRING"
            THEN Known("STRING", IF graph[i].joined THEN graph[i].extra ELSE Len(strings) + 1)
            ELSE Known(Worked(i, l, r).value.kind, Worked(i, l, r).value.num))'
    BY DEF Computed, Worked
  <2> QED
    BY <1>10, <1>14, <1>15, <2>1 DEF Known
<1>17. Operation(i, l, r)' = WithFlags(Computed(i, l, r), fs)'
  BY <1>1, <1>3 DEF Operation, Ready
<1> QED
  BY <1>5, <1>16, <1>17 DEF WithFlags

\* The loop finishes a node with its operation, which may make a buffer.
LEMMA CombineKeeps == ASSUME RunInv, Combine PROVE RunInv' /\ Steady /\ Grows
<1>1. /\ query # 0 /\ stack # <<>> /\ ~Current(Top.id, mode) /\ Still
      /\ Top.phase = (IF Here.kind \in PairKinds THEN 2 ELSE 1)
  BY DEF Combine, Computing, Working
<1>2. PICK l : /\ l = MemoHere(First(Here, mode)) /\ ~PassesOn(Here, l, mode)
               /\ \E r \in {IF Here.kind \in PairKinds THEN MemoHere(Here.right) ELSE Known("INTEGER", 0)} :
                  \E v \in {Operation(Top.id, l, r)} :
                     /\ Finish(v)
                     /\ IF NewJoin(Top.id, v)
                        THEN /\ strings' = Append(strings, Text(ValueOf(l)) \o Text(ValueOf(r)))
                             /\ graph' = [graph EXCEPT ![Top.id].joined = TRUE,
                                                       ![Top.id].extra = Len(strings) + 1]
                        ELSE NoNewString
  BY DEF Combine
<1>3. PICK r : /\ r = (IF Here.kind \in PairKinds THEN MemoHere(Here.right) ELSE Known("INTEGER", 0))
               /\ \E v \in {Operation(Top.id, l, r)} :
                     /\ Finish(v)
                     /\ IF NewJoin(Top.id, v)
                        THEN /\ strings' = Append(strings, Text(ValueOf(l)) \o Text(ValueOf(r)))
                             /\ graph' = [graph EXCEPT ![Top.id].joined = TRUE,
                                                       ![Top.id].extra = Len(strings) + 1]
                        ELSE NoNewString
  BY <1>2
<1>4. PICK v : /\ v = Operation(Top.id, l, r) /\ Finish(v)
               /\ IF NewJoin(Top.id, v)
                  THEN /\ strings' = Append(strings, Text(ValueOf(l)) \o Text(ValueOf(r)))
                       /\ graph' = [graph EXCEPT ![Top.id].joined = TRUE, ![Top.id].extra = Len(strings) + 1]
                  ELSE NoNewString
  BY <1>3
<1>5. /\ CoreInv /\ GraphInv /\ SpanInv /\ StringInv /\ MemoInv /\ FrameInv /\ TwinInv /\ FollowInv
      /\ mode \in Modes
  BY DEF RunInv, CoreInv, FrameInv
<1>6. PICK i \in Nodes : i = Top.id
  BY <1>1, <1>5, TopFrame
<1>7. /\ ~IsLeaf(graph[i], mode) /\ Current(First(graph[i], mode), mode)
      /\ graph[i].kind \in PairKinds => Current(graph[i].right, mode)
  BY <1>1, <1>5, <1>6, OperandsReady DEF Here
<1>8. l = FirstValue(i, mode) /\ r = SecondValue(i, mode) /\ ~Passes(i, mode)
  <2>1. l = FirstValue(i, mode)
    BY <1>2, <1>6 DEF FirstValue, MemoHere, Here
  <2>2. r = SecondValue(i, mode)
    BY <1>3, <1>6 DEF SecondValue, MemoHere, Here
  <2> QED
    BY <1>2, <1>6, <2>1, <2>2 DEF Passes, Here
<1>9. v = Made(i, mode) /\ \A c \in Used(i, mode) : Current(c, mode)
  BY <1>4, <1>6, <1>7, <1>8 DEF Made, Used
<1>10. Finishing(i, v)
  BY <1>5, <1>9, MadeFinishes
<1>11. /\ graph[i].kind \in OperationKinds /\ IsValue(l) /\ IsValue(r) /\ l.state # "INVALID"
       /\ v.state = "KNOWN" /\ v.kind = "STRING" => v.flags = {} /\ StringResult(i, l, r, v.num)
  BY <1>5, <1>7, <1>8, <1>9, MadeType
<1>12. CASE ~NewJoin(i, v)
  <2>1. v.state = "KNOWN" /\ v.kind = "STRING" => v.num \in 1..Len(strings)
    BY <1>11, <1>12 DEF NewJoin, StringResult
  <2>2. graph' = graph /\ strings' = strings
    BY <1>4, <1>6, <1>12 DEF NoNewString
  <2> QED
    BY <1>1, <1>4, <1>6, <1>10, <2>1, <2>2, FinishKeeps
<1>13. CASE NewJoin(i, v)
  <2>1. PICK text : text = Joined(l, r)
    OBVIOUS
  <2>2. /\ v.state = "KNOWN" /\ v.kind = "STRING" /\ v.flags = {} /\ ~graph[i].joined
        /\ graph[i].kind = "BINARY" /\ graph[i].op = "ADD" /\ v.num = Len(strings) + 1
        /\ text \in Buffer /\ ~(Len(text) > LiveMax - LiveBytes)
    BY <1>11, <1>13, <2>1 DEF NewJoin, StringResult
  <2>3. /\ strings' = Append(strings, text)
        /\ graph' = [graph EXCEPT ![i].joined = TRUE, ![i].extra = Len(strings) + 1]
    BY <1>4, <1>6, <1>13, <2>1 DEF Joined
  <2>4. /\ unit' = unit /\ bound' = bound /\ prefix' = prefix /\ parents' = parents
        /\ references' = references /\ users' = users /\ placed' = placed /\ versions' = versions
        /\ mode' = mode /\ query' = query
    BY <1>1 DEF Still
  <2>5. /\ GraphInv' /\ SpanInv' /\ StringInv'
        /\ Nodes' = Nodes /\ \A j \in Nodes : Alike(graph'[j], graph[j]) /\ (j # i => graph'[j] = graph[j])
        /\ graph'[i].joined /\ graph'[i].extra = Len(strings) + 1
        /\ Extends(strings', strings)
    BY <1>5, <2>2, <2>3, <2>4, JoinGraph
  <2>6. /\ Len(strings) \in Nat /\ Len(strings') \in Nat /\ Len(strings') = Len(strings) + 1
    <3>1. strings \in Seq(Buffer)
      BY <1>5 DEF StringInv
    <3> QED
      BY <2>2, <2>3, <3>1, BytesAdded
  <2>7. memos' = Written(i, v) /\ visiting' = visiting \ {i} /\ stack' = Popped /\ ~Current(i, mode)
    BY <1>1, <1>4, <1>6 DEF Finish, Written
  <2>8. /\ Len(strings) <= Len(strings')
        /\ v.state = "KNOWN" /\ v.kind = "STRING" => v.num \in 1..Len(strings')
    BY <2>2, <2>6
  <2>9. /\ MemoInv' /\ TwinInv' /\ Current(i, mode)'
        /\ \A j \in Nodes, m \in Modes : (Current(j, m)' => Current(j, m) \/ j = i) /\ (Current(j, m) => Current(j, m)')
    BY <1>5, <1>10, <2>4, <2>5, <2>6, <2>7, <2>8, WrittenMemos
  <2>10. Shared(v) /\ v.state = "KNOWN" /\ v.kind = "STRING" /\ v.num \notin 1..Len(strings)
    BY <2>2, <2>6 DEF Shared
  <2>11. \A j \in Nodes : \A x, y :
             /\ j # i \/ graph'[i] = graph[i]
             /\ graph[j].kind \in OperationKinds
             /\ IsValue(x) /\ IsValue(y) /\ x.state # "INVALID" /\ IsValue(Operation(j, x, y))
             => Operation(j, x, y)' = Operation(j, x, y)
    <3> SUFFICES ASSUME NEW j \in Nodes, NEW x, NEW y, j # i \/ graph'[i] = graph[i],
                        graph[j].kind \in OperationKinds, IsValue(x), IsValue(y), IsValue(Operation(j, x, y))
                 PROVE  Operation(j, x, y)' = Operation(j, x, y)
      OBVIOUS
    <3>1. graph'[j] = graph[j]
      BY <2>5
    <3> QED
      BY <1>5, <2>5, <3>1, OperationStable
  <2>12. \A x, y : x = FirstValue(i, mode) /\ y = SecondValue(i, mode) => v = Operation(i, x, y)'
    <3>1. v = Operation(i, l, r)'
      BY <1>4, <1>5, <1>6, <1>11, <2>2, <2>5, JoinedAgain
    <3> QED
      BY <1>8, <3>1
  <2>13. FollowInv' /\ Steady /\ OneNew(i, v)
    BY <1>5, <1>10, <2>4, <2>5, <2>6, <2>7, <2>8, <2>10, <2>11, <2>12, WrittenFollows
  <2>14. FrameInv'
    <3>1. PICK m \in Modes : m = mode
      BY <1>5
    <3>2. \A j \in Nodes : Current(j, mode)' <=> Current(j, m)'
      BY <2>4, <3>1 DEF Current
    <3>3. \A j \in Nodes : Current(j, mode)' <=> Current(j, mode) \/ j = Top.id
      BY <1>6, <2>9, <3>1, <3>2
    <3> QED
      BY <1>1, <1>5, <1>6, <2>4, <2>5, <2>7, <3>3, PopFrames
  <2> QED
    BY <2>5, <2>9, <2>13, <2>14 DEF RunInv, CoreInv, Grows
<1> QED
  BY <1>12, <1>13

-----------------------------------------------------------------------------
(* The theorems *)

\* What a step leaves alone that neither touches the graph nor its memos.
LEMMA IdleKeeps ==
    ASSUME ValueInv, structure' = structure, placed' = placed, memos' = memos, versions' = versions
    PROVE  /\ CoreInv'
           /\ FrameInv' /\ mode' = mode /\ RunInv => RunInv' /\ Steady /\ NoneNew
BY SameResults DEF ValueInv, RunInv

\* A request keeps the invariant.
LEMMA RequestKeeps ==
    ASSUME RunInv, NEW i \in Nodes, NEW m \in Modes, Request(i, m)
    PROVE  RunInv' /\ Steady /\ NoneNew
<1>1. /\ unit' = unit /\ graph' = graph /\ strings' = strings /\ prefix' = prefix /\ bound' = bound
      /\ references' = references /\ users' = users /\ parents' = parents /\ placed' = placed
  BY DEF Request, structure
<1>2. GraphInv'
  BY <1>1 DEF RunInv, CoreInv, GraphInv, EdgesAreComplete, Nodes, Built
<1>3. SpanInv'
  BY <1>1 DEF RunInv, CoreInv, SpanInv, AddressLeaf, Nodes
<1>4. StringInv'
  BY <1>1 DEF RunInv, CoreInv, StringInv, StringsAreMadeOnce, Owners, Nodes, LiveBytes
<1> QED
  BY <1>2, <1>3, <1>4, RequestFrames, RequestResults DEF RunInv, CoreInv

\* Every change between two queries keeps the invariant, or records an error.
LEMMA ChangeKeeps ==
    ASSUME ValueInv, Change
    PROVE  ValueInv' /\ (error' = "NONE" => RunInv /\ Steady /\ NoneNew)
<1>1. query = 0 /\ error = "NONE" /\ RunInv /\ query' = query /\ mode' = mode
      /\ stack' = stack /\ visiting' = visiting
  BY DEF Change, Rebind, Bind, Place, SetPrefix, AppendNode, LowerSpans, Quiet, ValueInv, running
<1>2. FrameInv'
  BY <1>1, IdleFrames DEF RunInv
<1>3. GraphInv /\ SpanInv /\ StringInv /\ CoreInv /\ TwinInv /\ FollowInv
  BY <1>1 DEF RunInv, CoreInv
<1>4. SUFFICES CoreInv' /\ (error' = "NONE" => RunInv' /\ Steady /\ NoneNew)
  BY <1>1 DEF ValueInv
<1>5. ASSUME NEW d \in Definitions, Rebind(d) PROVE CoreInv' /\ error' # "NONE"
  BY <1>5, IdleKeeps DEF Rebind
<1>6. ASSUME NEW d \in Definitions, NEW e \in Nodes, Bind(d, e) PROVE RunInv' /\ Steady /\ NoneNew
  BY <1>2, <1>3, <1>6, BindGraph, BindResults DEF RunInv, CoreInv
<1>7. ASSUME NEW a \in Anchors, NEW where \in Addresses \cup {Unplaced}, Place(a, where) PROVE RunInv' /\ Steady /\ NoneNew
  BY <1>2, <1>3, <1>7, PlaceGraph, PlaceResults DEF RunInv, CoreInv
<1>8. ASSUME NEW a \in Anchors, NEW e \in Nodes, SetPrefix(a, e) PROVE RunInv' /\ Steady /\ NoneNew
  BY <1>2, <1>3, <1>8, PrefixGraph, PrefixResults DEF RunInv, CoreInv
<1>9. ASSUME NEW n \in unit.late, AppendNode(n) PROVE RunInv' /\ Steady /\ NoneNew
  <2>1. GraphInv' /\ SpanInv' /\ StringInv'
    BY <1>3, <1>9, AppendGraph
  <2>2. graph' \in Seq(NodeType) /\ Len(graph') <= NodeLimit
    BY <2>1 DEF GraphInv
  <2> QED
    BY <1>2, <1>3, <1>9, <2>1, <2>2, AppendResults DEF RunInv, CoreInv
<1>10. ASSUME NEW which \in [Differences -> {0} \cup (unit.spans \cap Nodes)], LowerSpans(which) PROVE RunInv' /\ Steady /\ NoneNew
  <2>1. \A i \in Differences : which[i] \in {0} \cup Nodes
    OBVIOUS
  <2>2. /\ GraphInv' /\ SpanInv' /\ StringInv'
        /\ Nodes' = Nodes /\ \A i \in Nodes \ Differences : graph'[i] = graph[i]
    BY <1>3, <1>10, <2>1, LowerGraph
  <2> QED
    BY <1>2, <1>3, <1>10, <2>2, LowerResults DEF RunInv, CoreInv
<1> QED
  BY <1>5, <1>6, <1>7, <1>8, <1>9, <1>10 DEF Change, RunInv

\* Every turn of the evaluator's loop and its answer keep the invariant.
LEMMA StepKeeps ==
    ASSUME RunInv, Step
    PROVE  RunInv' /\ Steady /\ Grows
<1>1. CASE AlreadyCurrent
  <2>1. FrameInv'
    BY <1>1, CurrentFrames DEF RunInv, CoreInv
  <2>2. structure' = structure /\ placed' = placed /\ memos' = memos /\ versions' = versions /\ mode' = mode
    BY <1>1 DEF AlreadyCurrent, NoNewString, Still, structure
  <2> QED
    BY <2>1, <2>2, SameResults DEF RunInv, Grows
<1>2. CASE Answer
  <2>1. /\ structure' = structure /\ placed' = placed /\ memos' = memos /\ versions' = versions
        /\ mode' = mode /\ query' = 0 /\ stack = <<>> /\ stack' = stack /\ visiting' = visiting
    BY <1>2 DEF Answer
  <2>2. visiting = {} /\ mode \in Modes
    <3>1. {k \in 1..Len(stack) : stack[k].phase # 0} = {}
      BY <2>1
    <3> QED
      BY <3>1 DEF RunInv, FrameInv
  <2>3. FrameInv'
    BY <2>1, <2>2 DEF FrameInv
  <2> QED
    BY <2>1, <2>3, SameResults DEF RunInv, Grows
<1> QED
  BY <1>1, <1>2, LeafKeeps, DescendKeeps, FirstDoneKeeps, SecondKeeps, CombineKeeps DEF Step

\* The inductive step.
LEMMA NextKeeps ==
    ValueInv /\ [Next]_vars => ValueInv' /\ (error' = "NONE" => RunInv /\ RunInv' /\ Steady /\ Grows)
<1> DEFINE goal == ValueInv' /\ (error' = "NONE" => RunInv /\ RunInv' /\ Steady /\ Grows)
<1> SUFFICES ASSUME ValueInv, [Next]_vars PROVE goal
  OBVIOUS
<1>1. \A i \in Nodes : i \in 0..NodeLimit
  BY NodeFields DEF ValueInv, CoreInv, NodeRange
<1>2. ASSUME RunInv' PROVE ValueInv'
  <2>1. \A i \in Nodes' : i \in 0..NodeLimit
    <3>1. Len(graph') \in Nat /\ Len(graph') <= NodeLimit /\ NodeLimit \in Nat
      BY <1>2, GraphAssumption DEF RunInv, CoreInv, GraphInv
    <3> QED
      BY <3>1 DEF Nodes
  <2>2. mode' \in Modes' /\ query' \in {0} \cup Nodes' /\ Modes' = Modes
    BY <1>2 DEF RunInv, FrameInv, Modes
  <2> QED
    BY <1>2, <2>1, <2>2, GraphAssumption DEF ValueInv, RunInv
<1>3. CASE Change
  <2>1. ValueInv' /\ (error' = "NONE" => RunInv /\ Steady /\ NoneNew)
    BY <1>3, ChangeKeeps
  <2> QED
    BY <2>1 DEF ValueInv, Grows
<1>4. ASSUME NEW i \in unit.roots \cap Nodes, NEW m \in Modes, Request(i, m) PROVE goal
  <2>1. RunInv
    BY <1>4 DEF Request, Quiet, ValueInv
  <2> QED
    BY <1>2, <1>4, <2>1, RequestKeeps DEF Grows
<1>5. CASE Step
  <2>1. error = "NONE"
    BY <1>5 DEF Step, AlreadyCurrent, Leaf, Descend, FirstDone, Second, Combine, Computing, Working, Answer
  <2> QED
    BY <1>2, <1>5, <2>1, StepKeeps DEF ValueInv
<1>6. CASE RunsOut
  <2>1. /\ structure' = structure /\ placed' = placed /\ memos' = memos /\ versions' = versions
        /\ mode' = mode /\ query' = 0 /\ error' # "NONE"
    BY <1>6 DEF RunsOut
  <2> QED
    BY <2>1, IdleKeeps, GraphAssumption DEF ValueInv
<1>7. CASE UNCHANGED vars
  <2>1. /\ structure' = structure /\ placed' = placed /\ memos' = memos /\ versions' = versions
        /\ mode' = mode /\ query' = query /\ error' = error /\ stack' = stack /\ visiting' = visiting
        /\ graph' = graph /\ bound' = bound /\ prefix' = prefix
    BY <1>7 DEF vars, running, structure
  <2>2. ASSUME FrameInv PROVE FrameInv'
    <3>1. \A k : Waits(k)' = Waits(k)
      BY <2>1 DEF Waits, Awaits, Current, IsLeaf, First, Redirected
    <3>2. Frame' = Frame /\ Nodes' = Nodes
      BY <2>1 DEF Frame, Nodes
    <3> QED
      BY <2>1, <2>2, <3>1, <3>2 DEF FrameInv
  <2> QED
    BY <2>1, <2>2, IdleKeeps DEF ValueInv, RunInv, Grows
<1> QED
  BY <1>3, <1>4, <1>5, <1>6, <1>7 DEF Next

\* The inductive invariant holds in every state a unit can reach.
LEMMA InvariantHolds == Spec => []ValueInv
<1>1. ValueInv /\ [Next]_vars => ValueInv'
  BY NextKeeps
<1> QED
  BY <1>1, InitInv, PTL DEF Spec

\* A unit stays well formed, whatever is bound, placed, appended, lowered and queried
\* in whichever order and however it fails: a version counter never takes the value
\* zero, no known value can be taken for a stamp, and no node is left marked as being
\* visited that is not on the stack of the evaluator.
THEOREM TypeCorrect == Spec => []TypeOK
<1>1. ASSUME ValueInv PROVE TypeOK
  <2>1. GraphInv /\ MemoInv /\ mode \in Modes /\ query \in 0..NodeLimit
    BY <1>1 DEF ValueInv, CoreInv
  <2>2. \A i \in {0} \cup Nodes : i \in 0..NodeLimit
    BY <2>1, GraphAssumption, NodeFields DEF NodeRange
  <2>3. \A i \in Nodes : i \in NodeRange
    BY <2>1, NodeFields
  <2>4. /\ graph \in Seq(NodeType) /\ Len(graph) <= NodeLimit
        /\ bound \in [Definitions -> 0..NodeLimit] /\ prefix \in [Anchors -> 0..NodeLimit]
        /\ placed \in [Anchors -> Addresses \cup {Unplaced}]
        /\ parents \in [NodeRange -> SUBSET NodeRange]
    BY <2>1, <2>2, <2>3 DEF GraphInv
  <2>5. /\ \A i \in NodeRange, m \in Modes : memos[i][m] \in MemoType
        /\ PayloadIsUnambiguous
        /\ versions \in [{"bindings", "layout", "request"} -> 1..Epochs - 1]
    BY <2>1 DEF MemoInv
  <2>6. error = "NONE" => visiting \subseteq {stack[k].id : k \in DOMAIN stack}
    <3> SUFFICES ASSUME error = "NONE" PROVE visiting \subseteq {stack[k].id : k \in DOMAIN stack}
      OBVIOUS
    <3>1. FrameInv
      BY <1>1 DEF ValueInv, RunInv
    <3>2. DOMAIN stack = 1..Len(stack)
      BY <3>1 DEF FrameInv
    <3> QED
      BY <3>1, <3>2 DEF FrameInv
  <2> QED
    BY <2>1, <2>4, <2>5, <2>6 DEF TypeOK
<1> QED
  BY <1>1, InvariantHolds, PTL

\* A concatenation has one buffer of its own, however often and in whichever mode it
\* is evaluated, and the buffers never hold more than the budget of live strings
\* (string_operation and add_string in ir/value.c).
THEOREM BuffersAreMadeOnce == Spec => []StringsAreMadeOnce
<1>1. ValueInv => StringsAreMadeOnce
  BY DEF ValueInv, CoreInv, StringInv
<1> QED
  BY <1>1, InvariantHolds, PTL

\* What current() accepts agrees with operands that current() accepts as well, in the
\* mode of the memo or, for a constant, in the other one: no binding, placement, prefix,
\* lowered span or wrapped counter leaves a result behind that has lost its ground.
THEOREM MemosAreJustified == Spec => []MemosFollowOperands
<1>1. ASSUME ValueInv PROVE MemosFollowOperands
  <2>1. ASSUME error = "NONE" PROVE EdgesAreComplete /\ FollowInv
    BY <1>1, <2>1 DEF ValueInv, RunInv, CoreInv, GraphInv
  <2> QED
    BY <2>1 DEF MemosFollowOperands, FollowInv, Justified
<1> QED
  BY <1>1, InvariantHolds, PTL
=============================================================================
