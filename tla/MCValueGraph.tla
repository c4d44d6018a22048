---------------------------- MODULE MCValueGraph ----------------------------
(* Small expression graphs, one per mechanism that keeps memos honest. *)
EXTENDS ValueGraphReference

N(kind, op, left, right, extra) ==
    [kind |-> kind, op |-> op, left |-> left, right |-> right, extra |-> extra, joined |-> FALSE]
I(v) == N("INTEGER", "", v, 0, 0)
R(d) == N("REFERENCE", "", d, 0, 0)
A(a) == N("ADDRESS", "", a, 0, 0)
B(op, l, r) == N("BINARY", op, l, r, 0)

Unit(nodes, strs) ==
    [nodes |-> nodes, strings |-> strs, binds |-> {}, places |-> {}, prefixes |-> {}, late |-> {},
     spans |-> {}, roots |-> DOMAIN nodes]

\* A difference of addresses under a count, with an extent to lower it to.
SpanUnit ==
    [Unit(<<A(1), A(2), B("SUBTRACT", 1, 2), N("EXTENT_COUNT", "", 3, 0, 2),
            N("EXTENT_LITERAL", "", 1, 0, 0)>>, <<>>)
     EXCEPT !.late = {N("EXTENT_INTEGER", "", 5, 0, 0)}, !.spans = {6},
            !.places = {<<1, 1>>, <<2, 0>>, <<2, 1>>}, !.roots = {4}]

\* A definition that may close a cycle, under a quotient with an operand ahead
\* of it.
CycleUnit ==
    [Unit(<<R(1), A(1), B("ADD", 2, 1), B("DIVIDE", 3, 1)>>, <<>>)
     EXCEPT !.binds = {<<1, 3>>}, !.places = {<<1, 0>>}, !.roots = {1, 4}]

\* A concatenation of a literal with a number and with a definition, and one that
\* takes the room from it if it is asked for first.
StringUnit ==
    [Unit(<<N("STRING", "", 0, 0, 1), I(-2), B("ADD", 1, 2), R(1), B("ADD", 3, 4), B("ADD", 1, 1)>>,
          <<<<65>>>>)
     EXCEPT !.binds = {<<1, 1>>, <<1, 2>>}, !.roots = {3, 5, 6}]

\* A repetition whose element is reached only when the count is not zero; the
\* count may come from a prefix.
RepeatUnit ==
    [Unit(<<A(1), N("EXTENT_COUNT", "", 1, 0, 1), R(1), N("EXTENT_REPEAT", "", 2, 3, 0), I(1)>>, <<>>)
     EXCEPT !.binds = {<<1, 4>>}, !.prefixes = {<<1, 5>>},
            !.places = {<<1, 0>>}, !.roots = {4}]

\* expr_int.h over every pair of integers of the width: division is Euclid's
\* identity even where the quotient wraps, shifting right undoes shifting left
\* where no bit is lost, and xor is what or adds to and.
ASSUME ArithmeticAgrees ==
    LET Integers == -(Word \div 2)..(Word \div 2) - 1
        Of(op, x, y) == IntegerOperation(op, x, y).value.num
    IN  \A x, y \in Integers :
           /\ y # 0 => /\ Of("ADD", Of("MULTIPLY", y, Of("DIVIDE", x, y)), Of("REMAINDER", x, y)) = x
                      /\ Magnitude(Of("REMAINDER", x, y)) < Magnitude(y)
           /\ Of("ADD", Of("BIT_AND", x, y), Of("BIT_OR", x, y)) = Of("ADD", x, y)
           /\ Of("SUBTRACT", Of("BIT_OR", x, y), Of("BIT_AND", x, y)) = Of("BIT_XOR", x, y)
           /\ y \in 0..Bits - 1 /\ Unsigned(x) * 2 ^ y < Word =>
                 Of("SHIFT_RIGHT", Of("SHIFT_LEFT", x, y), y) = x
           /\ Of("COMPLEMENT", x, 0) = Of("SUBTRACT", Of("NEGATE", x, 0), 1)

MCDefinitions == 1..1
MCAnchors     == 1..2
MCAddresses   == {0, 1}
MCUnits       == {SpanUnit, CycleUnit, StringUnit, RepeatUnit}
=============================================================================
