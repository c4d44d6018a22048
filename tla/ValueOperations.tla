-------------------------- MODULE ValueOperations --------------------------
(***************************************************************************)
(* The arithmetic of the assembler and the linker (expr_int.h, and the     *)
(* operations of ir/value.c): integers of a fixed width that wrap, extents *)
(* that are checked instead, and strings.                                  *)
(*                                                                         *)
(* A value is [kind, num, bytes]: num is the number of an integer or an    *)
(* extent, bytes the contents of a string.                                 *)
(***************************************************************************)
EXTENDS Integers, Sequences, FiniteSets

CONSTANTS
    Bits,           \* the width of an integer: 32
    ExtentMax,      \* UINT64_MAX
    StringMax       \* IR_MAX_STRING_BYTES

ASSUME WidthAssumption ==
    /\ Bits \in Nat \ {0} /\ \A k \in 0..Bits : {2 ^ k, 10 ^ k} \subseteq Nat \ {0}
    /\ ExtentMax \in Nat /\ StringMax \in Nat

Word == 2 ^ Bits

\* expr_i32 of the low bits of x.
Signed(x) ==
    LET low == x % Word IN IF low < Word \div 2 THEN low ELSE low - Word

Unsigned(x) == x % Word

Magnitude(x) == IF x < 0 THEN -x ELSE x

\* Division truncates; the least integer divided by -1 wraps.
Quotient(x, y) ==
    LET q == Magnitude(x) \div Magnitude(y)
    IN  IF (x < 0) = (y < 0) THEN q ELSE -q

Remainder(x, y) == x - y * Quotient(x, y)

Bit(x, i) == (Unsigned(x) \div 2 ^ i) % 2

\* The number whose bits are the given ones.
BitSum(chosen) ==
    LET below[k \in 0..Bits] ==
            IF k = 0 THEN 0 ELSE below[k - 1] + (IF k - 1 \in chosen THEN 2 ^ (k - 1) ELSE 0)
    IN  below[Bits]

\* The integer whose bits are set where x and y have one of the given pairs of bits.
BitsWhere(x, y, pairs) ==
    Signed(BitSum({i \in 0..Bits - 1 : <<Bit(x, i), Bit(y, i)>> \in pairs}))

Truth(b) == IF b THEN 1 ELSE 0

-----------------------------------------------------------------------------
(* Results *)

Diagnostics == {"NONE", "MEMORY", "REFERENCE", "LOCATION", "REBIND", "TYPE", "CYCLE", "DIV_ZERO",
                "MOD_ZERO", "SHIFT", "STRING_LIMIT", "LAYOUT_STRING", "EXTENT"}

IntegerValue(v) == [kind |-> "INTEGER", num |-> v, bytes |-> <<>>]
ExtentValue(v)  == [kind |-> "EXTENT", num |-> v, bytes |-> <<>>]
StringValue(s)  == [kind |-> "STRING", num |-> 0, bytes |-> s]

\* An operation gives a value or the code of a diagnostic.
Gives(v)     == [value |-> v, error |-> "NONE"]
Refuses(err) == [value |-> IntegerValue(0), error |-> err]
GivesInteger(v) == Gives(IntegerValue(v))

Operators == {"NEGATE", "COMPLEMENT", "NOT", "LOW", "HIGH", "ADD", "SUBTRACT", "MULTIPLY", "DIVIDE",
              "REMAINDER", "SHIFT_LEFT", "SHIFT_RIGHT", "BIT_AND", "BIT_OR", "BIT_XOR",
              "EQUAL", "NOT_EQUAL", "LESS", "LESS_EQUAL", "GREATER", "GREATER_EQUAL"}

IntegerOperation(op, x, y) ==
    CASE op = "NEGATE"        -> GivesInteger(Signed(-x))
      [] op = "COMPLEMENT"    -> GivesInteger(Signed(-x - 1))
      [] op = "NOT"           -> GivesInteger(Truth(x = 0))
      [] op = "LOW"           -> GivesInteger(Unsigned(x) % 256)
      [] op = "HIGH"          -> GivesInteger((Unsigned(x) \div 256) % 256)
      [] op = "ADD"           -> GivesInteger(Signed(x + y))
      [] op = "SUBTRACT"      -> GivesInteger(Signed(x - y))
      [] op = "MULTIPLY"      -> GivesInteger(Signed(x * y))
      [] op = "DIVIDE"        -> IF y = 0 THEN Refuses("DIV_ZERO")
                                 ELSE GivesInteger(Signed(Quotient(x, y)))
      [] op = "REMAINDER"     -> IF y = 0 THEN Refuses("MOD_ZERO")
                                 ELSE GivesInteger(Remainder(x, y))
      [] op = "SHIFT_LEFT"    -> IF y \notin 0..Bits - 1 THEN Refuses("SHIFT")
                                 ELSE GivesInteger(Signed(Unsigned(x) * 2 ^ y))
      [] op = "SHIFT_RIGHT"   -> IF y \notin 0..Bits - 1 THEN Refuses("SHIFT")
                                 ELSE GivesInteger(Signed(Unsigned(x) \div 2 ^ y))
      [] op = "BIT_AND"       -> GivesInteger(BitsWhere(x, y, {<<1, 1>>}))
      [] op = "BIT_OR"        -> GivesInteger(BitsWhere(x, y, {<<0, 1>>, <<1, 0>>, <<1, 1>>}))
      [] op = "BIT_XOR"       -> GivesInteger(BitsWhere(x, y, {<<0, 1>>, <<1, 0>>}))
      [] op = "EQUAL"         -> GivesInteger(Truth(x = y))
      [] op = "NOT_EQUAL"     -> GivesInteger(Truth(x # y))
      [] op = "LESS"          -> GivesInteger(Truth(x < y))
      [] op = "LESS_EQUAL"    -> GivesInteger(Truth(x <= y))
      [] op = "GREATER"       -> GivesInteger(Truth(x > y))
      [] op = "GREATER_EQUAL" -> GivesInteger(Truth(x >= y))

-----------------------------------------------------------------------------
(* Strings *)

\* A number in decimal: as many digits as there are powers of ten up to it.
Digits(n) ==
    LET count == 1 + Cardinality({k \in 1..Bits : 10 ^ k <= n})
    IN  [k \in 1..count |-> 48 + ((n \div 10 ^ (count - k)) % 10)]

\* The operand as bytes: an integer is written in decimal.
Text(v) ==
    IF v.kind = "STRING" THEN v.bytes
    ELSE IF v.num < 0 THEN <<45>> \o Digits(-v.num) ELSE Digits(v.num)

\* memcmp on the common length, then the shorter string comes first.
ComesBefore(s, t) ==
    LET n == IF Len(s) < Len(t) THEN Len(s) ELSE Len(t)
    IN  \/ \E i \in 1..n : s[i] < t[i] /\ \A j \in 1..i - 1 : s[j] = t[j]
        \/ Len(s) < Len(t) /\ \A j \in 1..n : s[j] = t[j]

Compared(op, s, t) ==
    CASE op = "EQUAL"         -> GivesInteger(Truth(s = t))
      [] op = "NOT_EQUAL"     -> GivesInteger(Truth(s # t))
      [] op = "LESS"          -> GivesInteger(Truth(ComesBefore(s, t)))
      [] op = "LESS_EQUAL"    -> GivesInteger(Truth(~ComesBefore(t, s)))
      [] op = "GREATER"       -> GivesInteger(Truth(ComesBefore(t, s)))
      [] op = "GREATER_EQUAL" -> GivesInteger(Truth(~ComesBefore(s, t)))
      [] OTHER                -> Refuses("TYPE")

\* room: the bytes the unit may still own.
StringOperation(op, x, y, room) ==
    IF op # "ADD"
    THEN IF x.kind = "STRING" /\ y.kind = "STRING"
         THEN Compared(op, x.bytes, y.bytes) ELSE Refuses("TYPE")
    ELSE LET joined == Text(x) \o Text(y)
         IN  IF Len(joined) > StringMax \/ Len(joined) > room
             THEN Refuses("STRING_LIMIT") ELSE Gives(StringValue(joined))

-----------------------------------------------------------------------------
(* Extents: counts of bytes, refused where they leave their range *)

Checked(v, low, high) ==
    IF v < low \/ v > high THEN Refuses("EXTENT") ELSE Gives(ExtentValue(v))

ExtentOperation(kind, low, high, x, y) ==
    IF kind = "EXTENT_COUNT"
    THEN IF x.kind # "INTEGER" THEN Refuses("TYPE")
         ELSE IF x.num < 0 THEN Refuses("EXTENT") ELSE Checked(x.num, low, high)
    ELSE IF kind = "EXTENT_STRING"
    THEN CASE x.kind = "INTEGER" -> Gives(ExtentValue(1))
           [] x.kind = "STRING"  -> Gives(ExtentValue(Len(x.bytes)))
           [] OTHER              -> Refuses("TYPE")
    ELSE IF \/ x.kind # "EXTENT"
            \/ /\ kind \in {"EXTENT_SUM", "EXTENT_REPEAT", "EXTENT_REMAINDER"}
               /\ y.kind # "EXTENT"
    THEN Refuses("TYPE")
    ELSE CASE kind = "EXTENT_SUM"       -> Checked(x.num + y.num, 0, ExtentMax)
           [] kind = "EXTENT_REPEAT"    -> Checked(x.num * y.num, 0, ExtentMax)
           [] kind = "EXTENT_REMAINDER" -> Checked(x.num - y.num, 0, ExtentMax)
           [] kind = "EXTENT_BOUND"     -> Checked(x.num, low, high)
           [] kind = "EXTENT_INTEGER"   -> GivesInteger(Signed(x.num))
           [] OTHER                     -> Refuses("TYPE")
=============================================================================
