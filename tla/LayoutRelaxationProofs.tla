----------------------- MODULE LayoutRelaxationProofs -----------------------
(***************************************************************************)
(* For every set of layouts and every result of the RAM allocator: the     *)
(* layout engine is well typed and never exceeds its walk budget, and a    *)
(* finished layout is a true one.  Every fragment is emitted where its     *)
(* label says it is, every operand is the value of its expression at the   *)
(* emitted addresses, no instruction is left wide that could be short, and *)
(* "layout did not stabilize" has one cause only.                          *)
(***************************************************************************)
EXTENDS LayoutRelaxation, FiniteSetTheorems, TLAPS

\* Operands name fragments of the layout (or nothing).
OperandsNamed ==
    \A i \in Index : {prog[i].operand.plus, prog[i].operand.minus} \subseteq 0 .. Len(prog)

LayoutInv == TypeOK /\ OperandsNamed

\* The walk budget, made inductive.  Optional instructions are candidates or
\* already short, so each shortening takes one more candidate; a walk beyond the
\* second is only begun when the one before has shortened something.
Shortenings == Cardinality(narrowed \cap candidates)
BudgetInv ==
    /\ phase \in {"prepare", "ramscan"} => walks = 0
    /\ phase \in {"startwalk", "walk"} =>
          \A i \in Index : prog[i].kind = "instruction" /\ prog[i].form = "optional"
                              => i \in narrowed \cup candidates
    /\ walks <= Shortenings + 2
    /\ phase = "startwalk" \/ shortened => walks <= Shortenings + 1

-----------------------------------------------------------------------------
(* What the expression and width operators return *)

\* A count is an integer whatever has been shortened.
LEMMA ExtentType ==
    ASSUME NEW c \in Count, NEW short
    PROVE  Extent(c, short) \in Int
<1>1. IsFiniteSet(c.from .. c.to - 1)
  BY FS_Interval DEF Count
<1>2. IsFiniteSet(short \cap (c.from .. c.to - 1))
  BY <1>1, FS_Subset
<1>3. Cardinality(short \cap (c.from .. c.to - 1)) \in Nat
  BY <1>2, FS_CardinalityType
<1>4. c.value \in Int /\ c.coef \in {-1, 0, 1}
  BY DEF Count
<1> QED
  BY <1>3, <1>4 DEF Extent

\* A fragment has the fields of a fragment.
LEMMA FragmentType ==
    ASSUME LayoutInv, NEW i \in Index
    PROVE  /\ prog[i] \in Fragment
           /\ prog[i].base \in Nat /\ prog[i].size \in Nat
           /\ prog[i].operand \in Operand /\ prog[i].count \in Count
           /\ prog[i].kind \in Kinds
<1>1. prog[i] \in Fragment
  BY DEF LayoutInv, TypeOK, Index
<1> QED
  BY <1>1 DEF Fragment

\* A known operand is an integer.
LEMMA ValueType ==
    ASSUME LayoutInv, NEW i \in Index, NEW where \in [Index -> Int \cup {Unplaced}],
           Known(prog[i].operand, where)
    PROVE  Value(prog[i].operand, where) \in Int
<1> DEFINE e == prog[i].operand
<1>1. e.value \in Int /\ e.plus \in 0 .. Len(prog) /\ e.minus \in 0 .. Len(prog)
  BY FragmentType DEF Operand, LayoutInv, OperandsNamed
<1>2. Len(prog) \in Nat
  BY DEF LayoutInv, TypeOK
<1>3. e.plus = 0 \/ where[e.plus] \in Int
  BY <1>1, <1>2 DEF Known, Index
<1>4. e.minus = 0 \/ where[e.minus] \in Int
  BY <1>1, <1>2 DEF Known, Index
<1> QED
  BY <1>1, <1>3, <1>4 DEF Value

\* The length a visit computes is an integer; Fits makes it a natural number.
LEMMA SizeType ==
    ASSUME LayoutInv, cursor \in Index
    PROVE  Size \in Int
<1>1. Length(cursor, NewWidths) \in Int
  BY DEF Length
<1>2. Extent(prog[cursor].count, narrowed) \in Int
  BY FragmentType, ExtentType
<1>3. prog[cursor].base \in Nat /\ prog[cursor].size \in Nat
  BY FragmentType
<1>4. pc \in Nat /\ output \in Nat /\ bankStart \in Nat /\ bankSize \in Nat
  BY DEF LayoutInv, TypeOK
<1> QED
  BY <1>1, <1>2, <1>3, <1>4 DEF Size

-----------------------------------------------------------------------------
(* Every step keeps the state well formed *)

LEMMA InitType == Init => LayoutInv
<1> SUFFICES ASSUME Init PROVE LayoutInv
  OBVIOUS
<1>1. PICK p \in Programs : prog = p.frags /\ mode = p.mode
  BY DEF Init
<1>2. /\ prog \in Seq(Fragment) /\ mode \in {"binary", "link"}
      /\ \A i \in 1 .. Len(prog) :
            {prog[i].operand.plus, prog[i].operand.minus} \subseteq 0 .. Len(prog)
  BY <1>1, ProgramsAssumption
<1>3. OperandsNamed
  BY <1>2 DEF OperandsNamed, Index
<1>4. /\ placed \in [Index -> Int \cup {Unplaced}]
      /\ run \in [Index -> Nat] /\ ramSize \in [Rams -> Nat]
      /\ checkpoint \in [Index -> [address : Nat, offset : Nat]]
      /\ offset \in [Index -> Nat] /\ operand \in [Index -> Int]
  BY DEF Init
<1>5. /\ phase = "prepare" /\ error = "ok" /\ narrowed = {} /\ candidates = {}
      /\ walks = 0 /\ shortened = FALSE /\ cursor = 1 /\ outputSize = 0
      /\ pc = 0 /\ output = 0 /\ bankStart = 0 /\ bankSize = 0 /\ ramPc \in Nat
  BY RamAssumption DEF Init
<1>6. TypeOK
  BY <1>2, <1>4, <1>5 DEF TypeOK
<1> QED
  BY <1>3, <1>6 DEF LayoutInv

\* Only Init chooses the layout.
LEMMA FragmentsFixed ==
    ASSUME LayoutInv, prog' = prog
    PROVE  /\ OperandsNamed' /\ Index' = Index /\ Rams' = Rams
           /\ prog' \in Seq(Fragment)
BY DEF LayoutInv, TypeOK, OperandsNamed, Index, Rams

LEMMA FailType ==
    ASSUME LayoutInv, NEW code \in {"ram", "value", "overflow", "unresolved", "range",
                                    "unstable", "copy_changed"},
           Fail(code)
    PROVE  LayoutInv'
<1>1. prog' = prog
  BY DEF Fail
<1>2. TypeOK'
  BY <1>1, FragmentsFixed DEF LayoutInv, TypeOK, Fail, walkLocals, facts
<1> QED
  BY <1>1, <1>2, FragmentsFixed DEF LayoutInv

\* RAM objects get addresses and sizes from the linker's allocator ...
LEMMA PrepareLinkType == LayoutInv /\ PrepareLink => LayoutInv'
<1> SUFFICES ASSUME LayoutInv, PrepareLink PROVE LayoutInv'
  OBVIOUS
<1>1. prog' = prog
  BY DEF PrepareLink
<1>2. Rams \subseteq Index
  BY DEF Rams
<1>3. PICK at \in [Rams -> RamAddresses] \cup {[i \in Rams |-> Unplaced]} :
          /\ placed' = [i \in Index |-> IF i \in Rams THEN at[i] ELSE placed[i]]
          /\ narrowed' = NarrowNow(placed', {})
  BY DEF PrepareLink
<1>4. placed' \in [Index -> Int \cup {Unplaced}]
  <2>1. \A i \in Rams : at[i] \in Int \cup {Unplaced}
    <3>1. CASE at \in [Rams -> RamAddresses]
      <4>1. \A i \in Rams : at[i] \in Nat
        BY <3>1, RamAssumption
      <4> QED
        BY <4>1
    <3>2. CASE at = [i \in Rams |-> Unplaced]
      BY <3>2
    <3> QED
      BY <3>1, <3>2
  <2>2. placed \in [Index -> Int \cup {Unplaced}]
    BY DEF LayoutInv, TypeOK
  <2> QED
    BY <1>3, <2>1, <2>2
<1>5. ramSize' \in [Rams -> Nat]
  <2>1. \E short : ramSize' = Extents(short)
    BY DEF PrepareLink
  <2>2. \A i \in Rams : ramSize'[i] \in Nat
    BY <1>1, FragmentsFixed DEF PrepareLink, RamExtentsFit
  <2>3. ramSize' = [i \in Rams |-> ramSize'[i]]
    BY <2>1 DEF Extents
  <2> QED
    BY <2>2, <2>3
<1>6. narrowed' \subseteq Index /\ candidates' \subseteq Index
  BY <1>1, <1>3 DEF PrepareLink, StartWalks, NarrowNow, Index
<1>7. TypeOK'
  BY <1>1, <1>4, <1>5, <1>6, FragmentsFixed
     DEF LayoutInv, TypeOK, PrepareLink, StartWalks, walkLocals, facts
<1> QED
  BY <1>1, <1>7, FragmentsFixed DEF LayoutInv

\* ... or from the binary cursor.
LEMMA PlaceRamType ==
    ASSUME LayoutInv, NEW i \in Rams, RamError(i) = "ok", PlaceRam(i)
    PROVE  /\ placed' \in [Index -> Int \cup {Unplaced}]
           /\ ramSize' \in [Rams -> Nat] /\ ramPc' \in Nat
<1>1. i \in Index
  BY DEF Rams
<1>2. Extent(prog[i].count, narrowed) \in Nat
  BY DEF RamError
<1> QED
  BY <1>1, <1>2 DEF PlaceRam, LayoutInv, TypeOK

LEMMA MoveRamCursorType ==
    ASSUME LayoutInv, NEW i \in Index, MoveRamCursor(i)
    PROVE  /\ placed' \in [Index -> Int \cup {Unplaced}]
           /\ ramSize' \in [Rams -> Nat] /\ ramPc' \in Nat
BY FragmentType DEF MoveRamCursor, LayoutInv, TypeOK

LEMMA ScanRamType == LayoutInv /\ ScanRam => LayoutInv'
<1> SUFFICES ASSUME LayoutInv, ScanRam PROVE LayoutInv'
  OBVIOUS
<1>1. prog' = prog /\ cursor \in Index
  BY DEF ScanRam
<1>2. /\ placed' \in [Index -> Int \cup {Unplaced}]
      /\ ramSize' \in [Rams -> Nat] /\ ramPc' \in Nat
  <2>1. CASE prog[cursor].kind = "ram"
    <3>1. cursor \in Rams /\ RamError(cursor) = "ok" /\ PlaceRam(cursor)
      BY <1>1, <2>1 DEF ScanRam, Rams
    <3> QED
      BY <3>1, PlaceRamType
  <2>2. CASE prog[cursor].kind # "ram"
    BY <1>1, <2>2, MoveRamCursorType DEF ScanRam
  <2> QED
    BY <2>1, <2>2
<1>3. /\ UNCHANGED <<mode, phase, error, narrowed, candidates, run, walks, shortened,
                      pc, output, bankStart, bankSize, facts>>
      /\ cursor' \in Nat
  BY DEF ScanRam, LayoutInv, TypeOK
<1>4. TypeOK'
  BY <1>1, <1>2, <1>3, FragmentsFixed DEF LayoutInv, TypeOK, facts
<1> QED
  BY <1>1, <1>4, FragmentsFixed DEF LayoutInv

LEMMA BinaryPreparationType ==
    LayoutInv /\ (PrepareBinary \/ EndScanRam \/ BeginWalk \/ EndWalk) => LayoutInv'
<1> SUFFICES ASSUME LayoutInv, PrepareBinary \/ EndScanRam \/ BeginWalk \/ EndWalk
             PROVE  LayoutInv'
  OBVIOUS
<1>1. CASE PrepareBinary
  <2>1. prog' = prog /\ narrowed' \subseteq Index
    BY <1>1 DEF PrepareBinary, NarrowNow
  <2>2. TypeOK'
    BY <1>1, <2>1, FragmentsFixed DEF LayoutInv, TypeOK, PrepareBinary, walkLocals, facts
  <2> QED
    BY <2>1, <2>2, FragmentsFixed DEF LayoutInv
<1>2. CASE EndScanRam
  <2>1. prog' = prog /\ narrowed' \subseteq Index
    BY <1>2 DEF EndScanRam, NarrowNow, LayoutInv, TypeOK
  <2>2. candidates' \subseteq Index
    BY <1>2 DEF EndScanRam, StartWalks
  <2>3. TypeOK'
    BY <1>2, <2>1, <2>2, FragmentsFixed
       DEF LayoutInv, TypeOK, EndScanRam, StartWalks, walkLocals, facts
  <2> QED
    BY <2>1, <2>3, FragmentsFixed DEF LayoutInv
<1>3. CASE BeginWalk
  <2>1. prog' = prog
    BY <1>3 DEF BeginWalk
  <2>2. /\ phase' = "walk" /\ walks' \in Nat /\ shortened' = FALSE /\ cursor' = 1
        /\ pc' = 0 /\ output' = 0 /\ bankStart' = 0 /\ bankSize' = 0 /\ ramPc' \in Nat
        /\ UNCHANGED <<mode, error, narrowed, candidates, placed, run, ramSize, facts>>
    BY <1>3, RamAssumption DEF BeginWalk, LayoutInv, TypeOK
  <2>3. TypeOK'
    BY <2>1, <2>2, FragmentsFixed DEF LayoutInv, TypeOK, facts
  <2> QED
    BY <2>1, <2>3, FragmentsFixed DEF LayoutInv
<1>4. CASE EndWalk
  <2>1. CASE walks > Limit
    BY <1>4, <2>1, FailType DEF EndWalk
  <2>2. CASE ~(walks > Limit)
    <3>1. prog' = prog
      BY <1>4, <2>2 DEF EndWalk
    <3>2. TypeOK'
      BY <1>4, <2>2, <3>1, FragmentsFixed, SMTT(30) DEF LayoutInv, TypeOK, EndWalk
    <3> QED
      BY <3>1, <3>2, FragmentsFixed DEF LayoutInv
  <2> QED
    BY <2>1, <2>2
<1> QED
  BY <1>1, <1>2, <1>3, <1>4

\* A visit that is let through occupies a natural number of bytes.
LEMMA OccupyType ==
    ASSUME LayoutInv, cursor \in Index, Occupy
    PROVE  /\ run' \in [Index -> Nat] /\ pc' \in Nat /\ output' \in Nat /\ cursor' \in Nat
           /\ checkpoint' \in [Index -> [address : Nat, offset : Nat]]
           /\ UNCHANGED <<prog, mode, phase, error, candidates, walks, outputSize, offset,
                          operand>>
<1>1. VisitError = "ok" => Fits
  BY DEF VisitError
<1>2. Size \in Nat
  BY <1>1, SizeType DEF Occupy, Fits
<1>3. Start \in Nat
  BY FragmentType DEF Start, LayoutInv, TypeOK
<1>4. Advance \in Nat
  BY <1>2 DEF Advance
<1>5. pc' \in Nat /\ output' \in Nat /\ cursor' \in Nat
  BY <1>2, <1>3, <1>4 DEF Occupy, LayoutInv, TypeOK
<1>6. run' \in [Index -> Nat]
  BY <1>2 DEF Occupy, LayoutInv, TypeOK
<1>7. checkpoint' \in [Index -> [address : Nat, offset : Nat]]
  BY <1>3 DEF Occupy, LayoutInv, TypeOK
<1> QED
  BY <1>5, <1>6, <1>7 DEF Occupy

LEMMA VisitType ==
    LayoutInv /\ (VisitCode \/ VisitPlacement \/ VisitBank \/ VisitRam) => LayoutInv'
<1> SUFFICES ASSUME LayoutInv, VisitCode \/ VisitPlacement \/ VisitBank \/ VisitRam
             PROVE  LayoutInv'
  OBVIOUS
<1>1. cursor \in Index /\ Occupy
  BY DEF VisitCode, VisitPlacement, VisitBank, VisitRam, Visiting
<1>2. prog' = prog
  BY <1>1, OccupyType
<1>3. /\ placed' \in [Index -> Int \cup {Unplaced}] /\ narrowed' \subseteq Index
      /\ shortened' \in BOOLEAN /\ bankStart' \in Nat /\ bankSize' \in Nat
      /\ ramPc' \in Nat /\ ramSize' \in [Rams -> Nat]
  <2>1. CASE VisitCode
    <3>1. Here \in [Index -> Int \cup {Unplaced}] /\ NewWidths \subseteq Index
      BY <1>1 DEF Here, NewWidths, LayoutInv, TypeOK
    <3> QED
      BY <2>1, <3>1 DEF VisitCode, LayoutInv, TypeOK
  <2>2. CASE VisitPlacement
    BY <2>2 DEF VisitPlacement, LayoutInv, TypeOK
  <2>3. CASE VisitBank
    BY <1>1, <2>3, FragmentType DEF VisitBank, LayoutInv, TypeOK
  <2>4. CASE VisitRam
    <3>1. UNCHANGED <<narrowed, shortened, bankStart, bankSize>>
      BY <2>4 DEF VisitRam
    <3>2. CASE mode = "link"
      BY <2>4, <3>1, <3>2 DEF VisitRam, LayoutInv, TypeOK
    <3>3. CASE mode = "binary" /\ prog[cursor].kind = "ram"
      <4>1. cursor \in Rams /\ PlaceRam(cursor)
        BY <1>1, <2>4, <3>3 DEF VisitRam, Rams
      <4>2. RamError(cursor) = "ok"
        BY <1>1, <3>3 DEF Occupy, VisitError
      <4> QED
        BY <3>1, <4>1, <4>2, PlaceRamType DEF LayoutInv, TypeOK
    <3>4. CASE mode = "binary" /\ prog[cursor].kind # "ram"
      <4>1. MoveRamCursor(cursor)
        BY <2>4, <3>4 DEF VisitRam
      <4> QED
        BY <1>1, <3>1, <4>1, MoveRamCursorType DEF LayoutInv, TypeOK
    <3> QED
      BY <3>2, <3>3, <3>4 DEF LayoutInv, TypeOK
  <2> QED
    BY <2>1, <2>2, <2>3, <2>4
<1>4. TypeOK'
  BY <1>1, <1>2, <1>3, OccupyType, FragmentsFixed DEF LayoutInv, TypeOK
<1> QED
  BY <1>2, <1>4, FragmentsFixed DEF LayoutInv

LEMMA ValidateType == LayoutInv /\ ValidateFragment => LayoutInv'
<1> SUFFICES ASSUME LayoutInv, ValidateFragment PROVE LayoutInv'
  OBVIOUS
<1>1. cursor \in Index /\ prog' = prog
  BY DEF ValidateFragment
<1>2. HasOperand(prog[cursor]) => Value(prog[cursor].operand, placed) \in Int
  <2>1. HasOperand(prog[cursor]) => Known(prog[cursor].operand, placed)
    BY DEF ValidateFragment, ValidateError
  <2>2. placed \in [Index -> Int \cup {Unplaced}]
    BY DEF LayoutInv, TypeOK
  <2> QED
    BY <1>1, <2>1, <2>2, ValueType
<1>3. operand' \in [Index -> Int]
  BY <1>2 DEF ValidateFragment, LayoutInv, TypeOK
<1>4. offset' \in [Index -> Nat]
  BY DEF ValidateFragment, LayoutInv, TypeOK
<1>5. run[cursor] \in Nat /\ ValidAddress \in Nat
  BY <1>1, FragmentType DEF ValidAddress, LayoutInv, TypeOK
<1>6. pc' \in Nat /\ output' \in Nat /\ cursor' \in Nat
  BY <1>5, SMTT(30) DEF ValidateFragment, LayoutInv, TypeOK
<1>7. UNCHANGED <<mode, phase, error, narrowed, candidates, placed, run, ramSize, walks,
                  shortened, bankStart, bankSize, ramPc, checkpoint, outputSize>>
  BY DEF ValidateFragment
<1>8. TypeOK'
  BY <1>1, <1>3, <1>4, <1>6, <1>7, FragmentsFixed DEF LayoutInv, TypeOK
<1> QED
  BY <1>1, <1>8, FragmentsFixed DEF LayoutInv

LEMMA ErrorsType ==
    LayoutInv /\ (RamUnplaceable \/ ScanRamFails \/ VisitFails \/ ValidateFails \/ CopyChanged)
        => LayoutInv'
<1> SUFFICES ASSUME LayoutInv,
                    \/ RamUnplaceable \/ ScanRamFails \/ VisitFails
                    \/ ValidateFails \/ CopyChanged
             PROVE  LayoutInv'
  OBVIOUS
<1>1. \A i : RamError(i) \in {"value", "overflow", "ok"}
  BY DEF RamError
<1>2. VisitError \in {"value", "overflow", "ok"}
  BY <1>1 DEF VisitError
<1>3. ValidateError \in {"unstable", "unresolved", "range", "ok"}
  BY DEF ValidateError
<1>4. CASE RamUnplaceable
  BY <1>4, FailType DEF RamUnplaceable
<1>5. CASE ScanRamFails
  BY <1>1, <1>5, FailType DEF ScanRamFails
<1>6. CASE VisitFails
  BY <1>2, <1>6, FailType DEF VisitFails
<1>7. CASE ValidateFails
  BY <1>3, <1>7, FailType DEF ValidateFails
<1>8. CASE CopyChanged
  BY <1>8, FailType DEF CopyChanged
<1> QED
  BY <1>4, <1>5, <1>6, <1>7, <1>8

LEMMA EncodeType == LayoutInv /\ Encode => LayoutInv'
<1> SUFFICES ASSUME LayoutInv, Encode PROVE LayoutInv'
  OBVIOUS
<1>1. CASE Encodable
  <2>1. prog' = prog
    BY <1>1 DEF Encode
  <2>2. TypeOK'
    BY <1>1, <2>1, FragmentsFixed DEF Encode, LayoutInv, TypeOK, walkLocals, facts
  <2> QED
    BY <2>1, <2>2, FragmentsFixed DEF LayoutInv
<1>2. CASE ~Encodable
  BY <1>2, FailType DEF Encode
<1> QED
  BY <1>1, <1>2

LEMMA StutterType == LayoutInv /\ UNCHANGED vars => LayoutInv'
<1> SUFFICES ASSUME LayoutInv, UNCHANGED vars PROVE LayoutInv'
  OBVIOUS
<1>1. prog' = prog
  BY DEF vars
<1>2. TypeOK'
  BY <1>1, FragmentsFixed DEF LayoutInv, TypeOK, vars, walkLocals, facts
<1> QED
  BY <1>1, <1>2, FragmentsFixed DEF LayoutInv

\* Type correctness: whatever the layout, no cursor, length, offset or RAM
\* size ever becomes negative, and every operand emitted is a known integer.
LEMMA LayoutInvariant == Spec => []LayoutInv
<1>1. LayoutInv /\ [Next]_vars => LayoutInv'
  BY PrepareLinkType, ScanRamType, BinaryPreparationType, VisitType, ValidateType,
     ErrorsType, EncodeType, StutterType DEF Next
<1> QED
  BY <1>1, InitType, PTL DEF Spec

THEOREM TypeCorrect == Spec => []TypeOK
<1>1. LayoutInv => TypeOK
  BY DEF LayoutInv
<1> QED
  BY <1>1, LayoutInvariant, PTL

-----------------------------------------------------------------------------
(* The walk budget *)

LEMMA ShorteningsType ==
    ASSUME LayoutInv
    PROVE  /\ IsFiniteSet(candidates) /\ IsFiniteSet(narrowed \cap candidates)
           /\ Shortenings \in Nat /\ Cardinality(candidates) \in Nat
           /\ Shortenings <= Cardinality(candidates)
<1>1. IsFiniteSet(Index)
  BY FS_Interval DEF Index, LayoutInv, TypeOK
<1>2. IsFiniteSet(candidates)
  BY <1>1, FS_Subset DEF LayoutInv, TypeOK
<1> QED
  BY <1>2, FS_Subset, FS_CardinalityType DEF Shortenings

LEMMA ShorteningsNext == LayoutInv' => Shortenings' \in Nat
<1> SUFFICES ASSUME LayoutInv' PROVE Shortenings' \in Nat
  OBVIOUS
<1>1. IsFiniteSet(Index')
  BY FS_Interval DEF Index, LayoutInv, TypeOK
<1>2. IsFiniteSet(narrowed' \cap candidates')
  BY <1>1, FS_Subset DEF LayoutInv, TypeOK
<1> QED
  BY <1>2, FS_CardinalityType DEF Shortenings

\* Steps before the walks: nothing is counted yet.
LEMMA PreparationBudget ==
    LayoutInv /\ BudgetInv /\ LayoutInv' /\ (PrepareLink \/ PrepareBinary \/ ScanRam \/ EndScanRam)
        => BudgetInv'
<1> SUFFICES ASSUME LayoutInv, BudgetInv, LayoutInv',
                    PrepareLink \/ PrepareBinary \/ ScanRam \/ EndScanRam
             PROVE  BudgetInv'
  OBVIOUS
<1>1. walks' = 0 /\ prog' = prog
  BY DEF BudgetInv, PrepareLink, PrepareBinary, ScanRam, EndScanRam
<1>2. Shortenings' \in Nat
  BY ShorteningsNext
<1>3. phase' = "startwalk" \/ phase' = "ramscan"
  BY DEF PrepareLink, PrepareBinary, ScanRam, EndScanRam, StartWalks
<1>4. phase' = "startwalk" =>
         candidates' = {i \in Index : /\ prog[i].kind = "instruction"
                                      /\ prog[i].form = "optional"} \ narrowed'
  BY DEF PrepareLink, PrepareBinary, ScanRam, EndScanRam, StartWalks
<1>5. Index' = Index
  BY <1>1 DEF Index
<1>6. phase' = "startwalk" =>
         \A i \in Index' : prog'[i].kind = "instruction" /\ prog'[i].form = "optional"
                              => i \in narrowed' \cup candidates'
  BY <1>1, <1>4, <1>5
<1>7. walks' <= Shortenings' + 1 /\ walks' <= Shortenings' + 2
  <2>1. \A n \in Nat : 0 <= n + 1 /\ 0 <= n + 2
    OBVIOUS
  <2> QED
    BY <1>1, <1>2, <2>1, Zenon
<1> QED
  BY <1>1, <1>3, <1>6, <1>7 DEF BudgetInv

\* Steps that neither shorten an instruction nor touch the candidates.
LEMMA SameShortenings ==
    ASSUME LayoutInv, UNCHANGED <<prog, narrowed, candidates>>
    PROVE  Shortenings' = Shortenings /\ Index' = Index
BY DEF Shortenings, Index

LEMMA FailBudget ==
    ASSUME LayoutInv, BudgetInv, NEW code, Fail(code)
    PROVE  BudgetInv'
<1>1. Shortenings' = Shortenings /\ Index' = Index
  BY SameShortenings DEF Fail
<1> QED
  BY <1>1 DEF Fail, BudgetInv

\* A visit shortens at most the instruction it is at, and that instruction is a
\* candidate that was still wide.
LEMMA VisitBudget ==
    LayoutInv /\ BudgetInv /\ (VisitCode \/ VisitPlacement \/ VisitBank \/ VisitRam)
        => BudgetInv'
<1> SUFFICES ASSUME LayoutInv, BudgetInv,
                    VisitCode \/ VisitPlacement \/ VisitBank \/ VisitRam
             PROVE  BudgetInv'
  OBVIOUS
<1>1. phase = "walk" /\ cursor \in Index
      /\ UNCHANGED <<prog, phase, candidates, walks>>
  BY DEF VisitCode, VisitPlacement, VisitBank, VisitRam, Visiting, Occupy
<1>2. CASE VisitCode /\ NewWidths # narrowed
  <2>1. /\ narrowed' = narrowed \cup {cursor} /\ cursor \notin narrowed
        /\ prog[cursor].kind = "instruction" /\ prog[cursor].form = "optional"
    BY <1>2 DEF VisitCode, NewWidths, Narrowable
  <2>2. cursor \in candidates
    BY <1>1, <2>1 DEF BudgetInv
  <2>3. /\ narrowed' \cap candidates' = (narrowed \cap candidates) \cup {cursor}
        /\ cursor \notin narrowed \cap candidates
    BY <1>1, <2>1, <2>2
  <2>4. Shortenings' = Shortenings + 1
    BY <2>3, ShorteningsType, FS_AddElement DEF Shortenings
  <2>5. walks \in Nat /\ Shortenings \in Nat
    BY ShorteningsType DEF LayoutInv, TypeOK
  <2> QED
    BY <1>1, <2>1, <2>4, <2>5 DEF BudgetInv, Index
<1>3. CASE ~(VisitCode /\ NewWidths # narrowed)
  <2>1. narrowed' = narrowed /\ (shortened' => shortened)
    <3>1. CASE VisitCode
      <4>1. NewWidths = narrowed
        BY <1>3, <3>1
      <4> QED
        BY <3>1, <4>1, Zenon DEF VisitCode
    <3>2. CASE VisitPlacement \/ VisitBank \/ VisitRam
      BY <3>2 DEF VisitPlacement, VisitBank, VisitRam
    <3> QED
      BY <3>1, <3>2
  <2>2. Shortenings' = Shortenings /\ Index' = Index
    BY <1>1, <2>1, SameShortenings
  <2> QED
    BY <1>1, <2>1, <2>2 DEF BudgetInv
<1> QED
  BY <1>2, <1>3

\* The loop itself: a walk is counted when it begins, and begun again only after
\* the first one or after a shortening.
LEMMA LoopBudget ==
    LayoutInv /\ BudgetInv /\ (BeginWalk \/ EndWalk) => BudgetInv'
<1> SUFFICES ASSUME LayoutInv, BudgetInv, BeginWalk \/ EndWalk PROVE BudgetInv'
  OBVIOUS
<1>1. walks \in Nat /\ Shortenings \in Nat
  BY ShorteningsType DEF LayoutInv, TypeOK
<1>2. CASE BeginWalk
  <2>1. Shortenings' = Shortenings /\ Index' = Index
    BY <1>2, SameShortenings DEF BeginWalk
  <2>2. walks' = walks + 1 /\ walks <= Shortenings + 1
    BY <1>2 DEF BeginWalk, BudgetInv
  <2> QED
    BY <1>1, <1>2, <2>1, <2>2 DEF BeginWalk, BudgetInv
<1>3. CASE EndWalk /\ walks > Limit
  BY <1>3, FailBudget DEF EndWalk
<1>4. CASE EndWalk /\ ~(walks > Limit)
  <2>1. Shortenings' = Shortenings /\ Index' = Index
    BY <1>4, SameShortenings DEF EndWalk
  <2>2. Again => walks <= Shortenings + 1
    BY <1>1 DEF Again, BudgetInv
  <2> QED
    BY <1>1, <1>4, <2>1, <2>2 DEF EndWalk, BudgetInv
<1> QED
  BY <1>2, <1>3, <1>4

LEMMA ValidationBudget ==
    LayoutInv /\ BudgetInv /\ (ValidateFragment \/ Encode \/ UNCHANGED vars) => BudgetInv'
<1> SUFFICES ASSUME LayoutInv, BudgetInv, ValidateFragment \/ Encode \/ UNCHANGED vars
             PROVE  BudgetInv'
  OBVIOUS
<1>1. CASE Encode /\ ~Encodable
  BY <1>1, FailBudget DEF Encode
<1>2. CASE ValidateFragment \/ (Encode /\ Encodable) \/ UNCHANGED vars
  <2>1. /\ UNCHANGED <<prog, narrowed, candidates, walks, shortened>>
        /\ phase' = phase \/ phase' = "done"
    BY <1>2 DEF ValidateFragment, Encode, vars
  <2>2. Shortenings' = Shortenings /\ Index' = Index
    BY <2>1, SameShortenings
  <2> QED
    BY <2>1, <2>2 DEF BudgetInv
<1> QED
  BY <1>1, <1>2

LEMMA InitBudget == Init => BudgetInv
<1> SUFFICES ASSUME Init PROVE BudgetInv
  OBVIOUS
<1>1. Shortenings \in Nat
  BY InitType, ShorteningsType
<1> QED
  BY <1>1 DEF Init, BudgetInv

\* "Layout did not stabilize" can never mean that the walk budget was too small:
\* the linker's and the assembler's loop always ends within one walk per
\* candidate plus two.
THEOREM WalkBudget == Spec => []WalksBounded
<1>1. Init => LayoutInv /\ BudgetInv
  BY InitType, InitBudget
<1>2. LayoutInv /\ LayoutInv' /\ BudgetInv /\ [Next]_vars => BudgetInv'
  BY PreparationBudget, FailBudget, VisitBudget, LoopBudget, ValidationBudget
     DEF Next, RamUnplaceable, ScanRamFails, VisitFails, ValidateFails, CopyChanged
<1>3. LayoutInv /\ BudgetInv => WalksBounded
  BY ShorteningsType DEF BudgetInv, WalksBounded, Limit, LayoutInv, TypeOK
<1> QED
  BY <1>1, <1>2, <1>3, LayoutInvariant, PTL DEF Spec

-----------------------------------------------------------------------------
(* The trace of a walk                                                     *)
(*                                                                         *)
(* The walk keeps its cursors in locals and forgets them, so the argument  *)
(* follows their trace: t[i] is the position at which the last walk        *)
(* reached fragment i.  The trace of a walk that shortens nothing repeats  *)
(* itself, which is why the second such walk confirms every address.       *)

Position == [pc : Nat, output : Nat, bankStart : Nat, bankSize : Nat, ramPc : Nat]
Current  == [pc |-> pc, output |-> output, bankStart |-> bankStart, bankSize |-> bankSize,
             ramPc |-> ramPc]
Start0   == [pc |-> 0, output |-> 0, bankStart |-> 0, bankSize |-> 0, ramPc |-> RamStart]

Last  == Len(prog) + 1
Trace == [1 .. Last -> Position]

WellBuilt == \A i \in Index : Buildable(prog[i])

\* The address at which fragment i begins when a walk reaches it at a position.
Begin(i, at) == IF prog[i].kind \in {"origin", "bank"} THEN prog[i].base ELSE at.pc

\* The length fragment i takes there, at the given widths.
Needs(i, at, short) ==
    LET f == prog[i]
    IN CASE f.kind = "instruction" -> Length(i, short)
         [] f.kind = "storage" -> Extent(f.count, short)
         [] f.kind = "pad" -> f.base - (IF f.form = "address" THEN at.pc
                                                              ELSE at.output - at.bankStart)
         [] f.kind = "bankend" -> IF at.bankSize = 0 THEN 0
                                  ELSE at.bankSize - (at.output - at.bankStart)
         [] f.kind \in {"gap", "fixed", "copy", "data"} -> f.size
         [] OTHER -> 0

\* Where the walk stands after it, given the length that was recorded.
After(i, at) ==
    LET f == prog[i]
    IN [pc        |-> Begin(i, at) + (IF f.kind \in {"bank", "bankend"} THEN 0 ELSE run[i]),
        output    |-> at.output + run[i],
        bankStart |-> IF f.kind = "bank" THEN at.output ELSE at.bankStart,
        bankSize  |-> IF f.kind = "bank" THEN f.size ELSE at.bankSize,
        ramPc     |-> IF mode = "binary" /\ f.kind = "ram" THEN at.ramPc + ramSize[i]
                      ELSE IF mode = "binary" /\ f.kind = "ramorigin" THEN f.base ELSE at.ramPc]

\* Extents that follow widths are only known to be current in a walk that has
\* shortened nothing.
Settled(i) == ~shortened \/ prog[i].count.coef = 0

\* What the walk leaves behind at fragment i.
Recorded(i, at) ==
    /\ prog[i].kind # "storage" \/ Settled(i) => run[i] = Needs(i, at, narrowed)
    /\ prog[i].kind \in Anchored => placed[i] = at.pc
    /\ mode = "binary" /\ prog[i].kind = "ram" =>
          /\ placed[i] = at.ramPc
          /\ Settled(i) => ramSize[i] = Extent(prog[i].count, narrowed)
    /\ i \in Checkpoints => checkpoint[i] = [address |-> Begin(i, at), offset |-> at.output]

Follows(t, n) == \A i \in 1 .. n - 1 : Recorded(i, t[i]) /\ t[i+1] = After(i, t[i])

\* From the last checkpoint on, addresses and offsets move together.
LastBefore(c, i) == c \in Checkpoints /\ c <= i /\ \A d \in Checkpoints : d <= i => d <= c
Affine(t, n) ==
    \A i \in 1 .. n - 1 : \E c \in 1 .. i :
        /\ LastBefore(c, i)
        /\ Begin(i, t[i]) - Begin(c, t[c]) = t[i].output - t[c].output

\* The walk knows the bank it is in.
Within(b, i) == prog[b].kind = "bank" /\ \A c \in b + 1 .. i - 1 : prog[c].kind # "bank"
Banks(t, n) ==
    \A i \in 1 .. n :
        /\ \A b \in 1 .. i - 1 : Within(b, i) =>
              t[i].bankStart = t[b].output /\ t[i].bankSize = prog[b].size
        /\ (\E b \in 1 .. i - 1 : prog[b].kind = "bank") => \E b \in 1 .. i - 1 : Within(b, i)

Traced(t, n) == /\ t \in Trace /\ t[1] = Start0
                /\ Follows(t, n) /\ Affine(t, n) /\ Banks(t, n)

\* A walk after the first repeats the trace of the walk before until it
\* shortens something, and finds nothing to shorten on the way.
Repeats(t, n) ==
    walks >= 2 /\ ~shortened /\ FixedExtents =>
        /\ Traced(t, Last)
        /\ \A i \in 1 .. n - 1 : ~Narrowable(i, placed, narrowed)

Validated(t, n) ==
    \A i \in 1 .. n - 1 :
        /\ offset[i] = t[i].output
        /\ HasOperand(prog[i]) =>
              /\ operand[i] = Value(prog[i].operand, placed)
              /\ i \in narrowed => operand[i] \in ZeroPage
              /\ prog[i].form = "relative" =>
                    operand[i] - (Begin(i, t[i]) + 2) \in -128 .. 127

\* What each phase knows of the trace and of the fragment n it has reached.
TraceInv(t, n) ==
    /\ phase \in {"walk", "validate"} \/ Ready => n = cursor
    /\ phase = "startwalk" /\ walks # 0 => Traced(t, Last)
    /\ phase = "walk" => Traced(t, n) /\ t[n] = Current /\ Repeats(t, n)
    /\ phase = "validate" \/ Ready =>
          /\ Traced(t, Last) /\ Validated(t, n)
          /\ outputSize = t[Last].output /\ output = t[n].output /\ pc = t[n].pc
    /\ Ready => n = Last

\* Short instructions were wide ones with a zero-page twin; a constant operand
\* that was shortened fits for good.
ShortInv ==
    \A i \in narrowed :
        /\ prog[i].kind = "instruction" /\ prog[i].form = "optional"
        /\ prog[i].operand.plus = 0 /\ prog[i].operand.minus = 0 =>
              prog[i].operand.value \in ZeroPage

\* The linker's RAM extents that follow no widths are the ones it allocated.
RamFixedInv ==
    mode = "link" /\ phase \in {"startwalk", "walk", "validate"} =>
        \A i \in Rams : prog[i].count.coef = 0 => ramSize[i] = prog[i].count.value

PhaseInv ==
    /\ phase = "walk" => walks >= 1
    /\ phase \in {"prepare", "ramscan"} => walks = 0
    /\ phase = "ramscan" => mode = "binary"
    /\ phase = "validate" \/ Ready =>
          ~shortened /\ (FixedExtents => NarrowNow(placed, narrowed) = {})
    /\ phase # "done" => error = "ok"

PlacementInv ==
    /\ WellBuilt /\ ShortInv /\ RamFixedInv /\ PhaseInv
    /\ \E t \in Trace, n \in 1 .. Last : TraceInv(t, n)
    /\ UnstableOnlyFromRam

-----------------------------------------------------------------------------
(* Positions and lengths *)

\* A count that follows no widths has its initial value.
LEMMA ExtentFixed ==
    ASSUME NEW c \in Count, c.coef = 0, NEW short
    PROVE  Extent(c, short) = c.value
<1> DEFINE n == Cardinality(short \cap (c.from .. c.to - 1))
<1>1. n \in Nat
  <2>1. IsFiniteSet(c.from .. c.to - 1)
    BY FS_Interval DEF Count
  <2> QED
    BY <2>1, FS_Subset, FS_CardinalityType
<1>2. c.value \in Int
  BY DEF Count
<1>3. Extent(c, short) = c.value - 0 * n
  BY DEF Extent
<1> HIDE DEF n
<1> QED
  BY <1>1, <1>2, <1>3

\* The fragments never change, nor does what depends on them alone.
LEMMA SameLayout ==
    ASSUME prog' = prog
    PROVE  /\ Index' = Index /\ Rams' = Rams /\ Checkpoints' = Checkpoints
           /\ Last' = Last /\ Trace' = Trace /\ WellBuilt' = WellBuilt
           /\ FixedExtents' = FixedExtents
BY DEF Index, Rams, Checkpoints, Last, Trace, WellBuilt, FixedExtents

LEMMA CurrentType == LayoutInv => Current \in Position
BY DEF Current, Position, LayoutInv, TypeOK

\* The length a visit computes is the one its position calls for.
LEMMA SizeIsNeeded ==
    ASSUME LayoutInv, cursor \in Index
    PROVE  /\ Size = Needs(cursor, Current, NewWidths)
           /\ Start = Begin(cursor, Current)
           /\ prog[cursor].kind # "instruction" => NewWidths = narrowed
<1>1. prog[cursor].kind # "instruction" => NewWidths = narrowed
  BY DEF NewWidths, Narrowable
<1>2. Start = Begin(cursor, Current)
  BY DEF Start, Begin, Current
<1>3. Size = Needs(cursor, Current, NewWidths)
  BY <1>1 DEF Size, Needs, Current
<1> QED
  BY <1>1, <1>2, <1>3

-----------------------------------------------------------------------------
(* One visit *)

Visit == VisitCode \/ VisitPlacement \/ VisitBank \/ VisitRam

\* What was recorded stays true while the facts it names stay what they are.
LEMMA RecordedKept ==
    ASSUME LayoutInv, NEW i \in Index, NEW at, UNCHANGED <<prog, mode>>,
           run'[i] = run[i], placed'[i] = placed[i], checkpoint'[i] = checkpoint[i],
           i \in Rams => ramSize'[i] = ramSize[i],
           i \in narrowed' <=> i \in narrowed,
           \/ ~shortened' => ~shortened /\ narrowed' = narrowed
           \/ FixedExtents /\ narrowed' = narrowed,
           Recorded(i, at)
    PROVE  Recorded(i, at)'
<1>1. Checkpoints' = Checkpoints /\ (prog[i].kind = "ram" => i \in Rams)
  BY SameLayout DEF Rams
<1>2. prog[i].count \in Count
  BY FragmentType
<1>3. Settled(i)' /\ prog[i].kind \in {"storage", "ram"}
         => Settled(i) /\ Extent(prog[i].count, narrowed') = Extent(prog[i].count, narrowed)
  <2>1. CASE prog[i].count.coef = 0
    BY <1>2, <2>1, ExtentFixed DEF Settled
  <2>2. CASE prog[i].count.coef # 0 /\ prog[i].kind \in {"storage", "ram"}
    <3>1. ~FixedExtents
      BY <2>2 DEF FixedExtents
    <3> QED
      BY <2>2, <3>1 DEF Settled
  <2> QED
    BY <2>1, <2>2
<1>4. prog[i].kind # "storage" \/ Settled(i)' => run'[i] = Needs(i, at, narrowed)'
  <2>1. CASE prog[i].kind = "storage"
    BY <1>3, <2>1 DEF Recorded, Needs
  <2>2. CASE prog[i].kind # "storage"
    BY <2>2 DEF Recorded, Needs, Length
  <2> QED
    BY <2>1, <2>2
<1>5. (i \in Checkpoints => checkpoint[i] = [address |-> Begin(i, at), offset |-> at.output])'
  BY <1>1 DEF Recorded, Begin
<1>6. (mode = "binary" /\ prog[i].kind = "ram" =>
          /\ placed[i] = at.ramPc
          /\ Settled(i) => ramSize[i] = Extent(prog[i].count, narrowed))'
  BY <1>1, <1>3 DEF Recorded
<1>7. (prog[i].kind \in Anchored => placed[i] = at.pc)'
  BY DEF Recorded
<1> QED
  BY <1>4, <1>5, <1>6, <1>7 DEF Recorded

LEMMA AfterKept ==
    ASSUME NEW i \in Index, NEW at, UNCHANGED <<prog, mode>>, run'[i] = run[i],
           i \in Rams => ramSize'[i] = ramSize[i]
    PROVE  After(i, at)' = After(i, at) /\ Begin(i, at)' = Begin(i, at)
<1>1. prog[i].kind = "ram" => ramSize'[i] = ramSize[i]
  BY DEF Rams
<1>2. Begin(i, at)' = Begin(i, at)
  BY DEF Begin
<1> QED
  BY <1>1, <1>2 DEF After

\* A visit leaves everything about the other fragments alone.
LEMMA VisitOthers ==
    ASSUME LayoutInv, Visit
    PROVE  /\ cursor \in Index /\ cursor' = cursor + 1 /\ phase = "walk"
           /\ UNCHANGED <<prog, mode, phase, error, walks, outputSize, offset, operand>>
           /\ ~shortened' => ~shortened /\ narrowed' = narrowed
           /\ \A i \in Index : i # cursor =>
                 /\ run'[i] = run[i] /\ placed'[i] = placed[i] /\ checkpoint'[i] = checkpoint[i]
                 /\ i \in Rams => ramSize'[i] = ramSize[i]
                 /\ i \in narrowed' <=> i \in narrowed
<1>1. /\ cursor \in Index /\ cursor' = cursor + 1 /\ phase = "walk" /\ Occupy
      /\ UNCHANGED <<prog, mode, phase, error, walks, outputSize, offset, operand>>
  BY DEF Visit, VisitCode, VisitPlacement, VisitBank, VisitRam, Visiting, Occupy
<1>2. ~shortened' => ~shortened /\ narrowed' = narrowed
  <2>1. CASE VisitCode
    <3>1. shortened \in BOOLEAN /\ narrowed' = NewWidths
          /\ shortened' = (shortened \/ NewWidths # narrowed)
      BY <2>1 DEF VisitCode, LayoutInv, TypeOK
    <3> QED
      BY <3>1, Zenon
  <2>2. CASE VisitPlacement \/ VisitBank \/ VisitRam
    BY <2>2 DEF VisitPlacement, VisitBank, VisitRam
  <2> QED
    BY <2>1, <2>2 DEF Visit
<1>3. \A i \in Index : i # cursor => run'[i] = run[i] /\ checkpoint'[i] = checkpoint[i]
  BY <1>1 DEF Occupy, LayoutInv, TypeOK
<1>4. \A i \in Index : i # cursor =>
         /\ placed'[i] = placed[i]
         /\ i \in Rams => ramSize'[i] = ramSize[i]
         /\ i \in narrowed' <=> i \in narrowed
  <2>1. CASE VisitCode
    BY <2>1 DEF VisitCode, Here, NewWidths, LayoutInv, TypeOK
  <2>2. CASE VisitPlacement \/ VisitBank
    BY <2>2 DEF VisitPlacement, VisitBank
  <2>3. CASE VisitRam
    BY <2>3 DEF VisitRam, PlaceRam, MoveRamCursor, LayoutInv, TypeOK
  <2> QED
    BY <2>1, <2>2, <2>3 DEF Visit
<1> QED
  BY <1>1, <1>2, <1>3, <1>4

\* A visit records what its position calls for, and moves on by it.
LEMMA VisitHere ==
    ASSUME LayoutInv, Visit, NEW c \in Index, c = cursor, NEW at \in Position, at = Current
    PROVE  Recorded(c, at)' /\ Current' = After(c, at)'
<1> DEFINE f == prog[c]
<1>1. /\ Occupy /\ cursor \in Index
      /\ UNCHANGED <<prog, mode>> /\ Checkpoints' = Checkpoints
  BY VisitOthers, SameLayout DEF Visit, VisitCode, VisitPlacement, VisitBank, VisitRam
<1>2. /\ at.pc = pc /\ at.output = output /\ at.bankStart = bankStart
      /\ at.bankSize = bankSize /\ at.ramPc = ramPc
  BY DEF Current
<1>3. narrowed' = NewWidths /\ (f.kind # "instruction" => narrowed' = narrowed)
  <2>1. CASE VisitCode
    BY <1>1, <2>1, SizeIsNeeded DEF VisitCode
  <2>2. CASE VisitPlacement \/ VisitBank \/ VisitRam
    <3>1. narrowed' = narrowed /\ f.kind # "instruction"
      BY <2>2 DEF VisitPlacement, VisitBank, VisitRam, Visiting
    <3> QED
      BY <1>1, <3>1, SizeIsNeeded
  <2> QED
    BY <2>1, <2>2 DEF Visit
<1>4. run'[c] = Size /\ Size = Needs(c, at, narrowed') /\ Start = Begin(c, at)
  BY <1>1, <1>3, SizeIsNeeded DEF Occupy, LayoutInv, TypeOK
<1>5. Needs(c, at, narrowed)' = Needs(c, at, narrowed') /\ Begin(c, at)' = Begin(c, at)
  BY <1>1 DEF Needs, Length, Begin
<1>6. f.kind \in Anchored => placed'[c] = at.pc
  <2>1. f.kind \in Anchored => VisitCode
    BY DEF Visit, VisitPlacement, VisitBank, VisitRam, Visiting, Anchored
  <2> QED
    BY <1>2, <2>1 DEF VisitCode, Here, LayoutInv, TypeOK
<1>7. mode = "binary" /\ f.kind = "ram" =>
         /\ placed'[c] = at.ramPc /\ ramSize'[c] = Extent(f.count, narrowed')
         /\ ramPc' = at.ramPc + ramSize'[c]
  <2> SUFFICES ASSUME mode = "binary", f.kind = "ram"
               PROVE  /\ placed'[c] = at.ramPc /\ ramSize'[c] = Extent(f.count, narrowed')
                      /\ ramPc' = at.ramPc + ramSize'[c]
    OBVIOUS
  <2>1. VisitRam
    BY DEF Visit, VisitCode, VisitPlacement, VisitBank, Visiting, Anchored
  <2>2. PlaceRam(cursor) /\ c \in Rams
    BY <2>1 DEF VisitRam, Rams
  <2> QED
    BY <1>2, <1>3, <2>2 DEF PlaceRam, LayoutInv, TypeOK
<1>8. c \in Checkpoints =>
         checkpoint'[c] = [address |-> Begin(c, at), offset |-> at.output]
  BY <1>1, <1>2, <1>4 DEF Occupy, LayoutInv, TypeOK
<1>9. Recorded(c, at)'
  BY <1>1, <1>4, <1>5, <1>6, <1>7, <1>8 DEF Recorded
<1>10. pc' = Begin(c, at) + (IF f.kind \in {"bank", "bankend"} THEN 0 ELSE run'[c])
       /\ output' = at.output + run'[c]
  BY <1>1, <1>2, <1>4 DEF Occupy, Advance
<1>11. /\ bankStart' = IF f.kind = "bank" THEN at.output ELSE at.bankStart
       /\ bankSize' = IF f.kind = "bank" THEN f.size ELSE at.bankSize
  <2>1. CASE VisitBank
    BY <1>2, <2>1 DEF VisitBank, Visiting
  <2>2. CASE VisitCode \/ VisitPlacement \/ VisitRam
    BY <1>2, <2>2 DEF VisitCode, VisitPlacement, VisitRam, Visiting, Anchored
  <2> QED
    BY <2>1, <2>2 DEF Visit
<1>12. ramPc' = IF mode = "binary" /\ f.kind = "ram" THEN at.ramPc + ramSize'[c]
                ELSE IF mode = "binary" /\ f.kind = "ramorigin" THEN f.base ELSE at.ramPc
  <2>1. CASE VisitRam
    <3>1. mode \in {"binary", "link"}
      BY DEF LayoutInv, TypeOK
    <3>2. CASE f.kind = "ram"
      BY <1>2, <1>7, <2>1, <3>1, <3>2 DEF VisitRam
    <3>3. CASE f.kind = "ramorigin"
      BY <1>2, <2>1, <3>1, <3>3 DEF VisitRam, MoveRamCursor
    <3> QED
      BY <2>1, <3>2, <3>3 DEF VisitRam, Visiting
  <2>2. CASE VisitCode \/ VisitPlacement \/ VisitBank
    BY <1>2, <2>2 DEF VisitCode, VisitPlacement, VisitBank, Visiting, Anchored
  <2> QED
    BY <2>1, <2>2 DEF Visit
<1>13. Current' = After(c, at)'
  BY <1>1, <1>5, <1>10, <1>11, <1>12 DEF Current, After
<1> QED
  BY <1>9, <1>13

-----------------------------------------------------------------------------
(* The trace *)

LEMMA TraceType ==
    ASSUME LayoutInv, NEW t \in Trace, NEW i \in 1 .. Last
    PROVE  /\ Len(prog) \in Nat /\ Last \in Nat
           /\ t[i] \in Position
           /\ t[i].pc \in Nat /\ t[i].output \in Nat
           /\ t[i].bankStart \in Nat /\ t[i].bankSize \in Nat /\ t[i].ramPc \in Nat
<1>1. Len(prog) \in Nat /\ Last \in Nat
  BY DEF LayoutInv, TypeOK, Last
<1>2. t[i] \in Position
  BY DEF Trace
<1> QED
  BY <1>1, <1>2 DEF Position

LEMMA BeginType ==
    ASSUME LayoutInv, NEW t \in Trace, NEW i \in Index
    PROVE  Begin(i, t[i]) \in Nat
<1>1. i \in 1 .. Last
  BY DEF Index, Last, LayoutInv, TypeOK
<1> QED
  BY <1>1, TraceType, FragmentType DEF Begin

\* The part of a trace up to an earlier fragment is a trace.
LEMMA TracePrefix ==
    ASSUME LayoutInv, NEW t \in Trace, Traced(t, Last), NEW n \in 1 .. Last
    PROVE  Traced(t, n)
<1>1. Last \in Nat
  BY DEF LayoutInv, TypeOK, Last
<1> QED
  BY <1>1 DEF Traced, Follows, Affine, Banks

\* Addresses and offsets still move together at the fragment just reached:
\* either it records a checkpoint, or the one before it moved both alike.
LEMMA AffineGrows ==
    ASSUME LayoutInv, NEW t \in Trace, NEW n \in Index, Traced(t, n)
    PROVE  Affine(t, n + 1)
<1>1. n \in Nat /\ n >= 1 /\ n <= Len(prog) /\ Len(prog) \in Nat /\ Last = Len(prog) + 1
  BY DEF Index, Last, LayoutInv, TypeOK
<1>2. \A c \in Checkpoints : c \in Int
  BY DEF Checkpoints, Index
<1>3. CASE n \in Checkpoints
  <2>1. LastBefore(n, n)
    BY <1>1, <1>2, <1>3 DEF LastBefore
  <2>2. n \in 1 .. Last /\ n \in 1 .. n
    BY <1>1
  <2>3. Begin(n, t[n]) - Begin(n, t[n]) = t[n].output - t[n].output
    BY <2>2, BeginType, TraceType
  <2> QED
    BY <1>1, <2>1, <2>2, <2>3 DEF Traced, Affine
<1>4. CASE n \notin Checkpoints
  <2> DEFINE m == n - 1
  <2>1. /\ n # 1 /\ prog[m].kind # "bankend" /\ prog[n].kind \notin {"origin", "bank"}
        /\ m \in 1 .. n - 1 /\ m \in Index /\ m \in 1 .. Last /\ n \in 1 .. Last /\ m + 1 = n
    BY <1>1, <1>4 DEF Checkpoints, Index
  <2> HIDE DEF m
  <2>2. Recorded(m, t[m]) /\ t[n] = After(m, t[m])
    BY <2>1 DEF Traced, Follows
  <2>3. prog[m].kind = "bank" => run[m] = 0
    BY <2>2 DEF Recorded, Needs
  <2>4. run[m] \in Nat /\ Begin(m, t[m]) \in Nat /\ t[m].output \in Nat
    BY <2>1, BeginType, TraceType DEF LayoutInv, TypeOK
  <2>5. t[n].pc = Begin(m, t[m]) + run[m] /\ t[n].output = t[m].output + run[m]
    BY <2>1, <2>2, <2>3, <2>4 DEF After
  <2>6. Begin(n, t[n]) = t[n].pc
    BY <2>1 DEF Begin
  <2>7. PICK c \in 1 .. m : /\ LastBefore(c, m)
                            /\ Begin(m, t[m]) - Begin(c, t[c]) = t[m].output - t[c].output
    BY <2>1 DEF Traced, Affine
  <2>8. LastBefore(c, n) /\ c \in 1 .. n
    BY <1>1, <1>2, <1>4, <2>1, <2>7 DEF LastBefore
  <2>9. c \in Index /\ c \in 1 .. Last
    BY <1>1, <2>8 DEF Index
  <2>10. Begin(c, t[c]) \in Nat /\ t[c].output \in Nat
    BY <2>9, BeginType, TraceType
  <2>11. Begin(n, t[n]) - Begin(c, t[c]) = t[n].output - t[c].output
    BY <2>4, <2>5, <2>6, <2>7, <2>10
  <2> QED
    BY <1>1, <2>8, <2>11 DEF Traced, Affine
<1> QED
  BY <1>3, <1>4

\* The position after a bank is in that bank, any other in the one before.
LEMMA TraceGrows ==
    ASSUME LayoutInv, NEW t \in Trace, NEW n \in Index, Traced(t, n), NEW u \in Position,
           u.bankStart = (IF prog[n].kind = "bank" THEN t[n].output ELSE t[n].bankStart),
           u.bankSize = (IF prog[n].kind = "bank" THEN prog[n].size ELSE t[n].bankSize),
           NEW s \in Trace, s[n + 1] = u, \A i \in 1 .. n : s[i] = t[i]
    PROVE  s[1] = Start0 /\ Affine(s, n + 1) /\ Banks(s, n + 1)
<1>1. n \in Nat /\ n >= 1 /\ n <= Len(prog) /\ Len(prog) \in Nat /\ Last = Len(prog) + 1
  BY DEF Index, Last, LayoutInv, TypeOK
<1>2. n + 1 \in 1 .. Last
  BY <1>1
<1>3. s[n + 1] = u /\ \A i \in 1 .. n : s[i] = t[i]
  OBVIOUS
<1>4. s[1] = Start0
  BY <1>1, <1>3 DEF Traced
<1>5. Affine(s, n + 1)
  <2>1. Affine(t, n + 1)
    BY AffineGrows
  <2>2. \A i \in 1 .. n : \A c \in 1 .. i : c \in 1 .. n
    BY <1>1
  <2>3. 1 .. (n + 1) - 1 = 1 .. n
    BY <1>1
  <2>4. ASSUME NEW i \in 1 .. n
        PROVE  \E c \in 1 .. i : /\ LastBefore(c, i)
                                 /\ Begin(i, s[i]) - Begin(c, s[c]) = s[i].output - s[c].output
    <3>1. PICK c \in 1 .. i : /\ LastBefore(c, i)
                              /\ Begin(i, t[i]) - Begin(c, t[c]) = t[i].output - t[c].output
      BY <1>1, <2>1 DEF Affine
    <3>2. s[i] = t[i] /\ s[c] = t[c]
      BY <1>3, <2>2
    <3> QED
      BY <3>1, <3>2
  <2> QED
    BY <2>3, <2>4, Zenon DEF Affine
<1>6. Banks(s, n + 1)
  <2> SUFFICES ASSUME NEW i \in 1 .. n + 1
               PROVE  /\ \A b \in 1 .. i - 1 : Within(b, i) =>
                            s[i].bankStart = s[b].output /\ s[i].bankSize = prog[b].size
                      /\ (\E b \in 1 .. i - 1 : prog[b].kind = "bank")
                            => \E b \in 1 .. i - 1 : Within(b, i)
    BY <1>1 DEF Banks
  <2>1. CASE i \in 1 .. n
    <3>1. \A b \in 1 .. i - 1 : s[b] = t[b]
      BY <1>1, <1>3, <2>1
    <3> QED
      BY <1>3, <2>1, <3>1 DEF Traced, Banks
  <2>2. CASE i = n + 1
    <3>1. /\ \A b \in 1 .. n - 1 : Within(b, n) =>
                t[n].bankStart = t[b].output /\ t[n].bankSize = prog[b].size
          /\ (\E b \in 1 .. n - 1 : prog[b].kind = "bank")
                => \E b \in 1 .. n - 1 : Within(b, n)
      BY <1>1 DEF Traced, Banks
    <3>2. s[i] = u /\ \A b \in 1 .. i - 1 : b \in 1 .. n /\ s[b] = t[b]
      BY <1>1, <1>3, <2>2
    <3>3. CASE prog[n].kind = "bank"
      <4>1. Within(n, i) /\ n \in 1 .. i - 1
        BY <1>1, <2>2, <3>3 DEF Within
      <4>2. \A b \in 1 .. i - 1 : Within(b, i) => b = n
        BY <1>1, <2>2, <3>3 DEF Within
      <4>3. u.bankStart = s[n].output /\ u.bankSize = prog[n].size
        BY <1>1, <1>3, <3>3
      <4> QED
        BY <3>2, <4>1, <4>2, <4>3
    <3>4. CASE prog[n].kind # "bank"
      <4>1. \A b \in 1 .. n - 1 : Within(b, i) <=> Within(b, n)
        <5> TAKE b \in 1 .. n - 1
        <5>1. b + 1 .. i - 1 = (b + 1 .. n - 1) \cup {n}
          BY <1>1, <2>2
        <5> QED
          BY <3>4, <5>1 DEF Within
      <4>2. ~Within(n, i) /\ \A b \in 1 .. i - 1 : b # n => b \in 1 .. n - 1
        BY <1>1, <2>2, <3>4 DEF Within
      <4>3. u.bankStart = t[n].bankStart /\ u.bankSize = t[n].bankSize
        BY <3>4
      <4>4. \A b \in 1 .. i - 1 : Within(b, i) =>
               s[i].bankStart = s[b].output /\ s[i].bankSize = prog[b].size
        BY <3>1, <3>2, <4>1, <4>2, <4>3
      <4>5. ASSUME NEW b \in 1 .. i - 1, prog[b].kind = "bank"
            PROVE  \E d \in 1 .. i - 1 : Within(d, i)
        <5>1. b \in 1 .. n - 1
          BY <3>4, <4>2, <4>5
        <5>2. PICK d \in 1 .. n - 1 : Within(d, n)
          BY <3>1, <4>5, <5>1
        <5>3. d \in 1 .. i - 1
          BY <1>1, <2>2
        <5> QED
          BY <4>1, <5>2, <5>3
      <4> QED
        BY <4>4, <4>5
    <3> QED
      BY <3>3, <3>4
  <2> QED
    BY <1>1, <2>1, <2>2
<1> QED
  BY <1>4, <1>5, <1>6

\* A trace stays one while nothing it names changes.
LEMMA TraceKept ==
    ASSUME LayoutInv, NEW t \in Trace, NEW n \in 1 .. Last, Traced(t, n),
           UNCHANGED <<prog, mode, run, placed, checkpoint, ramSize, narrowed>>,
           (~shortened' => ~shortened) \/ FixedExtents
    PROVE  Traced(t, n)'
<1>1. /\ Index' = Index /\ Rams' = Rams /\ Checkpoints' = Checkpoints
      /\ Last' = Last /\ Trace' = Trace
  BY SameLayout
<1>2. \A i \in 1 .. n - 1 : i \in Index
  BY DEF Index, Last, LayoutInv, TypeOK
<1>3. ASSUME NEW i \in 1 .. n - 1
      PROVE  Recorded(i, t[i])' /\ t[i+1] = After(i, t[i])'
  <2>1. Recorded(i, t[i]) /\ t[i+1] = After(i, t[i])
    BY DEF Traced, Follows
  <2> QED
    BY <1>2, <2>1, RecordedKept, AfterKept
<1>4. Follows(t, n)'
  BY <1>3 DEF Follows
<1>5. /\ \A c, i : LastBefore(c, i)' <=> LastBefore(c, i)
      /\ \A i, at : Begin(i, at)' = Begin(i, at)
      /\ \A b, i : Within(b, i)' <=> Within(b, i)
  BY <1>1 DEF LastBefore, Begin, Within
<1>6. Affine(t, n)' /\ Banks(t, n)'
  <2>1. Affine(t, n)'
    BY <1>5 DEF Traced, Affine
  <2>2. Banks(t, n)'
    BY <1>5 DEF Traced, Banks
  <2> QED
    BY <2>1, <2>2
<1> QED
  BY <1>1, <1>4, <1>6 DEF Traced

-----------------------------------------------------------------------------
(* A walk carries the trace on *)

\* A walk that goes where the last one went, and shortens nothing, leaves
\* everything as it was.
LEMMA VisitRepeats ==
    ASSUME LayoutInv, Visit, ~shortened', FixedExtents,
           NEW n \in Index, n = cursor, NEW t \in Trace, Traced(t, Last), t[n] = Current
    PROVE  /\ UNCHANGED <<run, placed, checkpoint, ramSize, narrowed>>
           /\ t[n + 1] = Current' /\ ~Narrowable(n, placed, narrowed)
<1>1. /\ UNCHANGED <<prog, mode>> /\ narrowed' = narrowed /\ ~shortened
      /\ Checkpoints' = Checkpoints
  BY VisitOthers, SameLayout
<1>2. n \in 1 .. Last - 1 /\ n \in 1 .. Last
  BY DEF Index, Last, LayoutInv, TypeOK
<1>3. Recorded(n, t[n]) /\ t[n+1] = After(n, t[n]) /\ t[n] \in Position
  BY <1>2, TraceType DEF Traced, Follows
<1>4. Recorded(n, t[n])' /\ Current' = After(n, t[n])'
  BY <1>3, VisitHere
<1>5. Settled(n) /\ Settled(n)'
  BY <1>1 DEF Settled
<1>6. run'[n] = run[n]
  BY <1>1, <1>3, <1>4, <1>5 DEF Recorded, Needs, Length
<1>7. checkpoint'[n] = checkpoint[n]
  <2>1. CASE n \in Checkpoints
    BY <1>1, <1>3, <1>4, <2>1 DEF Recorded, Begin
  <2>2. CASE n \notin Checkpoints
    BY <2>2 DEF Visit, VisitCode, VisitPlacement, VisitBank, VisitRam, Occupy
  <2> QED
    BY <2>1, <2>2
<1>8. mode \in {"binary", "link"}
  BY DEF LayoutInv, TypeOK
<1>9. placed'[n] = placed[n] /\ (n \in Rams => ramSize'[n] = ramSize[n])
  <2>1. CASE prog[n].kind \in Anchored
    <3>1. n \notin Rams
      BY <2>1 DEF Rams, Anchored
    <3> QED
      BY <1>1, <1>3, <1>4, <2>1, <3>1 DEF Recorded
  <2>2. CASE mode = "binary" /\ prog[n].kind = "ram"
    BY <1>1, <1>3, <1>4, <1>5, <2>2 DEF Recorded
  <2>3. CASE prog[n].kind \notin Anchored /\ ~(mode = "binary" /\ prog[n].kind = "ram")
    <3>1. UNCHANGED <<placed, ramSize>>
      BY <1>8, <2>3 DEF Visit, VisitCode, VisitPlacement, VisitBank, VisitRam, Visiting,
                        MoveRamCursor
    <3> QED
      BY <3>1
  <2> QED
    BY <2>1, <2>2, <2>3
<1>10. \A i \in Index : /\ run'[i] = run[i] /\ placed'[i] = placed[i]
                        /\ checkpoint'[i] = checkpoint[i]
                        /\ i \in Rams => ramSize'[i] = ramSize[i]
  BY <1>6, <1>7, <1>9, VisitOthers
<1>11. /\ run \in [Index -> Nat] /\ run' \in [Index -> Nat]
       /\ placed \in [Index -> Int \cup {Unplaced}] /\ placed' \in [Index -> Int \cup {Unplaced}]
       /\ checkpoint \in [Index -> [address : Nat, offset : Nat]]
       /\ checkpoint' \in [Index -> [address : Nat, offset : Nat]]
       /\ ramSize \in [Rams -> Nat] /\ ramSize' \in [Rams -> Nat]
  <2>1. LayoutInv' /\ Index' = Index /\ Rams' = Rams
    BY <1>1, VisitType, SameLayout DEF Visit
  <2> QED
    BY <2>1 DEF LayoutInv, TypeOK
<1>12. \A i \in Rams : i \in Index
  BY DEF Rams
<1>13. UNCHANGED <<run, placed, checkpoint, ramSize, narrowed>>
  BY <1>1, <1>10, <1>11, <1>12
<1>14. t[n+1] = Current'
  BY <1>1, <1>3, <1>4, <1>13, AfterKept
<1>15. ~Narrowable(n, placed, narrowed)
  <2>1. CASE prog[n].kind = "instruction"
    <3>1. VisitCode
      BY <2>1 DEF Visit, VisitPlacement, VisitBank, VisitRam, Visiting
    <3>2. NewWidths = narrowed /\ Here = placed
      BY <1>1, <1>13, <3>1 DEF VisitCode
    <3> QED
      BY <3>2 DEF NewWidths, Narrowable
  <2>2. CASE prog[n].kind # "instruction"
    BY <2>2 DEF Narrowable
  <2> QED
    BY <2>1, <2>2
<1> QED
  BY <1>13, <1>14, <1>15

LEMMA VisitTrace ==
    ASSUME LayoutInv, Visit, NEW t \in Trace, NEW n \in 1 .. Last, TraceInv(t, n)
    PROVE  (\E s \in Trace, m \in 1 .. Last : TraceInv(s, m))'
<1>1. /\ phase = "walk" /\ n = cursor /\ n \in Index /\ cursor' = n + 1
      /\ Traced(t, n) /\ t[n] = Current /\ Repeats(t, n)
      /\ UNCHANGED <<prog, mode, phase, walks>>
  BY VisitOthers DEF TraceInv
<1>2. /\ Last' = Last /\ Trace' = Trace /\ Index' = Index /\ Checkpoints' = Checkpoints
      /\ FixedExtents' = FixedExtents
  BY <1>1, SameLayout
<1>3. n + 1 \in 1 .. Last /\ Last \in 1 .. Last /\ n \in 1 .. n /\ 1 .. n + 1 - 1 = 1 .. n
      /\ \A i \in 1 .. n : (i \in 1 .. n - 1 \/ i = n) /\ i \in Index
  BY <1>1 DEF Index, Last, LayoutInv, TypeOK
<1>4. LayoutInv' /\ Current' \in Position
  BY VisitType, CurrentType DEF Visit, Current, Position, LayoutInv, TypeOK
<1>5. CASE walks >= 2 /\ ~shortened' /\ FixedExtents
  <2>1. ~shortened
    BY <1>5, VisitOthers
  <2>2. Traced(t, Last) /\ \A i \in 1 .. n - 1 : ~Narrowable(i, placed, narrowed)
    BY <1>1, <1>5, <2>1 DEF Repeats
  <2>3. /\ UNCHANGED <<run, placed, checkpoint, ramSize, narrowed>>
        /\ t[n + 1] = Current' /\ ~Narrowable(n, placed, narrowed)
    BY <1>1, <1>5, <2>2, VisitRepeats
  <2>4. Traced(t, n + 1)
    BY <1>3, <2>2, TracePrefix
  <2>5. Traced(t, Last)' /\ Traced(t, n + 1)'
    BY <1>1, <1>2, <1>3, <1>5, <2>2, <2>3, <2>4, TraceKept
  <2>6. \A i \in 1 .. n : ~Narrowable(i, placed, narrowed)'
    <3>1. \A i \in 1 .. n : ~Narrowable(i, placed, narrowed)
      BY <1>3, <2>2, <2>3
    <3> QED
      BY <1>1, <2>3, <3>1 DEF Narrowable
  <2>7. TraceInv(t, n + 1)'
    BY <1>1, <1>2, <1>3, <2>3, <2>5, <2>6 DEF TraceInv, Repeats, Ready
  <2> QED
    BY <1>2, <1>3, <2>7
<1>6. CASE ~(walks >= 2 /\ ~shortened' /\ FixedExtents)
  <2>1. PICK u \in Position : u = Current'
    BY <1>4
  <2>2. Recorded(n, t[n])' /\ u = After(n, t[n])' /\ t[n] \in Position
    BY <1>1, <2>1, TraceType, VisitHere
  <2>3. /\ u.bankStart = IF prog[n].kind = "bank" THEN t[n].output ELSE t[n].bankStart
        /\ u.bankSize = IF prog[n].kind = "bank" THEN prog[n].size ELSE t[n].bankSize
    BY <1>1, <2>2 DEF After
  <2>4. PICK s \in Trace : s[n + 1] = u /\ \A i \in 1 .. n : s[i] = t[i]
    <3>1. n + 1 \in 1 .. Last /\ \A i \in 1 .. n : i \in 1 .. Last /\ i # n + 1
      BY <1>3
    <3>2. [t EXCEPT ![n + 1] = u] \in Trace
      BY DEF Trace
    <3> QED
      BY <3>1, <3>2 DEF Trace
  <2>5. s[1] = Start0 /\ Affine(s, n + 1) /\ Banks(s, n + 1)
    BY <1>1, <2>3, <2>4, TraceGrows
  <2>6. Affine(s, n + 1)' /\ Banks(s, n + 1)'
    BY <1>1, <1>2, <2>5 DEF Affine, LastBefore, Begin, Banks, Within
  <2>7. ASSUME NEW i \in 1 .. n PROVE Recorded(i, s[i])' /\ s[i + 1] = After(i, s[i])'
    <3>1. CASE i = n
      BY <2>2, <2>4, <3>1
    <3>2. CASE i \in 1 .. n - 1
      <4>1. Recorded(i, t[i]) /\ t[i + 1] = After(i, t[i])
        BY <1>1, <3>2 DEF Traced, Follows
      <4>2. i \in Index /\ i # cursor /\ i + 1 \in 1 .. n
        BY <1>1, <1>3, <3>2
      <4>3. Recorded(i, t[i])'
        BY <1>1, <4>1, <4>2, VisitOthers, RecordedKept
      <4>4. After(i, t[i])' = After(i, t[i])
        BY <1>1, <4>2, VisitOthers, AfterKept
      <4> QED
        BY <2>4, <4>1, <4>2, <4>3, <4>4
    <3> QED
      BY <1>3, <3>1, <3>2
  <2>8. Follows(s, n + 1)'
    BY <1>3, <2>7 DEF Follows
  <2>9. Traced(s, n + 1)'
    BY <1>2, <2>5, <2>6, <2>8 DEF Traced
  <2>10. TraceInv(s, n + 1)'
    BY <1>1, <1>2, <1>6, <2>1, <2>4, <2>9 DEF TraceInv, Repeats, Ready
  <2> QED
    BY <1>2, <1>3, <2>10
<1> QED
  BY <1>5, <1>6

-----------------------------------------------------------------------------
(* Preparation, the loop, and the last pass *)

\* What becomes short in a pass over all fragments may be short.
LEMMA NarrowedAtOnce ==
    ASSUME LayoutInv, NEW where, NEW short, NEW i \in NarrowNow(where, short)
    PROVE  /\ prog[i].kind = "instruction" /\ prog[i].form = "optional"
           /\ prog[i].operand.plus = 0 /\ prog[i].operand.minus = 0 =>
                 prog[i].operand.value \in ZeroPage
<1>1. i \in Index /\ Narrowable(i, where, short)
  BY DEF NarrowNow
<1>2. prog[i].operand.value \in Int
  BY <1>1, FragmentType DEF Operand
<1> QED
  BY <1>1, <1>2 DEF Narrowable, Value

LEMMA PreparationPlacement ==
    ASSUME LayoutInv, PlacementInv, PrepareLink \/ PrepareBinary \/ ScanRam \/ EndScanRam
    PROVE  PlacementInv'
<1>1. /\ prog' = prog /\ mode' = mode /\ error' = error /\ walks' = walks /\ walks = 0
      /\ phase' \in {"startwalk", "ramscan"} /\ phase \in {"prepare", "ramscan"} /\ error = "ok"
  BY DEF PrepareLink, PrepareBinary, ScanRam, EndScanRam, StartWalks, PlacementInv, PhaseInv
<1>2. Last' = Last /\ Trace' = Trace /\ WellBuilt' = WellBuilt /\ Rams' = Rams
  BY <1>1, SameLayout
<1>3. \A i \in narrowed' : \/ i \in narrowed
                           \/ \E where, short : i \in NarrowNow(where, short)
  <2>1. CASE PrepareLink
    <3>1. \E where : narrowed' = NarrowNow(where, {})
      BY <2>1 DEF PrepareLink
    <3> QED
      BY <3>1
  <2>2. CASE PrepareBinary
    BY <2>2 DEF PrepareBinary
  <2>3. CASE ScanRam \/ EndScanRam
    BY <2>3 DEF ScanRam, EndScanRam
  <2> QED
    BY <2>1, <2>2, <2>3
<1>4. ShortInv'
  BY <1>1, <1>3, NarrowedAtOnce DEF ShortInv, PlacementInv
<1>5. RamFixedInv'
  <2>1. CASE PrepareLink
    <3>1. PICK short : ramSize' = Extents(short)
      BY <2>1 DEF PrepareLink
    <3>2. \A i \in Rams : i \in Index /\ ramSize'[i] = Extent(prog[i].count, short)
      BY <3>1 DEF Extents, Rams
    <3>3. \A i \in Rams : prog[i].count.coef = 0 => ramSize'[i] = prog[i].count.value
      BY <3>2, FragmentType, ExtentFixed
    <3> QED
      BY <1>1, <1>2, <3>3 DEF RamFixedInv
  <2>2. CASE ScanRam \/ PrepareBinary
    BY <1>1, <2>2 DEF RamFixedInv, ScanRam, PrepareBinary
  <2>3. CASE EndScanRam
    <3>1. mode # "link"
      BY <2>3 DEF EndScanRam, PlacementInv, PhaseInv
    <3> QED
      BY <1>1, <3>1 DEF RamFixedInv
  <2> QED
    BY <2>1, <2>2, <2>3
<1>6. PhaseInv'
  <2>1. phase' = "ramscan" => mode = "binary"
    BY DEF PrepareLink, PrepareBinary, ScanRam, EndScanRam, StartWalks, PlacementInv, PhaseInv
  <2> QED
    BY <1>1, <2>1 DEF PhaseInv, Ready
<1>7. PICK t \in Trace, n \in 1 .. Last : TraceInv(t, n)
  BY DEF PlacementInv
<1>8. TraceInv(t, n)'
  BY <1>1 DEF TraceInv, Ready
<1>9. UnstableOnlyFromRam'
  BY <1>1 DEF UnstableOnlyFromRam
<1> QED
  BY <1>2, <1>4, <1>5, <1>6, <1>7, <1>8, <1>9 DEF PlacementInv

\* An error ends the layout; only "unstable" has to be explained.
LEMMA FailPlacement ==
    ASSUME LayoutInv, PlacementInv, NEW code, code # "ok", Fail(code),
           code = "unstable" => mode = "link" /\ \E i \in Rams : prog[i].count.coef # 0
    PROVE  PlacementInv'
<1>1. /\ phase' = "done" /\ error' = code
      /\ UNCHANGED <<prog, mode, narrowed>>
  BY DEF Fail
<1>2. Last' = Last /\ Trace' = Trace /\ WellBuilt' = WellBuilt /\ Rams' = Rams
  BY <1>1, SameLayout
<1>3. ShortInv' /\ RamFixedInv' /\ PhaseInv' /\ UnstableOnlyFromRam'
  BY <1>1, <1>2 DEF PlacementInv, ShortInv, RamFixedInv, PhaseInv, Ready, UnstableOnlyFromRam
<1>4. PICK t \in Trace, n \in 1 .. Last : TraceInv(t, n)
  BY DEF PlacementInv
<1>5. TraceInv(t, n)'
  BY <1>1 DEF TraceInv, Ready
<1> QED
  BY <1>2, <1>3, <1>4, <1>5 DEF PlacementInv

LEMMA VisitPlacementKept ==
    ASSUME LayoutInv, PlacementInv, Visit
    PROVE  PlacementInv'
<1>1. /\ phase = "walk" /\ error = "ok" /\ walks >= 1
      /\ UNCHANGED <<prog, mode, phase, error, walks>>
  BY VisitOthers DEF PlacementInv, PhaseInv
<1>2. Last' = Last /\ Trace' = Trace /\ WellBuilt' = WellBuilt /\ Rams' = Rams
  BY <1>1, SameLayout
<1>3. ShortInv'
  <2> SUFFICES ASSUME NEW i \in narrowed'
               PROVE  /\ prog[i].kind = "instruction" /\ prog[i].form = "optional"
                      /\ prog[i].operand.plus = 0 /\ prog[i].operand.minus = 0 =>
                            prog[i].operand.value \in ZeroPage
    BY <1>1 DEF ShortInv
  <2>1. CASE i \in narrowed
    BY <2>1 DEF PlacementInv, ShortInv
  <2>2. CASE i \notin narrowed
    <3>1. i \in NewWidths
      BY <2>2 DEF Visit, VisitCode, VisitPlacement, VisitBank, VisitRam
    <3>2. i = cursor /\ Narrowable(i, Here, narrowed) /\ i \in Index
      BY <2>2, <3>1, VisitOthers DEF NewWidths
    <3>3. i \in NarrowNow(Here, narrowed)
      BY <3>2 DEF NarrowNow
    <3> QED
      BY <3>3, NarrowedAtOnce
  <2> QED
    BY <2>1, <2>2
<1>4. RamFixedInv'
  <2>1. mode = "link" => ramSize' = ramSize
    BY DEF Visit, VisitCode, VisitPlacement, VisitBank, VisitRam
  <2> QED
    BY <1>1, <1>2, <2>1 DEF PlacementInv, RamFixedInv
<1>5. PhaseInv' /\ UnstableOnlyFromRam'
  BY <1>1 DEF PhaseInv, Ready, UnstableOnlyFromRam
<1>6. (\E t \in Trace, n \in 1 .. Last : TraceInv(t, n))'
  BY VisitTrace DEF PlacementInv
<1> QED
  BY <1>2, <1>3, <1>4, <1>5, <1>6 DEF PlacementInv

\* A walk begins at the first fragment; after the first walk the trace of the
\* last one lies ahead of it.
LEMMA BeginWalkPlacement ==
    ASSUME LayoutInv, PlacementInv, BeginWalk
    PROVE  PlacementInv'
<1>1. /\ phase = "startwalk" /\ phase' = "walk" /\ error = "ok" /\ cursor' = 1
      /\ walks' = walks + 1 /\ shortened' = FALSE /\ walks \in Nat
      /\ Current' = Start0
      /\ UNCHANGED <<prog, mode, error, narrowed, placed, run, ramSize, checkpoint>>
  BY DEF BeginWalk, PlacementInv, PhaseInv, LayoutInv, TypeOK, Current, Start0, facts
<1>2. /\ Last' = Last /\ Trace' = Trace /\ WellBuilt' = WellBuilt /\ Rams' = Rams
      /\ FixedExtents' = FixedExtents
  BY <1>1, SameLayout
<1>3. ShortInv' /\ RamFixedInv' /\ PhaseInv' /\ UnstableOnlyFromRam'
  BY <1>1, <1>2 DEF PlacementInv, ShortInv, RamFixedInv, PhaseInv, Ready, UnstableOnlyFromRam
<1>4. Last \in Nat /\ 1 \in 1 .. Last /\ Last \in 1 .. Last
  BY DEF Last, LayoutInv, TypeOK
<1>5. PICK t0 \in Trace, n0 \in 1 .. Last : TraceInv(t0, n0)
  BY DEF PlacementInv
<1>6. \E t \in Trace : t[1] = Start0 /\ (walks # 0 => Traced(t, Last))
  <2>1. CASE walks = 0
    <3>1. Start0 \in Position
      BY RamAssumption DEF Start0, Position
    <3>2. [i \in 1 .. Last |-> Start0] \in Trace
      BY <3>1 DEF Trace
    <3> QED
      BY <1>4, <2>1, <3>2
  <2>2. CASE walks # 0
    BY <1>1, <1>5, <2>2 DEF TraceInv, Traced
  <2> QED
    BY <2>1, <2>2
<1>7. PICK t \in Trace : t[1] = Start0 /\ (walks # 0 => Traced(t, Last))
  BY <1>6
<1>8. Traced(t, 1)'
  BY <1>2, <1>7 DEF Traced, Follows, Affine, Banks
<1>9. Repeats(t, 1)'
  <2> SUFFICES ASSUME walks # 0, FixedExtents PROVE Traced(t, Last)'
    BY <1>1, <1>2 DEF Repeats
  <2> QED
    BY <1>1, <1>2, <1>4, <1>7, TraceKept
<1>10. TraceInv(t, 1)'
  BY <1>1, <1>7, <1>8, <1>9 DEF TraceInv, Ready
<1> QED
  BY <1>2, <1>3, <1>4, <1>10 DEF PlacementInv

\* Validation starts after a walk that shortened nothing and was not the first:
\* nothing is left to shorten at the addresses it found.
LEMMA EndWalkPlacement ==
    ASSUME LayoutInv, PlacementInv, WalksBounded, EndWalk
    PROVE  PlacementInv'
<1>1. walks \in Nat /\ Limit \in Nat /\ ~(walks > Limit)
  BY ShorteningsType DEF WalksBounded, Limit, LayoutInv, TypeOK
<1>2. /\ phase = "walk" /\ cursor \notin Index /\ error = "ok" /\ walks >= 1
      /\ phase' = (IF Again THEN "startwalk" ELSE "validate")
      /\ outputSize' = output /\ cursor' = 1 /\ pc' = 0 /\ output' = 0
      /\ UNCHANGED <<prog, mode, error, narrowed, placed, run, ramSize, walks, shortened,
                     checkpoint, offset, operand>>
  BY <1>1 DEF EndWalk, PlacementInv, PhaseInv
<1>3. /\ Last' = Last /\ Trace' = Trace /\ WellBuilt' = WellBuilt /\ Rams' = Rams
      /\ FixedExtents' = FixedExtents /\ Index' = Index
  BY <1>2, SameLayout
<1>4. PICK t \in Trace, n \in 1 .. Last : TraceInv(t, n)
  BY DEF PlacementInv
<1>5. /\ n = cursor /\ Traced(t, n) /\ t[n] = Current /\ Repeats(t, n)
  BY <1>2, <1>4 DEF TraceInv
<1>6. Last \in Nat /\ n = Last /\ 1 \in 1 .. Last /\ Last \in 1 .. Last /\ 1 .. Last - 1 = Index
  BY <1>2, <1>5 DEF Last, Index, LayoutInv, TypeOK
<1>7. Traced(t, Last)'
  BY <1>2, <1>3, <1>5, <1>6, TraceKept
<1>8. /\ t[1] = Start0 /\ t[Last].output = output
  BY <1>5, <1>6 DEF Traced, Current
<1>9. TraceInv(t, 1)'
  BY <1>2, <1>3, <1>7, <1>8 DEF TraceInv, Validated, Ready, Start0
<1>10. PhaseInv'
  <2>1. ~Again => /\ ~shortened
                  /\ FixedExtents => NarrowNow(placed, narrowed) = {}
    <3> SUFFICES ASSUME ~Again
                 PROVE  ~shortened /\ (FixedExtents => NarrowNow(placed, narrowed) = {})
      OBVIOUS
    <3>1. ~shortened /\ walks >= 2
      BY <1>1, <1>2 DEF Again
    <3>2. FixedExtents => \A i \in Index : ~Narrowable(i, placed, narrowed)
      BY <1>5, <1>6, <3>1 DEF Repeats
    <3> QED
      BY <3>1, <3>2 DEF NarrowNow
  <2>2. NarrowNow(placed, narrowed)' = NarrowNow(placed, narrowed)
    BY <1>2, <1>3 DEF NarrowNow, Narrowable
  <2> QED
    BY <1>2, <1>3, <2>1, <2>2 DEF PhaseInv, Ready
<1>11. ShortInv' /\ RamFixedInv' /\ UnstableOnlyFromRam'
  BY <1>2, <1>3 DEF PlacementInv, ShortInv, RamFixedInv, UnstableOnlyFromRam
<1> QED
  BY <1>3, <1>6, <1>9, <1>10, <1>11 DEF PlacementInv

\* The last pass stays on the trace, and what it accepts it has checked there.
LEMMA ValidatePlacement ==
    ASSUME LayoutInv, PlacementInv, ValidateFragment
    PROVE  PlacementInv'
<1>1. /\ phase = "validate" /\ cursor \in Index /\ ValidateError = "ok" /\ cursor' = cursor + 1
      /\ UNCHANGED <<prog, mode, phase, error, narrowed, placed, run, ramSize, walks, shortened,
                     checkpoint, outputSize>>
  BY DEF ValidateFragment
<1>2. /\ Last' = Last /\ Trace' = Trace /\ WellBuilt' = WellBuilt /\ Rams' = Rams
      /\ FixedExtents' = FixedExtents /\ Index' = Index
  BY <1>1, SameLayout
<1>3. PICK t \in Trace, n \in 1 .. Last : TraceInv(t, n)
  BY DEF PlacementInv
<1>4. /\ n = cursor /\ Traced(t, Last) /\ Validated(t, n)
      /\ outputSize = t[Last].output /\ output = t[n].output /\ pc = t[n].pc
  BY <1>1, <1>3 DEF TraceInv
<1>5. /\ n + 1 \in 1 .. Last /\ Last \in 1 .. Last /\ n \in 1 .. Last - 1 /\ n \in Index
      /\ \A i \in 1 .. n + 1 - 1 : (i = n \/ i \in 1 .. n - 1) /\ i \in Index
  BY <1>1, <1>4 DEF Last, Index, LayoutInv, TypeOK
<1>6. Traced(t, Last)'
  BY <1>1, <1>2, <1>4, <1>5, TraceKept
<1>7. ValidAddress = Begin(n, t[n])
  BY <1>4 DEF ValidAddress, Begin
<1>8. t[n + 1] = After(n, t[n])
  BY <1>4, <1>5 DEF Traced, Follows
<1>9. output' = t[n + 1].output /\ pc' = t[n + 1].pc
  BY <1>4, <1>7, <1>8 DEF ValidateFragment, After
<1>10. \A i \in Index : i # n => offset'[i] = offset[i] /\ operand'[i] = operand[i]
  BY <1>4 DEF ValidateFragment, LayoutInv, TypeOK
<1>11. offset'[n] = t[n].output
  BY <1>4, <1>5 DEF ValidateFragment, LayoutInv, TypeOK
<1>12. ASSUME HasOperand(prog[n])
       PROVE  /\ operand'[n] = Value(prog[n].operand, placed)
              /\ n \in narrowed => operand'[n] \in ZeroPage
              /\ prog[n].form = "relative" =>
                    operand'[n] - (Begin(n, t[n]) + 2) \in -128 .. 127
  <2> DEFINE word == Value(prog[n].operand, placed)
  <2>1. operand'[n] = word
    BY <1>4, <1>5, <1>12 DEF ValidateFragment, LayoutInv, TypeOK
  <2>2. OperandFits(n, word, Begin(n, t[n]))
    BY <1>1, <1>4, <1>7, <1>12 DEF ValidateError
  <2>3. prog[n].early => /\ prog[n].operand.plus = 0 /\ prog[n].operand.minus = 0
                         /\ word = prog[n].operand.value
    <3>1. prog[n].operand.value \in Int
      BY <1>5, FragmentType DEF Operand
    <3> QED
      BY <1>5, <3>1 DEF PlacementInv, WellBuilt, Buildable, Value
  <2> HIDE DEF word
  <2>4. n \in narrowed => word \in ZeroPage
    <3> SUFFICES ASSUME n \in narrowed PROVE word \in ZeroPage
      OBVIOUS
    <3>1. prog[n].kind = "instruction" /\ prog[n].form = "optional"
      BY DEF PlacementInv, ShortInv
    <3>2. CASE prog[n].early
      BY <2>3, <3>2 DEF PlacementInv, ShortInv
    <3>3. CASE ~prog[n].early
      BY <2>2, <3>1, <3>3 DEF OperandFits
    <3> QED
      BY <3>2, <3>3
  <2>5. prog[n].form = "relative" => word - (Begin(n, t[n]) + 2) \in -128 .. 127
    <3> SUFFICES ASSUME prog[n].form = "relative"
                 PROVE  word - (Begin(n, t[n]) + 2) \in -128 .. 127
      OBVIOUS
    <3>1. prog[n].kind = "instruction"
      BY <1>5 DEF PlacementInv, WellBuilt, Buildable
    <3> QED
      BY <2>2, <3>1 DEF OperandFits
  <2> QED
    BY <2>1, <2>4, <2>5 DEF word
<1>13. Validated(t, n + 1)'
  <2> SUFFICES ASSUME NEW i \in 1 .. n + 1 - 1
               PROVE  (/\ offset[i] = t[i].output
                       /\ HasOperand(prog[i]) =>
                             /\ operand[i] = Value(prog[i].operand, placed)
                             /\ i \in narrowed => operand[i] \in ZeroPage
                             /\ prog[i].form = "relative" =>
                                   operand[i] - (Begin(i, t[i]) + 2) \in -128 .. 127)'
    BY DEF Validated
  <2>1. Begin(i, t[i])' = Begin(i, t[i])
    BY <1>1 DEF Begin
  <2>2. CASE i = n
    BY <1>1, <1>11, <1>12, <2>1, <2>2
  <2>3. CASE i \in 1 .. n - 1
    <3>1. i # n /\ i \in Index
      BY <1>5, <2>3
    <3>2. /\ offset[i] = t[i].output
          /\ HasOperand(prog[i]) =>
                /\ operand[i] = Value(prog[i].operand, placed)
                /\ i \in narrowed => operand[i] \in ZeroPage
                /\ prog[i].form = "relative" =>
                      operand[i] - (Begin(i, t[i]) + 2) \in -128 .. 127
      BY <1>4, <2>3 DEF Validated
    <3> QED
      BY <1>1, <1>10, <2>1, <3>1, <3>2
  <2> QED
    BY <1>5, <2>2, <2>3
<1>14. TraceInv(t, n + 1)'
  BY <1>1, <1>2, <1>4, <1>6, <1>9, <1>13 DEF TraceInv, Ready
<1>15. PhaseInv' /\ ShortInv' /\ RamFixedInv' /\ UnstableOnlyFromRam'
  <2>1. NarrowNow(placed, narrowed)' = NarrowNow(placed, narrowed)
    BY <1>1, <1>2 DEF NarrowNow, Narrowable
  <2> QED
    BY <1>1, <1>2, <2>1
       DEF PlacementInv, PhaseInv, ShortInv, RamFixedInv, UnstableOnlyFromRam, Ready
<1> QED
  BY <1>2, <1>5, <1>14, <1>15 DEF PlacementInv

\* In the last pass every extent that does not follow widths past the RAM
\* allocation is the one the walks used.
LEMMA ExtentsSettle ==
    ASSUME LayoutInv, PlacementInv, phase = "validate"
    PROVE  /\ \A i \in Index : prog[i].kind = "storage"
                                  => Extent(prog[i].count, narrowed) = run[i]
           /\ \A i \in Index : prog[i].kind \in {"fixed", "copy", "data"}
                                  => run[i] = prog[i].size
           /\ ~RamSettled => mode = "link" /\ \E i \in Rams : prog[i].count.coef # 0
           /\ cursor \notin Index => output = outputSize
<1>1. PICK t \in Trace, n \in 1 .. Last : TraceInv(t, n)
  BY DEF PlacementInv
<1>2. /\ n = cursor /\ Traced(t, Last) /\ ~shortened
      /\ outputSize = t[Last].output /\ output = t[n].output
  BY <1>1 DEF TraceInv, PlacementInv, PhaseInv
<1>3. /\ \A i \in Index : Recorded(i, t[i]) /\ Settled(i)
      /\ cursor \notin Index => n = Last
  BY <1>2 DEF Traced, Follows, Index, Last, LayoutInv, TypeOK, Settled
<1>4. \A i \in Index : prog[i].kind = "storage" => Extent(prog[i].count, narrowed) = run[i]
  BY <1>3 DEF Recorded, Needs
<1>5. \A i \in Index : prog[i].kind \in {"fixed", "copy", "data"} => run[i] = prog[i].size
  BY <1>3 DEF Recorded, Needs
<1>6. ASSUME NEW i \in Rams, Extent(prog[i].count, narrowed) # ramSize[i]
      PROVE  mode = "link" /\ prog[i].count.coef # 0
  <2>1. i \in Index /\ prog[i].kind = "ram" /\ prog[i].count \in Count
    BY FragmentType DEF Rams
  <2>2. mode # "binary"
    BY <1>3, <1>6, <2>1 DEF Recorded
  <2>3. mode = "link"
    BY <2>2 DEF LayoutInv, TypeOK
  <2>4. prog[i].count.coef # 0
    BY <1>6, <2>1, <2>3, ExtentFixed DEF PlacementInv, RamFixedInv
  <2> QED
    BY <2>3, <2>4
<1>7. ~RamSettled => mode = "link" /\ \E i \in Rams : prog[i].count.coef # 0
  BY <1>6 DEF RamSettled
<1> QED
  BY <1>2, <1>3, <1>4, <1>5, <1>7

LEMMA EncodePlacement ==
    ASSUME LayoutInv, PlacementInv, Encode
    PROVE  PlacementInv'
<1>1. phase = "validate" /\ cursor \notin Index /\ error = "ok"
  BY DEF Encode, PlacementInv, PhaseInv
<1>2. Encodable
  BY <1>1, ExtentsSettle DEF Encodable
<1>3. /\ phase' = "done"
      /\ UNCHANGED <<prog, mode, error, narrowed, placed, run, ramSize, walks, shortened,
                     cursor, pc, output, checkpoint, outputSize, offset, operand>>
  BY <1>2 DEF Encode, walkLocals, facts
<1>4. /\ Last' = Last /\ Trace' = Trace /\ WellBuilt' = WellBuilt /\ Rams' = Rams
      /\ FixedExtents' = FixedExtents /\ Index' = Index
  BY <1>3, SameLayout
<1>5. PICK t \in Trace, n \in 1 .. Last : TraceInv(t, n)
  BY DEF PlacementInv
<1>6. /\ n = cursor /\ Traced(t, Last) /\ Validated(t, n)
      /\ outputSize = t[Last].output /\ output = t[n].output /\ pc = t[n].pc
  BY <1>1, <1>5 DEF TraceInv
<1>7. n = Last /\ Last \in 1 .. Last
  BY <1>1, <1>6 DEF Index, Last, LayoutInv, TypeOK
<1>8. Traced(t, Last)'
  BY <1>3, <1>4, <1>6, <1>7, TraceKept
<1>9. Validated(t, n)'
  BY <1>3, <1>6 DEF Validated, Begin
<1>10. TraceInv(t, n)'
  BY <1>3, <1>4, <1>6, <1>7, <1>8, <1>9 DEF TraceInv
<1>11. PhaseInv' /\ ShortInv' /\ RamFixedInv' /\ UnstableOnlyFromRam'
  <2>1. NarrowNow(placed, narrowed)' = NarrowNow(placed, narrowed)
    BY <1>3, <1>4 DEF NarrowNow, Narrowable
  <2> QED
    BY <1>1, <1>3, <1>4, <2>1
       DEF PlacementInv, PhaseInv, ShortInv, RamFixedInv, UnstableOnlyFromRam, Ready
<1> QED
  BY <1>4, <1>10, <1>11 DEF PlacementInv

LEMMA ErrorsPlacement ==
    ASSUME LayoutInv, PlacementInv,
           RamUnplaceable \/ ScanRamFails \/ VisitFails \/ ValidateFails \/ CopyChanged
    PROVE  PlacementInv'
<1>1. \A i : RamError(i) \in {"value", "overflow", "ok"}
  BY DEF RamError
<1>2. VisitError \in {"value", "overflow", "ok"}
  BY <1>1 DEF VisitError
<1>3. CASE RamUnplaceable
  BY <1>3, FailPlacement DEF RamUnplaceable
<1>4. CASE ScanRamFails
  BY <1>1, <1>4, FailPlacement DEF ScanRamFails
<1>5. CASE VisitFails
  BY <1>2, <1>5, FailPlacement DEF VisitFails
<1>6. CASE ValidateFails
  <2>1. phase = "validate" /\ cursor \in Index /\ ValidateError # "ok" /\ Fail(ValidateError)
    BY <1>6 DEF ValidateFails
  <2>2. ValidateError = "unstable" => mode = "link" /\ \E i \in Rams : prog[i].count.coef # 0
    BY <2>1, ExtentsSettle DEF ValidateError
  <2> QED
    BY <2>1, <2>2, FailPlacement
<1>7. CASE CopyChanged
  BY <1>7, FailPlacement DEF CopyChanged
<1> QED
  BY <1>3, <1>4, <1>5, <1>6, <1>7

LEMMA StutterPlacement ==
    ASSUME LayoutInv, PlacementInv, UNCHANGED vars
    PROVE  PlacementInv'
<1>1. UNCHANGED <<prog, mode, phase, error, narrowed, placed, run, ramSize, walks, shortened,
                  cursor, pc, output, bankStart, bankSize, ramPc, checkpoint, outputSize,
                  offset, operand>>
  BY DEF vars, walkLocals, facts
<1>2. /\ Last' = Last /\ Trace' = Trace /\ WellBuilt' = WellBuilt /\ Rams' = Rams
      /\ FixedExtents' = FixedExtents /\ Index' = Index
  BY <1>1, SameLayout
<1>3. PICK t \in Trace, n \in 1 .. Last : TraceInv(t, n)
  BY DEF PlacementInv
<1>4. Last \in 1 .. Last
  BY DEF Last, LayoutInv, TypeOK
<1>5. \A m \in 1 .. Last : Traced(t, m) => Traced(t, m)'
  BY <1>1, TraceKept
<1>6. /\ Current' = Current
      /\ Repeats(t, n) => Repeats(t, n)'
      /\ Validated(t, n) => Validated(t, n)'
  <2>1. Current' = Current
    BY <1>1 DEF Current
  <2>2. Repeats(t, n) => Repeats(t, n)'
    BY <1>1, <1>2, <1>4, <1>5 DEF Repeats, Narrowable
  <2>3. Validated(t, n) => Validated(t, n)'
    BY <1>1 DEF Validated, Begin
  <2> QED
    BY <2>1, <2>2, <2>3
<1>7. TraceInv(t, n)'
  BY <1>1, <1>2, <1>3, <1>4, <1>5, <1>6 DEF TraceInv, Ready
<1>8. PhaseInv' /\ ShortInv' /\ RamFixedInv' /\ UnstableOnlyFromRam'
  <2>1. NarrowNow(placed, narrowed)' = NarrowNow(placed, narrowed)
    BY <1>1, <1>2 DEF NarrowNow, Narrowable
  <2> QED
    BY <1>1, <1>2, <2>1
       DEF PlacementInv, PhaseInv, ShortInv, RamFixedInv, UnstableOnlyFromRam, Ready
<1> QED
  BY <1>2, <1>7, <1>8 DEF PlacementInv

LEMMA InitPlacement == Init => PlacementInv
<1> SUFFICES ASSUME Init PROVE PlacementInv
  OBVIOUS
<1>1. /\ phase = "prepare" /\ error = "ok" /\ walks = 0 /\ narrowed = {}
  BY DEF Init
<1>2. WellBuilt
  <2>1. PICK p \in Programs : prog = p.frags
    BY DEF Init
  <2> QED
    BY <2>1, ProgramsAssumption DEF WellBuilt, Index
<1>3. ShortInv /\ RamFixedInv /\ PhaseInv /\ UnstableOnlyFromRam
  BY <1>1 DEF ShortInv, RamFixedInv, PhaseInv, Ready, UnstableOnlyFromRam
<1>4. Start0 \in Position
  BY RamAssumption DEF Start0, Position
<1>5. [i \in 1 .. Last |-> Start0] \in Trace
  BY <1>4 DEF Trace
<1>6. 1 \in 1 .. Last
  BY InitType DEF Last, LayoutInv, TypeOK
<1>7. TraceInv([i \in 1 .. Last |-> Start0], 1)
  BY <1>1 DEF TraceInv, Ready
<1> QED
  BY <1>2, <1>3, <1>5, <1>6, <1>7 DEF PlacementInv

LEMMA PlacementInvariant == Spec => []PlacementInv
<1>1. LayoutInv /\ WalksBounded /\ PlacementInv /\ [Next]_vars => PlacementInv'
  BY PreparationPlacement, VisitPlacementKept, BeginWalkPlacement, EndWalkPlacement,
     ValidatePlacement, EncodePlacement, ErrorsPlacement, StutterPlacement DEF Next, Visit
<1> QED
  BY <1>1, InitPlacement, LayoutInvariant, WalkBudget, PTL DEF Spec

-----------------------------------------------------------------------------
(* What a finished layout promises *)

\* The trace of a finished layout, and where it puts every fragment.
LEMMA FinalTrace ==
    ASSUME LayoutInv, PlacementInv, Ready
    PROVE  \E t \in Trace :
              /\ Traced(t, Last) /\ Validated(t, Last)
              /\ \A i \in Index : /\ Recorded(i, t[i]) /\ t[i+1] = After(i, t[i])
                                  /\ run[i] = Needs(i, t[i], narrowed)
                                  /\ offset[i] = t[i].output
                                  /\ FinalAddress(i) = Begin(i, t[i])
<1>1. PICK t \in Trace, n \in 1 .. Last : TraceInv(t, n)
  BY DEF PlacementInv
<1>2. Traced(t, Last) /\ Validated(t, Last) /\ ~shortened
  BY <1>1 DEF TraceInv, PlacementInv, PhaseInv
<1>3. Index = 1 .. Last - 1 /\ Len(prog) \in Nat /\ Last = Len(prog) + 1
  BY DEF Index, Last, LayoutInv, TypeOK
<1>4. \A i \in Index : /\ Recorded(i, t[i]) /\ t[i+1] = After(i, t[i])
                       /\ run[i] = Needs(i, t[i], narrowed) /\ offset[i] = t[i].output
  BY <1>2, <1>3 DEF Traced, Follows, Validated, Recorded, Settled
<1>5. ASSUME NEW i \in Index PROVE FinalAddress(i) = Begin(i, t[i])
  <2>1. PICK c \in 1 .. i : /\ LastBefore(c, i)
                            /\ Begin(i, t[i]) - Begin(c, t[c]) = t[i].output - t[c].output
    BY <1>2, <1>3 DEF Traced, Affine
  <2>2. c \in Index /\ c \in 1 .. Last /\ i \in 1 .. Last
    BY <1>3
  <2>3. \A d \in Checkpoints : d \in Int
    BY DEF Checkpoints, Index
  <2>4. LastCheckpoint(i) = c
    <3>1. \A d \in Checkpoints : (d <= i /\ \A e \in Checkpoints : e <= i => e <= d) => d = c
      BY <2>1, <2>2, <2>3 DEF LastBefore
    <3>2. c \in Checkpoints /\ c <= i /\ \A e \in Checkpoints : e <= i => e <= c
      BY <2>1 DEF LastBefore
    <3> QED
      BY <3>1, <3>2 DEF LastCheckpoint
  <2>5. checkpoint[c] = [address |-> Begin(c, t[c]), offset |-> t[c].output]
    BY <1>4, <2>1, <2>2 DEF Recorded, LastBefore
  <2>6. /\ Begin(c, t[c]) \in Nat /\ Begin(i, t[i]) \in Nat
        /\ t[c].output \in Nat /\ t[i].output \in Nat
    BY <2>2, BeginType, TraceType
  <2>7. FinalAddress(i) = Begin(c, t[c]) + (t[i].output - t[c].output)
    BY <1>4, <2>4, <2>5 DEF FinalAddress
  <2> QED
    BY <2>1, <2>6, <2>7
<1> QED
  BY <1>2, <1>4, <1>5

\* The bank a pad or a bank end finds itself in is the one its walk measured.
LEMMA BankMeasured ==
    ASSUME LayoutInv, PlacementInv, NEW t \in Trace, Traced(t, Last),
           NEW i \in Index, prog[i].kind # "bank", InBank(i)
    PROVE  /\ BankOf(i) \in Index /\ prog[BankOf(i)].size > 0
           /\ t[i].bankStart = t[BankOf(i)].output /\ t[i].bankSize = prog[BankOf(i)].size
<1>1. i \in Nat /\ i >= 1 /\ i <= Len(prog) /\ Len(prog) \in Nat /\ i \in 1 .. Last
  BY DEF Index, Last, LayoutInv, TypeOK
<1>2. PICK b \in 1 .. i : prog[b].kind = "bank"
  BY DEF InBank
<1>3. b \in 1 .. i - 1
  BY <1>1, <1>2
<1>4. PICK d \in 1 .. i - 1 : Within(d, i)
  BY <1>1, <1>2, <1>3 DEF Traced, Banks
<1>5. d \in 1 .. i /\ prog[d].kind = "bank" /\ \A c \in d + 1 .. i : prog[c].kind # "bank"
  <2>1. \A c \in d + 1 .. i : c = i \/ c \in d + 1 .. i - 1
    BY <1>1
  <2> QED
    BY <1>1, <1>4, <2>1 DEF Within
<1> DEFINE o == BankOf(i)
<1>6. o \in 1 .. i /\ prog[o].kind = "bank" /\ \A c \in o + 1 .. i : prog[c].kind # "bank"
  BY <1>5 DEF BankOf
<1> HIDE DEF o
<1>7. o \in 1 .. i - 1 /\ Within(o, i) /\ o \in Index
  BY <1>1, <1>6 DEF Within, Index
<1>8. t[i].bankStart = t[o].output /\ t[i].bankSize = prog[o].size
  BY <1>1, <1>7 DEF Traced, Banks
<1>9. prog[o].size > 0
  BY <1>6, <1>7 DEF PlacementInv, WellBuilt, Buildable
<1> QED
  BY <1>7, <1>8, <1>9 DEF o

LEMMA PlacementFollows == LayoutInv /\ PlacementInv => PlacementAgrees
<1> SUFFICES ASSUME LayoutInv, PlacementInv, Ready, NEW i \in Index
             PROVE  /\ prog[i].kind \in Anchored => FinalAddress(i) = placed[i]
                    /\ i + 1 \in Index => offset[i+1] = offset[i] + run[i]
                    /\ prog[i].kind = "instruction" => run[i] = Length(i, narrowed)
                    /\ prog[i].kind = "bankend" /\ InBank(i) =>
                          offset[i] + run[i] - offset[BankOf(i)] = prog[BankOf(i)].size
                    /\ prog[i].kind = "pad" /\ prog[i].form = "address" =>
                          FinalAddress(i) + run[i] = prog[i].base
                    /\ prog[i].kind = "pad" /\ prog[i].form = "offset" /\ InBank(i) =>
                          offset[i] + run[i] - offset[BankOf(i)] = prog[i].base
  BY DEF PlacementAgrees
<1>1. PICK t \in Trace :
          /\ Traced(t, Last) /\ Validated(t, Last)
          /\ \A k \in Index : /\ Recorded(k, t[k]) /\ t[k+1] = After(k, t[k])
                              /\ run[k] = Needs(k, t[k], narrowed)
                              /\ offset[k] = t[k].output
                              /\ FinalAddress(k) = Begin(k, t[k])
  BY FinalTrace
<1>2. /\ i \in 1 .. Last /\ run[i] \in Nat /\ prog[i].base \in Nat
      /\ \A k \in Index : k \in 1 .. Last /\ prog[k].size \in Nat
  <2>1. \A k \in Index : k \in 1 .. Last
    BY DEF Index, Last, LayoutInv, TypeOK
  <2>2. run[i] \in Nat
    BY DEF LayoutInv, TypeOK
  <2> QED
    BY <2>1, <2>2, FragmentType
<1>3. t[i].pc \in Nat /\ t[i].output \in Nat /\ t[i].bankStart \in Nat /\ t[i].bankSize \in Nat
  BY <1>2, TraceType
<1>4. ASSUME prog[i].kind \in Anchored PROVE FinalAddress(i) = placed[i]
  <2>1. Recorded(i, t[i]) /\ FinalAddress(i) = Begin(i, t[i])
    BY <1>1
  <2>2. placed[i] = t[i].pc
    BY <1>4, <2>1 DEF Recorded
  <2>3. prog[i].kind \notin {"origin", "bank"}
    BY <1>4 DEF Anchored
  <2>4. Begin(i, t[i]) = t[i].pc
    BY <2>3 DEF Begin
  <2> QED
    BY <2>1, <2>2, <2>4
<1>5. ASSUME i + 1 \in Index PROVE offset[i+1] = offset[i] + run[i]
  <2>1. offset[i+1] = t[i+1].output /\ offset[i] = t[i].output /\ t[i+1] = After(i, t[i])
    BY <1>1, <1>5
  <2>2. After(i, t[i]).output = t[i].output + run[i]
    BY DEF After
  <2> QED
    BY <2>1, <2>2
<1>6. prog[i].kind = "instruction" => run[i] = Length(i, narrowed)
  BY <1>1 DEF Needs
<1>7. ASSUME prog[i].kind = "bankend", InBank(i)
      PROVE  offset[i] + run[i] - offset[BankOf(i)] = prog[BankOf(i)].size
  <2>1. PICK o \in Index : o = BankOf(i)
    BY <1>1, <1>7, BankMeasured
  <2>2. prog[o].size > 0 /\ t[i].bankStart = t[o].output /\ t[i].bankSize = prog[o].size
    BY <1>1, <1>7, <2>1, BankMeasured
  <2>3. run[i] = t[i].bankSize - (t[i].output - t[i].bankStart)
    BY <1>1, <1>2, <1>7, <2>1, <2>2 DEF Needs
  <2>4. offset[i] = t[i].output /\ offset[o] = t[o].output
    BY <1>1
  <2>5. offset[i] + run[i] - offset[o] = prog[o].size
    BY <1>2, <1>3, <2>2, <2>3, <2>4
  <2> QED
    BY <2>1, <2>5
<1>8. ASSUME prog[i].kind = "pad", prog[i].form = "address"
      PROVE  FinalAddress(i) + run[i] = prog[i].base
  BY <1>1, <1>2, <1>3, <1>8 DEF Needs, Begin
<1>9. ASSUME prog[i].kind = "pad", prog[i].form = "offset", InBank(i)
      PROVE  offset[i] + run[i] - offset[BankOf(i)] = prog[i].base
  <2>1. PICK o \in Index : o = BankOf(i)
    BY <1>1, <1>9, BankMeasured
  <2>2. t[i].bankStart = t[o].output
    BY <1>1, <1>9, <2>1, BankMeasured
  <2>3. run[i] = prog[i].base - (t[i].output - t[i].bankStart)
    BY <1>1, <1>9 DEF Needs
  <2>4. offset[i] = t[i].output /\ offset[o] = t[o].output
    BY <1>1
  <2>5. offset[i] + run[i] - offset[o] = prog[i].base
    BY <1>2, <1>3, <2>2, <2>3, <2>4
  <2> QED
    BY <2>1, <2>5
<1> QED
  BY <1>4, <1>5, <1>6, <1>7, <1>8, <1>9

\* Where a fragment is emitted is where its label says it is, every bank takes
\* exactly its size and every pad ends at its target (ir/layout.c:85-99, 870-892).
THEOREM LabelsAreTrue == Spec => []PlacementAgrees
<1> QED
  BY PlacementFollows, LayoutInvariant, PlacementInvariant, PTL

LEMMA OperandsFollow == LayoutInv /\ PlacementInv => OperandsTrue
<1> SUFFICES ASSUME LayoutInv, PlacementInv, Ready, NEW i \in Index, HasOperand(prog[i])
             PROVE  /\ operand[i] = Value(prog[i].operand, [a \in Index |-> EmittedAt(a)])
                    /\ i \in narrowed => operand[i] \in ZeroPage
                    /\ prog[i].form = "relative" =>
                          operand[i] - (FinalAddress(i) + 2) \in -128 .. 127
  BY DEF OperandsTrue
<1>1. PICK t \in Trace :
          /\ Traced(t, Last) /\ Validated(t, Last)
          /\ \A k \in Index : FinalAddress(k) = Begin(k, t[k])
  BY FinalTrace
<1>2. /\ operand[i] = Value(prog[i].operand, placed)
      /\ i \in narrowed => operand[i] \in ZeroPage
      /\ prog[i].form = "relative" => operand[i] - (Begin(i, t[i]) + 2) \in -128 .. 127
  <2>1. i \in 1 .. Last - 1
    BY DEF Index, Last, LayoutInv, TypeOK
  <2> QED
    BY <1>1, <2>1 DEF Validated
<1>3. [a \in Index |-> EmittedAt(a)] = placed
  <2>1. \A a \in Index : EmittedAt(a) = placed[a]
    BY PlacementFollows DEF PlacementAgrees, EmittedAt
  <2>2. placed = [a \in Index |-> placed[a]]
    BY DEF LayoutInv, TypeOK
  <2> QED
    BY <2>1, <2>2
<1> QED
  BY <1>1, <1>2, <1>3

\* Every emitted operand is the value of its expression at the addresses that
\* are emitted; what was shortened fits its byte and branches reach their
\* targets (ir/layout.c:939-975, 1023-1028).
THEOREM EmittedOperandsAreTrue == Spec => []OperandsTrue
<1> QED
  BY OperandsFollow, LayoutInvariant, PlacementInvariant, PTL

\* Without extents that follow widths, no instruction stays wide whose final
\* operand fits the zero page (ir/layout.c:614-632, 1156-1160).
THEOREM EveryNarrowingFound == Spec => []NoMissedNarrowing
<1>1. PlacementInv => NoMissedNarrowing
  BY DEF PlacementInv, PhaseInv, NoMissedNarrowing
<1> QED
  BY <1>1, PlacementInvariant, PTL

\* "Layout did not stabilize" has one cause: a linker RAM object whose extent
\* follows code widths that changed after RAM was allocated (ir/layout.c:910).
THEOREM UnstableIsRam == Spec => []UnstableOnlyFromRam
<1>1. PlacementInv => UnstableOnlyFromRam
  BY DEF PlacementInv
<1> QED
  BY <1>1, PlacementInvariant, PTL
=============================================================================
