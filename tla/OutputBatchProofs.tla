------------------------- MODULE OutputBatchProofs -------------------------
(***************************************************************************)
(* The guarantees of the output batch, for any set of destinations and any *)
(* pattern of failing system calls.                                        *)
(***************************************************************************)
EXTENDS OutputBatchRefinement, TLAPS

\* Nothing has happened to the destination yet.
Untouched(o) == dest[o] = before[o] /\ backup[o] = "none"

\* Its rollback link is made, if it needs one.
Linked(o) ==
    /\ before[o] # "special"
    /\ backup[o] = "old" <=> before[o] = "old"
    /\ o \in kept <=> before[o] = "old"

\* Not visited by the unwinding pass: still linked if the file was replaced.
Unwinding(o) ==
    /\ backup[o] = "old" <=> o \in kept
    /\ o \in kept => before[o] = "old"
    /\ o \in published => dest[o] = "new" /\ Linked(o)
    /\ o \notin published => dest[o] = before[o]

\* Not in the batch, or done with: what the caller was told is true.
Undamaged(o) == dest[o] = before[o] /\ backup[o] = "none"
Damaged(o)   == dest[o] = "new" /\ before[o] # "special" /\ (before[o] = "old" => backup[o] = "old")
Replaced(o)  == dest[o] = "new" /\ before[o] # "special" /\ backup[o] = "none"

Settled(o) ==
    /\ o \in unrestored => returned[o] = "failure"
    /\ writer[o] = "published" => Replaced(o) /\ returned[o] = "nothing"
    /\ returned[o] = "success" => Replaced(o)
    /\ returned[o] = "failure" => IF o \in unrestored THEN Damaged(o) ELSE Undamaged(o)
    /\ returned[o] = "nothing" /\ writer[o] # "published" => Undamaged(o)
    /\ returned[o] # "nothing" => writer[o] = "staged"

\* What the loops of output_batch_finish have established: i is behind or ahead
\* of the stage they are at.
StageInv(i) ==
    LET o == stages[i]
    IN /\ returned[o] = "nothing"
       /\ phase = "collect" => Untouched(o) /\ o \notin unrestored
       /\ phase = "preserve" =>
             /\ dest[o] = before[o] /\ o \notin unrestored
             /\ IF i < at THEN Linked(o) ELSE backup[o] = "none" /\ o \notin kept
       /\ phase = "replace" =>
             /\ Linked(o) /\ o \notin unrestored
             /\ o \in published <=> i < at
             /\ dest[o] = IF i < at THEN "new" ELSE before[o]
       /\ phase = "unwind" =>
             IF i >= at THEN Unwinding(o) /\ o \notin unrestored
             ELSE IF success THEN Replaced(o)
             ELSE IF o \in unrestored THEN Damaged(o) ELSE Undamaged(o)
       /\ phase = "unwind" /\ success => o \in published /\ o \notin unrestored

BatchInv ==
    /\ \A o \in Outputs \ Staged : Settled(o)
    /\ \A i \in 1 .. Len(stages) : StageInv(i)
    /\ phase \in {"preserve", "replace"} => success
    /\ phase = "preserve" => published = {}

Inv == TypeOK /\ BatchInv

-----------------------------------------------------------------------------
(* Facts about the list of stages *)

LEMMA StageType ==
    ASSUME TypeOK, NEW i \in 1 .. Len(stages)
    PROVE  stages[i] \in Outputs /\ stages[i] \in Staged
BY DEF TypeOK, Staged

LEMMA HereType ==
    ASSUME TypeOK, at <= Len(stages)
    PROVE  at \in 1 .. Len(stages) /\ Here \in Outputs /\ Here \in Staged
<1>1. at \in 1 .. Len(stages)
  BY DEF TypeOK
<1> QED
  BY <1>1, StageType DEF Here

\* The stage at the cursor is no other stage.
LEMMA HereAlone ==
    ASSUME TypeOK, at <= Len(stages), NEW i \in 1 .. Len(stages)
    PROVE  stages[i] = Here <=> i = at
BY HereType DEF TypeOK, Here

\* An output in use by its writer is not staged.
LEMMA WritersAreNotStaged ==
    ASSUME TypeOK, NEW o \in Staged
    PROVE  writer[o] = "staged"
BY DEF TypeOK, Staged

-----------------------------------------------------------------------------
(* Type correctness *)

LEMMA TypeInit == Init => TypeOK
<1> SUFFICES ASSUME Init PROVE TypeOK
  OBVIOUS
<1>1. stages \in Seq(Outputs) /\ Len(stages) = 0
  BY DEF Init
<1>2. before \in [Outputs -> {"absent", "old", "special"}] /\ dest \in [Outputs -> Contents]
  BY DEF Init, Contents
<1>3. /\ temp \in [Outputs -> {"none", "partial", "complete"}]
      /\ backup \in [Outputs -> {"none", "old"}]
      /\ writer \in [Outputs -> {"idle", "open", "ready", "staged", "published", "failed"}]
      /\ returned \in [Outputs -> {"nothing", "success", "failure"}]
      /\ \A o \in Outputs : writer[o] = "idle"
  BY DEF Init
<1>4. /\ batching \in BOOLEAN /\ success \in BOOLEAN /\ phase = "collect" /\ at = 1
      /\ kept = {} /\ published = {} /\ unrestored = {}
  BY DEF Init
<1> QED
  BY <1>1, <1>2, <1>3, <1>4 DEF TypeOK

LEMMA TypeWriting ==
    ASSUME TypeOK, NEW o \in Outputs, Writing(o)
    PROVE  TypeOK'
<1>1. /\ UNCHANGED <<before, phase, at, success, kept, published, unrestored, returned>>
      /\ UNCHANGED <<backup, batching>>
  BY DEF Writing, Open, OpenFails, Close, Discard, Stage, Publish, Collecting, files, commit
<1>2. o \notin Staged \/ writer[o] = "staged"
  BY WritersAreNotStaged
<1>3. CASE Open(o) \/ OpenFails(o) \/ Close(o) \/ Discard(o) \/ Publish(o)
  <2>1. /\ stages' = stages
        /\ writer' \in [Outputs -> {"idle", "open", "ready", "staged", "published", "failed"}]
        /\ temp' \in [Outputs -> {"none", "partial", "complete"}]
        /\ dest' \in [Outputs -> Contents]
    BY <1>3 DEF Open, OpenFails, Close, Discard, Publish, TypeOK, Moved, Contents, files
  <2>2. o \notin Staged /\ \A p \in Outputs \ {o} : writer'[p] = writer[p] /\ temp'[p] = temp[p]
    BY <1>2, <1>3 DEF Open, OpenFails, Close, Discard, Publish, TypeOK, files
  <2>3. \A i \in 1 .. Len(stages) : stages[i] \in Outputs \ {o}
    BY <2>2, StageType
  <2>4. writer'[o] = "ready" => temp'[o] = "complete"
    BY <1>3 DEF Open, OpenFails, Close, Discard, Publish, TypeOK
  <2> QED
    BY <1>1, <2>1, <2>2, <2>3, <2>4 DEF TypeOK
<1>4. CASE Stage(o)
  <2>1. /\ writer' \in [Outputs -> {"idle", "open", "ready", "staged", "published", "failed"}]
        /\ UNCHANGED <<dest, temp>>
        /\ writer'[o] = "staged" /\ \A p \in Outputs \ {o} : writer'[p] = writer[p]
    BY <1>4 DEF Stage, TypeOK, files
  <2>2. stages' = Append(stages, o) /\ o \notin Staged /\ temp[o] = "complete"
    BY <1>2, <1>4 DEF Stage, TypeOK
  <2> QED
    BY <1>1, <2>1, <2>2 DEF TypeOK, Staged
<1> QED
  BY <1>3, <1>4 DEF Writing

LEMMA TypeFinishing == TypeOK /\ Finishing => TypeOK'
<1> SUFFICES ASSUME TypeOK, Finishing PROVE TypeOK'
  OBVIOUS
<1>1. UNCHANGED <<before, writer>>
  BY DEF Finishing, In, Preserve, PreserveFails, StartReplacing, Replace, ReplaceFails,
         StartUnwinding, Restore, RestoreFails, EndFinish
<1>2. CASE Preserve \/ Replace \/ Restore \/ RestoreFails
  <2>1. at <= Len(stages) /\ UNCHANGED <<batching, stages, success, returned>>
        /\ phase' = phase /\ phase # "collect" /\ at' \in Nat \ {0} /\ Staged' = Staged
    BY <1>2 DEF Preserve, Replace, Restore, RestoreFails, In, Step, TypeOK, Staged
  <2>2. Here \in Outputs
    BY <2>1, HereType
  <2>3. CASE Preserve
    <3>1. /\ UNCHANGED <<dest, temp, published, unrestored>>
          /\ backup' \in [Outputs -> {"none", "old"}] /\ kept' \subseteq Outputs
      BY <2>2, <2>3 DEF Preserve, TypeOK
    <3> QED
      BY <1>1, <2>1, <3>1 DEF TypeOK
  <2>4. CASE Replace
    <3>1. /\ UNCHANGED <<backup, kept, unrestored>>
          /\ dest' \in [Outputs -> Contents] /\ published' = published \cup {Here}
          /\ temp' \in [Outputs -> {"none", "partial", "complete"}]
      BY <2>2, <2>4 DEF Replace, Moved, TypeOK, Contents
    <3>2. \A o \in Outputs : o \notin published' => temp'[o] = temp[o]
      BY <2>2, <2>4 DEF Replace, TypeOK
    <3>3. writer[Here] = "staged"
      BY <2>1, HereType, WritersAreNotStaged
    <3>4. \A o \in Outputs : writer[o] = "ready" => temp'[o] = "complete"
      BY <2>2, <2>4, <3>3 DEF Replace, TypeOK
    <3>5. published' \subseteq Outputs
      BY <2>2, <3>1 DEF TypeOK
    <3> QED
      BY <1>1, <2>1, <3>1, <3>2, <3>4, <3>5, StageType DEF TypeOK
  <2>5. CASE Restore
    <3>1. /\ UNCHANGED <<kept, published, unrestored>> /\ phase = "unwind"
          /\ dest' \in [Outputs -> Contents] /\ backup' \in [Outputs -> {"none", "old"}]
          /\ temp' \in [Outputs -> {"none", "partial", "complete"}]
      BY <2>2, <2>5 DEF Restore, In, TypeOK, Contents
    <3>2. writer[Here] = "staged"
      BY <2>1, HereType, WritersAreNotStaged
    <3>3. \A o \in Outputs : writer[o] = "ready" => temp'[o] = "complete"
      BY <2>2, <2>5, <3>2 DEF Restore, TypeOK
    <3> QED
      BY <1>1, <2>1, <3>1, <3>3 DEF TypeOK
  <2>6. CASE RestoreFails
    BY <1>1, <2>1, <2>2, <2>6 DEF RestoreFails, TypeOK, files
  <2> QED
    BY <1>2, <2>3, <2>4, <2>5, <2>6
<1>3. CASE PreserveFails \/ ReplaceFails \/ StartReplacing \/ StartUnwinding
  <2>1. /\ UNCHANGED <<dest, temp, backup, batching, stages, kept, published, unrestored,
                       returned>>
        /\ at' = 1 /\ success' \in BOOLEAN /\ phase' \in {"replace", "unwind"}
        /\ phase # "unwind"
    BY <1>3 DEF PreserveFails, ReplaceFails, StartReplacing, StartUnwinding, GiveUp, In, files,
                TypeOK
  <2> QED
    BY <1>1, <2>1 DEF TypeOK
<1>4. CASE EndFinish
  <2>1. /\ UNCHANGED <<dest, temp, backup, at, success, unrestored>>
        /\ stages' = <<>> /\ batching' = FALSE /\ phase' = "collect"
        /\ kept' = {} /\ published' = {}
    BY <1>4 DEF EndFinish, files
  <2>2. returned' \in [Outputs -> {"nothing", "success", "failure"}]
    BY <1>4 DEF EndFinish, TypeOK
  <2>3. stages' \in Seq(Outputs) /\ 1 .. Len(stages') = {}
    BY <2>1
  <2>4. kept' \subseteq Outputs /\ published' \subseteq Outputs /\ batching' \in BOOLEAN
    BY <2>1
  <2>5. \A i \in 1 .. Len(stages') :
          /\ writer'[stages'[i]] = "staged"
          /\ phase' # "unwind" /\ stages'[i] \notin published' => temp'[stages'[i]] = "complete"
          /\ \A j \in 1 .. Len(stages') : stages'[i] = stages'[j] => i = j
    BY <2>3
  <2> QED
    BY <1>1, <2>1, <2>2, <2>3, <2>4, <2>5 DEF TypeOK
<1> QED
  BY <1>2, <1>3, <1>4 DEF Finishing

LEMMA TypeStep == TypeOK /\ [Next]_vars => TypeOK'
<1> SUFFICES ASSUME TypeOK, [Next]_vars PROVE TypeOK'
  OBVIOUS
<1>1. CASE Begin
  <2>1. /\ UNCHANGED <<before, phase, at, success, kept, published, unrestored, returned>>
        /\ UNCHANGED <<dest, temp, backup, writer, stages>> /\ batching' \in BOOLEAN
    BY <1>1 DEF Begin, Collecting, files, commit
  <2> QED
    BY <2>1 DEF TypeOK
<1>2. CASE \E o \in Outputs : Writing(o)
  BY <1>2, TypeWriting
<1>3. CASE \E ok \in BOOLEAN : Finish(ok)
  <2>1. /\ UNCHANGED <<before, dest, temp, backup, writer, batching, stages>>
        /\ UNCHANGED <<kept, published, unrestored, returned>>
        /\ phase = "collect" /\ phase' \in {"preserve", "unwind"} /\ at' = 1
        /\ success' \in BOOLEAN
    BY <1>3 DEF Finish, files
  <2> QED
    BY <2>1 DEF TypeOK
<1>4. CASE Finishing
  BY <1>4, TypeFinishing
<1>5. CASE UNCHANGED vars
  <2>1. /\ UNCHANGED <<before, phase, at, success, kept, published, unrestored, returned>>
        /\ UNCHANGED <<dest, temp, backup, writer, stages, batching>>
    BY <1>5 DEF vars, files, commit
  <2> QED
    BY <2>1 DEF TypeOK
<1> QED
  BY <1>1, <1>2, <1>3, <1>4, <1>5 DEF Next

\* The batch's state is well formed for any number of outputs: in particular no
\* output is staged twice and every staged file is complete.
THEOREM TypeCorrect == Spec => []TypeOK
BY TypeInit, TypeStep, PTL DEF Spec

-----------------------------------------------------------------------------
(* The inductive invariant *)

LEMMA BatchInit == Init => BatchInv
<1> SUFFICES ASSUME Init PROVE BatchInv
  OBVIOUS
<1>1. stages = <<>> /\ 1 .. Len(stages) = {} /\ phase = "collect" /\ unrestored = {}
  BY DEF Init
<1>2. ASSUME NEW o \in Outputs
      PROVE  dest[o] = before[o] /\ backup[o] = "none" /\ writer[o] = "idle" /\ returned[o] = "nothing"
  BY <1>2 DEF Init
<1>3. \A o \in Outputs : Settled(o)
  BY <1>1, <1>2 DEF Settled, Undamaged
<1> QED
  BY <1>1, <1>3 DEF BatchInv

\* What an output's caller was told stays true while nothing happens to it.
LEMMA SettledFrame ==
    ASSUME NEW o \in Outputs, Settled(o),
           before' = before, dest'[o] = dest[o], backup'[o] = backup[o],
           writer'[o] = writer[o], returned'[o] = returned[o],
           o \in unrestored' <=> o \in unrestored
    PROVE  Settled(o)'
BY DEF Settled, Undamaged, Damaged, Replaced

LEMMA BatchWriting ==
    ASSUME Inv, NEW o \in Outputs, Writing(o)
    PROVE  BatchInv'
<1> USE DEF Inv
<1>1. /\ UNCHANGED <<before, phase, at, success, kept, published, unrestored, returned, backup>>
      /\ phase = "collect"
  BY DEF Writing, Open, OpenFails, Close, Discard, Stage, Publish, Collecting, files, commit
<1>2. o \notin Staged
  BY WritersAreNotStaged
     DEF Writing, Open, OpenFails, Close, Discard, Stage, Publish
<1>3. /\ writer[o] \in {"idle", "open", "ready"}
      /\ Settled(o) /\ returned[o] = "nothing" /\ Undamaged(o) /\ o \notin unrestored
  <2>1. writer[o] \in {"idle", "open", "ready"}
    BY DEF Writing, Open, OpenFails, Close, Discard, Stage, Publish
  <2> QED
    BY <1>2, <2>1 DEF BatchInv, Settled, TypeOK
<1>4. \A p \in Outputs \ {o} : writer'[p] = writer[p] /\ dest'[p] = dest[p]
  BY DEF Writing, Open, OpenFails, Close, Discard, Stage, Publish, Moved, TypeOK, files
<1>5. \A p \in (Outputs \ Staged) \ {o} : Settled(p)'
  BY <1>1, <1>4, SettledFrame DEF BatchInv
<1>6. \A i \in 1 .. Len(stages) : /\ stages[i] \in Outputs \ {o}
                                  /\ returned[stages[i]] = "nothing" /\ Untouched(stages[i])
                                  /\ stages[i] \notin unrestored
  BY <1>1, <1>2, StageType DEF BatchInv, StageInv
<1>7. CASE Stage(o)
  <2>1. stages' = Append(stages, o) /\ dest' = dest
    BY <1>7 DEF Stage, files
  <2>2. Staged' = Staged \cup {o} /\ Len(stages') = Len(stages) + 1
        /\ stages \in Seq(Outputs)
    BY <2>1 DEF Staged, TypeOK
  <2>3. ASSUME NEW i \in 1 .. Len(stages') PROVE StageInv(i)'
    <3>1. stages'[i] = IF i = Len(stages) + 1 THEN o ELSE stages[i]
      BY <2>1, <2>2
    <3>2. i # Len(stages) + 1 => i \in 1 .. Len(stages)
      BY <2>2
    <3>3. /\ returned[stages'[i]] = "nothing" /\ Untouched(stages'[i])
          /\ stages'[i] \notin unrestored
      BY <1>3, <1>6, <3>1, <3>2 DEF Untouched, Undamaged
    <3> QED
      BY <1>1, <2>1, <3>3 DEF StageInv, Untouched
  <2> QED
    BY <1>1, <1>5, <2>2, <2>3 DEF BatchInv
<1>8. CASE Open(o) \/ OpenFails(o) \/ Close(o) \/ Discard(o) \/ Publish(o)
  <2>1. stages' = stages /\ Staged' = Staged
    BY <1>8 DEF Open, OpenFails, Close, Discard, Publish, files, Staged
  <2>2. Settled(o)'
    <3>1. CASE Publish(o)
      <4>1. temp[o] = "complete" /\ dest[o] # "special" /\ dest' = Moved(o)
            /\ writer'[o] = "published"
        BY <3>1 DEF Publish, Replaceable, TypeOK
      <4>2. dest'[o] = "new" /\ before[o] # "special" /\ backup[o] = "none"
        BY <1>3, <4>1 DEF Moved, Undamaged, TypeOK
      <4> QED
        BY <1>1, <1>3, <4>1, <4>2 DEF Settled, Replaced
    <3>2. CASE ~Publish(o)
      <4>1. dest' = dest /\ writer'[o] \in {"open", "ready", "failed"}
        BY <1>8, <3>2 DEF Open, OpenFails, Close, Discard, files, TypeOK
      <4> QED
        BY <1>1, <1>3, <4>1 DEF Settled, Undamaged
    <3> QED
      BY <3>1, <3>2
  <2>3. ASSUME NEW i \in 1 .. Len(stages) PROVE StageInv(i)'
    BY <1>1, <1>4, <1>6, <2>1 DEF StageInv, Untouched
  <2> QED
    BY <1>1, <1>5, <2>1, <2>2, <2>3 DEF BatchInv
<1> QED
  BY <1>7, <1>8 DEF Writing

LEMMA BatchFinish ==
    ASSUME Inv, NEW ok \in BOOLEAN, Finish(ok)
    PROVE  BatchInv'
<1> USE DEF Inv
<1>1. /\ UNCHANGED <<before, dest, backup, writer, stages, kept, published, unrestored, returned>>
      /\ phase = "collect" /\ kept = {} /\ published = {}
      /\ phase' = IF ok THEN "preserve" ELSE "unwind"
      /\ at' = 1 /\ success' = ok /\ Staged' = Staged
  BY DEF Finish, files, TypeOK, Staged
<1>2. \A o \in Outputs \ Staged : Settled(o)'
  BY <1>1, SettledFrame DEF BatchInv
<1>3. ASSUME NEW i \in 1 .. Len(stages) PROVE StageInv(i)'
  BY <1>1 DEF BatchInv, StageInv, Untouched, Unwinding
<1> QED
  BY <1>1, <1>2, <1>3 DEF BatchInv

\* A step of a loop of output_batch_finish that disturbs no stage but the one at
\* its cursor: what is left to show is that stage.  (Here and the cursor get
\* names of their own, so that priming a formula leaves them alone.)
LEMMA BatchStep ==
    ASSUME Inv, NEW n \in 1 .. Len(stages), n = at, NEW h \in Outputs, h = stages[n],
           UNCHANGED <<before, writer, returned, stages, phase, success>>,
           at' = at + 1, phase # "collect",
           \A o \in Outputs \ {h} :
              /\ dest'[o] = dest[o] /\ backup'[o] = backup[o]
              /\ o \in kept' <=> o \in kept
              /\ o \in published' <=> o \in published
              /\ o \in unrestored' <=> o \in unrestored,
           StageInv(n)', phase = "preserve" => published' = {}
    PROVE  BatchInv'
<1> USE DEF Inv
<1>1. Staged' = Staged /\ h \in Staged
  BY DEF Staged
<1>2. \A o \in Outputs \ Staged : Settled(o)'
  BY <1>1, SettledFrame DEF BatchInv
<1>3. ASSUME NEW i \in 1 .. Len(stages), i # n PROVE StageInv(i)'
  <2>1. stages[i] \in Outputs \ {h}
    BY <1>3, StageType DEF TypeOK
  <2>2. i < at' <=> i < at
    BY <1>3 DEF TypeOK
  <2>3. i >= at' <=> i >= at
    BY <1>3 DEF TypeOK
  <2>4. StageInv(i)
    BY DEF BatchInv
  <2> QED
    BY <2>1, <2>2, <2>3, <2>4
       DEF StageInv, Untouched, Linked, Unwinding, Undamaged, Damaged, Replaced
<1>4. \A i \in 1 .. Len(stages) : StageInv(i)'
  BY <1>3
<1>5. /\ phase \in {"preserve", "replace"} => success
      /\ phase = "preserve" => published' = {}
  BY DEF BatchInv
<1> QED
  BY <1>1, <1>2, <1>4, <1>5 DEF BatchInv

LEMMA BatchPreserve == Inv /\ Preserve => BatchInv'
<1> SUFFICES ASSUME Inv, Preserve PROVE BatchInv'
  OBVIOUS
<1> USE DEF Inv
<1>1. /\ at <= Len(stages) /\ phase = "preserve" /\ at' = at + 1
      /\ UNCHANGED <<before, writer, returned, stages, phase, success, dest, published, unrestored>>
  BY DEF Preserve, In, Step
<1>2. PICK n \in 1 .. Len(stages), h \in Outputs : n = at /\ h = stages[n] /\ h = Here
  BY <1>1, HereType DEF Here
<1>3. ~(n < at) /\ n >= at /\ StageInv(n)
  BY <1>2 DEF TypeOK, BatchInv
<1>4. \A o \in Outputs \ {h} : backup'[o] = backup[o] /\ (o \in kept' <=> o \in kept)
  BY <1>2 DEF Preserve, TypeOK
<1>5. StageInv(n)'
  <2>1. dest[h] = before[h] /\ h \notin unrestored /\ returned[h] = "nothing"
        /\ backup[h] = "none" /\ h \notin kept
    BY <1>1, <1>2, <1>3 DEF BatchInv, StageInv
  <2>2. dest[h] # "special" /\ before[h] \in {"absent", "old", "special"}
    BY <1>2 DEF Preserve, TypeOK
  <2>3. /\ before[h] = "old" => backup'[h] = "old" /\ h \in kept'
        /\ before[h] # "old" => backup'[h] = "none" /\ h \notin kept'
    BY <1>2, <2>1, <2>2 DEF Preserve, TypeOK
  <2>4. n < at' /\ stages'[n] = h
    BY <1>1, <1>2
  <2> QED
    BY <1>1, <2>1, <2>2, <2>3, <2>4 DEF StageInv, Linked
<1> QED
  BY <1>1, <1>2, <1>4, <1>5, BatchStep DEF BatchInv

LEMMA BatchReplace == Inv /\ Replace => BatchInv'
<1> SUFFICES ASSUME Inv, Replace PROVE BatchInv'
  OBVIOUS
<1> USE DEF Inv
<1>1. /\ at <= Len(stages) /\ phase = "replace" /\ at' = at + 1
      /\ UNCHANGED <<before, writer, returned, stages, phase, success, backup, kept, unrestored>>
  BY DEF Replace, In, Step
<1>2. PICK n \in 1 .. Len(stages), h \in Outputs : n = at /\ h = stages[n] /\ h = Here
  BY <1>1, HereType DEF Here
<1>3. ~(n < at) /\ n >= at /\ StageInv(n)
  BY <1>2 DEF TypeOK, BatchInv
<1>4. dest' = Moved(h) /\ published' = published \cup {h}
  BY <1>2 DEF Replace
<1>5. \A o \in Outputs \ {h} : dest'[o] = dest[o] /\ (o \in published' <=> o \in published)
  BY <1>2, <1>4 DEF Moved, TypeOK
<1>6. StageInv(n)'
  <2>1. Linked(h) /\ h \notin unrestored /\ returned[h] = "nothing" /\ h \notin published
    BY <1>1, <1>2, <1>3 DEF BatchInv, StageInv
  <2>2. dest'[h] = "new"
    <3>1. temp[h] = "complete"
      BY <1>1, <1>2, <2>1 DEF TypeOK
    <3>2. dest \in [Outputs -> Contents]
      BY DEF TypeOK
    <3> QED
      BY <1>4, <3>1, <3>2 DEF Moved
  <2>3. n < at' /\ stages'[n] = h /\ h \in published'
    BY <1>1, <1>2, <1>4
  <2>4. Linked(h)'
    BY <1>1, <2>1 DEF Linked
  <2> QED
    BY <1>1, <2>1, <2>2, <2>3, <2>4 DEF StageInv
<1> QED
  BY <1>1, <1>2, <1>5, <1>6, BatchStep

LEMMA BatchRestore == Inv /\ (Restore \/ RestoreFails) => BatchInv'
<1> SUFFICES ASSUME Inv, Restore \/ RestoreFails PROVE BatchInv'
  OBVIOUS
<1> USE DEF Inv
<1>1. /\ at <= Len(stages) /\ phase = "unwind" /\ at' = at + 1
      /\ UNCHANGED <<before, writer, returned, stages, phase, success, published>>
  BY DEF Restore, RestoreFails, In, Step
<1>2. PICK n \in 1 .. Len(stages), h \in Outputs : n = at /\ h = stages[n] /\ h = Here
  BY <1>1, HereType DEF Here
<1>3. ~(n < at) /\ n >= at /\ StageInv(n)
  BY <1>2 DEF TypeOK, BatchInv
<1>4. \A o \in Outputs \ {h} : /\ dest'[o] = dest[o] /\ backup'[o] = backup[o]
                               /\ o \in kept' <=> o \in kept
                               /\ o \in unrestored' <=> o \in unrestored
  BY <1>2 DEF Restore, RestoreFails, files, TypeOK
<1>5. /\ Unwinding(h) /\ h \notin unrestored /\ returned[h] = "nothing"
      /\ success => h \in published
  BY <1>1, <1>2, <1>3 DEF BatchInv, StageInv
<1>6. /\ stages'[n] = h /\ ~(n >= at')
      /\ before[h] \in {"absent", "old", "special"} /\ backup[h] \in {"none", "old"}
  BY <1>1, <1>2 DEF TypeOK
<1>7. CASE Restore
  <2>1. UNCHANGED <<kept, unrestored>>
    BY <1>7 DEF Restore
  <2>2. backup'[h] = "none"
    BY <1>2, <1>5, <1>6, <1>7 DEF Restore, Unwinding, TypeOK
  <2>3. success => dest'[h] = "new" /\ before[h] # "special"
    BY <1>2, <1>5, <1>7 DEF Restore, Unwinding, Linked, TypeOK
  <2>4. ~success => dest'[h] = before[h]
    BY <1>2, <1>5, <1>6, <1>7 DEF Restore, Unwinding, Linked, TypeOK
  <2>5. StageInv(n)'
    BY <1>1, <1>5, <1>6, <2>1, <2>2, <2>3, <2>4 DEF StageInv, Undamaged, Replaced
  <2> QED
    BY <1>1, <1>2, <1>4, <2>5, BatchStep
<1>8. CASE RestoreFails
  <2>1. UNCHANGED <<dest, backup>> /\ ~success /\ h \in published /\ h \in unrestored'
    BY <1>2, <1>8 DEF RestoreFails, files
  <2>2. Damaged(h)'
    BY <1>1, <1>5, <2>1 DEF Damaged, Unwinding, Linked
  <2>3. StageInv(n)'
    BY <1>1, <1>5, <1>6, <2>1, <2>2 DEF StageInv, Damaged
  <2> QED
    BY <1>1, <1>2, <1>4, <2>3, BatchStep
<1> QED
  BY <1>7, <1>8

\* From one loop to the next, or out of a loop after a failure.
LEMMA BatchTurn ==
    Inv /\ (PreserveFails \/ StartReplacing \/ ReplaceFails \/ StartUnwinding) => BatchInv'
<1> SUFFICES ASSUME Inv, PreserveFails \/ StartReplacing \/ ReplaceFails \/ StartUnwinding
             PROVE  BatchInv'
  OBVIOUS
<1> USE DEF Inv
<1>1. /\ UNCHANGED <<before, writer, returned, stages, dest, backup, kept, published, unrestored>>
      /\ at' = 1 /\ phase \in {"preserve", "replace"} /\ success
  BY DEF PreserveFails, StartReplacing, ReplaceFails, StartUnwinding, GiveUp, In, files, BatchInv
<1>2. Staged' = Staged
  BY <1>1 DEF Staged
<1>3. \A o \in Outputs \ Staged : Settled(o)'
  BY <1>1, <1>2, SettledFrame DEF BatchInv
<1>4. ASSUME NEW i \in 1 .. Len(stages) PROVE StageInv(i) /\ i \in Nat /\ ~(i < at') /\ i >= at'
  BY <1>1 DEF BatchInv
<1>5. CASE PreserveFails
  <2>1. phase = "preserve" /\ phase' = "unwind" /\ ~success' /\ published = {}
    BY <1>5 DEF PreserveFails, GiveUp, In, BatchInv
  <2>2. ASSUME NEW i \in 1 .. Len(stages) PROVE StageInv(i)'
    BY <1>1, <1>4, <2>1 DEF StageInv, Unwinding, Linked
  <2> QED
    BY <1>1, <1>2, <1>3, <2>1, <2>2 DEF BatchInv
<1>6. CASE StartReplacing
  <2>1. phase = "preserve" /\ phase' = "replace" /\ published = {} /\ success' = success
    BY <1>6 DEF StartReplacing, In, BatchInv
  <2>2. ASSUME NEW i \in 1 .. Len(stages) PROVE StageInv(i)'
    <3>1. i < at
      BY <1>6 DEF StartReplacing, TypeOK
    <3> QED
      BY <1>1, <1>4, <2>1, <3>1 DEF StageInv, Linked
  <2> QED
    BY <1>1, <1>2, <1>3, <2>1, <2>2 DEF BatchInv
<1>7. CASE ReplaceFails
  <2>1. phase = "replace" /\ phase' = "unwind" /\ ~success'
    BY <1>7 DEF ReplaceFails, GiveUp, In
  <2>2. ASSUME NEW i \in 1 .. Len(stages) PROVE StageInv(i)'
    BY <1>1, <1>4, <2>1 DEF StageInv, Unwinding, Linked
  <2> QED
    BY <1>1, <1>2, <1>3, <2>1, <2>2 DEF BatchInv
<1>8. CASE StartUnwinding
  <2>1. phase = "replace" /\ phase' = "unwind" /\ success' = success
    BY <1>8 DEF StartUnwinding, In
  <2>2. ASSUME NEW i \in 1 .. Len(stages) PROVE StageInv(i)'
    <3>1. i < at
      BY <1>8 DEF StartUnwinding, TypeOK
    <3> QED
      BY <1>1, <1>4, <2>1, <3>1 DEF StageInv, Unwinding, Linked
  <2> QED
    BY <1>1, <1>2, <1>3, <2>1, <2>2 DEF BatchInv
<1> QED
  BY <1>5, <1>6, <1>7, <1>8

\* When the last stage is unwound every output of the batch is settled.
LEMMA BatchEnd == Inv /\ EndFinish => BatchInv'
<1> SUFFICES ASSUME Inv, EndFinish PROVE BatchInv'
  OBVIOUS
<1> USE DEF Inv
<1>1. /\ UNCHANGED <<before, writer, dest, backup, unrestored>>
      /\ phase = "unwind" /\ at > Len(stages)
      /\ phase' = "collect" /\ 1 .. Len(stages') = {} /\ published' = {}
  BY DEF EndFinish, In, files
<1>2. Staged' = {}
  BY <1>1 DEF Staged
<1>3. ASSUME NEW o \in Outputs \ Staged PROVE Settled(o)'
  <2>1. returned'[o] = returned[o] /\ Settled(o)
    BY DEF EndFinish, TypeOK, BatchInv
  <2> QED
    BY <1>1, <2>1, SettledFrame
<1>4. ASSUME NEW o \in Staged PROVE o \in Outputs /\ Settled(o)'
  <2>1. PICK i \in 1 .. Len(stages) : o = stages[i]
    BY DEF Staged
  <2>2. i < at /\ ~(i >= at) /\ StageInv(i) /\ o \in Outputs
    BY <1>1, <2>1 DEF TypeOK, BatchInv
  <2>3. writer[o] = "staged"
    BY WritersAreNotStaged
  <2>4. returned'[o] = IF success THEN "success" ELSE "failure"
    BY <2>2 DEF EndFinish, TypeOK
  <2>5. CASE success
    <3>1. Replaced(o) /\ o \notin unrestored
      BY <1>1, <2>1, <2>2, <2>5 DEF StageInv
    <3> QED
      BY <1>1, <2>2, <2>3, <2>4, <2>5, <3>1 DEF Settled, Replaced
  <2>6. CASE ~success
    <3>1. IF o \in unrestored THEN Damaged(o) ELSE Undamaged(o)
      BY <1>1, <2>1, <2>2, <2>6 DEF StageInv
    <3> QED
      BY <1>1, <2>2, <2>3, <2>4, <2>6, <3>1 DEF Settled, Damaged, Undamaged
  <2> QED
    BY <2>5, <2>6
<1> QED
  BY <1>1, <1>2, <1>3, <1>4 DEF BatchInv

LEMMA BatchIdle == Inv /\ (Begin \/ UNCHANGED vars) => BatchInv'
<1> SUFFICES ASSUME Inv, Begin \/ UNCHANGED vars PROVE BatchInv'
  OBVIOUS
<1>1. /\ UNCHANGED <<before, writer, returned, stages, dest, backup, kept, published, unrestored>>
      /\ UNCHANGED <<phase, at, success>>
  BY DEF Begin, Collecting, vars, files, commit
<1>2. Staged' = Staged
  BY <1>1 DEF Staged
<1>3. \A o \in Outputs \ Staged : Settled(o)'
  BY <1>1, <1>2, SettledFrame DEF Inv, BatchInv
<1>4. ASSUME NEW i \in 1 .. Len(stages) PROVE StageInv(i)'
  <2>1. StageInv(i)
    BY DEF Inv, BatchInv
  <2> QED
    BY <1>1, <2>1
       DEF StageInv, Untouched, Linked, Unwinding, Undamaged, Damaged, Replaced
<1> QED
  BY <1>1, <1>2, <1>3, <1>4 DEF Inv, BatchInv

LEMMA InvInit == Init => Inv
BY TypeInit, BatchInit DEF Inv

LEMMA InvStep == Inv /\ [Next]_vars => Inv'
<1>1. TypeOK /\ [Next]_vars => TypeOK'
  BY TypeStep
<1> QED
  BY <1>1, BatchWriting, BatchFinish, BatchPreserve, BatchReplace, BatchRestore, BatchTurn,
     BatchEnd, BatchIdle
  DEF Inv, Next, Finishing

-----------------------------------------------------------------------------
(* The guarantees *)

\* Where an output can be while its invocation runs.
LEMMA InvMeaning ==
    ASSUME Inv, NEW o \in Outputs
    PROVE  /\ dest[o] = before[o] \/ (dest[o] = "new" /\ before[o] # "special")
           /\ before[o] = "old" =>
                 dest[o] = "old" \/ backup[o] = "old" \/ writer[o] = "published" \/ Succeeded(o)
<1> USE DEF Inv
<1>1. CASE o \notin Staged
  <2>1. Settled(o) /\ returned[o] \in {"nothing", "success", "failure"}
    BY <1>1 DEF BatchInv, TypeOK
  <2> QED
    BY <2>1 DEF Settled, Undamaged, Damaged, Replaced, Succeeded
<1>2. CASE o \in Staged
  <2>1. PICK i \in 1 .. Len(stages) : o = stages[i]
    BY <1>2 DEF Staged
  <2>2. StageInv(i) /\ phase \in {"collect", "preserve", "replace", "unwind"}
        /\ (i < at \/ i >= at) /\ (i >= at => ~(i < at))
    BY <2>1 DEF BatchInv, TypeOK
  <2>3. CASE phase \in {"collect", "preserve"}
    BY <2>1, <2>2, <2>3 DEF StageInv, Untouched
  <2>4. CASE phase = "replace"
    BY <2>1, <2>2, <2>4 DEF StageInv, Linked
  <2>5. CASE phase = "unwind"
    BY <1>2, <2>1, <2>2, <2>5
       DEF StageInv, Unwinding, Linked, Replaced, Undamaged, Damaged, Succeeded
  <2> QED
    BY <2>2, <2>3, <2>4, <2>5
<1> QED
  BY <1>1, <1>2

LEMMA InvGuarantees == Inv => OldContentKept /\ NeverTorn /\ AllOrNothing
<1> SUFFICES ASSUME Inv PROVE OldContentKept /\ NeverTorn /\ AllOrNothing
  OBVIOUS
<1>1. OldContentKept
  BY InvMeaning DEF OldContentKept
<1>2. NeverTorn
  BY InvMeaning DEF NeverTorn
<1>3. AllOrNothing
  <2> SUFFICES ASSUME phase = "collect", NEW o \in Outputs
               PROVE  /\ returned[o] = "success" => dest[o] = "new"
                      /\ returned[o] = "failure" /\ o \notin unrestored => dest[o] = before[o]
    BY DEF AllOrNothing
  <2>1. CASE o \notin Staged
    BY <2>1 DEF Inv, BatchInv, Settled, Replaced, Undamaged
  <2>2. CASE o \in Staged
    BY <2>2 DEF Inv, BatchInv, StageInv, Staged
  <2> QED
    BY <2>1, <2>2
<1> QED
  BY <1>1, <1>2, <1>3

\* Whatever system call fails and wherever the program stops, an old destination
\* can be recovered until output_batch_finish has succeeded.
THEOREM OldContentIsKept == Spec => []OldContentKept
BY InvGuarantees, InvInit, InvStep, PTL DEF Spec

\* At every moment every destination is what it was or the complete new file.
THEOREM DestinationsAreNeverTorn == Spec => []NeverTorn
BY InvGuarantees, InvInit, InvStep, PTL DEF Spec

\* What output_batch_finish returned is true of every output of its batch.
THEOREM BatchIsAllOrNothing == Spec => []AllOrNothing
BY InvGuarantees, InvInit, InvStep, PTL DEF Spec

\* No rename happens before every old destination of the batch is linked.
THEOREM LinksComeFirst == Spec => PreserveBeforeReplace
<1>1. Inv /\ [Next]_vars =>
        [phase = "replace" /\ dest' # dest =>
            \A o \in Staged : before[o] = "old" => backup[o] = "old"]_vars
  <2> SUFFICES ASSUME Inv, phase = "replace", NEW o \in Staged, before[o] = "old"
               PROVE  backup[o] = "old"
    OBVIOUS
  <2>1. PICK i \in 1 .. Len(stages) : o = stages[i]
    BY DEF Staged
  <2> QED
    BY <2>1 DEF Inv, BatchInv, StageInv, Linked
<1> QED
  BY <1>1, InvInit, InvStep, PTL DEF Spec, PreserveBeforeReplace

-----------------------------------------------------------------------------
(* What is left on disk *)

\* A temporary has a writer or waits on the list; the loops of
\* output_batch_finish leave none behind their cursor.
TempInv ==
    /\ \A o \in Outputs : temp[o] # "none" => writer[o] \in {"open", "ready"} \/ o \in Staged
    /\ \A o \in published : temp[o] = "none"
    /\ phase = "unwind" => \A i \in 1 .. Len(stages) : i < at => temp[stages[i]] = "none"

LEMMA TempInit == Init => TempInv
BY DEF Init, TempInv

LEMMA TempWriting ==
    ASSUME TypeOK, TempInv, NEW o \in Outputs, Writing(o)
    PROVE  TempInv'
<1>1. phase = "collect" /\ phase' = "collect" /\ published = {} /\ published' = {}
  BY DEF Writing, Open, OpenFails, Close, Discard, Stage, Publish, Collecting, commit, TypeOK
<1>2. Staged \subseteq Staged' /\ (Stage(o) => o \in Staged')
  <2>1. CASE Stage(o)
    <3>1. stages' = Append(stages, o) /\ stages \in Seq(Outputs)
      BY <2>1 DEF Stage, TypeOK
    <3>2. \A i \in 1 .. Len(stages) : i \in 1 .. Len(stages') /\ stages'[i] = stages[i]
      BY <3>1
    <3>3. Len(stages') \in 1 .. Len(stages') /\ stages'[Len(stages')] = o
      BY <3>1
    <3> QED
      BY <3>2, <3>3 DEF Staged
  <2>2. CASE ~Stage(o)
    BY <2>2 DEF Writing, Open, OpenFails, Close, Discard, Publish, files, Staged
  <2> QED
    BY <2>1, <2>2
<1>3. /\ temp' \in [Outputs -> {"none", "partial", "complete"}]
      /\ \A p \in Outputs \ {o} : temp'[p] = temp[p] /\ writer'[p] = writer[p]
      /\ temp'[o] # "none" => writer'[o] \in {"open", "ready"} \/ Stage(o) \/ o \in Staged
  <2>1. CASE Stage(o)
    BY <2>1 DEF Stage, files, TypeOK
  <2>2. CASE ~Stage(o)
    BY <2>2 DEF Writing, Open, OpenFails, Close, Discard, Publish, files, TypeOK, TempInv
  <2> QED
    BY <2>1, <2>2
<1> QED
  BY <1>1, <1>2, <1>3 DEF TempInv

LEMMA TempFinishing == TypeOK /\ TempInv /\ Finishing => TempInv'
<1> SUFFICES ASSUME TypeOK, TempInv, Finishing PROVE TempInv'
  OBVIOUS
<1>1. writer' = writer
  BY DEF Finishing, Preserve, PreserveFails, StartReplacing, Replace, ReplaceFails,
         StartUnwinding, Restore, RestoreFails, EndFinish, In
<1>2. CASE Preserve \/ PreserveFails \/ StartReplacing \/ ReplaceFails \/ StartUnwinding
  <2>1. /\ UNCHANGED <<temp, stages, published>> /\ Staged' = Staged
        /\ phase' = "unwind" => at' = 1
    BY <1>2 DEF Preserve, PreserveFails, StartReplacing, ReplaceFails, StartUnwinding, GiveUp,
                Step, In, files, Staged
  <2> QED
    BY <1>1, <2>1 DEF TempInv, TypeOK
<1>3. CASE Replace \/ Restore \/ RestoreFails
  <2>1. /\ at <= Len(stages) /\ at' = at + 1 /\ stages' = stages /\ Staged' = Staged
        /\ phase' = phase /\ at \in Nat
    BY <1>3 DEF Replace, Restore, RestoreFails, Step, In, Staged, TypeOK
  <2>2. PICK n \in 1 .. Len(stages), h \in Outputs : n = at /\ h = stages[n] /\ h = Here
    BY <2>1, HereType DEF Here
  <2>3. /\ temp' = temp \/ temp' = [temp EXCEPT ![h] = "none"]
        /\ published' = published \/ published' = published \cup {h}
        /\ temp'[h] = "none"
    <3>1. CASE Replace
      BY <2>2, <3>1 DEF Replace, TypeOK
    <3>2. CASE Restore
      BY <2>2, <3>2 DEF Restore, TypeOK, TempInv
    <3>3. CASE RestoreFails
      BY <2>2, <3>3 DEF RestoreFails, files, TempInv
    <3> QED
      BY <1>3, <3>1, <3>2, <3>3
  <2>4. \A o \in Outputs : temp'[o] = "none" \/ temp'[o] = temp[o]
    BY <2>3 DEF TypeOK
  <2>5. ASSUME NEW o \in published' PROVE temp'[o] = "none"
    BY <2>2, <2>3, <2>4 DEF TempInv, TypeOK
  <2>6. ASSUME phase' = "unwind", NEW i \in 1 .. Len(stages), i < at'
        PROVE  temp'[stages[i]] = "none"
    <3>1. CASE i = n
      BY <2>2, <2>3, <3>1
    <3>2. CASE i # n
      <4>1. i < at /\ stages[i] \in Outputs
        BY <2>1, <2>2, <2>6, <3>2, StageType
      <4> QED
        BY <2>1, <2>4, <2>6, <4>1 DEF TempInv
    <3> QED
      BY <3>1, <3>2
  <2> QED
    BY <1>1, <2>1, <2>4, <2>5, <2>6 DEF TempInv
<1>4. CASE EndFinish
  <2>1. /\ temp' = temp /\ phase = "unwind" /\ phase' = "collect" /\ published' = {}
        /\ \A i \in 1 .. Len(stages) : i < at
    BY <1>4 DEF EndFinish, In, files, TypeOK
  <2>2. \A o \in Staged : temp[o] = "none"
    BY <2>1 DEF TempInv, Staged
  <2> QED
    BY <1>1, <2>1, <2>2 DEF TempInv
<1> QED
  BY <1>2, <1>3, <1>4 DEF Finishing

LEMMA TempStep == TypeOK /\ TempInv /\ [Next]_vars => TempInv'
<1> SUFFICES ASSUME TypeOK, TempInv, [Next]_vars PROVE TempInv'
  OBVIOUS
<1>1. CASE Begin \/ UNCHANGED vars \/ \E ok \in BOOLEAN : Finish(ok)
  <2>1. /\ UNCHANGED <<temp, writer, stages, published>> /\ Staged' = Staged
        /\ UNCHANGED <<phase, at>> \/ at' = 1
    BY <1>1 DEF Begin, Finish, Collecting, vars, files, commit, Staged
  <2> QED
    BY <2>1 DEF TempInv, TypeOK
<1> QED
  BY <1>1, TempWriting, TempFinishing DEF Next

LEMMA TempMeaning == Inv /\ TempInv => NothingLeftBehind
<1> SUFFICES ASSUME Inv, TempInv, phase = "collect", NEW o \in Outputs
             PROVE  /\ backup[o] = "old" => o \in unrestored
                    /\ temp[o] # "none" => writer[o] \in {"open", "ready"} \/ o \in Staged
  BY DEF NothingLeftBehind
<1>1. CASE o \notin Staged
  BY <1>1 DEF Inv, BatchInv, Settled, Replaced, Damaged, Undamaged, TypeOK, TempInv
<1>2. CASE o \in Staged
  BY <1>2 DEF Inv, BatchInv, StageInv, Untouched, Staged, TempInv
<1> QED
  BY <1>1, <1>2

\* Between invocations of output_batch_finish no backup is left but a reported
\* one, and no temporary but those that are being written or staged.
THEOREM NothingIsLeftBehind == Spec => []NothingLeftBehind
<1>1. Inv /\ TempInv /\ [Next]_vars => (Inv /\ TempInv)'
  BY InvStep, TempStep DEF Inv
<1> QED
  BY <1>1, TempMeaning, InvInit, TempInit, PTL DEF Spec

-----------------------------------------------------------------------------
(* The refinement of AtomicPublication *)

\* The definitions of Visible and Outcome, point by point.
LEMMA VisibleAt ==
    ASSUME NEW o \in Outputs
    PROVE  Visible[o] = IF phase # "collect" /\ o \in Staged THEN before[o] ELSE dest[o]
BY DEF Visible

LEMMA StatusAt ==
    ASSUME Inv, NEW o \in Outputs
    PROVE  /\ writer[o] = "published" => Outcome[o] = "published"
           /\ returned[o] = "success" => Outcome[o] = "published"
           /\ returned[o] = "failure" =>
                 Outcome[o] = IF o \in unrestored THEN "damaged" ELSE "unchanged"
           /\ returned[o] = "nothing" /\ writer[o] # "published" => Outcome[o] = "open"
<1>1. returned[o] = "failure" => writer[o] # "published"
  <2>1. CASE o \in Staged
    BY <2>1, WritersAreNotStaged DEF Inv
  <2>2. CASE o \notin Staged
    BY <2>2 DEF Inv, BatchInv, Settled
  <2> QED
    BY <2>1, <2>2
<1>2. Outcome[o] = CASE writer[o] = "published" \/ returned[o] = "success" -> "published"
                    [] returned[o] = "failure" -> IF o \in unrestored THEN "damaged" ELSE "unchanged"
                    [] OTHER -> "open"
  BY DEF Outcome
<1> QED
  BY <1>1, <1>2

LEMMA StagedAreOpen ==
    ASSUME Inv, NEW o \in Staged
    PROVE  o \in Outputs /\ returned[o] = "nothing" /\ writer[o] = "staged" /\ Outcome[o] = "open"
<1>1. PICK i \in 1 .. Len(stages) : o = stages[i]
  BY DEF Staged
<1>2. StageInv(i) /\ o \in Outputs /\ writer[o] = "staged"
  BY <1>1, WritersAreNotStaged DEF Inv, BatchInv, TypeOK
<1> QED
  BY <1>1, <1>2, StatusAt DEF StageInv

LEMMA RefineInit == Init => Publication!Init
<1> SUFFICES ASSUME Init PROVE Publication!Init
  OBVIOUS
<1>1. Visible = [o \in Outputs |-> dest[o]] /\ dest = before
  BY DEF Init, Visible
<1>2. Visible \in [Outputs -> {"absent", "old", "special"}]
  BY <1>1 DEF Init
<1>3. ASSUME NEW o \in Outputs PROVE Outcome[o] = "open"
  BY InvInit, StatusAt DEF Init
<1>4. Outcome = [o \in Outputs |-> "open"]
  BY <1>3 DEF Outcome
<1> QED
  BY <1>2, <1>4 DEF Publication!Init

\* Nothing changes for who looks between commits if no staged destination is
\* seen to change, and no output is told anything.
LEMMA Stutter ==
    ASSUME \A o \in Outputs : Visible'[o] = Visible[o] /\ Outcome'[o] = Outcome[o]
    PROVE  UNCHANGED Publication!vars
BY DEF Publication!vars, Visible, Outcome

LEMMA RefinePublish ==
    ASSUME Inv, Inv', NEW o \in Outputs, Publish(o)
    PROVE  Publication!PublishOne(o)
<1>1. /\ UNCHANGED <<before, phase, stages, returned, unrestored>> /\ phase = "collect"
      /\ writer[o] = "ready" /\ writer' = [writer EXCEPT ![o] = "published"]
      /\ temp[o] = "complete" /\ dest' = Moved(o)
  BY DEF Publish, Collecting, commit, Inv, TypeOK
<1>2. o \notin Staged
  BY <1>1, WritersAreNotStaged DEF Inv
<1>3. returned[o] = "nothing" /\ Outcome[o] = "open"
  <2>1. returned[o] = "nothing"
    BY <1>1, <1>2 DEF Inv, BatchInv, Settled, TypeOK
  <2> QED
    BY <1>1, <2>1, StatusAt
<1>4. \A p \in Outputs : Visible'[p] = IF p \in {o} THEN "new" ELSE Visible[p]
  <2>1. dest'[o] = "new" /\ \A p \in Outputs \ {o} : dest'[p] = dest[p]
    BY <1>1 DEF Moved, Inv, TypeOK
  <2>2. \A p \in Outputs : Visible'[p] = dest'[p] /\ Visible[p] = dest[p]
    BY <1>1 DEF Visible
  <2> QED
    BY <2>1, <2>2
<1>5. \A p \in Outputs : Outcome'[p] = IF p \in {o} THEN "published" ELSE Outcome[p]
  <2>1. writer'[o] = "published" /\ \A p \in Outputs \ {o} : writer'[p] = writer[p]
    BY <1>1 DEF Inv, TypeOK
  <2>2. Outcome'[o] = "published"
    BY <1>1, <1>3, <2>1 DEF Outcome
  <2>3. \A p \in Outputs \ {o} : Outcome'[p] = Outcome[p]
    BY <1>1, <2>1 DEF Outcome
  <2> QED
    BY <2>2, <2>3
<1>6. /\ Visible' = [p \in Outputs |-> IF p \in {o} THEN "new" ELSE Visible[p]]
      /\ Outcome' = [p \in Outputs |->
                       IF p \in {o} THEN [s \in {o} |-> "published"][p] ELSE Outcome[p]]
  BY <1>4, <1>5 DEF Visible, Outcome
<1> QED
  BY <1>3, <1>6 DEF Publication!PublishOne, Publication!Tell

LEMMA RefineEnd ==
    ASSUME Inv, Inv', EndFinish
    PROVE  \E S \in SUBSET Outputs :
              Publication!Commit(S) \/ \E D \in SUBSET S : Publication!Refuse(S, D)
<1>1. /\ UNCHANGED <<before, writer, dest, unrestored>>
      /\ phase = "unwind" /\ at > Len(stages) /\ phase' = "collect"
  BY DEF EndFinish, In, files
<1>2. Staged \in SUBSET Outputs
  BY StagedAreOpen
<1>3. ASSUME NEW o \in Outputs
      PROVE  /\ Visible[o] = IF o \in Staged THEN before[o] ELSE dest[o]
             /\ Visible'[o] = dest[o]
  BY <1>1 DEF Visible
<1>4. ASSUME NEW o \in Outputs
      PROVE  returned'[o] = IF o \in Staged THEN IF success THEN "success" ELSE "failure"
                            ELSE returned[o]
  BY DEF EndFinish, Inv, TypeOK
<1>5. ASSUME NEW o \in Outputs \ Staged PROVE Outcome'[o] = Outcome[o]
  BY <1>1, <1>4 DEF Outcome
<1>6. ASSUME NEW o \in Staged
      PROVE  IF success THEN Replaced(o)
             ELSE IF o \in unrestored THEN Damaged(o) ELSE Undamaged(o)
  <2>1. PICK i \in 1 .. Len(stages) : o = stages[i]
    BY DEF Staged
  <2>2. StageInv(i) /\ ~(i >= at)
    BY <1>1, <2>1 DEF Inv, BatchInv, TypeOK
  <2> QED
    BY <1>1, <2>1, <2>2 DEF StageInv
<1>7. CASE success
  <2>1. \A o \in Outputs : Visible'[o] = IF o \in Staged THEN "new" ELSE Visible[o]
    BY <1>3, <1>6, <1>7 DEF Replaced
  <2>2. \A o \in Outputs : Outcome'[o] = IF o \in Staged THEN "published" ELSE Outcome[o]
    BY <1>4, <1>5, <1>7 DEF Outcome
  <2>3. /\ Visible' = [o \in Outputs |-> IF o \in Staged THEN "new" ELSE Visible[o]]
        /\ Outcome' = [o \in Outputs |->
                         IF o \in Staged THEN [s \in Staged |-> "published"][o] ELSE Outcome[o]]
    BY <2>1, <2>2 DEF Visible, Outcome
  <2>4. Publication!Commit(Staged)
    BY <2>3, StagedAreOpen DEF Publication!Commit, Publication!Tell
  <2> QED
    BY <1>2, <2>4
<1>8. CASE ~success
  <2> DEFINE D == Staged \cap unrestored
             st == [s \in Staged |-> IF s \in D THEN "damaged" ELSE "unchanged"]
  <2>1. \A o \in Outputs : Visible'[o] = IF o \in D THEN "new" ELSE Visible[o]
    BY <1>3, <1>6, <1>8 DEF Damaged, Undamaged
  <2>2. ASSUME NEW o \in Staged PROVE Outcome'[o] = st[o]
    <3>1. returned'[o] = "failure" /\ writer'[o] = "staged"
      BY <1>1, <1>4, <1>8, StagedAreOpen
    <3>2. Outcome'[o] = IF o \in unrestored THEN "damaged" ELSE "unchanged"
      BY <1>1, <1>2, <3>1 DEF Outcome
    <3>3. st[o] = IF o \in unrestored THEN "damaged" ELSE "unchanged"
      OBVIOUS
    <3> QED
      BY <3>2, <3>3
  <2>3. \A o \in Outputs : Outcome'[o] = IF o \in Staged THEN st[o] ELSE Outcome[o]
    BY <1>5, <2>2
  <2> HIDE DEF D, st
  <2>4. /\ Visible' = [o \in Outputs |-> IF o \in D THEN "new" ELSE Visible[o]]
        /\ Outcome' = [o \in Outputs |-> IF o \in Staged THEN st[o] ELSE Outcome[o]]
    BY <2>1, <2>3 DEF Visible, Outcome
  <2> USE DEF D, st
  <2>5. Publication!Refuse(Staged, D)
    BY <2>4, StagedAreOpen DEF Publication!Refuse, Publication!Tell
  <2> QED
    BY <1>2, <2>5
<1> QED
  BY <1>7, <1>8

\* Every other step is invisible.
LEMMA RefineOther ==
    ASSUME Inv, [Next]_vars, ~EndFinish, \A o \in Outputs : ~Publish(o)
    PROVE  UNCHANGED Publication!vars
<1>1. CASE Begin \/ UNCHANGED vars \/ \E o \in Outputs : Writing(o)
  <2>1. /\ UNCHANGED <<before, phase, dest, returned, unrestored>>
        /\ phase # "collect" => Staged' = Staged
    BY <1>1 DEF Begin, Writing, Open, OpenFails, Close, Discard, Stage, Publish, Collecting,
                vars, files, commit, Staged
  <2>2. \A o \in Outputs : writer'[o] = "published" <=> writer[o] = "published"
    BY <1>1 DEF Begin, Writing, Open, OpenFails, Close, Discard, Stage, Publish, vars, Inv, TypeOK
  <2>3. \A o \in Outputs : Visible'[o] = Visible[o] /\ Outcome'[o] = Outcome[o]
    BY <2>1, <2>2 DEF Visible, Outcome
  <2> QED
    BY <2>3, Stutter
<1>2. CASE \E ok \in BOOLEAN : Finish(ok)
  <2>1. /\ UNCHANGED <<before, dest, writer, returned, unrestored>> /\ phase = "collect"
        /\ Staged' = Staged
    BY <1>2 DEF Finish, files, Staged
  <2>2. \A o \in Staged : dest[o] = before[o]
    BY <2>1 DEF Inv, BatchInv, StageInv, Untouched, Staged
  <2>3. \A o \in Outputs : Visible'[o] = Visible[o] /\ Outcome'[o] = Outcome[o]
    BY <2>1, <2>2 DEF Visible, Outcome
  <2> QED
    BY <2>3, Stutter
<1>3. CASE Finishing
  <2>1. /\ UNCHANGED <<before, writer, returned>> /\ Staged' = Staged
        /\ phase # "collect" /\ phase' # "collect"
    BY <1>3 DEF Finishing, Preserve, PreserveFails, StartReplacing, Replace, ReplaceFails,
                StartUnwinding, Restore, RestoreFails, In, GiveUp, Step, Staged
  <2>2. \A o \in Outputs \ Staged : dest'[o] = dest[o] /\ (o \in unrestored' <=> o \in unrestored)
    <3>1. CASE at <= Len(stages)
      <4>1. Here \in Staged /\ Here \in Outputs
        BY <3>1, HereType DEF Inv
      <4> QED
        BY <1>3, <4>1 DEF Finishing, Preserve, PreserveFails, StartReplacing, Replace,
              ReplaceFails, StartUnwinding, Restore, RestoreFails, Moved, files, Inv, TypeOK
    <3>2. CASE ~(at <= Len(stages))
      BY <1>3, <3>2 DEF Finishing, Preserve, PreserveFails, StartReplacing, Replace,
              ReplaceFails, StartUnwinding, Restore, RestoreFails, files
    <3> QED
      BY <3>1, <3>2
  <2>3. \A o \in Outputs : Visible'[o] = Visible[o]
    BY <2>1, <2>2 DEF Visible
  <2>4. \A o \in Staged : returned[o] = "nothing" /\ writer[o] = "staged"
    BY StagedAreOpen
  <2>5. \A o \in Outputs : Outcome'[o] = Outcome[o]
    BY <2>1, <2>2, <2>4 DEF Outcome
  <2> QED
    BY <2>3, <2>5, Stutter
<1> QED
  BY <1>1, <1>2, <1>3 DEF Next

LEMMA RefineStep == Inv /\ Inv' /\ [Next]_vars => [Publication!Next]_(Publication!vars)
<1> SUFFICES ASSUME Inv, Inv', [Next]_vars
             PROVE  Publication!Next \/ UNCHANGED Publication!vars
  OBVIOUS
<1>1. CASE EndFinish
  BY <1>1, RefineEnd DEF Publication!Next
<1>2. CASE \E o \in Outputs : Publish(o)
  BY <1>2, RefinePublish DEF Publication!Next
<1> QED
  BY <1>1, <1>2, RefineOther

\* Whatever system calls fail, the outputs of a batch are replaced together or
\* not at all, for any number of outputs: OutputBatch implements
\* AtomicPublication.
THEOREM BatchIsAtomic == Spec => Atomic
BY RefineInit, RefineStep, InvInit, InvStep, PTL DEF Spec, Atomic, Publication!Spec
=============================================================================
