--------------------------- MODULE LinkerRunProofs ---------------------------
(***************************************************************************)
(* What a run of the linker leaves on disk and what it writes there, for   *)
(* any script, any objects and any pattern of failures.  What is on disk   *)
(* does not depend on how objects are translated.  What an output holds    *)
(* does: fragments are added at the end of the layout, an output begins    *)
(* where its command was met, and a run that is cut at its marks is still  *)
(* the run.                                                                *)
(***************************************************************************)
EXTENDS LinkerRun, OutputBatchProofs, FiniteSetTheorems, SequenceTheorems, WellFoundedInduction

LinkerJobs == {"parse", "script", "read", "nodes", "failed", "resolve", "layout",
               "write", "publish", "cleanup", "done"}

\* No output has been touched.
Idle == \A o \in Outputs : writer[o] = "idle"

\* The linker opens no batch.
NoBatch ==
    /\ phase = "collect" /\ ~batching /\ stages = <<>>
    /\ \A o \in Outputs : returned[o] = "nothing"

LinkerType ==
    /\ job \in LinkerJobs /\ script \in Scripts /\ status \in {0, 1, 3}
    /\ ip \in Nat \ {0} /\ current \in Nat \ {0}
    /\ \E S : opened \in Seq(S)
    /\ \A i \in 1 .. Len(opened) : opened[i].file \in Outputs

\* Nothing is written before the destinations have been compared with the inputs.
Guarded ==
    /\ job \in {"resolve", "layout", "write", "publish"} => Protected
    /\ Idle \/ Protected

\* How far each output is: the loops at the end of main visit them in order.
Turns ==
    /\ job \in LinkerJobs \ {"write", "publish", "cleanup", "done"} => Idle /\ current = 1
    /\ job \notin {"cleanup", "done"} => status = 1
    /\ \A o \in Outputs \ Destinations : writer[o] = "idle"
    /\ job = "write" => \A i \in 1 .. Len(opened) :
          writer[opened[i].file] \in IF i < current THEN {"ready"}
                                     ELSE IF i = current THEN {"idle", "open"} ELSE {"idle"}
    /\ job = "publish" => \A i \in 1 .. Len(opened) :
          writer[opened[i].file] = IF i < current THEN "published" ELSE "ready"
    /\ job \in {"cleanup", "done"} =>
          /\ status = 0 => \A i \in 1 .. Len(opened) : writer[opened[i].file] = "published"
          /\ status = 1 => Idle
          /\ status = 3 => \E n \in 0 .. (Len(opened) - 1) : \A i \in 1 .. Len(opened) :
                               writer[opened[i].file] = "published" <=> i <= n
    /\ job = "done" => Left = {}

LinkerInv == Inv /\ TempInv /\ NoBatch /\ LinkerType /\ Guarded /\ Turns
-----------------------------------------------------------------------------
(* Facts about the destinations *)

LEMMA Files ==
    /\ \A s \in Scripts : s.name \in Outputs /\ (s.default \in Outputs \/ s.default = "NONE")
    /\ \A s \in Scripts : \A c \in Range(s.commands) :
          c.cmd \in {"OUTPUT", "LINK", "COPY"} => c.file \in Outputs
    /\ \A s \in Scripts : s.commands \in Seq(Range(s.commands))
BY FilesAssumption, BinaryAssumption

LEMMA OpenedType ==
    ASSUME LinkerType
    PROVE  /\ Len(opened) \in Nat
           /\ Destinations \subseteq Outputs
           /\ \A i \in 1 .. Len(opened) : opened[i].file \in Destinations
BY DEF LinkerType, Destinations

\* Once they are compared, each destination belongs to one output.
LEMMA EachAlone ==
    ASSUME LinkerType, Protected,
           NEW i \in 1 .. Len(opened), NEW j \in 1 .. Len(opened), opened[i].file = opened[j].file
    PROVE  i = j
<1>1. Len(opened) \in Nat
  BY OpenedType
<1>2. CASE i < j
  BY <1>1, <1>2 DEF Protected
<1>3. CASE j < i
  BY <1>1, <1>3 DEF Protected
<1> QED
  BY <1>1, <1>2, <1>3

\* The output at hand is no other output.
LEMMA OutputType ==
    ASSUME LinkerType, Protected, current <= Len(opened)
    PROVE  /\ current \in 1 .. Len(opened) /\ Output \in Outputs /\ Output \in Destinations
           /\ Output = opened[current].file
           /\ \A i \in 1 .. Len(opened) : opened[i].file = Output <=> i = current
<1>1. current \in 1 .. Len(opened) /\ Output = opened[current].file
  BY OpenedType DEF LinkerType, Output
<1> QED
  BY <1>1, OpenedType, EachAlone DEF LinkerType

-----------------------------------------------------------------------------
(* The invariant of the linker *)

LEMMA LinkerInvInit == LinkerInit => LinkerInv
<1> SUFFICES ASSUME LinkerInit PROVE LinkerInv
  OBVIOUS
<1>1. Inv /\ TempInv
  BY InvInit, TempInit DEF LinkerInit
<1>2. /\ phase = "collect" /\ batching = FALSE /\ stages = <<>>
      /\ \A o \in Outputs : writer[o] = "idle" /\ returned[o] = "nothing"
  BY DEF LinkerInit, Init
<1>3. /\ job = "parse" /\ script \in Scripts /\ status = 1 /\ current = 1 /\ ip = 1
      /\ opened = <<>> /\ opened \in Seq({}) /\ Len(opened) = 0
  BY DEF LinkerInit
<1>4. LinkerType
  BY <1>3 DEF LinkerType, LinkerJobs
<1> QED
  BY <1>1, <1>2, <1>3, <1>4 DEF LinkerInv, NoBatch, Guarded, Turns, Idle

\* Steps before the first output is written.
Reading ==
    \/ Parse \/ Reject \/ DoOutput \/ DoCopy \/ DoPad \/ SkipRam \/ DoBank
    \/ DoLink \/ ReadObject \/ ReadFails \/ Translate
    \/ Protect \/ Prepare \/ LayoutFails \/ LayOut

\* Appending an object, and binding the names of all, only move the job on.
LEMMA TranslateEffect == AppendObject => job = "nodes" /\ job' \in {"nodes", "script"}
<1>1. NextRoot => job = "nodes" /\ job' = job
  BY DEF NextRoot, Building
<1>2. Descend => job = "nodes" /\ job' = job
  BY DEF Descend, Walking, Building
<1>3. BuildNode => job = "nodes" /\ job' = job
  BY DEF BuildNode, Walking, Building
<1>4. Define => job = "nodes" /\ job' = job
  BY DEF Define, Building
<1>5. LayObject => job = "nodes" /\ job' = "script"
  BY DEF LayObject
<1> QED
  BY <1>1, <1>2, <1>3, <1>4, <1>5 DEF AppendObject

LEMMA PrepareEffect == PrepareLink => job = "resolve" /\ job' \in {"resolve", "layout", "failed"}
<1>1. DuplicateExport \/ UndefinedImport => job = "resolve" /\ job' = "failed"
  BY DEF DuplicateExport, UndefinedImport, SortedExports, Resolving, Fail
<1>2. BindImport => job = "resolve" /\ job' = job
  BY DEF BindImport, SortedExports, Resolving
<1>3. BindBank => job = "resolve" /\ job' = job
  BY DEF BindBank, SortedExports, Resolving
<1>4. Resolved => job = "resolve" /\ job' = "layout"
  BY DEF Resolved, SortedExports, Resolving
<1> QED
  BY <1>1, <1>2, <1>3, <1>4 DEF PrepareLink

LEMMA ReadingEffect ==
    ASSUME Reading
    PROVE  /\ UNCHANGED <<vars, script, status, current>> /\ ip' \in {ip, ip + 1}
           /\ job \in LinkerJobs \ {"write", "publish", "cleanup", "done"}
           /\ \/ UNCHANGED opened
              \/ job = "parse" /\ script.default # "NONE"
                 /\ opened' = <<[file |-> script.default, boundary |-> 1]>>
              \/ job = "script" /\ ip <= Len(Commands) /\ Command.cmd = "OUTPUT"
                 /\ \E b : opened' = Append(opened, [file |-> Command.file, boundary |-> b])
           /\ \/ job' \in {"parse", "script", "read", "nodes", "failed"}
              \/ job' \in {"resolve", "layout", "write"} /\ UNCHANGED opened
                 /\ (job \in {"resolve", "layout"} \/ Protected)
<1> USE DEF LinkerJobs
<1>1. CASE Parse
  BY <1>1 DEF Parse, Running
<1>2. CASE Reject \/ ReadFails \/ LayoutFails
  BY <1>2 DEF Reject, ReadFails, LayoutFails, Running
<1>3. CASE DoOutput
  BY <1>3 DEF DoOutput, InScript, Running, Done
<1>4. CASE DoCopy \/ DoPad \/ SkipRam \/ DoBank
  BY <1>4 DEF DoCopy, DoPad, SkipRam, DoBank, InScript, Running, Done
<1>5. CASE DoLink
  BY <1>5 DEF DoLink, InScript, Running
<1>6. CASE ReadObject
  BY <1>6 DEF ReadObject, AddObject, Running
<1>7. CASE Translate
  BY <1>7, TranslateEffect DEF Translate, linker
<1>8. CASE Protect
  BY <1>8 DEF Protect, Running
<1>9. CASE Prepare
  BY <1>9, PrepareEffect DEF Prepare, linker
<1>10. CASE LayOut
  BY <1>10 DEF LayOut, Running
<1> QED
  BY <1>1, <1>2, <1>3, <1>4, <1>5, <1>6, <1>7, <1>8, <1>9, <1>10 DEF Reading

LEMMA ReadingInv == LinkerInv /\ Reading => (LinkerType /\ Guarded /\ Turns)'
<1> SUFFICES ASSUME LinkerInv, Reading PROVE (LinkerType /\ Guarded /\ Turns)'
  OBVIOUS
<1> USE DEF LinkerInv
<1>1. /\ UNCHANGED <<writer, script, status, current>> /\ ip' \in {ip, ip + 1}
      /\ job \in LinkerJobs \ {"write", "publish", "cleanup", "done"}
      /\ job' \in LinkerJobs \ {"publish", "cleanup", "done"}
      /\ job' \in {"resolve", "layout", "write"} =>
            UNCHANGED opened /\ (job \in {"resolve", "layout"} \/ Protected)
  BY ReadingEffect DEF vars, LinkerJobs
<1>2. Idle /\ Idle' /\ current = 1 /\ status = 1
  BY <1>1 DEF Turns, Idle
<1>3. (\E S : opened' \in Seq(S)) /\ \A i \in 1 .. Len(opened') : opened'[i].file \in Outputs
  <2>1. CASE UNCHANGED opened
    BY <2>1 DEF LinkerType
  <2>2. CASE job = "parse" /\ script.default # "NONE"
             /\ opened' = <<[file |-> script.default, boundary |-> 1]>>
    <3>1. script.default \in Outputs
      BY <2>2, Files DEF LinkerType
    <3>2. opened' \in Seq({[file |-> script.default, boundary |-> 1]}) /\ Len(opened') = 1
          /\ opened'[1] = [file |-> script.default, boundary |-> 1]
      BY <2>2
    <3> QED
      BY <3>1, <3>2
  <2>3. CASE /\ ip <= Len(Commands) /\ Command.cmd = "OUTPUT"
             /\ \E b : opened' = Append(opened, [file |-> Command.file, boundary |-> b])
    <3>1. Command.file \in Outputs
      <4>1. script \in Scripts /\ script.commands \in Seq(Range(script.commands))
            /\ ip \in 1 .. Len(script.commands)
        BY <2>3, Files DEF LinkerType, Commands
      <4>2. Command \in Range(script.commands)
        BY <4>1 DEF Command, Commands, Range
      <4> QED
        BY <2>3, <4>1, <4>2, Files
    <3>2. PICK b : opened' = Append(opened, [file |-> Command.file, boundary |-> b])
      BY <2>3
    <3>3. PICK S : opened \in Seq(S)
      BY DEF LinkerType
    <3> DEFINE e == [file |-> Command.file, boundary |-> b]
    <3>4. opened \in Seq(S \cup {e}) /\ e \in S \cup {e} /\ e.file \in Outputs
      BY <3>1, <3>3, SeqMonotonic
    <3> HIDE DEF e
    <3>5. /\ opened' \in Seq(S \cup {e}) /\ Len(opened') = Len(opened) + 1
          /\ \A i \in 1 .. Len(opened) : opened'[i] = opened[i]
          /\ opened'[Len(opened) + 1] = e
      BY <3>2, <3>4, AppendProperties DEF e
    <3> QED
      BY <3>4, <3>5, OpenedType DEF LinkerType
  <2> QED
    BY <2>1, <2>2, <2>3, ReadingEffect
<1>4. LinkerType'
  BY <1>1, <1>3 DEF LinkerType
<1>5. Guarded'
  BY <1>1, <1>2 DEF Guarded, Protected, Commands, LinkerJobs
<1>6. Turns'
  BY <1>1, <1>2, <1>3 DEF Turns, Idle, LinkerJobs
<1> QED
  BY <1>4, <1>5, <1>6

\* One output is opened, closed, published or given up.
LEMMA WritingInv ==
    LinkerInv /\ (OpenOutput \/ CloseOutput \/ WriteFails \/ PublishOutput \/ PublishFails)
       => (LinkerType /\ Guarded /\ Turns)'
<1> SUFFICES ASSUME LinkerInv,
                    OpenOutput \/ CloseOutput \/ WriteFails \/ PublishOutput \/ PublishFails
             PROVE  (LinkerType /\ Guarded /\ Turns)'
  OBVIOUS
<1> USE DEF LinkerInv
<1>1. /\ UNCHANGED <<script, ip, opened>> /\ current <= Len(opened) /\ job \in {"write", "publish"}
  BY DEF OpenOutput, CloseOutput, WriteFails, PublishOutput, PublishFails, At
<1>2. Protected
  BY <1>1 DEF Guarded
<1>3. PICK c \in 1 .. Len(opened), o \in Outputs :
          /\ c = current /\ o = Output /\ o \in Destinations
          /\ \A i \in 1 .. Len(opened) : opened[i].file = o <=> i = c
  BY <1>1, <1>2, OutputType
<1>4. /\ \A p \in Outputs \ {o} : writer'[p] = writer[p]
      /\ OpenOutput => writer'[o] = "open"
      /\ CloseOutput => writer'[o] = "ready"
      /\ PublishOutput => writer'[o] = "published"
      /\ WriteFails \/ PublishFails => writer'[o] = "failed"
  BY <1>3 DEF OpenOutput, CloseOutput, WriteFails, PublishOutput, PublishFails,
              Open, Close, Publish, OpenFails, Discard, Inv, TypeOK
<1>5. /\ OpenOutput => job = "write" /\ UNCHANGED <<job, current, status>>
      /\ CloseOutput => job = "write" /\ current' = current + 1 /\ UNCHANGED <<job, status>>
      /\ PublishOutput => job = "publish" /\ current' = current + 1 /\ UNCHANGED <<job, status>>
      /\ WriteFails => job = "write" /\ job' = "cleanup" /\ current' = 1 /\ status' = 3
      /\ PublishFails => job = "publish" /\ job' = "cleanup" /\ current' = 1 /\ status' = 3
  BY DEF OpenOutput, CloseOutput, WriteFails, PublishOutput, PublishFails, At, GoTo
<1>6. LinkerType'
  BY <1>1, <1>5 DEF LinkerType, LinkerJobs
<1>7. Guarded'
  <2>1. Protected'
    BY <1>1, <1>2 DEF Protected, Commands
  <2> QED
    BY <2>1 DEF Guarded
<1>8. Turns'
  <2>1. \A p \in Outputs \ Destinations' : writer'[p] = "idle"
    BY <1>1, <1>3, <1>4 DEF Turns, Destinations
  <2>2. \A i \in 1 .. Len(opened) :
           opened[i].file \in Outputs /\ (i # c => writer'[opened[i].file] = writer[opened[i].file])
    BY <1>3, <1>4 DEF LinkerType
  <2>3. opened[c].file = o /\ current \in Nat /\ Len(opened) \in Nat
    BY <1>3, OpenedType DEF LinkerType
  <2>4. CASE OpenOutput
    BY <1>1, <1>3, <1>4, <1>5, <2>1, <2>2, <2>3, <2>4 DEF Turns, LinkerJobs
  <2>5. CASE CloseOutput
    BY <1>1, <1>3, <1>4, <1>5, <2>1, <2>2, <2>3, <2>5 DEF Turns, LinkerJobs
  <2>6. CASE PublishOutput
    BY <1>1, <1>3, <1>4, <1>5, <2>1, <2>2, <2>3, <2>6 DEF Turns, LinkerJobs
  <2>7. CASE WriteFails
    <3>1. \A i \in 1 .. Len(opened) : writer'[opened[i].file] # "published"
      BY <1>3, <1>4, <1>5, <2>2, <2>3, <2>7 DEF Turns
    <3>2. 0 \in 0 .. (Len(opened) - 1) /\ \A i \in 1 .. Len(opened) : ~(i <= 0)
      BY <1>3, <2>3
    <3>3. \E n \in 0 .. (Len(opened) - 1) : \A i \in 1 .. Len(opened) :
             writer'[opened[i].file] = "published" <=> i <= n
      BY <3>1, <3>2, Zenon
    <3> QED
      BY <1>1, <1>5, <2>1, <2>7, <3>3 DEF Turns, LinkerJobs
  <2>8. CASE PublishFails
    <3>1. c - 1 \in 0 .. (Len(opened) - 1)
      BY <1>3, <2>3
    <3>2. \A i \in 1 .. Len(opened) : writer'[opened[i].file] = "published" <=> i <= c - 1
      <4>1. \A i \in 1 .. Len(opened) :
               writer[opened[i].file] = IF i < c THEN "published" ELSE "ready"
        BY <1>3, <1>5, <2>8 DEF Turns
      <4> QED
        BY <1>3, <1>4, <2>2, <2>3, <2>8, <4>1
    <3>3. \E n \in 0 .. (Len(opened) - 1) : \A i \in 1 .. Len(opened) :
             writer'[opened[i].file] = "published" <=> i <= n
      BY <3>1, <3>2, Zenon
    <3> QED
      BY <1>1, <1>5, <2>1, <2>8, <3>3 DEF Turns, LinkerJobs
  <2> QED
    BY <2>4, <2>5, <2>6, <2>7, <2>8
<1> QED
  BY <1>6, <1>7, <1>8

\* The loops turn, and what was not published is removed.
LEMMA TurningInv ==
    LinkerInv /\ (AllStaged \/ AllPublished \/ Clean \/ GiveUpLink)
       => (LinkerType /\ Guarded /\ Turns)'
<1> SUFFICES ASSUME LinkerInv, AllStaged \/ AllPublished \/ Clean \/ GiveUpLink
             PROVE  (LinkerType /\ Guarded /\ Turns)'
  OBVIOUS
<1> USE DEF LinkerInv
<1>1. UNCHANGED <<script, ip, opened>>
  BY DEF AllStaged, AllPublished, Clean, GiveUpLink, At
<1>2. Protected' <=> Protected
  BY <1>1 DEF Protected, Commands
<1>3. Destinations' = Destinations
  BY <1>1 DEF Destinations
<1>4. \A i \in 1 .. Len(opened) : opened[i].file \in Outputs
  BY DEF LinkerType
<1>5. CASE AllStaged
  <2>1. /\ writer' = writer /\ status' = status /\ job = "write" /\ job' = "publish" /\ current' = 1
        /\ current > Len(opened)
    BY <1>5 DEF AllStaged, At, GoTo, vars
  <2>2. LinkerType' /\ Guarded'
    BY <1>1, <1>2, <2>1 DEF LinkerType, LinkerJobs, Guarded, Idle
  <2>3. Turns'
    BY <1>1, <1>3, <2>1, OpenedType DEF Turns, LinkerType, LinkerJobs
  <2> QED
    BY <2>2, <2>3
<1>6. CASE AllPublished
  <2>1. /\ writer' = writer /\ status' = 0 /\ job = "publish" /\ job' = "cleanup" /\ current' = 1
        /\ current > Len(opened)
    BY <1>6 DEF AllPublished, At, GoTo, vars
  <2>2. LinkerType' /\ Guarded'
    BY <1>1, <1>2, <2>1 DEF LinkerType, LinkerJobs, Guarded, Idle
  <2>3. Turns'
    BY <1>1, <1>3, <2>1, OpenedType DEF Turns, LinkerType, LinkerJobs
  <2> QED
    BY <2>2, <2>3
<1>7. CASE GiveUpLink
  <2>1. /\ writer' = writer /\ status' = status /\ job = "failed" /\ job' = "cleanup" /\ current' = 1
    BY <1>7 DEF GiveUpLink, At, GoTo, vars
  <2>2. LinkerType' /\ Guarded'
    BY <1>1, <1>2, <2>1 DEF LinkerType, LinkerJobs, Guarded, Idle
  <2>3. Turns'
    BY <1>1, <1>3, <2>1 DEF Turns, Idle, LinkerJobs
  <2> QED
    BY <2>2, <2>3
<1>8. CASE Clean
  <2>1. /\ status' = status /\ current' = current /\ job = "cleanup" /\ job' \in {"cleanup", "done"}
        /\ Left = {} => job' = "done" /\ writer' = writer
        /\ Left # {} => job' = "cleanup"
    BY <1>8 DEF Clean, At, vars
  <2>2. \A o \in Outputs : \/ writer'[o] = writer[o]
                           \/ writer[o] \in {"open", "ready"} /\ writer'[o] = "failed"
    BY <1>8 DEF Clean, Left, Discard, vars, Inv, TypeOK
  <2>3. Idle <=> Idle'
    BY <2>2 DEF Idle
  <2>4. LinkerType' /\ Guarded'
    BY <1>1, <1>2, <2>1, <2>3 DEF LinkerType, LinkerJobs, Guarded
  <2>5. \A i \in 1 .. Len(opened) :
           writer'[opened[i].file] = "published" <=> writer[opened[i].file] = "published"
    BY <1>4, <2>2
  <2>6. \A o \in Outputs \ Destinations : writer'[o] = "idle"
    BY <2>2 DEF Turns
  <2>7. job' = "done" => Left' = {}
    BY <2>1 DEF Left
  <2> QED
    BY <1>1, <1>3, <2>1, <2>3, <2>4, <2>5, <2>6, <2>7 DEF Turns, LinkerJobs
<1> QED
  BY <1>5, <1>6, <1>7, <1>8

\* Every step of the linker is a step of the batch that opens none.
LEMMA BatchStepOfLinker ==
    ASSUME LinkerInv, [LinkerNext]_linkerVars
    PROVE  [Next]_vars /\ NoBatch'
<1> USE DEF LinkerInv
<1>1. CASE \/ UNCHANGED linkerVars
           \/ Reading \/ AllStaged \/ AllPublished \/ GiveUpLink \/ (Clean /\ Left = {})
  <2>1. UNCHANGED vars
    BY <1>1, ReadingEffect DEF linkerVars, AllStaged, AllPublished, GiveUpLink, Clean
  <2> QED
    BY <2>1 DEF vars, commit, NoBatch
<1>2. CASE \/ OpenOutput \/ CloseOutput \/ WriteFails \/ PublishOutput \/ PublishFails
           \/ (Clean /\ Left # {})
  <2>1. PICK o \in Outputs : Open(o) \/ OpenFails(o) \/ Close(o) \/ Discard(o) \/ Publish(o)
    <3>1. CASE OpenOutput \/ CloseOutput \/ WriteFails \/ PublishOutput \/ PublishFails
      <4>1. current <= Len(opened) /\ job \in {"write", "publish"}
        BY <3>1 DEF OpenOutput, CloseOutput, WriteFails, PublishOutput, PublishFails, At
      <4>2. Output \in Outputs
        BY <4>1, OutputType DEF Guarded
      <4> QED
        BY <3>1, <4>2 DEF OpenOutput, CloseOutput, WriteFails, PublishOutput, PublishFails
    <3>2. CASE Clean /\ Left # {}
      BY <3>2 DEF Clean, Left
    <3> QED
      BY <1>2, <3>1, <3>2
  <2>2. Next
    BY <2>1 DEF Next, Writing
  <2>3. UNCHANGED <<phase, batching, stages, returned>>
    BY <2>1 DEF Open, OpenFails, Close, Discard, Publish, Collecting, commit
  <2> QED
    BY <2>2, <2>3 DEF NoBatch
<1> QED
  BY <1>1, <1>2 DEF LinkerNext, Reading

LEMMA LinkerInvStep == LinkerInv /\ [LinkerNext]_linkerVars => LinkerInv'
<1> SUFFICES ASSUME LinkerInv, [LinkerNext]_linkerVars PROVE LinkerInv'
  OBVIOUS
<1>1. (Inv /\ TempInv /\ NoBatch)'
  BY BatchStepOfLinker, InvStep, TempStep DEF LinkerInv, Inv
<1>2. (LinkerType /\ Guarded /\ Turns)'
  <2>1. CASE UNCHANGED linkerVars
    BY <2>1 DEF linkerVars, linkVars, linker, vars, LinkerInv, LinkerType, Guarded, Protected,
                Commands, Turns, Idle, Destinations, Left
  <2> QED
    BY <2>1, ReadingInv, WritingInv, TurningInv DEF LinkerNext, Reading
<1> QED
  BY <1>1, <1>2 DEF LinkerInv

LEMMA LinkerInvAlways == LinkerSpec => []LinkerInv
BY LinkerInvInit, LinkerInvStep, PTL DEF LinkerSpec

-----------------------------------------------------------------------------
(* What is on disk, and what the exit status says of it *)

\* A destination is new when its output was published, and else what it was.
LEMMA DiskIs ==
    ASSUME LinkerInv, NEW o \in Outputs
    PROVE  /\ before[o] # "new"
           /\ dest[o] = IF writer[o] = "published" THEN "new" ELSE before[o]
           /\ temp[o] # "none" => writer[o] \in {"open", "ready"}
<1>1. TypeOK /\ returned[o] = "nothing" /\ Staged = {}
  BY DEF LinkerInv, Inv, NoBatch, Staged
<1>2. Settled(o)
  BY <1>1 DEF LinkerInv, Inv, BatchInv
<1> QED
  BY <1>1, <1>2 DEF Settled, Replaced, Undamaged, TypeOK, LinkerInv, TempInv

\* The exit status tells what is on disk: with 0 every output is new; with 3 those
\* before the one that failed, in the order of the script, and no other; with 1
\* nothing has changed.  Before that nothing is published until everything is staged,
\* and no temporary stays behind (the loops at the end of main).
THEOREM StatusIsTrue == LinkerSpec => []StatusTellsDisk
<1>1. LinkerInv => StatusTellsDisk
  <2> SUFFICES ASSUME LinkerInv PROVE StatusTellsDisk
    OBVIOUS
  <2> USE DEF LinkerInv
  <2>1. ASSUME NEW o \in Outputs, dest[o] # before[o]
        PROVE  /\ o \in Destinations /\ dest[o] = "new"
               /\ \A p \in Destinations : writer[p] \in {"ready", "published"} \/ job \in {"cleanup", "done"}
    <3>1. writer[o] = "published" /\ dest[o] = "new"
      BY <2>1, DiskIs
    <3>2. o \in Destinations
      BY <3>1 DEF Turns
    <3>3. PICK i \in 1 .. Len(opened) : o = opened[i].file
      BY <3>2 DEF Destinations
    <3>4. job \in {"publish", "cleanup", "done"}
      <4>1. ~Idle
        BY <3>1 DEF Idle
      <4>2. job # "write"
        BY <3>1, <3>3 DEF Turns
      <4> QED
        BY <4>1, <4>2 DEF LinkerType, Turns
    <3>5. job = "publish" => \A p \in Destinations : writer[p] \in {"ready", "published"}
      BY DEF Turns, Destinations
    <3> QED
      BY <3>1, <3>2, <3>4, <3>5
  <2>2. ASSUME job = "done", NEW o \in Outputs PROVE temp[o] = "none"
    BY <2>2, DiskIs DEF Turns, Left
  <2>3. ASSUME job = "done", status = 0, NEW o \in Destinations PROVE dest[o] = "new"
    BY <2>3, DiskIs, OpenedType DEF Turns, Destinations
  <2>4. ASSUME job = "done", status = 1 PROVE dest = before
    <3>1. \A o \in Outputs : dest[o] = before[o]
      BY <2>4, DiskIs DEF Turns, Idle
    <3>2. dest \in [Outputs -> Contents] /\ before \in [Outputs -> {"absent", "old", "special"}]
      BY DEF Inv, TypeOK
    <3> QED
      BY <3>1, <3>2
  <2>5. ASSUME job = "done", status = 3
        PROVE  \E n \in 0..(Len(opened) - 1) : \A i \in 1..Len(opened) :
                  IF i <= n THEN dest[opened[i].file] = "new"
                  ELSE dest[opened[i].file] = before[opened[i].file]
    <3>1. PICK n \in 0 .. (Len(opened) - 1) : \A i \in 1 .. Len(opened) :
             writer[opened[i].file] = "published" <=> i <= n
      BY <2>5 DEF Turns
    <3>2. \A i \in 1 .. Len(opened) : IF i <= n THEN dest[opened[i].file] = "new"
                                     ELSE dest[opened[i].file] = before[opened[i].file]
      BY <3>1, DiskIs DEF LinkerType
    <3> QED
      BY <3>2
  <2>6. status \in {0, 1, 3}
    BY DEF LinkerType
  <2> QED
    BY <2>1, <2>2, <2>3, <2>4, <2>5, <2>6 DEF StatusTellsDisk
<1> QED
  BY <1>1, LinkerInvAlways, PTL

\* The script, the objects and the copied files are as they were, whatever the
\* commands name, and once something is written no two outputs are one file
\* (protect_outputs).
THEOREM InputsAreSafe == LinkerSpec => []InputsSurvive
<1>1. LinkerInv => InputsSurvive
  <2> SUFFICES ASSUME LinkerInv PROVE InputsSurvive
    OBVIOUS
  <2> USE DEF LinkerInv
  <2> DEFINE read == {script.name} \cup {c.file : c \in {k \in Range(Commands) : k.cmd \in {"LINK", "COPY"}}}
  <2>1. ASSUME NEW f \in read PROVE dest[f] = before[f] /\ temp[f] = "none"
    <3>1. f \in Outputs
      BY Files DEF LinkerType, Commands
    <3>2. writer[f] = "idle"
      <4>1. CASE Idle
        BY <3>1, <4>1 DEF Idle
      <4>2. CASE Protected
        <5>1. f \notin Destinations
          BY <4>2 DEF Protected, Destinations
        <5> QED
          BY <3>1, <5>1 DEF Turns
      <4> QED
        BY <4>1, <4>2 DEF Guarded
    <3> QED
      BY <3>1, <3>2, DiskIs
  <2>2. ASSUME job \in {"write", "publish"} PROVE Cardinality(Destinations) = Len(opened)
    <3> DEFINE name == [i \in 1 .. Len(opened) |-> opened[i].file]
    <3>1. Protected /\ Len(opened) \in Nat
      BY <2>2, OpenedType DEF Guarded
    <3>2. \A i, j \in 1 .. Len(opened) : name[i] = name[j] => i = j
      BY <3>1, EachAlone
    <3>3. name \in Bijection(1 .. Len(opened), Destinations)
      <4>1. name \in [1 .. Len(opened) -> Destinations]
        BY DEF Destinations
      <4>2. \A d \in Destinations : \E i \in 1 .. Len(opened) : name[i] = d
        BY DEF Destinations
      <4> QED
        BY <3>2, <4>1, <4>2 DEF Bijection, Injection, Surjection, IsInjective
    <3> QED
      BY <3>1, <3>3, FS_CountingElements DEF ExistsBijection
  <2> QED
    BY <2>1, <2>2 DEF InputsSurvive
<1> QED
  BY <1>1, LinkerInvAlways, PTL

\* Without a batch, too, a destination is never torn, and its old content is there
\* until the new file has replaced it: the linker inherits what holds of one output.
THEOREM LinkerKeepsTheGuarantees ==
    LinkerSpec => [](OldContentKept /\ NeverTorn /\ NothingLeftBehind)
<1>1. LinkerInv => OldContentKept /\ NeverTorn /\ NothingLeftBehind
  BY InvGuarantees, TempMeaning DEF LinkerInv
<1> QED
  BY <1>1, LinkerInvAlways, PTL

-----------------------------------------------------------------------------
(* Concatenation of many sequences *)

\* A nonempty set of naturals has a least member.
LEMMA LeastOf ==
    ASSUME NEW S \in SUBSET Nat, S # {}
    PROVE  \E i \in S : \A j \in S : i <= j
<1> DEFINE R == {ss \in Nat \X Nat : ss[1] < ss[2]}
<1>1. IsWellFoundedOn(R, Nat)
  BY NatLessThanWellFounded DEF OpToRel
<1> HIDE DEF R
<1>2. PICK i \in S : \A j \in S : ~(<<j, i>> \in R)
  BY <1>1, WFMin
<1>3. ASSUME NEW j \in S, j < i PROVE FALSE
  BY <1>2, <1>3 DEF R
<1> QED
  BY <1>2, <1>3

\* Induction over a set: what holds of 0 and of a successor holds of every natural.
LEMMA Ascend ==
    ASSUME NEW S, 0 \in S, \A n \in Nat : n \in S => n + 1 \in S
    PROVE  Nat \subseteq S
<1> SUFFICES ASSUME Nat \ S # {} PROVE FALSE
  OBVIOUS
<1>1. PICK n \in Nat \ S : \A m \in Nat \ S : n <= m
  BY LeastOf
<1>2. n # 0 /\ n - 1 \in Nat /\ n - 1 \in S /\ (n - 1) + 1 = n
  BY <1>1
<1> QED
  BY <1>1, <1>2

LEMMA MembersOf ==
    ASSUME NEW S, NEW s \in Seq(S)
    PROVE  Len(s) \in Nat /\ \A i \in 1 .. Len(s) : s[i] \in S
BY LenProperties

LEMMA Regroup ==
    \A A : \A p, q, r \in Seq(A) : (p \o q) \o r = p \o (q \o r)
BY ConcatAssociative

\* The sums that end with the concatenation of a sequence of sequences.
Sums(s, g) == \A i \in 1 .. Len(s) : g[i] = g[i - 1] \o s[i]

LEMMA FlattenIs ==
    ASSUME NEW T, NEW s \in Seq(Seq(T)), NEW g \in [0 .. Len(s) -> Seq(T)], g[0] = <<>>, Sums(s, g)
    PROVE  FlattenSeq(s) = g[Len(s)]
<1> DEFINE n == Len(s)
           E(f) == [i \in 1 .. n |-> IF i = 1 THEN s[i] ELSE f[i - 1] \o s[i]]
           flatten == CHOOSE f : f = E(f)
           h == [i \in 1 .. n |-> g[i]]
<1>1. /\ n \in Nat
      /\ \A i \in 1 .. n : s[i] \in Seq(T)
      /\ \A i \in 1 .. n : g[i] = g[i - 1] \o s[i]
  BY MembersOf DEF Sums
<1> HIDE DEF n
<1>2. \A i \in 1 .. n : i # 1 => i - 1 \in 1 .. n
  BY <1>1
<1>3. n # 0 => g[1] = s[1]
  <2> SUFFICES ASSUME n # 0 PROVE g[1] = s[1]
    OBVIOUS
  <2>1. 1 \in 1 .. n /\ 1 - 1 = 0
    BY <1>1
  <2>2. g[1] = <<>> \o s[1] /\ s[1] \in Seq(T)
    BY <1>1, <2>1
  <2> QED
    BY <2>2, ConcatEmptySeq
<1>4. h = E(h)
  <2>1. ASSUME NEW i \in 1 .. n PROVE g[i] = IF i = 1 THEN s[i] ELSE h[i - 1] \o s[i]
    <3>1. CASE i = 1
      BY <1>3, <2>1, <3>1
    <3>2. CASE i # 1
      <4>1. i - 1 \in 1 .. n
        BY <1>2, <2>1, <3>2
      <4>2. h[i - 1] = g[i - 1]
        BY <4>1
      <4> QED
        BY <1>1, <2>1, <3>2, <4>2
    <3> QED
      BY <3>1, <3>2
  <2> QED
    BY <2>1
<1>5. flatten = E(flatten)
  <2> HIDE DEF E, h
  <2> QED
    BY <1>4
<1>6. \A i \in 1 .. n : flatten[i] = IF i = 1 THEN s[i] ELSE flatten[i - 1] \o s[i]
  <2> HIDE DEF flatten
  <2> QED
    BY <1>5
<1>7. CASE n = 0
  <2>1. s = <<>>
    BY <1>7, EmptySeq DEF n
  <2> QED
    BY <1>7, <2>1 DEF FlattenSeq, n
<1>8. CASE n # 0
  <2> HIDE DEF flatten
  <2> DEFINE D == {i \in 1 .. n : flatten[i] # g[i]}
  <2>1. D = {}
    <3> SUFFICES ASSUME D # {} PROVE FALSE
      OBVIOUS
    <3>1. D \in SUBSET Nat
      BY <1>1
    <3>2. PICK i \in D : \A j \in D : i <= j
      <4> HIDE DEF D
      <4> QED
        BY <3>1, LeastOf
    <3>3. i \in 1 .. n /\ flatten[i] # g[i]
      OBVIOUS
    <3>4. i # 1
      BY <1>3, <1>6, <1>8, <3>3
    <3>5. i - 1 \in 1 .. n /\ ~(i <= i - 1)
      BY <1>2, <3>3, <3>4
    <3>51. i - 1 \notin D
      BY <3>2, <3>5
    <3>6. flatten[i - 1] = g[i - 1]
      BY <3>5, <3>51
    <3>7. flatten[i] = flatten[i - 1] \o s[i]
      BY <1>6, <3>3, <3>4
    <3>8. g[i] = g[i - 1] \o s[i]
      BY <1>1, <3>3
    <3> QED
      BY <3>3, <3>6, <3>7, <3>8
  <2>2. flatten[n] = g[n]
    BY <1>1, <1>8, <2>1
  <2>3. FlattenSeq(s) = flatten[n]
    BY <1>8 DEF FlattenSeq, flatten, n
  <2> QED
    BY <2>2, <2>3 DEF n
<1> QED
  BY <1>7, <1>8

LEMMA SumsExist ==
    ASSUME NEW T, NEW s \in Seq(Seq(T))
    PROVE  \E g \in [0 .. Len(s) -> Seq(T)] : g[0] = <<>> /\ Sums(s, g)
<1> DEFINE Upto(n) == \E g \in [0 .. n -> Seq(T)] : g[0] = <<>> /\ \A i \in 1 .. n : g[i] = g[i - 1] \o s[i]
           S == {n \in Nat : n <= Len(s) => Upto(n)}
<1>0. Len(s) \in Nat /\ \A i \in 1 .. Len(s) : s[i] \in Seq(T)
  BY MembersOf
<1>1. Upto(0)
  <2> DEFINE g == [i \in 0 .. 0 |-> <<>>]
  <2>1. g \in [0 .. 0 -> Seq(T)] /\ g[0] = <<>>
    BY EmptySeq
  <2>2. \A i \in 1 .. 0 : g[i] = g[i - 1] \o s[i]
    OBVIOUS
  <2> HIDE DEF g
  <2> QED
    BY <2>1, <2>2
<1>2. ASSUME NEW n \in Nat, n + 1 <= Len(s), Upto(n) PROVE Upto(n + 1)
  <2>1. PICK g \in [0 .. n -> Seq(T)] : g[0] = <<>> /\ \A i \in 1 .. n : g[i] = g[i - 1] \o s[i]
    BY <1>2
  <2>2. n + 1 \in 1 .. Len(s) /\ g[n] \in Seq(T) /\ s[n + 1] \in Seq(T)
    BY <1>0, <1>2
  <2>3. g[n] \o s[n + 1] \in Seq(T)
    BY <2>2, ConcatProperties
  <2> DEFINE w == g[n] \o s[n + 1]
             h == [i \in 0 .. (n + 1) |-> IF i = n + 1 THEN w ELSE g[i]]
  <2>4. w \in Seq(T) /\ w = g[n] \o s[n + 1]
    BY <2>3
  <2> HIDE DEF w
  <2>5. h \in [0 .. (n + 1) -> Seq(T)]
    BY <2>4
  <2>6. h[n + 1] = w /\ \A i \in 0 .. n : h[i] = g[i]
    OBVIOUS
  <2>61. h[0] = <<>> /\ h[n] = g[n]
    BY <2>1, <2>6
  <2> HIDE DEF h
  <2>7. \A i \in 1 .. n + 1 : h[i] = h[i - 1] \o s[i]
    <3> SUFFICES ASSUME NEW i \in 1 .. n + 1 PROVE h[i] = h[i - 1] \o s[i]
      OBVIOUS
    <3>1. CASE i = n + 1
      <4>1. i - 1 = n
        BY <3>1
      <4> QED
        BY <2>4, <2>6, <2>61, <3>1, <4>1
    <3>2. CASE i \in 1 .. n
      <4>1. i \in 0 .. n /\ i - 1 \in 0 .. n
        BY <3>2
      <4>2. h[i] = g[i] /\ h[i - 1] = g[i - 1] /\ g[i] = g[i - 1] \o s[i]
        BY <2>1, <2>6, <3>2, <4>1
      <4> QED
        BY <4>2
    <3>3. i = n + 1 \/ i \in 1 .. n
      OBVIOUS
    <3> QED
      BY <3>1, <3>2, <3>3
  <2> QED
    BY <2>5, <2>61, <2>7
<1> HIDE DEF Upto
<1>3. 0 \in S
  BY <1>1
<1>4. \A n \in Nat : n \in S => n + 1 \in S
  <2> SUFFICES ASSUME NEW n \in Nat, n \in S, n + 1 <= Len(s) PROVE Upto(n + 1)
    OBVIOUS
  <2>1. Upto(n)
    BY <1>0
  <2> QED
    BY <1>2, <2>1
<1> HIDE DEF S
<1>5. Len(s) \in S
  BY <1>0, <1>3, <1>4, Ascend
<1>6. Upto(Len(s))
  BY <1>0, <1>5 DEF S
<1> QED
  BY <1>6 DEF Upto, Sums

\* Nothing comes of nothing, and one more sequence is added at the end.
LEMMA FlattenAppend ==
    ASSUME NEW T, NEW s \in Seq(Seq(T)), NEW x \in Seq(T)
    PROVE  /\ FlattenSeq(<<>>) = <<>>
           /\ FlattenSeq(s) \in Seq(T)
           /\ FlattenSeq(Append(s, x)) = FlattenSeq(s) \o x
<1>0. Len(s) \in Nat /\ \A i \in 1 .. Len(s) : s[i] \in Seq(T)
  BY MembersOf
<1>1. FlattenSeq(<<>>) = <<>>
  BY DEF FlattenSeq
<1>2. PICK g \in [0 .. Len(s) -> Seq(T)] : g[0] = <<>> /\ Sums(s, g)
  BY SumsExist
<1> DEFINE n == Len(s)
           t == Append(s, x)
<1>3. FlattenSeq(s) = g[n] /\ g[n] \in Seq(T)
  BY <1>0, <1>2, FlattenIs
<1>4. g[n] \o x \in Seq(T)
  BY <1>3, ConcatProperties
<1>5. t \in Seq(Seq(T)) /\ Len(t) = n + 1 /\ t[n + 1] = x /\ \A i \in 1 .. n : t[i] = s[i]
  BY AppendProperties
<1> DEFINE w == g[n] \o x
           h == [i \in 0 .. (n + 1) |-> IF i = n + 1 THEN w ELSE g[i]]
<1>6. w \in Seq(T) /\ w = g[n] \o x
  BY <1>4
<1> HIDE DEF w, t
<1>7. h \in [0 .. Len(t) -> Seq(T)]
  BY <1>0, <1>5, <1>6
<1>8. h[0] = <<>> /\ h[n + 1] = w /\ \A i \in 0 .. n : h[i] = g[i]
  BY <1>0, <1>2
<1>9. Sums(t, h)
  <2> SUFFICES ASSUME NEW i \in 1 .. n + 1 PROVE h[i] = h[i - 1] \o t[i]
    BY <1>5 DEF Sums
  <2>1. CASE i = n + 1
    <3>1. i - 1 = n /\ n \in 0 .. n
      BY <1>0, <2>1
    <3> QED
      BY <1>5, <1>6, <1>8, <2>1, <3>1
  <2>2. CASE i \in 1 .. n
    <3>1. i \in 0 .. n /\ i - 1 \in 0 .. n
      BY <1>0, <2>2
    <3> QED
      BY <1>2, <1>5, <1>8, <2>2, <3>1 DEF Sums
  <2>3. i = n + 1 \/ i \in 1 .. n
    BY <1>0
  <2> QED
    BY <2>1, <2>2, <2>3
<1>10. FlattenSeq(t) = h[n + 1]
  <2> HIDE DEF h
  <2> QED
    BY <1>5, <1>7, <1>8, <1>9, FlattenIs
<1> QED
  BY <1>1, <1>3, <1>6, <1>8, <1>10 DEF t

\* Two sequences of sequences, one after the other.
LEMMA FlattenConcat ==
    ASSUME NEW T, NEW s \in Seq(Seq(T)), NEW t \in Seq(Seq(T))
    PROVE  FlattenSeq(s \o t) = FlattenSeq(s) \o FlattenSeq(t)
<1>1. PICK g \in [0 .. Len(s) -> Seq(T)] : g[0] = <<>> /\ Sums(s, g)
  BY SumsExist
<1>2. PICK h \in [0 .. Len(t) -> Seq(T)] : h[0] = <<>> /\ Sums(t, h)
  BY SumsExist
<1> DEFINE m == Len(s)
           n == Len(t)
           a == g[m]
           u == s \o t
           k == [i \in 0 .. (m + n) |-> IF i <= m THEN g[i] ELSE a \o h[i - m]]
<1>3. m \in Nat /\ n \in Nat /\ a \in Seq(T) /\ \A i \in 0 .. n : h[i] \in Seq(T)
  <2>1. m \in Nat /\ n \in Nat
    BY MembersOf
  <2>2. m \in 0 .. m
    BY <2>1
  <2> QED
    BY <2>1, <2>2
<1>4. FlattenSeq(s) = a /\ FlattenSeq(t) = h[n]
  BY <1>1, <1>2, FlattenIs
<1>5. u \in Seq(Seq(T)) /\ Len(u) = m + n /\ \A i \in 1 .. m + n : u[i] = IF i <= m THEN s[i] ELSE t[i - m]
  BY ConcatProperties
<1>6. \A i \in 0 .. n : a \o h[i] \in Seq(T)
  BY <1>3, ConcatProperties
<1>7. a \o h[0] = a
  BY <1>2, <1>3, ConcatEmptySeq
<1>8. k \in [0 .. (m + n) -> Seq(T)] /\ k[0] = <<>>
  <2>1. ASSUME NEW i \in 0 .. (m + n), ~(i <= m) PROVE a \o h[i - m] \in Seq(T)
    <3>1. i - m \in 0 .. n
      BY <1>3, <2>1
    <3> QED
      BY <1>6, <3>1
  <2>2. ASSUME NEW i \in 0 .. (m + n), i <= m PROVE g[i] \in Seq(T)
    <3>1. i \in 0 .. m
      BY <1>3, <2>2
    <3> QED
      BY <3>1
  <2>3. 0 \in 0 .. (m + n) /\ 0 <= m
    BY <1>3
  <2>4. k[0] = <<>>
    BY <1>1, <2>3
  <2> HIDE DEF a, m, n
  <2>5. k \in [0 .. (m + n) -> Seq(T)]
    BY <2>1, <2>2
  <2> QED
    BY <2>4, <2>5
<1>9. \A i \in 1 .. n : h[i] = h[i - 1] \o t[i] /\ t[i] \in Seq(T) /\ h[i - 1] \in Seq(T)
  <2> SUFFICES ASSUME NEW i \in 1 .. n
               PROVE h[i] = h[i - 1] \o t[i] /\ t[i] \in Seq(T) /\ h[i - 1] \in Seq(T)
    OBVIOUS
  <2>1. i - 1 \in 0 .. n
    BY <1>3
  <2>2. t[i] \in Seq(T)
    BY MembersOf
  <2> QED
    BY <1>2, <1>3, <2>1, <2>2 DEF Sums
<1>10. Sums(u, k)
  <2> SUFFICES ASSUME NEW i \in 1 .. m + n PROVE k[i] = k[i - 1] \o u[i]
    BY <1>5 DEF Sums
  <2> HIDE DEF a, u
  <2>0. i \in 0 .. (m + n) /\ i - 1 \in 0 .. (m + n)
    BY <1>3
  <2>1. CASE i <= m
    <3>1. k[i] = g[i] /\ k[i - 1] = g[i - 1] /\ u[i] = s[i] /\ i \in 1 .. m
      BY <1>3, <1>5, <2>0, <2>1
    <3> QED
      BY <1>1, <3>1 DEF Sums
  <2>2. CASE i > m
    <3> DEFINE j == i - m
    <3>1. j \in 1 .. n /\ i - 1 - m = j - 1 /\ ~(i <= m)
      BY <1>3, <2>2
    <3>2. k[i] = a \o h[j] /\ u[i] = t[j]
      BY <1>5, <2>0, <3>1
    <3>3. k[i - 1] = a \o h[j - 1]
      <4>1. CASE i - 1 <= m
        <5>1. i - 1 = m /\ j - 1 = 0
          BY <1>3, <2>2, <4>1, SMTT(30)
        <5>2. k[m] = a
          BY <1>3, <2>0, <5>1 DEF a
        <5> QED
          BY <1>7, <5>1, <5>2
      <4>2. CASE ~(i - 1 <= m)
        BY <2>0, <3>1, <4>2
      <4> QED
        BY <4>1, <4>2
    <3> HIDE DEF j, k
    <3>4. a \o h[j] = (a \o h[j - 1]) \o t[j]
      <4>1. h[j] = h[j - 1] \o t[j] /\ t[j] \in Seq(T) /\ h[j - 1] \in Seq(T)
        BY <1>9, <3>1
      <4> QED
        <5> DEFINE x == h[j - 1]
                   y == t[j]
        <5>1. a \in Seq(T) /\ x \in Seq(T) /\ y \in Seq(T)
          BY <1>3, <4>1
        <5>2. h[j] = x \o y
          BY <4>1
        <5> HIDE DEF x, y
        <5>3. \A r \in Seq(T) : (a \o x) \o r = a \o (x \o r)
          <6>1. \A p, q, r \in Seq(T) : (p \o q) \o r = p \o (q \o r)
            BY Regroup, SMTT(30)
          <6> QED
            BY <5>1, <6>1
        <5>4. (a \o x) \o y = a \o (x \o y)
          BY <5>1, <5>3
        <5> QED
          BY <5>2, <5>4 DEF x, y
    <3> QED
      BY <3>2, <3>3, <3>4
  <2>3. i <= m \/ i > m
    BY <1>3
  <2> QED
    BY <2>1, <2>2, <2>3
<1>11. FlattenSeq(u) = k[m + n]
  <2> HIDE DEF k, u
  <2> QED
    BY <1>5, <1>8, <1>10, FlattenIs
<1>12. k[m + n] = a \o h[n]
  <2>1. CASE n = 0
    BY <1>3, <1>7, <2>1
  <2>2. CASE n # 0
    <3>1. ~(m + n <= m) /\ m + n - m = n /\ m + n \in 0 .. (m + n)
      BY <1>3, <2>2
    <3> QED
      BY <3>1
  <2> QED
    BY <2>1, <2>2
<1> QED
  BY <1>4, <1>11, <1>12

\* Empty sequences add nothing.
LEMMA FlattenEmpty ==
    ASSUME NEW s, NEW n \in Nat, s = [i \in 1 .. n |-> <<>>]
    PROVE  FlattenSeq(s) = <<>>
<1> DEFINE T == {}
           g == [i \in 0 .. n |-> <<>>]
<1>1. <<>> \in Seq(T) /\ <<>> \o <<>> = <<>>
  BY EmptySeq, ConcatEmptySeq
<1>2. s \in Seq(Seq(T)) /\ Len(s) = n
  BY <1>1
<1>3. g \in [0 .. n -> Seq(T)] /\ g[0] = <<>> /\ Sums(s, g)
  BY <1>1, <1>2 DEF Sums
<1> HIDE DEF g
<1>4. FlattenSeq(s) = g[n]
  BY <1>2, <1>3, FlattenIs
<1> QED
  BY <1>4 DEF g

-----------------------------------------------------------------------------
(* What fragments hold *)

Item == Nat \X Nat \X Nat

\* Fragments, each with its items; and all their items, in order.
Pieced(s)  == \E T : s \in Seq(T) /\ \A e \in T : e.items \in Seq(Item)
ItemsOf(s) == FlattenSeq([k \in 1 .. Len(s) |-> s[k].items])

LEMMA PiecedIs ==
    ASSUME NEW s, Pieced(s)
    PROVE  /\ Len(s) \in Nat /\ \A k \in 1 .. Len(s) : s[k].items \in Seq(Item)
           /\ [k \in 1 .. Len(s) |-> s[k].items] \in Seq(Seq(Item))
           /\ Len([k \in 1 .. Len(s) |-> s[k].items]) = Len(s)
           /\ ItemsOf(s) \in Seq(Item)
<1>1. PICK T : s \in Seq(T) /\ \A e \in T : e.items \in Seq(Item)
  BY DEF Pieced
<1>2. Len(s) \in Nat /\ \A k \in 1 .. Len(s) : s[k] \in T
  BY <1>1, MembersOf
<1> DEFINE n == Len(s)
           w == [k \in 1 .. n |-> s[k].items]
<1>3. \A k \in 1 .. n : s[k].items \in Seq(Item)
  BY <1>1, <1>2
<1>4. w \in Seq(Seq(Item)) /\ Len(w) = n
  <2> HIDE DEF n
  <2> QED
    BY <1>2, <1>3 DEF n
<1> HIDE DEF w
<1>5. FlattenSeq(w) \in Seq(Item)
  BY <1>4, EmptySeq, FlattenAppend
<1> QED
  BY <1>2, <1>3, <1>4, <1>5 DEF ItemsOf, w

LEMMA PiecedMade ==
    ASSUME NEW n \in Nat, NEW s, s \in [1 .. n -> {s[k] : k \in 1 .. n}],
           \A k \in 1 .. n : s[k].items \in Seq(Item)
    PROVE  Pieced(s) /\ Len(s) = n
<1> DEFINE T == {s[k] : k \in 1 .. n}
<1>1. s \in Seq(T)
  OBVIOUS
<1>2. \A e \in T : e.items \in Seq(Item)
  OBVIOUS
<1>3. Len(s) = n
  OBVIOUS
<1> QED
  BY <1>1, <1>2, <1>3 DEF Pieced

LEMMA PiecedConcat ==
    ASSUME NEW s, Pieced(s), NEW t, Pieced(t)
    PROVE  /\ Pieced(s \o t) /\ Len(s \o t) = Len(s) + Len(t)
           /\ \A k \in 1 .. Len(s) + Len(t) : (s \o t)[k] = IF k <= Len(s) THEN s[k] ELSE t[k - Len(s)]
           /\ ItemsOf(s \o t) = ItemsOf(s) \o ItemsOf(t)
<1>1. PICK T : s \in Seq(T) /\ \A e \in T : e.items \in Seq(Item)
  BY DEF Pieced
<1>2. PICK U : t \in Seq(U) /\ \A e \in U : e.items \in Seq(Item)
  BY DEF Pieced
<1> DEFINE A == T \cup U
           u == s \o t
           m == Len(s)
           n == Len(t)
           ws == [k \in 1 .. m |-> s[k].items]
           wt == [k \in 1 .. n |-> t[k].items]
<1>3. s \in Seq(A) /\ t \in Seq(A)
  BY <1>1, <1>2, SeqMonotonic
<1>4. \A e \in A : e.items \in Seq(Item)
  BY <1>1, <1>2
<1> HIDE DEF A
<1>5. m \in Nat /\ n \in Nat
  BY <1>3, MembersOf
<1>6. u \in Seq(A) /\ Len(u) = m + n /\ \A k \in 1 .. m + n : u[k] = IF k <= m THEN s[k] ELSE t[k - m]
  BY <1>3, ConcatProperties
<1> HIDE DEF u
<1>7. /\ ws \in Seq(Seq(Item)) /\ Len(ws) = m
      /\ wt \in Seq(Seq(Item)) /\ Len(wt) = n
  BY PiecedIs
<1>8. \A k \in 1 .. m : ws[k] = s[k].items
  OBVIOUS
<1>9. \A k \in 1 .. n : wt[k] = t[k].items
  OBVIOUS
<1> DEFINE wu == [k \in 1 .. m + n |-> u[k].items]
<1> HIDE DEF ws, wt, m, n
<1>10. wu = ws \o wt
  <2> DEFINE S == Seq(Item)
             v == ws \o wt
  <2>1. v \in Seq(S) /\ Len(v) = m + n
        /\ \A k \in 1 .. m + n : v[k] = IF k <= m THEN ws[k] ELSE wt[k - m]
    BY <1>7, ConcatProperties
  <2>2. ASSUME NEW k \in 1 .. m + n PROVE wu[k] = v[k]
    <3>1. CASE k <= m
      <4>1. k \in 1 .. m
        BY <1>5, <3>1
      <4> QED
        BY <1>6, <1>8, <2>1, <3>1, <4>1
    <3>2. CASE ~(k <= m)
      <4>1. k - m \in 1 .. n
        BY <1>5, <3>2
      <4> QED
        BY <1>6, <1>9, <2>1, <3>2, <4>1
    <3> QED
      BY <3>1, <3>2
  <2> HIDE DEF v
  <2>3. v \in [1 .. m + n -> S] /\ wu \in [1 .. m + n -> {wu[k] : k \in 1 .. m + n}]
    BY <1>5, <2>1, LenProperties
  <2>4. v = wu
    BY <2>2, <2>3
  <2> QED
    BY <2>4 DEF v
<1>11. FlattenSeq(wu) = FlattenSeq(ws) \o FlattenSeq(wt)
  BY <1>7, <1>10, FlattenConcat
<1>12. Pieced(u)
  BY <1>4, <1>6 DEF Pieced
<1> QED
  BY <1>6, <1>11, <1>12 DEF ItemsOf, u, ws, wt, wu, m, n

\* The items of a run are numbered on.
LEMMA ItemsAre ==
    ASSUME NEW i \in Nat, NEW f \in Nat, NEW a \in Nat, NEW b \in Nat, a <= b
    PROVE  /\ Items(i, f, a + 1, b) \in Seq(Item)
           /\ Items(i, f, 1, a) \in Seq(Item)
           /\ Items(i, f, 1, 0) = <<>>
           /\ Items(i, f, 1, a) \o Items(i, f, a + 1, b) = Items(i, f, 1, b)
<1> DEFINE p == Items(i, f, 1, a)
           q == Items(i, f, a + 1, b)
           r == Items(i, f, 1, b)
<1>1. p = [k \in 1 .. a |-> <<i, f, k>>]
  <2>1. (IF a < 1 THEN 0 ELSE a - 1 + 1) = a /\ \A k \in 1 .. a : 1 + k - 1 = k
    OBVIOUS
  <2> QED
    BY <2>1 DEF Items
<1>2. r = [k \in 1 .. b |-> <<i, f, k>>]
  <2>1. (IF b < 1 THEN 0 ELSE b - 1 + 1) = b /\ \A k \in 1 .. b : 1 + k - 1 = k
    OBVIOUS
  <2> QED
    BY <2>1 DEF Items
<1>3. q = [k \in 1 .. (b - a) |-> <<i, f, a + k>>]
  <2>1. (IF b < a + 1 THEN 0 ELSE b - (a + 1) + 1) = b - a /\ \A k \in 1 .. b - a : a + 1 + k - 1 = a + k
    OBVIOUS
  <2> QED
    BY <2>1 DEF Items
<1>4. Items(i, f, 1, 0) = <<>>
  BY DEF Items
<1> HIDE DEF p, q, r
<1>5. p \in Seq(Item) /\ Len(p) = a
  <2>1. \A k \in 1 .. a : <<i, f, k>> \in Item
    BY DEF Item
  <2> QED
    BY <1>1, <2>1
<1>6. q \in Seq(Item) /\ Len(q) = b - a
  <2> DEFINE c == b - a
  <2>1. c \in Nat /\ \A k \in 1 .. c : <<i, f, a + k>> \in Item
    BY DEF Item
  <2>2. q = [k \in 1 .. c |-> <<i, f, a + k>>]
    BY <1>3
  <2> HIDE DEF c
  <2>3. q \in [1 .. c -> Item]
    BY <2>1, <2>2
  <2>4. q \in Seq(Item) /\ Len(q) = c
    BY <2>1, <2>3
  <2> QED
    BY <2>4 DEF c
<1>7. r \in Seq(Item) /\ Len(r) = b
  <2>1. \A k \in 1 .. b : <<i, f, k>> \in Item
    BY DEF Item
  <2> QED
    BY <1>2, <2>1
<1>8. p \o q = r
  <2> DEFINE v == p \o q
  <2>1. v \in Seq(Item) /\ Len(v) = b
        /\ \A k \in 1 .. b : v[k] = IF k <= a THEN p[k] ELSE q[k - a]
    BY <1>5, <1>6, ConcatProperties
  <2>2. ASSUME NEW k \in 1 .. b PROVE v[k] = r[k]
    <3>1. CASE k <= a
      <4>1. k \in 1 .. a
        BY <3>1
      <4> QED
        BY <1>1, <1>2, <2>1, <3>1, <4>1
    <3>2. CASE ~(k <= a)
      <4>1. k - a \in 1 .. b - a /\ a + (k - a) = k
        BY <3>2
      <4> QED
        BY <1>2, <1>3, <2>1, <3>2, <4>1
    <3> QED
      BY <3>1, <3>2
  <2> HIDE DEF v
  <2>3. v = r
    BY <1>7, <2>1, <2>2, SeqEqual
  <2> QED
    BY <2>3 DEF v
<1> QED
  BY <1>4, <1>5, <1>6, <1>8 DEF p, q, r

\* Fragments without items.
LEMMA NoItems ==
    ASSUME NEW s, Len(s) \in Nat, \A k \in 1 .. Len(s) : s[k].items = <<>>
    PROVE  ItemsOf(s) = <<>>
<1>1. [k \in 1 .. Len(s) |-> s[k].items] = [k \in 1 .. Len(s) |-> <<>>]
  OBVIOUS
<1> QED
  BY <1>1, FlattenEmpty DEF ItemsOf

LEMMA OneItem ==
    ASSUME NEW e, e.items \in Seq(Item)
    PROVE  Pieced(<<e>>) /\ Len(<<e>>) = 1 /\ ItemsOf(<<e>>) = e.items
<1> DEFINE s == <<e>>
<1>1. s \in [1 .. 1 -> {s[k] : k \in 1 .. 1}] /\ Len(s) = 1 /\ \A k \in 1 .. 1 : s[k] = e
  OBVIOUS
<1>2. Pieced(s)
  BY <1>1, PiecedMade
<1>3. [k \in 1 .. Len(s) |-> s[k].items] = <<e.items>>
  OBVIOUS
<1>4. <<e.items>> = Append(<<>>, e.items) /\ <<>> \in Seq(Seq(Item))
  BY EmptySeq
<1>5. FlattenSeq(<<e.items>>) = <<>> \o e.items
  BY <1>4, FlattenAppend
<1>6. <<>> \o e.items = e.items
  BY ConcatEmptySeq
<1> QED
  BY <1>1, <1>2, <1>3, <1>5, <1>6 DEF ItemsOf

\* Groups of fragments hold what their groups hold, one after the other.
LEMMA GroupsHold ==
    ASSUME NEW T, \A e \in T : e.items \in Seq(Item), NEW P \in Seq(Seq(T)),
           NEW w \in Seq(Seq(Item)), Len(w) = Len(P), \A k \in 1 .. Len(P) : ItemsOf(P[k]) = w[k]
    PROVE  Pieced(FlattenSeq(P)) /\ ItemsOf(FlattenSeq(P)) = FlattenSeq(w)
<1>1. PICK g \in [0 .. Len(P) -> Seq(T)] : g[0] = <<>> /\ Sums(P, g)
  BY SumsExist
<1> DEFINE n == Len(P)
           h == [k \in 0 .. n |-> ItemsOf(g[k])]
<1>2. n \in Nat /\ \A k \in 1 .. n : P[k] \in Seq(T)
  BY MembersOf
<1>3. FlattenSeq(P) = g[n]
  BY <1>1, FlattenIs
<1>4. \A k \in 0 .. n : g[k] \in Seq(T) /\ Pieced(g[k])
  BY DEF Pieced
<1>5. \A k \in 1 .. n : Pieced(P[k])
  BY <1>2 DEF Pieced
<1>6. h \in [0 .. Len(w) -> Seq(Item)]
  BY <1>4, PiecedIs
<1>7. h[0] = <<>>
  <2>1. ItemsOf(<<>>) = <<>>
    BY NoItems
  <2>2. 0 \in 0 .. n
    BY <1>2
  <2> QED
    BY <1>1, <2>1, <2>2
<1>8. Sums(w, h)
  <2> SUFFICES ASSUME NEW k \in 1 .. n PROVE h[k] = h[k - 1] \o w[k]
    BY DEF Sums
  <2>1. k \in 0 .. n /\ k - 1 \in 0 .. n
    BY <1>2
  <2>2. g[k] = g[k - 1] \o P[k]
    BY <1>1 DEF Sums
  <2>3. ItemsOf(g[k - 1] \o P[k]) = ItemsOf(g[k - 1]) \o ItemsOf(P[k])
    BY <1>4, <1>5, <2>1, PiecedConcat
  <2>4. ItemsOf(P[k]) = w[k]
    OBVIOUS
  <2> QED
    BY <2>1, <2>2, <2>3, <2>4
<1> HIDE DEF h
<1>9. FlattenSeq(w) = h[n]
  BY <1>6, <1>7, <1>8, FlattenIs
<1>10. n \in 0 .. n
  BY <1>2
<1> QED
  BY <1>3, <1>4, <1>9, <1>10 DEF h

-----------------------------------------------------------------------------
(* The marks of a fragment, and its pieces *)

\* In a strict order of a finite set every rank below its size is taken once.
LEMMA RankIs ==
    ASSUME NEW H, IsFiniteSet(H), NEW R,
           \A x \in H : <<x, x>> \notin R,
           \A x, y, z \in H : <<x, y>> \in R /\ <<y, z>> \in R => <<x, z>> \in R,
           \A x, y \in H : x = y \/ <<x, y>> \in R \/ <<y, x>> \in R,
           NEW rank, \A x \in H : rank[x] = Cardinality({y \in H : <<y, x>> \in R})
    PROVE  /\ Cardinality(H) \in Nat
           /\ \A k \in 1 .. Cardinality(H) : \E x \in H : rank[x] = k - 1
           /\ \A x, y \in H : rank[x] < rank[y] => <<x, y>> \in R
<1> DEFINE n == Cardinality(H)
           Below(x) == {y \in H : <<y, x>> \in R}
<1>1. n \in Nat
  BY FS_CardinalityType
<1>2. ASSUME NEW x \in H PROVE /\ IsFiniteSet(Below(x)) /\ rank[x] = Cardinality(Below(x))
                               /\ rank[x] \in Nat /\ rank[x] < n
  <2>1. Below(x) \in SUBSET H /\ Below(x) # H
    OBVIOUS
  <2>2. rank[x] = Cardinality(Below(x))
    OBVIOUS
  <2> DEFINE B == Below(x)
  <2> HIDE DEF Below
  <2>0. B \in SUBSET H /\ B # H
    BY <2>1
  <2> HIDE DEF B
  <2>3. IsFiniteSet(B) /\ Cardinality(B) <= n /\ Cardinality(B) # n
    BY <2>0, FS_Subset
  <2>4. Cardinality(B) \in Nat
    BY <2>3, FS_CardinalityType
  <2>5. rank[x] = Cardinality(B)
    BY <2>2 DEF B
  <2>6. rank[x] \in Nat /\ rank[x] < n
    BY <1>1, <2>3, <2>4, <2>5
  <2> QED
    BY <2>2, <2>3, <2>6 DEF B
<1>3. ASSUME NEW x \in H, NEW y \in H, <<x, y>> \in R PROVE rank[x] < rank[y]
  <2>1. Below(x) \in SUBSET Below(y) /\ x \in Below(y) /\ x \notin Below(x)
    BY <1>3
  <2>2. /\ IsFiniteSet(Below(y)) /\ rank[y] = Cardinality(Below(y)) /\ rank[y] \in Nat
        /\ rank[x] = Cardinality(Below(x)) /\ rank[x] \in Nat
    BY <1>2
  <2> DEFINE B == Below(x)
             C == Below(y)
  <2>3. B \in SUBSET C /\ B # C /\ IsFiniteSet(C)
    BY <2>1, <2>2
  <2> HIDE DEF B, C
  <2>4. Cardinality(B) <= Cardinality(C) /\ Cardinality(B) # Cardinality(C)
    BY <2>3, FS_Subset
  <2>5. rank[x] = Cardinality(B) /\ rank[y] = Cardinality(C) /\ rank[x] \in Nat /\ rank[y] \in Nat
    BY <2>2 DEF B, C
  <2> QED
    BY <2>4, <2>5
<1>4. \A x, y \in H : rank[x] < rank[y] => <<x, y>> \in R
  <2> SUFFICES ASSUME NEW x \in H, NEW y \in H, rank[x] < rank[y] PROVE <<x, y>> \in R
    OBVIOUS
  <2>1. rank[x] \in Nat /\ rank[y] \in Nat
    BY <1>2
  <2>2. x # y /\ ~(rank[y] < rank[x])
    BY <2>1
  <2>3. ~(<<y, x>> \in R)
    BY <1>3, <2>2
  <2> QED
    BY <2>2, <2>3
<1> DEFINE T == 0 .. (n - 1)
<1>5. IsFiniteSet(T) /\ Cardinality(T) = n
  <2>1. n - 1 \in Int /\ 0 \in Int
    BY <1>1
  <2>2. IsFiniteSet(T) /\ Cardinality(T) = IF 0 > n - 1 THEN 0 ELSE (n - 1) - 0 + 1
    BY <2>1, FS_Interval
  <2> QED
    BY <1>1, <2>2
<1> DEFINE g == [x \in H |-> rank[x]]
<1>6. g \in Injection(H, T)
  <2>1. ASSUME NEW x \in H PROVE rank[x] \in T
    <3>1. rank[x] \in Nat /\ rank[x] < n
      BY <1>2
    <3> QED
      BY <1>1, <3>1
  <2>2. g \in [H -> T]
    <3> HIDE DEF T
    <3> QED
      BY <2>1
  <2>3. ASSUME NEW x \in H, NEW y \in H, g[x] = g[y] PROVE x = y
    <3>1. rank[x] \in Nat /\ rank[y] \in Nat
      BY <1>2
    <3>2. ~(rank[x] < rank[y]) /\ ~(rank[y] < rank[x])
      BY <2>3, <3>1
    <3> QED
      BY <1>3, <3>2
  <2> HIDE DEF g
  <2> QED
    BY <2>2, <2>3 DEF Injection, IsInjective
<1>7. g \in Surjection(H, T)
  <2> HIDE DEF g, T
  <2> QED
    BY <1>5, <1>6, FS_Injection
<1>8. ASSUME NEW k \in 1 .. n PROVE \E x \in H : rank[x] = k - 1
  <2>1. k - 1 \in T
    BY <1>1
  <2>2. PICK x \in H : g[x] = k - 1
    <3> HIDE DEF g, T
    <3> QED
      BY <1>7, <2>1 DEF Surjection
  <2> QED
    BY <2>2
<1> QED
  BY <1>1, <1>4, <1>8

Mark == [anchor : Nat, offset : Nat]

\* The marks of a fragment in the order of their places.
LEMMA MarksAre ==
    ASSUME NEW o, o.anchors \in Seq(Range(o.anchors)),
           \A a \in Range(o.anchors) : a.kind = "RAW" => a.offset \in Nat,
           NEW ids, NEW f,
           \A i \in MarkedIn(o, f) : ids[i] \in Nat,
           \A i, j \in MarkedIn(o, f) : ids[i] = ids[j] => i = j
    PROVE  LET ms == MarksOf(o, ids, f)
           IN  /\ ms \in Seq(Mark)
               /\ \A k \in 1 .. Len(ms) : \E i \in MarkedIn(o, f) : ms[k].offset = OffsetOf(o.anchors[i])
               /\ \A j, k \in 1 .. Len(ms) : j < k => ms[j].offset <= ms[k].offset
<1> DEFINE here == MarkedIn(o, f)
           off(i) == OffsetOf(o.anchors[i])
           Before(j, i) == \/ off(j) < off(i)
                           \/ off(j) = off(i) /\ ids[j] < ids[i]
           rank == [i \in here |-> Cardinality({j \in here : Before(j, i)})]
           R == {p \in here \X here : Before(p[1], p[2])}
           ms == MarksOf(o, ids, f)
           n == Cardinality(here)
           Nth(k) == CHOOSE x \in here : rank[x] = k - 1
<1>1. Len(o.anchors) \in Nat /\ here \in SUBSET (1 .. Len(o.anchors))
      /\ \A i \in 1 .. Len(o.anchors) : o.anchors[i] \in Range(o.anchors)
  BY MembersOf DEF MarkedIn
<1>2. \A i \in here : off(i) \in Nat
  BY <1>1 DEF OffsetOf
<1>3. IsFiniteSet(here)
  <2>1. IsFiniteSet(1 .. Len(o.anchors))
    BY <1>1, FS_Interval
  <2> QED
    BY <1>1, <2>1, FS_Subset
<1>4. ms = [k \in 1 .. n |-> [anchor |-> ids[Nth(k)], offset |-> off(Nth(k))]]
  <2>1. ms = Ranked(o, ids, here, rank)
    BY DEF MarksOf
  <2> HIDE DEF rank, here, ms
  <2> QED
    BY <2>1 DEF Ranked
<1>5. \A i \in here : ids[i] \in Nat
  OBVIOUS
<1>6. \A i, j \in here : ids[i] = ids[j] => i = j
  OBVIOUS
<1> HIDE DEF here, off, ms
<1>7. \A i, j \in here : <<j, i>> \in R <=> Before(j, i)
  OBVIOUS
<1>8. \A i \in here : rank[i] = Cardinality({j \in here : <<j, i>> \in R})
  <2>1. \A i \in here : {j \in here : Before(j, i)} = {j \in here : <<j, i>> \in R}
    BY <1>7
  <2> HIDE DEF Before, R
  <2> QED
    BY <2>1
<1>9. /\ \A x \in here : ~Before(x, x)
      /\ \A x, y, z \in here : Before(x, y) /\ Before(y, z) => Before(x, z)
      /\ \A x, y \in here : x = y \/ Before(x, y) \/ Before(y, x)
  <2>1. ASSUME NEW x \in here PROVE ~Before(x, x)
    BY <1>2, <1>5
  <2>2. ASSUME NEW x \in here, NEW y \in here, NEW z \in here, Before(x, y), Before(y, z)
        PROVE  Before(x, z)
    <3>1. /\ off(x) \in Nat /\ off(y) \in Nat /\ off(z) \in Nat
          /\ ids[x] \in Nat /\ ids[y] \in Nat /\ ids[z] \in Nat
      BY <1>2, <1>5
    <3> QED
      BY <2>2, <3>1
  <2>3. ASSUME NEW x \in here, NEW y \in here PROVE x = y \/ Before(x, y) \/ Before(y, x)
    <3>1. /\ off(x) \in Nat /\ off(y) \in Nat /\ ids[x] \in Nat /\ ids[y] \in Nat
          /\ ids[x] = ids[y] => x = y
      BY <1>2, <1>5, <1>6
    <3> QED
      BY <3>1
  <2> HIDE DEF Before
  <2> QED
    BY <2>1, <2>2, <2>3
<1>10. /\ \A x \in here : <<x, x>> \notin R
       /\ \A x, y, z \in here : <<x, y>> \in R /\ <<y, z>> \in R => <<x, z>> \in R
       /\ \A x, y \in here : x = y \/ <<x, y>> \in R \/ <<y, x>> \in R
  <2> HIDE DEF Before, R
  <2> QED
    BY <1>7, <1>9
<1> HIDE DEF R
<1>11. /\ n \in Nat
       /\ \A k \in 1 .. n : \E x \in here : rank[x] = k - 1
       /\ \A x, y \in here : rank[x] < rank[y] => <<x, y>> \in R
  <2> HIDE DEF rank
  <2> QED
    BY <1>3, <1>8, <1>10, RankIs
<1>12. \A k \in 1 .. n : Nth(k) \in here /\ rank[Nth(k)] = k - 1
  <2> HIDE DEF rank
  <2> QED
    BY <1>11
<1> HIDE DEF rank, Nth, n
<1>13. ms \in Seq(Mark) /\ Len(ms) = n
       /\ \A k \in 1 .. n : ms[k] = [anchor |-> ids[Nth(k)], offset |-> off(Nth(k))]
  <2>1. \A k \in 1 .. n : [anchor |-> ids[Nth(k)], offset |-> off(Nth(k))] \in Mark
    BY <1>2, <1>5, <1>12 DEF Mark
  <2>2. ms \in [1 .. n -> Mark]
    BY <1>4, <2>1
  <2> QED
    BY <1>4, <1>11, <2>2
<1>14. ASSUME NEW j \in 1 .. n, NEW k \in 1 .. n, j < k PROVE off(Nth(j)) <= off(Nth(k))
  <2>1. rank[Nth(j)] < rank[Nth(k)]
    BY <1>11, <1>12, <1>14
  <2>2. Before(Nth(j), Nth(k))
    <3> HIDE DEF Before
    <3> QED
      BY <1>7, <1>11, <1>12, <2>1
  <2> QED
    BY <1>2, <1>12, <2>2
<1>15. \A k \in 1 .. n : ms[k].offset = off(Nth(k)) /\ Nth(k) \in here
  BY <1>12, <1>13
<1> QED
  BY <1>13, <1>14, <1>15 DEF here, off, ms

\* Marks of a raw run lie in the order of their places and inside it.
Along(ms, size) ==
    /\ \A k \in 1 .. Len(ms) : ms[k].offset <= size
    /\ \A j, k \in 1 .. Len(ms) : j < k => ms[j].offset <= ms[k].offset

LEMMA ItemsJoin ==
    \A i, f, a, b \in Nat : a <= b => Items(i, f, 1, a) \o Items(i, f, a + 1, b) = Items(i, f, 1, b)
<1> SUFFICES ASSUME NEW i \in Nat, NEW f \in Nat, NEW a \in Nat, NEW b \in Nat, a <= b
             PROVE  Items(i, f, 1, a) \o Items(i, f, a + 1, b) = Items(i, f, 1, b)
  OBVIOUS
<1> QED
  BY ItemsAre, ZenonT(60)

\* A run that is cut holds its bytes, each once and in order.
LEMMA RawHolds ==
    ASSUME NEW i \in Nat, NEW f \in Nat, NEW size \in Nat, MarksIn(f) \in Seq(Mark), Along(MarksIn(f), size)
    PROVE  Pieced(RawPieces(i, f, size)) /\ ItemsOf(RawPieces(i, f, size)) = Items(i, f, 1, size)
<1> DEFINE ms == MarksIn(f)
           zero == [anchor |-> 0, offset |-> 0]
           cuts == <<zero>> \o ms
           n == Len(cuts)
           To(c) == IF c = Len(cuts) THEN size ELSE cuts[c + 1].offset
           piece == [c \in 1 .. n |->
                       IF To(c) > cuts[c].offset
                       THEN Entry("RAW", cuts[c].anchor, Items(i, f, cuts[c].offset + 1, To(c)), 0)
                       ELSE MarkAt(cuts[c].anchor)]
<1>1. RawPieces(i, f, size) = IF piece[1].items = <<>> THEN Tail(piece) ELSE piece
  BY DEF RawPieces
<1>2. ms \in Seq(Mark) /\ Along(ms, size) /\ Len(ms) \in Nat /\ \A k \in 1 .. Len(ms) : ms[k] \in Mark
  BY MembersOf
<1>3. zero \in Mark /\ zero.offset = 0
  BY DEF Mark
<1> HIDE DEF ms, zero
<1>4. <<zero>> \in Seq(Mark) /\ Len(<<zero>>) = 1 /\ <<zero>>[1] = zero
  BY <1>3
<1>5. /\ cuts \in Seq(Mark) /\ n = Len(ms) + 1
      /\ \A c \in 1 .. n : cuts[c] = IF c <= 1 THEN zero ELSE ms[c - 1]
  <2> DEFINE z == <<zero>>
  <2> HIDE DEF z
  <2>1. z \in Seq(Mark) /\ Len(z) = 1 /\ z[1] = zero
    BY <1>4 DEF z
  <2>20. /\ z \o ms \in Seq(Mark) /\ Len(z \o ms) = Len(z) + Len(ms)
         /\ \A c \in 1 .. Len(z) + Len(ms) : (z \o ms)[c] = IF c <= Len(z) THEN z[c] ELSE ms[c - Len(z)]
    BY <1>2, <2>1, ConcatProperties
  <2>2. /\ z \o ms \in Seq(Mark) /\ Len(z \o ms) = 1 + Len(ms)
        /\ \A c \in 1 .. 1 + Len(ms) : (z \o ms)[c] = IF c <= 1 THEN z[c] ELSE ms[c - 1]
    BY <2>1, <2>20
  <2>3. z \o ms = cuts
    BY DEF z
  <2> HIDE DEF cuts
  <2> QED
    BY <1>2, <2>1, <2>2, <2>3
<1> HIDE DEF cuts
<1>6. /\ n \in Nat /\ 1 \in 1 .. n /\ cuts[1].offset = 0
      /\ \A c \in 1 .. n : cuts[c] \in Mark /\ cuts[c].offset \in Nat /\ cuts[c].offset <= size
      /\ \A c \in 1 .. n : c # n => c + 1 \in 1 .. n /\ cuts[c].offset <= cuts[c + 1].offset
  <2>1. n \in Nat /\ 1 \in 1 .. n
    BY <1>2, <1>5
  <2>2. cuts[1].offset = 0
    BY <1>3, <1>5, <2>1
  <2>3. ASSUME NEW c \in 1 .. n
        PROVE  cuts[c] \in Mark /\ cuts[c].offset \in Nat /\ cuts[c].offset <= size
    <3>1. cuts[c] \in Mark
      BY <1>5, MembersOf
    <3>2. cuts[c].offset \in Nat
      BY <3>1 DEF Mark
    <3>3. CASE c = 1
      BY <2>2, <3>1, <3>2, <3>3
    <3>4. CASE c # 1
      <4>1. c - 1 \in 1 .. Len(ms) /\ ~(c <= 1)
        BY <1>2, <1>5, <2>1, <3>4
      <4>2. cuts[c] = ms[c - 1]
        BY <1>5, <4>1
      <4> QED
        BY <1>2, <3>1, <3>2, <4>1, <4>2 DEF Along
    <3> QED
      BY <3>3, <3>4
  <2>4. ASSUME NEW c \in 1 .. n, c # n PROVE c + 1 \in 1 .. n /\ cuts[c].offset <= cuts[c + 1].offset
    <3>1. c + 1 \in 1 .. n
      BY <2>1, <2>4
    <3>2. CASE c = 1
      <4>1. cuts[c + 1].offset \in Nat
        BY <2>3, <3>1
      <4> QED
        BY <2>2, <3>1, <3>2, <4>1
    <3>3. CASE c # 1
      <4>1. c - 1 \in 1 .. Len(ms) /\ c \in 1 .. Len(ms) /\ c - 1 < c
        BY <1>2, <1>5, <2>1, <2>4, <3>3
      <4>2. cuts[c] = ms[c - 1] /\ cuts[c + 1] = ms[c]
        BY <1>5, <3>1, <3>3
      <4> QED
        BY <1>2, <3>1, <4>1, <4>2 DEF Along
    <3> QED
      BY <3>2, <3>3
  <2> QED
    BY <2>1, <2>2, <2>3, <2>4
<1> HIDE DEF n
<1>7. \A c \in 1 .. n : To(c) \in Nat /\ cuts[c].offset <= To(c)
  BY <1>6 DEF n
<1>8. To(n) = size
  BY DEF n
<1>9. \A c \in 2 .. n : To(c - 1) = cuts[c].offset /\ c - 1 \in 1 .. n
  <2> SUFFICES ASSUME NEW c \in 2 .. n PROVE To(c - 1) = cuts[c].offset /\ c - 1 \in 1 .. n
    OBVIOUS
  <2>1. c - 1 # n /\ c - 1 + 1 = c /\ c - 1 \in 1 .. n
    BY <1>6
  <2> QED
    BY <2>1 DEF n
<1> HIDE DEF To
<1> DEFINE w == [c \in 1 .. n |-> Items(i, f, cuts[c].offset + 1, To(c))]
           g == [c \in 0 .. n |-> Items(i, f, 1, IF c = 0 THEN 0 ELSE To(c))]
<1>10. \A c \in 1 .. n : piece[c].items = w[c]
  <2> SUFFICES ASSUME NEW c \in 1 .. n PROVE piece[c].items = w[c]
    OBVIOUS
  <2>1. CASE To(c) > cuts[c].offset
    BY <2>1 DEF Entry
  <2>2. CASE ~(To(c) > cuts[c].offset)
    <3>1. To(c) = cuts[c].offset
      BY <1>6, <1>7, <2>2
    <3>2. Items(i, f, cuts[c].offset + 1, To(c)) = <<>>
      <4> DEFINE a == cuts[c].offset
      <4>1. a \in Nat /\ To(c) = a
        BY <1>6, <3>1
      <4> HIDE DEF a
      <4>2. Items(i, f, a + 1, a) = <<>>
        BY <4>1 DEF Items
      <4> QED
        BY <4>1, <4>2 DEF a
    <3> QED
      BY <2>2, <3>2 DEF MarkAt, Entry
  <2> QED
    BY <2>1, <2>2
<1>11. \A c \in 1 .. n : /\ w[c] \in Seq(Item) /\ Items(i, f, 1, cuts[c].offset) \o w[c] = Items(i, f, 1, To(c))
                         /\ Items(i, f, 1, To(c)) \in Seq(Item)
  <2> SUFFICES ASSUME NEW c \in 1 .. n
               PROVE  /\ w[c] \in Seq(Item) /\ Items(i, f, 1, cuts[c].offset) \o w[c] = Items(i, f, 1, To(c))
                      /\ Items(i, f, 1, To(c)) \in Seq(Item)
    OBVIOUS
  <2> DEFINE a == cuts[c].offset
             b == To(c)
  <2>1. a \in Nat /\ b \in Nat /\ a <= b /\ b <= b
    BY <1>6, <1>7
  <2>2. w[c] = Items(i, f, a + 1, b)
    OBVIOUS
  <2> HIDE DEF a, b, w
  <2>3. /\ Items(i, f, a + 1, b) \in Seq(Item)
        /\ Items(i, f, 1, a) \o Items(i, f, a + 1, b) = Items(i, f, 1, b)
    <3>1. Items(i, f, a + 1, b) \in Seq(Item)
      BY <2>1, ItemsAre
    <3>2. Items(i, f, 1, a) \o Items(i, f, a + 1, b) = Items(i, f, 1, b)
      <4>1. \A x, y \in Nat : x <= y => Items(i, f, 1, x) \o Items(i, f, x + 1, y) = Items(i, f, 1, y)
        BY ItemsJoin
      <4> QED
        BY <2>1, <4>1
    <3> QED
      BY <3>1, <3>2
  <2>4. Items(i, f, 1, b) \in Seq(Item)
    BY <2>1, ItemsAre
  <2> QED
    BY <2>2, <2>3, <2>4 DEF a, b
<1>12. w \in Seq(Seq(Item)) /\ Len(w) = n
  <2> DEFINE S == Seq(Item)
  <2>1. \A c \in 1 .. n : w[c] \in S
    BY <1>11
  <2> HIDE DEF S
  <2>2. w \in [1 .. n -> S]
    BY <2>1
  <2> HIDE DEF w
  <2>3. w \in Seq(S) /\ Len(w) = n
    BY <1>6, <2>2
  <2> QED
    BY <2>3 DEF S
<1>13. g \in [0 .. Len(w) -> Seq(Item)] /\ g[0] = <<>>
  <2>0. 0 \in Nat /\ 0 <= 0
    OBVIOUS
  <2>1. Items(i, f, 1, 0) = <<>> /\ Items(i, f, 1, 0) \in Seq(Item)
    BY <2>0, ItemsAre
  <2>2. ASSUME NEW c \in 0 .. n PROVE g[c] \in Seq(Item)
    <3>1. CASE c = 0
      BY <2>1, <3>1
    <3>2. CASE c \in 1 .. n
      BY <1>11, <3>2
    <3>3. c = 0 \/ c \in 1 .. n
      BY <1>6
    <3> QED
      BY <3>1, <3>2, <3>3
  <2>3. 0 \in 0 .. n
    BY <1>6
  <2>4. g[0] = <<>>
    BY <2>1, <2>3
  <2> HIDE DEF w
  <2> QED
    BY <1>12, <2>2, <2>4
<1>14. Sums(w, g)
  <2> SUFFICES ASSUME NEW c \in 1 .. n PROVE g[c] = g[c - 1] \o w[c]
    <3> HIDE DEF w, g
    <3> QED
      BY <1>12 DEF Sums
  <2>0. c \in 0 .. n /\ c - 1 \in 0 .. n /\ c # 0
    BY <1>6
  <2>1. g[c] = Items(i, f, 1, To(c))
    BY <2>0
  <2>2. g[c - 1] = Items(i, f, 1, cuts[c].offset)
    <3>1. CASE c = 1
      BY <1>6, <2>0, <3>1
    <3>2. CASE c # 1
      <4>1. c \in 2 .. n /\ c - 1 # 0
        BY <1>6, <3>2
      <4> QED
        BY <1>9, <2>0, <4>1
    <3> QED
      BY <3>1, <3>2
  <2>3. Items(i, f, 1, cuts[c].offset) \o w[c] = Items(i, f, 1, To(c))
    BY <1>11
  <2> HIDE DEF w, g
  <2> QED
    BY <2>1, <2>2, <2>3
<1>15. FlattenSeq(w) = Items(i, f, 1, size)
  <2>1. n \in 0 .. n /\ n # 0
    BY <1>6
  <2>2. g[n] = Items(i, f, 1, size)
    BY <1>8, <2>1
  <2> HIDE DEF w, g
  <2>3. FlattenSeq(w) = g[Len(w)]
    BY <1>12, <1>13, <1>14, FlattenIs
  <2> QED
    BY <1>12, <2>2, <2>3
<1>16. \A c \in 1 .. n : piece[c].items \in Seq(Item)
  BY <1>10, <1>11
<1>17. Pieced(piece) /\ Len(piece) = n /\ piece \in [1 .. n -> {piece[c] : c \in 1 .. n}]
  <2>1. piece \in [1 .. n -> {piece[c] : c \in 1 .. n}]
    OBVIOUS
  <2> HIDE DEF piece
  <2>2. Pieced(piece) /\ Len(piece) = n
    BY <1>6, <1>16, <2>1, PiecedMade
  <2> QED
    BY <2>1, <2>2
<1> HIDE DEF piece
<1>18. ItemsOf(piece) = Items(i, f, 1, size)
  <2>1. [c \in 1 .. Len(piece) |-> piece[c].items] = w
    BY <1>10, <1>17
  <2> HIDE DEF w
  <2> QED
    BY <1>15, <2>1 DEF ItemsOf
<1>19. CASE piece[1].items # <<>>
  BY <1>1, <1>17, <1>18, <1>19
<1>20. CASE piece[1].items = <<>>
  <2> DEFINE t == Tail(piece)
             e == piece[1]
  <2>1. PICK T : piece \in Seq(T) /\ \A x \in T : x.items \in Seq(Item)
    BY <1>17 DEF Pieced
  <2>2. piece # <<>>
    BY <1>6, <1>17, EmptySeq
  <2>3. t \in Seq(T) /\ Len(t) = n - 1 /\ \A k \in 1 .. Len(t) : t[k] = piece[k + 1]
    BY <1>17, <2>1, <2>2, HeadTailProperties
  <2> HIDE DEF t
  <2>4. Pieced(t)
    BY <2>1, <2>3 DEF Pieced
  <2>5. Pieced(<<e>>) /\ Len(<<e>>) = 1 /\ ItemsOf(<<e>>) = <<>>
    BY <1>6, <1>16, <1>20, OneItem
  <2> DEFINE z == <<e>>
  <2>6. z[1] = piece[1]
    OBVIOUS
  <2> HIDE DEF z, e
  <2>60. Pieced(z) /\ Len(z) = 1 /\ ItemsOf(z) = <<>>
    BY <2>5 DEF z
  <2>70. /\ Pieced(z \o t) /\ Len(z \o t) = Len(z) + Len(t)
         /\ \A k \in 1 .. Len(z) + Len(t) : (z \o t)[k] = IF k <= Len(z) THEN z[k] ELSE t[k - Len(z)]
         /\ ItemsOf(z \o t) = ItemsOf(z) \o ItemsOf(t)
    BY <2>4, <2>60, PiecedConcat
  <2>7. /\ Pieced(z \o t) /\ Len(z \o t) = 1 + (n - 1)
        /\ \A k \in 1 .. 1 + (n - 1) : (z \o t)[k] = IF k <= 1 THEN z[k] ELSE t[k - 1]
        /\ ItemsOf(z \o t) = ItemsOf(z) \o ItemsOf(t)
    BY <2>3, <2>60, <2>70
  <2>8. z \o t = piece
    <3>1. ASSUME NEW k \in 1 .. n PROVE (z \o t)[k] = piece[k]
      <4>1. k \in 1 .. 1 + (n - 1)
        BY <1>6
      <4>2. CASE k = 1
        BY <2>6, <2>7, <4>1, <4>2
      <4>3. CASE k # 1
        <5>1. k - 1 \in 1 .. Len(t) /\ ~(k <= 1) /\ k - 1 + 1 = k
          BY <1>6, <2>3, <4>3
        <5> QED
          BY <2>3, <2>7, <4>1, <5>1
      <4> QED
        BY <4>2, <4>3
    <3> DEFINE v == z \o t
    <3>2. PICK U : v \in Seq(U)
      BY <2>7 DEF Pieced
    <3>3. Len(v) = n
      BY <1>6, <2>7
    <3>4. v \in Seq(U \cup T) /\ piece \in Seq(U \cup T)
      BY <2>1, <3>2, SeqMonotonic
    <3> HIDE DEF v
    <3>5. \A k \in 1 .. Len(v) : v[k] = piece[k]
      BY <3>1, <3>3 DEF v
    <3>6. v = piece
      BY <1>17, <3>3, <3>4, <3>5, SeqEqual
    <3> QED
      BY <3>6 DEF v
  <2>9. ItemsOf(t) = Items(i, f, 1, size)
    <3>1. <<>> \o ItemsOf(t) = ItemsOf(t)
      BY <2>4, PiecedIs, ConcatEmptySeq
    <3> QED
      BY <1>18, <2>60, <2>7, <2>8, <3>1
  <2> QED
    BY <1>1, <1>20, <2>4, <2>9 DEF t
<1> QED
  BY <1>19, <1>20

\* A mark holds nothing.
LEMMA MarkedHolds ==
    ASSUME NEW ms \in Seq(Mark)
    PROVE  Pieced(Marked(ms)) /\ ItemsOf(Marked(ms)) = <<>>
<1> DEFINE s == Marked(ms)
           n == Len(ms)
<1>1. n \in Nat
  BY MembersOf
<1>2. s = [k \in 1 .. n |-> MarkAt(ms[k].anchor)]
  BY DEF Marked
<1>3. \A k \in 1 .. n : s[k].items = <<>>
  BY <1>2 DEF MarkAt, Entry
<1>4. s \in [1 .. n -> {s[k] : k \in 1 .. n}]
  BY <1>2
<1> HIDE DEF s, n
<1>5. \A k \in 1 .. n : s[k].items \in Seq(Item)
  BY <1>3, EmptySeq
<1>6. Pieced(s) /\ Len(s) = n
  BY <1>1, <1>4, <1>5, PiecedMade
<1>7. ItemsOf(s) = <<>>
  BY <1>1, <1>3, <1>6, NoItems
<1> QED
  BY <1>6, <1>7 DEF s

\* Marks before other fragments do not change what they hold.
LEMMA MarksBefore ==
    ASSUME NEW ms \in Seq(Mark), NEW s, Pieced(s)
    PROVE  Pieced(Marked(ms) \o s) /\ ItemsOf(Marked(ms) \o s) = ItemsOf(s)
<1>1. Pieced(Marked(ms)) /\ ItemsOf(Marked(ms)) = <<>>
  BY MarkedHolds
<1>2. Pieced(Marked(ms) \o s) /\ ItemsOf(Marked(ms) \o s) = ItemsOf(Marked(ms)) \o ItemsOf(s)
  BY <1>1, PiecedConcat
<1>3. <<>> \o ItemsOf(s) = ItemsOf(s)
  BY PiecedIs, ConcatEmptySeq
<1> QED
  BY <1>1, <1>2, <1>3

\* Every element of a data fragment is one fragment of the layout.
LEMMA DataHolds ==
    ASSUME NEW i \in Nat, NEW f \in Nat, NEW fixups \in Seq(Nat), MarksIn(f) \in Seq(Mark)
    PROVE  /\ Pieced(DataPieces(i, f, fixups))
           /\ ItemsOf(DataPieces(i, f, fixups)) = Items(i, f, 1, Len(fixups))
<1> DEFINE n == Len(fixups)
           s == [k \in 1 .. n |-> Entry("DATA", PcOf(Unit, work.anchors, fixups[k]), <<<<i, f, k>>>>,
                                        Value(fixups[k]))]
           w == [k \in 1 .. n |-> <<<<i, f, k>>>>]
           g == [k \in 0 .. n |-> Items(i, f, 1, k)]
<1>1. n \in Nat
  BY MembersOf
<1>2. DataPieces(i, f, fixups) = Marked(MarksIn(f)) \o s
  BY DEF DataPieces
<1>3. \A k \in 1 .. n : s[k].items = w[k]
  BY DEF Entry
<1>4. s \in [1 .. n -> {s[k] : k \in 1 .. n}]
  OBVIOUS
<1> HIDE DEF s, n
<1>5. \A k \in 1 .. n : w[k] \in Seq(Item)
  <2> SUFFICES ASSUME NEW k \in 1 .. n PROVE <<<<i, f, k>>>> \in Seq(Item)
    OBVIOUS
  <2>1. <<i, f, k>> \in Item
    BY DEF Item
  <2> DEFINE it == <<i, f, k>>
  <2> HIDE DEF it
  <2>2. <<it>> \in Seq(Item)
    BY <2>1 DEF it
  <2> QED
    BY <2>2 DEF it
<1>6. w \in Seq(Seq(Item)) /\ Len(w) = n
  <2> DEFINE S == Seq(Item)
  <2>1. \A k \in 1 .. n : w[k] \in S
    BY <1>5
  <2> HIDE DEF S
  <2>2. w \in [1 .. n -> S]
    BY <2>1
  <2> HIDE DEF w
  <2>3. w \in Seq(S) /\ Len(w) = n
    BY <1>1, <2>2
  <2> QED
    BY <2>3 DEF S
<1>7. \A k \in 0 .. n : Items(i, f, 1, k) \in Seq(Item)
  BY ItemsAre, SMTT(30)
<1>8. g \in [0 .. Len(w) -> Seq(Item)] /\ g[0] = <<>>
  <2>1. 0 \in 0 .. n /\ 0 \in Nat /\ 0 <= 0
    BY <1>1
  <2>2. g[0] = <<>>
    BY <2>1, ItemsAre
  <2>3. g \in [0 .. n -> Seq(Item)]
    BY <1>7
  <2> HIDE DEF w, g
  <2> QED
    BY <1>6, <2>2, <2>3
<1>9. Sums(w, g)
  <2> SUFFICES ASSUME NEW k \in 1 .. n PROVE g[k] = g[k - 1] \o w[k]
    <3> HIDE DEF w, g
    <3> QED
      BY <1>6 DEF Sums
  <2>1. k \in 0 .. n /\ k - 1 \in 0 .. n /\ k - 1 + 1 = k
    BY <1>1
  <2>2. g[k] = Items(i, f, 1, k) /\ g[k - 1] = Items(i, f, 1, k - 1)
    BY <2>1
  <2>3. w[k] = Items(i, f, k - 1 + 1, k)
    <3>1. Items(i, f, k, k) = [j \in 1 .. 1 |-> <<i, f, k>>]
      <4>1. (IF k < k THEN 0 ELSE k - k + 1) = 1 /\ \A j \in 1 .. 1 : k + j - 1 = k
        BY <1>1
      <4> QED
        BY <4>1 DEF Items
    <3>2. [j \in 1 .. 1 |-> <<i, f, k>>] = <<<<i, f, k>>>>
      <4> DEFINE it == <<i, f, k>>
      <4> HIDE DEF it
      <4>1. [j \in 1 .. 1 |-> it] = <<it>>
        OBVIOUS
      <4> QED
        BY <4>1 DEF it
    <3> QED
      BY <2>1, <3>1, <3>2
  <2>4. Items(i, f, 1, k - 1) \o Items(i, f, k - 1 + 1, k) = Items(i, f, 1, k)
    <3> DEFINE a == k - 1
    <3>1. a \in Nat /\ k \in Nat /\ a <= k
      BY <1>1
    <3> HIDE DEF a
    <3>2. Items(i, f, 1, a) \o Items(i, f, a + 1, k) = Items(i, f, 1, k)
      BY <3>1, ItemsJoin
    <3> QED
      BY <3>2 DEF a
  <2> HIDE DEF w, g
  <2> QED
    BY <2>2, <2>3, <2>4
<1>10. FlattenSeq(w) = Items(i, f, 1, n)
  <2>1. n \in 0 .. n
    BY <1>1
  <2>2. g[n] = Items(i, f, 1, n)
    BY <2>1
  <2> HIDE DEF w, g
  <2>3. FlattenSeq(w) = g[Len(w)]
    BY <1>6, <1>8, <1>9, FlattenIs
  <2> QED
    BY <1>6, <2>2, <2>3
<1>11. Pieced(s) /\ Len(s) = n
  <2> HIDE DEF w
  <2>1. \A k \in 1 .. n : s[k].items \in Seq(Item)
    BY <1>3, <1>5
  <2> QED
    BY <1>1, <1>4, <2>1, PiecedMade
<1>12. ItemsOf(s) = Items(i, f, 1, n)
  <2>1. [k \in 1 .. Len(s) |-> s[k].items] = w
    BY <1>3, <1>11
  <2> HIDE DEF w
  <2> QED
    BY <1>10, <2>1 DEF ItemsOf
<1> QED
  BY <1>2, <1>11, <1>12, MarksBefore DEF n

\* An instruction or storage is one fragment, after the marks that are not its own.
LEMMA OneHolds ==
    ASSUME NEW i \in Nat, NEW f \in Nat, NEW kind, NEW value, MarksIn(f) \in Seq(Mark)
    PROVE  /\ Pieced(OnePiece(i, f, kind, value))
           /\ ItemsOf(OnePiece(i, f, kind, value)) = Items(i, f, 1, 1)
<1> DEFINE ms == MarksIn(f)
           own == IF ms = <<>> THEN 0 ELSE Last(ms).anchor
           rest == IF ms = <<>> THEN ms ELSE Front(ms)
           it == <<i, f, 1>>
           e == Entry(kind, own, <<it>>, value)
<1>1. OnePiece(i, f, kind, value) = Marked(rest) \o <<e>>
  BY DEF OnePiece
<1>2. it \in Item
  BY DEF Item
<1>3. Items(i, f, 1, 1) = <<it>>
  <2>1. Items(i, f, 1, 1) = [k \in 1 .. 1 |-> <<i, f, 1>>]
    <3>1. (IF 1 < 1 THEN 0 ELSE 1 - 1 + 1) = 1 /\ \A k \in 1 .. 1 : 1 + k - 1 = 1
      OBVIOUS
    <3> QED
      BY <3>1 DEF Items
  <2> HIDE DEF it
  <2>2. [k \in 1 .. 1 |-> it] = <<it>>
    OBVIOUS
  <2> QED
    BY <2>1, <2>2 DEF it
<1> HIDE DEF it, own, ms
<1>4. e.items = <<it>> /\ <<it>> \in Seq(Item)
  BY <1>2 DEF Entry
<1>5. rest \in Seq(Mark)
  <2>1. ms \in Seq(Mark)
    BY DEF ms
  <2>2. CASE ms # <<>>
    <3>1. Front(ms) = SubSeq(ms, 1, Len(ms) - 1)
      BY DEF Front
    <3>2. Len(ms) \in Nat /\ \A k \in 1 .. Len(ms) : ms[k] \in Mark
      BY <2>1, MembersOf
    <3>3. \A k \in 1 .. Len(ms) - 1 : ms[k] \in Mark
      BY <3>2
    <3>4. SubSeq(ms, 1, Len(ms) - 1) \in Seq(Mark)
      BY <3>2, <3>3, SubSeqProperties
    <3> QED
      BY <2>2, <3>1, <3>4
  <2> QED
    BY <2>1, <2>2
<1> HIDE DEF rest, e
<1>6. Pieced(<<e>>) /\ ItemsOf(<<e>>) = <<it>>
  BY <1>4, OneItem
<1> DEFINE s == <<e>>
<1> HIDE DEF s
<1>7. Pieced(s) /\ ItemsOf(s) = <<it>>
  BY <1>6 DEF s
<1>8. Pieced(Marked(rest) \o s) /\ ItemsOf(Marked(rest) \o s) = ItemsOf(s)
  BY <1>5, <1>7, MarksBefore
<1>9. OnePiece(i, f, kind, value) = Marked(rest) \o s
  BY <1>1 DEF s
<1> QED
  BY <1>3, <1>7, <1>8, <1>9

-----------------------------------------------------------------------------
(* What an object holds *)

\* Marks of the object at hand, each fragment's in order.
MarksGood ==
    /\ \A f \in 1 .. Len(Unit.fragments) + 1 : MarksIn(f) \in Seq(Mark)
    /\ \A f \in 1 .. Len(Unit.fragments) :
          Unit.fragments[f].kind = "RAW" => Along(MarksIn(f), Unit.fragments[f].size)

LEMMA Records ==
    ASSUME NEW file \in DOMAIN Objects
    PROVE  LET o == Objects[file]
           IN  /\ o.ram \in Nat
               /\ o.anchors \in Seq(Range(o.anchors)) /\ o.fragments \in Seq(Range(o.fragments))
               /\ Len(o.fragments) \in Nat
               /\ \A a \in Range(o.anchors) : a.kind = "RAW" => a.offset \in Nat
               /\ \A f \in 1 .. Len(o.fragments) :
                     /\ o.fragments[f] \in Range(o.fragments) /\ o.fragments[f].fixups \in Seq(Nat)
                     /\ o.fragments[f].kind = "RAW" => o.fragments[f].size \in Nat
<1> DEFINE o == Objects[file]
<1>1. /\ o.ram \in Nat
      /\ o.anchors \in Seq(Range(o.anchors)) /\ o.fragments \in Seq(Range(o.fragments))
      /\ \A a \in Range(o.anchors) : a.kind = "RAW" => a.offset \in Nat
      /\ \A r \in Range(o.fragments) : r.fixups \in Seq(Nat) /\ (r.kind = "RAW" => r.size \in Nat)
  BY ObjectAssumption
<1> HIDE DEF o
<1>2. Len(o.fragments) \in Nat /\ \A f \in 1 .. Len(o.fragments) : o.fragments[f] \in Range(o.fragments)
  BY <1>1, MembersOf
<1> QED
  BY <1>1, <1>2 DEF o

LEMMA PieceHolds ==
    ASSUME MarksGood, inputs # <<>>, inputs \in Seq(DOMAIN Objects), NEW i \in Nat,
           NEW f \in 1 .. Len(Unit.fragments)
    PROVE  /\ Pieced(Pieces(i, f))
           /\ ItemsOf(Pieces(i, f)) = Items(i, f, 1, SizeOf(Unit.fragments[f]))
           /\ Items(i, f, 1, SizeOf(Unit.fragments[f])) \in Seq(Item)
<1> DEFINE r == Unit.fragments[f]
<1>1. Len(inputs) \in 1 .. Len(inputs)
  BY MembersOf, EmptySeq
<1>2. inputs[Len(inputs)] \in DOMAIN Objects
  BY <1>1, MembersOf
<1>3. r.fixups \in Seq(Nat) /\ (r.kind = "RAW" => r.size \in Nat) /\ Len(Unit.fragments) \in Nat
  BY <1>2, Records DEF Unit
<1>4. f \in Nat /\ MarksIn(f) \in Seq(Mark)
  BY <1>3 DEF MarksGood
<1>5. r.kind = "RAW" => Along(MarksIn(f), r.size)
  BY DEF MarksGood
<1>6. Pieced(Pieces(i, f)) /\ ItemsOf(Pieces(i, f)) = Items(i, f, 1, SizeOf(r))
  <2> HIDE DEF r
  <2> DEFINE value == IF r.fixups = <<>> THEN 0 ELSE Value(r.fixups[1])
  <2>1. CASE r.kind = "RAW"
    <3>1. Pieces(i, f) = RawPieces(i, f, r.size) /\ SizeOf(r) = r.size
      BY <2>1 DEF Pieces, SizeOf, r
    <3> QED
      BY <1>3, <1>4, <1>5, <2>1, <3>1, RawHolds
  <2>2. CASE r.kind = "DATA"
    <3>1. Pieces(i, f) = DataPieces(i, f, r.fixups) /\ SizeOf(r) = Len(r.fixups)
      BY <2>2 DEF Pieces, SizeOf, r
    <3> QED
      BY <1>3, <1>4, <3>1, DataHolds
  <2>3. CASE r.kind = "STORAGE"
    <3>1. Pieces(i, f) = OnePiece(i, f, r.kind, work.nodes[r.extent]) /\ SizeOf(r) = 1
      BY <2>3 DEF Pieces, SizeOf, r
    <3> QED
      BY <1>4, <3>1, OneHolds
  <2>4. CASE r.kind \notin {"RAW", "DATA", "STORAGE"}
    <3>1. Pieces(i, f) = OnePiece(i, f, r.kind, value) /\ SizeOf(r) = 1
      BY <2>4 DEF Pieces, SizeOf, r
    <3> HIDE DEF value
    <3> QED
      BY <1>4, <3>1, OneHolds
  <2> QED
    BY <2>1, <2>2, <2>3, <2>4
<1> QED
  BY <1>6, PiecedIs

\* An object holds the items of its fragments, one fragment after the other.
LEMMA ObjectHolds ==
    ASSUME MarksGood, inputs # <<>>, inputs \in Seq(DOMAIN Objects), NEW i \in Nat
    PROVE  LET n == Len(Unit.fragments)
               added == <<MarkAt(work.owner)>> \o FlattenSeq([f \in 1 .. n |-> Pieces(i, f)])
                        \o Marked(MarksIn(n + 1))
           IN  /\ Pieced(<<MarkAt(work.owner)>>) /\ Pieced(FlattenSeq([f \in 1 .. n |-> Pieces(i, f)]))
               /\ Pieced(Marked(MarksIn(n + 1)))
               /\ Pieced(added) /\ ItemsOf(added) = ObjectItems(Unit, i) /\ ObjectItems(Unit, i) \in Seq(Item)
<1> DEFINE n == Len(Unit.fragments)
           P == [f \in 1 .. n |-> Pieces(i, f)]
           w == [f \in 1 .. n |-> Items(i, f, 1, SizeOf(Unit.fragments[f]))]
           T == UNION {Range(P[f]) : f \in 1 .. n}
           z == <<MarkAt(work.owner)>>
           p == FlattenSeq(P)
           e == Marked(MarksIn(n + 1))
<1>1. Len(inputs) \in 1 .. Len(inputs)
  BY MembersOf, EmptySeq
<1>2. inputs[Len(inputs)] \in DOMAIN Objects
  BY <1>1, MembersOf
<1>3. n \in Nat
  BY <1>2, Records DEF Unit
<1>4. \A f \in 1 .. n : Pieced(P[f]) /\ ItemsOf(P[f]) = w[f] /\ w[f] \in Seq(Item)
  BY PieceHolds
<1>5. P \in [1 .. n -> {P[f] : f \in 1 .. n}] /\ w \in [1 .. n -> {w[f] : f \in 1 .. n}]
  OBVIOUS
<1>6. ObjectItems(Unit, i) = FlattenSeq(w)
  BY DEF ObjectItems
<1>7. n + 1 \in 1 .. n + 1 /\ MarksIn(n + 1) \in Seq(Mark)
  BY <1>3 DEF MarksGood
<1>8. Pieced(e) /\ ItemsOf(e) = <<>>
  BY <1>7, MarkedHolds
<1>9. Pieced(z) /\ ItemsOf(z) = <<>>
  <2>1. MarkAt(work.owner).items = <<>>
    BY DEF MarkAt, Entry
  <2> QED
    BY <2>1, EmptySeq, OneItem
<1> HIDE DEF P, w, n, e, z
<1>10. ASSUME NEW f \in 1 .. n PROVE P[f] \in Seq(T)
  <2>1. PICK U : P[f] \in Seq(U)
    BY <1>4 DEF Pieced
  <2> DEFINE s == P[f]
  <2>2. s \in Seq(U)
    BY <2>1
  <2>3. Range(s) \subseteq T
    OBVIOUS
  <2> HIDE DEF s, T
  <2>4. s \in Seq(Range(s))
    <3>1. Len(s) \in Nat /\ DOMAIN s = 1 .. Len(s) /\ s \in [1 .. Len(s) -> U]
      BY <2>2, LenProperties
    <3>2. s \in [1 .. Len(s) -> Range(s)]
      BY <3>1 DEF Range
    <3> QED
      BY <3>1, <3>2
  <2>5. s \in Seq(T)
    BY <2>3, <2>4, SeqMonotonic
  <2> QED
    BY <2>5 DEF s
<1>11. ASSUME NEW x \in T PROVE x.items \in Seq(Item)
  <2>1. PICK f \in 1 .. n : x \in Range(P[f])
    OBVIOUS
  <2>2. PICK U : P[f] \in Seq(U) /\ \A y \in U : y.items \in Seq(Item)
    BY <1>4 DEF Pieced
  <2>3. x \in U
    <3>1. DOMAIN P[f] = 1 .. Len(P[f]) /\ \A k \in 1 .. Len(P[f]) : P[f][k] \in U
      BY <2>2, LenProperties
    <3> QED
      BY <2>1, <3>1 DEF Range
  <2> QED
    BY <2>2, <2>3
<1> HIDE DEF T
<1>12. P \in Seq(Seq(T)) /\ Len(P) = n
  <2> DEFINE S == Seq(T)
  <2>1. P \in [1 .. n -> S]
    BY <1>5, <1>10
  <2> HIDE DEF S
  <2>2. P \in Seq(S) /\ Len(P) = n
    BY <1>3, <2>1
  <2> QED
    BY <2>2 DEF S
<1>13. w \in Seq(Seq(Item)) /\ Len(w) = n
  <2> DEFINE S == Seq(Item)
  <2>1. w \in [1 .. n -> S]
    BY <1>4, <1>5
  <2> HIDE DEF S
  <2>2. w \in Seq(S) /\ Len(w) = n
    BY <1>3, <2>1
  <2> QED
    BY <2>2 DEF S
<1>14. Pieced(p) /\ ItemsOf(p) = FlattenSeq(w)
  BY <1>4, <1>11, <1>12, <1>13, GroupsHold
<1> HIDE DEF p
<1>15. Pieced(z \o p) /\ ItemsOf(z \o p) = ItemsOf(z) \o ItemsOf(p)
  BY <1>9, <1>14, PiecedConcat
<1> DEFINE q == z \o p
<1>16. ItemsOf(p) \in Seq(Item)
  BY <1>14, PiecedIs
<1>17. Pieced(q) /\ ItemsOf(q) = ItemsOf(p)
  BY <1>9, <1>15, <1>16, ConcatEmptySeq
<1> HIDE DEF q
<1>18. Pieced(q \o e) /\ ItemsOf(q \o e) = ItemsOf(q) \o ItemsOf(e)
  BY <1>8, <1>17, PiecedConcat
<1>19. ItemsOf(p) \o <<>> = ItemsOf(p)
  BY <1>16, ConcatEmptySeq
<1>20. Pieced(q \o e) /\ ItemsOf(q \o e) = ItemsOf(p)
  BY <1>8, <1>17, <1>18, <1>19
<1> QED
  BY <1>6, <1>8, <1>9, <1>14, <1>16, <1>20 DEF q, z, p, e, P, n

-----------------------------------------------------------------------------
(* What the outputs hold *)

\* What an output holds of the layout, and what the first commands mean it to hold.
OutputIn(to, f) == Cardinality({i \in 1 .. Len(to) : to[i].boundary <= f})
Held(fr, to, n) == FlattenSeq([f \in 1 .. Len(fr) |-> IF OutputIn(to, f) = n THEN fr[f].items ELSE <<>>])
Meant(c, n)     == FlattenSeq([k \in 1 .. c |-> IF OutputAt(k) = n THEN CommandItems(k) ELSE <<>>])

\* How many commands the layout holds: one that links an object counts once it is laid.
Carried == IF job = "nodes" THEN ip - 2 ELSE ip - 1

PiecesType ==
    /\ inputs \in Seq(DOMAIN Objects) /\ anchorCount \in Nat /\ Pieced(fragments)
    /\ \A i \in 1 .. Len(opened) : opened[i].boundary \in Nat /\ opened[i].boundary <= Len(fragments)

\* Outputs and objects are numbered by the commands that name them.
Numbered ==
    /\ ip <= Len(Commands) + 1
    /\ Len(opened) = OutputAt(ip) /\ Len(inputs) = CountBefore(ip, "LINK")

\* Each output holds what the commands so far mean it to hold.
Filled ==
    /\ \A k \in 1 .. Carried : CommandItems(k) \in Seq(Item)
    /\ \A n \in Nat : Held(fragments, opened, n) = Meant(Carried, n)

PiecesJobs ==
    /\ job = "parse" => /\ fragments = <<>> /\ opened = <<>> /\ ip = 1 /\ inputs = <<>>
    /\ job = "read" => ip <= Len(Commands) /\ Command.cmd = "LINK"
    /\ job = "nodes" => /\ ip > 1 /\ Commands[ip - 1].cmd = "LINK"
                        /\ inputs # <<>> /\ Commands[ip - 1].file = inputs[Len(inputs)]
                        /\ "marks" \in DOMAIN work /\ MarksGood
    /\ job \in {"resolve", "layout", "write"} => ip > Len(Commands)

Live == {"script", "read", "nodes", "resolve", "layout", "write"}
PiecesInv == PiecesType /\ PiecesJobs /\ (job \in Live => Numbered /\ Filled)

LEMMA CountNext ==
    ASSUME NEW c \in Nat \ {0}, NEW cmd
    PROVE  /\ CountBefore(c, cmd) \in Nat /\ CountBefore(1, cmd) = 0
           /\ CountBefore(c + 1, cmd) = CountBefore(c, cmd) + IF Commands[c].cmd = cmd THEN 1 ELSE 0
<1> DEFINE S == {k \in 1 .. (c - 1) : Commands[k].cmd = cmd}
           U == {k \in 1 .. (c + 1 - 1) : Commands[k].cmd = cmd}
<1>1. IsFiniteSet(S)
  <2>1. IsFiniteSet(1 .. (c - 1)) /\ S \in SUBSET (1 .. (c - 1))
    BY FS_Interval
  <2> QED
    BY <2>1, FS_Subset
<1>2. U = IF Commands[c].cmd = cmd THEN S \cup {c} ELSE S
  OBVIOUS
<1>3. c \notin S
  OBVIOUS
<1> HIDE DEF S, U
<1>4. Cardinality(S) \in Nat
  BY <1>1, FS_CardinalityType
<1>5. Cardinality(U) = Cardinality(S) + IF Commands[c].cmd = cmd THEN 1 ELSE 0
  <2>1. Cardinality(S \cup {c}) = Cardinality(S) + 1
    BY <1>1, <1>3, FS_AddElement
  <2> QED
    BY <1>2, <1>4, <2>1
<1>6. CountBefore(1, cmd) = 0
  <2>1. {k \in 1 .. (1 - 1) : Commands[k].cmd = cmd} = {}
    OBVIOUS
  <2> QED
    BY <2>1, FS_EmptySet DEF CountBefore
<1> QED
  BY <1>4, <1>5, <1>6 DEF CountBefore, S, U

\* The meaning of one more command.
LEMMA MeantNext ==
    ASSUME NEW c \in Nat, \A k \in 1 .. c : CommandItems(k) \in Seq(Item), NEW n
    PROVE  /\ Meant(c, n) \in Seq(Item) /\ Meant(0, n) = <<>>
           /\ CommandItems(c + 1) \in Seq(Item) =>
                 Meant(c + 1, n) = Meant(c, n) \o (IF OutputAt(c + 1) = n THEN CommandItems(c + 1) ELSE <<>>)
<1> DEFINE S == Seq(Item)
           mine(k) == IF OutputAt(k) = n THEN CommandItems(k) ELSE <<>>
           w == [k \in 1 .. c |-> mine(k)]
           u == [k \in 1 .. c + 1 |-> mine(k)]
<1>1. \A k \in 1 .. c : mine(k) \in S
  BY EmptySeq
<1>2. CommandItems(c + 1) \in S => mine(c + 1) \in S
  BY EmptySeq
<1> HIDE DEF S, mine
<1>3. w \in Seq(S) /\ Len(w) = c
  BY <1>1
<1>4. Meant(0, n) = <<>>
  <2>1. [k \in 1 .. 0 |-> mine(k)] = <<>>
    OBVIOUS
  <2>2. FlattenSeq(<<>>) = <<>>
    BY DEF FlattenSeq
  <2> QED
    BY <2>1, <2>2 DEF Meant, mine
<1>5. FlattenSeq(w) \in S
  <2> HIDE DEF w
  <2> QED
    BY <1>3, EmptySeq, FlattenAppend DEF S
<1>6. ASSUME mine(c + 1) \in S PROVE u = Append(w, mine(c + 1))
  <2> DEFINE x == mine(c + 1)
             v == Append(w, x)
  <2> HIDE DEF w, x
  <2>1. v \in Seq(S) /\ Len(v) = c + 1 /\ v[c + 1] = x /\ \A k \in 1 .. c : v[k] = w[k]
    BY <1>3, <1>6, AppendProperties DEF x
  <2> HIDE DEF v
  <2>2. u \in Seq(S) /\ Len(u) = c + 1
    <3>1. \A k \in 1 .. c + 1 : mine(k) \in S
      BY <1>1, <1>6
    <3> QED
      BY <3>1
  <2>3. \A k \in 1 .. c + 1 : u[k] = v[k]
    <3> SUFFICES ASSUME NEW k \in 1 .. c + 1 PROVE u[k] = v[k]
      OBVIOUS
    <3>1. CASE k = c + 1
      BY <2>1, <3>1 DEF x
    <3>2. CASE k \in 1 .. c
      BY <2>1, <3>2 DEF w
    <3>3. k = c + 1 \/ k \in 1 .. c
      OBVIOUS
    <3> QED
      BY <3>1, <3>2, <3>3
  <2> HIDE DEF u
  <2>4. u = v
    BY <2>1, <2>2, <2>3, SeqEqual
  <2> QED
    BY <2>4 DEF v, x
<1>7. ASSUME mine(c + 1) \in S PROVE FlattenSeq(u) = FlattenSeq(w) \o mine(c + 1)
  <2> DEFINE x == mine(c + 1)
  <2> HIDE DEF w, u, x
  <2>1. u = Append(w, x) /\ x \in Seq(Item) /\ w \in Seq(Seq(Item))
    BY <1>3, <1>6, <1>7 DEF x, S
  <2>2. FlattenSeq(Append(w, x)) = FlattenSeq(w) \o x
    BY <2>1, FlattenAppend
  <2> QED
    BY <2>1, <2>2 DEF x
<1>8. Meant(c, n) = FlattenSeq(w) /\ Meant(c + 1, n) = FlattenSeq(u)
  BY DEF Meant, mine
<1> HIDE DEF w, u
<1> QED
  BY <1>2, <1>4, <1>5, <1>7, <1>8 DEF S, mine

LEMMA OutputInLast ==
    ASSUME NEW to, Len(to) \in Nat, NEW f, \A i \in 1 .. Len(to) : to[i].boundary <= f
    PROVE  OutputIn(to, f) = Len(to)
<1>1. {i \in 1 .. Len(to) : to[i].boundary <= f} = 1 .. Len(to)
  OBVIOUS
<1>2. Cardinality(1 .. Len(to)) = Len(to)
  <2> DEFINE n == Len(to)
  <2> HIDE DEF n
  <2>1. n \in Nat /\ n \in Int /\ 1 \in Int
    BY DEF n
  <2>2. Cardinality(1 .. n) = IF 1 > n THEN 0 ELSE n - 1 + 1
    BY <2>1, FS_Interval
  <2>3. Cardinality(1 .. n) = n
    BY <2>1, <2>2
  <2> QED
    BY <2>3 DEF n
<1> QED
  BY <1>1, <1>2 DEF OutputIn

\* Opening an output moves no earlier fragment.
LEMMA OutputInGrown ==
    ASSUME NEW S, NEW to \in Seq(S), NEW e, NEW f \in Nat, e.boundary \in Nat, f < e.boundary
    PROVE  OutputIn(Append(to, e), f) = OutputIn(to, f)
<1> DEFINE on == Append(to, e)
<1>1. to \in Seq(S \cup {e}) /\ e \in S \cup {e}
  BY SeqMonotonic
<1>2. /\ Len(to) \in Nat /\ Len(on) = Len(to) + 1
      /\ \A i \in 1 .. Len(to) : on[i] = to[i]
      /\ on[Len(to) + 1] = e
  BY <1>1, AppendProperties, MembersOf
<1> HIDE DEF on
<1>3. {i \in 1 .. Len(on) : on[i].boundary <= f} = {i \in 1 .. Len(to) : to[i].boundary <= f}
  BY <1>2
<1> QED
  BY <1>3 DEF OutputIn, on

LEMMA HeldType ==
    ASSUME NEW fr, Pieced(fr), NEW to, NEW n
    PROVE  Held(fr, to, n) \in Seq(Item)
<1> DEFINE S == Seq(Item)
           w == [f \in 1 .. Len(fr) |-> IF OutputIn(to, f) = n THEN fr[f].items ELSE <<>>]
<1>1. Len(fr) \in Nat /\ \A f \in 1 .. Len(fr) : (IF OutputIn(to, f) = n THEN fr[f].items ELSE <<>>) \in S
  BY PiecedIs, EmptySeq
<1> HIDE DEF S
<1>2. w \in Seq(S)
  BY <1>1
<1> HIDE DEF w
<1>3. FlattenSeq(w) \in Seq(Item)
  BY <1>2, EmptySeq, FlattenAppend DEF S
<1> QED
  BY <1>3 DEF Held, w

\* What of the new fragments an output holds, when all go to output m.
Share(m, n, added) == IF m = n THEN ItemsOf(added) ELSE <<>>

\* A sequence that ends with another.
Joined(all, a, b) == all = a \o b

\* New fragments go to one output, and no old one moves to another.
LEMMA HeldGrows ==
    ASSUME NEW fr, Pieced(fr), NEW added, Pieced(added), NEW to, NEW on, NEW m, NEW n,
           \A f \in 1 .. Len(fr) : OutputIn(on, f) = OutputIn(to, f),
           \A f \in Len(fr) + 1 .. Len(fr) + Len(added) : OutputIn(on, f) = m
    PROVE  Joined(Held(fr \o added, on, n), Held(fr, to, n), Share(m, n, added))
<1> DEFINE S == Seq(Item)
           p == Len(fr)
           q == Len(added)
           all == fr \o added
           w == [f \in 1 .. p |-> IF OutputIn(to, f) = n THEN fr[f].items ELSE <<>>]
           x == [k \in 1 .. q |-> IF m = n THEN added[k].items ELSE <<>>]
           u == [f \in 1 .. p + q |-> IF OutputIn(on, f) = n THEN all[f].items ELSE <<>>]
<1>1. /\ p \in Nat /\ q \in Nat
      /\ \A f \in 1 .. p : fr[f].items \in S
      /\ \A k \in 1 .. q : added[k].items \in S
  BY PiecedIs
<1>2. Len(all) = p + q /\ \A k \in 1 .. p + q : all[k] = IF k <= p THEN fr[k] ELSE added[k - p]
  BY PiecedConcat
<1>3. <<>> \in S
  BY EmptySeq
<1>4. \A f \in 1 .. p : OutputIn(on, f) = OutputIn(to, f)
  OBVIOUS
<1>5. \A f \in p + 1 .. p + q : OutputIn(on, f) = m
  OBVIOUS
<1>6. FlattenSeq(w) = Held(fr, to, n)
  BY DEF Held
<1> HIDE DEF S, p, q, all
<1>7. w \in Seq(S) /\ Len(w) = p
  BY <1>1, <1>3
<1>8. x \in Seq(S) /\ Len(x) = q
  BY <1>1, <1>3
<1>9. u = w \o x
  <2> DEFINE v == w \o x
  <2> HIDE DEF w, x
  <2>1. /\ v \in Seq(S) /\ Len(v) = Len(w) + Len(x)
        /\ \A k \in 1 .. Len(w) + Len(x) : v[k] = IF k <= Len(w) THEN w[k] ELSE x[k - Len(w)]
    BY <1>7, <1>8, ConcatProperties
  <2>2. Len(v) = p + q /\ \A k \in 1 .. p + q : v[k] = IF k <= p THEN w[k] ELSE x[k - p]
    BY <1>7, <1>8, <2>1
  <2> HIDE DEF v
  <2>3. ASSUME NEW k \in 1 .. p + q PROVE u[k] = v[k] /\ u[k] \in S
    <3>1. CASE k <= p
      <4>1. k \in 1 .. p
        BY <1>1, <3>1
      <4>2. u[k] = (IF OutputIn(to, k) = n THEN fr[k].items ELSE <<>>)
        BY <1>2, <1>4, <3>1, <4>1
      <4>3. w[k] = (IF OutputIn(to, k) = n THEN fr[k].items ELSE <<>>)
        BY <4>1 DEF w
      <4> QED
        BY <1>1, <1>3, <2>2, <3>1, <4>1, <4>2, <4>3
    <3>2. CASE ~(k <= p)
      <4>1. k - p \in 1 .. q /\ k \in p + 1 .. p + q
        BY <1>1, <3>2
      <4>2. u[k] = (IF m = n THEN added[k - p].items ELSE <<>>)
        BY <1>2, <1>5, <3>2, <4>1
      <4>3. x[k - p] = (IF m = n THEN added[k - p].items ELSE <<>>)
        BY <4>1 DEF x
      <4> QED
        BY <1>1, <1>3, <2>2, <3>2, <4>1, <4>2, <4>3
    <3> QED
      BY <3>1, <3>2
  <2>4. u \in [1 .. p + q -> {u[k] : k \in 1 .. p + q}]
    OBVIOUS
  <2> HIDE DEF u
  <2>5. u \in [1 .. p + q -> S]
    BY <2>3, <2>4
  <2>6. u \in Seq(S) /\ Len(u) = p + q
    BY <1>1, <2>5
  <2>7. u = v
    BY <2>1, <2>2, <2>3, <2>6, SeqEqual
  <2> QED
    BY <2>7 DEF v
<1>10. FlattenSeq(x) = Share(m, n, added)
  <2>1. CASE m = n
    BY <2>1 DEF ItemsOf, Share, q
  <2>2. CASE m # n
    <3>1. x = [k \in 1 .. q |-> <<>>]
      BY <2>2
    <3> QED
      BY <1>1, <2>2, <3>1, FlattenEmpty DEF Share
  <2> QED
    BY <2>1, <2>2
<1>11. Held(all, on, n) = FlattenSeq(u)
  BY <1>2 DEF Held
<1> HIDE DEF u, w, x
<1>12. FlattenSeq(u) = FlattenSeq(w) \o FlattenSeq(x)
  BY <1>7, <1>8, <1>9, FlattenConcat DEF S
<1> QED
  BY <1>6, <1>10, <1>11, <1>12 DEF all, Joined

-----------------------------------------------------------------------------
(* What a step of the linker does to what outputs hold *)

\* The script alone tells what its commands mean.
LEMMA SameMeaning ==
    ASSUME UNCHANGED script
    PROVE  /\ Commands' = Commands
           /\ \A c, cmd : CountBefore(c, cmd)' = CountBefore(c, cmd)
           /\ \A c : OutputAt(c)' = OutputAt(c)
           /\ \A c : CommandItems(c)' = CommandItems(c)
           /\ \A c, n : Meant(c, n)' = Meant(c, n)
<1>1. Commands' = Commands
  BY DEF Commands
<1>2. \A c, cmd : CountBefore(c, cmd)' = CountBefore(c, cmd)
  BY <1>1 DEF CountBefore
<1>3. \A c : OutputAt(c)' = OutputAt(c)
  BY <1>2 DEF OutputAt
<1>4. \A c : CommandItems(c)' = CommandItems(c)
  BY <1>1, <1>2 DEF CommandItems
<1>5. \A c, n : Meant(c, n)' = Meant(c, n)
  BY <1>3, <1>4 DEF Meant
<1> QED
  BY <1>1, <1>2, <1>3, <1>4, <1>5

\* Fragments are added at the end of the layout.
LEMMA Added ==
    ASSUME PiecesType, NEW added, Pieced(added), fragments' = fragments \o added, UNCHANGED opened
    PROVE  /\ Pieced(fragments') /\ Len(fragments') = Len(fragments) + Len(added)
           /\ \A i \in 1 .. Len(opened') : opened'[i].boundary \in Nat /\ opened'[i].boundary <= Len(fragments')
           /\ \A f \in 1 .. Len(fragments) : OutputIn(opened', f) = OutputIn(opened, f)
           /\ Len(opened) \in Nat =>
                 \A f \in Len(fragments) + 1 .. Len(fragments) + Len(added) : OutputIn(opened', f) = Len(opened)
<1>1. /\ Pieced(fragments') /\ Len(fragments') = Len(fragments) + Len(added)
      /\ Len(fragments) \in Nat /\ Len(added) \in Nat
  BY PiecedConcat, PiecedIs DEF PiecesType
<1>2. \A i \in 1 .. Len(opened) : opened[i].boundary \in Nat /\ opened[i].boundary <= Len(fragments)
  BY DEF PiecesType
<1>3. ASSUME Len(opened) \in Nat, NEW f \in Len(fragments) + 1 .. Len(fragments) + Len(added)
      PROVE  OutputIn(opened', f) = Len(opened)
  <2>1. \A i \in 1 .. Len(opened) : opened[i].boundary <= f
    BY <1>1, <1>2
  <2> QED
    BY <1>3, <2>1, OutputInLast
<1> QED
  BY <1>1, <1>2, <1>3

\* A step that takes one command further, or none.
LEMMA FilledNext ==
    ASSUME PiecesType, Filled, Carried \in Nat, UNCHANGED script,
           NEW added, Pieced(added), fragments' = fragments \o added, NEW m,
           \A f \in 1 .. Len(fragments) : OutputIn(opened', f) = OutputIn(opened, f),
           \A f \in Len(fragments) + 1 .. Len(fragments) + Len(added) : OutputIn(opened', f) = m,
           \/ Carried' = Carried /\ ItemsOf(added) = <<>>
           \/ /\ Carried' = Carried + 1 /\ CommandItems(Carried + 1) = ItemsOf(added)
              /\ OutputAt(Carried + 1) = m \/ ItemsOf(added) = <<>>
    PROVE  Filled'
<1> DEFINE c == Carried
<1>1. Pieced(fragments) /\ ItemsOf(added) \in Seq(Item)
  BY PiecedIs DEF PiecesType
<1>2. /\ \A k \in 1 .. c : CommandItems(k) \in Seq(Item)
      /\ \A n \in Nat : Held(fragments, opened, n) = Meant(c, n)
  BY DEF Filled
<1>3. \A n : Joined(Held(fragments', opened', n), Held(fragments, opened, n), Share(m, n, added))
  BY <1>1, HeldGrows
<1>4. /\ \A k : CommandItems(k)' = CommandItems(k)
      /\ \A k, n : Meant(k, n)' = Meant(k, n)
  BY SameMeaning
<1>5. Carried' = c \/ Carried' = c + 1
  OBVIOUS
<1>6. \A k \in 1 .. Carried' : CommandItems(k) \in Seq(Item)
  <2>1. CASE Carried' = c
    BY <1>2, <2>1
  <2>2. CASE Carried' = c + 1 /\ CommandItems(c + 1) = ItemsOf(added)
    BY <1>1, <1>2, <2>2
  <2> QED
    BY <2>1, <2>2
<1>7. ASSUME NEW n \in Nat PROVE Held(fragments', opened', n) = Meant(Carried', n)
  <2>1. Held(fragments', opened', n) = Meant(c, n) \o (IF m = n THEN ItemsOf(added) ELSE <<>>)
    BY <1>2, <1>3 DEF Joined, Share
  <2>2. Meant(c, n) \in Seq(Item) /\ Meant(c, n) \o <<>> = Meant(c, n)
    BY <1>2, MeantNext, ConcatEmptySeq
  <2>3. CASE ItemsOf(added) = <<>> /\ Carried' = c
    BY <2>1, <2>2, <2>3
  <2>4. CASE Carried' = c + 1 /\ CommandItems(c + 1) = ItemsOf(added)
    <3>1. Meant(c + 1, n) = Meant(c, n) \o (IF OutputAt(c + 1) = n THEN ItemsOf(added) ELSE <<>>)
      BY <1>1, <1>2, <2>4, MeantNext
    <3>2. CASE ItemsOf(added) = <<>>
      BY <2>1, <2>2, <2>4, <3>1, <3>2
    <3>3. CASE OutputAt(c + 1) = m
      BY <2>1, <2>4, <3>1, <3>3
    <3> QED
      BY <2>4, <3>2, <3>3
  <2> QED
    BY <2>3, <2>4
<1>8. \A k \in 1 .. Carried' : CommandItems(k)' \in Seq(Item)
  BY <1>4, <1>6
<1>9. \A n \in Nat : Held(fragments', opened', n) = Meant(Carried, n)'
  BY <1>4, <1>7
<1> QED
  BY <1>8, <1>9 DEF Filled

\* Sequences of fragments: one at the end, none, and grouping.
LEMMA OneMore ==
    \A fr, e : Pieced(fr) /\ e.items \in Seq(Item) => Append(fr, e) = fr \o <<e>> /\ fr \o <<>> = fr
<1> SUFFICES ASSUME NEW fr, Pieced(fr), NEW e, e.items \in Seq(Item)
             PROVE  Append(fr, e) = fr \o <<e>> /\ fr \o <<>> = fr
  OBVIOUS
<1>1. PICK T : fr \in Seq(T)
  BY DEF Pieced
<1>2. fr \in Seq(T \cup {e}) /\ e \in T \cup {e}
  BY <1>1, SeqMonotonic
<1> QED
  BY <1>2, AppendIsConcat, ConcatEmptySeq

LEMMA NothingMore ==
    ASSUME NEW fr, Pieced(fr)
    PROVE  fr = fr \o <<>>
<1>1. PICK T : fr \in Seq(T)
  BY DEF Pieced
<1> QED
  BY <1>1, ConcatEmptySeq

LEMMA NoFragments == Pieced(<<>>) /\ ItemsOf(<<>>) = <<>>
<1> DEFINE T == {}
           s == <<>>
<1>1. \A e \in T : e.items \in Seq(Item)
  OBVIOUS
<1> HIDE DEF T
<1>2. s \in Seq(T) /\ Len(s) = 0
  BY EmptySeq
<1> HIDE DEF s
<1>3. Pieced(s) /\ ItemsOf(s) = <<>>
  BY <1>1, <1>2, NoItems DEF Pieced
<1> QED
  BY <1>3 DEF s

LEMMA Grouped ==
    ASSUME NEW p, Pieced(p), NEW q, Pieced(q), NEW r, Pieced(r)
    PROVE  Joined((p \o q) \o r, p, q \o r)
<1>1. PICK P : p \in Seq(P)
  BY DEF Pieced
<1>2. PICK Q : q \in Seq(Q)
  BY DEF Pieced
<1>3. PICK R : r \in Seq(R)
  BY DEF Pieced
<1> DEFINE A == P \cup Q \cup R
<1>4. p \in Seq(A) /\ q \in Seq(A) /\ r \in Seq(A)
  BY <1>1, <1>2, <1>3, SeqMonotonic
<1> HIDE DEF A
<1> QED
  BY <1>4, Regroup DEF Joined

\* The items an object brings are those of its records.
LEMMA LaidObject ==
    ASSUME LayObject, MarksGood, inputs # <<>>, inputs \in Seq(DOMAIN Objects), Pieced(fragments)
    PROVE  \E added : /\ Pieced(added) /\ fragments' = fragments \o added
                      /\ ItemsOf(added) = ObjectItems(Unit, Len(inputs)) /\ ObjectItems(Unit, Len(inputs)) \in Seq(Item)
<1> DEFINE i == Len(inputs)
           n == Len(Unit.fragments)
           z == <<MarkAt(work.owner)>>
           p == FlattenSeq([f \in 1 .. n |-> Pieces(i, f)])
           e == Marked(MarksIn(n + 1))
           added == z \o p \o e
<1>1. i \in Nat
  BY MembersOf
<1>2. /\ Pieced(z) /\ Pieced(p) /\ Pieced(e)
      /\ Pieced(added) /\ ItemsOf(added) = ObjectItems(Unit, i) /\ ObjectItems(Unit, i) \in Seq(Item)
  BY <1>1, ObjectHolds
<1>3. fragments' = ((fragments \o z) \o p) \o e
  BY DEF LayObject
<1>4. added = (z \o p) \o e
  OBVIOUS
<1> HIDE DEF z, p, e, added, i
<1>5. Pieced(z \o p)
  BY <1>2, PiecedConcat
<1>6. Joined((fragments \o z) \o p, fragments, z \o p)
  BY <1>2, Grouped
<1>7. Joined((fragments \o (z \o p)) \o e, fragments, (z \o p) \o e)
  BY <1>2, <1>5, Grouped
<1>8. fragments' = fragments \o added
  BY <1>3, <1>4, <1>6, <1>7 DEF Joined
<1> QED
  BY <1>2, <1>8 DEF i

-----------------------------------------------------------------------------
(* The invariant, step by step *)

LEMMA CommandsAre ==
    ASSUME LinkerType
    PROVE  /\ Len(Commands) \in Nat /\ ip \in Nat /\ ip > 0 /\ Len(opened) \in Nat
           /\ \A k \in 1 .. Len(Commands) : Commands[k].cmd = "COPY" => Commands[k].size \in Nat
<1>1. script \in Scripts /\ ip \in Nat \ {0} /\ \E S : opened \in Seq(S)
  BY DEF LinkerType
<1>2. /\ script.commands \in Seq(Range(script.commands))
      /\ \A c \in Range(script.commands) : c.cmd = "COPY" => c.size \in Nat
  BY <1>1, FilesAssumption
<1>3. Len(Commands) \in Nat /\ \A k \in 1 .. Len(Commands) : Commands[k] \in Range(Commands)
  BY <1>2, MembersOf DEF Commands
<1>4. Len(opened) \in Nat
  BY <1>1, MembersOf
<1> QED
  BY <1>1, <1>2, <1>3, <1>4 DEF Commands

LEMMA PiecesStart == LinkerInit => PiecesInv
<1> SUFFICES ASSUME LinkerInit PROVE PiecesInv
  OBVIOUS
<1>1. /\ fragments = <<>> /\ opened = <<>> /\ ip = 1 /\ inputs = <<>> /\ anchorCount = 0 /\ job = "parse"
  BY DEF LinkerInit, LinkInit
<1>2. Pieced(<<>>)
  BY NoFragments
<1>3. Len(<<>>) = 0 /\ inputs \in Seq(DOMAIN Objects)
  BY <1>1, EmptySeq
<1> QED
  BY <1>1, <1>2, <1>3 DEF PiecesInv, PiecesType, PiecesJobs, Live

\* Steps that add nothing and read nothing.
LEMMA Quiet ==
    ASSUME PiecesInv, UNCHANGED <<script, ip, inputs, anchorCount, fragments, opened>>,
           \/ job' \in {"failed", "publish", "cleanup", "done"}
           \/ job' = job /\ job \in {"script", "resolve", "layout", "write"}
           \/ job = "script" /\ job' = "resolve" /\ ip > Len(Commands)
           \/ job = "resolve" /\ job' = "layout"
    PROVE  PiecesInv'
<1>1. PiecesType'
  BY DEF PiecesInv, PiecesType
<1>2. Commands' = Commands
  BY SameMeaning
<1>3. PiecesJobs'
  BY <1>2 DEF PiecesInv, PiecesJobs
<1>4. ASSUME job' \in Live PROVE (Numbered /\ Filled)'
  <2>1. job \in Live /\ job # "nodes" /\ job' # "nodes"
    BY <1>4 DEF Live
  <2>2. Carried' = Carried
    BY <2>1 DEF Carried
  <2>3. Numbered /\ Filled
    BY <2>1 DEF PiecesInv
  <2> QED
    BY <2>2, <2>3, SameMeaning DEF Numbered, Filled
<1> QED
  BY <1>1, <1>3, <1>4 DEF PiecesInv

\* While the values of an object are built, its marks stay what they are.
LEMMA Builds ==
    ASSUME PiecesInv, UNCHANGED <<script, ip, opened>>, NextRoot \/ Descend \/ BuildNode \/ Define
    PROVE  PiecesInv'
<1>1. job = "nodes" /\ job' = "nodes" /\ UNCHANGED <<inputs, anchorCount, fragments>>
  BY DEF NextRoot, Descend, BuildNode, Define, Walking, Building
<1>2. "marks" \in DOMAIN work /\ MarksGood
  BY <1>1 DEF PiecesInv, PiecesJobs
<1>3. "marks" \in DOMAIN work' /\ work'.marks = work.marks
  <2>1. CASE NextRoot
    BY <1>2, <2>1 DEF NextRoot
  <2>2. CASE Descend
    BY <1>2, <2>2 DEF Descend
  <2>3. CASE BuildNode
    <3>1. \A n, node : "marks" \in DOMAIN Entered(n, node) /\ Entered(n, node).marks = work.marks
      BY <1>2 DEF Entered
    <3>2. PICK id, node, w, d : Completed(id, node, w, d) /\ (w = work \/ \E n, m : w = Entered(n, m))
      BY <2>3 DEF BuildNode
    <3>3. "marks" \in DOMAIN w /\ w.marks = work.marks
      BY <1>2, <3>1, <3>2
    <3> QED
      BY <3>2, <3>3 DEF Completed
  <2>4. CASE Define
    BY <1>2, <2>4 DEF Define
  <2> QED
    BY <2>1, <2>2, <2>3, <2>4
<1>4. MarksGood'
  BY <1>1, <1>2, <1>3 DEF MarksGood, MarksIn, Unit
<1>5. PiecesType' /\ Commands' = Commands
  BY <1>1, SameMeaning DEF PiecesInv, PiecesType
<1>6. PiecesJobs'
  BY <1>1, <1>3, <1>4, <1>5 DEF PiecesInv, PiecesJobs
<1>7. Numbered /\ Filled /\ Carried' = Carried
  BY <1>1 DEF PiecesInv, Live, Carried
<1>8. (Numbered /\ Filled)'
  BY <1>1, <1>7, SameMeaning DEF Numbered, Filled
<1> QED
  BY <1>5, <1>6, <1>8 DEF PiecesInv

\* A command that adds fragments to the output at hand.
LEMMA Advance ==
    ASSUME LinkerType, PiecesInv, job = "script", job' = "script", ip <= Len(Commands), ip' = ip + 1,
           Command.cmd \notin {"OUTPUT", "LINK"}, UNCHANGED <<script, inputs, opened, anchorCount>>,
           NEW added, Pieced(added), fragments' = fragments \o added, ItemsOf(added) = CommandItems(ip)
    PROVE  PiecesInv'
<1>1. /\ ip \in Nat /\ ip > 0 /\ ip \in Nat \ {0} /\ Len(Commands) \in Nat /\ Len(opened) \in Nat
  BY CommandsAre
<1>2. PiecesType /\ Numbered /\ Filled
  BY DEF PiecesInv, Live
<1>3. Carried = ip - 1 /\ Carried' = ip /\ Carried \in Nat /\ Carried + 1 = ip
  BY <1>1 DEF Carried
<1>4. /\ CountBefore(ip + 1, "OUTPUT") = CountBefore(ip, "OUTPUT")
      /\ CountBefore(ip + 1, "LINK") = CountBefore(ip, "LINK")
  <2>1. Commands[ip].cmd # "OUTPUT" /\ Commands[ip].cmd # "LINK"
    BY DEF Command
  <2> QED
    BY <1>1, <2>1, CountNext
<1>5. OutputAt(ip + 1) = OutputAt(ip)
  BY <1>4 DEF OutputAt
<1>6. Numbered'
  <2>1. ip + 1 <= Len(Commands) + 1
    BY <1>1
  <2> QED
    BY <1>2, <1>4, <1>5, <2>1, SameMeaning DEF Numbered
<1>7. PiecesType'
  BY <1>2, Added DEF PiecesType
<1>8. Filled'
  <2> DEFINE m == Len(opened)
  <2>1. /\ \A f \in 1 .. Len(fragments) : OutputIn(opened', f) = OutputIn(opened, f)
        /\ \A f \in Len(fragments) + 1 .. Len(fragments) + Len(added) : OutputIn(opened', f) = m
    BY <1>1, <1>2, Added
  <2>2. OutputAt(Carried + 1) = m /\ CommandItems(Carried + 1) = ItemsOf(added) /\ Carried' = Carried + 1
    BY <1>2, <1>3 DEF Numbered
  <2> HIDE DEF m
  <2> QED
    BY <1>2, <1>3, <2>1, <2>2, FilledNext
<1> QED
  BY <1>6, <1>7, <1>8 DEF PiecesInv, PiecesJobs

\* Fragments without items, and no other command.
LEMMA AddsNothing ==
    ASSUME LinkerType, PiecesInv, UNCHANGED <<script, ip, inputs, opened, anchorCount>>,
           NEW added, Pieced(added), fragments' = fragments \o added, ItemsOf(added) = <<>>
    PROVE  /\ PiecesType'
           /\ job \in Live \ {"nodes"} /\ job' \in Live \ {"nodes"} => (Numbered /\ Filled)'
<1>1. PiecesType /\ ip \in Nat /\ ip > 0 /\ Len(opened) \in Nat
  BY CommandsAre DEF PiecesInv
<1>2. PiecesType'
  BY <1>1, Added DEF PiecesType
<1>3. ASSUME job \in Live \ {"nodes"}, job' \in Live \ {"nodes"} PROVE (Numbered /\ Filled)'
  <2>1. Numbered /\ Filled
    BY <1>3 DEF PiecesInv
  <2>2. Carried' = Carried /\ Carried \in Nat
    BY <1>1, <1>3 DEF Carried
  <2>3. Numbered'
    BY <2>1, SameMeaning DEF Numbered
  <2>4. Filled'
    <3> DEFINE m == Len(opened)
    <3>1. /\ \A f \in 1 .. Len(fragments) : OutputIn(opened', f) = OutputIn(opened, f)
          /\ \A f \in Len(fragments) + 1 .. Len(fragments) + Len(added) : OutputIn(opened', f) = m
      BY <1>1, Added
    <3> HIDE DEF m
    <3> QED
      BY <1>1, <2>1, <2>2, <3>1, FilledNext
  <2> QED
    BY <2>3, <2>4
<1> QED
  BY <1>2, <1>3

LEMMA HeldNothing ==
    ASSUME NEW fr, Len(fr) \in Nat, \A f \in 1 .. Len(fr) : fr[f].items = <<>>, NEW to, NEW n
    PROVE  Held(fr, to, n) = <<>>
<1>1. [f \in 1 .. Len(fr) |-> IF OutputIn(to, f) = n THEN fr[f].items ELSE <<>>] = [f \in 1 .. Len(fr) |-> <<>>]
  OBVIOUS
<1> QED
  BY <1>1, FlattenEmpty DEF Held

LEMMA ParsePieces == LinkerType /\ PiecesInv /\ Parse => PiecesInv'
<1> SUFFICES ASSUME LinkerType, PiecesInv, Parse PROVE PiecesInv'
  OBVIOUS
<1>1. /\ job = "parse" /\ job' \in {"script", "failed"} /\ UNCHANGED <<script, ip, inputs>>
      /\ fragments = <<>> /\ opened = <<>> /\ ip = 1 /\ inputs = <<>>
  BY DEF Parse, Running, PiecesInv, PiecesJobs
<1>2. CASE job' = "failed"
  <2>1. UNCHANGED <<script, ip, inputs, anchorCount, fragments, opened>>
    BY <1>1, <1>2 DEF Parse
  <2> QED
    BY <1>2, <2>1, Quiet
<1>3. CASE job' = "script"
  <2>1. /\ Len(Commands) \in Nat /\ CountBefore(1, "LINK") = 0 /\ CountBefore(1, "OUTPUT") = 0
    BY CommandsAre, CountNext, <1>1
  <2>2. OutputAt(1) = IF script.default = "NONE" THEN 0 ELSE 1
    BY <2>1 DEF OutputAt
  <2>3. /\ Len(opened') = OutputAt(1) /\ anchorCount' \in Nat
        /\ Pieced(fragments') /\ Len(fragments') \in Nat /\ \A f \in 1 .. Len(fragments') : fragments'[f].items = <<>>
        /\ \A i \in 1 .. Len(opened') : opened'[i].boundary \in Nat /\ opened'[i].boundary <= Len(fragments')
    <3>1. CASE script.default = "NONE"
      <4>1. UNCHANGED <<opened, anchorCount, fragments>>
        BY <3>1 DEF Parse
      <4> QED
        BY <1>1, <2>2, <3>1, <4>1 DEF PiecesInv, PiecesType
    <3>2. CASE script.default # "NONE"
      <4> DEFINE e == MarkAt(1)
      <4>1. /\ opened' = <<[file |-> script.default, boundary |-> 1]>>
            /\ anchorCount' = 1 /\ fragments' = <<e>>
        BY <1>3, <3>2 DEF Parse
      <4>2. e.items = <<>>
        BY DEF MarkAt, Entry
      <4> HIDE DEF e
      <4>3. Pieced(<<e>>)
        BY <4>2, OneItem, EmptySeq
      <4>4. Len(opened') = 1 /\ opened'[1].boundary = 1 /\ Len(fragments') = 1 /\ fragments'[1].items = <<>>
        BY <4>1, <4>2
      <4> QED
        BY <2>2, <3>2, <4>1, <4>3, <4>4
    <3> QED
      BY <3>1, <3>2
  <2>4. PiecesType'
    BY <1>1, <2>3 DEF PiecesInv, PiecesType
  <2>5. Numbered'
    <3>1. 1 <= Len(Commands) + 1 /\ Len(inputs) = 0
      BY <1>1, <2>1
    <3> QED
      BY <1>1, <2>1, <2>3, <3>1, SameMeaning DEF Numbered
  <2>6. Filled'
    <3>1. Carried' = 0
      BY <1>1, <1>3 DEF Carried
    <3>2. ASSUME NEW n PROVE Held(fragments', opened', n) = <<>> /\ Meant(0, n) = <<>>
      <4>1. Held(fragments', opened', n) = <<>>
        BY <2>3, HeldNothing
      <4>2. Meant(0, n) = <<>>
        <5>1. \A k \in 1 .. 0 : CommandItems(k) \in Seq(Item)
          OBVIOUS
        <5> QED
          BY <5>1, MeantNext
      <4> QED
        BY <4>1, <4>2
    <3>3. \A n : Meant(0, n)' = <<>>
      BY <1>1, <3>2, SameMeaning
    <3> QED
      BY <3>1, <3>2, <3>3 DEF Filled
  <2> QED
    BY <1>3, <2>4, <2>5, <2>6 DEF PiecesInv, PiecesJobs
<1> QED
  BY <1>1, <1>2, <1>3

LEMMA OutputPieces == LinkerType /\ PiecesInv /\ DoOutput => PiecesInv'
<1> SUFFICES ASSUME LinkerType, PiecesInv, DoOutput PROVE PiecesInv'
  OBVIOUS
<1> DEFINE e == [file |-> Command.file, boundary |-> Len(fragments) + 1]
           x == MarkAt(anchorCount + 1)
           added == <<x>>
<1>1. /\ job = "script" /\ job' = "script" /\ ip <= Len(Commands) /\ Commands[ip].cmd = "OUTPUT" /\ ip' = ip + 1
      /\ UNCHANGED <<script, inputs>> /\ anchorCount' = anchorCount + 1
      /\ opened' = Append(opened, e) /\ fragments' = Append(fragments, x)
  BY DEF DoOutput, InScript, Running, Done, Command
<1>2. /\ ip \in Nat /\ ip > 0 /\ ip \in Nat \ {0} /\ Len(Commands) \in Nat /\ Len(opened) \in Nat
  BY CommandsAre
<1>3. PiecesType /\ Numbered /\ Filled
  BY <1>1 DEF PiecesInv, Live
<1>4. Len(fragments) \in Nat /\ Pieced(fragments)
  BY <1>3, PiecedIs DEF PiecesType
<1>5. x.items = <<>> /\ e.boundary = Len(fragments) + 1
  BY DEF MarkAt, Entry
<1> HIDE DEF e, x
<1>6. Pieced(added) /\ Len(added) = 1 /\ ItemsOf(added) = <<>>
  BY <1>5, OneItem, EmptySeq
<1>7. fragments' = fragments \o added
  BY <1>1, <1>4, <1>5, OneMore, EmptySeq
<1> HIDE DEF added
<1>8. PICK S : opened \in Seq(S)
  BY DEF LinkerType
<1>9. /\ Len(opened') = Len(opened) + 1 /\ opened'[Len(opened) + 1] = e
      /\ \A i \in 1 .. Len(opened) : opened'[i] = opened[i]
  <2>1. opened \in Seq(S \cup {e}) /\ e \in S \cup {e}
    BY <1>8, SeqMonotonic
  <2> QED
    BY <1>1, <2>1, AppendProperties
<1>10. Pieced(fragments') /\ Len(fragments') = Len(fragments) + 1
  BY <1>4, <1>6, <1>7, PiecedConcat
<1>11. \A i \in 1 .. Len(opened') : opened'[i].boundary \in Nat /\ opened'[i].boundary <= Len(fragments) + 1
  <2> SUFFICES ASSUME NEW i \in 1 .. Len(opened')
               PROVE  opened'[i].boundary \in Nat /\ opened'[i].boundary <= Len(fragments) + 1
    OBVIOUS
  <2>1. CASE i = Len(opened) + 1
    BY <1>4, <1>5, <1>9, <2>1
  <2>2. CASE i # Len(opened) + 1
    <3>1. i \in 1 .. Len(opened) /\ opened'[i] = opened[i]
      BY <1>2, <1>9, <2>2
    <3> QED
      BY <1>3, <1>4, <3>1 DEF PiecesType
  <2> QED
    BY <2>1, <2>2
<1>12. PiecesType'
  BY <1>1, <1>3, <1>10, <1>11 DEF PiecesType
<1>13. /\ CountBefore(ip + 1, "OUTPUT") = CountBefore(ip, "OUTPUT") + 1 /\ CountBefore(ip, "OUTPUT") \in Nat
       /\ CountBefore(ip + 1, "LINK") = CountBefore(ip, "LINK") /\ CountBefore(ip, "LINK") \in Nat
  <2>1. Commands[ip].cmd = "OUTPUT" /\ Commands[ip].cmd # "LINK"
    BY <1>1
  <2>2. CountBefore(ip + 1, "OUTPUT") = CountBefore(ip, "OUTPUT") + 1 /\ CountBefore(ip, "OUTPUT") \in Nat
    BY <1>2, <2>1, CountNext
  <2>3. CountBefore(ip + 1, "LINK") = CountBefore(ip, "LINK") /\ CountBefore(ip, "LINK") \in Nat
    <3>1. CountBefore(ip, "LINK") \in Nat
      BY <1>2, CountNext
    <3>2. CountBefore(ip + 1, "LINK") = CountBefore(ip, "LINK") + IF Commands[ip].cmd = "LINK" THEN 1 ELSE 0
      BY <1>2, CountNext
    <3> QED
      BY <2>1, <3>1, <3>2
  <2> QED
    BY <2>2, <2>3
<1>14. OutputAt(ip + 1) = OutputAt(ip) + 1
  BY <1>13 DEF OutputAt
<1>15. Numbered'
  <2>1. ip + 1 <= Len(Commands) + 1 /\ Len(opened') = OutputAt(ip + 1)
    BY <1>1, <1>2, <1>3, <1>9, <1>14 DEF Numbered
  <2> QED
    BY <1>1, <1>3, <1>13, <2>1, SameMeaning DEF Numbered
<1>16. Filled'
  <2> DEFINE m == Len(opened) + 1
  <2>1. \A f \in 1 .. Len(fragments) : OutputIn(opened', f) = OutputIn(opened, f)
    <3>1. e.boundary \in Nat /\ \A f \in 1 .. Len(fragments) : f \in Nat /\ f < e.boundary
      BY <1>4, <1>5
    <3>2. \A f \in 1 .. Len(fragments) : OutputIn(Append(opened, e), f) = OutputIn(opened, f)
      BY <1>8, <3>1, OutputInGrown
    <3> QED
      BY <1>1, <3>2
  <2>2. ASSUME NEW f \in Len(fragments) + 1 .. Len(fragments) + Len(added) PROVE OutputIn(opened', f) = m
    <3>1. f = Len(fragments) + 1 /\ \A i \in 1 .. Len(opened') : opened'[i].boundary <= f
      BY <1>4, <1>6, <1>11
    <3> QED
      BY <1>2, <1>9, <3>1, OutputInLast
  <2>3. /\ Carried \in Nat /\ Carried' = Carried + 1 /\ Carried + 1 = ip
    BY <1>1, <1>2 DEF Carried
  <2>4. CommandItems(ip) = <<>>
    BY <1>1 DEF CommandItems
  <2>5. /\ Carried' = Carried + 1 /\ CommandItems(Carried + 1) = ItemsOf(added)
        /\ OutputAt(Carried + 1) = m \/ ItemsOf(added) = <<>>
    BY <1>6, <2>3, <2>4
  <2>6. PiecesType /\ Filled /\ Carried \in Nat /\ UNCHANGED script /\ Pieced(added)
    BY <1>1, <1>3, <1>6, <2>3
  <2> HIDE DEF m
  <2> QED
    BY <1>7, <2>1, <2>2, <2>5, <2>6, FilledNext
<1> QED
  BY <1>1, <1>12, <1>15, <1>16 DEF PiecesInv, PiecesJobs

\* Items of a copied file, and of what holds nothing.
LEMMA CommandPieces == LinkerType /\ PiecesInv /\ (DoCopy \/ DoPad \/ SkipRam \/ DoBank) => PiecesInv'
<1> SUFFICES ASSUME LinkerType, PiecesInv, DoCopy \/ DoPad \/ SkipRam \/ DoBank PROVE PiecesInv'
  OBVIOUS
<1>1. /\ job = "script" /\ job' = "script" /\ ip <= Len(Commands) /\ ip' = ip + 1
      /\ UNCHANGED <<script, inputs, opened, anchorCount>> /\ Command = Commands[ip]
  BY DEF DoCopy, DoPad, SkipRam, DoBank, InScript, Running, Done, Command
<1>2. /\ ip \in Nat /\ ip > 0 /\ Len(Commands) \in Nat
      /\ \A k \in 1 .. Len(Commands) : Commands[k].cmd = "COPY" => Commands[k].size \in Nat
  BY CommandsAre
<1>3. Pieced(fragments)
  BY DEF PiecesInv, PiecesType
<1>4. Pieced(<<>>) /\ ItemsOf(<<>>) = <<>>
  BY NoFragments
<1>5. CASE DoCopy
  <2> DEFINE e == CopyOf(Command.size)
  <2>1. Command.cmd = "COPY" /\ fragments' = Append(fragments, e)
    BY <1>5 DEF DoCopy, InScript
  <2>2. Command.size \in Nat
    BY <1>1, <1>2, <2>1
  <2>3. e.items = Items(0, ip, 1, Command.size)
    BY DEF CopyOf, Entry
  <2>4. e.items \in Seq(Item)
    <3>1. ASSUME NEW n \in Nat PROVE Items(0, ip, 1, n) \in Seq(Item)
      <4>1. 0 \in Nat /\ ip \in Nat /\ n <= n
        BY <1>2
      <4> QED
        BY <4>1, ItemsAre
    <3> QED
      BY <2>2, <2>3, <3>1
  <2>5. CommandItems(ip) = e.items
    BY <1>1, <2>1, <2>3 DEF CommandItems
  <2> HIDE DEF e
  <2>6. Pieced(<<e>>) /\ ItemsOf(<<e>>) = e.items
    BY <2>4, OneItem
  <2>7. fragments' = fragments \o <<e>>
    BY <1>3, <2>1, <2>4, OneMore
  <2> QED
    BY <1>1, <2>1, <2>5, <2>6, <2>7, Advance
<1>6. CASE DoPad
  <2> DEFINE e == PadTo(Command.kind, Command.argument)
  <2>1. Command.cmd = "PAD" /\ fragments' = Append(fragments, e)
    BY <1>6 DEF DoPad, InScript
  <2>2. e.items = <<>>
    BY DEF PadTo
  <2>3. CommandItems(ip) = <<>>
    BY <1>1, <2>1 DEF CommandItems
  <2> HIDE DEF e
  <2>4. Pieced(<<e>>) /\ ItemsOf(<<e>>) = <<>>
    BY <2>2, OneItem, EmptySeq
  <2>5. fragments' = fragments \o <<e>>
    BY <1>3, <2>1, <2>2, OneMore, EmptySeq
  <2> QED
    BY <1>1, <2>1, <2>3, <2>4, <2>5, Advance
<1>7. CASE SkipRam
  <2>1. Command.cmd = "RAM" /\ fragments' = fragments
    BY <1>7 DEF SkipRam, InScript
  <2>2. CommandItems(ip) = <<>>
    BY <1>1, <2>1 DEF CommandItems
  <2>3. fragments' = fragments \o <<>>
    BY <1>3, <2>1, NothingMore
  <2> QED
    BY <1>1, <1>4, <2>1, <2>2, <2>3, Advance
<1>8. CASE DoBank
  <2> DEFINE x == IF calls > 0 THEN <<BankEnd>> ELSE <<>>
             e == BankOf(bankOrigin', bankSize')
             y == <<e>>
  <2>1. Command.cmd = "BANK" /\ fragments' = (fragments \o x) \o y
    BY <1>8 DEF DoBank, InScript
  <2>2. e.items = <<>> /\ BankEnd.items = <<>>
    BY DEF BankOf, BankEnd, Entry
  <2>3. CommandItems(ip) = <<>>
    BY <1>1, <2>1 DEF CommandItems
  <2> HIDE DEF e
  <2>4. Pieced(y) /\ ItemsOf(y) = <<>>
    BY <2>2, OneItem, EmptySeq
  <2>5. Pieced(x) /\ ItemsOf(x) = <<>>
    <3>1. Pieced(<<BankEnd>>) /\ ItemsOf(<<BankEnd>>) = <<>>
      BY <2>2, OneItem, EmptySeq
    <3> QED
      BY <1>4, <3>1
  <2> HIDE DEF x, y
  <2>6. Pieced(x \o y) /\ ItemsOf(x \o y) = ItemsOf(x) \o ItemsOf(y)
    BY <2>4, <2>5, PiecedConcat
  <2>7. <<>> \o <<>> = <<>>
    BY EmptySeq, ConcatEmptySeq
  <2>8. ItemsOf(x \o y) = <<>>
    BY <2>4, <2>5, <2>6, <2>7
  <2>9. Joined((fragments \o x) \o y, fragments, x \o y)
    BY <1>3, <2>4, <2>5, Grouped
  <2>10. fragments' = fragments \o (x \o y)
    BY <2>1, <2>9 DEF Joined
  <2> QED
    BY <1>1, <2>1, <2>3, <2>6, <2>8, <2>10, Advance
<1> QED
  BY <1>5, <1>6, <1>7, <1>8

LEMMA LinkPieces == LinkerType /\ PiecesInv /\ DoLink => PiecesInv'
<1> SUFFICES ASSUME LinkerType, PiecesInv, DoLink PROVE PiecesInv'
  OBVIOUS
<1> DEFINE e == OriginAt(Command.origin)
<1>1. /\ job = "script" /\ job' = "read" /\ ip <= Len(Commands) /\ Command.cmd = "LINK"
      /\ UNCHANGED <<script, ip, inputs, opened, anchorCount>>
      /\ fragments' = fragments \/ fragments' = Append(fragments, e)
  BY DEF DoLink, InScript, Running
<1>2. Pieced(fragments)
  BY DEF PiecesInv, PiecesType
<1>3. e.items = <<>>
  BY DEF OriginAt
<1> HIDE DEF e
<1>4. \E added : Pieced(added) /\ ItemsOf(added) = <<>> /\ fragments' = fragments \o added
  <2>1. CASE fragments' = fragments
    BY <1>2, <2>1, NoFragments, NothingMore
  <2>2. CASE fragments' = Append(fragments, e)
    <3>1. Pieced(<<e>>) /\ ItemsOf(<<e>>) = <<>>
      BY <1>3, OneItem, EmptySeq
    <3>2. fragments' = fragments \o <<e>>
      BY <1>2, <1>3, <2>2, OneMore, EmptySeq
    <3> QED
      BY <3>1, <3>2
  <2> QED
    BY <1>1, <2>1, <2>2
<1>5. PiecesType' /\ (Numbered /\ Filled)'
  BY <1>1, <1>4, AddsNothing DEF Live
<1>6. Commands' = Commands /\ Command' = Command
  BY <1>1, SameMeaning DEF Command
<1> QED
  BY <1>1, <1>5, <1>6 DEF PiecesInv, PiecesJobs

LEMMA LayOutPieces == LinkerType /\ PiecesInv /\ LayOut => PiecesInv'
<1> SUFFICES ASSUME LinkerType, PiecesInv, LayOut PROVE PiecesInv'
  OBVIOUS
<1>1. /\ job = "layout" /\ job' \in {"write", "failed"}
      /\ UNCHANGED <<script, ip, inputs, opened, anchorCount>>
      /\ fragments' = fragments \/ fragments' = Append(fragments, BankEnd)
  BY DEF LayOut, Running, Sealed
<1>2. Pieced(fragments) /\ BankEnd.items = <<>>
  BY DEF PiecesInv, PiecesType, BankEnd, Entry
<1>3. \E added : Pieced(added) /\ ItemsOf(added) = <<>> /\ fragments' = fragments \o added
  <2>1. CASE fragments' = fragments
    BY <1>2, <2>1, NoFragments, NothingMore
  <2>2. CASE fragments' = Append(fragments, BankEnd)
    <3>1. Pieced(<<BankEnd>>) /\ ItemsOf(<<BankEnd>>) = <<>>
      BY <1>2, OneItem, EmptySeq
    <3>2. fragments' = fragments \o <<BankEnd>>
      BY <1>2, <2>2, OneMore, EmptySeq
    <3> QED
      BY <3>1, <3>2
  <2> QED
    BY <1>1, <2>1, <2>2
<1>4. PiecesType' /\ (job' = "write" => (Numbered /\ Filled)')
  BY <1>1, <1>3, AddsNothing DEF Live
<1>5. ip' > Len(Commands')
  BY <1>1, SameMeaning DEF PiecesInv, PiecesJobs
<1> QED
  BY <1>1, <1>4, <1>5 DEF PiecesInv, PiecesJobs, Live

\* The marks of an object that has been checked lie where its records say.
LEMMA MarksMade ==
    ASSUME NEW file \in DOMAIN Objects, Valid(Objects[file]), anchorCount \in Nat, NEW f \in Nat
    PROVE  LET o == Objects[file]
               ms == MarksOf(o, AnchorIds(o), f)
           IN  /\ ms \in Seq(Mark)
               /\ f \in 1 .. Len(o.fragments) /\ o.fragments[f].kind = "RAW" => Along(ms, o.fragments[f].size)
<1> DEFINE o == Objects[file]
           ids == AnchorIds(o)
           ms == MarksOf(o, ids, f)
<1>1. /\ o.ram \in Nat /\ o.anchors \in Seq(Range(o.anchors))
      /\ \A a \in Range(o.anchors) : a.kind = "RAW" => a.offset \in Nat
      /\ Len(o.fragments) \in Nat
      /\ \A g \in 1 .. Len(o.fragments) : o.fragments[g].kind = "RAW" => o.fragments[g].size \in Nat
  BY Records
<1>2. Len(o.anchors) \in Nat /\ \A i \in 1 .. Len(o.anchors) : o.anchors[i] \in Range(o.anchors)
  BY <1>1, MembersOf
<1>3. \A i \in 1 .. Len(o.anchors) : ValidAnchor(o, o.anchors[i])
  BY <1>2 DEF Valid
<1> HIDE DEF o
<1>4. ASSUME NEW i \in MarkedIn(o, f)
      PROVE  /\ i \in 1 .. Len(o.anchors) /\ o.anchors[i].kind \in {"FRAGMENT", "RAW", "END"}
             /\ f \in 1 .. Len(o.fragments) => o.anchors[i].kind # "END" /\ o.anchors[i].to = f
             /\ ids[i] = anchorCount + 1 + (o.ram + i)
  <2>1. i \in 1 .. Len(o.anchors) /\ o.anchors[i].kind \in {"FRAGMENT", "RAW", "END"}
    BY DEF MarkedIn
  <2>2. f \in 1 .. Len(o.fragments) => o.anchors[i].kind # "END" /\ o.anchors[i].to = f
    <3>1. f \in 1 .. Len(o.fragments) => f # Len(o.fragments) + 1
      BY <1>1
    <3> QED
      BY <3>1 DEF MarkedIn
  <2>3. o.anchors[i].kind # "RAM" /\ o.anchors[i].kind # "FIXUP"
    BY <2>1
  <2>4. ids[i] = anchorCount + 1 + (o.ram + i)
    BY <2>1, <2>3 DEF AnchorIds
  <2> QED
    BY <2>1, <2>2, <2>4
<1> HIDE DEF ids
<1>5. \A i \in MarkedIn(o, f) : ids[i] \in Nat
  <2> SUFFICES ASSUME NEW i \in MarkedIn(o, f) PROVE ids[i] \in Nat
    OBVIOUS
  <2>1. i \in 1 .. Len(o.anchors) /\ ids[i] = anchorCount + 1 + (o.ram + i)
    BY <1>4
  <2> QED
    BY <1>1, <2>1
<1>6. \A i, j \in MarkedIn(o, f) : ids[i] = ids[j] => i = j
  <2> SUFFICES ASSUME NEW i \in MarkedIn(o, f), NEW j \in MarkedIn(o, f), ids[i] = ids[j] PROVE i = j
    OBVIOUS
  <2>1. i \in 1 .. Len(o.anchors) /\ ids[i] = anchorCount + 1 + (o.ram + i)
    BY <1>4
  <2>2. j \in 1 .. Len(o.anchors) /\ ids[j] = anchorCount + 1 + (o.ram + j)
    BY <1>4
  <2> DEFINE r == o.ram
  <2>3. i \in Nat /\ j \in Nat /\ r \in Nat
    BY <1>1, <1>2, <2>1, <2>2
  <2>4. anchorCount + 1 + (r + i) = anchorCount + 1 + (r + j)
    <3>1. ids[i] = anchorCount + 1 + (r + i)
      BY <2>1
    <3>2. ids[j] = anchorCount + 1 + (r + j)
      BY <2>2
    <3> HIDE DEF r
    <3> QED
      BY <3>1, <3>2
  <2> HIDE DEF r
  <2> QED
    BY <2>3, <2>4
<1>7. /\ ms \in Seq(Mark)
      /\ \A k \in 1 .. Len(ms) : \E i \in MarkedIn(o, f) : ms[k].offset = OffsetOf(o.anchors[i])
      /\ \A j, k \in 1 .. Len(ms) : j < k => ms[j].offset <= ms[k].offset
  BY <1>1, <1>5, <1>6, MarksAre
<1> HIDE DEF ms
<1>8. ASSUME f \in 1 .. Len(o.fragments), o.fragments[f].kind = "RAW", NEW k \in 1 .. Len(ms)
      PROVE  ms[k].offset <= o.fragments[f].size
  <2>1. PICK i \in MarkedIn(o, f) : ms[k].offset = OffsetOf(o.anchors[i])
    BY <1>7
  <2>2. i \in 1 .. Len(o.anchors) /\ o.anchors[i].kind \in {"FRAGMENT", "RAW"} /\ o.anchors[i].to = f
    BY <1>4, <1>8
  <2>3. CASE o.anchors[i].kind = "RAW"
    <3>1. o.anchors[i].offset <= o.fragments[f].size
      BY <1>3, <2>2, <2>3 DEF ValidAnchor
    <3> QED
      BY <2>1, <2>3, <3>1 DEF OffsetOf
  <2>4. CASE o.anchors[i].kind = "FRAGMENT"
    <3>1. ms[k].offset = 0 /\ o.fragments[f].size \in Nat
      BY <1>1, <1>8, <2>1, <2>4 DEF OffsetOf
    <3> QED
      BY <3>1
  <2> QED
    BY <2>2, <2>3, <2>4
<1> QED
  BY <1>7, <1>8 DEF Along, ms, ids, o

LEMMA ReadPieces == LinkerType /\ PiecesInv /\ ReadObject => PiecesInv'
<1> SUFFICES ASSUME LinkerType, PiecesInv, ReadObject PROVE PiecesInv'
  OBVIOUS
<1> DEFINE file == Command.file
           o == Objects[file]
<1>1. /\ job = "read" /\ job' = "nodes" /\ ip' = ip + 1 /\ UNCHANGED <<script, opened, fragments>>
      /\ file \in DOMAIN Objects /\ Valid(o)
      /\ inputs' = Append(inputs, file) /\ anchorCount' = anchorCount + 1 + o.ram + Len(o.anchors)
      /\ work' = Workspace(o)
  BY DEF ReadObject, Running, AddObject
<1>2. /\ ip \in Nat /\ ip > 0 /\ ip \in Nat \ {0} /\ Len(Commands) \in Nat
  BY CommandsAre
<1>3. /\ PiecesType /\ Numbered /\ Filled
      /\ ip <= Len(Commands) /\ Commands[ip].cmd = "LINK" /\ file = Commands[ip].file
  BY <1>1 DEF PiecesInv, PiecesJobs, Live, Command
<1> HIDE DEF file
<1>4. /\ inputs \in Seq(DOMAIN Objects) /\ anchorCount \in Nat /\ Pieced(fragments)
      /\ \A i \in 1 .. Len(opened) : opened[i].boundary \in Nat /\ opened[i].boundary <= Len(fragments)
  BY <1>3 DEF PiecesType
<1>5. /\ inputs' \in Seq(DOMAIN Objects) /\ Len(inputs') = Len(inputs) + 1 /\ Len(inputs) \in Nat
      /\ inputs'[Len(inputs')] = file
  BY <1>1, <1>4, AppendProperties, MembersOf
<1>6. o.ram \in Nat /\ Len(o.anchors) \in Nat /\ Len(o.fragments) \in Nat
  BY <1>1, Records, MembersOf
<1>7. Unit' = o
  BY <1>5 DEF Unit
<1> HIDE DEF o
<1>8. anchorCount' \in Nat
  BY <1>1, <1>4, <1>6
<1>9. PiecesType'
  BY <1>1, <1>4, <1>5, <1>8 DEF PiecesType
<1>10. "marks" \in DOMAIN work' /\ \A f \in 1 .. Len(o.fragments) + 1 : work'.marks[f] = MarksOf(o, AnchorIds(o), f)
  BY <1>1 DEF Workspace
<1>11. MarksGood'
  <2>1. ASSUME NEW f \in 1 .. Len(o.fragments) + 1
        PROVE  /\ MarksIn(f)' \in Seq(Mark)
               /\ f \in 1 .. Len(o.fragments) /\ o.fragments[f].kind = "RAW" => Along(MarksIn(f)', o.fragments[f].size)
    <3>1. MarksIn(f)' = MarksOf(o, AnchorIds(o), f)
      BY <1>10 DEF MarksIn
    <3>2. f \in Nat
      BY <1>6
    <3> QED
      BY <1>1, <1>4, <3>1, <3>2, MarksMade DEF o
  <2>2. \A f \in 1 .. Len(o.fragments) : f \in 1 .. Len(o.fragments) + 1
    BY <1>6
  <2> QED
    BY <1>7, <2>1, <2>2 DEF MarksGood
<1>12. /\ CountBefore(ip + 1, "OUTPUT") = CountBefore(ip, "OUTPUT")
       /\ CountBefore(ip + 1, "LINK") = CountBefore(ip, "LINK") + 1
  <2>1. CountBefore(ip, "OUTPUT") \in Nat
    BY <1>2, CountNext
  <2>2. CountBefore(ip + 1, "OUTPUT") = CountBefore(ip, "OUTPUT") + IF Commands[ip].cmd = "OUTPUT" THEN 1 ELSE 0
    BY <1>2, CountNext
  <2>3. CountBefore(ip + 1, "LINK") = CountBefore(ip, "LINK") + IF Commands[ip].cmd = "LINK" THEN 1 ELSE 0
    BY <1>2, CountNext
  <2> QED
    BY <1>3, <2>1, <2>2, <2>3
<1>13. Numbered'
  <2>1. OutputAt(ip + 1) = OutputAt(ip)
    BY <1>12 DEF OutputAt
  <2>2. ip + 1 <= Len(Commands) + 1
    BY <1>2, <1>3
  <2> QED
    BY <1>1, <1>3, <1>5, <1>12, <2>1, <2>2, SameMeaning DEF Numbered
<1>14. Carried' = Carried
  BY <1>1, <1>2 DEF Carried
<1>15. Filled'
  BY <1>1, <1>3, <1>14, SameMeaning DEF Filled
<1>16. PiecesJobs'
  <2>1. ip' > 1 /\ ip' - 1 = ip /\ Len(inputs') # 0
    BY <1>1, <1>2, <1>5
  <2>2. inputs' # <<>>
    BY <2>1
  <2>3. Commands' = Commands
    BY <1>1, SameMeaning
  <2> QED
    BY <1>1, <1>3, <1>5, <1>10, <1>11, <2>1, <2>2, <2>3 DEF PiecesJobs
<1> QED
  BY <1>9, <1>13, <1>15, <1>16 DEF PiecesInv

LEMMA LayPieces ==
    ASSUME LinkerType, PiecesInv, LayObject, UNCHANGED <<script, ip, opened>>
    PROVE  PiecesInv'
<1> DEFINE c == ip - 1
           i == Len(inputs)
<1>1. job = "nodes" /\ job' = "script" /\ UNCHANGED <<inputs, anchorCount>>
  BY DEF LayObject
<1>2. /\ PiecesType /\ Numbered /\ Filled /\ MarksGood
      /\ ip > 1 /\ Commands[c].cmd = "LINK" /\ Commands[c].file = inputs[i] /\ inputs # <<>>
  BY <1>1 DEF PiecesInv, PiecesJobs, Live
<1>3. ip \in Nat /\ Len(opened) \in Nat /\ c \in Nat \ {0} /\ c + 1 = ip
  BY <1>2, CommandsAre
<1>4. inputs \in Seq(DOMAIN Objects) /\ Pieced(fragments)
  BY <1>2 DEF PiecesType
<1>5. PICK added : /\ Pieced(added) /\ fragments' = fragments \o added
                   /\ ItemsOf(added) = ObjectItems(Unit, i) /\ ObjectItems(Unit, i) \in Seq(Item)
  BY <1>2, <1>4, LaidObject
<1> HIDE DEF c, i
<1>6. /\ CountBefore(ip, "OUTPUT") = CountBefore(c, "OUTPUT")
      /\ CountBefore(ip, "LINK") = CountBefore(c, "LINK") + 1
  <2>1. CountBefore(c, "OUTPUT") \in Nat
    BY <1>3, CountNext
  <2>2. CountBefore(c + 1, "OUTPUT") = CountBefore(c, "OUTPUT") + IF Commands[c].cmd = "OUTPUT" THEN 1 ELSE 0
    BY <1>3, CountNext
  <2>3. CountBefore(c + 1, "LINK") = CountBefore(c, "LINK") + IF Commands[c].cmd = "LINK" THEN 1 ELSE 0
    BY <1>3, CountNext
  <2> QED
    BY <1>2, <1>3, <2>1, <2>2, <2>3
<1>7. OutputAt(c) = Len(opened)
  BY <1>2, <1>6 DEF OutputAt, Numbered
<1>8. CommandItems(c) = ItemsOf(added)
  <2>1. CountBefore(c, "LINK") + 1 = i /\ Objects[Commands[c].file] = Unit
    BY <1>2, <1>6 DEF Numbered, Unit, i
  <2> QED
    BY <1>2, <1>5, <2>1 DEF CommandItems
<1>9. Carried \in Nat /\ Carried' = Carried + 1 /\ Carried + 1 = c
  BY <1>1, <1>3 DEF Carried, c
<1>10. PiecesType'
  BY <1>1, <1>2, <1>5, Added DEF PiecesType
<1>11. Filled'
  <2> DEFINE m == Len(opened)
  <2>1. /\ \A f \in 1 .. Len(fragments) : OutputIn(opened', f) = OutputIn(opened, f)
        /\ \A f \in Len(fragments) + 1 .. Len(fragments) + Len(added) : OutputIn(opened', f) = m
    BY <1>2, <1>3, <1>5, Added
  <2>2. OutputAt(Carried + 1) = m
    BY <1>7, <1>9
  <2> HIDE DEF m
  <2> QED
    BY <1>2, <1>5, <1>8, <1>9, <2>1, <2>2, FilledNext
<1>12. Numbered'
  BY <1>1, <1>2, SameMeaning DEF Numbered
<1> QED
  BY <1>1, <1>10, <1>11, <1>12 DEF PiecesInv, PiecesJobs

LEMMA PiecesStep == LinkerInv /\ PiecesInv /\ [LinkerNext]_linkerVars => PiecesInv'
<1> SUFFICES ASSUME LinkerInv, PiecesInv, [LinkerNext]_linkerVars PROVE PiecesInv'
  OBVIOUS
<1>1. LinkerType
  BY DEF LinkerInv
<1>2. CASE UNCHANGED linkerVars
  <2>1. /\ UNCHANGED <<script, ip, inputs, anchorCount, fragments, opened, job, work>>
    BY <1>2 DEF linkerVars, linkVars, linked, linker
  <2>2. PiecesType' /\ Commands' = Commands /\ Command' = Command
    BY <2>1, SameMeaning DEF PiecesInv, PiecesType, Command
  <2>3. MarksGood => MarksGood'
    BY <2>1 DEF MarksGood, MarksIn, Unit
  <2>4. PiecesJobs'
    BY <2>1, <2>2, <2>3 DEF PiecesInv, PiecesJobs
  <2>5. Carried' = Carried
    BY <2>1 DEF Carried
  <2>6. job \in Live => (Numbered /\ Filled)'
    BY <2>1, <2>5, SameMeaning DEF PiecesInv, Numbered, Filled
  <2> QED
    BY <2>1, <2>2, <2>4, <2>6 DEF PiecesInv
<1>3. CASE Reject \/ ReadFails \/ LayoutFails \/ Protect
  <2>1. /\ UNCHANGED <<script, ip, inputs, anchorCount, fragments, opened>>
        /\ \/ job' = "failed"
           \/ job = "script" /\ job' = "resolve" /\ ip > Len(Commands)
    BY <1>3 DEF Reject, ReadFails, LayoutFails, Protect, Running, linked
  <2> QED
    BY <2>1, Quiet
<1>4. CASE Prepare
  <2>1. UNCHANGED <<inputs, anchorCount, fragments>>
    BY <1>4 DEF Prepare, PrepareLink, DuplicateExport, UndefinedImport, BindImport, BindBank, Resolved,
                SortedExports, Resolving
  <2>2. UNCHANGED <<script, ip, opened>>
    BY <1>4 DEF Prepare, linker
  <2>3. job = "resolve" /\ job' \in {"resolve", "layout", "failed"}
    BY <1>4, PrepareEffect DEF Prepare
  <2> QED
    BY <2>1, <2>2, <2>3, Quiet
<1>5. CASE \/ OpenOutput \/ CloseOutput \/ WriteFails \/ AllStaged \/ PublishOutput \/ PublishFails
           \/ AllPublished \/ Clean \/ GiveUpLink
  <2>1. UNCHANGED <<script, ip, inputs, anchorCount, fragments, opened>>
    BY <1>5 DEF OpenOutput, CloseOutput, WriteFails, AllStaged, PublishOutput, PublishFails, AllPublished,
                Clean, GiveUpLink, At, linked
  <2>2. CASE OpenOutput \/ CloseOutput
    BY <2>1, <2>2, Quiet DEF OpenOutput, CloseOutput, At
  <2>3. CASE WriteFails \/ AllStaged \/ PublishFails \/ AllPublished \/ GiveUpLink
    <3>1. job' \in {"publish", "cleanup"}
      BY <2>3 DEF WriteFails, AllStaged, PublishFails, AllPublished, GiveUpLink, GoTo
    <3> QED
      BY <2>1, <3>1, Quiet
  <2>4. CASE PublishOutput \/ Clean
    <3>1. job' \in {"publish", "cleanup", "done"}
      BY <2>4 DEF PublishOutput, Clean, At
    <3> QED
      BY <2>1, <3>1, Quiet
  <2> QED
    BY <1>5, <2>2, <2>3, <2>4
<1>6. CASE Translate
  <2>1. AppendObject /\ UNCHANGED <<script, ip, opened>>
    BY <1>6 DEF Translate, linker
  <2> QED
    BY <1>1, <2>1, Builds, LayPieces DEF AppendObject
<1>7. CASE Parse
  BY <1>1, <1>7, ParsePieces
<1>8. CASE DoOutput
  BY <1>1, <1>8, OutputPieces
<1>9. CASE DoCopy \/ DoPad \/ SkipRam \/ DoBank
  BY <1>1, <1>9, CommandPieces
<1>10. CASE DoLink
  BY <1>1, <1>10, LinkPieces
<1>11. CASE ReadObject
  BY <1>1, <1>11, ReadPieces
<1>12. CASE LayOut
  BY <1>1, <1>12, LayOutPieces
<1> QED
  BY <1>2, <1>3, <1>4, <1>5, <1>6, <1>7, <1>8, <1>9, <1>10, <1>11, <1>12 DEF LinkerNext

\* Each output holds the objects and copies of the commands between it and the next,
\* every item of every record once and in the order of the script, however the runs
\* of the objects are cut by their marks and whatever banks, pads and RAM there are
\* (the loop over the commands in main, append_fragments of ir/link.c).
THEOREM OutputsAreComplete == LinkerSpec => []OutputsHoldTheirPieces
<1>1. LinkerInv /\ PiecesInv => OutputsHoldTheirPieces
  <2> SUFFICES ASSUME LinkerInv, PiecesInv, job = "write", NEW n \in 1 .. Len(opened)
               PROVE  FlattenSeq([f \in 1..Len(fragments) |-> IF OutputOf(f) = n THEN fragments[f].items ELSE <<>>])
                      = FlattenSeq([c \in 1..Len(Commands) |-> IF OutputAt(c) = n THEN CommandItems(c) ELSE <<>>])
    BY DEF OutputsHoldTheirPieces
  <2>1. n \in Nat /\ Len(Commands) \in Nat /\ ip \in Nat
    BY CommandsAre DEF LinkerInv
  <2>2. Numbered /\ Filled /\ ip > Len(Commands)
    BY DEF PiecesInv, PiecesJobs, Live
  <2>3. Carried = Len(Commands)
    BY <2>1, <2>2 DEF Carried, Numbered
  <2>4. Held(fragments, opened, n) = Meant(Len(Commands), n)
    BY <2>1, <2>2, <2>3 DEF Filled
  <2>5. \A f : OutputIn(opened, f) = OutputOf(f)
    BY DEF OutputIn, OutputOf
  <2> QED
    BY <2>4, <2>5 DEF Held, Meant
<1>2. LinkerInit => PiecesInv
  BY PiecesStart
<1>3. LinkerInv /\ PiecesInv /\ [LinkerNext]_linkerVars => PiecesInv'
  BY PiecesStep
<1> QED
  BY <1>1, <1>2, <1>3, LinkerInvAlways, PTL DEF LinkerSpec
=============================================================================
