---------------------------- MODULE OutputBatch ----------------------------
(***************************************************************************)
(* Publication of the files of one assembler invocation (output_file.c).   *)
(* Every output is written to a temporary file beside its destination;     *)
(* while a batch is open a finished file is only staged, and               *)
(* output_batch_finish publishes the staged files together: first a hard   *)
(* link to every old destination, then one rename per file, then a pass    *)
(* that puts the old files back if a rename failed and removes what is     *)
(* left over.                                                              *)
(*                                                                         *)
(* Every system call may fail at any time.  Each loop iteration is one     *)
(* step, so the invariants also say what a crash between two iterations    *)
(* leaves on disk.  The removal of one of the program's own temporary or   *)
(* backup files is best effort in the code and succeeds here.              *)
(***************************************************************************)
EXTENDS Naturals, Sequences

CONSTANTS
    Outputs,    \* the destinations of the invocation, no two of them aliases
    Binary      \* the output whose temporary the driver opens by itself

ASSUME BinaryAssumption == Binary \in Outputs

\* A destination holds no file, the file from before the invocation (or a
\* symbolic link: rename and link treat it alike), the new file, a part of it,
\* or something that must not be replaced: a directory, a device, a FIFO.
Contents == {"absent", "old", "new", "torn", "special"}

VARIABLES
    before,     \* the destinations when the invocation starts
    dest,       \* the destinations
    temp,       \* the temporary files: none, being written, complete
    backup,     \* the rollback links on disk
    writer,     \* how far each output_writer got
    batching,   \* batching
    stages,     \* the list of stages, in staging order
    phase,      \* the loop of output_batch_finish that runs, or "collect"
    at,         \* its stage
    success,    \* its success flag
    kept,       \* stages whose s->backup is set
    published,  \* stages whose s->published is set
    unrestored, \* "could not restore output": reported, backup retained
    returned    \* what output_batch_finish returned for a stage (a history)

files  == <<dest, temp, backup>>
commit == <<at, success, kept, published, unrestored, returned>>
vars   == <<before, files, writer, batching, stages, phase, commit>>

Staged == {stages[i] : i \in 1 .. Len(stages)}

-----------------------------------------------------------------------------
(* One output: open, close, publish *)

\* Mutant: whatever the destination is, it is replaced.
ReplaceAnything(o) == o \in Outputs

\* The destination after a rename has moved the temporary there.
Moved(o) == [dest EXCEPT ![o] = IF temp[o] = "complete" THEN "new" ELSE "torn"]

\* replaceable_destination, when its lstat does not fail.
Replaceable(o) == dest[o] # "special"

Init ==
    /\ before \in [Outputs -> {"absent", "old", "special"}]
    /\ dest = before
    /\ temp = [o \in Outputs |-> "none"] /\ backup = [o \in Outputs |-> "none"]
    /\ writer = [o \in Outputs |-> "idle"]
    /\ batching = FALSE /\ stages = <<>>
    /\ phase = "collect" /\ at = 1 /\ success = TRUE
    /\ kept = {} /\ published = {} /\ unrestored = {}
    /\ returned = [o \in Outputs |-> "nothing"]

Collecting == phase = "collect" /\ UNCHANGED <<before, phase, commit>>

Begin ==
    /\ Collecting /\ ~batching
    /\ batching' = TRUE
    /\ UNCHANGED <<files, writer, stages>>

\* The driver opens the binary's temporary without looking at the destination.
Open(o) ==
    /\ Collecting /\ writer[o] = "idle"
    /\ Replaceable(o) \/ o = Binary
    /\ writer' = [writer EXCEPT ![o] = "open"]
    /\ temp' = [temp EXCEPT ![o] = "partial"]
    /\ UNCHANGED <<dest, backup, batching, stages>>

OpenFails(o) ==
    /\ Collecting /\ writer[o] = "idle"
    /\ writer' = [writer EXCEPT ![o] = "failed"]
    /\ UNCHANGED <<files, batching, stages>>

\* Flushed, permissions set, closed.
Close(o) ==
    /\ Collecting /\ writer[o] = "open"
    /\ writer' = [writer EXCEPT ![o] = "ready"]
    /\ temp' = [temp EXCEPT ![o] = "complete"]
    /\ UNCHANGED <<dest, backup, batching, stages>>

\* Serialization, flush or close failed, staging ran out of memory, or the
\* caller gave the file up: the temporary is removed.
Discard(o) ==
    /\ Collecting /\ writer[o] \in {"open", "ready"}
    /\ writer' = [writer EXCEPT ![o] = "failed"]
    /\ temp' = [temp EXCEPT ![o] = "none"]
    /\ UNCHANGED <<dest, backup, batching, stages>>

\* Mutant: the writer is not reset once its file is staged.
StageAgain(o) ==
    /\ Collecting /\ batching /\ writer[o] = "ready"
    /\ Len(stages) < 4
    /\ stages' = Append(stages, o)
    /\ UNCHANGED <<files, writer, batching>>

Stage(o) ==
    /\ Collecting /\ batching /\ writer[o] = "ready"
    /\ writer' = [writer EXCEPT ![o] = "staged"]
    /\ stages' = Append(stages, o)
    /\ UNCHANGED <<files, batching>>

\* Without a batch the file replaces its destination at once.
Publish(o) ==
    /\ Collecting /\ ~batching /\ writer[o] = "ready"
    /\ Replaceable(o)
    /\ writer' = [writer EXCEPT ![o] = "published"]
    /\ dest' = Moved(o)
    /\ temp' = [temp EXCEPT ![o] = "none"]
    /\ UNCHANGED <<backup, batching, stages>>

\* Mutant: the published file is read, whether or not a newer one is staged.
ReadsDestination(o) == dest[o]

\* output_batch_read_path: readers of a staged output get the temporary.
Reads(o) == IF o \in Staged THEN temp[o] ELSE dest[o]

-----------------------------------------------------------------------------
(* output_batch_finish *)

\* All streams are closed when the driver finishes the batch.
Finish(ok) ==
    /\ phase = "collect"
    /\ \A o \in Outputs : writer[o] \notin {"open", "ready"}
    /\ phase' = IF ok THEN "preserve" ELSE "unwind"
    /\ at' = 1 /\ success' = ok
    /\ UNCHANGED <<before, files, writer, batching, stages>>
    /\ UNCHANGED <<kept, published, unrestored, returned>>

In(loop) == phase = loop /\ UNCHANGED <<before, writer>>
Here     == stages[at]
Step     == at' = at + 1 /\ UNCHANGED phase

\* A failure leaves the loop for the unwinding pass, which starts at the head.
GiveUp == phase' = "unwind" /\ at' = 1 /\ success' = FALSE

\* Make a rollback link: a fresh name is reserved, removed and linked to.
Preserve ==
    /\ In("preserve") /\ at <= Len(stages)
    /\ dest[Here] # "special"
    /\ IF dest[Here] = "absent"
       THEN UNCHANGED <<backup, kept>>
       ELSE /\ backup' = [backup EXCEPT ![Here] = "old"]
            /\ kept' = kept \cup {Here}
    /\ Step
    /\ UNCHANGED <<dest, temp, batching, stages, success, published, unrestored, returned>>

\* lstat, open, close, unlink or link failed: the reserved name is removed.
PreserveFails ==
    /\ In("preserve") /\ at <= Len(stages)
    /\ GiveUp
    /\ UNCHANGED <<files, batching, stages, kept, published, unrestored, returned>>

StartReplacing ==
    /\ In("preserve") /\ at > Len(stages)
    /\ phase' = "replace" /\ at' = 1
    /\ UNCHANGED <<files, batching, stages, success, kept, published, unrestored, returned>>

Replace ==
    /\ In("replace") /\ at <= Len(stages)
    /\ Replaceable(Here)
    /\ dest' = Moved(Here)
    /\ temp' = [temp EXCEPT ![Here] = "none"]
    /\ published' = published \cup {Here}
    /\ Step
    /\ UNCHANGED <<backup, batching, stages, success, kept, unrestored, returned>>

ReplaceFails ==
    /\ In("replace") /\ at <= Len(stages)
    /\ GiveUp
    /\ UNCHANGED <<files, batching, stages, kept, published, unrestored, returned>>

StartUnwinding ==
    /\ In("replace") /\ at > Len(stages)
    /\ phase' = "unwind" /\ at' = 1
    /\ UNCHANGED <<files, batching, stages, success, kept, published, unrestored, returned>>

\* Mutant: a file that was not there before is left in place.
RestoreOldOnly ==
    /\ In("unwind") /\ at <= Len(stages)
    /\ dest' = IF success \/ Here \notin kept THEN dest ELSE [dest EXCEPT ![Here] = "old"]
    /\ backup' = IF Here \in kept THEN [backup EXCEPT ![Here] = "none"] ELSE backup
    /\ temp' = IF Here \in published THEN temp ELSE [temp EXCEPT ![Here] = "none"]
    /\ Step
    /\ UNCHANGED <<batching, stages, success, kept, published, unrestored, returned>>

\* Mutant: the links of a commit that succeeded are forgotten.
RestoreLeavingLinks ==
    /\ In("unwind") /\ at <= Len(stages)
    /\ dest' = IF success \/ Here \notin published THEN dest
               ELSE [dest EXCEPT ![Here] = IF Here \in kept THEN "old" ELSE "absent"]
    /\ backup' = IF Here \in kept /\ ~success THEN [backup EXCEPT ![Here] = "none"] ELSE backup
    /\ temp' = IF Here \in published THEN temp ELSE [temp EXCEPT ![Here] = "none"]
    /\ Step
    /\ UNCHANGED <<batching, stages, success, kept, published, unrestored, returned>>

\* Mutant: the list is not advanced past a stage that was never published.
RestoreForever ==
    /\ In("unwind") /\ at <= Len(stages)
    /\ Here \in published
    /\ dest' = IF success THEN dest
               ELSE [dest EXCEPT ![Here] = IF Here \in kept THEN "old" ELSE "absent"]
    /\ backup' = IF Here \in kept THEN [backup EXCEPT ![Here] = "none"] ELSE backup
    /\ Step
    /\ UNCHANGED <<temp, batching, stages, success, kept, published, unrestored, returned>>

\* The stage needs no rollback, or its rollback works: the backup is renamed
\* back, or the file that was not there before is removed.  What is left of the
\* backup and an unpublished temporary are removed.
Restore ==
    /\ In("unwind") /\ at <= Len(stages)
    /\ dest' = IF success \/ Here \notin published THEN dest
               ELSE [dest EXCEPT ![Here] = IF Here \in kept THEN "old" ELSE "absent"]
    /\ backup' = IF Here \in kept THEN [backup EXCEPT ![Here] = "none"] ELSE backup
    /\ temp' = IF Here \in published THEN temp ELSE [temp EXCEPT ![Here] = "none"]
    /\ Step
    /\ UNCHANGED <<batching, stages, success, kept, published, unrestored, returned>>

\* Mutant: the backup is removed although it could not be put back.
RestoreFailsDropping ==
    /\ In("unwind") /\ at <= Len(stages)
    /\ ~success /\ Here \in published
    /\ backup' = [backup EXCEPT ![Here] = "none"]
    /\ unrestored' = unrestored \cup {Here}
    /\ Step
    /\ UNCHANGED <<dest, temp, batching, stages, success, kept, published, returned>>

\* The rollback fails: it is reported and the backup stays on disk.
RestoreFails ==
    /\ In("unwind") /\ at <= Len(stages)
    /\ ~success /\ Here \in published
    /\ kept' = kept \ {Here}
    /\ unrestored' = unrestored \cup {Here}
    /\ Step
    /\ UNCHANGED <<files, batching, stages, success, published, returned>>

\* Mutant: some file at its destination counts as success.
EndFinishOptimistic ==
    /\ In("unwind") /\ at > Len(stages)
    /\ phase' = "collect"
    /\ stages' = <<>> /\ batching' = FALSE /\ kept' = {} /\ published' = {}
    /\ returned' = [o \in Outputs |-> IF o \notin Staged THEN returned[o]
                                       ELSE IF published # {} THEN "success" ELSE "failure"]
    /\ UNCHANGED <<files, at, success, unrestored>>

\* Every stage has been freed, with its backup and published fields.
EndFinish ==
    /\ In("unwind") /\ at > Len(stages)
    /\ phase' = "collect"
    /\ stages' = <<>> /\ batching' = FALSE /\ kept' = {} /\ published' = {}
    /\ returned' = [o \in Outputs |-> IF o \notin Staged THEN returned[o]
                                       ELSE IF success THEN "success" ELSE "failure"]
    /\ UNCHANGED <<files, at, success, unrestored>>

Finishing == \/ Preserve \/ PreserveFails \/ StartReplacing
             \/ Replace \/ ReplaceFails \/ StartUnwinding
             \/ Restore \/ RestoreFails \/ EndFinish

Writing(o) == \/ Open(o) \/ OpenFails(o) \/ Close(o) \/ Discard(o)
              \/ Stage(o) \/ Publish(o)

Next == \/ Begin
        \/ \E o \in Outputs : Writing(o)
        \/ \E ok \in BOOLEAN : Finish(ok)
        \/ Finishing

Spec == Init /\ [][Next]_vars /\ WF_vars(Finishing)

-----------------------------------------------------------------------------
(* Properties *)

\* The state is well formed, no destination is staged twice, and what is ready
\* or staged is complete until it has been renamed (output_file.c:132-160).
TypeOK ==
    /\ before \in [Outputs -> {"absent", "old", "special"}]
    /\ dest \in [Outputs -> Contents]
    /\ temp \in [Outputs -> {"none", "partial", "complete"}]
    /\ backup \in [Outputs -> {"none", "old"}]
    /\ writer \in [Outputs -> {"idle", "open", "ready", "staged", "published", "failed"}]
    /\ batching \in BOOLEAN /\ stages \in Seq(Outputs)
    /\ phase \in {"collect", "preserve", "replace", "unwind"}
    /\ at \in Nat \ {0} /\ success \in BOOLEAN
    /\ kept \subseteq Outputs /\ published \subseteq Outputs /\ unrestored \subseteq Outputs
    /\ returned \in [Outputs -> {"nothing", "success", "failure"}]
    /\ phase = "collect" => kept = {} /\ published = {}
    /\ \A o \in Outputs : writer[o] = "ready" => temp[o] = "complete"
    /\ \A i \in 1 .. Len(stages) :
          /\ writer[stages[i]] = "staged"
          /\ phase # "unwind" /\ stages[i] \notin published => temp[stages[i]] = "complete"
          /\ \A j \in 1 .. Len(stages) : stages[i] = stages[j] => i = j

\* Whatever fails, and wherever the program stops, the old content of a
\* destination can be found until output_batch_finish has succeeded: in the
\* destination or in its backup, which is kept when the rollback fails too
\* ("retains old destinations until every rename succeeds", output_file.h).
Succeeded(o) == returned[o] = "success" \/ (phase = "unwind" /\ success /\ o \in Staged)
OldContentKept ==
    \A o \in Outputs : before[o] = "old" =>
        dest[o] = "old" \/ backup[o] = "old" \/ writer[o] = "published" \/ Succeeded(o)

\* When output_batch_finish has returned success every staged file is at its
\* destination; when it has returned failure every destination is as it was
\* before the invocation, but for those it has reported (output_file.c:206-227).
AllOrNothing ==
    phase = "collect" => \A o \in Outputs :
        /\ returned[o] = "success" => dest[o] = "new"
        /\ returned[o] = "failure" /\ o \notin unrestored => dest[o] = before[o]

\* At every moment a destination is as it was before the invocation or the
\* complete new file, and what is not a file is never replaced
\* (output_file.c:51-58, 132-149).
NeverTorn ==
    \A o \in Outputs :
        /\ dest[o] \in {before[o], "new"}
        /\ before[o] = "special" => dest[o] = "special"

\* Between invocations of output_batch_finish no backup is left but a reported
\* one, and no temporary but those still being written or staged
\* (output_file.c:84-90, 212-225).
NothingLeftBehind ==
    phase = "collect" => \A o \in Outputs :
        /\ backup[o] = "old" => o \in unrestored
        /\ temp[o] # "none" => writer[o] \in {"open", "ready"} \/ o \in Staged

\* No destination of a batch is touched before every old destination of that
\* batch has its rollback link (output_file.c:186-211).
PreserveBeforeReplace ==
    [][phase = "replace" /\ dest' # dest =>
          \A o \in Staged : before[o] = "old" => backup[o] = "old"]_vars

\* output_batch_finish always returns.
FinishReturns == phase # "collect" ~> phase = "collect"
=============================================================================
