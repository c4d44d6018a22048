----------------------- MODULE OutputBatchRefinement -----------------------
(***************************************************************************)
(* OutputBatch implements AtomicPublication: while output_batch_finish     *)
(* runs, the destinations of its batch count as what they were; the batch  *)
(* becomes visible in the step in which the function returns.              *)
(***************************************************************************)
EXTENDS OutputBatch

Visible == [o \in Outputs |-> IF phase # "collect" /\ o \in Staged THEN before[o] ELSE dest[o]]

Outcome ==
    [o \in Outputs |->
        CASE writer[o] = "published" \/ returned[o] = "success" -> "published"
          [] returned[o] = "failure" -> IF o \in unrestored THEN "damaged" ELSE "unchanged"
          [] OTHER -> "open"]

Publication == INSTANCE AtomicPublication WITH visible <- Visible, status <- Outcome

\* To somebody who does not look while a commit runs, the staged outputs of an
\* invocation are replaced together or not at all, whatever fails.
Atomic == Publication!Spec
=============================================================================
