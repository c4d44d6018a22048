------------------------- MODULE AtomicPublication -------------------------
(***************************************************************************)
(* What output_file.h promises to somebody who looks at the destinations   *)
(* when no commit is under way: a batch of outputs replaces its            *)
(* destinations all at once or not at all, except that a batch that failed *)
(* may have damaged some destinations, which it then reports.              *)
(***************************************************************************)
CONSTANT Outputs

VARIABLES
    visible,    \* what is at each destination
    status      \* what the program has said about each output

vars == <<visible, status>>

Init ==
    /\ visible \in [Outputs -> {"absent", "old", "special"}]
    /\ status = [o \in Outputs |-> "open"]

\* The outputs of S are told st; those of New have the new file.
Tell(S, st, New) ==
    /\ \A o \in S : status[o] = "open"
    /\ status' = [o \in Outputs |-> IF o \in S THEN st[o] ELSE status[o]]
    /\ visible' = [o \in Outputs |-> IF o \in New THEN "new" ELSE visible[o]]

\* Outside a batch a file is published by itself.
PublishOne(o) == Tell({o}, [s \in {o} |-> "published"], {o})

Commit(S) == Tell(S, [s \in S |-> "published"], S)

Refuse(S, Damaged) ==
    /\ Damaged \subseteq S
    /\ Tell(S, [s \in S |-> IF s \in Damaged THEN "damaged" ELSE "unchanged"], Damaged)

Next ==
    \/ \E o \in Outputs : PublishOne(o)
    \/ \E S \in SUBSET Outputs : Commit(S) \/ \E D \in SUBSET S : Refuse(S, D)

Spec == Init /\ [][Next]_vars
=============================================================================
