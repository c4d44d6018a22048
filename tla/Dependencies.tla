----------------------------- MODULE Dependencies -----------------------------
(***************************************************************************)
(* Inputs and outputs of one assembler invocation (dependencies.c): every  *)
(* file that is looked up is read once and served from its snapshot, names *)
(* of one file are recognised whatever they are spelled like, and a        *)
(* document that lists the inputs is staged only after all of them have    *)
(* been read again.  Meanwhile others change the files.                    *)
(*                                                                         *)
(* A path is what the program was given, spelled out from the root.  It    *)
(* leads to a name, through symbolic links, and a name to a file or to     *)
(* none; several names may be links to one file.  A step reads one file or *)
(* compares one pair of paths (one call of same_file); between two steps   *)
(* others may change anything.                                             *)
(***************************************************************************)
EXTENDS Naturals, Sequences, SequencesExt, FiniteSets

CONSTANTS
    Paths,          \* lookup paths
    Names,          \* what others make links lead to
    Files,          \* file identities (device and inode) that others give to names
    Contents,       \* what a file may hold
    Missing,        \* ENOENT or ENOTDIR
    NoPath,         \* an option that was not given
    Worlds,         \* file systems at the start: [name, file, content]
    Producer,       \* the path of the running assembler
    ManifestAt,     \* where a manifest is asked for
    Roles,          \* dependency_role
    Given,          \* the paths that calls are given
    Restless,       \* the names that others change
    Links,          \* the paths whose target others change
    ChangeLimit,    \* bound: how often others change the file system
    CallLimit       \* bound: how many files are opened or announced

ASSUME DependencyAssumption ==
    /\ {Producer, ManifestAt} \subseteq Paths /\ NoPath \notin Paths
    /\ Given \cup Links \subseteq Paths
    /\ Missing \notin Contents \cup Files /\ {ChangeLimit, CallLimit} \subseteq Nat

\* Every path leads to a name, every name to a file that holds something or to none.
ASSUME WorldAssumption ==
    \A w \in Worlds :
        /\ w.name \in [Paths -> DOMAIN w.file] /\ Names \cup Restless \subseteq DOMAIN w.file
        /\ w.file \in [DOMAIN w.file -> DOMAIN w.content \cup {Missing}]
        /\ w.content \in [DOMAIN w.content -> Contents]
        /\ Files \subseteq DOMAIN w.content /\ Missing \notin DOMAIN w.content

VARIABLES
    name, file, content,    \* the file system
    changes,                \* how often it was changed by others
    active, protect,        \* active and protect_outputs
    inputs,                 \* inputs: [path, roles, bytes]
    sources,                \* source_paths, the last one first
    outputs,                \* outputs, the last one first
    manifestPath,           \* manifest_path
    failed,                 \* failed
    wanted,                 \* the documents that are still to be written
    calls,                  \* how many were made
    job,                    \* what the driver is doing
    at,                     \* the input a check is at, and after the inputs the output
    path, role,             \* the path that is compared, or NoPath; as what a call opens it
    left,                   \* the paths it is still to be compared with
    listed,                 \* the inputs the document at hand lists
    consumed,               \* history: what readers were given
    since,                  \* history: the states of each path since the document was written
    together                \* history: the pairs that have led to one place all the while
                            \* since the call, check or writing that compares them last began

disk     == <<name, file, content, changes>>
tables   == <<active, protect, inputs, sources, outputs, manifestPath>>
compared == <<path, role, left>>
control  == <<wanted, calls, job, at, listed>>
history  == <<consumed, since, together>>
dependencyVars == <<disk, tables, failed, control, compared, history>>

State(p) == IF file[name[p]] = Missing THEN Missing ELSE content[file[name[p]]]

\* Two existing files are compared by identity, two missing ones by the name
\* they would have, and a missing one is never an existing one (same_file).
SameFile(a, b) ==
    \/ a = b
    \/ /\ NoPath \notin {a, b}
       /\ IF Missing \in {file[name[a]], file[name[b]]}
          THEN file[name[a]] = file[name[b]] /\ name[a] = name[b]
          ELSE file[name[a]] = file[name[b]]

\* Where a path leads: to a file, or to the name of none.
Place(p) == IF file[name[p]] = Missing THEN <<"at", name[p]>> ELSE <<"file", file[name[p]]>>

Init ==
    /\ \E w \in Worlds : name = w.name /\ file = w.file /\ content = w.content
    /\ changes = 0
    /\ active = FALSE /\ protect = FALSE /\ inputs = <<>> /\ sources = <<>> /\ outputs = <<>>
    /\ manifestPath = NoPath /\ failed = FALSE
    /\ wanted \in SUBSET {"manifest", "model"} /\ job = "start" /\ calls = 0 /\ at = 1 /\ listed = <<>>
    /\ path = NoPath /\ role = "none" /\ left = <<>>
    /\ consumed = {} /\ since = [p \in Paths |-> {}]
    /\ together = {pr \in Paths \X Paths : Place(pr[1]) = Place(pr[2])}

-----------------------------------------------------------------------------
(* Others *)

\* After a failure nothing is written any more, whatever the files are.
Disturb ==
    /\ changes < ChangeLimit /\ changes' = changes + 1
    /\ ~failed /\ job \notin {"start", "done"}

Watched ==
    /\ since' = IF job \in {"recheck", "stage"} THEN [p \in Paths |-> since[p] \cup {State(p)'}] ELSE since
    /\ together' = {pr \in together : Place(pr[1])' = Place(pr[2])'}

Rewrite(f) ==
    /\ \E c \in Contents \ {content[f]} : content' = [content EXCEPT ![f] = c]
    /\ UNCHANGED <<name, file>>

\* Removed, replaced, renamed over or linked, or a symbolic link retargeted.
Rename ==
    /\ \/ /\ \E n \in Restless, f \in Files \cup {Missing} : f # file[n] /\ file' = [file EXCEPT ![n] = f]
          /\ UNCHANGED name
       \/ /\ \E p \in Links, n \in Names : n # name[p] /\ name' = [name EXCEPT ![p] = n]
          /\ UNCHANGED file
    /\ UNCHANGED content

Others ==
    /\ Disturb
    /\ Rename \/ \E f \in Range(file) \ {Missing} : Rewrite(f)
    /\ Watched
    /\ UNCHANGED <<tables, failed, control, compared, consumed>>

-----------------------------------------------------------------------------
(* Comparing one path with others *)

\* The history of the pairs with one of these paths begins anew.
Anew(ps) ==
    together' = {pr \in Paths \X Paths : IF {pr[1], pr[2]} \cap ps = {} THEN pr \in together
                                         ELSE Place(pr[1]) = Place(pr[2])}

Compares(p, others) == path' = p /\ left' = others
ComparesNone        == Compares(NoPath, <<>>)

\* An error stops the document, and before there is one every further call.
Fails == /\ failed' = TRUE /\ job' = (IF job \in {"open", "source", "output"} THEN "calls" ELSE "done")
         /\ ComparesNone /\ role' = "none"
         /\ UNCHANGED <<disk, tables, wanted, calls, at, listed, history>>

\* One pair: two names of one file are an error.
ComparePair ==
    /\ ~failed /\ left # <<>>
    /\ IF SameFile(path, Head(left)) THEN Fails
       ELSE /\ left' = Tail(left)
            /\ UNCHANGED <<disk, tables, failed, control, path, role, history>>

-----------------------------------------------------------------------------
(* The calls of the driver and of the scanner *)

Entries == Range(inputs)

Entry(p) == CHOOSE e \in Entries : e.path = p
Known(p) == \E e \in Entries : e.path = p

\* Mutant: the file itself is read once it is known.
ServedAgain(p) == State(p)

\* What a reader of a path gets: the snapshot that was taken first.
Served(p) == IF Known(p) THEN Entry(p).bytes ELSE State(p)

Recorded(p, r) ==
    IF Known(p) THEN [i \in 1..Len(inputs) |-> IF inputs[i].path = p
                                               THEN [inputs[i] EXCEPT !.roles = @ \cup {r}] ELSE inputs[i]]
    ELSE Append(inputs, [path |-> p, roles |-> {r}, bytes |-> State(p)])

\* Mutant: only files that were found count as inputs.
FoundPaths ==
    LET found == SelectSeq(inputs, LAMBDA e : e.bytes # Missing)
    IN  [i \in 1..Len(found) |-> found[i].path] \o sources

\* aliases_input: what an output is compared with.
ReadPaths == [i \in 1..Len(inputs) |-> inputs[i].path] \o sources

\* A call compares its path with these paths before it does anything else.
Calling(call, p, others) ==
    /\ job = "calls" /\ ~failed /\ calls < CallLimit /\ calls' = calls + 1
    /\ job' = call /\ Compares(p, others) /\ Anew({p})
    /\ UNCHANGED <<disk, tables, failed, wanted, at, listed, consumed, since>>

\* ... and returns.
Returning(call) ==
    /\ job = call /\ ~failed /\ left = <<>>
    /\ job' = "calls" /\ ComparesNone /\ role' = "none"
    /\ UNCHANGED <<disk, active, protect, manifestPath, wanted, calls, at, listed, since, together>>

\* The running assembler is the first input.
Start ==
    /\ job = "start"
    /\ active' = (wanted # {}) /\ protect' = (wanted = {})
    /\ manifestPath' = IF "manifest" \in wanted THEN ManifestAt ELSE NoPath
    /\ IF wanted = {} THEN job' = "calls" /\ UNCHANGED <<path, role, left>>
       ELSE job' = "open" /\ role' = "producer" /\ Compares(Producer, <<manifestPath'>>)
    /\ UNCHANGED <<disk, inputs, sources, outputs, failed, wanted, calls, at, listed, history>>

\* dependencies_open; without snapshots the path is only protected.
OpenInput ==
    \E p \in Given :
        IF active THEN Calling("open", p, <<manifestPath>> \o outputs) /\ role' \in Roles
        ELSE Calling("source", p, outputs) /\ UNCHANGED role

\* capture; the running assembler must be there.
CaptureInput ==
    /\ Returning("open")
    /\ inputs' = Recorded(path, role)
    /\ consumed' = consumed \cup {<<path, role, Served(path)>>}
    /\ failed' = (role = "producer" /\ State(path) = Missing)
    /\ UNCHANGED <<sources, outputs>>

\* The file to compare with is protected before it is opened.
ProtectComparison == \E p \in Given : Calling("source", p, outputs) /\ UNCHANGED role

\* dependencies_protect_source
ProtectSource ==
    /\ Returning("source")
    /\ sources' = IF path \in Range(sources) THEN sources ELSE <<path>> \o sources
    /\ UNCHANGED <<failed, inputs, outputs, consumed>>

\* dependencies_output
PlanOutput ==
    \E p \in Given : /\ Calling("output", p, <<manifestPath>> \o (ReadPaths \o outputs))
                     /\ UNCHANGED role

AddOutput ==
    /\ Returning("output")
    /\ outputs' = <<path>> \o outputs
    /\ UNCHANGED <<failed, inputs, sources, consumed>>

\* Unreadable, not a regular file, a path that cannot be resolved, or no more memory.
CallFails == ~failed /\ job \in {"open", "source", "output"} /\ Fails

-----------------------------------------------------------------------------
(* A document: inputs and outputs are checked, it is written, they are checked again *)

Document == IF "manifest" \in wanted THEN "manifest" ELSE "model"

Writing == ~failed /\ UNCHANGED <<disk, tables, failed, calls, role, consumed>>

\* An assembly that failed lists nothing.
Conclude ==
    /\ job = "calls" /\ job' = "done"
    /\ UNCHANGED <<disk, tables, failed, wanted, calls, at, listed, compared, history>>

BeginDocument ==
    /\ Writing /\ job = "calls" /\ wanted # {}
    /\ job' = "check" /\ at' = 1 /\ Anew(Range(outputs))
    /\ UNCHANGED <<wanted, listed, path, left, since>>

Changed(e) == State(e.path) # e.bytes

Checking == Writing /\ job \in {"check", "recheck"} /\ UNCHANGED <<wanted, listed, since>>

\* dependencies_validate
CheckInput ==
    /\ Checking /\ at <= Len(inputs)
    /\ ~Changed(inputs[at])
    /\ at' = at + 1
    /\ UNCHANGED <<job, path, left, together>>

\* The output at hand, counted on from the inputs.
Turn == at - Len(inputs)

\* The next output is compared with the manifest, what is read and the outputs behind it.
CheckOutput ==
    /\ Checking /\ Turn \in 1..Len(outputs) /\ left = <<>>
    /\ Compares(outputs[Turn], <<manifestPath>> \o (ReadPaths \o SubSeq(outputs, Turn + 1, Len(outputs))))
    /\ at' = at + 1
    /\ UNCHANGED <<job, together>>

Checked ==
    /\ Checking /\ Turn > Len(outputs) /\ left = <<>>
    /\ IF job = "check" THEN job' = "write" /\ Anew({manifestPath})
       ELSE job' = "stage" /\ UNCHANGED together
    /\ ComparesNone /\ UNCHANGED at

\* An input was changed, it cannot be read, or a path cannot be resolved.
CheckFails == ~failed /\ job \in {"check", "recheck"} /\ Fails

\* dependencies_write: the manifest, too, is compared with what is read and with the outputs.
CompareManifest ==
    /\ Writing /\ job = "write" /\ Document = "manifest" /\ path = NoPath
    /\ Compares(manifestPath, ReadPaths \o outputs)
    /\ UNCHANGED <<wanted, job, at, listed, since, together>>

\* dependencies_write and source_model_write, until the file is closed.
WriteDocument ==
    /\ Writing /\ job = "write" /\ left = <<>>
    /\ Document = "manifest" => path # NoPath
    /\ job' = "recheck" /\ at' = 1 /\ listed' = inputs /\ ComparesNone
    /\ since' = [p \in Paths |-> {State(p)}] /\ Anew(Range(outputs))
    /\ UNCHANGED wanted

\* It is staged, and the next one is due.
StageDocument ==
    /\ Writing /\ job = "stage"
    /\ wanted' = wanted \ {Document}
    /\ IF wanted' = {} THEN job' = "done" /\ UNCHANGED together
       ELSE job' = "check" /\ Anew(Range(outputs))
    /\ at' = 1 /\ since' = [p \in Paths |-> {}]
    /\ UNCHANGED <<listed, path, left>>

\* The document cannot be opened, closed or staged.
DocumentFails == ~failed /\ job \in {"write", "stage"} /\ Fails

Next ==
    \/ Others \/ ComparePair
    \/ Start \/ OpenInput \/ CaptureInput \/ ProtectComparison \/ ProtectSource
    \/ PlanOutput \/ AddOutput \/ CallFails \/ Conclude
    \/ BeginDocument \/ CheckInput \/ CheckOutput \/ Checked \/ CheckFails
    \/ CompareManifest \/ WriteDocument \/ StageDocument \/ DocumentFails

Spec == Init /\ [][Next]_dependencyVars

-----------------------------------------------------------------------------
(* Properties *)

Listing == UNION {{<<e.path, r, e.bytes>> : r \in e.roles} : e \in Range(listed)}

\* A document that is about to be staged lists exactly what readers were given,
\* though they may have opened a path several times while it was changed, and each
\* of these files was in that state at some moment since the document was complete:
\* nothing it lists had changed before it was written (dependencies.c:229-260,
\* 374-391, 565-568).
DocumentVouchesForInputs ==
    job = "stage" =>
        /\ Listing = consumed
        /\ \A e \in Range(listed) : e.bytes \in since[e.path]

Apart(p, others) == \A q \in others : <<p, q>> \notin together

Read == {e.path : e \in Entries} \cup Range(sources)

\* Between calls, and when a document is about to be staged, no output leads to a file
\* that is read, a place where one was looked for, the manifest or another output, in
\* whatever order they were announced and by whatever links they are reached; nor does
\* the manifest, once it is written.  Of names that others change meanwhile it is true
\* what a loop over pairs can give: each pair has been apart at some moment since the
\* call, the check or the writing that compares it last began; if no name was changed
\* since, they are apart now (dependencies.c:234-243, 392-403, 419-427, 466-472,
\* 490-492, 515-524).
OutputsApart ==
    ~failed /\ path = NoPath /\ job \notin {"check", "write", "recheck"} =>
        /\ \A o \in Range(outputs) : Apart(o, Read \cup {manifestPath} \cup (Range(outputs) \ {o}))
        /\ job = "stage" /\ Document = "manifest" => Apart(manifestPath, Read \cup Range(outputs))
=============================================================================
