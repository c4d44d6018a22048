---------------------------- MODULE AssemblerRun ----------------------------
(***************************************************************************)
(* One invocation of the assembler from its plan of destinations on        *)
(* (main in xasm.c): the binary, the listing, the analysis files, the      *)
(* audit and the comparison, the dependency manifest and the source model  *)
(* are produced in this order, each of them may fail, and the batch of     *)
(* outputs is committed or discarded by the exit status they lead to.      *)
(*                                                                         *)
(* Each file goes through the actions of OutputBatch.  An output that is   *)
(* refused before it is opened (an input changed, memory ran out) counts   *)
(* as one that could not be opened.                                        *)
(***************************************************************************)
EXTENDS OutputBatch

CONSTANTS
    Listing, Manifest, Model, Diagnosis,    \* outputs besides the binary
    Sidecars,       \* the analysis files, in the order they are written
    ExitOf,         \* the exit code when one of them fails: 3, or 6 to 9
    Requests,       \* what invocations ask for: [outputs, audit, compare]
    Destinations    \* what their destinations hold when they start

\* The plan of destinations has no aliases, and no product but these has a writer.
ASSUME ProductsAssumption ==
    LET single == {Binary, Listing, Manifest, Model, Diagnosis}
        indices == 1 .. Len(Sidecars)
    IN  /\ single \subseteq Outputs /\ Sidecars \in Seq(Outputs \ single)
        /\ Listing # Binary /\ Manifest \notin {Binary, Listing}
        /\ Model \notin {Binary, Listing, Manifest}
        /\ Diagnosis \notin {Binary, Listing, Manifest, Model}
        /\ \A i, j \in indices : Sidecars[i] = Sidecars[j] => i = j
        /\ \A i \in indices : ExitOf[Sidecars[i]] \in {3, 6, 7, 8, 9}
        /\ \A r \in Requests : r.outputs \subseteq single \cup {Sidecars[i] : i \in indices}

VARIABLES
    job,        \* the product main is at
    request,    \* xasm_args
    errors,     \* total_errors() # 0
    exit,       \* exit_code
    generated,  \* output_generated
    failed,     \* dependencies_failed()
    recorded    \* the exit status written into a source model

driver  == <<job, request, errors, exit, generated, failed, recorded>>
runVars == <<vars, driver>>

Wants(o) == o \in request.outputs

\* A source that did not assemble has no batch: it goes on to the diagnostic
\* listing, or, when reading it, planning or a capture failed, to the clean-up,
\* which skips the source model when no source was captured.
RunInit ==
    /\ Init /\ before \in Destinations
    /\ request \in Requests
    /\ errors \in BOOLEAN /\ failed \in BOOLEAN /\ exit \in {0, 1, 3}
    /\ \/ job = "begin"   /\ ~errors /\ ~failed /\ exit = 0
       \/ job = "listing" /\ errors  /\ ~failed /\ exit = 0
       \/ job \in {"manifest", "publish"} /\ (errors \/ failed \/ exit # 0)
    /\ generated = FALSE /\ recorded = 0

-----------------------------------------------------------------------------
(* One file *)

Proceed(o)   == (Open(o) \/ Close(o)) /\ UNCHANGED driver
Delivered(o) == Stage(o) \/ Publish(o)
Lost(o)      == OpenFails(o) \/ Discard(o)

At(step)   == job = step /\ UNCHANGED request
GoTo(step) == job' = step

-----------------------------------------------------------------------------
(* The binary and the listing *)

StartBatch ==
    /\ At("begin") /\ Begin /\ GoTo("binary")
    /\ UNCHANGED <<errors, exit, generated, failed, recorded>>

WriteBinary == job = "binary" /\ Proceed(Binary)

BinaryDone ==
    /\ At("binary") /\ Stage(Binary) /\ GoTo("listing")
    /\ generated' = TRUE
    /\ UNCHANGED <<errors, exit, failed, recorded>>

BinaryLost ==
    /\ At("binary") /\ Lost(Binary) /\ GoTo("listing")
    /\ errors' = TRUE
    /\ UNCHANGED <<exit, generated, failed, recorded>>

\* Mutant: the unresolved analysis is noticed and then ignored.
UnresolvedAccepted ==
    /\ At("binary") /\ writer[Binary] = "ready" /\ Discard(Binary) /\ GoTo("listing")
    /\ generated' = TRUE
    /\ UNCHANGED <<errors, exit, failed, recorded>>

\* The binary is complete, but the analysis has values it could not resolve.
Unresolved ==
    /\ At("binary") /\ writer[Binary] = "ready" /\ Discard(Binary) /\ GoTo("listing")
    /\ exit' = 3
    /\ UNCHANGED <<errors, generated, failed, recorded>>

ListingDue == Wants(Listing) /\ (generated \/ errors)

WriteListing == job = "listing" /\ ListingDue /\ Proceed(Listing)

ListingDone ==
    /\ At("listing") /\ ListingDue /\ Delivered(Listing) /\ GoTo("sidecars")
    /\ UNCHANGED <<errors, exit, generated, failed, recorded>>

ListingLost ==
    /\ At("listing") /\ ListingDue /\ Lost(Listing) /\ GoTo("sidecars")
    /\ exit' = 3
    /\ UNCHANGED <<errors, generated, failed, recorded>>

NoListing ==
    /\ At("listing") /\ ~ListingDue /\ GoTo("sidecars")
    /\ UNCHANGED <<vars, errors, exit, generated, failed, recorded>>

-----------------------------------------------------------------------------
(* The analyses *)

Analysing == exit = 0 /\ generated

\* Mutant: a file that is delivered stays on the list.
PendingForever == {i \in 1 .. Len(Sidecars) : Wants(Sidecars[i])}

Pending == {i \in 1 .. Len(Sidecars) : /\ Wants(Sidecars[i])
                                       /\ writer[Sidecars[i]] \in {"idle", "open", "ready"}}
Sidecar == Sidecars[CHOOSE i \in Pending : \A j \in Pending : i <= j]

SidecarDue == job = "sidecars" /\ Analysing /\ Pending # {}

WriteSidecar == SidecarDue /\ Proceed(Sidecar)
SidecarDone  == SidecarDue /\ Delivered(Sidecar) /\ UNCHANGED driver

\* Mutant: the writer's result is not looked at.
SidecarLostQuietly == SidecarDue /\ Lost(Sidecar) /\ UNCHANGED driver

SidecarLost ==
    /\ SidecarDue /\ Lost(Sidecar)
    /\ exit' = ExitOf[Sidecar]
    /\ UNCHANGED <<job, request, errors, generated, failed, recorded>>

SidecarsOver ==
    /\ At("sidecars") /\ ~SidecarDue /\ GoTo("audit")
    /\ UNCHANGED <<vars, errors, exit, generated, failed, recorded>>

\* Nothing found, findings at error level, or no memory for the audit.
Audit ==
    /\ At("audit") /\ GoTo("compare")
    /\ IF Analysing /\ request.audit THEN exit' \in {0, 3, 4} ELSE exit' = exit
    /\ UNCHANGED <<vars, errors, generated, failed, recorded>>

\* Equal, different, or not readable.
Comparing == job = "compare" /\ Analysing /\ request.compare
Compare ==
    /\ At("compare") /\ GoTo("manifest")
    /\ IF Comparing THEN exit' \in {0, 3, 5} ELSE exit' = exit
    /\ UNCHANGED <<vars, errors, generated, failed, recorded>>

-----------------------------------------------------------------------------
(* The manifest and the source model *)

ManifestDue == Wants(Manifest) /\ exit = 0 /\ ~errors /\ generated

WriteManifest == job = "manifest" /\ ManifestDue /\ Proceed(Manifest)

ManifestDone ==
    /\ At("manifest") /\ ManifestDue /\ Delivered(Manifest) /\ GoTo("model")
    /\ UNCHANGED <<errors, exit, generated, failed, recorded>>

\* dependencies_write: an input or a destination changed, or a write failed.
ManifestLost ==
    /\ At("manifest") /\ ManifestDue /\ Lost(Manifest) /\ GoTo("model")
    /\ exit' = 3 /\ failed' = TRUE
    /\ UNCHANGED <<errors, generated, recorded>>

NoManifest ==
    /\ At("manifest") /\ ~ManifestDue /\ GoTo("model")
    /\ UNCHANGED <<vars, errors, exit, generated, failed, recorded>>

Certifiable == generated /\ ~errors /\ exit \in {0, 4, 5}

ModelDue == Wants(Model) /\ ~failed

NoModel ==
    /\ At("model") /\ GoTo("publish")
    /\ ~ModelDue \/ (~Certifiable /\ ~Wants(Diagnosis))
    /\ UNCHANGED <<vars, errors, exit, generated, failed, recorded>>

\* source_model_collection_failed: memory ran out, or its own checks failed.
CollectionFailed ==
    /\ At("model") /\ Wants(Model) /\ exit # 3
    /\ exit' = 3
    /\ UNCHANGED <<vars, job, errors, generated, failed, recorded>>

\* dependencies_validate or the plan of the diagnostic destinations failed.
ModelRefused ==
    /\ At("model") /\ ModelDue /\ GoTo("publish")
    /\ exit' = 3 /\ failed' = TRUE
    /\ UNCHANGED <<vars, errors, generated, recorded>>

Certify ==
    /\ At("model") /\ ModelDue /\ Certifiable /\ GoTo("certify")
    /\ recorded' = exit
    /\ UNCHANGED <<vars, errors, exit, generated, failed>>

\* The outputs staged so far are discarded before the diagnostic model, which is
\* published by itself.
Abandon ==
    /\ At("model") /\ ModelDue /\ ~Certifiable /\ Wants(Diagnosis)
    /\ Finish(FALSE) /\ GoTo("abandon")
    /\ UNCHANGED <<errors, exit, generated, failed, recorded>>

Abandoned ==
    /\ At("abandon") /\ EndFinish /\ GoTo("diagnose")
    /\ recorded' = IF exit = 0 THEN 1 ELSE exit
    /\ UNCHANGED <<errors, exit, generated, failed>>

ModelFile == IF job = "certify" THEN Model ELSE Diagnosis

WriteModel == job \in {"certify", "diagnose"} /\ Proceed(ModelFile)

ModelDone ==
    /\ job \in {"certify", "diagnose"} /\ Delivered(ModelFile) /\ GoTo("publish")
    /\ UNCHANGED <<request, errors, exit, generated, failed, recorded>>

ModelLost ==
    /\ job \in {"certify", "diagnose"} /\ Lost(ModelFile) /\ GoTo("publish")
    /\ exit' = 3
    /\ UNCHANGED <<request, errors, generated, failed, recorded>>

-----------------------------------------------------------------------------
(* Publication *)

Publishes(code, wrong) == code \in {0, 4, 5} /\ ~wrong

\* Mutant: the last checks come too late to stop the commit.
CommitEarly ==
    /\ At("publish") /\ GoTo("commit")
    /\ \E sound \in BOOLEAN :
          /\ exit' = IF failed \/ ~sound THEN 3 ELSE exit
          /\ errors' = (errors \/ ~sound)
          /\ Finish(Publishes(exit, errors))
    /\ UNCHANGED <<generated, failed, recorded>>

\* sound is ir_frontend_analysis_ok: a fatal graph error becomes known late.
Commit ==
    /\ At("publish") /\ GoTo("commit")
    /\ \E sound \in BOOLEAN :
          /\ exit' = IF failed \/ ~sound THEN 3 ELSE exit
          /\ errors' = (errors \/ ~sound)
          /\ Finish(Publishes(exit', errors'))
    /\ UNCHANGED <<generated, failed, recorded>>

InFinish ==
    /\ job \in {"abandon", "commit"}
    /\ \/ Preserve \/ PreserveFails \/ StartReplacing
       \/ Replace \/ ReplaceFails \/ StartUnwinding
       \/ Restore \/ RestoreFails
    /\ UNCHANGED driver

Committed ==
    /\ At("commit") /\ EndFinish /\ GoTo("done")
    /\ exit' = IF Publishes(exit, errors) /\ ~success THEN 3 ELSE exit
    /\ UNCHANGED <<errors, generated, failed, recorded>>

RunNext ==
    \/ StartBatch \/ WriteBinary \/ BinaryDone \/ BinaryLost \/ Unresolved
    \/ WriteListing \/ ListingDone \/ ListingLost \/ NoListing
    \/ WriteSidecar \/ SidecarDone \/ SidecarLost \/ SidecarsOver
    \/ Audit \/ Compare
    \/ WriteManifest \/ ManifestDone \/ ManifestLost \/ NoManifest
    \/ NoModel \/ CollectionFailed \/ ModelRefused \/ Certify \/ Abandon \/ Abandoned
    \/ WriteModel \/ ModelDone \/ ModelLost
    \/ Commit \/ InFinish \/ Committed

\* One thread runs main to its end.
RunSpec == RunInit /\ [][RunNext]_runVars /\ WF_runVars(RunNext)

\* What main returns.
Status ==
    IF exit = 3 /\ (Wants(Manifest) \/ Wants(Model)) THEN 3 ELSE IF errors THEN 1 ELSE exit

-----------------------------------------------------------------------------
(* Properties *)

Requested == {Binary} \cup (request.outputs \ {Diagnosis})

\* Exit 0, 4 or 5: every requested product is in place, the manifest only with
\* exit 0 (README, "Exit statuses"; xasm.c:1954-1962).
SuccessIsComplete ==
    job = "done" /\ Status \in {0, 4, 5} =>
        \A o \in Requested : dest[o] = "new" \/ (o = Manifest /\ Status # 0)

\* Any other exit: nothing of the invocation is in place, except the listing of a
\* source that did not assemble, and what a failed rollback reported.
FailurePreserves ==
    job = "done" /\ Status \notin {0, 4, 5} =>
        \A o \in Requested : \/ dest[o] = before[o] \/ o \in unrestored
                             \/ o = Listing /\ ~generated

\* What the documents in place say is true: a listing that says the binary was
\* generated stands beside that binary, a manifest vouches for a complete and
\* successful invocation, a certified model carries the status the invocation
\* ended with, and a diagnostic model comes from one that failed (xasm.c:1795-1962).
DocumentsTellTruth ==
    /\ phase = "collect" /\ generated /\ dest[Listing] = "new" /\ Listing \notin unrestored
          => dest[Binary] = "new"
    /\ job = "done" =>
          /\ dest[Manifest] = "new" /\ Manifest \notin unrestored => Status = 0
          /\ dest[Model] = "new" /\ Model \notin unrestored => recorded = Status
          /\ dest[Diagnosis] = "new" => Status \notin {0, 4, 5}

\* The comparison reads the complete binary of this invocation, never the one it
\* is about to replace (xasm.c:1304).
ComparesThisBinary == Comparing => Reads(Binary) = "complete"

\* Every invocation ends.
Ends == <>(job = "done")

\* README: the manifest "is published last".
ManifestIsLast ==
    [][job = "commit" /\ phase = "replace" /\ dest' # dest => Manifest \notin published]_runVars
=============================================================================
