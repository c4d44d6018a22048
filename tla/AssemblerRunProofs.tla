------------------------- MODULE AssemblerRunProofs -------------------------
(***************************************************************************)
(* What an invocation of the assembler leaves on disk, for any list of     *)
(* analysis files, any request and any pattern of failures: the exit       *)
(* status that main computes along the way agrees with what the batch of   *)
(* outputs has done.                                                       *)
(***************************************************************************)
EXTENDS AssemblerRun, OutputBatchProofs, FiniteSetTheorems, WellFoundedInduction

Jobs == {"begin", "binary", "listing", "sidecars", "audit", "compare", "manifest", "model",
         "certify", "abandon", "diagnose", "publish", "commit", "done"}

\* Where main can be before and after its larger steps.
ToListing  == {"begin", "binary", "listing"}
ToSidecars == ToListing \cup {"sidecars"}
ToManifest == ToSidecars \cup {"audit", "compare", "manifest"}
ToModel    == ToManifest \cup {"model", "certify", "abandon", "diagnose"}

\* Main may still succeed.
Good == ~errors /\ ~failed /\ exit \in {0, 4, 5}

\* The product is on its way to its destination or there.
Secured(o) == IF job = "done" THEN returned[o] = "success" ELSE o \in Staged

DriverType ==
    /\ job \in Jobs /\ request \in Requests
    /\ errors \in BOOLEAN /\ generated \in BOOLEAN /\ failed \in BOOLEAN
    /\ exit \in {0, 1, 3, 4, 5, 6, 7, 8, 9}
    /\ job \in ToSidecars \cup {"audit"} => exit \notin {4, 5}

\* The batch follows main: it is open from the binary to its commit, and its verdict
\* is the one main asks for.
BatchFollows ==
    /\ phase # "collect" <=> job \in {"abandon", "commit"}
    /\ Staged # {} => batching
    /\ job = "binary" => batching
    /\ job = "begin" => Staged = {}
    /\ job \in {"diagnose", "done"} => Staged = {} /\ ~batching
    /\ job = "abandon" => ~success
    /\ job = "commit" /\ success => Publishes(exit, errors)
    /\ job \in {"commit", "done"} /\ failed => exit = 3
    /\ \A o \in Outputs : returned[o] = "success" => job = "done" /\ Publishes(exit, errors)

\* What main has done when it may still succeed.
Progress ==
    /\ job \in {"begin", "binary"} => ~generated
    /\ generated /\ job \in ToModel \ {"abandon", "diagnose"} => Binary \in Staged
    /\ job \in {"abandon", "diagnose"} => ~Good
    /\ Good /\ job \notin {"begin", "binary"} => generated /\ Secured(Binary)
    /\ Good /\ job \notin ToListing /\ Wants(Listing) => Secured(Listing)
    /\ Good /\ exit = 0 /\ job \notin ToManifest /\ Wants(Manifest) => Secured(Manifest)
    /\ Good /\ job \notin ToModel /\ Wants(Model) => Secured(Model)
    /\ Good => \A i \in 1 .. Len(Sidecars) : Wants(Sidecars[i]) =>
          IF job \in ToSidecars
          THEN writer[Sidecars[i]] \in {"idle", "open", "ready"} \/ Secured(Sidecars[i])
          ELSE Secured(Sidecars[i])

\* What is written is still true.
Documents ==
    /\ job \in {"begin", "binary"} => writer[Listing] = "idle"
    /\ job \in ToManifest \ {"manifest"} => writer[Manifest] = "idle"
    /\ writer[Manifest] # "idle" => exit \in {0, 3}
    /\ job \in ToModel \ {"certify"} => writer[Model] = "idle"
    /\ job = "certify" => Certifiable /\ ~failed /\ recorded = exit
    /\ writer[Model] # "idle" => recorded = exit \/ exit = 3
    /\ job \in ToModel \ {"diagnose"} => writer[Diagnosis] = "idle"
    /\ writer[Diagnosis] # "idle" => ~Good
    /\ \A o \in Outputs : writer[o] = "published" => o = Diagnosis \/ (o = Listing /\ ~generated)

DriverInv == DriverType /\ BatchFollows /\ Progress /\ Documents
RunInv    == Inv /\ DriverInv
-----------------------------------------------------------------------------
(* Facts about one step *)

LEMMA Products ==
    /\ Binary \in Outputs /\ Listing \in Outputs /\ Manifest \in Outputs
    /\ Model \in Outputs /\ Diagnosis \in Outputs
    /\ Binary # Listing /\ Binary # Manifest /\ Binary # Model /\ Binary # Diagnosis
    /\ Listing # Manifest /\ Listing # Model /\ Listing # Diagnosis
    /\ Manifest # Model /\ Manifest # Diagnosis /\ Model # Diagnosis
    /\ \A i \in 1 .. Len(Sidecars) :
          /\ Sidecars[i] \in Outputs \ {Binary, Listing, Manifest, Model, Diagnosis}
          /\ ExitOf[Sidecars[i]] \in {3, 6, 7, 8, 9}
          /\ \A j \in 1 .. Len(Sidecars) : Sidecars[i] = Sidecars[j] => i = j
BY ProductsAssumption

\* A nonempty set of numbers up to a bound has a least member.
LEMMA LeastMember ==
    ASSUME NEW n \in Nat, NEW S \in SUBSET (1 .. n), S # {}
    PROVE  \E i \in S : \A j \in S : i <= j
<1> DEFINE R == StrictSubsetOrdering(1 .. n)
           T == {1 .. i : i \in S}
<1>1. IsWellFoundedOn(R, SUBSET (1 .. n))
  <2>1. IsFiniteSet(1 .. n)
    BY FS_Interval
  <2> QED
    BY <2>1, FS_StrictSubsetOrderingWellFounded, FS_FiniteSubsetsOfFinite
<1>2. T # {} /\ \A x \in T : x \subseteq 1 .. n
  <2>1. \A x \in T : x \subseteq 1 .. n
    BY Z3
  <2> QED
    BY <2>1
<1>3. ASSUME NEW i \in S, NEW j \in S, j < i PROVE <<1 .. j, 1 .. i>> \in R
  <2>1. 1 .. j \in SUBSET (1 .. n) /\ 1 .. i \in SUBSET (1 .. n)
    OBVIOUS
  <2>2. (1 .. j) \subseteq (1 .. i) /\ i \in 1 .. i /\ i \notin 1 .. j
    BY <1>3
  <2> QED
    BY <2>1, <2>2 DEF StrictSubsetOrdering
<1> HIDE DEF R
<1>4. \E x \in T : \A y \in T : ~(<<y, x>> \in R)
  <2> HIDE DEF T
  <2> QED
    BY <1>1, <1>2, WFMin
<1>5. PICK i \in S : \A j \in S : ~(<<1 .. j, 1 .. i>> \in R)
  BY <1>4
<1>6. \A j \in S : ~(j < i)
  BY <1>3, <1>5
<1> QED
  BY <1>6

\* The file that write_sidecars is at is the first of those that are left.
LEMMA SidecarIs ==
    ASSUME Pending # {}
    PROVE  \E i \in Pending : i \in 1 .. Len(Sidecars) /\ Sidecar = Sidecars[i]
<1>1. Len(Sidecars) \in Nat /\ Pending \in SUBSET (1 .. Len(Sidecars))
  BY ProductsAssumption DEF Pending
<1>2. \E i \in Pending : \A j \in Pending : i <= j
  BY <1>1, LeastMember
<1> DEFINE least == CHOOSE i \in Pending : \A j \in Pending : i <= j
<1>3. least \in Pending
  BY <1>2
<1> QED
  BY <1>1, <1>3 DEF Sidecar

\* One file changes, and only its own entries do.
LEMMA WritingEffect ==
    ASSUME TypeOK, NEW o \in Outputs, Writing(o)
    PROVE  /\ phase = "collect" /\ UNCHANGED <<phase, success, returned, batching>>
           /\ \A p \in Outputs \ {o} : writer'[p] = writer[p]
           /\ writer'[o] # "idle"
           /\ Staged' = IF Stage(o) THEN Staged \cup {o} ELSE Staged
           /\ Stage(o) => batching /\ writer'[o] = "staged"
           /\ Publish(o) => ~batching
           /\ writer'[o] = "published" <=> Publish(o)
           /\ Open(o) \/ Close(o) => writer'[o] \in {"open", "ready"}
<1>1. phase = "collect" /\ UNCHANGED <<phase, success, returned, batching>>
  BY DEF Writing, Open, OpenFails, Close, Discard, Stage, Publish, Collecting, commit
<1>2. Staged' = IF Stage(o) THEN Staged \cup {o} ELSE Staged
  <2>1. CASE Stage(o)
    BY <2>1 DEF Stage, TypeOK, Staged
  <2>2. CASE ~Stage(o)
    BY <2>2 DEF Writing, Open, OpenFails, Close, Discard, Publish, Staged, files
  <2> QED
    BY <2>1, <2>2
<1>3. /\ \A p \in Outputs \ {o} : writer'[p] = writer[p]
      /\ writer'[o] # "idle"
      /\ Stage(o) => batching /\ writer'[o] = "staged"
      /\ Publish(o) => ~batching
      /\ writer'[o] = "published" <=> Publish(o)
      /\ Open(o) \/ Close(o) => writer'[o] \in {"open", "ready"}
  BY DEF Writing, Open, OpenFails, Close, Discard, Stage, Publish, TypeOK
<1> QED
  BY <1>1, <1>2, <1>3

\* The loops of output_batch_finish change neither a writer nor the list.
LEMMA InFinishEffect ==
    ASSUME TypeOK, InFinish
    PROVE  /\ UNCHANGED <<writer, batching, stages, returned, driver>> /\ Staged' = Staged
           /\ phase # "collect" /\ phase' # "collect" /\ success' => success
BY DEF InFinish, Preserve, PreserveFails, StartReplacing, Replace, ReplaceFails,
       StartUnwinding, Restore, RestoreFails, In, GiveUp, Step, Staged

LEMMA EndFinishEffect ==
    ASSUME TypeOK, EndFinish
    PROVE  /\ phase = "unwind" /\ phase' = "collect" /\ writer' = writer
           /\ Staged' = {} /\ ~batching'
           /\ \A o \in Outputs : returned'[o] = IF o \notin Staged THEN returned[o]
                                                ELSE IF success THEN "success" ELSE "failure"
<1>1. stages' = <<>>
  BY DEF EndFinish
<1>2. Staged' = {}
  BY <1>1 DEF Staged
<1> QED
  BY <1>2 DEF EndFinish, In, TypeOK

-----------------------------------------------------------------------------
(* The invariant of main *)

LEMMA RunInvInit == RunInit => RunInv
<1> SUFFICES ASSUME RunInit PROVE RunInv
  OBVIOUS
<1>1. Inv
  BY InvInit DEF RunInit
<1>2. /\ phase = "collect" /\ Staged = {} /\ ~batching
      /\ \A o \in Outputs : writer[o] = "idle" /\ returned[o] = "nothing"
  BY DEF RunInit, Init, Staged
<1>3. /\ job \in {"begin", "listing", "manifest", "publish"} /\ exit \in {0, 1, 3}
      /\ errors \in BOOLEAN /\ failed \in BOOLEAN /\ generated \in BOOLEAN /\ ~generated
      /\ request \in Requests
      /\ job # "begin" => errors \/ failed \/ exit # 0
  BY DEF RunInit
<1>4. DriverType
  BY <1>3 DEF DriverType, Jobs, ToSidecars, ToListing
<1>5. BatchFollows
  BY <1>2, <1>3 DEF BatchFollows
<1>6. Progress
  BY <1>2, <1>3, Products DEF Progress, Good, ToModel, ToManifest, ToSidecars, ToListing
<1>7. Documents
  BY <1>2, <1>3, Products DEF Documents
<1> QED
  BY <1>1, <1>4, <1>5, <1>6, <1>7 DEF RunInv, DriverInv

\* Steps of main that touch no file.
Deciding ==
    \/ NoListing \/ SidecarsOver \/ Audit \/ Compare \/ NoManifest
    \/ NoModel \/ CollectionFailed \/ ModelRefused \/ Certify

LEMMA DecidingInv == RunInv /\ Deciding => DriverInv'
<1> SUFFICES ASSUME RunInv, Deciding PROVE DriverInv'
  OBVIOUS
<1> USE DEF RunInv, DriverInv, Jobs, ToModel, ToManifest, ToSidecars, ToListing
<1>1. /\ UNCHANGED <<phase, success, returned, batching, writer, stages, request, generated, errors>>
      /\ Staged' = Staged
  BY DEF Deciding, NoListing, SidecarsOver, Audit, Compare, NoManifest, NoModel,
         CollectionFailed, ModelRefused, Certify, vars, files, commit, At, Staged
<1>2. DriverType'
  BY <1>1 DEF DriverType, Deciding, NoListing, SidecarsOver, Audit, Compare, NoManifest, NoModel,
         CollectionFailed, ModelRefused, Certify, At, GoTo, Analysing, Comparing
<1>3. BatchFollows'
  BY <1>1 DEF DriverType, BatchFollows, Deciding, NoListing, SidecarsOver, Audit, Compare, NoManifest, NoModel,
         CollectionFailed, ModelRefused, Certify, At, GoTo, Publishes
<1>4. Progress'
  <2>1. CASE NoListing
    BY <1>1, <2>1 DEF DriverType, Progress, NoListing, At, GoTo, Good, Secured, Wants, ListingDue
  <2>2. CASE SidecarsOver
    BY <1>1, <2>2 DEF DriverType, Progress, SidecarsOver, At, GoTo, Good, Secured, Wants, SidecarDue, Pending, Analysing
  <2>3. CASE Audit
    BY <1>1, <2>3 DEF DriverType, Progress, Audit, At, GoTo, Good, Secured, Wants, Analysing
  <2>4. CASE Compare
    BY <1>1, <2>4 DEF DriverType, Progress, Compare, At, GoTo, Good, Secured, Wants, Comparing, Analysing
  <2>5. CASE NoManifest
    BY <1>1, <2>5 DEF DriverType, Progress, NoManifest, At, GoTo, Good, Secured, Wants, ManifestDue
  <2>6. CASE NoModel
    BY <1>1, <2>6 DEF DriverType, Progress, NoModel, At, GoTo, Good, Secured, Wants, ModelDue, Certifiable
  <2>7. CASE CollectionFailed
    BY <1>1, <2>7 DEF DriverType, Progress, CollectionFailed, At, GoTo, Good, Secured, Wants
  <2>8. CASE ModelRefused
    BY <1>1, <2>8 DEF DriverType, Progress, ModelRefused, At, GoTo, Good, Secured, Wants
  <2>9. CASE Certify
    BY <1>1, <2>9 DEF DriverType, Progress, Certify, At, GoTo, Good, Secured, Wants, ModelDue, Certifiable
  <2> QED
    BY <2>1, <2>2, <2>3, <2>4, <2>5, <2>6, <2>7, <2>8, <2>9 DEF Deciding
<1>5. Documents'
  <2>1. CASE NoListing
    BY <1>1, <2>1 DEF DriverType, Documents, NoListing, At, GoTo, Good, Secured, Wants, ListingDue
  <2>2. CASE SidecarsOver
    BY <1>1, <2>2 DEF DriverType, Documents, SidecarsOver, At, GoTo, Good, Secured, Wants, SidecarDue, Pending, Analysing
  <2>3. CASE Audit
    BY <1>1, <2>3 DEF DriverType, Documents, Audit, At, GoTo, Good, Secured, Wants, Analysing
  <2>4. CASE Compare
    BY <1>1, <2>4 DEF DriverType, Documents, Compare, At, GoTo, Good, Secured, Wants, Comparing, Analysing
  <2>5. CASE NoManifest
    BY <1>1, <2>5 DEF DriverType, Documents, NoManifest, At, GoTo, Good, Secured, Wants, ManifestDue
  <2>6. CASE NoModel
    BY <1>1, <2>6 DEF DriverType, Documents, NoModel, At, GoTo, Good, Secured, Wants, ModelDue, Certifiable
  <2>7. CASE CollectionFailed
    BY <1>1, <2>7 DEF DriverType, Documents, CollectionFailed, At, GoTo, Good, Secured, Wants
  <2>8. CASE ModelRefused
    BY <1>1, <2>8 DEF DriverType, Documents, ModelRefused, At, GoTo, Good, Secured, Wants
  <2>9. CASE Certify
    BY <1>1, <2>9 DEF DriverType, Documents, Certify, At, GoTo, Good, Secured, Wants, ModelDue, Certifiable
  <2> QED
    BY <2>1, <2>2, <2>3, <2>4, <2>5, <2>6, <2>7, <2>8, <2>9 DEF Deciding
<1> QED
  BY <1>2, <1>3, <1>4, <1>5

LEMMA BinaryInv ==
    RunInv /\ (WriteBinary \/ BinaryDone \/ BinaryLost \/ Unresolved) => DriverInv'
<1> SUFFICES ASSUME RunInv, WriteBinary \/ BinaryDone \/ BinaryLost \/ Unresolved PROVE DriverInv'
  OBVIOUS
<1> USE Products DEF RunInv, DriverInv, Jobs, ToModel, ToManifest, ToSidecars, ToListing
<1>1. Writing(Binary) /\ TypeOK
  BY DEF Inv, Writing, WriteBinary, BinaryDone, BinaryLost, Unresolved, Proceed, Lost, Delivered
<1>2. /\ phase = "collect" /\ UNCHANGED <<phase, success, returned, batching>>
      /\ \A p \in Outputs \ {Binary} : writer'[p] = writer[p]
      /\ writer'[Binary] # "idle"
      /\ Staged' = IF Stage(Binary) THEN Staged \cup {Binary} ELSE Staged
      /\ Stage(Binary) => batching /\ writer'[Binary] = "staged"
      /\ Publish(Binary) => ~batching
      /\ writer'[Binary] = "published" <=> Publish(Binary)
      /\ Open(Binary) \/ Close(Binary) => writer'[Binary] \in {"open", "ready"}
  BY <1>1, WritingEffect
<1>3. CASE WriteBinary
  <2>1. DriverType'
    BY <1>2, <1>3 DEF DriverType, WriteBinary, driver, Proceed
  <2>2. BatchFollows'
    BY <1>2, <1>3 DEF BatchFollows, WriteBinary, driver, Proceed
  <2>3. Progress'
    BY <1>2, <1>3 DEF Progress, WriteBinary, driver, Good, Secured, Wants, Proceed
  <2>4. Documents'
    BY <1>2, <1>3 DEF Documents, WriteBinary, driver, Proceed
  <2> QED
    BY <2>1, <2>2, <2>3, <2>4
<1>4. CASE BinaryDone
  <2>1. DriverType'
    BY <1>2, <1>4 DEF DriverType, BinaryDone, At, GoTo
  <2>2. BatchFollows'
    BY <1>2, <1>4 DEF BatchFollows, BinaryDone, GoTo
  <2>3. Progress'
    BY <1>2, <1>4 DEF Progress, BinaryDone, At, GoTo, Good, Secured, Wants
  <2>4. Documents'
    BY <1>2, <1>4 DEF Documents, BinaryDone, At, GoTo
  <2> QED
    BY <2>1, <2>2, <2>3, <2>4
<1>5. CASE BinaryLost
  <2>1. DriverType'
    BY <1>2, <1>5 DEF DriverType, BinaryLost, At, GoTo, Lost
  <2>2. BatchFollows'
    BY <1>2, <1>5 DEF BatchFollows, BinaryLost, At, GoTo, Lost
  <2>3. Progress'
    BY <1>2, <1>5 DEF Progress, BinaryLost, At, Good, Lost
  <2>4. Documents'
    BY <1>2, <1>5 DEF BatchFollows, Documents, BinaryLost, At, GoTo, Lost
  <2> QED
    BY <2>1, <2>2, <2>3, <2>4
<1>6. CASE Unresolved
  <2>1. DriverType'
    BY <1>2, <1>6 DEF DriverType, Unresolved, At, GoTo
  <2>2. BatchFollows'
    BY <1>2, <1>6 DEF BatchFollows, Unresolved, At, GoTo
  <2>3. Progress'
    BY <1>2, <1>6 DEF Progress, Unresolved, At, Good
  <2>4. Documents'
    BY <1>2, <1>6 DEF BatchFollows, Documents, Unresolved, At, GoTo
  <2> QED
    BY <2>1, <2>2, <2>3, <2>4
<1> QED
  BY <1>3, <1>4, <1>5, <1>6

LEMMA ListingInv ==
    RunInv /\ (WriteListing \/ ListingDone \/ ListingLost) => DriverInv'
<1> SUFFICES ASSUME RunInv, WriteListing \/ ListingDone \/ ListingLost PROVE DriverInv'
  OBVIOUS
<1> USE Products DEF RunInv, DriverInv, Jobs, ToModel, ToManifest, ToSidecars, ToListing
<1>1. Writing(Listing) /\ TypeOK
  BY DEF Inv, Writing, WriteListing, ListingDone, ListingLost, Proceed, Lost, Delivered
<1>2. /\ phase = "collect" /\ UNCHANGED <<phase, success, returned, batching>>
      /\ \A p \in Outputs \ {Listing} : writer'[p] = writer[p]
      /\ writer'[Listing] # "idle"
      /\ Staged' = IF Stage(Listing) THEN Staged \cup {Listing} ELSE Staged
      /\ Stage(Listing) => batching /\ writer'[Listing] = "staged"
      /\ Publish(Listing) => ~batching
      /\ writer'[Listing] = "published" <=> Publish(Listing)
      /\ Open(Listing) \/ Close(Listing) => writer'[Listing] \in {"open", "ready"}
  BY <1>1, WritingEffect
<1>3. CASE WriteListing
  <2>1. DriverType'
    BY <1>2, <1>3 DEF DriverType, WriteListing, driver, Proceed, ListingDue
  <2>2. BatchFollows'
    BY <1>2, <1>3 DEF BatchFollows, WriteListing, driver, Proceed, ListingDue
  <2>3. Progress'
    BY <1>2, <1>3 DEF Progress, WriteListing, driver, Good, Secured, Wants, Proceed, ListingDue
  <2>4. Documents'
    BY <1>2, <1>3 DEF Documents, WriteListing, driver, Proceed, ListingDue
  <2> QED
    BY <2>1, <2>2, <2>3, <2>4
<1>4. CASE ListingDone
  <2>1. DriverType'
    BY <1>2, <1>4 DEF DriverType, ListingDone, At, GoTo, Delivered, ListingDue
  <2>2. BatchFollows'
    BY <1>2, <1>4 DEF BatchFollows, ListingDone, At, GoTo, Delivered, ListingDue
  <2>3. Progress'
    BY <1>2, <1>4 DEF BatchFollows, Progress, ListingDone, At, GoTo, Good, Secured, Wants,
       Delivered, ListingDue
  <2>4. Documents'
    BY <1>2, <1>4 DEF BatchFollows, Progress, Documents, ListingDone, At, GoTo, Delivered,
       ListingDue
  <2> QED
    BY <2>1, <2>2, <2>3, <2>4
<1>5. CASE ListingLost
  <2>1. DriverType'
    BY <1>2, <1>5 DEF DriverType, ListingLost, At, GoTo, Lost, ListingDue
  <2>2. BatchFollows'
    BY <1>2, <1>5 DEF BatchFollows, ListingLost, At, GoTo, Lost, ListingDue
  <2>3. Progress'
    BY <1>2, <1>5 DEF Progress, ListingLost, At, GoTo, Good, Lost, ListingDue
  <2>4. Documents'
    BY <1>2, <1>5 DEF BatchFollows, Progress, Documents, ListingLost, At, GoTo, Lost, ListingDue
  <2> QED
    BY <2>1, <2>2, <2>3, <2>4
<1> QED
  BY <1>3, <1>4, <1>5

LEMMA ManifestInv ==
    RunInv /\ (WriteManifest \/ ManifestDone \/ ManifestLost) => DriverInv'
<1> SUFFICES ASSUME RunInv, WriteManifest \/ ManifestDone \/ ManifestLost PROVE DriverInv'
  OBVIOUS
<1> USE Products DEF RunInv, DriverInv, Jobs, ToModel, ToManifest, ToSidecars, ToListing
<1>1. Writing(Manifest) /\ TypeOK
  BY DEF Inv, Writing, WriteManifest, ManifestDone, ManifestLost, Proceed, Lost, Delivered
<1>2. /\ phase = "collect" /\ UNCHANGED <<phase, success, returned, batching>>
      /\ \A p \in Outputs \ {Manifest} : writer'[p] = writer[p]
      /\ writer'[Manifest] # "idle"
      /\ Staged' = IF Stage(Manifest) THEN Staged \cup {Manifest} ELSE Staged
      /\ Stage(Manifest) => batching /\ writer'[Manifest] = "staged"
      /\ Publish(Manifest) => ~batching
      /\ writer'[Manifest] = "published" <=> Publish(Manifest)
      /\ Open(Manifest) \/ Close(Manifest) => writer'[Manifest] \in {"open", "ready"}
  BY <1>1, WritingEffect
<1>3. CASE WriteManifest
  <2>1. DriverType'
    BY <1>2, <1>3 DEF DriverType, WriteManifest, driver, Proceed, ManifestDue
  <2>2. BatchFollows'
    BY <1>2, <1>3 DEF BatchFollows, WriteManifest, driver, Proceed, ManifestDue
  <2>3. Progress'
    BY <1>2, <1>3 DEF Progress, WriteManifest, driver, Good, Secured, Wants, Proceed, ManifestDue
  <2>4. Documents'
    BY <1>2, <1>3 DEF Documents, WriteManifest, driver, Proceed, ManifestDue
  <2> QED
    BY <2>1, <2>2, <2>3, <2>4
<1>4. CASE ManifestDone
  <2>1. DriverType'
    BY <1>2, <1>4 DEF DriverType, ManifestDone, At, GoTo, Delivered, ManifestDue
  <2>2. BatchFollows'
    BY <1>2, <1>4 DEF BatchFollows, ManifestDone, At, GoTo, Delivered, ManifestDue
  <2>3. Progress'
    BY <1>2, <1>4 DEF BatchFollows, Progress, ManifestDone, At, GoTo, Good, Secured, Wants,
       Delivered, ManifestDue
  <2>4. Documents'
    BY <1>2, <1>4 DEF BatchFollows, Progress, Documents, ManifestDone, At, GoTo, Delivered,
       ManifestDue
  <2> QED
    BY <2>1, <2>2, <2>3, <2>4
<1>5. CASE ManifestLost
  <2>1. DriverType'
    BY <1>2, <1>5 DEF DriverType, ManifestLost, At, GoTo, Lost, ManifestDue
  <2>2. BatchFollows'
    BY <1>2, <1>5 DEF BatchFollows, ManifestLost, At, GoTo, Lost, ManifestDue
  <2>3. Progress'
    BY <1>2, <1>5 DEF Progress, ManifestLost, At, GoTo, Good, Lost, ManifestDue
  <2>4. Documents'
    BY <1>2, <1>5 DEF BatchFollows, Progress, Documents, ManifestLost, At, GoTo, Lost,
       ManifestDue
  <2> QED
    BY <2>1, <2>2, <2>3, <2>4
<1> QED
  BY <1>3, <1>4, <1>5

LEMMA SidecarInv ==
    RunInv /\ (WriteSidecar \/ SidecarDone \/ SidecarLost) => DriverInv'
<1> SUFFICES ASSUME RunInv, WriteSidecar \/ SidecarDone \/ SidecarLost PROVE DriverInv'
  OBVIOUS
<1> USE Products DEF RunInv, DriverInv, Jobs, ToModel, ToManifest, ToSidecars, ToListing
<1>1. job = "sidecars" /\ exit = 0 /\ generated
  BY DEF WriteSidecar, SidecarDone, SidecarLost, SidecarDue, Analysing
<1>2. PICK n \in 1 .. Len(Sidecars), s \in Outputs \ {Binary, Listing, Manifest, Model, Diagnosis} :
          s = Sidecars[n] /\ s = Sidecar /\ ExitOf[s] \in {3, 6, 7, 8, 9}
  BY SidecarIs DEF WriteSidecar, SidecarDone, SidecarLost, SidecarDue
<1>3. Writing(s) /\ TypeOK
  BY <1>2 DEF Inv, Writing, WriteSidecar, SidecarDone, SidecarLost, Proceed, Lost, Delivered
<1>4. /\ phase = "collect" /\ UNCHANGED <<phase, success, returned, batching>>
      /\ \A p \in Outputs \ {s} : writer'[p] = writer[p]
      /\ writer'[s] # "idle"
      /\ Staged' = IF Stage(s) THEN Staged \cup {s} ELSE Staged
      /\ Stage(s) => batching /\ writer'[s] = "staged"
      /\ Publish(s) => ~batching
      /\ writer'[s] = "published" <=> Publish(s)
      /\ Open(s) \/ Close(s) => writer'[s] \in {"open", "ready"}
  BY <1>3, WritingEffect
<1>5. CASE WriteSidecar
  <2>1. DriverType'
    BY <1>1, <1>2, <1>4, <1>5 DEF DriverType, driver, WriteSidecar, Proceed
  <2>2. BatchFollows'
    BY <1>1, <1>2, <1>4, <1>5 DEF BatchFollows, driver, WriteSidecar, Proceed
  <2>3. Progress'
    BY <1>1, <1>2, <1>4, <1>5 DEF Progress, driver, Good, Secured, Wants, WriteSidecar, Proceed
  <2>4. Documents'
    <3>1. UNCHANGED <<job, exit, recorded, generated, errors, failed>>
      BY <1>5 DEF WriteSidecar, Proceed, driver
    <3>2. writer'[s] # "published"
      BY <1>4, <1>5, <1>2 DEF WriteSidecar, Proceed
    <3>3. \A o \in Outputs : writer'[o] = "published" => writer[o] = "published"
      BY <1>4, <3>2
    <3> QED
      BY <1>1, <1>2, <1>4, <3>1, <3>3 DEF Documents
  <2> QED
    BY <2>1, <2>2, <2>3, <2>4
<1>6. CASE SidecarDone
  <2>1. DriverType'
    BY <1>1, <1>2, <1>4, <1>6 DEF DriverType, driver, SidecarDone, Delivered
  <2>2. BatchFollows'
    BY <1>1, <1>2, <1>4, <1>6 DEF BatchFollows, driver, SidecarDone, Delivered
  <2>3. Progress'
    BY <1>1, <1>2, <1>4, <1>6 DEF BatchFollows, Progress, driver, Good, Secured, Wants,
       SidecarDone, Delivered
  <2>4. Documents'
    <3>1. ~Publish(s)
      BY <1>1, <1>4 DEF Progress, BatchFollows
    <3>2. UNCHANGED <<job, exit, recorded, generated, errors, failed>>
      BY <1>6 DEF SidecarDone, driver
    <3>3. \A o \in Outputs : writer'[o] = "published" => writer[o] = "published"
      BY <1>4, <3>1
    <3> QED
      BY <1>1, <1>2, <1>4, <3>2, <3>3 DEF Documents
  <2> QED
    BY <2>1, <2>2, <2>3, <2>4
<1>7. CASE SidecarLost
  <2>1. DriverType'
    BY <1>1, <1>2, <1>4, <1>7 DEF DriverType, SidecarLost, Lost
  <2>2. BatchFollows'
    BY <1>1, <1>2, <1>4, <1>7 DEF BatchFollows, SidecarLost, Lost
  <2>3. Progress'
    BY <1>1, <1>2, <1>4, <1>7 DEF Progress, Good, SidecarLost, Lost
  <2>4. Documents'
    BY <1>1, <1>2, <1>4, <1>7 DEF BatchFollows, Progress, Documents, SidecarLost, Lost
  <2> QED
    BY <2>1, <2>2, <2>3, <2>4
<1> QED
  BY <1>5, <1>6, <1>7

LEMMA ModelInv ==
    RunInv /\ (WriteModel \/ ModelDone \/ ModelLost) => DriverInv'
<1> SUFFICES ASSUME RunInv, WriteModel \/ ModelDone \/ ModelLost PROVE DriverInv'
  OBVIOUS
<1> USE Products DEF RunInv, DriverInv, Jobs, ToModel, ToManifest, ToSidecars, ToListing
<1>1. job \in {"certify", "diagnose"}
  BY DEF WriteModel, ModelDone, ModelLost
<1>2. PICK m \in Outputs : m = IF job = "certify" THEN Model ELSE Diagnosis
  OBVIOUS
<1>3. m = ModelFile
  BY <1>2 DEF ModelFile
<1>4. Writing(m) /\ TypeOK
  BY <1>3 DEF Inv, Writing, WriteModel, ModelDone, ModelLost, Proceed, Lost, Delivered
<1>5. /\ phase = "collect" /\ UNCHANGED <<phase, success, returned, batching>>
      /\ \A p \in Outputs \ {m} : writer'[p] = writer[p]
      /\ writer'[m] # "idle"
      /\ Staged' = IF Stage(m) THEN Staged \cup {m} ELSE Staged
      /\ Stage(m) => batching /\ writer'[m] = "staged"
      /\ Publish(m) => ~batching
      /\ writer'[m] = "published" <=> Publish(m)
      /\ Open(m) \/ Close(m) => writer'[m] \in {"open", "ready"}
  BY <1>4, WritingEffect
<1>6. CASE WriteModel
  <2>1. DriverType'
    BY <1>1, <1>2, <1>3, <1>5, <1>6 DEF DriverType, driver, WriteModel, Proceed
  <2>2. BatchFollows'
    BY <1>1, <1>2, <1>3, <1>5, <1>6 DEF BatchFollows, driver, WriteModel, Proceed
  <2>3. Progress'
    BY <1>1, <1>2, <1>3, <1>5, <1>6 DEF Progress, driver, Good, Secured, Wants, WriteModel,
       Proceed
  <2>4. Documents'
    BY <1>1, <1>2, <1>3, <1>5, <1>6 DEF Progress, Documents, driver, Good, Certifiable,
       WriteModel, Proceed
  <2> QED
    BY <2>1, <2>2, <2>3, <2>4
<1>7. CASE ModelDone
  <2>1. DriverType'
    BY <1>1, <1>2, <1>3, <1>5, <1>7 DEF DriverType, GoTo, ModelDone, Delivered
  <2>2. BatchFollows'
    BY <1>1, <1>2, <1>3, <1>5, <1>7 DEF BatchFollows, GoTo, ModelDone, Delivered
  <2>3. Progress'
    BY <1>1, <1>2, <1>3, <1>5, <1>7 DEF BatchFollows, Progress, GoTo, Good, Secured, Wants,
       ModelDone, Delivered
  <2>4. Documents'
    BY <1>1, <1>2, <1>3, <1>5, <1>7 DEF BatchFollows, Progress, Documents, GoTo, Good,
       Certifiable, ModelDone, Delivered
  <2> QED
    BY <2>1, <2>2, <2>3, <2>4
<1>8. CASE ModelLost
  <2>1. DriverType'
    BY <1>1, <1>2, <1>3, <1>5, <1>8 DEF DriverType, GoTo, ModelLost, Lost
  <2>2. BatchFollows'
    BY <1>1, <1>2, <1>3, <1>5, <1>8 DEF BatchFollows, GoTo, ModelLost, Lost
  <2>3. Progress'
    BY <1>1, <1>2, <1>3, <1>5, <1>8 DEF Progress, GoTo, Good, ModelLost, Lost
  <2>4. Documents'
    BY <1>1, <1>2, <1>3, <1>5, <1>8 DEF BatchFollows, Progress, Documents, GoTo, Good,
       Certifiable, ModelLost, Lost
  <2> QED
    BY <2>1, <2>2, <2>3, <2>4
<1> QED
  BY <1>6, <1>7, <1>8

\* The batch is opened, committed or discarded.
LEMMA BatchInvOfMain ==
    RunInv /\ (StartBatch \/ Abandon \/ Commit \/ InFinish \/ Abandoned \/ Committed) => DriverInv'
<1> SUFFICES ASSUME RunInv, StartBatch \/ Abandon \/ Commit \/ InFinish \/ Abandoned \/ Committed
             PROVE  DriverInv'
  OBVIOUS
<1> USE Products DEF RunInv, DriverInv, Jobs, ToModel, ToManifest, ToSidecars, ToListing
<1>1. ASSUME StartBatch \/ Abandon \/ Commit
      PROVE  /\ UNCHANGED <<writer, stages, returned, request, generated, failed>> /\ Staged' = Staged
             /\ phase = "collect"
  BY <1>1 DEF StartBatch, Abandon, Commit, Begin, Finish, Collecting, commit, At, Staged
<1>2. CASE StartBatch
  <2>1. DriverType'
    BY <1>1, <1>2 DEF DriverType, At, GoTo, StartBatch, Begin, Collecting, commit
  <2>2. BatchFollows'
    BY <1>1, <1>2 DEF BatchFollows, At, GoTo, StartBatch, Begin, Collecting, commit
  <2>3. Progress'
    BY <1>1, <1>2 DEF Progress, At, GoTo, Good, Secured, Wants, StartBatch, Begin, Collecting,
       commit
  <2>4. Documents'
    BY <1>1, <1>2 DEF Documents, At, GoTo, StartBatch, Begin, Collecting, commit
  <2> QED
    BY <2>1, <2>2, <2>3, <2>4
<1>3. CASE Abandon
  <2>1. DriverType'
    BY <1>1, <1>3 DEF DriverType, GoTo, Abandon, Finish, ModelDue
  <2>2. BatchFollows'
    BY <1>1, <1>3 DEF BatchFollows, At, GoTo, Abandon, Finish, ModelDue
  <2>3. Progress'
    BY <1>1, <1>3 DEF Progress, At, GoTo, Good, Certifiable, Abandon, Finish, ModelDue
  <2>4. Documents'
    BY <1>1, <1>3 DEF Documents, At, GoTo, Abandon, Finish, ModelDue
  <2> QED
    BY <2>1, <2>2, <2>3, <2>4
<1>4. CASE Commit
  <2>1. DriverType'
    BY <1>1, <1>4 DEF DriverType, GoTo, Commit, Finish
  <2>2. BatchFollows'
    <3>1. PICK sound \in BOOLEAN :
             /\ exit' = IF failed \/ ~sound THEN 3 ELSE exit
             /\ phase' # "collect" /\ success' = Publishes(exit', errors') /\ batching' = batching
      BY <1>4 DEF Commit, Finish
    <3> QED
      BY <1>1, <1>4, <3>1 DEF BatchFollows, Commit, At, GoTo
  <2>3. Progress'
    BY <1>1, <1>4 DEF Progress, At, GoTo, Good, Secured, Wants, Commit, Finish
  <2>4. Documents'
    BY <1>1, <1>4 DEF Documents, GoTo, Good, Commit, Finish
  <2> QED
    BY <2>1, <2>2, <2>3, <2>4
<1>5. ASSUME InFinish
      PROVE  /\ UNCHANGED <<writer, batching, stages, returned, driver>> /\ Staged' = Staged
             /\ phase # "collect" /\ phase' # "collect" /\ success' => success
             /\ job \in {"abandon", "commit"}
  BY <1>5, InFinishEffect DEF Inv, InFinish
<1>6. CASE InFinish
  <2>1. DriverType'
    BY <1>5, <1>6 DEF DriverType, driver
  <2>2. BatchFollows'
    <3>1. /\ job' = job /\ exit' = exit /\ errors' = errors /\ failed' = failed
          /\ batching' = batching /\ returned' = returned /\ Staged' = Staged
      BY <1>5, <1>6 DEF driver
    <3>2. /\ phase # "collect" /\ phase' # "collect" /\ job \in {"abandon", "commit"}
      BY <1>6 DEF InFinish, Preserve, PreserveFails, StartReplacing, Replace, ReplaceFails,
                  StartUnwinding, Restore, RestoreFails, In, GiveUp, Step
    <3>4. TypeOK
      BY DEF Inv
    <3>5. success' => success
      BY <1>6, <3>4 DEF InFinish, Preserve, PreserveFails, StartReplacing, Replace, ReplaceFails,
                  StartUnwinding, Restore, RestoreFails, GiveUp, TypeOK
    <3>3. BatchFollows
      OBVIOUS
    <3> HIDE DEF RunInv
    <3> QED
      BY <3>1, <3>2, <3>3, <3>5 DEF BatchFollows
  <2>3. Progress'
    BY <1>5, <1>6 DEF Progress, driver, Good, Secured, Wants
  <2>4. Documents'
    BY <1>5, <1>6 DEF Documents, driver, Good
  <2> QED
    BY <2>1, <2>2, <2>3, <2>4
<1>7. ASSUME EndFinish
      PROVE  /\ phase' = "collect" /\ writer' = writer /\ Staged' = {} /\ ~batching'
             /\ \A o \in Outputs : returned'[o] = IF o \notin Staged THEN returned[o]
                                                ELSE IF success THEN "success" ELSE "failure"
  BY <1>7, EndFinishEffect DEF Inv
<1>8. CASE Abandoned
  <2>1. DriverType'
    BY <1>7, <1>8 DEF DriverType, At, GoTo, Abandoned
  <2>2. BatchFollows'
    BY <1>7, <1>8 DEF BatchFollows, At, GoTo, Abandoned
  <2>3. Progress'
    BY <1>7, <1>8 DEF Progress, At, GoTo, Good, Abandoned
  <2>4. Documents'
    BY <1>7, <1>8 DEF Documents, At, GoTo, Abandoned
  <2> QED
    BY <2>1, <2>2, <2>3, <2>4
<1>9. CASE Committed
  <2>1. DriverType'
    BY <1>7, <1>9 DEF DriverType, At, GoTo, Committed
  <2>2. BatchFollows'
    BY <1>7, <1>9 DEF BatchFollows, At, GoTo, Committed
  <2>3. Progress'
    BY <1>7, <1>9 DEF Progress, At, GoTo, Good, Secured, Wants, Publishes, Committed
  <2>4. Documents'
    BY <1>7, <1>9 DEF Documents, GoTo, Good, Committed
  <2> QED
    BY <2>1, <2>2, <2>3, <2>4
<1> QED
  BY <1>2, <1>3, <1>4, <1>6, <1>8, <1>9
-----------------------------------------------------------------------------
(* Every step of main is a step of the batch or leaves the files alone. *)

LEMMA BatchStepOfMain == [RunNext]_runVars => [Next]_vars
<1> SUFFICES ASSUME [RunNext]_runVars PROVE Next \/ UNCHANGED vars
  OBVIOUS
<1> USE DEF Next
<1>1. CASE UNCHANGED runVars \/ Deciding
  BY <1>1 DEF runVars, Deciding, NoListing, SidecarsOver, Audit, Compare, NoManifest, NoModel,
              CollectionFailed, ModelRefused, Certify
<1>2. CASE StartBatch \/ Abandon \/ Commit
  BY <1>2 DEF StartBatch, Abandon, Commit, Publishes
<1>3. CASE InFinish \/ Abandoned \/ Committed
  BY <1>3 DEF InFinish, Abandoned, Committed, Finishing
<1>4. CASE WriteBinary \/ BinaryDone \/ BinaryLost \/ Unresolved
  <2>1. Writing(Binary)
    BY <1>4 DEF Writing, WriteBinary, BinaryDone, BinaryLost, Unresolved, Proceed, Lost, Delivered
  <2> QED
    BY <2>1, Products
<1>5. CASE WriteListing \/ ListingDone \/ ListingLost
  <2>1. Writing(Listing)
    BY <1>5 DEF Writing, WriteListing, ListingDone, ListingLost, Proceed, Lost, Delivered
  <2> QED
    BY <2>1, Products
<1>6. CASE WriteSidecar \/ SidecarDone \/ SidecarLost
  <2>1. Writing(Sidecar)
    BY <1>6 DEF Writing, WriteSidecar, SidecarDone, SidecarLost, Proceed, Lost, Delivered
  <2>2. Sidecar \in Outputs
    BY <1>6, SidecarIs, Products DEF WriteSidecar, SidecarDone, SidecarLost, SidecarDue
  <2> QED
    BY <2>1, <2>2
<1>7. CASE WriteManifest \/ ManifestDone \/ ManifestLost
  <2>1. Writing(Manifest)
    BY <1>7 DEF Writing, WriteManifest, ManifestDone, ManifestLost, Proceed, Lost, Delivered
  <2> QED
    BY <2>1, Products
<1>8. CASE WriteModel \/ ModelDone \/ ModelLost
  <2>1. Writing(ModelFile)
    BY <1>8 DEF Writing, WriteModel, ModelDone, ModelLost, Proceed, Lost, Delivered
  <2>2. ModelFile \in Outputs
    BY Products DEF ModelFile
  <2> QED
    BY <2>1, <2>2
<1> QED
  BY <1>1, <1>2, <1>3, <1>4, <1>5, <1>6, <1>7, <1>8 DEF RunNext, Deciding

LEMMA RunInvStep == RunInv /\ [RunNext]_runVars => RunInv'
<1> SUFFICES ASSUME RunInv, [RunNext]_runVars PROVE RunInv'
  OBVIOUS
<1>1. Inv'
  BY BatchStepOfMain, InvStep DEF RunInv
<1>2. DriverInv'
  <2>1. CASE UNCHANGED runVars
    <3>1. DriverType'
      BY <2>1 DEF runVars, vars, driver, RunInv, DriverInv, DriverType
    <3>2. BatchFollows'
      BY <2>1 DEF runVars, vars, driver, files, commit, RunInv, DriverInv, BatchFollows,
                  Staged, Publishes
    <3>3. Progress'
      BY <2>1 DEF runVars, vars, driver, files, commit, RunInv, DriverInv, Progress,
                  Staged, Good, Secured, Wants
    <3>4. Documents'
      BY <2>1 DEF runVars, vars, driver, files, commit, RunInv, DriverInv, Documents,
                  Good, Certifiable
    <3> QED
      BY <3>1, <3>2, <3>3, <3>4 DEF DriverInv
  <2> QED
    BY <2>1, DecidingInv, BinaryInv, ListingInv, SidecarInv, ManifestInv, ModelInv, BatchInvOfMain
       DEF RunNext, Deciding
<1> QED
  BY <1>1, <1>2 DEF RunInv

LEMMA RunInvAlways == RunSpec => []RunInv
BY RunInvInit, RunInvStep, PTL DEF RunSpec

-----------------------------------------------------------------------------
(* What is on disk, and what main says of it *)

\* Once main has returned nothing is staged any more and every destination is settled.
LEMMA SettledAtTheEnd ==
    ASSUME RunInv, job = "done", NEW o \in Outputs
    PROVE  Settled(o) /\ before[o] \in {"absent", "old", "special"}
BY DEF RunInv, Inv, TypeOK, BatchInv, DriverInv, BatchFollows

\* A destination that the invocation has changed tells how it got there.
LEMMA NewMeans ==
    ASSUME RunInv, phase = "collect", NEW o \in Outputs, dest[o] = "new", o \notin unrestored
    PROVE  /\ writer[o] \in {"staged", "published"}
           /\ writer[o] = "published" \/ (returned[o] = "success" /\ job = "done" /\ Good)
<1>1. before[o] # "new" /\ TypeOK /\ BatchInv
  BY DEF RunInv, Inv, TypeOK
<1>2. o \notin Staged
  BY <1>1 DEF BatchInv, StageInv, Untouched, Staged
<1>3. Settled(o) /\ writer[o] \in {"idle", "open", "ready", "staged", "published", "failed"}
  BY <1>1, <1>2 DEF BatchInv, TypeOK
<1>4. writer[o] = "published" \/ returned[o] = "success"
  BY <1>1, <1>3 DEF Settled, Undamaged, TypeOK
<1>5. returned[o] = "success" => writer[o] = "staged" /\ job = "done" /\ Good
  BY <1>3 DEF Settled, RunInv, DriverInv, BatchFollows, Good, Publishes
<1> QED
  BY <1>4, <1>5

\* The statuses that stand for success are those of an invocation that may succeed.
LEMMA StatusMeans ==
    ASSUME RunInv, job = "done"
    PROVE  /\ Status \in {0, 4, 5} <=> Good
           /\ Good <=> Publishes(exit, errors)
           /\ Good => Status = exit
BY DEF RunInv, DriverInv, DriverType, BatchFollows, Good, Status, Publishes

\* Exit 0, 4 or 5: the binary and every requested product are in place, whatever
\* analysis files were requested (main, after output_batch_finish).
THEOREM SuccessMeansComplete == RunSpec => []SuccessIsComplete
<1>1. RunInv => SuccessIsComplete
  <2> SUFFICES ASSUME RunInv, job = "done", Status \in {0, 4, 5}, NEW o \in Requested,
                      ~(o = Manifest /\ Status # 0)
               PROVE  dest[o] = "new"
    BY DEF SuccessIsComplete
  <2>1. Good /\ Status = exit
    BY StatusMeans
  <2>2. o \in Outputs /\ Secured(o)
    <3>1. CASE o = Binary
      BY <2>1, <3>1, Products DEF RunInv, DriverInv, Progress
    <3>2. CASE o # Binary /\ \E i \in 1 .. Len(Sidecars) : o = Sidecars[i]
      BY <2>1, <3>2, Products DEF RunInv, DriverInv, Progress, Requested, Wants, ToSidecars, ToListing
    <3>3. CASE o # Binary /\ ~\E i \in 1 .. Len(Sidecars) : o = Sidecars[i]
      <4>1. o \in {Listing, Manifest, Model} /\ Wants(o)
        BY <3>3, ProductsAssumption DEF Requested, Wants, RunInv, DriverInv, DriverType
      <4> QED
        BY <2>1, <4>1, Products
           DEF RunInv, DriverInv, Progress, ToModel, ToManifest, ToSidecars, ToListing
    <3> QED
      BY <3>1, <3>2, <3>3
  <2>3. returned[o] = "success"
    BY <2>2 DEF Secured
  <2> QED
    BY <2>2, <2>3, SettledAtTheEnd DEF Settled, Replaced
<1> QED
  BY <1>1, RunInvAlways, PTL

\* Any other exit: every requested destination is as it was before the invocation, but
\* for the listing of a source that did not assemble and for what a failed rollback
\* reported.
THEOREM FailureMeansPreserved == RunSpec => []FailurePreserves
<1>1. RunInv => FailurePreserves
  <2> SUFFICES ASSUME RunInv, job = "done", Status \notin {0, 4, 5}, NEW o \in Requested,
                      o \notin unrestored, ~(o = Listing /\ ~generated)
               PROVE  dest[o] = before[o]
    BY DEF FailurePreserves
  <2>1. o \in Outputs /\ o # Diagnosis
    BY ProductsAssumption, Products DEF Requested, RunInv, DriverInv, DriverType
  <2>2. returned[o] # "success"
    BY <2>1, StatusMeans DEF RunInv, DriverInv, BatchFollows
  <2>3. writer[o] # "published"
    BY <2>1 DEF RunInv, DriverInv, Documents
  <2>4. Settled(o) /\ returned[o] \in {"nothing", "success", "failure"}
    BY <2>1, SettledAtTheEnd DEF RunInv, Inv, TypeOK
  <2> QED
    BY <2>2, <2>3, <2>4 DEF Settled, Undamaged
<1> QED
  BY <1>1, RunInvAlways, PTL

\* A listing that says the binary was generated stands beside that binary; a manifest
\* in place means exit 0; a certified model carries the exit status; a diagnostic model
\* comes from an invocation that failed.
THEOREM DocumentsAreTrue == RunSpec => []DocumentsTellTruth
<1>1. RunInv => DocumentsTellTruth
  <2> SUFFICES ASSUME RunInv PROVE DocumentsTellTruth
    OBVIOUS
  <2>1. ASSUME phase = "collect", generated, dest[Listing] = "new", Listing \notin unrestored
        PROVE  dest[Binary] = "new"
    <3>1. writer[Listing] # "published"
      BY <2>1, Products DEF RunInv, DriverInv, Documents
    <3>2. job = "done" /\ Good
      BY <2>1, <3>1, NewMeans, Products
    <3>3. returned[Binary] = "success"
      BY <3>2, Products DEF RunInv, DriverInv, Progress, Secured
    <3> QED
      BY <3>2, <3>3, SettledAtTheEnd, Products DEF Settled, Replaced
  <2>2. ASSUME job = "done" PROVE phase = "collect"
    BY <2>2 DEF RunInv, DriverInv, BatchFollows
  <2>3. ASSUME job = "done", dest[Manifest] = "new", Manifest \notin unrestored
        PROVE  Status = 0
    <3>1. writer[Manifest] # "idle" /\ writer[Manifest] # "published"
      BY <2>2, <2>3, NewMeans, Products DEF RunInv, DriverInv, Documents
    <3>2. Good
      BY <2>2, <2>3, <3>1, NewMeans, Products
    <3>3. exit \in {0, 3}
      BY <3>1 DEF RunInv, DriverInv, Documents
    <3> QED
      BY <2>3, <3>2, <3>3, StatusMeans DEF Good
  <2>4. ASSUME job = "done", dest[Model] = "new", Model \notin unrestored
        PROVE  recorded = Status
    <3>1. writer[Model] # "idle" /\ writer[Model] # "published"
      BY <2>2, <2>4, NewMeans, Products DEF RunInv, DriverInv, Documents
    <3>2. Good
      BY <2>2, <2>4, <3>1, NewMeans, Products
    <3>3. recorded = exit \/ exit = 3
      BY <3>1 DEF RunInv, DriverInv, Documents
    <3> QED
      BY <2>4, <3>2, <3>3, StatusMeans DEF Good
  <2>5. ASSUME job = "done", dest[Diagnosis] = "new"
        PROVE  Status \notin {0, 4, 5}
    <3>1. writer[Diagnosis] # "idle"
      BY <2>5, SettledAtTheEnd, Products DEF Settled, Undamaged, RunInv, Inv, TypeOK
    <3>2. ~Good
      BY <3>1 DEF RunInv, DriverInv, Documents
    <3> QED
      BY <2>5, <3>2, StatusMeans
  <2> QED
    BY <2>1, <2>3, <2>4, <2>5 DEF DocumentsTellTruth
<1> QED
  BY <1>1, RunInvAlways, PTL

\* The comparison with a reference reads the complete binary this invocation has
\* staged, never the file it is about to replace (output_batch_read_path).
THEOREM ComparisonReadsThisBinary == RunSpec => []ComparesThisBinary
<1>1. RunInv => ComparesThisBinary
  <2> SUFFICES ASSUME RunInv, Comparing PROVE Reads(Binary) = "complete"
    BY DEF ComparesThisBinary
  <2>1. job = "compare" /\ generated
    BY DEF Comparing, Analysing
  <2>2. Binary \in Staged /\ phase = "collect" /\ TypeOK
    BY <2>1 DEF RunInv, Inv, DriverInv, BatchFollows, Progress, ToModel, ToManifest, ToSidecars, ToListing
  <2>3. temp[Binary] = "complete"
    BY <2>2 DEF TypeOK, Staged
  <2> QED
    BY <2>2, <2>3 DEF Reads
<1> QED
  BY <1>1, RunInvAlways, PTL

\* Whatever main decides and wherever it stops, a destination is never torn, its old
\* content can be found until the commit has succeeded, what output_batch_finish
\* returned is true, and nothing of the program's own stays behind: an invocation
\* inherits the guarantees of the batch.
THEOREM InvocationKeepsTheGuarantees ==
    RunSpec => [](OldContentKept /\ NeverTorn /\ AllOrNothing /\ NothingLeftBehind)
<1>1. RunInit => Inv /\ TempInv
  BY InvInit, TempInit DEF RunInit
<1>2. Inv /\ TempInv /\ [RunNext]_runVars => (Inv /\ TempInv)'
  BY BatchStepOfMain, InvStep, TempStep DEF Inv
<1> QED
  BY <1>1, <1>2, InvGuarantees, TempMeaning, PTL DEF RunSpec

\* Seen by who looks at the destinations between commits, an invocation replaces the
\* files of its batch together or not at all: AssemblerRun implements AtomicPublication.
THEOREM InvocationIsAtomic == RunSpec => Atomic
<1>1. RunInit => Publication!Init
  BY RefineInit DEF RunInit
<1>2. RunInv /\ RunInv' /\ [RunNext]_runVars => [Publication!Next]_(Publication!vars)
  BY BatchStepOfMain, RefineStep DEF RunInv
<1> QED
  BY <1>1, <1>2, RunInvAlways, PTL DEF RunSpec, Atomic, Publication!Spec
=============================================================================
