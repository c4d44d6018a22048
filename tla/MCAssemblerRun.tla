--------------------------- MODULE MCAssemblerRun ---------------------------
(***************************************************************************)
(* AssemblerRun with every product the driver has: an analysis file of     *)
(* each failure code class, the audit and the comparison.                  *)
(***************************************************************************)
EXTENDS AssemblerRun, TLC

CONSTANTS bin, listing, xref, summary, manifest, model, diagnosis

MCSidecars == <<xref, summary>>
MCExitOf   == xref :> 3 @@ summary :> 6

Asks(outputs, audit, compare) == [outputs |-> outputs, audit |-> audit, compare |-> compare]

MCRequests ==
    { Asks({listing, xref, manifest}, FALSE, TRUE),
      Asks({listing, summary, manifest, model, diagnosis}, TRUE, FALSE),
      Asks({xref, summary, model, diagnosis}, TRUE, TRUE),
      Asks({listing}, FALSE, FALSE),
      Asks({manifest, model}, FALSE, TRUE) }

\* A first invocation, a repeated one, and one that adds a listing.
MCDestinations ==
    { [o \in Outputs |-> "absent"], [o \in Outputs |-> "old"],
      [o \in Outputs |-> IF o = listing THEN "absent" ELSE "old"] }
=============================================================================
