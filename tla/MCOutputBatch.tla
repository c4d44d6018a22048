--------------------------- MODULE MCOutputBatch ---------------------------
(***************************************************************************)
(* OutputBatch with three outputs, one of them the binary.                 *)
(***************************************************************************)
EXTENDS OutputBatchRefinement

CONSTANTS bin, listing, xref
=============================================================================
