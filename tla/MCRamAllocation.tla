--------------------------- MODULE MCRamAllocation ---------------------------
(***************************************************************************)
(* Small links for RamAllocation.  Placement: up to four objects of mixed  *)
(* size, boundary and page over block lists that straddle the end of the   *)
(* zero page, start off a boundary, are out of address order, overlap, end *)
(* at the top of memory, or are missing.  Order: longer tables of few      *)
(* distinct keys, where only the exact permutation and the depth of the    *)
(* recursion matter.                                                       *)
(***************************************************************************)
EXTENDS RamAllocation

Thing(size, align, zp) == [size |-> size, align |-> align, zp |-> zp]
Free(start, end)       == [start |-> start, end |-> end]

Things == {Thing(0, 2, FALSE), Thing(1, 0, FALSE), Thing(3, 0, FALSE), Thing(2, 3, FALSE),
           Thing(1, 0, TRUE), Thing(2, 1, TRUE), Thing(4, 0, TRUE)}

Plans == {<<Free(253, 259)>>,
          <<Free(3, 4), Free(251, 262)>>,
          <<Free(257, 262), Free(1, 4), Free(254, 257)>>,
          <<Free(4, 8), Free(6, 9)>>,
          <<Free(65530, 65535), Free(7, 8)>>}

Tables(S, n) == [1 .. n -> S]

MCPlacements ==
    [objects : UNION {Tables(Things, n) : n \in 0 .. 4},
     blocks : Plans]
    \cup [objects : Tables({Thing(1, 0, FALSE), Thing(65537, 0, FALSE),
                            Thing(Unresolved, 0, FALSE)}, 2),
          blocks : {<<>>, <<Free(2, 5)>>}]

\* object-format.md: unconstrained sizes whose order is pinned; a test of the
\* repository expects the same permutation (counted there from 0).
PinnedSizes == <<1, 2, 1, 2, 1, 2, 4, 1, 2, 1, 1>>
PinnedOrder == <<0, 2, 4, 7, 9, 10, 3, 8, 1, 5, 6>>
Pinned      == [i \in DOMAIN PinnedSizes |-> Thing(PinnedSizes[i], 0, FALSE)]

ASSUME PinnedPermutation == SpecifiedSort(Pinned) = [i \in DOMAIN Pinned |-> PinnedOrder[i] + 1]

MCOrders ==
    [objects : UNION {Tables({Thing(1, 0, FALSE), Thing(2, 0, FALSE), Thing(1, 1, TRUE)}, n)
                      : n \in 4 .. 6}
               \cup Tables({Thing(1, 0, FALSE), Thing(2, 0, FALSE)}, 8)
               \cup {Pinned},
     blocks : {<<Free(2, 250)>>}]

MCScripts == MCPlacements \cup MCOrders
=============================================================================
