-------------------------- MODULE LinkerRunReference --------------------------
(***************************************************************************)
(* What a link script means: its objects one after the other, a name the   *)
(* definition that exports it, a value the expression it was written as,   *)
(* with no translation tables and no order of work.                        *)
(***************************************************************************)
EXTENDS LinkerRun

Cycle == <<"CYCLE">>

\* The commands, as far as they were executed.
Executed == 1..(ip - 1)
Links    == SetToSortSeq({c \in Executed : Commands[c].cmd = "LINK"}, <)
Object(i) == Objects[inputs[i]]

SizeUpTo(o, n) == FoldLeft(+, 0, [k \in 1..n |-> SizeOf(o.fragments[k])])
CommandSize(c) ==
    CASE Commands[c].cmd = "LINK" -> SizeUpTo(Objects[Commands[c].file], Len(Objects[Commands[c].file].fragments))
      [] Commands[c].cmd = "COPY" -> Commands[c].size
      [] OTHER                    -> 0

\* A place in the output: what lies before it of objects and copies, and of pads.
Place(items, pads) == <<"AT", items, pads>>

AnchorPlace(i, a) ==
    LET o == Object(i)
        n == o.anchors[a]
        base == FoldLeft(+, 0, [k \in 1..(Links[i] - 1) |-> CommandSize(k)])
        local == CASE n.kind = "FRAGMENT" -> SizeUpTo(o, n.to - 1)
                   [] n.kind = "END"      -> SizeUpTo(o, Len(o.fragments))
                   [] n.kind = "RAW"      -> SizeUpTo(o, n.to - 1) + n.offset
                   [] OTHER               ->
                      LET f == CHOOSE x \in 1..Len(o.fragments) : n.to \in Range(o.fragments[x].fixups)
                      IN  SizeUpTo(o, f - 1) + (CHOOSE k \in 1..Len(o.fragments[f].fixups) :
                                                    o.fragments[f].fixups[k] = n.to) - 1
    IN  IF n.kind = "RAM" THEN <<"RAM", i, n.to>> ELSE Place(base + local, CountBefore(Links[i], "PAD"))

\* The definitions a name is exported by.
Providers(name) ==
    {p \in (1..Len(inputs)) \X (1..20) :
        /\ p[2] <= Len(Object(p[1]).definitions)
        /\ Object(p[1]).definitions[p[2]].exported /\ Object(p[1]).definitions[p[2]].name = name}
Provider(name) == CHOOSE p \in Providers(name) : TRUE

RECURSIVE OwnerOf(_, _, _)
OwnerOf(i, d, path) ==
    LET r == Object(i).definitions[d]
        Next1(j, e) == IF <<j, e>> \in path THEN Cycle ELSE OwnerOf(j, e, path \cup {<<i, d>>})
    IN  CASE r.kind = "IMPORT" -> Next1(Provider(r.name)[1], Provider(r.name)[2])
          [] r.kind = "EXPRESSION" /\ Object(i).nodes[r.to].kind = "REFERENCE" -> Next1(i, Object(i).nodes[r.to].to)
          [] OTHER -> <<"BANK", CountBefore(Links[i], "BANK")>>

RECURSIVE Written(_, _, _), Defined(_, _, _)
Written(i, n, path) ==
    LET r == Object(i).nodes[n]
        terms == [k \in 1..Len(r.operands) |-> Written(i, r.operands[k], path \cup {<<i, n>>})]
    IN  IF <<i, n>> \in path THEN Cycle
        ELSE CASE r.kind = "LITERAL"   -> <<"LITERAL", r.extent, r.value>>
               [] r.kind = "ADDRESS"   -> AnchorPlace(i, r.to)
               [] r.kind = "REFERENCE" -> Defined(i, r.to, path \cup {<<i, n>>})
               [] r.kind = "BANK"      -> OwnerOf(i, r.to, {})
               [] OTHER -> IF \E k \in DOMAIN terms : terms[k] = Cycle THEN Cycle ELSE <<r.op, terms>>
Defined(i, d, path) ==
    LET r == Object(i).definitions[d]
    IN  CASE r.kind = "EXPRESSION" -> Written(i, r.to, path)
          [] r.kind = "ANCHOR"     -> AnchorPlace(i, r.to)
          [] OTHER                 -> LET p == Provider(r.name) IN Defined(p[1], p[2], path)

-----------------------------------------------------------------------------
(* The same for what the linker has built *)

At1(anchor) == {f \in 1..Len(fragments) : fragments[f].anchor = anchor}
LinkedPlace(anchor) ==
    LET f == CHOOSE x \in At1(anchor) : TRUE
    IN  Place(FoldLeft(+, 0, [k \in 1..(f - 1) |-> Len(fragments[k].items)]),
              Cardinality({k \in 1..(f - 1) : fragments[k].kind = "PAD"}))
BankNumber(anchor) ==
    LET f == CHOOSE x \in At1(anchor) : TRUE
    IN  Cardinality({k \in 1..(f - 1) : fragments[k].kind = "BANK"})

\* RAM anchors are numbered after the owner of their unit.
Owners == SetToSortSeq({bindings[d].owner : d \in DOMAIN bindings}, <)
RamPlace(anchor) ==
    LET i == CHOOSE k \in 1..Len(Owners) : /\ Owners[k] < anchor
                                           /\ \A j \in (k + 1)..Len(Owners) : Owners[j] > anchor
    IN  <<"RAM", i, anchor - Owners[i]>>

RECURSIVE Built(_, _)
Built(g, path) ==
    LET n == graph[g]
        terms == [k \in 1..Len(n.operands) |-> Built(n.operands[k], path \cup {g})]
    IN  IF g = 0 \/ g \in path THEN Cycle
        ELSE CASE n.kind = "LITERAL"   -> <<"LITERAL", n.extent, n.value>>
               [] n.kind = "ADDRESS"   -> IF At1(n.anchor) = {} THEN RamPlace(n.anchor) ELSE LinkedPlace(n.anchor)
               [] n.kind = "REFERENCE" -> IF bound[n.to] = 0 THEN <<"UNBOUND">> ELSE Built(bound[n.to], path \cup {g})
               [] n.kind = "BANK"      -> <<"BANK", BankNumber(n.anchor)>>
               [] OTHER -> IF \E k \in DOMAIN terms : terms[k] = Cycle THEN Cycle ELSE <<n.op, terms>>

-----------------------------------------------------------------------------
(* Properties *)

\* The node an item of an object was written with, or 0.
Operand(item) ==
    LET r == Object(item[1]).fragments[item[2]]
    IN  CASE r.kind = "RAW"     -> 0
          [] r.kind = "STORAGE" -> r.extent
          [] OTHER              -> IF r.fixups = <<>> THEN 0
                                   ELSE Object(item[1]).fixups[r.fixups[item[3]]]

\* Every operand, element and extent of a link stands for what its object says,
\* names taken from the units that export them: the same constant, the same place
\* between the same items, the same bank, or a cycle where following the names
\* leads back.  The link fails for its names only if one is exported twice or one
\* that is imported by none, whatever the order of objects (ir/link.c:480-719).
ValuesMeanTheirNames ==
    /\ job = "layout" => \A f \in 1..Len(fragments) :
          LET e == fragments[f]
              item == e.items[1]
          IN  e.items # <<>> /\ e.kind # "COPY" /\ Operand(item) # 0 =>
                  e.value # 0 /\ Built(e.value, {}) = Written(item[1], Operand(item), {})
    /\ job \in {"layout", "write", "failed"} =>
          LET imported == {d \in UNION {Range(Object(i).definitions) : i \in 1..Len(inputs)} : d.kind = "IMPORT"}
              exported == {d \in UNION {Range(Object(i).definitions) : i \in 1..Len(inputs)} : d.exported}
              twice == \E d \in exported : Cardinality(Providers(d.name)) > 1
              none == \E d \in imported : Providers(d.name) = {}
          IN  /\ linkError = "DUPLICATE" => twice
              /\ linkError = "UNDEFINED" => none /\ ~twice
              /\ job # "failed" => ~twice /\ ~none
=============================================================================
