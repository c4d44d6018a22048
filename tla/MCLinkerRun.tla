----------------------------- MODULE MCLinkerRun -----------------------------
(***************************************************************************)
(* LinkerRun over objects that name one another, go round in circles, share *)
(* an alias or export the same name, and scripts that order them, switch    *)
(* outputs and banks, pad, copy and misuse files.                           *)
(***************************************************************************)
EXTENDS LinkerRunReference

CONSTANTS text, main, lib, user, ring, twin, header, first, second

Export(name, kind, to) == [name |-> name, kind |-> kind, to |-> to, exported |-> TRUE]
Local(name, kind, to)  == [name |-> name, kind |-> kind, to |-> to, exported |-> FALSE]
Wants1(name)           == [name |-> name, kind |-> "IMPORT", to |-> 0, exported |-> FALSE]

Literal1(extent, v) == [kind |-> "LITERAL", extent |-> extent, value |-> v]
Ref(d)        == [kind |-> "REFERENCE", to |-> d]
AddressAt(a)  == [kind |-> "ADDRESS", to |-> a]
Bank(d)       == [kind |-> "BANK", to |-> d]
Op(op, ns)    == [kind |-> "OPERATION", op |-> op, operands |-> ns]

Anchor(kind, to, offset) == [kind |-> kind, to |-> to, offset |-> offset]
Raw(size)     == [kind |-> "RAW", size |-> size, fixups |-> <<>>]
Data(fixups)  == [kind |-> "DATA", fixups |-> fixups]
Code(fixups)  == [kind |-> "INSTRUCTION", fixups |-> fixups]
Storage(n)    == [kind |-> "STORAGE", extent |-> n, fixups |-> <<>>]

\* A program: labels inside a raw run and on data, an alias of an import that is
\* exported again, its bank, a local cycle that is entered from two sides.
Main ==
    [definitions |-> << Export("start", "ANCHOR", 2), Wants1("lib"), Export("again", "EXPRESSION", 1),
                        Local("p", "EXPRESSION", 5), Local("q", "EXPRESSION", 6),
                        Local("sum", "EXPRESSION", 4), Local("var", "ANCHOR", 5) >>,
     nodes |-> << Ref(2), Literal1(FALSE, 7), Bank(3), Op("ADD", <<1, 2>>), Op("NEG", <<8>>),
                  Op("SUB", <<7, 8>>), Ref(4), Ref(5), Ref(7), AddressAt(3), AddressAt(1),
                  Ref(1), Literal1(TRUE, 7), Op("SUB", <<11, 12>>), AddressAt(6) >>,
     ram |-> 1,
     anchors |-> << Anchor("END", 0, 0), Anchor("RAW", 2, 1), Anchor("FIXUP", 2, 0),
                    Anchor("RAW", 2, 0), Anchor("RAM", 1, 0), Anchor("FRAGMENT", 4, 0) >>,
     fixups |-> << 4, 3, 10, 5, 9, 14, 6, 15 >>,
     fragments |-> << Code(<<1>>), Raw(2), Data(<<2, 3, 4, 5>>), Storage(13), Data(<<6, 7, 8>>) >>]

\* A library: what it exports is a place in a run that ends with a label.
Lib ==
    [definitions |-> << Export("lib", "ANCHOR", 1), Wants1("again"), Local("l", "EXPRESSION", 2) >>,
     nodes |-> << AddressAt(2), Op("ADD", <<3, 4>>), Ref(2), Literal1(FALSE, 7), Bank(2), Ref(1), Ref(3),
                  Literal1(FALSE, 900) >>,
     ram |-> 0,
     anchors |-> << Anchor("RAW", 1, 2), Anchor("RAW", 1, 2), Anchor("RAW", 1, 0) >>,
     fixups |-> << 1, 2, 5, 6, 7, 8 >>,
     fragments |-> << Raw(2), Data(<<1, 2, 3>>), Code(<<4>>), Data(<<5, 6>>) >>]

\* A user of an alias of an alias.
User ==
    [definitions |-> << Wants1("again"), Export("onward", "EXPRESSION", 1), Local("b", "EXPRESSION", 2) >>,
     nodes |-> << Ref(1), Bank(2), Ref(3), Ref(2) >>,
     ram |-> 0, anchors |-> << Anchor("FRAGMENT", 1, 0) >>,
     fixups |-> << 3, 4 >>, fragments |-> << Storage(4), Data(<<1, 2>>) >>]

\* Names that lead back: an export that is the name it imports from itself.
Ring ==
    [definitions |-> << Wants1("round"), Export("round", "EXPRESSION", 1), Export("lib", "EXPRESSION", 2),
                        Export("again", "EXPRESSION", 5), Local("self", "EXPRESSION", 6) >>,
     nodes |-> << Ref(1), Op("ADD", <<1, 3>>), Literal1(FALSE, 7), Bank(2), Ref(3), Ref(5), Bank(5) >>,
     ram |-> 0, anchors |-> << >>,
     fixups |-> << 4, 2, 5, 6, 7 >>, fragments |-> << Data(<<1, 2, 3, 4>>), Code(<<5>>) >>]

\* Another definition of the library's name.
Twin1 ==
    [definitions |-> << Export("lib", "EXPRESSION", 1) >>, nodes |-> << Literal1(FALSE, 7) >>,
     ram |-> 0, anchors |-> << >>, fixups |-> << 1 >>, fragments |-> << Data(<<1>>) >>]

MCObjects == main :> Main @@ lib :> Lib @@ user :> User @@ ring :> Ring @@ twin :> Twin1

-----------------------------------------------------------------------------

Out(f)         == [cmd |-> "OUTPUT", file |-> f, complete |-> TRUE]
Link(f, o)     == [cmd |-> "LINK", file |-> f, origin |-> o, complete |-> TRUE]
Copy(n)        == [cmd |-> "COPY", file |-> header, size |-> n, complete |-> TRUE]
BankCmd(o, n)  == [cmd |-> "BANK", origin |-> o, size |-> n, complete |-> TRUE]
Pad(k, n)      == [cmd |-> "PAD", kind |-> k, argument |-> n, complete |-> TRUE]
Ram(a, b)      == [cmd |-> "RAM", start |-> a, end |-> b, complete |-> TRUE]
Missing1(c)    == [c EXCEPT !.complete = FALSE]

Script1(default, commands) == [name |-> text, default |-> default, commands |-> commands]

\* Every order of two or three objects, into one output.
Orders(fs) == {s \in [1..Cardinality(fs) -> fs] : \A i, j \in DOMAIN s : i # j => s[i] # s[j]}
InOrder(s)    == <<Out(first), BankCmd(16, 64)>> \o
                 FlattenSeq([i \in 1..Len(s) |-> <<Link(s[i], -1)>> \o (IF i = 1 THEN <<BankCmd(-1, 0)>> ELSE <<>>)])

MCScripts ==
    {Script1("NONE", InOrder(s)) : s \in UNION {Orders(objs) : objs \in
        {{main, lib}, {main, lib, user}, {ring, user}, {main, user}, {lib, twin}, {main, twin, user}, {main, ring}}}}
    \cup
    { Script1(first, <<Copy(1), Link(main, 8), Pad("OFFSET", 20), Out(second), Link(lib, -1), Pad("SIZE", 1)>>),
      Script1(first, <<Ram(0, 4), BankCmd(0, 15), Link(ring, -1), Out(second), BankCmd(-1, 0), Pad("ORIGIN", 15)>>),
      Script1("NONE", <<Out(first), BankCmd(0, 4), Copy(2), Out(second), Copy(2), BankCmd(4, 3), Copy(1)>>),
      Script1("NONE", <<Out(first), BankCmd(0, 2), Copy(3)>>),
      Script1("NONE", <<Out(first), Copy(3), Pad("OFFSET", 2)>>),
      Script1("NONE", <<Copy(1), Out(first)>>), Script1("NONE", <<BankCmd(0, 0), Out(first)>>),
      Script1(first, <<Ram(4, 4)>>), Script1(first, <<Missing1(Link(main, -1))>>), Script1("NONE", <<Ram(0, 4)>>),
      Script1(first, <<Link(twin, -1), Link(twin, -1)>>), Script1(first, <<Link(header, -1)>>),
      Script1(first, <<Copy(1), Out(first)>>), Script1(text, <<Copy(1)>>),
      Script1(first, <<Copy(1), Out(header)>>), Script1(first, <<Out(twin), Link(twin, -1)>>),
      Script1(first, <<Copy(1), Out(second), Copy(1)>>) }

\* Nothing was linked before; the outputs are there; one of them is a device.
Inputs1 == {text, main, lib, user, ring, twin, header}
MCDisks ==
    { [f \in Outputs |-> IF f \in Inputs1 THEN "old" ELSE "absent"], [f \in Outputs |-> "old"],
      [f \in Outputs |-> IF f = second THEN "special" ELSE "old"] }
=============================================================================
