--------------------------- MODULE MCMacroExpansion ---------------------------
(***************************************************************************)
(* Two families of programs: every body of up to three statements for a    *)
(* macro that is called twice in a program with labels of its own, and     *)
(* every program of up to three statements around macros that call each    *)
(* other, leave early, loop or recur for ever.                             *)
(***************************************************************************)
EXTENDS MacroExpansionReference

O(kind, id, plus) == [kind |-> kind, id |-> id, scope |-> <<>>, plus |-> plus]
Num(n)   == O("NUMBER", "", n)
Id(x)    == O("IDENT", x, 0)
Local(x) == O("LOCAL", x, 0)
Fwd(l)   == O("FORWARD", "", l)
Bwd(l)   == O("BACKWARD", "", l)
Plus(o, n) == [o EXCEPT !.plus = n]
Below(o, n) == [left |-> o, below |-> n]

Using(o)       == [do |-> "USE", on |-> o]
LocalLabel(x)  == [do |-> "LOCAL", id |-> x]
Label(x)       == [do |-> "LABEL", id |-> x]
Forward(l)     == [do |-> "FORWARD", level |-> l]
Backward(l)    == [do |-> "BACKWARD", level |-> l]
Set(x, o)      == [do |-> "SET", id |-> x, to |-> o]
Call(m, as)    == [do |-> "CALL", macro |-> m, actuals |-> as]
Rept(o, b)     == [do |-> "REPT", count |-> o, body |-> b]
WhileLoop(t, b) == [do |-> "WHILE", test |-> t, body |-> b]
DoLoop(b, t)   == [do |-> "DO", test |-> t, body |-> b]
IfBelow(o, n, b, c) == [do |-> "IF", cases |-> <<[test |-> Below(o, n), body |-> b]>>, default |-> c]
Proc(x, b)     == [do |-> "PROC", id |-> x, body |-> b]
Exit           == [do |-> "EXITM"]

Macro(formals, body) == [formals |-> formals, body |-> body]
UpTo(n, S) == UNION {[1..k -> S] : k \in 0..n}

\* All macros take part in one table.
Library ==
    [ skip  |-> Macro(<<"p">>, <<IfBelow(Id("p"), 1, <<Exit>>, <<>>), Using(Id("p")), Forward(1)>>),
      ring  |-> Macro(<<"q">>, <<LocalLabel("t"), Using(Id("q")), Using(Local("t")), Call("skip", <<Num(1)>>)>>),
      down  |-> Macro(<<"n">>, <<Using(Id("n")),
                                 IfBelow(Id("n"), 1, <<Exit>>, <<Call("down", <<Plus(Id("n"), -1)>>)>>), Backward(1)>>),
      deep  |-> Macro(<<>>, <<Rept(Num(2), <<Using(Fwd(1)), Rept(Num(1), <<Exit>>), Forward(1)>>)>>),
      ever  |-> Macro(<<>>, <<Call("ever", <<>>)>>),
      pass  |-> Macro(<<"f", "v">>, <<Call("ring", <<Id("v")>>), Call("f", <<Id("v")>>)>>) ]

Body ==
    {Using(Id("x")), Using(Local("t")), LocalLabel("t"), Using(Fwd(1)), Forward(1), Using(Bwd(1)), Exit,
     IfBelow(Id("x"), 1, <<Exit>>, <<Backward(1)>>),
     Rept(Num(2), <<Using(Fwd(1)), Exit, Forward(1)>>),
     WhileLoop(Below(Id("i"), 2), <<Set("i", Plus(Id("i"), 1)), Using(Id("x")), Forward(1)>>),
     DoLoop(<<Set("i", Plus(Id("i"), -1)), Using(Bwd(1)), Backward(1)>>, Below(Id("i"), 0)),
     Proc("proc", <<Forward(1), Exit, LocalLabel("t")>>)}

Caller(body) ==
    [macros |-> [m |-> Macro(<<"x">>, body)],
     main |-> <<Set("i", Num(1)), Backward(1), LocalLabel("t"), Using(Fwd(1)), Call("m", <<Num(0)>>),
                Call("m", <<Local("t")>>), Using(Bwd(1)), Forward(1), Using(Id("i"))>>]

Main ==
    {Call("skip", <<Num(0)>>), Call("ring", <<Local("t")>>), Call("down", <<Num(1)>>), Call("deep", <<>>),
     Call("ever", <<>>), Call("pass", <<Id("skip"), Num(1)>>), Call("ring", <<>>), Call("none", <<>>),
     LocalLabel("t"), Label("g"), Using(Fwd(1)), Forward(1), Using(Bwd(1)), Set("a", Local("t")), Using(Plus(Id("a"), 1)),
     Rept(Id("g"), <<>>), WhileLoop(Below(Num(0), 1), <<Forward(1)>>),
     Set("g", Num(1)), Exit}

MCPrograms == {Caller(b) : b \in UpTo(3, Body)} \cup {[macros |-> Library, main |-> m] : m \in UpTo(3, Main)}

\* An argument that is named like a later parameter.
MCHomonyms ==
    { [macros |-> [m |-> Macro(<<"x", "y">>, <<Using(Id("x")), Using(Id("y"))>>)],
       main |-> <<Set("y", Num(7)), Call("m", <<Id("y"), Num(1)>>)>>] }
===============================================================================
