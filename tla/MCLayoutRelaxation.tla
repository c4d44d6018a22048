------------------------- MODULE MCLayoutRelaxation -------------------------
(***************************************************************************)
(* Small layouts for LayoutRelaxation: every sequence of three statements  *)
(* of a small alphabet, started just below the zero-page limit, so that    *)
(* labels cross 255 as instructions shorten, closed by a label.            *)
(***************************************************************************)
EXTENDS LayoutRelaxation

Plain(v)   == [value |-> v, plus |-> 0, minus |-> 0]
Label(a,v) == [value |-> v, plus |-> a, minus |-> 0]
From(v,a)  == [value |-> v, plus |-> 0, minus |-> a]
Diff(a,b)  == [value |-> 0, plus |-> a, minus |-> b]

Constant(v)         == [value |-> v, coef |-> 0, from |-> 1, to |-> 1]
Following(v,c,f,t)  == [value |-> v, coef |-> c, from |-> f, to |-> t]

Frag(k)        == [kind |-> k, form |-> "none", base |-> 0, size |-> 0,
                   operand |-> Plain(0), count |-> Constant(0), early |-> FALSE]
Origin(a)      == [Frag("origin") EXCEPT !.base = a]
Bank(a,n)      == [Frag("bank") EXCEPT !.base = a, !.size = n]
BankEnd        == Frag("bankend")
Pad(form,to)   == [Frag("pad") EXCEPT !.form = form, !.base = to]
Gap(n)         == [Frag("gap") EXCEPT !.size = n]
Mark           == Gap(0)
Raw(n)         == [Frag("fixed") EXCEPT !.size = n]
Copied(n)      == [Frag("copy") EXCEPT !.size = n]
Data(e)        == [Frag("data") EXCEPT !.form = "byte", !.size = 2, !.operand = e]
Ins(form,e)    == [Frag("instruction") EXCEPT !.form = form, !.operand = e]
Early(e)       == [Ins("byte", e) EXCEPT !.early = TRUE]
Storage(c)     == [Frag("storage") EXCEPT !.count = c]
Ram(c)         == [Frag("ram") EXCEPT !.count = c]
RamOrigin(a)   == [Frag("ramorigin") EXCEPT !.base = a]

\* Statements 2..4 vary; fragment 1 sets the origin, 5 is the closing label.
Slots == 2 .. 4
End   == 5

\* Operands that name a label before, among or after the statements.
Crossing == {Ins("optional", Label(2, 0)), Ins("optional", Label(4, 0)),
             Ins("optional", Label(4, -3)), Ins("optional", Label(End, -3))}

\* Linker code without banks.  The origins of the family put the closing label
\* on either side of 255 after zero, one or two shortenings.
Code ==
    Crossing \cup {Ins("optional", From(512, End)), Ins("optional", Plain(7)),
          Ins("optional", Diff(End, 2)), Ins("relative", Label(End, 0)),
          Raw(126), Data(Label(End, 0)), Storage(Constant(3)),
          Storage(Following(9, 1, 3, End)), Storage(Following(9, -1, 3, End)),
          Storage(Following(9, 1, 4, End)), Storage(Following(1, 1, 4, End))}

\* Two banks: the first holds the varying statements.
Banked ==
    {Ins("optional", Label(2, 0)), Ins("optional", Label(4, -3)), Ins("optional", Label(7, 0))}
    \cup {Pad("address", 254), Pad("offset", 6), Raw(2), Copied(3), Origin(251),
          Ins("relative", Label(4, 0)), Ins("word", Label(7, 0))}

\* Linker RAM, allocated before the code relaxes.
Objects ==
    {Ram(Constant(2)), Ram(Following(9, 1, 3, End)), Ins("optional", Label(2, 0)),
     Ins("optional", Label(End, -3)), Ins("word", Label(2, 70000)), Raw(1)}

\* The binary path: a RAM cursor in source order, no 64K limit, the frontend's
\* early literals.
Binary ==
    Crossing \cup {Ram(Constant(3)), Ram(Following(4, 1, 3, End)), Ram(Following(0, 1, 3, End)), Ram(Constant(-1)),
          RamOrigin(253), Early(Plain(300)), Ins("word", Label(End, 70000)), Raw(69900),
          Storage(Following(9, -1, 4, End))}

Bodies(S) == [1 .. 3 -> S]

\* Spans name instructions and raw bytes only: a count that names storage or
\* pads is an expression graph of its own.
Spannable(f) == f.kind \in {"instruction", "fixed"}
SpansOk(fs)  == \A i \in DOMAIN fs : fs[i].count.coef # 0 =>
                   \A k \in fs[i].count.from .. fs[i].count.to - 1 : Spannable(fs[k])

\* An operand names a fragment that carries an anchor.
Names(e)    == {e.plus, e.minus} \ {0}
NamesOk(fs) == \A i \in DOMAIN fs : \A a \in Names(fs[i].operand) :
                   fs[a].kind \in Anchored \cup {"ram"}

Layouts(m, S, before, after) ==
    {[mode |-> m, frags |-> l] :
        l \in {x \in {before \o b \o after : b \in Bodies(S)} : SpansOk(x) /\ NamesOk(x)}}

MCPrograms ==
    UNION {Layouts("link", Code, <<Origin(a)>>, <<Mark>>) : a \in {242, 250}}
    \cup Layouts("link", Banked, <<Bank(250, 10)>>,
                 <<BankEnd, Bank(252, 3), Ins("optional", Label(7, 3)), BankEnd>>)
    \cup Layouts("link", Objects, <<Origin(248)>>, <<Mark>>)
    \cup Layouts("link", {Raw(65500), Copied(65500), Gap(65500), Pad("address", 65530),
                          Ins("implied", Plain(0))}, <<Origin(30)>>, <<Mark>>)
    \cup Layouts("binary", Binary, <<Origin(248)>>, <<Mark>>)
=============================================================================
