------------------------ MODULE MacroExpansionReference ------------------------
(***************************************************************************)
(* What a program with macros means, from its structure alone: a statement *)
(* is carried out where it is written, an argument belongs to the place    *)
(* where it is written, and a label is found by what encloses it.  There   *)
(* is no list, no stack and no name.  Only the region between two global   *)
(* labels is that of the resulting statement.                              *)
(*                                                                         *)
(* An environment says where a statement is: the macro instance (home),    *)
(* the innermost repetition or instance (scope), the arguments (bind), how *)
(* deep it is and whether an EXITM would be one of the macro's statements. *)
(***************************************************************************)
EXTENDS MacroExpansion

Anywhere == [home |-> 0, scope |-> 0, bind |-> <<>>, depth |-> 1, inMacro |-> FALSE]

Start == [items |-> <<>>, consts |-> <<>>, region |-> 0, globals |-> {},
          fresh |-> 1, faults |-> {}, leaving |-> FALSE, dead |-> FALSE]

Fault(st, f) == [st EXCEPT !.faults = @ \cup {f}]
Item(st, decl, key, plus) ==
    [st EXCEPT !.items = Append(@, [decl |-> decl, key |-> key, plus |-> plus])]

RECURSIVE Denotes(_, _, _), Closed(_, _)
\* What an operand stands for: its number, or what it is called and where.
Denotes(o, env, st) ==
    CASE o.kind = "NUMBER" -> [key |-> <<"number">>, plus |-> o.plus]
      [] o.kind = "LOCAL"  -> [key |-> <<"local", o.id, env.home, st.region>>, plus |-> o.plus]
      [] o.kind \in {"FORWARD", "BACKWARD"} -> [key |-> <<o.kind, o.plus, env.scope>>, plus |-> 0]
      [] OTHER ->
            LET d == IF o.id \in DOMAIN env.bind THEN Denotes(env.bind[o.id].arg, env.bind[o.id].env, st)
                     ELSE IF o.id \in DOMAIN st.consts THEN st.consts[o.id]
                     ELSE [key |-> <<"global", o.id>>, plus |-> 0]
            IN  [d EXCEPT !.plus = @ + o.plus]

\* The identifier that an identifier stands for.
Closed(id, env) ==
    IF id \in DOMAIN env.bind THEN Closed(env.bind[id].arg.id, env.bind[id].env) ELSE id

Entered(env, st, home) ==
    [env EXCEPT !.scope = st.fresh, !.depth = @ + 1, !.home = IF home THEN st.fresh ELSE @,
                !.inMacro = @ \/ home]
Opened(st, env) ==
    LET s == [st EXCEPT !.fresh = @ + 1]
    IN  IF env.depth >= NestingLimit THEN [Fault(s, "DEEP") EXCEPT !.dead = TRUE] ELSE s

Constant(o, env, st) == Denotes(o, env, st).key = <<"number">>
Passed(test, env, st) ==
    Constant(test.left, env, st) /\ Denotes(test.left, env, st).plus < test.below
Tested(test, env, st) ==
    IF Constant(test.left, env, st) THEN st ELSE Fault(st, "NOT LITERAL")

RECURSIVE Meaning(_, _, _), Loop(_, _, _, _), Choice(_, _, _, _)

Seen(s, env, st) ==
    CASE s.do = "USE" -> LET d == Denotes(s.on, env, st) IN Item(st, FALSE, d.key, d.plus)
      [] s.do = "FORWARD"  -> Item(st, TRUE, <<"FORWARD", s.level, env.scope>>, 0)
      [] s.do = "BACKWARD" -> Item(st, TRUE, <<"BACKWARD", s.level, env.scope>>, 0)
      [] s.do = "LOCAL"    ->
            LET key == <<"local", s.id, env.home, st.region>>
            IN  IF \E i \in 1..Len(st.items) : st.items[i].decl /\ st.items[i].key = key
                THEN Fault(st, "DUPLICATE") ELSE Item(st, TRUE, key, 0)
      [] s.do \in {"LABEL", "PROC"} ->
            IF s.id \in st.globals \cup DOMAIN st.consts \cup DOMAIN program.macros THEN Fault(st, "DUPLICATE")
            ELSE LET known == [st EXCEPT !.globals = @ \cup {s.id}, !.region = @ + 1]
                     named == Item(known, TRUE, <<"global", s.id>>, 0)
                 IN  IF s.do = "LABEL" THEN named
                     ELSE Meaning(s.body, [env EXCEPT !.inMacro = FALSE], named)
      [] s.do = "SET" ->
            LET id == Closed(s.id, env)
            IN  IF id \in st.globals \cup DOMAIN program.macros THEN Fault(st, "NOT CONSTANT")
                ELSE [st EXCEPT !.consts = [c \in DOMAIN @ \cup {id} |->
                                IF c = id THEN Denotes(s.to, env, st) ELSE @[c]]]
      [] s.do = "EXITM" -> IF env.inMacro THEN [st EXCEPT !.leaving = TRUE] ELSE Fault(st, "EXITM")
      [] s.do = "CALL" ->
            LET id == Closed(s.macro, env)
            IN  IF id \notin DOMAIN program.macros THEN Fault(st, "MACRO")
                ELSE LET m == program.macros[id]
                         bound == [f \in Range(m.formals) |->
                                      [arg |-> s.actuals[CHOOSE i \in 1..Len(m.formals) : m.formals[i] = f],
                                       env |-> env]]
                     IN  IF Len(m.formals) # Len(s.actuals) THEN Fault(st, "MACRO")
                         ELSE [Meaning(m.body, [Entered(env, st, TRUE) EXCEPT !.bind = bound], Opened(st, env))
                               EXCEPT !.leaving = FALSE]
      [] s.do = "REPT" ->
            LET d == Denotes(s.count, env, st)
            IN  IF ~Constant(s.count, env, st) THEN Fault(st, "NOT LITERAL")
                ELSE IF d.plus <= 0 THEN st
                ELSE Meaning(FlattenSeq([i \in 1..d.plus |-> s.body]), Entered(env, st, FALSE), Opened(st, env))
      [] s.do \in {"WHILE", "DO"} -> Loop(s, env, st, 0)
      [] s.do = "IF" -> Choice(s, 1, env, st)

Meaning(body, env, st) ==
    IF body = <<>> \/ st.leaving \/ st.dead THEN st
    ELSE Meaning(Tail(body), env, Seen(Head(body), env, st))

Loop(s, env, st, turns) ==
    LET first == s.do = "DO" /\ turns = 0
        told  == IF first THEN st ELSE Tested(s.test, env, st)
        again == \/ first
                 \/ Constant(s.test.left, env, st) /\ Passed(s.test, env, st) = (s.do = "WHILE")
    IN  IF st.leaving \/ st.dead THEN st
        ELSE IF turns > TurnLimit THEN Fault(st, "TURNS")
        ELSE IF again THEN Loop(s, env, Meaning(s.body, Entered(env, st, FALSE), Opened(st, env)), turns + 1)
        ELSE told

Choice(s, i, env, st) ==
    IF i > Len(s.cases) THEN Meaning(s.default, env, st)
    ELSE IF Passed(s.cases[i].test, env, st) THEN Meaning(s.cases[i].body, env, st)
    ELSE Choice(s, i + 1, env, Tested(s.cases[i].test, env, st))

-----------------------------------------------------------------------------
(* Where a reference leads *)

Same(items, i) == {j \in 1..Len(items) : items[j].decl /\ items[j].key = items[i].key}

\* The closest declaration after a reference forward, or before one backward, in
\* the same repetition or macro instance.
Target(items, i) ==
    LET after  == {j \in Same(items, i) : j > i}
        before == {j \in Same(items, i) : j < i}
    IN  CASE items[i].key[1] = "FORWARD"  -> IF after = {} THEN {} ELSE {Min(after)}
          [] items[i].key[1] = "BACKWARD" -> IF before = {} THEN {} ELSE {Max(before)}
          [] OTHER -> Same(items, i)

\* References that wait for the declaration that i waits for.
Waiting(items, i) ==
    {j \in 1..i - 1 : /\ ~items[j].decl /\ items[j].key = items[i].key
                      /\ Same(items, i) \cap j..i = {}}

Wrong(items, i) ==
    \/ items[i].key[1] \in {"FORWARD", "BACKWARD", "local"} /\ Target(items, i) = {}
    \/ items[i].key[1] = "FORWARD" /\ Cardinality(Waiting(items, i)) >= RefLimit

Leads(i) == {j \in 1..Len(code) : code[j].decl /\ code[j].name = code[i].name}

-----------------------------------------------------------------------------
(* Properties *)

AsWritten(m) ==
    /\ Len(code) = Len(m.items)
    /\ \A i \in 1..Len(code) :
          /\ code[i].decl = m.items[i].decl /\ code[i].plus = m.items[i].plus
          /\ ~code[i].decl => Leads(i) = Target(m.items, i)

Faultless(m) == m.faults = {} /\ \A i \in 1..Len(m.items) : m.items[i].decl \/ ~Wrong(m.items, i)

\* When the pass is over, the tree holds the statements that the program means, in
\* their order: every reference, however deep in macros, loops and conditions it was
\* written, leads to the declaration that it names there, and what EXITM leaves out is
\* left out and nothing else.  The pass reports something only for a program that has
\* a fault, and for each such program (astproc.c:276-343, 572-638, 703-776, 3331-3493).
ExpandedAsWritten ==
    job # "walk" =>
        LET m == Meaning(program.main, Anywhere, Start)
        IN  /\ (job = "exit") = m.dead
            /\ job = "done" => /\ (errors = {}) = Faultless(m)
                               /\ errors = {} => AsWritten(m)

\* The manual says of macros that "the arguments will be substituted for the
\* respective parameter names in the resulting statements" (xorcyst.texinfo:966):
\* every program is expanded in the end, as it is written (astproc.c:739-753).
ArgumentsMeanTheCaller ==
    <>(job # "walk" /\ ExpandedAsWritten)
================================================================================
