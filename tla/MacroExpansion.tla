---------------------------- MODULE MacroExpansion ----------------------------
(***************************************************************************)
(* The first pass over a syntax tree (astproc.c): macros, repetitions and  *)
(* conditions are replaced by statements in the list that is being walked, *)
(* and local and anonymous labels get names that are unique in the unit.   *)
(*                                                                         *)
(* A statement is a record whose field "do" tells its kind.  An operand is *)
(* [kind, id, scope, plus]: a NUMBER plus, or an IDENT, a LOCAL or a NAME  *)
(* (a local that has its final name) with plus added to it, or a reference *)
(* to a FORWARD or BACKWARD label, whose level is plus.  A test holds when *)
(* an operand is below a bound.                                            *)
(*                                                                         *)
(* The code substitutes parameters in a copy of the body; here a node of   *)
(* the list carries what is substituted in it and the number of its macro. *)
(***************************************************************************)
EXTENDS Integers, Sequences, SequencesExt, FiniteSets, FiniteSetsExt

CONSTANTS
    Programs,       \* [macros, main]: every parameter occurs in its macro's body
    Levels,         \* of anonymous labels: 1..BRANCH_MAX
    NestingLimit,   \* of branch_push
    TurnLimit,      \* of process_while and process_do
    RefLimit        \* FORWARD_BRANCH_REF_MAX

ASSUME ExpansionAssumption == {NestingLimit, TurnLimit, RefLimit} \subseteq Nat

VARIABLES
    program,
    job,            \* "walk", "done" or "exit"
    lists,          \* what is left of the lists being walked, the innermost last
    scopes,         \* branch_scope_stack: [id, forward, backward], the innermost last
    scopeCount,     \* branch_scope_count
    expansions,     \* macro_expansion_count
    labels,         \* label_count
    consts,         \* the constants in the symbol table
    globals,        \* the global labels in the symbol table
    code,           \* what is left in the tree: [decl, name, plus]
    errors          \* what is reported: errors, and the warning of an undefined branch label

tables == <<consts, globals, labels>>
vars == <<program, job, lists, scopes, scopeCount, expansions, tables, code, errors>>

-----------------------------------------------------------------------------
(* Operands *)

\* An operand of node n after substitution and with the locals of its macro renamed.
Operand(n, o) ==
    IF o.kind = "IDENT" /\ o.id \in DOMAIN n.bind
    THEN [n.bind[o.id] EXCEPT !.plus = @ + o.plus]
    ELSE IF o.kind = "LOCAL" THEN [o EXCEPT !.scope = n.inst] ELSE o

\* An identifier of node n that is not an operand.
Identifier(n, id) == IF id \in DOMAIN n.bind THEN n.bind[id].id ELSE id

\* An argument in the body of expansion k: a local that is all of the argument
\* keeps the scope of the caller, one in a larger expression does not.
Argument(a, k) ==
    IF a.kind = "LOCAL" /\ a.plus # 0 THEN [a EXCEPT !.scope = Append(@, k)] ELSE a

\* Parameters are substituted one after the other, later ones also in the
\* arguments of earlier ones.
Bindings(formals, actuals, k) ==
    LET bound[i \in 1..Len(formals)] ==
            LET a == actuals[i]
                later == {j \in i + 1..Len(formals) : a.kind = "IDENT" /\ a.id = formals[j]}
            IN  IF later = {} THEN Argument(a, k)
                ELSE [bound[CHOOSE j \in later : TRUE] EXCEPT !.plus = @ + a.plus]
    IN  [f \in Range(formals) |-> bound[CHOOSE i \in 1..Len(formals) : formals[i] = f]]

\* An argument that names its own parameter is substituted in what was just put
\* there, and again: the walk does not end.
Endless(formals, actuals) ==
    \E i \in 1..Len(formals) : actuals[i].kind = "IDENT" /\ actuals[i].id = formals[i]

\* globalize_local
Renamed(o) == IF o.kind = "LOCAL" THEN [o EXCEPT !.kind = "NAME", !.scope = Append(@, labels)] ELSE o

\* reduce_expression: constants are replaced by what they stand for.
Reduced(o) ==
    IF o.kind = "IDENT" /\ o.id \in DOMAIN consts
    THEN [consts[o.id] EXCEPT !.plus = @ + o.plus] ELSE o

Value(n, o) == Reduced(Operand(n, o))

-----------------------------------------------------------------------------
(* The list *)

Now  == Head(Last(lists))
Rest == Tail(Last(lists))

Node(s, bind, inst) == [s |-> s, bind |-> bind, inst |-> inst, turns |-> 0]
Nodes(body, bind, inst) == [i \in 1..Len(body) |-> Node(body[i], bind, inst)]
Mark(kind) == Node([do |-> kind], <<>>, <<>>)
Is(n, kind) == n.s.do = kind

Continue(seq) == lists' = [lists EXCEPT ![Len(lists)] = seq]
Replace(seq)  == Continue(seq \o Rest)
Drop          == Continue(Rest)

Bracketed(open, seq, close) == <<Mark(open)>> \o seq \o <<Mark(close)>>
Scoped(seq) == Bracketed("PUSH", seq, "POP")

Walking == job = "walk" /\ lists # <<>>
At(kind) == Walking /\ Last(lists) # <<>> /\ Is(Now, kind) /\ UNCHANGED program

Report(kinds) == errors' = errors \cup kinds

NewScope(id) ==
    [id |-> id, forward |-> [l \in Levels |-> [refs |-> {}, counter |-> 0]],
     backward |-> [l \in Levels |-> [decl |-> <<>>, counter |-> 0]]]

Init ==
    /\ program \in Programs /\ job = "walk"
    /\ lists = <<Nodes(program.main, <<>>, <<>>)>>
    /\ scopes = <<NewScope(0)>> /\ scopeCount = 1 /\ expansions = 0
    /\ consts = <<>> /\ globals = {} /\ labels = 0 /\ code = <<>> /\ errors = {}

-----------------------------------------------------------------------------
(* Branch scopes *)

Top == Last(scopes)

\* branch_push; too deep a nesting ends the program.
PushScope ==
    /\ At("PUSH") /\ Drop
    /\ IF Len(scopes) >= NestingLimit THEN job' = "exit" /\ UNCHANGED <<scopes, scopeCount>>
       ELSE /\ scopes' = Append(scopes, NewScope(scopeCount))
            /\ scopeCount' = scopeCount + 1 /\ UNCHANGED job
    /\ UNCHANGED <<expansions, tables, code, errors>>

Pending(s) == \E l \in Levels : s.forward[l].refs # {}

\* k times branch_pop
LeaveScopes(k) ==
    LET kept == Len(scopes) - k
    IN  /\ scopes' = SubSeq(scopes, 1, kept)
        /\ Report(IF \E i \in kept + 1..Len(scopes) : Pending(scopes[i]) THEN {"UNRESOLVED"} ELSE {})

PopScope ==
    /\ At("POP") /\ Drop /\ LeaveScopes(1)
    /\ UNCHANGED <<job, scopeCount, expansions, tables, code>>

AtMark ==
    /\ At("BODY") \/ At("END")
    /\ Drop
    /\ UNCHANGED <<job, scopes, scopeCount, expansions, tables, code, errors>>

BranchName(sign, n, level, counter) == <<sign, level>> \o n.inst \o <<Top.id, counter>>

\* A declaration names every reference that waits for it.
DeclareForward ==
    /\ At("FORWARD") /\ Drop
    /\ LET level == Now.s.level
           fwd   == Top.forward[level]
           label == BranchName("+", Now, level, fwd.counter)
       IN  /\ code' = Append([i \in 1..Len(code) |-> IF i \in fwd.refs THEN [code[i] EXCEPT !.name = label]
                                                     ELSE code[i]],
                             [decl |-> TRUE, name |-> label, plus |-> 0])
           /\ scopes' = [scopes EXCEPT ![Len(scopes)].forward[level] =
                            [refs |-> {}, counter |-> fwd.counter + 1]]
    /\ UNCHANGED <<job, scopeCount, expansions, tables, errors>>

DeclareBackward ==
    /\ At("BACKWARD") /\ Drop
    /\ LET level == Now.s.level
           bwd   == Top.backward[level]
           label == BranchName("-", Now, level, bwd.counter)
       IN  /\ code' = Append(code, [decl |-> TRUE, name |-> label, plus |-> 0])
           /\ scopes' = [scopes EXCEPT ![Len(scopes)].backward[level] =
                            [decl |-> label, counter |-> bwd.counter + 1]]
    /\ UNCHANGED <<job, scopeCount, expansions, tables, errors>>

-----------------------------------------------------------------------------
(* Labels, constants and uses *)

Emit(name, plus) == code' = Append(code, [decl |-> FALSE, name |-> name, plus |-> plus])

UseForward ==
    /\ At("USE") /\ Now.s.on.kind = "FORWARD" /\ Drop /\ Emit(<<"+">>, 0)
    /\ LET level == Now.s.on.plus
       IN  IF Cardinality(Top.forward[level].refs) >= RefLimit
           THEN Report({"LIMIT"}) /\ UNCHANGED scopes
           ELSE /\ scopes' = [scopes EXCEPT ![Len(scopes)].forward[level].refs = @ \cup {Len(code) + 1}]
                /\ UNCHANGED errors
    /\ UNCHANGED <<job, scopeCount, expansions, tables>>

UseBackward ==
    /\ At("USE") /\ Now.s.on.kind = "BACKWARD" /\ Drop
    /\ LET bwd == Top.backward[Now.s.on.plus]
       IN  Emit(IF bwd.decl = <<>> THEN <<"-">> ELSE bwd.decl, 0)
    /\ UNCHANGED <<job, scopes, scopeCount, expansions, tables, errors>>

\* An operand of an instruction.
Use ==
    /\ At("USE") /\ Now.s.on.kind \notin {"FORWARD", "BACKWARD"} /\ Drop
    /\ LET v == Renamed(Value(Now, Now.s.on))
       IN  Emit(IF v.kind = "NUMBER" THEN <<>> ELSE <<v.id>> \o v.scope, v.plus)
    /\ UNCHANGED <<job, scopes, scopeCount, expansions, tables, errors>>

Fixed == globals \cup DOMAIN program.macros
Taken(id) == id \in Fixed \cup DOMAIN consts

\* enter_label and enter_proc begin a new scope of locals.
Declare(id, seqs) ==
    IF Taken(id) THEN Report({"DUPLICATE"}) /\ Drop /\ UNCHANGED <<code, tables>>
    ELSE /\ code' = Append(code, [decl |-> TRUE, name |-> <<id>>, plus |-> 0])
         /\ globals' = globals \cup {id} /\ labels' = labels + 1
         /\ lists' = [lists EXCEPT ![Len(lists)] = Rest] \o seqs
         /\ UNCHANGED <<consts, errors>>

EnterLabel ==
    /\ At("LABEL") /\ Declare(Now.s.id, <<>>)
    /\ UNCHANGED <<job, scopes, scopeCount, expansions>>

EnterProc ==
    /\ At("PROC") /\ Declare(Now.s.id, <<Nodes(Now.s.body, Now.bind, Now.inst)>>)
    /\ UNCHANGED <<job, scopes, scopeCount, expansions>>

EnterLocal ==
    /\ At("LOCAL") /\ Drop
    /\ LET label == <<Now.s.id>> \o Now.inst \o <<labels>>
       IN  IF \E i \in 1..Len(code) : code[i].decl /\ code[i].name = label
           THEN Report({"DUPLICATE"}) /\ UNCHANGED code
           ELSE code' = Append(code, [decl |-> TRUE, name |-> label, plus |-> 0]) /\ UNCHANGED errors
    /\ UNCHANGED <<job, scopes, scopeCount, expansions, tables>>

\* process_assign: locals are bound where the constant is defined.
Assign ==
    /\ At("SET") /\ Drop
    /\ LET id == Identifier(Now, Now.s.id)
           v  == Reduced(Renamed(Operand(Now, Now.s.to)))
       IN  IF id \in Fixed THEN Report({"NOT CONSTANT"}) /\ UNCHANGED consts
           ELSE /\ consts' = [c \in DOMAIN consts \cup {id} |-> IF c = id THEN v ELSE consts[c]]
                /\ UNCHANGED errors
    /\ UNCHANGED <<job, scopes, scopeCount, expansions, globals, labels, code>>

-----------------------------------------------------------------------------
(* Expansion *)

Arguments(n) == [i \in 1..Len(n.s.actuals) |-> Operand(n, n.s.actuals[i])]

ExpandMacro ==
    /\ At("CALL")
    /\ LET id == Identifier(Now, Now.s.macro)
       IN  /\ id \in DOMAIN program.macros
           /\ LET macro == program.macros[id]
              IN  /\ Len(macro.formals) = Len(Now.s.actuals)
                  /\ ~Endless(macro.formals, Arguments(Now))
                  /\ Replace(Scoped(Bracketed("BODY",
                        Nodes(macro.body, Bindings(macro.formals, Arguments(Now), expansions), <<expansions>>),
                        "END")))
    /\ expansions' = expansions + 1
    /\ UNCHANGED <<job, scopes, scopeCount, tables, code, errors>>

RefuseMacro ==
    /\ At("CALL") /\ Drop
    /\ LET id == Identifier(Now, Now.s.macro)
       IN  id \in DOMAIN program.macros => Len(program.macros[id].formals) # Len(Now.s.actuals)
    /\ Report({"MACRO"})
    /\ UNCHANGED <<job, scopes, scopeCount, expansions, tables, code>>

\* Mutant: the scopes that are skipped stay on the stack.
NoPops(seq) == 0

\* Scopes that end in a part of the list but began before it.
EndedIn(seq) ==
    LET count(kind, k) == Cardinality({i \in 1..k : Is(seq[i], kind)})
    IN  Max({count("POP", k) - count("PUSH", k) : k \in 0..Len(seq)})

\* handle_exitm skips to the end of the body that it is in.
ExitMacro ==
    /\ At("EXITM")
    /\ LET depth(i) == 1 + Cardinality({j \in 1..i : Is(Rest[j], "BODY")})
                         - Cardinality({j \in 1..i : Is(Rest[j], "END")})
           ends == {i \in 1..Len(Rest) : Is(Rest[i], "END") /\ depth(i) = 0}
       IN  IF ends = {} THEN Report({"EXITM"}) /\ Drop /\ UNCHANGED scopes
           ELSE /\ LeaveScopes(EndedIn(SubSeq(Rest, 1, Min(ends) - 1)))
                /\ Continue(SubSeq(Rest, Min(ends), Len(Rest)))
    /\ UNCHANGED <<job, scopeCount, expansions, tables, code>>

Copies(n, k) == FlattenSeq([i \in 1..k |-> Nodes(n.s.body, n.bind, n.inst)])

\* All copies of a REPT share one scope, each turn of a loop has one of its own.
Repeat ==
    /\ At("REPT")
    /\ LET count == Value(Now, Now.s.count)
       IN  IF count.kind # "NUMBER" THEN Report({"NOT LITERAL"}) /\ Drop
           ELSE /\ IF count.plus <= 0 THEN Drop ELSE Replace(Scoped(Copies(Now, count.plus)))
                /\ UNCHANGED errors
    /\ UNCHANGED <<job, scopes, scopeCount, expansions, tables, code>>

Literal(test) == Value(Now, test.left).kind = "NUMBER"
Holds(test)   == Literal(test) /\ Value(Now, test.left).plus < test.below

Turn ==
    Replace(Scoped(Nodes(Now.s.body, Now.bind, Now.inst)) \o <<[Now EXCEPT !.turns = @ + 1]>>)

While ==
    /\ At("WHILE")
    /\ IF Now.turns > TurnLimit THEN Report({"TURNS"}) /\ Drop
       ELSE /\ IF Holds(Now.s.test) THEN Turn ELSE Drop
            /\ Report(IF Literal(Now.s.test) THEN {} ELSE {"NOT LITERAL"})
    /\ UNCHANGED <<job, scopes, scopeCount, expansions, tables, code>>

\* The condition is looked at after the first turn.
Do ==
    /\ At("DO")
    /\ IF Now.turns > TurnLimit THEN Report({"TURNS"}) /\ Drop
       ELSE IF Now.turns = 0 THEN Turn /\ UNCHANGED errors
       ELSE /\ IF Literal(Now.s.test) /\ ~Holds(Now.s.test) THEN Turn ELSE Drop
            /\ Report(IF Literal(Now.s.test) THEN {} ELSE {"NOT LITERAL"})
    /\ UNCHANGED <<job, scopes, scopeCount, expansions, tables, code>>

\* The statements of the first case that holds take the place of the conditional.
If ==
    /\ At("IF")
    /\ LET cases == Now.s.cases
           held  == {i \in 1..Len(cases) : Holds(cases[i].test)}
           tried == IF held = {} THEN 1..Len(cases) ELSE 1..Min(held)
       IN  /\ Replace(Nodes(IF held = {} THEN Now.s.default ELSE cases[Min(held)].body, Now.bind, Now.inst))
           /\ Report(IF \A i \in tried : Literal(cases[i].test) THEN {} ELSE {"NOT LITERAL"})
    /\ UNCHANGED <<job, scopes, scopeCount, expansions, tables, code>>

-----------------------------------------------------------------------------
(* The end *)

EndOfList ==
    /\ Walking /\ Last(lists) = <<>> /\ lists' = Front(lists)
    /\ UNCHANGED <<program, job, scopes, scopeCount, expansions, tables, code, errors>>

Declared == {code[i].name : i \in {j \in 1..Len(code) : code[j].decl}}

\* A label that the program cannot have meant from outside.
Anonymous(name) == Len(name) > 1 \/ name \in {<<"+">>, <<"-">>}

Finish ==
    /\ job = "walk" /\ lists = <<>> /\ job' = "done"
    /\ scopes' = <<>>
    /\ Report((IF \E i \in 1..Len(scopes) : Pending(scopes[i]) THEN {"UNRESOLVED"} ELSE {}) \cup
              (IF \E i \in 1..Len(code) : Anonymous(code[i].name) /\ code[i].name \notin Declared
               THEN {"UNDEFINED"} ELSE {}))
    /\ UNCHANGED <<program, lists, scopeCount, expansions, tables, code>>

Next ==
    \/ PushScope \/ PopScope \/ AtMark
    \/ DeclareForward \/ DeclareBackward \/ UseForward \/ UseBackward
    \/ Use \/ EnterLabel \/ EnterProc \/ EnterLocal \/ Assign
    \/ ExpandMacro \/ RefuseMacro \/ ExitMacro
    \/ Repeat \/ While \/ Do \/ If
    \/ EndOfList \/ Finish

Spec == Init /\ [][Next]_vars /\ WF_vars(Next)
===============================================================================
