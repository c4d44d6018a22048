------------------------------ MODULE LinkerRun ------------------------------
(***************************************************************************)
(* One invocation of the linker (xlnk.c): the commands of a script are     *)
(* read twice, objects are translated as they come (ObjectLink), the       *)
(* layout is made, and every output is staged and closed before the first  *)
(* is published, one after the other and without a batch (OutputBatch).    *)
(*                                                                         *)
(* Files are identities: two names of one file are one element of Outputs. *)
(* The length of a fragment is the number of its items: how widths settle  *)
(* is LayoutRelaxation.                                                    *)
(***************************************************************************)
EXTENDS ObjectLink, OutputBatch, Integers, FiniteSets

CONSTANTS
    Scripts,        \* linker scripts: [name, default, commands]
    Disks,          \* what is on disk when the linker starts
    AddressSpace    \* 65536

\* Every file of a script is known, and the linker has no output of its own.
ASSUME FilesAssumption ==
    \A s \in Scripts : /\ s.name = Binary /\ s.default \in Outputs \cup {"NONE"}
                       /\ s.commands \in Seq(Range(s.commands))
                       /\ \A c \in Range(s.commands) :
                             /\ c.cmd \in {"OUTPUT", "LINK", "COPY"} => c.file \in Outputs
                             /\ c.cmd = "COPY" => c.size \in Nat

VARIABLES
    script,     \* the script, its commands parsed
    ip,         \* the command at hand
    opened,     \* dest: [file, boundary]
    bankSize,   \* bank_size and bank_origin, kept from one bank command to the next
    bankOrigin,
    calls,      \* bank_calls of the layout
    lengths,    \* the length of every fragment once the layout has been made
    current,    \* the output of the loops at the end of main
    status      \* what main returns

linker     == <<script, ip, opened, bankSize, bankOrigin, calls, lengths, current, status>>
linkerVars == <<linkVars, vars, linker>>

Commands == script.commands
Command  == Commands[ip]

\* The fragments of script commands.
CopyOf(size)          == Entry("COPY", 0, Items(0, ip, 1, size), 0)
OriginAt(address)     == [kind |-> "ORIGIN", anchor |-> 0, items |-> <<>>, value |-> 0, origin |-> address]
BankOf(address, size) == [kind |-> "BANK", anchor |-> 0, items |-> <<>>, value |-> 0,
                          origin |-> address, size |-> size]
PadTo(pad, argument)  == [kind |-> "PAD", anchor |-> 0, items |-> <<>>, value |-> 0,
                          pad |-> pad, argument |-> argument]
BankEnd               == Entry("BANK_END", 0, <<>>, 0)

\* What is wrong with a command before any other is executed.
Malformed(c) ==
    \/ c.cmd = "LINK" /\ ~c.complete
    \/ c.cmd = "RAM" /\ (~c.complete \/ c.start >= c.end \/ c.end > AddressSpace - 1)

LinkerInit ==
    /\ LinkInit /\ Init /\ before \in Disks
    /\ script \in Scripts /\ ip = 1
    /\ opened = <<>> /\ bankSize = 0 /\ bankOrigin = 0 /\ calls = 0
    /\ lengths = <<>> /\ current = 1 /\ status = 1
    /\ job = "parse"

-----------------------------------------------------------------------------
(* The commands *)

Running(step) == job = step /\ UNCHANGED <<vars, script, status>>

\* xlnk_script_parse and the first pass; then the default output is opened.
Parse ==
    /\ Running("parse")
    /\ IF \E c \in Range(Commands) : Malformed(c) THEN job' = "failed"
       ELSE job' = "script"
    /\ IF script.default = "NONE" \/ job' = "failed"
       THEN UNCHANGED <<opened, anchorCount, fragments>>
       ELSE /\ opened' = <<[file |-> script.default, boundary |-> 1]>>
            /\ anchorCount' = 1 /\ fragments' = <<MarkAt(1)>>
    /\ UNCHANGED <<inputs, graph, bound, bindings, exports, banks, work, linkError>>
    /\ UNCHANGED <<ip, bankSize, bankOrigin, calls, lengths, current>>

InScript(cmd) ==
    /\ Running("script") /\ ip <= Len(Commands) /\ Command.cmd = cmd
    /\ UNCHANGED <<inputs, graph, bound, bindings, exports, banks, work, linkError, lengths, current>>
Done == ip' = ip + 1 /\ UNCHANGED job

NeedsOutput(c) == c.cmd \in {"LINK", "COPY", "PAD"}

\* No output open, an argument missing or out of range, a file that cannot be
\* read, a limit of the layout or no more memory.
Reject ==
    /\ Running("script") /\ ip <= Len(Commands)
    /\ job' = "failed"
    /\ UNCHANGED <<linked, work, linkError, ip, opened, bankSize, bankOrigin, calls, lengths, current>>

Accepted == Command.complete /\ (NeedsOutput(Command) => opened # <<>>)

DoOutput ==
    /\ InScript("OUTPUT") /\ Accepted /\ Done
    /\ opened' = Append(opened, [file |-> Command.file, boundary |-> Len(fragments) + 1])
    /\ anchorCount' = anchorCount + 1
    /\ fragments' = Append(fragments, MarkAt(anchorCount + 1))
    /\ UNCHANGED <<bankSize, bankOrigin, calls>>

DoCopy ==
    /\ InScript("COPY") /\ Accepted /\ Done
    /\ fragments' = Append(fragments, CopyOf(Command.size))
    /\ UNCHANGED <<anchorCount, opened, bankSize, bankOrigin, calls>>

DoPad ==
    /\ InScript("PAD") /\ Accepted /\ Done
    /\ fragments' = Append(fragments, PadTo(Command.kind, Command.argument))
    /\ UNCHANGED <<anchorCount, opened, bankSize, bankOrigin, calls>>

SkipRam ==
    /\ InScript("RAM") /\ Done
    /\ UNCHANGED <<anchorCount, fragments, opened, bankSize, bankOrigin, calls>>

\* An argument that is left out keeps the value of the last bank command.
SizeFor(c) == IF c.size = 0 THEN bankSize ELSE c.size

OriginFor(c) == IF c.origin < 0 THEN bankOrigin ELSE c.origin

\* ir_layout_bank ends the bank before it.
DoBank ==
    /\ InScript("BANK") /\ Accepted /\ Done
    /\ bankSize' = SizeFor(Command) /\ bankOrigin' = OriginFor(Command)
    /\ bankSize' > 0 /\ bankOrigin' < AddressSpace
    /\ fragments' = fragments \o (IF calls > 0 THEN <<BankEnd>> ELSE <<>>)
                              \o <<BankOf(bankOrigin', bankSize')>>
    /\ calls' = calls + 1
    /\ UNCHANGED <<anchorCount, opened>>

DoLink ==
    /\ InScript("LINK") /\ Accepted
    /\ Command.origin < AddressSpace
    /\ fragments' = IF Command.origin < 0 THEN fragments ELSE Append(fragments, OriginAt(Command.origin))
    /\ job' = "read"
    /\ UNCHANGED <<ip, anchorCount, opened, bankSize, bankOrigin, calls>>

\* read_object, then ir_link_add.
ReadObject ==
    /\ Running("read") /\ Command.file \in DOMAIN Objects
    /\ Valid(Objects[Command.file]) /\ AddObject(Command.file)
    /\ ip' = ip + 1
    /\ UNCHANGED <<opened, bankSize, bankOrigin, calls, lengths, current>>

ReadFails ==
    /\ Running("read") /\ job' = "failed"
    /\ UNCHANGED <<linked, work, linkError, ip, opened, bankSize, bankOrigin, calls, lengths, current>>

Translate == AppendObject /\ UNCHANGED <<vars, linker>>

\* Mutant: outputs are compared with one another only.
DistinctOutputs == \A i, j \in 1..Len(opened) : i # j => opened[i].file # opened[j].file

\* protect_outputs
Protected ==
    \A i \in 1..Len(opened) :
        /\ opened[i].file # script.name
        /\ \A j \in 1..(i - 1) : opened[i].file # opened[j].file
        /\ \A c \in Range(Commands) : c.cmd \in {"LINK", "COPY"} => opened[i].file # c.file

Protect ==
    /\ Running("script") /\ ip > Len(Commands)
    /\ job' = IF Protected THEN "resolve" ELSE "failed"
    /\ UNCHANGED <<linked, work, linkError, ip, opened, bankSize, bankOrigin, calls, lengths, current>>

Prepare == PrepareLink /\ UNCHANGED <<vars, linker>>

-----------------------------------------------------------------------------
(* The layout: lengths of pads and of the rest of banks *)

Origin == [pc |-> 0, output |-> 0, start |-> 0, size |-> 0, lengths |-> <<>>, fits |-> TRUE]

IsCode(f) == f.kind \in {"INSTRUCTION", "RAW", "DATA", "STORAGE"}

\* The length of a fragment where the walk has come to.
LengthOf(f, w) ==
    CASE f.kind = "BANK_END" -> w.size - (w.output - w.start)
      [] f.kind = "PAD" -> CASE f.pad = "SIZE"   -> f.argument
                             [] f.pad = "ORIGIN" -> f.argument - w.pc
                             [] OTHER            -> f.argument - (w.output - w.start)
      [] OTHER -> Len(f.items)

Moved1(w, f) ==
    IF f.kind = "ORIGIN" THEN [w EXCEPT !.pc = f.origin]
    ELSE IF f.kind = "BANK" THEN [w EXCEPT !.pc = f.origin, !.start = w.output, !.size = f.size]
    ELSE w

Walked(w0, f) ==
    LET w == Moved1(w0, f)
        length == LengthOf(f, w)
        pc == IF f.kind \in {"BANK", "BANK_END"} THEN w.pc ELSE w.pc + length
    IN  IF ~w.fits \/ length < 0 THEN [w EXCEPT !.fits = FALSE]
        ELSE [w EXCEPT !.pc = pc, !.output = @ + length, !.lengths = Append(@, length),
                       !.fits = /\ IsCode(f) => pc <= AddressSpace
                                /\ w.size > 0 => w.output + length - w.start <= w.size]

\* ir_layout_run ends the last bank.
Sealed == IF calls > 0 THEN Append(fragments, BankEnd) ELSE fragments

LayOut ==
    /\ Running("layout")
    /\ fragments' = Sealed
    /\ \E w \in {FoldLeft(Walked, Origin, Sealed)} :
          /\ lengths' = w.lengths
          /\ job' = IF w.fits THEN "write" ELSE "failed"
    /\ UNCHANGED <<inputs, graph, bound, anchorCount, bindings, exports, banks, work, linkError>>
    /\ UNCHANGED <<ip, opened, bankSize, bankOrigin, calls, current>>

\* A value that is invalid or unresolved, an operand or RAM that does not fit, a
\* copied file that has changed, no more memory.
LayoutFails ==
    /\ Running("layout") /\ job' = "failed"
    /\ UNCHANGED <<linked, work, linkError, ip, opened, bankSize, bankOrigin, calls, lengths, current>>

-----------------------------------------------------------------------------
(* The outputs *)

At(step) ==
    /\ job = step
    /\ UNCHANGED <<linked, work, linkError, script, ip, opened, bankSize, bankOrigin, calls, lengths>>
Output    == opened[current].file
GoTo(step) == job' = step /\ current' = 1

OpenOutput ==
    /\ At("write") /\ current <= Len(opened) /\ Open(Output)
    /\ UNCHANGED <<job, current, status>>

CloseOutput ==
    /\ At("write") /\ current <= Len(opened) /\ Close(Output)
    /\ current' = current + 1 /\ UNCHANGED <<job, status>>

WriteFails ==
    /\ At("write") /\ current <= Len(opened)
    /\ OpenFails(Output) \/ Discard(Output)
    /\ GoTo("cleanup") /\ status' = 3

AllStaged ==
    /\ At("write") /\ current > Len(opened)
    /\ GoTo("publish") /\ UNCHANGED <<vars, status>>

PublishOutput ==
    /\ At("publish") /\ current <= Len(opened) /\ Publish(Output)
    /\ current' = current + 1 /\ UNCHANGED <<job, status>>

\* Mutant: the next output is published all the same.
PublishGoesOn ==
    /\ At("publish") /\ current <= Len(opened) /\ Discard(Output)
    /\ current' = current + 1 /\ status' = 3 /\ UNCHANGED job

PublishFails ==
    /\ At("publish") /\ current <= Len(opened) /\ Discard(Output)
    /\ GoTo("cleanup") /\ status' = 3

AllPublished ==
    /\ At("publish") /\ current > Len(opened)
    /\ GoTo("cleanup") /\ status' = 0 /\ UNCHANGED vars

Left == {o \in Outputs : writer[o] \in {"open", "ready"}}

\* output_file_discard of every output.
Clean ==
    /\ At("cleanup")
    /\ IF Left = {} THEN job' = "done" /\ UNCHANGED vars
       ELSE job' = job /\ \E o \in Left : Discard(o)
    /\ UNCHANGED <<current, status>>

GiveUpLink ==
    /\ At("failed") /\ GoTo("cleanup") /\ UNCHANGED <<vars, status>>

LinkerNext ==
    \/ Parse \/ Reject
    \/ DoOutput \/ DoCopy \/ DoPad \/ SkipRam \/ DoBank
    \/ DoLink \/ ReadObject \/ ReadFails \/ Translate
    \/ Protect \/ Prepare \/ LayoutFails \/ LayOut
    \/ OpenOutput \/ CloseOutput \/ WriteFails
    \/ AllStaged \/ PublishOutput \/ PublishFails \/ AllPublished
    \/ Clean \/ GiveUpLink

\* One thread runs main to its end.
LinkerSpec == LinkerInit /\ [][LinkerNext]_linkerVars /\ WF_linkerVars(LinkerNext)

-----------------------------------------------------------------------------
(* Properties *)

Destinations == {opened[i].file : i \in 1..Len(opened)}

\* The exit status tells what is on disk: 0, every output is new; 3, the outputs
\* published before the failure are new and the rest as they were; 1, nothing has
\* changed.  Before that, nothing is published until everything is staged, and no
\* temporary is left behind (xlnk.c:433-454, 474).  The documents say otherwise of a
\* script that fails after its first output: README:199 has each file published when
\* the script switches outputs, and xorcyst.texinfo:1537 has the earlier ones remain in
\* place; in the code a failure to read, to lay out or to write leaves them all as they
\* were, and earlier files remain only if publishing itself fails.
StatusTellsDisk ==
    /\ \A o \in Outputs : dest[o] # before[o] =>
          /\ o \in Destinations /\ dest[o] = "new"
          /\ \A p \in Destinations : writer[p] \in {"ready", "published"} \/ job \in {"cleanup", "done"}
    /\ job = "done" =>
          /\ \A o \in Outputs : temp[o] = "none"
          /\ CASE status = 0 -> \A o \in Destinations : dest[o] = "new"
               [] status = 1 -> dest = before
               [] OTHER -> \E n \in 0..(Len(opened) - 1) : \A i \in 1..Len(opened) :
                              IF i <= n THEN dest[opened[i].file] = "new"
                              ELSE dest[opened[i].file] = before[opened[i].file]

\* No output ever takes the place of the script, of an object or of a copied file,
\* and no two outputs are one file once they are written (xlnk.c:192-221, 158-191).
\* README:201 and xorcyst.texinfo:1535 speak of copied files "replaced by earlier
\* output commands": in the code such a script is refused, whichever command comes first.
InputsSurvive ==
    LET read == {script.name} \cup {c.file : c \in {k \in Range(Commands) : k.cmd \in {"LINK", "COPY"}}}
    IN  /\ \A f \in read : dest[f] = before[f] /\ temp[f] = "none"
        /\ job \in {"write", "publish"} => Cardinality(Destinations) = Len(opened)

\* Which output a fragment goes to (0: before the first).
OutputOf(f) == Cardinality({i \in 1..Len(opened) : opened[i].boundary <= f})

\* The output a command writes to: the last one opened before it.
CountBefore(c, cmd) == Cardinality({k \in 1..(c - 1) : Commands[k].cmd = cmd})
OutputAt(c) == CountBefore(c, "OUTPUT") + IF script.default = "NONE" THEN 0 ELSE 1

\* The items of a command: those of its object, or of the copied file.
SizeOf(f) == CASE f.kind = "RAW" -> f.size [] f.kind = "DATA" -> Len(f.fixups) [] OTHER -> 1
ObjectItems(o, i) == FlattenSeq([f \in 1..Len(o.fragments) |-> Items(i, f, 1, SizeOf(o.fragments[f]))])
CommandItems(c) ==
    CASE Commands[c].cmd = "COPY" -> Items(0, c, 1, Commands[c].size)
      [] Commands[c].cmd = "LINK" -> ObjectItems(Objects[Commands[c].file], CountBefore(c, "LINK") + 1)
      [] OTHER                    -> <<>>

\* Each output receives the objects and copies of the commands between it and the
\* next, every item once and in order (xlnk.c:323-417, 435-447; ir/link.c:751-811).
OutputsHoldTheirPieces ==
    job = "write" => \A n \in 1..Len(opened) :
        FlattenSeq([f \in 1..Len(fragments) |-> IF OutputOf(f) = n THEN fragments[f].items ELSE <<>>])
            = FlattenSeq([c \in 1..Len(Commands) |-> IF OutputAt(c) = n THEN CommandItems(c) ELSE <<>>])

Finished == job \in {"write", "publish", "cleanup", "done"} /\ lengths # <<>> /\ Len(lengths) = Len(fragments)

\* xorcyst.texinfo:1506: when a bank is not full "the output is automatically padded
\* with zeroes so that the size of the output matches the given bank size": the
\* padding of a bank that lies in one output goes to that output.
BanksFillTheirOutput ==
    Finished => \A f \in 1..Len(fragments) :
        fragments[f].kind = "BANK_END" /\ lengths[f] > 0 =>
            LET b == CHOOSE x \in 1..f : /\ fragments[x].kind = "BANK"
                                         /\ \A y \in (x + 1)..f : fragments[y].kind # "BANK"
                held == {x \in b..(f - 1) : x = b \/ lengths[x] > 0}
            IN  (\A x \in held : OutputOf(x) = OutputOf(b)) => OutputOf(f) = OutputOf(b)

\* Every link ends.
LinkEnds == <>(job = "done")
=============================================================================
