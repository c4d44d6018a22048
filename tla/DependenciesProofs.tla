-------------------------- MODULE DependenciesProofs --------------------------
(***************************************************************************)
(* What the dependency tables promise, for any file system, any calls and  *)
(* any changes that others make meanwhile: a document vouches for what was *)
(* read, and outputs have been apart from inputs when they were compared.  *)
(***************************************************************************)
EXTENDS Dependencies, SequenceTheorems, TLAPS

States == Contents \cup {Missing}
Input  == [path : Paths, roles : SUBSET (Roles \cup {"producer"}), bytes : States]

DiskType ==
    /\ name \in [Paths -> DOMAIN file] /\ Names \cup Restless \subseteq DOMAIN file
    /\ file \in [DOMAIN file -> DOMAIN content \cup {Missing}]
    /\ content \in [DOMAIN content -> Contents]
    /\ Files \subseteq DOMAIN content /\ Missing \notin DOMAIN content

TableType ==
    /\ active \in BOOLEAN /\ failed \in BOOLEAN
    /\ inputs \in Seq(Input) /\ sources \in Seq(Paths) /\ outputs \in Seq(Paths)
    /\ manifestPath \in Paths \cup {NoPath}
    /\ job \in {"start", "calls", "open", "source", "output", "check", "write", "recheck", "stage", "done"}
    /\ at \in Nat \ {0}
    /\ left \in Seq(Paths \cup {NoPath})
    /\ job \in {"open", "source", "output"} => path \in Paths
    /\ job = "open" => role \in Roles \cup {"producer"}
    /\ since \in [Paths -> SUBSET States]
    /\ \A i, j \in 1 .. Len(inputs) : inputs[i].path = inputs[j].path => i = j

\* The file of a path as its reader got it, one entry per role.
Lists(s) == UNION {{<<e.path, r, e.bytes>> : r \in e.roles} : e \in Range(s)}

\* The table is what readers were given; the check that follows a document has found
\* every input it has come to in the state the document lists.
Snapshots ==
    /\ failed => job \in {"calls", "done"}
    /\ job = "start" => inputs = <<>> /\ consumed = {}
    /\ ~failed => Lists(inputs) = consumed
    /\ job \in {"recheck", "stage"} =>
          /\ listed = inputs
          /\ \A p \in Paths : State(p) \in since[p]
          /\ \A i \in 1 .. Len(inputs) :
                job = "stage" \/ i < at => inputs[i].bytes \in since[inputs[i].path]

\* The pairs of the history lead to one place, and every path leads where it leads.
Truthful ==
    /\ \A p, q : <<p, q>> \in together => p \in Paths /\ q \in Paths /\ Place(p) = Place(q)
    /\ \A p \in Paths : <<p, p>> \in together

Distant(p, q) == <<p, q>> \notin together /\ <<q, p>> \notin together

Planned == Range(outputs)

\* What the path at hand is compared with.
Against ==
    CASE job = "open"   -> {manifestPath} \cup Planned
      [] job = "source" -> Planned
      [] job = "output" -> {manifestPath} \cup Read \cup Planned
      [] OTHER          -> Read \cup Planned

\* Outputs are apart but for the path that is being compared.
Settled ==
    ~failed /\ job \in {"start", "calls", "open", "source", "output", "stage", "done"} =>
        \A o \in Planned \ {path} :
            \A q \in ({manifestPath} \cup Read \cup (Planned \ {o})) \ {path} : Distant(o, q)

\* The path of a call, or the manifest, is apart from what it has been compared with.
Passed ==
    /\ job \in {"start", "calls", "stage", "done"} => path = NoPath
    /\ job = "start" => outputs = <<>>
    /\ job \in {"open", "source", "output"} \/ (job = "write" /\ path # NoPath) =>
          \A q \in Against : q \in Range(left) \/ Distant(path, q)
    /\ job = "write" /\ path # NoPath => path = manifestPath

\* So are the outputs that a check has come to, the last of them but for what is left.
Checkpoint ==
    job \in {"check", "recheck"} =>
        \A j \in 1 .. Len(outputs) :
            /\ j = Turn - 1 => path = outputs[j]
            /\ j < Turn =>
                  /\ \A q \in {manifestPath} \cup Read :
                        (j = Turn - 1 /\ q \in Range(left)) \/ Distant(outputs[j], q)
                  /\ \A i \in 1 .. Len(outputs) : j < i =>
                        (j = Turn - 1 /\ outputs[i] \in Range(left)) \/ Distant(outputs[j], outputs[i])

\* A manifest that is written is apart from what is read; with outputs it is compared again.
ManifestApart ==
    job \in {"recheck", "stage"} /\ Document = "manifest" /\ manifestPath \notin Planned =>
        \A q \in Read \ Planned : Distant(manifestPath, q)

Separation    == Truthful /\ Settled /\ Passed /\ Checkpoint /\ ManifestApart
DependencyInv == DiskType /\ TableType /\ Snapshots /\ Separation
-----------------------------------------------------------------------------
(* Paths *)

\* Symmetric, whatever is compared.
LEMMA SameFileSymmetric == \A p, q : SameFile(p, q) <=> SameFile(q, p)
BY DEF SameFile

\* Two paths lead to one file exactly when they lead to one place.
LEMMA SameFileIs ==
    ASSUME DiskType, NEW p \in Paths, NEW q \in Paths
    PROVE  SameFile(p, q) <=> Place(p) = Place(q)
<1>1. p # NoPath /\ q # NoPath
  BY DependencyAssumption
<1> QED
  BY <1>1 DEF SameFile, Place

LEMMA NothingIsNoPath == \A p \in Paths : ~SameFile(p, NoPath) /\ ~SameFile(NoPath, p)
BY DependencyAssumption DEF SameFile

LEMMA StateType ==
    ASSUME DiskType, NEW p \in Paths
    PROVE  State(p) \in States
BY DEF DiskType, State, States

-----------------------------------------------------------------------------
(* Lists of paths *)

\* One after the other.
LEMMA JoinedPaths ==
    ASSUME NEW S, NEW s \in Seq(S), NEW t \in Seq(S)
    PROVE  s \o t \in Seq(S) /\ Range(s \o t) = Range(s) \cup Range(t)
<1>1. /\ s \o t \in Seq(S) /\ Len(s \o t) = Len(s) + Len(t)
      /\ \A i \in 1 .. Len(s) + Len(t) : (s \o t)[i] = IF i <= Len(s) THEN s[i] ELSE t[i - Len(s)]
  BY ConcatProperties
<1>2. /\ Len(s) \in Nat /\ Len(t) \in Nat
      /\ DOMAIN s = 1 .. Len(s) /\ DOMAIN t = 1 .. Len(t) /\ DOMAIN (s \o t) = 1 .. Len(s) + Len(t)
  BY <1>1
<1> DEFINE j == s \o t
<1>3. /\ DOMAIN j = 1 .. Len(s) + Len(t)
      /\ \A i \in 1 .. Len(s) + Len(t) : j[i] = IF i <= Len(s) THEN s[i] ELSE t[i - Len(s)]
  BY <1>1, <1>2
<1> HIDE DEF j
<1>4. ASSUME NEW x \in Range(j) PROVE x \in Range(s) \cup Range(t)
  <2>1. PICK i \in 1 .. Len(s) + Len(t) : x = j[i]
    BY <1>3, <1>4 DEF Range
  <2>2. CASE i <= Len(s)
    <3>1. i \in 1 .. Len(s) /\ x = s[i]
      BY <1>2, <1>3, <2>1, <2>2
    <3> QED
      BY <1>2, <3>1 DEF Range
  <2>3. CASE ~(i <= Len(s))
    <3>1. i - Len(s) \in 1 .. Len(t) /\ x = t[i - Len(s)]
      BY <1>2, <1>3, <2>1, <2>3
    <3> QED
      BY <1>2, <3>1 DEF Range
  <2> QED
    BY <2>2, <2>3
<1>5. ASSUME NEW x \in Range(s) PROVE x \in Range(j)
  <2>1. PICK i \in 1 .. Len(s) : x = s[i]
    BY <1>2, <1>5 DEF Range
  <2>2. i \in 1 .. Len(s) + Len(t) /\ j[i] = x
    BY <1>2, <1>3, <2>1
  <2> QED
    BY <1>3, <2>2 DEF Range
<1>6. ASSUME NEW x \in Range(t) PROVE x \in Range(j)
  <2>1. PICK i \in 1 .. Len(t) : x = t[i]
    BY <1>2, <1>6 DEF Range
  <2>2. i + Len(s) \in 1 .. Len(s) + Len(t) /\ ~(i + Len(s) <= Len(s)) /\ i + Len(s) - Len(s) = i
    BY <1>2, <2>1
  <2>3. j[i + Len(s)] = x
    BY <1>3, <2>1, <2>2
  <2> QED
    BY <1>3, <2>2, <2>3 DEF Range
<1> QED
  BY <1>1, <1>4, <1>5, <1>6 DEF j

\* One more in front.
LEMMA PrecededPaths ==
    ASSUME NEW S, NEW p \in S, NEW s \in Seq(S)
    PROVE  <<p>> \o s \in Seq(S) /\ Range(<<p>> \o s) = {p} \cup Range(s)
<1>1. <<p>> \in Seq(S) /\ Range(<<p>>) = {p}
  BY DEF Range
<1> DEFINE one == <<p>>
<1>2. one \in Seq(S) /\ Range(one) = {p}
  BY <1>1
<1> HIDE DEF one
<1>3. one \o s \in Seq(S) /\ Range(one \o s) = Range(one) \cup Range(s)
  BY <1>2, JoinedPaths
<1> QED
  BY <1>2, <1>3 DEF one

\* The first and the rest.
LEMMA HeadAndRest ==
    ASSUME NEW S, NEW s \in Seq(S), s # <<>>
    PROVE  /\ Head(s) \in S /\ Tail(s) \in Seq(S)
           /\ \A x \in Range(s) : x = Head(s) \/ x \in Range(Tail(s))
<1>1. /\ Head(s) = s[1] /\ Head(s) \in S /\ Tail(s) \in Seq(S)
      /\ Len(s) \in Nat /\ Len(s) >= 1 /\ Len(Tail(s)) = Len(s) - 1
      /\ \A i \in 1 .. Len(s) - 1 : Tail(s)[i] = s[i + 1]
  BY HeadTailProperties, EmptySeq
<1>2. DOMAIN s = 1 .. Len(s) /\ DOMAIN Tail(s) = 1 .. Len(s) - 1
  BY <1>1
<1>3. ASSUME NEW x \in Range(s), x # Head(s) PROVE x \in Range(Tail(s))
  <2>1. PICK i \in 1 .. Len(s) : x = s[i]
    BY <1>2, <1>3 DEF Range
  <2>2. i - 1 \in 1 .. Len(s) - 1 /\ i - 1 + 1 = i
    BY <1>1, <1>3, <2>1
  <2>3. Tail(s)[i - 1] = x
    BY <1>1, <2>1, <2>2
  <2> QED
    BY <1>2, <2>2, <2>3 DEF Range
<1> QED
  BY <1>1, <1>3

\* What lies behind a place.
LEMMA BehindPlace ==
    ASSUME NEW S, NEW s \in Seq(S), NEW k \in 1 .. Len(s)
    PROVE  /\ SubSeq(s, k + 1, Len(s)) \in Seq(S)
           /\ \A i \in 1 .. Len(s) : k < i => s[i] \in Range(SubSeq(s, k + 1, Len(s)))
<1> DEFINE t == SubSeq(s, k + 1, Len(s))
<1>1. Len(s) \in Nat /\ DOMAIN s = 1 .. Len(s) /\ \A i \in 1 .. Len(s) : s[i] \in S
  OBVIOUS
<1>2. t = [i \in 1 .. Len(s) - k |-> s[i + k]]
  <2>1. t = [i \in 1 .. (1 + Len(s)) - (k + 1) |-> s[i + (k + 1) - 1]]
    OBVIOUS
  <2>2. (1 + Len(s)) - (k + 1) = Len(s) - k /\ \A i \in 1 .. Len(s) - k : i + (k + 1) - 1 = i + k
    BY <1>1
  <2> QED
    BY <2>1, <2>2
<1> HIDE DEF t
<1>3. t \in Seq(S)
  <2>1. Len(s) - k \in Nat /\ \A i \in 1 .. Len(s) - k : s[i + k] \in S
    BY <1>1
  <2>2. t \in [1 .. Len(s) - k -> S]
    BY <1>2, <2>1
  <2> QED
    BY <2>1, <2>2, SeqDef
<1>4. ASSUME NEW i \in 1 .. Len(s), k < i PROVE s[i] \in Range(t)
  <2>1. i - k \in 1 .. Len(s) - k /\ i - k + k = i
    BY <1>1, <1>4
  <2>2. t[i - k] = s[i] /\ i - k \in DOMAIN t
    BY <1>2, <2>1
  <2> QED
    BY <2>2 DEF Range
<1> QED
  BY <1>3, <1>4 DEF t

-----------------------------------------------------------------------------
(* The table of inputs *)

LEMMA InputType ==
    ASSUME TableType
    PROVE  /\ Len(inputs) \in Nat /\ Entries = {inputs[i] : i \in 1 .. Len(inputs)}
           /\ \A i \in 1 .. Len(inputs) : inputs[i] \in Input /\ inputs[i].path \in Paths
<1>1. Len(inputs) \in Nat /\ DOMAIN inputs = 1 .. Len(inputs) /\ inputs \in [1 .. Len(inputs) -> Input]
  BY DEF TableType
<1>2. \A e \in Input : e.path \in Paths
  BY DEF Input
<1> QED
  BY <1>1, <1>2 DEF Entries, Range

LEMMA ListsMember ==
    ASSUME NEW s \in Seq(Input), NEW x
    PROVE  x \in Lists(s) <=> \E i \in 1 .. Len(s) : \E r \in s[i].roles : x = <<s[i].path, r, s[i].bytes>>
BY DEF Lists, Range

\* A new path: one more entry, taken from the file.
LEMMA RecordedNew ==
    ASSUME DiskType, TableType, NEW p \in Paths, NEW part \in Roles \cup {"producer"}, ~Known(p)
    PROVE  /\ Recorded(p, part) \in Seq(Input)
           /\ Len(Recorded(p, part)) = Len(inputs) + 1
           /\ \A i \in 1 .. Len(inputs) : Recorded(p, part)[i] = inputs[i] /\ inputs[i].path # p
           /\ Recorded(p, part)[Len(inputs) + 1] = [path |-> p, roles |-> {part}, bytes |-> State(p)]
<1> DEFINE e == [path |-> p, roles |-> {part}, bytes |-> State(p)]
<1>1. e \in Input
  BY StateType DEF Input
<1>2. Recorded(p, part) = Append(inputs, e)
  BY DEF Recorded
<1>3. \A i \in 1 .. Len(inputs) : inputs[i].path # p
  BY InputType DEF Known
<1> HIDE DEF e
<1>4. /\ Append(inputs, e) \in Seq(Input) /\ Len(Append(inputs, e)) = Len(inputs) + 1
      /\ \A i \in 1 .. Len(inputs) : Append(inputs, e)[i] = inputs[i]
      /\ Append(inputs, e)[Len(inputs) + 1] = e
  BY <1>1, AppendProperties DEF TableType
<1> QED
  BY <1>2, <1>3, <1>4 DEF e

\* A known path: its entry gets the role, and keeps what was read first.
LEMMA RecordedKnown ==
    ASSUME TableType, NEW p \in Paths, NEW part \in Roles \cup {"producer"}, Known(p)
    PROVE  /\ Recorded(p, part) \in Seq(Input)
           /\ Len(Recorded(p, part)) = Len(inputs)
           /\ \A i \in 1 .. Len(inputs) :
                 /\ Recorded(p, part)[i].path = inputs[i].path
                 /\ Recorded(p, part)[i].bytes = inputs[i].bytes
                 /\ Recorded(p, part)[i].roles =
                       IF inputs[i].path = p THEN inputs[i].roles \cup {part} ELSE inputs[i].roles
           /\ \E k \in 1 .. Len(inputs) : inputs[k].path = p /\ Served(p) = inputs[k].bytes
<1> DEFINE New(i) == IF inputs[i].path = p THEN [inputs[i] EXCEPT !.roles = @ \cup {part}] ELSE inputs[i]
<1>1. Recorded(p, part) = [i \in 1 .. Len(inputs) |-> New(i)]
  BY DEF Recorded
<1>2. \A i \in 1 .. Len(inputs) :
         /\ New(i) \in Input /\ New(i).path = inputs[i].path /\ New(i).bytes = inputs[i].bytes
         /\ New(i).roles = IF inputs[i].path = p THEN inputs[i].roles \cup {part} ELSE inputs[i].roles
  BY InputType DEF Input
<1> HIDE DEF New
<1>3. Recorded(p, part) \in Seq(Input) /\ Len(Recorded(p, part)) = Len(inputs)
  <2>1. Len(inputs) \in Nat /\ \A i \in 1 .. Len(inputs) : New(i) \in Input
    BY <1>2, InputType
  <2>2. Recorded(p, part) \in [1 .. Len(inputs) -> Input]
    BY <1>1, <2>1
  <2> QED
    BY <2>1, <2>2, SeqDef
<1>4. \E k \in 1 .. Len(inputs) : inputs[k].path = p /\ Served(p) = inputs[k].bytes
  <2>1. \E e \in Entries : e.path = p
    BY DEF Known
  <2>2. Entry(p) \in Entries /\ Entry(p).path = p
    BY <2>1 DEF Entry
  <2> QED
    BY <2>2, InputType DEF Served
<1> QED
  BY <1>1, <1>2, <1>3, <1>4

\* Either way the table says what the reader is given.
LEMMA RecordedLists ==
    ASSUME DiskType, TableType, NEW p \in Paths, NEW part \in Roles \cup {"producer"}
    PROVE  Lists(Recorded(p, part)) = Lists(inputs) \cup {<<p, part, Served(p)>>}
<1> DEFINE new == Recorded(p, part)
<1>1. inputs \in Seq(Input) /\ Len(inputs) \in Nat
  BY InputType DEF TableType
<1>2. CASE Known(p)
  <2>1. /\ new \in Seq(Input) /\ Len(new) = Len(inputs)
        /\ \A i \in 1 .. Len(inputs) :
              /\ new[i].path = inputs[i].path
              /\ new[i].bytes = inputs[i].bytes
              /\ new[i].roles = IF inputs[i].path = p THEN inputs[i].roles \cup {part} ELSE inputs[i].roles
    BY <1>2, RecordedKnown
  <2>2. PICK k \in 1 .. Len(inputs) : inputs[k].path = p /\ Served(p) = inputs[k].bytes
    BY <1>2, RecordedKnown
  <2> HIDE DEF new
  <2>3. \A i \in 1 .. Len(inputs) : inputs[i].path = p => i = k
    BY <2>2 DEF TableType
  <2>4. ASSUME NEW x PROVE x \in Lists(new) <=> x \in Lists(inputs) \/ x = <<p, part, Served(p)>>
    <3>1. x \in Lists(new) <=> \E i \in 1 .. Len(inputs) : \E r \in new[i].roles :
                                   x = <<new[i].path, r, new[i].bytes>>
      BY <2>1, ListsMember
    <3>2. x \in Lists(inputs) <=> \E i \in 1 .. Len(inputs) : \E r \in inputs[i].roles :
                                   x = <<inputs[i].path, r, inputs[i].bytes>>
      BY <1>1, ListsMember
    <3>3. ASSUME x \in Lists(new) PROVE x \in Lists(inputs) \/ x = <<p, part, Served(p)>>
      <4>1. PICK i \in 1 .. Len(inputs) : \E r \in new[i].roles : x = <<inputs[i].path, r, inputs[i].bytes>>
        BY <2>1, <3>1, <3>3
      <4>2. PICK r \in new[i].roles : x = <<inputs[i].path, r, inputs[i].bytes>>
        BY <4>1
      <4>3. r \in inputs[i].roles \/ (r = part /\ i = k)
        BY <2>1, <2>3
      <4> QED
        BY <2>2, <3>2, <4>2, <4>3
    <3>4. x \in Lists(inputs) => x \in Lists(new)
      BY <2>1, <3>1, <3>2
    <3>5. x = <<p, part, Served(p)>> => x \in Lists(new)
      <4>1. part \in new[k].roles /\ new[k].path = p /\ new[k].bytes = Served(p)
        BY <2>1, <2>2
      <4> QED
        BY <3>1, <4>1
    <3> QED
      BY <3>3, <3>4, <3>5
  <2> QED
    BY <2>4 DEF new
<1>3. CASE ~Known(p)
  <2>1. /\ new \in Seq(Input) /\ Len(new) = Len(inputs) + 1
        /\ \A i \in 1 .. Len(inputs) : new[i] = inputs[i]
        /\ new[Len(inputs) + 1] = [path |-> p, roles |-> {part}, bytes |-> State(p)]
    BY <1>3, RecordedNew
  <2>2. Served(p) = State(p)
    BY <1>3 DEF Served
  <2> HIDE DEF new
  <2>3. ASSUME NEW x PROVE x \in Lists(new) <=> x \in Lists(inputs) \/ x = <<p, part, Served(p)>>
    <3>1. x \in Lists(new) <=> \E i \in 1 .. Len(new) : \E r \in new[i].roles :
                                   x = <<new[i].path, r, new[i].bytes>>
      BY <2>1, ListsMember
    <3>2. x \in Lists(inputs) <=> \E i \in 1 .. Len(inputs) : \E r \in inputs[i].roles :
                                   x = <<inputs[i].path, r, inputs[i].bytes>>
      BY <1>1, ListsMember
    <3>3. /\ \A i \in 1 .. Len(new) : i \in 1 .. Len(inputs) \/ i = Len(inputs) + 1
          /\ Len(inputs) + 1 \in 1 .. Len(new) /\ 1 .. Len(inputs) \subseteq 1 .. Len(new)
      BY <1>1, <2>1
    <3>4. ASSUME x \in Lists(new) PROVE x \in Lists(inputs) \/ x = <<p, part, Served(p)>>
      <4>1. PICK i \in 1 .. Len(new) : \E r \in new[i].roles : x = <<new[i].path, r, new[i].bytes>>
        BY <3>1, <3>4
      <4>2. CASE i \in 1 .. Len(inputs)
        BY <2>1, <3>2, <4>1, <4>2
      <4>3. CASE i = Len(inputs) + 1
        BY <2>1, <2>2, <4>1, <4>3
      <4> QED
        BY <3>3, <4>2, <4>3
    <3>5. x \in Lists(inputs) => x \in Lists(new)
      BY <2>1, <3>1, <3>2, <3>3
    <3>6. x = <<p, part, Served(p)>> => x \in Lists(new)
      <4> DEFINE k == Len(inputs) + 1
      <4>1. part \in new[k].roles /\ new[k].path = p /\ new[k].bytes = Served(p) /\ k \in 1 .. Len(new)
        BY <2>1, <2>2, <3>3
      <4> HIDE DEF k
      <4> QED
        BY <3>1, <4>1
    <3> QED
      BY <3>4, <3>5, <3>6
  <2> QED
    BY <2>3 DEF new
<1> QED
  BY <1>2, <1>3

\* Its paths are the old ones and the one at hand, and stay distinct.
LEMMA RecordedType ==
    ASSUME DiskType, TableType, NEW p \in Paths, NEW part \in Roles \cup {"producer"}
    PROVE  /\ Recorded(p, part) \in Seq(Input)
           /\ \A i, j \in 1 .. Len(Recorded(p, part)) :
                 Recorded(p, part)[i].path = Recorded(p, part)[j].path => i = j
           /\ \A e \in Range(Recorded(p, part)) : e.path = p \/ \E d \in Entries : d.path = e.path
<1> DEFINE new == Recorded(p, part)
<1>1. Len(inputs) \in Nat /\ \A i \in 1 .. Len(inputs) : inputs[i] \in Entries
  BY InputType
<1>2. CASE Known(p)
  <2>1. /\ new \in Seq(Input) /\ Len(new) = Len(inputs)
        /\ \A i \in 1 .. Len(inputs) :
              /\ new[i].path = inputs[i].path
              /\ new[i].bytes = inputs[i].bytes
              /\ new[i].roles = IF inputs[i].path = p THEN inputs[i].roles \cup {part} ELSE inputs[i].roles
    BY <1>2, RecordedKnown
  <2> HIDE DEF new
  <2>2. \A i, j \in 1 .. Len(new) : new[i].path = new[j].path => i = j
    BY <2>1 DEF TableType
  <2>3. \A e \in Range(new) : \E i \in 1 .. Len(inputs) : e = new[i]
    BY <2>1 DEF Range
  <2>4. ASSUME NEW e \in Range(new) PROVE \E d \in Entries : d.path = e.path
    <3>1. PICK i \in 1 .. Len(inputs) : e = new[i]
      BY <2>3
    <3>2. inputs[i] \in Entries /\ inputs[i].path = e.path
      BY <1>1, <2>1, <3>1
    <3> QED
      BY <3>2
  <2> QED
    BY <2>1, <2>2, <2>4 DEF new
<1>3. CASE ~Known(p)
  <2>1. /\ new \in Seq(Input) /\ Len(new) = Len(inputs) + 1
        /\ \A i \in 1 .. Len(inputs) : new[i] = inputs[i] /\ inputs[i].path # p
        /\ new[Len(inputs) + 1] = [path |-> p, roles |-> {part}, bytes |-> State(p)]
    BY <1>3, RecordedNew
  <2> HIDE DEF new
  <2>2. \A i \in 1 .. Len(new) : i \in 1 .. Len(inputs) \/ i = Len(inputs) + 1
    BY <1>1, <2>1
  <2>3. new[Len(inputs) + 1].path = p
    BY <2>1
  <2>4. \A i, j \in 1 .. Len(new) : new[i].path = new[j].path => i = j
    BY <1>1, <2>1, <2>2, <2>3 DEF TableType
  <2>5. \A e \in Range(new) : \E i \in 1 .. Len(new) : e = new[i]
    BY <2>1 DEF Range
  <2>6. \A e \in Range(new) : e.path = p \/ \E d \in Entries : d.path = e.path
    BY <1>1, <2>1, <2>2, <2>3, <2>5
  <2> QED
    BY <2>1, <2>4, <2>6 DEF new
<1> QED
  BY <1>2, <1>3

\* What is read, and what outputs are compared with.
LEMMA ReadType ==
    ASSUME TableType
    PROVE  /\ ReadPaths \in Seq(Paths) /\ Range(ReadPaths) = Read /\ Read \subseteq Paths
           /\ Planned \subseteq Paths /\ Range(sources) \subseteq Paths
<1>1. /\ Len(inputs) \in Nat /\ Entries = {inputs[i] : i \in 1 .. Len(inputs)}
      /\ \A i \in 1 .. Len(inputs) : inputs[i].path \in Paths
  BY InputType
<1>2. sources \in Seq(Paths) /\ outputs \in Seq(Paths)
  BY DEF TableType
<1> DEFINE s == [i \in 1 .. Len(inputs) |-> inputs[i].path]
<1>3. s \in Seq(Paths) /\ Range(s) = {e.path : e \in Entries}
  <2>1. s \in [1 .. Len(inputs) -> Paths]
    BY <1>1
  <2>2. s \in Seq(Paths)
    BY <1>1, <2>1, SeqDef
  <2>3. Range(s) = {inputs[i].path : i \in 1 .. Len(inputs)}
    BY DEF Range
  <2> QED
    BY <1>1, <2>2, <2>3
<1>4. ReadPaths = s \o sources
  BY DEF ReadPaths
<1> HIDE DEF s
<1>5. s \o sources \in Seq(Paths) /\ Range(s \o sources) = Range(s) \cup Range(sources)
  BY <1>2, <1>3, JoinedPaths
<1>6. Range(sources) \subseteq Paths /\ Planned \subseteq Paths
  BY <1>2 DEF Range, Planned
<1>7. {e.path : e \in Entries} \subseteq Paths
  BY <1>1
<1> QED
  BY <1>3, <1>4, <1>5, <1>6, <1>7 DEF Read

-----------------------------------------------------------------------------
(* The history of the pairs *)

\* A pair that is found distinct has been apart at some moment.
LEMMA FoundDistant ==
    ASSUME DiskType, Truthful, NEW p \in Paths, NEW q \in Paths \cup {NoPath}, ~SameFile(p, q)
    PROVE  Distant(p, q)
<1>1. CASE q \in Paths
  BY <1>1, SameFileIs DEF Truthful, Distant
<1>2. CASE q = NoPath
  BY <1>2, DependencyAssumption DEF Truthful, Distant
<1> QED
  BY <1>1, <1>2

LEMMA DistantTurned == \A p, q : Distant(p, q) <=> Distant(q, p)
BY DEF Distant

LEMMA NotItself ==
    ASSUME Truthful, NEW p \in Paths
    PROVE  ~Distant(p, p)
BY DEF Truthful, Distant

\* Where nothing is begun anew and names are as they were, the history is as it was.
LEMMA DistantSame ==
    ASSUME UNCHANGED together
    PROVE  \A p, q : Distant(p, q)' <=> Distant(p, q)
BY DEF Distant

\* Beginning anew keeps the other pairs, and the history stays true.
LEMMA BegunAnew ==
    ASSUME Truthful, NEW ps, Anew(ps), UNCHANGED <<name, file>>
    PROVE  /\ Truthful'
           /\ \A p, q : p \notin ps /\ q \notin ps => (Distant(p, q)' <=> Distant(p, q))
<1>1. together' = {pr \in Paths \X Paths : IF {pr[1], pr[2]} \cap ps = {} THEN pr \in together
                                           ELSE Place(pr[1]) = Place(pr[2])}
  BY DEF Anew
<1>2. \A p : Place(p)' = Place(p)
  BY DEF Place
<1>3. \A p, q : <<p, q>> \in together' <=>
         /\ p \in Paths /\ q \in Paths
         /\ IF p \in ps \/ q \in ps THEN Place(p) = Place(q) ELSE <<p, q>> \in together
  <2>1. ASSUME NEW p, NEW q
        PROVE  <<p, q>> \in together' <=>
                 /\ p \in Paths /\ q \in Paths
                 /\ IF p \in ps \/ q \in ps THEN Place(p) = Place(q) ELSE <<p, q>> \in together
    <3>1. {p, q} \cap ps = {} <=> ~(p \in ps \/ q \in ps)
      OBVIOUS
    <3>2. <<p, q>> \in Paths \X Paths <=> p \in Paths /\ q \in Paths
      OBVIOUS
    <3>3. <<p, q>> \in together' <=>
             /\ <<p, q>> \in Paths \X Paths
             /\ IF {p, q} \cap ps = {} THEN <<p, q>> \in together ELSE Place(p) = Place(q)
      BY <1>1
    <3> QED
      BY <3>1, <3>2, <3>3
  <2> QED
    BY <2>1
<1>4. Truthful'
  BY <1>2, <1>3 DEF Truthful
<1>5. \A p, q : <<p, q>> \in together => p \in Paths /\ q \in Paths
  BY DEF Truthful
<1> QED
  BY <1>3, <1>4, <1>5 DEF Distant

\* Others change names: pairs part, and none comes back.
LEMMA PairsPart ==
    ASSUME Truthful, Watched
    PROVE  Truthful' /\ \A p, q : Distant(p, q) => Distant(p, q)'
<1>1. together' = {pr \in together : Place(pr[1])' = Place(pr[2])'}
  BY DEF Watched
<1>2. \A p, q : <<p, q>> \in together' <=> <<p, q>> \in together /\ Place(p)' = Place(q)'
  BY <1>1
<1> QED
  BY <1>2 DEF Truthful, Distant

-----------------------------------------------------------------------------
(* The invariant *)

LEMMA DependencyInit == Init => DependencyInv
<1> SUFFICES ASSUME Init PROVE DependencyInv
  OBVIOUS
<1>1. DiskType
  BY WorldAssumption DEF Init, DiskType
<1>2. inputs = <<>> /\ inputs \in Seq(Input) /\ Len(inputs) = 0
  BY DEF Init
<1>3. TableType
  <2>1. /\ since = [p \in Paths |-> {}] /\ at = 1 /\ job = "start" /\ manifestPath = NoPath
        /\ sources = <<>> /\ outputs = <<>> /\ left = <<>>
    BY DEF Init
  <2>2. since \in [Paths -> SUBSET States]
    BY <2>1
  <2>3. sources \in Seq(Paths) /\ outputs \in Seq(Paths) /\ left \in Seq(Paths \cup {NoPath})
    BY <2>1
  <2>4. \A i, j \in 1 .. Len(inputs) : inputs[i].path = inputs[j].path => i = j
    BY <1>2
  <2>5. manifestPath \in Paths \cup {NoPath} /\ at \in Nat \ {0} /\ job = "start"
    BY <2>1
  <2>6. active \in BOOLEAN /\ failed \in BOOLEAN
    BY DEF Init
  <2> QED
    BY <1>2, <2>2, <2>3, <2>4, <2>5, <2>6 DEF TableType
<1>4. Lists(inputs) = {}
  BY <1>2 DEF Lists, Range
<1>5. Snapshots
  BY <1>4 DEF Init, Snapshots
<1>6. Separation
  <2>1. \A p, q : <<p, q>> \in together <=> p \in Paths /\ q \in Paths /\ Place(p) = Place(q)
    BY DEF Init
  <2>2. Truthful
    BY <2>1 DEF Truthful
  <2>3. job = "start" /\ path = NoPath /\ outputs = <<>> /\ Planned = {}
    BY DEF Init, Planned, Range
  <2> QED
    BY <2>2, <2>3 DEF Separation, Settled, Passed, Checkpoint, ManifestApart
<1> QED
  BY <1>1, <1>3, <1>5, <1>6 DEF DependencyInv

\* What is apart stays apart while the tables and the control are as they were.
LEMMA SeparationStays ==
    ASSUME Separation, Truthful', \A p, q : Distant(p, q) => Distant(p, q)',
           UNCHANGED <<tables, failed, control, compared>>
    PROVE  Separation'
<1>1. /\ UNCHANGED <<inputs, sources, outputs, manifestPath, failed, job, at, path, left>>
      /\ Planned' = Planned /\ Read' = Read /\ Document' = Document /\ Turn' = Turn
  BY DEF tables, control, compared, Planned, Read, Entries, Document, Turn
<1>2. Against' = Against
  BY <1>1 DEF Against
<1>3. Settled'
  BY <1>1 DEF Separation, Settled
<1>4. Passed'
  BY <1>1, <1>2 DEF Separation, Passed
<1>5. Checkpoint'
  BY <1>1 DEF Separation, Checkpoint
<1>6. ManifestApart'
  BY <1>1 DEF Separation, ManifestApart
<1> QED
  BY <1>3, <1>4, <1>5, <1>6 DEF Separation

\* Others change the file system: what is watched keeps every state it goes through.
LEMMA OthersInv == DependencyInv /\ Others => DependencyInv'
<1> SUFFICES ASSUME DependencyInv, Others PROVE DependencyInv'
  OBVIOUS
<1> USE DEF DependencyInv
<1>1. /\ UNCHANGED <<tables, failed, control, compared, consumed>> /\ ~failed /\ job \notin {"start", "done"}
      /\ Watched
  BY DEF Others, Disturb
<1>2. DiskType'
  <2>1. CASE Rename
    BY <2>1 DEF Rename, DiskType
  <2>2. CASE \E f \in Range(file) \ {Missing} : Rewrite(f)
    <3>1. PICK f \in Range(file) \ {Missing} : Rewrite(f)
      BY <2>2
    <3>2. PICK c \in Contents : content' = [content EXCEPT ![f] = c]
      BY <3>1 DEF Rewrite
    <3> QED
      BY <3>1, <3>2 DEF Rewrite, DiskType
  <2> QED
    BY <2>1, <2>2 DEF Others
<1>3. \A p \in Paths : State(p)' \in States
  BY <1>2 DEF DiskType, State, States
<1>4. /\ since' \in [Paths -> SUBSET States]
      /\ job \in {"recheck", "stage"} => \A p \in Paths : since[p] \subseteq since'[p] /\ State(p)' \in since'[p]
  BY <1>1, <1>3 DEF Watched, TableType
<1>5. TableType'
  BY <1>1, <1>4 DEF TableType, tables, control, compared
<1>6. Snapshots'
  BY <1>1, <1>4, InputType DEF Snapshots, tables, control
<1>7. Truthful' /\ \A p, q : Distant(p, q) => Distant(p, q)'
  BY <1>1, PairsPart DEF Separation
<1>8. Separation'
  BY <1>1, <1>7, SeparationStays
<1> QED
  BY <1>2, <1>5, <1>6, <1>8

\* What a step that leaves the disk alone leaves alone.
LEMMA DiskStays ==
    ASSUME DiskType, UNCHANGED disk
    PROVE  /\ UNCHANGED <<name, file, content>> /\ DiskType'
           /\ \A p : State(p)' = State(p)
           /\ \A p, q : SameFile(p, q)' <=> SameFile(p, q)
BY DEF disk, DiskType, State, SameFile

LEMMA TruthStays ==
    ASSUME Truthful, UNCHANGED <<name, file, together>>
    PROVE  Truthful' /\ \A p, q : Distant(p, q)' <=> Distant(p, q)
BY DEF Truthful, Distant, Place

\* An error.
LEMMA FailsInv == DependencyInv /\ ~failed /\ Fails => DependencyInv'
<1> SUFFICES ASSUME DependencyInv, ~failed, Fails PROVE DependencyInv'
  OBVIOUS
<1> USE DEF DependencyInv
<1>1. /\ UNCHANGED <<disk, tables, at, listed, consumed, since, together>>
      /\ failed' = TRUE /\ job' \in {"calls", "done"} /\ path' = NoPath /\ left' = <<>>
  BY DEF Fails, Compares, ComparesNone, history
<1>2. DiskType' /\ UNCHANGED <<name, file>>
  BY <1>1, DiskStays
<1>3. TableType'
  BY <1>1 DEF TableType, tables
<1>4. Snapshots'
  BY <1>1 DEF Snapshots
<1>5. Truthful'
  BY <1>1, <1>2, TruthStays DEF Separation
<1>6. Separation'
  BY <1>1, <1>5 DEF Separation, Settled, Passed, Checkpoint, ManifestApart
<1> QED
  BY <1>2, <1>3, <1>4, <1>6

\* One more pair has been found apart.
LEMMA PairInv == DependencyInv /\ ComparePair => DependencyInv'
<1> SUFFICES ASSUME DependencyInv, ComparePair, ~Fails PROVE DependencyInv'
  BY FailsInv DEF ComparePair
<1> USE DEF DependencyInv
<1>1. /\ left # <<>> /\ ~SameFile(path, Head(left)) /\ left' = Tail(left) /\ ~failed
      /\ UNCHANGED <<disk, tables, failed, control, path, role, history>>
  BY DEF ComparePair
<1>2. /\ UNCHANGED <<inputs, sources, outputs, manifestPath, active, job, at, since, listed, consumed, together>>
      /\ Planned' = Planned /\ Read' = Read /\ Document' = Document /\ Turn' = Turn
  BY <1>1 DEF tables, control, history, Planned, Read, Entries, Document, Turn
<1>3. /\ Head(left) \in Paths \cup {NoPath} /\ left' \in Seq(Paths \cup {NoPath})
      /\ \A q \in Range(left) : q = Head(left) \/ q \in Range(left')
  BY <1>1, HeadAndRest DEF TableType
<1>4. DiskType' /\ UNCHANGED <<name, file>> /\ \A p : State(p)' = State(p)
  BY <1>1, DiskStays
<1>5. Truthful' /\ \A p, q : Distant(p, q)' <=> Distant(p, q)
  BY <1>2, <1>4, TruthStays DEF Separation
<1>6. path \in Paths => \A q \in Range(left) : q \in Range(left') \/ Distant(path, q)
  BY <1>1, <1>3, FoundDistant DEF Separation
<1>7. TableType'
  BY <1>1, <1>2, <1>3 DEF TableType
<1>8. Snapshots'
  BY <1>1, <1>2, <1>4 DEF Snapshots
<1>9. Settled'
  BY <1>1, <1>2, <1>5 DEF Separation, Settled
<1>10. Passed'
  <2>1. Against' = Against
    BY <1>2 DEF Against
  <2>2. ASSUME job \in {"open", "source", "output"} \/ (job = "write" /\ path # NoPath), NEW q \in Against
        PROVE  q \in Range(left') \/ Distant(path, q)
    <3>1. path \in Paths
      BY <2>2 DEF TableType, Separation, Passed
    <3>2. q \in Range(left) \/ Distant(path, q)
      BY <2>2 DEF Separation, Passed
    <3> QED
      BY <1>6, <3>1, <3>2
  <2> QED
    BY <1>1, <1>2, <1>5, <2>1, <2>2 DEF Separation, Passed
<1>11. Checkpoint'
  <2>1. ASSUME job \in {"check", "recheck"}, NEW j \in 1 .. Len(outputs), j < Turn, NEW q,
               (j = Turn - 1 /\ q \in Range(left)) \/ Distant(outputs[j], q)
        PROVE  (j = Turn - 1 /\ q \in Range(left')) \/ Distant(outputs[j], q)
    <3>1. outputs[j] \in Paths
      BY DEF TableType
    <3>2. j = Turn - 1 => path = outputs[j]
      BY <2>1 DEF Separation, Checkpoint
    <3> QED
      BY <1>6, <2>1, <3>1, <3>2
  <2> HIDE DEF DependencyInv
  <2>2. Checkpoint
    BY DEF DependencyInv, Separation
  <2> QED
    BY <1>1, <1>2, <1>5, <2>1, <2>2 DEF Checkpoint
<1>12. ManifestApart'
  BY <1>2, <1>5 DEF Separation, ManifestApart
<1> QED
  BY <1>4, <1>5, <1>7, <1>8, <1>9, <1>10, <1>11, <1>12 DEF Separation

\* The driver starts: its own executable is the first input.
LEMMA StartInv == DependencyInv /\ Start => DependencyInv'
<1> SUFFICES ASSUME DependencyInv, Start PROVE DependencyInv'
  OBVIOUS
<1> USE DEF DependencyInv
<1>1. /\ UNCHANGED <<disk, inputs, sources, outputs, failed, at, listed, consumed, since, together>>
      /\ job = "start" /\ job' \in {"calls", "open"} /\ outputs = <<>> /\ path = NoPath /\ ~failed
  BY DEF Start, history, Separation, Passed, Snapshots
<1>2. DiskType' /\ UNCHANGED <<name, file>>
  BY <1>1, DiskStays
<1>3. manifestPath' \in Paths \cup {NoPath} /\ Producer \in Paths
  BY DependencyAssumption DEF Start
<1>4. /\ job' = "calls" => path' = NoPath /\ left' = left
      /\ job' = "open" => path' = Producer /\ role' = "producer" /\ left' = <<manifestPath'>>
  BY <1>1 DEF Start, Compares
<1>5. left' \in Seq(Paths \cup {NoPath})
  <2>1. <<manifestPath'>> \in Seq(Paths \cup {NoPath})
    BY <1>3
  <2> QED
    BY <1>1, <1>4, <2>1 DEF TableType
<1>6. TableType'
  <2>1. active' \in BOOLEAN
    BY DEF Start
  <2> QED
    BY <1>1, <1>3, <1>4, <1>5, <2>1 DEF TableType
<1>7. Snapshots'
  BY <1>1 DEF Snapshots
<1>8. Truthful'
  BY <1>1, <1>2, TruthStays DEF Separation
<1>9. Planned' = {}
  BY <1>1 DEF Planned, Range
<1>10. job' = "open" => Against' = {manifestPath'} /\ Range(left') = {manifestPath'}
  BY <1>4, <1>9 DEF Against, Range
<1>11. Separation'
  BY <1>1, <1>4, <1>8, <1>9, <1>10 DEF Separation, Settled, Passed, Checkpoint, ManifestApart
<1> QED
  BY <1>2, <1>6, <1>7, <1>11

\* A call begins: its path is still to be compared with everything it is against.
LEMMA CallBegins ==
    ASSUME DependencyInv, NEW call \in {"open", "source", "output"}, NEW p \in Paths,
           NEW others \in Seq(Paths \cup {NoPath}), Calling(call, p, others), UNCHANGED tables,
           call = "open" => role' \in Roles,
           Against' \subseteq Range(others)
    PROVE  DependencyInv'
<1> USE DEF DependencyInv
<1>1. /\ UNCHANGED <<disk, failed, at, listed, consumed, since>> /\ Anew({p})
      /\ job = "calls" /\ ~failed /\ job' = call /\ path' = p /\ left' = others /\ path = NoPath
  BY DEF Calling, Compares, Separation, Passed
<1>2. DiskType' /\ UNCHANGED <<name, file>>
  BY <1>1, DiskStays
<1>3. UNCHANGED <<inputs, sources, outputs, manifestPath, active>> /\ Planned' = Planned /\ Read' = Read
  BY DEF tables, Planned, Read, Entries
<1>4. Truthful' /\ \A a, b : a \notin {p} /\ b \notin {p} => (Distant(a, b)' <=> Distant(a, b))
  BY <1>1, <1>2, BegunAnew DEF Separation
<1>5. TableType'
  BY <1>1, <1>3 DEF TableType
<1>6. Snapshots'
  BY <1>1, <1>3 DEF Snapshots
<1>7. Settled'
  <2> SUFFICES ASSUME NEW o \in Planned \ {p}, NEW q \in ({manifestPath} \cup Read \cup (Planned \ {o})) \ {p}
               PROVE  Distant(o, q)'
    BY <1>1, <1>3 DEF Settled
  <2>1. o # NoPath
    BY ReadType, DependencyAssumption
  <2>2. CASE q = NoPath
    BY <1>4, <2>2, DependencyAssumption DEF Truthful, Distant
  <2>3. CASE q # NoPath
    <3>1. Distant(o, q)
      BY <1>1, <2>1, <2>3 DEF Separation, Settled
    <3> QED
      BY <1>4, <3>1
  <2> QED
    BY <2>2, <2>3
<1>8. Passed'
  BY <1>1 DEF Passed
<1>9. Checkpoint' /\ ManifestApart'
  BY <1>1 DEF Checkpoint, ManifestApart
<1> QED
  BY <1>2, <1>4, <1>5, <1>6, <1>7, <1>8, <1>9 DEF Separation

LEMMA CallingInv ==
    DependencyInv /\ (OpenInput \/ ProtectComparison \/ PlanOutput) => DependencyInv'
<1> SUFFICES ASSUME DependencyInv, OpenInput \/ ProtectComparison \/ PlanOutput PROVE DependencyInv'
  OBVIOUS
<1>1. /\ UNCHANGED tables /\ Given \subseteq Paths /\ manifestPath \in Paths \cup {NoPath}
      /\ outputs \in Seq(Paths) /\ TableType
  BY DependencyAssumption DEF OpenInput, ProtectComparison, PlanOutput, Calling, DependencyInv, TableType
<1>2. Planned' = Planned /\ Read' = Read /\ manifestPath' = manifestPath
  BY <1>1 DEF tables, Planned, Read, Entries
<1> DEFINE Some == Paths \cup {NoPath}
           first == <<manifestPath>> \o outputs
           every == ReadPaths \o outputs
           all   == <<manifestPath>> \o every
<1>3. outputs \in Seq(Some) /\ manifestPath \in Some /\ Range(outputs) = Planned
  BY <1>1 DEF Planned
<1>4. ReadPaths \in Seq(Some) /\ Range(ReadPaths) = Read
  <2>1. ReadPaths \in Seq(Paths) /\ Range(ReadPaths) = Read
    BY <1>1, ReadType
  <2> QED
    BY <2>1
<1> HIDE DEF Some
<1>5. first \in Seq(Some) /\ Range(first) = {manifestPath} \cup Planned
  BY <1>3, PrecededPaths
<1>6. every \in Seq(Some) /\ Range(every) = Read \cup Planned
  BY <1>3, <1>4, JoinedPaths
<1> HIDE DEF every
<1>7. all \in Seq(Some) /\ Range(all) = {manifestPath} \cup (Read \cup Planned)
  BY <1>3, <1>6, PrecededPaths
<1> HIDE DEF first, all
<1>8. CASE \E p \in Given : Calling("open", p, first) /\ role' \in Roles
  <2>1. PICK p \in Paths : Calling("open", p, first) /\ role' \in Roles
    BY <1>1, <1>8
  <2>2. Against' \subseteq Range(first)
    BY <1>2, <1>5, <2>1 DEF Against, Calling
  <2> QED
    BY <1>1, <1>5, <2>1, <2>2, CallBegins DEF Some
<1>9. CASE \E p \in Given : Calling("source", p, outputs)
  <2>1. PICK p \in Paths : Calling("source", p, outputs)
    BY <1>1, <1>9
  <2>2. Against' \subseteq Range(outputs)
    BY <1>2, <1>3, <2>1 DEF Against, Calling
  <2> QED
    BY <1>1, <1>3, <2>1, <2>2, CallBegins DEF Some
<1>10. CASE \E p \in Given : Calling("output", p, all)
  <2>1. PICK p \in Paths : Calling("output", p, all)
    BY <1>1, <1>10
  <2>2. Against' \subseteq Range(all)
    BY <1>2, <1>7, <2>1 DEF Against, Calling
  <2> QED
    BY <1>1, <1>7, <2>1, <2>2, CallBegins DEF Some
<1> QED
  BY <1>8, <1>9, <1>10 DEF OpenInput, ProtectComparison, PlanOutput, first, every, all

\* A call returns: its path has been found apart from everything it is against.
LEMMA CallReturns ==
    ASSUME TableType, Separation, ~failed, job \in {"open", "source", "output"}, left = <<>>,
           path' = NoPath, UNCHANGED <<manifestPath, name, file, together>>, job' = "calls",
           \/ job \in {"open", "source"} /\ Planned' = Planned /\ Read' \subseteq Read \cup {path}
           \/ job = "output" /\ Planned' = {path} \cup Planned /\ Read' = Read
    PROVE  Separation'
<1>1. Range(left) = {} /\ path \in Paths
  BY DEF Range, TableType
<1>2. \A q \in Against : Distant(path, q)
  BY <1>1 DEF Separation, Passed
<1>3. /\ \A q \in Planned : Distant(path, q)
      /\ job = "output" => \A q \in {manifestPath} \cup Read : Distant(path, q)
  BY <1>2 DEF Against
<1>4. path \notin Planned
  BY <1>1, <1>3, NotItself DEF Separation
<1>5. Truthful' /\ \A p, q : Distant(p, q)' <=> Distant(p, q)
  BY TruthStays DEF Separation
<1>6. \A o \in Planned : \A q \in ({manifestPath} \cup Read \cup (Planned \ {o})) \ {path} : Distant(o, q)
  BY <1>4 DEF Separation, Settled
<1>7. \A o \in Planned : Distant(o, path)
  BY <1>3, DistantTurned
<1>8. Settled'
  <2> SUFFICES ASSUME NEW o \in Planned', NEW q \in {manifestPath} \cup Read' \cup (Planned' \ {o})
               PROVE  Distant(o, q)
    BY <1>5 DEF Settled
  <2>1. CASE o \in Planned
    <3>1. q = path \/ q \in ({manifestPath} \cup Read \cup (Planned \ {o})) \ {path}
      OBVIOUS
    <3> QED
      BY <1>6, <1>7, <2>1, <3>1
  <2>2. CASE o \notin Planned
    BY <1>3, <2>2
  <2> QED
    BY <2>1, <2>2
<1>9. Passed' /\ Checkpoint' /\ ManifestApart'
  BY DEF Passed, Checkpoint, ManifestApart
<1> QED
  BY <1>5, <1>8, <1>9 DEF Separation

LEMMA ReturnInv ==
    DependencyInv /\ (CaptureInput \/ ProtectSource \/ AddOutput) => DependencyInv'
<1> SUFFICES ASSUME DependencyInv, CaptureInput \/ ProtectSource \/ AddOutput PROVE DependencyInv'
  OBVIOUS
<1> USE DEF DependencyInv
<1>1. /\ UNCHANGED <<disk, active, manifestPath, at, listed, since, together>>
      /\ job \in {"open", "source", "output"} /\ ~failed /\ left = <<>>
      /\ job' = "calls" /\ path' = NoPath /\ left' = <<>>
  BY DEF CaptureInput, ProtectSource, AddOutput, Returning, Compares, ComparesNone
<1>2. DiskType' /\ UNCHANGED <<name, file>>
  BY <1>1, DiskStays
<1>3. path \in Paths /\ left' \in Seq(Paths \cup {NoPath})
  BY <1>1 DEF TableType
<1>4. CASE CaptureInput
  <2>1. /\ job = "open" /\ inputs' = Recorded(path, role) /\ UNCHANGED <<sources, outputs>>
        /\ consumed' = consumed \cup {<<path, role, Served(path)>>} /\ failed' \in BOOLEAN
        /\ role \in Roles \cup {"producer"}
    BY <1>4 DEF CaptureInput, Returning, TableType
  <2>2. /\ inputs' \in Seq(Input)
        /\ \A i, j \in 1 .. Len(inputs') : inputs'[i].path = inputs'[j].path => i = j
        /\ \A e \in Range(inputs') : e.path = path \/ \E d \in Entries : d.path = e.path
    BY <1>3, <2>1, RecordedType
  <2>3. Lists(inputs') = Lists(inputs) \cup {<<path, role, Served(path)>>}
    BY <1>3, <2>1, RecordedLists
  <2>4. TableType'
    BY <1>1, <1>3, <2>1, <2>2 DEF TableType
  <2>5. Snapshots'
    BY <1>1, <2>1, <2>3 DEF Snapshots
  <2>6. Planned' = Planned /\ Read' \subseteq Read \cup {path}
    BY <2>1, <2>2 DEF Planned, Read, Entries
  <2>7. Separation'
    BY <1>1, <1>2, <2>1, <2>6, CallReturns
  <2> QED
    BY <1>2, <2>4, <2>5, <2>7
<1>5. CASE ProtectSource
  <2>1. /\ job = "source" /\ UNCHANGED <<failed, inputs, outputs, consumed>>
        /\ sources' = IF path \in Range(sources) THEN sources ELSE <<path>> \o sources
    BY <1>5 DEF ProtectSource, Returning
  <2>2. sources' \in Seq(Paths) /\ Range(sources') \subseteq {path} \cup Range(sources)
    BY <1>3, <2>1, PrecededPaths DEF TableType
  <2>3. TableType'
    BY <1>1, <1>3, <2>1, <2>2 DEF TableType
  <2>4. Snapshots'
    BY <1>1, <2>1 DEF Snapshots
  <2>5. Planned' = Planned /\ Read' \subseteq Read \cup {path}
    BY <2>1, <2>2 DEF Planned, Read, Entries
  <2>6. Separation'
    BY <1>1, <1>2, <2>1, <2>5, CallReturns
  <2> QED
    BY <1>2, <2>3, <2>4, <2>6
<1>6. CASE AddOutput
  <2>1. /\ job = "output" /\ UNCHANGED <<failed, inputs, sources, consumed>> /\ outputs' = <<path>> \o outputs
    BY <1>6 DEF AddOutput, Returning
  <2>2. outputs' \in Seq(Paths) /\ Planned' = {path} \cup Planned
    BY <1>3, <2>1, PrecededPaths DEF TableType, Planned
  <2>3. TableType'
    BY <1>1, <1>3, <2>1, <2>2 DEF TableType
  <2>4. Snapshots'
    BY <1>1, <2>1 DEF Snapshots
  <2>5. Read' = Read
    BY <2>1 DEF Read, Entries
  <2>6. Separation'
    BY <1>1, <1>2, <2>1, <2>2, <2>5, CallReturns
  <2> QED
    BY <1>2, <2>3, <2>4, <2>6
<1> QED
  BY <1>4, <1>5, <1>6

\* The checks: inputs are read again, and each output is compared with the manifest,
\* what is read and the outputs behind it.
LEMMA CheckInv ==
    DependencyInv /\ (Conclude \/ BeginDocument \/ CheckInput \/ CheckOutput \/ Checked) => DependencyInv'
<1> SUFFICES ASSUME DependencyInv, Conclude \/ BeginDocument \/ CheckInput \/ CheckOutput \/ Checked
             PROVE  DependencyInv'
  OBVIOUS
<1> USE DEF DependencyInv
<1>1. UNCHANGED <<tables, disk, failed, listed, since, consumed>>
  BY DEF Conclude, BeginDocument, CheckInput, CheckOutput, Checked, Checking, Writing, history
<1>2. DiskType' /\ UNCHANGED <<name, file>> /\ \A p : State(p)' = State(p)
  BY <1>1, DiskStays
<1>3. /\ UNCHANGED <<inputs, sources, outputs, manifestPath, active>>
      /\ Planned' = Planned /\ Read' = Read
  BY <1>1 DEF tables, Planned, Read, Entries
<1>4. Len(inputs) \in Nat /\ at \in Nat /\ at >= 1 /\ Len(outputs) \in Nat
  BY InputType DEF TableType
<1>5. UNCHANGED together => Truthful' /\ \A p, q : Distant(p, q)' <=> Distant(p, q)
  BY <1>2, TruthStays DEF Separation
<1>6. CASE Conclude
  <2>1. job' = "done" /\ UNCHANGED <<at, together, path, left>> /\ job = "calls"
    BY <1>6 DEF Conclude, history, compared
  <2>2. TableType'
    BY <1>1, <1>3, <2>1 DEF TableType
  <2>3. Snapshots'
    BY <1>1, <1>3, <2>1 DEF Snapshots
  <2>4. Separation'
    BY <1>1, <1>3, <1>5, <2>1 DEF Separation, Settled, Passed, Checkpoint, ManifestApart
  <2> QED
    BY <1>2, <2>2, <2>3, <2>4
<1>7. CASE BeginDocument
  <2>1. job' = "check" /\ at' = 1 /\ UNCHANGED <<path, left>> /\ Anew(Range(outputs)) /\ job = "calls" /\ ~failed
    BY <1>7 DEF BeginDocument, Writing
  <2>2. TableType'
    BY <1>1, <1>3, <2>1 DEF TableType
  <2>3. Snapshots'
    BY <1>1, <1>3, <2>1 DEF Snapshots
  <2>4. Truthful'
    BY <1>2, <2>1, BegunAnew DEF Separation
  <2>5. Checkpoint'
    <3>1. \A j \in 1 .. Len(outputs) : ~(j < Turn') /\ j # Turn' - 1
      BY <1>3, <1>4, <2>1 DEF Turn
    <3> QED
      BY <1>3, <3>1 DEF Checkpoint
  <2>6. Separation'
    BY <2>1, <2>4, <2>5 DEF Separation, Settled, Passed, ManifestApart
  <2> QED
    BY <1>2, <2>2, <2>3, <2>6
<1>8. CASE CheckInput
  <2>1. /\ at' = at + 1 /\ UNCHANGED <<job, path, left, together, wanted>>
        /\ ~failed /\ job \in {"check", "recheck"}
        /\ at <= Len(inputs) /\ State(inputs[at].path) = inputs[at].bytes
    BY <1>8 DEF CheckInput, Checking, Writing, Changed
  <2>2. at \in 1 .. Len(inputs) /\ inputs[at].path \in Paths
    BY <1>4, <2>1, InputType
  <2>3. TableType'
    BY <1>1, <1>3, <1>4, <2>1 DEF TableType
  <2>4. Snapshots'
    <3>1. ASSUME job = "recheck", NEW i \in 1 .. Len(inputs), i < at + 1
          PROVE  inputs[i].bytes \in since[inputs[i].path]
      <4>1. CASE i = at
        BY <2>1, <2>2, <3>1, <4>1 DEF Snapshots
      <4>2. CASE i < at
        BY <3>1, <4>2 DEF Snapshots
      <4> QED
        BY <1>4, <3>1, <4>1, <4>2
    <3> QED
      BY <1>1, <1>2, <1>3, <2>1, <3>1 DEF Snapshots
  <2>5. Checkpoint'
    <3>1. \A j \in 1 .. Len(outputs) : ~(j < Turn') /\ j # Turn' - 1
      BY <1>3, <1>4, <2>1 DEF Turn
    <3> QED
      BY <1>3, <3>1 DEF Checkpoint
  <2>6. ManifestApart'
    BY <1>3, <1>5, <2>1 DEF Separation, ManifestApart, Document
  <2>7. Separation'
    BY <1>5, <2>1, <2>5, <2>6 DEF Separation, Settled, Passed
  <2> QED
    BY <1>2, <2>3, <2>4, <2>7
<1>9. CASE CheckOutput
  <2> DEFINE rest  == SubSeq(outputs, Turn + 1, Len(outputs))
             those == ReadPaths \o rest
  <2>1. /\ at' = at + 1 /\ UNCHANGED <<job, together, wanted>> /\ path' = outputs[Turn] /\ left = <<>>
        /\ ~failed /\ job \in {"check", "recheck"} /\ Turn \in 1 .. Len(outputs)
        /\ left' = <<manifestPath>> \o those
    BY <1>9 DEF CheckOutput, Checking, Writing, Compares
  <2> DEFINE Some == Paths \cup {NoPath}
  <2>2. outputs \in Seq(Some) /\ manifestPath \in Some
    BY DEF TableType
  <2>3. ReadPaths \in Seq(Some) /\ Range(ReadPaths) = Read
    <3>1. ReadPaths \in Seq(Paths) /\ Range(ReadPaths) = Read
      BY ReadType
    <3> QED
      BY <3>1
  <2> HIDE DEF Some
  <2>4. rest \in Seq(Some) /\ \A i \in 1 .. Len(outputs) : Turn < i => outputs[i] \in Range(rest)
    BY <2>1, <2>2, BehindPlace
  <2> HIDE DEF rest
  <2>5. those \in Seq(Some) /\ Range(those) = Read \cup Range(rest)
    BY <2>3, <2>4, JoinedPaths
  <2> HIDE DEF those
  <2>6. left' \in Seq(Some) /\ Range(left') = {manifestPath} \cup Range(those)
    BY <2>1, <2>2, <2>5, PrecededPaths
  <2>7. Turn' = Turn + 1 /\ Turn \in Int
    BY <1>3, <1>4, <2>1 DEF Turn
  <2>8. TableType'
    BY <1>1, <1>3, <1>4, <2>1, <2>6 DEF TableType, Some
  <2>9. Snapshots'
    <3>1. \A i \in 1 .. Len(inputs) : i < at
      BY <1>4, <2>1 DEF Turn
    <3> QED
      BY <1>1, <1>2, <1>3, <2>1, <3>1 DEF Snapshots
  <2>10. Checkpoint'
    <3>1. Range(left) = {}
      BY <2>1 DEF Range
    <3>2. ASSUME NEW j \in 1 .. Len(outputs), j < Turn + 1
          PROVE  /\ j = Turn => path' = outputs[j]
                 /\ \A q \in {manifestPath} \cup Read :
                       (j = Turn /\ q \in Range(left')) \/ Distant(outputs[j], q)
                 /\ \A i \in 1 .. Len(outputs) : j < i =>
                       (j = Turn /\ outputs[i] \in Range(left')) \/ Distant(outputs[j], outputs[i])
      <4>1. CASE j = Turn
        BY <2>1, <2>4, <2>5, <2>6, <4>1
      <4>2. CASE j < Turn
        BY <2>1, <3>1, <4>2 DEF Separation, Checkpoint
      <4> QED
        BY <2>7, <3>2, <4>1, <4>2
    <3>3. Turn' - 1 = Turn
      BY <2>7
    <3>4. \A j \in 1 .. Len(outputs) : j = Turn => j < Turn + 1
      BY <2>7
    <3> QED
      BY <1>3, <1>5, <2>1, <2>7, <3>2, <3>3, <3>4 DEF Checkpoint
  <2>11. ManifestApart'
    BY <1>3, <1>5, <2>1 DEF Separation, ManifestApart, Document
  <2>12. Separation'
    BY <1>5, <2>1, <2>10, <2>11 DEF Separation, Settled, Passed
  <2> QED
    BY <1>2, <2>8, <2>9, <2>12
<1>10. CASE Checked
  <2>1. /\ UNCHANGED <<at, wanted>> /\ path' = NoPath /\ left' = <<>> /\ left = <<>>
        /\ ~failed /\ Turn > Len(outputs)
        /\ \/ job = "check" /\ job' = "write" /\ Anew({manifestPath})
           \/ job = "recheck" /\ job' = "stage" /\ UNCHANGED together
    BY <1>10 DEF Checked, Checking, Writing, Compares, ComparesNone
  <2>2. TableType'
    BY <1>1, <1>3, <2>1 DEF TableType
  <2>3. Snapshots'
    <3>1. \A i \in 1 .. Len(inputs) : i < at
      BY <1>4, <2>1 DEF Turn
    <3> QED
      BY <1>1, <1>2, <1>3, <2>1, <3>1 DEF Snapshots
  <2>4. CASE job = "check"
    <3>1. Truthful'
      BY <1>2, <2>1, <2>4, BegunAnew DEF Separation
    <3>2. Separation'
      BY <2>1, <2>4, <3>1 DEF Separation, Settled, Passed, Checkpoint, ManifestApart
    <3> QED
      BY <1>2, <2>2, <2>3, <3>2
  <2>5. CASE job = "recheck"
    <3>1. /\ \A j \in 1 .. Len(outputs) :
               /\ \A q \in {manifestPath} \cup Read : Distant(outputs[j], q)
               /\ \A i \in 1 .. Len(outputs) : j < i => Distant(outputs[j], outputs[i])
      <4>1. Range(left) = {} /\ \A j \in 1 .. Len(outputs) : j < Turn
        BY <1>4, <2>1 DEF Range, Turn
      <4> QED
        BY <2>5, <4>1 DEF Separation, Checkpoint
    <3>2. ASSUME NEW o \in Planned, NEW q \in {manifestPath} \cup Read \cup (Planned \ {o})
          PROVE  Distant(o, q)
      <4>1. PICK j \in 1 .. Len(outputs) : o = outputs[j]
        BY DEF Planned, Range, TableType
      <4>2. CASE q \in {manifestPath} \cup Read
        BY <3>1, <4>1, <4>2
      <4>3. CASE q \in Planned \ {o}
        <5>1. PICK i \in 1 .. Len(outputs) : q = outputs[i]
          BY <4>3 DEF Planned, Range, TableType
        <5>2. j < i \/ i < j
          BY <1>4, <4>1, <4>3, <5>1
        <5> QED
          BY <3>1, <4>1, <5>1, <5>2, DistantTurned
      <4> QED
        BY <4>2, <4>3
    <3>3. Settled'
      BY <1>3, <1>5, <2>1, <2>5, <3>2 DEF Settled
    <3>4. ManifestApart'
      BY <1>3, <1>5, <2>1, <2>5 DEF Separation, ManifestApart, Document
    <3>5. Separation'
      BY <1>5, <2>1, <2>5, <3>3, <3>4 DEF Separation, Passed, Checkpoint
    <3> QED
      BY <1>2, <2>2, <2>3, <3>5
  <2> QED
    BY <2>1, <2>4, <2>5
<1> QED
  BY <1>6, <1>7, <1>8, <1>9, <1>10

\* The manifest is compared, the document is written and staged.
LEMMA WriteInv ==
    DependencyInv /\ (CompareManifest \/ WriteDocument \/ StageDocument) => DependencyInv'
<1> SUFFICES ASSUME DependencyInv, CompareManifest \/ WriteDocument \/ StageDocument
             PROVE  DependencyInv'
  OBVIOUS
<1> USE DEF DependencyInv
<1>1. UNCHANGED <<tables, disk, failed, consumed>> /\ ~failed
  BY DEF CompareManifest, WriteDocument, StageDocument, Writing
<1>2. DiskType' /\ UNCHANGED <<name, file>> /\ \A p : State(p)' = State(p)
  BY <1>1, DiskStays
<1>3. /\ UNCHANGED <<inputs, sources, outputs, manifestPath, active>>
      /\ Planned' = Planned /\ Read' = Read
  BY <1>1 DEF tables, Planned, Read, Entries
<1>4. Len(inputs) \in Nat /\ Len(outputs) \in Nat
  BY InputType DEF TableType
<1>5. UNCHANGED together => Truthful' /\ \A p, q : Distant(p, q)' <=> Distant(p, q)
  BY <1>2, TruthStays DEF Separation
<1>6. at' = 1 => \A j \in 1 .. Len(outputs) : ~(j < Turn') /\ j # Turn' - 1
  BY <1>3, <1>4 DEF Turn
<1>7. CASE CompareManifest
  <2> DEFINE those == ReadPaths \o outputs
             Some == Paths \cup {NoPath}
  <2>1. /\ job = "write" /\ path = NoPath /\ path' = manifestPath /\ left' = those
        /\ UNCHANGED <<wanted, job, at, listed, since, together>>
    BY <1>7 DEF CompareManifest, Compares
  <2>2. outputs \in Seq(Some) /\ Range(outputs) = Planned
    BY DEF TableType, Planned
  <2>3. ReadPaths \in Seq(Some) /\ Range(ReadPaths) = Read
    <3>1. ReadPaths \in Seq(Paths) /\ Range(ReadPaths) = Read
      BY ReadType
    <3> QED
      BY <3>1
  <2> HIDE DEF Some
  <2>4. those \in Seq(Some) /\ Range(those) = Read \cup Planned
    BY <2>2, <2>3, JoinedPaths
  <2> HIDE DEF those
  <2>5. TableType'
    BY <1>1, <1>3, <2>1, <2>4 DEF TableType, Some
  <2>6. Snapshots'
    BY <1>1, <1>3, <2>1 DEF Snapshots
  <2>7. Against' = Range(left')
    BY <1>3, <2>1, <2>4 DEF Against
  <2>8. Passed'
    <3>1. job' = "write" /\ path' = manifestPath'
      BY <1>3, <2>1
    <3> QED
      BY <2>7, <3>1 DEF Passed
  <2>9. Separation'
    BY <1>5, <2>1, <2>8 DEF Separation, Settled, Checkpoint, ManifestApart
  <2> QED
    BY <1>2, <2>5, <2>6, <2>9
<1>8. CASE WriteDocument
  <2>1. /\ job = "write" /\ left = <<>> /\ (Document = "manifest" => path # NoPath)
        /\ job' = "recheck" /\ at' = 1 /\ listed' = inputs /\ path' = NoPath /\ left' = <<>>
        /\ since' = [p \in Paths |-> {State(p)}] /\ Anew(Range(outputs)) /\ UNCHANGED wanted
    BY <1>8 DEF WriteDocument, Writing, Compares, ComparesNone
  <2>2. since' \in [Paths -> SUBSET States] /\ \A p \in Paths : State(p)' \in since'[p]
    BY <1>2, <2>1, StateType
  <2>3. TableType'
    BY <1>1, <1>3, <2>1, <2>2 DEF TableType
  <2>4. Snapshots'
    <3>1. \A i \in 1 .. Len(inputs) : ~(i < 1)
      BY InputType
    <3> QED
      BY <1>1, <1>2, <1>3, <2>1, <2>2, <3>1 DEF Snapshots
  <2>5. /\ Truthful'
        /\ \A p, q : p \notin Planned /\ q \notin Planned => (Distant(p, q)' <=> Distant(p, q))
    BY <1>2, <2>1, BegunAnew DEF Separation, Planned
  <2>6. ManifestApart'
    <3> SUFFICES ASSUME Document = "manifest", manifestPath \notin Planned, NEW q \in Read \ Planned
                 PROVE  Distant(manifestPath, q)'
      BY <1>3, <2>1 DEF ManifestApart, Document
    <3>1. path # NoPath /\ path = manifestPath /\ Range(left) = {}
      BY <2>1 DEF Separation, Passed, Range
    <3>2. q \in Against
      BY <2>1 DEF Against
    <3>3. Distant(path, q)
      BY <2>1, <3>1, <3>2 DEF Separation, Passed
    <3> QED
      BY <1>3, <2>5, <3>1, <3>3
  <2>7. Checkpoint'
    BY <1>3, <1>6, <2>1 DEF Checkpoint
  <2>8. Separation'
    BY <2>1, <2>5, <2>6, <2>7 DEF Separation, Settled, Passed
  <2> QED
    BY <1>2, <2>3, <2>4, <2>8
<1>9. CASE StageDocument
  <2>1. /\ job = "stage" /\ at' = 1 /\ since' = [p \in Paths |-> {}] /\ UNCHANGED <<listed, path, left>>
        /\ \/ job' = "done" /\ UNCHANGED together
           \/ job' = "check" /\ Anew(Range(outputs))
    BY <1>9 DEF StageDocument
  <2>2. TableType'
    <3>1. since' \in [Paths -> SUBSET States]
      BY <2>1
    <3> QED
      BY <1>1, <1>3, <2>1, <3>1 DEF TableType
  <2>3. Snapshots'
    BY <1>1, <1>3, <2>1 DEF Snapshots
  <2>4. CASE job' = "done"
    <3>1. Separation'
      BY <1>1, <1>3, <1>5, <2>1, <2>4 DEF Separation, Settled, Passed, Checkpoint, ManifestApart
    <3> QED
      BY <1>2, <2>2, <2>3, <3>1
  <2>5. CASE job' = "check"
    <3>1. Truthful'
      BY <1>2, <2>1, <2>5, BegunAnew DEF Separation
    <3>2. Checkpoint'
      BY <1>3, <1>6, <2>1 DEF Checkpoint
    <3>3. Separation'
      BY <2>5, <3>1, <3>2 DEF Separation, Settled, Passed, ManifestApart
    <3> QED
      BY <1>2, <2>2, <2>3, <3>3
  <2> QED
    BY <2>1, <2>4, <2>5
<1> QED
  BY <1>7, <1>8, <1>9

LEMMA DependencyStep == DependencyInv /\ [Next]_dependencyVars => DependencyInv'
<1>1. ASSUME DependencyInv, UNCHANGED dependencyVars
      PROVE  DependencyInv'
  <2>1. UNCHANGED <<disk, tables, failed, control, compared, history>>
    BY <1>1 DEF dependencyVars
  <2>2. UNCHANGED <<consumed, since, together>>
    BY <2>1 DEF history
  <2>3. DiskType' /\ UNCHANGED <<name, file>> /\ \A p : State(p)' = State(p)
    BY <1>1, <2>1, DiskStays DEF DependencyInv
  <2>4. Truthful' /\ \A p, q : Distant(p, q)' <=> Distant(p, q)
    BY <1>1, <2>2, <2>3, TruthStays DEF DependencyInv, Separation
  <2>5. Separation'
    BY <1>1, <2>1, <2>4, SeparationStays DEF DependencyInv
  <2>6. TableType'
    BY <1>1, <2>1, <2>2 DEF DependencyInv, TableType, tables, control, compared
  <2>7. Snapshots'
    BY <1>1, <2>1, <2>2, <2>3 DEF DependencyInv, Snapshots, tables, control
  <2> QED
    BY <2>3, <2>5, <2>6, <2>7 DEF DependencyInv
<1>2. ASSUME DependencyInv, CallFails \/ CheckFails \/ DocumentFails
      PROVE  DependencyInv'
  BY <1>2, FailsInv DEF CallFails, CheckFails, DocumentFails
<1> QED
  BY <1>1, <1>2, OthersInv, PairInv, StartInv, CallingInv, ReturnInv, CheckInv, WriteInv DEF Next

LEMMA DependencyAlways == Spec => []DependencyInv
BY DependencyInit, DependencyStep, PTL DEF Spec

-----------------------------------------------------------------------------
(* What the tables promise *)

\* A staged document lists what readers were given, each file in a state it had after
\* the document was written: for any number of inputs and of changes by others
\* (capture, dependencies_validate, dependencies_write).
THEOREM ListedAsRead == Spec => []DocumentVouchesForInputs
<1>1. ASSUME DependencyInv
      PROVE  DocumentVouchesForInputs
  <2>1. SUFFICES ASSUME job = "stage" PROVE DocumentVouchesForInputs
    BY DEF DocumentVouchesForInputs
  <2>2. listed = inputs /\ Lists(inputs) = consumed
    BY <1>1, <2>1 DEF DependencyInv, Snapshots
  <2>3. Listing = consumed
    BY <2>2 DEF Listing, Lists
  <2>4. ASSUME NEW e \in Range(listed) PROVE e.bytes \in since[e.path]
    <3>1. PICK i \in 1 .. Len(inputs) : e = inputs[i]
      BY <1>1, <2>2, <2>4, InputType DEF DependencyInv, Entries
    <3> QED
      BY <1>1, <2>1, <3>1 DEF DependencyInv, Snapshots
  <2> QED
    BY <2>3, <2>4 DEF DocumentVouchesForInputs
<1> QED
  BY <1>1, DependencyAlways, PTL

\* Outputs have been apart from every input, the manifest and every other output since
\* the call or the check that compares them began, however files are linked, in whatever
\* order paths are announced and whatever others rename between two comparisons
\* (dependencies_output, capture, dependencies_protect_source, dependencies_validate,
\* dependencies_write).
THEOREM NothingReadIsOverwritten == Spec => []OutputsApart
<1>1. ASSUME DependencyInv
      PROVE  OutputsApart
  <2> SUFFICES ASSUME ~failed, path = NoPath, job \notin {"check", "write", "recheck"}
               PROVE  OutputsApart
    BY DEF OutputsApart
  <2>1. /\ Planned \subseteq Paths /\ Read \subseteq Paths
        /\ manifestPath \in Paths \cup {NoPath} /\ NoPath \notin Paths
        /\ job \in {"start", "calls", "open", "source", "output", "stage", "done"}
    BY <1>1, ReadType, DependencyAssumption DEF DependencyInv, TableType
  <2>2. \A p : ~(<<p, NoPath>> \in together) /\ ~(<<NoPath, p>> \in together)
    BY <1>1, <2>1 DEF DependencyInv, Separation, Truthful
  <2>3. ASSUME NEW o \in Planned, NEW q \in Read \cup {manifestPath} \cup (Planned \ {o})
        PROVE  Distant(o, q)
    <3>1. CASE q = NoPath
      BY <2>2, <3>1 DEF Distant
    <3>2. CASE q # NoPath
      BY <1>1, <2>1, <3>2 DEF DependencyInv, Separation, Settled
    <3> QED
      BY <3>1, <3>2
  <2>4. ASSUME job = "stage", Document = "manifest", NEW q \in Read \cup Planned
        PROVE  Distant(manifestPath, q)
    <3>1. manifestPath \notin Planned
      BY <1>1, <2>1, <2>3, NotItself DEF DependencyInv, Separation
    <3>2. CASE q \in Planned
      BY <2>3, <3>2, DistantTurned
    <3>3. CASE q \in Read \ Planned
      BY <1>1, <2>4, <3>1, <3>3 DEF DependencyInv, Separation, ManifestApart
    <3> QED
      BY <3>2, <3>3
  <2> QED
    BY <2>3, <2>4 DEF OutputsApart, Apart, Distant, Planned
<1> QED
  BY <1>1, DependencyAlways, PTL
=============================================================================
