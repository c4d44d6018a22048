---------------------------- MODULE MCDependencies ----------------------------
(***************************************************************************)
(* Four paths beside the assembler's own in a file system where two names  *)
(* are links to one file or one path is a symbolic link, dangling or not,  *)
(* and others change names and contents twice.                             *)
(***************************************************************************)
EXTENDS Dependencies, TLC

CONSTANTS exe, src, inc, out, man, f0, f1, f2

Plain == exe :> exe @@ src :> src @@ inc :> inc @@ out :> out @@ man :> man
Bytes == f0 :> "a" @@ f1 :> "a" @@ f2 :> "b"
Holds(s, i, o, m) == exe :> f0 @@ src :> s @@ inc :> i @@ out :> o @@ man :> m

World(n, f) == [name |-> n, file |-> f, content |-> Bytes]

MCWorlds ==
    { World(Plain, Holds(f1, f2, Missing, Missing)),
      World(Plain, Holds(f1, Missing, f1, Missing)),
      World([Plain EXCEPT ![out] = inc], Holds(f1, Missing, Missing, f2)) }
=============================================================================
