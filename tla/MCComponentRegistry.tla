------------------------ MODULE MCComponentRegistry ------------------------
(* Two files of one name, Foo.tsx at the top and Foo.jsx in a directory in a   *)
(* directory.                                                                  *)
EXTENDS ComponentRegistry, TLC

MCDir == {"root", "d", "e"}
MCFile == {"tsx", "jsx"}
MCAbove == ("tsx" :> "root") @@ ("jsx" :> "e") @@ ("d" :> "root") @@ ("e" :> "d")
MCName == {"Foo", "Anon"}
MCNameOf == ("tsx" :> "Foo") @@ ("jsx" :> "Foo")
=============================================================================
