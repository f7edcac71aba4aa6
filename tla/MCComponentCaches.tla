------------------------ MODULE MCComponentCaches ------------------------
(* A component that imports a style sheet in a directory; the component and an *)
(* export of it are rendered.  Adopt and Close, which no cache takes notice of, *)
(* end a behaviour here: they go on in MCComponentRegistry.                      *)
EXTENDS ComponentCaches, TLC

MCDir == {"root", "d"}
MCFile == {"tsx", "css"}
MCAbove == ("tsx" :> "root") @@ ("d" :> "root") @@ ("css" :> "d")
MCName == {"Foo", "Anon"}
MCNameOf == ("tsx" :> "Foo") @@ ("css" :> "none")
MCSelector == {"Foo", "Foo#Bar"}
MCFileNameOf == ("Foo" :> "Foo") @@ ("Foo#Bar" :> "Foo")
MCImports == ("tsx" :> {"css"}) @@ ("css" :> {})

Enough == Faultless /\ ~adopted /\ mu = "free"
=============================================================================
