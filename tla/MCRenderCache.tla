---------------------------- MODULE MCRenderCache ----------------------------
(* Instances of RenderCache small enough for TLC. *)
EXTENDS RenderCache, TLC

CONSTANTS page, part, own, lib, x, y

(* Components out of one file, which imports a library while it holds x. *)
OwnPath == [c \in Component |-> own]
LibWhileX == [f \in File |-> [v \in Content |->
                 IF f = own /\ v = x THEN {lib} ELSE {}]]

(* Components out of one file, which imports nothing. *)
NoImports == [f \in File |-> [v \in Content |-> {}]]

Goroutines == Permutations(Renderer) \cup Permutations(Fire)
=============================================================================
