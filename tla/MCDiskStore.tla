----------------------------- MODULE MCDiskStore -----------------------------
(* Two cached entries of one component. *)
EXTENDS DiskStore

CONSTANT c
MCComponentOf == [k \in Key |-> c]
=============================================================================
