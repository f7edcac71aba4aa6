----------------------------- MODULE AtomicStore -----------------------------
(***************************************************************************)
(* What the disk cache promises of each entry, whatever ends an operation  *)
(* early: it is the artifact of one Put, or it is gone, or, where an entry *)
(* of the key was there already, it may be torn, of two of them, or a      *)
(* husk, a manifest without an artifact.  A fresh process sees every entry *)
(* that is there; a living one those it has indexed.                       *)
(***************************************************************************)
CONSTANTS Key, Art, None, Husk, Torn

VARIABLES value, visible

avars == <<value, visible>>

AtomicInit == value = [k \in Key |-> None] /\ visible = {}

Put(k, a) ==
    /\ value' = [value EXCEPT ![k] = a]
    /\ visible' = visible \cup {k}

(* What a Put that ends early leaves: nothing of its own where nothing was. *)
Remains(k) ==
    IF value[k] = None THEN {None}
    ELSE {value[k], Torn} \cup (IF value[k] \in {Husk, Torn} THEN Art ELSE {})

PutFails(k) ==
    /\ \E v \in Remains(k) : value' = [value EXCEPT ![k] = v]
    /\ UNCHANGED visible

(* Removal is best effort, but the entry is seen no more. *)
Drop(k) ==
    /\ k \in visible
    /\ visible' = visible \ {k}
    /\ \E v \in {None, Husk, Torn, value[k]} : value' = [value EXCEPT ![k] = v]

(* The process ends, perhaps in an operation on k, and another one starts. *)
RestartDuring(k) ==
    /\ \E v \in Remains(k) \cup (IF value[k] = None THEN {} ELSE {Husk}) :
           value' = [value EXCEPT ![k] = v]
    /\ visible' = {c \in Key : value'[c] # None}

AtomicNext ==
    \E k \in Key :
        \/ \E a \in Art : Put(k, a)
        \/ PutFails(k) \/ Drop(k) \/ RestartDuring(k)

AtomicSpec == AtomicInit /\ [][AtomicNext]_avars
=============================================================================
