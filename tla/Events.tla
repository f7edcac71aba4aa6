------------------------------- MODULE Events -------------------------------
(***************************************************************************)
(* The events a render reports and the order their handlers run in: first  *)
(* those of the event's own type, then those of the categories it belongs  *)
(* to, the narrower before the wider.                                      *)
(***************************************************************************)
EXTENDS Naturals, FiniteSets

Concrete ==
    {"PropsMarshaling", "RegistryLookup", "EntryGeneration", "TempEntryWrite",
     "CompBundling", "CompPropsInsufficient", "TransmitRenderedTemplate"}
Category == {"Development", "Failure", "Success", "Base"}

(* What is emitted beside, and is in no list. *)
Unlisted == {"AnonymousSource"}
Event == Concrete \cup Unlisted
EventType == Event \cup Category

(* The categories a type implements, from what it embeds. *)
Implements(t) ==
    {"Base"}
        \cup (IF t \in {"TransmitRenderedTemplate", "Success"} THEN {"Success"} ELSE {})
        \cup (IF t \in {"CompPropsInsufficient", "AnonymousSource", "Development"}
              THEN {"Development"} ELSE {})
        \cup (IF t \notin {"TransmitRenderedTemplate", "Success", "Base"} THEN {"Failure"} ELSE {})

(* init: the graph has an entry for every listed type and category. *)
Values == Concrete \cup Category
Graph(t) == {t} \cup Implements(t)
Narrower(a, b) == Cardinality(Graph(a)) > Cardinality(Graph(b))

(* DynamicAncestry: nothing for a type the graph does not have. *)
Ancestry == [t \in EventType |-> IF t \in Values THEN Graph(t) ELSE {}]

(* The status an event asks for. *)
HTTPCode(e) == IF "Success" \in Implements(e) THEN 200 ELSE 500

=============================================================================
