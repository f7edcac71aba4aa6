-------------------------- MODULE ComponentCaches --------------------------
(***************************************************************************)
(* What is rendered of the registry's components: a render from Lookup to  *)
(* the caches, the index of what each component was built from, and the    *)
(* invalidation that the registry's onTouch and onDrop are.                *)
(*                                                                         *)
(* An artifact is the component's file it was built from; what its sources *)
(* held at the time is remembered as its age.  `cached' is what memory     *)
(* answers, or disk for an artifact this process put there; `former' is    *)
(* what a former process left on disk, which answers until one of its      *)
(* sources changes.  A change is to what no file held before.              *)
(*                                                                         *)
(* One render is under way at a time; RenderCache has several.             *)
(***************************************************************************)
EXTENDS ComponentRegistry

CONSTANTS
    Selector,     \* a component's name, or that of one of its exports
    FileNameOf,   \* the component's name in a selector
    Imports       \* what the bundle of each file has beside the file

ASSUME SelectorAssumption ==
    /\ FileNameOf \in [Selector -> Name \ {Inline}]
    /\ \A s \in Selector \cap Name : FileNameOf[s] = s
    /\ Imports \in [File -> SUBSET File]

VARIABLES
    cached, age,      \* the artifact cached for a selector, how old it is
    former,           \* that on disk since a former process
    index,            \* the dependency index: selector and source
    at, chosen,       \* where the render is and its selector
    held, heldAge,    \* the file it was given or built from
    unread            \* the sources it has yet to read

store == <<cached, age, former>>
render == <<at, chosen, held, heldAge, unread>>
caches == <<store, index, render>>
cvars == <<vars, caches>>

Inputs(f) == {f} \cup Imports[f]
Age == {"fresh", "stale", "overtaken"}
Artifact(s) == {f \in File : NameOf[f] = FileNameOf[s]}

CachesTypeOK ==
    /\ {cached, former} \subseteq [Selector -> File \cup {None}]
    /\ \A s \in Selector : {cached[s], former[s]} \subseteq Artifact(s) \cup {None}
    /\ age \in [Selector -> Age]
    /\ index \subseteq Selector \X File
    /\ at \in {"idle", "search", "promote", "build", "put", "store"}
    /\ chosen \in Selector
    /\ at # "idle" => held \in Artifact(chosen) /\ unread \subseteq Inputs(held)
    /\ heldAge \in Age
    /\ at \in {"promote", "build"} => cached[chosen] = None
    /\ at \in {"promote", "put", "store"} => unread = {}
    /\ at = "search" => unread = Inputs(held)

Empty == [s \in Selector |-> None]

(* A new process has no index and no memory, and the disk's entries. *)
CachesInit ==
    /\ RegistryInit
    /\ cached = Empty /\ age = [s \in Selector |-> "fresh"]
    /\ former \in {c \in [Selector -> files \cup {None}] :
                     \A s \in Selector : c[s] # None => NameOf[c[s]] = FileNameOf[s]
                                                        /\ Inputs(c[s]) \subseteq files}
    /\ index = {}
    /\ at = "idle" /\ chosen \in Selector /\ held = None /\ heldAge = "fresh" /\ unread = {}

-----------------------------------------------------------------------------
(* A render. *)

Lookup(s) ==
    /\ at = "idle" /\ phase = "up" /\ mu = "free"
    /\ components[FileNameOf[s]] # None
    /\ at' = "search" /\ chosen' = s
    /\ held' = components[FileNameOf[s]] /\ heldAge' = "fresh" /\ unread' = Inputs(held')
    /\ UNCHANGED <<store, index>>

Over == at' = "idle" /\ heldAge' = "fresh" /\ held' = None /\ unread' = {} /\ UNCHANGED chosen

MemHit ==
    /\ at = "search" /\ cached[chosen] # None
    /\ Over
    /\ UNCHANGED <<store, index>>

(* FromDisk checks the digests of all its sources, not where Lookup led. *)
DiskHit ==
    /\ at = "search" /\ cached[chosen] = None /\ former[chosen] # None
    /\ at' = "promote" /\ held' = former[chosen] /\ unread' = {}
    /\ UNCHANGED <<store, index, chosen, heldAge>>

(* Mutant: what memory has is built again. *)
MissAnyway ==
    /\ at = "search"
    /\ at' = "build"
    /\ UNCHANGED <<store, index, chosen, held, heldAge, unread>>

(* Neither has it, or what disk has cannot be read. *)
Miss ==
    /\ at = "search" /\ cached[chosen] = None
    /\ at' = "build"
    /\ UNCHANGED <<store, index, chosen, held, heldAge, unread>>

(* The component's file is read first, to generate the entry. *)
ReadSource(f) ==
    /\ at = "build" /\ f \in unread \cap files /\ (f = held \/ held \notin unread)
    /\ unread' = unread \ {f}
    /\ UNCHANGED <<store, index, at, chosen, held, heldAge>>

Fail ==
    /\ at = "build"
    /\ Over
    /\ UNCHANGED <<store, index>>

Record ==
    /\ at = "build" /\ unread = {}
    /\ at' = "put"
    /\ index' = index \cup ({chosen} \X Inputs(held))
    /\ UNCHANGED <<store, chosen, held, heldAge, unread>>

(* What disk had is not recorded. *)
Put ==
    /\ at \in {"promote", "put"}
    /\ cached' = [cached EXCEPT ![chosen] = held]
    /\ age' = [age EXCEPT ![chosen] = heldAge]
    /\ IF at = "promote" THEN Over ELSE at' = "store" /\ UNCHANGED <<chosen, held, heldAge, unread>>
    /\ UNCHANGED <<former, index>>

Store ==
    /\ at = "store"
    /\ cached' = [cached EXCEPT ![chosen] = held]
    /\ age' = [age EXCEPT ![chosen] = heldAge]
    /\ former' = [former EXCEPT ![chosen] = None]
    /\ Over
    /\ UNCHANGED index

StoreFails ==
    /\ at = "store"
    /\ Over
    /\ UNCHANGED <<store, index>>

Render ==
    \/ \E s \in Selector : Lookup(s)
    \/ MemHit \/ DiskHit \/ Miss
    \/ \E f \in File : ReadSource(f)
    \/ Fail \/ Record \/ Put \/ Store \/ StoreFails

-----------------------------------------------------------------------------
(* Changes and invalidations. *)

Aged(a) == IF a = "fresh" THEN "stale" ELSE a
ReadSoFar == IF at = "idle" THEN {} ELSE Inputs(held) \ unread

(* What was built from fs is out of date, and disk's digests no longer hold. *)
Spoil(fs) ==
    /\ age' = [s \in Selector |-> IF cached[s] # None /\ Inputs(cached[s]) \cap fs # {}
                                  THEN Aged(age[s]) ELSE age[s]]
    /\ former' = [s \in Selector |-> IF former[s] # None /\ Inputs(former[s]) \cap fs # {}
                                     THEN None ELSE former[s]]
    /\ heldAge' = IF ReadSoFar \cap fs # {} THEN Aged(heldAge) ELSE heldAge
    /\ UNCHANGED <<cached, index, at, chosen, held, unread>>

Drop(ss) ==
    /\ cached' = [s \in Selector |-> IF s \in ss THEN None ELSE cached[s]]
    /\ age' = [s \in Selector |-> IF s \in ss THEN "fresh" ELSE age[s]]
    /\ former' = [s \in Selector |-> IF s \in ss THEN None ELSE former[s]]

DependentsOf(f) == {s \in Selector : <<s, f>> \in index}

(* The file's name, if the registry has it: whatever is cached of that is in    *)
(* the file.                                                                     *)
NamedBy(f) == {n \in Name \ {None} : f \in File /\ n = NameOf[f] /\ components[n] # None}
ComponentsInFile(n) == {s \in Selector : FileNameOf[s] = n}

(* Mutant: what imports the file is left alone. *)
TouchOwn(f) ==
    /\ Drop(UNION {ComponentsInFile(n) : n \in NamedBy(f)})
    /\ heldAge' = IF heldAge = "stale" /\ f \in ReadSoFar THEN "overtaken" ELSE heldAge
    /\ UNCHANGED <<index, at, chosen, held, unread>>

(* invalidateForSource.  A render is overtaken if it has read what was before. *)
InvalidateForSource(f) ==
    /\ Drop(DependentsOf(f) \cup UNION {ComponentsInFile(n) : n \in NamedBy(f)})
    /\ heldAge' = IF heldAge = "stale" /\ f \in ReadSoFar THEN "overtaken" ELSE heldAge
    /\ UNCHANGED <<index, at, chosen, held, unread>>

(* Mutant: what of the removed component's file is cached stays. *)
InvalidateNone(n) == UNCHANGED caches

(* invalidateComponent, which takes the name for a selector. *)
InvalidateComponent(n) ==
    /\ Drop({n} \cap Selector)
    /\ heldAge' = IF at # "idle" /\ chosen = n THEN "overtaken" ELSE heldAge
    /\ UNCHANGED <<index, at, chosen, held, unread>>

CachesNext ==
    \/ Render /\ UNCHANGED vars
    \/ \E f \in File : Edit(f) /\ Spoil({f})
    \/ \E d \in Dir \ {Root} : EditDir(d) /\ Spoil(files \ files')
    \/ OnTouch /\ InvalidateForSource(calling.path)
    \/ OnDrop /\ InvalidateComponent(CalledName)
    \/ Onward /\ UNCHANGED caches

CachesSpec == CachesInit /\ [][CachesNext]_cvars

-----------------------------------------------------------------------------
(* Properties. *)

(* With every event handled, what is cached is of the file its component has   *)
(* and of what its sources hold, or one of them is gone.  There are two other  *)
(* ways: it was put there after the invalidation of a change it had not read,  *)
(* or it came off disk and nothing has indexed all its sources since.          *)
StaleOnlyIfGone ==
    Calm => \A s \in Selector : cached[s] # None =>
        \/ ~(Inputs(cached[s]) \subseteq files)
        \/ age[s] = "fresh" /\ components[FileNameOf[s]] = cached[s]
        \/ age[s] = "overtaken"
        \/ ~({s} \X Inputs(cached[s]) \subseteq index)

(* What is cached under the name of a component itself goes with its file,     *)
(* however events, Reload and Adopt interleave with the render, unless Reload  *)
(* took the name first or the removal passed by a render that had looked it up. *)
PlainGoesWithFile ==
    Calm /\ "dropped" \notin upset =>
        \A s \in Selector \cap Name : cached[s] \in files \cup {None} \/ age[s] = "overtaken"
=============================================================================
