------------------------------ MODULE DiskStore ------------------------------
(***************************************************************************)
(* The disk cache down to its files: an entry is a script, a style sheet   *)
(* if the artifact has one, and last a manifest, each staged in a          *)
(* temporary file and renamed into place.  One operation runs at a time,   *)
(* under dc.mu.  A step is one call of the file system; any of them may    *)
(* fail, and the process may end between any two.                          *)
(*                                                                         *)
(* An artifact is what a source content builds to; a manifest holds while  *)
(* the source is what it was written for.                                  *)
(***************************************************************************)
EXTENDS Naturals

CONSTANTS
    Key, Component,  \* entries, and the components they are of
    ComponentOf,     \* the component of each key
    Art, WithCSS,    \* artifacts, and those of them that have a style sheet
    None, Husk, Torn,
    Attempts         \* how often a rename is tried

ASSUME StoreAssumption ==
    /\ ComponentOf \in [Key -> Component]
    /\ WithCSS \subseteq Art
    /\ {None, Husk, Torn} \cap Art = {} /\ None \notin Key /\ None # Husk /\ None # Torn /\ Husk # Torn
ASSUME AttemptsAssumption == Attempts \in Nat \ {0}

VARIABLES
    js, css, man,    \* the files of each entry: the artifact they are of
    source,          \* what the source holds, as the artifact it builds to
    index, indexed,  \* byKey and byComponent; whether the directory was read
    at, op,          \* where the operation under dc.mu is, and on what
    left,            \* the keys an InvalidateComponent has still to remove
    staged, tries,   \* the temporary file of the running write; failed renames
    was,             \* history: the entry before the operation
    spoilt           \* history: keys whose entry a Put cut short or a failed removal left

files == <<js, css, man>>
write == <<staged, tries>>
dvars == <<files, source, index, indexed, at, op, left, write, was, spoilt>>

File == Art \cup {None}
Stage == {"rest", "js", "css", "man", "next", "rmjs", "rmcss", "rmman"}
NoOp == [key |-> None, art |-> None]

(* What the files of k amount to, for one who may look. *)
Whole(k) == js[k] = man[k] /\ (man[k] \in WithCSS => css[k] = man[k])
Entry(k) ==
    IF man[k] = None THEN None
    ELSE IF js[k] = None THEN Husk
    ELSE IF Whole(k) THEN man[k] ELSE Torn

DiskTypeOK ==
    /\ js \in [Key -> File] /\ css \in [Key -> WithCSS \cup {None}] /\ man \in [Key -> File]
    /\ source \in Art
    /\ index \subseteq Key /\ indexed \in BOOLEAN
    /\ at \in Stage
    /\ op \in [key : Key \cup {None}, art : Art \cup {None}]
    /\ left \subseteq Key
    /\ staged \in BOOLEAN /\ tries \in 0 .. Attempts - 1
    /\ was \in File \cup {Husk, Torn}
    /\ spoilt \subseteq Key

DiskInit ==
    /\ js = [k \in Key |-> None] /\ css = js /\ man = js
    /\ source \in Art
    /\ index = {} /\ indexed = FALSE
    /\ at = "rest" /\ op = NoOp /\ left = {}
    /\ staged = FALSE /\ tries = 0
    /\ was = None /\ spoilt = {}

Edit ==
    /\ \E a \in Art : source' = a
    /\ UNCHANGED <<files, index, indexed, at, op, left, write, was, spoilt>>

(* The keys a manifest on disk names; the directory is read once a process. *)
OnDisk == {k \in Key : man[k] # None}
Known == IF indexed THEN index ELSE index \cup OnDisk

(* lockedEnsureIndex, which Get, InvalidateComponent and ComponentsInFile begin with. *)
EnsureIndex ==
    /\ at = "rest" /\ ~indexed
    /\ indexed' = TRUE /\ index' = Known
    /\ UNCHANGED <<files, source, at, op, left, write, was, spoilt>>

-----------------------------------------------------------------------------
(* Put. *)

PutBegins(k) ==
    /\ at = "rest"
    /\ at' = "js" /\ op' = [key |-> k, art |-> source] /\ was' = Entry(k)
    /\ UNCHANGED <<files, source, index, indexed, left, write, spoilt>>

Writing == at \in {"js", "css", "man"}

Stages ==
    /\ Writing /\ ~staged
    /\ staged' = TRUE
    /\ UNCHANGED <<files, source, index, indexed, at, op, left, tries, was, spoilt>>

(* Mutant: the backoff is capped, the attempts are not. *)
RenameRetried ==
    /\ Writing /\ staged
    /\ tries' = (tries + 1) % Attempts
    /\ UNCHANGED <<files, source, index, indexed, at, op, left, staged, was, spoilt>>

(* A reader elsewhere may hold the target open, and the rename is tried again. *)
RenameBlocked ==
    /\ Writing /\ staged /\ tries + 1 < Attempts
    /\ tries' = tries + 1
    /\ UNCHANGED <<files, source, index, indexed, at, op, left, staged, was, spoilt>>

Renamed == Writing /\ staged /\ staged' = FALSE /\ tries' = 0

RenamesJS ==
    /\ at = "js" /\ Renamed
    /\ js' = [js EXCEPT ![op.key] = op.art]
    /\ at' = IF op.art \in WithCSS THEN "css" ELSE "man"
    /\ UNCHANGED <<css, man, source, index, indexed, op, left, was, spoilt>>

RenamesCSS ==
    /\ at = "css" /\ Renamed
    /\ css' = [css EXCEPT ![op.key] = op.art]
    /\ at' = "man"
    /\ UNCHANGED <<js, man, source, index, indexed, op, left, was, spoilt>>

RenamesManifest ==
    /\ at = "man" /\ Renamed
    /\ man' = [man EXCEPT ![op.key] = op.art]
    /\ index' = index \cup {op.key}
    /\ at' = "rest" /\ op' = NoOp /\ was' = None
    /\ spoilt' = spoilt \ {op.key}
    /\ UNCHANGED <<js, css, source, indexed, left>>

(* Where WriteAtomic can fail: staging the file, filling it (a write, a close, a *)
(* chmod) before any rename was tried, or the last of the renames.               *)
FirstOrLast == Writing /\ tries \in {0, Attempts - 1}

(* Mutant: only a Put that succeeds removes its temporary file. *)
FailsAndLeaks ==
    /\ FirstOrLast
    /\ tries' = 0
    /\ at' = "rest" /\ op' = NoOp /\ was' = None
    /\ spoilt' = spoilt \cup (IF was = None THEN {} ELSE {op.key})
    /\ UNCHANGED <<files, source, index, indexed, left, staged>>

(* Mutant: the entry of a Put that failed is indexed. *)
FailsAndIndexes ==
    /\ FirstOrLast
    /\ staged' = FALSE /\ tries' = 0
    /\ at' = "rest" /\ op' = NoOp /\ was' = None
    /\ index' = index \cup {op.key}
    /\ spoilt' = spoilt \cup (IF was = None THEN {} ELSE {op.key})
    /\ UNCHANGED <<files, source, indexed, left>>

(* The first error ends Put; the temporary file, if there is one, goes with it. *)
PutFails ==
    /\ FirstOrLast
    /\ staged' = FALSE /\ tries' = 0
    /\ at' = "rest" /\ op' = NoOp /\ was' = None
    /\ spoilt' = spoilt \cup (IF was = None THEN {} ELSE {op.key})
    /\ UNCHANGED <<files, source, index, indexed, left>>

-----------------------------------------------------------------------------
(* InvalidateComponent: each of three removals is tried, none is checked. *)

InvalidateComponent(c) ==
    /\ at = "rest" /\ indexed
    /\ left' = {k \in index : ComponentOf[k] = c} /\ left' # {}
    /\ at' = "next"
    /\ UNCHANGED <<files, source, index, indexed, op, write, was, spoilt>>

RemoveBegins(k) ==
    /\ at = "next" /\ k \in left
    /\ at' = "rmjs" /\ op' = [key |-> k, art |-> None] /\ was' = Entry(k)
    /\ UNCHANGED <<files, source, index, indexed, left, write, spoilt>>

(* os.Remove of the file of op.key: it goes, or it stays and nobody asks. *)
Removed(file) ==
    \/ file' = [file EXCEPT ![op.key] = None] /\ spoilt' = spoilt
    \/ file[op.key] # None /\ file' = file /\ spoilt' = spoilt \cup {op.key}

RemovesJS ==
    /\ at = "rmjs" /\ Removed(js)
    /\ at' = "rmcss"
    /\ UNCHANGED <<css, man, source, index, indexed, op, left, write, was>>

RemovesCSS ==
    /\ at = "rmcss" /\ Removed(css)
    /\ at' = "rmman"
    /\ UNCHANGED <<js, man, source, index, indexed, op, left, write, was>>

(* Mutant: the files go and the index keeps them. *)
RemovesUnindexed ==
    /\ at = "rmman" /\ Removed(man)
    /\ left' = left \ {op.key}
    /\ at' = IF left' = {} THEN "rest" ELSE "next"
    /\ op' = NoOp /\ was' = None
    /\ UNCHANGED <<js, css, source, index, indexed, write>>

RemovesManifest ==
    /\ at = "rmman" /\ Removed(man)
    /\ index' = index \ {op.key}
    /\ left' = left \ {op.key}
    /\ at' = IF left' = {} THEN "rest" ELSE "next"
    /\ op' = NoOp /\ was' = None
    /\ UNCHANGED <<js, css, source, indexed, write>>

-----------------------------------------------------------------------------
(* The process ends at any point and another starts: its index is unread, the  *)
(* temporary file of a write stays behind and no reader takes it for an entry. *)
Restart ==
    /\ index' = {} /\ indexed' = FALSE
    /\ at' = "rest" /\ op' = NoOp /\ left' = {} /\ was' = None
    /\ staged' = FALSE /\ tries' = 0
    /\ spoilt' = spoilt \cup (IF Writing /\ was # None THEN {op.key} ELSE {})
    /\ UNCHANGED <<files, source>>

Operation ==
    \/ Stages \/ RenameBlocked \/ RenamesJS \/ RenamesCSS \/ RenamesManifest \/ PutFails
    \/ \E k \in Key : RemoveBegins(k)
    \/ RemovesJS \/ RemovesCSS \/ RemovesManifest

DiskNext ==
    \/ Edit
    \/ EnsureIndex
    \/ \E k \in Key : PutBegins(k)
    \/ \E c \in Component : InvalidateComponent(c)
    \/ Operation
    \/ Restart

DiskSpec == DiskInit /\ [][DiskNext]_dvars

(* The goroutine that holds dc.mu runs on. *)
FairDiskSpec == DiskSpec /\ WF_dvars(Operation)

-----------------------------------------------------------------------------
(* Get, one critical section that changes nothing but the index. *)

(* Mutant: an entry is taken without a look at its sources. *)
HitUnchecked(k) == at = "rest" /\ k \in Known /\ man[k] # None /\ js[k] # None

Hit(k) == at = "rest" /\ k \in Known /\ man[k] = source /\ js[k] # None
Got(k) == [js |-> js[k], css |-> IF man[k] \in WithCSS THEN css[k] ELSE None]
Built(a) == [js |-> a, css |-> IF a \in WithCSS THEN a ELSE None]

-----------------------------------------------------------------------------
(* Properties. *)

(* What Get returns is what the sources build to, script and style sheet of one *)
(* build, whatever Put, removal or process ended early; unless a Put over an    *)
(* entry was cut or a removal failed, which the code calls non-fatal.           *)
GetIsCurrent == \A k \in Key \ spoilt : Hit(k) => Got(k) = Built(source)

(* Invalidation and the index agree: an entry the index has is on disk, and     *)
(* one that is on disk and not in a read index is the rest of a failed removal. *)
IndexIsDisk ==
    at = "rest" => index \subseteq OnDisk /\ (indexed => OnDisk \ index \subseteq spoilt)

(* A Put that ends leaves no temporary file, be it that staging, filling or      *)
(* renaming it failed.                                                           *)
NoTemporaryLeft == staged => Writing

(* An operation gives dc.mu back: retries are bounded. *)
OperationEnds == at # "rest" ~> at = "rest"

(* The cache is the atomic store; nobody sees an entry under operation. *)
Store == INSTANCE AtomicStore WITH
    value <- [k \in Key |-> IF op.key = k THEN was ELSE Entry(k)],
    visible <- Known
IsAtomicStore == Store!AtomicSpec
=============================================================================
