--------------------------- MODULE StaticRegistry ---------------------------
(***************************************************************************)
(* Static assets served under content-hashed URLs: the registry scans the  *)
(* asset directory, swaps its manifest, publishes the module assets.ts     *)
(* bundles import and has stale bundles invalidated; with Reactive set, a  *)
(* directory watcher re-arms a Debouncer whose fires scan again.           *)
(*                                                                         *)
(* A worker is one run of rebuild: the one NewStaticRegistry makes (Boot)  *)
(* or one by a fire of the Debouncer, and two fires may run it at once.  A *)
(* step is one file read or written, one critical section, or a callback.  *)
(* The directory is flat.  A graph is what an asset directory, a manifest  *)
(* or a published module says each asset holds; a URL is an asset and its  *)
(* content, the hash in it being free of collisions.                       *)
(*                                                                         *)
(* The bundles that import the module, and what Notify does to them, are   *)
(* StaticBundles'.  mishap is a history variable no guard reads: "missed"  *)
(* while an edit before the watch is unseen, "overlapped" from the first   *)
(* time two rebuilds run at once, "failed" from the first I/O failure.     *)
(***************************************************************************)
EXTENDS Naturals, FiniteSets

CONSTANTS
    Asset,      \* file names in the asset directory
    Content,    \* what an asset can hold
    KeyOf,      \* the identifier each name is sanitized to
    Large,      \* contents above the inline limit
    Fire,       \* goroutines of the Debouncer's timer
    Boot,       \* the goroutine that calls NewStaticRegistry
    Closer,     \* the goroutine that calls Close
    MaxEvents,  \* bound: file system events not yet taken
    NoFile,     \* the content of an asset that does not exist
    None        \* no graph: the disabled module, no manifest

ASSUME BootAssumption == Boot \notin Fire
ASSUME LargeAssumption == Large \subseteq Content
ASSUME MaxEventsAssumption == MaxEvents \in Nat \ {0}

Worker == Fire \cup {Boot}
Graph == [Asset -> Content \cup {NoFile}]

ASSUME NoFileAssumption == NoFile \notin Content
ASSUME NoneAssumption == None \notin Graph

VARIABLES
    dir,        \* the asset directory
    events,     \* events the watcher has not handled
    phase,      \* how far the registry's start or close has come
    pc,         \* where each worker is in rebuild
    todo,       \* the listed assets it has still to read
    seen,       \* what it has read, and its manifest in the end
    changed,    \* its changedBefore
    manifest,   \* enabledStaticRegistry.manifest
    module,     \* the graph in assets.ts
    mishap,     \* history
    timer, stopped, fire, running, stopper, owed    \* the Debouncer's

debounce == <<timer, stopped, fire, running, stopper, owed>>
scan     == <<todo, seen, changed>>
served   == <<manifest, module>>
vars     == <<dir, events, phase, pc, scan, served, mishap, debounce>>

D == INSTANCE Debouncer WITH Stopper <- {Closer}

Present(g) == {a \in Asset : g[a] # NoFile}

(* What ByURL holds of a graph, and what a bundle built from it names. *)
URLs(g) == IF g = None THEN {} ELSE {<<a, g[a]>> : a \in Present(g)}

(* claim: no two names come to the same key. *)
Unclaimed(g) == \A a, b \in Present(g) : KeyOf[a] = KeyOf[b] => a = b

Empty == [a \in Asset |-> NoFile]

-----------------------------------------------------------------------------
TypeOK ==
    /\ dir \in Graph
    /\ events \in 0..MaxEvents
    /\ phase \in {"boot", "mounted", "up", "closing", "stopping", "closed", "failed"}
    /\ pc \in [Worker -> {"idle", "read", "compare", "write", "notify"}]
    /\ todo \in [Worker -> SUBSET Asset]
    /\ seen \in [Worker -> Graph]
    /\ changed \in [Worker -> BOOLEAN]
    /\ manifest \in Graph \cup {None}
    /\ module \in Graph \cup {None}
    /\ mishap \in {"none", "missed", "overlapped", "failed"}
    /\ D!TypeOK
    /\ \A f \in Fire : fire[f] = "running" <=> pc[f] # "idle"

(* EnsureDisabled has published the module of a feature that is off, and     *)
(* NewStaticRegistry's own rebuild has listed the directory.                 *)
Init ==
    /\ dir \in Graph
    /\ events = 0
    /\ phase = "boot"
    /\ pc = [w \in Worker |-> IF w = Boot THEN "read" ELSE "idle"]
    /\ todo = [w \in Worker |-> IF w = Boot THEN Present(dir) ELSE {}]
    /\ seen = [w \in Worker |-> Empty]
    /\ changed = [w \in Worker |-> FALSE]
    /\ manifest = None
    /\ module = None
    /\ mishap = "none"
    /\ D!Init

-----------------------------------------------------------------------------
(* The environment. *)

(* An asset is written (with what it held already, perhaps), or removed.     *)
(* Until the directory is watched no event tells of it; what is edited once  *)
(* the watcher is stopped is left out.                                       *)
Edit(a, c) ==
    /\ phase \in {"boot", "mounted", "up"}
    /\ events < MaxEvents
    /\ dir' = [dir EXCEPT ![a] = c]
    /\ events' = IF phase = "up" THEN events + 1 ELSE events
    /\ mishap' = IF mishap = "none" /\ phase # "up" THEN "missed" ELSE mishap
    /\ UNCHANGED <<phase, pc, scan, served, debounce>>

-----------------------------------------------------------------------------
(* rebuild. *)

At(w, place) == pc[w] = place

Goto(w, place) == pc' = [pc EXCEPT ![w] = place]

(* rebuild returns: to NewStaticRegistry, which gives an error up, or to the *)
(* Debouncer's fire.                                                         *)
Return(w, ok) ==
    /\ Goto(w, "idle")
    /\ todo' = [todo EXCEPT ![w] = {}]
    /\ seen' = [seen EXCEPT ![w] = Empty]
    /\ changed' = [changed EXCEPT ![w] = FALSE]
    /\ IF w = Boot
       THEN phase' = (IF ok THEN "mounted" ELSE "failed") /\ UNCHANGED debounce
       ELSE D!End(w) /\ UNCHANGED phase

(* scanDir lists the directory. *)
List(w) ==
    /\ Goto(w, "read")
    /\ todo' = [todo EXCEPT ![w] = Present(dir)]
    /\ mishap' = IF mishap = "failed" THEN "failed"
                 ELSE IF \E v \in Worker : ~At(v, "idle") THEN "overlapped"
                 ELSE IF mishap = "missed" THEN "none" ELSE mishap
    /\ UNCHANGED <<seen, changed>>

(* describe reads an asset. *)
Read(w, a) ==
    /\ At(w, "read")
    /\ a \in todo[w]
    /\ dir[a] # NoFile
    /\ todo' = [todo EXCEPT ![w] = @ \ {a}]
    /\ seen' = [seen EXCEPT ![w][a] = dir[a]]
    /\ UNCHANGED <<dir, events, phase, pc, changed, served, mishap, debounce>>

(* A listed asset is gone, or two of them claim one key: no manifest. *)
ScanFails(w) ==
    /\ At(w, "read")
    /\ \/ \E a \in todo[w] : dir[a] = NoFile
       \/ todo[w] = {} /\ ~Unclaimed(seen[w])
    /\ Return(w, FALSE)
    /\ UNCHANGED <<dir, events, served, mishap>>

Scanned(w) == At(w, "read") /\ todo[w] = {} /\ Unclaimed(seen[w])

(* The tsconfig fragment cannot be written. *)
FragmentFails(w) ==
    /\ Scanned(w)
    /\ mishap' = "failed"
    /\ Return(w, FALSE)
    /\ UNCHANGED <<dir, events, served>>

(* Mutant: the manifest is only set when there is none. *)
SwapFirst(w) ==
    /\ Scanned(w)
    /\ manifest' = IF manifest = None THEN seen[w] ELSE manifest
    /\ Goto(w, "compare")
    /\ UNCHANGED <<dir, events, phase, scan, module, mishap, debounce>>

(* The manifest is replaced. *)
Swap(w) ==
    /\ Scanned(w)
    /\ manifest' = seen[w]
    /\ Goto(w, "compare")
    /\ UNCHANGED <<dir, events, phase, scan, module, mishap, debounce>>

(* Mutant: the new graph is compared with the manifest just replaced. *)
CompareManifest(w) ==
    /\ At(w, "compare")
    /\ changed' = [changed EXCEPT ![w] = manifest # seen[w]]
    /\ Goto(w, "write")
    /\ UNCHANGED <<dir, events, phase, todo, seen, served, mishap, debounce>>

(* assets.ts is read and compared. *)
Compare(w) ==
    /\ At(w, "compare")
    /\ changed' = [changed EXCEPT ![w] = module # seen[w]]
    /\ Goto(w, "write")
    /\ UNCHANGED <<dir, events, phase, todo, seen, served, mishap, debounce>>

(* writeModule, of whose files only assets.ts can differ. *)
Write(w) ==
    /\ At(w, "write")
    /\ module' = seen[w]
    /\ Goto(w, "notify")
    /\ UNCHANGED <<dir, events, phase, scan, manifest, mishap, debounce>>

(* One of the module's files cannot be written, before assets.ts or after. *)
WriteFails(w) ==
    /\ At(w, "write")
    /\ module' \in {module, seen[w]}
    /\ mishap' = "failed"
    /\ Return(w, FALSE)
    /\ UNCHANGED <<dir, events, manifest>>

(* onChange is called if the graph changed, and rebuild is done. *)
Notify(w) ==
    /\ At(w, "notify")
    /\ Return(w, TRUE)
    /\ UNCHANGED <<dir, events, served, mishap>>

Rebuild(w) ==
    \/ \E a \in Asset : Read(w, a)
    \/ ScanFails(w) \/ FragmentFails(w)
    \/ Swap(w) \/ Compare(w) \/ Write(w) \/ WriteFails(w) \/ Notify(w)

-----------------------------------------------------------------------------
(* Starting, watching, closing. *)

(* The endpoint is mounted and answers; then the directory is watched. *)
Watch ==
    /\ phase = "mounted"
    /\ phase' = "up"
    /\ UNCHANGED <<dir, events, pc, scan, served, mishap, debounce>>

(* verifyMount gets a 404, or the directory cannot be watched. *)
StartFails ==
    /\ phase = "mounted"
    /\ phase' = "failed"
    /\ UNCHANGED <<dir, events, pc, scan, served, mishap, debounce>>

(* Mutant: an event that comes during a rebuild is taken for its own. *)
HandleUnlessBusy ==
    /\ phase = "up"
    /\ events > 0
    /\ events' = events - 1
    /\ IF running = 0 THEN D!Arm ELSE UNCHANGED debounce
    /\ UNCHANGED <<dir, phase, pc, scan, served, mishap>>

(* The watcher takes an event: any of the three callbacks arms. *)
Handle ==
    /\ phase = "up"
    /\ events > 0
    /\ events' = events - 1
    /\ D!Arm
    /\ UNCHANGED <<dir, phase, pc, scan, served, mishap>>

Expire(f) ==
    /\ D!Expire(f)
    /\ UNCHANGED <<dir, events, phase, pc, scan, served, mishap>>

Begin(f) ==
    /\ D!Begin(f)
    /\ List(f)
    /\ UNCHANGED <<dir, events, phase, served>>

GiveUp(f) ==
    /\ D!GiveUp(f)
    /\ UNCHANGED <<dir, events, phase, pc, scan, served, mishap>>

(* Close: the watcher is stopped, with whatever it has not handled. *)
StopWatcher ==
    /\ phase = "up"
    /\ phase' = "closing"
    /\ events' = 0
    /\ UNCHANGED <<dir, pc, scan, served, mishap, debounce>>

StopDebounce ==
    /\ phase = "closing"
    /\ phase' = "stopping"
    /\ D!Stop(Closer)
    /\ UNCHANGED <<dir, events, pc, scan, served, mishap>>

CloseReturns ==
    /\ phase = "stopping"
    /\ phase' = "closed"
    /\ D!StopReturns(Closer)
    /\ UNCHANGED <<dir, events, pc, scan, served, mishap>>

Next ==
    \/ \E a \in Asset, c \in Content \cup {NoFile} : Edit(a, c)
    \/ \E w \in Worker : Rebuild(w)
    \/ Watch \/ StartFails
    \/ Handle
    \/ \E f \in Fire : Expire(f) \/ Begin(f) \/ GiveUp(f)
    \/ StopWatcher \/ StopDebounce \/ CloseReturns

Spec == Init /\ [][Next]_vars

(* Goroutines are scheduled, the kernel delivers, the window elapses; no one *)
(* has to edit or close.                                                     *)
Fairness ==
    /\ \A w \in Worker : WF_vars(Rebuild(w))
    /\ WF_vars(Watch \/ StartFails)
    /\ WF_vars(Handle)
    /\ WF_vars(\E f \in Fire : Expire(f))
    /\ \A f \in Fire : WF_vars(Begin(f)) /\ WF_vars(GiveUp(f))
    /\ WF_vars(StopDebounce) /\ WF_vars(CloseReturns)

-----------------------------------------------------------------------------
(* Properties. *)

(* Nothing is under way that would rebuild. *)
Settled ==
    /\ phase = "up"
    /\ events = 0
    /\ ~timer
    /\ \A f \in Fire : fire[f] = "idle"

Current == manifest = dir /\ module = dir

(* What the endpoint answers with: an inlined asset as it was scanned, a     *)
(* large one as it is on disk by then, 404 if it is gone.                    *)
Answer(url) == IF url[2] \in Large THEN dir[url[1]] ELSE url[2]

(* Once the watcher has nothing left to do, what is served and what bundles  *)
(* import is what the directory holds, and every URL answers with what the   *)
(* hash in it was taken of, whatever was edited or removed during the        *)
(* rebuilds on the way; while two names clash, the last good state may stay. *)
(* Not so when rebuilds overlapped: the slower one may publish last.         *)
SettledIsCurrent ==
    Settled /\ mishap = "none" /\ Unclaimed(dir) =>
        Current /\ \A url \in URLs(manifest) : Answer(url) = url[2]

(* When Close has returned, no straggling fire touches what is served. *)
ClosedIsQuiet ==
    [][phase = "closed" => UNCHANGED <<manifest, module>>]_vars

(* When the directory comes to rest, the registry catches up with it. *)
CatchesUp ==
    \/ []<><<dir' # dir>>_vars
    \/ <>[](Current \/ ~Unclaimed(dir) \/ phase # "up" \/ mishap # "none")

=============================================================================
