----------------------------- MODULE RenderCache -----------------------------
(***************************************************************************)
(* From a render call to the artifact it is served: the in-memory cache,   *)
(* the disk cache, the dependency index, and the HMR watcher that takes    *)
(* entries out of both caches when a source file changes.                  *)
(*                                                                         *)
(* Every Renderer is a goroutine inside Bundler.compiledArtifact, every    *)
(* Fire a goroutine of the watcher's debounce timer.  The environment      *)
(* edits, deletes and re-creates source files at any time.  A step is one  *)
(* critical section of the code (one lock held) or one file read.          *)
(*                                                                         *)
(* An artifact is abstracted to what it was built from: the set of         *)
(* <<file, content>> pairs its build read.  It is stale when one of those  *)
(* files holds something else now.  The disk cache is the abstract store   *)
(* its mutex makes of it, an entry appearing or disappearing in one step.  *)
(*                                                                         *)
(* `origin' is a history variable.  It tells a build nothing has overtaken *)
(* ("live") from one that read a file whose invalidation was carried out   *)
(* before the build reached the caches ("overtaken"), and from an entry a  *)
(* former process left on disk ("warm").  No guard reads it.               *)
(***************************************************************************)
EXTENDS Naturals

CONSTANTS
    Component,   \* qualified names: a component file, or a "#export" out of it
    Root,        \* mount root ids, the second half of a cache key
    File,        \* source files that reach a bundle
    Content,     \* what a file can hold
    PathOf,      \* the file each component is compiled from
    Imports,     \* the files a file imports, by what it holds
    Watched,     \* the files under the watched components tree
    Renderer,    \* goroutines running a render
    Fire,        \* goroutines running the debounced function of the watcher
    NoFile,      \* the content of a file that does not exist
    None         \* no cache entry

ASSUME PathAssumption == PathOf \in [Component -> File]
ASSUME ImportsAssumption == Imports \in [File -> [Content -> SUBSET File]]
ASSUME NoFileAssumption == NoFile \notin Content
ASSUME WatchedAssumption == Watched \subseteq File

Key == Component \X Root
ComponentOf(k) == k[1]

Artifact == SUBSET (File \X Content)
Origin == {"live", "overtaken", "warm"}
MemEntry == [art : Artifact, origin : Origin]
DiskEntry == [art : Artifact, man : Artifact, origin : Origin]

ASSUME NoneAssumption == None \notin MemEntry \cup DiskEntry

VARIABLES
    content,   \* what each source file holds
    events,    \* changed files the watcher goroutine has not looked at yet
    pending,   \* Watcher.pending, the components to reload when the timer fires
    left,      \* names a fire has drained and not begun
    target,    \* the name a fire is working on
    stage,     \* what a fire does next to its target
    index,     \* DependencyIndex, from component to the sources it was built from
    mem,       \* MemCache.entries
    disk,      \* the disk cache's entries
    pc,        \* where each render is
    key,       \* the cache key it resolves
    reads,     \* the <<file, content>> pairs behind the artifact it holds
    todo,      \* the files its build has still to read
    origin     \* history: what has become of its reads

files   == <<content, events>>
watcher == <<pending, left, target, stage>>
render  == <<pc, key, reads, todo, origin>>
vars    == <<files, watcher, index, mem, disk, render>>

-----------------------------------------------------------------------------
(* What the caches and the index answer. *)

FilesOf(a) == {p[1] : p \in a}

(* Reads of f that no longer tell what f holds. *)
StaleOn(a, f) == \E p \in a : p[1] = f /\ p[2] # content[f]

(* hashing.Holds: there are recorded sources and each still has its digest. *)
Holds(man) == man # {} /\ \A p \in man : content[p[1]] = p[2]

(* Mutant: a source that is gone is recorded all the same. *)
ManifestOfMissing(sources) == {<<f, content[f]>> : f \in sources}

(* DiskCache.Put digests the sources as they are now, and leaves out one it *)
(* cannot read.                                                             *)
Manifest(sources) == {<<f, content[f]>> : f \in {g \in sources : content[g] # NoFile}}

DependentsOf(f) == {c \in Component : f \in index[c]}

KeysOf(c) == {c} \X Root

Busy(d) == stage[d] # "next" \/ left[d] # {}

-----------------------------------------------------------------------------
TypeOK ==
    /\ content \in [File -> Content \cup {NoFile}]
    /\ events \subseteq File
    /\ pending \subseteq Component
    /\ left \in [Fire -> SUBSET Component]
    /\ target \in [Fire -> Component \cup {None}]
    /\ stage \in [Fire -> {"next", "mem", "reload"}]
    /\ index \in [Component -> SUBSET File]
    /\ mem \in [Key -> MemEntry \cup {None}]
    /\ disk \in [Key -> DiskEntry \cup {None}]
    /\ pc \in [Renderer -> {"idle", "disk", "promote", "entry", "bundle",
                            "memput", "diskput", "respond"}]
    /\ key \in [Renderer -> Key \cup {None}]
    /\ \A r \in Renderer : pc[r] # "idle" => key[r] \in Key
    /\ reads \in [Renderer -> Artifact]
    /\ todo \in [Renderer -> SUBSET File]
    /\ origin \in [Renderer -> Origin]

(* A process starts with nothing but what is on disk. *)
Init ==
    /\ content \in [File -> Content]
    /\ disk = [k \in Key |-> None]
    /\ events = {}
    /\ pending = {}
    /\ left = [d \in Fire |-> {}]
    /\ target = [d \in Fire |-> None]
    /\ stage = [d \in Fire |-> "next"]
    /\ index = [c \in Component |-> {}]
    /\ mem = [k \in Key |-> None]
    /\ pc = [r \in Renderer |-> "idle"]
    /\ key = [r \in Renderer |-> None]
    /\ reads = [r \in Renderer |-> {}]
    /\ todo = [r \in Renderer |-> {}]
    /\ origin = [r \in Renderer |-> "live"]

-----------------------------------------------------------------------------
(* The environment.  A file is edited, deleted or created; the watcher is   *)
(* told of it when the file lies in the tree it watches.                    *)

Change(f) ==
    /\ \E x \in (Content \cup {NoFile}) \ {content[f]} :
          content' = [content EXCEPT ![f] = x]
    /\ events' = events \cup ({f} \cap Watched)
    /\ UNCHANGED <<watcher, index, mem, disk, render>>

-----------------------------------------------------------------------------
(* A render: compiledArtifact and bundleComponent. *)

GoTo(r, from, to) == pc[r] = from /\ pc' = [pc EXCEPT ![r] = to]

MemHit(r, k) ==
    /\ mem[k] # None
    /\ GoTo(r, "idle", "respond")
    /\ key' = [key EXCEPT ![r] = k]
    /\ reads' = [reads EXCEPT ![r] = mem[k].art]
    /\ origin' = [origin EXCEPT ![r] = mem[k].origin]
    /\ UNCHANGED <<files, watcher, index, mem, disk, todo>>

MemMiss(r, k) ==
    /\ mem[k] = None
    /\ GoTo(r, "idle", "disk")
    /\ key' = [key EXCEPT ![r] = k]
    /\ UNCHANGED <<files, watcher, index, mem, disk, reads, todo, origin>>

(* DiskCache.Get: the digests are checked and the artifact read under dc.mu. *)
DiskHit(r) ==
    LET e == disk[key[r]] IN
    /\ GoTo(r, "disk", "promote")
    /\ e # None
    /\ Holds(e.man)
    /\ reads' = [reads EXCEPT ![r] = e.art]
    /\ origin' = [origin EXCEPT ![r] = e.origin]
    /\ UNCHANGED <<files, watcher, index, mem, disk, key, todo>>

(* Get misses when there is no entry, when a digest differs, and when a file of *)
(* the entry cannot be read or parsed, so it may miss whatever the entry holds. *)
DiskMiss(r) ==
    /\ GoTo(r, "disk", "entry")
    /\ UNCHANGED <<files, watcher, index, mem, disk, key, reads, todo, origin>>

(* FromDisk: a hit is put into memory; nothing is recorded in the index. *)
Promote(r) ==
    /\ GoTo(r, "promote", "respond")
    /\ mem' = [mem EXCEPT ![key[r]] = [art |-> reads[r], origin |-> origin[r]]]
    /\ UNCHANGED <<files, watcher, index, disk, key, reads, todo, origin>>

(* The component's own source is read to check its export; the entry module *)
(* imports it by path, so esbuild reads it again when it bundles.           *)
ReadEntry(r) ==
    LET f == PathOf[ComponentOf(key[r])] IN
    /\ GoTo(r, "entry", "bundle")
    /\ content[f] # NoFile
    /\ todo' = [todo EXCEPT ![r] = {f}]
    /\ UNCHANGED <<files, watcher, index, mem, disk, key, reads, origin>>

(* esbuild loads one file of the module graph and follows its imports. *)
ReadSource(r, f) ==
    /\ pc[r] = "bundle"
    /\ f \in todo[r]
    /\ content[f] # NoFile
    /\ reads' = [reads EXCEPT ![r] = @ \cup {<<f, content[f]>>}]
    /\ todo' = [todo EXCEPT ![r] =
                  (@ \cup (Imports[f][content[f]] \ FilesOf(reads[r]))) \ {f}]
    /\ UNCHANGED <<files, watcher, index, mem, disk, pc, key, origin>>

(* Any of the error returns before the artifact exists. *)
Fail(r) ==
    /\ pc[r] \in {"entry", "bundle"}
    /\ pc' = [pc EXCEPT ![r] = "idle"]
    /\ key' = [key EXCEPT ![r] = None]
    /\ reads' = [reads EXCEPT ![r] = {}]
    /\ todo' = [todo EXCEPT ![r] = {}]
    /\ origin' = [origin EXCEPT ![r] = "live"]
    /\ UNCHANGED <<files, watcher, index, mem, disk>>

(* Mutant: the sources of the last build replace those of the ones before. *)
RecordReplaces(r) ==
    /\ GoTo(r, "bundle", "memput")
    /\ todo[r] = {}
    /\ index' = [index EXCEPT ![ComponentOf(key[r])] = FilesOf(reads[r])]
    /\ UNCHANGED <<files, watcher, mem, disk, key, reads, todo, origin>>

(* DependencyIndex.Record adds; a source once recorded is never dropped. *)
Record(r) ==
    /\ GoTo(r, "bundle", "memput")
    /\ todo[r] = {}
    /\ index' = [index EXCEPT ![ComponentOf(key[r])] = @ \cup FilesOf(reads[r])]
    /\ UNCHANGED <<files, watcher, mem, disk, key, reads, todo, origin>>

MemPut(r) ==
    /\ GoTo(r, "memput", "diskput")
    /\ mem' = [mem EXCEPT ![key[r]] = [art |-> reads[r], origin |-> origin[r]]]
    /\ UNCHANGED <<files, watcher, index, disk, key, reads, todo, origin>>

DiskPut(r) ==
    /\ GoTo(r, "diskput", "respond")
    /\ disk' = [disk EXCEPT ![key[r]] =
                  [art |-> reads[r], man |-> Manifest(FilesOf(reads[r])),
                   origin |-> origin[r]]]
    /\ UNCHANGED <<files, watcher, index, mem, key, reads, todo, origin>>

(* A failed Put is logged and forgotten.  It leaves no entry where there    *)
(* was none; over an older entry it may already have replaced the artifact  *)
(* the older manifest names.                                                *)
DiskPutFails(r) ==
    LET e == disk[key[r]] IN
    /\ GoTo(r, "diskput", "respond")
    /\ disk' \in {disk,
                  [disk EXCEPT ![key[r]] =
                     IF e = None THEN None
                     ELSE [art |-> reads[r], man |-> e.man, origin |-> origin[r]]]}
    /\ UNCHANGED <<files, watcher, index, mem, key, reads, todo, origin>>

(* Assembly and transmission of the response touch neither cache. *)
Respond(r) ==
    /\ GoTo(r, "respond", "idle")
    /\ key' = [key EXCEPT ![r] = None]
    /\ reads' = [reads EXCEPT ![r] = {}]
    /\ origin' = [origin EXCEPT ![r] = "live"]
    /\ UNCHANGED <<files, watcher, index, mem, disk, todo>>

-----------------------------------------------------------------------------
(* The HMR watcher. *)

(* History: the builds an invalidation comes too early for. *)
Overtake(late) ==
    origin' = [r \in Renderer |->
                 IF late[r] /\ origin[r] = "live" THEN "overtaken" ELSE origin[r]]

Holding(r) == pc[r] \in {"promote", "bundle", "memput", "diskput"}

(* Mutant: a component some fire is working on is not made pending again. *)
TouchUnlessBusy(f) ==
    /\ f \in events
    /\ events' = events \ {f}
    /\ pending' = pending \cup (DependentsOf(f) \ {target[d] : d \in Fire})
    /\ UNCHANGED <<content, left, target, stage, index, mem, disk, render>>

(* The watcher goroutine's handler: the dependents of a changed file become  *)
(* pending and the timer is armed.  Only DependentsOf and the add to         *)
(* `pending' matter, and a step of another goroutine between the two         *)
(* commutes with one of them; the timer is armed exactly when `pending' is   *)
(* not empty.                                                                *)
Touch(f) ==
    /\ f \in events
    /\ events' = events \ {f}
    /\ pending' = pending \cup DependentsOf(f)
    /\ Overtake([r \in Renderer |->
                   /\ Holding(r)
                   /\ StaleOn(reads[r], f)
                   /\ ComponentOf(key[r]) \notin DependentsOf(f)])
    /\ UNCHANGED <<content, left, target, stage, index, mem, disk, pc, key, reads, todo>>

(* Mutant: the drained set is emptied after its first name. *)
DrainOne(d) ==
    /\ ~Busy(d)
    /\ pending # {}
    /\ \E c \in pending : left' = [left EXCEPT ![d] = {c}]
    /\ pending' = {}
    /\ UNCHANGED <<files, target, stage, index, mem, disk, render>>

(* The window elapsed: fire -> drain. *)
Drain(d) ==
    /\ ~Busy(d)
    /\ pending # {}
    /\ left' = [left EXCEPT ![d] = pending]
    /\ pending' = {}
    /\ UNCHANGED <<files, target, stage, index, mem, disk, render>>

(* Mutant: an entry whose digests still hold is left on disk. *)
InvalidateDiskIfInvalid(d, c) ==
    /\ stage[d] = "next"
    /\ c \in left[d]
    /\ left' = [left EXCEPT ![d] = @ \ {c}]
    /\ target' = [target EXCEPT ![d] = c]
    /\ stage' = [stage EXCEPT ![d] = "mem"]
    /\ disk' = [k \in Key |->
                  IF k \in KeysOf(c) /\ disk[k] # None /\ ~Holds(disk[k].man)
                  THEN None ELSE disk[k]]
    /\ UNCHANGED <<files, pending, index, mem, render>>

(* invalidateComponent, first half: disk.InvalidateComponent. *)
InvalidateDisk(d, c) ==
    /\ stage[d] = "next"
    /\ c \in left[d]
    /\ left' = [left EXCEPT ![d] = @ \ {c}]
    /\ target' = [target EXCEPT ![d] = c]
    /\ stage' = [stage EXCEPT ![d] = "mem"]
    /\ disk' = [k \in Key |-> IF k \in KeysOf(c) THEN None ELSE disk[k]]
    /\ Overtake([r \in Renderer |->
                   /\ Holding(r)
                   /\ ComponentOf(key[r]) = c
                   /\ \E f \in Watched \ events : StaleOn(reads[r], f)])
    /\ UNCHANGED <<files, pending, index, mem, pc, key, reads, todo>>

(* Mutant: with nothing in memory there is no tab to reload either. *)
InvalidateMemIfCached(d) ==
    /\ stage[d] = "mem"
    /\ stage' = [stage EXCEPT ![d] =
                   IF \E k \in KeysOf(target[d]) : mem[k] # None
                   THEN "reload" ELSE "next"]
    /\ mem' = [k \in Key |-> IF k \in KeysOf(target[d]) THEN None ELSE mem[k]]
    /\ UNCHANGED <<files, pending, left, target, index, disk, render>>

(* invalidateComponent, second half: mem.InvalidateComponent. *)
InvalidateMem(d) ==
    /\ stage[d] = "mem"
    /\ stage' = [stage EXCEPT ![d] = "reload"]
    /\ mem' = [k \in Key |-> IF k \in KeysOf(target[d]) THEN None ELSE mem[k]]
    /\ UNCHANGED <<files, pending, left, target, index, disk, render>>

(* hub.Reload: the tabs showing the component are told to fetch it again. *)
Reload(d) ==
    /\ stage[d] = "reload"
    /\ stage' = [stage EXCEPT ![d] = "next"]
    /\ target' = [target EXCEPT ![d] = None]
    /\ UNCHANGED <<files, pending, left, index, mem, disk, render>>

-----------------------------------------------------------------------------
(* The process ends and starts again.  A change whose event is lost with it  *)
(* is the same as one made while it was down.                                *)
Restart ==
    /\ events' = {}
    /\ pending' = {}
    /\ left' = [d \in Fire |-> {}]
    /\ target' = [d \in Fire |-> None]
    /\ stage' = [d \in Fire |-> "next"]
    /\ index' = [c \in Component |-> {}]
    /\ mem' = [k \in Key |-> None]
    /\ pc' = [r \in Renderer |-> "idle"]
    /\ key' = [r \in Renderer |-> None]
    /\ reads' = [r \in Renderer |-> {}]
    /\ todo' = [r \in Renderer |-> {}]
    /\ origin' = [r \in Renderer |-> "live"]
    /\ disk' = [k \in Key |-> IF disk[k] = None THEN None
                              ELSE [art |-> disk[k].art, man |-> disk[k].man,
                                    origin |-> "warm"]]
    /\ UNCHANGED content

RenderStep(r) ==
    \/ \E k \in Key : MemHit(r, k) \/ MemMiss(r, k)
    \/ DiskHit(r) \/ DiskMiss(r) \/ Promote(r)
    \/ ReadEntry(r) \/ (\E f \in File : ReadSource(r, f)) \/ Fail(r)
    \/ Record(r) \/ MemPut(r) \/ DiskPut(r) \/ DiskPutFails(r) \/ Respond(r)

FireStep(d) ==
    \/ Drain(d)
    \/ \E c \in Component : InvalidateDisk(d, c)
    \/ InvalidateMem(d)
    \/ Reload(d)

(* One process, from its start on. *)
RunStep ==
    \/ \E f \in File : Change(f) \/ Touch(f)
    \/ \E r \in Renderer : RenderStep(r)
    \/ \E d \in Fire : FireStep(d)

Next == RunStep \/ Restart

Spec == Init /\ [][Next]_vars

(* A goroutine that can take a step takes one; the kernel hands over the     *)
(* event of every changed file; a window in which nothing is armed comes.    *)
Fairness ==
    /\ \A f \in File : WF_vars(Touch(f))
    /\ \A d \in Fire :
          /\ WF_vars(Drain(d))
          /\ \A c \in Component : WF_vars(InvalidateDisk(d, c))
          /\ WF_vars(InvalidateMem(d))
          /\ WF_vars(Reload(d))

RunSpec == Init /\ [][RunStep]_vars /\ Fairness

-----------------------------------------------------------------------------
(* Properties. *)

(* The component's entries are still going to be taken out of the disk     *)
(* cache, or out of memory, on account of a change to f.                   *)
DiskCovered(c, f) ==
    \/ f \in events
    \/ c \in pending
    \/ \E d \in Fire : c \in left[d]

MemCovered(c, f) ==
    \/ DiskCovered(c, f)
    \/ \E d \in Fire : stage[d] = "mem" /\ target[d] = c

(* Every source of an artifact this process built and cached is in the      *)
(* dependency index: bundleComponent records before compiledArtifact puts,  *)
(* and no invalidation takes the record back.                               *)
IndexCoversCaches ==
    \A k \in Key :
        /\ mem[k] # None /\ mem[k].origin # "warm"
              => FilesOf(mem[k].art) \subseteq index[ComponentOf(k)]
        /\ disk[k] # None /\ disk[k].origin # "warm"
              => FilesOf(disk[k].art) \subseteq index[ComponentOf(k)]

(* No change is lost on an entry in memory: if a watched file differs from  *)
(* what the entry was built from, its invalidation is still under way.      *)
(* The two ways out the code does have, a build overtaken by its own        *)
(* invalidation and an entry of a former process, are excluded by `origin'. *)
NoLostInvalidation ==
    \A k \in Key, f \in Watched :
        mem[k] # None /\ mem[k].origin = "live" /\ StaleOn(mem[k].art, f)
            => MemCovered(ComponentOf(k), f)

(* The same of the disk cache, where a digest that still holds vouches for   *)
(* the entry: one whose manifest is satisfied and whose artifact is stale is *)
(* about to be removed.                                                      *)
NoStaleDiskEntry ==
    \A k \in Key, f \in Watched :
        disk[k] # None /\ disk[k].origin = "live" /\ Holds(disk[k].man)
              /\ StaleOn(disk[k].art, f)
            => DiskCovered(ComponentOf(k), f)

(* Every stale entry of this process leaves memory, or the edit is undone. *)
StaleEntriesLeave ==
    \A k \in Key, f \in Watched :
        (mem[k] # None /\ mem[k].origin = "live" /\ StaleOn(mem[k].art, f))
            ~> ~(mem[k] # None /\ mem[k].origin = "live" /\ StaleOn(mem[k].art, f))

(* A change to a source the index knows reaches the tabs of its component. *)
ChangeReachesTabs ==
    \A c \in Component, f \in Watched :
        (f \in events /\ c \in DependentsOf(f))
            ~> \E d \in Fire : stage[d] = "reload" /\ target[d] = c

-----------------------------------------------------------------------------
(* What a comment of the code claims, and a run refutes. *)

(* internal/hmr/watching.go:42, of invalidating before reloading: it "must  *)
(* precede Reload, or the tab refetches the stale bundle".  So when the     *)
(* reload of a component goes out, and no further change to it is known,    *)
(* memory holds nothing stale for it.                                       *)
RefetchIsFresh ==
    \A d \in Fire, k \in Key :
        stage[d] = "reload" /\ target[d] = ComponentOf(k) /\ mem[k] # None
            => \A f \in Watched :
                  StaleOn(mem[k].art, f) => MemCovered(ComponentOf(k), f)

=============================================================================
