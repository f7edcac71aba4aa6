---------------------------- MODULE StaticBundles ----------------------------
(***************************************************************************)
(* What is bundled from the module a StaticRegistry publishes: one bundle  *)
(* that imports assets.ts, from the render that builds it or finds it on   *)
(* disk to the caches it is put into, and the invalidation a rebuild asks  *)
(* for.                                                                    *)
(*                                                                         *)
(* A bundle is the graph in the assets.ts it was built from.  `bundle' is  *)
(* what memory answers, or disk for a bundle this process put there; it    *)
(* was built from another graph than the module's by now when it is stale. *)
(* An entry of a former process is on disk only and answers as long as the *)
(* digest of assets.ts holds.  Renders share nothing here but the caches   *)
(* and the index; one is under way at a time, and RenderCache has several. *)
(*                                                                         *)
(* `late' and `overtaken' are history: the render's bundle was outdated    *)
(* when an invalidation passed it by, and so was the one in the caches.    *)
(***************************************************************************)
EXTENDS StaticRegistry

VARIABLES
    bundle,     \* the graph inside the cached bundle
    former,     \* that inside the disk entry of a former process
    indexed,    \* the dependency index has assets.ts for the component
    stage,      \* where the render is
    held,       \* the graph inside the bundle it holds
    late, overtaken  \* history

caches == <<bundle, former, overtaken>>
render == <<stage, held, late>>
bundles == <<caches, indexed, render>>
bvars == <<vars, bundles>>

BundlesTypeOK ==
    /\ TypeOK
    /\ bundle \in Graph \cup {None}
    /\ former \in Graph \cup {None}
    /\ indexed \in BOOLEAN
    /\ stage \in {"idle", "hit", "built", "put", "store"}
    /\ held \in Graph \cup {None}
    /\ late \in BOOLEAN
    /\ overtaken \in BOOLEAN
    /\ stage = "idle" <=> held = None
    /\ stage = "built" => bundle = None

(* The index is not persisted: a process begins with what is on disk. *)
BundlesInit ==
    /\ Init
    /\ bundle = None
    /\ former \in Graph \cup {None}
    /\ indexed = FALSE
    /\ stage = "idle"
    /\ held = None
    /\ late = FALSE
    /\ overtaken = FALSE

-----------------------------------------------------------------------------
(* A render: compiledArtifact, once New has returned. *)

Started == phase \notin {"boot", "mounted", "failed"}

(* FromDisk: the digest of assets.ts is checked. *)
DiskHit ==
    /\ Started /\ stage = "idle" /\ bundle = None
    /\ former # None /\ former = module
    /\ stage' = "hit"
    /\ held' = former
    /\ UNCHANGED <<caches, indexed, late>>

(* Mutant: what is in memory is built all the same. *)
BuildAnyway ==
    /\ Started /\ stage = "idle"
    /\ stage' = "built"
    /\ held' = module
    /\ UNCHANGED <<caches, indexed, late>>

(* Neither cache has the bundle, or the disk entry cannot be read: esbuild    *)
(* reads assets.ts.                                                           *)
Build ==
    /\ Started /\ stage = "idle" /\ bundle = None
    /\ stage' = "built"
    /\ held' = module
    /\ UNCHANGED <<caches, indexed, late>>

Done == stage' = "idle" /\ held' = None /\ late' = FALSE

BuildFails ==
    /\ stage = "built"
    /\ Done
    /\ UNCHANGED <<caches, indexed>>

Record ==
    /\ stage = "built"
    /\ stage' = "put"
    /\ indexed' = TRUE
    /\ UNCHANGED <<caches, held, late>>

(* mem.Put: a promoted bundle is not recorded. *)
Put ==
    /\ stage \in {"hit", "put"}
    /\ bundle' = held /\ overtaken' = late
    /\ IF stage = "hit" THEN Done ELSE stage' = "store" /\ UNCHANGED <<held, late>>
    /\ UNCHANGED <<former, indexed>>

(* disk.Put replaces the entry there was. *)
Store ==
    /\ stage = "store"
    /\ bundle' = held /\ overtaken' = late /\ former' = None
    /\ Done
    /\ UNCHANGED indexed

StoreFails ==
    /\ stage = "store"
    /\ Done
    /\ UNCHANGED <<caches, indexed>>

Render == DiskHit \/ Build \/ BuildFails \/ Record \/ Put \/ Store \/ StoreFails

-----------------------------------------------------------------------------
(* invalidateForSource drops what the index has for assets.ts, which is no    *)
(* component's file.  A render under way keeps what it has read.              *)
Invalidate ==
    /\ IF indexed
       THEN bundle' = None /\ former' = None /\ overtaken' = FALSE
       ELSE UNCHANGED caches
    /\ late' = (late \/ held \notin {None, module})
    /\ UNCHANGED <<indexed, stage, held>>

Reports(w) == Notify(w) /\ changed[w]

BundlesNext ==
    \/ Render /\ UNCHANGED vars
    \/ Next /\ IF \E w \in Worker : Reports(w) THEN Invalidate ELSE UNCHANGED bundles

BundlesSpec == BundlesInit /\ [][BundlesNext]_bvars

(* A render may end or stay away; the registry's goroutines are fair. *)
FairBundlesSpec == BundlesSpec /\ Fairness

-----------------------------------------------------------------------------
(* Properties. *)

(* A cached bundle with an older graph than the published module has a       *)
(* rebuild about to invalidate it: the change is detected before the module  *)
(* is written.  There are four other ways: rebuilds overlapped, or a file    *)
(* could not be written; the render put it after the invalidation, having    *)
(* read the module before; or it came off disk, and nothing indexed it.      *)
StaleBundleIsDropped ==
    bundle \notin {None, module} =>
        \/ \E w \in Worker : At(w, "notify") /\ changed[w]
        \/ mishap \in {"overlapped", "failed"}
        \/ overtaken
        \/ ~indexed

(* A cached bundle names no URL the endpoint would not resolve, but for the  *)
(* time from the swap of the manifest to the invalidation, and but for the   *)
(* same four.                                                                *)
NoDanglingURL ==
    bundle # None /\ mishap \notin {"overlapped", "failed"} /\ ~overtaken /\ indexed =>
        \/ URLs(bundle) \subseteq URLs(manifest)
        \/ \E w \in Worker : pc[w] \in {"compare", "write", "notify"}

=============================================================================
