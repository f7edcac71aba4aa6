# A verification project for go_solid

go_solid is a Go library that server-side hosts SolidJS components: a request handler names a component, the
library bundles it with esbuild, caches the artifact in memory and on disk, writes an HTML page around it,
and in development keeps the browser current by watching the sources. This directory holds TLA+ models of
the parts of it that have state shared between goroutines, processes or files, the TLC configurations that
check them on small instances, and TLAPS proofs of the properties that matter most, for every value of the
constants.

Paths below are relative to the repository (`src/` in `PROJECT.json`).

## 1. Inventory

### Parts, their state, their operations

| Part | State | Operations |
|---|---|---|
| Render pipeline (`render.go`, `bundler.go`) | none of its own; one goroutine per request | `render0`: behaviour, check of the props, `compiledArtifact` (caches, else bundle), server rendering, assembly of the page |
| Memory cache (`internal/caching/memcache.go`) | `entries`, under a RWMutex | `Get`, `Put`, `InvalidateComponent`, `ComponentsInFile`, `Clear` |
| Disk cache (`internal/caching/diskcache.go`) | three files per entry (js, css, manifest) and an in-process index of manifests, under `dc.mu` | `Get` (compares digests of the recorded sources), `Put`, `InvalidateComponent`, `lockedEnsureIndex` |
| Dependency index (`internal/depindex.go`) | component -> sources of its bundles, grows only, not persisted | `Record`, `DependentsOf` |
| HMR watcher (`internal/hmr/watching.go`) | `pending` set of components, a debouncer, a directory watcher | `touched` -> `enqueue`; on fire `drain`, then per name `invalidate` and `Reload`; `Stop` |
| HMR hub (`internal/hmr/hmr.go`) | open websocket connections by component | `ServeHTTP`, `Reload` with a write timeout |
| Debouncer (`internal/watching/debounce.go`) | timer, `stopped`, WaitGroup | `Arm`, `fire`, `Stop` |
| Directory watcher (`internal/watching/directoryWatcher.go`) | the kernel's watch list, one loop goroutine | `addTree`, `handle`, `Stop` |
| Component registry (`internal/registry.go`) | name -> file map, adopted inline components, watcher | `Reload`, `AddFile`, `RemoveFile`, `Adopt`, `Lookup`, `MakeReactive`, `Close` |
| Static registry (`internal/static/registry.go`, `manifest.go`) | `manifest`, the published module `assets.ts`, debouncer, watcher | `EnsureDisabled`, `NewStaticRegistry`, `rebuild`, `watch`, `Handler`, `Close` |
| Types cache and checker (`internal/types/cache.go`, `checker.go`) | shapes by component with the stamps and digests of their sources, in memory and on disk | `Get`, `Put`, `Prune`, `Invalidate` |
| Types extraction (`internal/types/*.go`) | none | shape of a component's props, comparison with the Go value |
| SSR programs (`internal/ssr/programs.go`) | compiled server programs with a stamp | lookup, `Invalidate` |
| Source readers (`internal/sources`, `internal/hashing`) | files held in memory for inline components | read through the overlay, stamp, digest |
| Request behaviour (`shared/networking`, `renderCallBuilder.go`) | per-request handler chains, default transmitters, commit state | `ForRequest`, `SetHTTPBehaviour`, dispatch along an event's ancestry |
| Inline components (`anonymous.go`) | entries adopted into the registry, text held by the overlay | `Anonymous`, `Adopt` |
| Atomic writes (`internal/io/atomic.go`) | a staged file | stage, rename, bounded retry |
| Configuration, rasterization, mux adapters, templates, logging, the example | none after start | normalisation and text |

### How they interact

- A **render** looks into memory, then disk, then bundles. It shares both caches and the dependency index
  with every other render and with the watcher; it takes no lock across two of these steps.
- The **HMR watcher** inverts the dependency index (`DependentsOf`) to turn a changed file into component
  names, collects them behind a **debouncer**, and on fire calls `invalidateComponent` (disk, memory, types,
  SSR, in this order) and then the **hub**, which makes the tabs refetch.
- The **registry** and the **static registry** each have a directory watcher. They call
  `invalidateComponent` and `invalidateForSource` of `bundler.go`, from goroutines of their own.
- The **static registry** publishes a module bundles import, so a change of an asset is a change of a
  source, reported by callback instead of through the HMR watcher.
- The **disk cache** is the only state that outlives the process, besides the types cache.

### What is hard in it

1. A build reads its sources, and much later puts an artifact into two caches, while the watcher invalidates
   them: is any stale entry left behind, and for how long?
2. Fires of one debouncer run on goroutines of their own and may overlap.
3. `Stop` and `Close` race with timers that have expired and goroutines already launched.
4. State is checked under a lock and used after it (`FromDisk`; a stamp taken before or after a read).
5. Several files stand for one thing (a disk entry, the static module) and are written one by one.
6. A process ends between two writes, and the next one trusts what it finds.

7. A tree of directories changes while it is walked; what the walk finds and what the kernel reports arrive
   in no order, and a report can be lost.
8. A name and the file it stands for come apart: two files of one name, a `Reload` that replaces what a
   callback has just changed, components that exist in memory only.
9. Handlers of the consumer's and of the library's answer one request, in an order that decides what the
   client gets.
10. What Go will send is predicted from its type and compared, as text, with what TypeScript declares.

The 40 places where this bites are the `hazards` of `PROJECT.json`, each with the properties that cover it,
and a note where the code does go wrong there: such a way is named in the property, which says that there is
no other. Where all that a property does about a hazard is to except it, none is listed.

### What makes each part correct

| Part | It is correct when |
|---|---|
| Caches, index, watcher | no change of a watched source is lost on a cached artifact; whatever is cached has its sources in the index; every change reaches the tabs |
| Debouncer | no arming is lost; after `Stop` nothing runs; the WaitGroup is used within its contract |
| Static registry | at rest the manifest and the published module are the directory; no cached bundle names a URL the endpoint does not resolve; closed means quiet |
| Disk cache's files | what `Get` returns is the artifact of one `Put`, whatever crash or failure cut an operation short |
| Registry and directory watcher | at rest the map is the tree; every file under a new directory is announced; after `Stop` no callback runs |
| Types and SSR caches | an entry whose stamp holds was made from those contents |
| Request behaviour | the status is committed once, whoever speaks first decides it, an error ends the dispatch, defaults are registered once |
| Comparison of props | what is admitted fits the declared type; what is refused could have misfitted |

## 2. The modules

| Module | Models | Extends or instantiates |
|---|---|---|
| `RenderCache` | render pipeline, both caches, dependency index, HMR watcher, restarts | |
| `Debouncer` | `internal/watching/debounce.go` | |
| `StaticRegistry` | the static registry | **instantiates `Debouncer`** |
| `StaticBundles` | a bundle of the module it publishes: its render, the caches, the index, the invalidation | **extends `StaticRegistry`** |
| `DirectoryWatcher` | `internal/watching/directoryWatcher.go`, the tree and the kernel's queue | |
| `ComponentRegistry` | `internal/registry.go` | **extends `DirectoryWatcher`** |
| `ComponentCaches` | renders of its components, the caches, the index, the reactive invalidation of `bundler.go` | **extends `ComponentRegistry`** |
| `AtomicStore` | what the disk cache promises | |
| `DiskStore` | the disk cache's files, `internal/io/atomic.go` | **implements `AtomicStore`** |
| `SourceCaches` | the extractor's parsed files, the types cache, the programs of server rendering | |
| `Events` | the ancestry of networking events | |
| `RenderCall` | the render call builder, the request behaviour, `render0`'s stages, dispatch | extends `Events` |
| `Props` | mapping of Go types to TypeScript, comparison of shapes, marshalling | |
| `MC...` | definitions for the `.cfg` files only | the module of the name |
| `RequestProofs` | theorems about `Props` and `RenderCall` | both; they share no variable |
| `...Proofs` | theorems, section 5; those about `StaticBundles` and `ComponentCaches` are with the registry they extend | the module of the name |

Mutants are operators defined just before the action they replace and commented as such; no action uses
them. Variables called *history* are read by no guard.

### RenderCache

An artifact is abstracted to the set of `<<file, content>>` pairs its build read; it is stale when one of
the files holds something else. A step is one critical section or one file read.

| Variable | In the code |
|---|---|
| `content`, `events` | the source files; changed files the watcher's goroutine has yet to look at |
| `pending`, `left`, `target`, `stage` | `Watcher.pending`; what each fire has drained, works on, and does next |
| `index`, `mem`, `disk` | `DependencyIndex`, `MemCache.entries`, the disk cache's entries: artifact and manifest of digests |
| `pc`, `key`, `reads`, `todo` | where each render is in `compiledArtifact`, its cache key, what its build has read and has still to read |
| `origin` | history: see below |

A render goes `MemHit`, or `MemMiss` then `DiskHit`, `Promote`; or `DiskMiss`, `ReadEntry`, `ReadSource`
(one per file of the graph, imports depending on what the file holds), `Record`, `MemPut`, `DiskPut` or
`DiskPutFails`; then `Respond`. `Fail` is every error return of the build. The watcher goes `Touch`
(dependents become pending), `Drain`, and per name `InvalidateDisk`, `InvalidateMem`, `Reload`. `Change` is
the editor; `Restart` ends the process at any point and keeps only disk and sources.

Two abstractions are worth an argument. The window of the watcher's debouncer is "`pending` is not empty and
a fire is free": this is what `Debouncer` guarantees (`NoArmLost`, `ArmedRuns`). And `Touch` is one step
though `touched` reads the index and locks `pending` in two: a step of another goroutine in between commutes
with one of the two.

`origin` says what has become of the reads behind an artifact: `"live"`; `"overtaken"`, when the
invalidation for a file the build had read went by before the build reached the caches; `"warm"`, for an
entry of a former process. The code really loses changes on the latter two (section 6). The invariants state
that these are the *only* ways.

### Debouncer

`timer` (would `Timer.Stop` still stop it), `stopped`, the fire goroutines (`idle`, `launched`: the timer
expired but the lock is not held yet, `running`), the WaitGroup's counter, the callers of `Stop`. Actions:
`Arm`, `Expire`, `Begin`, `GiveUp`, `End`, `Stop`, `StopReturns`. `owed` is history: an `Arm` took effect
and no call of `fn` began since.

### StaticRegistry

`D == INSTANCE Debouncer` brings the debouncer's variables and actions in; `Handle` conjoins `D!Arm`,
`Begin` conjoins `D!Begin` with the listing of the directory, every return of a fire's `rebuild` is `D!End`,
and `Close` goes through `D!Stop`.

| Variable | In the code |
|---|---|
| `dir`, `events` | the asset directory, and file system events not yet handled |
| `phase` | start (`boot`, `mounted`), `up`, `Close` (`closing`, `stopping`, `closed`), or a failed start |
| `pc`, `todo`, `seen`, `changed` | each run of `rebuild`: step, assets listed and unread, what was read, `changedBefore` |
| `manifest`, `module` | `enabledStaticRegistry.manifest`; the graph inside `assets.ts` |
| `mishap` | history: an edit nobody was told of (`missed`), overlapping rebuilds, an I/O failure |

`rebuild` is `List`, `Read` per asset, `Swap` (the manifest), `Compare`, `Write` (`assets.ts`), `Notify`
(`onChange`), with `ScanFails` (an asset vanished, two names clash), `FragmentFails` and `WriteFails` as its
error returns. The directory is flat, and the hash in a URL is taken to be free of collisions.

### StaticBundles

The registry promises something to bundles that import its module, and they are made by renders that know
nothing of it. One component, whose bundle is the graph its build read in `assets.ts`; a render goes
`DiskHit`, or `Build`, `Record`; then `Put`; then `Store` or `StoreFails`; or it ends in `BuildFails`.

| Variable | In the code |
|---|---|
| `bundle` | the artifact in memory, or on disk if this process put it there |
| `former` | the disk entry of a former process, which a new one finds and does not index |
| `indexed` | whether the dependency index has `assets.ts` for the component |
| `stage`, `held` | where the render is, and the bundle it holds |
| `late`, `overtaken` | history: an invalidation passed while the render held a bundle of an older module; it was put all the same |

`Notify` conjoins `Invalidate`, which drops what the index has and nothing else. A render is between any two
of the registry's steps. `RenderCache` has several renders; here one suffices, since a second shares no more
with it than a second later one does.

### DirectoryWatcher

The tree (`dirs`, `files`; its shape is the constant `Above`) changes at any time: files are created,
written and deleted, directories made, removed, or moved out with the files in them. What changes in a
watched directory is appended to `queue`, which holds `QueueSize` events and drops the next. The one
goroutine either walks (`walk`: what `addTree` has still to visit or to list; `Watch`, `List`, `Announce`,
and their failures, which `Abandon` the walk), or is in a callback (`calling`, until `Return`), or receives
(`HandleDir`, `HandleFile`). `phase` goes from the constructor (`boot`, whose walk is silent) to `Stop`,
which waits for the loop.

`known` is history: the files callbacks last reported present, which is what an owner that had read the tree
before asking for the watch would have. `mishap` is history too, and names the five ways in which a change
goes unreported: `blind` (before the watch is there, at the start), `overflow`, `abandoned` (a directory of
the walk vanished), `moved` (a directory left with its files), `remade` (a directory removed and made again
beneath a walk). Nobody wrote the last one down: TLC found it, as a queued removal of a file that is handled
after the walk has announced the new file of the same path.

### ComponentRegistry

| Variable | In the code |
|---|---|
| those of `DirectoryWatcher` | the watcher, whose callbacks are refined here: `calling` is in `AddFile`, `RemoveFile`, then `onTouch` or `onDrop` (`step`) |
| `components` | the map; `None` for a name it does not have |
| `reloading`, `todo`, `found` | a running `Reload`: directories unlisted, and its own map |
| `mu` | whether `Close` is between its critical section and `watcher.Stop()` |
| `adopted`, `upset` | history: `Adopt` since the last `Reload`; how the map was led astray (`clash`: two files of one name; `raced`: an event handled during a `Reload`; `ahead`: a `Reload` in a directory not watched yet; `dropped`: a `Reload` took a name) |

### ComponentCaches

What the registry's `onTouch` and `onDrop` are for. A render is `Lookup`, which leaves it with a file; then
`MemHit`, `DiskHit`, or `Miss` and `ReadSource` by source; `Record`; `Put`; `Store` or `StoreFails`.

| Variable | In the code |
|---|---|
| `cached`, `age` | what memory (or disk, of what this process put there) has by selector: the file it was built from, and whether its sources are as they were (`fresh`), not (`stale`), or not and the invalidation passed before it was put (`overtaken`) |
| `former` | the disk's entries of a former process |
| `index` | `DependencyIndex` |
| `at`, `chosen`, `held`, `heldAge`, `unread` | where the render is, its selector, the file it was given, how old what it has read is, and what it has still to read |

`OnTouch` is conjoined with `InvalidateForSource`: the dependents the *index* has, and every selector of the
file's name if the registry has that. `OnDrop` is conjoined with `InvalidateComponent`, which is told the
name and takes it for a selector. Every change of a file is to what no file held before; an edit that is
undone would make artifacts current again, which is in `RenderCache`.

### AtomicStore and DiskStore

An entry is a script, a style sheet for artifacts that have one, and a manifest, written in this order, each
staged and renamed (`Stages`, `RenameBlocked` up to `Attempts`, `RenamesJS`/`CSS`/`Manifest`, `PutFails`) and
removed in this order, errors ignored (`RemovesJS`/`CSS`/`Manifest`). `Restart` ends the process between any
two calls; the next one reads the directory once (`EnsureIndex`). A write fails before any rename is tried,
with its temporary file there or not, or when the last rename is refused (`FirstOrLast`). `Get` changes
nothing and is the operators `Hit` and `Got`.

`AtomicStore` is what remains of that for somebody who cannot look while `dc.mu` is held: a key has an
artifact or nothing; a `Put` that was cut short over an existing entry may leave it `Torn` (of two
artifacts), a removal that failed may leave it torn or a `Husk` (a manifest without a script). The mapping
is `value[k] <- Entry(k)`, or what it was before the operation (`was`), and `visible <- Known`. `spoilt` is
history: the keys such a thing happened to.

### SourceCaches

Each preparer (a render's goroutine) either asks the program cache (`SsrStamp`, `SsrLook`, `SsrRead`,
`SsrStore`), or the types cache: memory (`MemLook`, `StampsHold` file by file), disk (`DiskLook`,
`DigestsHold`), the extractor (`FileStamp`, `FileHit`, `FileMiss`, `FileRead`, `FileKeep`, and `Resolve`
over the candidates of an import), then `RememberStamp` and `Digest` file by file, `Remember`, `Publish`.
Between any two, files are edited, created and deleted, components invalidated, and the process ends; the
next one prunes.

A stamp is the number of the edit that left it: the code has equal stamps mean equal text
(`internal/sources/sources.go:20`), and an edit within the clock's resolution that keeps the size is assumed
away with it. A text declares the props type itself or imports it from the first candidate that exists; what
it imports in turn is cut off.

History: `still` (nothing was edited during this call) and `upset`, the three ways a type is vouched for
that is not what the files say: `overtaken` (an edit between the read and the mark), `appeared` (a candidate
earlier than the one found was created: it is no source of the extraction), `vanished` (an import gone
between being found and being read).

### Events and RenderCall

`Events` has the types and categories, the graph `init` builds and `DynamicAncestry`, as the set of the types
whose handlers an event runs: an event's own type and its categories, nothing for an event in no list.
`RenderCall` is a builder whose caller configures it (`SetHTTPBehaviour`, `Upon`, `CodeUpon`, `With`,
`ForRequest`), renders, and does so again. `Render` goes through `Stages`, each of which passes or fails;
`Fail` and `Transmit` dispatch an event.

| Variable | In the code |
|---|---|
| `handlers`, `middleware`, `writer`, `committed` | `RequestBehaviour`: `Handlers`, `Middleware`, `W`, `statusWritten` |
| `faults` | `renderFaults`, which `Prepare` and `Anonymous` leave for `Render` to report |
| `stage`, `running`, `failed` | where `render0` is, the middleware it has still to run, whether it returns an error |
| `event`, `lineage`, `chain` | the event under dispatch; the rest of its ancestry; the rest of the handlers of the type under way |
| `client` | what `net/http` has sent to each writer: the first status, how often a status was set, bodies |
| `asked`, `fresh`, `ran` | history: the writer last asked for; whether it was unused when `Render` began; the middleware and handlers that ran |

Middleware is handed the behaviour and handlers the raw writer, so both are `Actor`s: each may do nothing,
write a body, call `WriteHeader`, or commit a status, and return an error or not; a middleware may also add a
handler (`MiddlewareFn`). `Sent`, `Written` and `Committed` are what this does to the response: `net/http`
sends the first status it is given, and a `Write` sends 200 if there was none.

A dispatch is the two nested loops of the code: `NextType` takes the narrowest type left, by `Narrower`,
which is the order `init` sorts the ancestry in, and then each of its handlers is a step (`Respond`,
`HandlerFails`, `HandlerReturns`) that goes on (`Continue`) or ends both loops (`Stop`). `WithDefaults`
applies the bundler's defaults one after the other, by a recursive function.

### Props

No concurrency here, but a contract between two type systems. `props` is any value of a Go type built from
`StructType` (fields with tags, options and kinds; structs embedded by value or pointer) or a map;
`ShapeOfValue` is what `Mapper` makes of its *type*, `Violations` the comparison with a declared shape,
`MarshalProps` the JSON that is sent. The two actions are `OnPrepare` and `DoRender`.

The JSON is the reference the mapper is held against, so it is stated by rules of its own, those of
`encoding/json/v2`: the struct is visited breadth first, a type met again is not expanded again (`Visited`),
and of the fields of a name the one that `Dominates` all others is sent. The mapper goes depth first and
forgets what it has left (`Collect`) and picks by depth, then tag (`PickField`). That the two agree is proved
(`SameFields`) of all structs but those that embed a type with embeddings by two ways. Kinds whose encoding is
not what the mapper says are there (`array`: `[N]byte`, which is sent as base64; `own`: a type with a
marshaller), and so is the tag option `string`.

Declared types are sets of the members of a union, compared as text, so a member is a *spelling*: `Members`
gives the values each stands for, and several stand for the same (`alias` and `Array` for what the mapper
spells `string` and `strings`, `any` for `unknown`).

`collect`'s recursion over embedded structs is a function of the depth (`AtDepth`), and `MaxDepth` is any
depth at which nothing is embedded any more (`StructAssumption`). It is not the mapper's own `maxDepth`, at
which nested object types are cut off: `collect` embeds at any depth. A type that embeds itself through a
pointer, which `seen` cuts off, is outside the assumption.

## 3. The runs

| Run | Instance | Result |
|---|---|---|
| `cache` | one render, two fires that may overlap, a file whose imports depend on its content, restarts at any step | neither cache keeps an entry an invalidation should have taken |
| `cache_live` | two components out of one file, under fairness | stale live entries leave memory; changes reach the tabs |
| `debouncer` | three fires, two callers of `Stop` | `Stop` is final, no `Arm` is lost, an armed window runs |
| `static` | two clashing assets, two fires, start, failures, `Close`, a render at any point, a disk entry of any graph at the start, under fairness | at rest current, and it gets there; closed is quiet; a stale bundle is about to be dropped and no cached one names a URL that does not resolve, but for the four ways named |
| `registry` | `Foo.tsx` at the top and `Foo.jsx` in a directory in a directory, two events, a `Reload`, an `Adopt` or `Close` at any point | at rest all directories are watched, all files known and the map is the tree; `Close` returns and is final |
| `caches` | a component that imports a style sheet in a directory; it and an export of it rendered, with anything on disk at the start | what is cached at rest is current, or one of the ways named |
| `disk` | two entries of one component, two artifacts of which one has a style sheet, three attempts | what `Get` returns is current; the index is the disk; no temporary file stays; `dc.mu` is given back; it implements `AtomicStore` |
| `sources` | two preparers, one component, one import candidate, two texts, two edits, one restart | what a stamp or digest vouches for is what the files say, but for the three ways |
| `call` | up to three configuring calls around up to two renders, two writers; middleware that writes, that commits a status and fails, that adds a handler; handlers that fail or send a header | what the client gets is what the order of middleware and handlers promises |
| `props` | a single field of each of 10 kinds and 4 options; fields shadowed, tied and promoted over two levels of embedding, one type embedded twice; maps; 15 declared types, five of them in spellings the mapper does not use, each optional or not | what is admitted fits; what is refused could misfit |
| `refetch` | violation | a tab told to reload can be served the stale bundle again |
| `call_anonymous` | violation | an inline component that cannot be normalised is answered by nothing, hence with an empty 200 |

The two violations are the `findings` of `PROJECT.json`, each with the sentence of the code it contradicts.
Every property of a passing run has a mutant under which TLC finds it violated.

**Bounds.** Contents `x`, `y` and "no file" suffice to make an artifact stale, undo the edit and delete the
file; in `cache` the second file (`lib`) is reached only while the first holds `x`, so the set of sources
changes between builds. More renders and fires only repeat the races of these, and the proofs cover any
number. `page` and `part` are two components out of one file, the one case in which a change has more than one
dependent. `static` has one content but two assets whose names come to one key, so a graph is empty, either
asset, or (both) an error. `MaxEvents = 1` holds back edits while an event is unhandled. It does not hold back
events during a rebuild, which is what matters. `registry` has a queue of two events, and its two
files have one name, so that either is enough to make and unmake the other's entry; what more queued events,
files and names do is in the proofs. `disk` allows a rename to be tried
three times for the code's hundred. `caches` and `static` have one render at a time, which meets every step
of the callbacks and rebuilds; two renders at once are `cache`'s. In `sources`, two edits are what an edit and
its undoing, or a file vanishing and coming back, take. `props` has a single field name; ties and shadowing
need only one; its `MaxDepth` is the two levels its structs embed. The models with counters (`MaxEdits`,
`MaxRestarts`, `MaxCalls`, `MaxRenders`, `MaxEvents`, `Attempts`, `QueueSize`) name them as constants.

**Constraints.** Four runs do not explore what follows a history the properties exclude for good: `Faultless`
(`registry`: no mishap, no clash, no event handled during a `Reload`), `Quiet` (`sources`: `upset` empty; it
never empties again), `NoMishap` (`static`: no I/O failure, no overlapping rebuilds), `Enough` (`caches`: no
mishap, and neither an `Adopt` nor a `Close`, of which no cache takes notice). `CloseEnds` is hence checked of
behaviours without a mishap; `QuietOnceStopped` and `ClosedIsQuiet`, which hold after one too, are proved
without the constraint, and so is what `SettledIsKnown` and `SettledIsWatched` say after the mishaps that are
not their own exceptions. `Apart` (`sources`) has a behaviour use either the program cache or the types cache,
which share nothing but the files. The proofs assume none of these.

`CHECK_DEADLOCK FALSE` is set where a system at rest, closed, or out of its bound has nothing to do.
**Symmetry** is used for goroutines in safety runs only.

**Fairness.** Weak fairness of each goroutine's next step: Go's scheduler is preemptive and these goroutines
hold no lock while blocked. Weak fairness of `Touch`, `Handle` and the watcher's `Step`: the loop receives
from fsnotify's channel for as long as it is not stopped. Strong fairness of `LoopEnds`: the loop's `select`
picks at random among what is ready, so that a closed `stopCh` is seen however many events keep coming. Weak
fairness of "the window elapses": it assumes that edits pause for a window; under edits that never pause the
code defers forever, and without a clock the model does not say so. Callbacks return. Nothing is assumed of
editors, requests, callers of `Stop` or renders: nothing in `cache_live` relies on a render going on.

## 4. Properties worth reading

- `NoLostInvalidation`, `NoStaleDiskEntry`: a stale entry still served has its invalidation under way: the
  event is queued, or the component is pending, drained or being worked on. They relate the cache, the
  source files, the watcher's four variables and the order of `invalidateComponent`.
- `NoAddDuringWait`: the WaitGroup's contract, which the race detector would only report when it happens.
- `StaleBundleIsDropped`, `NoDanglingURL`: the order swap, compare, write, notify in `rebuild`, against the
  steps of a render that has read the module before, and an index that knows only what this process built.
- `SettledIsCurrent`, `CatchesUp`: a rebuild that failed because an asset vanished while it read is made up
  for by the event of the removal.
- `SettledIsKnown`, `SettledIsWatched`: whatever happens to a tree while it is walked, the walk's
  announcements and the kernel's events add up, in the order the one goroutine handles them, to the files
  there are.
- `SettledIsTree`: the same of the registry's map, with `Reload` replacing and `Adopt` extending it at any
  point.
- `StaleOnlyIfGone`, `PlainGoesWithFile`: what a cached artifact may be at rest, however the steps of a render
  fall between those of the callbacks; the first names the holes `onDrop`, a late put and the index leave.
- `IsAtomicStore`, `GetIsCurrent`: three files and an index read once amount to one store, through failures
  and ends of the process; what the code calls non-fatal is all that can tear an entry.
- `VouchedTypeIsCurrent`, `StillCallIsExact`: stamps taken *after* the read vouch for the wrong text in
  three ways only; `StampedTextIsCurrent`: stamps taken *before* it never do.
- `OwnTypeDecides`, `SuccessIsTransmitted`: the status is that of whoever speaks first, a middleware or a
  handler of the event's own type, and `CommitStatus` writes one header at most; a `Render` without an error
  was answered with a body.
- `AcceptedFits`, `RefusalIsEarned`: the checker neither lets through nor refuses without cause, but for what
  they name; the encoder they appeal to chooses fields by its own rule.

## 5. What is proved

For all values of the constants, from the named assumptions of the modules and nothing else:

| Theorem | States |
|---|---|
| `RenderCacheProofs` `TypeInvariant`, `IndexCoverage` | `TypeOK`, `IndexCoversCaches` |
| `RenderCacheProofs` `MemoryNeverStale`, `DiskNeverStale` | `NoLostInvalidation`, `NoStaleDiskEntry` |
| `DebouncerProofs` `TypeInvariant`, `StopFinal`, `WaitGroupSafe`, `ArmsKept` | `TypeOK`, `StopIsFinal`, `NoAddDuringWait`, `NoArmLost` |
| `StaticRegistryProofs` `BundlesTypes` | `BundlesTypeOK` of `StaticBundles`, from `TypeInvariant` of the registry and that it starts with a module written (`WroteInvariant`) |
| `StaticRegistryProofs` `StaleBundles`, `BundlesResolve` | `StaleBundleIsDropped`, `NoDanglingURL` of `StaticBundles` |
| `StaticRegistryProofs` `UsesDebouncer` | `Spec => D!Spec`: it drives its debouncer as `Debouncer` allows |
| `StaticRegistryProofs` `QuietOnceClosed`, `SettledCurrent` | `ClosedIsQuiet`, `SettledIsCurrent` |
| `DiskStoreProofs` `TypeInvariant`, `NoneLeft`, `IndexMatchesDisk`, `HitsAreCurrent` | `DiskTypeOK`, `NoTemporaryLeft`, `IndexIsDisk`, `GetIsCurrent` |
| `DiskStoreProofs` `ImplementsStore` | `DiskSpec => Store!AtomicSpec` |
| `DirectoryWatcherProofs` `TypeInvariant`, `StopQuiets` | `TypeOK`, `QuietOnceStopped` |
| `DirectoryWatcherProofs` `EveryDirectoryWatched`, `EveryFileKnown` | `SettledIsWatched`, `SettledIsKnown` |
| `ComponentRegistryProofs` `UsesWatcher`, `RegistryTypes` | `RegistrySpec => Spec` of the watcher; `RegistryTypeOK` |
| `ComponentRegistryProofs` `MapIsTree` | `SettledIsTree` |
| `ComponentRegistryProofs` `CachesTypes`, `PlainGoes`, `CachedIsFresh` | `CachesTypeOK`, `PlainGoesWithFile`, `StaleOnlyIfGone` of `ComponentCaches` |
| `SourceCachesProofs` `TypeInvariant`, `StampsVouch` | `TypeOK`, `StampedTextIsCurrent` |
| `SourceCachesProofs` `TypesVouched`, `CallsExact` | `VouchedTypeIsCurrent`, `StillCallIsExact` |
| `RequestProofs` `RenderTyped` | `TypeInv` of `RenderCall`: every reachable state of a call is well typed |
| `RequestProofs` `ErrorIsLast`, `DefaultsOnce` | `ErrorStops`, `StartsOver` |
| `RequestProofs` `FirstSpeaks`, `SuccessTransmits` | `OwnTypeDecides`, `SuccessIsTransmitted` |
| `RequestProofs` `AdmittedFit`, `RefusedMisfit` | `AcceptedFits`, `RefusalIsEarned` |

The inductive invariants:

- `IndexCoversCaches` speaks of what is cached, so it needs the same of what is about to be
  (`RendersIndexed`): a render past `Record`, or one that took a live entry from disk, has its reads in the
  index. `Record` precedes both puts and the index only grows.
- `NoLostInvalidation` is carried by `Covered`. Every live stale disk entry has its invalidation under way
  whether or not its digests hold (`DiskEntriesCovered`), since an edit may be undone and redone; so has
  every render holding live stale reads (`RendersCovered`), since the step that carries the invalidation out
  marks those renders overtaken; and a render that has read nothing holds nothing (`FreshRendersEmpty`).
  `Touch` makes the right components pending because of `IndexCoverage`. Memory follows disk, being
  invalidated second.
- `StopIsFinal` needs that the counter is the number of running fires (`Counted`, by the cardinality facts
  of `FiniteSetTheorems`) and that a caller past its critical section has set the flag (`FlagSet`).
- `StaleBundleIsDropped` and `NoDanglingURL` need that calm rebuilds run one at a time (`Alone`), that
  manifest and module agree except between `Swap` and `Write` (`Published`), and that `changed` is right
  when the write comes (`Detected`). A step of the registry then either keeps the module or leaves a report
  `Coming`, and only the report ends that (`Watchful`); what a render holds is outdated only if it is late or
  the report is to come (`BundlesInv`). Since `StaticBundles` adds no guard to the registry's steps, what is
  proved of the registry holds beside any render (`RegistrySteps`).
- `ClosedIsQuiet` is proved from the debouncer's own theorem: the registry implements `Debouncer` on its
  variables (`UsesDebouncer`), so its inductive invariant holds; `Wired` ties its running fires to the
  workers in `rebuild`, and `closed` to a returned `Stop`. `SettledIsCurrent` needs besides that the running
  rebuild has seen every asset as it is, or an event, an armed timer or a launched fire follows it
  (`Following`, `Tracks`).
- `GetIsCurrent` and the refinement have one invariant (`IInv`): how far each operation has brought the
  files of its key (`Underway`, `Written`, `Taken`), that the index is the disk but for the key under
  operation (`Indexed`), and that an entry nothing spoilt is whole or absent (`Reliable`). Each step of
  `DiskStore` is then a stutter, or one action of the store at the rename or removal of the manifest, at a
  failure, or at the end of the process.
- `SettledIsWatched`: a directory without a watch is `Coming`: it, or a directory above it, is queued as
  made or is yet to be walked. That somebody above it is watched follows by well-foundedness of the tree
  (`TreeAssumption`).
- `SettledIsKnown`: every file that is there is known, or something *brings* it, a walk that is yet to come
  to a directory above it or a queued event of its or their making, not followed by its removal (`Present`);
  every file that is not there is unknown or its removal is queued after whatever would bring it (`Absent`).
  Both are stated of any set of known files and any callback under way, so that `ComponentRegistry` uses
  them with the files its map *holds*, and its own callback before it has taken effect (`MapInv`); with the
  files a running `Reload` has found, over the directories it has listed; and with those that plain
  selections show (`PlainInv`): cached, or in the hands of a render no removal has passed (`Shown`). A former
  process's entry joins them from disk, so its file must be where the watcher sees it go (`FormerInv`).
- `StaleOnlyIfGone` (`FreshInv`): every stale and indexed entry, and every stale render, has a source that is
  gone, or that a walk, an event or a callback not yet through *leads to*.
- `StampedTextIsCurrent` (`StampInv`): what a preparer has read under a stamp it took before is current if
  the stamp is, at every stage.
- `VouchedTypeIsCurrent` and `StillCallIsExact` (`TypeInv`): as long as nothing is upset, an extraction
  names the candidate its type came from and none before it exists (`Sound`, `First`); stamps taken at a
  mark vouch for what was read (`Marks`); and a call that stood still has read what the files say (`Match`),
  stage by stage (`StageInv`).
- `StartsOver` (`StartInv`): a handler a consumer adds is none of the defaults, so that the number of
  defaults in a chain does not grow, by an injection from the positions in the longer chain to those in the
  shorter one; `AddType` with "replace" may lose some.
- `ErrorStops` (`FailInv`): as long as the call goes on none of those that ran has failed (`NoneFailed`).
- `OwnTypeDecides` and `SuccessIsTransmitted` (`OrderInv`, `AnswerInv`): `ran` is the middleware in its
  order, then the first `k` handlers of the event's own type, and the chain under way is the rest of them
  (`OwnRan`, `OwnLeft`); own handlers come first because every category of an event implements fewer
  categories than the event (`OwnIsNarrowest`). Middleware may add handlers, but only before the event is
  dispatched, so the chain compared with is the one that ran. As long as none of those that ran had an effect
  the writer is untouched, and once one had, the status is its own, since nobody after it changes a status
  that was sent (`RanInv`, `Effect`). Only an event in a list has a place in that order: for the others
  `lineage` is empty from the start.
- `AcceptedFits` (`AcceptedStruct`, `AcceptedMap`): encoder and mapper visit the same structs (`VisitsAll`, by
  induction on the depth) and of the fields of a name the one that dominates is the one picked
  (`PicksDominant`), hence `SameFields`; whatever it encodes as is a value of the type the mapper gives it
  (`SentFitsType`), and it is left out only if the mapper calls it optional (`OptionalMeansOmitted`); and a
  value of a type is a value of every type it is assignable to.
- `RefusalIsEarned` (`RefusedStruct`, `RefusedMap`): a violation that is not excused is turned into a value of
  the same Go type that misfits: any value, for a field nobody supplies; the one that is left out, for a field
  that may be absent; and one that encodes as the member of the union that the declared type lacks.

Recursive functions are unfolded without the library's induction theorems, which take an operator as a
parameter: `Induction` is stated of a set of numbers and follows from the least number outside it (`WFMin`,
`NatLessThanWellFounded`); with it, the approximations of `AtDepth`, `Visited` and `Seeded` up to each depth
exist, and what they define is unique (`AtDepthUnfolds`, `VisitedUnfolds`, `SeededUnfolds`).

Only model-checked: what is stated under fairness (`StaleEntriesLeave`, `ChangeReachesTabs`, `ArmedRuns`,
`CatchesUp`, `CloseEnds`, `OperationEnds`), which with `ENABLED` is out of the prover's reach.
Every safety property of the passing runs is a theorem.

## 6. Where the code does go wrong

Two disagreements with what the code says of itself are `findings`. These are known besides, each named in
the property it limits:

- `cache`: a build or a promotion overtaken by the invalidation of what it has read leaves a stale entry in
  memory until the next edit (`overtaken`); so does a warm disk hit, whose sources this process has not
  indexed (`warm`).
- A disk entry's digests are taken after the build (`diskcache.go:159`), and then vouch for contents it did
  not see, until the edit's own event drops it.
- `StaticRegistry`: overlapping rebuilds may publish in the wrong order (`overlapped`); a failed write is not made
  up for (`failed`); a streamed asset is served under its old hash between an edit and its rebuild.
- `StaticBundles`, `ComponentCaches`: a bundle a render has built of what was there before is put after the callback has
  found nothing to drop (`overtaken`); and what came off a former process's disk is in no index until it is
  built again, so that a change of its sources drops nothing (`~indexed`).
- `DirectoryWatcher`, `ComponentRegistry`: the five mishaps; two files of one name; an event handled during a `Reload`; a
  `Reload` ahead of the watch; selections and dependents of a removed file.
- `disk`: a `Put` cut short over an existing entry, and a removal that failed.
- `sources`: `overtaken`, `appeared`, `vanished`; `Prune` drops the entries of selections at every start, at
  the cost of extracting again.
- `call`: an event outside `EVENTS.Concrete` (a `finding`), for which not even handlers registered for its own
  type run; `ForRequest` on a builder that has answered once
  keeps its committed status, so the properties about answers are stated of fresh writers.
- `props`, admitted and does not fit: a nil embedded pointer, whose fields are taken to be there, and
  `omitzero` on a pointer to a pointer (`Overlooked`); an array of bytes, a type with its own marshaller, the
  option `string` (a number so tagged is taken for a number and sent as a string: `parseJSONTag`,
  `mapper.go:250`, skips it), and a struct that embeds a type with embeddings by two ways, of which the
  encoder expands the first only (`Misread`); a nil pointer to props. Refused without cause: a type in another
  spelling, `unknown` in a union, object types that are written differently, since they are compared as text,
  and an `any` against a union of all that it may hold (`Textual`); a nil in a map of `any` (`NilInMap`).

## 7. What is not modelled, and why

- Text: templates, the HMR client script, generated TypeScript, the README and tsconfig fragments,
  normalisation of fragments, evaluation of components for first paint. No property is about it.
- esbuild, fsnotify, the kernel, `net/http`, `encoding/json/v2`: external. They appear as the steps the code
  relies on: a file read once, an event per change, a status that is sent once, a value that encodes so.
- The hub's connections: they come and go over a network, and what a tab that connects late or reads slowly
  loses is not promised by anything in the code. A fire's `Reload` is a step that may take any time.
- The traversal of another library's syntax tree by the extractor, imports of imports, nested object types:
  a shape is flat here.
- Mux adapters, options and rasterization are resolved once at start, sequentially, and leave no state
  behind.
- Time. Windows and timeouts are "it elapses"; how long anything takes, or is deferred by edits that never
  pause, is not in the models.
- Sources outside the watched tree: the dependency index has them and no watcher sees them; the properties
  are stated of `Watched` files.
- Of middleware and handlers: that rebind `W`, dispatch an event of their own, edit `Middleware`, or change
  `Handlers` during a dispatch; panics; informational statuses (1xx). Writers other than `net/http`'s.
- Of Go types: recursive ones, methods to marshal promoted from an embedded field, the option `string` on what
  is not a number, and two own fields of one name, which do not encode.
- Equal stamps of different text (an edit that keeps size and modification time).
