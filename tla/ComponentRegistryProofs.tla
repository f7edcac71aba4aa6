---------------------- MODULE ComponentRegistryProofs ----------------------
(* Theorems about ComponentRegistry and ComponentCaches, for any tree, names,  *)
(* imports and queue.                                                           *)
EXTENDS ComponentCaches, DirectoryWatcherProofs

(* The steps, grouped by what they do to the map: the watcher's and the world's,  *)
(* those that neither touch it nor move the watcher, and the rest.                  *)
Around ==
    \/ \E f \in File : Edit(f)
    \/ \E d \in Dir \ {Root} : EditDir(d)
    \/ Step /\ UNCHANGED rvars
    \/ CloseStops
    \/ LoopEnds /\ UNCHANGED rvars
Beside == OnTouch \/ OnDrop \/ Close \/ UNCHANGED vars
Walking == \E d \in Dir : ReloadLists(d)
Failing == \E d \in Dir : ReloadFails(d)
Replacing == AddFile \/ AddRefused \/ Ignored \/ RemoveFile \/ RemoveNothing

LEMMA RegistrySteps ==
    [RegistryNext]_vars =>
        Around \/ Beside \/ Replacing \/ Returned \/ Reload \/ ReloadInstalls \/ Adopt \/ Walking \/ Failing
BY DEF RegistryNext, Onward, Update, Around, Beside, Walking, Failing, Replacing

USE RootAssumption, AboveAssumption, DisjointAssumption, QueueAssumption, NameAssumption

-----------------------------------------------------------------------------
(* The registry's watcher is a DirectoryWatcher. *)

LEMMA WatcherStep == [RegistryNext]_vars => [Next]_wvars
BY DEF RegistryNext, Onward, Edit, EditDir, Update, AddFile, AddRefused, Ignored, RemoveFile, RemoveNothing,
       OnTouch, OnDrop, Returned, Reload, ReloadInstalls, ReloadLists, ReloadFails, Adopt,
       Close, CloseStops, Next, vars

(* Whatever is done to the registry, its watcher does what DirectoryWatcher      *)
(* allows, so what is proved of that holds of the registry's.                      *)
THEOREM UsesWatcher == RegistrySpec => Spec
<1>1. RegistryInit => Init
  BY DEF RegistryInit
<1> QED BY <1>1, WatcherStep, PTL DEF RegistrySpec, Spec

-----------------------------------------------------------------------------
(* Types. *)

(* The components of the map that came out of the tree, each under its name. *)
Mapped(m) == \A n \in Name \ {Inline} : m[n] = None \/ (m[n] \in File /\ NameOf[m[n]] = n)

RegistryTyped ==
    /\ RegistryTypeOK
    /\ Mapped(components) /\ Mapped(found)
    /\ found[Inline] = None
    /\ components[Inline] = IF adopted THEN InlinePath ELSE None

LEMMA MapOfTyped ==
    ASSUME NEW fs \in SUBSET File
    PROVE  /\ MapOf(fs) \in [Name -> File \cup {None}]
           /\ \A n \in Name : (\E f \in fs : NameOf[f] = n) => MapOf(fs)[n] \in fs /\ NameOf[MapOf(fs)[n]] = n
           /\ \A n \in Name : ~(\E f \in fs : NameOf[f] = n) => MapOf(fs)[n] = None
BY DEF MapOf

LEMMA NothingMapped ==
    Nothing \in [Name -> File \cup {None}] /\ Mapped(Nothing) /\ Nothing[Inline] = None
BY DEF Nothing, Mapped

LEMMA TypedStep == RegistryTyped /\ [RegistryNext]_vars => RegistryTyped'
<1> SUFFICES ASSUME RegistryTyped, [RegistryNext]_vars PROVE RegistryTyped'
  OBVIOUS
<1> USE DEF RegistryTyped
<1>1. TypeOK /\ TypeOK'
  BY TypeStep, WatcherStep DEF RegistryTypeOK
<1>2. CASE /\ UNCHANGED <<components, step, reloading, todo, found, adopted, upset>>
           /\ mu' \in {"free", "closing"}
           /\ step # "start" => calling' # NoCall
  BY <1>1, <1>2 DEF RegistryTypeOK, Mapped
<1>3. ASSUME NEW f \in File, Edit(f) PROVE RegistryTyped'
  BY <1>2, <1>3 DEF Edit, CreateFile, WriteFile, DeleteFile, RegistryTypeOK, loop, rvars
<1>4. ASSUME NEW d \in Dir \ {Root}, EditDir(d) PROVE RegistryTyped'
  BY <1>2, <1>4 DEF EditDir, MakeDir, RemoveDir, MoveOut, RegistryTypeOK, loop, rvars
<1>5. CASE Step /\ UNCHANGED rvars
  <2>1. step # "start" => calling' # NoCall
    BY <1>5 DEF Step, Watch, WatchFails, List, ListFails, Abandon, Announce, Started, HandleDir,
                HandleFile, Receiving, Idle, RegistryTypeOK, loop
  <2> QED BY <1>2, <1>5, <2>1 DEF rvars, RegistryTypeOK
<1>6. CASE CloseStops \/ (LoopEnds /\ UNCHANGED rvars)
  <2>1. calling' = calling
    BY <1>6 DEF CloseStops, Stop, LoopEnds, loop
  <2> QED BY <1>2, <1>6, <2>1 DEF CloseStops, reload, rvars, RegistryTypeOK
<1>7. CASE Returned
  BY <1>1, <1>7 DEF Returned, Return, RegistryTypeOK, reload, Mapped
<1>8. ASSUME UNCHANGED wvars, AddFile \/ AddRefused \/ Ignored \/ RemoveFile \/ RemoveNothing
      PROVE  RegistryTyped'
  <2>1. UNCHANGED <<calling, phase, reloading, todo, found, mu, adopted>>
    BY <1>8 DEF AddFile, AddRefused, Ignored, RemoveFile, RemoveNothing, reload, wvars
  <2>2. step' \in {"start", "notify", "done"} /\ upset' \subseteq {"clash", "raced", "ahead", "dropped"}
    <3>1. CASE AddFile \/ AddRefused
      BY <3>1 DEF AddFile, AddRefused, RegistryTypeOK, WhileReloading
    <3>2. CASE Ignored
      BY <3>2 DEF Ignored, RegistryTypeOK
    <3>3. CASE RemoveFile \/ RemoveNothing
      BY <3>3 DEF RemoveFile, RemoveNothing, RegistryTypeOK, WhileReloading
    <3> QED BY <1>8, <3>1, <3>2, <3>3
  <2>4. calling # NoCall
    <3>1. calling.op # "none"
      BY <1>8 DEF AddFile, AddRefused, Ignored, RemoveFile, RemoveNothing, Applying
    <3> QED BY <3>1 DEF NoCall
  <2>3. /\ components' \in [Name -> Source] /\ Mapped(components')
        /\ components'[Inline] = components[Inline]
    <3>1. CASE AddFile
      BY <3>1 DEF AddFile, Eligible, CalledName, RegistryTypeOK, Source, Mapped
    <3>2. CASE RemoveFile
      BY <3>2 DEF RemoveFile, Eligible, CalledName, RegistryTypeOK, Source, Mapped
    <3>3. CASE AddRefused \/ Ignored \/ RemoveNothing
      BY <3>3 DEF AddRefused, Ignored, RemoveNothing, RegistryTypeOK, Mapped
    <3> QED BY <1>8, <3>1, <3>2, <3>3
  <2> QED BY <1>1, <2>1, <2>2, <2>3, <2>4 DEF RegistryTypeOK, Mapped
<1>9. ASSUME UNCHANGED wvars, OnTouch \/ OnDrop PROVE RegistryTyped'
  <2>1. /\ UNCHANGED <<calling, phase, components, reloading, todo, found, mu, adopted, upset>>
        /\ step' = "done" /\ step = "notify"
    BY <1>9 DEF OnTouch, OnDrop, reload, wvars
  <2> QED BY <1>1, <2>1 DEF RegistryTypeOK, Mapped
<1>10. ASSUME UNCHANGED wvars, Reload \/ ReloadInstalls \/ Adopt \/ Close PROVE RegistryTyped'
  <2>1. CASE Reload
    <3>1. /\ UNCHANGED <<calling, phase, components, step, found, mu, adopted, upset>>
          /\ reloading' = TRUE /\ todo' \subseteq Dir
      BY <1>10, <2>1 DEF Reload, wvars
    <3> QED BY <1>1, <3>1 DEF RegistryTypeOK, Mapped
  <2>2. CASE ReloadInstalls
    <3>1. /\ UNCHANGED <<calling, phase, step, todo, mu>>
          /\ components' = found /\ found' = Nothing /\ todo = {} /\ reloading' = FALSE
          /\ adopted' = FALSE
          /\ upset' \subseteq {"clash", "raced", "ahead", "dropped"}
      BY <1>10, <2>2 DEF ReloadInstalls, RegistryTypeOK, wvars
    <3>2. components' \in [Name -> Source] /\ components'[Inline] = None
      BY <3>1 DEF RegistryTypeOK, Source
    <3> QED BY <1>1, <3>1, <3>2, NothingMapped DEF RegistryTypeOK, Mapped
  <2>3. CASE Adopt
    BY <1>1, <1>10, <2>3 DEF Adopt, RegistryTypeOK, Mapped, reload, wvars, Source
  <2>4. CASE Close
    BY <1>1, <1>10, <2>4 DEF Close, RegistryTypeOK, Mapped, reload, wvars
  <2> QED BY <1>10, <2>1, <2>2, <2>3, <2>4
<1>11. ASSUME UNCHANGED wvars, NEW d \in Dir, ReloadLists(d) PROVE RegistryTyped'
  <2>1. UNCHANGED <<calling, phase, components, step, reloading, mu, adopted>>
    BY <1>11 DEF ReloadLists, wvars
  <2>2. todo' \subseteq Dir /\ upset' \subseteq {"clash", "raced", "ahead", "dropped"}
    BY <1>11 DEF ReloadLists, RegistryTypeOK, TypeOK
  <2>3. Here(d) \in SUBSET File
    BY <1>1 DEF Here, TypeOK
  <2>4. \A n \in Name : Named(Here(d), n) # {} <=> \E f \in Here(d) : NameOf[f] = n
    BY DEF Named
  <2>5. found' \in [Name -> File \cup {None}] /\ Mapped(found') /\ found'[Inline] = None
    BY <1>11, <2>3, <2>4, MapOfTyped DEF ReloadLists, RegistryTypeOK, Mapped
  <2>6. reloading
    BY <1>11 DEF ReloadLists, RegistryTypeOK
  <2> QED BY <1>1, <2>1, <2>2, <2>5, <2>6 DEF RegistryTypeOK, Mapped
<1>12. ASSUME UNCHANGED wvars, NEW d \in Dir, ReloadFails(d) PROVE RegistryTyped'
  BY <1>1, <1>12 DEF ReloadFails, RegistryTypeOK, Mapped, wvars, Nothing
<1>13. CASE UNCHANGED vars
  BY <1>1, <1>2, <1>13 DEF vars, wvars, rvars, RegistryTypeOK
<1> QED
  BY <1>3, <1>4, <1>5, <1>6, <1>7, <1>8, <1>9, <1>10, <1>11, <1>12, <1>13
  DEF RegistryNext, Onward, Update, AddFile, AddRefused, Ignored, RemoveFile, RemoveNothing, OnTouch, OnDrop,
      Reload, ReloadInstalls, ReloadLists, ReloadFails, Adopt, Close

LEMMA StartsTyped == RegistryInit => RegistryTyped
<1> SUFFICES ASSUME RegistryInit PROVE RegistryTyped
  OBVIOUS
<1>1. TypeOK /\ phase = "boot"
  BY DEF RegistryInit, Init, TypeOK, FilesWithin, Path, Phase, Mishap
<1>2. components = MapOf(files) /\ files \in SUBSET File
  BY <1>1 DEF RegistryInit, TypeOK
<1>3. components \in [Name -> File \cup {None}] /\ Mapped(components) /\ components[Inline] = None
  BY <1>2, MapOfTyped DEF Mapped
<1>4. /\ step = "start" /\ reloading = FALSE /\ todo = {} /\ found = Nothing /\ mu = "free"
      /\ adopted = FALSE /\ upset = {}
  BY DEF RegistryInit
<1>5. components \in [Name -> Source]
  BY <1>3 DEF Source
<1>6. RegistryTypeOK
  BY <1>1, <1>4, <1>5, NothingMapped DEF RegistryTypeOK
<1> QED BY <1>3, <1>4, <1>6, NothingMapped DEF RegistryTyped

(* Every reachable state of the registry is well typed: a callback's progress   *)
(* goes with a callback, and a Reload that is over has left nothing behind.      *)
THEOREM RegistryTypes == RegistrySpec => []RegistryTypeOK
<1>1. RegistryTyped => RegistryTypeOK
  BY DEF RegistryTyped
<1> QED BY <1>1, StartsTyped, TypedStep, PTL DEF RegistrySpec

-----------------------------------------------------------------------------
(* The map follows the tree. *)

NamedFile == {f \in File : NameOf[f] # None}
Held(m) == {f \in NamedFile : m[NameOf[f]] = f}

(* The callback the map has yet to act on. *)
Unapplied == IF step = "start" THEN calling ELSE NoCall

(* What the running Reload has been past. *)
Listed == {f \in NamedFile : \A q \in todo : ~Anc(q, f)}

(* A Reload holds, of what it has been past, what the map would hold.             *)
MapInv ==
    /\ WaysInv /\ RegistryTyped
    /\ On /\ upset \subseteq {"dropped"} =>
          /\ Present(NamedFile, Held(components), Unapplied)
          /\ Absent(NamedFile, Held(components), Unapplied)
          /\ reloading => /\ Present(Listed, Held(found), Unapplied)
                          /\ Absent(NamedFile, Held(found), Unapplied)

LEMMA NamedAreFiles == NamedFile \in SUBSET File /\ Listed \in SUBSET File /\ Listed \subseteq NamedFile
BY DEF NamedFile, Listed

LEMMA HeldNothing == Held(Nothing) = {}
BY DEF Held, Nothing, NamedFile, Path

LEMMA Carried ==
    ASSUME WaysInv, On', [Next]_wvars, NEW c, NEW d, calling = NoCall => c = NoCall,
           d = IF calling' \in {calling, NoCall} THEN c ELSE calling'
    PROVE  \A V : \A G \in SUBSET File :
              /\ Present(G, V, c) => Present(G, V, d)'
              /\ Absent(G, V, c) => Absent(G, V, d)'
<1>1. TypeOK /\ TreeOK /\ Ways
  BY OnStep DEF WaysInv
<1> QED BY <1>1, WaysStep

(* What leads the map astray is not forgotten. *)
LEMMA UpsetGrows == [RegistryNext]_vars => upset \subseteq upset'
<1> SUFFICES ASSUME [RegistryNext]_vars PROVE upset \subseteq upset'
  OBVIOUS
<1>1. CASE \/ \E f \in File : Edit(f)
           \/ \E d \in Dir \ {Root} : EditDir(d)
           \/ CloseStops \/ UNCHANGED rvars
  BY <1>1 DEF Edit, EditDir, CloseStops, rvars, vars
<1>2. CASE Update \/ OnTouch \/ OnDrop
  BY <1>2 DEF Update, AddFile, AddRefused, Ignored, RemoveFile, RemoveNothing, OnTouch, OnDrop, Returned
<1>3. CASE \/ Reload \/ ReloadInstalls \/ Adopt \/ Close
           \/ \E d \in Dir : ReloadLists(d) \/ ReloadFails(d)
  BY <1>3 DEF Reload, ReloadInstalls, Adopt, Close, ReloadLists, ReloadFails
<1> QED BY <1>1, <1>2, <1>3 DEF RegistryNext, Onward, vars

(* The watcher's own steps leave the map and the Reload alone. *)
LEMMA WatcherMoves ==
    ASSUME MapInv, [RegistryNext]_vars, On', upset' \subseteq {"dropped"},
           UNCHANGED <<components, reloading, todo, found>>,
           \/ UNCHANGED step /\ ~Return
           \/ Returned
    PROVE  /\ Present(NamedFile, Held(components), Unapplied)' /\ Absent(NamedFile, Held(components), Unapplied)'
           /\ reloading' => /\ Present(Listed, Held(found), Unapplied)'
                            /\ Absent(NamedFile, Held(found), Unapplied)'
<1>1. WaysInv /\ RegistryTyped /\ On /\ upset \subseteq {"dropped"} /\ [Next]_wvars
  BY OnStep, UpsetGrows, WatcherStep DEF MapInv, WaysInv
<1>2. calling = NoCall => Unapplied = NoCall
  BY DEF Unapplied
<1>3. Unapplied' = IF calling' \in {calling, NoCall} THEN Unapplied ELSE calling'
  <2>1. CASE UNCHANGED step /\ ~Return
    <3>1. step # "start" => calling # NoCall
      BY <1>1 DEF RegistryTyped, RegistryTypeOK
    <3> QED BY <1>1, <2>1, <3>1, CallsBegin DEF Unapplied
  <2>2. CASE Returned
    BY <2>2 DEF Returned, Return, Unapplied
  <2> QED BY <2>1, <2>2
<1>4. \A V, d : \A G \in SUBSET File : d = Unapplied' =>
         /\ Present(G, V, Unapplied) => Present(G, V, d)'
         /\ Absent(G, V, Unapplied) => Absent(G, V, d)'
  BY <1>1, <1>2, <1>3, Carried
<1>5. /\ Held(components)' = Held(components) /\ Held(found)' = Held(found)
      /\ Listed' = Listed /\ NamedFile' = NamedFile
  BY DEF Held, Listed, NamedFile
<1> QED BY <1>1, <1>4, <1>5, NamedAreFiles DEF MapInv

(* Acting on a callback does to the map what it says of its file, and no one      *)
(* acts while a Reload walks.                                                       *)
LEMMA CallbackMaps ==
    ASSUME RegistryTyped, AddFile \/ Ignored \/ RemoveFile \/ RemoveNothing,
           upset' \subseteq {"dropped"}
    PROVE  /\ \A f \in NamedFile :
                 calling = Making(f) \/ (f \in Held(components) /\ calling # Removing(f))
                 <=> f \in Held(components')
           /\ reloading => \A f \in NamedFile : calling # Making(f) /\ calling # Removing(f)
<1>1. calling \in Event \cup {NoCall} /\ components \in [Name -> Source]
  BY DEF RegistryTyped, RegistryTypeOK, TypeOK
<1>2. \A f \in NamedFile : NameOf[f] \in Name \ {Inline} /\ f # None /\ f \in File
  BY DEF NamedFile, Path
<1>3. \A f : (calling = Making(f) <=> calling.op = "create" /\ calling.path = f)
            /\ (calling = Removing(f) <=> calling.op = "remove" /\ calling.path = f)
  BY <1>1 DEF Making, Removing, Event, NoCall
<1>4. CASE AddFile
  <2>1. ~reloading /\ calling.op = "create" /\ calling.path \in NamedFile
        /\ components[CalledName] \in {None, calling.path}
        /\ components' = [components EXCEPT ![CalledName] = calling.path]
    BY <1>4 DEF AddFile, Applying, WhileReloading, Eligible, NamedFile, Taken
  <2> QED BY <1>1, <1>2, <1>3, <2>1 DEF Held, CalledName
<1>5. CASE Ignored
  <2>1. components' = components /\ \A f \in NamedFile : calling # Making(f) /\ calling # Removing(f)
    BY <1>3, <1>5 DEF Ignored, Eligible, NamedFile
  <2> QED BY <2>1
<1>6. CASE RemoveFile
  <2>1. ~reloading /\ calling.op = "remove" /\ calling.path \in NamedFile
        /\ components[CalledName] = calling.path
        /\ components' = [components EXCEPT ![CalledName] = None]
    BY <1>6 DEF RemoveFile, Applying, WhileReloading, Eligible, NamedFile, Taken
  <2> QED BY <1>1, <1>2, <1>3, <2>1 DEF Held, CalledName
<1>7. CASE RemoveNothing
  <2>1. components' = components /\ calling.op = "remove"
        /\ (Eligible => components[CalledName] = None /\ ~reloading)
    BY <1>7 DEF RemoveNothing, Applying, WhileReloading
  <2>2. \A f \in NamedFile : calling = Removing(f) => components[NameOf[f]] = None /\ ~reloading
    BY <1>2, <1>3, <2>1 DEF Eligible, CalledName, NamedFile
  <2> QED BY <1>2, <1>3, <2>1, <2>2 DEF Held
<1> QED BY <1>4, <1>5, <1>6, <1>7

LEMMA CallbackKeepsMap ==
    ASSUME MapInv, [RegistryNext]_vars, On', upset' \subseteq {"dropped"},
           AddFile \/ Ignored \/ RemoveFile \/ RemoveNothing
    PROVE  /\ Present(NamedFile, Held(components), Unapplied)' /\ Absent(NamedFile, Held(components), Unapplied)'
           /\ reloading' => /\ Present(Listed, Held(found), Unapplied)'
                            /\ Absent(NamedFile, Held(found), Unapplied)'
<1>1. WaysInv /\ RegistryTyped /\ On /\ upset \subseteq {"dropped"} /\ [Next]_wvars
  BY OnStep, UpsetGrows, WatcherStep DEF MapInv, WaysInv
<1>2. /\ UNCHANGED wvars /\ UNCHANGED <<reloading, todo, found>>
      /\ step = "start" /\ step' \in {"notify", "done"}
  BY DEF AddFile, Ignored, RemoveFile, RemoveNothing, Applying, reload
<1>3. Unapplied = calling /\ Unapplied' = NoCall /\ calling' = calling
  BY <1>2 DEF Unapplied, wvars
<1>4. /\ Present(NamedFile, Held(components'), NoCall) /\ Absent(NamedFile, Held(components'), NoCall)
      /\ reloading => /\ Present(Listed, Held(found), NoCall)
                      /\ Absent(NamedFile, Held(found), NoCall)
  <2>1. /\ Present(NamedFile, Held(components), calling) /\ Absent(NamedFile, Held(components), calling)
        /\ reloading => /\ Present(Listed, Held(found), calling)
                        /\ Absent(NamedFile, Held(found), calling)
    BY <1>1, <1>3 DEF MapInv
  <2>2. Present(NamedFile, Held(components'), NoCall) /\ Absent(NamedFile, Held(components'), NoCall)
    BY <1>1, <2>1, CallbackMaps, Applied, NamedAreFiles
  <2>3. reloading => /\ Present(Listed, Held(found), NoCall)
                    /\ Absent(NamedFile, Held(found), NoCall)
    <3> SUFFICES ASSUME reloading PROVE Present(Listed, Held(found), NoCall)
                                        /\ Absent(NamedFile, Held(found), NoCall)
      OBVIOUS
    <3>1. \A f \in NamedFile : calling # Making(f) /\ calling # Removing(f)
      BY <1>1, CallbackMaps
    <3>2. Present(Listed, Held(found), NoCall)
      BY <2>1, <3>1, Applied, NamedAreFiles
    <3>3. Absent(NamedFile, Held(found), NoCall)
      BY <2>1, <3>1, Applied, NamedAreFiles
    <3> QED BY <3>2, <3>3
  <2> QED BY <2>2, <2>3
<1>5. \A V, c : \A G \in SUBSET File : c = NoCall =>
         /\ Present(G, V, c) => Present(G, V, c)'
         /\ Absent(G, V, c) => Absent(G, V, c)'
  BY <1>1, <1>3, Carried
<1>6. /\ Held(components)' = Held(components') /\ Held(found)' = Held(found)
      /\ Listed' = Listed /\ NamedFile' = NamedFile
  BY <1>2 DEF Held, Listed, NamedFile
<1> QED BY <1>2, <1>3, <1>4, <1>5, <1>6, NamedAreFiles

(* Listing a directory adds the files in it to what Reload has found, and what    *)
(* of the tree is still unlisted is below the directories in it.                    *)
LEMMA ReloadListed ==
    ASSUME RegistryTyped, TreeOK, NEW d \in Dir, ReloadLists(d)
    PROVE  /\ Held(found') = Held(found) \cup (Here(d) \cap NamedFile)
           /\ \A f \in NamedFile \cap files : (\A q \in todo' : ~Anc(q, f)) => f \in Listed \cup Here(d)
<1>1. /\ found \in [Name -> File \cup {None}] /\ Here(d) \in SUBSET File
      /\ TypeOK
  BY DEF RegistryTyped, RegistryTypeOK, TypeOK, Here
<1>2. /\ ~Ambiguous(d)
      /\ found' = [n \in Name |-> IF Named(Here(d), n) # {} THEN MapOf(Here(d))[n] ELSE found[n]]
      /\ todo' = (todo \ {d}) \cup (Inside(d) \cap dirs)
  BY DEF ReloadLists
<1>3. \A f \in NamedFile : NameOf[f] \in Name /\ f # None /\ f \in File /\ NameOf[f] # None
  BY DEF NamedFile, Path
<1>4. ASSUME NEW f \in Here(d) \cap NamedFile
      PROVE  found'[NameOf[f]] = f
  <2>1. \A g \in Here(d) : NameOf[g] = NameOf[f] => g = f
    BY <1>2, <1>3, <1>4 DEF Ambiguous
  <2>2. MapOf(Here(d))[NameOf[f]] = f
    BY <1>1, <1>3, <1>4, <2>1, MapOfTyped
  <2>3. Named(Here(d), NameOf[f]) # {}
    BY <1>4 DEF Named
  <2> QED BY <1>2, <1>3, <1>4, <2>2, <2>3
<1>5. ASSUME NEW f \in NamedFile, f \notin Here(d)
      PROVE  found'[NameOf[f]] = f <=> found[NameOf[f]] = f
  <2>1. CASE Named(Here(d), NameOf[f]) = {}
    BY <1>2, <1>3, <1>5, <2>1
  <2>2. CASE Named(Here(d), NameOf[f]) # {}
    <3>1. PICK g \in Here(d) : NameOf[g] = NameOf[f]
      BY <2>2 DEF Named
    <3>2. g \in NamedFile
      BY <1>1, <1>3, <1>5, <3>1 DEF NamedFile
    <3>3. found'[NameOf[f]] = g /\ found[NameOf[f]] = None
      BY <1>2, <1>3, <1>4, <3>1, <3>2 DEF Ambiguous
    <3> QED BY <1>3, <1>5, <3>1, <3>3
  <2> QED BY <2>1, <2>2
<1>6. Held(found') = Held(found) \cup (Here(d) \cap NamedFile)
  BY <1>4, <1>5 DEF Held
<1>7. ASSUME NEW f \in NamedFile \cap files, \A q \in todo' : ~Anc(q, f), f \notin Listed
      PROVE  f \in Here(d)
  <2>1. Anc(d, f) /\ f \in Path /\ d \in Path /\ f # d
    BY <1>2, <1>3, <1>7 DEF Listed, Path
  <2>2. PICK c \in Path \ {Root} : Above[c] = d /\ Anc(c, f)
    BY <2>1, AncDown
  <2>3. CASE c = f
    BY <1>7, <2>1, <2>2, <2>3 DEF Here, Inside, Path
  <2>4. CASE c # f
    <3>1. c \in dirs
      BY <1>1, <1>7, <2>2, <2>4, AncExists
    <3> QED BY <1>2, <1>7, <2>2, <3>1 DEF Inside, Path
  <2> QED BY <2>3, <2>4
<1> QED BY <1>6, <1>7

(* What is present or absent for the map is so for a Reload that has what is      *)
(* there.                                                                          *)
LEMMA ListedWays ==
    ASSUME RegistryTyped, TreeOK, NEW d \in Dir, ReloadLists(d), d \in watched, NEW c,
           Present(NamedFile, Held(components), c), Absent(NamedFile, Held(components), c),
           Present(Listed, Held(found), c), Absent(NamedFile, Held(found), c),
           NEW G \in SUBSET NamedFile, \A f \in G \cap files : f \in Listed \cup Here(d)
    PROVE  Present(G, Held(found'), c) /\ Absent(NamedFile, Held(found'), c)
<1>1. Held(found') = Held(found) \cup (Here(d) \cap NamedFile)
  BY ReloadListed
<1>2. \A f \in Here(d) : f \in files /\ Above[f] = d
  BY DEF Here, Inside
<1>3. \A f \in files \cap G : In(Held(found'), c, f)
  <2>1. ASSUME NEW f \in files \cap G PROVE In(Held(found'), c, f)
    <3>1. CASE f \in Listed
      <4>1. In(Held(found), c, f)
        BY <3>1, <2>1 DEF Present
      <4> QED BY <1>1, <4>1 DEF In
    <3>2. CASE f \in Here(d)
      <4>1. In(Held(components), c, f)
        BY <2>1 DEF Present
      <4> QED BY <1>1, <2>1, <3>2, <4>1 DEF In
    <3> QED BY <2>1, <3>1, <3>2
  <2> QED BY <2>1
<1>4. \A f \in NamedFile : f \notin files \/ (Above[f] \notin watched /\ phase # "boot") =>
         Out(Held(found'), c, f)
  BY <1>1, <1>2 DEF Absent, Out
<1> QED BY <1>3, <1>4 DEF Present, Absent

LEMMA OthersKeepMap ==
    ASSUME MapInv, [RegistryNext]_vars, On', upset' \subseteq {"dropped"},
           UNCHANGED wvars, UNCHANGED Unapplied,
           \/ Held(components') = Held(components)
           \/ Held(components') = Held(found) /\ reloading /\ Listed = NamedFile,
           \/ UNCHANGED <<reloading, todo, found>>
           \/ reloading' = FALSE
           \/ Reload
           \/ \E d \in Dir : ReloadLists(d)
    PROVE  /\ Present(NamedFile, Held(components), Unapplied)' /\ Absent(NamedFile, Held(components), Unapplied)'
           /\ reloading' => /\ Present(Listed, Held(found), Unapplied)'
                            /\ Absent(NamedFile, Held(found), Unapplied)'
<1>1. WaysInv /\ RegistryTyped /\ On /\ upset \subseteq {"dropped"} /\ [Next]_wvars /\ TreeOK
  BY OnStep, UpsetGrows, WatcherStep DEF MapInv, WaysInv
<1>2. /\ Present(NamedFile, Held(components), Unapplied) /\ Absent(NamedFile, Held(components), Unapplied)
      /\ reloading => /\ Present(Listed, Held(found), Unapplied)
                      /\ Absent(NamedFile, Held(found), Unapplied)
  BY <1>1 DEF MapInv
<1>3. calling' = calling /\ (calling = NoCall => Unapplied = NoCall)
  BY DEF Unapplied, wvars
<1>4. \A V, c : \A G \in SUBSET File : c = Unapplied =>
         /\ Present(G, V, c) => Present(G, V, c)'
         /\ Absent(G, V, c) => Absent(G, V, c)'
  BY <1>1, <1>3, Carried
<1>5. /\ Held(components)' = Held(components') /\ Held(found)' = Held(found')
      /\ NamedFile' = NamedFile /\ Listed' = {f \in NamedFile : \A q \in todo' : ~Anc(q, f)}
  BY DEF Held, NamedFile, Listed
<1>6. Present(NamedFile, Held(components'), Unapplied) /\ Absent(NamedFile, Held(components'), Unapplied)
  BY <1>2
<1>7. reloading' => \E G \in SUBSET File :
         G = Listed' /\ Present(G, Held(found'), Unapplied) /\ Absent(NamedFile, Held(found'), Unapplied)
  <2>1. CASE UNCHANGED <<reloading, todo, found>>
    BY <1>2, <1>5, <2>1, NamedAreFiles DEF Listed
  <2>2. CASE Reload
    <3>1. Listed' = {} /\ found' = found /\ found = Nothing
      BY <1>1, <1>5, <2>2, AncRoot DEF Reload, RegistryTyped, RegistryTypeOK, NamedFile, Path
    <3>2. Held(found') = {}
      BY <3>1, HeldNothing
    <3>3. Present({}, Held(found'), Unapplied)
      BY DEF Present
    <3>4. Absent(NamedFile, Held(found'), Unapplied)
      BY <1>2, <3>2 DEF Absent, Out
    <3> QED BY <3>1, <3>3, <3>4
  <2>3. ASSUME NEW d \in Dir, ReloadLists(d)
        PROVE  \E G \in SUBSET File : G = Listed' /\ Present(G, Held(found'), Unapplied)
                                      /\ Absent(NamedFile, Held(found'), Unapplied)
    <3>1. d \in watched /\ reloading
      BY <1>1, <2>3 DEF ReloadLists, RegistryTyped, RegistryTypeOK
    <3>2. Listed' \in SUBSET NamedFile /\ \A f \in Listed' \cap files : f \in Listed \cup Here(d)
      BY <1>1, <1>5, <2>3, ReloadListed
    <3>3. \A G \in SUBSET NamedFile : (\A f \in G \cap files : f \in Listed \cup Here(d)) =>
             Present(G, Held(found'), Unapplied) /\ Absent(NamedFile, Held(found'), Unapplied)
      BY <1>1, <1>2, <2>3, <3>1, ListedWays
    <3> QED BY <3>2, <3>3, NamedAreFiles
  <2> QED BY <2>1, <2>2, <2>3
<1> QED BY <1>4, <1>5, <1>6, <1>7, NamedAreFiles

(* None of these is the return of a callback. *)
LEMMA AroundRuns == Around => ~Return
<1> SUFFICES ASSUME Around PROVE ~Return
  OBVIOUS
<1>1. CASE \E f \in File : Edit(f)
  BY <1>1 DEF Edit, CreateFile, WriteFile, DeleteFile, Return, loop
<1>2. CASE \E d \in Dir \ {Root} : EditDir(d)
  BY <1>2 DEF EditDir, MakeDir, RemoveDir, MoveOut, Return, loop
<1>3. CASE CloseStops \/ LoopEnds
  BY <1>3 DEF CloseStops, Stop, LoopEnds, Return, loop
<1>4. CASE Step
  BY <1>4 DEF Step, Watch, WatchFails, List, ListFails, Abandon, Announce, Started, HandleDir,
              HandleFile, Receiving, Idle, Return, loop
<1> QED BY <1>1, <1>2, <1>3, <1>4 DEF Around

LEMMA AroundKeeps ==
    Around => UNCHANGED <<components, step, reloading, todo, found, adopted, upset>>
BY DEF Around, Edit, EditDir, CloseStops, rvars, reload

LEMMA MapStep == MapInv /\ [RegistryNext]_vars => MapInv'
<1> SUFFICES ASSUME MapInv, [RegistryNext]_vars PROVE MapInv'
  OBVIOUS
<1>1. WaysInv' /\ RegistryTyped'
  BY WaysInvStep, WatcherStep, TypedStep DEF MapInv
<1> DEFINE Goal ==
       /\ Present(NamedFile, Held(components), Unapplied)' /\ Absent(NamedFile, Held(components), Unapplied)'
       /\ reloading' => /\ Present(Listed, Held(found), Unapplied)'
                        /\ Absent(NamedFile, Held(found), Unapplied)'
<1> SUFFICES ASSUME On', upset' \subseteq {"dropped"} PROVE Goal
  BY <1>1 DEF MapInv
<1>2. RegistryTyped /\ TypeOK /\ On /\ upset \subseteq {"dropped"}
  BY OnStep, UpsetGrows, WatcherStep DEF MapInv, WaysInv
<1>3. ASSUME Around PROVE Goal
  <2>1. UNCHANGED <<components, step, reloading, todo, found>>
    BY <1>3, AroundKeeps
  <2>2. ~Return
    BY <1>3, AroundRuns
  <2> QED BY <2>1, <2>2, WatcherMoves
<1>4. ASSUME Returned PROVE Goal
  BY <1>4, WatcherMoves DEF Returned, reload
<1>5. ASSUME Replacing PROVE Goal
  <2>1. ~AddRefused
    BY DEF AddRefused
  <2> QED BY <1>5, <2>1, CallbackKeepsMap DEF Replacing
<1>6. ASSUME Beside PROVE Goal
  <2>1. UNCHANGED wvars /\ UNCHANGED <<components, reloading, todo, found>>
    BY <1>6 DEF Beside, OnTouch, OnDrop, Close, reload, vars, rvars
  <2>2. UNCHANGED step \/ (step = "notify" /\ step' = "done")
    BY <1>6 DEF Beside, OnTouch, OnDrop, Close, vars, rvars
  <2>3. UNCHANGED Unapplied
    BY <2>1, <2>2 DEF Unapplied, wvars
  <2>4. Held(components') = Held(components)
    BY <2>1
  <2> QED BY <2>1, <2>3, <2>4, OthersKeepMap
<1>7. ASSUME Reload PROVE Goal
  <2>1. UNCHANGED wvars /\ UNCHANGED <<components, step>>
    BY <1>7 DEF Reload
  <2>2. UNCHANGED Unapplied /\ Held(components') = Held(components)
    BY <2>1 DEF Unapplied, wvars
  <2> QED BY <1>7, <2>1, <2>2, OthersKeepMap
<1>8. ASSUME NEW d \in Dir, ReloadLists(d) PROVE Goal
  <2>1. UNCHANGED wvars /\ UNCHANGED <<components, step>>
    BY <1>8 DEF ReloadLists
  <2>2. UNCHANGED Unapplied /\ Held(components') = Held(components)
    BY <2>1 DEF Unapplied, wvars
  <2> QED BY <1>8, <2>1, <2>2, OthersKeepMap
<1>9. ASSUME NEW d \in Dir, ReloadFails(d) PROVE Goal
  <2>1. UNCHANGED wvars /\ UNCHANGED <<components, step>> /\ reloading' = FALSE
    BY <1>9 DEF ReloadFails
  <2>2. UNCHANGED Unapplied /\ Held(components') = Held(components)
    BY <2>1 DEF Unapplied, wvars
  <2> QED BY <2>1, <2>2, OthersKeepMap
<1>10. ASSUME ReloadInstalls PROVE Goal
  <2>1. UNCHANGED wvars /\ UNCHANGED step /\ reloading /\ todo = {} /\ components' = found
        /\ reloading' = FALSE
    BY <1>10 DEF ReloadInstalls
  <2>2. UNCHANGED Unapplied /\ Held(components') = Held(found) /\ Listed = NamedFile
    BY <2>1 DEF Unapplied, Listed, wvars
  <2> QED BY <2>1, <2>2, OthersKeepMap
<1>11. ASSUME Adopt PROVE Goal
  <2>1. UNCHANGED wvars /\ UNCHANGED <<step, reloading, todo, found>>
        /\ components' = [components EXCEPT ![Inline] = InlinePath]
    BY <1>11 DEF Adopt, reload
  <2>2. \A f \in NamedFile : NameOf[f] # Inline /\ NameOf[f] \in Name
    BY DEF NamedFile
  <2>3. components \in [Name -> Source]
    BY <1>2 DEF RegistryTyped, RegistryTypeOK
  <2>4. Held(components') = Held(components)
    BY <2>1, <2>2, <2>3 DEF Held
  <2>5. UNCHANGED Unapplied
    BY <2>1 DEF Unapplied, wvars
  <2> QED BY <2>1, <2>4, <2>5, OthersKeepMap
<1> QED BY <1>3, <1>4, <1>5, <1>6, <1>7, <1>8, <1>9, <1>10, <1>11, RegistrySteps DEF Walking, Failing

LEMMA MapBegins == RegistryInit => MapInv
<1> SUFFICES ASSUME RegistryInit PROVE MapInv
  OBVIOUS
<1>1. WaysInv /\ Present(File, files, NoCall) /\ Absent(File, files, NoCall) /\ RegistryTyped
  BY WaysBegin, StartsTyped DEF RegistryInit
<1>2. /\ components = MapOf(files) /\ Unambiguous(files) /\ ~reloading /\ files \in SUBSET File
      /\ Unapplied = NoCall
  BY <1>1 DEF RegistryInit, Init, Unapplied, WaysInv, TypeOK
<1>3. \A f \in NamedFile : f \in files <=> f \in Held(components)
  BY <1>2, MapOfTyped DEF Unambiguous, Held, NamedFile, Path
<1>4. Present(NamedFile, files, NoCall) /\ Absent(NamedFile, files, NoCall)
  BY <1>1, NamedAreFiles DEF Present, Absent
<1>5. Present(NamedFile, Held(components), NoCall) /\ Absent(NamedFile, Held(components), NoCall)
  <2>1. \A f : NoCall # Removing(f) /\ NoCall # Making(f)
    BY DEF NoCall, Removing, Making
  <2> QED BY <1>3, <1>4, <2>1, Applied, NamedAreFiles
<1> QED BY <1>1, <1>2, <1>5 DEF MapInv

LEMMA MapAtRest == MapInv => SettledIsTree
<1> SUFFICES ASSUME MapInv, Calm
             PROVE  components = [MapOf(files) EXCEPT ![Inline] = IF adopted THEN InlinePath ELSE None]
  BY DEF SettledIsTree
<1>1. RegistryTyped /\ TypeOK /\ files \in SUBSET File /\ components \in [Name -> Source]
  BY DEF MapInv, WaysInv, TypeOK, RegistryTyped, RegistryTypeOK
<1>2. AtRest /\ On /\ Unapplied = NoCall /\ upset \subseteq {"dropped"}
  BY DEF Calm, Faultless, AtRest, Idle, On, Unapplied
<1>3. \A f \in NamedFile : f \in Held(components) <=> f \in files
  BY <1>2, WaysAtRest, NamedAreFiles DEF MapInv
<1>4. ASSUME NEW n \in Name \ {Inline} PROVE components[n] = MapOf(files)[n]
  <2>1. CASE \E f \in files : NameOf[f] = n
    <3>1. MapOf(files)[n] \in files /\ NameOf[MapOf(files)[n]] = n
      BY <1>1, <2>1, MapOfTyped
    <3> QED BY <1>1, <1>3, <3>1 DEF Held, NamedFile
  <2>2. CASE ~(\E f \in files : NameOf[f] = n)
    <3>1. MapOf(files)[n] = None
      BY <1>1, <2>2, MapOfTyped
    <3> QED BY <1>1, <1>3, <2>2, <3>1 DEF RegistryTyped, Mapped, Held, NamedFile
  <2> QED BY <2>1, <2>2
<1>5. components[Inline] = IF adopted THEN InlinePath ELSE None
  BY <1>1 DEF RegistryTyped
<1> QED BY <1>1, <1>4, <1>5 DEF MapOf

(* With every event handled the map is the tree and what was adopted, whatever     *)
(* the interleaving of the callbacks with Reload, Adopt and the changes.            *)
THEOREM MapIsTree == RegistrySpec => []SettledIsTree
<1> QED BY MapBegins, MapStep, MapAtRest, PTL DEF RegistrySpec

-----------------------------------------------------------------------------
(* The caches. *)

USE SelectorAssumption

LEMMA CachesSteps ==
    [CachesNext]_cvars =>
        \/ Render /\ UNCHANGED vars
        \/ \E f \in File : Edit(f) /\ Spoil({f})
        \/ \E d \in Dir \ {Root} : EditDir(d) /\ Spoil(files \ files')
        \/ OnTouch /\ InvalidateForSource(calling.path)
        \/ OnDrop /\ InvalidateComponent(CalledName)
        \/ (Onward \/ UNCHANGED vars) /\ UNCHANGED caches
BY DEF CachesNext, cvars

LEMMA RegistryStep == [CachesNext]_cvars => [RegistryNext]_vars
BY CachesSteps DEF RegistryNext

(* What is rendered is rendered by a process whose registry has started. *)
CachesTyped ==
    /\ RegistryTyped /\ CachesTypeOK
    /\ phase = "boot" => at = "idle" /\ cached = Empty

LEMMA BootsOnce == [Next]_wvars /\ phase' = "boot" => phase = "boot"
<1> SUFFICES ASSUME [Next]_wvars, phase' = "boot" PROVE phase = "boot"
  OBVIOUS
<1>1. CASE \/ \E f \in File : CreateFile(f) \/ WriteFile(f) \/ DeleteFile(f)
           \/ \E d \in Dir \ {Root} : MakeDir(d) \/ RemoveDir(d) \/ MoveOut(d)
  BY <1>1 DEF CreateFile, WriteFile, DeleteFile, MakeDir, RemoveDir, MoveOut
<1>2. CASE Step
  BY <1>2 DEF Step, Watch, WatchFails, List, ListFails, Abandon, Announce, Started, HandleDir, HandleFile
<1>3. CASE Return \/ Stop \/ LoopEnds \/ UNCHANGED wvars
  BY <1>3 DEF Return, Stop, LoopEnds, wvars
<1> QED BY <1>1, <1>2, <1>3 DEF Next

LEMMA InputsAreFiles == \A f \in File : Inputs(f) \in SUBSET File /\ f \in Inputs(f) /\ f # None
BY DEF Inputs, Path

LEMMA CachesTypedStep == CachesTyped /\ [CachesNext]_cvars => CachesTyped'
<1> SUFFICES ASSUME CachesTyped, [CachesNext]_cvars PROVE CachesTyped'
  OBVIOUS
<1>1. RegistryTyped /\ RegistryTyped' /\ (phase' = "boot" => phase = "boot")
  BY TypedStep, RegistryStep, WatcherStep, BootsOnce DEF CachesTyped
<1>2. CachesTypeOK /\ cached \in [Selector -> File \cup {None}] /\ former \in [Selector -> File \cup {None}]
      /\ age \in [Selector -> Age] /\ index \subseteq Selector \X File
  BY DEF CachesTyped, CachesTypeOK
<1>3. \A t : Artifact(t)' = Artifact(t)
  BY DEF Artifact
<1>4. \A f : Inputs(f)' = Inputs(f)
  BY DEF Inputs
<1>5. CASE Render /\ UNCHANGED vars
  <2>1. phase' = phase
    BY <1>5 DEF vars, wvars
  <2>2. ASSUME NEW s \in Selector, Lookup(s) PROVE CachesTyped'
    <3>1. components[FileNameOf[s]] \in Artifact(s)
      BY <1>1, <2>2 DEF Lookup, RegistryTyped, Mapped, Artifact
    <3> QED BY <1>1, <1>2, <1>3, <1>4, <2>1, <2>2, <3>1
            DEF Lookup, CachesTyped, CachesTypeOK, store, Age
  <2>3. CASE MemHit \/ Fail \/ StoreFails
    BY <1>1, <1>2, <1>3, <1>4, <2>1, <2>3 DEF MemHit, Fail, StoreFails, Over, CachesTyped, CachesTypeOK, store, Age
  <2>4. CASE DiskHit
    <3>1. former[chosen] \in Artifact(chosen)
      BY <1>2, <2>4 DEF DiskHit, CachesTypeOK
    <3> QED BY <1>1, <1>2, <1>3, <1>4, <2>1, <2>4, <3>1 DEF DiskHit, CachesTyped, CachesTypeOK, store
  <2>5. CASE Miss \/ \E f \in File : ReadSource(f)
    BY <1>1, <1>2, <1>3, <1>4, <2>1, <2>5 DEF Miss, ReadSource, CachesTyped, CachesTypeOK, store
  <2>6. CASE Record
    <3>1. held \in File /\ chosen \in Selector /\ at = "build" /\ unread = {}
      BY <1>2, <2>6 DEF Record, CachesTypeOK, Artifact
    <3>2. index' \subseteq Selector \X File
      BY <1>2, <2>6, <3>1, InputsAreFiles DEF Record
    <3> QED BY <1>1, <1>2, <1>3, <1>4, <2>1, <2>6, <3>1, <3>2 DEF Record, CachesTyped, CachesTypeOK, store
  <2>7. CASE Put \/ Store
    <3>1. /\ at \in {"promote", "put", "store"} /\ held \in Artifact(chosen) /\ chosen \in Selector
          /\ heldAge \in Age /\ unread = {}
      BY <1>2, <2>7 DEF Put, Store, CachesTypeOK
    <3>2. /\ cached' = [cached EXCEPT ![chosen] = held] /\ age' = [age EXCEPT ![chosen] = heldAge]
          /\ former' \in {former, [former EXCEPT ![chosen] = None]} /\ index' = index
          /\ chosen' = chosen
      BY <1>2, <2>7 DEF Put, Store, Over
    <3>3. held \in File
      BY <3>1 DEF Artifact
    <3>4. /\ cached' \in [Selector -> File \cup {None}] /\ former' \in [Selector -> File \cup {None}]
          /\ age' \in [Selector -> Age]
      BY <1>2, <3>1, <3>2, <3>3
    <3>5. \A s \in Selector : {cached'[s], former'[s]} \subseteq Artifact(s) \cup {None}
      BY <1>2, <3>1, <3>2 DEF CachesTypeOK
    <3>6. \/ at' = "idle" /\ heldAge' = "fresh"
          \/ at' = "store" /\ UNCHANGED <<held, heldAge, unread>>
      BY <2>7 DEF Put, Store, Over
    <3>7. at # "idle" /\ phase' # "boot"
      BY <2>1, <3>1 DEF CachesTyped
    <3> QED BY <1>1, <1>2, <1>3, <1>4, <3>1, <3>2, <3>4, <3>5, <3>6, <3>7 DEF CachesTyped, CachesTypeOK, Age
  <2> QED BY <1>5, <2>2, <2>3, <2>4, <2>5, <2>6, <2>7 DEF Render
<1>6. ASSUME NEW fs, Spoil(fs) PROVE CachesTyped'
  <2>1. /\ UNCHANGED <<cached, index, at, chosen, held, unread>>
        /\ \A a \in Age : Aged(a) \in Age
    BY <1>6 DEF Spoil, Age, Aged
  <2>2. age' \in [Selector -> Age] /\ heldAge' \in Age
    BY <1>2, <1>6, <2>1 DEF Spoil, CachesTypeOK
  <2>3. /\ former' \in [Selector -> File \cup {None}]
        /\ \A s \in Selector : former'[s] \in {former[s], None}
    BY <1>2, <1>6 DEF Spoil
  <2>4. \A s \in Selector : {cached'[s], former'[s]} \subseteq Artifact(s) \cup {None}
    BY <1>2, <2>1, <2>3 DEF CachesTypeOK
  <2> QED BY <1>1, <1>2, <1>3, <1>4, <2>1, <2>2, <2>3, <2>4 DEF CachesTyped, CachesTypeOK, Empty
<1>7. ASSUME NEW ss, Drop(ss), heldAge' \in Age, UNCHANGED <<index, at, chosen, held, unread>> PROVE CachesTyped'
  <2>1. /\ cached' \in [Selector -> File \cup {None}] /\ former' \in [Selector -> File \cup {None}]
        /\ age' \in [Selector -> Age]
        /\ \A s \in Selector : former'[s] \in {former[s], None} /\ cached'[s] \in {cached[s], None}
    BY <1>2, <1>7 DEF Drop, Age
  <2>2. \A s \in Selector : {cached'[s], former'[s]} \subseteq Artifact(s) \cup {None}
    BY <1>2, <2>1 DEF CachesTypeOK
  <2>3. cached = Empty => cached' = Empty
    BY <1>7 DEF Drop, Empty
  <2>4. chosen \in Selector /\ at' = at /\ chosen' = chosen /\ held' = held /\ unread' = unread
    BY <1>2, <1>7 DEF CachesTypeOK
  <2>5. at \in {"promote", "build"} => cached'[chosen] = None
    BY <1>2, <2>1, <2>4 DEF CachesTypeOK
  <2> QED BY <1>1, <1>2, <1>3, <1>4, <1>7, <2>1, <2>2, <2>3, <2>4, <2>5 DEF CachesTyped, CachesTypeOK, Empty
<1>8. CASE OnTouch /\ InvalidateForSource(calling.path)
  BY <1>2, <1>7, <1>8 DEF InvalidateForSource, CachesTypeOK, Age
<1>9. CASE OnDrop /\ InvalidateComponent(CalledName)
  BY <1>2, <1>7, <1>9 DEF InvalidateComponent, CachesTypeOK, Age
<1>10. CASE UNCHANGED caches
  BY <1>1, <1>2, <1>3, <1>4, <1>10 DEF caches, store, render, CachesTyped, CachesTypeOK, Empty
<1> QED BY <1>5, <1>6, <1>8, <1>9, <1>10, CachesSteps

LEMMA CachesStartTyped == CachesInit => CachesTyped
<1> SUFFICES ASSUME CachesInit PROVE CachesTyped
  OBVIOUS
<1>1. RegistryTyped /\ files \in SUBSET File
  BY StartsTyped DEF CachesInit, RegistryTyped, RegistryTypeOK, TypeOK
<1>2. former \in [Selector -> files \cup {None}]
      /\ \A s \in Selector : former[s] # None => NameOf[former[s]] = FileNameOf[s]
  BY DEF CachesInit
<1>3. former \in [Selector -> File \cup {None}] /\ cached \in [Selector -> File \cup {None}]
  BY <1>1, <1>2 DEF CachesInit, Empty
<1>4. \A s \in Selector : {cached[s], former[s]} \subseteq Artifact(s) \cup {None}
  BY <1>2, <1>3 DEF CachesInit, Empty, Artifact
<1> QED BY <1>1, <1>3, <1>4 DEF CachesInit, CachesTyped, CachesTypeOK, Age, Empty

(* Every reachable state of the caches and the render is well typed: what is    *)
(* held is a file of the selector's name, and memory does not have what is built *)
(* or promoted.                                                                   *)
THEOREM CachesTypes == CachesSpec => []CachesTypeOK
<1>1. CachesTyped => CachesTypeOK
  BY DEF CachesTyped
<1> QED BY <1>1, CachesStartTyped, CachesTypedStep, PTL DEF CachesSpec

-----------------------------------------------------------------------------
(* What is on disk since a former process has not left the tree. *)

FormerInv ==
    /\ \A s \in Selector : former[s] # None => former[s] \in files
    /\ On /\ phase # "boot" => \A s \in Selector : former[s] # None => Above[former[s]] \in watched

(* A process that has started watches every directory with a file in it, but   *)
(* for those made since.                                                        *)
LEMMA StartWatches ==
    ASSUME TypeOK, TreeOK, Ways, Started, NEW f \in files
    PROVE  Above[f] \in watched
<1> DEFINE ds == {d \in dirs \ watched : Inside(d) \cap (dirs \cup files) # {}}
<1>1. /\ walk = {} /\ dirs \in SUBSET Dir
      /\ \A d \in dirs \ watched : BootWalk(d) \/ Inside(d) \cap (dirs \cup files) = {}
  BY DEF Started, Idle, Ways, W2, TypeOK
<1>2. \A d \in dirs \ {Root} : Above[d] \in dirs /\ d \in Inside(Above[d])
  BY <1>1 DEF TreeOK, Closed, Inside
<1>3. \A d \in ds : d # Root /\ Above[d] \in ds
  <2> SUFFICES ASSUME NEW d \in ds PROVE d # Root /\ Above[d] \in ds
    OBVIOUS
  <2>1. d # Root /\ Above[d] \notin watched
    BY <1>1 DEF BootWalk
  <2> QED BY <1>2, <2>1
<1>4. ds = {}
  <2>1. ds \in SUBSET (Dir \ {Root})
    BY <1>1, <1>3
  <2> HIDE DEF ds
  <2> QED BY <1>3, <2>1, TreeAssumption
<1>5. Above[f] \in dirs /\ f \in Inside(Above[f])
  BY DEF TreeOK, FilesWithin, Inside, TypeOK
<1> QED BY <1>4, <1>5

LEMMA FormerStep == FormerInv /\ MapInv /\ CachesTyped /\ [CachesNext]_cvars => FormerInv'
<1> SUFFICES ASSUME FormerInv, MapInv, CachesTyped, [CachesNext]_cvars PROVE FormerInv'
  OBVIOUS
<1>1. /\ TypeOK /\ TreeOK /\ (On => Ways) /\ (On' => On) /\ [Next]_wvars
      /\ former \in [Selector -> File \cup {None}]
  BY OnStep, RegistryStep, WatcherStep DEF MapInv, WaysInv, CachesTyped, CachesTypeOK
<1>2. ASSUME UNCHANGED <<files, watched>>, phase' = phase \/ (phase # "boot" /\ phase' # "boot"),
             \A s \in Selector : former'[s] \in {former[s], None}
      PROVE  FormerInv'
  BY <1>1, <1>2 DEF FormerInv
<1>3. ASSUME NEW fs, Spoil(fs), phase' = phase, files \ files' \subseteq fs,
             \A f \in files' \ fs : Above[f] \in watched => Above[f] \in watched'
      PROVE  FormerInv'
  <2>1. \A s \in Selector : former'[s] # None => former'[s] = former[s] /\ former[s] \notin fs
    BY <1>1, <1>3 DEF Spoil, Inputs
  <2> QED BY <1>1, <1>3, <2>1 DEF FormerInv
<1>4. ASSUME NEW f \in File, Edit(f), Spoil({f}) PROVE FormerInv'
  <2>1. phase' = phase /\ watched' = watched /\ files \ files' \subseteq {f}
    BY <1>4 DEF Edit, CreateFile, WriteFile, DeleteFile, tree
  <2> QED BY <1>3, <1>4, <2>1
<1>5. ASSUME NEW d \in Dir \ {Root}, EditDir(d), Spoil(files \ files') PROVE FormerInv'
  <2>1. phase' = phase
    BY <1>5 DEF EditDir, MakeDir, RemoveDir, MoveOut
  <2>2. \A f \in files' \ (files \ files') : Above[f] \in watched => Above[f] \in watched'
    <3>1. CASE MakeDir(d)
      BY <3>1 DEF MakeDir
    <3>2. CASE RemoveDir(d) \/ MoveOut(d)
      BY <1>1, <3>2 DEF RemoveDir, MoveOut, Inside, TypeOK, Path
    <3> QED BY <1>5, <3>1, <3>2 DEF EditDir
  <2> QED BY <1>3, <1>5, <2>1, <2>2
<1>6. CASE OnTouch /\ InvalidateForSource(calling.path)
  <2>1. \A s \in Selector : former'[s] \in {former[s], None}
    BY <1>1, <1>6 DEF InvalidateForSource, Drop
  <2> QED BY <1>2, <1>6, <2>1 DEF OnTouch, wvars
<1>7. CASE OnDrop /\ InvalidateComponent(CalledName)
  <2>1. \A s \in Selector : former'[s] \in {former[s], None}
    BY <1>1, <1>7 DEF InvalidateComponent, Drop
  <2> QED BY <1>2, <1>7, <2>1 DEF OnDrop, wvars
<1>8. CASE Render /\ UNCHANGED vars
  <2>1. \A s \in Selector : former'[s] \in {former[s], None}
    BY <1>1, <1>8 DEF Render, Lookup, MemHit, DiskHit, Miss, ReadSource, Fail, Record, Put, Store,
                      StoreFails, store
  <2> QED BY <1>2, <1>8, <2>1 DEF vars, wvars
<1>9. CASE (Onward \/ UNCHANGED vars) /\ UNCHANGED caches
  <2>1. former' = former
    BY <1>9 DEF caches, store
  <2>2. CASE UNCHANGED wvars
    BY <1>2, <2>1, <2>2 DEF wvars
  <2>3. CASE Returned
    BY <1>2, <2>1, <2>3 DEF Returned, Return, tree
  <2>4. CASE CloseStops
    BY <1>2, <2>1, <2>4 DEF CloseStops, Stop, tree
  <2>5. CASE LoopEnds
    BY <2>1, <2>5 DEF LoopEnds, tree, FormerInv, On
  <2>6. CASE Started
    <3>1. On => \A f \in files : Above[f] \in watched
      BY <1>1, <2>6, StartWatches
    <3>2. UNCHANGED <<files, watched>>
      BY <2>6 DEF Started, tree
    <3> QED BY <1>1, <2>1, <3>1, <3>2 DEF FormerInv
  <2>7. CASE Step /\ ~Started
    <3>1. UNCHANGED files /\ watched \subseteq watched'
          /\ (phase' = phase \/ phase' = "failed")
      BY <2>7 DEF Step, Watch, WatchFails, List, ListFails, Abandon, Announce, HandleDir, HandleFile, tree
    <3> QED BY <1>1, <2>1, <3>1 DEF FormerInv, On
  <2> QED
    BY <1>9, <2>2, <2>3, <2>4, <2>5, <2>6, <2>7
    DEF Onward, Update, AddFile, AddRefused, Ignored, RemoveFile, RemoveNothing, Reload, ReloadInstalls,
        ReloadLists, ReloadFails, Adopt, Close, vars
<1> QED BY <1>4, <1>5, <1>6, <1>7, <1>8, <1>9, CachesSteps

-----------------------------------------------------------------------------
(* What is cached under a plain name leaves with the file. *)

(* onDrop is about to drop s. *)
Dropping(s) == step = "notify" /\ calling.op = "remove" /\ CalledName = s

(* What is cached, or about to be, under its own name. *)
Cached(f) == cached[NameOf[f]] = f /\ age[NameOf[f]] # "overtaken"
Underway(f) == at # "idle" /\ chosen = NameOf[f] /\ held = f /\ heldAge # "overtaken"
Shown ==
    {f \in NamedFile : NameOf[f] \in Selector /\ ~Dropping(NameOf[f]) /\ (Cached(f) \/ Underway(f))}

(* The name of such a file is in the map, and the file, once gone, has its       *)
(* removal still to come: it will find the name.                                  *)
PlainInv ==
    /\ MapInv /\ CachesTyped /\ FormerInv
    /\ On /\ upset = {} =>
          /\ \A f \in Shown : components[NameOf[f]] # None
          /\ Absent(NamedFile, Shown, Unapplied)

LEMMA NamedNames ==
    \A f \in NamedFile : f \in File /\ f # None /\ NameOf[f] \in Name \ {Inline}
BY DEF NamedFile, Path

(* Whatever shows nothing but what was shown, what the map holds or what is       *)
(* where the watcher sees it go, and leaves its name in the map.                   *)
LEMMA PlainKept ==
    ASSUME PlainInv, [RegistryNext]_vars, On', upset' = {},
           \A f \in Shown' : f \in Shown \cup Held(components)
                             \/ (f \in files /\ (Above[f] \in watched \/ phase = "boot")),
           \A f \in Shown' : components'[NameOf[f]] # None,
           Unapplied' = IF calling' \in {calling, NoCall} THEN Unapplied ELSE calling'
    PROVE  (\A f \in Shown' : components'[NameOf[f]] # None) /\ Absent(NamedFile, Shown, Unapplied)'
<1>1. WaysInv /\ RegistryTyped /\ On /\ upset = {} /\ [Next]_wvars
  BY OnStep, UpsetGrows, WatcherStep DEF PlainInv, MapInv, WaysInv
<1>2. Absent(NamedFile, Shown, Unapplied) /\ Absent(NamedFile, Held(components), Unapplied)
  BY <1>1 DEF PlainInv, MapInv
<1>3. calling = NoCall => Unapplied = NoCall
  BY DEF Unapplied
<1>4. \A V, d : d = Unapplied' => (Absent(NamedFile, V, Unapplied) => Absent(NamedFile, V, d)')
  BY <1>1, <1>3, Carried, NamedAreFiles
<1>5. \A V : V = Shown' => Absent(NamedFile, V, Unapplied)
  BY <1>2 DEF Absent, Out
<1>6. NamedFile' = NamedFile
  BY DEF NamedFile
<1> QED BY <1>4, <1>5, <1>6

(* A removal that finds the name has onDrop drop it, one that does not finds     *)
(* nothing shown.                                                                 *)
LEMMA PlainCallback ==
    ASSUME PlainInv, [RegistryNext]_vars, On', upset' = {}, Replacing, UNCHANGED caches
    PROVE  (\A f \in Shown' : components'[NameOf[f]] # None) /\ Absent(NamedFile, Shown, Unapplied)'
<1>1. WaysInv /\ RegistryTyped /\ On /\ upset = {} /\ [Next]_wvars
  BY OnStep, UpsetGrows, WatcherStep DEF PlainInv, MapInv, WaysInv
<1>2. (\A f \in Shown : components[NameOf[f]] # None) /\ Absent(NamedFile, Shown, Unapplied)
  BY <1>1 DEF PlainInv
<1>3. UNCHANGED wvars /\ step = "start" /\ step' \in {"notify", "done"} /\ ~AddRefused
  BY DEF Replacing, AddFile, AddRefused, Ignored, RemoveFile, RemoveNothing, Applying
<1>4. Unapplied = calling /\ Unapplied' = NoCall /\ calling' = calling
  BY <1>3 DEF Unapplied, wvars
<1>5. /\ Shown' \subseteq Shown /\ Shown \subseteq NamedFile
      /\ \A f \in Shown' : ~Dropping(NameOf[f])'
  BY <1>3 DEF Shown, Dropping, Cached, Underway, NamedFile, caches, store, render
<1>6. components \in [Name -> Source] /\ calling \in Event \cup {NoCall}
  BY <1>1 DEF RegistryTyped, RegistryTypeOK, TypeOK
<1>7. \A f \in Shown' : components'[NameOf[f]] # None /\ calling # Removing(f)
  <2> SUFFICES ASSUME NEW f \in Shown' PROVE components'[NameOf[f]] # None /\ calling # Removing(f)
    OBVIOUS
  <2>1. f \in NamedFile /\ components[NameOf[f]] # None /\ NameOf[f] \in Name /\ f \in File /\ NameOf[f] # None
    BY <1>2, <1>5, NamedNames DEF NamedFile
  <2>2. CASE AddFile \/ Ignored
    <3>1. calling # Removing(f)
      BY <2>2 DEF AddFile, Ignored, Applying, Removing
    <3>2. components'[NameOf[f]] # None
      BY <1>6, <2>1, <2>2 DEF AddFile, Ignored, Applying, Eligible, CalledName, Path
    <3> QED BY <3>1, <3>2
  <2>3. CASE RemoveFile
    <3>1. CalledName # NameOf[f]
      BY <1>3, <1>5, <2>3 DEF RemoveFile, Applying, Dropping, CalledName, wvars
    <3>2. components'[NameOf[f]] # None
      BY <1>6, <2>1, <2>3, <3>1 DEF RemoveFile
    <3>3. calling # Removing(f)
      BY <3>1 DEF CalledName, Removing
    <3> QED BY <3>2, <3>3
  <2>4. CASE RemoveNothing
    <3>1. components' = components /\ (Eligible => components[CalledName] = None)
      BY <2>4 DEF RemoveNothing
    <3>2. calling # Removing(f)
      BY <2>1, <3>1 DEF Eligible, CalledName, Removing
    <3> QED BY <2>1, <3>1, <3>2
  <2> QED BY <1>3, <2>2, <2>3, <2>4 DEF Replacing
<1>8. \A V : V = Shown' => Absent(NamedFile, V, NoCall)
  <2> SUFFICES ASSUME NEW V, V = Shown' PROVE Absent(NamedFile, V, NoCall)
    OBVIOUS
  <2>1. \A f \in V : f \in Shown /\ calling # Removing(f)
    BY <1>5, <1>7
  <2>2. Absent(NamedFile, Shown, calling)
    BY <1>2, <1>4
  <2>3. \A X, W, c : (\A f \in NamedFile : f \in W => c = Making(f) \/ (f \in X /\ c # Removing(f)))
                     => (Absent(NamedFile, X, c) => Absent(NamedFile, W, NoCall))
    BY Applied, NamedAreFiles
  <2>4. \A X, c : X = Shown /\ c = calling /\ Absent(NamedFile, X, c) => Absent(NamedFile, V, NoCall)
    BY <2>1, <2>3
  <2> QED BY <2>2, <2>4
<1>9. \A V, c : c = NoCall => (Absent(NamedFile, V, c) => Absent(NamedFile, V, c)')
  BY <1>1, <1>4, Carried, NamedAreFiles
<1>10. NamedFile' = NamedFile
  BY DEF NamedFile
<1> QED BY <1>4, <1>7, <1>8, <1>9, <1>10

(* Lookup shows a file the map holds, FromDisk one that has not moved since.     *)
LEMMA PlainRender ==
    ASSUME PlainInv, On, upset = {}, Render, UNCHANGED vars
    PROVE  /\ \A f \in Shown' : f \in Shown \cup Held(components)
                                \/ (f \in files /\ (Above[f] \in watched \/ phase = "boot"))
           /\ \A f \in Shown' : components'[NameOf[f]] # None
<1>1. /\ CachesTypeOK /\ FormerInv /\ components' = components
      /\ \A f \in Shown : components[NameOf[f]] # None
  BY DEF PlainInv, CachesTyped, vars, rvars
<1>2. \A n : Dropping(n)' = Dropping(n)
  BY DEF Dropping, CalledName, vars, wvars, rvars
<1>3. NamedFile' = NamedFile
  BY DEF NamedFile
<1>4. cached \in [Selector -> File \cup {None}] /\ age \in [Selector -> Age]
  BY <1>1 DEF CachesTypeOK
<1> SUFFICES ASSUME NEW f \in Shown'
             PROVE  /\ f \in Shown \cup Held(components)
                       \/ (f \in files /\ (Above[f] \in watched \/ phase = "boot"))
                    /\ components[NameOf[f]] # None
  BY <1>1
<1>5. f \in NamedFile /\ NameOf[f] \in Selector \cap Name /\ FileNameOf[NameOf[f]] = NameOf[f]
      /\ ~Dropping(NameOf[f]) /\ f # None
  BY <1>2, <1>3, NamedNames DEF Shown
<1>6. CASE f \in Shown
  BY <1>1, <1>6
<1>7. CASE f \notin Shown
  <2>1. Cached(f)' \/ Underway(f)'
    BY DEF Shown
  <2>2. ~Cached(f) /\ ~Underway(f)
    BY <1>5, <1>7 DEF Shown
  <2>3. ASSUME NEW s \in Selector, Lookup(s) PROVE f \in Held(components) /\ components[NameOf[f]] # None
    BY <1>5, <2>1, <2>2, <2>3 DEF Lookup, store, Cached, Underway, Held
  <2>4. CASE DiskHit
    <3>1. /\ former[chosen] = f /\ chosen = NameOf[f] /\ at = "search" /\ heldAge # "overtaken"
      BY <2>1, <2>2, <2>4 DEF DiskHit, store, Cached, Underway
    <3>2. held \in NamedFile /\ NameOf[held] = chosen
      BY <1>1, <1>5, <3>1 DEF CachesTypeOK, Artifact, NamedFile
    <3>3. held \in Shown
      BY <1>5, <3>1, <3>2 DEF Shown, Underway
    <3>4. phase # "boot"
      BY <3>1 DEF PlainInv, CachesTyped
    <3> QED BY <1>1, <1>5, <3>1, <3>2, <3>3, <3>4 DEF FormerInv
  <2>5. ~Put /\ ~Store
    <3> SUFFICES ASSUME Put \/ Store PROVE FALSE
      OBVIOUS
    <3>1. /\ at # "idle" /\ cached' = [cached EXCEPT ![chosen] = held] /\ age' = [age EXCEPT ![chosen] = heldAge]
      BY DEF Put, Store
    <3>2. ~Underway(f)'
      BY <2>2, <3>1 DEF Put, Store, Over, Underway
    <3>3. cached'[NameOf[f]] = f /\ age'[NameOf[f]] # "overtaken"
      BY <2>1, <3>2 DEF Cached
    <3>4. chosen = NameOf[f] => held = f /\ heldAge # "overtaken"
      BY <1>4, <1>5, <3>1, <3>3
    <3>5. chosen # NameOf[f] => cached[NameOf[f]] = f /\ age[NameOf[f]] # "overtaken"
      BY <1>4, <1>5, <3>1, <3>3
    <3> QED BY <2>2, <3>1, <3>4, <3>5 DEF Cached, Underway
  <2>6. ~(MemHit \/ Miss \/ Fail \/ Record \/ StoreFails \/ \E g \in File : ReadSource(g))
    BY <2>1, <2>2 DEF MemHit, Miss, Fail, Record, StoreFails, ReadSource, Over, store, Cached, Underway
  <2> QED BY <2>3, <2>4, <2>5, <2>6 DEF Render
<1> QED BY <1>6, <1>7

LEMMA PlainStep == PlainInv /\ [CachesNext]_cvars => PlainInv'
<1> SUFFICES ASSUME PlainInv, [CachesNext]_cvars PROVE PlainInv'
  OBVIOUS
<1>1. MapInv' /\ CachesTyped' /\ FormerInv' /\ MapInv /\ CachesTyped /\ [RegistryNext]_vars
  BY MapStep, CachesTypedStep, FormerStep, RegistryStep DEF PlainInv
<1> DEFINE Goal == (\A f \in Shown' : components'[NameOf[f]] # None) /\ Absent(NamedFile, Shown, Unapplied)'
<1> SUFFICES ASSUME On', upset' = {} PROVE Goal
  BY <1>1 DEF PlainInv
<1>2. /\ RegistryTyped /\ On /\ upset = {} /\ components \in [Name -> Source]
      /\ step # "start" => calling # NoCall
      /\ cached \in [Selector -> File \cup {None}] /\ age \in [Selector -> Age]
      /\ \A f \in Shown : components[NameOf[f]] # None
  BY <1>1, OnStep, UpsetGrows, WatcherStep
  DEF PlainInv, MapInv, WaysInv, RegistryTyped, RegistryTypeOK, CachesTyped, CachesTypeOK
<1>3. /\ NamedFile' = NamedFile
      /\ \A f \in NamedFile : f # None /\ NameOf[f] \in Name \ {Inline}
      /\ Shown \subseteq NamedFile
  BY NamedNames DEF NamedFile, Shown
<1>4. ASSUME Shown' \subseteq Shown, \A n \in Name \ {Inline} : components[n] # None => components'[n] # None,
             Unapplied' = IF calling' \in {calling, NoCall} THEN Unapplied ELSE calling'
      PROVE  Goal
  BY <1>1, <1>2, <1>3, <1>4, PlainKept
<1>5. ASSUME Around, UNCHANGED <<cached, at, chosen, held>>,
             \A t \in Selector : age'[t] = "overtaken" <=> age[t] = "overtaken",
             heldAge' = "overtaken" <=> heldAge = "overtaken"
      PROVE  Goal
  <2>1. UNCHANGED <<components, step>>
    BY <1>5, AroundKeeps
  <2>2. ~Return
    BY <1>5, AroundRuns
  <2>3. calling' = calling \/ (calling = NoCall /\ calling' # NoCall /\ step = "start")
    BY <1>1, <1>2, <2>2, CallsBegin, WatcherStep
  <2>4. \A n : Dropping(n)' <=> Dropping(n)
    BY <2>1, <2>3 DEF Dropping, CalledName
  <2>5. Shown' = Shown
    BY <1>3, <1>5, <2>4 DEF Shown, Cached, Underway
  <2>6. Unapplied' = IF calling' \in {calling, NoCall} THEN Unapplied ELSE calling'
    BY <1>2, <2>1, <2>3 DEF Unapplied
  <2> QED BY <1>4, <2>1, <2>5, <2>6
<1>6. ASSUME NEW fs, Spoil(fs), Around PROVE Goal
  <2>1. \A a : Aged(a) = "overtaken" <=> a = "overtaken"
    BY DEF Aged
  <2> QED BY <1>5, <1>6, <2>1 DEF Spoil
<1>7. CASE UNCHANGED caches /\ Around
  BY <1>5, <1>7 DEF caches, store, render
<1>8. CASE Returned /\ UNCHANGED caches
  <2>1. UNCHANGED components /\ step = "done" /\ step' = "start" /\ calling' = NoCall
    BY <1>8 DEF Returned, Return
  <2>2. Shown' \subseteq Shown
    BY <1>3, <1>8, <2>1 DEF Shown, Dropping, Cached, Underway, caches, store, render
  <2>3. Unapplied' = IF calling' \in {calling, NoCall} THEN Unapplied ELSE calling'
    BY <2>1 DEF Unapplied
  <2> QED BY <1>4, <2>1, <2>2, <2>3
<1>9. CASE Replacing /\ UNCHANGED caches
  BY <1>1, <1>9, PlainCallback
<1>10. ASSUME NEW ss, Drop(ss), UNCHANGED <<calling, components, at, chosen, held>>,
              step = "notify", step' = "done",
              heldAge' \in {heldAge, "overtaken"},
              \A f \in NamedFile : NameOf[f] \in Selector /\ Dropping(NameOf[f]) =>
                  NameOf[f] \in ss /\ (at # "idle" /\ chosen = NameOf[f] => heldAge' = "overtaken")
       PROVE  Goal
  <2>1. \A f \in NamedFile : NameOf[f] \in Selector =>
           (Cached(f)' => Cached(f) /\ NameOf[f] \notin ss) /\ (Underway(f)' => Underway(f) /\ heldAge' # "overtaken")
    BY <1>3, <1>10 DEF Drop, Cached, Underway
  <2>2. Shown' \subseteq Shown
    BY <1>3, <1>10, <2>1 DEF Shown, Underway
  <2>3. Unapplied' = IF calling' \in {calling, NoCall} THEN Unapplied ELSE calling'
    BY <1>10 DEF Unapplied
  <2> QED BY <1>4, <1>10, <2>2, <2>3
<1>11. CASE OnTouch /\ InvalidateForSource(calling.path)
  <2>1. calling.op # "remove"
    BY <1>11 DEF OnTouch
  <2>2. \A n : ~Dropping(n)
    BY <2>1 DEF Dropping
  <2> QED BY <1>10, <1>11, <2>2 DEF OnTouch, InvalidateForSource, wvars
<1>12. CASE OnDrop /\ InvalidateComponent(CalledName)
  <2>1. \A n : Dropping(n) => n = CalledName
    BY DEF Dropping
  <2> QED BY <1>10, <1>12, <2>1 DEF OnDrop, InvalidateComponent, wvars
<1>13. CASE Render /\ UNCHANGED vars
  <2>1. /\ \A f \in Shown' : f \in Shown \cup Held(components)
                             \/ (f \in files /\ (Above[f] \in watched \/ phase = "boot"))
        /\ \A f \in Shown' : components'[NameOf[f]] # None
    BY <1>2, <1>13, PlainRender
  <2>2. Unapplied' = Unapplied /\ calling' = calling
    BY <1>13 DEF Unapplied, vars, wvars, rvars
  <2> QED BY <1>1, <2>1, <2>2, PlainKept
<1>14. ASSUME UNCHANGED caches, UNCHANGED <<calling, step>>,
              \A n \in Name \ {Inline} : components[n] # None => components'[n] # None
       PROVE  Goal
  <2>1. Shown' = Shown
    BY <1>3, <1>14 DEF Shown, Dropping, CalledName, Cached, Underway, caches, store, render
  <2>2. Unapplied' = IF calling' \in {calling, NoCall} THEN Unapplied ELSE calling'
    BY <1>14 DEF Unapplied
  <2> QED BY <1>4, <1>14, <2>1, <2>2
<1>15. ASSUME Close \/ UNCHANGED vars \/ Reload \/ Walking \/ Failing, UNCHANGED caches PROVE Goal
  <2>1. UNCHANGED <<calling, step, components>>
    BY <1>15 DEF Close, Reload, Walking, ReloadLists, Failing, ReloadFails, vars, wvars, rvars
  <2> QED BY <1>14, <1>15, <2>1
<1>16. ASSUME ReloadInstalls, UNCHANGED caches PROVE Goal
  <2>1. UNCHANGED <<calling, step>> /\ components' = found
    BY <1>16 DEF ReloadInstalls, wvars
  <2>2. \A n \in Name \ {Inline} : components[n] # None => found[n] # None
    BY <1>16 DEF ReloadInstalls
  <2> QED BY <1>14, <1>16, <2>1, <2>2
<1>17. ASSUME Adopt, UNCHANGED caches PROVE Goal
  <2>1. UNCHANGED <<calling, step>> /\ components' = [components EXCEPT ![Inline] = InlinePath]
    BY <1>17 DEF Adopt, wvars
  <2> QED BY <1>2, <1>14, <1>17, <2>1
<1>18. CASE (Onward \/ UNCHANGED vars) /\ UNCHANGED caches
  BY <1>7, <1>8, <1>9, <1>15, <1>16, <1>17, <1>18
  DEF Onward, Update, Around, Replacing, Walking, Failing
<1>19. (\A f \in File : Edit(f) => Around) /\ (\A d \in Dir \ {Root} : EditDir(d) => Around)
  BY DEF Around
<1> QED BY <1>6, <1>11, <1>12, <1>13, <1>18, <1>19, CachesSteps

(* A component's own cache entry goes with its file, whatever the interleaving of  *)
(* events, Reload and Adopt with the steps of a render, as long as no Reload took  *)
(* the name first and the removal did not pass by a render that had looked it up.   *)
THEOREM PlainGoes == CachesSpec => []PlainGoesWithFile
<1>1. CachesInit => PlainInv
  <2> SUFFICES ASSUME CachesInit PROVE PlainInv
    OBVIOUS
  <2>1. MapInv /\ CachesTyped /\ Shown = {}
    BY MapBegins, CachesStartTyped, NamedNames DEF CachesInit, Shown, Cached, Underway, Empty
  <2>2. FormerInv
    BY DEF CachesInit, RegistryInit, Init, FormerInv
  <2>3. Absent(NamedFile, {}, Unapplied)
    <3>1. On /\ upset = {}
      BY DEF CachesInit, RegistryInit, Init, On
    <3>2. Absent(NamedFile, Held(components), Unapplied)
      BY <2>1, <3>1 DEF MapInv
    <3> QED BY <3>2 DEF Absent, Out
  <2> QED BY <2>1, <2>2, <2>3 DEF PlainInv
<1>2. PlainInv => PlainGoesWithFile
  <2> SUFFICES ASSUME PlainInv, Calm, "dropped" \notin upset, NEW s \in Selector \cap Name,
                      cached[s] # None, age[s] # "overtaken"
               PROVE  cached[s] \in files
    BY DEF PlainGoesWithFile
  <2>1. /\ AtRest /\ On /\ upset = {} /\ Unapplied = NoCall /\ RegistryTyped /\ CachesTypeOK
        /\ \A t : ~Dropping(t)
    BY DEF Calm, Faultless, AtRest, Idle, On, Unapplied, Dropping, PlainInv, CachesTyped, NoCall
  <2>2. cached[s] \in NamedFile /\ NameOf[cached[s]] = s
    BY <2>1 DEF CachesTypeOK, Artifact, NamedFile
  <2>3. cached[s] \in Shown
    BY <2>1, <2>2 DEF Shown, Cached
  <2>4. Absent(NamedFile, Shown, NoCall)
    BY <2>1 DEF PlainInv
  <2>5. ~InQueue(Removing(cached[s])) /\ NoCall # Removing(cached[s])
    BY <2>1 DEF AtRest, InQueue, NoCall, Removing
  <2> QED BY <2>2, <2>3, <2>4, <2>5 DEF Absent, Out
<1> QED BY <1>1, <1>2, PlainStep, PTL DEF CachesSpec

-----------------------------------------------------------------------------
(* What is cached and no longer what its sources hold is about to be dropped. *)

Writing(f) == [op |-> "write", path |-> f]

(* The walk or the queue lead to a callback of f, ... *)
Leading(f) ==
    \/ Walked(f)
    \/ InQueue(Writing(f))
    \/ \E q \in Path : Anc(q, f) /\ InQueue(Making(q))

(* ... or one runs that has yet to invalidate. *)
Telling(f) == step \in {"start", "notify"} /\ calling \in {Making(f), Writing(f)}
Leads(f) == Telling(f) \/ Leading(f)

Outdated(f) == f \notin files \/ Leads(f)

(* What the cache has of a selector and an event could drop, but for those late. *)
Old(s) == cached[s] # None /\ age[s] = "stale" /\ {s} \X Inputs(cached[s]) \subseteq index
OldRender == at # "idle" /\ heldAge = "stale"

FreshInv ==
    /\ MapInv /\ CachesTyped
    /\ On => \A s \in Selector : Old(s) => \E f \in Inputs(cached[s]) : Outdated(f)
    /\ On => (OldRender => \E f \in ReadSoFar : Outdated(f))

(* Where a file changes unwatched the walk is still to come. *)
LEMMA ChangeLeads ==
    ASSUME TypeOK, Ways, NEW f \in File, Above[f] \in dirs, NEW op \in {"create", "write"},
           Report(op, f), Missed(f, {}), mishap' = {}, walk' = walk, phase # "boot"
    PROVE  Leading(f)'
<1>1. f \in Path \ {Root} /\ Above[f] \in Path
  BY DEF Path
<1>2. CASE Above[f] \in watched
  <2>1. Fits(f)
    BY <1>2 DEF Missed
  <2>2. InQueue([op |-> op, path |-> f])'
    BY <1>1, <2>1, AppendGets
  <2>3. CASE op = "create"
    BY <1>1, <2>2, <2>3, AncSelf DEF Leading, Making
  <2>4. CASE op = "write"
    BY <2>2, <2>4 DEF Leading, Writing
  <2> QED BY <2>3, <2>4
<1>3. CASE Above[f] \notin watched
  <2>1. Anc(Above[f], f)
    BY <1>1, AncSelf, AncUp
  <2>2. Brings(f, f)
    BY <1>1, <1>3, <2>1, BringsBelow DEF Ways, W1
  <2>3. \A e : InQueue(e) => InQueue(e)'
    BY <1>1, AppendKeeps
  <2>4. Walked(f) => Walked(f)'
    BY DEF Walked
  <2>5. Told(f, f) => \E q \in Path : Anc(q, f) /\ InQueue(Making(q))'
    BY <2>3 DEF Told, FinallyMade, InQueue
  <2> QED BY <2>2, <2>4, <2>5 DEF Brings, Leading, Making
<1> QED BY <1>2, <1>3

(* The way to a file that is there leads on, up to the callback. *)
LEMMA LeadingStep ==
    ASSUME TypeOK, TreeOK, Ways, On', phase # "boot", [Next]_wvars, NEW f \in File, f \in files',
           f \notin files \/ Leading(f)
    PROVE  Leading(f)' \/ (calling = NoCall /\ calling' \in {Making(f), Writing(f)})
<1>1. mishap' = {} /\ f \in Path /\ f \notin Dir
  BY DEF On, Path
<1>2. ASSUME NEW op \in {"create", "remove", "write"}, NEW p \in Path, Report(op, p), walk' = walk,
             Leading(f)
      PROVE  Leading(f)'
  <2>1. \A e : InQueue(e) => InQueue(e)'
    BY <1>2, AppendKeeps
  <2>2. Walked(f) => Walked(f)'
    BY <1>2 DEF Walked
  <2>3. (\E q \in Path : Anc(q, f) /\ InQueue(Making(q))) => \E q \in Path : Anc(q, f) /\ InQueue(Making(q))'
    BY <2>1
  <2> QED BY <1>2, <2>1, <2>2, <2>3 DEF Leading, Making, Writing
<1>3. ASSUME NEW g \in File, CreateFile(g) \/ WriteFile(g) \/ DeleteFile(g) PROVE Leading(f)'
  <2>1. g \in Path /\ walk' = walk /\ \E op \in {"create", "remove", "write"} : Report(op, g)
    BY <1>3 DEF CreateFile, WriteFile, DeleteFile, loop, Path
  <2>2. CASE Leading(f)
    BY <1>2, <2>1, <2>2
  <2>3. CASE f \notin files
    <3>1. CreateFile(f)
      BY <1>3, <2>3 DEF CreateFile, WriteFile, DeleteFile, tree
    <3> QED BY <1>1, <2>1, <3>1, ChangeLeads DEF CreateFile
  <2> QED BY <2>2, <2>3
<1>4. ASSUME NEW d \in Dir \ {Root}, MakeDir(d) \/ RemoveDir(d) \/ MoveOut(d) PROVE Leading(f)'
  <2>1. d \in Path /\ walk' = walk /\ (\E op \in {"create", "remove", "write"} : Report(op, d))
        /\ files' \subseteq files
    BY <1>4 DEF MakeDir, RemoveDir, MoveOut, loop, Path
  <2> QED BY <1>2, <2>1
<1>5. ASSUME UNCHANGED <<queue, files>>, Walked(f) => Walked(f)' PROVE Leading(f)'
  <2>1. \A e : InQueue(e) => InQueue(e)'
    BY <1>5 DEF InQueue
  <2>2. (\E q \in Path : Anc(q, f) /\ InQueue(Making(q))) => \E q \in Path : Anc(q, f) /\ InQueue(Making(q))'
    BY <2>1
  <2> QED BY <1>5, <2>1, <2>2 DEF Leading, Making, Writing
<1>6. ASSUME NEW d \in Dir, Watch(d) PROVE Leading(f)'
  <2>1. UNCHANGED <<queue, files>> /\ walk' = (walk \ {<<"visit", d>>}) \cup {<<"list", d>>}
    BY <1>6 DEF Watch, tree
  <2> QED BY <1>5, <2>1 DEF Walked
<1>7. ASSUME NEW d \in Dir, List(d) PROVE Leading(f)'
  <2>1. /\ UNCHANGED <<queue, files, dirs>>
        /\ walk' = (walk \ {<<"list", d>>}) \cup {<<"visit", p>> : p \in Inside(d) \cap (dirs \cup files)}
    BY <1>7 DEF List, tree
  <2>2. ASSUME Walked(f) PROVE Walked(f)'
    <3>1. PICK q \in Path : Anc(q, f) /\ (<<"visit", q>> \in walk \/ <<"list", q>> \in walk)
      BY <2>2 DEF Walked
    <3>2. CASE q # d \/ <<"visit", q>> \in walk
      BY <2>1, <3>1, <3>2 DEF Walked
    <3>3. CASE q = d
      <4>1. PICK c \in Path \ {Root} : Above[c] = d /\ Anc(c, f)
        BY <1>1, <3>1, <3>3, AncDown
      <4>2. c \in Inside(d) \cap (dirs \cup files)
        BY <2>1, <4>1, AncExists DEF Inside, Path
      <4> QED BY <2>1, <4>1, <4>2 DEF Walked
    <3> QED BY <3>2, <3>3
  <2> QED BY <1>5, <2>1, <2>2
<1>8. ASSUME NEW d \in Dir, WatchFails(d) \/ ListFails(d) PROVE Leading(f)'
  <2>1. /\ UNCHANGED <<queue, files>> /\ d \notin dirs
        /\ walk \in {{<<"visit", d>>}, {<<"list", d>>}}
    BY <1>1, <1>8 DEF WatchFails, ListFails, Abandon, tree
  <2>2. ~Walked(f)
    <3> SUFFICES ASSUME NEW q \in Path, Anc(q, f), <<"visit", q>> \in walk \/ <<"list", q>> \in walk
                 PROVE  FALSE
      BY DEF Walked
    <3>1. q = d
      BY <2>1
    <3> QED BY <1>1, <2>1, <3>1, AncExists
  <2> QED BY <1>5, <2>1, <2>2
<1>9. ASSUME NEW g \in File, Announce(g) PROVE Leading(f)' \/ (calling = NoCall /\ calling' = Making(f))
  <2>1. /\ UNCHANGED <<queue, files>> /\ walk' = walk \ {<<"visit", g>>}
        /\ calling = NoCall /\ calling' = Making(g)
    BY <1>9 DEF Announce, Making, tree
  <2>2. CASE g = f
    BY <2>1, <2>2
  <2>3. CASE g # f
    <3>1. g \notin Dir
      OBVIOUS
    <3>2. ~Anc(g, f)
      BY <2>3, <3>1, AncExists
    <3>3. Walked(f) => Walked(f)'
      BY <2>1, <3>2 DEF Walked
    <3> QED BY <1>5, <2>1, <3>3
  <2> QED BY <2>2, <2>3
<1>10. CASE HandleDir \/ HandleFile
  <2>1. /\ queue # <<>> /\ queue' = Tail(queue) /\ walk = {} /\ calling = NoCall /\ files' = files
        /\ Leading(f) /\ ~Walked(f)
    BY <1>10 DEF HandleDir, HandleFile, Receiving, Idle, tree, Walked
  <2>2. \A e : InQueue(e) => Head(queue) = e \/ InQueue(e)'
    BY <2>1, PopKeeps
  <2>3. CASE InQueue(Writing(f))
    <3>1. Head(queue) = Writing(f) => calling' = Writing(f)
      <4>1. CASE HandleFile
        BY <4>1 DEF HandleFile
      <4>2. CASE HandleDir
        <5>1. Head(queue).op = "create"
          BY <4>2 DEF HandleDir, IsNewDir
        <5>2. Writing(f).op = "write"
          BY DEF Writing
        <5> QED BY <5>1, <5>2
      <4> QED BY <1>10, <4>1, <4>2
    <3>2. InQueue(Writing(f))' => Leading(f)'
      BY DEF Leading, Writing
    <3> QED BY <2>1, <2>2, <2>3, <3>1, <3>2 DEF Writing
  <2>4. ASSUME NEW q \in Path, Anc(q, f), InQueue(Making(q))
        PROVE  Leading(f)' \/ (calling = NoCall /\ calling' = Making(f))
    <3>1. CASE InQueue(Making(q))'
      BY <2>4, <3>1 DEF Leading, Making
    <3>2. CASE Head(queue) = Making(q) /\ HandleDir
      <4>1. walk' = {<<"visit", q>>}
        BY <3>2 DEF HandleDir, Making
      <4> QED BY <2>4, <4>1 DEF Leading, Walked
    <3>3. CASE Head(queue) = Making(q) /\ HandleFile
      <4>1. q = f
        BY <2>1, <2>4, <3>3, AncExists DEF HandleFile, IsNewDir, Making
      <4> QED BY <2>1, <3>3, <4>1 DEF HandleFile
    <3> QED BY <1>10, <2>2, <2>4, <3>1, <3>2, <3>3
  <2> QED BY <2>1, <2>3, <2>4 DEF Leading
<1>11. CASE Started
  BY <1>11 DEF Started
<1>12. CASE Return \/ Stop \/ UNCHANGED wvars
  <2>1. UNCHANGED <<queue, files, walk>>
    BY <1>12 DEF Return, Stop, tree, loop, wvars
  <2> QED BY <1>5, <2>1 DEF Walked
<1>13. ~LoopEnds
  BY DEF LoopEnds, On
<1> QED BY <1>3, <1>4, <1>6, <1>7, <1>8, <1>9, <1>10, <1>11, <1>12, <1>13 DEF Next, Step

LEMMA LeadsStep ==
    ASSUME MapInv, On', [RegistryNext]_vars, phase # "boot", NEW f \in File, f \in files',
           f \notin files \/ Leads(f), ~(OnTouch /\ calling.path = f)
    PROVE  Leads(f)'
<1>1. TypeOK /\ TreeOK /\ Ways /\ [Next]_wvars /\ (step # "start" => calling # NoCall)
  BY OnStep, WatcherStep DEF MapInv, WaysInv, RegistryTyped, RegistryTypeOK
<1>2. CASE f \notin files \/ Leading(f)
  <2>1. CASE calling = NoCall /\ calling' \in {Making(f), Writing(f)}
    <3>1. step = "start" /\ calling' # NoCall
      BY <1>1, <2>1 DEF Making, Writing, NoCall
    <3>2. CASE Around
      BY <2>1, <3>1, <3>2, AroundKeeps DEF Leads, Telling, Making, Writing
    <3>3. ~Around => calling' = calling \/ Returned
      BY RegistrySteps DEF Beside, Replacing, Walking, Failing, AddFile, AddRefused, Ignored, RemoveFile,
                           RemoveNothing, OnTouch, OnDrop, Close, Reload, ReloadInstalls, Adopt,
                           ReloadLists, ReloadFails, vars, wvars
    <3> QED BY <2>1, <3>1, <3>2, <3>3 DEF Returned
  <2> QED BY <1>1, <1>2, <2>1, LeadingStep DEF Leads
<1>3. CASE Telling(f)
  <2>1. calling \in {Making(f), Writing(f)} /\ step \in {"start", "notify"} /\ calling # NoCall
    BY <1>3 DEF Telling, Making, Writing, NoCall
  <2>2. calling.op \in {"create", "write"} /\ calling.path = f
    BY <2>1 DEF Making, Writing
  <2>3. calling' = calling /\ step' \in {"start", "notify"}
    <3>1. CASE Around
      BY <1>1, <2>1, <3>1, AroundRuns, AroundKeeps, CallsBegin
    <3>2. CASE Replacing
      BY <2>2, <3>2 DEF Replacing, AddFile, AddRefused, Ignored, RemoveFile, RemoveNothing, Applying, wvars
    <3>3. ~Returned /\ ~OnTouch /\ ~OnDrop
      BY <2>1, <2>2 DEF Returned, OnDrop
    <3>4. CASE \/ Close \/ UNCHANGED vars
               \/ Reload \/ ReloadInstalls \/ Adopt \/ Walking \/ Failing
      BY <2>1, <3>4 DEF Close, Reload, ReloadInstalls, Adopt, Walking, ReloadLists, Failing,
                        ReloadFails, vars, rvars, wvars
    <3> QED BY <3>1, <3>2, <3>3, <3>4, RegistrySteps DEF Beside
  <2> QED BY <2>1, <2>3 DEF Leads, Telling, Making, Writing
<1> QED BY <1>2, <1>3 DEF Leads

(* What is out of date stays so until it is invalidated. *)
LEMMA StaysOutdated ==
    ASSUME FreshInv, [CachesNext]_cvars, On', phase # "boot", NEW f \in File, Outdated(f),
           ~(OnTouch /\ calling.path = f)
    PROVE  Outdated(f)'
BY RegistryStep, LeadsStep DEF FreshInv, Outdated

LEMMA ChangedOutdated ==
    ASSUME FreshInv, On', phase # "boot", [CachesNext]_cvars, NEW f \in File, Edit(f)
    PROVE  Outdated(f)'
<1>1. MapInv /\ TypeOK /\ [Next]_wvars
  BY RegistryStep, WatcherStep DEF FreshInv, MapInv, WaysInv
<1>2. CASE DeleteFile(f)
  BY <1>2 DEF DeleteFile, Outdated
<1>3. CASE CreateFile(f) \/ WriteFile(f)
  <2>1. Above[f] \in dirs /\ Ways /\ mishap' = {}
    BY <1>1, <1>3, OnStep DEF MapInv, WaysInv, TreeOK, FilesWithin, CreateFile, WriteFile, On
  <2>2. Leading(f)'
    BY <1>1, <1>3, <2>1, ChangeLeads DEF CreateFile, WriteFile, loop
  <2> QED BY <2>2 DEF Outdated, Leads
<1> QED BY <1>2, <1>3 DEF Edit

(* Every other step but onTouch's leaves a callback that is to tell, or begins or *)
(* ends one.                                                                       *)
LEMMA OnlyOnTouch ==
    (\/ Onward \/ OnDrop \/ UNCHANGED vars
     \/ \E f \in File : Edit(f)
     \/ \E d \in Dir : EditDir(d)) => ~OnTouch
BY DEF OnTouch, OnDrop, Onward, Update, AddFile, AddRefused, Ignored, RemoveFile, RemoveNothing, Applying,
       Returned, Reload, ReloadInstalls, ReloadLists, ReloadFails, Adopt, Close, CloseStops, Edit, EditDir,
       vars, rvars

LEMMA FreshStep == FreshInv /\ [CachesNext]_cvars => FreshInv'
<1> SUFFICES ASSUME FreshInv, [CachesNext]_cvars PROVE FreshInv'
  OBVIOUS
<1>1. MapInv' /\ CachesTyped' /\ CachesTypeOK /\ [RegistryNext]_vars /\ [Next]_wvars
  BY MapStep, CachesTypedStep, RegistryStep, WatcherStep DEF FreshInv, CachesTyped
<1>2. /\ cached \in [Selector -> File \cup {None}] /\ age \in [Selector -> Age]
      /\ at # "idle" => held \in File /\ chosen \in Selector
  BY <1>1 DEF CachesTypeOK, Artifact
<1>3. (at # "idle" \/ \E s \in Selector : cached[s] # None) => phase # "boot"
  BY DEF FreshInv, CachesTyped, Empty
<1>4. \A f : Inputs(f)' = Inputs(f)
  BY DEF Inputs
<1>5. ReadSoFar \subseteq File
  BY <1>2, InputsAreFiles DEF ReadSoFar
<1> SUFFICES ASSUME On'
             PROVE  /\ \A s \in Selector : Old(s)' => \E f \in Inputs(cached'[s]) : Outdated(f)'
                    /\ OldRender' => \E f \in ReadSoFar' : Outdated(f)'
  BY <1>1, <1>4 DEF FreshInv
<1>6. On
  BY <1>1, OnStep DEF FreshInv, MapInv, WaysInv
<1>7. ASSUME NEW s \in Selector, Old(s), cached'[s] = cached[s],
             OnTouch => calling.path \notin Inputs(cached[s])
      PROVE  \E f \in Inputs(cached'[s]) : Outdated(f)'
  <2>1. cached[s] \in File /\ phase # "boot" /\ Inputs(cached[s]) \in SUBSET File
    BY <1>2, <1>3, <1>7, InputsAreFiles DEF Old
  <2>2. PICK f \in Inputs(cached[s]) : Outdated(f)
    BY <1>6, <1>7 DEF FreshInv
  <2> QED BY <1>7, <2>1, <2>2, StaysOutdated
<1>8. ASSUME OldRender, ReadSoFar \subseteq ReadSoFar', OnTouch => calling.path \notin ReadSoFar
      PROVE  \E f \in ReadSoFar' : Outdated(f)'
  <2>1. PICK f \in ReadSoFar : Outdated(f)
    BY <1>6, <1>8 DEF FreshInv
  <2>2. phase # "boot" /\ f \in File
    BY <1>3, <1>5, <1>8 DEF OldRender
  <2> QED BY <1>8, <2>1, <2>2, StaysOutdated
<1> DEFINE CacheKept == \A s \in Selector : Old(s)' => \E f \in Inputs(cached'[s]) : Outdated(f)'
           RenderKept == OldRender' => \E f \in ReadSoFar' : Outdated(f)'
<1>9. ASSUME UNCHANGED <<cached, age, index>>, ~OnTouch PROVE CacheKept
  <2>1. \A s : Old(s)' => Old(s)
    BY <1>4, <1>9 DEF Old
  <2> QED BY <1>7, <1>9, <2>1
<1>10. ASSUME UNCHANGED <<at, held, unread, heldAge>>, ~OnTouch PROVE RenderKept
  <2>1. (OldRender' => OldRender) /\ ReadSoFar' = ReadSoFar
    BY <1>4, <1>10 DEF OldRender, ReadSoFar
  <2> QED BY <1>8, <1>10, <2>1
<1>11. ASSUME NEW f \in File, Edit(f), Spoil({f}) PROVE CacheKept /\ RenderKept
  <2>1. ~OnTouch
    BY <1>11, OnlyOnTouch
  <2>2. ASSUME NEW s \in Selector, Old(s)' PROVE \E g \in Inputs(cached'[s]) : Outdated(g)'
    <3>1. cached' = cached /\ index' = index /\ cached[s] # None
      BY <1>11, <2>2 DEF Spoil, Old
    <3>2. CASE age[s] = "stale"
      <4>1. Old(s)
        BY <1>4, <2>2, <3>1, <3>2 DEF Old
      <4> QED BY <1>7, <2>1, <3>1, <4>1
    <3>3. CASE age[s] # "stale"
      <4>1. f \in Inputs(cached[s])
        BY <1>11, <2>2, <3>1, <3>3 DEF Spoil, Old
      <4> QED BY <1>3, <1>11, <3>1, <4>1, ChangedOutdated
    <3> QED BY <3>2, <3>3
  <2>3. ASSUME OldRender' PROVE \E g \in ReadSoFar' : Outdated(g)'
    <3>1. UNCHANGED <<at, held, unread>> /\ ReadSoFar' = ReadSoFar /\ at # "idle"
      BY <1>4, <1>11, <2>3 DEF Spoil, OldRender, ReadSoFar
    <3>2. CASE heldAge = "stale"
      BY <1>8, <2>1, <3>1, <3>2 DEF OldRender
    <3>3. CASE heldAge # "stale"
      <4>1. f \in ReadSoFar
        BY <1>11, <2>3, <3>3 DEF Spoil, OldRender
      <4> QED BY <1>3, <1>11, <3>1, <4>1, ChangedOutdated
    <3> QED BY <3>2, <3>3
  <2> QED BY <2>2, <2>3
<1>12. ASSUME NEW d \in Dir \ {Root}, EditDir(d), Spoil(files \ files') PROVE CacheKept /\ RenderKept
  <2>1. ~OnTouch
    BY <1>12, OnlyOnTouch
  <2>2. ~MoveOut(d)
    BY DEF MoveOut, Missed, On
  <2>3. files' = files
    BY <1>12, <2>2 DEF EditDir, MakeDir, RemoveDir
  <2>4. UNCHANGED <<cached, age, index, at, held, unread, heldAge>>
    BY <1>2, <1>12, <2>3 DEF Spoil
  <2> QED BY <1>9, <1>10, <2>1, <2>4
<1>13. CASE OnTouch /\ InvalidateForSource(calling.path)
  <2>1. /\ UNCHANGED <<index, at, held, unread>>
        /\ \A s \in Selector : cached'[s] # None => /\ cached'[s] = cached[s] /\ age'[s] = age[s]
                                                   /\ <<s, calling.path>> \notin index
        /\ heldAge' = "stale" => heldAge = "stale" /\ calling.path \notin ReadSoFar
    BY <1>13 DEF InvalidateForSource, Drop, DependentsOf
  <2>2. ASSUME NEW s \in Selector, Old(s)' PROVE \E f \in Inputs(cached'[s]) : Outdated(f)'
    <3>1. Old(s) /\ cached'[s] = cached[s] /\ calling.path \notin Inputs(cached[s])
      BY <1>4, <2>1, <2>2 DEF Old
    <3> QED BY <1>7, <3>1
  <2>3. OldRender' => OldRender /\ ReadSoFar' = ReadSoFar /\ calling.path \notin ReadSoFar
    BY <1>4, <2>1 DEF OldRender, ReadSoFar
  <2> QED BY <1>8, <2>2, <2>3
<1>14. CASE OnDrop /\ InvalidateComponent(CalledName)
  <2>1. ~OnTouch
    BY <1>14, OnlyOnTouch
  <2>2. /\ UNCHANGED <<index, at, held, unread>>
        /\ \A s \in Selector : cached'[s] # None => cached'[s] = cached[s] /\ age'[s] = age[s]
        /\ heldAge' = "stale" => heldAge = "stale"
    BY <1>14 DEF InvalidateComponent, Drop
  <2>3. ASSUME NEW s \in Selector, Old(s)' PROVE \E f \in Inputs(cached'[s]) : Outdated(f)'
    <3>1. Old(s) /\ cached'[s] = cached[s]
      BY <1>4, <2>2, <2>3 DEF Old
    <3> QED BY <1>7, <2>1, <3>1
  <2>4. OldRender' => OldRender /\ ReadSoFar' = ReadSoFar
    BY <1>4, <2>2 DEF OldRender, ReadSoFar
  <2> QED BY <1>8, <2>1, <2>3, <2>4
<1>15. CASE Render /\ UNCHANGED vars
  <2>1. ~OnTouch
    BY <1>15, OnlyOnTouch
  <2>2. CASE \/ \E s \in Selector : Lookup(s)
             \/ MemHit \/ Fail \/ StoreFails
    <3>1. UNCHANGED <<cached, age, index>> /\ heldAge' = "fresh"
      BY <2>2 DEF Lookup, MemHit, Fail, StoreFails, Over, store
    <3> QED BY <1>9, <2>1, <3>1 DEF OldRender
  <2>3. CASE DiskHit
    <3>1. UNCHANGED <<cached, age, index, heldAge>> /\ at = "search"
      BY <2>3 DEF DiskHit, store
    <3>2. ReadSoFar = {}
      BY <1>1, <3>1 DEF CachesTypeOK, ReadSoFar
    <3>3. heldAge # "stale"
      BY <1>6, <3>1, <3>2 DEF FreshInv, OldRender
    <3> QED BY <1>9, <2>1, <3>1, <3>3 DEF OldRender
  <2>4. CASE Miss \/ \E f \in File : ReadSource(f)
    <3>1. UNCHANGED <<cached, age, index, heldAge, held>> /\ unread' \subseteq unread
          /\ at # "idle" /\ at' # "idle"
      BY <2>4 DEF Miss, ReadSource, store
    <3>2. (OldRender' => OldRender) /\ ReadSoFar \subseteq ReadSoFar'
      BY <1>4, <3>1 DEF OldRender, ReadSoFar
    <3> QED BY <1>8, <1>9, <2>1, <3>1, <3>2
  <2>5. CASE Record
    <3>1. /\ UNCHANGED <<cached, age, heldAge, held, unread>> /\ at = "build" /\ at' = "put"
          /\ index' = index \cup ({chosen} \X Inputs(held)) /\ cached[chosen] = None
      BY <1>1, <2>5 DEF Record, store, CachesTypeOK
    <3>2. ASSUME NEW s \in Selector, Old(s)' PROVE Old(s)
      <4>1. cached[s] # None /\ age[s] = "stale" /\ s # chosen
        BY <3>1, <3>2 DEF Old
      <4>2. \A f \in Inputs(cached[s]) : <<s, f>> \in index
        BY <1>4, <3>1, <3>2, <4>1 DEF Old
      <4> QED BY <4>1, <4>2 DEF Old
    <3>3. (OldRender' => OldRender) /\ ReadSoFar' = ReadSoFar
      BY <1>4, <3>1 DEF OldRender, ReadSoFar
    <3> QED BY <1>7, <1>8, <2>1, <3>1, <3>2, <3>3
  <2>6. CASE Put \/ Store
    <3>1. /\ at # "idle" /\ unread = {} /\ index' = index
          /\ cached' = [cached EXCEPT ![chosen] = held] /\ age' = [age EXCEPT ![chosen] = heldAge]
      BY <1>1, <2>6 DEF Put, Store, CachesTypeOK
    <3>2. ReadSoFar = Inputs(held)
      BY <3>1 DEF ReadSoFar
    <3>3. OldRender => \E f \in ReadSoFar : f \in File /\ Outdated(f)'
      BY <1>3, <1>5, <1>6, <2>1, StaysOutdated DEF FreshInv, OldRender
    <3>4. ASSUME NEW s \in Selector, Old(s)' PROVE \E f \in Inputs(cached'[s]) : Outdated(f)'
      <4>1. CASE s = chosen
        <5>1. cached'[s] = held /\ heldAge = "stale"
          BY <1>2, <3>1, <3>4, <4>1 DEF Old
        <5> QED BY <3>1, <3>2, <3>3, <5>1 DEF OldRender
      <4>2. CASE s # chosen
        <5>1. Old(s) /\ cached'[s] = cached[s]
          BY <1>2, <1>4, <3>1, <3>4, <4>2 DEF Old
        <5> QED BY <1>7, <2>1, <5>1
      <4> QED BY <4>1, <4>2
    <3>5. \/ heldAge' = "fresh"
          \/ UNCHANGED <<held, unread, heldAge>> /\ at' = "store"
      BY <2>6 DEF Put, Store, Over
    <3>6. OldRender' => OldRender /\ ReadSoFar \subseteq ReadSoFar'
      BY <1>4, <3>1, <3>5 DEF OldRender, ReadSoFar
    <3> QED BY <3>3, <3>4, <3>6
  <2> QED BY <1>15, <2>2, <2>3, <2>4, <2>5, <2>6 DEF Render
<1>16. CASE (Onward \/ UNCHANGED vars) /\ UNCHANGED caches
  BY <1>9, <1>10, <1>16, OnlyOnTouch DEF caches, store, render
<1> QED BY <1>11, <1>12, <1>13, <1>14, <1>15, <1>16, CachesSteps

(* With every event handled what is cached is what its sources hold, and was found *)
(* where its name still is, unless one of its sources is gone, it was put after the *)
(* invalidation it needed, or disk had it and nothing has indexed it.               *)
THEOREM CachedIsFresh == CachesSpec => []StaleOnlyIfGone
<1>1. CachesInit => FreshInv
  <2> SUFFICES ASSUME CachesInit PROVE FreshInv
    OBVIOUS
  <2>1. MapInv /\ CachesTyped /\ \A s \in Selector : cached[s] = None
    BY MapBegins, CachesStartTyped DEF CachesInit, Empty
  <2> QED BY <2>1 DEF FreshInv, CachesInit, Old, OldRender
<1>2. FreshInv => StaleOnlyIfGone
  <2> SUFFICES ASSUME FreshInv, Calm, NEW s \in Selector, cached[s] # None,
                      Inputs(cached[s]) \subseteq files, age[s] # "overtaken",
                      {s} \X Inputs(cached[s]) \subseteq index
               PROVE  age[s] = "fresh" /\ components[FileNameOf[s]] = cached[s]
    BY DEF StaleOnlyIfGone
  <2>1. /\ AtRest /\ On /\ upset \subseteq {"dropped"} /\ Unapplied = NoCall /\ CachesTypeOK /\ MapInv
        /\ calling = NoCall /\ walk = {} /\ queue = <<>>
    BY DEF Calm, Faultless, AtRest, Idle, On, Unapplied, FreshInv, CachesTyped
  <2>2. \A f : ~Leads(f)
    BY <2>1 DEF Leads, Telling, Leading, Walked, InQueue, NoCall, Making, Writing
  <2>3. age[s] # "stale" /\ age[s] \in Age
    BY <2>1, <2>2 DEF FreshInv, Old, Outdated, CachesTypeOK
  <2>4. cached[s] \in files /\ cached[s] \in NamedFile /\ NameOf[cached[s]] = FileNameOf[s]
    BY <2>1 DEF Inputs, CachesTypeOK, Artifact, NamedFile
  <2>5. cached[s] \in Held(components)
    BY <2>1, <2>4, WaysAtRest, NamedAreFiles DEF MapInv
  <2> QED BY <2>3, <2>4, <2>5 DEF Held, Age
<1> QED BY <1>1, <1>2, FreshStep, PTL DEF CachesSpec
=============================================================================
