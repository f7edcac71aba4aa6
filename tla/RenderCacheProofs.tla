-------------------------- MODULE RenderCacheProofs --------------------------
(* Theorems about RenderCache, for every value of its constants. *)
EXTENDS RenderCache, TLAPS

(* Every step keeps the variables in their types. *)
LEMMA TypeInvariant == Spec => []TypeOK
<1>1. Init => TypeOK
  BY DEF Init, TypeOK, Origin, Artifact, MemEntry, DiskEntry
<1>2. TypeOK /\ [Next]_vars => TypeOK'
  <2> SUFFICES ASSUME TypeOK, [Next]_vars PROVE TypeOK'
    OBVIOUS
  <2> USE PathAssumption, ImportsAssumption, NoFileAssumption, WatchedAssumption,
          NoneAssumption DEF TypeOK, MemEntry, DiskEntry, Artifact, Origin
  <2>1. ASSUME NEW f \in File, Change(f) PROVE TypeOK'
    BY <2>1 DEF Change, watcher, render
  <2>2. ASSUME NEW f \in File, Touch(f) PROVE TypeOK'
    BY <2>2 DEF Touch, Overtake, DependentsOf
  <2>3. ASSUME NEW r \in Renderer, RenderStep(r) PROVE TypeOK'
    <3> USE DEF GoTo, files, watcher
    <3>1. ASSUME NEW k \in Key, MemHit(r, k) PROVE TypeOK'
      BY <3>1 DEF MemHit
    <3>2. ASSUME NEW k \in Key, MemMiss(r, k) PROVE TypeOK'
      BY <3>2 DEF MemMiss
    <3>3. CASE DiskHit(r)
      BY <3>3 DEF DiskHit
    <3>4. CASE DiskMiss(r)
      BY <3>4 DEF DiskMiss
    <3>5. CASE Promote(r)
      BY <3>5 DEF Promote
    <3>6. CASE ReadEntry(r)
      <4>1. PathOf[ComponentOf(key[r])] \in File
        BY <3>6 DEF ReadEntry, Key, ComponentOf
      <4> QED BY <3>6, <4>1 DEF ReadEntry
    <3>7. ASSUME NEW f \in File, ReadSource(r, f) PROVE TypeOK'
      <4>1. content[f] \in Content
        BY <3>7 DEF ReadSource
      <4>2. Imports[f][content[f]] \subseteq File
        BY <4>1
      <4> QED BY <3>7, <4>1, <4>2 DEF ReadSource
    <3>8. CASE Fail(r)
      BY <3>8 DEF Fail
    <3>9. CASE Record(r)
      BY <3>9 DEF Record, FilesOf, Key, ComponentOf
    <3>10. CASE MemPut(r)
      BY <3>10 DEF MemPut
    <3>11. CASE DiskPut(r)
      <4>1. FilesOf(reads[r]) \subseteq File
        BY DEF FilesOf
      <4>2. Manifest(FilesOf(reads[r])) \subseteq File \X Content
        BY <4>1 DEF Manifest
      <4> QED BY <3>11, <4>2 DEF DiskPut
    <3>12. CASE DiskPutFails(r)
      BY <3>12 DEF DiskPutFails
    <3>13. CASE Respond(r)
      BY <3>13 DEF Respond
    <3> QED BY <2>3, <3>1, <3>2, <3>3, <3>4, <3>5, <3>6, <3>7, <3>8, <3>9,
               <3>10, <3>11, <3>12, <3>13 DEF RenderStep
  <2>4. ASSUME NEW d \in Fire, FireStep(d) PROVE TypeOK'
    <3> USE DEF files, render
    <3>1. CASE Drain(d)
      BY <3>1 DEF Drain
    <3>2. ASSUME NEW c \in Component, InvalidateDisk(d, c) PROVE TypeOK'
      BY <3>2 DEF InvalidateDisk, Overtake
    <3>3. CASE InvalidateMem(d)
      BY <3>3 DEF InvalidateMem
    <3>4. CASE Reload(d)
      BY <3>4 DEF Reload
    <3> QED BY <2>4, <3>1, <3>2, <3>3, <3>4 DEF FireStep
  <2>5. CASE Restart
    BY <2>5 DEF Restart
  <2>6. CASE UNCHANGED vars
    BY <2>6 DEF vars, files, watcher, render
  <2> QED BY <2>1, <2>2, <2>3, <2>4, <2>5, <2>6 DEF Next, RunStep
<1> QED BY <1>1, <1>2, PTL DEF Spec

-----------------------------------------------------------------------------
(* What a render holds once it has recorded its sources, or taken them from *)
(* an entry of this process, is in the index.                               *)
RendersIndexed ==
    \A r \in Renderer :
        pc[r] \in {"promote", "memput", "diskput"} /\ origin[r] # "warm"
            => FilesOf(reads[r]) \subseteq index[ComponentOf(key[r])]

(* Whatever is cached has its sources in the index.  The invariant is made   *)
(* inductive by saying the same of the renders on their way to a cache; it   *)
(* holds because Record precedes both puts and the index only grows.         *)
THEOREM IndexCoverage == Spec => []IndexCoversCaches
<1> DEFINE IInv == IndexCoversCaches /\ RendersIndexed
<1>1. Init => IInv
  BY NoneAssumption DEF Init, IndexCoversCaches, RendersIndexed
<1>2. TypeOK /\ IInv /\ [Next]_vars => IInv'
  <2> SUFFICES ASSUME TypeOK, IInv, [Next]_vars PROVE IInv'
    OBVIOUS
  <2> USE NoneAssumption DEF TypeOK, MemEntry, DiskEntry,
          IndexCoversCaches, RendersIndexed
  <2>1. ASSUME NEW f \in File, Change(f) PROVE IInv'
    BY <2>1 DEF Change, watcher, render
  <2>2. ASSUME NEW f \in File, Touch(f) PROVE IInv'
    BY <2>2 DEF Touch, Overtake
  <2>3. ASSUME NEW r \in Renderer, RenderStep(r) PROVE IInv'
    <3> USE DEF GoTo, files, watcher
    <3>1. ASSUME NEW k \in Key, MemHit(r, k) PROVE IInv'
      BY <3>1 DEF MemHit
    <3>2. ASSUME NEW k \in Key, MemMiss(r, k) PROVE IInv'
      BY <3>2 DEF MemMiss
    <3>3. CASE DiskHit(r)
      BY <3>3 DEF DiskHit
    <3>4. CASE DiskMiss(r)
      BY <3>4 DEF DiskMiss
    <3>5. CASE Promote(r)
      BY <3>5 DEF Promote
    <3>6. CASE ReadEntry(r)
      BY <3>6 DEF ReadEntry
    <3>7. ASSUME NEW f \in File, ReadSource(r, f) PROVE IInv'
      BY <3>7 DEF ReadSource
    <3>8. CASE Fail(r)
      BY <3>8 DEF Fail
    <3>9. CASE Record(r)
      <4>1. \A c \in Component : index[c] \subseteq index'[c]
        BY <3>9 DEF Record
      <4>2. FilesOf(reads'[r]) \subseteq index'[ComponentOf(key'[r])]
        BY <3>9 DEF Record, Key, ComponentOf
      <4>3. \A k \in Key : ComponentOf(k) \in Component
        BY DEF Key, ComponentOf
      <4> QED BY <3>9, <4>1, <4>2, <4>3 DEF Record
    <3>10. CASE MemPut(r)
      BY <3>10 DEF MemPut
    <3>11. CASE DiskPut(r)
      BY <3>11 DEF DiskPut
    <3>12. CASE DiskPutFails(r)
      BY <3>12 DEF DiskPutFails
    <3>13. CASE Respond(r)
      BY <3>13 DEF Respond
    <3> QED BY <2>3, <3>1, <3>2, <3>3, <3>4, <3>5, <3>6, <3>7, <3>8, <3>9,
               <3>10, <3>11, <3>12, <3>13 DEF RenderStep
  <2>4. ASSUME NEW d \in Fire, FireStep(d) PROVE IInv'
    <3> USE DEF files, render
    <3>1. CASE Drain(d)
      BY <3>1 DEF Drain
    <3>2. ASSUME NEW c \in Component, InvalidateDisk(d, c) PROVE IInv'
      BY <3>2 DEF InvalidateDisk, Overtake
    <3>3. CASE InvalidateMem(d)
      BY <3>3 DEF InvalidateMem
    <3>4. CASE Reload(d)
      BY <3>4 DEF Reload
    <3> QED BY <2>4, <3>1, <3>2, <3>3, <3>4 DEF FireStep
  <2>5. CASE Restart
    BY <2>5 DEF Restart
  <2>6. CASE UNCHANGED vars
    BY <2>6 DEF vars, files, watcher, render
  <2> QED BY <2>1, <2>2, <2>3, <2>4, <2>5, <2>6 DEF Next, RunStep
<1> QED BY <1>1, <1>2, TypeInvariant, PTL DEF Spec

-----------------------------------------------------------------------------
(* The stale entries of this process on disk are all going to be removed,   *)
(* whether or not their digests hold.                                       *)
DiskEntriesCovered ==
    \A k \in Key, f \in Watched :
        disk[k] # None /\ disk[k].origin = "live" /\ StaleOn(disk[k].art, f)
            => DiskCovered(ComponentOf(k), f)

(* A render that is about to fill a cache with something stale has not been *)
(* overtaken only if what will undo it is still to come.                    *)
RendersCovered ==
    \A r \in Renderer, f \in Watched :
        Holding(r) /\ origin[r] = "live" /\ StaleOn(reads[r], f)
            => DiskCovered(ComponentOf(key[r]), f)

(* A render that has read nothing holds nothing. *)
FreshRendersEmpty ==
    \A r \in Renderer : pc[r] \in {"idle", "disk", "entry"} => reads[r] = {}

Covered ==
    /\ NoLostInvalidation
    /\ DiskEntriesCovered
    /\ RendersCovered
    /\ FreshRendersEmpty

(* An edit of a watched file is announced with it, so what it makes stale   *)
(* is covered at once.                                                      *)
LEMMA ChangeKeepsCovered ==
    ASSUME TypeOK, Covered, NEW f \in File, Change(f)
    PROVE  Covered'
<1>1. \A a, g : StaleOn(a, g)' => StaleOn(a, g) \/ g = f
  BY DEF Change, StaleOn, TypeOK
<1>2. f \in Watched => f \in events'
  BY DEF Change
<1>3. \A c, g : DiskCovered(c, g) => DiskCovered(c, g)'
  BY DEF Change, DiskCovered, watcher
<1>4. \A c, g : MemCovered(c, g) => MemCovered(c, g)'
  BY <1>3 DEF Change, MemCovered, watcher
<1>5. \A c : f \in Watched => DiskCovered(c, f)' /\ MemCovered(c, f)'
  BY <1>2 DEF DiskCovered, MemCovered
<1> QED BY <1>1, <1>3, <1>4, <1>5
        DEF Change, Covered, NoLostInvalidation, DiskEntriesCovered,
            RendersCovered, FreshRendersEmpty, Holding, render

(* The look-up turns the event into pending components; it finds every      *)
(* cached one, since the index knows their sources, and a build it does not *)
(* find is one it overtakes.                                                *)
LEMMA TouchKeepsCovered ==
    ASSUME TypeOK, IndexCoversCaches, Covered, NEW f \in File, Touch(f)
    PROVE  Covered'
<1>1. \A a, g : StaleOn(a, g)' <=> StaleOn(a, g)
  BY DEF Touch, StaleOn
<1>2. \A c, g : DiskCovered(c, g) /\ ~DiskCovered(c, g)'
                  => g = f /\ c \notin DependentsOf(f)
  BY DEF Touch, DiskCovered
<1>3. \A c, g : MemCovered(c, g) /\ ~MemCovered(c, g)'
                  => g = f /\ c \notin DependentsOf(f)
  BY <1>2 DEF Touch, MemCovered
<1>4. \A k \in Key : ComponentOf(k) \in Component
  BY DEF Key, ComponentOf
<1>5. \A a : StaleOn(a, f) => f \in FilesOf(a)
  BY DEF StaleOn, FilesOf
<1>6. NoLostInvalidation' /\ DiskEntriesCovered'
  <2>1. \A k \in Key : mem[k] # None /\ mem[k].origin = "live" /\ StaleOn(mem[k].art, f)
                         => ComponentOf(k) \in DependentsOf(f)
    BY <1>4, <1>5 DEF IndexCoversCaches, DependentsOf
  <2>2. \A k \in Key : disk[k] # None /\ disk[k].origin = "live" /\ StaleOn(disk[k].art, f)
                         => ComponentOf(k) \in DependentsOf(f)
    BY <1>4, <1>5 DEF IndexCoversCaches, DependentsOf
  <2> QED BY <1>1, <1>2, <1>3, <2>1, <2>2
          DEF Touch, Covered, NoLostInvalidation, DiskEntriesCovered
<1>7. RendersCovered'
  BY <1>1, <1>2 DEF Touch, Covered, RendersCovered, Overtake, Holding, TypeOK
<1> QED BY <1>6, <1>7 DEF Touch, Covered, FreshRendersEmpty

(* Entries leave the disk before memory, and a build holding something      *)
(* stale at that moment is overtaken.                                       *)
LEMMA InvalidateDiskKeepsCovered ==
    ASSUME TypeOK, Covered, NEW d \in Fire, NEW c \in Component, InvalidateDisk(d, c)
    PROVE  Covered'
<1>1. \A a, g : StaleOn(a, g)' <=> StaleOn(a, g)
  BY DEF InvalidateDisk, StaleOn, files
<1>2. \A b, g : DiskCovered(b, g) /\ ~DiskCovered(b, g)' => b = c /\ g \notin events
  BY DEF InvalidateDisk, DiskCovered, files, TypeOK
<1>3. \A b, g : MemCovered(b, g) => MemCovered(b, g)'
  <2>1. \A g : MemCovered(c, g)'
    BY DEF InvalidateDisk, MemCovered, TypeOK
  <2>2. \A b : \A e \in Fire : stage[e] = "mem" /\ target[e] = b
                             => stage'[e] = "mem" /\ target'[e] = b
    BY DEF InvalidateDisk, TypeOK
  <2> QED BY <1>2, <2>1, <2>2 DEF MemCovered
<1>4. NoLostInvalidation'
  BY <1>1, <1>3 DEF InvalidateDisk, Covered, NoLostInvalidation
<1>5. DiskEntriesCovered'
  <2>1. \A k \in Key : ComponentOf(k) = c => k \in KeysOf(c)
    BY DEF Key, KeysOf, ComponentOf
  <2> QED BY <1>1, <1>2, <2>1 DEF InvalidateDisk, Covered, DiskEntriesCovered
<1>6. RendersCovered'
  BY <1>1, <1>2 DEF InvalidateDisk, Covered, RendersCovered, Overtake, Holding, TypeOK
<1> QED BY <1>4, <1>5, <1>6 DEF InvalidateDisk, Covered, FreshRendersEmpty

(* The other steps of a fire. *)
LEMMA FireKeepsCovered ==
    ASSUME TypeOK, Covered, NEW d \in Fire, Drain(d) \/ InvalidateMem(d) \/ Reload(d)
    PROVE  Covered'
<1>1. \A a, g : StaleOn(a, g)' <=> StaleOn(a, g)
  BY DEF Drain, InvalidateMem, Reload, StaleOn, files
<1>2. CASE Drain(d)
  <2>1. \A c, g : DiskCovered(c, g) => DiskCovered(c, g)'
    BY <1>2 DEF Drain, DiskCovered, Busy, files, TypeOK
  <2>2. \A c, g : MemCovered(c, g) => MemCovered(c, g)'
    BY <1>2, <2>1 DEF Drain, MemCovered
  <2> QED BY <1>1, <1>2, <2>1, <2>2
          DEF Drain, Covered, NoLostInvalidation, DiskEntriesCovered,
              RendersCovered, FreshRendersEmpty, Holding, render
<1>3. CASE InvalidateMem(d)
  <2>1. \A c, g : DiskCovered(c, g) => DiskCovered(c, g)'
    BY <1>3 DEF InvalidateMem, DiskCovered, files
  <2>2. \A c, g : MemCovered(c, g) /\ ~MemCovered(c, g)' => c = target[d]
    BY <1>3, <2>1 DEF InvalidateMem, MemCovered, TypeOK
  <2>3. \A k \in Key : ComponentOf(k) = target[d] => k \in KeysOf(target[d])
    BY DEF Key, KeysOf, ComponentOf
  <2> QED BY <1>1, <1>3, <2>1, <2>2, <2>3
          DEF InvalidateMem, Covered, NoLostInvalidation, DiskEntriesCovered,
              RendersCovered, FreshRendersEmpty, Holding, render
<1>4. CASE Reload(d)
  <2>1. \A c, g : DiskCovered(c, g) => DiskCovered(c, g)'
    BY <1>4 DEF Reload, DiskCovered, files
  <2>2. \A c, g : MemCovered(c, g) => MemCovered(c, g)'
    BY <1>4, <2>1 DEF Reload, MemCovered, TypeOK
  <2> QED BY <1>1, <1>4, <2>1, <2>2
          DEF Reload, Covered, NoLostInvalidation, DiskEntriesCovered,
              RendersCovered, FreshRendersEmpty, Holding, render
<1> QED BY <1>2, <1>3, <1>4

(* A render reads what is there now, takes over what is covered already, or *)
(* puts into a cache what it holds.                                         *)
LEMMA RenderKeepsCovered ==
    ASSUME TypeOK, Covered, NEW r \in Renderer, RenderStep(r)
    PROVE  Covered'
<1> USE NoneAssumption DEF GoTo, files, watcher, MemEntry, DiskEntry
<1> UNCHANGED <<content, events, pending, left, target, stage>>
  BY DEF RenderStep, MemHit, MemMiss, DiskHit, DiskMiss, Promote, ReadEntry,
         ReadSource, Fail, Record, MemPut, DiskPut, DiskPutFails, Respond
<1>1. \A a, g : StaleOn(a, g)' <=> StaleOn(a, g)
  BY DEF StaleOn
<1>2. \A c, g : DiskCovered(c, g)' <=> DiskCovered(c, g)
  BY DEF DiskCovered
<1>3. \A c, g : MemCovered(c, g)' <=> MemCovered(c, g)
  BY <1>2 DEF MemCovered
<1>4. \A c, g : DiskCovered(c, g) => MemCovered(c, g)
  BY DEF MemCovered
<1> USE <1>1, <1>2, <1>3, <1>4 DEF TypeOK, Covered, NoLostInvalidation,
        DiskEntriesCovered, RendersCovered, FreshRendersEmpty, Holding
<1>5. ASSUME NEW k \in Key, MemHit(r, k) PROVE Covered'
  BY <1>5 DEF MemHit
<1>6. ASSUME NEW k \in Key, MemMiss(r, k) PROVE Covered'
  BY <1>6 DEF MemMiss
<1>7. CASE DiskHit(r)
  BY <1>7 DEF DiskHit
<1>8. CASE DiskMiss(r)
  BY <1>8 DEF DiskMiss
<1>9. CASE Promote(r)
  BY <1>9 DEF Promote
<1>10. CASE ReadEntry(r)
  <2>1. \A g : ~StaleOn({}, g)
    BY DEF StaleOn
  <2> QED BY <1>10, <2>1 DEF ReadEntry
<1>11. ASSUME NEW f \in File, ReadSource(r, f) PROVE Covered'
  <2>1. \A g : StaleOn(reads'[r], g) => StaleOn(reads[r], g)
    BY <1>11 DEF ReadSource, StaleOn
  <2> QED BY <1>11, <2>1 DEF ReadSource
<1>12. CASE Fail(r)
  BY <1>12 DEF Fail
<1>13. CASE Record(r)
  BY <1>13 DEF Record
<1>14. CASE MemPut(r)
  BY <1>14 DEF MemPut
<1>15. CASE DiskPut(r)
  BY <1>15 DEF DiskPut
<1>16. CASE DiskPutFails(r)
  BY <1>16 DEF DiskPutFails
<1>17. CASE Respond(r)
  BY <1>17 DEF Respond
<1> QED BY <1>5, <1>6, <1>7, <1>8, <1>9, <1>10, <1>11, <1>12, <1>13, <1>14,
           <1>15, <1>16, <1>17 DEF RenderStep

(* The coverage invariant, from which both halves follow. *)
LEMMA CoverageInvariant == Spec => []Covered
<1>1. Init => Covered
  BY NoneAssumption DEF Init, Covered, NoLostInvalidation, DiskEntriesCovered,
        RendersCovered, FreshRendersEmpty, Holding
<1>2. TypeOK /\ IndexCoversCaches /\ Covered /\ [Next]_vars => Covered'
  <2> SUFFICES ASSUME TypeOK, IndexCoversCaches, Covered, [Next]_vars PROVE Covered'
    OBVIOUS
  <2>1. ASSUME NEW f \in File, Change(f) PROVE Covered'
    BY <2>1, ChangeKeepsCovered
  <2>2. ASSUME NEW f \in File, Touch(f) PROVE Covered'
    BY <2>2, TouchKeepsCovered
  <2>3. ASSUME NEW r \in Renderer, RenderStep(r) PROVE Covered'
    BY <2>3, RenderKeepsCovered
  <2>4. ASSUME NEW d \in Fire, FireStep(d) PROVE Covered'
    BY <2>4, FireKeepsCovered, InvalidateDiskKeepsCovered DEF FireStep
  <2>5. CASE Restart
    BY <2>5, NoneAssumption DEF Restart, Covered, NoLostInvalidation,
          DiskEntriesCovered, RendersCovered, FreshRendersEmpty, Holding
  <2>6. CASE UNCHANGED vars
    BY <2>6 DEF vars, files, watcher, render, Covered, NoLostInvalidation,
          DiskEntriesCovered, RendersCovered, FreshRendersEmpty, Holding,
          StaleOn, MemCovered, DiskCovered
  <2> QED BY <2>1, <2>2, <2>3, <2>4, <2>5, <2>6 DEF Next, RunStep
<1> QED BY <1>1, <1>2, TypeInvariant, IndexCoverage, PTL DEF Spec

(* No invalidation is lost on memory: an entry this process built and no    *)
(* invalidation overtook is stale only while its removal is under way.      *)
THEOREM MemoryNeverStale == Spec => []NoLostInvalidation
<1>1. Covered => NoLostInvalidation
  BY DEF Covered
<1> QED BY <1>1, CoverageInvariant, PTL

(* The same of the entries on disk, whatever their digests say. *)
THEOREM DiskNeverStale == Spec => []NoStaleDiskEntry
<1>1. Covered => NoStaleDiskEntry
  BY DEF Covered, DiskEntriesCovered, NoStaleDiskEntry
<1> QED BY <1>1, CoverageInvariant, PTL

=============================================================================
