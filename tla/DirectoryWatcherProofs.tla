----------------------- MODULE DirectoryWatcherProofs -----------------------
(* Theorems about DirectoryWatcher, for any tree and any size of the queue. *)
EXTENDS DirectoryWatcher, TLAPS

USE RootAssumption, AboveAssumption, DisjointAssumption, QueueAssumption

-----------------------------------------------------------------------------
(* Types. *)

(* A change of the tree queues an event when there is room, and none else. *)
LEMMA QueueGrows ==
    ASSUME TypeOK, NEW op \in {"create", "remove", "write"}, NEW p \in Path, Report(op, p)
    PROVE  queue' \in Seq(Event) /\ Len(queue') <= QueueSize
<1>1. [op |-> op, path |-> p] \in Event
  BY DEF Event
<1>2. CASE Fits(p)
  <2>1. queue' = Append(queue, [op |-> op, path |-> p])
    BY <1>2 DEF Report
  <2> QED BY <1>1, <1>2, <2>1 DEF TypeOK, Fits
<1>3. CASE ~Fits(p)
  BY <1>3 DEF Report, TypeOK
<1> QED BY <1>2, <1>3

LEMMA QueueShrinks ==
    ASSUME TypeOK, queue # <<>>
    PROVE  /\ Tail(queue) \in Seq(Event) /\ Len(Tail(queue)) <= QueueSize
           /\ Head(queue) \in Event
BY DEF TypeOK

LEMMA MishapGrows ==
    ASSUME TypeOK, NEW p, NEW losses \in SUBSET Mishap, Missed(p, losses)
    PROVE  mishap' \subseteq Mishap /\ mishap \subseteq mishap'
BY DEF Missed, Mishap, TypeOK

LEMMA TypeStep == TypeOK /\ [Next]_wvars => TypeOK'
<1> SUFFICES ASSUME TypeOK, [Next]_wvars PROVE TypeOK'
  OBVIOUS
<1>1. ASSUME NEW f \in File, CreateFile(f) \/ WriteFile(f) \/ DeleteFile(f) PROVE TypeOK'
  <2>1. f \in Path /\ {} \in SUBSET Mishap
    BY DEF Path
  <2>2. queue' \in Seq(Event) /\ Len(queue') <= QueueSize
    BY <1>1, <2>1, QueueGrows DEF CreateFile, WriteFile, DeleteFile
  <2>3. mishap' \subseteq Mishap
    BY <1>1, <2>1, MishapGrows DEF CreateFile, WriteFile, DeleteFile
  <2>4. /\ dirs' = dirs /\ files' \subseteq File
        /\ UNCHANGED <<watched, walk, calling, phase, known>>
    BY <1>1 DEF CreateFile, WriteFile, DeleteFile, tree, loop, TypeOK
  <2> QED BY <2>2, <2>3, <2>4 DEF TypeOK
<1>2. ASSUME NEW d \in Dir \ {Root}, MakeDir(d) \/ RemoveDir(d) \/ MoveOut(d) PROVE TypeOK'
  <2>1. d \in Path /\ {"moved"} \in SUBSET Mishap
        /\ {} \in SUBSET Mishap
    BY DEF Path, Mishap
  <2>2. queue' \in Seq(Event) /\ Len(queue') <= QueueSize
    BY <1>2, <2>1, QueueGrows DEF MakeDir, RemoveDir, MoveOut
  <2>3. mishap' \subseteq Mishap
    BY <1>2, <2>1, MishapGrows DEF MakeDir, RemoveDir, MoveOut
  <2>4. /\ dirs' \subseteq Dir /\ files' \subseteq File /\ watched' \subseteq Dir
        /\ UNCHANGED <<walk, calling, phase, known>>
    BY <1>2 DEF MakeDir, RemoveDir, MoveOut, tree, loop, TypeOK
  <2> QED BY <2>2, <2>3, <2>4 DEF TypeOK
<1>3. ASSUME NEW d \in Dir, Watch(d) \/ WatchFails(d) \/ List(d) \/ ListFails(d) PROVE TypeOK'
  <2>1. walk' \subseteq {"visit", "list"} \X Path
    BY <1>3 DEF Watch, WatchFails, List, ListFails, Abandon, TypeOK, Path, Inside, tree
  <2>2. mishap' \subseteq Mishap /\ phase' \in Phase
    BY <1>3 DEF Watch, WatchFails, List, ListFails, Abandon, Within, TypeOK, Mishap, Phase
  <2>3. watched' \subseteq Dir
    BY <1>3 DEF Watch, WatchFails, List, ListFails, Abandon, TypeOK
  <2>4. UNCHANGED <<dirs, files, queue, calling, known>>
    BY <1>3 DEF Watch, WatchFails, List, ListFails, Abandon, tree
  <2> QED BY <2>1, <2>2, <2>3, <2>4 DEF TypeOK
<1>4. ASSUME NEW f \in File, Announce(f) PROVE TypeOK'
  BY <1>4 DEF Announce, TypeOK, Path, Event, tree
<1>5. CASE Started
  BY <1>5 DEF Started, TypeOK, Phase, tree, loop
<1>6. CASE HandleDir
  <2>1. Head(queue).path \in Path
    BY <1>6, QueueShrinks DEF HandleDir, Receiving, Event
  <2> QED BY <1>6, <2>1, QueueShrinks DEF HandleDir, Receiving, TypeOK, tree
<1>7. CASE HandleFile
  BY <1>7, QueueShrinks DEF HandleFile, Receiving, TypeOK, tree
<1>8. CASE Return
  BY <1>8 DEF Return, TypeOK, Event, NoCall, Path, tree
<1>9. CASE Stop
  BY <1>9 DEF Stop, TypeOK, Phase, tree, loop
<1>10. CASE LoopEnds
  BY <1>10 DEF LoopEnds, TypeOK, Phase, tree, loop
<1>11. CASE UNCHANGED wvars
  BY <1>11 DEF wvars, TypeOK
<1> QED BY <1>1, <1>2, <1>3, <1>4, <1>5, <1>6, <1>7, <1>8, <1>9, <1>10, <1>11 DEF Next, Step

(* Every reachable state is well typed and the queue within its size. *)
THEOREM TypeInvariant == Spec => []TypeOK
<1>1. Init => TypeOK
  BY DEF Init, TypeOK, FilesWithin, Path, Phase, Mishap
<1> QED BY <1>1, TypeStep, PTL DEF Spec

-----------------------------------------------------------------------------
(* The end. *)

(* The loop leaves nothing undone when it ends. *)
Ended == phase = "stopped" => Idle

LEMMA EndedStep == Ended /\ [Next]_wvars => Ended'
<1> SUFFICES ASSUME Ended, [Next]_wvars PROVE Ended'
  OBVIOUS
<1> USE DEF Ended, Idle
<1>1. ASSUME NEW f \in File, CreateFile(f) \/ WriteFile(f) \/ DeleteFile(f) PROVE Ended'
  BY <1>1 DEF CreateFile, WriteFile, DeleteFile, loop
<1>2. ASSUME NEW d \in Dir \ {Root}, MakeDir(d) \/ RemoveDir(d) \/ MoveOut(d) PROVE Ended'
  BY <1>2 DEF MakeDir, RemoveDir, MoveOut, loop
<1>3. ASSUME NEW d \in Dir, Watch(d) \/ WatchFails(d) \/ List(d) \/ ListFails(d) PROVE Ended'
  BY <1>3 DEF Watch, WatchFails, List, ListFails, Abandon
<1>4. ASSUME NEW f \in File, Announce(f) PROVE Ended'
  BY <1>4 DEF Announce
<1>5. CASE Started \/ HandleDir \/ HandleFile
  BY <1>5 DEF Started, HandleDir, HandleFile, Receiving
<1>6. CASE Return
  BY <1>6 DEF Return
<1>7. CASE Stop \/ LoopEnds
  BY <1>7 DEF Stop, LoopEnds, loop
<1>8. CASE UNCHANGED wvars
  BY <1>8 DEF wvars
<1> QED BY <1>1, <1>2, <1>3, <1>4, <1>5, <1>6, <1>7, <1>8 DEF Next, Step

(* Once Stop has returned no callback runs: the loop waited for the last one, *)
(* and only the loop begins one.                                              *)
THEOREM StopQuiets == Spec => QuietOnceStopped
<1>1. Init => Ended
  BY DEF Init, Ended
<1>2. Ended /\ Ended' /\ [Next]_wvars => [phase = "stopped" => calling' = NoCall]_wvars
  <2> SUFFICES ASSUME Ended, [Next]_wvars, phase = "stopped" PROVE calling' = NoCall
    OBVIOUS
  <2>1. Idle
    BY DEF Ended
  <2>2. ~Step /\ ~Return /\ ~Stop /\ ~LoopEnds
    BY <2>1 DEF Step, Return, Stop, LoopEnds, Idle, Watch, WatchFails, List, ListFails, Announce,
                Started, HandleDir, HandleFile, Receiving
  <2> QED BY <2>1, <2>2 DEF Next, Idle, wvars, CreateFile, WriteFile, DeleteFile, MakeDir, RemoveDir, MoveOut, loop
<1> QED BY <1>1, <1>2, EndedStep, PTL DEF Spec, QuietOnceStopped

-----------------------------------------------------------------------------
(* The watches. *)

Making(d) == [op |-> "create", path |-> d]
InQueue(e) == \E i \in 1 .. Len(queue) : queue[i] = e

(* The walk is on its way to d, or an event will send it there, or it will     *)
(* come by when it has reached the directory above.                            *)
Coming(d) ==
    \/ <<"visit", d>> \in walk
    \/ InQueue(Making(d))
    \/ d # Root /\ (<<"list", Above[d]>> \in walk \/ Above[d] \notin watched)

Kept == mishap \cap {"overflow", "abandoned"} = {}

WatchInv ==
    /\ TypeOK
    /\ Closed(dirs)
    /\ phase # "stopped" /\ phase # "failed" /\ Kept =>
          watched \subseteq dirs /\ \A d \in dirs \ watched : Coming(d)

LEMMA QueueKeeps ==
    ASSUME TypeOK, NEW op \in {"create", "remove", "write"}, NEW p \in Path, Report(op, p),
           NEW e, InQueue(e)
    PROVE  InQueue(e)'
<1>1. PICK i \in 1 .. Len(queue) : queue[i] = e
  BY DEF InQueue
<1>2. CASE Fits(p)
  <2>1. queue' = Append(queue, [op |-> op, path |-> p])
    BY <1>2 DEF Report
  <2>2. queue \in Seq(Event) /\ [op |-> op, path |-> p] \in Event
    BY DEF TypeOK, Event
  <2>3. i \in 1 .. Len(queue') /\ queue'[i] = e
    BY <1>1, <2>1, <2>2
  <2> QED BY <2>3 DEF InQueue
<1>3. CASE ~Fits(p)
  BY <1>1, <1>3 DEF Report, InQueue
<1> QED BY <1>2, <1>3

LEMMA QueueGets ==
    ASSUME TypeOK, NEW op \in {"create", "remove", "write"}, NEW p \in Path, Report(op, p), Fits(p)
    PROVE  InQueue([op |-> op, path |-> p])'
<1>1. queue' = Append(queue, [op |-> op, path |-> p])
  BY DEF Report
<1>2. queue \in Seq(Event) /\ [op |-> op, path |-> p] \in Event
  BY DEF TypeOK, Event
<1>3. Len(queue') \in 1 .. Len(queue') /\ queue'[Len(queue')] = [op |-> op, path |-> p]
  BY <1>1, <1>2
<1> QED BY <1>3 DEF InQueue

LEMMA QueuePasses ==
    ASSUME TypeOK, queue # <<>>, queue' = Tail(queue), NEW e, InQueue(e), Head(queue) # e
    PROVE  InQueue(e)'
<1>1. PICK i \in 1 .. Len(queue) : queue[i] = e
  BY DEF InQueue
<1>2. i # 1 /\ queue \in Seq(Event)
  BY <1>1 DEF TypeOK
<1>3. i - 1 \in 1 .. Len(queue') /\ queue'[i - 1] = e
  BY <1>1, <1>2
<1> QED BY <1>3 DEF InQueue

(* What a step needs to show of directories that were coming and still are.   *)
LEMMA StillComing ==
    ASSUME NEW d \in Dir, Coming(d), walk \subseteq walk',
           d # Root => (Above[d] \notin watched => Above[d] \notin watched'),
           InQueue(Making(d)) => InQueue(Making(d))'
    PROVE  Coming(d)'
BY DEF Coming

LEMMA WatchStep == WatchInv /\ [Next]_wvars => WatchInv'
<1> SUFFICES ASSUME WatchInv, [Next]_wvars PROVE WatchInv'
  OBVIOUS
<1> DEFINE Safe == watched \subseteq dirs /\ \A d \in dirs \ watched : Coming(d)
           On == phase # "stopped" /\ phase # "failed" /\ Kept
<1>1. TypeOK /\ TypeOK' /\ Closed(dirs) /\ (On => Safe)
  BY TypeStep DEF WatchInv
<1> SUFFICES Closed(dirs') /\ (On' => Safe')
  BY <1>1 DEF WatchInv, Closed
<1>2. mishap \subseteq mishap' => (Kept' => Kept)
  BY DEF Kept
<1>3. ASSUME NEW f \in File, CreateFile(f) \/ WriteFile(f) \/ DeleteFile(f)
      PROVE  Closed(dirs') /\ (On' => Safe')
  <2>1. UNCHANGED <<dirs, watched, walk, phase>>
    BY <1>3 DEF CreateFile, WriteFile, DeleteFile, loop, tree
  <2>2. Missed(f, {})
    BY <1>3, Zenon DEF CreateFile, WriteFile, DeleteFile
  <2>3. mishap \subseteq mishap'
    BY <2>2 DEF Missed
  <2>4. \E op \in {"create", "remove", "write"} : Report(op, f)
    BY <1>3, Zenon DEF CreateFile, WriteFile, DeleteFile
  <2>5. ASSUME NEW d \in Dir, Coming(d) PROVE Coming(d)'
    BY <1>1, <2>1, <2>4, <2>5, StillComing, QueueKeeps DEF Path
  <2> QED BY <1>1, <1>2, <2>1, <2>3, <2>5 DEF TypeOK
<1>4. ASSUME NEW e \in Dir \ {Root}, MakeDir(e)
      PROVE  Closed(dirs') /\ (On' => Safe')
  <2>1. /\ dirs' = dirs \cup {e} /\ e \notin dirs /\ Above[e] \in dirs
        /\ UNCHANGED <<watched, walk, phase>>
        /\ mishap \subseteq mishap'
        /\ Report("create", e)
    BY <1>4 DEF MakeDir, loop, Missed
  <2>2. Closed(dirs')
    BY <1>1, <2>1 DEF Closed
  <2>3. ASSUME NEW d \in Dir, Coming(d) PROVE Coming(d)'
    BY <1>1, <2>1, <2>3, StillComing, QueueKeeps DEF Path
  <2>4. ASSUME On', Above[e] \in watched PROVE InQueue(Making(e))'
    <3>1. Fits(e)
      BY <1>4, <2>4 DEF MakeDir, Missed, Kept
    <3> QED BY <1>1, <2>1, <3>1, QueueGets DEF Path, Making
  <2>5. ASSUME On' PROVE Coming(e)'
    BY <2>1, <2>4, <2>5 DEF Coming
  <2> QED BY <1>1, <1>2, <2>1, <2>2, <2>3, <2>5 DEF TypeOK
<1>5. ASSUME NEW e \in Dir \ {Root}, RemoveDir(e) \/ MoveOut(e)
      PROVE  Closed(dirs') /\ (On' => Safe')
  <2>1. /\ dirs' = dirs \ {e} /\ watched' = watched \ {e}
        /\ Inside(e) \cap dirs = {}
        /\ UNCHANGED <<walk, phase>>
        /\ mishap \subseteq mishap'
        /\ Report("remove", e)
    BY <1>5 DEF RemoveDir, MoveOut, loop, Missed
  <2>2. Closed(dirs')
    BY <1>1, <2>1 DEF Closed, Inside, TypeOK
  <2>3. ASSUME NEW d \in Dir, Coming(d) PROVE Coming(d)'
    BY <1>1, <2>1, <2>3, StillComing, QueueKeeps DEF Path
  <2> QED BY <1>1, <1>2, <2>1, <2>2, <2>3 DEF TypeOK
<1>6. ASSUME NEW e \in Dir, Watch(e)
      PROVE  Closed(dirs') /\ (On' => Safe')
  <2>1. /\ watched' = watched \cup {e} /\ e \in dirs
        /\ walk' = (walk \ {<<"visit", e>>}) \cup {<<"list", e>>}
        /\ UNCHANGED <<dirs, queue, phase>>
        /\ Kept' => Kept
    BY <1>6 DEF Watch, Within, tree, Kept
  <2>2. ASSUME NEW d \in Dir, Coming(d), d # e PROVE Coming(d)'
    BY <2>1, <2>2 DEF Coming, InQueue
  <2> QED BY <1>1, <2>1, <2>2 DEF TypeOK, Kept
<1>7. ASSUME NEW e \in Dir, List(e)
      PROVE  Closed(dirs') /\ (On' => Safe')
  <2>1. /\ \A p \in Inside(e) \cap dirs : <<"visit", p>> \in walk'
        /\ walk \ {<<"list", e>>} \subseteq walk'
        /\ UNCHANGED <<dirs, watched, queue, phase>>
        /\ Kept' => Kept
    BY <1>7 DEF List, Within, tree, Kept
  <2>2. ASSUME NEW d \in dirs, Coming(d) PROVE Coming(d)'
    BY <1>1, <2>1, <2>2 DEF Coming, InQueue, Inside, TypeOK
  <2> QED BY <1>1, <2>1, <2>2 DEF TypeOK, Kept
<1>8. ASSUME NEW e \in Dir, WatchFails(e) \/ ListFails(e)
      PROVE  Closed(dirs') /\ (On' => Safe')
  <2>1. /\ e \notin dirs
        /\ walk' = {}
        /\ Kept' => walk \subseteq {<<"visit", e>>, <<"list", e>>} /\ Kept
        /\ On' => phase # "boot" /\ phase' = phase
        /\ UNCHANGED <<dirs, watched, queue>>
    BY <1>8 DEF WatchFails, ListFails, Abandon, Kept, tree
  <2>2. ASSUME On', NEW d \in dirs, Coming(d) PROVE Coming(d)'
    <3>1. d # e /\ (d # Root => Above[d] # e)
      BY <1>1, <2>1 DEF Closed
    <3> QED BY <2>1, <2>2, <3>1 DEF Coming, InQueue
  <2> QED BY <1>1, <2>1, <2>2 DEF TypeOK
<1>9. ASSUME NEW f \in File, Announce(f)
      PROVE  Closed(dirs') /\ (On' => Safe')
  <2>1. /\ walk' = walk \ {<<"visit", f>>}
        /\ UNCHANGED <<dirs, watched, queue, phase, mishap>>
    BY <1>9 DEF Announce, tree
  <2>2. ASSUME NEW d \in Dir, Coming(d) PROVE Coming(d)'
    BY <2>1, <2>2 DEF Coming, InQueue
  <2> QED BY <1>1, <2>1, <2>2 DEF TypeOK, Kept
<1>10. CASE HandleDir \/ HandleFile
  <2>1. /\ walk = {} /\ queue # <<>> /\ queue' = Tail(queue)
        /\ Head(queue).op = "create" /\ Head(queue).path \in dirs
              => walk' = {<<"visit", Head(queue).path>>}
        /\ UNCHANGED <<dirs, watched, phase, mishap>>
    BY <1>10 DEF HandleDir, HandleFile, Receiving, IsNewDir, Idle, tree
  <2>2. ASSUME NEW d \in dirs, Coming(d) PROVE Coming(d)'
    <3>1. CASE Head(queue) = Making(d)
      BY <2>1, <3>1 DEF Making, Coming
    <3>2. CASE Head(queue) # Making(d)
      BY <1>1, <2>1, <2>2, <3>2, QueuePasses DEF Coming
    <3> QED BY <3>1, <3>2
  <2> QED BY <1>1, <2>1, <2>2 DEF TypeOK, Kept
<1>11. CASE Started \/ Return \/ Stop
  <2>1. /\ UNCHANGED <<dirs, watched, walk, queue, mishap>>
        /\ On' => On
    BY <1>11 DEF Started, Return, Stop, loop, tree, Kept
  <2>2. ASSUME NEW d \in Dir, Coming(d) PROVE Coming(d)'
    BY <2>1, <2>2 DEF Coming, InQueue
  <2> QED BY <1>1, <2>1, <2>2 DEF TypeOK
<1>12. CASE LoopEnds
  BY <1>1, <1>12 DEF LoopEnds, tree
<1>13. CASE UNCHANGED wvars
  <2>1. UNCHANGED <<dirs, watched, walk, queue, mishap, phase>>
    BY <1>13 DEF wvars
  <2>2. ASSUME NEW d \in Dir, Coming(d) PROVE Coming(d)'
    BY <2>1, <2>2 DEF Coming, InQueue
  <2> QED BY <1>1, <2>1, <2>2 DEF TypeOK, Kept
<1> QED
  BY <1>3, <1>4, <1>5, <1>6, <1>7, <1>8, <1>9, <1>10, <1>11, <1>12, <1>13 DEF Next, Step

(* At rest nothing is coming, so the directory above an unwatched one is        *)
(* unwatched as well; but every set of directories has one that is below none   *)
(* of the others.                                                               *)
LEMMA RestIsWatched == WatchInv => SettledIsWatched
<1> SUFFICES ASSUME WatchInv, AtRest, Kept PROVE dirs = watched
  BY DEF SettledIsWatched, Kept
<1> DEFINE Lost == dirs \ watched
<1>1. walk = {} /\ queue = <<>> /\ phase = "up"
  BY DEF AtRest, Idle
<1>2. watched \subseteq dirs /\ dirs \subseteq Dir /\ Closed(dirs)
  BY <1>1 DEF WatchInv, TypeOK
<1>3. \A d \in Lost : d # Root /\ Above[d] \in Lost
  <2> SUFFICES ASSUME NEW d \in Lost PROVE d # Root /\ Above[d] \in Lost
    OBVIOUS
  <2>1. Coming(d)
    BY <1>1 DEF WatchInv
  <2>2. ~InQueue(Making(d))
    BY <1>1 DEF InQueue
  <2> QED BY <1>1, <1>2, <2>1, <2>2 DEF Coming, Closed
<1>4. Lost = {}
  BY <1>2, <1>3, TreeAssumption
<1> QED BY <1>2, <1>4

(* With every event handled every directory is watched, for any tree, however   *)
(* deep, and any changes of it, unless an event was lost or a walk given up.    *)
THEOREM EveryDirectoryWatched == Spec => []SettledIsWatched
<1>1. Init => WatchInv
  <2> SUFFICES ASSUME Init PROVE WatchInv
    OBVIOUS
  <2>1. TypeOK
    BY DEF Init, TypeOK, FilesWithin, Path, Phase, Mishap
  <2>2. watched = {} /\ walk = {<<"visit", Root>>} /\ Closed(dirs)
    BY DEF Init
  <2>3. \A d \in dirs : Coming(d)
    BY <2>2 DEF Coming
  <2> QED BY <2>1, <2>2, <2>3 DEF WatchInv
<1>2. WatchInv => SettledIsWatched
  BY RestIsWatched
<1> QED BY <1>1, <1>2, WatchStep, PTL DEF Spec

-----------------------------------------------------------------------------
(* The files. *)

(* q is p, or a directory p is below: it is in whatever p is in with all that  *)
(* is above.                                                                    *)
Anc(q, p) ==
    \A ps \in SUBSET Path :
        p \in ps /\ (\A x \in ps \ {Root} : Above[x] \in ps) => q \in ps

LEMMA AncSelf == \A p : Anc(p, p)
BY DEF Anc

LEMMA AncUp == \A p : \A q \in Path \ {Root} : Anc(q, p) => Anc(Above[q], p)
BY DEF Anc

LEMMA AncOver == \A q : \A p \in Path \ {Root} : Anc(q, Above[p]) => Anc(q, p)
BY DEF Anc

LEMMA AncDown ==
    ASSUME NEW p \in Path, NEW q \in Path, Anc(q, p), q # p
    PROVE  \E c \in Path \ {Root} : Above[c] = q /\ Anc(c, p)
<1> SUFFICES ASSUME \A c \in Path \ {Root} : Anc(c, p) => Above[c] # q PROVE FALSE
  OBVIOUS
<1> DEFINE ps == {x \in Path : Anc(x, p)} \ {q}
<1>1. p \in ps /\ ps \in SUBSET Path
  BY AncSelf
<1>2. \A x \in ps \ {Root} : Above[x] \in ps
  BY AncUp DEF Path
<1> QED BY <1>1, <1>2 DEF Anc

LEMMA AncRoot == \A p \in Path : Anc(Root, p)
<1> SUFFICES ASSUME NEW p \in Path, NEW ps \in SUBSET Path, p \in ps,
                    \A x \in ps \ {Root} : Above[x] \in ps, Root \notin ps
             PROVE  FALSE
  BY DEF Anc
<1> DEFINE ds == ps \cap Dir
<1>1. ds \in SUBSET (Dir \ {Root}) /\ Above[p] \in ds
  BY DEF Path
<1>2. \A d \in ds : Above[d] \in ds
  BY DEF Path
<1> QED BY <1>1, <1>2, TreeAssumption

(* What is above something that exists exists, and is a directory. *)
TreeOK == Closed(dirs) /\ files \subseteq FilesWithin(dirs)

LEMMA AncExists ==
    ASSUME TypeOK, TreeOK, NEW q
    PROVE  /\ \A d \in dirs : Anc(q, d) => q \in dirs
           /\ \A f \in files : Anc(q, f) => q = f \/ q \in dirs
           /\ \A f \in File : Anc(q, f) => q = f \/ q \in Dir
<1>1. dirs \in SUBSET Path /\ \A x \in dirs \ {Root} : Above[x] \in dirs
  BY DEF TypeOK, TreeOK, Closed, Path
<1>2. ASSUME NEW f \in files
      PROVE  {f} \cup dirs \in SUBSET Path /\ \A x \in ({f} \cup dirs) \ {Root} : Above[x] \in {f} \cup dirs
  BY <1>1 DEF TypeOK, TreeOK, FilesWithin, Path
<1>3. ASSUME NEW f \in File
      PROVE  {f} \cup Dir \in SUBSET Path /\ \A x \in ({f} \cup Dir) \ {Root} : Above[x] \in {f} \cup Dir
  BY DEF Path
<1> QED BY <1>1, <1>2, <1>3 DEF Anc

Removing(f) == [op |-> "remove", path |-> f]

(* The queue has the creation of q, and no removal of f behind it. *)
FinallyMade(q, f) ==
    \E i \in 1 .. Len(queue) :
        queue[i] = Making(q) /\ \A j \in i + 1 .. Len(queue) : queue[j] # Removing(f)

(* The events, or the walk, lead to p, and nothing in the queue undoes it for f. *)
Walked(p) == \E q \in Path : Anc(q, p) /\ (<<"visit", q>> \in walk \/ <<"list", q>> \in walk)
Told(p, f) == \E q \in Path : Anc(q, p) /\ FinallyMade(q, f)
Brings(p, f) == Told(p, f) \/ (Walked(p) /\ ~InQueue(Removing(f)))

(* For who holds the files in V and has the event c yet to act on: a file that   *)
(* is there will be among them when all is handled, ...                            *)
In(V, c, f) ==
    \/ f \in V /\ c # Removing(f) /\ ~InQueue(Removing(f))
    \/ c = Making(f) /\ ~InQueue(Removing(f))
    \/ Told(f, f)
    \/ phase # "boot" /\ Walked(f) /\ ~InQueue(Removing(f))

(* ... and one that is not will not. *)
Out(V, c, f) ==
    /\ f \in V \/ c = Making(f) => c = Removing(f) \/ InQueue(Removing(f))
    /\ <<"visit", f>> \in walk => InQueue(Removing(f))
    /\ ~FinallyMade(f, f)

Present(G, V, c) == \A f \in files \cap G : In(V, c, f)
Absent(G, V, c) ==
    \A f \in G : f \notin files \/ (Above[f] \notin watched /\ phase # "boot") => Out(V, c, f)

(* During the silent walk of the start: it is on its way to d, or d was made    *)
(* meanwhile and is empty.                                                       *)
BootWalk(d) ==
    \/ <<"visit", d>> \in walk
    \/ d # Root /\ (<<"list", Above[d]>> \in walk \/ Above[d] \notin watched)

On == phase # "stopped" /\ phase # "failed" /\ mishap = {}

(* The ways to what is not watched are open. *)
W1 == \A d \in dirs \ watched, f \in File : Anc(d, f) => Brings(d, f)
W2 == phase = "boot" =>
        /\ calling = NoCall /\ \A f \in File : <<"visit", f>> \notin walk
        /\ \A d \in dirs \ watched : BootWalk(d) \/ Inside(d) \cap (dirs \cup files) = {}
W3 == watched \subseteq dirs /\ \A d \in watched \ {Root} : Above[d] \in watched
Ways == W1 /\ W2 /\ W3

WaysInv == TypeOK /\ TreeOK /\ (On => Ways)

-----------------------------------------------------------------------------
(* What an event appended to the queue, or taken from it, changes of this. *)

LEMMA AppendKeeps ==
    ASSUME TypeOK, NEW op \in {"create", "remove", "write"}, NEW p \in Path, Report(op, p)
    PROVE  /\ \A e : InQueue(e) => InQueue(e)'
           /\ \A e : e # [op |-> op, path |-> p] /\ ~InQueue(e) => ~InQueue(e)'
           /\ \A q, f : [op |-> op, path |-> p] # Removing(f) /\ FinallyMade(q, f) => FinallyMade(q, f)'
           /\ \A q, f : [op |-> op, path |-> p] # Making(q) /\ ~FinallyMade(q, f) => ~FinallyMade(q, f)'
<1> DEFINE n == [op |-> op, path |-> p]
<1>1. CASE Fits(p)
  <2>1. queue' = Append(queue, n) /\ queue \in Seq(Event) /\ n \in Event
    BY <1>1 DEF Report, TypeOK, Event
  <2>2. /\ Len(queue) \in Nat /\ Len(queue') = Len(queue) + 1
        /\ \A i \in 1 .. Len(queue) : queue'[i] = queue[i]
        /\ queue'[Len(queue) + 1] = n
    BY <2>1
  <2> HIDE DEF n
  <2>3. \A e : InQueue(e) => InQueue(e)'
    BY <2>2 DEF InQueue
  <2>4. \A e : e # n /\ ~InQueue(e) => ~InQueue(e)'
    BY <2>2 DEF InQueue
  <2>5. ASSUME NEW q, NEW f, n # Removing(f), FinallyMade(q, f) PROVE FinallyMade(q, f)'
    BY <2>2, <2>5 DEF FinallyMade, Making, Removing
  <2>6. ASSUME NEW q, NEW f, n # Making(q), ~FinallyMade(q, f) PROVE ~FinallyMade(q, f)'
    BY <2>2, <2>6 DEF FinallyMade, Making, Removing
  <2> QED BY <2>3, <2>4, <2>5, <2>6 DEF n
<1>2. CASE ~Fits(p)
  <2>1. queue' = queue
    BY <1>2 DEF Report
  <2> QED BY <2>1 DEF InQueue, FinallyMade
<1> QED BY <1>1, <1>2

LEMMA AppendGets ==
    ASSUME TypeOK, NEW op \in {"create", "remove", "write"}, NEW p \in Path, Report(op, p), Fits(p)
    PROVE  /\ InQueue([op |-> op, path |-> p])'
           /\ op = "create" => \A f : FinallyMade(p, f)'
           /\ op = "remove" => \A q : ~FinallyMade(q, p)'
<1>1. queue' = Append(queue, [op |-> op, path |-> p]) /\ queue \in Seq(Event) /\ [op |-> op, path |-> p] \in Event
  BY DEF Report, TypeOK, Event
<1>2. /\ Len(queue) \in Nat /\ Len(queue') = Len(queue) + 1
      /\ queue'[Len(queue) + 1] = [op |-> op, path |-> p]
  BY <1>1
<1> QED BY <1>2 DEF InQueue, FinallyMade, Making, Removing

LEMMA PopKeeps ==
    ASSUME TypeOK, queue # <<>>, queue' = Tail(queue)
    PROVE  /\ \A e : InQueue(e) => Head(queue) = e \/ InQueue(e)'
           /\ \A e : ~InQueue(e) => Head(queue) # e /\ ~InQueue(e)'
           /\ \A q, f : FinallyMade(q, f) =>
                 FinallyMade(q, f)' \/ (Head(queue) = Making(q) /\ ~InQueue(Removing(f))')
           /\ \A q, f : ~FinallyMade(q, f) =>
                 ~FinallyMade(q, f)' /\ (Head(queue) = Making(q) => InQueue(Removing(f))')
<1>1. /\ Len(queue) \in Nat \ {0} /\ Len(queue') = Len(queue) - 1
      /\ \A i \in 1 .. Len(queue) - 1 : queue'[i] = queue[i + 1]
      /\ Head(queue) = queue[1]
  BY DEF TypeOK
<1>2. \A e : InQueue(e) => Head(queue) = e \/ InQueue(e)'
  BY <1>1, QueuePasses
<1>3. \A e : ~InQueue(e) => Head(queue) # e /\ ~InQueue(e)'
  BY <1>1 DEF InQueue
<1>4. ASSUME NEW q, NEW f, FinallyMade(q, f)
      PROVE  FinallyMade(q, f)' \/ (Head(queue) = Making(q) /\ ~InQueue(Removing(f))')
  <2>1. PICK i \in 1 .. Len(queue) :
           queue[i] = Making(q) /\ \A j \in i + 1 .. Len(queue) : queue[j] # Removing(f)
    BY <1>4 DEF FinallyMade
  <2>2. CASE i = 1
    BY <1>1, <2>1, <2>2 DEF InQueue, Removing, Making
  <2>3. CASE i # 1
    <3>1. i - 1 \in 1 .. Len(queue') /\ queue'[i - 1] = Making(q)'
      BY <1>1, <2>1, <2>3 DEF Making
    <3>2. \A j \in (i - 1) + 1 .. Len(queue') : queue'[j] # Removing(f)'
      BY <1>1, <2>1, <2>3 DEF Removing
    <3> QED BY <3>1, <3>2 DEF FinallyMade
  <2> QED BY <2>2, <2>3
<1>5. ASSUME NEW q, NEW f, ~FinallyMade(q, f)
      PROVE  ~FinallyMade(q, f)' /\ (Head(queue) = Making(q) => InQueue(Removing(f))')
  <2>1. \A i \in 1 .. Len(queue) : queue[i] = Making(q) =>
           \E j \in i + 1 .. Len(queue) : queue[j] = Removing(f)
    BY <1>5 DEF FinallyMade
  <2>2. ASSUME NEW i \in 1 .. Len(queue'), queue'[i] = Making(q)
        PROVE  \E j \in i + 1 .. Len(queue') : queue'[j] = Removing(f)
    <3>1. i + 1 \in 1 .. Len(queue) /\ queue[i + 1] = Making(q)
      BY <1>1, <2>2
    <3>2. PICK j \in (i + 1) + 1 .. Len(queue) : queue[j] = Removing(f)
      BY <2>1, <3>1
    <3>3. j - 1 \in i + 1 .. Len(queue') /\ queue'[j - 1] = Removing(f)
      BY <1>1, <3>2
    <3> QED BY <3>3
  <2>3. ASSUME Head(queue) = Making(q) PROVE InQueue(Removing(f))'
    <3>1. PICK j \in 1 + 1 .. Len(queue) : queue[j] = Removing(f)
      BY <1>1, <2>1, <2>3
    <3>2. j - 1 \in 1 .. Len(queue') /\ queue'[j - 1] = Removing(f)
      BY <1>1, <3>1
    <3> QED BY <3>2 DEF InQueue, Removing
  <2> QED BY <2>2, <2>3 DEF FinallyMade, Making, Removing
<1> QED BY <1>2, <1>3, <1>4, <1>5

-----------------------------------------------------------------------------
(* Every step keeps the invariant: first what all changes of the tree share. *)

LEMMA TreeStep == TypeOK /\ TreeOK /\ [Next]_wvars => TreeOK'
<1> SUFFICES ASSUME TypeOK, TreeOK, [Next]_wvars PROVE TreeOK'
  OBVIOUS
<1> USE DEF TreeOK, Closed, FilesWithin
<1>1. ASSUME NEW f \in File, CreateFile(f) \/ WriteFile(f) \/ DeleteFile(f) PROVE TreeOK'
  BY <1>1 DEF CreateFile, WriteFile, DeleteFile, tree
<1>2. ASSUME NEW d \in Dir \ {Root}, MakeDir(d) \/ RemoveDir(d) \/ MoveOut(d) PROVE TreeOK'
  BY <1>2 DEF MakeDir, RemoveDir, MoveOut, Inside, TypeOK
<1>3. CASE Step \/ Return \/ Stop \/ LoopEnds \/ UNCHANGED wvars
  <2>1. UNCHANGED tree
    BY <1>3 DEF Step, Watch, WatchFails, List, ListFails, Abandon, Announce, Started, HandleDir,
                HandleFile, Return, Stop, LoopEnds, wvars, tree
  <2> QED BY <2>1 DEF tree
<1> QED BY <1>1, <1>2, <1>3 DEF Next

LEMMA OnStep == TypeOK /\ [Next]_wvars /\ On' => On
<1> SUFFICES ASSUME TypeOK, [Next]_wvars, On' PROVE On
  OBVIOUS
<1> USE DEF On
<1>1. ASSUME NEW f \in File, CreateFile(f) \/ WriteFile(f) \/ DeleteFile(f) PROVE On
  BY <1>1 DEF CreateFile, WriteFile, DeleteFile, Missed
<1>2. ASSUME NEW d \in Dir \ {Root}, MakeDir(d) \/ RemoveDir(d) \/ MoveOut(d) PROVE On
  BY <1>2 DEF MakeDir, RemoveDir, MoveOut, Missed
<1>3. ASSUME NEW d \in Dir, Watch(d) \/ WatchFails(d) \/ List(d) \/ ListFails(d) PROVE On
  BY <1>3 DEF Watch, WatchFails, List, ListFails, Abandon, Within
<1>4. ASSUME NEW f \in File, Announce(f) PROVE On
  BY <1>4 DEF Announce
<1>5. CASE Started \/ HandleDir \/ HandleFile \/ Return \/ Stop \/ LoopEnds \/ UNCHANGED wvars
  BY <1>5 DEF Started, HandleDir, HandleFile, Return, Stop, LoopEnds, wvars
<1> QED BY <1>1, <1>2, <1>3, <1>4, <1>5 DEF Next, Step

LEMMA BringsBelow == \A p \in Path \ {Root} : \A f : Brings(Above[p], f) => Brings(p, f)
BY AncOver DEF Brings, Told, Walked

(* Only the removal of f undoes what leads to f, only its creation what has      *)
(* it gone.                                                                        *)
LEMMA ReportKeeps ==
    ASSUME TypeOK, NEW op \in {"create", "remove", "write"}, NEW x \in Path, Report(op, x),
           UNCHANGED <<walk, phase>>
    PROVE  /\ \A p, f : [op |-> op, path |-> x] # Removing(f) \/ ~Fits(x) =>
                 (Brings(p, f) => Brings(p, f)')
           /\ \A V, c, f : [op |-> op, path |-> x] # Removing(f) /\ In(V, c, f) => In(V, c, f)'
           /\ \A V, c, f : [op |-> op, path |-> x] # Making(f) \/ ~Fits(x) =>
                 (Out(V, c, f) => Out(V, c, f)')
<1> DEFINE n == [op |-> op, path |-> x]
<1>1. \A f : Removing(f)' = Removing(f) /\ Making(f)' = Making(f)
  BY DEF Removing, Making
<1>2. \A p : Walked(p) => Walked(p)'
  BY DEF Walked
<1>3. ASSUME NEW p, NEW f, n # Removing(f), Told(p, f) PROVE Told(p, f)'
  BY <1>3, AppendKeeps DEF Told
<1>4. ASSUME NEW f, n # Removing(f), ~InQueue(Removing(f)) PROVE ~InQueue(Removing(f))'
  BY <1>4, <1>1, AppendKeeps
<1>5. ASSUME NEW f, InQueue(Removing(f)) PROVE InQueue(Removing(f))'
  BY <1>5, <1>1, AppendKeeps
<1>6. ASSUME NEW f, n # Making(f), ~FinallyMade(f, f) PROVE ~FinallyMade(f, f)'
  BY <1>6, AppendKeeps
<1>7. \A p, f : n # Removing(f) /\ Brings(p, f) => Brings(p, f)'
  BY <1>2, <1>3, <1>4 DEF Brings
<1>8. \A V, c, f : n # Removing(f) /\ In(V, c, f) => In(V, c, f)'
  BY <1>1, <1>2, <1>3, <1>4 DEF In
<1>9. \A V, c, f : n # Making(f) /\ Out(V, c, f) => Out(V, c, f)'
  BY <1>1, <1>5, <1>6 DEF Out
<1>10. ASSUME ~Fits(x)
       PROVE  (\A p, f : Brings(p, f) => Brings(p, f)') /\ (\A V, c, f : Out(V, c, f) => Out(V, c, f)')
  <2>1. queue' = queue
    BY <1>10 DEF Report
  <2> QED BY <2>1 DEF Brings, Told, Walked, Out, InQueue, FinallyMade, Removing, Making
<1> QED BY <1>7, <1>8, <1>9, <1>10

(* While nothing goes unreported, a change is queued, or is one in a directory   *)
(* without a watch after the start.                                               *)
LEMMA Reported ==
    ASSUME NEW p \in Path, NEW losses, Missed(p, losses), mishap' = {}
    PROVE  (Above[p] \in watched => Fits(p)) /\ (Above[p] \notin watched => phase # "boot")
BY DEF Missed

LEMMA FileWays ==
    ASSUME TypeOK, TreeOK, Ways, mishap' = {},
           NEW g \in File, CreateFile(g) \/ WriteFile(g) \/ DeleteFile(g)
    PROVE  /\ Ways'
           /\ \A V, c : \A G \in SUBSET File : Present(G, V, c) => Present(G, V, c)'
           /\ \A V, c : \A G \in SUBSET File : Absent(G, V, c) => Absent(G, V, c)'
<1>1. g \in Path /\ UNCHANGED <<dirs, watched, walk, calling, phase>>
  BY DEF CreateFile, WriteFile, DeleteFile, tree, loop, Path
<1>2. (Above[g] \in watched => Fits(g)) /\ (Above[g] \notin watched => phase # "boot")
  BY <1>1, Reported DEF CreateFile, WriteFile, DeleteFile
<1>3. \A f : Removing(f)' = Removing(f) /\ Making(f)' = Making(f)
  BY DEF Removing, Making
<1>4. ASSUME NEW d \in dirs \ watched, Anc(d, g) PROVE ~Fits(g)
  <2> SUFFICES ASSUME Above[g] \in watched PROVE FALSE
    BY DEF Fits
  <2>1. {g} \cup watched \in SUBSET Path
    BY <1>1 DEF TypeOK, Path
  <2>2. \A x \in ({g} \cup watched) \ {Root} : Above[x] \in {g} \cup watched
    BY DEF Ways, W3
  <2>3. d \in {g} \cup watched
    BY <1>4, <2>1, <2>2 DEF Anc
  <2> QED BY <2>3 DEF TypeOK
<1>5. W3'
  BY <1>1 DEF Ways, W3
<1>6. CASE CreateFile(g)
  <2>1. Report("create", g) /\ files' = files \cup {g} /\ g \notin files /\ Above[g] \in dirs
    BY <1>6 DEF CreateFile
  <2>2. \A f : Making(g) # Removing(f) /\ (f # g => Making(g) # Making(f))
    BY DEF Making, Removing
  <2>3. /\ \A p, f : Brings(p, f) => Brings(p, f)'
        /\ \A V, c, f : In(V, c, f) => In(V, c, f)'
        /\ \A V, c, f : f # g \/ ~Fits(g) => (Out(V, c, f) => Out(V, c, f)')
    BY <1>1, <2>1, <2>2, ReportKeeps DEF Making
  <2>4. \A V, c : In(V, c, g)'
    <3>1. CASE Above[g] \in watched
      <4>1. Told(g, g)'
        BY <1>1, <1>2, <2>1, <3>1, AppendGets, AncSelf DEF Told
      <4> QED BY <4>1 DEF In
    <3>2. CASE Above[g] \notin watched
      <4>1. Anc(Above[g], g)
        BY <1>1, AncSelf, AncUp
      <4>2. Brings(Above[g], g)
        BY <2>1, <3>2, <4>1 DEF Ways, W1
      <4>3. Brings(g, g) /\ phase # "boot"
        BY <1>1, <1>2, <3>2, <4>2, BringsBelow
      <4> QED BY <2>3, <4>3 DEF Brings, In
    <3> QED BY <3>1, <3>2
  <2>5. \A V, c : \A G \in SUBSET File : Present(G, V, c) => Present(G, V, c)'
    BY <2>1, <2>3, <2>4 DEF Present
  <2>6. \A V, c : \A G \in SUBSET File : Absent(G, V, c) => Absent(G, V, c)'
    BY <1>1, <1>2, <2>1, <2>3 DEF Absent, Fits
  <2>7. W1'
    BY <1>1, <2>3 DEF Ways, W1
  <2>8. W2'
    BY <1>1, <1>2, <2>1 DEF Ways, W2, BootWalk, Inside
  <2> QED BY <1>5, <2>5, <2>6, <2>7, <2>8 DEF Ways
<1>7. CASE WriteFile(g)
  <2>1. Report("write", g) /\ UNCHANGED files
    BY <1>7 DEF WriteFile, tree
  <2>2. /\ \A p, f : Brings(p, f) => Brings(p, f)'
        /\ \A V, c, f : In(V, c, f) => In(V, c, f)'
        /\ \A V, c, f : Out(V, c, f) => Out(V, c, f)'
    BY <1>1, <2>1, ReportKeeps DEF Making, Removing
  <2> QED BY <1>1, <1>5, <2>1, <2>2 DEF Ways, W1, W2, BootWalk, Present, Absent
<1>8. CASE DeleteFile(g)
  <2>1. Report("remove", g) /\ files' = files \ {g} /\ g \in files
    BY <1>8 DEF DeleteFile
  <2>2. \A f : Removing(g) # Making(f) /\ (f # g => Removing(g) # Removing(f))
    BY DEF Making, Removing
  <2>3. /\ \A p, f : f # g \/ ~Fits(g) => (Brings(p, f) => Brings(p, f)')
        /\ \A V, c, f : f # g /\ In(V, c, f) => In(V, c, f)'
        /\ \A V, c, f : Out(V, c, f) => Out(V, c, f)'
    BY <1>1, <2>1, <2>2, ReportKeeps DEF Removing
  <2>4. Above[g] \in watched => \A V, c : Out(V, c, g)'
    <3> SUFFICES ASSUME Above[g] \in watched PROVE \A V, c : Out(V, c, g)'
      OBVIOUS
    <3>1. InQueue(Removing(g))' /\ ~FinallyMade(g, g)'
      BY <1>1, <1>2, <1>3, <2>1, AppendGets DEF Removing
    <3> QED BY <3>1, <1>3 DEF Out
  <2>5. \A V, c : \A G \in SUBSET File : Present(G, V, c) => Present(G, V, c)'
    BY <2>1, <2>3 DEF Present
  <2>6. \A V, c : \A G \in SUBSET File : Absent(G, V, c) => Absent(G, V, c)'
    BY <1>1, <1>2, <2>1, <2>3, <2>4 DEF Absent
  <2>7. W1'
    BY <1>1, <1>4, <2>3 DEF Ways, W1
  <2>8. W2'
    BY <1>1, <2>1 DEF Ways, W2, BootWalk, Inside
  <2> QED BY <1>5, <2>5, <2>6, <2>7, <2>8 DEF Ways
<1> QED BY <1>6, <1>7, <1>8

LEMMA DirWays ==
    ASSUME TypeOK, TreeOK, Ways, mishap' = {},
           NEW e \in Dir \ {Root}, MakeDir(e) \/ RemoveDir(e) \/ MoveOut(e)
    PROVE  /\ Ways' /\ UNCHANGED files
           /\ \A V, c : \A G \in SUBSET File : Present(G, V, c) => Present(G, V, c)'
           /\ \A V, c : \A G \in SUBSET File : Absent(G, V, c) => Absent(G, V, c)'
<1>1. e \in Path /\ e \notin File /\ UNCHANGED <<walk, calling, phase>>
  BY DEF MakeDir, RemoveDir, MoveOut, tree, loop, Path
<1>2. ~MoveOut(e)
  BY DEF MoveOut, Missed
<1>3. CASE MakeDir(e)
  <2>1. Report("create", e) /\ dirs' = dirs \cup {e} /\ e \notin dirs /\ Above[e] \in dirs
        /\ UNCHANGED <<files, watched>>
    BY <1>3 DEF MakeDir
  <2>2. (Above[e] \in watched => Fits(e)) /\ (Above[e] \notin watched => phase # "boot")
    BY <1>1, <1>3, Reported DEF MakeDir
  <2>3. \A f : Making(e) # Removing(f) /\ (f \in File => Making(e) # Making(f))
    BY <1>1 DEF Making, Removing
  <2>4. /\ \A p, f : Brings(p, f) => Brings(p, f)'
        /\ \A V, c, f : In(V, c, f) => In(V, c, f)'
        /\ \A V, c : \A f \in File : Out(V, c, f) => Out(V, c, f)'
    BY <1>1, <2>1, <2>3, ReportKeeps DEF Making
  <2>5. ASSUME NEW f \in File, Anc(e, f) PROVE Brings(e, f)'
    <3>1. CASE Above[e] \in watched
      <4>1. Told(e, f)'
        BY <1>1, <2>1, <2>2, <3>1, AppendGets, AncSelf DEF Told
      <4> QED BY <4>1 DEF Brings
    <3>2. CASE Above[e] \notin watched
      <4>1. Anc(Above[e], f)
        BY <1>1, <2>5, AncUp
      <4>2. Brings(Above[e], f)
        BY <2>1, <3>2, <4>1 DEF Ways, W1
      <4> QED BY <1>1, <2>4, <4>2, BringsBelow
    <3> QED BY <3>1, <3>2
  <2>6. \A V, c : \A G \in SUBSET File : Present(G, V, c) => Present(G, V, c)'
    BY <2>1, <2>4 DEF Present
  <2>7. \A V, c : \A G \in SUBSET File : Absent(G, V, c) => Absent(G, V, c)'
    BY <1>1, <2>1, <2>4 DEF Absent
  <2>8. W1'
    BY <2>1, <2>4, <2>5 DEF Ways, W1
  <2>9. ASSUME phase = "boot" PROVE W2'
    <3>1. Inside(e) \cap (dirs' \cup files) = {}
      BY <2>1 DEF Inside, TreeOK, Closed, FilesWithin
    <3>2. \A d \in dirs \ watched : Inside(d) \cap (dirs' \cup files) = Inside(d) \cap (dirs \cup files)
      BY <2>1, <2>2, <2>9 DEF Inside
    <3> QED BY <1>1, <2>1, <3>1, <3>2, <2>9 DEF Ways, W2, BootWalk, Inside
  <2>10. W2' /\ W3'
    BY <1>1, <2>1, <2>9 DEF Ways, W2, W3
  <2> QED BY <2>1, <2>6, <2>7, <2>8, <2>10 DEF Ways
<1>4. CASE RemoveDir(e)
  <2>1. Report("remove", e) /\ dirs' = dirs \ {e} /\ watched' = watched \ {e} /\ UNCHANGED files
        /\ Inside(e) \cap (dirs \cup files) = {}
    BY <1>4 DEF RemoveDir
  <2>2. \A f \in File : Removing(e) # Removing(f) /\ Removing(e) # Making(f)
    BY <1>1 DEF Making, Removing
  <2>3. /\ \A p : \A f \in File : Brings(p, f) => Brings(p, f)'
        /\ \A V, c : \A f \in File : In(V, c, f) => In(V, c, f)'
        /\ \A V, c : \A f \in File : Out(V, c, f) => Out(V, c, f)'
    BY <1>1, <2>1, <2>2, ReportKeeps DEF Removing
  <2>4. \A f \in files : Above[f] # e
    BY <2>1 DEF Inside, TypeOK
  <2>5. \A V, c : \A G \in SUBSET File : Present(G, V, c) => Present(G, V, c)'
    BY <2>1, <2>3 DEF Present
  <2>6. \A V, c : \A G \in SUBSET File : Absent(G, V, c) => Absent(G, V, c)'
    BY <1>1, <2>1, <2>3, <2>4 DEF Absent
  <2>7. W1'
    BY <2>1, <2>3 DEF Ways, W1
  <2>8. W2'
    BY <1>1, <2>1 DEF Ways, W2, BootWalk, Inside
  <2>9. W3'
    BY <2>1 DEF Ways, W3, Inside, TypeOK
  <2> QED BY <2>1, <2>5, <2>6, <2>7, <2>8, <2>9 DEF Ways
<1> QED BY <1>2, <1>3, <1>4

(* What depends on the queue alone. *)
LEMMA SameQueue ==
    ASSUME queue' = queue
    PROVE  /\ \A f : InQueue(Removing(f))' = InQueue(Removing(f)) /\ Removing(f)' = Removing(f)
                     /\ Making(f)' = Making(f)
           /\ \A q, f : FinallyMade(q, f)' = FinallyMade(q, f)
           /\ \A p, f : Told(p, f)' = Told(p, f)
BY DEF InQueue, FinallyMade, Told, Removing, Making

(* The walk: it hands what it leads to over to what it finds there. *)
LEMMA WalkWays ==
    ASSUME TypeOK, TreeOK, Ways, mishap' = {}, NEW e \in Dir, Watch(e) \/ List(e)
    PROVE  /\ Ways'
           /\ \A V, c : \A G \in SUBSET File : Present(G, V, c) => Present(G, V, c)'
           /\ \A V, c : \A G \in SUBSET File : Absent(G, V, c) => Absent(G, V, c)'
<1>1. calling = NoCall /\ e \in dirs /\ UNCHANGED <<dirs, files, queue, calling, phase>>
  BY DEF Watch, List, tree
<1>2. /\ \A f : InQueue(Removing(f))' = InQueue(Removing(f)) /\ Removing(f)' = Removing(f)
              /\ Making(f)' = Making(f)
      /\ \A q, f : FinallyMade(q, f)' = FinallyMade(q, f)
      /\ \A p, f : Told(p, f)' = Told(p, f)
  BY <1>1, SameQueue
<1>3. CASE Watch(e)
  <2>1. /\ watched' = watched \cup {e}
        /\ walk' = (walk \ {<<"visit", e>>}) \cup {<<"list", e>>}
        /\ e # Root => Above[e] \in watched
    BY <1>3 DEF Watch, Within
  <2>2. \A p : Walked(p) => Walked(p)'
    <3>1. <<"list", e>> \in walk' /\ \A t \in walk : t # <<"visit", e>> => t \in walk'
      BY <2>1
    <3> QED BY <3>1 DEF Walked
  <2>3. \A f \in File : <<"visit", f>> \in walk' => <<"visit", f>> \in walk
    BY <2>1
  <2>4. \A V, c : \A G \in SUBSET File : Present(G, V, c) => Present(G, V, c)'
    BY <1>1, <1>2, <2>2 DEF Present, In
  <2>5. \A V, c : \A G \in SUBSET File : Absent(G, V, c) => Absent(G, V, c)'
    BY <1>1, <1>2, <2>1, <2>3 DEF Absent, Out
  <2>6. W1'
    BY <1>1, <1>2, <2>1, <2>2 DEF Ways, W1, Brings
  <2>7. W2'
    BY <1>1, <2>1, <2>3 DEF Ways, W2, BootWalk
  <2>8. W3'
    BY <1>1, <2>1 DEF Ways, W3
  <2> QED BY <2>4, <2>5, <2>6, <2>7, <2>8 DEF Ways
<1>4. CASE List(e)
  <2>1. /\ e \in watched /\ UNCHANGED watched
        /\ \A t \in walk : t # <<"list", e>> => t \in walk'
        /\ \A p \in Inside(e) \cap dirs : <<"visit", p>> \in walk'
        /\ phase # "boot" => \A p \in Inside(e) \cap files : <<"visit", p>> \in walk'
        /\ \A f \in File : <<"visit", f>> \in walk' =>
              <<"visit", f>> \in walk \/ (phase # "boot" /\ f \in Inside(e) \cap files)
    BY <1>4 DEF List, Within, TypeOK
  <2>2. ASSUME NEW p \in dirs \cup files, p # e, p \in dirs \/ phase # "boot", Walked(p)
        PROVE  Walked(p)'
    <3>1. PICK q \in Path : Anc(q, p) /\ (<<"visit", q>> \in walk \/ <<"list", q>> \in walk)
      BY <2>2 DEF Walked
    <3>2. CASE q = e
      <4>1. PICK c \in Path \ {Root} : Above[c] = e /\ Anc(c, p)
        BY <2>2, <3>1, <3>2, AncDown DEF TypeOK, Path
      <4>2. c \in Inside(e) /\ (c \in dirs \/ (c \in files /\ p \in files))
        BY <2>2, <4>1, AncExists DEF Inside, Path
      <4>3. <<"visit", c>> \in walk'
        BY <2>1, <2>2, <4>2 DEF TypeOK
      <4> QED BY <4>1, <4>3 DEF Walked
    <3>3. CASE q # e
      BY <2>1, <3>1, <3>3 DEF Walked
    <3> QED BY <3>2, <3>3
  <2>3. e \notin files
    BY DEF TypeOK
  <2>4. \A V, c : \A G \in SUBSET File : Present(G, V, c) => Present(G, V, c)'
    BY <1>1, <1>2, <2>2, <2>3 DEF Present, In
  <2>5. \A V, c : \A G \in SUBSET File : Absent(G, V, c) => Absent(G, V, c)'
    BY <1>1, <1>2, <2>1 DEF Absent, Out, Inside
  <2>6. W1'
    BY <1>1, <1>2, <2>1, <2>2 DEF Ways, W1, Brings
  <2>7. W2'
    BY <1>1, <2>1 DEF Ways, W2, BootWalk, Inside, TypeOK
  <2>8. W3'
    BY <1>1, <2>1 DEF Ways, W3
  <2> QED BY <2>4, <2>5, <2>6, <2>7, <2>8 DEF Ways
<1> QED BY <1>3, <1>4

(* A walk given up was about what is gone. *)
LEMMA WalkEnds ==
    ASSUME TypeOK, TreeOK, Ways, On', NEW e \in Dir, WatchFails(e) \/ ListFails(e)
    PROVE  /\ Ways'
           /\ \A V, c : \A G \in SUBSET File : Present(G, V, c) => Present(G, V, c)'
           /\ \A V, c : \A G \in SUBSET File : Absent(G, V, c) => Absent(G, V, c)'
<1>1. /\ e \notin dirs /\ walk' = {} /\ walk \subseteq {<<"visit", e>>, <<"list", e>>}
      /\ phase # "boot" /\ UNCHANGED <<dirs, files, watched, queue, calling, phase>>
  BY DEF WatchFails, ListFails, Abandon, tree, On
<1>2. /\ \A f : InQueue(Removing(f))' = InQueue(Removing(f)) /\ Removing(f)' = Removing(f)
              /\ Making(f)' = Making(f)
      /\ \A q, f : FinallyMade(q, f)' = FinallyMade(q, f)
      /\ \A p, f : Told(p, f)' = Told(p, f)
  BY <1>1, SameQueue
<1>3. \A p \in dirs \cup files : ~Walked(p)
  <2> SUFFICES ASSUME NEW p \in dirs \cup files, Walked(p) PROVE FALSE
    OBVIOUS
  <2>1. Anc(e, p)
    BY <1>1 DEF Walked
  <2> QED BY <1>1, <2>1, AncExists DEF TypeOK
<1>4. \A V, c : \A G \in SUBSET File : Present(G, V, c) => Present(G, V, c)'
  BY <1>1, <1>2, <1>3 DEF Present, In
<1>5. \A V, c : \A G \in SUBSET File : Absent(G, V, c) => Absent(G, V, c)'
  BY <1>1, <1>2 DEF Absent, Out
<1>6. W1'
  BY <1>1, <1>2, <1>3 DEF Ways, W1, Brings
<1>7. W2' /\ W3'
  BY <1>1 DEF Ways, W2, W3
<1> QED BY <1>4, <1>5, <1>6, <1>7 DEF Ways

LEMMA Announced ==
    ASSUME TypeOK, TreeOK, Ways, NEW g \in File, Announce(g)
    PROVE  /\ Ways'
           /\ \A V, c : \A G \in SUBSET File : c = calling' =>
                 (Present(G, V, NoCall) => Present(G, V, c)')
           /\ \A V, c : \A G \in SUBSET File : c = calling' =>
                 (Absent(G, V, NoCall) => Absent(G, V, c)')
<1>1. /\ <<"visit", g>> \in walk /\ calling = NoCall /\ walk' = walk \ {<<"visit", g>>}
      /\ calling' = Making(g)
      /\ UNCHANGED <<dirs, files, watched, queue, phase>>
  BY DEF Announce, tree, Making
<1>2. phase # "boot"
  BY <1>1 DEF Ways, W2
<1>3. /\ \A f : InQueue(Removing(f))' = InQueue(Removing(f)) /\ Removing(f)' = Removing(f)
              /\ Making(f)' = Making(f)
      /\ \A q, f : FinallyMade(q, f)' = FinallyMade(q, f)
      /\ \A p, f : Told(p, f)' = Told(p, f)
  BY <1>1, SameQueue
<1>4. \A f : NoCall # Removing(f) /\ NoCall # Making(f)
             /\ calling' # Removing(f) /\ (calling' = Making(f) => f = g)
  BY <1>1 DEF NoCall, Making, Removing
<1>5. ASSUME NEW p \in dirs \cup files, p # g, Walked(p) PROVE Walked(p)'
  <2>1. PICK q \in Path : Anc(q, p) /\ (<<"visit", q>> \in walk \/ <<"list", q>> \in walk)
    BY <1>5 DEF Walked
  <2>2. q # g
    BY <1>5, <2>1, AncExists DEF TypeOK
  <2> QED BY <1>1, <2>1, <2>2 DEF Walked
<1>6. \A V, c : \A G \in SUBSET File : c = calling' => (Present(G, V, NoCall) => Present(G, V, c)')
  BY <1>1, <1>3, <1>4, <1>5 DEF Present, In
<1>7. \A V, c : \A G \in SUBSET File : c = calling' => (Absent(G, V, NoCall) => Absent(G, V, c)')
  BY <1>1, <1>3, <1>4 DEF Absent, Out
<1>8. W1'
  BY <1>1, <1>3, <1>5 DEF Ways, W1, Brings, TypeOK
<1>9. W2' /\ W3'
  BY <1>1, <1>2 DEF Ways, W2, W3
<1> QED BY <1>6, <1>7, <1>8, <1>9 DEF Ways

(* The silent walk has left no directory unwatched that has anything in it. *)
LEMMA StartWays ==
    ASSUME TypeOK, TreeOK, Ways, Started
    PROVE  /\ Ways'
           /\ \A V, c : \A G \in SUBSET File : Present(G, V, c) => Present(G, V, c)'
           /\ \A V, c : \A G \in SUBSET File : Absent(G, V, c) => Absent(G, V, c)'
<1> DEFINE Full == {d \in dirs \ watched : Inside(d) \cap (dirs \cup files) # {}}
<1>1. /\ phase = "boot" /\ walk = {} /\ phase' # "boot"
      /\ UNCHANGED <<dirs, files, watched, queue, walk, calling>>
  BY DEF Started, Idle, tree, loop
<1>2. \A d \in Full : d # Root /\ Above[d] \in Full
  <2> SUFFICES ASSUME NEW d \in Full PROVE d # Root /\ Above[d] \in Full
    OBVIOUS
  <2>1. d # Root /\ Above[d] \notin watched
    BY <1>1 DEF Ways, W2, BootWalk
  <2>2. Above[d] \in dirs /\ d \in Inside(Above[d])
    BY <2>1 DEF TreeOK, Closed, Inside, TypeOK
  <2> QED BY <2>1, <2>2
<1>3. Full \in SUBSET (Dir \ {Root})
  BY <1>2 DEF TypeOK
<1>4. Full = {}
  BY <1>2, <1>3, TreeAssumption
<1>5. \A f \in files : Above[f] \in watched
  <2> SUFFICES ASSUME NEW f \in files, Above[f] \notin watched PROVE FALSE
    OBVIOUS
  <2>1. Above[f] \in dirs /\ f \in Inside(Above[f])
    BY DEF TreeOK, FilesWithin, Inside, TypeOK
  <2> QED BY <1>4, <2>1
<1>6. /\ \A f : InQueue(Removing(f))' = InQueue(Removing(f)) /\ Removing(f)' = Removing(f)
              /\ Making(f)' = Making(f)
      /\ \A q, f : FinallyMade(q, f)' = FinallyMade(q, f)
      /\ \A p, f : Told(p, f)' = Told(p, f)
  BY <1>1, SameQueue
<1>7. \A p : Walked(p)' = Walked(p)
  BY <1>1 DEF Walked
<1>8. \A V, c : \A G \in SUBSET File : Present(G, V, c) => Present(G, V, c)'
  BY <1>1, <1>6, <1>7 DEF Present, In
<1>9. \A V, c : \A G \in SUBSET File : Absent(G, V, c) => Absent(G, V, c)'
  BY <1>1, <1>5, <1>6 DEF Absent, Out
<1>10. W1'
  BY <1>1, <1>6, <1>7 DEF Ways, W1, Brings
<1>11. W2' /\ W3'
  BY <1>1 DEF Ways, W2, W3
<1> QED BY <1>8, <1>9, <1>10, <1>11 DEF Ways

(* The loop: what an event promised, the walk or the callback it begins keeps. *)
LEMMA Handled ==
    ASSUME TypeOK, TreeOK, Ways, HandleDir \/ HandleFile
    PROVE  /\ Ways'
           /\ \A V, c : \A G \in SUBSET File : c = calling' =>
                 (Present(G, V, NoCall) => Present(G, V, c)')
           /\ \A V, c : \A G \in SUBSET File : c = calling' =>
                 (Absent(G, V, NoCall) => Absent(G, V, c)')
<1>1. /\ phase # "boot" /\ walk = {} /\ calling = NoCall /\ queue # <<>> /\ queue' = Tail(queue)
      /\ UNCHANGED <<dirs, files, watched, phase>>
  BY DEF HandleDir, HandleFile, Receiving, Idle, tree
<1>2. Head(queue) \in Event
  BY <1>1, QueueShrinks
<1>3. \A f : NoCall # Removing(f) /\ NoCall # Making(f)
             /\ Removing(f)' = Removing(f) /\ Making(f)' = Making(f)
  BY <1>1 DEF NoCall, Making, Removing
<1>4. /\ \A f : InQueue(Removing(f)) => Head(queue) = Removing(f) \/ InQueue(Removing(f))'
      /\ \A f : ~InQueue(Removing(f)) => ~InQueue(Removing(f))'
      /\ \A q, f : FinallyMade(q, f) =>
            FinallyMade(q, f)' \/ (Head(queue) = Making(q) /\ ~InQueue(Removing(f))')
      /\ \A q, f : ~FinallyMade(q, f) =>
            ~FinallyMade(q, f)' /\ (Head(queue) = Making(q) => InQueue(Removing(f))')
  BY <1>1, <1>3, PopKeeps
<1>5. \A p : ~Walked(p)
  BY <1>1 DEF Walked
<1>6. W2' /\ W3'
  BY <1>1 DEF Ways, W2, W3
<1>7. CASE HandleDir
  <2>1. PICK h \in dirs : Head(queue) = Making(h) /\ walk' = {<<"visit", h>>} /\ calling' = NoCall
    BY <1>1, <1>2, <1>7 DEF HandleDir, IsNewDir, Event, Making
  <2>2. h \in Path /\ h \notin File
    BY DEF TypeOK, Path
  <2>3. ASSUME NEW p, NEW f, Told(p, f) PROVE Told(p, f)' \/ (Walked(p)' /\ ~InQueue(Removing(f))')
    <3>1. PICK q \in Path : Anc(q, p) /\ FinallyMade(q, f)
      BY <2>3 DEF Told
    <3>2. CASE FinallyMade(q, f)'
      BY <3>1, <3>2 DEF Told
    <3>3. CASE Head(queue) = Making(q) /\ ~InQueue(Removing(f))'
      <4>1. q = h
        BY <2>1, <3>3 DEF Making
      <4> QED BY <2>1, <2>2, <3>1, <3>3, <4>1 DEF Walked
    <3> QED BY <1>4, <3>1, <3>2, <3>3
  <2>4. \A f : Head(queue) # Removing(f)
    BY <2>1 DEF Making, Removing
  <2>5. \A V, c : \A G \in SUBSET File : c = calling' => (Present(G, V, NoCall) => Present(G, V, c)')
    BY <1>1, <1>3, <1>4, <1>5, <2>1, <2>3 DEF Present, In
  <2>6. \A V, c : \A G \in SUBSET File : c = calling' => (Absent(G, V, NoCall) => Absent(G, V, c)')
    BY <1>1, <1>3, <1>4, <2>1, <2>2, <2>4 DEF Absent, Out
  <2>7. W1'
    BY <1>1, <1>3, <1>5, <2>3 DEF Ways, W1, Brings
  <2> QED BY <1>6, <2>5, <2>6, <2>7 DEF Ways
<1>8. CASE HandleFile
  <2>1. /\ walk' = walk /\ calling' = Head(queue)
        /\ \A q : Head(queue) = Making(q) => q \notin dirs
    BY <1>8 DEF HandleFile, IsNewDir, Making
  <2>2. ASSUME NEW d \in dirs, NEW f, Told(d, f) PROVE Told(d, f)'
    <3>1. PICK q \in Path : Anc(q, d) /\ FinallyMade(q, f)
      BY <2>2 DEF Told
    <3>2. Head(queue) # Making(q)
      BY <2>1, <3>1, AncExists
    <3> QED BY <1>4, <3>1, <3>2 DEF Told
  <2>3. ASSUME NEW f \in files, Told(f, f)
        PROVE  Told(f, f)' \/ (Head(queue) = Making(f) /\ ~InQueue(Removing(f))')
    <3>1. PICK q \in Path : Anc(q, f) /\ FinallyMade(q, f)
      BY <2>3 DEF Told
    <3>2. Head(queue) = Making(q) => q = f
      BY <2>1, <3>1, AncExists
    <3> QED BY <1>4, <3>1, <3>2 DEF Told
  <2>4. \A f : ~InQueue(Removing(f)) => Head(queue) # Removing(f)
    BY <1>1, PopKeeps
  <2>5. \A V, c : \A G \in SUBSET File : c = calling' => (Present(G, V, NoCall) => Present(G, V, c)')
    BY <1>1, <1>3, <1>4, <1>5, <2>1, <2>3, <2>4 DEF Present, In
  <2>6. \A V, c : \A G \in SUBSET File : c = calling' => (Absent(G, V, NoCall) => Absent(G, V, c)')
    BY <1>1, <1>3, <1>4, <2>1 DEF Absent, Out
  <2>7. W1'
    BY <1>1, <1>3, <1>5, <2>2 DEF Ways, W1, Brings
  <2> QED BY <1>6, <2>5, <2>6, <2>7 DEF Ways
<1> QED BY <1>7, <1>8

LEMMA RestWays ==
    ASSUME TypeOK, Ways, Return \/ Stop \/ UNCHANGED wvars
    PROVE  /\ Ways'
           /\ \A V, c : \A G \in SUBSET File : Present(G, V, c) => Present(G, V, c)'
           /\ \A V, c : \A G \in SUBSET File : Absent(G, V, c) => Absent(G, V, c)'
<1>1. /\ UNCHANGED <<dirs, files, watched, queue, walk>>
      /\ (phase' = "boot") = (phase = "boot")
      /\ phase = "boot" => calling' = calling
  BY DEF Return, Stop, tree, loop, wvars, Ways, W2
<1>2. /\ \A f : InQueue(Removing(f))' = InQueue(Removing(f)) /\ Removing(f)' = Removing(f)
              /\ Making(f)' = Making(f)
      /\ \A q, f : FinallyMade(q, f)' = FinallyMade(q, f)
      /\ \A p, f : Told(p, f)' = Told(p, f)
  BY <1>1, SameQueue
<1>3. \A p : Walked(p)' = Walked(p)
  BY <1>1 DEF Walked
<1>4. \A V, c : \A G \in SUBSET File : Present(G, V, c) => Present(G, V, c)'
  BY <1>1, <1>2, <1>3 DEF Present, In
<1>5. \A V, c : \A G \in SUBSET File : Absent(G, V, c) => Absent(G, V, c)'
  BY <1>1, <1>2 DEF Absent, Out
<1>6. W1'
  BY <1>1, <1>2, <1>3 DEF Ways, W1, Brings
<1>7. W2' /\ W3'
  BY <1>1 DEF Ways, W2, W3, BootWalk
<1> QED BY <1>4, <1>5, <1>6, <1>7 DEF Ways

(* Whoever has acted on every callback but c holds what it held after a step of   *)
(* the watcher, with the callback that step begins still to act on.                *)
LEMMA WaysStep ==
    ASSUME TypeOK, TreeOK, Ways, On', [Next]_wvars
    PROVE  /\ Ways'
           /\ \A V, c, d : \A G \in SUBSET File :
                 /\ calling = NoCall => c = NoCall
                 /\ d = IF calling' \in {calling, NoCall} THEN c ELSE calling'
                 => /\ Present(G, V, c) => Present(G, V, d)'
                    /\ Absent(G, V, c) => Absent(G, V, d)'
<1> DEFINE Goal ==
      /\ Ways'
      /\ \A V, c, d : \A G \in SUBSET File :
            /\ calling = NoCall => c = NoCall
            /\ d = IF calling' \in {calling, NoCall} THEN c ELSE calling'
            => /\ Present(G, V, c) => Present(G, V, d)'
               /\ Absent(G, V, c) => Absent(G, V, d)'
<1> SUFFICES Goal
  OBVIOUS
<1>1. mishap' = {}
  BY DEF On
<1>2. ASSUME NEW f \in File, CreateFile(f) \/ WriteFile(f) \/ DeleteFile(f) PROVE Goal
  <2>1. calling' = calling
    BY <1>2 DEF CreateFile, WriteFile, DeleteFile, loop
  <2> QED BY <1>1, <1>2, <2>1, FileWays
<1>3. ASSUME NEW d \in Dir \ {Root}, MakeDir(d) \/ RemoveDir(d) \/ MoveOut(d) PROVE Goal
  <2>1. calling' = calling
    BY <1>3 DEF MakeDir, RemoveDir, MoveOut, loop
  <2> QED BY <1>1, <1>3, <2>1, DirWays
<1>4. ASSUME NEW d \in Dir, Watch(d) \/ List(d) PROVE Goal
  <2>1. calling' = calling
    BY <1>4 DEF Watch, List
  <2> QED BY <1>1, <1>4, <2>1, WalkWays
<1>5. ASSUME NEW d \in Dir, WatchFails(d) \/ ListFails(d) PROVE Goal
  <2>1. calling' = calling
    BY <1>5 DEF WatchFails, ListFails, Abandon
  <2> QED BY <1>5, <2>1, WalkEnds
<1>6. ASSUME NEW f \in File, Announce(f) PROVE Goal
  <2>1. calling = NoCall /\ calling' # NoCall
    BY <1>6 DEF Announce, NoCall
  <2> QED BY <1>6, <2>1, Announced
<1>7. CASE Started
  <2>1. calling' = calling
    BY <1>7 DEF Started, loop
  <2> QED BY <1>7, <2>1, StartWays
<1>8. CASE HandleDir \/ HandleFile
  <2>1. calling = NoCall /\ (calling' # NoCall \/ calling' = calling)
    BY <1>8 DEF HandleDir, HandleFile, Receiving, Idle
  <2> QED BY <1>8, <2>1, Handled
<1>9. CASE Return \/ Stop \/ UNCHANGED wvars
  <2>1. calling' \in {calling, NoCall}
    BY <1>9 DEF Return, Stop, loop, wvars
  <2> QED BY <1>9, <2>1, RestWays
<1>10. ~LoopEnds
  BY DEF LoopEnds, On
<1> QED BY <1>2, <1>3, <1>4, <1>5, <1>6, <1>7, <1>8, <1>9, <1>10 DEF Next, Step

(* Acting on c. *)
LEMMA Applied ==
    ASSUME NEW G \in SUBSET File
    PROVE  /\ \A V, W, c :
                 (\A f \in G : c = Making(f) \/ (f \in V /\ c # Removing(f)) => f \in W)
                 => (Present(G, V, c) => Present(G, W, NoCall))
           /\ \A V, W, c :
                 (\A f \in G : f \in W => c = Making(f) \/ (f \in V /\ c # Removing(f)))
                 => (Absent(G, V, c) => Absent(G, W, NoCall))
<1>1. \A f : NoCall # Removing(f) /\ NoCall # Making(f) /\ Making(f) # Removing(f)
  BY DEF NoCall, Removing, Making
<1> QED BY <1>1 DEF Present, Absent, In, Out

(* At the start of the watcher its owner has the files there are. *)
LEMMA WaysBegin ==
    ASSUME Init
    PROVE  WaysInv /\ Present(File, files, NoCall) /\ Absent(File, files, NoCall)
<1>1. TypeOK
  BY DEF Init, TypeOK, FilesWithin, Path, Phase, Mishap
<1>2. TreeOK
  BY DEF Init, TreeOK
<1>3. /\ watched = {} /\ queue = <<>> /\ walk = {<<"visit", Root>>} /\ calling = NoCall
      /\ phase = "boot"
  BY DEF Init
<1>4. \A f : ~InQueue(Removing(f)) /\ (\A q : ~FinallyMade(q, f)) /\ NoCall # Removing(f)
             /\ NoCall # Making(f)
  BY <1>3 DEF InQueue, FinallyMade, NoCall, Removing, Making
<1>5. \A p \in Path : Walked(p)
  BY <1>3, AncRoot DEF Walked, Path
<1>6. W1
  BY <1>1, <1>4, <1>5 DEF W1, Brings, TypeOK, Path
<1>7. W2 /\ W3
  BY <1>3 DEF W2, W3, BootWalk
<1>8. Present(File, files, NoCall) /\ Absent(File, files, NoCall)
  BY <1>3, <1>4 DEF Present, Absent, In, Out
<1> QED BY <1>1, <1>2, <1>6, <1>7, <1>8 DEF WaysInv, Ways

(* When nothing is left to do it has them still. *)
LEMMA WaysAtRest ==
    ASSUME AtRest, NEW G \in SUBSET File, NEW V, Present(G, V, NoCall), Absent(G, V, NoCall)
    PROVE  \A f \in G : f \in V <=> f \in files
<1>1. walk = {} /\ queue = <<>>
  BY DEF AtRest, Idle
<1>2. \A f : ~InQueue(Removing(f)) /\ (\A q : ~FinallyMade(q, f)) /\ NoCall # Removing(f)
             /\ NoCall # Making(f)
  BY <1>1 DEF InQueue, FinallyMade, NoCall, Removing, Making
<1>3. \A f \in files \cap G : f \in V
  BY <1>1, <1>2 DEF Present, In, Told, Walked
<1>4. \A f \in G \ files : f \notin V
  BY <1>1, <1>2 DEF Absent, Out
<1> QED BY <1>3, <1>4

KnownInv ==
    /\ WaysInv
    /\ On => Present(File, known, calling) /\ Absent(File, known, calling)

(* A callback begins when none runs, and ends by returning. *)
LEMMA CallsBegin ==
    ASSUME [Next]_wvars, ~Return
    PROVE  calling' = calling \/ (calling = NoCall /\ calling' # NoCall)
BY DEF Next, Step, CreateFile, WriteFile, DeleteFile, MakeDir, RemoveDir, MoveOut, Watch,
       WatchFails, List, ListFails, Abandon, Announce, Started, HandleDir, HandleFile,
       Receiving, Idle, Stop, LoopEnds, NoCall, loop, wvars

LEMMA WaysInvStep == WaysInv /\ [Next]_wvars => WaysInv'
BY TypeStep, TreeStep, OnStep, WaysStep DEF WaysInv

LEMMA KnownStep == KnownInv /\ [Next]_wvars => KnownInv'
<1> SUFFICES ASSUME KnownInv, [Next]_wvars PROVE KnownInv'
  OBVIOUS
<1>1. WaysInv' /\ TypeOK /\ TreeOK
  BY WaysInvStep DEF KnownInv, WaysInv
<1> SUFFICES ASSUME On' PROVE (Present(File, known, calling) /\ Absent(File, known, calling))'
  BY <1>1 DEF KnownInv
<1>2. Ways /\ Present(File, known, calling) /\ Absent(File, known, calling)
  BY <1>1, OnStep DEF KnownInv, WaysInv
<1>3. CASE Return
  <2>1. calling # NoCall /\ calling' = NoCall /\ calling \in Event
    BY <1>1, <1>3 DEF Return, TypeOK
  <2>2. \A f \in File : f \in known' <=> calling = Making(f) \/ (f \in known /\ calling # Removing(f))
    BY <1>3, <2>1 DEF Return, Event, Making, Removing
  <2>3. Present(File, known', NoCall) /\ Absent(File, known', NoCall)
    BY <1>2, <2>2, Applied
  <2>4. NoCall = IF calling' \in {calling, NoCall} THEN NoCall ELSE calling'
    BY <2>1
  <2> QED BY <1>1, <1>2, <2>1, <2>3, <2>4, WaysStep
<1>4. CASE ~Return
  <2>1. known' = known
    BY <1>4 DEF Next, Step, CreateFile, WriteFile, DeleteFile, MakeDir, RemoveDir, MoveOut, Watch,
                WatchFails, List, ListFails, Abandon, Announce, Started, HandleDir, HandleFile,
                Stop, LoopEnds, wvars
  <2>2. calling' = IF calling' \in {calling, NoCall} THEN calling ELSE calling'
    BY <1>4, CallsBegin
  <2> QED BY <1>1, <1>2, <2>1, <2>2, WaysStep
<1> QED BY <1>3, <1>4

(* With every event handled the watcher has reported exactly the files that are  *)
(* there, for any tree and any interleaving of its changes with the walks, but    *)
(* for the mishaps the module names.                                              *)
THEOREM EveryFileKnown == Spec => []SettledIsKnown
<1>1. Init => KnownInv
  BY WaysBegin DEF KnownInv, Init
<1>2. KnownInv => SettledIsKnown
  <2> SUFFICES ASSUME KnownInv, AtRest, mishap = {} PROVE known = files
    BY DEF SettledIsKnown
  <2>1. calling = NoCall /\ On
    BY DEF AtRest, Idle, On
  <2>2. \A f \in File : f \in known <=> f \in files
    BY <2>1, WaysAtRest DEF KnownInv
  <2> QED BY <2>2 DEF KnownInv, WaysInv, TypeOK
<1> QED BY <1>1, <1>2, KnownStep, PTL DEF Spec
=============================================================================
