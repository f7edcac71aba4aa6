------------------------ MODULE StaticRegistryProofs ------------------------
(* Theorems about StaticRegistry and StaticBundles, for any assets, contents *)
(* and fires.                                                                *)
EXTENDS StaticBundles, TLAPS

Calm == mishap \notin {"overlapped", "failed"}

Busy == {w \in Worker : pc[w] # "idle"}

Typed ==
    /\ dir \in Graph
    /\ pc \in [Worker -> {"idle", "read", "compare", "write", "notify"}]
    /\ changed \in [Worker -> BOOLEAN]
    /\ seen \in [Worker -> Graph]
    /\ mishap \in {"none", "missed", "overlapped", "failed"}

(* One rebuild at a time. *)
Alone == Calm => \A v, w \in Busy : v = w

(* What is published is what is served, until a worker swaps the manifest    *)
(* and as soon as it has written the module.                                 *)
Published ==
    Calm =>
        /\ \A w \in Worker : pc[w] \in {"compare", "write"} => manifest = seen[w]
        /\ (\A w \in Worker : pc[w] \notin {"compare", "write"}) => manifest = module

(* A worker about to write knows whether that makes a difference. *)
Detected ==
    Calm => \A w \in Worker : At(w, "write") => changed[w] = (module # seen[w])

IInv == Typed /\ Alone /\ Published /\ Detected

LEMMA Inductive == Spec => []IInv
<1>1. Init => IInv
  <2> SUFFICES ASSUME Init PROVE IInv
    OBVIOUS
  <2>1. Typed
    BY DEF Init, Typed, Graph, Empty
  <2>2. Busy = {Boot} /\ \A w \in Worker : pc[w] \notin {"compare", "write"}
    BY DEF Init, Busy, Worker
  <2> QED BY <2>1, <2>2 DEF Init, IInv, Alone, Published, Detected, At
<1>2. IInv /\ [Next]_vars => IInv'
  <2> SUFFICES ASSUME IInv, [Next]_vars PROVE IInv'
    OBVIOUS
  <2> USE DEF IInv, Typed, Alone, Published, Detected, Calm,
          Busy, At, Goto
  <2>1. ASSUME NEW a \in Asset, NEW c \in Content \cup {NoFile}, Edit(a, c)
        PROVE IInv'
    BY <2>1 DEF Edit, scan, served, Graph
  <2>3. ASSUME NEW w \in Worker, Rebuild(w) PROVE IInv'
    <3>1. ASSUME NEW a \in Asset, Read(w, a) PROVE IInv'
      BY <3>1 DEF Read, served, Graph
    <3>2. CASE ScanFails(w)
      <4>1. /\ pc[w] = "read"
            /\ pc' = [pc EXCEPT ![w] = "idle"]
            /\ seen' = [seen EXCEPT ![w] = Empty]
            /\ changed' = [changed EXCEPT ![w] = FALSE]
            /\ UNCHANGED <<dir, manifest, module, mishap>>
        BY <3>2 DEF ScanFails, Return, served
      <4> QED BY <4>1 DEF Empty, Graph
    <3>3. CASE FragmentFails(w)
      BY <3>3 DEF FragmentFails, Return, served, Empty, Graph
    <3>4. CASE Swap(w)
      BY <3>4 DEF Swap, Scanned, scan
    <3>5. CASE Compare(w)
      BY <3>5 DEF Compare, served
    <3>6. CASE Write(w)
      BY <3>6 DEF Write, scan
    <3>7. CASE WriteFails(w)
      BY <3>7 DEF WriteFails, Return, Empty, Graph
    <3>8. CASE Notify(w)
      BY <3>8 DEF Notify, Return, Empty, Graph, served
    <3> QED BY <2>3, <3>1, <3>2, <3>3, <3>4, <3>5, <3>6, <3>7, <3>8 DEF Rebuild
  <2>4. CASE Watch \/ StartFails
    BY <2>4 DEF Watch, StartFails, scan, served
  <2>5. CASE Handle
    BY <2>5 DEF Handle, scan, served
  <2>6. ASSUME NEW f \in Fire, Expire(f) \/ GiveUp(f) PROVE IInv'
    BY <2>6 DEF Expire, GiveUp, scan, served
  <2>7. ASSUME NEW f \in Fire, Begin(f) PROVE IInv'
    BY <2>7 DEF Begin, List, Worker, served
  <2>8. CASE StopWatcher \/ StopDebounce \/ CloseReturns
    BY <2>8 DEF StopWatcher, StopDebounce, CloseReturns, scan, served
  <2>9. CASE UNCHANGED vars
    BY <2>9 DEF vars, scan, served
  <2> QED BY <2>1, <2>3, <2>4, <2>5, <2>6, <2>7, <2>8, <2>9 DEF Next
<1> QED BY <1>1, <1>2, PTL DEF Spec

-----------------------------------------------------------------------------
(* The registry drives its debouncer through Arm, the fires and Stop only,   *)
(* so what is proved of any debouncer holds of this one.                     *)
THEOREM UsesDebouncer == Spec => D!Spec
<1>1. Init => D!Init
  BY DEF Init
<1>2. [Next]_vars => [D!Next]_(D!vars)
  <2> SUFFICES ASSUME [Next]_vars PROVE D!Next \/ UNCHANGED D!vars
    OBVIOUS
  <2> USE DEF D!Next, D!vars, debounce
  <2>1. ASSUME NEW a \in Asset, NEW c \in Content \cup {NoFile}, Edit(a, c)
        PROVE UNCHANGED D!vars
    BY <2>1 DEF Edit
  <2>3. ASSUME NEW w \in Worker, Rebuild(w) PROVE D!Next \/ UNCHANGED D!vars
    <3>1. Return(w, TRUE) \/ Return(w, FALSE) => D!Next \/ UNCHANGED D!vars
      BY DEF Return, Worker
    <3>2. \A a \in Asset : Read(w, a) => UNCHANGED D!vars
      BY DEF Read
    <3> QED BY <2>3, <3>1, <3>2 DEF Rebuild, ScanFails, FragmentFails, Swap,
               Compare, Write, WriteFails, Notify
  <2>4. CASE Watch \/ StartFails
    BY <2>4 DEF Watch, StartFails
  <2>5. CASE Handle
    BY <2>5 DEF Handle
  <2>6. ASSUME NEW f \in Fire, Expire(f) \/ Begin(f) \/ GiveUp(f) PROVE D!Next
    BY <2>6 DEF Expire, Begin, GiveUp
  <2>7. CASE StopWatcher \/ StopDebounce \/ CloseReturns
    BY <2>7 DEF StopWatcher, StopDebounce, CloseReturns
  <2>8. CASE UNCHANGED vars
    BY <2>8 DEF vars
  <2> QED BY <2>1, <2>3, <2>4, <2>5, <2>6, <2>7, <2>8 DEF Next
<1> QED BY <1>1, <1>2, PTL DEF Spec, D!Spec

DP == INSTANCE DebouncerProofs WITH Stopper <- {Closer}

LEMMA DebouncerSound == Spec => []DP!IInv
<1>1. DP!Spec => []DP!IInv
  BY DP!Inductive
<1>2. D!Init => DP!Init
  BY DEF D!Init, DP!Init
<1>3. [D!Next]_(D!vars) => [DP!Next]_(DP!vars)
  BY DEF D!Next, D!vars, DP!Next, DP!vars, D!Arm, DP!Arm, D!Expire, DP!Expire,
     D!Begin, DP!Begin, D!GiveUp, DP!GiveUp, D!End, DP!End, D!Stop, DP!Stop,
     D!StopReturns, DP!StopReturns
<1> QED BY <1>1, <1>2, <1>3, UsesDebouncer, PTL DEF D!Spec, DP!Spec

(* The fires of the debouncer are the workers that rebuild, the start's own  *)
(* rebuild is over before anything else, and Close returns by way of Stop.   *)
Wired ==
    /\ pc \in [Worker -> {"idle", "read", "compare", "write", "notify"}]
    /\ \A f \in Fire : fire[f] = "running" <=> pc[f] # "idle"
    /\ pc[Boot] # "idle" => phase = "boot"
    /\ phase = "closed" => stopper[Closer] = "returned"

LEMMA WiredInvariant == Spec => []Wired
<1>1. Init => Wired
  BY BootAssumption DEF Init, D!Init, Wired, Worker
<1>2. Wired /\ DP!IInv /\ [Next]_vars => Wired'
  <2> SUFFICES ASSUME Wired, DP!IInv, [Next]_vars PROVE Wired'
    OBVIOUS
  <2>0. /\ fire \in [Fire -> {"idle", "launched", "running"}]
        /\ stopper \in [{Closer} -> {"idle", "waiting", "returned"}]
    BY DEF DP!IInv, DP!TypeOK
  <2> USE <2>0, BootAssumption DEF Wired, Worker, At, Goto
  <2>1. ASSUME NEW a \in Asset, NEW c \in Content \cup {NoFile}, Edit(a, c)
        PROVE Wired'
    BY <2>1 DEF Edit, debounce
  <2>3. ASSUME NEW w \in Worker, Rebuild(w) PROVE Wired'
    <3>1. ASSUME pc[w] # "idle", Return(w, TRUE) \/ Return(w, FALSE) PROVE Wired'
      BY <3>1 DEF Return, D!End, debounce
    <3>2. ASSUME pc[w] # "idle", UNCHANGED <<phase, debounce>>,
                 pc' = pc \/ \E p \in {"compare", "write", "notify"} : Goto(w, p)
          PROVE Wired'
      BY <3>2 DEF debounce
    <3>3. \A a \in Asset : Read(w, a) =>
             pc[w] # "idle" /\ UNCHANGED <<phase, debounce>> /\ pc' = pc
      BY DEF Read
    <3>4. Swap(w) \/ Compare(w) \/ Write(w) =>
             /\ pc[w] # "idle"
             /\ UNCHANGED <<phase, debounce>>
             /\ \E p \in {"compare", "write", "notify"} : Goto(w, p)
      BY DEF Swap, Scanned, Compare, Write
    <3>5. ScanFails(w) \/ FragmentFails(w) \/ WriteFails(w) \/ Notify(w) =>
             pc[w] # "idle" /\ (Return(w, TRUE) \/ Return(w, FALSE))
      BY DEF ScanFails, FragmentFails, Scanned, WriteFails, Notify
    <3> QED BY <2>3, <3>1, <3>2, <3>3, <3>4, <3>5 DEF Rebuild
  <2>4. CASE Watch \/ StartFails
    BY <2>4 DEF Watch, StartFails, debounce
  <2>5. CASE Handle
    BY <2>5 DEF Handle, D!Arm
  <2>6. ASSUME NEW f \in Fire, Expire(f) \/ Begin(f) \/ GiveUp(f) PROVE Wired'
    BY <2>6 DEF Expire, D!Expire, Begin, D!Begin, List, GiveUp, D!GiveUp
  <2>7. CASE StopWatcher \/ StopDebounce
    BY <2>7 DEF StopWatcher, StopDebounce, D!Stop, debounce
  <2>8. CASE CloseReturns
    BY <2>8 DEF CloseReturns, D!StopReturns
  <2>9. CASE UNCHANGED vars
    BY <2>9 DEF vars, debounce
  <2> QED BY <2>1, <2>3, <2>4, <2>5, <2>6, <2>7, <2>8, <2>9 DEF Next
<1> QED BY <1>1, <1>2, DebouncerSound, PTL DEF Spec

(* After Close has returned nothing replaces the manifest or the module: its *)
(* call of Stop has returned, so by StopIsFinal no fire is in rebuild.       *)
THEOREM QuietOnceClosed == Spec => ClosedIsQuiet
<1>1. Wired /\ DP!IInv /\ [Next]_vars =>
         [phase = "closed" => UNCHANGED <<manifest, module>>]_vars
  <2> SUFFICES ASSUME Wired, DP!IInv, Next, phase = "closed"
               PROVE UNCHANGED <<manifest, module>>
    OBVIOUS
  <2>1. \A w \in Worker : pc[w] = "idle"
    BY DEF Wired, Worker, DP!IInv, DP!StopIsFinal, DP!Running
  <2>2. ASSUME NEW w \in Worker, Rebuild(w) PROVE FALSE
    BY <2>1, <2>2 DEF Rebuild, Read, ScanFails, FragmentFails, Scanned, Swap,
       Compare, Write, WriteFails, Notify, At
  <2> QED BY <2>2 DEF Next, Edit, Watch, StartFails, Handle, Expire, Begin,
             GiveUp, StopWatcher, StopDebounce, CloseReturns, served
<1> QED BY <1>1, WiredInvariant, DebouncerSound, PTL DEF Spec, ClosedIsQuiet

-----------------------------------------------------------------------------
(* Nothing has happened that the registry does not know of. *)
Informed ==
    /\ mishap = "none"
    /\ phase \in {"boot", "mounted", "up"}
    /\ events = 0
    /\ ~timer
    /\ \A f \in Fire : fire[f] # "launched"

(* What a worker has read is what the directory holds. *)
Tracks(w) ==
    /\ pc[w] = "read" => /\ todo[w] \subseteq Present(dir)
                         /\ \A a \in Asset \ todo[w] : seen[w][a] = dir[a]
    /\ pc[w] # "read" => seen[w] = dir
    /\ pc[w] = "notify" => Current

Following ==
    Informed => /\ \A w \in Busy : Tracks(w)
                /\ Busy = {} => Current \/ ~Unclaimed(dir)

(* A worker begins with nothing read, and only Close stops the debouncer. *)
Clean ==
    /\ events \in 0 .. MaxEvents
    /\ todo \in [Worker -> SUBSET Asset]
    /\ \A w \in Worker : pc[w] = "idle" => seen[w] = Empty
    /\ stopped => phase \in {"stopping", "closed"}

Known == IInv /\ Wired /\ DP!IInv

LEMMA CleanInvariant == Spec => []Clean
<1>1. Init => Clean
  BY MaxEventsAssumption DEF Init, D!Init, Clean, Worker, Present
<1>2. Clean /\ Known /\ [Next]_vars => Clean'
  <2> SUFFICES ASSUME Clean, Known, [Next]_vars PROVE Clean'
    OBVIOUS
  <2> USE MaxEventsAssumption
      DEF Clean, Known, IInv, Typed, Wired, Worker, At, Goto, scan, served, debounce
  <2>1. ASSUME NEW a \in Asset, NEW c \in Content \cup {NoFile}, Edit(a, c)
        PROVE Clean'
    BY <2>1 DEF Edit
  <2>3. ASSUME NEW w \in Worker, Rebuild(w) PROVE Clean'
    <3>1. ASSUME pc[w] # "idle", Return(w, TRUE) \/ Return(w, FALSE), UNCHANGED events
          PROVE Clean'
      BY <3>1 DEF Return, D!End
    <3>2. ASSUME NEW a \in Asset, Read(w, a) PROVE Clean'
      BY <3>2 DEF Read
    <3>3. CASE Swap(w) \/ Compare(w) \/ Write(w)
      BY <3>3 DEF Swap, Scanned, Compare, Write
    <3>4. ScanFails(w) \/ FragmentFails(w) \/ WriteFails(w) \/ Notify(w) =>
             pc[w] # "idle" /\ (Return(w, TRUE) \/ Return(w, FALSE)) /\ UNCHANGED events
      BY DEF ScanFails, FragmentFails, Scanned, WriteFails, Notify
    <3> QED BY <2>3, <3>1, <3>2, <3>3, <3>4 DEF Rebuild
  <2>4. CASE Watch \/ StartFails
    BY <2>4 DEF Watch, StartFails
  <2>5. CASE Handle
    BY <2>5 DEF Handle, D!Arm
  <2>6. ASSUME NEW f \in Fire, Expire(f) \/ GiveUp(f) PROVE Clean'
    BY <2>6 DEF Expire, D!Expire, GiveUp, D!GiveUp
  <2>7. ASSUME NEW f \in Fire, Begin(f) PROVE Clean'
    BY <2>7 DEF Begin, D!Begin, List, Present
  <2>8. CASE StopWatcher \/ StopDebounce \/ CloseReturns
    BY <2>8 DEF StopWatcher, StopDebounce, D!Stop, CloseReturns, D!StopReturns
  <2>9. CASE UNCHANGED vars
    BY <2>9 DEF vars
  <2> QED BY <2>1, <2>3, <2>4, <2>5, <2>6, <2>7, <2>8, <2>9 DEF Next
<1> QED BY <1>1, <1>2, Inductive, WiredInvariant, DebouncerSound, PTL DEF Spec, Known

LEMMA FollowingInvariant == Spec => []Following
<1>1. Init => Following
  <2> SUFFICES ASSUME Init PROVE Following
    OBVIOUS
  <2>1. Busy = {Boot} /\ pc[Boot] = "read"
    BY DEF Init, Busy, Worker
  <2>2. Tracks(Boot)
    BY <2>1 DEF Init, Tracks, Worker, Present, Empty
  <2> QED BY <2>1, <2>2 DEF Following
<1>2. Following /\ Clean /\ Known /\ [Next]_vars => Following'
  <2> SUFFICES ASSUME Following, Clean, Known, [Next]_vars, Informed' PROVE Following'
    BY DEF Following
  <2>0. /\ fire \in [Fire -> {"idle", "launched", "running"}]
        /\ pc \in [Worker -> {"idle", "read", "compare", "write", "notify"}]
        /\ seen \in [Worker -> Graph] /\ dir \in Graph
        /\ todo \in [Worker -> SUBSET Asset]
        /\ events \in Nat
        /\ Fire \subseteq Worker
    BY MaxEventsAssumption
       DEF Known, DP!IInv, DP!TypeOK, IInv, Typed, Clean, Worker
  <2> USE <2>0 DEF Following, Informed, scan, served, debounce, At, Goto
  <2>1. ASSUME NEW a \in Asset, NEW c \in Content \cup {NoFile}, Edit(a, c)
        PROVE Following'
    BY <2>1 DEF Edit
  <2>3. ASSUME NEW w \in Worker, Rebuild(w) PROVE Following'
    <3>1. ASSUME pc[w] # "idle" PROVE w \in Busy
      BY <3>1 DEF Busy
    <3>2. ASSUME pc[w] # "idle", Return(w, TRUE) \/ Return(w, FALSE), UNCHANGED <<events, mishap>>
          PROVE Informed
      BY <3>2 DEF Return, D!End, Known, Wired
    <3>3. ASSUME pc[w] # "idle", Informed PROVE Tracks(w) /\ Busy = {w}
      BY <3>1, <3>3 DEF Known, IInv, Alone, Calm, Busy
    <3>4. ASSUME pc[w] # "idle", pc' = [pc EXCEPT ![w] = "idle"], Informed PROVE Busy' = {}
      BY <3>3, <3>4 DEF Busy
    <3>5. ASSUME pc[w] # "idle", Informed, NEW p \in {"compare", "write", "notify"},
                 pc' = [pc EXCEPT ![w] = p]
          PROVE Busy' = {w}
      BY <3>3, <3>5 DEF Busy
    <3>6. ASSUME NEW a \in Asset, Read(w, a) PROVE Following'
      <4>1. Informed /\ pc[w] = "read" /\ pc' = pc
        BY <3>6 DEF Read
      <4>2. Tracks(w) /\ Busy' = {w}
        BY <3>3, <4>1 DEF Busy
      <4>3. Tracks(w)'
        BY <3>6, <4>1, <4>2 DEF Read, Tracks, Present, Graph
      <4> QED BY <4>2, <4>3
    <3>7. CASE ScanFails(w)
      <4>1. /\ pc[w] = "read" /\ pc' = [pc EXCEPT ![w] = "idle"]
            /\ UNCHANGED <<dir, manifest, module, events, mishap>>
        BY <3>7 DEF ScanFails, Return
      <4>2. Informed
        BY <3>2, <3>7, <4>1 DEF ScanFails
      <4>3. Tracks(w) /\ Busy' = {}
        BY <3>3, <3>4, <4>1, <4>2
      <4>4. todo[w] = {} => seen[w] = dir
        BY <4>1, <4>3 DEF Tracks, Graph
      <4>5. ~Unclaimed(dir)
        BY <3>7, <4>1, <4>3, <4>4 DEF ScanFails, Tracks, Present
      <4> QED BY <4>1, <4>3, <4>5 DEF Unclaimed, Present
    <3>8. CASE FragmentFails(w) \/ WriteFails(w)
      BY <3>8 DEF FragmentFails, WriteFails
    <3>9. CASE Swap(w)
      <4>1. /\ Informed /\ pc[w] = "read" /\ todo[w] = {}
            /\ pc' = [pc EXCEPT ![w] = "compare"] /\ UNCHANGED <<dir, seen>>
        BY <3>9 DEF Swap, Scanned
      <4>2. Tracks(w) /\ Busy' = {w}
        BY <3>3, <3>5, <4>1
      <4>3. seen[w] = dir
        BY <4>1, <4>2 DEF Tracks, Graph
      <4> QED BY <4>1, <4>2, <4>3 DEF Tracks
    <3>10. CASE Compare(w)
      <4>1. /\ Informed /\ pc[w] = "compare"
            /\ pc' = [pc EXCEPT ![w] = "write"] /\ UNCHANGED <<dir, seen>>
        BY <3>10 DEF Compare
      <4> QED BY <3>3, <3>5, <4>1 DEF Tracks
    <3>11. CASE Write(w)
      <4>1. /\ Informed /\ pc[w] = "write" /\ module' = seen[w]
            /\ pc' = [pc EXCEPT ![w] = "notify"] /\ UNCHANGED <<dir, seen, manifest>>
        BY <3>11 DEF Write
      <4>2. manifest = seen[w]
        BY <4>1 DEF Known, IInv, Published, Calm
      <4> QED BY <3>3, <3>5, <4>1, <4>2 DEF Tracks, Current
    <3>12. CASE Notify(w)
      <4>1. /\ pc[w] = "notify" /\ pc' = [pc EXCEPT ![w] = "idle"]
            /\ UNCHANGED <<dir, manifest, module, events, mishap>>
        BY <3>12 DEF Notify, Return
      <4>2. Informed
        BY <3>2, <3>12, <4>1 DEF Notify
      <4>3. Tracks(w) /\ Busy' = {}
        BY <3>3, <3>4, <4>1, <4>2
      <4> QED BY <4>1, <4>3 DEF Tracks, Current
    <3> QED BY <2>3, <3>6, <3>7, <3>8, <3>9, <3>10, <3>11, <3>12 DEF Rebuild
  <2>4. CASE Watch \/ StartFails
    BY <2>4 DEF Watch, StartFails, Busy, Tracks, Current
  <2>5. CASE Handle
    BY <2>5 DEF Handle, D!Arm
  <2>6. ASSUME NEW f \in Fire, Expire(f) \/ GiveUp(f) PROVE Following'
    BY <2>6 DEF Expire, D!Expire, GiveUp, D!GiveUp, Clean
  <2>7. ASSUME NEW f \in Fire, Begin(f) PROVE Following'
    <3>1. /\ pc' = [pc EXCEPT ![f] = "read"]
          /\ todo' = [todo EXCEPT ![f] = Present(dir)]
          /\ UNCHANGED <<dir, seen>>
          /\ \A v \in Worker : pc[v] = "idle"
      BY <2>7 DEF Begin, List
    <3>2. Busy' = {f}
      BY <3>1 DEF Busy
    <3>3. Tracks(f)'
      BY <3>1 DEF Tracks, Present, Empty, Clean
    <3> QED BY <3>2, <3>3
  <2>8. CASE StopWatcher \/ StopDebounce \/ CloseReturns
    BY <2>8 DEF StopWatcher, StopDebounce, CloseReturns
  <2>9. CASE UNCHANGED vars
    BY <2>9 DEF vars, Busy, Tracks, Current
  <2> QED BY <2>1, <2>3, <2>4, <2>5, <2>6, <2>7, <2>8, <2>9 DEF Next
<1> QED BY <1>1, <1>2, CleanInvariant, Inductive, WiredInvariant, DebouncerSound, PTL
        DEF Spec, Known

(* When the watcher has nothing left to do the manifest and the module are   *)
(* the directory and every URL answers with the content in its hash.         *)
THEOREM SettledCurrent == Spec => []SettledIsCurrent
<1>1. Following /\ Wired /\ IInv => SettledIsCurrent
  <2> SUFFICES ASSUME Following, Wired, IInv, Settled, mishap = "none", Unclaimed(dir)
               PROVE Current /\ \A url \in URLs(manifest) : Answer(url) = url[2]
    BY DEF SettledIsCurrent
  <2>1. Busy = {}
    BY DEF Settled, Wired, Busy, Worker
  <2>2. Current
    BY <2>1 DEF Settled, Following, Informed
  <2> QED BY <2>2 DEF Current, URLs, Answer, IInv, Typed
<1> QED BY <1>1, FollowingInvariant, WiredInvariant, Inductive, PTL

(* Every reachable state is well typed, the debouncer's variables included.  *)
THEOREM TypeInvariant == Spec => []TypeOK
<1>1. Init => TypeOK
  <2> SUFFICES ASSUME Init PROVE TypeOK
    OBVIOUS
  <2>1. Empty \in Graph /\ Present(dir) \subseteq Asset
    BY DEF Empty, Graph, Present
  <2>2. D!TypeOK
    BY DEF Init, D!Init, D!TypeOK
  <2>3. \A f \in Fire : fire[f] # "running" /\ pc[f] = "idle"
    BY BootAssumption DEF Init, D!Init, Worker
  <2> QED BY <2>1, <2>2, <2>3, MaxEventsAssumption DEF Init, TypeOK
<1>2. TypeOK /\ Known /\ Known' /\ Clean' /\ [Next]_vars => TypeOK'
  <2> SUFFICES ASSUME TypeOK, Known, Known', Clean', [Next]_vars PROVE TypeOK'
    OBVIOUS
  <2>1. D!TypeOK'
    BY DEF Known, DP!IInv, DP!TypeOK, D!TypeOK
  <2>2. phase' \in {"boot", "mounted", "up", "closing", "stopping", "closed", "failed"}
    BY DEF TypeOK, Next, vars, Edit, Rebuild, Read, ScanFails, FragmentFails, Swap,
       Compare, Write, WriteFails, Notify, Return, Watch, StartFails, Handle, Expire,
       Begin, GiveUp, StopWatcher, StopDebounce, CloseReturns
  <2>3. /\ manifest' \in Graph \cup {None}
        /\ module' \in Graph \cup {None}
    <3> USE DEF TypeOK, served
    <3>1. ASSUME NEW w \in Worker, Rebuild(w) PROVE <2>3
      <4>1. ASSUME NEW a \in Asset, Read(w, a) PROVE <2>3
        BY <4>1 DEF Read
      <4>2. CASE Swap(w) \/ Compare(w) \/ Write(w)
        BY <4>2 DEF Swap, Compare, Write
      <4>3. CASE ScanFails(w) \/ FragmentFails(w) \/ WriteFails(w) \/ Notify(w)
        BY <4>3 DEF ScanFails, FragmentFails, WriteFails, Notify
      <4> QED BY <3>1, <4>1, <4>2, <4>3 DEF Rebuild
    <3> QED BY <3>1 DEF Next, vars, Edit, Watch, StartFails, Handle, Expire,
               Begin, GiveUp, StopWatcher, StopDebounce, CloseReturns
  <2> QED BY <2>1, <2>2, <2>3 DEF TypeOK, Known, IInv, Typed, Wired, Clean
<1> QED BY <1>1, <1>2, CleanInvariant, Inductive, WiredInvariant, DebouncerSound, PTL
        DEF Spec, Known

-----------------------------------------------------------------------------
(* Bundles ask nothing of the registry: what is proved of it holds beside   *)
(* any renders.                                                              *)

LEMMA RegistrySteps == BundlesSpec => Spec
<1>1. BundlesInit => Init
  BY DEF BundlesInit
<1>2. [BundlesNext]_bvars => [Next]_vars
  BY DEF BundlesNext, bvars
<1> QED BY <1>1, <1>2, PTL DEF BundlesSpec, Spec

(* A rebuild is about to have the bundle invalidated. *)
Coming == \E w \in Worker : At(w, "notify") /\ changed[w]

(* The module is written by a worker that will report it, and nothing but    *)
(* the report ends the wait for it.                                          *)
LEMMA Watchful ==
    ASSUME IInv, [Next]_vars, Calm'
    PROVE  /\ Calm
           /\ (\E w \in Worker : Reports(w)) => module' = module
           /\ ~(\E w \in Worker : Reports(w)) =>
                 (Coming \/ module' # module => Coming')
<1> USE DEF IInv, Typed, Alone, Published, Detected, Calm, Busy, At, Goto, Coming
<1> DEFINE Goal == /\ Calm
                   /\ module' = module \/ Coming'
                   /\ (\A w \in Worker : ~Reports(w)) => (Coming => Coming')
<1>1. ASSUME NEW w \in Worker, Rebuild(w) PROVE Goal
  <2>1. ASSUME NEW a \in Asset, Read(w, a) PROVE Goal
    BY <2>1 DEF Read, served
  <2>2. CASE ScanFails(w)
    BY <2>2 DEF ScanFails, Return, served
  <2>3. CASE FragmentFails(w)
    BY <2>3 DEF FragmentFails
  <2>4. CASE Swap(w) \/ Compare(w)
    BY <2>4 DEF Swap, Scanned, Compare, scan, served
  <2>5. CASE Write(w)
    BY <2>5 DEF Write, scan
  <2>6. CASE WriteFails(w)
    BY <2>6 DEF WriteFails
  <2>7. CASE Notify(w)
    BY <2>7 DEF Notify, Return, served, Reports
  <2> QED BY <1>1, <2>1, <2>2, <2>3, <2>4, <2>5, <2>6, <2>7 DEF Rebuild
<1>2. ASSUME NEW f \in Fire, Begin(f) PROVE Goal
  <2>1. /\ pc' = [pc EXCEPT ![f] = "read"] /\ UNCHANGED <<changed, module>>
        /\ mishap' = "none" \/ mishap' = mishap \/ mishap' = "overlapped"
        /\ \A v \in Worker : pc[v] = "idle"
    BY <1>2 DEF Begin, List, served
  <2> QED BY <1>2, <2>1 DEF Begin, List
<1>3. CASE (\A w \in Worker : ~Rebuild(w)) /\ (\A f \in Fire : ~Begin(f))
  <2>1. UNCHANGED <<pc, changed, module>> /\ (mishap' = mishap \/ mishap = "none")
    BY <1>3 DEF Next, vars, Edit, Watch, StartFails, Handle, Expire, GiveUp, StopWatcher,
                StopDebounce, CloseReturns, scan, served
  <2> QED BY <2>1
<1>4. Goal
  BY <1>1, <1>2, <1>3
<1>5. ASSUME NEW w \in Worker, Reports(w) PROVE module' = module
  BY <1>5 DEF Reports, Notify, served
<1> QED BY <1>4, <1>5

(* One render: while it builds there is nothing in the caches, and what it    *)
(* holds is outdated only if it is late or the report is still to come.       *)
BundlesInv ==
    /\ stage \in {"idle", "hit", "built", "put", "store"}
    /\ stage = "built" => bundle = None
    /\ indexed \in BOOLEAN /\ late \in BOOLEAN /\ overtaken \in BOOLEAN
    /\ stage \in {"put", "store"} => indexed
    /\ stage = "idle" => held = None /\ ~late
    /\ Calm /\ held \notin {None, module} => late \/ Coming
    /\ StaleBundleIsDropped

LEMMA BundlesInductive == BundlesSpec => []BundlesInv
<1>1. BundlesInit => BundlesInv
  BY DEF BundlesInit, BundlesInv, StaleBundleIsDropped
<1>2. IInv /\ BundlesInv /\ [BundlesNext]_bvars => BundlesInv'
  <2> SUFFICES ASSUME IInv, BundlesInv, [BundlesNext]_bvars PROVE BundlesInv'
    OBVIOUS
  <2>1. ASSUME Render, UNCHANGED vars PROVE BundlesInv'
    <3>1. Calm' = Calm /\ Coming' = Coming /\ module' = module /\ mishap' = mishap
      BY <2>1 DEF vars, served, Calm, Coming, At, scan
    <3>2. CASE DiskHit
      BY <3>1, <3>2 DEF DiskHit, caches, BundlesInv, StaleBundleIsDropped, Coming, Calm
    <3>3. CASE Build
      BY <3>1, <3>3 DEF Build, caches, BundlesInv, StaleBundleIsDropped, Coming, Calm
    <3>4. CASE BuildFails \/ StoreFails
      BY <3>1, <3>4 DEF BuildFails, StoreFails, Done, caches, BundlesInv, StaleBundleIsDropped, Coming, Calm
    <3>5. CASE Record
      BY <3>1, <3>5 DEF Record, caches, BundlesInv, StaleBundleIsDropped, Coming, Calm
    <3>6. CASE Put
      BY <3>1, <3>6 DEF Put, Done, BundlesInv, StaleBundleIsDropped, Coming, Calm
    <3>7. CASE Store
      BY <3>1, <3>7 DEF Store, Done, BundlesInv, StaleBundleIsDropped, Coming, Calm
    <3> QED BY <2>1, <3>2, <3>3, <3>4, <3>5, <3>6, <3>7 DEF Render
  <2>2. ASSUME Next, NEW w \in Worker, Reports(w), Invalidate PROVE BundlesInv'
    <3>1. Calm' => Calm /\ module' = module
      BY <2>2, Watchful
    <3> QED BY <2>2, <3>1 DEF Invalidate, caches, BundlesInv, StaleBundleIsDropped, Coming, Calm
  <2>3. ASSUME [Next]_vars, ~\E w \in Worker : Reports(w), UNCHANGED bundles PROVE BundlesInv'
    <3>1. Calm' => Calm /\ (Coming \/ module' # module => Coming')
      BY <2>3, Watchful
    <3>2. UNCHANGED <<bundle, indexed, stage, held, late, overtaken>>
      BY <2>3 DEF bundles, caches, render
    <3> QED BY <3>1, <3>2 DEF BundlesInv, StaleBundleIsDropped, Coming, Calm
  <2>4. CASE UNCHANGED bvars
    BY <2>4 DEF bvars, vars, bundles, caches, render, served, scan, BundlesInv,
                StaleBundleIsDropped, Coming, Calm, At
  <2> QED BY <2>1, <2>2, <2>3, <2>4 DEF BundlesNext
<1> QED BY <1>1, <1>2, RegistrySteps, Inductive, PTL DEF BundlesSpec

(* A cached bundle older than the published module is about to be dropped,   *)
(* however renders, rebuilds and invalidations interleave, but for the four  *)
(* ways the property names.                                                  *)
THEOREM StaleBundles == BundlesSpec => []StaleBundleIsDropped
<1>1. BundlesInv => StaleBundleIsDropped
  BY DEF BundlesInv
<1> QED BY <1>1, BundlesInductive, PTL

(* Outside of a rebuild's last steps what a cached bundle names resolves.    *)
THEOREM BundlesResolve == BundlesSpec => []NoDanglingURL
<1>1. IInv /\ BundlesInv => NoDanglingURL
  BY DEF IInv, Published, BundlesInv, StaleBundleIsDropped, NoDanglingURL, Calm, At
<1> QED BY <1>1, RegistrySteps, Inductive, BundlesInductive, PTL

(* The registry starts with a module written: a rebuild that has not written  *)
(* one fails the start.                                                       *)
Wrote == module = None => phase \in {"boot", "failed"} /\ \A w \in Worker : pc[w] # "notify"

LEMMA WroteInvariant == Spec => []Wrote
<1>1. Init => Wrote
  BY DEF Init, Wrote
<1>2. IInv /\ Wrote /\ [Next]_vars => Wrote'
  <2> SUFFICES ASSUME IInv, Wrote, [Next]_vars PROVE Wrote'
    OBVIOUS
  <2> USE NoneAssumption DEF IInv, Typed, Wrote, At, Goto
  <2>1. ASSUME NEW w \in Worker, Rebuild(w) PROVE Wrote'
    <3>1. ASSUME NEW a \in Asset, Read(w, a) PROVE Wrote'
      BY <3>1 DEF Read, served
    <3>2. CASE ScanFails(w) \/ FragmentFails(w)
      BY <3>2 DEF ScanFails, FragmentFails, Return, served
    <3>3. CASE Swap(w) \/ Compare(w)
      BY <3>3 DEF Swap, Compare, served
    <3>4. CASE Write(w)
      BY <3>4 DEF Write
    <3>5. CASE WriteFails(w)
      BY <3>5 DEF WriteFails, Return
    <3>6. CASE Notify(w)
      BY <3>6 DEF Notify, Return, served
    <3> QED BY <2>1, <3>1, <3>2, <3>3, <3>4, <3>5, <3>6 DEF Rebuild
  <2>2. ASSUME NEW f \in Fire, Begin(f) PROVE Wrote'
    BY <2>2 DEF Begin, List, served
  <2>3. CASE (\A w \in Worker : ~Rebuild(w)) /\ (\A f \in Fire : ~Begin(f))
    <3>1. /\ UNCHANGED <<pc, module>>
          /\ phase \in {"boot", "failed"} => phase' \in {"boot", "failed"}
      BY <2>3 DEF Next, vars, Edit, Watch, StartFails, Handle, Expire, GiveUp, StopWatcher,
                  StopDebounce, CloseReturns, scan, served
    <3> QED BY <3>1
  <2> QED BY <2>1, <2>2, <2>3
<1> QED BY <1>1, <1>2, Inductive, PTL DEF Spec

(* The caches and the render are well typed too: what a render holds is a    *)
(* graph, and it builds only what memory does not have.                      *)
THEOREM BundlesTypes == BundlesSpec => []BundlesTypeOK
<1>1. BundlesInit /\ TypeOK => BundlesTypeOK
  BY DEF BundlesInit, BundlesTypeOK
<1>2. BundlesTypeOK /\ TypeOK' /\ Wrote /\ BundlesInv' /\ [BundlesNext]_bvars => BundlesTypeOK'
  <2> SUFFICES ASSUME BundlesTypeOK, TypeOK', Wrote, BundlesInv', [BundlesNext]_bvars
               PROVE BundlesTypeOK'
    OBVIOUS
  <2> DEFINE Holds == /\ bundle' \in Graph \cup {None}
                      /\ former' \in Graph \cup {None}
                      /\ held' \in Graph \cup {None}
                      /\ stage' = "idle" <=> held' = None
  <2>1. ASSUME Render PROVE Holds
    <3> USE NoneAssumption DEF BundlesTypeOK, caches
    <3>1. CASE DiskHit
      BY <3>1 DEF DiskHit
    <3>2. CASE Build
      BY <3>2 DEF Build, TypeOK, Wrote, Started
    <3>3. CASE BuildFails \/ Record \/ StoreFails
      BY <3>3 DEF BuildFails, Record, StoreFails, Done
    <3>4. CASE Put \/ Store
      BY <3>4 DEF Put, Store, Done
    <3> QED BY <2>1, <3>1, <3>2, <3>3, <3>4 DEF Render
  <2>2. ASSUME Invalidate PROVE Holds
    BY <2>2 DEF Invalidate, caches, BundlesTypeOK
  <2>3. ASSUME UNCHANGED <<bundle, former, stage, held>> PROVE Holds
    BY <2>3 DEF BundlesTypeOK
  <2>4. Render \/ Invalidate \/ UNCHANGED bundles
    BY DEF BundlesNext, bvars
  <2>5. Holds
    BY <2>1, <2>2, <2>3, <2>4 DEF bundles, caches, render
  <2> QED BY <2>5 DEF BundlesTypeOK, BundlesInv
<1> QED BY <1>1, <1>2, RegistrySteps, TypeInvariant, WroteInvariant, BundlesInductive, PTL
        DEF BundlesSpec
=============================================================================
