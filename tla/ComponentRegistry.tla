------------------------- MODULE ComponentRegistry -------------------------
(***************************************************************************)
(* The registry of components over the directory watcher that keeps it     *)
(* current: the map from names to files, the callbacks that change it,     *)
(* Reload and Adopt, which anyone calls at any time, and Close.            *)
(*                                                                         *)
(* A step of a callback is one critical section of the registry, or the    *)
(* call of onTouch or onDrop, whose effect on what was rendered is         *)
(* ComponentCaches'.                                                       *)
(***************************************************************************)
EXTENDS DirectoryWatcher

CONSTANTS
    Name,            \* names of components
    None,            \* no name, no file
    NameOf,          \* the name a file's path gives, None if not eligible
    Inline,          \* the name of a component adopted from memory
    InlinePath       \* where it is held, outside the tree

ASSUME NameAssumption ==
    /\ None \notin Name \cup Path /\ Inline \in Name /\ InlinePath \notin Path
    /\ NameOf \in [File -> (Name \ {Inline}) \cup {None}]

VARIABLES
    components,       \* the map: where each name was found
    step,             \* how far the running callback is
    reloading, todo, found,  \* the running Reload: what is unlisted, what it has
    mu,               \* what Close does with the lock
    adopted, upset    \* history: Adopt since Reload; how the map was led astray

rvars == <<components, step, reloading, todo, found, mu, adopted, upset>>
reload == <<reloading, todo, found>>
vars == <<wvars, rvars>>

Source == File \cup {InlinePath, None}
Nothing == [n \in Name |-> None]

RegistryTypeOK ==
    /\ TypeOK
    /\ components \in [Name -> Source]
    /\ step \in {"start", "notify", "done"}
    /\ reloading \in BOOLEAN
    /\ todo \subseteq Dir
    /\ found \in [Name -> File \cup {None}]
    /\ mu \in {"free", "closing"}
    /\ adopted \in BOOLEAN
    /\ upset \subseteq {"clash", "raced", "ahead", "dropped"}
    /\ step # "start" => calling # NoCall
    /\ ~reloading => todo = {} /\ found = Nothing

Named(fs, n) == {f \in fs : NameOf[f] = n}
Unambiguous(fs) == \A f, g \in fs : NameOf[f] = NameOf[g] => f = g \/ NameOf[f] = None
MapOf(fs) == [n \in Name |-> IF \E f \in fs : NameOf[f] = n
                             THEN CHOOSE f \in fs : NameOf[f] = n ELSE None]

(* NewRegistry has loaded the tree: it refuses one with two files of a name. *)
RegistryInit ==
    /\ Init /\ Unambiguous(files)
    /\ components = MapOf(files)
    /\ step = "start"
    /\ reloading = FALSE /\ todo = {} /\ found = Nothing
    /\ mu = "free"
    /\ adopted = FALSE /\ upset = {}

-----------------------------------------------------------------------------
(* The callbacks.  AddFile and RemoveFile run under the lock. *)

Eligible == calling.path \in File /\ NameOf[calling.path] # None
CalledName == NameOf[calling.path]

Applying(op) == calling.op = op /\ step = "start" /\ mu = "free"
WhileReloading == IF reloading THEN {"raced"} ELSE {}

Taken(n, path) == components[n] \notin {None, path}

AddFile ==
    /\ Applying("create") /\ Eligible /\ ~Taken(CalledName, calling.path)
    /\ components' = [components EXCEPT ![CalledName] = calling.path]
    /\ upset' = upset \cup WhileReloading
    /\ step' = "notify"
    /\ UNCHANGED <<wvars, reload, mu, adopted>>

(* A duplicate is refused with an error; the callback goes on to onTouch. *)
AddRefused ==
    /\ Applying("create") /\ Eligible /\ Taken(CalledName, calling.path)
    /\ upset' = upset \cup {"clash"}
    /\ step' = "notify"
    /\ UNCHANGED <<wvars, components, reload, mu, adopted>>

Ignored ==
    /\ step = "start"
    /\ calling.op = "write" \/ (calling.op = "create" /\ ~Eligible)
    /\ step' = "notify"
    /\ UNCHANGED <<wvars, components, reload, mu, adopted, upset>>

(* Mutant: the name is reported and stays in the map. *)
RemoveForgets ==
    /\ Applying("remove") /\ Eligible /\ components[CalledName] # None
    /\ step' = "notify"
    /\ UNCHANGED <<wvars, components, reload, mu, adopted, upset>>

(* RemoveFile takes the name, whichever file it stands for. *)
RemoveFile ==
    /\ Applying("remove") /\ Eligible /\ components[CalledName] # None
    /\ components' = [components EXCEPT ![CalledName] = None]
    /\ upset' = upset \cup WhileReloading
           \cup (IF Taken(CalledName, calling.path) THEN {"clash"} ELSE {})
    /\ step' = "notify"
    /\ UNCHANGED <<wvars, reload, mu, adopted>>

RemoveNothing ==
    /\ Applying("remove") /\ (Eligible => components[CalledName] = None)
    /\ upset' = upset \cup (IF Eligible THEN WhileReloading ELSE {})
    /\ step' = "done"
    /\ UNCHANGED <<wvars, components, reload, mu, adopted>>

(* onTouch asks the registry for the file's name, under its lock. *)
OnTouch ==
    /\ calling.op \in {"create", "write"} /\ step = "notify" /\ mu = "free"
    /\ step' = "done"
    /\ UNCHANGED <<wvars, components, reload, mu, adopted, upset>>

OnDrop ==
    /\ calling.op = "remove" /\ step = "notify"
    /\ step' = "done"
    /\ UNCHANGED <<wvars, components, reload, mu, adopted, upset>>

Returned ==
    /\ step = "done"
    /\ Return
    /\ step' = "start"
    /\ UNCHANGED <<components, reload, mu, adopted, upset>>

-----------------------------------------------------------------------------
(* What anyone calls.  Reload reads the tree without the lock and takes it to *)
(* install what it found.                                                     *)

Reload ==
    /\ ~reloading /\ phase = "up"
    /\ reloading' = TRUE /\ todo' = {Root}
    /\ UNCHANGED <<wvars, components, step, found, mu, adopted, upset>>

Here(d) == Inside(d) \cap files
Ambiguous(d) ==
    \E f \in Here(d) : NameOf[f] # None /\
        (found[NameOf[f]] # None \/ \E g \in Here(d) \ {f} : NameOf[g] = NameOf[f])

(* In a directory without a watch it is ahead of the watcher, which will hear   *)
(* nothing of a file that leaves before the watch is there.                       *)
ReloadLists(d) ==
    /\ d \in todo \cap dirs /\ ~Ambiguous(d)
    /\ found' = [n \in Name |-> IF Named(Here(d), n) # {} THEN MapOf(Here(d))[n] ELSE found[n]]
    /\ todo' = (todo \ {d}) \cup (Inside(d) \cap dirs)
    /\ upset' = upset \cup (IF d \in watched THEN {} ELSE {"ahead"})
    /\ UNCHANGED <<wvars, components, step, reloading, mu, adopted>>

(* A directory that vanished or two files of one name end Reload with an error. *)
ReloadFails(d) ==
    /\ d \in todo /\ (d \in dirs => Ambiguous(d))
    /\ reloading' = FALSE /\ todo' = {} /\ found' = Nothing
    /\ UNCHANGED <<wvars, components, step, mu, adopted, upset>>

(* The map is replaced, and what was adopted goes with it. *)
ReloadInstalls ==
    /\ reloading /\ todo = {} /\ mu = "free"
    /\ components' = found
    /\ reloading' = FALSE /\ found' = Nothing
    /\ adopted' = FALSE
    /\ upset' = upset \cup (IF \E n \in Name \ {Inline} : components[n] # None /\ found[n] = None
                          THEN {"dropped"} ELSE {})
    /\ UNCHANGED <<wvars, step, todo, mu>>

Adopt ==
    /\ phase = "up" /\ mu = "free" /\ ~Taken(Inline, InlinePath)
    /\ components' = [components EXCEPT ![Inline] = InlinePath]
    /\ adopted' = TRUE
    /\ UNCHANGED <<wvars, step, reload, mu, upset>>

(* Close takes the watcher out under the lock and stops it without. *)
Close ==
    /\ phase = "up" /\ mu = "free"
    /\ mu' = "closing"
    /\ UNCHANGED <<wvars, components, step, reload, adopted, upset>>

(* Mutant: the lock is given back when the watcher has stopped. *)
CloseStopsLocked ==
    /\ mu = "closing"
    /\ Stop
    /\ UNCHANGED rvars

CloseStops ==
    /\ mu = "closing"
    /\ Stop
    /\ mu' = "free"
    /\ UNCHANGED <<components, step, reload, adopted, upset>>

Edit(f) == (CreateFile(f) \/ WriteFile(f) \/ DeleteFile(f)) /\ UNCHANGED rvars
EditDir(d) == (MakeDir(d) \/ RemoveDir(d) \/ MoveOut(d)) /\ UNCHANGED rvars

Update == AddFile \/ AddRefused \/ Ignored \/ RemoveFile \/ RemoveNothing \/ Returned
Callback == Update \/ OnTouch \/ OnDrop

(* The steps no cache takes notice of. *)
Onward ==
    \/ Step /\ UNCHANGED rvars
    \/ Update
    \/ Reload \/ ReloadInstalls
    \/ \E d \in Dir : ReloadLists(d) \/ ReloadFails(d)
    \/ Adopt
    \/ Close \/ CloseStops
    \/ LoopEnds /\ UNCHANGED rvars

RegistryNext ==
    \/ \E f \in File : Edit(f)
    \/ \E d \in Dir \ {Root} : EditDir(d)
    \/ OnTouch \/ OnDrop
    \/ Onward

(* The watcher's goroutine runs on, its callbacks get the lock, Close goes on.  *)
(* Go's select picks at random among what is ready, so a closed stopCh is seen  *)
(* however many events there are: strong fairness.                             *)
RegistryFairness ==
    /\ WF_vars(Step /\ UNCHANGED rvars) /\ WF_vars(Callback)
    /\ WF_vars(CloseStops) /\ SF_vars(LoopEnds /\ UNCHANGED rvars)

RegistrySpec == RegistryInit /\ [][RegistryNext]_vars /\ RegistryFairness

-----------------------------------------------------------------------------
(* Properties. *)

(* No change went unreported, no two files had one name, no event was handled   *)
(* while a Reload walked, and none walked where the watcher had not been.        *)
Faultless == mishap = {} /\ upset \subseteq {"dropped"}
Calm == AtRest /\ ~reloading /\ Faultless

(* With every event handled the map is the tree, and what was adopted since    *)
(* Reload last replaced it, however Reload, Adopt and the callbacks interleave. *)
SettledIsTree ==
    Calm => components = [MapOf(files) EXCEPT ![Inline] = IF adopted THEN InlinePath ELSE None]

(* Close returns although the callback it waits for needs the registry's lock. *)
CloseEnds == mu = "closing" ~> phase = "stopped"
=============================================================================
