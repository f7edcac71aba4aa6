-------------------------- MODULE DirectoryWatcher --------------------------
(***************************************************************************)
(* The recursive watch of a directory tree: the kernel's watches and its   *)
(* bounded event queue, the goroutine that walks what is new and calls the *)
(* callbacks, and the tree, which anyone changes at any time.              *)
(*                                                                         *)
(* A step is one change of the tree, one directory watched or listed, or   *)
(* one callback begun or returned.  The order in which a walk visits what  *)
(* it listed is left open.  Directories whose name is skipped are simply   *)
(* not in Dir.                                                             *)
(***************************************************************************)
EXTENDS Naturals, Sequences

CONSTANTS
    Dir,         \* directories that may exist, Root among them
    File,        \* files that may exist
    Root,        \* the watched root, which stays
    Above,       \* the directory of each file and of each directory but Root
    QueueSize    \* how many events the kernel holds before it drops one

ASSUME RootAssumption == Root \in Dir
ASSUME AboveAssumption == Above \in [File \cup (Dir \ {Root}) -> Dir]
ASSUME TreeAssumption ==  \* every directory is below Root
    \A ds \in SUBSET (Dir \ {Root}) : ds # {} => \E d \in ds : Above[d] \notin ds
ASSUME DisjointAssumption == File \cap Dir = {}
ASSUME QueueAssumption == QueueSize \in Nat \ {0}

Path == File \cup Dir
Event == [op : {"create", "remove", "write"}, path : Path]
NoCall == [op |-> "none", path |-> Root]

VARIABLES
    dirs, files,  \* the tree: the directories and files that exist
    watched,      \* directories the kernel reports about
    queue,        \* events the loop has yet to receive
    walk,         \* what addTree has still to visit or to list
    calling,      \* the callback the loop is in
    phase,        \* of the watcher, from NewDirectoryWatcher to Stop
    known,        \* history: the files callbacks last reported present
    mishap        \* history: the ways in which a change went unreported

tree == <<dirs, files>>
loop == <<walk, calling>>
wvars == <<dirs, files, watched, queue, walk, calling, phase, known, mishap>>

Mishap == {"blind", "overflow", "abandoned", "moved", "remade"}
Phase == {"boot", "failed", "up", "stopping", "stopped"}

TypeOK ==
    /\ dirs \subseteq Dir
    /\ files \subseteq File
    /\ watched \subseteq Dir
    /\ queue \in Seq(Event)
    /\ Len(queue) <= QueueSize
    /\ walk \subseteq {"visit", "list"} \X Path
    /\ calling \in Event \cup {NoCall}
    /\ phase \in Phase
    /\ known \subseteq File
    /\ mishap \subseteq Mishap

(* The files that could be there beside these directories. *)
FilesWithin(ds) == {f \in File : Above[f] \in ds}
Closed(ds) == Root \in ds /\ \A d \in ds \ {Root} : Above[d] \in ds

(* The owner of the watcher has read the tree before it asks for the watch. *)
Init ==
    /\ dirs \in {ds \in SUBSET Dir : Closed(ds)}
    /\ files \in SUBSET FilesWithin(dirs)
    /\ watched = {}
    /\ queue = <<>>
    /\ walk = {<<"visit", Root>>}
    /\ calling = NoCall
    /\ phase = "boot"
    /\ known = files
    /\ mishap = {}

-----------------------------------------------------------------------------
(* The tree and the kernel.  A change in a directory without a watch is found *)
(* by the walk that is on its way there, unless that walk is the silent one    *)
(* of the start.                                                               *)

(* Mutant: the queue is taken to be without end. *)
FitsAlways(p) == Above[p] \in watched

Fits(p) == Above[p] \in watched /\ Len(queue) < QueueSize

Report(op, p) ==
    queue' = IF Fits(p) THEN Append(queue, [op |-> op, path |-> p]) ELSE queue

(* What of a change of p goes unreported, beside losses that are its own. *)
Missed(p, losses) ==
    mishap' = mishap \cup losses
        \cup (IF Above[p] \notin watched /\ phase = "boot" THEN {"blind"} ELSE {})
        \cup (IF Above[p] \in watched /\ ~Fits(p) THEN {"overflow"} ELSE {})

Live == phase \in {"boot", "up", "stopping"}

CreateFile(f) ==
    /\ Live /\ f \notin files /\ Above[f] \in dirs
    /\ files' = files \cup {f}
    /\ Report("create", f) /\ Missed(f, {})
    /\ UNCHANGED <<dirs, watched, loop, phase, known>>

WriteFile(f) ==
    /\ Live /\ f \in files
    /\ Report("write", f) /\ Missed(f, {})
    /\ UNCHANGED <<tree, watched, loop, phase, known>>

DeleteFile(f) ==
    /\ Live /\ f \in files
    /\ files' = files \ {f}
    /\ Report("remove", f) /\ Missed(f, {})
    /\ UNCHANGED <<dirs, watched, loop, phase, known>>

MakeDir(d) ==
    /\ Live /\ d \notin dirs /\ Above[d] \in dirs
    /\ dirs' = dirs \cup {d}
    /\ Report("create", d) /\ Missed(d, {})
    /\ UNCHANGED <<files, watched, loop, phase, known>>

Inside(d) == {p \in (File \cup Dir) \ {Root} : Above[p] = d}

(* The kernel drops the watch of a directory with the directory. *)
RemoveDir(d) ==
    /\ Live /\ d \in dirs \ {Root} /\ Inside(d) \cap (dirs \cup files) = {}
    /\ dirs' = dirs \ {d}
    /\ watched' = watched \ {d}
    /\ Report("remove", d) /\ Missed(d, {})
    /\ UNCHANGED <<files, loop, phase, known>>

(* A directory is moved out of the tree with the files in it: its own name is *)
(* all the kernel reports.                                                     *)
MoveOut(d) ==
    /\ Live /\ d \in dirs \ {Root}
    /\ Inside(d) \cap files # {} /\ Inside(d) \cap dirs = {}
    /\ dirs' = dirs \ {d}
    /\ files' = files \ Inside(d)
    /\ watched' = watched \ {d}
    /\ Report("remove", d) /\ Missed(d, {"moved"})
    /\ UNCHANGED <<loop, phase, known>>

-----------------------------------------------------------------------------
(* addTree: a directory is watched, then listed, then its entries visited. *)

Idle == walk = {} /\ calling = NoCall

(* An error anywhere ends the walk.  At the start it fails the constructor. *)
Abandon(task) ==
    /\ walk' = {}
    /\ phase' = IF phase = "boot" THEN "failed" ELSE phase
    /\ mishap' = mishap \cup (IF walk # {task} THEN {"abandoned"} ELSE {})
    /\ UNCHANGED <<tree, watched, queue, calling, known>>

(* The walk goes on within d.  Had d been made anew beneath it, d has no watch  *)
(* until the event of that is handled, and what changes in it meanwhile is       *)
(* reported in no order with what the walk announces.                            *)
Within(d) ==
    mishap' = IF d \in watched THEN mishap ELSE mishap \cup {"remade"}

Watch(d) ==
    /\ <<"visit", d>> \in walk /\ calling = NoCall /\ d \in dirs
    /\ watched' = watched \cup {d}
    /\ walk' = (walk \ {<<"visit", d>>}) \cup {<<"list", d>>}
    /\ IF d = Root THEN UNCHANGED mishap ELSE Within(Above[d])
    /\ UNCHANGED <<tree, queue, calling, phase, known>>

WatchFails(d) ==
    /\ <<"visit", d>> \in walk /\ calling = NoCall /\ d \notin dirs
    /\ Abandon(<<"visit", d>>)

(* Mutant: the files a new directory arrived with are left to the events. *)
ListDirs(d) ==
    /\ <<"list", d>> \in walk /\ calling = NoCall /\ d \in dirs
    /\ walk' = (walk \ {<<"list", d>>}) \cup {<<"visit", p>> : p \in Inside(d) \cap dirs}
    /\ UNCHANGED <<tree, watched, queue, calling, phase, known, mishap>>

(* Mutant: a new directory's files are announced, its directories forgotten. *)
ListFiles(d) ==
    /\ <<"list", d>> \in walk /\ calling = NoCall /\ d \in dirs
    /\ walk' = (walk \ {<<"list", d>>}) \cup {<<"visit", p>> : p \in Inside(d) \cap files}
    /\ UNCHANGED <<tree, watched, queue, calling, phase, known, mishap>>

(* The walk of the start is silent: it has no use for files. *)
List(d) ==
    /\ <<"list", d>> \in walk /\ calling = NoCall /\ d \in dirs
    /\ walk' = (walk \ {<<"list", d>>}) \cup
         {<<"visit", p>> : p \in Inside(d) \cap (dirs \cup (IF phase = "boot" THEN {} ELSE files))}
    /\ Within(d)
    /\ UNCHANGED <<tree, watched, queue, calling, phase, known>>

ListFails(d) ==
    /\ <<"list", d>> \in walk /\ calling = NoCall /\ d \notin dirs
    /\ Abandon(<<"list", d>>)

(* announceCreation, whether or not the file is still there. *)
Announce(f) ==
    /\ <<"visit", f>> \in walk /\ calling = NoCall
    /\ walk' = walk \ {<<"visit", f>>}
    /\ calling' = [op |-> "create", path |-> f]
    /\ UNCHANGED <<tree, watched, queue, phase, known, mishap>>

Started ==
    /\ phase = "boot" /\ Idle
    /\ phase' = "up"
    /\ UNCHANGED <<tree, watched, queue, loop, known, mishap>>

-----------------------------------------------------------------------------
(* The loop.  Once stopCh is closed, its select may still receive events. *)

Receiving == phase \in {"up", "stopping"} /\ Idle /\ queue # <<>>

IsNewDir(e) == e.op = "create" /\ e.path \in dirs

HandleDir ==
    /\ Receiving /\ IsNewDir(Head(queue))
    /\ queue' = Tail(queue)
    /\ walk' = {<<"visit", Head(queue).path>>}
    /\ UNCHANGED <<tree, watched, calling, phase, known, mishap>>

HandleFile ==
    /\ Receiving /\ ~IsNewDir(Head(queue))
    /\ queue' = Tail(queue)
    /\ calling' = Head(queue)
    /\ UNCHANGED <<tree, watched, walk, phase, known, mishap>>

(* The callback returns. *)
Return ==
    /\ calling # NoCall
    /\ known' = CASE calling.op = "create" -> known \cup ({calling.path} \cap File)
                  [] calling.op = "remove" -> known \ {calling.path}
                  [] OTHER -> known
    /\ calling' = NoCall
    /\ UNCHANGED <<tree, watched, queue, walk, phase, mishap>>

(* Stop closes stopCh and waits for the loop. *)
Stop ==
    /\ phase = "up"
    /\ phase' = "stopping"
    /\ UNCHANGED <<tree, watched, queue, loop, known, mishap>>

(* Mutant: Stop does not wait for the callback that runs. *)
LoopEndsAnywhere ==
    /\ phase = "stopping"
    /\ phase' = "stopped"
    /\ watched' = {} /\ queue' = <<>>
    /\ UNCHANGED <<tree, loop, known, mishap>>

LoopEnds ==
    /\ phase = "stopping" /\ Idle
    /\ phase' = "stopped"
    /\ watched' = {} /\ queue' = <<>>
    /\ UNCHANGED <<tree, loop, known, mishap>>

Step ==
    \/ \E d \in Dir : Watch(d) \/ WatchFails(d) \/ List(d) \/ ListFails(d)
    \/ \E f \in File : Announce(f)
    \/ Started \/ HandleDir \/ HandleFile

Next ==
    \/ \E f \in File : CreateFile(f) \/ WriteFile(f) \/ DeleteFile(f)
    \/ \E d \in Dir \ {Root} : MakeDir(d) \/ RemoveDir(d) \/ MoveOut(d)
    \/ Step \/ Return
    \/ Stop \/ LoopEnds

Spec == Init /\ [][Next]_wvars

-----------------------------------------------------------------------------
(* Properties. *)

AtRest == phase = "up" /\ Idle /\ queue = <<>>

(* With every event handled, the files reported created and not removed are the *)
(* files there are, whatever directories came with files in them, vanished or   *)
(* came back while they were walked; but for the mishaps this module names.     *)
SettledIsKnown == AtRest /\ mishap = {} => known = files

(* At rest a directory goes unwatched only by an event lost to a full queue or  *)
(* a walk given up: addTree reaches every directory that appears, however deep  *)
(* and whenever.                                                                *)
SettledIsWatched == AtRest /\ mishap \cap {"overflow", "abandoned"} = {} => dirs = watched

(* Once Stop has returned no callback runs and none begins. *)
QuietOnceStopped == [][phase = "stopped" => calling' = NoCall]_wvars
=============================================================================
