---------------------------- MODULE SourceCaches ----------------------------
(***************************************************************************)
(* What the library remembers of a component's text: the parsed files of   *)
(* the extractor, the props type in memory and on disk, and the program    *)
(* first paint is written from.  Each layer is valid by a stamp or a       *)
(* digest taken at some moment around the read.                            *)
(*                                                                         *)
(* A step is one call on the filesystem or one section under a lock.       *)
(* Preparers are the goroutines of concurrent renders.  A text either      *)
(* declares the props type itself or imports it from the first candidate   *)
(* that exists; chains of imports are cut after the first.  A stamp is the *)
(* number of the edit that left it: equal stamps mean equal text, as       *)
(* sources.go has it.                                                      *)
(***************************************************************************)
EXTENDS Naturals, SequencesExt

CONSTANTS
    Preparer, Component,
    Named,          \* components registered under their own name, no '#export'
    Root,           \* the file the components are declared in
    Candidate,      \* sequence of files its import may name, in order
    Text, Importing,\* contents; those that import the type
    None,
    MaxEdits, MaxRestarts  \* bounds

ASSUME SourceAssumption ==
    /\ Named \subseteq Component /\ Importing \subseteq Text
    /\ Candidate \in Seq(Range(Candidate))
    /\ Root \notin Range(Candidate) /\ None \notin Text \cup {Root} \cup Range(Candidate)
    /\ MaxEdits \in Nat /\ MaxRestarts \in Nat

VARIABLES
    files,      \* text and stamp of each; no text: there is no such file
    parsed,     \* Extractor.files
    mem, disk,  \* Cache.mem, and the entries under its root
    programs,   \* of the server renderer
    job,        \* what each preparer is at
    edits, restarts,
    still, upset  \* history: calls during which no file changed; what went
                  \* by between a read and the mark that vouches for it

caches == <<parsed, mem, disk, programs>>
environment == <<files, edits, restarts>>
vars == <<files, parsed, mem, disk, programs, job, edits, restarts, still, upset>>

File == {Root} \cup Range(Candidate)
Stamp == 0 .. MaxEdits
Extraction == [root : Text, from : Range(Candidate) \cup {None}, type : Text \cup {None}]
Mishap == {"overtaken", "appeared", "vanished"}

Exists(f) == files[f].text # None

(* The files an extraction was read from, and what it read there. *)
Sources(x) == {Root} \cup ({x.from} \ {None})
ReadIn(x, f) == IF f = Root THEN x.root ELSE x.type

(* What an extraction made of files that stand still would be. *)
Resolved(fs) ==
    LET there == {i \in DOMAIN Candidate : fs[Candidate[i]].text # None} IN
    IF there = {} THEN None ELSE Candidate[CHOOSE i \in there : \A j \in there : i <= j]
Extract(fs) ==
    LET t == fs[Root].text
        from == IF t \in Importing THEN Resolved(fs) ELSE None
    IN  IF t = None THEN None
        ELSE [root |-> t, from |-> from, type |-> IF from = None THEN None ELSE fs[from].text]

Idle == [stage |-> "idle", comp |-> None, file |-> None, seen |-> 0, text |-> None,
         entry |-> None, todo |-> {}, got |-> <<>>, tried |-> 0, fromDisk |-> FALSE]
Stage ==
    {"idle", "painted", "answered", "program", "analyze", "analyzed", "stamps", "disk",
     "digests", "remember", "record", "file", "parsed", "read", "keep", "resolve"}

TypeOK ==
    /\ files \in [File -> [text : Text \cup {None}, stamp : Stamp]]
    /\ parsed \in [File -> [text : Text, stamp : Stamp] \cup {None}]
    /\ DOMAIN mem = Component /\ DOMAIN disk = Component
    /\ \A k \in Component :
          /\ mem[k] # None => mem[k].extraction \in Extraction
                              /\ mem[k].stamps \in [Sources(mem[k].extraction) -> Stamp]
          /\ disk[k] # None => disk[k] \in Extraction
    /\ programs \in [Component -> [text : Text \cup {None}, stamp : Stamp] \cup {None}]
    /\ \A p \in Preparer : job[p].stage \in Stage /\ job[p].comp \in Component \cup {None}
    /\ edits \in 0 .. MaxEdits /\ restarts \in 0 .. MaxRestarts
    /\ still \in [Preparer -> BOOLEAN] /\ upset \subseteq Mishap

Init ==
    /\ \E fs \in [File -> Text \cup {None}] :
          fs[Root] # None /\ files = [f \in File |-> [text |-> fs[f], stamp |-> 0]]
    /\ parsed = [f \in File |-> None]
    /\ mem = [k \in Component |-> None] /\ disk = mem /\ programs = mem
    /\ job = [p \in Preparer |-> Idle]
    /\ edits = 0 /\ restarts = 0
    /\ still = [p \in Preparer |-> TRUE] /\ upset = {}

-----------------------------------------------------------------------------
(* The developer, the registry's invalidation, and the process. *)

(* Something was extracted, or is being, that a new file may have to change. *)
Known == disk # [k \in Component |-> None] \/ mem # [k \in Component |-> None]
         \/ \E p \in Preparer : job[p].stage # "idle"

Edit(f, t) ==
    /\ edits < MaxEdits /\ t # files[f].text
    /\ edits' = edits + 1
    /\ files' = [files EXCEPT ![f] = [text |-> t, stamp |-> edits + 1]]
    /\ still' = [p \in Preparer |-> job[p].stage = "idle"]
    /\ upset' = IF ~Exists(f) /\ Resolved(files') = f /\ Known
                THEN upset \cup {"appeared"} ELSE upset
    /\ UNCHANGED <<caches, job, restarts>>

(* The entry on disk stays, and is found again. *)
Invalidate(k) ==
    /\ mem' = [mem EXCEPT ![k] = None] /\ programs' = [programs EXCEPT ![k] = None]
    /\ UNCHANGED <<parsed, disk, job, environment, still, upset>>

(* A new process, and OnBoot's Prune: selections are nobody's name. *)
Restart ==
    /\ restarts < MaxRestarts /\ restarts' = restarts + 1
    /\ disk' = [k \in Component |-> IF k \in Named THEN disk[k] ELSE None]
    /\ parsed' = [f \in File |-> None]
    /\ mem' = [k \in Component |-> None] /\ programs' = mem'
    /\ job' = [p \in Preparer |-> Idle] /\ still' = [p \in Preparer |-> TRUE]
    /\ UNCHANGED <<files, edits, upset>>

-----------------------------------------------------------------------------
(* The stages of one preparer. *)

At(p, stage) == job[p].stage = stage
Becomes(p, j) == job' = [job EXCEPT ![p] = j]
Goes(p, stage) == Becomes(p, [job[p] EXCEPT !.stage = stage])
Undisturbed == UNCHANGED <<environment, still, upset>>

(* What a stage leaves behind for the next. *)
Enters(p, stage) == [Idle EXCEPT !.stage = stage, !.comp = job[p].comp]
Marking(p, x, stage) == [Enters(p, stage) EXCEPT !.entry = x, !.todo = Sources(x)]
Reading(p, f, x) == [Enters(p, "file") EXCEPT !.file = f, !.entry = x]
Answering(p, x) == [Enters(p, "answered") EXCEPT !.entry = x]
Painted(p, t) == [Enters(p, "painted") EXCEPT !.text = t]

End(p) ==
    /\ At(p, "answered") \/ At(p, "painted")
    /\ Becomes(p, Idle) /\ still' = [still EXCEPT ![p] = TRUE]
    /\ UNCHANGED <<environment, caches, upset>>

(* programs.get, for Markup and for OnPrepare when Strict. *)
SsrStamp(p, k) ==
    /\ At(p, "idle")
    /\ Becomes(p, IF Exists(Root)
                  THEN [Idle EXCEPT !.stage = "program", !.comp = k, !.seen = files[Root].stamp]
                  ELSE [Idle EXCEPT !.stage = "painted", !.comp = k])
    /\ UNCHANGED caches /\ Undisturbed

SsrLook(p) ==
    /\ At(p, "program")
    /\ LET hit == programs[job[p].comp] IN
       IF hit # None /\ hit.stamp = job[p].seen
       THEN Becomes(p, Painted(p, hit.text))
       ELSE Goes(p, "analyze")
    /\ UNCHANGED caches /\ Undisturbed

(* An analysis that failed is remembered as well. *)
SsrRead(p) ==
    /\ At(p, "analyze")
    /\ Becomes(p, [job[p] EXCEPT !.stage = "analyzed", !.text = files[Root].text])
    /\ UNCHANGED caches /\ Undisturbed

(* Mutant: the stamp is taken when the program is stored. *)
SsrStoreLate(p) ==
    /\ At(p, "analyzed")
    /\ programs' = [programs EXCEPT ![job[p].comp] = [text |-> job[p].text, stamp |-> files[Root].stamp]]
    /\ Becomes(p, Painted(p, job[p].text))
    /\ UNCHANGED <<parsed, mem, disk>> /\ Undisturbed

SsrStore(p) ==
    /\ At(p, "analyzed")
    /\ programs' = [programs EXCEPT ![job[p].comp] = [text |-> job[p].text, stamp |-> job[p].seen]]
    /\ Becomes(p, Painted(p, job[p].text))
    /\ UNCHANGED <<parsed, mem, disk>> /\ Undisturbed

(* Cache.Get: memory. *)
MemLook(p, k) ==
    /\ At(p, "idle")
    /\ Becomes(p, IF mem[k] = None THEN [Idle EXCEPT !.stage = "disk", !.comp = k]
                  ELSE [Idle EXCEPT !.stage = "stamps", !.comp = k, !.entry = mem[k].extraction,
                                    !.got = mem[k].stamps, !.todo = DOMAIN mem[k].stamps])
    /\ UNCHANGED caches /\ Undisturbed

StampsHold(p) ==
    /\ At(p, "stamps")
    /\ \E f \in job[p].todo :
          Becomes(p, CASE ~Exists(f) \/ files[f].stamp # job[p].got[f] -> Enters(p, "disk")
                       [] OTHER -> IF job[p].todo = {f} THEN Answering(p, job[p].entry)
                                   ELSE [job[p] EXCEPT !.todo = @ \ {f}])
    /\ UNCHANGED caches /\ Undisturbed

(* Cache.read: what digests hold of is remembered under today's stamps. *)
DiskLook(p) ==
    /\ At(p, "disk")
    /\ LET stored == disk[job[p].comp] IN
       Becomes(p, IF stored = None THEN Reading(p, Root, None) ELSE Marking(p, stored, "digests"))
    /\ UNCHANGED caches /\ Undisturbed

DigestsHold(p) ==
    /\ At(p, "digests")
    /\ \E f \in job[p].todo :
          Becomes(p, CASE files[f].text # ReadIn(job[p].entry, f) -> Reading(p, Root, None)
                       [] OTHER -> IF job[p].todo = {f}
                                   THEN [Marking(p, job[p].entry, "remember") EXCEPT !.fromDisk = TRUE]
                                   ELSE [job[p] EXCEPT !.todo = @ \ {f}])
    /\ UNCHANGED caches /\ Undisturbed

-----------------------------------------------------------------------------
(* Extractor.Component. *)

(* A file that cannot be read: no extraction of the root, none of the type. *)
Missing(p) ==
    IF job[p].file = Root THEN Answering(p, None) ELSE Marking(p, job[p].entry, "remember")

(* One that is read: the type is declared in it, or is to be resolved. *)
Followed(p, t) ==
    LET x == [root |-> t, from |-> None, type |-> None] IN
    IF job[p].file # Root
    THEN Marking(p, [job[p].entry EXCEPT !.from = job[p].file, !.type = t], "remember")
    ELSE IF t \in Importing THEN [Enters(p, "resolve") EXCEPT !.entry = x]
    ELSE Marking(p, x, "remember")

(* Extractor.file: stamp, parsed copy, stamp again, read, keep. *)
IsParsed(p) == LET hit == parsed[job[p].file] IN hit # None /\ hit.stamp = job[p].seen

FileGone(p) ==
    /\ job[p].stage \in {"file", "parsed", "read"} /\ ~Exists(job[p].file)
    /\ job[p].stage = "parsed" => ~IsParsed(p)
    /\ Becomes(p, Missing(p))
    /\ upset' = IF job[p].file = Root THEN upset ELSE upset \cup {"vanished"}
    /\ UNCHANGED <<environment, caches, still>>

FileStamp(p) ==
    /\ At(p, "file") /\ Exists(job[p].file)
    /\ Becomes(p, [job[p] EXCEPT !.stage = "parsed", !.seen = files[job[p].file].stamp])
    /\ UNCHANGED caches /\ Undisturbed

(* Mutant: a parsed copy is good for as long as the process lives. *)
FileHitAlways(p) ==
    /\ At(p, "parsed")
    /\ parsed[job[p].file] # None /\ Becomes(p, Followed(p, parsed[job[p].file].text))
    /\ UNCHANGED caches /\ Undisturbed

FileHit(p) ==
    /\ At(p, "parsed")
    /\ IsParsed(p) /\ Becomes(p, Followed(p, parsed[job[p].file].text))
    /\ UNCHANGED caches /\ Undisturbed

FileMiss(p) ==
    /\ At(p, "parsed") /\ Exists(job[p].file)
    /\ ~IsParsed(p)
    /\ Becomes(p, [job[p] EXCEPT !.stage = "read", !.seen = files[job[p].file].stamp])
    /\ UNCHANGED caches /\ Undisturbed

FileRead(p) ==
    /\ At(p, "read") /\ Exists(job[p].file)
    /\ Becomes(p, [job[p] EXCEPT !.stage = "keep", !.text = files[job[p].file].text])
    /\ UNCHANGED caches /\ Undisturbed

FileKeep(p) ==
    /\ At(p, "keep")
    /\ parsed' = [parsed EXCEPT ![job[p].file] = [text |-> job[p].text, stamp |-> job[p].seen]]
    /\ Becomes(p, Followed(p, job[p].text))
    /\ UNCHANGED <<mem, disk, programs>> /\ Undisturbed

(* resolveModule: the candidates in order, each by its stamp. *)
Resolve(p) ==
    /\ At(p, "resolve")
    /\ LET n == job[p].tried + 1 IN
       Becomes(p, CASE n > Len(Candidate)   -> Marking(p, job[p].entry, "remember")
                    [] n <= Len(Candidate) /\ Exists(Candidate[n]) ->
                          Reading(p, Candidate[n], job[p].entry)
                    [] OTHER                -> [job[p] EXCEPT !.tried = n])
    /\ UNCHANGED caches /\ Undisturbed

-----------------------------------------------------------------------------
(* Cache.Put: remembered under stamps taken now, recorded under digests taken  *)
(* now, whatever the files said when they were read.                           *)

Overtakes(p, f) == ~still[p] /\ Exists(f) /\ files[f].text # ReadIn(job[p].entry, f)
Noted(p, f) == IF Overtakes(p, f) THEN upset \cup {"overtaken"} ELSE upset

AfterMemory(p) == IF job[p].fromDisk THEN Answering(p, job[p].entry)
                                     ELSE Marking(p, job[p].entry, "record")

WithStamp(got, f) == [g \in DOMAIN got \cup {f} |-> IF g = f THEN files[f].stamp ELSE got[g]]

(* Mutant: a source that vanished is passed over. *)
RememberSkips(p) ==
    /\ At(p, "remember") /\ job[p].todo # {}
    /\ \E f \in job[p].todo :
          /\ Becomes(p, [job[p] EXCEPT !.todo = @ \ {f},
                         !.got = IF Exists(f) THEN WithStamp(@, f) ELSE @])
          /\ upset' = Noted(p, f)
    /\ UNCHANGED <<environment, caches, still>>

RememberStamp(p) ==
    /\ At(p, "remember") /\ job[p].todo # {}
    /\ \E f \in job[p].todo :
          /\ Becomes(p, IF Exists(f) THEN [job[p] EXCEPT !.todo = @ \ {f},
                                                         !.got = WithStamp(@, f)]
                                     ELSE AfterMemory(p))
          /\ upset' = Noted(p, f)
    /\ UNCHANGED <<environment, caches, still>>

Remember(p) ==
    /\ At(p, "remember") /\ job[p].todo = {}
    /\ mem' = [mem EXCEPT ![job[p].comp] = [extraction |-> job[p].entry, stamps |-> job[p].got]]
    /\ Becomes(p, AfterMemory(p))
    /\ UNCHANGED <<parsed, disk, programs>> /\ Undisturbed

Digest(p) ==
    /\ At(p, "record") /\ job[p].todo # {}
    /\ \E f \in job[p].todo :
          /\ Becomes(p, IF Exists(f) THEN [job[p] EXCEPT !.todo = @ \ {f}]
                                     ELSE Answering(p, job[p].entry))
          /\ upset' = Noted(p, f)
    /\ UNCHANGED <<environment, caches, still>>

(* The entry is replaced as a whole, or, when that fails, not at all. *)
Publish(p) ==
    /\ At(p, "record") /\ job[p].todo = {}
    /\ disk' \in {disk, [disk EXCEPT ![job[p].comp] = job[p].entry]}
    /\ Becomes(p, Answering(p, job[p].entry))
    /\ UNCHANGED <<parsed, mem, programs>> /\ Undisturbed

Work(p) ==
    \/ SsrLook(p) \/ SsrRead(p) \/ SsrStore(p)
    \/ StampsHold(p) \/ DiskLook(p) \/ DigestsHold(p)
    \/ FileGone(p) \/ FileStamp(p) \/ FileHit(p) \/ FileMiss(p) \/ FileRead(p) \/ FileKeep(p)
    \/ Resolve(p) \/ RememberStamp(p) \/ Remember(p) \/ Digest(p) \/ Publish(p)
    \/ End(p)

Next ==
    \/ \E p \in Preparer : Work(p) \/ \E k \in Component : SsrStamp(p, k) \/ MemLook(p, k)
    \/ \E f \in File, t \in Text \cup {None} : Edit(f, t)
    \/ \E k \in Component : Invalidate(k)
    \/ Restart

Spec == Init /\ [][Next]_vars

-----------------------------------------------------------------------------
(* Properties. *)

(* A parsed copy or a program whose stamp is the file's is of the file's text, *)
(* whatever was edited while it was made, for both take the stamp before they  *)
(* read.                                                                       *)
StampedTextIsCurrent ==
    /\ \A f \in File : parsed[f] # None /\ Exists(f) /\ parsed[f].stamp = files[f].stamp =>
          parsed[f].text = files[f].text
    /\ \A k \in Component : programs[k] # None /\ Exists(Root) /\ programs[k].stamp = files[Root].stamp =>
          programs[k].text = files[Root].text

(* A props type that memory or disk vouches for is what an extraction would    *)
(* find now, unless a source was overtaken between the read and the mark, a    *)
(* candidate appeared that the extraction did not have, or one vanished        *)
(* between being found and being read.                                         *)
MemVouches(k) ==
    mem[k] # None /\ DOMAIN mem[k].stamps # {}
    /\ \A f \in DOMAIN mem[k].stamps : Exists(f) /\ files[f].stamp = mem[k].stamps[f]
DiskVouches(k) ==
    disk[k] # None /\ \A f \in Sources(disk[k]) : files[f].text = ReadIn(disk[k], f)
VouchedTypeIsCurrent ==
    upset = {} => \A k \in Component :
        /\ MemVouches(k) => mem[k].extraction = Extract(files)
        /\ DiskVouches(k) => disk[k] = Extract(files)

(* A call during which nothing is edited gets what the files say, whichever    *)
(* layer it comes from and whatever happened before; the markup always, the    *)
(* type but for the same three.                                                *)
StillCallIsExact ==
    \A p \in Preparer : still[p] =>
        /\ At(p, "painted") => job[p].text = files[Root].text
        /\ At(p, "answered") /\ upset = {} => job[p].entry = Extract(files)
=============================================================================
