------------------------- MODULE SourceCachesProofs -------------------------
(* Theorems about SourceCaches, for any components, files and preparers. *)
EXTENDS SourceCaches, WellFoundedInduction, TLAPS

USE SourceAssumption

Field == {"stage", "comp", "file", "seen", "text", "entry", "todo", "got", "tried", "fromDisk"}

(* What was read and kept beside a stamp is still in the file, or the file has *)
(* got another stamp since.                                                     *)
Vouched(text, stamp, f) == stamp = files[f].stamp /\ Exists(f) => text = files[f].text

JobInv(j) ==
    /\ DOMAIN j = Field
    /\ j.seen \in 0 .. edits /\ j.tried \in Nat
    /\ j.stage \in {"file", "parsed", "read", "keep"} => j.file \in File
    /\ j.stage \in {"program", "analyze", "analyzed"} => j.comp \in Component
    /\ j.stage = "keep" => Vouched(j.text, j.seen, j.file)
    /\ j.stage = "analyzed" => Vouched(j.text, j.seen, Root)

StampInv ==
    /\ edits \in Nat
    /\ DOMAIN files = File /\ \A f \in File : files[f].stamp \in 0 .. edits
    /\ DOMAIN parsed = File
    /\ \A f \in File : parsed[f] # None =>
          parsed[f].stamp \in 0 .. edits /\ Vouched(parsed[f].text, parsed[f].stamp, f)
    /\ DOMAIN programs = Component
    /\ \A k \in Component : programs[k] # None =>
          programs[k].stamp \in 0 .. edits /\ Vouched(programs[k].text, programs[k].stamp, Root)
    /\ DOMAIN job = Preparer
    /\ \A p \in Preparer : JobInv(job[p])

Marked == {"file", "parsed", "read", "keep", "program", "analyze", "analyzed"}

(* What the stages leave behind for the next holds no mark to be wrong. *)
LEMMA Entering ==
    ASSUME StampInv, NEW p, NEW s
    PROVE  /\ JobInv(Idle)
           /\ s \notin Marked => JobInv(Enters(p, s))
           /\ \A x : s \notin Marked => JobInv(Marking(p, x, s))
           /\ \A x : JobInv(Answering(p, x)) /\ JobInv(Painted(p, x))
           /\ \A x : \A f \in File : JobInv(Reading(p, f, x))
BY DEF JobInv, Idle, Field, StampInv, Marked, Enters, Marking, Answering, Painted, Reading

(* Only the job of one preparer changes, and what it changes to holds. *)
LEMMA JobStep ==
    ASSUME StampInv, NEW p \in Preparer, NEW j, JobInv(j), Becomes(p, j),
           UNCHANGED <<files, edits, parsed, programs>>
    PROVE  StampInv'
<1>1. \A q \in Preparer : job'[q] = job[q] \/ job'[q] = j
  BY DEF Becomes, StampInv
<1>2. \A q \in Preparer : JobInv(job'[q])
  BY <1>1 DEF StampInv
<1>3. \A q \in Preparer : JobInv(job[q])'
  BY <1>2 DEF JobInv, Vouched, Exists
<1>4. DOMAIN job' = Preparer
  BY DEF Becomes, StampInv
<1> QED BY <1>3, <1>4 DEF StampInv, Vouched, Exists

(* The same for a step that reuses the job, with a stage of its own. *)
LEMMA JobGoes ==
    ASSUME StampInv, NEW p \in Preparer, NEW s, s \notin {"keep", "analyzed"},
           s \in {"file", "parsed", "read"} => job[p].file \in File,
           s \in {"program", "analyze"} => job[p].comp \in Component
    PROVE  JobInv([job[p] EXCEPT !.stage = s])
BY DEF JobInv, StampInv, Field

LEMMA FollowedHolds ==
    ASSUME StampInv, NEW p \in Preparer, NEW t
    PROVE  JobInv(Followed(p, t)) /\ JobInv(Missing(p))
<1> DEFINE x == [root |-> t, from |-> None, type |-> None]
<1>1. JobInv([Enters(p, "resolve") EXCEPT !.entry = x])
  BY DEF Enters, Idle, JobInv, Field, StampInv
<1>2. \A y : JobInv(Marking(p, y, "remember")) /\ JobInv(Answering(p, y))
  BY Entering DEF Marked
<1> QED BY <1>1, <1>2 DEF Followed, Missing

LEMMA WorkStep == ASSUME StampInv, NEW p \in Preparer, Work(p) PROVE StampInv'
<1> USE DEF Undisturbed, environment, caches
<1>0. JobInv(job[p]) /\ Root \in File
  BY DEF StampInv, File
<1>1. CASE SsrLook(p)
  <2>1. \A t : JobInv(Painted(p, t))
    BY Entering
  <2>2. JobInv([job[p] EXCEPT !.stage = "analyze"])
    BY <1>0, <1>1, JobGoes DEF SsrLook, At, JobInv
  <2>3. \E j : JobInv(j) /\ Becomes(p, j)
    BY <1>1, <2>1, <2>2 DEF SsrLook, Goes
  <2> QED BY <1>1, <2>3, JobStep DEF SsrLook
<1>2. CASE SsrRead(p)
  <2>1. JobInv([job[p] EXCEPT !.stage = "analyzed", !.text = files[Root].text])
    BY <1>0, <1>2 DEF SsrRead, At, JobInv, Field, Vouched
  <2> QED BY <1>2, <2>1, JobStep DEF SsrRead
<1>3. CASE SsrStore(p)
  <2>1. PICK k \in Component : k = job[p].comp
    BY <1>0, <1>3 DEF SsrStore, At, JobInv
  <2>2. programs' = [programs EXCEPT ![k] = [text |-> job[p].text, stamp |-> job[p].seen]]
    BY <1>3, <2>1 DEF SsrStore
  <2>3. job[p].seen \in 0 .. edits /\ Vouched(job[p].text, job[p].seen, Root)
    BY <1>0, <1>3 DEF SsrStore, At, JobInv
  <2>4. JobInv(Painted(p, job[p].text))
    BY Entering
  <2>5. \A q \in Preparer : JobInv(job'[q]) /\ DOMAIN job' = Preparer
    BY <1>3, <2>4 DEF SsrStore, Becomes, StampInv
  <2>6. UNCHANGED <<files, edits, parsed>>
    BY <1>3 DEF SsrStore
  <2>7. \A q \in Preparer : JobInv(job[q])'
    BY <2>5, <2>6 DEF JobInv, Vouched, Exists
  <2>8. \A c \in Component : programs'[c] # None =>
           programs'[c].stamp \in 0 .. edits /\ Vouched(programs'[c].text, programs'[c].stamp, Root)
    BY <2>2, <2>3 DEF StampInv
  <2> QED BY <2>2, <2>5, <2>6, <2>7, <2>8 DEF StampInv, Vouched, Exists
<1>4. CASE StampsHold(p)
  <2>1. JobInv(Enters(p, "disk")) /\ \A x : JobInv(Answering(p, x))
    BY Entering DEF Marked
  <2>2. \A ts : JobInv([job[p] EXCEPT !.todo = ts])
    BY <1>0, <1>4 DEF StampsHold, At, JobInv, Field
  <2>3. \E j : JobInv(j) /\ Becomes(p, j)
    BY <1>4, <2>1, <2>2 DEF StampsHold
  <2> QED BY <1>4, <2>3, JobStep DEF StampsHold
<1>5. CASE DiskLook(p)
  <2>1. \A x : JobInv(Reading(p, Root, x)) /\ JobInv(Marking(p, x, "digests"))
    BY <1>0, Entering DEF Marked
  <2>2. \E j : JobInv(j) /\ Becomes(p, j)
    BY <1>5, <2>1 DEF DiskLook
  <2> QED BY <1>5, <2>2, JobStep DEF DiskLook
<1>6. CASE DigestsHold(p)
  <2>1. \A x : JobInv(Reading(p, Root, x))
    BY <1>0, Entering DEF Marked
  <2>2. \A ts : JobInv([job[p] EXCEPT !.todo = ts])
    BY <1>0, <1>6 DEF DigestsHold, At, JobInv, Field
  <2>3. \A x : JobInv([Marking(p, x, "remember") EXCEPT !.fromDisk = TRUE])
    BY DEF Marking, Enters, Idle, JobInv, Field, StampInv
  <2>4. \E j : JobInv(j) /\ Becomes(p, j)
    BY <1>6, <2>1, <2>2, <2>3 DEF DigestsHold
  <2> QED BY <1>6, <2>4, JobStep DEF DigestsHold
<1>7. CASE FileGone(p) \/ FileHit(p)
  <2>1. \E j : JobInv(j) /\ Becomes(p, j)
    BY <1>7, FollowedHolds DEF FileGone, FileHit
  <2> QED BY <1>7, <2>1, JobStep DEF FileGone, FileHit
<1>8. CASE FileStamp(p) \/ FileMiss(p)
  <2>1. job[p].file \in File
    BY <1>0, <1>8 DEF FileStamp, FileMiss, At, JobInv
  <2>2. files[job[p].file].stamp \in 0 .. edits
    BY <2>1 DEF StampInv
  <2>3. \A s \in {"parsed", "read"} :
           JobInv([job[p] EXCEPT !.stage = s, !.seen = files[job[p].file].stamp])
    BY <1>0, <2>1, <2>2 DEF JobInv, Field
  <2>4. \E j : JobInv(j) /\ Becomes(p, j)
    BY <1>8, <2>3 DEF FileStamp, FileMiss
  <2> QED BY <1>8, <2>4, JobStep DEF FileStamp, FileMiss
<1>9. CASE FileRead(p)
  <2>1. JobInv([job[p] EXCEPT !.stage = "keep", !.text = files[job[p].file].text])
    BY <1>0, <1>9 DEF FileRead, At, JobInv, Field, Vouched
  <2> QED BY <1>9, <2>1, JobStep DEF FileRead
<1>10. CASE FileKeep(p)
  <2>1. PICK f \in File : f = job[p].file
    BY <1>0, <1>10 DEF FileKeep, At, JobInv
  <2>2. parsed' = [parsed EXCEPT ![f] = [text |-> job[p].text, stamp |-> job[p].seen]]
    BY <1>10, <2>1 DEF FileKeep
  <2>3. job[p].seen \in 0 .. edits /\ Vouched(job[p].text, job[p].seen, f)
    BY <1>0, <1>10, <2>1 DEF FileKeep, At, JobInv
  <2>4. JobInv(Followed(p, job[p].text))
    BY FollowedHolds
  <2>5. \A q \in Preparer : JobInv(job'[q]) /\ DOMAIN job' = Preparer
    BY <1>10, <2>4 DEF FileKeep, Becomes, StampInv
  <2>6. UNCHANGED <<files, edits, programs>>
    BY <1>10 DEF FileKeep
  <2>7. \A q \in Preparer : JobInv(job[q])'
    BY <2>5, <2>6 DEF JobInv, Vouched, Exists
  <2>8. \A g \in File : parsed'[g] # None =>
           parsed'[g].stamp \in 0 .. edits /\ Vouched(parsed'[g].text, parsed'[g].stamp, g)
    BY <2>2, <2>3 DEF StampInv
  <2> QED BY <2>2, <2>5, <2>6, <2>7, <2>8 DEF StampInv, Vouched, Exists
<1>11. CASE Resolve(p)
  <2>1. \A x : JobInv(Marking(p, x, "remember"))
    BY Entering DEF Marked
  <2>2. \A x : \A n \in 1 .. Len(Candidate) : JobInv(Reading(p, Candidate[n], x))
    <3>1. \A n \in 1 .. Len(Candidate) : Candidate[n] \in File
      BY DEF File
    <3> QED BY <3>1, Entering
  <2>3. job[p].tried + 1 \in Nat \ {0} /\ JobInv([job[p] EXCEPT !.tried = job[p].tried + 1])
    BY <1>0, <1>11 DEF Resolve, At, JobInv, Field
  <2>4. \E j : JobInv(j) /\ Becomes(p, j)
    <3> DEFINE n == job[p].tried + 1
    <3>1. CASE n > Len(Candidate)
      BY <1>11, <2>1, <2>3, <3>1 DEF Resolve
    <3>2. CASE n <= Len(Candidate) /\ Exists(Candidate[n])
      <4>1. n \in 1 .. Len(Candidate) /\ ~(n > Len(Candidate))
        BY <2>3, <3>2
      <4>2. Becomes(p, Reading(p, Candidate[n], job[p].entry))
        BY <1>11, <3>2, <4>1 DEF Resolve
      <4> QED BY <2>2, <4>1, <4>2
    <3>3. CASE n <= Len(Candidate) /\ ~Exists(Candidate[n])
      BY <1>11, <2>3, <3>3 DEF Resolve
    <3> QED BY <2>3, <3>1, <3>2, <3>3
  <2> QED BY <1>11, <2>4, JobStep DEF Resolve
<1>12. CASE RememberStamp(p) \/ Digest(p)
  <2>1. \A x : JobInv(Answering(p, x)) /\ JobInv(Marking(p, x, "record"))
    BY Entering DEF Marked
  <2>2. \A ts, g : JobInv([job[p] EXCEPT !.todo = ts, !.got = g]) /\ JobInv([job[p] EXCEPT !.todo = ts])
    BY <1>0, <1>12 DEF RememberStamp, Digest, At, JobInv, Field
  <2>3. \E j : JobInv(j) /\ Becomes(p, j)
    BY <1>12, <2>1, <2>2 DEF RememberStamp, Digest, AfterMemory
  <2> QED BY <1>12, <2>3, JobStep DEF RememberStamp, Digest
<1>13. CASE Remember(p) \/ Publish(p)
  <2>1. \A x : JobInv(Answering(p, x)) /\ JobInv(Marking(p, x, "record"))
    BY Entering DEF Marked
  <2>2. \E j : JobInv(j) /\ Becomes(p, j)
    BY <1>13, <2>1 DEF Remember, Publish, AfterMemory
  <2> QED BY <1>13, <2>2, JobStep DEF Remember, Publish
<1>14. CASE End(p)
  BY <1>14, Entering, JobStep DEF End
<1> QED
  BY <1>1, <1>2, <1>3, <1>4, <1>5, <1>6, <1>7, <1>8, <1>9, <1>10, <1>11, <1>12, <1>13, <1>14 DEF Work

(* An edit leaves a stamp nobody holds. *)
LEMMA EditStep ==
    ASSUME StampInv, NEW f \in File, NEW t, Edit(f, t)
    PROVE  StampInv'
<1>1. /\ edits' = edits + 1 /\ edits \in Nat
      /\ files' = [files EXCEPT ![f] = [text |-> t, stamp |-> edits + 1]]
      /\ UNCHANGED <<parsed, programs, job>>
  BY DEF Edit, StampInv, caches
<1>2. DOMAIN files' = File /\ \A g \in File : files'[g].stamp \in 0 .. edits'
  BY <1>1 DEF StampInv
<1>3. ASSUME NEW g \in File, NEW text, NEW stamp \in 0 .. edits, Vouched(text, stamp, g)
      PROVE  Vouched(text, stamp, g)'
  BY <1>1, <1>3 DEF Vouched, Exists, StampInv
<1>4. Root \in File /\ 0 .. edits \subseteq 0 .. edits'
  BY <1>1 DEF File
<1>5. ASSUME NEW j, JobInv(j) PROVE JobInv(j)'
  BY <1>3, <1>4, <1>5 DEF JobInv
<1>6. \A q \in Preparer : JobInv(job[q])'
  BY <1>1, <1>5 DEF StampInv
<1>7. \A g \in File : parsed[g] # None =>
         parsed[g].stamp \in 0 .. edits' /\ Vouched(parsed[g].text, parsed[g].stamp, g)'
  BY <1>1, <1>3, <1>4 DEF StampInv
<1>8. \A k \in Component : programs[k] # None =>
         programs[k].stamp \in 0 .. edits' /\ Vouched(programs[k].text, programs[k].stamp, Root)'
  BY <1>1, <1>3, <1>4 DEF StampInv
<1> QED BY <1>1, <1>2, <1>6, <1>7, <1>8 DEF StampInv

LEMMA StampStep == StampInv /\ [Next]_vars => StampInv'
<1> SUFFICES ASSUME StampInv, [Next]_vars PROVE StampInv'
  OBVIOUS
<1>1. ASSUME NEW p \in Preparer, Work(p) PROVE StampInv'
  BY <1>1, WorkStep
<1>2. ASSUME NEW p \in Preparer, NEW k \in Component, SsrStamp(p, k) PROVE StampInv'
  <2>1. Root \in File /\ files[Root].stamp \in 0 .. edits
    BY DEF StampInv, File
  <2>2. /\ JobInv([Idle EXCEPT !.stage = "program", !.comp = k, !.seen = files[Root].stamp])
        /\ JobInv([Idle EXCEPT !.stage = "painted", !.comp = k])
    BY <2>1 DEF JobInv, Idle, Field, StampInv
  <2>3. \E j : JobInv(j) /\ Becomes(p, j)
    BY <1>2, <2>2 DEF SsrStamp
  <2> QED BY <1>2, <2>3, JobStep DEF SsrStamp, Undisturbed, environment, caches
<1>3. ASSUME NEW p \in Preparer, NEW k \in Component, MemLook(p, k) PROVE StampInv'
  <2>1. /\ JobInv([Idle EXCEPT !.stage = "disk", !.comp = k])
        /\ JobInv([Idle EXCEPT !.stage = "stamps", !.comp = k, !.entry = mem[k].extraction,
                               !.got = mem[k].stamps, !.todo = DOMAIN mem[k].stamps])
    BY DEF JobInv, Idle, Field, StampInv
  <2>2. \E j : JobInv(j) /\ Becomes(p, j)
    BY <1>3, <2>1 DEF MemLook
  <2> QED BY <1>3, <2>2, JobStep DEF MemLook, Undisturbed, environment, caches
<1>4. ASSUME NEW f \in File, NEW t \in Text \cup {None}, Edit(f, t) PROVE StampInv'
  BY <1>4, EditStep
<1>5. ASSUME NEW k \in Component, Invalidate(k) PROVE StampInv'
  <2>1. programs' = [programs EXCEPT ![k] = None] /\ UNCHANGED <<files, edits, parsed, job>>
    BY <1>5 DEF Invalidate, environment
  <2> QED BY <2>1 DEF StampInv, JobInv, Vouched, Exists
<1>6. CASE Restart
  <2>1. /\ parsed' = [f \in File |-> None] /\ programs' = [k \in Component |-> None]
        /\ job' = [p \in Preparer |-> Idle] /\ UNCHANGED <<files, edits>>
    BY <1>6 DEF Restart
  <2>2. JobInv(Idle)'
    BY <2>1 DEF JobInv, Idle, Field, StampInv
  <2> QED BY <2>1, <2>2 DEF StampInv
<1>7. CASE UNCHANGED vars
  BY <1>7 DEF vars, StampInv, JobInv, Vouched, Exists
<1> QED BY <1>1, <1>2, <1>3, <1>4, <1>5, <1>6, <1>7 DEF Next

LEMMA StampStart == Init => StampInv
<1> SUFFICES ASSUME Init PROVE StampInv
  OBVIOUS
<1>1. PICK fs \in [File -> Text \cup {None}] : files = [f \in File |-> [text |-> fs[f], stamp |-> 0]]
  BY DEF Init
<1>2. edits = 0 /\ parsed = [f \in File |-> None] /\ programs = [k \in Component |-> None]
      /\ job = [p \in Preparer |-> Idle]
  BY DEF Init
<1>3. JobInv(Idle)
  BY <1>2 DEF JobInv, Idle, Field
<1> QED BY <1>1, <1>2, <1>3 DEF StampInv

(* A parsed copy and a program are of the text their stamp stands for, for any *)
(* number of preparers and edits: both take the stamp first.                   *)
THEOREM StampsVouch == Spec => []StampedTextIsCurrent
<1>1. StampInv => StampedTextIsCurrent
  BY DEF StampInv, StampedTextIsCurrent, Vouched
<1> QED BY <1>1, StampStart, StampStep, PTL DEF Spec

-----------------------------------------------------------------------------
(* What is vouched for.  An extraction names the candidate its type came from;  *)
(* while nothing was upset none before that one exists, so that whenever its    *)
(* sources say what was read there, extracting again would give it again.       *)

Absent(n) == \A i \in DOMAIN Candidate : i < n => ~Exists(Candidate[i])

First(x) ==
    x.root \in Importing =>
        IF x.from = None THEN Absent(Len(Candidate) + 1)
        ELSE \E m \in DOMAIN Candidate : x.from = Candidate[m] /\ Absent(m)

Sound(x) ==
    /\ x \in Extraction
    /\ x.root \notin Importing => x.from = None
    /\ x.from = None <=> x.type = None
    /\ upset = {} => First(x)

Match(x, fs) == \A f \in fs : files[f].text = ReadIn(x, f)

Marks(x, got, fs) ==
    /\ got \in [fs -> 0 .. edits]
    /\ upset = {} => \A f \in fs : Vouched(ReadIn(x, f), got[f], f)

(* An extraction whose type is to be resolved. *)
Begun(x, s) ==
    /\ x \in Extraction /\ x.root \in Importing /\ x.from = None /\ x.type = None
    /\ s => files[Root].text = x.root

InFile == {"file", "parsed", "read", "keep"}

(* What a stage knows, and what it knows if nothing was edited since it began. *)
StageInv(j, s) ==
    /\ j.stage \in Stage /\ j.comp \in Component \cup {None}
    /\ j.stage \in {"stamps", "disk", "digests", "remember", "record", "resolve"} \cup InFile =>
          j.comp \in Component
    /\ j.stage \in {"program", "analyze"} /\ s => j.seen = files[Root].stamp /\ Exists(Root)
    /\ j.stage \in {"analyzed", "painted"} =>
          j.text \in Text \cup {None} /\ (s => j.text = files[Root].text)
    /\ j.stage = "stamps" =>
          /\ Sound(j.entry) /\ Marks(j.entry, j.got, Sources(j.entry)) /\ j.todo \subseteq Sources(j.entry)
          /\ s => \A f \in Sources(j.entry) \ j.todo : Exists(f) /\ files[f].stamp = j.got[f]
    /\ j.stage = "digests" =>
          /\ Sound(j.entry) /\ j.todo \subseteq Sources(j.entry)
          /\ s => Match(j.entry, Sources(j.entry) \ j.todo)
    /\ j.stage = "remember" =>
          /\ Sound(j.entry) /\ j.todo \subseteq Sources(j.entry)
          /\ Marks(j.entry, j.got, Sources(j.entry) \ j.todo)
          /\ s => Match(j.entry, Sources(j.entry))
    /\ j.stage = "record" => Sound(j.entry) /\ (s => Match(j.entry, Sources(j.entry)))
    /\ j.stage \in InFile /\ j.file # Root =>
          /\ Begun(j.entry, s)
          /\ \E m \in DOMAIN Candidate : j.file = Candidate[m] /\ (upset = {} => Absent(m))
    /\ j.stage \in {"parsed", "read"} /\ s => Exists(j.file) /\ j.seen = files[j.file].stamp
    /\ j.stage = "keep" => j.text \in Text /\ (s => j.text = files[j.file].text)
    /\ j.stage = "resolve" =>
          Begun(j.entry, s) /\ j.tried <= Len(Candidate) /\ (upset = {} => Absent(j.tried + 1))
    /\ j.stage = "answered" /\ s /\ upset = {} => j.entry = Extract(files)

Remembered(m) == Sound(m.extraction) /\ Marks(m.extraction, m.stamps, Sources(m.extraction))

Bounds ==
    /\ edits \in 0 .. MaxEdits /\ restarts \in 0 .. MaxRestarts
    /\ still \in [Preparer -> BOOLEAN] /\ upset \subseteq Mishap
    /\ files \in [File -> [text : Text \cup {None}, stamp : Stamp]]

Kept ==
    /\ parsed \in [File -> [text : Text, stamp : Stamp] \cup {None}]
    /\ programs \in [Component -> [text : Text \cup {None}, stamp : Stamp] \cup {None}]
    /\ DOMAIN mem = Component /\ \A k \in Component : mem[k] # None => Remembered(mem[k])
    /\ DOMAIN disk = Component /\ \A k \in Component : disk[k] # None => Sound(disk[k])

TypeInv ==
    /\ StampInv /\ Bounds /\ Kept
    /\ \A p \in Preparer : StageInv(job[p], still[p])

-----------------------------------------------------------------------------
(* What sources that say what was read there stand for. *)

LEMMA SoundIsExact ==
    ASSUME Bounds, NEW x, Sound(x), upset = {}, Match(x, Sources(x))
    PROVE  x = Extract(files)
<1>1. /\ x = [root |-> x.root, from |-> x.from, type |-> x.type]
      /\ x.root \in Text /\ x.root # None
  BY DEF Sound, Extraction
<1>2. files[Root].text = x.root
  BY DEF Match, Sources, ReadIn
<1>3. CASE x.root \notin Importing
  BY <1>1, <1>2, <1>3 DEF Extract, Sound
<1>4. CASE x.root \in Importing /\ x.from = None
  <2>1. \A i \in DOMAIN Candidate : ~Exists(Candidate[i])
    BY <1>4 DEF Sound, First, Absent
  <2>2. Resolved(files) = None
    BY <2>1 DEF Resolved, Exists
  <2> QED BY <1>1, <1>2, <1>4, <2>2 DEF Extract, Sound
<1>5. CASE x.root \in Importing /\ x.from # None
  <2>1. PICK m \in DOMAIN Candidate : x.from = Candidate[m] /\ Absent(m)
    BY <1>5 DEF Sound, First
  <2>2. x.from \in Sources(x) /\ x.from # Root
    BY <1>5, <2>1 DEF Sources, Range
  <2>3. files[x.from].text = x.type /\ x.type # None
    BY <1>5, <2>2 DEF Match, ReadIn, Sound
  <2> DEFINE there == {i \in DOMAIN Candidate : files[Candidate[i]].text # None}
  <2>4. m \in there /\ \A i \in there : m <= i
    BY <2>1, <2>3 DEF Absent, Exists
  <2>5. (CHOOSE i \in there : \A j \in there : i <= j) = m
    <3>1. \A i \in there : (\A j \in there : i <= j) => i = m
      BY <2>4
    <3> QED BY <2>4, <3>1
  <2>6. Resolved(files) = x.from
    BY <2>1, <2>4, <2>5 DEF Resolved
  <2> QED BY <1>1, <1>2, <1>5, <2>3, <2>6 DEF Extract
<1> QED BY <1>3, <1>4, <1>5

(* Stamps that are still those of the files vouch for the texts beside them. *)
LEMMA MarksMatch ==
    ASSUME NEW x, NEW got, NEW fs, Marks(x, got, fs), upset = {},
           \A f \in fs : Exists(f) /\ files[f].stamp = got[f]
    PROVE  Match(x, fs)
BY DEF Marks, Match, Vouched

LEMMA Typed == TypeInv => TypeOK /\ VouchedTypeIsCurrent /\ StillCallIsExact
<1> SUFFICES ASSUME TypeInv PROVE TypeOK /\ VouchedTypeIsCurrent /\ StillCallIsExact
  OBVIOUS
<1> USE DEF TypeInv, Kept
<1>1. TypeOK
  <2>1. \A k \in Component :
          /\ mem[k] # None => mem[k].extraction \in Extraction
                              /\ mem[k].stamps \in [Sources(mem[k].extraction) -> Stamp]
          /\ disk[k] # None => disk[k] \in Extraction
    BY DEF Remembered, Sound, Marks, Bounds, Stamp
  <2> QED BY <2>1 DEF TypeOK, Bounds, StageInv
<1>2. ASSUME upset = {}, NEW k \in Component, MemVouches(k) PROVE mem[k].extraction = Extract(files)
  <2>1. Sound(mem[k].extraction) /\ Marks(mem[k].extraction, mem[k].stamps, Sources(mem[k].extraction))
    BY <1>2 DEF MemVouches, Remembered
  <2>2. Match(mem[k].extraction, Sources(mem[k].extraction))
    BY <1>2, <2>1, MarksMatch DEF MemVouches, Marks
  <2> QED BY <1>2, <2>1, <2>2, SoundIsExact
<1>3. ASSUME upset = {}, NEW k \in Component, DiskVouches(k) PROVE disk[k] = Extract(files)
  BY <1>3, SoundIsExact DEF DiskVouches, Match
<1>4. StillCallIsExact
  BY DEF StillCallIsExact, At, StageInv
<1> QED BY <1>1, <1>2, <1>3, <1>4 DEF VouchedTypeIsCurrent

-----------------------------------------------------------------------------
(* Steps of a preparer: the files stay, and nothing is un-upset. *)

LEMMA StageKept ==
    ASSUME NEW j, NEW s, UNCHANGED <<files, edits>>, upset' = {} => upset = {}, StageInv(j, s)
    PROVE  StageInv(j, s)'
<1>1. \A n : Absent(n) <=> Absent(n)'
  BY DEF Absent, Exists
<1>2. \A x : Sound(x) => Sound(x)'
  BY <1>1 DEF Sound, First
<1>3. \A x, fs : Match(x, fs) <=> Match(x, fs)'
  BY DEF Match
<1>4. \A x, g, fs : Marks(x, g, fs) => Marks(x, g, fs)'
  BY DEF Marks, Vouched, Exists
<1>5. \A x, b : Begun(x, b) => Begun(x, b)'
  BY DEF Begun
<1>6. Extract(files)' = Extract(files)
  BY DEF Extract, Resolved
<1>7. \A f : Exists(f)' <=> Exists(f)
  BY DEF Exists
<1> QED BY <1>1, <1>2, <1>3, <1>4, <1>5, <1>6, <1>7 DEF StageInv

LEMMA CacheKept ==
    ASSUME Kept, UNCHANGED <<files, edits, caches>>, upset' = {} => upset = {}
    PROVE  Kept'
<1>1. \A n : Absent(n) <=> Absent(n)'
  BY DEF Absent, Exists
<1>2. \A x : Sound(x) => Sound(x)'
  BY <1>1 DEF Sound, First
<1>3. \A x, g, fs : Marks(x, g, fs) => Marks(x, g, fs)'
  BY DEF Marks, Vouched, Exists
<1>4. UNCHANGED <<parsed, mem, disk, programs>>
  BY DEF caches
<1> QED BY <1>2, <1>3, <1>4 DEF Kept, Remembered

(* The job of one preparer becomes j, and j holds after the step. *)
LEMMA CallStep ==
    ASSUME TypeInv, NEW p \in Preparer, NEW j, Becomes(p, j), StageInv(j, still[p])',
           UNCHANGED <<environment, still>>, upset \subseteq upset', upset' \subseteq Mishap,
           StampInv', Kept'
    PROVE  TypeInv'
<1>1. UNCHANGED <<files, edits, restarts, still>> /\ (upset' = {} => upset = {})
  BY DEF environment
<1>2. Bounds'
  BY <1>1 DEF TypeInv, Bounds
<1>3. ASSUME NEW q \in Preparer PROVE StageInv(job[q], still[q])'
  <2>1. CASE q = p
    BY <2>1, <1>1 DEF Becomes, TypeInv, StampInv
  <2>2. CASE q # p
    <3>1. job'[q] = job[q] /\ still'[q] = still[q]
      BY <1>1, <2>2 DEF Becomes, TypeInv, StampInv
    <3>2. StageInv(job[q], still[q])
      BY DEF TypeInv
    <3>3. \A i, s : StageInv(i, s) => StageInv(i, s)'
      BY <1>1, StageKept
    <3> QED BY <3>1, <3>2, <3>3
  <2> QED BY <2>1, <2>2
<1> QED BY <1>2, <1>3 DEF TypeInv

(* The same of a step that leaves the caches and the history alone. *)
LEMMA QuietStep ==
    ASSUME TypeInv, NEW p \in Preparer, NEW j, StageInv(j, still[p]), Becomes(p, j),
           UNCHANGED <<environment, still, upset, caches>>, StampInv'
    PROVE  TypeInv'
<1>1. UNCHANGED <<files, edits, still, upset>>
  BY DEF environment
<1>2. StageInv(j, still[p])'
  <2>1. \A i, s : StageInv(i, s) => StageInv(i, s)'
    BY <1>1, StageKept
  <2> QED BY <1>1, <2>1
<1>3. Kept'
  BY <1>1, CacheKept DEF TypeInv
<1>4. upset \subseteq upset' /\ upset' \subseteq Mishap
  BY <1>1 DEF TypeInv, Bounds
<1> QED BY <1>2, <1>3, <1>4, CallStep

(* What the stages leave for the next. *)
LEMMA Leaving ==
    ASSUME NEW p \in Preparer, job[p].comp \in Component, NEW s
    PROVE  /\ StageInv(Idle, s) /\ StageInv(Enters(p, "disk"), s)
           /\ \A x : (s /\ upset = {} => x = Extract(files)) => StageInv(Answering(p, x), s)
           /\ \A t \in Text \cup {None} : (s => t = files[Root].text) => StageInv(Painted(p, t), s)
           /\ StageInv(Reading(p, Root, None), s)
           /\ \A x : Sound(x) => StageInv(Marking(p, x, "digests"), s)
           /\ \A x : Sound(x) /\ (s => Match(x, Sources(x))) =>
                 /\ StageInv(Marking(p, x, "remember"), s)
                 /\ StageInv([Marking(p, x, "remember") EXCEPT !.fromDisk = TRUE], s)
                 /\ StageInv(Marking(p, x, "record"), s)
<1> USE DEF Stage, InFile
<1>1. StageInv(Idle, s) /\ StageInv(Enters(p, "disk"), s)
  BY DEF Idle, Enters, StageInv
<1>2. \A x : (s /\ upset = {} => x = Extract(files)) => StageInv(Answering(p, x), s)
  BY DEF Idle, Enters, Answering, StageInv
<1>3. \A t \in Text \cup {None} : (s => t = files[Root].text) => StageInv(Painted(p, t), s)
  BY DEF Idle, Enters, Painted, StageInv
<1>4. StageInv(Reading(p, Root, None), s)
  BY DEF Idle, Enters, Reading, StageInv
<1>5. ASSUME NEW x, Sound(x) PROVE StageInv(Marking(p, x, "digests"), s)
  BY <1>5 DEF Idle, Enters, Marking, StageInv, Match
<1>6. ASSUME NEW x, Sound(x), s => Match(x, Sources(x))
      PROVE  /\ StageInv(Marking(p, x, "remember"), s)
             /\ StageInv([Marking(p, x, "remember") EXCEPT !.fromDisk = TRUE], s)
             /\ StageInv(Marking(p, x, "record"), s)
  <2>1. Marks(x, <<>>, Sources(x) \ Sources(x))
    BY DEF Marks
  <2> QED BY <1>6, <2>1 DEF Idle, Enters, Marking, StageInv
<1> QED BY <1>1, <1>2, <1>3, <1>4, <1>5, <1>6

(* A text that was read: the type is in it, or is to be resolved. *)
LEMMA FollowedExact ==
    ASSUME TypeInv, NEW p \in Preparer, NEW t \in Text, job[p].stage \in InFile,
           still[p] => t = files[job[p].file].text
    PROVE  StageInv(Followed(p, t), still[p])
<1> DEFINE s == still[p]
           e == job[p].entry
<1>1. job[p].comp \in Component /\ StageInv(job[p], s)
  BY DEF TypeInv, StageInv, InFile
<1>2. \A x : Sound(x) /\ (s => Match(x, Sources(x))) => StageInv(Marking(p, x, "remember"), s)
  BY <1>1, Leaving
<1>3. CASE job[p].file # Root
  <2> DEFINE x == [e EXCEPT !.from = job[p].file, !.type = t]
  <2>1. Begun(e, s)
    BY <1>1, <1>3 DEF StageInv, InFile
  <2>2. PICK m \in DOMAIN Candidate : job[p].file = Candidate[m] /\ (upset = {} => Absent(m))
    BY <1>1, <1>3 DEF StageInv, InFile
  <2>3. job[p].file \in Range(Candidate) /\ job[p].file # None
    BY <2>2 DEF Range
  <2>4. x \in Extraction /\ x.root = e.root /\ x.from = job[p].file /\ x.type = t
    BY <2>1, <2>3 DEF Begun, Extraction
  <2>5. Sound(x)
    BY <2>1, <2>2, <2>3, <2>4 DEF Sound, First, Begun
  <2>6. s => Match(x, Sources(x))
    <3> SUFFICES ASSUME s, NEW f \in Sources(x) PROVE files[f].text = ReadIn(x, f)
      BY DEF Match
    <3>1. f = Root \/ f = job[p].file
      BY <2>4 DEF Sources
    <3>2. files[Root].text = x.root
      BY <2>1, <2>4 DEF Begun
    <3>3. files[job[p].file].text = x.type
      BY <2>4
    <3> HIDE DEF x
    <3> QED BY <1>3, <3>1, <3>2, <3>3 DEF ReadIn
  <2>7. Followed(p, t) = Marking(p, x, "remember")
    BY <1>3 DEF Followed
  <2> QED BY <1>2, <2>5, <2>6, <2>7
<1> DEFINE y == [root |-> t, from |-> None, type |-> None]
<1>4. /\ y \in Extraction /\ y.root = t /\ y.from = None /\ y.type = None
      /\ Sources(y) = {Root}
  BY DEF Extraction, Sources
<1>5. CASE job[p].file = Root /\ t \in Importing
  <2>1. Followed(p, t) = [Enters(p, "resolve") EXCEPT !.entry = y]
    BY <1>5 DEF Followed
  <2>2. Begun(y, s)
    BY <1>4, <1>5 DEF Begun
  <2>3. Absent(1)
    BY DEF Absent
  <2> QED BY <1>1, <2>1, <2>2, <2>3 DEF StageInv, Enters, Idle, Stage, InFile
<1>6. CASE job[p].file = Root /\ t \notin Importing
  <2>1. Followed(p, t) = Marking(p, y, "remember")
    BY <1>6 DEF Followed
  <2>2. Sound(y)
    BY <1>4, <1>6 DEF Sound, First
  <2>3. s => Match(y, Sources(y))
    BY <1>4, <1>6 DEF Match, ReadIn
  <2> QED BY <1>2, <2>1, <2>2, <2>3
<1> QED BY <1>3, <1>5, <1>6

(* A mark that goes on after the step, of an extraction that holds after it. *)
LEMMA MarkNext ==
    ASSUME NEW j, NEW s, UNCHANGED <<files, edits>>, j.comp \in Component, j.stage = "remember",
           Sound(j.entry)', s => Match(j.entry, Sources(j.entry)), j.todo \subseteq Sources(j.entry),
           Marks(j.entry, j.got, Sources(j.entry) \ j.todo)'
    PROVE  StageInv(j, s)'
<1>1. s => Match(j.entry, Sources(j.entry))'
  BY DEF Match
<1> QED BY <1>1 DEF StageInv, Stage, InFile

LEMMA FileGoneStep ==
    ASSUME TypeInv, NEW p \in Preparer, FileGone(p), StampInv'
    PROVE  TypeInv'
<1> DEFINE s == still[p]
           e == job[p].entry
<1>1. /\ job[p].stage \in InFile /\ job[p].comp \in Component /\ StageInv(job[p], s)
      /\ ~Exists(job[p].file) /\ Becomes(p, Missing(p))
      /\ UNCHANGED <<environment, caches, still>> /\ UNCHANGED <<files, edits>>
  BY DEF FileGone, TypeInv, StageInv, InFile, environment
<1>2. /\ upset \subseteq upset' /\ upset' \subseteq Mishap
      /\ job[p].file # Root => upset' # {}
      /\ job[p].file = Root => upset' = upset
  BY DEF FileGone, TypeInv, Bounds, Mishap
<1>3. Kept'
  BY <1>1, <1>2, CacheKept DEF TypeInv
<1>4. CASE job[p].file = Root
  <2>1. Extract(files) = None
    BY <1>1, <1>4 DEF Exists, Extract
  <2>2. StageInv(Answering(p, None), s)
    BY <1>1, <2>1, Leaving
  <2> QED BY <1>1, <1>2, <1>4, <2>2, QuietStep DEF Missing
<1>5. CASE job[p].file # Root
  <2>1. PICK j : j = Marking(p, e, "remember")
    OBVIOUS
  <2>2. Becomes(p, j)
    BY <1>1, <1>5, <2>1 DEF Missing
  <2>3. PICK x : x = e
    OBVIOUS
  <2>4. /\ j.comp \in Component /\ j.stage = "remember" /\ j.entry = x
        /\ j.todo = Sources(x) /\ j.got = <<>>
    BY <1>1, <2>1, <2>3 DEF Marking, Enters, Idle
  <2>5. Begun(x, s)
    BY <1>1, <1>5, <2>3 DEF StageInv, InFile
  <2>6. Sound(x)'
    BY <1>2, <1>5, <2>5 DEF Sound, Begun
  <2>7. s => Match(x, Sources(x))
    BY <2>5 DEF Match, Begun, Sources, ReadIn
  <2>8. Marks(x, <<>>, {})'
    BY DEF Marks
  <2>9. StageInv(j, still[p])'
    <3>1. PICK b : b = s
      OBVIOUS
    <3>2. Sources(x) \ j.todo = {}
      BY <2>4
    <3>3. Marks(j.entry, j.got, Sources(j.entry) \ j.todo)'
      BY <2>4, <2>8, <3>2 DEF Sources
    <3>4. b => Match(j.entry, Sources(j.entry))
      BY <2>4, <2>7, <3>1
    <3>5. Sound(j.entry)' /\ j.todo \subseteq Sources(j.entry)
      BY <2>4, <2>6
    <3>6. StageInv(j, b)'
      BY <1>1, <2>4, <3>3, <3>4, <3>5, MarkNext
    <3>7. b = still'[p]
      BY <1>1, <3>1
    <3> QED BY <3>6, <3>7
  <2> QED BY <1>1, <1>2, <1>3, <2>2, <2>9, CallStep
<1> QED BY <1>4, <1>5

LEMMA RecordEnds ==
    ASSUME TypeInv, NEW p \in Preparer, job[p].stage \in {"remember", "record"}
    PROVE  /\ StageInv(Answering(p, job[p].entry), still[p])
           /\ StageInv(Marking(p, job[p].entry, "record"), still[p])
           /\ StageInv(AfterMemory(p), still[p])
<1>1. job[p].comp \in Component /\ Sound(job[p].entry)
      /\ (still[p] => Match(job[p].entry, Sources(job[p].entry)))
  BY DEF TypeInv, StageInv
<1>2. still[p] /\ upset = {} => job[p].entry = Extract(files)
  BY <1>1, SoundIsExact DEF TypeInv
<1> QED BY <1>1, <1>2, Leaving DEF AfterMemory

(* A stamp taken now is of the text that was read, or upset tells. *)
LEMMA RememberStampStep ==
    ASSUME TypeInv, NEW p \in Preparer, RememberStamp(p), StampInv'
    PROVE  TypeInv'
<1>1. PICK f \in job[p].todo :
         /\ Becomes(p, IF Exists(f) THEN [job[p] EXCEPT !.todo = @ \ {f},
                                                        !.got = WithStamp(@, f)]
                                    ELSE AfterMemory(p))
         /\ upset' = Noted(p, f)
  BY DEF RememberStamp
<1>2. /\ job[p].stage = "remember" /\ DOMAIN job[p] = Field
      /\ UNCHANGED <<environment, caches, still>> /\ UNCHANGED <<files, edits>>
  BY DEF RememberStamp, At, environment, TypeInv, StampInv, JobInv
<1>3. upset \subseteq upset' /\ upset' \subseteq Mishap /\ (upset' = {} => upset = {})
  BY <1>1 DEF Noted, TypeInv, Bounds, Mishap
<1>4. Kept'
  BY <1>2, <1>3, CacheKept DEF TypeInv
<1>5. PICK b : b = still[p]
  OBVIOUS
<1>6. b = still'[p]
  BY <1>2, <1>5
<1>7. PICK x : x = job[p].entry
  OBVIOUS
<1>8. /\ job[p].comp \in Component /\ Sound(x) /\ job[p].todo \subseteq Sources(x)
      /\ Marks(x, job[p].got, Sources(x) \ job[p].todo)
      /\ b => Match(x, Sources(x))
  BY <1>2, <1>5, <1>7 DEF TypeInv, StageInv
<1>9. CASE ~Exists(f)
  <2>1. PICK j : j = AfterMemory(p)
    OBVIOUS
  <2>2. StageInv(j, b)
    BY <1>2, <1>5, <2>1, RecordEnds
  <2>3. StageInv(j, b)'
    BY <1>2, <1>3, <2>2, StageKept
  <2>4. Becomes(p, j)
    BY <1>1, <1>9, <2>1
  <2>5. StageInv(j, still[p])'
    BY <1>6, <2>3
  <2> QED BY <1>2, <1>3, <1>4, <2>4, <2>5, CallStep
<1>10. CASE Exists(f)
  <2>1. PICK g : g = WithStamp(job[p].got, f)
    OBVIOUS
  <2>2. PICK j : j = [job[p] EXCEPT !.todo = job[p].todo \ {f}, !.got = g]
    OBVIOUS
  <2>3. Becomes(p, j)
    BY <1>1, <1>10, <2>1, <2>2
  <2>4. /\ j.stage = "remember" /\ j.comp \in Component /\ j.entry = x
        /\ j.todo = job[p].todo \ {f} /\ j.got = g
    BY <1>2, <1>7, <1>8, <2>2 DEF Field
  <2>5. Sound(x)'
    <3>1. \A n : Absent(n) <=> Absent(n)'
      BY <1>2 DEF Absent, Exists
    <3> QED BY <1>2, <1>3, <1>8, <3>1 DEF Sound, First
  <2>6. f \in Sources(x) /\ Sources(x) \ (job[p].todo \ {f}) = (Sources(x) \ job[p].todo) \cup {f}
    BY <1>8
  <2>7. f \in File /\ files[f].stamp \in 0 .. edits
    <3>1. Sources(x) \subseteq File
      BY <1>8 DEF Sound, Extraction, Sources, File
    <3> QED BY <2>6, <3>1 DEF TypeInv, StampInv
  <2>8. /\ DOMAIN g = (Sources(x) \ job[p].todo) \cup {f} /\ g[f] = files[f].stamp
        /\ \A h \in Sources(x) \ job[p].todo : h # f => g[h] = job[p].got[h]
        /\ g = [h \in DOMAIN g |-> g[h]]
    <3>1. DOMAIN job[p].got = Sources(x) \ job[p].todo
      BY <1>8 DEF Marks
    <3> QED BY <2>1, <3>1 DEF WithStamp
  <2>9. ASSUME upset' = {} PROVE Vouched(ReadIn(x, f), g[f], f)
    <3>1. ~Overtakes(p, f)
      BY <1>1, <2>9 DEF Noted
    <3>2. files[f].text = ReadIn(x, f)
      BY <1>5, <1>7, <1>8, <1>10, <2>6, <3>1 DEF Overtakes, Match
    <3> QED BY <3>2 DEF Vouched
  <2>10. Marks(x, g, Sources(x) \ j.todo)'
    <3>1. g \in [(Sources(x) \ job[p].todo) \cup {f} -> 0 .. edits]
      BY <1>8, <2>7, <2>8 DEF Marks
    <3>2. upset' = {} => \A h \in (Sources(x) \ job[p].todo) \cup {f} : Vouched(ReadIn(x, h), g[h], h)
      BY <1>3, <1>8, <2>8, <2>9 DEF Marks
    <3>3. upset' = {} => \A h \in Sources(x) \ j.todo : Vouched(ReadIn(x, h), g[h], h)'
      BY <1>2, <2>4, <2>6, <3>2 DEF Vouched, Exists
    <3> QED BY <1>2, <2>4, <2>6, <3>1, <3>3 DEF Marks
  <2>11. StageInv(j, b)'
    <3>1. Marks(j.entry, j.got, Sources(j.entry) \ j.todo)' /\ Sound(j.entry)'
      BY <2>4, <2>5, <2>10
    <3>2. (b => Match(j.entry, Sources(j.entry))) /\ j.todo \subseteq Sources(j.entry)
      BY <1>8, <2>4
    <3> QED BY <1>2, <2>4, <3>1, <3>2, MarkNext
  <2>12. StageInv(j, still[p])'
    BY <1>6, <2>11
  <2> QED BY <1>2, <1>3, <1>4, <2>3, <2>12, CallStep
<1> QED BY <1>9, <1>10

LEMMA DigestStep ==
    ASSUME TypeInv, NEW p \in Preparer, Digest(p), StampInv'
    PROVE  TypeInv'
<1>1. PICK f \in job[p].todo :
         /\ Becomes(p, IF Exists(f) THEN [job[p] EXCEPT !.todo = @ \ {f}]
                                    ELSE Answering(p, job[p].entry))
         /\ upset' = Noted(p, f)
  BY DEF Digest
<1>2. /\ job[p].stage = "record" /\ DOMAIN job[p] = Field
      /\ UNCHANGED <<environment, caches, still>> /\ UNCHANGED <<files, edits>>
  BY DEF Digest, At, environment, TypeInv, StampInv, JobInv
<1>3. upset \subseteq upset' /\ upset' \subseteq Mishap /\ (upset' = {} => upset = {})
  BY <1>1 DEF Noted, TypeInv, Bounds, Mishap
<1>4. Kept'
  BY <1>2, <1>3, CacheKept DEF TypeInv
<1>5. StageInv([job[p] EXCEPT !.todo = @ \ {f}], still[p])
  <2>1. StageInv(job[p], still[p])
    BY DEF TypeInv
  <2> QED BY <1>2, <2>1 DEF StageInv, Field, InFile
<1>6. PICK j : Becomes(p, j) /\ StageInv(j, still[p])
  BY <1>1, <1>2, <1>5, RecordEnds
<1>7. PICK b : b = still[p]
  OBVIOUS
<1>8. StageInv(j, b)'
  BY <1>2, <1>3, <1>6, <1>7, StageKept
<1>9. StageInv(j, still[p])'
  BY <1>2, <1>7, <1>8
<1> QED BY <1>2, <1>3, <1>4, <1>6, <1>9, CallStep

(* The stages that only look. *)
LEMMA LookStep ==
    ASSUME TypeInv, NEW p \in Preparer, StampInv',
           \/ SsrLook(p) \/ SsrRead(p) \/ StampsHold(p) \/ DiskLook(p) \/ DigestsHold(p)
           \/ FileStamp(p) \/ FileHit(p) \/ FileMiss(p) \/ FileRead(p) \/ Resolve(p)
    PROVE  TypeInv'
<1> DEFINE s == still[p]
<1>1. /\ StageInv(job[p], s) /\ JobInv(job[p]) /\ DOMAIN job[p] = Field
      /\ Bounds /\ Kept /\ StampInv
  BY DEF TypeInv, StampInv, JobInv
<1>2. UNCHANGED <<environment, still, upset, caches>>
  BY DEF SsrLook, SsrRead, StampsHold, DiskLook, DigestsHold, FileStamp, FileHit, FileMiss, FileRead,
         Resolve, Undisturbed
<1>3. SUFFICES \E j : Becomes(p, j) /\ StageInv(j, s)
  BY <1>2, <1>3, QuietStep
<1>4. CASE SsrLook(p)
  <2>1. job[p].stage = "program" /\ job[p].comp \in Component
    BY <1>1, <1>4 DEF SsrLook, At, JobInv
  <2>2. CASE programs[job[p].comp] # None /\ programs[job[p].comp].stamp = job[p].seen
    <3>1. PICK t : t = programs[job[p].comp].text
      OBVIOUS
    <3>2. t \in Text \cup {None} /\ (s => t = files[Root].text)
      BY <1>1, <2>1, <2>2, <3>1 DEF Kept, StampInv, StageInv, Vouched
    <3>3. Becomes(p, Painted(p, t))
      BY <1>4, <2>2, <3>1 DEF SsrLook
    <3> QED BY <2>1, <3>2, <3>3, Leaving
  <2>3. CASE ~(programs[job[p].comp] # None /\ programs[job[p].comp].stamp = job[p].seen)
    <3>1. Becomes(p, [job[p] EXCEPT !.stage = "analyze"])
      BY <1>4, <2>3 DEF SsrLook, Goes
    <3>2. StageInv([job[p] EXCEPT !.stage = "analyze"], s)
      BY <1>1, <2>1 DEF StageInv, Field, Stage, InFile
    <3> QED BY <3>1, <3>2
  <2> QED BY <2>2, <2>3
<1>5. CASE SsrRead(p)
  <2> DEFINE j == [job[p] EXCEPT !.stage = "analyzed", !.text = files[Root].text]
  <2>1. files[Root].text \in Text \cup {None} /\ Becomes(p, j)
    BY <1>1, <1>5 DEF SsrRead, Bounds, File
  <2>2. StageInv(j, s)
    BY <1>1, <2>1 DEF StageInv, Field, Stage, InFile
  <2> QED BY <2>1, <2>2
<1>6. CASE StampsHold(p)
  <2>1. PICK f \in job[p].todo :
          Becomes(p, CASE ~Exists(f) \/ files[f].stamp # job[p].got[f] -> Enters(p, "disk")
                       [] OTHER -> IF job[p].todo = {f} THEN Answering(p, job[p].entry)
                                   ELSE [job[p] EXCEPT !.todo = @ \ {f}])
    BY <1>6 DEF StampsHold
  <2>2. PICK x : x = job[p].entry
    OBVIOUS
  <2>3. /\ job[p].stage = "stamps" /\ job[p].comp \in Component
        /\ Sound(x) /\ Marks(x, job[p].got, Sources(x)) /\ job[p].todo \subseteq Sources(x)
        /\ s => \A g \in Sources(x) \ job[p].todo : Exists(g) /\ files[g].stamp = job[p].got[g]
    BY <1>1, <1>6, <2>2 DEF StampsHold, At, StageInv
  <2>4. CASE ~Exists(f) \/ files[f].stamp # job[p].got[f]
    BY <2>1, <2>3, <2>4, Leaving
  <2>5. CASE Exists(f) /\ files[f].stamp = job[p].got[f] /\ job[p].todo = {f}
    <3>1. Becomes(p, Answering(p, x))
      BY <2>1, <2>2, <2>5
    <3>2. s /\ upset = {} => Match(x, Sources(x))
      BY <2>3, <2>5, MarksMatch
    <3>3. s /\ upset = {} => x = Extract(files)
      BY <1>1, <2>3, <3>2, SoundIsExact
    <3> QED BY <2>3, <3>1, <3>3, Leaving
  <2>6. CASE Exists(f) /\ files[f].stamp = job[p].got[f] /\ job[p].todo # {f}
    <3> DEFINE j == [job[p] EXCEPT !.todo = @ \ {f}]
    <3>1. Becomes(p, j)
      BY <2>1, <2>6
    <3>2. /\ j.stage = "stamps" /\ j.comp \in Component /\ j.entry = x
          /\ j.todo = job[p].todo \ {f} /\ j.got = job[p].got
      BY <1>1, <2>2, <2>3 DEF Field
    <3>3. s => \A g \in Sources(x) \ j.todo : Exists(g) /\ files[g].stamp = job[p].got[g]
      BY <2>3, <2>6, <3>2
    <3> HIDE DEF j
    <3>4. StageInv(j, s)
      BY <2>3, <3>2, <3>3 DEF StageInv, Stage, InFile
    <3> QED BY <3>1, <3>4
  <2> QED BY <2>4, <2>5, <2>6
<1>7. CASE DiskLook(p)
  <2>1. job[p].comp \in Component
    BY <1>1, <1>7 DEF DiskLook, At, StageInv
  <2>2. disk[job[p].comp] # None => Sound(disk[job[p].comp])
    BY <1>1, <2>1 DEF Kept
  <2> QED BY <1>7, <2>1, <2>2, Leaving DEF DiskLook
<1>8. CASE DigestsHold(p)
  <2>1. PICK f \in job[p].todo :
          Becomes(p, CASE files[f].text # ReadIn(job[p].entry, f) -> Reading(p, Root, None)
                       [] OTHER -> IF job[p].todo = {f}
                                   THEN [Marking(p, job[p].entry, "remember") EXCEPT !.fromDisk = TRUE]
                                   ELSE [job[p] EXCEPT !.todo = @ \ {f}])
    BY <1>8 DEF DigestsHold
  <2>2. PICK x : x = job[p].entry
    OBVIOUS
  <2>3. /\ job[p].stage = "digests" /\ job[p].comp \in Component
        /\ Sound(x) /\ job[p].todo \subseteq Sources(x)
        /\ s => Match(x, Sources(x) \ job[p].todo)
    BY <1>1, <1>8, <2>2 DEF DigestsHold, At, StageInv
  <2>4. CASE files[f].text # ReadIn(x, f)
    BY <2>1, <2>2, <2>3, <2>4, Leaving
  <2>5. CASE files[f].text = ReadIn(x, f) /\ job[p].todo = {f}
    <3>1. Becomes(p, [Marking(p, x, "remember") EXCEPT !.fromDisk = TRUE])
      BY <2>1, <2>2, <2>5
    <3>2. s => Match(x, Sources(x))
      BY <2>3, <2>5 DEF Match
    <3> QED BY <2>3, <3>1, <3>2, Leaving
  <2>6. CASE files[f].text = ReadIn(x, f) /\ job[p].todo # {f}
    <3> DEFINE j == [job[p] EXCEPT !.todo = @ \ {f}]
    <3>1. Becomes(p, j)
      BY <2>1, <2>2, <2>6
    <3>2. j.stage = "digests" /\ j.comp \in Component /\ j.entry = x /\ j.todo = job[p].todo \ {f}
      BY <1>1, <2>2, <2>3 DEF Field
    <3>3. s => Match(x, Sources(x) \ j.todo)
      BY <2>3, <2>6, <3>2 DEF Match
    <3> HIDE DEF j
    <3>4. StageInv(j, s)
      BY <2>3, <3>2, <3>3 DEF StageInv, Stage, InFile
    <3> QED BY <3>1, <3>4
  <2> QED BY <2>4, <2>5, <2>6
<1>9. CASE FileStamp(p) \/ FileMiss(p)
  <2>1. job[p].stage \in {"file", "parsed"} /\ Exists(job[p].file)
    BY <1>9 DEF FileStamp, FileMiss, At
  <2>2. ASSUME NEW t \in {"parsed", "read"}
        PROVE  StageInv([job[p] EXCEPT !.stage = t, !.seen = files[job[p].file].stamp], s)
    BY <1>1, <2>1 DEF StageInv, Field, Stage, InFile
  <2> QED BY <1>9, <2>2 DEF FileStamp, FileMiss
<1>10. CASE FileHit(p)
  <2>1. PICK t : t = parsed[job[p].file].text
    OBVIOUS
  <2>2. job[p].stage = "parsed" /\ job[p].file \in File /\ Becomes(p, Followed(p, t))
    BY <1>1, <1>10, <2>1 DEF FileHit, At, JobInv
  <2>3. parsed[job[p].file] # None /\ parsed[job[p].file].stamp = job[p].seen
    BY <1>10 DEF FileHit, IsParsed
  <2>4. t \in Text /\ (s => t = files[job[p].file].text)
    BY <1>1, <2>1, <2>2, <2>3 DEF Kept, StampInv, StageInv, Vouched
  <2> QED BY <2>2, <2>4, FollowedExact DEF InFile
<1>11. CASE FileRead(p)
  <2> DEFINE j == [job[p] EXCEPT !.stage = "keep", !.text = files[job[p].file].text]
  <2>1. job[p].stage = "read" /\ job[p].file \in File /\ Becomes(p, j)
    BY <1>1, <1>11 DEF FileRead, At, JobInv
  <2>2. files[job[p].file].text \in Text
    BY <1>1, <1>11, <2>1 DEF FileRead, Exists, Bounds
  <2>3. StageInv(j, s)
    BY <1>1, <2>1, <2>2 DEF StageInv, Field, Stage, InFile
  <2> QED BY <2>1, <2>3
<1>12. CASE Resolve(p)
  <2> DEFINE n == job[p].tried + 1
  <2>1. PICK x : x = job[p].entry
    OBVIOUS
  <2>2. /\ job[p].stage = "resolve" /\ job[p].comp \in Component /\ Begun(x, s)
        /\ job[p].tried \in Nat /\ job[p].tried <= Len(Candidate)
        /\ upset = {} => Absent(n)
    BY <1>1, <1>12, <2>1 DEF Resolve, At, StageInv, JobInv
  <2>3. Becomes(p, CASE n > Len(Candidate)   -> Marking(p, x, "remember")
                     [] n <= Len(Candidate) /\ Exists(Candidate[n]) -> Reading(p, Candidate[n], x)
                     [] OTHER                -> [job[p] EXCEPT !.tried = n])
    BY <1>12, <2>1 DEF Resolve
  <2>4. DOMAIN Candidate = 1 .. Len(Candidate) /\ Len(Candidate) \in Nat
    OBVIOUS
  <2>5. CASE n > Len(Candidate)
    <3>1. n = Len(Candidate) + 1
      BY <2>2, <2>4, <2>5
    <3>2. Sound(x)
      BY <2>2, <3>1 DEF Sound, First, Begun
    <3>3. s => Match(x, Sources(x))
      BY <2>2 DEF Match, Sources, ReadIn, Begun
    <3>4. Becomes(p, Marking(p, x, "remember"))
      BY <2>3, <2>4, <2>5, <3>1
    <3> QED BY <2>2, <3>2, <3>3, <3>4, Leaving
  <2>6. CASE n <= Len(Candidate) /\ Exists(Candidate[n])
    <3>1. n \in DOMAIN Candidate
      BY <2>2, <2>4, <2>6
    <3>2. PICK m \in DOMAIN Candidate : m = n
      BY <3>1
    <3>3. Becomes(p, Reading(p, Candidate[m], x))
      BY <2>3, <2>4, <2>6, <3>1, <3>2
    <3>4. StageInv(Reading(p, Candidate[m], x), s)
      BY <2>2, <3>2 DEF StageInv, Reading, Enters, Idle, Stage, InFile
    <3> QED BY <3>3, <3>4
  <2>7. CASE n <= Len(Candidate) /\ ~Exists(Candidate[n])
    <3> DEFINE j == [job[p] EXCEPT !.tried = n]
    <3>1. Becomes(p, j)
      BY <2>2, <2>3, <2>4, <2>7
    <3>2. upset = {} => Absent(n + 1)
      <4>1. \A i \in DOMAIN Candidate : i < n + 1 => i < n \/ i = n
        BY <2>2, <2>4
      <4> QED BY <2>2, <2>7, <4>1 DEF Absent
    <3>3. j.stage = "resolve" /\ j.comp \in Component /\ j.entry = x /\ j.tried = n
      BY <1>1, <2>1, <2>2 DEF Field
    <3> HIDE DEF j
    <3>4. StageInv(j, s)
      BY <2>2, <2>7, <3>2, <3>3 DEF StageInv, Stage, InFile
    <3> QED BY <3>1, <3>4
  <2> QED BY <2>2, <2>4, <2>5, <2>6, <2>7
<1> QED BY <1>4, <1>5, <1>6, <1>7, <1>8, <1>9, <1>10, <1>11, <1>12

(* The stages that leave something in a cache. *)
LEMMA KeepStep ==
    ASSUME TypeInv, NEW p \in Preparer, StampInv',
           SsrStore(p) \/ FileKeep(p) \/ Remember(p) \/ Publish(p)
    PROVE  TypeInv'
<1> DEFINE s == still[p]
<1>1. /\ StageInv(job[p], s) /\ JobInv(job[p]) /\ Bounds /\ Kept
  BY DEF TypeInv, StampInv
<1>2. UNCHANGED <<environment, still, upset>> /\ UNCHANGED <<files, edits, still, upset>>
  BY DEF SsrStore, FileKeep, Remember, Publish, Undisturbed, environment
<1>3. /\ \A x : Sound(x) => Sound(x)'
      /\ \A x, g, fs : Marks(x, g, fs) => Marks(x, g, fs)'
  <2>1. \A n : Absent(n) <=> Absent(n)'
    BY <1>2 DEF Absent, Exists
  <2> QED BY <1>2, <2>1 DEF Sound, First, Marks, Vouched, Exists
<1>4. ASSUME NEW j, Becomes(p, j), StageInv(j, s), Kept' PROVE TypeInv'
  <2>1. PICK b : b = s
    OBVIOUS
  <2>2. StageInv(j, b)'
    BY <1>2, <1>4, <2>1, StageKept
  <2>3. StageInv(j, still[p])'
    BY <1>2, <2>1, <2>2
  <2>4. upset \subseteq upset' /\ upset' \subseteq Mishap
    BY <1>1, <1>2 DEF Bounds
  <2> QED BY <1>2, <1>4, <2>3, <2>4, CallStep
<1>5. \A n \in 0 .. edits : n \in Stamp
  BY <1>1 DEF Bounds, Stamp
<1>6. CASE SsrStore(p)
  <2>1. job[p].stage = "analyzed" /\ job[p].comp \in Component /\ job[p].seen \in Stamp
    BY <1>1, <1>5, <1>6 DEF SsrStore, At, JobInv
  <2>2. job[p].text \in Text \cup {None} /\ (s => job[p].text = files[Root].text)
    BY <1>1, <2>1 DEF StageInv
  <2>3. StageInv(Painted(p, job[p].text), s) /\ Becomes(p, Painted(p, job[p].text))
    BY <1>6, <2>1, <2>2, Leaving DEF SsrStore
  <2>4. /\ programs' = [programs EXCEPT ![job[p].comp] = [text |-> job[p].text, stamp |-> job[p].seen]]
        /\ UNCHANGED <<parsed, mem, disk>>
    BY <1>6 DEF SsrStore
  <2>5. programs' \in [Component -> [text : Text \cup {None}, stamp : Stamp] \cup {None}]
    BY <1>1, <2>1, <2>2, <2>4 DEF Kept
  <2>6. Kept'
    BY <1>1, <1>3, <2>4, <2>5 DEF Kept, Remembered
  <2> QED BY <1>4, <2>3, <2>6
<1>7. CASE FileKeep(p)
  <2>1. job[p].stage = "keep" /\ job[p].file \in File /\ job[p].seen \in Stamp
    BY <1>1, <1>5, <1>7 DEF FileKeep, At, JobInv
  <2>2. job[p].text \in Text /\ (s => job[p].text = files[job[p].file].text)
    BY <1>1, <2>1 DEF StageInv
  <2>3. StageInv(Followed(p, job[p].text), s) /\ Becomes(p, Followed(p, job[p].text))
    BY <1>7, <2>1, <2>2, FollowedExact DEF FileKeep, InFile
  <2>4. /\ parsed' = [parsed EXCEPT ![job[p].file] = [text |-> job[p].text, stamp |-> job[p].seen]]
        /\ UNCHANGED <<mem, disk, programs>>
    BY <1>7 DEF FileKeep
  <2>5. parsed' \in [File -> [text : Text, stamp : Stamp] \cup {None}]
    BY <1>1, <2>1, <2>2, <2>4 DEF Kept
  <2>6. Kept'
    BY <1>1, <1>3, <2>4, <2>5 DEF Kept, Remembered
  <2> QED BY <1>4, <2>3, <2>6
<1>8. CASE Remember(p)
  <2>1. PICK x : x = job[p].entry
    OBVIOUS
  <2>2. /\ job[p].stage = "remember" /\ job[p].comp \in Component /\ job[p].todo = {}
        /\ Sound(x) /\ Marks(x, job[p].got, Sources(x) \ job[p].todo)
    BY <1>1, <1>8, <2>1 DEF Remember, At, StageInv
  <2>3. PICK g : g = job[p].got
    OBVIOUS
  <2>4. Marks(x, g, Sources(x))
    BY <2>2, <2>3 DEF Marks
  <2>5. StageInv(AfterMemory(p), s) /\ Becomes(p, AfterMemory(p))
    BY <1>8, <2>2, RecordEnds DEF Remember
  <2>6. /\ mem' = [mem EXCEPT ![job[p].comp] = [extraction |-> x, stamps |-> g]]
        /\ UNCHANGED <<parsed, disk, programs>>
    BY <1>8, <2>1, <2>3 DEF Remember
  <2>7. ASSUME NEW k \in Component, mem'[k] # None PROVE Remembered(mem[k])'
    <3>1. PICK r : r = mem'[k]
      OBVIOUS
    <3>2. CASE k = job[p].comp
      <4>1. r = [extraction |-> x, stamps |-> g]
        BY <1>1, <2>6, <3>1, <3>2 DEF Kept
      <4>2. Sound(x)' /\ Marks(x, g, Sources(x))'
        BY <1>3, <2>2, <2>4 DEF Sources
      <4>3. r.extraction = x /\ r.stamps = g
        BY <4>1
      <4> QED BY <3>1, <4>2, <4>3 DEF Remembered
    <3>3. CASE k # job[p].comp
      <4>1. mem'[k] = mem[k] /\ Remembered(mem[k])
        BY <1>1, <2>6, <2>7, <3>3 DEF Kept
      <4>2. Sound(r.extraction) /\ Marks(r.extraction, r.stamps, Sources(r.extraction))
        BY <3>1, <4>1 DEF Remembered
      <4>3. Sound(r.extraction)' /\ Marks(r.extraction, r.stamps, Sources(r.extraction))'
        BY <1>3, <4>2 DEF Sources
      <4> QED BY <3>1, <4>3 DEF Remembered
    <3> QED BY <3>2, <3>3
  <2>8. DOMAIN mem' = Component
    BY <1>1, <2>6 DEF Kept
  <2>9. Kept'
    BY <1>1, <1>3, <2>6, <2>7, <2>8 DEF Kept
  <2> QED BY <1>4, <2>5, <2>9
<1>9. CASE Publish(p)
  <2>1. PICK x : x = job[p].entry
    OBVIOUS
  <2>2. job[p].stage = "record" /\ job[p].comp \in Component /\ Sound(x)
    BY <1>1, <1>9, <2>1 DEF Publish, At, StageInv
  <2>3. StageInv(Answering(p, x), s) /\ Becomes(p, Answering(p, x))
    BY <1>9, <2>1, <2>2, RecordEnds DEF Publish
  <2>4. disk' \in {disk, [disk EXCEPT ![job[p].comp] = x]} /\ UNCHANGED <<parsed, mem, programs>>
    BY <1>9, <2>1 DEF Publish
  <2>5. DOMAIN disk' = Component /\ \A k \in Component : disk'[k] \in {disk[k], x}
    BY <1>1, <2>4 DEF Kept
  <2>6. \A k \in Component : disk'[k] # None => Sound(disk'[k])
    BY <1>1, <2>2, <2>5 DEF Kept
  <2>7. \A k \in Component : disk'[k] # None => Sound(disk[k])'
    BY <1>3, <2>6
  <2>8. Kept'
    BY <1>1, <1>3, <2>4, <2>5, <2>7 DEF Kept, Remembered
  <2> QED BY <1>4, <2>3, <2>8
<1> QED BY <1>6, <1>7, <1>8, <1>9

(* While nothing is upset an edit brings up no candidate before one in use. *)
LEMMA NothingAppears ==
    ASSUME Bounds, NEW f \in File, NEW t \in Text \cup {None}, Edit(f, t), Known, upset' = {},
           NEW n \in Int, Absent(n)
    PROVE  Absent(n)'
<1>1. SUFFICES ASSUME NEW i \in DOMAIN Candidate, i < n, Exists(Candidate[i])' PROVE FALSE
  BY DEF Absent
<1>2. files' = [files EXCEPT ![f] = [text |-> t, stamp |-> edits + 1]] /\ DOMAIN files = File
  BY DEF Edit, Bounds
<1>3. \A h : h # f => files'[h] = files[h]
  BY <1>2
<1>4. Candidate[i] = f /\ ~Exists(f)
  BY <1>1, <1>3 DEF Absent, Exists
<1> DEFINE there == {j \in DOMAIN Candidate : files'[Candidate[j]].text # None}
<1>5. i \in there /\ there \subseteq Nat
  BY <1>1 DEF Exists
<1>6. PICK m \in there : \A j \in there : m <= j
  <2>1. PICK R : R = OpToRel(<, Nat)
    OBVIOUS
  <2>2. IsWellFoundedOn(R, Nat)
    BY <2>1, NatLessThanWellFounded, Zenon
  <2>3. \A x, y \in Nat : <<x, y>> \in R <=> x < y
    <3>1. \A x, y \in Nat : <<x, y>> \in OpToRel(<, Nat) <=> x < y
      BY DEF OpToRel
    <3> QED BY <2>1, <3>1, Zenon
  <2>4. there \subseteq Nat /\ there # {}
    BY <1>5
  <2>5. \E m \in there : \A j \in there : ~(<<j, m>> \in R)
    <3> HIDE DEF there
    <3> QED BY <2>2, <2>4, WFMin, Zenon
  <2>6. PICK m \in there : \A j \in there : ~(<<j, m>> \in R)
    BY <2>5
  <2>7. ASSUME NEW j \in there PROVE m <= j
    <3>1. j \in Nat /\ m \in Nat /\ ~(<<j, m>> \in R)
      BY <2>4, <2>6
    <3>2. ~(j < m)
      BY <2>3, <3>1
    <3> QED BY <3>1, <3>2
  <2> QED BY <2>7
<1>7. \A j \in there : (\A h \in there : j <= h) => j = m
  BY <1>5, <1>6
<1>8. Resolved(files') = Candidate[m]
  <2>1. (CHOOSE j \in there : \A h \in there : j <= h) = m
    BY <1>6, <1>7
  <2> QED BY <1>6, <2>1 DEF Resolved
<1>9. m < n
  BY <1>1, <1>5, <1>6
<1>10. Candidate[m] = f
  BY <1>3, <1>6, <1>9 DEF Absent, Exists
<1>11. Mishap \cap {"appeared"} # {} /\ upset' = upset \cup {"appeared"}
  BY <1>4, <1>8, <1>10 DEF Edit, Mishap
<1> QED BY <1>11

LEMMA EditTyped ==
    ASSUME TypeInv, NEW f \in File, NEW t \in Text \cup {None}, Edit(f, t), StampInv'
    PROVE  TypeInv'
<1>1. /\ edits' = edits + 1 /\ edits < MaxEdits
      /\ files' = [files EXCEPT ![f] = [text |-> t, stamp |-> edits + 1]]
      /\ still' = [p \in Preparer |-> job[p].stage = "idle"]
      /\ UNCHANGED <<parsed, mem, disk, programs, job, restarts>>
  BY DEF Edit, caches
<1>2. upset' \subseteq Mishap /\ (upset' = {} => upset = {})
  BY DEF Edit, TypeInv, Bounds, Mishap
<1>3. edits + 1 \in Stamp /\ edits' \in 0 .. MaxEdits
  BY <1>1 DEF TypeInv, Bounds, Stamp
<1>4. Bounds'
  <2>1. files' \in [File -> [text : Text \cup {None}, stamp : Stamp]]
    BY <1>1, <1>3 DEF TypeInv, Bounds
  <2> QED BY <1>1, <1>2, <1>3, <2>1 DEF TypeInv, Bounds
<1>5. ASSUME NEW x, Sound(x), Known PROVE Sound(x)'
  <2>1. ASSUME upset' = {}, NEW n \in Int, Absent(n) PROVE Absent(n)'
    BY <1>5, <2>1, NothingAppears DEF TypeInv
  <2>2. \A n \in Int : upset' = {} /\ Absent(n) => Absent(n)'
    BY <2>1
  <2>3. upset' = {} => First(x)
    BY <1>2, <1>5 DEF Sound
  <2>4. Len(Candidate) + 1 \in Int /\ DOMAIN Candidate \subseteq Int
    OBVIOUS
  <2>5. upset' = {} => First(x)'
    BY <2>2, <2>3, <2>4 DEF First
  <2> QED BY <1>5, <2>5 DEF Sound
<1>6. ASSUME NEW text, NEW stamp \in 0 .. edits, NEW g \in File, Vouched(text, stamp, g)
      PROVE  Vouched(text, stamp, g)'
  BY <1>1, <1>6 DEF Vouched, Exists, TypeInv, Bounds
<1>7. ASSUME NEW x, NEW got, NEW fs \in SUBSET File, Marks(x, got, fs) PROVE Marks(x, got, fs)'
  <2>1. got \in [fs -> 0 .. edits']
    BY <1>1, <1>7 DEF Marks, TypeInv, Bounds
  <2>2. upset' = {} => \A g \in fs : Vouched(ReadIn(x, g), got[g], g)'
    BY <1>2, <1>6, <1>7 DEF Marks
  <2> QED BY <2>1, <2>2 DEF Marks
<1>8. \A x : Sound(x) => Sources(x) \subseteq File
  BY DEF Sound, Extraction, Sources, File
<1>9. Kept'
  <2>1. ASSUME NEW k \in Component, mem[k] # None PROVE Remembered(mem[k])'
    <3>1. PICK r : r = mem[k]
      OBVIOUS
    <3>2. Known
      BY <2>1 DEF Known
    <3>3. Sound(r.extraction) /\ Marks(r.extraction, r.stamps, Sources(r.extraction))
      BY <2>1, <3>1 DEF TypeInv, Kept, Remembered
    <3>4. Sound(r.extraction)' /\ Marks(r.extraction, r.stamps, Sources(r.extraction))'
      BY <1>5, <1>7, <1>8, <3>2, <3>3 DEF Sources
    <3>5. r = mem'[k]
      BY <1>1, <3>1
    <3> QED BY <3>4, <3>5 DEF Remembered
  <2>2. ASSUME NEW k \in Component, disk[k] # None PROVE Sound(disk[k])'
    <3>1. PICK r : r = disk[k]
      OBVIOUS
    <3>2. Sound(r) /\ Known
      BY <2>2, <3>1 DEF TypeInv, Kept, Known
    <3>3. Sound(r)'
      BY <1>5, <3>2
    <3>4. r = disk'[k]
      BY <1>1, <3>1
    <3> QED BY <3>3, <3>4
  <2> QED BY <1>1, <2>1, <2>2 DEF TypeInv, Kept
<1>10. ASSUME NEW q \in Preparer PROVE StageInv(job[q], still[q])'
  <2>1. PICK j : j = job[q]
    OBVIOUS
  <2>2. StageInv(j, still[q]) /\ JobInv(j) /\ job'[q] = j /\ still'[q] = (j.stage = "idle")
    BY <1>1, <2>1 DEF TypeInv, StampInv
  <2>3. CASE j.stage = "idle"
    <3>1. StageInv(j, TRUE)'
      BY <2>2, <2>3 DEF StageInv, InFile
    <3> QED BY <2>2, <2>3, <3>1
  <2>4. CASE j.stage # "idle"
    <3>1. Known
      BY <2>1, <2>4 DEF Known
    <3>2. \A x : Sound(x) => Sound(x)' /\ Sources(x) \subseteq File
      BY <1>5, <1>8, <3>1
    <3>3. \A n \in Int : (upset = {} => Absent(n)) => (upset' = {} => Absent(n)')
      BY <1>2, <3>1, NothingAppears DEF TypeInv
    <3>4. \A x, got : \A fs \in SUBSET File : Marks(x, got, fs) => Marks(x, got, fs)'
      BY <1>7
    <3>5. \A x : Begun(x, still[q]) => Begun(x, FALSE)'
      BY DEF Begun
    <3>6. j.stage \in InFile /\ j.file # Root =>
             \E m \in DOMAIN Candidate : j.file = Candidate[m] /\ (upset' = {} => Absent(m)')
      <4>1. DOMAIN Candidate \subseteq Int
        OBVIOUS
      <4> QED BY <2>2, <3>3, <4>1 DEF StageInv
    <3>7. j.stage = "resolve" => (upset' = {} => Absent(j.tried + 1)')
      <4>1. j.tried + 1 \in Int
        BY <2>2 DEF JobInv
      <4> QED BY <2>2, <3>3, <4>1 DEF StageInv
    <3>8. StageInv(j, FALSE)'
      BY <2>2, <3>2, <3>4, <3>5, <3>6, <3>7 DEF StageInv
    <3>9. still'[q] = FALSE
      BY <2>2, <2>4
    <3> QED BY <2>2, <3>8, <3>9
  <2> QED BY <2>3, <2>4
<1> QED BY <1>4, <1>9, <1>10 DEF TypeInv

LEMMA TypeStep ==
    ASSUME TypeInv, [Next]_vars, StampInv'
    PROVE  TypeInv'
<1>1. ASSUME NEW p \in Preparer, Work(p) PROVE TypeInv'
  <2>1. CASE End(p)
    <3>1. Becomes(p, Idle) /\ still' = [still EXCEPT ![p] = TRUE] /\ UNCHANGED <<environment, caches, upset>>
      BY <2>1 DEF End
    <3>2. UNCHANGED <<files, edits, restarts, upset>>
      BY <3>1 DEF environment
    <3>3. Kept' /\ Bounds'
      BY <3>1, <3>2, CacheKept DEF TypeInv, Bounds
    <3>4. ASSUME NEW q \in Preparer PROVE StageInv(job[q], still[q])'
      <4>1. CASE q = p
        <5>1. StageInv(Idle, TRUE)'
          BY DEF StageInv, Idle, Stage, InFile
        <5>2. job'[q] = Idle /\ still'[q] = TRUE
          BY <3>1, <4>1 DEF Becomes, TypeInv, StampInv, Bounds
        <5> QED BY <5>1, <5>2
      <4>2. CASE q # p
        <5>1. job'[q] = job[q] /\ still'[q] = still[q]
          BY <3>1, <4>2 DEF Becomes, TypeInv, StampInv, Bounds
        <5>2. \A j, s : StageInv(j, s) => StageInv(j, s)'
          BY <3>2, StageKept
        <5>3. StageInv(job[q], still[q])
          BY DEF TypeInv
        <5> QED BY <5>1, <5>2, <5>3
      <4> QED BY <4>1, <4>2
    <3> QED BY <3>3, <3>4 DEF TypeInv
  <2> QED BY <1>1, <2>1, LookStep, KeepStep, FileGoneStep, RememberStampStep, DigestStep DEF Work
<1>2. ASSUME NEW p \in Preparer, NEW k \in Component, SsrStamp(p, k) \/ MemLook(p, k) PROVE TypeInv'
  <2>1. UNCHANGED <<environment, still, upset, caches>>
    BY <1>2 DEF SsrStamp, MemLook, Undisturbed
  <2>2. \E j : Becomes(p, j) /\ StageInv(j, still[p])
    <3>1. CASE SsrStamp(p, k)
      <4>1. CASE Exists(Root)
        <5>1. StageInv([Idle EXCEPT !.stage = "program", !.comp = k, !.seen = files[Root].stamp], still[p])
          BY <4>1 DEF StageInv, Idle, Stage, InFile
        <5> QED BY <3>1, <4>1, <5>1 DEF SsrStamp
      <4>2. CASE ~Exists(Root)
        <5>1. StageInv([Idle EXCEPT !.stage = "painted", !.comp = k], still[p])
          BY <4>2 DEF StageInv, Idle, Stage, InFile, Exists
        <5> QED BY <3>1, <4>2, <5>1 DEF SsrStamp
      <4> QED BY <4>1, <4>2
    <3>2. CASE MemLook(p, k) /\ mem[k] = None
      <4>1. StageInv([Idle EXCEPT !.stage = "disk", !.comp = k], still[p])
        BY DEF StageInv, Idle, Stage, InFile
      <4> QED BY <3>2, <4>1 DEF MemLook
    <3>3. CASE MemLook(p, k) /\ mem[k] # None
      <4>1. Sound(mem[k].extraction) /\ Marks(mem[k].extraction, mem[k].stamps, Sources(mem[k].extraction))
        BY <3>3 DEF TypeInv, Kept, Remembered
      <4>2. DOMAIN mem[k].stamps = Sources(mem[k].extraction)
        BY <4>1 DEF Marks
      <4>3. StageInv([Idle EXCEPT !.stage = "stamps", !.comp = k, !.entry = mem[k].extraction,
                                  !.got = mem[k].stamps, !.todo = DOMAIN mem[k].stamps], still[p])
        BY <4>1, <4>2 DEF StageInv, Idle, Stage, InFile
      <4> QED BY <3>3, <4>3 DEF MemLook
    <3> QED BY <1>2, <3>1, <3>2, <3>3
  <2> QED BY <2>1, <2>2, QuietStep
<1>3. ASSUME NEW f \in File, NEW t \in Text \cup {None}, Edit(f, t) PROVE TypeInv'
  BY <1>3, EditTyped
<1>4. \A n : UNCHANGED files => (Absent(n) <=> Absent(n)')
  BY DEF Absent, Exists
<1>5. \A x : UNCHANGED <<files, upset>> /\ Sound(x) => Sound(x)'
  BY <1>4 DEF Sound, First
<1>6. \A x, g, fs : UNCHANGED <<files, edits, upset>> /\ Marks(x, g, fs) => Marks(x, g, fs)'
  BY DEF Marks, Vouched, Exists
<1>7. ASSUME NEW k \in Component, Invalidate(k) PROVE TypeInv'
  <2>1. /\ mem' = [mem EXCEPT ![k] = None] /\ programs' = [programs EXCEPT ![k] = None]
        /\ UNCHANGED <<parsed, disk, job, files, edits, restarts, still, upset>>
    BY <1>7 DEF Invalidate, environment
  <2>2. programs' \in [Component -> [text : Text \cup {None}, stamp : Stamp] \cup {None}]
    BY <2>1 DEF TypeInv, Kept
  <2>3. Kept'
    BY <1>5, <1>6, <2>1, <2>2 DEF TypeInv, Kept, Remembered
  <2>4. \A j, s : StageInv(j, s) => StageInv(j, s)'
    BY <2>1, StageKept
  <2> QED BY <2>1, <2>3, <2>4 DEF TypeInv, Bounds
<1>8. CASE Restart
  <2>1. /\ restarts' \in 0 .. MaxRestarts /\ UNCHANGED <<files, edits, upset>>
        /\ disk' = [k \in Component |-> IF k \in Named THEN disk[k] ELSE None]
        /\ parsed' = [f \in File |-> None] /\ mem' = [k \in Component |-> None]
        /\ programs' = [k \in Component |-> None]
        /\ job' = [p \in Preparer |-> Idle] /\ still' = [p \in Preparer |-> TRUE]
    BY <1>8 DEF Restart, TypeInv, Bounds
  <2>2. \A k \in Component : disk'[k] # None => Sound(disk[k])'
    <3>1. \A k \in Component : disk'[k] # None => disk'[k] = disk[k] /\ Sound(disk'[k])
      BY <2>1 DEF TypeInv, Kept
    <3> QED BY <1>5, <2>1, <3>1
  <2>3. Kept'
    BY <2>1, <2>2 DEF Kept
  <2>4. StageInv(Idle, TRUE)'
    BY DEF StageInv, Idle, Stage, InFile
  <2>5. \A p \in Preparer : StageInv(job[p], still[p])'
    BY <2>1, <2>4
  <2> QED BY <2>1, <2>3, <2>5 DEF TypeInv, Bounds
<1>9. CASE UNCHANGED vars
  <2>1. UNCHANGED <<files, edits, restarts, still, upset, job, caches>>
    BY <1>9 DEF vars, caches
  <2>2. Kept'
    BY <2>1, CacheKept DEF TypeInv
  <2>3. \A j, s : StageInv(j, s) => StageInv(j, s)'
    BY <2>1, StageKept
  <2> QED BY <2>1, <2>2, <2>3 DEF TypeInv, Bounds
<1> QED BY <1>1, <1>2, <1>3, <1>7, <1>8, <1>9 DEF Next

LEMMA TypeStart == Init => TypeInv
<1> SUFFICES ASSUME Init PROVE TypeInv
  OBVIOUS
<1>1. PICK fs \in [File -> Text \cup {None}] : files = [f \in File |-> [text |-> fs[f], stamp |-> 0]]
  BY DEF Init
<1>2. /\ parsed = [f \in File |-> None] /\ mem = [k \in Component |-> None]
      /\ disk = mem /\ programs = mem /\ job = [p \in Preparer |-> Idle]
      /\ edits = 0 /\ restarts = 0 /\ still = [p \in Preparer |-> TRUE] /\ upset = {}
  BY DEF Init
<1>3. Bounds
  BY <1>1, <1>2 DEF Bounds, Stamp
<1>4. Kept
  BY <1>2 DEF Kept
<1>5. \A p \in Preparer : StageInv(job[p], still[p])
  BY <1>2 DEF StageInv, Idle, Stage, InFile
<1> QED BY <1>3, <1>4, <1>5, StampStart DEF TypeInv

(* What every variable of the caches holds, for any components and files. *)
THEOREM TypeInvariant == Spec => []TypeOK
BY TypeStart, TypeStep, StampStep, Typed, PTL DEF Spec, TypeInv

(* Outside of the three named mishaps, memory and disk vouch for no type that  *)
(* an extraction would not find now, for any candidates, edits and restarts.   *)
THEOREM TypesVouched == Spec => []VouchedTypeIsCurrent
BY TypeStart, TypeStep, StampStep, Typed, PTL DEF Spec, TypeInv

(* And a call nothing was edited during answers from the files as they are.    *)
THEOREM CallsExact == Spec => []StillCallIsExact
BY TypeStart, TypeStep, StampStep, Typed, PTL DEF Spec, TypeInv
=============================================================================
