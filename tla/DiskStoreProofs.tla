--------------------------- MODULE DiskStoreProofs ---------------------------
(* Theorems about DiskStore, for any entries, artifacts and attempts. *)
EXTENDS DiskStore, TLAPS

Removing == at \in {"rmjs", "rmcss", "rmman"}

(* An operation names its entry, and what it removes the index has. *)
Underway ==
    /\ Writing => op.key \in Key /\ op.art \in Art
    /\ at = "css" => op.art \in WithCSS
    /\ Removing => op.key \in left
    /\ Removing \/ at = "next" => indexed /\ left \subseteq index
    /\ at \in {"rest", "next"} => op = NoOp
    /\ staged => Writing

(* The index follows the manifests, in the middle of operations as well. *)
Indexed == index \subseteq OnDisk /\ (indexed => OnDisk \ index \subseteq spoilt)

(* What is there of an entry is of one build. *)
Sound(k) == man[k] # None /\ js[k] # None => Whole(k)

(* Until its manifest is written, the files of a Put are new, one by one,    *)
(* and of an entry it found the manifest stays.                              *)
Written ==
    Writing =>
        /\ at # "js" => js[op.key] = op.art
        /\ at = "man" /\ op.art \in WithCSS => css[op.key] = op.art
        /\ at = "js" => was = Entry(op.key)
        /\ man[op.key] = None => was = None
        /\ man[op.key] # None => was \in {man[op.key], Husk, Torn}

(* A removal takes the script first, so what it leaves is a husk at worst,   *)
(* unless a file would not go.                                               *)
Taken ==
    Removing =>
        /\ was # None
        /\ Entry(op.key) \in {Husk, Torn, was}
        /\ at = "rmjs" \/ js[op.key] = None \/ op.key \in spoilt

Reliable ==
    \A k \in Key \ spoilt : (Writing => op.key # k) => Sound(k)

IInv == DiskTypeOK /\ Underway /\ Indexed /\ Written /\ Taken /\ Reliable

LEMMA TriesBound ==
    /\ 0 \in 0 .. Attempts - 1
    /\ tries \in 0 .. Attempts - 1 /\ tries + 1 < Attempts => tries + 1 \in 0 .. Attempts - 1
BY AttemptsAssumption

LEMMA Inductive == DiskSpec => []IInv
<1> USE StoreAssumption, TriesBound
<1>1. DiskInit => IInv
  <2> SUFFICES ASSUME DiskInit PROVE IInv
    OBVIOUS
  <2> USE DEF DiskInit
  <2>1. DiskTypeOK
    BY DEF DiskTypeOK, File, Stage, NoOp
  <2>2. Underway /\ Written /\ Taken
    BY DEF Underway, Removing, Writing, Written, Taken
  <2>3. Indexed /\ Reliable
    BY DEF Indexed, OnDisk, Reliable, Sound
  <2> QED BY <2>1, <2>2, <2>3 DEF IInv
<1>2. IInv /\ [DiskNext]_dvars => IInv'
  <2> SUFFICES ASSUME IInv, [DiskNext]_dvars PROVE IInv'
    OBVIOUS
  <2>0. /\ js \in [Key -> File] /\ css \in [Key -> WithCSS \cup {None}] /\ man \in [Key -> File]
        /\ None \notin Art
    BY DEF IInv, DiskTypeOK
  <2> USE DEF IInv, DiskTypeOK, File, Stage, NoOp, Underway, Removing, Writing, Indexed, OnDisk,
          Written, Taken, Reliable, Sound, Whole, Entry, files, write
  <2>1. CASE Edit
    BY <2>1 DEF Edit
  <2>2. CASE EnsureIndex
    BY <2>2 DEF EnsureIndex, Known
  <2>3. ASSUME NEW k \in Key, PutBegins(k) PROVE IInv'
    BY <2>3 DEF PutBegins
  <2>4. ASSUME NEW c \in Component, InvalidateComponent(c) PROVE IInv'
    BY <2>4 DEF InvalidateComponent
  <2>5. CASE Stages \/ RenameBlocked
    <3> USE <2>5 DEF Stages, RenameBlocked
    <3>1. DiskTypeOK'
      OBVIOUS
    <3>2. Underway' /\ Indexed'
      OBVIOUS
    <3>3. Written' /\ Taken'
      OBVIOUS
    <3>4. Reliable'
      OBVIOUS
    <3> QED BY <3>1, <3>2, <3>3, <3>4
  <2>6. CASE RenamesJS
    <3> USE <2>6 DEF RenamesJS, Renamed
    <3>1. DiskTypeOK'
      OBVIOUS
    <3>2. Underway' /\ Indexed'
      OBVIOUS
    <3>3. Written' /\ Taken'
      OBVIOUS
    <3>4. Reliable'
      OBVIOUS
    <3> QED BY <3>1, <3>2, <3>3, <3>4
  <2>7. CASE RenamesCSS
    <3> USE <2>7 DEF RenamesCSS, Renamed
    <3>1. DiskTypeOK'
      OBVIOUS
    <3>2. Underway' /\ Indexed'
      OBVIOUS
    <3>3. Written' /\ Taken'
      OBVIOUS
    <3>4. Reliable'
      OBVIOUS
    <3> QED BY <3>1, <3>2, <3>3, <3>4
  <2>8. CASE RenamesManifest
    <3> USE <2>8 DEF RenamesManifest, Renamed
    <3>1. DiskTypeOK'
      OBVIOUS
    <3>2. Underway' /\ Indexed'
      OBVIOUS
    <3>3. Written' /\ Taken'
      OBVIOUS
    <3>4. Reliable'
      OBVIOUS
    <3> QED BY <3>1, <3>2, <3>3, <3>4
  <2>9. CASE PutFails
    <3> USE <2>9 DEF PutFails, FirstOrLast
    <3>1. DiskTypeOK'
      OBVIOUS
    <3>2. Underway' /\ Indexed'
      OBVIOUS
    <3>3. Written' /\ Taken'
      OBVIOUS
    <3>4. Reliable'
      OBVIOUS
    <3> QED BY <3>1, <3>2, <3>3, <3>4
  <2>10. ASSUME NEW k \in Key, RemoveBegins(k) PROVE IInv'
    BY <2>10 DEF RemoveBegins
  <2>11. CASE RemovesJS
    BY <2>11 DEF RemovesJS, Removed
  <2>12. CASE RemovesCSS
    BY <2>12 DEF RemovesCSS, Removed
  <2>13. CASE RemovesManifest
    BY <2>13 DEF RemovesManifest, Removed
  <2>14. CASE Restart
    <3> USE <2>14 DEF Restart
    <3>1. DiskTypeOK'
      OBVIOUS
    <3>2. Underway' /\ Indexed'
      OBVIOUS
    <3>3. Written' /\ Taken'
      OBVIOUS
    <3>4. Reliable'
      OBVIOUS
    <3> QED BY <3>1, <3>2, <3>3, <3>4
  <2>15. CASE UNCHANGED dvars
    BY <2>15 DEF dvars
  <2> QED BY <2>1, <2>2, <2>3, <2>4, <2>5, <2>6, <2>7, <2>8, <2>9, <2>10, <2>11, <2>12,
             <2>13, <2>14, <2>15 DEF DiskNext, Operation
<1> QED BY <1>1, <1>2, PTL DEF DiskSpec

(* Every reachable state is well typed, for any number of attempts.          *)
THEOREM TypeInvariant == DiskSpec => []DiskTypeOK
<1>1. IInv => DiskTypeOK
  BY DEF IInv
<1> QED BY <1>1, Inductive, PTL

(* No Put that has ended leaves a temporary file.                            *)
THEOREM NoneLeft == DiskSpec => []NoTemporaryLeft
<1>1. IInv => NoTemporaryLeft
  BY DEF IInv, Underway, NoTemporaryLeft
<1> QED BY <1>1, Inductive, PTL

(* The index and the directory agree whenever no operation is under way.     *)
THEOREM IndexMatchesDisk == DiskSpec => []IndexIsDisk
<1>1. IInv => IndexIsDisk
  BY DEF IInv, Indexed, IndexIsDisk
<1> QED BY <1>1, Inductive, PTL

(* A hit returns one build of the sources as they are.                       *)
THEOREM HitsAreCurrent == DiskSpec => []GetIsCurrent
<1>1. IInv => GetIsCurrent
  <2> SUFFICES ASSUME IInv, NEW k \in Key \ spoilt, Hit(k) PROVE Got(k) = Built(source)
    BY DEF GetIsCurrent
  <2>1. man[k] = source /\ js[k] # None /\ source # None /\ Sound(k)
    BY StoreAssumption DEF Hit, IInv, DiskTypeOK, Reliable, Writing
  <2> QED BY <2>1 DEF Sound, Whole, Got, Built
<1> QED BY <1>1, Inductive, PTL

-----------------------------------------------------------------------------
(* The store the files implement. *)

Value == [k \in Key |-> IF op.key = k THEN was ELSE Entry(k)]

(* An operation changes what is seen of its own entry only, when it ends.    *)
LEMMA EntryIsHidden ==
    ASSUME IInv, NEW k \in Key, op.key = k, op' = op, was' = was,
           \A c \in Key \ {k} : UNCHANGED <<js[c], css[c], man[c]>>
    PROVE  Value' = Value
BY DEF Value, Entry, Whole

LEMMA ValueAfter ==
    ASSUME IInv, NEW k \in Key, op.key = k, op' = NoOp,
           \A c \in Key \ {k} : UNCHANGED <<js[c], css[c], man[c]>>
    PROVE  Value' = [Value EXCEPT ![k] = Entry(k)']
<1>1. Value' = [c \in Key |-> Entry(c)']
  BY StoreAssumption DEF Value, NoOp
<1>2. \A c \in Key \ {k} : Entry(c)' = Entry(c) /\ Value[c] = Entry(c)
  BY DEF Entry, Whole, Value
<1>3. Value = [c \in Key |-> Value[c]]
  BY DEF Value
<1> QED BY <1>1, <1>2, <1>3

(* An entry is there when its manifest is. *)
LEMMA EntryIsThere ==
    ASSUME DiskTypeOK, NEW k \in Key
    PROVE  Entry(k) = None <=> man[k] = None
BY StoreAssumption DEF Entry, DiskTypeOK, File

(* Every step of the files is a step of the atomic store or none: a Put      *)
(* takes effect with its manifest, and whatever cuts an operation short      *)
(* leaves what the store allows.                                             *)
THEOREM ImplementsStore == DiskSpec => IsAtomicStore
<1> USE StoreAssumption
<1>1. DiskInit => Store!AtomicInit
  BY DEF DiskInit, Store!AtomicInit, NoOp, Known, OnDisk, Entry
<1>2. IInv /\ IInv' /\ [DiskNext]_dvars => [Store!AtomicNext]_(Store!avars)
  <2> SUFFICES ASSUME IInv, IInv', [DiskNext]_dvars
               PROVE Store!AtomicNext \/ (Value' = Value /\ Known' = Known)
    BY DEF Store!avars, Value
  <2> USE DEF files, write
  <2>1. CASE Edit
    BY <2>1 DEF Edit, Value, Entry, Whole, Known, OnDisk
  <2>2. CASE EnsureIndex
    BY <2>2 DEF EnsureIndex, Value, Entry, Whole, Known, OnDisk
  <2>3. ASSUME NEW k \in Key, PutBegins(k) PROVE Value' = Value /\ Known' = Known
    BY <2>3 DEF PutBegins, Value, Entry, Whole, Known, OnDisk, IInv, Underway, NoOp
  <2>4. ASSUME NEW c \in Component, InvalidateComponent(c)
        PROVE Value' = Value /\ Known' = Known
    BY <2>4 DEF InvalidateComponent, Value, Entry, Whole, Known, OnDisk
  <2>5. CASE Stages \/ RenameBlocked
    BY <2>5 DEF Stages, RenameBlocked, Value, Entry, Whole, Known, OnDisk
  <2>6. CASE RenamesJS \/ RenamesCSS
    <3>1. op.key \in Key /\ UNCHANGED <<op, was, man, index, indexed>>
      BY <2>6 DEF RenamesJS, RenamesCSS, IInv, Underway, Writing
    <3>2. \A c \in Key \ {op.key} : UNCHANGED <<js[c], css[c], man[c]>>
      BY <2>6 DEF RenamesJS, RenamesCSS, IInv, DiskTypeOK
    <3> QED BY <3>1, <3>2, EntryIsHidden DEF Known, OnDisk
  <2>7. CASE RenamesManifest
    <3>0. PICK k \in Key : k = op.key
      BY <2>7 DEF RenamesManifest, IInv, Underway, Writing
    <3>a. PICK a \in Art : a = op.art
      BY <2>7 DEF RenamesManifest, IInv, Underway, Writing
    <3> USE <3>0, <3>a
    <3>1. op' = NoOp
      BY <2>7 DEF RenamesManifest
    <3>2. \A c \in Key \ {k} : UNCHANGED <<js[c], css[c], man[c]>>
      BY <2>7 DEF RenamesManifest, IInv, DiskTypeOK
    <3>3. Entry(k)' = a
      BY <2>7, <3>1 DEF RenamesManifest, IInv, DiskTypeOK, Written, Writing, Entry, Whole
    <3>4. Known' = Known \cup {k}
      BY <2>7, <3>1 DEF RenamesManifest, Known, OnDisk, IInv, DiskTypeOK
    <3>5. Value' = [Value EXCEPT ![k] = a]
      BY <3>1, <3>2, <3>3, ValueAfter
    <3> QED BY <3>1, <3>4, <3>5 DEF Store!AtomicNext, Store!Put, Value
  <2>8. CASE PutFails
    <3>0. PICK k \in Key : k = op.key
      BY <2>8 DEF PutFails, FirstOrLast, IInv, Underway
    <3> USE <3>0
    <3>1. op' = NoOp /\ Writing /\ UNCHANGED <<js, css, man, index, indexed>>
      BY <2>8 DEF PutFails, FirstOrLast
    <3>2. Value' = [Value EXCEPT ![k] = Entry(k)] /\ Value[k] = was
      BY <3>1, ValueAfter DEF Value, Entry, Whole
    <3>3. Entry(k) \in (IF was = None THEN {None}
                       ELSE {was, Torn} \cup (IF was \in {Husk, Torn} THEN Art ELSE {}))
      BY <3>1 DEF IInv, DiskTypeOK, File, Written, Writing, Underway, Entry
    <3>4. Known' = Known
      BY <3>1 DEF Known, OnDisk
    <3> QED BY <3>1, <3>2, <3>3, <3>4 DEF Store!AtomicNext, Store!PutFails, Store!Remains, Value
  <2>9. ASSUME NEW k \in Key, RemoveBegins(k) PROVE Value' = Value /\ Known' = Known
    BY <2>9 DEF RemoveBegins, Value, Entry, Whole, Known, OnDisk, IInv, Underway, NoOp
  <2>10. CASE RemovesJS \/ RemovesCSS
    <3>1. op.key \in Key /\ UNCHANGED <<op, was, man, index, indexed>>
      BY <2>10 DEF RemovesJS, RemovesCSS, IInv, DiskTypeOK, Underway, Removing
    <3>2. \A c \in Key \ {op.key} : UNCHANGED <<js[c], css[c], man[c]>>
      BY <2>10 DEF RemovesJS, RemovesCSS, Removed, IInv, DiskTypeOK
    <3> QED BY <3>1, <3>2, EntryIsHidden DEF Known, OnDisk
  <2>11. CASE RemovesManifest
    <3>0. PICK k \in Key : k = op.key
      BY <2>11 DEF RemovesManifest, IInv, DiskTypeOK, Underway, Removing
    <3> USE <3>0
    <3>1. k \in index /\ indexed /\ op' = NoOp /\ UNCHANGED <<js, css, indexed>>
      BY <2>11 DEF RemovesManifest, IInv, DiskTypeOK, Underway, Removing
    <3>2. \A c \in Key \ {k} : UNCHANGED <<js[c], css[c], man[c]>>
      BY <2>11 DEF RemovesManifest, Removed, IInv, DiskTypeOK
    <3>3. Value' = [Value EXCEPT ![k] = Entry(k)'] /\ Value[k] = was
      BY <3>1, <3>2, ValueAfter DEF Value
    <3>4. Entry(k)' \in {None, Husk, Torn, was}
      BY <2>11, <3>1 DEF RemovesManifest, Removed, IInv, DiskTypeOK, Taken, Removing, Entry, Whole
    <3>5. k \in Known /\ Known' = Known \ {k}
      BY <2>11, <3>1 DEF RemovesManifest, Known
    <3> QED BY <3>1, <3>3, <3>4, <3>5 DEF Store!AtomicNext, Store!Drop, Value
  <2>12. CASE Restart
    <3>1. op' = NoOp /\ UNCHANGED <<js, css, man>> /\ Known' = OnDisk
      BY <2>12 DEF Restart, Known, OnDisk
    <3>2. \A c \in Key : Entry(c)' = Entry(c)
      BY <3>1 DEF Entry, Whole
    <3>3. Value' = [c \in Key |-> Entry(c)]
      BY <3>1, <3>2 DEF Value, NoOp
    <3>4. Known' = {c \in Key : Value'[c] # None}
      BY <3>1, <3>3, EntryIsThere DEF OnDisk, IInv
    <3>5. CASE op.key \in Key
      <4>0. PICK k \in Key : k = op.key
        BY <3>5
      <4> USE <4>0
      <4>1. Value' = [Value EXCEPT ![k] = Entry(k)] /\ Value[k] = was
        BY <3>3, <3>5 DEF Value
      <4>2. Writing \/ Removing
        BY <3>5 DEF IInv, DiskTypeOK, Underway, Stage, Writing, Removing, NoOp
      <4>3. Entry(k) \in Store!Remains(k) \cup (IF was = None THEN {} ELSE {Husk})
        <5>1. CASE Writing
          BY <3>5, <4>1, <5>1 DEF Store!Remains, Value, IInv, DiskTypeOK, File, Written,
             Writing, Underway, Entry
        <5>2. CASE Removing
          BY <3>5, <4>1, <5>2 DEF Store!Remains, Value, IInv, Taken
        <5> QED BY <4>2, <5>1, <5>2
      <4> QED BY <3>4, <3>5, <4>1, <4>3 DEF Store!AtomicNext, Store!RestartDuring, Value
    <3>6. CASE op.key \notin Key
      <4>1. Value' = Value
        BY <3>3, <3>6 DEF Value
      <4>2. CASE Key = {}
        BY <4>1, <4>2, <3>1 DEF Known, OnDisk, IInv, DiskTypeOK
      <4>3. ASSUME NEW k \in Key PROVE Store!AtomicNext
        <5>1. Value' = [Value EXCEPT ![k] = Value[k]]
          BY <4>1 DEF Value
        <5>2. Value[k] \in Store!Remains(k)
          BY DEF Store!Remains, Value
        <5> QED BY <3>4, <4>3, <5>1, <5>2 DEF Store!AtomicNext, Store!RestartDuring, Value
      <4> QED BY <4>1, <4>2, <4>3
    <3> QED BY <3>5, <3>6
  <2>13. CASE UNCHANGED dvars
    BY <2>13 DEF dvars, Value, Entry, Whole, Known, OnDisk
  <2> QED BY <2>1, <2>2, <2>3, <2>4, <2>5, <2>6, <2>7, <2>8, <2>9, <2>10, <2>11, <2>12,
             <2>13 DEF DiskNext, Operation
<1> QED BY <1>1, <1>2, Inductive, PTL DEF DiskSpec, IsAtomicStore, Store!AtomicSpec
=============================================================================
