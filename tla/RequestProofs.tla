---------------------------- MODULE RequestProofs ----------------------------
(***************************************************************************)
(* Theorems about what one request goes through: the props it brings       *)
(* (Props), for any struct types, embedded to any depth, any maps and any  *)
(* declared types; and the call that answers it (RenderCall), for any      *)
(* handlers, defaults and bounds.  The two modules share no variable.      *)
(***************************************************************************)
EXTENDS Props, RenderCall, Integers, WellFoundedInduction, FiniteSetTheorems, TLAPS

-----------------------------------------------------------------------------
(* Induction over the natural numbers, of a set instead of a predicate. *)
LEMMA Induction ==
    ASSUME NEW T, T \subseteq Nat, 0 \in T, \A n \in T : n + 1 \in T
    PROVE  T = Nat
<1> DEFINE R == OpToRel(<, Nat)
           Missing == Nat \ T
<1> SUFFICES ASSUME Missing # {} PROVE FALSE
  OBVIOUS
<1>1. PICK x \in Missing : \A y \in Missing : <<y, x>> \notin R
  <2> HIDE DEF R, Missing
  <2>1. Missing \subseteq Nat
    BY DEF Missing
  <2>2. IsWellFoundedOn(R, Nat)
    BY NatLessThanWellFounded DEF R
  <2> QED BY <2>1, <2>2, WFMin
<1> HIDE DEF R
<1>2. x \in Nat /\ x - 1 \in Nat /\ x - 1 < x /\ (x - 1) + 1 = x
  BY <1>1
<1>3. <<x - 1, x>> \in R
  BY <1>2 DEF OpToRel, R
<1> QED BY <1>1, <1>2, <1>3

(* AtDepth is what its recursive definition says. *)
LEMMA AtDepthUnfolds ==
    ASSUME NEW struct
    PROVE  AtDepth(struct) =
             [d \in 0 .. MaxDepth |->
                 IF d = 0 THEN {[of |-> struct, path |-> <<>>]}
                          ELSE Embedded(AtDepth(struct)[d - 1])]
<1> DEFINE top == {[of |-> struct, path |-> <<>>]}
           Is(at, k) == at = [d \in 0 .. k |-> IF d = 0 THEN top ELSE Embedded(at[d - 1])]
           T == {k \in Nat : \E at : Is(at, k)}
<1>1. 0 \in T
  <2>1. Is([d \in 0 .. 0 |-> top], 0)
    OBVIOUS
  <2> QED BY <2>1
<1>2. ASSUME NEW k \in T PROVE k + 1 \in T
  <2>1. PICK at : Is(at, k)
    OBVIOUS
  <2> DEFINE more == [d \in 0 .. k + 1 |-> IF d = 0 THEN top ELSE Embedded(at[d - 1])]
  <2>2. ASSUME NEW d \in 0 .. k PROVE more[d] = at[d]
    <3> HIDE DEF top
    <3> QED BY <2>1
  <2>3. Is(more, k + 1)
    <3> HIDE DEF Is
    <3>1. \A d \in 0 .. k + 1 : d # 0 => d - 1 \in 0 .. k
      OBVIOUS
    <3> QED BY <2>2, <3>1 DEF Is
  <2> HIDE DEF Is, more
  <2> QED BY <2>3
<1>3. T = Nat
  <2> HIDE DEF T
  <2> QED BY <1>1, <1>2, Induction DEF T
<1>4. \E at : Is(at, MaxDepth)
  BY <1>3, StructAssumption
<1> QED BY <1>4 DEF AtDepth

LEMMA DepthSucc ==
    ASSUME NEW struct, NEW d \in Nat, d + 1 \in 0 .. MaxDepth
    PROVE  d \in 0 .. MaxDepth /\ AtDepth(struct)[d + 1] = Embedded(AtDepth(struct)[d])
<1> DEFINE at == AtDepth(struct)
<1>1. d \in 0 .. MaxDepth /\ (d + 1) - 1 = d /\ d + 1 # 0
  BY StructAssumption
<1>2. at[d + 1] = IF d + 1 = 0 THEN {[of |-> struct, path |-> <<>>]} ELSE Embedded(at[(d + 1) - 1])
  BY AtDepthUnfolds
<1> HIDE DEF at
<1>3. at[d + 1] = Embedded(at[d])
  BY <1>1, <1>2
<1> QED BY <1>1, <1>3 DEF at

(* What a struct reaches by embedding are structs, on paths of numbers. *)
LEMMA ReachesStructs ==
    ASSUME NEW struct \in StructType
    PROVE  \A node \in Reachable(struct) : node.of \in StructType /\ node.path \in Seq(Nat)
<1> DEFINE at == AtDepth(struct)
           T == {d \in Nat : d \in 0 .. MaxDepth =>
                               \A node \in at[d] : node.of \in StructType /\ node.path \in Seq(Nat)}
<1> HIDE DEF at
<1>1. 0 \in T
  <2>1. 0 \in 0 .. MaxDepth => at[0] = {[of |-> struct, path |-> <<>>]}
    BY AtDepthUnfolds, StructAssumption DEF at
  <2>2. <<>> \in Seq(Nat)
    OBVIOUS
  <2>3. ASSUME NEW node \in {[of |-> struct, path |-> <<>>]}
        PROVE  node.of \in StructType /\ node.path \in Seq(Nat)
    <3>1. node.of = struct /\ node.path = <<>>
      OBVIOUS
    <3> QED BY <2>2, <3>1
  <2> QED BY <2>1, <2>3
<1>2. ASSUME NEW d \in T PROVE d + 1 \in T
  <2> SUFFICES ASSUME d + 1 \in 0 .. MaxDepth, NEW node \in at[d + 1]
               PROVE  node.of \in StructType /\ node.path \in Seq(Nat)
    OBVIOUS
  <2>1. d \in 0 .. MaxDepth /\ at[d + 1] = Embedded(at[d])
    BY DepthSucc DEF at
  <2>3. PICK c \in at[d] : \E i \in DOMAIN c.of.embeds :
                  node = [of |-> c.of.embeds[i].of, path |-> Append(c.path, i)]
    BY <2>1 DEF Embedded
  <2>4. c.of \in StructType /\ c.path \in Seq(Nat)
    BY <2>1
  <2>5. \A i \in DOMAIN c.of.embeds : i \in Nat /\ c.of.embeds[i] \in [ptr : BOOLEAN, of : StructType]
    <3> DEFINE S == [ptr : BOOLEAN, of : StructType]
    <3>1. c.of.embeds \in Seq(S)
      BY <2>4, StructAssumption
    <3> HIDE DEF S
    <3>2. \A i \in DOMAIN c.of.embeds : i \in Nat /\ c.of.embeds[i] \in S
      BY <3>1
    <3> QED BY <3>2 DEF S
  <2>6. PICK i \in DOMAIN c.of.embeds : node = [of |-> c.of.embeds[i].of, path |-> Append(c.path, i)]
    BY <2>3
  <2>7. Append(c.path, i) \in Seq(Nat)
    BY <2>4, <2>5
  <2> QED BY <2>5, <2>6, <2>7
<1>3. T = Nat
  <2> HIDE DEF T
  <2> QED BY <1>1, <1>2, Induction DEF T
<1> QED BY <1>3, StructAssumption DEF Reachable, at

-----------------------------------------------------------------------------
(* What the encoder visits, as its recursive definition says. *)
LEMMA VisitedUnfolds ==
    ASSUME NEW struct
    PROVE  Visited(struct) =
             [d \in 0 .. MaxDepth |->
                 IF d = 0 THEN {[of |-> struct, path |-> <<>>]}
                          ELSE Visited(struct)[d - 1] \cup Embedded(Expanded(Visited(struct)[d - 1]))]
<1> DEFINE top == {[of |-> struct, path |-> <<>>]}
           step(S) == S \cup Embedded(Expanded(S))
           Is(at, k) == at = [d \in 0 .. k |-> IF d = 0 THEN top ELSE step(at[d - 1])]
           T == {k \in Nat : \E at : Is(at, k)}
<1>1. 0 \in T
  <2>1. Is([d \in 0 .. 0 |-> top], 0)
    OBVIOUS
  <2> QED BY <2>1
<1>2. ASSUME NEW k \in T PROVE k + 1 \in T
  <2> HIDE DEF step
  <2>1. PICK at : Is(at, k)
    OBVIOUS
  <2> DEFINE more == [d \in 0 .. k + 1 |-> IF d = 0 THEN top ELSE step(at[d - 1])]
  <2>2. ASSUME NEW d \in 0 .. k PROVE more[d] = at[d]
    <3> HIDE DEF top
    <3> QED BY <2>1
  <2>3. Is(more, k + 1)
    <3> HIDE DEF Is
    <3>1. \A d \in 0 .. k + 1 : d # 0 => d - 1 \in 0 .. k
      OBVIOUS
    <3> QED BY <2>2, <3>1 DEF Is
  <2> HIDE DEF Is, more
  <2> QED BY <2>3
<1>3. T = Nat
  <2> HIDE DEF T
  <2> QED BY <1>1, <1>2, Induction DEF T
<1>4. \E at : Is(at, MaxDepth)
  BY <1>3, StructAssumption
<1> QED BY <1>4 DEF Visited

LEMMA VisitedSucc ==
    ASSUME NEW struct, NEW d \in Nat, d + 1 \in 0 .. MaxDepth
    PROVE  Visited(struct)[d + 1] = Visited(struct)[d] \cup Embedded(Expanded(Visited(struct)[d]))
<1> DEFINE seen == Visited(struct)
           top == {[of |-> struct, path |-> <<>>]}
           step(S) == S \cup Embedded(Expanded(S))
<1>1. (d + 1) - 1 = d /\ d + 1 # 0
  OBVIOUS
<1>2. seen = [e \in 0 .. MaxDepth |-> IF e = 0 THEN top ELSE step(seen[e - 1])]
  BY VisitedUnfolds
<1> HIDE DEF seen, top, step
<1>3. seen[d + 1] = step(seen[d])
  BY <1>1, <1>2
<1> QED BY <1>3 DEF seen, step

(* Where no struct with embeddings is met twice, it visits all there is. *)
LEMMA VisitsAll ==
    ASSUME NEW struct \in StructType, ~MetTwice(struct)
    PROVE  Visited(struct)[MaxDepth] = Reachable(struct)
<1> DEFINE at == AtDepth(struct)
           seen == Visited(struct)
           within(d) == UNION {at[e] : e \in 0 .. d}
           T == {d \in Nat : d \in 0 .. MaxDepth => seen[d] = within(d)}
<1> HIDE DEF at, seen
<1>1. 0 \in T
  <2>1. 0 \in 0 .. MaxDepth => at[0] = {[of |-> struct, path |-> <<>>]} /\ seen[0] = {[of |-> struct, path |-> <<>>]}
    BY AtDepthUnfolds, VisitedUnfolds, StructAssumption DEF at, seen
  <2>2. 0 .. 0 = {0}
    OBVIOUS
  <2>3. within(0) = at[0]
    BY <2>2
  <2> QED BY <2>1, <2>3
<1>2. ASSUME NEW d \in T PROVE d + 1 \in T
  <2> SUFFICES ASSUME d + 1 \in 0 .. MaxDepth PROVE seen[d + 1] = within(d + 1)
    OBVIOUS
  <2>1. d \in Nat /\ d \in 0 .. MaxDepth /\ d + 1 # 0 /\ (d + 1) - 1 = d /\ seen[d] = within(d)
    BY StructAssumption
  <2>2. seen[d + 1] = seen[d] \cup Embedded(Expanded(seen[d]))
    BY <2>1, VisitedSucc DEF seen
  <2>3. \A e \in 0 .. d : e \in 0 .. MaxDepth /\ e \in Nat /\ e + 1 \in 0 .. MaxDepth /\ at[e + 1] = Embedded(at[e])
    <3>1. \A e \in 0 .. d : e \in Nat /\ e + 1 \in 0 .. MaxDepth
      BY <2>1, StructAssumption
    <3> QED BY <3>1, DepthSucc DEF at
  <2>4. within(d) \subseteq Reachable(struct)
    BY <2>3 DEF Reachable, at
  <2>5. ASSUME NEW c \in within(d), c \notin Expanded(within(d)) PROVE c.of.embeds = <<>>
    <3>1. PICK o \in within(d) : o.of = c.of /\ Sooner(o.path, c.path)
      BY <2>5 DEF Expanded
    <3>2. c \in Reachable(struct) /\ o \in Reachable(struct)
      BY <2>4
    <3>3. c.path \in Seq(Nat)
      BY <3>2, ReachesStructs
    <3>4. o.path # c.path
      <4> DEFINE p == c.path
      <4>1. p \in Seq(Nat) /\ Len(p) \in Nat /\ \A i \in DOMAIN p : p[i] \in Nat
        BY <3>3
      <4> HIDE DEF p
      <4>2. ~Sooner(p, p)
        BY <4>1 DEF Sooner
      <4> QED BY <3>1, <4>2 DEF p
    <3> QED BY <3>1, <3>2, <3>4 DEF MetTwice
  <2>6. Embedded(Expanded(within(d))) = Embedded(within(d))
    <3> DEFINE S == within(d)
    <3> HIDE DEF S
    <3>1. Expanded(S) \subseteq S
      BY DEF Expanded
    <3>2. \A c \in S : c \notin Expanded(S) => DOMAIN c.of.embeds = {}
      BY <2>5 DEF S
    <3>3. \A node : node \in Embedded(S) <=> \E c \in S : \E i \in DOMAIN c.of.embeds :
                       node = [of |-> c.of.embeds[i].of, path |-> Append(c.path, i)]
      BY DEF Embedded
    <3>4. \A node : node \in Embedded(Expanded(S)) <=> \E c \in Expanded(S) : \E i \in DOMAIN c.of.embeds :
                       node = [of |-> c.of.embeds[i].of, path |-> Append(c.path, i)]
      BY DEF Embedded
    <3>5. \A node : node \in Embedded(S) <=> node \in Embedded(Expanded(S))
      BY <3>1, <3>2, <3>3, <3>4
    <3> QED BY <3>5 DEF S
  <2>7. Embedded(within(d)) = UNION {Embedded(at[e]) : e \in 0 .. d}
    <3> DEFINE From(c) == {[of |-> c.of.embeds[i].of, path |-> Append(c.path, i)] : i \in DOMAIN c.of.embeds}
    <3>1. \A S : Embedded(S) = UNION {From(c) : c \in S}
      BY DEF Embedded
    <3> HIDE DEF From
    <3>2. \A S, node : node \in Embedded(S) <=> \E c \in S : node \in From(c)
      BY <3>1
    <3>3. \A node : node \in Embedded(within(d)) <=> \E e \in 0 .. d : node \in Embedded(at[e])
      BY <3>2
    <3>4. \A node : node \in UNION {Embedded(at[e]) : e \in 0 .. d} <=> \E e \in 0 .. d : node \in Embedded(at[e])
      OBVIOUS
    <3> QED BY <3>3, <3>4
  <2>8. within(d) \cup UNION {Embedded(at[e]) : e \in 0 .. d} = within(d + 1)
    <3>1. \A node : node \in within(d) \cup UNION {Embedded(at[e]) : e \in 0 .. d} <=>
             (\E e \in 0 .. d : node \in at[e]) \/ (\E e \in 0 .. d : node \in at[e + 1])
      BY <2>3
    <3>2. \A e \in 0 .. d : e \in 0 .. d + 1 /\ e + 1 \in 0 .. d + 1
      BY <2>1
    <3>3. \A e \in 0 .. d + 1 : e \in 0 .. d \/ \E f \in 0 .. d : e = f + 1
      <4> TAKE e \in 0 .. d + 1
      <4>1. CASE e = 0
        BY <2>1, <4>1
      <4>2. CASE e # 0
        <5>1. e - 1 \in 0 .. d /\ e = (e - 1) + 1
          BY <2>1, <4>2
        <5> QED BY <5>1
      <4> QED BY <4>1, <4>2
    <3>4. \A node : (\E e \in 0 .. d : node \in at[e]) \/ (\E e \in 0 .. d : node \in at[e + 1])
                    <=> \E e \in 0 .. d + 1 : node \in at[e]
      BY <3>2, <3>3
    <3> QED BY <3>1, <3>4
  <2> QED BY <2>1, <2>2, <2>6, <2>7, <2>8
<1>3. T = Nat
  <2> HIDE DEF T
  <2> QED BY <1>1, <1>2, Induction DEF T
<1>4. MaxDepth \in Nat /\ MaxDepth \in 0 .. MaxDepth
  BY StructAssumption
<1>5. seen[MaxDepth] = within(MaxDepth)
  BY <1>3, <1>4
<1> QED BY <1>5 DEF Reachable, at, seen

(* The mapper picks of a group the one that dominates, if any. *)
LEMMA PicksDominant ==
    ASSUME NEW group, \A c \in group : Len(c.path) \in Nat, NEW c
    PROVE  c \in PickField(group) <=> c \in group /\ \A d \in group \ {c} : Dominates(c, d)
<1> DEFINE shallowest == {x \in group : \A d \in group : Len(x.path) <= Len(d.path)}
           tagged == {x \in shallowest : x.field.tagged}
<1>1. PickField(group) = IF IsSingleton(shallowest) THEN shallowest
                         ELSE IF IsSingleton(tagged) THEN tagged ELSE {}
  BY DEF PickField
<1>2. ASSUME c \in group, \A d \in group \ {c} : Dominates(c, d) PROVE c \in PickField(group)
  <2>1. c \in shallowest
    BY <1>2 DEF Dominates
  <2>2. CASE shallowest = {c}
    BY <1>1, <2>1, <2>2 DEF IsSingleton
  <2>3. CASE shallowest # {c}
    <3>1. PICK d \in shallowest : d # c
      BY <2>1, <2>3
    <3>2. \A e \in shallowest \ {c} : Len(e.path) = Len(c.path)
      BY <2>1
    <3>3. \A e \in shallowest \ {c} : c.field.tagged /\ ~e.field.tagged
      BY <1>2, <3>2 DEF Dominates
    <3>4. tagged = {c}
      BY <2>1, <3>1, <3>3
    <3>5. ~IsSingleton(shallowest)
      BY <2>1, <3>1 DEF IsSingleton
    <3> HIDE DEF shallowest, tagged
    <3> QED BY <1>1, <3>4, <3>5 DEF IsSingleton
  <2> QED BY <2>2, <2>3
<1>3. ASSUME c \in PickField(group), NEW d \in group \ {c} PROVE c \in group /\ Dominates(c, d)
  <2>1. c \in shallowest /\ c \in group
    BY <1>1, <1>3
  <2>2. CASE d \notin shallowest
    <3>1. PICK e \in group : ~(Len(d.path) <= Len(e.path))
      BY <2>2
    <3>2. Len(c.path) <= Len(e.path)
      BY <2>1
    <3> QED BY <2>1, <3>1, <3>2 DEF Dominates
  <2>3. CASE d \in shallowest
    <3>1. Len(c.path) = Len(d.path)
      BY <2>1, <2>3
    <3>2. ~IsSingleton(shallowest)
      BY <1>3, <2>1, <2>3 DEF IsSingleton
    <3>3. IsSingleton(tagged) /\ c \in tagged
      <4> HIDE DEF shallowest, tagged
      <4> QED BY <1>1, <1>3, <3>2
    <3>4. d \notin tagged
      BY <1>3, <3>3 DEF IsSingleton
    <3> QED BY <2>3, <3>1, <3>3, <3>4 DEF Dominates
  <2> QED BY <2>1, <2>2, <2>3
<1>4. c \in PickField(group) => c \in group
  BY <1>1
<1> QED BY <1>2, <1>3, <1>4

(* The fields of a struct are the same to the mapper and to the encoder, and  *)
(* the same win.                                                              *)
LEMMA SameFields ==
    ASSUME NEW struct \in StructType, ~MetTwice(struct)
    PROVE  Dominant(struct) = Winners(struct)
<1> DEFINE group(n) == {c \in Collect(struct) : c.field.name = n}
<1>1. Flattened(struct) = Collect(struct)
  BY VisitsAll DEF Flattened, Collect
<1>2. \A c \in Collect(struct) : c.field.name \in Name /\ Len(c.path) \in Nat
  <2>1. ASSUME NEW c \in Collect(struct) PROVE c.field.name \in Name /\ Len(c.path) \in Nat
    <3>1. PICK node \in Reachable(struct) : \E f \in node.of.fields : c = [field |-> f, path |-> node.path]
      BY DEF Collect
    <3>2. node.of \in StructType /\ node.path \in Seq(Nat)
      BY ReachesStructs
    <3>3. c.path \in Seq(Nat) /\ c.field \in Field
      BY <3>1, <3>2, StructAssumption
    <3> QED BY <3>3 DEF Field
  <2> QED BY <2>1
<1>3. ASSUME NEW n \in Name, NEW c
      PROVE  c \in PickField(group(n)) <=> c \in group(n) /\ \A d \in group(n) \ {c} : Dominates(c, d)
  <2>1. \A x \in group(n) : Len(x.path) \in Nat
    BY <1>2
  <2> HIDE DEF group
  <2> QED BY <2>1, PicksDominant
<1>4. Winners(struct) = UNION {PickField(group(n)) : n \in Name}
  BY DEF Winners
<1>5. \A c : c \in Winners(struct) <=> \E n \in Name : c \in group(n) /\ \A d \in group(n) \ {c} : Dominates(c, d)
  <2> HIDE DEF group
  <2> QED BY <1>3, <1>4
<1>6. \A c : c \in Dominant(struct) <=>
          c \in Collect(struct) /\ \A d \in Collect(struct) \ {c} : d.field.name = c.field.name => Dominates(c, d)
  BY <1>1 DEF Dominant
<1>7. \A c : c \in Dominant(struct) <=> c \in Winners(struct)
  BY <1>2, <1>5, <1>6
<1> QED BY <1>7

-----------------------------------------------------------------------------
(* A name has one winner at most, and it is a field. *)
LEMMA OneWinner ==
    ASSUME NEW struct \in StructType
    PROVE  /\ \A c \in Winners(struct) : c.field \in Field
           /\ \A c, d \in Winners(struct) : c.field.name = d.field.name => c = d
<1>1. \A c \in Collect(struct) : c.field \in Field
  BY ReachesStructs, StructAssumption DEF Collect
<1>2. \A group : PickField(group) \subseteq group /\ \A c, d \in PickField(group) : c = d
  BY DEF PickField, IsSingleton
<1> DEFINE Group(n) == {c \in Collect(struct) : c.field.name = n}
<1>3. Winners(struct) = UNION {PickField(Group(n)) : n \in Name}
  BY DEF Winners
<1>4. ASSUME NEW c \in Winners(struct) PROVE c \in PickField(Group(c.field.name)) /\ c \in Collect(struct)
  <2>1. PICK n \in Name : c \in PickField(Group(n))
    BY <1>3
  <2>2. c \in Group(n)
    <3> HIDE DEF Group
    <3> QED BY <2>1, <1>2
  <2> QED BY <2>1, <2>2
<1> HIDE DEF Group
<1> QED BY <1>1, <1>2, <1>4

(* A struct's shape and the encodings of its fields, by winner. *)
LEMMA ShapeOfStruct ==
    ASSUME NEW struct \in StructType
    PROVE  /\ \A n \in DOMAIN StructFields(struct) : \E c \in Winners(struct) : c.field.name = n
           /\ \A c \in Winners(struct) :
                 /\ c.field.name \in DOMAIN StructFields(struct)
                 /\ StructFields(struct)[c.field.name] = FieldType(c.field)
<1>1. ASSUME NEW c \in Winners(struct)
      PROVE  (CHOOSE d \in Winners(struct) : d.field.name = c.field.name) = c
  BY OneWinner
<1> QED BY <1>1 DEF StructFields

LEMMA HoldingsOfStruct ==
    ASSUME NEW struct \in StructType, ~MetTwice(struct), NEW h
    PROVE  h \in Holdings(struct) <=>
             /\ h \in [{c.field.name : c \in Winners(struct)} -> UNION {Encodings[k] : k \in Kind}]
             /\ \A c \in Winners(struct) : h[c.field.name] \in Encodings[c.field.kind]
<1> DEFINE won == Dominant(struct)
           names == {c.field.name : c \in won}
           kind == [n \in names |-> (CHOOSE c \in won : c.field.name = n).field.kind]
           all == UNION {Encodings[k] : k \in Kind}
<1>1. Holdings(struct) = {f \in [names -> all] : \A n \in names : f[n] \in Encodings[kind[n]]}
  BY DEF Holdings
<1>2. won = Winners(struct)
  BY SameFields
<1> HIDE DEF won
<1>3. ASSUME NEW c \in won PROVE (CHOOSE d \in won : d.field.name = c.field.name) = c
  BY <1>2, OneWinner
<1>4. \A c \in won : kind[c.field.name] = c.field.kind /\ c.field.name \in names
  BY <1>3
<1>5. \A n \in names : \E c \in won : n = c.field.name
  OBVIOUS
<1> HIDE DEF kind, all
<1>6. h \in Holdings(struct) <=> h \in [names -> all] /\ \A c \in won : h[c.field.name] \in Encodings[c.field.kind]
  BY <1>1, <1>4, <1>5
<1> QED BY <1>2, <1>6 DEF all

(* What is sent of a struct, by winner. *)
LEMMA JsonByWinner ==
    ASSUME NEW struct \in StructType, ~MetTwice(struct), NEW p \in StructsOf(struct)
    PROVE  /\ \A n \in DOMAIN JsonOfStruct(p) : \E c \in Winners(struct) : c.field.name = n
           /\ \A c \in Winners(struct) :
                 /\ c.field.name \in DOMAIN JsonOfStruct(p) <=>
                       Reached(p, c) /\ ~Omitted(c.field, p.holds[c.field.name])
                 /\ c.field.name \in DOMAIN JsonOfStruct(p) =>
                       JsonOfStruct(p)[c.field.name] = AsSent(c.field, p.holds[c.field.name])
<1> DEFINE won == Dominant(struct)
           present == {c \in won : Reached(p, c) /\ ~Omitted(c.field, p.holds[c.field.name])}
           names == {c.field.name : c \in present}
           holder(n) == CHOOSE c \in present : c.field.name = n
<1>1. p.type = struct
  BY DEF StructsOf
<1>2. JsonOfStruct(p) = [n \in names |-> AsSent(holder(n).field, p.holds[n])]
  BY <1>1 DEF JsonOfStruct
<1>3. won = Winners(struct)
  BY SameFields
<1> HIDE DEF won
<1>4. \A c \in present : holder(c.field.name) = c
  BY <1>3, OneWinner
<1>5. ASSUME NEW c \in won, c.field.name \in names PROVE c \in present
  BY <1>3, <1>5, OneWinner
<1>6. DOMAIN JsonOfStruct(p) = names
  BY <1>2
<1>7. ASSUME NEW c \in present PROVE JsonOfStruct(p)[c.field.name] = AsSent(c.field, p.holds[c.field.name])
  <2>1. c.field.name \in names
    OBVIOUS
  <2> HIDE DEF present, names, holder
  <2>2. JsonOfStruct(p)[c.field.name] = AsSent(holder(c.field.name).field, p.holds[c.field.name])
    BY <1>2, <2>1
  <2> QED BY <1>4, <2>2
<1>8. \A n \in names : \E c \in won : c.field.name = n
  OBVIOUS
<1>9. \A c \in won : c.field.name \in names <=> c \in present
  BY <1>5
<1>10. \A c \in won : c \in present <=> Reached(p, c) /\ ~Omitted(c.field, p.holds[c.field.name])
  OBVIOUS
<1> HIDE DEF names, present
<1> QED BY <1>3, <1>6, <1>7, <1>8, <1>9, <1>10

-----------------------------------------------------------------------------
(* One field: the encodings of its kind against the type mapped for it. *)
LEMMA Kinds ==
    Kind = {"int", "string", "slice", "ptr", "ptrptr", "any", "loose", "solid", "array", "own"}
BY DEF Kind, Encodings

LEMMA TypesAre ==
    /\ TsType["int"] = {"number"}
    /\ TsType["string"] = {"string"}
    /\ TsType["slice"] = {"strings"}
    /\ TsType["ptr"] = {"string", "null"}
    /\ TsType["ptrptr"] = {"string", "null"}
    /\ TsType["any"] = {"unknown"}
    /\ TsType["loose"] = {"open"}
    /\ TsType["solid"] = {"closed"}
    /\ TsType["array"] = {"numbers"}
    /\ TsType["own"] = {"number"}
BY DEF TsType

LEMMA MembersAre ==
    /\ Member = {"number", "string", "null", "strings", "numbers", "open", "closed", "unknown",
                 "alias", "Array", "any"}
    /\ Members["number"] = {"0", "1"}
    /\ Members["string"] = {"''", "'s'"}
    /\ Members["null"] = {"null"}
    /\ Members["strings"] = {"[]", "['s']"}
    /\ Members["numbers"] = {"[]", "[1]"}
    /\ Members["open"] = {"{}", "{s}"}
    /\ Members["closed"] = {"{s}"}
    /\ Members["unknown"] = {"0", "1", "''", "'s'", "null", "[]", "['s']", "[1]", "{}", "{s}"}
    /\ Members["alias"] = {"''", "'s'"}
    /\ Members["Array"] = {"[]", "['s']"}
    /\ Members["any"] = {"0", "1", "''", "'s'", "null", "[]", "['s']", "[1]", "{}", "{s}"}
BY DEF Member, Members

(* The members the mapper writes. *)
Own == Member \ Respelled

LEMMA OwnAre == Own = {"number", "string", "null", "strings", "numbers", "open", "closed", "unknown"}
BY MembersAre DEF Own, Respelled

LEMMA TypesAreMembers == \A k \in Kind : TsType[k] \subseteq Own
<1>1. \A t : t \in {"number", "string", "null", "strings", "numbers", "open", "closed", "unknown"} => t \in Own
  BY OwnAre
<1> QED BY <1>1, TypesAre, Kinds

LEMMA EncodingsAre ==
    /\ Encodings["int"] = {Enc("0", TRUE), Enc("1", FALSE)}
    /\ Encodings["string"] = {Enc("''", TRUE), Enc("'s'", FALSE)}
    /\ Encodings["slice"] = {Enc("[]", TRUE), Enc("[]", FALSE), Enc("['s']", FALSE)}
    /\ Encodings["ptr"] = {Enc("null", TRUE), Enc("''", FALSE), Enc("'s'", FALSE)}
    /\ Encodings["ptrptr"] = {Enc("null", TRUE), Enc("null", FALSE), Enc("'s'", FALSE)}
    /\ Encodings["any"] = {Enc("null", TRUE), Enc("1", FALSE), Enc("'s'", FALSE), Enc("['s']", FALSE)}
    /\ Encodings["loose"] = {Enc("{}", TRUE), Enc("{s}", FALSE)}
    /\ Encodings["solid"] = {Enc("{s}", TRUE), Enc("{s}", FALSE)}
    /\ Encodings["array"] = {Enc("'s'", TRUE), Enc("'s'", FALSE)}
    /\ Encodings["own"] = {Enc("''", TRUE), Enc("'s'", FALSE)}
BY DEF Encodings

LEMMA EncIs == \A json, zero : Enc(json, zero).json = json /\ (Enc(json, zero).zero <=> zero = TRUE)
BY DEF Enc

(* What a value of each kind may encode as. *)
LEMMA Encoded ==
    /\ \A e \in Encodings["int"] : e.json \in {"0", "1"}
    /\ \A e \in Encodings["string"] : e.json \in {"''", "'s'"}
    /\ \A e \in Encodings["slice"] : e.json \in {"[]", "['s']"}
    /\ \A e \in Encodings["ptr"] : e.json \in {"null", "''", "'s'"} /\ (e.json = "null" => e.zero)
    /\ \A e \in Encodings["ptrptr"] : e.json \in {"null", "'s'"}
    /\ \A e \in Encodings["any"] : e.json \in {"null", "1", "'s'", "['s']"} /\ (e.zero => e.json = "null")
    /\ \A e \in Encodings["loose"] : e.json \in {"{}", "{s}"}
    /\ \A e \in Encodings["solid"] : e.json = "{s}"
<1>1. \A e \in Encodings["int"] : e.json \in {"0", "1"}
  <2>1. Encodings["int"] = {Enc("0", TRUE), Enc("1", FALSE)}
    BY EncodingsAre
  <2> QED BY <2>1, EncIs
<1>2. \A e \in Encodings["string"] : e.json \in {"''", "'s'"}
  <2>1. Encodings["string"] = {Enc("''", TRUE), Enc("'s'", FALSE)}
    BY EncodingsAre
  <2> QED BY <2>1, EncIs
<1>3. \A e \in Encodings["slice"] : e.json \in {"[]", "['s']"}
  <2>1. Encodings["slice"] = {Enc("[]", TRUE), Enc("[]", FALSE), Enc("['s']", FALSE)}
    BY EncodingsAre
  <2> QED BY <2>1, EncIs
<1>4. \A e \in Encodings["ptr"] : e.json \in {"null", "''", "'s'"} /\ (e.json = "null" => e.zero)
  <2>1. Encodings["ptr"] = {Enc("null", TRUE), Enc("''", FALSE), Enc("'s'", FALSE)}
    BY EncodingsAre
  <2>2. /\ Enc("null", TRUE).json = "null" /\ Enc("null", TRUE).zero
        /\ Enc("''", FALSE).json = "''" /\ ~Enc("''", FALSE).zero
        /\ Enc("'s'", FALSE).json = "'s'" /\ ~Enc("'s'", FALSE).zero
    BY EncIs
  <2> QED BY <2>1, <2>2
<1>5. \A e \in Encodings["ptrptr"] : e.json \in {"null", "'s'"}
  <2>1. Encodings["ptrptr"] = {Enc("null", TRUE), Enc("null", FALSE), Enc("'s'", FALSE)}
    BY EncodingsAre
  <2> QED BY <2>1, EncIs
<1>6. \A e \in Encodings["any"] : e.json \in {"null", "1", "'s'", "['s']"} /\ (e.zero => e.json = "null")
  <2>1. Encodings["any"] = {Enc("null", TRUE), Enc("1", FALSE), Enc("'s'", FALSE), Enc("['s']", FALSE)}
    BY EncodingsAre
  <2>2. /\ Enc("null", TRUE).json = "null" /\ Enc("null", TRUE).zero
        /\ Enc("1", FALSE).json = "1" /\ ~Enc("1", FALSE).zero
        /\ Enc("'s'", FALSE).json = "'s'" /\ ~Enc("'s'", FALSE).zero
        /\ Enc("['s']", FALSE).json = "['s']" /\ ~Enc("['s']", FALSE).zero
    BY EncIs
  <2> QED BY <2>1, <2>2
<1>7. \A e \in Encodings["loose"] : e.json \in {"{}", "{s}"}
  <2>1. Encodings["loose"] = {Enc("{}", TRUE), Enc("{s}", FALSE)}
    BY EncodingsAre
  <2> QED BY <2>1, EncIs
<1>8. \A e \in Encodings["solid"] : e.json = "{s}"
  <2>1. Encodings["solid"] = {Enc("{s}", TRUE), Enc("{s}", FALSE)}
    BY EncodingsAre
  <2> QED BY <2>1, EncIs
<1> QED BY <1>1, <1>2, <1>3, <1>4, <1>5, <1>6, <1>7, <1>8

(* Each kind the mapper reads right has a zero value, and most an empty one, *)
(* and a filled one.                                                         *)
ReadRight(field) == field.kind \notin Foreign /\ field.opt # "string"

LEMMA Encodes ==
    /\ \A k \in Kind \ Foreign : \E e \in Encodings[k] : e.zero
    /\ \A k \in Kind \ (Foreign \cup {"int", "solid"}) : \E e \in Encodings[k] : e.json \in Empty
    /\ \E e \in Encodings["int"] : e.json = "1" /\ ~e.zero
    /\ \A k \in {"string", "ptr", "ptrptr"} : \E e \in Encodings[k] : e.json = "'s'" /\ ~e.zero
    /\ \E e \in Encodings["slice"] : e.json = "['s']" /\ ~e.zero
    /\ \A k \in {"ptr", "ptrptr"} : \E e \in Encodings[k] : e.json = "null"
    /\ \A k \in {"loose", "solid"} : \E e \in Encodings[k] : e.json = "{s}" /\ ~e.zero
<1>1. Enc("0", TRUE) \in Encodings["int"] /\ Enc("1", FALSE) \in Encodings["int"]
  BY EncodingsAre
<1>2. Enc("''", TRUE) \in Encodings["string"] /\ Enc("'s'", FALSE) \in Encodings["string"]
  BY EncodingsAre
<1>3. Enc("[]", TRUE) \in Encodings["slice"] /\ Enc("['s']", FALSE) \in Encodings["slice"]
  BY EncodingsAre
<1>4. Enc("null", TRUE) \in Encodings["ptr"] /\ Enc("'s'", FALSE) \in Encodings["ptr"]
  BY EncodingsAre
<1>5. Enc("null", TRUE) \in Encodings["ptrptr"] /\ Enc("'s'", FALSE) \in Encodings["ptrptr"]
  BY EncodingsAre
<1>6. Enc("null", TRUE) \in Encodings["any"]
  BY EncodingsAre
<1>7. Enc("{}", TRUE) \in Encodings["loose"] /\ Enc("{s}", FALSE) \in Encodings["loose"]
  BY EncodingsAre
<1>8. Enc("{s}", TRUE) \in Encodings["solid"] /\ Enc("{s}", FALSE) \in Encodings["solid"]
  BY EncodingsAre
<1>9. /\ \E e \in Encodings["int"] : e.zero
      /\ \E e \in Encodings["string"] : e.zero
      /\ \E e \in Encodings["slice"] : e.zero
      /\ \E e \in Encodings["ptr"] : e.zero
      /\ \E e \in Encodings["ptrptr"] : e.zero
      /\ \E e \in Encodings["any"] : e.zero
      /\ \E e \in Encodings["loose"] : e.zero
      /\ \E e \in Encodings["solid"] : e.zero
  BY <1>1, <1>2, <1>3, <1>4, <1>5, <1>6, <1>7, <1>8, EncIs
<1>10. \A k \in Kind \ Foreign : \E e \in Encodings[k] : e.zero
  BY <1>9, Kinds DEF Foreign
<1>11. /\ \E e \in Encodings["string"] : e.json \in Empty
       /\ \E e \in Encodings["slice"] : e.json \in Empty
       /\ \E e \in Encodings["ptr"] : e.json \in Empty
       /\ \E e \in Encodings["ptrptr"] : e.json \in Empty
       /\ \E e \in Encodings["any"] : e.json \in Empty
       /\ \E e \in Encodings["loose"] : e.json \in Empty
  BY <1>2, <1>3, <1>4, <1>5, <1>6, <1>7, EncIs DEF Empty
<1>12. \A k \in Kind \ (Foreign \cup {"int", "solid"}) : \E e \in Encodings[k] : e.json \in Empty
  BY <1>11, Kinds DEF Foreign
<1>13. \A k \in {"string", "ptr", "ptrptr"} : \E e \in Encodings[k] : e.json = "'s'" /\ ~e.zero
  BY <1>2, <1>4, <1>5, EncIs
<1>14. \A k \in {"loose", "solid"} : \E e \in Encodings[k] : e.json = "{s}" /\ ~e.zero
  BY <1>7, <1>8, EncIs
<1>15. \A k \in {"ptr", "ptrptr"} : \E e \in Encodings[k] : e.json = "null"
  BY <1>4, <1>5, EncIs
<1>16. /\ \E e \in Encodings["int"] : e.json = "1" /\ ~e.zero
       /\ \E e \in Encodings["slice"] : e.json = "['s']" /\ ~e.zero
  BY <1>1, <1>3, EncIs
<1> QED BY <1>10, <1>12, <1>13, <1>14, <1>15, <1>16

(* What is sent of a field fits the type mapped for it. *)
LEMMA SentFitsType ==
    ASSUME NEW field \in Field, NEW enc \in Encodings[field.kind], ~Omitted(field, enc),
           ReadRight(field), ~(field.opt = "omitzero" /\ field.kind = "ptrptr")
    PROVE  \E m \in FieldType(field).ts : enc.json \in Members[m]
<1>0. \A t : t \in TsType[field.kind] /\ t # "null" => t \in FieldType(field).ts
  BY DEF FieldType
<1>1. CASE field.kind = "int"
  <2>1. "number" \in FieldType(field).ts
    BY <1>0, <1>1, TypesAre
  <2>2. enc.json \in Members["number"]
    BY <1>1, Encoded, MembersAre
  <2> QED BY <2>1, <2>2
<1>2. CASE field.kind = "string"
  <2>1. "string" \in FieldType(field).ts
    BY <1>0, <1>2, TypesAre
  <2>2. enc.json \in Members["string"]
    BY <1>2, Encoded, MembersAre
  <2> QED BY <2>1, <2>2
<1>3. CASE field.kind = "slice"
  <2>1. "strings" \in FieldType(field).ts
    BY <1>0, <1>3, TypesAre
  <2>2. enc.json \in Members["strings"]
    BY <1>3, Encoded, MembersAre
  <2> QED BY <2>1, <2>2
<1>4. CASE field.kind \in {"ptr", "ptrptr"}
  <2>1. CASE enc.json = "null"
    <3>1. field.opt \notin {"omitempty", "omitzero"}
      BY <1>4, <2>1, Encoded DEF Omitted, Empty
    <3>2. FieldType(field).ts = {"string", "null"}
      BY <1>4, <3>1, TypesAre DEF FieldType
    <3> QED BY <2>1, <3>2, MembersAre
  <2>2. CASE enc.json # "null"
    <3>1. enc.json \in {"''", "'s'"}
      BY <1>4, <2>2, Encoded
    <3>2. "string" \in FieldType(field).ts
      BY <1>0, <1>4, TypesAre
    <3> QED BY <3>1, <3>2, MembersAre
  <2> QED BY <2>1, <2>2
<1>5. CASE field.kind = "any"
  <2>1. "unknown" \in FieldType(field).ts
    BY <1>0, <1>5, TypesAre
  <2>2. enc.json \in Members["unknown"]
    BY <1>5, Encoded, MembersAre
  <2> QED BY <2>1, <2>2
<1>6. CASE field.kind = "loose"
  <2>1. "open" \in FieldType(field).ts
    BY <1>0, <1>6, TypesAre
  <2>2. enc.json \in Members["open"]
    BY <1>6, Encoded, MembersAre
  <2> QED BY <2>1, <2>2
<1>7. CASE field.kind = "solid"
  <2>1. "closed" \in FieldType(field).ts
    BY <1>0, <1>7, TypesAre
  <2>2. enc.json \in Members["closed"]
    BY <1>7, Encoded, MembersAre
  <2> QED BY <2>1, <2>2
<1> QED BY <1>1, <1>2, <1>3, <1>4, <1>5, <1>6, <1>7, Kinds DEF Field, ReadRight, Foreign

(* A field may be left out just if its type says so. *)
LEMMA OptionalMeansOmitted ==
    ASSUME NEW field \in Field, ReadRight(field)
    PROVE  FieldType(field).optional <=> \E enc \in Encodings[field.kind] : Omitted(field, enc)
<1>1. FieldType(field).optional <=>
        field.opt = "omitzero" \/ (field.opt = "omitempty" /\ field.kind \notin {"int", "solid"})
  BY DEF FieldType, CanEncodeEmpty, ReadRight, Foreign
<1>2. field.kind \in Kind \ Foreign
  BY DEF Field, ReadRight
<1>3. field.kind \in {"int", "solid"} => \A enc \in Encodings[field.kind] : enc.json \notin Empty
  BY Encoded DEF Empty
<1> QED BY <1>1, <1>2, <1>3, Encodes DEF Omitted

(* Each member of the type mapped for a field is sent of some value, and   *)
(* as something no other member stands for.                                *)
LEMMA EveryMemberOccurs ==
    ASSUME NEW field \in Field, ReadRight(field), NEW m \in FieldType(field).ts, m # "unknown"
    PROVE  \E enc \in Encodings[field.kind] :
              /\ ~Omitted(field, enc)
              /\ \A k \in Own \ {m, "unknown"} :
                    enc.json \in Members[k] => m \in Literal /\ k \in Literal
<1>0. m \in TsType[field.kind]
  BY DEF FieldType
<1>1. CASE m = "number"
  <2>1. field.kind = "int"
    BY <1>0, <1>1, TypesAre, Kinds DEF Field, ReadRight, Foreign
  <2>2. PICK enc \in Encodings["int"] : enc.json = "1" /\ ~enc.zero
    BY Encodes
  <2>3. ~Omitted(field, enc)
    BY <2>2 DEF Omitted, Empty
  <2>4. \A k \in Own \ {"number", "unknown"} : "1" \notin Members[k]
    BY MembersAre, OwnAre
  <2> QED BY <1>1, <2>1, <2>2, <2>3, <2>4
<1>2. CASE m = "string"
  <2>1. field.kind \in {"string", "ptr", "ptrptr"}
    BY <1>0, <1>2, TypesAre, Kinds DEF Field, ReadRight, Foreign
  <2>2. PICK enc \in Encodings[field.kind] : enc.json = "'s'" /\ ~enc.zero
    BY <2>1, Encodes
  <2>3. ~Omitted(field, enc)
    BY <2>2 DEF Omitted, Empty
  <2>4. \A k \in Own \ {"string", "unknown"} : "'s'" \notin Members[k]
    BY MembersAre, OwnAre
  <2> QED BY <1>2, <2>2, <2>3, <2>4
<1>3. CASE m = "null"
  <2>1. field.kind \in {"ptr", "ptrptr"}
    BY <1>0, <1>3, TypesAre, Kinds DEF Field, ReadRight, Foreign
  <2>2. PICK enc \in Encodings[field.kind] : enc.json = "null"
    BY <2>1, Encodes
  <2>3. ~Omitted(field, enc)
    BY <1>3, <2>1 DEF Omitted, FieldType, CanEncodeEmpty
  <2>4. \A k \in Own \ {"null", "unknown"} : "null" \notin Members[k]
    BY MembersAre, OwnAre
  <2> QED BY <1>3, <2>2, <2>3, <2>4
<1>4. CASE m = "strings"
  <2>1. field.kind = "slice"
    BY <1>0, <1>4, TypesAre, Kinds DEF Field, ReadRight, Foreign
  <2>2. PICK enc \in Encodings["slice"] : enc.json = "['s']" /\ ~enc.zero
    BY Encodes
  <2>3. ~Omitted(field, enc)
    BY <2>2 DEF Omitted, Empty
  <2>4. \A k \in Own \ {"strings", "unknown"} : "['s']" \notin Members[k]
    <3>1. "['s']" \notin Members["number"] /\ "['s']" \notin Members["string"] /\ "['s']" \notin Members["null"]
      BY MembersAre
    <3>2. "['s']" \notin Members["numbers"]
      <4>1. Members["numbers"] = {"[]", "[1]"}
        BY MembersAre
      <4> QED BY <4>1
    <3>3. "['s']" \notin Members["open"] /\ "['s']" \notin Members["closed"]
      BY MembersAre
    <3> QED BY <3>1, <3>2, <3>3, OwnAre
  <2> QED BY <1>4, <2>1, <2>2, <2>3, <2>4
<1>5. CASE m \in {"open", "closed"}
  <2>1. field.kind \in {"loose", "solid"}
    BY <1>0, <1>5, TypesAre, Kinds DEF Field, ReadRight, Foreign
  <2>2. PICK enc \in Encodings[field.kind] : enc.json = "{s}" /\ ~enc.zero
    BY <2>1, Encodes
  <2>3. ~Omitted(field, enc)
    BY <2>2 DEF Omitted, Empty
  <2>4. \A k \in Own \ {"open", "closed", "unknown"} : "{s}" \notin Members[k]
    BY MembersAre, OwnAre
  <2> QED BY <1>5, <2>2, <2>3, <2>4 DEF Literal
<1>6. TsType[field.kind] \subseteq Own
  BY TypesAreMembers DEF Field
<1>7. field.kind \in Kind \ Foreign
  BY DEF Field, ReadRight
<1>8. m # "numbers"
  BY <1>0, <1>7, TypesAre, Kinds DEF Foreign
<1> QED BY <1>0, <1>1, <1>2, <1>3, <1>4, <1>5, <1>6, <1>8, OwnAre

(* Every member is known, and to unknown all of them are. *)
LEMMA UnknownTakesAll == \A m \in Member : Members[m] \subseteq Members["unknown"]
<1>1. \A m \in {"number", "string", "null", "strings", "numbers", "open", "closed", "unknown",
                "alias", "Array", "any"} :
         Members[m] \subseteq Members["unknown"]
  BY MembersAre
<1> QED BY <1>1, MembersAre

LEMMA FieldTypeIsMembers ==
    ASSUME NEW field \in Field
    PROVE  /\ FieldType(field).ts \subseteq Own
           /\ "unknown" \in FieldType(field).ts => FieldType(field).ts = {"unknown"} /\ field.kind = "any"
<1>1. FieldType(field).ts \subseteq TsType[field.kind]
  BY DEF FieldType
<1>2. \A k \in Kind \ {"any"} : "unknown" \notin TsType[k]
  BY TypesAre, Kinds
<1>3. TsType["any"] = {"unknown"}
  BY TypesAre
<1>4. field.kind \in Kind
  BY DEF Field
<1> QED BY <1>1, <1>2, <1>3, <1>4, TypesAreMembers

(* A field whose type is accepted for the declared one sends what fits. *)
LEMMA AssignableSends ==
    ASSUME NEW field \in Field, NEW enc \in Encodings[field.kind], ~Omitted(field, enc),
           ReadRight(field), ~(field.opt = "omitzero" /\ field.kind = "ptrptr"),
           NEW target, AssignableTS(target, FieldType(field).ts)
    PROVE  \E m \in target : enc.json \in Members[m]
<1>1. PICK m \in FieldType(field).ts : enc.json \in Members[m]
  BY SentFitsType
<1>2. CASE target = {"unknown"}
  BY <1>1, <1>2, FieldTypeIsMembers, UnknownTakesAll DEF Own
<1>3. CASE FieldType(field).ts \subseteq target
  BY <1>1, <1>3
<1> QED BY <1>2, <1>3 DEF AssignableTS

(* A field whose type is refused for the declared one sends, of some       *)
(* value, what does not fit.                                               *)
LEMMA UnassignableSends ==
    ASSUME NEW field \in Field, ReadRight(field), NEW target, target \subseteq Own \ {"unknown"},
           ~AssignableTS(target, FieldType(field).ts),
           FieldType(field).ts \cap Literal = {} \/ target \cap Literal = {},
           FieldType(field).ts = {"unknown"} =>
             \E e \in Encodings["any"] : e.json # "null" /\ \A m \in target : e.json \notin Members[m]
    PROVE  \E enc \in Encodings[field.kind] :
              ~Omitted(field, enc) /\ \A m \in target : enc.json \notin Members[m]
<1>1. PICK m \in FieldType(field).ts : m \notin target
  BY DEF AssignableTS
<1>2. CASE m = "unknown"
  <2>1. FieldType(field).ts = {"unknown"} /\ field.kind = "any"
    BY <1>2, FieldTypeIsMembers
  <2>2. PICK e \in Encodings["any"] : e.json # "null" /\ \A k \in target : e.json \notin Members[k]
    BY <2>1
  <2>3. e.json \in {"1", "'s'", "['s']"} /\ ~e.zero
    BY <2>2, Encoded
  <2>4. ~Omitted(field, e)
    BY <2>3 DEF Omitted, Empty
  <2> QED BY <2>1, <2>2, <2>4
<1>3. CASE m # "unknown"
  <2>1. PICK enc \in Encodings[field.kind] :
              /\ ~Omitted(field, enc)
              /\ \A k \in Own \ {m, "unknown"} :
                    enc.json \in Members[k] => m \in Literal /\ k \in Literal
    BY <1>3, EveryMemberOccurs
  <2>2. \A k \in target : k \in Own \ {m, "unknown"}
    BY <1>1
  <2>3. \A k \in target : ~(m \in Literal /\ k \in Literal)
    OBVIOUS
  <2> QED BY <2>1, <2>2, <2>3
<1> QED BY <1>2, <1>3

-----------------------------------------------------------------------------
(* Structs. *)
LEMMA ViolationsAre ==
    ASSUME NEW target, NEW source
    PROVE  Violations(target, source) # {} <=>
             \E n \in DOMAIN target :
                \/ n \notin DOMAIN source /\ ~target[n].optional
                \/ n \in DOMAIN source /\ ~target[n].optional /\ source[n].optional
                \/ n \in DOMAIN source /\ ~AssignableTS(target[n].ts, source[n].ts)
BY DEF Violations

(* What a violation says of the field it names. *)
LEMMA ViolationSays ==
    ASSUME NEW target, NEW source, NEW v \in Violations(target, source)
    PROVE  /\ v.field \in DOMAIN target
           /\ \/ v.field \notin DOMAIN source /\ ~target[v.field].optional
              \/ v.field \in DOMAIN source /\ ~target[v.field].optional /\ source[v.field].optional
              \/ /\ v.kind = "type" /\ v.field \in DOMAIN source
                 /\ ~AssignableTS(target[v.field].ts, source[v.field].ts)
BY DEF Violations

LEMMA StructIs ==
    ASSUME NEW struct, NEW p \in StructsOf(struct)
    PROVE  /\ p.sort = "struct" /\ p.type = struct
           /\ p.holds \in Holdings(struct) /\ p.nil \in SUBSET Pointers(struct)
           /\ p = [sort |-> "struct", type |-> struct, holds |-> p.holds, nil |-> p.nil]
BY DEF StructsOf

(* A field of a struct that is neither misread nor overlooked. *)
LEMMA AcceptedStruct ==
    ASSUME NEW struct \in StructType, NEW p \in StructsOf(struct), NEW n,
           ~Misread(p, n), ~Overlooked(p, n),
           NEW shape, n \in DOMAIN shape, Violations(shape, StructFields(struct)) = {}
    PROVE  FitsAt(JsonOfStruct(p), shape, n)
<1> DEFINE object == JsonOfStruct(p)
           source == StructFields(struct)
<1>0. ~MetTwice(struct)
  BY StructIs DEF Misread
<1>1. /\ \A m \in DOMAIN object : \E c \in Winners(struct) : c.field.name = m
      /\ \A c \in Winners(struct) :
            /\ c.field.name \in DOMAIN object <=> Reached(p, c) /\ ~Omitted(c.field, p.holds[c.field.name])
            /\ c.field.name \in DOMAIN object => object[c.field.name] = AsSent(c.field, p.holds[c.field.name])
  BY <1>0, JsonByWinner
<1>2. \A c \in Winners(struct) : /\ c.field \in Field
                                 /\ p.holds[c.field.name] \in Encodings[c.field.kind]
                                 /\ c.field.name \in DOMAIN source
                                 /\ source[c.field.name] = FieldType(c.field)
  BY <1>0, StructIs, HoldingsOfStruct, OneWinner, ShapeOfStruct
<1>3. \A c \in Winners(struct) : c.field.name = n =>
          ReadRight(c.field) /\ Reached(p, c) /\ ~(c.field.opt = "omitzero" /\ c.field.kind = "ptrptr")
  BY StructIs DEF Misread, Overlooked, ReadRight
<1> HIDE DEF object, source
<1>4. CASE n \in DOMAIN object
  <2>1. PICK c \in Winners(struct) : c.field.name = n /\ ~Omitted(c.field, p.holds[n])
    BY <1>1, <1>4
  <2>2. AssignableTS(shape[n].ts, FieldType(c.field).ts)
    BY <1>2, <2>1, ViolationsAre DEF source
  <2> DEFINE enc == p.holds[n]
  <2>3. /\ c.field \in Field /\ enc \in Encodings[c.field.kind] /\ ~Omitted(c.field, enc)
        /\ ReadRight(c.field) /\ ~(c.field.opt = "omitzero" /\ c.field.kind = "ptrptr")
    BY <1>2, <1>3, <2>1
  <2>4. object[n] = enc.json
    BY <1>1, <1>4, <2>1, <2>3 DEF AsSent, ReadRight
  <2> HIDE DEF enc
  <2>5. \E m \in shape[n].ts : enc.json \in Members[m]
    BY <2>2, <2>3, AssignableSends
  <2> QED BY <1>4, <2>4, <2>5 DEF FitsAt, object
<1>5. CASE n \notin DOMAIN object
  <2> SUFFICES ASSUME ~shape[n].optional PROVE FALSE
    BY <1>5 DEF FitsAt, object
  <2>1. n \in DOMAIN source /\ ~source[n].optional
    BY ViolationsAre DEF source
  <2>2. PICK c \in Winners(struct) : c.field.name = n
    BY <2>1, ShapeOfStruct DEF source
  <2>3. Omitted(c.field, p.holds[n])
    BY <1>1, <1>3, <1>5, <2>2
  <2> QED BY <1>2, <1>3, <2>1, <2>2, <2>3, OptionalMeansOmitted
<1> QED BY <1>4, <1>5

(* A struct of the same type that holds something else in one field. *)
LEMMA Variant ==
    ASSUME NEW struct \in StructType, ~MetTwice(struct), NEW p \in StructsOf(struct),
           NEW c \in Winners(struct), NEW enc \in Encodings[c.field.kind]
    PROVE  \E q \in StructsOf(struct) : q.nil = {} /\ q.holds[c.field.name] = enc
<1> DEFINE n == c.field.name
           h == [p.holds EXCEPT ![n] = enc]
           q == [sort |-> "struct", type |-> struct, holds |-> h, nil |-> {}]
           names == {d.field.name : d \in Winners(struct)}
           all == UNION {Encodings[k] : k \in Kind}
<1>1. p.holds \in [names -> all] /\ \A d \in Winners(struct) : p.holds[d.field.name] \in Encodings[d.field.kind]
  BY StructIs, HoldingsOfStruct
<1>2. n \in names /\ enc \in all
  BY OneWinner DEF Field
<1>3. \A d \in Winners(struct) : d.field.name = n => d = c
  BY OneWinner
<1> HIDE DEF names, all, n
<1>4. h \in [names -> all] /\ h[n] = enc /\ \A m \in names : m # n => h[m] = p.holds[m]
  BY <1>1, <1>2
<1>5. \A d \in Winners(struct) : d.field.name \in names
  BY DEF names
<1>6. \A d \in Winners(struct) : h[d.field.name] \in Encodings[d.field.kind]
  BY <1>1, <1>3, <1>4, <1>5
<1> HIDE DEF h
<1>7. h \in Holdings(struct)
  BY <1>4, <1>6, HoldingsOfStruct DEF names, all
<1>8. q \in StructsOf(struct)
  BY <1>7 DEF StructsOf
<1> QED BY <1>4, <1>8 DEF n

LEMMA RefusedStruct ==
    ASSUME NEW struct \in StructType, props \in StructsOf(struct), declared \in Declared,
           NEW v \in Violations(declared, StructFields(struct)), ~Excused(v)
    PROVE  \E q \in StructsOf(struct) : ~Fits(JsonOfStruct(q), declared)
<1> DEFINE source == StructFields(struct)
           n == v.field
<1>0. /\ n \in DOMAIN declared
      /\ \/ n \notin DOMAIN source /\ ~declared[n].optional
         \/ n \in DOMAIN source /\ ~declared[n].optional /\ source[n].optional
         \/ v.kind = "type" /\ n \in DOMAIN source /\ ~AssignableTS(declared[n].ts, source[n].ts)
  BY ViolationSays
<1>1. ~Misread(props, n) /\ (v.kind = "type" => ~Textual(n)) /\ ShapeOfValue(props) = source
  BY StructIs DEF Excused, ShapeOfValue
<1>2. /\ ~MetTwice(struct)
      /\ \A c \in Winners(struct) : c.field.name = n => c.field \in Field /\ ReadRight(c.field)
  BY <1>1, StructIs, OneWinner DEF Misread, ReadRight
<1> HIDE DEF n
<1>3. ASSUME NEW q \in StructsOf(struct), ~FitsAt(JsonOfStruct(q), declared, n)
      PROVE  \E r \in StructsOf(struct) : ~Fits(JsonOfStruct(r), declared)
  BY <1>0, <1>3 DEF Fits
<1>4. ASSUME NEW q \in StructsOf(struct), q.nil = {}, NEW c \in Winners(struct)
      PROVE  /\ c.field.name \in DOMAIN JsonOfStruct(q) <=> ~Omitted(c.field, q.holds[c.field.name])
             /\ c.field.name \in DOMAIN JsonOfStruct(q) =>
                   JsonOfStruct(q)[c.field.name] = AsSent(c.field, q.holds[c.field.name])
  <2>1. Reached(q, c)
    BY <1>4 DEF Reached
  <2> QED BY <1>2, <2>1, JsonByWinner
<1>5. CASE n \notin DOMAIN source /\ ~declared[n].optional
  <2>1. n \notin DOMAIN JsonOfStruct(props)
    BY <1>2, <1>5, ShapeOfStruct, JsonByWinner
  <2> QED BY <1>3, <1>5, <2>1 DEF FitsAt
<1>6. CASE n \in DOMAIN source /\ ~declared[n].optional /\ source[n].optional
  <2>1. PICK c \in Winners(struct) : c.field.name = n /\ source[n] = FieldType(c.field) /\ c.field \in Field
    BY <1>6, ShapeOfStruct, OneWinner
  <2>2. PICK enc \in Encodings[c.field.kind] : Omitted(c.field, enc)
    BY <1>2, <1>6, <2>1, OptionalMeansOmitted
  <2>3. PICK q \in StructsOf(struct) : q.nil = {} /\ q.holds[n] = enc
    BY <1>2, <2>1, Variant
  <2>4. n \notin DOMAIN JsonOfStruct(q)
    BY <1>4, <2>1, <2>2, <2>3
  <2> QED BY <1>3, <1>6, <2>4 DEF FitsAt
<1>7. CASE v.kind = "type" /\ n \in DOMAIN source /\ ~AssignableTS(declared[n].ts, source[n].ts)
  <2>1. PICK c \in Winners(struct) : c.field.name = n /\ source[n] = FieldType(c.field) /\ c.field \in Field
    BY <1>7, ShapeOfStruct, OneWinner
  <2>2. n \in Name
    BY <2>1 DEF Field
  <2> DEFINE target == declared[n].ts
  <2>3. /\ target \cap Respelled = {} /\ "unknown" \notin target
        /\ source[n].ts \cap Literal = {} \/ target \cap Literal = {}
        /\ source[n].ts = {"unknown"} =>
              \E e \in Encodings["any"] : e.json # "null" /\ \A m \in target : e.json \notin Members[m]
    BY <1>1, <1>7 DEF Textual
  <2>4. target \subseteq Own \ {"unknown"}
    BY <1>0, <2>2, <2>3, DeclaredAssumption DEF Own
  <2>5. ~AssignableTS(target, source[n].ts)
    BY <1>7
  <2> HIDE DEF target, source
  <2>6. PICK enc \in Encodings[c.field.kind] :
                ~Omitted(c.field, enc) /\ \A m \in target : enc.json \notin Members[m]
    BY <1>2, <2>1, <2>3, <2>4, <2>5, UnassignableSends
  <2>7. PICK q \in StructsOf(struct) : q.nil = {} /\ q.holds[n] = enc
    BY <1>2, <2>1, Variant
  <2>8. n \in DOMAIN JsonOfStruct(q) /\ JsonOfStruct(q)[n] = enc.json
    BY <1>2, <1>4, <2>1, <2>6, <2>7 DEF AsSent, ReadRight
  <2> QED BY <1>3, <2>6, <2>8 DEF FitsAt, target
<1> QED BY <1>0, <1>5, <1>6, <1>7

-----------------------------------------------------------------------------
(* Maps: an element is a field that is never left out. *)
Kept(k, n) == [name |-> n, tagged |-> FALSE, opt |-> "", kind |-> k]

LEMMA KeptField ==
    ASSUME NEW k \in Kind, NEW n \in Name
    PROVE  /\ Kept(k, n) \in Field /\ Kept(k, n).kind = k /\ Kept(k, n).opt = ""
           /\ FieldType(Kept(k, n)).ts = TsType[k]
           /\ \A enc : ~Omitted(Kept(k, n), enc)
           /\ k \notin Foreign => ReadRight(Kept(k, n))
BY DEF Kept, Field, Option, FieldType, Omitted, ReadRight

LEMMA HeldIs ==
    ASSUME NEW elem, NEW x
    PROVE  x \in Held(elem) <=>
             \/ elem # "any" /\ \E e \in Encodings[elem] : x = [kind |-> elem, enc |-> e]
             \/ elem = "any" /\ x = [kind |-> "nil", enc |-> Enc("null", TRUE)]
             \/ elem = "any" /\ \E k \in Kind \ {"any"} : \E e \in Encodings[k] : x = [kind |-> k, enc |-> e]
<1> DEFINE of(k) == {[kind |-> k, enc |-> e] : e \in Encodings[k]}
<1>1. \A k : x \in of(k) <=> \E e \in Encodings[k] : x = [kind |-> k, enc |-> e]
  OBVIOUS
<1>2. Held(elem) = IF elem = "any" THEN {[kind |-> "nil", enc |-> Enc("null", TRUE)]}
                                        \cup UNION {of(k) : k \in Kind \ {"any"}}
                   ELSE of(elem)
  BY DEF Held
<1>3. x \in UNION {of(k) : k \in Kind \ {"any"}} <=> \E k \in Kind \ {"any"} : x \in of(k)
  OBVIOUS
<1> HIDE DEF of
<1>4. CASE elem = "any"
  BY <1>1, <1>2, <1>3, <1>4
<1>5. CASE elem # "any"
  BY <1>1, <1>2, <1>5
<1> QED BY <1>4, <1>5

LEMMA MapIs ==
    ASSUME NEW elem \in Element, NEW names \in SUBSET Name, NEW p \in MapsOf(elem, names)
    PROVE  /\ p.sort = "map" /\ p.elem = elem /\ p.keys \in [names -> Held(elem)]
           /\ \A n \in names :
                 \/ elem = "any" /\ p.keys[n].kind = "nil" /\ p.keys[n].enc.json = "null"
                 \/ /\ p.keys[n].kind \in Kind /\ p.keys[n].enc \in Encodings[p.keys[n].kind]
                    /\ MapType(p, n) = TsType[p.keys[n].kind]
                    /\ elem = "any" => p.keys[n].kind # "any"
                    /\ elem # "any" => p.keys[n].kind = elem
<1>1. p.sort = "map" /\ p.elem = elem /\ p.keys \in [names -> Held(elem)]
  BY DEF MapsOf
<1>2. ASSUME NEW n \in names
      PROVE  \/ elem = "any" /\ p.keys[n].kind = "nil" /\ p.keys[n].enc.json = "null"
             \/ /\ p.keys[n].kind \in Kind /\ p.keys[n].enc \in Encodings[p.keys[n].kind]
                /\ MapType(p, n) = TsType[p.keys[n].kind]
                /\ elem = "any" => p.keys[n].kind # "any"
                /\ elem # "any" => p.keys[n].kind = elem
  <2> DEFINE x == p.keys[n]
  <2>1. x \in Held(elem)
    BY <1>1
  <2> HIDE DEF x
  <2>2. CASE elem = "any"
    <3>1. CASE x = [kind |-> "nil", enc |-> Enc("null", TRUE)]
      <4>1. x.kind = "nil" /\ x.enc = Enc("null", TRUE)
        BY <3>1
      <4>2. x.enc.json = "null"
        BY <4>1, EncIs
      <4> QED BY <2>2, <4>1, <4>2 DEF x
    <3>2. CASE \E k \in Kind \ {"any"} : \E e \in Encodings[k] : x = [kind |-> k, enc |-> e]
      <4>1. x.kind \in Kind \ {"any"} /\ x.enc \in Encodings[x.kind]
        BY <3>2
      <4>2. x.kind # "nil"
        BY <4>1, Kinds
      <4> QED BY <1>1, <2>2, <4>1, <4>2 DEF MapType, x
    <3> QED BY <2>1, <2>2, <3>1, <3>2, HeldIs
  <2>3. CASE elem # "any"
    <3>0. PICK e \in Encodings[elem] : x = [kind |-> elem, enc |-> e]
      BY <2>1, <2>3, HeldIs
    <3>1. x.kind = elem /\ x.enc \in Encodings[elem]
      BY <3>0
    <3>2. elem \in Kind
      BY DeclaredAssumption
    <3> QED BY <1>1, <2>3, <3>1, <3>2 DEF MapType, x
  <2> QED BY <2>2, <2>3
<1> QED BY <1>1, <1>2

LEMMA AcceptedMap ==
    ASSUME NEW elem \in Element, NEW names \in SUBSET Name, NEW p \in MapsOf(elem, names),
           NEW shape, NEW n \in DOMAIN shape, ~Misread(p, n), Violations(shape, ShapeOfMap(p)) = {}
    PROVE  FitsAt(JsonOfMap(p), shape, n)
<1>1. /\ p.sort = "map" /\ DOMAIN p.keys = names
      /\ DOMAIN ShapeOfMap(p) = names /\ DOMAIN JsonOfMap(p) = names
      /\ n \in names => /\ ShapeOfMap(p)[n].ts = MapType(p, n)
                        /\ JsonOfMap(p)[n] = p.keys[n].enc.json
  BY MapIs DEF ShapeOfMap, JsonOfMap
<1>2. CASE n \notin names
  BY <1>1, <1>2, ViolationsAre DEF FitsAt
<1>3. ASSUME n \in names
      PROVE  \E m \in shape[n].ts : JsonOfMap(p)[n] \in Members[m]
  <2>1. AssignableTS(shape[n].ts, MapType(p, n))
    BY <1>1, <1>3, ViolationsAre
  <2>2. CASE elem = "any" /\ p.keys[n].kind = "nil" /\ p.keys[n].enc.json = "null"
    <3>1. MapType(p, n) = {"unknown"}
      BY <2>2, MapIs DEF MapType
    <3>2. "unknown" \in shape[n].ts
      BY <2>1, <3>1 DEF AssignableTS
    <3>3. "null" \in Members["unknown"]
      BY MembersAre
    <3> QED BY <1>1, <1>3, <2>2, <3>2, <3>3
  <2>3. CASE /\ p.keys[n].kind \in Kind /\ p.keys[n].enc \in Encodings[p.keys[n].kind]
             /\ MapType(p, n) = TsType[p.keys[n].kind]
    <3> DEFINE k == p.keys[n].kind
               enc == p.keys[n].enc
               target == shape[n].ts
    <3>1. k \in Kind /\ enc \in Encodings[k] /\ AssignableTS(target, TsType[k]) /\ n \in Name
      BY <1>3, <2>1, <2>3
    <3>2. JsonOfMap(p)[n] = enc.json
      BY <1>1, <1>3
    <3>3. k \notin Foreign
      BY <1>1, <1>3 DEF Misread
    <3> HIDE DEF k, enc, target
    <3>4. \E m \in target : enc.json \in Members[m]
      <4> DEFINE field == Kept(k, n)
      <4>1. /\ field \in Field /\ enc \in Encodings[field.kind] /\ ~Omitted(field, enc)
            /\ ReadRight(field) /\ field.opt # "omitzero" /\ AssignableTS(target, FieldType(field).ts)
        BY <3>1, <3>3, KeptField
      <4> HIDE DEF field
      <4> QED BY <4>1, AssignableSends
    <3> QED BY <3>2, <3>4 DEF target
  <2> QED BY <1>3, <2>2, <2>3, MapIs
<1> QED BY <1>1, <1>2, <1>3 DEF FitsAt

LEMMA RefusedMap ==
    ASSUME NEW elem \in Element, NEW names \in SUBSET Name, props \in MapsOf(elem, names),
           declared \in Declared, NEW v \in Violations(declared, ShapeOfMap(props)), ~Excused(v)
    PROVE  \E q \in OfSameType(props) : q.sort = "map" /\ ~Fits(JsonOfMap(q), declared)
<1> DEFINE p == props
           n == v.field
<1>0. /\ p.sort = "map" /\ p.elem = elem /\ p.keys \in [names -> Held(elem)] /\ DOMAIN p.keys = names
      /\ p.sort # "struct"
  BY MapIs
<1>1. /\ DOMAIN ShapeOfMap(p) = names /\ DOMAIN JsonOfMap(p) = names
      /\ \A m \in names : /\ ShapeOfMap(p)[m].ts = MapType(p, m)
                          /\ ShapeOfMap(p)[m].optional = FALSE
      /\ ShapeOfValue(p) = ShapeOfMap(p)
  BY <1>0 DEF ShapeOfMap, JsonOfMap, ShapeOfValue
<1>2. /\ n \in DOMAIN declared
      /\ \/ n \notin names /\ ~declared[n].optional
         \/ v.kind = "type" /\ n \in names /\ ~AssignableTS(declared[n].ts, ShapeOfMap(p)[n].ts)
  BY <1>1, ViolationSays
<1>3. CASE n \notin names /\ ~declared[n].optional
  <2>1. p \in OfSameType(p)
    BY <1>0 DEF OfSameType
  <2> QED BY <1>0, <1>1, <1>2, <1>3, <2>1 DEF Fits, FitsAt
<1>4. CASE v.kind = "type" /\ n \in names /\ ~AssignableTS(declared[n].ts, ShapeOfMap(p)[n].ts)
  <2> DEFINE k == p.keys[n].kind
             field == Kept(k, n)
             target == declared[n].ts
             source == ShapeOfMap(p)[n].ts
  <2>0. ~Textual(n) /\ ~NilInMap(n) /\ ~Misread(p, n)
    BY <1>4 DEF Excused
  <2>1. /\ k \in Kind /\ MapType(p, n) = TsType[k] /\ n \in Name
        /\ elem = "any" => k # "any"
        /\ elem # "any" => k = elem
    <3>1. k # "nil"
      BY <1>0, <1>4, <2>0 DEF NilInMap
    <3> QED BY <1>4, <3>1, MapIs
  <2>2. k \notin Foreign
    BY <1>0, <1>4, <2>0 DEF Misread
  <2>3. /\ target \cap Respelled = {} /\ "unknown" \notin target
        /\ source \cap Literal = {} \/ target \cap Literal = {}
        /\ source = {"unknown"} =>
              \E e \in Encodings["any"] : e.json # "null" /\ \A m \in target : e.json \notin Members[m]
    BY <1>1, <2>0 DEF Textual
  <2>4. target \subseteq Own \ {"unknown"}
    BY <1>2, <2>1, <2>3, DeclaredAssumption DEF Own
  <2> HIDE DEF k
  <2>5. field \in Field /\ field.kind = k /\ FieldType(field).ts = TsType[k] /\ ReadRight(field)
    BY <2>1, <2>2, KeptField
  <2> HIDE DEF field
  <2>6. source = FieldType(field).ts /\ ~AssignableTS(target, source)
    BY <1>1, <1>4, <2>1, <2>5
  <2> HIDE DEF target, source
  <2>7. PICK enc \in Encodings[k] : \A m \in target : enc.json \notin Members[m]
    BY <2>3, <2>4, <2>5, <2>6, UnassignableSends
  <2> DEFINE x == [kind |-> k, enc |-> enc]
             keys == [p.keys EXCEPT ![n] = x]
             q == [sort |-> "map", elem |-> elem, keys |-> keys]
  <2>10. x \in Held(elem)
    <3>1. elem = "any" => k \in Kind \ {"any"}
      BY <2>1
    <3> QED BY <2>1, <3>1, HeldIs
  <2>11. x.kind = k /\ x.enc = enc
    OBVIOUS
  <2> HIDE DEF x
  <2>12. keys \in [names -> Held(elem)] /\ keys[n] = x /\ \A m \in names : m # n => keys[m] = p.keys[m]
    BY <1>0, <1>4, <2>10
  <2> HIDE DEF keys
  <2>13. q \in MapsOf(elem, names) /\ q.keys = keys /\ q.sort = "map"
    BY <2>12 DEF MapsOf
  <2> HIDE DEF q
  <2>14. \A m \in names : q.keys[m].kind = p.keys[m].kind
    BY <2>11, <2>12, <2>13 DEF k
  <2>15. q \in OfSameType(p)
    BY <1>0, <2>13, <2>14 DEF OfSameType
  <2>16. n \in DOMAIN JsonOfMap(q) /\ JsonOfMap(q)[n] = enc.json
    BY <1>4, <2>11, <2>12, <2>13 DEF JsonOfMap
  <2>17. ~FitsAt(JsonOfMap(q), declared, n)
    BY <2>7, <2>16 DEF FitsAt, target
  <2> QED BY <1>2, <2>13, <2>15, <2>17 DEF Fits
<1> QED BY <1>2, <1>3, <1>4

-----------------------------------------------------------------------------
LEMMA ValueIs ==
    ASSUME NEW p \in Value
    PROVE  \/ \E t \in StructType : p \in StructsOf(t) /\ p.sort = "struct" /\ p.type = t
           \/ \E e \in Element, ns \in SUBSET Name : p \in MapsOf(e, ns) /\ p.sort = "map"
           \/ p.sort \in {"nil pointer", "no object", "no encoding"}
<1>1. ASSUME NEW t \in StructType, p \in StructsOf(t) PROVE p.sort = "struct" /\ p.type = t
  BY <1>1, StructIs
<1>2. ASSUME NEW e \in Element, NEW ns \in SUBSET Name, p \in MapsOf(e, ns) PROVE p.sort = "map"
  BY <1>2, MapIs
<1>3. ASSUME NEW s \in {"nil pointer", "no object", "no encoding"}, p = [sort |-> s]
      PROVE  p.sort \in {"nil pointer", "no object", "no encoding"}
  BY <1>3
<1>4. \/ \E t \in StructType : p \in StructsOf(t)
      \/ \E e \in Element, ns \in SUBSET Name : p \in MapsOf(e, ns)
      \/ \E s \in {"nil pointer", "no object", "no encoding"} : p = [sort |-> s]
  <2>1. p \in Structs \/ p \in Maps \/ p \in Others
    BY DEF Value
  <2>2. p \in Structs => \E t \in StructType : p \in StructsOf(t)
    BY DEF Structs
  <2>3. p \in Maps => \E e \in Element, ns \in SUBSET Name : p \in MapsOf(e, ns)
    BY DEF Maps
  <2>4. p \in Others => \E s \in {"nil pointer", "no object", "no encoding"} : p = [sort |-> s]
    BY DEF Others
  <2> QED BY <2>1, <2>2, <2>3, <2>4
<1> QED BY <1>1, <1>2, <1>3, <1>4

(* What the verdict and what is sent have been decided by. *)
PropsInv ==
    /\ props \in Value
    /\ declared \in Declared \cup {Untyped}
    /\ verdict = "admitted" =>
         \/ props.sort \in Unreported
         \/ /\ props.sort # "no object"
            /\ declared = Untyped \/ Violations(declared, ShapeOfValue(props)) = {}
    /\ verdict = "refused" =>
         /\ props.sort \notin Unreported \cup {"no object"}
         /\ declared # Untyped /\ Violations(declared, ShapeOfValue(props)) # {}
    /\ sent = NoObject \/ (verdict = "admitted" /\ sent = MarshalProps(props))

(* Where a render of given props may stand, and what it has then found and  *)
(* sent (OnPrepare, render0).                                              *)
LEMMA PropsHold == PropsSpec => []PropsInv
<1>1. PropsInit => PropsInv
  BY DEF PropsInit, PropsInv
<1>2. PropsInv /\ [PropsNext]_propsVars => PropsInv'
  <2> SUFFICES ASSUME PropsInv, [PropsNext]_propsVars PROVE PropsInv'
    OBVIOUS
  <2>1. CASE OnPrepare
    <3>1. UNCHANGED <<props, declared, sent>> /\ verdict = "none"
      BY <2>1 DEF OnPrepare
    <3> DEFINE v == Violations(declared, ShapeOfValue(props))
    <3>2. verdict' = IF props.sort \in Unreported THEN "admitted"
                     ELSE IF props.sort = "no object" THEN "underivable"
                     ELSE IF declared = Untyped \/ v = {} THEN "admitted" ELSE "refused"
      BY <2>1 DEF OnPrepare
    <3>3. v' = v /\ sent' = NoObject
      BY <3>1 DEF PropsInv, Violations, AssignableTS, ShapeOfValue, ShapeOfMap, MapType
    <3> HIDE DEF v
    <3> QED BY <3>1, <3>2, <3>3 DEF PropsInv, v
  <2>2. CASE DoRender
    BY <2>2 DEF DoRender, PropsInv
  <2>3. CASE UNCHANGED propsVars
    BY <2>3 DEF propsVars, PropsInv
  <2> QED BY <2>1, <2>2, <2>3 DEF PropsNext
<1> QED BY <1>1, <1>2, PTL DEF PropsSpec

LEMMA AdmittedFits == PropsInv => AcceptedFits
<1> SUFFICES ASSUME PropsInv, sent # NoObject, declared # Untyped, props.sort # "nil pointer",
                    NEW n \in DOMAIN declared, ~Misread(props, n), ~Overlooked(props, n)
             PROVE  FitsAt(sent, declared, n)
  BY DEF AcceptedFits
<1>1. verdict = "admitted" /\ sent = MarshalProps(props) /\ props \in Value
  BY DEF PropsInv
<1>2. CASE \E t \in StructType : props \in StructsOf(t) /\ props.sort = "struct" /\ props.type = t
  <2>1. PICK t \in StructType : props \in StructsOf(t) /\ props.sort = "struct" /\ props.type = t
    BY <1>2
  <2>2. Violations(declared, StructFields(t)) = {}
    BY <1>1, <2>1 DEF PropsInv, Unreported, ShapeOfValue
  <2>3. sent = JsonOfStruct(props)
    BY <1>1, <2>1 DEF MarshalProps
  <2> QED BY <2>1, <2>2, <2>3, AcceptedStruct
<1>3. CASE \E e \in Element, ns \in SUBSET Name : props \in MapsOf(e, ns) /\ props.sort = "map"
  <2>1. Violations(declared, ShapeOfMap(props)) = {}
    BY <1>1, <1>3 DEF PropsInv, Unreported, ShapeOfValue
  <2>2. sent = JsonOfMap(props)
    BY <1>1, <1>3 DEF MarshalProps
  <2> QED BY <1>3, <2>1, <2>2, AcceptedMap
<1>4. CASE props.sort \in {"no object", "no encoding"}
  BY <1>1, <1>4 DEF MarshalProps
<1> QED BY <1>1, <1>2, <1>3, <1>4, ValueIs

(* What reaches the page fits the declared type, field by field, whatever the *)
(* struct types, the embeddings, the maps and the declared types are: the     *)
(* mapper's choice of fields and of what may be left out agrees with the      *)
(* encoder's, but for the fields named in Misread and Overlooked              *)
(* (structFields, fieldType, Violations, marshalProps).                       *)
THEOREM AdmittedFit == PropsSpec => []AcceptedFits
BY PropsHold, AdmittedFits, PTL

LEMMA RefusedMisfits == PropsInv => RefusalIsEarned
<1> SUFFICES ASSUME PropsInv, verdict = "refused",
                    NEW v \in Violations(declared, ShapeOfValue(props)), ~Excused(v)
             PROVE  \E p \in OfSameType(props) : ~Fits(MarshalProps(p), declared)
  BY DEF RefusalIsEarned
<1>1. /\ props \in Value /\ props.sort \notin {"nil pointer", "no encoding", "no object"}
      /\ declared \in Declared
  BY DEF PropsInv, Unreported
<1>2. CASE \E t \in StructType : props \in StructsOf(t) /\ props.sort = "struct" /\ props.type = t
  <2>1. PICK t \in StructType : props \in StructsOf(t) /\ props.sort = "struct" /\ props.type = t
    BY <1>2
  <2>2. ShapeOfValue(props) = StructFields(t)
    BY <2>1 DEF ShapeOfValue
  <2>3. PICK q \in StructsOf(t) : ~Fits(JsonOfStruct(q), declared)
    BY <1>1, <2>1, <2>2, RefusedStruct
  <2>4. q \in OfSameType(props) /\ MarshalProps(q) = JsonOfStruct(q)
    BY <2>1, <2>3, StructIs DEF OfSameType, MarshalProps
  <2> QED BY <2>3, <2>4
<1>3. CASE \E e \in Element, ns \in SUBSET Name : props \in MapsOf(e, ns) /\ props.sort = "map"
  <2>1. ShapeOfValue(props) = ShapeOfMap(props)
    BY <1>3 DEF ShapeOfValue
  <2>2. PICK q \in OfSameType(props) : q.sort = "map" /\ ~Fits(JsonOfMap(q), declared)
    BY <1>1, <1>3, <2>1, RefusedMap
  <2>3. MarshalProps(q) = JsonOfMap(q)
    BY <2>2 DEF MarshalProps
  <2> QED BY <2>2, <2>3
<1> QED BY <1>1, <1>2, <1>3, ValueIs

(* Refused props have the blame, whatever the types are: but for a refusal    *)
(* that is all of spelling or of misread fields, some value of the same Go    *)
(* type would not fit (Violations, assignableTS, OnPrepare).                  *)
THEOREM RefusedMisfit == PropsSpec => []RefusalIsEarned
BY PropsHold, RefusedMisfits, PTL
-----------------------------------------------------------------------------
-----------------------------------------------------------------------------
(* Registration. *)
HandlerMap == [EventType -> Seq(Handler)]

LEMMA AddedIs ==
    ASSUME NEW hs \in HandlerMap, NEW t \in EventType, NEW mode \in Mode, NEW h \in Handler
    PROVE  /\ Added(hs, t, mode, h) \in HandlerMap
           /\ \A u \in EventType \ {t} : Added(hs, t, mode, h)[u] = hs[u]
           /\ Added(hs, t, mode, h)[t] \in {<<h>>, <<h>> \o hs[t], hs[t] \o <<h>>}
<1> DEFINE new == CASE mode = "replace" -> <<h>>
                    [] mode = "prefix"  -> <<h>> \o hs[t]
                    [] mode = "postfix" -> hs[t] \o <<h>>
<1>1. Added(hs, t, mode, h) = [hs EXCEPT ![t] = new]
  BY DEF Added
<1>2. new \in {<<h>>, <<h>> \o hs[t], hs[t] \o <<h>>}
  BY DEF Mode
<1>3. hs[t] \in Seq(Handler)
  BY DEF HandlerMap
<1>4. <<h>> \in Seq(Handler) /\ <<h>> \o hs[t] \in Seq(Handler) /\ hs[t] \o <<h>> \in Seq(Handler)
  BY <1>3
<1> HIDE DEF new
<1>5. new \in Seq(Handler)
  BY <1>2, <1>4
<1> QED BY <1>1, <1>2, <1>5 DEF HandlerMap

LEMMA RespondersTyped == Responders \in HandlerMap
<1>1. Responder \in Handler
  BY DEF Responder, Handler
<1>2. <<Responder>> \in Seq(Handler) /\ <<>> \in Seq(Handler)
  BY <1>1
<1> QED BY <1>2 DEF Responders, HandlerMap

(* Seeded is what its recursive definition says. *)
LEMMA SeededUnfolds ==
    ASSUME NEW hs
    PROVE  Seeded(hs) =
             [n \in 0 .. Len(DefaultHandlers) |->
                IF n = 0 THEN hs
                ELSE Added(Seeded(hs)[n - 1], DefaultHandlers[n][1], DefaultHandlers[n][2], DefaultHandlers[n][3])]
<1> DEFINE Next(n, before) ==
             Added(before, DefaultHandlers[n][1], DefaultHandlers[n][2], DefaultHandlers[n][3])
           Is(upTo, k) == upTo = [n \in 0 .. k |-> IF n = 0 THEN hs ELSE Next(n, upTo[n - 1])]
           T == {k \in Nat : \E upTo : Is(upTo, k)}
<1> HIDE DEF Next
<1>1. 0 \in T
  <2>1. Is([n \in 0 .. 0 |-> hs], 0)
    OBVIOUS
  <2> QED BY <2>1
<1>2. ASSUME NEW k \in T PROVE k + 1 \in T
  <2>1. PICK upTo : Is(upTo, k)
    OBVIOUS
  <2> DEFINE more == [n \in 0 .. k + 1 |-> IF n = 0 THEN hs ELSE Next(n, upTo[n - 1])]
  <2>2. ASSUME NEW n \in 0 .. k PROVE more[n] = upTo[n]
    BY <2>1
  <2>3. Is(more, k + 1)
    <3> HIDE DEF Is
    <3>1. \A n \in 0 .. k + 1 : n # 0 => n - 1 \in 0 .. k
      OBVIOUS
    <3> QED BY <2>2, <3>1 DEF Is
  <2> HIDE DEF Is, more
  <2> QED BY <2>3
<1>3. T = Nat
  <2> HIDE DEF T
  <2> QED BY <1>1, <1>2, Induction DEF T
<1>4. Len(DefaultHandlers) \in Nat
  BY CallAssumption
<1>5. \E upTo : Is(upTo, Len(DefaultHandlers))
  BY <1>3, <1>4
<1> QED BY <1>5 DEF Seeded, Next

LEMMA WithDefaultsTyped ==
    ASSUME NEW hs \in HandlerMap
    PROVE  WithDefaults(hs) \in HandlerMap
<1> DEFINE N == Len(DefaultHandlers)
           upTo == Seeded(hs)
           T == {n \in Nat : n \in 0 .. N => upTo[n] \in HandlerMap}
<1>0. N \in Nat /\ \A n \in 1 .. N : DefaultHandlers[n] \in EventType \X Mode \X Handler
  <2> DEFINE S == EventType \X Mode \X Handler
  <2>1. DefaultHandlers \in Seq(S)
    BY CallAssumption
  <2> HIDE DEF S
  <2>2. N \in Nat /\ \A n \in 1 .. N : DefaultHandlers[n] \in S
    BY <2>1
  <2> QED BY <2>2 DEF S
<1> HIDE DEF N, upTo
<1>1. 0 \in T
  BY <1>0, SeededUnfolds DEF N, upTo
<1>2. ASSUME NEW n \in T PROVE n + 1 \in T
  <2> SUFFICES ASSUME n + 1 \in 0 .. N PROVE upTo[n + 1] \in HandlerMap
    OBVIOUS
  <2>1. n \in 0 .. N /\ (n + 1) - 1 = n /\ n + 1 # 0 /\ n + 1 \in 1 .. N
    BY <1>0
  <2> DEFINE d == DefaultHandlers[n + 1]
             hm == upTo[n]
  <2>2. upTo[n + 1] = Added(upTo[n], d[1], d[2], d[3])
    <3>1. upTo[n + 1] = IF n + 1 = 0 THEN hs ELSE Added(upTo[(n + 1) - 1], d[1], d[2], d[3])
      BY SeededUnfolds DEF upTo, N
    <3> QED BY <2>1, <3>1
  <2>3. PICK t \in EventType, mode \in Mode, h \in Handler : d = <<t, mode, h>>
    BY <1>0, <2>1
  <2>4. hm \in HandlerMap
    BY <2>1
  <2> HIDE DEF d, hm
  <2>5. Added(hm, t, mode, h) \in HandlerMap
    BY <2>4, AddedIs
  <2>6. d[1] = t /\ d[2] = mode /\ d[3] = h
    BY <2>3
  <2> QED BY <2>2, <2>5, <2>6 DEF hm
<1>3. T = Nat
  <2> HIDE DEF T
  <2> QED BY <1>1, <1>2, Induction DEF T
<1> QED BY <1>0, <1>3 DEF WithDefaults, upTo, N

(* A consumer's handler is no further default. *)
LEMMA DefaultsCount ==
    ASSUME NEW sq \in Seq(Handler)
    PROVE  IsFiniteSet({i \in DOMAIN sq : sq[i].does = "default"}) /\ Defaults(sq) \in Nat
<1>1. IsFiniteSet(1 .. Len(sq)) /\ DOMAIN sq = 1 .. Len(sq)
  BY FS_Interval
<1>2. IsFiniteSet({i \in DOMAIN sq : sq[i].does = "default"})
  BY <1>1, FS_Subset
<1> QED BY <1>2, FS_CardinalityType DEF Defaults

LEMMA DefaultsAdded ==
    ASSUME NEW sq \in Seq(Handler), NEW h \in Handler, h.does # "default",
           NEW new \in {<<h>>, <<h>> \o sq, sq \o <<h>>}
    PROVE  Defaults(new) <= Defaults(sq)
<1> DEFINE In(s) == {i \in DOMAIN s : s[i].does = "default"}
<1>1. IsFiniteSet(In(sq)) /\ Defaults(sq) = Cardinality(In(sq)) /\ Defaults(sq) \in Nat
  BY DefaultsCount DEF Defaults
<1>2. Defaults(new) = Cardinality(In(new))
  BY DEF Defaults
<1>3. CASE new = <<h>>
  <2>1. In(new) = {}
    BY <1>3
  <2> HIDE DEF In
  <2>2. Defaults(new) = 0
    BY <1>2, <2>1, FS_EmptySet
  <2> QED BY <1>1, <2>2
<1>4. CASE new = <<h>> \o sq
  <2>1. /\ DOMAIN new = 1 .. Len(sq) + 1 /\ new[1] = h
        /\ \A i \in 2 .. Len(sq) + 1 : new[i] = sq[i - 1]
    BY <1>4
  <2> DEFINE f == [i \in In(new) |-> i - 1]
  <2>2. \A i \in In(new) : i \in 2 .. Len(sq) + 1 /\ i - 1 \in In(sq)
    BY <2>1
  <2> HIDE DEF In
  <2>3. f \in [In(new) -> In(sq)] /\ \A i, j \in In(new) : f[i] = f[j] => i = j
    BY <2>2
  <2>4. f \in Injection(In(new), In(sq))
    BY <2>3 DEF Injection, IsInjective
  <2> QED BY <1>1, <1>2, <2>4, FS_Injection
<1>5. CASE new = sq \o <<h>>
  <2>1. /\ DOMAIN new = 1 .. Len(sq) + 1 /\ new[Len(sq) + 1] = h
        /\ \A i \in 1 .. Len(sq) : new[i] = sq[i]
    BY <1>5
  <2>2. In(new) = In(sq)
    BY <2>1
  <2> HIDE DEF In
  <2> QED BY <1>1, <1>2, <2>2
<1> QED BY <1>3, <1>4, <1>5

-----------------------------------------------------------------------------
(* Events: what an event implements is wider than the event. *)
LEMMA OwnIsNarrowest ==
    ASSUME NEW e \in Concrete, NEW t \in Graph(e), t # e
    PROVE  Narrower(e, t)
<1>1. t \in Implements(e) /\ e \notin Implements(e)
  BY DEF Graph, Implements, Concrete
<1>2. Graph(t) \subseteq Implements(e)
  BY <1>1 DEF Graph, Implements, Concrete
<1>3. IsFiniteSet(Implements(e))
  <2> DEFINE all == {"Base", "Success", "Development", "Failure"}
  <2>1. IsFiniteSet({}) /\ IsFiniteSet({"Base"}) /\ IsFiniteSet({"Success"})
        /\ IsFiniteSet({"Development"}) /\ IsFiniteSet({"Failure"})
    BY FS_EmptySet, FS_Singleton
  <2>2. IsFiniteSet({"Base"} \cup {"Success"} \cup {"Development"} \cup {"Failure"})
    BY <2>1, FS_Union
  <2>3. IsFiniteSet(all)
    BY <2>2
  <2>4. Implements(e) \subseteq all
    BY DEF Implements
  <2> HIDE DEF all
  <2> QED BY <2>3, <2>4, FS_Subset
<1>4. Cardinality(Graph(t)) <= Cardinality(Implements(e))
  BY <1>2, <1>3, FS_Subset
<1>5. Graph(e) = Implements(e) \cup {e}
  BY DEF Graph
<1>6. Cardinality(Graph(e)) = Cardinality(Implements(e)) + 1
  BY <1>1, <1>3, <1>5, FS_AddElement
<1>7. Cardinality(Implements(e)) \in Nat /\ Cardinality(Graph(t)) \in Nat
  BY <1>2, <1>3, FS_Subset, FS_CardinalityType
<1> QED BY <1>4, <1>6, <1>7 DEF Narrower

LEMMA GraphTyped == \A t \in EventType : Ancestry[t] \subseteq EventType
BY DEF Ancestry, Graph, Implements, EventType, Event, Category

LEMMA CodesTyped == \A e : HTTPCode(e) \in {200, 500}
BY DEF HTTPCode

-----------------------------------------------------------------------------
-----------------------------------------------------------------------------
(* Types. *)
Page == [status : Nat, commits : Nat, bodies : Nat]

(* Who may run: a handler or a middleware. *)
Act == Handler \cup MiddlewareFn

TypeInv ==
    /\ handlers \in HandlerMap
    /\ middleware \in Seq(MiddlewareFn)
    /\ running \in Seq(MiddlewareFn)
    /\ ran \in Seq(Act)
    /\ committed \in BOOLEAN
    /\ writer \in Writer \cup {NoWriter}
    /\ event \in Event \cup {NoEvent}
    /\ stage \in Range(Stages) \cup {"built", "done", "dispatch"}
    /\ stage = "dispatch" => event \in Event
    /\ stage \in Range(Stages) => event = NoEvent
    /\ lineage \subseteq EventType
    /\ chain \in Seq(Handler)
    /\ client \in [Writer -> Page]
    /\ \A w \in Writer : client[w].status = 0 => client[w].commits = 0

LEMMA ActIs ==
    ASSUME NEW a \in Act
    PROVE  /\ a.does \in {"nothing", "body", "header", "commit", "responder", "default", "adds"}
           /\ a.does \in {"header", "commit"} => a.code \in Nat /\ a.code # 0
           /\ a.err \in BOOLEAN
           /\ a.does = "responder" => a = Responder
<1>1. \A c \in Code : c \in Nat /\ c # 0
  BY CallAssumption
<1>2. CASE a \in [does : {"nothing", "body"}, code : {0}, err : BOOLEAN]
  BY <1>2
<1>3. CASE a \in [does : {"header", "commit"}, code : Code, err : BOOLEAN]
  BY <1>1, <1>3
<1>4. CASE a \in [does : {"responder", "default"}, code : {0}, err : {FALSE}]
  BY <1>4 DEF Responder
<1>5. CASE a \in [does : {"adds"}, code : {0}, err : BOOLEAN]
  BY <1>5
<1> QED BY <1>2, <1>3, <1>4, <1>5 DEF Act, Handler, MiddlewareFn, Actor

LEMMA RegisteredAre ==
    /\ \A h \in Registered : h \in Handler /\ h.does # "default"
    /\ \A c \in Code : CodeHandler(c) \in Handler /\ CodeHandler(c).does # "default"
    /\ Responder \in Handler
    /\ "prefix" \in Mode
<1>1. \A h \in Actor : h \in Handler /\ h.does # "default"
  BY DEF Actor, Handler
<1>2. \A c \in Code : CodeHandler(c) \in Actor
  BY DEF CodeHandler, Actor
<1>3. Responder \in Handler
  BY DEF Responder, Handler
<1> QED BY <1>1, <1>2, <1>3, CallAssumption DEF Mode

LEMMA MiddlewareMove == \A m \in MiddlewareFn : m \in Act /\ m.does \notin {"responder", "default"}
BY DEF Act, MiddlewareFn, Actor

LEMMA DefaultMiddlewareTyped == DefaultMiddleware \in Seq(MiddlewareFn)
<1> DEFINE S == Range(DefaultMiddleware)
<1>1. DefaultMiddleware \in Seq(S) /\ S \subseteq MiddlewareFn
  BY CallAssumption
<1> HIDE DEF S
<1> QED BY <1>1

LEMMA SentIs ==
    ASSUME NEW c \in Page, NEW code \in Nat
    PROVE  /\ Sent(c, code) \in Page
           /\ Sent(c, code).status = IF c.status = 0 THEN code ELSE c.status
           /\ Sent(c, code).commits = c.commits
           /\ Sent(c, code).bodies = c.bodies
BY DEF Sent, Page

LEMMA WrittenIs ==
    ASSUME NEW c \in Page
    PROVE  /\ Written(c) \in Page
           /\ Written(c).status = IF c.status = 0 THEN 200 ELSE c.status
           /\ Written(c).commits = c.commits
           /\ Written(c).bodies = c.bodies + 1
<1> DEFINE s == Sent(c, 200)
<1>1. /\ s \in Page /\ s.status = IF c.status = 0 THEN 200 ELSE c.status
      /\ s.commits = c.commits /\ s.bodies = c.bodies
  BY SentIs
<1>2. Written(c) = [s EXCEPT !.bodies = s.bodies + 1]
  BY DEF Written
<1> HIDE DEF s
<1> QED BY <1>1, <1>2 DEF Page

LEMMA CommittedIs ==
    ASSUME NEW c \in Page, NEW code \in Nat
    PROVE  /\ Committed(c, code) \in Page
           /\ committed => Committed(c, code) = c
           /\ ~committed => /\ Committed(c, code).status = IF c.status = 0 THEN code ELSE c.status
                            /\ Committed(c, code).commits = c.commits + 1
                            /\ Committed(c, code).bodies = c.bodies
<1> DEFINE s == Sent(c, code)
<1>1. /\ s \in Page /\ s.status = IF c.status = 0 THEN code ELSE c.status
      /\ s.commits = c.commits /\ s.bodies = c.bodies
  BY SentIs
<1>2. Committed(c, code) = IF committed THEN c ELSE [s EXCEPT !.commits = s.commits + 1]
  BY DEF Committed
<1> HIDE DEF s
<1> QED BY <1>1, <1>2 DEF Page

(* What an actor, but for the responder, makes of a page. *)
LEMMA ToldIs ==
    ASSUME NEW c \in Page, NEW a \in Act
    PROVE  /\ Told(c, a) \in Page
           /\ a.does = "body" => Told(c, a) = Written(c)
           /\ a.does = "header" => Told(c, a) = Sent(c, a.code)
           /\ a.does = "commit" => Told(c, a) = Committed(c, a.code)
           /\ a.does \notin {"body", "header", "commit"} => Told(c, a) = c
           /\ c.status # 0 => Told(c, a).status = c.status
           /\ Told(c, a).status = 0 => Told(c, a).commits = c.commits
           /\ Told(c, a).bodies >= c.bodies
<1>1. /\ a.does = "body" => Told(c, a) = Written(c)
      /\ a.does = "header" => Told(c, a) = Sent(c, a.code)
      /\ a.does = "commit" => Told(c, a) = Committed(c, a.code)
      /\ a.does \notin {"body", "header", "commit"} => Told(c, a) = c
  BY DEF Told
<1>2. c.status \in Nat /\ c.commits \in Nat /\ c.bodies \in Nat
  BY DEF Page
<1>3. CASE a.does = "body"
  <2>1. /\ Written(c) \in Page
        /\ Written(c).status = IF c.status = 0 THEN 200 ELSE c.status
        /\ Written(c).commits = c.commits /\ Written(c).bodies = c.bodies + 1
    BY WrittenIs
  <2> QED BY <1>1, <1>2, <1>3, <2>1
<1>4. CASE a.does = "header"
  <2>1. a.code \in Nat /\ a.code # 0
    BY <1>4, ActIs
  <2>2. /\ Sent(c, a.code) \in Page
        /\ Sent(c, a.code).status = IF c.status = 0 THEN a.code ELSE c.status
        /\ Sent(c, a.code).commits = c.commits /\ Sent(c, a.code).bodies = c.bodies
    BY <2>1, SentIs
  <2> QED BY <1>1, <1>2, <1>4, <2>1, <2>2
<1>5. CASE a.does = "commit"
  <2>1. a.code \in Nat /\ a.code # 0
    BY <1>5, ActIs
  <2>2. /\ Committed(c, a.code) \in Page
        /\ committed => Committed(c, a.code) = c
        /\ ~committed => /\ Committed(c, a.code).status = IF c.status = 0 THEN a.code ELSE c.status
                         /\ Committed(c, a.code).commits = c.commits + 1
                         /\ Committed(c, a.code).bodies = c.bodies
    BY <2>1, CommittedIs
  <2> QED BY <1>1, <1>2, <1>5, <2>1, <2>2
<1>6. CASE a.does \notin {"body", "header", "commit"}
  BY <1>1, <1>2, <1>6
<1> QED BY <1>1, <1>3, <1>4, <1>5, <1>6

(* What one middleware or handler may make of the page of the writer. *)
PageStep ==
    \/ client' = client
    \/ /\ writer \in Writer
       /\ \E page \in Page :
             /\ client' = [client EXCEPT ![writer] = page]
             /\ page.status = 0 => page.commits = client[writer].commits /\ client[writer].status = 0

LEMMA TellsPages ==
    ASSUME TypeInv, NEW a \in Act, Tells(a)
    PROVE  PageStep /\ ran' \in Seq(Act) /\ committed' \in BOOLEAN /\ UNCHANGED <<middleware, writer, event>>
<1>1. ran' \in Seq(Act) /\ committed' \in BOOLEAN /\ UNCHANGED <<middleware, writer, event>>
  <2>1. ran \in Seq(Act)
    BY DEF TypeInv
  <2>2. Append(ran, a) \in Seq(Act)
    BY <2>1
  <2> QED BY <2>2 DEF Tells
<1>2. PageStep
  <2>1. CASE writer = NoWriter
    BY <2>1 DEF Tells, PageStep
  <2>2. CASE writer # NoWriter
    <3>1. writer \in Writer /\ client[writer] \in Page
      BY <2>2 DEF TypeInv
    <3> DEFINE page == Told(client[writer], a)
    <3>2. /\ page \in Page
          /\ client[writer].status # 0 => page.status = client[writer].status
          /\ page.status = 0 => page.commits = client[writer].commits
      BY <3>1, ToldIs
    <3>3. client' = [client EXCEPT ![writer] = page]
      BY <2>2 DEF Tells
    <3> HIDE DEF page
    <3> QED BY <3>1, <3>2, <3>3 DEF PageStep
  <2> QED BY <2>1, <2>2
<1> QED BY <1>1, <1>2

LEMMA RespondPages ==
    ASSUME TypeInv, Respond
    PROVE  PageStep /\ ran' \in Seq(Act) /\ committed' \in BOOLEAN /\ UNCHANGED <<middleware, writer, event>>
<1>1. ran' \in Seq(Act) /\ committed' \in BOOLEAN /\ UNCHANGED <<middleware, writer, event>>
  <2>1. ran \in Seq(Act) /\ Responder \in Act
    BY RegisteredAre DEF TypeInv, Act
  <2>2. Append(ran, Responder) \in Seq(Act)
    BY <2>1
  <2> QED BY <2>2 DEF Respond, TypeInv
<1>2. PageStep
  <2>1. CASE writer = NoWriter
    BY <2>1 DEF Respond, PageStep
  <2>2. CASE writer # NoWriter
    <3>0. writer \in Writer /\ client \in [Writer -> Page]
      BY <2>2 DEF TypeInv
    <3>1. writer \in Writer /\ client[writer] \in Page /\ HTTPCode(event) \in Nat /\ HTTPCode(event) # 0
      BY <3>0 DEF HTTPCode
    <3> DEFINE c == Committed(client[writer], HTTPCode(event))
    <3>2. /\ c \in Page
          /\ committed => c = client[writer]
          /\ ~committed => c.status = IF client[writer].status = 0 THEN HTTPCode(event) ELSE client[writer].status
      BY <3>1, CommittedIs
    <3>3. c.status = 0 => c = client[writer]
      BY <3>1, <3>2
    <3>4. Written(c) \in Page /\ Written(c).status # 0
      BY <3>2, WrittenIs DEF Page
    <3>5. client' = [client EXCEPT ![writer] = Written(c)] \/ client' = [client EXCEPT ![writer] = c]
      BY <2>2 DEF Respond
    <3> HIDE DEF c
    <3> QED BY <3>1, <3>2, <3>3, <3>4, <3>5 DEF PageStep
  <2> QED BY <2>1, <2>2
<1> QED BY <1>1, <1>2

LEMMA PagesKept ==
    ASSUME TypeInv, PageStep
    PROVE  client' \in [Writer -> Page] /\ \A w \in Writer : client'[w].status = 0 => client'[w].commits = 0
<1>1. CASE client' = client
  BY <1>1 DEF TypeInv
<1>2. ASSUME writer \in Writer, NEW page \in Page, client' = [client EXCEPT ![writer] = page],
             page.status = 0 => page.commits = client[writer].commits /\ client[writer].status = 0
      PROVE  /\ client' \in [Writer -> Page]
             /\ \A w \in Writer : client'[w].status = 0 => client'[w].commits = 0
  BY <1>2 DEF TypeInv
<1> QED BY <1>1, <1>2 DEF PageStep

-----------------------------------------------------------------------------
LEMMA StageNames == \A s \in Range(Stages) : s \notin {"built", "done", "dispatch"}
BY DEF Stages, Range

LEMMA TypeInit == RenderInit => TypeInv
<1> SUFFICES ASSUME RenderInit PROVE TypeInv
  OBVIOUS
<1>1. handlers \in HandlerMap
  BY RespondersTyped, WithDefaultsTyped DEF RenderInit
<1>2. client \in [Writer -> Page] /\ \A w \in Writer : client[w].commits = 0
  BY DEF RenderInit, Page
<1>3. "built" \notin Range(Stages)
  BY StageNames
<1>4. <<>> \in Seq(Handler) /\ <<>> \in Seq(MiddlewareFn) /\ <<>> \in Seq(Act)
  OBVIOUS
<1>5. /\ committed = FALSE /\ writer = NoWriter /\ event = NoEvent /\ stage = "built"
      /\ lineage = {} /\ chain = <<>> /\ middleware = DefaultMiddleware /\ running = <<>> /\ ran = <<>>
  BY DEF RenderInit
<1> QED BY <1>1, <1>2, <1>3, <1>4, <1>5, DefaultMiddlewareTyped DEF TypeInv

LEMMA EventsOfStages == \A s \in Range(Stages) \ {"ctx", "cache", "middleware", "assemble"} : EventOf(s) \in Event
BY DEF EventOf, Event, Concrete, Unlisted, Stages, Range

(* A stage that passes leaves Render among its stages: middleware is entered, *)
(* with the list there is, or is not reached yet.                             *)
Early == Range(Stages) \ {"middleware", "assemble", "transmit"}

LEMMA StageAfter ==
    Pass => /\ stage \in Range(Stages) /\ stage' \in Range(Stages)
            /\ \/ stage \in Early /\ stage' \in Early /\ running' = running
               \/ stage \in Early /\ stage' = "middleware" /\ running' = middleware
               \/ stage = "assemble" /\ stage' = "transmit" /\ running' = running
<1> SUFFICES ASSUME Pass
             PROVE  /\ stage \in Range(Stages) /\ stage' \in Range(Stages)
                    /\ \/ stage \in Early /\ stage' \in Early
                       \/ stage \in Early /\ stage' = "middleware"
                       \/ stage = "assemble" /\ stage' = "transmit"
  <2>1. "middleware" \notin Early
    BY DEF Early
  <2> QED BY <2>1 DEF Pass
<1>1. Stages = <<"ctx", "source", "types", "marshal", "lookup", "cache", "verify", "bundling",
                 "read", "entry", "temp", "bundle", "middleware", "assemble", "transmit">>
  BY DEF Stages
<1>2. stage \in Range(Stages) \ {"middleware", "transmit"}
  BY DEF Pass
<1> DEFINE i == CHOOSE i \in 1 .. Len(Stages) - 1 : Stages[i] = stage
<1>3. \E k \in 1 .. Len(Stages) - 1 : Stages[k] = stage
  BY <1>1, <1>2 DEF Range
<1>4. i \in 1 .. Len(Stages) - 1 /\ Stages[i] = stage
  BY <1>3
<1>5. After(stage) = Stages[1 + i]
  BY DEF After
<1> HIDE DEF i
<1>6. i \in 1 .. 14 /\ Len(Stages) = 15
  BY <1>1, <1>4
<1>7. \A k \in 1 .. 15 : Stages[k] \in Range(Stages)
  BY <1>1 DEF Range
<1>8. \A k \in 1 .. 12 : Stages[k] \notin {"middleware", "assemble", "transmit"}
  BY <1>1
<1>9. Stages[13] = "middleware" /\ Stages[14] = "assemble" /\ Stages[15] = "transmit"
  BY <1>1
<1>10. After(stage) \in Range(Stages) /\ "middleware" \in Range(Stages) /\ Stages[i] \in Range(Stages)
  <2>1. 1 + i \in 1 .. 15 /\ i \in 1 .. 15 /\ 13 \in 1 .. 15
    BY <1>6
  <2>2. Stages[1 + i] \in Range(Stages) /\ Stages[i] \in Range(Stages) /\ Stages[13] \in Range(Stages)
    BY <1>7, <2>1
  <2> QED BY <1>5, <1>9, <2>2
<1>11. CASE i \in 1 .. 11
  <2>1. Stages[i] \in Early /\ Stages[1 + i] \in Early
    <3>1. i \in 1 .. 12 /\ 1 + i \in 1 .. 12
      BY <1>11
    <3>2. Stages[i] \notin {"middleware", "assemble", "transmit"} /\ Stages[1 + i] \notin {"middleware", "assemble", "transmit"}
      BY <1>8, <3>1
    <3> QED BY <1>5, <1>10, <3>2 DEF Early
  <2> QED BY <1>2, <1>4, <1>5, <1>10, <2>1 DEF Pass
<1>12. CASE i = 12
  <2>1. Stages[i] \in Early /\ Stages[1 + i] = "middleware"
    BY <1>8, <1>9, <1>10, <1>12 DEF Early
  <2> QED BY <1>2, <1>4, <1>5, <1>10, <2>1 DEF Pass
<1>13. CASE i = 13
  BY <1>2, <1>4, <1>9, <1>13
<1>14. CASE i = 14
  <2>1. stage = "assemble" /\ After(stage) = "transmit"
    BY <1>4, <1>5, <1>9, <1>14
  <2> QED BY <1>2, <1>10, <2>1 DEF Pass
<1> QED BY <1>6, <1>11, <1>12, <1>13, <1>14

(* Where RunMiddleware leaves Render. *)
LEMMA RunIs ==
    ASSUME TypeInv, RunMiddleware
    PROVE  /\ Head(running) \in MiddlewareFn /\ Tells(Head(running))
           /\ stage = "middleware" /\ running # <<>>
           /\ \/ Head(running).err /\ stage' = "done" /\ failed' /\ running' = <<>>
              \/ ~Head(running).err /\ stage' = stage /\ failed' = failed /\ running' = Tail(running)
           /\ running' \in Seq(MiddlewareFn)
           /\ \/ handlers' = handlers
              \/ \E t \in HandledType, mode \in Mode, h \in Registered : handlers' = Added(handlers, t, mode, h)
           /\ UNCHANGED <<lineage, chain>>
<1>1. running \in Seq(MiddlewareFn) /\ running # <<>>
  BY DEF TypeInv, RunMiddleware
<1>2. Head(running) \in MiddlewareFn /\ Tail(running) \in Seq(MiddlewareFn) /\ <<>> \in Seq(MiddlewareFn)
  BY <1>1
<1> QED BY <1>1, <1>2 DEF RunMiddleware

(* Where a handler leaves the dispatch. *)
Handling == Respond \/ HandlerFails \/ HandlerReturns

LEMMA HandlingIs ==
    ASSUME TypeInv, Handling
    PROVE  \E h \in Handler :
              /\ h = Head(chain) /\ chain # <<>> /\ stage = "dispatch" /\ ran' = Append(ran, h)
              /\ Continue \/ Stop
              /\ h.err => Stop
              /\ (Tells(h) /\ h # Responder) \/ (Respond /\ h = Responder)
              /\ UNCHANGED <<handlers, middleware, running, writer, event, fresh, asked>>
<1> DEFINE h == Head(chain)
<1>1. chain \in Seq(Handler) /\ chain # <<>> /\ stage = "dispatch" /\ UNCHANGED <<handlers, running>>
  BY DEF TypeInv, Handling, Respond, HandlerFails, HandlerReturns, HandlerNext
<1>2. h \in Handler
  BY <1>1
<1> HIDE DEF h
<1>3. CASE Respond
  <2>1. h = Responder /\ ~h.err
    BY <1>3 DEF Respond, h, Responder
  <2>2. ran' = Append(ran, h) /\ (Continue \/ Stop) /\ UNCHANGED <<middleware, writer, event, fresh, asked>>
    BY <1>3, <2>1 DEF Respond
  <2> QED BY <1>1, <1>2, <1>3, <2>1, <2>2 DEF h
<1>4. CASE HandlerFails
  <2>1. h.err /\ Stop /\ Tells(h)
    BY <1>4 DEF HandlerFails, h
  <2>2. h # Responder
    BY <2>1 DEF Responder
  <2>3. ran' = Append(ran, h) /\ UNCHANGED <<middleware, writer, event, fresh, asked>>
    BY <2>1 DEF Tells
  <2> QED BY <1>1, <1>2, <2>1, <2>2, <2>3 DEF h
<1>5. CASE HandlerReturns
  <2>1. ~h.err /\ Continue /\ Tells(h) /\ h # Responder
    BY <1>5 DEF HandlerReturns, h
  <2>2. ran' = Append(ran, h) /\ UNCHANGED <<middleware, writer, event, fresh, asked>>
    BY <2>1 DEF Tells
  <2> QED BY <1>1, <1>2, <2>1, <2>2 DEF h
<1> QED BY <1>3, <1>4, <1>5 DEF Handling

LEMMA TypeStep == TypeInv /\ [RenderNext]_vars => TypeInv'
<1> SUFFICES ASSUME TypeInv, [RenderNext]_vars PROVE TypeInv'
  OBVIOUS
<1>0. "built" \notin Range(Stages) /\ "done" \notin Range(Stages) /\ "dispatch" \notin Range(Stages)
  BY StageNames
<1>1. ASSUME Configuring, handlers' \in HandlerMap, committed' \in BOOLEAN, writer' \in Writer \cup {NoWriter},
             middleware' \in Seq(MiddlewareFn)
      PROVE  TypeInv'
  BY <1>0, <1>1 DEF Configuring, TypeInv
<1>2. CASE SetHTTPBehaviour
  BY <1>1, <1>2, RespondersTyped, WithDefaultsTyped, DefaultMiddlewareTyped DEF SetHTTPBehaviour, TypeInv
<1>3. ASSUME NEW t \in HandledType, NEW mode \in Mode, NEW h \in Handler, Upon(t, mode, h) PROVE TypeInv'
  <2>1. t \in EventType /\ handlers \in HandlerMap
    BY CallAssumption DEF TypeInv
  <2>2. handlers' \in HandlerMap
    BY <1>3, <2>1, AddedIs DEF Upon
  <2> QED BY <1>1, <1>3, <2>2 DEF Upon, TypeInv
<1>4. CASE \E t \in HandledType : \E mode \in Mode, h \in Registered : Upon(t, mode, h)
  BY <1>3, <1>4, RegisteredAre
<1>5. CASE \E t \in HandledType : \E c \in Code : CodeUpon(t, c)
  BY <1>3, <1>5, RegisteredAre DEF CodeUpon
<1>6. CASE \E m \in Middleware : With(m)
  <2>1. PICK m \in Middleware : With(m)
    BY <1>6
  <2>2. m \in MiddlewareFn /\ middleware \in Seq(MiddlewareFn)
    BY CallAssumption DEF TypeInv
  <2>3. Append(middleware, m) \in Seq(MiddlewareFn)
    BY <2>2
  <2> QED BY <1>1, <2>1, <2>3 DEF With, TypeInv
<1>7. CASE \E w \in Writer : ForRequest(w)
  BY <1>1, <1>7 DEF ForRequest, TypeInv
<1>8. CASE Render
  <2>1. "ctx" \in Range(Stages) /\ <<>> \in Seq(Act)
    BY DEF Stages, Range
  <2> QED BY <1>0, <1>8, <2>1 DEF Render, TypeInv, behaviour
<1>9. ASSUME stage' \in Range(Stages) \cup {"done"}, stage' # stage => stage \in Range(Stages) \cup {"dispatch"},
             stage' \in Range(Stages) => stage \in Range(Stages), running' \in Seq(MiddlewareFn),
             UNCHANGED <<event, lineage, chain, Rest>>
      PROVE  TypeInv'
  BY <1>0, <1>9 DEF TypeInv, Rest, behaviour, history
<1>10. CASE Pass
  <2>1. UNCHANGED <<event, lineage, chain, Rest>> /\ running' \in Seq(MiddlewareFn)
    BY <1>10 DEF Pass, TypeInv
  <2> QED BY <1>9, <1>10, <2>1, StageAfter
<1>11. CASE FailSilently \/ MiddlewareDone
  <2>1. "middleware" \in Range(Stages) /\ "assemble" \in Range(Stages) /\ "ctx" \in Range(Stages)
    BY DEF Stages, Range
  <2>2. UNCHANGED <<event, lineage, chain, Rest>> /\ running' \in Seq(MiddlewareFn)
    BY <1>11 DEF FailSilently, MiddlewareDone, TypeInv
  <2> QED BY <1>0, <1>9, <1>11, <2>1, <2>2 DEF FailSilently, MiddlewareDone
<1>12. ASSUME NEW e \in Event, Dispatch(e) PROVE TypeInv'
  <2>1. Ancestry[e] \subseteq EventType
    BY GraphTyped DEF EventType
  <2>2. <<>> \in Seq(Handler)
    OBVIOUS
  <2> QED BY <1>0, <1>12, <2>1, <2>2 DEF Dispatch, TypeInv, Rest, behaviour, history
<1>13. CASE Fail \/ Transmit
  <2>1. "transmit" \in Range(Stages)
    BY DEF Stages, Range
  <2>2. EventOf(stage) \in Event
    BY <1>13, <2>1, EventsOfStages DEF Fail, Transmit
  <2> QED BY <1>12, <1>13, <2>2 DEF Fail, Transmit
<1>14. CASE NextType
  <2>1. PICK t \in lineage : lineage' = lineage \ {t} /\ chain' = handlers[t]
    BY <1>14 DEF NextType
  <2>2. chain' \in Seq(Handler) /\ lineage' \subseteq EventType
    BY <2>1 DEF TypeInv, HandlerMap
  <2> QED BY <1>14, <2>2 DEF NextType, TypeInv, Rest, behaviour, history
<1>15. CASE Dispatched
  <2>1. UNCHANGED <<event, lineage, chain, Rest>> /\ running' \in Seq(MiddlewareFn)
    BY <1>15 DEF Dispatched, TypeInv
  <2> QED BY <1>0, <1>9, <1>15, <2>1 DEF Dispatched
<1>16. CASE Handling
  <2>1. PICK h \in Handler :
            /\ chain # <<>> /\ stage = "dispatch" /\ (Continue \/ Stop)
            /\ Tells(h) \/ Respond
            /\ UNCHANGED <<handlers, middleware, running, writer, event>>
    BY <1>16, HandlingIs
  <2>2. PageStep /\ ran' \in Seq(Act) /\ committed' \in BOOLEAN
    BY <2>1, TellsPages, RespondPages DEF Act
  <2>3. client' \in [Writer -> Page] /\ \A w \in Writer : client'[w].status = 0 => client'[w].commits = 0
    BY <2>2, PagesKept
  <2>4. chain' \in Seq(Handler) /\ lineage' \subseteq EventType /\ stage' \in {"dispatch", "done"}
    <3>1. chain \in Seq(Handler) /\ lineage \subseteq EventType
      BY DEF TypeInv
    <3>2. Tail(chain) \in Seq(Handler) /\ <<>> \in Seq(Handler)
      BY <2>1, <3>1
    <3> QED BY <2>1, <3>1, <3>2 DEF Continue, Stop
  <2> QED BY <1>0, <2>1, <2>2, <2>3, <2>4 DEF TypeInv
<1>17. CASE RunMiddleware
  <2>1. /\ Head(running) \in Act /\ Tells(Head(running)) /\ stage = "middleware" /\ stage' \in {"middleware", "done"}
        /\ running' \in Seq(MiddlewareFn) /\ UNCHANGED <<lineage, chain>>
    BY <1>17, RunIs, MiddlewareMove
  <2>2. PageStep /\ ran' \in Seq(Act) /\ committed' \in BOOLEAN /\ UNCHANGED <<middleware, writer, event>>
    BY <2>1, TellsPages
  <2>3. client' \in [Writer -> Page] /\ \A w \in Writer : client'[w].status = 0 => client'[w].commits = 0
    BY <2>2, PagesKept
  <2>4. handlers' \in HandlerMap
    <3>1. handlers \in HandlerMap /\ HandledType \subseteq EventType /\ Registered \subseteq Handler
      BY CallAssumption, RegisteredAre DEF TypeInv
    <3> QED BY <1>17, <3>1, RunIs, AddedIs
  <2>5. "middleware" \in Range(Stages)
    BY DEF Stages, Range
  <2> QED BY <1>0, <2>1, <2>2, <2>3, <2>4, <2>5 DEF TypeInv
<1>18. CASE UNCHANGED vars
  BY <1>18 DEF vars, TypeInv, behaviour, progress, history
<1> QED BY <1>2, <1>4, <1>5, <1>6, <1>7, <1>8, <1>10, <1>11, <1>13, <1>14, <1>15, <1>16, <1>17, <1>18 DEF RenderNext, Handling

(* The parts of a call keep their types, whatever is registered; a writer  *)
(* without a status was sent nothing by CommitStatus, there is no event    *)
(* while the stages run and one while a dispatch does (RequestBehaviour,   *)
(* render0, Dispatch).                                                     *)
THEOREM RenderTyped == RenderSpec => []TypeInv
BY TypeInit, TypeStep, PTL DEF RenderSpec

-----------------------------------------------------------------------------
NoneFailed == \A i \in 1 .. Len(ran) : ~ran[i].err

(* While Render is under way no middleware and no handler that ran has failed. *)
FailInv ==
    /\ stage \notin {"built", "done"} => NoneFailed
    /\ ErrorStops

(* One more has run. *)
LEMMA OneMore ==
    ASSUME NEW a \in Act, TypeInv, FailInv, stage \notin {"built", "done"}, ran' = Append(ran, a)
    PROVE  /\ ran' \in Seq(Act)
           /\ \A i \in 1 .. Len(ran') - 1 : ~ran'[i].err
           /\ ~a.err => NoneFailed'
<1>1. ran \in Seq(Act)
  BY DEF TypeInv
<1>2. /\ ran' \in Seq(Act)
      /\ Len(ran') = Len(ran) + 1 /\ Len(ran) \in Nat
      /\ \A i \in 1 .. Len(ran) : ran'[i] = ran[i]
      /\ ran'[Len(ran) + 1] = a
  BY <1>1
<1>3. NoneFailed
  BY DEF FailInv
<1> QED BY <1>2, <1>3 DEF NoneFailed

LEMMA FailStep == TypeInv /\ FailInv /\ [RenderNext]_vars => FailInv'
<1> SUFFICES ASSUME TypeInv, FailInv, [RenderNext]_vars PROVE FailInv'
  OBVIOUS
<1>1. ASSUME Configuring PROVE FailInv'
  BY <1>1 DEF Configuring, FailInv, NoneFailed, ErrorStops
<1>2. CASE Render
  <2>1. ran' = <<>> /\ stage' = "ctx" /\ Len(ran') = 0
    BY <1>2 DEF Render
  <2> QED BY <2>1 DEF FailInv, NoneFailed, ErrorStops
<1>3. ASSUME stage \in Range(Stages) \cup {"dispatch"}, ran' = ran PROVE FailInv'
  <2>1. NoneFailed
    BY <1>3, StageNames DEF FailInv
  <2>2. Range(ran) = {ran[i] : i \in 1 .. Len(ran)} /\ Len(ran) \in Nat
    BY DEF TypeInv, Range
  <2> QED BY <1>3, <2>1, <2>2 DEF FailInv, NoneFailed, ErrorStops
<1>4. CASE Pass \/ MiddlewareDone \/ FailSilently \/ Fail \/ Transmit \/ NextType \/ Dispatched
  <2>1. stage \in Range(Stages) \cup {"dispatch"}
    BY <1>4 DEF Pass, MiddlewareDone, FailSilently, Fail, Transmit, NextType, Dispatched, Stages, Range
  <2>2. ran' = ran
    BY <1>4 DEF Pass, MiddlewareDone, FailSilently, Fail, Transmit, Dispatch, NextType, Dispatched, Rest, history
  <2> QED BY <1>3, <2>1, <2>2
<1>5. ASSUME NEW a \in Act, stage \notin {"built", "done"}, ran' = Append(ran, a),
             a.err => stage' = "done" /\ failed'
      PROVE  FailInv'
  <2>1. ran' \in Seq(Act) /\ (\A i \in 1 .. Len(ran') - 1 : ~ran'[i].err) /\ (~a.err => NoneFailed')
    BY <1>5, OneMore
  <2>2. Range(ran') = {ran'[i] : i \in 1 .. Len(ran')}
    BY <2>1 DEF Range
  <2>3. CASE a.err
    BY <1>5, <2>1, <2>3 DEF FailInv, ErrorStops
  <2>4. CASE ~a.err
    BY <2>1, <2>2, <2>4 DEF FailInv, NoneFailed, ErrorStops
  <2> QED BY <2>3, <2>4
<1>6. CASE Handling
  BY <1>5, <1>6, HandlingIs DEF Stop, Act
<1>7. CASE RunMiddleware
  <2>1. Head(running) \in Act /\ stage = "middleware" /\ ran' = Append(ran, Head(running))
    BY <1>7, RunIs, MiddlewareMove DEF Tells
  <2> QED BY <1>5, <1>7, <2>1, RunIs
<1>8. CASE UNCHANGED vars
  BY <1>8 DEF vars, progress, history, FailInv, NoneFailed, ErrorStops
<1>9. ASSUME \/ SetHTTPBehaviour
             \/ \E t \in HandledType :
                   \/ \E mode \in Mode, h \in Registered : Upon(t, mode, h)
                   \/ \E c \in Code : CodeUpon(t, c)
             \/ \E m \in Middleware : With(m)
             \/ \E w \in Writer : ForRequest(w)
      PROVE  Configuring
  BY <1>9 DEF SetHTTPBehaviour, Upon, CodeUpon, With, ForRequest
<1> QED BY <1>1, <1>2, <1>4, <1>6, <1>7, <1>8, <1>9 DEF RenderNext, Handling

(* The first middleware or handler that fails is the last to run and Render  *)
(* returns its error, for any of them (Chain.Run, Dispatch, execMiddleware). *)
THEOREM ErrorIsLast == RenderSpec => []ErrorStops
<1>1. RenderInit => FailInv
  <2> SUFFICES ASSUME RenderInit PROVE FailInv
    OBVIOUS
  <2>1. ran = <<>> /\ stage = "built" /\ Len(ran) = 0
    BY DEF RenderInit
  <2> QED BY <2>1 DEF FailInv, NoneFailed, ErrorStops
<1>2. FailInv => ErrorStops
  BY DEF FailInv
<1> QED BY <1>1, <1>2, FailStep, RenderTyped, PTL DEF RenderSpec

-----------------------------------------------------------------------------
(* Starting over. *)
StartInv ==
    /\ writer = asked
    /\ \A t \in EventType : Defaults(handlers[t]) <= Defaults(WithDefaults(Responders)[t])
    /\ middleware \in Seq(Range(DefaultMiddleware) \cup Middleware)
    /\ Len(DefaultMiddleware) <= Len(middleware)
    /\ \A i \in 1 .. Len(DefaultMiddleware) : middleware[i] = DefaultMiddleware[i]
    /\ \A i \in Len(DefaultMiddleware) + 1 .. Len(middleware) : middleware[i] \in Middleware

LEMMA StartsOverFollows == StartInv => StartsOver
<1> SUFFICES ASSUME StartInv PROVE IsPrefix(DefaultMiddleware, middleware)
  BY DEF StartInv, StartsOver
<1> DEFINE n == Len(DefaultMiddleware)
<1>1. n \in Nat /\ n <= Len(middleware)
  BY CallAssumption DEF StartInv
<1>2. SubSeq(DefaultMiddleware, 1, n) = [i \in 1 .. n |-> DefaultMiddleware[i]]
  BY <1>1
<1>3. SubSeq(middleware, 1, n) = [i \in 1 .. n |-> middleware[i]]
  BY <1>1
<1>4. \A i \in 1 .. n : middleware[i] = DefaultMiddleware[i]
  BY DEF StartInv
<1> HIDE DEF n
<1>5. SubSeq(DefaultMiddleware, 1, n) = SubSeq(middleware, 1, n)
  BY <1>2, <1>3, <1>4
<1> QED BY <1>1, <1>5 DEF IsPrefix, n

LEMMA DefaultMiddlewareStarts ==
    /\ DefaultMiddleware \in Seq(Range(DefaultMiddleware) \cup Middleware)
    /\ Len(DefaultMiddleware) \in Nat
    /\ Len(DefaultMiddleware) + 1 .. Len(DefaultMiddleware) = {}
<1> DEFINE S == Range(DefaultMiddleware)
<1>1. DefaultMiddleware \in Seq(S)
  BY CallAssumption
<1> HIDE DEF S
<1> QED BY <1>1 DEF S

LEMMA AppendStarts ==
    ASSUME StartInv, NEW m \in Middleware, middleware' = Append(middleware, m)
    PROVE  /\ middleware' \in Seq(Range(DefaultMiddleware) \cup Middleware)
           /\ Len(DefaultMiddleware) <= Len(middleware')
           /\ \A i \in 1 .. Len(DefaultMiddleware) : middleware'[i] = DefaultMiddleware[i]
           /\ \A i \in Len(DefaultMiddleware) + 1 .. Len(middleware') : middleware'[i] \in Middleware
<1> DEFINE S == Range(DefaultMiddleware) \cup Middleware
           n == Len(DefaultMiddleware)
<1>1. middleware \in Seq(S) /\ m \in S /\ n \in Nat /\ n <= Len(middleware)
  BY DefaultMiddlewareStarts DEF StartInv
<1> HIDE DEF S
<1>2. /\ middleware' \in Seq(S) /\ Len(middleware') = Len(middleware) + 1 /\ Len(middleware) \in Nat
      /\ \A i \in 1 .. Len(middleware) : middleware'[i] = middleware[i]
      /\ middleware'[Len(middleware) + 1] = m
  BY <1>1
<1>3. /\ \A i \in 1 .. n : middleware[i] = DefaultMiddleware[i]
      /\ \A i \in n + 1 .. Len(middleware) : middleware[i] \in Middleware
  BY DEF StartInv
<1> HIDE DEF n
<1>4. \A i \in n + 1 .. Len(middleware') : middleware'[i] \in Middleware
  <2> TAKE i \in n + 1 .. Len(middleware')
  <2>1. i = Len(middleware) + 1 \/ i \in n + 1 .. Len(middleware)
    BY <1>1, <1>2
  <2> QED BY <1>1, <1>2, <1>3, <2>1
<1> QED BY <1>1, <1>2, <1>3, <1>4 DEF S, n

(* A handler a consumer adds, from outside or by a middleware. *)
LEMMA AddedStarts ==
    ASSUME TypeInv, StartInv, NEW t \in HandledType, NEW mode \in Mode, NEW h \in Handler, h.does # "default",
           handlers' = Added(handlers, t, mode, h)
    PROVE  \A u \in EventType : Defaults(handlers'[u]) <= Defaults(WithDefaults(Responders)[u])
<1>1. t \in EventType /\ handlers \in HandlerMap
  BY CallAssumption DEF TypeInv
<1>2. /\ handlers' \in HandlerMap
      /\ \A u \in EventType \ {t} : handlers'[u] = handlers[u]
      /\ handlers'[t] \in {<<h>>, <<h>> \o handlers[t], handlers[t] \o <<h>>}
  <2> DEFINE new == Added(handlers, t, mode, h)
  <2>1. /\ new \in HandlerMap
        /\ \A u \in EventType \ {t} : new[u] = handlers[u]
        /\ new[t] \in {<<h>>, <<h>> \o handlers[t], handlers[t] \o <<h>>}
    BY <1>1, AddedIs
  <2> HIDE DEF new
  <2> QED BY <2>1 DEF new
<1> TAKE u \in EventType
<1>3. Defaults(handlers[u]) <= Defaults(WithDefaults(Responders)[u])
  BY DEF StartInv
<1>4. CASE u # t
  BY <1>2, <1>3, <1>4
<1>5. CASE u = t
  <2>1. handlers'[u] \in {<<h>>, <<h>> \o handlers[u], handlers[u] \o <<h>>} /\ handlers[u] \in Seq(Handler)
    BY <1>1, <1>2, <1>5 DEF HandlerMap
  <2>2. Defaults(handlers'[u]) <= Defaults(handlers[u])
    BY <2>1, DefaultsAdded
  <2>3. handlers'[u] \in Seq(Handler) /\ WithDefaults(Responders)[u] \in Seq(Handler)
    BY <1>2, RespondersTyped, WithDefaultsTyped DEF HandlerMap
  <2>4. /\ Defaults(handlers'[u]) \in Nat /\ Defaults(handlers[u]) \in Nat
        /\ Defaults(WithDefaults(Responders)[u]) \in Nat
    BY <2>1, <2>3, DefaultsCount
  <2> QED BY <1>3, <2>2, <2>4
<1> QED BY <1>4, <1>5

LEMMA StartStep == TypeInv /\ StartInv /\ [RenderNext]_vars => StartInv'
<1> SUFFICES ASSUME TypeInv, StartInv, [RenderNext]_vars PROVE StartInv'
  OBVIOUS
<1>1. ASSUME UNCHANGED <<writer, asked>>, UNCHANGED middleware,
             \A t \in EventType : Defaults(handlers'[t]) <= Defaults(WithDefaults(Responders)[t])
      PROVE  StartInv'
  BY <1>1 DEF StartInv
<1>2. CASE SetHTTPBehaviour
  <2>1. \A t \in EventType : Defaults(handlers'[t]) <= Defaults(WithDefaults(Responders)[t])
    <3> TAKE t \in EventType
    <3>1. WithDefaults(Responders)[t] \in Seq(Handler)
      BY RespondersTyped, WithDefaultsTyped DEF HandlerMap
    <3>2. Defaults(WithDefaults(Responders)[t]) \in Nat /\ handlers'[t] = WithDefaults(Responders)[t]
      BY <1>2, <3>1, DefaultsCount DEF SetHTTPBehaviour
    <3> QED BY <3>2
  <2>2. middleware' = DefaultMiddleware /\ UNCHANGED <<writer, asked>>
    BY <1>2 DEF SetHTTPBehaviour
  <2> QED BY <2>1, <2>2, DefaultMiddlewareStarts DEF StartInv
<1>3. ASSUME NEW t \in HandledType, NEW mode \in Mode, NEW h \in Handler, h.does # "default", Upon(t, mode, h)
      PROVE  StartInv'
  BY <1>1, <1>3, AddedStarts DEF Upon
<1>4. CASE \E t \in HandledType : \E mode \in Mode, h \in Registered : Upon(t, mode, h)
  BY <1>3, <1>4, RegisteredAre
<1>5. CASE \E t \in HandledType : \E c \in Code : CodeUpon(t, c)
  BY <1>3, <1>5, RegisteredAre DEF CodeUpon
<1>6. CASE \E m \in Middleware : With(m)
  <2>1. PICK m \in Middleware : With(m)
    BY <1>6
  <2>2. middleware' = Append(middleware, m) /\ UNCHANGED <<handlers, writer, asked>>
    BY <2>1 DEF With
  <2> QED BY <2>2, AppendStarts DEF StartInv
<1>7. CASE \E w \in Writer : ForRequest(w)
  BY <1>7 DEF ForRequest, StartInv
<1>8. ASSUME UNCHANGED <<handlers, middleware, writer, asked>> PROVE StartInv'
  BY <1>8 DEF StartInv
<1>9. CASE Render \/ Pass \/ MiddlewareDone \/ FailSilently \/ Fail \/ Transmit \/ NextType \/ Dispatched
  BY <1>8, <1>9 DEF Render, Pass, MiddlewareDone, FailSilently, Fail, Transmit, Dispatch, NextType, Dispatched,
                    Rest, behaviour, history
<1>10. CASE Handling
  BY <1>8, <1>10, HandlingIs
<1>11. CASE RunMiddleware
  <2>1. UNCHANGED <<middleware, writer, asked>>
    BY <1>11 DEF RunMiddleware, Tells
  <2>2. CASE handlers' = handlers
    BY <1>8, <2>1, <2>2
  <2>3. CASE \E t \in HandledType, mode \in Mode, h \in Registered : handlers' = Added(handlers, t, mode, h)
    <3>1. \A t \in EventType : Defaults(handlers'[t]) <= Defaults(WithDefaults(Responders)[t])
      BY <2>3, AddedStarts, RegisteredAre
    <3> QED BY <1>1, <2>1, <3>1
  <2> QED BY <1>11, <2>2, <2>3, RunIs
<1>12. CASE UNCHANGED vars
  BY <1>8, <1>12 DEF vars, behaviour, history
<1> QED BY <1>2, <1>4, <1>5, <1>6, <1>7, <1>9, <1>10, <1>11, <1>12 DEF RenderNext, Handling

LEMMA StartInit == RenderInit => StartInv
<1> SUFFICES ASSUME RenderInit PROVE StartInv
  OBVIOUS
<1>1. handlers = WithDefaults(Responders) /\ middleware = DefaultMiddleware /\ writer = asked
  BY DEF RenderInit
<1>2. \A t \in EventType : Defaults(WithDefaults(Responders)[t]) \in Nat
  BY RespondersTyped, WithDefaultsTyped, DefaultsCount DEF HandlerMap
<1> QED BY <1>1, <1>2, DefaultMiddlewareStarts DEF StartInv

(* However a call is configured and rendered, in any order and number, and    *)
(* whatever its middleware adds, the bundler's defaults are not registered    *)
(* twice, its middleware comes first and the writer is the one named last     *)
(* (SetHTTPBehaviour, ForRequest, NewRequestBehaviourBuilder).                *)
THEOREM DefaultsOnce == RenderSpec => []StartsOver
<1>1. RenderInit => StartInv
  BY StartInit
<1>2. TypeInv /\ StartInv /\ [RenderNext]_vars => StartInv'
  BY StartStep
<1> QED BY <1>1, <1>2, RenderTyped, StartsOverFollows, PTL DEF RenderSpec

-----------------------------------------------------------------------------
(* The order of what runs: the middleware in its order, then the event's own *)
(* handlers in theirs, then those of its categories.                         *)
OwnRan(k) ==
    /\ Len(Before) + k <= Len(ran)
    /\ \A i \in 1 .. k : ran[Len(Before) + i] = handlers[event][i]

(* The first k of the own type have run, and nothing after them. *)
OwnLeft(k) ==
    /\ Len(ran) = Len(Before) + k
    /\ Len(chain) = Len(handlers[event]) - k
    /\ \A i \in 1 .. Len(chain) : chain[i] = handlers[event][k + i]

OrderInv ==
    /\ stage \in Early => ran = <<>>
    /\ stage = "middleware" =>
          /\ Len(running) = Len(middleware) - Len(ran)
          /\ \A i \in 1 .. Len(ran) : ran[i] = middleware[i]
          /\ \A i \in 1 .. Len(running) : running[i] = middleware[Len(ran) + i]
    /\ stage \in {"assemble", "transmit"} => ran = middleware
    /\ stage \in {"dispatch", "done"} /\ ~failed => event = "TransmitRenderedTemplate"
    /\ stage \in {"dispatch", "done"} /\ event # NoEvent =>
          Len(Before) <= Len(ran) /\ \A i \in 1 .. Len(Before) : ran[i] = Before[i]
    /\ stage = "dispatch" /\ event \in Concrete =>
          \/ lineage = Graph(event) /\ chain = <<>> /\ Len(ran) = Len(Before)
          \/ /\ event \notin lineage
             /\ \E k \in 0 .. Len(handlers[event]) : OwnRan(k) /\ (k = Len(handlers[event]) \/ OwnLeft(k))
    /\ stage = "done" /\ event \in Concrete =>
          \E k \in 0 .. Len(handlers[event]) :
             /\ OwnRan(k)
             /\ k # Len(handlers[event]) =>
                   failed /\ k >= 1 /\ Len(ran) = Len(Before) + k /\ Effective(ran[Len(ran)])

LEMMA Sequences ==
    ASSUME TypeInv
    PROVE  /\ Len(ran) \in Nat /\ Len(Before) \in Nat /\ Len(chain) \in Nat
           /\ Before \in Seq(MiddlewareFn)
           /\ event \in Concrete => handlers[event] \in Seq(Handler) /\ Len(handlers[event]) \in Nat
<1>1. <<>> \in Seq(MiddlewareFn) /\ middleware \in Seq(MiddlewareFn)
  BY DEF TypeInv
<1>2. Before \in Seq(MiddlewareFn)
  BY <1>1 DEF Before
<1>3. ran \in Seq(Act) /\ chain \in Seq(Handler)
  BY DEF TypeInv
<1>4. event \in Concrete => handlers[event] \in Seq(Handler)
  BY DEF TypeInv, HandlerMap, EventType, Event
<1> QED BY <1>2, <1>3, <1>4

LEMMA OneMoreRan ==
    ASSUME TypeInv, NEW a \in Act, ran' = Append(ran, a)
    PROVE  /\ Len(ran') = Len(ran) + 1 /\ Len(ran) \in Nat
           /\ \A i \in 1 .. Len(ran) : ran'[i] = ran[i]
           /\ ran'[Len(ran) + 1] = a
<1>1. ran \in Seq(Act)
  BY DEF TypeInv
<1> QED BY <1>1

(* One more handler of the dispatch has run, and it goes on or stops. *)
LEMMA OrderHandled ==
    ASSUME TypeInv, OrderInv, Handling
    PROVE  OrderInv'
<1>0. PICK h \in Handler :
          /\ h = Head(chain) /\ chain # <<>> /\ stage = "dispatch" /\ ran' = Append(ran, h)
          /\ Continue \/ Stop
          /\ h.err => Stop
          /\ (Tells(h) /\ h # Responder) \/ (Respond /\ h = Responder)
          /\ UNCHANGED <<handlers, middleware, running, writer, event, fresh, asked>>
  BY HandlingIs
<1>1. /\ Len(ran') = Len(ran) + 1 /\ Len(ran) \in Nat
      /\ \A i \in 1 .. Len(ran) : ran'[i] = ran[i]
      /\ ran'[Len(ran) + 1] = h
  BY <1>0, OneMoreRan DEF Act
<1>2. Before' = Before /\ Len(Before) \in Nat /\ event \in Event
  BY <1>0, Sequences DEF Before, TypeInv
<1>3. event # NoEvent
  BY <1>2 DEF Event, Concrete, Unlisted, NoEvent
<1>4. Len(Before) <= Len(ran) /\ \A i \in 1 .. Len(Before) : ran[i] = Before[i]
  BY <1>0, <1>3 DEF OrderInv
<1>5. Len(Before)' <= Len(ran') /\ \A i \in 1 .. Len(Before)' : ran'[i] = Before'[i]
  BY <1>1, <1>2, <1>4
<1>6. stage' \in {"dispatch", "done"} /\ (~failed' => event' = "TransmitRenderedTemplate")
  BY <1>0 DEF OrderInv, Continue, Stop
<1>7. stage' \notin Early /\ stage' \notin {"middleware", "assemble", "transmit"}
  BY <1>6, StageNames DEF Early
<1>8. ASSUME event \in Concrete
      PROVE  /\ event \notin lineage
             /\ \E k \in 0 .. Len(handlers[event]) : OwnRan(k) /\ (k = Len(handlers[event]) \/ OwnLeft(k))
  BY <1>0, <1>8 DEF OrderInv
<1>9. ASSUME NEW k \in Nat, OwnRan(k) PROVE OwnRan(k)'
  <2>1. Len(Before) + k <= Len(ran) /\ \A i \in 1 .. k : ran[Len(Before) + i] = handlers[event][i]
    BY <1>9 DEF OwnRan
  <2>2. \A i \in 1 .. k : Len(Before) + i \in 1 .. Len(ran)
    BY <1>1, <1>2, <2>1
  <2>3. \A i \in 1 .. k : ran'[Len(Before) + i] = handlers[event][i]
    BY <1>1, <2>1, <2>2
  <2>4. Len(Before) + k <= Len(ran')
    BY <1>1, <1>2, <2>1
  <2> QED BY <1>0, <1>2, <2>3, <2>4 DEF OwnRan
<1>10. ASSUME event \in Concrete, NEW k \in 0 .. Len(handlers[event]), OwnRan(k), OwnLeft(k), k # Len(handlers[event])
       PROVE  /\ k + 1 \in 0 .. Len(handlers[event]) /\ OwnRan(k + 1)'
              /\ Len(ran') = Len(Before) + (k + 1) /\ ran'[Len(ran')] = h
              /\ Continue => OwnLeft(k + 1)'
  <2>1. k \in Nat /\ Len(handlers[event]) \in Nat /\ k < Len(handlers[event])
    BY <1>10, Sequences
  <2>2. Len(ran) = Len(Before) + k /\ Len(chain) = Len(handlers[event]) - k
    BY <1>10 DEF OwnLeft
  <2>3. h = handlers[event][k + 1]
    <3>1. chain \in Seq(Handler) /\ Len(chain) >= 1
      BY <2>1, <2>2 DEF TypeInv
    <3>2. h = chain[1] /\ 1 \in 1 .. Len(chain)
      BY <1>0, <3>1
    <3> QED BY <1>10, <3>2 DEF OwnLeft
  <2>4. Len(ran') = Len(Before) + (k + 1) /\ ran'[Len(ran')] = h
    BY <1>1, <1>2, <2>1, <2>2
  <2>5. \A i \in 1 .. k : ran'[Len(Before) + i] = handlers[event][i]
    BY <1>0, <1>2, <1>9, <1>10 DEF OwnRan
  <2>6. ran'[Len(Before) + (k + 1)] = handlers[event][k + 1]
    BY <2>3, <2>4
  <2>7. \A i \in 1 .. k + 1 : i \in 1 .. k \/ i = k + 1
    BY <2>1
  <2>8. OwnRan(k + 1)'
    BY <1>0, <1>2, <2>4, <2>5, <2>6, <2>7 DEF OwnRan
  <2>9. ASSUME Continue PROVE OwnLeft(k + 1)'
    <3>1. chain' = Tail(chain) /\ chain \in Seq(Handler) /\ chain # <<>>
      BY <1>0, <2>9 DEF Continue, TypeInv
    <3>2. Len(chain') = Len(chain) - 1 /\ \A i \in 1 .. Len(chain') : chain'[i] = chain[i + 1]
      BY <3>1
    <3>3. Len(chain') = Len(handlers[event]) - (k + 1)
      BY <2>1, <2>2, <3>2
    <3>4. \A i \in 1 .. Len(chain') : chain'[i] = handlers[event][(k + 1) + i]
      <4> TAKE i \in 1 .. Len(chain')
      <4>1. i + 1 \in 1 .. Len(chain) /\ k + (i + 1) = (k + 1) + i
        BY <2>1, <2>2, <3>2
      <4>2. chain[i + 1] = handlers[event][k + (i + 1)]
        BY <1>10, <4>1 DEF OwnLeft
      <4> QED BY <3>2, <4>1, <4>2
    <3> QED BY <1>0, <1>2, <2>4, <3>3, <3>4 DEF OwnLeft
  <2> QED BY <2>1, <2>4, <2>8, <2>9
<1>11. ASSUME event \in Concrete, Continue
       PROVE  /\ event' \notin lineage'
              /\ \E k \in 0 .. Len(handlers'[event']) : OwnRan(k)' /\ (k = Len(handlers'[event']) \/ OwnLeft(k)')
  <2>1. PICK k \in 0 .. Len(handlers[event]) : OwnRan(k) /\ (k = Len(handlers[event]) \/ OwnLeft(k))
    BY <1>8, <1>11
  <2>2. event' = event /\ handlers' = handlers /\ lineage' = lineage
    BY <1>0, <1>11 DEF Continue
  <2>3. CASE k = Len(handlers[event])
    BY <1>8, <1>9, <1>11, <2>1, <2>2, <2>3, Sequences
  <2>4. CASE k # Len(handlers[event])
    BY <1>8, <1>10, <1>11, <2>1, <2>2, <2>4
  <2> QED BY <2>3, <2>4
<1>12. ASSUME event \in Concrete, Stop
       PROVE  \E k \in 0 .. Len(handlers'[event']) :
                 /\ OwnRan(k)'
                 /\ k # Len(handlers'[event']) =>
                       failed' /\ k >= 1 /\ Len(ran') = Len(Before)' + k /\ Effective(ran'[Len(ran')])
  <2>1. PICK k \in 0 .. Len(handlers[event]) : OwnRan(k) /\ (k = Len(handlers[event]) \/ OwnLeft(k))
    BY <1>8, <1>12
  <2>2. event' = event /\ handlers' = handlers /\ failed'
    BY <1>0, <1>12 DEF Stop
  <2>3. CASE k = Len(handlers[event])
    BY <1>9, <1>12, <2>1, <2>2, <2>3, Sequences
  <2>4. CASE k # Len(handlers[event])
    <3>1. /\ k + 1 \in 0 .. Len(handlers[event]) /\ OwnRan(k + 1)'
          /\ Len(ran') = Len(Before) + (k + 1) /\ ran'[Len(ran')] = h
      BY <1>10, <1>12, <2>1, <2>4
    <3>2. Effective(h)
      <4>1. chain' = <<>> /\ lineage' = {} /\ stage' = "done"
        BY <1>12 DEF Stop
      <4>2. CASE h = Responder
        BY <4>2 DEF Effective, Responder
      <4>3. CASE h # Responder
        <5>1. stage = "dispatch" /\ (HandlerFails \/ HandlerReturns)
          BY <1>0, <4>3 DEF Handling, Respond, HandlerNext
        <5>2. HandlerFails
          BY <1>0, <4>1, <5>1 DEF HandlerReturns, Continue
        <5> QED BY <1>0, <5>2 DEF HandlerFails, Effective
      <4> QED BY <4>2, <4>3
    <3>3. k + 1 >= 1
      OBVIOUS
    <3> QED BY <1>2, <2>2, <3>1, <3>2, <3>3
  <2> QED BY <2>3, <2>4
<1>13. Continue => stage' = "dispatch"
  BY <1>0 DEF Continue
<1>14. Stop => stage' = "done"
  BY DEF Stop
<1> QED BY <1>0, <1>5, <1>6, <1>7, <1>11, <1>12, <1>13, <1>14 DEF OrderInv

LEMMA OrderRun ==
    ASSUME TypeInv, OrderInv, RunMiddleware
    PROVE  OrderInv'
<1> DEFINE m == Head(running)
<1>1. /\ m \in Act /\ ran' = Append(ran, m) /\ stage = "middleware" /\ running # <<>> /\ event' = event /\ middleware' = middleware
      /\ \/ stage' = "done" /\ failed'
         \/ stage' = stage /\ running' = Tail(running)
  BY RunIs, MiddlewareMove DEF Tells
<1>2. event = NoEvent /\ NoEvent \notin Concrete
  <2>1. "middleware" \in Range(Stages)
    BY DEF Stages, Range
  <2> QED BY <1>1, <2>1 DEF TypeInv, NoEvent, Concrete
<1>3. CASE stage' = "done" /\ failed'
  BY <1>1, <1>2, <1>3, StageNames DEF OrderInv, Early
<1>4. CASE stage' = stage /\ running' = Tail(running)
  <2>1. /\ Len(ran') = Len(ran) + 1 /\ Len(ran) \in Nat
        /\ \A i \in 1 .. Len(ran) : ran'[i] = ran[i]
        /\ ran'[Len(ran) + 1] = m
    <3> HIDE DEF m
    <3> QED BY <1>1, OneMoreRan
  <2>2. running \in Seq(MiddlewareFn) /\ middleware \in Seq(MiddlewareFn)
    BY DEF TypeInv
  <2>3. /\ Len(running) \in Nat /\ Len(running) >= 1 /\ m = running[1]
        /\ Len(running') = Len(running) - 1
        /\ \A i \in 1 .. Len(running') : running'[i] = running[i + 1]
    BY <1>1, <1>4, <2>2
  <2>4. /\ Len(running) = Len(middleware) - Len(ran) /\ Len(middleware) \in Nat
        /\ \A i \in 1 .. Len(ran) : ran[i] = middleware[i]
        /\ \A i \in 1 .. Len(running) : running[i] = middleware[Len(ran) + i]
    BY <1>1, <2>2 DEF OrderInv
  <2> HIDE DEF m
  <2>5. m = middleware[Len(ran) + 1]
    BY <2>3, <2>4
  <2>6. \A i \in 1 .. Len(ran') : ran'[i] = middleware[i]
    BY <2>1, <2>4, <2>5
  <2>7. \A i \in 1 .. Len(running') : running'[i] = middleware[Len(ran') + i]
    <3> TAKE i \in 1 .. Len(running')
    <3>1. i + 1 \in 1 .. Len(running) /\ Len(ran) + (i + 1) = Len(ran') + i
      BY <2>1, <2>3
    <3> QED BY <2>3, <2>4, <3>1
  <2>8. Len(running') = Len(middleware) - Len(ran')
    BY <2>1, <2>3, <2>4
  <2>9. stage' = "middleware" /\ stage' \notin Early /\ stage' \notin {"assemble", "transmit", "dispatch", "done"}
    BY <1>1, <1>4 DEF Early
  <2> QED BY <1>1, <2>6, <2>7, <2>8, <2>9 DEF OrderInv
<1> QED BY <1>1, <1>3, <1>4

LEMMA OrderStep == TypeInv /\ OrderInv /\ [RenderNext]_vars => OrderInv'
<1> SUFFICES ASSUME TypeInv, OrderInv, [RenderNext]_vars PROVE OrderInv'
  OBVIOUS
<1>0. "built" \notin Early /\ "done" \notin Early /\ "dispatch" \notin Early
  BY StageNames DEF Early
<1>00. /\ {"middleware", "assemble", "transmit", "ctx"} \subseteq Range(Stages)
       /\ NoEvent \notin Concrete
  BY DEF Stages, Range, NoEvent, Concrete
<1>1. ASSUME stage' = "built" PROVE OrderInv'
  BY <1>0, <1>1 DEF OrderInv
<1>2. CASE Render
  <2>1. stage' = "ctx" /\ ran' = <<>>
    BY <1>2 DEF Render
  <2> QED BY <1>0, <2>1 DEF OrderInv
<1>3. CASE Pass
  <2>1. UNCHANGED <<handlers, middleware, event, ran, failed>>
    BY <1>3 DEF Pass, Rest, behaviour, history
  <2>2. CASE stage \in Early /\ stage' \in Early
    BY <1>0, <2>1, <2>2 DEF OrderInv, Early
  <2>3. CASE stage \in Early /\ stage' = "middleware" /\ running' = middleware
    <3>1. ran' = <<>> /\ Len(ran') = 0 /\ middleware \in Seq(MiddlewareFn)
      BY <2>1, <2>3 DEF OrderInv, TypeInv
    <3>2. /\ Len(running') = Len(middleware') - Len(ran')
          /\ \A i \in 1 .. Len(running') : running'[i] = middleware'[Len(ran') + i]
      BY <2>1, <2>3, <3>1
    <3> QED BY <1>0, <2>3, <3>1, <3>2 DEF OrderInv, Early
  <2>4. CASE stage = "assemble" /\ stage' = "transmit"
    BY <1>0, <2>1, <2>4 DEF OrderInv, Early
  <2> QED BY <1>3, <2>2, <2>3, <2>4, StageAfter
<1>4. CASE MiddlewareDone
  <2>1. UNCHANGED <<handlers, middleware, event, ran, failed>> /\ stage = "middleware" /\ stage' = "assemble" /\ running = <<>>
    BY <1>4 DEF MiddlewareDone, Rest, behaviour, history
  <2>2. ran' = middleware
    <3>1. ran \in Seq(Act) /\ middleware \in Seq(MiddlewareFn) /\ Len(running) = 0
      BY <2>1 DEF TypeInv
    <3>2. Len(ran) = Len(middleware) /\ Len(ran) \in Nat /\ \A i \in 1 .. Len(ran) : ran[i] = middleware[i]
      BY <2>1, <3>1 DEF OrderInv
    <3>3. ran = [i \in 1 .. Len(ran) |-> ran[i]] /\ middleware = [i \in 1 .. Len(middleware) |-> middleware[i]]
      BY <3>1
    <3>4. ran = middleware
      BY <3>2, <3>3
    <3> QED BY <2>1, <3>4
  <2> QED BY <1>0, <2>1, <2>2 DEF OrderInv, Early
<1>5. CASE FailSilently
  <2>1. event' = NoEvent /\ stage' = "done" /\ failed'
    BY <1>00, <1>5 DEF FailSilently, TypeInv
  <2> QED BY <1>0, <1>00, <2>1 DEF OrderInv
<1>6. CASE Fail \/ Transmit
  <2>1. /\ stage' = "dispatch" /\ chain' = <<>> /\ lineage' = Ancestry[event'] /\ UNCHANGED <<middleware, ran>>
        /\ \/ failed' /\ event' # "TransmitRenderedTemplate" /\ stage \in Early
           \/ event' = "TransmitRenderedTemplate" /\ stage = "transmit"
    <3>1. CASE Fail
      <4>1. stage \in Early /\ failed' /\ event' = EventOf(stage) /\ stage # "transmit"
        BY <3>1 DEF Fail, Dispatch, Early
      <4>2. EventOf(stage) # "TransmitRenderedTemplate"
        <5>1. stage \in {"source", "types", "marshal", "lookup", "verify", "bundling", "read", "entry", "temp", "bundle"}
          BY <3>1 DEF Fail, Stages, Range
        <5> QED BY <5>1 DEF EventOf
      <4> QED BY <3>1, <4>1, <4>2 DEF Fail, Dispatch, Rest, behaviour, history
    <3>2. CASE Transmit
      BY <3>2 DEF Transmit, Dispatch, EventOf, Rest, behaviour, history
    <3> QED BY <1>6, <3>1, <3>2
  <2>2. Before' = ran'
    <3>1. CASE event' # "TransmitRenderedTemplate" /\ stage \in Early
      BY <2>1, <3>1 DEF OrderInv, Before
    <3>2. CASE event' = "TransmitRenderedTemplate" /\ stage = "transmit"
      BY <2>1, <3>2 DEF OrderInv, Before
    <3> QED BY <2>1, <3>1, <3>2
  <2>3. Len(ran) \in Nat /\ ran' = ran
    BY <2>1, Sequences
  <2>4. event' \in Concrete => lineage' = Graph(event')
    BY <2>1 DEF Ancestry, EventType, Event, Values
  <2> QED BY <1>0, <2>1, <2>2, <2>3, <2>4 DEF OrderInv
<1>7. CASE NextType
  <2>1. PICK t \in lineage : /\ \A u \in lineage : ~Narrower(u, t)
                             /\ lineage' = lineage \ {t} /\ chain' = handlers[t]
    BY <1>7 DEF NextType
  <2>2. /\ stage = "dispatch" /\ stage' = stage /\ chain = <<>>
        /\ UNCHANGED <<handlers, middleware, event, ran, failed>>
    BY <1>7 DEF NextType, Rest, behaviour, history
  <2>3. Before' = Before
    BY <2>2 DEF Before
  <2>4. \A k : OwnRan(k)' <=> OwnRan(k)
    BY <2>2, <2>3 DEF OwnRan
  <2>5. ASSUME event \in Concrete
        PROVE  event \notin lineage' /\ \E k \in 0 .. Len(handlers[event]) :
                  OwnRan(k) /\ (k = Len(handlers[event]) \/ OwnLeft(k)')
    <3>1. handlers[event] \in Seq(Handler) /\ Len(handlers[event]) \in Nat /\ Len(Before) \in Nat
      BY <2>5, Sequences
    <3>2. CASE lineage = Graph(event) /\ Len(ran) = Len(Before)
      <4>1. t = event
        BY <2>1, <2>5, <3>2, OwnIsNarrowest DEF Graph
      <4>2. OwnRan(0)
        BY <3>1, <3>2 DEF OwnRan
      <4>3. OwnLeft(0)'
        BY <2>1, <2>2, <2>3, <3>1, <3>2, <4>1 DEF OwnLeft
      <4>4. 0 \in 0 .. Len(handlers[event])
        BY <3>1
      <4> QED BY <2>1, <4>1, <4>2, <4>3, <4>4
    <3>3. CASE event \notin lineage /\ \E k \in 0 .. Len(handlers[event]) :
                  OwnRan(k) /\ (k = Len(handlers[event]) \/ OwnLeft(k))
      <4>1. PICK k \in 0 .. Len(handlers[event]) : OwnRan(k) /\ (k = Len(handlers[event]) \/ OwnLeft(k))
        BY <3>3
      <4>2. k = Len(handlers[event])
        BY <2>2, <3>1, <4>1 DEF OwnLeft
      <4> QED BY <2>1, <3>3, <4>1, <4>2
    <3> QED BY <2>2, <2>5, <3>2, <3>3 DEF OrderInv
  <2>6. /\ ~failed' => event' = "TransmitRenderedTemplate"
        /\ event' # NoEvent => Len(Before)' <= Len(ran') /\ \A i \in 1 .. Len(Before)' : ran'[i] = Before'[i]
    BY <2>2, <2>3 DEF OrderInv
  <2>7. event' \in Concrete =>
           event' \notin lineage' /\ \E k \in 0 .. Len(handlers'[event']) :
              OwnRan(k)' /\ (k = Len(handlers'[event']) \/ OwnLeft(k)')
    BY <2>2, <2>4, <2>5
  <2> QED BY <1>0, <2>2, <2>6, <2>7 DEF OrderInv
<1>8. CASE Dispatched
  <2>1. /\ stage = "dispatch" /\ chain = <<>> /\ lineage = {} /\ stage' = "done"
        /\ UNCHANGED <<handlers, middleware, event, ran, failed>>
    BY <1>8 DEF Dispatched, Rest, behaviour, history
  <2>2. Before' = Before
    BY <2>1 DEF Before
  <2>3. ASSUME event \in Concrete PROVE OwnRan(Len(handlers[event]))' /\ Len(handlers[event]) \in Nat
    <3>1. Len(handlers[event]) \in Nat /\ Len(Before) \in Nat
      BY <2>3, Sequences
    <3>2. lineage # Graph(event)
      BY <2>1 DEF Graph
    <3>3. PICK k \in 0 .. Len(handlers[event]) : OwnRan(k) /\ (k = Len(handlers[event]) \/ OwnLeft(k))
      BY <2>1, <2>3, <3>2 DEF OrderInv
    <3>4. k = Len(handlers[event])
      BY <2>1, <3>1, <3>3 DEF OwnLeft
    <3> QED BY <2>1, <2>2, <3>1, <3>3, <3>4 DEF OwnRan
  <2>4. /\ ~failed' => event' = "TransmitRenderedTemplate"
        /\ event' # NoEvent => Len(Before)' <= Len(ran') /\ \A i \in 1 .. Len(Before)' : ran'[i] = Before'[i]
    BY <2>1, <2>2 DEF OrderInv
  <2> QED BY <1>0, <2>1, <2>3, <2>4 DEF OrderInv
<1>9. CASE UNCHANGED vars
  <2>1. UNCHANGED <<handlers, middleware, stage, event, lineage, chain, running, failed, ran>>
    BY <1>9 DEF vars, behaviour, progress, history
  <2>2. Before' = Before
    BY <2>1 DEF Before
  <2>3. \A k : (OwnRan(k)' <=> OwnRan(k)) /\ (OwnLeft(k)' <=> OwnLeft(k))
    BY <2>1, <2>2 DEF OwnRan, OwnLeft
  <2> QED BY <2>1, <2>2, <2>3 DEF OrderInv
<1>10. CASE \/ SetHTTPBehaviour
            \/ \E t \in HandledType :
                  \/ \E mode \in Mode, h \in Registered : Upon(t, mode, h)
                  \/ \E c \in Code : CodeUpon(t, c)
            \/ \E m \in Middleware : With(m)
            \/ \E w \in Writer : ForRequest(w)
  BY <1>1, <1>10 DEF SetHTTPBehaviour, Upon, CodeUpon, With, ForRequest, Configuring
<1> QED BY <1>2, <1>3, <1>4, <1>5, <1>6, <1>7, <1>8, <1>9, <1>10, OrderHandled, OrderRun DEF RenderNext, Handling

LEMMA OrderHolds == RenderSpec => [](TypeInv /\ OrderInv)
<1>1. RenderInit => OrderInv
  BY StageNames DEF RenderInit, OrderInv, Early
<1> QED BY <1>1, OrderStep, RenderTyped, PTL DEF RenderSpec

-----------------------------------------------------------------------------
(* What is answered: the first of those that ran, and has an effect, decides. *)
Pristine == ~committed /\ client[writer].status = 0

RanInv ==
    /\ writer \in Writer
    /\ client[writer].commits <= IF committed THEN 1 ELSE 0
    /\ committed => client[writer].status # 0
    /\ (\A i \in 1 .. Len(ran) : ~Effective(ran[i])) => Pristine
    /\ \A i \in 1 .. Len(ran) : FirstEffective(ran, i) =>
          client[writer].status = StatusBy(ran[i]) /\ (client[writer].status # 0 \/ stage = "done")
    /\ stage # "done" \/ ~failed => \A i \in 1 .. Len(ran) : ran[i] = Responder => client[writer].bodies >= 1
    /\ stage \in Range(Stages) => \A i \in 1 .. Len(ran) : ran[i].does # "responder"

AnswerInv == fresh /\ stage # "built" => RanInv

(* What one actor does to a writer fresh for the render. *)
Effect(a) ==
    /\ client'[writer].commits <= IF committed' THEN 1 ELSE 0
    /\ committed' => client'[writer].status # 0
    /\ client'[writer].bodies >= client[writer].bodies
    /\ client[writer].bodies \in Nat /\ client'[writer].bodies \in Nat
    /\ client[writer].status # 0 => client'[writer].status = client[writer].status
    /\ ~Effective(a) => client'[writer] = client[writer] /\ committed' = committed
    /\ Effective(a) /\ Pristine => client'[writer].status = StatusBy(a)
    /\ Effective(a) /\ client'[writer].status = 0 => a.err
    /\ a = Responder => client'[writer].bodies >= 1 \/ (stage' = "done" /\ failed')

LEMMA TellsEffect ==
    ASSUME TypeInv, RanInv, NEW a \in Act, a.does # "responder", Tells(a)
    PROVE  Effect(a)
<1> DEFINE page == client[writer]
           next == client'[writer]
<1>1. writer \in Writer /\ writer # NoWriter /\ client \in [Writer -> Page] /\ page \in Page
  BY CallAssumption DEF TypeInv, RanInv
<1>2. page.status \in Nat /\ page.commits \in Nat /\ page.bodies \in Nat
  BY <1>1 DEF Page
<1>3. next = Told(page, a) /\ committed' = (committed \/ a.does = "commit")
  BY <1>1 DEF Tells
<1>4. /\ next \in Page
      /\ a.does = "body" => next = Written(page)
      /\ a.does = "header" => next = Sent(page, a.code)
      /\ a.does = "commit" => next = Committed(page, a.code)
      /\ a.does \notin {"body", "header", "commit"} => next = page
      /\ page.status # 0 => next.status = page.status
      /\ next.bodies >= page.bodies
  <2> HIDE DEF page
  <2> QED BY <1>1, <1>3, ToldIs
<1>5. next.status \in Nat /\ next.commits \in Nat /\ next.bodies \in Nat
  BY <1>4 DEF Page
<1>6. page.commits <= (IF committed THEN 1 ELSE 0) /\ (committed => page.status # 0) /\ committed \in BOOLEAN
  BY DEF RanInv, TypeInv
<1>7. a # Responder /\ a.does \in {"nothing", "body", "header", "commit", "default", "adds"}
  BY ActIs DEF Responder
<1>8. a.does \in {"header", "commit"} => a.code \in Nat /\ a.code # 0
  BY ActIs
<1>9. Effective(a) <=> a.err \/ a.does \in {"body", "header", "commit"}
  BY DEF Effective
<1>10. Pristine <=> ~committed /\ page.status = 0
  BY DEF Pristine
<1> HIDE DEF page, next
<1>11. CASE a.does = "body"
  <2>1. /\ next.status = IF page.status = 0 THEN 200 ELSE page.status
        /\ next.commits = page.commits
    BY <1>1, <1>4, <1>11, WrittenIs
  <2>2. StatusBy(a) = 200 /\ committed' = committed
    BY <1>3, <1>6, <1>11 DEF StatusBy
  <2> QED BY <1>2, <1>4, <1>5, <1>6, <1>7, <1>9, <1>10, <1>11, <2>1, <2>2 DEF Effect, page, next
<1>12. CASE a.does = "header"
  <2>1. /\ next.status = IF page.status = 0 THEN a.code ELSE page.status
        /\ next.commits = page.commits
    BY <1>1, <1>4, <1>8, <1>12, SentIs
  <2>2. StatusBy(a) = a.code /\ committed' = committed
    BY <1>3, <1>6, <1>12 DEF StatusBy
  <2> QED BY <1>2, <1>4, <1>5, <1>6, <1>7, <1>8, <1>9, <1>10, <1>12, <2>1, <2>2 DEF Effect, page, next
<1>13. CASE a.does = "commit"
  <2>1. /\ committed => next = page
        /\ ~committed => /\ next.status = IF page.status = 0 THEN a.code ELSE page.status
                         /\ next.commits = page.commits + 1
    BY <1>1, <1>4, <1>8, <1>13, CommittedIs
  <2>2. StatusBy(a) = a.code /\ committed' = TRUE
    BY <1>3, <1>13 DEF StatusBy
  <2> QED BY <1>2, <1>4, <1>5, <1>6, <1>7, <1>8, <1>9, <1>10, <1>13, <2>1, <2>2 DEF Effect, page, next
<1>14. CASE a.does \notin {"body", "header", "commit"}
  <2>1. next = page /\ committed' = committed
    BY <1>3, <1>4, <1>6, <1>14
  <2>2. StatusBy(a) = 0
    BY <1>7, <1>14 DEF StatusBy
  <2> QED BY <1>2, <1>5, <1>6, <1>7, <1>9, <1>10, <1>14, <2>1, <2>2 DEF Effect, page, next
<1> QED BY <1>7, <1>11, <1>12, <1>13, <1>14

LEMMA RespondEffect ==
    ASSUME TypeInv, RanInv, Respond
    PROVE  Effect(Responder)
<1> DEFINE page == client[writer]
           next == client'[writer]
           code == HTTPCode(event)
           first == Committed(page, code)
<1>1. writer \in Writer /\ writer # NoWriter /\ client \in [Writer -> Page] /\ page \in Page
  BY CallAssumption DEF TypeInv, RanInv
<1>2. page.status \in Nat /\ page.commits \in Nat /\ page.bodies \in Nat
  BY <1>1 DEF Page
<1>3. /\ committed' = TRUE
      /\ \/ next = Written(first)
         \/ next = first /\ stage' = "done" /\ failed'
  BY <1>1 DEF Respond, Stop
<1>4. page.commits <= (IF committed THEN 1 ELSE 0) /\ (committed => page.status # 0)
  BY DEF RanInv
<1>5. code \in Nat /\ code # 0 /\ StatusBy(Responder) = code /\ Effective(Responder)
  BY CodesTyped DEF StatusBy, Responder, Effective
<1>6. Pristine <=> ~committed /\ page.status = 0
  BY DEF Pristine
<1> HIDE DEF page, next, code
<1>7. /\ first \in Page
      /\ committed => first = page
      /\ ~committed => /\ first.status = IF page.status = 0 THEN code ELSE page.status
                       /\ first.commits = page.commits + 1
                       /\ first.bodies = page.bodies
  BY <1>1, <1>5, CommittedIs
<1> HIDE DEF first
<1>8. /\ Written(first).status = IF first.status = 0 THEN 200 ELSE first.status
      /\ Written(first).commits = first.commits
      /\ Written(first).bodies = first.bodies + 1
  BY <1>7, WrittenIs
<1>9. first.status \in Nat /\ first.bodies \in Nat /\ first.commits \in Nat
  BY <1>7 DEF Page
<1>10. /\ next.status = first.status /\ first.status # 0 /\ next.commits = first.commits
       /\ next.bodies \in Nat /\ next.bodies >= page.bodies
       /\ next.bodies >= 1 \/ (stage' = "done" /\ failed')
  BY <1>2, <1>3, <1>4, <1>5, <1>7, <1>8, <1>9
<1> QED BY <1>2, <1>3, <1>4, <1>5, <1>6, <1>7, <1>9, <1>10 DEF Effect, page, next

(* Whoever has run now, the first with an effect decides. *)
LEMMA RanMore ==
    ASSUME TypeInv, RanInv, NEW a \in Act, Effect(a), ran' = Append(ran, a), UNCHANGED <<writer, event>>,
           stage \notin {"built", "done"}, a.err => stage' = "done",
           stage' \in Range(Stages) => stage \in Range(Stages) /\ a.does # "responder"
    PROVE  RanInv'
<1>1. /\ Len(ran') = Len(ran) + 1 /\ Len(ran) \in Nat
      /\ \A i \in 1 .. Len(ran) : ran'[i] = ran[i]
      /\ ran'[Len(ran) + 1] = a
  BY OneMoreRan
<1>2. \A b : StatusBy(b)' = StatusBy(b)
  BY DEF StatusBy
<1>3. \A i \in 1 .. Len(ran') : i \in 1 .. Len(ran) \/ i = Len(ran) + 1
  BY <1>1
<1>4. ASSUME \A i \in 1 .. Len(ran') : ~Effective(ran'[i]) PROVE Pristine'
  <2>1. \A i \in 1 .. Len(ran) : ~Effective(ran[i])
    BY <1>1, <1>4
  <2>2. Pristine
    BY <2>1 DEF RanInv
  <2>3. ~Effective(a)
    BY <1>1, <1>4
  <2> QED BY <2>2, <2>3 DEF Effect, Pristine
<1>5. ASSUME NEW i \in 1 .. Len(ran'), FirstEffective(ran', i)
      PROVE  client'[writer].status = StatusBy(ran'[i]) /\ (client'[writer].status # 0 \/ stage' = "done")
  <2>1. Effective(ran'[i]) /\ \A j \in 1 .. i - 1 : ~Effective(ran'[j])
    BY <1>5 DEF FirstEffective
  <2>2. CASE i \in 1 .. Len(ran)
    <3>1. \A j \in 1 .. i - 1 : j \in 1 .. Len(ran) /\ ran'[j] = ran[j]
      BY <1>1, <2>2
    <3>2. FirstEffective(ran, i)
      BY <1>1, <2>1, <2>2, <3>1 DEF FirstEffective
    <3>3. client[writer].status = StatusBy(ran[i]) /\ client[writer].status # 0
      BY <2>2, <3>2 DEF RanInv
    <3> QED BY <1>1, <2>2, <3>3 DEF Effect
  <2>3. CASE i = Len(ran) + 1
    <3>1. \A j \in 1 .. Len(ran) : ~Effective(ran[j])
      BY <1>1, <2>1, <2>3
    <3>2. Pristine /\ ran'[i] = a /\ Effective(a)
      BY <1>1, <2>1, <2>3, <3>1 DEF RanInv
    <3> QED BY <3>2 DEF Effect
  <2> QED BY <1>3, <2>2, <2>3
<1>6. ASSUME stage' # "done" \/ ~failed', NEW i \in 1 .. Len(ran'), ran'[i] = Responder
      PROVE  client'[writer].bodies >= 1
  <2>1. CASE i \in 1 .. Len(ran)
    <3>1. client[writer].bodies >= 1
      BY <1>1, <1>6, <2>1 DEF RanInv
    <3> QED BY <3>1 DEF Effect
  <2>2. CASE i = Len(ran) + 1
    BY <1>1, <1>6, <2>2 DEF Effect
  <2> QED BY <1>3, <2>1, <2>2
<1>7. ASSUME stage' \in Range(Stages), NEW i \in 1 .. Len(ran') PROVE ran'[i].does # "responder"
  BY <1>1, <1>3, <1>7 DEF RanInv
<1>8. /\ writer' \in Writer
      /\ client'[writer'].commits <= IF committed' THEN 1 ELSE 0
      /\ committed' => client'[writer'].status # 0
  BY DEF RanInv, Effect
<1>9. ASSUME NEW i \in 1 .. Len(ran'), FirstEffective(ran, i)'
      PROVE  (client[writer].status = StatusBy(ran[i]) /\ (client[writer].status # 0 \/ stage = "done"))'
  <2>1. FirstEffective(ran', i)
    BY <1>9 DEF FirstEffective, Effective
  <2>2. client'[writer].status = StatusBy(ran'[i]) /\ (client'[writer].status # 0 \/ stage' = "done")
    BY <1>5, <2>1
  <2>3. StatusBy(ran[i])' = StatusBy(ran'[i])
    BY DEF StatusBy
  <2> QED BY <2>2, <2>3
<1>10. ASSUME (\A i \in 1 .. Len(ran) : ~Effective(ran[i]))' PROVE Pristine'
  <2>1. \A i \in 1 .. Len(ran') : ~Effective(ran'[i])
    BY <1>10 DEF Effective
  <2> QED BY <1>4, <2>1
<1> QED BY <1>6, <1>7, <1>8, <1>9, <1>10 DEF RanInv

LEMMA AnswerStep == TypeInv /\ AnswerInv /\ [RenderNext]_vars => AnswerInv'
<1> SUFFICES ASSUME TypeInv, AnswerInv, [RenderNext]_vars, fresh', stage' # "built" PROVE RanInv'
  BY DEF AnswerInv
<1>0. "built" \notin Range(Stages) /\ "done" \notin Range(Stages) /\ "dispatch" \notin Range(Stages)
  BY StageNames
<1>1. CASE Render
  <2>1. /\ UNCHANGED <<writer, committed, client>> /\ ran' = <<>> /\ Len(ran') = 0 /\ stage' = "ctx"
        /\ ~committed /\ writer # NoWriter /\ client[writer].status = 0
    BY <1>1 DEF Render, behaviour
  <2>2. writer \in Writer /\ client[writer].commits = 0
    BY <2>1 DEF TypeInv
  <2> QED BY <2>1, <2>2 DEF RanInv, Pristine
<1>2. ASSUME stage \in Range(Stages) \cup {"dispatch"}, stage' # "built", UNCHANGED Rest,
             stage' = "done" /\ ~failed' => stage = "dispatch",
             stage' \in Range(Stages) => stage \in Range(Stages),
             event' = event \/ stage \in Range(Stages)
      PROVE  RanInv'
  <2>1. UNCHANGED <<writer, committed, client, ran, fresh>>
    BY <1>2 DEF Rest, behaviour, history
  <2>2. RanInv
    BY <1>0, <1>2, <2>1 DEF AnswerInv
  <2>3. ASSUME NEW i \in 1 .. Len(ran) PROVE StatusBy(ran[i])' = StatusBy(ran[i])
    <3>1. CASE event' = event
      BY <2>1, <3>1 DEF StatusBy
    <3>2. CASE ran[i].does # "responder"
      BY <2>1, <3>2 DEF StatusBy
    <3> QED BY <1>2, <2>2, <3>1, <3>2 DEF RanInv
  <2>4. \A i \in 1 .. Len(ran) : FirstEffective(ran, i)' <=> FirstEffective(ran, i)
    BY <2>1 DEF FirstEffective, Effective
  <2>5. (\A i \in 1 .. Len(ran) : ~Effective(ran[i]))' => Pristine'
    BY <2>1, <2>2 DEF RanInv, Effective, Pristine
  <2>6. stage # "done"
    BY <1>0, <1>2
  <2>7. \A i \in 1 .. Len(ran) : FirstEffective(ran, i) =>
           client[writer].status = StatusBy(ran[i]) /\ client[writer].status # 0
    BY <2>2, <2>6 DEF RanInv
  <2>8. \A i \in 1 .. Len(ran) : ran[i] = Responder => client[writer].bodies >= 1
    BY <2>2, <2>6 DEF RanInv
  <2>9. /\ writer' \in Writer
        /\ client'[writer'].commits <= IF committed' THEN 1 ELSE 0
        /\ committed' => client'[writer'].status # 0
        /\ stage' \in Range(Stages) => \A i \in 1 .. Len(ran') : ran'[i].does # "responder"
    BY <1>2, <2>1, <2>2 DEF RanInv
  <2> QED BY <2>1, <2>3, <2>4, <2>5, <2>7, <2>8, <2>9 DEF RanInv
<1>3. CASE Pass
  BY <1>0, <1>2, <1>3, StageAfter DEF Pass
<1>4. CASE MiddlewareDone \/ FailSilently
  <2>1. {"middleware", "assemble", "ctx"} \subseteq Range(Stages)
    BY DEF Stages, Range
  <2> QED BY <1>0, <1>2, <1>4, <2>1 DEF MiddlewareDone, FailSilently
<1>5. CASE Fail \/ Transmit
  <2>1. stage \in Range(Stages) /\ stage' = "dispatch" /\ UNCHANGED Rest
    BY <1>5 DEF Fail, Transmit, Dispatch, Stages, Range
  <2> QED BY <1>0, <1>2, <2>1
<1>6. CASE NextType \/ Dispatched
  <2>1. stage = "dispatch" /\ stage' \in {"dispatch", "done"} /\ event' = event /\ UNCHANGED Rest
    BY <1>6 DEF NextType, Dispatched
  <2> QED BY <1>0, <1>2, <2>1
<1>7. CASE Handling
  <2>1. PICK h \in Handler :
            /\ chain # <<>> /\ stage = "dispatch" /\ ran' = Append(ran, h)
            /\ Continue \/ Stop
            /\ h.err => Stop
            /\ (Tells(h) /\ h # Responder) \/ (Respond /\ h = Responder)
            /\ UNCHANGED <<writer, event, fresh>>
    BY <1>7, HandlingIs
  <2>2. RanInv /\ h \in Act /\ stage' \notin Range(Stages) /\ (h.err => stage' = "done")
    BY <1>0, <2>1 DEF AnswerInv, Act, Continue, Stop
  <2>3. Effect(h)
    <3>1. h # Responder => h.does # "responder"
      BY <2>2, ActIs
    <3> QED BY <2>1, <2>2, <3>1, TellsEffect, RespondEffect
  <2> QED BY <2>1, <2>2, <2>3, RanMore
<1>8. CASE RunMiddleware
  <2> DEFINE m == Head(running)
  <2>1. /\ m \in Act /\ m.does # "responder" /\ Tells(m) /\ stage = "middleware"
        /\ stage' \in {"middleware", "done"} /\ (m.err => stage' = "done")
    BY <1>8, RunIs, MiddlewareMove
  <2>2. "middleware" \in Range(Stages)
    BY DEF Stages, Range
  <2> HIDE DEF m
  <2>3. RanInv /\ ran' = Append(ran, m) /\ UNCHANGED <<writer, event>>
    BY <2>1 DEF AnswerInv, Tells
  <2>4. Effect(m)
    BY <2>1, <2>3, TellsEffect
  <2> QED BY <1>0, <2>1, <2>2, <2>3, <2>4, RanMore
<1>9. CASE UNCHANGED vars
  <2>1. UNCHANGED <<writer, committed, client, stage, event, failed, ran, fresh>>
    BY <1>9 DEF vars, behaviour, progress, history
  <2> QED BY <2>1 DEF AnswerInv, RanInv, Pristine, FirstEffective, Effective, StatusBy
<1>10. CASE \/ SetHTTPBehaviour
            \/ \E t \in HandledType :
                  \/ \E mode \in Mode, h \in Registered : Upon(t, mode, h)
                  \/ \E c \in Code : CodeUpon(t, c)
            \/ \E m \in Middleware : With(m)
            \/ \E w \in Writer : ForRequest(w)
  BY <1>10 DEF SetHTTPBehaviour, Upon, CodeUpon, With, ForRequest, Configuring
<1> QED BY <1>1, <1>3, <1>4, <1>5, <1>6, <1>7, <1>8, <1>9, <1>10 DEF RenderNext, Handling

LEMMA AnswerHolds == RenderSpec => [](TypeInv /\ OrderInv /\ AnswerInv)
<1>1. RenderInit => AnswerInv
  BY DEF RenderInit, AnswerInv
<1> QED BY <1>1, AnswerStep, OrderHolds, PTL DEF RenderSpec

LEMMA ListedOrNot == \A e : e \in Event /\ e \notin Concrete <=> e \in Unlisted
BY DEF Event, Concrete, Unlisted

LEMMA FirstDecides == TypeInv /\ OrderInv /\ AnswerInv => OwnTypeDecides
<1> SUFFICES ASSUME TypeInv, OrderInv, AnswerInv, stage = "done", event # NoEvent, fresh
             PROVE  /\ client[writer].commits <= 1
                    /\ \A i \in DOMAIN Before :
                          FirstEffective(Before, i) => client[writer].status = StatusBy(Before[i])
                    /\ event \notin Unlisted /\ (\A i \in DOMAIN Before : ~Effective(Before[i])) =>
                          \A i \in DOMAIN handlers[event] :
                             FirstEffective(handlers[event], i) => client[writer].status = StatusBy(handlers[event][i])
  BY DEF OwnTypeDecides, Answering
<1> DEFINE b == Len(Before)
<1>1. RanInv /\ b \in Nat /\ DOMAIN Before = 1 .. b /\ Len(ran) \in Nat
  BY Sequences DEF AnswerInv
<1>2. b <= Len(ran) /\ \A i \in 1 .. b : ran[i] = Before[i]
  BY DEF OrderInv
<1>3. client[writer].commits <= 1
  <2>1. client[writer] \in Page
    BY <1>1 DEF RanInv, TypeInv
  <2>2. client[writer].commits \in Nat
    BY <2>1 DEF Page
  <2> QED BY <1>1, <2>2 DEF RanInv
<1>4. ASSUME NEW i \in 1 .. b, FirstEffective(Before, i)
      PROVE  client[writer].status = StatusBy(Before[i])
  <2> HIDE DEF b
  <2>1. i \in 1 .. Len(ran) /\ \A j \in 1 .. i - 1 : j \in 1 .. b
    BY <1>1, <1>2
  <2>2. FirstEffective(ran, i)
    BY <1>2, <1>4, <2>1 DEF FirstEffective
  <2> QED BY <1>1, <1>2, <2>1, <2>2 DEF RanInv
<1>5. ASSUME event \notin Unlisted, \A i \in 1 .. b : ~Effective(Before[i]),
             NEW i \in DOMAIN handlers[event], FirstEffective(handlers[event], i)
      PROVE  client[writer].status = StatusBy(handlers[event][i])
  <2>1. event \in Concrete
    BY <1>5, ListedOrNot DEF TypeInv
  <2>2. Len(handlers[event]) \in Nat /\ i \in 1 .. Len(handlers[event])
    BY <2>1, Sequences
  <2>3. PICK k \in 0 .. Len(handlers[event]) :
            /\ OwnRan(k)
            /\ k # Len(handlers[event]) =>
                  failed /\ k >= 1 /\ Len(ran) = Len(Before) + k /\ Effective(ran[Len(ran)])
    BY <2>1 DEF OrderInv
  <2>4. b + k <= Len(ran) /\ \A j \in 1 .. k : ran[b + j] = handlers[event][j]
    BY <2>3 DEF OwnRan
  <2>5. Effective(handlers[event][i]) /\ \A j \in 1 .. i - 1 : ~Effective(handlers[event][j])
    BY <1>5 DEF FirstEffective
  <2>6. k \in Nat /\ (k # Len(handlers[event]) => k >= 1 /\ Len(ran) = b + k /\ Effective(ran[Len(ran)]))
    BY <2>2, <2>3
  <2> HIDE DEF b
  <2>7. i <= k
    <3> SUFFICES ASSUME i > k PROVE FALSE
      BY <2>2, <2>6
    <3>1. k # Len(handlers[event])
      BY <2>2, <2>6
    <3>2. Effective(ran[b + k]) /\ k \in 1 .. k /\ k \in 1 .. i - 1
      BY <2>2, <2>6, <3>1
    <3> QED BY <2>4, <2>5, <3>2
  <2>8. i \in 1 .. k /\ b + i \in 1 .. Len(ran) /\ ran[b + i] = handlers[event][i]
    BY <1>1, <2>2, <2>4, <2>6, <2>7
  <2>9. ASSUME NEW j \in 1 .. (b + i) - 1 PROVE ~Effective(ran[j])
    <3>1. CASE j \in 1 .. b
      BY <1>2, <1>5, <3>1
    <3>2. CASE j \notin 1 .. b
      <4>1. j - b \in 1 .. i - 1 /\ j - b \in 1 .. k /\ j = b + (j - b)
        BY <1>1, <2>2, <2>6, <2>7, <3>2
      <4> QED BY <2>4, <2>5, <4>1
    <3> QED BY <3>1, <3>2
  <2>10. FirstEffective(ran, b + i)
    BY <2>5, <2>8, <2>9 DEF FirstEffective
  <2> QED BY <1>1, <2>8, <2>10 DEF RanInv
<1> QED BY <1>1, <1>3, <1>4, <1>5

LEMMA ResponderWrites == TypeInv /\ OrderInv /\ AnswerInv => SuccessIsTransmitted
<1> SUFFICES ASSUME TypeInv, OrderInv, AnswerInv, stage = "done", ~failed
             PROVE  /\ event = "TransmitRenderedTemplate"
                    /\ fresh /\ Responder \in Range(handlers[event]) => client[writer].bodies >= 1
  BY DEF SuccessIsTransmitted
<1>1. event = "TransmitRenderedTemplate" /\ event \in Concrete
  BY DEF OrderInv, Concrete
<1>2. ASSUME fresh, Responder \in Range(handlers[event]) PROVE client[writer].bodies >= 1
  <2>1. handlers[event] \in Seq(Handler) /\ Len(handlers[event]) \in Nat /\ Len(Before) \in Nat /\ Len(ran) \in Nat
    BY <1>1, Sequences
  <2>2. PICK i \in 1 .. Len(handlers[event]) : handlers[event][i] = Responder
    BY <1>2, <2>1 DEF Range
  <2>3. OwnRan(Len(handlers[event]))
    BY <1>1 DEF OrderInv
  <2>4. ran[Len(Before) + i] = Responder /\ Len(Before) + i \in 1 .. Len(ran)
    BY <2>1, <2>2, <2>3 DEF OwnRan
  <2> QED BY <1>2, <2>4 DEF AnswerInv, RanInv
<1> QED BY <1>1, <1>2

(* Of all that run around one render, whoever speaks first decides the status: *)
(* the middleware, which is handed the whole behaviour, then the event's own   *)
(* handlers as they are by then, before those of its categories; CommitStatus  *)
(* sends one header at most.  For any middleware, handlers and defaults, which *)
(* may write, send a header, commit a status, fail or add handlers             *)
(* (execMiddleware, Dispatch, CommitStatus, Bind).                             *)
THEOREM FirstSpeaks == RenderSpec => []OwnTypeDecides
BY AnswerHolds, FirstDecides, PTL

(* Render that returns no error has transmitted the page, and with a body if *)
(* the built-in responder is there (render0, emitEvent).                     *)
THEOREM SuccessTransmits == RenderSpec => []SuccessIsTransmitted
BY AnswerHolds, ResponderWrites, PTL
=============================================================================
