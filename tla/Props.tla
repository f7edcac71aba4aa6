-------------------------------- MODULE Props --------------------------------
(***************************************************************************)
(* The contract between the Go props of a render and the props type the    *)
(* component declares: a shape is derived from the Go type, compared with  *)
(* the declared one, and the props are sent as JSON if nothing is wrong.   *)
(*                                                                         *)
(* A struct type is its own fields and the structs it embeds.  A kind of   *)
(* field stands for all the Go types that encode alike; a TypeScript type  *)
(* is the set of the members of its union, compared as text.  A JSON value *)
(* is an empty or a filled one of its sort.                                *)
(***************************************************************************)
EXTENDS Naturals, Sequences

CONSTANTS
    Name,       \* JSON names of fields
    StructType, \* [fields, embeds]: a set of fields, and a sequence of [ptr, of]
    MaxDepth,   \* how deep embeddings are nested in those
    Element,    \* kinds of the elements of maps
    Declared    \* shapes components declare

VARIABLES
    props, declared,
    verdict,    \* of OnPrepare: "none" yet, "admitted", "refused", "underivable"
    sent        \* the object in the page's data island, or NoObject

propsVars == <<props, declared, verdict, sent>>

NoObject == [none |-> {}]
Untyped == [untyped |-> {}]

-----------------------------------------------------------------------------
(* encoding/json/v2: what a value of each kind encodes as, and whether it  *)
(* is Go's zero value.  An array is one of bytes, and own is a number with *)
(* a marshaller of its own.                                                *)
Enc(json, zero) == [json |-> json, zero |-> zero]
Encodings ==
    [int     |-> {Enc("0", TRUE), Enc("1", FALSE)},
     string  |-> {Enc("''", TRUE), Enc("'s'", FALSE)},
     slice   |-> {Enc("[]", TRUE), Enc("[]", FALSE), Enc("['s']", FALSE)},
     ptr     |-> {Enc("null", TRUE), Enc("''", FALSE), Enc("'s'", FALSE)},
     ptrptr  |-> {Enc("null", TRUE), Enc("null", FALSE), Enc("'s'", FALSE)},
     any     |-> {Enc("null", TRUE), Enc("1", FALSE), Enc("'s'", FALSE), Enc("['s']", FALSE)},
     loose   |-> {Enc("{}", TRUE), Enc("{s}", FALSE)},
     solid   |-> {Enc("{s}", TRUE), Enc("{s}", FALSE)},
     array   |-> {Enc("'s'", TRUE), Enc("'s'", FALSE)},
     own     |-> {Enc("''", TRUE), Enc("'s'", FALSE)}]
Kind == DOMAIN Encodings
Option == {"", "omitempty", "omitzero", "string"}
Empty == {"null", "''", "{}", "[]"}

Omitted(field, enc) ==
    \/ field.opt = "omitzero" /\ enc.zero
    \/ field.opt = "omitempty" /\ enc.json \in Empty

(* The option string puts a number in quotes. *)
AsSent(field, enc) == IF field.opt = "string" THEN "'s'" ELSE enc.json

(* The JSON values a member of a union stands for: as the mapper spells it,  *)
(* or as only a component does (an alias of string, Array<string>, any).     *)
Members ==
    [number |-> {"0", "1"}, string |-> {"''", "'s'"}, null |-> {"null"},
     strings |-> {"[]", "['s']"}, numbers |-> {"[]", "[1]"},
     open |-> {"{}", "{s}"}, closed |-> {"{s}"},
     unknown |-> {"0", "1", "''", "'s'", "null", "[]", "['s']", "[1]", "{}", "{s}"},
     alias |-> {"''", "'s'"}, Array |-> {"[]", "['s']"},
     any |-> {"0", "1", "''", "'s'", "null", "[]", "['s']", "[1]", "{}", "{s}"}]
Literal == {"open", "closed"}
Respelled == {"alias", "Array", "any"}

-----------------------------------------------------------------------------
(* Mapper. *)
TsType ==
    [int |-> {"number"}, string |-> {"string"}, slice |-> {"strings"},
     ptr |-> {"string", "null"}, ptrptr |-> {"string", "null"},
     any |-> {"unknown"}, loose |-> {"open"}, solid |-> {"closed"},
     array |-> {"numbers"}, own |-> {"number"}]

CanEncodeEmpty(kind) == kind \notin {"int", "solid", "own"}

FieldType(field) ==
    IF \/ field.opt = "omitzero"
       \/ field.opt = "omitempty" /\ CanEncodeEmpty(field.kind)
    THEN [ts |-> TsType[field.kind] \ {"null"}, optional |-> TRUE]
    ELSE [ts |-> TsType[field.kind], optional |-> FALSE]

(* What is embedded at each depth, and the path of embeddings that leads  *)
(* to it.                                                                  *)
Embedded(nodes) ==
    UNION {{[of |-> c.of.embeds[i].of, path |-> Append(c.path, i)] : i \in DOMAIN c.of.embeds} :
               c \in nodes}
AtDepth(struct) ==
    LET at[d \in 0 .. MaxDepth] ==
          IF d = 0 THEN {[of |-> struct, path |-> <<>>]} ELSE Embedded(at[d - 1])
    IN  at
Reachable(struct) == UNION {AtDepth(struct)[d] : d \in 0 .. MaxDepth}

(* The fields of a struct and of the structs it embeds. *)
Collect(struct) ==
    UNION {{[field |-> f, path |-> node.path] : f \in node.of.fields} : node \in Reachable(struct)}

(* Shallowest wins, a tie is broken by a tag, and an unbroken tie drops    *)
(* every candidate: the one that wins, if any.                             *)
IsSingleton(S) == \E x \in S : S = {x}

(* Mutant: a tag decides before the depth does. *)
TagsFirst(group) ==
    LET tagged == {c \in group : c.field.tagged}
        shallowest == {c \in group : \A d \in group : Len(c.path) <= Len(d.path)}
    IN  IF IsSingleton(tagged) THEN tagged
        ELSE IF IsSingleton(shallowest) THEN shallowest ELSE {}

PickField(group) ==
    LET shallowest == {c \in group : \A d \in group : Len(c.path) <= Len(d.path)}
        tagged == {c \in shallowest : c.field.tagged}
    IN  IF IsSingleton(shallowest) THEN shallowest
        ELSE IF IsSingleton(tagged) THEN tagged ELSE {}

Winners(struct) ==
    UNION {PickField({c \in Collect(struct) : c.field.name = n}) : n \in Name}

StructFields(struct) ==
    [n \in {c.field.name : c \in Winners(struct)} |->
        FieldType((CHOOSE c \in Winners(struct) : c.field.name = n).field)]

(* A map says nothing of its keys: the value in hand does, and for an      *)
(* element of type any its dynamic type.                                   *)
MapType(p, n) ==
    IF p.elem # "any" THEN TsType[p.elem]
    ELSE IF p.keys[n].kind = "nil" THEN {"unknown"} ELSE TsType[p.keys[n].kind]
ShapeOfMap(p) == [n \in DOMAIN p.keys |-> [ts |-> MapType(p, n), optional |-> FALSE]]

ShapeOfValue(p) == IF p.sort = "struct" THEN StructFields(p.type) ELSE ShapeOfMap(p)

-----------------------------------------------------------------------------
(* Shape: the comparison of a declared shape with a supplied one. *)
(* Mutant: the widening rule is forgotten. *)
SameTS(target, source) == target = {"unknown"} \/ source = target

AssignableTS(target, source) == target = {"unknown"} \/ source \subseteq target

Violations(target, source) ==
    {[kind |-> "missing", field |-> n] :
        n \in {m \in DOMAIN target \ DOMAIN source : ~target[m].optional}}
    \cup {[kind |-> "may-be-absent", field |-> n] :
        n \in {m \in DOMAIN target \cap DOMAIN source :
                  ~target[m].optional /\ source[m].optional}}
    \cup {[kind |-> "type", field |-> n] :
        n \in {m \in DOMAIN target \cap DOMAIN source :
                  ~AssignableTS(target[m].ts, source[m].ts)}}

-----------------------------------------------------------------------------
(* The fields of a struct in JSON: breadth first over what it embeds, where *)
(* of a type met again the fields count and what it embeds does not; and of *)
(* those of one name the one that dominates all the others.                 *)
Sooner(p, q) ==
    \/ Len(p) < Len(q)
    \/ /\ Len(p) = Len(q)
       /\ \E i \in DOMAIN p : p[i] < q[i] /\ \A j \in 1 .. i - 1 : p[j] = q[j]

Expanded(nodes) == {c \in nodes : \A d \in nodes : d.of = c.of => ~Sooner(d.path, c.path)}
Visited(struct) ==
    LET upTo[d \in 0 .. MaxDepth] ==
          IF d = 0 THEN {[of |-> struct, path |-> <<>>]}
          ELSE upTo[d - 1] \cup Embedded(Expanded(upTo[d - 1]))
    IN  upTo
Flattened(struct) ==
    UNION {{[field |-> f, path |-> node.path] : f \in node.of.fields} :
               node \in Visited(struct)[MaxDepth]}

Dominates(c, d) ==
    \/ Len(c.path) < Len(d.path)
    \/ Len(c.path) = Len(d.path) /\ c.field.tagged /\ ~d.field.tagged
Dominant(struct) ==
    {c \in Flattened(struct) :
        \A d \in Flattened(struct) \ {c} : d.field.name = c.field.name => Dominates(c, d)}

-----------------------------------------------------------------------------
(* Props as callers pass them: a struct with what the fields sent of it hold *)
(* and which of its embedded pointers are nil; a map; a nil pointer; a value *)
(* that encodes as no object; and one that does not encode.                  *)
Pointers(struct) ==
    UNION {{Append(node.path, i) : i \in {j \in DOMAIN node.of.embeds : node.of.embeds[j].ptr}} :
               node \in Reachable(struct)}

Holdings(struct) ==
    LET won == Dominant(struct)
        kind == [n \in {c.field.name : c \in won} |-> (CHOOSE c \in won : c.field.name = n).field.kind]
    IN  {h \in [DOMAIN kind -> UNION {Encodings[k] : k \in Kind}] :
            \A n \in DOMAIN kind : h[n] \in Encodings[kind[n]]}

(* What an element of a map may be. *)
Held(elem) ==
    IF elem = "any" THEN {[kind |-> "nil", enc |-> Enc("null", TRUE)]}
                         \cup UNION {{[kind |-> k, enc |-> e] : e \in Encodings[k]} : k \in Kind \ {"any"}}
    ELSE {[kind |-> elem, enc |-> e] : e \in Encodings[elem]}

StructsOf(type) ==
    {[sort |-> "struct", type |-> type, holds |-> h, nil |-> x] :
        h \in Holdings(type), x \in SUBSET Pointers(type)}
MapsOf(elem, names) ==
    {[sort |-> "map", elem |-> elem, keys |-> k] : k \in [names -> Held(elem)]}

Structs == UNION {StructsOf(t) : t \in StructType}
Maps == UNION {MapsOf(e, ns) : e \in Element, ns \in SUBSET Name}
Others == {[sort |-> s] : s \in {"nil pointer", "no object", "no encoding"}}
Value == Structs \cup Maps \cup Others

Reached(p, c) == \A i \in DOMAIN c.path : SubSeq(c.path, 1, i) \notin p.nil

JsonOfStruct(p) ==
    LET present == {c \in Dominant(p.type) :
                       Reached(p, c) /\ ~Omitted(c.field, p.holds[c.field.name])}
    IN  [n \in {c.field.name : c \in present} |->
            AsSent((CHOOSE c \in present : c.field.name = n).field, p.holds[n])]
JsonOfMap(p) == [n \in DOMAIN p.keys |-> p.keys[n].enc.json]

(* What marshalProps makes of them. *)
MarshalProps(p) ==
    CASE p.sort = "struct" -> JsonOfStruct(p)
      [] p.sort = "map" -> JsonOfMap(p)
      [] p.sort = "nil pointer" -> <<>>
      [] OTHER -> NoObject

PropsInit ==
    /\ props \in Value
    /\ declared \in Declared \cup {Untyped}
    /\ verdict = "none"
    /\ sent = NoObject

(* Props that carry no object, or that do not encode, are left to the      *)
(* render; and a type that could not be followed demands nothing.          *)
Unreported == {"nil pointer", "no encoding"}

OnPrepare ==
    /\ verdict = "none"
    /\ verdict' =
         IF props.sort \in Unreported THEN "admitted"
         ELSE IF props.sort = "no object" THEN "underivable"
         ELSE IF declared = Untyped \/ Violations(declared, ShapeOfValue(props)) = {}
         THEN "admitted" ELSE "refused"
    /\ UNCHANGED <<props, declared, sent>>

(* A fault of OnPrepare stops Render before the props are marshalled. *)
DoRender ==
    /\ verdict = "admitted" /\ sent = NoObject
    /\ sent' = MarshalProps(props)
    /\ UNCHANGED <<props, declared, verdict>>

PropsNext == OnPrepare \/ DoRender
PropsSpec == PropsInit /\ [][PropsNext]_propsVars

(* The option string is for numbers. *)
Field == {f \in [name : Name, tagged : BOOLEAN, opt : Option, kind : Kind] :
             f.opt = "string" => f.kind = "int"}
Member == DOMAIN Members

(* Structs that encode: their own fields differ in name, what they embed is *)
(* a struct, and MaxDepth leaves none out.                                  *)
ASSUME StructAssumption ==
    /\ MaxDepth \in Nat
    /\ \A struct \in StructType :
          /\ struct.fields \subseteq Field
          /\ \A f, g \in struct.fields : f.name = g.name => f = g
          /\ struct.embeds \in Seq([ptr : BOOLEAN, of : StructType])
          /\ Embedded(AtDepth(struct)[MaxDepth]) = {}

ASSUME DeclaredAssumption ==
    /\ Element \subseteq Kind
    /\ \A shape \in Declared, n \in Name : n \in DOMAIN shape => shape[n].ts \subseteq Member

-----------------------------------------------------------------------------
(* What the browser's component may rely on. *)
FitsAt(object, shape, n) ==
    IF n \in DOMAIN object
    THEN \E m \in shape[n].ts : object[n] \in Members[m]
    ELSE shape[n].optional
Fits(object, shape) == \A n \in DOMAIN shape : FitsAt(object, shape, n)

(* Where the mapper takes a field for what encoding/json does not send: an   *)
(* array of bytes, a marshaller of its own, the option string, or anything   *)
(* in a struct that embeds one type with embeddings by two ways.             *)
Foreign == {"array", "own"}
MetTwice(struct) ==
    \E c, d \in Reachable(struct) : c.of = d.of /\ c.path # d.path /\ c.of.embeds # <<>>
Misread(p, n) ==
    IF p.sort = "struct"
    THEN \/ MetTwice(p.type)
         \/ \E c \in Winners(p.type) :
               c.field.name = n /\ (c.field.kind \in Foreign \/ c.field.opt = "string")
    ELSE n \in DOMAIN p.keys /\ p.keys[n].kind \in Foreign

(* A field of a nil embedded pointer is taken to be there, and the null in a  *)
(* pointer to a pointer to be left out by omitzero.                           *)
Overlooked(p, n) ==
    p.sort = "struct" /\ \E c \in Winners(p.type) :
        /\ c.field.name = n
        /\ ~Reached(p, c) \/ (c.field.opt = "omitzero" /\ c.field.kind = "ptrptr")

(* What reaches the page fits the type its component declares, though what    *)
(* was compared is the Go type and never the object: fields renamed,          *)
(* promoted, shadowed, dropped by a tie or left out when empty.  Not so for a *)
(* nil pointer to props, sent as {}, and the fields misread or overlooked.    *)
AcceptedFits ==
    sent # NoObject /\ declared # Untyped /\ props.sort # "nil pointer" =>
        \A n \in DOMAIN declared :
            FitsAt(sent, declared, n) \/ Misread(props, n) \/ Overlooked(props, n)

(* Types are compared as text.  A component that spells one in a way of its   *)
(* own, names unknown in a union or spells out all that an any may hold, or   *)
(* whose object type differs from the Go one's, refuses what would fit.       *)
Textual(n) ==
    LET target == declared[n].ts
        source == ShapeOfValue(props)[n].ts
    IN  \/ target \cap Respelled # {}
        \/ "unknown" \in target
        \/ source \cap Literal # {} /\ target \cap Literal # {}
        \/ /\ source = {"unknown"}
           /\ \A e \in Encodings.any : e.json # "null" => \E m \in target : e.json \in Members[m]

(* A nil in a map of any is unknown, which fits only unknown. *)
NilInMap(n) == props.sort = "map" /\ n \in DOMAIN props.keys /\ props.keys[n].kind = "nil"

Excused(v) ==
    \/ v.kind = "type" /\ (Textual(v.field) \/ NilInMap(v.field))
    \/ Misread(props, v.field)

OfSameType(p) ==
    IF p.sort = "struct" THEN StructsOf(p.type)
    ELSE {q \in MapsOf(p.elem, DOMAIN p.keys) :
             \A n \in DOMAIN p.keys : q.keys[n].kind = p.keys[n].kind}

(* Props are refused for cause: some value of the same Go type would not fit, *)
(* unless every violation is one of spelling or of a field misread.           *)
RefusalIsEarned ==
    verdict = "refused"
        /\ (\E v \in Violations(declared, ShapeOfValue(props)) : ~Excused(v))
    => \E p \in OfSameType(props) : ~Fits(MarshalProps(p), declared)

=============================================================================
