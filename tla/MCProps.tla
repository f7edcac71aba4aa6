------------------------------- MODULE MCProps -------------------------------
EXTENDS Props

Fields(tags, opts, kinds) ==
    {{f} : f \in {g \in [name : {"n"}, tagged : tags, opt : opts, kind : kinds] : g \in Field}}
Small == Fields(BOOLEAN, {""}, {"int", "string"})

Struct(fields, embeds) == [fields |-> fields, embeds |-> embeds]
Inner == {Struct(f, <<>>) : f \in Small}
Embeds(of) == {[ptr |-> p, of |-> s] : p \in BOOLEAN, s \in of}
Middle == {Struct({}, <<e>>) : e \in Embeds(Inner)}

(* Every kind and option on a field of its own; small fields shadowing, tied  *)
(* and promoted at up to two levels of embedding; and one struct embedded     *)
(* twice.                                                                     *)
MCStructType ==
    {Struct(f, <<>>) : f \in Fields({TRUE}, Option, Kind)}
    \cup {Struct(f, es) : f \in {{}} \cup Small,
             es \in {<<>>} \cup {<<e>> : e \in Embeds(Inner \cup Middle)}
                  \cup {<<e, d>> : e \in Embeds(Inner), d \in Embeds(Inner \cup Middle)}}
    \cup {Struct({}, <<e, e>>) : e \in Embeds(Middle)}

(* Types as the mapper spells them, and as only a component does. *)
MCDeclared ==
    {<<>>} \cup {[n \in Name |-> [ts |-> ts, optional |-> o]] : o \in BOOLEAN,
        ts \in {{"number"}, {"string"}, {"string", "null"}, {"number", "string"},
                {"strings"}, {"numbers"}, {"open"}, {"closed"}, {"unknown"},
                {"number", "string", "strings", "null"},
                {"alias"}, {"alias", "null"}, {"Array"}, {"any"}, {"unknown", "null"}}}
=============================================================================
