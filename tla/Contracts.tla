------------------------------ MODULE Contracts ------------------------------
(***************************************************************************)
(* The commands on contracts with the argument notation of Transcode: what *)
(* a line is encoded to, what a contract does with the data, and how the   *)
(* one is related to the other.                                            *)
(***************************************************************************)
EXTENDS Transcode, Commands

\* every line as it is encoded, computed once
EncodedLines == [t \in UNION {Typed[u] : u \in Users} |-> encode(t[1], t[2])]

\* what a contract does with data: {} if it traps, else the entry it runs and its arguments
Runs(specs, data) ==
    {r \in {<<specs[i].selector, decode_all(specs[i].args, After(1, data), <<>>)>> : i \in DOMAIN specs} :
        data # <<>> /\ r[1] = <<Head(data)>> /\ r[2][1] = "ok"}

RunsOf(specs) ==
    [data \in {l[2] : l \in {l \in Range(EncodedLines) : l[1] = "ok"}} |-> Runs(specs, data)]
RunsOfConstructors == RunsOf(Constructors)
RunsOfMessages == RunsOf(Messages)

-----------------------------------------------------------------------------
(* Properties *)

Spec(name) == (find_spec(Constructors, name) || find_spec(Messages, name))[3]

(* The value of type id that a text denotes, as the contract should see it:  *)
(* a set, empty when the text is not of the shape of the type.               *)
RECURSIVE Meant(_, _)
AllMeant(ids, vs) ==
    IF Len(ids) # Len(vs) THEN {}
    ELSE {[i \in DOMAIN ids |-> CHOOSE m \in ms[i] : TRUE] :
             ms \in {ms \in {[i \in DOMAIN ids |-> Meant(ids[i], vs[i])]} : \A i \in DOMAIN ids : ms[i] # {}}}
Keys(v) == [i \in DOMAIN v[3] |-> v[3][i][1]]
Meant(id, v) ==
    LET ty == Registry[id]
        fieldIds(fs) == [i \in DOMAIN fs |-> fs[i][2]]
        names(fs) == [i \in DOMAIN fs |-> <<"String", fs[i][1]>>]
        tuple(ident, m) == {<<"Tuple", ident, vs>> : vs \in m}
        one(fs) == IF Len(fs) = 1 /\ v[1] \notin {"Map", "Tuple"} THEN <<v>> ELSE v[3]
        struct(ident, fs) ==
            IF FieldsKind(fs) = "StructNamedFields"
            THEN IF v[1] # "Map" \/ Keys(v) # names(fs) THEN {}
                 ELSE {<<"Map", ident, [i \in DOMAIN fs |-> <<names(fs)[i], vs[i]>>]>> :
                           vs \in AllMeant(fieldIds(fs), [i \in DOMAIN v[3] |-> v[3][i][2]])}
            ELSE IF v[1] = "Tuple" \/ Len(fs) = 1
                 THEN tuple(ident, AllMeant(fieldIds(fs), one(fs))) ELSE {}
    IN CASE ty[1] = "Primitive" /\ ty[2] \in {"bool", "str"} ->
              {w \in {v} : v[1] = (IF ty[2] = "bool" THEN "Bool" ELSE "String")}
         [] ty[1] = "Primitive" /\ ty[2] \notin {"bool", "str"} ->
              {<<IF ty[2] \in Signed THEN "Int" ELSE "UInt", n>> : n \in denotes(ty[2], v) \cap bounds(ty[2])}
         [] ty[1] = "Composite" -> struct(ty[2], ty[3])
         [] ty[1] = "Variant" -> UNION {tuple(v[2], AllMeant(fieldIds(x.fields), v[3])) :
                x \in {x \in ToSet(ty[2]) : v[1] = "Tuple" /\ x.name = v[2]
                                           /\ FieldsKind(x.fields) # "StructNamedFields"}}
         [] ty[1] = "Tuple" -> IF v[1] = "Tuple" THEN tuple(<<>>, AllMeant(ty[2], v[3])) ELSE {}
         [] ty[1] \in {"Array", "Sequence"} ->
              IF ty[1] = "Array" /\ v[1] \in {"Seq", "Bytes"} /\ Len(v[2]) # ty[3] THEN {}
              ELSE IF v[1] = "Bytes" THEN {w \in {v} : Registry[ty[2]] = <<"Primitive", "u8">>}
              ELSE IF v[1] = "Seq"
                   THEN LET vs == AllMeant([i \in DOMAIN v[2] |-> ty[2]], v[2])
                        IN IF Registry[ty[2]] = <<"Primitive", "u8">>
                           THEN {<<"Bytes", [i \in DOMAIN w |-> w[i][2]]>> : w \in vs}
                           ELSE {<<"Seq", w>> : w \in vs}
                   ELSE {}

(* When every text is read whole and has the shape of the type of its       *)
(* argument, the contract runs the entry that was named with exactly the    *)
(* values that were typed (parse.rs, encode.rs; decode.rs is the mirror of  *)
(* what the contract does).                                                 *)
TypedIsRun ==
    \A u \in Users :
        LET texts == cmd[u].typed[2]
            spec == Spec(cmd[u].typed[1])
            read == [i \in DOMAIN texts |-> parse_value(texts[i])]
        IN cmd[u].ran # <<>> /\ (\A i \in DOMAIN texts : read[i][1] = "ok" /\ read[i][2] = <<>>) =>
           \A vs \in AllMeant(spec.args, [i \in DOMAIN texts |-> read[i][3]]) :
               cmd[u].ran[1] = spec.selector /\ cmd[u].ran[2][3] = vs

\* what the printer writes so that the parser can read it: no character, no bare string, no
\* empty bytes, no empty tuple, and no struct variant, which the encoder does not support
RECURSIVE Replays(_, _)
Replays(id, v) ==
    LET ty == Registry[id] IN
    CASE v[1] \in {"String", "Char"} -> FALSE
      [] v[1] = "Bytes" -> v[2] # <<>>
      [] v[1] = "Seq" -> \A i \in DOMAIN v[2] : Replays(ty[2], v[2][i])
      [] v[1] = "Tuple" ->
           LET fs == IF ty[1] = "Variant" THEN (CHOOSE x \in ToSet(ty[2]) : x.name = v[2]).fields
                     ELSE IF ty[1] = "Tuple" THEN [i \in DOMAIN ty[2] |-> <<<<>>, ty[2][i]>>] ELSE ty[3]
           IN (v[2] # <<>> \/ v[3] # <<>>) /\ \A i \in DOMAIN v[3] : Replays(fs[i][2], v[3][i])
      [] v[1] = "Map" -> ty[1] = "Composite" /\ \A i \in DOMAIN v[3] : Replays(ty[3][i][2], v[3][i][2])
      [] OTHER -> TRUE

(* The arguments a contract read, printed and typed again, give the same    *)
(* data: the printer, the parser and the encoder agree (display.rs,         *)
(* parse.rs, encode.rs).                                                    *)
ReplayIsSame ==
    \A u \in Users :
        LET spec == Spec(cmd[u].typed[1])
            args == cmd[u].ran[2][3]
        IN /\ cmd[u].ran # <<>>
           /\ cmd[u].ran[2][2] = <<>>
           /\ \A i \in DOMAIN args : Replays(spec.args[i], args[i])
           => encode(cmd[u].typed[1], [i \in DOMAIN args |-> Display(args[i])]) = Out(cmd[u].data)

(* As parse.rs:374 and its assert_scon_value expect: a text that is read at *)
(* all is read to its end.  The code does not keep this: see the README.    *)
WholeTextIsRead ==
    \A u \in Users : \A i \in DOMAIN cmd[u].typed[2] :
        cmd[u].data # <<>> => parse_value(cmd[u].typed[2][i])[2] = <<>>
=============================================================================
