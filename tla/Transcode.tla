----------------------------- MODULE Transcode -----------------------------
(***************************************************************************)
(* From typed arguments to the data of a contract and back: Transcoder     *)
(* (contract/transcode/mod.rs), encode.rs and decode.rs, over the type     *)
(* registry of a contract's metadata.                                      *)
(*                                                                         *)
(* A type is <<"Primitive", name>>, <<"Composite", name, fields>>,         *)
(* <<"Variant", variants>>, <<"Array", id, length>>, <<"Sequence", id>> or *)
(* <<"Tuple", ids>>; a field is <<name, id>>, its name <<>> if it has none.*)
(* Integers have one or two bytes, the wider ones differ in nothing else.  *)
(* Each character of a string takes one byte.                              *)
(***************************************************************************)
EXTENDS Scon

CONSTANTS Registry,      \* the types, by id
          Constructors,  \* their specs: [name, selector, args]
          Messages

Out(bytes) == <<"ok", bytes>>
Panic == <<"panic">>
Joined(ps) == FoldLeft(LAMBDA all, p : IF all[1] # "ok" THEN all ELSE IF p[1] # "ok" THEN p ELSE Out(all[2] \o p[2]),
                       Out(<<>>), ps)
Shorter(s, t) == 1..(IF Len(s) < Len(t) THEN Len(s) ELSE Len(t))   \* what zip keeps of two iterators

\* CompositeTypeFields::from_type_def
FieldsKind(fs) ==
    LET named == {i \in DOMAIN fs : fs[i][1] # <<>>}
    IN CASE fs = <<>> -> "NoFields"
         [] fs # <<>> /\ named = DOMAIN fs -> "StructNamedFields"
         [] fs # <<>> /\ named = {} -> "TupleStructUnnamedFields"
         [] OTHER -> "mixed"
Ids(fs) == [i \in DOMAIN fs |-> fs[i][2]]

-----------------------------------------------------------------------------
(* Encoding of primitives (SCALE)                                           *)

Width(prim) == IF prim \in {"u8", "i8"} THEN 1 ELSE 2
Signed == {"i8", "i16"}
bounds(prim) == LET span == 256 ^ Width(prim)
                IN IF prim \in Signed THEN -(span \div 2)..(span \div 2 - 1) ELSE 0..(span - 1)
LittleEndian(n, w) == [i \in 1..w |-> (n \div 256 ^ (i - 1)) % 256]
Compact(n) == IF n < 64 THEN <<4 * n>> ELSE LittleEndian(4 * n + 1, 2)
Chars == HexDigits \o <<"g", "n", "x", "true", "false", "Foo", "Bar", "String", "UInt", "Int", " ", "_", "-",
                        "(", ")", "[", "]", "{", "}", ",", ":", "'", "\"", "\\", "newline", "sharp s">>
Code(c) == CHOOSE i \in DOMAIN Chars : Chars[i] = c

\* the numbers a value stands for, before T::try_from and T::from_str ask whether they fit: one or none
denotes(prim, v) ==
    LET s == SelectSeq(v[2], LAMBDA c : c \notin {"_", ","})
        minus == prim \in Signed /\ s # <<>> /\ Head(s) = "-"
        d == IF minus THEN Tail(s) ELSE s
    IN CASE v[1] = "UInt" -> {v[2]}
         [] v[1] = "Int"  -> IF prim \in Signed THEN {v[2]} ELSE {}
         [] v[1] = "String" -> IF d = <<>> \/ ~ToSet(d) \subseteq Digits THEN {}
                               ELSE {IF minus THEN -Numeral(d, 10) ELSE Numeral(d, 10)}
         [] OTHER -> {}
encode_primitive(prim, v) ==
    CASE prim = "bool" -> IF v[1] = "Bool" THEN Out(<<IF v[2] THEN 1 ELSE 0>>) ELSE Err
      [] prim = "str"  -> IF v[1] = "String"
                          THEN Out(Compact(Len(v[2])) \o [i \in DOMAIN v[2] |-> Code(v[2][i])]) ELSE Err
      [] prim = "char" -> Err
      [] OTHER -> LET fit == denotes(prim, v) \cap bounds(prim)
                  IN IF fit = {} THEN Err ELSE Out(LittleEndian(CHOOSE n \in fit : TRUE, Width(prim)))

-----------------------------------------------------------------------------
(* Encoding of the other types.  Values are zipped with fields by position, *)
(* whatever their keys are, and a missing or an extra one is not noticed.   *)

RECURSIVE encode_value(_, _)
encode_fields(ids, vs) == Joined([i \in Shorter(ids, vs) |-> encode_value(ids[i], vs[i])])
Single(ids, v) == IF Len(ids) = 1 THEN encode_value(ids[1], v) ELSE Err
MapValues(v) == [i \in DOMAIN v[3] |-> v[3][i][2]]
encode_composite(fs, v) ==
    CASE FieldsKind(fs) = "mixed" -> Err
      [] FieldsKind(fs) # "mixed" /\ v[1] = "Map" -> encode_fields(Ids(fs), MapValues(v))
      [] FieldsKind(fs) # "mixed" /\ v[1] = "Tuple" ->
             IF FieldsKind(fs) = "StructNamedFields" THEN Err ELSE encode_fields(Ids(fs), v[3])
      [] OTHER -> Single(Ids(fs), v)
encode_tuple(ids, v) == IF v[1] = "Tuple" THEN encode_fields(ids, v[3]) ELSE Single(ids, v)

Fields(variant, v) == IF v[1] = "Map" THEN Panic ELSE encode_fields(Ids(variant.fields), v[3])   \* todo!()
\* mutant: variants are numbered from one
encode_variantFromOne(variants, v) ==
    LET at == {i \in DOMAIN variants : v[1] \in {"Map", "Tuple"} /\ variants[i].name = v[2]}
    IN IF at = {} THEN Err ELSE LET i == CHOOSE i \in at : \A j \in at : i <= j
                                IN Joined(<<Out(<<i>>), Fields(variants[i], v)>>)
encode_variant(variants, v) ==
    LET at == {i \in DOMAIN variants : v[1] \in {"Map", "Tuple"} /\ variants[i].name = v[2]}
        i == CHOOSE i \in at : \A j \in at : i <= j
    IN IF at = {} \/ i > 256 THEN Err ELSE Joined(<<Out(<<i - 1>>), Fields(variants[i], v)>>)

\* the bytes of a literal 0x.. are written as they are, whatever the elements are, and however many an array has
encode_seq(id, v, encode_len) ==
    LET len == IF encode_len THEN Compact(Len(v[2])) ELSE <<>>
    IN CASE v[1] = "Seq"   -> Joined(<<Out(len)>> \o [i \in DOMAIN v[2] |-> encode_value(id, v[2][i])])
         [] v[1] = "Bytes" -> Out(len \o v[2])
         [] OTHER -> Err

encode_value(id, v) ==
    LET ty == Registry[id] IN
    CASE id \notin DOMAIN Registry -> Err
      [] id \in DOMAIN Registry /\ ty[1] = "Primitive" -> encode_primitive(ty[2], v)
      [] id \in DOMAIN Registry /\ ty[1] = "Composite" -> encode_composite(ty[3], v)
      [] id \in DOMAIN Registry /\ ty[1] = "Variant"   -> encode_variant(ty[2], v)
      [] id \in DOMAIN Registry /\ ty[1] = "Tuple"     -> encode_tuple(ty[2], v)
      [] id \in DOMAIN Registry /\ ty[1] \in {"Array", "Sequence"} -> encode_seq(ty[2], v, ty[1] = "Sequence")

-----------------------------------------------------------------------------
(* Decoding answers the input left and a value.                             *)

Take(n, s) == IF n > Len(s) THEN Err ELSE Ok(After(n, s), SubSeq(s, 1, n))
Natural(bytes) == FoldRight(LAMBDA b, n : 256 * n + b, bytes, 0)
decode_len(s) ==
    Bind(Take(1, s), LAMBDA r, b :
        CASE b[1] % 4 = 0 -> Ok(r, b[1] \div 4)
          [] b[1] % 4 = 1 -> Bind(Take(2, s), LAMBDA r2, two :
                                 IF Natural(two) \div 4 < 64 THEN Err ELSE Ok(r2, Natural(two) \div 4))
          [] OTHER -> Err)
decode_primitive(prim, s) ==
    CASE prim = "bool" -> Bind(Take(1, s), LAMBDA r, b :
                              IF b[1] > 1 THEN Err ELSE Ok(r, <<"Bool", b[1] = 1>>))
      [] prim = "str"  -> Bind(decode_len(s), LAMBDA r, n : Bind(Take(n, r), LAMBDA r2, bs :
                              IF ~ToSet(bs) \subseteq DOMAIN Chars THEN Err
                              ELSE Ok(r2, <<"String", [i \in DOMAIN bs |-> Chars[bs[i]]]>>)))
      [] prim = "char" -> Err
      [] OTHER -> Bind(Take(Width(prim), s), LAMBDA r, bs :
                      LET n == Natural(bs)
                          span == 256 ^ Width(prim)
                      IN IF prim \in Signed THEN Ok(r, <<"Int", IF n < span \div 2 THEN n ELSE n - span>>)
                         ELSE Ok(r, <<"UInt", n>>))

RECURSIVE decode_value(_, _), decode_all(_, _, _)
decode_all(ids, s, acc) ==
    IF ids = <<>> THEN Ok(s, acc)
    ELSE Bind(decode_value(Head(ids), s), LAMBDA r, v : decode_all(Tail(ids), r, Append(acc, v)))
Labelled(ident, fs, vs) ==
    IF FieldsKind(fs) = "StructNamedFields"
    THEN <<"Map", ident, IndexMap([i \in DOMAIN fs |-> <<<<"String", fs[i][1]>>, vs[i]>>])>>
    ELSE <<"Tuple", ident, vs>>
decode_fields(ident, fs, s) ==
    Bind(decode_all(Ids(fs), s, <<>>), LAMBDA r, vs :
        IF FieldsKind(fs) = "mixed" THEN Err ELSE Ok(r, Labelled(ident, fs, vs)))
decode_variant(variants, s) ==
    Bind(Take(1, s), LAMBDA r, b :
        IF b[1] + 1 \notin DOMAIN variants THEN Err
        ELSE decode_fields(variants[b[1] + 1].name, variants[b[1] + 1].fields, r))
decode_seq(id, n, s) ==
    IF Registry[id] = <<"Primitive", "u8">>
    THEN Bind(Take(n, s), LAMBDA r, bs : Ok(r, <<"Bytes", bs>>))
    ELSE As("Seq", decode_all([i \in 1..n |-> id], s, <<>>))
decode_value(id, s) ==
    LET ty == Registry[id] IN
    CASE ty[1] = "Primitive" -> decode_primitive(ty[2], s)
      [] ty[1] = "Composite" -> decode_fields(ty[2], ty[3], s)
      [] ty[1] = "Variant"   -> decode_variant(ty[2], s)
      [] ty[1] = "Tuple"     -> Bind(decode_all(ty[2], s, <<>>), LAMBDA r, vs : Ok(r, <<"Tuple", <<>>, vs>>))
      [] ty[1] = "Array"     -> decode_seq(ty[2], ty[3], s)
      [] ty[1] = "Sequence"  -> Bind(decode_len(s), LAMBDA r, n : decode_seq(ty[2], n, r))

-----------------------------------------------------------------------------
(* Transcoder                                                               *)

\* find_constructor_spec and find_message_spec
find_spec(specs, name) ==
    LET found == SelectSeq(specs, LAMBDA spec : name \in ToSet(spec.name))
    IN IF found = <<>> THEN Err ELSE Ok(<<>>, Head(found))
encode(name, texts) ==
    LET c == find_spec(Constructors, name)
        m == find_spec(Messages, name)
        spec == (c || m)[3]
        arg(i) == Bind(parse_value(texts[i]), LAMBDA r, v : encode_value(spec.args[i], v))
    IN IF (c[1] = "ok") = (m[1] = "ok") THEN Err
       ELSE Joined(<<Out(spec.selector)>> \o [i \in Shorter(spec.args, texts) |-> arg(i)])
=============================================================================
