-------------------------------- MODULE Scon --------------------------------
(***************************************************************************)
(* The notation in which the arguments of a contract are typed: the values *)
(* of contract/transcode/scon/mod.rs, their parser (scon/parse.rs, a       *)
(* grammar of ordered choices) and their printer (scon/display.rs).        *)
(*                                                                         *)
(* A text is a sequence of lexemes: a lexeme is one character, except that *)
(* "true", "false" and a few words stand for their letters.  Two words in  *)
(* a row are one longer word: <<"true", "a">> is the text truea.           *)
(* A value is a tuple whose first element is its kind; a missing           *)
(* identifier is <<>>.                                                     *)
(***************************************************************************)
EXTENDS Integers, Sequences, FiniteSets, SequencesExt

CONSTANTS MaxUInt, MaxInt   \* the largest u128 and i128

HexDigits == <<"0", "1", "2", "3", "4", "5", "6", "7", "8", "9", "a", "b", "c", "d", "e", "f">>
Digit == [c \in ToSet(HexDigits) |-> (CHOOSE i \in DOMAIN HexDigits : HexDigits[i] = c) - 1]
Digits == {c \in DOMAIN Digit : Digit[c] < 10}
Letters == {c \in DOMAIN Digit : Digit[c] > 9} \cup {"g", "n", "x"}
Alnum == Digits \cup Letters \cup {"true", "false", "Foo", "Bar", "String", "UInt", "Int"}
Idents == (Alnum \ Digits) \cup {"_"}
Plain == Digits \cup Letters \cup {" ", "_", "-", "(", ")", "[", "]", "{", "}", ",", ":", "'"}
Quotable == Plain \cup Alnum
Unescaped == [c \in {"\"", "\\", "n", "u00DF"} |->
                CASE c = "n" -> "newline" [] c = "u00DF" -> "sharp s" [] OTHER -> c]
LoneSurrogate == "ud800"

(* What a parser answers: a value and the text left, an error the next      *)
(* alternative may mend, or a failure that none may.                        *)
Ok(rest, v) == <<"ok", rest, v>>
Err == <<"err">>
Cut == <<"cut">>
Once(p, F(_)) == CHOOSE x \in {F(q) : q \in {p}} : TRUE   \* F(p), with p computed once
p || q == Once(p, LAMBDA x : IF x[1] = "err" THEN q ELSE x)
Bind(p, F(_, _)) == Once(p, LAMBDA x : IF x[1] = "ok" THEN F(x[2], x[3]) ELSE x)
As(kind, p) == Bind(p, LAMBDA r, v : Ok(r, <<kind, v>>))

SpanLen(S, s) == CHOOSE n \in 0..Len(s) : /\ \A i \in 1..n : s[i] \in S
                                          /\ n < Len(s) => s[n + 1] \notin S
After(n, s) == SubSeq(s, n + 1, Len(s))
Taken(n, s) == IF n = 0 THEN Err ELSE Ok(After(n, s), SubSeq(s, 1, n))
Many1(S, s) == Taken(SpanLen(S, s), s)
Skip(s) == After(SpanLen({" "}, s), s)
Tag(S, s) == IF s # <<>> /\ Head(s) \in S THEN Ok(Tail(s), Head(s)) ELSE Err
Ws(S, s) == Bind(Tag(S, Skip(s)), LAMBDA r, t : Ok(Skip(r), t))

-----------------------------------------------------------------------------
(* Leaves *)

RECURSIVE IdentLen(_, _)
IdentLen(n, s) ==
    LET u == IF n < Len(s) /\ s[n + 1] = "_" THEN n + 1 ELSE n
        k == SpanLen(Alnum, After(u, s))
    IN IF k = 0 THEN n ELSE IdentLen(u + k, s)
rust_ident(s) == IF s # <<>> /\ Head(s) \in Idents THEN Taken(IdentLen(1, s), s) ELSE Err

Numeral(d, base) == FoldLeft(LAMBDA n, c : base * n + Digit[c], 0, d)
uint(s) == IF s # <<>> /\ Head(s) = "0" THEN Taken(1, s) ELSE Many1(Digits, s)
scon_integer(s) ==
    LET signed == Bind(Tag({"-"}, s), LAMBDA r, t : uint(r))
    IN  \* a number too long for its type is an error like any other: the next alternative is tried
        Bind(signed, LAMBDA r, d : IF Numeral(d, 10) > MaxInt + 1 THEN Err
                                   ELSE Ok(r, <<"Int", -Numeral(d, 10)>>))
        || Bind(uint(s), LAMBDA r, d : IF Numeral(d, 10) > MaxUInt THEN Err
                                       ELSE Ok(r, <<"UInt", Numeral(d, 10)>>))

RECURSIVE BodyLen(_, _)
BodyLen(n, s) == IF n < Len(s) /\ s[n + 1] \in Quotable THEN BodyLen(n + 1, s)
                 ELSE IF /\ n + 1 < Len(s) /\ s[n + 1] = "\\"
                         /\ s[n + 2] \in DOMAIN Unescaped \cup {LoneSurrogate}
                      THEN BodyLen(n + 2, s)
                      ELSE n
RECURSIVE unescape(_)
unescape(s) == IF s = <<>> THEN <<>>
               ELSE IF Head(s) # "\\" THEN <<Head(s)>> \o unescape(Tail(s))
               ELSE <<Unescaped[s[2]]>> \o unescape(After(2, s))
scon_string(s) ==
    Bind(Tag({"\""}, s), LAMBDA r, t :
        LET n == BodyLen(0, r) IN
        Bind(Tag({"\""}, After(n, r)), LAMBDA r2, t2 :
            LET raw == SubSeq(r, 1, n) IN
            IF LoneSurrogate \in ToSet(raw) THEN Cut ELSE Ok(r2, <<"String", unescape(raw)>>)))

scon_unit(s) == IF IsPrefix(<<"(", ")">>, s) THEN Ok(After(2, s), <<"Unit">>) ELSE Err
scon_bool(s) == Bind(Tag({"true", "false"}, s), LAMBDA r, t : Ok(r, <<"Bool", t = "true">>))
scon_char(s) == IF Len(s) >= 3 /\ s[1] = "'" /\ s[2] \in Plain /\ s[3] = "'"
                THEN Ok(After(3, s), <<"Char", s[2]>>) ELSE Err
Bytes(h) == [i \in 1..(Len(h) \div 2) |-> Numeral(SubSeq(h, 2 * i - 1, 2 * i), 16)]
scon_bytes(s) ==
    IF ~IsPrefix(<<"0", "x">>, s) THEN Err
    ELSE Bind(Many1(ToSet(HexDigits), After(2, s)), LAMBDA r, h :
              IF Len(h) % 2 = 1 THEN Cut ELSE Ok(r, <<"Bytes", Bytes(h)>>))
scon_unit_tuple(s) == Bind(rust_ident(s), LAMBDA r, i : Ok(r, <<"Tuple", i, <<>>>>))
scon_literal(s) == As("Literal", Many1(Alnum, s))

-----------------------------------------------------------------------------
(* Composite values.  A Map is an IndexMap: a second value of a key takes   *)
(* the place of the first.                                                  *)

Insert(m, e) ==
    IF \E i \in DOMAIN m : m[i][1] = e[1]
    THEN [i \in DOMAIN m |-> IF m[i][1] = e[1] THEN <<m[i][1], e[2]>> ELSE m[i]]
    ELSE Append(m, e)
IndexMap(es) == FoldLeft(Insert, <<>>, es)

RECURSIVE scon_value(_), More(_, _, _)
scon_map_key(s) ==
    LET k == Skip(s)
    IN Bind(As("String", rust_ident(k)) || scon_string(k) || scon_integer(k), LAMBDA r, name :
           Bind(Ws({":"}, Skip(r)), LAMBDA r2, t : Ok(r2, name)))
\* an element of a sequence, and with its key one of a map
entry(isMap, s) ==
    Bind(IF isMap THEN scon_map_key(s) ELSE Ok(s, <<>>), LAMBDA r, name :
        Bind(scon_value(r), LAMBDA r2, v : Ok(r2, IF isMap THEN <<name, v>> ELSE v)))
\* separated_list0: an element that does not follow its comma gives the comma back
More(isMap, s, acc) ==
    Once(Bind(IF acc = <<>> THEN Ok(s, ",") ELSE Ws({","}, s), LAMBDA r, t : entry(isMap, r)), LAMBDA one :
         CASE one[1] = "ok"  -> More(isMap, one[2], Append(acc, one[3]))
           [] one[1] = "err" -> Ok(s, acc)
           [] one[1] = "cut" -> Cut)
Optional(p, s, none) == p || Ok(s, none)
Body(isMap, open, close, s) ==
    Bind(Ws(open, s), LAMBDA r, t :
        Bind(More(isMap, r, <<>>), LAMBDA r2, vs :
            Bind(Optional(Ws({","}, r2), r2, ","), LAMBDA r3, comma :
                Bind(Ws(close, r3), LAMBDA r4, t4 : Ok(r4, vs)))))
Named(s) == Optional(Bind(rust_ident(Skip(s)), LAMBDA r, i : Ok(Skip(r), i)), s, <<>>)
scon_seq(s) == As("Seq", Body(FALSE, {"["}, {"]"}, s))
scon_tuple(s) ==
    Bind(Named(s), LAMBDA r, ident :
        Bind(Body(FALSE, {"("}, {")"}, r), LAMBDA r2, vs : Ok(r2, <<"Tuple", ident, vs>>)))
scon_map(s) ==
    Bind(Named(s), LAMBDA r, ident :
        Bind(Body(TRUE, {"(", "{"}, {")", "}"}, r), LAMBDA r2, es :
            Ok(r2, <<"Map", ident, IndexMap(es)>>)))
\* mutant: numbers are tried before bytes
scon_valueNumberFirst(s) ==
    LET t == Skip(s) IN
    Bind(scon_unit(t) || scon_integer(t) || scon_bytes(t) || scon_seq(t) || scon_tuple(t) || scon_map(t)
         || scon_string(t) || scon_bool(t) || scon_char(t) || scon_unit_tuple(t) || scon_literal(t),
         LAMBDA r, v : Ok(Skip(r), v))
scon_value(s) ==
    LET t == Skip(s) IN
    Bind(scon_unit(t) || scon_bytes(t) || scon_seq(t) || scon_tuple(t) || scon_map(t)
         || scon_string(t) || scon_integer(t) || scon_bool(t) || scon_char(t)
         || scon_unit_tuple(t) || scon_literal(t),
         LAMBDA r, v : Ok(Skip(r), v))

\* parse_value: the text left over is dropped
parse_value(s) == scon_value(s)

-----------------------------------------------------------------------------
(* Printing, without layout.                                                *)

RECURSIVE Decimal(_)
Decimal(n) == (IF n < 10 THEN <<>> ELSE Decimal(n \div 10)) \o <<HexDigits[(n % 10) + 1]>>
Hex(bs) == FlattenSeq([i \in DOMAIN bs |-> <<HexDigits[(bs[i] \div 16) + 1], HexDigits[(bs[i] % 16) + 1]>>])
Commas(ts) == FlattenSeq([i \in DOMAIN ts |-> IF i = 1 THEN ts[i] ELSE <<",">> \o ts[i]])

RECURSIVE Display(_)
\* the derived Debug of a key, used for a map without an identifier
Quoted(k) == IF k[1] = "String" THEN <<"\"">> \o k[2] \o <<"\"">> ELSE Display(k)
Display(v) ==
    CASE v[1] = "Bool"    -> IF v[2] THEN <<"true">> ELSE <<"false">>
      [] v[1] = "Char"    -> IF v[2] = "'" THEN <<"'", "\\", "'", "'">> ELSE <<"'", v[2], "'">>
      [] v[1] = "UInt"    -> Decimal(v[2])
      [] v[1] = "Int"     -> IF v[2] < 0 THEN <<"-">> \o Decimal(-v[2]) ELSE Decimal(v[2])
      [] v[1] \in {"String", "Literal"} -> v[2]
      [] v[1] = "Bytes"   -> <<"0", "x">> \o Hex(v[2])
      [] v[1] = "Unit"    -> <<"(", ")">>
      [] v[1] = "Seq"     -> <<"[">> \o Commas([i \in DOMAIN v[2] |-> Display(v[2][i])]) \o <<"]">>
      [] v[1] = "Tuple"   -> v[2] \o
            (IF v[3] = <<>> THEN <<>>
             ELSE LET one == Commas([i \in DOMAIN v[3] |-> Display(v[3][i])])
                  IN <<"(">> \o one \o (IF v[2] = <<>> /\ Len(v[3]) = 1 THEN <<",">> ELSE <<>>)
                     \o <<")">>)
      [] v[1] = "Map"     -> v[2] \o
            (IF v[3] = <<>> /\ v[2] # <<>> THEN <<>>
             ELSE <<"{">> \o Commas([i \in DOMAIN v[3] |->
                      (IF v[2] # <<>> THEN Display(v[3][i][1])
                       ELSE <<v[3][i][1][1], "(">> \o Quoted(v[3][i][1]) \o <<")">>)
                      \o <<":">> \o Display(v[3][i][2])]) \o <<"}">>)
=============================================================================
