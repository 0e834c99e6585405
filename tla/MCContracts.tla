----------------------------- MODULE MCContracts -----------------------------
(***************************************************************************)
(* A small contract whose constructor and messages take one argument of    *)
(* each shape of type, its one code, and two users, of whom the first      *)
(* types everything below and the second one number.                       *)
(***************************************************************************)
EXTENDS Contracts

F(name, id) == <<name, id>>
MCRegistry == <<
    <<"Primitive", "bool">>, <<"Primitive", "u8">>, <<"Primitive", "u16">>,
    <<"Primitive", "i8">>, <<"Primitive", "str">>,
    <<"Composite", <<"Foo">>, <<F(<<"a">>, 2), F(<<"b">>, 3)>>>>,
    <<"Composite", <<"Bar">>, <<F(<<>>, 2)>>>>,
    <<"Variant", <<[name |-> <<"Foo">>, fields |-> <<>>],
                   [name |-> <<"Bar">>, fields |-> <<F(<<>>, 2)>>],
                   [name |-> <<"x">>, fields |-> <<F(<<"a">>, 2)>>]>>>>,
    <<"Array", 2, 2>>, <<"Sequence", 3>>, <<"Tuple", <<2, 3>>>>, <<"Sequence", 8>> >>

Entry(name, selector, args) == [name |-> <<name>>, selector |-> <<selector>>, args |-> args]
MCConstructors == << Entry("new", 200, <<3>>), Entry("both", 201, <<2>>) >>
MCMessages == [i \in 1..12 |-> Entry(<<"bool", "u8", "u16", "i8", "str", "foo", "bar", "var", "arr",
                                       "seq", "tup", "vars">>[i], 100 + i, <<i>>)]
              \o << Entry("two", 113, <<2, 4>>), Entry("both", 114, <<2>>) >>

One(name, texts) == {<<name, <<t>>>> : t \in texts}
MCTyped(u1) ==
    [u \in Users |-> IF u # u1 THEN {<<"new", <<<<"5">>>>>>} ELSE
       One("bool", {<<"true">>, <<" ", "false", " ">>, <<"true", "a">>, <<"1">>})
    \cup One("u8", {<<"0">>, <<"2", "5", "5">>, <<"2", "5", "6">>, <<"-", "1">>, <<"\"", "1", "_", "2", "\"">>,
                   <<"1", "_", "2">>, <<"0", "x", "1", "0">>, <<"0", "1">>})
    \cup One("u16", {<<"3", "0", "0">>, <<"9", "9", "9", "9", "9", "9">>})
    \cup One("i8", {<<"-", "1", "2", "8">>, <<"1", "2", "8">>, <<"7">>, <<"\"", "-", "1", "\"">>})
    \cup One("str", {<<"\"", "a", "\\", "n", "\"">>, <<"\"", "\\", "ud800", "\"">>, <<"a">>, <<"5", "g", "x">>})
    \cup One("foo", {<<"Foo", "{", "a", ":", "1", ",", "b", ":", "3", "0", "0", "}">>,
                    <<"{", "\"", "a", "\"", ":", "1", ",", " ", "b", ":", "2", ",", "}">>,
                    <<"{", "b", ":", "1", ",", "a", ":", "2", "}">>,
                    <<"{", "a", ":", "1", ",", "a", ":", "2", ",", "b", ":", "4", "}">>,
                    <<"{", "a", ":", "1", "}">>, <<"Foo", "(", "1", ",", "2", ")">>})
    \cup One("bar", {<<"Bar", "(", "7", ")">>, <<"7">>, <<"(", "7", ",", ")">>})
    \cup One("var", {<<"Foo">>, <<"Bar", "(", "9", ")">>, <<"x", "{", "a", ":", "1", "}">>,
                    <<"x", "(", "1", ")">>, <<"a">>})
    \cup One("arr", {<<"0", "x", "0", "1", "f", "f">>, <<"[", "1", ",", "2", "]">>, <<"[", "1", "]">>,
                    <<"0", "x", "0", "1", "0", "2", "0", "3">>, <<"0", "x", "1">>})
    \cup One("seq", {<<"[", "]">>, <<"[", "1", ",", "3", "0", "0", ",", "]">>, <<"[", "1", " ", "2", "]">>})
    \cup One("tup", {<<"(", "1", ",", "3", "0", "0", ")">>, <<"(", "1", ",", ")">>, <<"(", ")">>})
    \cup One("vars", {<<"[", "Foo", ",", "Bar", "(", "1", ")", "]">>, <<"[", "[", "]", "]">>})
    \cup One("new", {<<"1", "_", "0", "0">>, <<"5">>, <<"7", "0", "0", "0", "0">>})
    \cup {<<"two", <<<<"1">>, <<"-", "2">>>>>>, <<"two", <<<<"1">>>>>>, <<"both", <<<<"1">>>>>>,
         <<"none", <<<<"1">>>>>>}]

CONSTANTS u1, u2, c1
MCT == MCTyped(u1)

\* the first user types what the second never does at the end, with one contract at most, while the second rests
Wide == cmd[u1].typed \notin MCT[u2] \cup {Idle.typed}
MCRests == Wide => cmd[u2] = Idle /\ Len(contracts) <= 1
MCOver == Wide /\ cmd[u1].pc = "ended"
=============================================================================
