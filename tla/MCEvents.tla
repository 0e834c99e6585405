------------------------------ MODULE MCEvents ------------------------------
(***************************************************************************)
(* A runtime of four pallets, and nodes that answer something else: an     *)
(* older version, a nested tuple, a store of another kind.  Blocks hold up *)
(* to two of thirteen records.                                                *)
(***************************************************************************)
EXTENDS Events

W(word) == <<word>>
Ev(name, args) == [name |-> name, args |-> args]
Store(name, ty) == [name |-> name, ty |-> ty]
MCSystem(accountTy) ==
    [index |-> 0, name |-> "System", prefix |-> "System", storage |-> <<Store("Account", accountTy)>>,
     calls |-> {<<"fill_block", "set_code", "set_code_without_checks">>},
     events |-> {<<Ev("ExtrinsicSuccess", <<W("DispatchInfo")>>),
                   Ev("ExtrinsicFailed", <<W("DispatchError"), W("DispatchInfo")>>),
                   Ev("Odd", <<W("u8")>>)>>},
     errors |-> <<"InvalidSpecName">>]
MCBalances(manyArg) ==
    [index |-> 2, name |-> "Balances", prefix |-> "Balances", storage |-> <<Store("TotalIssuance", <<"Plain">>)>>,
     calls |-> {<<"transfer", "set_balance">>},
     events |-> {<<Ev("Transfer", <<W("AccountId"), W("AccountId"), W("Balance")>>),
                   Ev("Many", <<manyArg, <<"Option<", "Hash", ">">>>>),
                   Ev("Maybe", <<W("AccountId"), W("AccountId"), <<"Option<", "EraIndex", ">">>>>)>>},
     errors |-> <<"VestingBalance", "InsufficientBalance">>]
MCSudo == [index |-> 3, name |-> "Sudo", prefix |-> "Sudo", storage |-> <<>>, calls |-> {<<"sudo">>},
           events |-> {<<Ev("Sudid", <<W("DispatchResult")>>), Ev("KeyChanged", <<W("Missing")>>)>>},
           errors |-> <<>>]
MCStaking == [index |-> 5, name |-> "Staking", prefix |-> "OldStaking",
              storage |-> <<Store("Bonded", <<"Map", "Twox64Concat">>), Store("Payee", <<"Map", "Blake2_256">>),
                            Store("CurrentEra", <<"Plain">>), Store("HistoryDepth", <<"Map", "Identity">>),
                            Store("ErasStakers", <<"DoubleMap", "Twox64Concat", "Blake2_128Concat">>)>>,
              calls |-> {}, events |-> {}, errors |-> <<"NotController">>]
Pair == <<"Vec<", "(", "AccountId", ",", "Balance", ")", ">">>
Nested == <<"Vec<", "(", "AccountId", ",", "(", "Balance", ",", "u8", ")", ")", ">">>
Node(version, ms) == [reserved |-> TRUE, version |-> version, modules |-> ms]
MCRaws == {Node(12, <<MCSystem(<<"Map", "Blake2_128Concat">>), MCBalances(Pair), MCSudo, MCStaking>>),
           Node(11, <<>>), [Node(12, <<>>) EXCEPT !.reserved = FALSE],
           Node(12, <<MCSystem(<<"Plain">>), MCBalances(Nested)>>)}

Rec(phase, m, e, args, topics) == [phase |-> phase, module |-> m, event |-> e, args |-> args, topics |-> topics]
MCRecords == {
    Rec(<<0, 0>>, 0, 0, <<<<7, 0>>>>, 0), Rec(<<0, 1>>, 0, 1, <<<<3, 2, 1>>, <<1, 0>>>>, 0),
    Rec(<<0, 1>>, 0, 1, <<<<2>>, <<0, 0>>>>, 0), Rec(<<1>>, 2, 0, <<<<1, 1>>, <<2, 2>>, <<5>>>>, 1),
    Rec(<<0, 1>>, 2, 1, <<<<<<<<1, 1>>, <<6>>>>, <<<<2, 2>>, <<8>>>>>>, <<<<4>>>>>>, 0),
    Rec(<<0, 1>>, 2, 1, <<<<>>, <<>>>>, 0), Rec(<<0, 1>>, 3, 0, <<<<0>>>>, 0),
    Rec(<<0, 1>>, 3, 0, <<<<1, 3, 2, 0>>>>, 0), Rec(<<0, 1>>, 3, 1, <<<<5>>>>, 0),
    Rec(<<2>>, 0, 0, <<<<7, 0>>>>, 0), Rec(<<0, 1>>, 0, 2, <<<<5, 5>>>>, 0),
    Rec(<<0, 1>>, 3, 0, <<<<1, 3, 5, 4>>>>, 0), Rec(<<0, 1>>, 2, 2, <<<<8, 8>>, <<2, 2>>, <<<<3>>>>>>, 0) }
MCBlocks == {<<r>> : r \in MCRecords} \cup {<<r, q>> : r, q \in MCRecords}
Words == {"DispatchInfo", "u8", "Hash", "AccountId", "Balance", "Index", "BlockNumber", "AccountData",
          "ValidatorId", "Keys"}
MCSizeOf == [w \in Words |-> IF w \in {"AccountId", "DispatchInfo"} THEN 2 ELSE 1]
MCDefault == {"DispatchInfo", "u8", "Hash", "AccountId"}
MCKeyArgs == {<<"a">>, <<"a", "b">>}
MCOwnStores == {<<"Staking", "ErasStakers", 2>>}

\* what was asked and what is decoded are apart
MCApart == asked = {} \/ block = <<>>
=============================================================================
