--------------------------- MODULE MCWalletStore ---------------------------
(***************************************************************************)
(* A small instance of WalletStore: one shell and one worker of the        *)
(* service, the default wallet and one on a disk, a keystore file of each  *)
(* foreign form, and lines that are written in every way a flag can be.    *)
(***************************************************************************)
EXTENDS WalletStore

CONSTANTS s1, w1
MCShells == {s1}
MCWorkers == {w1}
MCLocations == {"cwd", "disk"}
MCFiles == {"backup", "ed25519.json", "sr25519.json"}
MCRandom == {"first words", "second words"}
MCSpoken == MCRandom \cup {"old words"}
MCLong == {"a password of more than thirty-two bytes"}

\* files of polkadot-js on another chain: the secret of 64 bytes, in its two forms
Old == <<"key", "old words", <<>>>>
Foreign(kind, secret) ==
    [keystore |-> [address |-> <<"addr", kind, Old>>, name |-> <<"name", "bob", "upper">>, crypto |-> kind, genesisHash |-> "polkadot",
                   encoded |-> encode(secret, public([kind |-> kind, key |-> Old]), <<"111111">>)],
     password |-> <<"111111">>]
MCFixtures == "ed25519.json" :> Foreign("ed25519", seed(Old) \o public([kind |-> "ed25519", key |-> Old]))
              @@ "sr25519.json" :> Foreign("sr25519", ToEd25519Bytes(Old))

-----------------------------------------------------------------------------
(* What is meant, [op, given], and the words for it *)

User == <<"name", "user", "upper">>
Bob == <<"name", "bob", "lower">>
OldAddr == <<"addr", "sr25519", Old>>
Empty == [x \in {} |-> x]
MCIntents ==
    {[op |-> "getnewaddress", given |-> [password |-> "pw"]],
     [op |-> "getnewaddress", given |-> [ed25519 |-> TRUE, name |-> Bob]],
     [op |-> "getnewaddress", given |-> [phrase |-> "first words", password |-> "pw"]],
     [op |-> "getnewaddress", given |-> [phrase |-> "no words"]],
     [op |-> "watchaddress", given |-> [address |-> OldAddr]],
     [op |-> "watchaddress", given |-> [address |-> <<"text">>]],
     [op |-> "backup", given |-> [address |-> <<"name", "bob", "upper">>, file |-> "backup", password |-> "pw"]],
     [op |-> "restore", given |-> [file |-> "ed25519.json", password |-> "111111"]],
     [op |-> "restore", given |-> [file |-> "sr25519.json", password |-> "111111"]],
     [op |-> "restore", given |-> [file |-> "backup", password |-> "pw", location |-> "disk"]],
     [op |-> "listaddresses", given |-> [location |-> "disk"]],
     [op |-> "transfer", given |-> [sender |-> User, receiver |-> OldAddr, amount |-> "1"]],
     [op |-> "transfer", given |-> [sender |-> <<"name", "bob", "upper">>, receiver |-> OldAddr, amount |-> "1"]],
     [op |-> "balance", given |-> [total_issuance |-> TRUE]]}
ShortOf(op, f) == CASE f = "address" -> "a" [] f = "amount" -> "a" [] f = "ed25519" -> "e" [] f = "file" -> "f"
                    [] f = "location" -> "l" [] f = "name" -> "n" [] f = "password" -> "p" [] f = "receiver" -> "r"
                    [] f = "sender" -> "s" [] f = "total_issuance" -> "t" [] f = "phrase" -> ""
LongOf(f) == CASE f = "address" -> "addr" [] f = "total_issuance" -> "total-issuance" [] OTHER -> f
Words(op, f, v, style) ==
    LET short == style \in {"short", "attached"} /\ f # "phrase"
    IN CASE f \in {"ed25519", "total_issuance"} -> IF short THEN <<<<"-", ShortOf(op, f)>>>> ELSE <<<<"--", LongOf(f)>>>>
         [] OTHER -> CASE short /\ style = "short" -> <<<<"-", ShortOf(op, f)>>, <<"Plain", v>>>>
                       [] short /\ style = "attached" -> <<<<"-", ShortOf(op, f), v>>>>
                       [] ~short /\ style = "equals" -> <<<<"--", LongOf(f), "=", v>>>>
                       [] OTHER -> <<<<"--", LongOf(f)>>, <<"Plain", v>>>>
Rendered(intent, style) ==
    LET fields == SetToSeq(DOMAIN intent.given)
    IN <<<<"Plain", "operation">>, <<"Plain", intent.op>>>>
       \o FlattenSeq([i \in DOMAIN fields |-> Words(intent.op, fields[i], intent.given[fields[i]], style)])
Styles == {"short", "attached", "long", "equals"}
Written == {[line |-> Rendered(i, s), intent |-> i] : i \in MCIntents, s \in Styles}
\* what makes no operation
Unwritten == {<<<<"Plain", "operation">>>>,
              <<<<"Plain", "operation">>, <<"--", "version">>>>,
              <<<<"Plain", "operation">>, <<"-", "h">>, <<"Plain", "backup">>>>,
              <<<<"Plain", "operation">>, <<"Plain", "backup">>, <<"--">>, <<"-", "f">>>>,
              <<<<"Plain", "operation">>, <<"Plain", "restore">>, <<"-", "f">>>>}
MCLines == {w.line : w \in Written} \cup Unwritten
MCRequests == {[op |-> "getnewaddress", label |-> "ecdsa", password |-> NotGiven, name |-> <<Bob>>, location |-> NotGiven, phrase |-> NotGiven],
               [op |-> "getnewaddress", label |-> "sr25519", password |-> <<"pw">>, name |-> NotGiven, location |-> NotGiven, phrase |-> NotGiven]}

\* What runs is what was written, in whatever order and form the flags were given: every flag gives its
\* own field and the fields that are not given stay empty (parse, ArgIter).
RunsAsWritten == \A p \in Shells : argv[p] # <<>> =>
    LET given == (CHOOSE w \in Written : w.line = argv[p]).intent.given
        op == (CHOOSE w \in Written : w.line = argv[p]).intent.op
    IN /\ cmd[p].op = op
       /\ \A f \in DOMAIN cmd[p] \ {"op", "label", "id"} : cmd[p][f] = IF f \in DOMAIN given THEN <<given[f]>> ELSE <<>>
       /\ DOMAIN given \ {"ed25519", "total_issuance"} \subseteq DOMAIN cmd[p]
       /\ op = "getnewaddress" => cmd[p].label = IF "ed25519" \in DOMAIN given THEN "ed25519" ELSE "sr25519"
       /\ op = "balance" => cmd[p].id = <<"total-issuance">>
=============================================================================
