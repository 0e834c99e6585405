-------------------------------- MODULE Args --------------------------------
(***************************************************************************)
(* The command line of the wallet: an iterator over its arguments and a    *)
(* parser per command (cli/src/operation.rs).                              *)
(*                                                                         *)
(* A word of the command line is the sequence of its parts: a plain one    *)
(* <<"Plain", v>>, flags <<"-", c>> and <<"--", w>>, with an argument      *)
(* attached <<"-", c, v>> and <<"--", w, "=", v>>, and the separator       *)
(* <<"--">>.                                                               *)
(***************************************************************************)
EXTENDS Naturals, SequencesExt, Functions

\* ArgIter
Iter(words) == [args |-> words, is_raw |-> FALSE, leftover |-> <<>>]
Raw(it) ==
    IF it.args = <<>> THEN <<<<>>, it>>
    ELSE LET w == Head(it.args) IN <<IF w[1] = "Plain" THEN w ELSE <<"Plain", w>>, [it EXCEPT !.args = Tail(it.args)]>>
\* what a word gives, and the iterator after it
ByWord(w, rest) ==
    CASE w = <<"--">> -> Raw([rest EXCEPT !.is_raw = TRUE])
      [] w[1] = "--" /\ Len(w) > 1 ->
           <<<<"Long", w[2]>>, IF Len(w) = 4 THEN [rest EXCEPT !.leftover = <<w[4]>>] ELSE rest>>
      [] w[1] = "-" -> <<<<"Short", w[2]>>, IF Len(w) = 3 THEN [rest EXCEPT !.leftover = <<w[3]>>] ELSE rest>>
      [] OTHER -> <<w, rest>>
\* <<what is next, the iterator after it>>; nothing is next at the end
Next(it) ==
    CASE it.leftover # <<>> -> <<<<"Plain", it.leftover[1]>>, [it EXCEPT !.leftover = <<>>]>>
      [] it.leftover = <<>> /\ (it.is_raw \/ it.args = <<>>) -> Raw(it)
      [] OTHER -> ByWord(Head(it.args), [it EXCEPT !.args = Tail(it.args)])

Unexpected(arg) == <<"error", arg>>
expect_plain(it) ==
    LET n == Next(it)
    IN IF n[1] # <<>> /\ n[1][1] = "Plain" THEN <<"ok", <<n[1][2]>>, n[2]>>
       ELSE IF n[1] = <<>> THEN <<"error", <<"expected">>>> ELSE Unexpected(n[1])
\* nothing may follow
drain(it, cmd) == LET n == Next(it) IN IF n[1] = <<>> THEN cmd ELSE Unexpected(n[1])
Help(name) == <<"Help", name>>

-----------------------------------------------------------------------------
(* The flags of a command: short, long, the field, and whether a value       *)
(* follows.  A flag given twice is overwritten.                              *)

Flag(short, long, field, takes) == [forms |-> {<<"Short", short>>, <<"Long", long>>}, field |-> field, takes |-> takes]
LocationFlag == Flag("l", "location", "location", TRUE)
PasswordFlag == Flag("p", "password", "password", TRUE)
NameFlag == Flag("n", "name", "name", TRUE)
FileFlag == Flag("f", "file", "file", TRUE)
AddrFlag == Flag("a", "addr", "address", TRUE)
parse_balance == {Flag("t", "total-issuance", "total_issuance", FALSE), Flag("f", "free-balance", "accountid", TRUE)}
parse_list_wallet == {LocationFlag}
parse_watchonly == {AddrFlag, LocationFlag, NameFlag}
\* mutant: -f and -p are taken for each other
parse_restoreSwapped == {Flag("f", "file", "password", TRUE), LocationFlag, Flag("p", "password", "file", TRUE)}
parse_restore == {FileFlag, LocationFlag, PasswordFlag}
parse_backup == {FileFlag, LocationFlag, AddrFlag, PasswordFlag}
parse_get_wallet == {Flag("e", "ed25519", "ed25519", FALSE), Flag("k", "ecdsa", "ecdsa", FALSE),
                     Flag("s", "sr25519", "sr25519", FALSE), PasswordFlag, NameFlag, LocationFlag,
                     [forms |-> {<<"Long", "phrase">>}, field |-> "phrase", takes |-> TRUE]}
parse_transaction == {Flag("s", "sender", "sender", TRUE), Flag("r", "receiver", "receiver", TRUE),
                      Flag("a", "amount", "amount", TRUE), LocationFlag}
Flags == [balance |-> parse_balance, listaddresses |-> parse_list_wallet, watchaddress |-> parse_watchonly,
          restore |-> parse_restore, backup |-> parse_backup, getnewaddress |-> parse_get_wallet,
          transfer |-> parse_transaction]

Fields(cmd) == {f.field : f \in Flags[cmd]}
NotGiven == <<>>
\* one turn of the loop over the arguments, from and to <<"more", iterator, fields>> or an end
ParseFlag(cmd, s) ==
    LET n == Next(s[2])
        arg == n[1]
        fitting == {f \in Flags[cmd] : arg \in f.forms}
        f == CHOOSE f \in fitting : TRUE
        v == expect_plain(n[2])
    IN CASE s[1] # "more" -> s
         [] s[1] = "more" /\ arg = <<>> -> <<"ok", s[3]>>
         [] s[1] = "more" /\ arg \in {<<"Short", "h">>, <<"Long", "help">>} -> drain(n[2], Help(cmd))
         [] s[1] = "more" /\ fitting # {} ->
              IF ~f.takes THEN <<"more", n[2], [s[3] EXCEPT ![f.field] = <<TRUE>>]>>
              ELSE IF v[1] = "ok" THEN <<"more", v[3], [s[3] EXCEPT ![f.field] = v[2]]>> ELSE v
         [] OTHER -> Unexpected(arg)
parse_flags(cmd, it) ==
    LET turns[i \in 0..(Len(it.args) + 1)] ==
            IF i = 0 THEN <<"more", it, [f \in Fields(cmd) |-> NotGiven]>> ELSE ParseFlag(cmd, turns[i - 1])
    IN turns[Len(it.args) + 1]

-----------------------------------------------------------------------------
(* What is made of the flags *)

\* the cryptography of a new address, by the first flag that is set
labelOf(fields) == CASE fields["ed25519"] # NotGiven -> "ed25519"
                   [] fields["ed25519"] = NotGiven /\ fields["ecdsa"] # NotGiven -> "ed25519"
                   [] OTHER -> "sr25519"
\* fields of a transfer that are not given are empty
command(cmd, fields) ==
    CASE cmd = "balance" ->
           [op |-> "balance", id |-> IF fields["total_issuance"] # NotGiven THEN <<"total-issuance">> ELSE fields["accountid"]]
      [] cmd = "getnewaddress" ->
           [op |-> cmd, label |-> labelOf(fields)] @@ [f \in {"password", "name", "location", "phrase"} |-> fields[f]]
      [] OTHER -> [op |-> cmd] @@ fields
\* the executable's name is skipped
parse(argv) ==
    LET n == Next(Next(Iter(argv))[2])
        arg == n[1]
    IN CASE arg = <<>> -> <<"error", <<"No command">>>>
         [] arg # <<>> /\ arg[1] = "Plain" /\ arg[2] \in DOMAIN Flags ->
              LET cmd == arg[2]
                  p == parse_flags(cmd, n[2])
              IN IF p[1] = "ok" THEN <<"ok", command(cmd, p[2])>> ELSE p
         [] arg = <<"Long", "version">> -> drain(n[2], <<"Version">>)
         [] arg \in {<<"Short", "h">>, <<"Long", "help">>} ->
              LET of == Next(n[2])
              IN CASE of[1] = <<>> -> Help("operation")
                   [] of[1] # <<>> /\ of[1][1] = "Plain" -> drain(of[2], Help(of[1][2]))
                   [] OTHER -> Unexpected(of[1])
         [] OTHER -> Unexpected(arg)
=============================================================================
