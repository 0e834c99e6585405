------------------------------ MODULE Metadata ------------------------------
(***************************************************************************)
(* What a client knows of the runtime of its node (subxt/src/metadata.rs), *)
(* the pallets it has definitions for (subxt/src/frame), and the storage   *)
(* keys and call bytes it derives from both (proc-macro store.rs, call.rs).*)
(*                                                                         *)
(* A text is a sequence of lexemes: "Vec<", "Option<", "(", ")", ">", ","  *)
(* or a word.  A part of a module that may be missing is a set of at most  *)
(* one.  The bytes of an encoded key are strings; a hash is a token that   *)
(* holds what was hashed.                                                  *)
(***************************************************************************)
EXTENDS Integers, Sequences, FiniteSets, SequencesExt

CONSTANT ByteSpan   \* how many indexes a byte tells apart: 256
ASSUME ByteSpanAssumption == ByteSpan \in Nat \ {0}

Found(x) == <<"ok", x>>
Failure(kind) == <<"error", kind>>
Then(p, F(_)) == IF p[1] = "ok" THEN F(p[2]) ELSE p
Get(f, k, kind) == IF k \in DOMAIN f THEN Found(f[k]) ELSE Failure(kind)
\* the first that fails
AllFound(ps) == LET bad == {i \in DOMAIN ps : ps[i][1] # "ok"}
                IN IF bad # {} THEN ps[Min(bad)] ELSE Found([i \in DOMAIN ps |-> ps[i][2]])
\* a HashMap filled from pairs in their order
Table(pairs) ==
    [k \in {pairs[i][1] : i \in DOMAIN pairs} |->
        pairs[CHOOSE i \in DOMAIN pairs : /\ pairs[i][1] = k
                                          /\ \A j \in DOMAIN pairs : pairs[j][1] = k => j <= i][2]]
\* mutant: indexes start at one
AsByteFromOne(i) == i % ByteSpan
AsByte(i) == (i - 1) % ByteSpan   \* index as u8

-----------------------------------------------------------------------------
(* Types of event arguments *)

Split(s) == FoldLeft(LAMBDA acc, c : IF c = "," THEN Append(acc, <<>>)
                                     ELSE [acc EXCEPT ![Len(acc)] = Append(@, c)], <<<<>>>>, s)
from_str[s \in Seq(STRING)] ==
    LET inner == SubSeq(s, 2, Len(s) - 1)
        closes(c) == Last(s) = c
    IN CASE s # <<>> /\ s[1] = "Vec<" ->
              IF closes(">") THEN Then(from_str[inner], LAMBDA a : Found(<<"Vec", a>>))
              ELSE Failure("InvalidEventArg")
         [] s # <<>> /\ s[1] = "Option<" ->
              IF closes(">") THEN Then(from_str[inner], LAMBDA a : Found(<<"Option", a>>))
              ELSE Failure("InvalidEventArg")
         [] s # <<>> /\ s[1] = "(" ->   \* every comma splits, those of an inner tuple too
              IF closes(")")
              THEN Then(AllFound([i \in DOMAIN Split(inner) |-> from_str[Split(inner)[i]]]),
                        LAMBDA as : Found(<<"Tuple", as>>))
              ELSE Failure("InvalidEventArg")
         [] OTHER -> Found(<<"Primitive", s>>)

-----------------------------------------------------------------------------
(* Metadata::try_from and the lookups *)

convert_event(e) ==
    Then(AllFound([i \in DOMAIN e.args |-> from_str[e.args[i]]]),
         LAMBDA as : Found([name |-> e.name, arguments |-> as]))
Indexed(s) == [i \in DOMAIN s |-> <<AsByte(i), s[i]>>]
The(S) == CHOOSE x \in S : TRUE
Having(ms, Part(_)) == [i \in {i \in DOMAIN ms : Part(ms[i]) # {}} |-> ms[i]]
NamedTable(ms, F(_)) == Table([i \in DOMAIN ms |-> <<ms[i].name, F(ms[i])>>])
storage_map(m) ==
    NamedTable(m.storage, LAMBDA e : [module |-> m.prefix, name |-> e.name, ty |-> e.ty])
call_map(calls) == Table([i \in DOMAIN calls |-> <<calls[i], AsByte(i)>>])
event_args(m) == LET es == The(m.events) IN AllFound([i \in DOMAIN es |-> convert_event(es[i])])

modules(ms) == NamedTable(ms, LAMBDA m : [index |-> m.index, storage |-> storage_map(m)])
modules_with_calls(ms) ==
    NamedTable(Having(ms, LAMBDA m : m.calls), LAMBDA m : [index |-> m.index, calls |-> call_map(The(m.calls))])
modules_with_events(ms) ==
    NamedTable(Having(ms, LAMBDA m : m.events),
          LAMBDA m : [index |-> m.index, name |-> m.name, events |-> Table(Indexed(event_args(m)[2]))])
modules_with_errors(ms) ==
    NamedTable(ms, LAMBDA m : [index |-> m.index, name |-> m.name, errors |-> Table(Indexed(m.errors))])
try_from(raw) ==
    LET ms == raw.modules
        telling == Having(ms, LAMBDA m : m.events)
    IN CASE ~raw.reserved -> Failure("InvalidPrefix")
         [] raw.reserved /\ raw.version # 12 -> Failure("InvalidVersion")
         [] OTHER -> Then(AllFound([i \in DOMAIN telling |-> event_args(telling[i])]), LAMBDA ok :
              Found([modules |-> modules(ms), calls |-> modules_with_calls(ms),
                     events |-> modules_with_events(ms), errors |-> modules_with_errors(ms)]))

module(md, name) == Get(md.modules, name, "ModuleNotFound")
module_with_calls(md, name) == Get(md.calls, name, "ModuleNotFound")
ByIndex(table, index) ==
    LET names == {n \in DOMAIN table : table[n].index = index}
    IN IF names = {} THEN Failure("ModuleIndexNotFound") ELSE Found(table[The(names)])
module_with_events(md, index) == ByIndex(md.events, index)
module_with_errors(md, index) == ByIndex(md.errors, index)
storage_of(m, key) == Get(m.storage, key, "StorageNotFound")
event(m, index) == Get(m.events, index, "EventNotFound")
error(m, index) == Get(m.errors, index, "ErrorNotFound")
\* ModuleWithCalls::call: the bytes before the parameters
call_of(m, function) == Then(Get(m.calls, function, "CallNotFound"), LAMBDA i : Found(<<m.index, i>>))
call_bytes(md, name, function) == Then(module_with_calls(md, name), LAMBDA m : call_of(m, function))

-----------------------------------------------------------------------------
(* Storage keys *)

hash_key(hasher, bytes) ==
    CASE hasher = "Identity" -> bytes
      [] hasher \in {"Blake2_128Concat", "Twox64Concat"} -> <<<<hasher, bytes>>>> \o bytes
      [] OTHER -> <<<<hasher, bytes>>>>
\* mutant: the name of the entry is left out of its prefix
prefixOfModule(entry) == hash_key("Twox128", <<entry.module>>)
prefix(entry) == hash_key("Twox128", <<entry.module>>) \o hash_key("Twox128", <<entry.name>>)
\* StorageMetadata::plain, map and double_map, and the key of what they answer
entry_key(entry, keys) ==
    LET hashers == Tail(entry.ty)
    IN CASE Len(hashers) # Len(keys) -> Failure("StorageTypeError")
         [] Len(hashers) = Len(keys) /\ Len(keys) = 0 -> Found(prefix(entry))
         [] Len(hashers) = Len(keys) /\ Len(keys) = 1 -> Found(prefix(entry) \o hash_key(hashers[1], keys[1]))
         [] OTHER -> Found(prefix(entry) \o hash_key(hashers[1], keys[1]) \o hash_key(hashers[2], keys[2]))
entry_of(md, name, field) == Then(module(md, name), LAMBDA m : storage_of(m, field))
\* Store::prefix and Store::key as the macro derives them
store_prefix(md, name, field) == Then(entry_of(md, name, field), LAMBDA e : Found(prefix(e)))
store_key(md, name, field, keys) == Then(entry_of(md, name, field), LAMBDA e : entry_key(e, keys))

-----------------------------------------------------------------------------
(* The pallets the client has definitions for: the traits each extends, the  *)
(* types it registers, its stores with their number of keys, its calls.      *)

System == [supers |-> {}, types |-> {"Index", "BlockNumber", "Hash", "AccountId", "AccountData"},
           stores |-> {<<"Account", 1>>}, calls |-> {"set_code", "set_code_without_checks"}]
Balances == [supers |-> {"System"}, types |-> {"Balance"},
             stores |-> {<<"TotalIssuance", 0>>}, calls |-> {"transfer"}]
Staking == [supers |-> {"Balances"}, types |-> {},
            stores |-> {<<"ErasRewardPoints", 1>>, <<"HistoryDepth", 0>>, <<"Bonded", 1>>, <<"Ledger", 1>>,
                        <<"Payee", 1>>, <<"Validators", 1>>, <<"Nominators", 1>>, <<"CurrentEra", 0>>},
            calls |-> {"set_payee", "chill", "validate", "nominate"}]
Session == [supers |-> {"System"}, types |-> {"ValidatorId", "Keys"},
            stores |-> {<<"Validators", 0>>}, calls |-> {"set_keys"}]
Sudo == [supers |-> {"System"}, types |-> {}, stores |-> {}, calls |-> {"sudo", "sudo_unchecked_weight"}]
ContractsPallet == [supers |-> {"System", "Balances"}, types |-> {}, stores |-> {},
                    calls |-> {"put_code", "instantiate", "call"}]
Pallets == [System |-> System, Balances |-> Balances, Staking |-> Staking, Session |-> Session,
            Sudo |-> Sudo, Contracts |-> ContractsPallet]
=============================================================================
