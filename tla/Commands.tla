------------------------------- MODULE Commands -------------------------------
(***************************************************************************)
(* Deploying, instantiating and calling contracts (contract/deploy.rs,     *)
(* instantiate.rs, call.rs over subxt's frame/contracts.rs).               *)
(*                                                                         *)
(* Each user runs one command at a time: the arguments are encoded, a      *)
(* client is built, the extrinsic is submitted and watched.  A watch ends  *)
(* with the events of the extrinsic or with an error, which may also come  *)
(* after the extrinsic was applied.  The chain and the contract on it are  *)
(* external: a contract runs the constructor or message its data selects   *)
(* and reads the arguments by their types; a constructor may instantiate a *)
(* contract of its own, whose event precedes its own.  How a line is       *)
(* encoded and what a contract does with the data are constants here;      *)
(* Contracts gives them their definitions.                                 *)
(***************************************************************************)
EXTENDS Naturals, FiniteSets, SequencesExt

CONSTANTS Users, Codes,   \* code hashes
          Typed,          \* the <<name, texts>> each user may type
          MaxContracts,
          Encoded,          \* each typed line as it is encoded: <<"ok", data>> or a failure
          ConstructorRuns,  \* what a contract does with data as its constructor: {} if it traps,
          MessageRuns       \* else the entry it runs and its arguments; and as its message

\* a contract that does not trap runs something; addresses are numbers
ASSUME CommandsAssumption ==
    /\ MaxContracts \in Nat
    /\ \A u \in Users : \A t \in Typed[u] : Encoded[t][1] = "ok" =>
           <<>> \notin ConstructorRuns[Encoded[t][2]] \cup MessageRuns[Encoded[t][2]]

VARIABLES stored,     \* code hashes on the chain
          contracts,  \* contracts on the chain, in the order of their addresses
          cmd         \* the command each user runs or ran last

cvars == <<stored, contracts, cmd>>

Idle == [pc |-> "idle", kind |-> "none", target |-> 0, typed |-> <<"", <<>>>>, data |-> <<>>,
         ran |-> <<>>, events |-> <<>>, answer |-> 0]
Failed == 0   \* the answer of a command that failed

CInit == /\ stored = {}
         /\ contracts = <<>>
         /\ cmd = [u \in Users |-> Idle]

Step(u, r) == cmd' = [cmd EXCEPT ![u] = r]
Ended(r, a) == [r EXCEPT !.pc = "ended", !.answer = a]

\* ContractDeploy::exec: reads the file, then submits; a file that cannot be read ends it
exec(u, c) ==
    /\ cmd[u].pc \in {"idle", "ended"}
    /\ \/ Step(u, [Idle EXCEPT !.pc = "built", !.kind = "put_code", !.target = c])
       \/ Step(u, Ended([Idle EXCEPT !.kind = "put_code", !.target = c], Failed))
    /\ UNCHANGED <<stored, contracts>>

\* Instantiate::instantiate and ContarctCall::run: the data is encoded before a client is built
start(u, kind, target, typed) ==
    LET r == [Idle EXCEPT !.kind = kind, !.target = target, !.typed = typed]
    IN /\ cmd[u].pc \in {"idle", "ended"}
       /\ \/ \E data \in {Encoded[typed]} : data[1] = "ok" /\ Step(u, [r EXCEPT !.pc = "built", !.data = data[2]])
          \/ Step(u, Ended(r, Failed))   \* nor can the metadata be read every time
       /\ UNCHANGED <<stored, contracts>>
instantiate(u, c, typed) == start(u, "instantiate", c, typed)
call(u, a, typed) == a \in DOMAIN contracts /\ start(u, "call", a, typed)

Executed(u, ran, events) ==
    Step(u, [cmd[u] EXCEPT !.pc = "applied", !.ran = ran, !.events = events])
\* PutCodeCall
put_code(u) ==
    /\ cmd[u].pc = "built" /\ cmd[u].kind = "put_code"
    /\ stored' = stored \cup {cmd[u].target}
    /\ Executed(u, <<>>, <<<<"CodeStored", cmd[u].target>>>>)
    /\ UNCHANGED contracts
\* mutant: code is instantiated whether or not it was stored
instantiate_callAnyCode(u, inner) ==
    LET new == Len(contracts) + 1
    IN /\ cmd[u].pc = "built" /\ cmd[u].kind = "instantiate" /\ new <= MaxContracts
       /\ \E r \in ConstructorRuns[cmd[u].data] :
              /\ contracts' = Append(contracts, [code |-> cmd[u].target, by |-> u])
              /\ Executed(u, r, <<<<"Instantiated", new>>>>)
       /\ UNCHANGED stored
\* InstantiateCall, with an inner contract or not
instantiate_call(u, inner) ==
    LET new == Len(contracts) + 1
        mine == [code |-> cmd[u].target, by |-> u]
    IN /\ cmd[u].pc = "built" /\ cmd[u].kind = "instantiate"
       /\ \E runs \in {ConstructorRuns[cmd[u].data]} :
          IF cmd[u].target \notin stored \/ runs = {}
          THEN Executed(u, <<>>, <<>>) /\ UNCHANGED contracts
          ELSE /\ new + Cardinality(inner) <= MaxContracts
               /\ contracts' = (contracts \o <<mine>>)
                                \o [i \in 1..Cardinality(inner) |-> [code |-> CHOOSE c \in inner : TRUE, by |-> new]]
               /\ Executed(u, CHOOSE r \in runs : TRUE,
                          [i \in 1..Cardinality(inner) |-> <<"Instantiated", new + 1>>]
                          \o <<<<"Instantiated", new>>>>)
       /\ UNCHANGED stored
\* CallCall
call_call(u) ==
    /\ cmd[u].pc = "built" /\ cmd[u].kind = "call"
    /\ \E runs \in {MessageRuns[cmd[u].data]} :
           Executed(u, IF runs = {} THEN <<>> ELSE CHOOSE r \in runs : TRUE, <<>>)
    /\ UNCHANGED <<stored, contracts>>

\* find_event: the first event of the wanted kind; a call wants none, but not a failed extrinsic
Wanted(kind) == CASE kind = "put_code" -> "CodeStored" [] kind = "instantiate" -> "Instantiated"
                  [] OTHER -> "none"
\* mutant: the newest contract of the chain is answered
find_eventNewest(r) == IF r.kind = "instantiate" THEN Len(contracts) ELSE r.target
\* mutant: a call that trapped is answered like one that ran
find_eventNoFailure(r) ==
    LET found == {i \in DOMAIN r.events : r.events[i][1] = Wanted(r.kind)}
    IN IF r.kind = "call" THEN r.target ELSE IF found = {} THEN Failed ELSE r.events[Min(found)][2]
find_event(r) ==
    LET found == {i \in DOMAIN r.events : r.events[i][1] = Wanted(r.kind)}
    IN CASE r.kind = "call" -> IF r.ran = <<>> THEN Failed ELSE r.target
         [] r.kind # "call" /\ found = {} -> Failed
         [] OTHER -> r.events[Min(found)][2]
watched(u) ==
    /\ cmd[u].pc = "applied"
    /\ Step(u, Ended(cmd[u], find_event(cmd[u])))
    /\ UNCHANGED <<stored, contracts>>
\* no client, a refused extrinsic, or a watch that fails after the extrinsic was applied
fails(u) ==
    /\ cmd[u].pc \in {"built", "applied"}
    /\ Step(u, Ended(cmd[u], Failed))
    /\ UNCHANGED <<stored, contracts>>

CNext == \E u \in Users :
    \/ \E c \in Codes : exec(u, c)
    \/ \E c \in Codes, t \in Typed[u] : instantiate(u, c, t)
    \/ \E a \in 1..MaxContracts, t \in Typed[u] : call(u, a, t)
    \/ put_code(u)
    \/ \E inner \in {{}} \cup {{c} : c \in stored} : instantiate_call(u, inner)
    \/ call_call(u)
    \/ watched(u)
    \/ fails(u)

CSpec == CInit /\ [][CNext]_cvars

-----------------------------------------------------------------------------
(* Properties *)

CTypeOK ==
    /\ stored \subseteq Codes
    /\ \A a \in DOMAIN contracts : contracts[a].code \in stored
    /\ \A u \in Users : /\ cmd[u].pc \in {"idle", "built", "applied", "ended"}
                        /\ cmd[u].answer \in Codes \cup 0..MaxContracts

(* The contract an instantiation is answered is the user's own, of the code *)
(* that was asked for, unless its constructor instantiated another first    *)
(* (instantiate.rs takes the first Instantiated event, rpc.rs find_event).  *)
AnswersOwnContract ==
    \A u \in Users :
        /\ cmd[u].pc = "ended" /\ cmd[u].kind = "instantiate" /\ cmd[u].answer # Failed
        /\ Len(cmd[u].events) = 1
        => contracts[cmd[u].answer] = [code |-> cmd[u].target, by |-> u]

(* A command that is answered a success ran: its code is stored, or the     *)
(* contract took the named entry with its data.  The converse fails: a      *)
(* watch may fail after the extrinsic was applied.                          *)
AnsweredWasApplied ==
    \A u \in Users :
        /\ cmd[u].pc = "ended" /\ cmd[u].answer # Failed
        => IF cmd[u].kind = "put_code" THEN cmd[u].answer = cmd[u].target /\ cmd[u].target \in stored
           ELSE cmd[u].ran # <<>> /\ cmd[u].answer \in DOMAIN contracts

(* What the commands answer is so: the types, whose contract is answered,  *)
(* and that what is answered a success was applied (instantiate.rs, call.rs). *)
AnswersAreRight == CTypeOK /\ AnswersOwnContract /\ AnsweredWasApplied

-----------------------------------------------------------------------------
(* Why the answers are right: what an extrinsic that was applied has shown  *)
(* stays true of the chain until its watch ends, and after it.              *)

Lines == {t \in UNION {Typed[u] : u \in Users} : Encoded[t][1] = "ok"}
Answer == Codes \cup 0..MaxContracts
Ran == {<<>>} \cup UNION {ConstructorRuns[Encoded[t][2]] \cup MessageRuns[Encoded[t][2]] : t \in Lines}
EventList == Seq({"CodeStored", "Instantiated"} \X Answer)
Command == [pc : {"idle", "built", "applied", "ended"},
            kind : {"none", "put_code", "instantiate", "call"}, target : Answer,
            typed : {Idle.typed} \cup UNION {Typed[u] : u \in Users},
            data : {<<>>} \cup {Encoded[t][2] : t \in Lines},
            ran : Ran, events : EventList, answer : Answer]
CTyped == /\ stored \subseteq Codes
          /\ contracts \in Seq([code : stored, by : Users \cup 1..MaxContracts])
          /\ Len(contracts) <= MaxContracts
          /\ cmd \in [Users -> Command]

\* what is asked for exists, and what is to be sent is a line that was encoded
Asked(r) ==
    /\ r.kind = "none" => r.pc = "idle"
    /\ r.kind \in {"put_code", "instantiate"} => r.target \in Codes
    /\ r.kind = "call" => r.target \in DOMAIN contracts
    /\ r.pc = "built" => r.ran = <<>> /\ r.events = <<>>
    /\ r.pc = "built" /\ r.kind # "put_code" => r.typed \in Lines /\ r.data = Encoded[r.typed][2]

\* what the events of user u's extrinsic show of the chain
Shown(u, r) ==
    /\ r.kind = "put_code" => r.events = <<<<"CodeStored", r.target>>>> /\ r.target \in stored
    /\ r.kind = "instantiate" =>
           /\ r.ran = <<>> <=> r.events = <<>>
           /\ \A i \in DOMAIN r.events : r.events[i][1] = "Instantiated" /\ r.events[i][2] \in DOMAIN contracts
           /\ Len(r.events) = 1 => contracts[r.events[1][2]] = [code |-> r.target, by |-> u]

CIInv ==
    /\ CTyped
    /\ \A u \in Users :
          /\ Asked(cmd[u])
          /\ cmd[u].pc = "applied" => Shown(u, cmd[u])
          /\ cmd[u].pc = "ended" /\ cmd[u].answer # Failed =>
                 Shown(u, cmd[u]) /\ cmd[u].answer = find_event(cmd[u])
=============================================================================
