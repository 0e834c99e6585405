------------------------------- MODULE Subxt --------------------------------
(***************************************************************************)
(* A client of a node is built, and its tasks sign extrinsics, submit them *)
(* and watch them into a block and its events (subxt/src/lib.rs, rpc.rs,   *)
(* subscription.rs, extrinsic/).                                           *)
(*                                                                         *)
(* The node is external: a tree of blocks, the best of them, a pool, and   *)
(* for each task the two queues its subscriptions are answered on.  A call *)
(* is the index the metadata of a runtime gives to a function; a runtime   *)
(* upgrade may give that index to another.                                 *)
(***************************************************************************)
EXTENDS Integers, SequencesExt, FiniteSets

CONSTANTS Tasks,        \* callers that share the client
          Accounts,
          Account,      \* the account each task signs for
          Call,         \* the function each task calls
          Watching,     \* the tasks that watch; the others submit only
          Functions,
          Index,        \* the index of each function, by runtime version
          Failing,      \* the dispatches that fail, by function and nonce
          Nonces,       \* what set_nonce may be given by each task
          MaxBlocks,    \* bound: blocks of the node
          MaxXts,       \* bound: extrinsics a task signs
          Faults        \* what may fail: a subset of {"link", "pool"}

ASSUME SubxtAssumption ==
    /\ Account \in [Tasks -> Accounts]
    /\ Call \in [Tasks -> Functions]
    /\ Watching \subseteq Tasks /\ Nonces \in [Tasks -> SUBSET Nat]
    /\ Len(Index) \in Nat \ {0} /\ DOMAIN Index = 1..Len(Index)
    /\ \A v \in DOMAIN Index : \A f, g \in DOMAIN Index[v] :
         Index[v][f] \in Nat /\ (Index[v][f] = Index[v][g] => f = g)

VARIABLES
  chain,        \* the blocks of the node
  best,         \* the best of them
  pool,         \* extrinsics that wait
  connected,    \* the connection of the client
  client,       \* the answers it was built from
  pc,           \* where each task is
  signer,       \* PairSigner::nonce
  xt,           \* the extrinsic a task is busy with
  events_sub,   \* blocks whose events are on the way to a task
  xt_sub,       \* statuses on the way to a task
  target,       \* the block and the index a task waits for the events of
  result,       \* what the caller was told
  signed        \* every extrinsic that was signed

node == <<chain, best, pool>>
task == <<pc, signer, xt, events_sub, xt_sub, target, result, signed>>
svars == <<node, connected, client, task>>

None == <<"none">>
NoXt == [none |-> TRUE]
Requests == {"metadata", "genesis_hash", "runtime_version", "system_properties"}
Genesis == 1
Origin == [parent |-> 1, line |-> {1}, xts |-> <<>>, nonce |-> [a \in Accounts |-> 0], version |-> 1]

SInit == /\ chain = <<Origin>> /\ best = Genesis /\ pool = {} /\ connected = TRUE
         /\ client = [q \in Requests |-> None]
         /\ pc = [t \in Tasks |-> "idle"] /\ signer = [t \in Tasks |-> None]
         /\ xt = [t \in Tasks |-> NoXt] /\ target = [t \in Tasks |-> <<0, 0>>]
         /\ events_sub = [t \in Tasks |-> <<>>] /\ xt_sub = [t \in Tasks |-> <<>>]
         /\ result = [t \in Tasks |-> None] /\ signed = {}

-----------------------------------------------------------------------------
(* The node *)

\* what a runtime checks a signature against: its versions, the genesis block, and that an
\* immortal era begins with
Runtime(b) == LET v == chain[b].version IN <<v, v + 10, Genesis, Genesis>>
\* a block on b may apply x after the extrinsics in before
Ready(x, b, before) ==
               /\ x.nonce = chain[b].nonce[x.account] + Cardinality({y \in before : y.account = x.account})
               /\ x.additional = Runtime(b)
               /\ \E f \in DOMAIN Index[chain[b].version] : Index[chain[b].version][f] = x.call
Stale(x, b) == \/ x.nonce < chain[b].nonce[x.account]
               \/ x.additional # Runtime(b)
Rivals(x) == {y \in pool : y.account = x.account /\ y.nonce = x.nonce}

\* what a block may hold: up to two extrinsics of the pool, in an order that is valid
Contents(p) == {xs \in UNION {[1..n -> pool] : n \in 0..2} :
                    \A i \in DOMAIN xs : Ready(xs[i], p, {xs[j] : j \in 1..(i - 1)})}
Tell(t, b, enacted, retracted) ==
    LET In(c) == xt[t] \in ToSet(IF c = Len(chain) + 1 THEN b.xts ELSE chain[c].xts)
    IN IF pc[t] # "watching" THEN <<>>
       ELSE SetToSeq({<<"Retracted", c>> : c \in {c \in retracted : In(c)}})
            \o SetToSeq({<<"InBlock", c>> : c \in {c \in enacted : In(c)}})

\* a block on the best one, or beside it; every block has its events sent
import(p, xs, upgrade) ==
    LET id == Len(chain) + 1
        b == [parent |-> p, line |-> chain[p].line \cup {id}, xts |-> xs,
              nonce |-> [a \in Accounts |-> chain[p].nonce[a] + Cardinality({i \in DOMAIN xs : xs[i].account = a})],
              version |-> IF upgrade THEN chain[p].version + 1 ELSE chain[p].version]
        longer == Cardinality(b.line) > Cardinality(chain[best].line)
        enacted == IF longer THEN b.line \ chain[best].line ELSE {}
        retracted == IF longer THEN chain[best].line \ b.line ELSE {}
        of(c) == ToSet(IF c = id THEN xs ELSE chain[c].xts)
    IN /\ Len(chain) < MaxBlocks
       /\ Cardinality(chain[p].line) + 1 >= Cardinality(chain[best].line)
       /\ chain' = Append(chain, b)
       /\ best' = IF longer THEN id ELSE best
       /\ pool' = (pool \cup UNION {of(c) : c \in retracted}) \ UNION {of(c) : c \in enacted}
       /\ events_sub' = [t \in Tasks |-> IF connected /\ pc[t] \in {"subscribed", "watching", "events"}
                                         THEN Append(events_sub[t], id) ELSE events_sub[t]]
       /\ xt_sub' = [t \in Tasks |-> IF connected THEN xt_sub[t] \o Tell(t, b, enacted, retracted) ELSE xt_sub[t]]
       /\ UNCHANGED <<connected, client, pc, signer, xt, target, result, signed>>

\* the pool gives up an extrinsic that is stale, or any of them when it is full
Leave(x, status) ==
    /\ xt_sub' = [t \in Tasks |-> IF connected /\ pc[t] = "watching" /\ xt[t] = x
                                  THEN Append(xt_sub[t], status) ELSE xt_sub[t]]
    /\ UNCHANGED <<chain, best, connected, client, pc, signer, xt, events_sub, target, result, signed>>
leave == \E x \in pool : /\ pool' = pool \ {x}
                         /\ \/ Stale(x, best) /\ Leave(x, <<"Invalid">>)
                            \/ "pool" \in Faults /\ Leave(x, <<"Dropped">>)
disconnect == /\ "link" \in Faults /\ connected
              /\ connected' = FALSE
              /\ UNCHANGED <<node, client, task>>

-----------------------------------------------------------------------------
(* ClientBuilder::build: four requests at once, each answered from the best  *)
(* block of its moment                                                       *)

answer(q) == CASE q = "genesis_hash" -> Genesis
               [] q = "runtime_version" -> chain[best].version
               [] q = "metadata" -> chain[best].version
               [] OTHER -> 0
Fails == ~connected
ask(q) ==
    /\ client[q] = None
    /\ \/ connected /\ client' = [client EXCEPT ![q] = <<"ok", answer(q)>>]
       \/ Fails /\ client' = [client EXCEPT ![q] = <<"error">>]
    /\ UNCHANGED <<node, connected, task>>
\* the properties of the system have a default, the rest has none
built == /\ \A q \in Requests : client[q] # None
         /\ \A q \in Requests \ {"system_properties"} : client[q][1] = "ok"

-----------------------------------------------------------------------------
(* A task *)

Set(f, t, v) == f' = [f EXCEPT ![t] = v]
\* the handler ends, and drops its subscriptions
End(t, told) ==
    /\ Set(pc, t, "idle") /\ Set(result, t, told)
    /\ Set(events_sub, t, <<>>) /\ Set(xt_sub, t, <<>>) /\ Set(target, t, <<0, 0>>)
Fail(t, why) == End(t, <<"error", why>>) /\ UNCHANGED <<node, connected, client, signer, xt, signed>>

set_nonce(t, n) ==
    /\ pc[t] = "idle" /\ signer[t] = None /\ xt[t] = NoXt
    /\ Set(signer, t, <<"nonce", n>>)
    /\ UNCHANGED <<node, connected, client, pc, xt, events_sub, xt_sub, target, result, signed>>
\* a nonce that is not set stays so
increment_nonce(n) == IF n = None THEN None ELSE <<"nonce", n[2] + 1>>

\* mutant: the versions are given in the wrong order
extraSwapped(spec, tx, nonce, genesis) ==
    [spec |-> tx, tx |-> spec, genesis |-> genesis, era |-> genesis, nonce |-> nonce, tip |-> 0]
\* DefaultExtra::new and extra: an immortal era, no tip
extra(spec, tx, nonce, genesis) ==
    [spec |-> spec, tx |-> tx, genesis |-> genesis, era |-> genesis, nonce |-> nonce, tip |-> 0]
\* of CheckSpecVersion, CheckTxVersion, CheckGenesis and CheckEra: signed, not sent
additional_signed(e) == <<e.spec, e.tx, e.genesis, e.era>>
encode(f) == Index[client["metadata"][2]][f]
Signed(t, nonce, version) ==
    LET e == extra(version, version + 10, nonce, client["genesis_hash"][2])
    IN [id |-> <<t, Cardinality({x \in signed : x.id[1] = t})>>, account |-> Account[t],
        call |-> encode(Call[t]), nonce |-> e.nonce, additional |-> additional_signed(e)]
\* mutant: the version the chain has now
create_signedFresh(t, nonce) == Signed(t, nonce, chain[best].version)
create_signed(t, nonce) == Signed(t, nonce, client["runtime_version"][2])
\* the nonce of the signer, or else that of the account at the best block
sign(t) ==
    /\ built /\ pc[t] = "idle" /\ Cardinality({x \in signed : x.id[1] = t}) < MaxXts
    /\ \/ /\ signer[t] # None \/ connected
          /\ Call[t] \in DOMAIN Index[client["metadata"][2]]
          /\ LET x == create_signed(t, IF signer[t] # None THEN signer[t][2] ELSE chain[best].nonce[Account[t]])
             IN Set(xt, t, x) /\ signed' = signed \cup {x}
          /\ Set(pc, t, "signed") /\ Set(result, t, None)
          /\ UNCHANGED <<node, connected, client, signer, events_sub, xt_sub, target>>
       \/ signer[t] = None /\ Fails /\ Fail(t, "account")
       \/ Call[t] \notin DOMAIN Index[client["metadata"][2]] /\ Fail(t, "metadata")

\* the verdict of the pool on an extrinsic it is sent
Accepted(x) == \/ Rivals(x) = {} /\ pool' = pool \cup {x}
               \/ Rivals(x) # {} /\ pool' = (pool \ Rivals(x)) \cup {x}
Usurped(x) == [t \in Tasks |-> IF connected /\ pc[t] = "watching" /\ xt[t] \in Rivals(x)
                               THEN Append(xt_sub[t], <<"Usurped">>) ELSE xt_sub[t]]
\* told whether it was accepted, then the signer is moved on
submit_extrinsic(t) ==
    /\ t \notin Watching /\ pc[t] = "signed"
    /\ \/ /\ connected /\ ~Stale(xt[t], best) /\ Accepted(xt[t])
          /\ Set(signer, t, increment_nonce(signer[t]))
          /\ xt_sub' = Usurped(xt[t])
          /\ Set(pc, t, "idle") /\ Set(result, t, <<"hash", xt[t].id>>)
          /\ UNCHANGED <<chain, best, connected, client, xt, events_sub, target, signed>>
       \/ connected /\ Stale(xt[t], best) /\ Fail(t, "Invalid")
       \/ connected /\ Rivals(xt[t]) # {} /\ Fail(t, "priority")
       \/ Fails /\ Fail(t, "request")

\* the events first: of the best block, then of every block that comes
subscribe_events(t) ==
    /\ t \in Watching /\ pc[t] = "signed"
    /\ \/ /\ connected
          /\ Set(events_sub, t, <<best>>) /\ Set(pc, t, "subscribed")
          /\ UNCHANGED <<node, connected, client, signer, xt, xt_sub, target, result, signed>>
       \/ Fails /\ Fail(t, "request")
watch_extrinsic(t) ==
    /\ pc[t] = "subscribed"
    /\ \/ /\ connected /\ ~Stale(xt[t], best) /\ Accepted(xt[t])
          /\ xt_sub' = [Usurped(xt[t]) EXCEPT ![t] = <<<<"Ready">>>>]
          /\ Set(pc, t, "watching")
          /\ UNCHANGED <<chain, best, connected, client, signer, xt, events_sub, target, result, signed>>
       \/ connected /\ Stale(xt[t], best) /\ Fail(t, "Invalid")
       \/ connected /\ Rivals(xt[t]) # {} /\ Fail(t, "priority")
       \/ Fails /\ Fail(t, "request")
\* in progress is ignored, a block is fetched, and everything else is an error
status(t) ==
    /\ pc[t] = "watching" /\ xt_sub[t] # <<>>
    /\ LET s == Head(xt_sub[t])
       IN CASE s[1] = "Ready" ->
                 Set(xt_sub, t, Tail(xt_sub[t]))
                 /\ UNCHANGED <<node, connected, client, pc, signer, xt, events_sub, target, result, signed>>
            [] s[1] = "InBlock" ->
                 Set(pc, t, "block") /\ Set(target, t, <<s[2], 0>>) /\ Set(xt_sub, t, <<>>)
                 /\ UNCHANGED <<node, connected, client, signer, xt, events_sub, result, signed>>
            [] OTHER -> Fail(t, s[1])
\* mutant: the place of the extrinsic is counted from one too high
blockBeyond(t) ==
    /\ pc[t] = "block"
    /\ LET b == target[t][1]
           places == {i \in DOMAIN chain[b].xts : chain[b].xts[i] = xt[t]}
       IN \/ /\ connected
             /\ IF places = {} THEN Fail(t, "Failed to find Extrinsic")
                ELSE /\ Set(target, t, <<b, Min(places) + 1>>) /\ Set(pc, t, "events")
                     /\ UNCHANGED <<node, connected, client, signer, xt, events_sub, xt_sub, result, signed>>
          \/ connected /\ b \notin chain[best].line /\ Fail(t, "Failed to find block")
          \/ Fails /\ Fail(t, "request")
\* mutant: the events are subscribed to when the block is known
blockSubscribes(t) ==
    /\ pc[t] = "block"
    /\ LET b == target[t][1]
           places == {i \in DOMAIN chain[b].xts : chain[b].xts[i] = xt[t]}
       IN \/ /\ connected
             /\ IF places = {} THEN Fail(t, "Failed to find Extrinsic")
                ELSE /\ Set(target, t, <<b, Min(places)>>) /\ Set(pc, t, "events")
                     /\ Set(events_sub, t, <<best>>)
                     /\ UNCHANGED <<node, connected, client, signer, xt, xt_sub, result, signed>>
          \/ connected /\ b \notin chain[best].line /\ Fail(t, "Failed to find block")
          \/ Fails /\ Fail(t, "request")
\* a node may have pruned a block that was retracted
block(t) ==
    /\ pc[t] = "block"
    /\ LET b == target[t][1]
           places == {i \in DOMAIN chain[b].xts : chain[b].xts[i] = xt[t]}
       IN \/ /\ connected
             /\ IF places = {} THEN Fail(t, "Failed to find Extrinsic")
                ELSE /\ Set(target, t, <<b, Min(places)>>) /\ Set(pc, t, "events")
                     /\ UNCHANGED <<node, connected, client, signer, xt, events_sub, xt_sub, result, signed>>
          \/ connected /\ b \notin chain[best].line /\ Fail(t, "Failed to find block")
          \/ Fails /\ Fail(t, "request")

\* the records of a block, by index of their extrinsic, of which each has one
Applied(x, b) == LET index == Index[chain[chain[b].parent].version]
                 IN CHOOSE f \in DOMAIN index : index[f] = x.call
Fated(x, b) == <<Applied(x, b), x.nonce>> \in Failing
Records(b) == {[index |-> i, event |-> Applied(chain[b].xts[i], b),
                failed |-> Fated(chain[b].xts[i], b)] : i \in DOMAIN chain[b].xts}
\* mutant: the events of the whole block
filter_extrinsicNot(records, index) == records
filter_extrinsic(records, index) == {r \in records : r.index = index}
\* EventSubscription::next until it is finished; metadata of another version misreads a block
next(t) ==
    /\ pc[t] = "events" /\ events_sub[t] # <<>>
    /\ LET b == Head(events_sub[t])
           events == filter_extrinsic(Records(b), target[t][2])
       IN IF b # target[t][1]
          THEN /\ Set(events_sub, t, Tail(events_sub[t]))
               /\ UNCHANGED <<node, connected, client, pc, signer, xt, xt_sub, target, result, signed>>
          ELSE IF client["metadata"][2] # chain[chain[b].parent].version THEN Fail(t, "Codec")
          ELSE IF \E r \in events : r.failed THEN Fail(t, "Runtime")
          ELSE /\ End(t, <<"success", b, {<<r.index, r.event>> : r \in events}>>)
               /\ Set(signer, t, increment_nonce(signer[t]))
               /\ UNCHANGED <<node, connected, client, xt, signed>>

SNext == \/ \E p \in DOMAIN chain : \E xs \in Contents(p) :
                \E upgrade \in (IF chain[p].version < Len(Index) THEN BOOLEAN ELSE {FALSE}) :
                    import(p, xs, upgrade)
         \/ leave \/ disconnect
         \/ \E q \in Requests : ask(q)
         \/ \E t \in Tasks : \/ \E n \in Nonces[t] : set_nonce(t, n)
                             \/ sign(t) \/ submit_extrinsic(t) \/ subscribe_events(t)
                             \/ watch_extrinsic(t) \/ status(t) \/ block(t) \/ next(t)
SSpec == SInit /\ [][SNext]_svars
\* a task whose answer or message has come goes on
SFair == \A t \in Tasks : WF_svars(status(t) \/ block(t) \/ next(t))

-----------------------------------------------------------------------------
(* Properties *)

STypeOK ==
    /\ best \in DOMAIN chain /\ pool \subseteq signed
    /\ \A t \in Tasks :
        /\ pc[t] \in {"idle", "signed", "subscribed", "watching", "block", "events"}
        /\ pc[t] # "idle" => xt[t] \in signed
        /\ target[t][1] \in DOMAIN chain \cup {0}
        /\ pc[t] = "events" => target[t][2] \in DOMAIN chain[target[t][1]].xts
        /\ ToSet(events_sub[t]) \subseteq DOMAIN chain

ToldRight(t) ==
    /\ result[t][1] = "success" =>
         LET b == result[t][2]
         IN \E i \in DOMAIN chain[b].xts :
                /\ chain[b].xts[i] = xt[t]
                /\ result[t][3] = {<<i, Applied(xt[t], b)>>} /\ ~Fated(xt[t], b)
    /\ result[t] = <<"error", "Runtime">> =>
         \E b \in DOMAIN chain : xt[t] \in ToSet(chain[b].xts) /\ Fated(xt[t], b)

(* A watch that is told success is told a block that holds its extrinsic,    *)
(* and of that block the events of its extrinsic and of no other, whatever   *)
(* blocks and forks came while it watched; it is told a failed dispatch only *)
(* if it is its own that failed (EventSubscription, filter_extrinsic).       *)
ToldIsItsOwn == \A t \in Tasks : ToldRight(t)

(* Whatever block applies an extrinsic, it applies the function its task     *)
(* called, even if it was signed long before an upgrade of the runtime -     *)
(* provided the metadata and the version of the client, which build asks for *)
(* at once but not of one block, are those of one runtime (CheckSpecVersion).*)
AppliedAsMeant ==
    client["metadata"] = client["runtime_version"] =>
        \A b \in DOMAIN chain : \A i \in DOMAIN chain[b].xts :
            Applied(chain[b].xts[i], b) = Call[chain[b].xts[i].id[1]]

(* An extrinsic is invalid only for a reason: the runtime was upgraded since *)
(* its client was built, or the nonce of the account was taken by another    *)
(* one signed with the same, whoever set that nonce (create_signed).         *)
Reason(t) == \/ \E b \in DOMAIN chain : chain[b].version # client["runtime_version"][2]
             \/ \E y \in signed : y # xt[t] /\ y.account = xt[t].account /\ y.nonce = xt[t].nonce
InvalidForAReason == \A t \in Tasks : result[t] = <<"error", "Invalid">> => Reason(t)

(* A watch that was told a block comes to an end: the events of that block   *)
(* are still to come, whatever came in between, unless the connection is     *)
(* lost, for then its queues are silent for ever.                            *)
WatchEnds == \A t \in Tasks : pc[t] \in {"block", "events"} ~> pc[t] = "idle" \/ ~connected

(* Extrinsics do what they were made for: the types, what blocks apply and *)
(* why the pool refuses (extrinsic/signed.rs, lib.rs create_signed).       *)
ExtrinsicsAreRight == STypeOK /\ AppliedAsMeant /\ InvalidForAReason

-----------------------------------------------------------------------------
(* The inductive invariant: what the node, the client and the tasks agree on *)

\* what the client knows is of some runtime
Answers == {None, <<"error">>} \cup ({"ok"} \X Nat)
ClientAgrees ==
    /\ client \in [Requests -> Answers]
    /\ client["genesis_hash"][1] = "ok" => client["genesis_hash"][2] = Genesis
    /\ \A q \in {"metadata", "runtime_version"} : client[q][1] = "ok" => client[q][2] \in DOMAIN Index

\* an extrinsic is numbered by its task, and carries the call and the version of its client
Xts == [id : Tasks \X Nat, account : Accounts, call : Nat, nonce : Nat, additional : Nat \X Nat \X Nat \X Nat]
By(t) == {x \in signed : x.id[1] = t}
SignedAgree ==
    /\ IsFiniteSet(signed) /\ signed \subseteq Xts
    /\ \A x \in signed :
        LET t == x.id[1]  v == client["runtime_version"][2]
        IN /\ built /\ Call[t] \in DOMAIN Index[client["metadata"][2]] /\ x.call = encode(Call[t])
           /\ x.additional = <<v, v + 10, Genesis, Genesis>>
           /\ x.id[2] < Cardinality(By(t))

\* a block is the last of its line, and applies what was signed for its runtime
Blocks == [parent : Nat, line : SUBSET Nat, xts : Seq(Xts), nonce : [Accounts -> Nat], version : Nat]
ChainAgrees ==
    /\ chain \in Seq(Blocks) /\ chain # <<>>
    /\ \A b \in DOMAIN chain :
        /\ b \in chain[b].line /\ chain[b].line \subseteq 1..b
        /\ chain[b].parent \in DOMAIN chain /\ chain[b].version \in DOMAIN Index
        /\ Len(chain[b].xts) <= 2
        /\ \A i \in DOMAIN chain[b].xts :
             chain[b].xts[i] \in signed /\ chain[b].xts[i].additional = Runtime(chain[b].parent)

\* along a line, every nonce below that of an account was used, and no extrinsic is applied twice
Holds(c, x) == \E i \in DOMAIN chain[c].xts : chain[c].xts[i] = x
NoncesAgree ==
    \A b \in DOMAIN chain :
        /\ \A c \in chain[b].line : \A i \in DOMAIN chain[c].xts :
             chain[c].xts[i].nonce < chain[b].nonce[chain[c].xts[i].account]
        /\ \A a \in Accounts : \A n \in 0 .. (chain[b].nonce[a] - 1) :
             \E c \in chain[b].line : \E i \in DOMAIN chain[c].xts :
                 chain[c].xts[i].account = a /\ chain[c].xts[i].nonce = n
        /\ \A c, d \in chain[b].line, x \in signed : Holds(c, x) /\ Holds(d, x) => c = d

\* what waits is not yet applied
PoolAgrees == \A x \in pool, c \in chain[best].line : ~Holds(c, x)

\* a task starts with a client, and its extrinsic is its own, and nowhere before it is submitted
TasksAgree ==
    /\ DOMAIN pc = Tasks /\ DOMAIN signer = Tasks /\ DOMAIN xt = Tasks
    /\ DOMAIN target = Tasks /\ DOMAIN result = Tasks
    /\ \A t \in Tasks :
        /\ signer[t] \in {None} \cup ({"nonce"} \X Nat)
        /\ pc[t] # "idle" => xt[t].id[1] = t
        /\ pc[t] \in {"block", "events"} => target[t][1] \in DOMAIN chain
        /\ result[t] # None => built
        /\ pc[t] \in {"signed", "subscribed"} =>
             xt[t] \notin pool /\ \A c \in DOMAIN chain : ~Holds(c, xt[t])

\* a status is of a block that exists, and a refusal that is on the way has its reason
Statuses == {<<"Ready">>, <<"Usurped">>, <<"Dropped">>, <<"Invalid">>} \cup ({"InBlock", "Retracted"} \X DOMAIN chain)
QueuesAgree ==
    /\ DOMAIN events_sub = Tasks /\ DOMAIN xt_sub = Tasks
    /\ \A t \in Tasks :
        /\ events_sub[t] \in Seq(Nat) /\ xt_sub[t] \in Seq(Statuses)
        /\ pc[t] # "watching" => xt_sub[t] = <<>>
        /\ <<"Invalid">> \in ToSet(xt_sub[t]) => Reason(t)

\* what waits for its events knows its place in their block, and success is told of a block that exists
WaitsRight(t) == /\ pc[t] = "events" => chain[target[t][1]].xts[target[t][2]] = xt[t]
                 /\ result[t][1] = "success" => result[t][2] \in DOMAIN chain
TellsAgree == \A t \in Tasks : WaitsRight(t)

SIInv == /\ STypeOK /\ ClientAgrees /\ SignedAgree /\ ChainAgrees /\ NoncesAgree /\ PoolAgrees
         /\ TasksAgree /\ QueuesAgree /\ InvalidForAReason
=============================================================================
